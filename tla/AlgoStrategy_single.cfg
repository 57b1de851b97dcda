SPECIFICATION Spec
CONSTANTS
  MaxEntries = 2
  Qty = 1
  Accounts = {TRUE}
  Requests = {r1, r2}
  Ops = {"start", "stop", "refresh"}
  Faults = {"raise"}
  MaxRev = 4
  MaxCrash = 1
  MaxShort = 0
SYMMETRY MCSymmetry
INVARIANTS
  SingleExposure
  CrashedEntryBlocks
PROPERTY OwnOutcome
