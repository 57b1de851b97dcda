SPECIFICATION Spec
CONSTANTS
  MaxEntries = 1
  Qty = 1
  Accounts = {TRUE, FALSE}
  Requests = {r1}
  Ops = {}
  Faults = {"unreported"}
  MaxRev = 1
  MaxCrash = 0
  MaxShort = 0
INVARIANT ClosedIsFlat
CHECK_DEADLOCK FALSE
