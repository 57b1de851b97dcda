SPECIFICATION Spec
CONSTANTS
  MaxEntries = 1
  Qty = 2
  Accounts = {TRUE, FALSE}
  Requests = {r1}
  Ops <- MCAllOps
  Faults <- MCAllFaults
  MaxRev = 2
  MaxCrash = 1
  MaxShort = 0
INVARIANTS
  TypeOK
  ExposureTracked
PROPERTY NoSupersededOrder
