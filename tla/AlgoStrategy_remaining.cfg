SPECIFICATION Spec
CONSTANTS
  MaxEntries = 1
  Qty = 1
  Accounts = {TRUE, FALSE}
  Requests = {r1}
  Ops = {"refresh"}
  Faults = {}
  MaxRev = 1
  MaxCrash = 0
  MaxShort = 1
PROPERTY RemainingNetPreserved
CHECK_DEADLOCK FALSE
