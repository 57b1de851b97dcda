SPECIFICATION Spec
CONSTANTS
  MaxEntries = 2
  Qty = 1
  Accounts = {TRUE, FALSE}
  Requests = {r1}
  Ops = {"start"}
  Faults = {"quote"}
  MaxRev = 2
  MaxCrash = 0
  MaxShort = 0
INVARIANT NoDuplicateEntry
CHECK_DEADLOCK FALSE
