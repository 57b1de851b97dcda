SPECIFICATION Spec
CONSTANTS
  MaxEntries = 1
  Qty = 1
  Accounts = {TRUE, FALSE}
  Requests = {r1}
  Ops = {"stop"}
  Faults = {}
  MaxRev = 2
  MaxCrash = 0
  MaxShort = 0
PROPERTY StoppedStaysStopped
CHECK_DEADLOCK FALSE
