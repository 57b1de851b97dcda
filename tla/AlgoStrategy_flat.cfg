SPECIFICATION FairSpec
CONSTANTS
  MaxEntries = 1
  Qty = 2
  Accounts = {TRUE, FALSE}
  Requests = {r1}
  Ops = {"stop", "edit", "refresh"}
  Faults = {"raise", "lost_reply"}
  MaxRev = 2
  MaxCrash = 1
  MaxShort = 1
PROPERTY StoppedGoesFlat
