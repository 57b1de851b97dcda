SPECIFICATION FairSpec
CONSTANTS
    NLegs = 2
    Accounts <- MCAccounts
    MaxHedges = 3
    MaxOrders = 2
    MaxUpsets = 1
    MaxReopen = 1
    Faults = {"raise", "lost_reply", "quote"}
INVARIANTS TypeOK ExitOnce ClosedIsFlat OneHedge
PROPERTIES StoppedEndsFlat LostEntryKept
CHECK_DEADLOCK FALSE
