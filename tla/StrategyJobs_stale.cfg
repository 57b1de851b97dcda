SPECIFICATION Spec
CONSTANTS
  j1 = j1
  j2 = j2
  j3 = j3
  Jobs = {j1}
  KeyOf <- MCKeyOf
  Live = {j1}
  Bound = {j1}
  Workers = {w1}
  NoJob = NoJob
  DailyLimit = 1
  Faults = {}
  MaxRev = 2
  MaxCrash = 0
PROPERTY QueuedOrdersCurrent
CHECK_DEADLOCK FALSE
