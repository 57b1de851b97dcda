SPECIFICATION FairSpec
CONSTANTS
  j1 = j1
  j2 = j2
  j3 = j3
  Jobs = {j1, j2, j3}
  KeyOf <- MCKeyOf
  Live = {j1, j2}
  Bound = {j1}
  Workers = {w1, w2}
  NoJob = NoJob
  DailyLimit = 1
  Faults = {"raise", "lost_reply", "record"}
  MaxRev = 1
  MaxCrash = 1
INVARIANTS
  TypeOK
  LimitOvershoot
PROPERTIES
  OneOrderPerKey
  JobsResolved
