SPECIFICATION FairSpec
CONSTANTS
  Commands = {c1, c2}
  NoCommand = NoCommand
  Peers = {"old"}
  Workloads <- MCWorkloads
  AliceUsers = {"alice"}
  MstockUsers = {"mstock"}
  OtherUsers = {"dhan"}
  MaxSessions = 2
  Chain <- MCChain
  Waiting = {"upstox"}
  Keeping = {"zerodha"}
INVARIANTS TypeOK EngineTold CommandOnce SessionsChecked OneStream
PROPERTIES CommandsTaken StopEnds UserListed PricesReturn
CHECK_DEADLOCK FALSE
