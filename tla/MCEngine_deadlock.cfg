SPECIFICATION FairSpec
CONSTANTS
  Caller = {c1}
  Stopper = {c1}
  Addr = {x, y}
  NoAddr = NoAddr
  NoOne = NoOne
  MaxSession = 1
  MaxEvent = 0
  MaxFail = 0
PROPERTIES StopReturns
CHECK_DEADLOCK FALSE
