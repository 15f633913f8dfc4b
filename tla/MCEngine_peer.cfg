SPECIFICATION FairSpec
CONSTANTS
  Caller = {c1}
  Stopper = {}
  Addr = {x, y}
  NoAddr = NoAddr
  NoOne = NoOne
  MaxSession = 1
  MaxEvent = 1
  MaxFail = 0
PROPERTIES PeerConverges
CHECK_DEADLOCK FALSE
