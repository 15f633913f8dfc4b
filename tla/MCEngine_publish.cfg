SPECIFICATION FairSpec
CONSTANTS
  Caller = {c1}
  Stopper = {}
  Addr = {x}
  NoAddr = NoAddr
  NoOne = NoOne
  MaxSession = 1
  MaxEvent = 0
  MaxFail = 1
PROPERTIES PublishConverges
CHECK_DEADLOCK FALSE
