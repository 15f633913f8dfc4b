SPECIFICATION SceneSpec
CONSTANTS
  c1 = c1
  x = x
  Caller = {c1, c2}
  Stopper = {c1}
  Addr = {x, y}
  NoAddr = NoAddr
  NoOne = NoOne
  MaxSession = 2
  MaxEvent = 1
  MaxFail = 1
INVARIANTS TypeOK NoLostWakeup NoCallbackAfterClose
PROPERTIES LoopsEnd
CHECK_DEADLOCK FALSE
