SPECIFICATION Spec
CONSTANTS
  tun = tun
  ctl = ctl
  Worker = {w}
  Timer = {tm}
  Receiver = {r}
  Elem = {e1, e2}
  Nil = Nil
  BatchSize = 2
  QueueStagedSize = 1
  QueueOutboundSize = 1
  RejectAfterMessages = 1
  NonceSpace = 7
  Intervals = {15}
  MaxKey = 1
  MaxUp = 2
  MaxEvent = 1
SYMMETRY Symmetry
INVARIANTS TypeOK NoNonceReuse OneHolder NothingStranded QueueStaysOpen
CHECK_DEADLOCK FALSE
