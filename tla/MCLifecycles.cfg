SPECIFICATION LifecyclesSpec
CONSTANTS
  User = {u1}
  Timers = {"retransmitHandshake", "sendKeepalive"}
  MaxTimerHandshakes = 0
  MaxStarts = 1
  MaxFired = 1
  FrpRun = {r1, r2, r3}
  FrpStopper = {t1}
  NilRun = NilRun
  Endpoint = {e1}
  NoEndpoint = NoEndpoint
  MaxStunStarts = 2
  EventsCap = 1
  Mtu = {1, 3}
  MaxContentSize = 2
  MaxLinkChanges = 2
INVARIANTS LifecyclesTypeOK StopDeletesTimers FrpReachable TunEventsOpen
PROPERTIES StopQuiesces StunStops TunListenersEnd TunConverges
CHECK_DEADLOCK FALSE
