SPECIFICATION DeviceSpec
CONSTANTS
  Width = 3
  RoutePeer = {p1, p2}
  Nil = Nil
  MaxEntries = 3
  BlockBits = 2
  RingBlocks = 4
  CounterLimit = 13
  HsWorker = {h1, h2}
  Source = {s1, s2}
  CookieRefreshTime = 1
  None = None
  MaxKeys = 2
  MaxSecrets = 2
  MaxRequests = 2
  Worker = {w1, w2}
  Addr = {a1, a2}
  packetCost = 1
  maxTokens = 3
  garbageCollectTime = 3
  NoEntry = NoEntry
  MaxRaces = 1
  Key = {k1, k2}
  Cidr = {c1}
  NoKey = NoKey
  MaxPeers = 2
SYMMETRY Symmetry
INVARIANTS DeviceTypeOK TrieCorrect
  AdmittedOwnsAddress CleanupForgetsNothing OnlyReplacingBlocks
  PeersConsistent PeersFollowDevice
PROPERTIES TrieImplementsRoutes FilterImplementsWindow CookieFresh
