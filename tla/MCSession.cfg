CONSTANTS
  Callers = {c1}
  Loops = {l1, l2, l3}
  Conns = {k1, k2, k3}
  None = None
  MaxAttempts = 3
  ReconnectEnabled = TRUE
  KeepAlive = TRUE
  ListenersConnect = FALSE
  MaxRetries = 2
  MaxConnects = 2
SPECIFICATION MCFairSpec
INVARIANTS
  MCTypeOK
  OneConnectFlow
  NothingIsOrphaned
  LoopsAreOwned
  LiveIsHonest
  BodiesFollowConnections
PROPERTIES
  ClientIsALifecycle
  EveryCallConcludes
