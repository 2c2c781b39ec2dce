CONSTANTS
  Callers = {c1}
  Loops = {l1, l2}
  Conns = {k1, k2}
  None = None
  MaxAttempts = 2
  ReconnectEnabled = TRUE
  KeepAlive = TRUE
  ListenersConnect = FALSE
  MaxRetries = 2
  MaxConnects = 2
SPECIFICATION MCSpec
PROPERTY ClosedStaysClosed
