CONSTANTS
  Calls = {c1, c2, c3}
  Addresses = {a1, a2}
  Admin = {"pair"}
  MaxBatches = 2
  None = None
  Callers = {p1, p2}
  Instances = {i1}
  MaxLinks = 2
  MaxAsked = 2
  Readers = {r1}
  Ports = {port}
  Channels = {port, "zwave", "free", "notify", "advertisements"}
  SharedChannels = {port}
  Retained = {"free"}
  Replayed = {"notify"}
  Intents = {"voice"}
  HomeIds = {0, 1}
  MaxSent = 2
  MaxHomes = 1
SPECIFICATION MCSpec
CHECK_DEADLOCK FALSE
INVARIANT DiscoveryHasAccumulator
