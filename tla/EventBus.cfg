CONSTANTS
  Callbacks = {c1}
  Onces = {o1}
  Streams = {s1}
  HighWater = 2
  MaxEmits = 4
  MaxDepth = 2
  Cameras = {cam1, cam2}
  Consumers = {k1}
  MaxImage = 2
  Sizes = {1, 4}
  MaxImages = 3
  MaxSessions = 2
  Awaits = {a1}
  MaxEvents = 3
  Mark = 1
  MaxCommands = 1
  Calls = {q1, q2, q3}
  Keys = {y1, y2}
  None = None
SPECIFICATION MCSpec
CHECK_DEADLOCK FALSE
INVARIANTS
  MCTypeOK
  WaitersAreReachable
  DisposeSettlesAll
  SnapshotsAreWhole
  DevicesAreToldWhatWasAsked
  WaitersGetTheirOwn
  EntriesAreThePendingCalls
PROPERTIES BoundedWaitsEnd
