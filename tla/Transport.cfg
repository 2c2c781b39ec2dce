CONSTANTS
  Kinds = {"noise", "plain", "eager", "faulty"}
  RecvLimits = {3, 4}
  MaxChunk = 3
  MaxMessages = 3
  None = None
  MaxNonce = 2
  MaxAttempts = 2
  MaxFaults = 1
  MaxSends = 3
  MaxRekeys = 1
  Group = 2
  Word = 7
  Wide = 13
  Fixed32 = 2
  Fixed64 = 3
  MaxVarintBytes = 7
  Limits = {1, 2}
  MaxSent = 2
  CaptureGroup = 4
  MaxFrames = 5
SPECIFICATION MCFairSpec
INVARIANTS
  MCTypeOK
  WaitersAreReachable
  DevicesAreHeard
  SecretsAreSafe
  MessagesSurvive
  ReadingsAreFaithful
PROPERTY
  ConnectionsConclude
CHECK_DEADLOCK FALSE
