CONSTANTS
  Handles = {h1, h2, h3, pin}
  Keys = {k1, channel}
  Intents = {0, 1, 2}
  Empty = Empty
  Pin = pin
  Channel = channel
  Reduce <- MaxIntent
  Interval = 4
  StallTimeout = 8
  MinPeriod = 1
  AnswerWithin = 2
  MaxPings = 1
  Punctual = TRUE
  OverLive = FALSE
  None = None
SPECIFICATION MCSpec
INVARIANT GoneIteratorsHoldNothing
