CONSTANTS
  Interval = 4
  StallTimeout = 8
  MinPeriod = 1
  AnswerWithin = 2
  MaxPings = 1
  Punctual = TRUE
  OverLive = TRUE
  None = None
SPECIFICATION Spec
INVARIANT StallsWerePinged
