--------------------------- MODULE HeartbeatTimes ---------------------------
(* The times of the heartbeat, in one unit of time, and what it promises. *)
EXTENDS Naturals

CONSTANTS
  Interval, StallTimeout,  \* HeartbeatConfig
  MinPeriod,               \* the floor of the tick interval
  AnswerWithin,            \* how long the device takes to answer, at most
  MaxPings,                \* bound: pings in flight when the user sends one
  Punctual,                \* timers fire on time
  OverLive,                \* connect() may be called over a live connection
  None

ASSUME HeartbeatAssumption ==
  /\ Interval \in Nat \ {0} /\ StallTimeout \in Nat \ {0} /\ MinPeriod \in Nat \ {0}
  /\ AnswerWithin \in Nat /\ MaxPings \in Nat
  /\ Punctual \in BOOLEAN /\ OverLive \in BOOLEAN
  /\ None \notin Nat

VARIABLES
  answers,  \* the kind of device: does it answer every ping
  timer,    \* time until the supervisory timer fires, or None: not running
  idle,     \* age of lastActivityAtMs
  link,     \* the connection: "none", "opening" (connectInternal) or "up"
  verdict   \* history: the last stall

\* The period of the supervisory timer.
Period == IF Interval \div 2 > MinPeriod THEN Interval \div 2 ELSE MinPeriod

\* A device that answers its pings in time is never declared stalled, however little else it
\* has to say.
NoFalseStall == answers => verdict = None

\* A silent connection is given up one period after the timeout at the latest.
SilenceIsNoticed == link = "up" => timer # None /\ idle < StallTimeout + Period
=============================================================================
