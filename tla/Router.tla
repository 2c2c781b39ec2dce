------------------------------- MODULE Router -------------------------------
(***************************************************************************)
(* What MessageReceiver promises of the messages: each goes straight to    *)
(* the one who takes it or waits in the line of its type, from which only  *)
(* the oldest leaves.  Who takes it, and why, is the receiver's business,  *)
(* except that nobody overtakes a line but an interleave handler, and that *)
(* the lines are empty when the run phase begins.                          *)
(***************************************************************************)
EXTENDS Naturals, Sequences

CONSTANTS
  Types,      \* message types
  HighWater   \* the longest line

VARIABLES
  stage,      \* "setup", "run" or "closed"
  arrived,    \* messages so far
  line,       \* type -> the messages that wait, oldest first
  taken,      \* type -> the messages that were taken in turn
  aside,      \* the messages an interleave handler took
  lost        \* the messages that a full line cost

vars == <<stage, arrived, line, taken, aside, lost>>

Init ==
  /\ stage = "setup"
  /\ arrived = 0
  /\ line = [t \in Types |-> <<>>]
  /\ taken = [t \in Types |-> <<>>]
  /\ aside = {}
  /\ lost = {}

Arrives == arrived' = arrived + 1

\* A message waits; one too many costs the oldest.
JoinsLine(t) ==
  /\ Arrives
  /\ stage = "setup"
  /\ LET full == Append(line[t], arrived')
         over == Len(full) > HighWater
     IN  /\ line' = [line EXCEPT ![t] = IF over THEN Tail(full) ELSE full]
         /\ lost' = IF over THEN lost \cup {Head(full)} ELSE lost
  /\ UNCHANGED <<stage, taken, aside>>

\* A message goes straight to its taker: nothing of its type waits.
PassesThrough(t) ==
  /\ Arrives
  /\ stage # "closed"
  /\ line[t] = <<>>
  /\ taken' = [taken EXCEPT ![t] = Append(@, arrived')]
  /\ UNCHANGED <<stage, line, aside, lost>>

\* An interleave handler takes it at once.
IsIntercepted ==
  /\ Arrives
  /\ stage = "setup"
  /\ aside' = aside \cup {arrived'}
  /\ UNCHANGED <<stage, line, taken, lost>>

\* Nobody is there any more.
IsIgnored ==
  /\ Arrives
  /\ stage = "closed"
  /\ UNCHANGED <<stage, line, taken, aside, lost>>

LeavesLine(t) ==
  /\ stage = "setup"
  /\ line[t] # <<>>
  /\ taken' = [taken EXCEPT ![t] = Append(@, Head(line[t]))]
  /\ line' = [line EXCEPT ![t] = Tail(@)]
  /\ UNCHANGED <<stage, arrived, aside, lost>>

\* The run phase takes all that waits.
HandsOver ==
  /\ stage = "setup"
  /\ stage' = "run"
  /\ taken' = [t \in Types |-> taken[t] \o line[t]]
  /\ line' = [t \in Types |-> <<>>]
  /\ UNCHANGED <<arrived, aside, lost>>

Closes ==
  /\ stage # "closed"
  /\ stage' = "closed"
  /\ line' = [t \in Types |-> <<>>]
  /\ UNCHANGED <<arrived, taken, aside, lost>>

Next ==
  \/ \E t \in Types : JoinsLine(t) \/ PassesThrough(t) \/ LeavesLine(t)
  \/ IsIntercepted
  \/ IsIgnored
  \/ HandsOver
  \/ Closes

Spec == Init /\ [][Next]_vars
-----------------------------------------------------------------------------
\* All that ever stood in the line of a type and was not lost, first come first.
Queue(t) == taken[t] \o line[t]

\* Of one type, what was taken in turn and what still waits is in the order of arrival.
LinesKeepTheirOrder ==
  \A t \in Types : \A i, j \in DOMAIN Queue(t) : i < j => Queue(t)[i] < Queue(t)[j]

Queued(n) == {t \in Types : \E i \in DOMAIN Queue(t) : Queue(t)[i] = n}

\* Until the end a message that arrived has one fate: it was intercepted, or lost, or it
\* stood in the line of one type, where it waits or was taken.
EveryMessageHasOneFate ==
  stage # "closed" =>
    \A n \in 1..arrived :
      \/ n \in aside /\ n \notin lost /\ Queued(n) = {}
      \/ n \in lost /\ n \notin aside /\ Queued(n) = {}
      \/ n \notin aside \cup lost /\ \E t \in Types : Queued(n) = {t}
=============================================================================
