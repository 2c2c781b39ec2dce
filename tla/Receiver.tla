------------------------------ MODULE Receiver ------------------------------
(***************************************************************************)
(* MessageReceiver: it pulls the transport's messages one by one and gives *)
(* each to an interleave handler, to the oldest waitFor() that wants its   *)
(* type, or to a buffer per type; startDrain() hands everything over to    *)
(* the run phase's handlers, dispose() ends it.                            *)
(*                                                                         *)
(* Each public method and each turn of the pump runs without an await, so  *)
(* each is one step.  A waitFor() call is one element of Waits: it may     *)
(* come at any time, several may be open.  Messages are numbered in the    *)
(* order the transport yields them.                                        *)
(***************************************************************************)
EXTENDS Naturals, Sequences, FiniteSets, SequencesExt

CONSTANTS
  Types,        \* message types
  Waits,        \* waitFor() calls
  HighWater,    \* MAX_BUFFERED_PER_TYPE
  MaxMessages   \* bound: messages the transport yields

ASSUME ReceiverAssumption == HighWater \in Nat \ {0} /\ MaxMessages \in Nat

VARIABLES
  phase,        \* "setup", "drain" (drainHandlers set) or "disposed"
  pump,         \* "idle", "running" or "ended"
  pumpError,    \* this.pumpError # null
  interleave,   \* types with an interleave handler
  buffer,       \* this.typeBuffers
  order,        \* the buffered types in the Map's insertion order
  call,         \* state of each waitFor() call
  wants,        \* the types it waits for
  ticket,       \* its place in the awaiters Set
  asked,        \* waits parked so far
  arrived,      \* messages pulled so far
  taken,        \* history: type -> the messages a wait or a drain handler got, in turn
  aside,        \* history: the messages an interleave handler got
  dropped,      \* history: the messages lost to the high-water mark
  reported      \* history: calls of onTerminal

waitVars == <<call, wants, ticket, asked>>
history == <<taken, aside, dropped>>
vars == <<phase, pump, pumpError, interleave, buffer, order, waitVars, arrived, history, reported>>

TypeOK ==
  /\ phase \in {"setup", "drain", "disposed"}
  /\ pump \in {"idle", "running", "ended"}
  /\ pumpError \in BOOLEAN
  /\ interleave \subseteq Types
  /\ buffer \in [Types -> Seq(Nat)]
  /\ order \in Seq(Types)
  /\ call \in [Waits -> {"new", "parked", "resolved", "rejected"}]
  /\ wants \in [Waits -> SUBSET Types]
  /\ ticket \in [Waits -> Nat]
  /\ asked \in Nat
  /\ arrived \in Nat
  /\ taken \in [Types -> Seq(Nat)]
  /\ aside \subseteq Nat
  /\ dropped \subseteq Nat
  /\ reported \in Nat

Init ==
  /\ phase = "setup"
  /\ pump = "idle"
  /\ pumpError = FALSE
  /\ interleave = {}
  /\ buffer = [t \in Types |-> <<>>]
  /\ order = <<>>
  /\ call = [w \in Waits |-> "new"]
  /\ wants = [w \in Waits |-> {}]
  /\ ticket = [w \in Waits |-> 0]
  /\ asked = 0
  /\ arrived = 0
  /\ taken = [t \in Types |-> <<>>]
  /\ aside = {}
  /\ dropped = {}
  /\ reported = 0

-----------------------------------------------------------------------------
Parked == {w \in Waits : call[w] = "parked"}

EnsurePump == pump' = IF pump = "idle" THEN "running" ELSE pump

\* Mutant: only the parked calls are kept.
RejectedForgets == [w \in Parked |-> "rejected"]

\* failPending(), and the same loop in startDrain() and dispose().
Rejected == [w \in Waits |-> IF call[w] = "parked" THEN "rejected" ELSE call[w]]

Deliver(t, id) == taken' = [taken EXCEPT ![t] = Append(@, id)]

\* The type's buffer without its oldest message; the Map entry goes with the last one.
TakeOldest(t) ==
  /\ buffer' = [buffer EXCEPT ![t] = Tail(@)]
  /\ IF Len(buffer[t]) = 1
       THEN \E i \in DOMAIN order : order[i] = t /\ order' = RemoveAt(order, i)
       ELSE UNCHANGED order

-----------------------------------------------------------------------------
(* waitFor(). *)

WaitFinds(w, types) ==
  /\ call[w] = "new"
  /\ phase = "setup"
  /\ \E t \in types :
       /\ buffer[t] # <<>>
       /\ TakeOldest(t)
       /\ Deliver(t, Head(buffer[t]))
  /\ call' = [call EXCEPT ![w] = "resolved"]
  /\ wants' = [wants EXCEPT ![w] = types]
  /\ UNCHANGED <<phase, pump, pumpError, interleave, ticket, asked, arrived, aside, dropped, reported>>

\* Mutant: one wanted type without buffered messages is enough to park.
WaitParksTooEarly(w, types) ==
  /\ call[w] = "new"
  /\ phase = "setup"
  /\ \E t \in types : buffer[t] = <<>>
  /\ ~pumpError
  /\ EnsurePump
  /\ call' = [call EXCEPT ![w] = "parked"]
  /\ wants' = [wants EXCEPT ![w] = types]
  /\ ticket' = [ticket EXCEPT ![w] = asked]
  /\ asked' = asked + 1
  /\ UNCHANGED <<phase, pumpError, interleave, buffer, order, arrived, history, reported>>

WaitParks(w, types) ==
  /\ call[w] = "new"
  /\ phase = "setup"
  /\ \A t \in types : buffer[t] = <<>>
  /\ ~pumpError
  /\ EnsurePump
  /\ call' = [call EXCEPT ![w] = "parked"]
  /\ wants' = [wants EXCEPT ![w] = types]
  /\ ticket' = [ticket EXCEPT ![w] = asked]
  /\ asked' = asked + 1
  /\ UNCHANGED <<phase, pumpError, interleave, buffer, order, arrived, history, reported>>

\* Disposed, draining, or failed with nothing buffered: waitFor() throws.
WaitThrows(w, types) ==
  /\ call[w] = "new"
  /\ phase # "setup" \/ (pumpError /\ \A t \in types : buffer[t] = <<>>)
  /\ call' = [call EXCEPT ![w] = "rejected"]
  /\ wants' = [wants EXCEPT ![w] = types]
  /\ UNCHANGED <<phase, pump, pumpError, interleave, buffer, order, ticket, asked, arrived,
                 history, reported>>

\* The call's signal fires (every wait of the handshake carries a timeout).
Abort(w) ==
  /\ call[w] = "parked"
  /\ call' = [call EXCEPT ![w] = "rejected"]
  /\ UNCHANGED <<phase, pump, pumpError, interleave, buffer, order, wants, ticket, asked,
                 arrived, history, reported>>

-----------------------------------------------------------------------------
(* onInterleave() and its disposer. *)

OnInterleave(t) ==
  /\ phase = "setup"
  /\ interleave' = interleave \cup {t}
  /\ EnsurePump
  /\ UNCHANGED <<phase, pumpError, buffer, order, waitVars, arrived, history, reported>>

StopInterleave(t) ==
  /\ t \in interleave
  /\ interleave' = interleave \ {t}
  /\ UNCHANGED <<phase, pump, pumpError, buffer, order, waitVars, arrived, history, reported>>

-----------------------------------------------------------------------------
(* The pump: one message of the transport, dispatched. *)

Arrives == pump = "running" /\ arrived < MaxMessages /\ arrived' = arrived + 1

\* An interleave handler runs.  If it throws, every wait is rejected and the error kept.
Intercept(t) ==
  /\ Arrives
  /\ phase = "setup"
  /\ t \in interleave
  /\ aside' = aside \cup {arrived'}
  /\ \/ UNCHANGED <<pumpError, call>>
     \/ pumpError' = TRUE /\ call' = Rejected
  /\ UNCHANGED <<phase, pump, interleave, buffer, order, wants, ticket, asked, taken, dropped,
                 reported>>

\* The oldest wait for the type gets it.
Hand(t) ==
  /\ Arrives
  /\ phase = "setup"
  /\ t \notin interleave
  /\ \E w \in Parked :
       /\ t \in wants[w]
       /\ \A v \in Parked : t \in wants[v] => ticket[w] <= ticket[v]
       /\ call' = [call EXCEPT ![w] = "resolved"]
  /\ Deliver(t, arrived')
  /\ UNCHANGED <<phase, pump, pumpError, interleave, buffer, order, wants, ticket, asked,
                 aside, dropped, reported>>

\* Mutant: past the high-water mark the newest message is dropped, not the oldest.
BufferDropsNewest(t) ==
  /\ Arrives
  /\ phase = "setup"
  /\ t \notin interleave
  /\ \A w \in Parked : t \notin wants[w]
  /\ LET full == Append(buffer[t], arrived')
         over == Len(full) > HighWater
     IN  /\ buffer' = [buffer EXCEPT ![t] = IF over THEN buffer[t] ELSE full]
         /\ dropped' = IF over THEN dropped \cup {arrived'} ELSE dropped
  /\ order' = IF buffer[t] = <<>> THEN Append(order, t) ELSE order
  /\ UNCHANGED <<phase, pump, pumpError, interleave, waitVars, taken, aside, reported>>

\* Nobody wants it yet; past the high-water mark the oldest of its type goes.
Buffer(t) ==
  /\ Arrives
  /\ phase = "setup"
  /\ t \notin interleave
  /\ \A w \in Parked : t \notin wants[w]
  /\ LET full == Append(buffer[t], arrived')
         over == Len(full) > HighWater
     IN  /\ buffer' = [buffer EXCEPT ![t] = IF over THEN Tail(full) ELSE full]
         /\ dropped' = IF over THEN dropped \cup {Head(full)} ELSE dropped
  /\ order' = IF buffer[t] = <<>> THEN Append(order, t) ELSE order
  /\ UNCHANGED <<phase, pump, pumpError, interleave, waitVars, taken, aside, reported>>

\* Run phase: the handler runs; if it throws, the message is dropped and the pump goes on.
Drain(t) ==
  /\ Arrives
  /\ phase = "drain"
  /\ Deliver(t, arrived')
  /\ UNCHANGED <<phase, pump, pumpError, interleave, buffer, order, waitVars, aside, dropped,
                 reported>>

\* After dispose() the next message ends the pump.
PumpStops ==
  /\ Arrives
  /\ phase = "disposed"
  /\ pump' = "ended"
  /\ UNCHANGED <<phase, pumpError, interleave, buffer, order, waitVars, history, reported>>

\* Mutant: a clean end is not escalated.
PumpEndsQuietly(error) ==
  /\ pump = "running"
  /\ pump' = "ended"
  /\ pumpError' = (pumpError \/ error)
  /\ call' = Rejected
  /\ reported' = IF phase = "drain" /\ error THEN reported + 1 ELSE reported
  /\ UNCHANGED <<phase, interleave, buffer, order, wants, ticket, asked, arrived, history>>

\* The iterator returns (no error) or throws: failPending() and settleTerminal().
PumpEnds(error) ==
  /\ pump = "running"
  /\ pump' = "ended"
  /\ pumpError' = (pumpError \/ error)
  /\ call' = Rejected
  /\ reported' = IF phase = "drain" THEN reported + 1 ELSE reported
  /\ UNCHANGED <<phase, interleave, buffer, order, wants, ticket, asked, arrived, history>>

-----------------------------------------------------------------------------
\* startDrain(): the buffers are replayed, type by type.  connectInternal() calls it when its last send has gone through, which a
\* transport that has ended refuses: the pump has not ended.
StartDrain ==
  /\ phase = "setup"
  /\ pump # "ended"
  /\ EnsurePump
  /\ phase' = "drain"
  /\ call' = Rejected
  /\ interleave' = {}
  /\ taken' = [t \in Types |-> taken[t] \o buffer[t]]
  /\ buffer' = [t \in Types |-> <<>>]
  /\ order' = <<>>
  /\ UNCHANGED <<pumpError, wants, ticket, asked, arrived, aside, dropped, reported>>

Dispose ==
  /\ phase # "disposed"
  /\ phase' = "disposed"
  /\ call' = Rejected
  /\ interleave' = {}
  /\ buffer' = [t \in Types |-> <<>>]
  /\ order' = <<>>
  /\ UNCHANGED <<pump, pumpError, wants, ticket, asked, arrived, history, reported>>

-----------------------------------------------------------------------------
Next ==
  \/ \E w \in Waits, types \in SUBSET Types \ {{}} :
       WaitFinds(w, types) \/ WaitParks(w, types) \/ WaitThrows(w, types)
  \/ \E w \in Waits : Abort(w)
  \/ \E t \in Types :
       \/ OnInterleave(t) \/ StopInterleave(t)
       \/ Intercept(t) \/ Hand(t) \/ Buffer(t) \/ Drain(t)
  \/ PumpStops
  \/ \E error \in BOOLEAN : PumpEnds(error)
  \/ StartDrain
  \/ Dispose

Spec == Init /\ [][Next]_vars

\* The receiver as a router: where it stands, its buffers, what left them in turn.
Stage == CASE phase = "setup" -> "setup" [] phase = "drain" -> "run" [] phase = "disposed" -> "closed"
Routing == INSTANCE Router WITH stage <- Stage, line <- buffer, lost <- dropped
-----------------------------------------------------------------------------
\* A wait is parked only while nothing it wants is buffered: a message that arrived before
\* the call is never left in its buffer while the call waits for the next one.
NoWaiterIsOverlooked ==
  \A w \in Parked : \A t \in wants[w] : buffer[t] = <<>>

\* After the hand-over nothing of the setup phase is left: no wait, no interleave handler,
\* no buffered message that no one would ever read.
RunPhaseIsClean ==
  phase # "setup" => /\ Parked = {} /\ interleave = {} /\ order = <<>>
                     /\ \A t \in Types : buffer[t] = <<>>

\* A connection that dies in the run phase is reported to its owner, once.
LossReachesOwner ==
  /\ reported <= 1
  /\ phase = "drain" => (pump = "ended" <=> reported = 1)

\* The receiver routes messages as Router says: those of a type are handed out in order, each
\* message that was pulled is in one place, and the run phase begins with nothing left of setup.
OnceAndInOrder ==
  /\ Routing!Spec
  /\ [](Routing!LinesKeepTheirOrder /\ Routing!EveryMessageHasOneFate /\ RunPhaseIsClean)

(* Statements of the comments that the code does not keep; see README. *)

\* "Drain buffered messages into the new handlers in arrival order."
ReplayKeepsArrivalOrder ==
  \A i, j \in DOMAIN order :
    i < j => \A m \in Range(buffer[order[i]]), n \in Range(buffer[order[j]]) : m < n

\* "A throw from an interleave handler is fatal": the session never gets to the run phase.
ThrowIsFatal == [][phase = "setup" /\ phase' = "drain" => ~pumpError]_vars

\* When the iterator ends every setup wait is settled "so it does not hang forever".
NoWaitOnDeadPump == pump = "ended" => Parked = {}
=============================================================================
