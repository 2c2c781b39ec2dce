----------------------------- MODULE Reconnect -----------------------------
(***************************************************************************)
(* What an application puts around a session: openEspHomeClient(), which   *)
(* retries the first connect, and withReconnect(), which runs a body for   *)
(* every connection.  Session itself is only its health and its lifecycle  *)
(* events here: a transition is seen in health() before it is emitted, and *)
(* a listener may start the helper in between.                             *)
(***************************************************************************)
EXTENDS Naturals, Sequences, SequencesExt

CONSTANTS
  MaxRetries,   \* maxConstructionRetries
  MaxConnects   \* bound: connections

VARIABLES
  opening,   \* openEspHomeClient()
  link,      \* the connection: health, whether the change was emitted, which one
  helper,    \* withReconnect()
  events,    \* its iterator's queue
  bodies,    \* the bodies it started; the last one is state.controller and state.promise
  cancelled  \* the caller's signal

vars == <<opening, link, helper, events, bodies, cancelled>>

\* One body per connection, and one more for a helper that starts before the first is emitted.
MaxBodies == MaxConnects + 1

Init ==
  /\ opening \in [stage : {"connecting", "unused"}, failures : {0}, disposed : {FALSE}, wait : {0}]
  /\ link = [up |-> FALSE, emitted |-> TRUE, epoch |-> 0]
  /\ helper = "idle" /\ events = <<>> /\ bodies = <<>> /\ cancelled = FALSE

-----------------------------------------------------------------------------
(* openEspHomeClient() *)

\* The delays, in units of initialDelayMs, that a jitter of a fifth can give.
NextBackoffDelay(attempt, multiplier, maxDelay) ==
  LET grown == multiplier ^ (attempt - 1)
      base == IF grown \in 1..maxDelay THEN grown ELSE maxDelay
  IN  (4 * base) \div 5 .. (6 * base) \div 5

OpenSucceeds ==
  /\ opening.stage = "connecting" /\ link.epoch < MaxConnects
  /\ opening' = [opening EXCEPT !.stage = "open"]
  /\ link' = [up |-> TRUE, emitted |-> FALSE, epoch |-> link.epoch + 1]
  /\ UNCHANGED <<helper, events, bodies, cancelled>>

\* connect() rejects, or the signal made it: the budget, then the delay.
OpenFails(permanent) ==
  /\ opening.stage = "connecting"
  /\ LET failures == IF permanent THEN opening.failures ELSE opening.failures + 1
     IN  IF permanent \/ failures > MaxRetries
         THEN opening' = [opening EXCEPT !.stage = "thrown", !.failures = failures, !.disposed = TRUE]
         ELSE \E d \in NextBackoffDelay(failures, 2, 10) :
                opening' = [opening EXCEPT !.stage = "delay", !.failures = failures, !.wait = d]
  /\ UNCHANGED <<link, helper, events, bodies, cancelled>>

\* The delay does not listen to the signal; the top of the loop does.
OpenRetries ==
  /\ opening.stage = "delay"
  /\ opening' = [opening EXCEPT !.stage = IF cancelled THEN "thrown" ELSE "connecting", !.wait = 0]
  /\ UNCHANGED <<link, helper, events, bodies, cancelled>>

-----------------------------------------------------------------------------
(* The client's connection. *)

Emitted(kind) ==
  IF helper = "listening" THEN Append(events, [kind |-> kind, epoch |-> link.epoch]) ELSE events

Connects ==
  /\ ~link.up /\ link.emitted /\ link.epoch < MaxConnects
  /\ opening.stage \in {"unused", "open"}
  /\ link' = [up |-> TRUE, emitted |-> FALSE, epoch |-> link.epoch + 1]
  /\ UNCHANGED <<opening, helper, events, bodies, cancelled>>

Disconnects ==
  /\ link.up /\ link.emitted
  /\ link' = [link EXCEPT !.up = FALSE, !.emitted = FALSE]
  /\ UNCHANGED <<opening, helper, events, bodies, cancelled>>

EmitLifecycle ==
  /\ ~link.emitted
  /\ link' = [link EXCEPT !.emitted = TRUE]
  /\ events' = Emitted(IF link.up THEN "connect" ELSE "disconnect")
  /\ UNCHANGED <<opening, helper, bodies, cancelled>>

-----------------------------------------------------------------------------
(* withReconnect() *)

Aborted(b) == [b EXCEPT !.aborted = TRUE]
AbortLast(bs) == IF bs = <<>> THEN bs ELSE [bs EXCEPT ![Len(bs)] = Aborted(@)]
AnyBody(epoch) == [epoch : {epoch}, running : BOOLEAN, aborted : {FALSE}, hasty : BOOLEAN]

\* Mutant: the body of the last connection is taken to have ended.
RunBodyBeside(b) == bodies' = Append(bodies, b)

\* runBody(): the body runs up to its first await, or throws, at once.
RunBody(b) == bodies' = Append(AbortLast(bodies), b)

\* The body's own first instructions may disconnect() the client (not from inside the listener
\* that is hearing of the connection).
Hastens(b) ==
  IF b.hasty THEN link' = [link EXCEPT !.up = FALSE] ELSE UNCHANGED link

\* The body first, then the iterator: what the body's first instructions emit is not heard.
Start ==
  /\ helper = "idle" /\ opening.stage \in {"unused", "open"}
  /\ helper' = "listening"
  /\ IF link.up THEN \E b \in AnyBody(link.epoch) : RunBody(b) /\ (b.hasty => link.emitted) /\ Hastens(b)
     ELSE UNCHANGED <<bodies, link>>
  /\ UNCHANGED <<opening, events, cancelled>>

\* One turn of the loop.
TakeEvent ==
  /\ helper = "listening" /\ events # <<>>
  /\ IF Head(events).kind = "connect"
     THEN \E b \in AnyBody(Head(events).epoch) :
            /\ b.hasty => link.up /\ link.emitted
            /\ RunBody(b) /\ Hastens(b)
            /\ events' = IF b.hasty THEN Append(Tail(events), [kind |-> "disconnect", epoch |-> link.epoch])
                         ELSE Tail(events)
     ELSE bodies' = AbortLast(bodies) /\ events' = Tail(events) /\ UNCHANGED link
  /\ UNCHANGED <<opening, helper, cancelled>>

\* The signal, or the bus's end, ends the iterator: the finally.
Cancel ==
  /\ ~cancelled /\ cancelled' = TRUE
  /\ UNCHANGED <<opening, link, helper, events, bodies>>

StreamEnds ==
  /\ helper = "listening" /\ cancelled
  /\ helper' = "ending" /\ events' = <<>> /\ bodies' = AbortLast(bodies)
  /\ UNCHANGED <<opening, link, cancelled>>

BodySettles(i) ==
  /\ bodies[i].running
  /\ bodies' = [bodies EXCEPT ![i].running = FALSE]
  /\ UNCHANGED <<opening, link, helper, events, cancelled>>

\* Only the last body's promise is awaited.
Return ==
  /\ helper = "ending" /\ (bodies # <<>> => ~Last(bodies).running)
  /\ helper' = "returned"
  /\ UNCHANGED <<opening, link, events, bodies, cancelled>>

Next ==
  \/ OpenSucceeds \/ OpenRetries \/ \E permanent \in BOOLEAN : OpenFails(permanent)
  \/ Connects \/ Disconnects \/ EmitLifecycle
  \/ Start \/ TakeEvent \/ Cancel \/ StreamEnds \/ Return
  \/ \E i \in 1..Len(bodies) : BodySettles(i)

Spec == Init /\ [][Next]_vars

\* Session!CallsReturn is what makes an attempt end; a body that is told to stop does stop.
Fairness ==
  /\ WF_vars(OpenSucceeds \/ OpenRetries \/ \E permanent \in BOOLEAN : OpenFails(permanent))
  /\ WF_vars(EmitLifecycle) /\ WF_vars(TakeEvent) /\ WF_vars(StreamEnds) /\ WF_vars(Return)
  /\ \A i \in 1..MaxBodies :
       WF_vars(IF i \in 1..Len(bodies) THEN bodies[i].aborted /\ BodySettles(i) ELSE FALSE)

-----------------------------------------------------------------------------
TypeOK ==
  /\ opening \in [stage : {"connecting", "unused", "open", "delay", "thrown"},
                  failures : 0..MaxRetries + 1, disposed : BOOLEAN, wait : 0..12]
  /\ opening.stage = "thrown" => opening.disposed \/ cancelled
  /\ link \in [up : BOOLEAN, emitted : BOOLEAN, epoch : 0..MaxConnects]
  /\ helper \in {"idle", "listening", "ending", "returned"}
  /\ events \in Seq([kind : {"connect", "disconnect"}, epoch : 1..MaxConnects])
  /\ \A i \in 1..Len(bodies) : bodies[i] \in AnyBody(bodies[i].epoch) \cup {Aborted(b) : b \in AnyBody(bodies[i].epoch)}

\* A body that ended its own connection before the helper listened: nobody tells it.
Missed(i) == i = 1 /\ bodies[i].hasty

\* Once the helper has heard everything, the one body that is not told to stop is that of the
\* connection that is up; a helper that is done has told them all.
BodiesFollowConnections ==
  /\ \A i \in 1..Len(bodies) - 1 : bodies[i].aborted
  /\ helper = "listening" /\ events = <<>> /\ link.emitted =>
       IF link.up THEN bodies # <<>> /\ Last(bodies).epoch = link.epoch /\ ~Last(bodies).aborted
       ELSE bodies # <<>> => Last(bodies).aborted \/ Missed(Len(bodies))
  /\ helper \in {"ending", "returned"} => \A i \in 1..Len(bodies) : bodies[i].aborted

\* The comment in withReconnect(): its promise "never resolves while the body is still running".
ReturnsAfterBodies == helper = "returned" => \A i \in 1..Len(bodies) : ~bodies[i].running

\* The connection of a body that was not told to stop has ended.
Outlives(i) ==
  /\ i \in 1..Len(bodies)
  /\ ~Missed(i) /\ ~bodies[i].aborted /\ (link.up => bodies[i].epoch # link.epoch)

\* openEspHomeClient() settles, withReconnect() returns once told to, and a body that outlives
\* its connection is told to stop.
HelpersConclude ==
  /\ opening.stage \in {"connecting", "delay"} ~> opening.stage \in {"open", "thrown"}
  /\ helper = "listening" /\ cancelled ~> helper = "returned"
  /\ \A i \in 1..MaxBodies : Outlives(i) ~> ~Outlives(i)
=============================================================================
