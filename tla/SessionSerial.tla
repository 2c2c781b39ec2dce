--------------------------- MODULE SessionSerial ---------------------------
(***************************************************************************)
(* The session under serial use: the application has at most one connect() *)
(* open at a time, and no listener calls connect() from inside an emit.    *)
(* Everything else stays free: disconnect() and disconnectAsync() at any   *)
(* point, connect() over a live connection, over a running loop, during a  *)
(* graceful disconnect.                                                    *)
(***************************************************************************)
EXTENDS Session

ASSUME SerialUse ==
  /\ \A c, d \in Callers : c = d
  /\ ListenersConnect = FALSE

-----------------------------------------------------------------------------
(***************************************************************************)
(* The inductive invariant behind the safety properties of Session.  Its   *)
(* parts say what serial use buys: an attempt runs only while the client   *)
(* has no transport, a loop only when nothing else could start one, and    *)
(* the synchronous or settled code that is about to schedule a loop runs   *)
(* only when no loop and no attempt exists.                                *)
(***************************************************************************)
Active(l) == pc[l] # "idle"
NoLoop == \A l \in Loops : ~Active(l)
NoAttempt == \A f \in Flows : pc[f] \notin Attempting

\* Which suspension points belong to callers and which to loops.
FlowKinds ==
  /\ \A c \in Callers : pc[c] \in {"idle", "awaitLoop"} \cup Attempting
  /\ \A l \in Loops : pc[l] \in {"idle", "backoff", "resolved", "rejected"} \cup Attempting

\* The registered promise is that of a loop still running.
PromiseIsLive == loopPromise # None => Active(loopPromise)

\* An attempt has the connection state to itself.
AttemptIsAlone ==
  /\ ~NoAttempt => transport = None /\ task # "schedule"
  /\ \A c \in Callers : pc[c] \in Attempting => NoLoop

\* A loop that has not got its connection up runs with everything down.
LoopRunsDown ==
  \A l \in Loops : Active(l) /\ pc[l] # "resolved" => transport = None /\ ~beating

\* A caller that waits for a loop waits for the only one, and nothing else is about to run.
WaiterIsNext ==
  \A c \in Callers : pc[c] = "awaitLoop" =>
    /\ waitsFor[c] \in Loops
    /\ \A l \in Loops : Active(l) => l = waitsFor[c]
    /\ task = "none"
    /\ transport # None => graceful # "settled"

\* The code that is about to tear a connection down, or to schedule a loop for it, finds
\* no loop running.
TeardownFindsNoLoop ==
  /\ task = "schedule" => transport = None /\ NoLoop /\ attempts = 0 /\ ~beating
  /\ transport # None /\ (task = "stall" \/ graceful = "settled") => NoLoop
  /\ transport # None => attempts = 0

IInv ==
  /\ TypeOK
  /\ NoOrphanConnection
  /\ NoOrphanContext
  /\ LoopIsReachable
  /\ CloseReachesLoops
  /\ LiveIsHonest
  /\ AttemptsWithinBudget
  /\ GracefulHasConnection
  /\ FlowKinds
  /\ PromiseIsLive
  /\ AttemptIsAlone
  /\ LoopRunsDown
  /\ WaiterIsNext
  /\ TeardownFindsNoLoop

\* Of a supervisor that has not got its connection up, health says that it is at work, and the
\* first of its attempts was counted; before it, the loss was reported.
SupervisorIsAnnounced ==
  /\ \A l \in Loops : Active(l) /\ pc[l] # "resolved" => health = "reconnecting" /\ attempts > 0
  /\ task = "schedule" => health = "disconnected"

-----------------------------------------------------------------------------
(* Session implements Lifecycle: the attempt is that of the flow that is attempting. *)

Attempt == IF NoAttempt THEN None ELSE CHOOSE f \in Flows : pc[f] \in Attempting

Life == INSTANCE Lifecycle WITH
  link <- transport, attempt <- Attempt, tries <- attempts, leaving <- graceful # "none"

\* connect(), disconnect(), disconnectAsync(), the teardown and the supervisor together do what
\* Lifecycle lets a client do: one attempt at a time, over nothing that is up, retries that are
\* counted and announced, and no loss that health does not tell.
ClientIsALifecycle == Life!Spec
=============================================================================
