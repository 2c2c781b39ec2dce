------------------------------ MODULE Session ------------------------------
(***************************************************************************)
(* The connection lifecycle of EspHomeClient: connect(), disconnect(),     *)
(* disconnectAsync(), the teardown every disconnect funnels through        *)
(* (disconnectInternal) and the auto-reconnect supervisor                  *)
(* (runReconnectLoop), with the heartbeat's stall and the device's hang-up *)
(* racing them.                                                            *)
(*                                                                         *)
(* The program runs on one event loop.  A step of this specification is    *)
(* what runs between two points where other code can get in:               *)
(*   - a socket event or a timer (a macrotask) is taken only when no       *)
(*     continuation is left to run, see Settled;                           *)
(*   - a continuation (the code after a settled await, or after an emit)   *)
(*     runs before the next macrotask;                                     *)
(*   - an API call can come from a macrotask of the application, from one  *)
(*     of its continuations, or from a listener inside an emit, so it is   *)
(*     possible at every step.                                             *)
(* A run-phase transport and its MessageReceiver are one connection: the   *)
(* code always sets and clears `transport` and `runReceiver` together.     *)
(***************************************************************************)
EXTENDS Naturals, FiniteSets

CONSTANTS
  Callers,           \* one element per connect() promise that may be open at once
  Loops,             \* one element per runReconnectLoop() that may run at once
  Conns,             \* connections: a transport with its receiver
  None,              \* null
  MaxAttempts,       \* ReconnectConfig.maxAttempts; without one, any number is above what a run uses
  ReconnectEnabled,  \* reconnect # false
  KeepAlive,         \* keepAlive # false
  ListenersConnect   \* a listener calls connect() from inside an emit

Flows == Callers \cup Loops

ASSUME ConstantsAssumption ==
  /\ Callers \cap Loops = {}
  /\ None \notin Callers \cup Loops \cup Conns
  /\ MaxAttempts \in Nat \ {0}
  /\ {ReconnectEnabled, KeepAlive, ListenersConnect} \subseteq BOOLEAN

VARIABLES
  transport,     \* this.transport (and this.runReceiver)
  draining,      \* run-phase receivers not disposed: their onTerminal is armed
  ctx,           \* flow -> the connection of its handshake context
  pc,            \* flow -> where its code is suspended
  waitsFor,      \* caller -> the loop whose promise it awaits
  aborted,       \* loop -> its AbortSignal fired
  inProgress,    \* this.reconnectInProgress
  controller,    \* the loop this.reconnectController aborts
  loopPromise,   \* the loop this.reconnectLoopPromise belongs to
  attempts,      \* this.reconnectAttempts
  closed,        \* this.explicitlyClosed
  health,        \* this.healthRecord.state
  beating,       \* the heartbeat timer is armed
  graceful,      \* the "graceful" entry of disconnectCorrelator
  task           \* the synchronous code still to run after the current emit

supervisor == <<inProgress, controller, loopPromise>>
vars == <<transport, draining, ctx, pc, waitsFor, aborted, supervisor, attempts,
          closed, health, beating, graceful, task>>

Health == {"connected", "disconnected", "reconnecting", "stalled"}
LiveHealth == {"connected", "stalled"}
Attempting == {"opening", "handshake", "finalSend"}

(***************************************************************************)
(* pc of a caller: "idle", "awaitLoop" (await supersededLoop), then        *)
(* "opening" (openHandshakeContext), "handshake" (up to the end of         *)
(* discovery, every await of it watching the signals) and "finalSend" (the *)
(* last await of connectInternal, a send that watches no signal).  A loop  *)
(* goes from "backoff" through the same three, and its attempt ends        *)
(* "resolved" or "rejected" before the loop's own code resumes.            *)
(***************************************************************************)
TypeOK ==
  /\ transport \in Conns \cup {None}
  /\ draining \subseteq Conns
  /\ ctx \in [Flows -> Conns \cup {None}]
  /\ pc \in [Flows -> {"idle", "awaitLoop", "backoff", "resolved", "rejected"} \cup Attempting]
  /\ waitsFor \in [Callers -> Loops \cup {None}]
  /\ aborted \in [Loops -> BOOLEAN]
  /\ inProgress \in BOOLEAN
  /\ controller \in Loops \cup {None}
  /\ loopPromise \in Loops \cup {None}
  /\ attempts \in Nat
  /\ closed \in BOOLEAN
  /\ health \in Health
  /\ beating \in BOOLEAN
  /\ graceful \in {"none", "pending", "settled"}
  /\ task \in {"none", "schedule", "stall"}

Init ==
  /\ transport = None
  /\ draining = {}
  /\ ctx = [f \in Flows |-> None]
  /\ pc = [f \in Flows |-> "idle"]
  /\ waitsFor = [c \in Callers |-> None]
  /\ aborted = [l \in Loops |-> FALSE]
  /\ inProgress = FALSE
  /\ controller = None
  /\ loopPromise = None
  /\ attempts = 0
  /\ closed = FALSE
  /\ health = "disconnected"
  /\ beating = FALSE
  /\ graceful = "none"
  /\ task = "none"

-----------------------------------------------------------------------------
(* The event loop. *)

\* The awaited loop has returned: connect() resumes.
Resumable(c) == pc[c] = "awaitLoop" /\ pc[waitsFor[c]] = "idle"

\* reconnectDelay() rejects as soon as the signal fires.
Cancelled(l) == pc[l] = "backoff" /\ aborted[l]

\* No continuation is left: the event loop may take a socket event or a timer.
Settled ==
  /\ task = "none"
  /\ graceful # "settled"
  /\ \A l \in Loops : pc[l] \notin {"resolved", "rejected"} /\ ~Cancelled(l)
  /\ \A c \in Callers : ~Resumable(c)

FreeConns == Conns \ (draining \cup {ctx[f] : f \in Flows})
FreeLoops == {l \in Loops : pc[l] = "idle" /\ \A c \in Callers : waitsFor[c] # l}

-----------------------------------------------------------------------------
(* What the handlers are made of. *)

\* rejectAll() and resolve() settle the pending disconnectAsync(), which resumes later.
SettledGraceful == IF graceful = "pending" THEN "settled" ELSE graceful

\* Mutant: the loop's controller is forgotten, not aborted.
CancelReconnectKeepsSignal ==
  /\ controller' = None
  /\ inProgress' = FALSE
  /\ UNCHANGED <<aborted, loopPromise>>

CancelReconnect ==
  /\ aborted' = [l \in Loops |-> aborted[l] \/ l = controller]
  /\ controller' = None
  /\ inProgress' = FALSE
  /\ UNCHANGED loopPromise

\* Mutant: the old receiver is not disposed.
SupersedeKeepsOld ==
  /\ transport' = None
  /\ draining' = draining
  /\ graceful' = SettledGraceful

\* connectInternal() up to its first await: dispose the old pair, reject correlators.
SupersedeTransport ==
  /\ transport' = None
  /\ draining' = draining \ {transport}
  /\ graceful' = SettledGraceful

\* Mutant: a teardown does not touch the health record.
TeardownKeepsHealth(ended) ==
  /\ transport' = None
  /\ draining' = draining \ ({transport} \cup ended)
  /\ beating' = FALSE
  /\ graceful' = SettledGraceful
  /\ health' = health

\* disconnectInternal() up to the end of emitDisconnected(); `ended` are receivers whose
\* pump has ended by itself.  The reconnect decision comes after the listeners have run.
Teardown(ended) ==
  /\ transport' = None
  /\ draining' = draining \ ({transport} \cup ended)
  /\ beating' = FALSE
  /\ graceful' = SettledGraceful
  /\ health' = IF transport = None THEN health ELSE "disconnected"

DisconnectInternal(ended) ==
  /\ Teardown(ended)
  /\ task' = IF transport = None THEN "none" ELSE "schedule"

\* The top of the reconnect loop's body, up to the backoff delay.
BeginIteration(l) ==
  /\ pc' = [pc EXCEPT ![l] = "backoff"]
  /\ attempts' = attempts + 1
  /\ health' = "reconnecting"

\* The code after the reconnect loop, reached by every break.
EndLoop(l) ==
  /\ pc' = [pc EXCEPT ![l] = "idle"]
  /\ aborted' = [aborted EXCEPT ![l] = FALSE]
  /\ inProgress' = FALSE
  /\ controller' = None
  /\ loopPromise' = None

-----------------------------------------------------------------------------
(* API calls. *)

\* Mutant: connect() does not await the superseded loop.
ConnectIgnoresLoop(c) ==
  /\ pc[c] = "idle"
  /\ task = "none" \/ ListenersConnect
  /\ CancelReconnect
  /\ pc' = [pc EXCEPT ![c] = "opening"]
  /\ SupersedeTransport
  /\ UNCHANGED <<ctx, waitsFor, attempts, closed, health, beating, task>>

\* connect(): supersede the reconnect loop, then connectInternal(), which throws if the signal of
\* the call has fired, before it touches what is up.
Connect(c) ==
  /\ pc[c] = "idle"
  /\ task = "none" \/ ListenersConnect
  /\ CancelReconnect
  /\ \/ /\ loopPromise = None
        /\ pc' = [pc EXCEPT ![c] = "opening"]
        /\ SupersedeTransport
        /\ UNCHANGED waitsFor
     \/ /\ loopPromise = None
        /\ UNCHANGED <<pc, waitsFor, transport, draining, graceful>>
     \/ /\ loopPromise # None
        /\ pc' = [pc EXCEPT ![c] = "awaitLoop"]
        /\ waitsFor' = [waitsFor EXCEPT ![c] = loopPromise]
        /\ UNCHANGED <<transport, draining, graceful>>
  /\ UNCHANGED <<ctx, attempts, closed, health, beating, task>>

\* disconnect().  maybeScheduleReconnect() returns at once: explicitlyClosed is set.
Disconnect ==
  /\ closed' = TRUE
  /\ CancelReconnect
  /\ Teardown({})
  /\ UNCHANGED <<ctx, pc, waitsFor, attempts, task>>

\* disconnectAsync() up to its await.  A second call while one is pending finds the
\* correlator key in flight and rejects.
DisconnectAsync ==
  /\ graceful # "settled"
  /\ closed' = TRUE
  /\ CancelReconnect
  /\ graceful' = IF transport = None THEN graceful ELSE "pending"
  /\ UNCHANGED <<transport, draining, ctx, pc, waitsFor, attempts, health, beating, task>>

-----------------------------------------------------------------------------
(* The connect flow, of a caller or of a loop. *)

Signalled(f) == f \in Loops /\ aborted[f]
Outcome(f, result) == IF f \in Loops THEN result ELSE "idle"

\* connect() after `await supersededLoop`, during which its signal may have fired.
ConnectResumes(c) ==
  /\ task = "none"
  /\ Resumable(c)
  /\ waitsFor' = [waitsFor EXCEPT ![c] = None]
  /\ \/ pc' = [pc EXCEPT ![c] = "opening"] /\ SupersedeTransport
     \/ pc' = [pc EXCEPT ![c] = "idle"] /\ UNCHANGED <<transport, draining, graceful>>
  /\ UNCHANGED <<ctx, aborted, supervisor, attempts, closed, health, beating, task>>

\* Mutant: the opened context is not kept.
OpenedWithoutContext(f) ==
  /\ Settled
  /\ pc[f] = "opening"
  /\ ~Signalled(f)
  /\ pc' = [pc EXCEPT ![f] = "handshake"]
  /\ UNCHANGED <<ctx, transport, draining, waitsFor, aborted, supervisor, attempts, closed,
                 health, beating, graceful, task>>

\* openTransport() resolves and the receiver and interleave handlers are built.
Opened(f) ==
  /\ Settled
  /\ pc[f] = "opening"
  /\ ~Signalled(f)
  /\ \E conn \in FreeConns : ctx' = [ctx EXCEPT ![f] = conn]
  /\ pc' = [pc EXCEPT ![f] = "handshake"]
  /\ UNCHANGED <<transport, draining, waitsFor, aborted, supervisor, attempts, closed,
                 health, beating, graceful, task>>

\* The open fails, times out or is aborted.  It runs before the try block, so nothing is
\* cleaned up and no "disconnect" is emitted.
OpenFails(f) ==
  /\ Settled
  /\ pc[f] = "opening"
  /\ pc' = [pc EXCEPT ![f] = Outcome(f, "rejected")]
  /\ UNCHANGED <<transport, draining, ctx, waitsFor, aborted, supervisor, attempts, closed,
                 health, beating, graceful, task>>

\* Handshake, authentication and discovery done, the discovery events emitted: only the
\* SUBSCRIBE_STATES send is left.
Discovered(f) ==
  /\ Settled
  /\ pc[f] = "handshake"
  /\ ~Signalled(f)
  /\ pc' = [pc EXCEPT ![f] = "finalSend"]
  /\ UNCHANGED <<transport, draining, ctx, waitsFor, aborted, supervisor, attempts, closed,
                 health, beating, graceful, task>>

\* The catch block: an error, a timeout, the peer closing, or the loop's signal.  Its await of the
\* context's disposal yields only to continuations, and what they see is not changed by it.
AttemptFails(f) ==
  /\ Settled
  /\ pc[f] \in {"handshake", "finalSend"}
  /\ ctx' = [ctx EXCEPT ![f] = None]
  /\ pc' = [pc EXCEPT ![f] = Outcome(f, "rejected")]
  /\ transport' = None
  /\ UNCHANGED <<draining, waitsFor, aborted, supervisor, attempts, closed,
                 health, beating, graceful, task>>

\* Mutant: explicitlyClosed is not reset.
ConnectSucceedsStaysClosed(f) ==
  /\ Settled
  /\ pc[f] = "finalSend"
  /\ transport' = ctx[f]
  /\ draining' = draining \cup {ctx[f]}
  /\ ctx' = [ctx EXCEPT ![f] = None]
  /\ pc' = [pc EXCEPT ![f] = Outcome(f, "resolved")]
  /\ beating' = KeepAlive
  /\ health' = "connected"
  /\ attempts' = 0
  /\ UNCHANGED <<closed, waitsFor, aborted, supervisor, graceful, task>>

\* The send's callback: hand off to the run phase and declare the client connected.
ConnectSucceeds(f) ==
  /\ Settled
  /\ pc[f] = "finalSend"
  /\ transport' = ctx[f]
  /\ draining' = draining \cup {ctx[f]}
  /\ ctx' = [ctx EXCEPT ![f] = None]
  /\ pc' = [pc EXCEPT ![f] = Outcome(f, "resolved")]
  /\ beating' = KeepAlive
  /\ health' = "connected"
  /\ attempts' = 0
  /\ closed' = FALSE
  /\ UNCHANGED <<waitsFor, aborted, supervisor, graceful, task>>

-----------------------------------------------------------------------------
(* Events on a live connection. *)

\* The run-phase pump of a receiver that was not disposed ends: onTerminal().
ConnectionLost(conn) ==
  /\ Settled
  /\ conn \in draining
  /\ DisconnectInternal({conn})
  /\ UNCHANGED <<ctx, pc, waitsFor, aborted, supervisor, attempts, closed>>

\* A DISCONNECT_REQUEST, or a DISCONNECT_RESPONSE nobody awaits.
DeviceDisconnects(conn) ==
  /\ Settled
  /\ conn \in draining
  /\ DisconnectInternal({})
  /\ UNCHANGED <<ctx, pc, waitsFor, aborted, supervisor, attempts, closed>>

\* HeartbeatScheduler.tick() finds the stall budget spent: it stops, and onStall() emits
\* the STALLED record before it tears down.
HeartbeatStalls ==
  /\ Settled
  /\ beating
  /\ beating' = FALSE
  /\ health' = IF health \in LiveHealth THEN "stalled" ELSE health
  /\ task' = "stall"
  /\ UNCHANGED <<transport, draining, ctx, pc, waitsFor, aborted, supervisor, attempts,
                 closed, graceful>>

StallTeardown ==
  /\ task = "stall"
  /\ DisconnectInternal({})
  /\ UNCHANGED <<ctx, pc, waitsFor, aborted, supervisor, attempts, closed>>

\* The DISCONNECT_RESPONSE arrives, its timer fires, or the request could not be sent.
GracefulSettles ==
  /\ Settled
  /\ graceful = "pending"
  /\ graceful' = "settled"
  /\ UNCHANGED <<transport, draining, ctx, pc, waitsFor, aborted, supervisor, attempts,
                 closed, health, beating, task>>

\* disconnectAsync() after its await.
GracefulFinishes ==
  /\ task = "none"
  /\ graceful = "settled"
  /\ transport' = None
  /\ draining' = draining \ {transport}
  /\ beating' = FALSE
  /\ graceful' = "none"
  /\ health' = IF transport = None THEN health ELSE "disconnected"
  /\ task' = IF transport = None THEN "none" ELSE "schedule"
  /\ UNCHANGED <<ctx, pc, waitsFor, aborted, supervisor, attempts, closed>>

-----------------------------------------------------------------------------
(* The reconnect supervisor. *)

\* maybeScheduleReconnect() starts a loop, which runs up to its first backoff delay.
ScheduleReconnect(l) ==
  /\ task = "schedule"
  /\ task' = "none"
  /\ ReconnectEnabled /\ ~closed /\ ~inProgress
  /\ l \in FreeLoops
  /\ BeginIteration(l)
  /\ inProgress' = TRUE
  /\ controller' = l
  /\ loopPromise' = l
  /\ UNCHANGED <<transport, draining, ctx, waitsFor, aborted, closed, beating, graceful>>

\* maybeScheduleReconnect() returns: disabled, closed, a loop in progress, or shouldRetry
\* (the application's) says no.
SkipReconnect ==
  /\ task = "schedule"
  /\ task' = "none"
  /\ UNCHANGED <<transport, draining, ctx, pc, waitsFor, aborted, supervisor, attempts,
                 closed, health, beating, graceful>>

\* The backoff timer fires and the rechecks pass: the loop calls connectInternal().
LoopAttempts(l) ==
  /\ Settled
  /\ pc[l] = "backoff"
  /\ ~closed
  /\ pc' = [pc EXCEPT ![l] = "opening"]
  /\ SupersedeTransport
  /\ UNCHANGED <<ctx, waitsFor, aborted, supervisor, attempts, closed, health, beating, task>>

\* Mutant: the delay does not watch the signal.
LoopBreaksAtRecheckOnly(l) ==
  /\ task = "none"
  /\ \/ pc[l] = "backoff" /\ closed /\ Settled
     \/ pc[l] = "rejected" /\ (aborted[l] \/ closed)
  /\ EndLoop(l)
  /\ UNCHANGED <<transport, draining, ctx, waitsFor, attempts, closed, health, beating,
                 graceful, task>>

\* The loop breaks at a recheck: its signal fired or the client is closed.  The signal
\* wakes the delay at once, the flag alone is seen when the timer fires.
LoopBreaks(l) ==
  /\ task = "none"
  /\ \/ Cancelled(l)
     \/ pc[l] = "backoff" /\ closed /\ Settled
     \/ pc[l] = "rejected" /\ (aborted[l] \/ closed)
  /\ EndLoop(l)
  /\ UNCHANGED <<transport, draining, ctx, waitsFor, attempts, closed, health, beating,
                 graceful, task>>

\* connectInternal() resolved in the loop.
LoopReturns(l) ==
  /\ task = "none"
  /\ pc[l] = "resolved"
  /\ EndLoop(l)
  /\ UNCHANGED <<transport, draining, ctx, waitsFor, attempts, closed, health, beating,
                 graceful, task>>

\* The attempt failed and shouldRetry and the budget allow another.
LoopRetries(l) ==
  /\ task = "none"
  /\ pc[l] = "rejected"
  /\ ~aborted[l] /\ ~closed
  /\ attempts < MaxAttempts
  /\ BeginIteration(l)
  /\ UNCHANGED <<transport, draining, ctx, waitsFor, aborted, supervisor, closed, beating,
                 graceful, task>>

\* shouldRetry says no (whatever the budget) or the budget is spent: emitDisconnected().
LoopGivesUp(l) ==
  /\ task = "none"
  /\ pc[l] = "rejected"
  /\ ~aborted[l] /\ ~closed
  /\ EndLoop(l)
  /\ health' = "disconnected"
  /\ UNCHANGED <<transport, draining, ctx, waitsFor, attempts, closed, beating, graceful,
                 task>>

-----------------------------------------------------------------------------
Api == Disconnect \/ DisconnectAsync \/ \E c \in Callers : Connect(c)

Flow(f) == Opened(f) \/ OpenFails(f) \/ Discovered(f) \/ AttemptFails(f) \/ ConnectSucceeds(f)

Device ==
  \/ \E conn \in Conns : ConnectionLost(conn) \/ DeviceDisconnects(conn)
  \/ HeartbeatStalls

Continuation ==
  \/ StallTeardown
  \/ GracefulFinishes
  \/ SkipReconnect
  \/ \E c \in Callers : ConnectResumes(c)
  \/ \E l \in Loops :
       \/ ScheduleReconnect(l) \/ LoopBreaks(l) \/ LoopReturns(l)
       \/ LoopRetries(l) \/ LoopGivesUp(l)

Next ==
  \/ Api
  \/ \E f \in Flows : Flow(f)
  \/ Device
  \/ GracefulSettles
  \/ \E l \in Loops : LoopAttempts(l)
  \/ Continuation

Spec == Init /\ [][Next]_vars

(***************************************************************************)
(* Continuations always run, and so do the timers that bound each wait:    *)
(* connectTimeoutMs and handshakeTimeoutMs for an attempt, the backoff     *)
(* delay, gracefulDisconnectTimeoutMs.  A timer that is due stays due, so  *)
(* an application that keeps calling the API cannot hold it off forever:   *)
(* strong fairness.  The final send has no timer of its own; that it       *)
(* completes or fails is TCP's promise.  Nothing is assumed of the         *)
(* application, of the device or of the heartbeat.                         *)
(***************************************************************************)
Fairness ==
  /\ WF_vars(Continuation)
  /\ \A f \in Flows : SF_vars(Flow(f))
  /\ \A l \in Loops : SF_vars(LoopAttempts(l) \/ LoopBreaks(l))
  /\ SF_vars(GracefulSettles)

FairSpec == Spec /\ Fairness
-----------------------------------------------------------------------------
(* Safety. *)

\* At most one connect flow is mutating the connection state at any time: the promise of
\* the comment in connect(), kept by awaiting the superseded loop.
OneConnectFlow ==
  \A f, g \in Flows : pc[f] \in Attempting /\ pc[g] \in Attempting => f = g

\* Every receiver that can still call disconnectInternal() belongs to the current
\* transport: no socket is left open behind the client's back, and no old connection's
\* end can tear down a new one.
NoOrphanConnection == draining = {transport} \ {None}

\* A handshake context is owned by the flow that opened it and nothing else: a failed
\* attempt leaves none behind.
NoOrphanContext ==
  \A f \in Flows : ctx[f] # None <=> pc[f] \in {"handshake", "finalSend"}

\* No socket, receiver or handshake context outlives the flow or the connection it belongs
\* to, whichever of an attempt, a takeover and a teardown came first.
NothingIsOrphaned == NoOrphanConnection /\ NoOrphanContext

\* A reconnect loop that nobody cancelled is the one disconnect() and connect() can reach:
\* its controller, its promise and the in-progress flag are the registered ones.
LoopIsReachable ==
  \A l \in Loops : pc[l] # "idle" => /\ loopPromise = l
                                     /\ aborted[l] \/ (controller = l /\ inProgress)

\* After disconnect() or disconnectAsync() every loop still running has been told to stop.
CloseReachesLoops ==
  \A l \in Loops : closed /\ pc[l] # "idle" => aborted[l]

\* Every running loop is either the registered one or cancelled, and cancelled once the
\* client is closed: no supervisor runs where disconnect() and connect() cannot stop it.
LoopsAreOwned == LoopIsReachable /\ CloseReachesLoops

\* While a connection is up, health says so, the heartbeat (when enabled) watches it, and
\* the client is not marked closed unless a graceful disconnect is about to take it down.
LiveIsHonest ==
  transport # None =>
    /\ health = "connected" \/ (health = "stalled" /\ task = "stall")
    /\ KeepAlive => beating \/ task = "stall"
    /\ closed => graceful # "none"

\* No reconnect sequence makes more attempts than the configured budget.
AttemptsWithinBudget == attempts <= MaxAttempts

\* A pending disconnectAsync() always has the connection it was called for: every teardown
\* and every new connect settles it.
GracefulHasConnection == graceful = "pending" => transport # None

(* Action properties. *)

\* A disconnect that was not asked for is never swallowed: when an unclosed client loses
\* its transport other than by a connect() of its own, health reports it in the same step.
LossIsReported ==
  [][transport # None /\ transport' = None /\ ~(\E c \in Callers : pc'[c] = "opening")
       => health' = "disconnected"]_vars

\* After disconnect(), auto-reconnect does not bring a connection up again.
ClosedStaysClosed ==
  [][\A l \in Loops : closed /\ transport = None /\ transport' # None => transport' # ctx[l]]_vars

(* Statements of the documentation that the code does not keep; see README. *)

\* disconnect() is a clean teardown, and disconnectedHealth() is "used ... after every clean
\* teardown": with nothing left running, a closed client is not "reconnecting".
ClosedIsNotReconnecting ==
  closed /\ (\A f \in Flows : pc[f] = "idle") => health # "reconnecting"

\* With no attempt under way, "connected" and "stalled" are said only of a socket that is
\* up: LiveConnectionHealth is the "health of a record whose socket is up".
LiveHealthHasSocket ==
  health \in LiveHealth /\ (\A f \in Flows : pc[f] = "idle") => transport # None

(* Liveness. *)

\* Every reconnect loop ends: connected, given up, or stopped.
LoopTerminates == \A l \in Loops : pc[l] # "idle" ~> pc[l] = "idle"

\* connect() always settles, also when it first waits for a superseded loop.
ConnectSettles == \A c \in Callers : pc[c] # "idle" ~> pc[c] = "idle"

\* disconnectAsync() always returns: the consumer is never blocked indefinitely.
GracefulReturns == graceful # "none" ~> graceful = "none"

\* Neither call of the application is left pending for ever.
CallsReturn == ConnectSettles /\ GracefulReturns
=============================================================================
