--------------------------- MODULE SessionProofs ---------------------------
(***************************************************************************)
(* The safety of the session under serial use, for every set of loops and  *)
(* of connections, every retry budget, with or without a heartbeat and     *)
(* auto-reconnect.  IInv (SessionSerial) is inductive, and the properties  *)
(* the runs check are among its parts or follow from them.  MCSession is   *)
(* extended for its instance of Reconnect: at the end, which bodies        *)
(* withReconnect() has told to stop.                                       *)
(***************************************************************************)
EXTENDS MCSession, SequenceTheorems, TLAPS

USE DEF Flows

LEMMA InitIInv == Init => IInv
<1> SUFFICES ASSUME Init PROVE IInv
  OBVIOUS
<1>1. /\ ctx \in [Flows -> Conns \cup {None}]
      /\ pc \in [Flows -> {"idle", "awaitLoop", "backoff", "resolved", "rejected"} \cup Attempting]
      /\ waitsFor \in [Callers -> Loops \cup {None}]
      /\ aborted \in [Loops -> BOOLEAN]
  BY DEF Init
<1>2. TypeOK
  BY <1>1 DEF Init, TypeOK, Health
<1>3. \A f \in Flows : pc[f] = "idle" /\ ctx[f] = None
  BY DEF Init
<1>4. NoOrphanContext /\ FlowKinds /\ AttemptIsAlone /\ WaiterIsNext /\ LoopRunsDown
  BY <1>3 DEF NoOrphanContext, FlowKinds, AttemptIsAlone, NoAttempt, NoLoop, Active,
              WaiterIsNext, LoopRunsDown, Attempting
<1>5. LoopIsReachable /\ CloseReachesLoops
  BY <1>3 DEF LoopIsReachable, CloseReachesLoops
<1>6. /\ NoOrphanConnection /\ LiveIsHonest /\ AttemptsWithinBudget
      /\ GracefulHasConnection /\ PromiseIsLive /\ TeardownFindsNoLoop
  BY ConstantsAssumption
     DEF Init, NoOrphanConnection, LiveIsHonest, AttemptsWithinBudget, GracefulHasConnection,
         PromiseIsLive, TeardownFindsNoLoop
<1> QED
  BY <1>2, <1>4, <1>5, <1>6 DEF IInv

LEMMA NextIInv == IInv /\ [Next]_vars => IInv'
<1> SUFFICES ASSUME IInv, [Next]_vars PROVE IInv'
  OBVIOUS
<1> USE ConstantsAssumption, SerialUse
<1> USE DEF IInv, TypeOK, NoOrphanConnection, NoOrphanContext, LoopIsReachable,
       CloseReachesLoops, LiveIsHonest, AttemptsWithinBudget, GracefulHasConnection,
       FlowKinds, PromiseIsLive, AttemptIsAlone, LoopRunsDown, WaiterIsNext,
       TeardownFindsNoLoop, Active, NoLoop, NoAttempt, Attempting, Health, LiveHealth,
       supervisor, vars
<1>1. CASE Disconnect
  BY <1>1 DEF Disconnect, CancelReconnect, Teardown, SettledGraceful
<1>2. CASE DisconnectAsync
  BY <1>2 DEF DisconnectAsync, CancelReconnect
<1>3. ASSUME NEW c \in Callers, Connect(c) PROVE IInv'
  <2>1. TypeOK'
    <3>1. aborted' \in [Loops -> BOOLEAN]
      BY <1>3 DEF Connect, CancelReconnect
    <3>2. /\ pc' \in [Flows -> {"idle", "awaitLoop", "backoff", "resolved", "rejected"} \cup Attempting]
          /\ waitsFor' \in [Callers -> Loops \cup {None}]
      BY <1>3 DEF Connect, CancelReconnect
    <3>3. transport' \in Conns \cup {None} /\ draining' \subseteq Conns
          /\ graceful' \in {"none", "pending", "settled"}
      BY <1>3 DEF Connect, SupersedeTransport, SettledGraceful
    <3> QED
      BY <1>3, <3>1, <3>2, <3>3 DEF Connect, CancelReconnect
  <2>2. NoOrphanConnection' /\ NoOrphanContext'
    BY <1>3 DEF Connect, CancelReconnect, SupersedeTransport, SettledGraceful
  <2>3. LoopIsReachable' /\ CloseReachesLoops' /\ PromiseIsLive'
    BY <1>3 DEF Connect, CancelReconnect, SupersedeTransport, SettledGraceful
  <2>4. LiveIsHonest' /\ AttemptsWithinBudget' /\ GracefulHasConnection'
    BY <1>3 DEF Connect, CancelReconnect, SupersedeTransport, SettledGraceful
  <2>5. FlowKinds' /\ AttemptIsAlone' /\ LoopRunsDown'
    BY <1>3 DEF Connect, CancelReconnect, SupersedeTransport, SettledGraceful
  <2>6. WaiterIsNext' /\ TeardownFindsNoLoop'
    BY <1>3 DEF Connect, CancelReconnect, SupersedeTransport, SettledGraceful
  <2> QED
    BY <2>1, <2>2, <2>3, <2>4, <2>5, <2>6 DEF IInv
<1>4. ASSUME NEW c \in Callers, ConnectResumes(c) PROVE IInv'
  BY <1>4 DEF ConnectResumes, Resumable, SupersedeTransport, SettledGraceful
<1>5. ASSUME NEW f \in Flows, Opened(f) PROVE IInv'
  BY <1>5 DEF Opened, Signalled, FreeConns
<1>6. ASSUME NEW f \in Flows, OpenFails(f) PROVE IInv'
  BY <1>6 DEF OpenFails, Outcome
<1>7. ASSUME NEW f \in Flows, Discovered(f) PROVE IInv'
  BY <1>7 DEF Discovered
<1>8. ASSUME NEW f \in Flows, AttemptFails(f) PROVE IInv'
  BY <1>8 DEF AttemptFails, Outcome
<1>9. ASSUME NEW f \in Flows, ConnectSucceeds(f) PROVE IInv'
  <2>1. TypeOK'
    <3>1. ctx[f] \in Conns
      BY <1>9 DEF ConnectSucceeds
    <3>2. pc' \in [Flows -> {"idle", "awaitLoop", "backoff", "resolved", "rejected"} \cup Attempting]
      BY <1>9 DEF ConnectSucceeds, Outcome
    <3>3. ctx' \in [Flows -> Conns \cup {None}]
      BY <1>9 DEF ConnectSucceeds
    <3>4. beating' \in BOOLEAN
      BY <1>9 DEF ConnectSucceeds
    <3>5. transport' \in Conns /\ draining' \subseteq Conns
      BY <1>9, <3>1 DEF ConnectSucceeds
    <3>6. attempts' \in Nat /\ closed' \in BOOLEAN /\ health' = "connected"
      BY <1>9 DEF ConnectSucceeds
    <3> QED
      BY <1>9, <3>2, <3>3, <3>4, <3>5, <3>6 DEF ConnectSucceeds
  <2>2. NoOrphanConnection' /\ NoOrphanContext'
    BY <1>9 DEF ConnectSucceeds, Outcome, Settled
  <2>3. LoopIsReachable' /\ CloseReachesLoops' /\ PromiseIsLive'
    BY <1>9 DEF ConnectSucceeds, Outcome, Settled
  <2>4. LiveIsHonest' /\ AttemptsWithinBudget' /\ GracefulHasConnection'
    BY <1>9 DEF ConnectSucceeds, Outcome, Settled
  <2>5. FlowKinds' /\ AttemptIsAlone' /\ LoopRunsDown'
    BY <1>9 DEF ConnectSucceeds, Outcome, Settled
  <2>6. WaiterIsNext' /\ TeardownFindsNoLoop'
    BY <1>9 DEF ConnectSucceeds, Outcome, Settled
  <2> QED
    BY <2>1, <2>2, <2>3, <2>4, <2>5, <2>6 DEF IInv
<1>10. ASSUME NEW conn \in Conns, ConnectionLost(conn) PROVE IInv'
  <2>1. TypeOK'
    BY <1>10 DEF ConnectionLost, DisconnectInternal, Teardown, SettledGraceful, Settled, Resumable
  <2>2. NoOrphanConnection' /\ NoOrphanContext'
    BY <1>10 DEF ConnectionLost, DisconnectInternal, Teardown, SettledGraceful, Settled, Resumable
  <2>3. LoopIsReachable' /\ CloseReachesLoops' /\ PromiseIsLive'
    BY <1>10 DEF ConnectionLost, DisconnectInternal, Teardown, SettledGraceful, Settled, Resumable
  <2>4. LiveIsHonest' /\ AttemptsWithinBudget' /\ GracefulHasConnection'
    BY <1>10 DEF ConnectionLost, DisconnectInternal, Teardown, SettledGraceful, Settled, Resumable
  <2>5. FlowKinds' /\ AttemptIsAlone' /\ LoopRunsDown'
    BY <1>10 DEF ConnectionLost, DisconnectInternal, Teardown, SettledGraceful, Settled, Resumable
  <2>6. WaiterIsNext' /\ TeardownFindsNoLoop'
    BY <1>10 DEF ConnectionLost, DisconnectInternal, Teardown, SettledGraceful, Settled, Resumable
  <2> QED
    BY <2>1, <2>2, <2>3, <2>4, <2>5, <2>6 DEF IInv
<1>11. ASSUME NEW conn \in Conns, DeviceDisconnects(conn) PROVE IInv'
  <2>1. TypeOK'
    BY <1>11 DEF DeviceDisconnects, DisconnectInternal, Teardown, SettledGraceful, Settled, Resumable
  <2>2. NoOrphanConnection' /\ NoOrphanContext'
    BY <1>11 DEF DeviceDisconnects, DisconnectInternal, Teardown, SettledGraceful, Settled, Resumable
  <2>3. LoopIsReachable' /\ CloseReachesLoops' /\ PromiseIsLive'
    BY <1>11 DEF DeviceDisconnects, DisconnectInternal, Teardown, SettledGraceful, Settled, Resumable
  <2>4. LiveIsHonest' /\ AttemptsWithinBudget' /\ GracefulHasConnection'
    BY <1>11 DEF DeviceDisconnects, DisconnectInternal, Teardown, SettledGraceful, Settled, Resumable
  <2>5. FlowKinds' /\ AttemptIsAlone' /\ LoopRunsDown'
    BY <1>11 DEF DeviceDisconnects, DisconnectInternal, Teardown, SettledGraceful, Settled, Resumable
  <2>6. WaiterIsNext' /\ TeardownFindsNoLoop'
    BY <1>11 DEF DeviceDisconnects, DisconnectInternal, Teardown, SettledGraceful, Settled, Resumable
  <2> QED
    BY <2>1, <2>2, <2>3, <2>4, <2>5, <2>6 DEF IInv
<1>12. CASE HeartbeatStalls
  <2>1. TypeOK'
    BY <1>12 DEF HeartbeatStalls, Settled, Resumable
  <2>2. NoOrphanConnection' /\ NoOrphanContext'
    BY <1>12 DEF HeartbeatStalls, Settled, Resumable
  <2>3. LoopIsReachable' /\ CloseReachesLoops' /\ PromiseIsLive'
    BY <1>12 DEF HeartbeatStalls, Settled, Resumable
  <2>4. LiveIsHonest' /\ AttemptsWithinBudget' /\ GracefulHasConnection'
    BY <1>12 DEF HeartbeatStalls, Settled, Resumable
  <2>5. FlowKinds' /\ AttemptIsAlone' /\ LoopRunsDown'
    BY <1>12 DEF HeartbeatStalls, Settled, Resumable
  <2>6. WaiterIsNext' /\ TeardownFindsNoLoop'
    BY <1>12 DEF HeartbeatStalls, Settled, Resumable
  <2> QED
    BY <2>1, <2>2, <2>3, <2>4, <2>5, <2>6 DEF IInv
<1>13. CASE StallTeardown
  BY <1>13 DEF StallTeardown, DisconnectInternal, Teardown, SettledGraceful
<1>14. CASE GracefulSettles
  BY <1>14 DEF GracefulSettles, Settled, Resumable
<1>15. CASE GracefulFinishes
  <2>1. TypeOK'
    BY <1>15 DEF GracefulFinishes
  <2>2. NoOrphanConnection' /\ NoOrphanContext'
    BY <1>15 DEF GracefulFinishes
  <2>3. LoopIsReachable' /\ CloseReachesLoops' /\ PromiseIsLive'
    BY <1>15 DEF GracefulFinishes
  <2>4. LiveIsHonest' /\ AttemptsWithinBudget' /\ GracefulHasConnection'
    BY <1>15 DEF GracefulFinishes
  <2>5. FlowKinds' /\ AttemptIsAlone' /\ LoopRunsDown'
    BY <1>15 DEF GracefulFinishes
  <2>6. WaiterIsNext' /\ TeardownFindsNoLoop'
    BY <1>15 DEF GracefulFinishes
  <2> QED
    BY <2>1, <2>2, <2>3, <2>4, <2>5, <2>6 DEF IInv
<1>16. ASSUME NEW l \in Loops, ScheduleReconnect(l) PROVE IInv'
  <2>1. TypeOK'
    BY <1>16 DEF ScheduleReconnect, BeginIteration, FreeLoops
  <2>2. NoOrphanConnection' /\ NoOrphanContext'
    BY <1>16 DEF ScheduleReconnect, BeginIteration, FreeLoops
  <2>3. LoopIsReachable' /\ CloseReachesLoops' /\ PromiseIsLive'
    BY <1>16 DEF ScheduleReconnect, BeginIteration, FreeLoops
  <2>4. LiveIsHonest' /\ AttemptsWithinBudget' /\ GracefulHasConnection'
    BY <1>16 DEF ScheduleReconnect, BeginIteration, FreeLoops
  <2>5. FlowKinds' /\ AttemptIsAlone' /\ LoopRunsDown'
    BY <1>16 DEF ScheduleReconnect, BeginIteration, FreeLoops
  <2>6. WaiterIsNext' /\ TeardownFindsNoLoop'
    BY <1>16 DEF ScheduleReconnect, BeginIteration, FreeLoops
  <2> QED
    BY <2>1, <2>2, <2>3, <2>4, <2>5, <2>6 DEF IInv
<1>17. CASE SkipReconnect
  BY <1>17 DEF SkipReconnect
<1>18. ASSUME NEW l \in Loops, LoopAttempts(l) PROVE IInv'
  BY <1>18 DEF LoopAttempts, SupersedeTransport, SettledGraceful, Settled
<1>19. ASSUME NEW l \in Loops, LoopBreaks(l) PROVE IInv'
  <2>1. TypeOK'
    BY <1>19 DEF LoopBreaks, EndLoop, Cancelled
  <2>2. NoOrphanConnection' /\ NoOrphanContext'
    BY <1>19 DEF LoopBreaks, EndLoop, Cancelled
  <2>3. LoopIsReachable' /\ CloseReachesLoops' /\ PromiseIsLive'
    BY <1>19 DEF LoopBreaks, EndLoop, Cancelled
  <2>4. LiveIsHonest' /\ AttemptsWithinBudget' /\ GracefulHasConnection'
    BY <1>19 DEF LoopBreaks, EndLoop, Cancelled
  <2>5. FlowKinds' /\ AttemptIsAlone' /\ LoopRunsDown'
    BY <1>19 DEF LoopBreaks, EndLoop, Cancelled
  <2>6. WaiterIsNext' /\ TeardownFindsNoLoop'
    BY <1>19 DEF LoopBreaks, EndLoop, Cancelled
  <2> QED
    BY <2>1, <2>2, <2>3, <2>4, <2>5, <2>6 DEF IInv
<1>20. ASSUME NEW l \in Loops, LoopReturns(l) PROVE IInv'
  BY <1>20 DEF LoopReturns, EndLoop
<1>21. ASSUME NEW l \in Loops, LoopRetries(l) PROVE IInv'
  BY <1>21 DEF LoopRetries, BeginIteration
<1>22. ASSUME NEW l \in Loops, LoopGivesUp(l) PROVE IInv'
  BY <1>22 DEF LoopGivesUp, EndLoop
<1>23. CASE UNCHANGED vars
  BY <1>23 DEF Settled
<1> QED
  BY <1>1, <1>2, <1>3, <1>4, <1>5, <1>6, <1>7, <1>8, <1>9, <1>10, <1>11, <1>12,
     <1>13, <1>14, <1>15, <1>16, <1>17, <1>18, <1>19, <1>20, <1>21, <1>22, <1>23
     DEF Next, Api, Flow, Device, Continuation

\* Every variable keeps its type: the state the code can reach is the one declared.
THEOREM TypeCorrect == Spec => []TypeOK
<1>1. IInv => TypeOK
  BY DEF IInv
<1> QED
  BY <1>1, InitIInv, NextIInv, PTL DEF Spec

\* Two connect flows never run at once: the loop, like a caller, has the connection state to
\* itself from the moment it supersedes the old transport.
THEOREM ConnectFlowsAreSerial == Spec => []OneConnectFlow
<1>1. IInv => OneConnectFlow
  <2> SUFFICES ASSUME IInv, NEW f \in Flows, NEW g \in Flows,
                      pc[f] \in Attempting, pc[g] \in Attempting
               PROVE  f = g
    BY DEF OneConnectFlow
  <2> USE ConstantsAssumption, SerialUse DEF IInv, AttemptIsAlone, NoLoop, Active, Attempting
  <2>1. CASE f \in Callers /\ g \in Callers
    BY <2>1
  <2>2. CASE f \in Callers /\ g \in Loops
    BY <2>2
  <2>3. CASE f \in Loops /\ g \in Callers
    BY <2>3
  <2>4. CASE f \in Loops /\ g \in Loops
    BY <2>4 DEF LoopIsReachable
  <2> QED
    BY <2>1, <2>2, <2>3, <2>4
<1> QED
  BY <1>1, InitIInv, NextIInv, PTL DEF Spec

\* No receiver survives its session: whatever can still call disconnectInternal() is the
\* receiver of the current transport, and a failed attempt leaves no context.
THEOREM NoConnectionIsOrphaned == Spec => []NothingIsOrphaned
<1>1. IInv => NothingIsOrphaned
  BY DEF IInv, NothingIsOrphaned
<1> QED
  BY <1>1, InitIInv, NextIInv, PTL DEF Spec

\* Every running loop can be reached by the next disconnect() or connect(), and after a
\* disconnect() has been told to stop.
THEOREM LoopsAreControlled == Spec => []LoopsAreOwned
<1>1. IInv => LoopsAreOwned
  BY DEF IInv, LoopsAreOwned
<1> QED
  BY <1>1, InitIInv, NextIInv, PTL DEF Spec

\* While a connection is up, health, heartbeat and the closed flag tell the truth about it.
THEOREM LiveConnectionIsHonest == Spec => [](LiveIsHonest /\ GracefulHasConnection)
<1>1. IInv => LiveIsHonest /\ GracefulHasConnection
  BY DEF IInv
<1> QED
  BY <1>1, InitIInv, NextIInv, PTL DEF Spec

\* No reconnect sequence exceeds the configured budget.
THEOREM BudgetIsKept == Spec => []AttemptsWithinBudget
<1>1. IInv => AttemptsWithinBudget
  BY DEF IInv
<1> QED
  BY <1>1, InitIInv, NextIInv, PTL DEF Spec

\* Only a caller's connect(), which is about to open another connection, takes one down in
\* silence: every teardown says so in health, and no loop supersedes a connection.
THEOREM NoLossIsSwallowed == Spec => LossIsReported
<1>1. IInv /\ [Next]_vars =>
        [transport # None /\ transport' = None /\ ~(\E c \in Callers : pc'[c] = "opening")
           => health' = "disconnected"]_vars
  <2> SUFFICES ASSUME IInv, Next, transport # None, transport' = None,
                      ~(\E c \in Callers : pc'[c] = "opening")
               PROVE  health' = "disconnected"
    OBVIOUS
  <2>1. ASSUME NEW c \in Callers, Connect(c) \/ ConnectResumes(c) PROVE FALSE
    <3>1. pc'[c] # "opening" /\ c \in Flows
      BY DEF Flows
    <3>2. transport' = transport
      BY <2>1, <3>1 DEF IInv, TypeOK, Connect, ConnectResumes
    <3> QED
      BY <3>2
  <2>2. ASSUME NEW f \in Flows, Flow(f) PROVE FALSE
    <3>1. pc[f] \notin Attempting
      BY DEF IInv, AttemptIsAlone, NoAttempt
    <3> QED
      BY <2>2, <3>1 DEF Flow, Opened, OpenFails, Discovered, AttemptFails, ConnectSucceeds, Attempting
  <2>3. ASSUME NEW l \in Loops, LoopAttempts(l) PROVE FALSE
    BY <2>3 DEF LoopAttempts, IInv, LoopRunsDown, Active
  <2>4. CASE Disconnect \/ Device \/ StallTeardown \/ GracefulFinishes
    BY <2>4 DEF Disconnect, Device, ConnectionLost, DeviceDisconnects, HeartbeatStalls,
                StallTeardown, GracefulFinishes, DisconnectInternal, Teardown
  <2>5. CASE DisconnectAsync \/ GracefulSettles \/ SkipReconnect
    BY <2>5 DEF DisconnectAsync, GracefulSettles, SkipReconnect
  <2>6. ASSUME NEW l \in Loops,
               ScheduleReconnect(l) \/ LoopBreaks(l) \/ LoopReturns(l) \/ LoopRetries(l) \/ LoopGivesUp(l)
        PROVE  FALSE
    BY <2>6 DEF ScheduleReconnect, LoopBreaks, LoopReturns, LoopRetries, LoopGivesUp
  <2> QED
    BY <2>1, <2>2, <2>3, <2>4, <2>5, <2>6 DEF Next, Api, Continuation
<1> QED
  BY <1>1, InitIInv, NextIInv, PTL DEF Spec, LossIsReported

-----------------------------------------------------------------------------
(* Session implements Lifecycle. *)

LEMMA AnnouncedStart == Init => SupervisorIsAnnounced
  BY DEF Init, SupervisorIsAnnounced, Active

LEMMA AnnouncedStep == IInv /\ SupervisorIsAnnounced /\ [Next]_vars => SupervisorIsAnnounced'
<1> SUFFICES ASSUME IInv, SupervisorIsAnnounced, [Next]_vars PROVE SupervisorIsAnnounced'
  OBVIOUS
<1> USE ConstantsAssumption, SerialUse
<1> USE DEF SupervisorIsAnnounced, Active
<1>0. /\ pc \in [Flows -> {"idle", "awaitLoop", "backoff", "resolved", "rejected"} \cup Attempting]
      /\ attempts \in Nat
  BY DEF IInv, TypeOK
<1>1. CASE Disconnect
  BY <1>1 DEF Disconnect, CancelReconnect, Teardown, IInv, LoopRunsDown
<1>2. CASE DisconnectAsync \/ GracefulSettles \/ SkipReconnect
  BY <1>2 DEF DisconnectAsync, GracefulSettles, SkipReconnect
<1>3. ASSUME NEW c \in Callers, Connect(c) \/ ConnectResumes(c) PROVE SupervisorIsAnnounced'
  <2>1. \A l \in Loops : pc'[l] = pc[l]
    BY <1>0, <1>3 DEF Connect, ConnectResumes
  <2> QED
    BY <1>3, <2>1 DEF Connect, ConnectResumes
<1>4. ASSUME NEW f \in Flows, Opened(f) \/ OpenFails(f) \/ Discovered(f) \/ AttemptFails(f)
      PROVE  SupervisorIsAnnounced'
  <2>1. \A l \in Loops : pc'[l] # "idle" /\ pc'[l] # "resolved" => pc[l] # "idle" /\ pc[l] # "resolved"
    BY <1>0, <1>4 DEF Opened, OpenFails, Discovered, AttemptFails, Outcome
  <2>2. UNCHANGED <<health, attempts, task>>
    BY <1>4 DEF Opened, OpenFails, Discovered, AttemptFails
  <2> QED
    BY <2>1, <2>2
<1>5. ASSUME NEW f \in Flows, ConnectSucceeds(f) PROVE SupervisorIsAnnounced'
  <2>1. task' = "none" /\ pc[f] = "finalSend"
    BY <1>5 DEF ConnectSucceeds, Settled
  <2>2. \A l \in Loops : pc'[l] = "idle" \/ pc'[l] = "resolved"
    BY <1>0, <1>5, <2>1 DEF ConnectSucceeds, Outcome, IInv, LoopIsReachable, AttemptIsAlone, NoLoop, Attempting
  <2> QED
    BY <2>1, <2>2
<1>6. CASE Device \/ StallTeardown \/ GracefulFinishes
  <2>1. UNCHANGED <<pc, attempts>>
    BY <1>6 DEF Device, ConnectionLost, DeviceDisconnects, HeartbeatStalls, StallTeardown, GracefulFinishes
  <2>2. ASSUME NEW l \in Loops, Active(l), pc[l] # "resolved" PROVE health' = health
    BY <1>6, <2>2 DEF Device, ConnectionLost, DeviceDisconnects, HeartbeatStalls, StallTeardown, GracefulFinishes,
                      DisconnectInternal, Teardown, IInv, LoopRunsDown
  <2>3. task' = "schedule" => health' = "disconnected"
    BY <1>6 DEF Device, ConnectionLost, DeviceDisconnects, HeartbeatStalls, StallTeardown, GracefulFinishes,
                DisconnectInternal, Teardown
  <2> QED
    BY <2>1, <2>2, <2>3
<1>7. ASSUME NEW l \in Loops, ScheduleReconnect(l) \/ LoopRetries(l) PROVE SupervisorIsAnnounced'
  BY <1>0, <1>7 DEF ScheduleReconnect, LoopRetries, BeginIteration
<1>8. ASSUME NEW l \in Loops, LoopAttempts(l) \/ LoopBreaks(l) \/ LoopReturns(l) PROVE SupervisorIsAnnounced'
  <2>1. \A k \in Loops : pc'[k] # "idle" /\ pc'[k] # "resolved" => pc[k] # "idle" /\ pc[k] # "resolved"
    BY <1>0, <1>8 DEF LoopAttempts, LoopBreaks, LoopReturns, EndLoop
  <2> QED
    BY <1>8, <2>1 DEF LoopAttempts, LoopBreaks, LoopReturns, EndLoop
<1>9. ASSUME NEW l \in Loops, LoopGivesUp(l) PROVE SupervisorIsAnnounced'
  <2>1. \A k \in Loops : pc'[k] = "idle"
    BY <1>0, <1>9 DEF LoopGivesUp, EndLoop, IInv, LoopIsReachable
  <2> QED
    BY <1>9, <2>1 DEF LoopGivesUp, EndLoop
<1>10. CASE UNCHANGED vars
  BY <1>10 DEF vars
<1> QED
  BY <1>1, <1>2, <1>3, <1>4, <1>5, <1>6, <1>7, <1>8, <1>9, <1>10 DEF Next, Api, Flow, Continuation

\* Whose attempt it is, of flows that are one at a time.
AttemptOf(p) ==
  IF \A f \in Flows : p[f] \notin Attempting THEN None ELSE CHOOSE f \in Flows : p[f] \in Attempting

LEMMA AttemptIs ==
  ASSUME NEW p, \A f, g \in Flows : p[f] \in Attempting /\ p[g] \in Attempting => f = g
  PROVE  /\ \A f \in Flows : p[f] \in Attempting => AttemptOf(p) = f
         /\ (\A f \in Flows : p[f] \notin Attempting) => AttemptOf(p) = None
<1>1. ASSUME NEW f \in Flows, p[f] \in Attempting PROVE AttemptOf(p) = f
  BY <1>1 DEF AttemptOf
<1> QED
  BY <1>1 DEF AttemptOf

LEMMA AttemptsAre == Attempt = AttemptOf(pc) /\ Attempt' = AttemptOf(pc')
  BY DEF Attempt, AttemptOf, NoAttempt

\* Of a step: the attempt goes on while its flow is attempting.
LEMMA AttemptFollows ==
  ASSUME OneConnectFlow, OneConnectFlow'
  PROVE  /\ (\A f \in Flows : pc'[f] \in Attempting <=> pc[f] \in Attempting) => Attempt' = Attempt
         /\ \A f \in Flows : pc[f] \in Attempting => Attempt = f /\ Attempt # None
         /\ \A f \in Flows : pc'[f] \in Attempting => Attempt' = f
         /\ NoAttempt => Attempt = None
         /\ NoAttempt' => Attempt' = None
<1> USE ConstantsAssumption
<1>1. /\ \A f \in Flows : pc[f] \in Attempting => Attempt = f
      /\ NoAttempt => Attempt = None
  BY AttemptIs, AttemptsAre DEF OneConnectFlow, NoAttempt
<1>2. /\ \A f \in Flows : pc'[f] \in Attempting => Attempt' = f
      /\ NoAttempt' => Attempt' = None
  <2>1. \A f, g \in Flows : pc'[f] \in Attempting /\ pc'[g] \in Attempting => f = g
    BY DEF OneConnectFlow
  <2> QED
    BY <2>1, AttemptIs, AttemptsAre DEF NoAttempt
<1>3. ASSUME \A f \in Flows : pc'[f] \in Attempting <=> pc[f] \in Attempting PROVE Attempt' = Attempt
  BY <1>1, <1>2, <1>3 DEF NoAttempt
<1> QED
  BY <1>1, <1>2, <1>3

LEMMA InitIsALife == Init => Life!Init
<1> SUFFICES ASSUME Init PROVE Life!Init
  OBVIOUS
<1>1. NoAttempt
  BY DEF Init, NoAttempt, Attempting
<1> QED
  BY <1>1 DEF Init, Life!Init, Attempt

\* Of a disconnectAsync(): what settles it does not end it, and while an attempt is under way there
\* is none, or only one that was settled.
LEMMA LeavingLasts ==
  /\ (SettledGraceful # "none") = (graceful # "none")
  /\ IInv /\ ~NoAttempt /\ graceful # "settled" => graceful = "none"
<1>1. (SettledGraceful # "none") = (graceful # "none")
  BY DEF SettledGraceful
<1>2. IInv /\ ~NoAttempt /\ graceful # "settled" => graceful = "none"
  BY DEF IInv, TypeOK, AttemptIsAlone, GracefulHasConnection
<1> QED
  BY <1>1, <1>2

LEMMA StepOfLife ==
  IInv /\ SupervisorIsAnnounced /\ OneConnectFlow /\ OneConnectFlow' /\ [Next]_vars => [Life!Next]_(Life!vars)
<1> SUFFICES ASSUME IInv, SupervisorIsAnnounced, OneConnectFlow, OneConnectFlow', [Next]_vars
             PROVE  [Life!Next]_(Life!vars)
  OBVIOUS
<1> USE ConstantsAssumption, SerialUse
<1>0. /\ pc \in [Flows -> {"idle", "awaitLoop", "backoff", "resolved", "rejected"} \cup Attempting]
      /\ attempts \in Nat /\ attempts <= MaxAttempts /\ transport \in Conns \cup {None}
  BY DEF IInv, TypeOK, AttemptsWithinBudget
<1>1. CASE Disconnect
  <2>1. Attempt' = Attempt
    BY <1>1, AttemptFollows DEF Disconnect
  <2> QED
    BY <1>1, <2>1, LeavingLasts DEF Disconnect, Teardown, Life!Next, Life!Closes, Life!LinkGoes
<1>2. CASE DisconnectAsync
  <2>1. Attempt' = Attempt
    BY <1>2, AttemptFollows DEF DisconnectAsync
  <2>2. (graceful' # "none") = (graceful # "none" \/ transport # None)
    BY <1>2 DEF DisconnectAsync
  <2> QED
    BY <1>2, <2>1, <2>2 DEF DisconnectAsync, Life!Next, Life!SaysGoodbye
<1>3. CASE GracefulSettles \/ SkipReconnect
  <2>1. Attempt' = Attempt
    BY <1>3, AttemptFollows DEF GracefulSettles, SkipReconnect
  <2> QED
    BY <1>3, <2>1 DEF GracefulSettles, SkipReconnect, Life!vars
<1>4. ASSUME NEW c \in Callers, Connect(c) \/ ConnectResumes(c) PROVE [Life!Next]_(Life!vars)
  <2>1. CASE pc'[c] = "opening"
    <3>1. NoAttempt
      <4>1. NoLoop /\ pc[c] \in {"idle", "awaitLoop"}
        BY <1>4, <2>1, <1>0 DEF Connect, ConnectResumes, Resumable, IInv, LoopIsReachable, WaiterIsNext, NoLoop, Active
      <4> QED
        BY <4>1 DEF NoAttempt, NoLoop, Active, Attempting
    <3>2. Attempt = None /\ Attempt' = c
      BY <2>1, <3>1, AttemptFollows DEF Attempting
    <3>3. transport' = None /\ graceful' = SettledGraceful /\ UNCHANGED <<attempts, closed, health>>
      BY <1>0, <1>4, <2>1 DEF Connect, ConnectResumes, SupersedeTransport
    <3> QED
      BY <3>2, <3>3, LeavingLasts DEF Life!Next, Life!Connects
  <2>2. CASE pc'[c] # "opening"
    <3>1. /\ \/ pc' = pc
             \/ pc[c] \in {"idle", "awaitLoop"} /\ pc' = [pc EXCEPT ![c] = "awaitLoop"]
             \/ pc[c] \in {"idle", "awaitLoop"} /\ pc' = [pc EXCEPT ![c] = "idle"]
          /\ UNCHANGED <<transport, attempts, closed, graceful, health>>
      BY <1>0, <1>4, <2>2 DEF Connect, ConnectResumes, Resumable
    <3>2. Attempt' = Attempt
      BY <1>0, <3>1, AttemptFollows DEF Attempting
    <3> QED
      BY <3>1, <3>2 DEF Life!vars
  <2> QED
    BY <2>1, <2>2
<1>5. ASSUME NEW f \in Flows, Opened(f) \/ Discovered(f) PROVE [Life!Next]_(Life!vars)
  <2>1. \A g \in Flows : pc'[g] \in Attempting <=> pc[g] \in Attempting
    BY <1>0, <1>5 DEF Opened, Discovered, Attempting
  <2>2. Attempt' = Attempt
    BY <2>1, AttemptFollows
  <2> QED
    BY <1>5, <2>2 DEF Opened, Discovered, Life!vars
<1>6. ASSUME NEW f \in Flows, OpenFails(f) \/ AttemptFails(f) PROVE [Life!Next]_(Life!vars)
  <2>1. pc[f] \in Attempting /\ transport = None /\ transport' = None
    BY <1>6 DEF OpenFails, AttemptFails, Attempting, IInv, AttemptIsAlone, NoAttempt
  <2>2. NoAttempt'
    BY <1>0, <1>6, <2>1 DEF OpenFails, AttemptFails, Outcome, OneConnectFlow, NoAttempt, Attempting
  <2>3. Attempt # None /\ Attempt' = None
    BY <2>1, <2>2, AttemptFollows
  <2>4. UNCHANGED <<attempts, closed, graceful, health>>
    BY <1>6 DEF OpenFails, AttemptFails
  <2> QED
    BY <2>1, <2>3, <2>4 DEF Life!Next, Life!Fails
<1>7. ASSUME NEW f \in Flows, ConnectSucceeds(f) PROVE [Life!Next]_(Life!vars)
  <2>1. pc[f] \in Attempting /\ ctx[f] \in Conns
    BY <1>7 DEF ConnectSucceeds, Attempting, IInv, TypeOK, NoOrphanContext
  <2>2. NoAttempt'
    BY <1>0, <1>7, <2>1 DEF ConnectSucceeds, Outcome, OneConnectFlow, NoAttempt, Attempting
  <2>3. Attempt # None /\ Attempt' = None
    BY <2>1, <2>2, AttemptFollows
  <2>4. graceful = "none"
    BY <1>7, <2>1, LeavingLasts DEF ConnectSucceeds, Settled, NoAttempt
  <2> QED
    BY <1>7, <2>1, <2>3, <2>4 DEF ConnectSucceeds, Life!Next, Life!Succeeds
<1>8. CASE Device \/ StallTeardown \/ GracefulFinishes
  <2>1. UNCHANGED <<pc, attempts, closed>>
    BY <1>8 DEF Device, ConnectionLost, DeviceDisconnects, HeartbeatStalls, StallTeardown, GracefulFinishes
  <2>2. Attempt' = Attempt
    BY <2>1, AttemptFollows
  <2>3. CASE Device \/ StallTeardown
    <3>1. \/ transport' = None /\ health' = IF transport = None THEN health ELSE "disconnected"
          \/ transport' = transport /\ health' = IF health \in LiveHealth THEN "stalled" ELSE health
      BY <2>3 DEF Device, ConnectionLost, DeviceDisconnects, HeartbeatStalls, StallTeardown,
                  DisconnectInternal, Teardown
    <3>2. graceful' = graceful \/ graceful' = SettledGraceful
      BY <2>3 DEF Device, ConnectionLost, DeviceDisconnects, HeartbeatStalls, StallTeardown,
                  DisconnectInternal, Teardown
    <3>3. (graceful' # "none") = (graceful # "none")
      BY <3>2, LeavingLasts
    <3> QED
      BY <2>1, <2>2, <3>1, <3>3 DEF LiveHealth, Life!Next, Life!Loses, Life!LinkGoes, Life!Stalls, Life!vars
  <2>4. CASE GracefulFinishes
    BY <2>1, <2>2, <2>4 DEF GracefulFinishes, Life!Next, Life!Leaves, Life!LinkGoes
  <2> QED
    BY <1>8, <2>3, <2>4
<1>9. ASSUME NEW l \in Loops, ScheduleReconnect(l) \/ LoopRetries(l) PROVE [Life!Next]_(Life!vars)
  <2>1. /\ transport = None /\ ~closed /\ attempts < MaxAttempts /\ pc[l] \notin Attempting
        /\ health \in {"disconnected", "reconnecting"}
    BY <1>0, <1>9 DEF ScheduleReconnect, LoopRetries, FreeLoops, IInv, TeardownFindsNoLoop, NoLoop, LoopRunsDown, Active,
                      SupervisorIsAnnounced, Attempting
  <2>2. pc' = [pc EXCEPT ![l] = "backoff"] /\ attempts' = attempts + 1 /\ health' = "reconnecting" /\ UNCHANGED <<transport, closed, graceful>>
    BY <1>9 DEF ScheduleReconnect, LoopRetries, BeginIteration
  <2>3. NoAttempt
    BY <1>0, <1>9, <2>1 DEF ScheduleReconnect, LoopRetries, IInv, TeardownFindsNoLoop, AttemptIsAlone, LoopIsReachable, NoLoop,
                      Active, NoAttempt, Attempting
  <2>4. NoAttempt'
    BY <1>0, <2>2, <2>3 DEF NoAttempt, Attempting
  <2>5. Attempt = None /\ Attempt' = None
    BY <2>3, <2>4, AttemptFollows
  <2> QED
    BY <2>1, <2>2, <2>5 DEF Life!Next, Life!BacksOff
<1>10. ASSUME NEW l \in Loops, LoopAttempts(l) PROVE [Life!Next]_(Life!vars)
  <2>1. transport = None /\ ~closed /\ pc[l] = "backoff" /\ health = "reconnecting" /\ attempts > 0
    BY <1>10 DEF LoopAttempts, IInv, LoopRunsDown, Active, SupervisorIsAnnounced
  <2>2. NoAttempt
    BY <2>1 DEF IInv, AttemptIsAlone, LoopIsReachable, NoLoop, Active, NoAttempt, Attempting
  <2>3. /\ pc'[l] \in Attempting /\ transport' = None /\ graceful' = SettledGraceful
        /\ UNCHANGED <<attempts, closed, health>>
    BY <1>0, <1>10 DEF LoopAttempts, SupersedeTransport, Attempting
  <2>4. Attempt = None /\ Attempt' = l
    BY <2>2, <2>3, AttemptFollows
  <2> QED
    BY <2>1, <2>3, <2>4, LeavingLasts DEF Life!Next, Life!Retries
<1>11. ASSUME NEW l \in Loops, LoopBreaks(l) \/ LoopReturns(l) PROVE [Life!Next]_(Life!vars)
  <2>1. \A f \in Flows : pc'[f] \in Attempting <=> pc[f] \in Attempting
    BY <1>0, <1>11 DEF LoopBreaks, LoopReturns, Cancelled, EndLoop, Attempting
  <2>2. Attempt' = Attempt
    BY <2>1, AttemptFollows
  <2> QED
    BY <1>11, <2>2 DEF LoopBreaks, LoopReturns, Life!vars
<1>12. ASSUME NEW l \in Loops, LoopGivesUp(l) PROVE [Life!Next]_(Life!vars)
  <2>1. transport = None /\ ~closed /\ pc[l] = "rejected" /\ health = "reconnecting" /\ attempts > 0
    BY <1>12 DEF LoopGivesUp, IInv, LoopRunsDown, Active, SupervisorIsAnnounced
  <2>2. NoAttempt
    BY <2>1 DEF IInv, AttemptIsAlone, LoopIsReachable, NoLoop, Active, NoAttempt, Attempting
  <2>3. pc' = [pc EXCEPT ![l] = "idle"] /\ UNCHANGED <<transport, attempts, closed, graceful>> /\ health' = "disconnected"
    BY <1>12 DEF LoopGivesUp, EndLoop
  <2>4. NoAttempt'
    BY <1>0, <2>2, <2>3 DEF NoAttempt, Attempting
  <2>5. Attempt = None /\ Attempt' = None
    BY <2>2, <2>4, AttemptFollows
  <2> QED
    BY <2>1, <2>3, <2>5 DEF Life!Next, Life!GivesUp
<1>13. CASE UNCHANGED vars
  <2>1. UNCHANGED <<pc, transport, attempts, closed, graceful, health>>
    BY <1>13 DEF vars
  <2>2. Attempt' = Attempt
    BY <2>1, AttemptFollows
  <2> QED
    BY <2>1, <2>2 DEF Life!vars
<1> QED
  BY <1>1, <1>2, <1>3, <1>4, <1>5, <1>6, <1>7, <1>8, <1>9, <1>10, <1>11, <1>12, <1>13 DEF Next, Api, Flow, Continuation

\* The client is a Lifecycle: connect(), disconnect(), disconnectAsync(), the teardown and the
\* supervisor never do together what Lifecycle does not let a client do.
THEOREM ClientLivesOneLife == Spec => ClientIsALifecycle
<1>1. IInv /\ SupervisorIsAnnounced /\ [Next]_vars => SupervisorIsAnnounced'
  BY AnnouncedStep
<1> QED
  BY <1>1, InitIInv, NextIInv, AnnouncedStart, InitIsALife, StepOfLife, ConnectFlowsAreSerial, PTL
  DEF Spec, ClientIsALifecycle, Life!Spec

\* What follows for the application, of Lifecycle alone.
THEOREM LifeIsOrderly ==
  Life!Spec => []Life!AttemptsFindNothingUp /\ Life!LossIsReported /\ Life!GoodbyesAreForTheirOwn
<1> USE ConstantsAssumption
<1> DEFINE Orderly == Life!AttemptsFindNothingUp /\ attempts \in Nat
<1>1. Life!Init => Orderly
  BY DEF Life!Init, Life!AttemptsFindNothingUp
<1>2. Orderly /\ [Life!Next]_(Life!vars) => Orderly'
  BY DEF Life!Next, Life!vars, Life!AttemptsFindNothingUp, Life!Connects, Life!BacksOff, Life!Retries, Life!GivesUp,
         Life!Succeeds, Life!Fails, Life!LinkGoes, Life!Loses, Life!Closes, Life!SaysGoodbye, Life!Leaves, Life!Stalls
<1>3. Orderly /\ [Life!Next]_(Life!vars) =>
        [transport # None /\ transport' = None => Attempt' \in Callers \/ health' = "disconnected"]_(Life!vars)
  BY DEF Life!Next, Life!vars, Life!AttemptsFindNothingUp, Life!Connects, Life!BacksOff, Life!Retries, Life!GivesUp,
         Life!Succeeds, Life!Fails, Life!LinkGoes, Life!Loses, Life!Closes, Life!SaysGoodbye, Life!Leaves, Life!Stalls
<1>4. [Life!Next]_(Life!vars) =>
        [/\ (graceful # "none")' /\ ~(graceful # "none") => transport # None /\ transport' = transport
         /\ graceful # "none" => transport' \in {transport, None}]_(Life!vars)
  BY DEF Life!Next, Life!vars, Life!AttemptsFindNothingUp, Life!Connects, Life!BacksOff, Life!Retries, Life!GivesUp,
         Life!Succeeds, Life!Fails, Life!LinkGoes, Life!Loses, Life!Closes, Life!SaysGoodbye, Life!Leaves, Life!Stalls
<1> QED
  BY <1>1, <1>2, <1>3, <1>4, PTL DEF Life!Spec, Life!LossIsReported, Life!GoodbyesAreForTheirOwn

-----------------------------------------------------------------------------
(* withReconnect() around a session. *)

Body == [epoch : Nat, running : BOOLEAN, aborted : BOOLEAN, hasty : BOOLEAN]
LifecycleEvent == [kind : {"connect", "disconnect"}, epoch : 1..MaxConnects]

AroundShape ==
  /\ link \in [up : BOOLEAN, emitted : BOOLEAN, epoch : 0..MaxConnects]
  /\ link.up \/ ~link.emitted => link.epoch >= 1
  /\ helper \in {"idle", "listening", "ending", "returned"}
  /\ events \in Seq(LifecycleEvent)
  /\ bodies \in Seq(Body)

OldBodiesAreTold(bs) == \A i \in 1..Len(bs) - 1 : bs[i].aborted

\* Before the helper listens it has nothing, and once it stopped it told all.
HelperHasBounds ==
  /\ helper = "idle" => events = <<>> /\ bodies = <<>>
  /\ helper \in {"ending", "returned"} => \A i \in 1..Len(bodies) : bodies[i].aborted

\* The last event heard, or if all were handled the last body, is of the link as it is.
HelperHeardOfLink ==
  helper = "listening" /\ link.emitted =>
    IF events = <<>>
    THEN IF link.up
         THEN bodies # <<>> /\ bodies[Len(bodies)].epoch = link.epoch /\ ~bodies[Len(bodies)].aborted
         ELSE bodies # <<>> => bodies[Len(bodies)].aborted \/ (Len(bodies) = 1 /\ bodies[1].hasty)
    ELSE IF link.up THEN events[Len(events)] = [kind |-> "connect", epoch |-> link.epoch]
         ELSE events[Len(events)].kind = "disconnect"

AroundInv == AroundShape /\ OldBodiesAreTold(bodies) /\ HelperHasBounds /\ HelperHeardOfLink

LEMMA TailKeepsLast ==
  ASSUME NEW S, NEW s \in Seq(S), s # <<>>
  PROVE  /\ Tail(s) \in Seq(S) /\ Head(s) = s[1] /\ Head(s) \in S
         /\ Tail(s) # <<>> => Tail(s)[Len(Tail(s))] = s[Len(s)]
         /\ Tail(s) = <<>> => Len(s) = 1
<1>1. /\ Tail(s) \in Seq(S) /\ Head(s) \in S /\ Len(Tail(s)) = Len(s) - 1
      /\ \A i \in 1..Len(Tail(s)) : Tail(s)[i] = s[i + 1]
  BY HeadTailProperties
<1>2. Head(s) = s[1]
  OBVIOUS
<1>3. Len(s) \in Nat \ {0} /\ Len(<<>>) = 0
  BY EmptySeq
<1>4. Tail(s) = <<>> => Len(s) = 1
  <2>1. Len(Tail(s)) = Len(s) - 1 /\ Len(s) \in Nat
    BY <1>1, <1>3
  <2> QED
    BY ONLY <1>3, <2>1
<1>5. ASSUME Tail(s) # <<>> PROVE Tail(s)[Len(Tail(s))] = s[Len(s)]
  <2>1. Len(Tail(s)) \in Nat \ {0}
    BY <1>1, <1>5, EmptySeq
  <2>2. Len(Tail(s)) \in 1..Len(Tail(s)) /\ Len(Tail(s)) + 1 = Len(s)
    BY <1>1, <1>3, <2>1
  <2> QED
    BY <1>1, <2>2
<1> QED
  BY <1>1, <1>2, <1>4, <1>5

LEMMA AbortLastTellsAll ==
  ASSUME NEW bs \in Seq(Body), OldBodiesAreTold(bs)
  PROVE  /\ Around!AbortLast(bs) \in Seq(Body) /\ Len(Around!AbortLast(bs)) = Len(bs)
         /\ \A i \in 1..Len(bs) : Around!AbortLast(bs)[i].aborted
<1>1. CASE bs = <<>>
  BY <1>1 DEF Around!AbortLast
<1>2. CASE bs # <<>>
  <2> DEFINE n == Len(bs)
             last == [bs[n] EXCEPT !.aborted = TRUE]
  <2>1. n \in Nat /\ n >= 1 /\ n \in 1..Len(bs) /\ bs[n] \in Body
    BY <1>2
  <2>2. last \in Body /\ last.aborted
    BY <2>1 DEF Body
  <2>3. Around!AbortLast(bs) = [bs EXCEPT ![n] = last]
    BY <1>2 DEF Around!AbortLast, Around!Aborted
  <2> HIDE DEF last, n
  <2>4. /\ [bs EXCEPT ![n] = last] \in Seq(Body) /\ Len([bs EXCEPT ![n] = last]) = Len(bs)
        /\ \A i \in 1..Len(bs) : [bs EXCEPT ![n] = last][i] = IF i = n THEN last ELSE bs[i]
    BY <2>1, <2>2
  <2>5. \A i \in 1..Len(bs) : i = n \/ i \in 1..Len(bs) - 1
    BY DEF n
  <2> QED
    BY <2>2, <2>3, <2>4, <2>5 DEF OldBodiesAreTold
<1> QED
  BY <1>1, <1>2

LEMMA RunBodyTellsOthers ==
  ASSUME NEW bs \in Seq(Body), OldBodiesAreTold(bs), NEW b \in Body, NEW r,
         r = Append(Around!AbortLast(bs), b)
  PROVE  /\ r \in Seq(Body) /\ r # <<>> /\ Len(r) = Len(bs) + 1 /\ r[Len(r)] = b /\ OldBodiesAreTold(r)
<1> DEFINE told == Around!AbortLast(bs)
<1>1. told \in Seq(Body) /\ Len(told) = Len(bs) /\ Len(bs) \in Nat /\ \A i \in 1..Len(bs) : told[i].aborted
  BY AbortLastTellsAll
<1> HIDE DEF told
<1>2. r \in Seq(Body) /\ Len(r) = Len(bs) + 1 /\ r[Len(bs) + 1] = b /\ \A i \in 1..Len(bs) : r[i] = told[i]
  BY <1>1 DEF told
<1> QED
  BY <1>1, <1>2 DEF OldBodiesAreTold

\* One step per action of the helpers and of the client.
LEMMA AroundStep == AroundInv /\ Around!Next => AroundInv'
<1> SUFFICES ASSUME AroundInv, Around!Next PROVE AroundInv'
  OBVIOUS
<1> USE DEF AroundInv
<1>0. \A e : Around!AnyBody(e) = [epoch : {e}, running : BOOLEAN, aborted : {FALSE}, hasty : BOOLEAN]
  BY DEF Around!AnyBody
<1>1. CASE Around!OpenSucceeds \/ Around!Connects
  <2>1. /\ link' = [up |-> TRUE, emitted |-> FALSE, epoch |-> link.epoch + 1]
        /\ helper' = helper /\ events' = events /\ bodies' = bodies
    BY <1>1 DEF Around!OpenSucceeds, Around!Connects
  <2>2. link.epoch + 1 \in 1..MaxConnects
    BY <1>1, AroundAssumption DEF AroundShape, Around!OpenSucceeds, Around!Connects
  <2>3. link' \in [up : BOOLEAN, emitted : BOOLEAN, epoch : 0..MaxConnects] /\ ~link'.emitted /\ link'.epoch >= 1
    BY <2>1, <2>2, AroundAssumption
  <2> QED
    BY <2>1, <2>3 DEF AroundShape, HelperHasBounds, HelperHeardOfLink, OldBodiesAreTold
<1>2. CASE Around!OpenRetries \/ (\E permanent \in BOOLEAN : Around!OpenFails(permanent)) \/ Around!Cancel
  BY <1>2 DEF Around!OpenRetries, Around!OpenFails, Around!Cancel, AroundShape, HelperHasBounds,
              HelperHeardOfLink, OldBodiesAreTold
<1>3. CASE Around!Disconnects
  BY <1>3 DEF Around!Disconnects, AroundShape, HelperHasBounds, HelperHeardOfLink, OldBodiesAreTold
<1>4. CASE Around!EmitLifecycle
  <2> DEFINE e == [kind |-> IF link.up THEN "connect" ELSE "disconnect", epoch |-> link.epoch]
  <2>1. /\ link' = [link EXCEPT !.emitted = TRUE] /\ UNCHANGED <<helper, bodies>>
        /\ events' = IF helper = "listening" THEN Append(events, e) ELSE events
    BY <1>4 DEF Around!EmitLifecycle, Around!Emitted
  <2>2. e \in LifecycleEvent
    BY <1>4, AroundAssumption DEF AroundShape, LifecycleEvent, Around!EmitLifecycle
  <2>3. /\ Append(events, e) \in Seq(LifecycleEvent) /\ Append(events, e) # <<>>
        /\ Append(events, e)[Len(Append(events, e))] = e
    BY <2>2 DEF AroundShape
  <2>4. AroundShape' /\ OldBodiesAreTold(bodies)' /\ HelperHasBounds'
    BY <2>1, <2>3 DEF AroundShape, OldBodiesAreTold, HelperHasBounds
  <2>5. HelperHeardOfLink'
    BY <2>1, <2>3 DEF HelperHeardOfLink, AroundShape
  <2> QED
    BY <2>4, <2>5
<1>5. CASE Around!Start
  <2>1. helper = "idle" /\ helper' = "listening" /\ events' = events /\ events = <<>> /\ bodies = <<>>
    BY <1>5 DEF Around!Start, HelperHasBounds
  <2>2. CASE link.up
    <3>1. PICK b \in Around!AnyBody(link.epoch) :
            /\ bodies' = Append(Around!AbortLast(bodies), b) /\ (b.hasty => link.emitted)
            /\ link' = IF b.hasty THEN [link EXCEPT !.up = FALSE] ELSE link
      BY <1>5, <2>2 DEF Around!Start, Around!RunBody, Around!Hastens
    <3>2. b \in Body /\ b.epoch = link.epoch /\ ~b.aborted
      <4>1. link.epoch \in Nat
        BY AroundAssumption DEF AroundShape
      <4> QED
        BY <1>0, <3>1, <4>1 DEF Body
    <3>3. /\ bodies' \in Seq(Body) /\ bodies' # <<>> /\ Len(bodies') = 1
          /\ bodies'[Len(bodies')] = b /\ OldBodiesAreTold(bodies')
      <4>1. bodies \in Seq(Body) /\ OldBodiesAreTold(bodies) /\ bodies' = Append(Around!AbortLast(bodies), b)
        BY <3>1 DEF AroundShape
      <4>2. /\ bodies' \in Seq(Body) /\ bodies' # <<>> /\ Len(bodies') = Len(bodies) + 1
            /\ bodies'[Len(bodies')] = b /\ OldBodiesAreTold(bodies')
        <5>1. b \in Body
          BY <3>2
        <5>2. \A r : r = Append(Around!AbortLast(bodies), b) =>
                r \in Seq(Body) /\ r # <<>> /\ Len(r) = Len(bodies) + 1 /\ r[Len(r)] = b /\ OldBodiesAreTold(r)
          BY <4>1, <5>1, RunBodyTellsOthers
        <5> QED
          BY <4>1, <5>2
      <4>3. Len(bodies) = 0
        BY <2>1
      <4> QED
        BY <4>2, <4>3
    <3>4. AroundShape' /\ OldBodiesAreTold(bodies)' /\ HelperHasBounds'
      BY <2>1, <3>1, <3>3 DEF AroundShape, HelperHasBounds, OldBodiesAreTold
    <3>5. HelperHeardOfLink'
      BY <2>1, <2>2, <3>1, <3>2, <3>3 DEF HelperHeardOfLink, AroundShape
    <3> QED
      BY <3>4, <3>5
  <2>3. CASE ~link.up
    BY <1>5, <2>1, <2>3 DEF Around!Start, AroundShape, HelperHasBounds, HelperHeardOfLink, OldBodiesAreTold
  <2> QED
    BY <2>2, <2>3
<1>6. CASE Around!TakeEvent
  <2>1. /\ helper = "listening" /\ events # <<>> /\ helper' = helper
        /\ events \in Seq(LifecycleEvent) /\ Len(events) \in Nat /\ Len(events) >= 1
    BY <1>6 DEF Around!TakeEvent, AroundShape
  <2>2. /\ Tail(events) \in Seq(LifecycleEvent) /\ Head(events) = events[1] /\ Head(events) \in LifecycleEvent
        /\ Tail(events) # <<>> => Tail(events)[Len(Tail(events))] = events[Len(events)]
        /\ Tail(events) = <<>> => Len(events) = 1
    BY <2>1, TailKeepsLast
  <2>3. CASE Head(events).kind = "connect"
    <3>1. PICK b \in Around!AnyBody(Head(events).epoch) :
            /\ b.hasty => link.up /\ link.emitted
            /\ bodies' = Append(Around!AbortLast(bodies), b)
            /\ link' = IF b.hasty THEN [link EXCEPT !.up = FALSE] ELSE link
            /\ events' = IF b.hasty THEN Append(Tail(events), [kind |-> "disconnect", epoch |-> link.epoch])
                         ELSE Tail(events)
      BY <1>6, <2>3 DEF Around!TakeEvent, Around!RunBody, Around!Hastens
    <3>2. b \in Body /\ b.epoch = Head(events).epoch /\ ~b.aborted
      <4>1. Head(events).epoch \in Nat
        BY <2>2, AroundAssumption DEF LifecycleEvent
      <4> QED
        BY <1>0, <3>1, <4>1 DEF Body
    <3>3. /\ bodies' \in Seq(Body) /\ bodies' # <<>>
          /\ bodies'[Len(bodies')] = b /\ OldBodiesAreTold(bodies')
      BY <3>1, <3>2, RunBodyTellsOthers DEF AroundShape
    <3>4. CASE b.hasty
      <4> DEFINE e == [kind |-> "disconnect", epoch |-> link.epoch]
      <4>1. e \in LifecycleEvent
        BY <3>1, <3>4, AroundAssumption DEF AroundShape, LifecycleEvent
      <4>2. /\ events' \in Seq(LifecycleEvent) /\ events' # <<>> /\ events'[Len(events')] = e
        BY <2>2, <3>1, <3>4, <4>1
      <4>3. link' = [link EXCEPT !.up = FALSE]
        BY <3>1, <3>4
      <4>4. AroundShape' /\ OldBodiesAreTold(bodies)' /\ HelperHasBounds'
        BY <2>1, <3>3, <4>2, <4>3 DEF AroundShape, HelperHasBounds, OldBodiesAreTold
      <4>5. HelperHeardOfLink'
        BY <4>2, <4>3 DEF HelperHeardOfLink, AroundShape
      <4> QED
        BY <4>4, <4>5
    <3>5. CASE ~b.hasty
      <4>1. events' = Tail(events) /\ link' = link
        BY <3>1, <3>5
      <4>2. AroundShape' /\ OldBodiesAreTold(bodies)' /\ HelperHasBounds'
        BY <2>1, <2>2, <3>3, <4>1 DEF AroundShape, HelperHasBounds, OldBodiesAreTold
      <4>3. HelperHeardOfLink'
        <5>1. CASE Tail(events) = <<>>
          <6>1. link.emitted => link.up /\ b.epoch = link.epoch
            BY <2>1, <2>2, <2>3, <3>2, <5>1 DEF HelperHeardOfLink
          <6> QED
            BY <3>2, <3>3, <4>1, <5>1, <6>1 DEF HelperHeardOfLink
        <5>2. CASE Tail(events) # <<>>
          BY <2>1, <2>2, <4>1, <5>2 DEF HelperHeardOfLink
        <5> QED
          BY <5>1, <5>2
      <4> QED
        BY <4>2, <4>3
    <3> QED
      BY <3>4, <3>5
  <2>4. CASE Head(events).kind # "connect"
    <3>1. bodies' = Around!AbortLast(bodies) /\ events' = Tail(events) /\ link' = link
      BY <1>6, <2>4 DEF Around!TakeEvent
    <3>2. bodies' \in Seq(Body) /\ Len(bodies') = Len(bodies) /\ \A i \in 1..Len(bodies') : bodies'[i].aborted
      BY <3>1, AbortLastTellsAll DEF AroundShape
    <3>3. OldBodiesAreTold(bodies') /\ (bodies' # <<>> => bodies'[Len(bodies')].aborted)
      BY <3>2 DEF OldBodiesAreTold
    <3>4. AroundShape' /\ OldBodiesAreTold(bodies)' /\ HelperHasBounds'
      BY <2>1, <2>2, <3>1, <3>2, <3>3 DEF AroundShape, HelperHasBounds, OldBodiesAreTold
    <3>5. HelperHeardOfLink'
      <4>1. CASE Tail(events) = <<>>
        <5>1. link.emitted => ~link.up
          BY <2>1, <2>2, <2>4, <4>1 DEF HelperHeardOfLink
        <5> QED
          BY <3>1, <3>3, <4>1, <5>1 DEF HelperHeardOfLink
      <4>2. CASE Tail(events) # <<>>
        BY <2>1, <2>2, <3>1, <4>2 DEF HelperHeardOfLink
      <4> QED
        BY <4>1, <4>2
    <3> QED
      BY <3>4, <3>5
  <2> QED
    BY <2>3, <2>4
<1>7. CASE Around!StreamEnds
  <2>1. /\ helper' = "ending" /\ events' = <<>> /\ link' = link
        /\ bodies' = Around!AbortLast(bodies)
    BY <1>7 DEF Around!StreamEnds
  <2>2. bodies' \in Seq(Body) /\ Len(bodies') = Len(bodies) /\ \A i \in 1..Len(bodies') : bodies'[i].aborted
    BY <2>1, AbortLastTellsAll DEF AroundShape
  <2> QED
    BY <2>1, <2>2 DEF AroundShape, HelperHasBounds, HelperHeardOfLink, OldBodiesAreTold
<1>8. CASE Around!Return
  BY <1>8 DEF Around!Return, AroundShape, HelperHasBounds, HelperHeardOfLink, OldBodiesAreTold
<1>9. ASSUME NEW i \in 1..Len(bodies), Around!BodySettles(i) PROVE AroundInv'
  <2>1. /\ bodies' = [bodies EXCEPT ![i] = [bodies[i] EXCEPT !.running = FALSE]]
        /\ UNCHANGED <<link, helper, events>> /\ bodies[i] \in Body
    BY <1>9 DEF Around!BodySettles, AroundShape
  <2>2. [bodies[i] EXCEPT !.running = FALSE] \in Body
    BY <2>1 DEF Body
  <2>3. /\ bodies' \in Seq(Body) /\ Len(bodies') = Len(bodies)
        /\ \A j \in 1..Len(bodies) : bodies'[j].aborted = bodies[j].aborted
                                     /\ bodies'[j].hasty = bodies[j].hasty /\ bodies'[j].epoch = bodies[j].epoch
    BY <2>1, <2>2 DEF AroundShape, Body
  <2>4. (bodies' = <<>>) <=> (bodies = <<>>)
    BY <2>3 DEF AroundShape
  <2>5. bodies # <<>> => Len(bodies) \in 1..Len(bodies)
    BY DEF AroundShape
  <2> QED
    BY <2>1, <2>3, <2>4, <2>5 DEF AroundShape, HelperHasBounds, HelperHeardOfLink, OldBodiesAreTold
<1> QED
  BY <1>1, <1>2, <1>3, <1>4, <1>5, <1>6, <1>7, <1>8, <1>9 DEF Around!Next

\* openEspHomeClient(): the budget and the delays.
OpeningShape ==
  [stage : {"connecting", "unused", "open", "delay", "thrown"},
   failures : 0..MaxRetries + 1, disposed : BOOLEAN, wait : 0..12]

OpeningInv ==
  /\ opening \in OpeningShape
  /\ opening.stage = "thrown" => opening.disposed \/ cancelled
  /\ opening.stage # "thrown" => opening.failures <= MaxRetries

LEMMA DelaysAreBounded ==
  ASSUME NEW attempt, NEW d \in Around!NextBackoffDelay(attempt, 2, 10)
  PROVE  d \in 0..12
<1> DEFINE base == IF 2 ^ (attempt - 1) \in 1..10 THEN 2 ^ (attempt - 1) ELSE 10
<1>1. base \in 1..10
  OBVIOUS
<1>2. d \in (4 * base) \div 5 .. (6 * base) \div 5
  BY DEF Around!NextBackoffDelay
<1> HIDE DEF base
<1> QED
  BY <1>1, <1>2

LEMMA OpeningStep == OpeningInv /\ Around!Next => OpeningInv'
<1> SUFFICES ASSUME OpeningInv, Around!Next PROVE OpeningInv'
  OBVIOUS
<1>1. CASE Around!OpenSucceeds
  BY <1>1 DEF OpeningInv, OpeningShape, Around!OpenSucceeds
<1>2. CASE Around!OpenRetries
  <2>1. CASE cancelled
    <3>1. opening' = [opening EXCEPT !.stage = "thrown", !.wait = 0] /\ cancelled' = cancelled
      BY <1>2, <2>1 DEF Around!OpenRetries
    <3>2. /\ opening' \in OpeningShape
          /\ opening'.stage = "thrown"
      <4>1. opening \in OpeningShape /\ 0 \in 0..12
        BY DEF OpeningInv
      <4> QED
        BY <3>1, <4>1 DEF OpeningInv, OpeningShape, OpeningShape
    <3> QED
      BY <2>1, <3>1, <3>2 DEF OpeningInv, OpeningShape
  <2>2. CASE ~cancelled
    <3>1. /\ opening' = [opening EXCEPT !.stage = "connecting", !.wait = 0] /\ cancelled' = cancelled
          /\ opening.stage = "delay"
      BY <1>2, <2>2 DEF Around!OpenRetries
    <3>2. /\ opening' \in OpeningShape
          /\ opening'.stage = "connecting" /\ opening'.failures <= MaxRetries
      <4>1. opening \in OpeningShape /\ 0 \in 0..12
        BY DEF OpeningInv
      <4> QED
        BY <3>1, <4>1 DEF OpeningInv, OpeningShape, OpeningShape
    <3> QED
      BY <3>2 DEF OpeningInv
  <2> QED
    BY <2>1, <2>2
<1>3. ASSUME NEW permanent \in BOOLEAN, Around!OpenFails(permanent) PROVE OpeningInv'
  <2> DEFINE failures == IF permanent THEN opening.failures ELSE opening.failures + 1
  <2>1. failures \in 0..MaxRetries + 1 /\ opening.failures <= MaxRetries /\ cancelled' = cancelled
    <3>1. opening.stage = "connecting" /\ cancelled' = cancelled
      BY <1>3 DEF Around!OpenFails
    <3>2. opening.failures \in 0..MaxRetries + 1 /\ opening.failures <= MaxRetries
      <4>1. opening \in OpeningShape /\ 0 \in 0..12
        BY DEF OpeningInv
      <4> QED
        BY <3>1, <4>1 DEF OpeningInv, OpeningShape, OpeningShape
    <3> QED
      BY <1>3, <3>1, <3>2, AroundAssumption
  <2>2. CASE permanent \/ failures > MaxRetries
    <3>1. opening' = [opening EXCEPT !.stage = "thrown", !.failures = failures, !.disposed = TRUE]
      BY <1>3, <2>2 DEF Around!OpenFails
    <3> HIDE DEF failures
    <3> QED
      BY <2>1, <3>1 DEF OpeningInv, OpeningShape
  <2>3. CASE ~(permanent \/ failures > MaxRetries)
    <3>1. PICK d \in Around!NextBackoffDelay(failures, 2, 10) :
            opening' = [opening EXCEPT !.stage = "delay", !.failures = failures, !.wait = d]
      BY <1>3, <2>3 DEF Around!OpenFails
    <3>2. d \in 0..12 /\ failures <= MaxRetries
      BY <2>1, <2>3, <3>1, DelaysAreBounded, AroundAssumption
    <3> HIDE DEF failures
    <3> QED
      BY <2>1, <3>1, <3>2 DEF OpeningInv, OpeningShape
  <2> QED
    BY <2>2, <2>3
<1>4. CASE Around!Cancel
  BY <1>4 DEF OpeningInv, OpeningShape, Around!Cancel
<1>5. CASE UNCHANGED <<opening, cancelled>>
  BY <1>5 DEF OpeningInv
<1> QED
  BY <1>1, <1>2, <1>3, <1>4, <1>5 DEF Around!Next, Around!Connects, Around!Disconnects, Around!EmitLifecycle,
     Around!Start, Around!TakeEvent, Around!StreamEnds, Around!Return, Around!BodySettles

\* Both halves of a run; the session's own invariant is there for what the run says of its types.
MCInv == IInv /\ AroundInv /\ OpeningInv

LEMMA MCInitInv == MCInit => MCInv
<1> SUFFICES ASSUME MCInit PROVE MCInv
  OBVIOUS
<1>1. AroundInv
  <2>1. /\ link = [up |-> FALSE, emitted |-> TRUE, epoch |-> 0]
        /\ helper = "idle" /\ events = <<>> /\ bodies = <<>>
    BY DEF MCInit, Around!Init
  <2>2. AroundShape
    BY <2>1, AroundAssumption DEF AroundShape
  <2>3. OldBodiesAreTold(bodies)
    BY <2>1 DEF OldBodiesAreTold
  <2>4. HelperHasBounds /\ HelperHeardOfLink
    BY <2>1 DEF HelperHasBounds, HelperHeardOfLink
  <2> QED
    BY <2>2, <2>3, <2>4 DEF AroundInv
<1>2. OpeningInv
  <2>1. /\ opening.stage \in {"connecting", "unused"} /\ opening.failures = 0 /\ 0 \in 0..MaxRetries + 1
        /\ 0 \in 0..12 /\ 0 <= MaxRetries
    BY AroundAssumption DEF MCInit, Around!Init
  <2>2. opening \in OpeningShape
    BY <2>1 DEF MCInit, Around!Init, OpeningShape
  <2> QED
    BY <2>1, <2>2 DEF OpeningInv
<1> QED
  BY <1>1, <1>2, InitIInv DEF MCInit, MCInv

LEMMA MCStepInv == MCInv /\ [MCNext]_mcVars => MCInv'
<1> SUFFICES ASSUME MCInv, [MCNext]_mcVars PROVE MCInv'
  OBVIOUS
<1>1. IInv'
  <2>1. [Next]_vars
    BY DEF MCNext, mcVars
  <2> QED
    BY <2>1, NextIInv DEF MCInv
<1>2. AroundInv' /\ OpeningInv'
  <2>1. CASE Around!Next
    BY <2>1, AroundStep, OpeningStep DEF MCInv
  <2>2. CASE UNCHANGED aroundVars
    BY <2>2 DEF MCInv, aroundVars, AroundInv, AroundShape, OldBodiesAreTold, HelperHasBounds, HelperHeardOfLink, OpeningInv
  <2> QED
    BY <2>1, <2>2 DEF MCNext, mcVars
<1> QED
  BY <1>1, <1>2 DEF MCInv

\* Types: of the session, of the helpers, and of the delays of openEspHomeClient() the range.
THEOREM TypesAreCorrect == MCSpec => []MCTypeOK
<1>1. MCInv => MCTypeOK
  <2> SUFFICES ASSUME MCInv PROVE MCTypeOK
    OBVIOUS
  <2>1. TypeOK
    BY DEF MCInv, IInv
  <2>2. events \in Seq([kind : {"connect", "disconnect"}, epoch : 1..MaxConnects])
    BY DEF MCInv, AroundInv, AroundShape, LifecycleEvent
  <2>3. ASSUME NEW i \in 1..Len(bodies)
        PROVE  bodies[i] \in Around!AnyBody(bodies[i].epoch)
                 \cup {Around!Aborted(b) : b \in Around!AnyBody(bodies[i].epoch)}
    <3>1. bodies[i] \in Body
      BY DEF MCInv, AroundInv, AroundShape
    <3>2. CASE ~bodies[i].aborted
      BY <3>1, <3>2 DEF Body, Around!AnyBody
    <3>3. CASE bodies[i].aborted
      <4> DEFINE b == [bodies[i] EXCEPT !.aborted = FALSE]
      <4>1. b \in Around!AnyBody(bodies[i].epoch) /\ bodies[i] = Around!Aborted(b)
        BY <3>1, <3>3 DEF Body, Around!AnyBody, Around!Aborted
      <4> QED
        BY <4>1
    <3> QED
      BY <3>1, <3>2, <3>3 DEF Body
  <2> QED
    BY <2>1, <2>2, <2>3 DEF MCInv, MCTypeOK, Around!TypeOK, AroundInv, AroundShape, OpeningInv, OpeningShape
<1> QED
  BY <1>1, MCInitInv, MCStepInv, PTL DEF MCSpec

\* Which connection's body runs: the one that is up is served, no other is, and a helper that
\* is done told all of its bodies to stop (Missed says the one it cannot tell).
THEOREM BodiesAreTold == MCSpec => []BodiesFollowConnections
<1>1. MCInv => BodiesFollowConnections
  <2>1. Len(bodies) = 0 <=> bodies = <<>>
    OBVIOUS
  <2> QED
    BY DEF BodiesFollowConnections, Around!BodiesFollowConnections, Around!Missed, Around!Last,
           MCInv, AroundInv, AroundShape, OldBodiesAreTold, HelperHasBounds, HelperHeardOfLink
<1> QED
  BY <1>1, MCInitInv, MCStepInv, PTL DEF MCSpec
=============================================================================
