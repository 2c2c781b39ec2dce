----------------------------- MODULE MCSession -----------------------------
(***************************************************************************)
(* Model checking of SessionSerial, and of Reconnect, what an application  *)
(* puts around a session.  The initial state says which one runs; the      *)
(* state spaces do not mix.                                                *)
(***************************************************************************)
EXTENDS SessionSerial, TLC

CONSTANTS MaxRetries, MaxConnects

VARIABLES part, opening, link, helper, events, bodies, cancelled

Around == INSTANCE Reconnect

ASSUME AroundAssumption == MaxRetries \in Nat /\ MaxConnects \in Nat

aroundVars == <<opening, link, helper, events, bodies, cancelled>>
mcVars == <<part, vars, aroundVars>>

MCInit == part \in {"session", "around"} /\ Init /\ Around!Init

MCNext ==
  \/ part = "session" /\ Next /\ UNCHANGED <<part, aroundVars>>
  \/ part = "around" /\ Around!Next /\ UNCHANGED <<part, vars>>
  \/ part = "around" /\ opening.stage = "thrown" /\ UNCHANGED mcVars
  \/ part = "around" /\ helper = "returned" /\ UNCHANGED mcVars

MCSpec == MCInit /\ [][MCNext]_mcVars

MCFairSpec == MCSpec /\ Fairness /\ Around!Fairness

Symmetry == Permutations(Loops) \cup Permutations(Conns)
-----------------------------------------------------------------------------
\* The types of the two modules; of the delays of openEspHomeClient(), the range.
MCTypeOK == TypeOK /\ Around!TypeOK

\* Reconnect!BodiesFollowConnections: the one body of withReconnect() that is not told to stop is
\* that of the connection that is up, and none is left when the helper returns.
BodiesFollowConnections == Around!BodiesFollowConnections

\* The comment at the end of withReconnect(); the code keeps it for the last body only.
ReturnsAfterBodies == Around!ReturnsAfterBodies

\* Every reconnect loop ends, connect() and disconnectAsync() settle (Session), and so do
\* openEspHomeClient(), withReconnect() once cancelled and a body whose connection ended.
EveryCallConcludes ==
  /\ LoopTerminates /\ CallsReturn
  /\ part = "around" => Around!HelpersConclude
=============================================================================
