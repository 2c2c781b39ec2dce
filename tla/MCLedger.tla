------------------------------ MODULE MCLedger ------------------------------
(***************************************************************************)
(* Model checking of Ledger and of LogSubscriptions, the ledger in the     *)
(* hands of any client or of the log manager, and of Heartbeat.  The       *)
(* initial state says which one runs; the state spaces do not mix.         *)
(***************************************************************************)
EXTENDS Ledger, HeartbeatTimes, TLC, FiniteSetsExt

CONSTANTS Pin, Channel

VARIABLES
  owner,
  stage, level, pinned,
  marker, health, pings, rtt

\* Math.max over the levels; with a single intent, presence.
MaxIntent(S) == IF S = {} THEN Empty ELSE Max(S)

Logs == INSTANCE LogSubscriptions WITH Iterators <- Handles \ {Pin}, Levels <- Intents

Beat == INSTANCE Heartbeat WITH wire <- pings

\* The levels of LogLevel, of api-constants.ts.
ASSUME LevelsAssumption == Pin \in Handles /\ Channel \in Keys /\ Intents \subseteq 0..6

logVars == <<stage, level, pinned>>
beatVars == <<answers, timer, idle, marker, link, health, pings, verdict, rtt>>
mcVars == <<owner, vars, logVars, beatVars>>

MCInit ==
  /\ Beat!Init
  /\ \/ owner \in {"any", "heartbeat"} /\ Init /\ stage = <<>> /\ level = <<>> /\ pinned = Empty
     \/ owner = "logs" /\ Logs!Init
  /\ owner # "any" => options = [retainOnEmpty |-> TRUE, onChange |-> TRUE]

MCNext ==
  \/ owner = "any" /\ Next /\ UNCHANGED <<owner, logVars, beatVars>>
  \/ owner = "logs" /\ Logs!Next /\ UNCHANGED <<owner, options, beatVars>>
  \/ owner = "heartbeat" /\ Beat!Next /\ UNCHANGED <<owner, vars, logVars>>

MCSpec == MCInit /\ [][MCNext]_mcVars

Symmetry == Permutations(Handles \ {Pin})
-----------------------------------------------------------------------------
\* The types of the three modules.
MCTypeOK == TypeOK /\ Beat!TypeOK /\ (owner = "logs" => Logs!TypeOK)

\* Ledger!FramesCarryNews of the ledger itself: the log manager's dump repeats a level.
FramesAreNews == [][owner = "any" => FramesCarryNews]_mcVars

\* LogSubscriptions!EveryReaderIsServed: the device logs at least as verbosely as every open
\* iterator and the pin ask for.
EveryReaderIsServed == owner = "logs" => Logs!EveryReaderIsServed

\* LogSubscriptions!GoneIteratorsHoldNothing: an iterator that was opened and given up holds
\* no subscriber.
GoneIteratorsHoldNothing == owner = "logs" => Logs!GoneIteratorsHoldNothing
=============================================================================
