-------------------------- MODULE LogSubscriptions --------------------------
(***************************************************************************)
(* LogSubscriptionManager: one ledger, one wire key.  Every client.logs()  *)
(* iterator is a subscriber at its level, and subscribeToLogs() keeps one  *)
(* more, the pin.  The device is told the loudest level.                   *)
(*                                                                         *)
(* logs() is an async generator whose subscriber is acquired by the call   *)
(* and released by the generator's `finally`.                              *)
(***************************************************************************)
EXTENDS Naturals, Sequences, FiniteSets, FiniteSetsExt

CONSTANTS
  Iterators,  \* calls of logs()
  Levels,     \* log levels: a greater one is more verbose
  Pin,        \* the handle of the pin
  Keys,       \* keys of a ledger
  Channel,    \* LOG_CHANNEL, the one key this ledger has subscribers on
  Empty       \* EMPTY

VARIABLES
  subscribers, transport, wire,  \* the ledger
  stage,                         \* of each iterator
  level,                         \* the level each one was opened at
  pinned                         \* the pin's level, or Empty

vars == <<subscribers, transport, wire, stage, level, pinned>>

\* Math.max over the live levels.
Loudest(S) == IF S = {} THEN Empty ELSE Max(S)

L == INSTANCE Ledger WITH
       Handles <- Iterators \cup {Pin}, Keys <- Keys, Intents <- Levels,
       Reduce <- Loudest, options <- [retainOnEmpty |-> TRUE, onChange |-> TRUE]

TypeOK ==
  /\ L!TypeOK
  /\ stage \in [Iterators -> {"new", "called", "reading", "finished", "discarded"}]
  /\ level \in [Iterators -> Levels \cup {Empty}]
  /\ pinned \in Levels \cup {Empty}

Init ==
  /\ L!Init
  /\ stage = [i \in Iterators |-> "new"]
  /\ level = [i \in Iterators |-> Empty]
  /\ pinned = Empty

Entry(h, l) == [handle |-> h, key |-> Channel, intent |-> l]

-----------------------------------------------------------------------------
\* logs(level): the subscriber is acquired before the first next().
Subscribe(i, l) ==
  /\ stage[i] = "new"
  /\ L!Acquire(i, Channel, l)
  /\ stage' = [stage EXCEPT ![i] = "called"]
  /\ level' = [level EXCEPT ![i] = l]
  /\ UNCHANGED pinned

\* The first next() enters the generator's body.
StartReading(i) ==
  /\ stage[i] = "called"
  /\ stage' = [stage EXCEPT ![i] = "reading"]
  /\ UNCHANGED <<subscribers, transport, wire, level, pinned>>

\* The loop is left, by break, error, abort or the end of the stream: `finally` runs.
StopReading(i) ==
  /\ stage[i] = "reading"
  /\ L!Release(Entry(i, level[i]))
  /\ stage' = [stage EXCEPT ![i] = "finished"]
  /\ UNCHANGED <<level, pinned>>

\* The consumer gives up an iterator it never read: return() on a generator that has not
\* started, or an aborted signal and no next().  The body, and its `finally`, never run.
Discard(i) ==
  /\ stage[i] = "called"
  /\ stage' = [stage EXCEPT ![i] = "discarded"]
  /\ UNCHANGED <<subscribers, transport, wire, level, pinned>>

\* Mutant: the dump goes out at the requested level.
RequestAndDumpAtLevel(l, dump) ==
  LET rest == {s \in subscribers : s.handle # Pin}
      released == IF pinned = Empty THEN L!Quiet ELSE L!Recompute(L!Quiet, Channel, rest)
      acquired == L!Recompute(released, Channel, subscribers')
  IN  /\ subscribers' = rest \cup {Entry(Pin, l)}
      /\ wire' = IF dump THEN L!Send(acquired, Channel, l) ELSE acquired
      /\ pinned' = l
      /\ UNCHANGED <<transport, stage, level>>

\* subscribeToLogs(level, dumpConfig): the old pin is released, the new one acquired, and
\* the dump asked for at the level the cache holds.
RequestDeviceLevel(l, dump) ==
  LET rest == {s \in subscribers : s.handle # Pin}
      released == IF pinned = Empty THEN L!Quiet ELSE L!Recompute(L!Quiet, Channel, rest)
      acquired == L!Recompute(released, Channel, subscribers')
  IN  /\ subscribers' = rest \cup {Entry(Pin, l)}
      /\ wire' = IF dump THEN L!Send(acquired, Channel, acquired.cache[Channel]) ELSE acquired
      /\ pinned' = l
      /\ UNCHANGED <<transport, stage, level>>

\* The session's part, see Ledger.
Connection ==
  /\ L!SocketDies \/ L!ClearConnectionState \/ L!ReissueOnReconnect
  /\ UNCHANGED <<stage, level, pinned>>

Next ==
  \/ \E i \in Iterators :
       \/ \E l \in Levels : Subscribe(i, l)
       \/ StartReading(i) \/ StopReading(i) \/ Discard(i)
  \/ \E l \in Levels, dump \in BOOLEAN : RequestDeviceLevel(l, dump)
  \/ Connection

Spec == Init /\ [][Next]_vars
-----------------------------------------------------------------------------
Waiting == {i \in Iterators : stage[i] \in {"called", "reading"}}

\* While connected the device logs at least as verbosely as every open iterator and the pin
\* ask for, whoever else came and went and whatever was dumped.
EveryReaderIsServed ==
  transport = "up" =>
    \A l \in {level[i] : i \in Waiting} \cup ({pinned} \ {Empty}) :
      wire.told[Channel] # Empty /\ wire.told[Channel] >= l

(* Statements of the comments that the code does not keep; see README. *)

\* "the pin is a floor, never a transient downgrade": moving the pin never sends a level
\* below the one it ends at.
NeverTransientDowngrade ==
  [][\A n \in DOMAIN wire'.frames[Channel] : wire'.frames[Channel][n] >= wire'.told[Channel]]_vars

\* An iterator that was opened and given up holds no subscriber.
GoneIteratorsHoldNothing ==
  \A s \in subscribers : s.handle = Pin \/ s.handle \in Waiting

\* activeLevel is null "before the first wire send and after clearConnectionState".
ActiveLevelWasSent == wire.cache[Channel] # Empty => transport # "none"
=============================================================================
