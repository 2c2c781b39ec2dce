---------------------------- MODULE PendingCalls ----------------------------
(***************************************************************************)
(* What a Correlator keeps, and the promise that all who wait in one rely  *)
(* on: somebody can still settle every call that is pending.               *)
(***************************************************************************)
EXTENDS CorrelatedCalls

CONSTANT Keys  \* serialised keys

VARIABLES
  entries,     \* this.entries: the pending call of each key, or None
  call,        \* each call's promise
  key          \* each call's key

\* The map and the promises tell the same story: every pending call is the entry of its key,
\* so an answer, a rejectAll() or its own timeout can still settle it.
EntriesAreThePendingCalls ==
  /\ \A k \in Keys : entries[k] # None => call[entries[k]] = "pending" /\ key[entries[k]] = k
  /\ \A c \in Calls : call[c] = "pending" => entries[key[c]] = c
=============================================================================
