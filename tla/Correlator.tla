----------------------------- MODULE Correlator -----------------------------
(***************************************************************************)
(* Correlator: promises for the device's answers, at most one pending per  *)
(* key, settled by an answer, by the caller's timeout or signal, or by the *)
(* end of the connection.                                                  *)
(*                                                                         *)
(* The protocol's answers carry the key and no request number: an answer   *)
(* is known by its key alone.  The device answers in order, or not at all. *)
(***************************************************************************)
EXTENDS Naturals, Sequences, FiniteSets, PendingCalls

VARIABLES
  bounded,     \* calls with a timeout or a signal
  listening,   \* calls whose abort listener is attached
  inFlight,    \* requests the device has yet to answer, in order
  answeredBy   \* history: the request whose answer resolved the call

vars == <<entries, call, key, bounded, listening, inFlight, answeredBy>>

\* Types, and no abort listener outlives its call (a long-lived signal would keep it alive).
TypeOK ==
  /\ entries \in [Keys -> Calls \cup {None}]
  /\ call \in [Calls -> {"new", "pending", "resolved", "rejected"}]
  /\ key \in [Calls -> Keys]
  /\ bounded \subseteq Calls
  /\ listening \subseteq {c \in bounded : call[c] = "pending"}
  /\ inFlight \in Seq(Calls)
  /\ answeredBy \in [Calls -> Calls \cup {None}]

Init ==
  /\ entries = [k \in Keys |-> None]
  /\ call = [c \in Calls |-> "new"]
  /\ key \in [Calls -> Keys]
  /\ bounded \in SUBSET Calls
  /\ listening = {}
  /\ inFlight = <<>>
  /\ answeredBy = [c \in Calls |-> None]

-----------------------------------------------------------------------------
\* Mutant: a second call for the key takes the entry over.
AwaitOverwrites(c) ==
  /\ call[c] = "new"
  /\ call' = [call EXCEPT ![c] = "pending"]
  /\ entries' = [entries EXCEPT ![key[c]] = c]
  /\ listening' = IF c \in bounded THEN listening \cup {c} ELSE listening
  /\ inFlight' = Append(inFlight, c)
  /\ UNCHANGED <<key, bounded, answeredBy>>

\* await(): the host sends the request in the same step.
Await(c) ==
  /\ call[c] = "new"
  /\ entries[key[c]] = None
  /\ call' = [call EXCEPT ![c] = "pending"]
  /\ entries' = [entries EXCEPT ![key[c]] = c]
  /\ listening' = IF c \in bounded THEN listening \cup {c} ELSE listening
  /\ inFlight' = Append(inFlight, c)
  /\ UNCHANGED <<key, bounded, answeredBy>>

\* CORRELATOR_KEY_IN_FLIGHT, or a signal that has already aborted: await() throws.
AwaitThrows(c) ==
  /\ call[c] = "new"
  /\ entries[key[c]] # None \/ c \in bounded
  /\ call' = [call EXCEPT ![c] = "rejected"]
  /\ UNCHANGED <<entries, key, bounded, listening, inFlight, answeredBy>>

\* The entry's wrappers: the entry and its abort listener go, the promise is settled.
Settle(c, how) ==
  /\ entries' = [entries EXCEPT ![key[c]] = None]
  /\ listening' = listening \ {c}
  /\ call' = [call EXCEPT ![c] = how]

\* resolve() or, for an error, reject(), called with the answer of the oldest request.
Answer ==
  /\ inFlight # <<>>
  /\ inFlight' = Tail(inFlight)
  /\ LET request == Head(inFlight)
         c == entries[key[request]]
     IN  IF c = None
         THEN UNCHANGED <<entries, call, listening, answeredBy>>
         ELSE /\ \E how \in {"resolved", "rejected"} : Settle(c, how)
              /\ answeredBy' = [answeredBy EXCEPT ![c] = request]
  /\ UNCHANGED <<key, bounded>>

\* The device leaves a request unanswered.
Silence ==
  /\ inFlight # <<>>
  /\ inFlight' = Tail(inFlight)
  /\ UNCHANGED <<entries, call, key, bounded, listening, answeredBy>>

\* Mutant: the test of the entry is inverted, and the call's own timeout returns early.
AbortInverted(c) ==
  /\ c \in listening
  /\ entries[key[c]] = c
  /\ listening' = listening \ {c}
  /\ UNCHANGED <<entries, call, key, bounded, inFlight, answeredBy>>

\* The timeout or the caller's signal: onAbort() looks whether the entry is still its own.
Abort(c) ==
  /\ c \in listening
  /\ IF entries[key[c]] = c
     THEN Settle(c, "rejected")
     ELSE listening' = listening \ {c} /\ UNCHANGED <<entries, call>>
  /\ UNCHANGED <<key, bounded, inFlight, answeredBy>>

\* rejectAll(), at the end of the connection: the answers of the old one never come.
RejectAll ==
  /\ entries' = [k \in Keys |-> None]
  /\ call' = [c \in Calls |-> IF entries[key[c]] = c THEN "rejected" ELSE call[c]]
  /\ listening' = {c \in listening : entries[key[c]] # c}
  /\ inFlight' = <<>>
  /\ UNCHANGED <<key, bounded, answeredBy>>

Next ==
  \/ \E c \in Calls : Await(c) \/ AwaitThrows(c) \/ Abort(c)
  \/ Answer \/ Silence \/ RejectAll

\* A timer that was armed fires, unless its listener is gone before.
Fairness == \A c \in Calls : WF_vars(Abort(c))

Spec == Init /\ [][Next]_vars /\ Fairness
-----------------------------------------------------------------------------
\* An answer settles a call of its own key; and it settles another call than the one that
\* asked only if a call for that key was given up before.
AnswersBelongToTheirKey ==
  \A c \in Calls :
    LET request == answeredBy[c]
    IN  request \notin {None, c} =>
          /\ key[request] = key[c]
          /\ \E d \in bounded : key[d] = key[c] /\ call[d] = "rejected" /\ answeredBy[d] = None

\* A call with a timeout does not hang, whatever the device does.
NoBoundedCallHangs == \A c \in Calls : c \in listening ~> call[c] # "pending"

(* A statement of the comments that the code does not keep; see README. *)

\* "Stray responses are observable": an answer that comes after its call gave up settles
\* nothing.
LateAnswerIsStray == \A c \in Calls : answeredBy[c] \in {None, c}
=============================================================================
