--------------------------- MODULE EventBusProofs ---------------------------
(***************************************************************************)
(* Proofs about the ways to wait for the device that MCEventBus checks,    *)
(* for any listeners, marks, sizes, calls and bounds: Correlator, the bus, *)
(* Commands, and Camera.  Of each component: the inductive invariant, and  *)
(* one step per action.                                                    *)
(***************************************************************************)
EXTENDS MCEventBus, SequenceTheorems, TLAPS

-----------------------------------------------------------------------------
(* Correlator: its map holds exactly the pending calls, and an answer goes *)
(* to a call of its own key.                                               *)

\* A call for the key was given up: the answer of its request may still come.
GivenUp(k) == \E d \in bounded : key[d] = k /\ call[d] = "rejected" /\ answeredBy[d] = None

\* The requests the device has yet to answer: one per call, and those whose call no longer
\* waits were given up, or overtaken by the answer of one that was.
RequestsAreAccountedFor ==
  /\ \A i, j \in 1..Len(inFlight) : inFlight[i] = inFlight[j] => i = j
  /\ \A i \in 1..Len(inFlight) :
       /\ call[inFlight[i]] # "new"
       /\ call[inFlight[i]] # "pending" => GivenUp(key[inFlight[i]])
  /\ \A c \in Calls : call[c] \in {"new", "pending"} => answeredBy[c] = None

CorrelationInv ==
  /\ Correlation!TypeOK /\ EntriesAreThePendingCalls
  /\ RequestsAreAccountedFor /\ Correlation!AnswersBelongToTheirKey

LEMMA CorrelationBegins == Correlation!Init => CorrelationInv
  BY CallsAssumption DEF Correlation!Init, CorrelationInv, Correlation!TypeOK, EntriesAreThePendingCalls,
                         RequestsAreAccountedFor, Correlation!AnswersBelongToTheirKey

\* The entry of a key is its one pending call, so onAbort()'s own test never fails.
LEMMA SettleKeepsMap ==
  ASSUME Correlation!TypeOK, EntriesAreThePendingCalls, NEW c \in Calls, call[c] = "pending",
         NEW how \in {"resolved", "rejected"}, Correlation!Settle(c, how),
         UNCHANGED <<key, bounded>>, inFlight' \in Seq(Calls),
         answeredBy' \in [Calls -> Calls \cup {None}]
  PROVE  Correlation!TypeOK' /\ EntriesAreThePendingCalls'
<1>1. Correlation!TypeOK'
  BY CallsAssumption DEF Correlation!TypeOK, Correlation!Settle
<1>2. EntriesAreThePendingCalls'
  <2>1. entries[key[c]] = c
    BY DEF EntriesAreThePendingCalls
  <2> QED
    BY <2>1, CallsAssumption DEF Correlation!TypeOK, EntriesAreThePendingCalls, Correlation!Settle
<1> QED
  BY <1>1, <1>2

\* The device leaves the oldest request: what is accounted for stays so.
LEMMA TailOfRequests ==
  ASSUME Correlation!TypeOK, RequestsAreAccountedFor, inFlight # <<>>
  PROVE  /\ Tail(inFlight) \in Seq(Calls) /\ Head(inFlight) \in Calls /\ Head(inFlight) = inFlight[1]
         /\ Len(inFlight) \in Nat /\ 1 \in 1..Len(inFlight) /\ Len(Tail(inFlight)) = Len(inFlight) - 1
         /\ \A i \in 1..Len(Tail(inFlight)) :
              i + 1 \in 1..Len(inFlight) /\ Tail(inFlight)[i] = inFlight[i + 1] /\ Tail(inFlight)[i] # Head(inFlight)
         /\ \A i, j \in 1..Len(Tail(inFlight)) : Tail(inFlight)[i] = Tail(inFlight)[j] => i = j
<1>1. inFlight \in Seq(Calls) /\ Len(inFlight) \in Nat /\ Len(inFlight) >= 1 /\ Head(inFlight) = inFlight[1]
  BY DEF Correlation!TypeOK
<1>2. /\ Tail(inFlight) \in Seq(Calls) /\ Head(inFlight) \in Calls
      /\ Len(Tail(inFlight)) = Len(inFlight) - 1
      /\ \A i \in 1..Len(Tail(inFlight)) : Tail(inFlight)[i] = inFlight[i + 1]
  BY <1>1, HeadTailProperties
<1> HIDE DEF RequestsAreAccountedFor
<1>3. \A i, j \in 1..Len(inFlight) : inFlight[i] = inFlight[j] => i = j
  BY DEF RequestsAreAccountedFor
<1>4. \A i \in 1..Len(Tail(inFlight)) : i \in Nat /\ i # 0 /\ i + 1 \in 1..Len(inFlight)
  BY <1>1, <1>2
<1>5. \A i \in 1..Len(Tail(inFlight)) : i + 1 # 1 /\ Tail(inFlight)[i] # Head(inFlight)
  BY <1>1, <1>2, <1>3, <1>4
<1>6. ASSUME NEW i \in 1..Len(Tail(inFlight)), NEW j \in 1..Len(Tail(inFlight)), Tail(inFlight)[i] = Tail(inFlight)[j]
      PROVE  i = j
  <2>1. i + 1 = j + 1
    BY <1>2, <1>3, <1>4, <1>6
  <2> QED
    BY <1>4, <2>1
<1>7. 1 \in 1..Len(inFlight)
  BY <1>1
<1>8. \A i \in 1..Len(Tail(inFlight)) :
        i + 1 \in 1..Len(inFlight) /\ Tail(inFlight)[i] = inFlight[i + 1] /\ Tail(inFlight)[i] # Head(inFlight)
  BY <1>2, <1>4, <1>5
<1>9. \A i, j \in 1..Len(Tail(inFlight)) : Tail(inFlight)[i] = Tail(inFlight)[j] => i = j
  BY <1>6
<1> QED
  BY ONLY <1>1, <1>2, <1>7, <1>8, <1>9

LEMMA CorrelationStep == CorrelationInv /\ [Correlation!Next]_(Correlation!vars) => CorrelationInv'
<1> SUFFICES ASSUME CorrelationInv, [Correlation!Next]_(Correlation!vars) PROVE CorrelationInv'
  OBVIOUS
<1>0. Correlation!TypeOK /\ EntriesAreThePendingCalls /\ RequestsAreAccountedFor
      /\ Correlation!AnswersBelongToTheirKey /\ inFlight \in Seq(Calls) /\ Len(inFlight) \in Nat
  BY DEF CorrelationInv, Correlation!TypeOK
<1>1. ASSUME NEW c \in Calls, Correlation!Await(c) PROVE CorrelationInv'
  <2>1. /\ call[c] = "new" /\ entries[key[c]] = None /\ call' = [call EXCEPT ![c] = "pending"]
        /\ inFlight' = Append(inFlight, c) /\ UNCHANGED <<key, bounded, answeredBy>>
    BY <1>1 DEF Correlation!Await
  <2>2. /\ inFlight' \in Seq(Calls) /\ Len(inFlight') = Len(inFlight) + 1 /\ inFlight'[Len(inFlight) + 1] = c
        /\ \A i \in 1..Len(inFlight) : inFlight'[i] = inFlight[i]
    BY <1>0, <2>1
  <2>3. Correlation!TypeOK' /\ EntriesAreThePendingCalls'
    BY <1>0, <1>1, <2>2, CallsAssumption DEF Correlation!TypeOK, EntriesAreThePendingCalls, Correlation!Await
  <2>4. \A k : GivenUp(k) => \E d \in bounded' : key'[d] = k /\ call'[d] = "rejected" /\ answeredBy'[d] = None
    BY <1>0, <2>1 DEF GivenUp, Correlation!TypeOK
  <2>5. \A i \in 1..Len(inFlight) : inFlight[i] # c /\ inFlight[i] \in Calls
    BY <1>0, <2>1 DEF RequestsAreAccountedFor
  <2>6. \A i \in 1..Len(inFlight') : i \in 1..Len(inFlight) \/ i = Len(inFlight) + 1
    BY <1>0, <2>2
  <2>7. RequestsAreAccountedFor'
    <3>1. \A i, j \in 1..Len(inFlight') : inFlight'[i] = inFlight'[j] => i = j
      BY <1>0, <2>2, <2>5, <2>6 DEF RequestsAreAccountedFor
    <3>2. \A d \in Calls : call'[d] = IF d = c THEN "pending" ELSE call[d]
      BY <1>0, <2>1 DEF Correlation!TypeOK
    <3>3. \A i \in 1..Len(inFlight') : /\ call'[inFlight'[i]] # "new"
                                       /\ call'[inFlight'[i]] # "pending" => GivenUp(key[inFlight'[i]])
      BY <1>0, <2>2, <2>5, <2>6, <3>2 DEF RequestsAreAccountedFor
    <3>5. \A i \in 1..Len(inFlight') :
            call'[inFlight'[i]] # "pending" =>
              \E d \in bounded' : key'[d] = key'[inFlight'[i]] /\ call'[d] = "rejected" /\ answeredBy'[d] = None
      BY <2>1, <2>4, <3>3
    <3>4. \A d \in Calls : call'[d] \in {"new", "pending"} => answeredBy'[d] = None
      BY <1>0, <2>1, <3>2 DEF RequestsAreAccountedFor
    <3> QED
      BY <3>1, <3>3, <3>4, <3>5 DEF RequestsAreAccountedFor, GivenUp
  <2>8. Correlation!AnswersBelongToTheirKey'
    BY <1>0, <2>1 DEF Correlation!AnswersBelongToTheirKey, Correlation!TypeOK
  <2> QED
    BY <2>3, <2>7, <2>8 DEF CorrelationInv
<1>2. ASSUME NEW c \in Calls, Correlation!AwaitThrows(c) PROVE CorrelationInv'
  <2>1. /\ call[c] = "new" /\ call' = [call EXCEPT ![c] = "rejected"]
        /\ UNCHANGED <<entries, key, bounded, listening, inFlight, answeredBy>>
    BY <1>2 DEF Correlation!AwaitThrows
  <2>2. Correlation!TypeOK' /\ EntriesAreThePendingCalls'
    BY <1>0, <2>1, CallsAssumption DEF Correlation!TypeOK, EntriesAreThePendingCalls
  <2>3. \A i \in 1..Len(inFlight) : inFlight[i] # c /\ inFlight[i] \in Calls
    BY <1>0, <2>1 DEF RequestsAreAccountedFor
  <2>4. RequestsAreAccountedFor' /\ Correlation!AnswersBelongToTheirKey'
    BY <1>0, <2>1, <2>3 DEF RequestsAreAccountedFor, Correlation!AnswersBelongToTheirKey, GivenUp, Correlation!TypeOK
  <2> QED
    BY <2>2, <2>4 DEF CorrelationInv
<1>3. ASSUME NEW c \in Calls, Correlation!Abort(c) PROVE CorrelationInv'
  <2>1. call[c] = "pending" /\ entries[key[c]] = c /\ c \in bounded
    BY <1>0, <1>3 DEF Correlation!Abort, Correlation!TypeOK, EntriesAreThePendingCalls
  <2>2. Correlation!Settle(c, "rejected") /\ UNCHANGED <<key, bounded, inFlight, answeredBy>>
    BY <1>3, <2>1 DEF Correlation!Abort
  <2>3. Correlation!TypeOK' /\ EntriesAreThePendingCalls'
    BY <1>0, <2>1, <2>2, SettleKeepsMap DEF Correlation!TypeOK
  <2>4. \A d \in Calls : call'[d] = IF d = c THEN "rejected" ELSE call[d]
    BY <1>0, <2>2 DEF Correlation!Settle, Correlation!TypeOK
  <2>5. answeredBy[c] = None
    BY <1>0, <2>1 DEF RequestsAreAccountedFor
  <2>6. \A d \in bounded : d \in Calls /\ (call[d] = "rejected" => call'[d] = "rejected")
    BY <1>0, <2>4 DEF Correlation!TypeOK
  <2>7. \A i \in 1..Len(inFlight) : inFlight[i] \in Calls
    BY <1>0
  <2>8. RequestsAreAccountedFor'
    BY <1>0, <2>1, <2>2, <2>4, <2>5, <2>6, <2>7 DEF RequestsAreAccountedFor, GivenUp
  <2>9. Correlation!AnswersBelongToTheirKey'
    BY <1>0, <2>2, <2>6 DEF Correlation!AnswersBelongToTheirKey
  <2> QED
    BY <2>3, <2>8, <2>9 DEF CorrelationInv
<1>4. CASE Correlation!Answer
  <2> DEFINE request == Head(inFlight)
             c == entries[key[request]]
  <2>1. inFlight # <<>> /\ inFlight' = Tail(inFlight) /\ UNCHANGED <<key, bounded>>
    BY <1>4 DEF Correlation!Answer
  <2>2. /\ Tail(inFlight) \in Seq(Calls) /\ request \in Calls /\ request = inFlight[1]
        /\ 1 \in 1..Len(inFlight)
        /\ \A i \in 1..Len(Tail(inFlight)) :
             i + 1 \in 1..Len(inFlight) /\ Tail(inFlight)[i] = inFlight[i + 1] /\ Tail(inFlight)[i] # request
        /\ \A i, j \in 1..Len(Tail(inFlight)) : Tail(inFlight)[i] = Tail(inFlight)[j] => i = j
    BY <1>0, <2>1, TailOfRequests
  <2>3. CASE c = None
    <3>1. UNCHANGED <<entries, call, listening, answeredBy>>
      BY <1>4, <2>3 DEF Correlation!Answer
    <3>2. Correlation!TypeOK' /\ EntriesAreThePendingCalls'
      BY <1>0, <2>1, <2>2, <3>1 DEF Correlation!TypeOK, EntriesAreThePendingCalls
    <3>3. RequestsAreAccountedFor'
      BY <1>0, <2>1, <2>2, <3>1 DEF RequestsAreAccountedFor, GivenUp
    <3>4. Correlation!AnswersBelongToTheirKey'
      BY <1>0, <2>1, <3>1 DEF Correlation!AnswersBelongToTheirKey
    <3> QED
      BY <3>2, <3>3, <3>4 DEF CorrelationInv
  <2>4. CASE c # None
    <3>1. c \in Calls /\ call[c] = "pending" /\ key[c] = key[request] /\ key[request] \in Keys
      BY <1>0, <2>2, <2>4 DEF Correlation!TypeOK, EntriesAreThePendingCalls
    <3>2. PICK how \in {"resolved", "rejected"} : Correlation!Settle(c, how)
      BY <1>4, <2>4 DEF Correlation!Answer
    <3>3. answeredBy' = [answeredBy EXCEPT ![c] = request]
      BY <1>4, <2>4 DEF Correlation!Answer
    <3>4. /\ call[request] # "new" /\ (call[request] # "pending" => GivenUp(key[request]))
          /\ answeredBy[c] = None
      BY <1>0, <2>2, <3>1 DEF RequestsAreAccountedFor
    <3>5. c = request \/ GivenUp(key[request])
      BY <1>0, <2>2, <3>4 DEF EntriesAreThePendingCalls
    <3> HIDE DEF c, request
    <3>6. answeredBy' \in [Calls -> Calls \cup {None}] /\ inFlight' \in Seq(Calls)
      BY <1>0, <2>1, <2>2, <3>3 DEF Correlation!TypeOK
    <3>7. Correlation!TypeOK' /\ EntriesAreThePendingCalls'
      BY <1>0, <2>1, <3>1, <3>2, <3>6, SettleKeepsMap
    <3>8. /\ \A d \in Calls : call'[d] = IF d = c THEN how ELSE call[d]
          /\ \A d \in Calls : answeredBy'[d] = IF d = c THEN request ELSE answeredBy[d]
      BY <1>0, <3>2, <3>3 DEF Correlation!Settle, Correlation!TypeOK
    <3>9. \A k : GivenUp(k) => \E d \in bounded : /\ d \in Calls /\ d # c
                                                  /\ key[d] = k /\ call[d] = "rejected" /\ answeredBy[d] = None
      BY <1>0, <3>1 DEF GivenUp, Correlation!TypeOK
    <3>10. \A k : GivenUp(k) => \E d \in bounded' : key'[d] = k /\ call'[d] = "rejected" /\ answeredBy'[d] = None
      BY <2>1, <3>8, <3>9
    <3>11. \A i \in 1..Len(inFlight') :
             /\ inFlight'[i] \in Calls /\ call[inFlight'[i]] # "new" /\ inFlight'[i] # request
             /\ call[inFlight'[i]] # "pending" => GivenUp(key[inFlight'[i]])
      BY <1>0, <2>1, <2>2 DEF RequestsAreAccountedFor
    <3>12. \A i \in 1..Len(inFlight') : inFlight'[i] = c => GivenUp(key[c])
      BY <3>1, <3>5, <3>11
    <3>13. RequestsAreAccountedFor'
      <4>1. \A i, j \in 1..Len(inFlight') : inFlight'[i] = inFlight'[j] => i = j
        BY <2>1, <2>2
      <4>2. \A i \in 1..Len(inFlight') : /\ call'[inFlight'[i]] # "new"
                                         /\ call'[inFlight'[i]] # "pending" => GivenUp(key[inFlight'[i]])
        BY <3>8, <3>11, <3>12
      <4>3. \A d \in Calls : call'[d] \in {"new", "pending"} => answeredBy'[d] = None
        BY <1>0, <3>8 DEF RequestsAreAccountedFor
      <4>4. \A i \in 1..Len(inFlight') :
              call'[inFlight'[i]] # "pending" =>
                \E d \in bounded' : key'[d] = key'[inFlight'[i]] /\ call'[d] = "rejected" /\ answeredBy'[d] = None
        BY <2>1, <3>10, <4>2
      <4> QED
        BY <4>1, <4>2, <4>3, <4>4 DEF RequestsAreAccountedFor, GivenUp
    <3>14. Correlation!AnswersBelongToTheirKey'
      <4>1. ASSUME NEW d \in Calls, answeredBy'[d] \notin {None, d}
            PROVE  key[answeredBy'[d]] = key[d] /\ GivenUp(key[d])
        <5>1. CASE d = c
          BY <3>1, <3>5, <3>8, <4>1, <5>1
        <5>2. CASE d # c
          BY <1>0, <3>8, <4>1, <5>2 DEF Correlation!AnswersBelongToTheirKey, GivenUp
        <5> QED
          BY <5>1, <5>2
      <4> QED
        BY <2>1, <3>10, <4>1 DEF Correlation!AnswersBelongToTheirKey
    <3> QED
      BY <3>7, <3>13, <3>14 DEF CorrelationInv
  <2> QED
    BY <2>3, <2>4
<1>5. CASE Correlation!Silence
  <2>1. inFlight # <<>> /\ inFlight' = Tail(inFlight)
        /\ UNCHANGED <<entries, call, key, bounded, listening, answeredBy>>
    BY <1>5 DEF Correlation!Silence
  <2>2. /\ Tail(inFlight) \in Seq(Calls)
        /\ \A i \in 1..Len(Tail(inFlight)) : i + 1 \in 1..Len(inFlight) /\ Tail(inFlight)[i] = inFlight[i + 1]
        /\ \A i, j \in 1..Len(Tail(inFlight)) : Tail(inFlight)[i] = Tail(inFlight)[j] => i = j
    BY <1>0, <2>1, TailOfRequests
  <2>3. Correlation!TypeOK' /\ EntriesAreThePendingCalls'
    BY <1>0, <2>1, <2>2 DEF Correlation!TypeOK, EntriesAreThePendingCalls
  <2>4. RequestsAreAccountedFor'
    BY <1>0, <2>1, <2>2 DEF RequestsAreAccountedFor, GivenUp
  <2>5. Correlation!AnswersBelongToTheirKey'
    BY <1>0, <2>1 DEF Correlation!AnswersBelongToTheirKey
  <2> QED
    BY <2>3, <2>4, <2>5 DEF CorrelationInv
<1>6. CASE Correlation!RejectAll
  <2>1. /\ entries' = [k \in Keys |-> None] /\ inFlight' = <<>> /\ UNCHANGED <<key, bounded, answeredBy>>
        /\ call' = [c \in Calls |-> IF entries[key[c]] = c THEN "rejected" ELSE call[c]]
    BY <1>6 DEF Correlation!RejectAll
  <2>2. Correlation!TypeOK' /\ EntriesAreThePendingCalls'
    BY <1>0, <1>6, CallsAssumption DEF Correlation!TypeOK, EntriesAreThePendingCalls, Correlation!RejectAll
  <2>3. \A c \in Calls : /\ call'[c] \in {"new", "pending"} => call[c] \in {"new", "pending"}
                         /\ call[c] = "rejected" => call'[c] = "rejected"
    BY <1>0, <2>1 DEF Correlation!TypeOK
  <2>4. RequestsAreAccountedFor' /\ Correlation!AnswersBelongToTheirKey'
    BY <1>0, <2>1, <2>3 DEF RequestsAreAccountedFor, Correlation!AnswersBelongToTheirKey, Correlation!TypeOK
  <2> QED
    BY <2>2, <2>4 DEF CorrelationInv
<1>7. CASE UNCHANGED Correlation!vars
  BY <1>0, <1>7 DEF CorrelationInv, Correlation!TypeOK, EntriesAreThePendingCalls, RequestsAreAccountedFor, GivenUp,
                    Correlation!AnswersBelongToTheirKey, Correlation!vars
<1> QED
  BY <1>1, <1>2, <1>3, <1>4, <1>5, <1>6, <1>7 DEF Correlation!Next

LEMMA CorrelationHolds == MCSpec => []CorrelationInv
<1>1. MCInit => CorrelationInv
  BY CorrelationBegins DEF MCInit
<1>2. CorrelationInv /\ [MCNext]_mcVars => CorrelationInv'
  <2>1. [MCNext]_mcVars => [Correlation!Next]_(Correlation!vars)
    BY DEF MCNext, mcVars, correlatorVars, Correlation!vars
  <2> QED
    BY <2>1, CorrelationStep
<1> QED
  BY <1>1, <1>2, PTL DEF MCSpec

\* Correlator's await(), resolve(), reject(), rejectAll() and onAbort(): the map and the
\* promises tell the same story in every reachable state.
THEOREM PendingCallsCanBeSettled == MCSpec => []EntriesAreThePendingCalls
<1>1. CorrelationInv => EntriesAreThePendingCalls
  BY DEF CorrelationInv
<1> QED
  BY CorrelationHolds, <1>1, PTL

-----------------------------------------------------------------------------
(* EventBus: who waits, and who can be reached. *)

\* What the proofs below need of the types: states and sets, no numbers.
ListenersOK ==
  /\ disposed \in BOOLEAN
  /\ listeners \subseteq Listeners
  /\ once \in [Onces -> {"none", "pending", "resolved", "rejected"}]
  /\ queue = [s \in Streams |-> queue[s]]
  /\ parked \in [Streams -> BOOLEAN]
  /\ stream \in [Streams -> {"none", "open", "failed", "finished"}]
  /\ policy \in [Streams -> Policies]

IInv == ListenersOK /\ WaitersAreReachable /\ DisposeSettlesAll

LEMMA InitIInv == Init => IInv
<1> SUFFICES ASSUME Init PROVE IInv
  OBVIOUS
<1>1. ListenersOK
  BY DEF Init, ListenersOK, Policies
<1>2. WaitersAreReachable /\ DisposeSettlesAll
  BY DEF Init, WaitersAreReachable, DisposeSettlesAll, Open
<1> QED
  BY <1>1, <1>2 DEF IInv

\* One step per action.
LEMMA NextIInv == IInv /\ [Next]_vars => IInv'
<1> SUFFICES ASSUME IInv, [Next]_vars PROVE IInv'
  OBVIOUS
<1> USE EventBusAssumption
        DEF IInv, ListenersOK, WaitersAreReachable, DisposeSettlesAll, Open, Listeners, streamVars
<1>1. ASSUME NEW c \in Callbacks, On(c) PROVE IInv'
  BY <1>1 DEF On
<1>2. ASSUME NEW c \in Callbacks, Off(c) PROVE IInv'
  BY <1>2 DEF Off
<1>3. ASSUME NEW c \in Callbacks, CallCallback(c) PROVE IInv'
  BY <1>3 DEF CallCallback
<1>4. ASSUME NEW o \in Onces, Once(o) PROVE IInv'
  BY <1>4 DEF Once
<1>5. ASSUME NEW o \in Onces, AbortOnce(o) PROVE IInv'
  BY <1>5 DEF AbortOnce
<1>6. ASSUME NEW o \in Onces, CallOnce(o) PROVE IInv'
  BY <1>6 DEF CallOnce
<1>7. ASSUME NEW s \in Streams, NEW p \in Policies, OpenStream(s, p) PROVE IInv'
  BY <1>7 DEF OpenStream
<1>8. ASSUME NEW s \in Streams, NextItem(s) PROVE IInv'
  BY <1>8 DEF NextItem
<1>9. ASSUME NEW s \in Streams, AbortStream(s) PROVE IInv'
  BY <1>9 DEF AbortStream, Ends
<1>10. ASSUME NEW s \in Streams, Return(s) PROVE IInv'
  BY <1>10 DEF Return
<1>11. ASSUME NEW s \in Streams, PushToClosed(s) PROVE IInv'
  BY <1>11 DEF PushToClosed, Pushes
<1>12. ASSUME NEW s \in Streams, PushToParked(s) PROVE IInv'
  BY <1>12 DEF PushToParked, Pushes
<1>13. ASSUME NEW s \in Streams, PushToQueue(s) PROVE IInv'
  BY <1>13 DEF PushToQueue, Pushes
<1>14. ASSUME NEW s \in Streams, PushToFull(s) PROVE IInv'
  <2>1. policy[s] \in Policies /\ s \in listeners
    BY <1>14 DEF PushToFull
  <2>2. CASE policy[s] = "dropOldest"
    BY <1>14, <2>2 DEF PushToFull, Pushes
  <2>3. CASE policy[s] = "dropNewest"
    BY <1>14, <2>3 DEF PushToFull, Pushes
  <2>4. CASE policy[s] = "throw"
    <3>1. stream' = [stream EXCEPT ![s] = "failed"] /\ listeners' = listeners \ {s} /\ ~parked[s]
      BY <1>14, <2>4 DEF PushToFull
    <3>2. UNCHANGED <<disposed, once, queue, parked, policy>>
      BY <1>14, <2>4 DEF PushToFull, Pushes
    <3> QED
      BY <2>1, <3>1, <3>2
  <2> QED
    BY <2>1, <2>2, <2>3, <2>4 DEF Policies
<1>15. CASE Emit
  BY <1>15 DEF Emit
<1>16. CASE Returns
  BY <1>16 DEF Returns
<1>17. CASE Dispose
  BY <1>17 DEF Dispose, Ends
<1>18. CASE UNCHANGED vars
  BY <1>18 DEF vars
<1> QED
  BY <1>1, <1>2, <1>3, <1>4, <1>5, <1>6, <1>7, <1>8, <1>9, <1>10, <1>11, <1>12, <1>13, <1>14,
     <1>15, <1>16, <1>17, <1>18 DEF Next

\* No wake-up is lost: whoever waits for the bus can still be reached by it.
THEOREM NoWakeUpIsLost == Spec => []WaitersAreReachable
<1>1. IInv => WaitersAreReachable
  BY DEF IInv
<1> QED
  BY <1>1, InitIInv, NextIInv, PTL DEF Spec

\* dispose() leaves nobody waiting, and nobody starts to wait after it.
THEOREM DisposeIsFinal == Spec => []DisposeSettlesAll
<1>1. IInv => DisposeSettlesAll
  BY DEF IInv
<1> QED
  BY <1>1, InitIInv, NextIInv, PTL DEF Spec

-----------------------------------------------------------------------------
(* EventBus: the order of a stream's items. *)

Arrived(a, p) == \E i \in 1..Len(a) : a[i] = p

\* EventBus!ItemsKeepTheirOrder, of one stream: a has arrived, k was kept and d dropped.
InOrder(a, k, d) ==
  /\ a \in Seq(Nat) /\ k \in Seq(Nat)
  /\ \A i, j \in 1..Len(a) : a[i] = a[j] => i = j
  /\ \A p \in d : Arrived(a, p)
  /\ \A i \in 1..Len(a) : a[i] \in d \/ Arrived(k, a[i])
  /\ \A i \in 1..Len(k) : k[i] \notin d /\ Arrived(a, k[i])
  /\ \A i, j \in 1..Len(k) : i < j => \E m, n \in 1..Len(a) : m < n /\ a[m] = k[i] /\ a[n] = k[j]

LEMMA AppendFacts ==
  ASSUME NEW a \in Seq(Nat), NEW p \in Nat
  PROVE  /\ Append(a, p) \in Seq(Nat) /\ Len(a) \in Nat /\ Len(Append(a, p)) = Len(a) + 1
         /\ Append(a, p)[Len(a) + 1] = p /\ \A i \in 1..Len(a) : Append(a, p)[i] = a[i]
         /\ \A i \in 1..Len(a) : i \in 1..Len(Append(a, p)) /\ i < Len(a) + 1
         /\ Len(a) + 1 \in 1..Len(Append(a, p))
         /\ \A i \in 1..Len(Append(a, p)) : i \in 1..Len(a) \/ i = Len(a) + 1
  OBVIOUS

\* An item arrives and is kept.
LEMMA ItemIsKept ==
  ASSUME NEW a, NEW k, NEW d, InOrder(a, k, d), NEW p \in Nat, ~Arrived(a, p),
         NEW ap, ap = Append(a, p), NEW kp, kp = Append(k, p)
  PROVE  InOrder(ap, kp, d)
<1>0. a \in Seq(Nat) /\ k \in Seq(Nat)
  BY DEF InOrder
<1>1. /\ ap \in Seq(Nat) /\ Len(ap) = Len(a) + 1 /\ Len(a) \in Nat
      /\ ap[Len(a) + 1] = p /\ \A i \in 1..Len(a) : ap[i] = a[i]
      /\ \A i \in 1..Len(a) : i \in 1..Len(ap) /\ i < Len(a) + 1
      /\ Len(a) + 1 \in 1..Len(ap)
      /\ \A i \in 1..Len(ap) : i \in 1..Len(a) \/ i = Len(a) + 1
  BY <1>0, AppendFacts
<1>2. /\ kp \in Seq(Nat) /\ Len(kp) = Len(k) + 1 /\ Len(k) \in Nat
      /\ kp[Len(k) + 1] = p /\ \A i \in 1..Len(k) : kp[i] = k[i]
      /\ \A i \in 1..Len(k) : i \in 1..Len(kp) /\ i < Len(k) + 1
      /\ Len(k) + 1 \in 1..Len(kp)
      /\ \A i \in 1..Len(kp) : i \in 1..Len(k) \/ i = Len(k) + 1
  BY <1>0, AppendFacts
<1>3. \A i, j \in 1..Len(ap) : ap[i] = ap[j] => i = j
  BY <1>1 DEF InOrder, Arrived
<1>4. \A q : Arrived(a, q) => Arrived(ap, q)
  BY <1>1 DEF Arrived
<1>5. \A q : Arrived(k, q) => Arrived(kp, q)
  BY <1>2 DEF Arrived
<1>6. Arrived(ap, p) /\ Arrived(kp, p) /\ p \notin d
  BY <1>1, <1>2 DEF Arrived, InOrder
<1>7. \A i \in 1..Len(ap) : ap[i] \in d \/ Arrived(kp, ap[i])
  BY <1>1, <1>5, <1>6 DEF InOrder
<1>8. \A i \in 1..Len(kp) : kp[i] \notin d /\ Arrived(ap, kp[i])
  BY <1>2, <1>4, <1>6 DEF InOrder
<1>9. ASSUME NEW i \in 1..Len(kp), NEW j \in 1..Len(kp), i < j
      PROVE  \E m, n \in 1..Len(ap) : m < n /\ ap[m] = kp[i] /\ ap[n] = kp[j]
  <2>1. i \in 1..Len(k) /\ kp[i] = k[i]
    BY <1>2, <1>9
  <2>2. CASE j \in 1..Len(k)
    <3>1. PICK m, n \in 1..Len(a) : m < n /\ a[m] = k[i] /\ a[n] = k[j]
      BY <1>9, <2>1, <2>2 DEF InOrder
    <3> QED
      BY <1>1, <1>2, <2>1, <2>2, <3>1
  <2>3. CASE j = Len(k) + 1
    <3>1. PICK m \in 1..Len(a) : a[m] = k[i]
      BY <2>1 DEF InOrder, Arrived
    <3> QED
      BY <1>1, <1>2, <2>1, <2>3, <3>1
  <2> QED
    BY <1>2, <2>2, <2>3
<1>10. \A q \in d : Arrived(ap, q)
  BY <1>4 DEF InOrder
<1> QED
  BY <1>1, <1>2, <1>3, <1>7, <1>8, <1>9, <1>10 DEF InOrder

\* An item arrives and is dropped.
LEMMA ItemIsDropped ==
  ASSUME NEW a, NEW k, NEW d, InOrder(a, k, d), NEW p \in Nat, ~Arrived(a, p), NEW ap, ap = Append(a, p)
  PROVE  InOrder(ap, k, d \cup {p})
<1>0. a \in Seq(Nat) /\ k \in Seq(Nat)
  BY DEF InOrder
<1>1. /\ ap \in Seq(Nat) /\ Len(ap) = Len(a) + 1 /\ Len(a) \in Nat
      /\ ap[Len(a) + 1] = p /\ \A i \in 1..Len(a) : ap[i] = a[i]
      /\ \A i \in 1..Len(a) : i \in 1..Len(ap) /\ i < Len(a) + 1
      /\ Len(a) + 1 \in 1..Len(ap)
      /\ \A i \in 1..Len(ap) : i \in 1..Len(a) \/ i = Len(a) + 1
  BY <1>0, AppendFacts
<1>2. \A i, j \in 1..Len(ap) : ap[i] = ap[j] => i = j
  BY <1>1 DEF InOrder, Arrived
<1>3. \A q : Arrived(a, q) => Arrived(ap, q)
  BY <1>1 DEF Arrived
<1>4. \A q \in d \cup {p} : Arrived(ap, q)
  BY <1>1, <1>3 DEF InOrder, Arrived
<1>5. \A i \in 1..Len(ap) : ap[i] \in d \cup {p} \/ Arrived(k, ap[i])
  BY <1>1 DEF InOrder
<1>6. \A i \in 1..Len(k) : k[i] \notin d \cup {p} /\ Arrived(ap, k[i])
  BY <1>3 DEF InOrder
<1>7. \A i, j \in 1..Len(k) : i < j => \E m, n \in 1..Len(ap) : m < n /\ ap[m] = k[i] /\ ap[n] = k[j]
  BY <1>1 DEF InOrder
<1> QED
  BY <1>0, <1>1, <1>2, <1>4, <1>5, <1>6, <1>7 DEF InOrder

\* The oldest item of the queue q is dropped, after g was received.
LEMMA OldestIsDropped ==
  ASSUME NEW a, NEW g \in Seq(Nat), NEW q \in Seq(Nat), NEW d, InOrder(a, g \o q, d), q # <<>>,
         NEW kp, kp = g \o Tail(q)
  PROVE  InOrder(a, kp, d \cup {Head(q)})
<1> DEFINE k == g \o q
           x == Len(g) + 1
<1>1. /\ Len(g) \in Nat /\ Len(q) \in Nat /\ Len(q) >= 1 /\ Head(q) = q[1] /\ Tail(q) \in Seq(Nat)
      /\ Len(Tail(q)) = Len(q) - 1 /\ \A i \in 1..Len(Tail(q)) : Tail(q)[i] = q[i + 1]
  BY HeadTailProperties
<1>2. /\ k \in Seq(Nat) /\ Len(k) = Len(g) + Len(q)
      /\ \A i \in 1..Len(g) : k[i] = g[i]
      /\ \A i \in 1..Len(q) : k[Len(g) + i] = q[i]
  OBVIOUS
<1>3. /\ kp \in Seq(Nat) /\ Len(kp) = Len(g) + Len(Tail(q))
      /\ \A i \in 1..Len(g) : kp[i] = g[i]
      /\ \A i \in 1..Len(Tail(q)) : kp[Len(g) + i] = Tail(q)[i]
  BY <1>1
<1> HIDE DEF k
<1>4. x \in 1..Len(k) /\ k[x] = Head(q)
  BY <1>1, <1>2
<1>5. Len(kp) = Len(k) - 1
  BY <1>1, <1>2, <1>3
<1>6. \A i \in 1..Len(kp) : IF i < x THEN i \in 1..Len(k) /\ kp[i] = k[i] ELSE i + 1 \in 1..Len(k) /\ kp[i] = k[i + 1]
  <2>1. ASSUME NEW i \in 1..Len(kp), i < x PROVE i \in 1..Len(k) /\ kp[i] = k[i]
    <3>1. i \in 1..Len(g) /\ i \in 1..Len(k)
      <4>1. Len(g) \in Nat /\ Len(q) \in Nat /\ Len(k) = Len(g) + Len(q) /\ Len(kp) \in Nat
        BY <1>1, <1>2, <1>3
      <4> QED
        BY <2>1, <4>1
    <3> QED
      BY <1>2, <1>3, <3>1
  <2>2. ASSUME NEW i \in 1..Len(kp), ~(i < x) PROVE i + 1 \in 1..Len(k) /\ kp[i] = k[i + 1]
    <3> DEFINE j == i - Len(g)
    <3>1. j \in 1..Len(Tail(q)) /\ Len(g) + j = i /\ Len(g) + (j + 1) = i + 1 /\ j + 1 \in 1..Len(q)
          /\ i + 1 \in 1..Len(k)
      BY <1>1, <1>2, <1>3, <2>2
    <3> HIDE DEF j
    <3>2. kp[Len(g) + j] = Tail(q)[j] /\ Tail(q)[j] = q[j + 1] /\ k[Len(g) + (j + 1)] = q[j + 1]
      BY <1>1, <1>2, <1>3, <3>1
    <3> QED
      BY <3>1, <3>2
  <2> QED
    BY <2>1, <2>2
<1>7. \A i \in 1..Len(k) : i = x \/ \E j \in 1..Len(kp) : kp[j] = k[i]
  <2>1. ASSUME NEW i \in 1..Len(k), i < x PROVE \E j \in 1..Len(kp) : kp[j] = k[i]
    <3>1. i \in 1..Len(kp)
      BY <1>1, <1>2, <1>5, <2>1
    <3> QED
      BY <1>6, <2>1, <3>1
  <2>2. ASSUME NEW i \in 1..Len(k), i > x PROVE \E j \in 1..Len(kp) : kp[j] = k[i]
    <3>1. i - 1 \in 1..Len(kp) /\ ~(i - 1 < x) /\ (i - 1) + 1 = i
      BY <1>1, <1>2, <1>5, <2>2
    <3> QED
      BY <1>6, <3>1
  <2>3. x \in Nat /\ Len(k) \in Nat
    BY <1>1, <1>2
  <2> HIDE DEF x
  <2>4. \A i \in 1..Len(k) : i < x \/ i = x \/ i > x
    BY ONLY <2>3
  <2> SUFFICES ASSUME NEW i \in 1..Len(k) PROVE i = x \/ \E j \in 1..Len(kp) : kp[j] = k[i]
    OBVIOUS
  <2> QED
    BY <2>1, <2>2, <2>4
<1> DEFINE at == [i \in 1..Len(kp) |-> IF i < x THEN i ELSE i + 1]
<1>8. \A i \in 1..Len(kp) : at[i] \in 1..Len(k) /\ kp[i] = k[at[i]] /\ at[i] # x
  BY <1>1, <1>6
<1>9. \A i, j \in 1..Len(kp) : i < j => at[i] < at[j]
  BY <1>1, <1>3
<1> HIDE DEF at, x
<1>10. InOrder(a, k, d)
  BY DEF k
<1>11. \A i, j \in 1..Len(k) : i < j => k[i] # k[j]
  <2>1. \A m, n \in 1..Len(a) : m < n => a[m] # a[n]
    BY <1>10 DEF InOrder
  <2> QED
    BY <1>10, <2>1 DEF InOrder
<1>12. \A i \in 1..Len(k) : i # x => k[i] # k[x]
  BY <1>2, <1>4, <1>11
<1>13. \A i \in 1..Len(kp) : kp[i] \notin d \cup {Head(q)} /\ Arrived(a, kp[i])
  <2>1. ASSUME NEW i \in 1..Len(kp) PROVE kp[i] \notin d \cup {Head(q)} /\ Arrived(a, kp[i])
    <3> DEFINE j == at[i]
    <3>1. j \in 1..Len(k) /\ kp[i] = k[j] /\ j # x
      BY <1>8
    <3> HIDE DEF j
    <3>2. k[j] \notin d /\ Arrived(a, k[j])
      BY <1>10, <3>1 DEF InOrder
    <3>3. k[j] # Head(q)
      BY <1>4, <1>12, <3>1
    <3> QED
      BY <3>1, <3>2, <3>3
  <2> QED
    BY <2>1
<1>14. \A p \in d \cup {Head(q)} : Arrived(a, p)
  BY <1>4, <1>10 DEF InOrder
<1>15. \A i \in 1..Len(a) : a[i] \in d \cup {Head(q)} \/ Arrived(kp, a[i])
  <2>1. ASSUME NEW i \in 1..Len(a), a[i] \notin d, a[i] # Head(q) PROVE Arrived(kp, a[i])
    <3>1. PICK j \in 1..Len(k) : k[j] = a[i]
      BY <1>10, <2>1 DEF InOrder, Arrived
    <3> QED
      BY <1>4, <1>7, <2>1, <3>1 DEF Arrived
  <2> QED
    BY <2>1
<1>16. \A i, j \in 1..Len(kp) : i < j => \E m, n \in 1..Len(a) : m < n /\ a[m] = kp[i] /\ a[n] = kp[j]
  <2>1. ASSUME NEW i \in 1..Len(kp), NEW j \in 1..Len(kp), i < j
        PROVE  \E m, n \in 1..Len(a) : m < n /\ a[m] = kp[i] /\ a[n] = kp[j]
    <3>1. at[i] \in 1..Len(k) /\ at[j] \in 1..Len(k) /\ at[i] < at[j] /\ kp[i] = k[at[i]] /\ kp[j] = k[at[j]]
      BY <1>8, <1>9, <2>1
    <3>2. \E m, n \in 1..Len(a) : m < n /\ a[m] = k[at[i]] /\ a[n] = k[at[j]]
      <4>1. \A m, n \in 1..Len(k) : m < n => \E v, w \in 1..Len(a) : v < w /\ a[v] = k[m] /\ a[w] = k[n]
        BY <1>10 DEF InOrder
      <4> QED
        BY <3>1, <4>1
    <3> QED
      BY <3>1, <3>2
  <2> QED
    BY <2>1
<1> QED
  BY <1>3, <1>10, <1>13, <1>14, <1>15, <1>16 DEF InOrder

\* What the consumer takes from the queue it had yet to receive.
LEMMA KeptIsKept ==
  ASSUME NEW g \in Seq(Nat), NEW q \in Seq(Nat), q # <<>>
  PROVE  Append(g, Head(q)) \o Tail(q) = g \o q
<1> DEFINE l == Append(g, Head(q)) \o Tail(q)
           r == g \o q
<1>1. /\ Len(g) \in Nat /\ Len(q) \in Nat /\ Len(q) >= 1 /\ Head(q) = q[1] /\ Tail(q) \in Seq(Nat)
      /\ Len(Tail(q)) = Len(q) - 1 /\ \A i \in 1..Len(Tail(q)) : Tail(q)[i] = q[i + 1]
      /\ Head(q) \in Nat
  BY HeadTailProperties
<1>2. /\ Append(g, Head(q)) \in Seq(Nat) /\ Len(Append(g, Head(q))) = Len(g) + 1
      /\ Append(g, Head(q))[Len(g) + 1] = Head(q)
      /\ \A i \in 1..Len(g) : Append(g, Head(q))[i] = g[i]
  BY <1>1
<1>3. /\ l \in Seq(Nat) /\ Len(l) = (Len(g) + 1) + Len(Tail(q))
      /\ \A i \in 1..Len(g) + 1 : l[i] = Append(g, Head(q))[i]
      /\ \A i \in 1..Len(Tail(q)) : l[(Len(g) + 1) + i] = Tail(q)[i]
  BY <1>1, <1>2, ConcatProperties
<1>4. /\ r \in Seq(Nat) /\ Len(r) = Len(g) + Len(q)
      /\ \A i \in 1..Len(g) : r[i] = g[i]
      /\ \A i \in 1..Len(q) : r[Len(g) + i] = q[i]
  OBVIOUS
<1> HIDE DEF l, r
<1>5. Len(l) = Len(r)
  BY <1>1, <1>3, <1>4
<1>6. ASSUME NEW i \in 1..Len(l) PROVE l[i] = r[i]
  <2>1. CASE i \in 1..Len(g)
    <3>1. i \in 1..Len(g) + 1
      BY <1>1, <2>1
    <3> QED
      BY <1>2, <1>3, <1>4, <2>1, <3>1
  <2>2. CASE i = Len(g) + 1
    <3>1. i \in 1..Len(g) + 1 /\ 1 \in 1..Len(q)
      BY <1>1, <2>2
    <3> QED
      BY <1>1, <1>2, <1>3, <1>4, <2>2, <3>1
  <2>3. CASE i > Len(g) + 1
    <3> DEFINE j == i - (Len(g) + 1)
    <3>1. j \in 1..Len(Tail(q)) /\ (Len(g) + 1) + j = i /\ j + 1 \in 1..Len(q) /\ Len(g) + (j + 1) = i
      BY <1>1, <1>3, <2>3
    <3> HIDE DEF j
    <3>2. l[i] = Tail(q)[j]
      BY <1>3, <3>1
    <3>3. r[i] = q[j + 1]
      BY <1>4, <3>1
    <3>4. Tail(q)[j] = q[j + 1]
      BY <1>1, <3>1
    <3> QED
      BY <3>2, <3>3, <3>4
  <2> QED
    <3>1. Len(g) \in Nat /\ Len(l) \in Nat
      BY <1>1, <1>3
    <3>2. i \in 1..Len(g) \/ i = Len(g) + 1 \/ i > Len(g) + 1
      BY <3>1
    <3> QED
      BY <2>1, <2>2, <2>3, <3>2
<1>7. l = r
  BY <1>3, <1>4, <1>5, <1>6, SeqEqual
<1> QED
  BY <1>7 DEF l, r

LEMMA AppendToQueue ==
  ASSUME NEW g \in Seq(Nat), NEW q \in Seq(Nat), NEW p \in Nat
  PROVE  g \o Append(q, p) = Append(g \o q, p)
  BY AppendFacts, ConcatAssociative

LEMMA AppendToGot ==
  ASSUME NEW g \in Seq(Nat), NEW p \in Nat
  PROVE  Append(g, p) \o <<>> = Append(g \o <<>>, p) /\ g \o <<>> = g
  OBVIOUS

\* The emissions em in progress, of the n so far.
EmissionsFit(em, n) ==
  /\ n \in Nat /\ em \in Seq(Emission)
  /\ \A i \in 1..Len(em) : em[i].payload <= n
  /\ \A i, j \in 1..Len(em) : em[i].payload = em[j].payload => i = j

\* An emission that has yet to reach the stream s brings it a new item.
StreamFits(s, em, n, a, k, d) ==
  /\ InOrder(a, k, d)
  /\ \A i \in 1..Len(a) : a[i] <= n
  /\ \A i \in 1..Len(em) : s \in em[i].left => ~Arrived(a, em[i].payload)

LEMMA EmissionFacts ==
  \A e \in Emission : e.payload \in Nat /\ e.left \in SUBSET Listeners /\ e.inCallback \in BOOLEAN
  BY DEF Emission

LEMMA EmissionBegins ==
  ASSUME NEW em, NEW n, EmissionsFit(em, n), NEW L \in SUBSET Listeners,
         NEW emp, emp = <<[payload |-> n + 1, left |-> L, inCallback |-> FALSE]>> \o em
  PROVE  /\ EmissionsFit(emp, n + 1)
         /\ \A s, a, k, d : StreamFits(s, em, n, a, k, d) => StreamFits(s, emp, n + 1, a, k, d)
<1> DEFINE e == [payload |-> n + 1, left |-> L, inCallback |-> FALSE]
<1>1. e \in Emission /\ e.payload = n + 1 /\ n \in Nat /\ em \in Seq(Emission) /\ Len(em) \in Nat
  BY DEF EmissionsFit, Emission
<1> HIDE DEF e
<1>2. /\ emp \in Seq(Emission) /\ Len(emp) = Len(em) + 1 /\ emp[1] = e
      /\ \A i \in 1..Len(em) : emp[i + 1] = em[i]
  <2>1. emp = <<e>> \o em
    BY DEF e
  <2>2. <<e>> \in Seq(Emission) /\ Len(<<e>>) = 1 /\ <<e>>[1] = e
    BY <1>1
  <2>3. /\ emp \in Seq(Emission) /\ Len(emp) = 1 + Len(em)
        /\ \A i \in 1..1 + Len(em) : emp[i] = IF i <= 1 THEN <<e>>[i] ELSE em[i - 1]
    <3> DEFINE f == <<e>>
    <3>1. f \in Seq(Emission) /\ Len(f) = 1
      BY <2>2
    <3> HIDE DEF f
    <3>2. /\ f \o em \in Seq(Emission) /\ Len(f \o em) = Len(f) + Len(em)
          /\ \A i \in 1..Len(f) + Len(em) : (f \o em)[i] = IF i <= Len(f) THEN f[i] ELSE em[i - Len(f)]
      BY ONLY <1>1, <3>1, ConcatProperties
    <3>3. emp = f \o em
      BY <2>1 DEF f
    <3>4. \A i \in 1..1 + Len(em) : emp[i] = IF i <= 1 THEN f[i] ELSE em[i - 1]
      BY <3>1, <3>2, <3>3
    <3> QED
      BY <3>1, <3>2, <3>3, <3>4 DEF f
  <2>4. /\ 1 \in 1..1 + Len(em)
        /\ \A i \in 1..Len(em) : i + 1 \in 1..1 + Len(em) /\ ~(i + 1 <= 1) /\ (i + 1) - 1 = i
    BY <1>1
  <2> QED
    BY <1>1, <2>2, <2>3, <2>4
<1>3. \A i \in 1..Len(emp) : i = 1 \/ (i - 1 \in 1..Len(em) /\ emp[i] = em[i - 1])
  <2>1. \A i \in 1..Len(emp) : i = 1 \/ (i - 1 \in 1..Len(em) /\ (i - 1) + 1 = i)
    BY <1>1, <1>2
  <2> QED
    BY <1>2, <2>1
<1>4. \A i \in 1..Len(em) : em[i].payload \in Nat /\ em[i].payload <= n
  BY <1>1, EmissionFacts DEF EmissionsFit
<1>5. ASSUME NEW i \in 1..Len(emp) PROVE emp[i].payload <= n + 1 /\ (i # 1 => emp[i].payload # n + 1)
  <2>1. CASE i = 1
    BY <1>1, <1>2, <2>1
  <2>2. CASE i # 1
    <3>1. i - 1 \in 1..Len(em) /\ emp[i] = em[i - 1]
      BY <1>3, <2>2
    <3>2. em[i - 1].payload \in Nat /\ em[i - 1].payload <= n
      BY <1>4, <3>1
    <3> QED
      BY <1>1, <2>2, <3>1, <3>2
  <2> QED
    BY <2>1, <2>2
<1>6. ASSUME NEW i \in 1..Len(emp), NEW j \in 1..Len(emp), emp[i].payload = emp[j].payload PROVE i = j
  <2>1. CASE i = 1 \/ j = 1
    BY <1>1, <1>2, <1>5, <1>6, <2>1
  <2>2. CASE i # 1 /\ j # 1
    <3>1. i - 1 = j - 1
      <4>1. /\ i - 1 \in 1..Len(em) /\ emp[i] = em[i - 1]
            /\ j - 1 \in 1..Len(em) /\ emp[j] = em[j - 1]
        BY <1>3, <2>2
      <4> QED
        BY <1>6, <4>1 DEF EmissionsFit
    <3> QED
      BY <1>1, <1>2, <3>1
  <2> QED
    BY <2>1, <2>2
<1>7. EmissionsFit(emp, n + 1)
  <2>1. n + 1 \in Nat
    BY <1>1
  <2> QED
    BY <1>2, <1>5, <1>6, <2>1 DEF EmissionsFit
<1>8. ASSUME NEW s, NEW a, NEW k, NEW d, StreamFits(s, em, n, a, k, d) PROVE StreamFits(s, emp, n + 1, a, k, d)
  <2>1. a \in Seq(Nat) /\ InOrder(a, k, d) /\ \A i \in 1..Len(a) : a[i] \in Nat /\ a[i] <= n
    BY <1>8 DEF StreamFits, InOrder
  <2>2. \A i \in 1..Len(a) : a[i] <= n + 1 /\ a[i] # n + 1
    BY <1>1, <2>1
  <2>3. \A i \in 1..Len(emp) : s \in emp[i].left => ~Arrived(a, emp[i].payload)
    BY <1>1, <1>2, <1>3, <1>8, <2>2 DEF StreamFits, Arrived
  <2> QED
    BY <2>1, <2>2, <2>3 DEF StreamFits
<1> QED
  BY <1>7, <1>8

Calling(em, l) == [em EXCEPT ![1].left = @ \ {l}, ![1].inCallback = (l \in Callbacks)]

\* The innermost emission calls the listener l, which it will not call again.
LEMMA EmissionCalls ==
  ASSUME NEW em, NEW n, EmissionsFit(em, n), em # <<>>, NEW l,
         NEW emp, emp = Calling(em, l)
  PROVE  /\ EmissionsFit(emp, n)
         /\ Head(em) = em[1] /\ 1 \in 1..Len(em) /\ em[1].payload \in Nat /\ em[1].payload <= n
         /\ \A i \in 1..Len(emp) : l \in emp[i].left => emp[i].payload # em[1].payload
         /\ \A s, a, k, d : StreamFits(s, em, n, a, k, d) => StreamFits(s, emp, n, a, k, d)
<1>1. n \in Nat /\ em \in Seq(Emission) /\ Len(em) \in Nat /\ 1 \in 1..Len(em) /\ Head(em) = em[1]
  BY DEF EmissionsFit
<1>2. em[1] \in Emission /\ em[1].payload \in Nat /\ em[1].payload <= n
  BY <1>1, EmissionFacts DEF EmissionsFit
<1> DEFINE b == l \in Callbacks
           e == [em[1] EXCEPT !.left = em[1].left \ {l}, !.inCallback = b]
<1>10. b \in BOOLEAN
  OBVIOUS
<1>11. emp = [em EXCEPT ![1].left = @ \ {l}, ![1].inCallback = b]
  BY DEF Calling
<1> HIDE DEF b
<1>3. e \in Emission /\ e.payload = em[1].payload /\ e.left = em[1].left \ {l}
  BY <1>2, <1>10 DEF Emission
<1>4. emp = [em EXCEPT ![1] = e]
  BY <1>1, <1>2, <1>11 DEF Emission
<1> HIDE DEF e
<1>5. /\ emp \in Seq(Emission) /\ Len(emp) = Len(em) /\ emp[1] = e
      /\ \A i \in 1..Len(em) : i # 1 => emp[i] = em[i]
  <2>1. e \in Emission
    BY <1>3
  <2> DEFINE ex == [em EXCEPT ![1] = e]
  <2>2. ex \in Seq(Emission) /\ Len(ex) = Len(em) /\ \A i \in 1..Len(em) : ex[i] = IF i = 1 THEN e ELSE em[i]
    BY ONLY <1>1, <2>1, ExceptSeq
  <2> HIDE DEF ex
  <2>3. emp = ex
    BY <1>4 DEF ex
  <2> QED
    BY <1>1, <2>2, <2>3
<1>6. \A i \in 1..Len(emp) : emp[i].payload = em[i].payload /\ \A s : s \in emp[i].left => s \in em[i].left
  BY <1>3, <1>5
<1>7. EmissionsFit(emp, n)
  BY <1>1, <1>5, <1>6 DEF EmissionsFit
<1>8. \A i \in 1..Len(emp) : l \in emp[i].left => emp[i].payload # em[1].payload
  <2>1. l \notin emp[1].left
    BY <1>3, <1>5
  <2> QED
    BY <1>1, <1>5, <1>6, <2>1 DEF EmissionsFit
<1>9. \A s, a, k, d : StreamFits(s, em, n, a, k, d) => StreamFits(s, emp, n, a, k, d)
  BY <1>5, <1>6 DEF StreamFits
<1> QED
  BY <1>1, <1>2, <1>7, <1>8, <1>9

LEMMA EmissionReturns ==
  ASSUME NEW em, NEW n, EmissionsFit(em, n), em # <<>>, NEW emp, emp = Tail(em)
  PROVE  /\ EmissionsFit(emp, n)
         /\ \A s, a, k, d : StreamFits(s, em, n, a, k, d) => StreamFits(s, emp, n, a, k, d)
<1>1. n \in Nat /\ em \in Seq(Emission) /\ Len(em) \in Nat
  BY DEF EmissionsFit
<1>2. /\ emp \in Seq(Emission) /\ Len(emp) = Len(em) - 1
      /\ \A i \in 1..Len(emp) : i + 1 \in 1..Len(em) /\ emp[i] = em[i + 1]
  <2>1. emp \in Seq(Emission) /\ Len(emp) = Len(em) - 1 /\ \A i \in 1..Len(emp) : emp[i] = em[i + 1]
    BY <1>1, HeadTailProperties
  <2>2. \A i \in 1..Len(emp) : i + 1 \in 1..Len(em)
    BY <1>1, <2>1
  <2> QED
    BY <2>1, <2>2
<1>3. EmissionsFit(emp, n)
  <2>1. \A i, j \in 1..Len(emp) : emp[i].payload = emp[j].payload => i + 1 = j + 1
    BY <1>2 DEF EmissionsFit
  <2>2. \A i, j \in 1..Len(emp) : emp[i].payload = emp[j].payload => i = j
    BY <1>2, <2>1
  <2> QED
    BY <1>1, <1>2, <2>2 DEF EmissionsFit
<1> QED
  BY <1>2, <1>3 DEF StreamFits

\* The stream l accepts the item of the emission that calls it.
LEMMA ItemArrives ==
  ASSUME NEW em, NEW n, EmissionsFit(em, n), em # <<>>, NEW l, l \in em[1].left,
         NEW emp, emp = Calling(em, l),
         NEW a, NEW k, NEW d, StreamFits(l, em, n, a, k, d), NEW kp, NEW dp,
         InOrder(Append(a, em[1].payload), kp, dp)
  PROVE  StreamFits(l, emp, n, Append(a, em[1].payload), kp, dp)
<1> DEFINE p == em[1].payload
           ap == Append(a, p)
<1>1. /\ \A i \in 1..Len(emp) : l \in emp[i].left => emp[i].payload # p
      /\ p \in Nat /\ p <= n
      /\ \A s, x, y, z : StreamFits(s, em, n, x, y, z) => StreamFits(s, emp, n, x, y, z)
  BY EmissionCalls
<1>11. StreamFits(l, emp, n, a, k, d)
  BY <1>1
<1>2. a \in Seq(Nat)
  BY <1>11 DEF StreamFits, InOrder
<1> HIDE DEF p
<1>3. /\ Len(a) \in Nat /\ ap[Len(a) + 1] = p /\ \A i \in 1..Len(a) : ap[i] = a[i]
      /\ \A i \in 1..Len(ap) : i \in 1..Len(a) \/ i = Len(a) + 1
  BY <1>1, <1>2, AppendFacts
<1> HIDE DEF ap
<1>4. \A i \in 1..Len(ap) : ap[i] <= n
  BY <1>1, <1>3, <1>11 DEF StreamFits
<1>5. \A q : Arrived(ap, q) => Arrived(a, q) \/ q = p
  BY <1>3 DEF Arrived
<1>6. \A i \in 1..Len(emp) : l \in emp[i].left => ~Arrived(ap, emp[i].payload)
  BY <1>1, <1>5, <1>11 DEF StreamFits
<1>7. InOrder(ap, kp, dp)
  BY DEF ap, p
<1>8. StreamFits(l, emp, n, ap, kp, dp)
  BY <1>4, <1>6, <1>7 DEF StreamFits
<1> QED
  BY <1>8 DEF ap, p

Streaming(s) == StreamFits(s, emissions, emitted, arrived[s], Kept(s), dropped[s])

OrderInv == EmissionsFit(emissions, emitted) /\ \A s \in Streams : Streaming(s)

\* With ListenersOK and OrderInv, EventBus!TypeOK.
StreamsOK ==
  /\ queue \in [Streams -> Seq(Nat)] /\ \A s \in Streams : Len(queue[s]) <= HighWater
  /\ arrived \in [Streams -> Seq(Nat)] /\ got \in [Streams -> Seq(Nat)]
  /\ dropped \in [Streams -> SUBSET Nat] /\ told \in [Streams -> BOOLEAN]
  /\ heard \in (Callbacks \X BOOLEAN) \cup {<<>>}

LEMMA BusBegins == Init => StreamsOK /\ OrderInv
<1> SUFFICES ASSUME Init PROVE StreamsOK /\ OrderInv
  OBVIOUS
<1>1. <<>> \in Seq(Nat) /\ Len(<<>>) = 0 /\ 0 <= HighWater
  BY EventBusAssumption
<1>2. StreamsOK
  BY <1>1 DEF Init, StreamsOK
<1>3. EmissionsFit(emissions, emitted)
  <2>1. emissions = <<>> /\ emitted = 0 /\ emissions \in Seq(Emission) /\ Len(emissions) = 0
    BY DEF Init
  <2> QED
    BY <2>1 DEF EmissionsFit
<1>4. ASSUME NEW s \in Streams PROVE Streaming(s)
  <2>1. emissions = <<>> /\ arrived[s] = <<>> /\ got[s] = <<>> /\ queue[s] = <<>> /\ dropped[s] = {}
    BY DEF Init
  <2>2. Kept(s) = <<>>
    BY <2>1 DEF Kept
  <2> QED
    BY <1>1, <2>1, <2>2 DEF Streaming, StreamFits, InOrder
<1> QED
  BY <1>2, <1>3, <1>4 DEF OrderInv

\* The stream s accepts an item: it is kept, or something is dropped.
LEMMA StreamAccepts ==
  ASSUME StreamsOK, OrderInv, NEW s \in Streams, Pushes(s), stream[s] = "open",
         \A t \in Streams \ {s} : got'[t] = got[t] /\ queue'[t] = queue[t] /\ dropped'[t] = dropped[t],
         \A p \in Nat : p = Payload /\ ~Arrived(arrived[s], p) =>
           InOrder(Append(arrived[s], p), got'[s] \o queue'[s], dropped'[s])
  PROVE  OrderInv' /\ arrived' \in [Streams -> Seq(Nat)] /\ Payload \in Nat
<1> DEFINE p == emissions[1].payload
<1>1. /\ emissions # <<>> /\ s \in Head(emissions).left /\ emitted' = emitted
      /\ emissions' = Calling(emissions, s)
      /\ arrived' = [arrived EXCEPT ![s] = Append(arrived[s], Payload)]
  BY DEF Pushes, CallsListener, Calling, StreamsOK
<1>2. EmissionsFit(emissions, emitted) /\ \A t \in Streams : Streaming(t)
  BY DEF OrderInv
<1>3. /\ EmissionsFit(emissions', emitted) /\ Head(emissions) = emissions[1] /\ 1 \in 1..Len(emissions)
      /\ p \in Nat
      /\ \A t, a, k, d : StreamFits(t, emissions, emitted, a, k, d) => StreamFits(t, emissions', emitted, a, k, d)
  BY <1>1, <1>2, EmissionCalls
<1>4. Payload = p /\ s \in emissions[1].left
  BY <1>1, <1>3 DEF Payload
<1>5. ~Arrived(arrived[s], p)
  BY <1>2, <1>3, <1>4 DEF Streaming, StreamFits
<1> HIDE DEF p
<1>6. InOrder(Append(arrived[s], p), got'[s] \o queue'[s], dropped'[s])
  BY <1>3, <1>4, <1>5
<1>7. StreamFits(s, emissions', emitted, Append(arrived[s], p), got'[s] \o queue'[s], dropped'[s])
  BY <1>1, <1>2, <1>4, <1>6, ItemArrives DEF Streaming, p
<1>8. arrived'[s] = Append(arrived[s], p) /\ \A t \in Streams \ {s} : arrived'[t] = arrived[t]
  BY <1>1, <1>4 DEF StreamsOK
<1>9. ASSUME NEW t \in Streams PROVE Streaming(t)'
  <2>1. CASE t = s
    BY <1>1, <1>7, <1>8, <2>1 DEF Streaming, Kept
  <2>2. CASE t # s
    <3>1. StreamFits(t, emissions', emitted, arrived[t], got[t] \o queue[t], dropped[t])
      BY <1>2, <1>3 DEF Streaming, Kept
    <3>2. got'[t] = got[t] /\ queue'[t] = queue[t] /\ dropped'[t] = dropped[t] /\ arrived'[t] = arrived[t]
      BY <1>8, <2>2
    <3> QED
      BY <1>1, <3>1, <3>2 DEF Streaming, Kept
  <2> QED
    BY <2>1, <2>2
<1>10. arrived' \in [Streams -> Seq(Nat)]
  <2>1. Append(arrived[s], p) \in Seq(Nat)
    BY <1>3 DEF StreamsOK
  <2> QED
    BY <1>1, <1>4, <2>1 DEF StreamsOK
<1> QED
  BY <1>1, <1>3, <1>4, <1>9, <1>10 DEF OrderInv

LEMMA BusStep == IInv /\ StreamsOK /\ OrderInv /\ [Next]_vars => StreamsOK' /\ OrderInv'
<1> SUFFICES ASSUME IInv, StreamsOK, OrderInv, [Next]_vars PROVE StreamsOK' /\ OrderInv'
  OBVIOUS
<1>0. /\ EmissionsFit(emissions, emitted) /\ \A s \in Streams : Streaming(s)
      /\ listeners \in SUBSET Listeners
      /\ HighWater \in Nat /\ HighWater >= 1
  BY EventBusAssumption DEF OrderInv, IInv, ListenersOK
\* Emissions go on, the streams do not move.
<1>1. ASSUME NEW n, EmissionsFit(emissions', n), emitted' = n, UNCHANGED <<arrived, dropped>>,
             \A s \in Streams : Kept(s)' = Kept(s),
             \A s, a, k, d : StreamFits(s, emissions, emitted, a, k, d) => StreamFits(s, emissions', n, a, k, d)
      PROVE  OrderInv'
  <2>1. ASSUME NEW s \in Streams PROVE StreamFits(s, emissions', emitted', arrived'[s], Kept(s)', dropped'[s])
    BY <1>0, <1>1 DEF Streaming
  <2> QED
    BY <1>1, <2>1 DEF OrderInv, Streaming
<1>2. CASE Emit
  <2>1. /\ emitted' = emitted + 1 /\ UNCHANGED streamVars /\ heard' = <<>>
        /\ emissions' = <<[payload |-> emitted + 1, left |-> listeners, inCallback |-> FALSE]>> \o emissions
    BY <1>2 DEF Emit
  <2>2. /\ EmissionsFit(emissions', emitted + 1)
        /\ \A s, a, k, d : StreamFits(s, emissions, emitted, a, k, d) => StreamFits(s, emissions', emitted + 1, a, k, d)
    BY <1>0, <2>1, EmissionBegins
  <2>3. OrderInv'
    BY <1>1, <2>1, <2>2 DEF Kept, streamVars
  <2> QED
    BY <2>1, <2>3 DEF StreamsOK, streamVars
<1>3. CASE Returns
  <2>1. /\ emissions # <<>> /\ emissions' = Tail(emissions) /\ emitted' = emitted /\ UNCHANGED streamVars
        /\ heard' = <<>>
    BY <1>3 DEF Returns
  <2>2. /\ EmissionsFit(emissions', emitted)
        /\ \A s, a, k, d : StreamFits(s, emissions, emitted, a, k, d) => StreamFits(s, emissions', emitted, a, k, d)
    BY <1>0, <2>1, EmissionReturns
  <2>3. OrderInv'
    BY <1>1, <2>1, <2>2 DEF Kept, streamVars
  <2> QED
    BY <2>1, <2>3 DEF StreamsOK, streamVars
<1>4. ASSUME NEW l, CallsListener(l), emitted' = emitted, UNCHANGED <<queue, arrived, got, dropped, told>>,
             heard' \in (Callbacks \X BOOLEAN) \cup {<<>>}
      PROVE  StreamsOK' /\ OrderInv'
  <2>1. emissions # <<>> /\ emissions' = Calling(emissions, l)
    BY <1>4 DEF CallsListener, Calling
  <2>2. /\ EmissionsFit(emissions', emitted)
        /\ \A s, a, k, d : StreamFits(s, emissions, emitted, a, k, d) => StreamFits(s, emissions', emitted, a, k, d)
    BY <1>0, <2>1, EmissionCalls
  <2>3. OrderInv'
    BY <1>1, <1>4, <2>2 DEF Kept
  <2> QED
    BY <1>4, <2>3 DEF StreamsOK
<1>5. ASSUME NEW c \in Callbacks, CallCallback(c) PROVE StreamsOK' /\ OrderInv'
  <2>1. CallsListener(c) /\ emitted' = emitted /\ UNCHANGED <<queue, arrived, got, dropped, told>> /\ heard' = <<c, c \in listeners>>
    BY <1>5 DEF CallCallback, streamVars
  <2>2. (c \in listeners) \in BOOLEAN
    OBVIOUS
  <2>3. heard' \in (Callbacks \X BOOLEAN)
    BY <2>1, <2>2, Zenon
  <2> QED
    BY <1>4, <2>1, <2>3
<1>6. ASSUME NEW o \in Onces, CallOnce(o) PROVE StreamsOK' /\ OrderInv'
  BY <1>4, <1>6 DEF CallOnce, streamVars
<1>7. ASSUME NEW s \in Streams, PushToClosed(s) PROVE StreamsOK' /\ OrderInv'
  BY <1>4, <1>7 DEF PushToClosed, Pushes
<1>8. ASSUME NEW s \in Streams PROVE /\ got[s] \in Seq(Nat) /\ queue[s] \in Seq(Nat) /\ Len(queue[s]) <= HighWater
                                     /\ dropped[s] \in SUBSET Nat /\ InOrder(arrived[s], got[s] \o queue[s], dropped[s])
  BY <1>0, <1>8 DEF StreamsOK, Streaming, StreamFits, Kept
<1>9. ASSUME NEW s \in Streams, PushToParked(s) PROVE StreamsOK' /\ OrderInv'
  <2>1. /\ Pushes(s) /\ stream[s] = "open" /\ got' = [got EXCEPT ![s] = Append(got[s], Payload)]
        /\ UNCHANGED <<queue, dropped, told>> /\ heard' = <<>> /\ queue[s] = <<>>
    BY <1>9 DEF PushToParked, Pushes, StreamsOK, IInv, WaitersAreReachable
  <2>2. got'[s] = Append(got[s], Payload) /\ \A t \in Streams \ {s} : got'[t] = got[t]
    BY <2>1 DEF StreamsOK
  <2>3. ASSUME NEW p \in Nat, p = Payload, ~Arrived(arrived[s], p)
        PROVE  InOrder(Append(arrived[s], p), got'[s] \o queue'[s], dropped'[s])
    <3>1. got'[s] \o queue'[s] = Append(got[s] \o queue[s], p)
      BY <1>8, <2>1, <2>2, <2>3, AppendToGot
    <3> QED
      BY <1>8, <2>1, <2>3, <3>1, ItemIsKept
  <2>4. OrderInv' /\ arrived' \in [Streams -> Seq(Nat)] /\ Payload \in Nat
    BY <2>1, <2>2, <2>3, StreamAccepts
  <2>5. Append(got[s], Payload) \in Seq(Nat)
    BY <1>8, <2>4
  <2> QED
    BY <2>1, <2>4, <2>5 DEF StreamsOK
<1>10. ASSUME NEW s \in Streams, PushToQueue(s) PROVE StreamsOK' /\ OrderInv'
  <2>1. /\ Pushes(s) /\ stream[s] = "open" /\ queue' = [queue EXCEPT ![s] = Append(queue[s], Payload)]
        /\ UNCHANGED <<got, dropped, told>> /\ heard' = <<>> /\ Len(queue[s]) < HighWater
    BY <1>10 DEF PushToQueue, Pushes, StreamsOK
  <2>2. queue'[s] = Append(queue[s], Payload) /\ \A t \in Streams \ {s} : queue'[t] = queue[t]
    BY <2>1 DEF StreamsOK
  <2>3. ASSUME NEW p \in Nat, p = Payload, ~Arrived(arrived[s], p)
        PROVE  InOrder(Append(arrived[s], p), got'[s] \o queue'[s], dropped'[s])
    <3>1. got'[s] \o queue'[s] = Append(got[s] \o queue[s], p)
      <4>1. got[s] \o Append(queue[s], p) = Append(got[s] \o queue[s], p)
        BY <1>8, AppendToQueue
      <4> QED
        BY <2>1, <2>2, <2>3, <4>1, Zenon
    <3> QED
      BY <1>8, <2>1, <2>3, <3>1, ItemIsKept
  <2>4. OrderInv' /\ arrived' \in [Streams -> Seq(Nat)] /\ Payload \in Nat
    BY <2>1, <2>2, <2>3, StreamAccepts
  <2>5. Append(queue[s], Payload) \in Seq(Nat) /\ Len(Append(queue[s], Payload)) <= HighWater
    BY <1>0, <1>8, <2>1, <2>4
  <2>6. queue' \in [Streams -> Seq(Nat)] /\ \A t \in Streams : Len(queue'[t]) <= HighWater
    BY <2>1, <2>2, <2>5 DEF StreamsOK
  <2> QED
    BY <2>1, <2>4, <2>6 DEF StreamsOK
<1>11. ASSUME NEW s \in Streams, PushToFull(s) PROVE StreamsOK' /\ OrderInv'
  <2>1. /\ Pushes(s) /\ stream[s] = "open" /\ UNCHANGED <<got, told>> /\ heard' = <<>>
        /\ queue[s] # <<>> /\ policy[s] \in Policies
    <3>1. Len(queue[s]) >= HighWater /\ Len(queue[s]) # 0
      BY <1>0, <1>8, <1>11 DEF PushToFull
    <3> QED
      BY <1>8, <1>11, <3>1 DEF PushToFull, Pushes, IInv, ListenersOK
  <2>2. CASE policy[s] = "dropOldest"
    <3>1. /\ queue' = [queue EXCEPT ![s] = Append(Tail(queue[s]), Payload)]
          /\ dropped' = [dropped EXCEPT ![s] = dropped[s] \cup {Head(queue[s])}]
      BY <1>11, <2>2 DEF PushToFull, StreamsOK
    <3>2. /\ queue'[s] = Append(Tail(queue[s]), Payload) /\ dropped'[s] = dropped[s] \cup {Head(queue[s])}
          /\ \A t \in Streams \ {s} : queue'[t] = queue[t] /\ dropped'[t] = dropped[t]
      BY <3>1 DEF StreamsOK
    <3>3. /\ Tail(queue[s]) \in Seq(Nat) /\ Len(Tail(queue[s])) = Len(queue[s]) - 1 /\ Head(queue[s]) \in Nat
          /\ Len(queue[s]) \in Nat
      BY <1>8, <2>1, HeadTailProperties
    <3>4. ASSUME NEW p \in Nat, p = Payload, ~Arrived(arrived[s], p)
          PROVE  InOrder(Append(arrived[s], p), got'[s] \o queue'[s], dropped'[s])
      <4>1. InOrder(arrived[s], got[s] \o Tail(queue[s]), dropped'[s])
        <5>1. InOrder(arrived[s], got[s] \o Tail(queue[s]), dropped[s] \cup {Head(queue[s])})
          BY <1>8, <2>1, OldestIsDropped
        <5> QED
          BY <3>2, <5>1
      <4>2. got'[s] \o queue'[s] = Append(got[s] \o Tail(queue[s]), p)
        <5>1. got[s] \o Append(Tail(queue[s]), p) = Append(got[s] \o Tail(queue[s]), p)
          BY <1>8, <3>3, AppendToQueue
        <5> QED
          BY <2>1, <3>2, <3>4, <5>1, Zenon
      <4> QED
        BY <3>4, <4>1, <4>2, ItemIsKept
    <3>5. OrderInv' /\ arrived' \in [Streams -> Seq(Nat)] /\ Payload \in Nat
      BY <2>1, <3>2, <3>4, StreamAccepts
    <3>6. Append(Tail(queue[s]), Payload) \in Seq(Nat) /\ Len(Append(Tail(queue[s]), Payload)) <= HighWater
      BY <1>0, <1>8, <3>3, <3>5
    <3>7. queue' \in [Streams -> Seq(Nat)] /\ \A t \in Streams : Len(queue'[t]) <= HighWater
      BY <3>1, <3>2, <3>6 DEF StreamsOK
    <3>8. dropped' \in [Streams -> SUBSET Nat]
      BY <3>1, <3>3 DEF StreamsOK
    <3> QED
      BY <2>1, <3>5, <3>7, <3>8 DEF StreamsOK
  <2>3. CASE policy[s] \in {"dropNewest", "throw"}
    <3>1. queue' = queue /\ dropped' = [dropped EXCEPT ![s] = dropped[s] \cup {Payload}]
      BY <1>11, <2>3 DEF PushToFull, StreamsOK
    <3>2. dropped'[s] = dropped[s] \cup {Payload} /\ \A t \in Streams \ {s} : dropped'[t] = dropped[t]
      BY <3>1 DEF StreamsOK
    <3>3. ASSUME NEW p \in Nat, p = Payload, ~Arrived(arrived[s], p)
          PROVE  InOrder(Append(arrived[s], p), got'[s] \o queue'[s], dropped'[s])
      <4>1. InOrder(Append(arrived[s], p), got[s] \o queue[s], dropped[s] \cup {p})
        BY <1>8, <3>3, ItemIsDropped
      <4> QED
        BY <2>1, <3>1, <3>2, <3>3, <4>1, Zenon
    <3>4. OrderInv' /\ arrived' \in [Streams -> Seq(Nat)] /\ Payload \in Nat
      BY <2>1, <3>1, <3>2, <3>3, StreamAccepts
    <3>5. dropped' \in [Streams -> SUBSET Nat]
      BY <3>1, <3>4 DEF StreamsOK
    <3> QED
      BY <2>1, <3>1, <3>4, <3>5 DEF StreamsOK
  <2> QED
    BY <2>1, <2>2, <2>3 DEF Policies
\* The emissions rest.
<1>12. ASSUME UNCHANGED <<emissions, emitted, arrived, dropped>>, \A s \in Streams : Kept(s)' = Kept(s) PROVE OrderInv'
  BY <1>0, <1>1, <1>12
<1>13. ASSUME UNCHANGED <<emissions, emitted, queue, arrived, got, dropped>>, told' \in [Streams -> BOOLEAN],
              heard' \in (Callbacks \X BOOLEAN) \cup {<<>>}
       PROVE  StreamsOK' /\ OrderInv'
  BY <1>12, <1>13 DEF StreamsOK, Kept
<1>14. ASSUME NEW s \in Streams, NextItem(s) PROVE StreamsOK' /\ OrderInv'
  <2>1. UNCHANGED <<emissions, emitted, arrived, dropped>> /\ heard' = <<>>
    BY <1>14 DEF NextItem
  <2>2. CASE queue[s] # <<>>
    <3>1. /\ queue' = [queue EXCEPT ![s] = Tail(queue[s])] /\ told' = told
          /\ got' = [got EXCEPT ![s] = Append(got[s], Head(queue[s]))]
      BY <1>14, <2>2 DEF NextItem, StreamsOK
    <3>2. /\ Tail(queue[s]) \in Seq(Nat) /\ Len(Tail(queue[s])) = Len(queue[s]) - 1 /\ Head(queue[s]) \in Nat
          /\ Len(queue[s]) \in Nat
      BY <1>8, <2>2, HeadTailProperties
    <3>3. Append(got[s], Head(queue[s])) \in Seq(Nat) /\ Len(Tail(queue[s])) <= HighWater
      BY <1>0, <1>8, <3>2
    <3>4. /\ queue'[s] = Tail(queue[s]) /\ got'[s] = Append(got[s], Head(queue[s]))
          /\ \A t \in Streams \ {s} : queue'[t] = queue[t] /\ got'[t] = got[t]
      BY <3>1 DEF StreamsOK
    <3>5. got'[s] \o queue'[s] = got[s] \o queue[s]
      BY <1>8, <2>2, <3>4, KeptIsKept
    <3>6. OrderInv'
      BY <1>12, <2>1, <3>4, <3>5 DEF Kept
    <3>7. queue' \in [Streams -> Seq(Nat)] /\ \A t \in Streams : Len(queue'[t]) <= HighWater
      BY <3>1, <3>2, <3>3, <3>4 DEF StreamsOK
    <3>8. got' \in [Streams -> Seq(Nat)]
      BY <3>1, <3>3 DEF StreamsOK
    <3> QED
      BY <2>1, <3>1, <3>6, <3>7, <3>8 DEF StreamsOK
  <2>3. CASE queue[s] = <<>>
    <3>1. UNCHANGED <<queue, got>> /\ (told' = told \/ told' = [told EXCEPT ![s] = TRUE])
      BY <1>14, <2>3 DEF NextItem
    <3>2. told' \in [Streams -> BOOLEAN]
      BY <3>1 DEF StreamsOK
    <3> QED
      BY <1>13, <2>1, <3>1, <3>2
  <2> QED
    BY <2>2, <2>3
<1>15. ASSUME NEW S, NEW how, Ends(S, how), UNCHANGED <<emissions, emitted>>, heard' = <<>> PROVE StreamsOK' /\ OrderInv'
  <2>1. UNCHANGED <<queue, arrived, got, dropped>> /\ told' = [s \in Streams |-> told[s] \/ (s \in S /\ parked[s])]
    BY <1>15 DEF Ends
  <2>2. told' \in [Streams -> BOOLEAN]
    BY <2>1 DEF StreamsOK
  <2> QED
    BY <1>13, <1>15, <2>1, <2>2
<1>16. ASSUME NEW s \in Streams, AbortStream(s) PROVE StreamsOK' /\ OrderInv'
  BY <1>15, <1>16 DEF AbortStream
<1>17. CASE Dispose
  BY <1>15, <1>17 DEF Dispose
<1>18. ASSUME NEW s \in Streams, Return(s) PROVE StreamsOK' /\ OrderInv'
  <2>1. /\ UNCHANGED <<emissions, emitted, queue, arrived, got, dropped>> /\ told' = [told EXCEPT ![s] = TRUE]
        /\ heard' = <<>>
    BY <1>18 DEF Return
  <2>2. told' \in [Streams -> BOOLEAN]
    BY <2>1 DEF StreamsOK
  <2> QED
    BY <1>13, <2>1, <2>2
<1>19. ASSUME UNCHANGED <<emissions, emitted, queue, arrived, got, dropped, told>>, heard' = <<>> \/ heard' = heard
       PROVE  StreamsOK' /\ OrderInv'
  BY <1>13, <1>19 DEF StreamsOK
<1>20. ASSUME NEW c \in Callbacks, On(c) \/ Off(c) PROVE StreamsOK' /\ OrderInv'
  BY <1>19, <1>20 DEF On, Off, streamVars
<1>21. ASSUME NEW o \in Onces, Once(o) \/ AbortOnce(o) PROVE StreamsOK' /\ OrderInv'
  BY <1>19, <1>21 DEF Once, AbortOnce, streamVars
<1>22. ASSUME NEW s \in Streams, NEW p \in Policies, OpenStream(s, p) PROVE StreamsOK' /\ OrderInv'
  BY <1>19, <1>22 DEF OpenStream
<1>23. CASE UNCHANGED vars
  BY <1>19, <1>23 DEF vars, streamVars
<1> QED
  BY <1>2, <1>3, <1>5, <1>6, <1>7, <1>9, <1>10, <1>11, <1>14, <1>16, <1>17, <1>18, <1>20, <1>21, <1>22, <1>23 DEF Next

-----------------------------------------------------------------------------
(* Commands: commandAndAwait(). *)

AwaitStages == {"none", "reading", "judging", "resolved", "failed", "rejected"}
AwaitRecord ==
  [stage : AwaitStages, entity : Command!Discoverable \cup {"unknown"}, since : Nat, event : Nat, aborted : BOOLEAN]

\* The events a call waits for: of its entity, and since it was made.
Mine(a, ev) == {m \in a.since + 1..Len(ev) : ev[m] = a.entity}

Queued(u, m) == \E i \in 1..Len(u) : u[i] = m

\* An event that came after the call's stream had ended.
CameTooLate(a, u, m) ==
  a.aborted /\ (\A i \in 1..Len(u) : u[i] < m) /\ (a.stage = "judging" => a.event < m)

\* Of a call a with the queue u and the refused events r.
CallShape(a, u, r, ev) ==
  /\ a \in AwaitRecord /\ u \in Seq(Nat) /\ r \subseteq 1..Len(ev) /\ a.since <= Len(ev)
  /\ a.stage = "none" => r = {}
  /\ a.stage \notin Command!Pending => u = <<>>

\* What was refused came before what is being judged, and that before what is queued.
CallInOrder(a, u, r, ev) ==
  /\ \A i, j \in 1..Len(u) : i < j => u[i] < u[j]
  /\ \A i \in 1..Len(u) : u[i] \in a.since + 1..Len(ev)
  /\ a.stage = "judging" =>
       a.event \in Mine(a, ev) /\ (\A i \in 1..Len(u) : a.event < u[i]) /\ \A m \in r : m < a.event
  /\ a.stage \in Command!Pending => \A m \in r : \A i \in 1..Len(u) : m < u[i]

CallMissesNothing(a, u, r, d, ev) ==
  a.stage \in Command!Pending =>
    \A m \in Mine(a, ev) : m \in r \cup d \/ Queued(u, m) \/ (a.stage = "judging" /\ m = a.event) \/ CameTooLate(a, u, m)

CallIsAnswered(a, r, d, ev) ==
  a.stage = "resolved" => a.event \in Mine(a, ev) \ r /\ \A m \in Mine(a, ev) : m < a.event => m \in r \cup d

CallInv(a, u, r, d, ev) ==
  CallShape(a, u, r, ev) /\ CallInOrder(a, u, r, ev) /\ CallMissesNothing(a, u, r, d, ev) /\ CallIsAnswered(a, r, d, ev)

\* An event is published: it goes to the calls that listen and wait for its type.
LEMMA EventArrives ==
  ASSUME NEW a, NEW u, NEW r, NEW d, NEW ev \in Seq(Command!Discoverable), CallInv(a, u, r, d, ev),
         NEW e \in Command!Discoverable, NEW evp, evp = Append(ev, e), NEW up,
         \/ a.stage \in Command!Pending /\ ~a.aborted /\ up = Append(u, Len(evp))
         \/ ~(a.stage \in Command!Pending /\ ~a.aborted) /\ up = u
         \/ e # a.entity /\ up = u
  PROVE  CallInv(a, up, r, d, evp)
<1>1. /\ a \in AwaitRecord /\ u \in Seq(Nat) /\ r \subseteq 1..Len(ev) /\ a.since <= Len(ev) /\ Len(ev) \in Nat
      /\ a.since \in Nat /\ a.event \in Nat /\ Len(u) \in Nat
  BY DEF CallInv, CallShape, AwaitRecord
<1>2. /\ Len(evp) = Len(ev) + 1 /\ evp[Len(ev) + 1] = e /\ \A i \in 1..Len(ev) : evp[i] = ev[i]
      /\ Len(evp) \in Nat
  BY <1>1
<1>3. Mine(a, ev) \subseteq Mine(a, evp) /\ \A m \in Mine(a, evp) : m \in Mine(a, ev) \/ (m = Len(ev) + 1 /\ e = a.entity)
  BY <1>1, <1>2 DEF Mine
<1>4. \A m \in Mine(a, ev) : m \in Nat /\ m <= Len(ev)
  BY <1>1 DEF Mine
<1>5. CallIsAnswered(a, r, d, evp)
  BY <1>1, <1>3, <1>4 DEF CallInv, CallIsAnswered
<1>6. CASE a.stage \in Command!Pending /\ ~a.aborted /\ up = Append(u, Len(evp))
  <2>1. /\ up \in Seq(Nat) /\ Len(up) = Len(u) + 1 /\ up[Len(u) + 1] = Len(ev) + 1
        /\ \A i \in 1..Len(u) : up[i] = u[i] /\ u[i] \in Nat
    BY <1>1, <1>2, <1>6
  <2>2. \A i \in 1..Len(up) : i \in 1..Len(u) \/ i = Len(u) + 1
    BY <1>1, <2>1
  <2>3. \A i \in 1..Len(u) : u[i] \in a.since + 1..Len(ev)
    BY DEF CallInv, CallInOrder
  <2>4. CallShape(a, up, r, evp)
    <3>1. r \subseteq 1..Len(evp)
      BY <1>1, <1>2
    <3> QED
      BY <1>1, <1>2, <1>6, <2>1, <3>1 DEF CallInv, CallShape, Command!Pending
  <2>5. CallInOrder(a, up, r, evp)
    <3>1. ASSUME NEW i \in 1..Len(up), NEW j \in 1..Len(up), i < j PROVE up[i] < up[j]
      <4>1. i \in 1..Len(u) /\ up[i] = u[i] /\ up[i] <= Len(ev)
        <5>1. Len(u) \in Nat /\ Len(ev) \in Nat /\ Len(up) = Len(u) + 1
          BY <1>1, <2>1
        <5>2. i \in 1..Len(u)
          BY ONLY <3>1, <5>1
        <5>3. u[i] \in Nat /\ u[i] <= Len(ev)
          <6>1. u[i] \in a.since + 1..Len(ev) /\ a.since \in Nat
            BY <1>1, <2>3, <5>2
          <6> QED
            BY ONLY <5>1, <6>1
        <5> QED
          BY <2>1, <5>2, <5>3
      <4>2. CASE j \in 1..Len(u)
        BY <2>1, <3>1, <4>1, <4>2 DEF CallInv, CallInOrder
      <4>3. CASE j = Len(u) + 1
        BY <1>1, <2>1, <4>1, <4>3
      <4> QED
        BY <2>2, <4>2, <4>3
    <3>2. \A i \in 1..Len(up) : up[i] \in a.since + 1..Len(evp)
      <4>1. ASSUME NEW i \in 1..Len(u) PROVE up[i] \in a.since + 1..Len(evp)
        <5>1. up[i] = u[i] /\ u[i] \in a.since + 1..Len(ev)
          BY <2>1, <2>3
        <5> QED
          BY <1>1, <1>2, <5>1
      <4>2. up[Len(u) + 1] \in a.since + 1..Len(evp)
        BY <1>1, <1>2, <2>1
      <4> QED
        BY <2>2, <4>1, <4>2
    <3>3. \A m \in Nat : m <= Len(ev) /\ (\A i \in 1..Len(u) : m < u[i]) => \A i \in 1..Len(up) : m < up[i]
      <4> SUFFICES ASSUME NEW m \in Nat, m <= Len(ev), \A i \in 1..Len(u) : m < u[i], NEW i \in 1..Len(up)
                   PROVE  m < up[i]
        OBVIOUS
      <4>1. CASE i \in 1..Len(u)
        BY <2>1, <4>1
      <4>2. CASE i = Len(u) + 1
        BY <1>1, <2>1, <4>2
      <4> QED
        BY <2>2, <4>1, <4>2
    <3>4. a.stage = "judging" => a.event \in Mine(a, evp) /\ (\A i \in 1..Len(up) : a.event < up[i]) /\ \A m \in r : m < a.event
      BY <1>3, <1>4, <3>3 DEF CallInv, CallInOrder
    <3>5. \A m \in r : m \in Nat /\ m <= Len(ev)
      BY <1>1
    <3>6. \A m \in r : \A i \in 1..Len(up) : m < up[i]
      BY <1>6, <3>3, <3>5 DEF CallInv, CallInOrder
    <3> QED
      BY <3>1, <3>2, <3>4, <3>6 DEF CallInOrder
  <2>6. CallMissesNothing(a, up, r, d, evp)
    <3>1. Queued(up, Len(ev) + 1) /\ \A m : Queued(u, m) => Queued(up, m)
      <4>1. Len(u) + 1 \in 1..Len(up) /\ \A i \in 1..Len(u) : i \in 1..Len(up)
        BY <1>1, <2>1
      <4> QED
        BY <2>1, <4>1 DEF Queued
    <3>2. \A m \in Mine(a, ev) : m \in r \cup d \/ Queued(u, m) \/ (a.stage = "judging" /\ m = a.event)
      BY <1>6 DEF CallInv, CallMissesNothing, CameTooLate
    <3>3. \A m \in Mine(a, evp) : m \in r \cup d \/ Queued(up, m) \/ (a.stage = "judging" /\ m = a.event)
      BY <1>3, <3>1, <3>2
    <3> QED
      BY <3>3 DEF CallMissesNothing
  <2> QED
    BY <1>5, <2>4, <2>5, <2>6 DEF CallInv
<1>7. CASE ~(a.stage \in Command!Pending /\ ~a.aborted) /\ up = u
  <2>1. CallShape(a, up, r, evp) /\ CallInOrder(a, up, r, evp)
    BY <1>1, <1>2, <1>3, <1>7 DEF CallInv, CallShape, CallInOrder
  <2>2. CallMissesNothing(a, up, r, d, evp)
    <3>1. a.stage \in Command!Pending => CameTooLate(a, u, Len(ev) + 1)
      BY <1>1, <1>4, <1>7 DEF CallInv, CallInOrder, CameTooLate
    <3> QED
      BY <1>3, <1>7, <3>1 DEF CallInv, CallMissesNothing
  <2> QED
    BY <1>5, <2>1, <2>2 DEF CallInv
<1>8. CASE e # a.entity /\ up = u
  <2>1. CallShape(a, up, r, evp) /\ CallInOrder(a, up, r, evp)
    BY <1>1, <1>2, <1>3, <1>8 DEF CallInv, CallShape, CallInOrder
  <2>2. CallMissesNothing(a, up, r, d, evp)
    BY <1>3, <1>8 DEF CallInv, CallMissesNothing
  <2> QED
    BY <1>5, <2>1, <2>2 DEF CallInv
<1> QED
  BY <1>6, <1>7, <1>8

\* A full queue drops one of its events: the others keep their order, and none else is missed.
LEMMA EventIsDropped ==
  ASSUME NEW a, NEW u, NEW r, NEW d, NEW ev, Len(ev) \in Nat, CallInv(a, u, r, d, ev), NEW k \in 1..Len(u)
  PROVE  CallInv(a, Command!RemoveAt(u, k), r, d \cup {u[k]}, ev)
<1> DEFINE up == Command!RemoveAt(u, k)
           at(i) == IF i < k THEN i ELSE i + 1
<1>1. u \in Seq(Nat) /\ Len(u) \in Nat /\ Len(u) >= 1 /\ k \in Nat /\ 1 <= k /\ k <= Len(u)
  BY DEF CallInv, CallShape
<1>2. up \in Seq(Nat) /\ Len(up) = Len(u) - 1 /\ \A i \in 1..Len(up) : up[i] = u[at(i)]
  <2>1. /\ SubSeq(u, 1, k - 1) \in Seq(Nat) /\ Len(SubSeq(u, 1, k - 1)) = k - 1
        /\ \A i \in 1..(k - 1) : SubSeq(u, 1, k - 1)[i] = u[i]
    BY <1>1
  <2>2. /\ SubSeq(u, k + 1, Len(u)) \in Seq(Nat) /\ Len(SubSeq(u, k + 1, Len(u))) = Len(u) - k
        /\ \A i \in 1..(Len(u) - k) : SubSeq(u, k + 1, Len(u))[i] = u[k + i]
    BY <1>1
  <2> DEFINE before == SubSeq(u, 1, k - 1)
             after == SubSeq(u, k + 1, Len(u))
  <2>3. /\ up = before \o after /\ Len(before) = k - 1 /\ Len(after) = Len(u) - k
        /\ before \in Seq(Nat) /\ after \in Seq(Nat)
    BY <2>1, <2>2 DEF Command!RemoveAt
  <2> HIDE DEF up, before, after
  <2>4. /\ up \in Seq(Nat) /\ Len(up) = Len(before) + Len(after)
        /\ \A i \in 1..Len(up) : up[i] = IF i <= Len(before) THEN before[i] ELSE after[i - Len(before)]
    BY ONLY <2>3, ConcatProperties
  <2>5. Len(up) = Len(u) - 1
    BY <1>1, <2>3, <2>4
  <2>6. ASSUME NEW i \in 1..Len(up) PROVE up[i] = u[at(i)]
    <3>1. CASE i < k
      <4>1. i \in 1..(k - 1) /\ i <= Len(before)
        BY ONLY <1>1, <2>3, <2>5, <3>1, i \in 1..Len(up)
      <4> QED
        BY <2>1, <2>4, <3>1, <4>1 DEF before
    <3>2. CASE ~(i < k)
      <4>1. i - Len(before) \in 1..(Len(u) - k) /\ ~(i <= Len(before)) /\ k + (i - Len(before)) = i + 1
        BY ONLY <1>1, <2>3, <2>5, <3>2, i \in 1..Len(up)
      <4>2. up[i] = after[i - Len(before)]
        BY <2>4, <4>1
      <4> QED
        BY <2>2, <3>2, <4>1, <4>2 DEF after
    <3> QED
      BY <3>1, <3>2
  <2> QED
    BY <2>4, <2>5, <2>6
<1> HIDE DEF up
<1>3. /\ \A i \in 1..Len(up) : at(i) \in 1..Len(u)
      /\ \A i, j \in 1..Len(up) : i < j => at(i) < at(j)
      /\ \A i \in 1..Len(u) : i = k \/ \E j \in 1..Len(up) : at(j) = i
  <2>1. Len(up) = Len(u) - 1
    BY <1>2
  <2>2. ASSUME NEW i \in 1..Len(u), i # k PROVE \E j \in 1..Len(up) : at(j) = i
    <3>1. CASE i < k
      <4>1. i \in 1..Len(up) /\ at(i) = i
        BY ONLY <1>1, <2>1, <2>2, <3>1
      <4> QED
        BY <4>1
    <3>2. CASE k < i
      <4>1. i - 1 \in 1..Len(up) /\ at(i - 1) = i
        BY ONLY <1>1, <2>1, <2>2, <3>2
      <4> QED
        BY <4>1
    <3> QED
      BY <1>1, <2>2, <3>1, <3>2
  <2>3. /\ \A i \in 1..Len(up) : at(i) \in 1..Len(u)
        /\ \A i, j \in 1..Len(up) : i < j => at(i) < at(j)
    BY ONLY <1>1, <2>1
  <2> QED
    BY <2>2, <2>3
<1>4. \A i \in 1..Len(up) : \E j \in 1..Len(u) : up[i] = u[j]
  BY <1>2, <1>3
<1>5. \A m : Queued(u, m) => m = u[k] \/ Queued(up, m)
  <2> SUFFICES ASSUME NEW m, NEW i \in 1..Len(u), u[i] = m, i # k PROVE Queued(up, m)
    BY DEF Queued
  <2>1. PICK j \in 1..Len(up) : at(j) = i
    BY <1>3
  <2> QED
    BY <1>2, <2>1 DEF Queued
<1>6. CallShape(a, up, r, ev)
  <2>1. a.stage \in Command!Pending
    BY <1>1 DEF CallInv, CallShape
  <2> QED
    BY <1>2, <2>1 DEF CallInv, CallShape, Command!Pending
<1>7. CallInOrder(a, up, r, ev)
  <2>1. \A i, j \in 1..Len(up) : i < j => up[i] < up[j]
    BY <1>2, <1>3 DEF CallInv, CallInOrder
  <2> QED
    BY <1>4, <2>1 DEF CallInv, CallInOrder
<1>8. CallMissesNothing(a, up, r, d \cup {u[k]}, ev)
  <2>1. \A m : CameTooLate(a, u, m) => CameTooLate(a, up, m)
    BY <1>4 DEF CameTooLate
  <2> QED
    BY <1>5, <2>1 DEF CallInv, CallMissesNothing
<1>9. CallIsAnswered(a, r, d \cup {u[k]}, ev)
  BY DEF CallInv, CallIsAnswered
<1> QED
  BY <1>6, <1>7, <1>8, <1>9 DEF CallInv, up

\* The loop takes an event: it is judged if it is of the entity, else it is passed over.
LEMMA EventIsTaken ==
  ASSUME NEW a, NEW u, NEW r, NEW d, NEW ev, Len(ev) \in Nat, CallInv(a, u, r, d, ev),
         a.stage = "reading", u # <<>>, NEW ap,
         ap = IF ev[Head(u)] = a.entity THEN [a EXCEPT !.stage = "judging", !.event = Head(u)] ELSE a
  PROVE  CallInv(ap, Tail(u), r, d, ev)
<1>1. /\ a \in AwaitRecord /\ u \in Seq(Nat) /\ r \subseteq 1..Len(ev) /\ a.since <= Len(ev)
      /\ a.since \in Nat /\ a.event \in Nat /\ Len(u) \in Nat /\ Len(u) >= 1
  BY DEF CallInv, CallShape, AwaitRecord
<1>2. /\ Tail(u) \in Seq(Nat) /\ Len(Tail(u)) = Len(u) - 1 /\ Head(u) = u[1] /\ Head(u) \in Nat
      /\ \A i \in 1..Len(Tail(u)) : Tail(u)[i] = u[i + 1]
  BY <1>1, HeadTailProperties
<1>3. /\ 1 \in 1..Len(u) /\ \A i \in 1..Len(Tail(u)) : i + 1 \in 1..Len(u) /\ 1 < i + 1 /\ i \in Nat
      /\ \A i \in 1..Len(u) : i = 1 \/ (i - 1 \in 1..Len(Tail(u)) /\ (i - 1) + 1 = i)
  <2>1. Len(u) \in Nat /\ Len(u) >= 1 /\ Len(Tail(u)) = Len(u) - 1
    BY <1>1, <1>2
  <2> QED
    BY ONLY <2>1
<1>4. /\ \A i, j \in 1..Len(Tail(u)) : i < j => Tail(u)[i] < Tail(u)[j]
      /\ \A i \in 1..Len(Tail(u)) : Head(u) < Tail(u)[i] /\ Tail(u)[i] \in a.since + 1..Len(ev)
      /\ Head(u) \in a.since + 1..Len(ev)
  <2>1. ASSUME NEW i \in 1..Len(Tail(u)), NEW j \in 1..Len(Tail(u)), i < j PROVE Tail(u)[i] < Tail(u)[j]
    <3>1. i + 1 < j + 1
      BY <1>3, <2>1
    <3> QED
      BY <1>2, <1>3, <3>1 DEF CallInv, CallInOrder
  <2>2. ASSUME NEW i \in 1..Len(Tail(u)) PROVE Head(u) < Tail(u)[i] /\ Tail(u)[i] \in a.since + 1..Len(ev)
    BY <1>2, <1>3 DEF CallInv, CallInOrder
  <2>3. Head(u) \in a.since + 1..Len(ev)
    BY <1>2, <1>3 DEF CallInv, CallInOrder
  <2> QED
    BY <2>1, <2>2, <2>3
<1>5. \A m : Queued(u, m) => m = Head(u) \/ Queued(Tail(u), m)
  <2> SUFFICES ASSUME NEW m, NEW i \in 1..Len(u), u[i] = m, m # Head(u) PROVE Queued(Tail(u), m)
    BY DEF Queued
  <2>1. i - 1 \in 1..Len(Tail(u)) /\ (i - 1) + 1 = i
    BY <1>2, <1>3
  <2>2. Tail(u)[i - 1] = m
    BY <1>2, <2>1
  <2> QED
    BY <2>1, <2>2 DEF Queued
<1>6. \A m \in r : m < Head(u) /\ \A i \in 1..Len(Tail(u)) : m < Tail(u)[i]
  BY <1>2, <1>3 DEF CallInv, CallInOrder, Command!Pending
<1>7. \A m \in Mine(a, ev) : m \in r \cup d \/ m = Head(u) \/ Queued(Tail(u), m) \/ CameTooLate(a, u, m)
  BY <1>5 DEF CallInv, CallMissesNothing, Command!Pending
<1>8. \A m : CameTooLate(a, u, m) => a.aborted /\ Head(u) < m /\ \A i \in 1..Len(Tail(u)) : Tail(u)[i] < m
  BY <1>2, <1>3 DEF CameTooLate
<1>9. CASE ev[Head(u)] = a.entity
  <2>1. /\ ap \in AwaitRecord /\ ap.stage = "judging" /\ ap.event = Head(u) /\ ap.since = a.since
        /\ ap.entity = a.entity /\ ap.aborted = a.aborted
    BY <1>1, <1>2, <1>9 DEF AwaitRecord, AwaitStages
  <2>2. Mine(ap, ev) = Mine(a, ev) /\ Head(u) \in Mine(a, ev)
    BY <1>4, <1>9, <2>1 DEF Mine
  <2>3. CallShape(ap, Tail(u), r, ev)
    BY <1>1, <1>2, <2>1 DEF CallShape, Command!Pending
  <2>4. CallInOrder(ap, Tail(u), r, ev)
    BY <1>4, <1>6, <2>1, <2>2 DEF CallInOrder
  <2>5. CallMissesNothing(ap, Tail(u), r, d, ev)
    BY <1>7, <1>8, <2>1, <2>2 DEF CallMissesNothing, CameTooLate
  <2>6. CallIsAnswered(ap, r, d, ev)
    BY <2>1 DEF CallIsAnswered
  <2> QED
    BY <2>3, <2>4, <2>5, <2>6 DEF CallInv
<1>10. CASE ev[Head(u)] # a.entity
  <2>1. ap = a /\ Head(u) \notin Mine(a, ev)
    BY <1>10 DEF Mine
  <2>2. CallShape(ap, Tail(u), r, ev)
    BY <1>1, <1>2, <2>1 DEF CallInv, CallShape, Command!Pending
  <2>3. CallInOrder(ap, Tail(u), r, ev)
    BY <1>4, <1>6, <2>1 DEF CallInOrder
  <2>4. CallMissesNothing(ap, Tail(u), r, d, ev)
    BY <1>7, <1>8, <2>1 DEF CallMissesNothing, CameTooLate
  <2>5. CallIsAnswered(ap, r, d, ev)
    BY <2>1 DEF CallIsAnswered
  <2> QED
    BY <2>2, <2>3, <2>4, <2>5 DEF CallInv
<1> QED
  BY <1>9, <1>10

\* The predicate refuses it, and the loop goes on; or accepts it, and the call is over.
LEMMA EventIsRefused ==
  ASSUME NEW a, NEW u, NEW r, NEW d, NEW ev, Len(ev) \in Nat, CallInv(a, u, r, d, ev), a.stage = "judging"
  PROVE  CallInv([a EXCEPT !.stage = "reading"], u, r \cup {a.event}, d, ev)
<1> DEFINE ap == [a EXCEPT !.stage = "reading"]
<1>1. /\ ap \in AwaitRecord /\ ap.stage = "reading" /\ ap.event = a.event /\ ap.since = a.since
      /\ ap.entity = a.entity /\ ap.aborted = a.aborted /\ a.event \in Mine(a, ev) /\ Mine(ap, ev) = Mine(a, ev)
  BY DEF CallInv, CallShape, CallInOrder, AwaitRecord, AwaitStages, Mine
<1> HIDE DEF ap
<1>2. a.event \in 1..Len(ev)
  BY <1>1 DEF CallInv, CallShape, AwaitRecord, Mine
<1>3. CallShape(ap, u, r \cup {a.event}, ev)
  BY <1>1, <1>2 DEF CallInv, CallShape, Command!Pending
<1>4. CallInOrder(ap, u, r \cup {a.event}, ev)
  BY <1>1 DEF CallInv, CallInOrder, Command!Pending
<1>5. CallMissesNothing(ap, u, r \cup {a.event}, d, ev)
  BY <1>1 DEF CallInv, CallMissesNothing, CameTooLate, Command!Pending
<1>6. CallIsAnswered(ap, r \cup {a.event}, d, ev)
  BY <1>1 DEF CallIsAnswered
<1> QED
  BY <1>3, <1>4, <1>5, <1>6 DEF CallInv, ap

LEMMA CallSettles ==
  ASSUME NEW a, NEW u, NEW r, NEW d, NEW ev, Len(ev) \in Nat, CallInv(a, u, r, d, ev), a.stage # "none",
         NEW how \in {"resolved", "failed"}, how = "resolved" => a.stage = "judging"
  PROVE  CallInv([a EXCEPT !.stage = how], <<>>, r, d, ev)
<1> DEFINE ap == [a EXCEPT !.stage = how]
<1>1. /\ ap \in AwaitRecord /\ ap.stage = how /\ ap.event = a.event /\ ap.since = a.since
      /\ ap.entity = a.entity /\ ap.aborted = a.aborted /\ Mine(ap, ev) = Mine(a, ev)
  BY DEF CallInv, CallShape, AwaitRecord, AwaitStages, Mine
<1>2. <<>> \in Seq(Nat) /\ Len(<<>>) = 0
  OBVIOUS
<1> HIDE DEF ap
<1>3. CallShape(ap, <<>>, r, ev)
  BY <1>1, <1>2 DEF CallInv, CallShape
<1>4. CallInOrder(ap, <<>>, r, ev) /\ CallMissesNothing(ap, <<>>, r, d, ev)
  BY <1>1, <1>2 DEF CallInOrder, CallMissesNothing, Command!Pending
<1>5. CallIsAnswered(ap, r, d, ev)
  <2> SUFFICES ASSUME a.stage = "judging" PROVE a.event \in Mine(a, ev) \ r /\ \A m \in Mine(a, ev) : m < a.event => m \in r \cup d
    BY <1>1 DEF CallIsAnswered
  <2>1. a.event \in Mine(a, ev) /\ a.event \in Nat /\ a.event \notin r
    BY DEF CallInv, CallShape, CallInOrder, AwaitRecord
  <2>2. ASSUME NEW m \in Mine(a, ev), m < a.event PROVE m \in r \cup d
    <3>1. m \in Nat /\ ~(a.event < m) /\ m # a.event
      BY <2>1, <2>2 DEF Mine, CallInv, CallShape, AwaitRecord
    <3>2. ~Queued(u, m)
      BY <2>1, <3>1 DEF CallInv, CallInOrder, Queued
    <3> QED
      BY <3>1, <3>2 DEF CallInv, CallMissesNothing, CameTooLate, Command!Pending
  <2> QED
    BY <2>1, <2>2
<1> QED
  BY <1>3, <1>4, <1>5 DEF CallInv, ap

LEMMA CallAborts ==
  ASSUME NEW a, NEW u, NEW r, NEW d, NEW ev, CallInv(a, u, r, d, ev)
  PROVE  CallInv([a EXCEPT !.aborted = TRUE], u, r, d, ev)
<1> DEFINE ap == [a EXCEPT !.aborted = TRUE]
<1>1. /\ ap \in AwaitRecord /\ ap.stage = a.stage /\ ap.event = a.event /\ ap.since = a.since
      /\ ap.entity = a.entity /\ ap.aborted /\ Mine(ap, ev) = Mine(a, ev)
  BY DEF CallInv, CallShape, AwaitRecord, AwaitStages, Mine
<1> HIDE DEF ap
<1>2. CallShape(ap, u, r, ev) /\ CallInOrder(ap, u, r, ev) /\ CallIsAnswered(ap, r, d, ev)
  BY <1>1 DEF CallInv, CallShape, CallInOrder, CallIsAnswered
<1>3. CallMissesNothing(ap, u, r, d, ev)
  BY <1>1 DEF CallInv, CallMissesNothing, CameTooLate
<1> QED
  BY <1>2, <1>3 DEF CallInv, ap

CommandsShape ==
  /\ registry \subseteq Command!Discoverable /\ events \in Seq(Command!Discoverable)
  /\ commands \in 0..MaxCommands
  /\ sent.result \in {"none", "ok", "schema_unknown", "command_unsupported", "key_not_found", "enum_value_unknown"}
  /\ await \in [Awaits -> AwaitRecord] /\ unread \in [Awaits -> Seq(Nat)] /\ refused \in [Awaits -> SUBSET Nat]

CallsInv == \A c \in Awaits : CallInv(await[c], unread[c], refused[c], missed[c], events)

LEMMA CommandIsRun ==
  ASSUME CommandsShape, NEW e, NEW options, Command!RunCommand(e, options)
  PROVE  /\ commands' \in 0..MaxCommands
         /\ sent'.result \in {"none", "ok", "schema_unknown", "command_unsupported", "key_not_found", "enum_value_unknown"}
<1>1. commands' \in 0..MaxCommands
  BY BoundsAssumption DEF CommandsShape, Command!RunCommand
<1>2. \A o : Command!EncodeEntityCommand(e, o).result \in
               {"ok", "schema_unknown", "command_unsupported", "key_not_found", "enum_value_unknown"}
  BY DEF Command!EncodeEntityCommand
<1>3. sent'.result = Command!EncodeEntityCommand(e, Command!CommandAdapter(e, options)).result
  BY DEF Command!RunCommand
<1> QED
  BY <1>1, <1>2, <1>3

LEMMA CommandsBegin == Command!Init => CommandsShape /\ CallsInv
<1> SUFFICES ASSUME Command!Init PROVE CommandsShape /\ CallsInv
  OBVIOUS
<1> DEFINE unused == [stage |-> "none", entity |-> "unknown", since |-> 0, event |-> 0, aborted |-> FALSE]
<1>1. unused \in AwaitRecord /\ unused.stage = "none" /\ unused.since = 0 /\ <<>> \in Seq(Nat) /\ Len(<<>>) = 0
  BY DEF AwaitRecord, AwaitStages
<1> HIDE DEF unused
<1>2. \A c \in Awaits : await[c] = unused /\ unread[c] = <<>> /\ refused[c] = {} /\ missed[c] = {} /\ events = <<>>
  BY DEF Command!Init, unused
<1>3. CommandsShape
  <2>1. await \in [Awaits -> AwaitRecord] /\ unread \in [Awaits -> Seq(Nat)] /\ refused \in [Awaits -> SUBSET Nat]
    BY <1>1 DEF Command!Init, unused
  <2>2. sent.result = "none" /\ commands = 0 /\ 0 \in 0..MaxCommands /\ registry = {} /\ events = <<>>
    BY BoundsAssumption DEF Command!Init
  <2> QED
    BY <2>1, <2>2 DEF CommandsShape
<1>4. ASSUME NEW c \in Awaits PROVE CallInv(await[c], unread[c], refused[c], missed[c], events)
  <2>1. {} \subseteq 1..0 /\ 0 <= 0
    OBVIOUS
  <2>2. CallShape(unused, <<>>, {}, <<>>)
    BY <1>1, <2>1 DEF CallShape
  <2>3. /\ CallInOrder(unused, <<>>, {}, <<>>) /\ CallMissesNothing(unused, <<>>, {}, {}, <<>>)
        /\ CallIsAnswered(unused, {}, {}, <<>>)
    BY <1>1 DEF CallInOrder, CallMissesNothing, CallIsAnswered, Command!Pending
  <2> QED
    BY <1>2, <2>2, <2>3 DEF CallInv
<1> QED
  BY <1>3, <1>4 DEF CallsInv

\* One step per action; an action of a call leaves the other calls alone.
LEMMA CommandsStep ==
  CommandsShape /\ CallsInv /\ [Command!Next]_(Command!vars) => CommandsShape' /\ CallsInv'
<1> SUFFICES ASSUME CommandsShape, CallsInv, [Command!Next]_(Command!vars) PROVE CommandsShape' /\ CallsInv'
  OBVIOUS
<1>0. /\ events \in Seq(Command!Discoverable) /\ Len(events) \in Nat
      /\ \A c \in Awaits : /\ await[c] \in AwaitRecord /\ unread[c] \in Seq(Nat) /\ refused[c] \subseteq Nat
                          /\ CallInv(await[c], unread[c], refused[c], missed[c], events)
  BY DEF CommandsShape, CallsInv
<1>1. CASE Command!Discover \/ Command!Reconnect
  BY <1>1 DEF Command!Discover, Command!Reconnect, CommandsShape, CallsInv
<1>2. ASSUME NEW e \in Command!Entities, Command!StateEvent(e) PROVE CommandsShape' /\ CallsInv'
  <2> DEFINE hears == {c \in Command!Listening : Command!TypeOf[await[c].entity] = Command!TypeOf[e]}
             full == {c \in hears : Command!IsFull(c)}
             k(c) == Command!Oldest(c)
  <2>1. /\ e \in Command!Discoverable /\ events' = Append(events, e)
        /\ UNCHANGED <<registry, sent, commands, await, refused>>
        /\ \A c \in Awaits :
             /\ c \in full => /\ unread'[c] = Append(Command!RemoveAt(unread[c], k(c)), Len(events'))
                             /\ missed'[c] = missed[c] \cup {unread[c][k(c)]}
             /\ c \notin full => /\ unread'[c] = IF c \in hears THEN Append(unread[c], Len(events')) ELSE unread[c]
                                /\ missed'[c] = missed[c]
        /\ unread' = [c \in Awaits |-> unread'[c]]
    BY <1>2 DEF Command!StateEvent
  <2>2. ASSUME NEW c \in Awaits PROVE CallInv(await[c], unread'[c], refused[c], missed'[c], events')
    <3> DEFINE a == await[c]
               u == IF c \in full THEN Command!RemoveAt(unread[c], k(c)) ELSE unread[c]
               r == refused[c]
               d == missed'[c]
               up == unread'[c]
               evp == events'
    <3>1. CallInv(a, u, r, d, events)
      <4>1. CASE c \in full
        <5>1. k(c) \in 1..Len(unread[c])
          <6>1. Command!IsFull(c) /\ Len(unread[c]) \in Nat /\ Mark \in Nat /\ Mark >= 1
            BY <1>0, <4>1, BoundsAssumption
          <6> QED
            BY <6>1 DEF Command!IsFull, Command!Oldest, Command!InHand
        <5>2. d = missed[c] \cup {unread[c][k(c)]} /\ u = Command!RemoveAt(unread[c], k(c))
          BY <2>1, <4>1
        <5> QED
          BY <1>0, <5>1, <5>2, EventIsDropped
      <4>2. CASE c \notin full
        BY <1>0, <2>1, <4>2
      <4> QED
        BY <4>1, <4>2
    <3>2. /\ CallInv(a, u, r, d, events) /\ evp = Append(events, e)
          /\ events \in Seq(Command!Discoverable) /\ e \in Command!Discoverable
          /\ \/ a.stage \in Command!Pending /\ ~a.aborted /\ up = Append(u, Len(evp))
             \/ ~(a.stage \in Command!Pending /\ ~a.aborted) /\ up = u
             \/ e # a.entity /\ up = u
      BY <1>0, <2>1, <3>1 DEF Command!Listening
    <3> HIDE DEF a, u, r, d, up, evp
    <3>3. CallInv(a, up, r, d, evp)
      BY ONLY <3>2, EventArrives
    <3> QED
      BY <3>3 DEF a, up, r, d, evp
  <2>3. events' \in Seq(Command!Discoverable) /\ unread' \in [Awaits -> Seq(Nat)]
    <3>1. events' \in Seq(Command!Discoverable)
      BY <1>0, <2>1
    <3>2. \A c \in Awaits : unread'[c] \in Seq(Nat)
      BY <2>2 DEF CallInv, CallShape
    <3> QED
      BY <2>1, <3>1, <3>2
  <2> QED
    BY <2>1, <2>2, <2>3 DEF CommandsShape, CallsInv
<1>3. ASSUME NEW e, NEW options, Command!Command(e, options) PROVE CommandsShape' /\ CallsInv'
  <2>1. Command!RunCommand(e, options) /\ UNCHANGED <<registry, await, unread, events, refused, missed>>
    BY <1>3 DEF Command!Command
  <2> QED
    BY <2>1, CommandIsRun DEF CommandsShape, CallsInv
<1>4. ASSUME NEW c \in Awaits, NEW e, NEW options, Command!CommandAndAwait(c, e, options)
      PROVE  CommandsShape' /\ CallsInv'
  <2>1. await[c].stage = "none" /\ UNCHANGED <<registry, unread, events, refused, missed>>
    BY <1>4 DEF Command!CommandAndAwait
  <2>2. /\ unread[c] = <<>> /\ refused[c] = {} /\ await[c] \in AwaitRecord
        /\ CallInv(await[c], unread[c], refused[c], missed[c], events)
    BY <1>0, <2>1 DEF CallInv, CallShape, Command!Pending
  <2>3. CASE e \notin registry
    <3>1. await' = [await EXCEPT ![c].stage = "rejected"] /\ UNCHANGED <<sent, commands>>
      BY <1>4, <2>3 DEF Command!CommandAndAwait
    <3>2. /\ await'[c] \in AwaitRecord /\ await'[c].stage = "rejected" /\ await'[c].since = await[c].since
          /\ await' \in [Awaits -> AwaitRecord]
      BY <3>1, <2>2 DEF CommandsShape, AwaitRecord, AwaitStages
    <3>3. CallInv(await'[c], unread'[c], refused'[c], missed'[c], events')
      BY <2>1, <2>2, <3>2 DEF CallInv, CallShape, CallInOrder, CallMissesNothing, CallIsAnswered, Command!Pending
    <3>4. \A d \in Awaits : d # c => await'[d] = await[d]
      BY <3>1 DEF CommandsShape
    <3> QED
      BY <2>1, <3>1, <3>2, <3>3, <3>4 DEF CommandsShape, CallsInv
  <2>4. CASE e \in registry
    <3>1. /\ await' = [await EXCEPT ![c] = [@ EXCEPT !.stage = "reading", !.entity = e, !.since = Len(events)]]
          /\ Command!RunCommand(e, options)
      BY <1>4, <2>4 DEF Command!CommandAndAwait
    <3>2. /\ await'[c] \in AwaitRecord /\ await'[c].stage = "reading" /\ await'[c].since = Len(events)
          /\ await' \in [Awaits -> AwaitRecord]
      BY <1>0, <2>2, <2>4, <3>1 DEF CommandsShape, AwaitRecord, AwaitStages
    <3>3. Mine(await'[c], events) = {}
      BY <1>0, <3>2 DEF Mine
    <3>4. CallInv(await'[c], unread'[c], refused'[c], missed'[c], events')
      <4>1. Len(unread'[c]) = 0 /\ unread'[c] \in Seq(Nat) /\ refused'[c] = {} /\ events' = events
        BY <2>1, <2>2
      <4> QED
        BY <1>0, <3>2, <3>3, <4>1
           DEF CallInv, CallShape, CallInOrder, CallMissesNothing, CallIsAnswered, Command!Pending
    <3>5. \A d \in Awaits : d # c => await'[d] = await[d]
      BY <3>1 DEF CommandsShape
    <3> QED
      BY <2>1, <3>1, <3>2, <3>4, <3>5, CommandIsRun DEF CommandsShape, CallsInv
  <2> QED
    BY <2>3, <2>4
<1>5. ASSUME NEW c \in Awaits, UNCHANGED <<registry, sent, commands, events, missed>>,
             NEW a \in AwaitRecord, NEW u \in Seq(Nat), NEW r \in SUBSET Nat, CallInv(a, u, r, missed[c], events),
             await' = [await EXCEPT ![c] = a], unread' = [unread EXCEPT ![c] = u], refused' = [refused EXCEPT ![c] = r]
      PROVE  CommandsShape' /\ CallsInv'
  <2>1. \A d \in Awaits : /\ await'[d] = IF d = c THEN a ELSE await[d]
                          /\ unread'[d] = IF d = c THEN u ELSE unread[d]
                          /\ refused'[d] = IF d = c THEN r ELSE refused[d]
    BY <1>5 DEF CommandsShape
  <2>2. /\ await' \in [Awaits -> AwaitRecord] /\ unread' \in [Awaits -> Seq(Nat)]
        /\ refused' \in [Awaits -> SUBSET Nat]
    BY <1>5 DEF CommandsShape
  <2> QED
    BY <1>0, <1>5, <2>1, <2>2 DEF CommandsShape, CallsInv
<1>6. ASSUME NEW c \in Awaits, Command!TakeEvent(c) PROVE CommandsShape' /\ CallsInv'
  <2> DEFINE u == unread[c]
             a == IF events[Head(u)] = await[c].entity
                  THEN [await[c] EXCEPT !.stage = "judging", !.event = Head(u)] ELSE await[c]
  <2>1. /\ await[c].stage = "reading" /\ u # <<>> /\ unread' = [unread EXCEPT ![c] = Tail(u)]
        /\ UNCHANGED <<registry, sent, commands, events, missed>>
        /\ refused' = [refused EXCEPT ![c] = refused[c]] /\ await' = [await EXCEPT ![c] = a]
    <3>1. await' = [await EXCEPT ![c] = a]
      BY <1>6 DEF Command!TakeEvent, CommandsShape
    <3>2. refused' = [refused EXCEPT ![c] = refused[c]]
      BY <1>6 DEF Command!TakeEvent, CommandsShape
    <3> QED
      BY <1>6, <3>1, <3>2 DEF Command!TakeEvent
  <2>2. CallInv(a, Tail(u), refused[c], missed[c], events)
    BY <1>0, <2>1, EventIsTaken
  <2>3. a \in AwaitRecord /\ Tail(u) \in Seq(Nat) /\ refused[c] \in SUBSET Nat
    BY <1>0, <2>2 DEF CallInv, CallShape
  <2> HIDE DEF a, u
  <2> QED
    BY <1>5, <2>1, <2>2, <2>3
<1>7. ASSUME NEW c \in Awaits, Command!Judged(c) PROVE CommandsShape' /\ CallsInv'
  <2>1. await[c].stage = "judging" /\ UNCHANGED <<registry, sent, commands, events, missed>>
    BY <1>7 DEF Command!Judged, Command!Accept, Command!Refuse, Command!PredicateThrows
  <2>2. CASE Command!Refuse(c)
    <3> DEFINE a == [await[c] EXCEPT !.stage = "reading"]
               r == refused[c] \cup {await[c].event}
    <3>1. /\ await' = [await EXCEPT ![c] = a] /\ refused' = [refused EXCEPT ![c] = r]
          /\ unread' = [unread EXCEPT ![c] = unread[c]]
      BY <2>2 DEF Command!Refuse, CommandsShape
    <3>2. CallInv(a, unread[c], r, missed[c], events)
      BY <1>0, <2>1, EventIsRefused
    <3>3. a \in AwaitRecord /\ r \in SUBSET Nat
      BY <1>0 DEF AwaitRecord, AwaitStages
    <3> HIDE DEF a, r
    <3> QED
      BY <1>0, <1>5, <2>1, <3>1, <3>2, <3>3
  <2>3. ASSUME NEW how \in {"resolved", "failed"}, Command!Settle(c, how), UNCHANGED refused
        PROVE  CommandsShape' /\ CallsInv'
    <3> DEFINE a == [await[c] EXCEPT !.stage = how]
    <3>1. /\ await' = [await EXCEPT ![c] = a] /\ unread' = [unread EXCEPT ![c] = <<>>]
          /\ refused' = [refused EXCEPT ![c] = refused[c]]
      BY <2>3 DEF Command!Settle, CommandsShape
    <3>2. CallInv(a, <<>>, refused[c], missed[c], events)
      BY <1>0, <2>1, CallSettles
    <3>3. a \in AwaitRecord /\ <<>> \in Seq(Nat)
      BY <1>0 DEF AwaitRecord, AwaitStages
    <3> HIDE DEF a
    <3> QED
      BY <1>0, <1>5, <2>1, <3>1, <3>2, <3>3
  <2> QED
    BY <1>7, <2>2, <2>3 DEF Command!Judged, Command!Accept, Command!PredicateThrows
<1>8. ASSUME NEW c \in Awaits, Command!Abort(c) PROVE CommandsShape' /\ CallsInv'
  <2> DEFINE a == [await[c] EXCEPT !.aborted = TRUE]
  <2>1. /\ await' = [await EXCEPT ![c] = a] /\ unread' = [unread EXCEPT ![c] = unread[c]]
        /\ refused' = [refused EXCEPT ![c] = refused[c]] /\ UNCHANGED <<registry, sent, commands, events, missed>>
    BY <1>8 DEF Command!Abort, CommandsShape
  <2>2. CallInv(a, unread[c], refused[c], missed[c], events)
    BY <1>0, CallAborts
  <2>3. a \in AwaitRecord
    BY <1>0 DEF AwaitRecord
  <2> HIDE DEF a
  <2> QED
    BY <1>0, <1>5, <2>1, <2>2, <2>3
<1>9. ASSUME NEW c \in Awaits, Command!EndOfStream(c) PROVE CommandsShape' /\ CallsInv'
  <2> DEFINE a == [await[c] EXCEPT !.stage = "failed"]
  <2>1. /\ await' = [await EXCEPT ![c] = a] /\ unread' = [unread EXCEPT ![c] = <<>>]
        /\ refused' = [refused EXCEPT ![c] = refused[c]] /\ UNCHANGED <<registry, sent, commands, events, missed>>
        /\ await[c].stage = "reading"
    BY <1>9 DEF Command!EndOfStream, Command!Settle, CommandsShape
  <2>2. CallInv(a, <<>>, refused[c], missed[c], events)
    BY <1>0, <2>1, CallSettles
  <2>3. a \in AwaitRecord /\ <<>> \in Seq(Nat)
    BY <1>0 DEF AwaitRecord, AwaitStages
  <2> HIDE DEF a
  <2> QED
    BY <1>0, <1>5, <2>1, <2>2, <2>3
<1>10. CASE UNCHANGED Command!vars
  BY <1>10 DEF Command!vars, CommandsShape, CallsInv
<1> QED
  BY <1>1, <1>2, <1>3, <1>4, <1>6, <1>7, <1>8, <1>9, <1>10 DEF Command!Next

-----------------------------------------------------------------------------
(* The encoder of commands, for any schema: each number of the message     *)
(* belongs to one slot of the schema, and what is written into it says     *)
(* what the caller gave.                                                   *)

\* The numbers of a schema's message, each with what it stands for.
Slots(s) ==
  {[kind |-> "key", name |-> "", number |-> s.keyFieldNumber],
   [kind |-> "device", name |-> "", number |-> s.deviceIdFieldNumber]}
  \cup {[kind |-> "plain", name |-> n, number |-> s.fields[n]] : n \in DOMAIN s.fields}
  \cup {[kind |-> "flag", name |-> n, number |-> s.hasPatternFields[n][1]] : n \in DOMAIN s.hasPatternFields}
  \cup {[kind |-> "value", name |-> n, number |-> s.hasPatternFields[n][2]] : n \in DOMAIN s.hasPatternFields}
  \cup {[kind |-> "masked", name |-> n, number |-> s.bitmaskFields[n][2]] : n \in DOMAIN s.bitmaskFields}
  \cup {[kind |-> "packed", name |-> "", number |-> s.packedField] : n \in DOMAIN s.packedBits}
  \cup {[kind |-> "mask", name |-> "", number |-> s.bitmaskFieldNumber] :
          n \in DOMAIN s.packedBits \cup DOMAIN s.bitmaskFields}

\* No number and no bit is used twice.
IsWellFormed(s) ==
  /\ \A a, b \in Slots(s) : a.number = b.number => a = b
  /\ \A n \in DOMAIN s.bitmaskFields :
       /\ \A m \in DOMAIN s.bitmaskFields : s.bitmaskFields[m][1] = s.bitmaskFields[n][1] => m = n
       /\ \A m \in DOMAIN s.packedBits : s.packedBits[m][2] # s.bitmaskFields[n][1]
  /\ \A m, n \in DOMAIN s.packedBits :
       s.packedBits[m][1] = s.packedBits[n][1] \/ s.packedBits[m][2] = s.packedBits[n][2] => m = n

\* The options have a place in the schema, and what is packed is a bit.
AreOptionsOf(o, s) ==
  /\ o = [n \in DOMAIN o |-> o[n]]
  /\ DOMAIN o \subseteq DOMAIN s.fields \cup DOMAIN s.hasPatternFields \cup DOMAIN s.bitmaskFields \cup DOMAIN s.packedBits
  /\ \A n \in DOMAIN o \cap DOMAIN s.packedBits : o[n] \in {0, 1}

TouchedBits(s, o) == DOMAIN o \cap DOMAIN s.packedBits
SetBits(s, o) == {s.packedBits[n][1] : n \in {m \in TouchedBits(s, o) : o[m] = 1}}
HasBits(s, o) == {s.packedBits[n][2] : n \in TouchedBits(s, o)}
                 \cup {s.bitmaskFields[n][1] : n \in DOMAIN o \cap DOMAIN s.bitmaskFields}

\* Which slots a command fills, and with what.
IsWritten(s, o, d, a) ==
  \/ a.kind = "key"
  \/ a.kind = "device" /\ d # 0
  \/ a.kind \in {"plain", "flag", "value", "masked"} /\ a.name \in DOMAIN o
  \/ a.kind = "packed" /\ TouchedBits(s, o) # {}
  \/ a.kind = "mask" /\ HasBits(s, o) # {}

Content(s, o, k, d, a) ==
  IF a.kind = "key" THEN k
  ELSE IF a.kind = "device" THEN d
  ELSE IF a.kind = "flag" THEN 1
  ELSE IF a.kind = "packed" THEN SetBits(s, o)
  ELSE IF a.kind = "mask" THEN HasBits(s, o)
  ELSE o[a.name]

\* Slots, one kind at a time.
LEMMA SlotKinds ==
  ASSUME NEW s
  PROVE  /\ [kind |-> "key", name |-> "", number |-> s.keyFieldNumber] \in Slots(s)
         /\ [kind |-> "device", name |-> "", number |-> s.deviceIdFieldNumber] \in Slots(s)
         /\ \A n \in DOMAIN s.fields : [kind |-> "plain", name |-> n, number |-> s.fields[n]] \in Slots(s)
         /\ \A n \in DOMAIN s.hasPatternFields :
              /\ [kind |-> "flag", name |-> n, number |-> s.hasPatternFields[n][1]] \in Slots(s)
              /\ [kind |-> "value", name |-> n, number |-> s.hasPatternFields[n][2]] \in Slots(s)
         /\ \A n \in DOMAIN s.bitmaskFields :
              /\ [kind |-> "masked", name |-> n, number |-> s.bitmaskFields[n][2]] \in Slots(s)
              /\ [kind |-> "mask", name |-> "", number |-> s.bitmaskFieldNumber] \in Slots(s)
         /\ \A n \in DOMAIN s.packedBits :
              /\ [kind |-> "packed", name |-> "", number |-> s.packedField] \in Slots(s)
              /\ [kind |-> "mask", name |-> "", number |-> s.bitmaskFieldNumber] \in Slots(s)
         /\ \A a \in Slots(s) :
              \/ a.kind = "key" /\ a.number = s.keyFieldNumber
              \/ a.kind = "device" /\ a.number = s.deviceIdFieldNumber
              \/ a.kind = "plain" /\ a.name \in DOMAIN s.fields /\ a.number = s.fields[a.name]
              \/ a.kind = "flag" /\ a.name \in DOMAIN s.hasPatternFields /\ a.number = s.hasPatternFields[a.name][1]
              \/ a.kind = "value" /\ a.name \in DOMAIN s.hasPatternFields /\ a.number = s.hasPatternFields[a.name][2]
              \/ a.kind = "masked" /\ a.name \in DOMAIN s.bitmaskFields /\ a.number = s.bitmaskFields[a.name][2]
              \/ a.kind = "packed" /\ a.number = s.packedField
              \/ a.kind = "mask" /\ a.number = s.bitmaskFieldNumber
<1>1. /\ [kind |-> "key", name |-> "", number |-> s.keyFieldNumber] \in Slots(s)
      /\ [kind |-> "device", name |-> "", number |-> s.deviceIdFieldNumber] \in Slots(s)
  BY DEF Slots
<1>2. \A n \in DOMAIN s.fields : [kind |-> "plain", name |-> n, number |-> s.fields[n]] \in Slots(s)
  BY DEF Slots
<1>3. ASSUME NEW n \in DOMAIN s.hasPatternFields
      PROVE  /\ [kind |-> "flag", name |-> n, number |-> s.hasPatternFields[n][1]] \in Slots(s)
             /\ [kind |-> "value", name |-> n, number |-> s.hasPatternFields[n][2]] \in Slots(s)
  BY DEF Slots
<1>4. ASSUME NEW n \in DOMAIN s.bitmaskFields
      PROVE  [kind |-> "masked", name |-> n, number |-> s.bitmaskFields[n][2]] \in Slots(s)
  BY DEF Slots
<1>5. ASSUME NEW n \in DOMAIN s.packedBits
      PROVE  [kind |-> "packed", name |-> "", number |-> s.packedField] \in Slots(s)
  BY DEF Slots
<1>6. ASSUME NEW n \in DOMAIN s.packedBits \cup DOMAIN s.bitmaskFields
      PROVE  [kind |-> "mask", name |-> "", number |-> s.bitmaskFieldNumber] \in Slots(s)
  BY DEF Slots
<1>7. ASSUME NEW a \in Slots(s)
      PROVE  \/ a.kind = "key" /\ a.number = s.keyFieldNumber
             \/ a.kind = "device" /\ a.number = s.deviceIdFieldNumber
             \/ a.kind = "plain" /\ a.name \in DOMAIN s.fields /\ a.number = s.fields[a.name]
             \/ a.kind = "flag" /\ a.name \in DOMAIN s.hasPatternFields /\ a.number = s.hasPatternFields[a.name][1]
             \/ a.kind = "value" /\ a.name \in DOMAIN s.hasPatternFields /\ a.number = s.hasPatternFields[a.name][2]
             \/ a.kind = "masked" /\ a.name \in DOMAIN s.bitmaskFields /\ a.number = s.bitmaskFields[a.name][2]
             \/ a.kind = "packed" /\ a.number = s.packedField
             \/ a.kind = "mask" /\ a.number = s.bitmaskFieldNumber
  <2>1. CASE a \in {[kind |-> "key", name |-> "", number |-> s.keyFieldNumber],
                    [kind |-> "device", name |-> "", number |-> s.deviceIdFieldNumber]}
    <3>1. CASE a = [kind |-> "key", name |-> "", number |-> s.keyFieldNumber]
      BY <3>1
    <3>2. CASE a = [kind |-> "device", name |-> "", number |-> s.deviceIdFieldNumber]
      BY <3>2
    <3> QED
      BY <2>1, <3>1, <3>2
  <2>2. CASE a \in {[kind |-> "plain", name |-> n, number |-> s.fields[n]] : n \in DOMAIN s.fields}
    BY <2>2
  <2>3. CASE a \in {[kind |-> "flag", name |-> n, number |-> s.hasPatternFields[n][1]] : n \in DOMAIN s.hasPatternFields}
    BY <2>3
  <2>4. CASE a \in {[kind |-> "value", name |-> n, number |-> s.hasPatternFields[n][2]] : n \in DOMAIN s.hasPatternFields}
    BY <2>4
  <2>5. CASE a \in {[kind |-> "masked", name |-> n, number |-> s.bitmaskFields[n][2]] : n \in DOMAIN s.bitmaskFields}
    BY <2>5
  <2>6. CASE a \in {[kind |-> "packed", name |-> "", number |-> s.packedField] : n \in DOMAIN s.packedBits}
    <3>1. a = [kind |-> "packed", name |-> "", number |-> s.packedField]
      BY <2>6
    <3> QED
      BY <3>1
  <2>7. CASE a \in {[kind |-> "mask", name |-> "", number |-> s.bitmaskFieldNumber] :
                      n \in DOMAIN s.packedBits \cup DOMAIN s.bitmaskFields}
    <3>1. a = [kind |-> "mask", name |-> "", number |-> s.bitmaskFieldNumber]
      BY <2>7
    <3> QED
      BY <3>1
  <2> QED
    BY <2>1, <2>2, <2>3, <2>4, <2>5, <2>6, <2>7 DEF Slots
<1> QED
  BY <1>1, <1>2, <1>3, <1>4, <1>5, <1>6, <1>7

\* What is written is what the filled slots hold.
LEMMA FieldsFillSlots ==
  ASSUME NEW s, NEW o, NEW k, NEW d, NEW f
  PROVE  f \in Command!EncodeFields(s, o, k, d) <=>
           \E a \in Slots(s) : IsWritten(s, o, d, a) /\ f = <<a.number, Content(s, o, k, d, a)>>
<1> DEFINE packed == TouchedBits(s, o)
           masked == DOMAIN o \cap DOMAIN s.bitmaskFields
           Fills == \E a \in Slots(s) : IsWritten(s, o, d, a) /\ f = <<a.number, Content(s, o, k, d, a)>>
\* The fields, one kind at a time.
<1>1. f \in Command!EncodeFields(s, o, k, d) <=>
        \/ f = <<s.keyFieldNumber, k>>
        \/ \E n \in DOMAIN o \cap DOMAIN s.fields : f = <<s.fields[n], o[n]>>
        \/ \E n \in DOMAIN o \cap DOMAIN s.hasPatternFields : f = <<s.hasPatternFields[n][1], 1>>
        \/ \E n \in DOMAIN o \cap DOMAIN s.hasPatternFields : f = <<s.hasPatternFields[n][2], o[n]>>
        \/ \E n \in masked : f = <<s.bitmaskFields[n][2], o[n]>>
        \/ packed # {} /\ f = <<s.packedField, SetBits(s, o)>>
        \/ HasBits(s, o) # {} /\ f = <<s.bitmaskFieldNumber, HasBits(s, o)>>
        \/ d # 0 /\ f = <<s.deviceIdFieldNumber, d>>
  BY DEF Command!EncodeFields, Command!EncodePacked, Command!Given, TouchedBits, SetBits, HasBits
<1> HIDE DEF Fills
<1>2. f \in Command!EncodeFields(s, o, k, d) => Fills
  <2> DEFINE Filled(a) == a \in Slots(s) /\ IsWritten(s, o, d, a) /\ f = <<a.number, Content(s, o, k, d, a)>>
  <2>0. ASSUME NEW a, Filled(a) PROVE Fills
    BY <2>0 DEF Fills
  <2>1. CASE f = <<s.keyFieldNumber, k>>
    <3>1. Filled([kind |-> "key", name |-> "", number |-> s.keyFieldNumber])
      BY <2>1, SlotKinds DEF IsWritten, Content
    <3> QED
      BY <2>0, <3>1
  <2>2. ASSUME NEW n \in DOMAIN o \cap DOMAIN s.fields, f = <<s.fields[n], o[n]>> PROVE Fills
    <3>1. Filled([kind |-> "plain", name |-> n, number |-> s.fields[n]])
      BY <2>2, SlotKinds DEF IsWritten, Content
    <3> QED
      BY <2>0, <3>1
  <2>3. ASSUME NEW n \in DOMAIN o \cap DOMAIN s.hasPatternFields, f = <<s.hasPatternFields[n][1], 1>> PROVE Fills
    <3>1. Filled([kind |-> "flag", name |-> n, number |-> s.hasPatternFields[n][1]])
      BY <2>3, SlotKinds DEF IsWritten, Content
    <3> QED
      BY <2>0, <3>1
  <2>4. ASSUME NEW n \in DOMAIN o \cap DOMAIN s.hasPatternFields, f = <<s.hasPatternFields[n][2], o[n]>> PROVE Fills
    <3>1. Filled([kind |-> "value", name |-> n, number |-> s.hasPatternFields[n][2]])
      BY <2>4, SlotKinds DEF IsWritten, Content
    <3> QED
      BY <2>0, <3>1
  <2>5. ASSUME NEW n \in DOMAIN o \cap DOMAIN s.bitmaskFields, f = <<s.bitmaskFields[n][2], o[n]>> PROVE Fills
    <3>1. Filled([kind |-> "masked", name |-> n, number |-> s.bitmaskFields[n][2]])
      BY <2>5, SlotKinds DEF IsWritten, Content
    <3> QED
      BY <2>0, <3>1
  <2>6. CASE packed # {} /\ f = <<s.packedField, SetBits(s, o)>>
    <3>1. Filled([kind |-> "packed", name |-> "", number |-> s.packedField])
      BY <2>6, SlotKinds DEF IsWritten, Content, TouchedBits
    <3> QED
      BY <2>0, <3>1
  <2>7. CASE HasBits(s, o) # {} /\ f = <<s.bitmaskFieldNumber, HasBits(s, o)>>
    <3>1. (\E n : n \in DOMAIN s.packedBits) \/ (\E n : n \in DOMAIN s.bitmaskFields)
      BY <2>7 DEF HasBits, TouchedBits
    <3>2. Filled([kind |-> "mask", name |-> "", number |-> s.bitmaskFieldNumber])
      BY <2>7, <3>1, SlotKinds DEF IsWritten, Content
    <3> QED
      BY <2>0, <3>2
  <2>8. CASE d # 0 /\ f = <<s.deviceIdFieldNumber, d>>
    <3>1. Filled([kind |-> "device", name |-> "", number |-> s.deviceIdFieldNumber])
      BY <2>8, SlotKinds DEF IsWritten, Content
    <3> QED
      BY <2>0, <3>1
  <2> HIDE DEF Filled
  <2> QED
    BY <1>1, <2>1, <2>2, <2>3, <2>4, <2>5, <2>6, <2>7, <2>8
<1>3. Fills => f \in Command!EncodeFields(s, o, k, d)
  <2>1. ASSUME NEW a \in Slots(s), IsWritten(s, o, d, a), f = <<a.number, Content(s, o, k, d, a)>>
        PROVE  f \in Command!EncodeFields(s, o, k, d)
    <3>1. CASE a.kind \in {"key", "device"}
      BY <1>1, <2>1, <3>1, SlotKinds DEF IsWritten, Content
    <3>2. CASE a.kind \in {"plain", "flag"}
      BY <1>1, <2>1, <3>2, SlotKinds DEF IsWritten, Content
    <3>3. CASE a.kind \in {"value", "masked"}
      BY <1>1, <2>1, <3>3, SlotKinds DEF IsWritten, Content
    <3>4. CASE a.kind \in {"packed", "mask"}
      BY <1>1, <2>1, <3>4, SlotKinds DEF IsWritten, Content
    <3> QED
      BY <3>1, <3>2, <3>3, <3>4, SlotKinds
  <2> QED
    BY <2>1 DEF Fills
<1> QED
  BY <1>2, <1>3 DEF Fills

\* What a device finds under a number is what the slot of the number was filled with.
LEMMA NumbersAreSlots ==
  ASSUME NEW s, NEW o, NEW k, NEW d, IsWellFormed(s), NEW a \in Slots(s)
  PROVE  {f \in Command!EncodeFields(s, o, k, d) : f[1] = a.number}
           = IF IsWritten(s, o, d, a) THEN {<<a.number, Content(s, o, k, d, a)>>} ELSE {}
<1>1. ASSUME NEW f \in Command!EncodeFields(s, o, k, d), f[1] = a.number
      PROVE  IsWritten(s, o, d, a) /\ f = <<a.number, Content(s, o, k, d, a)>>
  <2>1. PICK b \in Slots(s) : IsWritten(s, o, d, b) /\ f = <<b.number, Content(s, o, k, d, b)>>
    BY FieldsFillSlots
  <2>2. b = a
    BY <1>1, <2>1 DEF IsWellFormed
  <2> QED
    BY <2>1, <2>2
<1>2. ASSUME IsWritten(s, o, d, a)
      PROVE  <<a.number, Content(s, o, k, d, a)>> \in Command!EncodeFields(s, o, k, d)
  BY <1>2, FieldsFillSlots
<1> QED
  BY <1>1, <1>2

LEMMA NoFieldIsWrittenTwice ==
  ASSUME NEW s, NEW o, NEW k, NEW d, IsWellFormed(s)
  PROVE  \A f, g \in Command!EncodeFields(s, o, k, d) : f[1] = g[1] => f = g
<1> SUFFICES ASSUME NEW f \in Command!EncodeFields(s, o, k, d), NEW g \in Command!EncodeFields(s, o, k, d), f[1] = g[1]
             PROVE  f = g
  OBVIOUS
<1>1. PICK a \in Slots(s) : IsWritten(s, o, d, a) /\ f = <<a.number, Content(s, o, k, d, a)>>
  BY FieldsFillSlots
<1>2. PICK b \in Slots(s) : IsWritten(s, o, d, b) /\ g = <<b.number, Content(s, o, k, d, b)>>
  BY FieldsFillSlots
<1>3. a = b
  BY <1>1, <1>2 DEF IsWellFormed
<1> QED
  BY <1>1, <1>2, <1>3

\* The encoder of commands and the device's reading of what it writes are inverse, for every
\* schema whose numbers and bits are distinct: every option arrives, zero and false included,
\* and no other.
THEOREM DeviceReadsOptions ==
  ASSUME NEW s, NEW o, NEW k, NEW d, IsWellFormed(s), AreOptionsOf(o, s)
  PROVE  Command!Told(s, Command!EncodeFields(s, o, k, d)) = o
<1> DEFINE all == Command!EncodeFields(s, o, k, d)
           Number(n) == {f \in all : f[1] = n}
           Value(n) == (CHOOSE f \in Number(n) : TRUE)[2]
           Bits(n) == UNION {f[2] : f \in Number(n)}
           has == Bits(s.bitmaskFieldNumber)
           plain == [n \in {m \in DOMAIN s.fields : Number(s.fields[m]) # {}} |-> Value(s.fields[n])]
           flagged == [n \in {m \in DOMAIN s.hasPatternFields : <<s.hasPatternFields[m][1], 1>> \in all}
                         |-> Value(s.hasPatternFields[n][2])]
           masked == [n \in {m \in DOMAIN s.bitmaskFields : s.bitmaskFields[m][1] \in has}
                        |-> Value(s.bitmaskFields[n][2])]
           packed == [n \in {m \in DOMAIN s.packedBits : s.packedBits[m][2] \in has}
                        |-> IF s.packedBits[n][1] \in Bits(s.packedField) THEN 1 ELSE 0]
\* One slot: what its number reads.
<1>1. ASSUME NEW a \in Slots(s)
      PROVE  /\ IsWritten(s, o, d, a) => Number(a.number) # {} /\ Value(a.number) = Content(s, o, k, d, a)
             /\ ~IsWritten(s, o, d, a) => Number(a.number) = {}
             /\ IsWritten(s, o, d, a) => Bits(a.number) = Content(s, o, k, d, a)
             /\ ~IsWritten(s, o, d, a) => Bits(a.number) = {}
  <2>1. Number(a.number) = IF IsWritten(s, o, d, a) THEN {<<a.number, Content(s, o, k, d, a)>>} ELSE {}
    BY NumbersAreSlots
  <2> HIDE DEF Number
  <2>2. ASSUME NEW N, NEW f, N = {f}
        PROVE  N # {} /\ (CHOOSE g \in N : TRUE)[2] = f[2] /\ UNION {g[2] : g \in N} = f[2]
    BY <2>2
  <2>3. CASE IsWritten(s, o, d, a)
    BY <2>1, <2>2, <2>3
  <2>4. CASE ~IsWritten(s, o, d, a)
    BY <2>1, <2>4
  <2> QED
    BY <2>3, <2>4
<1>2. ASSUME NEW n \in DOMAIN s.fields
      PROVE  (Number(s.fields[n]) # {} <=> n \in DOMAIN o) /\ (n \in DOMAIN o => Value(s.fields[n]) = o[n])
  <2> DEFINE a == [kind |-> "plain", name |-> n, number |-> s.fields[n]]
  <2>1. /\ a \in Slots(s) /\ a.number = s.fields[n] /\ (IsWritten(s, o, d, a) <=> n \in DOMAIN o)
        /\ Content(s, o, k, d, a) = o[n]
    BY SlotKinds DEF IsWritten, Content
  <2> HIDE DEF a, Number, Value, Bits
  <2> QED
    BY <1>1, <2>1
<1>3. ASSUME NEW n \in DOMAIN s.hasPatternFields
      PROVE  /\ <<s.hasPatternFields[n][1], 1>> \in all <=> n \in DOMAIN o
             /\ n \in DOMAIN o => Value(s.hasPatternFields[n][2]) = o[n]
  <2> DEFINE a == [kind |-> "value", name |-> n, number |-> s.hasPatternFields[n][2]]
             b == [kind |-> "flag", name |-> n, number |-> s.hasPatternFields[n][1]]
  <2>1. /\ a \in Slots(s) /\ a.number = s.hasPatternFields[n][2] /\ (IsWritten(s, o, d, a) <=> n \in DOMAIN o)
        /\ Content(s, o, k, d, a) = o[n]
    BY SlotKinds DEF IsWritten, Content
  <2>2. /\ b \in Slots(s) /\ b.number = s.hasPatternFields[n][1] /\ (IsWritten(s, o, d, b) <=> n \in DOMAIN o)
        /\ Content(s, o, k, d, b) = 1
    BY SlotKinds DEF IsWritten, Content
  <2>3. Number(b.number) = IF IsWritten(s, o, d, b) THEN {<<b.number, Content(s, o, k, d, b)>>} ELSE {}
    BY <2>2, NumbersAreSlots
  <2>4. <<b.number, 1>> \in all <=> <<b.number, 1>> \in Number(b.number)
    OBVIOUS
  <2> HIDE DEF a, b, all, Number, Value, Bits
  <2>5. <<b.number, 1>> \in all <=> n \in DOMAIN o
    BY <2>2, <2>3, <2>4
  <2>6. n \in DOMAIN o => Value(a.number) = o[n]
    BY <1>1, <2>1
  <2> QED
    BY <2>1, <2>2, <2>5, <2>6
\* The mask, when the schema has one.
<1>4. ASSUME NEW n \in DOMAIN s.packedBits \cup DOMAIN s.bitmaskFields
      PROVE  has = HasBits(s, o)
  <2> DEFINE a == [kind |-> "mask", name |-> "", number |-> s.bitmaskFieldNumber]
  <2>1. /\ a \in Slots(s) /\ a.number = s.bitmaskFieldNumber /\ (IsWritten(s, o, d, a) <=> HasBits(s, o) # {})
        /\ Content(s, o, k, d, a) = HasBits(s, o)
    BY SlotKinds DEF IsWritten, Content
  <2> HIDE DEF a, Number, Value, Bits
  <2> QED
    BY <1>1, <2>1
<1>5. ASSUME NEW n \in DOMAIN s.bitmaskFields
      PROVE  /\ s.bitmaskFields[n][1] \in has <=> n \in DOMAIN o
             /\ n \in DOMAIN o => Value(s.bitmaskFields[n][2]) = o[n]
  <2> DEFINE a == [kind |-> "masked", name |-> n, number |-> s.bitmaskFields[n][2]]
  <2>1. /\ a \in Slots(s) /\ a.number = s.bitmaskFields[n][2] /\ (IsWritten(s, o, d, a) <=> n \in DOMAIN o)
        /\ Content(s, o, k, d, a) = o[n]
    BY SlotKinds DEF IsWritten, Content
  <2>2. s.bitmaskFields[n][1] \in HasBits(s, o) <=> n \in DOMAIN o
    BY DEF HasBits, TouchedBits, IsWellFormed
  <2> HIDE DEF a, Number, Value, Bits
  <2> QED
    BY <1>1, <1>4, <2>1, <2>2
<1>6. ASSUME NEW n \in DOMAIN s.packedBits
      PROVE  /\ s.packedBits[n][2] \in has <=> n \in DOMAIN o
             /\ n \in DOMAIN o => (IF s.packedBits[n][1] \in Bits(s.packedField) THEN 1 ELSE 0) = o[n]
  <2> DEFINE a == [kind |-> "packed", name |-> "", number |-> s.packedField]
  <2>1. /\ a \in Slots(s) /\ a.number = s.packedField /\ (IsWritten(s, o, d, a) <=> TouchedBits(s, o) # {})
        /\ Content(s, o, k, d, a) = SetBits(s, o)
    BY SlotKinds DEF IsWritten, Content
  <2>2. s.packedBits[n][2] \in HasBits(s, o) <=> n \in DOMAIN o
    BY DEF HasBits, TouchedBits, IsWellFormed
  <2>3. n \in DOMAIN o => (s.packedBits[n][1] \in SetBits(s, o) <=> o[n] = 1) /\ o[n] \in {0, 1} /\ TouchedBits(s, o) # {}
    BY DEF SetBits, TouchedBits, IsWellFormed, AreOptionsOf
  <2> HIDE DEF a, Number, Value, Bits, has
  <2>4. n \in DOMAIN o => Bits(s.packedField) = SetBits(s, o)
    BY <1>1, <2>1, <2>3
  <2> QED
    BY <1>4, <2>2, <2>3, <2>4
<1> HIDE DEF all, Number, Value, Bits, has
<1>7. /\ DOMAIN plain = DOMAIN o \cap DOMAIN s.fields /\ \A n \in DOMAIN plain : plain[n] = o[n]
      /\ DOMAIN flagged = DOMAIN o \cap DOMAIN s.hasPatternFields /\ \A n \in DOMAIN flagged : flagged[n] = o[n]
  BY <1>2, <1>3
<1>8. /\ DOMAIN masked = DOMAIN o \cap DOMAIN s.bitmaskFields /\ \A n \in DOMAIN masked : masked[n] = o[n]
      /\ DOMAIN packed = DOMAIN o \cap DOMAIN s.packedBits /\ \A n \in DOMAIN packed : packed[n] = o[n]
  BY <1>5, <1>6
<1>9. Command!Told(s, all) = Command!Over(Command!Over(plain, flagged), Command!Over(masked, packed))
  BY DEF Command!Told, Number, Value, Bits, has
<1> HIDE DEF plain, flagged, masked, packed
<1>10. Command!Over(Command!Over(plain, flagged), Command!Over(masked, packed)) = o
  <2> DEFINE f == Command!Over(plain, flagged)
             g == Command!Over(masked, packed)
  <2>1. /\ f = [n \in DOMAIN o \cap (DOMAIN s.fields \cup DOMAIN s.hasPatternFields) |-> o[n]]
        /\ g = [n \in DOMAIN o \cap (DOMAIN s.bitmaskFields \cup DOMAIN s.packedBits) |-> o[n]]
    BY <1>7, <1>8 DEF Command!Over
  <2> HIDE DEF f, g
  <2>2. Command!Over(f, g) = [n \in DOMAIN o |-> o[n]]
    BY <2>1 DEF Command!Over, AreOptionsOf
  <2> QED
    BY <2>2 DEF AreOptionsOf, f, g
<1> QED
  BY <1>9, <1>10 DEF all

\* The numbers of a schema lead back to their slots: kinds and names are functions of them.
LeadsBack(s, kindOf, nameOf) ==
  /\ kindOf[s.keyFieldNumber] = "key" /\ nameOf[s.keyFieldNumber] = ""
  /\ kindOf[s.deviceIdFieldNumber] = "device" /\ nameOf[s.deviceIdFieldNumber] = ""
  /\ \A n \in DOMAIN s.fields : kindOf[s.fields[n]] = "plain" /\ nameOf[s.fields[n]] = n
  /\ \A n \in DOMAIN s.hasPatternFields :
       /\ kindOf[s.hasPatternFields[n][1]] = "flag" /\ nameOf[s.hasPatternFields[n][1]] = n
       /\ kindOf[s.hasPatternFields[n][2]] = "value" /\ nameOf[s.hasPatternFields[n][2]] = n
  /\ \A n \in DOMAIN s.bitmaskFields :
       /\ kindOf[s.bitmaskFields[n][2]] = "masked" /\ nameOf[s.bitmaskFields[n][2]] = n
       /\ kindOf[s.bitmaskFieldNumber] = "mask" /\ nameOf[s.bitmaskFieldNumber] = ""
  /\ \A n \in DOMAIN s.packedBits :
       /\ kindOf[s.packedField] = "packed" /\ nameOf[s.packedField] = ""
       /\ kindOf[s.bitmaskFieldNumber] = "mask" /\ nameOf[s.bitmaskFieldNumber] = ""

LEMMA NumbersAreDistinct ==
  ASSUME NEW s, NEW kindOf, NEW nameOf, LeadsBack(s, kindOf, nameOf)
  PROVE  \A a, b \in Slots(s) : a.number = b.number => a = b
<1> DEFINE Slot(k, n, m) == [kind |-> k, name |-> n, number |-> m]
           Back(a) == a = Slot(kindOf[a.number], nameOf[a.number], a.number)
<1>1. ASSUME NEW k, NEW n, NEW m, kindOf[m] = k, nameOf[m] = n PROVE Back(Slot(k, n, m))
  BY <1>1
<1>2. Slots(s) = {Slot("key", "", s.keyFieldNumber), Slot("device", "", s.deviceIdFieldNumber)}
                 \cup {Slot("plain", n, s.fields[n]) : n \in DOMAIN s.fields}
                 \cup {Slot("flag", n, s.hasPatternFields[n][1]) : n \in DOMAIN s.hasPatternFields}
                 \cup {Slot("value", n, s.hasPatternFields[n][2]) : n \in DOMAIN s.hasPatternFields}
                 \cup {Slot("masked", n, s.bitmaskFields[n][2]) : n \in DOMAIN s.bitmaskFields}
                 \cup {Slot("packed", "", s.packedField) : n \in DOMAIN s.packedBits}
                 \cup {Slot("mask", "", s.bitmaskFieldNumber) : n \in DOMAIN s.packedBits \cup DOMAIN s.bitmaskFields}
  BY Zenon DEF Slots
<1> HIDE DEF Slot, Back
<1>3. Back(Slot("key", "", s.keyFieldNumber)) /\ Back(Slot("device", "", s.deviceIdFieldNumber))
  BY <1>1 DEF LeadsBack
<1>4. \A n \in DOMAIN s.fields : Back(Slot("plain", n, s.fields[n]))
  BY <1>1 DEF LeadsBack
<1>5. \A n \in DOMAIN s.hasPatternFields : /\ Back(Slot("flag", n, s.hasPatternFields[n][1]))
                                           /\ Back(Slot("value", n, s.hasPatternFields[n][2]))
  BY <1>1 DEF LeadsBack
<1>6. \A n \in DOMAIN s.bitmaskFields : /\ Back(Slot("masked", n, s.bitmaskFields[n][2]))
                                        /\ Back(Slot("mask", "", s.bitmaskFieldNumber))
  BY <1>1 DEF LeadsBack
<1>7. \A n \in DOMAIN s.packedBits : /\ Back(Slot("packed", "", s.packedField))
                                     /\ Back(Slot("mask", "", s.bitmaskFieldNumber))
  BY <1>1 DEF LeadsBack
<1>8. \A a \in Slots(s) : Back(a)
  BY <1>2, <1>3, <1>4, <1>5, <1>6, <1>7
<1> QED
  BY <1>8 DEF Back

\* The schemas of the source are well formed.
LEMMA LightIsWellFormed == IsWellFormed(Command!Light)
<1> DEFINE s == Command!Light
           kindOf == [m \in Nat |-> IF m = 1 THEN "key" ELSE IF m = 28 THEN "device" ELSE IF m \in {2, 4} THEN "flag"
                                    ELSE IF m \in {3, 5} THEN "value" ELSE "plain"]
           nameOf == [m \in Nat |-> IF m \in {1, 28} THEN "" ELSE IF m \in {2, 3} THEN "state"
                                    ELSE IF m \in {4, 5} THEN "brightness"
                                    ELSE IF m = 6 THEN "hasRgb" ELSE IF m = 7 THEN "red" ELSE IF m = 8 THEN "green" ELSE "blue"]
           state == <<2, 3>>
           brightness == <<4, 5>>
<1>1. /\ DOMAIN s.bitmaskFields = {} /\ DOMAIN s.packedBits = {}
      /\ s.keyFieldNumber = 1 /\ s.deviceIdFieldNumber = 28
  BY DEF Command!Light, Command!NoFields
<1>2. s.fields = [hasRgb |-> 6, red |-> 7, green |-> 8, blue |-> 9]
  BY DEF Command!Light
<1>3. s.hasPatternFields = [state |-> state, brightness |-> brightness]
  BY DEF Command!Light
<1>4. state[1] = 2 /\ state[2] = 3 /\ brightness[1] = 4 /\ brightness[2] = 5
  OBVIOUS
<1> HIDE DEF s, state, brightness
<1>5. /\ kindOf[1] = "key" /\ kindOf[28] = "device" /\ nameOf[1] = "" /\ nameOf[28] = ""
      /\ kindOf[2] = "flag" /\ kindOf[4] = "flag" /\ kindOf[3] = "value" /\ kindOf[5] = "value"
      /\ nameOf[2] = "state" /\ nameOf[3] = "state" /\ nameOf[4] = "brightness" /\ nameOf[5] = "brightness"
      /\ kindOf[6] = "plain" /\ kindOf[7] = "plain" /\ kindOf[8] = "plain" /\ kindOf[9] = "plain"
      /\ nameOf[6] = "hasRgb" /\ nameOf[7] = "red" /\ nameOf[8] = "green" /\ nameOf[9] = "blue"
  OBVIOUS
<1> HIDE DEF kindOf, nameOf
<1>6. ASSUME NEW n \in DOMAIN s.fields PROVE kindOf[s.fields[n]] = "plain" /\ nameOf[s.fields[n]] = n
  <2>1. \/ (n = "hasRgb" /\ s.fields[n] = 6) \/ (n = "red" /\ s.fields[n] = 7)
        \/ (n = "green" /\ s.fields[n] = 8) \/ (n = "blue" /\ s.fields[n] = 9)
    BY <1>2
  <2> QED
    BY <1>5, <2>1, Zenon
<1>7. ASSUME NEW n \in DOMAIN s.hasPatternFields
      PROVE  /\ kindOf[s.hasPatternFields[n][1]] = "flag" /\ nameOf[s.hasPatternFields[n][1]] = n
             /\ kindOf[s.hasPatternFields[n][2]] = "value" /\ nameOf[s.hasPatternFields[n][2]] = n
  <2>1. (n = "state" /\ s.hasPatternFields[n] = state) \/ (n = "brightness" /\ s.hasPatternFields[n] = brightness)
    BY <1>3
  <2>2. \/ n = "state" /\ s.hasPatternFields[n][1] = 2 /\ s.hasPatternFields[n][2] = 3
        \/ n = "brightness" /\ s.hasPatternFields[n][1] = 4 /\ s.hasPatternFields[n][2] = 5
    BY ONLY <1>4, <2>1
  <2> QED
    BY <1>5, <2>2, Zenon
<1>8. LeadsBack(s, kindOf, nameOf)
  <2>1. /\ kindOf[s.keyFieldNumber] = "key" /\ nameOf[s.keyFieldNumber] = ""
        /\ kindOf[s.deviceIdFieldNumber] = "device" /\ nameOf[s.deviceIdFieldNumber] = ""
    BY <1>1, <1>5, Zenon
  <2> QED
    BY <1>1, <2>1, <1>6, <1>7, Zenon DEF LeadsBack
<1> QED
  BY <1>1, <1>8, NumbersAreDistinct DEF IsWellFormed, s

LEMMA SirenIsWellFormed == IsWellFormed(Command!Siren)
<1> DEFINE s == Command!Siren
           kindOf == [m \in Nat |-> IF m = 1 THEN "key" ELSE IF m = 10 THEN "device" ELSE IF m \in {2, 6} THEN "flag"
                                    ELSE "value"]
           nameOf == [m \in Nat |-> IF m \in {1, 10} THEN "" ELSE IF m \in {2, 3} THEN "state" ELSE "duration"]
           state == <<2, 3>>
           duration == <<6, 7>>
<1>1. /\ DOMAIN s.fields = {} /\ DOMAIN s.bitmaskFields = {} /\ DOMAIN s.packedBits = {}
      /\ s.keyFieldNumber = 1 /\ s.deviceIdFieldNumber = 10
      /\ s.hasPatternFields = [state |-> state, duration |-> duration]
      /\ state[1] = 2 /\ state[2] = 3 /\ duration[1] = 6 /\ duration[2] = 7
  BY DEF Command!Siren, Command!NoFields
<1> HIDE DEF s, state, duration
<1>2. /\ kindOf[1] = "key" /\ kindOf[10] = "device" /\ nameOf[1] = "" /\ nameOf[10] = ""
      /\ kindOf[2] = "flag" /\ kindOf[6] = "flag" /\ kindOf[3] = "value" /\ kindOf[7] = "value"
      /\ nameOf[2] = "state" /\ nameOf[3] = "state" /\ nameOf[6] = "duration" /\ nameOf[7] = "duration"
  OBVIOUS
<1> HIDE DEF kindOf, nameOf
<1>3. ASSUME NEW n \in DOMAIN s.hasPatternFields
      PROVE  /\ kindOf[s.hasPatternFields[n][1]] = "flag" /\ nameOf[s.hasPatternFields[n][1]] = n
             /\ kindOf[s.hasPatternFields[n][2]] = "value" /\ nameOf[s.hasPatternFields[n][2]] = n
  <2>1. (n = "state" /\ s.hasPatternFields[n] = state) \/ (n = "duration" /\ s.hasPatternFields[n] = duration)
    BY <1>1
  <2>2. \/ n = "state" /\ s.hasPatternFields[n][1] = 2 /\ s.hasPatternFields[n][2] = 3
        \/ n = "duration" /\ s.hasPatternFields[n][1] = 6 /\ s.hasPatternFields[n][2] = 7
    BY ONLY <1>1, <2>1
  <2> QED
    BY <1>2, <2>2, Zenon
<1>4. LeadsBack(s, kindOf, nameOf)
  <2>1. /\ kindOf[s.keyFieldNumber] = "key" /\ nameOf[s.keyFieldNumber] = ""
        /\ kindOf[s.deviceIdFieldNumber] = "device" /\ nameOf[s.deviceIdFieldNumber] = ""
    BY <1>1, <1>2, Zenon
  <2> QED
    BY <1>1, <2>1, <1>3, Zenon DEF LeadsBack
<1> QED
  BY <1>1, <1>4, NumbersAreDistinct DEF IsWellFormed, s

LEMMA WaterHeaterIsWellFormed == IsWellFormed(Command!WaterHeater)
<1> DEFINE s == Command!WaterHeater
           kindOf == [m \in Nat |-> IF m = 1 THEN "key" ELSE IF m = 5 THEN "device" ELSE IF m \in {3, 4} THEN "masked"
                                    ELSE IF m = 6 THEN "packed" ELSE "mask"]
           nameOf == [m \in Nat |-> IF m = 3 THEN "mode" ELSE IF m = 4 THEN "targetTemperature" ELSE ""]
           mode == <<1, 3>>
           target == <<2, 4>>
           away == <<1, 64>>
           on == <<2, 32>>
<1>1. /\ DOMAIN s.fields = {} /\ DOMAIN s.hasPatternFields = {}
      /\ s.keyFieldNumber = 1 /\ s.deviceIdFieldNumber = 5 /\ s.bitmaskFieldNumber = 2 /\ s.packedField = 6
      /\ s.bitmaskFields = [mode |-> mode, targetTemperature |-> target]
      /\ s.packedBits = [awayState |-> away, onState |-> on]
      /\ mode[1] = 1 /\ mode[2] = 3 /\ target[1] = 2 /\ target[2] = 4
      /\ away[1] = 1 /\ away[2] = 64 /\ on[1] = 2 /\ on[2] = 32
  BY DEF Command!WaterHeater, Command!NoFields
<1> HIDE DEF s, mode, target, away, on
<1>2. /\ kindOf[1] = "key" /\ kindOf[5] = "device" /\ nameOf[1] = "" /\ nameOf[5] = ""
      /\ kindOf[3] = "masked" /\ kindOf[4] = "masked" /\ nameOf[3] = "mode" /\ nameOf[4] = "targetTemperature"
      /\ kindOf[6] = "packed" /\ kindOf[2] = "mask" /\ nameOf[6] = "" /\ nameOf[2] = ""
  OBVIOUS
<1> HIDE DEF kindOf, nameOf
<1>3. \A n \in DOMAIN s.bitmaskFields :
        (n = "mode" /\ s.bitmaskFields[n] = mode) \/ (n = "targetTemperature" /\ s.bitmaskFields[n] = target)
  BY <1>1
<1>4. \A n \in DOMAIN s.packedBits : (n = "awayState" /\ s.packedBits[n] = away) \/ (n = "onState" /\ s.packedBits[n] = on)
  BY <1>1
<1>5. ASSUME NEW n \in DOMAIN s.bitmaskFields
      PROVE  kindOf[s.bitmaskFields[n][2]] = "masked" /\ nameOf[s.bitmaskFields[n][2]] = n
  <2>1. (n = "mode" /\ s.bitmaskFields[n] = mode) \/ (n = "targetTemperature" /\ s.bitmaskFields[n] = target)
    BY <1>3
  <2>2. \/ n = "mode" /\ s.bitmaskFields[n][1] = 1 /\ s.bitmaskFields[n][2] = 3
        \/ n = "targetTemperature" /\ s.bitmaskFields[n][1] = 2 /\ s.bitmaskFields[n][2] = 4
    BY ONLY <1>1, <2>1
  <2> QED
    BY <1>2, <2>2, Zenon
<1>6. LeadsBack(s, kindOf, nameOf)
  <2>1. /\ kindOf[s.keyFieldNumber] = "key" /\ nameOf[s.keyFieldNumber] = ""
        /\ kindOf[s.deviceIdFieldNumber] = "device" /\ nameOf[s.deviceIdFieldNumber] = ""
        /\ kindOf[s.bitmaskFieldNumber] = "mask" /\ nameOf[s.bitmaskFieldNumber] = ""
        /\ kindOf[s.packedField] = "packed" /\ nameOf[s.packedField] = ""
    BY <1>1, <1>2, Zenon
  <2> QED
    BY <1>1, <2>1, <1>5, Zenon DEF LeadsBack
<1>7. \A a, b \in Slots(s) : a.number = b.number => a = b
  BY <1>6, NumbersAreDistinct
<1>8. ASSUME NEW n \in DOMAIN s.bitmaskFields
      PROVE  /\ \A m \in DOMAIN s.bitmaskFields : s.bitmaskFields[m][1] = s.bitmaskFields[n][1] => m = n
             /\ \A m \in DOMAIN s.packedBits : s.packedBits[m][2] # s.bitmaskFields[n][1]
  <2>1. /\ \A m \in DOMAIN s.bitmaskFields :
             (m = "mode" /\ s.bitmaskFields[m][1] = 1) \/ (m = "targetTemperature" /\ s.bitmaskFields[m][1] = 2)
        /\ \A m \in DOMAIN s.packedBits : s.packedBits[m][2] \in {32, 64}
    BY <1>1, <1>3, <1>4
  <2> QED
    BY ONLY <2>1, n \in DOMAIN s.bitmaskFields
<1>9. \A m, n \in DOMAIN s.packedBits :
        s.packedBits[m][1] = s.packedBits[n][1] \/ s.packedBits[m][2] = s.packedBits[n][2] => m = n
  <2>1. \A m \in DOMAIN s.packedBits : \/ (m = "awayState" /\ s.packedBits[m][1] = 1 /\ s.packedBits[m][2] = 64)
                                       \/ (m = "onState" /\ s.packedBits[m][1] = 2 /\ s.packedBits[m][2] = 32)
    BY <1>1, <1>4
  <2> QED
    BY ONLY <2>1
<1> QED
  BY <1>7, <1>8, <1>9 DEF IsWellFormed, s

\* The schemas of the entities.
LEMMA SchemasOfEntities ==
  /\ Command!Entities = {"light", "lamp", "siren", "boiler", "sensor", "unknown"}
  /\ \A e \in {"light", "lamp"} : Command!TypeOf[e] = "light" /\ Command!resolveSchema[Command!TypeOf[e]] = Command!Light
  /\ Command!TypeOf["siren"] = "siren" /\ Command!resolveSchema[Command!TypeOf["siren"]] = Command!Siren
  /\ Command!TypeOf["boiler"] = "water_heater"
  /\ Command!resolveSchema[Command!TypeOf["boiler"]] = Command!WaterHeater
  /\ Command!resolveSchema[Command!TypeOf["sensor"]] = Command!ReadOnly
  /\ Command!TypeOf["unknown"] \notin DOMAIN Command!resolveSchema
<1>1. Command!Entities = {"light", "lamp", "siren", "boiler", "sensor", "unknown"}
  BY DEF Command!Entities, Command!TypeOf
<1>2. ASSUME NEW e \in {"light", "lamp"}
      PROVE  Command!TypeOf[e] = "light" /\ Command!resolveSchema[Command!TypeOf[e]] = Command!Light
  <2>1. Command!TypeOf[e] = "light"
    BY DEF Command!TypeOf
  <2> QED
    BY <2>1 DEF Command!resolveSchema
<1>3. /\ Command!TypeOf["siren"] = "siren" /\ Command!TypeOf["boiler"] = "water_heater"
      /\ Command!TypeOf["sensor"] = "sensor" /\ Command!TypeOf["unknown"] = "unknown"
  BY DEF Command!TypeOf
<1>4. /\ Command!resolveSchema["siren"] = Command!Siren /\ Command!resolveSchema["water_heater"] = Command!WaterHeater
      /\ Command!resolveSchema["sensor"] = Command!ReadOnly /\ "unknown" \notin DOMAIN Command!resolveSchema
  BY DEF Command!resolveSchema
<1> QED
  BY <1>1, <1>2, <1>3, <1>4

\* The names of each schema's options, and its enums.
LEMMA TablesOfSchemas ==
  /\ DOMAIN Command!Light.fields = {"hasRgb", "red", "green", "blue"}
  /\ DOMAIN Command!Light.hasPatternFields = {"state", "brightness"}
  /\ DOMAIN Command!Light.packedBits = {} /\ DOMAIN Command!Siren.packedBits = {}
  /\ DOMAIN Command!Siren.hasPatternFields = {"state", "duration"}
  /\ DOMAIN Command!WaterHeater.bitmaskFields = {"mode", "targetTemperature"}
  /\ DOMAIN Command!WaterHeater.packedBits = {"awayState", "onState"}
  /\ DOMAIN Command!WaterHeater.enumMappings = {"mode"}
  /\ Command!Light.keyFieldNumber = 1 /\ Command!Siren.keyFieldNumber = 1 /\ Command!WaterHeater.keyFieldNumber = 1
<1>1. /\ DOMAIN Command!Light.fields = {"hasRgb", "red", "green", "blue"}
      /\ DOMAIN Command!Light.hasPatternFields = {"state", "brightness"}
      /\ DOMAIN Command!Light.packedBits = {} /\ Command!Light.keyFieldNumber = 1
  BY DEF Command!Light, Command!NoFields
<1>2. /\ DOMAIN Command!Siren.hasPatternFields = {"state", "duration"}
      /\ DOMAIN Command!Siren.packedBits = {} /\ Command!Siren.keyFieldNumber = 1
  BY DEF Command!Siren, Command!NoFields
<1>3. /\ DOMAIN Command!WaterHeater.bitmaskFields = {"mode", "targetTemperature"}
      /\ DOMAIN Command!WaterHeater.packedBits = {"awayState", "onState"}
      /\ DOMAIN Command!WaterHeater.enumMappings = {"mode"} /\ Command!WaterHeater.keyFieldNumber = 1
  BY DEF Command!WaterHeater, Command!NoFields
<1> QED
  BY <1>1, <1>2, <1>3

\* What a caller asks for has its place in the schema of the entity, adapted and with its enums.
LEMMA OptionsFit ==
  ASSUME NEW e \in {"light", "lamp", "siren", "boiler"}, NEW options \in Command!OptionsFor(e)
  PROVE  LET s == Command!resolveSchema[Command!TypeOf[e]]
         IN  AreOptionsOf(Command!MapEnums(s, Command!CommandAdapter(e, options)), s)
<1> DEFINE s == Command!resolveSchema[Command!TypeOf[e]]
           adapted == Command!CommandAdapter(e, options)
           o == Command!MapEnums(s, adapted)
<1>1. o = [n \in DOMAIN o |-> o[n]] /\ DOMAIN o = DOMAIN adapted
  BY DEF Command!MapEnums
<1>2. CASE e \in {"light", "lamp"}
  <2>1. DOMAIN options \subseteq {"state", "brightness", "rgb"}
    <3>1. \/ options = [state |-> 1] \/ options = [state |-> 0, brightness |-> 0]
          \/ options = [rgb |-> [r |-> 4, g |-> 0, b |-> 2]]
      BY <1>2 DEF Command!OptionsFor
    <3> QED
      BY <3>1
  <2>2. DOMAIN adapted \subseteq {"state", "brightness", "hasRgb", "red", "green", "blue"}
    <3>1. Command!TypeOf[e] = "light"
      BY <1>2, SchemasOfEntities
    <3>2. CASE "rgb" \in DOMAIN options
      <4> DEFINE rgb == [hasRgb |-> 1, red |-> options.rgb.r, green |-> options.rgb.g, blue |-> options.rgb.b]
                 rest == Command!Restrict(options, DOMAIN options \ {"rgb"})
      <4>1. adapted = Command!SplitRgb(options)
        BY <3>1, <3>2 DEF Command!CommandAdapter
      <4>2. DOMAIN rgb = {"hasRgb", "red", "green", "blue"} /\ DOMAIN rest = DOMAIN options \ {"rgb"}
        BY DEF Command!Restrict
      <4>3. Command!SplitRgb(options) = Command!Over(rgb, rest)
        BY DEF Command!SplitRgb
      <4> HIDE DEF rgb, rest, adapted
      <4>4. DOMAIN Command!Over(rgb, rest) = DOMAIN rgb \cup DOMAIN rest
        BY DEF Command!Over
      <4> QED
        BY <2>1, <4>1, <4>2, <4>3, <4>4
    <3>3. CASE "rgb" \notin DOMAIN options
      BY <2>1, <3>1, <3>3 DEF Command!CommandAdapter
    <3> QED
      BY <3>2, <3>3
  <2>3. s = Command!Light
    BY <1>2, SchemasOfEntities
  <2> HIDE DEF s, o, adapted
  <2>4. AreOptionsOf(o, Command!Light)
    BY <1>1, <2>2, TablesOfSchemas DEF AreOptionsOf
  <2> QED
    BY <2>3, <2>4 DEF s, o, adapted
<1>3. CASE e = "siren"
  <2>1. DOMAIN options = {"state", "duration"}
    BY <1>3 DEF Command!OptionsFor
  <2>2. DOMAIN adapted = {"state", "duration"}
    BY <1>3, <2>1, SchemasOfEntities DEF Command!CommandAdapter
  <2>3. s = Command!Siren
    BY <1>3, SchemasOfEntities
  <2> HIDE DEF s, o, adapted
  <2>4. AreOptionsOf(o, Command!Siren)
    BY <1>1, <2>2, TablesOfSchemas DEF AreOptionsOf
  <2> QED
    BY <2>3, <2>4 DEF s, o, adapted
<1>4. CASE e = "boiler"
  <2>1. /\ DOMAIN options \subseteq {"mode", "targetTemperature", "awayState", "onState"}
        /\ \A n \in DOMAIN options \cap {"awayState", "onState"} : options[n] \in {0, 1}
    <3>1. \/ options = [mode |-> "eco"] \/ options = [mode |-> "turbo", onState |-> 1]
          \/ options = [awayState |-> 0] \/ options = [awayState |-> 1, onState |-> 0, targetTemperature |-> 0]
      BY <1>4 DEF Command!OptionsFor
    <3>2. CASE options = [mode |-> "eco"]
      BY <3>2
    <3>3. CASE options = [mode |-> "turbo", onState |-> 1]
      BY <3>3
    <3>4. CASE options = [awayState |-> 0]
      BY <3>4
    <3>5. CASE options = [awayState |-> 1, onState |-> 0, targetTemperature |-> 0]
      BY <3>5
    <3> QED
      BY <3>1, <3>2, <3>3, <3>4, <3>5
  <2>2. s = Command!WaterHeater /\ adapted = options
    BY <1>4, SchemasOfEntities DEF Command!CommandAdapter
  <2>3. \A n \in DOMAIN options \cap {"awayState", "onState"} : o[n] = options[n]
    BY <2>2, TablesOfSchemas DEF Command!MapEnums, Command!Aliased
  <2> HIDE DEF s, o, adapted
  <2>4. AreOptionsOf(o, Command!WaterHeater)
    BY <1>1, <2>1, <2>2, <2>3, TablesOfSchemas DEF AreOptionsOf
  <2> QED
    BY <2>2, <2>4 DEF s, o, adapted
<1> QED
  BY <1>2, <1>3, <1>4

\* One command: it is refused, or the device is told what was asked.
LEMMA CommandTellsDevice ==
  ASSUME NEW e \in Command!Entities, NEW options \in Command!OptionsFor(e), Command!RunCommand(e, options)
  PROVE  Command!DevicesAreToldWhatWasAsked'
<1> SUFFICES ASSUME sent'.result = "ok" PROVE Command!DevicesAreToldWhatWasAsked'
  BY DEF Command!DevicesAreToldWhatWasAsked
<1> DEFINE s == Command!resolveSchema[Command!TypeOf[e]]
           o == Command!MapEnums(s, Command!CommandAdapter(e, options))
<1>1. /\ sent'.entity = e /\ sent'.options = options
      /\ sent'.result = Command!EncodeEntityCommand(e, Command!CommandAdapter(e, options)).result
      /\ sent'.fields = Command!EncodeEntityCommand(e, Command!CommandAdapter(e, options)).fields
  BY DEF Command!RunCommand
<1>2. e \in {"light", "lamp", "siren", "boiler"}
  <2>1. e # "unknown" /\ e # "sensor"
    BY <1>1, SchemasOfEntities DEF Command!EncodeEntityCommand
  <2> QED
    BY <2>1, SchemasOfEntities
<1>3. sent'.fields = Command!EncodeFields(s, o, Command!KeyOf[e], Command!DeviceOf[e])
  BY <1>1 DEF Command!EncodeEntityCommand
<1>4. s \in {Command!Light, Command!Siren, Command!WaterHeater}
  BY <1>2, SchemasOfEntities
<1>5. IsWellFormed(s) /\ s.keyFieldNumber = 1
  BY <1>4, LightIsWellFormed, SirenIsWellFormed, WaterHeaterIsWellFormed, TablesOfSchemas
<1>6. AreOptionsOf(o, s)
  BY <1>2, OptionsFit
<1> HIDE DEF s, o
<1>7. Command!Told(s, sent'.fields) = o
  BY <1>3, <1>5, <1>6, DeviceReadsOptions
<1>8. <<1, Command!KeyOf[e]>> \in sent'.fields
  BY <1>3, <1>5 DEF Command!EncodeFields
<1>9. \A f, g \in sent'.fields : f[1] = g[1] => f = g
  BY <1>3, <1>5, NoFieldIsWrittenTwice
<1> QED
  BY <1>1, <1>7, <1>8, <1>9 DEF Command!DevicesAreToldWhatWasAsked, s, o

LEMMA DevicesAreToldBegins == Command!Init => Command!DevicesAreToldWhatWasAsked
<1>1. Command!Init => sent.result = "none"
  BY DEF Command!Init
<1> QED
  BY <1>1 DEF Command!DevicesAreToldWhatWasAsked

LEMMA DevicesAreToldStep ==
  Command!DevicesAreToldWhatWasAsked /\ [Command!Next]_(Command!vars) => Command!DevicesAreToldWhatWasAsked'
<1> SUFFICES ASSUME Command!DevicesAreToldWhatWasAsked, [Command!Next]_(Command!vars)
             PROVE  Command!DevicesAreToldWhatWasAsked'
  OBVIOUS
<1>1. CASE UNCHANGED sent
  BY <1>1 DEF Command!DevicesAreToldWhatWasAsked
<1>2. CASE Command!Discover \/ Command!Reconnect
  BY <1>1, <1>2 DEF Command!Discover, Command!Reconnect
<1>3. ASSUME NEW e \in Command!Entities, Command!StateEvent(e) PROVE Command!DevicesAreToldWhatWasAsked'
  BY <1>1, <1>3 DEF Command!StateEvent
<1>4. ASSUME NEW e \in Command!Entities, NEW options \in Command!OptionsFor(e), Command!Command(e, options)
      PROVE  Command!DevicesAreToldWhatWasAsked'
  BY <1>4, CommandTellsDevice DEF Command!Command
<1>5. ASSUME NEW e \in Command!Entities, NEW options \in Command!OptionsFor(e), NEW c \in Awaits,
             Command!CommandAndAwait(c, e, options)
      PROVE  Command!DevicesAreToldWhatWasAsked'
  BY <1>1, <1>5, CommandTellsDevice DEF Command!CommandAndAwait
<1>6. ASSUME NEW c \in Awaits,
             Command!TakeEvent(c) \/ Command!Judged(c) \/ Command!Abort(c) \/ Command!EndOfStream(c)
      PROVE  Command!DevicesAreToldWhatWasAsked'
  BY <1>1, <1>6 DEF Command!TakeEvent, Command!Judged, Command!Accept, Command!Refuse, Command!PredicateThrows,
                    Command!Abort, Command!EndOfStream
<1>7. CASE UNCHANGED Command!vars
  BY <1>1, <1>7 DEF Command!vars
<1> QED
  BY <1>2, <1>3, <1>4, <1>5, <1>6, <1>7 DEF Command!Next

\* command() and commandAndAwait(): a command that is sent tells the device every option the
\* caller gave, zero and false included, and no other; no field is written twice.
THEOREM DevicesHearWhatWasAsked == MCSpec => []DevicesAreToldWhatWasAsked
<1>1. MCInit => Command!DevicesAreToldWhatWasAsked
  BY DevicesAreToldBegins DEF MCInit
<1>2. Command!DevicesAreToldWhatWasAsked /\ [MCNext]_mcVars => Command!DevicesAreToldWhatWasAsked'
  <2>1. [MCNext]_mcVars => [Command!Next]_(Command!vars)
    BY DEF MCNext, mcVars, commandVars, Command!vars
  <2> QED
    BY <2>1, DevicesAreToldStep
<1>3. Command!DevicesAreToldWhatWasAsked => DevicesAreToldWhatWasAsked
  BY DEF DevicesAreToldWhatWasAsked
<1> QED
  BY <1>1, <1>2, <1>3, PTL DEF MCSpec

-----------------------------------------------------------------------------
(* Camera. *)

Chunk == Nat \X Nat
SendingRecord == [image : Nat, size : Nat, sent : Nat]
ImageRecord == [camera : Cameras, chunks : Seq(Chunk), size : Nat, session : Nat]
Stages == {"called", "reading", "ending", "none", "resolved", "failed", "stopped"}
ConsumerRecord ==
  [kind : {"snapshot", "stream"}, camera : Cameras, stage : Stages, since : Nat,
   image : Seq(ImageRecord)]

\* What is buffered of an image that is being sent: its last chunks, all of them as long as the
\* image is not known to be too long.
Buffered(s, b) ==
  /\ s = Camera!Nothing => b = <<>>
  /\ s # Camera!Nothing => s.sent < s.size
  /\ Len(b) <= s.sent /\ Len(b) <= MaxImage
  /\ s.size <= MaxImage => Len(b) = s.sent
  /\ \A j \in 1..Len(b) : b[j] = <<s.image, (s.sent - Len(b)) + j>>

\* Camera!ImagesAreNeverMixed, of one image.
IsWhole(e) ==
  LET first == e.size - Len(e.chunks) + 1
  IN  /\ e.chunks # <<>>
      /\ \A j \in 1..Len(e.chunks) : e.chunks[j] = <<e.chunks[1][1], first + j - 1>>
      /\ e.size <= MaxImage => first = 1

BuffersInv ==
  /\ session \in 0..MaxSessions /\ connected \in BOOLEAN /\ images \in 0..MaxImages
  /\ sending \in [Cameras -> SendingRecord] /\ imageBuffers \in [Cameras -> Seq(Chunk)]
  /\ assembled \in Seq(ImageRecord)
  /\ ~connected => \A c \in Cameras : sending[c] = Camera!Nothing
  /\ \A c \in Cameras : Buffered(sending[c], imageBuffers[c])
  /\ \A i \in 1..Len(assembled) : IsWhole(assembled[i])

LEMMA NothingIsBuffered ==
  /\ Camera!Nothing \in SendingRecord /\ Buffered(Camera!Nothing, <<>>) /\ <<>> \in Seq(Chunk)
  /\ \A s \in SendingRecord : s.sent = 0 /\ s.size > 0 => Buffered(s, <<>>) /\ s # Camera!Nothing
<1>1. Len(<<>>) = 0 /\ <<>> \in Seq(Chunk) /\ MaxImage \in Nat
  BY BoundsAssumption
<1>2. Camera!Nothing \in SendingRecord /\ Camera!Nothing.size = 0 /\ Camera!Nothing.sent = 0
  BY DEF Camera!Nothing, SendingRecord
<1>3. Buffered(Camera!Nothing, <<>>)
  BY <1>1, <1>2 DEF Buffered
<1>4. ASSUME NEW s \in SendingRecord, s.sent = 0, s.size > 0 PROVE Buffered(s, <<>>) /\ s # Camera!Nothing
  <2>1. s # Camera!Nothing /\ s.size \in Nat
    BY <1>2, <1>4 DEF SendingRecord
  <2> QED
    BY <1>1, <1>4, <2>1 DEF Buffered
<1> QED
  BY <1>1, <1>2, <1>3, <1>4

\* acceptChunk(): what the next chunk of an image makes of its buffer.
LEMMA ChunkIsAccepted ==
  ASSUME NEW s \in SendingRecord, NEW b \in Seq(Chunk), Buffered(s, b), s # Camera!Nothing,
         NEW chunks, chunks = Append(b, <<s.image, s.sent + 1>>)
  PROVE  /\ chunks \in Seq(Chunk) /\ Len(chunks) \in Nat /\ Len(chunks) <= s.sent + 1 /\ s.sent + 1 <= s.size
         /\ s.size <= MaxImage => Len(chunks) = s.sent + 1
         /\ chunks # <<>> /\ Len(chunks) >= 1
         /\ \A j \in 1..Len(chunks) : chunks[j] = <<s.image, ((s.sent + 1) - Len(chunks)) + j>>
<1>1. /\ Len(b) \in Nat /\ s.sent \in Nat /\ s.image \in Nat /\ s.size \in Nat /\ MaxImage \in Nat
      /\ s.sent < s.size /\ Len(b) <= s.sent
      /\ s.size <= MaxImage => Len(b) = s.sent
  BY BoundsAssumption DEF Buffered, SendingRecord
<1>2. <<s.image, s.sent + 1>> \in Chunk
  BY <1>1 DEF Chunk
<1>3. /\ chunks \in Seq(Chunk) /\ Len(chunks) = Len(b) + 1 /\ chunks[Len(b) + 1] = <<s.image, s.sent + 1>>
      /\ \A j \in 1..Len(b) : chunks[j] = b[j]
  BY <1>2
<1>4. \A j \in 1..Len(chunks) : j \in 1..Len(b) \/ j = Len(b) + 1
  BY <1>1, <1>3
<1>5. \A j \in 1..Len(b) : chunks[j] = <<s.image, ((s.sent + 1) - Len(chunks)) + j>>
  <2>1. (s.sent + 1) - Len(chunks) = s.sent - Len(b)
    BY <1>1, <1>3
  <2> QED
    BY <1>3, <2>1 DEF Buffered
<1>6. ((s.sent + 1) - Len(chunks)) + (Len(b) + 1) = s.sent + 1
  BY <1>1, <1>3
<1>7. \A j \in 1..Len(chunks) : chunks[j] = <<s.image, ((s.sent + 1) - Len(chunks)) + j>>
  BY <1>3, <1>4, <1>5, <1>6
<1>8. Len(chunks) >= 1 /\ chunks # <<>>
  BY <1>1, <1>3
<1>9. Len(chunks) \in Nat /\ Len(chunks) <= s.sent + 1 /\ s.sent + 1 <= s.size
  BY <1>1, <1>3
<1>10. s.size <= MaxImage => Len(chunks) = s.sent + 1
  BY <1>1, <1>3
<1> QED
  BY ONLY <1>3, <1>7, <1>8, <1>9, <1>10

LEMMA BuffersBegin == Camera!Init => BuffersInv
<1> SUFFICES ASSUME Camera!Init PROVE BuffersInv
  OBVIOUS
<1>1. /\ session = 0 /\ connected = FALSE /\ images = 0 /\ assembled = <<>>
      /\ sending = [c \in Cameras |-> Camera!Nothing] /\ imageBuffers = [c \in Cameras |-> <<>>]
  BY DEF Camera!Init
<1>2. 0 \in 0..MaxSessions /\ 0 \in 0..MaxImages
  BY BoundsAssumption
<1>3. /\ sending \in [Cameras -> SendingRecord] /\ imageBuffers \in [Cameras -> Seq(Chunk)]
      /\ \A c \in Cameras : sending[c] = Camera!Nothing /\ Buffered(sending[c], imageBuffers[c])
  BY <1>1, NothingIsBuffered
<1>4. assembled \in Seq(ImageRecord) /\ Len(assembled) = 0
  BY <1>1
<1>5. \A i \in 1..Len(assembled) : IsWhole(assembled[i])
  BY <1>4
<1> QED
  BY <1>1, <1>2, <1>3, <1>4, <1>5 DEF BuffersInv

LEMMA BuffersStep == BuffersInv /\ [Camera!Next]_(Camera!vars) => BuffersInv'
<1> SUFFICES ASSUME BuffersInv, [Camera!Next]_(Camera!vars) PROVE BuffersInv'
  OBVIOUS
<1>1. CASE Camera!Connect
  <2>1. /\ ~connected /\ session < MaxSessions /\ session' = session + 1 /\ connected' = TRUE
        /\ imageBuffers' = [c \in Cameras |-> <<>>] /\ UNCHANGED <<sending, images, assembled>>
    BY <1>1 DEF Camera!Connect, Camera!ResetReassembly
  <2>2. session' \in 0..MaxSessions
    BY <2>1, BoundsAssumption DEF BuffersInv
  <2>3. \A c \in Cameras : sending'[c] = Camera!Nothing /\ imageBuffers'[c] = <<>>
    BY <2>1 DEF BuffersInv
  <2>4. imageBuffers' \in [Cameras -> Seq(Chunk)] /\ \A c \in Cameras : Buffered(sending'[c], imageBuffers'[c])
    BY <2>1, <2>3, NothingIsBuffered
  <2> QED
    BY <2>1, <2>2, <2>4 DEF BuffersInv
<1>2. CASE Camera!Disconnect
  <2>1. /\ connected' = FALSE /\ UNCHANGED <<session, images, assembled>>
        /\ imageBuffers' = [c \in Cameras |-> <<>>] /\ sending' = [c \in Cameras |-> Camera!Nothing]
    BY <1>2 DEF Camera!Disconnect, Camera!ResetReassembly
  <2>2. /\ imageBuffers' \in [Cameras -> Seq(Chunk)] /\ sending' \in [Cameras -> SendingRecord]
        /\ \A c \in Cameras : sending'[c] = Camera!Nothing /\ Buffered(sending'[c], imageBuffers'[c])
    BY <2>1, NothingIsBuffered
  <2> QED
    BY <2>1, <2>2 DEF BuffersInv
<1>3. ASSUME NEW c \in Cameras, NEW size \in Sizes, Camera!BeginImage(c, size) PROVE BuffersInv'
  <2> DEFINE s == [image |-> images + 1, size |-> size, sent |-> 0]
  <2>1. /\ connected /\ sending[c] = Camera!Nothing /\ images < MaxImages /\ images' = images + 1
        /\ sending' = [sending EXCEPT ![c] = s] /\ UNCHANGED <<session, connected, imageBuffers, assembled>>
    BY <1>3 DEF Camera!BeginImage
  <2>2. images' \in 0..MaxImages /\ images + 1 \in Nat
    BY <2>1, BoundsAssumption DEF BuffersInv
  <2>3. s \in SendingRecord /\ s.sent = 0 /\ s.size > 0
    BY <2>2, BoundsAssumption DEF SendingRecord
  <2> HIDE DEF s
  <2>4. Buffered(s, <<>>)
    BY <2>3, NothingIsBuffered
  <2>5. imageBuffers[c] = <<>>
    BY <2>1 DEF BuffersInv, Buffered
  <2>6. sending' \in [Cameras -> SendingRecord] /\ \A d \in Cameras : Buffered(sending'[d], imageBuffers'[d])
    BY <2>1, <2>3, <2>4, <2>5 DEF BuffersInv
  <2> QED
    BY <2>1, <2>2, <2>6 DEF BuffersInv
<1>4. ASSUME NEW c \in Cameras, Camera!HandleCameraImageResponse(c) PROVE BuffersInv'
  <2> DEFINE s == sending[c]
             b == imageBuffers[c]
             chunks == Append(b, <<s.image, s.sent + 1>>)
             done == s.sent + 1 = s.size
             tooLong == Len(chunks) > MaxImage
             bp == IF tooLong \/ done THEN <<>> ELSE chunks
             sp == IF done THEN Camera!Nothing ELSE [s EXCEPT !.sent = s.sent + 1]
             e == [camera |-> c, chunks |-> chunks, size |-> s.size, session |-> session]
  <2>1. /\ connected /\ s # Camera!Nothing /\ UNCHANGED <<session, connected, images>>
        /\ imageBuffers' = [imageBuffers EXCEPT ![c] = bp]
        /\ assembled' = IF done /\ ~tooLong THEN Append(assembled, e) ELSE assembled
    BY <1>4 DEF Camera!HandleCameraImageResponse, Camera!AcceptChunk, Camera!EmitImage, Camera!Event
  <2>2. sending' = [sending EXCEPT ![c] = sp]
    BY <1>4 DEF Camera!HandleCameraImageResponse, BuffersInv
  <2>3. s \in SendingRecord /\ b \in Seq(Chunk) /\ Buffered(s, b) /\ assembled \in Seq(ImageRecord)
        /\ session \in Nat /\ s.size \in Nat /\ s.sent \in Nat /\ MaxImage \in Nat
    BY BoundsAssumption DEF BuffersInv, SendingRecord
  <2> HIDE DEF s, b
  <2>4. /\ chunks \in Seq(Chunk) /\ Len(chunks) \in Nat /\ Len(chunks) <= s.sent + 1 /\ s.sent + 1 <= s.size
        /\ s.size <= MaxImage => Len(chunks) = s.sent + 1
        /\ chunks # <<>> /\ Len(chunks) >= 1
        /\ \A j \in 1..Len(chunks) : chunks[j] = <<s.image, ((s.sent + 1) - Len(chunks)) + j>>
    BY <2>1, <2>3, ChunkIsAccepted
  <2> HIDE DEF chunks
  <2>5. sp \in SendingRecord /\ bp \in Seq(Chunk) /\ Buffered(sp, bp)
    <3>1. CASE done
      BY <3>1, NothingIsBuffered
    <3>2. CASE ~done
      <4>1. /\ sp \in SendingRecord /\ sp.sent = s.sent + 1 /\ sp.size = s.size /\ sp.image = s.image
            /\ sp.sent < sp.size /\ sp # Camera!Nothing
        <5>1. sp = [s EXCEPT !.sent = s.sent + 1] /\ s.sent + 1 < s.size
          BY <2>3, <2>4, <3>2
        <5>2. sp \in SendingRecord /\ sp.sent = s.sent + 1 /\ sp.size = s.size /\ sp.image = s.image
          BY <2>3, <5>1 DEF SendingRecord
        <5> HIDE DEF sp
        <5> QED
          BY <2>3, <5>1, <5>2 DEF Camera!Nothing
      <4> HIDE DEF sp
      <4>2. CASE tooLong
        <5>1. bp = <<>> /\ Len(bp) = 0 /\ bp \in Seq(Chunk)
          BY <4>2
        <5>2. ~(sp.size <= MaxImage)
          BY <2>3, <2>4, <4>1, <4>2
        <5> HIDE DEF bp
        <5> QED
          BY <2>3, <4>1, <5>1, <5>2 DEF Buffered
      <4>3. CASE ~tooLong
        <5>1. bp = chunks /\ Len(chunks) <= MaxImage
          BY <2>3, <2>4, <3>2, <4>3
        <5> HIDE DEF bp
        <5> QED
          BY <2>3, <2>4, <4>1, <5>1 DEF Buffered
      <4> QED
        BY <4>2, <4>3
    <3> QED
      BY <3>1, <3>2
  <2>6. assembled' \in Seq(ImageRecord) /\ \A i \in 1..Len(assembled') : IsWhole(assembled'[i])
    <3>1. CASE done /\ ~tooLong
      <4>1. e \in ImageRecord /\ e.chunks = chunks /\ e.size = s.sent + 1 /\ e.size = s.size
        BY <2>3, <2>4, <3>1 DEF ImageRecord
      <4>2. IsWhole(e)
        <5>1. chunks[1][1] = s.image
          <6>1. 1 \in 1..Len(chunks)
            BY <2>4
          <6> QED
            BY <2>4, <6>1
        <5>2. \A j \in 1..Len(chunks) : ((s.sent + 1) - Len(chunks)) + j = ((s.sent + 1) - Len(chunks) + 1) + j - 1
          BY <2>3, <2>4
        <5>3. s.size <= MaxImage => (s.sent + 1) - Len(chunks) + 1 = 1
          BY <2>3, <2>4
        <5> HIDE DEF e
        <5> QED
          BY <2>4, <4>1, <5>1, <5>2, <5>3 DEF IsWhole
      <4>3. assembled' = Append(assembled, e)
        BY <2>1, <3>1
      <4> HIDE DEF e
      <4>4. /\ assembled' \in Seq(ImageRecord) /\ Len(assembled') = Len(assembled) + 1
            /\ assembled'[Len(assembled) + 1] = e /\ \A i \in 1..Len(assembled) : assembled'[i] = assembled[i]
        BY <2>3, <4>1, <4>3
      <4>5. \A i \in 1..Len(assembled') : i \in 1..Len(assembled) \/ i = Len(assembled) + 1
        BY <2>3, <4>4
      <4> QED
        BY <4>2, <4>4, <4>5 DEF BuffersInv
    <3>2. CASE ~(done /\ ~tooLong)
      BY <2>1, <3>2 DEF BuffersInv
    <3> QED
      BY <3>1, <3>2
  <2> HIDE DEF sp, bp
  <2>7. /\ sending' \in [Cameras -> SendingRecord] /\ imageBuffers' \in [Cameras -> Seq(Chunk)]
        /\ \A d \in Cameras : Buffered(sending'[d], imageBuffers'[d])
    BY <2>1, <2>2, <2>5 DEF BuffersInv
  <2> QED
    BY <2>1, <2>6, <2>7 DEF BuffersInv
<1>5. CASE UNCHANGED <<session, connected, sending, images, imageBuffers, assembled>>
  BY <1>5 DEF BuffersInv
<1> QED
  BY <1>1, <1>2, <1>3, <1>4, <1>5 DEF Camera!Next, Camera!vars, Camera!Snapshot, Camera!Stream, Camera!StartStream,
     Camera!TakeImage, Camera!Abort, Camera!EndOfStream, Camera!StopStream

\* The images a call could return.
Later(x, em) == {i \in x.since + 1..Len(em) : em[i].camera = x.camera}

\* Camera!CallsGetTheirImage, of one call.
GotItsImage(x, em) ==
  x.image # <<>> =>
    \E i \in Later(x, em) : x.image[1] = em[i] /\ (x.kind = "snapshot" => \A j \in Later(x, em) : i <= j)

\* A live call has read the images up to the n-th, and the next ones are in its inbox: all of
\* them, unless its stream has ended.  A snapshot was not among those it read.
ReadUpTo(x, ib, em, n) ==
  /\ x.since <= n /\ n + Len(ib) <= Len(em)
  /\ x.stage \in Camera!Attached => n + Len(ib) = Len(em)
  /\ \A j \in 1..Len(ib) : ib[j] = em[n + j]
  /\ x.kind = "snapshot" => x.image = <<>> /\ \A j \in Later(x, em) : n < j

ReaderInv(x, ib, em) ==
  /\ x \in ConsumerRecord /\ ib \in Seq(ImageRecord) /\ x.since <= Len(em)
  /\ x.stage \notin Camera!Live => ib = <<>>
  /\ x.stage \in Camera!Live => \E n \in Nat : ReadUpTo(x, ib, em, n)
  /\ GotItsImage(x, em)

LEMMA ImageArrives ==
  ASSUME NEW x \in ConsumerRecord, NEW ib, NEW em \in Seq(ImageRecord), ReaderInv(x, ib, em),
         NEW e \in ImageRecord, NEW emp, emp = Append(em, e), NEW ibp,
         ibp = IF x.stage \in Camera!Attached THEN Append(ib, e) ELSE ib
  PROVE  ReaderInv(x, ibp, emp)
<1>1. /\ x \in ConsumerRecord /\ ib \in Seq(ImageRecord) /\ x.since \in Nat /\ x.since <= Len(em)
      /\ Len(em) \in Nat /\ Len(ib) \in Nat
  BY DEF ReaderInv, ConsumerRecord
<1>2. /\ emp \in Seq(ImageRecord) /\ Len(emp) = Len(em) + 1 /\ emp[Len(em) + 1] = e
      /\ \A i \in 1..Len(em) : emp[i] = em[i]
  OBVIOUS
<1>3. /\ \A i \in Later(x, em) : i \in Later(x, emp) /\ i \in 1..Len(em)
      /\ \A i \in Later(x, emp) : i \in Later(x, em) \/ i = Len(em) + 1
  BY <1>1, <1>2 DEF Later
<1>4. GotItsImage(x, emp)
  <2>1. \A i \in Later(x, em) : i <= Len(em) + 1 /\ emp[i] = em[i]
    BY <1>1, <1>2, <1>3
  <2> QED
    BY <1>3, <2>1 DEF GotItsImage, ReaderInv
<1>5. ibp \in Seq(ImageRecord) /\ (x.stage \notin Camera!Live => ibp = <<>>)
  BY <1>1 DEF ReaderInv, Camera!Live
<1>6. ASSUME x.stage \in Camera!Live PROVE \E n \in Nat : ReadUpTo(x, ibp, emp, n)
  <2>1. PICK n \in Nat : ReadUpTo(x, ib, em, n)
    BY <1>6 DEF ReaderInv
  <2>2. x.kind = "snapshot" => x.image = <<>> /\ \A j \in Later(x, emp) : n < j
    BY <1>1, <1>3, <2>1 DEF ReadUpTo
  <2>3. \A j \in 1..Len(ib) : n + j \in 1..Len(em) /\ ib[j] = emp[n + j]
    <3>1. \A j \in 1..Len(ib) : n + j \in 1..Len(em)
      BY <1>1, <2>1 DEF ReadUpTo
    <3> QED
      BY <1>2, <2>1, <3>1 DEF ReadUpTo
  <2>4. CASE x.stage \in Camera!Attached
    <3>1. /\ Len(ibp) = Len(ib) + 1 /\ ibp[Len(ib) + 1] = e /\ \A j \in 1..Len(ib) : ibp[j] = ib[j]
          /\ n + Len(ib) = Len(em)
      BY <1>1, <2>1, <2>4 DEF ReadUpTo
    <3>2. \A j \in 1..Len(ibp) : j \in 1..Len(ib) \/ j = Len(ib) + 1
      BY <1>1, <3>1
    <3>3. n + (Len(ib) + 1) = Len(em) + 1
      BY <1>1, <3>1
    <3>4. ASSUME NEW j \in 1..Len(ibp) PROVE ibp[j] = emp[n + j]
      <4>1. CASE j \in 1..Len(ib)
        BY <1>2, <2>3, <3>1, <4>1
      <4>2. CASE j = Len(ib) + 1
        BY ONLY <1>2, <3>1, <3>3, <4>2
      <4> QED
        BY <3>2, <4>1, <4>2
    <3>5. /\ x.since <= n /\ n + Len(ibp) <= Len(emp) /\ n + Len(ibp) = Len(emp)
      BY <1>1, <1>2, <2>1, <3>1, <3>3 DEF ReadUpTo
    <3>6. ReadUpTo(x, ibp, emp, n)
      BY ONLY <2>2, <3>4, <3>5 DEF ReadUpTo
    <3> QED
      BY <3>6
  <2>5. CASE x.stage \notin Camera!Attached
    BY <1>1, <1>2, <2>1, <2>2, <2>3, <2>5 DEF ReadUpTo
  <2> QED
    BY <2>4, <2>5
<1> QED
  BY <1>1, <1>2, <1>4, <1>5, <1>6 DEF ReaderInv

\* The queue of a slow stream() drops its oldest image: the next ones are still in it.
LEMMA ImageIsDropped ==
  ASSUME NEW x \in ConsumerRecord, NEW ib, NEW em \in Seq(ImageRecord), ReaderInv(x, ib, em),
         x.stage \in Camera!Attached, x.kind = "stream", ib # <<>>
  PROVE  ReaderInv(x, Tail(ib), em)
<1>1. /\ ib \in Seq(ImageRecord) /\ x.since \in Nat /\ Len(em) \in Nat /\ Len(ib) \in Nat /\ Len(ib) >= 1
      /\ x.since <= Len(em) /\ x.stage \in Camera!Live
  BY DEF ReaderInv, ConsumerRecord, Camera!Live
<1>2. /\ Tail(ib) \in Seq(ImageRecord) /\ Len(Tail(ib)) = Len(ib) - 1
      /\ \A i \in 1..Len(Tail(ib)) : Tail(ib)[i] = ib[i + 1]
  BY <1>1, HeadTailProperties
<1>3. PICK n \in Nat : ReadUpTo(x, ib, em, n)
  BY <1>1 DEF ReaderInv
<1>4. /\ x.since <= n + 1 /\ (n + 1) + Len(Tail(ib)) = n + Len(ib) /\ n + 1 \in Nat
      /\ \A j \in 1..Len(Tail(ib)) : j + 1 \in 1..Len(ib) /\ n + (j + 1) = (n + 1) + j
  BY <1>1, <1>2, <1>3 DEF ReadUpTo
<1>5. \A j \in 1..Len(Tail(ib)) : Tail(ib)[j] = em[(n + 1) + j]
  BY <1>2, <1>3, <1>4 DEF ReadUpTo
<1>6. ReadUpTo(x, Tail(ib), em, n + 1)
  BY <1>1, <1>3, <1>4, <1>5 DEF ReadUpTo
<1> QED
  BY <1>1, <1>2, <1>4, <1>6 DEF ReaderInv

\* A call moves on: its stream is read, ends, or it is over and its inbox goes.
LEMMA CallMovesOn ==
  ASSUME NEW x \in ConsumerRecord, NEW ib, NEW em \in Seq(ImageRecord), ReaderInv(x, ib, em),
         NEW stage \in Stages, NEW ibp,
         stage \in Camera!Attached => x.stage \in Camera!Attached,
         stage \in Camera!Live => x.stage \in Camera!Live /\ ibp = ib,
         stage \notin Camera!Live => ibp = <<>>
  PROVE  ReaderInv([x EXCEPT !.stage = stage], ibp, em)
<1> DEFINE xp == [x EXCEPT !.stage = stage]
<1>1. /\ xp \in ConsumerRecord /\ xp.stage = stage /\ xp.kind = x.kind /\ xp.camera = x.camera
      /\ xp.since = x.since /\ xp.image = x.image
  BY DEF ConsumerRecord
<1> HIDE DEF xp
<1>2. Later(xp, em) = Later(x, em) /\ <<>> \in Seq(ImageRecord)
  BY <1>1 DEF Later
<1>3. GotItsImage(xp, em)
  BY <1>1, <1>2 DEF ReaderInv, GotItsImage
<1>4. stage \in Camera!Live => \E n \in Nat : ReadUpTo(xp, ibp, em, n)
  BY <1>1, <1>2 DEF ReaderInv, ReadUpTo
<1> QED
  BY <1>1, <1>2, <1>3, <1>4 DEF ReaderInv, xp

LEMMA CallBegins ==
  ASSUME NEW em \in Seq(ImageRecord), NEW x \in ConsumerRecord, x.since = Len(em), x.image = <<>>
  PROVE  ReaderInv(x, <<>>, em)
<1>1. Len(em) \in Nat /\ Len(<<>>) = 0 /\ <<>> \in Seq(ImageRecord)
  OBVIOUS
<1>2. Later(x, em) = {}
  BY <1>1 DEF Later
<1>3. ReadUpTo(x, <<>>, em, Len(em))
  BY <1>1, <1>2 DEF ReadUpTo
<1> QED
  BY <1>1, <1>3 DEF ReaderInv, GotItsImage

\* The loop reads the next image: of another camera, or its own.
LEMMA ImageIsRead ==
  ASSUME NEW x \in ConsumerRecord, NEW ib, NEW em \in Seq(ImageRecord), ReaderInv(x, ib, em),
         x.stage \in Camera!Live, ib # <<>>,
         NEW mine \in BOOLEAN, mine <=> Head(ib).camera = x.camera,
         NEW returns \in BOOLEAN, returns <=> mine /\ x.kind = "snapshot",
         NEW xp \in ConsumerRecord, xp.kind = x.kind, xp.camera = x.camera, xp.since = x.since,
         mine => xp.image = <<Head(ib)>>, ~mine => xp.image = x.image,
         returns => xp.stage = "resolved", ~returns => xp.stage = x.stage
  PROVE  ReaderInv(xp, IF returns THEN <<>> ELSE Tail(ib), em)
<1>1. /\ x \in ConsumerRecord /\ ib \in Seq(ImageRecord) /\ x.since \in Nat /\ Len(em) \in Nat
      /\ Len(ib) \in Nat /\ Len(ib) >= 1 /\ x.since <= Len(em)
  BY DEF ReaderInv, ConsumerRecord
<1>2. /\ Tail(ib) \in Seq(ImageRecord) /\ Len(Tail(ib)) = Len(ib) - 1 /\ Head(ib) = ib[1]
      /\ Head(ib) \in ImageRecord /\ \A i \in 1..Len(Tail(ib)) : Tail(ib)[i] = ib[i + 1]
  BY <1>1, HeadTailProperties
<1>3. PICK n \in Nat : ReadUpTo(x, ib, em, n)
  BY DEF ReaderInv
<1>4. n + 1 \in x.since + 1..Len(em) /\ Head(ib) = em[n + 1]
  BY <1>1, <1>2, <1>3 DEF ReadUpTo
<1>5. /\ xp \in ConsumerRecord /\ xp.kind = x.kind /\ xp.camera = x.camera /\ xp.since = x.since
      /\ mine => xp.image = <<Head(ib)>> /\ xp.image[1] = Head(ib)
      /\ ~mine => xp.image = x.image
  OBVIOUS
<1>6. Later(xp, em) = Later(x, em)
  BY <1>5 DEF Later
<1>7. mine <=> n + 1 \in Later(x, em)
  BY <1>4 DEF Later
<1>8. x.kind = "snapshot" => x.image = <<>> /\ \A j \in Later(x, em) : n + 1 <= j
  BY <1>1, <1>3 DEF ReadUpTo, Later
<1>9. GotItsImage(xp, em)
  <2>1. CASE mine
    <3>1. xp.image[1] = em[n + 1] /\ n + 1 \in Later(xp, em)
      BY <1>4, <1>5, <1>6, <1>7, <2>1
    <3> QED
      BY <1>5, <1>6, <1>8, <3>1 DEF GotItsImage
  <2>2. CASE ~mine
    BY <1>5, <1>6, <2>2 DEF GotItsImage, ReaderInv
  <2> QED
    BY <2>1, <2>2
<1>10. CASE returns
  <2>1. xp.stage \notin Camera!Live /\ <<>> \in Seq(ImageRecord)
    BY <1>5, <1>10 DEF Camera!Live, Camera!Attached
  <2> QED
    BY <1>1, <1>5, <1>9, <1>10, <2>1 DEF ReaderInv
<1>11. CASE ~returns
  <2>1. /\ x.since <= n + 1 /\ (n + 1) + Len(Tail(ib)) = n + Len(ib) /\ n + 1 \in Nat
        /\ \A j \in 1..Len(Tail(ib)) : j + 1 \in 1..Len(ib) /\ n + (j + 1) = (n + 1) + j
    BY <1>1, <1>2, <1>3 DEF ReadUpTo
  <2>2. \A j \in 1..Len(Tail(ib)) : Tail(ib)[j] = em[(n + 1) + j]
    BY <1>2, <1>3, <2>1 DEF ReadUpTo
  <2>3. x.kind = "snapshot" => xp.image = <<>> /\ \A j \in Later(x, em) : n + 1 < j
    <3> SUFFICES ASSUME x.kind = "snapshot" PROVE xp.image = <<>> /\ \A j \in Later(x, em) : n + 1 < j
      OBVIOUS
    <3>1. ~mine /\ n + 1 \notin Later(x, em)
      BY <1>7, <1>11
    <3>2. \A j \in Later(x, em) : j \in Nat /\ n + 1 <= j /\ j # n + 1
      BY <1>1, <1>8, <3>1 DEF Later
    <3> QED
      BY <1>5, <1>8, <3>1, <3>2
  <2>4. ReadUpTo(xp, Tail(ib), em, n + 1)
    BY <1>1, <1>3, <1>5, <1>6, <1>11, <2>1, <2>2, <2>3 DEF ReadUpTo
  <2> QED
    BY <1>1, <1>2, <1>5, <1>9, <1>11, <2>1, <2>4 DEF ReaderInv
<1> QED
  BY <1>10, <1>11

ReadersInv ==
  /\ consumer \in [Consumers -> ConsumerRecord] /\ inbox \in [Consumers -> Seq(ImageRecord)]
  /\ \A k \in Consumers : ReaderInv(consumer[k], inbox[k], assembled)

LEMMA ReadersBegin == Camera!Init => ReadersInv
<1> SUFFICES ASSUME Camera!Init PROVE ReadersInv
  OBVIOUS
<1>1. /\ assembled = <<>> /\ consumer = [k \in Consumers |-> Camera!Unused]
      /\ inbox = [k \in Consumers |-> <<>>]
  BY DEF Camera!Init
<1>2. Camera!Unused \in ConsumerRecord /\ Camera!Unused.since = 0 /\ Camera!Unused.image = <<>>
  BY BoundsAssumption DEF Camera!Unused, ConsumerRecord, Stages
<1>3. assembled \in Seq(ImageRecord) /\ Len(assembled) = 0
  BY <1>1
<1> HIDE DEF Camera!Unused
<1>4. ReaderInv(Camera!Unused, <<>>, assembled)
  BY <1>2, <1>3, CallBegins
<1>5. inbox \in [Consumers -> Seq(ImageRecord)]
  BY <1>1
<1> QED
  BY <1>1, <1>2, <1>4, <1>5 DEF ReadersInv

\* Only one call is concerned.
LEMMA OneReaderMoves ==
  ASSUME ReadersInv, UNCHANGED assembled, NEW k \in Consumers, NEW xp, NEW ibp,
         ReaderInv(xp, ibp, assembled),
         consumer' = [consumer EXCEPT ![k] = xp], inbox' = [inbox EXCEPT ![k] = ibp]
  PROVE  ReadersInv'
<1>1. xp \in ConsumerRecord /\ ibp \in Seq(ImageRecord)
  BY DEF ReaderInv
<1>2. \A m \in Consumers : /\ consumer'[m] = IF m = k THEN xp ELSE consumer[m]
                           /\ inbox'[m] = IF m = k THEN ibp ELSE inbox[m]
  BY DEF ReadersInv
<1>3. \A m \in Consumers : ReaderInv(consumer'[m], inbox'[m], assembled')
  BY <1>2 DEF ReadersInv
<1> QED
  BY <1>1, <1>3 DEF ReadersInv

LEMMA ReadersStep == BuffersInv /\ ReadersInv /\ [Camera!Next]_(Camera!vars) => ReadersInv'
<1> SUFFICES ASSUME BuffersInv, ReadersInv, [Camera!Next]_(Camera!vars) PROVE ReadersInv'
  OBVIOUS
<1>0. /\ consumer \in [Consumers -> ConsumerRecord] /\ inbox \in [Consumers -> Seq(ImageRecord)]
      /\ assembled \in Seq(ImageRecord) /\ \A k \in Consumers : ReaderInv(consumer[k], inbox[k], assembled)
  BY DEF BuffersInv, ReadersInv
<1>1. CASE UNCHANGED <<consumer, inbox, assembled>>
  BY <1>0, <1>1 DEF ReadersInv
<1>2. ASSUME NEW c \in Cameras, Camera!HandleCameraImageResponse(c) PROVE ReadersInv'
  <2> DEFINE s == sending[c]
             chunks == Append(imageBuffers[c], <<s.image, s.sent + 1>>)
             e == [camera |-> c, chunks |-> chunks, size |-> s.size, session |-> session]
  <2>1. CASE UNCHANGED <<assembled, inbox>>
    BY <1>1, <1>2, <2>1 DEF Camera!HandleCameraImageResponse
  <2>2. CASE Camera!EmitImage(e)
    <3>1. /\ consumer' = consumer /\ assembled' = Append(assembled, e)
          /\ inbox' = [k \in Consumers |->
                         IF consumer[k].stage \in Camera!Attached THEN Append(Camera!RoomIn(k), e) ELSE inbox[k]]
      BY <1>2, <2>2 DEF Camera!HandleCameraImageResponse, Camera!EmitImage
    <3>2. e \in ImageRecord
      <4>1. /\ s.image \in Nat /\ s.sent \in Nat /\ s.size \in Nat /\ session \in Nat
            /\ imageBuffers[c] \in Seq(Chunk)
        BY BoundsAssumption DEF BuffersInv, SendingRecord
      <4>2. chunks \in Seq(Chunk)
        BY <4>1 DEF Chunk
      <4> QED
        BY <4>1, <4>2 DEF ImageRecord
    <3> HIDE DEF e
    <3>3. ASSUME NEW k \in Consumers PROVE inbox'[k] \in Seq(ImageRecord) /\ ReaderInv(consumer'[k], inbox'[k], assembled')
      <4> DEFINE ib == IF consumer[k].stage \in Camera!Attached THEN Camera!RoomIn(k) ELSE inbox[k]
      <4>1. consumer[k] \in ConsumerRecord /\ ReaderInv(consumer[k], inbox[k], assembled)
        BY <1>0
      <4>2. ReaderInv(consumer[k], ib, assembled)
        <5>1. CASE ib = inbox[k]
          BY <4>1, <5>1
        <5>2. CASE ib # inbox[k]
          <6>1. /\ consumer[k].stage \in Camera!Attached /\ consumer[k].kind = "stream"
                /\ ib = Tail(inbox[k]) /\ Len(inbox[k]) >= Mark
            BY <5>2 DEF Camera!RoomIn
          <6>2. inbox[k] # <<>>
            BY <1>0, <6>1, BoundsAssumption
          <6> HIDE DEF ib
          <6> QED
            BY <1>0, <4>1, <6>1, <6>2, ImageIsDropped
        <5> QED
          BY <5>1, <5>2
      <4>3. inbox'[k] = IF consumer[k].stage \in Camera!Attached THEN Append(ib, e) ELSE ib
        BY <3>1
      <4> HIDE DEF ib
      <4>4. ReaderInv(consumer[k], inbox'[k], assembled')
        BY <1>0, <3>1, <3>2, <4>1, <4>2, <4>3, ImageArrives
      <4> QED
        BY <3>1, <4>4 DEF ReaderInv
    <3>4. inbox' \in [Consumers -> Seq(ImageRecord)]
      BY <3>1, <3>3
    <3> QED
      BY <1>0, <3>1, <3>3, <3>4 DEF ReadersInv
  <2> QED
    BY <1>2, <2>1, <2>2 DEF Camera!HandleCameraImageResponse, Camera!AcceptChunk, Camera!Event
<1>3. ASSUME NEW k \in Consumers, NEW c \in Cameras, NEW kind \in {"snapshot", "stream"},
             NEW stage \in {"called", "reading"}, consumer[k].stage = "none",
             Camera!BeginsCall(k, kind, c, stage), UNCHANGED <<inbox, assembled>>
      PROVE ReadersInv'
  <2> DEFINE x == [kind |-> kind, camera |-> c, stage |-> stage, since |-> Len(assembled), image |-> <<>>]
  <2>1. x \in ConsumerRecord /\ x.since = Len(assembled) /\ x.image = <<>>
    BY <1>0 DEF ConsumerRecord, Stages
  <2>2. consumer' = [consumer EXCEPT ![k] = x]
    BY <1>3 DEF Camera!BeginsCall
  <2> HIDE DEF x
  <2>3. ReaderInv(x, <<>>, assembled)
    BY <1>0, <2>1, CallBegins
  <2>4. inbox[k] = <<>>
    BY <1>0, <1>3 DEF ReaderInv, Camera!Live, Camera!Attached
  <2>5. inbox' = [inbox EXCEPT ![k] = <<>>]
    BY <1>0, <1>3, <2>4
  <2> QED
    BY <1>3, <2>2, <2>3, <2>5, OneReaderMoves
<1>4. ASSUME NEW k \in Consumers, NEW stage \in Stages, NEW ibp,
             stage \in Camera!Attached => consumer[k].stage \in Camera!Attached,
             stage \in Camera!Live => consumer[k].stage \in Camera!Live /\ ibp = inbox[k],
             stage \notin Camera!Live => ibp = <<>>,
             consumer' = [consumer EXCEPT ![k].stage = stage], inbox' = [inbox EXCEPT ![k] = ibp],
             UNCHANGED assembled
      PROVE ReadersInv'
  <2>1. ReaderInv([consumer[k] EXCEPT !.stage = stage], ibp, assembled)
    BY <1>0, <1>4, CallMovesOn
  <2>2. consumer' = [consumer EXCEPT ![k] = [consumer[k] EXCEPT !.stage = stage]]
    BY <1>4
  <2> QED
    BY <1>4, <2>1, <2>2, OneReaderMoves
<1>5. ASSUME NEW k \in Consumers, Camera!StartStream(k) PROVE ReadersInv'
  <2>1. /\ consumer[k].stage = "called" /\ consumer' = [consumer EXCEPT ![k].stage = "reading"]
        /\ UNCHANGED <<inbox, assembled>>
    BY <1>5 DEF Camera!StartStream
  <2>2. inbox' = [inbox EXCEPT ![k] = inbox[k]] /\ "reading" \in Stages
    BY <1>0, <2>1 DEF Stages
  <2> QED
    BY <1>4, <2>1, <2>2 DEF Camera!Live, Camera!Attached
<1>6. ASSUME NEW k \in Consumers, Camera!Abort(k) PROVE ReadersInv'
  <2>1. /\ consumer[k].stage \in Camera!Attached /\ consumer' = [consumer EXCEPT ![k].stage = "ending"]
        /\ UNCHANGED <<inbox, assembled>>
    BY <1>6 DEF Camera!Abort
  <2>2. inbox' = [inbox EXCEPT ![k] = inbox[k]] /\ "ending" \in Stages
    BY <1>0, <2>1 DEF Stages
  <2> QED
    BY <1>4, <2>1, <2>2 DEF Camera!Live, Camera!Attached
<1>7. ASSUME NEW k \in Consumers, Camera!EndOfStream(k) PROVE ReadersInv'
  <2>1. /\ inbox[k] = <<>> /\ consumer' = [consumer EXCEPT ![k].stage = "failed"]
        /\ UNCHANGED <<inbox, assembled>>
    BY <1>7 DEF Camera!EndOfStream
  <2>2. inbox' = [inbox EXCEPT ![k] = <<>>] /\ "failed" \in Stages
    BY <1>0, <2>1 DEF Stages
  <2> QED
    BY <1>4, <2>1, <2>2 DEF Camera!Live, Camera!Attached
<1>8. ASSUME NEW k \in Consumers, Camera!StopStream(k) PROVE ReadersInv'
  <2>1. /\ consumer' = [consumer EXCEPT ![k].stage = "stopped"] /\ inbox' = [inbox EXCEPT ![k] = <<>>]
        /\ UNCHANGED assembled /\ "stopped" \in Stages
    BY <1>8 DEF Camera!StopStream, Stages
  <2> QED
    BY <1>4, <2>1 DEF Camera!Live, Camera!Attached
<1>9. ASSUME NEW k \in Consumers, Camera!TakeImage(k) PROVE ReadersInv'
  <2> DEFINE x == consumer[k]
             ib == inbox[k]
             mine == Head(ib).camera = x.camera
             returns == mine /\ x.kind = "snapshot"
             xp == [x EXCEPT !.image = IF mine THEN <<Head(ib)>> ELSE x.image,
                             !.stage = IF returns THEN "resolved" ELSE x.stage]
  <2>1. /\ x.stage \in Camera!Live /\ ib # <<>> /\ UNCHANGED assembled
        /\ x \in ConsumerRecord /\ ib \in Seq(ImageRecord) /\ ReaderInv(x, ib, assembled)
    BY <1>0, <1>9 DEF Camera!TakeImage, Camera!Live, Camera!Attached
  <2>2. inbox' = [inbox EXCEPT ![k] = IF returns THEN <<>> ELSE Tail(ib)]
    BY <1>0, <1>9 DEF Camera!TakeImage
  <2>3. consumer' = [consumer EXCEPT ![k] = xp]
    BY <1>0, <1>9 DEF Camera!TakeImage, ConsumerRecord
  <2>4. <<Head(ib)>> \in Seq(ImageRecord)
    BY <2>1
  <2>5. /\ xp \in ConsumerRecord /\ xp.kind = x.kind /\ xp.camera = x.camera /\ xp.since = x.since
        /\ mine => xp.image = <<Head(ib)>>
        /\ ~mine => xp.image = x.image
        /\ returns => xp.stage = "resolved"
        /\ ~returns => xp.stage = x.stage
    BY <2>1, <2>4 DEF ConsumerRecord, Stages
  <2>6. mine \in BOOLEAN /\ returns \in BOOLEAN
    OBVIOUS
  <2> HIDE DEF xp
  <2>7. ReaderInv(xp, IF returns THEN <<>> ELSE Tail(ib), assembled)
    BY <1>0, <2>1, <2>5, <2>6, ImageIsRead
  <2> QED
    BY <2>1, <2>2, <2>3, <2>7, OneReaderMoves
<1>10. ASSUME NEW k \in Consumers, NEW c \in Cameras, Camera!Snapshot(k, c) \/ Camera!Stream(k, c) PROVE ReadersInv'
  BY <1>3, <1>10 DEF Camera!Snapshot, Camera!Stream
<1>11. CASE Camera!Connect \/ Camera!Disconnect \/ \E c \in Cameras, size \in Sizes : Camera!BeginImage(c, size)
  BY <1>1, <1>11 DEF Camera!Connect, Camera!Disconnect, Camera!BeginImage
<1>12. CASE UNCHANGED Camera!vars
  BY <1>1, <1>12 DEF Camera!vars
<1> QED
  BY <1>2, <1>5, <1>6, <1>7, <1>8, <1>9, <1>10, <1>11, <1>12 DEF Camera!Next

\* CameraApi's acceptChunk(), resetReassembly(), snapshot() and stream(): an image is emitted
\* without a gap and of one transfer, and a call gets the first one of its camera.
THEOREM ImagesAreWhole == MCSpec => []SnapshotsAreWhole
<1>1. MCInit => BuffersInv /\ ReadersInv
  BY BuffersBegin, ReadersBegin DEF MCInit
<1>2. BuffersInv /\ ReadersInv /\ [MCNext]_mcVars => (BuffersInv /\ ReadersInv)'
  <2>1. [MCNext]_mcVars => [Camera!Next]_(Camera!vars)
    BY DEF MCNext, mcVars, cameraVars, Camera!vars
  <2> QED
    BY <2>1, BuffersStep, ReadersStep
<1>3. BuffersInv /\ ReadersInv => SnapshotsAreWhole
  <2>1. BuffersInv => Camera!ImagesAreNeverMixed
    BY DEF BuffersInv, IsWhole, Camera!ImagesAreNeverMixed
  <2>2. ReadersInv => Camera!CallsGetTheirImage
    BY DEF ReadersInv, ReaderInv, GotItsImage, Later, Camera!CallsGetTheirImage
  <2> QED
    BY <2>1, <2>2 DEF SnapshotsAreWhole
<1> QED
  BY <1>1, <1>2, <1>3, PTL DEF MCSpec

-----------------------------------------------------------------------------
(* All of them. *)

AllInv ==
  /\ IInv /\ StreamsOK /\ OrderInv
  /\ CommandsShape /\ CallsInv /\ BuffersInv /\ ReadersInv
  /\ CorrelationInv

LEMMA AllHolds == MCSpec => []AllInv
<1>1. MCInit => AllInv
  BY InitIInv, BusBegins, CommandsBegin, BuffersBegin, ReadersBegin, CorrelationBegins DEF MCInit, AllInv
<1>2. AllInv /\ [MCNext]_mcVars => AllInv'
  <2> SUFFICES ASSUME AllInv, [MCNext]_mcVars PROVE AllInv'
    OBVIOUS
  <2>1. [Next]_vars
    BY DEF MCNext, mcVars
  <2>2. [Camera!Next]_(Camera!vars)
    BY DEF MCNext, mcVars, cameraVars, Camera!vars
  <2>3. [Command!Next]_(Command!vars)
    BY DEF MCNext, mcVars, commandVars, Command!vars
  <2>4. [Correlation!Next]_(Correlation!vars)
    BY DEF MCNext, mcVars, correlatorVars, Correlation!vars
  <2>5. IInv' /\ StreamsOK' /\ OrderInv'
    BY <2>1, NextIInv, BusStep DEF AllInv
  <2>6. CommandsShape' /\ CallsInv'
    BY <2>3, CommandsStep DEF AllInv
  <2>7. BuffersInv' /\ ReadersInv'
    BY <2>2, BuffersStep, ReadersStep DEF AllInv
  <2>8. CorrelationInv'
    BY <2>4, CorrelationStep DEF AllInv
  <2> QED
    BY <2>5, <2>6, <2>7, <2>8 DEF AllInv
<1> QED
  BY <1>1, <1>2, PTL DEF MCSpec

LEMMA RangeFacts ==
  ASSUME NEW a \in Seq(Nat)
  PROVE  \A p : p \in Range(a) <=> Arrived(a, p)
  BY DEF Range, Arrived

\* What InOrder says with places, EventBus says with Range.
LEMMA ItemsAreInOrder == OrderInv => ItemsKeepTheirOrder
<1> SUFFICES ASSUME OrderInv, NEW s \in Streams
             PROVE  /\ \A i, j \in 1..Len(arrived[s]) : arrived[s][i] = arrived[s][j] => i = j
                    /\ Range(Kept(s)) = Range(arrived[s]) \ dropped[s]
                    /\ \A i, j \in 1..Len(Kept(s)) :
                         i < j => \E p, q \in 1..Len(arrived[s]) :
                                    p < q /\ arrived[s][p] = Kept(s)[i] /\ arrived[s][q] = Kept(s)[j]
  BY DEF ItemsKeepTheirOrder
<1> DEFINE a == arrived[s]
           k == Kept(s)
           d == dropped[s]
<1>1. InOrder(a, k, d)
  BY DEF OrderInv, Streaming, StreamFits
<1> HIDE DEF a, k, d
<1>2. a \in Seq(Nat) /\ k \in Seq(Nat)
  BY <1>1 DEF InOrder
<1>3. (\A p : p \in Range(a) <=> Arrived(a, p)) /\ (\A p : p \in Range(k) <=> Arrived(k, p))
  BY <1>2, RangeFacts
<1>4. Range(k) = Range(a) \ d
  <2>1. ASSUME NEW p, Arrived(k, p) PROVE Arrived(a, p) /\ p \notin d
    <3>1. PICK i \in 1..Len(k) : k[i] = p
      BY <2>1 DEF Arrived
    <3>2. k[i] \notin d /\ Arrived(a, k[i])
      BY <1>1 DEF InOrder
    <3> QED
      BY <3>1, <3>2
  <2>2. ASSUME NEW p, Arrived(a, p), p \notin d PROVE Arrived(k, p)
    <3>1. PICK i \in 1..Len(a) : a[i] = p
      BY <2>2 DEF Arrived
    <3>2. a[i] \in d \/ Arrived(k, a[i])
      BY <1>1 DEF InOrder
    <3> QED
      BY <2>2, <3>1, <3>2
  <2> QED
    BY <1>3, <2>1, <2>2
<1>5. /\ \A i, j \in 1..Len(a) : a[i] = a[j] => i = j
      /\ \A i, j \in 1..Len(k) : i < j => \E p, q \in 1..Len(a) : p < q /\ a[p] = k[i] /\ a[q] = k[j]
  BY <1>1 DEF InOrder
<1> QED
  BY <1>4, <1>5 DEF a, k, d

\* EventBus's streams, commandAndAwait() and Correlator: whoever waits gets what was meant for
\* it, in order, whatever else happens at the same time.
THEOREM WhoWaitsGetsItsOwn == MCSpec => []WaitersGetTheirOwn
<1>1. AllInv => ItemsKeepTheirOrder
  BY ItemsAreInOrder DEF AllInv
<1>2. AllInv => Command!AnswersAreOfTheTarget
  BY DEF AllInv, CallsInv, CallInv, CallIsAnswered, CallShape, Mine, Command!AnswersAreOfTheTarget
<1>3. AllInv => Correlation!AnswersBelongToTheirKey
  BY DEF AllInv, CorrelationInv
<1>4. AllInv => WaitersGetTheirOwn
  BY <1>1, <1>2, <1>3 DEF WaitersGetTheirOwn
<1> QED
  BY AllHolds, <1>4, PTL

\* The types of the four modules: among them that no queue exceeds its mark, and that no
\* buffer of an image exceeds its limit.
THEOREM TypesAreCorrect == MCSpec => []MCTypeOK
<1>1. AllInv => TypeOK
  BY DEF AllInv, IInv, ListenersOK, StreamsOK, OrderInv, EmissionsFit, TypeOK
<1>2. AllInv => Camera!TypeOK
  <2> SUFFICES ASSUME AllInv PROVE Camera!TypeOK
    OBVIOUS
  <2>1. \A c \in Cameras : Len(imageBuffers[c]) <= MaxImage
    BY DEF AllInv, BuffersInv, Buffered
  <2>2. session \in 0..MaxSessions /\ connected \in BOOLEAN /\ images \in 0..MaxImages
    BY DEF AllInv, BuffersInv
  <2>3. ASSUME NEW k \in Consumers
        PROVE  /\ consumer[k].stage \in Camera!Live \cup {"none", "resolved", "failed", "stopped"}
               /\ inbox[k] # <<>> => consumer[k].stage \in Camera!Live
    <3>1. ReaderInv(consumer[k], inbox[k], assembled)
      BY DEF AllInv, ReadersInv
    <3> QED
      BY <3>1 DEF ReaderInv, ConsumerRecord, Stages, Camera!Live, Camera!Attached
  <2> QED
    BY <2>1, <2>2, <2>3 DEF Camera!TypeOK
<1>3. AllInv => Command!TypeOK
  <2> SUFFICES ASSUME AllInv PROVE Command!TypeOK
    OBVIOUS
  <2>1. ASSUME NEW c \in Awaits
        PROVE  /\ await[c].stage \in AwaitStages
               /\ \A i \in 1..Len(unread[c]) : unread[c][i] \in 1..Len(events)
    <3>1. CallInv(await[c], unread[c], refused[c], missed[c], events)
      BY DEF AllInv, CallsInv
    <3>2. await[c].stage \in AwaitStages /\ await[c].since \in Nat /\ Len(events) \in Nat
      BY <3>1 DEF CallInv, CallShape, AwaitRecord, AllInv, CommandsShape
    <3>3. \A i \in 1..Len(unread[c]) : unread[c][i] \in await[c].since + 1..Len(events)
      BY <3>1 DEF CallInv, CallInOrder
    <3> QED
      BY <3>2, <3>3
  <2> QED
    BY <2>1 DEF AllInv, CommandsShape, AwaitStages, Command!TypeOK
<1>4. AllInv => Correlation!TypeOK
  BY DEF AllInv, CorrelationInv
<1>5. AllInv => MCTypeOK
  BY <1>1, <1>2, <1>3, <1>4 DEF MCTypeOK
<1> QED
  BY AllHolds, <1>5, PTL
=============================================================================
