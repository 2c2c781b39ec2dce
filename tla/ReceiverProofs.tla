--------------------------- MODULE ReceiverProofs ---------------------------
(***************************************************************************)
(* Proofs about Receiver, for any number of types, waits and messages, and *)
(* about Entities, for any messages of any device.                         *)
(***************************************************************************)
EXTENDS MCReceiver, SequenceTheorems, FiniteSetTheorems, NaturalsInduction, WellFoundedInduction, TLAPS

-----------------------------------------------------------------------------
(* Sequences of message numbers. *)

Increasing(s) == \A i, j \in DOMAIN s : i < j => s[i] < s[j]

\* What appending, taking the oldest and replaying do to the messages of a sequence.
LEMMA RangeOfAppend ==
  ASSUME NEW S, NEW s \in Seq(S), NEW e \in S
  PROVE  Append(s, e) \in Seq(S) /\ Range(Append(s, e)) = Range(s) \cup {e}
<1>1. /\ Append(s, e) \in Seq(S) /\ Len(Append(s, e)) = Len(s) + 1
      /\ \A i \in 1..Len(s) : Append(s, e)[i] = s[i]
      /\ Append(s, e)[Len(s) + 1] = e
  BY AppendProperties
<1>2. Range(Append(s, e)) = {Append(s, e)[i] : i \in 1..Len(s) + 1} /\ Range(s) = {s[i] : i \in 1..Len(s)}
  BY <1>1, RangeEquality
<1>3. Len(s) \in Nat /\ 1..Len(s) + 1 = 1..Len(s) \cup {Len(s) + 1}
  OBVIOUS
<1> QED
  BY <1>1, <1>2, <1>3

LEMMA RangeOfTail ==
  ASSUME NEW S, NEW s \in Seq(S), s # <<>>
  PROVE  Tail(s) \in Seq(S) /\ Head(s) \in S /\ Range(s) = {Head(s)} \cup Range(Tail(s))
<1>1. /\ Tail(s) \in Seq(S) /\ Len(Tail(s)) = Len(s) - 1 /\ Len(s) \in Nat \ {0}
      /\ \A i \in 1..Len(Tail(s)) : Tail(s)[i] = s[i + 1]
      /\ Head(s) = s[1] /\ Head(s) \in S
  BY HeadTailProperties, EmptySeq
<1>2. Range(Tail(s)) = {Tail(s)[i] : i \in 1..Len(s) - 1} /\ Range(s) = {s[i] : i \in 1..Len(s)}
  BY <1>1, RangeEquality
<1>3. ASSUME NEW i \in 1..Len(s), i # 1 PROVE s[i] = Tail(s)[i - 1] /\ i - 1 \in 1..Len(s) - 1
  BY <1>1, <1>3
<1>4. ASSUME NEW i \in 1..Len(s) - 1 PROVE Tail(s)[i] = s[i + 1] /\ i + 1 \in 1..Len(s)
  BY <1>1, <1>4
<1>5. Range(s) \subseteq {Head(s)} \cup Range(Tail(s))
  <2> SUFFICES ASSUME NEW i \in 1..Len(s) PROVE s[i] \in {Head(s)} \cup Range(Tail(s))
    BY <1>2
  <2> QED
    BY <1>1, <1>2, <1>3
<1>6. Head(s) \in Range(s)
  BY <1>1, <1>2
<1>7. Range(Tail(s)) \subseteq Range(s)
  BY <1>2, <1>4
<1> QED
  BY <1>1, <1>5, <1>6, <1>7

LEMMA IncreasingAppend ==
  ASSUME NEW s \in Seq(Nat), NEW e \in Nat, Increasing(s), \A n \in Range(s) : n < e
  PROVE  Increasing(Append(s, e))
<1>1. \A i \in 1..Len(s) : s[i] \in Range(s)
  BY RangeEquality
<1> QED
  BY <1>1, AppendProperties DEF Increasing

LEMMA IncreasingTail ==
  ASSUME NEW s \in Seq(Nat), s # <<>>, Increasing(s)
  PROVE  Increasing(Tail(s)) /\ \A n \in Range(Tail(s)) : Head(s) < n
<1>1. /\ Tail(s) \in Seq(Nat) /\ Len(Tail(s)) = Len(s) - 1 /\ Len(s) \in Nat \ {0}
      /\ \A i \in 1..Len(Tail(s)) : Tail(s)[i] = s[i + 1]
      /\ Head(s) = s[1]
  BY HeadTailProperties, EmptySeq
<1>2. Range(Tail(s)) = {Tail(s)[i] : i \in 1..Len(Tail(s))}
  BY <1>1, RangeEquality
<1>3. \A i \in 1..Len(Tail(s)) : i + 1 \in 1..Len(s)
  BY <1>1
<1>4. Increasing(Tail(s))
  BY <1>1, <1>3 DEF Increasing
<1>5. \A i \in 1..Len(Tail(s)) : Head(s) < Tail(s)[i]
  BY <1>1, <1>3 DEF Increasing
<1> QED
  BY <1>2, <1>4, <1>5

LEMMA IncreasingConcat ==
  ASSUME NEW s \in Seq(Nat), NEW t \in Seq(Nat), Increasing(s), Increasing(t),
         \A m \in Range(s), n \in Range(t) : m < n
  PROVE  Increasing(s \o t)
<1>1. \A i \in 1..Len(s) : s[i] \in Range(s)
  BY RangeEquality
<1>2. \A i \in 1..Len(t) : t[i] \in Range(t)
  BY RangeEquality
<1>3. /\ s \o t \in Seq(Nat) /\ Len(s \o t) = Len(s) + Len(t) /\ Len(s) \in Nat /\ Len(t) \in Nat
      /\ \A i \in 1..Len(s) + Len(t) : (s \o t)[i] = IF i <= Len(s) THEN s[i] ELSE t[i - Len(s)]
  BY ConcatProperties
<1> SUFFICES ASSUME NEW i \in 1..Len(s) + Len(t), NEW j \in 1..Len(s) + Len(t), i < j
             PROVE  (s \o t)[i] < (s \o t)[j]
  BY <1>3 DEF Increasing
<1>4. CASE j <= Len(s)
  <2>1. i \in 1..Len(s) /\ j \in 1..Len(s)
    BY <1>3, <1>4
  <2> QED
    BY <1>3, <1>4, <2>1 DEF Increasing
<1>5. CASE i <= Len(s) /\ Len(s) < j
  <2>1. i \in 1..Len(s) /\ j - Len(s) \in 1..Len(t)
    BY <1>3, <1>5
  <2>2. s[i] < t[j - Len(s)]
    BY <1>1, <1>2, <2>1
  <2> QED
    BY <1>3, <1>5, <2>2
<1>6. CASE Len(s) < i
  <2>1. i - Len(s) \in 1..Len(t) /\ j - Len(s) \in 1..Len(t) /\ i - Len(s) < j - Len(s)
    BY <1>3, <1>6
  <2>2. t[i - Len(s)] < t[j - Len(s)]
    BY <2>1 DEF Increasing
  <2> QED
    BY <1>3, <1>6, <2>2
<1> QED
  BY <1>3, <1>4, <1>5, <1>6

\* Deleting one place of a sequence moves the later ones up by one.
LEMMA RemoveAtProperties ==
  ASSUME NEW S, NEW s \in Seq(S), NEW i \in DOMAIN s
  PROVE  /\ RemoveAt(s, i) \in Seq(S)
         /\ Len(RemoveAt(s, i)) = Len(s) - 1
         /\ \A j \in 1..Len(s) - 1 : RemoveAt(s, i)[j] = IF j < i THEN s[j] ELSE s[j + 1]
<1> DEFINE before == SubSeq(s, 1, i - 1)
           after == SubSeq(s, i + 1, Len(s))
<1>1. Len(s) \in Nat /\ i \in 1..Len(s) /\ \A j \in 1..Len(s) : s[j] \in S
  OBVIOUS
<1>2. before \in Seq(S) /\ Len(before) = i - 1 /\ \A j \in 1..i - 1 : before[j] = s[j]
  BY <1>1, SubSeqProperties
<1>3. /\ after \in Seq(S) /\ Len(after) = Len(s) - i
      /\ \A j \in 1..Len(s) - i : after[j] = s[i + j]
  BY <1>1, SubSeqProperties
<1>4. RemoveAt(s, i) = before \o after
  BY DEF RemoveAt
<1> HIDE DEF before, after
<1>5. /\ before \o after \in Seq(S) /\ Len(before \o after) = Len(before) + Len(after)
      /\ \A j \in 1..Len(before) + Len(after) :
           (before \o after)[j] = IF j <= Len(before) THEN before[j] ELSE after[j - Len(before)]
  BY <1>2, <1>3, ConcatProperties
<1>6. ASSUME NEW j \in 1..Len(s) - 1, j < i PROVE (before \o after)[j] = s[j]
  <2>1. j \in 1..i - 1 /\ j \in 1..Len(before) + Len(after) /\ j <= Len(before)
    BY <1>1, <1>2, <1>3, <1>6
  <2> QED
    BY <1>2, <1>5, <2>1
<1>7. ASSUME NEW j \in 1..Len(s) - 1, ~(j < i) PROVE (before \o after)[j] = s[j + 1]
  <2>1. j - (i - 1) \in 1..Len(s) - i /\ i + (j - (i - 1)) = j + 1
    BY <1>1, <1>7
  <2>2. j \in 1..Len(before) + Len(after) /\ ~(j <= Len(before)) /\ j - Len(before) = j - (i - 1)
    BY <1>1, <1>2, <1>3, <1>7
  <2>3. (before \o after)[j] = after[j - (i - 1)]
    BY <1>5, <2>2
  <2>4. after[j - (i - 1)] = s[i + (j - (i - 1))]
    BY <1>3, <2>1
  <2> QED
    BY <2>1, <2>3, <2>4
<1> QED
  <2>1. before \o after \in Seq(S) /\ Len(before \o after) = Len(s) - 1
    BY <1>1, <1>2, <1>3, <1>5
  <2>2. \A j \in 1..Len(s) - 1 : (before \o after)[j] = IF j < i THEN s[j] ELSE s[j + 1]
    BY <1>6, <1>7
  <2> QED
    BY <1>4, <2>1, <2>2

LEMMA RemoveInjective ==
  ASSUME NEW S, NEW s \in Seq(S), IsInjective(s), NEW i \in DOMAIN s
  PROVE  /\ IsInjective(RemoveAt(s, i))
         /\ Range(RemoveAt(s, i)) = Range(s) \ {s[i]}
<1> DEFINE r == RemoveAt(s, i)
           n == Len(s)
<1>1. /\ r \in Seq(S) /\ Len(r) = n - 1
      /\ \A j \in 1..n - 1 : r[j] = IF j < i THEN s[j] ELSE s[j + 1]
  BY RemoveAtProperties
<1>2. n \in Nat /\ DOMAIN s = 1..n /\ DOMAIN r = 1..n - 1
  BY <1>1
<1>3. Range(s) = {s[j] : j \in 1..n} /\ Range(r) = {r[j] : j \in 1..n - 1}
  BY <1>1, RangeEquality
<1>4. \A j, k \in 1..n : s[j] = s[k] => j = k
  BY <1>2 DEF IsInjective
<1> HIDE DEF r, n
<1>5. ASSUME NEW j \in 1..n - 1
      PROVE  r[j] \in {s[k] : k \in 1..n} /\ r[j] # s[i]
  <2>1. j \in 1..n /\ j + 1 \in 1..n /\ i \in 1..n
    BY <1>2
  <2>2. CASE j < i
    BY <1>1, <1>4, <2>1, <2>2
  <2>3. CASE ~(j < i)
    BY <1>1, <1>4, <2>1, <2>3
  <2> QED
    BY <2>2, <2>3
<1>6. ASSUME NEW j \in 1..n, j # i
      PROVE  s[j] \in {r[k] : k \in 1..n - 1}
  <2>1. CASE j < i
    <3>1. j \in 1..n - 1 /\ r[j] = s[j]
      BY <1>1, <1>2, <2>1
    <3> QED
      BY <3>1
  <2>2. CASE ~(j < i)
    <3>1. j - 1 \in 1..n - 1 /\ ~(j - 1 < i) /\ (j - 1) + 1 = j
      BY <1>2, <1>6, <2>2
    <3>2. r[j - 1] = s[j]
      BY <1>1, <3>1
    <3> QED
      BY <3>1, <3>2
  <2> QED
    BY <2>1, <2>2
<1>7. Range(r) = Range(s) \ {s[i]}
  BY <1>3, <1>5, <1>6
<1>8. ASSUME NEW j \in 1..n - 1, NEW k \in 1..n - 1, r[j] = r[k]
      PROVE  j = k
  <2>1. j \in 1..n /\ j + 1 \in 1..n /\ k \in 1..n /\ k + 1 \in 1..n /\ i \in Nat
    BY <1>2
  <2> QED
    BY <1>1, <1>4, <1>8, <2>1
<1>9. IsInjective(r)
  BY <1>2, <1>8 DEF IsInjective
<1> QED
  BY <1>7, <1>9 DEF r

LEMMA AppendNew ==
  ASSUME NEW S, NEW s \in Seq(S), IsInjective(s), NEW e \in S, e \notin Range(s)
  PROVE  IsInjective(Append(s, e))
<1>1. Range(s) = {s[j] : j \in 1..Len(s)} /\ Len(s) \in Nat /\ DOMAIN s = 1..Len(s)
  BY RangeEquality
<1>2. /\ DOMAIN Append(s, e) = 1..Len(s) + 1
      /\ \A j \in 1..Len(s) : Append(s, e)[j] = s[j]
      /\ Append(s, e)[Len(s) + 1] = e
  BY AppendProperties, LenProperties
<1>3. \A j \in 1..Len(s) + 1 : j = Len(s) + 1 \/ j \in 1..Len(s)
  BY <1>1
<1> QED
  BY <1>1, <1>2, <1>3 DEF IsInjective

LEMMA OneIsTheLast ==
  ASSUME NEW S, NEW s \in Seq(S), s # <<>>
  PROVE  Tail(s) = <<>> <=> Len(s) = 1
<1>1. Tail(s) \in Seq(S) /\ Len(Tail(s)) = Len(s) - 1 /\ Len(s) \in Nat
  BY HeadTailProperties, LenProperties
<1>2. Tail(s) = <<>> <=> Len(Tail(s)) = 0
  BY <1>1, EmptySeq
<1> QED
  BY <1>1, <1>2

-----------------------------------------------------------------------------
(* The inductive invariant. *)

\* The Map has an entry for each type with buffered messages and for no other.
MapListsTheBuffers ==
  /\ Range(order) = {t \in Types : buffer[t] # <<>>}
  /\ IsInjective(order)

\* The end of the pump is reported at most once because nothing was reported before it.
ReportsFollowTheEnd ==
  /\ phase = "setup" => reported = 0
  /\ pump # "ended" => reported = 0

\* The messages of a type, handed out or buffered.
Held(t) == Range(taken[t]) \cup Range(buffer[t])

\* No message is in two places.
OneFate ==
  /\ aside \cup dropped \subseteq 1..arrived
  /\ \A t \in Types : Held(t) \subseteq 1..arrived
  /\ aside \cap dropped = {}
  /\ \A t \in Types : Held(t) \cap (aside \cup dropped) = {}
  /\ \A t, u \in Types : t # u => Held(t) \cap Held(u) = {}

\* None is nowhere.
NoneIsMissing ==
  phase # "disposed" => 1..arrived \subseteq aside \cup dropped \cup UNION {Held(t) : t \in Types}

\* What was handed out is older than what is buffered.
InOrder ==
  \A t \in Types :
    /\ Increasing(taken[t]) /\ Increasing(buffer[t])
    /\ \A m \in Range(taken[t]), n \in Range(buffer[t]) : m < n

IInv ==
  /\ TypeOK
  /\ NoWaiterIsOverlooked
  /\ RunPhaseIsClean
  /\ LossReachesOwner
  /\ ReportsFollowTheEnd
  /\ MapListsTheBuffers
  /\ OneFate
  /\ NoneIsMissing
  /\ InOrder

LEMMA OfEmpty == Range(<<>>) = {} /\ Increasing(<<>>)
  BY DEF Range, Increasing

LEMMA InitIInv == Init => IInv
<1> SUFFICES ASSUME Init PROVE IInv
  OBVIOUS
<1> USE DEF Init
<1>1. TypeOK
  <2>1. pumpError \in BOOLEAN
    BY Zenon
  <2> QED
    BY <2>1 DEF TypeOK
<1>2. NoWaiterIsOverlooked /\ RunPhaseIsClean /\ LossReachesOwner /\ ReportsFollowTheEnd
  BY DEF NoWaiterIsOverlooked, RunPhaseIsClean, LossReachesOwner, ReportsFollowTheEnd, Parked
<1>3. MapListsTheBuffers
  BY DEF MapListsTheBuffers, Range, IsInjective
<1>4. \A t \in Types : Held(t) = {}
  BY OfEmpty DEF Held
<1>5. OneFate /\ NoneIsMissing
  BY <1>4 DEF OneFate, NoneIsMissing
<1>6. InOrder
  BY OfEmpty DEF InOrder, Increasing
<1> QED
  BY <1>1, <1>2, <1>3, <1>5, <1>6 DEF IInv

\* What the oldest message of a type leaves behind.
LEMMA TakeOldestTypes ==
  ASSUME TypeOK, NEW t \in Types, buffer[t] # <<>>, TakeOldest(t)
  PROVE  /\ buffer' = [buffer EXCEPT ![t] = Tail(buffer[t])]
         /\ Tail(buffer[t]) \in Seq(Nat) /\ Head(buffer[t]) \in Nat
         /\ order' \in Seq(Types)
<1>1. buffer[t] \in Seq(Nat) /\ order \in Seq(Types)
  BY DEF TypeOK
<1>2. Tail(buffer[t]) \in Seq(Nat) /\ Head(buffer[t]) \in Nat
  BY <1>1, HeadTailProperties
<1> QED
  BY <1>1, <1>2, RemoveAtProperties DEF TakeOldest

LEMMA NextTypeOK == TypeOK /\ [Next]_vars => TypeOK'
<1> SUFFICES ASSUME TypeOK, [Next]_vars PROVE TypeOK'
  OBVIOUS
<1> USE ReceiverAssumption DEF TypeOK, waitVars, history, vars
<1>1. ASSUME NEW w \in Waits, NEW types \in SUBSET Types, WaitFinds(w, types)
      PROVE  TypeOK'
  <2>1. PICK t \in types : buffer[t] # <<>> /\ TakeOldest(t) /\ Deliver(t, Head(buffer[t]))
    BY <1>1 DEF WaitFinds
  <2>2. /\ buffer' \in [Types -> Seq(Nat)] /\ order' \in Seq(Types)
        /\ Head(buffer[t]) \in Nat
    BY <2>1, TakeOldestTypes
  <2>3. taken' \in [Types -> Seq(Nat)]
    BY <2>1, <2>2 DEF Deliver
  <2> QED
    BY <1>1, <2>2, <2>3 DEF WaitFinds
<1>2. ASSUME NEW w \in Waits, NEW types \in SUBSET Types, WaitParks(w, types) \/ WaitThrows(w, types)
      PROVE  TypeOK'
  <2>1. UNCHANGED <<pumpError, interleave, buffer, order, arrived, history, reported>>
    BY <1>2 DEF WaitParks, WaitThrows
  <2>2. pump' \in {"idle", "running", "ended"} /\ phase' = phase
    BY <1>2 DEF WaitParks, WaitThrows, EnsurePump
  <2>3. /\ call' \in [Waits -> {"new", "parked", "resolved", "rejected"}]
        /\ wants' \in [Waits -> SUBSET Types]
    BY <1>2 DEF WaitParks, WaitThrows
  <2>4. ticket' \in [Waits -> Nat] /\ asked' \in Nat
    <3>1. \/ ticket' = ticket /\ asked' = asked
          \/ ticket' = [ticket EXCEPT ![w] = asked] /\ asked' = asked + 1
      BY <1>2 DEF WaitParks, WaitThrows
    <3>2. ticket \in [Waits -> Nat] /\ asked \in Nat
      OBVIOUS
    <3> QED
      BY ONLY <3>1, <3>2
  <2> QED
    BY <2>1, <2>2, <2>3, <2>4
<1>3. ASSUME NEW w \in Waits, Abort(w) PROVE TypeOK'
  BY <1>3 DEF Abort
<1>4. ASSUME NEW t \in Types, OnInterleave(t) \/ StopInterleave(t) PROVE TypeOK'
  BY <1>4 DEF OnInterleave, StopInterleave, EnsurePump
<1>5. ASSUME NEW t \in Types, Intercept(t) PROVE TypeOK'
  <2>1. pumpError' \in BOOLEAN
    BY <1>5, Zenon DEF Intercept
  <2>2. call' \in [Waits -> {"new", "parked", "resolved", "rejected"}]
    BY <1>5 DEF Intercept, Rejected
  <2> QED
    BY <1>5, <2>1, <2>2 DEF Intercept, Arrives
<1>6. ASSUME NEW t \in Types, Hand(t) \/ Drain(t) PROVE TypeOK'
  <2>1. call' \in [Waits -> {"new", "parked", "resolved", "rejected"}]
    BY <1>6 DEF Hand, Drain
  <2>2. arrived' \in Nat /\ Append(taken[t], arrived') \in Seq(Nat)
    BY <1>6, AppendProperties DEF Hand, Drain, Arrives
  <2>3. taken' \in [Types -> Seq(Nat)]
    BY <1>6, <2>2 DEF Hand, Drain, Deliver
  <2> QED
    BY <1>6, <2>1, <2>2, <2>3 DEF Hand, Drain
<1>7. ASSUME NEW t \in Types, Buffer(t) PROVE TypeOK'
  <2> DEFINE full == Append(buffer[t], arrived')
  <2>1. arrived' \in Nat /\ buffer[t] \in Seq(Nat)
    BY <1>7 DEF Buffer, Arrives
  <2>2. full \in Seq(Nat) /\ full # <<>>
    BY ONLY <2>1, AppendProperties
  <2>3. Tail(full) \in Seq(Nat) /\ Head(full) \in Nat
    BY <2>2, HeadTailProperties
  <2> HIDE DEF full
  <2>4. buffer' = [buffer EXCEPT ![t] = full] \/ buffer' = [buffer EXCEPT ![t] = Tail(full)]
    BY <1>7 DEF Buffer, full
  <2>5. dropped' = dropped \/ dropped' = dropped \cup {Head(full)}
    BY <1>7 DEF Buffer, full
  <2>6. order' \in Seq(Types)
    BY <1>7 DEF Buffer
  <2> QED
    BY <1>7, <2>1, <2>2, <2>3, <2>4, <2>5, <2>6 DEF Buffer
<1>8. CASE PumpStops
  BY <1>8 DEF PumpStops, Arrives
<1>9. ASSUME NEW error \in BOOLEAN, PumpEnds(error) PROVE TypeOK'
  BY <1>9 DEF PumpEnds, Rejected
<1>10. CASE StartDrain
  <2>1. taken' \in [Types -> Seq(Nat)]
    BY <1>10 DEF StartDrain
  <2> QED
    BY <1>10, <2>1 DEF StartDrain, EnsurePump, Rejected
<1>11. CASE Dispose
  BY <1>11 DEF Dispose, Rejected
<1>12. CASE UNCHANGED vars
  BY <1>12
<1> QED
  BY <1>1, <1>2, <1>3, <1>4, <1>5, <1>6, <1>7, <1>8, <1>9, <1>10, <1>11, <1>12 DEF Next

\* The waits, the phases of the receiver and its report.
LEMMA NextControl ==
  TypeOK /\ NoWaiterIsOverlooked /\ RunPhaseIsClean /\ LossReachesOwner /\ ReportsFollowTheEnd
    /\ [Next]_vars
  => (NoWaiterIsOverlooked /\ RunPhaseIsClean /\ LossReachesOwner /\ ReportsFollowTheEnd)'
<1> DEFINE Good == NoWaiterIsOverlooked /\ RunPhaseIsClean /\ LossReachesOwner /\ ReportsFollowTheEnd
<1> SUFFICES ASSUME TypeOK, Good, [Next]_vars PROVE Good'
  OBVIOUS
<1> USE DEF NoWaiterIsOverlooked, RunPhaseIsClean, LossReachesOwner, ReportsFollowTheEnd, Parked,
            waitVars, vars
<1>0. /\ buffer \in [Types -> Seq(Nat)] /\ order \in Seq(Types) /\ interleave \subseteq Types
      /\ call \in [Waits -> {"new", "parked", "resolved", "rejected"}]
      /\ wants \in [Waits -> SUBSET Types] /\ reported \in Nat
      /\ pump \in {"idle", "running", "ended"} /\ phase \in {"setup", "drain", "disposed"}
  BY DEF TypeOK
<1>1. ASSUME NEW w \in Waits, NEW types \in SUBSET Types, WaitFinds(w, types)
      PROVE  Good'
  <2>1. PICK t \in types : buffer[t] # <<>> /\ TakeOldest(t)
    BY <1>1 DEF WaitFinds
  <2>2. buffer' = [buffer EXCEPT ![t] = Tail(buffer[t])] /\ Tail(buffer[t]) \in Seq(Nat)
    BY <2>1, TakeOldestTypes
  <2>3. \A v \in Parked' : v \in Parked /\ wants'[v] = wants[v]
    BY <1>0, <1>1 DEF WaitFinds
  <2>4. \A v \in Parked : \A u \in wants[v] : u # t
    BY <2>1
  <2>5. NoWaiterIsOverlooked'
    BY <1>0, <2>2, <2>3, <2>4
  <2> QED
    BY <1>0, <1>1, <2>2, <2>5 DEF WaitFinds
<1>2. ASSUME NEW w \in Waits, NEW types \in SUBSET Types, WaitParks(w, types)
      PROVE  Good'
  BY <1>0, <1>2 DEF WaitParks, EnsurePump
<1>3. ASSUME NEW w \in Waits, NEW types \in SUBSET Types, WaitThrows(w, types)
      PROVE  Good'
  BY <1>0, <1>3 DEF WaitThrows
<1>4. ASSUME NEW w \in Waits, Abort(w) PROVE Good'
  BY <1>0, <1>4 DEF Abort
<1>5. ASSUME NEW t \in Types, OnInterleave(t) \/ StopInterleave(t) PROVE Good'
  BY <1>0, <1>5 DEF OnInterleave, StopInterleave, EnsurePump
<1>6. ASSUME NEW t \in Types, Intercept(t) PROVE Good'
  BY <1>0, <1>6 DEF Intercept, Arrives, Rejected
<1>7. ASSUME NEW t \in Types, Hand(t) PROVE Good'
  BY <1>0, <1>7 DEF Hand, Arrives
<1>8. ASSUME NEW t \in Types, Buffer(t) PROVE Good'
  <2>1. \A u \in Types : u # t => buffer'[u] = buffer[u]
    BY <1>0, <1>8 DEF Buffer
  <2>2. \A v \in Parked : \A u \in wants[v] : u # t
    BY <1>8 DEF Buffer
  <2> QED
    BY <1>0, <1>8, <2>1, <2>2 DEF Buffer, Arrives
<1>9. ASSUME NEW t \in Types, Drain(t) PROVE Good'
  BY <1>0, <1>9 DEF Drain, Arrives
<1>10. CASE PumpStops
  BY <1>0, <1>10 DEF PumpStops, Arrives
<1>11. ASSUME NEW error \in BOOLEAN, PumpEnds(error) PROVE Good'
  BY <1>0, <1>11 DEF PumpEnds, Rejected
<1>12. CASE StartDrain
  BY <1>0, <1>12 DEF StartDrain, EnsurePump, Rejected
<1>13. CASE Dispose
  BY <1>0, <1>13 DEF Dispose, Rejected
<1>14. CASE UNCHANGED vars
  BY <1>0, <1>14
<1> QED
  BY <1>1, <1>2, <1>3, <1>4, <1>5, <1>6, <1>7, <1>8, <1>9, <1>10, <1>11, <1>12, <1>13, <1>14
     DEF Next

\* The insertion order of the Map.
LEMMA NextMap ==
  TypeOK /\ RunPhaseIsClean /\ MapListsTheBuffers /\ [Next]_vars => MapListsTheBuffers'
<1> SUFFICES ASSUME TypeOK, RunPhaseIsClean, MapListsTheBuffers, [Next]_vars
             PROVE  MapListsTheBuffers'
  OBVIOUS
<1>0. buffer \in [Types -> Seq(Nat)] /\ order \in Seq(Types)
  BY DEF TypeOK
<1>1. ASSUME NEW w \in Waits, NEW types \in SUBSET Types, WaitFinds(w, types)
      PROVE  MapListsTheBuffers'
  <2>1. PICK t \in types : buffer[t] # <<>> /\ TakeOldest(t)
    BY <1>1 DEF WaitFinds
  <2>2. buffer' = [buffer EXCEPT ![t] = Tail(buffer[t])]
    BY <2>1, TakeOldestTypes
  <2>3. \A u \in Types : buffer'[u] = IF u = t THEN Tail(buffer[t]) ELSE buffer[u]
    BY <1>0, <2>2
  <2>4. Tail(buffer[t]) = <<>> <=> Len(buffer[t]) = 1
    BY <1>0, <2>1, OneIsTheLast
  <2>5. CASE Len(buffer[t]) = 1
    <3>1. PICK i \in DOMAIN order : order[i] = t /\ order' = RemoveAt(order, i)
      BY <2>1, <2>5 DEF TakeOldest
    <3>2. IsInjective(order') /\ Range(order') = Range(order) \ {t}
      BY <1>0, <3>1, RemoveInjective DEF MapListsTheBuffers
    <3> QED
      BY <2>3, <2>4, <2>5, <3>2 DEF MapListsTheBuffers
  <2>6. CASE Len(buffer[t]) # 1
    BY <2>1, <2>3, <2>4, <2>6 DEF MapListsTheBuffers, TakeOldest
  <2> QED
    BY <2>5, <2>6
<1>2. ASSUME NEW t \in Types, Buffer(t) PROVE MapListsTheBuffers'
  <2>1. arrived' \in Nat /\ buffer[t] \in Seq(Nat)
    BY <1>0, <1>2 DEF Buffer, Arrives, TypeOK
  <2>2. \A u \in Types : u # t => buffer'[u] = buffer[u]
    BY <1>0, <1>2 DEF Buffer
  <2>3. buffer'[t] # <<>>
    <3> DEFINE full == Append(buffer[t], arrived')
    <3>1. full \in Seq(Nat) /\ Len(full) = Len(buffer[t]) + 1 /\ Len(buffer[t]) \in Nat /\ full # <<>>
      <4>1. full \in Seq(Nat) /\ Len(full) = Len(buffer[t]) + 1 /\ Len(buffer[t]) \in Nat
        BY ONLY <2>1, AppendProperties, LenProperties
      <4>2. Len(<<>>) = 0
        OBVIOUS
      <4> QED
        BY ONLY <4>1, <4>2
    <3> HIDE DEF full
    <3>2. Tail(full) = <<>> <=> Len(full) = 1
      BY <3>1, OneIsTheLast
    <3>3. buffer'[t] = IF Len(full) > HighWater THEN Tail(full) ELSE full
      BY <1>0, <1>2 DEF Buffer, full
    <3> QED
      BY <3>1, <3>2, <3>3, ReceiverAssumption
  <2>4. CASE buffer[t] = <<>>
    <3>1. order' = Append(order, t) /\ t \notin Range(order)
      BY <1>2, <2>4 DEF Buffer, MapListsTheBuffers
    <3>2. IsInjective(order') /\ Range(order') = Range(order) \cup {t}
      BY <1>0, <3>1, RangeOfAppend, AppendNew DEF MapListsTheBuffers
    <3> QED
      BY <2>2, <2>3, <3>2 DEF MapListsTheBuffers
  <2>5. CASE buffer[t] # <<>>
    BY <1>2, <2>2, <2>3, <2>5 DEF MapListsTheBuffers, Buffer
  <2> QED
    BY <2>4, <2>5
<1>3. CASE StartDrain \/ Dispose
  <2>1. order' = <<>> /\ \A t \in Types : buffer'[t] = <<>>
    BY <1>3 DEF StartDrain, Dispose
  <2>2. IsInjective(<<>>)
    BY DEF IsInjective
  <2> QED
    BY <2>1, <2>2, OfEmpty DEF MapListsTheBuffers
<1>4. CASE UNCHANGED <<buffer, order>>
  BY <1>4 DEF MapListsTheBuffers
<1> QED
  BY <1>1, <1>2, <1>3, <1>4
     DEF Next, vars, WaitParks, WaitThrows, Abort, OnInterleave, StopInterleave, Intercept, Hand,
         Drain, PumpStops, PumpEnds

\* A message joins one of the places; no message leaves the one it is in.
LEMMA OneMoreMessage ==
  ASSUME TypeOK, OneFate, arrived' = arrived + 1
  PROVE  /\ arrived' \in 1..arrived' /\ 1..arrived' = 1..arrived \cup {arrived'}
         /\ arrived' \notin aside \cup dropped
         /\ \A t \in Types : arrived' \notin Held(t) /\ \A n \in Held(t) : n < arrived'
<1>1. arrived \in Nat /\ arrived' \notin 1..arrived /\ \A n \in 1..arrived : n < arrived'
  BY DEF TypeOK
<1> QED
  BY <1>1 DEF OneFate

\* A message of type t arrives and costs those of L.
LEMMA FatesAfterArrival ==
  ASSUME TypeOK, OneFate, NoneIsMissing, NEW t \in Types, NEW L,
         L \subseteq Held(t) \cup {arrived'},
         \A u \in Types :
           Held(u)' = IF u = t THEN (Held(t) \cup {arrived'}) \ L ELSE Held(u),
         arrived' = arrived + 1, phase' = phase, aside' = aside, dropped' = dropped \cup L
  PROVE  OneFate' /\ NoneIsMissing'
<1>1. /\ 1..arrived' = 1..arrived \cup {arrived'} /\ arrived' \notin aside \cup dropped
      /\ \A u \in Types : arrived' \notin Held(u)
  BY OneMoreMessage
<1>2. /\ (aside \cup dropped)' \subseteq 1..arrived' /\ \A u \in Types : Held(u)' \subseteq 1..arrived'
      /\ (aside \cap dropped)' = {}
  BY <1>1 DEF OneFate
<1>3. \A u \in Types : Held(u)' \cap (aside \cup dropped)' = {}
  BY <1>1 DEF OneFate
<1>4. \A u, v \in Types : u # v => Held(u)' \cap Held(v)' = {}
  BY <1>1 DEF OneFate
<1>5. NoneIsMissing'
  <2> SUFFICES ASSUME phase # "disposed", NEW n \in 1..arrived', n \notin (aside \cup dropped)'
               PROVE  \E u \in Types : n \in Held(u)'
    BY DEF NoneIsMissing
  <2>1. CASE n = arrived'
    BY <2>1
  <2>2. CASE n # arrived'
    <3>1. PICK u \in Types : n \in Held(u)
      BY <1>1, <2>2 DEF NoneIsMissing
    <3> QED
      BY <3>1
  <2> QED
    BY <2>1, <2>2
<1> QED
  BY <1>2, <1>3, <1>4, <1>5 DEF OneFate

\* A message that goes straight to its taker.
LEMMA PassesOn ==
  ASSUME TypeOK, OneFate, NoneIsMissing, InOrder, NEW t \in Types,
         arrived' = arrived + 1, Deliver(t, arrived'), buffer[t] = <<>>,
         UNCHANGED <<phase, buffer, aside, dropped>>
  PROVE  (OneFate /\ NoneIsMissing /\ InOrder)'
<1>1. arrived' \in Nat /\ taken \in [Types -> Seq(Nat)]
  BY DEF TypeOK
<1>2. \A u \in Types : taken'[u] = IF u = t THEN Append(taken[t], arrived') ELSE taken[u]
  BY <1>1 DEF Deliver
<1>3. Range(taken'[t]) = Range(taken[t]) \cup {arrived'}
  BY <1>1, <1>2, RangeOfAppend
<1>4. \A u \in Types : Held(u)' = IF u = t THEN Held(t) \cup {arrived'} ELSE Held(u)
  BY <1>2, <1>3 DEF Held
<1>5. OneFate'
  BY <1>4, OneMoreMessage DEF OneFate
<1>6. NoneIsMissing'
  BY <1>4, OneMoreMessage DEF NoneIsMissing
<1>7. Increasing(taken'[t])
  <2>1. \A n \in Range(taken[t]) : n < arrived'
    BY OneMoreMessage DEF Held
  <2> QED
    BY <1>1, <1>2, <2>1, IncreasingAppend DEF InOrder
<1>8. Range(buffer'[t]) = {}
  BY OfEmpty
<1>9. InOrder'
  BY <1>2, <1>7, <1>8 DEF InOrder
<1> QED
  BY <1>5, <1>6, <1>9

\* A message that joins its buffer, and may cost the oldest one.
LEMMA Joins ==
  ASSUME TypeOK, OneFate, NoneIsMissing, InOrder, NEW t \in Types, Buffer(t)
  PROVE  (OneFate /\ NoneIsMissing /\ InOrder)'
<1> DEFINE full == Append(buffer[t], arrived')
<1>1. /\ arrived' = arrived + 1 /\ arrived' \in Nat
      /\ buffer \in [Types -> Seq(Nat)] /\ buffer[t] \in Seq(Nat)
      /\ UNCHANGED <<phase, taken, aside>>
  BY DEF TypeOK, Buffer, Arrives
<1>2. /\ full \in Seq(Nat) /\ full # <<>> /\ Increasing(full)
      /\ Range(full) = Range(buffer[t]) \cup {arrived'}
  <2>1. \A n \in Range(buffer[t]) : n < arrived'
    BY <1>1, OneMoreMessage DEF Held
  <2>2. Increasing(buffer[t])
    BY DEF InOrder
  <2> QED
    BY ONLY <1>1, <2>1, <2>2, RangeOfAppend, IncreasingAppend, AppendProperties
<1>3. \/ /\ buffer' = [buffer EXCEPT ![t] = full] /\ dropped' = dropped
      \/ /\ buffer' = [buffer EXCEPT ![t] = Tail(full)] /\ dropped' = dropped \cup {Head(full)}
  BY DEF Buffer
<1> HIDE DEF full
<1>4. \A m \in Range(taken[t]), n \in Range(full) : m < n
  BY <1>1, <1>2, OneMoreMessage DEF InOrder, Held
<1>5. \A u \in Types : u # t => buffer'[u] = buffer[u] /\ taken'[u] = taken[u] /\ Held(u)' = Held(u)
  BY <1>1, <1>3 DEF Held
<1>6. CASE buffer' = [buffer EXCEPT ![t] = full] /\ dropped' = dropped
  <2>1. buffer'[t] = full
    BY <1>1, <1>6
  <2>2. \A u \in Types : Held(u)' = IF u = t THEN (Held(t) \cup {arrived'}) \ {} ELSE Held(u)
    BY <1>1, <1>2, <1>5, <2>1 DEF Held
  <2>3. OneFate' /\ NoneIsMissing'
    BY <1>1, <1>6, <2>2, FatesAfterArrival
  <2>4. InOrder'
    BY <1>1, <1>2, <1>4, <1>5, <2>1 DEF InOrder
  <2> QED
    BY <2>3, <2>4
<1>7. CASE buffer' = [buffer EXCEPT ![t] = Tail(full)] /\ dropped' = dropped \cup {Head(full)}
  <2>1. /\ Range(full) = {Head(full)} \cup Range(Tail(full))
        /\ Increasing(Tail(full)) /\ \A n \in Range(Tail(full)) : Head(full) < n
        /\ Head(full) \in Nat
    BY <1>2, RangeOfTail, IncreasingTail
  <2>2. Head(full) \notin Range(Tail(full)) /\ Head(full) \notin Range(taken[t])
    BY <1>4, <2>1
  <2>3. buffer'[t] = Tail(full)
    BY <1>1, <1>7
  <2>4. /\ \A u \in Types :
             Held(u)' = IF u = t THEN (Held(t) \cup {arrived'}) \ {Head(full)} ELSE Held(u)
        /\ Head(full) \in Held(t) \cup {arrived'}
    <3>1. Held(t)' = (Held(t) \cup {arrived'}) \ {Head(full)}
      BY <1>1, <1>2, <2>1, <2>2, <2>3 DEF Held
    <3> QED
      BY <1>2, <1>5, <2>1, <3>1 DEF Held
  <2>5. {Head(full)} \subseteq Held(t) \cup {arrived'}
    BY <2>4
  <2>6. OneFate' /\ NoneIsMissing'
    BY <1>1, <1>7, <2>4, <2>5, FatesAfterArrival
  <2>7. InOrder'
    BY <1>1, <1>4, <1>5, <2>1, <2>3 DEF InOrder
  <2> QED
    BY <2>6, <2>7
<1> QED
  BY <1>3, <1>6, <1>7

\* The oldest buffered message goes to a wait.
LEMMA Leaves ==
  ASSUME TypeOK, OneFate, NoneIsMissing, InOrder, NEW t \in Types, buffer[t] # <<>>,
         TakeOldest(t), Deliver(t, Head(buffer[t])), UNCHANGED <<phase, arrived, aside, dropped>>
  PROVE  (OneFate /\ NoneIsMissing /\ InOrder)'
<1> DEFINE h == Head(buffer[t])
           rest == Tail(buffer[t])
<1>1. /\ taken \in [Types -> Seq(Nat)] /\ buffer \in [Types -> Seq(Nat)]
      /\ buffer' = [buffer EXCEPT ![t] = rest] /\ h \in Nat
  BY TakeOldestTypes DEF TypeOK
<1>2. /\ taken'[t] = Append(taken[t], h) /\ buffer'[t] = rest
      /\ \A u \in Types : u # t => taken'[u] = taken[u] /\ buffer'[u] = buffer[u]
  BY <1>1 DEF Deliver
<1>3. /\ Range(buffer[t]) = {h} \cup Range(rest)
      /\ Increasing(rest) /\ \A n \in Range(rest) : h < n
  BY <1>1, RangeOfTail, IncreasingTail DEF InOrder
<1>4. Range(taken'[t]) = Range(taken[t]) \cup {h}
  BY <1>1, <1>2, RangeOfAppend
<1>5. \A u \in Types : Held(u)' = Held(u)
  BY <1>2, <1>3, <1>4 DEF Held
<1>6. OneFate' /\ NoneIsMissing'
  BY <1>5 DEF OneFate, NoneIsMissing
<1>7. Increasing(taken'[t])
  BY <1>1, <1>2, <1>3, IncreasingAppend DEF InOrder
<1> HIDE DEF h, rest
<1>8. InOrder'
  BY <1>2, <1>3, <1>4, <1>7 DEF InOrder
<1> QED
  BY <1>6, <1>8

LEMMA NextFate ==
  IInv /\ [Next]_vars => (OneFate /\ NoneIsMissing /\ InOrder)'
<1> DEFINE Good == OneFate /\ NoneIsMissing /\ InOrder
<1> SUFFICES ASSUME IInv, [Next]_vars PROVE Good'
  OBVIOUS
<1>0. TypeOK /\ NoWaiterIsOverlooked /\ RunPhaseIsClean /\ OneFate /\ NoneIsMissing /\ InOrder
  BY DEF IInv
<1>1. ASSUME NEW w \in Waits, NEW types \in SUBSET Types, WaitFinds(w, types)
      PROVE  Good'
  <2>1. PICK t \in types : buffer[t] # <<>> /\ TakeOldest(t) /\ Deliver(t, Head(buffer[t]))
    BY <1>1 DEF WaitFinds
  <2>2. UNCHANGED <<phase, arrived, aside, dropped>>
    BY <1>1 DEF WaitFinds
  <2> QED
    BY <1>0, <2>1, <2>2, Leaves
<1>2. ASSUME NEW t \in Types, Intercept(t) PROVE Good'
  <2>1. arrived' = arrived + 1 /\ aside' = aside \cup {arrived'} /\ UNCHANGED <<phase, taken, buffer, dropped>>
    BY <1>2 DEF Intercept, Arrives
  <2>2. \A u \in Types : Held(u)' = Held(u)
    BY <2>1 DEF Held
  <2> QED
    BY <1>0, <2>1, <2>2, OneMoreMessage DEF OneFate, NoneIsMissing, InOrder
<1>3. ASSUME NEW t \in Types, Hand(t) PROVE Good'
  <2>1. /\ arrived' = arrived + 1 /\ Deliver(t, arrived') /\ buffer[t] = <<>>
        /\ UNCHANGED <<phase, buffer, aside, dropped>>
    BY <1>0, <1>3 DEF Hand, Arrives, NoWaiterIsOverlooked
  <2> QED
    BY <1>0, <2>1, PassesOn
<1>4. ASSUME NEW t \in Types, Buffer(t) PROVE Good'
  BY <1>0, <1>4, Joins
<1>5. ASSUME NEW t \in Types, Drain(t) PROVE Good'
  <2>1. /\ arrived' = arrived + 1 /\ Deliver(t, arrived') /\ buffer[t] = <<>>
        /\ UNCHANGED <<phase, buffer, aside, dropped>>
    BY <1>0, <1>5 DEF Drain, Arrives, RunPhaseIsClean
  <2> QED
    BY <1>0, <2>1, PassesOn
<1>6. CASE PumpStops
  <2>1. phase' = "disposed" /\ arrived' = arrived + 1 /\ UNCHANGED <<taken, buffer, aside, dropped>>
    BY <1>6 DEF PumpStops, Arrives, history
  <2>2. \A u \in Types : Held(u)' = Held(u)
    BY <2>1 DEF Held
  <2> QED
    BY <1>0, <2>1, <2>2, OneMoreMessage DEF OneFate, NoneIsMissing, InOrder
<1>7. CASE StartDrain
  <2>1. /\ \A t \in Types : taken'[t] = taken[t] \o buffer[t] /\ buffer'[t] = <<>>
        /\ UNCHANGED <<arrived, aside, dropped>> /\ phase = "setup"
    BY <1>7 DEF StartDrain
  <2>2. \A t \in Types : taken[t] \in Seq(Nat) /\ buffer[t] \in Seq(Nat)
    BY <1>0 DEF TypeOK
  <2>3. ASSUME NEW t \in Types
        PROVE  Range(taken'[t]) = Range(taken[t]) \cup Range(buffer[t]) /\ Increasing(taken'[t])
    <3>1. taken[t] \in Seq(Nat) /\ buffer[t] \in Seq(Nat) /\ taken'[t] = taken[t] \o buffer[t]
      BY <2>1, <2>2
    <3>2. /\ Increasing(taken[t]) /\ Increasing(buffer[t])
          /\ \A m \in Range(taken[t]), n \in Range(buffer[t]) : m < n
      BY <1>0 DEF InOrder
    <3>3. Range(taken'[t]) = Range(taken[t]) \cup Range(buffer[t])
      BY ONLY <3>1, RangeConcatenation
    <3>4. Increasing(taken'[t])
      BY ONLY <3>1, <3>2, IncreasingConcat
    <3> QED
      BY <3>3, <3>4
  <2>4. \A t \in Types : Range(buffer'[t]) = {} /\ Increasing(buffer'[t])
    BY <2>1, OfEmpty
  <2>5. \A t \in Types : Held(t)' = Held(t)
    BY <2>3, <2>4 DEF Held
  <2> QED
    BY <1>0, <2>1, <2>3, <2>4, <2>5 DEF OneFate, NoneIsMissing, InOrder
<1>8. CASE Dispose
  <2>1. /\ \A t \in Types : taken'[t] = taken[t] /\ buffer'[t] = <<>>
        /\ UNCHANGED <<arrived, aside, dropped>> /\ phase' = "disposed"
    BY <1>8 DEF Dispose, history
  <2>2. \A t \in Types : Range(buffer'[t]) = {} /\ Increasing(buffer'[t])
    BY <2>1, OfEmpty
  <2>3. \A t \in Types : Held(t)' \subseteq Held(t)
    BY <2>1, <2>2 DEF Held
  <2>4. OneFate'
    BY <1>0, <2>1, <2>3 DEF OneFate
  <2> QED
    BY <1>0, <2>1, <2>2, <2>4 DEF NoneIsMissing, InOrder
<1>9. CASE UNCHANGED <<phase, buffer, arrived, history>>
  BY <1>0, <1>9 DEF history, OneFate, NoneIsMissing, InOrder, Held
<1> QED
  BY <1>1, <1>2, <1>3, <1>4, <1>5, <1>6, <1>7, <1>8, <1>9
     DEF Next, vars, WaitParks, WaitThrows, Abort, OnInterleave, StopInterleave, PumpEnds

LEMMA NextIInv == IInv /\ [Next]_vars => IInv'
  BY NextTypeOK, NextControl, NextMap, NextFate DEF IInv

LEMMA Invariance == Spec => []IInv
  BY InitIInv, NextIInv, PTL DEF Spec

-----------------------------------------------------------------------------
(* The invariants of the receiver. *)

\* Every variable has its type, in particular each buffer is a queue of message numbers.
THEOREM TypeCorrect == Spec => []TypeOK
<1>1. IInv => TypeOK
  BY DEF IInv
<1> QED
  BY Invariance, <1>1, PTL

\* No wait is parked while a message it wants is buffered.
THEOREM WaitersAreServed == Spec => []NoWaiterIsOverlooked
<1>1. IInv => NoWaiterIsOverlooked
  BY DEF IInv
<1> QED
  BY Invariance, <1>1, PTL

\* The hand-over leaves nothing of the setup phase behind.
THEOREM HandOverIsClean == Spec => []RunPhaseIsClean
<1>1. IInv => RunPhaseIsClean
  BY DEF IInv
<1> QED
  BY Invariance, <1>1, PTL

\* The loss of a connection in the run phase is reported to its owner exactly once.
THEOREM LossIsReportedOnce == Spec => []LossReachesOwner
<1>1. IInv => LossReachesOwner
  BY DEF IInv
<1> QED
  BY Invariance, <1>1, PTL

-----------------------------------------------------------------------------
(* The receiver implements Router. *)

LEMMA StageOfPhase ==
  ASSUME TypeOK
  PROVE  /\ phase = "setup" => Stage = "setup"
         /\ phase = "drain" => Stage = "run"
         /\ phase = "disposed" => Stage = "closed"
         /\ phase # "disposed" => Stage # "closed"
  BY DEF TypeOK, Stage

LEMMA QueueIsHeld ==
  ASSUME TypeOK, NEW t \in Types
  PROVE  /\ Routing!Queue(t) \in Seq(Nat)
         /\ Range(Routing!Queue(t)) = Held(t)
<1>1. taken[t] \in Seq(Nat) /\ buffer[t] \in Seq(Nat)
  BY DEF TypeOK
<1> QED
  BY <1>1, RangeConcatenation, ConcatProperties DEF Routing!Queue, Held

LEMMA LinesInOrder == IInv => Routing!LinesKeepTheirOrder
<1> SUFFICES ASSUME IInv, NEW t \in Types PROVE Increasing(Routing!Queue(t))
  BY DEF Routing!LinesKeepTheirOrder, Increasing
<1>1. /\ taken[t] \in Seq(Nat) /\ buffer[t] \in Seq(Nat)
      /\ Increasing(taken[t]) /\ Increasing(buffer[t])
      /\ \A m \in Range(taken[t]), n \in Range(buffer[t]) : m < n
  BY DEF IInv, TypeOK, InOrder
<1> QED
  BY <1>1, IncreasingConcat DEF Routing!Queue

LEMMA FatesAreOne == IInv => Routing!EveryMessageHasOneFate
<1> SUFFICES ASSUME IInv, Stage # "closed", NEW n \in 1..arrived
             PROVE  \/ n \in aside /\ n \notin dropped /\ Routing!Queued(n) = {}
                    \/ n \in dropped /\ n \notin aside /\ Routing!Queued(n) = {}
                    \/ n \notin aside \cup dropped /\ \E t \in Types : Routing!Queued(n) = {t}
  BY DEF Routing!EveryMessageHasOneFate
<1>1. TypeOK /\ OneFate /\ NoneIsMissing /\ phase # "disposed"
  BY StageOfPhase DEF IInv
<1>2. \A t \in Types : (\E i \in DOMAIN Routing!Queue(t) : Routing!Queue(t)[i] = n) <=> n \in Held(t)
  BY <1>1, QueueIsHeld DEF Range
<1>3. Routing!Queued(n) = {t \in Types : n \in Held(t)}
  BY <1>2 DEF Routing!Queued
<1>4. CASE n \in aside \cup dropped
  <2>1. \A t \in Types : n \notin Held(t)
    BY <1>1, <1>4 DEF OneFate
  <2> QED
    BY <1>1, <1>3, <1>4, <2>1 DEF OneFate
<1>5. CASE n \notin aside \cup dropped
  <2>1. PICK t \in Types : n \in Held(t)
    BY <1>1, <1>5 DEF NoneIsMissing
  <2>2. \A u \in Types : n \in Held(u) => u = t
    BY <1>1, <2>1 DEF OneFate
  <2> QED
    BY <1>3, <1>5, <2>1, <2>2
<1> QED
  BY <1>4, <1>5

LEMMA InitIsARouter == Init => Routing!Init
  BY DEF Init, Routing!Init, Stage

\* Every step of the receiver is a step of the router, or is none of its business.
LEMMA StepOfTheRouter == IInv /\ IInv' /\ [Next]_vars => [Routing!Next]_(Routing!vars)
<1> SUFFICES ASSUME IInv, IInv', [Next]_vars
             PROVE  Routing!Next \/ UNCHANGED Routing!vars
  OBVIOUS
<1>0. /\ TypeOK /\ TypeOK' /\ NoWaiterIsOverlooked /\ RunPhaseIsClean
  BY DEF IInv
<1>1. phase' = phase => Stage' = Stage
  BY DEF Stage
<1>2. ASSUME NEW w \in Waits, NEW types \in SUBSET Types, WaitFinds(w, types)
      PROVE  Routing!Next
  <2>1. PICK t \in types : buffer[t] # <<>> /\ TakeOldest(t) /\ Deliver(t, Head(buffer[t]))
    BY <1>2 DEF WaitFinds
  <2>2. phase = "setup" /\ UNCHANGED <<phase, arrived, aside, dropped>>
    BY <1>2 DEF WaitFinds
  <2>3. Routing!LeavesLine(t)
    BY <1>0, <1>1, <2>1, <2>2, StageOfPhase DEF Routing!LeavesLine, TakeOldest, Deliver
  <2> QED
    BY <2>3 DEF Routing!Next
<1>3. ASSUME NEW t \in Types, Intercept(t) PROVE Routing!Next
  <2>1. Routing!IsIntercepted
    BY <1>0, <1>1, <1>3, StageOfPhase DEF Intercept, Arrives, Routing!IsIntercepted, Routing!Arrives
  <2> QED
    BY <2>1 DEF Routing!Next
<1>4. ASSUME NEW t \in Types, Hand(t) \/ Drain(t) PROVE Routing!Next
  <2>1. /\ arrived' = arrived + 1 /\ Deliver(t, arrived') /\ buffer[t] = <<>>
        /\ phase # "disposed" /\ UNCHANGED <<phase, buffer, aside, dropped>>
    BY <1>0, <1>4 DEF Hand, Drain, Arrives, NoWaiterIsOverlooked, RunPhaseIsClean
  <2>2. Routing!PassesThrough(t)
    BY <1>0, <1>1, <2>1, StageOfPhase DEF Deliver, Routing!PassesThrough, Routing!Arrives
  <2> QED
    BY <2>2 DEF Routing!Next
<1>5. ASSUME NEW t \in Types, Buffer(t) PROVE Routing!Next
  <2>1. Routing!JoinsLine(t)
    BY <1>0, <1>1, <1>5, StageOfPhase DEF Buffer, Arrives, Routing!JoinsLine, Routing!Arrives
  <2> QED
    BY <2>1 DEF Routing!Next
<1>6. CASE PumpStops
  <2>1. Routing!IsIgnored
    BY <1>0, <1>1, <1>6, StageOfPhase DEF PumpStops, Arrives, history, Routing!IsIgnored, Routing!Arrives
  <2> QED
    BY <2>1 DEF Routing!Next
<1>7. CASE StartDrain
  <2>1. Stage = "setup" /\ Stage' = "run"
    BY <1>7 DEF StartDrain, Stage
  <2>2. Routing!HandsOver
    BY <1>7, <2>1 DEF StartDrain, Routing!HandsOver
  <2> QED
    BY <2>2 DEF Routing!Next
<1>8. CASE Dispose
  <2>1. Stage # "closed" /\ Stage' = "closed"
    BY <1>0, <1>8, StageOfPhase DEF Dispose, Stage
  <2>2. Routing!Closes
    BY <1>8, <2>1 DEF Dispose, history, Routing!Closes
  <2> QED
    BY <2>2 DEF Routing!Next
<1>9. CASE UNCHANGED <<phase, buffer, arrived, history>>
  BY <1>1, <1>9 DEF history, Routing!vars
<1> QED
  BY <1>2, <1>3, <1>4, <1>5, <1>6, <1>7, <1>8, <1>9
     DEF Next, vars, WaitParks, WaitThrows, Abort, OnInterleave, StopInterleave, PumpEnds

\* The receiver implements Router, and what Router promises of its lines holds for it: every
\* message it pulled has one fate, and those of a type are handed out in the order of arrival.
THEOREM ReceiverIsARouter == Spec => OnceAndInOrder
<1>1. Spec => Routing!Spec
  BY Invariance, InitIsARouter, StepOfTheRouter, PTL DEF Spec, Routing!Spec
<1>2. IInv => Routing!LinesKeepTheirOrder /\ Routing!EveryMessageHasOneFate /\ RunPhaseIsClean
  BY LinesInOrder, FatesAreOne DEF IInv
<1> QED
  BY Invariance, <1>1, <1>2, PTL DEF OnceAndInOrder

-----------------------------------------------------------------------------
(* What the client knows of the device. *)

Listings == registry.entities
Offered == serviceRegistry.services

EntityShape ==
  /\ stage \in {"idle", "discovering", "running"} /\ epoch \in 0..MaxSessions
  /\ missing \subseteq {"info", "done"} /\ (stage = "discovering" <=> missing # {})
  /\ registry \in [entities : {Listings}, byKey : {registry.byKey}, idByKey : {registry.idByKey},
                   keyById : {registry.keyById}, deviceIds : {registry.deviceIds}, dirty : BOOLEAN]
  /\ serviceRegistry \in [services : {Offered}, byKey : {serviceRegistry.byKey}, dirty : BOOLEAN]
  /\ \E S : Listings \in Seq(S)
  /\ \E S : Offered \in Seq(S)
  /\ Len(Listings) <= MaxListed /\ Len(Offered) <= MaxServices
  /\ told \in [entities : {told.entities}, services : {told.services}, info : {told.info}]
  /\ device \in [apiMinor : {device.apiMinor}, info : {device.info}, subDevices : {device.subDevices},
                 capabilities : {device.capabilities}]

\* Every state that is kept came of an entity that is listed, in this session.
LatestWereListed ==
  \A id \in DOMAIN latestCache :
    /\ latestCache[id].epoch = epoch
    /\ \E i \in 1..Len(Listings) :
         /\ Listings[i].key = latestCache[id].key /\ Entity!EntityId(Listings[i]) = id
         /\ latestCache[id].type \in {Listings[i].type, "button"}

\* What consumers were told of the device, is known of it, before the end of discovery too.
InfoIsTold == told.info = device.info

EntityInv ==
  /\ EntityShape /\ Entity!IndexesAgree /\ LatestWereListed /\ InfoIsTold /\ Entity!ConsumersAreUpToDate

Less == {pair \in Nat \X Nat : pair[1] < pair[2]}

LEMMA LeastNumber ==
  ASSUME NEW T, T \subseteq Nat, T # {}
  PROVE  \E x \in T : \A y \in T : x <= y
<1>1. OpToRel(<, Nat) = Less
  BY DEF OpToRel, Less
<1>2. IsWellFoundedOn(Less, Nat)
  BY <1>1, NatLessThanWellFounded, Zenon
<1>3. PICK x \in T : \A y \in T : ~ (<<y, x>> \in Less)
  BY <1>2, WFMin
<1>4. ASSUME NEW y \in T, ~(x <= y) PROVE FALSE
  <2>1. <<y, x>> \in Nat \X Nat /\ y < x
    BY <1>4
  <2>2. <<y, x>> \in Less
    BY <2>1 DEF Less
  <2> QED
    BY <1>3, <2>2
<1> QED
  BY <1>4

\* A set of places that is not empty has a last one.
LEMMA LastPlace ==
  ASSUME NEW n \in Nat, NEW G, G \subseteq 1..n, G # {}
  PROVE  \E i \in G : \A j \in 1..n : j > i => j \notin G
<1> DEFINE D == {m \in 0..n : \A j \in 1..n : j > m => j \notin G}
<1>1. n \in D /\ D \subseteq Nat
  OBVIOUS
<1>2. PICK m \in D : \A k \in D : m <= k
  BY <1>1, LeastNumber
<1>3. m # 0
  <2>1. PICK g \in G : TRUE
    OBVIOUS
  <2>2. g \in 1..n /\ g > 0
    BY <2>1
  <2>3. \A k \in D : \A j \in 1..n : j > k => j \notin G
    OBVIOUS
  <2>4. m \in D
    BY <1>2
  <2> HIDE DEF D
  <2> QED
    BY <2>1, <2>2, <2>3, <2>4
<1>4. m \in 1..n /\ m - 1 \in 0..n /\ m - 1 \notin D
  <2>1. m \in 0..n
    OBVIOUS
  <2>2. m \in 1..n /\ m - 1 \in 0..n /\ ~(m <= m - 1)
    BY <1>3, <2>1
  <2> HIDE DEF D
  <2> QED
    BY <1>2, <2>2
<1>5. m \in G
  <2>1. PICK j \in 1..n : j > m - 1 /\ j \in G
    BY <1>4
  <2>2. ~(j > m)
    BY <1>2, <2>1
  <2>3. j = m
    BY <1>4, <2>1, <2>2
  <2> QED
    BY <2>1, <2>3
<1> QED
  BY <1>2, <1>5

\* The indexes after a registration.
LEMMA RegisterAgrees ==
  ASSUME NEW S, Listings \in Seq(S), Entity!IndexesAgree, NEW e,
         registry' = Entity!Register(registry, e)
  PROVE  /\ Entity!IndexesAgree'
         /\ Listings' \in Seq(S \cup {e}) /\ Len(Listings') = Len(Listings) + 1
         /\ \A i \in 1..Len(Listings) : i \in 1..Len(Listings') /\ Listings'[i] = Listings[i]
<1> DEFINE l == Listings
           m == Append(l, e)
           n == Len(l)
<1>1. n \in Nat /\ m \in Seq(S \cup {e}) /\ Len(m) = n + 1 /\ m[n + 1] = e
      /\ \A i \in 1..n : i \in 1..n + 1 /\ m[i] = l[i]
  <2>1. l \in Seq(S \cup {e}) /\ e \in S \cup {e} /\ n \in Nat
    OBVIOUS
  <2> HIDE DEF l
  <2> QED
    BY <2>1
<1>2. /\ registry'.entities = m
      /\ registry'.byKey = Entity!Put(registry.byKey, e.key, e)
      /\ registry'.keyById = Entity!Put(registry.keyById, Entity!EntityId(e), e.key)
      /\ registry'.idByKey = Entity!Put(registry.idByKey, e.key, Entity!EntityId(e))
  BY DEF Entity!Register, Listings
<1> HIDE DEF m, n
<1>3. 1..Len(m) = 1..n \cup {n + 1}
  BY <1>1
<1>4. \A i \in 1..n : n + 1 > i
  BY <1>1
<1>5. /\ DOMAIN registry.byKey = {l[i].key : i \in 1..n}
      /\ DOMAIN registry.idByKey = DOMAIN registry.byKey
      /\ DOMAIN registry.keyById = {Entity!EntityId(l[i]) : i \in 1..n}
      /\ \A i \in 1..n :
           /\ (\A j \in 1..n : j > i => l[j].key # l[i].key) =>
                /\ registry.byKey[l[i].key] = l[i]
                /\ registry.idByKey[l[i].key] = Entity!EntityId(l[i])
           /\ (\A j \in 1..n : j > i => Entity!EntityId(l[j]) # Entity!EntityId(l[i])) =>
                registry.keyById[Entity!EntityId(l[i])] = l[i].key
  BY DEF Entity!IndexesAgree, Listings, n
<1> HIDE DEF l
<1>6. /\ DOMAIN registry'.byKey = {m[i].key : i \in 1..Len(m)}
      /\ DOMAIN registry'.idByKey = DOMAIN registry'.byKey
  BY <1>1, <1>2, <1>3, <1>5 DEF Entity!Put
<1>7. DOMAIN registry'.keyById = {Entity!EntityId(m[i]) : i \in 1..Len(m)}
  BY <1>1, <1>2, <1>3, <1>5 DEF Entity!Put
<1>8. ASSUME NEW i \in 1..Len(m), \A j \in 1..Len(m) : j > i => m[j].key # m[i].key
      PROVE  /\ registry'.byKey[m[i].key] = m[i]
             /\ registry'.idByKey[m[i].key] = Entity!EntityId(m[i])
  <2>1. CASE i = n + 1
    BY <1>1, <1>2, <2>1 DEF Entity!Put
  <2>2. CASE i # n + 1
    <3>1. i \in 1..n /\ m[i] = l[i] /\ m[i].key # e.key
      BY <1>1, <1>3, <1>4, <1>8, <2>2
    <3>2. \A j \in 1..n : j > i => l[j].key # l[i].key
      BY <1>1, <1>3, <1>8, <3>1
    <3>3. m[i].key \in DOMAIN registry.byKey /\ m[i].key \in DOMAIN registry.idByKey
      BY <1>5, <3>1
    <3> QED
      BY <1>2, <1>5, <3>1, <3>2, <3>3 DEF Entity!Put
  <2> QED
    BY <2>1, <2>2
<1>9. ASSUME NEW i \in 1..Len(m),
             \A j \in 1..Len(m) : j > i => Entity!EntityId(m[j]) # Entity!EntityId(m[i])
      PROVE  registry'.keyById[Entity!EntityId(m[i])] = m[i].key
  <2>1. CASE i = n + 1
    BY <1>1, <1>2, <2>1 DEF Entity!Put
  <2>2. CASE i # n + 1
    <3>1. i \in 1..n /\ m[i] = l[i] /\ Entity!EntityId(m[i]) # Entity!EntityId(e)
      BY <1>1, <1>3, <1>4, <1>9, <2>2
    <3>2. \A j \in 1..n : j > i => Entity!EntityId(l[j]) # Entity!EntityId(l[i])
      BY <1>1, <1>3, <1>9, <3>1
    <3>3. Entity!EntityId(m[i]) \in DOMAIN registry.keyById
      BY <1>5, <3>1
    <3> QED
      BY <1>2, <1>5, <3>1, <3>2, <3>3 DEF Entity!Put
  <2> QED
    BY <2>1, <2>2
<1>10. Entity!IndexesAgree'
  <2>1. registry'.entities = m
    BY <1>2
  <2> QED
    BY <2>1, <1>6, <1>7, <1>8, <1>9 DEF Entity!IndexesAgree
<1> QED
  BY <1>1, <1>2, <1>10 DEF Listings, l, n

\* A step that leaves what is listed and its indexes keeps what they say.
LEMMA SameListings ==
  ASSUME UNCHANGED <<Listings, registry.byKey, registry.idByKey, registry.keyById>>
  PROVE  /\ Entity!IndexesAgree' <=> Entity!IndexesAgree
         /\ UNCHANGED <<latestCache, epoch>> => (LatestWereListed' <=> LatestWereListed)
  BY DEF Entity!IndexesAgree, LatestWereListed, Listings

LEMMA EntitiesStart == Entity!Init => EntityInv
<1> SUFFICES ASSUME Entity!Init PROVE EntityInv
  OBVIOUS
<1>1. /\ stage = "idle" /\ epoch = 0 /\ missing = {}
      /\ registry = [entities |-> <<>>, byKey |-> Entity!Nothing, idByKey |-> Entity!Nothing,
                     keyById |-> Entity!Nothing, deviceIds |-> Entity!Nothing, dirty |-> FALSE]
      /\ serviceRegistry = [services |-> <<>>, byKey |-> Entity!Nothing, dirty |-> FALSE]
      /\ latestCache = Entity!Nothing /\ DOMAIN Entity!Nothing = {}
      /\ device = Entity!NoDevice /\ told = Entity!NotTold
  BY DEF Entity!Init, Entity!EmptyRegistry, Entity!EmptyServices, Entity!Nothing
<1>2. Listings = <<>> /\ Offered = <<>> /\ <<>> \in Seq({}) /\ Len(<<>>) = 0
  BY <1>1 DEF Listings, Offered
<1>3. EntityShape
  <2>1. Len(Listings) <= MaxListed /\ Len(Offered) <= MaxServices /\ epoch \in 0..MaxSessions
    BY <1>1, <1>2, EntitiesAssumption
  <2>2. /\ told \in [entities : {told.entities}, services : {told.services}, info : {told.info}]
        /\ device \in [apiMinor : {device.apiMinor}, info : {device.info}, subDevices : {device.subDevices},
                       capabilities : {device.capabilities}]
    BY <1>1 DEF Entity!NoDevice, Entity!NotTold
  <2>3. /\ registry \in [entities : {Listings}, byKey : {registry.byKey}, idByKey : {registry.idByKey},
                         keyById : {registry.keyById}, deviceIds : {registry.deviceIds}, dirty : BOOLEAN]
        /\ serviceRegistry \in [services : {Offered}, byKey : {serviceRegistry.byKey}, dirty : BOOLEAN]
    BY <1>1 DEF Listings, Offered
  <2> QED
    BY <1>1, <1>2, <2>1, <2>2, <2>3 DEF EntityShape
<1>4. Entity!IndexesAgree
  <2>1. registry.entities = <<>> /\ 1..0 = {}
    BY <1>1
  <2> QED
    BY <1>1, <1>2, <2>1 DEF Entity!IndexesAgree
<1>5. LatestWereListed /\ InfoIsTold /\ Entity!ConsumersAreUpToDate
  BY <1>1 DEF LatestWereListed, InfoIsTold, Entity!ConsumersAreUpToDate, Entity!NoDevice, Entity!NotTold
<1> QED
  BY <1>3, <1>4, <1>5 DEF EntityInv

\* A connection forgets what was known of the device.
LEMMA ConnectKeeps ==
  ASSUME EntityInv, NEW hello, Entity!Connect(hello)
  PROVE  EntityInv'
<1>0. EntityShape
  BY DEF EntityInv
<1>1. /\ stage = "idle" /\ epoch < MaxSessions /\ epoch' = epoch + 1
      /\ registry' = [entities |-> <<>>, byKey |-> Entity!Nothing, idByKey |-> Entity!Nothing,
                      keyById |-> Entity!Nothing, deviceIds |-> Entity!Nothing, dirty |-> TRUE]
      /\ serviceRegistry' = [services |-> <<>>, byKey |-> Entity!Nothing, dirty |-> TRUE]
      /\ latestCache' = Entity!Nothing /\ DOMAIN Entity!Nothing = {}
      /\ device' = [Entity!NoDevice EXCEPT !.apiMinor = Entity!ApplyHelloResponse(hello)]
      /\ told' = Entity!NotTold
      /\ \/ UNCHANGED <<stage, missing>>
         \/ stage' = "discovering" /\ missing' = {"info", "done"}
  BY DEF Entity!Connect, Entity!Clear, Entity!ClearServices, Entity!EmptyRegistry, Entity!EmptyServices, Entity!Nothing
<1>2. Listings' = <<>> /\ Offered' = <<>> /\ <<>> \in Seq({}) /\ Len(<<>>) = 0
  BY <1>1 DEF Listings, Offered
<1>3. EntityShape'
  <2>1. Len(Listings') <= MaxListed /\ Len(Offered') <= MaxServices
    BY <1>2, EntitiesAssumption
  <2>2. epoch' \in 0..MaxSessions
    BY <1>0, <1>1, EntitiesAssumption DEF EntityShape
  <2>3. /\ told' \in [entities : {told'.entities}, services : {told'.services}, info : {told'.info}]
        /\ device' \in [apiMinor : {device'.apiMinor}, info : {device'.info}, subDevices : {device'.subDevices},
                        capabilities : {device'.capabilities}]
    BY <1>1 DEF Entity!NoDevice, Entity!NotTold
  <2>4. /\ registry' \in [entities : {Listings'}, byKey : {registry'.byKey}, idByKey : {registry'.idByKey},
                          keyById : {registry'.keyById}, deviceIds : {registry'.deviceIds}, dirty : BOOLEAN]
        /\ serviceRegistry' \in [services : {Offered'}, byKey : {serviceRegistry'.byKey}, dirty : BOOLEAN]
    BY <1>1 DEF Listings, Offered
  <2>5. /\ stage' \in {"idle", "discovering", "running"} /\ missing' \subseteq {"info", "done"}
        /\ (stage' = "discovering" <=> missing' # {})
    BY <1>0, <1>1 DEF EntityShape
  <2>6. (\E S : Listings' \in Seq(S)) /\ (\E S : Offered' \in Seq(S))
    BY <1>2
  <2> QED
    BY <2>1, <2>2, <2>3, <2>4, <2>5, <2>6 DEF EntityShape
<1>4. Entity!IndexesAgree'
  <2>1. registry'.entities = <<>> /\ 1..0 = {}
    BY <1>1
  <2> QED
    BY <1>1, <1>2, <2>1 DEF Entity!IndexesAgree
<1>5. LatestWereListed' /\ InfoIsTold'
  BY <1>1 DEF LatestWereListed, InfoIsTold, Entity!NoDevice, Entity!NotTold
<1>6. Entity!ConsumersAreUpToDate'
  BY <1>1 DEF Entity!ConsumersAreUpToDate
<1> QED
  BY <1>3, <1>4, <1>5, <1>6 DEF EntityInv

\* A record's marks may change.
LEMMA CleanRegistry ==
  ASSUME EntityShape, NEW r,
         \/ r = registry
         \/ r = Entity!Clean(registry)
         \/ \E ids : r = [registry EXCEPT !.deviceIds = ids]
  PROVE  /\ r \in [entities : {Listings}, byKey : {registry.byKey}, idByKey : {registry.idByKey},
                   keyById : {registry.keyById}, deviceIds : {r.deviceIds}, dirty : BOOLEAN]
         /\ r.dirty \in BOOLEAN
  BY DEF EntityShape, Entity!Clean

LEMMA CleanServices ==
  ASSUME EntityShape, NEW r, r = serviceRegistry \/ r = Entity!Clean(serviceRegistry)
  PROVE  r \in [services : {Offered}, byKey : {serviceRegistry.byKey}, dirty : BOOLEAN]
  BY DEF EntityShape, Entity!Clean

\* What the list holds, and what is told of it, when a step changes neither a registry's list nor
\* the latest states.
LEMMA SettledStep ==
  ASSUME EntityInv, UNCHANGED <<epoch, latestCache>>,
         \/ registry' = registry
         \/ registry' = Entity!Clean(registry)
         \/ \E ids : registry' = [registry EXCEPT !.deviceIds = ids],
         serviceRegistry' = serviceRegistry \/ serviceRegistry' = Entity!Clean(serviceRegistry),
         stage' \in {"idle", "discovering", "running"},
         missing' \subseteq {"info", "done"}, stage' = "discovering" <=> missing' # {},
         told' \in [entities : {told'.entities}, services : {told'.services}, info : {told'.info}],
         device' \in [apiMinor : {device'.apiMinor}, info : {device'.info}, subDevices : {device'.subDevices},
                      capabilities : {device'.capabilities}],
         InfoIsTold', Entity!ConsumersAreUpToDate'
  PROVE  EntityInv'
<1>0. EntityShape
  BY DEF EntityInv
<1>1. registry' \in [entities : {Listings}, byKey : {registry.byKey}, idByKey : {registry.idByKey},
                     keyById : {registry.keyById}, deviceIds : {registry'.deviceIds}, dirty : BOOLEAN]
  BY <1>0, CleanRegistry
<1>2. serviceRegistry' \in [services : {Offered}, byKey : {serviceRegistry.byKey}, dirty : BOOLEAN]
  BY <1>0, CleanServices
<1>3. UNCHANGED <<Listings, registry.byKey, registry.idByKey, registry.keyById, Offered, serviceRegistry.byKey>>
  BY <1>1, <1>2 DEF Listings, Offered
<1>4. EntityShape'
  BY <1>0, <1>1, <1>2, <1>3 DEF EntityShape
<1>5. Entity!IndexesAgree' /\ LatestWereListed'
  BY <1>3, SameListings DEF EntityInv
<1> QED
  BY <1>4, <1>5 DEF EntityInv

\* What was known of a device, with a new description of it.
LEMMA KnownShape ==
  ASSUME EntityShape, NEW info
  PROVE  Entity!Known(info) \in [apiMinor : {device.apiMinor}, info : {info}, subDevices : {info.subDevices},
                                 capabilities : {device.capabilities}]
BY DEF EntityShape, Entity!Known

\* The end of discovery tells what was found.
LEMMA EndKeeps ==
  ASSUME EntityInv, stage = "discovering", NEW info, NEW known, Entity!EndDiscovery(info, known),
         known \in [apiMinor : {known.apiMinor}, info : {info}, subDevices : {known.subDevices},
                    capabilities : {known.capabilities}]
  PROVE  EntityInv'
<1>1. /\ stage' = "running" /\ missing' = {} /\ UNCHANGED <<epoch, latestCache>>
      /\ registry' = Entity!Clean(registry) /\ serviceRegistry' = Entity!Clean(serviceRegistry)
      /\ told'.entities = registry.entities /\ told'.info = info
      /\ serviceRegistry.services # <<>> => told'.services = serviceRegistry.services
      /\ told' \in [entities : {told'.entities}, services : {told'.services}, info : {told'.info}]
      /\ device' = [known EXCEPT !.capabilities = Entity!ParseCapabilities(known.apiMinor, known.info)]
  BY DEF Entity!EndDiscovery
<1>2. /\ device' \in [apiMinor : {device'.apiMinor}, info : {device'.info}, subDevices : {device'.subDevices},
                      capabilities : {device'.capabilities}]
      /\ device'.info = info /\ device'.capabilities = Entity!ParseCapabilities(device'.apiMinor, info)
  <2> DEFINE caps == Entity!ParseCapabilities(known.apiMinor, known.info)
  <2>3. known.info = info
    OBVIOUS
  <2> HIDE DEF caps
  <2>1. device' = [known EXCEPT !.capabilities = caps]
    BY <1>1 DEF caps
  <2>2. device' \in [apiMinor : {known.apiMinor}, info : {info}, subDevices : {known.subDevices},
                     capabilities : {caps}]
    BY <2>1
  <2> QED
    BY <2>2, <2>3 DEF caps
<1>3. registry'.entities = registry.entities /\ serviceRegistry'.services = serviceRegistry.services
  BY <1>1 DEF EntityInv, EntityShape, Entity!Clean
<1>4. Entity!ConsumersAreUpToDate'
  BY <1>1, <1>2, <1>3 DEF Entity!ConsumersAreUpToDate
<1>5. InfoIsTold'
  BY <1>1, <1>2 DEF InfoIsTold
<1> QED
  BY <1>1, <1>2, <1>4, <1>5, SettledStep

\* What is told and known is of its shape.
LEMMA ToldShape ==
  EntityShape =>
    /\ told \in [entities : {told.entities}, services : {told.services}, info : {told.info}]
    /\ device \in [apiMinor : {device.apiMinor}, info : {device.info}, subDevices : {device.subDevices},
                   capabilities : {device.capabilities}]
  BY DEF EntityShape

LEMMA DiscoverInfoKeeps ==
  ASSUME EntityInv, NEW d, Entity!DiscoverDeviceInfo(d)
  PROVE  EntityInv'
<1> DEFINE info == Entity!DecodeDeviceInfo(d)
           known == Entity!Known(info)
<1>0. EntityShape /\ stage = "discovering"
  BY DEF EntityInv, Entity!DiscoverDeviceInfo
<1>1. /\ known \in [apiMinor : {device.apiMinor}, info : {info}, subDevices : {info.subDevices},
                    capabilities : {device.capabilities}]
      /\ known.info = info
  BY <1>0, KnownShape
<1>2. \/ Entity!EndDiscovery(info, known)
      \/ /\ missing' = missing \ {"info"} /\ ~(missing \subseteq {"info"})
         /\ device' = known /\ told' = [told EXCEPT !.info = info]
         /\ UNCHANGED <<stage, epoch, registry, serviceRegistry, latestCache>>
  BY DEF Entity!DiscoverDeviceInfo
<1> HIDE DEF known, info
<1>3. CASE Entity!EndDiscovery(info, known)
  <2>1. known \in [apiMinor : {known.apiMinor}, info : {info}, subDevices : {known.subDevices},
                   capabilities : {known.capabilities}]
    BY <1>1
  <2> QED
    BY <1>0, <1>3, <2>1, EndKeeps
<1>4. CASE /\ missing' = missing \ {"info"} /\ ~(missing \subseteq {"info"})
           /\ device' = known /\ told' = [told EXCEPT !.info = info]
           /\ UNCHANGED <<stage, epoch, registry, serviceRegistry, latestCache>>
  <2>1. told' \in [entities : {told.entities}, services : {told.services}, info : {info}]
    BY <1>0, <1>4, ToldShape
  <2>2. missing' \subseteq {"info", "done"} /\ missing' # {}
    BY <1>0, <1>4 DEF EntityShape
  <2>3. InfoIsTold'
    BY <1>1, <1>4, <2>1 DEF InfoIsTold
  <2>4. Entity!ConsumersAreUpToDate'
    BY <1>0, <1>4 DEF Entity!ConsumersAreUpToDate
  <2>5. device' \in [apiMinor : {device'.apiMinor}, info : {device'.info}, subDevices : {device'.subDevices},
                     capabilities : {device'.capabilities}]
    BY <1>1, <1>4
  <2>6. told' \in [entities : {told'.entities}, services : {told'.services}, info : {told'.info}]
    BY <2>1
  <2> QED
    BY <1>0, <1>4, <2>2, <2>3, <2>4, <2>5, <2>6, SettledStep
<1> QED
  BY <1>2, <1>3, <1>4

LEMMA DiscoverDoneKeeps ==
  ASSUME EntityInv, Entity!DiscoverDone
  PROVE  EntityInv'
<1>0. EntityShape /\ stage = "discovering" /\ told.info = device.info
  BY DEF EntityInv, Entity!DiscoverDone, InfoIsTold
<1>1. \/ Entity!EndDiscovery(told.info, device)
      \/ /\ missing' = missing \ {"done"} /\ missing # {"done"}
         /\ UNCHANGED <<stage, epoch, registry, serviceRegistry, latestCache, device, told>>
  BY DEF Entity!DiscoverDone
<1>2. CASE Entity!EndDiscovery(told.info, device)
  <2>1. device \in [apiMinor : {device.apiMinor}, info : {told.info}, subDevices : {device.subDevices},
                    capabilities : {device.capabilities}]
    BY <1>0, ToldShape
  <2> QED
    BY <1>0, <1>2, <2>1, EndKeeps
<1>3. CASE /\ missing' = missing \ {"done"} /\ missing # {"done"}
           /\ UNCHANGED <<stage, epoch, registry, serviceRegistry, latestCache, device, told>>
  <2>1. missing' \subseteq {"info", "done"} /\ missing' # {}
    BY <1>0, <1>3 DEF EntityShape
  <2>2. InfoIsTold' /\ Entity!ConsumersAreUpToDate'
    BY <1>0, <1>3 DEF InfoIsTold, Entity!ConsumersAreUpToDate
  <2> QED
    BY <1>0, <1>3, <2>1, <2>2, ToldShape, SettledStep
<1> QED
  BY <1>1, <1>2, <1>3

LEMMA RunInfoKeeps ==
  ASSUME EntityInv, NEW d, Entity!RunDeviceInfo(d)
  PROVE  EntityInv'
<1> DEFINE info == Entity!DecodeDeviceInfo(d)
           known == Entity!Known(info)
           caps == Entity!ParseCapabilities(device.apiMinor, info)
<1>0. EntityShape
  BY DEF EntityInv
<1>1. known \in [apiMinor : {device.apiMinor}, info : {info}, subDevices : {info.subDevices},
                 capabilities : {device.capabilities}]
  BY <1>0, KnownShape
<1>2. /\ stage = "running" /\ device' = [known EXCEPT !.capabilities = caps]
      /\ told' = [told EXCEPT !.info = info]
      /\ UNCHANGED <<stage, epoch, missing, registry, serviceRegistry, latestCache>>
  BY DEF Entity!RunDeviceInfo
<1> HIDE DEF known, info, caps
<1>3. told' \in [entities : {told.entities}, services : {told.services}, info : {info}]
  BY <1>0, <1>2, ToldShape
<1>4. /\ device' \in [apiMinor : {device.apiMinor}, info : {info}, subDevices : {info.subDevices},
                      capabilities : {caps}]
      /\ device'.capabilities = caps /\ device'.info = info /\ device'.apiMinor = device.apiMinor
      /\ told'.info = info /\ told'.entities = told.entities /\ told'.services = told.services
  BY <1>1, <1>2, <1>3
<1>5. InfoIsTold'
  BY <1>4 DEF InfoIsTold
<1>6. Entity!ConsumersAreUpToDate'
  BY <1>2, <1>4 DEF EntityInv, Entity!ConsumersAreUpToDate, caps
<1>7. /\ told' \in [entities : {told'.entities}, services : {told'.services}, info : {told'.info}]
      /\ device' \in [apiMinor : {device'.apiMinor}, info : {device'.info}, subDevices : {device'.subDevices},
                      capabilities : {device'.capabilities}]
  BY <1>3, <1>4
<1>8. stage' \in {"idle", "discovering", "running"} /\ missing' \subseteq {"info", "done"}
      /\ (stage' = "discovering" <=> missing' # {})
  BY <1>0, <1>2 DEF EntityShape
<1> QED
  BY <1>2, <1>5, <1>6, <1>7, <1>8, SettledStep

LEMMA RunDoneKeeps ==
  ASSUME EntityInv, Entity!RunDone
  PROVE  EntityInv'
<1>0. EntityShape
  BY DEF EntityInv
<1> DEFINE ents == IF registry.dirty THEN registry.entities ELSE told.entities
           servs == IF serviceRegistry.dirty /\ serviceRegistry.services # <<>>
                    THEN serviceRegistry.services ELSE told.services
<1>1. /\ stage = "running" /\ registry' = Entity!Clean(registry)
      /\ serviceRegistry' = Entity!Clean(serviceRegistry)
      /\ told' = [told EXCEPT !.entities = ents, !.services = servs]
      /\ UNCHANGED <<stage, epoch, missing, latestCache, device>>
  BY DEF Entity!RunDone
<1>2. /\ ents = registry.entities
      /\ serviceRegistry.services # <<>> => servs = serviceRegistry.services
  BY <1>0, <1>1 DEF EntityInv, EntityShape, Entity!ConsumersAreUpToDate
<1> HIDE DEF ents, servs
<1>3. /\ told' \in [entities : {ents}, services : {servs}, info : {told.info}]
      /\ told'.entities = ents /\ told'.services = servs /\ told'.info = told.info
  BY <1>0, <1>1, ToldShape
<1>4. registry'.entities = registry.entities /\ serviceRegistry'.services = serviceRegistry.services
  BY <1>0, <1>1 DEF EntityShape, Entity!Clean
<1>5. InfoIsTold' /\ Entity!ConsumersAreUpToDate'
  BY <1>1, <1>2, <1>3, <1>4 DEF EntityInv, InfoIsTold, Entity!ConsumersAreUpToDate
<1>6. stage' \in {"idle", "discovering", "running"} /\ missing' \subseteq {"info", "done"}
      /\ (stage' = "discovering" <=> missing' # {})
  BY <1>0, <1>1 DEF EntityShape
<1>7. /\ told' \in [entities : {told'.entities}, services : {told'.services}, info : {told'.info}]
      /\ device' \in [apiMinor : {device'.apiMinor}, info : {device'.info}, subDevices : {device'.subDevices},
                      capabilities : {device'.capabilities}]
  BY <1>0, <1>1, <1>3, ToldShape
<1> QED
  BY <1>1, <1>5, <1>6, <1>7, SettledStep

\* A step that leaves the registries, the latest states and what is known alone.
LEMMA IdleKeeps ==
  ASSUME EntityInv, UNCHANGED <<epoch, registry, serviceRegistry, latestCache, device, told>>,
         \/ UNCHANGED <<stage, missing>>
         \/ stage' = "idle" /\ missing' = {}
  PROVE  EntityInv'
<1>0. EntityShape
  BY DEF EntityInv
<1>1. InfoIsTold' /\ Entity!ConsumersAreUpToDate'
  BY DEF EntityInv, InfoIsTold, Entity!ConsumersAreUpToDate
<1>2. stage' \in {"idle", "discovering", "running"} /\ missing' \subseteq {"info", "done"}
      /\ (stage' = "discovering" <=> missing' # {})
  BY <1>0 DEF EntityShape
<1> QED
  BY <1>0, <1>1, <1>2, ToldShape, SettledStep

LEMMA ListEntityKeeps ==
  ASSUME EntityInv, NEW d, Entity!HandleListEntity(d)
  PROVE  EntityInv'
<1>0. EntityShape
  BY DEF EntityInv
<1>1. /\ Len(registry.entities) < MaxListed
      /\ UNCHANGED <<stage, epoch, missing, serviceRegistry, latestCache, device, told>>
      /\ registry' = registry \/ \E e : registry' = Entity!Register(registry, e)
  BY DEF Entity!HandleListEntity
<1>2. CASE registry' = registry
  BY <1>1, <1>2, IdleKeeps
<1>3. ASSUME NEW e, registry' = Entity!Register(registry, e) PROVE EntityInv'
  <2>1. PICK S : Listings \in Seq(S)
    BY <1>0 DEF EntityShape
  <2>2. /\ Entity!IndexesAgree'
        /\ Listings' \in Seq(S \cup {e}) /\ Len(Listings') = Len(Listings) + 1
        /\ \A i \in 1..Len(Listings) : i \in 1..Len(Listings') /\ Listings'[i] = Listings[i]
    BY <1>3, <2>1, RegisterAgrees DEF EntityInv
  <2>3. /\ registry' \in [entities : {Listings'}, byKey : {registry'.byKey}, idByKey : {registry'.idByKey},
                          keyById : {registry'.keyById}, deviceIds : {registry'.deviceIds}, dirty : BOOLEAN]
        /\ registry'.dirty = TRUE
    BY <1>3 DEF Entity!Register, Listings
  <2>4. Len(Listings') <= MaxListed
    <3>1. Len(Listings) \in Nat /\ Len(Listings) < MaxListed
      BY <1>1, <2>1 DEF Listings
    <3> QED
      BY <2>2, <3>1, EntitiesAssumption
  <2>5. Offered' = Offered
    BY <1>1 DEF Offered
  <2>6. EntityShape'
    BY <1>0, <1>1, <2>2, <2>3, <2>4, <2>5 DEF EntityShape
  <2>7. LatestWereListed'
    BY <1>1, <2>2 DEF EntityInv, LatestWereListed
  <2>8. InfoIsTold' /\ Entity!ConsumersAreUpToDate'
    BY <1>1, <2>3 DEF EntityInv, InfoIsTold, Entity!ConsumersAreUpToDate
  <2> QED
    BY <2>2, <2>6, <2>7, <2>8 DEF EntityInv
<1> QED
  BY <1>1, <1>2, <1>3

LEMMA ListServiceKeeps ==
  ASSUME EntityInv, NEW d, Entity!HandleListServiceEntity(d)
  PROVE  EntityInv'
<1>0. EntityShape
  BY DEF EntityInv
<1>1. /\ Len(serviceRegistry.services) < MaxServices
      /\ UNCHANGED <<stage, epoch, missing, registry, latestCache, device, told>>
      /\ serviceRegistry' = serviceRegistry \/ \E e : serviceRegistry' = Entity!RegisterService(serviceRegistry, e)
  BY DEF Entity!HandleListServiceEntity
<1>2. CASE serviceRegistry' = serviceRegistry
  BY <1>1, <1>2, IdleKeeps
<1>3. ASSUME NEW e, serviceRegistry' = Entity!RegisterService(serviceRegistry, e) PROVE EntityInv'
  <2>1. PICK S : Offered \in Seq(S)
    BY <1>0 DEF EntityShape
  <2>2. Offered' = Append(Offered, e)
    BY <1>3 DEF Entity!RegisterService, Offered
  <2>3. Offered' \in Seq(S \cup {e}) /\ Len(Offered') = Len(Offered) + 1 /\ Len(Offered) \in Nat
    <3>1. Offered \in Seq(S \cup {e}) /\ e \in S \cup {e}
      BY <2>1
    <3> QED
      BY <2>2, <3>1
  <2>4. /\ serviceRegistry' \in [services : {Offered'}, byKey : {serviceRegistry'.byKey}, dirty : BOOLEAN]
        /\ serviceRegistry'.dirty = TRUE
    BY <1>3 DEF Entity!RegisterService, Offered
  <2>5. Len(Offered') <= MaxServices
    <3>1. Len(Offered) < MaxServices
      BY <1>1 DEF Offered
    <3> QED
      BY <2>3, <3>1, EntitiesAssumption
  <2>6. UNCHANGED <<Listings, registry.byKey, registry.idByKey, registry.keyById>>
    BY <1>1 DEF Listings
  <2>7. EntityShape'
    BY <1>0, <1>1, <2>3, <2>4, <2>5, <2>6 DEF EntityShape
  <2>8. Entity!IndexesAgree' /\ LatestWereListed'
    BY <1>1, <2>6, SameListings DEF EntityInv
  <2>9. InfoIsTold' /\ Entity!ConsumersAreUpToDate'
    BY <1>1, <2>4 DEF EntityInv, InfoIsTold, Entity!ConsumersAreUpToDate
  <2> QED
    BY <2>7, <2>8, <2>9 DEF EntityInv
<1> QED
  BY <1>1, <1>2, <1>3

\* A state is kept under the id of the entity that the key names, whose type it takes.
LEMMA TelemetryKeeps ==
  ASSUME EntityInv, NEW message, NEW key, NEW id, Entity!HandleTelemetry(message, key, id)
  PROVE  EntityInv'
<1> DEFINE known == Entity!Get(registry.byKey, key)
           type == Entity!EventType(message, known)
           event == [type |-> type, key |-> key, epoch |-> epoch]
<1>0. EntityShape
  BY DEF EntityInv
<1>1. /\ stage = "running"
      /\ latestCache' = IF known = Absent THEN latestCache ELSE Entity!Put(latestCache, registry.idByKey[key], event)
      /\ \/ registry' = registry
         \/ \E ids : registry' = [registry EXCEPT !.deviceIds = ids]
      /\ UNCHANGED <<stage, epoch, missing, serviceRegistry, device, told>>
  BY DEF Entity!HandleTelemetry, Entity!RecordDeviceId
<1>2. registry' \in [entities : {Listings}, byKey : {registry.byKey}, idByKey : {registry.idByKey},
                     keyById : {registry.keyById}, deviceIds : {registry'.deviceIds}, dirty : {registry.dirty}]
  BY <1>0, <1>1 DEF EntityShape
<1>3. /\ UNCHANGED <<Listings, registry.byKey, registry.idByKey, registry.keyById, registry.dirty>>
      /\ UNCHANGED Offered
  BY <1>1, <1>2 DEF Listings, Offered
<1>4. registry' \in [entities : {Listings'}, byKey : {registry'.byKey}, idByKey : {registry'.idByKey},
                     keyById : {registry'.keyById}, deviceIds : {registry'.deviceIds}, dirty : BOOLEAN]
  <2>1. registry.dirty \in BOOLEAN
    BY <1>0 DEF EntityShape
  <2> QED
    BY <1>2, <1>3, <2>1
<1>5. EntityShape'
  BY <1>0, <1>1, <1>3, <1>4 DEF EntityShape
<1>6. Entity!IndexesAgree'
  BY <1>3, SameListings DEF EntityInv
<1>7. LatestWereListed'
  <2>1. CASE known = Absent
    BY <1>1, <1>3, <2>1, SameListings DEF EntityInv
  <2>2. CASE known # Absent
    <3>1. key \in DOMAIN registry.byKey /\ known = registry.byKey[key]
      BY <2>2 DEF Entity!Get
    <3>2. type \in {known.type, "button"}
      BY <2>2 DEF Entity!EventType
    <3> HIDE DEF type, known
    <3>3. PICK i \in 1..Len(Listings) :
            Listings[i].key = key /\ \A j \in 1..Len(Listings) : j > i => Listings[j].key # key
      <4> DEFINE G == {j \in 1..Len(Listings) : Listings[j].key = key}
      <4>1. G \subseteq 1..Len(Listings) /\ G # {} /\ Len(Listings) \in Nat
        BY <1>0, <3>1 DEF EntityShape, EntityInv, Entity!IndexesAgree, Listings
      <4>2. PICK j \in G : \A k \in 1..Len(Listings) : k > j => k \notin G
        <5> HIDE DEF G
        <5> QED
          BY <4>1, LastPlace
      <4> QED
        BY <4>2
    <3>4. known = Listings[i] /\ registry.idByKey[key] = Entity!EntityId(Listings[i])
      BY <3>1, <3>3 DEF EntityInv, Entity!IndexesAgree, Listings
    <3>5. event.epoch = epoch /\ event.key = key /\ event.type = type
      OBVIOUS
    <3> HIDE DEF event
    <3>6. latestCache' = Entity!Put(latestCache, Entity!EntityId(Listings[i]), event)
      BY <1>1, <2>2, <3>4
    <3>7. DOMAIN latestCache' = DOMAIN latestCache \cup {Entity!EntityId(Listings[i])}
          /\ \A x \in DOMAIN latestCache' :
               latestCache'[x] = IF x = Entity!EntityId(Listings[i]) THEN event ELSE latestCache[x]
      BY <3>6 DEF Entity!Put
    <3> QED
      BY <1>1, <1>3, <3>2, <3>3, <3>4, <3>5, <3>7 DEF EntityInv, LatestWereListed
  <2> QED
    BY <2>1, <2>2
<1>8. InfoIsTold' /\ Entity!ConsumersAreUpToDate'
  <2>1. registry'.dirty = registry.dirty /\ registry'.entities = registry.entities
    BY <1>3 DEF Listings
  <2> QED
    BY <1>1, <2>1 DEF EntityInv, InfoIsTold, Entity!ConsumersAreUpToDate
<1> QED
  BY <1>5, <1>6, <1>7, <1>8 DEF EntityInv

LEMMA EntitiesStep == EntityInv /\ [Entity!Next]_entityVars => EntityInv'
<1> SUFFICES ASSUME EntityInv, [Entity!Next]_entityVars PROVE EntityInv'
  OBVIOUS
<1>1. ASSUME NEW hello, Entity!Connect(hello) PROVE EntityInv'
  BY <1>1, ConnectKeeps
<1>2. CASE Entity!Disconnect
  BY <1>2, IdleKeeps DEF Entity!Disconnect
<1>3. ASSUME NEW d, Entity!HandleListEntity(d) PROVE EntityInv'
  BY <1>3, ListEntityKeeps
<1>4. ASSUME NEW d, Entity!HandleListServiceEntity(d) PROVE EntityInv'
  BY <1>4, ListServiceKeeps
<1>5. ASSUME NEW d, Entity!DiscoverDeviceInfo(d) PROVE EntityInv'
  BY <1>5, DiscoverInfoKeeps
<1>6. ASSUME NEW d, Entity!RunDeviceInfo(d) PROVE EntityInv'
  BY <1>6, RunInfoKeeps
<1>7. ASSUME NEW m, Entity!Reply(m) PROVE EntityInv'
  BY <1>7, IdleKeeps DEF Entity!Reply
<1>8. ASSUME NEW key, NEW args, Entity!ExecuteService(key, args) PROVE EntityInv'
  BY <1>8, IdleKeeps DEF Entity!ExecuteService
<1>9. ASSUME NEW name, NEW args, Entity!ExecuteByName(name, args) PROVE EntityInv'
  BY <1>9, IdleKeeps DEF Entity!ExecuteByName
<1>10. ASSUME NEW m, NEW k, NEW i, Entity!HandleTelemetry(m, k, i) PROVE EntityInv'
  BY <1>10, TelemetryKeeps
<1>11. CASE UNCHANGED entityVars
  BY <1>11, IdleKeeps DEF entityVars
<1> QED
  BY <1>1, <1>2, <1>3, <1>4, <1>5, <1>6, <1>7, <1>8, <1>9, <1>10, <1>11, DiscoverDoneKeeps, RunDoneKeeps
  DEF Entity!Next

\* Whose state it is that is kept, when one entity has the id or the key.
LEMMA LatestIsRight == EntityInv => Entity!LatestIsOfItsEntity
<1> SUFFICES ASSUME EntityInv, NEW id \in DOMAIN latestCache
             PROVE  LET rivals == {i \in 1..Len(registry.entities) :
                                     \/ Entity!EntityId(registry.entities[i]) = id
                                     \/ registry.entities[i].key = latestCache[id].key}
                        entity == Entity!ById(registry, id)
                    IN  /\ latestCache[id].epoch = epoch
                        /\ Entity!Cardinality({registry.entities[i] : i \in rivals}) = 1 =>
                             latestCache[id].key = entity.key /\ latestCache[id].type \in {entity.type, "button"}
  BY DEF Entity!LatestIsOfItsEntity
<1> DEFINE l == registry.entities
           kept == latestCache[id]
           rivals == {i \in 1..Len(l) : Entity!EntityId(l[i]) = id \/ l[i].key = kept.key}
           R == {l[i] : i \in rivals}
           entity == Entity!ById(registry, id)
<1>0. Len(l) \in Nat
  BY DEF EntityInv, EntityShape, Listings
<1>1. /\ kept.epoch = epoch
      /\ \E i \in 1..Len(l) : l[i].key = kept.key /\ Entity!EntityId(l[i]) = id /\ kept.type \in {l[i].type, "button"}
  BY DEF EntityInv, LatestWereListed, Listings
<1>2. ASSUME Entity!Cardinality(R) = 1
      PROVE  kept.key = entity.key /\ kept.type \in {entity.type, "button"}
  <2>1. PICK i \in 1..Len(l) : l[i].key = kept.key /\ Entity!EntityId(l[i]) = id /\ kept.type \in {l[i].type, "button"}
    BY <1>1
  <2>2. \A e \in R : e = l[i]
    <3>1. IsFiniteSet(R)
      <4>1. IsFiniteSet(1..Len(l))
        BY <1>0, FS_Interval
      <4>2. rivals \in SUBSET (1..Len(l))
        OBVIOUS
      <4>3. IsFiniteSet(rivals)
        BY <4>1, <4>2, FS_Subset
      <4> DEFINE f == [j \in rivals |-> l[j]]
      <4>4. f \in Surjection(rivals, R)
        BY DEF Surjection
      <4> HIDE DEF f, R, rivals
      <4> QED
        BY <4>3, <4>4, FS_Surjection
    <3>2. Cardinality(R) = 1
      <4> HIDE DEF R
      <4>1. Entity!Cardinality(R) = Cardinality(R)
        BY DEF Entity!Cardinality, Cardinality, Entity!IsFiniteSet, IsFiniteSet
      <4> QED
        BY <1>2, <4>1
    <3>3. l[i] \in R
      BY <2>1
    <3> HIDE DEF R
    <3>4. PICK x : R = {x}
      BY <3>1, <3>2, FS_Singleton
    <3> QED
      BY <3>3, <3>4
  <2>3. \A j \in rivals : l[j] = l[i]
    BY <2>2
  <2>4. registry.keyById[id] = l[i].key /\ id \in DOMAIN registry.keyById
    <3>1. \E j \in 1..Len(l) : Entity!EntityId(l[j]) = id /\ \A k \in 1..Len(l) : k > j => Entity!EntityId(l[k]) # id
      <4> DEFINE G == {j \in 1..Len(l) : Entity!EntityId(l[j]) = id}
      <4>1. G \subseteq 1..Len(l) /\ G # {}
        BY <2>1
      <4>2. PICK j \in G : \A k \in 1..Len(l) : k > j => k \notin G
        <5> HIDE DEF G
        <5> QED
          BY <1>0, <4>1, LastPlace
      <4> QED
        BY <4>2
    <3>2. PICK j \in 1..Len(l) : Entity!EntityId(l[j]) = id /\ \A k \in 1..Len(l) : k > j => Entity!EntityId(l[k]) # id
      BY <3>1
    <3>3. registry.keyById[id] = l[j].key /\ id \in DOMAIN registry.keyById
      BY <3>2 DEF EntityInv, Entity!IndexesAgree
    <3>4. l[j] = l[i]
      BY <2>3, <3>2
    <3> QED
      BY <3>3, <3>4
  <2>5. registry.byKey[l[i].key] = l[i] /\ l[i].key \in DOMAIN registry.byKey
    <3>1. PICK j \in 1..Len(l) : l[j].key = l[i].key /\ \A k \in 1..Len(l) : k > j => l[k].key # l[i].key
      <4> DEFINE G == {k \in 1..Len(l) : l[k].key = l[i].key}
      <4>1. G \subseteq 1..Len(l) /\ i \in G
        BY <2>1
      <4>2. PICK j \in G : \A k \in 1..Len(l) : k > j => k \notin G
        <5> HIDE DEF G
        <5> QED
          BY <1>0, <4>1, LastPlace
      <4> QED
        BY <4>2
    <3>2. registry.byKey[l[i].key] = l[j] /\ l[i].key \in DOMAIN registry.byKey
      BY <3>1 DEF EntityInv, Entity!IndexesAgree
    <3>3. l[j] = l[i]
      BY <2>1, <2>3, <3>1
    <3> QED
      BY <3>2, <3>3
  <2>6. entity = l[i]
    BY <2>4, <2>5 DEF Entity!ById, Entity!Get
  <2> HIDE DEF entity
  <2> QED
    BY <2>1, <2>6
<1> QED
  BY <1>1, <1>2

LEMMA EntitiesAreTyped == EntityInv => Entity!TypeOK
<1> SUFFICES ASSUME EntityInv PROVE Entity!TypeOK
  OBVIOUS
<1>1. DOMAIN latestCache \subseteq {Entity!EntityId(registry.entities[i]) : i \in 1..Len(registry.entities)}
  BY DEF EntityInv, LatestWereListed, Listings
<1>2. registry.dirty \in BOOLEAN /\ serviceRegistry.dirty \in BOOLEAN
  BY DEF EntityInv, EntityShape
<1> QED
  BY <1>1, <1>2 DEF EntityInv, EntityShape, Listings, Offered, Entity!TypeOK


-----------------------------------------------------------------------------
(* User services: what a loop collects, and the requests made of it. *)

\* Induction over a set of numbers.
LEMMA AllUpTo ==
  ASSUME NEW n \in Nat, NEW G, 0 \in G, \A m \in 1..n : m - 1 \in G => m \in G
  PROVE  \A m \in 0..n : m \in G
<1> SUFFICES ASSUME NEW k \in 0..n, k \notin G PROVE FALSE
  OBVIOUS
<1> DEFINE T == (0..n) \ G
<1>1. T \subseteq Nat /\ T # {}
  OBVIOUS
<1>2. PICK m \in T : \A l \in T : m <= l
  BY <1>1, LeastNumber
<1>3. m \in 1..n /\ m - 1 \in 0..n /\ ~(m <= m - 1)
  BY <1>2
<1>4. m - 1 \in G
  BY <1>2, <1>3
<1> QED
  BY <1>2, <1>3, <1>4

Loop(u, s, kept, n) ==
  /\ u[0] = <<>>
  /\ \A m \in 1..n : u[m] = IF m \in kept THEN Append(u[m - 1], s[m]) ELSE u[m - 1]

\* The loop has a result.
LEMMA LoopRuns ==
  ASSUME NEW s, NEW kept, Len(s) \in Nat
  PROVE  \E u : Loop(u, s, kept, Len(s)) /\ Entity!Collected(s, kept) = u[Len(s)]
<1> DEFINE N == Len(s)
           G == {n \in 0..N : \E u : u = [m \in 0..n |-> u[m]] /\ Loop(u, s, kept, n)}
           Upto(u) == u = [n \in 0..N |-> IF n = 0 THEN <<>>
                                          ELSE IF n \in kept THEN Append(u[n - 1], s[n]) ELSE u[n - 1]]
<1>1. 0 \in G
  <2> DEFINE u == [m \in 0..0 |-> <<>>]
  <2>1. u = [m \in 0..0 |-> u[m]] /\ Loop(u, s, kept, 0)
    BY DEF Loop
  <2> HIDE DEF u
  <2> QED
    BY <2>1
<1>2. ASSUME NEW n \in 1..N, n - 1 \in G PROVE n \in G
  <2>1. PICK u : Loop(u, s, kept, n - 1)
    BY <1>2
  <2> DEFINE v == [m \in 0..n |-> IF m # n THEN u[m] ELSE IF n \in kept THEN Append(u[n - 1], s[n]) ELSE u[n - 1]]
  <2>2. v = [m \in 0..n |-> v[m]]
    OBVIOUS
  <2>3. v[0] = u[0] /\ \A m \in 1..n : v[m - 1] = u[m - 1] /\ (m # n => v[m] = u[m])
    OBVIOUS
  <2>4. v[n] = IF n \in kept THEN Append(u[n - 1], s[n]) ELSE u[n - 1]
    OBVIOUS
  <2> HIDE DEF v
  <2>5. ASSUME NEW m \in 1..n PROVE v[m] = IF m \in kept THEN Append(v[m - 1], s[m]) ELSE v[m - 1]
    <3>1. CASE m = n
      BY <2>3, <2>4, <3>1
    <3>2. CASE m # n
      <4>1. m \in 1..n - 1
        BY <3>2
      <4>2. u[m] = IF m \in kept THEN Append(u[m - 1], s[m]) ELSE u[m - 1]
        BY <2>1, <4>1 DEF Loop
      <4> QED
        BY <2>3, <3>2, <4>2
    <3> QED
      BY <3>1, <3>2
  <2>6. Loop(v, s, kept, n)
    BY <2>1, <2>3, <2>5 DEF Loop
  <2> QED
    BY <2>2, <2>6
<1>3. N \in G
  <2> HIDE DEF G
  <2>1. \A m \in 1..N : m - 1 \in G => m \in G
    BY <1>2
  <2>2. \A m \in 0..N : m \in G
    BY <1>1, <2>1, AllUpTo, Zenon
  <2> QED
    BY <2>2
<1>4. PICK u : u = [m \in 0..N |-> u[m]] /\ Loop(u, s, kept, N)
  BY <1>3
<1>5. Upto(u)
  <2>1. ASSUME NEW m \in 0..N
        PROVE  u[m] = IF m = 0 THEN <<>> ELSE IF m \in kept THEN Append(u[m - 1], s[m]) ELSE u[m - 1]
    <3>1. m = 0 \/ m \in 1..N
      OBVIOUS
    <3> QED
      BY <1>4, <3>1 DEF Loop
  <2> QED
    BY <1>4, <2>1
<1>6. Upto(CHOOSE w : Upto(w))
  BY <1>5, Zenon
<1>7. Entity!Collected(s, kept) = (CHOOSE w : Upto(w))[N]
  BY DEF Entity!Collected
<1> DEFINE w == CHOOSE w : Upto(w)
<1>8. Loop(w, s, kept, N)
  <2> HIDE DEF w
  <2>1. Upto(w)
    BY <1>6 DEF w
  <2>2. ASSUME NEW m \in 0..N
        PROVE  w[m] = IF m = 0 THEN <<>> ELSE IF m \in kept THEN Append(w[m - 1], s[m]) ELSE w[m - 1]
    BY <2>1, Zenon
  <2>3. w[0] = <<>>
    BY <2>2
  <2>4. ASSUME NEW m \in 1..N PROVE w[m] = IF m \in kept THEN Append(w[m - 1], s[m]) ELSE w[m - 1]
    <3>1. m \in 0..N /\ m # 0
      OBVIOUS
    <3> QED
      BY <2>2, <3>1
  <2> QED
    BY <2>3, <2>4 DEF Loop
<1> QED
  BY <1>7, <1>8

\* Where the items of c stand in s: at places that are kept, up to n, in order.
Stands(c, s, kept, n, at) ==
  /\ at \in [1..Len(c) -> kept \cap (1..Len(s))]
  /\ \A i \in 1..Len(c) : at[i] <= n
  /\ \A i, j \in 1..Len(c) : i < j => at[i] < at[j]
  /\ \A i \in 1..Len(c) : c[i] = s[at[i]]

Kept(s, kept) == {s[i] : i \in kept \cap (1..Len(s))}

\* What is collected: items of the places that are kept, in the order of the list.
LEMMA CollectedFits ==
  ASSUME NEW s, NEW kept, Len(s) \in Nat
  PROVE  /\ Entity!Collected(s, kept) \in Seq(Kept(s, kept))
         /\ \E at : Stands(Entity!Collected(s, kept), s, kept, Len(s), at)
<1> DEFINE N == Len(s)
<1>1. PICK u : Loop(u, s, kept, N) /\ Entity!Collected(s, kept) = u[N]
  BY LoopRuns
<1> DEFINE G == {n \in 0..N : u[n] \in Seq(Kept(s, kept)) /\ \E at : Stands(u[n], s, kept, n, at)}
<1>2. 0 \in G
  <2>1. u[0] = <<>>
    BY <1>1 DEF Loop
  <2>2. Stands(<<>>, s, kept, 0, [i \in 1..0 |-> 1])
    BY DEF Stands
  <2>3. u[0] \in Seq(Kept(s, kept)) /\ \E at : Stands(u[0], s, kept, 0, at)
    BY <2>1, <2>2
  <2> QED
    BY <2>3
<1>3. ASSUME NEW n \in 1..N, n - 1 \in G PROVE n \in G
  <2>1. u[n] = IF n \in kept THEN Append(u[n - 1], s[n]) ELSE u[n - 1]
    BY <1>1 DEF Loop
  <2>2. PICK at : Stands(u[n - 1], s, kept, n - 1, at)
    BY <1>3
  <2> DEFINE c == u[n - 1]
             k == Len(c)
  <2>3. c \in Seq(Kept(s, kept)) /\ k \in Nat
    BY <1>3
  <2>4. Stands(c, s, kept, n - 1, at)
    BY <2>2
  <2> HIDE DEF c
  <2>5. CASE n \notin kept
    <3>1. u[n] = c
      BY <2>1, <2>5 DEF c
    <3>2. \A i \in 1..k : at[i] <= n
      BY <2>4 DEF Stands
    <3>3. Stands(c, s, kept, n, at)
      BY <2>4, <3>2 DEF Stands
    <3> QED
      BY <2>3, <3>1, <3>3
  <2>6. CASE n \in kept
    <3> DEFINE new == [i \in 1..k + 1 |-> IF i <= k THEN at[i] ELSE n]
               d == Append(c, s[n])
    <3>1. u[n] = d
      BY <2>1, <2>6 DEF c
    <3>2. s[n] \in Kept(s, kept)
      BY <2>6 DEF Kept
    <3>3. d \in Seq(Kept(s, kept)) /\ Len(d) = k + 1 /\ (\A i \in 1..k : d[i] = c[i]) /\ d[k + 1] = s[n]
      BY <2>3, <3>2, AppendProperties
    <3> HIDE DEF d
    <3>4. /\ at \in [1..k -> kept \cap (1..N)] /\ \A i \in 1..k : at[i] <= n - 1
          /\ \A i, j \in 1..k : i < j => at[i] < at[j]
          /\ \A i \in 1..k : c[i] = s[at[i]]
      BY <2>4 DEF Stands
    <3> HIDE DEF k
    <3>5. new \in [1..k + 1 -> kept \cap (1..N)]
      BY <2>3, <2>6, <3>4
    <3>6. (\A i \in 1..k : new[i] = at[i]) /\ new[k + 1] = n
      BY <2>3
    <3> HIDE DEF new
    <3>7. \A i \in 1..k + 1 : i \in 1..k \/ i = k + 1
      BY <2>3
    <3>8. \A i \in 1..k + 1 : new[i] <= n
      BY <3>4, <3>6, <3>7
    <3>9. ASSUME NEW i \in 1..k + 1, NEW j \in 1..k + 1, i < j PROVE new[i] < new[j]
      <4>1. i \in 1..k
        BY <3>9, <2>3
      <4>2. at[i] <= n - 1 /\ at[i] \in Nat
        BY <3>4, <4>1
      <4>3. CASE j \in 1..k
        BY <3>4, <3>6, <4>1, <4>3, <3>9
      <4>4. CASE j = k + 1
        BY <3>6, <4>1, <4>2, <4>4
      <4> QED
        BY <3>7, <4>3, <4>4
    <3>10. \A i \in 1..k + 1 : d[i] = s[new[i]]
      BY <3>3, <3>4, <3>6, <3>7
    <3>11. Stands(d, s, kept, n, new)
      BY <3>3, <3>5, <3>8, <3>9, <3>10 DEF Stands
    <3> QED
      BY <3>1, <3>3, <3>11
  <2> QED
    BY <2>5, <2>6
<1>4. N \in G
  <2> HIDE DEF G
  <2>1. \A m \in 1..N : m - 1 \in G => m \in G
    BY <1>3
  <2>2. \A m \in 0..N : m \in G
    BY <1>2, <2>1, AllUpTo, Zenon
  <2> QED
    BY <2>2
<1> QED
  BY <1>1, <1>4

\* Numbers that grow are no fewer than their places.
LEMMA GrowingNumbers ==
  ASSUME NEW n \in Nat, NEW at \in [1..n -> Nat \ {0}], \A i, j \in 1..n : i < j => at[i] < at[j],
         NEW b \in Nat, \A i \in 1..n : at[i] <= b
  PROVE  n <= b
<1> DEFINE G == {m \in 0..n : m = 0 \/ m <= at[m]}
<1>1. 0 \in G
  OBVIOUS
<1>2. ASSUME NEW m \in 1..n, m - 1 \in G PROVE m \in G
  <2>1. CASE m = 1
    BY <2>1
  <2>2. CASE m # 1
    <3>1. m - 1 \in 1..n /\ m - 1 < m
      BY <2>2
    <3>2. at[m - 1] < at[m] /\ m - 1 <= at[m - 1] /\ at[m] \in Nat /\ at[m - 1] \in Nat
      BY <1>2, <3>1
    <3> QED
      BY <3>2
  <2> QED
    BY <2>1, <2>2
<1>3. \A m \in 0..n : m \in G
  <2> HIDE DEF G
  <2>1. \A m \in 1..n : m - 1 \in G => m \in G
    BY <1>2
  <2> QED
    BY <1>1, <2>1, AllUpTo, Zenon
<1>4. n \in G
  BY <1>3
<1>5. CASE n = 0
  BY <1>5
<1>6. CASE n # 0
  <2>1. n <= at[n] /\ at[n] <= b /\ at[n] \in Nat
    BY <1>4, <1>6
  <2> QED
    BY <2>1
<1> QED
  BY <1>5, <1>6

ServicesAgree ==
  /\ \A key \in DOMAIN serviceRegistry.byKey :
       /\ serviceRegistry.byKey[key].key = key
       /\ \E i \in 1..Len(Offered) : Offered[i] = serviceRegistry.byKey[key]
  /\ \A i \in 1..Len(Offered) : Len(Offered[i].args) \in Nat

\* What a service request holds, of the service, of the name and of the arguments that were asked.
NamesAService(name, service) ==
  /\ \E i \in 1..Len(Offered) : Offered[i] = service
  /\ name # Absent => \E i \in 1..Len(Offered) : Offered[i].name = name /\ Offered[i].key = service.key

CarriesArguments(given, args, service) ==
  /\ Len(args) \in Nat /\ Len(args) <= Len(service.args)
  /\ \A i, j \in 1..Len(args) : i < j => args[i][1] < args[j][1]
  /\ \A i \in 1..Len(args) : args[i][2] = given[args[i][1]] /\ args[i][2] # Absent

RequestsInv ==
  /\ ServicesAgree
  /\ sent.type = "EXECUTE_SERVICE_REQUEST" =>
       NamesAService(sent.name, sent.service) /\ CarriesArguments(sent.asked, sent.args, sent.service)

\* Arguments that are skipped leave no gap and take no other's place.
LEMMA ArgumentsFit ==
  ASSUME NEW given \in Seq({Absent, 1, 2}), NEW service, Len(service.args) \in Nat
  PROVE  CarriesArguments(given, Entity!EncodeArguments(service, given), service)
<1> DEFINE s == [i \in 1..Len(given) |-> <<i, given[i]>>]
           kept == {i \in 1..Len(given) : given[i] # Absent /\ i <= Len(service.args)}
           c == Entity!Collected(s, kept)
<1>1. Len(given) \in Nat /\ s \in Seq((1..Len(given)) \X {Absent, 1, 2}) /\ Len(s) = Len(given)
  OBVIOUS
<1>2. \A i \in 1..Len(given) : s[i] = <<i, given[i]>>
  OBVIOUS
<1>3. Entity!EncodeArguments(service, given) = c
  BY DEF Entity!EncodeArguments
<1>4. \A i \in kept : i \in 1..Len(given) /\ given[i] # Absent /\ i <= Len(service.args)
  OBVIOUS
<1> HIDE DEF s, kept, c
<1>5. PICK at : Stands(c, s, kept, Len(s), at)
  BY <1>1, CollectedFits DEF c
<1>6. Len(c) \in Nat
  BY <1>1, CollectedFits DEF c
<1>7. /\ at \in [1..Len(c) -> kept \cap (1..Len(given))]
      /\ \A i, j \in 1..Len(c) : i < j => at[i] < at[j]
      /\ \A i \in 1..Len(c) : c[i] = s[at[i]]
  BY <1>1, <1>5 DEF Stands
<1>8. \A i \in 1..Len(c) : c[i][1] = at[i] /\ c[i][2] = given[at[i]]
  BY <1>2, <1>7
<1>9. Len(c) <= Len(service.args)
  <2>1. at \in [1..Len(c) -> Nat \ {0}] /\ \A i \in 1..Len(c) : at[i] <= Len(service.args)
    BY <1>4, <1>7
  <2> QED
    BY <1>6, <1>7, <2>1, GrowingNumbers
<1>10. \A i \in 1..Len(c) : at[i] \in kept
  BY <1>7
<1>11. \A i, j \in 1..Len(c) : i < j => c[i][1] < c[j][1]
  BY <1>7, <1>8
<1>12. \A i \in 1..Len(c) : c[i][2] = given[c[i][1]] /\ c[i][2] # Absent
  BY <1>4, <1>8, <1>10
<1> QED
  BY <1>3, <1>6, <1>9, <1>11, <1>12 DEF CarriesArguments

\* A step that leaves the services and sends none of these requests.
LEMMA ServicesStay ==
  ASSUME RequestsInv, serviceRegistry'.byKey = serviceRegistry.byKey, Offered' = Offered,
         sent' = sent \/ sent'.type # "EXECUTE_SERVICE_REQUEST"
  PROVE  RequestsInv'
<1>1. ServicesAgree'
  BY DEF RequestsInv, ServicesAgree
<1> QED
  BY <1>1 DEF RequestsInv, NamesAService, CarriesArguments

\* A request that is made.
LEMMA ExecuteFits ==
  ASSUME EntityShape, RequestsInv, UNCHANGED serviceRegistry, NEW key, NEW name, NEW args \in Entity!Arguments,
         Entity!Execute(key, name, args),
         name # Absent => \E i \in 1..Len(Offered) : Offered[i].name = name /\ Offered[i].key = key
  PROVE  RequestsInv'
<1> DEFINE service == Entity!Get(serviceRegistry.byKey, key)
<1>1. UNCHANGED <<serviceRegistry.byKey, Offered>>
  BY DEF Offered
<1>2. CASE sent' = sent
  BY <1>1, <1>2, ServicesStay
<1>3. CASE /\ service # Absent
           /\ sent' = [type |-> "EXECUTE_SERVICE_REQUEST", service |-> service, name |-> name, asked |-> args,
                       args |-> Entity!EncodeArguments(service, args)]
  <2>1. key \in DOMAIN serviceRegistry.byKey /\ service = serviceRegistry.byKey[key]
    BY <1>3 DEF Entity!Get
  <2> HIDE DEF service
  <2>2. service.key = key /\ \E i \in 1..Len(Offered) : Offered[i] = service
    BY <2>1 DEF RequestsInv, ServicesAgree
  <2>3. Len(service.args) \in Nat
    BY <2>2 DEF RequestsInv, ServicesAgree
  <2>4. NamesAService(name, service)
    BY <2>2 DEF NamesAService
  <2>5. args \in Seq({Absent, 1, 2})
    <3>1. args = <<Absent, 1>> \/ args = <<1, 2>>
      BY DEF Entity!Arguments
    <3>2. Absent \in {Absent, 1, 2} /\ 1 \in {Absent, 1, 2} /\ 2 \in {Absent, 1, 2}
      OBVIOUS
    <3> DEFINE T == {Absent, 1, 2}
    <3> HIDE DEF T
    <3>3. <<Absent, 1>> \in Seq(T) /\ <<1, 2>> \in Seq(T)
      BY <3>2 DEF T
    <3> QED
      BY <3>1, <3>3 DEF T
  <2>6. CarriesArguments(args, Entity!EncodeArguments(service, args), service)
    BY <2>3, <2>5, ArgumentsFit
  <2>7. /\ sent'.name = name /\ sent'.service = service /\ sent'.asked = args
        /\ sent'.args = Entity!EncodeArguments(service, args)
    BY <1>3
  <2>9. NamesAService(sent.name, sent.service)'
    BY <1>1, <2>4, <2>7 DEF NamesAService
  <2>10. CarriesArguments(sent.asked, sent.args, sent.service)'
    BY <2>6, <2>7 DEF CarriesArguments
  <2>11. ServicesAgree'
    BY <1>1 DEF RequestsInv, ServicesAgree
  <2> QED
    BY <2>9, <2>10, <2>11 DEF RequestsInv
<1> QED
  BY <1>2, <1>3 DEF Entity!Execute

\* The service of a name is the first of that name.
LEMMA NamedService ==
  ASSUME EntityShape, NEW name, Entity!ServiceByName(serviceRegistry, name) # Absent
  PROVE  \E i \in 1..Len(Offered) :
           Offered[i].name = name /\ Offered[i] = Entity!ServiceByName(serviceRegistry, name)
<1> DEFINE named == {i \in 1..Len(serviceRegistry.services) : serviceRegistry.services[i].name = name}
<1>1. named # {} /\ Entity!ServiceByName(serviceRegistry, name) = Offered[Entity!Min(named)]
  BY DEF Entity!ServiceByName, Offered
<1>2. Len(serviceRegistry.services) \in Nat
  BY DEF EntityShape, Offered
<1>3. \E i \in named : \A j \in named : i <= j
  <2>1. named \subseteq Nat
    BY <1>2
  <2> HIDE DEF named
  <2> QED
    BY <1>1, <2>1, LeastNumber
<1>4. Entity!Min(named) \in named
  BY <1>3 DEF Entity!Min
<1>5. Entity!Min(named) \in 1..Len(Offered) /\ Offered[Entity!Min(named)].name = name
  BY <1>4 DEF Offered
<1> QED
  BY <1>1, <1>5

\* A service that is listed.
LEMMA ListServiceFits ==
  ASSUME EntityShape, RequestsInv, NEW d \in ServiceList, Entity!HandleListServiceEntity(d)
  PROVE  RequestsInv'
<1> DEFINE service == Entity!DecodeService(d)
<1>1. CASE service = Absent
  BY <1>1, ServicesStay DEF Entity!HandleListServiceEntity, Offered
<1>2. CASE service # Absent
  <2>1. sent' = sent /\ serviceRegistry' = Entity!RegisterService(serviceRegistry, service)
    BY <1>2 DEF Entity!HandleListServiceEntity
  <2>2. Len(service.args) \in Nat
    <3>1. Len(d.args) \in Nat
      BY EntitiesAssumption
    <3>2. \E kept : service.args = Entity!Collected(d.args, kept)
      BY <1>2 DEF Entity!DecodeService
    <3> HIDE DEF service
    <3>3. PICK kept : service.args = Entity!Collected(d.args, kept)
      BY <3>2
    <3>4. service.args \in Seq(Kept(d.args, kept))
      BY <3>1, <3>3, CollectedFits
    <3> QED
      BY <3>4
  <2> HIDE DEF service
  <2>3. PICK S : Offered \in Seq(S)
    BY DEF EntityShape
  <2>4. Offered' = Append(Offered, service) /\ serviceRegistry'.byKey = Entity!Put(serviceRegistry.byKey, service.key, service)
    BY <2>1 DEF Entity!RegisterService, Offered
  <2>5. /\ Len(Offered) \in Nat /\ Len(Offered') = Len(Offered) + 1 /\ Offered'[Len(Offered) + 1] = service
        /\ \A i \in 1..Len(Offered) : Offered'[i] = Offered[i]
    <3>1. Offered \in Seq(S \cup {service}) /\ service \in S \cup {service}
      BY <2>3
    <3> QED
      BY <2>4, <3>1, AppendProperties
  <2>6. \A i \in 1..Len(Offered) : i \in 1..Len(Offered')
    BY <2>5
  <2>7. \A i \in 1..Len(Offered') : i \in 1..Len(Offered) \/ i = Len(Offered) + 1
    BY <2>5
  <2>8. ASSUME NEW key \in DOMAIN serviceRegistry'.byKey
        PROVE  /\ serviceRegistry'.byKey[key].key = key
               /\ \E i \in 1..Len(Offered') : Offered'[i] = serviceRegistry'.byKey[key]
    <3>1. CASE key = service.key
      <4>1. serviceRegistry'.byKey[key] = service
        BY <2>4, <3>1 DEF Entity!Put
      <4>2. Len(Offered) + 1 \in 1..Len(Offered')
        BY <2>5
      <4> QED
        BY <2>5, <3>1, <4>1, <4>2
    <3>2. CASE key # service.key
      <4>1. key \in DOMAIN serviceRegistry.byKey /\ serviceRegistry'.byKey[key] = serviceRegistry.byKey[key]
        BY <2>4, <3>2 DEF Entity!Put
      <4> QED
        BY <2>5, <2>6, <4>1 DEF RequestsInv, ServicesAgree
    <3> QED
      BY <3>1, <3>2
  <2>9. \A i \in 1..Len(Offered') : Len(Offered'[i].args) \in Nat
    BY <2>2, <2>5, <2>7 DEF RequestsInv, ServicesAgree
  <2>10. ServicesAgree'
    BY <2>8, <2>9 DEF ServicesAgree
  <2>12. CASE sent.type = "EXECUTE_SERVICE_REQUEST"
    <3>1. NamesAService(sent.name, sent.service) /\ CarriesArguments(sent.asked, sent.args, sent.service)
      BY <2>12 DEF RequestsInv
    <3>2. NamesAService(sent.name, sent.service)'
      BY <2>1, <2>5, <2>6, <3>1 DEF NamesAService
    <3>3. CarriesArguments(sent.asked, sent.args, sent.service)'
      BY <2>1, <3>1 DEF CarriesArguments
    <3> QED
      BY <2>10, <3>2, <3>3 DEF RequestsInv
  <2>13. CASE sent.type # "EXECUTE_SERVICE_REQUEST"
    BY <2>1, <2>10, <2>13 DEF RequestsInv
  <2> QED
    BY <2>12, <2>13
<1> QED
  BY <1>1, <1>2

LEMMA RequestsStart == Entity!Init => RequestsInv
<1> SUFFICES ASSUME Entity!Init PROVE RequestsInv
  OBVIOUS
<1>1. /\ serviceRegistry.byKey = Entity!Nothing /\ DOMAIN Entity!Nothing = {} /\ Offered = <<>>
      /\ sent.type = "none"
  BY DEF Entity!Init, Entity!EmptyServices, Entity!Nothing, Entity!NoFrame, Offered
<1>2. ServicesAgree
  BY <1>1 DEF ServicesAgree
<1> QED
  BY <1>1, <1>2 DEF RequestsInv

\* A connection forgets the services, and the requests that were made of them.
LEMMA ConnectForgets ==
  ASSUME NEW hello, Entity!Connect(hello)
  PROVE  RequestsInv'
<1>1. /\ serviceRegistry'.byKey = Entity!Nothing /\ DOMAIN Entity!Nothing = {} /\ Offered' = <<>>
  BY DEF Entity!Connect, Entity!ClearServices, Entity!EmptyServices, Entity!Nothing, Offered
<1>2. sent' = Entity!NoFrame \/ \E minor : sent' = Entity!Authenticate(minor)
  BY DEF Entity!Connect
<1>3. sent'.type # "EXECUTE_SERVICE_REQUEST"
  BY <1>2 DEF Entity!NoFrame, Entity!Authenticate
<1>4. ServicesAgree'
  BY <1>1 DEF ServicesAgree
<1> QED
  BY <1>3, <1>4 DEF RequestsInv

LEMMA RequestsStep == EntityInv /\ RequestsInv /\ [Entity!Next]_entityVars => RequestsInv'
<1> SUFFICES ASSUME EntityInv, RequestsInv, [Entity!Next]_entityVars PROVE RequestsInv'
  OBVIOUS
<1>0. EntityShape
  BY DEF EntityInv
<1>1. ASSUME UNCHANGED sent, serviceRegistry' = serviceRegistry \/ serviceRegistry' = Entity!Clean(serviceRegistry)
      PROVE  RequestsInv'
  <2>1. serviceRegistry' \in [services : {Offered}, byKey : {serviceRegistry.byKey}, dirty : BOOLEAN]
    BY <1>0, <1>1, CleanServices
  <2>2. Offered' = Offered /\ serviceRegistry'.byKey = serviceRegistry.byKey
    BY <2>1 DEF Offered
  <2> QED
    BY <1>1, <2>2, ServicesStay
<1>2. ASSUME NEW hello, Entity!Connect(hello) PROVE RequestsInv'
  BY <1>2, ConnectForgets
<1>3. CASE Entity!Disconnect
  BY <1>1, <1>3 DEF Entity!Disconnect
<1>4. ASSUME NEW d, Entity!HandleListEntity(d) PROVE RequestsInv'
  BY <1>1, <1>4 DEF Entity!HandleListEntity
<1>5. ASSUME NEW d \in ServiceList, Entity!HandleListServiceEntity(d) PROVE RequestsInv'
  BY <1>0, <1>5, ListServiceFits
<1>6. ASSUME NEW d, Entity!DiscoverDeviceInfo(d) PROVE RequestsInv'
  BY <1>1, <1>6 DEF Entity!DiscoverDeviceInfo, Entity!EndDiscovery
<1>7. ASSUME NEW d, Entity!RunDeviceInfo(d) PROVE RequestsInv'
  BY <1>1, <1>7 DEF Entity!RunDeviceInfo
<1>8. CASE Entity!DiscoverDone
  BY <1>1, <1>8 DEF Entity!DiscoverDone, Entity!EndDiscovery
<1>9. CASE Entity!RunDone
  BY <1>1, <1>9 DEF Entity!RunDone
<1>10. ASSUME NEW m, Entity!Reply(m) PROVE RequestsInv'
  <2>1. UNCHANGED <<Offered, serviceRegistry.byKey>> /\ sent'.type # "EXECUTE_SERVICE_REQUEST"
    BY <1>10 DEF Entity!Reply, Entity!NoFrame, Offered
  <2> QED
    BY <2>1, ServicesStay
<1>11. ASSUME NEW key, NEW args \in Entity!Arguments, Entity!ExecuteService(key, args) PROVE RequestsInv'
  BY <1>0, <1>11, ExecuteFits DEF Entity!ExecuteService
<1>12. ASSUME NEW name, NEW args \in Entity!Arguments, Entity!ExecuteByName(name, args) PROVE RequestsInv'
  <2> DEFINE found == Entity!ServiceByName(serviceRegistry, name)
  <2>1. CASE found = Absent
    BY <1>1, <1>12, <2>1 DEF Entity!ExecuteByName
  <2>2. CASE found # Absent
    <3>1. \E i \in 1..Len(Offered) : Offered[i].name = name /\ Offered[i] = found
      BY <1>0, <2>2, NamedService
    <3>2. Entity!Execute(found.key, name, args) /\ UNCHANGED serviceRegistry
      BY <1>12, <2>2 DEF Entity!ExecuteByName
    <3> HIDE DEF found
    <3>3. \E i \in 1..Len(Offered) : Offered[i].name = name /\ Offered[i].key = found.key
      BY <3>1
    <3> QED
      BY <1>0, <3>2, <3>3, ExecuteFits
  <2> QED
    BY <2>1, <2>2
<1>13. ASSUME NEW m, NEW k, NEW i, Entity!HandleTelemetry(m, k, i) PROVE RequestsInv'
  BY <1>1, <1>13 DEF Entity!HandleTelemetry
<1>14. CASE UNCHANGED entityVars
  BY <1>1, <1>14 DEF entityVars
<1> QED
  BY <1>2, <1>3, <1>4, <1>5, <1>6, <1>7, <1>8, <1>9, <1>10, <1>11, <1>12, <1>13, <1>14 DEF Entity!Next

LEMMA RequestsAreRight == RequestsInv => RequestsFitTheService
<1> SUFFICES ASSUME RequestsInv, sent.type = "EXECUTE_SERVICE_REQUEST"
             PROVE  /\ sent.service \in Entity!ToSet(serviceRegistry.services)
                    /\ sent.name # Absent => \E s \in Entity!ToSet(serviceRegistry.services) :
                                               s.name = sent.name /\ s.key = sent.service.key
                    /\ CarriesArguments(sent.asked, sent.args, sent.service)
  BY DEF RequestsFitTheService, Entity!RequestsFitTheService, CarriesArguments
<1>1. \A i \in 1..Len(Offered) : Offered[i] \in Entity!ToSet(serviceRegistry.services)
  BY DEF Entity!ToSet, Offered
<1> QED
  BY <1>1 DEF RequestsInv, NamesAService

-----------------------------------------------------------------------------
(* The sum of the two. *)

MCInv == IInv /\ EntityInv /\ RequestsInv

LEMMA MCStart == MCInit => MCInv
  BY InitIInv, EntitiesStart, RequestsStart DEF MCInit, MCInv

LEMMA MCStep == MCInv /\ [MCNext]_mcVars => MCInv'
<1> SUFFICES ASSUME MCInv, [MCNext]_mcVars PROVE MCInv'
  OBVIOUS
<1>1. [Next]_vars
  BY DEF MCNext, mcVars
<1>2. [Entity!Next]_entityVars
  BY DEF MCNext, mcVars
<1> QED
  BY <1>1, <1>2, NextIInv, EntitiesStep, RequestsStep DEF MCInv

LEMMA MCInvariance == MCSpec => []MCInv
  BY MCStart, MCStep, PTL DEF MCSpec

\* Both lists may grow in one session, as Entities has it.
LEMMA EntitiesInvariance == Entity!Spec => [](EntityInv /\ RequestsInv)
<1>1. EntityInv /\ [Entity!Next]_(Entity!vars) => EntityInv'
  BY EntitiesStep DEF Entity!vars, entityVars
<1>2. EntityInv /\ RequestsInv /\ [Entity!Next]_(Entity!vars) => RequestsInv'
  BY RequestsStep DEF Entity!vars, entityVars
<1> QED
  BY <1>1, <1>2, EntitiesStart, RequestsStart, PTL DEF Entity!Spec

\* What is known of a device is consistent in every such state.
LEMMA ConsistencyFollows == EntityInv => EntitiesAreConsistent
  BY LatestIsRight DEF EntityInv, EntitiesAreConsistent

\* For every device, whatever it lists, describes and reports, in every session.
THEOREM EntitiesKeepTheirWord == (MCSpec \/ Entity!Spec) => []EntitiesAreConsistent
  BY MCInvariance, EntitiesInvariance, ConsistencyFollows, PTL DEF MCInv

\* A service request names a service that this session listed, and carries what the caller gave,
\* in order, whatever the services, the names and the arguments that are left out.
THEOREM RequestsFit == (MCSpec \/ Entity!Spec) => []RequestsFitTheService
  BY MCInvariance, EntitiesInvariance, RequestsAreRight, PTL DEF MCInv

\* The types of the receiver, and those of what the client knows of a device.
THEOREM TypesAreCorrect == MCSpec => []MCTypeOK
<1>1. MCInv => MCTypeOK
  BY EntitiesAreTyped DEF MCInv, IInv, MCTypeOK
<1> QED
  BY <1>1, MCInvariance, PTL
=============================================================================
