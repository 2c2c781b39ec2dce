---------------------------- MODULE LedgerProofs ----------------------------
(***************************************************************************)
(* Proofs about Ledger, for any reducer, set of keys and number of         *)
(* subscribers, and about the log manager that uses one: MCLedger is       *)
(* extended for its instance of LogSubscriptions, whose ledger is Logs!L,  *)
(* with Math.max for the reducer.  Then about the heartbeat, Beat, for     *)
(* any times, and about the sum of them all.                               *)
(***************************************************************************)
EXTENDS MCLedger, WellFoundedInduction, TLAPS

\* What a step may assume: the device's state is followed key by key.
Agreed(w, k, subs) ==
  /\ w.told[k] = w.cache[k]
  /\ w.cache[k] = Wanted(k, subs) \/ (options.retainOnEmpty /\ Wanted(k, subs) = Empty)

\* The reducer's result is a desired state.
LEMMA WantedType ==
  ASSUME NEW k \in Keys, NEW subs \in SUBSET [handle : Handles, key : Keys, intent : Intents]
  PROVE  Wanted(k, subs) \in Desired
<1>1. IntentsFor(k, subs) \in SUBSET Intents
  BY DEF IntentsFor
<1>2. CASE IntentsFor(k, subs) = {}
  BY <1>2, LedgerAssumption DEF Wanted, Desired
<1>3. CASE IntentsFor(k, subs) # {}
  BY <1>1, <1>3, LedgerAssumption DEF Wanted, Desired
<1> QED
  BY <1>2, <1>3

Wires == [cache : [Keys -> Desired], told : [Keys -> Desired], frames : [Keys -> Seq(Desired)]]

\* recompute() keeps the types.
LEMMA RecomputeType ==
  ASSUME NEW w \in Wires, NEW k \in Keys,
         NEW subs \in SUBSET [handle : Handles, key : Keys, intent : Intents]
  PROVE  Recompute(w, k, subs) \in Wires
<1> DEFINE d == Wanted(k, subs)
<1>1. d \in Desired
  BY WantedType
<1>2. ASSUME NEW v \in Wires  PROVE Send(v, k, d) \in Wires
  <2>1. Append(v.frames[k], d) \in Seq(Desired)
    BY <1>1, <1>2 DEF Wires
  <2> QED
    BY <1>1, <1>2, <2>1 DEF Send, Wires
<1>3. [w EXCEPT !.cache[k] = d] \in Wires
  BY <1>1 DEF Wires
<1> HIDE DEF d
<1>4. Change(w, k, d) \in Wires
  BY <1>2, <1>3 DEF Change
<1> QED
  BY <1>4 DEF Recompute, d

\* The step of acquire() and release(): the key itself is brought in line, the others are
\* left as they are.
LEMMA RecomputeAgrees ==
  ASSUME NEW w \in Wires, NEW k \in Keys,
         NEW subs \in SUBSET [handle : Handles, key : Keys, intent : Intents],
         options.onChange, transport = "up", w.told[k] = w.cache[k]
  PROVE  /\ Agreed(Recompute(w, k, subs), k, subs)
         /\ \A j \in Keys \ {k} : /\ Recompute(w, k, subs).told[j] = w.told[j]
                                  /\ Recompute(w, k, subs).cache[j] = w.cache[j]
<1> DEFINE d == Wanted(k, subs)
<1>1. d \in Desired
  BY WantedType
<1>2. CASE w.cache[k] = d \/ (d = Empty /\ options.retainOnEmpty)
  BY <1>2 DEF Recompute, Agreed
<1>3. CASE ~(w.cache[k] = d \/ (d = Empty /\ options.retainOnEmpty))
  <2>1. Recompute(w, k, subs) = Send([w EXCEPT !.cache[k] = d], k, d)
    BY <1>3 DEF Recompute, Change
  <2> QED
    BY <2>1, <1>1 DEF Send, Wires, Agreed
<1> QED
  BY <1>2, <1>3

\* Adding or removing a subscriber of one key leaves what the other keys want.
LEMMA OtherKeys ==
  ASSUME NEW s \in [handle : Handles, key : Keys, intent : Intents], NEW j \in Keys, j # s.key,
         NEW subs
  PROVE  /\ Wanted(j, subs \cup {s}) = Wanted(j, subs)
         /\ Wanted(j, subs \ {s}) = Wanted(j, subs)
<1>1. {r \in subs \cup {s} : r.key = j} = {r \in subs : r.key = j}
  OBVIOUS
<1>2. {r \in subs \ {s} : r.key = j} = {r \in subs : r.key = j}
  OBVIOUS
<1> QED
  BY <1>1, <1>2 DEF Wanted, IntentsFor

\* Starting a step's list of frames changes nothing else.
LEMMA QuietType ==
  ASSUME wire \in Wires
  PROVE  Quiet \in Wires /\ Quiet.told = wire.told /\ Quiet.cache = wire.cache
<1>1. NoFrames \in [Keys -> Seq(Desired)]
  <2>1. <<>> \in Seq(Desired)
    OBVIOUS
  <2> QED
    BY <2>1 DEF NoFrames
<1> HIDE DEF NoFrames
<1>2. Quiet = [cache |-> wire.cache, told |-> wire.told, frames |-> NoFrames]
  BY DEF Quiet, Wires
<1> QED
  BY <1>1, <1>2 DEF Wires

LEMMA InitTypeOK == Init => TypeOK
  BY DEF Init, TypeOK, Nothing, NoFrames, Desired

LEMMA NextTypeOK == TypeOK /\ [Next]_vars => TypeOK'
<1> SUFFICES ASSUME TypeOK, [Next]_vars PROVE TypeOK'
  OBVIOUS
<1> USE DEF TypeOK
<1>0. Quiet \in Wires
  BY QuietType DEF Wires
<1>1. ASSUME NEW h \in Handles, NEW k \in Keys, NEW v \in Intents, Acquire(h, k, v)
      PROVE  TypeOK'
  <2>1. subscribers' \subseteq [handle : Handles, key : Keys, intent : Intents]
    BY <1>1 DEF Acquire
  <2>2. wire' \in Wires
    BY <1>0, <1>1, <2>1, RecomputeType DEF Acquire
  <2>3. \A r, t \in subscribers' : r.handle = t.handle => r = t
    BY <1>1 DEF Acquire
  <2> QED
    BY <1>1, <2>1, <2>2, <2>3 DEF Acquire, Wires
<1>2. ASSUME NEW s \in subscribers, Release(s)
      PROVE  TypeOK'
  <2>1. wire' \in Wires
    BY <1>0, <1>2, RecomputeType DEF Release
  <2> QED
    BY <1>2, <2>1 DEF Release, Wires
<1>3. CASE SocketDies
  BY <1>0, <1>3 DEF SocketDies, Wires
<1>4. CASE ClearConnectionState
  BY <1>4 DEF ClearConnectionState, Nothing, NoFrames, Desired
<1>5. CASE ReissueOnReconnect
  <2>1. \A k \in Keys : Wanted(k, subscribers) \in Desired
    BY WantedType
  <2>2. \A k \in Keys : <<>> \in Seq(Desired) /\ <<Wanted(k, subscribers)>> \in Seq(Desired)
    BY <2>1
  <2> QED
    BY <1>5, <2>1, <2>2 DEF ReissueOnReconnect
<1>6. CASE UNCHANGED vars
  BY <1>6 DEF vars
<1> QED
  BY <1>1, <1>2, <1>3, <1>4, <1>5, <1>6 DEF Next

LEMMA NextInSync == TypeOK /\ InSync /\ [Next]_vars => InSync'
<1> SUFFICES ASSUME TypeOK, TypeOK', InSync, [Next]_vars, options' = options,
                    options.onChange, transport' = "up"
             PROVE  \A j \in Keys : Agreed(wire', j, subscribers')
  <2>1. [Next]_vars => options' = options
    BY DEF Next, Acquire, Release, SocketDies, ClearConnectionState, ReissueOnReconnect, vars
  <2> QED
    BY <2>1, NextTypeOK DEF InSync, Agreed, TypeOK
<1> DEFINE Entries == [handle : Handles, key : Keys, intent : Intents]
<1>0. /\ Quiet \in Wires /\ subscribers \subseteq Entries /\ subscribers' \subseteq Entries
      /\ transport = "up" => \A j \in Keys : Agreed(Quiet, j, subscribers)
  BY QuietType DEF Wires, InSync, Agreed, TypeOK
<1>1. ASSUME NEW h \in Handles, NEW k \in Keys, NEW v \in Intents, Acquire(h, k, v), NEW j \in Keys
      PROVE  Agreed(wire', j, subscribers')
  <2> DEFINE s == [handle |-> h, key |-> k, intent |-> v]
  <2> HIDE DEF s
  <2>1. /\ transport = "up" /\ s \in Entries /\ s.key = k
        /\ subscribers' = subscribers \cup {s} /\ wire' = Recompute(Quiet, k, subscribers')
    BY <1>1 DEF Acquire, s
  <2>2. Quiet.told[k] = Quiet.cache[k]
    BY <1>0, <2>1 DEF Agreed
  <2>3. CASE j = k
    BY <1>0, <2>1, <2>2, <2>3, RecomputeAgrees
  <2>4. CASE j # k
    <3>0. j \in Keys \ {k}
      BY <2>4
    <3>1. wire'.told[j] = Quiet.told[j] /\ wire'.cache[j] = Quiet.cache[j]
      BY <1>0, <2>1, <2>2, <3>0, RecomputeAgrees
    <3>2. Wanted(j, subscribers \cup {s}) = Wanted(j, subscribers)
      BY <2>1, <2>4, OtherKeys
    <3> QED
      BY <1>0, <2>1, <3>1, <3>2 DEF Agreed
  <2> QED
    BY <2>3, <2>4
<1>2. ASSUME NEW s \in subscribers, Release(s), NEW j \in Keys
      PROVE  Agreed(wire', j, subscribers')
  <2>1. /\ transport = "up" /\ s \in Entries /\ s.key \in Keys
        /\ subscribers' = subscribers \ {s} /\ wire' = Recompute(Quiet, s.key, subscribers')
    BY <1>0, <1>2 DEF Release
  <2>2. Quiet.told[s.key] = Quiet.cache[s.key]
    BY <1>0, <2>1 DEF Agreed
  <2>3. CASE j = s.key
    BY <1>0, <2>1, <2>2, <2>3, RecomputeAgrees
  <2>4. CASE j # s.key
    <3>0. j \in Keys \ {s.key}
      BY <2>4
    <3>1. wire'.told[j] = Quiet.told[j] /\ wire'.cache[j] = Quiet.cache[j]
      BY <1>0, <2>1, <2>2, <3>0, RecomputeAgrees
    <3>2. Wanted(j, subscribers \ {s}) = Wanted(j, subscribers)
      BY <2>1, <2>4, OtherKeys
    <3> QED
      BY <1>0, <2>1, <3>1, <3>2 DEF Agreed
  <2> QED
    BY <2>3, <2>4
<1>3. CASE SocketDies
  BY <1>3 DEF SocketDies
<1>4. CASE ClearConnectionState
  BY <1>4 DEF ClearConnectionState
<1>5. CASE ReissueOnReconnect
  BY <1>5 DEF ReissueOnReconnect, Agreed
<1>6. CASE UNCHANGED vars
  BY <1>6 DEF vars, InSync, Agreed
<1> QED
  BY <1>1, <1>2, <1>3, <1>4, <1>5, <1>6 DEF Next

\* The ledger holds one typed entry per handle, the cache only desired states.
THEOREM LedgerTypes == Spec => []TypeOK
  BY InitTypeOK, NextTypeOK, PTL DEF Spec

\* Whatever the reducer, the keys and the number of subscribers: while a connection is up
\* the device has been told what its live subscribers want.
THEOREM DeviceFollowsLedger == Spec => []InSync
<1>1. Init => InSync
  BY DEF Init, InSync
<1> QED
  BY <1>1, InitTypeOK, NextTypeOK, NextInSync, PTL DEF Spec

-----------------------------------------------------------------------------
(* What goes out. *)

\* recompute() sends one frame at most, and only one that tells the device something new.
LEMMA RecomputeSends ==
  ASSUME NEW w \in Wires, NEW k \in Keys,
         NEW subs \in SUBSET [handle : Handles, key : Keys, intent : Intents],
         w.frames = NoFrames
  PROVE  LET r == Recompute(w, k, subs) IN
         /\ ~options.onChange => r.frames = NoFrames
         /\ options.onChange /\ transport = "up" /\ w.told[k] = w.cache[k] =>
              \A j \in Keys : r.frames[j] # <<>> => Len(r.frames[j]) = 1 /\ r.told[j] # w.told[j]
<1> DEFINE d == Wanted(k, subs)
           r == Recompute(w, k, subs)
           cached == [w EXCEPT !.cache[k] = d]
<1>1. d \in Desired
  BY WantedType
<1> HIDE DEF d
<1>2. /\ cached \in Wires /\ cached.frames = NoFrames /\ cached.told = w.told
  BY <1>1 DEF Wires
<1>3. \A j \in Keys : NoFrames[j] = <<>>
  BY DEF NoFrames
<1>4. CASE w.cache[k] = d \/ (d = Empty /\ options.retainOnEmpty)
  <2>1. r = w
    BY <1>4 DEF Recompute, d
  <2> QED
    BY <1>3, <2>1
<1>5. CASE ~(w.cache[k] = d \/ (d = Empty /\ options.retainOnEmpty))
  <2>1. r = IF options.onChange THEN Send(cached, k, d) ELSE cached
    BY <1>5 DEF Recompute, Change, d
  <2> HIDE DEF cached, r
  <2>2. CASE ~options.onChange
    BY <1>2, <2>1, <2>2 DEF r
  <2>3. ASSUME options.onChange, transport = "up", w.told[k] = w.cache[k], NEW j \in Keys,
               r.frames[j] # <<>>
        PROVE  Len(r.frames[j]) = 1 /\ r.told[j] # w.told[j]
    <3>1. r = [cached EXCEPT !.told[k] = d, !.frames[k] = Append(@, d)]
      BY <2>1, <2>3 DEF Send
    <3>2. /\ r.told = [w.told EXCEPT ![k] = d]
          /\ r.frames = [NoFrames EXCEPT ![k] = Append(<<>>, d)]
      BY <1>2, <1>3, <3>1 DEF Wires
    <3>3. j = k
      BY <1>3, <2>3, <3>2 DEF NoFrames
    <3>4. r.told[k] = d /\ r.frames[k] = Append(<<>>, d)
      BY <3>2 DEF Wires, NoFrames
    <3>5. w.told[k] # d
      BY <1>5, <2>3
    <3> QED
      BY <1>1, <3>3, <3>4, <3>5
  <2> QED
    BY <2>2, <2>3 DEF r
<1> QED
  BY <1>4, <1>5

LEMMA NextFrames == TypeOK /\ InSync /\ Next => FramesCarryNews
<1> SUFFICES ASSUME TypeOK, InSync, Next PROVE FramesCarryNews
  OBVIOUS
<1> DEFINE Entries == [handle : Handles, key : Keys, intent : Intents]
<1>1. /\ Quiet \in Wires /\ Quiet.frames = NoFrames /\ Quiet.told = wire.told /\ Quiet.cache = wire.cache
      /\ subscribers \in SUBSET Entries
  <2>1. wire \in Wires
    BY DEF TypeOK, Wires
  <2>2. Quiet.frames = NoFrames
    BY <2>1 DEF Quiet, Wires
  <2> QED
    BY <2>1, <2>2, QuietType DEF TypeOK
<1>2. \A j \in Keys : NoFrames[j] = <<>>
  BY DEF NoFrames
<1>3. ASSUME NEW k \in Keys, NEW subs \in SUBSET Entries, wire' = Recompute(Quiet, k, subs),
             transport' = transport
      PROVE  FramesCarryNews
  <2>1. options.onChange /\ transport = "up" => Quiet.told[k] = Quiet.cache[k]
    BY <1>1 DEF InSync
  <2>2. /\ ~options.onChange => wire'.frames = NoFrames
        /\ options.onChange /\ transport = "up" =>
             \A j \in Keys : wire'.frames[j] # <<>> => Len(wire'.frames[j]) = 1 /\ wire'.told[j] # wire.told[j]
    BY <1>1, <1>3, <2>1, RecomputeSends
  <2>3. options.onChange \in BOOLEAN
    BY DEF TypeOK
  <2> QED
    BY <1>2, <1>3, <2>2, <2>3 DEF FramesCarryNews
<1>4. ASSUME NEW h \in Handles, NEW k \in Keys, NEW v \in Intents, Acquire(h, k, v)
      PROVE  FramesCarryNews
  <2>1. subscribers' \in SUBSET Entries
    BY <1>1, <1>4 DEF Acquire
  <2> QED
    BY <1>3, <1>4, <2>1 DEF Acquire
<1>5. ASSUME NEW s \in subscribers, Release(s) PROVE FramesCarryNews
  <2>1. subscribers' \in SUBSET Entries /\ s.key \in Keys
    BY <1>1, <1>5 DEF Release
  <2> QED
    BY <1>3, <1>5, <2>1 DEF Release
<1>6. CASE SocketDies
  BY <1>1, <1>2, <1>6 DEF SocketDies, FramesCarryNews
<1>7. CASE ClearConnectionState
  BY <1>2, <1>7 DEF ClearConnectionState, FramesCarryNews
<1>8. CASE ReissueOnReconnect
  <2>1. ASSUME NEW k \in Keys PROVE Wanted(k, subscribers) # Empty <=> \E s \in subscribers : s.key = k
    <3>1. IntentsFor(k, subscribers) # {} <=> \E s \in subscribers : s.key = k
      BY DEF IntentsFor
    <3>2. IntentsFor(k, subscribers) \in SUBSET Intents
      BY <1>1 DEF IntentsFor
    <3> QED
      BY <3>1, <3>2, LedgerAssumption DEF Wanted
  <2>2. ASSUME NEW k \in Keys
        PROVE  wire'.frames[k] # <<>> <=> Wanted(k, subscribers) # Empty
    BY <1>8 DEF ReissueOnReconnect
  <2> QED
    BY <1>8, <2>1, <2>2 DEF ReissueOnReconnect, FramesCarryNews
<1> QED
  BY <1>4, <1>5, <1>6, <1>7, <1>8 DEF Next

-----------------------------------------------------------------------------
(* The log manager. *)

Readers == Handles \ {Pin}
LogEntries == [handle : Handles, key : {Channel}, intent : Intents]

LogShape ==
  /\ subscribers \in SUBSET LogEntries
  /\ wire \in Wires
  /\ stage \in [Readers -> {"new", "called", "reading", "finished", "discarded"}]
  /\ level \in [Readers -> Desired]
  /\ pinned \in Desired

\* Every open iterator, and the pin, has its entry in the ledger.
ReadersAreSubscribed ==
  /\ \A i \in Readers : stage[i] \in {"called", "reading"} =>
       level[i] \in Intents /\ Logs!Entry(i, level[i]) \in subscribers
  /\ pinned # Empty => Logs!Entry(Pin, pinned) \in subscribers

\* What Ledger's InSync says of the one key the manager has.
LevelIsTold ==
  transport = "up" =>
    /\ wire.told = wire.cache
    /\ Logs!L!Wanted(Channel, subscribers) \in {wire.cache[Channel], Empty}

LogsInv == LogShape /\ ReadersAreSubscribed /\ LevelIsTold

\* Numbers, as the naturals are well-founded, have a least one in every set.
Less == {pair \in Nat \X Nat : pair[1] < pair[2]}

LEMMA LeastNumber ==
  ASSUME NEW T, T \subseteq Nat, T # {}
  PROVE  \E x \in T : \A y \in T : x <= y
<1>1. OpToRel(<, Nat) = Less
  BY DEF OpToRel, Less
<1>2. IsWellFoundedOn(Less, Nat)
  BY <1>1, NatLessThanWellFounded, Zenon
<1>3. PICK x \in T : \A y \in T : ~ (<<y, x>> \in Less)
  BY <1>2, WFMin
<1>4. ASSUME NEW y \in T, ~(x <= y) PROVE FALSE
  <2>1. <<y, x>> \in Nat \X Nat /\ y < x
    BY <1>4
  <2>2. <<y, x>> \in Less
    BY <2>1 DEF Less
  <2> QED
    BY <1>3, <2>2
<1> QED
  BY <1>4

\* Math.max of the live levels.
LEMMA LoudestIsGreatest ==
  ASSUME NEW S, S \subseteq Intents, S # {}
  PROVE  Logs!Loudest(S) \in S /\ \A l \in S : Logs!Loudest(S) >= l
<1>1. S \subseteq 0..6
  BY LevelsAssumption
<1>2. \E m \in S : \A l \in S : m >= l
  <2> DEFINE D == {6 - l : l \in S}
  <2>0. \A l \in S : l \in Nat /\ 6 - l \in Nat
    BY <1>1
  <2>1. D \subseteq Nat /\ D # {}
    BY <2>0
  <2>2. PICK d \in D : \A e \in D : d <= e
    BY <2>1, LeastNumber
  <2>3. PICK m \in S : d = 6 - m
    OBVIOUS
  <2>4. ASSUME NEW l \in S PROVE m >= l
    <3>1. 6 - m <= 6 - l
      BY <2>2, <2>3
    <3> QED
      BY <2>0, <3>1
  <2> QED
    BY <2>4
<1> QED
  BY <1>2 DEF Logs!Loudest, Logs!Max

LEMMA LoudestWanted ==
  ASSUME NEW subs \in SUBSET LogEntries
  PROVE  /\ Logs!L!Wanted(Channel, subs) \in Desired
         /\ \A s \in subs : /\ Logs!L!Wanted(Channel, subs) \in Intents
                            /\ Logs!L!Wanted(Channel, subs) >= s.intent
<1> DEFINE S == Logs!L!IntentsFor(Channel, subs)
<1>1. S \subseteq Intents /\ \A s \in subs : s.intent \in S
  BY DEF Logs!L!IntentsFor, LogEntries
<1>2. Logs!L!Wanted(Channel, subs) = Logs!Loudest(S)
  BY DEF Logs!L!Wanted
<1>3. S = {} => Logs!Loudest(S) = Empty
  BY DEF Logs!Loudest
<1> HIDE DEF S
<1>4. S # {} => Logs!Loudest(S) \in S /\ \A l \in S : Logs!Loudest(S) >= l
  BY <1>1, LoudestIsGreatest
<1> QED
  BY <1>1, <1>2, <1>3, <1>4 DEF Desired

\* recompute() of the manager's ledger tells the device the loudest level, if there is one.
LEMMA LevelsAgree ==
  ASSUME NEW w \in Wires, NEW subs \in SUBSET LogEntries
  PROVE  LET r == Logs!L!Recompute(w, Channel, subs)
             W == Logs!L!Wanted(Channel, subs)
         IN  /\ r \in Wires
             /\ transport = "up" /\ w.told = w.cache => r.told = r.cache /\ W \in {r.cache[Channel], Empty}
<1> DEFINE r == Logs!L!Recompute(w, Channel, subs)
           W == Logs!L!Wanted(Channel, subs)
           cached == [w EXCEPT !.cache[Channel] = W]
<1>1. W \in Desired /\ Channel \in Keys
  BY LoudestWanted, LevelsAssumption
<1>2. CASE w.cache[Channel] = W \/ W = Empty
  BY <1>2 DEF Logs!L!Recompute
<1>3. CASE ~(w.cache[Channel] = W \/ W = Empty)
  <2>1. r = Logs!L!Send(cached, Channel, W)
    BY <1>3 DEF Logs!L!Recompute, Logs!L!Change
  <2> HIDE DEF W, r
  <2>2. cached \in Wires
    BY <1>1 DEF Wires
  <2>3. CASE transport = "up"
    <3>1. r = [cached EXCEPT !.told[Channel] = W, !.frames[Channel] = Append(@, W)]
      BY <2>1, <2>3 DEF Logs!L!Send
    <3>2. Append(cached.frames[Channel], W) \in Seq(Desired)
      BY <1>1, <2>2 DEF Wires
    <3>3. r \in Wires
      BY <1>1, <2>2, <3>1, <3>2 DEF Wires
    <3>4. /\ r.told = [w.told EXCEPT ![Channel] = W]
          /\ r.cache = [w.cache EXCEPT ![Channel] = W]
      BY <1>1, <2>2, <3>1 DEF Wires
    <3>5. r.cache[Channel] = W
      BY <1>1, <3>4 DEF Wires
    <3> QED
      BY <3>3, <3>4, <3>5 DEF r, W
  <2>4. CASE transport # "up"
    BY <2>1, <2>2, <2>4 DEF Logs!L!Send, r
  <2> QED
    BY <2>3, <2>4
<1> QED
  BY <1>2, <1>3

LEMMA LogQuiet ==
  ASSUME wire \in Wires
  PROVE  Logs!L!Quiet \in Wires /\ Logs!L!Quiet.told = wire.told /\ Logs!L!Quiet.cache = wire.cache
<1>1. Logs!L!Quiet = Quiet
  BY DEF Logs!L!Quiet, Quiet, Logs!L!NoFrames, NoFrames
<1> QED
  BY <1>1, QuietType

\* One step per action of the manager and of the session.
LEMMA LogsStep == LogsInv /\ Logs!Next => LogsInv'
<1> SUFFICES ASSUME LogsInv, Logs!Next PROVE LogsInv'
  OBVIOUS
<1>1. /\ Channel \in Keys /\ Pin \in Handles /\ Readers \subseteq Handles /\ Pin \notin Readers
      /\ Empty \notin Intents /\ Intents \subseteq Desired
  BY LevelsAssumption, LedgerAssumption DEF Readers, Desired
<1>2. Logs!L!Quiet \in Wires /\ (transport = "up" => Logs!L!Quiet.told = Logs!L!Quiet.cache)
  BY LogQuiet DEF LogsInv, LogShape, LevelIsTold
<1>3. subscribers \in SUBSET LogEntries
  BY DEF LogsInv, LogShape
\* The ledger's part of a step that ends in recompute().
<1>4. ASSUME NEW w \in Wires, NEW subs \in SUBSET LogEntries, transport = "up" => w.told = w.cache,
             subscribers' = subs, wire' = Logs!L!Recompute(w, Channel, subs), transport' = transport
      PROVE  wire' \in Wires /\ LevelIsTold'
  <2>1. Logs!L!Wanted(Channel, subscribers)' = Logs!L!Wanted(Channel, subs)
    BY <1>4 DEF Logs!L!Wanted, Logs!L!IntentsFor
  <2> QED
    BY <1>4, <2>1, LevelsAgree DEF LevelIsTold
<1>5. ASSUME NEW i \in Readers, NEW l \in Intents, Logs!Subscribe(i, l)
      PROVE  LogsInv'
  <2> DEFINE e == [handle |-> i, key |-> Channel, intent |-> l]
  <2>1. /\ subscribers' = subscribers \cup {e} /\ e \in LogEntries /\ e = Logs!Entry(i, l)
        /\ wire' = Logs!L!Recompute(Logs!L!Quiet, Channel, subscribers')
        /\ stage' = [stage EXCEPT ![i] = "called"] /\ level' = [level EXCEPT ![i] = l]
        /\ pinned' = pinned /\ transport' = transport
    BY <1>1, <1>5 DEF Logs!Subscribe, Logs!L!Acquire, LogEntries, Logs!Entry
  <2>2. subscribers' \in SUBSET LogEntries
    BY <1>3, <2>1
  <2>3. wire' \in Wires /\ LevelIsTold'
    BY <1>2, <1>4, <2>1, <2>2
  <2>4. LogShape'
    BY <1>1, <2>1, <2>2, <2>3 DEF LogsInv, LogShape
  <2>5. ReadersAreSubscribed'
    <3> HIDE DEF e
    <3>1. pinned' # Empty => Logs!Entry(Pin, pinned') \in subscribers'
      BY <2>1 DEF LogsInv, ReadersAreSubscribed
    <3>2. ASSUME NEW j \in Readers, stage'[j] \in {"called", "reading"}
          PROVE  level'[j] \in Intents /\ Logs!Entry(j, level'[j]) \in subscribers'
      <4>1. CASE j = i
        BY <2>1, <4>1 DEF LogsInv, LogShape
      <4>2. CASE j # i
        BY <2>1, <3>2, <4>2 DEF LogsInv, LogShape, ReadersAreSubscribed
      <4> QED
        BY <4>1, <4>2
    <3> QED
      BY <3>1, <3>2 DEF ReadersAreSubscribed, Logs!Entry
  <2> QED
    BY <2>3, <2>4, <2>5 DEF LogsInv
<1>6. ASSUME NEW i \in Readers, Logs!StartReading(i) \/ Logs!Discard(i)
      PROVE  LogsInv'
  <2>1. /\ stage[i] = "called" /\ stage' = [stage EXCEPT ![i] = stage'[i]]
        /\ stage'[i] \in {"reading", "discarded"}
        /\ UNCHANGED <<subscribers, transport, wire, level, pinned>>
    BY <1>6 DEF Logs!StartReading, Logs!Discard, LogsInv, LogShape
  <2>2. LogShape'
    BY <2>1 DEF LogsInv, LogShape
  <2>3. ReadersAreSubscribed'
    BY <2>1 DEF LogsInv, LogShape, ReadersAreSubscribed, Logs!Entry
  <2>4. LevelIsTold'
    BY <2>1 DEF LogsInv, LevelIsTold, Logs!L!Wanted, Logs!L!IntentsFor
  <2> QED
    BY <2>2, <2>3, <2>4 DEF LogsInv
<1>7. ASSUME NEW i \in Readers, Logs!StopReading(i)
      PROVE  LogsInv'
  <2> DEFINE e == Logs!Entry(i, level[i])
  <2>1. /\ subscribers' = subscribers \ {e} /\ e.handle = i
        /\ wire' = Logs!L!Recompute(Logs!L!Quiet, Channel, subscribers')
        /\ stage' = [stage EXCEPT ![i] = "finished"] /\ level' = level
        /\ pinned' = pinned /\ transport' = transport
    BY <1>1, <1>7 DEF Logs!StopReading, Logs!L!Release, Logs!Entry
  <2> HIDE DEF e
  <2>2. subscribers' \in SUBSET LogEntries
    BY <1>3, <2>1
  <2>3. wire' \in Wires /\ LevelIsTold'
    BY <1>2, <1>4, <2>1, <2>2
  <2>4. LogShape'
    BY <2>1, <2>2, <2>3 DEF LogsInv, LogShape
  <2>5. \A h \in Handles, l \in Intents : h # i /\ Logs!Entry(h, l) \in subscribers =>
          Logs!Entry(h, l) \in subscribers'
    BY <2>1 DEF Logs!Entry
  <2>6. ReadersAreSubscribed'
    <3>1. pinned' # Empty => Logs!Entry(Pin, pinned') \in subscribers'
      BY <1>1, <2>1, <2>5 DEF LogsInv, LogShape, ReadersAreSubscribed, Desired
    <3>2. ASSUME NEW j \in Readers, stage'[j] \in {"called", "reading"}
          PROVE  level'[j] \in Intents /\ Logs!Entry(j, level'[j]) \in subscribers'
      <4>1. j # i /\ stage[j] \in {"called", "reading"}
        BY <2>1, <3>2 DEF LogsInv, LogShape
      <4> QED
        BY <1>1, <2>1, <2>5, <4>1 DEF LogsInv, ReadersAreSubscribed
    <3> QED
      BY <3>1, <3>2 DEF ReadersAreSubscribed, Logs!Entry
  <2> QED
    BY <2>3, <2>4, <2>6 DEF LogsInv
<1>8. ASSUME NEW l \in Intents, NEW dump \in BOOLEAN, Logs!RequestDeviceLevel(l, dump)
      PROVE  LogsInv'
  <2> DEFINE rest == {s \in subscribers : s.handle # Pin}
             released == IF pinned = Empty THEN Logs!L!Quiet ELSE Logs!L!Recompute(Logs!L!Quiet, Channel, rest)
             acquired == Logs!L!Recompute(released, Channel, subscribers')
  <2>1. /\ subscribers' = rest \cup {Logs!Entry(Pin, l)}
        /\ wire' = IF dump THEN Logs!L!Send(acquired, Channel, acquired.cache[Channel]) ELSE acquired
        /\ pinned' = l /\ UNCHANGED <<transport, stage, level>>
    BY <1>8 DEF Logs!RequestDeviceLevel
  <2>2. rest \in SUBSET LogEntries /\ Logs!Entry(Pin, l) \in LogEntries /\ subscribers' \in SUBSET LogEntries
    BY <1>1, <1>3, <2>1 DEF LogEntries, Logs!Entry
  <2>3. \A s \in subscribers : s.handle # Pin => s \in subscribers'
    BY <2>1
  <2>4. Logs!Entry(Pin, l) \in subscribers'
    BY <2>1
  <2> HIDE DEF rest
  <2>5. released \in Wires /\ (transport = "up" => released.told = released.cache)
    BY <1>2, <2>2, LevelsAgree
  <2> HIDE DEF released
  <2>6. /\ acquired \in Wires
        /\ transport = "up" => /\ acquired.told = acquired.cache
                               /\ Logs!L!Wanted(Channel, subscribers') \in {acquired.cache[Channel], Empty}
    BY <2>2, <2>5, LevelsAgree
  <2> HIDE DEF acquired
  <2>7. wire' \in Wires /\ (transport = "up" => wire'.told = acquired.told) /\ wire'.cache = acquired.cache
    <3>1. CASE dump /\ transport = "up"
      <4> DEFINE d == acquired.cache[Channel]
      <4>1. d \in Desired /\ Append(acquired.frames[Channel], d) \in Seq(Desired) /\ acquired.told[Channel] = d
        BY <1>1, <2>6, <3>1 DEF Wires
      <4> HIDE DEF d
      <4>2. wire' = [acquired EXCEPT !.told[Channel] = d, !.frames[Channel] = Append(@, d)]
        BY <2>1, <3>1 DEF Logs!L!Send, d
      <4> QED
        BY <1>1, <2>6, <4>1, <4>2 DEF Wires
    <3>2. CASE ~(dump /\ transport = "up")
      BY <2>1, <2>6, <3>2 DEF Logs!L!Send
    <3> QED
      BY <3>1, <3>2
  <2>8. LogShape'
    BY <1>1, <2>1, <2>2, <2>7 DEF LogsInv, LogShape
  <2>9. ReadersAreSubscribed'
    <3>1. ASSUME NEW j \in Readers, stage[j] \in {"called", "reading"}
          PROVE  level[j] \in Intents /\ Logs!Entry(j, level[j]) \in subscribers'
      BY <1>1, <2>3, <3>1 DEF LogsInv, ReadersAreSubscribed, Logs!Entry
    <3> QED
      BY <2>1, <2>4, <3>1 DEF ReadersAreSubscribed, Logs!Entry
  <2>10. LevelIsTold'
    <3>1. Logs!L!Wanted(Channel, subscribers)' = Logs!L!Wanted(Channel, subscribers')
      BY DEF Logs!L!Wanted, Logs!L!IntentsFor
    <3> QED
      BY <2>1, <2>6, <2>7, <3>1 DEF LevelIsTold
  <2> QED
    BY <2>8, <2>9, <2>10 DEF LogsInv
<1>9. CASE Logs!Connection
  <2>1. UNCHANGED <<subscribers, stage, level, pinned>>
    BY <1>9 DEF Logs!Connection, Logs!L!SocketDies, Logs!L!ClearConnectionState, Logs!L!ReissueOnReconnect
  <2>2. ReadersAreSubscribed'
    BY <2>1 DEF LogsInv, ReadersAreSubscribed, Logs!Entry
  <2>3. Logs!L!Wanted(Channel, subscribers)' = Logs!L!Wanted(Channel, subscribers)
    BY <2>1 DEF Logs!L!Wanted, Logs!L!IntentsFor
  <2>4. wire' \in Wires /\ LevelIsTold'
    <3>1. CASE Logs!L!SocketDies
      BY <1>2, <3>1 DEF Logs!L!SocketDies, LevelIsTold
    <3>2. CASE Logs!L!ClearConnectionState
      <4>1. Logs!L!Nothing \in [Keys -> Desired] /\ Logs!L!NoFrames \in [Keys -> Seq(Desired)]
        BY DEF Logs!L!Nothing, Logs!L!NoFrames, Desired
      <4> QED
        BY <3>2, <4>1 DEF Logs!L!ClearConnectionState, LevelIsTold, Wires
    <3>3. CASE Logs!L!ReissueOnReconnect
      <4> DEFINE now == [k \in Keys |-> Logs!L!Wanted(k, subscribers)]
                 frames == [k \in Keys |-> IF now[k] = Empty THEN <<>> ELSE <<now[k]>>]
      <4>1. \A k \in Keys : Logs!L!Wanted(k, subscribers) \in Desired
        <5>1. ASSUME NEW k \in Keys, k # Channel PROVE Logs!L!Wanted(k, subscribers) = Empty
          <6>1. Logs!L!IntentsFor(k, subscribers) = {}
            BY <1>3, <5>1 DEF Logs!L!IntentsFor, LogEntries
          <6> QED
            BY <6>1 DEF Logs!L!Wanted, Logs!Loudest
        <5> QED
          BY <1>3, <5>1, LoudestWanted DEF Desired
      <4>2. now \in [Keys -> Desired]
        BY <4>1
      <4>3. frames \in [Keys -> Seq(Desired)]
        BY <4>1
      <4>4. wire' = [cache |-> now, told |-> now, frames |-> frames]
        BY <3>3 DEF Logs!L!ReissueOnReconnect
      <4>5. now[Channel] = Logs!L!Wanted(Channel, subscribers)
        BY <1>1
      <4> HIDE DEF now, frames
      <4> QED
        BY <2>3, <4>2, <4>3, <4>4, <4>5 DEF LevelIsTold, Wires
    <3> QED
      BY <1>9, <3>1, <3>2, <3>3 DEF Logs!Connection
  <2> QED
    BY <2>1, <2>2, <2>4 DEF LogsInv, LogShape
<1> QED
  BY <1>5, <1>6, <1>7, <1>8, <1>9 DEF Logs!Next, Readers

-----------------------------------------------------------------------------
(* The sum. *)

MCInv ==
  /\ owner = "any" => TypeOK /\ InSync
  /\ owner = "logs" => LogsInv

LEMMA InitMCInv == MCInit => MCInv
<1> SUFFICES ASSUME MCInit PROVE MCInv
  OBVIOUS
<1>1. ASSUME owner = "any" PROVE TypeOK /\ InSync
  <2>1. Init
    BY <1>1 DEF MCInit
  <2> QED
    BY <2>1, InitTypeOK DEF Init, InSync
<1>2. ASSUME owner = "logs" PROVE LogsInv
  <2>1. Logs!Init
    BY <1>2 DEF MCInit
  <2>2. Logs!L!Nothing \in [Keys -> Desired] /\ Logs!L!NoFrames \in [Keys -> Seq(Desired)]
    BY DEF Logs!L!Nothing, Logs!L!NoFrames, Desired
  <2> QED
    BY <2>1, <2>2 DEF Logs!Init, Logs!L!Init, LogsInv, LogShape, ReadersAreSubscribed, LevelIsTold,
       Readers, Desired, Wires
<1> QED
  BY <1>1, <1>2 DEF MCInv

LEMMA NextMCInv == MCInv /\ [MCNext]_mcVars => MCInv'
<1> SUFFICES ASSUME MCInv, [MCNext]_mcVars PROVE MCInv'
  OBVIOUS
<1>1. ASSUME owner = "any", Next, owner' = owner PROVE MCInv'
  BY <1>1, NextTypeOK, NextInSync DEF MCInv
<1>2. ASSUME owner = "logs", Logs!Next, owner' = owner PROVE MCInv'
  BY <1>2, LogsStep DEF MCInv
<1>3. ASSUME UNCHANGED <<owner, vars, logVars>> PROVE MCInv'
  <2>1. TypeOK /\ InSync => (TypeOK /\ InSync)'
    BY <1>3, NextTypeOK, NextInSync
  <2>2. LogsInv => LogsInv'
    BY <1>3 DEF vars, logVars, LogsInv, LogShape, ReadersAreSubscribed, LevelIsTold, Logs!Entry,
       Logs!L!Wanted, Logs!L!IntentsFor
  <2> QED
    BY <1>3, <2>1, <2>2 DEF MCInv
<1> QED
  BY <1>1, <1>2, <1>3 DEF MCNext, mcVars

LEMMA MCInvHolds == MCSpec => []MCInv
  BY InitMCInv, NextMCInv, PTL DEF MCSpec

\* During a connection a frame goes out only to tell the device something new, one per call
\* at most; a reconnect tells it of the keys that have subscribers.  For any reducer.
THEOREM NothingIsRepeated == MCSpec => FramesAreNews
<1>1. MCInv /\ [MCNext]_mcVars => [owner = "any" => FramesCarryNews]_mcVars
  <2> SUFFICES ASSUME MCInv, MCNext, owner = "any" PROVE FramesCarryNews
    OBVIOUS
  <2>1. Next
    BY DEF MCNext
  <2> QED
    BY <2>1, NextFrames DEF MCInv
<1> QED
  BY <1>1, MCInvHolds, PTL DEF MCSpec, FramesAreNews

\* The device logs at least as verbosely as every open iterator and the pin ask for, whoever
\* else came and went, whatever was dumped, over reconnects and sends on a dead socket.
THEOREM ReadersAreServed == MCSpec => []EveryReaderIsServed
<1>1. MCInv => EveryReaderIsServed
  <2> SUFFICES ASSUME LogsInv, transport = "up",
                      NEW l \in {level[i] : i \in Logs!Waiting} \cup ({pinned} \ {Empty})
               PROVE  wire.told[Channel] # Empty /\ wire.told[Channel] >= l
    BY DEF MCInv, EveryReaderIsServed, Logs!EveryReaderIsServed
  <2>1. PICK s \in subscribers : s.intent = l
    <3>1. CASE l \in {level[i] : i \in Logs!Waiting}
      <4>1. PICK i \in Readers : stage[i] \in {"called", "reading"} /\ l = level[i]
        BY <3>1 DEF Logs!Waiting, Readers
      <4>2. Logs!Entry(i, l) \in subscribers
        BY <4>1 DEF LogsInv, ReadersAreSubscribed
      <4> QED
        BY <4>2 DEF Logs!Entry
    <3>2. CASE l = pinned /\ pinned # Empty
      BY <3>2 DEF LogsInv, ReadersAreSubscribed, Logs!Entry
    <3> QED
      BY <3>1, <3>2
  <2>2. /\ Logs!L!Wanted(Channel, subscribers) \in Intents
        /\ Logs!L!Wanted(Channel, subscribers) >= l
    BY <2>1, LoudestWanted DEF LogsInv, LogShape
  <2>3. wire.told[Channel] = Logs!L!Wanted(Channel, subscribers)
    BY <2>2, LedgerAssumption DEF LogsInv, LevelIsTold
  <2> QED
    BY <2>2, <2>3, LedgerAssumption
<1> QED
  BY <1>1, MCInvHolds, PTL
-----------------------------------------------------------------------------
(* The timing of the heartbeat, for any interval, timeout and answering time: both arguments *)
(* bound the idle time by what the timer still has to run and by the age of the ping in flight. *)

LEMMA PeriodIsPositive == Beat!Period \in Nat \ {0}
  BY HeartbeatAssumption DEF Beat!Period

LEMMA AgesGrow == \A a \in Beat!Age : Beat!Older(a) \in Beat!Age /\ Beat!Older(a) <= a + 1 /\ (a < Beat!Oldest => Beat!Older(a) = a + 1)
  BY HeartbeatAssumption, PeriodIsPositive DEF Beat!Age, Beat!Older, Beat!Oldest

LEMMA BeatTypesStart == Beat!Init => Beat!TypeOK
  BY HeartbeatAssumption, PeriodIsPositive DEF Beat!Init, Beat!TypeOK, Beat!Age, Beat!Oldest

\* A ping that is sent is a new last one in flight.
LEMMA SendTyped == ASSUME Beat!TypeOK, NEW who \in {"heartbeat", "user"}, Beat!SendPing(who)
                   PROVE  pings' \in Seq(Beat!Pings)
<1>1. [by |-> who, age |-> 0] \in Beat!Pings
  BY HeartbeatAssumption, PeriodIsPositive DEF Beat!Pings, Beat!Age, Beat!Oldest
<1> QED BY <1>1 DEF Beat!SendPing, Beat!TypeOK

\* The kind of device does not change.
LEMMA AnswersNext == [Beat!Next]_(Beat!vars) => answers' = answers
  BY DEF Beat!Next, Beat!vars, Beat!Pass, Beat!Connect, Beat!Start, Beat!Fail, Beat!Disconnect, Beat!Stall,
     Beat!Ping, Beat!Quiet, Beat!Inbound, Beat!Pong, Beat!UserPing

LEMMA BeatTypesStay == Beat!TypeOK /\ [Beat!Next]_(Beat!vars) => Beat!TypeOK'
<1> SUFFICES ASSUME Beat!TypeOK, [Beat!Next]_(Beat!vars) PROVE Beat!TypeOK' OBVIOUS
<1> USE HeartbeatAssumption, PeriodIsPositive
<1>0. 0 \in Beat!Age BY DEF Beat!Age, Beat!Oldest
<1>00. answers' \in BOOLEAN
  <2>1. answers \in BOOLEAN BY DEF Beat!TypeOK
  <2> QED BY <2>1, AnswersNext, Zenon
<1>1. CASE Beat!Pass
  <2>1. pings' \in Seq(Beat!Pings)
    <3>0. \A i \in DOMAIN pings : pings[i] \in Beat!Pings BY DEF Beat!TypeOK
    <3>1. ASSUME NEW i \in DOMAIN pings PROVE [pings[i] EXCEPT !.age = Beat!Older(@)] \in Beat!Pings
      <4> DEFINE p == pings[i]
      <4>1. p \in Beat!Pings BY <3>0
      <4> HIDE DEF p
      <4>2. Beat!Older(p.age) \in Beat!Age BY <4>1, AgesGrow DEF Beat!Pings
      <4>3. [p EXCEPT !.age = Beat!Older(p.age)] \in Beat!Pings BY <4>1, <4>2 DEF Beat!Pings
      <4> QED BY <4>3 DEF p
    <3>2. Len(pings) \in Nat /\ DOMAIN pings = 1..Len(pings) BY DEF Beat!TypeOK
    <3> QED BY <1>1, <3>1, <3>2 DEF Beat!Pass
  <2>2. timer' \in 0..Beat!Period \cup {None} BY <1>1 DEF Beat!Pass, Beat!TypeOK
  <2>3. idle' \in Beat!Age /\ marker' \in Beat!Age \cup {None} BY <1>1, AgesGrow DEF Beat!Pass, Beat!TypeOK
  <2>4. marker' # None => timer' # None BY <1>1 DEF Beat!Pass, Beat!TypeOK
  <2> QED BY <1>1, <2>1, <2>2, <2>3, <2>4 DEF Beat!Pass, Beat!TypeOK
<1>2. CASE Beat!Connect BY <1>2 DEF Beat!Connect, Beat!TypeOK
<1>3. CASE Beat!Start
  <2>1. timer' \in 0..Beat!Period /\ timer' # None BY <1>3 DEF Beat!Start, Beat!TypeOK
  <2> QED BY <1>3, <1>0, <2>1 DEF Beat!Start, Beat!TypeOK
<1>4. CASE Beat!Fail
  <2>1. link' = "none" /\ UNCHANGED <<timer, idle, marker, health, pings, verdict, rtt>>
    BY <1>4 DEF Beat!Fail
  <2>2. link' \in {"none", "opening", "up"} BY <2>1
  <2>3. pings' \in Seq(Beat!Pings) /\ (marker' # None => timer' # None) BY <2>1 DEF Beat!TypeOK
  <2> QED BY <1>00, <2>1, <2>2, <2>3 DEF Beat!TypeOK
<1>5. CASE Beat!Disconnect
  <2>1. timer' = None /\ marker' = None /\ UNCHANGED <<idle, verdict, rtt>>
    BY <1>5 DEF Beat!Disconnect, Beat!Teardown, Beat!Stop
  <2>2. /\ link' \in {"none", "opening", "up"} /\ pings' \in Seq(Beat!Pings)
        /\ health' \in {"down", "connected", "stalled"}
    <3>1. CASE link = "up" BY <1>5, <3>1 DEF Beat!Disconnect, Beat!Teardown, Beat!TypeOK
    <3>2. CASE link # "up" BY <1>5, <3>2 DEF Beat!Disconnect, Beat!Teardown, Beat!TypeOK
    <3> QED BY <3>1, <3>2
  <2> QED BY <1>00, <2>1, <2>2 DEF Beat!TypeOK
<1>6. CASE Beat!Stall
  <2>1. timer' = None /\ marker' = None /\ UNCHANGED <<idle, rtt>>
    BY <1>6 DEF Beat!Stall, Beat!Teardown, Beat!Stop
  <2>2. /\ link' \in {"none", "opening", "up"} /\ pings' \in Seq(Beat!Pings)
        /\ health' \in {"down", "connected", "stalled"}
    <3>1. CASE link = "up" BY <1>6, <3>1 DEF Beat!Stall, Beat!Teardown, Beat!TypeOK
    <3>2. CASE link # "up" BY <1>6, <3>2 DEF Beat!Stall, Beat!Teardown, Beat!TypeOK
    <3> QED BY <3>1, <3>2
  <2>3. verdict' \in [up : BOOLEAN, pinged : BOOLEAN]
    <3>1. (link = "up") \in BOOLEAN /\ Beat!Pinged \in BOOLEAN BY DEF Beat!Pinged
    <3>2. verdict' = [up |-> link = "up", pinged |-> Beat!Pinged] BY <1>6 DEF Beat!Stall
    <3> QED BY <3>1, <3>2, Zenon
  <2> QED BY <1>00, <2>1, <2>2, <2>3 DEF Beat!TypeOK
<1>7. CASE Beat!Ping BY <1>7, <1>0, SendTyped DEF Beat!Ping, Beat!TypeOK
<1>8. CASE Beat!Quiet BY <1>8 DEF Beat!Quiet, Beat!TypeOK
<1>9. CASE Beat!Inbound BY <1>9, <1>0 DEF Beat!Inbound, Beat!Stamp, Beat!TypeOK
<1>10. CASE Beat!Pong
  <2>1. pings' \in Seq(Beat!Pings) /\ Head(pings) \in Beat!Pings BY <1>10 DEF Beat!Pong, Beat!TypeOK
  <2> QED BY <1>10, <1>0, <2>1 DEF Beat!Pong, Beat!Stamp, Beat!TypeOK, Beat!Pings
<1>11. CASE Beat!UserPing BY <1>11, SendTyped DEF Beat!UserPing, Beat!TypeOK
<1>12. CASE UNCHANGED Beat!vars BY <1>12 DEF Beat!vars, Beat!TypeOK
<1> QED BY <1>1, <1>2, <1>3, <1>4, <1>5, <1>6, <1>7, <1>8, <1>9, <1>10, <1>11, <1>12 DEF Beat!Next

\* The sum runs a heartbeat, or lets one rest.
LEMMA HeartbeatIsInside == MCSpec => Beat!Spec
<1>1. MCInit => Beat!Init
  BY DEF MCInit
<1>2. [MCNext]_mcVars => [Beat!Next]_(Beat!vars)
  BY DEF MCNext, mcVars, beatVars, Beat!vars
<1> QED
  BY <1>1, <1>2, PTL DEF MCSpec, Beat!Spec

\* The variables of the heartbeat and its session keep their types.
THEOREM HeartbeatTypes == Beat!Spec => []Beat!TypeOK
  BY BeatTypesStart, BeatTypesStay, PTL DEF Beat!Spec
-----------------------------------------------------------------------------
\* What the timer still has to run and the idle time together stay below the bound.
SilenceInv == link = "up" => timer # None /\ idle + timer < StallTimeout + Beat!Period

LEMMA SilenceNext ==
  ASSUME Punctual, Beat!TypeOK, SilenceInv, [Beat!Next]_(Beat!vars)
  PROVE  SilenceInv'
<1> USE HeartbeatAssumption, PeriodIsPositive
<1>1. CASE Beat!Pass
  <2>1. idle' <= idle + 1 /\ idle' \in Nat /\ idle \in Nat
    BY <1>1, AgesGrow DEF Beat!Pass, Beat!TypeOK, Beat!Age, Beat!Oldest
  <2>2. CASE timer = None BY <1>1, <2>2 DEF Beat!Pass, SilenceInv
  <2>3. CASE timer # None
    <3>1. timer \in Nat /\ timer # 0 /\ timer' = timer - 1 BY <1>1, <2>3 DEF Beat!Pass, Beat!TypeOK
    <3> QED BY <1>1, <2>1, <3>1 DEF Beat!Pass, SilenceInv
  <2> QED BY <2>2, <2>3
<1>2. CASE Beat!Connect BY <1>2 DEF Beat!Connect, SilenceInv
<1>3. CASE Beat!Start
  <2>1. timer' \in Nat /\ timer' <= Beat!Period /\ timer' # None /\ idle' = 0
    BY <1>3 DEF Beat!Start, Beat!TypeOK
  <2>2. timer' < StallTimeout + Beat!Period BY <2>1
  <2>3. idle' + timer' = timer'
    <3>1. \A t \in Nat : 0 + t = t OBVIOUS
    <3> QED BY <2>1, <3>1
  <2> QED BY <2>1, <2>2, <2>3 DEF SilenceInv
<1>4. CASE Beat!Fail BY <1>4 DEF Beat!Fail, SilenceInv
<1>5. CASE Beat!Disconnect BY <1>5 DEF Beat!Disconnect, Beat!Teardown, SilenceInv
<1>6. CASE Beat!Stall BY <1>6 DEF Beat!Stall, Beat!Teardown, SilenceInv
<1>7. CASE Beat!Ping BY <1>7 DEF Beat!Ping, SilenceInv, Beat!TypeOK, Beat!Age, Beat!Oldest
<1>8. CASE Beat!Quiet BY <1>8 DEF Beat!Quiet, SilenceInv, Beat!TypeOK, Beat!Age, Beat!Oldest
<1>9. CASE Beat!Inbound BY <1>9 DEF Beat!Inbound, Beat!Stamp, SilenceInv, Beat!TypeOK, Beat!Age, Beat!Oldest
<1>10. CASE Beat!Pong BY <1>10 DEF Beat!Pong, Beat!Stamp, SilenceInv, Beat!TypeOK, Beat!Age, Beat!Oldest
<1>11. CASE Beat!UserPing BY <1>11 DEF Beat!UserPing, SilenceInv
<1>12. CASE UNCHANGED Beat!vars BY <1>12 DEF Beat!vars, SilenceInv
<1> QED BY <1>1, <1>2, <1>3, <1>4, <1>5, <1>6, <1>7, <1>8, <1>9, <1>10, <1>11, <1>12 DEF Beat!Next

\* If timers fire on time, tick() and disconnectInternal() end every connection that is silent
\* for one period more than the timeout, connect() over a live connection or not.
THEOREM DeadLinksAreNoticed ==
  ASSUME Punctual
  PROVE  (Beat!Spec => []SilenceIsNoticed) /\ (MCSpec => []SilenceIsNoticed)
<1>1. Beat!Init => SilenceInv BY DEF Beat!Init, SilenceInv
<1>2. Beat!TypeOK /\ SilenceInv /\ [Beat!Next]_(Beat!vars) => SilenceInv' BY SilenceNext
<1>3. Beat!TypeOK /\ SilenceInv => SilenceIsNoticed
  BY HeartbeatAssumption, PeriodIsPositive DEF SilenceInv, SilenceIsNoticed, Beat!TypeOK, Beat!Age, Beat!Oldest, Period, Beat!Period
<1> QED BY <1>1, <1>2, <1>3, HeartbeatTypes, HeartbeatIsInside, PTL DEF Beat!Spec
-----------------------------------------------------------------------------
\* The device gets the time it needs after the latest moment a ping can go out.
Patient == StallTimeout >= Interval + Beat!Period + AnswerWithin

\* While no ping is in flight, one will be before the timeout; while one is, the device has not
\* had it for long.
AliveInv ==
  /\ verdict = None
  /\ timer # None => link = "up"
  /\ \A i \in DOMAIN pings : pings[i].age <= AnswerWithin
  /\ timer # None /\ marker = None => idle + timer < Interval + Beat!Period
  /\ marker # None => /\ idle < Interval + Beat!Period + marker
                      /\ \E i \in DOMAIN pings : pings[i].age = marker

\* A ping that is sent is the youngest in flight, and the others stay.
LEMMA SendAlive ==
  ASSUME Beat!TypeOK, link = "up", NEW who \in {"heartbeat", "user"}, Beat!SendPing(who),
         \A i \in DOMAIN pings : pings[i].age <= AnswerWithin
  PROVE  /\ \A i \in DOMAIN pings' : pings'[i].age <= AnswerWithin
         /\ \E i \in DOMAIN pings' : pings'[i].age = 0
         /\ \A i \in DOMAIN pings : i \in DOMAIN pings' /\ pings'[i] = pings[i]
<1>1. pings' = Append(pings, [by |-> who, age |-> 0]) BY DEF Beat!SendPing
<1>2. pings \in Seq(Beat!Pings) /\ [by |-> who, age |-> 0] \in Beat!Pings
  BY HeartbeatAssumption, PeriodIsPositive DEF Beat!TypeOK, Beat!Pings, Beat!Age, Beat!Oldest
<1>3. /\ Len(pings) \in Nat /\ DOMAIN pings = 1..Len(pings) /\ DOMAIN pings' = 1..(Len(pings) + 1)
      /\ pings'[Len(pings) + 1] = [by |-> who, age |-> 0]
      /\ \A i \in 1..Len(pings) : pings'[i] = pings[i]
  BY <1>1, <1>2
<1> QED BY <1>3, HeartbeatAssumption

LEMMA AliveNext ==
  ASSUME answers, Punctual, ~OverLive, Patient, Beat!TypeOK, AliveInv, [Beat!Next]_(Beat!vars)
  PROVE  AliveInv'
<1> USE HeartbeatAssumption, PeriodIsPositive
<1>0. idle \in Nat /\ (timer # None => timer \in Nat /\ timer <= Beat!Period) /\ (marker # None => marker \in Nat)
  BY DEF Beat!TypeOK, Beat!Age, Beat!Oldest
<1>1. CASE Beat!Pass
  <2>1. idle' <= idle + 1 /\ idle' \in Nat BY <1>1, AgesGrow DEF Beat!Pass, Beat!TypeOK, Beat!Age, Beat!Oldest
  <2>2. \A i \in DOMAIN pings : pings[i] \in Beat!Pings BY DEF Beat!TypeOK
  <2>3. \A i \in DOMAIN pings : pings[i].age \in Nat /\ Beat!Older(pings[i].age) = pings[i].age + 1
    BY <1>1, <2>2, AgesGrow DEF Beat!Pass, Beat!Pings, Beat!Age, Beat!Oldest
  <2>4. DOMAIN pings' = DOMAIN pings /\ \A i \in DOMAIN pings : pings'[i].age = pings[i].age + 1
    BY <1>1, <2>2, <2>3 DEF Beat!Pass, Beat!Pings
  <2>5. \A i \in DOMAIN pings' : pings'[i].age <= AnswerWithin BY <1>1, <2>3, <2>4 DEF Beat!Pass
  <2>6. ASSUME marker # None
        PROVE  /\ marker' = marker + 1 /\ marker \in Nat
               /\ \E i \in DOMAIN pings' : pings'[i].age = marker'
    <3>1. PICK i \in DOMAIN pings : pings[i].age = marker BY <2>6 DEF AliveInv
    <3>2. marker' = Beat!Older(marker) BY <1>1, <2>6 DEF Beat!Pass
    <3> QED BY <2>3, <2>4, <3>1, <3>2
  <2>7. marker = None => marker' = None BY <1>1 DEF Beat!Pass
  <2>8. timer' # None => timer \in Nat /\ timer' = timer - 1 /\ timer # None BY <1>0, <1>1 DEF Beat!Pass
  <2>9. timer' # None /\ marker' = None => idle' + timer' < Interval + Beat!Period
    BY <1>0, <2>1, <2>6, <2>8 DEF AliveInv
  <2>10. marker' # None => idle' < Interval + Beat!Period + marker'
    BY <1>0, <2>1, <2>6, <2>7 DEF AliveInv
  <2> QED BY <1>1, <2>5, <2>6, <2>7, <2>8, <2>9, <2>10 DEF Beat!Pass, AliveInv
<1>2. CASE Beat!Connect BY <1>2 DEF Beat!Connect, AliveInv, Beat!TypeOK
<1>3. CASE Beat!Start BY <1>0, <1>3 DEF Beat!Start, AliveInv, Beat!TypeOK
<1>4. CASE Beat!Fail BY <1>4 DEF Beat!Fail, AliveInv
<1>5. CASE Beat!Disconnect BY <1>5 DEF Beat!Disconnect, Beat!Teardown, Beat!Stop, AliveInv
<1>6. ASSUME Beat!Stall PROVE FALSE
  <2>1. timer = 0 /\ idle >= StallTimeout /\ timer # None BY <1>6 DEF Beat!Stall
  <2>2. CASE marker = None BY <1>0, <2>1, <2>2 DEF AliveInv, Patient
  <2>3. CASE marker # None
    <3>1. marker <= AnswerWithin BY <2>3 DEF AliveInv
    <3> QED BY <1>0, <2>1, <2>3, <3>1 DEF AliveInv, Patient
  <2> QED BY <2>2, <2>3
<1>7. CASE Beat!Ping
  <2>1. timer = 0 /\ marker = None /\ marker' = 0 /\ marker' # None /\ link = "up" /\ Beat!SendPing("heartbeat")
    BY <1>7 DEF Beat!Ping, AliveInv
  <2>2. /\ \A i \in DOMAIN pings' : pings'[i].age <= AnswerWithin
        /\ \E i \in DOMAIN pings' : pings'[i].age = 0
    BY <2>1, SendAlive DEF AliveInv
  <2>3. idle' < Interval + Beat!Period + marker' BY <1>0, <1>7, <2>1 DEF Beat!Ping, AliveInv
  <2> QED BY <1>7, <2>1, <2>2, <2>3 DEF Beat!Ping, AliveInv
<1>8. CASE Beat!Quiet BY <1>0, <1>8 DEF Beat!Quiet, AliveInv
<1>9. CASE Beat!Inbound BY <1>0, <1>9 DEF Beat!Inbound, Beat!Stamp, AliveInv
<1>10. CASE Beat!Pong
  <2>1. \A i \in DOMAIN pings' : pings'[i].age <= AnswerWithin
    <3>1. /\ pings \in Seq(Beat!Pings) /\ pings # <<>> /\ pings' = Tail(pings) /\ Len(pings) \in Nat
          /\ DOMAIN pings = 1..Len(pings) /\ DOMAIN pings' = 1..(Len(pings) - 1)
          /\ \A i \in 1..(Len(pings) - 1) : pings'[i] = pings[i + 1]
      BY <1>10 DEF Beat!Pong, Beat!TypeOK
    <3> QED BY <3>1 DEF AliveInv
  <2>2. verdict' = None /\ marker' = None /\ idle' = 0 /\ timer' = timer /\ link' = link
    BY <1>10 DEF Beat!Pong, Beat!Stamp, AliveInv
  <2> QED BY <1>0, <2>1, <2>2 DEF AliveInv
<1>11. CASE Beat!UserPing
  <2>1. link = "up" /\ Beat!SendPing("user") BY <1>11 DEF Beat!UserPing
  <2>2. /\ \A i \in DOMAIN pings' : pings'[i].age <= AnswerWithin
        /\ \A i \in DOMAIN pings : i \in DOMAIN pings' /\ pings'[i] = pings[i]
    BY <2>1, SendAlive DEF AliveInv
  <2> QED BY <1>11, <2>2 DEF Beat!UserPing, AliveInv
<1>12. CASE UNCHANGED Beat!vars BY <1>12 DEF Beat!vars, AliveInv
<1> QED BY <1>1, <1>2, <1>3, <1>4, <1>5, <1>6, <1>7, <1>8, <1>9, <1>10, <1>11, <1>12 DEF Beat!Next

\* If timers fire on time, the device answers in time, the timeout leaves it that time and no
\* connect() is called over a live connection, then tick() never declares a stall.
THEOREM LiveLinksAreKept ==
  ASSUME Punctual, ~OverLive, Patient
  PROVE  (Beat!Spec => []NoFalseStall) /\ (MCSpec => []NoFalseStall)
<1> DEFINE IInv == answers => AliveInv
<1>1. Beat!Init => IInv BY DEF Beat!Init, AliveInv
<1>2. Beat!TypeOK /\ IInv /\ [Beat!Next]_(Beat!vars) => IInv' BY AliveNext, AnswersNext
<1>3. IInv => NoFalseStall BY DEF AliveInv, NoFalseStall
<1> HIDE DEF IInv
<1> QED BY <1>1, <1>2, <1>3, HeartbeatTypes, HeartbeatIsInside, PTL DEF Beat!Spec
-----------------------------------------------------------------------------
(* The types of the sum. *)

\* What LogsInv leaves out of the types.
EntriesAreTyped ==
  /\ options = [retainOnEmpty |-> TRUE, onChange |-> TRUE]
  /\ transport \in {"none", "up", "broken"}
  /\ \A r, s \in subscribers : r.handle = s.handle => r = s

MCTypes ==
  /\ MCInv /\ Beat!TypeOK
  /\ owner = "logs" => EntriesAreTyped
  /\ owner = "heartbeat" => TypeOK
  /\ owner \in {"any", "logs", "heartbeat"}

LEMMA InitMCTypes == MCInit => MCTypes
<1> SUFFICES ASSUME MCInit PROVE MCTypes
  OBVIOUS
<1>1. MCInv /\ Beat!TypeOK
  BY InitMCInv, BeatTypesStart DEF MCInit
<1>2. owner = "logs" => EntriesAreTyped
  BY DEF MCInit, Logs!Init, Logs!L!Init, EntriesAreTyped
<1>3. owner = "heartbeat" => TypeOK
  BY InitTypeOK DEF MCInit
<1> QED
  BY <1>1, <1>2, <1>3 DEF MCInit, MCTypes

LEMMA EntriesStep == EntriesAreTyped /\ Logs!Next /\ options' = options => EntriesAreTyped'
<1> SUFFICES ASSUME EntriesAreTyped, Logs!Next, options' = options PROVE EntriesAreTyped'
  OBVIOUS
<1>1. ASSUME NEW i \in Readers, NEW l \in Intents, Logs!Subscribe(i, l) PROVE EntriesAreTyped'
  BY <1>1 DEF Logs!Subscribe, Logs!L!Acquire, EntriesAreTyped
<1>2. ASSUME NEW i \in Readers, Logs!StartReading(i) \/ Logs!Discard(i) PROVE EntriesAreTyped'
  BY <1>2 DEF Logs!StartReading, Logs!Discard, EntriesAreTyped
<1>3. ASSUME NEW i \in Readers, Logs!StopReading(i) PROVE EntriesAreTyped'
  BY <1>3 DEF Logs!StopReading, Logs!L!Release, EntriesAreTyped
<1>4. ASSUME NEW l \in Intents, NEW dump \in BOOLEAN, Logs!RequestDeviceLevel(l, dump)
      PROVE  EntriesAreTyped'
  <2>1. /\ subscribers' = {s \in subscribers : s.handle # Pin} \cup {Logs!Entry(Pin, l)}
        /\ transport' = transport
    BY <1>4 DEF Logs!RequestDeviceLevel
  <2>2. Logs!Entry(Pin, l).handle = Pin
    BY DEF Logs!Entry
  <2> QED
    BY <2>1, <2>2 DEF EntriesAreTyped
<1>5. CASE Logs!Connection
  BY <1>5 DEF Logs!Connection, Logs!L!SocketDies, Logs!L!ClearConnectionState,
     Logs!L!ReissueOnReconnect, EntriesAreTyped
<1> QED
  BY <1>1, <1>2, <1>3, <1>4, <1>5 DEF Logs!Next, Readers

LEMMA NextMCTypes == MCTypes /\ [MCNext]_mcVars => MCTypes'
<1> SUFFICES ASSUME MCTypes, [MCNext]_mcVars PROVE MCTypes'
  OBVIOUS
<1>1. MCInv' /\ owner' = owner
  BY NextMCInv DEF MCTypes, MCNext, mcVars
<1>2. Beat!TypeOK'
  <2>1. CASE Beat!Next
    BY <2>1, BeatTypesStay DEF MCTypes
  <2>2. CASE UNCHANGED beatVars
    BY <2>2 DEF beatVars, MCTypes, Beat!TypeOK
  <2> QED
    BY <2>1, <2>2 DEF MCNext, mcVars
<1>3. ASSUME owner = "logs" PROVE EntriesAreTyped'
  <2>1. CASE Logs!Next /\ options' = options
    BY <1>3, <2>1, EntriesStep DEF MCTypes
  <2>2. CASE UNCHANGED vars
    BY <1>3, <2>2 DEF vars, EntriesAreTyped, MCTypes
  <2> QED
    BY <1>3, <2>1, <2>2 DEF MCNext, mcVars
<1>4. ASSUME owner = "heartbeat" PROVE TypeOK'
  <2>1. UNCHANGED vars
    BY <1>4 DEF MCNext, mcVars
  <2> QED
    BY <1>4, <2>1, NextTypeOK DEF MCTypes
<1> QED
  BY <1>1, <1>2, <1>3, <1>4 DEF MCTypes

\* The ledger holds one typed entry per handle whoever uses it, the cache only what someone
\* may want; the log manager's iterators and its pin, and the heartbeat's clocks, keep their
\* types, and a stopped heartbeat has no ping in flight.
THEOREM TypesAreCorrect == MCSpec => []MCTypeOK
<1>1. MCTypes => MCTypeOK
  <2> SUFFICES ASSUME MCTypes PROVE MCTypeOK
    OBVIOUS
  <2>1. CASE owner = "logs"
    <3>1. LogsInv /\ EntriesAreTyped
      BY <2>1 DEF MCTypes, MCInv
    <3>2. subscribers \subseteq [handle : Handles, key : Keys, intent : Intents]
      BY <3>1, LevelsAssumption DEF LogsInv, LogShape, LogEntries
    <3>3. TypeOK
      BY <3>1, <3>2 DEF EntriesAreTyped, LogsInv, LogShape, Wires, TypeOK
    <3>4. (Handles \ {Pin}) \cup {Pin} = Handles
      BY LevelsAssumption
    <3>5. Logs!L!TypeOK
      BY <3>1, <3>3, <3>4 DEF TypeOK, EntriesAreTyped, Logs!L!TypeOK, Logs!L!Desired, Desired
    <3> QED
      BY <2>1, <3>1, <3>3, <3>5 DEF MCTypes, MCTypeOK, Logs!TypeOK, LogsInv, LogShape, Readers,
         Desired
  <2>2. CASE owner # "logs"
    BY <2>2 DEF MCTypes, MCInv, MCTypeOK
  <2> QED
    BY <2>1, <2>2
<1> QED
  BY <1>1, InitMCTypes, NextMCTypes, PTL DEF MCSpec
=============================================================================
