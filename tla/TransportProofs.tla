--------------------------- MODULE TransportProofs ---------------------------
(***************************************************************************)
(* Proofs about Transport, for any pieces, limits, devices and number of   *)
(* messages.                                                               *)
(*                                                                         *)
(* What is buffered and what is on the line are read as one sequence of    *)
(* units, Joined, of which the first unit is always a frame's first: so    *)
(* the frames to come are FrameOf(t, line, 1..Coming(t, line)), wherever   *)
(* the pieces are cut.  The invariant has a half about control, what the   *)
(* phase, the handshake's code and the two slots may be at the same time,  *)
(* and a half about data, how many frames of which kind are to come and    *)
(* the numbers of the messages among them.  How many frames drain() takes  *)
(* is the least number at which it stops, which exists because the         *)
(* naturals are well-founded (LeastNumber, PrefixExists); for that number, *)
(* parsing keeps the data's half whatever the buffer holds (DrainKeeps).   *)
(***************************************************************************)
EXTENDS Transport, SequenceTheorems, WellFoundedInduction, TLAPS

-----------------------------------------------------------------------------
(* Numbers and sequences. *)

Less == {pair \in Nat \X Nat : pair[1] < pair[2]}

LEMMA LeastNumber ==
  ASSUME NEW T, T \subseteq Nat, T # {}
  PROVE  \E x \in T : \A y \in T : x <= y
<1>1. OpToRel(<, Nat) = Less
  BY DEF OpToRel, Less
<1>2. IsWellFoundedOn(Less, Nat)
  BY <1>1, NatLessThanWellFounded, Zenon
<1>3. PICK x \in T : \A y \in T : ~ (<<y, x>> \in Less)
  BY <1>2, WFMin
<1>4. ASSUME NEW y \in T, ~(x <= y) PROVE FALSE
  <2>1. <<y, x>> \in Nat \X Nat /\ y < x
    BY <1>4
  <2>2. <<y, x>> \in Less
    BY <2>1 DEF Less
  <2> QED
    BY <1>3, <2>2
<1> QED
  BY <1>4

LEMMA HeadAndTail ==
  ASSUME NEW S, NEW q \in Seq(S), q # <<>>
  PROVE  /\ Head(q) \in S /\ Tail(q) \in Seq(S) /\ Head(q) = q[1]
         /\ <<Head(q)>> \o Tail(q) = q
<1>1. /\ Head(q) \in S /\ Tail(q) \in Seq(S) /\ Head(q) = q[1] /\ Len(q) \in Nat \ {0}
      /\ Len(Tail(q)) = Len(q) - 1 /\ \A i \in 1..Len(q) - 1 : Tail(q)[i] = q[i + 1]
  BY HeadTailProperties
<1>2. <<Head(q)>> \in Seq(S) /\ Len(<<Head(q)>>) = 1 /\ <<Head(q)>>[1] = q[1]
  BY <1>1
<1> DEFINE joined == <<Head(q)>> \o Tail(q)
<1>3. /\ joined \in Seq(S) /\ Len(joined) = Len(q)
      /\ \A i \in 1..Len(q) : joined[i] = IF i <= 1 THEN <<Head(q)>>[i] ELSE Tail(q)[i - 1]
  <2>1. /\ joined \in Seq(S) /\ Len(joined) = 1 + Len(Tail(q))
        /\ \A i \in 1..1 + Len(Tail(q)) : joined[i] = IF i <= 1 THEN <<Head(q)>>[i] ELSE Tail(q)[i - 1]
    BY ONLY <1>1, <1>2, ConcatProperties
  <2> QED
    BY <1>1, <2>1
<1> HIDE DEF joined
<1>4. ASSUME NEW i \in 1..Len(q) PROVE joined[i] = q[i]
  <2>1. CASE i = 1
    BY <1>1, <1>2, <1>3, <2>1
  <2>2. CASE i # 1
    <3>1. i - 1 \in 1..Len(q) - 1 /\ (i - 1) + 1 = i /\ ~(i <= 1)
      BY <1>1, <2>2
    <3> QED
      BY <1>1, <1>3, <3>1
  <2> QED
    BY <2>1, <2>2
<1>5. joined = q
  BY ONLY <1>3, <1>4, SeqEqual, q \in Seq(S)
<1> QED
  BY <1>1, <1>5 DEF joined

-----------------------------------------------------------------------------
(* The transport's functions. *)

\* Of a slot: is its code waiting, and the frames it has not resumed with, in order.
Busy(c, s) == s \in c.parked \/ c.given[s] # None
Held(c, s) == IF c.given[s] # None /\ c.given[s].how = "value" THEN <<c.given[s].frame>> ELSE <<>>
Unread(c, s) == Held(c, s) \o c.queue[s]

\* Who is parked has been given nothing, and has nothing in its queue.
Sound(c) ==
  /\ c \in Transports
  /\ \A s \in c.parked : c.given[s] = None /\ c.queue[s] = <<>>
  /\ c.terminated # None => c.parked = {}

\* Concatenation associates; of units.
LEMMA UnitsRegroup == \A x, y, z \in Seq(Units) : x \o (y \o z) = (x \o y) \o z
BY ConcatAssociative, Z3

LEMMA FieldsOf ==
  ASSUME NEW c \in Transports
  PROVE  /\ c.phase \in {"plaintext", "noise-handshake", "noise-data"}
         /\ c.recvBuffer \in Seq(Units) /\ c.parked \subseteq Slots
         /\ c.terminated \in Causes \cup {None} /\ c.rx \in 0..MaxMessages
         /\ c.queue \in [Slots -> Seq(Frames)] /\ c.given \in [Slots -> Outcomes \cup {None}]
         /\ \A s \in Slots : c.queue[s] \in Seq(Frames) /\ c.given[s] \in Outcomes \cup {None}
BY DEF Transports

LEMMA HeldIsShort ==
  ASSUME NEW c \in Transports, NEW s \in Slots
  PROVE  /\ Held(c, s) \in Seq(Frames) /\ Len(Held(c, s)) \in {0, 1}
         /\ Unread(c, s) \in Seq(Frames) /\ Len(Unread(c, s)) = Len(Held(c, s)) + Len(c.queue[s])
<1>1. c.given[s] \in Outcomes \cup {None} /\ c.queue[s] \in Seq(Frames)
  BY FieldsOf
<1>2. ASSUME c.given[s] # None, c.given[s].how = "value"
      PROVE  c.given[s].frame \in Frames
  BY <1>1, <1>2 DEF Outcomes, Done
<1>3. Held(c, s) \in Seq(Frames) /\ Len(Held(c, s)) \in {0, 1}
  BY <1>2 DEF Held
<1> QED
  BY <1>1, <1>3, ConcatProperties DEF Unread

\* fail() and dispose() tell whoever waits, and lose no frame.
LEMMA FailedIsSound ==
  ASSUME NEW c, Sound(c), NEW cause \in Causes
  PROVE  LET d == Failed(c, cause) IN
         /\ Sound(d) /\ d.phase = c.phase /\ d.recvBuffer = c.recvBuffer /\ d.rx = c.rx
         /\ d.queue = c.queue
         /\ d.terminated = IF c.terminated # None THEN c.terminated ELSE cause
         /\ \A s \in Slots : Busy(d, s) = Busy(c, s) /\ Held(d, s) = Held(c, s) /\ Unread(d, s) = Unread(c, s)
<1>1. CASE c.terminated # None
  BY <1>1 DEF Failed
<1>2. CASE c.terminated = None
  <2> DEFINE d == Failed(c, cause)
  <2>0. c \in Transports
    BY DEF Sound
  <2>1. \A s \in Slots : Ending(s, cause) \in Outcomes /\ Ending(s, cause).how # "value"
    BY DEF Ending, Outcomes, Done, Error
  <2>2. /\ d.phase = c.phase /\ d.recvBuffer = c.recvBuffer /\ d.rx = c.rx /\ d.queue = c.queue
        /\ d.terminated = cause /\ d.parked = {}
        /\ d.given = [s \in Slots |-> IF s \in c.parked THEN Ending(s, cause) ELSE c.given[s]]
    BY <1>2, <2>0 DEF Failed, Transports
  <2>3. d \in Transports
    BY <1>2, <2>0, <2>1 DEF Failed, Transports
  <2>4. \A s \in Slots : Busy(d, s) = Busy(c, s)
    <3>1. SUFFICES ASSUME NEW s \in Slots PROVE Busy(d, s) = Busy(c, s)
      OBVIOUS
    <3>2. Ending(s, cause) # None
      BY <2>1, NoneAssumption
    <3> HIDE DEF d
    <3>3. CASE s \in c.parked
      <4>1. d.given[s] = Ending(s, cause)
        BY <2>2, <3>3
      <4> QED
        BY <3>2, <3>3, <4>1 DEF Busy
    <3>4. CASE s \notin c.parked
      BY <2>2, <3>4 DEF Busy
    <3> QED
      BY <3>3, <3>4
  <2>5. ASSUME NEW s \in Slots PROVE Held(d, s) = Held(c, s)
    <3> HIDE DEF d
    <3>1. CASE s \in c.parked
      <4>1. c.given[s] = None
        BY <3>1 DEF Sound
      <4> QED
        BY <2>1, <2>2, <3>1, <4>1 DEF Held
    <3>2. CASE s \notin c.parked
      BY <2>2, <3>2 DEF Held
    <3> QED
      BY <3>1, <3>2
  <2> QED
    BY <1>2, <2>2, <2>3, <2>4, <2>5 DEF Sound, Unread
<1> QED
  BY <1>1, <1>2

\* deliverMessage() adds to what a slot's code has not resumed with.
LEMMA DeliveredIsSound ==
  ASSUME NEW c, Sound(c), NEW s \in Slots, NEW frames \in Seq(Frames)
  PROVE  LET d == Delivered(c, s, frames) IN
         /\ Sound(d) /\ d.phase = c.phase /\ d.recvBuffer = c.recvBuffer /\ d.rx = c.rx
         /\ d.terminated = c.terminated
         /\ Unread(d, s) = Unread(c, s) \o frames
         /\ \A r \in Slots : Busy(d, r) = Busy(c, r) /\ (r # s => Unread(d, r) = Unread(c, r))
<1> DEFINE d == Delivered(c, s, frames)
<1>0. c \in Transports
  BY DEF Sound
<1>1. CASE frames # <<>> /\ s \in c.parked
  <2>1. /\ Head(frames) \in Frames /\ Head(frames) = frames[1]
        /\ Tail(frames) \in Seq(Frames) /\ <<Head(frames)>> \o Tail(frames) = frames
    BY <1>1, HeadAndTail
  <2>2. c.given[s] = None /\ c.queue[s] = <<>>
    BY <1>1 DEF Sound
  <2>3. Value(frames[1]) \in Outcomes
    BY <2>1 DEF Value, Outcomes
  <2>4. <<>> \o Tail(frames) = Tail(frames) /\ <<>> \o <<>> = <<>> /\ <<>> \o frames = frames
    BY ONLY <2>1, ConcatEmptySeq, frames \in Seq(Frames)
  <2>5. /\ d.phase = c.phase /\ d.recvBuffer = c.recvBuffer /\ d.rx = c.rx
        /\ d.terminated = c.terminated /\ d.parked = c.parked \ {s}
        /\ d.given = [c.given EXCEPT ![s] = Value(frames[1])]
        /\ d.queue = [c.queue EXCEPT ![s] = Tail(frames)]
        /\ d \in Transports
    BY <1>0, <1>1, <2>1, <2>2, <2>3, <2>4 DEF Delivered, Settle, Transports
  <2> HIDE DEF d
  <2>6. d.given[s] = Value(frames[1]) /\ d.queue[s] = Tail(frames)
    BY <1>0, <2>5, FieldsOf
  <2>7. ASSUME NEW r \in Slots, r # s PROVE d.given[r] = c.given[r] /\ d.queue[r] = c.queue[r]
    BY <1>0, <2>5, <2>7, FieldsOf
  <2>8. Value(frames[1]) # None /\ Value(frames[1]).how = "value" /\ Value(frames[1]).frame = frames[1]
    BY <2>3, NoneAssumption DEF Value
  <2>9. Unread(d, s) = frames /\ Unread(c, s) = <<>>
    BY <2>1, <2>2, <2>4, <2>6, <2>8 DEF Unread, Held
  <2>10. Unread(d, s) = Unread(c, s) \o frames
    BY <2>4, <2>9
  <2>11. \A r \in Slots : Busy(d, r) = Busy(c, r) /\ (r # s => Unread(d, r) = Unread(c, r))
    BY <1>1, <2>5, <2>6, <2>7, <2>8 DEF Busy, Unread, Held
  <2>12. Sound(d)
    BY <1>0, <2>5, <2>7, FieldsOf DEF Sound
  <2> QED
    BY <2>5, <2>10, <2>11, <2>12 DEF d
<1>2. CASE ~(frames # <<>> /\ s \in c.parked)
  <2>1. c.queue[s] \in Seq(Frames) /\ c.queue[s] \o frames \in Seq(Frames) /\ Held(c, s) \in Seq(Frames)
    BY <1>0, FieldsOf, HeldIsShort, ConcatProperties
  <2>2. /\ d.phase = c.phase /\ d.recvBuffer = c.recvBuffer /\ d.rx = c.rx
        /\ d.terminated = c.terminated /\ d.parked = c.parked /\ d.given = c.given
        /\ d.queue = [c.queue EXCEPT ![s] = c.queue[s] \o frames]
        /\ d \in Transports
    BY <1>0, <1>2, <2>1 DEF Delivered, Transports
  <2> HIDE DEF d
  <2>3. d.queue[s] = c.queue[s] \o frames /\ \A r \in Slots : r # s => d.queue[r] = c.queue[r]
    BY <1>0, <2>2, FieldsOf
  <2>4. Held(c, s) \o (c.queue[s] \o frames) = Unread(c, s) \o frames
    <3> DEFINE held == Held(c, s)
               queue == c.queue[s]
    <3>1. held \in Seq(Frames) /\ queue \in Seq(Frames) /\ Unread(c, s) = held \o queue
      BY <2>1 DEF Unread
    <3> HIDE DEF held, queue
    <3>2. held \o (queue \o frames) = (held \o queue) \o frames
      BY ONLY <3>1, ConcatAssociative, frames \in Seq(Frames)
    <3> QED
      BY <3>1, <3>2 DEF held, queue
  <2>5. Unread(d, s) = Unread(c, s) \o frames
    BY <2>2, <2>3, <2>4 DEF Unread, Held
  <2>6. \A r \in Slots : Busy(d, r) = Busy(c, r) /\ (r # s => Unread(d, r) = Unread(c, r))
    BY <2>2, <2>3 DEF Busy, Unread, Held
  <2>7. s \in c.parked => d.queue[s] = c.queue[s]
    <3>1. c.queue[s] \o <<>> = c.queue[s]
      BY ONLY <2>1, ConcatEmptySeq
    <3> QED
      BY <1>2, <2>3, <3>1
  <2>8. Sound(d)
    BY <1>0, <2>2, <2>3, <2>7, FieldsOf DEF Sound
  <2> QED
    BY <2>2, <2>5, <2>6, <2>8 DEF d
<1> QED
  BY <1>1, <1>2

\* What drainInbound() makes of a transport: it takes the first k frames, refuses the next or
\* is left with less than a frame.
SlotOf(c) == IF c.phase = "noise-handshake" THEN "handshake" ELSE "message"
Parsed(c, k) == [i \in 1..k |-> FrameAt(c, i)]

Drains(c, d, k) ==
  /\ k \in 0..Complete(c) /\ \A i \in 1..k : Objection(c, i) = None
  /\ Sound(d) /\ d.phase = c.phase
  /\ d.recvBuffer = SubSeq(c.recvBuffer, 2 * k + 1, Len(c.recvBuffer))
  /\ d.rx = IF c.phase = "noise-data" THEN c.rx + k ELSE c.rx
  /\ Unread(d, SlotOf(c)) = Unread(c, SlotOf(c)) \o Parsed(c, k)
  /\ \A s \in Slots : Busy(d, s) = Busy(c, s) /\ (s # SlotOf(c) => Unread(d, s) = Unread(c, s))
  /\ \/ d.terminated = None /\ k = Complete(c)
     \/ d.terminated = Objection(c, k + 1) /\ d.terminated # None /\ k < Headers(c)

\* A buffer holds its frames: the headers, of which the complete ones have a body.
LEMMA Halves ==
  ASSUME NEW c \in Transports
  PROVE  /\ Len(c.recvBuffer) \in Nat /\ Complete(c) \in Nat /\ Headers(c) \in Nat
         /\ Complete(c) <= Headers(c)
         /\ 2 * Complete(c) <= Len(c.recvBuffer) /\ Len(c.recvBuffer) <= 2 * Complete(c) + 1
         /\ 2 * Headers(c) - 1 <= Len(c.recvBuffer)
         /\ \A i \in 1..Headers(c) : FrameAt(c, i) \in Frames
<1>1. c.recvBuffer \in Seq(Units) /\ Len(c.recvBuffer) \in Nat
  BY FieldsOf
<1>2. \A n \in Nat : /\ n \div 2 \in Nat /\ 2 * (n \div 2) <= n /\ n <= 2 * (n \div 2) + 1
                     /\ n \div 2 <= (n + 1) \div 2 /\ (n + 1) \div 2 \in Nat
                     /\ 2 * ((n + 1) \div 2) - 1 <= n
  OBVIOUS
<1>3. /\ Complete(c) \in Nat /\ Headers(c) \in Nat /\ Complete(c) <= Headers(c)
      /\ 2 * Complete(c) <= Len(c.recvBuffer) /\ Len(c.recvBuffer) <= 2 * Complete(c) + 1
      /\ 2 * Headers(c) - 1 <= Len(c.recvBuffer)
  BY <1>1, <1>2 DEF Complete, Headers
<1>4. ASSUME NEW i \in 1..Headers(c) PROVE FrameAt(c, i) \in Frames
  <2>1. 2 * i - 1 \in 1..Len(c.recvBuffer)
    BY <1>1, <1>3
  <2>2. c.recvBuffer[2 * i - 1] \in Units
    BY <1>1, <2>1
  <2> QED
    BY <2>2 DEF FrameAt, Units
<1> QED
  BY <1>1, <1>3, <1>4

LEMMA ObjectionIsACause ==
  ASSUME NEW c, NEW i PROVE Objection(c, i) \in Causes \cup {None}
BY DEF Objection, Causes, NoNoise, Faults

\* The frames before the first one refused.
LEMMA PrefixExists ==
  ASSUME NEW c \in Transports
  PROVE  \E j \in 0..Complete(c) : /\ \A i \in 1..j : Objection(c, i) = None
                                   /\ j = Complete(c) \/ Objection(c, j + 1) # None
<1> DEFINE Stops == {j \in 0..Complete(c) : j = Complete(c) \/ Objection(c, j + 1) # None}
<1>1. Complete(c) \in Nat
  BY Halves
<1>2. Stops \subseteq Nat /\ Complete(c) \in Stops
  BY <1>1
<1>3. PICK j \in Stops : \A m \in Stops : j <= m
  BY <1>2, LeastNumber
<1>4. ASSUME NEW i \in 1..j PROVE Objection(c, i) = None
  <2>1. i - 1 \in 0..Complete(c) /\ ~(j <= i - 1) /\ (i - 1) + 1 = i
    BY <1>1
  <2>2. i - 1 \notin Stops
    BY <1>3, <2>1
  <2> QED
    BY <2>1, <2>2
<1> QED
  BY <1>4

LEMMA Draining ==
  ASSUME NEW c, Sound(c), c.terminated = None
  PROVE  \E k : Drains(c, Drained(c), k)
<1> DEFINE Stop(j) == /\ \A i \in 1..j : Objection(c, i) = None
                      /\ j = Complete(c) \/ Objection(c, j + 1) # None
           k == CHOOSE j \in 0..Complete(c) : Stop(j)
           frames == [i \in 1..k |-> FrameAt(c, i)]
           rest == [c EXCEPT !.recvBuffer = SubSeq(@, 2 * k + 1, Len(@)),
                             !.rx = IF c.phase = "noise-data" THEN @ + k ELSE @]
           next == Delivered(rest, SlotOf(c), frames)
<1>0. c \in Transports
  BY DEF Sound
<1>1. k \in 0..Complete(c) /\ Stop(k)
  BY <1>0, PrefixExists
<1>2. Drained(c) = IF k < Headers(c) /\ Objection(c, k + 1) # None
                   THEN Failed(next, Objection(c, k + 1)) ELSE next
  BY DEF Drained, SlotOf
<1> HIDE DEF k
<1>3. /\ Complete(c) \in Nat /\ Complete(c) <= Headers(c) /\ Headers(c) \in Nat
      /\ Len(c.recvBuffer) \in Nat /\ 2 * k <= Len(c.recvBuffer)
      /\ \A i \in 1..k : FrameAt(c, i) \in Frames
  BY <1>0, <1>1, Halves
<1>4. frames \in Seq(Frames) /\ frames = Parsed(c, k)
  BY <1>1, <1>3 DEF Parsed
<1>5. SubSeq(c.recvBuffer, 2 * k + 1, Len(c.recvBuffer)) \in Seq(Units)
  BY <1>0, <1>1, <1>3, FieldsOf, SubSeqProperties
<1>6. c.phase = "noise-data" => c.rx + k \in 0..MaxMessages
  <2>1. SUFFICES ASSUME c.phase = "noise-data", k # 0 PROVE c.rx + k \in 0..MaxMessages
    BY <1>0, <1>1, FieldsOf
  <2>2. k \in 1..k /\ k <= Complete(c)
    BY <1>1, <1>3, <2>1
  <2>3. FrameAt(c, k).n = c.rx + k
    BY <1>1, <2>1, <2>2, NoneAssumption DEF Objection, Causes, Faults, NoNoise
  <2> QED
    BY <1>3, <2>2, <2>3 DEF Frames
<1>7. /\ rest.phase = c.phase /\ rest.terminated = None /\ rest.parked = c.parked
      /\ rest.recvBuffer = SubSeq(c.recvBuffer, 2 * k + 1, Len(c.recvBuffer))
      /\ rest.rx = IF c.phase = "noise-data" THEN c.rx + k ELSE c.rx
      /\ rest.given = c.given /\ rest.queue = c.queue
  BY <1>0 DEF Transports
<1>8. rest \in Transports
  BY <1>0, <1>5, <1>6 DEF Transports
<1>9. Sound(rest)
  BY <1>7, <1>8 DEF Sound
<1> HIDE DEF rest, frames
<1>10. ASSUME NEW s \in Slots PROVE Busy(rest, s) = Busy(c, s) /\ Unread(rest, s) = Unread(c, s)
  BY <1>7 DEF Busy, Unread, Held
<1>11. SlotOf(c) \in Slots
  BY DEF SlotOf, Slots
<1>12. /\ Sound(next) /\ next.phase = c.phase /\ next.terminated = None
       /\ next.recvBuffer = SubSeq(c.recvBuffer, 2 * k + 1, Len(c.recvBuffer))
       /\ next.rx = IF c.phase = "noise-data" THEN c.rx + k ELSE c.rx
       /\ Unread(next, SlotOf(c)) = Unread(c, SlotOf(c)) \o Parsed(c, k)
       /\ \A s \in Slots : Busy(next, s) = Busy(c, s) /\ (s # SlotOf(c) => Unread(next, s) = Unread(c, s))
  <2>1. LET d == Delivered(rest, SlotOf(c), frames) IN
         /\ Sound(d) /\ d.phase = rest.phase /\ d.recvBuffer = rest.recvBuffer /\ d.rx = rest.rx
         /\ d.terminated = rest.terminated
         /\ Unread(d, SlotOf(c)) = Unread(rest, SlotOf(c)) \o frames
         /\ \A r \in Slots : Busy(d, r) = Busy(rest, r) /\ (r # SlotOf(c) => Unread(d, r) = Unread(rest, r))
    BY <1>4, <1>9, <1>11, DeliveredIsSound
  <2> HIDE DEF next
  <2>2. /\ Sound(next) /\ next.phase = rest.phase /\ next.recvBuffer = rest.recvBuffer
        /\ next.rx = rest.rx /\ next.terminated = rest.terminated
        /\ Unread(next, SlotOf(c)) = Unread(rest, SlotOf(c)) \o frames
        /\ \A r \in Slots : Busy(next, r) = Busy(rest, r) /\ (r # SlotOf(c) => Unread(next, r) = Unread(rest, r))
    BY <2>1 DEF next
  <2>3. Unread(next, SlotOf(c)) = Unread(c, SlotOf(c)) \o Parsed(c, k)
    BY <1>4, <1>10, <1>11, <2>2
  <2> QED
    BY <1>7, <1>10, <2>2, <2>3
<1> HIDE DEF next
<1>13. CASE k < Headers(c) /\ Objection(c, k + 1) # None
  <2>1. Objection(c, k + 1) \in Causes
    BY <1>13, ObjectionIsACause
  <2>2. Drained(c) = Failed(next, Objection(c, k + 1))
    BY <1>2, <1>13
  <2>3. LET d == Failed(next, Objection(c, k + 1)) IN
         /\ Sound(d) /\ d.phase = next.phase /\ d.recvBuffer = next.recvBuffer /\ d.rx = next.rx
         /\ d.terminated = Objection(c, k + 1)
         /\ \A s \in Slots : Busy(d, s) = Busy(next, s) /\ Unread(d, s) = Unread(next, s)
    BY <1>12, <2>1, FailedIsSound
  <2>4. Drains(c, Drained(c), k)
    BY <1>1, <1>11, <1>12, <1>13, <2>2, <2>3 DEF Drains
  <2> QED
    BY <2>4
<1>14. CASE ~(k < Headers(c) /\ Objection(c, k + 1) # None)
  <2>1. Drained(c) = next /\ k = Complete(c)
    BY <1>1, <1>2, <1>3, <1>14
  <2>2. Drains(c, Drained(c), k)
    BY <1>1, <1>11, <1>12, <2>1 DEF Drains
  <2> QED
    BY <2>2
<1> QED
  BY <1>13, <1>14

\* A call for the next frame of a slot: it is given one, or an ending, or parks.
Awaited(c, d, s) ==
  /\ Sound(d) /\ d.phase = c.phase /\ d.recvBuffer = c.recvBuffer /\ d.rx = c.rx
  /\ d.terminated = c.terminated
  /\ Busy(d, s) /\ \A r \in Slots : Unread(d, r) = Unread(c, r) /\ (r # s => Busy(d, r) = Busy(c, r))

LEMMA ShiftedIsSound ==
  ASSUME NEW c, Sound(c), NEW s \in Slots, ~Busy(c, s), c.queue[s] # <<>>
  PROVE  Awaited(c, Shifted(c, s), s)
<1> DEFINE d == Shifted(c, s)
<1>0. c \in Transports /\ c.queue[s] \in Seq(Frames) /\ c.given[s] = None /\ s \notin c.parked
  BY FieldsOf DEF Sound, Busy
<1>1. /\ Head(c.queue[s]) \in Frames /\ Tail(c.queue[s]) \in Seq(Frames)
      /\ <<Head(c.queue[s])>> \o Tail(c.queue[s]) = c.queue[s]
  BY <1>0, HeadAndTail
<1>2. Value(Head(c.queue[s])) \in Outcomes
  BY <1>1 DEF Value, Outcomes
<1>3. /\ d.phase = c.phase /\ d.recvBuffer = c.recvBuffer /\ d.rx = c.rx
      /\ d.terminated = c.terminated /\ d.parked = c.parked
      /\ d.given = [c.given EXCEPT ![s] = Value(Head(c.queue[s]))]
      /\ d.queue = [c.queue EXCEPT ![s] = Tail(c.queue[s])]
      /\ d \in Transports
  BY <1>0, <1>1, <1>2 DEF Shifted, Transports
<1> HIDE DEF d
<1>4. d.given[s] = Value(Head(c.queue[s])) /\ d.queue[s] = Tail(c.queue[s])
  BY <1>0, <1>3, FieldsOf
<1>5. ASSUME NEW r \in Slots, r # s PROVE d.given[r] = c.given[r] /\ d.queue[r] = c.queue[r]
  BY <1>0, <1>3, <1>5, FieldsOf
<1>6. /\ Value(Head(c.queue[s])) # None /\ Value(Head(c.queue[s])).how = "value"
      /\ Value(Head(c.queue[s])).frame = Head(c.queue[s])
  BY <1>2, NoneAssumption DEF Value
<1>7. Unread(d, s) = c.queue[s] /\ Unread(c, s) = <<>> \o c.queue[s]
  BY <1>0, <1>1, <1>4, <1>6 DEF Unread, Held
<1>8. <<>> \o c.queue[s] = c.queue[s]
  BY ONLY <1>0, ConcatEmptySeq
<1>9. \A r \in Slots : Unread(d, r) = Unread(c, r) /\ (r # s => Busy(d, r) = Busy(c, r))
  BY <1>3, <1>5, <1>7, <1>8 DEF Busy, Unread, Held
<1>10. Sound(d) /\ Busy(d, s)
  BY <1>0, <1>3, <1>4, <1>5, <1>6, FieldsOf DEF Sound, Busy
<1> QED
  BY <1>3, <1>9, <1>10 DEF Awaited, d

LEMMA EndedIsSound ==
  ASSUME NEW c, Sound(c), NEW s \in Slots, ~Busy(c, s),
         NEW outcome \in Outcomes, outcome.how # "value"
  PROVE  Awaited(c, Settle(c, s, outcome), s)
<1> DEFINE d == Settle(c, s, outcome)
<1>0. c \in Transports /\ c.given[s] = None /\ s \notin c.parked
  BY DEF Sound, Busy
<1>1. /\ d.phase = c.phase /\ d.recvBuffer = c.recvBuffer /\ d.rx = c.rx
      /\ d.terminated = c.terminated /\ d.parked = c.parked \ {s} /\ d.queue = c.queue
      /\ d.given = [c.given EXCEPT ![s] = outcome] /\ d \in Transports
  BY <1>0 DEF Settle, Transports
<1> HIDE DEF d
<1>2. d.given[s] = outcome /\ outcome # None /\ d.parked = c.parked
  BY <1>0, <1>1, FieldsOf, NoneAssumption
<1>3. ASSUME NEW r \in Slots, r # s PROVE d.given[r] = c.given[r]
  BY <1>0, <1>1, <1>3, FieldsOf
<1>4. \A r \in Slots : Unread(d, r) = Unread(c, r) /\ (r # s => Busy(d, r) = Busy(c, r))
  BY <1>0, <1>1, <1>2, <1>3 DEF Busy, Unread, Held
<1>5. Sound(d) /\ Busy(d, s)
  BY <1>0, <1>1, <1>2, <1>3, FieldsOf DEF Sound, Busy
<1> QED
  BY <1>1, <1>4, <1>5 DEF Awaited, d

LEMMA ParkedIsSound ==
  ASSUME NEW c, Sound(c), NEW s \in Slots, ~Busy(c, s), c.queue[s] = <<>>, c.terminated = None
  PROVE  Awaited(c, Parked(c, s), s)
<1> DEFINE d == Parked(c, s)
<1>0. c \in Transports /\ c.given[s] = None
  BY DEF Sound, Busy
<1>1. /\ d.phase = c.phase /\ d.recvBuffer = c.recvBuffer /\ d.rx = c.rx
      /\ d.terminated = c.terminated /\ d.parked = c.parked \cup {s} /\ d.queue = c.queue
      /\ d.given = c.given /\ d \in Transports
  BY <1>0 DEF Parked, Transports
<1> HIDE DEF d
<1> QED
  BY <1>0, <1>1 DEF Awaited, Sound, Busy, Unread, Held, d

LEMMA NextIsSound ==
  ASSUME NEW c, Sound(c)
  PROVE  /\ ~Busy(c, "message") => Awaited(c, NextMessage(c), "message")
         /\ ~Busy(c, "handshake") => Awaited(c, NextNoiseHandshakeFrame(c), "handshake")
<1>1. "message" \in Slots /\ "handshake" \in Slots /\ c \in Transports
  BY DEF Slots, Sound
<1>2. c.terminated # None => c.terminated \in Causes
  BY <1>1, FieldsOf
<1>3. c.terminated # None =>
        /\ Ending("message", c.terminated) \in Outcomes /\ Ending("message", c.terminated).how # "value"
        /\ Error(c.terminated) \in Outcomes /\ Error(c.terminated).how # "value"
  BY <1>2 DEF Ending, Outcomes, Done, Error
<1>4. ASSUME ~Busy(c, "message") PROVE Awaited(c, NextMessage(c), "message")
  BY <1>1, <1>3, <1>4, ShiftedIsSound, EndedIsSound, ParkedIsSound DEF NextMessage
<1>5. ASSUME ~Busy(c, "handshake") PROVE Awaited(c, NextNoiseHandshakeFrame(c), "handshake")
  BY <1>1, <1>3, <1>5, ShiftedIsSound, EndedIsSound, ParkedIsSound DEF NextNoiseHandshakeFrame
<1> QED
  BY <1>4, <1>5

\* The code of a slot resumes with what it was given.
LEMMA TakenIsSound ==
  ASSUME NEW c, Sound(c), NEW s \in Slots, c.given[s] # None
  PROVE  LET d == Taken(c, s) IN
         /\ Sound(d) /\ d.phase = c.phase /\ d.recvBuffer = c.recvBuffer /\ d.rx = c.rx
         /\ d.terminated = c.terminated /\ ~Busy(d, s) /\ d.queue = c.queue
         /\ Unread(d, s) = c.queue[s] /\ Unread(c, s) = Held(c, s) \o c.queue[s]
         /\ \A r \in Slots : r # s => Unread(d, r) = Unread(c, r) /\ Busy(d, r) = Busy(c, r)
<1> DEFINE d == Taken(c, s)
<1>0. c \in Transports /\ s \notin c.parked /\ c.queue[s] \in Seq(Frames)
  BY FieldsOf DEF Sound
<1>1. /\ d.phase = c.phase /\ d.recvBuffer = c.recvBuffer /\ d.rx = c.rx
      /\ d.terminated = c.terminated /\ d.parked = c.parked /\ d.queue = c.queue
      /\ d.given = [c.given EXCEPT ![s] = None] /\ d \in Transports
  BY <1>0 DEF Taken, Transports
<1> HIDE DEF d
<1>2. d.given[s] = None
  BY <1>0, <1>1, FieldsOf
<1>3. ASSUME NEW r \in Slots, r # s PROVE d.given[r] = c.given[r]
  BY <1>0, <1>1, <1>3, FieldsOf
<1>4. <<>> \o c.queue[s] = c.queue[s]
  BY ONLY <1>0, ConcatEmptySeq
<1>5. \A r \in Slots : r # s => Unread(d, r) = Unread(c, r) /\ Busy(d, r) = Busy(c, r)
  BY <1>1, <1>3 DEF Busy, Unread, Held
<1>6. ~Busy(d, s) /\ Unread(d, s) = c.queue[s]
  BY <1>0, <1>1, <1>2, <1>4 DEF Busy, Unread, Held
<1>7. Sound(d)
  BY <1>0, <1>1, <1>2, <1>3, FieldsOf DEF Sound
<1> QED
  BY <1>1, <1>5, <1>6, <1>7 DEF d, Unread

-----------------------------------------------------------------------------
(* The bytes under way: those in the buffer and those on the line. *)

Joined(c, l) == c.recvBuffer \o l
Coming(c, l) == Len(Joined(c, l)) \div 2
FrameOf(c, l, i) == Joined(c, l)[2 * i - 1].frame

LEMMA JoinedIsTyped ==
  ASSUME NEW c \in Transports, NEW l \in Seq(Units)
  PROVE  /\ Joined(c, l) \in Seq(Units) /\ Len(Joined(c, l)) = Len(c.recvBuffer) + Len(l)
         /\ Coming(c, l) \in Nat /\ 2 * Coming(c, l) <= Len(Joined(c, l))
         /\ \A i \in 1..Coming(c, l) : FrameOf(c, l, i) \in Frames
         /\ \A i \in 1..Len(c.recvBuffer) : Joined(c, l)[i] = c.recvBuffer[i]
<1>1. c.recvBuffer \in Seq(Units) /\ Len(c.recvBuffer) \in Nat /\ Len(l) \in Nat
  BY FieldsOf
<1>2. /\ Joined(c, l) \in Seq(Units) /\ Len(Joined(c, l)) = Len(c.recvBuffer) + Len(l)
      /\ \A i \in 1..Len(c.recvBuffer) : Joined(c, l)[i] = c.recvBuffer[i]
  BY <1>1, ConcatProperties DEF Joined
<1>3. Coming(c, l) \in Nat /\ 2 * Coming(c, l) <= Len(Joined(c, l))
  <2>1. \A n \in Nat : n \div 2 \in Nat /\ 2 * (n \div 2) <= n
    OBVIOUS
  <2>2. Len(Joined(c, l)) \in Nat
    BY <1>1, <1>2
  <2> QED
    BY <2>1, <2>2 DEF Coming
<1>4. ASSUME NEW i \in 1..Coming(c, l) PROVE FrameOf(c, l, i) \in Frames
  <2>1. 2 * i - 1 \in 1..Len(Joined(c, l))
    BY <1>1, <1>2, <1>3
  <2>2. Joined(c, l)[2 * i - 1] \in Units
    BY <1>2, <2>1
  <2> QED
    BY <2>2 DEF FrameOf, Units
<1> QED
  BY <1>2, <1>3, <1>4

\* Parsing takes the first frames, so that the others move up.
LEMMA DrainedJoins ==
  ASSUME NEW c \in Transports, NEW l \in Seq(Units), NEW d, NEW k, Drains(c, d, k),
         Len(Joined(c, l)) = 2 * Coming(c, l)
  PROVE  /\ d \in Transports /\ k \in Nat /\ Coming(c, l) \in Nat /\ k <= Coming(c, l)
         /\ Len(Joined(d, l)) = 2 * Coming(d, l) /\ Coming(d, l) = Coming(c, l) - k
         /\ Len(d.recvBuffer) = Len(c.recvBuffer) - 2 * k
         /\ \A i \in 1..Coming(d, l) : FrameOf(d, l, i) = FrameOf(c, l, i + k)
         /\ \A i \in 1..Headers(c) : i \in 1..Coming(c, l) /\ FrameAt(c, i) = FrameOf(c, l, i)
         /\ Headers(c) \in Nat /\ Complete(c) \in Nat /\ k <= Complete(c) /\ Complete(c) <= Headers(c)
<1> DEFINE b == c.recvBuffer
           m == Len(c.recvBuffer)
           left == SubSeq(c.recvBuffer, 2 * k + 1, Len(c.recvBuffer))
<1>1. /\ d \in Transports /\ d.recvBuffer = left /\ k \in 0..Complete(c)
  BY DEF Drains, Sound
<1>2. /\ m \in Nat /\ Complete(c) \in Nat /\ Headers(c) \in Nat /\ 2 * Complete(c) <= m
      /\ 2 * Headers(c) - 1 <= m /\ Complete(c) <= Headers(c) /\ m <= 2 * Complete(c) + 1
  BY Halves
<1>3. b \in Seq(Units) /\ Len(l) \in Nat
  BY FieldsOf
<1>4. /\ left \in Seq(Units) /\ Len(left) = m - 2 * k
      /\ \A i \in 1..m - 2 * k : left[i] = b[i + 2 * k]
  <2>1. 2 * k + 1 \in 1..m + 1 /\ k \in Nat
    BY <1>1, <1>2
  <2>2. /\ left \in Seq(Units)
        /\ Len(left) = IF 2 * k + 1 <= m THEN m - (2 * k + 1) + 1 ELSE 0
        /\ \A i \in 1..m - (2 * k + 1) + 1 : left[i] = b[2 * k + 1 + i - 1]
    <3>1. b \in Seq(Units) /\ m = Len(b) /\ 2 * k + 1 \in 1..Len(b) + 1 /\ Len(b) \in Nat /\ left = SubSeq(b, 2 * k + 1, Len(b))
      BY <1>2, <1>3, <2>1
    <3> HIDE DEF b, m, left
    <3> QED
      BY ONLY <3>1, SubSeqProperties
  <2> HIDE DEF left, b
  <2>3. Len(left) = m - 2 * k
    <3>1. m \in Nat /\ 2 * k \in Nat /\ 2 * k <= m
      BY <1>2, <2>1
    <3>2. \A n \in Nat : n <= m => (IF n + 1 <= m THEN m - (n + 1) + 1 ELSE 0) = m - n
      BY <3>1
    <3>3. (IF 2 * k + 1 <= m THEN m - (2 * k + 1) + 1 ELSE 0) = m - 2 * k
      BY <3>1, <3>2
    <3> QED
      BY <2>2, <3>3
  <2>4. ASSUME NEW i \in 1..m - 2 * k PROVE left[i] = b[i + 2 * k]
    <3>1. i \in 1..m - (2 * k + 1) + 1 /\ 2 * k + 1 + i - 1 = i + 2 * k
      BY <1>2, <2>1
    <3> QED
      BY <2>2, <3>1
  <2> QED
    BY <2>2, <2>3, <2>4
<1>5. /\ Len(Joined(c, l)) = m + Len(l)
      /\ \A i \in 1..m + Len(l) : Joined(c, l)[i] = IF i <= m THEN b[i] ELSE l[i - m]
  BY <1>3, ConcatProperties DEF Joined
<1>6. /\ Len(Joined(d, l)) = (m - 2 * k) + Len(l)
      /\ \A i \in 1..(m - 2 * k) + Len(l) :
           Joined(d, l)[i] = IF i <= m - 2 * k THEN left[i] ELSE l[i - (m - 2 * k)]
  <2>1. /\ Len(left \o l) = Len(left) + Len(l)
        /\ \A i \in 1..Len(left) + Len(l) :
             (left \o l)[i] = IF i <= Len(left) THEN left[i] ELSE l[i - Len(left)]
    BY ONLY <1>4, ConcatProperties, l \in Seq(Units)
  <2>2. Joined(d, l) = left \o l
    BY <1>1 DEF Joined
  <2> HIDE DEF left
  <2> QED
    BY <1>4, <2>1, <2>2
<1> HIDE DEF b, m, left
<1>7. Coming(c, l) \in Nat /\ 2 * Coming(c, l) = m + Len(l) /\ k \in Nat
  BY <1>1, <1>2, <1>5, JoinedIsTyped
<1>8. Len(Joined(d, l)) = 2 * (Coming(c, l) - k) /\ Coming(c, l) - k \in Nat /\ k <= Coming(c, l)
  <2>1. Len(Joined(d, l)) = (m - 2 * k) + Len(l)
    BY <1>6
  <2>2. m \in Nat /\ Len(l) \in Nat /\ k <= Complete(c) /\ 2 * Complete(c) <= m /\ Complete(c) \in Nat
    BY <1>1, <1>2, <1>3
  <2> QED
    BY ONLY <1>7, <2>1, <2>2
<1>9. Coming(d, l) = Coming(c, l) - k
  <2>1. \A n \in Nat : (2 * n) \div 2 = n
    OBVIOUS
  <2> QED
    BY <1>8, <2>1 DEF Coming
<1>10. ASSUME NEW i \in 1..Coming(d, l) PROVE FrameOf(d, l, i) = FrameOf(c, l, i + k)
  <2> DEFINE p == 2 * i - 1
  <2>1. /\ i \in Nat /\ p \in 1..(m - 2 * k) + Len(l) /\ p + 2 * k \in 1..m + Len(l)
        /\ 2 * (i + k) - 1 = p + 2 * k
    <3> DEFINE N == Coming(c, l)
    <3>4. m \in Nat /\ Len(l) \in Nat /\ k \in Nat /\ N \in Nat /\ 2 * N = m + Len(l)
      BY <1>2, <1>3, <1>7
    <3>5. k <= Complete(c) /\ 2 * Complete(c) <= m /\ Complete(c) \in Nat
      BY <1>1, <1>2
    <3>6. N - k \in Nat /\ i \in 1..N - k
      BY <1>8, <1>9
    <3> HIDE DEF N
    <3>1. /\ m \in Nat /\ Len(l) \in Nat /\ k \in Nat /\ 2 * k <= m /\ i \in Nat \ {0}
          /\ 2 * N = m + Len(l) /\ i <= N - k /\ N \in Nat
      BY ONLY <3>4, <3>5, <3>6
    <3>2. i \in Nat /\ p \in Int /\ 1 <= p /\ p = 2 * i - 1
      BY ONLY <3>1
    <3>3. p <= (m - 2 * k) + Len(l)
      BY ONLY <3>1, <3>2
    <3> QED
      BY ONLY <3>1, <3>2, <3>3
  <2> HIDE DEF p
  <2>2. CASE p <= m - 2 * k
    <3>1. p \in 1..m - 2 * k /\ p + 2 * k <= m
      BY <1>2, <1>7, <2>1, <2>2
    <3>2. Joined(d, l)[p] = b[p + 2 * k]
      BY <1>4, <1>6, <2>1, <3>1
    <3>3. Joined(c, l)[p + 2 * k] = b[p + 2 * k]
      BY <1>5, <2>1, <3>1
    <3> QED
      BY <2>1, <3>2, <3>3 DEF FrameOf, p
  <2>3. CASE ~(p <= m - 2 * k)
    <3>1. ~(p + 2 * k <= m) /\ p - (m - 2 * k) = (p + 2 * k) - m
      BY <1>2, <1>7, <2>1, <2>3
    <3>2. Joined(d, l)[p] = l[(p + 2 * k) - m]
      BY <1>6, <2>1, <2>3, <3>1
    <3>3. Joined(c, l)[p + 2 * k] = l[(p + 2 * k) - m]
      BY <1>5, <2>1, <3>1
    <3> QED
      BY <2>1, <3>2, <3>3 DEF FrameOf, p
  <2> QED
    BY <2>2, <2>3
<1>11. ASSUME NEW i \in 1..Headers(c)
       PROVE  i \in 1..Coming(c, l) /\ FrameAt(c, i) = FrameOf(c, l, i)
  <2>1. 2 * i - 1 \in 1..m + Len(l) /\ 2 * i - 1 <= m /\ i \in 1..Coming(c, l)
    BY <1>2, <1>3, <1>7
  <2> QED
    BY <1>5, <2>1 DEF FrameAt, FrameOf, b
<1> QED
  BY <1>1, <1>2, <1>4, <1>7, <1>8, <1>9, <1>10, <1>11 DEF m

-----------------------------------------------------------------------------
(* What the device sent and what became of it. *)

\* All that was delivered for the iterator: its reader has it, is given it, or will be.
MessagesOf(c) == read \o Unread(c, "message")

Ordered(c) == \A i \in 1..Len(MessagesOf(c)) : MessagesOf(c)[i].n = i

Nonces(c) == c.rx = IF c.phase = "noise-data" THEN Len(MessagesOf(c)) ELSE 0

WholeFrames(c, l) == c.terminated = None => Len(Joined(c, l)) = 2 * Coming(c, l)

\* In plaintext the frames under way are the device's next messages.
PlainStream(c, l) ==
  c.terminated = None /\ c.phase = "plaintext" =>
    /\ \A i \in 1..Coming(c, l) : FrameOf(c, l, i).n = Len(MessagesOf(c)) + i
    /\ written = Len(MessagesOf(c)) + Coming(c, l)
    /\ Honest /\ kind # "plain" => Coming(c, l) = 0

\* A device without Noise is never taken for one that has it.
PlainDevice(c, l) ==
  kind = "plain" =>
    /\ c.phase # "noise-data" /\ Unread(c, "handshake") = <<>>
    /\ c.terminated = None => \A i \in 1..Coming(c, l) : FrameOf(c, l, i).wire = "plain" /\ ~FrameOf(c, l, i).huge

\* A device with Noise sends what the phase expects: its answers, of which each round takes
\* one, and then its messages, under the next nonces.
NoiseDevice(c, l) ==
  kind = "noise" /\ c.terminated = None =>
    /\ c.phase = "noise-handshake" =>
         /\ \A i \in 1..Coming(c, l) : FrameOf(c, l, i).wire = "noise" /\ ~FrameOf(c, l, i).huge
         /\ stage # "failed" => Coming(c, l) + Len(Unread(c, "handshake")) + round = answered + 1
         /\ written = 0
    /\ c.phase = "noise-data" =>
         /\ \A i \in 1..Coming(c, l) :
              /\ FrameOf(c, l, i).wire = "noise" /\ ~FrameOf(c, l, i).huge /\ FrameOf(c, l, i).ok
              /\ FrameOf(c, l, i).is = "message" /\ FrameOf(c, l, i).n = c.rx + i
         /\ written = c.rx + Coming(c, l) /\ answered = asked

Understood(c) == Honest /\ recvLimit > MaxChunk => c.terminated \notin Faults

Data(c, l) ==
  /\ Ordered(c) /\ Nonces(c) /\ WholeFrames(c, l) /\ PlainStream(c, l)
  /\ PlainDevice(c, l) /\ NoiseDevice(c, l) /\ Understood(c)

LEMMA ObjectionFacts ==
  ASSUME NEW c \in Transports, NEW i \in 1..Headers(c)
  PROVE  /\ /\ c.phase = "noise-data" /\ i <= Complete(c) /\ Objection(c, i) = None
            => FrameAt(c, i).n = c.rx + i
         /\ c.phase = "noise-handshake" /\ FrameAt(c, i).wire = "plain" =>
              Objection(c, i) # None /\ Objection(c, i) \notin Faults
         /\ c.phase = "plaintext" /\ FrameAt(c, i).wire = "plain" /\ ~FrameAt(c, i).huge =>
              Objection(c, i) = None
         /\ c.phase = "noise-handshake" /\ FrameAt(c, i).wire = "noise" /\ ~FrameAt(c, i).huge =>
              Objection(c, i) = None
         /\ /\ c.phase = "noise-data" /\ FrameAt(c, i).wire = "noise" /\ ~FrameAt(c, i).huge
            /\ FrameAt(c, i).ok /\ FrameAt(c, i).is = "message" /\ FrameAt(c, i).n = c.rx + i
            => Objection(c, i) = None
BY NoneAssumption DEF Objection, Causes, Faults, NoNoise

\* Parsing moves messages from the bytes under way to the reader, in order and each once,
\* whatever the buffer holds of them.
LEMMA DrainKeeps ==
  ASSUME NEW c, Sound(c), NEW l \in Seq(Units), c.terminated = None, Data(c, l),
         read \in Seq(Frames), written \in Nat, answered \in Nat, round \in Nat,
         NEW d, NEW k, Drains(c, d, k)
  PROVE  Data(d, l) /\ (d.terminated = None => Len(d.recvBuffer) <= 1)
<1> DEFINE L == Len(MessagesOf(c))
<1>0. c \in Transports /\ Len(Joined(c, l)) = 2 * Coming(c, l) /\ "message" \in Slots /\ "handshake" \in Slots
  BY DEF Sound, Data, WholeFrames, Slots
<1>1. /\ d \in Transports /\ k \in Nat /\ Coming(c, l) \in Nat /\ k <= Coming(c, l)
      /\ Len(Joined(d, l)) = 2 * Coming(d, l) /\ Coming(d, l) = Coming(c, l) - k
      /\ Len(d.recvBuffer) = Len(c.recvBuffer) - 2 * k
      /\ \A i \in 1..Coming(d, l) : FrameOf(d, l, i) = FrameOf(c, l, i + k)
      /\ \A i \in 1..Headers(c) : i \in 1..Coming(c, l) /\ FrameAt(c, i) = FrameOf(c, l, i)
      /\ Headers(c) \in Nat /\ Complete(c) \in Nat /\ k <= Complete(c) /\ Complete(c) <= Headers(c)
  BY <1>0, DrainedJoins
<1>2. /\ \A i \in 1..k : Objection(c, i) = None
      /\ d.phase = c.phase
      /\ d.rx = IF c.phase = "noise-data" THEN c.rx + k ELSE c.rx
      /\ Unread(d, SlotOf(c)) = Unread(c, SlotOf(c)) \o Parsed(c, k)
      /\ \A s \in Slots : s # SlotOf(c) => Unread(d, s) = Unread(c, s)
      /\ \/ d.terminated = None /\ k = Complete(c)
         \/ d.terminated = Objection(c, k + 1) /\ d.terminated # None /\ k < Headers(c)
  BY DEF Drains
<1>3. /\ Parsed(c, k) \in Seq(Frames) /\ Len(Parsed(c, k)) = k
      /\ \A i \in 1..k : Parsed(c, k)[i] = FrameOf(c, l, i)
  <2>1. \A i \in 1..k : FrameAt(c, i) = FrameOf(c, l, i) /\ FrameAt(c, i) \in Frames
    <3>1. \A i \in 1..k : i \in 1..Headers(c)
      BY <1>1
    <3>2. \A i \in 1..Headers(c) : FrameAt(c, i) \in Frames
      BY <1>0, Halves
    <3> QED
      BY <1>1, <3>1, <3>2
  <2> QED
    BY <1>1, <2>1 DEF Parsed
<1>4. /\ Unread(c, "message") \in Seq(Frames) /\ Unread(c, "handshake") \in Seq(Frames)
      /\ MessagesOf(c) \in Seq(Frames) /\ L \in Nat
  <2>1. Unread(c, "message") \in Seq(Frames) /\ Unread(c, "handshake") \in Seq(Frames)
    BY <1>0, HeldIsShort
  <2>2. MessagesOf(c) \in Seq(Frames)
    BY ONLY <2>1, read \in Seq(Frames), ConcatProperties DEF MessagesOf
  <2> QED
    BY <2>1, <2>2
<1> HIDE DEF L
<1>5. ASSUME c.phase # "noise-handshake"
      PROVE  Ordered(d) /\ Nonces(d) /\ PlainStream(d, l) /\ NoiseDevice(d, l) /\ Unread(d, "handshake") = Unread(c, "handshake")
  <2>1. SlotOf(c) = "message"
    BY <1>5 DEF SlotOf
  <2>2. MessagesOf(d) = MessagesOf(c) \o Parsed(c, k)
    <3>1. (read \o Unread(c, "message")) \o Parsed(c, k) = read \o (Unread(c, "message") \o Parsed(c, k))
      <4> DEFINE u == Unread(c, "message")
                 p == Parsed(c, k)
      <4>1. u \in Seq(Frames) /\ p \in Seq(Frames)
        BY <1>3, <1>4
      <4> HIDE DEF u, p
      <4>2. (read \o u) \o p = read \o (u \o p)
        BY ONLY <4>1, read \in Seq(Frames), ConcatAssociative
      <4> QED
        BY <4>2 DEF u, p
    <3> QED
      BY <1>2, <2>1, <3>1 DEF MessagesOf
  <2>3. /\ Len(MessagesOf(d)) = L + k
        /\ \A i \in 1..L + k : MessagesOf(d)[i] =
             IF i <= L THEN MessagesOf(c)[i] ELSE FrameOf(c, l, i - L)
    <3> DEFINE m == MessagesOf(c)
               p == Parsed(c, k)
    <3>1. m \in Seq(Frames) /\ p \in Seq(Frames) /\ Len(p) = k /\ Len(m) = L
      BY <1>3, <1>4 DEF L
    <3>2. \A i \in 1..k : p[i] = FrameOf(c, l, i)
      BY <1>3
    <3>3. MessagesOf(d) = m \o p
      BY <2>2
    <3> HIDE DEF m, p
    <3>4. /\ Len(m \o p) = L + k
          /\ \A i \in 1..L + k : (m \o p)[i] = IF i <= L THEN m[i] ELSE p[i - L]
      BY ONLY <3>1, ConcatProperties
    <3>5. ASSUME NEW i \in 1..L + k, ~(i <= L) PROVE p[i - L] = FrameOf(c, l, i - L)
      BY <1>1, <1>4, <3>2, <3>5
    <3> QED
      BY <3>3, <3>4, <3>5 DEF m
  <2>4. ASSUME NEW i \in 1..k PROVE FrameOf(c, l, i).n = L + i
    <3>1. i \in 1..Headers(c) /\ i \in 1..Coming(c, l) /\ i <= Complete(c) /\ Objection(c, i) = None
          /\ FrameAt(c, i) = FrameOf(c, l, i)
      BY <1>1, <1>2
    <3>2. CASE c.phase = "plaintext"
      BY <3>1, <3>2 DEF Data, PlainStream, L
    <3>3. CASE c.phase = "noise-data"
      <4>1. FrameAt(c, i).n = c.rx + i
        BY <1>0, <3>1, <3>3, ObjectionFacts
      <4>2. c.rx = L
        BY <3>3 DEF Data, Nonces, L
      <4> QED
        BY <3>1, <4>1, <4>2
    <3> QED
      BY <1>0, <1>5, <3>2, <3>3, FieldsOf
  <2>5. Ordered(d)
    <3> SUFFICES ASSUME NEW i \in 1..L + k PROVE MessagesOf(d)[i].n = i
      BY <2>3 DEF Ordered
    <3>1. CASE i <= L
      <4>1. i \in 1..L
        BY <1>4, <3>1
      <4> QED
        BY <2>3, <3>1, <4>1 DEF Data, Ordered, L
    <3>2. CASE ~(i <= L)
      <4>1. i - L \in 1..k /\ L + (i - L) = i
        BY <1>1, <1>4, <3>2
      <4> QED
        BY <2>3, <2>4, <3>2, <4>1
    <3> QED
      BY <3>1, <3>2
  <2>6. Nonces(d)
    BY <1>2, <2>3 DEF Data, Nonces, L
  <2>7. ASSUME d.phase = "plaintext" PROVE PlainStream(d, l)
    <3>1. /\ \A i \in 1..Coming(c, l) : FrameOf(c, l, i).n = L + i
          /\ written = L + Coming(c, l)
          /\ Honest /\ kind # "plain" => Coming(c, l) = 0
      BY <1>2, <2>7 DEF Data, PlainStream, L
    <3>2. ASSUME NEW i \in 1..Coming(d, l) PROVE FrameOf(d, l, i).n = (L + k) + i
      <4>1. i + k \in 1..Coming(c, l) /\ L + (i + k) = (L + k) + i
        BY <1>1, <1>4
      <4> QED
        BY <1>1, <3>1, <4>1
    <3>3. written = (L + k) + Coming(d, l) /\ (Honest /\ kind # "plain" => Coming(d, l) = 0)
      <4>1. /\ Coming(d, l) = Coming(c, l) - k /\ Coming(c, l) \in Nat /\ k \in Nat /\ k <= Coming(c, l)
            /\ L \in Nat /\ written = L + Coming(c, l)
        BY <1>1, <1>4, <3>1
      <4>2. written = (L + k) + Coming(d, l)
        BY ONLY <4>1
      <4>3. Coming(c, l) = 0 => Coming(d, l) = 0
        BY ONLY <4>1
      <4> QED
        BY <3>1, <4>2, <4>3
    <3> QED
      BY <2>3, <3>2, <3>3 DEF PlainStream
  <2>8. ASSUME d.phase = "noise-data" PROVE NoiseDevice(d, l)
    <3> SUFFICES ASSUME kind = "noise"
        PROVE  /\ \A i \in 1..Coming(d, l) :
                    /\ FrameOf(d, l, i).wire = "noise" /\ ~FrameOf(d, l, i).huge /\ FrameOf(d, l, i).ok
                    /\ FrameOf(d, l, i).is = "message" /\ FrameOf(d, l, i).n = d.rx + i
               /\ written = d.rx + Coming(d, l) /\ answered = asked
      BY <2>8 DEF NoiseDevice
    <3>1. /\ \A i \in 1..Coming(c, l) :
                    /\ FrameOf(c, l, i).wire = "noise" /\ ~FrameOf(c, l, i).huge /\ FrameOf(c, l, i).ok
                    /\ FrameOf(c, l, i).is = "message" /\ FrameOf(c, l, i).n = c.rx + i
          /\ written = c.rx + Coming(c, l) /\ answered = asked /\ d.rx = c.rx + k /\ c.rx \in Nat
      BY <1>0, <1>2, <2>8, FieldsOf DEF Data, NoiseDevice
    <3>2. ASSUME NEW i \in 1..Coming(d, l)
          PROVE  /\ FrameOf(d, l, i).wire = "noise" /\ ~FrameOf(d, l, i).huge /\ FrameOf(d, l, i).ok
                 /\ FrameOf(d, l, i).is = "message" /\ FrameOf(d, l, i).n = d.rx + i
      <4>1. i + k \in 1..Coming(c, l) /\ c.rx + (i + k) = (c.rx + k) + i
        <5>1. Coming(d, l) = Coming(c, l) - k /\ Coming(c, l) \in Nat /\ k \in Nat /\ c.rx \in Nat
          BY <1>1, <3>1
        <5> QED
          BY ONLY <5>1, i \in 1..Coming(d, l)
      <4>2. FrameOf(d, l, i) = FrameOf(c, l, i + k)
        BY <1>1
      <4> QED
        BY <3>1, <4>1, <4>2
    <3>3. written = d.rx + Coming(d, l)
      BY <1>1, <3>1
    <3> QED
      BY <3>1, <3>2, <3>3
  <2>9. Unread(d, "handshake") = Unread(c, "handshake")
    BY <1>0, <1>2, <2>1
  <2> QED
    BY <1>2, <1>5, <2>5, <2>6, <2>7, <2>8, <2>9 DEF PlainStream, NoiseDevice
<1>6. ASSUME c.phase = "noise-handshake"
      PROVE  Ordered(d) /\ Nonces(d) /\ PlainStream(d, l) /\ NoiseDevice(d, l)
  <2>1. SlotOf(c) = "handshake" /\ MessagesOf(d) = MessagesOf(c) /\ d.rx = c.rx
    BY <1>0, <1>2, <1>6 DEF SlotOf, MessagesOf
  <2>2. Len(Unread(d, "handshake")) = Len(Unread(c, "handshake")) + k
    <3> DEFINE u == Unread(c, "handshake")
               p == Parsed(c, k)
    <3>1. u \in Seq(Frames) /\ p \in Seq(Frames) /\ Len(p) = k
      BY <1>3, <1>4
    <3> HIDE DEF u, p
    <3>2. Len(u \o p) = Len(u) + k
      BY ONLY <3>1, ConcatProperties
    <3> QED
      BY <1>2, <2>1, <3>2 DEF u, p
  <2>3. Ordered(d) /\ Nonces(d) /\ PlainStream(d, l)
    BY <1>2, <1>6, <2>1 DEF Data, Ordered, Nonces, PlainStream
  <2>4. ASSUME kind = "noise"
        PROVE  /\ \A i \in 1..Coming(d, l) : FrameOf(d, l, i).wire = "noise" /\ ~FrameOf(d, l, i).huge
               /\ stage # "failed" => Coming(d, l) + Len(Unread(d, "handshake")) + round = answered + 1
               /\ written = 0
    <3>1. /\ \A i \in 1..Coming(c, l) : FrameOf(c, l, i).wire = "noise" /\ ~FrameOf(c, l, i).huge
          /\ stage # "failed" => Coming(c, l) + Len(Unread(c, "handshake")) + round = answered + 1
          /\ written = 0
      BY <1>6, <2>4 DEF Data, NoiseDevice
    <3>2. \A i \in 1..Coming(d, l) : i + k \in 1..Coming(c, l)
      BY <1>1
    <3>3. Len(Unread(c, "handshake")) \in Nat
      BY <1>4
    <3>4. Coming(d, l) + Len(Unread(d, "handshake")) = Coming(c, l) + Len(Unread(c, "handshake"))
      <4>1. Coming(c, l) \in Nat /\ k \in Nat /\ Coming(d, l) = Coming(c, l) - k
        BY <1>1
      <4> QED
        BY <2>2, <3>3, <4>1
    <3> QED
      BY <1>1, <3>1, <3>2, <3>4
  <2> QED
    BY <1>2, <1>6, <2>3, <2>4 DEF NoiseDevice
<1>7. PlainDevice(d, l)
  <2> SUFFICES ASSUME kind = "plain"
               PROVE  /\ d.phase # "noise-data" /\ Unread(d, "handshake") = <<>>
                      /\ \A i \in 1..Coming(d, l) : FrameOf(d, l, i).wire = "plain" /\ ~FrameOf(d, l, i).huge
    BY DEF PlainDevice
  <2>1. /\ c.phase # "noise-data" /\ Unread(c, "handshake") = <<>>
        /\ \A i \in 1..Coming(c, l) : FrameOf(c, l, i).wire = "plain" /\ ~FrameOf(c, l, i).huge
    BY DEF Data, PlainDevice
  <2>2. \A i \in 1..Coming(d, l) : i + k \in 1..Coming(c, l)
    BY <1>1
  <2>3. CASE c.phase = "noise-handshake"
    <3>1. k = 0
      <4> SUFFICES ASSUME k # 0 PROVE FALSE
        OBVIOUS
      <4>1. 1 \in 1..k /\ 1 \in 1..Headers(c)
        BY <1>1
      <4>2. FrameAt(c, 1).wire = "plain" /\ Objection(c, 1) = None
        BY <1>1, <1>2, <2>1, <4>1
      <4> QED
        BY <1>0, <2>3, <4>1, <4>2, ObjectionFacts
    <3>2. Parsed(c, k) = <<>>
      BY <1>3, <3>1
    <3>3. <<>> \o <<>> = <<>>
      OBVIOUS
    <3> QED
      BY <1>1, <1>2, <2>1, <2>2, <2>3, <3>2, <3>3 DEF SlotOf
  <2>4. CASE c.phase # "noise-handshake"
    BY <1>1, <1>2, <1>5, <2>1, <2>2, <2>4
  <2> QED
    BY <2>3, <2>4
<1>8. Understood(d)
  <2> SUFFICES ASSUME Honest, d.terminated = Objection(c, k + 1), d.terminated # None, k < Headers(c)
               PROVE  d.terminated \notin Faults
    BY <1>2, NoneAssumption DEF Understood, Causes
  <2>1. /\ k + 1 \in 1..Headers(c) /\ k + 1 \in 1..Coming(c, l)
        /\ FrameAt(c, k + 1) = FrameOf(c, l, k + 1)
    BY <1>1
  <2>2. CASE kind = "plain"
    <3>1. c.phase # "noise-data" /\ FrameAt(c, k + 1).wire = "plain" /\ ~FrameAt(c, k + 1).huge
      BY <2>1, <2>2 DEF Data, PlainDevice
    <3> QED
      BY <1>0, <2>1, <3>1, ObjectionFacts, FieldsOf
  <2>3. CASE kind = "noise"
    <3>1. c.phase # "plaintext"
      BY <1>1, <2>1, <2>3 DEF Data, PlainStream
    <3>2. CASE c.phase = "noise-handshake"
      <4>1. FrameAt(c, k + 1).wire = "noise" /\ ~FrameAt(c, k + 1).huge
        BY <2>1, <2>3, <3>2 DEF Data, NoiseDevice
      <4> QED
        BY <1>0, <2>1, <3>2, <4>1, ObjectionFacts
    <3>3. CASE c.phase = "noise-data"
      <4>1. /\ FrameAt(c, k + 1).wire = "noise" /\ ~FrameAt(c, k + 1).huge /\ FrameAt(c, k + 1).ok
            /\ FrameAt(c, k + 1).is = "message" /\ FrameAt(c, k + 1).n = c.rx + (k + 1)
        BY <2>1, <2>3, <3>3 DEF Data, NoiseDevice
      <4> QED
        BY <1>0, <2>1, <3>3, <4>1, ObjectionFacts
    <3> QED
      BY <1>0, <3>1, <3>2, <3>3, FieldsOf
  <2> QED
    BY <2>2, <2>3 DEF Honest
<1>9. d.terminated = None => Len(d.recvBuffer) <= 1
  BY <1>0, <1>1, <1>2, Halves
<1> QED
  BY <1>1, <1>5, <1>6, <1>7, <1>8, <1>9 DEF Data, WholeFrames

-----------------------------------------------------------------------------
(* The invariant: the handshake's code, the transport's phase and the data. *)

Scalars ==
  /\ kind \in Kinds /\ psk \in BOOLEAN /\ recvLimit \in RecvLimits
  /\ stage \in {"start", "sent", "waiting", "keyed", "plain", "failed"}
  /\ round \in {1, 2} /\ reopened \in BOOLEAN
  /\ read \in Seq(Frames) /\ finished \in {"no", "done", "error"}
  /\ line \in Seq(Units) /\ asked \in 0..2 /\ answered \in 0..2 /\ written \in 0..MaxMessages

\* A slot is occupied while its code waits.
Waiters ==
  /\ stage = "waiting" <=> Busy(t, "handshake")
  /\ Busy(t, "message") => stage \in {"keyed", "plain"} /\ finished = "no"

\* The phase that goes with a stage.
Phases ==
  /\ t.phase = "plaintext" => asked = 0 /\ stage \in {"start", "plain", "failed"}
  /\ t.phase = "noise-handshake" => stage \in {"sent", "waiting", "failed"}
  /\ t.phase = "noise-data" <=> stage = "keyed"
  /\ stage = "plain" => t.phase = "plaintext" /\ (psk => reopened)
  /\ t.phase = "plaintext" /\ t.terminated = None => stage # "failed"
  /\ answered <= asked

\* No message is read before the handshake has ended.
Early ==
  stage = "start" \/ t.phase = "noise-handshake" =>
    read = <<>> /\ Unread(t, "message") = <<>> /\ ~Busy(t, "message")

Fresh ==
  stage = "start" =>
    /\ t.phase = "plaintext" /\ t.recvBuffer = <<>> /\ Unread(t, "handshake") = <<>>
    /\ line = <<>> /\ round = 1 /\ written = 0

\* Less than a frame is left in the buffer.
Residue == t.terminated = None => Len(t.recvBuffer) <= 1

Control == Scalars /\ Sound(t) /\ Waiters /\ Phases /\ Early /\ Fresh /\ Residue
Inv == Control /\ Data(t, line)

LEMMA SlotsAre == Slots = {"message", "handshake"}
BY DEF Slots

LEMMA EmptyUnread ==
  ASSUME NEW c, NEW s, c.given[s] = None, c.queue[s] = <<>>
  PROVE  Unread(c, s) = <<>> /\ Held(c, s) = <<>>
<1>1. <<>> \o <<>> = <<>>
  OBVIOUS
<1> QED
  BY <1>1 DEF Unread, Held

LEMMA OpenedIsSound ==
  /\ Sound(Opened) /\ \A s \in Slots : ~Busy(Opened, s) /\ Unread(Opened, s) = <<>>
  /\ Opened.phase = "plaintext" /\ Opened.recvBuffer = <<>> /\ Opened.terminated = None
  /\ Opened.rx = 0
<1>1. /\ Opened.phase = "plaintext" /\ Opened.recvBuffer = <<>> /\ Opened.terminated = None
      /\ Opened.rx = 0 /\ Opened.parked = {}
      /\ \A s \in Slots : Opened.given[s] = None /\ Opened.queue[s] = <<>>
  BY DEF Opened
<1>2. Opened \in Transports
  BY TransportAssumption DEF Opened, Transports
<1> QED
  BY <1>1, <1>2, EmptyUnread DEF Sound, Busy

\* A connection on which nothing has been sent.
LEMMA NothingSent ==
  ASSUME NEW c, c.recvBuffer = <<>>
  PROVE  Joined(c, <<>>) = <<>> /\ Coming(c, <<>>) = 0
<1>1. <<>> \o <<>> = <<>> /\ Len(<<>>) = 0 /\ 0 \div 2 = 0
  OBVIOUS
<1> QED
  BY <1>1 DEF Joined, Coming

LEMMA FreshData ==
  ASSUME NEW c, c.recvBuffer = <<>>, c.phase = "plaintext", c.terminated = None, c.rx = 0,
         Unread(c, "message") = <<>>, Unread(c, "handshake") = <<>>, read = <<>>, written = 0
  PROVE  Data(c, <<>>)
<1>1. MessagesOf(c) = <<>> /\ Len(MessagesOf(c)) = 0
  <2>1. <<>> \o <<>> = <<>> /\ Len(<<>>) = 0
    OBVIOUS
  <2> QED
    BY <2>1 DEF MessagesOf
<1>2. Joined(c, <<>>) = <<>> /\ Coming(c, <<>>) = 0 /\ Len(<<>>) = 0
  BY NothingSent
<1>3. None \notin Faults
  BY NoneAssumption DEF Causes
<1>4. Ordered(c) /\ Nonces(c) /\ WholeFrames(c, <<>>)
  BY <1>1, <1>2 DEF Ordered, Nonces, WholeFrames
<1>5. PlainStream(c, <<>>)
  BY <1>1, <1>2 DEF PlainStream
<1>6. PlainDevice(c, <<>>)
  BY <1>2 DEF PlainDevice
<1>7. NoiseDevice(c, <<>>) /\ Understood(c)
  BY <1>3 DEF NoiseDevice, Understood
<1> QED
  BY <1>4, <1>5, <1>6, <1>7 DEF Data

LEMMA InitInv == Init => Inv
<1> SUFFICES ASSUME Init PROVE Inv
  OBVIOUS
<1>1. /\ t = Opened /\ line = <<>> /\ read = <<>> /\ written = 0 /\ stage = "start" /\ round = 1
      /\ asked = 0 /\ answered = 0 /\ finished = "no"
  BY DEF Init
<1>2. Scalars
  <2>1. kind \in Kinds /\ psk \in BOOLEAN /\ recvLimit \in RecvLimits /\ reopened \in BOOLEAN
    BY Zenon DEF Init
  <2>2. <<>> \in Seq(Frames) /\ <<>> \in Seq(Units) /\ 0 \in 0..MaxMessages
    BY TransportAssumption
  <2> QED
    BY <1>1, <2>1, <2>2 DEF Scalars
<1>3. Data(t, line)
  BY <1>1, OpenedIsSound, FreshData, SlotsAre
<1> QED
  BY <1>1, <1>2, <1>3, OpenedIsSound, SlotsAre DEF Inv, Control, Waiters, Phases, Early, Fresh, Residue

\* A step that moves nothing in the buffer or on the line, loses no message and, while the
\* handshake goes on, no frame of it.
LEMMA QuietData ==
  ASSUME Data(t, line), UNCHANGED <<options, reopened, round, line, asked, answered, written>>,
         t'.phase = t.phase, t'.recvBuffer = t.recvBuffer, t'.rx = t.rx,
         \/ t'.terminated = t.terminated
         \/ t'.terminated # None /\ t'.terminated \notin Faults,
         MessagesOf(t)' = MessagesOf(t),
         stage' # "failed" => stage # "failed" /\ Unread(t, "handshake")' = Unread(t, "handshake"),
         Unread(t, "handshake") = <<>> => Unread(t, "handshake")' = <<>>
  PROVE  Data(t, line)'
<1>1. Joined(t, line)' = Joined(t, line) /\ Coming(t, line)' = Coming(t, line)
  BY DEF Joined, Coming
<1>2. \A i : FrameOf(t, line, i)' = FrameOf(t, line, i)
  BY <1>1 DEF FrameOf
<1>3. UNCHANGED <<kind, psk, recvLimit, reopened, round, answered, asked, written>> /\ Honest' = Honest
  BY DEF options, Honest
<1>4. Ordered(t)' /\ Nonces(t)' /\ WholeFrames(t, line)'
  BY <1>1 DEF Data, Ordered, Nonces, WholeFrames
<1>5. PlainStream(t, line)'
  BY <1>1, <1>2, <1>3 DEF Data, PlainStream
<1>6. PlainDevice(t, line)'
  BY <1>1, <1>2, <1>3 DEF Data, PlainDevice
<1>7. NoiseDevice(t, line)'
  BY <1>1, <1>2, <1>3 DEF Data, NoiseDevice
<1>8. Understood(t)'
  BY <1>3 DEF Data, Understood
<1> QED
  BY <1>4, <1>5, <1>6, <1>7, <1>8 DEF Data

-----------------------------------------------------------------------------
(* The steps of the client's code. *)

LEMMA EnteringStep == Inv /\ EnterNoiseHandshake => Inv'
<1> SUFFICES ASSUME Inv, EnterNoiseHandshake PROVE Inv'
  OBVIOUS
<1>1. /\ stage = "start" /\ UNCHANGED <<options, round, reopened, read, finished, line, answered, written>>
      /\ UNCHANGED <<kind, psk, recvLimit>>
  BY DEF EnterNoiseHandshake, reader, options
<1>2. /\ Sound(t) /\ t \in Transports /\ t.phase = "plaintext" /\ t.recvBuffer = <<>> /\ t.rx = 0
      /\ Unread(t, "handshake") = <<>> /\ line = <<>> /\ round = 1 /\ written = 0 /\ answered = 0
      /\ read = <<>> /\ Unread(t, "message") = <<>> /\ ~Busy(t, "message") /\ ~Busy(t, "handshake")
  BY <1>1 DEF Inv, Control, Sound, Fresh, Early, Waiters, Phases, Scalars, Data, Nonces
<1>3. CASE t.terminated = None
  <2>1. t' = [t EXCEPT !.phase = "noise-handshake"] /\ asked' = 1 /\ stage' = "sent"
    BY <1>3 DEF EnterNoiseHandshake
  <2>2. /\ t'.phase = "noise-handshake" /\ t'.recvBuffer = <<>> /\ t'.rx = 0 /\ t' \in Transports
        /\ t'.parked = t.parked /\ t'.given = t.given /\ t'.queue = t.queue
        /\ t'.terminated = None
    BY <1>2, <1>3, <2>1 DEF Transports
  <2>3. /\ Sound(t') /\ ~Busy(t', "message") /\ ~Busy(t', "handshake")
        /\ Unread(t', "message") = <<>> /\ Unread(t', "handshake") = <<>>
    BY <1>2, <2>2 DEF Sound, Busy, Unread, Held
  <2>4. Joined(t', <<>>) = <<>> /\ Coming(t', <<>>) = 0 /\ Len(<<>>) = 0 /\ MessagesOf(t)' = <<>>
    <3>1. <<>> \o <<>> = <<>> /\ Len(<<>>) = 0
      OBVIOUS
    <3> QED
      BY <1>1, <1>2, <2>2, <2>3, <3>1, NothingSent DEF MessagesOf
  <2>5. Control'
    BY <1>1, <1>2, <2>1, <2>2, <2>3, <2>4
       DEF Inv, Control, Scalars, Waiters, Phases, Early, Fresh, Residue
  <2>6. None \notin Faults
    BY NoneAssumption DEF Causes
  <2>7. Joined(t, line)' = <<>> /\ Coming(t, line)' = 0
    BY <1>1, <1>2, <2>4
  <2>8. Ordered(t)' /\ Nonces(t)' /\ WholeFrames(t, line)' /\ PlainStream(t, line)'
    BY <1>1, <1>2, <2>2, <2>4, <2>7 DEF Ordered, Nonces, WholeFrames, PlainStream
  <2>9. PlainDevice(t, line)' /\ Understood(t)'
    BY <2>2, <2>3, <2>6, <2>7 DEF PlainDevice, Understood
  <2>10. NoiseDevice(t, line)'
    BY <1>1, <1>2, <2>2, <2>3, <2>4, <2>7 DEF NoiseDevice
  <2> QED
    BY <2>5, <2>8, <2>9, <2>10 DEF Inv, Data
<1>4. CASE t.terminated # None
  <2>1. t' = t /\ asked' = asked /\ stage' = "failed"
    BY <1>4 DEF EnterNoiseHandshake
  <2>2. Control'
    BY <1>1, <1>2, <1>4, <2>1
       DEF Inv, Control, Scalars, Waiters, Phases, Early, Fresh, Residue, Busy, Unread, Held
  <2>3. Data(t, line)'
    BY <1>1, <1>2, <2>1, QuietData DEF Inv, MessagesOf, Unread, Held
  <2> QED
    BY <2>2, <2>3 DEF Inv
<1> QED
  BY <1>3, <1>4

LEMMA AwaitingStep == Inv /\ AwaitFrame => Inv'
<1> SUFFICES ASSUME Inv, AwaitFrame PROVE Inv'
  OBVIOUS
<1>1. /\ stage = "sent" /\ stage' = "waiting" /\ t' = NextNoiseHandshakeFrame(t)
      /\ UNCHANGED <<options, round, reopened, read, finished, line, asked, answered, written>>
      /\ UNCHANGED <<kind, psk, recvLimit>>
  BY DEF AwaitFrame, reader, options, device
<1>2. Sound(t) /\ ~Busy(t, "handshake") /\ "message" \in Slots /\ "handshake" \in Slots
  BY <1>1 DEF Inv, Control, Waiters, Slots
<1>3. /\ Sound(t') /\ t'.phase = t.phase /\ t'.recvBuffer = t.recvBuffer /\ t'.rx = t.rx
      /\ t'.terminated = t.terminated
      /\ Unread(t', "message") = Unread(t, "message") /\ Unread(t', "handshake") = Unread(t, "handshake")
      /\ Busy(t', "handshake") /\ Busy(t', "message") = Busy(t, "message")
  BY <1>1, <1>2, NextIsSound DEF Awaited
<1>4. Control'
  BY <1>1, <1>3 DEF Inv, Control, Scalars, Waiters, Phases, Early, Fresh, Residue
<1>5. Data(t, line)'
  BY <1>1, <1>3, QuietData DEF Inv, MessagesOf
<1> QED
  BY <1>4, <1>5 DEF Inv

LEMMA SendFailingStep == Inv /\ SendFails => Inv'
<1> SUFFICES ASSUME Inv, SendFails PROVE Inv'
  OBVIOUS
<1>1. /\ stage = "sent" /\ stage' = "failed" /\ t' = t
      /\ UNCHANGED <<options, round, reopened, read, finished, line, asked, answered, written>>
      /\ UNCHANGED <<kind, psk, recvLimit>>
  BY DEF SendFails, reader, options, device
<1>2. Sound(t) /\ ~Busy(t, "handshake") /\ "message" \in Slots /\ "handshake" \in Slots
  BY <1>1 DEF Inv, Control, Waiters, Slots
<1>3. Control'
  BY <1>1, <1>2 DEF Inv, Control, Scalars, Waiters, Phases, Early, Fresh, Residue
<1>4. Data(t, line)'
  BY <1>1, QuietData DEF Inv, MessagesOf
<1> QED
  BY <1>3, <1>4 DEF Inv

\* The code of the handshake resumes with a frame or an error.
LEMMA Resuming ==
  ASSUME Inv, stage = "waiting", t.given.handshake # None
  PROVE  LET d == Taken(t, "handshake") IN
         /\ Sound(d) /\ d.phase = t.phase /\ d.recvBuffer = t.recvBuffer /\ d.rx = t.rx
         /\ d.terminated = t.terminated /\ d.queue = t.queue
         /\ ~Busy(d, "handshake") /\ ~Busy(d, "message")
         /\ Unread(d, "message") = Unread(t, "message")
         /\ Unread(d, "handshake") \in Seq(Frames)
         /\ Len(Unread(t, "handshake")) = Len(Held(t, "handshake")) + Len(Unread(d, "handshake"))
         /\ Unread(t, "handshake") = <<>> => Unread(d, "handshake") = <<>>
         /\ Holds("value") => Len(Held(t, "handshake")) = 1
<1> DEFINE d == Taken(t, "handshake")
<1>1. "handshake" \in Slots /\ "message" \in Slots /\ t \in Transports /\ Sound(t) /\ ~Busy(t, "message")
  BY DEF Slots, Inv, Control, Sound, Waiters
<1>2. /\ Sound(d) /\ d.phase = t.phase /\ d.recvBuffer = t.recvBuffer /\ d.rx = t.rx
      /\ d.terminated = t.terminated /\ ~Busy(d, "handshake") /\ d.queue = t.queue
      /\ Unread(d, "handshake") = t.queue["handshake"]
      /\ Unread(t, "handshake") = Held(t, "handshake") \o t.queue["handshake"]
      /\ Unread(d, "message") = Unread(t, "message") /\ Busy(d, "message") = Busy(t, "message")
  <2>1. t.given["handshake"] # None
    OBVIOUS
  <2> QED
    BY <1>1, <2>1, TakenIsSound
<1> HIDE DEF d
<1>3. t.queue["handshake"] \in Seq(Frames)
  BY <1>1, FieldsOf
<1>4. /\ Held(t, "handshake") \in Seq(Frames)
      /\ Len(Unread(t, "handshake")) = Len(Held(t, "handshake")) + Len(Unread(d, "handshake"))
  BY <1>1, <1>2, HeldIsShort
<1>5. Unread(t, "handshake") = <<>> => Unread(d, "handshake") = <<>>
  <2>1. SUFFICES ASSUME Unread(t, "handshake") = <<>> PROVE Unread(d, "handshake") = <<>>
    OBVIOUS
  <2>2. Len(Unread(t, "handshake")) = 0 /\ Len(Unread(d, "handshake")) \in Nat /\ Len(Held(t, "handshake")) \in Nat
    BY <1>2, <1>3, <1>4, <2>1
  <2>3. Len(Unread(d, "handshake")) = 0
    BY <1>4, <2>2
  <2> QED
    BY <1>2, <1>3, <2>3, EmptySeq
<1>6. Holds("value") => Len(Held(t, "handshake")) = 1
  BY DEF Holds, Held
<1> QED
  BY <1>1, <1>2, <1>3, <1>4, <1>5, <1>6 DEF d

LEMMA FailingStep == Inv /\ HandshakeFails => Inv'
<1> SUFFICES ASSUME Inv, HandshakeFails PROVE Inv'
  OBVIOUS
<1>1. /\ stage = "waiting" /\ t.given.handshake # None /\ stage' = "failed" /\ t' = Taken(t, "handshake")
      /\ UNCHANGED <<options, round, reopened, read, finished, line, asked, answered, written>>
      /\ UNCHANGED <<kind, psk, recvLimit>>
  BY DEF HandshakeFails, Holds, reader, options, device
<1>2. /\ Sound(t') /\ t'.phase = t.phase /\ t'.recvBuffer = t.recvBuffer /\ t'.rx = t.rx
      /\ t'.terminated = t.terminated
      /\ ~Busy(t', "handshake") /\ ~Busy(t', "message")
      /\ Unread(t', "message") = Unread(t, "message")
      /\ Unread(t, "handshake") = <<>> => Unread(t', "handshake") = <<>>
  BY <1>1, Resuming
<1>3. Control'
  BY <1>1, <1>2 DEF Inv, Control, Scalars, Waiters, Phases, Early, Fresh, Residue
<1>4. Data(t, line)'
  BY <1>1, <1>2, QuietData DEF Inv, MessagesOf
<1> QED
  BY <1>3, <1>4 DEF Inv

LEMMA TimingOutStep == Inv /\ HandshakeTimesOut => Inv'
<1> SUFFICES ASSUME Inv, HandshakeTimesOut PROVE Inv'
  OBVIOUS
<1>1. /\ stage = "waiting" /\ stage' = "failed" /\ t' = [t EXCEPT !.parked = @ \ {"handshake"}]
      /\ "handshake" \in t.parked
      /\ UNCHANGED <<options, round, reopened, read, finished, line, asked, answered, written>>
      /\ UNCHANGED <<kind, psk, recvLimit>>
  BY DEF HandshakeTimesOut, reader, options, device
<1>2. t \in Transports /\ Sound(t)
  BY DEF Inv, Control, Sound
<1>3. /\ t' \in Transports /\ t'.phase = t.phase /\ t'.recvBuffer = t.recvBuffer /\ t'.rx = t.rx
      /\ t'.terminated = t.terminated /\ t'.queue = t.queue /\ t'.given = t.given
      /\ t'.parked = t.parked \ {"handshake"}
  BY <1>1, <1>2 DEF Transports
<1>4. /\ Sound(t') /\ ~Busy(t', "handshake") /\ Busy(t', "message") = Busy(t, "message")
      /\ Unread(t', "message") = Unread(t, "message")
      /\ Unread(t', "handshake") = Unread(t, "handshake")
  <2>1. t.given["handshake"] = None
    BY <1>1, <1>2 DEF Sound
  <2>2. ~Busy(t', "handshake") /\ (Busy(t', "message") <=> Busy(t, "message"))
    BY <1>3, <2>1 DEF Busy
  <2>3. Sound(t')
    BY <1>2, <1>3 DEF Sound
  <2>4. /\ Unread(t', "message") = Unread(t, "message")
        /\ Unread(t', "handshake") = Unread(t, "handshake")
    BY <1>3 DEF Unread, Held
  <2> QED
    BY <2>2, <2>3, <2>4 DEF Busy
<1>5. Control'
  BY <1>1, <1>3, <1>4 DEF Inv, Control, Scalars, Waiters, Phases, Early, Fresh, Residue
<1>6. Data(t, line)'
  BY <1>1, <1>3, <1>4, QuietData DEF Inv, MessagesOf
<1> QED
  BY <1>5, <1>6 DEF Inv

LEMMA FallingBackStep == Inv /\ FallBack => Inv'
<1> SUFFICES ASSUME Inv, FallBack PROVE Inv'
  OBVIOUS
<1>1. /\ stage = "waiting" /\ t' = Opened /\ stage' = "start" /\ round' = 1 /\ reopened' = TRUE
      /\ line' = <<>> /\ asked' = 0 /\ answered' = 0 /\ written' = 0
      /\ UNCHANGED <<kind, psk, recvLimit, read, finished>>
  BY DEF FallBack, Holds, options, reader
<1>2. read = <<>>
  BY <1>1 DEF Inv, Control, Phases, Early, Scalars, Sound, Transports
<1>3. Scalars'
  <2>1. <<>> \in Seq(Units) /\ 0 \in 0..MaxMessages /\ TRUE \in BOOLEAN
    BY TransportAssumption
  <2> QED
    BY <1>1, <2>1 DEF Inv, Control, Scalars
<1>4. Control'
  BY <1>1, <1>2, <1>3, OpenedIsSound, SlotsAre DEF Control, Waiters, Phases, Early, Fresh, Residue
<1>5. /\ t'.recvBuffer = <<>> /\ t'.phase = "plaintext" /\ t'.terminated = None /\ t'.rx = 0
      /\ Unread(t', "message") = <<>> /\ Unread(t', "handshake") = <<>> /\ read' = <<>>
  BY <1>1, <1>2, OpenedIsSound, SlotsAre
<1>6. Data(t, line)'
  <2>1. MessagesOf(t)' = <<>> /\ Len(<<>>) = 0 /\ None \notin Faults
    <3>1. <<>> \o <<>> = <<>> /\ Len(<<>>) = 0
      OBVIOUS
    <3> QED
      BY <1>5, <3>1, NoneAssumption DEF MessagesOf, Causes
  <2>2. Joined(t, line)' = <<>> /\ Coming(t, line)' = 0
    BY <1>1, <1>5, NothingSent
  <2>3. Ordered(t)' /\ Nonces(t)' /\ WholeFrames(t, line)'
    BY <1>5, <2>1, <2>2 DEF Ordered, Nonces, WholeFrames
  <2>4. PlainStream(t, line)'
    BY <1>1, <1>5, <2>1, <2>2 DEF PlainStream
  <2>5. PlainDevice(t, line)' /\ NoiseDevice(t, line)' /\ Understood(t)'
    BY <1>5, <2>1, <2>2 DEF PlainDevice, NoiseDevice, Understood
  <2> QED
    BY <2>3, <2>4, <2>5 DEF Data
<1> QED
  BY <1>4, <1>6 DEF Inv

LEMMA StayingStep == Inv /\ StayInPlaintext => Inv'
<1> SUFFICES ASSUME Inv, StayInPlaintext PROVE Inv'
  OBVIOUS
<1>1. /\ stage = "start" /\ (psk => reopened) /\ t' = t
      /\ stage' = IF t.terminated = None THEN "plain" ELSE "failed"
      /\ UNCHANGED <<options, round, reopened, read, finished, line, asked, answered, written>>
      /\ UNCHANGED <<kind, psk, recvLimit>>
  BY DEF StayInPlaintext, reader, options, device
<1>2. t.phase = "plaintext"
  BY <1>1 DEF Inv, Control, Fresh
<1>3. Scalars' /\ Sound(t)' /\ Waiters' /\ Early' /\ Fresh' /\ Residue'
  BY <1>1, <1>2 DEF Inv, Control, Scalars, Waiters, Early, Fresh, Residue, Busy, Unread, Held, Sound
<1>4. Phases'
  BY <1>1, <1>2 DEF Inv, Control, Phases
<1>5. Data(t, line)'
  BY <1>1, <1>2, QuietData DEF Inv, MessagesOf, Unread, Held
<1> QED
  BY <1>3, <1>4, <1>5 DEF Inv, Control

LEMMA HelloStep == Inv /\ HelloAccepted => Inv'
<1> SUFFICES ASSUME Inv, HelloAccepted PROVE Inv'
  OBVIOUS
<1>1. /\ stage = "waiting" /\ t.given.handshake # None /\ Holds("value") /\ t' = Taken(t, "handshake")
      /\ round = 1
      /\ UNCHANGED <<options, reopened, read, finished, line, answered, written>>
      /\ UNCHANGED <<kind, psk, recvLimit>>
  BY DEF HelloAccepted, Holds, reader, options
<1>2. /\ Sound(t') /\ t'.phase = t.phase /\ t'.recvBuffer = t.recvBuffer /\ t'.rx = t.rx
      /\ t'.terminated = t.terminated
      /\ ~Busy(t', "handshake") /\ ~Busy(t', "message")
      /\ Unread(t', "message") = Unread(t, "message")
      /\ Unread(t', "handshake") \in Seq(Frames)
      /\ Len(Unread(t, "handshake")) = 1 + Len(Unread(t', "handshake"))
      /\ Unread(t, "handshake") = <<>> => Unread(t', "handshake") = <<>>
  BY <1>1, Resuming
<1>3. CASE t.terminated # None
  <2>1. stage' = "failed" /\ round' = round /\ asked' = asked
    BY <1>3 DEF HelloAccepted
  <2>2. Control'
    BY <1>1, <1>2, <1>3, <2>1 DEF Inv, Control, Scalars, Waiters, Phases, Early, Fresh, Residue
  <2>3. Data(t, line)'
    BY <1>1, <1>2, <2>1, QuietData DEF Inv, MessagesOf
  <2> QED
    BY <2>2, <2>3 DEF Inv
<1>4. CASE t.terminated = None
  <2>1. stage' = "sent" /\ round' = 2 /\ asked' = 2
    BY <1>4 DEF HelloAccepted
  <2>2. t.phase = "noise-handshake"
    BY <1>1, <1>4 DEF Inv, Control, Phases, Sound, Transports
  <2>3. Control'
    BY <1>1, <1>2, <1>4, <2>1, <2>2 DEF Inv, Control, Scalars, Waiters, Phases, Early, Fresh, Residue
  <2>4. /\ MessagesOf(t)' = MessagesOf(t) /\ Joined(t, line)' = Joined(t, line)
        /\ Coming(t, line)' = Coming(t, line) /\ Honest' = Honest
        /\ \A i : FrameOf(t, line, i)' = FrameOf(t, line, i)
    BY <1>1, <1>2 DEF MessagesOf, Joined, Coming, FrameOf, Honest
  <2>5. Ordered(t)' /\ Nonces(t)' /\ WholeFrames(t, line)' /\ PlainStream(t, line)' /\ Understood(t)'
    BY <1>1, <1>2, <2>2, <2>4 DEF Inv, Data, Ordered, Nonces, WholeFrames, PlainStream, Understood
  <2>6. kind # "plain"
    <3>1. Len(<<>>) = 0 /\ Len(Unread(t', "handshake")) \in Nat
      BY <1>2
    <3>2. Len(Unread(t, "handshake")) # 0
      BY <1>2, <3>1
    <3> QED
      BY <3>1, <3>2 DEF Inv, Data, PlainDevice
  <2>7. NoiseDevice(t, line)'
    <3> SUFFICES ASSUME kind = "noise"
                 PROVE  /\ \A i \in 1..Coming(t, line) :
                             FrameOf(t, line, i).wire = "noise" /\ ~FrameOf(t, line, i).huge
                        /\ Coming(t, line) + Len(Unread(t', "handshake")) + 2 = answered + 1
                        /\ written = 0
      BY <1>1, <1>2, <2>1, <2>2, <2>4 DEF NoiseDevice
    <3>1. /\ \A i \in 1..Coming(t, line) :
               FrameOf(t, line, i).wire = "noise" /\ ~FrameOf(t, line, i).huge
          /\ Coming(t, line) + Len(Unread(t, "handshake")) + 1 = answered + 1
          /\ written = 0
      BY <1>1, <1>4, <2>2 DEF Inv, Data, NoiseDevice
    <3>2. Coming(t, line) \in Nat /\ Len(Unread(t', "handshake")) \in Nat /\ answered \in Nat
      BY <1>2, JoinedIsTyped DEF Inv, Control, Scalars, Sound
    <3>3. Coming(t, line) + Len(Unread(t', "handshake")) + 2 = answered + 1
      BY <1>2, <3>1, <3>2
    <3> QED
      BY <3>1, <3>3
  <2> QED
    BY <1>1, <2>3, <2>5, <2>6, <2>7 DEF Inv, Data, PlainDevice
<1> QED
  BY <1>3, <1>4

LEMMA ReplyStep == Inv /\ ReplyAccepted => Inv'
<1> SUFFICES ASSUME Inv, ReplyAccepted PROVE Inv'
  OBVIOUS
<1> DEFINE e == Taken(t, "handshake")
           c == [e EXCEPT !.phase = "noise-data", !.queue.handshake = <<>>]
<1>1. /\ stage = "waiting" /\ t.given.handshake # None /\ Holds("value") /\ t' = Drained(c)
      /\ round = 2 /\ stage' = "keyed"
      /\ UNCHANGED <<options, round, reopened, read, finished, line, asked, answered, written>>
      /\ UNCHANGED <<kind, psk, recvLimit>>
  BY DEF ReplyAccepted, CipherInstalled, Holds, reader, options, device
<1>2. /\ Sound(e) /\ e.phase = t.phase /\ e.recvBuffer = t.recvBuffer /\ e.rx = t.rx
      /\ e.terminated = t.terminated
      /\ ~Busy(e, "handshake") /\ ~Busy(e, "message")
      /\ Unread(e, "message") = Unread(t, "message")
      /\ Unread(e, "handshake") \in Seq(Frames)
      /\ Len(Unread(t, "handshake")) = 1 + Len(Unread(e, "handshake"))
  BY <1>1, Resuming
<1> HIDE DEF e
<1>3. /\ t.phase = "noise-handshake" /\ t.rx = 0 /\ read = <<>> /\ Unread(t, "message") = <<>>
      /\ t \in Transports /\ line \in Seq(Units) /\ written \in Nat /\ answered \in 0..2 /\ asked \in 0..2
      /\ answered <= asked /\ read \in Seq(Frames) /\ round \in Nat
  BY <1>1, TransportAssumption DEF Inv, Control, Phases, Early, Scalars, Sound, Transports, Data, Nonces
<1>4. e \in Transports
  BY <1>2 DEF Sound
<1>5. /\ c.phase = "noise-data" /\ c.recvBuffer = t.recvBuffer /\ c.rx = 0
      /\ c.terminated = t.terminated /\ c.parked = e.parked /\ c.given = e.given
      /\ c.queue = [e.queue EXCEPT !["handshake"] = <<>>] /\ c \in Transports
  BY <1>2, <1>3, <1>4 DEF Transports
<1> HIDE DEF c
<1>6. c.queue["handshake"] = <<>> /\ c.queue["message"] = e.queue["message"]
  BY <1>4, <1>5, FieldsOf, SlotsAre
<1>7. /\ ~Busy(c, "handshake") /\ ~Busy(c, "message")
      /\ Unread(c, "message") = <<>> /\ Unread(c, "handshake") = <<>> /\ Sound(c)
  <2>1. ~Busy(c, "handshake") /\ ~Busy(c, "message") /\ Unread(c, "message") = Unread(e, "message")
    BY <1>2, <1>5, <1>6 DEF Busy, Unread, Held
  <2>2. Unread(c, "handshake") = <<>>
    BY <1>6, <2>1, EmptyUnread DEF Busy
  <2>3. Sound(c)
    BY <1>5, <2>1, FieldsOf, SlotsAre DEF Sound, Busy
  <2> QED
    BY <1>2, <1>3, <2>1, <2>2, <2>3
<1>8. MessagesOf(c) = <<>> /\ Len(<<>>) = 0 /\ MessagesOf(t) = <<>>
  <2>1. <<>> \o <<>> = <<>> /\ Len(<<>>) = 0
    OBVIOUS
  <2> QED
    BY <1>3, <1>7, <2>1 DEF MessagesOf
<1>9. Len(Unread(t, "handshake")) \in Nat /\ Len(Unread(t, "handshake")) >= 1
  BY <1>2
<1>10. kind # "plain"
  BY <1>8, <1>9 DEF Inv, Data, PlainDevice
<1>11. /\ Joined(c, line) = Joined(t, line) /\ Coming(c, line) = Coming(t, line)
       /\ \A i : FrameOf(c, line, i) = FrameOf(t, line, i)
  BY <1>5 DEF Joined, Coming, FrameOf
<1>12. kind = "noise" /\ t.terminated = None => Coming(t, line) = 0 /\ answered = asked /\ written = 0
  <2> SUFFICES ASSUME kind = "noise", t.terminated = None
               PROVE  Coming(t, line) = 0 /\ answered = asked /\ written = 0
    OBVIOUS
  <2>1. Coming(t, line) + Len(Unread(t, "handshake")) + 2 = answered + 1 /\ written = 0
    BY <1>1, <1>3 DEF Inv, Data, NoiseDevice
  <2>2. Coming(t, line) \in Nat
    BY <1>3, JoinedIsTyped
  <2> QED
    BY <1>3, <1>9, <2>1, <2>2
<1>13. Data(c, line)
  <2>1. Ordered(c) /\ Nonces(c)
    BY <1>5, <1>8 DEF Ordered, Nonces
  <2>2. WholeFrames(c, line) /\ Understood(c)
    BY <1>5, <1>11 DEF Inv, Data, WholeFrames, Understood
  <2>3. PlainStream(c, line) /\ PlainDevice(c, line)
    BY <1>5, <1>10 DEF PlainStream, PlainDevice
  <2>4. NoiseDevice(c, line)
    BY <1>5, <1>11, <1>12 DEF NoiseDevice
  <2> QED
    BY <2>1, <2>2, <2>3, <2>4 DEF Data
<1>14. /\ Data(t', line) /\ Sound(t') /\ t'.phase = "noise-data"
       /\ ~Busy(t', "handshake") /\ ~Busy(t', "message")
       /\ t'.terminated = None => Len(t'.recvBuffer) <= 1
  <2>1. CASE c.terminated # None
    <3>1. t' = c
      BY <1>1, <2>1 DEF Drained
    <3> QED
      BY <1>5, <1>7, <1>13, <2>1, <3>1
  <2>2. CASE c.terminated = None
    <3>1. PICK k : Drains(c, t', k)
      BY <1>1, <1>7, <2>2, Draining
    <3>2. Sound(t') /\ t'.phase = c.phase /\ \A s \in Slots : Busy(t', s) = Busy(c, s)
      BY <3>1 DEF Drains
    <3>3. Data(t', line) /\ (t'.terminated = None => Len(t'.recvBuffer) <= 1)
      BY <1>3, <1>7, <1>13, <2>2, <3>1, DrainKeeps
    <3> QED
      BY <1>5, <1>7, <3>2, <3>3, SlotsAre
  <2> QED
    BY <2>1, <2>2
<1>15. Control'
  BY <1>1, <1>14 DEF Inv, Control, Scalars, Waiters, Phases, Early, Fresh, Residue, Data, Nonces
<1>16. Data(t, line)'
  <2>1. /\ MessagesOf(t)' = MessagesOf(t') /\ Joined(t, line)' = Joined(t', line)
        /\ Coming(t, line)' = Coming(t', line) /\ Honest' = Honest
        /\ \A i : FrameOf(t, line, i)' = FrameOf(t', line, i)
    BY <1>1 DEF MessagesOf, Joined, Coming, FrameOf, Honest
  <2>2. Ordered(t)' /\ Nonces(t)' /\ WholeFrames(t, line)' /\ PlainStream(t, line)' /\ Understood(t)'
    BY <1>1, <1>14, <2>1 DEF Data, Ordered, Nonces, WholeFrames, PlainStream, Understood
  <2>3. PlainDevice(t, line)'
    BY <1>1, <1>10 DEF PlainDevice
  <2>4. NoiseDevice(t, line)'
    BY <1>1, <1>14, <2>1 DEF Data, NoiseDevice
  <2> QED
    BY <2>2, <2>3, <2>4 DEF Data
<1> QED
  BY <1>15, <1>16 DEF Inv

-----------------------------------------------------------------------------
(* The steps of the reader, of the socket and of the device. *)

LEMMA ReadingStep == Inv /\ ReadNext => Inv'
<1> SUFFICES ASSUME Inv, ReadNext PROVE Inv'
  OBVIOUS
<1>1. /\ stage \in {"keyed", "plain"} /\ finished = "no" /\ t' = NextMessage(t)
      /\ ~Busy(t, "message")
      /\ UNCHANGED <<options, stage, round, reopened, read, finished, line, asked, answered, written>>
      /\ UNCHANGED <<kind, psk, recvLimit>>
  BY DEF ReadNext, Reading, Busy, reader, options, device, flow
<1>2. Sound(t) /\ "message" \in Slots /\ "handshake" \in Slots
  BY DEF Inv, Control, Slots
<1>3. /\ Sound(t') /\ t'.phase = t.phase /\ t'.recvBuffer = t.recvBuffer /\ t'.rx = t.rx
      /\ t'.terminated = t.terminated
      /\ Unread(t', "message") = Unread(t, "message") /\ Unread(t', "handshake") = Unread(t, "handshake")
      /\ Busy(t', "message") /\ Busy(t', "handshake") = Busy(t, "handshake")
  BY <1>1, <1>2, NextIsSound DEF Awaited
<1>4. Control'
  BY <1>1, <1>3 DEF Inv, Control, Scalars, Waiters, Phases, Early, Fresh, Residue
<1>5. Data(t, line)'
  BY <1>1, <1>3, QuietData DEF Inv, MessagesOf
<1> QED
  BY <1>4, <1>5 DEF Inv

\* The reader gets the frame that it was given, or the end.
LEMMA GettingStep == Inv /\ ReaderResumes => Inv'
<1> SUFFICES ASSUME Inv, ReaderResumes PROVE Inv'
  OBVIOUS
<1>1. /\ t.given["message"] # None /\ t' = Taken(t, "message")
      /\ UNCHANGED <<options, stage, round, reopened, line, asked, answered, written>>
      /\ UNCHANGED <<kind, psk, recvLimit>>
  BY DEF ReaderResumes, options, device, flow
<1>2. Sound(t) /\ t \in Transports /\ "message" \in Slots /\ "handshake" \in Slots /\ read \in Seq(Frames)
  BY DEF Inv, Control, Slots, Sound, Scalars
<1>3. /\ Sound(t') /\ t'.phase = t.phase /\ t'.recvBuffer = t.recvBuffer /\ t'.rx = t.rx
      /\ t'.terminated = t.terminated /\ ~Busy(t', "message")
      /\ Unread(t', "message") = t.queue["message"]
      /\ Unread(t, "message") = Held(t, "message") \o t.queue["message"]
      /\ Unread(t', "handshake") = Unread(t, "handshake") /\ Busy(t', "handshake") = Busy(t, "handshake")
  BY <1>1, <1>2, TakenIsSound
<1>4. stage \in {"keyed", "plain"} /\ t.phase # "noise-handshake" /\ stage # "start" /\ finished = "no"
  BY <1>1 DEF Inv, Control, Waiters, Phases, Busy
<1>5. t.queue["message"] \in Seq(Frames) /\ t.given["message"] \in Outcomes
  BY <1>1, <1>2, FieldsOf
<1>6. /\ read' \in Seq(Frames) /\ finished' \in {"no", "done", "error"}
      /\ MessagesOf(t)' = MessagesOf(t)
  <2>1. CASE t.given["message"].how = "value"
    <3> DEFINE f == t.given["message"].frame
               q == t.queue["message"]
    <3>1. f \in Frames
      BY <1>5, <2>1 DEF Outcomes, Done
    <3>2. read' = Append(read, f) /\ finished' = finished /\ Held(t, "message") = <<f>>
      BY <1>1, <2>1 DEF ReaderResumes, Held
    <3>3. q \in Seq(Frames) /\ <<f>> \in Seq(Frames)
      BY <1>5, <3>1
    <3>4. MessagesOf(t) = read \o (<<f>> \o q) /\ MessagesOf(t)' = Append(read, f) \o q
      BY <1>3, <3>2 DEF MessagesOf
    <3> HIDE DEF f, q
    <3>5. Append(read, f) = read \o <<f>> /\ Append(read, f) \in Seq(Frames)
      BY ONLY <1>2, <3>1, AppendIsConcat, AppendProperties
    <3>6. (read \o <<f>>) \o q = read \o (<<f>> \o q)
      BY ONLY <1>2, <3>3, ConcatAssociative
    <3> QED
      BY <1>4, <3>2, <3>4, <3>5, <3>6
  <2>2. CASE t.given["message"].how # "value"
    <3>1. read' = read /\ finished' = t.given["message"].how /\ Held(t, "message") = <<>>
      BY <2>2 DEF ReaderResumes, Held
    <3>2. <<>> \o t.queue["message"] = t.queue["message"]
      BY ONLY <1>5, ConcatEmptySeq
    <3>3. finished' \in {"no", "done", "error"}
      BY <1>5, <2>2, <3>1 DEF Outcomes, Done
    <3> QED
      BY <1>2, <1>3, <3>1, <3>2, <3>3 DEF MessagesOf
  <2> QED
    BY <2>1, <2>2
<1>7. Control'
  BY <1>1, <1>3, <1>4, <1>6 DEF Inv, Control, Scalars, Waiters, Phases, Early, Fresh, Residue
<1>8. Data(t, line)'
  BY <1>1, <1>3, <1>4, <1>6, QuietData DEF Inv
<1> QED
  BY <1>7, <1>8 DEF Inv

LEMMA ReturningStep == Inv /\ ReaderReturns => Inv'
<1> SUFFICES ASSUME Inv, ReaderReturns PROVE Inv'
  OBVIOUS
<1>1. /\ ~Busy(t, "message") /\ finished' = "done" /\ t' = t
      /\ UNCHANGED <<options, stage, round, reopened, read, line, asked, answered, written>>
      /\ UNCHANGED <<kind, psk, recvLimit>>
  BY DEF ReaderReturns, Busy, options, device, flow
<1>2. Control'
  BY <1>1 DEF Inv, Control, Scalars, Waiters, Phases, Early, Fresh, Residue, Sound, Busy, Unread, Held
<1>3. Data(t, line)'
  BY <1>1, QuietData DEF Inv, MessagesOf, Unread, Held
<1> QED
  BY <1>2, <1>3 DEF Inv

\* dispose(), "close" and "error" end the transport.
LEMMA EndingStep ==
  ASSUME Inv, NEW cause \in Causes \ Faults, t' = Failed(t, cause),
         UNCHANGED <<options, flow, reader, device>>
  PROVE  Inv'
<1>1. /\ UNCHANGED <<options, stage, round, reopened, read, finished, line, asked, answered, written>>
      /\ UNCHANGED <<kind, psk, recvLimit>>
  BY DEF options, flow, reader, device
<1>2. Sound(t) /\ "message" \in Slots /\ "handshake" \in Slots /\ cause \in Causes /\ cause # None
  BY NoneAssumption DEF Inv, Control, Slots
<1>3. /\ Sound(t') /\ t'.phase = t.phase /\ t'.recvBuffer = t.recvBuffer /\ t'.rx = t.rx
      /\ t'.terminated = IF t.terminated # None THEN t.terminated ELSE cause
      /\ Unread(t', "message") = Unread(t, "message") /\ Unread(t', "handshake") = Unread(t, "handshake")
      /\ Busy(t', "message") = Busy(t, "message") /\ Busy(t', "handshake") = Busy(t, "handshake")
  BY <1>2, FailedIsSound
<1>4. Control'
  BY <1>1, <1>2, <1>3 DEF Inv, Control, Scalars, Waiters, Phases, Early, Fresh, Residue
<1>5. Data(t, line)'
  BY <1>1, <1>2, <1>3, QuietData DEF Inv, MessagesOf
<1> QED
  BY <1>4, <1>5 DEF Inv

\* A piece of what the device sent, of any size.
LEMMA PieceJoins ==
  ASSUME NEW b \in Seq(Units), NEW l \in Seq(Units), NEW n \in Nat, n <= Len(l)
  PROVE  /\ SubSeq(l, 1, n) \in Seq(Units) /\ Len(SubSeq(l, 1, n)) = n
         /\ SubSeq(l, n + 1, Len(l)) \in Seq(Units)
         /\ b \o SubSeq(l, 1, n) \in Seq(Units)
         /\ Len(b \o SubSeq(l, 1, n)) = Len(b) + n
         /\ (b \o SubSeq(l, 1, n)) \o SubSeq(l, n + 1, Len(l)) = b \o l
<1> DEFINE p == SubSeq(l, 1, n)
           q == SubSeq(l, n + 1, Len(l))
           m == Len(l)
<1>1. m \in Nat /\ n <= m
  OBVIOUS
<1>2. p \in Seq(Units) /\ Len(p) = n /\ \A i \in 1..n : p[i] = l[i]
  BY <1>1, SubSeqProperties
<1>3. q \in Seq(Units) /\ Len(q) = m - n /\ \A i \in 1..m - n : q[i] = l[n + i]
  BY <1>1, SubSeqProperties
<1> HIDE DEF p, q
<1>4. /\ p \o q \in Seq(Units) /\ Len(p \o q) = m
      /\ \A i \in 1..m : (p \o q)[i] = IF i <= n THEN p[i] ELSE q[i - n]
  <2>1. p \in Seq(Units) /\ q \in Seq(Units)
    BY <1>2, <1>3
  <2>2. /\ p \o q \in Seq(Units) /\ Len(p \o q) = Len(p) + Len(q)
        /\ \A i \in 1..Len(p) + Len(q) : (p \o q)[i] = IF i <= Len(p) THEN p[i] ELSE q[i - Len(p)]
    BY ONLY <2>1, ConcatProperties
  <2>3. Len(p) = n /\ Len(p) + Len(q) = m
    BY <1>1, <1>2, <1>3
  <2> QED
    BY <2>2, <2>3
<1>5. ASSUME NEW i \in 1..m PROVE (p \o q)[i] = l[i]
  <2>1. CASE i <= n
    <3>1. i \in 1..n
      BY <1>1, <2>1
    <3> QED
      BY <1>2, <1>4, <2>1, <3>1
  <2>2. CASE ~(i <= n)
    <3>1. i - n \in 1..m - n /\ n + (i - n) = i
      BY <1>1, <2>2
    <3> QED
      BY <1>3, <1>4, <2>2, <3>1
  <2> QED
    BY <2>1, <2>2
<1>6. p \o q = l
  BY <1>1, <1>4, <1>5, SeqEqual
<1>7. (b \o p) \o q = b \o (p \o q) /\ b \o p \in Seq(Units) /\ Len(b \o p) = Len(b) + n
  <2>1. p \in Seq(Units) /\ q \in Seq(Units) /\ Len(p) = n
    BY <1>2, <1>3
  <2>2. (b \o p) \o q = b \o (p \o q)
    BY ONLY <2>1, ConcatAssociative, b \in Seq(Units)
  <2>3. b \o p \in Seq(Units) /\ Len(b \o p) = Len(b) + Len(p)
    BY ONLY <2>1, ConcatProperties, b \in Seq(Units)
  <2> QED
    BY <2>1, <2>2, <2>3
<1> QED
  BY <1>2, <1>3, <1>6, <1>7 DEF p, q

LEMMA ArrivingStep == Inv /\ (\E n \in 1..MaxChunk : DataArrives(n)) => Inv'
<1> SUFFICES ASSUME Inv, NEW n \in 1..MaxChunk, DataArrives(n) PROVE Inv'
  OBVIOUS
<1> DEFINE units == SubSeq(line, 1, n)
           c == [t EXCEPT !.recvBuffer = @ \o units]
<1>1. /\ Settled /\ t.terminated = None /\ n <= Len(line) /\ t' = Received(t, units)
      /\ line' = SubSeq(line, n + 1, Len(line))
      /\ UNCHANGED <<options, stage, round, reopened, read, finished, asked, answered, written>>
      /\ UNCHANGED <<kind, psk, recvLimit>>
  BY DEF DataArrives, options, reader, flow
<1>2. /\ n \in Nat /\ n <= MaxChunk /\ MaxChunk \in Nat /\ t \in Transports /\ line \in Seq(Units)
      /\ Sound(t) /\ t.recvBuffer \in Seq(Units) /\ Len(t.recvBuffer) \in Nat /\ Len(t.recvBuffer) <= 1
      /\ read \in Seq(Frames) /\ written \in Nat /\ answered \in Nat /\ round \in Nat
      /\ "message" \in Slots /\ "handshake" \in Slots
  BY <1>1, TransportAssumption, FieldsOf DEF Inv, Control, Sound, Scalars, Residue, Slots
<1>3. /\ units \in Seq(Units) /\ Len(units) = n /\ line' \in Seq(Units)
      /\ t.recvBuffer \o units \in Seq(Units)
      /\ Len(t.recvBuffer \o units) = Len(t.recvBuffer) + n
      /\ (t.recvBuffer \o units) \o line' = t.recvBuffer \o line
  BY <1>1, <1>2, PieceJoins
<1> HIDE DEF units
<1>4. stage # "start"
  BY <1>1, <1>2 DEF Inv, Control, Fresh
<1>5. CASE Len(t.recvBuffer) + Len(units) > recvLimit
  <2>1. t' = Failed(t, "RECV_BUFFER_OVERFLOW") /\ "RECV_BUFFER_OVERFLOW" \in Causes
        /\ "RECV_BUFFER_OVERFLOW" # None
    BY <1>1, <1>5, NoneAssumption DEF Received, Causes, Faults
  <2>2. /\ Sound(t') /\ t'.phase = t.phase /\ t'.recvBuffer = t.recvBuffer /\ t'.rx = t.rx
        /\ t'.terminated # None
        /\ Unread(t', "message") = Unread(t, "message") /\ Unread(t', "handshake") = Unread(t, "handshake")
        /\ Busy(t', "message") = Busy(t, "message") /\ Busy(t', "handshake") = Busy(t, "handshake")
    BY <1>1, <1>2, <2>1, FailedIsSound
  <2>3. Control'
    BY <1>1, <1>3, <1>4, <2>2 DEF Inv, Control, Scalars, Waiters, Phases, Early, Fresh, Residue
  <2>4. ~(recvLimit > MaxChunk)
    BY <1>2, <1>3, <1>5, TransportAssumption DEF Inv, Control, Scalars
  <2>5. MessagesOf(t)' = MessagesOf(t)
    BY <1>1, <2>2 DEF MessagesOf
  <2>6. Ordered(t)' /\ Nonces(t)' /\ WholeFrames(t, line)' /\ PlainStream(t, line)'
    BY <2>2, <2>5 DEF Inv, Data, Ordered, Nonces, WholeFrames, PlainStream
  <2>7. PlainDevice(t, line)' /\ NoiseDevice(t, line)' /\ Understood(t)'
    BY <1>1, <2>2, <2>4 DEF Inv, Data, PlainDevice, NoiseDevice, Understood
  <2> QED
    BY <2>3, <2>6, <2>7 DEF Inv, Data
<1>6. CASE ~(Len(t.recvBuffer) + Len(units) > recvLimit)
  <2>1. t' = Drained(c)
    BY <1>1, <1>6 DEF Received
  <2>2. /\ c.phase = t.phase /\ c.recvBuffer = t.recvBuffer \o units /\ c.rx = t.rx
        /\ c.terminated = None /\ c.parked = t.parked /\ c.given = t.given /\ c.queue = t.queue
        /\ c \in Transports
    BY <1>1, <1>2, <1>3 DEF Transports
  <2> HIDE DEF c
  <2>3. Sound(c) /\ \A s \in Slots : Unread(c, s) = Unread(t, s) /\ Busy(c, s) = Busy(t, s)
    BY <1>2, <2>2 DEF Sound, Unread, Held, Busy
  <2>4. /\ MessagesOf(c) = MessagesOf(t) /\ Joined(c, line') = Joined(t, line)
        /\ Unread(c, "handshake") = Unread(t, "handshake")
    BY <1>2, <1>3, <2>2, <2>3 DEF MessagesOf, Joined
  <2>5. Coming(c, line') = Coming(t, line) /\ \A i : FrameOf(c, line', i) = FrameOf(t, line, i)
    BY <2>4 DEF Coming, FrameOf
  <2>6. Data(c, line')
    <3>1. Ordered(c) /\ Nonces(c) /\ WholeFrames(c, line') /\ PlainStream(c, line') /\ Understood(c)
      BY <1>1, <2>2, <2>4, <2>5 DEF Inv, Data, Ordered, Nonces, WholeFrames, PlainStream, Understood
    <3>2. PlainDevice(c, line') /\ NoiseDevice(c, line')
      BY <1>1, <2>2, <2>4, <2>5 DEF Inv, Data, PlainDevice, NoiseDevice
    <3> QED
      BY <3>1, <3>2 DEF Data
  <2>7. PICK k : Drains(c, t', k)
    BY <2>1, <2>2, <2>3, Draining
  <2>8. Data(t', line') /\ (t'.terminated = None => Len(t'.recvBuffer) <= 1)
    BY <1>2, <1>3, <2>2, <2>3, <2>6, <2>7, DrainKeeps
  <2>9. /\ Sound(t') /\ t'.phase = t.phase
        /\ Busy(t', "message") = Busy(t, "message") /\ Busy(t', "handshake") = Busy(t, "handshake")
        /\ t.phase = "noise-handshake" => Unread(t', "message") = Unread(t, "message")
        /\ t'.terminated = None => t.terminated = None
    BY <1>1, <1>2, <2>2, <2>3, <2>7 DEF Drains, SlotOf
  <2>10. Control'
    BY <1>1, <1>3, <1>4, <2>8, <2>9 DEF Inv, Control, Scalars, Waiters, Phases, Early, Fresh, Residue
  <2>11. Data(t, line)'
    <3>1. /\ MessagesOf(t)' = MessagesOf(t') /\ Joined(t, line)' = Joined(t', line')
          /\ Coming(t, line)' = Coming(t', line') /\ Honest' = Honest
          /\ \A i : FrameOf(t, line, i)' = FrameOf(t', line', i)
      BY <1>1 DEF MessagesOf, Joined, Coming, FrameOf, Honest
    <3>2. Ordered(t)' /\ Nonces(t)' /\ WholeFrames(t, line)' /\ PlainStream(t, line)' /\ Understood(t)'
      BY <1>1, <2>8, <3>1 DEF Data, Ordered, Nonces, WholeFrames, PlainStream, Understood
    <3>3. PlainDevice(t, line)'
      BY <1>1, <2>8, <3>1 DEF Data, PlainDevice
    <3>4. NoiseDevice(t, line)'
      BY <1>1, <2>8, <3>1 DEF Data, NoiseDevice
    <3> QED
      BY <3>2, <3>3, <3>4 DEF Data
  <2> QED
    BY <2>10, <2>11 DEF Inv
<1> QED
  BY <1>5, <1>6

\* The two units that the device writes for one frame.
UnitsOf(f) == <<[frame |-> f, part |-> "header"], [frame |-> f, part |-> "body"]>>

\* A frame that the device sends comes after those under way.
LEMMA SendingJoins ==
  ASSUME NEW c \in Transports, NEW l \in Seq(Units), NEW f \in Frames,
         NEW m \in Seq(Units), m = l \o UnitsOf(f),
         Len(Joined(c, l)) = 2 * Coming(c, l)
  PROVE  /\ Len(Joined(c, m)) = 2 * Coming(c, m) /\ Coming(c, m) = Coming(c, l) + 1
         /\ FrameOf(c, m, Coming(c, l) + 1) = f
         /\ \A i \in 1..Coming(c, l) : FrameOf(c, m, i) = FrameOf(c, l, i)
<1> DEFINE two == UnitsOf(f)
           j == Joined(c, l)
           N == Coming(c, l)
<1>1. two \in Seq(Units) /\ Len(two) = 2 /\ two[1].frame = f
  BY DEF Units, UnitsOf
<1>2. /\ c.recvBuffer \in Seq(Units) /\ j \in Seq(Units) /\ N \in Nat
  BY FieldsOf, JoinedIsTyped
<1> HIDE DEF two
<1>3. m = l \o two
  BY DEF two
<1>5. Joined(c, m) = j \o two
  <2> DEFINE b == c.recvBuffer
  <2>1. b \in Seq(Units) /\ l \in Seq(Units) /\ Joined(c, m) = b \o (l \o two) /\ j = b \o l
    BY <1>2, <1>3 DEF Joined
  <2> HIDE DEF b, j
  <2>2. b \o (l \o two) = (b \o l) \o two
    <3>1. two \in Seq(Units)
      BY <1>1
    <3> QED
      <4>1. b \in Seq(Units) /\ l \in Seq(Units)
        BY <2>1
      <4> QED
        BY ONLY <3>1, <4>1, UnitsRegroup, Z3
  <2> QED
    BY <2>1, <2>2
<1> HIDE DEF j
<1>6. /\ Len(j \o two) = Len(j) + 2
      /\ \A i \in 1..Len(j) + 2 : (j \o two)[i] = IF i <= Len(j) THEN j[i] ELSE two[i - Len(j)]
  <2>1. /\ Len(j \o two) = Len(j) + Len(two)
        /\ \A i \in 1..Len(j) + Len(two) : (j \o two)[i] = IF i <= Len(j) THEN j[i] ELSE two[i - Len(j)]
    BY ONLY <1>1, <1>2, ConcatProperties
  <2> QED
    BY <1>1, <2>1
<1>7. ASSUME Len(j) = 2 * N
      PROVE  /\ Len(Joined(c, m)) = 2 * (N + 1) /\ Coming(c, m) = N + 1
             /\ FrameOf(c, m, N + 1) = f
             /\ \A i \in 1..N : FrameOf(c, m, i) = FrameOf(c, l, i)
  <2> HIDE DEF N
  <2>1. Len(Joined(c, m)) = 2 * (N + 1)
    <3>1. Len(Joined(c, m)) = Len(j) + 2
      BY <1>5, <1>6
    <3> QED
      BY <1>2, <1>7, <3>1
  <2>2. Coming(c, m) = N + 1
    <3>1. \A x \in Nat : (2 * x) \div 2 = x
      OBVIOUS
    <3>2. N + 1 \in Nat
      BY <1>2
    <3> QED
      BY <2>1, <3>1, <3>2 DEF Coming
  <2>3. FrameOf(c, m, N + 1) = f
    <3>1. 2 * (N + 1) - 1 = 2 * N + 1 /\ 2 * N + 1 \in 1..2 * N + 2 /\ ~(2 * N + 1 <= 2 * N)
          /\ (2 * N + 1) - 2 * N = 1
      BY <1>2
    <3>2. (j \o two)[2 * N + 1] = two[1]
      BY <1>6, <1>7, <3>1
    <3> QED
      BY <1>1, <1>5, <3>1, <3>2 DEF FrameOf
  <2>4. ASSUME NEW i \in 1..N PROVE FrameOf(c, m, i) = FrameOf(c, l, i)
    <3>1. 2 * i - 1 \in 1..2 * N + 2 /\ 2 * i - 1 <= 2 * N
      BY <1>2
    <3>2. (j \o two)[2 * i - 1] = j[2 * i - 1]
      BY <1>6, <1>7, <3>1
    <3> QED
      BY <1>5, <3>2 DEF FrameOf, j
  <2> QED
    BY <2>1, <2>2, <2>3, <2>4
<1> QED
  BY <1>7 DEF j

LEMMA DeviceStep ==
  Inv /\ (\E good, huge \in BOOLEAN : DeviceAnswers(good) \/ DeviceWrites(good, huge)) => Inv'
<1> SUFFICES ASSUME Inv, NEW good \in BOOLEAN, NEW huge \in BOOLEAN,
                    DeviceAnswers(good) \/ DeviceWrites(good, huge)
             PROVE  Inv'
  OBVIOUS
<1>1. /\ t' = t
      /\ UNCHANGED <<options, stage, round, reopened, read, finished, asked>>
      /\ UNCHANGED <<kind, psk, recvLimit>>
  BY DEF DeviceAnswers, DeviceWrites, options, reader, flow
<1>2. /\ t \in Transports /\ line \in Seq(Units) /\ MaxMessages \in Nat /\ answered \in 0..2 /\ asked \in 0..2
      /\ written \in 0..MaxMessages /\ answered <= asked /\ Coming(t, line) \in Nat
      /\ Len(Unread(t, "handshake")) \in Nat /\ round \in Nat /\ t.rx \in Nat
      /\ Len(MessagesOf(t)) \in Nat
  <2>1. /\ t \in Transports /\ line \in Seq(Units) /\ MaxMessages \in Nat /\ answered \in 0..2 /\ asked \in 0..2
        /\ written \in 0..MaxMessages /\ answered <= asked /\ round \in Nat /\ read \in Seq(Frames)
        /\ "message" \in Slots /\ "handshake" \in Slots
    BY TransportAssumption DEF Inv, Control, Scalars, Sound, Phases, Slots
  <2>2. Unread(t, "message") \in Seq(Frames) /\ Unread(t, "handshake") \in Seq(Frames)
    BY <2>1, HeldIsShort
  <2>3. MessagesOf(t) \in Seq(Frames)
    BY ONLY <2>1, <2>2, ConcatProperties DEF MessagesOf
  <2> QED
    BY <2>1, <2>2, <2>3, JoinedIsTyped, FieldsOf
<1>3. stage # "start"
  BY <1>2 DEF Inv, Control, Fresh, Phases, DeviceAnswers, DeviceWrites
\* What the step sends.
<1>4. PICK f \in Frames :
        /\ line' = line \o <<[frame |-> f, part |-> "header"], [frame |-> f, part |-> "body"]>>
        /\ \/ /\ answered < asked /\ answered' = answered + 1 /\ written' = written
              /\ f.wire = (IF kind = "plain" THEN "plain" ELSE "noise") /\ ~f.huge
           \/ /\ written < MaxMessages /\ written' = written + 1 /\ answered' = answered
              /\ f.is = "message" /\ f.n = written + 1
              /\ kind = "plain" => f.wire = "plain"
              /\ kind = "noise" => f.wire = "noise" /\ stage \in {"keyed", "plain"}
              /\ kind # "faulty" => f.ok /\ ~f.huge
              /\ stage \in {"keyed", "plain"} \/ answered = 2
  <2>1. CASE DeviceAnswers(good)
    <3> DEFINE f == [wire |-> IF kind = "plain" THEN "plain" ELSE "noise", is |-> "handshake", n |-> 0,
                     ok |-> good, huge |-> FALSE]
    <3>1. f \in Frames
      BY <1>2 DEF Frames, Slots
    <3>2. /\ line' = line \o <<[frame |-> f, part |-> "header"], [frame |-> f, part |-> "body"]>>
          /\ answered < asked /\ answered' = answered + 1 /\ written' = written
      BY <2>1 DEF DeviceAnswers, Send
    <3>3. f.wire = (IF kind = "plain" THEN "plain" ELSE "noise") /\ ~f.huge
      OBVIOUS
    <3> HIDE DEF f
    <3> QED
      BY <3>1, <3>2, <3>3
  <2>2. CASE DeviceWrites(good, huge)
    <3> DEFINE f == [wire |-> IF kind = "plain" \/ (kind = "faulty" /\ stage = "plain") THEN "plain" ELSE "noise",
                     is |-> "message", n |-> written + 1, ok |-> good, huge |-> huge]
    <3>1. /\ line' = line \o <<[frame |-> f, part |-> "header"], [frame |-> f, part |-> "body"]>>
          /\ written < MaxMessages /\ written' = written + 1 /\ answered' = answered
          /\ \/ stage = "keyed" /\ kind # "plain"
             \/ stage = "plain"
             \/ kind = "eager" /\ answered = 2
      BY <2>2 DEF DeviceWrites, Send
    <3>2. kind # "faulty" => good /\ ~huge
      BY <2>2 DEF DeviceWrites
    <3>3. written + 1 \in 0..MaxMessages
      BY <1>2, <3>1
    <3>4. f \in Frames
      BY <3>3 DEF Frames, Slots
    <3>5. /\ f.is = "message" /\ f.n = written + 1
          /\ kind = "plain" => f.wire = "plain"
          /\ kind = "noise" => f.wire = "noise"
      OBVIOUS
    <3>6. kind # "faulty" => f.ok /\ ~f.huge
      BY <3>2
    <3> HIDE DEF f
    <3>7. /\ kind = "noise" => stage \in {"keyed", "plain"}
          /\ stage \in {"keyed", "plain"} \/ answered = 2
      BY <3>1
    <3> QED
      BY <3>1, <3>4, <3>5, <3>6, <3>7
  <2> QED
    BY <2>1, <2>2
<1>5. /\ line' \in Seq(Units)
      /\ t.terminated = None =>
           /\ Len(Joined(t, line')) = 2 * Coming(t, line') /\ Coming(t, line') = Coming(t, line) + 1
           /\ FrameOf(t, line', Coming(t, line) + 1) = f
           /\ \A i \in 1..Coming(t, line) : FrameOf(t, line', i) = FrameOf(t, line, i)
  <2>1. t.terminated = None => Len(Joined(t, line)) = 2 * Coming(t, line)
    BY DEF Inv, Data, WholeFrames
  <2>2. line' = line \o UnitsOf(f) /\ UnitsOf(f) \in Seq(Units)
    BY <1>4 DEF UnitsOf, Units
  <2>3. line' \in Seq(Units)
    BY ONLY <1>2, <2>2, ConcatProperties
  <2>4. ASSUME t.terminated = None
        PROVE  /\ Len(Joined(t, line')) = 2 * Coming(t, line') /\ Coming(t, line') = Coming(t, line) + 1
               /\ FrameOf(t, line', Coming(t, line) + 1) = f
               /\ \A i \in 1..Coming(t, line) : FrameOf(t, line', i) = FrameOf(t, line, i)
    <3>1. t \in Transports /\ line \in Seq(Units) /\ f \in Frames /\ line' \in Seq(Units) /\ line' = line \o UnitsOf(f)
      BY <1>2, <1>4, <2>2, <2>3
    <3>2. Len(Joined(t, line)) = 2 * Coming(t, line)
      BY <2>1, <2>4
    <3> QED
      BY ONLY <3>1, <3>2, SendingJoins
  <2> QED
    BY <2>3, <2>4
<1>6. Control'
  <2>1. answered' \in 0..2 /\ written' \in 0..MaxMessages /\ answered' <= asked
    BY <1>2, <1>4
  <2> QED
    BY <1>1, <1>3, <1>5, <2>1
       DEF Inv, Control, Scalars, Waiters, Phases, Early, Fresh, Residue, Sound, Busy, Unread, Held
<1>7. /\ MessagesOf(t)' = MessagesOf(t) /\ Honest' = Honest
      /\ Joined(t, line)' = Joined(t, line') /\ Coming(t, line)' = Coming(t, line')
      /\ \A i : FrameOf(t, line, i)' = FrameOf(t, line', i)
  BY <1>1 DEF MessagesOf, Honest, Joined, Coming, FrameOf, Unread, Held
<1>8. Ordered(t)' /\ Nonces(t)' /\ WholeFrames(t, line)' /\ Understood(t)'
  BY <1>1, <1>5, <1>7 DEF Inv, Data, Ordered, Nonces, WholeFrames, Understood
<1>9. t.terminated = None => \A i \in 1..Coming(t, line)' : i \in 1..Coming(t, line) \/ i = Coming(t, line) + 1
  BY <1>2, <1>5, <1>7
<1>10. PlainStream(t, line)'
  <2> SUFFICES ASSUME t.terminated = None, t.phase = "plaintext"
               PROVE  /\ \A i \in 1..Coming(t, line)' : FrameOf(t, line', i).n = Len(MessagesOf(t)) + i
                      /\ written' = Len(MessagesOf(t)) + Coming(t, line)'
                      /\ Honest /\ kind # "plain" => Coming(t, line)' = 0
    BY <1>1, <1>7 DEF PlainStream
  <2>1. asked = 0 /\ stage \in {"start", "plain", "failed"}
    BY DEF Inv, Control, Phases
  <2>2. written' = written + 1 /\ f.n = written + 1 /\ stage = "plain"
    BY <1>2, <1>4, <2>1
  <2>3. /\ \A i \in 1..Coming(t, line) : FrameOf(t, line, i).n = Len(MessagesOf(t)) + i
        /\ written = Len(MessagesOf(t)) + Coming(t, line)
    BY DEF Inv, Data, PlainStream
  <2>4. ~(Honest /\ kind # "plain")
    BY <2>2 DEF Inv, Control, Phases, Honest
  <2>5. f.n = Len(MessagesOf(t)) + (Coming(t, line) + 1) /\ written' = Len(MessagesOf(t)) + (Coming(t, line) + 1)
    BY <1>2, <2>2, <2>3
  <2> QED
    BY <1>5, <1>7, <1>9, <2>3, <2>4, <2>5
<1>11. PlainDevice(t, line)'
  <2> SUFFICES ASSUME kind = "plain"
               PROVE  /\ t.phase # "noise-data" /\ Unread(t, "handshake") = <<>>
                      /\ t.terminated = None =>
                           \A i \in 1..Coming(t, line)' :
                             FrameOf(t, line', i).wire = "plain" /\ ~FrameOf(t, line', i).huge
    BY <1>1, <1>7 DEF PlainDevice, Unread, Held
  <2>1. f.wire = "plain" /\ ~f.huge
    BY <1>4
  <2> QED
    BY <1>5, <1>9, <2>1 DEF Inv, Data, PlainDevice
<1>12. NoiseDevice(t, line)'
  <2>1. SUFFICES ASSUME kind = "noise", t.terminated = None
        PROVE  /\ t.phase = "noise-handshake" =>
                    /\ \A i \in 1..Coming(t, line)' :
                         FrameOf(t, line', i).wire = "noise" /\ ~FrameOf(t, line', i).huge
                    /\ stage # "failed" =>
                         Coming(t, line)' + Len(Unread(t, "handshake")) + round = answered' + 1
                    /\ written' = 0
               /\ t.phase = "noise-data" =>
                    /\ \A i \in 1..Coming(t, line)' :
                         /\ FrameOf(t, line', i).wire = "noise" /\ ~FrameOf(t, line', i).huge
                         /\ FrameOf(t, line', i).ok /\ FrameOf(t, line', i).is = "message"
                         /\ FrameOf(t, line', i).n = t.rx + i
                    /\ written' = t.rx + Coming(t, line)' /\ answered' = asked
    BY <1>1, <1>7 DEF NoiseDevice, Unread, Held
  <2>2. f.wire = "noise" /\ ~f.huge
    BY <1>4, <2>1
  <2>3. ASSUME t.phase = "noise-handshake"
        PROVE  /\ \A i \in 1..Coming(t, line)' :
                    FrameOf(t, line', i).wire = "noise" /\ ~FrameOf(t, line', i).huge
               /\ stage # "failed" =>
                    Coming(t, line)' + Len(Unread(t, "handshake")) + round = answered' + 1
               /\ written' = 0
    <3>1. answered' = answered + 1 /\ written' = written
      BY <1>4, <2>1, <2>3 DEF Inv, Control, Phases
    <3>2. /\ \A i \in 1..Coming(t, line) : FrameOf(t, line, i).wire = "noise" /\ ~FrameOf(t, line, i).huge
          /\ stage # "failed" => Coming(t, line) + Len(Unread(t, "handshake")) + round = answered + 1
          /\ written = 0
      BY <2>1, <2>3 DEF Inv, Data, NoiseDevice
    <3>3. \A i \in 1..Coming(t, line)' : FrameOf(t, line', i).wire = "noise" /\ ~FrameOf(t, line', i).huge
      BY <1>5, <1>9, <2>1, <2>2, <3>2
    <3>4. Coming(t, line)' = Coming(t, line) + 1
      BY <1>5, <1>7, <2>1
    <3>5. stage # "failed" => Coming(t, line)' + Len(Unread(t, "handshake")) + round = answered' + 1
      BY <1>2, <3>1, <3>2, <3>4
    <3> QED
      BY <3>1, <3>2, <3>3, <3>5
  <2>4. ASSUME t.phase = "noise-data"
        PROVE  /\ \A i \in 1..Coming(t, line)' :
                    /\ FrameOf(t, line', i).wire = "noise" /\ ~FrameOf(t, line', i).huge
                    /\ FrameOf(t, line', i).ok /\ FrameOf(t, line', i).is = "message"
                    /\ FrameOf(t, line', i).n = t.rx + i
               /\ written' = t.rx + Coming(t, line)' /\ answered' = asked
    <3>1. /\ \A i \in 1..Coming(t, line) :
               /\ FrameOf(t, line, i).wire = "noise" /\ ~FrameOf(t, line, i).huge
               /\ FrameOf(t, line, i).ok /\ FrameOf(t, line, i).is = "message"
               /\ FrameOf(t, line, i).n = t.rx + i
          /\ written = t.rx + Coming(t, line) /\ answered = asked
      BY <2>1, <2>4 DEF Inv, Data, NoiseDevice
    <3>2. written' = written + 1 /\ answered' = answered /\ f.is = "message" /\ f.n = written + 1 /\ f.ok
      BY <1>2, <1>4, <2>1, <3>1
    <3>3. Coming(t, line)' = Coming(t, line) + 1
      BY <1>5, <1>7, <2>1
    <3>4. f.n = t.rx + (Coming(t, line) + 1) /\ written' = t.rx + Coming(t, line)'
      <4>1. t.rx \in Nat /\ Coming(t, line) \in Nat /\ written = t.rx + Coming(t, line)
        BY <1>2, <3>1
      <4>2. f.n = written + 1 /\ written' = written + 1
        BY <3>2
      <4> QED
        BY ONLY <4>1, <4>2, <3>3
    <3> QED
      BY <1>5, <1>9, <2>1, <2>2, <3>1, <3>2, <3>4
  <2> QED
    BY <2>3, <2>4
<1> QED
  BY <1>6, <1>8, <1>10, <1>11, <1>12 DEF Inv, Data

LEMMA InvHolds == Spec => []Inv
<1>1. Inv /\ [Next]_vars => Inv'
  <2> SUFFICES ASSUME Inv, [Next]_vars PROVE Inv'
    OBVIOUS
  <2>1. CASE Dispose
    <3>1. "TRANSPORT_DISPOSED" \in Causes \ Faults
      BY DEF Causes, Faults
    <3> QED
      BY <2>1, <3>1, EndingStep DEF Dispose
  <2>2. CASE PeerCloses
    <3> DEFINE cause == IF t.phase = "noise-handshake" THEN "PEER_CLOSED_NOISE" ELSE "PEER_CLOSED"
    <3>1. cause \in Causes \ Faults
      BY DEF Causes, Faults, NoNoise
    <3>2. t' = Failed(t, cause) /\ UNCHANGED <<options, flow, reader, device>>
      BY <2>2 DEF PeerCloses
    <3> HIDE DEF cause
    <3> QED
      BY <3>1, <3>2, EndingStep
  <2>3. CASE SocketFails
    <3>1. "ESOCKET" \in Causes \ Faults
      BY DEF Causes, Faults
    <3> QED
      BY <2>3, <3>1, EndingStep DEF SocketFails
  <2>4. CASE UNCHANGED vars
    <3>1. /\ UNCHANGED <<options, stage, round, reopened, read, finished, line, asked, answered, written, t>>
          /\ UNCHANGED <<kind, psk, recvLimit>>
      BY <2>4 DEF vars, options, flow, reader, device
    <3>2. Control'
      BY <3>1 DEF Inv, Control, Scalars, Waiters, Phases, Early, Fresh, Residue, Sound, Busy, Unread, Held
    <3>3. Data(t, line)'
      BY <3>1, QuietData DEF Inv, MessagesOf, Unread, Held
    <3> QED
      BY <3>2, <3>3 DEF Inv
  <2> QED
    BY <2>1, <2>2, <2>3, <2>4, EnteringStep, AwaitingStep, SendFailingStep, HelloStep, ReplyStep, FailingStep,
       TimingOutStep, FallingBackStep, StayingStep, ReadingStep, GettingStep, ReturningStep,
       ArrivingStep, DeviceStep DEF Next
<1> QED
  BY <1>1, InitInv, PTL DEF Spec

-----------------------------------------------------------------------------
(* Theorems. *)

\* The transport, its two awaiter slots and the handshake's code fit together: a slot is
\* occupied only while its code waits for it.
THEOREM TypeCorrect == Spec => []TypeOK
<1>1. Inv => TypeOK
  <2> SUFFICES ASSUME Inv PROVE TypeOK
    OBVIOUS
  <2>1. /\ Scalars /\ t \in Transports /\ Waiters
        /\ \A s \in Slots : ~(s \in t.parked /\ t.given[s] # None)
    BY DEF Inv, Control, Sound
  <2> QED
    BY <2>1 DEF TypeOK, Scalars, Waiters, Busy
<1> QED
  BY <1>1, InvHolds, PTL

\* Neither the iterator's reader nor the handshake waits beside a frame that is there for it,
\* or on a transport that has ended: nextMessage(), nextNoiseHandshakeFrame() and
\* settleAwaiters(), in any interleaving with the socket.
THEOREM NoOneWaitsInVain == Spec => []WaitersAreReachable
<1>1. Inv => WaitersAreReachable
  <2> SUFFICES ASSUME Inv PROVE WaitersAreReachable
    OBVIOUS
  <2>1. /\ t.terminated # None => t.parked = {}
        /\ \A s \in t.parked : t.queue[s] = <<>>
    BY DEF Inv, Control, Sound
  <2>2. t.terminated = None => Complete(t) = 0
    <3>1. t \in Transports /\ (t.terminated = None => Len(t.recvBuffer) <= 1)
      BY DEF Inv, Control, Sound, Residue
    <3> QED
      BY <3>1, Halves
  <2> QED
    BY <2>1, <2>2 DEF WaitersAreReachable
<1> QED
  BY <1>1, InvHolds, PTL

\* Whatever pieces the bytes come in, and wherever a frame, the handshake or the cipher cuts
\* them: the iterator yields the device's messages in order and each once, and on a
\* connection that has not ended none is missing.  A device that keeps to the protocol is
\* never refused: the phase and the nonce under which a frame is read are those under which
\* it was written, however the bytes of the handshake and of the first messages run together.
THEOREM DevicesAreHeardInOrder == Spec => []DevicesAreHeard
<1>1. Inv => MessagesInOrder
  <2> SUFFICES ASSUME Inv PROVE MessagesInOrder
    OBVIOUS
  <2>1. /\ t \in Transports /\ "message" \in Slots /\ read \in Seq(Frames) /\ line \in Seq(Units)
        /\ t.queue["message"] \in Seq(Frames)
    BY FieldsOf DEF Inv, Control, Scalars, Sound, Slots
  <2>2. Given = Held(t, "message") /\ Given \in Seq(Frames)
    BY <2>1, HeldIsShort DEF Given, Held
  <2>3. Messages = MessagesOf(t) /\ Messages \in Seq(Frames)
    <3> DEFINE g == Given
               q == t.queue["message"]
    <3>1. g \in Seq(Frames) /\ q \in Seq(Frames) /\ Messages = (read \o g) \o q /\ MessagesOf(t) = read \o (g \o q)
      BY <2>1, <2>2 DEF Messages, MessagesOf, Unread
    <3> HIDE DEF g, q
    <3>2. (read \o g) \o q = read \o (g \o q) /\ (read \o g) \o q \in Seq(Frames)
      <4>1. read \o g \in Seq(Frames)
        BY ONLY <2>1, <3>1, ConcatProperties
      <4> QED
        <5>1. (read \o g) \o q = read \o (g \o q)
          <6>1. read \in Seq(Frames) /\ g \in Seq(Frames) /\ q \in Seq(Frames)
            BY <2>1, <3>1
          <6> QED
            BY ONLY <6>1, ConcatAssociative
        <5>2. (read \o g) \o q \in Seq(Frames)
          BY ONLY <3>1, <4>1, ConcatProperties
        <5> QED
          BY <5>1, <5>2
    <3> QED
      BY <3>1, <3>2
  <2>4. \A i \in DOMAIN Messages : Messages[i].n = i
    BY <2>3 DEF Inv, Data, Ordered
  <2>5. ASSUME Honest, t.terminated = None, stage \in {"keyed", "plain"}
        PROVE  2 * (written - Len(Messages)) = Len(t.recvBuffer) + Len(line)
    <3>1. /\ Len(Joined(t, line)) = 2 * Coming(t, line) /\ Coming(t, line) \in Nat
          /\ Len(Joined(t, line)) = Len(t.recvBuffer) + Len(line)
      BY <2>1, <2>5, JoinedIsTyped DEF Inv, Data, WholeFrames
    <3>2. written = Len(MessagesOf(t)) + Coming(t, line)
      <4>1. CASE stage = "plain"
        BY <2>5, <4>1 DEF Inv, Control, Phases, Data, PlainStream
      <4>2. CASE stage = "keyed"
        BY <2>5, <4>2 DEF Inv, Control, Phases, Data, PlainDevice, NoiseDevice, Nonces, Honest
      <4> QED
        BY <2>5, <4>1, <4>2
    <3>3. Len(Messages) \in Nat /\ Len(Messages) = Len(MessagesOf(t))
      BY <2>3
    <3> QED
      <4>1. Len(Joined(t, line)) = 2 * Coming(t, line) /\ Coming(t, line) \in Nat
        BY <3>1
      <4>2. written = Len(Messages) + Coming(t, line) /\ Len(Messages) \in Nat
        BY <3>2, <3>3
      <4>3. 2 * (written - Len(Messages)) = 2 * Coming(t, line)
        BY ONLY <4>1, <4>2
      <4> QED
        BY ONLY <3>1, <4>1, <4>3
  <2> QED
    BY <2>4, <2>5 DEF MessagesInOrder
<1>2. Inv => HonestDevicesAreUnderstood
  BY DEF Inv, Data, Understood, HonestDevicesAreUnderstood
<1>3. Inv => DevicesAreHeard
  BY <1>1, <1>2 DEF DevicesAreHeard
<1> QED
  BY <1>3, InvHolds, PTL
=============================================================================
