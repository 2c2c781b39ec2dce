---------------------------- MODULE CodecProofs ----------------------------
(***************************************************************************)
(* The codec reads what was meant, for any number of bits of a varint's    *)
(* byte, of a word and of a bigint that CodecAssumption admits, any limit, *)
(* and messages of any length.                                             *)
(*                                                                         *)
(* From the arithmetic up: powers of two, numbers as sets of bits, varints *)
(* and words, fields whole or without their end, packed lists, messages,   *)
(* what the schema makes of their fields; and then the decoder's loop, by  *)
(* an invariant that follows it through the message field by field.        *)
(***************************************************************************)
EXTENDS MCTransport, FiniteSetTheorems, SequenceTheorems, WellFoundedInduction, TLAPS

Less == {pair \in Nat \X Nat : pair[1] < pair[2]}

\* A set of numbers has a least one.
LEMMA LeastNumber ==
  ASSUME NEW T, T \subseteq Nat, T # {}
  PROVE  \E x \in T : \A y \in T : x <= y
<1>1. OpToRel(<, Nat) = Less
  BY DEF OpToRel, Less
<1>2. IsWellFoundedOn(Less, Nat)
  BY <1>1, NatLessThanWellFounded, Zenon
<1>3. PICK x \in T : \A y \in T : ~ (<<y, x>> \in Less)
  BY <1>2, WFMin
<1>4. ASSUME NEW y \in T, ~(x <= y) PROVE FALSE
  <2>1. <<y, x>> \in Nat \X Nat /\ y < x
    BY <1>4
  <2>2. <<y, x>> \in Less
    BY <2>1 DEF Less
  <2> QED
    BY <1>3, <2>2
<1> QED
  BY <1>4

\* Induction over the numbers, by a least counterexample.
LEMMA EveryNumber ==
  ASSUME NEW G, 0 \in G, \A m \in Nat : m \in G => m + 1 \in G
  PROVE  \A m \in Nat : m \in G
<1> SUFFICES ASSUME NEW k \in Nat, k \notin G PROVE FALSE
  OBVIOUS
<1> DEFINE T == Nat \ G
<1>1. T \subseteq Nat /\ T # {}
  OBVIOUS
<1>2. PICK m \in T : \A l \in T : m <= l
  BY <1>1, LeastNumber
<1>3. m \in Nat /\ m # 0 /\ m - 1 \in Nat /\ ~(m <= m - 1) /\ m = (m - 1) + 1
  BY <1>2
<1>4. m - 1 \in G
  BY <1>2, <1>3
<1> QED
  BY <1>2, <1>3, <1>4

\* The power of two, as the number of the subsets of an interval: the provers know no other law of it.
LEMMA PowerIsCount ==
  ASSUME NEW n \in Nat
  PROVE  2 ^ n = Cardinality(SUBSET (1..n)) /\ 2 ^ n \in Nat /\ IsFiniteSet(SUBSET (1..n))
<1>1. IsFiniteSet(1..n) /\ Cardinality(1..n) = n
  BY FS_Interval
<1> QED
  BY <1>1, FS_SUBSET, FS_CardinalityType

\* One more element doubles the subsets: each is there without it and with it.
LEMMA PowerNext ==
  ASSUME NEW n \in Nat
  PROVE  2 ^ (n + 1) = 2 * 2 ^ n
<1> DEFINE A == SUBSET (1..n)
           With(s) == s \cup {n + 1}
           B == {With(s) : s \in A}
           f == [s \in A |-> With(s)]
<1>1. IsFiniteSet(A) /\ Cardinality(A) = 2 ^ n /\ 2 ^ n \in Nat
  BY PowerIsCount
<1>2. f \in Bijection(A, B)
  <2>1. f \in [A -> B]
    OBVIOUS
  <2>2. ASSUME NEW s \in A, NEW u \in A, f[s] = f[u] PROVE s = u
    <3>1. n + 1 \notin s /\ n + 1 \notin u
      OBVIOUS
    <3>2. s \cup {n + 1} = u \cup {n + 1}
      BY <2>2
    <3> QED
      BY <3>1, <3>2
  <2>3. \A b \in B : \E s \in A : f[s] = b
    OBVIOUS
  <2> HIDE DEF A, B, f
  <2> QED
    BY <2>1, <2>2, <2>3 DEF Bijection, Injection, Surjection, IsInjective
<1>3. IsFiniteSet(B) /\ Cardinality(B) = 2 ^ n
  <2>1. ExistsBijection(A, B)
    BY <1>2 DEF ExistsBijection
  <2> HIDE DEF A, B
  <2> QED
    BY <1>1, <2>1, FS_Bijection
<1>4. SUBSET (1..(n + 1)) = A \cup B
  <2>1. ASSUME NEW s \in SUBSET (1..(n + 1)) PROVE s \in A \cup B
    <3>1. CASE n + 1 \in s
      <4>1. s \ {n + 1} \in A
        OBVIOUS
      <4>2. s = With(s \ {n + 1})
        BY <3>1
      <4> QED
        BY <4>1, <4>2
    <3>2. CASE n + 1 \notin s
      BY <3>2
    <3> QED
      BY <3>1, <3>2
  <2>2. ASSUME NEW s \in A \cup B PROVE s \in SUBSET (1..(n + 1))
    OBVIOUS
  <2> QED
    BY <2>1, <2>2
<1>5. A \cap B = {}
  OBVIOUS
<1>6. Cardinality(A \cup B) = 2 ^ n + 2 ^ n
  <2>1. Cardinality(A \cap B) = 0
    BY <1>5, FS_EmptySet
  <2> HIDE DEF A, B
  <2>2. Cardinality(A \cup B) = Cardinality(A) + Cardinality(B) - Cardinality(A \cap B)
    BY <1>1, <1>3, FS_Union
  <2> QED
    BY <1>1, <1>3, <2>1, <2>2
<1>7. 2 ^ (n + 1) = Cardinality(SUBSET (1..(n + 1)))
  <2>1. n + 1 \in Nat
    OBVIOUS
  <2> QED
    BY <2>1, PowerIsCount
<1> HIDE DEF A, B
<1>8. 2 ^ (n + 1) = 2 ^ n + 2 ^ n
  BY <1>4, <1>6, <1>7
<1> QED
  BY <1>1, <1>8

\* Powers of two are positive,
LEMMA PowerPositive ==
  ASSUME NEW n \in Nat
  PROVE  2 ^ n \in Nat /\ 2 ^ n >= 1
<1>1. {} \in SUBSET (1..n)
  OBVIOUS
<1>2. Cardinality(SUBSET (1..n)) # 0
  BY <1>1, PowerIsCount, FS_EmptySet
<1> QED
  BY <1>2, PowerIsCount

\* of 0 it is 1,
LEMMA PowerZero == 2 ^ 0 = 1
OBVIOUS

\* they multiply where exponents add,
LEMMA PowerSum ==
  ASSUME NEW n \in Nat, NEW m \in Nat
  PROVE  2 ^ (n + m) = 2 ^ n * 2 ^ m
<1> DEFINE G == {k \in Nat : 2 ^ (n + k) = 2 ^ n * 2 ^ k}
<1>1. 0 \in G
  <2>1. 2 ^ n \in Nat /\ n + 0 = n
    BY PowerPositive
  <2> QED
    BY <2>1, PowerZero
<1>2. ASSUME NEW k \in Nat, k \in G PROVE k + 1 \in G
  <2>1. 2 ^ (n + k) = 2 ^ n * 2 ^ k
    BY <1>2
  <2>2. 2 ^ (k + 1) = 2 * 2 ^ k
    BY PowerNext
  <2>3. 2 ^ (n + (k + 1)) = 2 * 2 ^ (n + k)
    <3>1. n + k \in Nat /\ n + (k + 1) = (n + k) + 1
      OBVIOUS
    <3> QED
      BY <3>1, PowerNext
  <2>4. 2 ^ n \in Nat /\ 2 ^ k \in Nat
    BY PowerPositive
  <2>5. \A a, b \in Nat : 2 * (a * b) = a * (2 * b)
    OBVIOUS
  <2>6. 2 ^ (n + (k + 1)) = 2 ^ n * 2 ^ (k + 1)
    BY ONLY <2>1, <2>2, <2>3, <2>4, <2>5
  <2> QED
    BY <2>6
<1> HIDE DEF G
<1>3. m \in G
  BY <1>1, <1>2, EveryNumber
<1> QED
  BY <1>3 DEF G

\* and grow.
LEMMA PowerGrows ==
  ASSUME NEW n \in Nat, NEW m \in Nat, n <= m
  PROVE  2 ^ n <= 2 ^ m
<1>1. m - n \in Nat /\ m = n + (m - n)
  OBVIOUS
<1>2. 2 ^ m = 2 ^ n * 2 ^ (m - n)
  BY <1>1, PowerSum
<1>3. 2 ^ n \in Nat /\ 2 ^ (m - n) \in Nat /\ 2 ^ (m - n) >= 1
  BY <1>1, PowerPositive
<1>4. \A a, b \in Nat : b >= 1 => a <= a * b
  <2> SUFFICES ASSUME NEW a \in Nat, NEW b \in Nat, b >= 1 PROVE a <= a * b
    OBVIOUS
  <2>1. a * b = a + a * (b - 1) /\ b - 1 \in Nat
    OBVIOUS
  <2>2. a * (b - 1) \in Nat
    BY <2>1
  <2> QED
    BY <2>1, <2>2
<1> QED
  BY <1>2, <1>3, <1>4

-----------------------------------------------------------------------------
(* Quotients. *)

\* What div and mod are.
LEMMA Quotient ==
  ASSUME NEW n \in Nat, NEW d \in Nat, d >= 1
  PROVE  n \div d \in Nat /\ n % d \in Nat /\ n % d < d /\ n = (n \div d) * d + (n % d)
OBVIOUS

\* A quotient and a remainder determine each other.
LEMMA QuotientIsUnique ==
  ASSUME NEW d \in Nat, d >= 1, NEW q \in Nat, NEW r \in Nat, r < d, NEW n \in Nat, n = q * d + r
  PROVE  n \div d = q /\ n % d = r
<1> DEFINE p == n \div d
           s == n % d
<1>1. p \in Nat /\ s \in Nat /\ s < d /\ n = p * d + s
  BY Quotient
<1> HIDE DEF p, s
<1>2. \A a, b \in Nat : a < b => a * d + d <= b * d
  <2> SUFFICES ASSUME NEW a \in Nat, NEW b \in Nat, a < b PROVE a * d + d <= b * d
    OBVIOUS
  <2>1. PICK c \in Nat : b = a + 1 + c
    <3>1. b - a - 1 \in Nat /\ b = a + 1 + (b - a - 1)
      OBVIOUS
    <3> QED
      BY <3>1
  <2>2. (a + 1 + c) * d = a * d + d + c * d /\ c * d \in Nat /\ a * d \in Nat
    OBVIOUS
  <2> QED
    BY <2>1, <2>2
<1>3. q * d \in Nat /\ p * d \in Nat
  BY <1>1
<1>4. ~(p < q)
  BY <1>1, <1>2, <1>3
<1>5. ~(q < p)
  BY <1>1, <1>2, <1>3
<1>6. p = q
  BY <1>1, <1>4, <1>5
<1>7. s = r
  BY <1>1, <1>3, <1>6
<1> QED
  BY <1>6, <1>7 DEF p, s

\* A remainder in two steps.
LEMMA Remainders ==
  ASSUME NEW n \in Nat, NEW a \in Nat, a >= 1, NEW b \in Nat, b >= 1
  PROVE  n % (a * b) = (n % a) + a * ((n \div a) % b) /\ n \div (a * b) = (n \div a) \div b
<1> DEFINE q == n \div a
           r == n % a
           p == q \div b
           s == q % b
<1>1. q \in Nat /\ r \in Nat /\ r < a /\ n = q * a + r
  BY Quotient
<1>2. p \in Nat /\ s \in Nat /\ s < b /\ q = p * b + s
  BY <1>1, Quotient
<1> HIDE DEF q, r, p, s
<1>3. n = p * (a * b) + (a * s + r)
  <2>1. n = (p * b + s) * a + r
    BY <1>1, <1>2
  <2>2. (p * b + s) * a + r = p * (a * b) + (a * s + r)
    BY <1>1, <1>2
  <2> QED
    BY <2>1, <2>2
<1>4. a * s + r \in Nat /\ a * s + r < a * b /\ a * b \in Nat /\ a * b >= 1
  <2>1. b - 1 - s \in Nat /\ b = s + 1 + (b - 1 - s)
    BY <1>2
  <2>2. PICK c \in Nat : b = s + 1 + c
    BY <2>1
  <2>3. a * (s + 1 + c) = a * s + a + a * c /\ a * s \in Nat /\ a * c \in Nat
    BY <1>2
  <2> QED
    BY <1>1, <2>2, <2>3
<1>5. n \div (a * b) = p /\ n % (a * b) = a * s + r
  <2> DEFINE d == a * b
             m == a * s + r
  <2>1. d \in Nat /\ d >= 1 /\ m \in Nat /\ m < d /\ n = p * d + m
    BY <1>3, <1>4
  <2> HIDE DEF d, m
  <2>2. n \div d = p /\ n % d = m
    BY <1>2, <2>1, QuotientIsUnique
  <2> QED
    BY <2>2 DEF d, m
<1> QED
  BY <1>1, <1>2, <1>5 DEF q, r, p, s

LEMMA RemainderOfProduct ==
  ASSUME NEW n \in Nat, NEW a \in Nat, a >= 1, NEW b \in Nat, b >= 1
  PROVE  n % (a * b) = (n % a) + a * ((n \div a) % b)
<1>1. n % (a * b) = (n % a) + a * ((n \div a) % b) /\ n \div (a * b) = (n \div a) \div b
  BY Remainders, Zenon
<1> QED
  BY <1>1, Zenon

-----------------------------------------------------------------------------
(* A number as the set of its bits. *)

One(s) == CHOOSE x \in s : TRUE

\* What the fold says of a set of bits, and of all sets of the bits of b.
Adds(u, s) == u[s] = IF s = {} THEN 0 ELSE 2 ^ One(s) + u[s \ {One(s)}]
Summing(u, b) == \A s \in SUBSET b : Adds(u, s)

\* A set without the one that is taken out first.
LEMMA OneLess ==
  ASSUME NEW b, IsFiniteSet(b), NEW s \in SUBSET b, s # {}
  PROVE  /\ One(s) \in s /\ s \ {One(s)} \in SUBSET b /\ IsFiniteSet(s)
         /\ Cardinality(s) \in Nat /\ Cardinality(s \ {One(s)}) = Cardinality(s) - 1
         /\ Cardinality(s) <= Cardinality(b) /\ Cardinality(s) >= 1
<1>1. One(s) \in s
  BY DEF One
<1>2. IsFiniteSet(s) /\ Cardinality(s) <= Cardinality(b)
  BY FS_Subset
<1>3. Cardinality(s) \in Nat /\ Cardinality(s) # 0
  BY <1>2, FS_CardinalityType, FS_EmptySet
<1>4. Cardinality(s \ {One(s)}) = Cardinality(s) - 1
  BY <1>1, <1>2, FS_RemoveElement
<1> QED
  BY <1>1, <1>2, <1>3, <1>4

\* The fold has a result.
LEMMA NumberRuns ==
  ASSUME NEW b, IsFiniteSet(b)
  PROVE  \E u : Summing(u, b) /\ Proto!Number(b) = u[b]
<1> DEFINE Within(u, n) == \A s \in SUBSET b : Cardinality(s) <= n => Adds(u, s)
           G == {n \in Nat : \E u : Within(u, n)}
           All(u) == u = [s \in SUBSET b |-> IF s = {} THEN 0 ELSE 2 ^ One(s) + u[s \ {One(s)}]]
<1>1. 0 \in G
  <2> DEFINE u == [s \in SUBSET b |-> 0]
  <2>1. ASSUME NEW s \in SUBSET b, Cardinality(s) <= 0 PROVE Adds(u, s)
    <3>1. s = {}
      <4> SUFFICES ASSUME s # {} PROVE FALSE
        OBVIOUS
      <4>1. Cardinality(s) \in Nat /\ Cardinality(s) >= 1
        BY OneLess
      <4> QED
        BY <2>1, <4>1
    <3>2. u[s] = 0
      OBVIOUS
    <3> HIDE DEF u
    <3> QED
      BY <3>1, <3>2 DEF Adds
  <2>2. Within(u, 0)
    BY <2>1
  <2> HIDE DEF u, Within
  <2> QED
    BY <2>2
<1>2. ASSUME NEW n \in Nat, n \in G PROVE n + 1 \in G
  <2>1. PICK u : Within(u, n)
    BY <1>2
  <2> DEFINE v == [s \in SUBSET b |-> IF Cardinality(s) <= n THEN u[s]
                                      ELSE 2 ^ One(s) + u[s \ {One(s)}]]
  <2>2. \A s \in SUBSET b : v[s] = IF Cardinality(s) <= n THEN u[s] ELSE 2 ^ One(s) + u[s \ {One(s)}]
    OBVIOUS
  <2> HIDE DEF v
  <2>3. ASSUME NEW s \in SUBSET b, Cardinality(s) <= n + 1 PROVE Adds(v, s)
    <3>1. CASE s = {}
      <4>1. Cardinality(s) <= n
        BY <3>1, FS_EmptySet
      <4>2. v[s] = u[s] /\ Adds(u, s)
        BY <2>1, <2>2, <4>1
      <4> QED
        BY <3>1, <4>2 DEF Adds
    <3>2. CASE s # {}
      <4> DEFINE x == One(s)
                 r == s \ {x}
      <4>1. r \in SUBSET b /\ Cardinality(r) <= n
        BY <2>3, <3>2, OneLess
      <4>2. v[r] = u[r]
        BY <2>2, <4>1, Zenon
      <4>3. CASE Cardinality(s) <= n
        <5>1. v[s] = u[s] /\ Adds(u, s)
          BY <2>1, <2>2, <4>3
        <5>2. u[s] = 2 ^ x + u[r]
          BY <3>2, <5>1 DEF Adds
        <5>3. v[s] = 2 ^ x + v[r]
          BY <4>2, <5>1, <5>2, Zenon
        <5> QED
          BY <3>2, <5>3 DEF Adds
      <4>4. CASE ~(Cardinality(s) <= n)
        <5>1. v[s] = 2 ^ x + u[r]
          BY <2>2, <4>4
        <5>3. v[s] = 2 ^ x + v[r]
          BY <4>2, <5>1, Zenon
        <5> QED
          BY <3>2, <5>3 DEF Adds
      <4> QED
        BY <4>3, <4>4
    <3> QED
      BY <3>1, <3>2
  <2>4. Within(v, n + 1)
    BY <2>3
  <2> HIDE DEF Within
  <2> QED
    BY <2>4
<1>3. Cardinality(b) \in G
  <2> HIDE DEF G
  <2>1. Cardinality(b) \in Nat
    BY FS_CardinalityType
  <2> QED
    BY <1>1, <1>2, <2>1, EveryNumber
<1>4. PICK u : Within(u, Cardinality(b))
  BY <1>3
<1>5. \A s \in SUBSET b : Adds(u, s)
  BY <1>4, FS_Subset
<1> DEFINE v == [s \in SUBSET b |-> u[s]]
<1>6. All(v)
  <2>1. \A s \in SUBSET b : v[s] = u[s]
    OBVIOUS
  <2>2. v = [s \in SUBSET b |-> v[s]]
    OBVIOUS
  <2> HIDE DEF v
  <2>3. ASSUME NEW s \in SUBSET b PROVE v[s] = IF s = {} THEN 0 ELSE 2 ^ One(s) + v[s \ {One(s)}]
    <3>1. s \ {One(s)} \in SUBSET b
      OBVIOUS
    <3>2. v[s \ {One(s)}] = u[s \ {One(s)}] /\ v[s] = u[s]
      BY <2>1, <3>1
    <3> QED
      BY <1>5, <3>2 DEF Adds
  <2>4. [s \in SUBSET b |-> v[s]] = [s \in SUBSET b |-> IF s = {} THEN 0 ELSE 2 ^ One(s) + v[s \ {One(s)}]]
    BY <2>3, Zenon
  <2> QED
    BY <2>2, <2>4, Zenon
<1> HIDE DEF v
<1>7. All(CHOOSE w : All(w))
  BY <1>6, Zenon
<1>8. Proto!Number(b) = (CHOOSE w : All(w))[b]
  BY DEF Proto!Number, Proto!MapThenSumSet, Proto!MapThenFoldSet, One
<1> DEFINE w == CHOOSE w : All(w)
<1>9. Summing(w, b)
  <2> HIDE DEF w
  <2>1. All(w)
    BY <1>7 DEF w
  <2>2. ASSUME NEW s \in SUBSET b
        PROVE  w[s] = IF s = {} THEN 0 ELSE 2 ^ One(s) + w[s \ {One(s)}]
    BY <2>1, Zenon
  <2> QED
    BY <2>2, Zenon DEF Summing, Adds
<1> QED
  BY <1>8, <1>9

\* Induction over the subsets of a finite set.
LEMMA EverySubset ==
  ASSUME NEW b, IsFiniteSet(b), NEW G,
         \A s \in SUBSET b : (\A r \in SUBSET s : r # s => r \in G) => s \in G
  PROVE  \A s \in SUBSET b : s \in G
<1> DEFINE H == {n \in Nat : \A s \in SUBSET b : Cardinality(s) <= n => s \in G}
<1>1. \A s \in SUBSET b : IsFiniteSet(s) /\ Cardinality(s) \in Nat /\ Cardinality(s) <= Cardinality(b)
  BY FS_Subset, FS_CardinalityType
<1>2. ASSUME NEW s \in SUBSET b, NEW r \in SUBSET s, r # s
      PROVE  r \in SUBSET b /\ Cardinality(r) < Cardinality(s)
  BY <1>1, <1>2, FS_Subset
<1>3. 0 \in H
  <2> SUFFICES ASSUME NEW s \in SUBSET b, Cardinality(s) <= 0 PROVE s \in G
    OBVIOUS
  <2>1. \A r \in SUBSET s : r = s
    <3> SUFFICES ASSUME NEW r \in SUBSET s, r # s PROVE FALSE
      OBVIOUS
    <3>1. r \in SUBSET b /\ Cardinality(r) < Cardinality(s)
      BY <1>2
    <3> QED
      BY <1>1, <3>1
  <2> QED
    BY <2>1
<1>4. ASSUME NEW n \in Nat, n \in H PROVE n + 1 \in H
  <2>1. ASSUME NEW s \in SUBSET b, Cardinality(s) <= n + 1 PROVE s \in G
    <3>1. ASSUME NEW r \in SUBSET s, r # s PROVE r \in G
      <4>1. r \in SUBSET b /\ Cardinality(r) < Cardinality(s)
        BY <1>2, <3>1
      <4>2. Cardinality(r) <= n
        BY <1>1, <2>1, <4>1
      <4> QED
        BY <1>4, <4>1, <4>2
    <3> QED
      BY <3>1
  <2> QED
    BY <2>1
<1>5. Cardinality(b) \in H
  <2> HIDE DEF H
  <2>1. Cardinality(b) \in Nat
    BY FS_CardinalityType
  <2> QED
    BY <1>3, <1>4, <2>1, EveryNumber
<1> QED
  BY <1>1, <1>5

\* Two folds agree on the sets of both.
LEMMA SumsAgree ==
  ASSUME NEW b, IsFiniteSet(b), NEW c, c \subseteq b, NEW u, NEW v, Summing(u, b), Summing(v, c)
  PROVE  u[c] = v[c]
<1> DEFINE G == {s \in SUBSET c : u[s] = v[s]}
<1>1. \A s \in SUBSET c : Adds(u, s) /\ Adds(v, s)
  BY DEF Summing
<1>2. ASSUME NEW s \in SUBSET c, \A r \in SUBSET s : r # s => r \in G PROVE s \in G
  <2>1. CASE s = {}
    BY <1>1, <2>1 DEF Adds
  <2>2. CASE s # {}
    <3>1. s \ {One(s)} # s
      BY <2>2 DEF One
    <3>2. u[s \ {One(s)}] = v[s \ {One(s)}]
      BY <1>2, <3>1
    <3>3. u[s] = 2 ^ One(s) + u[s \ {One(s)}] /\ v[s] = 2 ^ One(s) + v[s \ {One(s)}]
      BY <1>1, <2>2 DEF Adds
    <3>4. u[s] = v[s]
      BY <3>2, <3>3, Zenon
    <3> QED
      BY <3>4
  <2> QED
    BY <2>1, <2>2
<1>3. IsFiniteSet(c)
  BY FS_Subset
<1>4. c \in G
  <2> HIDE DEF G
  <2> QED
    BY <1>2, <1>3, EverySubset
<1> QED
  BY <1>4

\* A bit more is its power more,
LEMMA NumberStep ==
  ASSUME NEW b, IsFiniteSet(b), b # {}
  PROVE  Proto!Number(b) = 2 ^ One(b) + Proto!Number(b \ {One(b)})
<1> DEFINE c == b \ {One(b)}
<1>1. PICK u : Summing(u, b) /\ Proto!Number(b) = u[b]
  BY NumberRuns
<1>2. IsFiniteSet(c) /\ c \subseteq b
  BY FS_Subset
<1>3. PICK v : Summing(v, c) /\ Proto!Number(c) = v[c]
  BY <1>2, NumberRuns
<1>4. u[c] = v[c]
  BY <1>1, <1>2, <1>3, SumsAgree
<1>5. Adds(u, b)
  BY <1>1 DEF Summing
<1>6. u[b] = 2 ^ One(b) + u[c]
  BY <1>5 DEF Adds
<1> QED
  BY <1>1, <1>3, <1>4, <1>6, Zenon

\* and no bit is nothing:
LEMMA NumberOfNone == Proto!Number({}) = 0
<1>1. PICK u : Summing(u, {}) /\ Proto!Number({}) = u[{}]
  BY FS_EmptySet, NumberRuns
<1>2. Adds(u, {})
  BY <1>1 DEF Summing
<1> QED
  BY <1>1, <1>2 DEF Adds

\* A number is a natural number, and any of its bits can be taken away.
TakesApart(b) ==
  /\ Proto!Number(b) \in Nat
  /\ \A x \in b : Proto!Number(b) = 2 ^ x + Proto!Number(b \ {x})

\* two sets of bits without a common one add up.
LEMMA NumberTakesApart ==
  ASSUME NEW b, b \subseteq Nat, IsFiniteSet(b)
  PROVE  TakesApart(b)
<1> DEFINE G == {s \in SUBSET b : TakesApart(s)}
<1>1. ASSUME NEW s \in SUBSET b, \A r \in SUBSET s : r # s => r \in G, s # {} PROVE TakesApart(s)
  <2> DEFINE y == One(s)
             r == s \ {y}
  <2>1. y \in s /\ IsFiniteSet(s)
    BY <1>1, FS_Subset DEF One
  <2>2. y \in Nat /\ TakesApart(r)
    BY <1>1, <2>1
  <2>3. Proto!Number(s) = 2 ^ y + Proto!Number(r)
    BY <1>1, <2>1, NumberStep
  <2>4. Proto!Number(r) \in Nat /\ 2 ^ y \in Nat
    BY <2>2, PowerPositive DEF TakesApart
  <2> HIDE DEF y, r
  <2>5. Proto!Number(s) \in Nat
    BY <2>3, <2>4
  <2>6. ASSUME NEW x \in s, x # y PROVE Proto!Number(s) = 2 ^ x + Proto!Number(s \ {x})
    <3> DEFINE q == s \ {x}
               m == r \ {x}
    <3>1. x \in r /\ y \in q /\ q \ {y} = m /\ x \in Nat
      BY <2>1, <2>6 DEF r
    <3>2. TakesApart(q) /\ TakesApart(m)
      <4>1. q \in SUBSET s /\ q # s /\ m \in SUBSET s /\ m # s
        BY DEF r
      <4> HIDE DEF q, m
      <4> QED
        BY <1>1, <4>1
    <3> HIDE DEF q, m
    <3>3. Proto!Number(q) = 2 ^ y + Proto!Number(m)
      BY <3>1, <3>2 DEF TakesApart
    <3>4. Proto!Number(r) = 2 ^ x + Proto!Number(m)
      BY <2>2, <3>1 DEF TakesApart, m
    <3>5. Proto!Number(m) \in Nat /\ 2 ^ x \in Nat
      BY <3>1, <3>2, PowerPositive DEF TakesApart
    <3>6. Proto!Number(s) = 2 ^ x + Proto!Number(q)
      BY ONLY <2>3, <2>4, <3>3, <3>4, <3>5
    <3> QED
      BY <3>6 DEF q
  <2>7. \A x \in s : Proto!Number(s) = 2 ^ x + Proto!Number(s \ {x})
    BY <2>3, <2>6 DEF r
  <2> QED
    BY <2>5, <2>7 DEF TakesApart
<1>2. TakesApart({})
  BY NumberOfNone DEF TakesApart
<1>3. ASSUME NEW s \in SUBSET b, \A r \in SUBSET s : r # s => r \in G PROVE s \in G
  BY <1>1, <1>2, <1>3
<1>4. b \in G
  <2> HIDE DEF G
  <2> QED
    BY <1>3, EverySubset
<1> QED
  BY <1>4

\* Numbers without a common bit are added bit by bit.
LEMMA NumberOfUnion ==
  ASSUME NEW a, a \subseteq Nat, IsFiniteSet(a), NEW b, b \subseteq Nat, IsFiniteSet(b), a \cap b = {}
  PROVE  Proto!Number(a \cup b) = Proto!Number(a) + Proto!Number(b)
<1> DEFINE G == {s \in SUBSET b : Proto!Number(a \cup s) = Proto!Number(a) + Proto!Number(s)}
<1>1. Proto!Number(a) \in Nat
  BY NumberTakesApart DEF TakesApart
<1>2. ASSUME NEW s \in SUBSET b, \A r \in SUBSET s : r # s => r \in G, s # {} PROVE s \in G
  <2>1. PICK x \in s : TRUE
    BY <1>2
  <2> DEFINE r == s \ {x}
             w == a \cup s
  <2>2. Proto!Number(a \cup r) = Proto!Number(a) + Proto!Number(r)
    BY <1>2
  <2>3. w \ {x} = a \cup r /\ x \in w /\ x \in Nat
    OBVIOUS
  <2>4. TakesApart(s) /\ TakesApart(r) /\ TakesApart(w)
    <3>1. IsFiniteSet(s) /\ IsFiniteSet(r)
      BY FS_Subset
    <3>2. IsFiniteSet(w)
      BY <3>1, FS_Union
    <3>3. s \subseteq Nat /\ r \subseteq Nat /\ w \subseteq Nat
      OBVIOUS
    <3> HIDE DEF r, w
    <3> QED
      BY <3>1, <3>2, <3>3, NumberTakesApart
  <2>5. Proto!Number(s) = 2 ^ x + Proto!Number(r) /\ Proto!Number(r) \in Nat /\ 2 ^ x \in Nat
    BY <2>3, <2>4, PowerPositive DEF TakesApart
  <2> HIDE DEF r, w
  <2>6. Proto!Number(w) = 2 ^ x + Proto!Number(a \cup r)
    BY <2>3, <2>4 DEF TakesApart
  <2>7. Proto!Number(w) = Proto!Number(a) + Proto!Number(s)
    BY ONLY <1>1, <2>2, <2>5, <2>6
  <2> QED
    BY <2>7 DEF w
<1>3. {} \in G
  <2>1. a \cup {} = a
    OBVIOUS
  <2> QED
    BY <1>1, <2>1, NumberOfNone
<1>4. ASSUME NEW s \in SUBSET b, \A r \in SUBSET s : r # s => r \in G PROVE s \in G
  BY <1>2, <1>3, <1>4
<1>5. b \in G
  <2> HIDE DEF G
  <2> QED
    BY <1>4, EverySubset
<1> QED
  BY <1>5

ShiftLeft(b, k) == {x + k : x \in b}

\* Bits one by one further up multiply by a power.
LEMMA NumberShifted ==
  ASSUME NEW b, b \subseteq Nat, IsFiniteSet(b), NEW k \in Nat
  PROVE  /\ Proto!Number(ShiftLeft(b, k)) = 2 ^ k * Proto!Number(b)
         /\ ShiftLeft(b, k) \subseteq Nat /\ IsFiniteSet(ShiftLeft(b, k))
<1> DEFINE G == {s \in SUBSET b : Proto!Number(ShiftLeft(s, k)) = 2 ^ k * Proto!Number(s)}
<1>1. \A s \in SUBSET b : IsFiniteSet(s) /\ ShiftLeft(s, k) \subseteq Nat /\ IsFiniteSet(ShiftLeft(s, k))
  <2> SUFFICES ASSUME NEW s \in SUBSET b
               PROVE  IsFiniteSet(s) /\ ShiftLeft(s, k) \subseteq Nat /\ IsFiniteSet(ShiftLeft(s, k))
    OBVIOUS
  <2>1. IsFiniteSet(s)
    BY FS_Subset
  <2>2. ShiftLeft(s, k) \subseteq Nat
    BY DEF ShiftLeft
  <2> DEFINE f == [x \in s |-> x + k]
  <2>3. f \in Surjection(s, ShiftLeft(s, k))
    BY DEF Surjection, ShiftLeft
  <2>4. IsFiniteSet(ShiftLeft(s, k))
    <3> HIDE DEF f
    <3> QED
      BY <2>1, <2>3, FS_Surjection
  <2> QED
    BY <2>1, <2>2, <2>4
<1>2. ASSUME NEW s \in SUBSET b, \A r \in SUBSET s : r # s => r \in G, s # {} PROVE s \in G
  <2>1. PICK x \in s : TRUE
    BY <1>2
  <2> DEFINE r == s \ {x}
             w == ShiftLeft(s, k)
  <2>2. Proto!Number(ShiftLeft(r, k)) = 2 ^ k * Proto!Number(r)
    BY <1>2
  <2>3. x \in Nat /\ x + k \in w
    BY DEF ShiftLeft
  <2>4. w \ {x + k} = ShiftLeft(r, k)
    BY DEF ShiftLeft
  <2>5. TakesApart(s) /\ TakesApart(r) /\ TakesApart(w)
    <3>1. r \in SUBSET b /\ s \subseteq Nat /\ r \subseteq Nat
      OBVIOUS
    <3> HIDE DEF r
    <3> QED
      BY <1>1, <3>1, NumberTakesApart
  <2>6. Proto!Number(s) = 2 ^ x + Proto!Number(r) /\ Proto!Number(r) \in Nat
    BY <2>5 DEF TakesApart
  <2> HIDE DEF r, w
  <2>7. Proto!Number(w) = 2 ^ (x + k) + 2 ^ k * Proto!Number(r)
    BY <2>2, <2>3, <2>4, <2>5 DEF TakesApart
  <2>8. 2 ^ (x + k) = 2 ^ x * 2 ^ k /\ 2 ^ x \in Nat /\ 2 ^ k \in Nat
    BY <2>3, PowerSum, PowerPositive
  <2>9. \A c, d, e \in Nat : c * d + d * e = d * (c + e)
    OBVIOUS
  <2>10. Proto!Number(w) = 2 ^ k * Proto!Number(s)
    BY ONLY <2>6, <2>7, <2>8, <2>9
  <2> QED
    BY <2>10 DEF w
<1>3. {} \in G
  <2>1. ShiftLeft({}, k) = {}
    BY DEF ShiftLeft
  <2>2. 2 ^ k * 0 = 0
    BY PowerPositive
  <2> QED
    BY <2>1, <2>2, NumberOfNone
<1>4. ASSUME NEW s \in SUBSET b, \A r \in SUBSET s : r # s => r \in G PROVE s \in G
  BY <1>2, <1>3, <1>4
<1>5. b \in G
  <2> HIDE DEF G
  <2> QED
    BY <1>4, EverySubset
<1> QED
  BY <1>1, <1>5

-----------------------------------------------------------------------------
(* The bits of a number. *)

\* The sizes that the constants are.
LEMMA CodecSizes ==
  /\ Group \in Nat /\ Group >= 1 /\ Word \in Nat /\ Wide \in Nat /\ MaxVarintBytes \in Nat /\ MaxVarintBytes >= 1
  /\ Fixed32 \in Nat /\ Fixed64 \in Nat /\ Group <= Word /\ Word < Wide /\ Wide <= Group * MaxVarintBytes
BY CodecAssumption

BitOf(n, b) == (n \div 2 ^ b) % 2
BitsBelow(n, k) == {b \in 0..k - 1 : BitOf(n, b) = 1}

\* The number of the bits below k is what is left of n modulo 2^k.
LEMMA NumberOfBits ==
  ASSUME NEW n \in Nat, NEW k \in Nat
  PROVE  Proto!Number(BitsBelow(n, k)) = n % 2 ^ k
<1> DEFINE G == {m \in Nat : Proto!Number(BitsBelow(n, m)) = n % 2 ^ m}
<1>1. 0 \in G
  <2>1. BitsBelow(n, 0) = {}
    BY DEF BitsBelow
  <2>2. n % 2 ^ 0 = 0
    BY PowerZero
  <2> QED
    BY <2>1, <2>2, NumberOfNone
<1>2. ASSUME NEW m \in Nat, m \in G PROVE m + 1 \in G
  <2> DEFINE b == BitsBelow(n, m)
             c == BitsBelow(n, m + 1)
             bit == BitOf(n, m)
             p == 2 ^ m
  <2>1. p \in Nat /\ p >= 1 /\ 2 ^ (m + 1) = p * 2
    BY PowerPositive, PowerNext
  <2>2. n % (p * 2) = (n % p) + p * bit
    <3>1. n % (p * 2) = (n % p) + p * ((n \div p) % 2)
      <4>1. n \in Nat
        OBVIOUS
      <4>2. 2 \in Nat /\ 2 >= 1
        OBVIOUS
      <4> HIDE DEF p
      <4> QED
        BY <2>1, <4>1, <4>2, RemainderOfProduct, Zenon
    <3> QED
      BY <3>1 DEF BitOf
  <2>3. bit = 0 \/ bit = 1
    <3>1. n \div p \in Nat
      BY <2>1, Quotient
    <3> HIDE DEF p
    <3> QED
      BY <3>1 DEF BitOf, p
  <2>4. c = IF bit = 1 THEN b \cup {m} ELSE b
    <3>1. 0..(m + 1) - 1 = (0..m - 1) \cup {m}
      OBVIOUS
    <3> QED
      BY <3>1 DEF BitsBelow
  <2>5. b \subseteq Nat /\ IsFiniteSet(b) /\ m \notin b
    <3>1. b \subseteq 0..m - 1
      BY DEF BitsBelow
    <3>2. IsFiniteSet(0..m - 1) /\ m \notin 0..m - 1 /\ 0..m - 1 \subseteq Nat
      <4>1. 0 \in Int /\ m - 1 \in Int
        OBVIOUS
      <4> QED
        BY <4>1, FS_Interval
    <3> HIDE DEF b
    <3> QED
      BY <3>1, <3>2, FS_Subset
  <2>6. Proto!Number(b) = n % p
    BY <1>2
  <2> HIDE DEF b, c, bit
  <2>7. Proto!Number(c) = (n % p) + p * bit
    <3>1. CASE bit = 1
      <4> DEFINE a == b \cup {m}
      <4>1. a \subseteq Nat /\ IsFiniteSet(a) /\ m \in a /\ a \ {m} = b
        BY <2>5, FS_AddElement
      <4> HIDE DEF a
      <4>2. Proto!Number(a) = p + Proto!Number(b)
        BY <4>1, NumberTakesApart DEF TakesApart
      <4>3. c = a
        BY <2>4, <3>1 DEF a
      <4>4. n % p \in Nat
        BY <2>1, Quotient
      <4> HIDE DEF p
      <4> QED
        BY <2>1, <2>6, <3>1, <4>2, <4>3, <4>4
    <3>2. CASE bit = 0
      <4>1. n % p \in Nat
        BY <2>1, Quotient
      <4> HIDE DEF p
      <4> QED
        BY <2>1, <2>4, <2>6, <3>2, <4>1
    <3> QED
      BY <2>3, <3>1, <3>2
  <2>8. Proto!Number(c) = n % 2 ^ (m + 1)
    BY <2>1, <2>2, <2>7
  <2> QED
    BY <2>8 DEF c
<1>3. k \in G
  <2> HIDE DEF G
  <2> QED
    BY <1>1, <1>2, EveryNumber
<1> QED
  BY <1>3

\* A number has no bits beyond its size.
LEMMA NoBitsBeyond ==
  ASSUME NEW n \in Nat, NEW k \in Nat, n < 2 ^ k, NEW b \in Nat, BitOf(n, b) = 1
  PROVE  b < k
<1> SUFFICES ASSUME k <= b PROVE FALSE
  OBVIOUS
<1>1. n < 2 ^ b /\ 2 ^ b \in Nat /\ 2 ^ b >= 1
  BY PowerGrows, PowerPositive
<1>2. n = 0 * 2 ^ b + n
  BY <1>1
<1>3. n \div 2 ^ b = 0
  BY <1>1, <1>2, QuotientIsUnique
<1>4. 0 % 2 = 0
  OBVIOUS
<1>5. BitOf(n, b) = 0
  BY <1>3, <1>4, Zenon DEF BitOf
<1> QED
  BY <1>5

\* A number below a power has its bits below the exponent.
LEMMA BitsAreBelow ==
  ASSUME NEW n \in Nat, NEW k \in Nat, n < 2 ^ k, k <= Wide
  PROVE  /\ Proto!Bits(n) = BitsBelow(n, k) /\ Proto!Bits(n) \subseteq 0..k - 1
         /\ Proto!Bits(n) \subseteq Nat /\ IsFiniteSet(Proto!Bits(n)) /\ Proto!Number(Proto!Bits(n)) = n
<1>1. Wide \in Nat
  BY CodecSizes
<1>2. Proto!Bits(n) = {b \in 0..Wide - 1 : BitOf(n, b) = 1}
  BY DEF Proto!Bits, BitOf
<1>3. \A b \in 0..Wide - 1 : BitOf(n, b) = 1 => b \in 0..k - 1
  <2> SUFFICES ASSUME NEW b \in 0..Wide - 1, BitOf(n, b) = 1 PROVE b \in 0..k - 1
    OBVIOUS
  <2>1. b \in Nat
    BY <1>1
  <2>2. b < k
    BY <2>1, NoBitsBeyond
  <2> QED
    BY <2>1, <2>2
<1>4. \A b \in 0..k - 1 : b \in 0..Wide - 1
  BY <1>1
<1>5. Proto!Bits(n) = BitsBelow(n, k)
  BY <1>2, <1>3, <1>4 DEF BitsBelow
<1>6. BitsBelow(n, k) \subseteq 0..k - 1
  BY DEF BitsBelow
<1>7. IsFiniteSet(BitsBelow(n, k)) /\ BitsBelow(n, k) \subseteq Nat
  <2>1. 0 \in Int /\ k - 1 \in Int /\ 0..k - 1 \subseteq Nat
    OBVIOUS
  <2>2. IsFiniteSet(0..k - 1)
    BY <2>1, FS_Interval
  <2> QED
    BY <1>6, <2>1, <2>2, FS_Subset
<1>8. n % 2 ^ k = n
  <2>1. 2 ^ k \in Nat /\ 2 ^ k >= 1 /\ n = 0 * 2 ^ k + n
    BY PowerPositive
  <2> QED
    BY <2>1, QuotientIsUnique
<1> QED
  BY <1>5, <1>6, <1>7, <1>8, NumberOfBits

-----------------------------------------------------------------------------
(* Varints. *)

Numbers(bits) == {n \in Nat : n < 2 ^ bits}

\* A wide number has groups enough in the longest varint.
LEMMA GroupsFit ==
  ASSUME NEW n \in Numbers(Wide)
  PROVE  /\ Proto!Groups(n) \in 1..MaxVarintBytes /\ Proto!Groups(n) \in Nat /\ Proto!Groups(n) >= 1
         /\ n < 2 ^ (Group * Proto!Groups(n))
         /\ Proto!Groups(n) = 1 \/ n >= 2 ^ (Group * (Proto!Groups(n) - 1))
<1> DEFINE Fits(k) == n < 2 ^ (Group * k) /\ (k = 1 \/ n >= 2 ^ (Group * (k - 1)))
           T == {k \in Nat : k >= 1 /\ n < 2 ^ (Group * k)}
<1>1. n \in Nat /\ n < 2 ^ Wide
  BY DEF Numbers
<1>2. MaxVarintBytes \in T
  <2>1. Wide \in Nat /\ Group * MaxVarintBytes \in Nat /\ Wide <= Group * MaxVarintBytes
    BY CodecSizes
  <2>2. 2 ^ Wide <= 2 ^ (Group * MaxVarintBytes) /\ 2 ^ Wide \in Nat /\ 2 ^ (Group * MaxVarintBytes) \in Nat
    BY <2>1, PowerGrows, PowerPositive
  <2>3. n < 2 ^ (Group * MaxVarintBytes)
    BY ONLY <1>1, <2>2
  <2> QED
    BY <2>3, CodecSizes
<1>3. PICK k \in T : \A j \in T : k <= j
  <2> HIDE DEF T
  <2>1. T \subseteq Nat
    BY DEF T
  <2> QED
    BY <1>2, <2>1, LeastNumber
<1>4. k \in 1..MaxVarintBytes /\ n < 2 ^ (Group * k)
  BY <1>2, <1>3, CodecSizes
<1>5. k # 1 => n >= 2 ^ (Group * (k - 1))
  <2> SUFFICES ASSUME k # 1, ~(n >= 2 ^ (Group * (k - 1))) PROVE FALSE
    OBVIOUS
  <2>1. k - 1 \in Nat /\ k - 1 >= 1 /\ ~(k <= k - 1)
    BY <1>4
  <2>2. Group * (k - 1) \in Nat
    BY <2>1, CodecSizes
  <2>3. 2 ^ (Group * (k - 1)) \in Nat
    BY <2>2, PowerPositive
  <2>4. n < 2 ^ (Group * (k - 1))
    BY <1>1, <2>3
  <2> QED
    BY <1>3, <2>1, <2>4
<1>6. Fits(k)
  BY <1>4, <1>5
<1>7. Proto!Groups(n) = CHOOSE j \in 1..MaxVarintBytes : Fits(j)
  BY DEF Proto!Groups
<1> HIDE DEF Fits
<1>8. Proto!Groups(n) \in 1..MaxVarintBytes /\ Fits(Proto!Groups(n))
  BY <1>4, <1>6, <1>7, Zenon
<1> QED
  BY <1>8 DEF Fits

Digit(n, i) == (n \div 2 ^ (Group * (i - 1))) % 2 ^ Group

\* A digit is what is left of a byte without its continuation bit.
LEMMA DigitIsLow ==
  ASSUME NEW n \in Nat, NEW i \in Nat, i >= 1
  PROVE  Digit(n, i) \in Nat /\ Digit(n, i) < 2 ^ Group
<1>1. i - 1 \in Nat /\ Group \in Nat
  BY CodecSizes
<1>2. Group * (i - 1) \in Nat
  BY <1>1
<1> DEFINE p == 2 ^ (Group * (i - 1))
           g == 2 ^ Group
<1>3. p \in Nat /\ p >= 1 /\ g \in Nat /\ g >= 1
  BY <1>1, <1>2, PowerPositive
<1> HIDE DEF p, g
<1>4. n \div p \in Nat
  BY <1>3, Quotient
<1>5. (n \div p) % g \in Nat /\ (n \div p) % g < g
  BY <1>3, <1>4, Quotient
<1> QED
  BY <1>5 DEF Digit, p, g

\* The bytes of a number: its digits, all but the last with a continuation bit.
LEMMA EncodingOf ==
  ASSUME NEW n \in Numbers(Wide)
  PROVE  /\ Proto!EncodeVarintBigInt(n) \in Seq(Nat)
         /\ Len(Proto!EncodeVarintBigInt(n)) = Proto!Groups(n)
         /\ \A i \in 1..Proto!Groups(n) :
              /\ Proto!More(Proto!EncodeVarintBigInt(n)[i]) <=> i < Proto!Groups(n)
              /\ Proto!Low(Proto!EncodeVarintBigInt(n)[i]) = Digit(n, i)
<1> DEFINE k == Proto!Groups(n)
           e == [i \in 1..k |-> Digit(n, i) + (IF i < k THEN 2 ^ Group ELSE 0)]
           g == 2 ^ Group
<1>1. Proto!EncodeVarintBigInt(n) = e
  BY DEF Proto!EncodeVarintBigInt, Digit
<1>2. k \in Nat /\ n \in Nat
  BY GroupsFit DEF Numbers
<1>3. g \in Nat /\ g >= 1
  BY CodecSizes, PowerPositive
<1> HIDE DEF k
<1>4. ASSUME NEW i \in 1..k
      PROVE  e[i] \in Nat /\ (Proto!More(e[i]) <=> i < k) /\ Proto!Low(e[i]) = Digit(n, i)
  <2> DEFINE d == Digit(n, i)
             x == e[i]
  <2>1. d \in Nat /\ d < g
    BY <1>2, DigitIsLow
  <2>2. x = d + (IF i < k THEN g ELSE 0)
    OBVIOUS
  <2>3. Proto!More(x) = (x >= g) /\ Proto!Low(x) = x % g
    BY DEF Proto!More, Proto!Low
  <2> HIDE DEF d, x, g
  <2>4. CASE i < k
    <3>1. x = 1 * g + d /\ x \in Nat /\ x >= g
      BY <1>3, <2>1, <2>2, <2>4
    <3>2. x % g = d
      BY <1>3, <2>1, <3>1, QuotientIsUnique
    <3> QED
      BY <2>3, <2>4, <3>1, <3>2 DEF d, x
  <2>5. CASE ~(i < k)
    <3>1. x = 0 * g + d /\ x \in Nat /\ ~(x >= g)
      BY <1>3, <2>1, <2>2, <2>5
    <3>2. x % g = d
      BY <1>3, <2>1, <3>1, QuotientIsUnique
    <3> QED
      BY <2>3, <2>5, <3>1, <3>2 DEF d, x
  <2> QED
    BY <2>4, <2>5
<1>5. e \in Seq(Nat) /\ Len(e) = k
  <2>1. e = [i \in 1..k |-> e[i]]
    OBVIOUS
  <2> HIDE DEF e
  <2>2. e \in [1..k -> Nat]
    BY <1>4, <2>1
  <2> QED
    BY <1>2, <2>2
<1> HIDE DEF e
<1> QED
  BY <1>1, <1>4, <1>5 DEF k

\* The bytes have s after the first `from`.
Carries(bytes, from, s) ==
  /\ from \in Nat /\ Len(s) \in Nat /\ Len(bytes) \in Nat /\ from + Len(s) <= Len(bytes)
  /\ \A i \in 1..Len(s) : bytes[from + i] = s[i]

\* Where a varint is, its end is found.
LEMMA VarintIsFound ==
  ASSUME NEW n \in Numbers(Wide), NEW bytes, NEW from, Carries(bytes, from, Proto!EncodeVarintBigInt(n))
  PROVE  Proto!VarintAt(bytes, from) = [error |-> "none", length |-> Proto!Groups(n)]
<1> DEFINE k == Proto!Groups(n)
           e == Proto!EncodeVarintBigInt(n)
           stops == {j \in 1..MaxVarintBytes : from + j <= Len(bytes) /\ ~Proto!More(bytes[from + j])}
<1>1. k \in 1..MaxVarintBytes /\ k \in Nat /\ k >= 1 /\ Len(e) = k
  BY GroupsFit, EncodingOf
<1>2. \A i \in 1..k : bytes[from + i] = e[i] /\ (Proto!More(e[i]) <=> i < k)
  BY <1>1, EncodingOf DEF Carries
<1>3. from \in Nat /\ Len(bytes) \in Nat /\ from + k <= Len(bytes)
  BY <1>1 DEF Carries
<1> HIDE DEF k, e
<1>4. k \in stops
  <2>1. k \in 1..k /\ ~(k < k)
    BY <1>1
  <2> QED
    BY <1>1, <1>2, <1>3, <2>1
<1>5. \A j \in stops : k <= j /\ j \in Nat
  <2> SUFFICES ASSUME NEW j \in stops PROVE k <= j /\ j \in Nat
    OBVIOUS
  <2>1. j \in Nat /\ j >= 1 /\ ~Proto!More(bytes[from + j])
    BY CodecSizes
  <2>2. ASSUME ~(k <= j) PROVE FALSE
    <3>1. j \in 1..k /\ j < k
      BY <1>1, <2>1, <2>2
    <3> QED
      BY <1>2, <2>1, <3>1
  <2> QED
    BY <2>1, <2>2
<1> HIDE DEF stops
<1>6. Proto!Min(stops) = k
  <2>1. Proto!Min(stops) \in stops /\ \A j \in stops : Proto!Min(stops) <= j
    BY <1>4, <1>5 DEF Proto!Min
  <2> DEFINE m == Proto!Min(stops)
  <2>2. k <= m /\ m \in Nat /\ m <= k
    BY <1>4, <1>5, <2>1
  <2> HIDE DEF m
  <2>3. m = k
    BY <1>1, <2>2
  <2> QED
    BY <2>3 DEF m
<1>7. stops # {}
  BY <1>4
<1> QED
  BY <1>6, <1>7 DEF Proto!VarintAt, stops, k

\* The bits of the first m digits, at their places.
DigitBits(n, m) == UNION {ShiftLeft(Proto!Bits(Digit(n, i)), Group * (i - 1)) : i \in 1..m}

\* The bits of the digits are those of the number, up to the last digit.
LEMMA DigitsAdd ==
  ASSUME NEW n \in Nat, NEW m \in Nat
  PROVE  /\ Proto!Number(DigitBits(n, m)) = n % 2 ^ (Group * m)
         /\ DigitBits(n, m) \subseteq Nat /\ IsFiniteSet(DigitBits(n, m))
         /\ \A b \in DigitBits(n, m) : b < Group * m
<1> DEFINE Good(k) == /\ Proto!Number(DigitBits(n, k)) = n % 2 ^ (Group * k)
                      /\ DigitBits(n, k) \subseteq Nat /\ IsFiniteSet(DigitBits(n, k))
                      /\ \A b \in DigitBits(n, k) : b < Group * k
           G == {k \in Nat : Good(k)}
<1>1. 0 \in G
  <2>1. DigitBits(n, 0) = {}
    BY DEF DigitBits
  <2>2. Group * 0 = 0 /\ n % 2 ^ 0 = 0
    BY CodecSizes, PowerZero
  <2>3. Good(0)
    BY <2>1, <2>2, NumberOfNone, FS_EmptySet
  <2> QED
    BY <2>3
<1>2. ASSUME NEW k \in Nat, k \in G PROVE k + 1 \in G
  <2> DEFINE a == DigitBits(n, k)
             j == Group * k
             d == Digit(n, k + 1)
             b == ShiftLeft(Proto!Bits(d), j)
             c == DigitBits(n, k + 1)
  <2>1. j \in Nat /\ Group \in Nat /\ Group >= 1 /\ Group <= Wide /\ Group * (k + 1) = j + Group
    BY CodecSizes
  <2>2. c = a \cup b
    <3>1. 1..(k + 1) = (1..k) \cup {k + 1} /\ (k + 1) - 1 = k
      OBVIOUS
    <3> QED
      BY <3>1 DEF DigitBits
  <2>3. d \in Nat /\ d < 2 ^ Group /\ d = (n \div 2 ^ j) % 2 ^ Group
    <3>1. k + 1 \in Nat /\ k + 1 >= 1 /\ (k + 1) - 1 = k
      OBVIOUS
    <3>2. d = (n \div 2 ^ j) % 2 ^ Group
      BY <3>1, Zenon DEF Digit
    <3> QED
      BY <3>1, <3>2, DigitIsLow
  <2> HIDE DEF d
  <2>4. /\ Proto!Bits(d) \subseteq 0..Group - 1 /\ Proto!Bits(d) \subseteq Nat
        /\ IsFiniteSet(Proto!Bits(d)) /\ Proto!Number(Proto!Bits(d)) = d
    BY <2>1, <2>3, BitsAreBelow
  <2>5. Proto!Number(b) = 2 ^ j * d /\ b \subseteq Nat /\ IsFiniteSet(b)
    BY <2>1, <2>4, NumberShifted
  <2>6. \A x \in b : j <= x /\ x < j + Group
    BY <2>1, <2>4 DEF ShiftLeft
  <2>7. Proto!Number(a) = n % 2 ^ j /\ a \subseteq Nat /\ IsFiniteSet(a) /\ \A x \in a : x < j
    BY <1>2
  <2> HIDE DEF a, b, c, j
  <2>8. a \cap b = {}
    <3> SUFFICES ASSUME NEW x \in a, x \in b PROVE FALSE
      OBVIOUS
    <3>1. x \in Nat /\ x < j /\ j <= x
      BY <2>6, <2>7
    <3> QED
      BY <2>1, <3>1
  <2>9. Proto!Number(c) = (n % 2 ^ j) + 2 ^ j * d
    <3>1. Proto!Number(a \cup b) = Proto!Number(a) + Proto!Number(b)
      BY <2>5, <2>7, <2>8, NumberOfUnion, Zenon
    <3> QED
      BY <2>2, <2>5, <2>7, <3>1, Zenon
  <2>10. n % 2 ^ (j + Group) = (n % 2 ^ j) + 2 ^ j * d
    <3>1. 2 ^ (j + Group) = 2 ^ j * 2 ^ Group
      BY <2>1, PowerSum
    <3>2. 2 ^ j \in Nat /\ 2 ^ j >= 1 /\ 2 ^ Group \in Nat /\ 2 ^ Group >= 1
      BY <2>1, PowerPositive
    <3>3. n % (2 ^ j * 2 ^ Group) = (n % 2 ^ j) + 2 ^ j * ((n \div 2 ^ j) % 2 ^ Group)
      BY <3>2, RemainderOfProduct, Zenon
    <3> QED
      BY <2>3, <3>1, <3>3, Zenon
  <2>11. c \subseteq Nat /\ IsFiniteSet(c)
    BY <2>2, <2>5, <2>7, FS_Union
  <2>12. \A x \in c : x < j + Group
    <3> SUFFICES ASSUME NEW x \in c PROVE x < j + Group
      OBVIOUS
    <3>1. x \in Nat /\ (x \in a \/ x \in b)
      BY <2>2, <2>11
    <3> QED
      BY <2>1, <2>6, <2>7, <3>1
  <2>13. Good(k + 1)
    BY <2>1, <2>9, <2>10, <2>11, <2>12 DEF c
  <2> QED
    BY <2>13
<1>3. m \in G
  <2> HIDE DEF G
  <2> QED
    BY <1>1, <1>2, EveryNumber
<1> QED
  BY <1>3

\* A number is the number of its digits' bits.
LEMMA DigitsAreAll ==
  ASSUME NEW n \in Numbers(Wide)
  PROVE  /\ Proto!Number(DigitBits(n, Proto!Groups(n))) = n
         /\ DigitBits(n, Proto!Groups(n)) \subseteq Nat /\ IsFiniteSet(DigitBits(n, Proto!Groups(n)))
<1> DEFINE k == Proto!Groups(n)
           p == 2 ^ (Group * k)
<1>1. k \in Nat /\ n < p /\ n \in Nat
  BY GroupsFit DEF Numbers
<1>2. p \in Nat /\ p >= 1
  <2>1. Group * k \in Nat
    BY <1>1, CodecSizes
  <2> QED
    BY <2>1, PowerPositive
<1> HIDE DEF k
<1>3. n % p = n
  <2> HIDE DEF p
  <2>1. n = 0 * p + n
    BY <1>1, <1>2
  <2> QED
    BY <1>1, <1>2, <2>1, QuotientIsUnique
<1> QED
  BY <1>1, <1>3, DigitsAdd DEF k

\* What stands in the bytes as the encoding of n.
LEMMA DigitsAreRead ==
  ASSUME NEW n \in Numbers(Wide), NEW bytes, NEW from, Carries(bytes, from, Proto!EncodeVarintBigInt(n))
  PROVE  \A i \in 1..Proto!Groups(n) : Proto!Low(bytes[from + i]) = Digit(n, i)
BY EncodingOf DEF Carries

\* A varint that is read in full is the number that was written.
LEMMA VarintIsRead ==
  ASSUME NEW n \in Numbers(Wide), NEW bytes, NEW from, Carries(bytes, from, Proto!EncodeVarintBigInt(n))
  PROVE  Proto!ReadVarintBigInt(bytes, from) = n
<1> DEFINE k == Proto!Groups(n)
<1>1. Proto!VarintAt(bytes, from).length = k
  BY VarintIsFound
<1>2. \A i \in 1..k : {b + Group * (i - 1) : b \in Proto!Bits(Proto!Low(bytes[from + i]))}
                        = ShiftLeft(Proto!Bits(Digit(n, i)), Group * (i - 1))
  BY DigitsAreRead DEF ShiftLeft
<1> HIDE DEF k
<1>3. UNION {{b + Group * (i - 1) : b \in Proto!Bits(Proto!Low(bytes[from + i]))} : i \in 1..k} = DigitBits(n, k)
  BY <1>2 DEF DigitBits
<1>4. Proto!ReadVarintBigInt(bytes, from) = Proto!Number(DigitBits(n, k))
  BY <1>1, <1>3 DEF Proto!ReadVarintBigInt
<1> QED
  BY <1>4, DigitsAreAll DEF k

\* A word is a number that every varint can hold.
LEMMA WordsFit ==
  ASSUME NEW n \in Numbers(Word)
  PROVE  n \in Nat /\ n \in Numbers(Wide) /\ Proto!EncodeVarint(n) = Proto!EncodeVarintBigInt(n)
<1>1. n \in Nat /\ n < 2 ^ Word
  BY DEF Numbers
<1>2. 2 ^ Word <= 2 ^ Wide /\ 2 ^ Word \in Nat /\ 2 ^ Wide \in Nat /\ 2 ^ Word >= 1
  BY CodecSizes, PowerGrows, PowerPositive
<1>3. n \in Numbers(Wide)
  BY <1>1, <1>2 DEF Numbers
<1>4. n % 2 ^ Word = n
  <2>1. n = 0 * 2 ^ Word + n
    BY <1>1, <1>2
  <2> QED
    BY <1>1, <1>2, <2>1, QuotientIsUnique
<1> QED
  BY <1>1, <1>3, <1>4 DEF Proto!EncodeVarint

\* A number is at least what any of its bits stands for.
LEMMA BitsAreInside ==
  ASSUME NEW b, b \subseteq Nat, IsFiniteSet(b), NEW w \in Nat, Proto!Number(b) < 2 ^ w
  PROVE  b \subseteq 0..w - 1
<1> SUFFICES ASSUME NEW x \in b, ~(x < w) PROVE FALSE
  OBVIOUS
<1>1. x \in Nat /\ w <= x
  OBVIOUS
<1>2. Proto!Number(b) = 2 ^ x + Proto!Number(b \ {x})
  BY NumberTakesApart DEF TakesApart
<1>3. Proto!Number(b \ {x}) \in Nat
  <2>1. IsFiniteSet(b \ {x}) /\ b \ {x} \subseteq Nat
    BY FS_Subset
  <2> QED
    BY <2>1, NumberTakesApart DEF TakesApart
<1>4. 2 ^ w <= 2 ^ x /\ 2 ^ w \in Nat /\ 2 ^ x \in Nat
  BY <1>1, PowerGrows, PowerPositive
<1>5. Proto!Number(b) < 2 ^ w
  OBVIOUS
<1> QED
  BY ONLY <1>2, <1>3, <1>4, <1>5

\* A word's groups start within it.
LEMMA GroupsStartInside ==
  ASSUME NEW n \in Numbers(Word), NEW i \in 1..Proto!Groups(n)
  PROVE  Group * (i - 1) \in Nat /\ Group * (i - 1) < Word
<1>1. n \in Nat /\ n < 2 ^ Word
  BY DEF Numbers
<1>2. 2 ^ Word \in Nat
  BY CodecSizes, PowerPositive
<1>3. n \in Numbers(Wide)
  BY WordsFit
<1> DEFINE k == Proto!Groups(n)
<1>4. k \in Nat /\ k >= 1 /\ (k = 1 \/ n >= 2 ^ (Group * (k - 1)))
  BY <1>3, GroupsFit
<1>5. i \in 1..k
  OBVIOUS
<1> HIDE DEF k
<1>6. i \in Nat /\ i >= 1 /\ i - 1 \in Nat /\ i <= k /\ k - 1 \in Nat
  BY <1>4, <1>5
<1>7. Group \in Nat /\ Word \in Nat /\ Word >= 1
  BY CodecSizes
<1>8. Group * (i - 1) \in Nat /\ Group * (k - 1) \in Nat
  BY <1>6, <1>7
<1>9. Group * (k - 1) < Word
  <2>1. CASE k = 1
    BY <1>7, <2>1
  <2>2. CASE k # 1
    <3> SUFFICES ASSUME ~(Group * (k - 1) < Word) PROVE FALSE
      OBVIOUS
    <3>1. Word <= Group * (k - 1)
      BY <1>7, <1>8
    <3> HIDE DEF k
    <3>2. 2 ^ Word <= 2 ^ (Group * (k - 1)) /\ 2 ^ (Group * (k - 1)) \in Nat
      BY <1>7, <1>8, <3>1, PowerGrows, PowerPositive
    <3>3. n >= 2 ^ (Group * (k - 1))
      BY <1>4, <2>2
    <3> QED
      BY ONLY <1>1, <1>2, <3>2, <3>3
  <2> QED
    BY <2>1, <2>2
<1>10. Group * (i - 1) <= Group * (k - 1)
  <2>1. \A a, b \in Nat : a <= b => Group * a <= Group * b
    <3> SUFFICES ASSUME NEW a \in Nat, NEW b \in Nat, a <= b PROVE Group * a <= Group * b
      OBVIOUS
    <3>1. b - a \in Nat /\ b = a + (b - a)
      OBVIOUS
    <3>2. PICK c \in Nat : b = a + c
      BY <3>1
    <3>3. Group * (a + c) = Group * a + Group * c /\ Group * c \in Nat /\ Group * a \in Nat
      BY <1>7
    <3> QED
      BY <3>2, <3>3
  <2>2. i - 1 <= k - 1
    BY <1>4, <1>6
  <2> QED
    BY <1>6, <2>1, <2>2
<1> QED
  BY <1>7, <1>8, <1>9, <1>10

\* A word that is read with shifts that wrap around is the word that was written.
LEMMA WordIsRead ==
  ASSUME NEW n \in Numbers(Word), NEW bytes, NEW from, Carries(bytes, from, Proto!EncodeVarintBigInt(n))
  PROVE  /\ Proto!ReadVarint(bytes, from) = n
         /\ Proto!VarintAt(bytes, from) = [error |-> "none", length |-> Proto!Groups(n)]
<1> DEFINE k == Proto!Groups(n)
           s(i) == {b + ((Group * (i - 1)) % Word) : b \in Proto!Bits(Proto!Low(bytes[from + i]))} \cap 0..Word - 1
           all == DigitBits(n, k)
<1>1. n \in Numbers(Wide)
  BY WordsFit
<1>2. /\ Proto!VarintAt(bytes, from) = [error |-> "none", length |-> k]
      /\ Proto!VarintAt(bytes, from).length = k
  BY <1>1, VarintIsFound
<1>3. \A i \in 1..k : (Group * (i - 1)) % Word = Group * (i - 1)
  <2> SUFFICES ASSUME NEW i \in 1..k PROVE (Group * (i - 1)) % Word = Group * (i - 1)
    OBVIOUS
  <2> DEFINE g == Group * (i - 1)
  <2>1. g \in Nat /\ g < Word /\ Word \in Nat /\ Word >= 1
    BY GroupsStartInside, CodecSizes
  <2> HIDE DEF g
  <2>2. g = 0 * Word + g
    BY <2>1
  <2>3. g % Word = g
    BY <2>1, <2>2, QuotientIsUnique
  <2> QED
    BY <2>3 DEF g
<1>4. \A i \in 1..k : Proto!Low(bytes[from + i]) = Digit(n, i)
  BY <1>1, DigitsAreRead
<1>5. Proto!Number(all) = n /\ all \subseteq Nat /\ IsFiniteSet(all)
  BY <1>1, DigitsAreAll
<1>6. all \subseteq 0..Word - 1
  <2>1. Proto!Number(all) < 2 ^ Word /\ Word \in Nat
    BY <1>5, CodecSizes DEF Numbers
  <2> HIDE DEF all
  <2> QED
    BY <1>5, <2>1, BitsAreInside
<1> HIDE DEF k
<1>7. \A i \in 1..k : s(i) = ShiftLeft(Proto!Bits(Digit(n, i)), Group * (i - 1)) \cap 0..Word - 1
  BY <1>3, <1>4 DEF ShiftLeft
<1>8. UNION {s(i) : i \in 1..k} = all
  <2> HIDE DEF s
  <2>1. UNION {s(i) : i \in 1..k} = all \cap 0..Word - 1
    BY <1>7 DEF DigitBits
  <2> QED
    BY <1>6, <2>1
<1>9. Proto!ReadVarint(bytes, from) = Proto!Number(UNION {s(i) : i \in 1..k})
  BY <1>2 DEF Proto!ReadVarint
<1> QED
  BY <1>2, <1>5, <1>8, <1>9, Zenon DEF k

\* Whatever the bytes are, what is read is a number.
LEMMA ReadingIsNumber ==
  ASSUME NEW bytes, NEW from
  PROVE  Proto!ReadVarint(bytes, from) \in Nat
<1> DEFINE k == Proto!VarintAt(bytes, from).length
           s(i) == {b + ((Group * (i - 1)) % Word) : b \in Proto!Bits(Proto!Low(bytes[from + i]))} \cap 0..Word - 1
           all == UNION {s(i) : i \in 1..k}
<1>1. all \subseteq 0..Word - 1
  OBVIOUS
<1>2. Word \in Nat /\ 0 \in Int /\ Word - 1 \in Int
  BY CodecSizes
<1>3. IsFiniteSet(0..Word - 1) /\ 0..Word - 1 \subseteq Nat
  BY <1>2, FS_Interval
<1> HIDE DEF all
<1>4. IsFiniteSet(all) /\ all \subseteq Nat
  BY <1>1, <1>3, FS_Subset
<1>5. Proto!Number(all) \in Nat
  BY <1>4, NumberTakesApart DEF TakesApart
<1>6. Proto!ReadVarint(bytes, from) = Proto!Number(all)
  BY DEF Proto!ReadVarint, all
<1> QED
  BY <1>5, <1>6

-----------------------------------------------------------------------------
(* Bytes one after the other. *)

Bytes == Seq(Nat)

Joining(u, seqs, n) == u[1] = seqs[1] /\ \A m \in 2..n : u[m] = u[m - 1] \o seqs[m]

\* A fact that each number from 1 on hands to the next one, up to a last.
LEMMA AllFromOne ==
  ASSUME NEW n \in Nat, NEW G, 1 \in G, \A m \in 2..n : m - 1 \in G => m \in G
  PROVE  \A m \in 1..n : m \in G
<1> SUFFICES ASSUME NEW k \in 1..n, k \notin G PROVE FALSE
  OBVIOUS
<1> DEFINE T == (1..n) \ G
<1>1. T \subseteq Nat /\ T # {}
  OBVIOUS
<1>2. PICK m \in T : \A l \in T : m <= l
  BY <1>1, LeastNumber
<1>3. m \in 2..n /\ m - 1 \in 1..n /\ ~(m <= m - 1)
  BY <1>2
<1>4. m - 1 \in G
  BY <1>2, <1>3
<1> QED
  BY <1>2, <1>3, <1>4

\* Joining has a result.
LEMMA JoinRuns ==
  ASSUME NEW seqs, NEW n \in Nat, n >= 1, Len(seqs) = n
  PROVE  \E u : Joining(u, seqs, n) /\ Proto!FlattenSeq(seqs) = u[n]
<1> DEFINE G == {k \in 1..n : \E u : Joining(u, seqs, k)}
           All(u) == u = [i \in 1..n |-> IF i = 1 THEN seqs[i] ELSE u[i - 1] \o seqs[i]]
<1>1. 1 \in G
  <2> DEFINE u == [i \in 1..1 |-> seqs[1]]
  <2>1. Joining(u, seqs, 1)
    BY DEF Joining
  <2> HIDE DEF u
  <2> QED
    BY <2>1
<1>2. ASSUME NEW k \in 2..n, k - 1 \in G PROVE k \in G
  <2>1. PICK u : Joining(u, seqs, k - 1)
    BY <1>2
  <2> DEFINE v == [i \in 1..k |-> IF i # k THEN u[i] ELSE u[k - 1] \o seqs[k]]
  <2>0. \A i \in 1..k : v[i] = IF i # k THEN u[i] ELSE u[k - 1] \o seqs[k]
    OBVIOUS
  <2> HIDE DEF v
  <2>2. v[1] = u[1] /\ \A m \in 2..k : v[m - 1] = u[m - 1] /\ (m # k => v[m] = u[m])
    <3>1. 1 \in 1..k /\ 1 # k /\ \A m \in 2..k : m - 1 \in 1..k /\ m - 1 # k /\ m \in 1..k
      OBVIOUS
    <3> QED
      BY <2>0, <3>1, Zenon
  <2>3. v[k] = u[k - 1] \o seqs[k]
    <3>1. k \in 1..k
      OBVIOUS
    <3> QED
      BY <2>0, <3>1, Zenon
  <2>4. ASSUME NEW m \in 2..k PROVE v[m] = v[m - 1] \o seqs[m]
    <3>1. CASE m = k
      BY <2>2, <2>3, <3>1
    <3>2. CASE m # k
      <4>1. m \in 2..k - 1
        BY <3>2
      <4>2. u[m] = u[m - 1] \o seqs[m]
        BY <2>1, <4>1 DEF Joining
      <4> QED
        BY <2>2, <3>2, <4>2
    <3> QED
      BY <3>1, <3>2
  <2>5. Joining(v, seqs, k)
    BY <2>1, <2>2, <2>4 DEF Joining
  <2> QED
    BY <2>5
<1>3. n \in G
  <2> HIDE DEF G
  <2>1. \A m \in 1..n : m \in G
    <3>1. \A m \in 2..n : m - 1 \in G => m \in G
      BY <1>2
    <3> QED
      BY <1>1, <3>1, AllFromOne, Zenon
  <2> QED
    BY <2>1
<1>4. PICK u : Joining(u, seqs, n)
  BY <1>3
<1> DEFINE v == [i \in 1..n |-> u[i]]
<1>5. All(v)
  <2>1. \A i \in 1..n : v[i] = u[i]
    OBVIOUS
  <2>2. v = [i \in 1..n |-> v[i]]
    OBVIOUS
  <2> HIDE DEF v
  <2>3. ASSUME NEW i \in 1..n PROVE v[i] = IF i = 1 THEN seqs[i] ELSE v[i - 1] \o seqs[i]
    <3>1. CASE i = 1
      BY <1>4, <2>1, <3>1 DEF Joining
    <3>2. CASE i # 1
      <4>1. i \in 2..n /\ i - 1 \in 1..n
        BY <3>2
      <4>2. v[i - 1] = u[i - 1] /\ v[i] = u[i] /\ u[i] = u[i - 1] \o seqs[i]
        BY <1>4, <2>1, <4>1 DEF Joining
      <4> QED
        BY <3>2, <4>2
    <3> QED
      BY <3>1, <3>2
  <2>4. [i \in 1..n |-> v[i]] = [i \in 1..n |-> IF i = 1 THEN seqs[i] ELSE v[i - 1] \o seqs[i]]
    BY <2>3, Zenon
  <2> QED
    BY <2>2, <2>4, Zenon
<1> HIDE DEF v
<1>6. All(CHOOSE w : All(w))
  BY <1>5, Zenon
<1>7. Proto!FlattenSeq(seqs) = (CHOOSE w : All(w))[n]
  BY DEF Proto!FlattenSeq
<1> DEFINE w == CHOOSE w : All(w)
<1>8. Joining(w, seqs, n)
  <2> HIDE DEF w
  <2>1. All(w)
    BY <1>6 DEF w
  <2>2. ASSUME NEW i \in 1..n PROVE w[i] = IF i = 1 THEN seqs[i] ELSE w[i - 1] \o seqs[i]
    BY <2>1, Zenon
  <2>3. 1 \in 1..n
    OBVIOUS
  <2>4. w[1] = seqs[1]
    BY <2>2, <2>3
  <2>5. ASSUME NEW i \in 2..n PROVE w[i] = w[i - 1] \o seqs[i]
    <3>1. i \in 1..n /\ i # 1
      OBVIOUS
    <3> QED
      BY <2>2, <3>1
  <2> QED
    BY <2>4, <2>5 DEF Joining
<1> QED
  BY <1>7, <1>8

\* Nothing joined is nothing;
LEMMA JoinNone == Proto!FlattenSeq(<<>>) = <<>>
BY DEF Proto!FlattenSeq

\* one sequence more is appended.
LEMMA JoinNext ==
  ASSUME NEW seqs \in Seq(Bytes), NEW n \in Nat, Len(seqs) = n + 1
  PROVE  Proto!FlattenSeq(seqs) = Proto!FlattenSeq(SubSeq(seqs, 1, n)) \o seqs[n + 1]
<1>1. PICK u : Joining(u, seqs, n + 1) /\ Proto!FlattenSeq(seqs) = u[n + 1]
  <2>1. n + 1 \in Nat /\ n + 1 >= 1
    OBVIOUS
  <2> QED
    BY <2>1, JoinRuns
<1>2. CASE n = 0
  <2>1. SubSeq(seqs, 1, n) = <<>>
    BY <1>2
  <2>2. u[n + 1] = seqs[n + 1] /\ seqs[n + 1] \in Bytes
    BY <1>1, <1>2 DEF Joining
  <2>3. <<>> \o seqs[n + 1] = seqs[n + 1]
    BY <2>2 DEF Bytes
  <2> QED
    BY <1>1, <2>1, <2>2, <2>3, JoinNone
<1>3. CASE n # 0
  <2> DEFINE front == SubSeq(seqs, 1, n)
  <2>1. Len(front) = n /\ \A i \in 1..n : front[i] = seqs[i]
    OBVIOUS
  <2> HIDE DEF front
  <2>2. PICK v : Joining(v, front, n) /\ Proto!FlattenSeq(front) = v[n]
    <3>1. n >= 1
      BY <1>3
    <3> QED
      BY <2>1, <3>1, JoinRuns
  <2> DEFINE G == {m \in 1..n : u[m] = v[m]}
  <2>3. 1 \in G
    <3>1. 1 \in 1..n
      BY <1>3
    <3> QED
      BY <1>1, <2>1, <2>2, <3>1 DEF Joining
  <2>4. ASSUME NEW m \in 2..n, m - 1 \in G PROVE m \in G
    <3>1. m \in 1..n /\ m \in 2..n + 1
      OBVIOUS
    <3>2. u[m] = u[m - 1] \o seqs[m] /\ v[m] = v[m - 1] \o front[m]
      BY <1>1, <2>2, <3>1 DEF Joining
    <3>3. u[m - 1] = v[m - 1] /\ front[m] = seqs[m]
      BY <2>1, <2>4, <3>1
    <3> QED
      BY <3>1, <3>2, <3>3
  <2>5. n \in G
    <3> HIDE DEF G
    <3>1. \A m \in 1..n : m \in G
      BY <2>3, <2>4, AllFromOne, Zenon
    <3> QED
      BY <1>3, <3>1
  <2>6. u[n + 1] = u[n] \o seqs[n + 1]
    <3>1. n + 1 \in 2..n + 1 /\ (n + 1) - 1 = n
      BY <1>3
    <3> QED
      BY <1>1, <3>1 DEF Joining
  <2> QED
    BY <1>1, <2>2, <2>5, <2>6 DEF front
<1> QED
  BY <1>2, <1>3

\* Bytes joined are bytes.
LEMMA JoinIsBytes ==
  ASSUME NEW seqs \in Seq(Bytes)
  PROVE  Proto!FlattenSeq(seqs) \in Bytes
<1> DEFINE N == Len(seqs)
           G == {n \in Nat : n <= N => Proto!FlattenSeq(SubSeq(seqs, 1, n)) \in Bytes}
<1>1. N \in Nat /\ SubSeq(seqs, 1, N) = seqs
  OBVIOUS
<1>2. 0 \in G
  <2>1. SubSeq(seqs, 1, 0) = <<>> /\ <<>> \in Bytes
    BY DEF Bytes
  <2> QED
    BY <2>1, JoinNone
<1>3. ASSUME NEW n \in Nat, n \in G PROVE n + 1 \in G
  <2> SUFFICES ASSUME n + 1 <= N PROVE Proto!FlattenSeq(SubSeq(seqs, 1, n + 1)) \in Bytes
    OBVIOUS
  <2> DEFINE s == SubSeq(seqs, 1, n + 1)
  <2>1. s \in Seq(Bytes) /\ Len(s) = n + 1 /\ s[n + 1] \in Bytes /\ n <= N
    BY <1>1
  <2>2. SubSeq(s, 1, n) = SubSeq(seqs, 1, n)
    BY <1>1
  <2> HIDE DEF s
  <2>3. Proto!FlattenSeq(s) = Proto!FlattenSeq(SubSeq(seqs, 1, n)) \o s[n + 1]
    BY <2>1, <2>2, JoinNext
  <2>4. Proto!FlattenSeq(SubSeq(seqs, 1, n)) \in Bytes
    BY <1>3, <2>1
  <2>5. \A a, b \in Bytes : a \o b \in Bytes
    BY DEF Bytes
  <2>6. Proto!FlattenSeq(s) \in Bytes
    BY <2>1, <2>3, <2>4, <2>5, Zenon
  <2> QED
    BY <2>6 DEF s
<1>4. N \in G
  <2> HIDE DEF G
  <2> QED
    BY <1>1, <1>2, <1>3, EveryNumber
<1>5. N <= N
  BY <1>1
<1> QED
  BY <1>1, <1>4, <1>5

-----------------------------------------------------------------------------
(* Fields.  What each kind of field looks like as bytes, whole or without its end. *)

\* Bytes carry two sequences joined if they carry one behind the other.
LEMMA CarriesParts ==
  ASSUME NEW bytes, NEW from, NEW a \in Bytes, NEW b \in Bytes
  PROVE  Carries(bytes, from, a \o b) <=> Carries(bytes, from, a) /\ Carries(bytes, from + Len(a), b)
<1> DEFINE c == a \o b
<1>1. /\ Len(a) \in Nat /\ Len(b) \in Nat /\ Len(c) = Len(a) + Len(b)
      /\ \A i \in 1..Len(a) : c[i] = a[i]
      /\ \A i \in 1..Len(b) : c[Len(a) + i] = b[i]
  BY DEF Bytes
<1> HIDE DEF c
<1>2. ASSUME Carries(bytes, from, c) PROVE Carries(bytes, from, a) /\ Carries(bytes, from + Len(a), b)
  <2>1. from \in Nat /\ Len(bytes) \in Nat /\ from + Len(c) <= Len(bytes) /\ \A i \in 1..Len(c) : bytes[from + i] = c[i]
    BY <1>2 DEF Carries
  <2>2. ASSUME NEW i \in 1..Len(a) PROVE bytes[from + i] = a[i]
    BY <1>1, <2>1
  <2>3. ASSUME NEW i \in 1..Len(b) PROVE bytes[(from + Len(a)) + i] = b[i]
    <3>1. Len(a) + i \in 1..Len(c) /\ from + (Len(a) + i) = (from + Len(a)) + i
      BY <1>1, <2>1
    <3> QED
      BY <1>1, <2>1, <3>1
  <2> QED
    BY <1>1, <2>1, <2>2, <2>3 DEF Carries
<1>3. ASSUME Carries(bytes, from, a), Carries(bytes, from + Len(a), b) PROVE Carries(bytes, from, c)
  <2>1. /\ from \in Nat /\ Len(bytes) \in Nat /\ \A i \in 1..Len(a) : bytes[from + i] = a[i]
        /\ (from + Len(a)) + Len(b) <= Len(bytes) /\ \A i \in 1..Len(b) : bytes[(from + Len(a)) + i] = b[i]
    BY <1>3 DEF Carries
  <2>2. ASSUME NEW i \in 1..Len(c) PROVE bytes[from + i] = c[i]
    <3>1. CASE i \in 1..Len(a)
      BY <1>1, <2>1, <3>1
    <3>2. CASE i \notin 1..Len(a)
      <4>1. i - Len(a) \in 1..Len(b) /\ Len(a) + (i - Len(a)) = i /\ (from + Len(a)) + (i - Len(a)) = from + i
        BY <1>1, <2>1, <3>2
      <4>2. bytes[(from + Len(a)) + (i - Len(a))] = b[i - Len(a)] /\ c[Len(a) + (i - Len(a))] = b[i - Len(a)]
        BY <1>1, <2>1, <4>1
      <4> QED
        BY <4>1, <4>2
    <3> QED
      BY <3>1, <3>2
  <2>3. from + Len(c) <= Len(bytes)
    BY <1>1, <2>1
  <2> QED
    BY <1>1, <2>1, <2>2, <2>3 DEF Carries
<1> QED
  BY <1>2, <1>3 DEF c

\* A slice is what is carried there.
LEMMA SliceIsRead ==
  ASSUME NEW bytes \in Bytes, NEW from, NEW b \in Bytes, Carries(bytes, from, b)
  PROVE  SubSeq(bytes, from + 1, from + Len(b)) = b
<1>1. from \in Nat /\ Len(b) \in Nat /\ from + Len(b) <= Len(bytes) /\ \A i \in 1..Len(b) : bytes[from + i] = b[i]
  BY DEF Carries
<1> DEFINE s == SubSeq(bytes, from + 1, from + Len(b))
<1>2. s \in Bytes /\ Len(s) = Len(b) /\ \A i \in 1..Len(b) : s[i] = bytes[from + i]
  BY <1>1 DEF Bytes
<1> HIDE DEF s
<1>3. s = b
  BY <1>1, <1>2, SeqEqual DEF Bytes
<1> QED
  BY <1>3 DEF s

\* The fields that can be sent, by what their values are.
IsNumber(f, n) == f.wire = "VARINT" /\ n \in Numbers(Word) /\ f.value = Proto!NumberValue(n)
IsBig(f, n) == f.wire = "VARINT" /\ n \in Numbers(Wide) /\ f.value = Proto!As("big", Proto!NumberValue(n))
IsBuffer(f, b) ==
  f.wire = "LENGTH_DELIMITED" /\ b \in Bytes /\ Len(b) \in Numbers(Word) /\ f.value = Proto!BufferValue(b)
IsFixed32(f, b) == f.wire = "FIXED32" /\ b \in Bytes /\ Len(b) = Fixed32 /\ f.value = Proto!BufferValue(b)
IsFixed64(f, b) == f.wire = "FIXED64" /\ b \in Bytes /\ Len(b) = Fixed64 /\ f.value = Proto!DoubleValue(b)
IsGroup(f) == f.wire = "START_GROUP" /\ f.value = Proto!NumberValue(0)

Sendable(f) ==
  /\ f.num \in 1..10
  /\ \/ \E n : IsNumber(f, n) \/ IsBig(f, n)
     \/ \E b : IsBuffer(f, b) \/ IsFixed32(f, b) \/ IsFixed64(f, b)
     \/ IsGroup(f)

Tag(f) == 8 * f.num + Proto!WireType[f.wire]
Body(f) ==
  CASE f.wire = "VARINT" -> IF f.value.is = "big" THEN Proto!EncodeVarintBigInt(f.value.n) ELSE Proto!EncodeVarint(f.value.n)
    [] f.wire = "LENGTH_DELIMITED" -> Proto!EncodeVarint(Len(f.value.bytes)) \o f.value.bytes
    [] f.wire = "FIXED32" -> Proto!Padded(f.value.bytes, Fixed32)
    [] OTHER -> f.value.bytes

\* The wire types, as the tag has them.
LEMMA WireNumbers ==
  /\ Proto!WireType["VARINT"] = 0 /\ Proto!WireType["FIXED64"] = 1 /\ Proto!WireType["LENGTH_DELIMITED"] = 2
  /\ Proto!WireType["START_GROUP"] = 3 /\ Proto!WireType["FIXED32"] = 5
  /\ Proto!WireType.VARINT = 0 /\ Proto!WireType.FIXED64 = 1 /\ Proto!WireType.LENGTH_DELIMITED = 2
  /\ Proto!WireType.FIXED32 = 5
BY DEF Proto!WireType

\* A tag is a word, and takes apart into number and wire type.
LEMMA TagIsWord ==
  ASSUME NEW f, NEW w \in 0..7, Proto!WireType[f.wire] = w, f.num \in 1..10
  PROVE  Tag(f) \in Numbers(Word) /\ Tag(f) % 8 = w /\ Tag(f) \div 8 = f.num /\ Tag(f) = 8 * f.num + w
<1>1. Tag(f) = 8 * f.num + w
  BY Zenon DEF Tag
<1>2. f.num \in Nat /\ f.num <= 10
  OBVIOUS
<1>3. 8 * f.num + w \in Nat /\ 8 * f.num + w < 128
  BY <1>2
<1>4. (8 * f.num + w) % 8 = w /\ (8 * f.num + w) \div 8 = f.num
  BY <1>2
<1>5. 128 <= 2 ^ Word
  <2>1. 2 ^ 7 <= 2 ^ Word
    <3>1. 7 \in Nat /\ Word \in Nat /\ 7 <= Word
      BY CodecAssumption
    <3> QED
      BY <3>1, PowerGrows
  <2>2. 2 ^ 7 = 128
    OBVIOUS
  <2> QED
    BY <2>1, <2>2
<1>6. 2 ^ Word \in Nat
  BY CodecSizes, PowerPositive
<1>7. 8 * f.num + w < 2 ^ Word
  BY <1>3, <1>5, <1>6
<1> QED
  BY <1>1, <1>3, <1>4, <1>7 DEF Numbers

\* A field is written as its tag and its body.
LEMMA EncodedInTwo ==
  ASSUME NEW f, Tag(f) \in Numbers(Word)
  PROVE  Proto!EncodeField(f) = Proto!EncodeVarintBigInt(Tag(f)) \o Body(f)
<1>1. Proto!EncodeField(f) = Proto!EncodeVarint(Tag(f)) \o Body(f)
  BY DEF Proto!EncodeField, Tag, Body
<1> QED
  BY <1>1, WordsFit

\* The tag, read.
TagRead(bytes, from, f, w) ==
  /\ Proto!VarintAt(bytes, from).error = "none"
  /\ Proto!VarintAt(bytes, from).length = Proto!Groups(Tag(f))
  /\ Proto!ReadVarint(bytes, from) = Tag(f)
  /\ Tag(f) % 8 = w /\ Tag(f) \div 8 = f.num

\* A tag that is carried is read.
LEMMA TagIsRead ==
  ASSUME NEW bytes, NEW from, NEW f, NEW w \in 0..7, Proto!WireType[f.wire] = w, f.num \in 1..10,
         Carries(bytes, from, Proto!EncodeVarintBigInt(Tag(f)))
  PROVE  TagRead(bytes, from, f, w)
<1>1. Tag(f) \in Numbers(Word) /\ Tag(f) % 8 = w /\ Tag(f) \div 8 = f.num
  BY TagIsWord
<1>2. /\ Proto!ReadVarint(bytes, from) = Tag(f)
      /\ Proto!VarintAt(bytes, from) = [error |-> "none", length |-> Proto!Groups(Tag(f))]
  BY <1>1, WordIsRead
<1> QED
  BY <1>1, <1>2 DEF TagRead

\* The bodies of the kinds of fields.
LEMMA NumberBody ==
  ASSUME NEW f, NEW n, IsNumber(f, n) \/ IsBig(f, n)
  PROVE  /\ Body(f) = Proto!EncodeVarintBigInt(n) /\ Body(f) \in Bytes /\ n \in Numbers(Wide)
         /\ Proto!WireType[f.wire] = 0
<1>1. n \in Numbers(Wide)
  BY WordsFit DEF IsNumber, IsBig
<1>2. Proto!EncodeVarintBigInt(n) \in Bytes
  BY <1>1, EncodingOf DEF Bytes
<1>3. CASE IsNumber(f, n)
  <2>1. f.wire = "VARINT" /\ f.value.is = "number" /\ f.value.n = n /\ n \in Numbers(Word)
    BY <1>3 DEF IsNumber, Proto!NumberValue
  <2>2. Body(f) = Proto!EncodeVarint(n)
    BY <2>1 DEF Body
  <2> QED
    BY <1>1, <1>2, <2>1, <2>2, WordsFit, WireNumbers
<1>4. CASE IsBig(f, n)
  <2>1. f.wire = "VARINT" /\ f.value.is = "big" /\ f.value.n = n
    BY <1>4 DEF IsBig, Proto!As, Proto!NumberValue
  <2>2. Body(f) = Proto!EncodeVarintBigInt(n)
    BY <2>1 DEF Body
  <2> QED
    BY <1>1, <1>2, <2>1, <2>2, WireNumbers
<1> QED
  BY <1>3, <1>4

\* A buffer has its length in front,
LEMMA BufferBody ==
  ASSUME NEW f, NEW b, IsBuffer(f, b)
  PROVE  /\ Body(f) = Proto!EncodeVarintBigInt(Len(b)) \o b /\ Body(f) \in Bytes
         /\ Proto!EncodeVarintBigInt(Len(b)) \in Bytes /\ Proto!WireType[f.wire] = 2
<1>1. f.wire = "LENGTH_DELIMITED" /\ f.value.bytes = b /\ b \in Bytes /\ Len(b) \in Numbers(Word)
  BY DEF IsBuffer, Proto!BufferValue
<1>2. Body(f) = Proto!EncodeVarint(Len(b)) \o b
  BY <1>1 DEF Body
<1>3. Proto!EncodeVarintBigInt(Len(b)) \in Bytes
  BY <1>1, WordsFit, EncodingOf DEF Bytes
<1>4. \A c, e \in Bytes : c \o e \in Bytes
  BY DEF Bytes
<1>5. Body(f) = Proto!EncodeVarintBigInt(Len(b)) \o b
  BY <1>1, <1>2, WordsFit
<1> QED
  BY <1>1, <1>3, <1>4, <1>5, WireNumbers

\* fixed fields have neither length nor padding,
LEMMA FixedBody ==
  ASSUME NEW f, NEW b, IsFixed32(f, b) \/ IsFixed64(f, b)
  PROVE  /\ Body(f) = b /\ b \in Bytes
         /\ IsFixed32(f, b) => Proto!WireType[f.wire] = 5
         /\ IsFixed64(f, b) => Proto!WireType[f.wire] = 1
<1>1. ASSUME IsFixed32(f, b) PROVE Body(f) = b /\ b \in Bytes /\ Proto!WireType[f.wire] = 5
  <2>1. f.wire = "FIXED32" /\ f.value.bytes = b /\ b \in Bytes /\ Len(b) = Fixed32
    BY <1>1 DEF IsFixed32, Proto!BufferValue
  <2>2. Body(f) = Proto!Padded(b, Fixed32)
    BY <2>1 DEF Body
  <2>3. Proto!Padded(b, Fixed32) = b
    <3> DEFINE p == [i \in 1..Fixed32 |-> IF i <= Len(b) THEN b[i] ELSE 0]
    <3>1. p \in Bytes /\ Len(p) = Len(b) /\ \A i \in 1..Len(b) : p[i] = b[i]
      BY <2>1, CodecSizes DEF Bytes
    <3> HIDE DEF p
    <3>2. p = b
      BY <2>1, <3>1, SeqEqual DEF Bytes
    <3> QED
      BY <3>2 DEF p, Proto!Padded
  <2> QED
    BY <2>1, <2>2, <2>3, WireNumbers
<1>2. ASSUME IsFixed64(f, b) PROVE Body(f) = b /\ b \in Bytes /\ Proto!WireType[f.wire] = 1
  <2>1. f.wire = "FIXED64" /\ f.value.bytes = b /\ b \in Bytes
    BY <1>2 DEF IsFixed64, Proto!DoubleValue
  <2>2. Body(f) = b
    BY <2>1 DEF Body
  <2> QED
    BY <2>1, <2>2, WireNumbers
<1> QED
  BY <1>1, <1>2

\* and a group has nothing.
LEMMA GroupBody ==
  ASSUME NEW f, IsGroup(f)
  PROVE  Body(f) = <<>> /\ Body(f) \in Bytes /\ Proto!WireType[f.wire] = 3
<1>1. f.wire = "START_GROUP" /\ f.value.bytes = <<>>
  BY DEF IsGroup, Proto!NumberValue
<1>2. Body(f) = <<>>
  BY <1>1 DEF Body
<1> QED
  BY <1>1, <1>2, WireNumbers DEF Bytes

\* A field is its tag and its body, and its number can be told from its wire type.
LEMMA FieldIsTagAndBody ==
  ASSUME NEW f, Sendable(f)
  PROVE  /\ Tag(f) \in Numbers(Word) /\ Proto!EncodeVarintBigInt(Tag(f)) \in Bytes /\ Body(f) \in Bytes
         /\ Proto!WireType[f.wire] \in 0..7
         /\ Proto!EncodeField(f) = Proto!EncodeVarintBigInt(Tag(f)) \o Body(f)
         /\ Proto!EncodeField(f) \in Bytes /\ Len(Proto!EncodeField(f)) \in Nat
         /\ Len(Proto!EncodeField(f)) = Proto!Groups(Tag(f)) + Len(Body(f))
         /\ Proto!Groups(Tag(f)) \in Nat /\ Proto!Groups(Tag(f)) >= 1 /\ Len(Body(f)) \in Nat
<1>1. Body(f) \in Bytes /\ Proto!WireType[f.wire] \in 0..7
  BY NumberBody, BufferBody, FixedBody, GroupBody DEF Sendable
<1>2. Tag(f) \in Numbers(Word)
  BY <1>1, TagIsWord DEF Sendable
<1>3. Tag(f) \in Numbers(Wide)
  BY <1>2, WordsFit
<1>4. Proto!EncodeVarintBigInt(Tag(f)) \in Bytes /\ Len(Proto!EncodeVarintBigInt(Tag(f))) = Proto!Groups(Tag(f))
  BY <1>3, EncodingOf DEF Bytes
<1>5. Proto!Groups(Tag(f)) \in Nat /\ Proto!Groups(Tag(f)) >= 1
  BY <1>3, GroupsFit
<1>6. Proto!EncodeField(f) = Proto!EncodeVarintBigInt(Tag(f)) \o Body(f)
  BY <1>2, EncodedInTwo
<1>7. \A c, e \in Bytes : c \o e \in Bytes /\ Len(c \o e) = Len(c) + Len(e) /\ Len(c \o e) \in Nat /\ Len(e) \in Nat
  BY DEF Bytes
<1> QED
  BY <1>1, <1>2, <1>4, <1>5, <1>6, <1>7

\* The bytes have the whole field: its tag is read, and its body stands behind.
LEMMA WholeField ==
  ASSUME NEW f, Sendable(f), NEW bytes, NEW from, Carries(bytes, from, Proto!EncodeField(f))
  PROVE  /\ TagRead(bytes, from, f, Proto!WireType[f.wire])
         /\ Carries(bytes, from + Proto!Groups(Tag(f)), Body(f))
<1>1. /\ Tag(f) \in Numbers(Word) /\ Proto!EncodeVarintBigInt(Tag(f)) \in Bytes /\ Body(f) \in Bytes
      /\ Proto!EncodeField(f) = Proto!EncodeVarintBigInt(Tag(f)) \o Body(f) /\ Proto!WireType[f.wire] \in 0..7
  BY FieldIsTagAndBody
<1>2. Len(Proto!EncodeVarintBigInt(Tag(f))) = Proto!Groups(Tag(f))
  BY <1>1, WordsFit, EncodingOf
<1>3. /\ Carries(bytes, from, Proto!EncodeVarintBigInt(Tag(f)))
      /\ Carries(bytes, from + Proto!Groups(Tag(f)), Body(f))
  BY <1>1, <1>2, CarriesParts
<1>4. f.num \in 1..10
  BY DEF Sendable
<1> QED
  BY <1>1, <1>3, <1>4, TagIsRead

\* A turn of the loop, by the wire type that the tag names.
LEMMA TurnByWire ==
  ASSUME NEW bytes, NEW from, NEW f, NEW w, TagRead(bytes, from, f, w)
  PROVE  LET start == from + Proto!Groups(Tag(f))
             body == Proto!VarintAt(bytes, start)
             length == Proto!ReadVarint(bytes, start)
             Refuse(error) == <<Proto!Refused(error), from>>
             Took(value, next) == <<Proto!Decoded(f.num, value), next>>
             Slice(first, n) == SubSeq(bytes, first + 1, first + n)
         IN  /\ w = 0 => Proto!FieldAt(bytes, from) =
                           IF body.error # "none" THEN Refuse(body.error)
                           ELSE Took(Proto!NumberValue(length), start + body.length)
             /\ w = 1 => Proto!FieldAt(bytes, from) =
                           IF start + Fixed64 > Len(bytes) THEN Refuse("TRUNCATED_MESSAGE")
                           ELSE Took(Proto!DoubleValue(Slice(start, Fixed64)), start + Fixed64)
             /\ w = 2 => Proto!FieldAt(bytes, from) =
                           IF body.error # "none" THEN Refuse(body.error)
                           ELSE IF start + body.length + length > Len(bytes) THEN Refuse("TRUNCATED_MESSAGE")
                           ELSE Took(Proto!BufferValue(Slice(start + body.length, length)), start + body.length + length)
             /\ w = 5 => Proto!FieldAt(bytes, from) =
                           IF start + Fixed32 > Len(bytes) THEN Refuse("TRUNCATED_MESSAGE")
                           ELSE Took(Proto!BufferValue(Slice(start, Fixed32)), start + Fixed32)
             /\ w = 3 => Proto!FieldAt(bytes, from) = Refuse("UNSUPPORTED")
<1>1. /\ Proto!VarintAt(bytes, from).error = "none"
      /\ Proto!VarintAt(bytes, from).length = Proto!Groups(Tag(f))
      /\ Proto!ReadVarint(bytes, from) % 8 = w /\ Proto!ReadVarint(bytes, from) \div 8 = f.num
  BY DEF TagRead
<1>2. CASE w = 0
  BY <1>1, <1>2, WireNumbers DEF Proto!FieldAt
<1>3. CASE w = 1
  BY <1>1, <1>3, WireNumbers DEF Proto!FieldAt
<1>4. CASE w = 2
  BY <1>1, <1>4, WireNumbers DEF Proto!FieldAt
<1>5. CASE w = 5
  BY <1>1, <1>5, WireNumbers DEF Proto!FieldAt
<1>6. CASE w = 3
  BY <1>1, <1>6, WireNumbers DEF Proto!FieldAt
<1> QED
  BY <1>2, <1>3, <1>4, <1>5, <1>6

\* The field that the next turn finds.
Finds(bytes, from, f) ==
  /\ Proto!FieldAt(bytes, from)[1].error = "none" /\ Proto!FieldAt(bytes, from)[1].num = f.num
  /\ f.value.is # "big" => Proto!FieldAt(bytes, from)[1].value = f.value
  /\ Proto!FieldAt(bytes, from)[2] = from + Len(Proto!EncodeField(f))

\* What a turn takes is found.
LEMMA FindsTook ==
  ASSUME NEW bytes, NEW from, NEW f, NEW value,
         Proto!FieldAt(bytes, from) = <<Proto!Decoded(f.num, value), from + Len(Proto!EncodeField(f))>>,
         f.value.is # "big" => value = f.value
  PROVE  Finds(bytes, from, f)
BY DEF Finds, Proto!Decoded

\* A turn finds the field that is carried, or that it is a group.
LEMMA FieldIsRead ==
  ASSUME NEW f, Sendable(f), NEW bytes \in Bytes, NEW from, Carries(bytes, from, Proto!EncodeField(f))
  PROVE  IF IsGroup(f) THEN Proto!FieldAt(bytes, from)[1].error = "UNSUPPORTED" ELSE Finds(bytes, from, f)
<1> DEFINE g == Proto!Groups(Tag(f))
           start == from + g
           total == Len(Proto!EncodeField(f))
<1>1. /\ TagRead(bytes, from, f, Proto!WireType[f.wire])
      /\ Carries(bytes, start, Body(f))
  BY WholeField
<1>2. total = g + Len(Body(f)) /\ g \in Nat /\ Len(Body(f)) \in Nat
  BY FieldIsTagAndBody
<1>3. from \in Nat /\ Len(bytes) \in Nat /\ start + Len(Body(f)) <= Len(bytes) /\ start \in Nat
  BY <1>1, <1>2 DEF Carries
<1>4. from + total = start + Len(Body(f))
  BY <1>2, <1>3
<1> HIDE DEF g, total
<1>5. ASSUME NEW n, IsNumber(f, n) \/ IsBig(f, n) PROVE Finds(bytes, from, f)
  <2>1. Body(f) = Proto!EncodeVarintBigInt(n) /\ n \in Numbers(Wide) /\ Proto!WireType[f.wire] = 0
    BY <1>5, NumberBody
  <2>2. /\ Proto!VarintAt(bytes, start).error = "none"
        /\ Proto!VarintAt(bytes, start).length = Len(Body(f))
    BY <1>1, <2>1, VarintIsFound, EncodingOf
  <2>3. Proto!FieldAt(bytes, from) =
          <<Proto!Decoded(f.num, Proto!NumberValue(Proto!ReadVarint(bytes, start))), start + Len(Body(f))>>
    BY <1>1, <2>1, <2>2, TurnByWire DEF g
  <2>4. IsNumber(f, n) => Proto!NumberValue(Proto!ReadVarint(bytes, start)) = f.value
    BY <1>1, <2>1, WordIsRead DEF IsNumber
  <2>5. IsBig(f, n) => f.value.is = "big"
    BY DEF IsBig, Proto!As, Proto!NumberValue
  <2> QED
    BY <1>4, <1>5, <2>3, <2>4, <2>5, FindsTook DEF total
<1>6. ASSUME NEW b, IsBuffer(f, b) PROVE Finds(bytes, from, f)
  <2> DEFINE e == Proto!EncodeVarintBigInt(Len(b))
  <2>1. Body(f) = e \o b /\ e \in Bytes /\ Proto!WireType[f.wire] = 2
    BY <1>6, BufferBody
  <2>2. b \in Bytes /\ Len(b) \in Numbers(Word) /\ f.value = Proto!BufferValue(b)
    BY <1>6 DEF IsBuffer
  <2>3. Carries(bytes, start, e) /\ Carries(bytes, start + Len(e), b)
    BY <1>1, <2>1, <2>2, CarriesParts
  <2>4. Len(e) = Proto!Groups(Len(b)) /\ Len(e) \in Nat /\ Len(b) \in Nat /\ Len(Body(f)) = Len(e) + Len(b)
    <3>1. Len(e) = Proto!Groups(Len(b))
      BY <2>2, WordsFit, EncodingOf
    <3> HIDE DEF e
    <3> QED
      BY <2>1, <2>2, <3>1 DEF Bytes
  <2>5. /\ Proto!VarintAt(bytes, start).error = "none"
        /\ Proto!VarintAt(bytes, start).length = Len(e)
        /\ Proto!ReadVarint(bytes, start) = Len(b)
    BY <2>2, <2>3, <2>4, WordIsRead
  <2> HIDE DEF e
  <2>6. ~(start + Len(e) + Len(b) > Len(bytes)) /\ start + Len(e) + Len(b) = start + Len(Body(f))
    BY <1>3, <2>4
  <2>7. SubSeq(bytes, (start + Len(e)) + 1, (start + Len(e)) + Len(b)) = b
    BY <2>2, <2>3, SliceIsRead
  <2>8. Proto!FieldAt(bytes, from) =
          IF Proto!VarintAt(bytes, start).error # "none" THEN <<Proto!Refused(Proto!VarintAt(bytes, start).error), from>>
          ELSE IF start + Len(e) + Len(b) > Len(bytes) THEN <<Proto!Refused("TRUNCATED_MESSAGE"), from>>
          ELSE <<Proto!Decoded(f.num, Proto!BufferValue(SubSeq(bytes, (start + Len(e)) + 1, (start + Len(e)) + Len(b)))),
                 start + Len(e) + Len(b)>>
    BY <1>1, <2>1, <2>5, TurnByWire DEF g
  <2>9. Proto!FieldAt(bytes, from) = <<Proto!Decoded(f.num, Proto!BufferValue(b)), from + total>>
    BY <1>4, <2>5, <2>6, <2>7, <2>8
  <2> QED
    BY <2>2, <2>9, FindsTook DEF total
<1>7. ASSUME NEW b, IsFixed32(f, b) \/ IsFixed64(f, b) PROVE Finds(bytes, from, f)
  <2>1. Body(f) = b /\ b \in Bytes
    BY <1>7, FixedBody
  <2>2. SubSeq(bytes, start + 1, start + Len(b)) = b
    BY <1>1, <2>1, SliceIsRead
  <2>3. ~(start + Len(b) > Len(bytes))
    BY <1>3, <2>1
  <2>4. CASE IsFixed32(f, b)
    <3>1. Len(b) = Fixed32 /\ f.value = Proto!BufferValue(b) /\ Proto!WireType[f.wire] = 5
      BY <2>4, FixedBody DEF IsFixed32
    <3>2. Proto!FieldAt(bytes, from) =
            IF start + Fixed32 > Len(bytes) THEN <<Proto!Refused("TRUNCATED_MESSAGE"), from>>
            ELSE <<Proto!Decoded(f.num, Proto!BufferValue(SubSeq(bytes, start + 1, start + Fixed32))), start + Fixed32>>
      BY <1>1, <3>1, TurnByWire DEF g
    <3>3. Proto!FieldAt(bytes, from) = <<Proto!Decoded(f.num, Proto!BufferValue(b)), start + Len(b)>>
      BY <2>2, <2>3, <3>1, <3>2
    <3> QED
      BY <1>4, <2>1, <3>1, <3>3, FindsTook DEF total
  <2>5. CASE IsFixed64(f, b)
    <3>1. Len(b) = Fixed64 /\ f.value = Proto!DoubleValue(b) /\ Proto!WireType[f.wire] = 1
      BY <2>5, FixedBody DEF IsFixed64
    <3>2. Proto!FieldAt(bytes, from) =
            IF start + Fixed64 > Len(bytes) THEN <<Proto!Refused("TRUNCATED_MESSAGE"), from>>
            ELSE <<Proto!Decoded(f.num, Proto!DoubleValue(SubSeq(bytes, start + 1, start + Fixed64))), start + Fixed64>>
      BY <1>1, <3>1, TurnByWire DEF g
    <3>3. Proto!FieldAt(bytes, from) = <<Proto!Decoded(f.num, Proto!DoubleValue(b)), start + Len(b)>>
      BY <2>2, <2>3, <3>1, <3>2
    <3> QED
      BY <1>4, <2>1, <3>1, <3>3, FindsTook DEF total
  <2> QED
    BY <1>7, <2>4, <2>5
<1>8. ASSUME IsGroup(f) PROVE Proto!FieldAt(bytes, from)[1].error = "UNSUPPORTED"
  <2>1. Proto!WireType[f.wire] = 3
    BY <1>8, GroupBody
  <2>2. Proto!FieldAt(bytes, from) = <<Proto!Refused("UNSUPPORTED"), from>>
    BY <1>1, <2>1, TurnByWire
  <2> QED
    BY <2>2 DEF Proto!Refused
<1> QED
  BY <1>5, <1>6, <1>7, <1>8 DEF Sendable

\* The bytes end after the first j of s.
StandsCut(bytes, from, s, j) ==
  /\ from \in Nat /\ j \in Nat /\ Len(s) \in Nat /\ j < Len(s) /\ Len(bytes) = from + j
  /\ \A i \in 1..j : bytes[from + i] = s[i]

\* A varint of which no byte ends it has an error.
LEMMA VarintEnds ==
  ASSUME NEW bytes, NEW from \in Nat, Len(bytes) \in Nat
  PROVE  /\ Proto!VarintAt(bytes, from).error \in {"none", "MALFORMED_VARINT", "RANGE_ERROR"}
         /\ Proto!VarintAt(bytes, from).error = "none" =>
              /\ Proto!VarintAt(bytes, from).length \in 1..MaxVarintBytes
              /\ Proto!VarintAt(bytes, from).length \in Nat /\ Proto!VarintAt(bytes, from).length >= 1
              /\ from + Proto!VarintAt(bytes, from).length <= Len(bytes)
              /\ ~Proto!More(bytes[from + Proto!VarintAt(bytes, from).length])
<1> DEFINE stops == {j \in 1..MaxVarintBytes : from + j <= Len(bytes) /\ ~Proto!More(bytes[from + j])}
<1>1. CASE stops = {}
  <2>1. Proto!VarintAt(bytes, from).error \in {"MALFORMED_VARINT", "RANGE_ERROR"}
    BY <1>1 DEF Proto!VarintAt
  <2> QED
    BY <2>1
<1>2. CASE stops # {}
  <2>1. Proto!VarintAt(bytes, from) = [error |-> "none", length |-> Proto!Min(stops)]
    BY <1>2 DEF Proto!VarintAt
  <2>2. stops \subseteq Nat
    BY CodecSizes
  <2> HIDE DEF stops
  <2>3. PICK x \in stops : \A y \in stops : x <= y
    BY <1>2, <2>2, LeastNumber
  <2>4. Proto!Min(stops) \in stops
    BY <2>3 DEF Proto!Min
  <2> DEFINE m == Proto!Min(stops)
  <2>5. m \in 1..MaxVarintBytes /\ from + m <= Len(bytes) /\ ~Proto!More(bytes[from + m])
    BY <2>4 DEF stops
  <2> HIDE DEF m
  <2>6. m \in Nat /\ m >= 1
    BY <2>5, CodecSizes
  <2>7. Proto!VarintAt(bytes, from).error = "none" /\ Proto!VarintAt(bytes, from).length = m
    BY <2>1 DEF m
  <2> QED
    BY <2>5, <2>6, <2>7
<1> QED
  BY <1>1, <1>2

\* A varint without its last bytes has an error.
LEMMA VarintIsCut ==
  ASSUME NEW n \in Numbers(Wide), NEW bytes, NEW from, NEW j,
         StandsCut(bytes, from, Proto!EncodeVarintBigInt(n), j)
  PROVE  Proto!VarintAt(bytes, from).error \in {"MALFORMED_VARINT", "RANGE_ERROR"}
<1> DEFINE e == Proto!EncodeVarintBigInt(n)
           k == Proto!Groups(n)
           v == Proto!VarintAt(bytes, from)
<1>1. /\ k \in Nat /\ Len(e) = k
      /\ \A i \in 1..k : Proto!More(e[i]) <=> i < k
  BY EncodingOf, GroupsFit
<1>2. /\ from \in Nat /\ j \in Nat /\ j < k /\ Len(bytes) = from + j
      /\ \A i \in 1..j : bytes[from + i] = e[i]
  BY <1>1 DEF StandsCut
<1>3. Len(bytes) \in Nat
  BY <1>2
<1>4. v.error \in {"none", "MALFORMED_VARINT", "RANGE_ERROR"}
  BY <1>2, <1>3, VarintEnds
<1>5. v.error # "none"
  <2> SUFFICES ASSUME v.error = "none" PROVE FALSE
    OBVIOUS
  <2> DEFINE m == v.length
  <2>1. m \in Nat /\ m >= 1 /\ from + m <= Len(bytes) /\ ~Proto!More(bytes[from + m])
    BY <1>2, <1>3, VarintEnds
  <2> HIDE DEF m, v, e, k
  <2>2. m \in 1..j /\ m \in 1..k /\ m < k
    BY <1>1, <1>2, <2>1
  <2> QED
    BY <1>1, <1>2, <2>1, <2>2
<1> QED
  BY <1>4, <1>5

\* What stands cut is cut in its first part or in its second.
LEMMA CutParts ==
  ASSUME NEW bytes, NEW from, NEW a \in Bytes, NEW b \in Bytes, NEW j, StandsCut(bytes, from, a \o b, j)
  PROVE  \/ StandsCut(bytes, from, a, j)
         \/ /\ Carries(bytes, from, a) /\ j - Len(a) \in Nat /\ j - Len(a) < Len(b)
            /\ StandsCut(bytes, from + Len(a), b, j - Len(a))
<1> DEFINE c == a \o b
<1>1. /\ Len(a) \in Nat /\ Len(b) \in Nat /\ Len(c) = Len(a) + Len(b)
      /\ \A i \in 1..Len(a) : c[i] = a[i]
      /\ \A i \in 1..Len(b) : c[Len(a) + i] = b[i]
  BY DEF Bytes
<1>2. /\ from \in Nat /\ j \in Nat /\ j < Len(c) /\ Len(bytes) = from + j
      /\ \A i \in 1..j : bytes[from + i] = c[i]
  BY DEF StandsCut
<1> HIDE DEF c
<1>3. CASE j < Len(a)
  <2>1. \A i \in 1..j : bytes[from + i] = a[i]
    BY <1>1, <1>2, <1>3
  <2> QED
    BY <1>1, <1>2, <1>3, <2>1 DEF StandsCut
<1>4. CASE ~(j < Len(a))
  <2> DEFINE r == j - Len(a)
  <2>1. r \in Nat /\ r < Len(b) /\ from + Len(a) \in Nat /\ Len(bytes) = (from + Len(a)) + r /\ from + Len(a) <= Len(bytes)
        /\ Len(bytes) \in Nat
    BY <1>1, <1>2, <1>4
  <2>2. ASSUME NEW i \in 1..Len(a) PROVE bytes[from + i] = a[i]
    <3>1. i \in 1..j
      BY <1>1, <1>2, <1>4
    <3> QED
      BY <1>1, <1>2, <3>1
  <2>3. ASSUME NEW i \in 1..r PROVE bytes[(from + Len(a)) + i] = b[i]
    <3>1. Len(a) + i \in 1..j /\ (from + Len(a)) + i = from + (Len(a) + i) /\ i \in 1..Len(b)
      BY <1>1, <1>2, <2>1
    <3> QED
      BY <1>1, <1>2, <3>1
  <2>4. Carries(bytes, from, a)
    BY <1>1, <1>2, <2>1, <2>2 DEF Carries
  <2>5. StandsCut(bytes, from + Len(a), b, r)
    BY <1>1, <2>1, <2>3 DEF StandsCut
  <2> QED
    BY <2>1, <2>4, <2>5
<1> QED
  BY <1>3, <1>4

Refuses(bytes, from) == Proto!FieldAt(bytes, from)[1].error \in {"MALFORMED_VARINT", "RANGE_ERROR", "TRUNCATED_MESSAGE"}

\* A turn refuses a field that stands cut, wherever it is cut.
LEMMA FieldIsCut ==
  ASSUME NEW f, Sendable(f), NEW bytes, NEW from, NEW j, StandsCut(bytes, from, Proto!EncodeField(f), j)
  PROVE  Refuses(bytes, from)
<1> DEFINE e == Proto!EncodeVarintBigInt(Tag(f))
           g == Proto!Groups(Tag(f))
           start == from + g
           r == j - g
<1>1. /\ Tag(f) \in Numbers(Word) /\ e \in Bytes /\ Body(f) \in Bytes /\ Proto!EncodeField(f) = e \o Body(f)
      /\ Proto!WireType[f.wire] \in 0..7 /\ g \in Nat /\ Len(Body(f)) \in Nat
  BY FieldIsTagAndBody
<1>2. Len(e) = g
  BY <1>1, WordsFit, EncodingOf
<1>3. CASE StandsCut(bytes, from, e, j)
  <2>1. Proto!VarintAt(bytes, from).error \in {"MALFORMED_VARINT", "RANGE_ERROR"}
    BY <1>1, <1>3, WordsFit, VarintIsCut
  <2>2. Proto!FieldAt(bytes, from) = <<Proto!Refused(Proto!VarintAt(bytes, from).error), from>>
    BY <2>1 DEF Proto!FieldAt
  <2> QED
    BY <2>1, <2>2 DEF Refuses, Proto!Refused
<1>4. CASE Carries(bytes, from, e) /\ r \in Nat /\ r < Len(Body(f)) /\ StandsCut(bytes, start, Body(f), r)
  <2>1. TagRead(bytes, from, f, Proto!WireType[f.wire])
    BY <1>1, <1>4, TagIsRead DEF Sendable
  <2>2. start \in Nat /\ Len(bytes) = start + r /\ Len(bytes) \in Nat /\ r \in Nat
    BY <1>4 DEF StandsCut
  <2> HIDE DEF e, g, r
  <2>3. ASSUME NEW n, IsNumber(f, n) \/ IsBig(f, n) PROVE Refuses(bytes, from)
    <3>1. Body(f) = Proto!EncodeVarintBigInt(n) /\ n \in Numbers(Wide) /\ Proto!WireType[f.wire] = 0
      BY <2>3, NumberBody
    <3>2. Proto!VarintAt(bytes, start).error \in {"MALFORMED_VARINT", "RANGE_ERROR"}
      BY <1>4, <3>1, VarintIsCut
    <3>3. Proto!FieldAt(bytes, from) = <<Proto!Refused(Proto!VarintAt(bytes, start).error), from>>
      BY <2>1, <3>1, <3>2, TurnByWire DEF g
    <3> QED
      BY <3>2, <3>3 DEF Refuses, Proto!Refused
  <2>4. ASSUME NEW b, IsBuffer(f, b) PROVE Refuses(bytes, from)
    <3> DEFINE l == Proto!EncodeVarintBigInt(Len(b))
    <3>1. Body(f) = l \o b /\ l \in Bytes /\ Proto!WireType[f.wire] = 2
      BY <2>4, BufferBody
    <3>2. b \in Bytes /\ Len(b) \in Numbers(Word)
      BY <2>4 DEF IsBuffer
    <3>3. Len(l) = Proto!Groups(Len(b)) /\ Len(b) \in Numbers(Wide) /\ Len(b) \in Nat
      BY <3>2, WordsFit, EncodingOf
    <3>4. CASE StandsCut(bytes, start, l, r)
      <4>1. Proto!VarintAt(bytes, start).error \in {"MALFORMED_VARINT", "RANGE_ERROR"}
        BY <3>3, <3>4, VarintIsCut
      <4>2. Proto!FieldAt(bytes, from) = <<Proto!Refused(Proto!VarintAt(bytes, start).error), from>>
        BY <2>1, <3>1, <4>1, TurnByWire DEF g
      <4> QED
        BY <4>1, <4>2 DEF Refuses, Proto!Refused
    <3>5. CASE Carries(bytes, start, l) /\ r - Len(l) \in Nat /\ r - Len(l) < Len(b)
      <4>1. /\ Proto!VarintAt(bytes, start).error = "none"
            /\ Proto!VarintAt(bytes, start).length = Len(l)
            /\ Proto!ReadVarint(bytes, start) = Len(b)
        BY <3>2, <3>3, <3>5, WordIsRead
      <4>2. start + Len(l) + Len(b) > Len(bytes)
        <5>1. Len(l) \in Nat
          BY <3>1 DEF Bytes
        <5> HIDE DEF l
        <5> QED
          BY <2>2, <3>3, <3>5, <5>1
      <4> HIDE DEF l
      <4>3. Proto!FieldAt(bytes, from) =
              IF Proto!VarintAt(bytes, start).error # "none" THEN <<Proto!Refused(Proto!VarintAt(bytes, start).error), from>>
              ELSE IF start + Len(l) + Len(b) > Len(bytes) THEN <<Proto!Refused("TRUNCATED_MESSAGE"), from>>
              ELSE <<Proto!Decoded(f.num, Proto!BufferValue(SubSeq(bytes, (start + Len(l)) + 1, (start + Len(l)) + Len(b)))),
                     start + Len(l) + Len(b)>>
        BY <2>1, <3>1, <4>1, TurnByWire DEF g
      <4>4. Proto!FieldAt(bytes, from) = <<Proto!Refused("TRUNCATED_MESSAGE"), from>>
        BY <4>1, <4>2, <4>3
      <4> QED
        BY <4>4 DEF Refuses, Proto!Refused
    <3> HIDE DEF l
    <3> QED
      BY <1>4, <3>1, <3>2, <3>4, <3>5, CutParts
  <2>5. ASSUME NEW b, IsFixed32(f, b) \/ IsFixed64(f, b) PROVE Refuses(bytes, from)
    <3>1. Body(f) = b /\ b \in Bytes
      BY <2>5, FixedBody
    <3>2. start + Len(b) > Len(bytes)
      BY <1>1, <1>4, <2>2, <3>1
    <3>3. CASE IsFixed32(f, b)
      <4>1. Len(b) = Fixed32 /\ Proto!WireType[f.wire] = 5
        BY <3>3, FixedBody DEF IsFixed32
      <4>2. Proto!FieldAt(bytes, from) = <<Proto!Refused("TRUNCATED_MESSAGE"), from>>
        BY <2>1, <3>2, <4>1, TurnByWire DEF g
      <4> QED
        BY <4>2 DEF Refuses, Proto!Refused
    <3>4. CASE IsFixed64(f, b)
      <4>1. Len(b) = Fixed64 /\ Proto!WireType[f.wire] = 1
        BY <3>4, FixedBody DEF IsFixed64
      <4>2. Proto!FieldAt(bytes, from) = <<Proto!Refused("TRUNCATED_MESSAGE"), from>>
        BY <2>1, <3>2, <4>1, TurnByWire DEF g
      <4> QED
        BY <4>2 DEF Refuses, Proto!Refused
    <3> QED
      BY <2>5, <3>3, <3>4
  <2>6. ASSUME IsGroup(f) PROVE FALSE
    <3>1. Len(Body(f)) = 0
      BY <2>6, GroupBody
    <3> QED
      BY <1>4, <3>1
  <2> QED
    BY <2>3, <2>4, <2>5, <2>6 DEF Sendable
<1> HIDE DEF e, r
<1>5. StandsCut(bytes, from, e \o Body(f), j)
  BY <1>1
<1> QED
  BY <1>1, <1>2, <1>3, <1>4, <1>5, CutParts DEF r

\* Whatever the bytes are: a turn ends with a field inside them, or with one of the errors.
FieldErrors == {"UNSUPPORTED", "MALFORMED_VARINT", "RANGE_ERROR", "TRUNCATED_MESSAGE"}
EndsAt(bytes, from, next) == next \in Nat /\ from < next /\ next <= Len(bytes)
EndsWell(bytes, from, taken) ==
  \/ taken[1].error \in FieldErrors
  \/ taken[1].error = "none" /\ EndsAt(bytes, from, taken[2])

\* What is refused ends with an error,
LEMMA RefusedEndsWell ==
  ASSUME NEW bytes, NEW from, NEW error \in FieldErrors
  PROVE  EndsWell(bytes, from, <<Proto!Refused(error), from>>)
BY DEF EndsWell, Proto!Refused

\* what is taken inside the bytes.
LEMMA TookEndsWell ==
  ASSUME NEW bytes, NEW from, NEW num, NEW value, NEW next, EndsAt(bytes, from, next)
  PROVE  EndsWell(bytes, from, <<Proto!Decoded(num, value), next>>)
BY DEF EndsWell, Proto!Decoded

\* Every turn does the one or the other.
LEMMA FieldEnds ==
  ASSUME NEW bytes, NEW from \in Nat, Len(bytes) \in Nat
  PROVE  EndsWell(bytes, from, Proto!FieldAt(bytes, from))
<1> DEFINE tagError == Proto!VarintAt(bytes, from).error
           tag == Proto!ReadVarint(bytes, from)
           start == from + Proto!VarintAt(bytes, from).length
           body == Proto!VarintAt(bytes, start)
           length == Proto!ReadVarint(bytes, start)
           Slice(first, n) == SubSeq(bytes, first + 1, first + n)
           F == Proto!FieldAt(bytes, from)
<1>1. CASE tagError # "none"
  <2>1. F = <<Proto!Refused(tagError), from>>
    BY <1>1 DEF Proto!FieldAt
  <2>2. tagError \in FieldErrors
    BY <1>1, VarintEnds DEF FieldErrors
  <2> QED
    BY <2>1, <2>2, RefusedEndsWell
<1>2. CASE tagError = "none"
  <2>1. start \in Nat /\ from < start /\ start <= Len(bytes)
    <3>1. /\ Proto!VarintAt(bytes, from).length \in Nat /\ Proto!VarintAt(bytes, from).length >= 1
          /\ from + Proto!VarintAt(bytes, from).length <= Len(bytes)
      BY <1>2, VarintEnds
    <3> QED
      BY <3>1
  <2>2. body.error # "none" => body.error \in FieldErrors
    BY <2>1, VarintEnds DEF FieldErrors
  <2>3. body.error = "none" => EndsAt(bytes, from, start + body.length) /\ start + body.length \in Nat
    <3> SUFFICES ASSUME body.error = "none" PROVE EndsAt(bytes, from, start + body.length)
      BY DEF EndsAt
    <3>1. body.length \in Nat /\ start + body.length <= Len(bytes)
      BY <2>1, VarintEnds
    <3> HIDE DEF start, body
    <3> QED
      BY <2>1, <3>1 DEF EndsAt
  <2>4. length \in Nat
    BY ReadingIsNumber
  <2>5. Fixed32 \in Nat /\ Fixed64 \in Nat
    BY CodecSizes
  <2>6. "TRUNCATED_MESSAGE" \in FieldErrors /\ "UNSUPPORTED" \in FieldErrors
    BY DEF FieldErrors
  <2>7. CASE tag % 8 = Proto!WireType.VARINT
    <3>1. F = IF body.error # "none" THEN <<Proto!Refused(body.error), from>>
              ELSE <<Proto!Decoded(tag \div 8, Proto!NumberValue(length)), start + body.length>>
      BY <1>2, <2>7, WireNumbers DEF Proto!FieldAt
    <3> HIDE DEF F, tag, start, body, length
    <3> QED
      BY <2>2, <2>3, <3>1, RefusedEndsWell, TookEndsWell, Zenon DEF F
  <2>8. CASE tag % 8 = Proto!WireType.FIXED64
    <3>1. F = IF start + Fixed64 > Len(bytes) THEN <<Proto!Refused("TRUNCATED_MESSAGE"), from>>
              ELSE <<Proto!Decoded(tag \div 8, Proto!DoubleValue(Slice(start, Fixed64))), start + Fixed64>>
      BY <1>2, <2>8, WireNumbers DEF Proto!FieldAt
    <3> HIDE DEF F, tag, start, body, length, Slice
    <3>2. ~(start + Fixed64 > Len(bytes)) => EndsAt(bytes, from, start + Fixed64)
      BY <2>1, <2>5 DEF EndsAt
    <3> QED
      BY <2>6, <3>1, <3>2, RefusedEndsWell, TookEndsWell, Zenon DEF F
  <2>9. CASE tag % 8 = Proto!WireType.LENGTH_DELIMITED
    <3>1. F = IF body.error # "none" THEN <<Proto!Refused(body.error), from>>
              ELSE IF start + body.length + length > Len(bytes) THEN <<Proto!Refused("TRUNCATED_MESSAGE"), from>>
              ELSE <<Proto!Decoded(tag \div 8, Proto!BufferValue(Slice(start + body.length, length))), start + body.length + length>>
      BY <1>2, <2>9, WireNumbers DEF Proto!FieldAt
    <3> HIDE DEF F, tag, start, body, length, Slice
    <3>2. body.error = "none" /\ ~(start + body.length + length > Len(bytes)) => EndsAt(bytes, from, start + body.length + length)
      BY <2>3, <2>4 DEF EndsAt
    <3> QED
      BY <2>2, <2>6, <3>1, <3>2, RefusedEndsWell, TookEndsWell, Zenon DEF F
  <2>10. CASE tag % 8 = Proto!WireType.FIXED32
    <3>1. F = IF start + Fixed32 > Len(bytes) THEN <<Proto!Refused("TRUNCATED_MESSAGE"), from>>
              ELSE <<Proto!Decoded(tag \div 8, Proto!BufferValue(Slice(start, Fixed32))), start + Fixed32>>
      BY <1>2, <2>10, WireNumbers DEF Proto!FieldAt
    <3> HIDE DEF F, tag, start, body, length, Slice
    <3>2. ~(start + Fixed32 > Len(bytes)) => EndsAt(bytes, from, start + Fixed32)
      BY <2>1, <2>5 DEF EndsAt
    <3> QED
      BY <2>6, <3>1, <3>2, RefusedEndsWell, TookEndsWell, Zenon DEF F
  <2>11. CASE /\ tag % 8 # Proto!WireType.VARINT /\ tag % 8 # Proto!WireType.FIXED64
              /\ tag % 8 # Proto!WireType.LENGTH_DELIMITED /\ tag % 8 # Proto!WireType.FIXED32
    <3>1. F = <<Proto!Refused("UNSUPPORTED"), from>>
      BY <1>2, <2>11 DEF Proto!FieldAt
    <3> QED
      BY <2>6, <3>1, RefusedEndsWell
  <2> QED
    BY <2>7, <2>8, <2>9, <2>10, <2>11
<1> QED
  BY <1>1, <1>2

-----------------------------------------------------------------------------
(* What a device may say. *)

\* The schema, field by field.
LEMMA SchemaIs ==
  /\ Proto!Schema["key"] = [num |-> 1, wire |-> "FIXED32"] /\ Proto!Schema["on"] = [num |-> 2, wire |-> "VARINT"]
  /\ Proto!Schema["float"] = [num |-> 3, wire |-> "FIXED32"] /\ Proto!Schema["text"] = [num |-> 4, wire |-> "LENGTH_DELIMITED"]
  /\ Proto!Schema["sint"] = [num |-> 5, wire |-> "VARINT"] /\ Proto!Schema["packed"] = [num |-> 6, wire |-> "LENGTH_DELIMITED"]
  /\ Proto!Schema["flags"] = [num |-> 7, wire |-> "VARINT"] /\ Proto!Schema["deviceId"] = [num |-> 8, wire |-> "VARINT"]
  /\ Proto!Schema["modes"] = [num |-> 9, wire |-> "VARINT"]
BY DEF Proto!Schema

\* A saying, as a record.
LEMMA SayingIs ==
  ASSUME NEW name, NEW value, NEW meant
  PROVE  /\ Proto!Says(name, value, meant).name = name /\ Proto!Says(name, value, meant).meant = meant
         /\ Proto!Says(name, value, meant).field = Proto!Field(Proto!Schema[name].num, Proto!Schema[name].wire, value)
BY DEF Proto!Says

\* Its field, as a record.
LEMMA FieldIs ==
  ASSUME NEW num, NEW w, NEW value
  PROVE  Proto!Field(num, w, value).num = num /\ Proto!Field(num, w, value).wire = w /\ Proto!Field(num, w, value).value = value
BY DEF Proto!Field

\* s says a value under a name of the schema.
SaysOf(s, name, value, meant) ==
  /\ s.name = name /\ s.meant = meant /\ s.field.num = Proto!Schema[name].num
  /\ s.field.wire = Proto!Schema[name].wire /\ s.field.value = value

\* A saying says what it was made of.
LEMMA SayingSays ==
  ASSUME NEW name, NEW value, NEW meant
  PROVE  SaysOf(Proto!Says(name, value, meant), name, value, meant)
<1>1. /\ Proto!Says(name, value, meant).name = name /\ Proto!Says(name, value, meant).meant = meant
      /\ Proto!Says(name, value, meant).field = Proto!Field(Proto!Schema[name].num, Proto!Schema[name].wire, value)
  BY SayingIs
<1> DEFINE num == Proto!Schema[name].num
           w == Proto!Schema[name].wire
           f == Proto!Field(num, w, value)
<1>2. f.num = num /\ f.wire = w /\ f.value = value
  <2> HIDE DEF num, w
  <2> QED
    BY FieldIs
<1> QED
  BY <1>1, <1>2, Zenon DEF SaysOf

SignedOnes == {Proto!Sint(TRUE, 1), Proto!Sint(TRUE, Proto!Greatest + 1), Proto!Sint(FALSE, Proto!Greatest)}
SignedLists == {<<>>, <<Proto!Sint(TRUE, Proto!Greatest), Proto!Sint(FALSE, 1)>>}

\* The meanings that can be said, by name.
SaysKey(s) == SaysOf(s, "key", Proto!BufferValue(Proto!Four), Proto!BufferValue(Proto!Four))
SaysFloat(s) == SaysOf(s, "float", Proto!BufferValue(Proto!Four), Proto!As("float", Proto!BufferValue(Proto!Four)))
SaysOn(s, n) == n \in {0, 1} /\ SaysOf(s, "on", Proto!NumberValue(n), Proto!As("bool", Proto!NumberValue(IF n = 0 THEN 0 ELSE 1)))
SaysText(s, b) == b \in {<<>>, Proto!Four, <<7>>} /\ SaysOf(s, "text", Proto!BufferValue(b), Proto!BufferValue(b))
SaysSint(s, v) == v \in SignedOnes /\ SaysOf(s, "sint", Proto!NumberValue(Proto!ZigzagEncode(v)), Proto!Signed(v))
SaysPacked(s, v) ==
  v \in SignedLists /\
  SaysOf(s, "packed", Proto!BufferValue(Proto!EncodePackedSint32(v)), [is |-> "list", n |-> 0, bytes |-> v])
SaysFlags(s, n) == n \in {0, 2} /\ SaysOf(s, "flags", Proto!NumberValue(n), Proto!NumberValue(n))
SaysDevice(s) == SaysOf(s, "deviceId", Proto!NumberValue(2 * Proto!Greatest + 1), Proto!NumberValue(2 * Proto!Greatest + 1))
SaysMode(s, n) == n \in {0, 5} /\ SaysOf(s, "modes", Proto!NumberValue(n), Proto!NumberValue(n))
IsForeign(s, f) == f \in Proto!Foreign /\ s.name = "foreign" /\ s.field = f /\ s.field.num = 10

Items == Proto!Sayings \cup Proto!Strange

\* What is foreign has a number outside the schema.
LEMMA ForeignTen ==
  ASSUME NEW f \in Proto!Foreign
  PROVE  f.num = 10
BY DEF Proto!Foreign, Proto!Field

\* Every item of a message is one of these.
LEMMA ItemSays ==
  ASSUME NEW s \in Items
  PROVE  \/ SaysKey(s) \/ SaysFloat(s) \/ SaysDevice(s)
         \/ \E n : SaysOn(s, n) \/ SaysFlags(s, n) \/ SaysMode(s, n)
         \/ \E b : SaysText(s, b)
         \/ \E v : SaysSint(s, v) \/ SaysPacked(s, v)
         \/ \E f : IsForeign(s, f)
<1>1. CASE s \in Proto!Strange
  <2>1. PICK f \in Proto!Foreign : s = [name |-> "foreign", meant |-> Proto!Nothing, field |-> f]
    BY <1>1 DEF Proto!Strange
  <2>2. s.name = "foreign" /\ s.field = f /\ f.num = 10
    BY <2>1, ForeignTen
  <2> QED
    BY <2>2 DEF IsForeign
<1>2. CASE s \in Proto!Sayings
  <2>1. \/ s = Proto!Says("key", Proto!BufferValue(Proto!Four), Proto!BufferValue(Proto!Four))
        \/ s = Proto!Says("float", Proto!BufferValue(Proto!Four), Proto!As("float", Proto!BufferValue(Proto!Four)))
        \/ \E n \in {0, 1} : s = Proto!Says("on", Proto!NumberValue(n), Proto!As("bool", Proto!NumberValue(IF n = 0 THEN 0 ELSE 1)))
        \/ \E b \in {<<>>, Proto!Four, <<7>>} : s = Proto!Says("text", Proto!BufferValue(b), Proto!BufferValue(b))
        \/ \E v \in SignedOnes : s = Proto!Says("sint", Proto!NumberValue(Proto!ZigzagEncode(v)), Proto!Signed(v))
        \/ \E v \in SignedLists :
             s = Proto!Says("packed", Proto!BufferValue(Proto!EncodePackedSint32(v)), [is |-> "list", n |-> 0, bytes |-> v])
        \/ \E n \in {0, 2} : s = Proto!Says("flags", Proto!NumberValue(n), Proto!NumberValue(n))
        \/ s = Proto!Says("deviceId", Proto!NumberValue(2 * Proto!Greatest + 1), Proto!NumberValue(2 * Proto!Greatest + 1))
        \/ \E n \in {0, 5} : s = Proto!Says("modes", Proto!NumberValue(n), Proto!NumberValue(n))
    BY <1>2, Zenon DEF Proto!Sayings, Proto!Same, SignedOnes, SignedLists
  <2>2. \A name, value, meant : s = Proto!Says(name, value, meant) => SaysOf(s, name, value, meant)
    BY SayingSays, Zenon
  <2>3. s = Proto!Says("key", Proto!BufferValue(Proto!Four), Proto!BufferValue(Proto!Four)) => SaysKey(s)
    BY <2>2, Zenon DEF SaysKey
  <2>4. s = Proto!Says("float", Proto!BufferValue(Proto!Four), Proto!As("float", Proto!BufferValue(Proto!Four))) => SaysFloat(s)
    BY <2>2, Zenon DEF SaysFloat
  <2>5. s = Proto!Says("deviceId", Proto!NumberValue(2 * Proto!Greatest + 1), Proto!NumberValue(2 * Proto!Greatest + 1)) => SaysDevice(s)
    BY <2>2, Zenon DEF SaysDevice
  <2>6. \A n \in {0, 1} :
          s = Proto!Says("on", Proto!NumberValue(n), Proto!As("bool", Proto!NumberValue(IF n = 0 THEN 0 ELSE 1))) => SaysOn(s, n)
    BY <2>2, Zenon DEF SaysOn
  <2>7. \A b \in {<<>>, Proto!Four, <<7>>} : s = Proto!Says("text", Proto!BufferValue(b), Proto!BufferValue(b)) => SaysText(s, b)
    BY <2>2, Zenon DEF SaysText
  <2>8. \A v \in SignedOnes : s = Proto!Says("sint", Proto!NumberValue(Proto!ZigzagEncode(v)), Proto!Signed(v)) => SaysSint(s, v)
    BY <2>2, Zenon DEF SaysSint
  <2>9. \A v \in SignedLists :
          s = Proto!Says("packed", Proto!BufferValue(Proto!EncodePackedSint32(v)), [is |-> "list", n |-> 0, bytes |-> v]) =>
            SaysPacked(s, v)
    BY <2>2, Zenon DEF SaysPacked
  <2>10. \A n \in {0, 2} : s = Proto!Says("flags", Proto!NumberValue(n), Proto!NumberValue(n)) => SaysFlags(s, n)
    BY <2>2, Zenon DEF SaysFlags
  <2>11. \A n \in {0, 5} : s = Proto!Says("modes", Proto!NumberValue(n), Proto!NumberValue(n)) => SaysMode(s, n)
    BY <2>2, Zenon DEF SaysMode
  <2> QED
    BY <2>1, <2>3, <2>4, <2>5, <2>6, <2>7, <2>8, <2>9, <2>10, <2>11, Zenon
<1> QED
  BY <1>1, <1>2 DEF Items

-----------------------------------------------------------------------------
(* What a loop collects. *)

\* Induction over a set of numbers.
LEMMA AllUpTo ==
  ASSUME NEW n \in Nat, NEW G, 0 \in G, \A m \in 1..n : m - 1 \in G => m \in G
  PROVE  \A m \in 0..n : m \in G
<1> SUFFICES ASSUME NEW k \in 0..n, k \notin G PROVE FALSE
  OBVIOUS
<1> DEFINE T == (0..n) \ G
<1>1. T \subseteq Nat /\ T # {}
  OBVIOUS
<1>2. PICK m \in T : \A l \in T : m <= l
  BY <1>1, LeastNumber
<1>3. m \in 1..n /\ m - 1 \in 0..n /\ ~(m <= m - 1)
  BY <1>2
<1>4. m - 1 \in G
  BY <1>2, <1>3
<1> QED
  BY <1>2, <1>3, <1>4

Loop(u, s, kept, n) ==
  /\ u[0] = <<>>
  /\ \A m \in 1..n : u[m] = IF m \in kept THEN Append(u[m - 1], s[m]) ELSE u[m - 1]

\* The loop has a result.
LEMMA LoopRuns ==
  ASSUME NEW s, NEW kept, Len(s) \in Nat
  PROVE  \E u : Loop(u, s, kept, Len(s)) /\ Proto!Collected(s, kept) = u[Len(s)]
<1> DEFINE N == Len(s)
           G == {n \in 0..N : \E u : u = [m \in 0..n |-> u[m]] /\ Loop(u, s, kept, n)}
           RunsTo(u) == u = [n \in 0..N |-> IF n = 0 THEN <<>>
                                          ELSE IF n \in kept THEN Append(u[n - 1], s[n]) ELSE u[n - 1]]
<1>1. 0 \in G
  <2> DEFINE u == [m \in 0..0 |-> <<>>]
  <2>1. u = [m \in 0..0 |-> u[m]] /\ Loop(u, s, kept, 0)
    BY DEF Loop
  <2> HIDE DEF u
  <2> QED
    BY <2>1
<1>2. ASSUME NEW n \in 1..N, n - 1 \in G PROVE n \in G
  <2>1. PICK u : Loop(u, s, kept, n - 1)
    BY <1>2
  <2> DEFINE v == [m \in 0..n |-> IF m # n THEN u[m] ELSE IF n \in kept THEN Append(u[n - 1], s[n]) ELSE u[n - 1]]
  <2>2. v = [m \in 0..n |-> v[m]]
    OBVIOUS
  <2>3. v[0] = u[0] /\ \A m \in 1..n : v[m - 1] = u[m - 1] /\ (m # n => v[m] = u[m])
    OBVIOUS
  <2>4. v[n] = IF n \in kept THEN Append(u[n - 1], s[n]) ELSE u[n - 1]
    OBVIOUS
  <2> HIDE DEF v
  <2>5. ASSUME NEW m \in 1..n PROVE v[m] = IF m \in kept THEN Append(v[m - 1], s[m]) ELSE v[m - 1]
    <3>1. CASE m = n
      BY <2>3, <2>4, <3>1
    <3>2. CASE m # n
      <4>1. m \in 1..n - 1
        BY <3>2
      <4>2. u[m] = IF m \in kept THEN Append(u[m - 1], s[m]) ELSE u[m - 1]
        BY <2>1, <4>1 DEF Loop
      <4> QED
        BY <2>3, <3>2, <4>2
    <3> QED
      BY <3>1, <3>2
  <2>6. Loop(v, s, kept, n)
    BY <2>1, <2>3, <2>5 DEF Loop
  <2> QED
    BY <2>2, <2>6
<1>3. N \in G
  <2> HIDE DEF G
  <2>1. \A m \in 1..N : m - 1 \in G => m \in G
    BY <1>2
  <2>2. \A m \in 0..N : m \in G
    BY <1>1, <2>1, AllUpTo, Zenon
  <2> QED
    BY <2>2
<1>4. PICK u : u = [m \in 0..N |-> u[m]] /\ Loop(u, s, kept, N)
  BY <1>3
<1>5. RunsTo(u)
  <2>1. ASSUME NEW m \in 0..N
        PROVE  u[m] = IF m = 0 THEN <<>> ELSE IF m \in kept THEN Append(u[m - 1], s[m]) ELSE u[m - 1]
    <3>1. m = 0 \/ m \in 1..N
      OBVIOUS
    <3> QED
      BY <1>4, <3>1 DEF Loop
  <2> QED
    BY <1>4, <2>1
<1>6. RunsTo(CHOOSE w : RunsTo(w))
  BY <1>5, Zenon
<1>7. Proto!Collected(s, kept) = (CHOOSE w : RunsTo(w))[N]
  BY DEF Proto!Collected
<1> DEFINE w == CHOOSE w : RunsTo(w)
<1>8. Loop(w, s, kept, N)
  <2> HIDE DEF w
  <2>1. RunsTo(w)
    BY <1>6 DEF w
  <2>2. ASSUME NEW m \in 0..N
        PROVE  w[m] = IF m = 0 THEN <<>> ELSE IF m \in kept THEN Append(w[m - 1], s[m]) ELSE w[m - 1]
    BY <2>1, Zenon
  <2>3. w[0] = <<>>
    BY <2>2
  <2>4. ASSUME NEW m \in 1..N PROVE w[m] = IF m \in kept THEN Append(w[m - 1], s[m]) ELSE w[m - 1]
    <3>1. m \in 0..N /\ m # 0
      OBVIOUS
    <3> QED
      BY <2>2, <3>1
  <2> QED
    BY <2>3, <2>4 DEF Loop
<1> QED
  BY <1>7, <1>8


\* Equal items in equal places are equally collected.
LEMMA CollectedAlike ==
  ASSUME NEW n \in Nat, NEW s, Len(s) = n, NEW a, Len(a) = n, NEW kept,
         \A i \in kept \cap (1..n) : s[i] = a[i]
  PROVE  Proto!Collected(s, kept) = Proto!Collected(a, kept)
<1>1. PICK u : Loop(u, s, kept, n) /\ Proto!Collected(s, kept) = u[n]
  BY LoopRuns
<1>2. PICK v : Loop(v, a, kept, n) /\ Proto!Collected(a, kept) = v[n]
  BY LoopRuns
<1> DEFINE G == {m \in 0..n : u[m] = v[m]}
<1>3. 0 \in G
  BY <1>1, <1>2 DEF Loop
<1>4. ASSUME NEW m \in 1..n, m - 1 \in G PROVE m \in G
  <2>1. /\ u[m] = IF m \in kept THEN Append(u[m - 1], s[m]) ELSE u[m - 1]
        /\ v[m] = IF m \in kept THEN Append(v[m - 1], a[m]) ELSE v[m - 1]
        /\ u[m - 1] = v[m - 1] /\ (m \in kept => s[m] = a[m])
    BY <1>1, <1>2, <1>4 DEF Loop
  <2> QED
    BY <2>1
<1>5. \A m \in 0..n : m \in G
  <2> HIDE DEF G
  <2> QED
    BY <1>3, <1>4, AllUpTo, Zenon
<1> QED
  BY <1>1, <1>2, <1>5

\* Of no place nothing is collected,
LEMMA NoneCollected ==
  ASSUME NEW s, Len(s) \in Nat
  PROVE  Proto!Collected(s, {}) = <<>>
<1>1. PICK u : Loop(u, s, {}, Len(s)) /\ Proto!Collected(s, {}) = u[Len(s)]
  BY LoopRuns
<1> DEFINE G == {m \in 0..Len(s) : u[m] = <<>>}
<1>2. 0 \in G
  BY <1>1 DEF Loop
<1>3. ASSUME NEW m \in 1..Len(s), m - 1 \in G PROVE m \in G
  BY <1>1, <1>3 DEF Loop
<1>4. \A m \in 0..Len(s) : m \in G
  <2> HIDE DEF G
  <2> QED
    BY <1>2, <1>3, AllUpTo, Zenon
<1> QED
  BY <1>1, <1>4

\* of some place something.
LEMMA SomeCollected ==
  ASSUME NEW s, Len(s) \in Nat, NEW kept, NEW k \in kept \cap (1..Len(s))
  PROVE  Proto!Collected(s, kept) # <<>>
<1> DEFINE N == Len(s)
           S == {s[i] : i \in 1..N}
<1>1. PICK u : Loop(u, s, kept, N) /\ Proto!Collected(s, kept) = u[N]
  BY LoopRuns
<1>2. N \in Nat /\ k \in Nat /\ ~(0 >= k) /\ k <= N
  OBVIOUS
<1> DEFINE G == {m \in 0..N : u[m] \in Seq(S) /\ (m >= k => Len(u[m]) >= 1)}
<1>3. 0 \in G
  <2>1. u[0] = <<>> /\ <<>> \in Seq(S)
    BY <1>1 DEF Loop
  <2>2. u[0] \in Seq(S)
    BY ONLY <2>1
  <2>3. 0 \in 0..N
    BY <1>2
  <2> HIDE DEF N, S
  <2> QED
    BY <1>2, <2>2, <2>3
<1>4. ASSUME NEW m \in 1..N, m - 1 \in G PROVE m \in G
  <2>1. /\ u[m] = IF m \in kept THEN Append(u[m - 1], s[m]) ELSE u[m - 1]
        /\ u[m - 1] \in Seq(S) /\ (m - 1 >= k => Len(u[m - 1]) >= 1) /\ s[m] \in S
    BY <1>1, <1>4 DEF Loop
  <2>2. m \in 0..N /\ (m >= k => m = k \/ m - 1 >= k)
    BY <1>2
  <2> HIDE DEF N, S
  <2>3. CASE m \in kept
    <3>1. u[m] \in Seq(S) /\ Len(u[m]) = Len(u[m - 1]) + 1 /\ Len(u[m - 1]) \in Nat
      BY <2>1, <2>3
    <3>2. Len(u[m]) >= 1
      BY <3>1
    <3> QED
      BY <2>2, <3>1, <3>2
  <2>4. CASE m \notin kept
    <3>1. u[m] = u[m - 1] /\ m # k
      BY <2>1, <2>4
    <3> QED
      BY <2>1, <2>2, <3>1
  <2> QED
    BY <2>3, <2>4
<1>5. N \in G
  <2>1. \A m \in 0..N : m \in G
    <3> HIDE DEF G, N
    <3> QED
      BY <1>2, <1>3, <1>4, AllUpTo, Zenon
  <2> QED
    BY <1>2, <2>1
<1>6. Len(u[N]) >= 1
  BY <1>2, <1>5
<1> QED
  BY <1>1, <1>6

-----------------------------------------------------------------------------
(* Signed words, alone and packed. *)

\* The greatest integer of a word, and what zigzag makes of its neighbours.
LEMMA GreatestIs ==
  /\ Proto!Greatest \in Nat /\ Proto!Greatest >= 63 /\ 2 * Proto!Greatest + 2 = 2 ^ Word
  /\ 2 ^ Word \in Nat /\ 2 ^ Word >= 128
<1>1. Word - 1 \in Nat /\ 6 \in Nat /\ 6 <= Word - 1 /\ (Word - 1) + 1 = Word
  BY CodecAssumption, CodecSizes
<1>2. 2 ^ 6 <= 2 ^ (Word - 1)
  BY <1>1, PowerGrows
<1>3. 2 ^ 6 = 64
  OBVIOUS
<1>4. 2 ^ (Word - 1) \in Nat /\ 2 ^ Word \in Nat
  BY <1>1, CodecSizes, PowerPositive
<1>5. 2 ^ ((Word - 1) + 1) = 2 * 2 ^ (Word - 1)
  BY <1>1, PowerNext
<1>6. Proto!Greatest = 2 ^ (Word - 1) - 1
  BY DEF Proto!Greatest
<1> DEFINE p == 2 ^ (Word - 1)
           q == 2 ^ Word
<1>7. p \in Nat /\ 64 <= p /\ q = 2 * p /\ Proto!Greatest = p - 1
  BY <1>1, <1>2, <1>3, <1>4, <1>5, <1>6
<1> HIDE DEF p, q
<1>8. Proto!Greatest \in Nat /\ Proto!Greatest >= 63 /\ 2 * Proto!Greatest + 2 = q /\ q \in Nat /\ q >= 128
  BY ONLY <1>7
<1> QED
  BY <1>8 DEF q

SignedWords == {Proto!Sint(TRUE, n) : n \in 1..Proto!Greatest + 1} \cup {Proto!Sint(FALSE, n) : n \in 0..Proto!Greatest}

\* Zigzag takes the integers of a word to words, and back.
LEMMA ZigzagFits ==
  ASSUME NEW v \in SignedWords
  PROVE  Proto!ZigzagEncode(v) \in Numbers(Word) /\ Proto!ZigzagDecode(Proto!ZigzagEncode(v)) = v
<1> DEFINE m == Proto!Greatest
           q == 2 ^ Word
           z == Proto!ZigzagEncode(v)
<1>1. m \in Nat /\ 2 * m + 2 = q /\ q \in Nat
  BY GreatestIs
<1>2. ASSUME NEW n \in 1..m + 1, v = Proto!Sint(TRUE, n) PROVE z \in Numbers(Word) /\ Proto!ZigzagDecode(z) = v
  <2>1. z = 2 * n - 1
    BY <1>2 DEF Proto!ZigzagEncode, Proto!Sint
  <2>2. n \in Nat /\ n >= 1 /\ n <= m + 1
    BY <1>1, <1>2
  <2> HIDE DEF z, m, q
  <2>3. z \in Nat /\ z < q /\ z % 2 = 1 /\ (z + 1) \div 2 = n
    BY ONLY <1>1, <2>1, <2>2
  <2>4. Proto!ZigzagDecode(z) = Proto!Sint(TRUE, n)
    BY <2>3 DEF Proto!ZigzagDecode
  <2> QED
    BY <1>2, <2>3, <2>4 DEF Numbers, q
<1>3. ASSUME NEW n \in 0..m, v = Proto!Sint(FALSE, n) PROVE z \in Numbers(Word) /\ Proto!ZigzagDecode(z) = v
  <2>1. z = 2 * n
    BY <1>3 DEF Proto!ZigzagEncode, Proto!Sint
  <2>2. n \in Nat /\ n <= m
    BY <1>1, <1>3
  <2> HIDE DEF z, m, q
  <2>3. z \in Nat /\ z < q /\ ~(z % 2 = 1) /\ z \div 2 = n
    BY ONLY <1>1, <2>1, <2>2
  <2>4. Proto!ZigzagDecode(z) = Proto!Sint(FALSE, n)
    BY <2>3, Zenon DEF Proto!ZigzagDecode
  <2> QED
    BY <1>3, <2>3, <2>4 DEF Numbers, q
<1> QED
  BY <1>2, <1>3 DEF SignedWords

\* The varints of a list.
Packs(v) == [i \in 1..Len(v) |-> Proto!EncodeVarint(Proto!ZigzagEncode(v[i]))]

\* A signed word is written as bytes, of which the last ends it.
LEMMA SignedVarint ==
  ASSUME NEW w \in SignedWords
  PROVE  /\ Proto!EncodeVarint(Proto!ZigzagEncode(w)) = Proto!EncodeVarintBigInt(Proto!ZigzagEncode(w))
         /\ Proto!EncodeVarint(Proto!ZigzagEncode(w)) \in Bytes
         /\ Len(Proto!EncodeVarint(Proto!ZigzagEncode(w))) = Proto!Groups(Proto!ZigzagEncode(w))
         /\ Proto!Groups(Proto!ZigzagEncode(w)) \in 1..MaxVarintBytes /\ Proto!Groups(Proto!ZigzagEncode(w)) \in Nat
<1> DEFINE z == Proto!ZigzagEncode(w)
<1>1. z \in Numbers(Word)
  BY ZigzagFits
<1> HIDE DEF z
<1>2. z \in Numbers(Wide) /\ Proto!EncodeVarint(z) = Proto!EncodeVarintBigInt(z)
  BY <1>1, WordsFit
<1>3. Proto!EncodeVarintBigInt(z) \in Seq(Nat) /\ Len(Proto!EncodeVarintBigInt(z)) = Proto!Groups(z)
  BY <1>2, EncodingOf
<1>4. Proto!Groups(z) \in 1..MaxVarintBytes /\ Proto!Groups(z) \in Nat
  BY <1>2, GroupsFit
<1> QED
  BY <1>2, <1>3, <1>4 DEF z, Bytes

\* A packed list is made of the varints of its members.
LEMMA PacksAre ==
  ASSUME NEW v \in Seq(SignedWords), NEW n \in Nat, Len(v) = n
  PROVE  /\ Packs(v) \in Seq(Bytes) /\ Len(Packs(v)) = n
         /\ \A i \in 1..n : Packs(v)[i] = Proto!EncodeVarint(Proto!ZigzagEncode(v[i])) /\ v[i] \in SignedWords
         /\ Proto!EncodePackedSint32(v) = Proto!FlattenSeq(Packs(v))
         /\ Proto!EncodePackedSint32(v) \in Bytes
<1>1. \A i \in 1..n : v[i] \in SignedWords
  OBVIOUS
<1>2. \A i \in 1..n : Proto!EncodeVarint(Proto!ZigzagEncode(v[i])) \in Bytes
  BY <1>1, SignedVarint
<1>3. Packs(v) = [i \in 1..n |-> Proto!EncodeVarint(Proto!ZigzagEncode(v[i]))]
  BY DEF Packs
<1>4. Packs(v) \in Seq(Bytes) /\ Len(Packs(v)) = n /\ \A i \in 1..n : Packs(v)[i] = Proto!EncodeVarint(Proto!ZigzagEncode(v[i]))
  BY <1>2, <1>3
<1>5. Proto!EncodePackedSint32(v) = Proto!FlattenSeq(Packs(v))
  BY Zenon DEF Proto!EncodePackedSint32, Packs
<1>6. Proto!FlattenSeq(Packs(v)) \in Bytes
  BY <1>4, JoinIsBytes
<1> QED
  BY <1>1, <1>4, <1>5, <1>6

\* The first k of some pieces, joined.
Joined(seqs, k) == Proto!FlattenSeq(SubSeq(seqs, 1, k))

\* The first of the pieces, and one more.
LEMMA JoinedNext ==
  ASSUME NEW seqs \in Seq(Bytes), NEW k \in 1..Len(seqs)
  PROVE  Joined(seqs, k) = Joined(seqs, k - 1) \o seqs[k]
<1> DEFINE s == SubSeq(seqs, 1, k)
           n == k - 1
<1>1. n \in Nat /\ n + 1 = k /\ k \in Nat
  OBVIOUS
<1>2. s \in Seq(Bytes) /\ Len(s) = n + 1 /\ s[n + 1] = seqs[k]
  OBVIOUS
<1>3. SubSeq(s, 1, n) = SubSeq(seqs, 1, n)
  OBVIOUS
<1> HIDE DEF s
<1>4. Proto!FlattenSeq(s) = Proto!FlattenSeq(SubSeq(s, 1, n)) \o s[n + 1]
  BY <1>1, <1>2, JoinNext
<1> QED
  BY <1>2, <1>3, <1>4 DEF Joined, s

\* None of the pieces, and all.
LEMMA JoinedEnds ==
  ASSUME NEW seqs \in Seq(Bytes)
  PROVE  Joined(seqs, 0) = <<>> /\ Joined(seqs, Len(seqs)) = Proto!FlattenSeq(seqs)
<1>1. SubSeq(seqs, 1, 0) = <<>> /\ SubSeq(seqs, 1, Len(seqs)) = seqs
  OBVIOUS
<1> QED
  BY <1>1, JoinNone DEF Joined

\* The first pieces joined are bytes,
LEMMA JoinedIsBytes ==
  ASSUME NEW seqs \in Seq(Bytes), NEW k \in 0..Len(seqs)
  PROVE  Joined(seqs, k) \in Bytes /\ Len(Joined(seqs, k)) \in Nat
<1>1. SubSeq(seqs, 1, k) \in Seq(Bytes)
  OBVIOUS
<1>2. Joined(seqs, k) \in Bytes
  BY <1>1, JoinIsBytes DEF Joined
<1> QED
  BY <1>2 DEF Bytes

\* longer by the length of each one more.
LEMMA JoinedGrows ==
  ASSUME NEW seqs \in Seq(Bytes), NEW k \in 1..Len(seqs)
  PROVE  Len(Joined(seqs, k)) = Len(Joined(seqs, k - 1)) + Len(seqs[k])
<1>1. Joined(seqs, k - 1) \in Bytes /\ seqs[k] \in Bytes
  BY JoinedIsBytes
<1>2. \A a, b \in Bytes : Len(a \o b) = Len(a) + Len(b)
  BY DEF Bytes
<1> QED
  BY <1>1, <1>2, JoinedNext

\* All of the pieces joined carry the first of them joined, and each piece behind those in front of it.
LEMMA JoinedCarries ==
  ASSUME NEW seqs \in Seq(Bytes), NEW k \in 1..Len(seqs)
  PROVE  /\ Carries(Proto!FlattenSeq(seqs), Len(Joined(seqs, k - 1)), seqs[k])
         /\ Carries(Proto!FlattenSeq(seqs), 0, Joined(seqs, k))
<1> DEFINE N == Len(seqs)
           all == Proto!FlattenSeq(seqs)
           G == {m \in 0..N : Carries(all, 0, Joined(seqs, N - m))}
<1>1. all \in Bytes /\ N \in Nat
  BY JoinIsBytes
<1>2. Carries(all, 0, all)
  BY <1>1 DEF Carries, Bytes
<1>3. 0 \in G
  <2>1. N - 0 = N /\ 0 \in 0..N
    BY <1>1
  <2>2. Joined(seqs, N) = all
    BY JoinedEnds
  <2> HIDE DEF N, all
  <2> QED
    BY <1>2, <2>1, <2>2
<1>4. ASSUME NEW m \in 1..N, m - 1 \in G PROVE m \in G
  <2> DEFINE l == N - (m - 1)
  <2>1. l \in 1..N /\ N - m = l - 1 /\ m \in 0..N /\ l - 1 \in 0..N
    BY <1>1
  <2>2. Carries(all, 0, Joined(seqs, l))
    BY <1>4
  <2> HIDE DEF l
  <2>3. Joined(seqs, l) = Joined(seqs, l - 1) \o seqs[l] /\ Joined(seqs, l - 1) \in Bytes /\ seqs[l] \in Bytes
    <3>1. l \in 1..Len(seqs) /\ l - 1 \in 0..Len(seqs)
      BY <2>1
    <3>2. Joined(seqs, l - 1) \in Bytes
      BY <3>1, JoinedIsBytes
    <3>3. seqs[l] \in Bytes
      BY <3>1
    <3> QED
      BY <3>1, <3>2, <3>3, JoinedNext
  <2>4. Carries(all, 0, Joined(seqs, l - 1))
    BY <2>2, <2>3, CarriesParts
  <2> QED
    BY <2>1, <2>4
<1>5. Carries(all, 0, Joined(seqs, k))
  <2>1. \A m \in 0..N : m \in G
    <3> HIDE DEF G
    <3> QED
      BY <1>1, <1>3, <1>4, AllUpTo, Zenon
  <2>2. N - k \in 0..N /\ N - (N - k) = k
    BY <1>1
  <2>3. N - k \in G
    BY <2>1, <2>2
  <2> QED
    BY <2>2, <2>3
<1>6. Joined(seqs, k) = Joined(seqs, k - 1) \o seqs[k] /\ Joined(seqs, k - 1) \in Bytes /\ seqs[k] \in Bytes
  <2>1. k - 1 \in 0..Len(seqs) /\ seqs[k] \in Bytes
    OBVIOUS
  <2> QED
    BY <2>1, JoinedNext, JoinedIsBytes
<1>7. Carries(all, 0 + Len(Joined(seqs, k - 1)), seqs[k])
  BY <1>5, <1>6, CarriesParts
<1>8. 0 + Len(Joined(seqs, k - 1)) = Len(Joined(seqs, k - 1))
  BY <1>6 DEF Bytes
<1> QED
  BY <1>5, <1>7, <1>8

\* A packed list is read as it was written.
LEMMA PackedIsRead ==
  ASSUME NEW v \in Seq(SignedWords)
  PROVE  Proto!DecodePackedSint32(Proto!EncodePackedSint32(v)) = v
<1> DEFINE N == Len(v)
           all == Proto!EncodePackedSint32(v)
           L(k) == Len(Joined(Packs(v), k))
           z(k) == Proto!ZigzagEncode(v[k])
           s == [i \in 1..Len(all) |-> i]
           kept == {i \in 1..Len(all) : ~Proto!More(all[i])}
<1>1. N \in Nat
  OBVIOUS
<1>2. /\ Packs(v) \in Seq(Bytes) /\ Len(Packs(v)) = N /\ all = Proto!FlattenSeq(Packs(v)) /\ all \in Bytes
      /\ \A i \in 1..N : Packs(v)[i] = Proto!EncodeVarint(z(i)) /\ v[i] \in SignedWords
  BY <1>1, PacksAre
<1>3. L(0) = 0 /\ L(N) = Len(all) /\ \A k \in 0..N : L(k) \in Nat
  <2>1. Joined(Packs(v), 0) = <<>> /\ Joined(Packs(v), N) = all
    BY <1>2, JoinedEnds
  <2>2. \A k \in 0..N : L(k) \in Nat
    BY <1>2, JoinedIsBytes
  <2> HIDE DEF all, N
  <2> QED
    BY <2>1, <2>2
<1>4. ASSUME NEW k \in 1..N
      PROVE  /\ L(k) = L(k - 1) + Proto!Groups(z(k)) /\ Proto!Groups(z(k)) \in Nat /\ Proto!Groups(z(k)) >= 1
             /\ L(k) \in Nat /\ L(k - 1) \in Nat /\ L(k) <= Len(all) /\ L(k) \in 1..Len(all)
             /\ \A i \in 1..Proto!Groups(z(k)) : Proto!More(all[L(k - 1) + i]) <=> i < Proto!Groups(z(k))
             /\ Proto!ReadVarint(all, L(k - 1)) = z(k)
  <2> DEFINE g == Proto!Groups(z(k))
             e == Proto!EncodeVarintBigInt(z(k))
  <2>1. v[k] \in SignedWords /\ Packs(v)[k] = e /\ Len(e) = g /\ g \in 1..MaxVarintBytes /\ g \in Nat
    BY <1>2, SignedVarint
  <2>2. z(k) \in Numbers(Word) /\ z(k) \in Numbers(Wide)
    BY <2>1, ZigzagFits, WordsFit
  <2>3. L(k) = L(k - 1) + Len(e)
    BY <1>2, <2>1, JoinedGrows
  <2>4. Carries(all, L(k - 1), e)
    BY <1>2, <2>1, JoinedCarries
  <2>5. \A i \in 1..g : Proto!More(e[i]) <=> i < g
    BY <2>2, EncodingOf
  <2>6. Proto!ReadVarint(all, L(k - 1)) = z(k)
    BY <2>2, <2>4, WordIsRead
  <2>7. L(k - 1) \in Nat /\ Len(all) \in Nat /\ L(k - 1) + Len(e) <= Len(all) /\ \A i \in 1..Len(e) : all[L(k - 1) + i] = e[i]
    BY <2>4 DEF Carries
  <2>8. \A i \in 1..g : Proto!More(all[L(k - 1) + i]) <=> i < g
    BY <2>1, <2>5, <2>7
  <2> HIDE DEF g, e, L, z, all
  <2>9. g >= 1
    BY <2>1, CodecSizes
  <2>10. L(k) = L(k - 1) + g /\ L(k) \in Nat /\ L(k) <= Len(all) /\ L(k) \in 1..Len(all)
    BY <2>1, <2>3, <2>7, <2>9
  <2> QED
    BY <2>1, <2>6, <2>7, <2>8, <2>9, <2>10 DEF g
<1>5. s \in Seq(Nat) /\ Len(s) = Len(all) /\ Len(s) \in Nat /\ \A i \in 1..Len(all) : s[i] = i
  BY <1>2 DEF Bytes
<1> HIDE DEF s, L, z, all
<1>6. PICK u : Loop(u, s, kept, Len(all)) /\ Proto!Collected(s, kept) = u[Len(all)]
  BY <1>5, LoopRuns
<1> DEFINE upTo(k) == [j \in 1..k |-> L(j)]
           G == {k \in 0..N : u[L(k)] = upTo(k)}
<1>7. 0 \in G
  <2>1. upTo(0) = <<>>
    OBVIOUS
  <2> QED
    BY <1>1, <1>3, <1>6, <2>1 DEF Loop
<1>8. ASSUME NEW k \in 1..N, k - 1 \in G PROVE k \in G
  <2> DEFINE g == Proto!Groups(z(k))
             a == L(k - 1)
             H == {i \in 0..g - 1 : u[a + i] = u[a]}
  <2>1. /\ L(k) = a + g /\ g \in Nat /\ g >= 1 /\ a \in Nat /\ L(k) \in 1..Len(all)
        /\ \A i \in 1..g : Proto!More(all[a + i]) <=> i < g
        /\ Len(all) \in Nat
    BY <1>4, <1>5
  <2> HIDE DEF g, a
  <2>2. 0 \in H
    BY <2>1
  <2>3. ASSUME NEW i \in 1..g - 1, i - 1 \in H PROVE i \in H
    <3>1. a + i \in 1..Len(all) /\ i \in 1..g /\ i < g /\ (a + i) - 1 = a + (i - 1)
      BY <2>1
    <3>2. a + i \notin kept
      BY <2>1, <3>1
    <3>3. u[a + i] = u[(a + i) - 1]
      BY <1>6, <3>1, <3>2 DEF Loop
    <3> QED
      BY <2>1, <2>3, <3>1, <3>3
  <2>4. \A i \in 0..g - 1 : i \in H
    <3>1. g - 1 \in Nat
      BY <2>1
    <3> HIDE DEF H
    <3> QED
      BY <2>2, <2>3, <3>1, AllUpTo, Zenon
  <2>5. u[L(k) - 1] = u[a]
    <3>1. g - 1 \in 0..g - 1 /\ a + (g - 1) = L(k) - 1
      BY <2>1
    <3> QED
      BY <2>4, <3>1
  <2>6. L(k) \in kept
    <3>1. g \in 1..g /\ ~(g < g)
      BY <2>1
    <3> QED
      BY <2>1, <3>1
  <2>7. u[L(k)] = Append(u[L(k) - 1], s[L(k)])
    BY <1>6, <2>1, <2>6 DEF Loop
  <2>8. s[L(k)] = L(k)
    BY <1>5, <2>1
  <2>9. u[a] = upTo(k - 1)
    BY <1>8 DEF a
  <2>10. Append(upTo(k - 1), L(k)) = upTo(k)
    <3>1. upTo(k - 1) \in Seq(Nat) /\ L(k) \in Nat /\ Len(upTo(k - 1)) = k - 1
      BY <1>3
    <3>2. upTo(k) \in Seq(Nat) /\ Len(upTo(k)) = k
      BY <1>3
    <3>3. \A j \in 1..k - 1 : upTo(k - 1)[j] = L(j)
      OBVIOUS
    <3>4. \A j \in 1..k : upTo(k)[j] = L(j)
      OBVIOUS
    <3> HIDE DEF upTo
    <3> DEFINE c == Append(upTo(k - 1), L(k))
    <3>5. c \in Seq(Nat) /\ Len(c) = k /\ c[k] = L(k) /\ \A j \in 1..k - 1 : c[j] = upTo(k - 1)[j]
      BY <3>1
    <3> HIDE DEF c
    <3>6. \A j \in 1..k : c[j] = upTo(k)[j]
      BY <3>3, <3>4, <3>5
    <3>7. c = upTo(k)
      BY <3>2, <3>5, <3>6, SeqEqual
    <3> QED
      BY <3>7 DEF c
  <2> HIDE DEF upTo
  <2>11. u[L(k)] = upTo(k) /\ k \in 0..N
    BY <2>5, <2>7, <2>8, <2>9, <2>10
  <2> QED
    BY <2>11
<1>9. u[Len(all)] = upTo(N)
  <2>1. \A k \in 0..N : k \in G
    <3> HIDE DEF G
    <3> QED
      BY <1>1, <1>7, <1>8, AllUpTo, Zenon
  <2>2. N \in G
    BY <1>1, <2>1
  <2> QED
    BY <1>3, <2>2
<1> DEFINE ends == upTo(N)
<1>10. Proto!DecodePackedSint32(all) =
         [i \in 1..Len(ends) |-> Proto!ZigzagDecode(Proto!ReadVarint(all, IF i = 1 THEN 0 ELSE ends[i - 1]))]
  <2>1. Proto!Collected(s, kept) = ends
    BY <1>6, <1>9
  <2> HIDE DEF ends, upTo
  <2> QED
    BY <2>1, Zenon DEF Proto!DecodePackedSint32, s
<1>11. Len(ends) = N /\ \A i \in 1..N : ends[i] = L(i)
  BY <1>1
<1> HIDE DEF ends
<1>12. ASSUME NEW i \in 1..N PROVE Proto!ZigzagDecode(Proto!ReadVarint(all, IF i = 1 THEN 0 ELSE ends[i - 1])) = v[i]
  <2>1. (IF i = 1 THEN 0 ELSE ends[i - 1]) = L(i - 1)
    BY <1>3, <1>11
  <2>2. Proto!ReadVarint(all, L(i - 1)) = z(i)
    BY <1>4
  <2>3. Proto!ZigzagDecode(z(i)) = v[i]
    BY <1>2, ZigzagFits DEF z
  <2> QED
    BY <2>1, <2>2, <2>3
<1>13. Proto!DecodePackedSint32(all) = [i \in 1..N |-> v[i]]
  BY <1>10, <1>11, <1>12, Zenon
<1>14. v = [i \in 1..N |-> v[i]]
  OBVIOUS
<1> QED
  BY <1>13, <1>14 DEF all

\* What is said is sent, but for a FIXED32 that is a bigint.
LEMMA FourIs == Proto!Four \in Bytes /\ Len(Proto!Four) = Fixed32 /\ Len(Proto!Four) \in Numbers(Word)
<1>1. Fixed32 \in Nat /\ Fixed32 < 2 ^ Word
  BY CodecSizes, CodecAssumption
<1>2. Proto!Four \in Bytes /\ Len(Proto!Four) = Fixed32
  BY <1>1 DEF Proto!Four, Bytes
<1> QED
  BY <1>1, <1>2 DEF Numbers

\* The signed numbers of the sayings are integers of a word,
LEMMA SignedOnesFit == \A v \in SignedOnes : v \in SignedWords
<1>1. Proto!Greatest \in Nat /\ Proto!Greatest >= 63
  BY GreatestIs
<1>2. 1 \in 1..Proto!Greatest + 1 /\ Proto!Greatest + 1 \in 1..Proto!Greatest + 1 /\ Proto!Greatest \in 0..Proto!Greatest
  BY <1>1
<1> QED
  BY <1>2 DEF SignedOnes, SignedWords

\* and so are those of their lists, which fit into a buffer.
LEMMA SignedListsFit ==
  ASSUME NEW v \in SignedLists
  PROVE  v \in Seq(SignedWords) /\ Proto!EncodePackedSint32(v) \in Bytes /\ Len(Proto!EncodePackedSint32(v)) \in Numbers(Word)
<1>1. Proto!Greatest \in Nat /\ Proto!Greatest >= 63
  BY GreatestIs
<1>2. CASE v = <<>>
  <2>1. v \in Seq(SignedWords) /\ Packs(v) = <<>>
    BY <1>2 DEF Packs
  <2>2. Proto!EncodePackedSint32(v) = <<>>
    BY <2>1, JoinNone, Zenon DEF Proto!EncodePackedSint32, Packs
  <2>3. 0 \in Numbers(Word)
    BY CodecSizes, PowerPositive DEF Numbers
  <2>4. Proto!EncodePackedSint32(v) \in Bytes /\ Len(Proto!EncodePackedSint32(v)) = 0
    BY <2>2 DEF Bytes
  <2> QED
    BY <2>1, <2>3, <2>4
<1>3. CASE v = <<Proto!Sint(TRUE, Proto!Greatest), Proto!Sint(FALSE, 1)>>
  <2>1. Proto!Sint(TRUE, Proto!Greatest) \in SignedWords /\ Proto!Sint(FALSE, 1) \in SignedWords
    <3>1. Proto!Greatest \in 1..Proto!Greatest + 1 /\ 1 \in 0..Proto!Greatest
      BY <1>1
    <3> QED
      BY <3>1 DEF SignedWords
  <2>2. v \in Seq(SignedWords) /\ Len(v) = 2
    <3>1. \A a, b \in SignedWords : <<a, b>> \in Seq(SignedWords) /\ Len(<<a, b>>) = 2
      OBVIOUS
    <3> QED
      BY <1>3, <2>1, <3>1, Zenon
  <2>3. /\ Packs(v) \in Seq(Bytes) /\ Len(Packs(v)) = 2
        /\ \A i \in 1..2 : Packs(v)[i] = Proto!EncodeVarint(Proto!ZigzagEncode(v[i])) /\ v[i] \in SignedWords
        /\ Proto!EncodePackedSint32(v) = Proto!FlattenSeq(Packs(v)) /\ Proto!EncodePackedSint32(v) \in Bytes
    BY <2>2, PacksAre
  <2>4. \A i \in 1..2 : Len(Packs(v)[i]) \in Nat /\ Len(Packs(v)[i]) <= MaxVarintBytes
    <3> TAKE i \in 1..2
    <3>1. Len(Packs(v)[i]) = Proto!Groups(Proto!ZigzagEncode(v[i])) /\ Proto!Groups(Proto!ZigzagEncode(v[i])) \in 1..MaxVarintBytes
      BY <2>3, SignedVarint
    <3> QED
      BY <3>1, CodecSizes
  <2>5. /\ Len(Joined(Packs(v), 0)) = 0 /\ Joined(Packs(v), 2) = Proto!EncodePackedSint32(v)
        /\ Len(Joined(Packs(v), 1)) = Len(Joined(Packs(v), 0)) + Len(Packs(v)[1])
        /\ Len(Joined(Packs(v), 2)) = Len(Joined(Packs(v), 1)) + Len(Packs(v)[2])
    <3>1. 1 \in 1..2 /\ 2 \in 1..2 /\ 1 - 1 = 0 /\ 2 - 1 = 1
      OBVIOUS
    <3>2. Joined(Packs(v), 0) = <<>> /\ Joined(Packs(v), 2) = Proto!FlattenSeq(Packs(v))
      BY <2>3, JoinedEnds
    <3>3. \A k \in 1..2 : Len(Joined(Packs(v), k)) = Len(Joined(Packs(v), k - 1)) + Len(Packs(v)[k])
      BY <2>3, JoinedGrows
    <3> QED
      BY <2>3, <3>1, <3>2, <3>3
  <2> DEFINE l == Len(Proto!EncodePackedSint32(v))
  <2>6. l \in Nat /\ l <= 2 * MaxVarintBytes
    <3>1. 1 \in 1..2 /\ 2 \in 1..2
      OBVIOUS
    <3>2. Len(Packs(v)[1]) \in Nat /\ Len(Packs(v)[1]) <= MaxVarintBytes /\ Len(Packs(v)[2]) \in Nat /\ Len(Packs(v)[2]) <= MaxVarintBytes
      BY <2>4, <3>1
    <3> DEFINE a == Len(Packs(v)[1])
               b == Len(Packs(v)[2])
    <3>3. l = (0 + a) + b /\ a \in Nat /\ a <= MaxVarintBytes /\ b \in Nat /\ b <= MaxVarintBytes /\ MaxVarintBytes \in Nat
      BY <2>5, <3>2, CodecSizes
    <3> HIDE DEF l, a, b
    <3> QED
      BY ONLY <3>3
  <2>7. l < 2 ^ Word
    <3>1. 2 * MaxVarintBytes < 2 ^ Word /\ 2 ^ Word \in Nat /\ MaxVarintBytes \in Nat
      BY CodecAssumption, CodecSizes, GreatestIs
    <3> HIDE DEF l
    <3> QED
      BY <2>6, <3>1
  <2> QED
    BY <2>2, <2>3, <2>6, <2>7 DEF Numbers
<1> QED
  BY <1>2, <1>3 DEF SignedLists

\* The bigint of the sayings is wider than a word.
LEMMA WideIsWider == 2 ^ Word + 5 \in Numbers(Wide)
<1>1. Word + 1 \in Nat /\ Wide \in Nat /\ Word + 1 <= Wide
  BY CodecSizes
<1>2. 2 ^ (Word + 1) <= 2 ^ Wide
  BY <1>1, PowerGrows
<1>3. 2 ^ (Word + 1) = 2 * 2 ^ Word
  BY CodecSizes, PowerNext
<1>4. 2 ^ Wide \in Nat
  BY CodecSizes, PowerPositive
<1>5. 2 ^ Word \in Nat /\ 2 ^ Word >= 128
  BY GreatestIs
<1> DEFINE p == 2 ^ Word
           q == 2 ^ Wide
<1>6. p \in Nat /\ p >= 128 /\ q \in Nat /\ 2 * p <= q
  BY <1>2, <1>3, <1>4, <1>5
<1> HIDE DEF p, q
<1>7. p + 5 \in Nat /\ p + 5 < q
  BY ONLY <1>6
<1> QED
  BY <1>7 DEF p, q, Numbers

Unsendable(f) == f.wire = "FIXED32" /\ f.value.is = "big" /\ f.value.n = 1 /\ f.num = 10

\* What is foreign can be sent, but for one field.
LEMMA ForeignFields ==
  ASSUME NEW f \in Proto!Foreign
  PROVE  Sendable(f) \/ Unsendable(f)
<1>1. f.num = 10 /\ f.num \in 1..10
  BY ForeignTen
<1>2. CASE f = Proto!Field(10, "FIXED64", Proto!DoubleValue([i \in 1..Fixed64 |-> 0]))
  <2> DEFINE b == [i \in 1..Fixed64 |-> 0]
  <2>1. b \in Bytes /\ Len(b) = Fixed64
    BY CodecSizes DEF Bytes
  <2> HIDE DEF b
  <2>2. f.wire = "FIXED64" /\ f.value = Proto!DoubleValue(b)
    BY <1>2, FieldIs DEF b
  <2>3. IsFixed64(f, b)
    BY <2>1, <2>2 DEF IsFixed64
  <2> QED
    BY <1>1, <2>3 DEF Sendable
<1>3. CASE f = Proto!Field(10, "START_GROUP", Proto!NumberValue(0))
  <2>1. IsGroup(f)
    BY <1>3, FieldIs DEF IsGroup
  <2> QED
    BY <1>1, <2>1 DEF Sendable
<1>4. CASE f = Proto!Field(10, "VARINT", Proto!As("big", Proto!NumberValue(2 ^ Word + 5)))
  <2>1. IsBig(f, 2 ^ Word + 5)
    BY <1>4, FieldIs, WideIsWider DEF IsBig
  <2> QED
    BY <1>1, <2>1 DEF Sendable
<1>5. CASE f = Proto!Field(10, "FIXED32", Proto!As("big", Proto!NumberValue(1)))
  <2>1. f.wire = "FIXED32" /\ f.value = Proto!As("big", Proto!NumberValue(1))
    BY <1>5, FieldIs
  <2>2. f.value.is = "big" /\ f.value.n = 1
    BY <2>1 DEF Proto!As, Proto!NumberValue
  <2> QED
    BY <1>1, <2>1, <2>2 DEF Unsendable
<1> QED
  BY <1>2, <1>3, <1>4, <1>5 DEF Proto!Foreign

\* The numbers of the schema fit into a tag.
LEMMA SchemaFits ==
  ASSUME NEW name \in {"key", "on", "float", "text", "sint", "packed", "flags", "deviceId", "modes"}
  PROVE  Proto!Schema[name].num \in 1..9 /\ Proto!Schema[name].num \in 1..10
BY SchemaIs

\* Every item can be sent, or is the one that cannot.
LEMMA ItemIsSendable ==
  ASSUME NEW s \in Items
  PROVE  Sendable(s.field) \/ Unsendable(s.field)
<1> DEFINE f == s.field
<1>1. CASE SaysKey(s) \/ SaysFloat(s)
  <2>1. \E name \in {"key", "float"} : f.num = Proto!Schema[name].num /\ f.wire = Proto!Schema[name].wire
        /\ f.value = Proto!BufferValue(Proto!Four)
    BY <1>1 DEF SaysKey, SaysFloat, SaysOf
  <2>2. f.num \in 1..10 /\ f.wire = "FIXED32"
    BY <2>1, SchemaIs, SchemaFits
  <2>3. IsFixed32(f, Proto!Four)
    BY <2>1, <2>2, FourIs DEF IsFixed32
  <2> QED
    BY <2>2, <2>3 DEF Sendable
<1>2. ASSUME NEW n \in Numbers(Word), NEW name \in {"on", "flags", "deviceId", "modes", "sint"},
             f.num = Proto!Schema[name].num, f.wire = Proto!Schema[name].wire, f.value = Proto!NumberValue(n)
      PROVE  Sendable(f)
  <2>1. f.num \in 1..10 /\ f.wire = "VARINT"
    BY <1>2, SchemaIs, SchemaFits
  <2>2. IsNumber(f, n)
    BY <1>2, <2>1 DEF IsNumber
  <2> QED
    BY <2>1, <2>2 DEF Sendable
<1>3. {0, 1, 2, 5, 2 * Proto!Greatest + 1} \subseteq Numbers(Word)
  BY GreatestIs DEF Numbers
<1>4. ASSUME NEW b, SaysText(s, b) PROVE Sendable(f)
  <2>1. b \in Bytes /\ Len(b) \in Numbers(Word)
    <3>1. Len(<<>>) = 0 /\ Len(<<7>>) = 1 /\ <<>> \in Bytes /\ <<7>> \in Bytes
      BY DEF Bytes
    <3>2. b = <<>> \/ b = Proto!Four \/ b = <<7>>
      BY <1>4 DEF SaysText
    <3> QED
      BY <1>3, <3>1, <3>2, FourIs
  <2>2. f.num \in 1..10 /\ f.wire = "LENGTH_DELIMITED" /\ f.value = Proto!BufferValue(b)
    BY <1>4, SchemaIs DEF SaysText, SaysOf
  <2>3. IsBuffer(f, b)
    BY <2>1, <2>2 DEF IsBuffer
  <2> QED
    BY <2>2, <2>3 DEF Sendable
<1>5. ASSUME NEW v, SaysPacked(s, v) PROVE Sendable(f)
  <2> DEFINE b == Proto!EncodePackedSint32(v)
  <2>1. b \in Bytes /\ Len(b) \in Numbers(Word)
    BY <1>5, SignedListsFit DEF SaysPacked
  <2>2. f.num \in 1..10 /\ f.wire = "LENGTH_DELIMITED" /\ f.value = Proto!BufferValue(b)
    BY <1>5, SchemaIs DEF SaysPacked, SaysOf
  <2> HIDE DEF b
  <2>3. IsBuffer(f, b)
    BY <2>1, <2>2 DEF IsBuffer
  <2> QED
    BY <2>2, <2>3 DEF Sendable
<1>6. ASSUME NEW v, SaysSint(s, v) PROVE Sendable(f)
  <2>1. Proto!ZigzagEncode(v) \in Numbers(Word)
    BY <1>6, SignedOnesFit, ZigzagFits DEF SaysSint
  <2> QED
    BY <1>2, <1>6, <2>1 DEF SaysSint, SaysOf
<1>7. ASSUME NEW n, SaysOn(s, n) \/ SaysFlags(s, n) \/ SaysMode(s, n) PROVE Sendable(f)
  <2>1. n \in Numbers(Word)
    BY <1>3, <1>7 DEF SaysOn, SaysFlags, SaysMode
  <2> QED
    BY <1>2, <1>7, <2>1 DEF SaysOn, SaysFlags, SaysMode, SaysOf
<1>8. ASSUME SaysDevice(s) PROVE Sendable(f)
  BY <1>2, <1>3, <1>8 DEF SaysDevice, SaysOf
<1>9. ASSUME NEW x, IsForeign(s, x) PROVE Sendable(f) \/ Unsendable(f)
  BY <1>9, ForeignFields DEF IsForeign
<1> QED
  BY <1>1, <1>4, <1>5, <1>6, <1>7, <1>8, <1>9, ItemSays

-----------------------------------------------------------------------------
(* Messages. *)

Pieces(m) == [i \in 1..Len(m) |-> Proto!EncodeField(m[i].field)]
Start(m, k) == Len(Joined(Pieces(m), k))

\* A message that is sent.
Sent(m) == m \in Seq(Items) /\ \A i \in 1..Len(m) : Sendable(m[i].field)

\* A message is encoded as its pieces joined.
LEMMA PiecesAre ==
  ASSUME NEW m, Sent(m)
  PROVE  /\ Pieces(m) \in Seq(Bytes) /\ Len(Pieces(m)) = Len(m) /\ Len(m) \in Nat
         /\ \A i \in 1..Len(m) : Pieces(m)[i] = Proto!EncodeField(m[i].field) /\ Len(Pieces(m)[i]) \in Nat /\ Len(Pieces(m)[i]) >= 1
         /\ Proto!Encoded(m) = Proto!FlattenSeq(Pieces(m)) /\ Proto!Encoded(m) \in Bytes
<1>1. Len(m) \in Nat /\ \A i \in 1..Len(m) : Sendable(m[i].field)
  BY DEF Sent
<1>2. ASSUME NEW i \in 1..Len(m)
      PROVE  LET e == Proto!EncodeField(m[i].field) IN e \in Bytes /\ Len(e) \in Nat /\ Len(e) >= 1
  <2> DEFINE f == m[i].field
             e == Proto!EncodeField(f)
  <2>1. Sendable(f)
    BY <1>1
  <2> HIDE DEF f
  <2>2. e \in Bytes /\ Len(e) \in Nat /\ Len(e) = Proto!Groups(Tag(f)) + Len(Body(f)) /\ Body(f) \in Bytes /\ Tag(f) \in Numbers(Word)
    BY <2>1, FieldIsTagAndBody
  <2>3. Proto!Groups(Tag(f)) \in Nat /\ Proto!Groups(Tag(f)) >= 1
    BY <2>2, WordsFit, GroupsFit
  <2>4. Len(Body(f)) \in Nat
    BY <2>2 DEF Bytes
  <2> QED
    BY <2>2, <2>3, <2>4 DEF f
<1>3. Pieces(m) \in Seq(Bytes) /\ Len(Pieces(m)) = Len(m) /\ \A i \in 1..Len(m) : Pieces(m)[i] = Proto!EncodeField(m[i].field)
  BY <1>1, <1>2 DEF Pieces
<1>4. Proto!Encoded(m) = Proto!FlattenSeq(Pieces(m))
  BY Zenon DEF Proto!Encoded, Pieces
<1>5. Proto!Encoded(m) \in Bytes
  BY <1>3, <1>4, JoinIsBytes
<1>6. \A i \in 1..Len(m) : Len(Pieces(m)[i]) \in Nat /\ Len(Pieces(m)[i]) >= 1
  BY <1>2, <1>3
<1> QED
  BY <1>1, <1>3, <1>4, <1>5, <1>6

\* The first pieces joined are the message of the first fields.
LEMMA PrefixIs ==
  ASSUME NEW m, Sent(m), NEW k \in 0..Len(m)
  PROVE  Joined(Pieces(m), k) = Proto!Encoded(SubSeq(m, 1, k))
<1> DEFINE p == SubSeq(m, 1, k)
<1>1. m \in Seq(Items) /\ Len(m) \in Nat /\ k \in Nat
  BY DEF Sent
<1>2. p \in Seq(Items) /\ Len(p) = k /\ \A i \in 1..k : p[i] = m[i] /\ i \in 1..Len(m)
  BY <1>1
<1>3. Sent(p)
  BY <1>2 DEF Sent
<1> HIDE DEF p
<1>4. /\ Pieces(p) \in Seq(Bytes) /\ Len(Pieces(p)) = k /\ \A i \in 1..k : Pieces(p)[i] = Proto!EncodeField(p[i].field)
      /\ Proto!Encoded(p) = Proto!FlattenSeq(Pieces(p))
  BY <1>2, <1>3, PiecesAre
<1>5. /\ Pieces(m) \in Seq(Bytes) /\ Len(Pieces(m)) = Len(m) /\ \A i \in 1..Len(m) : Pieces(m)[i] = Proto!EncodeField(m[i].field)
  BY PiecesAre
<1> DEFINE s == SubSeq(Pieces(m), 1, k)
<1>6. s \in Seq(Bytes) /\ Len(s) = k /\ \A i \in 1..k : s[i] = Pieces(m)[i]
  BY <1>1, <1>5
<1> HIDE DEF s
<1>7. \A i \in 1..k : s[i] = Pieces(p)[i]
  BY <1>2, <1>4, <1>5, <1>6
<1>8. s = Pieces(p)
  BY <1>4, <1>6, <1>7, SeqEqual
<1> QED
  BY <1>4, <1>8 DEF Joined, s, p

\* Where the fields of a message are.
LEMMA StartsAre ==
  ASSUME NEW m, Sent(m)
  PROVE  /\ Start(m, 0) = 0 /\ Start(m, Len(m)) = Len(Proto!Encoded(m))
         /\ \A k \in 0..Len(m) : Start(m, k) \in Nat
         /\ \A k \in 1..Len(m) : Start(m, k) = Start(m, k - 1) + Len(Proto!EncodeField(m[k].field))
         /\ \A k \in 1..Len(m) : Carries(Proto!Encoded(m), Start(m, k - 1), Proto!EncodeField(m[k].field))
         /\ \A k \in 1..Len(m) : Len(Proto!EncodeField(m[k].field)) \in Nat /\ Len(Proto!EncodeField(m[k].field)) >= 1
<1> DEFINE p == Pieces(m)
           n == Len(m)
<1>1. /\ p \in Seq(Bytes) /\ Len(p) = n /\ n \in Nat /\ Proto!Encoded(m) = Proto!FlattenSeq(p)
      /\ \A i \in 1..n : p[i] = Proto!EncodeField(m[i].field) /\ Len(p[i]) \in Nat /\ Len(p[i]) >= 1
  BY PiecesAre
<1> HIDE DEF p, n
<1>2. Joined(p, 0) = <<>> /\ Joined(p, n) = Proto!Encoded(m)
  BY <1>1, JoinedEnds
<1>3. \A k \in 0..n : Len(Joined(p, k)) \in Nat
  BY <1>1, JoinedIsBytes
<1>4. \A k \in 1..n : Len(Joined(p, k)) = Len(Joined(p, k - 1)) + Len(p[k])
  BY <1>1, JoinedGrows
<1>5. \A k \in 1..n : Carries(Proto!FlattenSeq(p), Len(Joined(p, k - 1)), p[k])
  BY <1>1, JoinedCarries
<1> DEFINE s(k) == Len(Joined(p, k))
<1>6. s(0) = 0 /\ s(n) = Len(Proto!Encoded(m))
  BY <1>2
<1>7. /\ \A k \in 1..n : s(k) = s(k - 1) + Len(Proto!EncodeField(m[k].field))
      /\ \A k \in 1..n : Carries(Proto!Encoded(m), s(k - 1), Proto!EncodeField(m[k].field))
      /\ \A k \in 1..n : Len(Proto!EncodeField(m[k].field)) \in Nat /\ Len(Proto!EncodeField(m[k].field)) >= 1
  BY <1>1, <1>4, <1>5
<1> QED
  BY <1>3, <1>6, <1>7 DEF Start, p, n

\* Fields start in order.
LEMMA StartsGrow ==
  ASSUME NEW m, Sent(m), NEW k \in 0..Len(m), NEW l \in 0..Len(m), k < l
  PROVE  Start(m, k) < Start(m, l)
<1> DEFINE n == Len(m)
           G == {j \in 0..n : k < j => Start(m, k) < Start(m, j)}
<1>1. n \in Nat
  BY DEF Sent
<1>2. 0 \in G
  BY <1>1
<1>3. ASSUME NEW j \in 1..n, j - 1 \in G PROVE j \in G
  <2>1. /\ Start(m, j) = Start(m, j - 1) + Len(Proto!EncodeField(m[j].field)) /\ j - 1 \in 0..n /\ j \in 0..n
        /\ Len(Proto!EncodeField(m[j].field)) \in Nat /\ Len(Proto!EncodeField(m[j].field)) >= 1
    BY <1>1, StartsAre
  <2>2. Start(m, j) \in Nat /\ Start(m, j - 1) \in Nat /\ Start(m, k) \in Nat
    BY <2>1, StartsAre
  <2>3. Start(m, j - 1) < Start(m, j)
    BY <2>1, <2>2
  <2>4. k < j => k = j - 1 \/ k < j - 1
    BY <1>1
  <2>5. k < j - 1 => Start(m, k) < Start(m, j - 1)
    BY <1>3
  <2> QED
    BY <2>1, <2>2, <2>3, <2>4, <2>5
<1>4. \A j \in 0..n : j \in G
  <2> HIDE DEF G, n
  <2> QED
    BY <1>1, <1>2, <1>3, AllUpTo, Zenon
<1> QED
  BY <1>4

\* The groups, which the decoder does not know.
LEMMA GroupsAre ==
  ASSUME NEW f, Sendable(f)
  PROVE  IsGroup(f) <=> f.wire = "START_GROUP"
BY DEF Sendable, IsGroup, IsNumber, IsBig, IsBuffer, IsFixed32, IsFixed64

\* Known fields are those in front of the first group.
LEMMA KnownIs ==
  ASSUME message \in Seq(Items)
  PROVE  /\ Proto!Known \in 0..Len(message) /\ Proto!Known \in Nat
         /\ \A i \in 1..Proto!Known : message[i].field.wire # "START_GROUP"
         /\ Proto!Known < Len(message) => message[Proto!Known + 1].field.wire = "START_GROUP"
<1> DEFINE groups == {i \in 1..Len(message) : message[i].field.wire = "START_GROUP"}
<1>1. Len(message) \in Nat /\ groups \subseteq Nat
  OBVIOUS
<1>2. CASE groups = {}
  <2>1. Proto!Known = Len(message)
    BY <1>2 DEF Proto!Known
  <2> QED
    BY <1>1, <1>2, <2>1
<1>3. CASE groups # {}
  <2>1. Proto!Known = Proto!Min(groups) - 1
    BY <1>3 DEF Proto!Known
  <2> DEFINE x == Proto!Min(groups)
  <2>2. x \in groups /\ \A y \in groups : x <= y
    <3> HIDE DEF groups
    <3>1. \E z \in groups : \A y \in groups : z <= y
      BY <1>1, <1>3, LeastNumber
    <3> QED
      BY <3>1 DEF Proto!Min
  <2> HIDE DEF x
  <2>3. x \in 1..Len(message) /\ message[x].field.wire = "START_GROUP"
    BY <2>2
  <2>4. \A i \in 1..x - 1 : message[i].field.wire # "START_GROUP"
    <3> TAKE i \in 1..x - 1
    <3>1. i \in 1..Len(message) /\ ~(x <= i)
      BY <1>1, <2>3
    <3>2. i \notin groups
      BY <2>2, <3>1
    <3> QED
      BY <3>1, <3>2
  <2>5. x - 1 \in 0..Len(message) /\ x - 1 \in Nat /\ (x - 1) + 1 = x
    BY <1>1, <2>3
  <2> QED
    BY <2>1, <2>3, <2>4, <2>5 DEF x
<1> QED
  BY <1>2, <1>3

-----------------------------------------------------------------------------
(* What the reader of a message sees. *)

Names == {"key", "on", "float", "text", "sint", "packed", "flags", "deviceId", "modes"}

\* Names of the schema differ from what is foreign.
LEMMA NamesDiffer ==
  ASSUME NEW a \in Names, NEW b \in Names, Proto!Schema[a].num = Proto!Schema[b].num
  PROVE  a = b
BY SchemaIs DEF Names

\* The sayings of a number are numbers,
LEMMA NumbersAreTold ==
  ASSUME NEW n
  PROVE  Proto!NumberValue(n).is = "number" /\ Proto!NumberValue(n).n = n /\ Proto!NumberValue(n).bytes = <<>>
BY DEF Proto!NumberValue

\* and those of a buffer are buffers.
LEMMA BuffersAreTold ==
  ASSUME NEW b
  PROVE  Proto!BufferValue(b).is = "buffer" /\ Proto!BufferValue(b).bytes = b /\ Proto!BufferValue(b).n = 0
BY DEF Proto!BufferValue

\* An item's name is told by its number.
SaysName(s, name) ==
  \E value, meant : SaysOf(s, name, value, meant) /\ value.is \in {"number", "buffer"}

\* Items say what their name says.
LEMMA ItemsAreNamed ==
  ASSUME NEW s \in Items
  PROVE  \/ \E name \in Names : SaysName(s, name)
         \/ s.name = "foreign" /\ s.field.num = 10
<1>1. CASE SaysKey(s)
  BY <1>1, BuffersAreTold DEF SaysKey, SaysName, Names
<1>2. CASE SaysFloat(s)
  BY <1>2, BuffersAreTold DEF SaysFloat, SaysName, Names
<1>3. CASE SaysDevice(s)
  BY <1>3, NumbersAreTold DEF SaysDevice, SaysName, Names
<1>4. ASSUME NEW n, SaysOn(s, n) PROVE \E name \in Names : SaysName(s, name)
  BY <1>4, NumbersAreTold DEF SaysOn, SaysName, Names
<1>5. ASSUME NEW n, SaysFlags(s, n) PROVE \E name \in Names : SaysName(s, name)
  BY <1>5, NumbersAreTold DEF SaysFlags, SaysName, Names
<1>6. ASSUME NEW n, SaysMode(s, n) PROVE \E name \in Names : SaysName(s, name)
  BY <1>6, NumbersAreTold DEF SaysMode, SaysName, Names
<1>7. ASSUME NEW b, SaysText(s, b) PROVE \E name \in Names : SaysName(s, name)
  BY <1>7, BuffersAreTold DEF SaysText, SaysName, Names
<1>8. ASSUME NEW v, SaysSint(s, v) PROVE \E name \in Names : SaysName(s, name)
  BY <1>8, NumbersAreTold DEF SaysSint, SaysName, Names
<1>9. ASSUME NEW v, SaysPacked(s, v) PROVE \E name \in Names : SaysName(s, name)
  BY <1>9, BuffersAreTold DEF SaysPacked, SaysName, Names
<1>10. ASSUME NEW f, IsForeign(s, f) PROVE s.name = "foreign" /\ s.field.num = 10
  BY <1>10 DEF IsForeign
<1> QED
  BY <1>1, <1>2, <1>3, <1>4, <1>5, <1>6, <1>7, <1>8, <1>9, <1>10, ItemSays, Zenon

\* The numbers of the fields tell the names,
LEMMA NumbersTellNames ==
  ASSUME NEW s \in Items, NEW name \in Names
  PROVE  /\ s.field.num = Proto!Schema[name].num <=> s.name = name
         /\ s.name = name => s.field.value.is # "big"
<1>1. CASE s.name = "foreign" /\ s.field.num = 10
  <2>1. name # "foreign" /\ Proto!Schema[name].num # 10
    BY SchemaIs DEF Names
  <2> QED
    BY <1>1, <2>1
<1>2. ASSUME NEW a \in Names, SaysName(s, a)
      PROVE  /\ s.field.num = Proto!Schema[name].num <=> s.name = name
             /\ s.name = name => s.field.value.is # "big"
  <2>1. s.name = a /\ s.field.num = Proto!Schema[a].num /\ s.field.value.is \in {"number", "buffer"}
    BY <1>2 DEF SaysName, SaysOf
  <2> QED
    BY <2>1, NamesDiffer
<1> QED
  BY <1>1, <1>2, ItemsAreNamed

\* What an item of a name says.
LEMMA NameTells ==
  ASSUME NEW s \in Items
  PROVE  /\ s.name = "key" => SaysKey(s)
         /\ s.name = "float" => SaysFloat(s)
         /\ s.name = "deviceId" => SaysDevice(s)
         /\ s.name = "on" => \E n : SaysOn(s, n)
         /\ s.name = "flags" => \E n : SaysFlags(s, n)
         /\ s.name = "modes" => \E n : SaysMode(s, n)
         /\ s.name = "text" => \E b : SaysText(s, b)
         /\ s.name = "sint" => \E v : SaysSint(s, v)
         /\ s.name = "packed" => \E v : SaysPacked(s, v)
<1>1. /\ SaysKey(s) => s.name = "key"
      /\ SaysFloat(s) => s.name = "float"
      /\ SaysDevice(s) => s.name = "deviceId"
      /\ \A n : SaysOn(s, n) => s.name = "on"
      /\ \A n : SaysFlags(s, n) => s.name = "flags"
      /\ \A n : SaysMode(s, n) => s.name = "modes"
      /\ \A b : SaysText(s, b) => s.name = "text"
      /\ \A v : SaysSint(s, v) => s.name = "sint"
      /\ \A v : SaysPacked(s, v) => s.name = "packed"
      /\ \A f : IsForeign(s, f) => s.name = "foreign"
  BY DEF SaysKey, SaysFloat, SaysDevice, SaysOn, SaysFlags, SaysMode, SaysText, SaysSint, SaysPacked,
     IsForeign, SaysOf
<1> QED
  BY <1>1, ItemSays

Agrees(fields, m, k) ==
  /\ Len(fields) = k
  /\ \A i \in 1..k : /\ fields[i].num = m[i].field.num
                     /\ m[i].field.value.is # "big" => fields[i].value = m[i].field.value

\* The items of a name among the first k of a message, and what the first of them means.
Mine(m, k, name) == {i \in 1..k : m[i].name = name}
OneOf(m, k, name) == IF Mine(m, k, name) = {} THEN Proto!Nothing ELSE m[Proto!Min(Mine(m, k, name))].meant

\* The bucket of a field's number holds the items of its name, and its first is the first of them.
LEMMA BucketIsMine ==
  ASSUME NEW m \in Seq(Items), NEW k \in 0..Len(m), NEW fields, Agrees(fields, m, k), NEW name \in Names
  PROVE  /\ Proto!Bucket(fields, Proto!Schema[name].num) = Mine(m, k, name)
         /\ \A i \in Mine(m, k, name) : m[i] \in Items /\ m[i].name = name /\ fields[i].value = m[i].field.value
         /\ Mine(m, k, name) # {} =>
              \E i \in Mine(m, k, name) :
                /\ Proto!First(fields, Proto!Schema[name].num) = m[i].field.value
                /\ OneOf(m, k, name) = m[i].meant /\ m[i] \in Items /\ m[i].name = name
         /\ Mine(m, k, name) = {} =>
              Proto!First(fields, Proto!Schema[name].num) = Proto!Nothing /\ OneOf(m, k, name) = Proto!Nothing
<1> DEFINE num == Proto!Schema[name].num
           T == Mine(m, k, name)
<1>1. \A i \in 1..k : m[i] \in Items
  OBVIOUS
<1>2. \A i \in 1..k : fields[i].num = num <=> m[i].name = name
  BY <1>1, NumbersTellNames DEF Agrees
<1>3. Proto!Bucket(fields, num) = T
  BY <1>2 DEF Proto!Bucket, Mine, Agrees
<1>4. \A i \in T : m[i] \in Items /\ m[i].name = name /\ fields[i].value = m[i].field.value
  BY <1>1, NumbersTellNames DEF Mine, Agrees
<1> HIDE DEF num
<1>5. ASSUME T # {} PROVE \E i \in T : /\ Proto!First(fields, num) = m[i].field.value /\ OneOf(m, k, name) = m[i].meant
                                       /\ m[i] \in Items /\ m[i].name = name
  <2>1. T \subseteq Nat
    BY DEF Mine
  <2> DEFINE x == Proto!Min(T)
  <2>2. x \in T
    <3>1. \E z \in T : \A y \in T : z <= y
      BY <1>5, <2>1, LeastNumber
    <3> HIDE DEF T
    <3> QED
      BY <3>1 DEF Proto!Min
  <2>3. Proto!First(fields, num) = fields[x].value
    BY <1>3, <1>5 DEF Proto!First
  <2>4. OneOf(m, k, name) = m[x].meant
    BY <1>5 DEF OneOf
  <2> HIDE DEF x, T
  <2>5. Proto!First(fields, num) = m[x].field.value /\ m[x] \in Items /\ m[x].name = name
    BY <1>4, <2>2, <2>3
  <2> QED
    BY <2>2, <2>4, <2>5
<1>6. ASSUME T = {} PROVE Proto!First(fields, num) = Proto!Nothing /\ OneOf(m, k, name) = Proto!Nothing
  BY <1>3, <1>6 DEF Proto!First, OneOf
<1> QED
  BY <1>3, <1>4, <1>5, <1>6 DEF num

\* A value whose fields are replaced.
Truth(v) == [v EXCEPT !.is = "bool", !.n = IF @ = 0 THEN 0 ELSE 1]
WithNumber(v, is, n) == [v EXCEPT !.is = is, !.n = n]
WithBytes(v, is, bytes) == [v EXCEPT !.is = is, !.bytes = bytes]

\* Changes of a value.
LEMMA OneChange ==
  ASSUME NEW is, NEW n
  PROVE  Proto!As(is, Proto!NumberValue(n)) = [is |-> is, n |-> n, bytes |-> <<>>]
BY DEF Proto!As, Proto!NumberValue

\* A number that is read as a kind of its own.
LEMMA NumberChanges ==
  ASSUME NEW m, NEW is, NEW n
  PROVE  WithNumber(Proto!NumberValue(m), is, n) = Proto!As(is, Proto!NumberValue(n))
<1> DEFINE v == Proto!NumberValue(m)
           K == {"is", "n", "bytes"}
<1>1. v = [i \in K |-> v[i]] /\ v.bytes = <<>>
  BY DEF Proto!NumberValue
<1> HIDE DEF v
<1>2. [v EXCEPT !.is = is, !.n = n] = [i \in K |-> IF i = "is" THEN is ELSE IF i = "n" THEN n ELSE v[i]]
  BY <1>1
<1>3. [is |-> is, n |-> n, bytes |-> <<>>] = [i \in K |-> IF i = "is" THEN is ELSE IF i = "n" THEN n ELSE v[i]]
  BY <1>1
<1> QED
  BY <1>2, <1>3, OneChange DEF v, WithNumber

\* A buffer that is read as a kind of its own.
LEMMA BytesChange ==
  ASSUME NEW b, NEW is, NEW bytes
  PROVE  WithBytes(Proto!BufferValue(b), is, bytes) = [is |-> is, n |-> 0, bytes |-> bytes]
<1> DEFINE v == Proto!BufferValue(b)
           K == {"is", "n", "bytes"}
<1>1. v = [i \in K |-> v[i]] /\ v.n = 0
  BY DEF Proto!BufferValue
<1> HIDE DEF v
<1>2. [v EXCEPT !.is = is, !.bytes = bytes] = [i \in K |-> IF i = "is" THEN is ELSE IF i = "bytes" THEN bytes ELSE v[i]]
  BY <1>1
<1>3. [is |-> is, n |-> 0, bytes |-> bytes] = [i \in K |-> IF i = "is" THEN is ELSE IF i = "bytes" THEN bytes ELSE v[i]]
  BY <1>1
<1> QED
  BY <1>2, <1>3 DEF v, WithBytes

\* A number that is read as a truth value.
LEMMA TruthChanges ==
  ASSUME NEW n
  PROVE  Truth(Proto!NumberValue(n)) = Proto!As("bool", Proto!NumberValue(IF n = 0 THEN 0 ELSE 1))
<1> DEFINE v == Proto!NumberValue(n)
           K == {"is", "n", "bytes"}
           one == IF n = 0 THEN 0 ELSE 1
<1>1. v = [i \in K |-> v[i]] /\ v.bytes = <<>> /\ v.n = n
  BY DEF Proto!NumberValue
<1> HIDE DEF v
<1>2. [v EXCEPT !.is = "bool", !.n = IF @ = 0 THEN 0 ELSE 1] =
        [i \in K |-> IF i = "is" THEN "bool" ELSE IF i = "n" THEN IF n = 0 THEN 0 ELSE 1 ELSE v[i]]
  BY <1>1
<1>3. [is |-> "bool", n |-> one, bytes |-> <<>>] =
        [i \in K |-> IF i = "is" THEN "bool" ELSE IF i = "n" THEN IF n = 0 THEN 0 ELSE 1 ELSE v[i]]
  BY <1>1
<1> QED
  BY <1>2, <1>3, OneChange DEF v, Truth

\* A value of the schema is read as it was meant.
Reads(fields, name, meant) == Proto!ExtractFieldBySpec(fields, name) = meant

\* Of no field nothing is read.
LEMMA NothingIsRead ==
  ASSUME NEW fields, NEW name \in Names \ {"modes"}, Proto!First(fields, Proto!Schema[name].num) = Proto!Nothing
  PROVE  Reads(fields, name, Proto!Nothing)
<1> DEFINE num == Proto!Schema[name].num
<1>1. Proto!First(fields, num) = Proto!Nothing
  OBVIOUS
<1> HIDE DEF num
<1>2. Proto!Nothing.is = "nothing"
  BY DEF Proto!Nothing
<1>3. /\ Proto!ExtractNumberField(fields, num) = Proto!Nothing /\ Proto!ExtractStringField(fields, num) = Proto!Nothing
      /\ Proto!ExtractFixed32Field(fields, num) = Proto!Nothing
  BY <1>1, <1>2, Zenon DEF Proto!ExtractNumberField, Proto!ExtractStringField, Proto!ExtractFixed32Field
<1>4. Proto!ExtractEntityKey(fields, num) = Proto!Nothing
  BY <1>1, <1>2, <1>3 DEF Proto!ExtractEntityKey
<1>5. Proto!ExtractTelemetryValue(fields, num) = Proto!Nothing
  BY <1>1, <1>2 DEF Proto!ExtractTelemetryValue
<1> QED
  BY <1>3, <1>4, <1>5 DEF Reads, Proto!ExtractFieldBySpec, Names, num

\* A first value that is a number is taken by the reader of numbers,
LEMMA NumberIsTaken ==
  ASSUME NEW fields, NEW num, NEW n, Proto!First(fields, num) = Proto!NumberValue(n)
  PROVE  Proto!ExtractNumberField(fields, num) = Proto!NumberValue(n) /\ Proto!NumberValue(n) # Proto!Nothing
<1>1. Proto!NumberValue(n).is = "number" /\ Proto!Nothing.is = "nothing"
  BY NumbersAreTold DEF Proto!Nothing
<1>2. Proto!ExtractNumberField(fields, num) = Proto!NumberValue(n)
  BY <1>1, Zenon DEF Proto!ExtractNumberField
<1> QED
  BY <1>1, <1>2

\* and one that is a buffer by the reader of buffers.
LEMMA BufferIsTaken ==
  ASSUME NEW fields, NEW num, NEW b, Proto!First(fields, num) = Proto!BufferValue(b)
  PROVE  Proto!ExtractStringField(fields, num) = Proto!BufferValue(b) /\ Proto!BufferValue(b) # Proto!Nothing
<1>1. Proto!BufferValue(b).is = "buffer" /\ Proto!Nothing.is = "nothing"
  BY BuffersAreTold DEF Proto!Nothing
<1>2. Proto!ExtractStringField(fields, num) = Proto!BufferValue(b)
  BY <1>1, Zenon DEF Proto!ExtractStringField
<1> QED
  BY <1>1, <1>2

\* The readers of the value types.
LEMMA SpecOf ==
  ASSUME NEW fields
  PROVE  /\ Proto!ExtractFieldBySpec(fields, "key") = Proto!ExtractEntityKey(fields, Proto!Schema["key"].num)
         /\ LET raw == Proto!ExtractNumberField(fields, Proto!Schema["on"].num)
            IN  Proto!ExtractFieldBySpec(fields, "on") =
                  IF raw = Proto!Nothing THEN raw ELSE [raw EXCEPT !.is = "bool", !.n = IF @ = 0 THEN 0 ELSE 1]
         /\ Proto!ExtractFieldBySpec(fields, "float") = Proto!ExtractTelemetryValue(fields, Proto!Schema["float"].num)
         /\ Proto!ExtractFieldBySpec(fields, "text") = Proto!ExtractStringField(fields, Proto!Schema["text"].num)
         /\ LET raw == Proto!ExtractNumberField(fields, Proto!Schema["sint"].num)
                s == Proto!ZigzagDecode(raw.n)
            IN  Proto!ExtractFieldBySpec(fields, "sint") =
                  IF raw = Proto!Nothing THEN raw ELSE [raw EXCEPT !.is = IF s.negative THEN "negative" ELSE "number", !.n = s.n]
         /\ LET v == Proto!ExtractStringField(fields, Proto!Schema["packed"].num)
            IN  Proto!ExtractFieldBySpec(fields, "packed") =
                  IF v = Proto!Nothing THEN v ELSE [v EXCEPT !.is = "list", !.bytes = Proto!DecodePackedSint32(v.bytes)]
         /\ Proto!ExtractFieldBySpec(fields, "modes") = Proto!ExtractRepeatedField(fields, Proto!Schema["modes"].num, "number")
         /\ Proto!ExtractFieldBySpec(fields, "flags") = Proto!ExtractNumberField(fields, Proto!Schema["flags"].num)
         /\ Proto!ExtractFieldBySpec(fields, "deviceId") = Proto!ExtractNumberField(fields, Proto!Schema["deviceId"].num)
BY DEF Proto!ExtractFieldBySpec

\* Each name is read as what it means, if it is there.
LEMMA KeyIsRead ==
  ASSUME NEW fields, NEW s, SaysKey(s), Proto!First(fields, Proto!Schema["key"].num) = s.field.value
  PROVE  Reads(fields, "key", s.meant)
<1> DEFINE num == Proto!Schema["key"].num
           v == Proto!BufferValue(Proto!Four)
<1>1. Proto!First(fields, num) = v /\ s.meant = v
  BY DEF SaysKey, SaysOf
<1>2. v.is = "buffer" /\ v.bytes = Proto!Four /\ Len(Proto!Four) = Fixed32
  BY BuffersAreTold, FourIs
<1> HIDE DEF num, v
<1>3. Proto!ExtractFixed32Field(fields, num) = v
  BY <1>1, <1>2, Zenon DEF Proto!ExtractFixed32Field
<1>4. Proto!ExtractEntityKey(fields, num) = v
  BY <1>1, <1>2, <1>3 DEF Proto!ExtractEntityKey
<1> QED
  BY <1>1, <1>4, SpecOf DEF Reads, num

LEMMA FloatIsRead ==
  ASSUME NEW fields, NEW s, SaysFloat(s), Proto!First(fields, Proto!Schema["float"].num) = s.field.value
  PROVE  Reads(fields, "float", s.meant)
<1> DEFINE num == Proto!Schema["float"].num
           v == Proto!BufferValue(Proto!Four)
<1>1. Proto!First(fields, num) = v /\ s.meant = Proto!As("float", v)
  BY DEF SaysFloat, SaysOf
<1>2. v.is = "buffer" /\ v.bytes = Proto!Four /\ Len(Proto!Four) = Fixed32
  BY BuffersAreTold, FourIs
<1> HIDE DEF num, v
<1>3. Proto!ExtractTelemetryValue(fields, num) = [v EXCEPT !.is = "float"]
  BY <1>1, <1>2 DEF Proto!ExtractTelemetryValue
<1>4. Proto!As("float", v) = [v EXCEPT !.is = "float"]
  BY DEF Proto!As
<1> QED
  BY <1>1, <1>3, <1>4, SpecOf DEF Reads, num

LEMMA TextIsRead ==
  ASSUME NEW fields, NEW s, NEW b, SaysText(s, b), Proto!First(fields, Proto!Schema["text"].num) = s.field.value
  PROVE  Reads(fields, "text", s.meant)
<1> DEFINE num == Proto!Schema["text"].num
           v == Proto!BufferValue(b)
<1>1. Proto!First(fields, num) = v /\ s.meant = v
  BY DEF SaysText, SaysOf
<1>2. Proto!ExtractStringField(fields, num) = v
  BY <1>1, BufferIsTaken
<1> QED
  BY <1>1, <1>2, SpecOf DEF Reads

LEMMA OnIsRead ==
  ASSUME NEW fields, NEW s, NEW n, SaysOn(s, n), Proto!First(fields, Proto!Schema["on"].num) = s.field.value
  PROVE  Reads(fields, "on", s.meant)
<1> DEFINE num == Proto!Schema["on"].num
           raw == Proto!NumberValue(n)
           one == IF n = 0 THEN 0 ELSE 1
<1>1. Proto!First(fields, num) = raw /\ s.meant = Proto!As("bool", Proto!NumberValue(one))
  BY DEF SaysOn, SaysOf
<1>2. Proto!ExtractNumberField(fields, num) = raw /\ raw # Proto!Nothing
  BY <1>1, NumberIsTaken
<1>3. Truth(raw) = Proto!As("bool", Proto!NumberValue(one))
  BY TruthChanges
<1> HIDE DEF num, raw, one
<1>4. Proto!ExtractFieldBySpec(fields, "on") = Truth(raw)
  BY <1>2, SpecOf DEF num, Truth
<1> QED
  BY <1>1, <1>3, <1>4 DEF Reads

LEMMA SintIsRead ==
  ASSUME NEW fields, NEW s, NEW w, SaysSint(s, w), Proto!First(fields, Proto!Schema["sint"].num) = s.field.value
  PROVE  Reads(fields, "sint", s.meant)
<1> DEFINE num == Proto!Schema["sint"].num
           z == Proto!ZigzagEncode(w)
           raw == Proto!NumberValue(z)
           is == IF w.negative THEN "negative" ELSE "number"
<1>1. Proto!First(fields, num) = raw /\ s.meant = Proto!Signed(w)
  BY DEF SaysSint, SaysOf
<1>2. Proto!ExtractNumberField(fields, num) = raw /\ raw # Proto!Nothing
  BY <1>1, NumberIsTaken
<1>3. raw.n = z /\ Proto!ZigzagDecode(z) = w
  BY SignedOnesFit, ZigzagFits, NumbersAreTold DEF SaysSint
<1>4. WithNumber(raw, is, w.n) = Proto!Signed(w)
  BY NumberChanges DEF Proto!Signed
<1> HIDE DEF num, raw, z
<1>5. Proto!ExtractFieldBySpec(fields, "sint") = WithNumber(raw, is, w.n)
  BY <1>2, <1>3, SpecOf DEF num, WithNumber
<1> QED
  BY <1>1, <1>4, <1>5 DEF Reads

LEMMA ListIsRead ==
  ASSUME NEW fields, NEW s, NEW w, SaysPacked(s, w), Proto!First(fields, Proto!Schema["packed"].num) = s.field.value
  PROVE  Reads(fields, "packed", s.meant)
<1> DEFINE num == Proto!Schema["packed"].num
           e == Proto!EncodePackedSint32(w)
           v == Proto!BufferValue(e)
<1>1. Proto!First(fields, num) = v /\ s.meant = [is |-> "list", n |-> 0, bytes |-> w]
  BY DEF SaysPacked, SaysOf
<1>2. Proto!ExtractStringField(fields, num) = v /\ v # Proto!Nothing
  BY <1>1, BufferIsTaken
<1>3. v.bytes = e /\ Proto!DecodePackedSint32(e) = w
  BY SignedListsFit, PackedIsRead, BuffersAreTold DEF SaysPacked
<1>4. WithBytes(v, "list", w) = [is |-> "list", n |-> 0, bytes |-> w]
  BY BytesChange
<1> HIDE DEF num, v, e
<1>5. Proto!ExtractFieldBySpec(fields, "packed") = WithBytes(v, "list", w)
  BY <1>2, <1>3, SpecOf DEF num, WithBytes
<1> QED
  BY <1>1, <1>4, <1>5 DEF Reads

LEMMA PlainIsRead ==
  ASSUME NEW fields, NEW s, NEW n, NEW name \in {"flags", "deviceId"},
         SaysOf(s, name, Proto!NumberValue(n), Proto!NumberValue(n)), Proto!First(fields, Proto!Schema[name].num) = s.field.value
  PROVE  Reads(fields, name, s.meant)
<1>1. Proto!First(fields, Proto!Schema[name].num) = Proto!NumberValue(n) /\ s.meant = Proto!NumberValue(n)
  BY DEF SaysOf
<1>2. Proto!ExtractNumberField(fields, Proto!Schema[name].num) = Proto!NumberValue(n)
  BY <1>1, NumberIsTaken
<1>3. Proto!ExtractFieldBySpec(fields, name) = Proto!ExtractNumberField(fields, Proto!Schema[name].num)
  BY SpecOf
<1> QED
  BY <1>1, <1>2, <1>3 DEF Reads

\* So is any of them, there or not, but the modes,
LEMMA NameIsRead ==
  ASSUME NEW m \in Seq(Items), NEW k \in 0..Len(m), NEW fields, Agrees(fields, m, k), NEW name \in Names \ {"modes"}
  PROVE  Reads(fields, name, OneOf(m, k, name))
<1>1. name \in Names
  OBVIOUS
<1>2. CASE Mine(m, k, name) = {}
  BY <1>1, <1>2, BucketIsMine, NothingIsRead
<1>3. CASE Mine(m, k, name) # {}
  <2>1. PICK i \in Mine(m, k, name) : /\ Proto!First(fields, Proto!Schema[name].num) = m[i].field.value
                                      /\ OneOf(m, k, name) = m[i].meant /\ m[i] \in Items /\ m[i].name = name
    BY <1>1, <1>3, BucketIsMine
  <2> DEFINE s == m[i]
  <2>2. s \in Items /\ s.name = name /\ Proto!First(fields, Proto!Schema[name].num) = s.field.value
    BY <2>1
  <2> HIDE DEF s
  <2>3. Reads(fields, name, s.meant)
    <3>1. CASE name = "key"
      BY <2>2, <3>1, NameTells, KeyIsRead
    <3>2. CASE name = "on"
      BY <2>2, <3>2, NameTells, OnIsRead
    <3>3. CASE name = "float"
      BY <2>2, <3>3, NameTells, FloatIsRead
    <3>4. CASE name = "text"
      BY <2>2, <3>4, NameTells, TextIsRead
    <3>5. CASE name = "sint"
      BY <2>2, <3>5, NameTells, SintIsRead
    <3>6. CASE name = "packed"
      BY <2>2, <3>6, NameTells, ListIsRead
    <3>7. CASE name = "flags"
      BY <2>2, <3>7, NameTells, PlainIsRead DEF SaysFlags
    <3>8. CASE name = "deviceId"
      BY <2>2, <3>8, NameTells, PlainIsRead DEF SaysDevice
    <3> QED
      BY <3>1, <3>2, <3>3, <3>4, <3>5, <3>6, <3>7, <3>8 DEF Names
  <2> QED
    BY <2>1, <2>3 DEF s
<1> QED
  BY <1>2, <1>3

\* The modes, in a list.
LEMMA ModesAreRead ==
  ASSUME NEW m \in Seq(Items), NEW k \in 0..Len(m), NEW fields, Agrees(fields, m, k)
  PROVE  LET modes == Proto!Collected([i \in 1..k |-> m[i].meant.n], Mine(m, k, "modes"))
         IN  Reads(fields, "modes", IF modes # <<>> THEN [is |-> "list", n |-> 0, bytes |-> modes] ELSE OneOf(m, k, "modes"))
<1> DEFINE num == Proto!Schema["modes"].num
           T == Mine(m, k, "modes")
           a == [i \in 1..k |-> m[i].meant.n]
           s == [i \in 1..Len(fields) |-> fields[i].value.n]
           modes == Proto!Collected(a, T)
           taken == {i \in Proto!Bucket(fields, num) : fields[i].value.is = "number"}
<1>1. "modes" \in Names /\ k \in Nat
  BY DEF Names
<1>2. /\ Proto!Bucket(fields, num) = T
      /\ \A i \in T : m[i] \in Items /\ m[i].name = "modes" /\ fields[i].value = m[i].field.value
      /\ T = {} => OneOf(m, k, "modes") = Proto!Nothing
  BY <1>1, BucketIsMine
<1>3. ASSUME NEW i \in T PROVE fields[i].value.is = "number" /\ fields[i].value.n = m[i].meant.n
  <2>1. PICK n : SaysMode(m[i], n)
    BY <1>2, NameTells
  <2>2. m[i].field.value = Proto!NumberValue(n) /\ m[i].meant = Proto!NumberValue(n)
    BY <2>1 DEF SaysMode, SaysOf
  <2>3. fields[i].value = Proto!NumberValue(n)
    BY <1>2, <2>2
  <2> QED
    BY <2>2, <2>3, NumbersAreTold
<1>4. taken = T
  BY <1>2, <1>3
<1>5. Len(fields) = k /\ Len(s) = k /\ Len(a) = k
  <2>1. Len(fields) = k
    BY DEF Agrees
  <2> QED
    BY <1>1, <2>1
<1>6. \A i \in T \cap (1..k) : s[i] = a[i]
  BY <1>3, <1>5 DEF Mine
<1>7. Proto!Collected(s, T) = modes
  <2> HIDE DEF s, a, T
  <2> QED
    BY <1>1, <1>5, <1>6, CollectedAlike
<1>8. Proto!ExtractFieldBySpec(fields, "modes") =
        [is |-> IF T = {} THEN "nothing" ELSE "list", n |-> 0, bytes |-> modes]
  <2>1. Proto!ExtractRepeatedField(fields, num, "number") =
          [is |-> IF taken = {} THEN "nothing" ELSE "list", n |-> 0, bytes |-> Proto!Collected(s, taken)]
    BY Zenon DEF Proto!ExtractRepeatedField
  <2>2. Proto!ExtractFieldBySpec(fields, "modes") = Proto!ExtractRepeatedField(fields, num, "number")
    BY SpecOf
  <2> HIDE DEF taken, s, T, modes, num
  <2> QED
    BY <1>4, <1>7, <2>1, <2>2
<1>9. CASE T = {}
  <2>1. modes = <<>>
    <3>1. Len(a) \in Nat
      BY <1>1, <1>5
    <3> HIDE DEF a, T
    <3> QED
      BY <1>9, <3>1, NoneCollected
  <2> HIDE DEF T, modes
  <2>2. Proto!ExtractFieldBySpec(fields, "modes") = Proto!Nothing
    BY <1>8, <1>9, <2>1 DEF Proto!Nothing
  <2> QED
    BY <1>2, <1>9, <2>1, <2>2 DEF Reads, modes, T
<1>10. CASE T # {}
  <2>1. modes # <<>>
    <3>1. PICK i : i \in T \cap (1..Len(a))
      BY <1>5, <1>10 DEF Mine
    <3>2. Len(a) \in Nat
      BY <1>1, <1>5
    <3> HIDE DEF a, T
    <3> QED
      BY <3>1, <3>2, SomeCollected
  <2> HIDE DEF T, modes
  <2>2. Proto!ExtractFieldBySpec(fields, "modes") = [is |-> "list", n |-> 0, bytes |-> modes]
    BY <1>8, <1>10
  <2> QED
    BY <2>1, <2>2 DEF Reads, modes, T
<1> QED
  BY <1>9, <1>10

\* The flags, which share a word.
FlagRead(fields, b) ==
  LET packed == Proto!ExtractNumberField(fields, Proto!Schema["flags"].num)
  IN  IF packed = Proto!Nothing THEN Proto!Nothing
      ELSE [packed EXCEPT !.is = "bool", !.n = IF b \in Proto!Bits(packed.n) THEN 1 ELSE 0]
FlagMeant(m, k, b) ==
  IF OneOf(m, k, "flags") = Proto!Nothing THEN Proto!Nothing
  ELSE Proto!As("bool", Proto!NumberValue(IF b \in Proto!Bits(OneOf(m, k, "flags").n) THEN 1 ELSE 0))

\* The flags are those of the first word, or absent with it.
LEMMA FlagsAreRead ==
  ASSUME NEW m \in Seq(Items), NEW k \in 0..Len(m), NEW fields, Agrees(fields, m, k), NEW b
  PROVE  FlagRead(fields, b) = FlagMeant(m, k, b)
<1> DEFINE packed == Proto!ExtractNumberField(fields, Proto!Schema["flags"].num)
           one == OneOf(m, k, "flags")
<1>1. "flags" \in Names \ {"modes"} /\ "flags" \in Names
  BY DEF Names
<1>2. packed = one
  <2>1. Reads(fields, "flags", one)
    BY <1>1, NameIsRead
  <2> QED
    BY <2>1, SpecOf DEF Reads
<1>3. one = Proto!Nothing \/ \E n : one = Proto!NumberValue(n)
  <2>1. CASE Mine(m, k, "flags") = {}
    BY <2>1 DEF OneOf
  <2>2. CASE Mine(m, k, "flags") # {}
    <3>1. PICK i \in Mine(m, k, "flags") : one = m[i].meant /\ m[i] \in Items /\ m[i].name = "flags"
      BY <1>1, <2>2, BucketIsMine
    <3>2. PICK n : SaysFlags(m[i], n)
      BY <3>1, NameTells
    <3>3. m[i].meant = Proto!NumberValue(n)
      BY <3>2 DEF SaysFlags, SaysOf
    <3> QED
      BY <3>1, <3>3
  <2> QED
    BY <2>1, <2>2
<1> HIDE DEF packed, one
<1>4. CASE one = Proto!Nothing
  BY <1>2, <1>4, Zenon DEF FlagRead, FlagMeant, packed, one
<1>5. ASSUME NEW n, one = Proto!NumberValue(n), one # Proto!Nothing PROVE FlagRead(fields, b) = FlagMeant(m, k, b)
  <2> DEFINE x == IF b \in Proto!Bits(packed.n) THEN 1 ELSE 0
  <2>1. FlagRead(fields, b) = [packed EXCEPT !.is = "bool", !.n = x]
    BY <1>2, <1>5, Zenon DEF FlagRead, packed
  <2>2. FlagMeant(m, k, b) = Proto!As("bool", Proto!NumberValue(x))
    BY <1>2, <1>5, Zenon DEF FlagMeant, one
  <2> HIDE DEF x
  <2>3. WithNumber(Proto!NumberValue(n), "bool", x) = Proto!As("bool", Proto!NumberValue(x))
    BY NumberChanges
  <2>4. packed = Proto!NumberValue(n)
    BY <1>2, <1>5
  <2>5. WithNumber(packed, "bool", x) = Proto!As("bool", Proto!NumberValue(x))
    BY <2>3, <2>4, Zenon
  <2> QED
    BY <2>1, <2>2, <2>5, Zenon DEF WithNumber
<1> QED
  BY <1>3, <1>4, <1>5

\* The names of the schema.
LEMMA SchemaNames == DOMAIN Proto!Schema = Names
BY DEF Proto!Schema, Names

\* The reader sees what was meant.
LEMMA StateIsMeant ==
  ASSUME message \in Seq(Items), NEW k \in 0..Len(message), NEW fields, Agrees(fields, message, k)
  PROVE  Proto!DecodeState(fields) = Proto!Meaning(k)
<1> DEFINE modes == Proto!Collected([i \in 1..k |-> message[i].meant.n], Mine(message, k, "modes"))
           Meant(name) == IF name = "modes" /\ modes # <<>> THEN [is |-> "list", n |-> 0, bytes |-> modes]
                          ELSE OneOf(message, k, name)
           FlagsRead == [flag \in DOMAIN Proto!Flags |-> FlagRead(fields, Proto!Flags[flag])]
           FlagsMeant == [flag \in DOMAIN Proto!Flags |-> FlagMeant(message, k, Proto!Flags[flag])]
<1>1. \A name \in Names : Proto!ExtractFieldBySpec(fields, name) = Meant(name)
  <2> TAKE name \in Names
  <2>1. CASE name = "modes"
    <3>1. Reads(fields, "modes", IF modes # <<>> THEN [is |-> "list", n |-> 0, bytes |-> modes] ELSE OneOf(message, k, "modes"))
      BY ModesAreRead
    <3> HIDE DEF modes
    <3> QED
      BY <2>1, <3>1 DEF Reads
  <2>2. CASE name # "modes"
    <3>1. name \in Names \ {"modes"}
      BY <2>2
    <3>2. Reads(fields, name, OneOf(message, k, name))
      BY <3>1, NameIsRead
    <3> HIDE DEF modes
    <3> QED
      BY <2>2, <3>2 DEF Reads
  <2> QED
    BY <2>1, <2>2
<1>2. \A b : FlagRead(fields, b) = FlagMeant(message, k, b)
  BY FlagsAreRead
<1>3. FlagsRead = FlagsMeant
  BY <1>2, Zenon
<1> QED
  BY <1>1, <1>3, SchemaNames DEF Proto!DecodeState, Proto!Meaning, FlagRead, FlagMeant, OneOf, Mine
-----------------------------------------------------------------------------
(* Turns of the decoder over a message that arrived, whole or without its end. *)

Grouped(m, k) == m[k].field.wire = "START_GROUP"

TurnFinds(bytes, m, d) ==
  IF Grouped(m, d + 1) THEN Proto!FieldAt(bytes, Start(m, d))[1].error = "UNSUPPORTED"
  ELSE /\ Finds(bytes, Start(m, d), m[d + 1].field)
       /\ Proto!FieldAt(bytes, Start(m, d))[2] = Start(m, d + 1)

\* A turn where a field is carried finds it.
LEMMA TurnIsRight ==
  ASSUME NEW m, Sent(m), NEW d \in Nat, d < Len(m), NEW bytes \in Bytes,
         Carries(bytes, Start(m, d), Proto!EncodeField(m[d + 1].field))
  PROVE  TurnFinds(bytes, m, d)
<1>1. d + 1 \in 1..Len(m) /\ (d + 1) - 1 = d /\ Len(m) \in Nat
  BY PiecesAre
<1>2. Sendable(m[d + 1].field)
  BY <1>1 DEF Sent
<1>3. IsGroup(m[d + 1].field) <=> Grouped(m, d + 1)
  BY <1>2, GroupsAre DEF Grouped
<1>4. Start(m, d + 1) = Start(m, d) + Len(Proto!EncodeField(m[d + 1].field))
  BY <1>1, StartsAre
<1>5. IF IsGroup(m[d + 1].field) THEN Proto!FieldAt(bytes, Start(m, d))[1].error = "UNSUPPORTED"
      ELSE Finds(bytes, Start(m, d), m[d + 1].field)
  BY <1>2, FieldIsRead
<1>6. Finds(bytes, Start(m, d), m[d + 1].field) => Proto!FieldAt(bytes, Start(m, d))[2] = Start(m, d + 1)
  BY <1>4 DEF Finds
<1> QED
  BY <1>3, <1>5, <1>6, Zenon DEF TurnFinds

\* Over a whole message each turn finds the next field.
LEMMA TurnOfWhole ==
  ASSUME NEW m, Sent(m), NEW d \in Nat, d < Len(m)
  PROVE  TurnFinds(Proto!Encoded(m), m, d) /\ Start(m, d + 1) <= Len(Proto!Encoded(m)) /\ Start(m, d + 1) \in Nat
<1>1. d + 1 \in 1..Len(m) /\ (d + 1) - 1 = d /\ Len(m) \in Nat /\ Proto!Encoded(m) \in Bytes
  BY PiecesAre
<1>2. Carries(Proto!Encoded(m), Start(m, d), Proto!EncodeField(m[d + 1].field))
  BY <1>1, StartsAre
<1>3. Start(m, d + 1) = Start(m, d) + Len(Proto!EncodeField(m[d + 1].field)) /\ Start(m, d) \in Nat
      /\ Len(Proto!EncodeField(m[d + 1].field)) \in Nat
  BY <1>1, StartsAre
<1> QED
  BY <1>1, <1>2, <1>3, TurnIsRight DEF Carries

\* Over a message without its end a turn finds the next field, or refuses what is left of it.
LEMMA TurnOfCut ==
  ASSUME NEW m, Sent(m), NEW n \in 0..Len(Proto!Encoded(m)) - 1, NEW d \in Nat, d < Len(m), Start(m, d) < n
  PROVE  \/ Refuses(SubSeq(Proto!Encoded(m), 1, n), Start(m, d))
         \/ TurnFinds(SubSeq(Proto!Encoded(m), 1, n), m, d) /\ Start(m, d + 1) <= n /\ Start(m, d + 1) \in Nat
<1> DEFINE whole == Proto!Encoded(m)
           bytes == SubSeq(whole, 1, n)
           piece == Proto!EncodeField(m[d + 1].field)
           start == Start(m, d)
<1>1. d + 1 \in 1..Len(m) /\ (d + 1) - 1 = d /\ Len(m) \in Nat /\ whole \in Bytes
  BY PiecesAre
<1>2. Carries(whole, start, piece) /\ start \in Nat /\ Len(piece) \in Nat /\ Start(m, d + 1) = start + Len(piece)
  BY <1>1, StartsAre
<1>3. bytes \in Bytes /\ Len(bytes) = n /\ n \in Nat /\ \A i \in 1..n : bytes[i] = whole[i]
  BY <1>1 DEF Bytes
<1>4. Sendable(m[d + 1].field)
  BY <1>1 DEF Sent
<1> HIDE DEF bytes, whole, piece, start
<1>5. CASE start + Len(piece) <= n
  <2>1. \A i \in 1..Len(piece) : start + i \in 1..n
    BY ONLY <1>2, <1>3, <1>5
  <2>2. Carries(bytes, start, piece)
    BY <1>2, <1>3, <1>5, <2>1 DEF Carries
  <2>3. TurnFinds(bytes, m, d)
    BY <1>3, <2>2, TurnIsRight DEF start, piece
  <2>4. Start(m, d + 1) <= n /\ Start(m, d + 1) \in Nat
    BY <1>2, <1>5
  <2> QED
    BY <2>3, <2>4 DEF bytes, whole
<1>6. CASE start + Len(piece) > n
  <2>1. n - start \in Nat /\ n - start < Len(piece) /\ n = start + (n - start)
    BY <1>2, <1>3, <1>6 DEF start
  <2>2. \A i \in 1..(n - start) : i \in 1..Len(piece) /\ start + i \in 1..n
    BY ONLY <1>2, <1>3, <2>1
  <2>3. StandsCut(bytes, start, piece, n - start)
    BY <1>2, <1>3, <2>1, <2>2 DEF StandsCut, Carries
  <2>4. Refuses(bytes, start)
    BY <1>4, <2>3, FieldIsCut DEF piece
  <2> QED
    BY <2>4 DEF bytes, whole, start
<1> QED
  BY <1>2, <1>3, <1>5, <1>6

\* What is cut where a field starts is the message of the fields in front of it.
LEMMA CutBetween ==
  ASSUME NEW m, Sent(m), NEW d \in 0..Len(m)
  PROVE  SubSeq(Proto!Encoded(m), 1, Start(m, d)) = Proto!Encoded(SubSeq(m, 1, d))
<1>1. Pieces(m) \in Seq(Bytes) /\ Len(Pieces(m)) = Len(m) /\ Len(m) \in Nat
      /\ Proto!Encoded(m) = Proto!FlattenSeq(Pieces(m)) /\ Proto!Encoded(m) \in Bytes
  BY PiecesAre
<1>2. Joined(Pieces(m), d) = Proto!Encoded(SubSeq(m, 1, d))
  BY PrefixIs
<1>3. Joined(Pieces(m), d) \in Bytes
  BY <1>1, JoinedIsBytes
<1>4. CASE d = 0
  <2>1. Joined(Pieces(m), d) = <<>> /\ Start(m, d) = 0
    BY <1>1, <1>4, JoinedEnds, StartsAre
  <2>2. SubSeq(Proto!Encoded(m), 1, 0) = <<>>
    BY <1>1 DEF Bytes
  <2> QED
    BY <1>2, <2>1, <2>2
<1>5. CASE d # 0
  <2>1. Carries(Proto!Encoded(m), 0, Joined(Pieces(m), d))
    BY <1>1, <1>5, JoinedCarries
  <2>2. SubSeq(Proto!Encoded(m), 0 + 1, 0 + Start(m, d)) = Joined(Pieces(m), d)
    BY <1>1, <1>3, <2>1, SliceIsRead DEF Start
  <2>3. Start(m, d) \in Nat
    BY StartsAre
  <2> QED
    BY <1>2, <2>2, <2>3
<1> QED
  BY <1>4, <1>5
-----------------------------------------------------------------------------
(* The codec's inductive invariant. *)

FieldsFound == {Proto!FieldAt(pair[1], pair[2])[1] : pair \in Bytes \X Nat}
DecodingErrors == {"MALFORMED_VARINT", "RANGE_ERROR", "TRUNCATED_MESSAGE"}
Unsent == {"composing", "FIXED32_BIGINT", "UNSUPPORTED_WIRE_TYPE"}
Verdicts == Unsent \cup DecodingErrors \cup {"decoding", "done", "read", "TOO_MANY_FIELDS"}

CodecTypes ==
  /\ message \in Seq(Items) /\ limit \in Nat /\ damage \in {"none", "cut", "garbled"}
  /\ buffer \in Bytes /\ offset \in Nat /\ decoded \in Seq(FieldsFound) /\ verdict \in Verdicts

\* Nothing is there to read before a message is sent.
NothingSent == buffer = <<>> /\ offset = 0 /\ decoded = <<>> /\ damage = "none"

\* The bytes are those of the message, all or the first of them.
Arrived ==
  /\ damage = "none" => buffer = Proto!Encoded(message)
  /\ damage = "cut" => \E n \in 0..Len(Proto!Encoded(message)) - 1 : buffer = SubSeq(Proto!Encoded(message), 1, n)

\* The decoder has the first fields, none of them behind a group, and stands at the next.
Follows == Len(decoded) <= Proto!Known /\ offset = Start(message, Len(decoded)) /\ Agrees(decoded, message, Len(decoded))

\* Where it ends, it had to.
EndsRightly ==
  /\ verdict \in {"done", "read"} /\ damage = "none" => Len(decoded) = Proto!Known
  /\ verdict \in {"done", "read"} /\ damage = "cut" =>
       Len(decoded) = Proto!Known \/ buffer = Proto!Encoded(SubSeq(message, 1, Len(decoded)))
  /\ verdict = "TOO_MANY_FIELDS" => Len(decoded) = limit /\ buffer # <<>> /\ (damage = "none" => Proto!Known > limit)
  /\ damage = "none" => verdict \notin DecodingErrors

CodecInv ==
  /\ CodecTypes /\ Proto!DecoderIsBounded
  /\ verdict \in Unsent => NothingSent
  /\ verdict \notin Unsent => Sent(message) /\ Arrived /\ (damage # "garbled" => Follows) /\ EndsRightly
  /\ verdict = "read" => state = Proto!DecodeState(decoded)

\* The invariant holds at first,
LEMMA CodecStarts ==
  ASSUME Proto!Init
  PROVE  CodecInv
<1>1. limit \in Nat
  BY CodecAssumption DEF Proto!Init
<1>2. message \in Seq(Items) /\ buffer \in Bytes /\ decoded \in Seq(FieldsFound) /\ Len(buffer) = 0 /\ Len(decoded) = 0
  BY DEF Proto!Init, Bytes
<1>3. verdict \in Unsent /\ verdict \in Verdicts /\ verdict # "read"
  BY DEF Proto!Init, Unsent, Verdicts
<1> QED
  BY <1>1, <1>2, <1>3 DEF Proto!Init, CodecInv, CodecTypes, Proto!DecoderIsBounded, NothingSent

\* while nothing happens,
LEMMA CodecRests ==
  ASSUME CodecInv, UNCHANGED codecVars
  PROVE  CodecInv'
<1>1. message' = message /\ buffer' = buffer /\ damage' = damage /\ offset' = offset /\ decoded' = decoded
      /\ verdict' = verdict /\ limit' = limit /\ state' = state
  BY DEF codecVars
<1>2. Proto!Known' = Proto!Known
  BY <1>1 DEF Proto!Known
<1> QED
  BY <1>1, <1>2 DEF CodecInv, CodecTypes, Proto!DecoderIsBounded, NothingSent, Arrived, Follows, EndsRightly

\* and through every action.
LEMMA AddKeepsCodec ==
  ASSUME CodecInv, NEW s \in Items, Proto!Add(s)
  PROVE  CodecInv'
<1>1. message' = Append(message, s) /\ buffer' = buffer /\ damage' = damage /\ offset' = offset /\ decoded' = decoded
      /\ verdict' = verdict /\ limit' = limit /\ state' = state /\ verdict = "composing"
  BY DEF Proto!Add
<1>2. message' \in Seq(Items) /\ verdict \in Unsent /\ verdict # "read"
  BY <1>1 DEF CodecInv, CodecTypes, Unsent
<1> QED
  BY <1>1, <1>2 DEF CodecInv, CodecTypes, Proto!DecoderIsBounded, NothingSent

\* The one field that no one can send.
LEMMA UnsendableIsWide ==
  ASSUME NEW f, Unsendable(f)
  PROVE  Proto!EncodingError(f) = "FIXED32_BIGINT"
BY DEF Unsendable, Proto!EncodingError

LEMMA SendingKeepsCodec ==
  ASSUME CodecInv, verdict = "composing", verdict' = "decoding", buffer' = Proto!Encoded(message),
         \A i \in 1..Len(message) : Proto!EncodingError(message[i].field) # "FIXED32_BIGINT",
         UNCHANGED <<message, damage, offset, decoded, limit, state>>
  PROVE  CodecInv'
<1>1. verdict \in Unsent /\ verdict' \notin Unsent /\ verdict' \in Verdicts /\ verdict' \notin DecodingErrors
      /\ verdict' \notin {"done", "read", "TOO_MANY_FIELDS"}
  BY DEF Unsent, Verdicts, DecodingErrors
<1>2. NothingSent /\ CodecTypes
  BY <1>1 DEF CodecInv
<1>3. \A i \in 1..Len(message) : Sendable(message[i].field)
  <2> SUFFICES ASSUME NEW i \in 1..Len(message) PROVE Sendable(message[i].field)
    OBVIOUS
  <2>1. message[i] \in Items
    BY <1>2 DEF CodecTypes
  <2> QED
    BY <2>1, ItemIsSendable, UnsendableIsWide
<1>4. Sent(message)
  BY <1>2, <1>3 DEF Sent, CodecTypes
<1>5. Sent(message)'
  BY <1>4
<1>6. buffer' \in Bytes /\ Len(buffer') \in Nat /\ Len(message) \in Nat
  BY <1>4, PiecesAre DEF Bytes
<1>7. Len(decoded) = 0 /\ decoded' = decoded /\ offset' = 0 /\ damage' = "none"
  BY <1>2 DEF NothingSent
<1>8. Proto!Known \in Nat /\ Proto!Known' = Proto!Known
  BY <1>2, KnownIs DEF CodecTypes, Proto!Known
<1>9. CodecTypes' /\ Proto!DecoderIsBounded'
  BY <1>1, <1>2, <1>6, <1>7 DEF CodecTypes, Proto!DecoderIsBounded
<1>10. Start(message, 0) = 0
  BY <1>4, StartsAre
<1>11. Arrived'
  BY <1>7 DEF Arrived
<1>12. Follows'
  BY <1>7, <1>8, <1>10 DEF Follows, Agrees
<1>13. EndsRightly'
  BY <1>1 DEF EndsRightly
<1> QED
  BY <1>1, <1>5, <1>9, <1>11, <1>12, <1>13 DEF CodecInv

LEMMA EncodeKeepsCodec ==
  ASSUME CodecInv, Proto!EncodeProtoFields
  PROVE  CodecInv'
<1> DEFINE wrong == {i \in 1..Len(message) : Proto!EncodingError(message[i].field) # "none"}
<1>1. CASE wrong = {}
  <2>1. verdict = "composing" /\ verdict' = "decoding" /\ buffer' = Proto!Encoded(message)
        /\ UNCHANGED <<message, damage, offset, decoded, limit, state>>
    BY <1>1 DEF Proto!EncodeProtoFields
  <2>2. \A i \in 1..Len(message) : Proto!EncodingError(message[i].field) # "FIXED32_BIGINT"
    BY <1>1
  <2> QED
    BY <2>1, <2>2, SendingKeepsCodec
<1>2. CASE wrong # {}
  <2>1. verdict = "composing" /\ verdict' = Proto!EncodingError(message[Proto!Min(wrong)].field) /\ buffer' = buffer
        /\ UNCHANGED <<message, damage, offset, decoded, limit, state>>
    BY <1>2 DEF Proto!EncodeProtoFields
  <2>2. wrong \subseteq Nat
    OBVIOUS
  <2>3. PICK x \in wrong : \A y \in wrong : x <= y
    BY <1>2, <2>2, LeastNumber
  <2>4. Proto!Min(wrong) \in wrong
    BY <2>3 DEF Proto!Min
  <2>5. verdict' # "none"
    BY <2>1, <2>4
  <2>6. verdict' \in {"FIXED32_BIGINT", "UNSUPPORTED_WIRE_TYPE", "none"}
    BY <2>1 DEF Proto!EncodingError
  <2>7. verdict \in Unsent /\ verdict' \in Unsent /\ verdict' \in Verdicts /\ verdict' # "read"
    BY <2>1, <2>5, <2>6 DEF Unsent, Verdicts
  <2> HIDE DEF wrong
  <2> QED
    BY <2>1, <2>7 DEF CodecInv, CodecTypes, Proto!DecoderIsBounded, NothingSent
<1> QED
  BY <1>1, <1>2

LEMMA DeviceKeepsCodec ==
  ASSUME CodecInv, Proto!DeviceEncodes
  PROVE  CodecInv'
BY SendingKeepsCodec DEF Proto!DeviceEncodes

LEMMA CutKeepsCodec ==
  ASSUME CodecInv, NEW n \in 0..Len(buffer) - 1, Proto!Cut(n)
  PROVE  CodecInv'
<1>1. verdict = "decoding" /\ verdict \notin Unsent /\ offset = 0 /\ damage = "none" /\ damage' = "cut"
      /\ buffer' = SubSeq(buffer, 1, n)
      /\ UNCHANGED <<message, offset, decoded, verdict, limit, state>>
  BY DEF Proto!Cut, Unsent
<1>2. CodecTypes /\ Proto!DecoderIsBounded /\ Sent(message) /\ Arrived /\ Follows
  BY <1>1 DEF CodecInv
<1>3. buffer = Proto!Encoded(message)
  BY <1>1, <1>2 DEF Arrived
<1>4. buffer' \in Bytes /\ Len(buffer') = n /\ n \in Nat
  BY <1>1, <1>2 DEF CodecTypes, Bytes
<1>5. CodecTypes' /\ Proto!DecoderIsBounded'
  BY <1>1, <1>2, <1>4 DEF CodecTypes, Proto!DecoderIsBounded
<1>6. Arrived'
  BY <1>1, <1>3 DEF Arrived
<1>7. Proto!Known' = Proto!Known
  BY <1>1 DEF Proto!Known
<1>8. Follows' /\ Sent(message)'
  BY <1>1, <1>2, <1>7 DEF Follows
<1>9. EndsRightly'
  BY <1>1 DEF EndsRightly, DecodingErrors
<1> QED
  BY <1>1, <1>5, <1>6, <1>8, <1>9 DEF CodecInv

\* A byte is a number.
LEMMA BytesAreNumbers == Proto!Byte \subseteq Nat
<1>1. Group + 1 \in Nat
  BY CodecSizes
<1>2. 2 ^ (Group + 1) \in Nat
  BY <1>1, PowerPositive
<1> QED
  BY <1>2 DEF Proto!Byte

LEMMA GarbleKeepsCodec ==
  ASSUME CodecInv, NEW i \in 1..Len(buffer), NEW b \in Proto!Byte, Proto!Garble(i, b)
  PROVE  CodecInv'
<1>1. verdict = "decoding" /\ verdict \notin Unsent /\ damage' = "garbled" /\ buffer' = [buffer EXCEPT ![i] = b]
      /\ UNCHANGED <<message, offset, decoded, verdict, limit, state>>
  BY DEF Proto!Garble, Unsent
<1>2. CodecTypes /\ Proto!DecoderIsBounded /\ Sent(message)
  BY <1>1 DEF CodecInv
<1>3. buffer' \in Bytes /\ Len(buffer') = Len(buffer)
  BY <1>1, <1>2, BytesAreNumbers DEF CodecTypes, Bytes
<1>4. CodecTypes' /\ Proto!DecoderIsBounded'
  BY <1>1, <1>2, <1>3 DEF CodecTypes, Proto!DecoderIsBounded
<1>5. Arrived' /\ EndsRightly' /\ Sent(message)'
  BY <1>1, <1>2 DEF Arrived, EndsRightly, DecodingErrors
<1> QED
  BY <1>1, <1>4, <1>5 DEF CodecInv

LEMMA EndKeepsCodec ==
  ASSUME CodecInv, Proto!DecodeEnds
  PROVE  CodecInv'
<1>1. verdict = "decoding" /\ verdict \notin Unsent /\ verdict' = "done" /\ verdict' \notin Unsent /\ offset >= Len(buffer)
      /\ verdict' \in Verdicts
      /\ UNCHANGED <<message, buffer, damage, offset, decoded, limit, state>>
  BY DEF Proto!DecodeEnds, Unsent, Verdicts
<1>2. CodecTypes /\ Proto!DecoderIsBounded /\ Sent(message) /\ Arrived /\ (damage # "garbled" => Follows)
  BY <1>1 DEF CodecInv
<1>3. CodecTypes' /\ Proto!DecoderIsBounded' /\ Sent(message)' /\ Arrived'
  BY <1>1, <1>2 DEF CodecTypes, Proto!DecoderIsBounded, Arrived
<1>4. Proto!Known' = Proto!Known
  BY <1>1 DEF Proto!Known
<1>5. (damage # "garbled" => Follows)'
  BY <1>1, <1>2, <1>4 DEF Follows
<1>6. Proto!Known \in 0..Len(message) /\ Len(message) \in Nat /\ Len(decoded) \in Nat
  BY <1>2, KnownIs, PiecesAre DEF CodecTypes
<1>7. offset = Len(buffer)
  BY <1>1, <1>2 DEF CodecTypes, Proto!DecoderIsBounded, Bytes
<1>8. ASSUME damage = "none" PROVE Len(decoded) = Proto!Known
  <2>1. Start(message, Len(decoded)) = Start(message, Len(message)) /\ Len(decoded) <= Proto!Known
    BY <1>2, <1>7, <1>8, StartsAre DEF Arrived, Follows
  <2>2. Start(message, Len(decoded)) \in Nat /\ Len(decoded) \in 0..Len(message) /\ Len(message) \in 0..Len(message)
    BY <1>2, <1>6, <2>1, StartsAre
  <2>3. ~(Len(decoded) < Len(message))
    BY <1>2, <2>1, <2>2, StartsGrow
  <2> QED
    BY <1>6, <2>1, <2>3
<1>9. ASSUME damage = "cut" PROVE buffer = Proto!Encoded(SubSeq(message, 1, Len(decoded)))
  <2>1. PICK n \in 0..Len(Proto!Encoded(message)) - 1 : buffer = SubSeq(Proto!Encoded(message), 1, n)
    BY <1>2, <1>9 DEF Arrived
  <2>2. Proto!Encoded(message) \in Bytes
    BY <1>2, PiecesAre
  <2>3. Len(buffer) = n
    BY <2>1, <2>2 DEF Bytes
  <2>4. n = Start(message, Len(decoded)) /\ Len(decoded) \in 0..Len(message)
    BY <1>2, <1>6, <1>7, <1>9, <2>3 DEF Follows
  <2> QED
    BY <1>2, <2>1, <2>4, CutBetween
<1>10. EndsRightly'
  BY <1>1, <1>4, <1>8, <1>9 DEF EndsRightly, DecodingErrors
<1> QED
  BY <1>1, <1>3, <1>5, <1>10 DEF CodecInv

LEMMA InterpretKeepsCodec ==
  ASSUME CodecInv, Proto!Interpret
  PROVE  CodecInv'
<1>1. verdict = "done" /\ verdict \notin Unsent /\ verdict' = "read" /\ verdict' \notin Unsent /\ verdict' \in Verdicts
      /\ state' = Proto!DecodeState(decoded)
      /\ UNCHANGED <<message, buffer, damage, offset, decoded, limit>>
  BY DEF Proto!Interpret, Unsent, Verdicts
<1>2. CodecTypes /\ Proto!DecoderIsBounded /\ Sent(message) /\ Arrived /\ (damage # "garbled" => Follows) /\ EndsRightly
  BY <1>1 DEF CodecInv
<1>3. Proto!Known' = Proto!Known
  BY <1>1 DEF Proto!Known
<1>4. Proto!DecodeState(decoded)' = Proto!DecodeState(decoded)
  BY <1>1, Zenon
<1>5. (verdict = "read" => state = Proto!DecodeState(decoded))'
  BY <1>1, <1>4
<1>6. CodecTypes' /\ Proto!DecoderIsBounded' /\ Sent(message)' /\ Arrived' /\ (damage # "garbled" => Follows)'
  BY <1>1, <1>2, <1>3 DEF CodecTypes, Proto!DecoderIsBounded, Arrived, Follows
<1>7. EndsRightly'
  BY <1>1, <1>2, <1>3 DEF EndsRightly, DecodingErrors
<1> QED
  BY <1>1, <1>5, <1>6, <1>7 DEF CodecInv

\* A turn over a message that arrived finds the next field, or a group, or the end that was lost.
LEMMA TurnGoesOn ==
  ASSUME CodecInv, verdict = "decoding", offset < Len(buffer), damage # "garbled"
  PROVE  /\ Len(decoded) \in Nat /\ Len(decoded) < Len(message) /\ Len(message) \in Nat
         /\ offset = Start(message, Len(decoded))
         /\ \/ damage = "cut" /\ Refuses(buffer, offset)
            \/ TurnFinds(buffer, message, Len(decoded)) /\ Start(message, Len(decoded) + 1) <= Len(buffer)
<1>1. CodecTypes /\ Sent(message) /\ Arrived /\ Follows
  BY DEF CodecInv, Unsent
<1>2. Proto!Known \in 0..Len(message) /\ Len(message) \in Nat /\ Len(decoded) \in Nat /\ Proto!Encoded(message) \in Bytes
  BY <1>1, KnownIs, PiecesAre DEF CodecTypes
<1>3. offset = Start(message, Len(decoded)) /\ Len(decoded) <= Proto!Known
  BY <1>1 DEF Follows
<1>4. Start(message, Len(message)) = Len(Proto!Encoded(message)) /\ Len(Proto!Encoded(message)) \in Nat
  BY <1>1, <1>2, StartsAre DEF Bytes
<1>5. CASE damage = "none"
  <2>1. buffer = Proto!Encoded(message)
    BY <1>1, <1>5 DEF Arrived
  <2>2. Len(decoded) # Len(message)
    BY <1>3, <1>4, <2>1
  <2>3. Len(decoded) < Len(message)
    BY <1>2, <1>3, <2>2
  <2> QED
    BY <1>1, <1>2, <1>3, <2>1, <2>3, TurnOfWhole
<1>6. CASE damage = "cut"
  <2>1. PICK n \in 0..Len(Proto!Encoded(message)) - 1 : buffer = SubSeq(Proto!Encoded(message), 1, n)
    BY <1>1, <1>6 DEF Arrived
  <2>2. Len(buffer) = n
    BY <1>2, <2>1 DEF Bytes
  <2>3. Len(decoded) # Len(message)
    BY <1>3, <1>4, <2>2
  <2>4. Len(decoded) < Len(message)
    BY <1>2, <1>3, <2>3
  <2> QED
    BY <1>1, <1>2, <1>3, <1>6, <2>1, <2>2, <2>4, TurnOfCut
<1> QED
  BY <1>1, <1>5, <1>6 DEF CodecTypes

LEMMA TurnKeepsCodec ==
  ASSUME CodecInv, Proto!DecodeField
  PROVE  CodecInv'
<1> DEFINE taken == Proto!FieldAt(buffer, offset)
           field == taken[1]
           d == Len(decoded)
<1>1. verdict = "decoding" /\ verdict \notin Unsent /\ offset < Len(buffer)
      /\ message' = message /\ buffer' = buffer /\ damage' = damage /\ limit' = limit /\ state' = state
  BY DEF Proto!DecodeField, Unsent
<1>2. CodecTypes /\ Proto!DecoderIsBounded /\ Sent(message) /\ Arrived /\ (damage # "garbled" => Follows)
  BY <1>1 DEF CodecInv
<1>3. offset \in Nat /\ Len(buffer) \in Nat /\ d \in Nat /\ limit \in Nat /\ d <= limit /\ offset <= Len(buffer)
  BY <1>2 DEF CodecTypes, Proto!DecoderIsBounded, Bytes
<1>4. field.error \in FieldErrors \/ (field.error = "none" /\ EndsAt(buffer, offset, taken[2]))
  BY <1>3, FieldEnds DEF EndsWell
<1>5. Proto!Known' = Proto!Known /\ Sent(message)' /\ Arrived'
  BY <1>1, <1>2 DEF Proto!Known, Arrived
<1>6. Proto!Known \in 0..Len(message) /\ Len(message) \in Nat
      /\ (\A i \in 1..Proto!Known : ~Grouped(message, i))
      /\ (Proto!Known < Len(message) => Grouped(message, Proto!Known + 1))
  BY <1>2, KnownIs, PiecesAre DEF CodecTypes, Grouped
<1>7. damage # "garbled" =>
        /\ d < Len(message) /\ offset = Start(message, d) /\ d <= Proto!Known
        /\ \/ damage = "cut" /\ Refuses(buffer, offset)
           \/ TurnFinds(buffer, message, d) /\ Start(message, d + 1) <= Len(buffer)
  BY <1>1, <1>2, TurnGoesOn DEF Follows
<1>8. Refuses(buffer, offset) <=> field.error \in DecodingErrors
  BY DEF Refuses, DecodingErrors
<1>9. CASE field.error = "UNSUPPORTED"
  <2>1. verdict' = "done" /\ offset' = offset /\ decoded' = decoded /\ verdict' \notin Unsent /\ verdict' \in Verdicts
    BY <1>9 DEF Proto!DecodeField, Unsent, Verdicts
  <2>2. ASSUME damage # "garbled" PROVE d = Proto!Known
    <3>1. TurnFinds(buffer, message, d) /\ offset = Start(message, d)
      BY <1>7, <1>8, <1>9, <2>2 DEF DecodingErrors
    <3>2. Grouped(message, d + 1)
      BY <1>9, <3>1 DEF TurnFinds, Finds
    <3>3. d + 1 \notin 1..Proto!Known
      BY <1>6, <3>2
    <3> QED
      BY <1>3, <1>6, <1>7, <2>2, <3>3
  <2>3. CodecTypes' /\ Proto!DecoderIsBounded' /\ (damage # "garbled" => Follows)'
    BY <1>1, <1>2, <1>5, <2>1 DEF CodecTypes, Proto!DecoderIsBounded, Follows
  <2>4. EndsRightly'
    BY <1>1, <1>5, <2>1, <2>2 DEF EndsRightly, DecodingErrors
  <2> QED
    BY <1>1, <1>5, <2>1, <2>3, <2>4 DEF CodecInv
<1>10. CASE field.error \in DecodingErrors
  <2>1. verdict' = field.error /\ offset' = offset /\ decoded' = decoded
    BY <1>10 DEF Proto!DecodeField, DecodingErrors
  <2>2. verdict' \notin Unsent /\ verdict' \in Verdicts /\ verdict' \notin {"done", "read", "TOO_MANY_FIELDS"}
    BY <1>10, <2>1 DEF Unsent, Verdicts, DecodingErrors
  <2>3. damage # "none"
    <3> SUFFICES ASSUME damage = "none" PROVE FALSE
      OBVIOUS
    <3>1. TurnFinds(buffer, message, d) /\ offset = Start(message, d)
      BY <1>7
    <3> QED
      BY <1>10, <3>1 DEF TurnFinds, Finds, DecodingErrors
  <2>4. CodecTypes' /\ Proto!DecoderIsBounded' /\ (damage # "garbled" => Follows)'
    BY <1>1, <1>2, <1>5, <2>1, <2>2 DEF CodecTypes, Proto!DecoderIsBounded, Follows
  <2>5. EndsRightly'
    BY <1>1, <2>2, <2>3 DEF EndsRightly
  <2> QED
    BY <1>1, <1>5, <2>2, <2>4, <2>5 DEF CodecInv
<1>11. ASSUME field.error = "none", damage # "garbled", ~Refuses(buffer, offset)
       PROVE  /\ d + 1 <= Proto!Known /\ taken[2] = Start(message, d + 1)
              /\ field.num = message[d + 1].field.num
              /\ message[d + 1].field.value.is # "big" => field.value = message[d + 1].field.value
  <2>1. TurnFinds(buffer, message, d) /\ offset = Start(message, d)
    BY <1>7, <1>11
  <2>2. ~Grouped(message, d + 1)
    BY <1>11, <2>1 DEF TurnFinds
  <2>3. d # Proto!Known
    <3> SUFFICES ASSUME d = Proto!Known PROVE FALSE
      OBVIOUS
    <3>1. Proto!Known < Len(message)
      BY <1>7, <1>11
    <3>2. Grouped(message, Proto!Known + 1)
      BY <1>6, <3>1
    <3> QED
      BY <2>2, <3>2, Zenon
  <2>4. d + 1 <= Proto!Known
    BY <1>3, <1>6, <1>7, <1>11, <2>3
  <2> QED
    BY <1>11, <2>1, <2>2, <2>4 DEF TurnFinds, Finds
<1>12. CASE field.error = "none" /\ d = limit
  <2>1. verdict' = "TOO_MANY_FIELDS" /\ offset' = offset /\ decoded' = decoded /\ verdict' \notin Unsent /\ verdict' \in Verdicts
    BY <1>12 DEF Proto!DecodeField, Unsent, Verdicts
  <2>2. buffer # <<>>
    BY <1>1, <1>3
  <2>3. damage = "none" => Proto!Known > limit
    BY <1>3, <1>6, <1>7, <1>8, <1>11, <1>12 DEF DecodingErrors
  <2>4. CodecTypes' /\ Proto!DecoderIsBounded' /\ (damage # "garbled" => Follows)'
    BY <1>1, <1>2, <1>5, <2>1 DEF CodecTypes, Proto!DecoderIsBounded, Follows
  <2>5. EndsRightly'
    BY <1>1, <1>5, <1>12, <2>1, <2>2, <2>3 DEF EndsRightly, DecodingErrors
  <2> QED
    BY <1>1, <1>5, <2>1, <2>4, <2>5 DEF CodecInv
<1>13. CASE field.error = "none" /\ d # limit
  <2>1. verdict' = verdict /\ offset' = taken[2] /\ decoded' = Append(decoded, field)
    BY <1>13 DEF Proto!DecodeField
  <2>2. EndsAt(buffer, offset, taken[2])
    BY <1>4, <1>13 DEF FieldErrors
  <2>3. field \in FieldsFound /\ decoded \in Seq(FieldsFound)
    <3>1. <<buffer, offset>> \in Bytes \X Nat
      BY <1>2, <1>3 DEF CodecTypes
    <3>2. field = Proto!FieldAt(<<buffer, offset>>[1], <<buffer, offset>>[2])[1]
      OBVIOUS
    <3> HIDE DEF field
    <3>3. field \in FieldsFound
      BY <3>1, <3>2, Zenon DEF FieldsFound
    <3> QED
      BY <1>2, <3>3 DEF CodecTypes
  <2>4. decoded' \in Seq(FieldsFound) /\ Len(decoded') = d + 1 /\ decoded'[d + 1] = field
        /\ \A i \in 1..d : decoded'[i] = decoded[i]
    BY <2>1, <2>3
  <2>5. CodecTypes' /\ Proto!DecoderIsBounded'
    BY <1>1, <1>2, <1>3, <1>13, <2>1, <2>2, <2>4 DEF CodecTypes, Proto!DecoderIsBounded, EndsAt
  <2>6. ASSUME damage # "garbled" PROVE Follows'
    <3>1. d + 1 <= Proto!Known /\ taken[2] = Start(message, d + 1)
          /\ field.num = message[d + 1].field.num
          /\ (message[d + 1].field.value.is # "big" => field.value = message[d + 1].field.value)
      BY <1>8, <1>11, <1>13, <2>6 DEF DecodingErrors
    <3>2. Agrees(decoded, message, d)
      BY <1>2, <2>6 DEF Follows
    <3>3. Agrees(decoded', message, d + 1)
      <4> HIDE DEF field, d, taken
      <4>1. d \in Nat
        BY <1>3
      <4>2. ASSUME NEW i \in 1..d + 1
            PROVE  /\ decoded'[i].num = message[i].field.num
                   /\ message[i].field.value.is # "big" => decoded'[i].value = message[i].field.value
        <5>1. CASE i = d + 1
          BY <2>4, <3>1, <5>1
        <5>2. CASE i # d + 1
          <6>1. i \in 1..d
            BY <4>1, <5>2
          <6> QED
            BY <2>4, <3>2, <6>1 DEF Agrees
        <5> QED
          BY <5>1, <5>2
      <4> QED
        BY <2>4, <4>2 DEF Agrees
    <3> QED
      BY <1>1, <1>5, <2>1, <2>4, <3>1, <3>3 DEF Follows
  <2>7. EndsRightly'
    BY <1>1, <2>1 DEF EndsRightly, DecodingErrors
  <2> QED
    BY <1>1, <1>5, <2>1, <2>5, <2>6, <2>7 DEF CodecInv
<1> QED
  BY <1>4, <1>9, <1>10, <1>12, <1>13 DEF FieldErrors, DecodingErrors

LEMMA CodecGoesOn ==
  ASSUME CodecInv, Proto!Next
  PROVE  CodecInv'
<1>1. ASSUME NEW s \in Proto!Sayings \cup Proto!Strange, Proto!Add(s) PROVE CodecInv'
  BY <1>1, AddKeepsCodec DEF Items
<1>2. CASE Proto!EncodeProtoFields
  BY <1>2, EncodeKeepsCodec
<1>3. CASE Proto!DeviceEncodes
  BY <1>3, DeviceKeepsCodec
<1>4. CASE Proto!DecodeField
  BY <1>4, TurnKeepsCodec
<1>5. CASE Proto!DecodeEnds
  BY <1>5, EndKeepsCodec
<1>6. CASE Proto!Interpret
  BY <1>6, InterpretKeepsCodec
<1>7. ASSUME NEW n \in 0..Len(buffer) - 1, Proto!Cut(n) PROVE CodecInv'
  BY <1>7, CutKeepsCodec
<1>8. ASSUME NEW i \in 1..Len(buffer), NEW b \in Proto!Byte, Proto!Garble(i, b) PROVE CodecInv'
  BY <1>8, GarbleKeepsCodec
<1> QED
  BY <1>1, <1>2, <1>3, <1>4, <1>5, <1>6, <1>7, <1>8 DEF Proto!Next

\* A bigint is read back as it was written.
LEMMA WideIsRead ==
  ASSUME CodecTypes
  PROVE  Proto!WideNumbersSurvive
<1> SUFFICES ASSUME NEW i \in 1..Len(message), message[i].field.value.is = "big"
             PROVE  Proto!ReadVarintBigInt(Proto!EncodeVarintBigInt(message[i].field.value.n), 0) = message[i].field.value.n
  BY DEF Proto!WideNumbersSurvive
<1> DEFINE f == message[i].field
           n == f.value.n
<1>1. message[i] \in Items
  BY DEF CodecTypes
<1>2. n \in Numbers(Wide)
  <2>1. CASE Sendable(f)
    <3>1. PICK k : IsBig(f, k)
      <4>1. \A k : IsNumber(f, k) => f.value.is = "number"
        BY DEF IsNumber, Proto!NumberValue
      <4>2. \A b : IsBuffer(f, b) \/ IsFixed32(f, b) \/ IsFixed64(f, b) => f.value.is \in {"buffer", "number"}
        BY DEF IsBuffer, IsFixed32, IsFixed64, Proto!BufferValue, Proto!DoubleValue
      <4>3. IsGroup(f) => f.value.is = "number"
        BY DEF IsGroup, Proto!NumberValue
      <4>4. f.value.is = "big"
        OBVIOUS
      <4> HIDE DEF f
      <4> QED
        BY <2>1, <4>1, <4>2, <4>3, <4>4 DEF Sendable
    <3>2. n = k
      BY <3>1 DEF IsBig, Proto!As, Proto!NumberValue
    <3> QED
      BY <3>1, <3>2 DEF IsBig
  <2>2. CASE Unsendable(f)
    <3>1. 2 ^ Word \in Nat /\ 2 ^ Word + 5 < 2 ^ Wide /\ 2 ^ Wide \in Nat
      BY CodecSizes, PowerPositive, WideIsWider DEF Numbers
    <3>2. 1 < 2 ^ Wide
      BY ONLY <3>1
    <3> QED
      BY <2>2, <3>2 DEF Unsendable, Numbers
  <2> QED
    BY <1>1, <2>1, <2>2, ItemIsSendable
<1> HIDE DEF n
<1>3. Carries(Proto!EncodeVarintBigInt(n), 0, Proto!EncodeVarintBigInt(n))
  <2>1. Len(Proto!EncodeVarintBigInt(n)) \in Nat
    BY <1>2, EncodingOf, GroupsFit
  <2> HIDE DEF f
  <2> QED
    BY <2>1 DEF Carries
<1>4. Proto!ReadVarintBigInt(Proto!EncodeVarintBigInt(n), 0) = n
  BY <1>2, <1>3, VarintIsRead
<1> QED
  BY <1>4 DEF n

\* What is read of bytes that were not damaged.
LEMMA WholeIsMeant ==
  ASSUME CodecInv
  PROVE  Proto!MessagesSurvive
<1> SUFFICES ASSUME damage = "none"
             PROVE  /\ verdict = "read" => Len(decoded) = Proto!Known /\ state = Proto!Meaning(Proto!Known)
                    /\ verdict = "TOO_MANY_FIELDS" <=>
                         verdict \notin {"composing", "decoding"} /\ buffer # <<>> /\ Len(decoded) = limit /\ Proto!Known > limit
                    /\ verdict \in {"composing", "decoding", "done", "read", "TOO_MANY_FIELDS"} \/ buffer = <<>>
  BY DEF Proto!MessagesSurvive
<1>1. CodecTypes /\ Proto!Known \in Nat /\ Proto!Known \in 0..Len(message)
  BY KnownIs DEF CodecInv, CodecTypes
<1>2. CASE verdict \in Unsent
  BY <1>2 DEF Unsent, CodecInv, NothingSent
<1>3. CASE verdict \notin Unsent
  <2>1. Follows /\ EndsRightly
    BY <1>3 DEF CodecInv
  <2>2. verdict \in {"decoding", "done", "read", "TOO_MANY_FIELDS"}
    BY <1>1, <1>3, <2>1 DEF CodecTypes, Verdicts, EndsRightly
  <2>3. verdict = "read" => Len(decoded) = Proto!Known /\ state = Proto!Meaning(Proto!Known)
    <3> SUFFICES ASSUME verdict = "read" PROVE Len(decoded) = Proto!Known /\ state = Proto!Meaning(Proto!Known)
      OBVIOUS
    <3>1. Len(decoded) = Proto!Known /\ state = Proto!DecodeState(decoded)
      BY <2>1 DEF EndsRightly, CodecInv
    <3>2. Agrees(decoded, message, Proto!Known)
      BY <2>1, <3>1 DEF Follows
    <3>3. Proto!DecodeState(decoded) = Proto!Meaning(Proto!Known)
      BY <1>1, <3>2, StateIsMeant DEF CodecTypes
    <3> QED
      BY <3>1, <3>3
  <2>4. verdict = "TOO_MANY_FIELDS" => buffer # <<>> /\ Len(decoded) = limit /\ Proto!Known > limit
    BY <2>1 DEF EndsRightly
  <2>5. verdict \in {"done", "read"} => ~(Len(decoded) = limit /\ Proto!Known > limit)
    BY <1>1, <2>1 DEF EndsRightly, CodecTypes
  <2> QED
    BY <2>2, <2>3, <2>4, <2>5
<1> QED
  BY <1>2, <1>3

\* What is read of bytes that lost their end.
LEMMA CutIsSeen ==
  ASSUME CodecInv
  PROVE  Proto!CutsAreSeen
<1> SUFFICES ASSUME damage = "cut", verdict = "read"
             PROVE  \E k \in 0..Proto!Known :
                      state = Proto!Meaning(k) /\ (k < Proto!Known => buffer = Proto!Encoded(SubSeq(message, 1, k)))
  BY DEF Proto!CutsAreSeen
<1>1. CodecTypes /\ Follows /\ EndsRightly /\ state = Proto!DecodeState(decoded)
  BY DEF CodecInv, Unsent
<1>2. Proto!Known \in Nat /\ Proto!Known \in 0..Len(message) /\ Len(message) \in Nat /\ Len(decoded) \in Nat
  BY <1>1, KnownIs DEF CodecTypes
<1>3. Len(decoded) \in 0..Proto!Known /\ Len(decoded) \in 0..Len(message)
  BY <1>1, <1>2 DEF Follows
<1>4. state = Proto!Meaning(Len(decoded))
  BY <1>1, <1>3, StateIsMeant DEF CodecTypes, Follows
<1>5. Len(decoded) < Proto!Known => buffer = Proto!Encoded(SubSeq(message, 1, Len(decoded)))
  BY <1>1, <1>2 DEF EndsRightly
<1> QED
  BY <1>3, <1>4, <1>5, Zenon

\* The invariant implies the property.
LEMMA CodecKeepsPromises ==
  ASSUME CodecInv
  PROVE  MessagesSurvive
BY WholeIsMeant, CutIsSeen, WideIsRead DEF CodecInv, MessagesSurvive

\* The sum runs a codec, or lets one rest.
LEMMA CodecIsInside == MCSpec => Proto!Spec
<1>1. MCInit => Proto!Init
  BY DEF MCInit
<1>2. [MCNext]_mcVars => [Proto!Next]_(Proto!vars)
  BY DEF MCNext, mcVars, codecVars, Proto!vars
<1> QED
  BY <1>1, <1>2, PTL DEF MCSpec, Proto!Spec

\* Whatever the widths of bytes, words and bigints, the limit and the message: bytes that were not
\* damaged are read as what was meant, up to a field of an unknown kind, and the first field beyond
\* the limit is refused; a lost end is seen, or leaves the message of the first fields; of any bytes
\* none beyond the end is read; and a bigint keeps all of its bits.
THEOREM MessagesAreRead == (Proto!Spec => []MessagesSurvive) /\ (MCSpec => []MessagesSurvive)
<1>1. Proto!Init => CodecInv
  BY CodecStarts
<1>2. CodecInv /\ [Proto!Next]_(Proto!vars) => CodecInv'
  BY CodecGoesOn, CodecRests DEF Proto!vars, codecVars
<1>3. CodecInv => MessagesSurvive
  BY CodecKeepsPromises
<1> QED
  BY <1>1, <1>2, <1>3, CodecIsInside, PTL DEF Proto!Spec
=============================================================================
