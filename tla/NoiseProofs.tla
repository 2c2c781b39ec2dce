----------------------------- MODULE NoiseProofs -----------------------------
(***************************************************************************)
(* Proofs about Noise, for any nonce limit and any number of connections,  *)
(* faults, payloads and rekeys: two sides with a pair hold the same fresh  *)
(* keys, no key seals twice under one nonce, only what was sent is read,   *)
(* in its order, the key is blamed when it is to blame, and the secrets    *)
(* are wiped.  And the types of all that MCTransport puts side by side.    *)
(*                                                                         *)
(* The first half follows the two messages of the handshake through the    *)
(* tokens: what a sound state is made of at each stage (IsFresh,           *)
(* HasWritten, HasRead, Ended), and that any frame but the one that the    *)
(* peer wrote is refused.  The invariant then says what can be on its way  *)
(* (FramesTo), that every box is of the handshake, of the data or of a     *)
(* rekeying of some attempt (BoxesInv), and orders what a side sealed by   *)
(* the generation of the key and by the nonce: whatever was sealed comes   *)
(* Before the sending cipher, later boxes hold later payloads (SealedInv), *)
(* and what is not Before the receiving cipher is later than all that was  *)
(* read (UnreadIsLater).  Without a fault, it knows the one frame that the *)
(* client can find (FaultlessInv).                                         *)
(***************************************************************************)
EXTENDS TransportProofs, MCTransport

-----------------------------------------------------------------------------
(* The handshake's states: what mixing, sealing and splitting make of them. *)

Fields == {"initiator", "index", "psk", "h", "ck", "cs", "own", "ephemeral", "remote", "pair", "complete", "error"}

\* A sound state of a role, by what its steps change.
Stands(hs, role, p, a, index, h, ck, cs, e, r) ==
  /\ DOMAIN hs = Fields
  /\ hs.initiator = (role = "client") /\ hs.psk = p /\ hs.own = <<role, a>> /\ hs.error = None
  /\ hs.index = index /\ hs.h = h /\ hs.ck = ck /\ hs.cs = cs /\ hs.ephemeral = e /\ hs.remote = r

CipherOf(ck, n) == [k |-> <<"handshake", ck, 0>>, n |-> n]

LEMMA MixHashStands ==
  ASSUME NEW hs, NEW role, NEW p, NEW a, NEW i, NEW h, NEW ck, NEW cs, NEW e, NEW r, NEW d,
         Stands(hs, role, p, a, i, h, ck, cs, e, r)
  PROVE  Stands(Cipher!MixHash(hs, d), role, p, a, i, <<h, d>>, ck, cs, e, r)
BY DEF Stands, Fields, Cipher!MixHash, Cipher!Mixed

LEMMA MixKeyStands ==
  ASSUME NEW hs, NEW role, NEW p, NEW a, NEW i, NEW h, NEW ck, NEW cs, NEW e, NEW r, NEW d,
         Stands(hs, role, p, a, i, h, ck, cs, e, r)
  PROVE  Stands(Cipher!MixKey(hs, d), role, p, a, i, h, <<ck, d>>, CipherOf(<<ck, d>>, 0), e, r)
BY DEF Stands, Fields, Cipher!MixKey, Cipher!Mixed, Cipher!InitializeKey, CipherOf

LEMMA PskStands ==
  ASSUME NEW hs, NEW role, NEW p, NEW a, NEW i, NEW h, NEW ck, NEW cs, NEW e, NEW r,
         Stands(hs, role, p, a, i, h, ck, cs, e, r)
  PROVE  Stands(Cipher!MixKeyAndHash(hs, hs.psk), role, p, a, i, <<h, <<"temp_h", <<ck, p>>>>>>,
                <<ck, p>>, CipherOf(<<ck, p>>, 0), e, r)
<1>1. hs.psk = p
  BY DEF Stands
<1>2. Stands(Cipher!MixKey(hs, p), role, p, a, i, h, <<ck, p>>, CipherOf(<<ck, p>>, 0), e, r)
  BY MixKeyStands
<1>3. Cipher!MixKey(hs, p).ck = <<ck, p>>
  BY <1>2 DEF Stands
<1>4. Cipher!MixKeyAndHash(hs, hs.psk) = Cipher!MixHash(Cipher!MixKey(hs, p), <<"temp_h", <<ck, p>>>>)
  BY <1>1, <1>3 DEF Cipher!MixKeyAndHash
<1> QED
  BY <1>2, <1>4, MixHashStands

LEMMA StepStands ==
  ASSUME NEW hs, NEW role, NEW p, NEW a, NEW i \in {1, 2}, NEW h, NEW ck, NEW cs, NEW e, NEW r,
         Stands(hs, role, p, a, i, h, ck, cs, e, r)
  PROVE  Stands(Cipher!NextPatternStep(hs), role, p, a, i + 1, h, ck, cs, e, r)
BY DEF Stands, Fields, Cipher!NextPatternStep, Cipher!NNPSK0_PATTERN

LEMMA WriteEStands ==
  ASSUME NEW hs, NEW role, NEW p, NEW a, NEW i, NEW h, NEW ck, NEW cs, NEW e, NEW r,
         Stands(hs, role, p, a, i, h, ck, cs, e, r)
  PROVE  Stands(Cipher!ProcessWriteToken(hs, "e"), role, p, a, i, <<h, <<role, a>>>>,
                <<ck, <<role, a>>>>, CipherOf(<<ck, <<role, a>>>>, 0), <<role, a>>, r)
<1> DEFINE own == <<role, a>>
           set == [hs EXCEPT !.ephemeral = hs.own]
<1>1. hs.own = own /\ hs.error = None
  BY DEF Stands
<1>2. Stands(set, role, p, a, i, h, ck, cs, own, r)
  BY DEF Stands, Fields
<1>3. Cipher!ProcessWriteToken(hs, "e") = Cipher!MixKey(Cipher!MixHash(set, own), own)
  BY <1>1 DEF Cipher!ProcessWriteToken
<1> HIDE DEF set, own
<1>4. Stands(Cipher!MixHash(set, own), role, p, a, i, <<h, own>>, ck, cs, own, r)
  BY <1>2, MixHashStands
<1>5. Stands(Cipher!MixKey(Cipher!MixHash(set, own), own), role, p, a, i, <<h, own>>, <<ck, own>>,
             CipherOf(<<ck, own>>, 0), own, r)
  BY <1>4, MixKeyStands
<1> QED
  BY <1>3, <1>5 DEF own

LEMMA ReadEStands ==
  ASSUME NEW hs, NEW role, NEW p, NEW a, NEW i, NEW h, NEW ck, NEW cs, NEW e, NEW r, NEW x,
         x # Cipher!NoKey, Stands(hs, role, p, a, i, h, ck, cs, e, r)
  PROVE  Stands(Cipher!ProcessReadToken(hs, "e", x), role, p, a, i, <<h, x>>,
                <<ck, x>>, CipherOf(<<ck, x>>, 0), e, x)
<1> DEFINE set == [hs EXCEPT !.remote = x]
<1>1. hs.error = None
  BY DEF Stands
<1>2. Stands(set, role, p, a, i, h, ck, cs, e, x)
  BY DEF Stands, Fields
<1>3. Cipher!ProcessReadToken(hs, "e", x) = Cipher!MixKey(Cipher!MixHash(set, x), x)
  BY <1>1 DEF Cipher!ProcessReadToken
<1> HIDE DEF set
<1>4. Stands(Cipher!MixHash(set, x), role, p, a, i, <<h, x>>, ck, cs, e, x)
  BY <1>2, MixHashStands
<1> QED
  BY <1>3, <1>4, MixKeyStands

LEMMA DHStands ==
  ASSUME NEW hs, NEW role, NEW p, NEW a, NEW i, NEW h, NEW ck, NEW cs, NEW e, NEW r,
         Stands(hs, role, p, a, i, h, ck, cs, e, r),
         Cipher!NoKey \notin {e, r}, r # <<"low order", 0>>
  PROVE  Stands(Cipher!ComputeDH(hs), role, p, a, i, h, <<ck, {e, r}>>, CipherOf(<<ck, {e, r}>>, 0), e, r)
<1> DEFINE dh == {e, r}
<1>1. /\ hs.ephemeral = e /\ hs.remote = r
      /\ Cipher!NoKey \notin {hs.ephemeral, hs.remote} /\ hs.remote # <<"low order", 0>>
  <2>1. hs.ephemeral = e /\ hs.remote = r
    BY DEF Stands
  <2> QED
    BY <2>1
<1>2. Cipher!ComputeDH(hs) = Cipher!MixKey(hs, dh)
  <2>1. Cipher!ComputeDH(hs) = Cipher!MixKey(hs, {hs.ephemeral, hs.remote})
    BY <1>1, Zenon DEF Cipher!ComputeDH
  <2> QED
    BY <1>1, <2>1
<1> HIDE DEF dh
<1>3. Stands(Cipher!ComputeDH(hs), role, p, a, i, h, <<ck, dh>>, CipherOf(<<ck, dh>>, 0), e, r)
  BY <1>2, MixKeyStands
<1> QED
  BY <1>3 DEF dh

LEMMA EncryptStands ==
  ASSUME NEW hs, NEW role, NEW p, NEW a, NEW i, NEW h, NEW ck, NEW e, NEW r, NEW k,
         Stands(hs, role, p, a, i, h, ck, CipherOf(k, 0), e, r)
  PROVE  LET box == [k |-> <<"handshake", k, 0>>, n |-> 0, ad |-> h, body |-> 0]
         IN  Stands(Cipher!EncryptAndHash(hs, 0), role, p, a, i, <<h, box>>, ck, CipherOf(k, 1), e, r)
<1> DEFINE box == [k |-> <<"handshake", k, 0>>, n |-> 0, ad |-> h, body |-> 0]
           set == [hs EXCEPT !.cs = Cipher!Used(@)]
<1>1. hs.cs = CipherOf(k, 0) /\ hs.h = h
  BY DEF Stands
<1>2. Cipher!Used(CipherOf(k, 0)) = CipherOf(k, 1)
  BY DEF Cipher!Used, CipherOf, Cipher!NoKey
<1>3. Cipher!Seal(CipherOf(k, 0), h, 0) = box
  BY DEF Cipher!Seal, CipherOf, Cipher!NoKey
<1>4. Stands(set, role, p, a, i, h, ck, CipherOf(k, 1), e, r)
  BY <1>2 DEF Stands, Fields
<1>5. Cipher!EncryptAndHash(hs, 0) = Cipher!MixHash(set, box)
  BY <1>1, <1>3 DEF Cipher!EncryptAndHash
<1> HIDE DEF set, box
<1>6. Stands(Cipher!MixHash(set, box), role, p, a, i, <<h, box>>, ck, CipherOf(k, 1), e, r)
  BY <1>4, MixHashStands
<1> QED
  BY <1>5, <1>6 DEF box

BoxOf(k, h) == [k |-> <<"handshake", k, 0>>, n |-> 0, ad |-> h, body |-> 0]

LEMMA DecryptStands ==
  ASSUME NEW hs, NEW role, NEW p, NEW a, NEW i, NEW h, NEW ck, NEW e, NEW r, NEW k,
         Stands(hs, role, p, a, i, h, ck, CipherOf(k, 0), e, r)
  PROVE  Stands(Cipher!DecryptAndHash(hs, BoxOf(k, h)), role, p, a, i, <<h, BoxOf(k, h)>>, ck, CipherOf(k, 1), e, r)
<1> DEFINE set == [hs EXCEPT !.cs = Cipher!Used(@)]
<1>1. hs.cs = CipherOf(k, 0) /\ hs.h = h
  BY DEF Stands
<1>2. Cipher!Used(CipherOf(k, 0)) = CipherOf(k, 1)
  BY DEF Cipher!Used, CipherOf, Cipher!NoKey
<1>3. Cipher!OpenError(CipherOf(k, 0), h, BoxOf(k, h)) = None
  <2>1. CipherOf(k, 0).k # Cipher!NoKey
    BY DEF CipherOf, Cipher!NoKey
  <2>2. ~Cipher!Exhausted(CipherOf(k, 0))
    BY NoiseAssumption DEF CipherOf, Cipher!Exhausted
  <2>3. BoxOf(k, h) # Cipher!Short
    <3>1. BoxOf(k, h).k # Cipher!Short.k
      BY DEF BoxOf, Cipher!Short, Cipher!NoKey
    <3> QED
      BY <3>1
  <2>4. /\ BoxOf(k, h).k = CipherOf(k, 0).k /\ BoxOf(k, h).n = CipherOf(k, 0).n /\ BoxOf(k, h).ad = h
    BY DEF BoxOf, CipherOf
  <2> QED
    BY <2>1, <2>2, <2>3, <2>4, Zenon DEF Cipher!OpenError
<1>4. Stands(set, role, p, a, i, h, ck, CipherOf(k, 1), e, r)
  BY <1>2 DEF Stands, Fields
<1>5. Cipher!DecryptAndHash(hs, BoxOf(k, h)) = Cipher!MixHash(set, BoxOf(k, h))
  BY <1>1, <1>3 DEF Cipher!DecryptAndHash
<1> HIDE DEF set
<1> QED
  BY <1>4, <1>5, MixHashStands

LEMMA DecryptFails ==
  ASSUME NEW hs, NEW role, NEW p, NEW a, NEW i, NEW h, NEW ck, NEW e, NEW r, NEW k, NEW box,
         Stands(hs, role, p, a, i, h, ck, CipherOf(k, 0), e, r),
         box.k # <<"handshake", k, 0>>
  PROVE  Cipher!DecryptAndHash(hs, box).error # None
<1>1. hs.cs = CipherOf(k, 0) /\ hs.h = h /\ DOMAIN hs = Fields
  BY DEF Stands
<1>2. Cipher!OpenError(CipherOf(k, 0), h, box) \in {"NONCE_EXHAUSTED", "CT_TOO_SHORT", "AUTH_FAILED"}
  <2>1. CipherOf(k, 0).k # Cipher!NoKey /\ box.k # CipherOf(k, 0).k
    BY DEF CipherOf, Cipher!NoKey
  <2> QED
    BY <2>1, Zenon DEF Cipher!OpenError
<1> DEFINE error == Cipher!OpenError(CipherOf(k, 0), h, box)
<1>3. error # None
  BY <1>2, NoiseAssumption
<1>4. Cipher!DecryptAndHash(hs, box) = [hs EXCEPT !.error = error]
  BY <1>1, <1>3 DEF Cipher!DecryptAndHash
<1> HIDE DEF error
<1> QED
  BY <1>1, <1>3, <1>4 DEF Fields

-----------------------------------------------------------------------------
(* The two messages of the handshake. *)

ClientKey(a) == <<"client", a>>
DeviceKey(a) == <<"device", a>>
Chain0 == Cipher!PROTOCOL_NAME_HASH
Chain2(p, e) == <<<<Chain0, p>>, e>>
Chain4(p, a) == <<<<Chain2(p, ClientKey(a)), DeviceKey(a)>>, {DeviceKey(a), ClientKey(a)}>>
Hash0 == <<Chain0, "NoiseAPIInit">>
Hash2(p, e) == <<<<Hash0, <<"temp_h", <<Chain0, p>>>>>>, e>>
Box1(p, e) == BoxOf(Chain2(p, e), Hash2(p, e))
Hash3(p, e) == <<Hash2(p, e), Box1(p, e)>>
Hash4(a) == <<Hash3("key", ClientKey(a)), DeviceKey(a)>>
Box2(a) == BoxOf(Chain4("key", a), Hash4(a))
First(a) == [e |-> ClientKey(a), box |-> Box1("key", ClientKey(a))]
Second(a) == [e |-> DeviceKey(a), box |-> Box2(a)]

IsFresh(hs, role, p, a) == Stands(hs, role, p, a, 1, Hash0, Chain0, Cipher!NoCipher, <<>>, <<>>)

LEMMA NewIsFresh ==
  ASSUME NEW role, NEW p, NEW a
  PROVE  IsFresh([Cipher!NewHandshake(role, p) EXCEPT !.own = <<role, a>>], role, p, a)
BY DEF IsFresh, Stands, Fields, Cipher!NewHandshake, Cipher!Mixed, Cipher!NoKey, Hash0, Chain0

HasWritten(hs, a) ==
  Stands(hs, "client", "key", a, 2, Hash3("key", ClientKey(a)), Chain2("key", ClientKey(a)),
         CipherOf(Chain2("key", ClientKey(a)), 1), ClientKey(a), <<>>)

HasRead(hs, p, a, e) ==
  Stands(hs, "device", p, a, 2, Hash3(p, e), Chain2(p, e), CipherOf(Chain2(p, e), 1), <<>>, e)

LEMMA Pattern ==
  /\ Len(Cipher!NNPSK0_PATTERN) = 2
  /\ Cipher!NNPSK0_PATTERN[1][1] = "psk" /\ Cipher!NNPSK0_PATTERN[1][2] = "e"
  /\ Cipher!NNPSK0_PATTERN[2][1] = "e" /\ Cipher!NNPSK0_PATTERN[2][2] = "ee"
BY DEF Cipher!NNPSK0_PATTERN

LEMMA WriteFirst ==
  ASSUME NEW hs, NEW a, IsFresh(hs, "client", "key", a)
  PROVE  LET next == Cipher!WriteMessage(hs)
         IN  HasWritten(next, a) /\ Cipher!Written(next) = First(a)
<1> DEFINE stepped == Cipher!NextPatternStep(hs)
           first == Cipher!ProcessWriteToken(stepped, "psk")
           second == Cipher!ProcessWriteToken(first, "e")
           out == Cipher!EncryptAndHash(second, 0)
           ck1 == <<Chain0, "key">>
           h1 == <<Hash0, <<"temp_h", ck1>>>>
<1>1. hs.index = 1
  BY DEF IsFresh, Stands
<1>2. Stands(stepped, "client", "key", a, 2, Hash0, Chain0, Cipher!NoCipher, <<>>, <<>>)
  <2>1. 1 + 1 = 2
    OBVIOUS
  <2> QED
    BY <2>1, StepStands DEF IsFresh
<1> HIDE DEF stepped
<1>3. Stands(first, "client", "key", a, 2, h1, ck1, CipherOf(ck1, 0), <<>>, <<>>)
  <2>1. first = Cipher!MixKeyAndHash(stepped, stepped.psk)
    BY <1>2 DEF Cipher!ProcessWriteToken, Stands
  <2> QED
    BY <1>2, <2>1, PskStands
<1> HIDE DEF first
<1>4. Stands(second, "client", "key", a, 2, Hash2("key", ClientKey(a)), Chain2("key", ClientKey(a)),
             CipherOf(Chain2("key", ClientKey(a)), 0), ClientKey(a), <<>>)
  BY <1>3, WriteEStands DEF Hash2, Chain2, ClientKey
<1> HIDE DEF second
<1>5. Stands(out, "client", "key", a, 2, Hash3("key", ClientKey(a)), Chain2("key", ClientKey(a)),
             CipherOf(Chain2("key", ClientKey(a)), 1), ClientKey(a), <<>>)
  BY <1>4, EncryptStands DEF Hash3, Box1, BoxOf
<1> HIDE DEF out
<1>6. Cipher!WriteMessage(hs) = out
  <2>1. second.error = None /\ out.index = 2
    BY <1>4, <1>5 DEF Stands
  <2>2. ~(out.index > Len(Cipher!NNPSK0_PATTERN))
    BY <2>1, Pattern
  <2> QED
    BY <1>1, <2>1, <2>2, Pattern, Zenon DEF Cipher!WriteMessage, stepped, first, second, out
<1>7. Cipher!Written(out) = First(a)
  <2>1. out.ephemeral = ClientKey(a) /\ out.h = <<Hash2("key", ClientKey(a)), Box1("key", ClientKey(a))>>
    BY <1>5 DEF Stands, Hash3
  <2> QED
    BY <2>1 DEF Cipher!Written, Cipher!Newest, First
<1> QED
  BY <1>5, <1>6, <1>7 DEF HasWritten

\* The pair that comes of a handshake, by the role's sending key.
PairOf(role, a) ==
  LET c1 == Cipher!InitializeKey(<<"first", Chain4("key", a), 0>>)
      c2 == Cipher!InitializeKey(<<"second", Chain4("key", a), 0>>)
  IN  IF role = "client" THEN [send |-> c1, receive |-> c2] ELSE [send |-> c2, receive |-> c1]

\* The state after the last message: nothing of it is used but the pair, and what was written.
Ended(hs, role, a) ==
  /\ DOMAIN hs = Fields /\ hs.error = None /\ hs.pair = PairOf(role, a)
  /\ hs.h = <<Hash4(a), Box2(a)>> /\ hs.ephemeral = <<role, a>>

LEMMA SplitEnds ==
  ASSUME NEW hs, NEW role, NEW a, NEW p, NEW i, NEW cs, NEW r,
         Stands(hs, role, p, a, i, <<Hash4(a), Box2(a)>>, Chain4("key", a), cs, <<role, a>>, r)
  PROVE  Ended(Cipher!Split(hs), role, a)
<1> DEFINE pair == PairOf(role, a)
<1>1. Cipher!Split(hs) = [hs EXCEPT !.complete = TRUE, !.pair = pair]
  BY DEF Stands, Cipher!Split, PairOf
<1> HIDE DEF pair
<1>2. DOMAIN hs = Fields
  BY DEF Stands
<1>3. /\ DOMAIN Cipher!Split(hs) = Fields /\ Cipher!Split(hs).pair = pair
      /\ Cipher!Split(hs).error = hs.error /\ Cipher!Split(hs).h = hs.h
      /\ Cipher!Split(hs).ephemeral = hs.ephemeral
  BY <1>1, <1>2 DEF Fields
<1> QED
  BY <1>3 DEF Stands, Ended, pair

LEMMA ReadFirst ==
  ASSUME NEW hs, NEW p, NEW a, NEW e, NEW box, IsFresh(hs, "device", p, a), e # Cipher!NoKey
  PROVE  LET next == Cipher!ReadMessage(hs, [e |-> e, box |-> box])
         IN  /\ box = Box1(p, e) => HasRead(next, p, a, e)
             /\ box.k # <<"handshake", Chain2(p, e), 0>> => next.error # None
<1> DEFINE message_ == [e |-> e, box |-> box]
           stepped == Cipher!NextPatternStep(hs)
           first == Cipher!ProcessReadToken(stepped, "psk", e)
           second == Cipher!ProcessReadToken(first, "e", e)
           out == Cipher!DecryptAndHash(second, box)
           ck1 == <<Chain0, p>>
           h1 == <<Hash0, <<"temp_h", ck1>>>>
<1>1. hs.index = 1
  BY DEF IsFresh, Stands
<1>2. Stands(stepped, "device", p, a, 2, Hash0, Chain0, Cipher!NoCipher, <<>>, <<>>)
  <2>1. 1 + 1 = 2
    OBVIOUS
  <2> QED
    BY <2>1, StepStands DEF IsFresh
<1> HIDE DEF stepped
<1>3. Stands(first, "device", p, a, 2, h1, ck1, CipherOf(ck1, 0), <<>>, <<>>)
  <2>1. first = Cipher!MixKeyAndHash(stepped, stepped.psk)
    BY <1>2 DEF Cipher!ProcessReadToken, Stands
  <2> QED
    BY <1>2, <2>1, PskStands
<1> HIDE DEF first
<1>4. Stands(second, "device", p, a, 2, Hash2(p, e), Chain2(p, e), CipherOf(Chain2(p, e), 0), <<>>, e)
  BY <1>3, ReadEStands DEF Hash2, Chain2
<1> HIDE DEF second
<1>5. ASSUME box = Box1(p, e)
      PROVE  Stands(out, "device", p, a, 2, Hash3(p, e), Chain2(p, e), CipherOf(Chain2(p, e), 1), <<>>, e)
  BY <1>4, <1>5, DecryptStands DEF Hash3, Box1
<1>6. ASSUME box.k # <<"handshake", Chain2(p, e), 0>>
      PROVE  out.error # None
  BY <1>4, <1>6, DecryptFails
<1>7. ASSUME out.error = None => out.index = 2
      PROVE  Cipher!ReadMessage(hs, message_) = out
  <2>1. second.error = None /\ message_.e = e /\ message_.box = box
    BY <1>4 DEF Stands
  <2> HIDE DEF message_
  <2>2. ~(out.error = None /\ out.index > Len(Cipher!NNPSK0_PATTERN))
    BY <1>7, Pattern
  <2> HIDE DEF out
  <2> QED
    BY <1>1, <2>1, <2>2, Pattern, Zenon DEF Cipher!ReadMessage, stepped, first, second, out
<1> HIDE DEF out
<1>8. ASSUME box = Box1(p, e)
      PROVE  HasRead(Cipher!ReadMessage(hs, message_), p, a, e)
  <2>1. out.index = 2
    BY <1>5, <1>8 DEF Stands
  <2> QED
    BY <1>5, <1>7, <1>8, <2>1 DEF HasRead
<1>9. ASSUME box.k # <<"handshake", Chain2(p, e), 0>>
      PROVE  Cipher!ReadMessage(hs, message_).error # None
  BY <1>6, <1>7, <1>9
<1> QED
  BY <1>8, <1>9

\* A message without a key cannot be read, in either state, nor one with a key of low order by
\* the side that has its own.
LEMMA KeylessFails ==
  ASSUME NEW hs, NEW box, hs.error = None, DOMAIN hs = Fields, hs.index \in {1, 2}
  PROVE  Cipher!ReadMessage(hs, [e |-> Cipher!NoKey, box |-> box]).error # None
<1> DEFINE message_ == [e |-> Cipher!NoKey, box |-> box]
           stepped == Cipher!NextPatternStep(hs)
           first == Cipher!ProcessReadToken(stepped, Cipher!NNPSK0_PATTERN[hs.index][1], Cipher!NoKey)
           second == Cipher!ProcessReadToken(first, Cipher!NNPSK0_PATTERN[hs.index][2], Cipher!NoKey)
<1>1. stepped = [hs EXCEPT !.index = @ + 1]
  BY Pattern DEF Cipher!NextPatternStep
<1>2. DOMAIN stepped = Fields /\ stepped.error = None
  BY <1>1 DEF Fields
<1> HIDE DEF stepped
<1>3. \A s : DOMAIN s = Fields /\ s.error = None =>
        Cipher!ProcessReadToken(s, "e", Cipher!NoKey).error = "TRUNCATED_E"
  BY DEF Cipher!ProcessReadToken, Fields
<1>4. "TRUNCATED_E" # None
  BY NoiseAssumption
<1>5. second.error # None
  <2>1. CASE hs.index = 1
    <3>1. first = Cipher!MixKeyAndHash(stepped, stepped.psk)
      BY <1>2, <2>1, Pattern DEF Cipher!ProcessReadToken
    <3>2. DOMAIN first = Fields /\ first.error = None
      BY <1>2, <3>1 DEF Fields, Cipher!MixKeyAndHash, Cipher!MixKey, Cipher!MixHash
    <3> QED
      BY <1>3, <1>4, <2>1, <3>2, Pattern
  <2>2. CASE hs.index = 2
    <3>1. first.error = "TRUNCATED_E"
      BY <1>2, <1>3, <2>2, Pattern
    <3>2. second = first
      <4>1. first.error # None
        BY <1>4, <3>1
      <4> HIDE DEF first
      <4> QED
        BY <4>1, Zenon DEF Cipher!ProcessReadToken
    <3> QED
      BY <1>4, <3>1, <3>2
  <2> QED
    BY <2>1, <2>2
<1> HIDE DEF first, second
<1>6. Cipher!ReadMessage(hs, message_) = second
  BY <1>5, Zenon DEF Cipher!ReadMessage, stepped, first, second
<1> QED
  BY <1>5, <1>6

LEMMA WriteSecond ==
  ASSUME NEW hs, NEW a, HasRead(hs, "key", a, ClientKey(a))
  PROVE  LET next == Cipher!WriteMessage(hs)
         IN  Ended(next, "device", a) /\ Cipher!Written(next) = Second(a)
<1> DEFINE p == "key"
           stepped == Cipher!NextPatternStep(hs)
           first == Cipher!ProcessWriteToken(stepped, "e")
           second == Cipher!ProcessWriteToken(first, "ee")
           out == Cipher!EncryptAndHash(second, 0)
           ck3 == <<Chain2(p, ClientKey(a)), DeviceKey(a)>>
           ck4 == Chain4(p, a)
           ck2 == Chain2(p, ClientKey(a))
           h3 == Hash3(p, ClientKey(a))
           h4 == Hash4(a)
<1>1. hs.index = 2
  BY DEF HasRead, Stands
<1>2. Stands(stepped, "device", p, a, 3, h3, ck2, CipherOf(ck2, 1), <<>>, ClientKey(a))
  <2>1. 2 + 1 = 3
    OBVIOUS
  <2> QED
    BY <2>1, StepStands DEF HasRead
<1> HIDE DEF stepped, ck2, h3
<1>3. Stands(first, "device", p, a, 3, h4, ck3, CipherOf(ck3, 0), DeviceKey(a), ClientKey(a))
  BY <1>2, WriteEStands DEF DeviceKey, Hash4, h3, ck2
<1> HIDE DEF first
<1>4. Stands(second, "device", p, a, 3, h4, ck4, CipherOf(ck4, 0), DeviceKey(a), ClientKey(a))
  <2>1. Cipher!NoKey \notin {DeviceKey(a), ClientKey(a)} /\ ClientKey(a) # <<"low order", 0>>
    BY DEF Cipher!NoKey, ClientKey, DeviceKey
  <2>2. second = Cipher!ComputeDH(first)
    BY <1>3 DEF Cipher!ProcessWriteToken, Stands
  <2>3. ck4 = <<ck3, {DeviceKey(a), ClientKey(a)}>>
    BY DEF Chain4
  <2> HIDE DEF ck3, ck4, h4, second
  <2> QED
    BY <1>3, <2>1, <2>2, <2>3, DHStands, Zenon
<1> HIDE DEF second
<1>5. Stands(out, "device", p, a, 3, <<h4, Box2(a)>>, ck4, CipherOf(ck4, 1), DeviceKey(a), ClientKey(a))
  BY <1>4, EncryptStands DEF Box2, BoxOf
<1> HIDE DEF out
<1>6. Cipher!WriteMessage(hs) = Cipher!Split(out)
  <2>1. second.error = None /\ out.index = 3 /\ out.error = None /\ ~out.initiator
    BY <1>4, <1>5 DEF Stands
  <2>2. out.index > Len(Cipher!NNPSK0_PATTERN)
    BY <2>1, Pattern
  <2> QED
    BY <1>1, <2>1, <2>2, Pattern, Zenon DEF Cipher!WriteMessage, stepped, first, second, out
<1>7. Ended(Cipher!Split(out), "device", a)
  BY <1>5, SplitEnds DEF DeviceKey
<1>8. Cipher!Written(Cipher!Split(out)) = Second(a)
  BY <1>7 DEF Cipher!Written, Cipher!Newest, Ended, DeviceKey, Second
<1> QED
  BY <1>6, <1>7, <1>8

LEMMA ReadSecond ==
  ASSUME NEW hs, NEW a, NEW box, HasWritten(hs, a)
  PROVE  LET next == Cipher!ReadMessage(hs, [e |-> DeviceKey(a), box |-> box])
         IN  /\ box = Box2(a) => /\ next.error = None /\ DOMAIN next = Fields
                                 /\ next.pair = PairOf("client", a)
             /\ box.k # Box2(a).k => next.error # None
<1> DEFINE p == "key"
           message_ == [e |-> DeviceKey(a), box |-> box]
           stepped == Cipher!NextPatternStep(hs)
           first == Cipher!ProcessReadToken(stepped, "e", DeviceKey(a))
           second == Cipher!ProcessReadToken(first, "ee", DeviceKey(a))
           out == Cipher!DecryptAndHash(second, box)
           ck2 == Chain2(p, ClientKey(a))
           h3 == Hash3(p, ClientKey(a))
           ck3 == <<ck2, DeviceKey(a)>>
           dh == {ClientKey(a), DeviceKey(a)}
           ck4 == Chain4(p, a)
           h4 == Hash4(a)
<1>1. hs.index = 2
  BY DEF HasWritten, Stands
<1>2. Stands(stepped, "client", p, a, 3, h3, ck2, CipherOf(ck2, 1), ClientKey(a), <<>>)
  <2>1. 2 + 1 = 3
    OBVIOUS
  <2> QED
    BY <2>1, StepStands DEF HasWritten
<1> HIDE DEF stepped, ck2, h3
<1>3. Stands(first, "client", p, a, 3, h4, ck3, CipherOf(ck3, 0), ClientKey(a), DeviceKey(a))
  <2>1. DeviceKey(a) # Cipher!NoKey
    BY DEF DeviceKey, Cipher!NoKey
  <2> QED
    BY <1>2, <2>1, ReadEStands DEF Hash4, h3
<1> HIDE DEF first
<1>4. Stands(second, "client", p, a, 3, h4, ck4, CipherOf(ck4, 0), ClientKey(a), DeviceKey(a))
  <2>1. Cipher!NoKey \notin {ClientKey(a), DeviceKey(a)} /\ DeviceKey(a) # <<"low order", 0>>
    BY DEF Cipher!NoKey, ClientKey, DeviceKey
  <2>2. second = Cipher!ComputeDH(first)
    BY <1>3 DEF Cipher!ProcessReadToken, Stands
  <2>3. ck4 = <<ck3, dh>>
    <3>1. {DeviceKey(a), ClientKey(a)} = {ClientKey(a), DeviceKey(a)}
      OBVIOUS
    <3> QED
      BY <3>1 DEF Chain4, ck2
  <2> HIDE DEF ck3, ck4, h4, second
  <2> QED
    BY <1>3, <2>1, <2>2, <2>3, DHStands, Zenon
<1> HIDE DEF second
<1>5. ASSUME box = Box2(a)
      PROVE  Stands(out, "client", p, a, 3, <<h4, Box2(a)>>, ck4, CipherOf(ck4, 1), ClientKey(a), DeviceKey(a))
  BY <1>4, <1>5, DecryptStands DEF Box2
<1>6. ASSUME box.k # Box2(a).k PROVE out.error # None
  BY <1>4, <1>6, DecryptFails DEF Box2, BoxOf
<1>7. Cipher!ReadMessage(hs, message_) =
        IF out.error = None /\ out.index > Len(Cipher!NNPSK0_PATTERN) /\ out.initiator THEN Cipher!Split(out) ELSE out
  <2>1. second.error = None /\ message_.e = DeviceKey(a) /\ message_.box = box
    BY <1>4 DEF Stands
  <2> HIDE DEF message_
  <2> HIDE DEF out
  <2> QED
    BY <1>1, <2>1, Pattern, Zenon DEF Cipher!ReadMessage, stepped, first, second, out
<1> HIDE DEF out
<1>8. ASSUME box = Box2(a)
      PROVE  Ended(Cipher!ReadMessage(hs, message_), "client", a)
  <2>1. out.error = None /\ out.index = 3 /\ out.initiator
    BY <1>5, <1>8 DEF Stands
  <2>2. Cipher!ReadMessage(hs, message_) = Cipher!Split(out)
    BY <1>7, <2>1, Pattern
  <2> QED
    BY <1>5, <1>8, <2>2, SplitEnds DEF ClientKey
<1>9. ASSUME box.k # Box2(a).k
      PROVE  Cipher!ReadMessage(hs, message_).error # None
  BY <1>6, <1>7, <1>9
<1> QED
  BY <1>8, <1>9 DEF Ended

LEMMA ReadLowOrder ==
  ASSUME NEW hs, NEW a, NEW box, HasWritten(hs, a)
  PROVE  Cipher!ReadMessage(hs, [e |-> <<"low order", 0>>, box |-> box]).error # None
<1> DEFINE e == <<"low order", 0>>
           message_ == [e |-> e, box |-> box]
           stepped == Cipher!NextPatternStep(hs)
           first == Cipher!ProcessReadToken(stepped, "e", e)
           second == Cipher!ProcessReadToken(first, "ee", e)
           ck2 == Chain2("key", ClientKey(a))
           h3 == Hash3("key", ClientKey(a))
<1>1. hs.index = 2
  BY DEF HasWritten, Stands
<1>2. Stands(stepped, "client", "key", a, 3, h3, ck2, CipherOf(ck2, 1), ClientKey(a), <<>>)
  <2>1. 2 + 1 = 3
    OBVIOUS
  <2> QED
    BY <2>1, StepStands DEF HasWritten
<1> HIDE DEF stepped, ck2, h3
<1>3. Stands(first, "client", "key", a, 3, <<h3, e>>, <<ck2, e>>, CipherOf(<<ck2, e>>, 0), ClientKey(a), e)
  <2>1. e # Cipher!NoKey
    BY DEF Cipher!NoKey
  <2> HIDE DEF e
  <2> QED
    BY <1>2, <2>1, ReadEStands
<1> HIDE DEF first
<1>4. second.error # None
  <2>1. second = Cipher!ComputeDH(first)
    BY <1>3 DEF Cipher!ProcessReadToken, Stands
  <2>2. Cipher!ComputeDH(first).error \in {"MISSING_KEYS", "INVALID_REMOTE_KEY"}
    <3>1. first.remote = e /\ DOMAIN first = Fields
      BY <1>3 DEF Stands
    <3>2. \/ Cipher!ComputeDH(first) = [first EXCEPT !.error = "MISSING_KEYS"]
          \/ Cipher!ComputeDH(first) = [first EXCEPT !.error = "INVALID_REMOTE_KEY"]
      <4>1. CASE Cipher!NoKey \in {first.ephemeral, first.remote}
        BY <4>1, Zenon DEF Cipher!ComputeDH
      <4>2. CASE Cipher!NoKey \notin {first.ephemeral, first.remote}
        BY <3>1, <4>2, Zenon DEF Cipher!ComputeDH
      <4> QED
        BY <4>1, <4>2
    <3> QED
      BY <3>1, <3>2 DEF Fields
  <2> QED
    BY <2>1, <2>2, NoiseAssumption
<1> HIDE DEF second
<1>5. Cipher!ReadMessage(hs, message_) = second
  <2>1. message_.e = e
    OBVIOUS
  <2> HIDE DEF message_
  <2> QED
    BY <1>1, <1>4, <2>1, Pattern, Zenon DEF Cipher!ReadMessage, stepped, first, second
<1> QED
  BY <1>4, <1>5

-----------------------------------------------------------------------------
(* The invariant of the two sides. *)

Way(r) == IF r = "client" THEN "first" ELSE "second"
KeysOf(w) == {w} \X {Chain4("key", attempt)} \X Nat
CiphersOf(w) == [k : KeysOf(w), n : Nat]

\* What a side sealed in this attempt's session; before and below, in the order of the sealing.
Sealed(r) == {b \in boxes : b.k[1] = Way(r) /\ b.k[2] = Chain4("key", attempt) /\ b.n < MaxNonce}
Before(b, c) == b.k[3] < c.k[3] \/ (b.k[3] = c.k[3] /\ b.n < c.n)

Message(m) == [type |-> "message", ok |-> TRUE, message |-> m]
Refusal == [type |-> "message", ok |-> FALSE]
Broken == {Cipher!Garbled, Cipher!Short}
BadKeys == {Cipher!NoKey, <<"low order", 0>>}
FirstMessages ==
  {Message(m) : m \in [e : {ClientKey(attempt)} \cup BadKeys, box : {Box1("key", ClientKey(attempt))} \cup Broken]}
SecondMessages ==
  {Message(m) : m \in [e : {DeviceKey(attempt)} \cup BadKeys, box : {Box2(attempt)} \cup Broken]}
DataFrames(r) == {[type |-> "data", box |-> b] : b \in Sealed(Cipher!Peer(r)) \cup Broken}
FramesTo(r) ==
  {[type |-> "empty"]} \cup DataFrames(r) \cup
  IF r = "device" THEN {[type |-> "start"]} \cup FirstMessages
  ELSE {[type |-> "hello"], Refusal} \cup (IF keys.device = "key" THEN SecondMessages ELSE {})

WireInv == DOMAIN wire = Cipher!Roles /\ \A r \in Cipher!Roles : wire[r] \in Seq(FramesTo(r))

TypesInv ==
  /\ attempt \in 0..MaxAttempts /\ faults \in 0..MaxFaults /\ rekeys \in 0..MaxRekeys
  /\ keys \in [client : {"key"}, device : {"key", "other"}, name : {"any", "expected", "wrong"}]
  /\ step \in [Cipher!Roles -> {"idle", "hello", "message", "reply", "data", "failed"}]
  /\ step["client"] # "message" /\ step["device"] # "reply"
  /\ DOMAIN handshake = Cipher!Roles /\ DOMAIN cipher = Cipher!Roles
  /\ WireInv
  /\ sent \in [Cipher!Roles -> Seq(Nat)] /\ received \in [Cipher!Roles -> Seq(Nat)]

HandshakesInv ==
  /\ step["client"] = "hello" => IsFresh(handshake["client"], "client", "key", attempt)
  /\ step["client"] = "reply" => HasWritten(handshake["client"], attempt)
  /\ step["device"] \in {"hello", "message"} => IsFresh(handshake["device"], "device", keys.device, attempt)
  /\ Cipher!SecretsAreWiped

PairsInv ==
  \A r \in Cipher!Roles :
    IF step[r] = "data"
    THEN /\ cipher[r] \in [send : CiphersOf(Way(r)), receive : CiphersOf(Way(Cipher!Peer(r)))]
         /\ keys.device = "key"
         /\ rekeys = 0 => /\ cipher[r].send.k[3] = 0 /\ cipher[r].send.n = Len(sent[r])
                          /\ cipher[r].receive.k[3] = 0 /\ cipher[r].receive.n = Len(received[r])
    ELSE cipher[r] = Cipher!NoPair

SessionKeys == {"first", "second"} \X {Chain4("key", a) : a \in 0..attempt} \X Nat
DataBoxes == [k : SessionKeys, n : 0..MaxNonce - 1, ad : {<<>>}, body : Nat]
RekeyBoxes == [k : SessionKeys, n : {MaxNonce}, ad : {<<>>}, body : {0}]
HandshakeBoxes == UNION {{Box1("key", ClientKey(a)), Box2(a)} : a \in 0..attempt}

BoxesInv == boxes \subseteq HandshakeBoxes \cup DataBoxes \cup RekeyBoxes /\ Cipher!NoncesAreFresh

SealedInv ==
  \A r \in Cipher!Roles :
    /\ step[r] \notin {"data", "failed"} => Sealed(r) = {} /\ sent[r] = <<>> /\ received[r] = <<>>
    /\ Len(sent[r]) <= MaxSends /\ \A i \in 1..Len(sent[r]) : sent[r][i] = i
    /\ \A b \in Sealed(r) : /\ b.body \in 1..Len(sent[r])
                            /\ step[r] = "data" => Before(b, cipher[r].send)
                            /\ rekeys = 0 => b.k[3] = 0 /\ b.body = b.n + 1
    /\ \A b, c \in Sealed(r) : Before(b, c) => b.body < c.body

ReadWasSent(r) ==
  \A i \in 1..Len(received[r]) : /\ received[r][i] \in 1..Len(sent[Cipher!Peer(r)])
                                 /\ rekeys = 0 => received[r][i] = i

ReadInOrder(r) == \A i, j \in 1..Len(received[r]) : i < j => received[r][i] < received[r][j]

UnreadIsLater(r) ==
  \A b \in Sealed(Cipher!Peer(r)), i \in 1..Len(received[r]) :
    ~Before(b, cipher[r].receive) => received[r][i] < b.body

ReceivedBy(r) == ReadWasSent(r) /\ ReadInOrder(r) /\ (step[r] = "data" => UnreadIsLater(r))

ReceivedInv == \A r \in Cipher!Roles : ReceivedBy(r)

\* Without a fault, what is on its way in the handshake.
FaultlessInv ==
  faults = 0 =>
    /\ step["client"] = "hello" =>
         \/ step["device"] = "hello" /\ wire["device"] = <<[type |-> "start"]>> /\ wire["client"] = <<>>
         \/ step["device"] = "message" /\ wire["device"] = <<>> /\ wire["client"] = <<[type |-> "hello"]>>
    /\ step["client"] = "reply" =>
         \/ /\ step["device"] = "message" /\ wire["client"] = <<>>
            /\ wire["device"] = <<Message(First(attempt))>>
         \/ /\ step["device"] \in {"data", "failed"} /\ wire["client"] # <<>>
            /\ Head(wire["client"]) = IF keys.device = "key" THEN Message(Second(attempt)) ELSE Refusal
    /\ Cipher!BlameIsRight

NoiseInv ==
  TypesInv /\ HandshakesInv /\ PairsInv /\ BoxesInv /\ SealedInv /\ ReceivedInv /\ FaultlessInv

LEMMA RolesAre ==
  /\ Cipher!Roles = {"client", "device"}
  /\ Cipher!Peer("client") = "device" /\ Cipher!Peer("device") = "client"
  /\ Way("client") = "first" /\ Way("device") = "second"
BY DEF Cipher!Roles, Cipher!Peer, Way

LEMMA PairIs ==
  ASSUME NEW r \in Cipher!Roles, NEW a
  PROVE  PairOf(r, a) = [send |-> [k |-> <<Way(r), Chain4("key", a), 0>>, n |-> 0],
                         receive |-> [k |-> <<Way(Cipher!Peer(r)), Chain4("key", a), 0>>, n |-> 0]]
BY RolesAre DEF PairOf, Cipher!InitializeKey

LEMMA FreshPair ==
  ASSUME NEW r \in Cipher!Roles
  PROVE  /\ PairOf(r, attempt) \in [send : CiphersOf(Way(r)), receive : CiphersOf(Way(Cipher!Peer(r)))]
         /\ PairOf(r, attempt).send.k[3] = 0 /\ PairOf(r, attempt).send.n = 0
         /\ PairOf(r, attempt).receive.k[3] = 0 /\ PairOf(r, attempt).receive.n = 0
<1> DEFINE ck == Chain4("key", attempt)
           s == [k |-> <<Way(r), ck, 0>>, n |-> 0]
           t_ == [k |-> <<Way(Cipher!Peer(r)), ck, 0>>, n |-> 0]
<1>1. PairOf(r, attempt) = [send |-> s, receive |-> t_]
  BY PairIs
<1>2. s \in CiphersOf(Way(r)) /\ s.k[3] = 0 /\ s.n = 0
  BY DEF CiphersOf, KeysOf
<1>3. t_ \in CiphersOf(Way(Cipher!Peer(r))) /\ t_.k[3] = 0 /\ t_.n = 0
  BY DEF CiphersOf, KeysOf
<1> HIDE DEF s, t_
<1> QED
  BY <1>1, <1>2, <1>3

LEMMA HandshakeBoxesDiffer ==
  ASSUME NEW x \in HandshakeBoxes
  PROVE  /\ x.k[1] = "handshake"
         /\ \A y \in HandshakeBoxes : x.k = y.k => x = y
<1>1. ASSUME NEW y \in HandshakeBoxes
      PROVE  \E a \in 0..attempt : y = Box1("key", ClientKey(a)) \/ y = Box2(a)
  BY DEF HandshakeBoxes
<1>2. \A a : /\ Box1("key", ClientKey(a)).k = <<"handshake", Chain2("key", ClientKey(a)), 0>>
             /\ Box2(a).k = <<"handshake", Chain4("key", a), 0>>
  BY DEF Box1, Box2, BoxOf
<1>3. \A a, b : Chain2("key", ClientKey(a)) = Chain2("key", ClientKey(b)) => a = b
  BY DEF Chain2, ClientKey
<1>4. \A a, b : Chain4("key", a) = Chain4("key", b) => a = b
  <2>1. \A a, b : Chain4("key", a) = Chain4("key", b) => Chain2("key", ClientKey(a)) = Chain2("key", ClientKey(b))
    BY DEF Chain4
  <2> QED
    BY <1>3, <2>1
<1>5. \A a, b : Chain2("key", ClientKey(a)) # Chain4("key", b)
  <2>1. \A a : Chain2("key", ClientKey(a))[1][1] = Chain0
    BY DEF Chain2
  <2>2. \A b : Chain4("key", b)[1][1] = Chain2("key", ClientKey(b))
    BY DEF Chain4
  <2>3. \A b : Chain0 # Chain2("key", ClientKey(b))
    BY DEF Chain0, Chain2, Cipher!PROTOCOL_NAME_HASH
  <2> QED
    BY <2>1, <2>2, <2>3
<1>6. \A c, d : <<"handshake", c, 0>> = <<"handshake", d, 0>> => c = d
  OBVIOUS
<1>7. ASSUME NEW y \in HandshakeBoxes, x.k = y.k PROVE x = y
  <2>1. PICK a : x = Box1("key", ClientKey(a)) \/ x = Box2(a)
    BY <1>1
  <2>2. PICK b : y = Box1("key", ClientKey(b)) \/ y = Box2(b)
    BY <1>1, <1>7
  <2> QED
    BY <1>2, <1>3, <1>4, <1>5, <1>6, <1>7, <2>1, <2>2
<1>8. x.k[1] = "handshake"
  <2>1. PICK a : x = Box1("key", ClientKey(a)) \/ x = Box2(a)
    BY <1>1
  <2> QED
    BY <1>2, <2>1
<1> QED
  BY <1>7, <1>8

LEMMA OtherBoxesDiffer ==
  ASSUME NEW x \in DataBoxes \cup RekeyBoxes
  PROVE  x.k[1] # "handshake" /\ x.k[1] \in {"first", "second"}
BY DEF DataBoxes, RekeyBoxes, SessionKeys

\* A step of the handshake, or of the link: who is in the session stays in it as it was, or
\* leaves it for good, and who enters it has a fresh pair.
Calm ==
  /\ attempt' = attempt /\ keys' = keys /\ rekeys' = rekeys /\ sent' = sent /\ received' = received
  /\ boxes \subseteq boxes' /\ boxes' \subseteq boxes \cup {Box1("key", ClientKey(attempt)), Box2(attempt)}
  /\ \A r \in Cipher!Roles :
       \/ step'[r] = step[r] /\ cipher'[r] = cipher[r]
       \/ /\ step'[r] # "data" /\ cipher'[r] = Cipher!NoPair
          /\ step[r] \in {"data", "failed"} => step'[r] = "failed"
       \/ /\ step[r] \notin {"data", "failed"} /\ step'[r] = "data"
          /\ cipher'[r] = PairOf(r, attempt) /\ keys.device = "key"

LEMMA NewBoxes ==
  ASSUME attempt \in Nat
  PROVE  Box1("key", ClientKey(attempt)) \in HandshakeBoxes /\ Box2(attempt) \in HandshakeBoxes
<1>1. attempt \in 0..attempt
  OBVIOUS
<1> QED
  BY <1>1 DEF HandshakeBoxes

LEMMA CalmStep ==
  ASSUME TypesInv, PairsInv, BoxesInv, SealedInv, ReceivedInv, Calm
  PROVE  /\ PairsInv' /\ BoxesInv' /\ SealedInv' /\ ReceivedInv'
         /\ \A r \in Cipher!Roles : Sealed(r)' = Sealed(r)
<1> USE DEF Calm
<1>0. attempt \in Nat /\ attempt' = attempt
  BY DEF TypesInv
<1>1. ASSUME NEW x \in boxes', x \notin boxes
      PROVE  x \in HandshakeBoxes
  BY <1>0, <1>1, NewBoxes
<1>2. HandshakeBoxes' = HandshakeBoxes /\ DataBoxes' = DataBoxes /\ RekeyBoxes' = RekeyBoxes
  BY <1>0 DEF HandshakeBoxes, DataBoxes, RekeyBoxes, SessionKeys
<1>3. BoxesInv'
  <2>1. boxes' \subseteq HandshakeBoxes \cup DataBoxes \cup RekeyBoxes
    BY <1>1 DEF BoxesInv
  <2>2. ASSUME NEW x \in boxes', NEW y \in boxes', x.k = y.k, x.n = y.n PROVE x = y
    <3>1. CASE x \in HandshakeBoxes
      <4>1. y \in HandshakeBoxes
        BY <2>1, <2>2, <3>1, HandshakeBoxesDiffer, OtherBoxesDiffer
      <4> QED
        BY <2>2, <3>1, <4>1, HandshakeBoxesDiffer
    <3>2. CASE x \notin HandshakeBoxes
      <4>1. y \notin HandshakeBoxes
        BY <2>1, <2>2, <3>2, HandshakeBoxesDiffer, OtherBoxesDiffer
      <4> QED
        BY <1>1, <2>2, <3>2, <4>1 DEF BoxesInv, Cipher!NoncesAreFresh
    <3> QED
      BY <3>1, <3>2
  <2> QED
    BY <1>2, <2>1, <2>2 DEF BoxesInv, Cipher!NoncesAreFresh
<1>4. ASSUME NEW r \in Cipher!Roles PROVE Sealed(r)' = Sealed(r)
  <2>1. ASSUME NEW x \in HandshakeBoxes PROVE x.k[1] # Way(r)
    BY <2>1, HandshakeBoxesDiffer DEF Way
  <2> QED
    BY <1>0, <1>1, <2>1 DEF Sealed
<1>5. \A w : CiphersOf(w)' = CiphersOf(w)
  BY <1>0 DEF CiphersOf, KeysOf
<1>6. PairsInv'
  <2> SUFFICES ASSUME NEW r \in Cipher!Roles
               PROVE  IF step'[r] = "data"
                      THEN /\ cipher'[r] \in [send : CiphersOf(Way(r)), receive : CiphersOf(Way(Cipher!Peer(r)))]
                           /\ keys.device = "key"
                           /\ rekeys = 0 => /\ cipher'[r].send.k[3] = 0 /\ cipher'[r].send.n = Len(sent[r])
                                            /\ cipher'[r].receive.k[3] = 0 /\ cipher'[r].receive.n = Len(received[r])
                      ELSE cipher'[r] = Cipher!NoPair
    BY <1>5 DEF PairsInv
  <2>1. CASE step'[r] = step[r] /\ cipher'[r] = cipher[r]
    BY <2>1 DEF PairsInv
  <2>2. CASE step'[r] # "data" /\ cipher'[r] = Cipher!NoPair
    BY <2>2
  <2>3. CASE /\ step[r] \notin {"data", "failed"} /\ step'[r] = "data"
             /\ cipher'[r] = PairOf(r, attempt) /\ keys.device = "key"
    <3>1. Len(sent[r]) = 0 /\ Len(received[r]) = 0
      BY <2>3 DEF SealedInv
    <3> QED
      BY <2>3, <3>1, FreshPair
  <2> QED
    BY <2>1, <2>2, <2>3
<1>7. SealedInv'
  <2> SUFFICES ASSUME NEW r \in Cipher!Roles
               PROVE  /\ step'[r] \notin {"data", "failed"} => Sealed(r) = {} /\ sent[r] = <<>> /\ received[r] = <<>>
                      /\ Len(sent[r]) <= MaxSends /\ \A i \in 1..Len(sent[r]) : sent[r][i] = i
                      /\ \A b \in Sealed(r) : /\ b.body \in 1..Len(sent[r])
                                              /\ step'[r] = "data" => Before(b, cipher'[r].send)
                                              /\ rekeys = 0 => b.k[3] = 0 /\ b.body = b.n + 1
                      /\ \A b, c \in Sealed(r) : Before(b, c) => b.body < c.body
    BY <1>4 DEF SealedInv
  <2> QED
    BY DEF SealedInv
<1>8. ReceivedInv'
  <2>0. \A r \in Cipher!Roles : Cipher!Peer(r) \in Cipher!Roles
    BY RolesAre
  <2> SUFFICES ASSUME NEW r \in Cipher!Roles
               PROVE  step'[r] = "data" =>
                        \A b \in Sealed(Cipher!Peer(r)), i \in 1..Len(received[r]) :
                          ~Before(b, cipher'[r].receive) => received[r][i] < b.body
    BY <1>4, <2>0 DEF ReceivedInv, ReceivedBy, ReadWasSent, ReadInOrder, UnreadIsLater
  <2>1. CASE step[r] \notin {"data", "failed"}
    <3>1. Len(received[r]) = 0
      BY <2>1 DEF SealedInv
    <3> QED
      BY <3>1
  <2>2. CASE step[r] \in {"data", "failed"}
    BY <2>2 DEF ReceivedInv, ReceivedBy, ReadWasSent, ReadInOrder, UnreadIsLater
  <2> QED
    BY <2>1, <2>2
<1> QED
  BY <1>3, <1>4, <1>6, <1>7, <1>8

-----------------------------------------------------------------------------
(* The link's frames. *)

LEMMA FramesGrow ==
  ASSUME attempt' = attempt, keys' = keys, \A r \in Cipher!Roles : Sealed(r) \subseteq Sealed(r)'
  PROVE  \A r \in Cipher!Roles : FramesTo(r) \subseteq FramesTo(r)'
<1>1. FirstMessages' = FirstMessages /\ SecondMessages' = SecondMessages
  BY DEF FirstMessages, SecondMessages
<1>2. ASSUME NEW r \in Cipher!Roles PROVE DataFrames(r) \subseteq DataFrames(r)'
  <2>1. Cipher!Peer(r) \in Cipher!Roles
    BY RolesAre
  <2> QED
    BY <2>1 DEF DataFrames
<1> QED
  BY <1>1, <1>2 DEF FramesTo

LEMMA WireStays ==
  ASSUME WireInv, \A r \in Cipher!Roles : FramesTo(r) \subseteq FramesTo(r)', wire' = wire
  PROVE  WireInv'
BY SeqMonotonic DEF WireInv

LEMMA TakingKeeps ==
  ASSUME WireInv, \A q \in Cipher!Roles : FramesTo(q) \subseteq FramesTo(q)',
         NEW r \in Cipher!Roles, wire[r] # <<>>, Cipher!Take(r)
  PROVE  WireInv'
<1>1. ASSUME NEW q \in Cipher!Roles PROVE wire'[q] \in Seq(FramesTo(q)')
  <2>1. Tail(wire[r]) \in Seq(FramesTo(r))
    BY HeadTailProperties DEF WireInv
  <2>2. wire'[q] \in Seq(FramesTo(q))
    BY <2>1 DEF WireInv, Cipher!Take
  <2> QED
    BY <2>2, SeqMonotonic
<1>2. DOMAIN wire' = Cipher!Roles
  BY DEF WireInv, Cipher!Take
<1> QED
  BY <1>1, <1>2 DEF WireInv

LEMMA AnsweringKeeps ==
  ASSUME WireInv, \A r \in Cipher!Roles : FramesTo(r) \subseteq FramesTo(r)',
         NEW r \in Cipher!Roles, wire[r] # <<>>, NEW f, f \in FramesTo(Cipher!Peer(r))', Cipher!Answer(r, f)
  PROVE  WireInv'
<1>0. Cipher!Peer(r) # r /\ Cipher!Peer(r) \in Cipher!Roles /\ \A q \in Cipher!Roles : q = r \/ q = Cipher!Peer(r)
  BY RolesAre
<1>1. wire' = [wire EXCEPT ![r] = Tail(wire[r]), ![Cipher!Peer(r)] = Append(wire[Cipher!Peer(r)], f)]
  BY <1>0 DEF Cipher!Answer, WireInv
<1>2. wire'[r] \in Seq(FramesTo(r)')
  <2>1. Tail(wire[r]) \in Seq(FramesTo(r))
    BY HeadTailProperties DEF WireInv
  <2> QED
    BY <1>0, <1>1, <2>1, SeqMonotonic DEF WireInv
<1>3. wire'[Cipher!Peer(r)] \in Seq(FramesTo(Cipher!Peer(r))')
  <2>1. wire[Cipher!Peer(r)] \in Seq(FramesTo(Cipher!Peer(r))')
    BY <1>0, SeqMonotonic DEF WireInv
  <2>2. Append(wire[Cipher!Peer(r)], f) \in Seq(FramesTo(Cipher!Peer(r))')
    BY <2>1, AppendProperties
  <2> QED
    BY <1>0, <1>1, <2>2 DEF WireInv
<1>4. DOMAIN wire' = Cipher!Roles
  BY <1>1 DEF WireInv
<1> QED
  BY <1>0, <1>2, <1>3, <1>4 DEF WireInv

LEMMA SendingKeeps ==
  ASSUME WireInv, \A r \in Cipher!Roles : FramesTo(r) \subseteq FramesTo(r)',
         NEW r \in Cipher!Roles, NEW f, f \in FramesTo(Cipher!Peer(r))', Cipher!Send(r, f)
  PROVE  WireInv'
<1>0. Cipher!Peer(r) # r /\ Cipher!Peer(r) \in Cipher!Roles /\ \A q \in Cipher!Roles : q = r \/ q = Cipher!Peer(r)
  BY RolesAre
<1>1. wire' = [wire EXCEPT ![Cipher!Peer(r)] = Append(wire[Cipher!Peer(r)], f)]
  BY <1>0 DEF Cipher!Send, WireInv
<1>2. wire'[r] \in Seq(FramesTo(r)')
  BY <1>0, <1>1, SeqMonotonic DEF WireInv
<1>3. wire'[Cipher!Peer(r)] \in Seq(FramesTo(Cipher!Peer(r))')
  <2>1. wire[Cipher!Peer(r)] \in Seq(FramesTo(Cipher!Peer(r))')
    BY <1>0, SeqMonotonic DEF WireInv
  <2>2. Append(wire[Cipher!Peer(r)], f) \in Seq(FramesTo(Cipher!Peer(r))')
    BY <2>1, AppendProperties
  <2> QED
    BY <1>0, <1>1, <2>2 DEF WireInv
<1>4. DOMAIN wire' = Cipher!Roles
  BY <1>1 DEF WireInv
<1> QED
  BY <1>0, <1>2, <1>3, <1>4 DEF WireInv

LEMMA MessageTo ==
  ASSUME NEW r \in Cipher!Roles, NEW f \in FramesTo(r), f.type = "message"
  PROVE  IF r = "device" THEN f \in FirstMessages
         ELSE f = Refusal \/ (f \in SecondMessages /\ keys.device = "key")
<1>1. \A b : [type |-> "data", box |-> b].type = "data"
  OBVIOUS
<1>2. f \notin DataFrames(r)
  BY <1>1 DEF DataFrames
<1>3. [type |-> "empty"].type = "empty" /\ [type |-> "start"].type = "start" /\ [type |-> "hello"].type = "hello"
  OBVIOUS
<1> QED
  BY <1>2, <1>3, RolesAre DEF FramesTo

LEMMA DataTo ==
  ASSUME NEW r \in Cipher!Roles, NEW f \in FramesTo(r), f.type = "data"
  PROVE  f \in DataFrames(r) /\ f.box \in Sealed(Cipher!Peer(r)) \cup Broken
<1>1. f \notin FirstMessages \cup SecondMessages \cup {Refusal}
  <2>1. \A m : Message(m).type = "message"
    BY DEF Message
  <2>2. Refusal.type = "message"
    BY DEF Refusal
  <2>3. ASSUME f \in FirstMessages PROVE f.type = "message"
    BY <2>1, <2>3, Zenon DEF FirstMessages
  <2>5. ASSUME f \in SecondMessages PROVE f.type = "message"
    BY <2>1, <2>5, Zenon DEF SecondMessages
  <2>4. "data" # "message"
    OBVIOUS
  <2> QED
    BY <2>2, <2>3, <2>4, <2>5
<1>2. [type |-> "empty"].type = "empty" /\ [type |-> "start"].type = "start" /\ [type |-> "hello"].type = "hello"
  OBVIOUS
<1>3. f \in DataFrames(r)
  BY <1>1, <1>2, RolesAre DEF FramesTo
<1> QED
  BY <1>3 DEF DataFrames

LEMMA BrokenHaveNoKey ==
  ASSUME NEW b \in Broken, NEW w, NEW ck, NEW j
  PROVE  b.k # <<w, ck, j>>
<1>1. b.k = <<>>
  BY DEF Broken, Cipher!Garbled, Cipher!Short, Cipher!NoKey
<1>2. Len(<<>>) = 0 /\ Len(<<w, ck, j>>) = 3
  OBVIOUS
<1> QED
  BY <1>1, <1>2

\* Only the client's own message opens at a device that has its key, and opens there.
LEMMA DeviceReads ==
  ASSUME NEW hs, NEW a, NEW p \in {"key", "other"}, IsFresh(hs, "device", p, a),
         NEW m \in [e : {ClientKey(a)} \cup BadKeys, box : {Box1("key", ClientKey(a))} \cup Broken]
  PROVE  LET read_ == Cipher!ReadMessage(hs, m)
         IN  /\ read_.error = None => m = First(a) /\ p = "key"
             /\ m = First(a) /\ p = "key" => HasRead(read_, "key", a, ClientKey(a))
<1> DEFINE e == m.e
           box == m.box
<1>0. /\ m = [e |-> e, box |-> box] /\ e \in {ClientKey(a)} \cup BadKeys /\ box \in {Box1("key", ClientKey(a))} \cup Broken
      /\ m = First(a) <=> e = ClientKey(a) /\ box = Box1("key", ClientKey(a))
  BY DEF First
<1> HIDE DEF e, box
<1> DEFINE read_ == Cipher!ReadMessage(hs, [e |-> e, box |-> box])
<1>1. DOMAIN hs = Fields /\ hs.error = None /\ hs.index = 1
  BY DEF IsFresh, Stands
<1>2. CASE e = Cipher!NoKey
  <2>1. e # ClientKey(a)
    BY <1>2 DEF Cipher!NoKey, ClientKey
  <2>2. read_.error # None
    BY <1>1, <1>2, KeylessFails
  <2> QED
    BY <1>0, <2>1, <2>2
<1>3. CASE e # Cipher!NoKey /\ ~(e = ClientKey(a) /\ box = Box1("key", ClientKey(a)) /\ p = "key")
  <2>1. box.k # <<"handshake", Chain2(p, e), 0>>
    <3>1. CASE box \in Broken
      BY <3>1, BrokenHaveNoKey
    <3>2. CASE box = Box1("key", ClientKey(a)) /\ ~(e = ClientKey(a) /\ p = "key")
      <4>1. box.k = <<"handshake", Chain2("key", ClientKey(a)), 0>>
        BY <3>2 DEF Box1, BoxOf
      <4>2. Chain2("key", ClientKey(a)) # Chain2(p, e)
        BY <3>2 DEF Chain2
      <4>3. \A c, d : <<"handshake", c, 0>> = <<"handshake", d, 0>> => c = d
        OBVIOUS
      <4> QED
        BY <4>1, <4>2, <4>3, Zenon
    <3> QED
      BY <1>0, <1>3, <3>1, <3>2
  <2>2. read_.error # None
    BY <1>3, <2>1, ReadFirst
  <2> QED
    BY <1>0, <1>3, <2>2
<1>4. CASE e = ClientKey(a) /\ box = Box1("key", ClientKey(a)) /\ p = "key"
  <2>1. e # Cipher!NoKey
    BY <1>4 DEF Cipher!NoKey, ClientKey
  <2>2. HasRead(read_, p, a, e)
    BY <1>4, <2>1, ReadFirst
  <2> QED
    BY <1>0, <1>4, <2>2
<1> QED
  BY <1>0, <1>2, <1>3, <1>4

LEMMA ClientReads ==
  ASSUME NEW hs, NEW a, HasWritten(hs, a),
         NEW m \in [e : {DeviceKey(a)} \cup BadKeys, box : {Box2(a)} \cup Broken]
  PROVE  LET next == Cipher!ReadMessage(hs, m)
         IN  /\ next.error = None => m = Second(a)
             /\ m = Second(a) => /\ next.error = None /\ DOMAIN next = Fields
                                 /\ next.pair = PairOf("client", a)
<1> DEFINE e == m.e
           box == m.box
<1>0. /\ m = [e |-> e, box |-> box] /\ e \in {DeviceKey(a)} \cup BadKeys /\ box \in {Box2(a)} \cup Broken
      /\ m = Second(a) <=> e = DeviceKey(a) /\ box = Box2(a)
  BY DEF Second
<1> HIDE DEF e, box
<1>1. DOMAIN hs = Fields /\ hs.error = None /\ hs.index = 2
  BY DEF HasWritten, Stands
<1>2. DeviceKey(a) # Cipher!NoKey /\ DeviceKey(a) # <<"low order", 0>>
  BY DEF DeviceKey, Cipher!NoKey
<1>3. CASE e = Cipher!NoKey
  BY <1>0, <1>1, <1>2, <1>3, KeylessFails
<1>4. CASE e = <<"low order", 0>>
  BY <1>0, <1>2, <1>4, ReadLowOrder
<1>5. CASE e = DeviceKey(a)
  <2>1. ASSUME box \in Broken PROVE box.k # Box2(a).k
    BY <2>1, BrokenHaveNoKey DEF Box2, BoxOf
  <2> QED
    BY <1>0, <1>5, <2>1, ReadSecond
<1> QED
  BY <1>0, <1>3, <1>4, <1>5 DEF BadKeys

-----------------------------------------------------------------------------
(* The handshake's steps keep the invariant. *)

Wiped(hs) == hs.psk = None /\ hs.cs.k = Cipher!NoKey /\ hs.ck = <<>> /\ hs.pair = Cipher!NoPair

LEMMA Wiping ==
  ASSUME NEW hs, DOMAIN hs = Fields
  PROVE  Wiped(Cipher!Destroy(hs)) /\ Wiped(Cipher!DestroyHandshakeSecrets(hs))
<1>1. Wiped(Cipher!Destroy(hs))
  BY DEF Fields, Cipher!Destroy, Cipher!NoCipher, Wiped
<1>2. Wiped(Cipher!DestroyHandshakeSecrets(hs))
  BY DEF Fields, Cipher!DestroyHandshakeSecrets, Cipher!NoCipher, Wiped
<1> QED
  BY <1>1, <1>2

LEMMA HeadOf ==
  ASSUME NEW r \in Cipher!Roles, WireInv, wire[r] # <<>>
  PROVE  Head(wire[r]) \in FramesTo(r)
BY HeadTailProperties DEF WireInv

\* The client's handshake fails, for one of the reasons it may have.
LEMMA FailingKeeps ==
  ASSUME NoiseInv, NEW error, step["client"] \in {"hello", "reply"}, Cipher!Fails(error),
         wire' = wire \/ (wire["client"] # <<>> /\ Cipher!Take("client")),
         UNCHANGED <<attempt, keys, cipher, faults, rekeys, boxes, sent, received>>,
         faults = 0 => \/ error = "HANDSHAKE_TIMEOUT"
                       \/ error = "NOISE_HANDSHAKE_FAILED" /\ keys.client # keys.device
                       \/ error = "SERVER_NAME_MISMATCH" /\ keys.name = "wrong"
  PROVE  NoiseInv'
<1>1. /\ step' = [step EXCEPT !["client"] = "failed"] /\ result' = error
      /\ handshake' = [handshake EXCEPT !["client"] = Cipher!Destroy(handshake["client"])]
      /\ DOMAIN handshake = Cipher!Roles /\ WireInv
      /\ "client" \in Cipher!Roles /\ "device" \in Cipher!Roles
      /\ cipher["client"] = Cipher!NoPair
      /\ step'["client"] = "failed" /\ step'["device"] = step["device"]
  BY RolesAre DEF Cipher!Fails, NoiseInv, TypesInv, PairsInv
<1>2. Calm
  BY <1>1, RolesAre DEF Calm
<1>3. /\ PairsInv' /\ BoxesInv' /\ SealedInv' /\ ReceivedInv'
      /\ \A r \in Cipher!Roles : Sealed(r)' = Sealed(r)
  BY <1>2, CalmStep DEF NoiseInv
<1>4. WireInv'
  <2>1. \A r \in Cipher!Roles : FramesTo(r) \subseteq FramesTo(r)'
    BY <1>3, FramesGrow
  <2> QED
    BY <1>1, <2>1, WireStays, TakingKeeps
<1>5. TypesInv'
  BY <1>1, <1>4 DEF NoiseInv, TypesInv
<1>6. HandshakesInv'
  <2>1. DOMAIN handshake["client"] = Fields
    BY DEF NoiseInv, HandshakesInv, IsFresh, HasWritten, Stands
  <2>2. handshake'["client"] = Cipher!Destroy(handshake["client"]) /\ handshake'["device"] = handshake["device"]
    BY <1>1
  <2>3. Cipher!SecretsAreWiped'
    BY <1>1, <2>1, <2>2, Wiping DEF Cipher!SecretsAreWiped, Wiped
  <2> QED
    BY <1>1, <2>2, <2>3 DEF NoiseInv, HandshakesInv
<1>7. FaultlessInv'
  <2>1. Cipher!BlameIsRight'
    BY <1>1, NoiseAssumption DEF Cipher!BlameIsRight
  <2> QED
    BY <1>1, <2>1 DEF FaultlessInv
<1> QED
  BY <1>3, <1>5, <1>6, <1>7 DEF NoiseInv

LEMMA ClientHelloStep ==
  ASSUME NoiseInv, Cipher!ClientHello
  PROVE  NoiseInv'
<1> DEFINE frame == Head(wire["client"])
           next == Cipher!WriteMessage(handshake["client"])
           wrong == frame.type # "hello" \/ (keys.name # "any" /\ keys.name # "expected")
           error == IF frame.type # "hello" THEN "UNSUPPORTED_TOKEN" ELSE "SERVER_NAME_MISMATCH"
<1>0. /\ step["client"] = "hello" /\ wire["client"] # <<>> /\ DOMAIN handshake = Cipher!Roles
      /\ UNCHANGED <<attempt, keys, cipher, faults, rekeys, sent, received>>
      /\ IsFresh(handshake["client"], "client", "key", attempt) /\ WireInv
      /\ "client" \in Cipher!Roles /\ "device" \in Cipher!Roles /\ Cipher!Peer("client") = "device"
      /\ cipher["client"] = Cipher!NoPair
  BY RolesAre DEF Cipher!ClientHello, NoiseInv, HandshakesInv, TypesInv, PairsInv
<1>1. ASSUME wrong PROVE NoiseInv'
  <2>1. Cipher!Fails(error) /\ Cipher!Take("client") /\ boxes' = boxes
    BY <1>1 DEF Cipher!ClientHello
  <2>2. ASSUME faults = 0 PROVE error = "SERVER_NAME_MISMATCH" /\ keys.name = "wrong"
    <3>1. frame.type = "hello"
      BY <1>0, <2>2 DEF NoiseInv, FaultlessInv
    <3> QED
      BY <1>1, <3>1 DEF NoiseInv, TypesInv
  <2> QED
    BY <1>0, <2>1, <2>2, FailingKeeps
<1>2. ASSUME ~wrong PROVE NoiseInv'
  <2>1. HasWritten(next, attempt) /\ Cipher!Written(next) = First(attempt)
    BY <1>0, WriteFirst
  <2>2. Cipher!Newest(next.h) = Box1("key", ClientKey(attempt))
    BY <2>1 DEF HasWritten, Stands, Hash3, Cipher!Newest
  <2>3. /\ step' = [step EXCEPT !["client"] = "reply"] /\ result' = result
        /\ handshake' = [handshake EXCEPT !["client"] = next]
        /\ boxes' = boxes \cup {Box1("key", ClientKey(attempt))}
        /\ Cipher!Answer("client", Message(First(attempt)))
    BY <1>2, <2>1, <2>2 DEF Cipher!ClientHello, Cipher!Seals, Message
  <2> HIDE DEF next
  <2>4. step'["client"] = "reply" /\ step'["device"] = step["device"]
    BY <1>0, <2>3 DEF NoiseInv, TypesInv
  <2>5. Calm
    BY <1>0, <2>3, <2>4, RolesAre DEF Calm
  <2>6. /\ PairsInv' /\ BoxesInv' /\ SealedInv' /\ ReceivedInv'
        /\ \A r \in Cipher!Roles : Sealed(r)' = Sealed(r)
    BY <2>5, CalmStep DEF NoiseInv
  <2>7. Message(First(attempt)) \in FramesTo("device")'
    <3>1. First(attempt) \in [e : {ClientKey(attempt)} \cup BadKeys, box : {Box1("key", ClientKey(attempt))} \cup Broken]
      BY DEF First
    <3> QED
      BY <1>0, <3>1 DEF FramesTo, FirstMessages
  <2>8. WireInv'
    BY <1>0, <2>3, <2>6, <2>7, FramesGrow, AnsweringKeeps
  <2>9. TypesInv'
    BY <1>0, <2>3, <2>8 DEF NoiseInv, TypesInv
  <2>10. HandshakesInv'
    <3>1. handshake'["client"] = next /\ handshake'["device"] = handshake["device"]
      BY <1>0, <2>3
    <3> QED
      BY <1>0, <2>1, <2>4, <3>1 DEF NoiseInv, HandshakesInv, Cipher!SecretsAreWiped
  <2>11. FaultlessInv'
    <3>1. ASSUME faults = 0
          PROVE  /\ step'["device"] = "message" /\ wire'["client"] = <<>>
                 /\ wire'["device"] = <<Message(First(attempt))>>
      <4>1. step["device"] = "message" /\ wire["device"] = <<>> /\ wire["client"] = <<[type |-> "hello"]>>
        BY <1>0, <3>1 DEF NoiseInv, FaultlessInv
      <4>2. /\ wire'["client"] = Tail(wire["client"])
            /\ wire'["device"] = Append(wire["device"], Message(First(attempt)))
        BY <1>0, <2>3 DEF Cipher!Answer, WireInv
      <4> QED
        BY <2>4, <4>1, <4>2
    <3>2. Cipher!BlameIsRight'
      BY <1>0, <2>3 DEF NoiseInv, FaultlessInv, Cipher!BlameIsRight
    <3> QED
      BY <1>0, <2>4, <3>1, <3>2 DEF FaultlessInv
  <2> QED
    BY <2>6, <2>9, <2>10, <2>11 DEF NoiseInv
<1> QED
  BY <1>1, <1>2

LEMMA ClientReplyStep ==
  ASSUME NoiseInv, Cipher!ClientReply
  PROVE  NoiseInv'
<1> DEFINE frame == Head(wire["client"])
           read_ == frame.type = "message" /\ frame.ok
           next == IF read_ THEN Cipher!ReadMessage(handshake["client"], frame.message) ELSE handshake["client"]
           error == Cipher!ReplyError(frame, next)
<1>0. /\ step["client"] = "reply" /\ wire["client"] # <<>> /\ DOMAIN handshake = Cipher!Roles
      /\ UNCHANGED <<attempt, keys, faults, rekeys, boxes, sent, received>> /\ Cipher!Take("client")
      /\ HasWritten(handshake["client"], attempt) /\ WireInv
      /\ "client" \in Cipher!Roles /\ "device" \in Cipher!Roles
      /\ frame \in FramesTo("client")
  BY RolesAre, HeadOf DEF Cipher!ClientReply, NoiseInv, HandshakesInv, TypesInv
<1>1. ASSUME read_
      PROVE  /\ keys.device = "key"
             /\ next.error = None => frame = Message(Second(attempt))
             /\ frame = Message(Second(attempt)) =>
                  next.error = None /\ DOMAIN next = Fields /\ next.pair = PairOf("client", attempt)
  <2>1. frame \in SecondMessages /\ keys.device = "key"
    <3>1. ~Refusal.ok
      BY DEF Refusal
    <3> QED
      BY <1>0, <1>1, <3>1, MessageTo
  <2>2. PICK m \in [e : {DeviceKey(attempt)} \cup BadKeys, box : {Box2(attempt)} \cup Broken] : frame = Message(m)
    BY <2>1 DEF SecondMessages
  <2>3. \A x : Message(x).message = x
    BY DEF Message
  <2> HIDE DEF frame
  <2>4. frame.message = m /\ (frame = Message(Second(attempt)) <=> m = Second(attempt))
    BY <2>2, <2>3
  <2>5. next = Cipher!ReadMessage(handshake["client"], m)
    BY <1>1, <2>4
  <2> QED
    BY <1>0, <2>1, <2>4, <2>5, ClientReads
<1>2. ASSUME error # None PROVE NoiseInv'
  <2>1. Cipher!Fails(error) /\ cipher' = cipher
    BY <1>2 DEF Cipher!ClientReply
  <2>2. ASSUME faults = 0 PROVE error = "NOISE_HANDSHAKE_FAILED" /\ keys.client # keys.device
    <3>1. frame = IF keys.device = "key" THEN Message(Second(attempt)) ELSE Refusal
      BY <1>0, <2>2 DEF NoiseInv, FaultlessInv
    <3>2. keys.device # "key"
      <4>1. ASSUME keys.device = "key" PROVE FALSE
        <5>1. frame = Message(Second(attempt)) /\ frame.type = "message" /\ frame.ok
          BY <3>1, <4>1 DEF Message
        <5>2. next.error = None
          BY <1>1, <5>1
        <5> HIDE DEF next, frame
        <5>3. error = next.error
          BY <5>1, <5>2, NoiseAssumption DEF Cipher!ReplyError
        <5> QED
          BY <1>2, <5>2, <5>3
      <4> QED
        BY <4>1
    <3>3. frame.type = "message" /\ ~frame.ok
      BY <3>1, <3>2 DEF Refusal
    <3> QED
      BY <3>2, <3>3 DEF Cipher!ReplyError, NoiseInv, TypesInv
  <2> QED
    BY <1>0, <2>1, <2>2, FailingKeeps
<1>3. ASSUME error = None PROVE NoiseInv'
  <2>1. read_ /\ next.error = None
    <3>0. Cipher!ReplyError(frame, next) = None
      BY <1>3
    <3>1. None # "TRUNCATED_E" /\ None # "NOISE_HANDSHAKE_FAILED"
      BY NoiseAssumption
    <3> HIDE DEF next, frame
    <3>2. frame.type = "message"
      BY <3>0, <3>1 DEF Cipher!ReplyError
    <3>3. frame.ok
      BY <3>0, <3>1 DEF Cipher!ReplyError
    <3>4. next.error = None
      BY <3>0, <3>1 DEF Cipher!ReplyError
    <3> QED
      BY <3>2, <3>3, <3>4
  <2>2. /\ keys.device = "key" /\ frame = Message(Second(attempt))
        /\ DOMAIN next = Fields /\ next.pair = PairOf("client", attempt)
    BY <1>1, <2>1
  <2>3. /\ cipher' = [cipher EXCEPT !["client"] = next.pair]
        /\ handshake' = [handshake EXCEPT !["client"] = Cipher!DestroyHandshakeSecrets(next)]
        /\ step' = [step EXCEPT !["client"] = "data"] /\ result' = "ok"
    BY <1>3 DEF Cipher!ClientReply
  <2> HIDE DEF next, frame
  <2>4. /\ step'["client"] = "data" /\ step'["device"] = step["device"]
        /\ cipher'["client"] = PairOf("client", attempt) /\ cipher'["device"] = cipher["device"]
        /\ handshake'["client"] = Cipher!DestroyHandshakeSecrets(next) /\ handshake'["device"] = handshake["device"]
        /\ DOMAIN cipher' = Cipher!Roles
    BY <1>0, <2>2, <2>3 DEF NoiseInv, TypesInv
  <2>5. Calm
    BY <1>0, <2>2, <2>4, RolesAre DEF Calm
  <2>6. /\ PairsInv' /\ BoxesInv' /\ SealedInv' /\ ReceivedInv'
        /\ \A r \in Cipher!Roles : Sealed(r)' = Sealed(r)
    BY <2>5, CalmStep DEF NoiseInv
  <2>7. WireInv'
    BY <1>0, <2>6, FramesGrow, TakingKeeps
  <2>8. TypesInv'
    BY <1>0, <2>3, <2>4, <2>7 DEF NoiseInv, TypesInv
  <2>9. HandshakesInv'
    <3>1. Cipher!SecretsAreWiped'
      BY <2>2, <2>4, Wiping DEF Cipher!SecretsAreWiped, Wiped
    <3> QED
      BY <1>0, <2>4, <3>1 DEF NoiseInv, HandshakesInv
  <2>10. FaultlessInv'
    <3>1. Cipher!BlameIsRight'
      BY <1>0, <2>2, <2>3 DEF NoiseInv, TypesInv, Cipher!BlameIsRight
    <3> QED
      BY <2>4, <3>1 DEF FaultlessInv
  <2> QED
    BY <2>6, <2>8, <2>9, <2>10 DEF NoiseInv
<1> QED
  BY <1>2, <1>3

LEMMA ClientTimesOutStep ==
  ASSUME NoiseInv, Cipher!ClientTimesOut
  PROVE  NoiseInv'
<1>1. /\ step["client"] \in {"hello", "reply"} /\ Cipher!Fails("HANDSHAKE_TIMEOUT") /\ wire' = wire
      /\ UNCHANGED <<attempt, keys, cipher, faults, rekeys, boxes, sent, received>>
  BY DEF Cipher!ClientTimesOut
<1> QED
  BY <1>1, FailingKeeps

LEMMA DeviceHelloStep ==
  ASSUME NoiseInv, Cipher!DeviceHello
  PROVE  NoiseInv'
<1>0. /\ step["device"] = "hello" /\ wire["device"] # <<>> /\ WireInv
      /\ step' = [step EXCEPT !["device"] = "message"] /\ Cipher!Answer("device", [type |-> "hello"])
      /\ UNCHANGED <<attempt, keys, handshake, cipher, result, faults, rekeys, boxes, sent, received>>
      /\ "client" \in Cipher!Roles /\ "device" \in Cipher!Roles /\ Cipher!Peer("device") = "client"
      /\ cipher["device"] = Cipher!NoPair
      /\ step'["device"] = "message" /\ step'["client"] = step["client"]
  BY RolesAre DEF Cipher!DeviceHello, NoiseInv, TypesInv, PairsInv
<1>1. Calm
  BY <1>0, RolesAre DEF Calm
<1>2. /\ PairsInv' /\ BoxesInv' /\ SealedInv' /\ ReceivedInv'
      /\ \A r \in Cipher!Roles : Sealed(r)' = Sealed(r)
  BY <1>1, CalmStep DEF NoiseInv
<1>3. [type |-> "hello"] \in FramesTo("client")'
  BY <1>0 DEF FramesTo
<1>4. WireInv'
  BY <1>0, <1>2, <1>3, FramesGrow, AnsweringKeeps
<1>5. TypesInv'
  BY <1>0, <1>4 DEF NoiseInv, TypesInv
<1>6. HandshakesInv'
  BY <1>0 DEF NoiseInv, HandshakesInv, Cipher!SecretsAreWiped
<1>7. FaultlessInv'
  <2>1. Cipher!BlameIsRight'
    BY <1>0 DEF NoiseInv, FaultlessInv, Cipher!BlameIsRight
  <2>2. ASSUME faults = 0, step["client"] = "hello"
        PROVE  wire'["device"] = <<>> /\ wire'["client"] = <<[type |-> "hello"]>>
    <3>1. wire["device"] = <<[type |-> "start"]>> /\ wire["client"] = <<>>
      BY <1>0, <2>2 DEF NoiseInv, FaultlessInv
    <3>2. /\ wire'["device"] = Tail(wire["device"])
          /\ wire'["client"] = Append(wire["client"], [type |-> "hello"])
      BY <1>0 DEF Cipher!Answer, WireInv
    <3> QED
      BY <3>1, <3>2
  <2>3. ASSUME faults = 0 PROVE step["client"] # "reply"
    BY <1>0, <2>3 DEF NoiseInv, FaultlessInv
  <2> QED
    BY <1>0, <2>1, <2>2, <2>3 DEF FaultlessInv
<1> QED
  BY <1>2, <1>5, <1>6, <1>7 DEF NoiseInv

LEMMA DeviceMessageStep ==
  ASSUME NoiseInv, Cipher!DeviceMessage
  PROVE  NoiseInv'
<1> DEFINE frame == Head(wire["device"])
           hs == handshake["device"]
           read_ == IF frame.type = "message" THEN Cipher!ReadMessage(hs, frame.message)
                    ELSE [hs EXCEPT !.error = "TRUNCATED_E"]
           next == IF read_.error # None THEN read_ ELSE Cipher!WriteMessage(read_)
<1>0. /\ step["device"] = "message" /\ wire["device"] # <<>> /\ DOMAIN handshake = Cipher!Roles
      /\ UNCHANGED <<attempt, keys, result, faults, rekeys, sent, received>>
      /\ IsFresh(hs, "device", keys.device, attempt) /\ WireInv
      /\ "client" \in Cipher!Roles /\ "device" \in Cipher!Roles /\ Cipher!Peer("device") = "client"
      /\ frame \in FramesTo("device") /\ keys.device \in {"key", "other"}
      /\ cipher["device"] = Cipher!NoPair /\ DOMAIN cipher = Cipher!Roles
  BY RolesAre, HeadOf DEF Cipher!DeviceMessage, NoiseInv, HandshakesInv, TypesInv, PairsInv
<1>1. ASSUME read_.error = None
      PROVE  keys.device = "key" /\ Ended(next, "device", attempt) /\ Cipher!Written(next) = Second(attempt)
  <2>1. frame.type = "message"
    <3>1. DOMAIN hs = Fields
      BY <1>0 DEF IsFresh, Stands
    <3>2. [hs EXCEPT !.error = "TRUNCATED_E"].error = "TRUNCATED_E"
      BY <3>1 DEF Fields
    <3> QED
      BY <1>1, <3>2, NoiseAssumption
  <2>2. frame \in FirstMessages
    BY <1>0, <2>1, MessageTo
  <2>3. PICK m \in [e : {ClientKey(attempt)} \cup BadKeys, box : {Box1("key", ClientKey(attempt))} \cup Broken] : frame = Message(m)
    BY <2>2 DEF FirstMessages
  <2>4. \A x : Message(x).message = x
    BY DEF Message
  <2> HIDE DEF frame
  <2>5. read_ = Cipher!ReadMessage(hs, m)
    BY <2>1, <2>3, <2>4
  <2> HIDE DEF hs, read_
  <2>6. m = First(attempt) /\ keys.device = "key" /\ HasRead(read_, "key", attempt, ClientKey(attempt))
    BY <1>0, <1>1, <2>5, DeviceReads
  <2>7. next = Cipher!WriteMessage(read_)
    BY <1>1
  <2> QED
    BY <2>6, <2>7, WriteSecond
<1>2. ASSUME faults = 0, step["client"] = "reply"
      PROVE  /\ frame = Message(First(attempt)) /\ wire["client"] = <<>>
             /\ keys.device = "key" => read_.error = None
  <2>1. frame = Message(First(attempt)) /\ wire["client"] = <<>>
    BY <1>0, <1>2 DEF NoiseInv, FaultlessInv
  <2>2. frame.type = "message" /\ frame.message = First(attempt)
    BY <2>1 DEF Message
  <2>3. First(attempt) \in [e : {ClientKey(attempt)} \cup BadKeys, box : {Box1("key", ClientKey(attempt))} \cup Broken]
    BY DEF First
  <2> HIDE DEF frame
  <2>4. read_ = Cipher!ReadMessage(hs, First(attempt))
    BY <2>2
  <2> HIDE DEF hs, read_
  <2>5. keys.device = "key" => HasRead(read_, "key", attempt, ClientKey(attempt))
    BY <1>0, <2>3, <2>4, DeviceReads
  <2> QED
    BY <2>1, <2>5 DEF HasRead, Stands
<1>3. ASSUME faults = 0 PROVE step["client"] # "hello"
  BY <1>0, <1>3 DEF NoiseInv, FaultlessInv
<1>4. ASSUME next.error # None PROVE NoiseInv'
  <2>1. read_.error # None
    BY <1>1, <1>4 DEF Ended
  <2>2. /\ Cipher!Answer("device", Refusal)
        /\ step' = [step EXCEPT !["device"] = "failed"]
        /\ handshake' = [handshake EXCEPT !["device"] = Cipher!Destroy(next)]
        /\ UNCHANGED <<cipher, boxes>>
    BY <1>4 DEF Cipher!DeviceMessage, Refusal
  <2> HIDE DEF next, read_, hs
  <2>3. /\ step'["device"] = "failed" /\ step'["client"] = step["client"]
        /\ handshake'["client"] = handshake["client"] /\ DOMAIN handshake' = Cipher!Roles
    BY <1>0, <2>2 DEF NoiseInv, TypesInv
  <2>4. Calm
    BY <1>0, <2>2, <2>3, RolesAre DEF Calm
  <2>5. /\ PairsInv' /\ BoxesInv' /\ SealedInv' /\ ReceivedInv'
        /\ \A r \in Cipher!Roles : Sealed(r)' = Sealed(r)
    BY <2>4, CalmStep DEF NoiseInv
  <2>6. Refusal \in FramesTo("client")'
    BY <1>0 DEF FramesTo
  <2>7. WireInv'
    BY <1>0, <2>2, <2>5, <2>6, FramesGrow, AnsweringKeeps
  <2>8. TypesInv'
    BY <1>0, <2>2, <2>3, <2>7 DEF NoiseInv, TypesInv
  <2>9. HandshakesInv'
    BY <1>0, <2>2, <2>3 DEF NoiseInv, HandshakesInv, Cipher!SecretsAreWiped
  <2>10. FaultlessInv'
    <3>1. Cipher!BlameIsRight'
      BY <1>0 DEF NoiseInv, FaultlessInv, Cipher!BlameIsRight
    <3>2. ASSUME faults = 0, step["client"] = "reply"
          PROVE  wire'["client"] # <<>> /\ Head(wire'["client"]) = Refusal /\ keys.device # "key"
      <4>1. wire'["client"] = Append(wire["client"], Refusal)
        BY <1>0, <2>2 DEF Cipher!Answer, WireInv
      <4>2. wire["client"] = <<>>
        BY <1>2, <3>2
      <4>3. Append(<<>>, Refusal) = <<Refusal>>
        OBVIOUS
      <4> QED
        BY <1>2, <2>1, <3>2, <4>1, <4>2, <4>3
    <3> QED
      BY <1>0, <1>3, <2>3, <3>1, <3>2 DEF FaultlessInv
  <2> QED
    BY <2>5, <2>8, <2>9, <2>10 DEF NoiseInv
<1>5. ASSUME next.error = None PROVE NoiseInv'
  <2>0. read_.error = None
    BY <1>5
  <2>1. keys.device = "key" /\ Ended(next, "device", attempt) /\ Cipher!Written(next) = Second(attempt)
    BY <1>1, <2>0
  <2>2. Cipher!Newest(next.h) = Box2(attempt) /\ next.pair = PairOf("device", attempt)
    <3>1. next.h = <<Hash4(attempt), Box2(attempt)>> /\ next.pair = PairOf("device", attempt)
      BY <2>1 DEF Ended
    <3> HIDE DEF next
    <3> QED
      BY <3>1 DEF Cipher!Newest
  <2>3. /\ Cipher!Answer("device", Message(Second(attempt)))
        /\ step' = [step EXCEPT !["device"] = "data"]
        /\ cipher' = [cipher EXCEPT !["device"] = next.pair]
        /\ handshake' = [handshake EXCEPT !["device"] = Cipher!DestroyHandshakeSecrets(next)]
        /\ boxes' = boxes \cup {Box2(attempt)}
    BY <1>5, <2>1, <2>2 DEF Cipher!DeviceMessage, Cipher!Seals, Message
  <2> HIDE DEF next, read_, hs
  <2>4. /\ step'["device"] = "data" /\ step'["client"] = step["client"]
        /\ handshake'["client"] = handshake["client"] /\ DOMAIN handshake' = Cipher!Roles
        /\ cipher'["device"] = PairOf("device", attempt) /\ cipher'["client"] = cipher["client"]
        /\ DOMAIN cipher' = Cipher!Roles
    BY <1>0, <2>2, <2>3 DEF NoiseInv, TypesInv
  <2>5. Calm
    BY <1>0, <2>1, <2>3, <2>4, RolesAre DEF Calm
  <2>6. /\ PairsInv' /\ BoxesInv' /\ SealedInv' /\ ReceivedInv'
        /\ \A r \in Cipher!Roles : Sealed(r)' = Sealed(r)
    BY <2>5, CalmStep DEF NoiseInv
  <2>7. Message(Second(attempt)) \in FramesTo("client")'
    <3>1. Second(attempt) \in [e : {DeviceKey(attempt)} \cup BadKeys, box : {Box2(attempt)} \cup Broken]
      BY DEF Second
    <3> QED
      BY <1>0, <2>1, <3>1 DEF FramesTo, SecondMessages
  <2>8. WireInv'
    BY <1>0, <2>3, <2>6, <2>7, FramesGrow, AnsweringKeeps
  <2>9. TypesInv'
    BY <1>0, <2>3, <2>4, <2>8 DEF NoiseInv, TypesInv
  <2>10. HandshakesInv'
    BY <1>0, <2>3, <2>4 DEF NoiseInv, HandshakesInv, Cipher!SecretsAreWiped
  <2>11. FaultlessInv'
    <3>1. Cipher!BlameIsRight'
      BY <1>0 DEF NoiseInv, FaultlessInv, Cipher!BlameIsRight
    <3>2. ASSUME faults = 0, step["client"] = "reply"
          PROVE  wire'["client"] # <<>> /\ Head(wire'["client"]) = Message(Second(attempt))
      <4> DEFINE f == Message(Second(attempt))
      <4>1. wire'["client"] = Append(wire["client"], f)
        BY <1>0, <2>3 DEF Cipher!Answer, WireInv
      <4>2. wire["client"] = <<>>
        BY <1>2, <3>2
      <4> HIDE DEF f
      <4>3. Append(<<>>, f) = <<f>>
        OBVIOUS
      <4> QED
        BY <4>1, <4>2, <4>3 DEF f
    <3> QED
      BY <1>0, <1>3, <2>1, <2>4, <3>1, <3>2 DEF FaultlessInv
  <2> QED
    BY <2>6, <2>9, <2>10, <2>11 DEF NoiseInv
<1> QED
  BY <1>4, <1>5

LEMMA NoiseInit ==
  ASSUME Cipher!Init
  PROVE  NoiseInv
<1> USE DEF Cipher!Init
<1>0. \A r \in Cipher!Roles : Sealed(r) = {} /\ wire[r] = <<>> /\ sent[r] = <<>> /\ received[r] = <<>> /\ step[r] = "idle"
  BY DEF Sealed
<1>1. TypesInv
  <2>1. WireInv
    BY DEF WireInv
  <2> QED
    BY <2>1, RolesAre, NoiseAssumption DEF TypesInv
<1>2. HandshakesInv
  BY <1>0, RolesAre DEF HandshakesInv, Cipher!SecretsAreWiped
<1>3. PairsInv
  BY <1>0 DEF PairsInv
<1>4. BoxesInv
  BY DEF BoxesInv, Cipher!NoncesAreFresh
<1>5. SealedInv
  BY <1>0, NoiseAssumption DEF SealedInv
<1>6. ReceivedInv
  BY <1>0 DEF ReceivedInv, ReceivedBy, ReadWasSent, ReadInOrder, UnreadIsLater
<1>7. FaultlessInv
  <2>1. Cipher!BlameIsRight
    BY NoiseAssumption DEF Cipher!BlameIsRight
  <2> QED
    BY <1>0, <2>1, RolesAre DEF FaultlessInv
<1> QED
  BY <1>1, <1>2, <1>3, <1>4, <1>5, <1>6, <1>7 DEF NoiseInv

LEMMA BeginStep ==
  ASSUME NoiseInv, Cipher!Begin
  PROVE  NoiseInv'
<1>0. /\ attempt' = attempt + 1 /\ attempt \in Nat /\ attempt' \in 0..MaxAttempts
      /\ handshake' = [r \in Cipher!Roles |->
                         [Cipher!NewHandshake(r, keys[r]) EXCEPT !.own = <<r, attempt + 1>>]]
      /\ step' = [client |-> "hello", device |-> "hello"]
      /\ cipher' = [r \in Cipher!Roles |-> Cipher!NoPair]
      /\ wire' = [client |-> <<>>, device |-> <<[type |-> "start"]>>]
      /\ result' = None
      /\ sent' = [r \in Cipher!Roles |-> <<>>] /\ received' = [r \in Cipher!Roles |-> <<>>]
      /\ UNCHANGED <<keys, faults, rekeys, boxes>>
  BY NoiseAssumption DEF Cipher!Begin, NoiseInv, TypesInv
<1>1. BoxesInv'
  <2>1. SessionKeys \subseteq SessionKeys'
    BY <1>0 DEF SessionKeys
  <2>2. DataBoxes \subseteq DataBoxes' /\ RekeyBoxes \subseteq RekeyBoxes'
    BY <2>1 DEF DataBoxes, RekeyBoxes
  <2>3. HandshakeBoxes \subseteq HandshakeBoxes'
    BY <1>0 DEF HandshakeBoxes
  <2> QED
    BY <1>0, <2>2, <2>3 DEF NoiseInv, BoxesInv, Cipher!NoncesAreFresh
<1>2. ASSUME NEW r \in Cipher!Roles PROVE Sealed(r)' = {}
  <2>1. ASSUME NEW b \in boxes, b.k[1] = Way(r), b.k[2] = Chain4("key", attempt + 1) PROVE FALSE
    <3>1. b \notin HandshakeBoxes
      BY <2>1, HandshakeBoxesDiffer DEF Way
    <3>2. b.k \in SessionKeys
      BY <3>1 DEF NoiseInv, BoxesInv, DataBoxes, RekeyBoxes
    <3>3. PICK a \in 0..attempt : b.k[2] = Chain4("key", a)
      BY <3>2 DEF SessionKeys
    <3>4. ClientKey(a) = ClientKey(attempt + 1)
      BY <2>1, <3>3 DEF Chain4, Chain2
    <3> QED
      BY <1>0, <3>4 DEF ClientKey
  <2> QED
    BY <1>0, <2>1 DEF Sealed
<1>3. WireInv'
  <2>1. [type |-> "start"] \in FramesTo("device")'
    BY DEF FramesTo
  <2>2. <<>> \in Seq(FramesTo("client")') /\ <<[type |-> "start"]>> \in Seq(FramesTo("device")')
    BY <2>1
  <2> QED
    BY <1>0, <2>2, RolesAre DEF WireInv
<1>4. TypesInv'
  <2>1. step'["client"] = "hello" /\ step'["device"] = "hello" /\ DOMAIN step' = Cipher!Roles
        /\ step' \in [Cipher!Roles -> {"idle", "hello", "message", "reply", "data", "failed"}]
    BY <1>0, RolesAre
  <2> QED
    BY <1>0, <1>3, <2>1 DEF NoiseInv, TypesInv
<1>5. HandshakesInv'
  <2>1. /\ IsFresh(handshake'["client"], "client", "key", attempt')
        /\ IsFresh(handshake'["device"], "device", keys.device, attempt')
    <3>1. keys["client"] = "key" /\ keys["device"] = keys.device
      BY DEF NoiseInv, TypesInv
    <3> QED
      BY <1>0, <3>1, NewIsFresh, RolesAre
  <2> QED
    BY <1>0, <2>1 DEF HandshakesInv, Cipher!SecretsAreWiped
<1>6. PairsInv'
  BY <1>0, RolesAre DEF PairsInv
<1>7. SealedInv'
  BY <1>0, <1>2, RolesAre, NoiseAssumption DEF SealedInv
<1>8. ReceivedInv'
  BY <1>0, RolesAre DEF ReceivedInv, ReceivedBy, ReadWasSent, ReadInOrder, UnreadIsLater
<1>9. FaultlessInv'
  <2>1. Cipher!BlameIsRight'
    BY <1>0, NoiseAssumption DEF Cipher!BlameIsRight
  <2> QED
    BY <1>0, <2>1 DEF FaultlessInv
<1> QED
  BY <1>1, <1>4, <1>5, <1>6, <1>7, <1>8, <1>9 DEF NoiseInv

LEMMA DisposeStep ==
  ASSUME NoiseInv, Cipher!Dispose
  PROVE  NoiseInv'
<1>0. /\ step["client"] = "data" /\ step' = [step EXCEPT !["client"] = "failed"]
      /\ cipher' = [cipher EXCEPT !["client"] = Cipher!NoPair]
      /\ UNCHANGED <<attempt, keys, handshake, wire, result, faults, rekeys, boxes, sent, received>>
      /\ step'["client"] = "failed" /\ step'["device"] = step["device"]
      /\ cipher'["client"] = Cipher!NoPair /\ cipher'["device"] = cipher["device"]
      /\ DOMAIN cipher' = Cipher!Roles /\ WireInv
  BY RolesAre DEF Cipher!Dispose, NoiseInv, TypesInv
<1>1. Calm
  BY <1>0, RolesAre DEF Calm
<1>2. /\ PairsInv' /\ BoxesInv' /\ SealedInv' /\ ReceivedInv'
      /\ \A r \in Cipher!Roles : Sealed(r)' = Sealed(r)
  BY <1>1, CalmStep DEF NoiseInv
<1>3. WireInv'
  BY <1>0, <1>2, FramesGrow, WireStays
<1>4. TypesInv'
  BY <1>0, <1>3 DEF NoiseInv, TypesInv
<1>5. HandshakesInv'
  BY <1>0 DEF NoiseInv, HandshakesInv, Cipher!SecretsAreWiped
<1>6. FaultlessInv'
  BY <1>0 DEF NoiseInv, FaultlessInv, Cipher!BlameIsRight
<1> QED
  BY <1>2, <1>4, <1>5, <1>6 DEF NoiseInv

-----------------------------------------------------------------------------
(* The session's steps keep the invariant. *)

LEMMA SealedAreData ==
  ASSUME BoxesInv, NEW r \in Cipher!Roles, NEW b \in Sealed(r)
  PROVE  b \in DataBoxes /\ b.k[3] \in Nat /\ b.n \in Nat /\ b.n < MaxNonce /\ b.body \in Nat /\ b.ad = <<>>
<1>1. b \in boxes /\ b.k[1] = Way(r) /\ b.n < MaxNonce
  BY DEF Sealed
<1>2. b \notin HandshakeBoxes
  BY <1>1, HandshakeBoxesDiffer DEF Way
<1>3. b \notin RekeyBoxes
  BY <1>1, NoiseAssumption DEF RekeyBoxes
<1>4. b \in DataBoxes
  BY <1>1, <1>2, <1>3 DEF BoxesInv
<1>5. b.k \in SessionKeys /\ b.n \in 0..MaxNonce - 1 /\ b.ad = <<>> /\ b.body \in Nat
  BY <1>4 DEF DataBoxes
<1>6. b.k[3] \in Nat
  BY <1>5 DEF SessionKeys
<1> QED
  BY <1>1, <1>4, <1>5, <1>6

\* A side that is in the session has both ciphers, with keys of this attempt.
LEMMA PairOfSession ==
  ASSUME PairsInv, NEW r \in Cipher!Roles, step[r] = "data"
  PROVE  /\ cipher[r] \in [send : CiphersOf(Way(r)), receive : CiphersOf(Way(Cipher!Peer(r)))]
         /\ cipher[r].send \in CiphersOf(Way(r)) /\ cipher[r].receive \in CiphersOf(Way(Cipher!Peer(r)))
         /\ keys.device = "key"
BY DEF PairsInv

LEMMA CipherIs ==
  ASSUME NEW w, NEW c \in CiphersOf(w)
  PROVE  /\ c = [k |-> c.k, n |-> c.n] /\ c.k \in KeysOf(w) /\ c.n \in Nat
         /\ c.k[1] = w /\ c.k[2] = Chain4("key", attempt) /\ c.k[3] \in Nat /\ c.k # Cipher!NoKey
         /\ c.k = <<w, Chain4("key", attempt), c.k[3]>>
         /\ Cipher!Used(c) = [k |-> c.k, n |-> c.n + 1] /\ Cipher!Used(c) \in CiphersOf(w)
<1>1. c = [k |-> c.k, n |-> c.n] /\ c.k \in KeysOf(w) /\ c.n \in Nat
  BY DEF CiphersOf
<1>2. /\ c.k[1] = w /\ c.k[2] = Chain4("key", attempt) /\ c.k[3] \in Nat
      /\ c.k = <<w, Chain4("key", attempt), c.k[3]>>
  BY <1>1 DEF KeysOf
<1>3. c.k # Cipher!NoKey
  BY <1>2 DEF Cipher!NoKey
<1>4. Cipher!Used(c) = [k |-> c.k, n |-> c.n + 1]
  BY <1>1, <1>3 DEF Cipher!Used
<1>5. [k |-> c.k, n |-> c.n + 1] \in CiphersOf(w)
  BY <1>1 DEF CiphersOf
<1> QED
  BY <1>1, <1>2, <1>3, <1>4, <1>5

LEMMA KeysOfSession ==
  ASSUME attempt \in Nat, NEW r \in Cipher!Roles
  PROVE  KeysOf(Way(r)) \subseteq SessionKeys
<1>1. Chain4("key", attempt) \in {Chain4("key", a) : a \in 0..attempt}
  <2>1. attempt \in 0..attempt
    OBVIOUS
  <2> QED
    BY <2>1
<1> QED
  BY <1>1 DEF KeysOf, SessionKeys, Way

\* A step of one side within the session leaves the handshakes as they were.
LEMMA SessionKeepsHandshakes ==
  ASSUME NoiseInv, NEW r \in Cipher!Roles, step[r] = "data", UNCHANGED <<attempt, keys, step, handshake>>,
         \A q \in Cipher!Roles \ {r} : cipher'[q] = cipher[q]
  PROVE  HandshakesInv'
<1>1. step["client"] = "failed" => cipher'["client"] = cipher["client"]
  BY RolesAre
<1> QED
  BY <1>1 DEF NoiseInv, HandshakesInv, Cipher!SecretsAreWiped

LEMMA SendDataStep ==
  ASSUME NoiseInv, NEW r \in Cipher!Roles, Cipher!SendData(r)
  PROVE  NoiseInv'
<1> DEFINE c == cipher[r].send
           q == Cipher!Peer(r)
           body == Len(sent[r]) + 1
           box == [k |-> c.k, n |-> c.n, ad |-> <<>>, body |-> body]
           f == [type |-> "data", box |-> box]
<1>0. /\ q \in Cipher!Roles /\ q # r /\ Cipher!Peer(q) = r /\ \A p \in Cipher!Roles : p = r \/ p = q
      /\ Way(r) # Way(q) /\ attempt \in Nat /\ WireInv /\ Len(sent[r]) \in Nat
  BY RolesAre DEF NoiseInv, TypesInv
<1>1. /\ step[r] = "data" /\ ~Cipher!Exhausted(c) /\ body <= MaxSends
      /\ UNCHANGED <<attempt, keys, step, handshake, result, faults, rekeys, received>>
      /\ cipher' = [cipher EXCEPT ![r].send = Cipher!Used(@)]
      /\ sent' = [sent EXCEPT ![r] = Append(@, body)]
  BY DEF Cipher!SendData
<1>2. c \in CiphersOf(Way(r)) /\ cipher[r] \in [send : CiphersOf(Way(r)), receive : CiphersOf(Way(q))]
  BY <1>1, PairOfSession DEF NoiseInv
<1>3. /\ c.k \in KeysOf(Way(r)) /\ c.n \in Nat /\ c.k # Cipher!NoKey
      /\ c.k[1] = Way(r) /\ c.k[2] = Chain4("key", attempt) /\ c.k[3] \in Nat
      /\ c.k = <<Way(r), Chain4("key", attempt), c.k[3]>>
      /\ Cipher!Used(c) = [k |-> c.k, n |-> c.n + 1] /\ Cipher!Used(c) \in CiphersOf(Way(r))
  BY <1>2, CipherIs
<1>4. c.n < MaxNonce
  BY <1>1, <1>3, NoiseAssumption DEF Cipher!Exhausted
<1>5. Cipher!Seal(c, <<>>, body) = box
  BY <1>3 DEF Cipher!Seal
<1>6. boxes' = boxes \cup {box} /\ Cipher!Send(r, f)
  BY <1>1, <1>5 DEF Cipher!SendData, Cipher!Seals
<1>7. box.k = c.k /\ box.n = c.n /\ box.body = body /\ box.ad = <<>> /\ f.type = "data"
  OBVIOUS
<1>8. /\ cipher'[q] = cipher[q] /\ cipher'[r].send = Cipher!Used(c) /\ cipher'[r].receive = cipher[r].receive
      /\ cipher'[r] = [send |-> Cipher!Used(c), receive |-> cipher[r].receive] /\ DOMAIN cipher' = Cipher!Roles
  BY <1>0, <1>1, <1>2 DEF NoiseInv, TypesInv
<1>9. sent'[q] = sent[q] /\ sent'[r] = Append(sent[r], body) /\ sent' \in [Cipher!Roles -> Seq(Nat)]
  BY <1>0, <1>1 DEF NoiseInv, TypesInv
<1>10. /\ Len(sent'[r]) = body /\ sent'[r][body] = body
       /\ \A i \in 1..Len(sent[r]) : sent'[r][i] = sent[r][i]
  <2>1. sent[r] \in Seq(Nat)
    BY DEF NoiseInv, TypesInv
  <2> QED
    BY <1>9, <2>1
<1> HIDE DEF box, f
<1>11. Sealed(r)' = Sealed(r) \cup {box}
  BY <1>1, <1>3, <1>4, <1>6, <1>7 DEF Sealed
<1>12. Sealed(q)' = Sealed(q)
  BY <1>0, <1>1, <1>3, <1>6, <1>7 DEF Sealed
<1>13. \A b \in Sealed(r) : /\ b.k[3] \in Nat /\ b.n \in Nat /\ Before(b, c) /\ ~Before(c, b)
                            /\ b.body \in 1..Len(sent[r])
                            /\ Before(b, box) /\ ~Before(box, b) /\ Before(b, Cipher!Used(c))
  <2> SUFFICES ASSUME NEW b \in Sealed(r)
               PROVE  /\ b.k[3] \in Nat /\ b.n \in Nat /\ Before(b, c) /\ ~Before(c, b)
                      /\ b.body \in 1..Len(sent[r])
                      /\ Before(b, box) /\ ~Before(box, b) /\ Before(b, Cipher!Used(c))
    OBVIOUS
  <2>1. b.k[3] \in Nat /\ b.n \in Nat
    BY SealedAreData DEF NoiseInv
  <2>2. Before(b, c) /\ b.body \in 1..Len(sent[r])
    BY <1>1 DEF NoiseInv, SealedInv
  <2> QED
    BY <1>3, <1>7, <2>1, <2>2 DEF Before
<1>14. PairsInv'
  <2>1. \A w : CiphersOf(w)' = CiphersOf(w)
    BY <1>1 DEF CiphersOf, KeysOf
  <2>2. /\ cipher'[r] \in [send : CiphersOf(Way(r)), receive : CiphersOf(Way(q))]
        /\ rekeys = 0 => /\ cipher'[r].send.k[3] = 0 /\ cipher'[r].send.n = Len(sent'[r])
                         /\ cipher'[r].receive.k[3] = 0 /\ cipher'[r].receive.n = Len(received[r])
    BY <1>1, <1>2, <1>3, <1>8, <1>10 DEF NoiseInv, PairsInv
  <2> QED
    BY <1>0, <1>1, <1>8, <1>9, <2>1, <2>2 DEF NoiseInv, PairsInv
<1>15. BoxesInv'
  <2>1. box \in DataBoxes
    <3>1. c.k \in SessionKeys
      BY <1>0, <1>3, KeysOfSession
    <3> QED
      <4>1. c.n \in 0..MaxNonce - 1 /\ body \in Nat
        <5>1. Len(sent[r]) \in Nat
          BY DEF NoiseInv, TypesInv
        <5>2. c.n \in Nat /\ c.n < MaxNonce
          BY <1>3, <1>4
        <5>3. body = Len(sent[r]) + 1
          OBVIOUS
        <5> HIDE DEF c, body
        <5>4. c.n \in 0..MaxNonce - 1
          BY <5>2, NoiseAssumption
        <5> QED
          BY <5>1, <5>3, <5>4
      <4> QED
        BY <3>1, <4>1 DEF box, DataBoxes
  <2>2. ASSUME NEW x \in boxes, x.k = box.k, x.n = box.n PROVE FALSE
    <3>1. x \in Sealed(r)
      BY <1>3, <1>4, <1>7, <2>2 DEF Sealed
    <3>2. Before(x, c)
      BY <1>13, <3>1
    <3> QED
      BY <1>3, <1>7, <2>2, <3>2 DEF Before
  <2>3. HandshakeBoxes' = HandshakeBoxes /\ DataBoxes' = DataBoxes /\ RekeyBoxes' = RekeyBoxes
    BY <1>1 DEF HandshakeBoxes, DataBoxes, RekeyBoxes, SessionKeys
  <2> QED
    BY <1>6, <2>1, <2>2, <2>3 DEF NoiseInv, BoxesInv, Cipher!NoncesAreFresh
<1>16. SealedInv'
  <2>1. /\ step'[r] = "data" /\ Len(sent'[r]) <= MaxSends /\ \A i \in 1..Len(sent'[r]) : sent'[r][i] = i
    BY <1>0, <1>1, <1>10 DEF NoiseInv, SealedInv
  <2>2. ASSUME NEW b \in Sealed(r)'
        PROVE  /\ b.body \in 1..Len(sent'[r]) /\ Before(b, cipher'[r].send)
               /\ rekeys = 0 => b.k[3] = 0 /\ b.body = b.n + 1
    <3>1. CASE b \in Sealed(r)
      BY <1>0, <1>8, <1>10, <1>13, <3>1 DEF NoiseInv, SealedInv
    <3>2. CASE b = box
      <4>1. Before(box, Cipher!Used(c))
        BY <1>3, <1>7 DEF Before
      <4>2. rekeys = 0 => c.k[3] = 0 /\ c.n = Len(sent[r])
        BY <1>1 DEF NoiseInv, PairsInv
      <4> QED
        BY <1>0, <1>7, <1>8, <1>10, <3>2, <4>1, <4>2
    <3> QED
      BY <1>11, <3>1, <3>2
  <2>3. ASSUME NEW b \in Sealed(r)', NEW d \in Sealed(r)', Before(b, d) PROVE b.body < d.body
    <3>1. CASE b \in Sealed(r) /\ d \in Sealed(r)
      BY <2>3, <3>1 DEF NoiseInv, SealedInv
    <3>2. CASE b \in Sealed(r) /\ d = box
      BY <1>0, <1>7, <1>13, <3>2
    <3>3. CASE b = box
      <4>1. ~Before(box, box)
        BY <1>3, <1>7 DEF Before
      <4> QED
        BY <1>11, <1>13, <2>3, <3>3, <4>1
    <3> QED
      BY <1>11, <3>1, <3>2, <3>3
  <2> QED
    BY <1>0, <1>1, <1>8, <1>9, <1>12, <2>1, <2>2, <2>3 DEF NoiseInv, SealedInv
<1>17. ReceivedInv'
  <2>1. ASSUME NEW i \in 1..Len(received[q])
        PROVE  received[q][i] \in 1..Len(sent[r]) /\ received[q][i] \in 1..Len(sent'[r]) /\ received[q][i] < box.body
    <3>1. received[q][i] \in 1..Len(sent[r])
      BY <1>0 DEF NoiseInv, ReceivedInv, ReceivedBy, ReadWasSent, ReadInOrder, UnreadIsLater
    <3> QED
      BY <1>0, <1>7, <1>10, <3>1
  <2> QED
    <3>1. ReceivedBy(r)'
      BY <1>0, <1>1, <1>8, <1>9, <1>12
      DEF NoiseInv, ReceivedInv, ReceivedBy, ReadWasSent, ReadInOrder, UnreadIsLater
    <3>2. ReceivedBy(q)'
      BY <1>0, <1>1, <1>8, <1>9, <1>11, <2>1
      DEF NoiseInv, ReceivedInv, ReceivedBy, ReadWasSent, ReadInOrder, UnreadIsLater
    <3> QED
      BY <1>0, <3>1, <3>2 DEF ReceivedInv
<1>18. WireInv'
  <2>1. \A p \in Cipher!Roles : Sealed(p) \subseteq Sealed(p)'
    BY <1>0, <1>11, <1>12
  <2>2. f \in FramesTo(q)'
    BY <1>0, <1>11 DEF f, FramesTo, DataFrames
  <2> QED
    BY <1>0, <1>1, <1>6, <2>1, <2>2, FramesGrow, SendingKeeps
<1>19. TypesInv'
  BY <1>1, <1>8, <1>9, <1>18 DEF NoiseInv, TypesInv
<1>20. HandshakesInv'
  BY <1>0, <1>1, <1>8, SessionKeepsHandshakes
<1>21. FaultlessInv'
  <2>1. Cipher!BlameIsRight'
    BY <1>1 DEF NoiseInv, FaultlessInv, Cipher!BlameIsRight
  <2>2. ASSUME faults = 0 PROVE step["client"] # "hello"
    BY <1>0, <1>1, <2>2, RolesAre DEF NoiseInv, FaultlessInv
  <2>3. ASSUME faults = 0, step["client"] = "reply"
        PROVE  /\ step["device"] \in {"data", "failed"} /\ wire'["client"] # <<>>
               /\ Head(wire'["client"]) = IF keys.device = "key" THEN Message(Second(attempt)) ELSE Refusal
    <3>1. r = "device" /\ q = "client"
      BY <1>0, <1>1, <2>3, RolesAre
    <3>2. /\ wire["client"] # <<>>
          /\ Head(wire["client"]) = IF keys.device = "key" THEN Message(Second(attempt)) ELSE Refusal
      BY <1>1, <2>3, <3>1 DEF NoiseInv, FaultlessInv
    <3>3. wire'["client"] = Append(wire["client"], f) /\ wire["client"] \in Seq(FramesTo("client"))
      BY <1>0, <1>6, <3>1 DEF Cipher!Send, WireInv
    <3>4. wire'["client"] # <<>> /\ Head(wire'["client"]) = Head(wire["client"])
      BY <3>2, <3>3
    <3> QED
      BY <1>1, <2>3, <3>1, <3>2, <3>4
  <2> QED
    BY <1>1, <2>1, <2>2, <2>3 DEF FaultlessInv
<1> QED
  BY <1>14, <1>15, <1>16, <1>17, <1>19, <1>20, <1>21 DEF NoiseInv

LEMMA ReceiveDataStep ==
  ASSUME NoiseInv, NEW r \in Cipher!Roles, Cipher!ReceiveData(r)
  PROVE  NoiseInv'
<1> DEFINE c == cipher[r].receive
           q == Cipher!Peer(r)
           frame == Head(wire[r])
           box == frame.box
           error == IF frame.type = "data" THEN Cipher!OpenError(c, <<>>, box) ELSE "AUTH_FAILED"
           got == received[r]
<1>0. /\ q \in Cipher!Roles /\ q # r /\ Cipher!Peer(q) = r /\ \A p \in Cipher!Roles : p = r \/ p = q
      /\ attempt \in Nat /\ WireInv /\ Len(got) \in Nat /\ Len(sent[q]) \in Nat
      /\ step \in [Cipher!Roles -> {"idle", "hello", "message", "reply", "data", "failed"}]
      /\ DOMAIN cipher = Cipher!Roles
  BY RolesAre DEF NoiseInv, TypesInv
<1>1. /\ step[r] = "data" /\ wire[r] # <<>> /\ Cipher!Take(r)
      /\ UNCHANGED <<attempt, keys, handshake, result, faults, rekeys, boxes, sent>>
  BY DEF Cipher!ReceiveData
<1>2. /\ cipher[r] \in [send : CiphersOf(Way(r)), receive : CiphersOf(Way(q))]
      /\ c \in CiphersOf(Way(q))
  BY <1>1, PairOfSession DEF NoiseInv
<1>3. /\ c.n \in Nat /\ c.k # Cipher!NoKey /\ c.k[3] \in Nat
      /\ c.k = <<Way(q), Chain4("key", attempt), c.k[3]>>
      /\ Cipher!Used(c) = [k |-> c.k, n |-> c.n + 1] /\ Cipher!Used(c) \in CiphersOf(Way(q))
  BY <1>2, CipherIs
<1>4. ASSUME faults = 0 PROVE step["client"] # "hello"
  BY <1>0, <1>1, <1>4, RolesAre DEF NoiseInv, FaultlessInv
<1>5. ASSUME faults = 0, step["client"] = "reply"
      PROVE  /\ r = "device" /\ wire'["client"] # <<>>
             /\ Head(wire'["client"]) = IF keys.device = "key" THEN Message(Second(attempt)) ELSE Refusal
  <2>1. r = "device" /\ q = "client"
    BY <1>0, <1>1, <1>5, RolesAre
  <2>2. wire'["client"] = wire["client"]
    BY <1>0, <1>1, <2>1 DEF Cipher!Take, WireInv
  <2>3. /\ wire["client"] # <<>>
        /\ Head(wire["client"]) = IF keys.device = "key" THEN Message(Second(attempt)) ELSE Refusal
    BY <1>1, <1>5, <2>1 DEF NoiseInv, FaultlessInv
  <2> QED
    BY <2>1, <2>2, <2>3
<1>6. Cipher!BlameIsRight'
  BY <1>1 DEF NoiseInv, FaultlessInv, Cipher!BlameIsRight
<1>7. ASSUME error # None PROVE NoiseInv'
  <2>1. /\ step' = [step EXCEPT ![r] = "failed"] /\ cipher' = [cipher EXCEPT ![r] = Cipher!NoPair]
        /\ received' = received
    BY <1>7 DEF Cipher!ReceiveData
  <2> HIDE DEF error, frame, box
  <2>2. /\ step'[r] = "failed" /\ step'[q] = step[q] /\ cipher'[r] = Cipher!NoPair /\ cipher'[q] = cipher[q]
        /\ DOMAIN cipher' = Cipher!Roles
    BY <1>0, <2>1
  <2>3. Calm
    BY <1>0, <1>1, <2>1, <2>2 DEF Calm
  <2>4. /\ PairsInv' /\ BoxesInv' /\ SealedInv' /\ ReceivedInv'
        /\ \A p \in Cipher!Roles : Sealed(p)' = Sealed(p)
    BY <2>3, CalmStep DEF NoiseInv
  <2>5. WireInv'
    BY <1>0, <1>1, <2>4, FramesGrow, TakingKeeps
  <2>6. TypesInv'
    <3>1. step' \in [Cipher!Roles -> {"idle", "hello", "message", "reply", "data", "failed"}]
          /\ step'["client"] # "message" /\ step'["device"] # "reply"
      BY <1>0, <2>1, RolesAre DEF NoiseInv, TypesInv
    <3> QED
      BY <1>1, <2>1, <2>2, <2>5, <3>1 DEF NoiseInv, TypesInv
  <2>7. HandshakesInv'
    <3>1. Cipher!SecretsAreWiped'
      BY <1>0, <1>1, <2>2, RolesAre DEF NoiseInv, HandshakesInv, Cipher!SecretsAreWiped
    <3> QED
      BY <1>0, <1>1, <2>2, <3>1, RolesAre DEF NoiseInv, HandshakesInv
  <2>8. FaultlessInv'
    <3>1. step'["client"] \in {step["client"], "failed"} /\ (r = "device" => step'["device"] = "failed")
      BY <1>0, <2>2, RolesAre
    <3> QED
      BY <1>1, <1>4, <1>5, <1>6, <3>1 DEF FaultlessInv
  <2> QED
    BY <2>4, <2>6, <2>7, <2>8 DEF NoiseInv
<1>8. ASSUME error = None PROVE NoiseInv'
  <2>1. /\ received' = [received EXCEPT ![r] = Append(@, box.body)]
        /\ cipher' = [cipher EXCEPT ![r].receive = Cipher!Used(@)] /\ step' = step
    BY <1>8 DEF Cipher!ReceiveData
  <2>2. frame.type = "data" /\ Cipher!OpenError(c, <<>>, box) = None
    BY <1>8, NoiseAssumption
  <2>3. frame \in FramesTo(r)
    BY <1>0, <1>1, HeadOf
  <2> HIDE DEF error, frame
  <2>4. box.k = c.k /\ box.n = c.n /\ c.n < MaxNonce
    <3>1. /\ ~Cipher!Exhausted(c) /\ ~(box.k # c.k \/ box.n # c.n \/ box.ad # <<>>)
      BY <1>3, <2>2, NoiseAssumption, Zenon DEF Cipher!OpenError
    <3> QED
      BY <1>3, <3>1, NoiseAssumption DEF Cipher!Exhausted
  <2>5. box \in Sealed(q)
    <3>1. box \in Sealed(q) \cup Broken
      BY <2>2, <2>3, DataTo
    <3> HIDE DEF box, c
    <3>2. box \notin Broken
      BY <1>3, <2>4, BrokenHaveNoKey
    <3> QED
      BY <3>1, <3>2
  <2> HIDE DEF box
  <2>6. /\ box.body \in 1..Len(sent[q]) /\ box.body \in Nat
        /\ \A i \in 1..Len(got) : got[i] < box.body
        /\ rekeys = 0 => box.body = Len(got) + 1
    <3>1. box.body \in 1..Len(sent[q]) /\ (rekeys = 0 => box.body = box.n + 1)
      BY <1>0, <2>5 DEF NoiseInv, SealedInv
    <3>2. rekeys = 0 => c.n = Len(got)
      BY <1>1 DEF NoiseInv, PairsInv
    <3>3. ~Before(box, c)
      BY <1>3, <2>4 DEF Before
    <3>4. \A i \in 1..Len(got) : got[i] < box.body
      BY <1>1, <2>5, <3>3
      DEF NoiseInv, ReceivedInv, ReceivedBy, ReadWasSent, ReadInOrder, UnreadIsLater
    <3> QED
      BY <2>4, <3>1, <3>2, <3>4
  <2>7. /\ cipher'[q] = cipher[q] /\ cipher'[r].receive = Cipher!Used(c) /\ cipher'[r].send = cipher[r].send
        /\ cipher'[r] = [send |-> cipher[r].send, receive |-> Cipher!Used(c)] /\ DOMAIN cipher' = Cipher!Roles
    BY <1>0, <1>2, <2>1
  <2>8. /\ received'[q] = received[q] /\ received'[r] = Append(got, box.body)
        /\ received' \in [Cipher!Roles -> Seq(Nat)]
    BY <1>0, <2>1, <2>6 DEF NoiseInv, TypesInv
  <2>9. /\ Len(received'[r]) = Len(got) + 1 /\ received'[r][Len(got) + 1] = box.body
        /\ \A i \in 1..Len(got) : received'[r][i] = got[i]
    <3>1. got \in Seq(Nat)
      BY DEF NoiseInv, TypesInv
    <3> QED
      BY <2>8, <3>1
  <2>10. \A p \in Cipher!Roles : Sealed(p)' = Sealed(p)
    BY <1>1 DEF Sealed
  <2>11. PairsInv'
    <3>1. \A w : CiphersOf(w)' = CiphersOf(w)
      BY <1>1 DEF CiphersOf, KeysOf
    <3>2. /\ cipher'[r] \in [send : CiphersOf(Way(r)), receive : CiphersOf(Way(q))]
          /\ rekeys = 0 => /\ cipher'[r].send.k[3] = 0 /\ cipher'[r].send.n = Len(sent[r])
                           /\ cipher'[r].receive.k[3] = 0 /\ cipher'[r].receive.n = Len(received'[r])
      BY <1>1, <1>2, <1>3, <2>7, <2>9 DEF NoiseInv, PairsInv
    <3> QED
      BY <1>0, <1>1, <2>1, <2>7, <2>8, <3>1, <3>2 DEF NoiseInv, PairsInv
  <2>12. BoxesInv'
    BY <1>1 DEF NoiseInv, BoxesInv, HandshakeBoxes, DataBoxes, RekeyBoxes, SessionKeys, Cipher!NoncesAreFresh
  <2>13. SealedInv'
    <3>1. /\ step[r] = "data" /\ cipher'[r].send = cipher[r].send /\ cipher'[q].send = cipher[q].send
      BY <1>1, <2>7
    <3> QED
      BY <1>0, <1>1, <2>1, <2>8, <2>10, <3>1 DEF NoiseInv, SealedInv
  <2>14. ReceivedInv'
    <3>1. ReceivedBy(q)'
      BY <1>0, <1>1, <2>1, <2>7, <2>8, <2>10
      DEF NoiseInv, ReceivedInv, ReceivedBy, ReadWasSent, ReadInOrder, UnreadIsLater
    <3>2. ASSUME NEW i \in 1..Len(received'[r])
          PROVE  received'[r][i] \in 1..Len(sent[q]) /\ (rekeys = 0 => received'[r][i] = i)
      <4>1. CASE i \in 1..Len(got)
        <5>1. ReadWasSent(r) /\ Cipher!Peer(r) = q
          BY <1>0 DEF NoiseInv, ReceivedInv, ReceivedBy
        <5> QED
          BY <2>9, <4>1, <5>1 DEF ReadWasSent
      <4>2. CASE i = Len(got) + 1
        BY <2>6, <2>9, <4>2
      <4>3. Len(got) \in Nat
        BY DEF NoiseInv, TypesInv
      <4> QED
        BY <2>9, <4>1, <4>2, <4>3
    <3>3. ASSUME NEW i \in 1..Len(received'[r]), NEW j \in 1..Len(received'[r]), i < j
          PROVE  received'[r][i] < received'[r][j]
      <4>1. CASE j \in 1..Len(got)
        BY <1>0, <2>9, <3>3, <4>1 DEF NoiseInv, ReceivedInv, ReceivedBy, ReadInOrder
      <4>2. CASE j = Len(got) + 1
        <5>1. Len(got) \in Nat
          BY DEF NoiseInv, TypesInv
        <5>2. i \in 1..Len(got)
          BY <2>9, <3>3, <4>2, <5>1
        <5>3. received'[r][i] = got[i] /\ received'[r][j] = box.body /\ got[i] < box.body
          BY <2>6, <2>9, <4>2, <5>2
        <5> QED
          BY <5>3
      <4> QED
        BY <1>0, <2>9, <4>1, <4>2
    <3>4. ASSUME NEW b \in Sealed(q), NEW i \in 1..Len(received'[r]), ~Before(b, Cipher!Used(c))
          PROVE  received'[r][i] < b.body
      <4>1. b.k[3] \in Nat /\ b.n \in Nat /\ b.body \in Nat
        BY <1>0, SealedAreData DEF NoiseInv
      <4>2. ~Before(b, c) /\ Before(box, b)
        BY <1>3, <2>4, <3>4, <4>1 DEF Before
      <4>3. box.body < b.body
        BY <1>0, <2>5, <4>2 DEF NoiseInv, SealedInv
      <4>4. \A j \in 1..Len(got) : got[j] < b.body
        BY <1>1, <4>2 DEF NoiseInv, ReceivedInv, ReceivedBy, UnreadIsLater
      <4> QED
        BY <1>0, <2>9, <4>3, <4>4
    <3>5. ReceivedBy(r)'
      <4>1. ReadWasSent(r)'
        BY <1>1, <3>2 DEF ReadWasSent
      <4>2. ReadInOrder(r)'
        BY <3>3 DEF ReadInOrder
      <4>3. UnreadIsLater(r)'
        BY <1>0, <2>7, <2>10, <3>4 DEF UnreadIsLater
      <4> QED
        BY <4>1, <4>2, <4>3 DEF ReceivedBy
    <3> QED
      BY <1>0, <3>1, <3>5 DEF ReceivedInv
  <2>15. WireInv'
    BY <1>0, <1>1, <2>10, FramesGrow, TakingKeeps
  <2>16. TypesInv'
    BY <1>1, <2>1, <2>7, <2>8, <2>15 DEF NoiseInv, TypesInv
  <2>17. HandshakesInv'
    BY <1>0, <1>1, <2>1, <2>7, SessionKeepsHandshakes
  <2>18. FaultlessInv'
    <3>1. faults = 0 /\ step["client"] = "reply" => step["device"] = "data"
      BY <1>1, <1>5
    <3> QED
      BY <1>1, <1>4, <1>5, <1>6, <2>1, <3>1 DEF FaultlessInv
  <2> QED
    BY <2>11, <2>12, <2>13, <2>14, <2>16, <2>17, <2>18 DEF NoiseInv
<1> QED
  BY <1>7, <1>8

LEMMA RekeyedIs ==
  ASSUME NEW w, NEW c \in CiphersOf(w)
  PROVE  /\ Cipher!Rekeyed(c) \in CiphersOf(w)
         /\ Cipher!Rekeyed(c).k[3] = c.k[3] + 1 /\ Cipher!Rekeyed(c).n = 0
<1> DEFINE k == <<c.k[1], c.k[2], c.k[3] + 1>>
<1>1. c.k[1] = w /\ c.k[2] = Chain4("key", attempt) /\ c.k[3] \in Nat
  BY CipherIs
<1>2. k \in KeysOf(w) /\ k[3] = c.k[3] + 1
  BY <1>1 DEF KeysOf
<1>3. Cipher!Rekeyed(c) = [k |-> k, n |-> 0]
  BY DEF Cipher!Rekeyed, Cipher!InitializeKey
<1> HIDE DEF k
<1> QED
  BY <1>2, <1>3 DEF CiphersOf

LEMMA RekeyStep ==
  ASSUME NoiseInv, NEW r \in Cipher!Roles, NEW way \in {"send", "receive"}, Cipher!Rekey(r, way)
  PROVE  NoiseInv'
<1> DEFINE c == cipher[r][way]
           q == Cipher!Peer(r)
           box == [k |-> c.k, n |-> MaxNonce, ad |-> <<>>, body |-> 0]
<1>0. /\ q \in Cipher!Roles /\ q # r /\ Cipher!Peer(q) = r /\ \A p \in Cipher!Roles : p = r \/ p = q
      /\ attempt \in Nat /\ DOMAIN cipher = Cipher!Roles
  BY RolesAre DEF NoiseInv, TypesInv
<1>1. /\ step[r] = "data" /\ rekeys' = rekeys + 1 /\ rekeys' # 0 /\ rekeys' \in 0..MaxRekeys
      /\ boxes' = boxes \cup {box} /\ cipher' = [cipher EXCEPT ![r][way] = Cipher!Rekeyed(@)]
      /\ UNCHANGED <<attempt, keys, step, handshake, wire, result, faults, sent, received>>
  BY NoiseAssumption DEF Cipher!Rekey, Cipher!Seals, Cipher!RekeyBox, NoiseInv, TypesInv
<1>2. /\ cipher[r] \in [send : CiphersOf(Way(r)), receive : CiphersOf(Way(q))]
      /\ cipher[r].send \in CiphersOf(Way(r)) /\ cipher[r].receive \in CiphersOf(Way(q))
  BY <1>1, PairOfSession DEF NoiseInv
<1>3. PICK w \in {Way(r), Way(q)} : c \in CiphersOf(w)
  BY <1>2
<1>4. c.k \in SessionKeys
  BY <1>0, <1>3, CipherIs, KeysOfSession
<1>5. /\ cipher'[q] = cipher[q] /\ DOMAIN cipher' = Cipher!Roles
      /\ cipher'[r] \in [send : CiphersOf(Way(r)), receive : CiphersOf(Way(q))]
      /\ cipher'[r].send \in {cipher[r].send, Cipher!Rekeyed(cipher[r].send)}
      /\ cipher'[r].receive \in {cipher[r].receive, Cipher!Rekeyed(cipher[r].receive)}
  <2>1. CASE way = "send"
    <3>1. cipher'[r] = [cipher[r] EXCEPT !.send = Cipher!Rekeyed(cipher[r].send)]
      BY <1>0, <1>1, <2>1
    <3>2. Cipher!Rekeyed(cipher[r].send) \in CiphersOf(Way(r))
      BY <1>2, RekeyedIs
    <3> QED
      BY <1>0, <1>1, <1>2, <3>1, <3>2
  <2>2. CASE way = "receive"
    <3>1. cipher'[r] = [cipher[r] EXCEPT !.receive = Cipher!Rekeyed(cipher[r].receive)]
      BY <1>0, <1>1, <2>2
    <3>2. Cipher!Rekeyed(cipher[r].receive) \in CiphersOf(Way(q))
      BY <1>2, RekeyedIs
    <3> QED
      BY <1>0, <1>1, <1>2, <3>1, <3>2
  <2> QED
    BY <2>1, <2>2
<1>6. box.n = MaxNonce /\ box.k = c.k /\ box \in RekeyBoxes
  BY <1>4 DEF RekeyBoxes
<1>7. \A x \in RekeyBoxes : x.k = c.k => x = box
  BY DEF RekeyBoxes
<1> HIDE DEF box
<1>8. \A p \in Cipher!Roles : Sealed(p)' = Sealed(p)
  BY <1>1, <1>6, NoiseAssumption DEF Sealed
\* What was sealed before a cipher was sealed before the cipher that replaces it.
<1>9. ASSUME NEW p \in Cipher!Roles, NEW b \in Sealed(p), NEW v, NEW d \in CiphersOf(v), Before(b, d)
      PROVE  Before(b, Cipher!Rekeyed(d))
  <2>1. b.k[3] \in Nat /\ d.k[3] \in Nat
    BY <1>9, SealedAreData, CipherIs DEF NoiseInv
  <2> QED
    BY <1>9, <2>1, RekeyedIs DEF Before
<1>10. PairsInv'
  <2>1. \A v : CiphersOf(v)' = CiphersOf(v)
    BY <1>1 DEF CiphersOf, KeysOf
  <2> QED
    BY <1>0, <1>1, <1>5, <2>1 DEF NoiseInv, PairsInv
<1>11. BoxesInv'
  <2>1. ASSUME NEW x \in boxes, x.k = box.k, x.n = box.n PROVE x = box
    <3>1. x \notin HandshakeBoxes
      <4>1. x.k[1] # "handshake"
        BY <1>6, <2>1, OtherBoxesDiffer
      <4> QED
        BY <4>1, HandshakeBoxesDiffer
    <3>2. x \notin DataBoxes
      BY <1>6, <2>1, NoiseAssumption DEF DataBoxes
    <3> QED
      BY <1>6, <1>7, <2>1, <3>1, <3>2 DEF NoiseInv, BoxesInv
  <2>2. HandshakeBoxes' = HandshakeBoxes /\ DataBoxes' = DataBoxes /\ RekeyBoxes' = RekeyBoxes
    BY <1>1 DEF HandshakeBoxes, DataBoxes, RekeyBoxes, SessionKeys
  <2> QED
    BY <1>1, <1>6, <2>1, <2>2 DEF NoiseInv, BoxesInv, Cipher!NoncesAreFresh
<1>12. SealedInv'
  <2>1. ASSUME NEW b \in Sealed(r) PROVE Before(b, cipher'[r].send)
    <3>1. Before(b, cipher[r].send)
      BY <1>1 DEF NoiseInv, SealedInv
    <3> QED
      BY <1>2, <1>5, <1>9, <3>1
  <2> QED
    BY <1>0, <1>1, <1>5, <1>8, <2>1 DEF NoiseInv, SealedInv
<1>13. ReceivedInv'
  <2>1. ASSUME NEW p \in Cipher!Roles PROVE ReadWasSent(p)' /\ ReadInOrder(p)'
    BY <1>1 DEF NoiseInv, ReceivedInv, ReceivedBy, ReadWasSent, ReadInOrder
  <2>2. UnreadIsLater(r)'
    <3>1. ASSUME NEW b \in Sealed(q), ~Before(b, cipher'[r].receive) PROVE ~Before(b, cipher[r].receive)
      BY <1>0, <1>2, <1>5, <1>9, <3>1
    <3> QED
      BY <1>0, <1>1, <1>8, <3>1 DEF NoiseInv, ReceivedInv, ReceivedBy, UnreadIsLater
  <2>3. step'[q] = "data" => UnreadIsLater(q)'
    BY <1>0, <1>1, <1>5, <1>8 DEF NoiseInv, ReceivedInv, ReceivedBy, UnreadIsLater
  <2> QED
    BY <1>0, <2>1, <2>2, <2>3 DEF ReceivedInv, ReceivedBy
<1>14. WireInv'
  BY <1>1, <1>8, FramesGrow, WireStays DEF NoiseInv, TypesInv
<1>15. TypesInv'
  BY <1>1, <1>5, <1>14 DEF NoiseInv, TypesInv
<1>16. HandshakesInv'
  BY <1>0, <1>1, <1>5, SessionKeepsHandshakes
<1>17. FaultlessInv'
  BY <1>1 DEF NoiseInv, FaultlessInv, Cipher!BlameIsRight
<1> QED
  BY <1>10, <1>11, <1>12, <1>13, <1>15, <1>16, <1>17 DEF NoiseInv

-----------------------------------------------------------------------------
(* What the link does to a frame, and to the frames on their way. *)

LEMMA BrokenMessage ==
  ASSUME NEW E, NEW B, NEW m \in [e : E, box : B], NEW x \in E, NEW b \in B
  PROVE  /\ [Message(m) EXCEPT !.message.e = x] \in {Message(n) : n \in [e : E, box : B]}
         /\ [Message(m) EXCEPT !.message.box = b] \in {Message(n) : n \in [e : E, box : B]}
<1>1. [m EXCEPT !.e = x] \in [e : E, box : B] /\ [m EXCEPT !.box = b] \in [e : E, box : B]
  OBVIOUS
<1>2. /\ [Message(m) EXCEPT !.message.e = x] = Message([m EXCEPT !.e = x])
      /\ [Message(m) EXCEPT !.message.box = b] = Message([m EXCEPT !.box = b])
  <2>1. \A y : [Message(m) EXCEPT !.message = y] = Message(y)
    <3>1. \A ok, x_, y : [[type |-> "message", ok |-> ok, message |-> x_] EXCEPT !.message = y]
                           = [type |-> "message", ok |-> ok, message |-> y]
      OBVIOUS
    <3> QED
      BY <3>1, Zenon DEF Message
  <2>2. Message(m).message = m
    BY DEF Message
  <2>3. /\ [Message(m) EXCEPT !.message.e = x] = [Message(m) EXCEPT !.message = [m EXCEPT !.e = x]]
        /\ [Message(m) EXCEPT !.message.box = b] = [Message(m) EXCEPT !.message = [m EXCEPT !.box = b]]
    BY <2>2
  <2> QED
    BY <2>1, <2>3
<1> QED
  BY <1>1, <1>2

LEMMA DamageStaysInside ==
  ASSUME NEW r \in Cipher!Roles, NEW frame \in FramesTo(r), NEW f \in Cipher!Damaged(frame)
  PROVE  f \in FramesTo(r)
<1>0. [type |-> "empty"] \in FramesTo(r)
  BY DEF FramesTo
<1>1. /\ Cipher!NoKey \in BadKeys /\ <<"low order", 0>> \in BadKeys
      /\ Cipher!Garbled \in Broken /\ Cipher!Short \in Broken
  BY DEF BadKeys, Broken
<1>2. CASE frame.type = "message" /\ frame.ok
  <2>1. f \in {[frame EXCEPT !.message.e = Cipher!NoKey], [frame EXCEPT !.message.e = <<"low order", 0>>],
               [frame EXCEPT !.message.box = Cipher!Garbled], [frame EXCEPT !.message.box = Cipher!Short],
               [type |-> "empty"]}
    <3>1. frame.type # "data"
      BY <1>2
    <3> QED
      BY <1>2, <3>1, Zenon DEF Cipher!Damaged
  <2>2. IF r = "device" THEN frame \in FirstMessages ELSE frame \in SecondMessages /\ keys.device = "key"
    <3>1. frame # Refusal
      BY <1>2 DEF Refusal
    <3> QED
      BY <1>2, <3>1, MessageTo
  <2>3. CASE r = "device"
    <3> DEFINE E == {ClientKey(attempt)} \cup BadKeys
               B == {Box1("key", ClientKey(attempt))} \cup Broken
    <3>1. PICK m \in [e : E, box : B] : frame = Message(m)
      BY <2>2, <2>3 DEF FirstMessages
    <3>2. {Message(n) : n \in [e : E, box : B]} \subseteq FramesTo(r)
      BY <2>3 DEF FramesTo, FirstMessages
    <3>3. /\ Cipher!NoKey \in E /\ <<"low order", 0>> \in E /\ Cipher!Garbled \in B /\ Cipher!Short \in B
      BY <1>1
    <3> HIDE DEF E, B
    <3> QED
      BY <1>0, <2>1, <3>1, <3>2, <3>3, BrokenMessage
  <2>4. CASE r # "device"
    <3> DEFINE E == {DeviceKey(attempt)} \cup BadKeys
               B == {Box2(attempt)} \cup Broken
    <3>1. PICK m \in [e : E, box : B] : frame = Message(m)
      BY <2>2, <2>4 DEF SecondMessages
    <3>2. {Message(n) : n \in [e : E, box : B]} \subseteq FramesTo(r)
      BY <2>2, <2>4 DEF FramesTo, SecondMessages
    <3>3. /\ Cipher!NoKey \in E /\ <<"low order", 0>> \in E /\ Cipher!Garbled \in B /\ Cipher!Short \in B
      BY <1>1
    <3> HIDE DEF E, B
    <3> QED
      BY <1>0, <2>1, <3>1, <3>2, <3>3, BrokenMessage
  <2> QED
    BY <2>3, <2>4
<1>3. CASE frame.type = "data"
  <2>1. f \in {[frame EXCEPT !.box = Cipher!Garbled], [frame EXCEPT !.box = Cipher!Short]}
    <3>1. frame.type # "message"
      BY <1>3
    <3> QED
      BY <1>3, <3>1, Zenon DEF Cipher!Damaged
  <2>2. frame \in DataFrames(r)
    BY <1>3, DataTo
  <2>3. PICK b : frame = [type |-> "data", box |-> b]
    BY <2>2 DEF DataFrames
  <2>4. \A b2 : [frame EXCEPT !.box = b2] = [type |-> "data", box |-> b2]
    BY <2>3
  <2>5. f \in DataFrames(r)
    BY <1>1, <2>1, <2>4 DEF DataFrames
  <2> QED
    BY <2>5 DEF FramesTo
<1>4. CASE ~(frame.type = "message" /\ frame.ok) /\ frame.type # "data"
  <2>1. f \in {[type |-> "empty"]}
    BY <1>4, Zenon DEF Cipher!Damaged
  <2> QED
    BY <1>0, <2>1
<1> QED
  BY <1>2, <1>3, <1>4

LEMMA FaultStep ==
  ASSUME NoiseInv, NEW r \in Cipher!Roles, Cipher!Fault(r)
  PROVE  NoiseInv'
<1> DEFINE w == wire[r]
           S == FramesTo(r)
<1>0. /\ w # <<>> /\ faults' = faults + 1 /\ faults' # 0 /\ faults' \in 0..MaxFaults
      /\ UNCHANGED <<attempt, keys, step, handshake, cipher, result, rekeys, boxes, sent, received>>
      /\ WireInv /\ DOMAIN wire = Cipher!Roles /\ w \in Seq(S)
  <2>1. WireInv /\ DOMAIN wire = Cipher!Roles /\ w \in Seq(S)
    BY DEF NoiseInv, TypesInv, WireInv
  <2>2. faults' = faults + 1 /\ faults' # 0 /\ faults' \in 0..MaxFaults
    BY NoiseAssumption DEF Cipher!Fault, NoiseInv, TypesInv
  <2> QED
    BY <2>1, <2>2 DEF Cipher!Fault
<1>1. Calm
  BY <1>0 DEF Calm
<1>2. /\ PairsInv' /\ BoxesInv' /\ SealedInv' /\ ReceivedInv'
      /\ \A p \in Cipher!Roles : Sealed(p)' = Sealed(p)
  BY <1>1, CalmStep DEF NoiseInv
<1>3. PICK v \in Seq(S) : wire' = [wire EXCEPT ![r] = v]
  <2>0. Head(w) \in S /\ Tail(w) \in Seq(S) /\ 1 \in 1..Len(w) /\ \A i \in 1..Len(w) : w[i] \in S
    BY <1>0, HeadTailProperties
  <2>1. CASE \E f \in Cipher!Damaged(Head(w)) : wire' = [wire EXCEPT ![r][1] = f]
    <3>1. PICK f \in Cipher!Damaged(Head(w)) : wire' = [wire EXCEPT ![r][1] = f]
      BY <2>1
    <3>2. f \in S
      BY <2>0, DamageStaysInside
    <3> HIDE DEF S
    <3>3. [w EXCEPT ![1] = f] \in Seq(S)
      BY <1>0, <2>0, <3>2, ExceptSeq
    <3>4. wire' = [wire EXCEPT ![r] = [w EXCEPT ![1] = f]]
      BY <3>1
    <3> QED
      BY <3>3, <3>4
  <2>2. CASE wire' = [wire EXCEPT ![r] = Tail(@)]
    BY <2>0, <2>2
  <2>3. CASE wire' = [wire EXCEPT ![r] = <<Head(@)>> \o @]
    <3> HIDE DEF S
    <3>1. <<Head(w)>> \in Seq(S)
      BY <2>0
    <3>2. <<Head(w)>> \o w \in Seq(S)
      BY <1>0, <3>1, ConcatProperties
    <3> QED
      BY <2>3, <3>2
  <2>4. CASE Len(w) > 1 /\ wire' = [wire EXCEPT ![r] = <<@[2], @[1]>> \o SubSeq(@, 3, Len(@))]
    <3> HIDE DEF S
    <3>0. Len(w) \in Nat
      BY <1>0
    <3>1. <<w[2], w[1]>> \in Seq(S)
      BY <2>0, <2>4, <3>0
    <3>2. SubSeq(w, 3, Len(w)) \in Seq(S)
      BY <2>0, <3>0, SubSeqProperties
    <3>3. <<w[2], w[1]>> \o SubSeq(w, 3, Len(w)) \in Seq(S)
      BY <3>1, <3>2, ConcatProperties
    <3> QED
      BY <2>4, <3>3
  <2> QED
    BY <2>1, <2>2, <2>3, <2>4 DEF Cipher!Fault
<1>4. WireInv'
  <2>1. ASSUME NEW p \in Cipher!Roles PROVE wire'[p] \in Seq(FramesTo(p)')
    <3>1. wire'[p] \in Seq(FramesTo(p))
      BY <1>0, <1>3 DEF WireInv
    <3>2. FramesTo(p) \subseteq FramesTo(p)'
      BY <1>0, <1>2, FramesGrow
    <3> QED
      BY <3>1, <3>2, SeqMonotonic
  <2> QED
    BY <1>0, <1>3, <2>1 DEF WireInv
<1>5. TypesInv'
  BY <1>0, <1>4 DEF NoiseInv, TypesInv
<1>6. HandshakesInv'
  BY <1>0 DEF NoiseInv, HandshakesInv, Cipher!SecretsAreWiped
<1>7. FaultlessInv'
  BY <1>0 DEF FaultlessInv
<1> QED
  BY <1>2, <1>5, <1>6, <1>7 DEF NoiseInv

LEMMA NoiseStep ==
  ASSUME NoiseInv, [Cipher!Next]_noiseVars
  PROVE  NoiseInv'
<1>1. CASE UNCHANGED noiseVars
  <2>0. UNCHANGED <<attempt, keys, step, handshake, cipher, wire, result, faults, rekeys, boxes, sent, received>>
    BY <1>1 DEF noiseVars
  <2>1. Calm
    BY <2>0 DEF Calm
  <2>2. /\ PairsInv' /\ BoxesInv' /\ SealedInv' /\ ReceivedInv'
        /\ \A p \in Cipher!Roles : Sealed(p)' = Sealed(p)
    BY <2>1, CalmStep DEF NoiseInv
  <2>3. WireInv'
    BY <2>0, <2>2, FramesGrow, WireStays DEF NoiseInv, TypesInv
  <2>4. TypesInv' /\ HandshakesInv' /\ FaultlessInv'
    BY <2>0, <2>3
    DEF NoiseInv, TypesInv, HandshakesInv, Cipher!SecretsAreWiped, FaultlessInv, Cipher!BlameIsRight
  <2> QED
    BY <2>2, <2>4 DEF NoiseInv
<1>2. CASE Cipher!Next
  <2>1. CASE Cipher!Begin
    BY <2>1, BeginStep
  <2>2. CASE Cipher!ClientHello
    BY <2>2, ClientHelloStep
  <2>3. CASE Cipher!ClientReply
    BY <2>3, ClientReplyStep
  <2>4. CASE Cipher!ClientTimesOut
    BY <2>4, ClientTimesOutStep
  <2>5. CASE Cipher!DeviceHello
    BY <2>5, DeviceHelloStep
  <2>6. CASE Cipher!DeviceMessage
    BY <2>6, DeviceMessageStep
  <2>7. CASE Cipher!Dispose
    BY <2>7, DisposeStep
  <2>8. CASE \E r \in Cipher!Roles : Cipher!SendData(r)
    BY <2>8, SendDataStep
  <2>9. CASE \E r \in Cipher!Roles : Cipher!ReceiveData(r)
    BY <2>9, ReceiveDataStep
  <2>10. CASE \E r \in Cipher!Roles : Cipher!Fault(r)
    BY <2>10, FaultStep
  <2>11. CASE \E r \in Cipher!Roles : Cipher!Rekey(r, "send") \/ Cipher!Rekey(r, "receive")
    BY <2>11, RekeyStep
  <2> QED
    BY <1>2, <2>1, <2>2, <2>3, <2>4, <2>5, <2>6, <2>7, <2>8, <2>9, <2>10, <2>11 DEF Cipher!Next
<1> QED
  BY <1>1, <1>2

\* What the two sides promise follows from the invariant.
LEMMA NoiseInvIsEnough ==
  ASSUME NoiseInv
  PROVE  SecretsAreSafe /\ Cipher!TypeOK
<1>0. \A r \in Cipher!Roles : Cipher!Peer(r) \in Cipher!Roles
  BY RolesAre
<1>1. ASSUME NEW r \in Cipher!Roles, cipher[r] # Cipher!NoPair
      PROVE  step[r] = "data"
  BY <1>1 DEF NoiseInv, PairsInv
<1>2. Cipher!PairsMatch
  <2> SUFFICES ASSUME \A r \in Cipher!Roles : cipher[r] # Cipher!NoPair, rekeys = 0
               PROVE  /\ \A r \in Cipher!Roles : cipher[r].send.k = cipher[Cipher!Peer(r)].receive.k
                      /\ cipher["client"].send.k # cipher["client"].receive.k
                      /\ keys.client = keys.device
                      /\ Cipher!Newest(cipher["client"].send.k[2]) = {ClientKey(attempt), DeviceKey(attempt)}
    BY DEF Cipher!PairsMatch, ClientKey, DeviceKey
  <2>1. ASSUME NEW r \in Cipher!Roles
        PROVE  /\ cipher[r].send.k = <<Way(r), Chain4("key", attempt), 0>>
               /\ cipher[r].receive.k = <<Way(Cipher!Peer(r)), Chain4("key", attempt), 0>>
               /\ keys.device = "key"
    <3>1. step[r] = "data"
      BY <1>1
    <3>2. /\ cipher[r].send \in CiphersOf(Way(r)) /\ cipher[r].receive \in CiphersOf(Way(Cipher!Peer(r)))
          /\ keys.device = "key"
      BY <3>1, PairOfSession DEF NoiseInv
    <3>3. cipher[r].send.k[3] = 0 /\ cipher[r].receive.k[3] = 0
      BY <3>1 DEF NoiseInv, PairsInv
    <3>4. /\ cipher[r].send.k = <<Way(r), Chain4("key", attempt), cipher[r].send.k[3]>>
          /\ cipher[r].receive.k = <<Way(Cipher!Peer(r)), Chain4("key", attempt), cipher[r].receive.k[3]>>
      BY <3>2, CipherIs
    <3> QED
      BY <3>2, <3>3, <3>4
  <2>2. \A r \in Cipher!Roles : Cipher!Peer(Cipher!Peer(r)) = r
    BY RolesAre
  <2>3. cipher["client"].send.k # cipher["client"].receive.k
    <3>1. \A k : <<"first", k, 0>> # <<"second", k, 0>>
      OBVIOUS
    <3> QED
      BY <2>1, <3>1, RolesAre
  <2>4. keys.client = keys.device
    BY <2>1, RolesAre DEF NoiseInv, TypesInv
  <2>5. Cipher!Newest(Chain4("key", attempt)) = {ClientKey(attempt), DeviceKey(attempt)}
    BY DEF Cipher!Newest, Chain4
  <2>6. cipher["client"].send.k[2] = Chain4("key", attempt)
    BY <2>1, RolesAre
  <2> QED
    BY <1>0, <2>1, <2>2, <2>3, <2>4, <2>5, <2>6
<1>3. Cipher!OnlyWhatWasSent
  <2> SUFFICES ASSUME NEW r \in Cipher!Roles, NEW i \in 1..Len(received[r])
               PROVE  /\ received[r][i] \in Cipher!ToSet(sent[Cipher!Peer(r)])
                      /\ rekeys = 0 => received[r][i] = sent[Cipher!Peer(r)][i]
    BY DEF Cipher!OnlyWhatWasSent, NoiseInv, ReceivedInv, ReceivedBy, ReadInOrder
  <2> DEFINE s == sent[Cipher!Peer(r)]
  <2>1. received[r][i] \in 1..Len(s) /\ (rekeys = 0 => received[r][i] = i)
    BY DEF NoiseInv, ReceivedInv, ReceivedBy, ReadWasSent
  <2>2. \A j \in 1..Len(s) : s[j] = j
    BY <1>0 DEF NoiseInv, SealedInv
  <2> HIDE DEF s
  <2>3. \A j \in 1..Len(s) : s[j] \in Cipher!ToSet(s)
    BY DEF Cipher!ToSet
  <2> QED
    BY <2>1, <2>2, <2>3 DEF s
<1>4. Cipher!NoncesAreFresh /\ Cipher!BlameIsRight /\ Cipher!SecretsAreWiped
  BY DEF NoiseInv, BoxesInv, FaultlessInv, HandshakesInv, Cipher!BlameIsRight
<1>5. Cipher!TypeOK
  <2>1. ASSUME NEW r \in Cipher!Roles, cipher[r] # Cipher!NoPair
        PROVE  step[r] = "data" /\ cipher[r].send.k # Cipher!NoKey /\ cipher[r].receive.k # Cipher!NoKey
    <3>1. step[r] = "data"
      BY <1>1, <2>1
    <3>2. cipher[r].send \in CiphersOf(Way(r)) /\ cipher[r].receive \in CiphersOf(Way(Cipher!Peer(r)))
      BY <3>1, PairOfSession DEF NoiseInv
    <3> QED
      BY <3>1, <3>2, CipherIs
  <2> QED
    BY <2>1 DEF Cipher!TypeOK, NoiseInv, TypesInv, SealedInv
<1> QED
  BY <1>2, <1>3, <1>4, <1>5 DEF SecretsAreSafe

-----------------------------------------------------------------------------
(* Theorems. *)

\* Every step of the whole is a step, or none, of the transport and of the two sides.
LEMMA PartsStep ==
  ASSUME [MCNext]_mcVars
  PROVE  [Next]_vars /\ [Cipher!Next]_noiseVars
<1>1. CASE MCNext
  BY <1>1 DEF MCNext
<1>2. CASE UNCHANGED mcVars
  BY <1>2 DEF mcVars
<1> QED
  BY <1>1, <1>2

LEMMA NoiseInvHolds == MCSpec => []NoiseInv
<1>1. MCInit => NoiseInv
  BY NoiseInit DEF MCInit
<1>2. NoiseInv /\ [MCNext]_mcVars => NoiseInv'
  BY PartsStep, NoiseStep
<1> QED
  BY <1>1, <1>2, PTL DEF MCSpec

\* performNoiseHandshake() and the session after it, over a link that damages, repeats, swaps
\* and loses frames, for any number of connections: two sides that both have a pair share the
\* fresh keys of this attempt and the psk; no key seals two things under one nonce; a side
\* reads only what the other sent, in its order and never twice; a handshake is blamed on the
\* key only when the key is wrong or a frame was damaged; and nothing secret outlives it.
THEOREM SecretsStaySafe == MCSpec => []SecretsAreSafe
<1>1. NoiseInv => SecretsAreSafe
  BY NoiseInvIsEnough
<1> QED
  BY <1>1, NoiseInvHolds, PTL

\* The transport with its awaiter slots, and the two sides with their stages and ciphers: only
\* a side in the session has a pair, with both keys, and it never sent more than it may.
THEOREM PartsAreTyped == MCSpec => []MCTypeOK
<1>1. MCInit => Init
  BY DEF MCInit
<1>2. [MCNext]_mcVars => [Next]_vars
  BY PartsStep
<1>3. MCSpec => Spec
  BY <1>1, <1>2, PTL DEF MCSpec, Spec
<1>4. TypeOK /\ NoiseInv => MCTypeOK
  BY NoiseInvIsEnough DEF MCTypeOK
<1> QED
  BY <1>3, <1>4, TypeCorrect, NoiseInvHolds, PTL
=============================================================================
