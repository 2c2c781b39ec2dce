-------------------------------- MODULE Noise --------------------------------
(***************************************************************************)
(* Noise_NNpsk0: HandshakeState and CipherState, performNoiseHandshake()   *)
(* which drives them against a device, and the encrypted session after it. *)
(* The device is a responder of the same HandshakeState.                   *)
(*                                                                         *)
(* Cryptography is symbolic: a hash is the pair of the hash before it and  *)
(* what was mixed into that, a derived key names the chaining key it comes *)
(* from and how often it was replaced since, and a box opens with the key, *)
(* the nonce and the data it was sealed with.  The link may damage, repeat *)
(* or lose frames.                                                         *)
(***************************************************************************)
EXTENDS Naturals, Sequences, FiniteSets, SequencesExt

CONSTANTS
  None,         \* no psk, no error, no handshake
  MaxNonce,     \* MAX_NONCE
  MaxAttempts, MaxFaults, MaxSends, MaxRekeys  \* bounds

Roles == {"client", "device"}
Peer(r) == IF r = "client" THEN "device" ELSE "client"

VARIABLES
  attempt,    \* number of the connection
  keys,       \* the psk that each role is configured with, and the name the client expects
  stage,      \* per role: "idle", "hello", "message", "reply", "data" or "failed"
  handshake,  \* per role: its HandshakeState
  cipher,     \* per role: the installed pair, or NoPair
  wire,       \* per role: the frames on their way to it
  result,     \* how performNoiseHandshake() ended
  faults, rekeys,
  boxes,      \* history: every box that was sealed
  sent, received  \* history: the payloads of this connection

vars == <<attempt, keys, stage, handshake, cipher, wire, result, faults, rekeys, boxes, sent, received>>

-----------------------------------------------------------------------------
(* CipherState.  It seals and opens nothing without a key. *)

NoKey == <<>>
NoCipher == [k |-> NoKey, n |-> 0]
NoPair == [send |-> NoCipher, receive |-> NoCipher]
InitializeKey(key) == [k |-> key, n |-> 0]

\* MAX_NONCE itself is reserved for Rekey().
Exhausted(c) == c.n >= MaxNonce

\* Boxes that were damaged on their way: shorter than a tag, or not what was sealed.
Short == [k |-> NoKey, n |-> 0, ad |-> <<>>, body |-> 0]
Garbled == [k |-> NoKey, n |-> 0, ad |-> <<>>, body |-> 1]

Seal(c, ad, body) == IF c.k = NoKey THEN body ELSE [k |-> c.k, n |-> c.n, ad |-> ad, body |-> body]
Used(c) == IF c.k = NoKey THEN c ELSE [c EXCEPT !.n = @ + 1]

\* DecryptWithAd(): None when it opens, else the error.
OpenError(c, ad, box) ==
  IF c.k = NoKey THEN None
  ELSE IF Exhausted(c) THEN "NONCE_EXHAUSTED"
  ELSE IF box = Short THEN "CT_TOO_SHORT"
  ELSE IF box.k # c.k \/ box.n # c.n \/ box.ad # ad THEN "AUTH_FAILED"
  ELSE None

\* Rekey(): the new key is the old one's box of zeros under the reserved nonce.
RekeyBox(c) == [k |-> c.k, n |-> MaxNonce, ad |-> <<>>, body |-> 0]
Rekeyed(c) == InitializeKey(<<c.k[1], c.k[2], c.k[3] + 1>>)

-----------------------------------------------------------------------------
(* SymmetricState. *)

PROTOCOL_NAME_HASH == <<"Noise_NNpsk0_25519_ChaChaPoly_SHA256">>

\* The hash of a hash and of what is mixed into it.
Mixed(hash, data) == <<hash, data>>
Newest(hash) == hash[2]

MixHash(hs, data) == [hs EXCEPT !.h = Mixed(@, data)]

MixKey(hs, ikm) ==
  LET ck == Mixed(hs.ck, ikm) IN [hs EXCEPT !.ck = ck, !.cs = InitializeKey(<<"handshake", ck, 0>>)]

MixKeyAndHash(hs, ikm) == LET mixed == MixKey(hs, ikm) IN MixHash(mixed, <<"temp_h", mixed.ck>>)

EncryptAndHash(hs, plaintext) ==
  MixHash([hs EXCEPT !.cs = Used(@)], Seal(hs.cs, hs.h, plaintext))

DecryptAndHash(hs, box) ==
  LET error == OpenError(hs.cs, hs.h, box)
  IN  IF error # None THEN [hs EXCEPT !.error = error]
      ELSE MixHash([hs EXCEPT !.cs = Used(@)], box)

\* Mutant: both roles take the first key of the pair to send with.
SplitAlike(hs) ==
  [hs EXCEPT !.complete = TRUE,
     !.pair = [send |-> InitializeKey(<<"first", hs.ck, 0>>), receive |-> InitializeKey(<<"second", hs.ck, 0>>)]]

\* Split(): the first key is the initiator's to send with.
Split(hs) ==
  LET c1 == InitializeKey(<<"first", hs.ck, 0>>)
      c2 == InitializeKey(<<"second", hs.ck, 0>>)
  IN  [hs EXCEPT !.complete = TRUE,
         !.pair = IF hs.initiator THEN [send |-> c1, receive |-> c2] ELSE [send |-> c2, receive |-> c1]]

-----------------------------------------------------------------------------
(* HandshakeState. *)

NNPSK0_PATTERN == <<<<"psk", "e">>, <<"e", "ee">>>>

\* createESPHomeHandshake(): the prologue binds both sides to the API.
NewHandshake(role, psk) ==
  [initiator |-> role = "client", index |-> 1, psk |-> psk,
   h |-> Mixed(PROTOCOL_NAME_HASH, "NoiseAPIInit"), ck |-> PROTOCOL_NAME_HASH, cs |-> NoCipher,
   own |-> <<role, attempt>>, ephemeral |-> NoKey, remote |-> NoKey,
   pair |-> NoPair, complete |-> FALSE, error |-> None]

\* computeDH(): both keys are needed, and a low-order point fails.
ComputeDH(hs) ==
  IF NoKey \in {hs.ephemeral, hs.remote} THEN [hs EXCEPT !.error = "MISSING_KEYS"]
  ELSE IF hs.remote = <<"low order", 0>> THEN [hs EXCEPT !.error = "INVALID_REMOTE_KEY"]
  ELSE MixKey(hs, {hs.ephemeral, hs.remote})

ProcessWriteToken(hs, token) ==
  IF hs.error # None THEN hs
  ELSE CASE token = "psk" -> MixKeyAndHash(hs, hs.psk)
         [] token = "e" -> MixKey(MixHash([hs EXCEPT !.ephemeral = hs.own], hs.own), hs.own)
         [] token = "ee" -> ComputeDH(hs)

ProcessReadToken(hs, token, e) ==
  IF hs.error # None THEN hs
  ELSE CASE token = "psk" -> MixKeyAndHash(hs, hs.psk)
         [] token = "e" -> IF e = NoKey THEN [hs EXCEPT !.error = "TRUNCATED_E"]
                           ELSE MixKey(MixHash([hs EXCEPT !.remote = e], e), e)
         [] token = "ee" -> ComputeDH(hs)

\* nextPatternStep(): the step counts as taken before it is known to succeed.
NextPatternStep(hs) ==
  IF hs.index > Len(NNPSK0_PATTERN) THEN [hs EXCEPT !.error = "HANDSHAKE_COMPLETE"]
  ELSE [hs EXCEPT !.index = @ + 1]

\* writeMessage(): the two tokens of the message, and the payload.  The responder is complete
\* when it has written the last message.
WriteMessage(hs) ==
  LET stepped == NextPatternStep(hs)
      Token(i) == NNPSK0_PATTERN[hs.index][i]
      mixed == ProcessWriteToken(ProcessWriteToken(stepped, Token(1)), Token(2))
      out == IF mixed.error # None THEN mixed ELSE EncryptAndHash(mixed, 0)
  IN  IF out.error = None /\ out.index > Len(NNPSK0_PATTERN) /\ ~out.initiator THEN Split(out) ELSE out

\* The message that was written: the ephemeral key and the box of the empty payload.
Written(hs) == [e |-> hs.ephemeral, box |-> Newest(hs.h)]

\* readMessage(): the initiator is complete when it has read the last message.
ReadMessage(hs, message) ==
  LET stepped == NextPatternStep(hs)
      Token(i) == NNPSK0_PATTERN[hs.index][i]
      mixed == ProcessReadToken(ProcessReadToken(stepped, Token(1), message.e), Token(2), message.e)
      out == IF mixed.error # None THEN mixed ELSE DecryptAndHash(mixed, message.box)
  IN  IF out.error = None /\ out.index > Len(NNPSK0_PATTERN) /\ out.initiator THEN Split(out) ELSE out

\* destroy(): nothing is left, and no step can be taken.
Destroy(hs) ==
  [hs EXCEPT !.psk = None, !.h = <<>>, !.ck = <<>>, !.cs = NoCipher, !.ephemeral = NoKey, !.remote = NoKey,
             !.pair = NoPair, !.complete = FALSE, !.index = Len(NNPSK0_PATTERN) + 1]

\* destroyHandshakeSecrets(): the pair belongs to the transport now.
DestroyHandshakeSecrets(hs) ==
  [hs EXCEPT !.psk = None, !.h = <<>>, !.ck = <<>>, !.cs = NoCipher, !.ephemeral = NoKey, !.remote = NoKey,
             !.pair = NoPair]

-----------------------------------------------------------------------------
Init ==
  /\ attempt = 0
  /\ keys \in [client : {"key"}, device : {"key", "other"}, name : {"any", "expected", "wrong"}]
  /\ stage = [r \in Roles |-> "idle"]
  /\ handshake = [r \in Roles |-> None] /\ cipher = [r \in Roles |-> NoPair]
  /\ wire = [r \in Roles |-> <<>>]
  /\ result = None /\ faults = 0 /\ rekeys = 0
  /\ boxes = {} /\ sent = [r \in Roles |-> <<>>] /\ received = [r \in Roles |-> <<>>]

Send(r, frame) == wire' = [wire EXCEPT ![Peer(r)] = Append(@, frame)]
Answer(r, frame) == wire' = [wire EXCEPT ![r] = Tail(@), ![Peer(r)] = Append(@, frame)]
Take(r) == wire' = [wire EXCEPT ![r] = Tail(@)]
Seals(box) == boxes' = boxes \cup {box}

\* performNoiseHandshake() up to its first wait.  The psk is decoded into a buffer of its own,
\* which destroy() will zero.
Begin ==
  /\ stage["client"] \in {"idle", "failed"} /\ attempt < MaxAttempts
  /\ attempt' = attempt + 1
  /\ handshake' = [r \in Roles |-> [NewHandshake(r, keys[r]) EXCEPT !.own = <<r, attempt + 1>>]]
  /\ stage' = [client |-> "hello", device |-> "hello"]
  /\ cipher' = [r \in Roles |-> NoPair]
  /\ wire' = [client |-> <<>>, device |-> <<[type |-> "start"]>>]
  /\ result' = None
  /\ sent' = [r \in Roles |-> <<>>] /\ received' = [r \in Roles |-> <<>>]
  /\ UNCHANGED <<keys, faults, rekeys, boxes>>

\* The catch: the handshake is destroyed, and with it a pair nobody installed.
Fails(error) ==
  /\ stage' = [stage EXCEPT !["client"] = "failed"]
  /\ handshake' = [handshake EXCEPT !["client"] = Destroy(@)]
  /\ result' = error

\* The server's hello: the protocol and the name are looked at, then our message goes out.
ClientHello ==
  /\ stage["client"] = "hello" /\ wire["client"] # <<>>
  /\ LET frame == Head(wire["client"])
         next == WriteMessage(handshake["client"])
     IN  IF frame.type # "hello" \/ (keys.name # "any" /\ keys.name # "expected")
         THEN /\ Fails(IF frame.type # "hello" THEN "UNSUPPORTED_TOKEN" ELSE "SERVER_NAME_MISMATCH")
              /\ Take("client") /\ UNCHANGED boxes
         ELSE /\ handshake' = [handshake EXCEPT !["client"] = next]
              /\ stage' = [stage EXCEPT !["client"] = "reply"]
              /\ Answer("client", [type |-> "message", ok |-> TRUE, message |-> Written(next)])
              /\ Seals(Newest(next.h)) /\ UNCHANGED result
  /\ UNCHANGED <<attempt, keys, cipher, faults, rekeys, sent, received>>

\* The server's reply.  A bad key, from the header or from our own reading, is permanent; what
\* only says that the frame was cut is not.
ReplyError(frame, next) ==
  IF frame.type = "empty" THEN "TRUNCATED_E"
  ELSE IF \/ frame.type # "message" \/ ~frame.ok
          \/ next.error \in {"AUTH_FAILED", "INVALID_REMOTE_KEY"} THEN "NOISE_HANDSHAKE_FAILED"
  ELSE next.error

ClientReply ==
  /\ stage["client"] = "reply" /\ wire["client"] # <<>>
  /\ LET frame == Head(wire["client"])
         next == IF frame.type = "message" /\ frame.ok THEN ReadMessage(handshake["client"], frame.message)
                 ELSE handshake["client"]
         error == ReplyError(frame, next)
     IN  IF error # None
         THEN Fails(error) /\ UNCHANGED cipher
         ELSE /\ cipher' = [cipher EXCEPT !["client"] = next.pair]
              /\ handshake' = [handshake EXCEPT !["client"] = DestroyHandshakeSecrets(next)]
              /\ stage' = [stage EXCEPT !["client"] = "data"] /\ result' = "ok"
  /\ Take("client")
  /\ UNCHANGED <<attempt, keys, faults, rekeys, boxes, sent, received>>

\* The handshake's timer, or the caller's signal.
ClientTimesOut ==
  /\ stage["client"] \in {"hello", "reply"}
  /\ Fails("HANDSHAKE_TIMEOUT")
  /\ UNCHANGED <<attempt, keys, cipher, wire, faults, rekeys, boxes, sent, received>>

\* The device: it answers the empty frame, and then the message, or says that it cannot read it.
DeviceHello ==
  /\ stage["device"] = "hello" /\ wire["device"] # <<>>
  /\ stage' = [stage EXCEPT !["device"] = "message"]
  /\ Answer("device", [type |-> "hello"])
  /\ UNCHANGED <<attempt, keys, handshake, cipher, result, faults, rekeys, boxes, sent, received>>

DeviceMessage ==
  /\ stage["device"] = "message" /\ wire["device"] # <<>>
  /\ LET frame == Head(wire["device"])
         read == IF frame.type = "message" THEN ReadMessage(handshake["device"], frame.message)
                 ELSE [handshake["device"] EXCEPT !.error = "TRUNCATED_E"]
         next == IF read.error # None THEN read ELSE WriteMessage(read)
     IN  IF next.error # None
         THEN /\ Answer("device", [type |-> "message", ok |-> FALSE])
              /\ stage' = [stage EXCEPT !["device"] = "failed"]
              /\ handshake' = [handshake EXCEPT !["device"] = Destroy(next)]
              /\ UNCHANGED <<cipher, boxes>>
         ELSE /\ Answer("device", [type |-> "message", ok |-> TRUE, message |-> Written(next)])
              /\ stage' = [stage EXCEPT !["device"] = "data"]
              /\ cipher' = [cipher EXCEPT !["device"] = next.pair]
              /\ handshake' = [handshake EXCEPT !["device"] = DestroyHandshakeSecrets(next)]
              /\ Seals(Newest(next.h))
  /\ UNCHANGED <<attempt, keys, result, faults, rekeys, sent, received>>

-----------------------------------------------------------------------------
(* The encrypted session. *)

\* send() in the noise-data phase: a long payload or a spent cipher throws and costs nothing.
SendData(r) ==
  LET c == cipher[r].send
      body == Len(sent[r]) + 1
  IN  /\ stage[r] = "data" /\ cipher[r] # NoPair /\ ~Exhausted(c) /\ body <= MaxSends
      /\ Send(r, [type |-> "data", box |-> Seal(c, <<>>, body)])
      /\ Seals(Seal(c, <<>>, body))
      /\ cipher' = [cipher EXCEPT ![r].send = Used(@)]
      /\ sent' = [sent EXCEPT ![r] = Append(@, body)]
      /\ UNCHANGED <<attempt, keys, stage, handshake, result, faults, rekeys, received>>

\* A frame that does not open ends the transport, which destroys its pair.
ReceiveData(r) ==
  /\ stage[r] = "data" /\ wire[r] # <<>>
  /\ LET frame == Head(wire[r])
         c == cipher[r].receive
         error == IF frame.type = "data" THEN OpenError(c, <<>>, frame.box) ELSE "AUTH_FAILED"
     IN  IF error # None
         THEN /\ stage' = [stage EXCEPT ![r] = "failed"] /\ cipher' = [cipher EXCEPT ![r] = NoPair]
              /\ UNCHANGED received
         ELSE /\ received' = [received EXCEPT ![r] = Append(@, frame.box.body)]
              /\ cipher' = [cipher EXCEPT ![r].receive = Used(@)]
              /\ UNCHANGED stage
  /\ Take(r)
  /\ UNCHANGED <<attempt, keys, handshake, result, faults, rekeys, boxes, sent>>

\* Rekey(), of one direction on one side: the owner of the ciphers calls it.
Rekey(r, way) ==
  /\ stage[r] = "data" /\ cipher[r] # NoPair /\ rekeys < MaxRekeys
  /\ rekeys' = rekeys + 1
  /\ Seals(RekeyBox(cipher[r][way]))
  /\ cipher' = [cipher EXCEPT ![r][way] = Rekeyed(@)]
  /\ UNCHANGED <<attempt, keys, stage, handshake, wire, result, faults, sent, received>>

\* The client's transport ends.
Dispose ==
  /\ stage["client"] = "data"
  /\ stage' = [stage EXCEPT !["client"] = "failed"]
  /\ cipher' = [cipher EXCEPT !["client"] = NoPair]
  /\ UNCHANGED <<attempt, keys, handshake, wire, result, faults, rekeys, boxes, sent, received>>

-----------------------------------------------------------------------------
(* The link. *)

Damaged(frame) ==
  CASE frame.type = "message" /\ frame.ok ->
         {[frame EXCEPT !.message.e = NoKey], [frame EXCEPT !.message.e = <<"low order", 0>>],
          [frame EXCEPT !.message.box = Garbled], [frame EXCEPT !.message.box = Short], [type |-> "empty"]}
    [] frame.type = "data" -> {[frame EXCEPT !.box = Garbled], [frame EXCEPT !.box = Short]}
    [] OTHER -> {[type |-> "empty"]}

Fault(r) ==
  /\ wire[r] # <<>> /\ faults < MaxFaults
  /\ faults' = faults + 1
  /\ \/ \E f \in Damaged(Head(wire[r])) : wire' = [wire EXCEPT ![r][1] = f]
     \/ wire' = [wire EXCEPT ![r] = Tail(@)]
     \/ wire' = [wire EXCEPT ![r] = <<Head(@)>> \o @]
     \/ Len(wire[r]) > 1 /\ wire' = [wire EXCEPT ![r] = <<@[2], @[1]>> \o SubSeq(@, 3, Len(@))]
  /\ UNCHANGED <<attempt, keys, stage, handshake, cipher, result, rekeys, boxes, sent, received>>

Next ==
  \/ Begin \/ ClientHello \/ ClientReply \/ ClientTimesOut \/ DeviceHello \/ DeviceMessage \/ Dispose
  \/ \E r \in Roles : SendData(r) \/ ReceiveData(r) \/ Fault(r) \/ Rekey(r, "send") \/ Rekey(r, "receive")

Spec == Init /\ [][Next]_vars

-----------------------------------------------------------------------------
TypeOK ==
  /\ attempt \in 0..MaxAttempts /\ faults \in 0..MaxFaults /\ rekeys \in 0..MaxRekeys
  /\ stage \in [Roles -> {"idle", "hello", "message", "reply", "data", "failed"}]
  /\ \A r \in Roles : cipher[r] # NoPair => stage[r] = "data" /\ cipher[r].send.k # NoKey /\ cipher[r].receive.k # NoKey
  /\ \A r \in Roles : Len(sent[r]) <= MaxSends

\* Two sides that both have a pair and never rekeyed seal and open with the same keys, one per
\* direction, that come from the one psk and from both ephemeral keys of this attempt.
PairsMatch ==
  (\A r \in Roles : cipher[r] # NoPair) /\ rekeys = 0 =>
    /\ \A r \in Roles : cipher[r].send.k = cipher[Peer(r)].receive.k
    /\ cipher["client"].send.k # cipher["client"].receive.k
    /\ keys.client = keys.device
    /\ Newest(cipher["client"].send.k[2]) = {<<"client", attempt>>, <<"device", attempt>>}

\* No key seals two different things under one nonce, over all attempts.
NoncesAreFresh == \A a, b \in boxes : a.k = b.k /\ a.n = b.n => a = b

\* Whatever the link does, a side reads what the other sent, in its order and never twice, and
\* from the first on without a gap.  Only where both sides rekeyed may something be missing,
\* what was lost before the new key.
OnlyWhatWasSent ==
  \A r \in Roles :
    /\ \A i \in 1..Len(received[r]) : received[r][i] \in ToSet(sent[Peer(r)])
    /\ \A i, j \in 1..Len(received[r]) : i < j => received[r][i] < received[r][j]
    /\ rekeys = 0 => \A i \in 1..Len(received[r]) : received[r][i] = sent[Peer(r)][i]

\* The client blames the key exactly when the key is to blame, or a frame was damaged; with the
\* right key and name, and no fault, only time can fail the handshake, in every attempt.
BlameIsRight ==
  faults = 0 =>
    /\ result = "NOISE_HANDSHAKE_FAILED" => keys.client # keys.device
    /\ result = "ok" => keys.client = keys.device
    /\ result \notin {None, "ok", "NOISE_HANDSHAKE_FAILED", "HANDSHAKE_TIMEOUT"} =>
         keys.name = "wrong" /\ result = "SERVER_NAME_MISMATCH"

\* A client that is done with the handshake keeps none of its secrets, and one that failed no
\* cipher either.
SecretsAreWiped ==
  stage["client"] \in {"data", "failed"} =>
    /\ handshake["client"].psk = None /\ handshake["client"].cs.k = NoKey /\ handshake["client"].ck = <<>>
    /\ handshake["client"].pair = NoPair
    /\ stage["client"] = "failed" => cipher["client"] = NoPair
=============================================================================
