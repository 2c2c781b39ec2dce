----------------------------- MODULE Transport -----------------------------
(***************************************************************************)
(* Transport and the code that drives it through a connection attempt: the *)
(* Noise handshake (performNoiseHandshake), the fallback to plaintext, and *)
(* the iterator the message receiver reads.                                *)
(*                                                                         *)
(* The socket delivers the device's bytes in pieces of any size.  A frame  *)
(* is two units, its header and its body, so a piece may end inside it;    *)
(* less than a header is not told apart from nothing.  A settled awaiter   *)
(* resumes before the next event of the socket, see Settled.               *)
(***************************************************************************)
EXTENDS Naturals, Sequences

CONSTANTS
  Kinds,        \* the devices, see below
  RecvLimits,   \* maxRecvBufferBytes, in units
  MaxChunk,     \* bound: units of one data event
  MaxMessages,  \* bound: messages of the device
  None

ASSUME TransportAssumption ==
  /\ Kinds \subseteq {"noise", "plain", "eager", "faulty"}
  /\ RecvLimits \subseteq Nat /\ MaxChunk \in Nat /\ MaxMessages \in Nat

VARIABLES
  kind, psk, recvLimit,      \* the device; is a key configured; options.maxRecvBufferBytes
  t,                         \* the transport
  stage, round, reopened,    \* the handshake's code; did it fall back to plaintext
  read, finished,            \* what the iterator yielded, and how it ended
  line,                      \* the device's bytes under way
  asked, answered, written   \* handshake frames it got and answered, messages it wrote

options == <<kind, psk, recvLimit>>
flow == <<stage, round, reopened>>
reader == <<read, finished>>
device == <<line, asked, answered, written>>
vars == <<options, t, flow, reader, device>>

Slots == {"message", "handshake"}

Frames == [wire : {"noise", "plain"}, is : Slots, n : 0..MaxMessages, ok : BOOLEAN,
           huge : BOOLEAN]
Units == [frame : Frames, part : {"header", "body"}]

\* The causes of a PeerClosedDuringNoiseError, those of the parser, and the others.
NoNoise == {"PEER_CLOSED_NOISE", "PEER_PLAINTEXT_DURING_NOISE"}
Faults == {"PROTOCOL_MISMATCH", "DECRYPT_FAILED", "FRAME_TOO_LARGE", "RECV_BUFFER_OVERFLOW"}
Causes == NoNoise \cup Faults \cup {"PEER_CLOSED", "ESOCKET", "TRANSPORT_DISPOSED"}

\* How an awaiter is settled.
Value(f) == [how |-> "value", frame |-> f]
Error(cause) == [how |-> "error", cause |-> cause]
Done == [how |-> "done"]
Outcomes == [how : {"value"}, frame : Frames] \cup [how : {"error"}, cause : Causes] \cup {Done}

ASSUME NoneAssumption == None \notin Causes \cup Outcomes

\* `phase`, `recvBuffer` and `terminated` with its cause; the two queues and the two awaiter
\* slots by name; `given` is a settled awaiter whose code has not resumed; `rx` is the nonce
\* of the receive cipher.
Transports ==
  [phase : {"plaintext", "noise-handshake", "noise-data"}, recvBuffer : Seq(Units),
   queue : [Slots -> Seq(Frames)], parked : SUBSET Slots,
   given : [Slots -> Outcomes \cup {None}], terminated : Causes \cup {None},
   rx : 0..MaxMessages]

\* Types, and each slot is occupied, or its promise settled, only while its code waits.
TypeOK ==
  /\ kind \in Kinds /\ psk \in BOOLEAN /\ recvLimit \in RecvLimits
  /\ t \in Transports
  /\ stage \in {"start", "sent", "waiting", "keyed", "plain", "failed"}
  /\ round \in {1, 2} /\ reopened \in BOOLEAN
  /\ read \in Seq(Frames) /\ finished \in {"no", "done", "error"}
  /\ line \in Seq(Units) /\ asked \in 0..2 /\ answered \in 0..2 /\ written \in 0..MaxMessages
  /\ \A s \in Slots : ~(s \in t.parked /\ t.given[s] # None)
  /\ stage = "waiting" <=> "handshake" \in t.parked \/ t.given.handshake # None
  /\ "message" \in t.parked => stage \in {"keyed", "plain", "failed"} /\ finished = "no"

Opened ==
  [phase |-> "plaintext", recvBuffer |-> <<>>, queue |-> [s \in Slots |-> <<>>],
   parked |-> {}, given |-> [s \in Slots |-> None], terminated |-> None, rx |-> 0]

Init ==
  /\ kind \in Kinds /\ psk \in BOOLEAN /\ recvLimit \in RecvLimits
  /\ t = Opened
  /\ stage = "start" /\ round = 1 /\ reopened = FALSE
  /\ read = <<>> /\ finished = "no"
  /\ line = <<>> /\ asked = 0 /\ answered = 0 /\ written = 0

Settled == \A s \in Slots : t.given[s] = None
-----------------------------------------------------------------------------
(* The transport's own functions: from a transport to a transport. *)

Settle(c, s, outcome) == [c EXCEPT !.parked = @ \ {s}, !.given[s] = outcome]

Ending(s, cause) == IF s = "message" /\ cause = "TRANSPORT_DISPOSED" THEN Done ELSE Error(cause)

\* Mutant: settleAwaiters() knows only the iterator's slot.
FailedHalf(c, cause) ==
  IF c.terminated # None THEN c
  ELSE [c EXCEPT !.terminated = cause, !.parked = @ \ {"message"},
                 !.given = [s \in Slots |-> IF s \in c.parked \cap {"message"}
                                            THEN Ending(s, cause) ELSE c.given[s]]]

\* fail() and dispose(), with settleAwaiters().
Failed(c, cause) ==
  IF c.terminated # None THEN c
  ELSE [c EXCEPT !.terminated = cause, !.parked = {},
                 !.given = [s \in Slots |-> IF s \in c.parked THEN Ending(s, cause)
                                            ELSE c.given[s]]]

\* Mutant: the awaiter's frame is queued as well.
DeliveredTwice(c, s, frames) ==
  IF frames # <<>> /\ s \in c.parked
  THEN [Settle(c, s, Value(frames[1])) EXCEPT !.queue[s] = @ \o frames]
  ELSE [c EXCEPT !.queue[s] = @ \o frames]

\* deliverMessage(), and its like for handshake frames, for the frames of one data event.
Delivered(c, s, frames) ==
  IF frames # <<>> /\ s \in c.parked
  THEN [Settle(c, s, Value(frames[1])) EXCEPT !.queue[s] = @ \o Tail(frames)]
  ELSE [c EXCEPT !.queue[s] = @ \o frames]

\* The i-th frame of the buffer starts at unit 2i - 1.
FrameAt(c, i) == c.recvBuffer[2 * i - 1].frame
Headers(c) == (Len(c.recvBuffer) + 1) \div 2
Complete(c) == Len(c.recvBuffer) \div 2

\* What tryDrainPlaintextFrame() and tryDrainNoiseFrame() have against frame i: a wrong
\* indicator and an excessive length show in the header, a failed decryption needs the body.
Objection(c, i) ==
  LET f == FrameAt(c, i) IN
    IF (c.phase = "plaintext") # (f.wire = "plain")
    THEN IF c.phase = "noise-handshake" THEN "PEER_PLAINTEXT_DURING_NOISE" ELSE "PROTOCOL_MISMATCH"
    ELSE IF f.huge THEN "FRAME_TOO_LARGE"
    ELSE IF /\ c.phase = "noise-data" /\ i <= Complete(c)
            /\ f.is # "message" \/ f.n # c.rx + i \/ ~f.ok
         THEN "DECRYPT_FAILED"
    ELSE None

\* drainInbound(): complete frames are taken up to the first one refused.
Drained(c) ==
  LET taken == CHOOSE j \in 0..Complete(c) :
                 /\ \A i \in 1..j : Objection(c, i) = None
                 /\ j = Complete(c) \/ Objection(c, j + 1) # None
      frames == [i \in 1..taken |-> FrameAt(c, i)]
      rest == [c EXCEPT !.recvBuffer = SubSeq(@, 2 * taken + 1, Len(@)),
                        !.rx = IF c.phase = "noise-data" THEN @ + taken ELSE @]
      next == Delivered(rest, IF c.phase = "noise-handshake" THEN "handshake" ELSE "message", frames)
  IN  IF c.terminated # None THEN c
      ELSE IF taken < Headers(c) /\ Objection(c, taken + 1) # None
      THEN Failed(next, Objection(c, taken + 1))
      ELSE next

\* handleData()
Received(c, units) ==
  IF Len(c.recvBuffer) + Len(units) > recvLimit
  THEN Failed(c, "RECV_BUFFER_OVERFLOW")
  ELSE Drained([c EXCEPT !.recvBuffer = @ \o units])

Shifted(c, s) == [c EXCEPT !.queue[s] = Tail(@), !.given[s] = Value(Head(c.queue[s]))]
Parked(c, s) == [c EXCEPT !.parked = @ \cup {s}]

\* nextMessage(): what is queued comes before the end.
NextMessage(c) ==
  IF c.queue.message # <<>> THEN Shifted(c, "message")
  ELSE IF c.terminated # None THEN Settle(c, "message", Ending("message", c.terminated))
  ELSE Parked(c, "message")

\* nextNoiseHandshakeFrame(): an error comes before what is queued.
NextNoiseHandshakeFrame(c) ==
  IF c.terminated # None THEN Settle(c, "handshake", Error(c.terminated))
  ELSE IF c.queue.handshake # <<>> THEN Shifted(c, "handshake")
  ELSE Parked(c, "handshake")

\* installCipher(): what is still queued is dropped, what is still unparsed is data.
CipherInstalled(c) ==
  Drained([c EXCEPT !.phase = "noise-data", !.queue.handshake = <<>>])

Taken(c, s) == [c EXCEPT !.given[s] = None]
-----------------------------------------------------------------------------
(* The connection attempt. *)

\* performNoiseHandshake() up to its first send.
EnterNoiseHandshake ==
  /\ stage = "start" /\ psk /\ ~reopened
  /\ IF t.terminated = None
     THEN /\ t' = [t EXCEPT !.phase = "noise-handshake"]
          /\ asked' = 1 /\ stage' = "sent"
     ELSE stage' = "failed" /\ UNCHANGED <<t, asked>>
  /\ UNCHANGED <<options, round, reopened, reader, line, answered, written>>

\* The send's callback, and nextNoiseHandshakeFrame().
AwaitFrame ==
  /\ stage = "sent"
  /\ stage' = "waiting"
  /\ t' = NextNoiseHandshakeFrame(t)
  /\ UNCHANGED <<options, round, reopened, reader, device>>

\* The send's callback reports an error, or the socket is gone: the handshake gives up.
SendFails ==
  /\ stage = "sent"
  /\ stage' = "failed"
  /\ UNCHANGED <<options, t, round, reopened, reader, device>>

Holds(how) == stage = "waiting" /\ t.given.handshake # None /\ t.given.handshake.how = how

\* The server hello is good: the client's key goes out.
HelloAccepted ==
  /\ Holds("value") /\ round = 1 /\ t.given.handshake.frame.ok
  /\ t' = Taken(t, "handshake")
  /\ IF t.terminated = None
     THEN round' = 2 /\ asked' = 2 /\ stage' = "sent"
     ELSE stage' = "failed" /\ UNCHANGED <<round, asked>>
  /\ UNCHANGED <<options, reopened, reader, line, answered, written>>

\* The server's reply authenticates it.
ReplyAccepted ==
  /\ Holds("value") /\ round = 2 /\ t.given.handshake.frame.ok
  /\ t' = CipherInstalled(Taken(t, "handshake"))
  /\ stage' = "keyed"
  /\ UNCHANGED <<options, round, reopened, reader, device>>

\* Another protocol or name, a rejected key, a reply that does not authenticate; or an error
\* that says nothing about encryption.
HandshakeFails ==
  /\ \/ Holds("value") /\ ~t.given.handshake.frame.ok
     \/ Holds("error") /\ t.given.handshake.cause \notin NoNoise
  /\ t' = Taken(t, "handshake")
  /\ stage' = "failed"
  /\ UNCHANGED <<options, round, reopened, reader, device>>

\* Mutant: the slot is not cleared.
HandshakeTimesOutParked ==
  /\ stage = "waiting" /\ "handshake" \in t.parked
  /\ stage' = "failed"
  /\ UNCHANGED <<options, t, round, reopened, reader, device>>

\* The handshake's timeout, or the attempt's signal: cancelAwaiter().
HandshakeTimesOut ==
  /\ stage = "waiting" /\ "handshake" \in t.parked
  /\ t' = [t EXCEPT !.parked = @ \ {"handshake"}]
  /\ stage' = "failed"
  /\ UNCHANGED <<options, round, reopened, reader, device>>

\* Mutant: the new connection is tried with Noise again.
FallBackToNoise ==
  /\ Holds("error") /\ t.given.handshake.cause \in NoNoise
  /\ t' = Opened
  /\ stage' = "start" /\ round' = 1 /\ reopened' = FALSE
  /\ line' = <<>> /\ asked' = 0 /\ answered' = 0 /\ written' = 0
  /\ UNCHANGED <<options, reader>>

\* connectInternal() answers a PeerClosedDuringNoiseError by a new connection.
FallBack ==
  /\ Holds("error") /\ t.given.handshake.cause \in NoNoise
  /\ t' = Opened
  /\ stage' = "start" /\ round' = 1 /\ reopened' = TRUE
  /\ line' = <<>> /\ asked' = 0 /\ answered' = 0 /\ written' = 0
  /\ UNCHANGED <<options, reader>>

\* No key, or after the fallback: performPlaintextHandshake() on the plain connection.
StayInPlaintext ==
  /\ stage = "start" /\ (psk => reopened)
  /\ stage' = IF t.terminated = None THEN "plain" ELSE "failed"
  /\ UNCHANGED <<options, t, round, reopened, reader, device>>
-----------------------------------------------------------------------------
(* The reader of the iterator: the message receiver's pump. *)

Reading == stage \in {"keyed", "plain"} /\ finished = "no"

ReadNext ==
  /\ Reading /\ "message" \notin t.parked /\ t.given.message = None
  /\ t' = NextMessage(t)
  /\ UNCHANGED <<options, flow, reader, device>>

ReaderResumes ==
  /\ t.given.message # None
  /\ t' = Taken(t, "message")
  /\ IF t.given.message.how = "value"
     THEN read' = Append(read, t.given.message.frame) /\ UNCHANGED finished
     ELSE UNCHANGED read /\ finished' = t.given.message.how
  /\ UNCHANGED <<options, flow, device>>

\* The pump leaves its loop: return().
ReaderReturns ==
  /\ Reading /\ "message" \notin t.parked /\ t.given.message = None
  /\ finished' = "done"
  /\ UNCHANGED <<options, t, flow, read, device>>

\* The attempt's failure, or the end of the session.
Dispose ==
  /\ stage \in {"keyed", "plain", "failed"} /\ t.terminated = None
  /\ t' = Failed(t, "TRANSPORT_DISPOSED")
  /\ UNCHANGED <<options, flow, reader, device>>
-----------------------------------------------------------------------------
(* The socket and the device.                                              *)
(*   "noise"   answers each handshake frame, and writes when it is keyed   *)
(*   "plain"   answers a handshake frame in plaintext                      *)
(*   "eager"   like "noise", and writes as soon as it has answered         *)
(*   "faulty"  answers and writes frames that are refused                  *)

DataArrives(n) ==
  /\ Settled /\ t.terminated = None /\ n <= Len(line)
  /\ t' = Received(t, SubSeq(line, 1, n))
  /\ line' = SubSeq(line, n + 1, Len(line))
  /\ UNCHANGED <<options, flow, reader, asked, answered, written>>

\* "close", after the device's last byte.
PeerCloses ==
  /\ Settled /\ t.terminated = None /\ line = <<>>
  /\ t' = Failed(t, IF t.phase = "noise-handshake" THEN "PEER_CLOSED_NOISE" ELSE "PEER_CLOSED")
  /\ UNCHANGED <<options, flow, reader, device>>

\* "error": what is under way is lost.
SocketFails ==
  /\ Settled /\ t.terminated = None
  /\ t' = Failed(t, "ESOCKET")
  /\ UNCHANGED <<options, flow, reader, device>>

Send(f) == line' = line \o <<[frame |-> f, part |-> "header"], [frame |-> f, part |-> "body"]>>

DeviceAnswers(good) ==
  /\ answered < asked
  /\ kind # "faulty" => good
  /\ Send([wire |-> IF kind = "plain" THEN "plain" ELSE "noise", is |-> "handshake", n |-> 0,
           ok |-> good, huge |-> FALSE])
  /\ answered' = answered + 1
  /\ UNCHANGED <<options, t, flow, reader, asked, written>>

DeviceWrites(good, huge) ==
  /\ written < MaxMessages
  /\ \/ stage = "keyed" /\ kind # "plain"
     \/ stage = "plain"
     \/ kind = "eager" /\ answered = 2
  /\ kind # "faulty" => good /\ ~huge
  /\ Send([wire |-> IF kind = "plain" \/ (kind = "faulty" /\ stage = "plain") THEN "plain" ELSE "noise",
           is |-> "message", n |-> written + 1, ok |-> good, huge |-> huge])
  /\ written' = written + 1
  /\ UNCHANGED <<options, t, flow, reader, asked, answered>>

Next ==
  \/ EnterNoiseHandshake \/ AwaitFrame \/ SendFails \/ HelloAccepted \/ ReplyAccepted
  \/ HandshakeFails \/ HandshakeTimesOut \/ FallBack \/ StayInPlaintext
  \/ ReadNext \/ ReaderResumes \/ ReaderReturns \/ Dispose
  \/ \E n \in 1..MaxChunk : DataArrives(n)
  \/ PeerCloses \/ SocketFails
  \/ \E good, huge \in BOOLEAN : DeviceAnswers(good) \/ DeviceWrites(good, huge)

\* The client's own code goes on, and its timer fires.
Fairness ==
  /\ WF_vars(EnterNoiseHandshake \/ AwaitFrame \/ SendFails \/ HelloAccepted \/ ReplyAccepted
             \/ HandshakeFails \/ FallBack \/ StayInPlaintext)
  /\ WF_vars(HandshakeTimesOut)
  /\ WF_vars(ReadNext) /\ WF_vars(ReaderResumes)

Spec == Init /\ [][Next]_vars
-----------------------------------------------------------------------------
\* No one waits for what is there: not beside a queued or an unparsed frame, not on a
\* transport that has ended.
WaitersAreReachable ==
  /\ t.terminated # None => t.parked = {}
  /\ \A s \in t.parked : t.queue[s] = <<>>
  /\ t.terminated = None => Complete(t) = 0

Given == IF t.given.message # None /\ t.given.message.how = "value"
         THEN <<t.given.message.frame>> ELSE <<>>
Messages == read \o Given \o t.queue.message

\* A device that speaks the wire it was asked for, as far as it got.
Honest == kind = "plain" \/ (kind = "noise" /\ psk /\ ~reopened)

\* Whatever the pieces the bytes came in, the iterator yields the device's messages in
\* order, each once; and on a connection that has not ended none is missing.
MessagesInOrder ==
  /\ \A i \in DOMAIN Messages : Messages[i].n = i
  /\ (Honest /\ t.terminated = None /\ stage \in {"keyed", "plain"}) =>
       2 * (written - Len(Messages)) = Len(t.recvBuffer) + Len(line)

\* With room for a frame and a piece, a device that keeps to the protocol is never refused:
\* no frame of it is read in the wrong phase, with the wrong nonce, or found too much.
HonestDevicesAreUnderstood == Honest /\ recvLimit > MaxChunk => t.terminated \notin Faults

\* Both: what a device says is heard, all of it, once and in order.
DevicesAreHeard == MessagesInOrder /\ HonestDevicesAreUnderstood

\* The handshake ends: keyed, in plaintext, or with an error.
HandshakeEnds == <>(stage \in {"keyed", "plain", "failed"})

\* A reader hears of the end of its transport.
ReadersHearOfTheEnd ==
  (t.terminated # None /\ stage \in {"keyed", "plain"}) ~> finished # "no"

(* A statement of the comments that the code does not keep; see README. *)

\* "Re-drive inbound parsing in case bytes have already arrived ahead of the cipher install."
EarlyDataIsRead ==
  kind = "eager" /\ psk /\ ~reopened /\ recvLimit > MaxChunk => t.terminated \notin Faults
=============================================================================
