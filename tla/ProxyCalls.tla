----------------------------- MODULE ProxyCalls -----------------------------
(***************************************************************************)
(* Calls that ask the device something and wait, and have no id of their   *)
(* own on the wire: the serial proxy's getModemPins() and flush(), the     *)
(* client's setNoiseEncryptionKey(), the voice assistant's announce() and  *)
(* configuration().  The first three wait in a Correlator, one call a      *)
(* time for an instance; the last two wait for the next event on the bus,  *)
(* any number of them, and whatever becomes of the connection.             *)
(***************************************************************************)
EXTENDS Naturals, Sequences, FiniteSets

CONSTANTS
  Callers, Instances,
  None,                 \* no answer, no configuration
  MaxLinks, MaxAsked    \* bounds: connections, requests

VARIABLES
  link,     \* the number of the connection, and "down", "opening", "up" or "broken"
  calls,    \* per caller: what it asked and how that ended
  out, in,  \* the requests and the answers on their way
  cached,   \* cachedConfig: the number of the answer and its connection
  asked,    \* the number of requests that were asked
  late      \* history: what calls of this connection gave up waiting for

vars == <<link, calls, out, in, cached, asked, late>>

Correlated == ({"pins", "flush"} \X Instances) \cup {<<"key", "default">>}
Once == {<<"announce", "bus">>, <<"config", "bus">>}
Slots == Correlated \cup Once

Idle == [stage |-> "idle", slot |-> None, asked |-> 0, link |-> 0, got |-> None, clean |-> TRUE]

Init ==
  /\ link = [n |-> 0, stage |-> "down"]
  /\ calls = [c \in Callers |-> Idle]
  /\ out = <<>> /\ in = <<>>
  /\ cached = None /\ asked = 0 /\ late = {}

Waiting(slot) == {c \in Callers : calls[c].stage = "waiting" /\ calls[c].slot = slot}

\* frameAndSend(): without a transport, before the handshake's end or on a broken socket the
\* request is lost.
FrameAndSend(request) == out' = IF link.stage = "up" THEN Append(out, request) ELSE out

-----------------------------------------------------------------------------
(* The callers. *)

Ask(c, slot) ==
  /\ calls[c].stage # "waiting" /\ asked < MaxAsked
  /\ asked' = asked + 1
  /\ calls' = [calls EXCEPT ![c] = [stage |-> "waiting", slot |-> slot, asked |-> asked', link |-> link.n,
                                     got |-> None, clean |-> slot \notin late]]
  /\ FrameAndSend([slot |-> slot, asked |-> asked'])
  /\ UNCHANGED <<link, in, cached, late>>

\* Of a second call for the same instance, and of a key of a wrong length, nothing is sent.
GetModemPins(c, i) == Waiting(<<"pins", i>>) = {} /\ Ask(c, <<"pins", i>>)
Flush(c, i) == Waiting(<<"flush", i>>) = {} /\ Ask(c, <<"flush", i>>)
SetNoiseEncryptionKey(c) == Waiting(<<"key", "default">>) = {} /\ Ask(c, <<"key", "default">>)

Announce(c) == Ask(c, <<"announce", "bus">>)

\* configuration(): without refresh, what is cached is enough.
Configuration(c, refresh) ==
  \/ /\ refresh \/ cached = None
     /\ Ask(c, <<"config", "bus">>)
  \/ /\ ~refresh /\ cached # None /\ calls[c].stage # "waiting"
     /\ calls' = [calls EXCEPT ![c] = [Idle EXCEPT !.stage = "answered", !.slot = <<"config", "bus">>,
                                       !.asked = asked, !.link = link.n, !.got = cached]]
     /\ UNCHANGED <<link, out, in, cached, asked, late>>

\* The caller's timeout or its signal.
GivesUp(c) ==
  /\ calls[c].stage = "waiting"
  /\ calls' = [calls EXCEPT ![c].stage = "gave up"]
  /\ late' = late \cup {calls[c].slot}
  /\ UNCHANGED <<link, out, in, cached, asked>>

-----------------------------------------------------------------------------
(* The device answers in order, or not at all, or without a field that the answer must have. *)

DeviceAnswers ==
  /\ out # <<>> /\ link.stage = "up"
  /\ out' = Tail(out)
  /\ \/ in' = in
     \/ \E whole \in BOOLEAN :
          in' = Append(in, [slot |-> Head(out).slot, asked |-> Head(out).asked, link |-> link.n, whole |-> whole])
  /\ UNCHANGED <<link, calls, cached, asked, late>>

Answered(c, m) == [calls[c] EXCEPT !.stage = "answered", !.got = [asked |-> m.asked, link |-> m.link]]

\* acceptModemPinsResponse(), acceptRequestResponse(), handleNoiseKeySetResponse(): an answer that
\* lacks a field, and one that nobody waits for, is dropped.  A key's answer lacks nothing.
AcceptCorrelated(m) ==
  /\ m.slot \in Correlated
  /\ calls' = [c \in Callers |-> IF c \in Waiting(m.slot) /\ (m.whole \/ m.slot[1] = "key")
                                 THEN Answered(c, m) ELSE calls[c]]
  /\ UNCHANGED cached

\* dispatchVoiceAssistantAnnounceFinished() and ...Configuration(): the event settles every wait.
\* The cache is the constructor's listener, registered before all of them.
AcceptEvent(m) ==
  /\ m.slot \in Once
  /\ calls' = [c \in Callers |-> IF c \in Waiting(m.slot) THEN Answered(c, m) ELSE calls[c]]
  /\ cached' = IF m.slot[1] = "config" THEN [asked |-> m.asked, link |-> m.link] ELSE cached

Accept ==
  /\ in # <<>> /\ link.stage \in {"up", "broken"}
  /\ in' = Tail(in)
  /\ AcceptCorrelated(Head(in)) \/ AcceptEvent(Head(in))
  /\ UNCHANGED <<link, out, asked, late>>

-----------------------------------------------------------------------------
(* The connection. *)

\* Mutant: clearConnectionState() rejects no read of the modem pins.
ClearKeepsPins ==
  /\ calls' = [c \in Callers |-> IF calls[c].stage = "waiting" /\ calls[c].slot \in Correlated
                                    /\ calls[c].slot[1] # "pins"
                                 THEN [calls[c] EXCEPT !.stage = "reset"] ELSE calls[c]]
  /\ cached' = None /\ out' = <<>> /\ in' = <<>> /\ late' = {}

\* rejectAll() on every correlator, and the voice assistant forgets the configuration.
ClearConnectionState ==
  /\ calls' = [c \in Callers |-> IF calls[c].stage = "waiting" /\ calls[c].slot \in Correlated
                                 THEN [calls[c] EXCEPT !.stage = "reset"] ELSE calls[c]]
  /\ cached' = None /\ out' = <<>> /\ in' = <<>> /\ late' = {}

\* The top of connectInternal(), on a connection that is down or not.
Opens ==
  /\ link.n < MaxLinks
  /\ link' = [n |-> link.n + 1, stage |-> "opening"]
  /\ ClearConnectionState
  /\ UNCHANGED asked

Established ==
  /\ link.stage = "opening"
  /\ link' = [link EXCEPT !.stage = "up"]
  /\ UNCHANGED <<calls, out, in, cached, asked, late>>

\* The socket is gone; what was received is still dispatched.
Breaks ==
  /\ link.stage = "up"
  /\ link' = [link EXCEPT !.stage = "broken"]
  /\ out' = <<>>
  /\ UNCHANGED <<calls, in, cached, asked, late>>

\* disconnectInternal()
Closes ==
  /\ link.stage # "down"
  /\ link' = [link EXCEPT !.stage = "down"]
  /\ ClearConnectionState
  /\ UNCHANGED asked

Next ==
  \/ \E c \in Callers :
       \/ \E i \in Instances : GetModemPins(c, i) \/ Flush(c, i)
       \/ SetNoiseEncryptionKey(c) \/ Announce(c) \/ GivesUp(c)
       \/ \E refresh \in BOOLEAN : Configuration(c, refresh)
  \/ DeviceAnswers \/ Accept \/ Opens \/ Established \/ Breaks \/ Closes

Spec == Init /\ [][Next]_vars
-----------------------------------------------------------------------------
TypeOK ==
  /\ link.n \in 0..MaxLinks /\ link.stage \in {"down", "opening", "up", "broken"}
  /\ \A c \in Callers : calls[c].stage \in {"idle", "waiting", "answered", "gave up", "reset"}
  /\ \A c \in Callers : calls[c].stage # "idle" => calls[c].slot \in Slots
  /\ \A s \in Correlated : Cardinality(Waiting(s)) <= 1
  /\ asked \in 0..MaxAsked /\ late \subseteq Slots

\* An answer has no id, and still: a call in a Correlator is answered on the connection it was made
\* on, and by the answer to its own request as long as no call before it gave up waiting there.
AnswersAreTheirOwn ==
  \A c \in Callers : calls[c].stage = "answered" /\ calls[c].slot \in Correlated =>
    /\ calls[c].got.link = calls[c].link
    /\ calls[c].clean => calls[c].got.asked = calls[c].asked

\* No call in a Correlator waits beyond the connection it was made on.
NoCallOutlivesItsConnection ==
  \A c \in Callers : calls[c].stage = "waiting" /\ calls[c].slot \in Correlated => calls[c].link = link.n

\* What configuration() can answer with at once was told by the device on this connection.
CacheIsOfThisConnection == cached # None => cached.link = link.n /\ link.stage \in {"up", "broken"}
=============================================================================
