------------------------------ MODULE Heartbeat ------------------------------
(***************************************************************************)
(* HeartbeatScheduler and the session around it: when inbound silence ends *)
(* a connection.                                                           *)
(*                                                                         *)
(* Time is discrete and kept as ages: how long ago something was stamped.  *)
(* A timer that is due fires before time goes on, if Punctual; the device  *)
(* answers a ping within AnswerWithin, or need not.                        *)
(***************************************************************************)
EXTENDS Naturals, Sequences, HeartbeatTimes

\* Ages are not told apart from here on.
Oldest == StallTimeout + Interval + Period + AnswerWithin
Age == 0..Oldest
Older(a) == IF a < Oldest THEN a + 1 ELSE a

VARIABLES
  marker,   \* age of pingSentAtMs, or None: no ping in flight
  health,   \* healthRecord.state
  wire,     \* pings of this connection the device has not answered, in order
  rtt       \* history: the last round trip, as measured and as it was

vars == <<answers, timer, idle, marker, link, health, wire, verdict, rtt>>

Pings == [by : {"heartbeat", "user"}, age : Age]

\* Types, and no ping is in flight when the scheduler is stopped.
TypeOK ==
  /\ answers \in BOOLEAN
  /\ timer \in 0..Period \cup {None}
  /\ idle \in Age
  /\ marker \in Age \cup {None}
  /\ marker # None => timer # None
  /\ link \in {"none", "opening", "up"}
  /\ health \in {"down", "connected", "stalled"}
  /\ wire \in Seq(Pings)
  /\ verdict \in [up : BOOLEAN, pinged : BOOLEAN] \cup {None}
  /\ rtt \in [measured : Age, actual : Age] \cup {None}

Init ==
  /\ answers \in BOOLEAN
  /\ timer = None /\ idle = 0 /\ marker = None
  /\ link = "none" /\ health = "down"
  /\ wire = <<>> /\ verdict = None /\ rtt = None

Pinged == \E i \in DOMAIN wire : wire[i].by = "heartbeat"
-----------------------------------------------------------------------------
\* One unit of time passes.
Pass ==
  /\ Punctual => timer # 0
  /\ answers => \A i \in DOMAIN wire : wire[i].age < AnswerWithin
  /\ timer' = IF timer \in {None, 0} THEN timer ELSE timer - 1
  /\ idle' = Older(idle)
  /\ marker' = IF marker = None THEN None ELSE Older(marker)
  /\ wire' = [i \in DOMAIN wire |-> [wire[i] EXCEPT !.age = Older(@)]]
  /\ UNCHANGED <<answers, link, health, verdict, rtt>>

\* connectInternal() from its top to its first wait: the old transport is disposed, the
\* heartbeat and the health record are not touched.
Connect ==
  /\ link = "none" \/ (OverLive /\ link = "up")
  /\ link' = "opening" /\ wire' = <<>>
  /\ UNCHANGED <<answers, timer, idle, marker, health, verdict, rtt>>

\* Mutant: start() takes the handle of a stopped timer for a running one.
StartUntimed ==
  /\ link = "opening"
  /\ link' = "up" /\ health' = "connected"
  /\ idle' = 0
  /\ UNCHANGED <<answers, timer, marker, wire, verdict, rtt>>

\* The attempt succeeds: start() and the live health record.
Start ==
  /\ link = "opening"
  /\ link' = "up" /\ health' = "connected"
  /\ idle' = 0
  /\ timer' = IF timer = None THEN Period ELSE timer
  /\ UNCHANGED <<answers, marker, wire, verdict, rtt>>

\* The attempt fails.
Fail ==
  /\ link = "opening"
  /\ link' = "none"
  /\ UNCHANGED <<answers, timer, idle, marker, health, wire, verdict, rtt>>

\* stop()
Stop == timer' = None /\ marker' = None

\* disconnectInternal(): an attempt in progress is not its business.
Teardown ==
  /\ Stop
  /\ IF link = "up"
     THEN link' = "none" /\ wire' = <<>> /\ health' = "down"
     ELSE UNCHANGED <<link, wire>>

\* disconnect(), the device's farewell or the end of the socket.
Disconnect ==
  /\ Teardown
  /\ link # "up" => UNCHANGED health
  /\ UNCHANGED <<answers, idle, verdict, rtt>>

\* tick(), silent for StallTimeout: stop(), then onStall() and its disconnectInternal().
Stall ==
  /\ timer = 0 /\ idle >= StallTimeout
  /\ Teardown
  /\ link # "up" => health' = IF health = "down" THEN "down" ELSE "stalled"
  /\ verdict' = [up |-> link = "up", pinged |-> Pinged]
  /\ UNCHANGED <<answers, idle, rtt>>

\* frameAndSend(PING_REQUEST): dropped when there is no transport.
SendPing(who) ==
  wire' = IF link = "up" THEN Append(wire, [by |-> who, age |-> 0]) ELSE wire

\* tick(), silent for Interval and no ping in flight.
Ping ==
  /\ timer = 0 /\ idle >= Interval /\ idle < StallTimeout /\ marker = None
  /\ marker' = 0 /\ timer' = Period
  /\ SendPing("heartbeat")
  /\ UNCHANGED <<answers, idle, link, health, verdict, rtt>>

\* tick(), nothing to do.
Quiet ==
  /\ timer = 0 /\ idle < StallTimeout
  /\ idle < Interval \/ marker # None
  /\ timer' = Period
  /\ UNCHANGED <<answers, idle, marker, link, health, wire, verdict, rtt>>

\* stampInboundActivity()
Stamp == idle' = 0 /\ health' = IF health = "stalled" THEN "connected" ELSE health

\* A message of the device, other than an answer to a ping.
Inbound ==
  /\ link = "up"
  /\ Stamp
  /\ UNCHANGED <<answers, timer, marker, link, wire, verdict, rtt>>

\* Mutant: consumePingRtt() reads the marker and does not clear it.
PongKeepsMarker ==
  /\ link = "up" /\ wire # <<>>
  /\ Stamp
  /\ wire' = Tail(wire)
  /\ rtt' = IF marker = None THEN rtt ELSE [measured |-> marker, actual |-> Head(wire).age]
  /\ UNCHANGED <<answers, timer, marker, link, verdict>>

\* PING_RESPONSE: the stamp, then acknowledgePingResponse() and its consumePingRtt().
Pong ==
  /\ link = "up" /\ wire # <<>>
  /\ Stamp
  /\ wire' = Tail(wire)
  /\ marker' = None
  /\ rtt' = IF marker = None THEN rtt ELSE [measured |-> marker, actual |-> Head(wire).age]
  /\ UNCHANGED <<answers, timer, link, verdict>>

\* The user's sendPing().
UserPing ==
  /\ link = "up" /\ Len(wire) < MaxPings
  /\ SendPing("user")
  /\ UNCHANGED <<answers, timer, idle, marker, link, health, verdict, rtt>>

Next ==
  \/ Pass \/ Connect \/ Start \/ Fail \/ Disconnect
  \/ Stall \/ Ping \/ Quiet
  \/ Inbound \/ Pong \/ UserPing

Spec == Init /\ [][Next]_vars
-----------------------------------------------------------------------------
\* "if no inbound activity follows": a connection is declared stalled only after a ping it
\* left unanswered.
StallsWerePinged == verdict # None /\ verdict.up => verdict.pinged

(* Statements of the comments that the code does not keep; see README. *)

\* "A stall only fires while the socket is up."
StallsOnlyWhileUp == verdict # None => verdict.up

\* "Round-trip time of the most recent successful ping."
RttIsOfOnePing == rtt # None => rtt.measured = rtt.actual
=============================================================================
