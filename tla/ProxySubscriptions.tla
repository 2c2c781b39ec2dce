------------------------- MODULE ProxySubscriptions -------------------------
(***************************************************************************)
(* What the serial, Z-Wave, Bluetooth and voice sub-APIs and the Home      *)
(* Assistant bridge ask a device to send until further notice, across      *)
(* reconnects.  A stream of data holds a handle of a                       *)
(* ReissuableSubscription (module Ledger) from the call on, and the        *)
(* generator's finally, which does not run when nothing was ever read,     *)
(* releases it.  The others keep one intent.                               *)
(***************************************************************************)
EXTENDS Naturals, Sequences, FiniteSets, SequencesExt

CONSTANTS
  Readers,     \* streams
  Ports,       \* serial instances
  Channels,    \* what they read: a port, "zwave", "advertisements", "free", "notify", or some of them
  Retained,    \* channels that are never unsubscribed: connectionsFree()
  Replayed,    \* channels that are only asked for on a reconnect: notify data
  Intents,     \* "services", "states", "voice", or some of them
  HomeIds,     \* 0 is no home
  None,        \* not observed
  MaxLinks, MaxSent, MaxHomes   \* bounds: connections, frames on their way, changes of the home

Off == 0

VARIABLES
  link,      \* number and stage of the connection
  readers,   \* per reader: "none", "fresh" (nothing was read yet), "reading" or "lost"; its channel;
             \* and the last connection that was established before it
  cache,     \* the wire cache of the two ReissuableSubscriptions
  desired,   \* per intent: Off, or what was asked; for the voice assistant one more than its flags
  out, in,   \* frames on their way
  device,    \* what the device sends, and its home
  home,      \* the home in deviceInfo, observedHomeId, whether client.zwave was ever read
  missed     \* history: a change of the home came before client.zwave was read, on this connection

vars == <<link, readers, cache, desired, out, in, device, home, missed>>

Nothing == [c \in Channels \cup Intents |-> Off]

NoReader == [stage |-> "none", channel |-> CHOOSE c \in Channels : TRUE, since |-> 0]

Init ==
  /\ link = [n |-> 0, stage |-> "down"]
  /\ readers = [r \in Readers |-> NoReader]
  /\ cache = [c \in Channels |-> FALSE]
  /\ desired = [i \in Intents |-> Off]
  /\ out = <<>> /\ in = <<>>
  /\ device \in [sends : {Nothing}, home : HomeIds, changes : {0}]
  /\ home = [info |-> 0, observed |-> None, created |-> FALSE]
  /\ missed = FALSE

Send(frames) == out' = IF link.stage = "up" THEN out \o frames ELSE out

Holders(channel, rs) == {r \in Readers : rs[r].stage # "none" /\ rs[r].channel = channel}

\* The ledger's recompute() for one channel: a frame goes out when the cache says otherwise.
Recompute(channel, rs) ==
  LET wanted == Holders(channel, rs) # {}
      is == IF wanted = cache[channel] \/ (~wanted /\ channel \in Retained) THEN cache[channel] ELSE wanted
  IN  /\ cache' = [cache EXCEPT ![channel] = is]
      /\ Send(IF is = cache[channel] \/ channel \in Replayed THEN <<>>
              ELSE <<[on |-> channel, is |-> IF wanted THEN 1 ELSE Off]>>)

-----------------------------------------------------------------------------
(* The consumers. *)

\* The handle is acquired by the call, before the first read.
OpenReader(r, channel) ==
  /\ channel \in Channels /\ readers[r].stage = "none" /\ Len(out) < MaxSent
  /\ readers' = [readers EXCEPT ![r] = [stage |-> "fresh", channel |-> channel,
                                       since |-> IF link.stage = "opening" THEN link.n - 1 ELSE link.n]]
  /\ Recompute(channel, readers')
  /\ UNCHANGED <<link, desired, in, device, missed>>

Data(r, instance) == OpenReader(r, instance) /\ UNCHANGED home
Advertisements(r) == OpenReader(r, "advertisements") /\ UNCHANGED home
ConnectionsFree(r) == OpenReader(r, "free") /\ UNCHANGED home
Notify(r) == OpenReader(r, "notify") /\ UNCHANGED home
Frames(r) == OpenReader(r, "zwave") /\ home' = [home EXCEPT !.created = TRUE]

FirstRead(r) ==
  /\ readers[r].stage = "fresh"
  /\ readers' = [readers EXCEPT ![r].stage = "reading"]
  /\ UNCHANGED <<link, cache, desired, out, in, device, home, missed>>

\* Break, return or abort: finally releases the handle, in a generator that has started.
CloseReader(r) ==
  /\ readers[r].stage \in {"fresh", "reading"} /\ Len(out) < MaxSent
  /\ readers' = [readers EXCEPT ![r] = IF @.stage = "fresh" THEN [@ EXCEPT !.stage = "lost"] ELSE NoReader]
  /\ Recompute(readers[r].channel, readers')
  /\ UNCHANGED <<link, desired, in, device, home, missed>>

\* subscribeServices(), subscribeStates(), voiceAssistant.subscribe(flags) and unsubscribe().
Subscribe(intent, value) ==
  /\ Len(out) < MaxSent /\ (value = Off => intent = "voice") /\ (value > 1 => intent = "voice")
  /\ desired' = [desired EXCEPT ![intent] = value]
  /\ Send(<<[on |-> intent, is |-> value]>>)
  /\ UNCHANGED <<link, readers, cache, in, device, home, missed>>

\* The first access of client.zwave builds the API.
ReadZwave ==
  /\ ~home.created
  /\ home' = [home EXCEPT !.created = TRUE]
  /\ UNCHANGED <<link, readers, cache, desired, out, in, device, missed>>

\* homeId(): what was observed on this connection comes first, and 0 is no home.
HomeId ==
  IF home.observed # None THEN IF home.observed > 0 THEN home.observed ELSE None
  ELSE IF home.info > 0 THEN home.info ELSE None

-----------------------------------------------------------------------------
(* The device. *)

DeviceTakes ==
  /\ out # <<>> /\ link.stage = "up"
  /\ out' = Tail(out)
  /\ device' = [device EXCEPT !.sends[Head(out).on] = Head(out).is]
  /\ UNCHANGED <<link, readers, cache, desired, in, home, missed>>

DeviceHomeChanges(h) ==
  /\ h # device.home /\ device.changes < MaxHomes /\ Len(in) < MaxSent
  /\ device' = [device EXCEPT !.home = h, !.changes = @ + 1]
  /\ in' = IF link.stage = "up" THEN Append(in, h) ELSE in
  /\ UNCHANGED <<link, readers, cache, desired, out, home, missed>>

\* acceptRequest(), of the Z-Wave API if there is one.  A short home and another type are ignored.
AcceptHome ==
  /\ in # <<>>
  /\ home' = IF home.created THEN [home EXCEPT !.observed = Head(in)] ELSE home
  /\ missed' = (missed \/ ~home.created)
  /\ in' = Tail(in)
  /\ UNCHANGED <<link, readers, cache, desired, out, device>>

-----------------------------------------------------------------------------
(* The connection. *)

\* The wire cache and what was observed go, the readers and the intents stay.
ClearConnectionState ==
  /\ cache' = [c \in Channels |-> FALSE]
  /\ home' = [home EXCEPT !.observed = None]
  /\ out' = <<>> /\ in' = <<>> /\ missed' = FALSE

Opens ==
  /\ link.n < MaxLinks
  /\ link' = [n |-> link.n + 1, stage |-> "opening"]
  /\ device' = [device EXCEPT !.sends = Nothing]
  /\ ClearConnectionState
  /\ UNCHANGED <<readers, desired>>

\* reissueOnReconnect() of the ledgers clears the cache, then asks for every channel with a handle.
Reissued == [c \in Channels |-> Holders(c, readers) # {}]

\* The device's info was read during the handshake; then reissueOnReconnect() of each participant,
\* in their order: the frames of two of them have nothing in common, so any order will do.
Established ==
  /\ link.stage = "opening"
  /\ link' = [link EXCEPT !.stage = "up"]
  /\ home' = [home EXCEPT !.info = device.home]
  /\ out' = SetToSeq({[on |-> c, is |-> 1] : c \in {k \in Channels : Holders(k, readers) # {}}}
                       \cup {[on |-> i, is |-> desired[i]] : i \in {j \in Intents : desired[j] # Off}})
  /\ cache' = Reissued
  /\ UNCHANGED <<readers, desired, in, device, missed>>

Breaks ==
  /\ link.stage = "up"
  /\ link' = [link EXCEPT !.stage = "broken"]
  /\ out' = <<>>
  /\ UNCHANGED <<readers, cache, desired, in, device, home, missed>>

Closes ==
  /\ link.stage # "down"
  /\ link' = [link EXCEPT !.stage = "down"]
  /\ ClearConnectionState
  /\ UNCHANGED <<readers, desired, device>>

Next ==
  \/ \E r \in Readers : FirstRead(r) \/ CloseReader(r)
  \/ \E r \in Readers : Frames(r) \/ Advertisements(r) \/ ConnectionsFree(r) \/ Notify(r)
  \/ \E r \in Readers, i \in Ports : Data(r, i)
  \/ \E i \in Intents, value \in 0..2 : Subscribe(i, value)
  \/ ReadZwave \/ DeviceTakes \/ (\E h \in HomeIds : DeviceHomeChanges(h))
  \/ AcceptHome \/ Opens \/ Established \/ Breaks \/ Closes

Spec == Init /\ [][Next]_vars
-----------------------------------------------------------------------------
TypeOK ==
  /\ link.n \in 0..MaxLinks /\ link.stage \in {"down", "opening", "up", "broken"}
  /\ readers \in [Readers -> [stage : {"none", "fresh", "reading", "lost"}, channel : Channels, since : 0..MaxLinks]]
  /\ cache \in [Channels -> BOOLEAN] /\ desired \in [Intents -> 0..2]
  /\ device.home \in HomeIds /\ home.info \in HomeIds /\ home.observed \in HomeIds \cup {None}

\* A device that has read what it was sent on this connection serves just what is held and desired,
\* whatever was asked for before, meanwhile, and while the handshake ran; of what is never
\* unsubscribed, or only replayed, at least that.
DeviceServesTheDesired ==
  link.stage = "up" /\ out = <<>> =>
    /\ \A c \in Channels \ (Retained \cup Replayed) : (device.sends[c] = 1) = (Holders(c, readers) # {})
    /\ \A c \in Retained : Holders(c, readers) # {} => device.sends[c] = 1
    /\ \A c \in Replayed : (\E r \in Holders(c, readers) : readers[r].since < link.n) => device.sends[c] = 1
    /\ \A i \in Intents : device.sends[i] = desired[i]

\* The home that homeId() tells is the device's own, once all was read; but for one whose change
\* came before the program asked for client.zwave.
HomeIsCurrent ==
  link.stage = "up" /\ in = <<>> /\ ~missed => HomeId = IF device.home > 0 THEN device.home ELSE None
=============================================================================
