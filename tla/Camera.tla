------------------------------- MODULE Camera -------------------------------
(***************************************************************************)
(* The CameraApi: reassembly of the chunks of an image, one buffer per     *)
(* camera, and the consumers of assembled images, snapshot() and stream(), *)
(* each behind its own stream of the bus (EventBus).                       *)
(*                                                                         *)
(* A chunk is <<image, index>>, and its length is 1: an image's size is    *)
(* the number of its chunks.  The device sends the chunks of an image in   *)
(* order, and forgets it when the connection ends.                         *)
(***************************************************************************)
EXTENDS Naturals, Sequences, FiniteSets, SequencesExt

CONSTANTS
  Cameras,
  Consumers,        \* calls of snapshot() and of stream()
  MaxImage,         \* maxImageBytes
  Sizes,            \* of the images the device sends
  HighWater,        \* highWaterMark of a stream of the bus
  MaxImages, MaxSessions  \* bounds

VARIABLES
  session,      \* number of the session, 0 before the first
  connected,
  sending,      \* of each camera: the image it is sending, [image, size, sent], or Nothing
  images,       \* images begun so far
  imageBuffers, \* of each camera
  consumer,     \* of each call: [kind, camera, stage, since, image]
  inbox,        \* of each call: what its stream of the bus holds
  assembled       \* history: every image emitted, [camera, chunks, size, session]

vars == <<session, connected, sending, images, imageBuffers, consumer, inbox, assembled>>

Nothing == [image |-> 0, size |-> 0, sent |-> 0]
Unused == [kind |-> "snapshot", camera |-> CHOOSE c \in Cameras : TRUE, stage |-> "none",
           since |-> 0, image |-> <<>>]

\* Stages of a call: called (a stream() that nobody reads yet), reading, ending (its signal
\* aborted or the bus was disposed: what is queued is still read), then one of the others.
Attached == {"called", "reading"}
Live == Attached \cup {"ending"}

Init ==
  /\ session = 0 /\ connected = FALSE
  /\ sending = [c \in Cameras |-> Nothing]
  /\ images = 0
  /\ imageBuffers = [c \in Cameras |-> <<>>]
  /\ consumer = [k \in Consumers |-> Unused]
  /\ inbox = [k \in Consumers |-> <<>>]
  /\ assembled = <<>>

TypeOK ==
  /\ session \in 0..MaxSessions /\ connected \in BOOLEAN /\ images \in 0..MaxImages
  /\ \A c \in Cameras : Len(imageBuffers[c]) <= MaxImage
  /\ \A k \in Consumers :
       /\ consumer[k].stage \in Live \cup {"none", "resolved", "failed", "stopped"}
       /\ inbox[k] # <<>> => consumer[k].stage \in Live

-----------------------------------------------------------------------------
(* Sessions. *)

\* Mutant: no reset at either session boundary.
KeepReassembly == UNCHANGED imageBuffers

\* resetReassembly(), on every camera.
ResetReassembly == imageBuffers' = [c \in Cameras |-> <<>>]

Connect ==
  /\ ~connected /\ session < MaxSessions
  /\ session' = session + 1
  /\ connected' = TRUE
  /\ ResetReassembly
  /\ UNCHANGED <<sending, images, consumer, inbox, assembled>>

\* The device forgets the image it was sending.
Disconnect ==
  /\ connected
  /\ connected' = FALSE
  /\ ResetReassembly
  /\ sending' = [c \in Cameras |-> Nothing]
  /\ UNCHANGED <<session, images, consumer, inbox, assembled>>

-----------------------------------------------------------------------------
(* Chunks. *)

\* An image that was asked for, here or by another client of the device.
BeginImage(c, size) ==
  /\ connected /\ sending[c] = Nothing
  /\ images < MaxImages
  /\ images' = images + 1
  /\ sending' = [sending EXCEPT ![c] = [image |-> images', size |-> size, sent |-> 0]]
  /\ UNCHANGED <<session, connected, imageBuffers, consumer, inbox, assembled>>

Event(c, chunks, size) == [camera |-> c, chunks |-> chunks, size |-> size, session |-> session]

\* A consumer of stream() may be slow, and a full queue drops its oldest image; the loop of
\* snapshot() never falls behind.
RoomIn(k) ==
  IF consumer[k].kind = "stream" /\ Len(inbox[k]) >= HighWater THEN Tail(inbox[k]) ELSE inbox[k]

\* bus.emit(): to every stream of the channel, whichever camera it is for.
EmitImage(e) ==
  /\ assembled' = Append(assembled, e)
  /\ inbox' = [k \in Consumers |-> IF consumer[k].stage \in Attached THEN Append(RoomIn(k), e) ELSE inbox[k]]

\* acceptChunk(): over the limit, what was buffered is dropped, and this chunk with it.
AcceptChunk(c, chunk, done, size) ==
  LET chunks == Append(imageBuffers[c], chunk)
      tooLong == Len(chunks) > MaxImage
  IN  /\ imageBuffers' = [imageBuffers EXCEPT ![c] = IF tooLong \/ done THEN <<>> ELSE chunks]
      /\ IF done /\ ~tooLong THEN EmitImage(Event(c, chunks, size)) ELSE UNCHANGED <<assembled, inbox>>

\* handleCameraImageResponse(), of an entity that is registered as a camera.
HandleCameraImageResponse(c) ==
  LET s == sending[c]
      done == s.sent + 1 = s.size
  IN  /\ connected /\ s # Nothing
      /\ AcceptChunk(c, <<s.image, s.sent + 1>>, done, s.size)
      /\ sending' = [sending EXCEPT ![c] = IF done THEN Nothing ELSE [s EXCEPT !.sent = @ + 1]]
      /\ UNCHANGED <<session, connected, images, consumer>>

-----------------------------------------------------------------------------
(* The consumers.  Their requests only make it likely that the device begins an image: it *)
(* may begin one at any time, and the request that stops a stream is a no-op there.        *)

BeginsCall(k, kind, c, stage) ==
  consumer' = [consumer EXCEPT ![k] = [kind |-> kind, camera |-> c, stage |-> stage,
                                       since |-> Len(assembled), image |-> <<>>]]

\* snapshot(): subscribes, then asks.
Snapshot(k, c) ==
  /\ consumer[k].stage = "none"
  /\ BeginsCall(k, "snapshot", c, "reading")
  /\ UNCHANGED <<session, connected, sending, images, imageBuffers, inbox, assembled>>

\* stream(): subscribes.
Stream(k, c) ==
  /\ consumer[k].stage = "none"
  /\ BeginsCall(k, "stream", c, "called")
  /\ UNCHANGED <<session, connected, sending, images, imageBuffers, inbox, assembled>>

\* The first next() of a stream(), which asks the device to start.
StartStream(k) ==
  /\ consumer[k].kind = "stream" /\ consumer[k].stage = "called"
  /\ consumer' = [consumer EXCEPT ![k].stage = "reading"]
  /\ UNCHANGED <<session, connected, sending, images, imageBuffers, inbox, assembled>>

\* The loop of both: the events of other cameras are skipped; snapshot() returns with the
\* first of its own, and leaving the loop closes its stream.
TakeImage(k) ==
  /\ consumer[k].stage \in {"reading", "ending"} /\ inbox[k] # <<>>
  /\ LET mine == Head(inbox[k]).camera = consumer[k].camera
         returns == mine /\ consumer[k].kind = "snapshot"
     IN  /\ inbox' = [inbox EXCEPT ![k] = IF returns THEN <<>> ELSE Tail(@)]
         /\ consumer' = [consumer EXCEPT ![k].image = IF mine THEN <<Head(inbox[k])>> ELSE @,
                                         ![k].stage = IF returns THEN "resolved" ELSE @]
  /\ UNCHANGED <<session, connected, sending, images, imageBuffers, assembled>>

\* The timeout of a snapshot, the caller's signal of either, and the end of the bus.
Abort(k) ==
  /\ consumer[k].stage \in Attached
  /\ consumer' = [consumer EXCEPT ![k].stage = "ending"]
  /\ UNCHANGED <<session, connected, sending, images, imageBuffers, inbox, assembled>>

\* With nothing left to read the call ends: snapshot() rejects, the loop over stream() too
\* or, when the bus was disposed, it ends.
EndOfStream(k) ==
  /\ consumer[k].stage = "ending" /\ inbox[k] = <<>>
  /\ consumer' = [consumer EXCEPT ![k].stage = "failed"]
  /\ UNCHANGED <<session, connected, sending, images, imageBuffers, inbox, assembled>>

\* The consumer leaves the loop over a stream(); a generator that never ran has no finally.
StopStream(k) ==
  /\ consumer[k].kind = "stream" /\ consumer[k].stage \in {"reading", "ending"}
  /\ consumer' = [consumer EXCEPT ![k].stage = "stopped"]
  /\ inbox' = [inbox EXCEPT ![k] = <<>>]
  /\ UNCHANGED <<session, connected, sending, images, imageBuffers, assembled>>

Next ==
  \/ Connect \/ Disconnect
  \/ \E c \in Cameras : (\E size \in Sizes : BeginImage(c, size)) \/ HandleCameraImageResponse(c)
  \/ \E k \in Consumers :
       \/ \E c \in Cameras : Snapshot(k, c) \/ Stream(k, c)
       \/ StartStream(k) \/ TakeImage(k) \/ Abort(k) \/ EndOfStream(k) \/ StopStream(k)

Spec == Init /\ [][Next]_vars

-----------------------------------------------------------------------------
\* What is emitted is of one image and one session: its chunks, in order and without a gap,
\* up to the last one; all of them, when the image is within the limit.
ImagesAreNeverMixed ==
  \A i \in 1..Len(assembled) :
    LET chunks == assembled[i].chunks
        first == assembled[i].size - Len(chunks) + 1
    IN  /\ chunks # <<>>
        /\ \A j \in 1..Len(chunks) : chunks[j] = <<chunks[1][1], first + j - 1>>
        /\ assembled[i].size <= MaxImage => first = 1

\* A call gets an image of its own camera, emitted after it was made, and a snapshot gets the
\* first of them: none that was on its way is overlooked.
CallsGetTheirImage ==
  \A k \in Consumers :
    LET later == {i \in consumer[k].since + 1..Len(assembled) : assembled[i].camera = consumer[k].camera}
    IN  consumer[k].image # <<>> =>
          \E i \in later :
            /\ consumer[k].image[1] = assembled[i]
            /\ consumer[k].kind = "snapshot" => \A j \in later : i <= j

\* "Exceeding this drops the in-flight image": what the options promise of maxImageBytes, and
\* the code does not keep: the chunks after the drop begin a new image.
OversizedImagesAreDropped ==
  \A i \in 1..Len(assembled) : assembled[i].size <= MaxImage
=============================================================================
