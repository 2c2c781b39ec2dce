------------------------------ MODULE Capture ------------------------------
(***************************************************************************)
(* espc record and replay.  A RecordingTransport copies every message that *)
(* the host pulls, over all the attempts of openEspHomeClient(), to a file *)
(* of frames [type varint, length varint, payload]; a replay drives a host *)
(* from the file and tells what it saw.  The functions have no state: the  *)
(* inputs are every short conversation of a device with a host.            *)
(***************************************************************************)
EXTENDS Naturals, Sequences, FiniteSets, SequencesExt

CONSTANTS
  CaptureGroup,   \* values of a varint's byte; types above it take two
  MaxFrames       \* bound: messages of an attempt

Hello == 1
Entity == 2
Done == 3
Info == 4
Ping == 5
State == 6
Bye == 7
Types == {Hello, Entity, Done, Info, Ping, State, Bye}

\* The key of an entity is the payload of its messages.
Frames == [type : {Entity, State}, payload : {<<1>>, <<2>>}] \cup [type : Types \ {Entity, State}, payload : {<<>>}]

-----------------------------------------------------------------------------
(* The file. *)

Varint(n) == IF n < CaptureGroup THEN <<n>> ELSE <<CaptureGroup + (n % CaptureGroup), n \div CaptureGroup>>

EncodeCaptureFrames(frames) ==
  FoldLeft(LAMBDA bytes, f : bytes \o Varint(f.type) \o Varint(Len(f.payload)) \o f.payload, <<>>, frames)

\* The value, and where it ends; 0 if the bytes end before it.
ReadVarint(bytes, offset) ==
  IF offset > Len(bytes) THEN [value |-> 0, next |-> 0]
  ELSE IF bytes[offset] < CaptureGroup THEN [value |-> bytes[offset], next |-> offset + 1]
  ELSE IF offset = Len(bytes) THEN [value |-> 0, next |-> 0]
  ELSE [value |-> bytes[offset] - CaptureGroup + CaptureGroup * bytes[offset + 1], next |-> offset + 2]

Corrupt == [ok |-> FALSE, frames |-> <<>>]

\* Whatever cannot be read makes the whole capture corrupt.
DecodeCaptureFrames(bytes) ==
  LET from[offset \in 1..Len(bytes) + 1] ==
        IF offset > Len(bytes) THEN [ok |-> TRUE, frames |-> <<>>]
        ELSE LET type == ReadVarint(bytes, offset)
                 length == ReadVarint(bytes, type.next)
                 end == length.next + length.value
             IN  IF type.next = 0 \/ length.next = 0 \/ end > Len(bytes) + 1 THEN Corrupt
                 ELSE LET rest == from[end] IN
                        IF ~rest.ok THEN Corrupt
                        ELSE [rest EXCEPT !.frames = <<[type |-> type.value, payload |-> SubSeq(bytes, length.next, end - 1)]>> \o @]
  IN  from[1]

-----------------------------------------------------------------------------
(* The host, as far as a capture is concerned: connect() awaits a hello, then the device's info and *)
(* the end of its entities in any order, ignores what it does not await and fails if asked to       *)
(* disconnect; the run phase takes late entities, and states of entities it knows.                  *)

Host == [stage |-> "hello", done |-> FALSE, info |-> FALSE, entities |-> {}, telemetry |-> 0]

Pull(h, f) ==
  LET told == [h EXCEPT !.done = @ \/ f.type = Done, !.info = @ \/ f.type = Info,
                        !.entities = IF f.type = Entity THEN @ \cup {f.payload} ELSE @]
  IN  IF h.stage \in {"hello", "discovery"} /\ f.type = Bye THEN [h EXCEPT !.stage = "failed"]
      ELSE CASE h.stage \in {"failed", "down"} -> h
             [] h.stage = "hello" -> IF f.type = Hello THEN [h EXCEPT !.stage = "discovery"] ELSE h
             [] h.stage = "discovery" -> IF told.done /\ told.info THEN [told EXCEPT !.stage = "up"] ELSE told
             [] h.stage = "up" ->
                  [told EXCEPT !.stage = IF f.type = Bye THEN "down" ELSE @,
                               !.telemetry = IF f.type = State /\ f.payload \in h.entities THEN @ + 1 ELSE @]

Pulled(frames) == FoldLeft(Pull, Host, frames)

Summary(h, count) ==
  [ok |-> TRUE, named |-> h.info, entities |-> Cardinality(h.entities), telemetry |-> h.telemetry, frames |-> count]

Nothing == [ok |-> TRUE, named |-> FALSE, entities |-> 0, telemetry |-> 0, frames |-> 0]

Failed == [Nothing EXCEPT !.ok = FALSE]

\* What the RecordingTransports of all attempts saw; whatever an attempt did not pull is not in it.
Recorded(attempts) == FlattenSeq(attempts)

\* Where the frames end that are queued before the host connects.
SetupEnd(frames) ==
  LET state == SelectInSeq(frames, LAMBDA f : f.type = State) IN IF state = 0 THEN Len(frames) ELSE state - 1

\* One attempt.  The host must be up once the setup frames are read, or connect() times out; then
\* the telemetry is counted until all the others were pulled.
ReplayCaptureFrames(frames) ==
  LET setup == Pulled(SubSeq(frames, 1, SetupEnd(frames))) IN
    IF frames = <<>> THEN Nothing
    ELSE IF SelectInSeq(frames, LAMBDA f : f.type = Done) = 0 \/ setup.stage \notin {"up", "down"} THEN Failed
    ELSE Summary(FoldLeft(Pull, setup, SubSeq(frames, SetupEnd(frames) + 1, Len(frames))), Len(frames))

ReplayCapture(bytes) ==
  LET decoded == DecodeCaptureFrames(bytes) IN
    IF decoded.ok THEN ReplayCaptureFrames(decoded.frames) ELSE Failed

-----------------------------------------------------------------------------
(* The metadata beside it.  A name is a number; the scrubbers hand out numbers of their own. *)

\* The nth distinct value becomes the nth replacement of its counter.
ScrubValue(values, i) == Cardinality({values[j] : j \in 1..i - 1} \ {values[i]}) + 1

\* name and friendlyName share a counter, each address has its own; an absent field stays absent.
ScrubDeviceInfo(info) ==
  LET names == SelectSeq(<<"name", "friendlyName">>, LAMBDA f : f \in DOMAIN info) IN
    [f \in DOMAIN info |->
       IF f \in {"macAddress", "bluetoothMacAddress"} THEN 1
       ELSE IF f \in {"name", "friendlyName"} THEN ScrubValue([i \in DOMAIN names |-> info[names[i]]],
                                                              IF f = names[1] THEN 1 ELSE 2)
       ELSE info[f]]

\* The two files that a recording leaves: the second is written of what was known in its last moment.
RecordCapture(attempts, info) ==
  [binary |-> EncodeCaptureFrames(Recorded(attempts)),
   metadata |-> [expectedFrames |-> Len(Recorded(attempts)), deviceInfo |-> ScrubDeviceInfo(info)]]

-----------------------------------------------------------------------------
\* A device tells what it was asked for, states of entities it told, and nothing after a good-bye.
Legal(h, f) ==
  /\ h.stage \notin {"failed", "down"}
  /\ f.type \in {Entity, Done, Info} => h.stage # "hello"
  /\ f.type = State => h.stage = "up" /\ f.payload \in h.entities

Conversations ==
  LET upTo[n \in 0..MaxFrames] ==
        IF n = 0 THEN {<<>>}
        ELSE LET shorter == upTo[n - 1] IN
               shorter \cup UNION {{Append(c, f) : f \in {g \in Frames : Legal(Pulled(c), g)}} : c \in shorter}
  IN  upTo[MaxFrames]

\* A replay tells what the recording's host saw in the attempt that succeeded, after one that did
\* not; but if the device refused that one, whose good-bye is in the capture, the replay fails.
ReplayTellsWhatWasRecorded ==
  LET up == {c \in Conversations : Pulled(c).stage \in {"up", "down"}}
  IN  \A before \in {c \in Conversations \ up : Len(c) < MaxFrames}, c \in up : Pulled(before).entities \subseteq Pulled(c).entities =>
        LET recording == RecordCapture(<<before, c>>, [f \in {} |-> 0])
            told == ReplayCapture(recording.binary)
        IN  IF Pulled(before).stage = "failed" THEN told = Failed
            ELSE told = Summary(Pulled(c), recording.metadata.expectedFrames)

\* A capture that lost its end is told from a whole one, unless the cut is between two frames.
CapturesAreWholeOrCorrupt ==
  \A c \in SeqOf(Frames, 3) : \A n \in 0..Len(EncodeCaptureFrames(c)) :
    LET decoded == DecodeCaptureFrames(SubSeq(EncodeCaptureFrames(c), 1, n)) IN
      IF \E i \in 0..Len(c) : Len(EncodeCaptureFrames(SubSeq(c, 1, i))) = n
      THEN decoded.ok /\ EncodeCaptureFrames(decoded.frames) = SubSeq(EncodeCaptureFrames(c), 1, n)
                      /\ decoded.frames = SubSeq(c, 1, Len(decoded.frames))
      ELSE ~decoded.ok

\* Two devices whose names differ in nothing but their letters leave the same metadata.
ScrubbedInfoTellsNoNames ==
  \A fields \in SUBSET {"name", "friendlyName", "macAddress", "bluetoothMacAddress", "model"} :
    \A one, other \in [fields -> {7, 8}] :
      /\ "model" \in fields => one["model"] = other["model"]
      /\ {"name", "friendlyName"} \subseteq fields =>
           (one["name"] = one["friendlyName"]) = (other["name"] = other["friendlyName"])
      => ScrubDeviceInfo(one) = ScrubDeviceInfo(other)
=============================================================================
