---------------------------- MODULE ProxyMessages ----------------------------
(***************************************************************************)
(* The messages of the serial, Z-Wave, voice, Bluetooth scanner and Home   *)
(* Assistant APIs, logs and service results, that change no state: what is *)
(* emitted for one that comes in, and what is on the wire for one that     *)
(* goes out.  A payload is a function from the names of its fields; a      *)
(* value is a number, 0 being the default of every field, and the empty    *)
(* string.                                                                 *)
(***************************************************************************)
EXTENDS Naturals, Functions

CONSTANTS None   \* no event, no argument

(* Inbound.  Without a required field the message is dropped, with a warning; an optional one *)
(* stays absent; any other is read as its default.                                             *)

Inbound(required, optional, defaulted) ==
  [required |-> required, optional |-> optional, defaulted |-> defaulted]

SerialData == Inbound({"instance", "data"}, {}, {})
ModemPins == Inbound({"instance", "lineStates"}, {}, {})
FlushResult == Inbound({"instance", "type", "status"}, {"errorMessage"}, {})
SerialProxy == Inbound({"name"}, {}, {"portType"})
ZWaveFrame == Inbound({"data"}, {}, {})
ScannerState == Inbound({"state", "mode", "configuredMode"}, {}, {})
VoiceRequest == Inbound({}, {"conversationId", "wakeWordPhrase"}, {"start", "flags"})
AudioSettings == Inbound({}, {}, {"autoGain", "noiseSuppressionLevel", "volumeMultiplier"})
VoiceAudio == Inbound({"data"}, {"data2"}, {"end"})
ServiceEvent == Inbound({}, {"callId", "wantsResponse", "responseTemplate"}, {"service", "isEvent"})
StateRequest == Inbound({}, {}, {"entityId", "attribute", "once"})
LogEvent == Inbound({"level", "message"}, {"sendFailed"}, {})
ServiceCallResult == Inbound({"callId"}, {"errorMessage", "responseData"}, {"success"})
Events == {SerialData, ModemPins, FlushResult, SerialProxy, ZWaveFrame, ScannerState, VoiceRequest, AudioSettings,
           VoiceAudio, ServiceEvent, StateRequest, LogEvent, ServiceCallResult}

\* Optional fields that are only told when they are true.
Flags == {"wantsResponse", "sendFailed"}

DefaultOf(f) == IF f = "volumeMultiplier" THEN 1 ELSE 0

Emitted(message, payload) ==
  IF ~(message.required \subseteq DOMAIN payload) THEN None
  ELSE [f \in message.required \cup message.defaulted \cup
              {f \in message.optional \cap DOMAIN payload : f \in Flags => payload[f] = 1} |->
          IF f \in DOMAIN payload /\ ~(f = "volumeMultiplier" /\ payload[f] = 0) THEN payload[f] ELSE DefaultOf(f)]

(* Outbound.  A field is what the caller must give; or always there, with its default if the caller *)
(* leaves it out; or only if the caller gives it; or only if what the caller gives is not empty.     *)

Outbound(needed, defaulted, given, filled) ==
  [needed |-> needed, defaulted |-> defaulted, given |-> given, filled |-> filled]

Configure == Outbound({"instance", "baudrate", "dataSize"}, {"flowControl", "parity", "stopBits"}, {}, {})
Write == Outbound({"instance", "data"}, {}, {}, {})
SetModemPins == Outbound({"instance", "lineStates"}, {}, {}, {})
SendFrame == Outbound({"data"}, {}, {}, {})
RespondToRequest == Outbound({}, {"port", "error"}, {}, {})
SendAudio == Outbound({"data"}, {"end"}, {}, {})
SendVoiceEvent == Outbound({"eventType"}, {}, {"data"}, {})
SendTimerEvent == Outbound({"eventType", "timerId", "name", "totalSeconds", "secondsLeft", "isActive"}, {}, {}, {})
SetActiveWakeWords == Outbound({}, {}, {}, {"wakeWordIds"})
AnnounceRequest == Outbound({}, {}, {"mediaId", "text", "preannounceMediaId", "startConversation", "conversationId"}, {})
SendState == Outbound({"entityId", "state"}, {}, {}, {"attribute"})
RespondToAction == Outbound({"callId", "success"}, {}, {"errorMessage", "responseData"}, {})
Requests == {Configure, Write, SetModemPins, SendFrame, RespondToRequest, SendAudio, SendVoiceEvent, SendTimerEvent,
             SetActiveWakeWords, AnnounceRequest, SendState, RespondToAction}

LeftOut(f) == IF f = "stopBits" THEN 1 ELSE 0

\* configure() throws for a frame that no UART has.
Refused(request, args) ==
  request = Configure /\ (args.dataSize \notin 5..8 \/ args.stopBits \notin {None, 1, 2})

Sent(request, args) ==
  LET there == request.needed \cup request.defaulted \cup {f \in request.given : args[f] # None}
                 \cup {f \in request.filled : args[f] \notin {None, 0}}
  IN  IF Refused(request, args) THEN None
      ELSE [f \in there |-> IF args[f] = None THEN LeftOut(f) ELSE args[f]]

-----------------------------------------------------------------------------
\* A sender that leaves out fields with their default value, all of them or none.
Written(meant) == {meant, RestrictValues(meant, LAMBDA v : v # 0)}

FieldsOf(message) == message.required \cup message.optional \cup message.defaulted

\* What a device means is what is emitted, whichever way it writes defaults: an absent field is one
\* with its default.  If it writes all of its fields, nothing is dropped.
EventsMeanWhatWasMeant ==
  \A message \in Events : \A meant \in [FieldsOf(message) -> {0, 1}] :
    /\ Emitted(message, meant) # None
    /\ \A payload \in Written(meant) :
         LET event == Emitted(message, payload) IN
           event # None => \A f \in FieldsOf(message) \ {"volumeMultiplier"} :
             meant[f] = IF f \in DOMAIN event THEN event[f] ELSE 0

\* What a caller asks for is what the device reads: what was left out is the documented default.
\* Only a frame of the wrong size is never sent.
RequestsSayWhatWasAsked ==
  \A request \in Requests :
    LET fields == request.needed \cup request.defaulted \cup request.given \cup request.filled IN
      \A args \in [fields -> {None, 0, 1, 8}] : (\A f \in request.needed : args[f] # None) =>
        LET wire == Sent(request, args)
            read(f) == IF f \in DOMAIN wire THEN wire[f] ELSE 0
        IN  \/ wire = None /\ request = Configure /\ (args.dataSize # 8 \/ args.stopBits \in {0, 8})
            \/ wire # None /\ \A f \in fields : read(f) =
                 (IF args[f] # None THEN args[f] ELSE IF f = "stopBits" THEN 1 ELSE 0)
=============================================================================
