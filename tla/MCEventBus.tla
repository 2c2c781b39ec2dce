----------------------------- MODULE MCEventBus -----------------------------
(***************************************************************************)
(* Model checking of the client's ways to wait for the device: EventBus,   *)
(* the two components that wait on its streams, Camera and Commands, and   *)
(* Correlator.  The initial state says which one runs; the others stay as  *)
(* they begin.                                                             *)
(***************************************************************************)
EXTENDS EventBus, PendingCalls

CONSTANTS
  Cameras, Consumers, MaxImage, Sizes, MaxImages, MaxSessions,
  Awaits, MaxEvents, MaxCommands,
  Mark         \* highWaterMark of the streams of Camera and of Commands

ASSUME BoundsAssumption ==
  /\ {MaxImage, MaxImages, MaxSessions, MaxEvents, MaxCommands} \subseteq Nat /\ Mark \in Nat \ {0}
  /\ Sizes \subseteq Nat \ {0} /\ Cameras # {}

VARIABLES
  part,
  session, connected, sending, images, imageBuffers, consumer, inbox, assembled,
  registry, sent, commands, await, unread, events, refused, missed,
  bounded, listening, inFlight, answeredBy

Camera == INSTANCE Camera WITH HighWater <- Mark
Command == INSTANCE Commands WITH HighWater <- Mark
Correlation == INSTANCE Correlator

cameraVars == <<session, connected, sending, images, imageBuffers, consumer, inbox, assembled>>
commandVars == <<registry, sent, commands, await, unread, events, refused, missed>>
correlatorVars == <<entries, call, key, bounded, listening, inFlight, answeredBy>>
mcVars == <<part, vars, cameraVars, commandVars, correlatorVars>>

\* The initial states of the part that runs; the others begin in any one of theirs.
MCInit ==
  /\ part \in {"bus", "camera", "commands", "correlator"}
  /\ Init /\ Camera!Init /\ Command!Init /\ Correlation!Init
  /\ part # "correlator" => bounded = {} /\ key = [c \in Calls |-> CHOOSE k \in Keys : TRUE]

MCNext ==
  \/ part = "bus" /\ Next /\ UNCHANGED <<part, cameraVars, commandVars, correlatorVars>>
  \/ part = "camera" /\ Camera!Next /\ UNCHANGED <<part, vars, commandVars, correlatorVars>>
  \/ part = "commands" /\ Command!Next /\ UNCHANGED <<part, vars, cameraVars, correlatorVars>>
  \/ part = "correlator" /\ Correlation!Next /\ UNCHANGED <<part, vars, cameraVars, commandVars>>

MCSpec == MCInit /\ [][MCNext]_mcVars /\ Command!Fairness /\ Correlation!Fairness
-----------------------------------------------------------------------------
\* The types of the four modules.
MCTypeOK == TypeOK /\ Camera!TypeOK /\ Command!TypeOK /\ Correlation!TypeOK

\* Camera: an emitted image is of one image and one session, without a gap, and whole when it
\* is within the limit; a snapshot gets the first image of its camera after the call.
SnapshotsAreWhole == Camera!ImagesAreNeverMixed /\ Camera!CallsGetTheirImage

\* Commands!DevicesAreToldWhatWasAsked: the device reads every option given, and no other.
DevicesAreToldWhatWasAsked == Command!DevicesAreToldWhatWasAsked

\* EventBus, Commands, Correlator: a stream hands its items out in the order they were pushed;
\* commandAndAwait() resolves with the first event of its entity after the call that the
\* predicate accepts, of those its stream had room for; an answer settles a call of its own key, and another than the one that
\* asked only after a call for that key was given up.
WaitersGetTheirOwn ==
  ItemsKeepTheirOrder /\ Command!AnswersAreOfTheTarget /\ Correlation!AnswersBelongToTheirKey

\* Commands and Correlator: every commandAndAwait() settles, and so does every call that waits
\* with a timeout or a signal, whatever the device does.
BoundedWaitsEnd == Command!EveryAwaitSettles /\ Correlation!NoBoundedCallHangs

\* Camera!OversizedImagesAreDropped: "exceeding this drops the in-flight image"; it does not.
OversizedImagesAreDropped == Camera!OversizedImagesAreDropped
=============================================================================
