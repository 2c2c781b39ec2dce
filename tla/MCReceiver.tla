----------------------------- MODULE MCReceiver -----------------------------
(***************************************************************************)
(* Model checking of Receiver, which delivers the messages, and of         *)
(* Entities, which says what the messages of discovery and of the run      *)
(* phase do.  The initial state says which one runs.                       *)
(***************************************************************************)
EXTENDS Receiver, TLC

CONSTANTS Absent, Descriptions, ServiceList, Infos, MaxListed, MaxServices, MaxSessions

\* The bounds are numbers; of the messages of a device nothing is assumed, but that what lists
\* a service has a list of arguments.
ASSUME EntitiesAssumption ==
  /\ MaxListed \in Nat /\ MaxServices \in Nat /\ MaxSessions \in Nat
  /\ \A d \in ServiceList : Len(d.args) \in Nat

VARIABLES
  part,
  stage, epoch, missing, registry, serviceRegistry, latestCache, device, told, sent

Listed(message, key, name, objectId, deviceId) ==
  [message |-> message, key |-> key, name |-> name, objectId |-> objectId, deviceId |-> deviceId]

\* Two covers whose derived ids collide, a switch with the key of one of them, an entity
\* whose type shares its state message, and one with a blank name.
SomeDescriptions ==
  {Listed("LIST_ENTITIES_COVER_RESPONSE", 1, "Temp 1", Absent, Absent),
   Listed("LIST_ENTITIES_COVER_RESPONSE", 2, "Temp.1", Absent, 7),
   Listed("LIST_ENTITIES_SWITCH_RESPONSE", 1, "Temp 1", Absent, Absent),
   Listed("LIST_ENTITIES_INFRARED_RESPONSE", 3, "ir", "ir", Absent),
   Listed("LIST_ENTITIES_SWITCH_RESPONSE", 2, "", Absent, Absent)}

SomeServices ==
  {[name |-> "s", key |-> 1, args |-> <<[name |-> "a", type |-> 1], [name |-> Absent, type |-> 2]>>],
   [name |-> Absent, key |-> 3, args |-> <<>>]}

SomeInfos ==
  {[bluetooth |-> Absent, legacyBluetooth |-> Absent, serialProxies |-> 0, homeId |-> 0, subDevices |-> <<>>],
   [bluetooth |-> {"RAW"}, legacyBluetooth |-> 1, serialProxies |-> 1, homeId |-> 5,
    subDevices |-> <<[id |-> 7], [id |-> 0]>>]}

Entity == INSTANCE Entities WITH phase <- stage

entityVars == <<stage, epoch, missing, registry, serviceRegistry, latestCache, device, told, sent>>
mcVars == <<part, vars, entityVars>>

MCInit == part \in {"receiver", "entities", "services"} /\ Init /\ Entity!Init

\* A device that lists entities, and one that lists services.
MCNext ==
  \/ part = "receiver" /\ Next /\ UNCHANGED <<part, entityVars>>
  \/ part = "entities" /\ Entity!Next /\ serviceRegistry'.services = <<>> /\ UNCHANGED <<part, vars>>
  \/ part = "services" /\ Entity!Next /\ registry'.entities = <<>> /\ UNCHANGED <<part, vars>>

MCSpec == MCInit /\ [][MCNext]_mcVars

Symmetry == Permutations(Types) \cup Permutations(Waits)
-----------------------------------------------------------------------------
\* The types of the two modules.
MCTypeOK == TypeOK /\ Entity!TypeOK

\* Entities: the registry's indexes are what its list says, latest() answers for the entity
\* that byId() answers, and consumers were told what the client would answer.
EntitiesAreConsistent ==
  Entity!IndexesAgree /\ Entity!LatestIsOfItsEntity /\ Entity!ConsumersAreUpToDate

\* Entities!RequestsFitTheService: a service request names a service of this session and
\* carries the caller's arguments in order, no more than it declares.
RequestsFitTheService == Entity!RequestsFitTheService
=============================================================================
