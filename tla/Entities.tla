------------------------------ MODULE Entities ------------------------------
(***************************************************************************)
(* What the client knows of a device: its DeviceInfo and capabilities, the *)
(* entity and service registries, the latest state of every entity, and    *)
(* the messages of discovery and of the run phase that change them.        *)
(*                                                                         *)
(* Absent is a field that is not on the wire.  Entity and state fields of  *)
(* which there are many alike are left out.  The version is none or the    *)
(* newest.                                                                 *)
(***************************************************************************)
EXTENDS Naturals, Sequences, FiniteSets, TLC, Functions, SequencesExt

CONSTANTS
  Absent,
  Descriptions,     \* list-entities messages of the device
  ServiceList,      \* list-services messages of the device
  Infos,            \* device-info messages of the device
  MaxListed, MaxServices, MaxSessions  \* bounds

VARIABLES
  phase,            \* "idle", "discovering", "running"
  epoch,            \* number of the session
  missing,          \* what performDiscovery() still waits for
  registry,         \* EntityRegistry
  serviceRegistry,
  latestCache,
  device,           \* [apiMinor, info, capabilities]
  told,             \* history: the last `entities`, `services` and `deviceInfo` of the session
  sent              \* history: the last frame of the run phase that is modelled here

vars == <<phase, epoch, missing, registry, serviceRegistry, latestCache, device, told, sent>>

Nothing == [x \in {} |-> 0]
Put(f, x, v) == [y \in DOMAIN f \cup {x} |-> IF y = x THEN v ELSE f[y]]
Get(f, x) == IF x \in DOMAIN f THEN f[x] ELSE Absent

-----------------------------------------------------------------------------
(* Schemas: which message lists the type, which carries its state, and whether that message *)
(* has a slot for the device.  Later schemas win a message that two declare.                *)

Schemas == <<
  [type |-> "cover", list |-> "LIST_ENTITIES_COVER_RESPONSE", state |-> "COVER_STATE_RESPONSE", hasDevice |-> TRUE],
  [type |-> "switch", list |-> "LIST_ENTITIES_SWITCH_RESPONSE", state |-> "SWITCH_STATE_RESPONSE", hasDevice |-> TRUE],
  [type |-> "infrared", list |-> "LIST_ENTITIES_INFRARED_RESPONSE", state |-> "INFRARED_RF_RECEIVE_EVENT", hasDevice |-> FALSE],
  [type |-> "radio_frequency", list |-> "LIST_ENTITIES_RADIO_FREQUENCY_RESPONSE", state |-> "INFRARED_RF_RECEIVE_EVENT",
   hasDevice |-> FALSE]>>

LastSchema(found) == IF found = <<>> THEN Absent ELSE Last(found)

\* Types of the client's table; built once, from the built-ins and then the extras.
ListMessages == {Schemas[i].list : i \in 1..Len(Schemas)} \cup {"LIST_ENTITIES_SERVICES_RESPONSE"}
StateMessages == {Schemas[i].state : i \in 1..Len(Schemas)} \cup {"BUTTON_COMMAND_REQUEST"}

SchemaOfList(message) == LastSchema(SelectSeq(Schemas, LAMBDA s : s.list = message))
SchemaOfState(message) == LastSchema(SelectSeq(Schemas, LAMBDA s : s.state = message))
SchemaOf(type) == LastSchema(SelectSeq(Schemas, LAMBDA s : s.type = type))

-----------------------------------------------------------------------------
(* The registries. *)

\* entityId(): the type and the object id, in lower case.
EntityId(e) == <<e.type, e.objectId>>

EmptyRegistry == [entities |-> <<>>, byKey |-> Nothing, idByKey |-> Nothing, keyById |-> Nothing,
                  deviceIds |-> Nothing, dirty |-> FALSE]
EmptyServices == [services |-> <<>>, byKey |-> Nothing, dirty |-> FALSE]

Clear(r) == [EmptyRegistry EXCEPT !.dirty = TRUE]

\* A second registration of a key replaces the first in every index, and is listed again; a
\* second key under one id takes the id over.
Register(r, e) ==
  [entities |-> Append(r.entities, e),
   byKey |-> Put(r.byKey, e.key, e),
   keyById |-> Put(r.keyById, EntityId(e), e.key),
   idByKey |-> Put(r.idByKey, e.key, EntityId(e)),
   deviceIds |-> IF e.deviceId = Absent THEN r.deviceIds ELSE Put(r.deviceIds, e.key, e.deviceId),
   dirty |-> TRUE]

RecordDeviceId(r, key, id) == [r EXCEPT !.deviceIds = Put(@, key, id)]

\* byId(), byDevice(): what consumers ask of the registry.
ById(r, id) == IF id \in DOMAIN r.keyById THEN Get(r.byKey, r.keyById[id]) ELSE Absent

EffectiveDevice(r, e) ==
  IF e.deviceId # Absent THEN e.deviceId
  ELSE IF Get(r.deviceIds, e.key) # Absent THEN r.deviceIds[e.key]
  ELSE 0

ByDevice(r, id) == SelectSeq(r.entities, LAMBDA e : EffectiveDevice(r, e) = id)

ClearServices == [EmptyServices EXCEPT !.dirty = TRUE]
RegisterService(r, s) ==
  [services |-> Append(r.services, s), byKey |-> Put(r.byKey, s.key, s), dirty |-> TRUE]

\* The first of the name, whatever its key now holds.
ServiceByName(r, name) ==
  LET named == {i \in 1..Len(r.services) : r.services[i].name = name}
  IN  IF named = {} THEN Absent ELSE r.services[Min(named)]

-----------------------------------------------------------------------------
(* Decoding. *)

\* deriveObjectId(): every character outside [-_0-9a-z] becomes "_", so that names collide.
DeriveObjectId(name) ==
  CASE name \in {"Temp 1", "Temp.1", "temp_1"} -> "temp_1"
    [] OTHER -> name

\* decodeEntityFromSchema(): without a key or with a blank name there is no entity.
DecodeEntity(type, d) ==
  IF d.key = Absent \/ d.name \in {Absent, ""}
  THEN Absent
  ELSE [type |-> type, key |-> d.key, name |-> d.name, deviceId |-> d.deviceId,
        objectId |-> IF d.objectId \in {Absent, ""} THEN DeriveObjectId(d.name) ELSE d.objectId]

\* A loop over a list that collects the items of some of its places.
Collected(s, kept) ==
  LET upTo[n \in 0..Len(s)] ==
        IF n = 0 THEN <<>> ELSE IF n \in kept THEN Append(upTo[n - 1], s[n]) ELSE upTo[n - 1]
  IN  upTo[Len(s)]

\* decodeServiceEntity(): an argument without a name or a type is left out.
DecodeService(d) ==
  IF d.name = Absent \/ d.key = Absent THEN Absent
  ELSE [name |-> d.name, key |-> d.key,
        args |-> Collected(d.args, {i \in 1..Len(d.args) : d.args[i].name # Absent /\ d.args[i].type # Absent})]

\* extractSubDevices(): a record without an id, or with the parent's, is left out.
ExtractSubDevices(records) == SelectSeq(records, LAMBDA s : s.id \notin {Absent, 0})

\* handleDeviceInfoResponse(): a field that is absent on the wire is absent in the record.
DecodeDeviceInfo(d) == [d EXCEPT !.subDevices = ExtractSubDevices(@)]

\* parseCapabilities(): flags are sets of bits, and a missing flag field is no flag.
API_FEATURE_VERSIONS ==
  [clientDerivedObjectId |-> 14, climateTemperatureUnit |-> 14, lockOpenStates |-> 14, modernHandshake |-> 11,
   noiseKeyRotation |-> 7, voiceAssistantStereo |-> 14]

Supported(minor) == {f \in DOMAIN API_FEATURE_VERSIONS : minor >= API_FEATURE_VERSIONS[f]}

DisconnectedCapabilities ==
  [apiMinor |-> 0, features |-> {}, bluetooth |-> {}, bluetoothSupported |-> FALSE, serialCount |-> 0, homeId |-> Absent]

ParseCapabilities(minor, info) ==
  IF info = Absent THEN DisconnectedCapabilities
  ELSE [apiMinor |-> minor, features |-> Supported(minor),
        bluetooth |-> IF info.bluetooth = Absent THEN {} ELSE info.bluetooth,
        bluetoothSupported |-> info.bluetooth \notin {Absent, {}} \/ info.legacyBluetooth \notin {Absent, 0},
        serialCount |-> info.serialProxies,
        homeId |-> IF info.homeId \in {Absent, 0} THEN Absent ELSE info.homeId]

NoDevice == [apiMinor |-> 0, info |-> Absent, subDevices |-> <<>>, capabilities |-> DisconnectedCapabilities]
NoFrame == [type |-> "none", service |-> Absent, name |-> Absent, asked |-> <<>>, args |-> <<>>]
NotTold == [entities |-> Absent, services |-> Absent, info |-> Absent]

-----------------------------------------------------------------------------
Init ==
  /\ phase = "idle" /\ epoch = 0 /\ missing = {}
  /\ registry = EmptyRegistry /\ serviceRegistry = EmptyServices
  /\ latestCache = Nothing
  /\ device = NoDevice
  /\ told = NotTold
  /\ sent = NoFrame

TypeOK ==
  /\ phase \in {"idle", "discovering", "running"} /\ epoch \in 0..MaxSessions
  /\ missing \subseteq {"info", "done"}
  /\ registry.dirty \in BOOLEAN /\ Len(registry.entities) <= MaxListed
  /\ serviceRegistry.dirty \in BOOLEAN /\ Len(serviceRegistry.services) <= MaxServices
  /\ DOMAIN latestCache \subseteq {EntityId(registry.entities[i]) : i \in 1..Len(registry.entities)}
  /\ phase = "discovering" <=> missing # {}

\* applyHelloResponse(): a device that gives only half of its version gives none, and the 0 of
\* the reset stays; the minor is stored before the major is looked at.
ApplyHelloResponse(hello) == IF Absent \in {hello.major, hello.minor} THEN 0 ELSE hello.minor

SUPPORTED_API_MAJORS == {1}
NegotiationFailed(hello) == Absent \notin {hello.major, hello.minor} /\ hello.major \notin SUPPORTED_API_MAJORS

\* authenticateIfNeeded(): an old device, or one of no version, is asked with CONNECT_REQUEST.
Authenticate(minor) ==
  [NoFrame EXCEPT !.type = IF "modernHandshake" \in Supported(minor) THEN "none" ELSE "CONNECT_REQUEST"]

\* connectInternal() forgets the last session, then performPlaintextHandshake() and discovery.
Connect(hello) ==
  LET minor == ApplyHelloResponse(hello)
  IN  /\ phase = "idle" /\ epoch < MaxSessions
      /\ epoch' = epoch + 1
      /\ registry' = Clear(registry) /\ serviceRegistry' = ClearServices
      /\ latestCache' = Nothing
      /\ device' = [NoDevice EXCEPT !.apiMinor = minor]
      /\ told' = NotTold
      /\ IF NegotiationFailed(hello)
         THEN sent' = NoFrame /\ UNCHANGED <<phase, missing>>
         ELSE sent' = Authenticate(minor) /\ phase' = "discovering" /\ missing' = {"info", "done"}

\* A teardown, or an attempt that fails: what is known of the device stays readable.
Disconnect ==
  /\ phase # "idle"
  /\ phase' = "idle" /\ missing' = {}
  /\ UNCHANGED <<epoch, registry, serviceRegistry, latestCache, device, told, sent>>

-----------------------------------------------------------------------------
(* The dispatch of the run phase. *)

Family(names, component) == [m \in names |-> component]

\* The handlers of the messages that have one of their own, by the component that the handler
\* hands the message to.  A proxy that nobody asked for has no component, and drops it.
bluetoothHandlers ==
  Family({"BLUETOOTH_CONNECTIONS_FREE_RESPONSE", "BLUETOOTH_DEVICE_CLEAR_CACHE_RESPONSE",
          "BLUETOOTH_DEVICE_CONNECTION_RESPONSE", "BLUETOOTH_DEVICE_PAIRING_RESPONSE",
          "BLUETOOTH_DEVICE_UNPAIRING_RESPONSE", "BLUETOOTH_GATT_ERROR_RESPONSE",
          "BLUETOOTH_GATT_GET_SERVICES_DONE_RESPONSE", "BLUETOOTH_GATT_GET_SERVICES_RESPONSE",
          "BLUETOOTH_GATT_NOTIFY_DATA_RESPONSE", "BLUETOOTH_GATT_NOTIFY_RESPONSE",
          "BLUETOOTH_GATT_READ_RESPONSE", "BLUETOOTH_GATT_WRITE_RESPONSE",
          "BLUETOOTH_LE_RAW_ADVERTISEMENTS_RESPONSE", "BLUETOOTH_SCANNER_STATE_RESPONSE",
          "BLUETOOTH_SET_CONNECTION_PARAMS_RESPONSE"}, "bluetooth")

proxyHandlers ==
  Family({"SERIAL_PROXY_DATA_RECEIVED", "SERIAL_PROXY_GET_MODEM_PINS_RESPONSE",
          "SERIAL_PROXY_REQUEST_RESPONSE"}, "serial")
  @@ Family({"ZWAVE_PROXY_FRAME", "ZWAVE_PROXY_REQUEST"}, "zwave")

sessionHandlers ==
  Family({"DISCONNECT_REQUEST", "DISCONNECT_RESPONSE"}, "session")
  @@ Family({"PING_REQUEST", "GET_TIME_REQUEST"}, "reply")
  @@ Family({"PING_RESPONSE", "GET_TIME_RESPONSE"}, "event")

mediaHandlers ==
  Family({"VOICE_ASSISTANT_ANNOUNCE_FINISHED", "VOICE_ASSISTANT_AUDIO",
          "VOICE_ASSISTANT_CONFIGURATION_RESPONSE", "VOICE_ASSISTANT_REQUEST"}, "voice")
  @@ ("CAMERA_IMAGE_RESPONSE" :> "camera") @@ ("SUBSCRIBE_LOGS_RESPONSE" :> "logs")

clientHandlers ==
  Family({"HOMEASSISTANT_SERVICE_RESPONSE", "SUBSCRIBE_HOME_ASSISTANT_STATE_RESPONSE"}, "homeAssistant")
  @@ ("NOISE_ENCRYPTION_SET_KEY_RESPONSE" :> "noiseKey") @@ ("DEVICE_INFO_RESPONSE" :> "deviceInfo")
  @@ ("LIST_ENTITIES_DONE_RESPONSE" :> "listDone") @@ ("EXECUTE_SERVICE_RESPONSE" :> "event")

\* buildRunPhaseHandlers().
runPhaseHandlers == bluetoothHandlers @@ proxyHandlers @@ sessionHandlers @@ mediaHandlers @@ clientHandlers

\* defaultRunPhaseHandler(), for the others; what nobody knows is logged and counted.
DefaultRunPhaseHandler(message) ==
  IF message \in StateMessages THEN "telemetry"
  ELSE IF message = "LIST_ENTITIES_SERVICES_RESPONSE" THEN "listService"
  ELSE IF message \in ListMessages THEN "listEntity"
  ELSE "unknown"

Handler(message) ==
  IF message \in DOMAIN runPhaseHandlers THEN runPhaseHandlers[message] ELSE DefaultRunPhaseHandler(message)

\* Discovery waits for the device info, the end of the list, and the list's messages only.
Takes(message) ==
  \/ phase = "running"
  \/ phase = "discovering" /\ Handler(message) \in {"deviceInfo", "listDone", "listEntity", "listService"}

\* handlePingRequest() and handleGetTimeRequest().
Reply(message) ==
  /\ phase = "running" /\ Handler(message) = "reply"
  /\ sent' = [NoFrame EXCEPT !.type = IF message = "PING_REQUEST" THEN "PING_RESPONSE" ELSE "GET_TIME_RESPONSE"]
  /\ UNCHANGED <<phase, epoch, missing, registry, serviceRegistry, latestCache, device, told>>

-----------------------------------------------------------------------------
(* User services. *)

\* Mutant: an argument that is left out takes a place.
EncodeEveryArgument(service, args) == [i \in 1..Len(args) |-> <<i, args[i]>>]

\* Arguments that are left out, or that the service does not declare, are skipped.
EncodeArguments(service, args) ==
  Collected([i \in 1..Len(args) |-> <<i, args[i]>>],
            {i \in 1..Len(args) : args[i] # Absent /\ i <= Len(service.args)})

\* execute(): a key that is not listed is logged and dropped, and so is every frame of a
\* client that has no transport.
Execute(key, name, args) ==
  LET service == Get(serviceRegistry.byKey, key)
  IN  sent' = IF service = Absent \/ phase # "running" THEN sent
              ELSE [type |-> "EXECUTE_SERVICE_REQUEST", service |-> service, name |-> name, asked |-> args,
                    args |-> EncodeArguments(service, args)]

ExecuteService(key, args) ==
  /\ Execute(key, Absent, args)
  /\ UNCHANGED <<phase, epoch, missing, registry, serviceRegistry, latestCache, device, told>>

ExecuteByName(name, args) ==
  LET found == ServiceByName(serviceRegistry, name)
  IN  /\ IF found = Absent THEN UNCHANGED sent ELSE Execute(found.key, name, args)
      /\ UNCHANGED <<phase, epoch, missing, registry, serviceRegistry, latestCache, device, told>>

-----------------------------------------------------------------------------
(* Messages of discovery and of the run phase.  Both phases apply them alike. *)

HandleListEntity(d) ==
  LET schema == SchemaOfList(d.message)
      entity == IF schema = Absent THEN Absent ELSE DecodeEntity(schema.type, d)
  IN  /\ Takes(d.message) /\ Handler(d.message) = "listEntity" /\ Len(registry.entities) < MaxListed
      /\ registry' = IF entity = Absent THEN registry ELSE Register(registry, entity)
      /\ UNCHANGED <<phase, epoch, missing, serviceRegistry, latestCache, device, told, sent>>

HandleListServiceEntity(d) ==
  LET service == DecodeService(d)
  IN  /\ Takes("LIST_ENTITIES_SERVICES_RESPONSE") /\ Len(serviceRegistry.services) < MaxServices
      /\ serviceRegistry' = IF service = Absent THEN serviceRegistry ELSE RegisterService(serviceRegistry, service)
      /\ UNCHANGED <<phase, epoch, missing, registry, latestCache, device, told, sent>>

\* snapshotChanges(), of a registry that is announced.
Clean(r) == [r EXCEPT !.dirty = FALSE]

\* The end of performDiscovery(): entities are announced always, services when there are any;
\* both registries are clean.  Then the capabilities are those of the device.
EndDiscovery(info, known) ==
  /\ phase' = "running" /\ missing' = {}
  /\ registry' = Clean(registry) /\ serviceRegistry' = Clean(serviceRegistry)
  /\ told' = [entities |-> registry.entities, info |-> info,
              services |-> IF serviceRegistry.services = <<>> THEN told.services ELSE serviceRegistry.services]
  /\ device' = [known EXCEPT !.capabilities = ParseCapabilities(known.apiMinor, known.info)]
  /\ UNCHANGED <<epoch, latestCache, sent>>

Known(info) == [device EXCEPT !.info = info, !.subDevices = info.subDevices]

DiscoverDeviceInfo(d) ==
  LET info == DecodeDeviceInfo(d)
  IN  /\ phase = "discovering"
      /\ IF missing \subseteq {"info"}
         THEN EndDiscovery(info, Known(info))
         ELSE /\ missing' = missing \ {"info"}
              /\ device' = Known(info) /\ told' = [told EXCEPT !.info = info]
              /\ UNCHANGED <<phase, epoch, registry, serviceRegistry, latestCache, sent>>

DiscoverDone ==
  /\ phase = "discovering"
  /\ IF missing = {"done"}
     THEN EndDiscovery(told.info, device)
     ELSE /\ missing' = missing \ {"done"}
          /\ UNCHANGED <<phase, epoch, registry, serviceRegistry, latestCache, device, told, sent>>

RunDeviceInfo(d) ==
  LET info == DecodeDeviceInfo(d)
  IN  /\ phase = "running"
      /\ device' = [Known(info) EXCEPT !.capabilities = ParseCapabilities(device.apiMinor, info)]
      /\ told' = [told EXCEPT !.info = info]
      /\ UNCHANGED <<phase, epoch, missing, registry, serviceRegistry, latestCache, sent>>

\* The end of a late batch: announced when the registry changed.
RunDone ==
  /\ phase = "running"
  /\ registry' = Clean(registry) /\ serviceRegistry' = Clean(serviceRegistry)
  /\ told' = [told EXCEPT !.entities = IF registry.dirty THEN registry.entities ELSE @,
                          !.services = IF serviceRegistry.dirty /\ serviceRegistry.services # <<>>
                                       THEN serviceRegistry.services ELSE @]
  /\ UNCHANGED <<phase, epoch, missing, latestCache, device, sent>>

\* Mutant: the message decides the type, also of an entity that is known.
TypeByMessage(message, known) ==
  IF message = "BUTTON_COMMAND_REQUEST" THEN "button" ELSE SchemaOfState(message).type

\* The type of an event: the entity's own when it is known, since two types share a message.
EventType(message, known) ==
  IF message = "BUTTON_COMMAND_REQUEST" THEN "button"
  ELSE IF known # Absent THEN known.type
  ELSE SchemaOfState(message).type

\* handleTelemetry(): the device it names is recorded, known entity or not; the cache is
\* written before the listeners hear of the event, and only under the id of a known entity.
HandleTelemetry(message, key, deviceId) ==
  LET schema == SchemaOfState(message)
      known == Get(registry.byKey, key)
      recorded == IF schema = Absent \/ ~schema.hasDevice \/ deviceId = Absent THEN registry
                  ELSE RecordDeviceId(registry, key, deviceId)
      event == [type |-> EventType(message, known), key |-> key, epoch |-> epoch]
  IN  /\ phase = "running" /\ Handler(message) = "telemetry"
      /\ registry' = recorded
      /\ latestCache' = IF known = Absent THEN latestCache ELSE Put(latestCache, registry.idByKey[key], event)
      /\ UNCHANGED <<phase, epoch, missing, serviceRegistry, device, told, sent>>

\* What callers give: an argument may be left out, or be one too many.
Arguments == {<<Absent, 1>>, <<1, 2>>}
Keys == {d.key : d \in Descriptions} \ {Absent}
Hellos == {[major |-> 1, minor |-> 14], [major |-> Absent, minor |-> 14], [major |-> 2, minor |-> 14]}

Next ==
  \/ \E hello \in Hellos : Connect(hello)
  \/ Disconnect
  \/ \E d \in Descriptions : HandleListEntity(d)
  \/ \E d \in ServiceList : HandleListServiceEntity(d)
  \/ \E d \in Infos : DiscoverDeviceInfo(d) \/ RunDeviceInfo(d)
  \/ DiscoverDone \/ RunDone
  \/ \E m \in {"PING_REQUEST", "GET_TIME_REQUEST"} : Reply(m)
  \/ \E args \in Arguments : (\E d \in ServiceList : ExecuteService(d.key, args) \/ ExecuteByName(d.name, args))
  \/ \E m \in StateMessages, k \in Keys, i \in {Absent, 7} : HandleTelemetry(m, k, i)

Spec == Init /\ [][Next]_vars

-----------------------------------------------------------------------------
\* The indexes of the registry are what its list says: the last entity of a key, its id, and
\* the key of the last entity of an id; nothing of an earlier session is left in them.
IndexesAgree ==
  LET listed == registry.entities
      LastOfKey(i) == \A j \in 1..Len(listed) : j > i => listed[j].key # listed[i].key
      LastOfId(i) == \A j \in 1..Len(listed) : j > i => EntityId(listed[j]) # EntityId(listed[i])
  IN  /\ DOMAIN registry.byKey = {listed[i].key : i \in 1..Len(listed)}
      /\ DOMAIN registry.idByKey = DOMAIN registry.byKey
      /\ DOMAIN registry.keyById = {EntityId(listed[i]) : i \in 1..Len(listed)}
      /\ \A i \in 1..Len(listed) :
           /\ LastOfKey(i) => /\ registry.byKey[listed[i].key] = listed[i]
                              /\ registry.idByKey[listed[i].key] = EntityId(listed[i])
           /\ LastOfId(i) => registry.keyById[EntityId(listed[i])] = listed[i].key

\* What latest() answers is of this session and, when neither the id nor its key was listed for
\* a second entity, of the entity that byId() answers: its key, and its type even where two
\* types share a message.
LatestIsOfItsEntity ==
  \A id \in DOMAIN latestCache :
    LET rivals == {i \in 1..Len(registry.entities) :
                     EntityId(registry.entities[i]) = id \/ registry.entities[i].key = latestCache[id].key}
        entity == ById(registry, id)
    IN  /\ latestCache[id].epoch = epoch
        /\ Cardinality({registry.entities[i] : i \in rivals}) = 1 =>
             latestCache[id].key = entity.key /\ latestCache[id].type \in {entity.type, "button"}

\* While a session runs, consumers were told what the client would answer: the list of the
\* last batch that ended, and the device as it was last described.
ConsumersAreUpToDate ==
  phase = "running" =>
    /\ ~registry.dirty => told.entities = registry.entities
    /\ ~serviceRegistry.dirty /\ serviceRegistry.services # <<>> => told.services = serviceRegistry.services
    /\ told.info = device.info
    /\ device.capabilities = ParseCapabilities(device.apiMinor, told.info)

\* A service request names a service of this session, under the name that was asked for, and
\* carries arguments that the caller gave, in the caller's order and no more than it declares.
RequestsFitTheService ==
  sent.type = "EXECUTE_SERVICE_REQUEST" =>
    /\ sent.service \in ToSet(serviceRegistry.services)
    /\ sent.name # Absent => \E s \in ToSet(serviceRegistry.services) : s.name = sent.name /\ s.key = sent.service.key
    /\ Len(sent.args) <= Len(sent.service.args)
    /\ \A i, j \in 1..Len(sent.args) : i < j => sent.args[i][1] < sent.args[j][1]
    /\ \A i \in 1..Len(sent.args) : sent.args[i][2] = sent.asked[sent.args[i][1]] /\ sent.args[i][2] # Absent
=============================================================================
