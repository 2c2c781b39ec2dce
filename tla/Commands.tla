------------------------------ MODULE Commands ------------------------------
(***************************************************************************)
(* command() and commandAndAwait(): the schema-driven encoder, and the     *)
(* wait for the state event that answers a command.                        *)
(*                                                                         *)
(* The schemas are those of the source for four entity types that between  *)
(* them use every kind of field, without the fields that repeat a kind.    *)
(* A mask is the set of its bits.  A number that the program may round is  *)
(* counted in halves; an enum's alias is a string.                         *)
(***************************************************************************)
EXTENDS Naturals, Sequences, FiniteSets, Functions, SequencesExt

CONSTANTS
  Awaits,                 \* of commandAndAwait()
  HighWater,              \* highWaterMark of a stream of the bus
  MaxEvents, MaxCommands  \* bounds

VARIABLES
  registry,    \* the entities that discovery found, each with its key and device_id
  sent,        \* history: the last command() of the client, what was asked and what was sent
  commands,    \* commands so far
  await,       \* of each commandAndAwait()
  unread,      \* of each: what its bus stream has for it, as numbers of events
  events,      \* history: the state events of the session, [entity]
  refused,     \* history: of each call, the events its predicate refused
  missed       \* history: of each call, the events its stream had no room for

vars == <<registry, sent, commands, await, unread, events, refused, missed>>

-----------------------------------------------------------------------------
(* The command schemas: option name to field numbers. *)

NoFields == [name \in {} |-> 0]

\* A spread: the options of both, where they differ those of the first.
Over(f, g) == [n \in DOMAIN f \cup DOMAIN g |-> IF n \in DOMAIN f THEN f[n] ELSE g[n]]

Light == [
  fields |-> [hasRgb |-> 6, red |-> 7, green |-> 8, blue |-> 9],
  hasPatternFields |-> [state |-> <<2, 3>>, brightness |-> <<4, 5>>],
  bitmaskFields |-> NoFields, bitmaskFieldNumber |-> 0, packedBits |-> NoFields, packedField |-> 0,
  enumMappings |-> NoFields, keyFieldNumber |-> 1, deviceIdFieldNumber |-> 28]

Siren == [
  fields |-> NoFields,
  hasPatternFields |-> [state |-> <<2, 3>>, duration |-> <<6, 7>>],
  bitmaskFields |-> NoFields, bitmaskFieldNumber |-> 0, packedBits |-> NoFields, packedField |-> 0,
  enumMappings |-> NoFields, keyFieldNumber |-> 1, deviceIdFieldNumber |-> 10]

\* bitmaskFields: <<bit, field>>; packedBits: <<bit of the packed field, hasFieldBit>>.
WaterHeater == [
  fields |-> NoFields, hasPatternFields |-> NoFields,
  bitmaskFields |-> [mode |-> <<1, 3>>, targetTemperature |-> <<2, 4>>], bitmaskFieldNumber |-> 2,
  packedBits |-> [awayState |-> <<1, 64>>, onState |-> <<2, 32>>], packedField |-> 6,
  enumMappings |-> [mode |-> [off |-> 0, eco |-> 1]],
  keyFieldNumber |-> 1, deviceIdFieldNumber |-> 5]

ReadOnly == [readOnly |-> TRUE]

resolveSchema == [light |-> Light, siren |-> Siren, water_heater |-> WaterHeater, sensor |-> ReadOnly]

\* The entities of the device, two of one type, and one whose type the client has no schema for.
TypeOf == [light |-> "light", lamp |-> "light", siren |-> "siren", boiler |-> "water_heater",
           sensor |-> "sensor", unknown |-> "unknown"]
KeyOf == [light |-> 11, lamp |-> 12, siren |-> 13, boiler |-> 14, sensor |-> 15]
DeviceOf == [light |-> 7, lamp |-> 0, siren |-> 0, boiler |-> 7, sensor |-> 0]
Entities == DOMAIN TypeOf
Discoverable == DOMAIN KeyOf

\* What callers ask for.
OptionsFor(e) ==
  CASE e = "light" -> {[state |-> 1], [state |-> 0, brightness |-> 0], [rgb |-> [r |-> 4, g |-> 0, b |-> 2]]}
    [] e = "siren" -> {[state |-> 1, duration |-> 5]}
    [] e = "boiler" -> {[mode |-> "eco"], [mode |-> "turbo", onState |-> 1], [awayState |-> 0],
                              [awayState |-> 1, onState |-> 0, targetTemperature |-> 0]}
    [] OTHER -> {[state |-> 1]}

-----------------------------------------------------------------------------
(* The encoder. *)

SplitRgb(options) ==
  Over([hasRgb |-> 1, red |-> options.rgb.r, green |-> options.rgb.g, blue |-> options.rgb.b],
       Restrict(options, DOMAIN options \ {"rgb"}))

\* COMMAND_ADAPTERS: rgb becomes four fields, the duration of a siren whole seconds.
CommandAdapter(e, options) ==
  CASE TypeOf[e] = "light" /\ "rgb" \in DOMAIN options -> SplitRgb(options)
    [] TypeOf[e] = "siren" /\ "duration" \in DOMAIN options ->
         [options EXCEPT !.duration = 2 * ((@ + 1) \div 2)]
    [] OTHER -> options

Aliased(schema, options) == DOMAIN options \cap DOMAIN schema.enumMappings

\* A string for an enum field must be a known alias.
HasUnknownAlias(schema, options) ==
  \E n \in Aliased(schema, options) : options[n] \notin DOMAIN schema.enumMappings[n]

MapEnums(schema, options) ==
  [n \in DOMAIN options |->
     IF n \in Aliased(schema, options) THEN schema.enumMappings[n][options[n]] ELSE options[n]]

Given(options, table) == DOMAIN options \cap DOMAIN table

\* Mutant: only the bits that are set are touched.
EncodePackedSetBits(schema, options) ==
  LET touched == {n \in Given(options, schema.packedBits) : options[n] = 1}
  IN  [field |-> IF touched = {} THEN {}
                 ELSE {<<schema.packedField, {schema.packedBits[n][1] : n \in touched}>>},
       has |-> {schema.packedBits[n][2] : n \in touched}]

\* The packed field, present once a bit of it is touched, and the has-bits of those touched.
EncodePacked(schema, options) ==
  LET touched == Given(options, schema.packedBits)
  IN  [field |-> IF touched = {} THEN {}
                 ELSE {<<schema.packedField, {schema.packedBits[n][1] : n \in {m \in touched : options[m] = 1}}>>},
       has |-> {schema.packedBits[n][2] : n \in touched}]

\* encodeFieldValue() is what the field number stands for: the value itself.
EncodeFields(schema, options, key, device) ==
  LET packed == EncodePacked(schema, options)
      masked == Given(options, schema.bitmaskFields)
      mask == packed.has \cup {schema.bitmaskFields[n][1] : n \in masked}
  IN  {<<schema.keyFieldNumber, key>>}
      \cup {<<schema.fields[n], options[n]>> : n \in Given(options, schema.fields)}
      \cup {<<schema.hasPatternFields[n][1], 1>> : n \in Given(options, schema.hasPatternFields)}
      \cup {<<schema.hasPatternFields[n][2], options[n]>> : n \in Given(options, schema.hasPatternFields)}
      \cup {<<schema.bitmaskFields[n][2], options[n]>> : n \in masked}
      \cup packed.field
      \cup (IF mask # {} THEN {<<schema.bitmaskFieldNumber, mask>>} ELSE {})
      \cup (IF device # 0 THEN {<<schema.deviceIdFieldNumber, device>>} ELSE {})

\* encodeEntityCommand(): the fields, or the reason why there are none.
EncodeEntityCommand(e, options) ==
  LET schema == resolveSchema[TypeOf[e]]
      refusal == IF TypeOf[e] \notin DOMAIN resolveSchema THEN "schema_unknown"
                 ELSE IF schema = ReadOnly THEN "command_unsupported"
                 ELSE IF e \notin registry THEN "key_not_found"
                 ELSE IF HasUnknownAlias(schema, options) THEN "enum_value_unknown"
                 ELSE "ok"
  IN  [result |-> refusal,
       fields |-> IF refusal # "ok" THEN {}
                  ELSE EncodeFields(schema, MapEnums(schema, options), KeyOf[e], DeviceOf[e])]

-----------------------------------------------------------------------------
Init ==
  /\ registry = {}
  /\ sent = [entity |-> "unknown", options |-> NoFields, result |-> "none", fields |-> {}]
  /\ commands = 0
  /\ await = [c \in Awaits |-> [stage |-> "none", entity |-> "unknown", since |-> 0, event |-> 0,
                               aborted |-> FALSE]]
  /\ unread = [c \in Awaits |-> <<>>]
  /\ events = <<>>
  /\ refused = [c \in Awaits |-> {}]
  /\ missed = [c \in Awaits |-> {}]

TypeOK ==
  /\ registry \subseteq Discoverable
  /\ commands \in 0..MaxCommands
  /\ sent.result \in {"none", "ok", "schema_unknown", "command_unsupported", "key_not_found", "enum_value_unknown"}
  /\ \A c \in Awaits :
       /\ await[c].stage \in {"none", "reading", "judging", "resolved", "failed", "rejected"}
       /\ \A i \in 1..Len(unread[c]) : unread[c][i] \in 1..Len(events)

\* Discovery, in one step.
Discover ==
  /\ registry = {}
  /\ registry' = Discoverable
  /\ UNCHANGED <<sent, commands, await, unread, events, refused, missed>>

\* connect() forgets what was discovered; a commandAndAwait() goes on waiting.
Reconnect ==
  /\ registry # {}
  /\ registry' = {}
  /\ UNCHANGED <<sent, commands, await, unread, events, refused, missed>>

Pending == {"reading", "judging"}
Listening == {c \in Awaits : await[c].stage \in Pending /\ ~await[c].aborted}

\* The loop that reads has called next(): the first event is on its way to it, and the queue of
\* the stream holds the others.
InHand(c) == IF await[c].stage = "reading" THEN 1 ELSE 0
IsFull(c) == Len(unread[c]) >= InHand(c) + HighWater
Oldest(c) == InHand(c) + 1

\* A state event of an entity, registered or not, published on the channel of its type; a full
\* queue drops its oldest.
StateEvent(e) ==
  LET hears == {c \in Listening : TypeOf[await[c].entity] = TypeOf[e]}
      full == {c \in hears : IsFull(c)}
  IN  /\ e \in Discoverable /\ Len(events) < MaxEvents
      /\ events' = Append(events, e)
      /\ unread' = [c \in Awaits |->
                      IF c \in full THEN Append(RemoveAt(unread[c], Oldest(c)), Len(events'))
                      ELSE IF c \in hears THEN Append(unread[c], Len(events'))
                      ELSE unread[c]]
      /\ missed' = [c \in Awaits |-> IF c \in full THEN missed[c] \cup {unread[c][Oldest(c)]} ELSE missed[c]]
      /\ UNCHANGED <<registry, sent, commands, await, refused>>

\* runCommand(): what cannot be encoded is dropped with a warning.
RunCommand(e, options) ==
  LET encoded == EncodeEntityCommand(e, CommandAdapter(e, options))
  IN  /\ commands < MaxCommands
      /\ commands' = commands + 1
      /\ sent' = [entity |-> e, options |-> options, result |-> encoded.result, fields |-> encoded.fields]

Command(e, options) ==
  /\ RunCommand(e, options)
  /\ UNCHANGED <<registry, await, unread, events, refused, missed>>

\* runCommandAndAwait(): listens first, then sends; an unknown entity throws.
CommandAndAwait(c, e, options) ==
  /\ await[c].stage = "none"
  /\ IF e \notin registry
     THEN /\ await' = [await EXCEPT ![c].stage = "rejected"]
          /\ UNCHANGED <<sent, commands>>
     ELSE /\ await' = [await EXCEPT ![c] = [@ EXCEPT !.stage = "reading", !.entity = e, !.since = Len(events)]]
          /\ RunCommand(e, options)
  /\ UNCHANGED <<registry, unread, events, refused, missed>>

\* The loop takes the next event, and asks the predicate about one of the target.
TakeEvent(c) ==
  /\ await[c].stage = "reading" /\ unread[c] # <<>>
  /\ await' = IF events[Head(unread[c])] = await[c].entity
              THEN [await EXCEPT ![c].stage = "judging", ![c].event = Head(unread[c])]
              ELSE await
  /\ unread' = [unread EXCEPT ![c] = Tail(@)]
  /\ UNCHANGED <<registry, sent, commands, events, refused, missed>>

\* Leaving the loop, by return or by the predicate's throw, closes the stream.
Settle(c, how) ==
  /\ await' = [await EXCEPT ![c].stage = how]
  /\ unread' = [unread EXCEPT ![c] = <<>>]

Accept(c) ==
  /\ await[c].stage = "judging"
  /\ Settle(c, "resolved")
  /\ UNCHANGED <<registry, sent, commands, events, refused, missed>>

Refuse(c) ==
  /\ await[c].stage = "judging"
  /\ await' = [await EXCEPT ![c].stage = "reading"]
  /\ refused' = [refused EXCEPT ![c] = @ \cup {await[c].event}]
  /\ UNCHANGED <<registry, sent, commands, unread, events, missed>>

PredicateThrows(c) ==
  /\ await[c].stage = "judging"
  /\ Settle(c, "failed")
  /\ UNCHANGED <<registry, sent, commands, events, refused, missed>>

\* The timeout or the caller's signal, and the end of the bus: the stream takes no more, and
\* what it holds is still read.
Abort(c) ==
  /\ await[c].stage \in Pending /\ ~await[c].aborted
  /\ await' = [await EXCEPT ![c].aborted = TRUE]
  /\ UNCHANGED <<registry, sent, commands, unread, events, refused, missed>>

EndOfStream(c) ==
  /\ await[c].stage = "reading" /\ await[c].aborted /\ unread[c] = <<>>
  /\ Settle(c, "failed")
  /\ UNCHANGED <<registry, sent, commands, events, refused, missed>>

Judged(c) == Accept(c) \/ Refuse(c) \/ PredicateThrows(c)

Next ==
  \/ Discover \/ Reconnect
  \/ \E e \in Entities :
       \/ StateEvent(e)
       \/ \E options \in OptionsFor(e) : Command(e, options) \/ \E c \in Awaits : CommandAndAwait(c, e, options)
  \/ \E c \in Awaits : TakeEvent(c) \/ Judged(c) \/ Abort(c) \/ EndOfStream(c)

\* A timeout fires and the loop goes on; a predicate settles.
Fairness == \A c \in Awaits : WF_vars(TakeEvent(c)) /\ WF_vars(Judged(c)) /\ WF_vars(Abort(c)) /\ WF_vars(EndOfStream(c))

Spec == Init /\ [][Next]_vars /\ Fairness

-----------------------------------------------------------------------------
\* What the device reads: the options whose has-flag or has-bit is set, or that are there.
Told(schema, fields) ==
  LET Number(n) == {f \in fields : f[1] = n}
      Value(n) == (CHOOSE f \in Number(n) : TRUE)[2]
      Bits(n) == UNION {f[2] : f \in Number(n)}
      has == Bits(schema.bitmaskFieldNumber)
      plain == [n \in {m \in DOMAIN schema.fields : Number(schema.fields[m]) # {}} |-> Value(schema.fields[n])]
      flagged == [n \in {m \in DOMAIN schema.hasPatternFields : <<schema.hasPatternFields[m][1], 1>> \in fields}
                    |-> Value(schema.hasPatternFields[n][2])]
      masked == [n \in {m \in DOMAIN schema.bitmaskFields : schema.bitmaskFields[m][1] \in has}
                   |-> Value(schema.bitmaskFields[n][2])]
      packed == [n \in {m \in DOMAIN schema.packedBits : schema.packedBits[m][2] \in has}
                   |-> IF schema.packedBits[n][1] \in Bits(schema.packedField) THEN 1 ELSE 0]
  IN  Over(Over(plain, flagged), Over(masked, packed))

\* A command that is sent reaches the entity, and tells the device every option the caller
\* gave, zero and false included, and no other; a field is never written twice.
DevicesAreToldWhatWasAsked ==
  sent.result = "ok" =>
    LET schema == resolveSchema[TypeOf[sent.entity]]
    IN  /\ Told(schema, sent.fields) = MapEnums(schema, CommandAdapter(sent.entity, sent.options))
        /\ <<1, KeyOf[sent.entity]>> \in sent.fields
        /\ \A f, g \in sent.fields : f[1] = g[1] => f = g

\* commandAndAwait() resolves with an event of its entity that came after the call and that
\* the predicate did not refuse, and overlooks none before it but those its queue had no room
\* for; a call that is over reads nothing more.
AnswersAreOfTheTarget ==
  \A c \in Awaits :
    LET mine == {i \in await[c].since + 1..Len(events) : events[i] = await[c].entity}
    IN  /\ await[c].stage = "resolved" =>
             /\ await[c].event \in mine \ refused[c]
             /\ \A i \in mine : i < await[c].event => i \in refused[c] \cup missed[c]
        /\ await[c].stage \notin Pending => unread[c] = <<>>

\* Every commandAndAwait() settles, whatever the device does, when its predicate does.
EveryAwaitSettles == \A c \in Awaits : await[c].stage \in Pending ~> await[c].stage \notin Pending

=============================================================================
