# esphome-client: a TLA+ model of the client

`esphome-client` is a TypeScript client for the ESPHome native API. It runs on Node's single
event loop and talks to one device over one TCP socket, in plaintext or through a Noise
channel. This directory holds a specification of the parts of it whose correctness depends on
the order of events, TLC configurations that check them on small instances, and proofs checked
by TLAPS. Paths below are relative to the repository root.

## 1. Inventory

| Component | State it keeps | Operations | Talks to | What is hard | What makes it correct |
|---|---|---|---|---|---|
| Connection lifecycle (`src/esphome-client.ts`, `src/health.ts`) | `transport`, `runReceiver`, `explicitlyClosed`, `healthRecord`, `reconnect*`, graceful entry of `disconnectCorrelator` | `connect`, `disconnect`, `disconnectAsync`, `disconnectInternal`, `runReconnectLoop` | every other component | overlapping flows, teardown during an attempt, listeners that call back | one flow at a time, no orphan socket, health agrees with the socket, closed stays closed |
| Transport (`src/transport.ts`) | phase, receive buffer, message and handshake queues, three single-slot awaiters, terminal error | `send`, `firstByte`, `nextNoiseHandshakeFrame`, iterator, `installCipher`, `dispose` | socket, codec, cipher, receiver | frames split anywhere, phase change with bytes buffered, failure with readers parked | frames in order, each once, every reader settles |
| Message receiver (`src/message-receiver.ts`) | per-type buffers, awaiters, interleave handlers, drain handler, pump state | `waitFor`, `onInterleave`, `startDrain`, `dispose`, `pump` | transport iterator, session | replay, pump ending around the hand-off, aborts | no message lost or dispatched twice, the session is told once that the pump ended |
| Handshake (`src/lifecycle/handshake.ts`) | none of its own | `performNoiseHandshake`, `performPlaintextHandshake`, discovery | transport, receiver, Noise | the fallback between the two wires | ends with an authenticated connection or an error |
| Noise (`src/crypto-noise.ts`) | handshake state, two cipher states with nonces | `initialize`, `writeMessage`, `readMessage`, encrypt, decrypt | transport | nonce order | each nonce used once, both ends in step |
| Heartbeat (`src/heartbeat.ts`) | `running`, `lastActivity`, `pingSentAt`, one timer | `start`, `stop`, `stamp`, `consumePingRtt`, `tick` | session | marker that outlives a connection, one ping at a time | a silent device is reported, an active one is not |
| Reconnect policy (`src/reconnect.ts`) | none | `nextBackoffDelay`, `reconnectDelay`, `withReconnect` | session | abort during the delay | delays bounded, attempts counted |
| Correlator (`src/correlator.ts`) | key to pending entry, with timer and signal | `await`, `resolve`, `reject`, `rejectAll` | every request/response API | an answer, a timeout, an abort and a teardown race | each call settles once, by its own event |
| Event bus (`src/event-bus.ts`) | listeners, per-stream queue, one parked reader | `emit`, `on`, `next`, `return` | every consumer | overflow policies, close with a queue | order kept, closed streams end, no reader is left behind |
| Subscription ledger (`src/reissuable-subscription.ts`) | live intents, what the device was last told | `acquire`, `release`, `recompute`, `clearConnectionState`, `reissueOnReconnect` | session (send, reconnect) | re-issue after a reconnect, teardown from a listener | while connected, the device was told exactly what the live intents ask |
| Log subscriptions (`src/log-subscription-manager.ts`) | one pinned level, the ledger | `requestDeviceLevel`, `subscribe`, iterator end | ledger | a pin that must be a floor | the device's level is the highest one asked for |
| Bluetooth proxy (`src/bluetooth-proxy.ts`) | correlators per operation, per-address connection state, advertisement streams | `connect`, GATT operations, subscriptions | session, ledger, correlator | answers that name only an address, disconnect during an operation | an answer settles the operation that asked |
| Serial and Z-Wave proxies (`src/serial-proxy.ts`, `src/zwave-proxy.ts`) | correlators per port, subscription ledgers, cached home id | requests, data iterators, `accept...`, `clearConnectionState` | session, ledger, correlator | answers that name only a port, reconnect with iterators open | as for Bluetooth: an answer settles its own request, the device streams what is read |
| Camera (`src/camera.ts`) | image being reassembled | `requestSingle`, `stream` | event bus | size limit met in the middle of an image | an image delivered is whole |
| Voice assistant, Home Assistant bridge (`src/voice-assistant.ts`, `src/home-assistant.ts`) | current run, configuration request, demand for states and actions | start, stop, audio, events, `accept...` | session, ledger, correlator, bus | a run cut off by a reconnect, a start that overtakes a stop | a run starts and ends once, no audio belongs to an ended run |
| Commands (`src/command-runner.ts`, `src/command-pipeline.ts`) | waiters for a state | `runCommand`, pipeline steps | event bus | the next event of an entity is taken as the confirmation | a command that returns was followed by a state, a failed one leaves no listener |
| Registries, caches (`src/registries/`, `src/latest-state-cache.ts`, `src/discovery.ts`) | entities, services, last telemetry | add, lookup, reset | session | identity kept across a reconnect | every index agrees with the list, no state of a former connection is served |
| Run-phase handlers (`src/run-phase-handlers.ts`) | none | dispatch tables | all of the above | one failing handler | a message reaches its component, a failing handler no other message |
| Codec, schemas, capabilities, errors (`src/protocol/`, `src/schemas/`, `src/capabilities.ts`, `src/errors.ts`, ...) | none | pure functions | all | varint and frame boundaries | decoding inverts encoding, a partial frame is asked more bytes |
| `espc`, capture, testing doubles, examples (`src/util/`, `src/testing/`, `src/examples/`) | command-line state, the capture file | commands, capture, replay | client | shutdown while writing | a capture ends with what was received |

How they interact. The session owns the socket: an attempt opens a transport, runs the
handshake through it and a `MessageReceiver`, and hands both over to the run phase in one
synchronous piece (`connectInternal`). From then on the receiver's pump reads the transport's
iterator and calls the run-phase handlers, which call the `accept...` methods of the other
components, settle correlators and emit on the bus. The heartbeat, the receiver's
`onTerminal`, the device's DISCONNECT_REQUEST and the API all end a connection by
`disconnectInternal`. At each end and each start of a connection the session calls
`clearConnectionState()` of every subscription owner, and after a start `reissueOnReconnect()`.

## 2. Modules

| Module | Models | Checked by run | Proved in |
|---|---|---|---|
| `Session` | connection lifecycle and auto-reconnect of `EspHomeClient` | `session`, `session_closed` | `SessionProofs` |
| `SessionSerial` | `Session` under serial use, with its inductive invariant and its refinement mapping | the same | `SessionProofs` |
| `Lifecycle` | what the client promises of its connections (abstract) | `session`, implemented by `SessionSerial` | `SessionProofs` |
| `Reconnect` | `openEspHomeClient()`, `nextBackoffDelay`, `withReconnect()` | `session`, `reconnect_bodies` | `SessionProofs` |
| `Receiver` | `MessageReceiver` | `receiver` | `ReceiverProofs` |
| `Router` | what `MessageReceiver` promises of each message (abstract) | `receiver`, implemented by `Receiver` | `ReceiverProofs` |
| `Entities` | registries, capabilities, discovery, latest-state cache, version negotiation, run-phase dispatch, user services | `receiver` | `ReceiverProofs` |
| `Transport` | `Transport` with both handshakes and the fallback between them | `transport` | `TransportProofs` |
| `Noise` | `crypto-noise.ts` and `performNoiseHandshake()`, both sides | `transport` | `NoiseProofs` |
| `Codec` | the protobuf codec and the typed extraction of fields | `transport` | `CodecProofs` |
| `Capture` | `espc record` and `replay`: the file and what a replay tells | `transport` | |
| `Ledger` | `ReissuableSubscription` | `ledger` | `LedgerProofs` |
| `LogSubscriptions` | `LogSubscriptionManager` over `Ledger`'s variables | `ledger`, `log_discard` | `LedgerProofs` |
| `Heartbeat`, `HeartbeatTimes` | `Heartbeat` with health's part of it; its times and what it promises | `ledger`, `heartbeat_marker` | `LedgerProofs` |
| `EventBus` | one channel of `EventBus`, with its streams | `event_bus` | `EventBusProofs` |
| `Camera` | `CameraApi`: reassembly, `snapshot()`, `stream()` | `event_bus`, `camera_oversize` | `EventBusProofs` |
| `Commands` | `command()` with its schema-driven encoder, `commandAndAwait()` | `event_bus` | `EventBusProofs` |
| `Correlator`, `PendingCalls`, `CorrelatedCalls` | `Correlator`; its map and what it promises; its constants | `event_bus` | `EventBusProofs` |
| `Bluetooth` | the requests of `BluetoothProxyApi` | `bluetooth`, `bluetooth_services` | `BluetoothProofs` |
| `BluetoothCodec` | the hand-written readers of Bluetooth messages | `transport` | |
| `ProxyCalls` | serial pins and flush, the Noise key, voice announcements and configuration | `bluetooth` | `BluetoothProofs` |
| `ProxySubscriptions` | what the serial, Z-Wave, Bluetooth, voice and Home Assistant APIs subscribe to, over reconnects | `bluetooth` | `BluetoothProofs` |
| `ProxyMessages` | the conversion of the messages that change no state | `transport` | |

`MCSession`, `MCReceiver`, `MCTransport`, `MCLedger`, `MCEventBus` and `MCBluetooth` instantiate
them for TLC. Each is a sum: its variable `part` (`owner` in `MCLedger`) is chosen in the initial
state, never changes, and says which component moves; the others keep one initial state, so the
state spaces do not mix. The modules without variables (`Capture`; `BluetoothCodec` and
`ProxyMessages`, the part "proxies" of `MCTransport`) are evaluated in a state of their own, over
all of their inputs. The sum also says what a run's property is made of, since it names the parts.
The proof modules extend the sums, so that what they prove is what the runs check.

### The event loop

The program has one thread. A step of a module is the code that runs between two points at
which other code can get in: an `await`, an emit, a callback. Three kinds of code interleave,
with different rights, and every module keeps them apart:

- a macrotask (a socket event or a timer) is taken only when no continuation is left, which is
  the guard `Settled` of `Session` and `Transport`; frames of one chunk are not macrotasks, so in
  `Bluetooth` a few may come between a settlement and its `finally`;
- a continuation (the code after a settled await) is a step of its own, before the next
  macrotask;
- calls of the application can come from either, or from a listener inside an emit, so they
  are possible at every step.

### Session

A run-phase transport and its receiver are one value of `Conns`, for the code sets and clears
them together. `pc` says where each connect flow is suspended: a caller of `connect()` or a
loop of the supervisor (`runReconnectLoop`) in its back-off delay. `ctx` is the handshake
context of a flow, `task` the synchronous code that still has to run when the current emit
returns (a teardown's reconnect decision, the heartbeat's stall), `graceful` the pending
`disconnectAsync()`. `finalSend` is the SUBSCRIBE_STATES send at the end of an attempt: it
watches no abort signal, which is what the run `session_closed` turns on.

The signal of a call may have fired when `connect()` begins or when the superseded loop is gone: it
then throws before it touches what is up (`connectInternal`'s first line), but the loop is already
cancelled. `maxAttempts` is a number here; its default is no limit, which for a run that makes
fewer attempts is the same as a number above them, and safety is proved for every number. Only
`LoopTerminates` needs a limit. The catch block of an attempt (`AttemptFails`) is one step, though it
awaits the disposal of the handshake context: only continuations run meanwhile.

Left out: the fallback from Noise to plaintext inside one attempt (in `Transport`), the
microtask between the disposal of the old transport and of the old receiver (in no module; for each
order of the two, `Receiver`'s `LossReachesOwner` says what the owner hears), a second concurrent
`disconnectAsync()`, listeners and `onAttempt` that throw. `shouldRetry` may answer anything.

`Lifecycle` knows of no sockets' receivers, contexts, tasks or loops: a link, whose attempt is under
way, the retries since a link was last up, whether the client was closed, and health. `Life` in
`SessionSerial` maps the transport to the link, the flow that is attempting (`Attempt`) to the
attempt, the supervisor's counter to the retries, the pending good-bye to `leaving`: a
`disconnectAsync()` says good-bye to a link (`SaysGoodbye`) and, when that was answered, timed out or
failed, takes down what is up (`Leaves`); `GoodbyesAreForTheirOwn` says that this is the link it was
called for, or nothing, since no other comes up in between. That a retry begins only after one was counted and
announced is not a guard of `LoopAttempts`: it holds because a teardown reports the loss before it
schedules a loop, and a loop announces itself before its first delay (`SupervisorIsAnnounced`).

### Reconnect

`link` is what the helpers see of a session: health, and whether its change was emitted yet.
`openEspHomeClient()` is `opening` with its failures and its delay, drawn from the set that the
jitter allows. `withReconnect()` is `helper` (`idle`, running, ending, returned), the
queue of its lifecycle iterator and the list of the bodies it started, each with its signal. A
body may end its own connection in its first synchronous instructions, before the iterator
listens (`Missed`): `BodiesFollowConnections` leaves that one body out, see section 6.

### Receiver and Router

One step is one public method or one turn of the pump; `waitFor` calls have single-use
identities; messages are numbered by arrival, so order and duplication can be stated. The
receiver cannot be handed over after its pump ended, because the session looks first
(`StartDrain`'s guard). When several wanted types are buffered the choice is left open.

`Router` knows nothing of waits, handlers or a pump: a message passes straight through, is
taken aside by an interleave handler, or joins the line of its type, which only its oldest
member leaves. The refinement mapping (`Routing` in `Receiver`) takes `line` from the buffers and
`taken`, `aside`, `lost` from the history of deliveries. That a message passes through
only when its line is empty is not a guard of the receiver: it holds because waits look before
they park, and because the hand-over empties every buffer.

### Entities

`registry` is the list with the three indexes and the dirty bit, `latestCache` the last state
of each entity, `device` the device info with its capabilities. The steps are those of
`performDiscovery()`, `applyHelloResponse()` and `authenticateIfNeeded()`, the run-phase
handlers for late lists, states, pings, time requests and service calls, and the end of a session,
of which `told` keeps what the consumers heard. Four entity types are enough for every rule of the
schemas: two share their state message, one has a device slot and a twin without. Descriptions
are chosen so that ids collide, keys collide between types, a name is blank. In `MCReceiver` a
session lists either entities or services, which keeps the state space down; the proofs have both.

### Transport

The state of one transport is a record `t`, and every effect of the code on it is a function
(`Received`, `Drained`, `Delivered`, `Failed`, `NextMessage`, ...), for one socket event applies
several of them. `given` holds a promise that was settled and whose awaiter has not resumed: the code
between the two is where a phase change meets queued frames. Bytes come in units, a frame being
two of them, so a frame can be cut in the middle or joined with the next one. The device is
of a kind: `noise` (honest, encrypted), `plain`, `eager` (sends before it is asked) or
`faulty`. A failed Noise handshake opens a second transport, in plaintext, once.

A send that fails (`SendFails`: the callback of the socket's write reports an error, or the socket
is gone) ends the handshake it belongs to.

Left out: `firstByte`, the socket's own connect phase, the framing of what is sent, and the cipher
object (see `Transport` under "Met while modelling" in section 6).

### Noise, Codec, Capture

`Noise` is symbolic: a hash is the pair of the hash before it and of what was mixed in, a derived
key names its chaining key and how often it was replaced since, a box opens with the key, nonce and
data it was sealed with. Client and device run the same `HandshakeState`; the link damages, repeats
or loses up to `MaxFaults` frames. Nonces go to `MaxNonce`, so their exhaustion happens.

`Codec` encodes a message of up to `MaxSent` fields, may cut or garble the bytes, and decodes
them one field a step. Widths are parameters (2 bits per byte of a varint, words of 7 bits,
bigints of 13), chosen like the code's so that neither width is a multiple of a byte's and
the shift of a varint's last byte passes the width.

`Capture` has no state: a conversation of up to `MaxFrames` messages over a failed and a
successful attempt is recorded, encoded, possibly cut, decoded and replayed.

### Ledger and LogSubscriptions

`Ledger` has the live handles with their intents, the cache of what the device was last told, and
what the device in fact believes. The transport is `none`, `up` or `broken` (a dead socket whose end
has not been seen, into which frames go unseen). `options` selects the three shapes the code base
uses: with and without an unsubscribe frame (`retainOnEmpty`) and the reissue-only ledger of
Bluetooth notifications (no `onChange`). `Reduce` is a parameter. Attaching a transport and
re-issuing is one step, since `connectInternal` does both synchronously.

`LogSubscriptions` adds the log manager's iterators (new, called, reading, finished,
discarded) and its pin. It is checked in the same run: `MCLedger`'s variable `owner`, chosen in
the initial state, says whether the ledger is used freely or by the log manager, and never
changes.

### EventBus

One channel: callbacks, one-shot listeners and pull streams. Emissions form a stack because a
callback may emit, subscribe, unsubscribe or dispose. Each stream has one consumer with at
most one `next()` outstanding, and a high-water mark of at least one.

### Camera, Commands

`Camera` has one buffer per camera, the device that sends images chunk by chunk, and consumers,
each behind a stream of the bus. A slow reader of `stream()` loses the oldest images once its queue
is at the mark; the default policy is modelled, the other two are `EventBus`'s. The loop of
`snapshot()` has no await but for the next image, so its queue does not fill. A stop request has both
flags false, which the device ignores (`src/camera.ts:157`), so it is no action of the model.
`assembled` is the history of emitted images. `Commands` has
the schemas of four entity types that use every kind of field (plain, with a has-flag, with a
bit mask, packed bits, enums, a read-only type), and `commandAndAwait()` over a stream with
its predicate, its abort and the end of the bus; the queue of that stream has a mark (256 in the
code), and with a slow predicate it drops the oldest (`missed`). `Told` reads a frame as the device would.

### Correlator, Heartbeat

`Correlator` has the map, the calls' promises, and their abort listeners; an answer carries a
key and no identity, and the device answers in order or stays silent. `Heartbeat` runs in
discrete time: each clock is an age that stops at `Oldest`, timers fire on time
(`Punctual`), the device answers a ping within `AnswerWithin` or is silent.

### Bluetooth and the other sub-APIs

Ten correlators are one map keyed by operation and address. One handle per address stands for
any number, as two handles share nothing. `Admin` has one request for the four of the same
shape (`pair`, `unpair`, `clearCache`, `setConnectionParams`). The `finally` of
`getServices()` is a step of its own (`unwinding`), after the settlement and before or after the next
frames of the same chunk.
Device frames include late answers, errors, reports nobody asked for, and the
acknowledgement of a write that asked for none.

`BluetoothCodec` is a table: for each message the number, wire type and reading of each field.
The code's eleven loops are instances of one function over it, and their checks are functions
of a payload with foreign, repeated, damaged and nested items. `ProxyMessages` is two tables
in the same way, inbound (required, optional, defaulted) and outbound.

`ProxyCalls` has calls without a number on the wire: three wait in a `Correlator`, two for the
next event on the bus. `ProxySubscriptions` has readers (streams that hold a ledger handle from
the call on; "lost" is one given up before its first read) and intents (one wish each), the
frames under way in both directions, what the device serves, and the home id with its observed
value. In the run one reader is combined with all there is to subscribe to, and two readers with the
channels they can share (`OneReader`, `OnlyShared` in `MCBluetooth`): there a handle's release must
leave the other's data flowing. The theorem has no such bound. Both have a connection with the stages down, opening, up and broken, in which
`frameAndSend()` drops, drops, sends and loses.

## 3. Runs

Each run asks one group of questions of components that belong together.

| Run | Bounds | Distinct states | Shows |
|---|---|---|---|
| `session` | 1 caller, 3 loops, 3 connections, 3 attempts; 2 retries, 2 connections for the helpers | 5 344 | `OneConnectFlow`, `NothingIsOrphaned`, `LoopsAreOwned`, `LiveIsHonest`; `ClientIsALifecycle` (the client implements `Lifecycle`); `BodiesFollowConnections`; `EveryCallConcludes` under fairness |
| `receiver` | 2 waits, 2 types, buffers of 2, 5 messages; 2 listed entities of 5 descriptions or 1 service, 2 sessions | 538 750 | `OnceAndInOrder` (the receiver implements `Router`, every message has one fate, the run phase starts clean), `NoWaiterIsOverlooked`, `LossReachesOwner`; `EntitiesAreConsistent`, `RequestsFitTheService` |
| `transport` | 4 device kinds, receive limits 3 and 4 units, 3 messages, pieces of up to 3 units; 2 Noise attempts, 1 fault, 3 sends, 1 rekey, 2 nonces; 2 fields; 5 captured frames; varints of 2 and 4 bits a byte, words of 7 | 564 881 | `DevicesAreHeard` (messages in order, and no error while an honest device is connected), `WaitersAreReachable`; `SecretsAreSafe`; `MessagesSurvive`; `ReadingsAreFaithful` (the readers of the sub-APIs, and captures); `ConnectionsConclude` under fairness |
| `ledger` | 4 handles, 3 levels, 2 keys; or 3 iterators and the pin; or interval 4, timeout 8, answers within 2 | 929 289 | `InSync`, `FramesAreNews`; `EveryReaderIsServed`; `NoFalseStall`, `SilenceIsNoticed` |
| `event_bus` | one listener of each kind, mark 2, 4 emissions, nesting 2; 2 cameras, images of 1 and 4 chunks with a limit of 2, 3 images, 2 sessions; 1 await, 3 events, mark 1 for both; 3 calls, 2 keys | 793 797 | `WaitersAreReachable`, `DisposeSettlesAll`; `SnapshotsAreWhole`; `DevicesAreToldWhatWasAsked`; `WaitersGetTheirOwn`, `EntriesAreThePendingCalls`; `BoundedWaitsEnd` under fairness |
| `bluetooth` | 3 calls, 2 peripherals, 2 service frames; 2 callers, 2 connections, 2 requests; 1 reader over 5 channels, or 2 over the 3 they can share, 2 frames under way, 1 change of home | 1 092 066 | `AnswersFindTheirCall`, `ServicesAreWhole`, `AccumulatorsHaveAnOwner`; `SubApisKeepTheirWord` |
| `session_closed`, `reconnect_bodies` | 2 loops, 2 connections, 2 attempts | | findings 1 and 6 |
| `log_discard`, `heartbeat_marker`, `bluetooth_services`, `camera_oversize` | as the passing run of their component, `OverLive` in the second | | findings 2 to 5 |

What the sums' properties hold together is said beside each of them in the MC modules.

Why the bounds are enough. `session`: at most one loop runs un-cancelled, a superseded one may be
winding down and a third be scheduled by a teardown; with three connections and attempts the budget
is met both by success and by exhaustion; two connections are the least with a body of an old one
beside that of the new. `receiver`: two waits with different sets of types are the least that can
compete for a message, and five messages overfill a buffer of two and leave some to hand out; two
sessions and two listed entities give every collision of the descriptions and what is left of them.
`transport`: a frame is two units, so pieces of one to three units cut and join frames in every way,
and the limits are just below and just above what an honest device may have in flight; the phase
change happens with zero, one and two frames queued; two attempts show a nonce or key that survives
the first; two fields let one be damaged beside another. `ledger`: three levels with duplicates
distinguish every change of a maximum; all phases of the period against the interval and the
timeout, ages capped one above the largest comparison. `event_bus`: one more item than the mark plus
a parked reader, and one re-entry; an image over the limit by two chunks has a tail of its own; two
calls contend for a key while a third comes late; with a mark of one, three images or events are one
more than a slow reader and its queue can hold. `bluetooth`: the same, with two peripherals to
mistake for each other; two connections, for what an answer or a subscription of the first does in
the second; two readers are the least of whom one stays when the other goes.

Deadlock checking is off where the bounds stop the environment (`receiver`, `transport`,
`event_bus`, `bluetooth` and the violation runs of the last two): once messages, emissions or
calls are used up there is nothing more to do, and a part of functions takes no step at all.
`session` and `ledger` check it; in `MCSession` the two ways to be done (thrown, returned)
stutter explicitly.

Symmetry is used in `receiver`, `ledger` and `bluetooth` only, which check no liveness.

## 4. Fairness

- `Session`: weak fairness of continuations (the microtask queue is drained), strong fairness of
  each flow's own progress and of the graceful disconnect's settlement: their timers (handshake
  timeout, back-off, response timeout) fire while other macrotasks keep coming, and the enabling
  condition `Settled` comes and goes. Nothing is assumed of the device or the application. A
  loop's `LoopAttempts \/ LoopBreaks` is fair as a whole: the delay ends or is aborted.
- `Reconnect`: weak fairness of the helpers' own steps: an attempt ends (which is what
  `Session!CallsReturn` shows), a delay ends, an emit and the iterator go on, and a body that was
  told to stop does stop. A body that is not told may run for ever, and so may a connection.
- `Transport`: weak fairness of the client's continuations, of the handshake timeout and of the
  reader; none of the device.
- `Commands`: weak fairness of each wait's own steps and of its timeout (`Abort`); none of the
  device. The predicate is assumed to settle.
- `Correlator`: weak fairness of `Abort`, the timeout of a call that has one. A call without
  timeout or signal is left out of `NoBoundedCallHangs`: it settles only when the connection ends.
- The other modules check no liveness. `Heartbeat`'s time-bounded claims are safety
  properties over ages.

## 5. Proofs

Each theorem holds for all values of the constants that satisfy the assumptions of the modules
it is about. Those are named `...Assumption`, TLC evaluates them in every run, and they say
that bounds are numbers, that the sets of the instances are apart, and where a value of the code
must not be mistaken for another (`None`, `Empty`; in `NoiseAssumption` also `None` and the
errors of the code). `CodecAssumption`
orders the widths as the code's are: a varint's byte has at most the bits of a word, a word fewer
than a bigint, a varint may take a bigint, and tags and fixed-width lengths fit a word.
`EntitiesAssumption` asks of a device's messages only that what lists a service has a list of
arguments. Three say more: `SerialUse` (one `connect()`
open at a time, no listener that calls `connect()`), `LevelsAssumption` (log levels are 0..6,
as `LogLevel` has them) and `BluetoothAssumption` (no administrative request is a discovery).

A property that a run checks is in general not inductive. The proof module of a component
therefore starts from a stronger invariant, checked by TLC before it was proved, shows that the
initial states have it and that every action keeps it, one lemma or step per action, and draws the
theorems from it. `MCInv` is the conjunction of the invariants of a sum's parts.

- **`SessionProofs`.** `IInv` of `SessionSerial` is inductive. That an attempt finds no transport
  needs `AttemptIsAlone`, which needs to know that a teardown that will schedule a loop finds none
  (`TeardownFindsNoLoop`), and that a waiting caller waits for the only loop (`WaiterIsNext`). From
  it: `TypeCorrect`, `ConnectFlowsAreSerial`, `NoConnectionIsOrphaned`, `LoopsAreControlled`,
  `LiveConnectionIsHonest`, `BudgetIsKept`, and the action property `NoLossIsSwallowed`.
  `ClientLivesOneLife`: `Session` implements `Lifecycle`, one case per action (`StepOfLife`), from
  `IInv` and `SupervisorIsAnnounced`; `OneConnectFlow` makes `Attempt` the one flow it may be
  (`AttemptFollows`). `LifeIsOrderly` draws of `Lifecycle` alone that no attempt replaces a link,
  that the budget is kept, that a loss is reported and that a good-bye is for its own link
  (`LeavingLasts`: while one waits for its answer no attempt is under way). Of `Reconnect`: `BodiesAreTold`, by
  `AroundInv`: the last event still queued, or if all were handled the last body, is of the link as
  it is (`HelperHeardOfLink`).
- **`ReceiverProofs`.** `WaitersAreServed`, `HandOverIsClean`, `LossIsReportedOnce`: a parked wait
  has nothing buffered that it wants, because it looks before it parks and the pump gives a message
  to a waiter before it buffers it. `ReceiverIsARouter`: the receiver implements `Router`, initial
  state and every step, and `Router`'s promises hold for it. That takes the order map to list
  exactly the non-empty buffers (`MapListsTheBuffers`), every number up to `arrived` to be in one
  place (`OneFate`, `NoneIsMissing`), and what was taken and what is buffered to be increasing
  together (`InOrder`). Of `Entities`: `EntitiesKeepTheirWord`, for the sum and for a session that
  lists entities and services both. `LatestIsOfItsEntity` does not follow from itself, since it
  speaks only of ids without rivals; `LatestWereListed` speaks of all: each state that is kept is of
  this session and came of an entity in the list, of that id and key. `LastPlace` then finds what
  the indexes hold. `RequestsFit`: a request names a service that was listed in this session, and
  its arguments are the caller's, in order,
  and no more than the service takes. The loop over the
  arguments is `Collected`, a recursive function of the position; `AllUpTo` says by a least
  counterexample what it has at each, and `CollectedFits` that it holds what was kept, in the order
  of the input. `ServicesAgree` ties the registry's index of names to its list.
- **`CodecProofs`.** `MessagesAreRead`, for all widths that `CodecAssumption` admits, any limit and
  messages of any length. From the arithmetic up: a power of two is the number of subsets of a set,
  so that it doubles and their sums and remainders are known; a number of so many bits is a set of
  bits (`Number`), and a varint's bytes are the groups of that set, so that reading them back is a
  union; the last byte is the one that has no group after it. On that stand a field
  (`FieldIsTagAndBody`), a packed list, zigzag and the bigints; a message without its end is one
  without some fields, or shows that it was cut (`VarintIsCut` and its like); and what the schema
  makes of the fields (`StateIsMeant`). Loops are recursive functions of a position, followed by
  least counterexamples (`EveryNumber`). The invariant `CodecInv` then follows the decoder's loop:
  the fields read are the first of the message and the offset is where the next one starts
  (`Follows`), and where the loop ends it had to (`EndsRightly`).
- **`TransportProofs`.** `NoOneWaitsInVain`, `DevicesAreHeardInOrder`, `TypeCorrect`, for any sizes
  of the pieces. The buffer and what is on the line are one sequence of units whose first is a
  frame's first; `Control` says what phase, handshake code and slots may be at the same time, `Data`
  how many frames of which kind are to come, and that the numbers of the messages among them, read
  and unread, are consecutive. How often `drain()` goes round is the least number at which it stops
  (`LeastNumber`, `PrefixExists`), and for any number parsing keeps `Data` (`DrainKeeps`).
- **`NoiseProofs`.** `SecretsStaySafe`, for any `MaxNonce` and any number of attempts, faults, sends
  and rekeys. Its first half follows the handshake token by token and shows that a side refuses
  every message but the one its peer wrote with the same psk (`DeviceReads`, `ClientReads`): what
  the link can do to a message changes the ephemeral key, which changes the key of the box, or the
  box. The invariant `NoiseInv` then needs three things the property does not say: that a box is of
  the handshake, of the data or of a rekeying of one attempt, which keeps the attempts apart
  (`BoxesInv`); that what a side sealed comes `Before` its sending cipher, by the generation of the
  key and then the nonce, and that later boxes hold later payloads (`SealedInv`); and that what is
  not `Before` the receiving cipher is later than everything read (`UnreadIsLater`), so a frame that
  opens is news, whatever was lost, repeated or swapped and whoever rekeyed first. `FaultlessInv`
  knows, without a fault, the one frame the client can find; from it follows that it blames the key
  only when the keys differ (`BlameIsRight`). The proof showed an earlier form of `OnlyWhatWasSent`,
  that what was read is a prefix of what was sent, to be false: with two rekeys, one on each side,
  the receiver goes on behind a frame that was lost under the old key. The property now excludes a
  gap while nobody rekeyed, and order and novelty hold always. The run has one rekey (two take TLC
  longer than a run should), so that case rests on the theorem. `PartsAreTyped`: the types of the
  transport and of the two sides of the session.
- **`LedgerProofs`.** `DeviceFollowsLedger` for any reduction and any keys: the cache equals what
  the device believes while the transport is up, and equals the reduced intents after each operation.
  `NothingIsRepeated`: no frame tells the device what it was told last. `ReadersAreServed`: the log
  level sent is at least that of every open iterator and of the pin, because each has its entry
  in the ledger (`ReadersAreSubscribed`) and the greatest of a set of levels exists.
  Of `Heartbeat`, with punctual timers, and for the last one a timeout that leaves time for an answer:
  `HeartbeatTypes`, `DeadLinksAreNoticed`, `LiveLinksAreKept`, of the component and of the sum. The
  invariant bounds each clock by the timer's remaining time.
- **`EventBusProofs`.** `NoWakeUpIsLost`, `DisposeIsFinal`. `WhoWaitsGetsItsOwn`: a stream's items
  in order and without gaps but for those the mark dropped (`OrderInv`), the confirmation of a
  command (`CallsInv`: what was refused is before what is judged, which is before what is queued, and what
  is in none of the three was lost to the mark),
  and the correlator's answers: a call gets an answer of its own key, of another request only if one
  was given up (`RequestsAreAccountedFor`). `ImagesAreWhole`, by `BuffersInv` (what is buffered is
  the images' chunks in order) and `ReadersInv` (a reader has read up to a place in the images of
  its camera, or its queue dropped them up to there). `DeviceReadsOptions` is about the encoder of commands as a function: for every schema
  whose field numbers and bits are distinct (`IsWellFormed`), what the device reads of the fields
  written is the options that were given, zero and false included. Its steps follow one slot of the
  message: `FieldsFillSlots` says who may write a number, so that no field takes another's place.
  `DevicesHearWhatWasAsked` applies it to the schemas of `Commands` and adds that the frame has the
  key and device of the entity meant. `PendingCallsCanBeSettled`: the entries of the correlator are
  the pending calls, one each.
- **`BluetoothProofs`.** `NoAccumulatorLeaks` and `AnswersAreRouted`, over an invariant that says
  the entries are the pending calls, each under the operation and address it asked
  (`EntriesArePending`, `PendingHaveEntries`), and that `unwinding` has settled calls only.
  `DiscoveriesAreWhole` takes the device's side into it (`WholeInv`): each request is under way
  once, and the accumulator of a call that nothing spoilt has the batches sent so far.
  `SubApisKeepTheirPromises`: the calls without a number (`AskingInv`: requests and answers under
  way are in the order of asking, and each is awaited unless somebody gave up) and the
  subscriptions (`StreamingInv`: the device will do what the last frame under way to it says,
  and that is what is held; the home id will be what the last report under way says).
- `TypesAreCorrect` of each other sum: all variables of all of its parts.

Only model-checked:

- liveness under fairness, and ENABLED: `EveryCallConcludes`, `ConnectionsConclude`,
  `BoundedWaitsEnd`. They are beyond the prover.
- `ReadingsAreFaithful`: what the readers of Bluetooth messages, the conversions of the sub-APIs and
  a capture's file and replay make of each of their inputs. These are functions that `SelectSeq` and
  the folds compute, of which the provers know nothing; the run evaluates them on every input of the
  size it names. For the loops of the codec and of the services, which are recursive functions of a
  position, an argument by a least counterexample takes the place of induction. No module declares a
  RECURSIVE operator.
- The properties in which code and comments differ (section 6).


## 6. Where the code and its comments differ

Found by runs, and listed as findings:

1. `session_closed`: `disconnect()` during the last send of a reconnect attempt does not stop
   it, and the client comes up again (`src/esphome-client.ts:1752`).
2. `log_discard`: an iterator given up before its first `next()` keeps its subscriber
   (`src/log-subscription-manager.ts:259`); the generators of Bluetooth, serial and Z-Wave have
   the same shape.
3. `heartbeat_marker`: `connect()` over a live connection inherits the ping marker, and the new
   connection is given up without ever having been pinged (`src/heartbeat.ts:142`).
4. `bluetooth_services`: a second discovery of the same address in the turn that aborted the
   first loses its accumulator to the first one's `finally` (`src/bluetooth-proxy.ts:861`).
5. `camera_oversize`: the chunks behind the one that took an image over `maxImageBytes` are
   emitted as a complete image (`src/camera.ts:220`).
6. `reconnect_bodies`: `withReconnect()` awaits its last body only; an earlier one that is slow to
   stop is still running when the helper has returned (`src/reconnect.ts:270`).

Stated in the modules, not kept by a run, each reproduced by checking the named definition under the
component's configuration (with the change given, if any):

| Definition | Statement | What happens |
|---|---|---|
| `Session!ClosedIsNotReconnecting` | health after a clean teardown (`src/health.ts:130`) | `disconnect()` between attempts leaves health "reconnecting" |
| `Session!LiveHealthHasSocket` | "socket is up" (`src/health.ts:57`) | a failed `connect()` over a live connection leaves health "connected" |
| `Session!OneConnectFlow`, `ListenersConnect = TRUE` (checking `Session` itself) | two connect flows never mutate concurrently (`src/esphome-client.ts:1201`) | a "disconnect" listener that calls `connect()` runs beside the loop scheduled after it |
| `Receiver!NoWaitOnDeadPump` | awaiters do not hang (`src/message-receiver.ts:395`) | a wait that starts after a clean end waits for its own timeout |
| `Receiver!ReplayKeepsArrivalOrder` | "in arrival order" (`src/message-receiver.ts:308`) | the replay goes type by type |
| `Receiver!ThrowIsFatal` | a throwing interleave handler fails the receiver (`src/message-receiver.ts:243`) | with no wait parked the throw is dropped |
| `LogSubscriptions!NeverTransientDowngrade` | "never a transient downgrade" (`src/log-subscription-manager.ts:206`) | the pin's release can send a lower level before the acquire |
| `LogSubscriptions!ActiveLevelWasSent` | null before the first wire send (`src/log-subscription-manager.ts:132`) | set by an offline acquire |
| `EventBus!RemovedCallbacksAreSilent`, two callbacks | a removed callback stops receiving emissions (`src/event-bus.ts:292`) | a callback removed during an emission is still called |
| `EventBus!AbortEndsIteration` | the iterator throws on its next iteration (`src/event-bus.ts:364`) | queued items are still delivered after the abort |
| `Correlator!LateAnswerIsStray` | "stray responses are observable" (`src/correlator.ts:22`) | a late answer resolves the retry |
| `Heartbeat!StallsOnlyWhileUp`, `OverLive = TRUE` | a stall only fires while the socket is up (`src/esphome-client.ts:1027`) | the old timer stalls while the new connection is being made |
| `Heartbeat!StallsWerePinged`, `Punctual = FALSE` | silence, then a ping, then the stall (`src/README.md:180`) | a late timer sees silence and ping age at once |
| `Heartbeat!RttIsOfOnePing` | round-trip time of the most recent ping (`src/health.ts:52`) | an answer to a user's ping is taken for the heartbeat's |
| `Transport!EarlyDataIsRead` | bytes that arrive ahead of the cipher are parsed after it (`src/transport.ts:425`) | data that a device (`eager`) sends right behind its handshake reply is taken for a handshake frame and dropped, and the next frame fails to decrypt |
| `Bluetooth!OneOperationPerHandle` | one GATT operation per handle (`src/bluetooth-proxy.ts:1532`) | the guards look at one correlator each |
| `Bluetooth!DisconnectsAreAnswered` | disconnect callers are not left hanging (`src/bluetooth-proxy.ts:1345`) | with a `connect()` of the address pending, the report rejects that one, and `disconnect()` waits for its timeout |

Met while modelling, in the models as the code has it, and without a definition of their own:

- *Session.* A `connect()` whose signal has fired throws, and has by then cancelled the supervisor: health
  stays "reconnecting" with nobody at it (`src/esphome-client.ts:1201`).
- *Entities.* Two types with one key: `byId()`'s "necessarily points at an entity whose type is T"
  fails. `telemetryForId()` of an unknown id returns at once and leaves its stream open.
- *Commands.* A state event that the device had sent before the command answers
  `commandAndAwait()` (`src/command-runner.ts:349`); an argument left out in the middle of a
  service call shifts the later ones.
- *Transport.* When a device's handshake reply and a malformed frame are in one chunk, the transport has
  failed before the handshake code resumes, and `installCipher()`, which does not look, gives the
  cipher to a transport whose teardown is over: nobody destroys it (`src/transport.ts:412`). The
  record has no cipher object; `Noise` has the destruction of secrets where the code does it.
- *Bluetooth.* A GATT error names an address and a handle: with a read and a write of it pending, the
  read takes the error (`src/bluetooth-proxy.ts:1553`). `AnswersFindTheirCall` asks for the call's own
  only when no rival is pending.
- *Camera.* The first of several streams of a camera to stop sends the stop for all; the code counts on
  the device to ignore it.
- *Codec.* Beyond the end, `readUInt8` throws a RangeError, not one of the documented errors;
  `readVarint` is documented to truncate beyond 32 bits, and its shift wraps at 32.
- *Calls without a number.* A late answer to a key-set answers the next one;
  `announce()` and `configuration()` survive a reconnect, and one answer settles every waiter.
- *Back-off.* "Upper bound on a single delay": the jitter comes after the cap, so a delay may be a
  fifth longer. `openEspHomeClient()` told to stop between attempts throws without disposing, and
  its delay ignores the signal.
- *withReconnect().* A body that disconnects in its first synchronous instructions is never told
  to stop, since nobody listens yet (`Missed`).
- *Z-Wave.* A home id change that comes before `client.zwave` is first read is lost, and `homeId()`
  goes on telling that of the device info (`missed`).
- *Streams of data.* `data()`, `frames()` and `advertisements()` that are given up before their
  first read keep their handle ("lost"), as in finding 2.
- *Defaults on the wire.* A device whose encoder leaves out zero-valued fields has its data for
  serial instance 0, its answers with status or line states 0, its idle scanner state and its
  empty last audio chunk dropped as lacking a field.
- *Bluetooth readers.* A length beyond the end of the payload is taken as what there is, and a
  damaged nested service or characteristic is left out in silence.
- *Capture.* The frames of failed attempts stay in the capture. If the device refused one of
  them with a DISCONNECT_REQUEST, a replay, which makes one attempt, fails at that good-bye
  although the recording succeeded; an entity told only in the failed attempt may be counted.

## 7. Not modelled

- `espc` itself (argument parsing, printing, the write of the files), the testing doubles, and
  the examples, scripts and benchmarks: they keep no state of the client's.
- In `Transport`: `firstByte()`, which nothing of the client uses, the socket's own connect phase,
  and the framing of what is sent. Cryptography is an oracle there and symbolic in `Noise`.
- In the client: listeners that throw, a second concurrent `disconnectAsync()`, the filters of the
  stream accessors over the bus, `telemetryForId()`.
- The schemas that repeat a kind of field `Entities` and `Commands` already have, the error
  classes, wording of errors and logs, statistics, and wall-clock values except in `Heartbeat`.

## 8. Plan

The order puts the behaviour the library exists for first: a client that stays connected and
tells the truth about it.

Done:
0. Session, Receiver, Transport, Ledger with the log manager, EventBus, Correlator, Heartbeat.
1. Bluetooth.
2. Camera, Commands, and the serial, Z-Wave, voice and Home Assistant APIs.
3. Reconnect policy, `withReconnect`, `openEspHomeClient`.
4. Codec and Noise, and the readers of Bluetooth messages.
5. Registries, caches, entity discovery and dispatch, user services.
6. Capture and replay.
7. `Receiver` implements `Router`.
8. Proofs of every safety invariant and every refinement the runs check, but for what section 5 names.
9. `SessionSerial` implements `Lifecycle`.

Left: Session with Ledger in one module, so that re-issue is checked against the lifecycle. Proofs:
the readers of `BluetoothCodec`, once their selections are functions of a position, as `Collected` is.
