------------------------------ MODULE Bluetooth ------------------------------
(***************************************************************************)
(* BluetoothProxyApi's requests: ten correlators (see Correlator) fed by   *)
(* the answers of one ESPHome device about several peripherals.  An answer *)
(* names an address, or an address and a handle, never a request.  One     *)
(* handle per address stands for any number: two handles share nothing.    *)
(* The subscriptions (advertisements, notify, connectionsFree) are Ledgers.*)
(*                                                                         *)
(* getServices() collects frames between its request and its answer in an  *)
(* accumulator that its `finally` deletes.  The `finally` is a microtask:  *)
(* it runs after the code that settled the call, and it may be after a few *)
(* more frames, of the same chunk.                                         *)
(***************************************************************************)
EXTENDS Naturals, Sequences, SequencesExt, FiniteSets, CorrelatedCalls

CONSTANTS
  Addresses,   \* peripherals
  Admin,       \* names of the requests with an answer of their own: pair, unpair,
               \* clearCache and setConnectionParams, all of one shape
  MaxBatches   \* bound: service frames per discovery

ASSUME BluetoothAssumption == MaxBatches \in Nat /\ "getServices" \notin Admin

GattOps == {"read", "write", "notify"}
LinkOps == {"connect", "disconnect"}
Ops == GattOps \cup LinkOps \cup Admin \cup {"getServices"}

VARIABLES
  link,         \* the client has a transport
  call, op, address,  \* of each call: its promise and what it asked
  entries,      \* the correlators' maps: the pending call of each operation and address
  accumulator,  \* inflightServices: service frames collected per address, or None
  unwinding,    \* settled getServices() calls whose `finally` has not run
  connected,    \* addresses whose connectionStateCache entry says connected
  inFlight,     \* requests the device has not answered, oldest first
  sent,         \* per discovery: the service frames the device has sent for it
  services,     \* what a resolved getServices() returned, or None
  cause         \* the request answered by the last step, or None

request == <<op, address>>
vars == <<link, call, request, entries, accumulator, unwinding, connected, inFlight, sent,
          services, cause>>

Discovery == "getServices"
Frames == {<<r, n>> : r \in Calls, n \in 1..MaxBatches}

TypeOK ==
  /\ link \in BOOLEAN
  /\ call \in [Calls -> {"new", "pending", "resolved", "rejected"}]
  /\ op \in [Calls -> Ops]
  /\ address \in [Calls -> Addresses]
  /\ entries \in [Ops \X Addresses -> Calls \cup {None}]
  /\ accumulator \in [Addresses -> Seq(Frames) \cup {None}]
  /\ unwinding \subseteq {c \in Calls : call[c] \in {"resolved", "rejected"}}
  /\ connected \subseteq Addresses
  /\ inFlight \in Seq(Calls)
  /\ sent \in [Calls -> 0..MaxBatches]
  /\ services \in [Calls -> Seq(Frames) \cup {None}]
  /\ cause \in Calls \cup {None}

Init ==
  /\ link = FALSE
  /\ call = [c \in Calls |-> "new"]
  /\ op = [c \in Calls |-> Discovery]
  /\ address \in {[c \in Calls |-> a] : a \in Addresses}
  /\ entries = [k \in Ops \X Addresses |-> None]
  /\ accumulator = [a \in Addresses |-> None]
  /\ unwinding = {}
  /\ connected = {}
  /\ inFlight = <<>>
  /\ sent = [c \in Calls |-> 0]
  /\ services = [c \in Calls |-> None]
  /\ cause = None

-----------------------------------------------------------------------------
(* Calls of the application: at any point, also between a settlement and the `finally`. *)

\* Without a transport the frame is dropped; the device will never hear of the request.
Send(c) == inFlight' = IF link THEN Append(inFlight, c) ELSE inFlight

Seed(o, a) ==
  accumulator' = IF o = Discovery THEN [accumulator EXCEPT ![a] = <<>>] ELSE accumulator

Ask(c, o, a) ==
  /\ call[c] = "new"
  /\ op' = [op EXCEPT ![c] = o]
  /\ address' = [address EXCEPT ![c] = a]
  /\ cause' = None
  /\ UNCHANGED <<link, connected, sent, services>>

Request(c, o, a) ==
  /\ Ask(c, o, a)
  /\ entries[<<o, a>>] = None
  /\ entries' = [entries EXCEPT ![<<o, a>>] = c]
  /\ call' = [call EXCEPT ![c] = "pending"]
  /\ Seed(o, a)
  /\ Send(c)
  /\ UNCHANGED unwinding

\* The caller's signal has already fired: await() throws, after the request was sent.
RequestAborted(c, o, a) ==
  /\ Ask(c, o, a)
  /\ entries[<<o, a>>] = None
  /\ call' = [call EXCEPT ![c] = "rejected"]
  /\ unwinding' = IF o = Discovery THEN unwinding \cup {c} ELSE unwinding
  /\ Seed(o, a)
  /\ Send(c)
  /\ UNCHANGED entries

\* The *_IN_FLIGHT errors.
Refuse(c, o, a) ==
  /\ Ask(c, o, a)
  /\ entries[<<o, a>>] # None
  /\ call' = [call EXCEPT ![c] = "rejected"]
  /\ UNCHANGED <<entries, accumulator, unwinding, inFlight>>

\* writeCharacteristic() with response: false, which the device acknowledges all the same.
WriteWithoutResponse(c, a) ==
  /\ Ask(c, "write", a)
  /\ call' = [call EXCEPT ![c] = "resolved"]
  /\ Send(c)
  /\ UNCHANGED <<entries, accumulator, unwinding>>

-----------------------------------------------------------------------------
(* Settlements. *)

\* Mutant: the entry goes and its promise is not settled.
SettleForgets(k, how) ==
  LET c == entries[k]
  IN  IF c = None
      THEN UNCHANGED <<entries, call, unwinding>>
      ELSE /\ entries' = [entries EXCEPT ![k] = None]
           /\ unwinding' = IF k[1] = Discovery THEN unwinding \cup {c} ELSE unwinding
           /\ UNCHANGED call

\* resolve() or reject() of one correlator: nothing when no call is pending for the key.
Settle(k, how) ==
  LET c == entries[k]
  IN  IF c = None
      THEN UNCHANGED <<entries, call, unwinding>>
      ELSE /\ entries' = [entries EXCEPT ![k] = None]
           /\ call' = [call EXCEPT ![c] = how]
           /\ unwinding' = IF k[1] = Discovery THEN unwinding \cup {c} ELSE unwinding

\* The call's signal fires, in the middle of the application's code, or its timeout.
GiveUp(c) ==
  /\ call[c] = "pending"
  /\ Settle(<<op[c], address[c]>>, "rejected")
  /\ cause' = None
  /\ UNCHANGED <<link, request, accumulator, connected, inFlight, sent, services>>

\* Mutant: no `finally` around the await.
FinallyForgets(c) ==
  /\ c \in unwinding
  /\ unwinding' = unwinding \ {c}
  /\ cause' = None
  /\ UNCHANGED <<link, call, request, entries, accumulator, connected, inFlight, sent, services>>

\* The `finally` of getServices().
Finally(c) ==
  /\ c \in unwinding
  /\ unwinding' = unwinding \ {c}
  /\ accumulator' = [accumulator EXCEPT ![address[c]] = None]
  /\ cause' = None
  /\ UNCHANGED <<link, call, request, entries, connected, inFlight, sent, services>>

-----------------------------------------------------------------------------
(* Frames of the device. *)

\* The device answers the requests of one operation and address in order.
Oldest(r) ==
  \E i \in DOMAIN inFlight :
    /\ inFlight[i] = r
    /\ \A j \in 1..(i - 1) : <<op[inFlight[j]], address[inFlight[j]]>> # <<op[r], address[r]>>

Frame(r) ==
  /\ Oldest(r)
  /\ cause' = r
  /\ UNCHANGED <<link, request>>

IsDone(r) == \E i \in DOMAIN inFlight : inFlight[i] = r /\ inFlight' = RemoveAt(inFlight, i)

Answer(r) == Frame(r) /\ IsDone(r)

\* Mutant: the read and write responses go to one correlator.
AcceptResponseAny(r) ==
  /\ op[r] \in GattOps \cup Admin
  /\ Answer(r)
  /\ \E o \in {op[r]} \cup GattOps : Settle(<<o, address[r]>>, "resolved")
  /\ UNCHANGED <<accumulator, connected, sent, services>>

\* acceptGattRead/Write/NotifyResponse(), accept...Response() of the Admin requests.
AcceptResponse(r) ==
  /\ op[r] \in GattOps \cup Admin
  /\ Answer(r)
  /\ Settle(<<op[r], address[r]>>, "resolved")
  /\ UNCHANGED <<accumulator, connected, sent, services>>

\* The same responses of the Admin requests with an error.
AcceptAdminError(r) ==
  /\ op[r] \in Admin
  /\ Answer(r)
  /\ Settle(<<op[r], address[r]>>, "rejected")
  /\ UNCHANGED <<accumulator, connected, sent, services>>

\* acceptGattErrorResponse(): read, write, notify, the first with a pending call takes it.
AcceptGattError(r) ==
  LET pending(o) == entries[<<o, address[r]>>] # None
      o == IF pending("read") THEN "read" ELSE IF pending("write") THEN "write" ELSE "notify"
  IN  /\ op[r] \in GattOps
      /\ Answer(r)
      /\ Settle(<<o, address[r]>>, "rejected")
      /\ UNCHANGED <<accumulator, connected, sent, services>>

\* acceptDeviceConnectionResponse(): the cache is set, and the report settles a connect(),
\* or else, if the link is down, a disconnect().
Report(a, up) ==
  /\ connected' = IF up THEN connected \cup {a} ELSE connected \ {a}
  /\ IF up THEN Settle(<<"connect", a>>, "resolved")
     ELSE IF entries[<<"connect", a>>] # None THEN Settle(<<"connect", a>>, "rejected")
     ELSE Settle(<<"disconnect", a>>, "resolved")
  /\ UNCHANGED <<accumulator, sent, services>>

AcceptConnection(r) ==
  /\ op[r] \in LinkOps
  /\ Answer(r)
  /\ \E up \in {op[r] = "connect", FALSE} : Report(address[r], up)

\* A peripheral that goes away by itself.
AcceptUnsolicited(a) ==
  /\ link
  /\ Report(a, FALSE)
  /\ cause' = None
  /\ UNCHANGED <<link, request, inFlight>>

\* Mutant: the frame is put in front of the others.
AcceptServicesInFront(r) ==
  LET a == address[r]
  IN  /\ op[r] = Discovery
      /\ sent[r] < MaxBatches
      /\ Frame(r)
      /\ sent' = [sent EXCEPT ![r] = @ + 1]
      /\ accumulator' = IF accumulator[a] = None THEN accumulator
                        ELSE [accumulator EXCEPT ![a] = <<<<r, sent'[r]>>>> \o @]
      /\ UNCHANGED <<call, entries, unwinding, connected, inFlight, services>>

\* acceptGetServicesResponse(): one more frame of services, dropped without an accumulator.
AcceptServices(r) ==
  LET a == address[r]
  IN  /\ op[r] = Discovery
      /\ sent[r] < MaxBatches
      /\ Frame(r)
      /\ sent' = [sent EXCEPT ![r] = @ + 1]
      /\ accumulator' = IF accumulator[a] = None THEN accumulator
                        ELSE [accumulator EXCEPT ![a] = Append(@, <<r, sent'[r]>>)]
      /\ UNCHANGED <<call, entries, unwinding, connected, inFlight, services>>

\* acceptGetServicesDoneResponse(): ignored without an accumulator.
AcceptServicesDone(r) ==
  LET a == address[r]
      c == entries[<<Discovery, a>>]
  IN  /\ op[r] = Discovery
      /\ Answer(r)
      /\ accumulator' = [accumulator EXCEPT ![a] = None]
      /\ IF accumulator[a] = None
         THEN UNCHANGED <<call, entries, unwinding, services>>
         ELSE /\ Settle(<<Discovery, a>>, "resolved")
              /\ services' = IF c = None THEN services
                             ELSE [services EXCEPT ![c] = accumulator[a]]
      /\ UNCHANGED <<connected, sent>>

\* The device leaves a request unanswered.
Silence(r) ==
  /\ Oldest(r)
  /\ IsDone(r)
  /\ cause' = None
  /\ UNCHANGED <<link, call, request, entries, accumulator, unwinding, connected, sent, services>>

-----------------------------------------------------------------------------
(* The session. *)

\* clearConnectionState(), called by disconnectInternal() and at the top of
\* connectInternal().
ClearConnectionState ==
  LET pending == {c \in Calls : call[c] = "pending"}
  IN  /\ link' = FALSE
      /\ call' = [c \in Calls |-> IF c \in pending THEN "rejected" ELSE call[c]]
      /\ entries' = [k \in Ops \X Addresses |-> None]
      /\ unwinding' = unwinding \cup {c \in pending : op[c] = Discovery}
      /\ accumulator' = [a \in Addresses |-> None]
      /\ connected' = {}
      /\ inFlight' = <<>>
      /\ cause' = None
      /\ UNCHANGED <<request, sent, services>>

Attach ==
  /\ ~link
  /\ link' = TRUE
  /\ cause' = None
  /\ UNCHANGED <<call, request, entries, accumulator, unwinding, connected, inFlight, sent,
                 services>>

Application ==
  \E c \in Calls :
    \/ \E o \in Ops, a \in Addresses : Request(c, o, a) \/ RequestAborted(c, o, a) \/ Refuse(c, o, a)
    \/ \E a \in Addresses : WriteWithoutResponse(c, a)
    \/ GiveUp(c)

Device ==
  \/ \E r \in Calls :
       \/ AcceptResponse(r) \/ AcceptAdminError(r) \/ AcceptGattError(r)
       \/ AcceptConnection(r) \/ AcceptServices(r) \/ AcceptServicesDone(r) \/ Silence(r)
  \/ \E a \in Addresses : AcceptUnsolicited(a)

Next ==
  \/ Application
  \/ Device
  \/ \E c \in Calls : Finally(c)
  \/ ClearConnectionState
  \/ Attach

Spec == Init /\ [][Next]_vars
-----------------------------------------------------------------------------
Pending == {c \in Calls : call[c] = "pending"}

\* The operations whose answers look alike: a GATT error names a handle, a connection report
\* an address, and neither says what was asked.
Class(o) == IF o \in GattOps THEN GattOps ELSE IF o \in LinkOps THEN LinkOps ELSE {o}

Rivals(r) ==
  {c \in Pending \ {r} : address[c] = address[r] /\ op[c] \in Class(op[r])}

\* An answer settles no call of another peripheral or of another class of operations, and
\* it resolves a GATT call only if it answers that very operation.  A call whose class has
\* no other call pending gets its answer.
AnswerFindsItsCall ==
  cause' # None =>
    LET r == cause'
        settled == {c \in Pending : call'[c] # "pending"}
    IN  /\ settled \subseteq Rivals(r) \cup {r}
        /\ \A c \in settled \ {r} : call'[c] = "resolved" /\ op[c] \in GattOps => op[c] = op[r]
        /\ (r \in Pending /\ r \notin Range(inFlight') /\ Rivals(r) = {} /\ op[r] # Discovery)
             => r \in settled

AnswersFindTheirCall == [][AnswerFindsItsCall]_vars

\* A discovery that no given-up discovery of its address came before returns every frame of
\* services the device sent for it, in order, and nothing else.
ServicesAreWhole ==
  \A c \in Calls :
    /\ services[c] # None
    /\ \A d \in Calls : op[d] = Discovery /\ address[d] = address[c] => call[d] # "rejected"
    => services[c] = [n \in 1..sent[c] |-> <<c, n>>]

\* Service frames are collected only for a discovery that is pending, or one whose `finally`
\* is about to run: none leaks.
AccumulatorsHaveAnOwner ==
  \A a \in Addresses : accumulator[a] # None =>
    \/ entries[<<Discovery, a>>] # None
    \/ \E c \in unwinding : address[c] = a

(* Statements of the comments that the code does not keep; see README. *)

\* "Seed the accumulator before sending so any inbound 71 frames have a destination": while
\* a discovery is pending its accumulator is there.
DiscoveryHasAccumulator ==
  \A a \in Addresses : entries[<<Discovery, a>>] # None => accumulator[a] # None

\* "At most one of readCorrelator / writeCorrelator / notifySetupCorrelator has a pending
\* entry for any (address, handle) at any time."
OneOperationPerHandle ==
  \A a \in Addresses : Cardinality({o \in GattOps : entries[<<o, a>>] # None}) <= 1

\* "Explicit disconnect callers are not left hanging": the report that a peripheral is gone
\* settles the disconnect() that waits for it.
DisconnectsAreAnswered ==
  [][\A c \in Calls :
       cause' = c /\ op[c] = "disconnect" /\ c \in Pending /\ c \notin Range(inFlight')
         => call'[c] # "pending"]_vars
=============================================================================
