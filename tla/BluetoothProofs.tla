--------------------------- MODULE BluetoothProofs ---------------------------
(***************************************************************************)
(* Proofs about Bluetooth's requests, for any calls, peripherals and       *)
(* service frames, and about the calls and subscriptions of the sub-APIs,  *)
(* for any callers, instances, channels, intents and homes.                *)
(*                                                                         *)
(* Requests: the argument rests on the correlators holding the pending     *)
(* calls, each under what it asked (EntriesArePending,                     *)
(* PendingHaveEntries).  An answer settles the entry of a key with its own *)
(* address, so of its own peripheral, and a settled discovery takes its    *)
(* accumulator's ownership with it into `unwinding`.  That a discovery's   *)
(* answer is whole (WholeInv) takes the requests into the invariant: each  *)
(* call's request is there once, the calls whose requests are not spoilt   *)
(* are pending, and their accumulator holds the batches sent so far.       *)
(*                                                                         *)
(* Calls without a number (AskingInv): while nobody gave up, what is under *)
(* way for an instance is what its one waiting call asked, in the order of *)
(* asking.  Subscriptions (StreamingInv): the last word that the device    *)
(* has heard or will hear on a channel is the ledger's cache, and that is  *)
(* whether somebody holds it.                                              *)
(***************************************************************************)
EXTENDS MCBluetooth, SequenceTheorems, FiniteSetTheorems, TLAPS

Keys == Ops \X Addresses

\* The shape of the variables that the argument indexes.
Shape ==
  /\ call \in [Calls -> {"new", "pending", "resolved", "rejected"}]
  /\ op \in [Calls -> Ops]
  /\ address \in [Calls -> Addresses]
  /\ entries \in [Keys -> Calls \cup {None}]
  /\ accumulator = [a \in Addresses |-> accumulator[a]]

EntriesArePending ==
  \A k \in Keys : entries[k] # None =>
    call[entries[k]] = "pending" /\ k = <<op[entries[k]], address[entries[k]]>>

PendingHaveEntries ==
  \A c \in Calls : call[c] = "pending" => entries[<<op[c], address[c]>>] = c

UnwindingIsSettled ==
  \A c \in unwinding : c \in Calls /\ call[c] \in {"resolved", "rejected"}

IInv ==
  /\ Shape
  /\ EntriesArePending
  /\ PendingHaveEntries
  /\ UnwindingIsSettled
  /\ AccumulatorsHaveAnOwner

-----------------------------------------------------------------------------
(* What a settlement does to the invariant. *)

\* Settling one key keeps the correlators' part of the invariant, and moves a discovery that
\* it settles into `unwinding`.
LEMMA SettleKeeps ==
  ASSUME IInv, NEW k \in Keys, NEW how \in {"resolved", "rejected"}, Settle(k, how),
         UNCHANGED request
  PROVE  /\ call' \in [Calls -> {"new", "pending", "resolved", "rejected"}]
         /\ entries' \in [Keys -> Calls \cup {None}]
         /\ EntriesArePending'
         /\ PendingHaveEntries'
         /\ UnwindingIsSettled'
         /\ unwinding \subseteq unwinding'
         /\ \A a \in Addresses : entries[<<Discovery, a>>] # None =>
              \/ entries'[<<Discovery, a>>] # None
              \/ \E c \in unwinding' : address[c] = a
<1>1. CASE entries[k] = None
  BY <1>1 DEF Settle, IInv, Shape, EntriesArePending, PendingHaveEntries, UnwindingIsSettled, request
<1>2. CASE entries[k] # None
  <2> DEFINE c == entries[k]
  <2>1. c \in Calls /\ call[c] = "pending" /\ k = <<op[c], address[c]>>
    BY <1>2 DEF IInv, Shape, EntriesArePending
  <2>2. /\ entries' = [entries EXCEPT ![k] = None]
        /\ call' = [call EXCEPT ![c] = how]
        /\ unwinding' = IF k[1] = Discovery THEN unwinding \cup {c} ELSE unwinding
        /\ op' = op /\ address' = address
    BY <1>2 DEF Settle, request
  <2>3. /\ call' \in [Calls -> {"new", "pending", "resolved", "rejected"}]
        /\ entries' \in [Keys -> Calls \cup {None}]
    BY <2>1, <2>2 DEF IInv, Shape
  <2>4. EntriesArePending'
    <3>1. SUFFICES ASSUME NEW j \in Keys, entries'[j] # None
                   PROVE  call'[entries'[j]] = "pending"
                          /\ j = <<op'[entries'[j]], address'[entries'[j]]>>
      BY DEF EntriesArePending
    <3>2. j # k /\ entries'[j] = entries[j]
      BY <3>1, <2>2 DEF IInv, Shape
    <3>3. /\ entries[j] \in Calls /\ call[entries[j]] = "pending"
          /\ j = <<op[entries[j]], address[entries[j]]>>
      BY <3>1, <3>2 DEF IInv, Shape, EntriesArePending
    <3>4. entries[j] # c
      BY <3>2, <3>3, <2>1
    <3> QED BY <3>2, <3>3, <3>4, <2>2 DEF IInv, Shape
  <2>5. PendingHaveEntries'
    <3>1. SUFFICES ASSUME NEW d \in Calls, call'[d] = "pending"
                   PROVE  entries'[<<op'[d], address'[d]>>] = d
      BY DEF PendingHaveEntries
    <3>2. d # c /\ call[d] = "pending"
      BY <3>1, <2>1, <2>2 DEF IInv, Shape
    <3>3. entries[<<op[d], address[d]>>] = d
      BY <3>2 DEF IInv, PendingHaveEntries
    <3>4. <<op[d], address[d]>> # k
      BY <3>2, <3>3
    <3> QED BY <3>3, <3>4, <2>2 DEF IInv, Shape
  <2>6. UnwindingIsSettled'
    BY <2>1, <2>2 DEF IInv, Shape, UnwindingIsSettled
  <2>7. unwinding \subseteq unwinding'
    BY <2>2
  <2>8. ASSUME NEW a \in Addresses, entries[<<Discovery, a>>] # None
        PROVE  \/ entries'[<<Discovery, a>>] # None
               \/ \E d \in unwinding' : address[d] = a
    <3>1. CASE k = <<Discovery, a>>
      <4>1. k[1] = Discovery /\ address[c] = a
        BY <3>1, <2>1
      <4> QED BY <4>1, <2>2
    <3>2. CASE k # <<Discovery, a>>
      <4>1. <<Discovery, a>> \in Keys
        BY DEF Keys, Ops, Discovery
      <4> QED BY <3>2, <4>1, <2>2, <2>8 DEF IInv, Shape
    <3> QED BY <3>1, <3>2
  <2> QED BY <2>3, <2>4, <2>5, <2>6, <2>7, <2>8
<1> QED BY <1>1, <1>2

\* A settlement in a step that deletes accumulators or adds to those there are.
LEMMA SettleStep ==
  ASSUME IInv, NEW k \in Keys, NEW how \in {"resolved", "rejected"}, Settle(k, how),
         UNCHANGED request,
         accumulator' = [a \in Addresses |-> accumulator'[a]],
         \A a \in Addresses : accumulator[a] = None => accumulator'[a] = None
  PROVE  IInv'
<1>1. Shape'
  BY SettleKeeps DEF IInv, Shape, request
<1>2. AccumulatorsHaveAnOwner'
  <2>1. SUFFICES ASSUME NEW a \in Addresses, accumulator'[a] # None
                 PROVE  \/ entries'[<<Discovery, a>>] # None
                        \/ \E c \in unwinding' : address'[c] = a
    BY DEF AccumulatorsHaveAnOwner, Discovery
  <2>2. \/ entries[<<Discovery, a>>] # None
        \/ \E c \in unwinding : address[c] = a
    BY <2>1 DEF IInv, AccumulatorsHaveAnOwner
  <2> QED BY <2>2, SettleKeeps DEF request
<1> QED BY <1>1, <1>2, SettleKeeps DEF IInv

-----------------------------------------------------------------------------
(* The invariant is inductive. *)

LEMMA InitHolds == Init => IInv
<1>1. Discovery \in Ops
  BY DEF Discovery, Ops
<1> QED BY <1>1, CallsAssumption DEF Init, IInv, Shape, Keys, EntriesArePending,
           PendingHaveEntries, UnwindingIsSettled, AccumulatorsHaveAnOwner

\* A call that is made and does not wait leaves the correlators and what they know alone.
LEMMA AskKeeps ==
  ASSUME IInv, NEW c \in Calls, NEW o \in Ops, NEW a \in Addresses, Ask(c, o, a),
         NEW how \in {"resolved", "rejected"}, call' = [call EXCEPT ![c] = how],
         UNCHANGED entries, unwinding' \in {unwinding, unwinding \cup {c}},
         \/ accumulator' = [accumulator EXCEPT ![a] = <<>>] /\ c \in unwinding'
         \/ accumulator' = accumulator
  PROVE  IInv'
<1>1. /\ call[c] = "new" /\ entries' = entries
      /\ op' = [op EXCEPT ![c] = o] /\ address' = [address EXCEPT ![c] = a]
  BY DEF Ask
<1>2. Shape'
  BY <1>1 DEF IInv, Shape
<1>3. ASSUME NEW d \in Calls, d # c
      PROVE  call'[d] = call[d] /\ op'[d] = op[d] /\ address'[d] = address[d]
  BY <1>1, <1>3 DEF IInv, Shape
<1>4. EntriesArePending'
  <2>1. SUFFICES ASSUME NEW j \in Keys, entries'[j] # None
                 PROVE  call'[entries'[j]] = "pending"
                        /\ j = <<op'[entries'[j]], address'[entries'[j]]>>
    BY DEF EntriesArePending
  <2>2. /\ entries[j] \in Calls /\ call[entries[j]] = "pending"
        /\ j = <<op[entries[j]], address[entries[j]]>>
    BY <2>1, <1>1 DEF IInv, Shape, EntriesArePending
  <2> QED BY <2>2, <1>1, <1>3
<1>5. PendingHaveEntries'
  <2>1. SUFFICES ASSUME NEW d \in Calls, call'[d] = "pending"
                 PROVE  entries'[<<op'[d], address'[d]>>] = d
    BY DEF PendingHaveEntries
  <2>2. d # c
    BY <2>1, <1>1 DEF IInv, Shape
  <2> QED BY <2>1, <2>2, <1>1, <1>3 DEF IInv, PendingHaveEntries
<1>6. UnwindingIsSettled'
  BY <1>1, <1>3 DEF IInv, Shape, UnwindingIsSettled
<1>7. AccumulatorsHaveAnOwner'
  <2>1. SUFFICES ASSUME NEW b \in Addresses, accumulator'[b] # None
                 PROVE  \/ entries'[<<Discovery, b>>] # None
                        \/ \E d \in unwinding' : address'[d] = b
    BY DEF AccumulatorsHaveAnOwner, Discovery
  <2>2. CASE b = a /\ c \in unwinding'
    BY <2>2, <1>1 DEF IInv, Shape
  <2>3. CASE accumulator'[b] = accumulator[b]
    <3>1. \/ entries[<<Discovery, b>>] # None
          \/ \E d \in unwinding : address[d] = b
      BY <2>1, <2>3 DEF IInv, AccumulatorsHaveAnOwner
    <3>2. \A d \in unwinding : d \in Calls /\ d # c
      BY <1>1 DEF IInv, UnwindingIsSettled
    <3> QED BY <3>1, <3>2, <1>1, <1>3
  <2> QED BY <2>2, <2>3 DEF IInv, Shape
<1> QED BY <1>2, <1>4, <1>5, <1>6, <1>7 DEF IInv

LEMMA RequestKeeps ==
  ASSUME IInv, NEW c \in Calls, NEW o \in Ops, NEW a \in Addresses, Request(c, o, a)
  PROVE  IInv'
<1>1. /\ call[c] = "new" /\ entries[<<o, a>>] = None
      /\ entries' = [entries EXCEPT ![<<o, a>>] = c]
      /\ call' = [call EXCEPT ![c] = "pending"]
      /\ op' = [op EXCEPT ![c] = o] /\ address' = [address EXCEPT ![c] = a]
      /\ unwinding' = unwinding
      /\ accumulator' = IF o = Discovery THEN [accumulator EXCEPT ![a] = <<>>] ELSE accumulator
  BY DEF Request, Ask, Seed
<1>2. <<o, a>> \in Keys
  BY DEF Keys
<1>3. Shape'
  BY <1>1, <1>2 DEF IInv, Shape
<1>4. ASSUME NEW d \in Calls, d # c
      PROVE  call'[d] = call[d] /\ op'[d] = op[d] /\ address'[d] = address[d]
  BY <1>1, <1>4 DEF IInv, Shape
<1>5. call'[c] = "pending" /\ op'[c] = o /\ address'[c] = a
  BY <1>1 DEF IInv, Shape
<1>6. ASSUME NEW j \in Keys
      PROVE  entries'[j] = IF j = <<o, a>> THEN c ELSE entries[j]
  BY <1>1, <1>6 DEF IInv, Shape
<1>7. EntriesArePending'
  <2>1. SUFFICES ASSUME NEW j \in Keys, entries'[j] # None
                 PROVE  call'[entries'[j]] = "pending"
                        /\ j = <<op'[entries'[j]], address'[entries'[j]]>>
    BY DEF EntriesArePending
  <2>2. CASE j = <<o, a>>
    BY <2>2, <1>5, <1>6
  <2>3. CASE j # <<o, a>>
    <3>1. entries'[j] = entries[j]
      BY <2>3, <1>6
    <3>2. /\ entries[j] \in Calls /\ call[entries[j]] = "pending"
          /\ j = <<op[entries[j]], address[entries[j]]>>
      BY <2>1, <3>1 DEF IInv, Shape, EntriesArePending
    <3> QED BY <3>1, <3>2, <1>1, <1>4
  <2> QED BY <2>2, <2>3
<1>8. PendingHaveEntries'
  <2>1. SUFFICES ASSUME NEW d \in Calls, call'[d] = "pending"
                 PROVE  entries'[<<op'[d], address'[d]>>] = d
    BY DEF PendingHaveEntries
  <2>2. CASE d = c
    BY <2>2, <1>2, <1>5, <1>6
  <2>3. CASE d # c
    <3>1. entries[<<op[d], address[d]>>] = d
      BY <2>1, <2>3, <1>4 DEF IInv, PendingHaveEntries
    <3>2. <<op[d], address[d]>> # <<o, a>>
      BY <3>1, <1>1, CallsAssumption
    <3>3. <<op[d], address[d]>> \in Keys
      BY DEF IInv, Shape, Keys
    <3> QED BY <3>1, <3>2, <3>3, <2>3, <1>4, <1>6
  <2> QED BY <2>2, <2>3
<1>9. UnwindingIsSettled'
  BY <1>1, <1>4 DEF IInv, Shape, UnwindingIsSettled
<1>10. AccumulatorsHaveAnOwner'
  <2>1. SUFFICES ASSUME NEW b \in Addresses, accumulator'[b] # None
                 PROVE  \/ entries'[<<Discovery, b>>] # None
                        \/ \E d \in unwinding' : address'[d] = b
    BY DEF AccumulatorsHaveAnOwner, Discovery
  <2>2. <<Discovery, b>> \in Keys
    BY DEF Keys, Discovery, Ops
  <2>3. CASE o = Discovery /\ a = b
    <3>1. entries'[<<Discovery, b>>] = c
      BY <2>2, <2>3, <1>6
    <3> QED BY <3>1, CallsAssumption
  <2>4. CASE ~(o = Discovery /\ a = b)
    <3>1. accumulator[b] # None
      BY <2>1, <2>4, <1>1 DEF IInv, Shape
    <3>2. \/ entries[<<Discovery, b>>] # None
          \/ \E d \in unwinding : address[d] = b
      BY <3>1 DEF IInv, AccumulatorsHaveAnOwner
    <3>3. \A d \in unwinding : d \in Calls /\ d # c
      BY <1>1 DEF IInv, UnwindingIsSettled
    <3>4. entries'[<<Discovery, b>>] = entries[<<Discovery, b>>]
      BY <2>2, <2>4, <1>6
    <3> QED BY <3>2, <3>3, <3>4, <1>1, <1>4
  <2> QED BY <2>3, <2>4
<1> QED BY <1>3, <1>7, <1>8, <1>9, <1>10 DEF IInv

\* A step that leaves the calls and the correlators alone, and takes no ownership away.
LEMMA QuietStep ==
  ASSUME IInv, UNCHANGED <<call, request, entries>>,
         unwinding' \subseteq unwinding,
         accumulator' = [a \in Addresses |-> accumulator'[a]],
         \A a \in Addresses : accumulator'[a] # None =>
           accumulator[a] # None /\ (\A c \in unwinding \ unwinding' : address[c] # a)
  PROVE  IInv'
BY DEF IInv, Shape, EntriesArePending, PendingHaveEntries, UnwindingIsSettled,
       AccumulatorsHaveAnOwner, request

LEMMA ApplicationKeeps == IInv /\ Application => IInv'
<1>1. SUFFICES ASSUME IInv, Application PROVE IInv'
  OBVIOUS
<1>2. ASSUME NEW c \in Calls, NEW o \in Ops, NEW a \in Addresses, RequestAborted(c, o, a)
      PROVE  IInv'
  <2>1. /\ Ask(c, o, a) /\ call' = [call EXCEPT ![c] = "rejected"] /\ UNCHANGED entries
        /\ unwinding' \in {unwinding, unwinding \cup {c}}
        /\ \/ accumulator' = [accumulator EXCEPT ![a] = <<>>] /\ c \in unwinding'
           \/ accumulator' = accumulator
    BY <1>2 DEF RequestAborted, Seed
  <2> QED BY <2>1, <1>1, AskKeeps
<1>3. ASSUME NEW c \in Calls, NEW o \in Ops, NEW a \in Addresses, Refuse(c, o, a)
      PROVE  IInv'
  <2>1. /\ Ask(c, o, a) /\ call' = [call EXCEPT ![c] = "rejected"] /\ UNCHANGED entries
        /\ unwinding' \in {unwinding, unwinding \cup {c}} /\ accumulator' = accumulator
    BY <1>3 DEF Refuse
  <2> QED BY <2>1, <1>1, AskKeeps
<1>4. ASSUME NEW c \in Calls, NEW a \in Addresses, WriteWithoutResponse(c, a)
      PROVE  IInv'
  <2>1. /\ Ask(c, "write", a) /\ call' = [call EXCEPT ![c] = "resolved"] /\ UNCHANGED entries
        /\ unwinding' \in {unwinding, unwinding \cup {c}} /\ accumulator' = accumulator
    BY <1>4 DEF WriteWithoutResponse
  <2>2. "write" \in Ops
    BY DEF Ops, GattOps
  <2> QED BY <2>1, <2>2, <1>1, AskKeeps
<1>5. ASSUME NEW c \in Calls, GiveUp(c)
      PROVE  IInv'
  <2>1. <<op[c], address[c]>> \in Keys
    BY <1>1 DEF IInv, Shape, Keys
  <2>2. /\ Settle(<<op[c], address[c]>>, "rejected") /\ UNCHANGED request
        /\ accumulator' = accumulator /\ accumulator' = [a \in Addresses |-> accumulator'[a]]
    BY <1>1, <1>5 DEF GiveUp, IInv, Shape
  <2> QED BY <2>1, <2>2, <1>1, SettleStep
<1> QED BY <1>1, <1>2, <1>3, <1>4, <1>5, RequestKeeps DEF Application

LEMMA ReportKeeps ==
  ASSUME IInv, NEW a \in Addresses, NEW up \in BOOLEAN, Report(a, up), UNCHANGED request
  PROVE  IInv'
<1>1. PICK k \in Keys, how \in {"resolved", "rejected"} : Settle(k, how)
  <2>1. <<"connect", a>> \in Keys /\ <<"disconnect", a>> \in Keys
    BY DEF Keys, Ops, LinkOps
  <2> QED BY <2>1 DEF Report
<1>2. accumulator' = accumulator /\ accumulator' = [b \in Addresses |-> accumulator'[b]]
  BY DEF Report, IInv, Shape
<1> QED BY <1>1, <1>2, SettleStep

LEMMA DeviceKeeps == IInv /\ Device => IInv'
<1>1. SUFFICES ASSUME IInv, Device PROVE IInv'
  OBVIOUS
<1>2. ASSUME NEW r \in Calls
      PROVE  /\ address[r] \in Addresses /\ op[r] \in Ops
             /\ \A o \in Ops : <<o, address[r]>> \in Keys
  BY <1>1, <1>2 DEF IInv, Shape, Keys
<1>3. ASSUME NEW r \in Calls, AcceptResponse(r) \/ AcceptAdminError(r) \/ AcceptGattError(r)
      PROVE  IInv'
  <2>1. accumulator' = accumulator /\ accumulator' = [b \in Addresses |-> accumulator'[b]]
        /\ UNCHANGED request
    BY <1>1, <1>3 DEF AcceptResponse, AcceptAdminError, AcceptGattError, Answer, Frame, IInv, Shape
  <2>2. GattOps \subseteq Ops
    BY DEF Ops
  <2>3. PICK o \in Ops, how \in {"resolved", "rejected"} : Settle(<<o, address[r]>>, how)
    BY <1>2, <1>3, <2>2 DEF AcceptResponse, AcceptAdminError, AcceptGattError, GattOps
  <2> QED BY <1>1, <1>2, <2>1, <2>3, SettleStep
<1>4. ASSUME NEW r \in Calls, AcceptConnection(r)
      PROVE  IInv'
  BY <1>1, <1>2, <1>4, ReportKeeps DEF AcceptConnection, Answer, Frame
<1>5. ASSUME NEW a \in Addresses, AcceptUnsolicited(a)
      PROVE  IInv'
  BY <1>1, <1>5, ReportKeeps DEF AcceptUnsolicited
<1>6. ASSUME NEW r \in Calls, AcceptServices(r)
      PROVE  IInv'
  <2>1. /\ UNCHANGED <<call, request, entries>> /\ unwinding' = unwinding
        /\ \/ accumulator' = accumulator
           \/ /\ accumulator[address[r]] # None
              /\ accumulator' = [accumulator EXCEPT ![address[r]] = Append(@, <<r, sent'[r]>>)]
    BY <1>6 DEF AcceptServices, Frame
  <2>2. /\ accumulator' = [a \in Addresses |-> accumulator'[a]]
        /\ \A a \in Addresses : accumulator'[a] # None => accumulator[a] # None
    BY <1>1, <1>2, <2>1 DEF IInv, Shape
  <2> QED BY <1>1, <2>1, <2>2, QuietStep
<1>7. ASSUME NEW r \in Calls, AcceptServicesDone(r)
      PROVE  IInv'
  <2>1. /\ UNCHANGED request
        /\ accumulator' = [accumulator EXCEPT ![address[r]] = None]
        /\ \/ UNCHANGED <<call, entries, unwinding>>
           \/ Settle(<<Discovery, address[r]>>, "resolved")
    BY <1>7 DEF AcceptServicesDone, Answer, Frame
  <2>2. /\ accumulator' = [a \in Addresses |-> accumulator'[a]]
        /\ \A a \in Addresses : accumulator'[a] # None => accumulator[a] # None
    BY <1>1, <1>2, <2>1 DEF IInv, Shape
  <2>3. <<Discovery, address[r]>> \in Keys
    BY <1>2 DEF Discovery, Ops
  <2>4. CASE UNCHANGED <<call, entries, unwinding>>
    BY <1>1, <2>1, <2>2, <2>4, QuietStep
  <2>5. CASE Settle(<<Discovery, address[r]>>, "resolved")
    BY <1>1, <2>1, <2>2, <2>3, <2>5, SettleStep
  <2> QED BY <2>1, <2>4, <2>5
<1>8. ASSUME NEW r \in Calls, Silence(r)
      PROVE  IInv'
  <2>1. UNCHANGED <<call, request, entries, unwinding, accumulator>>
    BY <1>8 DEF Silence
  <2>2. accumulator' = [a \in Addresses |-> accumulator'[a]]
    BY <1>1, <2>1 DEF IInv, Shape
  <2> QED BY <1>1, <2>1, <2>2, QuietStep
<1> QED BY <1>1, <1>3, <1>4, <1>5, <1>6, <1>7, <1>8 DEF Device

LEMMA StepKeeps == IInv /\ [Next]_vars => IInv'
<1>1. SUFFICES ASSUME IInv, [Next]_vars PROVE IInv'
  OBVIOUS
<1>2. ASSUME NEW c \in Calls, Finally(c)
      PROVE  IInv'
  <2>1. /\ UNCHANGED <<call, request, entries>> /\ c \in unwinding
        /\ unwinding' = unwinding \ {c}
        /\ accumulator' = [accumulator EXCEPT ![address[c]] = None]
    BY <1>2 DEF Finally
  <2>2. /\ accumulator' = [a \in Addresses |-> accumulator'[a]]
        /\ \A a \in Addresses : accumulator'[a] # None => accumulator[a] # None /\ address[c] # a
    BY <1>1, <2>1 DEF IInv, Shape
  <2> QED BY <1>1, <2>1, <2>2, QuietStep
<1>3. CASE ClearConnectionState
  <2>1. /\ op' = op /\ address' = address
        /\ call' = [c \in Calls |-> IF call[c] = "pending" THEN "rejected" ELSE call[c]]
        /\ entries' = [k \in Keys |-> None]
        /\ accumulator' = [a \in Addresses |-> None]
        /\ unwinding' = unwinding \cup {c \in Calls : call[c] = "pending" /\ op[c] = Discovery}
    BY <1>3 DEF ClearConnectionState, request, Keys
  <2>2. Shape'
    BY <1>1, <2>1 DEF IInv, Shape
  <2>3. EntriesArePending' /\ PendingHaveEntries' /\ AccumulatorsHaveAnOwner'
    BY <1>1, <2>1 DEF IInv, Shape, EntriesArePending, PendingHaveEntries, AccumulatorsHaveAnOwner
  <2>4. UnwindingIsSettled'
    BY <1>1, <2>1 DEF IInv, Shape, UnwindingIsSettled
  <2> QED BY <2>2, <2>3, <2>4 DEF IInv
<1>4. CASE Attach \/ UNCHANGED vars
  <2>1. UNCHANGED <<call, request, entries, unwinding, accumulator>>
    BY <1>4 DEF Attach, vars
  <2>2. accumulator' = [a \in Addresses |-> accumulator'[a]]
    BY <1>1, <2>1 DEF IInv, Shape
  <2> QED BY <1>1, <2>1, <2>2, QuietStep
<1> QED BY <1>1, <1>2, <1>3, <1>4, ApplicationKeeps, DeviceKeeps DEF Next

\* The correlators hold exactly the pending calls, whatever the calls and peripherals.
THEOREM InvariantHolds == Spec => []IInv
BY InitHolds, StepKeeps, PTL DEF Spec

\* No discovery leaves its accumulator behind: given up, refused, answered, timed out or cut
\* off by the end of the connection.
THEOREM NoAccumulatorLeaks == Spec => []AccumulatorsHaveAnOwner
<1>1. IInv => AccumulatorsHaveAnOwner
  BY DEF IInv
<1> QED BY <1>1, InvariantHolds, PTL

-----------------------------------------------------------------------------
(* Where an answer goes. *)

\* A settlement of a key settles the pending call that asked it, and no other.
LEMMA SettleFinds ==
  ASSUME IInv, NEW o \in Ops, NEW a \in Addresses, NEW how \in {"resolved", "rejected"},
         Settle(<<o, a>>, how)
  PROVE  /\ \A c \in Pending : call'[c] # "pending" =>
              call'[c] = how /\ op[c] = o /\ address[c] = a
         /\ \A c \in Pending : op[c] = o /\ address[c] = a => call'[c] # "pending"
<1>1. <<o, a>> \in Keys
  BY DEF Keys
<1>2. ASSUME NEW c \in Pending, call'[c] # "pending"
      PROVE  call'[c] = how /\ op[c] = o /\ address[c] = a
  <2>1. c \in Calls /\ call[c] = "pending"
    BY <1>2 DEF Pending
  <2>2. entries[<<o, a>>] # None /\ c = entries[<<o, a>>] /\ call' = [call EXCEPT ![c] = how]
    BY <1>2, <2>1 DEF Settle, IInv, Shape
  <2>3. <<o, a>> = <<op[c], address[c]>>
    BY <1>1, <2>2 DEF IInv, EntriesArePending
  <2> QED BY <2>1, <2>2, <2>3 DEF IInv, Shape
<1>3. ASSUME NEW c \in Pending, op[c] = o, address[c] = a
      PROVE  call'[c] # "pending"
  <2>1. c \in Calls /\ entries[<<o, a>>] = c
    BY <1>3 DEF Pending, IInv, PendingHaveEntries
  <2>2. call' = [call EXCEPT ![c] = how]
    BY <2>1, CallsAssumption DEF Settle
  <2> QED BY <2>1, <2>2 DEF IInv, Shape
<1> QED BY <1>2, <1>3

LEMMA AnswerIsRouted ==
  ASSUME IInv, Device
  PROVE  AnswerFindsItsCall
<1>1. ASSUME NEW r \in Calls
      PROVE  address[r] \in Addresses /\ op[r] \in Ops
  BY <1>1 DEF IInv, Shape
\* An answer that settles the key of one operation of its class.
<1>2. ASSUME NEW r \in Calls, cause' = r, NEW o \in Class(op[r]), o \in Ops,
             NEW how \in {"resolved", "rejected"}, Settle(<<o, address[r]>>, how),
             o \in GattOps /\ how = "resolved" => o = op[r],
             r \in Pending /\ Rivals(r) = {} => o = op[r]
      PROVE  AnswerFindsItsCall
  <2>1. \A c \in Pending : call'[c] # "pending" =>
          call'[c] = how /\ op[c] = o /\ address[c] = address[r]
    BY <1>1, <1>2, SettleFinds
  <2>2. \A c \in Pending : op[c] = o /\ address[c] = address[r] => call'[c] # "pending"
    BY <1>1, <1>2, SettleFinds
  <2> QED BY <1>2, <2>1, <2>2 DEF AnswerFindsItsCall, Rivals
\* A step that settles nothing, for the answer of a discovery or none.
<1>3. ASSUME cause' = None \/ (cause' \in Calls /\ op[cause'] = Discovery), UNCHANGED call
      PROVE  AnswerFindsItsCall
  BY <1>3 DEF AnswerFindsItsCall, Pending
<1>4. ASSUME NEW r \in Calls
      PROVE  op[r] \in Class(op[r]) /\ (op[r] \in GattOps => Class(op[r]) = GattOps)
             /\ (op[r] \in LinkOps => Class(op[r]) = LinkOps)
  BY DEF Class, GattOps, LinkOps
<1>5. ASSUME NEW r \in Calls, AcceptResponse(r) \/ AcceptAdminError(r)
      PROVE  AnswerFindsItsCall
  <2>1. cause' = r /\ \E how \in {"resolved", "rejected"} : Settle(<<op[r], address[r]>>, how)
    BY <1>5 DEF AcceptResponse, AcceptAdminError, Answer, Frame
  <2> QED BY <1>1, <1>2, <1>4, <2>1
<1>6. ASSUME NEW r \in Calls, AcceptGattError(r)
      PROVE  AnswerFindsItsCall
  <2> DEFINE taken(o) == entries[<<o, address[r]>>] # None
             o == IF taken("read") THEN "read" ELSE IF taken("write") THEN "write" ELSE "notify"
  <2>1. cause' = r /\ op[r] \in GattOps /\ Settle(<<o, address[r]>>, "rejected")
    BY <1>6 DEF AcceptGattError, Answer, Frame
  <2>2. o \in GattOps /\ o \in Ops /\ o \in Class(op[r])
    BY <1>4, <2>1 DEF GattOps, Ops
  <2>3. ASSUME r \in Pending, Rivals(r) = {}
        PROVE  o = op[r]
    <3>1. entries[<<op[r], address[r]>>] = r
      BY <2>3 DEF IInv, PendingHaveEntries, Pending
    <3>2. ASSUME NEW q \in GattOps, taken(q)
          PROVE  q = op[r]
      <4>1. <<q, address[r]>> \in Keys
        BY <1>1 DEF Keys, Ops
      <4> DEFINE c == entries[<<q, address[r]>>]
      <4>2. c \in Calls /\ call[c] = "pending" /\ q = op[c] /\ address[c] = address[r]
        BY <3>2, <4>1 DEF IInv, Shape, EntriesArePending
      <4>3. c = r
        BY <1>4, <2>1, <2>3, <4>2 DEF Rivals, Pending
      <4> QED BY <4>2, <4>3
    <3>3. taken(op[r])
      BY <3>1, CallsAssumption
    <3> QED BY <2>1, <3>2, <3>3 DEF GattOps
  <2> HIDE DEF o
  <2> QED BY <1>2, <2>1, <2>2, <2>3
<1>7. ASSUME NEW r \in Calls, AcceptConnection(r)
      PROVE  AnswerFindsItsCall
  <2>1. PICK up \in {op[r] = "connect", FALSE} : Report(address[r], up)
    BY <1>7 DEF AcceptConnection
  <2>2. cause' = r /\ op[r] \in LinkOps
    BY <1>7 DEF AcceptConnection, Answer, Frame
  <2>3. ASSUME NEW q \in LinkOps, entries[<<q, address[r]>>] # None, r \in Pending, Rivals(r) = {}
        PROVE  q = op[r]
    <3>1. <<q, address[r]>> \in Keys
      BY <1>1 DEF Keys, Ops
    <3> DEFINE c == entries[<<q, address[r]>>]
    <3>2. c \in Calls /\ call[c] = "pending" /\ q = op[c] /\ address[c] = address[r]
      BY <2>3, <3>1 DEF IInv, Shape, EntriesArePending
    <3>3. c = r
      BY <1>4, <2>2, <2>3, <3>2 DEF Rivals, Pending
    <3> QED BY <3>2, <3>3
  <2>4. \A q \in LinkOps : q \in Ops /\ q \notin GattOps /\ q \in Class(op[r])
    BY <1>4, <2>2 DEF Ops, LinkOps, GattOps
  <2>5. ASSUME r \in Pending
        PROVE  entries[<<op[r], address[r]>>] # None
    BY <2>5, CallsAssumption DEF IInv, PendingHaveEntries, Pending
  <2>6. CASE op[r] = "connect" /\ up = TRUE
    <3>1. Settle(<<"connect", address[r]>>, "resolved")
      BY <2>1, <2>6 DEF Report
    <3> QED BY <1>2, <2>2, <2>4, <2>6, <3>1
  <2>7. CASE up = FALSE /\ entries[<<"connect", address[r]>>] # None
    <3>1. Settle(<<"connect", address[r]>>, "rejected") /\ "connect" \in LinkOps
      BY <2>1, <2>7 DEF Report, LinkOps
    <3>2. r \in Pending /\ Rivals(r) = {} => "connect" = op[r]
      BY <2>3, <2>7, <3>1
    <3> QED BY <1>2, <2>2, <2>4, <3>1, <3>2
  <2>8. CASE up = FALSE /\ entries[<<"connect", address[r]>>] = None
    <3>1. Settle(<<"disconnect", address[r]>>, "resolved") /\ "disconnect" \in LinkOps
      BY <2>1, <2>8 DEF Report, LinkOps
    <3>2. r \in Pending /\ Rivals(r) = {} => "disconnect" = op[r]
      BY <2>2, <2>5, <2>8 DEF LinkOps
    <3> QED BY <1>2, <2>2, <2>4, <3>1, <3>2
  <2> QED BY <2>1, <2>6, <2>7, <2>8
<1>8. ASSUME NEW r \in Calls, AcceptServices(r) \/ Silence(r)
      PROVE  AnswerFindsItsCall
  BY <1>3, <1>8 DEF AcceptServices, Silence, Frame
<1>9. ASSUME NEW r \in Calls, AcceptServicesDone(r)
      PROVE  AnswerFindsItsCall
  <2>1. cause' = r /\ op[r] = Discovery
        /\ (UNCHANGED call \/ Settle(<<Discovery, address[r]>>, "resolved"))
    BY <1>9 DEF AcceptServicesDone, Answer, Frame
  <2> QED BY <1>1, <1>2, <1>3, <1>4, <2>1
<1>10. ASSUME NEW a \in Addresses, AcceptUnsolicited(a)
       PROVE  AnswerFindsItsCall
  BY <1>10 DEF AcceptUnsolicited, AnswerFindsItsCall
<1> QED BY <1>5, <1>6, <1>7, <1>8, <1>9, <1>10 DEF Device

\* An answer settles no call of another peripheral or of another class of operations,
\* resolves a GATT call only if it answers that operation, and reaches the call that asked
\* when nothing else of its class is pending: the correlators keyed by address and handle.
THEOREM AnswersAreRouted == Spec => AnswersFindTheirCall
<1>1. IInv /\ [Next]_vars => [AnswerFindsItsCall]_vars
  <2>1. SUFFICES ASSUME IInv, Next PROVE AnswerFindsItsCall
    OBVIOUS
  <2>2. CASE Device
    BY <2>1, <2>2, AnswerIsRouted
  <2>3. CASE ~Device
    <3>1. cause' = None
      <4>1. CASE Application
        <5>1. \A c \in Calls, o \in Ops, a \in Addresses :
                Request(c, o, a) \/ RequestAborted(c, o, a) \/ Refuse(c, o, a) => cause' = None
          BY DEF Request, RequestAborted, Refuse, Ask
        <5>2. \A c \in Calls, a \in Addresses : WriteWithoutResponse(c, a) => cause' = None
          BY DEF WriteWithoutResponse, Ask
        <5>3. \A c \in Calls : GiveUp(c) => cause' = None
          BY DEF GiveUp
        <5> QED
          BY <4>1, <5>1, <5>2, <5>3, Zenon DEF Application
      <4>2. CASE (\E c \in Calls : Finally(c)) \/ ClearConnectionState \/ Attach
        BY <4>2 DEF Finally, ClearConnectionState, Attach
      <4> QED
        BY <2>1, <2>3, <4>1, <4>2 DEF Next
    <3> QED BY <3>1 DEF AnswerFindsItsCall
  <2> QED BY <2>2, <2>3
<1> QED BY <1>1, InvariantHolds, PTL DEF AnswersFindTheirCall, Spec
-----------------------------------------------------------------------------
(* Sequences. *)

LEMMA RangeOfAppend ==
  ASSUME NEW S, NEW s \in Seq(S), NEW e \in S
  PROVE  Append(s, e) \in Seq(S) /\ Range(Append(s, e)) = Range(s) \cup {e}
<1>1. /\ Append(s, e) \in Seq(S) /\ Len(Append(s, e)) = Len(s) + 1
      /\ \A i \in 1..Len(s) : Append(s, e)[i] = s[i]
      /\ Append(s, e)[Len(s) + 1] = e
  BY AppendProperties
<1>2. Range(Append(s, e)) = {Append(s, e)[i] : i \in 1..Len(s) + 1} /\ Range(s) = {s[i] : i \in 1..Len(s)}
  BY <1>1, RangeEquality
<1>3. Len(s) \in Nat /\ 1..Len(s) + 1 = 1..Len(s) \cup {Len(s) + 1}
  OBVIOUS
<1> QED
  BY <1>1, <1>2, <1>3

\* Deleting one place of a sequence moves the later ones up by one.
LEMMA RemoveAtProperties ==
  ASSUME NEW S, NEW s \in Seq(S), NEW i \in DOMAIN s
  PROVE  /\ RemoveAt(s, i) \in Seq(S)
         /\ Len(RemoveAt(s, i)) = Len(s) - 1
         /\ \A j \in 1..Len(s) - 1 : RemoveAt(s, i)[j] = IF j < i THEN s[j] ELSE s[j + 1]
<1> DEFINE before == SubSeq(s, 1, i - 1)
           after == SubSeq(s, i + 1, Len(s))
<1>1. Len(s) \in Nat /\ i \in 1..Len(s) /\ \A j \in 1..Len(s) : s[j] \in S
  OBVIOUS
<1>2. before \in Seq(S) /\ Len(before) = i - 1 /\ \A j \in 1..i - 1 : before[j] = s[j]
  BY <1>1, SubSeqProperties
<1>3. /\ after \in Seq(S) /\ Len(after) = Len(s) - i
      /\ \A j \in 1..Len(s) - i : after[j] = s[i + j]
  BY <1>1, SubSeqProperties
<1>4. RemoveAt(s, i) = before \o after
  BY DEF RemoveAt
<1> HIDE DEF before, after
<1>5. /\ before \o after \in Seq(S) /\ Len(before \o after) = Len(before) + Len(after)
      /\ \A j \in 1..Len(before) + Len(after) :
           (before \o after)[j] = IF j <= Len(before) THEN before[j] ELSE after[j - Len(before)]
  BY <1>2, <1>3, ConcatProperties
<1>6. ASSUME NEW j \in 1..Len(s) - 1, j < i PROVE (before \o after)[j] = s[j]
  <2>1. j \in 1..i - 1 /\ j \in 1..Len(before) + Len(after) /\ j <= Len(before)
    BY <1>1, <1>2, <1>3, <1>6
  <2> QED
    BY <1>2, <1>5, <2>1
<1>7. ASSUME NEW j \in 1..Len(s) - 1, ~(j < i) PROVE (before \o after)[j] = s[j + 1]
  <2>1. j - (i - 1) \in 1..Len(s) - i /\ i + (j - (i - 1)) = j + 1
    BY <1>1, <1>7
  <2>2. j \in 1..Len(before) + Len(after) /\ ~(j <= Len(before)) /\ j - Len(before) = j - (i - 1)
    BY <1>1, <1>2, <1>3, <1>7
  <2>3. (before \o after)[j] = after[j - (i - 1)]
    BY <1>5, <2>2
  <2>4. after[j - (i - 1)] = s[i + (j - (i - 1))]
    BY <1>3, <2>1
  <2> QED
    BY <2>1, <2>3, <2>4
<1>8. Len(before \o after) = Len(s) - 1
  BY <1>1, <1>2, <1>3, <1>5
<1>9. \A j \in 1..Len(s) - 1 : (before \o after)[j] = IF j < i THEN s[j] ELSE s[j + 1]
  BY <1>6, <1>7
<1> QED
  BY ONLY <1>4, <1>5, <1>8, <1>9

LEMMA RemoveInjective ==
  ASSUME NEW S, NEW s \in Seq(S), IsInjective(s), NEW i \in DOMAIN s
  PROVE  /\ IsInjective(RemoveAt(s, i))
         /\ Range(RemoveAt(s, i)) = Range(s) \ {s[i]}
<1> DEFINE r == RemoveAt(s, i)
           n == Len(s)
<1>1. /\ r \in Seq(S) /\ Len(r) = n - 1
      /\ \A j \in 1..n - 1 : r[j] = IF j < i THEN s[j] ELSE s[j + 1]
  BY RemoveAtProperties
<1>2. n \in Nat /\ DOMAIN s = 1..n /\ DOMAIN r = 1..n - 1
  BY <1>1
<1>3. Range(s) = {s[j] : j \in 1..n} /\ Range(r) = {r[j] : j \in 1..n - 1}
  BY <1>1, RangeEquality
<1>4. \A j, k \in 1..n : s[j] = s[k] => j = k
  BY <1>2 DEF IsInjective
<1> HIDE DEF r, n
<1>5. ASSUME NEW j \in 1..n - 1
      PROVE  r[j] \in {s[k] : k \in 1..n} /\ r[j] # s[i]
  <2>1. j \in 1..n /\ j + 1 \in 1..n /\ i \in 1..n
    BY <1>2
  <2>2. CASE j < i
    BY <1>1, <1>4, <2>1, <2>2
  <2>3. CASE ~(j < i)
    BY <1>1, <1>4, <2>1, <2>3
  <2> QED
    BY <2>2, <2>3
<1>6. ASSUME NEW j \in 1..n, j # i
      PROVE  s[j] \in {r[k] : k \in 1..n - 1}
  <2>1. CASE j < i
    <3>1. j \in 1..n - 1 /\ r[j] = s[j]
      BY <1>1, <1>2, <2>1
    <3> QED
      BY <3>1
  <2>2. CASE ~(j < i)
    <3>1. j - 1 \in 1..n - 1 /\ ~(j - 1 < i) /\ (j - 1) + 1 = j
      BY <1>2, <1>6, <2>2
    <3>2. r[j - 1] = s[j]
      BY <1>1, <3>1
    <3> QED
      BY <3>1, <3>2
  <2> QED
    BY <2>1, <2>2
<1>7. Range(r) = Range(s) \ {s[i]}
  BY <1>3, <1>5, <1>6
<1>8. ASSUME NEW j \in 1..n - 1, NEW k \in 1..n - 1, r[j] = r[k]
      PROVE  j = k
  <2>1. j \in 1..n /\ j + 1 \in 1..n /\ k \in 1..n /\ k + 1 \in 1..n /\ i \in Nat
    BY <1>2
  <2> QED
    BY <1>1, <1>4, <1>8, <2>1
<1>9. IsInjective(r)
  BY <1>2, <1>8 DEF IsInjective
<1> QED
  BY <1>7, <1>9 DEF r

LEMMA AppendNew ==
  ASSUME NEW S, NEW s \in Seq(S), IsInjective(s), NEW e \in S, e \notin Range(s)
  PROVE  IsInjective(Append(s, e))
<1>1. Range(s) = {s[j] : j \in 1..Len(s)} /\ Len(s) \in Nat /\ DOMAIN s = 1..Len(s)
  BY RangeEquality
<1>2. /\ DOMAIN Append(s, e) = 1..Len(s) + 1
      /\ \A j \in 1..Len(s) : Append(s, e)[j] = s[j]
      /\ Append(s, e)[Len(s) + 1] = e
  BY AppendProperties, LenProperties
<1>3. \A j \in 1..Len(s) + 1 : j = Len(s) + 1 \/ j \in 1..Len(s)
  BY <1>1
<1> QED
  BY <1>1, <1>2, <1>3 DEF IsInjective

-----------------------------------------------------------------------------
(* What discoveries return. *)

\* No discovery of the address was given up, refused or cut off.
Clean(a) == \A d \in Calls : op[d] = Discovery /\ address[d] = a => call[d] # "rejected"

\* All that the device has sent for a discovery.
Whole(c) == [n \in 1..sent[c] |-> <<c, n>>]

\* A request is on its way at most once, and only after it was made.
RequestsAreOnce ==
  /\ IsInjective(inFlight)
  /\ \A r \in Range(inFlight) : call[r] # "new"

FreshCalls == \A c \in Calls : call[c] = "new" => sent[c] = 0 /\ services[c] = None

\* The device answers no discovery of a clean address that is not pending.
CleanRequestsArePending ==
  \A r \in Range(inFlight) : op[r] = Discovery /\ Clean(address[r]) => call[r] = "pending"

\* What is collected for a clean address is all that was sent.
CollectedIsWhole ==
  \A c \in Calls :
    call[c] = "pending" /\ op[c] = Discovery /\ Clean(address[c]) =>
      accumulator[address[c]] \in {None, Whole(c)}

ResolvedAreWhole ==
  \A c \in Calls :
    services[c] # None /\ Clean(address[c]) => services[c] = Whole(c) /\ c \notin Range(inFlight)

WholeInv ==
  /\ RequestsAreOnce
  /\ FreshCalls
  /\ CleanRequestsArePending
  /\ CollectedIsWhole
  /\ ResolvedAreWhole

\* The shape of the variables that discoveries add to.
WholeShape ==
  /\ inFlight \in Seq(Calls)
  /\ sent \in [Calls -> Nat]
  /\ services = [c \in Calls |-> services[c]]

LEMMA InitWhole == Init => WholeShape /\ WholeInv
<1> SUFFICES ASSUME Init PROVE WholeShape /\ WholeInv
  OBVIOUS
<1>1. Range(inFlight) = {} /\ IsInjective(inFlight)
  BY DEF Init, Range, IsInjective
<1> QED
  BY <1>1 DEF Init, WholeShape, WholeInv, RequestsAreOnce, FreshCalls, CleanRequestsArePending,
     CollectedIsWhole, ResolvedAreWhole

\* What a step that asks nothing may do to a call: settle it.  A discovery is settled because
\* it is given up, or its answer says so.
Settles(d) ==
  /\ call[d] = "pending"
  /\ call'[d] \in {"resolved", "rejected"}
  /\ op[d] = Discovery => call'[d] = "rejected"

\* A step that settles calls, takes requests out of flight and deletes accumulators.
LEMMA LosingStep ==
  ASSUME IInv, WholeShape, WholeInv, UNCHANGED <<request, sent, services>>,
         \A d \in Calls : call'[d] = call[d] \/ Settles(d),
         inFlight' \in Seq(Calls), IsInjective(inFlight'), Range(inFlight') \subseteq Range(inFlight),
         \A a \in Addresses : accumulator'[a] \in {accumulator[a], None}
  PROVE  (WholeShape /\ WholeInv)'
<1>1. op' = op /\ address' = address /\ \A d \in Calls : op[d] \in Ops /\ address[d] \in Addresses
  BY DEF request, IInv, Shape
<1>2. \A d \in Calls : call'[d] = "new" <=> call[d] = "new"
  BY DEF Settles
<1>3. ASSUME NEW a, Clean(a)' PROVE Clean(a)
  BY <1>1, <1>3 DEF Clean, Settles
<1>4. Range(inFlight) \subseteq Calls
  BY RangeOfSeq DEF WholeShape
<1>5. ASSUME NEW d \in Calls, op[d] = Discovery, Clean(address[d])'
      PROVE  call'[d] = call[d]
  BY <1>1, <1>5 DEF Clean, Settles
<1>6. RequestsAreOnce' /\ FreshCalls'
  BY <1>2, <1>4 DEF WholeInv, RequestsAreOnce, FreshCalls
<1>7. CleanRequestsArePending'
  BY <1>1, <1>3, <1>4, <1>5 DEF WholeInv, CleanRequestsArePending
<1>8. CollectedIsWhole'
  <2> SUFFICES ASSUME NEW c \in Calls, call'[c] = "pending", op[c] = Discovery, Clean(address[c])'
               PROVE  accumulator'[address[c]] \in {None, Whole(c)}
    BY <1>1 DEF CollectedIsWhole, Whole
  <2>1. accumulator[address[c]] \in {None, Whole(c)}
    BY <1>1, <1>3, <1>5 DEF WholeInv, CollectedIsWhole, Clean
  <2> QED
    BY <1>1, <2>1
<1>9. ResolvedAreWhole'
  BY <1>1, <1>3 DEF WholeInv, ResolvedAreWhole, Whole
<1> QED
  BY <1>6, <1>7, <1>8, <1>9 DEF WholeShape, WholeInv

\* A request that is answered or dropped is in flight no more.
LEMMA DoneLeaves ==
  ASSUME WholeShape, WholeInv, NEW r \in Calls, IsDone(r)
  PROVE  /\ inFlight' \in Seq(Calls) /\ IsInjective(inFlight')
         /\ r \in Range(inFlight) /\ Range(inFlight') = Range(inFlight) \ {r}
<1>1. PICK i \in DOMAIN inFlight : inFlight[i] = r /\ inFlight' = RemoveAt(inFlight, i)
  BY DEF IsDone
<1>2. inFlight \in Seq(Calls) /\ IsInjective(inFlight)
  BY DEF WholeShape, WholeInv, RequestsAreOnce
<1> QED
  BY <1>1, <1>2, RemoveAtProperties, RemoveInjective DEF Range

\* What the correlators do to the calls.
LEMMA SettleSettles ==
  ASSUME IInv, NEW k \in Keys, NEW how \in {"resolved", "rejected"}, Settle(k, how),
         k[1] = Discovery => how = "rejected"
  PROVE  \A d \in Calls : call'[d] = call[d] \/ Settles(d)
<1>1. CASE entries[k] = None
  BY <1>1 DEF Settle
<1>2. CASE entries[k] # None
  <2>1. /\ entries[k] \in Calls /\ call[entries[k]] = "pending" /\ k[1] = op[entries[k]]
        /\ call \in [Calls -> {"new", "pending", "resolved", "rejected"}]
    BY <1>2 DEF IInv, Shape, EntriesArePending
  <2>2. call' = [call EXCEPT ![entries[k]] = how]
    BY <1>2 DEF Settle
  <2> QED
    BY <2>1, <2>2 DEF Settles
<1> QED
  BY <1>1, <1>2

\* A call is made.  It may wait, for a discovery with a fresh accumulator; a discovery that
\* does not wait spoils its address.
LEMMA AskingStep ==
  ASSUME IInv, WholeShape, WholeInv, NEW c \in Calls, NEW o \in Ops, NEW a \in Addresses,
         Ask(c, o, a), NEW how \in {"pending", "resolved", "rejected"},
         call' = [call EXCEPT ![c] = how],
         inFlight' \in {inFlight, Append(inFlight, c)},
         o = Discovery => \/ how = "rejected"
                          \/ how = "pending" /\ entries[<<o, a>>] = None /\ accumulator'[a] = <<>>,
         \A b \in Addresses : o # Discovery \/ b # a => accumulator'[b] = accumulator[b]
  PROVE  (WholeShape /\ WholeInv)'
<1>1. /\ call[c] = "new" /\ op' = [op EXCEPT ![c] = o] /\ address' = [address EXCEPT ![c] = a]
      /\ sent' = sent /\ services' = services
  BY DEF Ask
<1>2. /\ call'[c] = how /\ op'[c] = o /\ address'[c] = a
      /\ \A d \in Calls : d # c => call'[d] = call[d] /\ op'[d] = op[d] /\ address'[d] = address[d]
      /\ \A d \in Calls : address[d] \in Addresses /\ address'[d] \in Addresses
  BY <1>1 DEF IInv, Shape
<1>3. ASSUME NEW b, Clean(b)' PROVE Clean(b)
  BY <1>1, <1>2, <1>3 DEF Clean
<1>4. /\ inFlight \in Seq(Calls) /\ c \notin Range(inFlight) /\ Range(inFlight) \subseteq Calls
      /\ IsInjective(inFlight) /\ sent[c] = 0 /\ services[c] = None
  BY <1>1, RangeOfSeq DEF WholeShape, WholeInv, RequestsAreOnce, FreshCalls
<1>5. /\ inFlight' \in Seq(Calls) /\ IsInjective(inFlight')
      /\ Range(inFlight') \subseteq Range(inFlight) \cup {c}
  <2>1. CASE inFlight' = inFlight
    BY <1>4, <2>1
  <2>2. CASE inFlight' = Append(inFlight, c)
    <3>1. /\ Append(inFlight, c) \in Seq(Calls)
          /\ Range(Append(inFlight, c)) = Range(inFlight) \cup {c}
      BY ONLY <1>4, RangeOfAppend, c \in Calls
    <3>2. IsInjective(Append(inFlight, c))
      BY ONLY <1>4, AppendNew, c \in Calls
    <3> QED
      BY <2>2, <3>1, <3>2
  <2> QED
    BY <2>1, <2>2
<1>6. RequestsAreOnce' /\ FreshCalls' /\ WholeShape'
  BY <1>1, <1>2, <1>4, <1>5 DEF WholeInv, WholeShape, RequestsAreOnce, FreshCalls
<1>7. CleanRequestsArePending'
  <2> SUFFICES ASSUME NEW r \in Range(inFlight'), op'[r] = Discovery, Clean(address[r])'
               PROVE  call'[r] = "pending"
    BY DEF CleanRequestsArePending
  <2>1. CASE r = c
    BY <1>2, <2>1 DEF Clean
  <2>2. CASE r # c
    <3>1. /\ r \in Range(inFlight) /\ r \in Calls /\ op[r] = Discovery
          /\ address'[r] = address[r] /\ call'[r] = call[r]
      BY <1>2, <1>4, <1>5, <2>2
    <3>2. Clean(address[r])
      BY <1>1, <1>2, <3>1 DEF Clean
    <3> QED
      BY <3>1, <3>2 DEF WholeInv, CleanRequestsArePending
  <2> QED
    BY <2>1, <2>2
<1>8. CollectedIsWhole'
  <2> SUFFICES ASSUME NEW d \in Calls, call'[d] = "pending", op'[d] = Discovery, Clean(address[d])'
               PROVE  accumulator'[address'[d]] \in {None, Whole(d)'}
    BY DEF CollectedIsWhole
  <2>1. Whole(d)' = Whole(d)
    BY <1>1 DEF Whole
  <2>2. CASE d = c
    <3>1. accumulator'[a] = <<>> \/ how = "rejected"
      BY <1>2, <2>2
    <3>2. Whole(c) = <<>>
      BY <1>4 DEF Whole
    <3> QED
      BY <1>2, <2>1, <2>2, <3>1, <3>2
  <2>3. CASE d # c
    <3>1. call[d] = "pending" /\ op[d] = Discovery /\ address'[d] = address[d]
      BY <1>2, <2>3
    <3>2. Clean(address[d])
      BY <1>1, <1>2, <3>1 DEF Clean
    <3>3. accumulator[address[d]] \in {None, Whole(d)}
      BY <3>1, <3>2 DEF WholeInv, CollectedIsWhole
    <3>4. o = Discovery /\ how # "rejected" => address[d] # a
      <4>1. SUFFICES ASSUME o = Discovery, how # "rejected", address[d] = a PROVE FALSE
        OBVIOUS
      <4>2. entries[<<Discovery, a>>] = d /\ d # None
        BY <3>1, <4>1, CallsAssumption DEF IInv, PendingHaveEntries
      <4> QED
        BY <4>1, <4>2
    <3>5. o = Discovery /\ how = "rejected" => address[d] # a
      BY <1>2, <3>1 DEF Clean
    <3>6. accumulator'[address[d]] = accumulator[address[d]]
      BY <1>2, <3>4, <3>5
    <3> QED
      BY <2>1, <3>1, <3>3, <3>6
  <2> QED
    BY <2>2, <2>3
<1>9. ResolvedAreWhole'
  <2> SUFFICES ASSUME NEW d \in Calls, services[d] # None, Clean(address[d])'
               PROVE  services[d] = Whole(d) /\ d \notin Range(inFlight')
    BY <1>1 DEF ResolvedAreWhole, Whole
  <2>1. d # c
    BY <1>4
  <2>2. Clean(address[d])
    BY <1>1, <1>2, <2>1 DEF Clean
  <2> QED
    BY <1>5, <2>1, <2>2 DEF WholeInv, ResolvedAreWhole
<1> QED
  BY <1>6, <1>7, <1>8, <1>9 DEF WholeInv

LEMMA ApplicationIsWhole ==
  IInv /\ WholeShape /\ WholeInv /\ Application => (WholeShape /\ WholeInv)'
<1> SUFFICES ASSUME IInv, WholeShape, WholeInv, Application PROVE (WholeShape /\ WholeInv)'
  OBVIOUS
<1>0. accumulator = [b \in Addresses |-> accumulator[b]]
  BY DEF IInv, Shape
<1>1. ASSUME NEW c \in Calls, NEW o \in Ops, NEW a \in Addresses, Request(c, o, a)
      PROVE  (WholeShape /\ WholeInv)'
  <2>1. /\ Ask(c, o, a) /\ call' = [call EXCEPT ![c] = "pending"]
        /\ entries[<<o, a>>] = None
        /\ inFlight' \in {inFlight, Append(inFlight, c)}
    BY <1>1 DEF Request, Send
  <2>2. accumulator' = IF o = Discovery THEN [accumulator EXCEPT ![a] = <<>>] ELSE accumulator
    BY <1>1 DEF Request, Seed
  <2>3. o = Discovery => accumulator'[a] = <<>>
    BY <1>0, <2>2
  <2>4. \A b \in Addresses : o # Discovery \/ b # a => accumulator'[b] = accumulator[b]
    BY <1>0, <2>2
  <2> QED
    BY <2>1, <2>3, <2>4, AskingStep
<1>2. ASSUME NEW c \in Calls, NEW o \in Ops, NEW a \in Addresses, RequestAborted(c, o, a) \/ Refuse(c, o, a)
      PROVE  (WholeShape /\ WholeInv)'
  <2>1. /\ Ask(c, o, a) /\ call' = [call EXCEPT ![c] = "rejected"]
        /\ inFlight' \in {inFlight, Append(inFlight, c)}
    BY <1>2 DEF RequestAborted, Refuse, Send
  <2>2. \A b \in Addresses : o # Discovery \/ b # a => accumulator'[b] = accumulator[b]
    BY <1>0, <1>2 DEF RequestAborted, Refuse, Seed
  <2> QED
    BY <2>1, <2>2, AskingStep
<1>3. ASSUME NEW c \in Calls, NEW a \in Addresses, WriteWithoutResponse(c, a)
      PROVE  (WholeShape /\ WholeInv)'
  <2>1. /\ Ask(c, "write", a) /\ call' = [call EXCEPT ![c] = "resolved"]
        /\ inFlight' \in {inFlight, Append(inFlight, c)} /\ accumulator' = accumulator
    BY <1>3 DEF WriteWithoutResponse, Send
  <2>2. "write" \in Ops /\ "write" # Discovery
    BY DEF Ops, GattOps, Discovery
  <2> QED
    BY <2>1, <2>2, AskingStep
<1>4. ASSUME NEW c \in Calls, GiveUp(c)
      PROVE  (WholeShape /\ WholeInv)'
  <2>1. <<op[c], address[c]>> \in Keys
    BY DEF IInv, Shape, Keys
  <2>2. /\ Settle(<<op[c], address[c]>>, "rejected")
        /\ UNCHANGED <<request, sent, services, accumulator, inFlight>>
    BY <1>4 DEF GiveUp
  <2>3. \A d \in Calls : call'[d] = call[d] \/ Settles(d)
    BY <2>1, <2>2, SettleSettles
  <2> QED
    BY <2>2, <2>3, LosingStep DEF WholeShape, WholeInv, RequestsAreOnce
<1> QED
  BY <1>1, <1>2, <1>3, <1>4 DEF Application

\* A frame of services joins what is collected.
LEMMA CollectingStep ==
  ASSUME IInv, WholeShape, WholeInv, NEW r \in Calls, AcceptServices(r)
  PROVE  (WholeShape /\ WholeInv)'
<1>1. /\ r \in Range(inFlight) /\ op[r] = Discovery
      /\ sent' = [sent EXCEPT ![r] = sent[r] + 1]
      /\ UNCHANGED <<request, call, inFlight, services, entries>>
  BY DEF AcceptServices, Frame, Oldest, Range
<1>2. /\ sent[r] \in Nat /\ sent'[r] = sent[r] + 1 /\ sent' \in [Calls -> Nat]
      /\ \A d \in Calls : d # r => sent'[d] = sent[d] /\ Whole(d)' = Whole(d)
  BY <1>1 DEF WholeShape, Whole
<1>3. \A b \in Addresses : b # address[r] => accumulator'[b] = accumulator[b]
  BY DEF AcceptServices, IInv, Shape
<1>4. accumulator'[address[r]] = IF accumulator[address[r]] = None THEN None
                                 ELSE Append(accumulator[address[r]], <<r, sent'[r]>>)
  BY DEF AcceptServices, IInv, Shape
<1>5. Append(Whole(r), <<r, sent'[r]>>) = Whole(r)'
  <2>1. Whole(r) \in Seq(Calls \X Nat) /\ Len(Whole(r)) = sent[r]
    BY <1>2 DEF Whole
  <2>2. <<r, sent'[r]>> \in Calls \X Nat
    BY <1>2
  <2> DEFINE new == Append(Whole(r), <<r, sent'[r]>>)
  <2>3. /\ new \in Seq(Calls \X Nat) /\ Len(new) = sent[r] + 1
        /\ \A n \in 1..sent[r] : new[n] = Whole(r)[n] /\ new[sent[r] + 1] = <<r, sent'[r]>>
        /\ new[sent[r] + 1] = <<r, sent'[r]>>
    BY <2>1, <2>2, AppendProperties
  <2>4. Whole(r)' = [n \in 1..sent[r] + 1 |-> <<r, n>>]
    BY <1>2 DEF Whole
  <2>5. \A n \in 1..sent[r] : Whole(r)[n] = <<r, n>>
    BY DEF Whole
  <2> HIDE DEF new
  <2>6. new = [n \in 1..sent[r] + 1 |-> new[n]]
    BY <1>2, <2>3
  <2>7. ASSUME NEW n \in 1..sent[r] + 1 PROVE new[n] = <<r, n>>
    <3>1. CASE n = sent[r] + 1
      BY <1>2, <2>3, <3>1
    <3>2. CASE n # sent[r] + 1
      <4>1. n \in 1..sent[r]
        BY <1>2, <3>2
      <4> QED
        BY <2>3, <2>5, <4>1
    <3> QED
      BY <3>1, <3>2
  <2> QED
    BY <2>4, <2>6, <2>7 DEF new
<1>6. call[r] # "new"
  BY <1>1 DEF WholeInv, RequestsAreOnce
<1>7. RequestsAreOnce' /\ FreshCalls' /\ CleanRequestsArePending' /\ WholeShape'
  BY <1>1, <1>2, <1>6 DEF WholeInv, WholeShape, RequestsAreOnce, FreshCalls, CleanRequestsArePending,
     Clean, request
<1>8. CollectedIsWhole'
  <2> SUFFICES ASSUME NEW c \in Calls, call[c] = "pending", op[c] = Discovery, Clean(address[c])
               PROVE  accumulator'[address[c]] \in {None, Whole(c)'}
    BY <1>1 DEF CollectedIsWhole, Clean, request
  <2>1. accumulator[address[c]] \in {None, Whole(c)}
    BY DEF WholeInv, CollectedIsWhole
  <2>2. CASE c = r
    BY <1>4, <1>5, <2>1, <2>2
  <2>3. CASE c # r
    <3>1. address[c] # address[r]
      <4>1. SUFFICES ASSUME address[c] = address[r] PROVE FALSE
        OBVIOUS
      <4>2. call[r] = "pending"
        BY <1>1, <4>1 DEF WholeInv, CleanRequestsArePending
      <4>3. entries[<<Discovery, address[c]>>] = c /\ entries[<<Discovery, address[r]>>] = r
        BY <1>1, <4>2 DEF IInv, PendingHaveEntries
      <4> QED
        BY <2>3, <4>1, <4>3
    <3>2. address[c] \in Addresses
      BY DEF IInv, Shape
    <3> QED
      BY <1>2, <1>3, <2>1, <2>3, <3>1, <3>2
  <2> QED
    BY <2>2, <2>3
<1>9. ResolvedAreWhole'
  <2> SUFFICES ASSUME NEW d \in Calls, services[d] # None, Clean(address[d])
               PROVE  services[d] = Whole(d)' /\ d \notin Range(inFlight)
    BY <1>1 DEF ResolvedAreWhole, Clean, request
  <2>1. services[d] = Whole(d) /\ d \notin Range(inFlight)
    BY DEF WholeInv, ResolvedAreWhole
  <2> QED
    BY <1>1, <1>2, <2>1
<1> QED
  BY <1>7, <1>8, <1>9 DEF WholeInv

\* The end of a discovery with an accumulator resolves the call with what was collected.
LEMMA DeliveringStep ==
  ASSUME IInv, WholeShape, WholeInv, NEW r \in Calls, AcceptServicesDone(r),
         accumulator[address[r]] # None
  PROVE  (WholeShape /\ WholeInv)'
<1> DEFINE a == address[r]
           c == entries[<<Discovery, a>>]
<1>1. /\ op[r] = Discovery /\ UNCHANGED <<request, sent>> /\ IsDone(r)
      /\ accumulator' = [accumulator EXCEPT ![a] = None]
      /\ Settle(<<Discovery, a>>, "resolved")
      /\ services' = IF c = None THEN services ELSE [services EXCEPT ![c] = accumulator[a]]
  BY DEF AcceptServicesDone, Answer, Frame
<1>2. /\ inFlight' \in Seq(Calls) /\ IsInjective(inFlight') /\ Range(inFlight) \subseteq Calls
      /\ r \in Range(inFlight) /\ Range(inFlight') = Range(inFlight) \ {r}
  BY <1>1, DoneLeaves, RangeOfSeq DEF WholeShape
<1>3. /\ a \in Addresses /\ <<Discovery, a>> \in Keys
      /\ \A d \in Calls : address[d] \in Addresses
  BY DEF IInv, Shape, Keys, Ops, Discovery
<1>4. /\ c = None => call' = call
      /\ c # None => /\ c \in Calls /\ call[c] = "pending" /\ op[c] = Discovery /\ address[c] = a
                     /\ call' = [call EXCEPT ![c] = "resolved"]
  BY <1>1, <1>3 DEF Settle, IInv, Shape, EntriesArePending
<1>5. Clean(a) => c = r /\ call[r] = "pending" /\ c # None
  BY <1>1, <1>2, CallsAssumption DEF WholeInv, CleanRequestsArePending, IInv, PendingHaveEntries
<1> HIDE DEF c
<1>6. /\ \A d \in Calls : d # c => call'[d] = call[d] /\ services'[d] = services[d]
      /\ c # None => call'[c] = "resolved" /\ services'[c] = accumulator[a]
      /\ services' = [d \in Calls |-> services'[d]]
  BY <1>1, <1>4 DEF IInv, Shape, WholeShape
<1>7. op' = op /\ address' = address /\ sent' = sent /\ \A d \in Calls : Whole(d)' = Whole(d)
  BY <1>1 DEF request, Whole
<1>8. ASSUME NEW d \in Calls, Clean(address[d])' PROVE Clean(address[d])
  BY <1>4, <1>6, <1>7, <1>8 DEF Clean
<1>9. RequestsAreOnce' /\ FreshCalls' /\ WholeShape'
  <2>1. ASSUME NEW d \in Calls, call'[d] = "new" PROVE call[d] = "new" /\ services'[d] = services[d]
    BY <1>4, <1>6, <2>1, CallsAssumption
  <2>2. RequestsAreOnce'
    <3>1. ASSUME NEW q \in Range(inFlight') PROVE call'[q] # "new"
      BY <1>2, <2>1 DEF WholeInv, RequestsAreOnce
    <3> QED
      BY <1>2, <3>1 DEF RequestsAreOnce
  <2>3. FreshCalls'
    BY <1>7, <2>1 DEF WholeInv, FreshCalls
  <2>4. WholeShape'
    BY <1>2, <1>6, <1>7 DEF WholeShape
  <2> QED
    BY <2>2, <2>3, <2>4
<1>10. CleanRequestsArePending'
  <2> SUFFICES ASSUME NEW q \in Range(inFlight'), op[q] = Discovery, Clean(address[q])'
               PROVE  call'[q] = "pending"
    BY <1>7 DEF CleanRequestsArePending
  <2>1. q \in Calls /\ q # r /\ call[q] = "pending"
    BY <1>2, <1>8 DEF WholeInv, CleanRequestsArePending
  <2>2. q # c
    <3>1. SUFFICES ASSUME q = c PROVE FALSE
      OBVIOUS
    <3>2. Clean(a)
      BY <1>4, <1>8, <2>1, <3>1, CallsAssumption
    <3> QED
      BY <1>5, <2>1, <3>1, <3>2
  <2> QED
    BY <1>6, <2>1, <2>2
<1>11. CollectedIsWhole'
  <2> SUFFICES ASSUME NEW d \in Calls, call'[d] = "pending", op[d] = Discovery, Clean(address[d])'
               PROVE  accumulator'[address[d]] \in {None, Whole(d)}
    BY <1>7 DEF CollectedIsWhole
  <2>1. call[d] = "pending"
    BY <1>4, <1>6
  <2>2. accumulator[address[d]] \in {None, Whole(d)}
    BY <1>8, <2>1 DEF WholeInv, CollectedIsWhole
  <2> QED
    BY <1>1, <1>3, <2>2 DEF IInv, Shape
<1>12. ResolvedAreWhole'
  <2> SUFFICES ASSUME NEW d \in Calls, services'[d] # None, Clean(address[d])'
               PROVE  services'[d] = Whole(d) /\ d \notin Range(inFlight')
    BY <1>7 DEF ResolvedAreWhole
  <2>1. CASE d = c
    <3>1. d = r /\ call[r] = "pending"
      BY <1>4, <1>5, <1>8, <2>1, CallsAssumption
    <3>2. accumulator[a] \in {None, Whole(r)}
      BY <1>1, <1>8, <3>1 DEF WholeInv, CollectedIsWhole
    <3>3. services'[d] = accumulator[a]
      BY <1>4, <1>5, <1>6, <1>8, <2>1, <3>1
    <3> QED
      BY <1>2, <3>1, <3>2, <3>3
  <2>2. CASE d # c
    BY <1>2, <1>6, <1>8, <2>2 DEF WholeInv, ResolvedAreWhole
  <2> QED
    BY <2>1, <2>2
<1> QED
  BY <1>9, <1>10, <1>11, <1>12 DEF WholeInv


\* A step that settles one key of an operation that is not a discovery, or rejects a
\* discovery, and changes nothing that is collected.
LEMMA SettlingStep ==
  ASSUME IInv, WholeShape, WholeInv, UNCHANGED <<request, accumulator, sent, services>>,
         NEW k \in Keys, NEW how \in {"resolved", "rejected"}, Settle(k, how),
         k[1] = Discovery => how = "rejected",
         inFlight' = inFlight \/ \E r \in Calls : IsDone(r)
  PROVE  (WholeShape /\ WholeInv)'
<1>1. inFlight' \in Seq(Calls) /\ IsInjective(inFlight') /\ Range(inFlight') \subseteq Range(inFlight)
  <2>1. CASE inFlight' = inFlight
    BY <2>1 DEF WholeShape, WholeInv, RequestsAreOnce
  <2>2. CASE \E r \in Calls : IsDone(r)
    BY <2>2, DoneLeaves
  <2> QED
    BY <2>1, <2>2
<1>2. \A d \in Calls : call'[d] = call[d] \/ Settles(d)
  BY SettleSettles
<1> QED
  BY <1>1, <1>2, LosingStep

LEMMA DeviceIsWhole ==
  IInv /\ WholeShape /\ WholeInv /\ Device => (WholeShape /\ WholeInv)'
<1> SUFFICES ASSUME IInv, WholeShape, WholeInv, Device PROVE (WholeShape /\ WholeInv)'
  OBVIOUS
<1>1. /\ \A r \in Calls : address[r] \in Addresses /\ op[r] \in Ops
      /\ \A o \in Ops, a \in Addresses : <<o, a>> \in Keys /\ <<o, a>>[1] = o
      /\ Discovery \notin GattOps \cup LinkOps \cup Admin
      /\ GattOps \cup LinkOps \cup Admin \subseteq Ops
  BY BluetoothAssumption DEF IInv, Shape, Keys, Ops, GattOps, LinkOps, Discovery
<1>2. ASSUME NEW r \in Calls, AcceptResponse(r) \/ AcceptAdminError(r) \/ AcceptGattError(r)
      PROVE  (WholeShape /\ WholeInv)'
  <2>1. IsDone(r) /\ UNCHANGED <<request, accumulator, sent, services>>
    BY <1>2 DEF AcceptResponse, AcceptAdminError, AcceptGattError, Answer, Frame
  <2>2. PICK o \in GattOps \cup Admin, how \in {"resolved", "rejected"} : Settle(<<o, address[r]>>, how)
    BY <1>2 DEF AcceptResponse, AcceptAdminError, AcceptGattError, GattOps
  <2>3. <<o, address[r]>> \in Keys /\ <<o, address[r]>>[1] # Discovery
    BY <1>1
  <2> QED
    BY <2>1, <2>2, <2>3, SettlingStep
<1>3. ASSUME NEW a \in Addresses, NEW up \in BOOLEAN, Report(a, up), UNCHANGED request,
             inFlight' = inFlight \/ \E r \in Calls : IsDone(r)
      PROVE  (WholeShape /\ WholeInv)'
  <2>1. PICK o \in LinkOps, how \in {"resolved", "rejected"} : Settle(<<o, a>>, how)
    BY <1>3 DEF Report, LinkOps
  <2>2. <<o, a>> \in Keys /\ <<o, a>>[1] # Discovery
    BY <1>1
  <2>3. UNCHANGED <<request, accumulator, sent, services>>
    BY <1>3 DEF Report
  <2> QED
    BY <1>3, <2>1, <2>2, <2>3, SettlingStep
<1>4. ASSUME NEW r \in Calls, AcceptConnection(r)
      PROVE  (WholeShape /\ WholeInv)'
  BY <1>1, <1>3, <1>4 DEF AcceptConnection, Answer, Frame
<1>5. ASSUME NEW a \in Addresses, AcceptUnsolicited(a)
      PROVE  (WholeShape /\ WholeInv)'
  BY <1>3, <1>5 DEF AcceptUnsolicited
<1>6. ASSUME NEW r \in Calls, AcceptServices(r)
      PROVE  (WholeShape /\ WholeInv)'
  BY <1>6, CollectingStep
<1>7. ASSUME NEW r \in Calls, IsDone(r), UNCHANGED <<call, request, sent, services>>,
             accumulator' = accumulator \/ accumulator' = [accumulator EXCEPT ![address[r]] = None]
      PROVE  (WholeShape /\ WholeInv)'
  <2>1. \A a \in Addresses : accumulator'[a] \in {accumulator[a], None}
    BY <1>7 DEF IInv, Shape
  <2>2. inFlight' \in Seq(Calls) /\ IsInjective(inFlight') /\ Range(inFlight') \subseteq Range(inFlight)
    BY <1>7, DoneLeaves
  <2> QED
    BY <1>7, <2>1, <2>2, LosingStep
<1>8. ASSUME NEW r \in Calls, AcceptServicesDone(r)
      PROVE  (WholeShape /\ WholeInv)'
  <2>1. CASE accumulator[address[r]] = None
    BY <1>7, <1>8, <2>1 DEF AcceptServicesDone, Answer, Frame
  <2>2. CASE accumulator[address[r]] # None
    BY <1>8, <2>2, DeliveringStep
  <2> QED
    BY <2>1, <2>2
<1>9. ASSUME NEW r \in Calls, Silence(r)
      PROVE  (WholeShape /\ WholeInv)'
  BY <1>7, <1>9 DEF Silence
<1> QED
  BY <1>2, <1>4, <1>5, <1>6, <1>8, <1>9 DEF Device

LEMMA StepIsWhole ==
  IInv /\ WholeShape /\ WholeInv /\ [Next]_vars => (WholeShape /\ WholeInv)'
<1> SUFFICES ASSUME IInv, WholeShape, WholeInv, [Next]_vars PROVE (WholeShape /\ WholeInv)'
  OBVIOUS
<1>1. ASSUME NEW c \in Calls, Finally(c)
      PROVE  (WholeShape /\ WholeInv)'
  <2>1. /\ UNCHANGED <<call, request, inFlight, sent, services>>
        /\ accumulator' = [accumulator EXCEPT ![address[c]] = None]
    BY <1>1 DEF Finally
  <2>2. \A a \in Addresses : accumulator'[a] \in {accumulator[a], None}
    BY <2>1 DEF IInv, Shape
  <2> QED
    BY <2>1, <2>2, LosingStep DEF WholeShape, WholeInv, RequestsAreOnce
<1>2. CASE ClearConnectionState
  <2>1. /\ call' = [c \in Calls |-> IF call[c] = "pending" THEN "rejected" ELSE call[c]]
        /\ accumulator' = [a \in Addresses |-> None] /\ inFlight' = <<>>
        /\ UNCHANGED <<request, sent, services>>
    BY <1>2 DEF ClearConnectionState
  <2>2. \A d \in Calls : call'[d] = call[d] \/ Settles(d)
    BY <2>1 DEF Settles
  <2>3. inFlight' \in Seq(Calls) /\ IsInjective(inFlight') /\ Range(inFlight') = {}
    BY <2>1 DEF IsInjective, Range
  <2> QED
    BY <2>1, <2>2, <2>3, LosingStep
<1>3. CASE Attach \/ UNCHANGED vars
  <2>1. UNCHANGED <<call, request, accumulator, inFlight, sent, services>>
    BY <1>3 DEF Attach, vars
  <2> QED
    BY <2>1, LosingStep DEF WholeShape, WholeInv, RequestsAreOnce
<1> QED
  BY <1>1, <1>2, <1>3, ApplicationIsWhole, DeviceIsWhole DEF Next

\* getServices() returns every frame of services that the device sent for it, in order and
\* nothing else, unless a discovery of the same peripheral was given up, refused or cut off:
\* a connection that ends, requests that overtake each other and frames of other peripherals
\* take nothing away.
THEOREM DiscoveriesAreWhole == Spec => []ServicesAreWhole
<1>1. WholeInv => ServicesAreWhole
  BY DEF WholeInv, ResolvedAreWhole, ServicesAreWhole, Clean, Whole
<1> QED
  BY <1>1, InitHolds, StepKeeps, InitWhole, StepIsWhole, PTL DEF Spec
-----------------------------------------------------------------------------
(* The calls without a number. *)

LinkTypes == [n : 0..MaxLinks, stage : {"down", "opening", "up", "broken"}]
Told == [asked : Nat, link : Nat]
CallTypes == [stage : {"idle", "waiting", "answered", "gave up", "reset"},
              slot : Asking!Slots \cup {None}, asked : Nat, link : Nat, got : Told \cup {None},
              clean : BOOLEAN]
RequestTypes == [slot : Asking!Slots, asked : Nat]
AnswerTypes == [slot : Asking!Slots, asked : Nat, link : Nat, whole : BOOLEAN]

AskingShape ==
  /\ callLink \in LinkTypes
  /\ calls \in [Callers -> CallTypes]
  /\ \A c \in Callers : calls[c].stage # "idle" => calls[c].slot \in Asking!Slots
  /\ callOut \in Seq(RequestTypes) /\ callIn \in Seq(AnswerTypes)
  /\ cached \in Told \cup {None}
  /\ asked \in 0..MaxAsked /\ late \in SUBSET Asking!Slots

\* Of an instance one call waits, and on the connection it was made on.
WaitersAreAlone ==
  \A c \in Callers : calls[c].stage = "waiting" /\ calls[c].slot \in Asking!Correlated =>
    /\ calls[c].link = callLink.n
    /\ calls[c].clean => calls[c].slot \notin late
    /\ \A d \in Asking!Waiting(calls[c].slot) : d = c

\* Requests and answers keep the order of asking, the answers being ahead.
Older(s, t) == \A i \in 1..Len(s), j \in 1..Len(t) : s[i].asked < t[j].asked
Increasing(s) == \A i, j \in 1..Len(s) : i < j => s[i].asked < s[j].asked

FlightIsOrdered ==
  /\ Increasing(callOut) /\ Increasing(callIn) /\ Older(callIn, callOut)
  /\ \A i \in 1..Len(callOut) : callOut[i].asked <= asked
  /\ \A i \in 1..Len(callIn) : callIn[i].asked <= asked

\* Who waits for what is under way, unless somebody gave up waiting for the like of it.
Awaited ==
  {p \in Asking!Slots \X Nat : p[1] \in Asking!Correlated \ late =>
     \E c \in Asking!Waiting(p[1]) : calls[c].asked = p[2]}

FlightIsOwned ==
  /\ \A i \in 1..Len(callOut) : <<callOut[i].slot, callOut[i].asked>> \in Awaited
  /\ \A i \in 1..Len(callIn) : <<callIn[i].slot, callIn[i].asked>> \in Awaited
                               /\ callIn[i].link = callLink.n
  /\ callLink.stage # "up" => callOut = <<>>
  /\ callLink.stage \notin {"up", "broken"} => callIn = <<>>

AskingInv ==
  /\ AskingShape /\ WaitersAreAlone /\ FlightIsOrdered /\ FlightIsOwned
  /\ Asking!AnswersAreTheirOwn /\ Asking!CacheIsOfThisConnection

LEMMA SlotFacts ==
  /\ Asking!Correlated \subseteq Asking!Slots
  /\ Asking!Slots \ Asking!Correlated = Asking!Once
  /\ \A i \in Instances : <<"pins", i>> \in Asking!Correlated /\ <<"flush", i>> \in Asking!Correlated
  /\ <<"key", "default">> \in Asking!Correlated
  /\ <<"announce", "bus">> \in Asking!Once /\ <<"config", "bus">> \in Asking!Once
  /\ Asking!Once \subseteq Asking!Slots
<1>1. \A s \in Asking!Correlated : s # <<"announce", "bus">> /\ s # <<"config", "bus">>
  BY DEF Asking!Correlated
<1>2. \A i \in Instances : <<"pins", i>> \in Asking!Correlated /\ <<"flush", i>> \in Asking!Correlated
  BY DEF Asking!Correlated
<1> QED
  BY <1>1, <1>2 DEF Asking!Slots, Asking!Once, Asking!Correlated

LEMMA FlightTypes ==
  ASSUME AskingShape
  PROVE  /\ Len(callIn) \in Nat /\ Len(callOut) \in Nat
         /\ \A i \in 1..Len(callIn) : callIn[i] \in AnswerTypes /\ callIn[i].asked \in Nat
         /\ \A i \in 1..Len(callOut) : callOut[i] \in RequestTypes /\ callOut[i].asked \in Nat
<1>1. \A i \in 1..Len(callIn) : callIn[i] \in AnswerTypes
  BY DEF AskingShape
<1>2. \A i \in 1..Len(callOut) : callOut[i] \in RequestTypes
  BY DEF AskingShape
<1>3. (\A m \in AnswerTypes : m.asked \in Nat) /\ \A m \in RequestTypes : m.asked \in Nat
  BY DEF AnswerTypes, RequestTypes
<1>4. Len(callIn) \in Nat /\ Len(callOut) \in Nat
  BY DEF AskingShape
<1> QED
  BY <1>1, <1>2, <1>3, <1>4

LEMMA AskingStarts == Asking!Init => AskingInv
<1> SUFFICES ASSUME Asking!Init PROVE AskingInv
  OBVIOUS
<1>1. Asking!Idle \in CallTypes /\ Asking!Idle.stage = "idle"
  BY DEF Asking!Idle, CallTypes
<1>2. \A c \in Callers : calls[c] = Asking!Idle
  BY DEF Asking!Init
<1>3. AskingShape
  BY <1>1, <1>2, SubApisAssumption DEF Asking!Init, AskingShape, LinkTypes
<1>4. callIn = <<>> /\ callOut = <<>> /\ cached = None
  BY DEF Asking!Init
<1> QED
  BY <1>1, <1>2, <1>3, <1>4 DEF AskingInv, WaitersAreAlone, FlightIsOrdered, FlightIsOwned, Older,
     Increasing, Asking!AnswersAreTheirOwn, Asking!CacheIsOfThisConnection

\* A request that is sent is the last one under way, and the youngest.
LEMMA QuestionKeeps ==
  ASSUME AskingInv, NEW c \in Callers, NEW s \in Asking!Slots,
         s \in Asking!Correlated => Asking!Waiting(s) = {}, Asking!Ask(c, s)
  PROVE  AskingInv'
<1> DEFINE m == [slot |-> s, asked |-> asked + 1]
<1>0. AskingShape
  BY DEF AskingInv
<1>1. /\ calls[c].stage # "waiting" /\ asked < MaxAsked /\ asked' = asked + 1
      /\ callOut' = IF callLink.stage = "up" THEN Append(callOut, m) ELSE callOut
      /\ UNCHANGED <<callLink, callIn, cached, late>>
  BY DEF Asking!Ask, Asking!FrameAndSend
<1>2. asked \in Nat /\ asked' \in 0..MaxAsked /\ asked' \in Nat
  BY <1>0, <1>1, SubApisAssumption DEF AskingShape
<1> DEFINE new == [stage |-> "waiting", slot |-> s, asked |-> asked', link |-> callLink.n,
                   got |-> None, clean |-> s \notin late]
<1>3. calls' = [calls EXCEPT ![c] = new]
  BY DEF Asking!Ask
<1>4. new \in CallTypes
  <2>1. (s \notin late) \in BOOLEAN
    OBVIOUS
  <2>2. callLink.n \in Nat
    BY <1>0, SubApisAssumption DEF AskingShape, LinkTypes
  <2> QED
    BY <1>2, <2>1, <2>2 DEF CallTypes
<1>5. /\ new.stage = "waiting" /\ new.slot = s /\ new.asked = asked' /\ new.link = callLink.n
      /\ (new.clean => s \notin late)
  OBVIOUS
<1> HIDE DEF new
<1>6. /\ calls' \in [Callers -> CallTypes] /\ calls'[c] = new
      /\ \A d \in Callers : d # c => calls'[d] = calls[d]
  BY <1>0, <1>3, <1>4 DEF AskingShape
<1>7. m \in RequestTypes /\ m.slot = s /\ m.asked = asked'
  BY <1>1, <1>2 DEF RequestTypes
<1> HIDE DEF m
<1>8. AskingShape'
  <2>1. callOut' \in Seq(RequestTypes)
    BY <1>0, <1>1, <1>7 DEF AskingShape
  <2>2. \A d \in Callers : calls'[d].stage # "idle" => calls'[d].slot \in Asking!Slots
    BY <1>0, <1>5, <1>6 DEF AskingShape
  <2> QED
    BY <1>0, <1>1, <1>2, <1>6, <2>1, <2>2 DEF AskingShape
<1>9. WaitersAreAlone'
  BY <1>0, <1>1, <1>5, <1>6 DEF AskingInv, WaitersAreAlone, Asking!Waiting
<1>10. FlightIsOrdered'
  <2>1. \A i \in 1..Len(callIn) : callIn[i].asked \in Nat
    BY <1>0, FlightTypes
  <2>2. \A i \in 1..Len(callOut) : callOut[i].asked \in Nat
    BY <1>0, FlightTypes
  <2>3. CASE callLink.stage = "up"
    <3>1. callOut' = Append(callOut, m) /\ Len(callOut') = Len(callOut) + 1 /\ Len(callOut) \in Nat
      BY <1>0, <1>1, <2>3 DEF AskingShape
    <3>2. \A i \in 1..Len(callOut') : callOut'[i] = IF i <= Len(callOut) THEN callOut[i] ELSE m
      BY <1>0, <3>1 DEF AskingShape
    <3> QED
      BY <1>1, <1>2, <1>7, <2>1, <2>2, <3>1, <3>2 DEF AskingInv, FlightIsOrdered, Older, Increasing
  <2>4. CASE callLink.stage # "up"
    <3>1. callOut' = callOut /\ callIn' = callIn
      BY <1>1, <2>4
    <3>2. Increasing(callOut)' /\ Increasing(callIn)' /\ Older(callIn, callOut)'
      BY <3>1 DEF AskingInv, FlightIsOrdered, Increasing, Older
    <3>3. \A i \in 1..Len(callOut) : callOut[i].asked <= asked'
      BY <1>1, <1>2, <2>2 DEF AskingInv, FlightIsOrdered
    <3>4. \A i \in 1..Len(callIn) : callIn[i].asked <= asked'
      BY <1>1, <1>2, <2>1 DEF AskingInv, FlightIsOrdered
    <3> QED
      BY <3>1, <3>2, <3>3, <3>4 DEF FlightIsOrdered
  <2> QED
    BY <2>3, <2>4
<1>11. FlightIsOwned'
  <2>1. Awaited \subseteq Awaited'
    BY <1>1, <1>6 DEF Awaited, Asking!Waiting
  <2>2. <<m.slot, m.asked>> \in Awaited'
    <3>1. c \in Asking!Waiting(s)' /\ calls'[c].asked = asked'
      BY <1>5, <1>6 DEF Asking!Waiting
    <3> QED
      BY <1>2, <1>7, <3>1 DEF Awaited
  <2> HIDE DEF Awaited
  <2>3. \A i \in 1..Len(callOut') : <<callOut'[i].slot, callOut'[i].asked>> \in Awaited'
    <3>1. CASE callLink.stage = "up"
      <4>1. callOut' = Append(callOut, m) /\ Len(callOut') = Len(callOut) + 1 /\ Len(callOut) \in Nat
        BY <1>0, <1>1, <3>1 DEF AskingShape
      <4>2. \A i \in 1..Len(callOut') : callOut'[i] = IF i <= Len(callOut) THEN callOut[i] ELSE m
        BY <1>0, <4>1 DEF AskingShape
      <4> QED
        BY <2>1, <2>2, <4>1, <4>2 DEF AskingInv, FlightIsOwned
    <3>2. CASE callLink.stage # "up"
      BY <1>1, <2>1, <3>2 DEF AskingInv, FlightIsOwned
    <3> QED
      BY <3>1, <3>2
  <2> QED
    BY <1>1, <2>1, <2>3 DEF AskingInv, FlightIsOwned
<1>12. Asking!AnswersAreTheirOwn'
  BY <1>5, <1>6 DEF AskingInv, Asking!AnswersAreTheirOwn
<1>13. Asking!CacheIsOfThisConnection'
  BY <1>1 DEF AskingInv, Asking!CacheIsOfThisConnection
<1> QED
  BY <1>8, <1>9, <1>10, <1>11, <1>12, <1>13 DEF AskingInv

\* One call gives up waiting for its answer, which may come yet.
LEMMA GiveUpKeeps ==
  ASSUME AskingInv, NEW c \in Callers, Asking!GivesUp(c)
  PROVE  AskingInv'
<1>0. AskingShape
  BY DEF AskingInv
<1> DEFINE new == [calls[c] EXCEPT !.stage = "gave up"]
<1>1. /\ calls[c].stage = "waiting" /\ calls' = [calls EXCEPT ![c] = new]
      /\ late' = late \cup {calls[c].slot}
      /\ UNCHANGED <<callLink, callOut, callIn, cached, asked>>
  BY DEF Asking!GivesUp
<1>2. /\ new \in CallTypes /\ new.stage = "gave up" /\ new.slot = calls[c].slot
  BY <1>0 DEF AskingShape, CallTypes
<1>3. calls[c].slot \in Asking!Slots
  BY <1>0, <1>1 DEF AskingShape
<1> HIDE DEF new
<1>4. /\ calls' \in [Callers -> CallTypes] /\ calls'[c] = new
      /\ \A d \in Callers : d # c => calls'[d] = calls[d]
  BY <1>0, <1>1, <1>2 DEF AskingShape
<1>5. AskingShape'
  BY <1>0, <1>1, <1>2, <1>3, <1>4 DEF AskingShape
<1>6. WaitersAreAlone'
  BY <1>1, <1>2, <1>4 DEF AskingInv, WaitersAreAlone, Asking!Waiting
<1>7. FlightIsOrdered'
  BY <1>1 DEF AskingInv, FlightIsOrdered, Older, Increasing
<1>8. Awaited \subseteq Awaited'
  BY <1>1, <1>2, <1>4 DEF Awaited, Asking!Waiting
<1>9. FlightIsOwned'
  <2> HIDE DEF Awaited
  <2> QED
    BY <1>1, <1>8 DEF AskingInv, FlightIsOwned
<1>10. Asking!AnswersAreTheirOwn' /\ Asking!CacheIsOfThisConnection'
  BY <1>1, <1>2, <1>4 DEF AskingInv, Asking!AnswersAreTheirOwn, Asking!CacheIsOfThisConnection
<1> QED
  BY <1>5, <1>6, <1>7, <1>9, <1>10 DEF AskingInv

\* The device takes the oldest request, and its answer is the youngest.
LEMMA AnswerKeeps ==
  ASSUME AskingInv, Asking!DeviceAnswers
  PROVE  AskingInv'
<1>0. /\ AskingShape /\ Len(callIn) \in Nat /\ Len(callOut) \in Nat
      /\ \A i \in 1..Len(callIn) : callIn[i] \in AnswerTypes /\ callIn[i].asked \in Nat
      /\ \A i \in 1..Len(callOut) : callOut[i] \in RequestTypes /\ callOut[i].asked \in Nat
  BY FlightTypes DEF AskingInv
<1>1. /\ callOut # <<>> /\ callLink.stage = "up" /\ callOut' = Tail(callOut)
      /\ UNCHANGED <<callLink, calls, cached, asked, late>>
  BY DEF Asking!DeviceAnswers
<1>2. /\ callOut' \in Seq(RequestTypes) /\ Len(callOut') = Len(callOut) - 1
      /\ \A i \in 1..Len(callOut') : i + 1 \in 1..Len(callOut) /\ callOut'[i] = callOut[i + 1]
      /\ 1 \in 1..Len(callOut) /\ Head(callOut) = callOut[1]
  BY <1>0, <1>1 DEF AskingShape
<1>3. callIn' = callIn \/ \E m \in AnswerTypes :
        /\ callIn' = Append(callIn, m)
        /\ m.slot = callOut[1].slot /\ m.asked = callOut[1].asked /\ m.link = callLink.n
  <2>1. ASSUME NEW whole \in BOOLEAN
        PROVE  LET m == [slot |-> callOut[1].slot, asked |-> callOut[1].asked,
                         link |-> callLink.n, whole |-> whole]
               IN  /\ m \in AnswerTypes /\ m.slot = callOut[1].slot
                   /\ m.asked = callOut[1].asked /\ m.link = callLink.n
    <3>1. callOut[1].slot \in Asking!Slots /\ callOut[1].asked \in Nat
      BY <1>0, <1>2 DEF RequestTypes
    <3>2. callLink.n \in Nat
      BY <1>0, SubApisAssumption DEF AskingShape, LinkTypes
    <3> QED
      BY <3>1, <3>2 DEF AnswerTypes
  <2> QED
    BY <1>2, <2>1 DEF Asking!DeviceAnswers
<1>4. /\ callIn' \in Seq(AnswerTypes) /\ Len(callIn') \in Nat
      /\ \A i \in 1..Len(callIn') :
           \/ i \in 1..Len(callIn) /\ callIn'[i] = callIn[i]
           \/ /\ i = Len(callIn) + 1 /\ i = Len(callIn')
              /\ callIn'[i].slot = callOut[1].slot /\ callIn'[i].asked = callOut[1].asked
              /\ callIn'[i].link = callLink.n
  <2>1. CASE callIn' = callIn
    BY <1>0, <2>1 DEF AskingShape
  <2>2. CASE callIn' # callIn
    <3>1. PICK m \in AnswerTypes :
            /\ callIn' = Append(callIn, m)
            /\ m.slot = callOut[1].slot /\ m.asked = callOut[1].asked /\ m.link = callLink.n
      BY <1>3, <2>2
    <3>2. callIn \in Seq(AnswerTypes)
      BY <1>0 DEF AskingShape
    <3>3. /\ callIn' \in Seq(AnswerTypes) /\ Len(callIn') = Len(callIn) + 1
          /\ \A i \in 1..Len(callIn') : callIn'[i] = IF i <= Len(callIn) THEN callIn[i] ELSE m
      BY <3>1, <3>2
    <3> QED
      BY <1>0, <3>1, <3>3
  <2> QED
    BY <2>1, <2>2
<1>5. AskingShape'
  BY <1>0, <1>1, <1>2, <1>4 DEF AskingShape
<1>6. WaitersAreAlone'
  BY <1>1 DEF AskingInv, WaitersAreAlone, Asking!Waiting
<1>7. FlightIsOrdered'
  <2>1. Increasing(callOut)'
    BY <1>0, <1>2 DEF AskingInv, FlightIsOrdered, Increasing
  <2>0. /\ \A i, j \in 1..Len(callIn) : i < j => callIn[i].asked < callIn[j].asked
        /\ \A i, j \in 1..Len(callOut) : i < j => callOut[i].asked < callOut[j].asked
        /\ \A i \in 1..Len(callIn), j \in 1..Len(callOut) : callIn[i].asked < callOut[j].asked
    BY DEF AskingInv, FlightIsOrdered, Increasing, Older
  <2>2. Increasing(callIn)'
    <3> SUFFICES ASSUME NEW i \in 1..Len(callIn'), NEW j \in 1..Len(callIn'), i < j
                 PROVE  callIn'[i].asked < callIn'[j].asked
      BY DEF Increasing
    <3>1. i \in 1..Len(callIn) /\ callIn'[i] = callIn[i]
      BY <1>0, <1>4
    <3>2. \/ j \in 1..Len(callIn) /\ callIn'[j] = callIn[j]
          \/ callIn'[j].asked = callOut[1].asked
      BY <1>4
    <3> QED
      BY <1>2, <2>0, <3>1, <3>2
  <2>3. Older(callIn, callOut)'
    <3> SUFFICES ASSUME NEW i \in 1..Len(callIn'), NEW j \in 1..Len(callOut')
                 PROVE  callIn'[i].asked < callOut'[j].asked
      BY DEF Older
    <3>1. j + 1 \in 1..Len(callOut) /\ callOut'[j] = callOut[j + 1] /\ 1 < j + 1
      BY <1>0, <1>2
    <3>2. \/ i \in 1..Len(callIn) /\ callIn'[i] = callIn[i]
          \/ callIn'[i].asked = callOut[1].asked
      BY <1>4
    <3> QED
      BY <1>2, <2>0, <3>1, <3>2
  <2> QED
    BY <1>0, <1>1, <1>2, <1>4, <2>1, <2>2, <2>3 DEF AskingInv, FlightIsOrdered
<1>8. Awaited' = Awaited
  BY <1>1 DEF Awaited, Asking!Waiting
<1>9. FlightIsOwned'
  <2> HIDE DEF Awaited
  <2> QED
    BY <1>0, <1>1, <1>2, <1>4, <1>8 DEF AskingInv, FlightIsOwned
<1>10. Asking!AnswersAreTheirOwn' /\ Asking!CacheIsOfThisConnection'
  BY <1>1 DEF AskingInv, Asking!AnswersAreTheirOwn, Asking!CacheIsOfThisConnection
<1> QED
  BY <1>5, <1>6, <1>7, <1>9, <1>10 DEF AskingInv

\* The oldest answer is taken: it settles all who wait for the like of it, or none.
LEMMA TakingKeeps ==
  ASSUME AskingInv, callIn # <<>>, callIn' = Tail(callIn),
         NEW S \in SUBSET Asking!Waiting(Head(callIn).slot),
         calls' = [c \in Callers |-> IF c \in S THEN Asking!Answered(c, Head(callIn)) ELSE calls[c]],
         cached' \in {cached, [asked |-> Head(callIn).asked, link |-> Head(callIn).link]},
         UNCHANGED <<callLink, callOut, asked, late>>
  PROVE  AskingInv'
<1> DEFINE m == Head(callIn)
<1>0. /\ AskingShape /\ Len(callIn) \in Nat /\ Len(callOut) \in Nat
      /\ \A i \in 1..Len(callIn) : callIn[i] \in AnswerTypes /\ callIn[i].asked \in Nat
      /\ \A i \in 1..Len(callOut) : callOut[i] \in RequestTypes /\ callOut[i].asked \in Nat
  BY FlightTypes DEF AskingInv
<1>1. /\ callIn' \in Seq(AnswerTypes) /\ Len(callIn') = Len(callIn) - 1
      /\ \A i \in 1..Len(callIn') : i + 1 \in 1..Len(callIn) /\ callIn'[i] = callIn[i + 1]
      /\ 1 \in 1..Len(callIn) /\ m = callIn[1]
  BY <1>0 DEF AskingShape
<1>2. /\ m \in AnswerTypes /\ m.asked \in Nat /\ m.slot \in Asking!Slots /\ m.link \in Nat
      /\ <<m.slot, m.asked>> \in Awaited /\ m.link = callLink.n
      /\ callLink.stage \in {"up", "broken"}
  BY <1>0, <1>1 DEF AnswerTypes, AskingInv, FlightIsOwned
<1>3. \A c \in Callers : calls'[c] = calls[c] \/
        /\ c \in Asking!Waiting(m.slot)
        /\ calls'[c] = [calls[c] EXCEPT !.stage = "answered", !.got = [asked |-> m.asked, link |-> m.link]]
  BY DEF Asking!Answered
<1> HIDE DEF m
<1>4. [asked |-> m.asked, link |-> m.link] \in Told
  BY <1>2 DEF Told
<1>5. /\ calls' \in [Callers -> CallTypes]
      /\ \A c \in Callers : calls'[c] = calls[c] \/
           /\ c \in Asking!Waiting(m.slot) /\ calls'[c].stage = "answered"
           /\ calls'[c].slot = m.slot /\ calls'[c].link = calls[c].link
           /\ calls'[c].asked = calls[c].asked /\ calls'[c].clean = calls[c].clean
           /\ calls'[c].got.asked = m.asked /\ calls'[c].got.link = m.link
  <2>1. ASSUME NEW c \in Callers, c \in Asking!Waiting(m.slot),
               calls'[c] = [calls[c] EXCEPT !.stage = "answered", !.got = [asked |-> m.asked, link |-> m.link]]
        PROVE  /\ calls'[c] \in CallTypes
               /\ calls'[c].stage = "answered"
               /\ calls'[c].slot = m.slot /\ calls'[c].link = calls[c].link
               /\ calls'[c].asked = calls[c].asked /\ calls'[c].clean = calls[c].clean
               /\ calls'[c].got.asked = m.asked /\ calls'[c].got.link = m.link
    <3>1. calls[c] \in CallTypes /\ calls[c].slot = m.slot
      BY <1>0, <2>1 DEF AskingShape, Asking!Waiting
    <3> DEFINE r == calls[c]
               t == [asked |-> m.asked, link |-> m.link]
               u == [r EXCEPT !.stage = "answered", !.got = t]
    <3>2. r \in CallTypes /\ t \in Told /\ t.asked = m.asked /\ t.link = m.link
      BY <1>4, <3>1
    <3>3. calls'[c] = u
      BY <2>1
    <3> HIDE DEF r, t
    <3>4. /\ u \in CallTypes /\ u.stage = "answered" /\ u.slot = r.slot /\ u.link = r.link
          /\ u.asked = r.asked /\ u.clean = r.clean /\ u.got = t
      BY <3>2 DEF CallTypes
    <3> QED
      BY <3>1, <3>2, <3>3, <3>4 DEF r
  <2>2. \A c \in Callers : calls'[c] \in CallTypes
    BY <1>0, <1>3, <2>1 DEF AskingShape
  <2>3. calls' = [c \in Callers |-> calls'[c]]
    OBVIOUS
  <2> QED
    BY <1>3, <2>1, <2>2, <2>3
<1>6. \A s \in Asking!Slots : Asking!Waiting(s)' \subseteq Asking!Waiting(s)
  BY <1>5 DEF Asking!Waiting
<1>7. AskingShape'
  <2>1. \A c \in Callers : calls'[c].stage # "idle" => calls'[c].slot \in Asking!Slots
    BY <1>0, <1>2, <1>5 DEF AskingShape
  <2>2. cached' \in Told \cup {None}
    BY <1>0, <1>4 DEF AskingShape, m
  <2> QED
    BY <1>0, <1>1, <1>5, <2>1, <2>2 DEF AskingShape
<1>8. WaitersAreAlone'
  <2> SUFFICES ASSUME NEW c \in Callers, calls'[c].stage = "waiting",
                      calls'[c].slot \in Asking!Correlated
               PROVE  /\ calls'[c].link = callLink.n
                      /\ calls'[c].clean => calls'[c].slot \notin late
                      /\ \A d \in Callers : calls'[d].stage = "waiting" /\ calls'[d].slot = calls'[c].slot => d = c
    BY DEF WaitersAreAlone, Asking!Waiting
  <2>1. \A d \in Callers : calls'[d].stage = "waiting" => calls'[d] = calls[d]
    BY <1>5
  <2> QED
    BY <2>1 DEF AskingInv, WaitersAreAlone, Asking!Waiting
<1>9. FlightIsOrdered'
  <2>1. Increasing(callIn)'
    BY <1>0, <1>1 DEF AskingInv, FlightIsOrdered, Increasing
  <2>2. Older(callIn, callOut)'
    BY <1>0, <1>1 DEF AskingInv, FlightIsOrdered, Older
  <2> QED
    BY <1>0, <1>1, <2>1, <2>2 DEF AskingInv, FlightIsOrdered, Increasing
<1>10. \A p \in Awaited : p[2] \in Nat /\ p[2] > m.asked => p \in Awaited'
  <2> SUFFICES ASSUME NEW p \in Awaited, p[2] > m.asked, p[1] \in Asking!Correlated \ late
               PROVE  \E c \in Asking!Waiting(p[1])' : calls'[c].asked = p[2]
    BY DEF Awaited
  <2>1. PICK c \in Asking!Waiting(p[1]) : calls[c].asked = p[2]
    BY DEF Awaited
  <2>2. c \in Callers /\ calls[c].stage = "waiting" /\ calls[c].slot = p[1]
    BY <2>1 DEF Asking!Waiting
  <2>3. CASE p[1] # m.slot
    <3>1. calls'[c] = calls[c]
      BY <1>5, <2>2, <2>3 DEF Asking!Waiting
    <3> QED
      BY <2>1, <2>2, <3>1 DEF Asking!Waiting
  <2>4. CASE p[1] = m.slot
    <3>1. PICK d \in Asking!Waiting(m.slot) : calls[d].asked = m.asked
      BY <1>2, <2>4 DEF Awaited
    <3>2. d = c
      BY <2>2, <2>4, <3>1 DEF AskingInv, WaitersAreAlone
    <3> QED
      BY <1>2, <2>1, <3>1, <3>2
  <2> QED
    BY <2>3, <2>4
<1>11. FlightIsOwned'
  <2>1. \A i \in 1..Len(callOut) : callOut[i].asked > m.asked
    BY <1>0, <1>1 DEF AskingInv, FlightIsOrdered, Older
  <2>2. \A i \in 1..Len(callIn') : callIn'[i].asked > m.asked
    BY <1>0, <1>1 DEF AskingInv, FlightIsOrdered, Increasing
  <2>3. \A i \in 1..Len(callOut) : <<callOut[i].slot, callOut[i].asked>> \in Awaited'
    BY <1>0, <1>10, <2>1 DEF AskingInv, FlightIsOwned
  <2>4. \A i \in 1..Len(callIn') : <<callIn'[i].slot, callIn'[i].asked>> \in Awaited'
                                   /\ callIn'[i].link = callLink.n
    BY <1>0, <1>1, <1>10, <2>2 DEF AskingInv, FlightIsOwned
  <2> HIDE DEF Awaited
  <2> QED
    BY <1>2, <2>3, <2>4 DEF AskingInv, FlightIsOwned
<1>12. Asking!AnswersAreTheirOwn'
  <2> SUFFICES ASSUME NEW c \in Callers, calls'[c].stage = "answered",
                      calls'[c].slot \in Asking!Correlated, calls'[c] # calls[c]
               PROVE  /\ calls'[c].got.link = calls'[c].link
                      /\ calls'[c].clean => calls'[c].got.asked = calls'[c].asked
    BY DEF AskingInv, Asking!AnswersAreTheirOwn
  <2>1. /\ c \in Asking!Waiting(m.slot) /\ calls'[c].slot = m.slot
        /\ calls[c].stage = "waiting" /\ calls[c].slot = m.slot
    BY <1>5 DEF Asking!Waiting
  <2>2. calls'[c].got.link = calls'[c].link
    BY <1>2, <1>5, <2>1 DEF AskingInv, WaitersAreAlone
  <2>3. ASSUME calls'[c].clean PROVE calls'[c].got.asked = calls'[c].asked
    <3>1. m.slot \notin late
      BY <1>5, <2>1, <2>3 DEF AskingInv, WaitersAreAlone
    <3>2. PICK d \in Asking!Waiting(m.slot) : calls[d].asked = m.asked
      BY <1>2, <2>1, <3>1 DEF Awaited
    <3>3. d = c
      BY <2>1, <3>2 DEF AskingInv, WaitersAreAlone
    <3> QED
      BY <1>5, <3>2, <3>3
  <2> QED
    BY <2>2, <2>3
<1>13. Asking!CacheIsOfThisConnection'
  BY <1>2 DEF AskingInv, Asking!CacheIsOfThisConnection, m
<1> QED
  BY <1>7, <1>8, <1>9, <1>11, <1>12, <1>13 DEF AskingInv

LEMMA AcceptKeeps == AskingInv /\ Asking!Accept => AskingInv'
<1> SUFFICES ASSUME AskingInv, Asking!Accept PROVE AskingInv'
  OBVIOUS
<1> DEFINE m == Head(callIn)
           W == Asking!Waiting(m.slot)
<1>1. callIn # <<>> /\ callIn' = Tail(callIn) /\ UNCHANGED <<callLink, callOut, asked, late>>
  BY DEF Asking!Accept
<1>2. CASE Asking!AcceptCorrelated(m)
  <2> DEFINE S == IF m.whole \/ m.slot[1] = "key" THEN W ELSE {}
  <2>1. /\ calls' = [c \in Callers |-> IF c \in S THEN Asking!Answered(c, m) ELSE calls[c]]
        /\ cached' = cached
    BY <1>2 DEF Asking!AcceptCorrelated
  <2>2. S \in SUBSET W
    OBVIOUS
  <2> HIDE DEF S
  <2> QED
    BY <1>1, <2>1, <2>2, TakingKeeps
<1>3. CASE Asking!AcceptEvent(m)
  <2>1. /\ calls' = [c \in Callers |-> IF c \in W THEN Asking!Answered(c, m) ELSE calls[c]]
        /\ cached' \in {cached, [asked |-> m.asked, link |-> m.link]}
    BY <1>3 DEF Asking!AcceptEvent
  <2>2. W \in SUBSET W
    OBVIOUS
  <2> QED
    BY <1>1, <2>1, <2>2, TakingKeeps
<1> QED
  BY <1>2, <1>3 DEF Asking!Accept

\* At both ends of a connection nobody is left to wait in a Correlator, and nothing is under way.
LEMMA ClearKeeps ==
  ASSUME AskingInv, Asking!ClearConnectionState, callLink' \in LinkTypes, asked' = asked
  PROVE  AskingInv'
<1>0. AskingShape
  BY DEF AskingInv
<1>1. /\ cached' = None /\ callOut' = <<>> /\ callIn' = <<>> /\ late' = {}
      /\ calls' = [c \in Callers |-> IF calls[c].stage = "waiting" /\ calls[c].slot \in Asking!Correlated
                                     THEN [calls[c] EXCEPT !.stage = "reset"] ELSE calls[c]]
  BY DEF Asking!ClearConnectionState
<1>2. /\ calls' \in [Callers -> CallTypes]
      /\ \A c \in Callers : /\ calls'[c].slot = calls[c].slot
                            /\ calls'[c].stage = "waiting" => calls[c].slot \notin Asking!Correlated
                            /\ \/ calls'[c] = calls[c]
                               \/ calls[c].stage = "waiting" /\ calls'[c].stage = "reset"
  <2>1. \A r \in CallTypes : LET u == [r EXCEPT !.stage = "reset"]
                             IN  u \in CallTypes /\ u.slot = r.slot /\ u.stage = "reset"
    BY DEF CallTypes
  <2>2. \A c \in Callers : calls[c] \in CallTypes
    BY <1>0 DEF AskingShape
  <2> QED
    BY <1>1, <2>1, <2>2
<1>3. AskingShape'
  BY <1>0, <1>1, <1>2 DEF AskingShape
<1>4. WaitersAreAlone'
  BY <1>2 DEF WaitersAreAlone
<1>5. FlightIsOrdered' /\ FlightIsOwned'
  BY <1>1 DEF FlightIsOrdered, FlightIsOwned, Increasing, Older
<1>6. Asking!AnswersAreTheirOwn' /\ Asking!CacheIsOfThisConnection'
  BY <1>1, <1>2 DEF AskingInv, Asking!AnswersAreTheirOwn, Asking!CacheIsOfThisConnection
<1> QED
  BY <1>3, <1>4, <1>5, <1>6 DEF AskingInv

LEMMA CallsStep == AskingInv /\ [Asking!Next]_callVars => AskingInv'
<1> SUFFICES ASSUME AskingInv, [Asking!Next]_callVars PROVE AskingInv'
  OBVIOUS
<1>0. AskingShape
  BY DEF AskingInv
<1>1. ASSUME NEW c \in Callers, NEW i \in Instances, Asking!GetModemPins(c, i) \/ Asking!Flush(c, i)
      PROVE  AskingInv'
  BY <1>1, QuestionKeeps, SlotFacts DEF Asking!GetModemPins, Asking!Flush
<1>2. ASSUME NEW c \in Callers, Asking!SetNoiseEncryptionKey(c) \/ Asking!Announce(c)
      PROVE  AskingInv'
  <2>1. <<"announce", "bus">> \notin Asking!Correlated
    BY SlotFacts
  <2> QED
    BY <1>2, <2>1, QuestionKeeps, SlotFacts DEF Asking!SetNoiseEncryptionKey, Asking!Announce
<1>3. ASSUME NEW c \in Callers, Asking!GivesUp(c) PROVE AskingInv'
  BY <1>3, GiveUpKeeps
<1>4. ASSUME NEW c \in Callers, NEW refresh \in BOOLEAN, Asking!Configuration(c, refresh)
      PROVE  AskingInv'
  <2>0. <<"config", "bus">> \in Asking!Slots /\ <<"config", "bus">> \notin Asking!Correlated
    BY SlotFacts
  <2>1. CASE Asking!Ask(c, <<"config", "bus">>)
    BY <2>0, <2>1, QuestionKeeps
  <2>2. CASE ~Asking!Ask(c, <<"config", "bus">>)
    <3> DEFINE new == [Asking!Idle EXCEPT !.stage = "answered", !.slot = <<"config", "bus">>,
                                          !.asked = asked, !.link = callLink.n, !.got = cached]
    <3>1. /\ calls[c].stage # "waiting" /\ cached # None /\ calls' = [calls EXCEPT ![c] = new]
          /\ UNCHANGED <<callLink, callOut, callIn, cached, asked, late>>
      BY <1>4, <2>2 DEF Asking!Configuration
    <3>2. asked \in Nat /\ callLink.n \in Nat /\ cached \in Told \cup {None}
      BY <1>0, SubApisAssumption DEF AskingShape, LinkTypes
    <3>3. new \in CallTypes /\ new.stage = "answered" /\ new.slot = <<"config", "bus">>
      BY <2>0, <3>2 DEF Asking!Idle, CallTypes
    <3> HIDE DEF new
    <3>4. /\ calls' \in [Callers -> CallTypes] /\ calls'[c] = new
          /\ \A d \in Callers : d # c => calls'[d] = calls[d]
      BY <1>0, <3>1, <3>3 DEF AskingShape
    <3>5. AskingShape'
      BY <1>0, <2>0, <3>1, <3>3, <3>4 DEF AskingShape
    <3>6. WaitersAreAlone'
      BY <3>1, <3>3, <3>4 DEF AskingInv, WaitersAreAlone, Asking!Waiting
    <3>7. FlightIsOrdered'
      BY <3>1 DEF AskingInv, FlightIsOrdered, Increasing, Older
    <3>8. Awaited \subseteq Awaited'
      BY <3>1, <3>3, <3>4 DEF Awaited, Asking!Waiting
    <3>9. FlightIsOwned'
      <4> HIDE DEF Awaited
      <4> QED
        BY <3>1, <3>8 DEF AskingInv, FlightIsOwned
    <3>10. Asking!AnswersAreTheirOwn' /\ Asking!CacheIsOfThisConnection'
      BY <2>0, <3>1, <3>3, <3>4 DEF AskingInv, Asking!AnswersAreTheirOwn, Asking!CacheIsOfThisConnection
    <3> QED
      BY <3>5, <3>6, <3>7, <3>9, <3>10 DEF AskingInv
  <2> QED
    BY <2>1, <2>2
<1>5. CASE Asking!DeviceAnswers
  BY <1>5, AnswerKeeps
<1>6. CASE Asking!Accept
  BY <1>6, AcceptKeeps
<1>7. CASE Asking!Opens
  <2>1. callLink' \in LinkTypes
    BY <1>0, <1>7, SubApisAssumption DEF AskingShape, LinkTypes, Asking!Opens
  <2> QED
    BY <1>7, <2>1, ClearKeeps DEF Asking!Opens
<1>8. CASE Asking!Closes
  <2>1. callLink' \in LinkTypes
    BY <1>0, <1>8 DEF AskingShape, LinkTypes, Asking!Closes
  <2> QED
    BY <1>8, <2>1, ClearKeeps DEF Asking!Closes
<1>9. CASE Asking!Established \/ Asking!Breaks \/ UNCHANGED callVars
  <2>1. /\ callLink' \in LinkTypes /\ callLink'.n = callLink.n
        /\ \/ callLink'.stage = callLink.stage
           \/ callLink'.stage = "up" /\ callLink.stage = "opening"
           \/ callLink'.stage = "broken" /\ callLink.stage = "up" /\ callOut' = <<>>
        /\ callOut' \in {callOut, <<>>}
        /\ UNCHANGED <<calls, callIn, cached, asked, late>>
    <3>1. callLink \in LinkTypes
      BY <1>0 DEF AskingShape
    <3>2. CASE Asking!Established
      BY <3>1, <3>2 DEF LinkTypes, Asking!Established
    <3>3. CASE Asking!Breaks
      BY <3>1, <3>3 DEF LinkTypes, Asking!Breaks
    <3>4. CASE UNCHANGED callVars
      BY <3>1, <3>4 DEF callVars
    <3> QED
      BY <1>9, <3>2, <3>3, <3>4
  <2>2. AskingShape'
    <3>0. AskingShape
      BY <1>0
    <3>1. callOut' \in Seq(RequestTypes)
      <4>1. callOut \in Seq(RequestTypes) /\ <<>> \in Seq(RequestTypes)
        BY <1>0 DEF AskingShape
      <4>2. callOut' = callOut \/ callOut' = <<>>
        BY <2>1
      <4> QED
        BY <4>1, <4>2, Zenon
    <3>2. callLink' \in LinkTypes /\ UNCHANGED <<calls, callIn, cached, asked, late>>
      BY <2>1
    <3> QED
      BY ONLY <3>0, <3>1, <3>2 DEF AskingShape
  <2>3. WaitersAreAlone'
    BY <2>1 DEF AskingInv, WaitersAreAlone, Asking!Waiting
  <2>4. FlightIsOrdered'
    BY <2>1 DEF AskingInv, FlightIsOrdered, Increasing, Older
  <2>5. Awaited' = Awaited
    BY <2>1 DEF Awaited, Asking!Waiting
  <2>6. FlightIsOwned'
    <3> HIDE DEF Awaited
    <3> QED
      BY <2>1, <2>5 DEF AskingInv, FlightIsOwned
  <2>7. Asking!AnswersAreTheirOwn' /\ Asking!CacheIsOfThisConnection'
    BY <2>1 DEF AskingInv, Asking!AnswersAreTheirOwn, Asking!CacheIsOfThisConnection
  <2> QED
    BY <2>2, <2>3, <2>4, <2>6, <2>7 DEF AskingInv
<1> QED
  BY <1>1, <1>2, <1>3, <1>4, <1>5, <1>6, <1>7, <1>8, <1>9 DEF Asking!Next

LEMMA AskingIsRight ==
  AskingInv => /\ Asking!TypeOK /\ Asking!AnswersAreTheirOwn
               /\ Asking!NoCallOutlivesItsConnection /\ Asking!CacheIsOfThisConnection
<1> SUFFICES ASSUME AskingInv PROVE Asking!TypeOK /\ Asking!NoCallOutlivesItsConnection
  BY DEF AskingInv
<1>1. Asking!NoCallOutlivesItsConnection
  BY DEF AskingInv, WaitersAreAlone, Asking!NoCallOutlivesItsConnection
<1>2. ASSUME NEW s \in Asking!Correlated PROVE Asking!Cardinality(Asking!Waiting(s)) <= 1
  <2>1. \A c, d \in Asking!Waiting(s) : c = d
    BY <1>2 DEF AskingInv, WaitersAreAlone, Asking!Waiting
  <2>2. Asking!Waiting(s) = {} \/ \E c : Asking!Waiting(s) = {c}
    BY <2>1
  <2>3. Cardinality(Asking!Waiting(s)) \in {0, 1}
    <3>1. Cardinality({}) = 0 /\ \A c : Cardinality({c}) = 1
      BY FS_EmptySet, FS_Singleton
    <3> QED
      BY <2>2, <3>1
  <2>4. Asking!Cardinality(Asking!Waiting(s)) = Cardinality(Asking!Waiting(s))
    BY DEF Asking!Cardinality, Cardinality, Asking!IsFiniteSet, IsFiniteSet
  <2> QED
    BY <2>3, <2>4
<1>3. Asking!TypeOK
  BY <1>2 DEF AskingInv, AskingShape, LinkTypes, CallTypes, Asking!TypeOK
<1> QED
  BY <1>1, <1>3

-----------------------------------------------------------------------------
(* The subscriptions. *)

Streams == Channels \cup Intents
FrameTypes == [on : Streams, is : 0..2]
ReaderTypes == [stage : {"none", "fresh", "reading", "lost"}, channel : Channels, since : 0..MaxLinks]
DeviceTypes == [sends : [Streams -> 0..2], home : HomeIds, changes : Nat]
HomeTypes == [info : HomeIds, observed : HomeIds \cup {None}, created : BOOLEAN]

StreamingShape ==
  /\ subLink \in LinkTypes /\ (subLink.stage # "down" => subLink.n # 0)
  /\ readers \in [Readers -> ReaderTypes]
  /\ cache \in [Channels -> BOOLEAN] /\ desired \in [Intents -> 0..2]
  /\ subOut \in Seq(FrameTypes) /\ subIn \in Seq(HomeIds)
  /\ device \in DeviceTypes /\ home \in HomeTypes /\ missed \in BOOLEAN

\* What the device will have been told last, once it has read what is under way.
LastWords ==
  {p \in Streams \X (0..2) :
     \/ \E i \in 1..Len(subOut) :
          /\ subOut[i].on = p[1] /\ subOut[i].is = p[2]
          /\ \A j \in 1..Len(subOut) : j > i => subOut[j].on # p[1]
     \/ /\ \A i \in 1..Len(subOut) : subOut[i].on # p[1]
        /\ device.sends[p[1]] = p[2]}

Held(c) == \E r \in Readers : readers[r].stage # "none" /\ readers[r].channel = c
HeldSince(c, n) == \E r \in Readers : /\ readers[r].stage # "none" /\ readers[r].channel = c
                                      /\ readers[r].since < n

\* While connected the cache is what the device will serve, and is what is held.
CacheIsWhatIsHeld ==
  subLink.stage = "up" =>
    /\ \A c \in Channels \ (Retained \cup Replayed) : cache[c] <=> Held(c)
    /\ \A c \in Retained : Held(c) => cache[c]
    /\ \A c \in Channels \ Replayed : <<c, IF cache[c] THEN 1 ELSE 0>> \in LastWords
    /\ \A c \in Replayed : HeldSince(c, subLink.n) => <<c, 1>> \in LastWords
    /\ \A i \in Intents : <<i, desired[i]>> \in LastWords

\* What homeId() goes by, before what is under way is read.
Known == IF home.observed # None THEN home.observed ELSE home.info

HomeWillBeKnown ==
  subLink.stage = "up" /\ ~missed =>
    device.home = IF subIn = <<>> THEN Known ELSE subIn[Len(subIn)]

NewLinksAreClean ==
  subLink.stage = "opening" =>
    /\ subOut = <<>> /\ subIn = <<>> /\ home.observed = None
    /\ device.sends = [k \in Streams |-> 0]

StreamingInv == StreamingShape /\ CacheIsWhatIsHeld /\ HomeWillBeKnown /\ NewLinksAreClean

LEMMA HeldIsHolders ==
  \A c : /\ Streaming!Holders(c, readers) # {} <=> Held(c)
         /\ Streaming!Holders(c, readers') # {} <=> Held(c)'
         /\ (\E r \in Streaming!Holders(c, readers) : readers[r].since < subLink.n) <=> HeldSince(c, subLink.n)
  BY DEF Streaming!Holders, Held, HeldSince

LEMMA StreamingStarts == Streaming!Init => StreamingInv
<1> SUFFICES ASSUME Streaming!Init PROVE StreamingInv
  OBVIOUS
<1>1. Streaming!NoReader \in ReaderTypes
  BY SubApisAssumption DEF Streaming!NoReader, ReaderTypes
<1>2. Streaming!Nothing \in [Streams -> 0..2]
  BY DEF Streaming!Nothing, Streaming!Off, Streams
<1>3. device \in DeviceTypes /\ home \in HomeTypes
  BY <1>2, SubApisAssumption DEF Streaming!Init, DeviceTypes, HomeTypes
<1>4. StreamingShape
  <2>1. subLink \in LinkTypes /\ subLink.stage = "down"
    <3>1. subLink = [n |-> 0, stage |-> "down"]
      BY DEF Streaming!Init
    <3>2. 0 \in 0..MaxLinks
      BY SubApisAssumption
    <3> QED
      BY <3>1, <3>2 DEF LinkTypes
  <2>2. readers \in [Readers -> ReaderTypes]
    BY <1>1 DEF Streaming!Init
  <2>3. cache \in [Channels -> BOOLEAN] /\ desired \in [Intents -> 0..2] /\ missed \in BOOLEAN
    <3>1. cache = [c \in Channels |-> FALSE] /\ desired = [i \in Intents |-> 0] /\ missed = FALSE
      BY DEF Streaming!Init, Streaming!Off
    <3>2. cache \in [Channels -> BOOLEAN]
      BY <3>1
    <3>3. desired \in [Intents -> 0..2]
      BY <3>1
    <3> QED
      BY <3>1, <3>2, <3>3
  <2>4. subOut \in Seq(FrameTypes) /\ subIn \in Seq(HomeIds)
    BY DEF Streaming!Init
  <2> QED
    BY <1>3, <2>1, <2>2, <2>3, <2>4 DEF StreamingShape
<1>5. subLink.stage = "down"
  BY DEF Streaming!Init
<1> QED
  BY <1>4, <1>5 DEF StreamingInv, CacheIsWhatIsHeld, HomeWillBeKnown, NewLinksAreClean

\* A frame that is sent is the last word on its subject.
LEMMA SendsLast ==
  ASSUME StreamingShape, NEW f \in FrameTypes, subOut' = Append(subOut, f), device' = device
  PROVE  /\ subOut' \in Seq(FrameTypes) /\ <<f.on, f.is>> \in LastWords'
         /\ \A p \in LastWords : p[1] # f.on => p \in LastWords'
<1>1. subOut \in Seq(FrameTypes) /\ Len(subOut) \in Nat
  BY DEF StreamingShape
<1>2. /\ subOut' \in Seq(FrameTypes) /\ Len(subOut') = Len(subOut) + 1
      /\ \A i \in 1..Len(subOut) : i \in 1..Len(subOut') /\ subOut'[i] = subOut[i]
      /\ subOut'[Len(subOut) + 1] = f
  BY <1>1
<1>3. f.on \in Streams /\ f.is \in 0..2
  BY DEF FrameTypes
<1>4. <<f.on, f.is>> \in LastWords'
  <2>1. Len(subOut') \in 1..Len(subOut') /\ ~\E j \in 1..Len(subOut') : j > Len(subOut')
    BY <1>1, <1>2
  <2> QED
    BY <1>2, <1>3, <2>1 DEF LastWords
<1>5. ASSUME NEW p \in LastWords, p[1] # f.on PROVE p \in LastWords'
  <2>0. p \in Streams \X (0..2)
    BY DEF LastWords
  <2>1. \A j \in 1..Len(subOut') : j \in 1..Len(subOut) \/ subOut'[j] = f
    BY <1>1, <1>2
  <2>2. CASE \E i \in 1..Len(subOut) :
               /\ subOut[i].on = p[1] /\ subOut[i].is = p[2]
               /\ \A j \in 1..Len(subOut) : j > i => subOut[j].on # p[1]
    <3>1. PICK i \in 1..Len(subOut) :
            /\ subOut[i].on = p[1] /\ subOut[i].is = p[2]
            /\ \A j \in 1..Len(subOut) : j > i => subOut[j].on # p[1]
      BY <2>2
    <3>2. i \in 1..Len(subOut') /\ subOut'[i].on = p[1] /\ subOut'[i].is = p[2]
      BY <1>2, <3>1
    <3>3. \A j \in 1..Len(subOut') : j > i => subOut'[j].on # p[1]
      BY <1>2, <1>5, <2>1, <3>1
    <3> QED
      BY <2>0, <3>2, <3>3 DEF LastWords
  <2>3. CASE /\ \A i \in 1..Len(subOut) : subOut[i].on # p[1]
             /\ device.sends[p[1]] = p[2]
    <3>1. \A j \in 1..Len(subOut') : subOut'[j].on # p[1]
      BY <1>2, <1>5, <2>1, <2>3
    <3> QED
      BY <2>0, <2>3, <3>1 DEF LastWords
  <2> QED
    BY <2>2, <2>3 DEF LastWords
<1> QED
  BY <1>2, <1>4, <1>5

\* Reading does not change what the last word is.
LEMMA TakesFirst ==
  ASSUME StreamingShape, subOut # <<>>, subOut' = Tail(subOut),
         device' = [device EXCEPT !.sends[Head(subOut).on] = Head(subOut).is]
  PROVE  /\ subOut' \in Seq(FrameTypes) /\ device' \in DeviceTypes /\ device'.home = device.home
         /\ LastWords \subseteq LastWords'
<1>1. /\ subOut' \in Seq(FrameTypes) /\ Len(subOut) \in Nat /\ Len(subOut') = Len(subOut) - 1
      /\ \A i \in 1..Len(subOut') : i + 1 \in 1..Len(subOut) /\ subOut'[i] = subOut[i + 1]
      /\ 1 \in 1..Len(subOut) /\ Head(subOut) = subOut[1] /\ subOut[1] \in FrameTypes
  BY DEF StreamingShape
<1> DEFINE f == subOut[1]
<1>2. f \in FrameTypes /\ Head(subOut) = f
  BY <1>1
<1> HIDE DEF f
<1>3. f.on \in Streams /\ f.is \in 0..2
  BY <1>2 DEF FrameTypes
<1>4. /\ device' \in DeviceTypes /\ device'.home = device.home
      /\ device'.sends = [device.sends EXCEPT ![f.on] = f.is]
      /\ device.sends \in [Streams -> 0..2]
  BY <1>2, <1>3 DEF StreamingShape, DeviceTypes
<1>5. ASSUME NEW p \in LastWords PROVE p \in LastWords'
  <2>0. p \in Streams \X (0..2)
    BY DEF LastWords
  <2>1. CASE \E i \in 1..Len(subOut) :
               /\ subOut[i].on = p[1] /\ subOut[i].is = p[2]
               /\ \A j \in 1..Len(subOut) : j > i => subOut[j].on # p[1]
    <3>1. PICK i \in 1..Len(subOut) :
            /\ subOut[i].on = p[1] /\ subOut[i].is = p[2]
            /\ \A j \in 1..Len(subOut) : j > i => subOut[j].on # p[1]
      BY <2>1
    <3>2. CASE i = 1
      <4>1. \A j \in 1..Len(subOut') : subOut'[j].on # p[1]
        BY <1>1, <3>1, <3>2
      <4>2. f.on = p[1] /\ f.is = p[2]
        BY <3>1, <3>2 DEF f
      <4>3. device'.sends[p[1]] = p[2]
        BY <1>3, <1>4, <4>2
      <4> QED
        BY <2>0, <4>1, <4>3 DEF LastWords
    <3>3. CASE i # 1
      <4>1. i - 1 \in 1..Len(subOut') /\ subOut'[i - 1] = subOut[i]
        BY <1>1, <3>1, <3>3
      <4>2. \A j \in 1..Len(subOut') : j > i - 1 => subOut'[j].on # p[1]
        BY <1>1, <3>1, <3>3
      <4> QED
        BY <2>0, <3>1, <4>1, <4>2 DEF LastWords
    <3> QED
      BY <3>2, <3>3
  <2>2. CASE /\ \A i \in 1..Len(subOut) : subOut[i].on # p[1]
             /\ device.sends[p[1]] = p[2]
    <3>1. \A j \in 1..Len(subOut') : subOut'[j].on # p[1]
      BY <1>1, <2>2
    <3>2. device'.sends[p[1]] = device.sends[p[1]]
      BY <1>1, <1>3, <1>4, <2>0, <2>2 DEF f
    <3> QED
      BY <2>0, <2>2, <3>1, <3>2 DEF LastWords
  <2> QED
    BY <2>1, <2>2 DEF LastWords
<1> QED
  BY <1>1, <1>4, <1>5

\* A ledger's recompute() for a channel of which only this one's readers changed.
LEMMA RecomputeKeeps ==
  ASSUME StreamingInv, NEW channel \in Channels, readers' \in [Readers -> ReaderTypes],
         Streaming!Recompute(channel, readers'),
         \A c \in Channels \ {channel} : Held(c)' <=> Held(c),
         subLink.stage = "up" =>
           \A c \in Channels : HeldSince(c, subLink.n)' => HeldSince(c, subLink.n),
         UNCHANGED <<subLink, desired, subIn, device, missed>>, home' \in HomeTypes,
         home'.observed = home.observed /\ home'.info = home.info
  PROVE  StreamingInv'
<1>0. /\ StreamingShape /\ subOut \in Seq(FrameTypes) /\ cache \in [Channels -> BOOLEAN]
      /\ subLink \in LinkTypes /\ device \in DeviceTypes
      /\ \A i \in Intents : i \notin Channels
  BY SubApisAssumption DEF StreamingInv, StreamingShape
<1> DEFINE wanted == Streaming!Holders(channel, readers') # {}
           is == IF wanted = cache[channel] \/ (~wanted /\ channel \in Retained)
                 THEN cache[channel] ELSE wanted
           f == [on |-> channel, is |-> IF wanted THEN 1 ELSE 0]
<1>1. /\ cache' = [cache EXCEPT ![channel] = is]
      /\ subOut' = IF subLink.stage = "up"
                   THEN subOut \o (IF is = cache[channel] \/ channel \in Replayed THEN <<>> ELSE <<f>>)
                   ELSE subOut
  BY DEF Streaming!Recompute, Streaming!Send, Streaming!Off
<1>2. wanted <=> Held(channel)'
  BY HeldIsHolders
<1>3. wanted \in BOOLEAN /\ is \in BOOLEAN /\ cache[channel] \in BOOLEAN
  BY <1>0
<1>4. /\ is # cache[channel] => is = wanted
      /\ channel \notin Retained => is = wanted
      /\ wanted => is
  BY <1>3
<1>5. f \in FrameTypes /\ f.on = channel /\ (is # cache[channel] => f.is = IF is THEN 1 ELSE 0)
  BY <1>4 DEF FrameTypes, Streams
<1> HIDE DEF wanted, is, f
<1>6. cache' \in [Channels -> BOOLEAN] /\ cache'[channel] = is
      /\ \A c \in Channels \ {channel} : cache'[c] = cache[c]
  BY <1>0, <1>1, <1>3
<1>7. \/ subOut' = subOut
      \/ subOut' = Append(subOut, f) /\ channel \notin Replayed /\ is # cache[channel]
  <2>1. subOut \o <<>> = subOut /\ subOut \o <<f>> = Append(subOut, f)
    BY <1>0, <1>5
  <2> QED
    BY <1>1, <2>1
<1>8. subLink.stage = "up" /\ channel \notin Replayed /\ is # cache[channel] => subOut' = Append(subOut, f)
  <2>1. subOut \o <<f>> = Append(subOut, f)
    BY <1>0, <1>5
  <2> QED
    BY <1>1, <2>1
<1>9. subOut' \in Seq(FrameTypes)
  BY <1>0, <1>5, <1>7
<1>10. StreamingShape'
  BY <1>0, <1>6, <1>9 DEF StreamingShape
<1>11. /\ \A p \in LastWords : p[1] # channel => p \in LastWords'
       /\ channel \in Replayed \/ is = cache[channel] => LastWords \subseteq LastWords'
  <2>1. CASE subOut' = subOut
    <3>1. LastWords' = LastWords
      BY <2>1 DEF LastWords
    <3> QED
      BY <3>1
  <2>2. CASE subOut' = Append(subOut, f) /\ channel \notin Replayed /\ is # cache[channel]
    BY <1>0, <1>5, <2>2, SendsLast
  <2> QED
    BY <1>7, <2>1, <2>2
<1>12. subLink.stage = "up" /\ channel \notin Replayed => <<channel, IF is THEN 1 ELSE 0>> \in LastWords'
  <2> SUFFICES ASSUME subLink.stage = "up", channel \notin Replayed
               PROVE  <<channel, IF is THEN 1 ELSE 0>> \in LastWords'
    OBVIOUS
  <2>1. CASE is = cache[channel]
    BY <1>11, <2>1 DEF StreamingInv, CacheIsWhatIsHeld
  <2>2. CASE is # cache[channel]
    <3>1. <<f.on, f.is>> \in LastWords'
      BY <1>0, <1>5, <1>8, <2>2, SendsLast
    <3> QED
      BY <1>5, <2>2, <3>1
  <2> QED
    BY <2>1, <2>2
<1>13. CacheIsWhatIsHeld'
  <2> SUFFICES ASSUME subLink.stage = "up"
               PROVE  /\ \A c \in Channels \ (Retained \cup Replayed) : cache'[c] <=> Held(c)'
                      /\ \A c \in Retained : Held(c)' => cache'[c]
                      /\ \A c \in Channels \ Replayed : <<c, IF cache'[c] THEN 1 ELSE 0>> \in LastWords'
                      /\ \A c \in Replayed : HeldSince(c, subLink.n)' => <<c, 1>> \in LastWords'
                      /\ \A i \in Intents : <<i, desired[i]>> \in LastWords'
    BY DEF CacheIsWhatIsHeld
  <2>0. /\ \A c \in Channels \ (Retained \cup Replayed) : cache[c] <=> Held(c)
        /\ \A c \in Retained : Held(c) => cache[c]
        /\ \A c \in Channels \ Replayed : <<c, IF cache[c] THEN 1 ELSE 0>> \in LastWords
        /\ \A c \in Replayed : HeldSince(c, subLink.n) => <<c, 1>> \in LastWords
        /\ \A i \in Intents : <<i, desired[i]>> \in LastWords
    BY DEF StreamingInv, CacheIsWhatIsHeld
  <2>1. \A c \in Channels \ (Retained \cup Replayed) : cache'[c] <=> Held(c)'
    BY <1>2, <1>4, <1>6, <2>0
  <2>2. \A c \in Retained : Held(c)' => cache'[c]
    BY <1>2, <1>4, <1>6, <2>0, SubApisAssumption
  <2>3. \A c \in Channels \ Replayed : <<c, IF cache'[c] THEN 1 ELSE 0>> \in LastWords'
    BY <1>6, <1>11, <1>12, <2>0
  <2>4. \A c \in Replayed : HeldSince(c, subLink.n)' => <<c, 1>> \in LastWords'
    BY <1>11, <2>0, SubApisAssumption
  <2>5. \A i \in Intents : <<i, desired[i]>> \in LastWords'
    BY <1>0, <1>11, <2>0
  <2> QED
    BY <2>1, <2>2, <2>3, <2>4, <2>5
<1>14. HomeWillBeKnown'
  BY DEF StreamingInv, HomeWillBeKnown, Known
<1>15. NewLinksAreClean'
  BY <1>1 DEF StreamingInv, NewLinksAreClean
<1> QED
  BY <1>10, <1>13, <1>14, <1>15 DEF StreamingInv

\* A generator is called, and left.
LEMMA OpenKeeps ==
  ASSUME StreamingInv, NEW r \in Readers, NEW channel, Streaming!OpenReader(r, channel),
         home' \in HomeTypes, home'.observed = home.observed /\ home'.info = home.info
  PROVE  StreamingInv'
<1>0. StreamingShape /\ subLink \in LinkTypes /\ (subLink.stage # "down" => subLink.n # 0)
  BY DEF StreamingInv, StreamingShape
<1> DEFINE since == IF subLink.stage = "opening" THEN subLink.n - 1 ELSE subLink.n
           new == [stage |-> "fresh", channel |-> channel, since |-> since]
<1>1. /\ channel \in Channels /\ readers[r].stage = "none" /\ readers' = [readers EXCEPT ![r] = new]
      /\ Streaming!Recompute(channel, readers')
      /\ UNCHANGED <<subLink, desired, subIn, device, missed>>
  BY DEF Streaming!OpenReader
<1>2. since \in 0..MaxLinks /\ (subLink.stage = "up" => ~(since < subLink.n))
  BY <1>0, SubApisAssumption DEF LinkTypes
<1>3. new \in ReaderTypes /\ new.channel = channel /\ new.since = since
  BY <1>1, <1>2 DEF ReaderTypes
<1> HIDE DEF new, since
<1>4. /\ readers' \in [Readers -> ReaderTypes] /\ readers'[r] = new
      /\ \A q \in Readers : q # r => readers'[q] = readers[q]
  BY <1>0, <1>1, <1>3 DEF StreamingShape
<1>5. \A c \in Channels \ {channel} : Held(c)' <=> Held(c)
  BY <1>1, <1>3, <1>4 DEF Held
<1>6. subLink.stage = "up" => \A c \in Channels : HeldSince(c, subLink.n)' => HeldSince(c, subLink.n)
  BY <1>1, <1>2, <1>3, <1>4 DEF HeldSince
<1> QED
  BY <1>1, <1>4, <1>5, <1>6, RecomputeKeeps

LEMMA CloseKeeps ==
  ASSUME StreamingInv, NEW r \in Readers, Streaming!CloseReader(r)
  PROVE  StreamingInv'
<1>0. StreamingShape /\ home \in HomeTypes
  BY DEF StreamingInv, StreamingShape
<1> DEFINE old == readers[r]
           new == IF old.stage = "fresh" THEN [old EXCEPT !.stage = "lost"] ELSE Streaming!NoReader
<1>1. /\ old.stage \in {"fresh", "reading"} /\ readers' = [readers EXCEPT ![r] = new]
      /\ Streaming!Recompute(old.channel, readers')
      /\ UNCHANGED <<subLink, desired, subIn, device, home, missed>>
  BY DEF Streaming!CloseReader
<1>2. old \in ReaderTypes /\ old.channel \in Channels
  BY <1>0 DEF StreamingShape, ReaderTypes
<1> HIDE DEF old
<1>3. /\ new \in ReaderTypes
      /\ new.stage # "none" => new.channel = old.channel /\ new.since = old.since
  BY <1>2, SubApisAssumption DEF ReaderTypes, Streaming!NoReader
<1> HIDE DEF new
<1>4. /\ readers' \in [Readers -> ReaderTypes] /\ readers'[r] = new /\ readers[r] = old
      /\ \A q \in Readers : q # r => readers'[q] = readers[q]
  BY <1>0, <1>1, <1>3 DEF StreamingShape, old
<1>5. \A c \in Channels \ {old.channel} : Held(c)' <=> Held(c)
  BY <1>1, <1>3, <1>4 DEF Held
<1>6. \A c \in Channels : HeldSince(c, subLink.n)' => HeldSince(c, subLink.n)
  BY <1>1, <1>3, <1>4 DEF HeldSince
<1> QED
  BY <1>0, <1>1, <1>2, <1>4, <1>5, <1>6, RecomputeKeeps

\* The application asks for something that is not counted.
LEMMA SubscribeKeeps ==
  ASSUME StreamingInv, NEW i \in Intents, NEW value \in 0..2, Streaming!Subscribe(i, value)
  PROVE  StreamingInv'
<1>0. /\ StreamingShape /\ subOut \in Seq(FrameTypes) /\ desired \in [Intents -> 0..2]
      /\ i \notin Channels
  BY SubApisAssumption DEF StreamingInv, StreamingShape
<1> DEFINE f == [on |-> i, is |-> value]
<1>1. f \in FrameTypes /\ f.on = i /\ f.is = value
  BY DEF FrameTypes, Streams
<1>2. /\ desired' = [desired EXCEPT ![i] = value]
      /\ subOut' = IF subLink.stage = "up" THEN subOut \o <<f>> ELSE subOut
      /\ UNCHANGED <<subLink, readers, cache, subIn, device, home, missed>>
  BY DEF Streaming!Subscribe, Streaming!Send
<1> HIDE DEF f
<1>3. subOut' = IF subLink.stage = "up" THEN Append(subOut, f) ELSE subOut
  <2>1. subOut \o <<f>> = Append(subOut, f)
    BY <1>0, <1>1
  <2> QED
    BY <1>2, <2>1
<1>4. subOut' \in Seq(FrameTypes)
  BY <1>0, <1>1, <1>3
<1>5. desired' \in [Intents -> 0..2] /\ desired'[i] = value /\ \A j \in Intents \ {i} : desired'[j] = desired[j]
  BY <1>0, <1>2
<1>6. StreamingShape'
  BY <1>0, <1>2, <1>4, <1>5 DEF StreamingShape
<1>7. CacheIsWhatIsHeld'
  <2> SUFFICES ASSUME subLink.stage = "up"
               PROVE  CacheIsWhatIsHeld'
    BY <1>2 DEF CacheIsWhatIsHeld
  <2>1. <<i, value>> \in LastWords' /\ \A p \in LastWords : p[1] # i => p \in LastWords'
    BY <1>0, <1>1, <1>2, <1>3, SendsLast
  <2>2. \A c : (Held(c)' <=> Held(c)) /\ (HeldSince(c, subLink.n)' <=> HeldSince(c, subLink.n))
    BY <1>2 DEF Held, HeldSince
  <2>3. \A j \in Intents : <<j, desired'[j]>> \in LastWords'
    BY <1>5, <2>1 DEF StreamingInv, CacheIsWhatIsHeld
  <2>4. \A c \in Channels \ Replayed : <<c, IF cache[c] THEN 1 ELSE 0>> \in LastWords'
    BY <1>0, <2>1 DEF StreamingInv, CacheIsWhatIsHeld
  <2>5. \A c \in Replayed : HeldSince(c, subLink.n) => <<c, 1>> \in LastWords'
    BY <1>0, <2>1, SubApisAssumption DEF StreamingInv, CacheIsWhatIsHeld
  <2> HIDE DEF LastWords
  <2> QED
    BY <1>2, <2>2, <2>3, <2>4, <2>5 DEF StreamingInv, CacheIsWhatIsHeld
<1>8. HomeWillBeKnown' /\ NewLinksAreClean'
  BY <1>2 DEF StreamingInv, HomeWillBeKnown, Known, NewLinksAreClean
<1> QED
  BY <1>6, <1>7, <1>8 DEF StreamingInv

\* What the device, its home and the readers that read do, keeps the cache's clause.
LEMMA HeldKeeps ==
  ASSUME StreamingInv, UNCHANGED <<subLink, cache, desired>>, LastWords \subseteq LastWords',
         \A c \in Channels : Held(c)' <=> Held(c),
         \A c \in Channels : HeldSince(c, subLink.n)' => HeldSince(c, subLink.n)
  PROVE  CacheIsWhatIsHeld'
<1> HIDE DEF LastWords
<1> QED
  BY SubApisAssumption DEF StreamingInv, CacheIsWhatIsHeld

LEMMA FirstReadKeeps ==
  ASSUME StreamingInv, NEW r \in Readers, Streaming!FirstRead(r)
  PROVE  StreamingInv'
<1>0. StreamingShape
  BY DEF StreamingInv
<1> DEFINE new == [readers[r] EXCEPT !.stage = "reading"]
<1>1. /\ readers[r].stage = "fresh" /\ readers' = [readers EXCEPT ![r] = new]
      /\ UNCHANGED <<subLink, cache, desired, subOut, subIn, device, home, missed>>
  BY DEF Streaming!FirstRead
<1>2. new \in ReaderTypes /\ new.stage = "reading" /\ new.channel = readers[r].channel /\ new.since = readers[r].since
  BY <1>0 DEF StreamingShape, ReaderTypes
<1> HIDE DEF new
<1>3. /\ readers' \in [Readers -> ReaderTypes] /\ readers'[r] = new
      /\ \A q \in Readers : q # r => readers'[q] = readers[q]
  BY <1>0, <1>1, <1>2 DEF StreamingShape
<1>4. StreamingShape'
  BY <1>0, <1>1, <1>3 DEF StreamingShape
<1>5. \A c \in Channels : (Held(c)' <=> Held(c)) /\ (HeldSince(c, subLink.n)' <=> HeldSince(c, subLink.n))
  BY <1>1, <1>2, <1>3 DEF Held, HeldSince
<1>6. LastWords' = LastWords
  BY <1>1 DEF LastWords
<1>7. CacheIsWhatIsHeld'
  BY <1>1, <1>5, <1>6, HeldKeeps
<1>8. HomeWillBeKnown' /\ NewLinksAreClean'
  BY <1>1 DEF StreamingInv, HomeWillBeKnown, Known, NewLinksAreClean
<1> QED
  BY <1>4, <1>7, <1>8 DEF StreamingInv

LEMMA TakeKeeps ==
  ASSUME StreamingInv, Streaming!DeviceTakes
  PROVE  StreamingInv'
<1>0. StreamingShape
  BY DEF StreamingInv
<1>1. /\ subOut # <<>> /\ subLink.stage = "up" /\ subOut' = Tail(subOut)
      /\ device' = [device EXCEPT !.sends[Head(subOut).on] = Head(subOut).is]
      /\ UNCHANGED <<subLink, readers, cache, desired, subIn, home, missed>>
  BY DEF Streaming!DeviceTakes
<1>2. /\ subOut' \in Seq(FrameTypes) /\ device' \in DeviceTypes /\ device'.home = device.home
      /\ LastWords \subseteq LastWords'
  BY <1>0, <1>1, TakesFirst
<1>3. StreamingShape'
  BY <1>0, <1>1, <1>2 DEF StreamingShape
<1>4. \A c \in Channels : (Held(c)' <=> Held(c)) /\ (HeldSince(c, subLink.n)' <=> HeldSince(c, subLink.n))
  BY <1>1 DEF Held, HeldSince
<1>5. CacheIsWhatIsHeld'
  BY <1>1, <1>2, <1>4, HeldKeeps
<1>6. HomeWillBeKnown' /\ NewLinksAreClean'
  BY <1>1, <1>2 DEF StreamingInv, HomeWillBeKnown, Known, NewLinksAreClean
<1> QED
  BY <1>3, <1>5, <1>6 DEF StreamingInv

\* The home changes on the device, and the client hears of it.
LEMMA HomeKeeps ==
  ASSUME StreamingInv, NEW h \in HomeIds, Streaming!DeviceHomeChanges(h)
  PROVE  StreamingInv'
<1>0. StreamingShape /\ subIn \in Seq(HomeIds) /\ device \in DeviceTypes
  BY DEF StreamingInv, StreamingShape
<1>1. /\ device' = [device EXCEPT !.home = h, !.changes = @ + 1]
      /\ subIn' = IF subLink.stage = "up" THEN Append(subIn, h) ELSE subIn
      /\ UNCHANGED <<subLink, readers, cache, desired, subOut, home, missed>>
  BY DEF Streaming!DeviceHomeChanges
<1>2. device' \in DeviceTypes /\ device'.home = h /\ device'.sends = device.sends
  <2>1. device.changes + 1 \in Nat
    BY <1>0 DEF DeviceTypes
  <2>2. device' = [sends |-> device.sends, home |-> h, changes |-> device.changes + 1]
    BY <1>0, <1>1 DEF DeviceTypes
  <2>3. device.sends \in [Streams -> 0..2]
    BY <1>0 DEF DeviceTypes
  <2> QED
    BY <2>1, <2>2, <2>3 DEF DeviceTypes
<1>3. /\ subIn' \in Seq(HomeIds)
      /\ subLink.stage = "up" => subIn' # <<>> /\ subIn'[Len(subIn')] = h
  BY <1>0, <1>1
<1>4. StreamingShape'
  BY <1>0, <1>1, <1>2, <1>3 DEF StreamingShape
<1>5. \A c \in Channels : (Held(c)' <=> Held(c)) /\ (HeldSince(c, subLink.n)' <=> HeldSince(c, subLink.n))
  BY <1>1 DEF Held, HeldSince
<1>6. LastWords' = LastWords
  BY <1>1, <1>2 DEF LastWords
<1>7. CacheIsWhatIsHeld'
  BY <1>1, <1>5, <1>6, HeldKeeps
<1>8. HomeWillBeKnown'
  BY <1>1, <1>2, <1>3 DEF HomeWillBeKnown
<1>9. NewLinksAreClean'
  BY <1>1, <1>2 DEF StreamingInv, NewLinksAreClean
<1> QED
  BY <1>4, <1>7, <1>8, <1>9 DEF StreamingInv

LEMMA AcceptHomeKeeps ==
  ASSUME StreamingInv, Streaming!AcceptHome
  PROVE  StreamingInv'
<1>0. StreamingShape /\ subIn \in Seq(HomeIds) /\ home \in HomeTypes /\ missed \in BOOLEAN
  BY DEF StreamingInv, StreamingShape
<1>1. /\ subIn # <<>> /\ subIn' = Tail(subIn)
      /\ home' = IF home.created THEN [home EXCEPT !.observed = Head(subIn)] ELSE home
      /\ missed' = (missed \/ ~home.created)
      /\ UNCHANGED <<subLink, readers, cache, desired, subOut, device>>
  BY DEF Streaming!AcceptHome
<1>2. /\ subIn' \in Seq(HomeIds) /\ Head(subIn) = subIn[1] /\ subIn[1] \in HomeIds
      /\ subIn' = <<>> => Len(subIn) = 1
      /\ subIn' # <<>> => subIn'[Len(subIn')] = subIn[Len(subIn)]
  <2>1. /\ subIn' \in Seq(HomeIds) /\ Len(subIn) \in Nat /\ Len(subIn) # 0 /\ Len(subIn') = Len(subIn) - 1
        /\ \A i \in 1..Len(subIn') : subIn'[i] = subIn[i + 1]
        /\ Head(subIn) = subIn[1] /\ subIn[1] \in HomeIds
    BY <1>0, <1>1
  <2>2. subIn' = <<>> => Len(subIn') = 0
    OBVIOUS
  <2>3. subIn' # <<>> => Len(subIn') \in 1..Len(subIn')
    BY <2>1
  <2> QED
    BY <2>1, <2>2, <2>3
<1>3. /\ home' \in HomeTypes /\ (home.created => home'.observed = subIn[1])
      /\ missed' \in BOOLEAN /\ (~missed' => home.created /\ ~missed)
  <2>1. home' \in HomeTypes /\ (home.created => home'.observed = subIn[1])
    BY <1>0, <1>1, <1>2 DEF HomeTypes
  <2>2. missed' \in BOOLEAN /\ (~missed' => home.created /\ ~missed)
    BY <1>0, <1>1
  <2> QED
    BY <2>1, <2>2
<1>4. StreamingShape'
  BY <1>0, <1>1, <1>2, <1>3 DEF StreamingShape
<1>5. \A c \in Channels : (Held(c)' <=> Held(c)) /\ (HeldSince(c, subLink.n)' <=> HeldSince(c, subLink.n))
  BY <1>1 DEF Held, HeldSince
<1>6. LastWords' = LastWords
  BY <1>1 DEF LastWords
<1>7. CacheIsWhatIsHeld'
  BY <1>1, <1>5, <1>6, HeldKeeps
<1>8. HomeWillBeKnown'
  <2> SUFFICES ASSUME subLink.stage = "up", ~missed'
               PROVE  device.home = IF subIn' = <<>> THEN Known' ELSE subIn'[Len(subIn')]
    BY <1>1 DEF HomeWillBeKnown
  <2>1. device.home = subIn[Len(subIn)] /\ home'.observed = subIn[1]
    BY <1>1, <1>3 DEF StreamingInv, HomeWillBeKnown
  <2>2. subIn' = <<>> => Known' = subIn[1]
    BY <1>2, <2>1, SubApisAssumption DEF Known
  <2> QED
    BY <1>2, <2>1, <2>2
<1>9. NewLinksAreClean'
  BY <1>1 DEF StreamingInv, NewLinksAreClean
<1> QED
  BY <1>4, <1>7, <1>8, <1>9 DEF StreamingInv

\* A connection begins and ends without anything under way.
LEMMA ClearingKeeps ==
  ASSUME StreamingInv, Streaming!ClearConnectionState, UNCHANGED <<readers, desired>>,
         subLink' \in LinkTypes, subLink'.stage \in {"down", "opening"},
         subLink'.stage # "down" => subLink'.n # 0,
         device' \in DeviceTypes,
         subLink'.stage = "opening" => device'.sends = [k \in Streams |-> 0]
  PROVE  StreamingInv'
<1>0. StreamingShape /\ home \in HomeTypes
  BY DEF StreamingInv, StreamingShape
<1>1. /\ cache' = [c \in Channels |-> FALSE] /\ home' = [home EXCEPT !.observed = None]
      /\ subOut' = <<>> /\ subIn' = <<>> /\ missed' = FALSE
  BY DEF Streaming!ClearConnectionState
<1>2. home' \in HomeTypes /\ home'.observed = None
  BY <1>0, <1>1 DEF HomeTypes
<1>3. StreamingShape'
  <2>1. cache' \in [Channels -> BOOLEAN]
    BY <1>1
  <2>2. subOut' \in Seq(FrameTypes) /\ subIn' \in Seq(HomeIds)
    <3>1. <<>> \in Seq(FrameTypes) /\ <<>> \in Seq(HomeIds)
      OBVIOUS
    <3> QED
      BY <1>1, <3>1, Zenon
  <2>3. missed' \in BOOLEAN
    BY <1>1
  <2> QED
    BY <1>0, <1>2, <2>1, <2>2, <2>3 DEF StreamingShape
<1>4. CacheIsWhatIsHeld' /\ HomeWillBeKnown'
  BY DEF CacheIsWhatIsHeld, HomeWillBeKnown
<1>5. NewLinksAreClean'
  BY <1>1, <1>2 DEF NewLinksAreClean
<1> QED
  BY <1>3, <1>4, <1>5 DEF StreamingInv

\* SetToSeq() lists every element once.
LEMMA SequenceOfSet ==
  ASSUME NEW S, IsFiniteSet(S)
  PROVE  /\ Streaming!SetToSeq(S) \in Seq(S)
         /\ \A x \in S : \E i \in 1..Len(Streaming!SetToSeq(S)) :
              /\ Streaming!SetToSeq(S)[i] = x
              /\ \A j \in 1..Len(Streaming!SetToSeq(S)) : Streaming!SetToSeq(S)[j] = x => j = i
<1> DEFINE n == Cardinality(S)
           q == Streaming!SetToSeq(S)
<1>1. n \in Nat /\ ExistsBijection(1..n, S)
  BY FS_CardinalityType
<1>2. PICK b : b \in Bijection(1..n, S)
  BY <1>1 DEF ExistsBijection
<1>3. b \in [1..n -> S] /\ Streaming!IsInjective(b)
  BY <1>2 DEF Bijection, Injection, IsInjective, Streaming!IsInjective
<1>4. q \in [1..n -> S] /\ Streaming!IsInjective(q)
  <2>1. Streaming!Cardinality(S) = n
    BY DEF Streaming!Cardinality, Cardinality, Streaming!IsFiniteSet, IsFiniteSet
  <2> QED
    BY <1>3, <2>1 DEF Streaming!SetToSeq
<1> HIDE DEF q
<1>5. q \in Injection(1..n, S)
  BY <1>4 DEF Injection, IsInjective, Streaming!IsInjective
<1>6. Cardinality(1..n) = n
  BY <1>1, FS_Interval
<1> HIDE DEF n
<1>7. q \in Surjection(1..n, S)
  BY <1>5, <1>6, FS_Injection DEF n
<1>8. q \in Seq(S) /\ Len(q) = n
  BY <1>1, <1>4
<1>9. \A x \in S : \E i \in 1..n : q[i] = x
  BY <1>4, <1>7 DEF Surjection
<1>10. \A i, j \in 1..n : q[i] = q[j] => i = j
  BY <1>4 DEF Streaming!IsInjective
<1> QED
  BY <1>8, <1>9, <1>10 DEF q

\* After a reconnect everything that is held or wanted is asked for, once.
LEMMA EstablishedKeeps ==
  ASSUME StreamingInv, Streaming!Established
  PROVE  StreamingInv'
<1>0. /\ StreamingShape /\ subLink \in LinkTypes /\ home \in HomeTypes /\ device \in DeviceTypes
      /\ cache \in [Channels -> BOOLEAN] /\ desired \in [Intents -> 0..2]
      /\ \A c \in Channels : c \notin Intents
  BY SubApisAssumption DEF StreamingInv, StreamingShape
<1> DEFINE C == {c \in Channels : Held(c)}
           I == {i \in Intents : desired[i] # 0}
           one == [k \in C \cup I |-> [on |-> k, is |-> IF k \in Channels THEN 1 ELSE desired[k]]]
           S == {one[k] : k \in C \cup I}
<1>1. /\ subLink.stage = "opening" /\ subLink' = [subLink EXCEPT !.stage = "up"]
      /\ home' = [home EXCEPT !.info = device.home] /\ cache' = [c \in Channels |-> Held(c)]
      /\ UNCHANGED <<readers, desired, subIn, device, missed>>
  <2>1. cache' = [c \in Channels |-> Streaming!Holders(c, readers) # {}]
    BY DEF Streaming!Established, Streaming!Reissued
  <2>2. \A c \in Channels : (Streaming!Holders(c, readers) # {}) = Held(c)
    <3>1. \A c : Held(c) \in BOOLEAN
      BY DEF Held
    <3> QED
      BY <3>1, HeldIsHolders
  <2>3. cache' = [c \in Channels |-> Held(c)]
    BY <2>1, <2>2
  <2> QED
    BY <2>3 DEF Streaming!Established
<1>2. subOut' = Streaming!SetToSeq(S)
  <2>1. {k \in Channels : Streaming!Holders(k, readers) # {}} = C
    BY HeldIsHolders
  <2>2. S = {[on |-> c, is |-> 1] : c \in C} \cup {[on |-> i, is |-> desired[i]] : i \in I}
    BY <1>0
  <2> QED
    BY <2>1, <2>2 DEF Streaming!Established, Streaming!Off
<1>3. \A k \in C \cup I : /\ one[k] \in FrameTypes /\ one[k].on = k
                          /\ one[k].is = IF k \in Channels THEN 1 ELSE desired[k]
  BY <1>0 DEF FrameTypes, Streams
<1>4. IsFiniteSet(S)
  <2>1. IsFiniteSet(C \cup I)
    <3>1. IsFiniteSet(Channels \cup Intents)
      BY SubApisAssumption, FS_Union
    <3>2. C \cup I \in SUBSET (Channels \cup Intents)
      OBVIOUS
    <3> QED
      BY <3>1, <3>2, FS_Subset
  <2>2. one \in Surjection(C \cup I, S)
    BY DEF Surjection
  <2> QED
    BY <2>1, <2>2, FS_Surjection
<1>5. \A x \in S : x \in FrameTypes /\ x.on \in C \cup I /\ x = one[x.on]
  BY <1>3
<1> HIDE DEF one, S
<1>6. /\ subOut' \in Seq(S)
      /\ \A x \in S : \E i \in 1..Len(subOut') :
           subOut'[i] = x /\ \A j \in 1..Len(subOut') : subOut'[j] = x => j = i
  BY <1>2, <1>4, SequenceOfSet
<1>7. subOut' \in Seq(FrameTypes) /\ \A i \in 1..Len(subOut') : subOut'[i] \in S
  BY <1>5, <1>6
<1>8. ASSUME NEW k \in C \cup I PROVE <<k, one[k].is>> \in LastWords'
  <2>1. one[k] \in S /\ one[k].on = k /\ one[k].is \in 0..2 /\ k \in Streams
    BY <1>3 DEF S, FrameTypes, Streams
  <2>2. PICK i \in 1..Len(subOut') :
          subOut'[i] = one[k] /\ \A j \in 1..Len(subOut') : subOut'[j] = one[k] => j = i
    BY <1>6, <2>1
  <2>3. \A j \in 1..Len(subOut') : subOut'[j].on = k => j = i
    BY <1>5, <1>7, <2>2
  <2> QED
    BY <2>1, <2>2, <2>3 DEF LastWords
<1>9. ASSUME NEW k \in Streams, k \notin C \cup I PROVE <<k, 0>> \in LastWords'
  <2>1. \A i \in 1..Len(subOut') : subOut'[i].on # k
    BY <1>5, <1>7, <1>9
  <2>2. device'.sends[k] = 0
    BY <1>1 DEF StreamingInv, NewLinksAreClean
  <2> QED
    BY <2>1, <2>2 DEF LastWords
<1>10. /\ subLink' \in LinkTypes /\ subLink'.stage = "up" /\ subLink'.n = subLink.n
       /\ home' \in HomeTypes /\ home'.info = device.home /\ home'.observed = home.observed
  BY <1>0, <1>1 DEF LinkTypes, HomeTypes, DeviceTypes
<1>11. cache' \in [Channels -> BOOLEAN] /\ \A c \in Channels : cache'[c] <=> Held(c)
  <2>1. \A c \in Channels : Held(c) \in BOOLEAN
    BY DEF Held
  <2> QED
    BY <1>1, <2>1
<1>12. StreamingShape'
  BY <1>0, <1>1, <1>7, <1>10, <1>11 DEF StreamingInv, StreamingShape
<1>13. CacheIsWhatIsHeld'
  <2>1. \A c \in Channels : <<c, IF Held(c) THEN 1 ELSE 0>> \in LastWords'
    <3> SUFFICES ASSUME NEW c \in Channels PROVE <<c, IF Held(c) THEN 1 ELSE 0>> \in LastWords'
      OBVIOUS
    <3>1. CASE Held(c)
      BY <1>3, <1>8, <3>1
    <3>2. CASE ~Held(c)
      BY <1>0, <1>9, <3>2 DEF Streams
    <3> QED
      BY <3>1, <3>2
  <2>2. \A i \in Intents : <<i, desired[i]>> \in LastWords'
    <3> SUFFICES ASSUME NEW i \in Intents PROVE <<i, desired[i]>> \in LastWords'
      OBVIOUS
    <3>1. CASE desired[i] # 0
      BY <1>0, <1>3, <1>8, <3>1
    <3>2. CASE desired[i] = 0
      BY <1>0, <1>9, <3>2 DEF Streams
    <3> QED
      BY <3>1, <3>2
  <2>3. \A c \in Channels : (Held(c)' <=> Held(c)) /\ (HeldSince(c, subLink.n)' => Held(c))
    BY <1>1 DEF Held, HeldSince
  <2>4. /\ \A c \in Channels \ (Retained \cup Replayed) : cache'[c] <=> Held(c)'
        /\ \A c \in Retained : Held(c)' => cache'[c]
    BY <1>11, <2>3, SubApisAssumption
  <2>5. \A c \in Channels \ Replayed : <<c, IF cache'[c] THEN 1 ELSE 0>> \in LastWords'
    BY <1>11, <2>1
  <2>6. \A c \in Replayed : HeldSince(c, subLink.n)' => <<c, 1>> \in LastWords'
    BY <2>1, <2>3, SubApisAssumption
  <2> HIDE DEF LastWords
  <2> QED
    BY <1>1, <2>2, <2>4, <2>5, <2>6 DEF CacheIsWhatIsHeld
<1>14. HomeWillBeKnown'
  BY <1>1, <1>10 DEF StreamingInv, NewLinksAreClean, HomeWillBeKnown, Known
<1>15. NewLinksAreClean'
  BY <1>10 DEF NewLinksAreClean
<1> QED
  BY <1>12, <1>13, <1>14, <1>15 DEF StreamingInv

LEMMA BreaksKeeps ==
  ASSUME StreamingInv, Streaming!Breaks
  PROVE  StreamingInv'
<1>0. StreamingShape /\ subLink \in LinkTypes
  BY DEF StreamingInv, StreamingShape
<1>1. /\ subLink.stage = "up" /\ subLink' = [subLink EXCEPT !.stage = "broken"] /\ subOut' = <<>>
      /\ UNCHANGED <<readers, cache, desired, subIn, device, home, missed>>
  BY DEF Streaming!Breaks
<1>2. /\ subLink' \in LinkTypes /\ subLink'.stage = "broken"
      /\ subLink'.n = subLink.n /\ subLink.n # 0
  BY <1>0, <1>1 DEF LinkTypes, StreamingInv, StreamingShape
<1>3. subOut' \in Seq(FrameTypes)
  <2>1. <<>> \in Seq(FrameTypes)
    OBVIOUS
  <2> QED
    BY <1>1, <2>1, Zenon
<1>4. StreamingShape'
  BY <1>0, <1>1, <1>2, <1>3 DEF StreamingShape
<1> QED
  BY <1>2, <1>4 DEF StreamingInv, CacheIsWhatIsHeld, HomeWillBeKnown, NewLinksAreClean

LEMMA OpensKeeps ==
  ASSUME StreamingInv, Streaming!Opens
  PROVE  StreamingInv'
<1>0. StreamingShape /\ subLink \in LinkTypes /\ device \in DeviceTypes
  BY DEF StreamingInv, StreamingShape
<1>1. /\ subLink.n < MaxLinks /\ subLink' = [n |-> subLink.n + 1, stage |-> "opening"]
      /\ device' = [device EXCEPT !.sends = Streaming!Nothing]
      /\ Streaming!ClearConnectionState /\ UNCHANGED <<readers, desired>>
  BY DEF Streaming!Opens
<1>2. subLink' \in LinkTypes /\ subLink'.stage = "opening" /\ subLink'.n # 0
  <2>1. subLink.n + 1 \in 0..MaxLinks /\ subLink.n + 1 # 0
    BY <1>0, <1>1, SubApisAssumption DEF LinkTypes
  <2> QED
    BY <1>1, <2>1 DEF LinkTypes
<1>3. /\ Streaming!Nothing = [k \in Streams |-> 0]
      /\ Streaming!Nothing \in [Streams -> 0..2]
  BY DEF Streaming!Nothing, Streaming!Off, Streams
<1>4. device' \in DeviceTypes /\ device'.sends = [k \in Streams |-> 0]
  BY <1>0, <1>1, <1>3 DEF DeviceTypes
<1> QED
  BY <1>1, <1>2, <1>4, ClearingKeeps

LEMMA ClosesKeeps ==
  ASSUME StreamingInv, Streaming!Closes
  PROVE  StreamingInv'
<1>1. /\ subLink' = [subLink EXCEPT !.stage = "down"] /\ Streaming!ClearConnectionState
      /\ UNCHANGED <<readers, desired, device>>
  BY DEF Streaming!Closes
<1>2. subLink' \in LinkTypes /\ subLink'.stage = "down" /\ device' \in DeviceTypes
  BY <1>1 DEF StreamingInv, StreamingShape, LinkTypes
<1> QED
  BY <1>1, <1>2, ClearingKeeps

LEMMA ReadZwaveKeeps ==
  ASSUME StreamingInv, Streaming!ReadZwave
  PROVE  StreamingInv'
<1>0. StreamingShape /\ home \in HomeTypes
  BY DEF StreamingInv, StreamingShape
<1>1. /\ home' = [home EXCEPT !.created = TRUE]
      /\ UNCHANGED <<subLink, readers, cache, desired, subOut, subIn, device, missed>>
  BY DEF Streaming!ReadZwave
<1>2. home' \in HomeTypes /\ home'.observed = home.observed /\ home'.info = home.info
  BY <1>0, <1>1 DEF HomeTypes
<1>3. StreamingShape'
  BY <1>0, <1>1, <1>2 DEF StreamingShape
<1>4. \A c \in Channels : (Held(c)' <=> Held(c)) /\ (HeldSince(c, subLink.n)' <=> HeldSince(c, subLink.n))
  BY <1>1 DEF Held, HeldSince
<1>5. LastWords' = LastWords
  BY <1>1 DEF LastWords
<1>6. CacheIsWhatIsHeld'
  BY <1>1, <1>4, <1>5, HeldKeeps
<1>7. HomeWillBeKnown' /\ NewLinksAreClean'
  BY <1>1, <1>2 DEF StreamingInv, HomeWillBeKnown, Known, NewLinksAreClean
<1> QED
  BY <1>3, <1>6, <1>7 DEF StreamingInv

LEMMA StreamingStep == StreamingInv /\ [Streaming!Next]_subVars => StreamingInv'
<1> SUFFICES ASSUME StreamingInv, [Streaming!Next]_subVars PROVE StreamingInv'
  OBVIOUS
<1>1. ASSUME NEW r \in Readers, Streaming!FirstRead(r) PROVE StreamingInv'
  BY <1>1, FirstReadKeeps
<1>2. ASSUME NEW r \in Readers, Streaming!CloseReader(r) PROVE StreamingInv'
  BY <1>2, CloseKeeps
<1>3. ASSUME NEW r \in Readers, Streaming!Frames(r) PROVE StreamingInv'
  <2>0. home \in HomeTypes
    BY DEF StreamingInv, StreamingShape
  <2>1. Streaming!OpenReader(r, "zwave") /\ home' = [home EXCEPT !.created = TRUE]
    BY <1>3 DEF Streaming!Frames
  <2>2. home' \in HomeTypes /\ home'.observed = home.observed /\ home'.info = home.info
    BY <2>0, <2>1 DEF HomeTypes
  <2> QED
    BY <2>1, <2>2, OpenKeeps
<1>4. ASSUME NEW r \in Readers, NEW c, Streaming!OpenReader(r, c), UNCHANGED home PROVE StreamingInv'
  <2>1. home' \in HomeTypes
    BY <1>4 DEF StreamingInv, StreamingShape
  <2> QED
    BY <1>4, <2>1, OpenKeeps
<1>5. ASSUME NEW r \in Readers,
             Streaming!Advertisements(r) \/ Streaming!ConnectionsFree(r) \/ Streaming!Notify(r)
      PROVE  StreamingInv'
  BY <1>4, <1>5 DEF Streaming!Advertisements, Streaming!ConnectionsFree, Streaming!Notify
<1>6. ASSUME NEW r \in Readers, NEW i \in Ports, Streaming!Data(r, i) PROVE StreamingInv'
  BY <1>4, <1>6 DEF Streaming!Data
<1>7. ASSUME NEW i \in Intents, NEW value \in 0..2, Streaming!Subscribe(i, value) PROVE StreamingInv'
  BY <1>7, SubscribeKeeps
<1>8. ASSUME NEW h \in HomeIds, Streaming!DeviceHomeChanges(h) PROVE StreamingInv'
  BY <1>8, HomeKeeps
<1>9. CASE UNCHANGED subVars
  <2>1. UNCHANGED <<subLink, readers, cache, desired, subOut, subIn, device, home, missed>>
    BY <1>9 DEF subVars
  <2>2. LastWords' = LastWords
    BY <2>1 DEF LastWords
  <2>3. \A c \in Channels : (Held(c)' <=> Held(c)) /\ (HeldSince(c, subLink.n)' <=> HeldSince(c, subLink.n))
    BY <2>1 DEF Held, HeldSince
  <2>4. CacheIsWhatIsHeld'
    BY <2>1, <2>2, <2>3, HeldKeeps
  <2>5. StreamingShape'
    BY <2>1 DEF StreamingInv, StreamingShape
  <2> QED
    BY <2>1, <2>4, <2>5 DEF StreamingInv, HomeWillBeKnown, Known, NewLinksAreClean
<1>10. CASE Streaming!Next
  BY <1>1, <1>2, <1>3, <1>5, <1>6, <1>7, <1>8, <1>10, ReadZwaveKeeps, TakeKeeps, AcceptHomeKeeps,
     OpensKeeps, EstablishedKeeps, BreaksKeeps, ClosesKeeps DEF Streaming!Next
<1> QED
  BY <1>9, <1>10

LEMMA StreamingIsRight ==
  StreamingInv => Streaming!TypeOK /\ Streaming!DeviceServesTheDesired /\ Streaming!HomeIsCurrent
<1> SUFFICES ASSUME StreamingInv
             PROVE  Streaming!TypeOK /\ Streaming!DeviceServesTheDesired /\ Streaming!HomeIsCurrent
  OBVIOUS
<1>1. Streaming!TypeOK
  BY DEF StreamingInv, StreamingShape, Streaming!TypeOK, LinkTypes, ReaderTypes, DeviceTypes, HomeTypes
<1>2. Streaming!DeviceServesTheDesired
  <2> SUFFICES ASSUME subLink.stage = "up", subOut = <<>>
               PROVE  /\ \A c \in Channels \ (Retained \cup Replayed) :
                           (device.sends[c] = 1) = (Streaming!Holders(c, readers) # {})
                      /\ \A c \in Retained : Streaming!Holders(c, readers) # {} => device.sends[c] = 1
                      /\ \A c \in Replayed :
                           (\E r \in Streaming!Holders(c, readers) : readers[r].since < subLink.n)
                             => device.sends[c] = 1
                      /\ \A i \in Intents : device.sends[i] = desired[i]
    BY DEF Streaming!DeviceServesTheDesired
  <2>1. \A p \in LastWords : device.sends[p[1]] = p[2]
    <3>1. 1..Len(subOut) = {}
      OBVIOUS
    <3> QED
      BY <3>1 DEF LastWords
  <2>2. \A k, v : <<k, v>> \in LastWords => device.sends[k] = v
    BY <2>1
  <2>3. \A c \in Channels \ Replayed : device.sends[c] = IF cache[c] THEN 1 ELSE 0
    BY <2>2 DEF StreamingInv, CacheIsWhatIsHeld
  <2>4. /\ \A c \in Channels \ (Retained \cup Replayed) : cache[c] <=> Held(c)
        /\ \A c \in Retained : Held(c) => cache[c]
        /\ \A c \in Replayed : HeldSince(c, subLink.n) => device.sends[c] = 1
        /\ \A i \in Intents : device.sends[i] = desired[i]
    BY <2>2 DEF StreamingInv, CacheIsWhatIsHeld
  <2>5. \A c \in Channels \ (Retained \cup Replayed) :
          (device.sends[c] = 1) = (Streaming!Holders(c, readers) # {})
    BY <2>3, <2>4, HeldIsHolders
  <2>6. \A c \in Retained : Streaming!Holders(c, readers) # {} => device.sends[c] = 1
    BY <2>3, <2>4, HeldIsHolders, SubApisAssumption
  <2>7. \A c \in Replayed :
          (\E r \in Streaming!Holders(c, readers) : readers[r].since < subLink.n) => device.sends[c] = 1
    BY <2>4, HeldIsHolders
  <2> QED
    BY <2>4, <2>5, <2>6, <2>7
<1>3. Streaming!HomeIsCurrent
  <2> SUFFICES ASSUME subLink.stage = "up", subIn = <<>>, ~missed
               PROVE  Streaming!HomeId = IF device.home > 0 THEN device.home ELSE None
    BY DEF Streaming!HomeIsCurrent
  <2>1. device.home = Known
    BY DEF StreamingInv, HomeWillBeKnown
  <2> QED
    BY <2>1 DEF Streaming!HomeId, Known
<1> QED
  BY <1>1, <1>2, <1>3

-----------------------------------------------------------------------------
(* The types of the requests, and the sum of the parts. *)

RestTypes ==
  /\ link \in BOOLEAN /\ connected \subseteq Addresses /\ cause \in Calls \cup {None}
  /\ sent \in [Calls -> 0..MaxBatches]
  /\ accumulator \in [Addresses -> Seq(Frames) \cup {None}]
  /\ services \in [Calls -> Seq(Frames) \cup {None}]

LEMMA RestStep == IInv /\ RestTypes /\ [Next]_vars => RestTypes'
<1> SUFFICES ASSUME IInv, RestTypes, [Next]_vars PROVE RestTypes'
  OBVIOUS
<1>0. \A a \in Addresses : accumulator[a] \in Seq(Frames) \cup {None}
  BY DEF RestTypes
<1>1. \A c \in Calls, o \in Ops, a \in Addresses :
        Seed(o, a) => accumulator' \in [Addresses -> Seq(Frames) \cup {None}]
  <2>1. <<>> \in Seq(Frames)
    OBVIOUS
  <2> QED
    BY <2>1 DEF Seed, RestTypes
<1>2. CASE Application
  <2>1. UNCHANGED <<link, connected, sent, services>> /\ cause' = None
    <3>1. ASSUME NEW c \in Calls, NEW o \in Ops, NEW a \in Addresses,
                 Request(c, o, a) \/ RequestAborted(c, o, a) \/ Refuse(c, o, a) \/ WriteWithoutResponse(c, a)
          PROVE  UNCHANGED <<link, connected, sent, services>> /\ cause' = None
      <4>1. \E v : Ask(c, v, a)
        BY <3>1 DEF Request, RequestAborted, Refuse, WriteWithoutResponse
      <4> QED
        BY <4>1 DEF Ask
    <3>2. ASSUME NEW c \in Calls, GiveUp(c)
          PROVE  UNCHANGED <<link, connected, sent, services>> /\ cause' = None
      BY <3>2 DEF GiveUp
    <3>3. Discovery \in Ops
      BY DEF Ops, Discovery
    <3> QED
      BY <1>2, <3>1, <3>2, <3>3, Zenon DEF Application
  <2>2. accumulator' \in [Addresses -> Seq(Frames) \cup {None}]
    BY <1>1, <1>2 DEF Application, Request, RequestAborted, Refuse, WriteWithoutResponse, GiveUp, RestTypes
  <2> QED
    BY <2>1, <2>2 DEF RestTypes
<1>3. ASSUME NEW a \in Addresses, NEW up, Report(a, up)
      PROVE  connected' \subseteq Addresses /\ UNCHANGED <<accumulator, sent, services>>
  BY <1>3 DEF Report, RestTypes
<1>4. CASE \E r \in Calls : AcceptResponse(r) \/ AcceptAdminError(r) \/ AcceptGattError(r)
  <2>1. UNCHANGED <<link, accumulator, connected, sent, services>> /\ cause' \in Calls
    BY <1>4 DEF AcceptResponse, AcceptAdminError, AcceptGattError, Answer, Frame
  <2> QED
    BY <2>1 DEF RestTypes
<1>5. CASE \E r \in Calls : AcceptConnection(r)
  <2>1. PICK r \in Calls : AcceptConnection(r)
    BY <1>5
  <2>2. address[r] \in Addresses
    BY DEF IInv, Shape
  <2>3. UNCHANGED link /\ cause' = r /\ \E up : Report(address[r], up)
    BY <2>1 DEF AcceptConnection, Answer, Frame
  <2> QED
    BY <1>3, <2>2, <2>3 DEF RestTypes
<1>6. CASE \E a \in Addresses : AcceptUnsolicited(a)
  <2>1. UNCHANGED link /\ cause' = None /\ \E a \in Addresses : Report(a, FALSE)
    BY <1>6 DEF AcceptUnsolicited
  <2> QED
    BY <1>3, <2>1 DEF RestTypes
<1>7. CASE \E r \in Calls : AcceptServices(r)
  <2>1. PICK r \in Calls : AcceptServices(r)
    BY <1>7
  <2> DEFINE a == address[r]
             f == <<r, sent'[r]>>
  <2>2. /\ sent[r] < MaxBatches /\ sent' = [sent EXCEPT ![r] = @ + 1]
        /\ accumulator' = IF accumulator[a] = None THEN accumulator
                          ELSE [accumulator EXCEPT ![a] = Append(@, f)]
        /\ UNCHANGED <<link, connected, services>> /\ cause' = r
    BY <2>1 DEF AcceptServices, Frame
  <2>3. a \in Addresses
    BY DEF IInv, Shape
  <2>4. sent[r] + 1 \in 1..MaxBatches /\ sent'[r] = sent[r] + 1
    <3>1. sent[r] \in 0..MaxBatches
      BY DEF RestTypes
    <3>2. sent[r] + 1 \in 1..MaxBatches
      BY <2>2, <3>1, BluetoothAssumption
    <3>3. sent'[r] = sent[r] + 1
      BY <2>2 DEF RestTypes
    <3> QED
      BY <3>2, <3>3
  <2>5. f \in Frames
    BY <2>4 DEF Frames
  <2>6. sent' \in [Calls -> 0..MaxBatches]
    <3>1. sent[r] + 1 \in 0..MaxBatches
      BY <2>4
    <3> QED
      BY <2>2, <3>1 DEF RestTypes
  <2> HIDE DEF f
  <2>7. accumulator' \in [Addresses -> Seq(Frames) \cup {None}]
    <3>1. CASE accumulator[a] = None
      BY <2>2, <3>1 DEF RestTypes
    <3>2. CASE accumulator[a] # None
      <4>1. Append(accumulator[a], f) \in Seq(Frames)
        BY <1>0, <2>3, <2>5, <3>2
      <4> QED
        BY <2>2, <3>2, <4>1 DEF RestTypes
    <3> QED
      BY <3>1, <3>2
  <2> QED
    BY <2>2, <2>6, <2>7 DEF RestTypes
<1>8. CASE \E r \in Calls : AcceptServicesDone(r)
  <2>1. PICK r \in Calls : AcceptServicesDone(r)
    BY <1>8
  <2> DEFINE a == address[r]
             c == entries[<<Discovery, a>>]
  <2>2. /\ UNCHANGED <<link, connected, sent>> /\ cause' = r
        /\ accumulator' = [accumulator EXCEPT ![a] = None]
        /\ \/ services' = services
           \/ services' = [services EXCEPT ![c] = accumulator[a]]
    BY <2>1 DEF AcceptServicesDone, Answer, Frame
  <2>3. a \in Addresses
    BY DEF IInv, Shape
  <2>4. accumulator' \in [Addresses -> Seq(Frames) \cup {None}]
    BY <2>2 DEF RestTypes
  <2>5. services' \in [Calls -> Seq(Frames) \cup {None}]
    BY <1>0, <2>2, <2>3 DEF RestTypes
  <2> QED
    BY <2>2, <2>4, <2>5 DEF RestTypes
<1>9. CASE \E r \in Calls : Silence(r)
  BY <1>9 DEF Silence, RestTypes
<1>10. CASE \E c \in Calls : Finally(c)
  <2>1. PICK c \in Calls : Finally(c)
    BY <1>10
  <2>2. /\ UNCHANGED <<link, connected, sent, services>> /\ cause' = None
        /\ accumulator' = [accumulator EXCEPT ![address[c]] = None]
    BY <2>1 DEF Finally
  <2> QED
    BY <2>2 DEF RestTypes
<1>11. CASE ClearConnectionState
  <2>1. /\ link' = FALSE /\ connected' = {} /\ cause' = None /\ UNCHANGED <<sent, services>>
        /\ accumulator' = [a \in Addresses |-> None]
    BY <1>11 DEF ClearConnectionState
  <2> QED
    BY <2>1 DEF RestTypes
<1>12. CASE Attach \/ UNCHANGED vars
  <2>1. UNCHANGED <<connected, sent, services, accumulator>> /\ link' \in BOOLEAN /\ cause' \in {cause, None}
    BY <1>12 DEF Attach, vars, RestTypes
  <2> QED
    BY <2>1 DEF RestTypes
<1> QED
  BY <1>2, <1>4, <1>5, <1>6, <1>7, <1>8, <1>9, <1>10, <1>11, <1>12 DEF Next, Device

LEMMA InitRest == Init => RestTypes
<1> SUFFICES ASSUME Init PROVE RestTypes
  OBVIOUS
<1>1. sent \in [Calls -> 0..MaxBatches]
  <2>1. 0 \in 0..MaxBatches
    BY BluetoothAssumption
  <2> QED
    BY <2>1 DEF Init
<1> QED
  BY <1>1 DEF Init, RestTypes

LEMMA RequestsAreTyped == IInv /\ WholeShape /\ RestTypes => TypeOK
BY DEF IInv, Shape, Keys, UnwindingIsSettled, WholeShape, RestTypes, TypeOK

MCInv == IInv /\ WholeShape /\ WholeInv /\ RestTypes /\ AskingInv /\ StreamingInv

LEMMA PartsStart == MCInit => MCInv
BY InitHolds, InitWhole, InitRest, AskingStarts, StreamingStarts DEF MCInit, MCInv

LEMMA PartsStep == MCInv /\ [MCNext]_mcVars => MCInv'
<1> SUFFICES ASSUME MCInv, [MCNext]_mcVars PROVE MCInv'
  OBVIOUS
<1>1. [Next]_vars /\ [Asking!Next]_callVars /\ [Streaming!Next]_subVars
  BY DEF MCNext, mcVars
<1> QED
  BY <1>1, StepKeeps, StepIsWhole, RestStep, CallsStep, StreamingStep DEF MCInv

\* The sub-APIs' calls and subscriptions keep their word, whatever the serial instances, the
\* channels, the homes and the number of connections: an answer without an id is its call's own, no
\* call waits beyond its connection, what is cached was told on this one; the device serves what is
\* held and desired, and homeId() is its home.
THEOREM SubApisKeepTheirPromises == MCSpec => []SubApisKeepTheirWord
<1>1. MCInv => SubApisKeepTheirWord
  BY AskingIsRight, StreamingIsRight DEF MCInv, SubApisKeepTheirWord
<1> QED
  BY <1>1, PartsStart, PartsStep, PTL DEF MCSpec

\* Type correctness of the three parts.
THEOREM TypesAreCorrect == MCSpec => []MCTypeOK
<1>1. MCInv => MCTypeOK
  BY RequestsAreTyped, AskingIsRight, StreamingIsRight DEF MCInv, MCTypeOK
<1> QED
  BY <1>1, PartsStart, PartsStep, PTL DEF MCSpec
=============================================================================
