------------------------------ MODULE EventBus ------------------------------
(***************************************************************************)
(* One channel of the EventBus: callbacks (on), one-shot promises (once)   *)
(* and streams, each a queue with a high-water mark read by one consumer.  *)
(*                                                                         *)
(* emit() calls the listeners it finds when it starts, one after another.  *)
(* A callback may use the bus while it runs, and emit again: Emissions is  *)
(* a stack.  Which of the listeners is called first does not matter here,  *)
(* so they are sets.                                                       *)
(***************************************************************************)
EXTENDS Naturals, Sequences, FiniteSets, Functions

CONSTANTS
  Callbacks, Onces, Streams,  \* listeners
  HighWater,                  \* highWaterMark
  MaxEmits, MaxDepth          \* bounds: emissions, and emissions inside one another

ASSUME EventBusAssumption ==
  /\ HighWater \in Nat \ {0} /\ MaxEmits \in Nat /\ MaxDepth \in Nat \ {0}
  /\ Callbacks \cap Onces = {} /\ (Callbacks \cup Onces) \cap Streams = {}

VARIABLES
  disposed,   \* this.disposed
  listeners,  \* attached to the emitter
  emissions,  \* emit() calls in progress, innermost first
  emitted,    \* emissions so far; an emission's number is its payload
  once,       \* state of each once() call
  queue, parked, stream,  \* of each stream: its queue, next() waiting, its state
  policy,     \* what it does when the queue is full
  arrived,    \* history: items pushed to each stream while it was open
  got,        \* history: items its consumer received
  dropped,    \* history: items the policy dropped
  told,       \* history: the consumer has seen the end of the stream
  heard       \* history: <<callback, attached>> of the last delivery to a callback

streamVars == <<queue, parked, stream, policy, arrived, got, dropped, told>>
vars == <<disposed, listeners, emissions, emitted, once, streamVars, heard>>

Policies == {"dropOldest", "dropNewest", "throw"}
Listeners == Callbacks \cup Onces \cup Streams
Emission == [payload : Nat, left : SUBSET Listeners, inCallback : BOOLEAN]

TypeOK ==
  /\ disposed \in BOOLEAN
  /\ listeners \subseteq Listeners
  /\ emissions \in Seq(Emission)
  /\ emitted \in Nat
  /\ once \in [Onces -> {"none", "pending", "resolved", "rejected"}]
  /\ queue \in [Streams -> Seq(Nat)] /\ \A s \in Streams : Len(queue[s]) <= HighWater
  /\ parked \in [Streams -> BOOLEAN]
  /\ stream \in [Streams -> {"none", "open", "failed", "finished"}]
  /\ policy \in [Streams -> Policies]
  /\ arrived \in [Streams -> Seq(Nat)]
  /\ got \in [Streams -> Seq(Nat)]
  /\ dropped \in [Streams -> SUBSET Nat]
  /\ told \in [Streams -> BOOLEAN]
  /\ heard \in (Callbacks \X BOOLEAN) \cup {<<>>}

Init ==
  /\ disposed = FALSE
  /\ listeners = {}
  /\ emissions = <<>>
  /\ emitted = 0
  /\ once = [o \in Onces |-> "none"]
  /\ queue = [s \in Streams |-> <<>>]
  /\ parked = [s \in Streams |-> FALSE]
  /\ stream = [s \in Streams |-> "none"]
  /\ policy = [s \in Streams |-> "dropOldest"]
  /\ arrived = [s \in Streams |-> <<>>]
  /\ got = [s \in Streams |-> <<>>]
  /\ dropped = [s \in Streams |-> {}]
  /\ told = [s \in Streams |-> FALSE]
  /\ heard = <<>>

-----------------------------------------------------------------------------
\* User code runs: outside any emission, or in the callback an emission is calling.
UserRuns == emissions # <<>> => Head(emissions).inCallback

(* Subscribing and unsubscribing. *)

On(c) ==
  /\ UserRuns /\ ~disposed
  /\ c \notin listeners
  /\ listeners' = listeners \cup {c}
  /\ heard' = <<>>
  /\ UNCHANGED <<disposed, emissions, emitted, once, streamVars>>

\* The Disposable that on() returned.
Off(c) ==
  /\ UserRuns
  /\ c \in listeners
  /\ listeners' = listeners \ {c}
  /\ heard' = <<>>
  /\ UNCHANGED <<disposed, emissions, emitted, once, streamVars>>

\* A disposed bus makes once() throw.
Once(o) ==
  /\ UserRuns
  /\ once[o] = "none"
  /\ once' = [once EXCEPT ![o] = IF disposed THEN "rejected" ELSE "pending"]
  /\ listeners' = IF disposed THEN listeners ELSE listeners \cup {o}
  /\ heard' = <<>>
  /\ UNCHANGED <<disposed, emissions, emitted, streamVars>>

\* The caller's signal.
AbortOnce(o) ==
  /\ UserRuns
  /\ once[o] = "pending"
  /\ once' = [once EXCEPT ![o] = "rejected"]
  /\ listeners' = listeners \ {o}
  /\ heard' = <<>>
  /\ UNCHANGED <<disposed, emissions, emitted, streamVars>>

\* A disposed bus returns an iterable that has already ended.
OpenStream(s, backpressure) ==
  /\ UserRuns
  /\ stream[s] = "none"
  /\ policy' = [policy EXCEPT ![s] = backpressure]
  /\ stream' = [stream EXCEPT ![s] = IF disposed THEN "finished" ELSE "open"]
  /\ listeners' = IF disposed THEN listeners ELSE listeners \cup {s}
  /\ heard' = <<>>
  /\ UNCHANGED <<disposed, emissions, emitted, once, queue, parked, arrived, got, dropped, told>>

-----------------------------------------------------------------------------
(* emit(). *)

Emit ==
  /\ UserRuns /\ ~disposed
  /\ emitted < MaxEmits /\ Len(emissions) < MaxDepth
  /\ emitted' = emitted + 1
  /\ emissions' = <<[payload |-> emitted', left |-> listeners, inCallback |-> FALSE]>> \o emissions
  /\ heard' = <<>>
  /\ UNCHANGED <<disposed, listeners, once, streamVars>>

\* The next listener of the innermost emission is called.
CallsListener(l) ==
  /\ emissions # <<>>
  /\ l \in Head(emissions).left
  /\ emissions' = [emissions EXCEPT ![1].left = @ \ {l}, ![1].inCallback = (l \in Callbacks)]

\* A removed callback is still in the list that emit() goes through.
CallCallback(c) ==
  /\ CallsListener(c)
  /\ heard' = <<c, c \in listeners>>
  /\ UNCHANGED <<disposed, listeners, emitted, once, streamVars>>

\* The one-shot listener removes itself; called again, or after an abort, it does nothing.
CallOnce(o) ==
  /\ CallsListener(o)
  /\ once' = [once EXCEPT ![o] = IF @ = "pending" THEN "resolved" ELSE @]
  /\ listeners' = listeners \ {o}
  /\ heard' = <<>>
  /\ UNCHANGED <<disposed, emitted, streamVars>>

Returns ==
  /\ emissions # <<>>
  /\ Head(emissions).left = {}
  /\ emissions' = Tail(emissions)
  /\ heard' = <<>>
  /\ UNCHANGED <<disposed, listeners, emitted, once, streamVars>>

-----------------------------------------------------------------------------
(* A stream's push(), called by emit(). *)

Payload == Head(emissions).payload

Pushes(s) ==
  /\ CallsListener(s)
  /\ heard' = <<>>
  /\ arrived' = IF stream[s] = "open" THEN [arrived EXCEPT ![s] = Append(@, Payload)] ELSE arrived
  /\ UNCHANGED <<disposed, emitted, once, policy>>

PushToClosed(s) ==
  /\ Pushes(s)
  /\ stream[s] # "open"
  /\ UNCHANGED <<listeners, queue, parked, stream, got, dropped, told>>

\* Mutant: the consumer stays parked, the item is queued as well as handed over.
PushKeepsParked(s) ==
  /\ Pushes(s)
  /\ stream[s] = "open" /\ parked[s]
  /\ queue' = [queue EXCEPT ![s] = Append(@, Payload)]
  /\ UNCHANGED <<listeners, parked, stream, got, dropped, told>>

PushToParked(s) ==
  /\ Pushes(s)
  /\ stream[s] = "open" /\ parked[s]
  /\ parked' = [parked EXCEPT ![s] = FALSE]
  /\ got' = [got EXCEPT ![s] = Append(@, Payload)]
  /\ UNCHANGED <<listeners, queue, stream, dropped, told>>

PushToQueue(s) ==
  /\ Pushes(s)
  /\ stream[s] = "open" /\ ~parked[s]
  /\ Len(queue[s]) < HighWater
  /\ queue' = [queue EXCEPT ![s] = Append(@, Payload)]
  /\ UNCHANGED <<listeners, parked, stream, got, dropped, told>>

\* Mutant: the oldest item is dropped only once the mark is exceeded.
PushPastMark(s) ==
  /\ Pushes(s)
  /\ stream[s] = "open" /\ ~parked[s]
  /\ Len(queue[s]) >= HighWater
  /\ queue' = [queue EXCEPT ![s] = IF Len(@) > HighWater THEN Append(Tail(@), Payload) ELSE Append(@, Payload)]
  /\ dropped' = [dropped EXCEPT ![s] = IF Len(queue[s]) > HighWater THEN @ \cup {Head(queue[s])} ELSE @]
  /\ UNCHANGED <<listeners, parked, stream, got, told>>

\* The queue is full: the policy decides.
PushToFull(s) ==
  /\ Pushes(s)
  /\ stream[s] = "open" /\ ~parked[s]
  /\ Len(queue[s]) >= HighWater
  /\ CASE policy[s] = "dropOldest" ->
            /\ queue' = [queue EXCEPT ![s] = Append(Tail(@), Payload)]
            /\ dropped' = [dropped EXCEPT ![s] = @ \cup {Head(queue[s])}]
            /\ UNCHANGED <<listeners, stream>>
       [] policy[s] = "dropNewest" ->
            /\ dropped' = [dropped EXCEPT ![s] = @ \cup {Payload}]
            /\ UNCHANGED <<listeners, queue, stream>>
       [] policy[s] = "throw" ->
            /\ dropped' = [dropped EXCEPT ![s] = @ \cup {Payload}]
            /\ stream' = [stream EXCEPT ![s] = "failed"]
            /\ listeners' = listeners \ {s}
            /\ UNCHANGED queue
  /\ UNCHANGED <<parked, got, told>>

-----------------------------------------------------------------------------
(* The consumer: next() and return(), one call at a time. *)

\* Mutant: the queue is read from its newest end.
NextPops(s) ==
  /\ UserRuns
  /\ stream[s] # "none" /\ ~parked[s] /\ ~told[s]
  /\ CASE queue[s] # <<>> ->
            /\ queue' = [queue EXCEPT ![s] = SubSeq(@, 1, Len(@) - 1)]
            /\ got' = [got EXCEPT ![s] = Append(@, queue[s][Len(queue[s])])]
            /\ UNCHANGED <<parked, told>>
       [] queue[s] = <<>> /\ stream[s] # "open" ->
            /\ told' = [told EXCEPT ![s] = TRUE]
            /\ UNCHANGED <<queue, got, parked>>
       [] OTHER ->
            /\ parked' = [parked EXCEPT ![s] = TRUE]
            /\ UNCHANGED <<queue, got, told>>
  /\ heard' = <<>>
  /\ UNCHANGED <<disposed, listeners, emissions, emitted, once, stream, policy, arrived, dropped>>

\* next(): the queue first, then the end of the stream, else the consumer is parked.
NextItem(s) ==
  /\ UserRuns
  /\ stream[s] # "none" /\ ~parked[s] /\ ~told[s]
  /\ CASE queue[s] # <<>> ->
            /\ queue' = [queue EXCEPT ![s] = Tail(@)]
            /\ got' = [got EXCEPT ![s] = Append(@, Head(queue[s]))]
            /\ UNCHANGED <<parked, told>>
       [] queue[s] = <<>> /\ stream[s] # "open" ->
            /\ told' = [told EXCEPT ![s] = TRUE]
            /\ UNCHANGED <<queue, got, parked>>
       [] OTHER ->
            /\ parked' = [parked EXCEPT ![s] = TRUE]
            /\ UNCHANGED <<queue, got, told>>
  /\ heard' = <<>>
  /\ UNCHANGED <<disposed, listeners, emissions, emitted, once, stream, policy, arrived, dropped>>

\* fail() and finish(): a parked consumer is told at once, the listener goes.
Ends(S, how) ==
  /\ stream' = [s \in Streams |-> IF s \in S THEN how ELSE stream[s]]
  /\ parked' = [s \in Streams |-> parked[s] /\ s \notin S]
  /\ told' = [s \in Streams |-> told[s] \/ (s \in S /\ parked[s])]
  /\ UNCHANGED <<queue, policy, arrived, got, dropped>>

AbortStream(s) ==
  /\ UserRuns
  /\ stream[s] = "open"
  /\ Ends({s}, "failed")
  /\ listeners' = listeners \ {s}
  /\ heard' = <<>>
  /\ UNCHANGED <<disposed, emissions, emitted, once>>

\* return(): the consumer leaves its loop; nobody will call next() again.
Return(s) ==
  /\ UserRuns
  /\ stream[s] # "none" /\ ~parked[s] /\ ~told[s]
  /\ stream' = [stream EXCEPT ![s] = IF @ = "open" THEN "finished" ELSE @]
  /\ told' = [told EXCEPT ![s] = TRUE]
  /\ listeners' = listeners \ {s}
  /\ heard' = <<>>
  /\ UNCHANGED <<disposed, emissions, emitted, once, queue, parked, policy, arrived, got, dropped>>

-----------------------------------------------------------------------------
Open == {s \in Streams : stream[s] = "open"}

\* Mutant: only the flag is set; what is pending stays pending.
DisposeQuietly ==
  /\ UserRuns /\ ~disposed
  /\ disposed' = TRUE
  /\ heard' = <<>>
  /\ UNCHANGED <<listeners, emissions, emitted, once, streamVars>>

\* dispose(): pending once() calls reject, streams finish, every listener goes.
Dispose ==
  /\ UserRuns /\ ~disposed
  /\ disposed' = TRUE
  /\ once' = [o \in Onces |-> IF once[o] = "pending" THEN "rejected" ELSE once[o]]
  /\ Ends(Open, "finished")
  /\ listeners' = {}
  /\ heard' = <<>>
  /\ UNCHANGED <<emissions, emitted>>

Next ==
  \/ \E c \in Callbacks : On(c) \/ Off(c) \/ CallCallback(c)
  \/ \E o \in Onces : Once(o) \/ AbortOnce(o) \/ CallOnce(o)
  \/ \E s \in Streams :
       \/ (\E p \in Policies : OpenStream(s, p)) \/ NextItem(s) \/ AbortStream(s) \/ Return(s)
       \/ PushToClosed(s) \/ PushToParked(s) \/ PushToQueue(s) \/ PushToFull(s)
  \/ Emit \/ Returns \/ Dispose

Spec == Init /\ [][Next]_vars

-----------------------------------------------------------------------------
\* A consumer is parked only on an open, attached stream with nothing queued, and a once()
\* call is pending only while its listener is attached: no wake-up is ever lost.
WaitersAreReachable ==
  /\ \A s \in Streams : parked[s] => queue[s] = <<>> /\ stream[s] = "open"
  /\ listeners \cap Streams = Open
  /\ listeners \cap Onces = {o \in Onces : once[o] = "pending"}

\* What a consumer received, and what it has yet to.
Kept(s) == got[s] \o queue[s]

\* Of the items a stream accepted, none comes twice and each is in one place, received, queued
\* or dropped; the consumer receives items in the order they arrived.
ItemsKeepTheirOrder ==
  \A s \in Streams :
    /\ \A i, j \in 1..Len(arrived[s]) : arrived[s][i] = arrived[s][j] => i = j
    /\ Range(Kept(s)) = Range(arrived[s]) \ dropped[s]
    /\ \A i, j \in 1..Len(Kept(s)) :
         i < j => \E p, q \in 1..Len(arrived[s]) :
                    p < q /\ arrived[s][p] = Kept(s)[i] /\ arrived[s][q] = Kept(s)[j]

\* A disposed bus keeps nobody waiting.
DisposeSettlesAll ==
  disposed => /\ \A s \in Streams : ~parked[s] /\ stream[s] # "open"
              /\ \A o \in Onces : once[o] # "pending"
              /\ listeners = {}

(* Statements of the comments that the code does not keep; see README. *)

\* "An on() callback simply stops receiving emissions once its listener is removed."
RemovedCallbacksAreSilent == heard # <<>> => heard[2]

\* "Aborting causes the iterator to throw the abort reason on its next iteration."
AbortEndsIteration ==
  [][\A s \in Streams : stream[s] = "failed" => got'[s] = got[s]]_vars
=============================================================================
