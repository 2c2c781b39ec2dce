------------------------------- MODULE Ledger -------------------------------
(***************************************************************************)
(* ReissuableSubscription: consumers subscribe and unsubscribe at any time *)
(* and keep their subscription across reconnects; the device forgets every *)
(* subscription with its connection.  The ledger of subscribers survives,  *)
(* the cache of what the device was last told lives as long as the         *)
(* connection, and a frame goes out only when the two differ.              *)
(*                                                                         *)
(* Every method is synchronous: one step each.  A released symbol is never *)
(* used again by the code, so the model may use its name for a new one.    *)
(***************************************************************************)
EXTENDS Naturals, Sequences, FiniteSets

CONSTANTS
  Handles,        \* release tokens
  Keys,           \* wire keys
  Intents,        \* what a subscriber asks for
  Empty,          \* EMPTY, and "no entry in the cache"
  Reduce(_)       \* options.reduce, on the set of live intents

ASSUME LedgerAssumption ==
  /\ Empty \notin Intents
  /\ Reduce({}) = Empty
  /\ \A S \in SUBSET Intents : S # {} => Reduce(S) \in Intents

VARIABLES
  options,      \* the constructor's: retainOnEmpty, and whether onChange is given (if not,
                \* the ledger only replays on a reconnect)
  subscribers,  \* the ledger: one record per handle
  transport,    \* "none", "up", or "broken": attached, but its socket is gone
  wire          \* the cache, what the device knows, the frames of the last step

vars == <<options, subscribers, transport, wire>>

Desired == Intents \cup {Empty}

TypeOK ==
  /\ options \in [retainOnEmpty : BOOLEAN, onChange : BOOLEAN]
  /\ subscribers \subseteq [handle : Handles, key : Keys, intent : Intents]
  /\ \A r, s \in subscribers : r.handle = s.handle => r = s
  /\ transport \in {"none", "up", "broken"}
  /\ wire \in [cache : [Keys -> Desired], told : [Keys -> Desired],
               frames : [Keys -> Seq(Desired)]]

Nothing == [k \in Keys |-> Empty]
NoFrames == [k \in Keys |-> <<>>]

Init ==
  /\ options \in [retainOnEmpty : BOOLEAN, onChange : BOOLEAN]
  /\ subscribers = {}
  /\ transport = "none"
  /\ wire = [cache |-> Nothing, told |-> Nothing, frames |-> NoFrames]

-----------------------------------------------------------------------------
IntentsFor(k, subs) == {s.intent : s \in {r \in subs : r.key = k}}

Wanted(k, subs) == Reduce(IntentsFor(k, subs))

Quiet == [wire EXCEPT !.frames = NoFrames]

\* frameAndSend(): without a transport the frame is dropped; a broken one loses it.
Send(w, k, d) ==
  IF transport = "up"
  THEN [w EXCEPT !.told[k] = d, !.frames[k] = Append(@, d)]
  ELSE w

\* The cache is set and onChange called.
Change(w, k, d) ==
  LET cached == [w EXCEPT !.cache[k] = d]
  IN  IF options.onChange THEN Send(cached, k, d) ELSE cached

\* Mutant: no comparison with the cache.
RecomputeAlways(w, k, subs) ==
  LET d == Wanted(k, subs)
  IN  IF d = Empty /\ (options.retainOnEmpty \/ w.cache[k] = Empty) THEN w ELSE Change(w, k, d)

\* recompute(): reconcile one key with the cache.
Recompute(w, k, subs) ==
  LET d == Wanted(k, subs)
  IN  IF w.cache[k] = d \/ (d = Empty /\ options.retainOnEmpty) THEN w ELSE Change(w, k, d)

-----------------------------------------------------------------------------
\* Mutant: the token is not unique to the call.
AcquireReusesHandle(h, k, v) ==
  /\ subscribers' = subscribers \cup {[handle |-> h, key |-> k, intent |-> v]}
  /\ wire' = Recompute(Quiet, k, subscribers')
  /\ UNCHANGED <<options, transport>>

Acquire(h, k, v) ==
  /\ \A s \in subscribers : s.handle # h
  /\ subscribers' = subscribers \cup {[handle |-> h, key |-> k, intent |-> v]}
  /\ wire' = Recompute(Quiet, k, subscribers')
  /\ UNCHANGED <<options, transport>>

Release(s) ==
  /\ s \in subscribers
  /\ subscribers' = subscribers \ {s}
  /\ wire' = Recompute(Quiet, s.key, subscribers')
  /\ UNCHANGED <<options, transport>>

\* The socket dies; the session has not heard of it yet.
SocketDies ==
  /\ transport = "up"
  /\ transport' = "broken"
  /\ wire' = Quiet
  /\ UNCHANGED <<options, subscribers>>

\* disconnectInternal(), or the top of connectInternal(): the transport is dropped and
\* clearConnectionState() clears the cache.  A device has no subscription on a new connection.
ClearConnectionState ==
  /\ transport' = "none"
  /\ wire' = [cache |-> Nothing, told |-> Nothing, frames |-> NoFrames]
  /\ UNCHANGED <<options, subscribers>>

\* Mutant: the replay skips what the cache already holds.
ReissueDiffs ==
  LET now == [k \in Keys |-> Wanted(k, subscribers)]
      new(k) == now[k] # wire.cache[k]
  IN  /\ transport = "none"
      /\ transport' = "up"
      /\ wire' = [cache |-> now,
                  told |-> [k \in Keys |-> IF new(k) THEN now[k] ELSE Empty],
                  frames |-> [k \in Keys |-> IF new(k) THEN <<now[k]>> ELSE <<>>]]
      /\ UNCHANGED <<options, subscribers>>

\* connectInternal() attaches the transport and calls reissueOnReconnect(): the cache is
\* cleared and every key with subscribers is sent again, through onReissue or onChange.
ReissueOnReconnect ==
  LET now == [k \in Keys |-> Wanted(k, subscribers)]
  IN  /\ transport = "none"
      /\ transport' = "up"
      /\ wire' = [cache |-> now, told |-> now,
                  frames |-> [k \in Keys |-> IF now[k] = Empty THEN <<>> ELSE <<now[k]>>]]
      /\ UNCHANGED <<options, subscribers>>

Next ==
  \/ \E h \in Handles, k \in Keys, v \in Intents : Acquire(h, k, v)
  \/ \E s \in subscribers : Release(s)
  \/ SocketDies
  \/ ClearConnectionState
  \/ ReissueOnReconnect

Spec == Init /\ [][Next]_vars
-----------------------------------------------------------------------------
\* While a connection is up the device knows exactly what the live subscribers want, and so
\* does the cache: whatever was subscribed, released or reconnected in between, no
\* subscriber is left unserved and no subscription outlives its last subscriber (unless the
\* protocol has no way to take it back).
InSync ==
  (options.onChange /\ transport = "up") =>
    /\ wire.told = wire.cache
    /\ \A k \in Keys :
         wire.cache[k] = Wanted(k, subscribers) \/ (options.retainOnEmpty /\ Wanted(k, subscribers) = Empty)

\* During a connection a frame goes out only to tell the device something new, one frame per
\* call at most, and never from a reissue-only ledger; a reconnect tells the device of
\* exactly the keys that still have subscribers.
FramesCarryNews ==
  IF transport = "none" /\ transport' = "up"
  THEN \A k \in Keys : wire'.frames[k] # <<>> <=> \E s \in subscribers : s.key = k
  ELSE /\ ~options.onChange => wire'.frames = NoFrames
       /\ transport = "up" => \A k \in Keys : wire'.frames[k] # <<>> =>
            Len(wire'.frames[k]) = 1 /\ wire'.told[k] # wire.told[k]
=============================================================================
