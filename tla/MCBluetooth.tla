---------------------------- MODULE MCBluetooth ----------------------------
(***************************************************************************)
(* Model checking of the sub-APIs: Bluetooth's requests, the calls of the  *)
(* serial, voice and key-setting APIs, and the subscriptions of all of     *)
(* them.  The initial state says which one runs; the state spaces do not   *)
(* mix.                                                                    *)
(***************************************************************************)
EXTENDS Bluetooth, TLC

CONSTANTS
  Callers, Instances, MaxLinks, MaxAsked,
  Readers, Ports, Channels, SharedChannels, Retained, Replayed, Intents, HomeIds, MaxSent, MaxHomes

VARIABLES
  part,
  callLink, calls, callOut, callIn, cached, asked, late,
  subLink, readers, cache, desired, subOut, subIn, device, home, missed

Asking == INSTANCE ProxyCalls WITH link <- callLink, out <- callOut, in <- callIn
Streaming == INSTANCE ProxySubscriptions WITH link <- subLink, out <- subOut, in <- subIn

callVars == <<callLink, calls, callOut, callIn, cached, asked, late>>
subVars == <<subLink, readers, cache, desired, subOut, subIn, device, home, missed>>
mcVars == <<part, vars, callVars, subVars>>

\* What the channels and intents are names of, and that a home is a number (0 is none).
ASSUME SubApisAssumption ==
  /\ HomeIds \subseteq Nat /\ 0 \in HomeIds /\ None \notin HomeIds
  /\ IsFiniteSet(Channels) /\ IsFiniteSet(Intents)
  /\ Channels # {} /\ Channels \cap Intents = {}
  /\ Retained \subseteq Channels /\ Replayed \subseteq Channels /\ Retained \cap Replayed = {}
  /\ MaxLinks \in Nat /\ MaxAsked \in Nat

Symmetry == Permutations(Calls) \cup Permutations(Addresses)

\* Of the parts that do not run, one initial state each.
MCInit ==
  /\ part \in {"bluetooth", "calls", "subscriptions", "sharing"}
  /\ Init /\ Asking!Init /\ Streaming!Init
  /\ part # "bluetooth" => \A c \in Calls : address[c] = CHOOSE a \in Addresses : TRUE
  /\ part # "subscriptions" => device.home = 0

\* Bounds of the subscriptions: one stream beside all that there is to subscribe to, or as many as
\* there are over the channels that they share, with nothing else going on.
OneReader == \A r \in Readers : readers'[r].stage # "none" => r = CHOOSE first \in Readers : TRUE

OnlyShared ==
  /\ \A r \in Readers : readers'[r].stage # "none" => readers'[r].channel \in SharedChannels
  /\ desired' = desired /\ ~home'.created /\ device'.home = 0

MCNext ==
  \/ part = "bluetooth" /\ Next /\ UNCHANGED <<part, callVars, subVars>>
  \/ part = "calls" /\ Asking!Next /\ UNCHANGED <<part, vars, subVars>>
  \/ part = "subscriptions" /\ Streaming!Next /\ OneReader /\ UNCHANGED <<part, vars, callVars>>
  \/ part = "sharing" /\ Streaming!Next /\ OnlyShared /\ UNCHANGED <<part, vars, callVars>>

MCSpec == MCInit /\ [][MCNext]_mcVars
-----------------------------------------------------------------------------
\* The types of the three parts.
MCTypeOK == TypeOK /\ Asking!TypeOK /\ Streaming!TypeOK

\* The sub-APIs over reconnects, timeouts and late answers.  Calls: an answer without an id is the
\* call's own and of its connection, no call outlives its connection, what is cached was told on it.
\* Subscriptions: the device serves what is held and desired, homeId() tells its home.
SubApisKeepTheirWord ==
  /\ Asking!AnswersAreTheirOwn /\ Asking!NoCallOutlivesItsConnection /\ Asking!CacheIsOfThisConnection
  /\ Streaming!DeviceServesTheDesired /\ Streaming!HomeIsCurrent
=============================================================================
