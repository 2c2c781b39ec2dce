---------------------------- MODULE MCTransport ----------------------------
(***************************************************************************)
(* Model checking of what is between the socket and the message receiver:  *)
(* Transport with the handshake's driver, Noise with its keys, and Codec;  *)
(* of the sub-APIs' own readers and conversions of messages; and of the    *)
(* captures of what came through.  The initial state says which one runs;  *)
(* the state spaces do not mix.  What is a function (the readers, the      *)
(* conversions, a capture's) is evaluated in a state of its own.           *)
(***************************************************************************)
EXTENDS Transport

CONSTANTS
  MaxNonce, MaxAttempts, MaxFaults, MaxSends, MaxRekeys,
  Group, Word, Wide, Fixed32, Fixed64, MaxVarintBytes, Limits, MaxSent, CaptureGroup, MaxFrames

\* Nonces are there for both messages of a handshake, and None is no error, key or result.
ASSUME NoiseAssumption ==
  /\ MaxNonce \in Nat \ {0}
  /\ {MaxAttempts, MaxFaults, MaxSends, MaxRekeys} \subseteq Nat
  /\ None \notin {"ok", "HANDSHAKE_COMPLETE", "MISSING_KEYS", "INVALID_REMOTE_KEY", "TRUNCATED_E",
                  "NONCE_EXHAUSTED", "CT_TOO_SHORT", "AUTH_FAILED", "UNSUPPORTED_TOKEN",
                  "SERVER_NAME_MISMATCH", "NOISE_HANDSHAKE_FAILED", "HANDSHAKE_TIMEOUT"}

\* Words take the tags and the lengths of a message, a varint takes a bigint, and every size is one.
ASSUME CodecAssumption ==
  /\ {Group, Word, Wide, Fixed32, Fixed64, MaxVarintBytes} \subseteq Nat \ {0}
  /\ Group <= Word /\ Word < Wide /\ Wide <= Group * MaxVarintBytes
  /\ 7 <= Word /\ Fixed32 < 2 ^ Word /\ 2 * MaxVarintBytes < 2 ^ Word
  /\ Limits \subseteq Nat /\ MaxSent \in Nat

VARIABLES
  part,
  attempt, keys, step, handshake, cipher, wire, result, faults, rekeys, boxes, sent, received,
  message, buffer, damage, offset, decoded, verdict, limit, state

Cipher == INSTANCE Noise WITH stage <- step
Proto == INSTANCE Codec
Recordings == INSTANCE Capture
Readers == INSTANCE BluetoothCodec WITH Null <- None, Word <- 2 ^ Word
Speaking == INSTANCE ProxyMessages

noiseVars == <<attempt, keys, step, handshake, cipher, wire, result, faults, rekeys, boxes, sent, received>>
codecVars == <<message, buffer, damage, offset, decoded, verdict, limit, state>>
mcVars == <<part, vars, noiseVars, codecVars>>

\* Of the parts that do not run, one initial state each.
MCInit ==
  /\ part \in {"transport", "noise", "codec", "proxies", "capture"}
  /\ Init /\ Cipher!Init /\ Proto!Init
  /\ part # "transport" => kind = "plain" /\ ~psk /\ recvLimit = MaxChunk
  /\ part # "noise" => keys = [client |-> "key", device |-> "key", name |-> "any"]
  /\ part # "codec" => limit = MaxSent

MCNext ==
  \/ part = "transport" /\ Next /\ UNCHANGED <<part, noiseVars, codecVars>>
  \/ part = "noise" /\ Cipher!Next /\ UNCHANGED <<part, vars, codecVars>>
  \/ part = "codec" /\ Proto!Next /\ UNCHANGED <<part, vars, noiseVars>>

MCSpec == MCInit /\ [][MCNext]_mcVars
MCFairSpec == MCSpec /\ (part = "transport" => Fairness)
-----------------------------------------------------------------------------
\* The types of the transport and of the ciphers.
MCTypeOK == TypeOK /\ Cipher!TypeOK

\* Noise: two sides with a pair hold the same fresh keys, no key seals twice under one nonce,
\* only what was sent is read, the key is blamed when it is to blame, and secrets are wiped.
SecretsAreSafe ==
  /\ Cipher!PairsMatch /\ Cipher!NoncesAreFresh /\ Cipher!OnlyWhatWasSent
  /\ Cipher!BlameIsRight /\ Cipher!SecretsAreWiped

\* Codec: bytes are read as what was meant, a lost end is seen, no byte beyond the end is read.
MessagesSurvive ==
  Proto!MessagesSurvive /\ Proto!CutsAreSeen /\ Proto!DecoderIsBounded /\ Proto!WideNumbersSurvive

\* The sub-APIs' messages are read as they were meant, and a damaged part costs only itself.  A
\* capture's replay tells what the recording's host saw.
ReadingsAreFaithful ==
  /\ part = "proxies" => /\ Speaking!EventsMeanWhatWasMeant /\ Speaking!RequestsSayWhatWasAsked
                         /\ Readers!UnknownFieldsAreSkipped /\ Readers!AddressesAreWhole
                         /\ Readers!DamageStaysInside
  /\ part = "capture" => /\ Recordings!CapturesAreWholeOrCorrupt /\ Recordings!ReplayTellsWhatWasRecorded
                         /\ Recordings!ScrubbedInfoTellsNoNames

\* Transport: the handshake ends, and the reader of the iterator hears of the transport's end.
ConnectionsConclude == part = "transport" => HandshakeEnds /\ ReadersHearOfTheEnd
=============================================================================
