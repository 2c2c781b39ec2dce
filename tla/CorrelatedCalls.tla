-------------------------- MODULE CorrelatedCalls ---------------------------
(* The calls that wait in a Correlator, and the absence of one. *)

CONSTANTS
  Calls,  \* calls that ask the device for an answer
  None    \* no call

ASSUME CallsAssumption == None \notin Calls
=============================================================================
