----------------------------- MODULE MCCockpit -----------------------------
(* A small instance of Cockpit for TLC. *)
EXTENDS Cockpit

\* An address that two providers share, and one that none has.
MCProvidersOf == [peer \in Peer |-> IF peer = "cdn" THEN {1, 2} ELSE {}]

Reading(freshness, rpm, tpm) == [freshness |-> freshness, rpm |-> rpm, tpm |-> tpm, rpd |-> 0]

\* Nothing, as when the probe fails; rates of zero and unknown ones.
MCStatuses ==
  {[fault |-> TRUE, of |-> [p \in Provider |-> NoSnapshot]],
   [fault |-> FALSE, of |-> [p \in Provider |->
      IF p = 1 THEN Reading("live", 0, 20) ELSE Reading("stale", 3, -1)]]}
=============================================================================
