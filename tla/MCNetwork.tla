----------------------------- MODULE MCNetwork -----------------------------
(* A small instance of NetworkMonitor for TLC. *)
EXTENDS NetworkMonitor

\* An address that two providers share, one that one of them has alone, and one of neither.
MCProvidersOf == [peer \in Peer |-> CASE peer = "cdn" -> {1, 2}
                                      [] peer = "own" -> {2}
                                      [] OTHER        -> {}]
=============================================================================
