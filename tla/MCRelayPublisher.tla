-------------------------- MODULE MCRelayPublisher --------------------------
(* Small instances of RelayPublisher for TLC. *)
EXTENDS RelayPublisher, TLC

Symmetry == Permutations(Conn) \cup Permutations(Request)
=============================================================================
