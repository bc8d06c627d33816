----------------------------- MODULE MCRelayQueue -----------------------------
(* RelayQueue on small instances. *)
EXTENDS RelayQueue, TLC

Symmetry == Permutations(Conns) \cup Permutations(Devices)
=============================================================================
