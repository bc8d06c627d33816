----------------------------- MODULE MCRelayAccess -----------------------------
(* RelayAccess on small instances. *)
EXTENDS RelayAccess, TLC

Symmetry == Permutations(Requests) \cup Permutations(Replicas) \cup Permutations(Creds)
=============================================================================
