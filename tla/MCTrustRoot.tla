----------------------------- MODULE MCTrustRoot -----------------------------
(* TrustRoot on small instances. *)
EXTENDS TrustRoot, TLC

Symmetry == Permutations(Requests) \cup Permutations(Keys)
=============================================================================
