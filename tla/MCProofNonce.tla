----------------------------- MODULE MCProofNonce -----------------------------
(* ProofNonce on small instances. *)
EXTENDS ProofNonce, TLC

Symmetry == Permutations(Handlers) \cup Permutations(Proofs)
=============================================================================
