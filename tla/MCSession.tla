------------------------------- MODULE MCSession -------------------------------
(* Session on small instances. *)
EXTENDS Session, TLC

Symmetry == Permutations(SessionIDs)
=============================================================================
