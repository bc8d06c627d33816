--------------------------- MODULE MCRelayDelivery ---------------------------
(* RelayDelivery on small instances. *)
EXTENDS RelayDelivery, TLC

\* Connections are interchangeable: no definition singles one
\* out.  Used for safety runs only.
Symmetry == Permutations(Conns)
=============================================================================
