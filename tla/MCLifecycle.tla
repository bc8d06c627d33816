----------------------------- MODULE MCLifecycle -----------------------------
(* Enrollment, ControlFrames and RateLimit on small instances.  Tickets,      *)
(* bundles, control frames and the limiter share no state but clock and keys, *)
(* so a behaviour moves one of them: TLC visits the sum of their states and   *)
(* not the product.                                                           *)
EXTENDS Enrollment, ControlFrames, RateLimit, TLC

VARIABLE focus

\* Of what stands still, one initial state is enough.
Init ==
    /\ EnrollInit /\ ControlInit /\ RateInit
    /\ \/ /\ focus \in {"tickets", "bundles", "rate"}
          /\ focus = "rate" => profile = "production"
          /\ offset = [p \in Peers |-> 0] /\ pinned = [p \in Peers |-> CHOOSE r \in PeerRelays : TRUE]
       \/ focus = "control" /\ profile = "production"

Next ==
    \/ focus = "tickets" /\ (TicketNext \/ DeviceNext) /\ UNCHANGED <<controlVars, rateVars, focus>>
    \/ focus = "bundles" /\ (BundleNext \/ DeviceNext) /\ UNCHANGED <<controlVars, rateVars, focus>>
    \/ focus = "control" /\ ControlNext /\ UNCHANGED <<enrollVars, rateVars, focus>>
    \/ focus = "rate" /\ RateNext /\ UNCHANGED <<enrollVars, controlVars, focus>>

Spec == Init /\ [][Next]_<<enrollVars, controlVars, rateVars, focus>>

Symmetry == Permutations(Replicas) \cup Permutations(Registrations)
=============================================================================
