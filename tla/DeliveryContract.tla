--------------------------- MODULE DeliveryContract ---------------------------
(***************************************************************************)
(* What the Relay's persistent queue promises, without leases, clocks,     *)
(* rows or statements.  A message id is absent, queued or delivered.       *)
(* A connection takes queued messages, hands each one to its device at     *)
(* most once, and a message becomes delivered only when it has been handed *)
(* over.  RelayDelivery implements this contract.                          *)
(***************************************************************************)

CONSTANTS Messages,     \* message ids
          Conns         \* connections of recipient devices

VARIABLES status,       \* [Messages -> {"absent", "queued", "delivered"}]
          holding,      \* [Conns -> SUBSET Messages]: taken, not handed over
          wire          \* message ids handed to some connection so far

contractVars == <<status, holding, wire>>

Init ==
    /\ status = [m \in Messages |-> "absent"]
    /\ holding = [c \in Conns |-> {}]
    /\ wire = {}

Accept(m) ==
    /\ status[m] = "absent"
    /\ status' = [status EXCEPT ![m] = "queued"]
    /\ UNCHANGED <<holding, wire>>

\* Only queued messages can be taken: a delivered one never is again.
Take(c, S) ==
    /\ holding[c] = {}
    /\ \A m \in S : status[m] = "queued"
    /\ holding' = [holding EXCEPT ![c] = S]
    /\ UNCHANGED <<status, wire>>

HandOver(c, m) ==
    /\ m \in holding[c]
    /\ holding' = [holding EXCEPT ![c] = @ \ {m}]
    /\ wire' = wire \cup {m}
    /\ UNCHANGED status

\* Nothing is recorded as delivered that was never handed over.
Confirm(m) ==
    /\ status[m] = "queued"
    /\ m \in wire
    /\ status' = [status EXCEPT ![m] = "delivered"]
    /\ UNCHANGED <<holding, wire>>

Release(c) ==
    /\ holding' = [holding EXCEPT ![c] = {}]
    /\ UNCHANGED <<status, wire>>

Forget(S) ==
    /\ status' = [m \in Messages |-> IF m \in S THEN "absent" ELSE status[m]]
    /\ UNCHANGED <<holding, wire>>

Next ==
    \/ \E m \in Messages : Accept(m) \/ Confirm(m)
    \/ \E c \in Conns : Release(c)
    \/ \E c \in Conns, m \in Messages : HandOver(c, m)
    \/ \E c \in Conns, S \in SUBSET Messages : Take(c, S)
    \/ \E S \in SUBSET Messages : Forget(S)

Spec == Init /\ [][Next]_contractVars
=============================================================================
