----------------------------- MODULE RelayDelivery -----------------------------
(***************************************************************************)
(* The Relay with PostgreSQL: submission of envelopes (POST                *)
(* /v2/relay/envelopes) and their delivery over WebSocket connections (GET *)
(* /v2/relay/connect), on the tables iscp_relay.messages and               *)
(* iscp_relay.delivery_receipts.  Every SQL statement of a handler commits *)
(* on its own, so each is an action and every other handler, on this or    *)
(* another Relay replica, may run between two of them.                     *)
(*                                                                         *)
(* Columns that hold a time are kept relative to the present: age is       *)
(* now - queued_at, ttl is expires_at - now, claim is                      *)
(* delivery_claimed_until - now.  Tick moves the clock.  Envelope bytes,   *)
(* session ids and payload types are not told apart; authentication of the *)
(* sender and of the connecting device is assumed to have succeeded.       *)
(***************************************************************************)
EXTENDS Integers, FiniteSets

CONSTANTS
    Messages,    \* message ids chosen by senders
    Devices,     \* recipient devices
    Conns,       \* concurrent connect handlers
    Submitters,  \* concurrent envelopes handlers
    Priorities,  \* route.priority values (0..9 in the code)
    TTLs,        \* route.ttl_seconds values, in ticks
    LongTTL,     \* a TTL that outlives every behaviour considered: never ages
    Lease,       \* delivery lease (one minute in the code), in ticks
    ClaimLimit,  \* messages one connection claims (100 in the code)
    MaxAge,      \* bound: rows older than this are not told apart
    MaxFaults    \* bound: connection drops, statement failures and crashes

ASSUME DeliveryConstants ==
    /\ Devices # {}
    /\ Priorities \subseteq Nat /\ Priorities # {}
    /\ LongTTL \in Nat \ {0} /\ TTLs \subseteq 1..LongTTL
    /\ Lease \in Nat \ {0}
    /\ ClaimLimit \in Nat \ {0}
    /\ MaxAge \in Nat
    /\ MaxFaults \in Nat

VARIABLES
    stored,      \* message ids that have a row in iscp_relay.messages
    row,         \* the row of each stored message
    receipt,     \* status column of the message's delivery_receipts row
    sub,         \* envelopes handlers: the message whose receipt is still due
    pc,          \* connect handlers: where each one is
    dev,         \* ... the device it authenticated
    batch,       \* ... messages it claimed and has not written yet
    cur,         \* ... the message it has written and is marking
    faults,      \* faults so far
    wire,        \* history: message ids written to some connection
    lease        \* history: lease left on the claim c made on m's present row

connVars == <<pc, dev, batch, cur>>
vars == <<stored, row, receipt, sub, pc, dev, batch, cur, faults, wire, lease>>
-----------------------------------------------------------------------------
Row == [recipient : Devices, priority : Priorities, age : 0..MaxAge,
        ttl : -1..LongTTL, claim : 0..Lease, delivered : BOOLEAN]

NoRow == [recipient |-> CHOOSE d \in Devices : TRUE,
          priority |-> CHOOSE p \in Priorities : TRUE,
          age |-> 0, ttl |-> -1, claim |-> 0, delivered |-> FALSE]

Receipts == {"none", "queued", "delivered_to_connection"}

\* idle, or between StoreMessage and StoreReceipt of msg
Submission == [pc : {"idle", "stored"}, msg : SUBSET Messages]

NoSubmission == [pc |-> "idle", msg |-> {}]

\* idle -> ready -> sending -> mark_row -> mark_receipt -> sending ... -> idle
ConnectSteps == {"idle", "ready", "sending", "mark_row", "mark_receipt"}

Init ==
    /\ stored = {}
    /\ row = [m \in Messages |-> NoRow]
    /\ receipt = [m \in Messages |-> "none"]
    /\ sub = [s \in Submitters |-> NoSubmission]
    /\ pc = [c \in Conns |-> "idle"]
    /\ dev = [c \in Conns |-> {}]
    /\ batch = [c \in Conns |-> {}]
    /\ cur = [c \in Conns |-> {}]
    /\ faults = 0
    /\ wire = {}
    /\ lease = [c \in Conns |-> [m \in Messages |-> 0]]
-----------------------------------------------------------------------------
(* POST /v2/relay/envelopes *)

\* Mutant: the upsert also clears delivered_at.
UpsertedUndelivers(m, d, p, t) ==
    IF m \in stored
    THEN [row[m] EXCEPT !.priority = p, !.ttl = t, !.delivered = FALSE]
    ELSE [recipient |-> d, priority |-> p, age |-> 0, ttl |-> t,
          claim |-> 0, delivered |-> FALSE]

\* The row after StoreMessage: a first submission inserts it; a repeated one
\* overwrites priority and expires_at and keeps recipient, queued_at,
\* delivered_at and the claim.
Upserted(m, d, p, t) ==
    IF m \in stored
    THEN [row[m] EXCEPT !.priority = p, !.ttl = t]
    ELSE [recipient |-> d, priority |-> p, age |-> 0, ttl |-> t,
          claim |-> 0, delivered |-> FALSE]

StoreMessage(s, m, d, p, t) ==
    /\ sub[s].pc = "idle"
    /\ stored' = stored \cup {m}
    /\ row' = [row EXCEPT ![m] = Upserted(m, d, p, t)]
    /\ sub' = [sub EXCEPT ![s] = [pc |-> "stored", msg |-> {m}]]
    /\ UNCHANGED <<receipt, connVars, faults, wire, lease>>

\* Mutant: a status the schema's CHECK does not know.
StoreReceiptUnknownStatus(s) ==
    /\ sub[s].pc = "stored"
    /\ receipt' = [m \in Messages |->
                      IF m \in sub[s].msg THEN "stored" ELSE receipt[m]]
    /\ sub' = [sub EXCEPT ![s] = NoSubmission]
    /\ UNCHANGED <<stored, row, connVars, faults, wire, lease>>

\* The receipt's status becomes "queued" whatever it was; the sender sees 202.
StoreReceipt(s) ==
    /\ sub[s].pc = "stored"
    /\ receipt' = [m \in Messages |->
                      IF m \in sub[s].msg THEN "queued" ELSE receipt[m]]
    /\ sub' = [sub EXCEPT ![s] = NoSubmission]
    /\ UNCHANGED <<stored, row, connVars, faults, wire, lease>>

\* StoreReceipt fails, or the process dies before it: the row stays.
SubmissionFails(s) ==
    /\ sub[s].pc = "stored"
    /\ faults < MaxFaults
    /\ faults' = faults + 1
    /\ sub' = [sub EXCEPT ![s] = NoSubmission]
    /\ UNCHANGED <<stored, row, receipt, connVars, wire, lease>>
-----------------------------------------------------------------------------
(* GET /v2/relay/connect *)

\* The proof was verified and recordConnection ran.
ConnectionReady(c, d) ==
    /\ pc[c] = "idle"
    /\ pc' = [pc EXCEPT ![c] = "ready"]
    /\ dev' = [dev EXCEPT ![c] = {d}]
    /\ UNCHANGED <<stored, row, receipt, sub, batch, cur, faults, wire, lease>>

\* Mutant: the claim's WHERE clause does not look at delivery_claimed_until.
ClaimableLeased(ds) ==
    {m \in stored : /\ row[m].recipient \in ds
                    /\ ~row[m].delivered
                    /\ row[m].ttl > 0}

Claimable(ds) ==
    {m \in stored : /\ row[m].recipient \in ds
                    /\ ~row[m].delivered
                    /\ row[m].ttl > 0
                    /\ row[m].claim <= 0}

\* ORDER BY priority DESC, queued_at: m comes strictly before n.
Before(m, n) ==
    \/ row[m].priority > row[n].priority
    \/ row[m].priority = row[n].priority /\ row[m].age > row[n].age

\* The sets that LIMIT may select: rows that tie are taken in any order.
FirstOf(S) ==
    {T \in SUBSET S :
        /\ Cardinality(T) = IF Cardinality(S) < ClaimLimit
                            THEN Cardinality(S) ELSE ClaimLimit
        /\ \A m \in T, n \in S \ T : ~Before(n, m)}

\* One statement: select, lock, lease.  RETURNING gives no order, so the
\* batch is a set.
ClaimPendingMessagesFor(c) ==
    /\ pc[c] = "ready"
    /\ \E T \in FirstOf(Claimable(dev[c])) :
        /\ row' = [m \in Messages |->
                      IF m \in T THEN [row[m] EXCEPT !.claim = Lease] ELSE row[m]]
        /\ batch' = [batch EXCEPT ![c] = T]
        /\ lease' = [lease EXCEPT ![c] =
                        [m \in Messages |-> IF m \in T THEN Lease ELSE @[m]]]
    /\ pc' = [pc EXCEPT ![c] = "sending"]
    /\ UNCHANGED <<stored, receipt, sub, dev, cur, faults, wire>>

WriteMessage(c, m) ==
    /\ pc[c] = "sending"
    /\ m \in batch[c]
    /\ pc' = [pc EXCEPT ![c] = "mark_row"]
    /\ batch' = [batch EXCEPT ![c] = @ \ {m}]
    /\ cur' = [cur EXCEPT ![c] = {m}]
    /\ wire' = wire \cup {m}
    /\ UNCHANGED <<stored, row, receipt, sub, dev, faults, lease>>

\* Mutant: a row is marked only while it is leased.
MarkRowLeased(c) ==
    /\ pc[c] = "mark_row"
    /\ row' = [m \in Messages |->
                  IF m \in cur[c] \cap stored /\ row[m].claim > 0
                  THEN [row[m] EXCEPT !.delivered = TRUE, !.claim = 0]
                  ELSE row[m]]
    /\ pc' = [pc EXCEPT ![c] = "mark_receipt"]
    /\ UNCHANGED <<stored, receipt, sub, dev, batch, cur, faults, wire, lease>>

\* MarkMessageDelivered, first statement: by message id, whoever holds the
\* claim; no row, no effect.
MarkRow(c) ==
    /\ pc[c] = "mark_row"
    /\ row' = [m \in Messages |->
                  IF m \in cur[c] \cap stored
                  THEN [row[m] EXCEPT !.delivered = TRUE, !.claim = 0]
                  ELSE row[m]]
    /\ pc' = [pc EXCEPT ![c] = "mark_receipt"]
    /\ UNCHANGED <<stored, receipt, sub, dev, batch, cur, faults, wire, lease>>

\* Mutant: the receipts' UPDATE does not select the message.
MarkReceiptAll(c) ==
    /\ pc[c] = "mark_receipt"
    /\ receipt' = [m \in Messages |->
                      IF receipt[m] = "queued"
                      THEN "delivered_to_connection" ELSE receipt[m]]
    /\ pc' = [pc EXCEPT ![c] = "sending"]
    /\ cur' = [cur EXCEPT ![c] = {}]
    /\ UNCHANGED <<stored, row, sub, dev, batch, faults, wire, lease>>

\* MarkMessageDelivered, second statement.
MarkReceipt(c) ==
    /\ pc[c] = "mark_receipt"
    /\ receipt' = [m \in Messages |->
                      IF m \in cur[c] /\ receipt[m] = "queued"
                      THEN "delivered_to_connection" ELSE receipt[m]]
    /\ pc' = [pc EXCEPT ![c] = "sending"]
    /\ cur' = [cur EXCEPT ![c] = {}]
    /\ UNCHANGED <<stored, row, sub, dev, batch, faults, wire, lease>>

\* connect ignores an error of MarkMessageDelivered and goes on.
MarkFails(c) ==
    /\ pc[c] \in {"mark_row", "mark_receipt"}
    /\ faults < MaxFaults
    /\ faults' = faults + 1
    /\ pc' = [pc EXCEPT ![c] = "sending"]
    /\ cur' = [cur EXCEPT ![c] = {}]
    /\ UNCHANGED <<stored, row, receipt, sub, dev, batch, wire, lease>>

CloseConnection(c) ==
    /\ pc' = [pc EXCEPT ![c] = "idle"]
    /\ dev' = [dev EXCEPT ![c] = {}]
    /\ batch' = [batch EXCEPT ![c] = {}]
    /\ cur' = [cur EXCEPT ![c] = {}]
    /\ lease' = [lease EXCEPT ![c] = [m \in Messages |-> 0]]

Drained(c) ==
    /\ pc[c] = "sending"
    /\ batch[c] = {}
    /\ CloseConnection(c)
    /\ UNCHANGED <<stored, row, receipt, sub, faults, wire>>

\* The claim or a write fails, the peer vanishes or the process dies.
ConnectionDrops(c) ==
    /\ pc[c] # "idle"
    /\ faults < MaxFaults
    /\ faults' = faults + 1
    /\ CloseConnection(c)
    /\ UNCHANGED <<stored, row, receipt, sub, wire>>
-----------------------------------------------------------------------------
(* The clean-up job: DELETE ... WHERE expires_at < now. *)
ExpiredRelayMessages ==
    LET gone == {m \in stored : row[m].ttl < 0} IN
    /\ gone # {}
    /\ stored' = stored \ gone
    /\ row' = [m \in Messages |-> IF m \in gone THEN NoRow ELSE row[m]]
    /\ lease' = [c \in Conns |-> [m \in Messages |->
                    IF m \in gone THEN 0 ELSE lease[c][m]]]
    /\ UNCHANGED <<receipt, sub, connVars, faults, wire>>

LessOne(n) == IF n > 0 THEN n - 1 ELSE n

Older(r) ==
    [r EXCEPT !.age = IF @ < MaxAge THEN @ + 1 ELSE @,
              !.ttl = IF @ \in {-1, LongTTL} THEN @ ELSE @ - 1,
              !.claim = LessOne(@)]

Tick ==
    /\ row' = [m \in Messages |-> IF m \in stored THEN Older(row[m]) ELSE row[m]]
    /\ lease' = [c \in Conns |-> [m \in Messages |-> LessOne(lease[c][m])]]
    /\ UNCHANGED <<stored, receipt, sub, connVars, faults, wire>>
-----------------------------------------------------------------------------
Deliver(c) ==
    \/ ClaimPendingMessagesFor(c)
    \/ \E m \in Messages : WriteMessage(c, m)
    \/ MarkRow(c)
    \/ MarkReceipt(c)
    \/ Drained(c)

Next ==
    \/ \E s \in Submitters, m \in Messages, d \in Devices, p \in Priorities,
          t \in TTLs : StoreMessage(s, m, d, p, t)
    \/ \E s \in Submitters : StoreReceipt(s) \/ SubmissionFails(s)
    \/ \E c \in Conns, d \in Devices : ConnectionReady(c, d)
    \/ \E c \in Conns : Deliver(c) \/ MarkFails(c) \/ ConnectionDrops(c)
    \/ ExpiredRelayMessages
    \/ Tick

Spec == Init /\ [][Next]_vars

\* Handlers run on, the clock advances, and every device keeps reconnecting
\* (connect closes after one batch; a client that never returns is owed
\* nothing).
Fairness ==
    /\ \A c \in Conns : WF_vars(Deliver(c))
    /\ \A d \in Devices : SF_vars(\E c \in Conns : ConnectionReady(c, d))
    /\ WF_vars(Tick)

FairSpec == Spec /\ Fairness
-----------------------------------------------------------------------------
(* Properties *)

\* Tables and handlers keep their types; receipts have only the statuses the
\* schema's CHECK allows (envelopes, connect).
TypeOK ==
    /\ stored \subseteq Messages
    /\ row \in [Messages -> Row]
    /\ receipt \in [Messages -> Receipts]
    /\ sub \in [Submitters -> Submission]
    /\ pc \in [Conns -> ConnectSteps]
    /\ dev \in [Conns -> SUBSET Devices]
    /\ batch \in [Conns -> SUBSET Messages]
    /\ cur \in [Conns -> SUBSET Messages]
    /\ faults \in 0..MaxFaults
    /\ wire \subseteq Messages
    /\ lease \in [Conns -> [Messages -> 0..Lease]]

(***************************************************************************)
(* While a connection's lease on a message runs, no other connection gets  *)
(* the message from ClaimPendingMessagesFor, whatever resubmissions, late  *)
(* marks by earlier claimants, drops and restarts happen in between.       *)
(***************************************************************************)
LeaseExclusive ==
    \A m \in Messages : \A c, d \in Conns :
        lease[c][m] > 0 /\ lease[d][m] > 0 => c = d

(***************************************************************************)
(* A receipt says delivered_to_connection only for a message some          *)
(* connection was written: MarkMessageDelivered's second statement never   *)
(* promotes the receipt of a message still waiting in a batch.             *)
(***************************************************************************)
ReceiptTruthful ==
    \A m \in Messages : receipt[m] = "delivered_to_connection" => m \in wire

\* A message's state as the contract sees it.
Status(m) ==
    IF m \notin stored THEN "absent"
    ELSE IF row[m].delivered THEN "delivered" ELSE "queued"

(***************************************************************************)
(* The statements of StoreMessage, ClaimPendingMessagesFor,                *)
(* MarkMessageDelivered and the clean-up implement DeliveryContract: a     *)
(* delivered message is never claimed again while its row lives, not even  *)
(* after a resubmission; each claim is written at most once; delivered is  *)
(* recorded only after a write.                                            *)
(***************************************************************************)
Contract == INSTANCE DeliveryContract WITH
    status <- [m \in Messages |-> Status(m)],
    holding <- batch

ImplementsContract == Contract!Spec

(***************************************************************************)
(* "If a connection drops before delivery is marked, the lease expires and *)
(* the message becomes eligible for retry": with finitely many faults, a   *)
(* stored message that does not expire is eventually marked delivered.     *)
(***************************************************************************)
EventuallyDelivered ==
    \A m \in Messages :
        m \in stored /\ row[m].ttl = LongTTL
            ~> row[m].delivered \/ row[m].ttl # LongTTL
=============================================================================
