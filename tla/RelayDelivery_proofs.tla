------------------------- MODULE RelayDelivery_proofs -------------------------
(***************************************************************************)
(* For every number of messages, devices, connections and submitters,      *)
(* every lease, TTL, claim limit and fault budget: RelayDelivery keeps its *)
(* types, its leases exclusive and its receipts truthful, and implements   *)
(* DeliveryContract.                                                       *)
(***************************************************************************)
EXTENDS RelayDelivery, TLAPS

\* A running lease is the one recorded in the row, until the row is
\* delivered; this is what the claim's WHERE clause relies on.
LeaseRecorded ==
    \A c \in Conns, m \in Messages :
        lease[c][m] > 0 =>
            /\ m \in stored
            /\ row[m].delivered \/ row[m].claim = lease[c][m]

\* A message being marked was written, and a connection holds messages only
\* between its claim and its last write.
ConnectionOK ==
    \A c \in Conns :
        /\ cur[c] \subseteq wire
        /\ pc[c] \in {"idle", "ready"} => batch[c] = {}
        /\ pc[c] = "mark_row" => \E m \in Messages : cur[c] = {m}

DeliveryInv ==
    /\ TypeOK
    /\ LeaseRecorded
    /\ LeaseExclusive
    /\ ConnectionOK
    /\ ReceiptTruthful
-----------------------------------------------------------------------------
\* The placeholder of a message without a row is a well-typed row.
LEMMA NoRowType == NoRow \in Row
  BY DeliveryConstants DEF NoRow, Row

\* A countdown of the lease stays in its range and does not restart.
LEMMA LessOneType ==
  ASSUME NEW n \in 0..Lease
  PROVE  /\ LessOne(n) \in 0..Lease
         /\ LessOne(n) > 0 => n > 0
  BY DeliveryConstants DEF LessOne

\* One tick keeps a row well typed, undelivered or delivered, and ages its
\* claim like every other countdown.
LEMMA OlderRow ==
  ASSUME NEW r \in Row
  PROVE  /\ Older(r) \in Row
         /\ Older(r).delivered = r.delivered
         /\ Older(r).claim = LessOne(r.claim)
<1> DEFINE r1 == [r EXCEPT !.age = IF @ < MaxAge THEN @ + 1 ELSE @]
           r2 == [r1 EXCEPT !.ttl = IF @ \in {-1, LongTTL} THEN @ ELSE @ - 1]
           r3 == [r2 EXCEPT !.claim = LessOne(@)]
<1>1. r1 \in Row /\ r1.delivered = r.delivered /\ r1.claim = r.claim
  BY DeliveryConstants DEF Row
<1> HIDE DEF r1
<1>2. r2 \in Row /\ r2.delivered = r1.delivered /\ r2.claim = r1.claim
  BY <1>1, DeliveryConstants DEF Row
<1> HIDE DEF r2
<1>3. r3 \in Row /\ r3.delivered = r2.delivered /\ r3.claim = LessOne(r2.claim)
  BY <1>2, LessOneType DEF Row
<1>4. Older(r) = r3
  BY DEF Older, r1, r2, r3
<1> QED
  BY <1>1, <1>2, <1>3, <1>4

\* StoreMessage's row is well typed; of a stored message it keeps delivered
\* and the claim.
LEMMA UpsertedRow ==
  ASSUME TypeOK, NEW m \in Messages, NEW d \in Devices, NEW p \in Priorities,
         NEW t \in TTLs
  PROVE  /\ Upserted(m, d, p, t) \in Row
         /\ m \in stored =>
               /\ Upserted(m, d, p, t).delivered = row[m].delivered
               /\ Upserted(m, d, p, t).claim = row[m].claim
         /\ m \notin stored => Upserted(m, d, p, t).delivered = FALSE
<1> DEFINE r1 == [row[m] EXCEPT !.priority = p]
           r2 == [r1 EXCEPT !.ttl = t]
<1>0. row[m] \in Row
  BY DEF TypeOK
<1>1. r1 \in Row /\ r1.delivered = row[m].delivered /\ r1.claim = row[m].claim
  BY <1>0 DEF Row
<1> HIDE DEF r1
<1>2. r2 \in Row /\ r2.delivered = r1.delivered /\ r2.claim = r1.claim
  BY <1>1, DeliveryConstants DEF Row
<1>3. CASE m \in stored
  <2>1. Upserted(m, d, p, t) = r2
    BY <1>3 DEF Upserted, r1
  <2> QED
    BY <1>1, <1>2, <1>3, <2>1
<1>4. CASE m \notin stored
  <2> DEFINE new == [recipient |-> d, priority |-> p, age |-> 0, ttl |-> t,
                     claim |-> 0, delivered |-> FALSE]
  <2>1. Upserted(m, d, p, t) = new
    BY <1>4 DEF Upserted
  <2>2. new \in Row
    BY DeliveryConstants DEF Row
  <2>3. new.delivered = FALSE
    OBVIOUS
  <2> QED
    BY <1>4, <2>1, <2>2, <2>3, ZenonT(20)
<1> QED
  BY <1>3, <1>4, ZenonT(20)

\* A claimed row carries the full lease and is otherwise unchanged.
LEMMA ClaimedRow ==
  ASSUME NEW r \in Row
  PROVE  /\ [r EXCEPT !.claim = Lease] \in Row
         /\ [r EXCEPT !.claim = Lease].delivered = r.delivered
         /\ [r EXCEPT !.claim = Lease].claim = Lease
  BY DeliveryConstants DEF Row

\* MarkMessageDelivered's first statement sets delivered and frees the claim.
LEMMA MarkedRow ==
  ASSUME NEW r \in Row
  PROVE  /\ [r EXCEPT !.delivered = TRUE, !.claim = 0] \in Row
         /\ [r EXCEPT !.delivered = TRUE, !.claim = 0].delivered
<1> DEFINE r1 == [r EXCEPT !.delivered = TRUE]
<1>1. r1 \in Row /\ r1.delivered = TRUE
  BY ZenonT(20) DEF Row
<1> HIDE DEF r1
<1>2. /\ [r1 EXCEPT !.claim = 0] \in Row
      /\ [r1 EXCEPT !.claim = 0].delivered = r1.delivered
  BY <1>1, DeliveryConstants DEF Row
<1> QED
  BY <1>1, <1>2 DEF r1
-----------------------------------------------------------------------------
(* Each handler step keeps the types. *)
LEMMA TypeStep ==
  ASSUME TypeOK, [Next]_vars
  PROVE  TypeOK'
<1> USE DEF TypeOK
<1>1. ASSUME NEW s \in Submitters, NEW m \in Messages, NEW d \in Devices,
             NEW p \in Priorities, NEW t \in TTLs, StoreMessage(s, m, d, p, t)
      PROVE  TypeOK'
  BY <1>1, UpsertedRow, ZenonT(20) DEF StoreMessage, connVars, Submission
<1>2. ASSUME NEW s \in Submitters, StoreReceipt(s)
      PROVE  TypeOK'
  BY <1>2 DEF StoreReceipt, connVars, Submission, NoSubmission, Receipts
<1>3. ASSUME NEW s \in Submitters, SubmissionFails(s)
      PROVE  TypeOK'
  BY <1>3, DeliveryConstants DEF SubmissionFails, connVars, Submission, NoSubmission
<1>4. ASSUME NEW c \in Conns, NEW d \in Devices, ConnectionReady(c, d)
      PROVE  TypeOK'
  BY <1>4 DEF ConnectionReady, ConnectSteps
<1>5. ASSUME NEW c \in Conns, ClaimPendingMessagesFor(c)
      PROVE  TypeOK'
  <2>1. PICK T \in FirstOf(Claimable(dev[c])) :
            ClaimPendingMessagesFor(c)!2!(T)
    BY <1>5, ZenonT(20) DEF ClaimPendingMessagesFor
  <2>2. T \subseteq Messages
    BY DEF FirstOf, Claimable
  <2>3. row' \in [Messages -> Row]
    BY <2>1, <2>2, ClaimedRow
  <2>4. batch' \in [Conns -> SUBSET Messages]
    BY <2>1, <2>2
  <2>5. lease' \in [Conns -> [Messages -> 0..Lease]]
    BY <2>1, <2>2, DeliveryConstants
  <2> QED
    BY <1>5, <2>3, <2>4, <2>5 DEF ClaimPendingMessagesFor, ConnectSteps
<1>6. ASSUME NEW c \in Conns, NEW m \in Messages, WriteMessage(c, m)
      PROVE  TypeOK'
  BY <1>6 DEF WriteMessage, ConnectSteps
<1>7. ASSUME NEW c \in Conns, MarkRow(c)
      PROVE  TypeOK'
  <2>1. row' \in [Messages -> Row]
    BY <1>7, MarkedRow, ZenonT(20) DEF MarkRow
  <2> QED
    BY <1>7, <2>1, ZenonT(20) DEF MarkRow, ConnectSteps
<1>8. ASSUME NEW c \in Conns, MarkReceipt(c)
      PROVE  TypeOK'
  BY <1>8 DEF MarkReceipt, ConnectSteps, Receipts
<1>9. ASSUME NEW c \in Conns, MarkFails(c)
      PROVE  TypeOK'
  BY <1>9, DeliveryConstants DEF MarkFails, ConnectSteps
<1>10. ASSUME NEW c \in Conns, Drained(c)
       PROVE  TypeOK'
  BY <1>10, DeliveryConstants DEF Drained, CloseConnection, ConnectSteps
<1>11. ASSUME NEW c \in Conns, ConnectionDrops(c)
       PROVE  TypeOK'
  BY <1>11, DeliveryConstants DEF ConnectionDrops, CloseConnection, ConnectSteps
<1>12. CASE ExpiredRelayMessages
  BY <1>12, NoRowType, DeliveryConstants DEF ExpiredRelayMessages, connVars
<1>13. CASE Tick
  <2>1. row' \in [Messages -> Row]
    BY <1>13, OlderRow DEF Tick, connVars
  <2>2. lease' \in [Conns -> [Messages -> 0..Lease]]
    BY <1>13, LessOneType DEF Tick, connVars
  <2> QED
    BY <1>13, <2>1, <2>2 DEF Tick, connVars
<1>14. CASE UNCHANGED vars
  BY <1>14 DEF vars
<1> QED
  BY <1>1, <1>2, <1>3, <1>4, <1>5, <1>6, <1>7, <1>8, <1>9, <1>10, <1>11,
     <1>12, <1>13, <1>14, SMTT(30) DEF Next, Deliver
-----------------------------------------------------------------------------
(* Leases stay recorded and exclusive.  The claim is the step that matters:  *)
(* a claimable row is neither delivered nor under a claim, so no lease runs  *)
(* on it.                                                                    *)
LEMMA LeaseStep ==
  ASSUME TypeOK, LeaseRecorded, LeaseExclusive, [Next]_vars
  PROVE  LeaseRecorded' /\ LeaseExclusive'
<1>1. ASSUME NEW s \in Submitters, NEW m \in Messages, NEW d \in Devices,
             NEW p \in Priorities, NEW t \in TTLs, StoreMessage(s, m, d, p, t)
      PROVE  LeaseRecorded' /\ LeaseExclusive'
  <2>1. ASSUME NEW c \in Conns, NEW n \in Messages, lease[c][n] > 0
        PROVE  /\ n \in stored'
               /\ row'[n].delivered \/ row'[n].claim = lease[c][n]
    <3>1. n \in stored /\ (row[n].delivered \/ row[n].claim = lease[c][n])
      BY <2>1 DEF LeaseRecorded
    <3>2. n \in stored'
      BY <1>1, <3>1 DEF StoreMessage
    <3>3. CASE n = m
      <4>1. row'[n] = Upserted(m, d, p, t)
        BY <1>1, <3>3 DEF StoreMessage, TypeOK
      <4>2. /\ Upserted(m, d, p, t).delivered = row[m].delivered
            /\ Upserted(m, d, p, t).claim = row[m].claim
        BY <3>1, <3>3, UpsertedRow, ZenonT(20)
      <4> QED
        BY <3>1, <3>2, <3>3, <4>1, <4>2, Zenon
    <3>4. CASE n # m
      <4>1. row'[n] = row[n]
        BY <1>1, <3>4 DEF StoreMessage, TypeOK
      <4> QED
        BY <3>1, <3>2, <4>1, Zenon
    <3> QED
      BY <3>3, <3>4
  <2> QED
    BY <1>1, <2>1 DEF StoreMessage, LeaseRecorded, LeaseExclusive
<1>2. ASSUME NEW c \in Conns, ClaimPendingMessagesFor(c)
      PROVE  LeaseRecorded' /\ LeaseExclusive'
  <2>1. PICK T \in FirstOf(Claimable(dev[c])) : ClaimPendingMessagesFor(c)!2!(T)
    BY <1>2, ZenonT(20) DEF ClaimPendingMessagesFor
  <2>2. stored' = stored
    BY <1>2 DEF ClaimPendingMessagesFor
  <2>3. ASSUME NEW n \in T
        PROVE  n \in stored /\ n \in Messages /\ ~row[n].delivered /\ row[n].claim <= 0
    BY DEF FirstOf, Claimable, TypeOK
  <2>4. ASSUME NEW n \in T, NEW e \in Conns
        PROVE  ~(lease[e][n] > 0)
    <3>1. n \in Messages /\ row[n] \in Row /\ lease[e][n] \in 0..Lease
      BY <2>3 DEF TypeOK
    <3>2. row[n].claim \in 0..Lease
      BY <3>1 DEF Row
    <3> QED
      BY <2>3, <3>1, <3>2, DeliveryConstants DEF LeaseRecorded
  <2>5. \A e \in Conns, n \in Messages :
            lease'[e][n] = IF e = c /\ n \in T THEN Lease ELSE lease[e][n]
    BY <2>1 DEF TypeOK
  <2>6. LeaseExclusive'
    BY <2>4, <2>5 DEF LeaseExclusive
  <2>7. ASSUME NEW e \in Conns, NEW n \in Messages, lease'[e][n] > 0
        PROVE  /\ n \in stored'
               /\ row'[n].delivered \/ row'[n].claim = lease'[e][n]
    <3>1. CASE n \in T
      <4>1. e = c /\ lease'[e][n] = Lease
        BY <3>1, <2>4, <2>5, <2>7
      <4>2. row'[n].claim = Lease
        BY <3>1, <2>1, ClaimedRow, ZenonT(20) DEF TypeOK
      <4> QED
        BY <3>1, <4>1, <4>2, <2>2, <2>3
    <3>2. CASE n \notin T
      <4>1. row'[n] = row[n] /\ lease'[e][n] = lease[e][n]
        BY <3>2, <2>1, <2>5
      <4> QED
        BY <4>1, <2>2, <2>7 DEF LeaseRecorded
    <3> QED
      BY <3>1, <3>2
  <2> QED
    BY <2>6, <2>7 DEF LeaseRecorded
<1>3. ASSUME NEW c \in Conns, MarkRow(c)
      PROVE  LeaseRecorded' /\ LeaseExclusive'
  <2>1. ASSUME NEW e \in Conns, NEW n \in Messages, lease[e][n] > 0
        PROVE  /\ n \in stored'
               /\ row'[n].delivered \/ row'[n].claim = lease[e][n]
    <3>1. CASE n \in cur[c] \cap stored
      BY <1>3, <3>1, MarkedRow, ZenonT(20) DEF MarkRow, TypeOK
    <3>2. CASE n \notin cur[c] \cap stored
      BY <1>3, <2>1, <3>2, ZenonT(20) DEF MarkRow, LeaseRecorded
    <3> QED
      BY <3>1, <3>2
  <2> QED
    BY <1>3, <2>1, ZenonT(20) DEF MarkRow, LeaseRecorded, LeaseExclusive
<1>4. ASSUME NEW c \in Conns, CloseConnection(c), UNCHANGED <<stored, row>>
      PROVE  LeaseRecorded' /\ LeaseExclusive'
  <2>1. \A e \in Conns, n \in Messages : lease'[e][n] > 0 => lease'[e][n] = lease[e][n]
    BY <1>4 DEF CloseConnection, TypeOK
  <2> QED
    BY <1>4, <2>1 DEF LeaseRecorded, LeaseExclusive
<1>5. CASE ExpiredRelayMessages
  BY <1>5 DEF ExpiredRelayMessages, TypeOK, LeaseRecorded, LeaseExclusive
<1>6. CASE Tick
  <2>1. ASSUME NEW e \in Conns, NEW n \in Messages, lease'[e][n] > 0
        PROVE  lease[e][n] > 0 /\ lease'[e][n] = LessOne(lease[e][n])
    BY <1>6, <2>1, LessOneType DEF Tick, TypeOK
  <2>2. ASSUME NEW e \in Conns, NEW n \in Messages, lease'[e][n] > 0
        PROVE  /\ n \in stored'
               /\ row'[n].delivered \/ row'[n].claim = lease'[e][n]
    <3>1. n \in stored /\ (row[n].delivered \/ row[n].claim = lease[e][n])
      BY <2>1, <2>2 DEF LeaseRecorded
    <3>2. /\ row'[n].delivered = row[n].delivered
          /\ row'[n].claim = LessOne(row[n].claim)
      BY <1>6, <3>1, OlderRow DEF Tick, TypeOK
    <3> QED
      BY <1>6, <2>1, <2>2, <3>1, <3>2 DEF Tick
  <2> QED
    BY <2>1, <2>2 DEF LeaseRecorded, LeaseExclusive
<1>7. CASE UNCHANGED <<stored, row, lease>>
  BY <1>7 DEF LeaseRecorded, LeaseExclusive
<1> QED
  BY <1>1, <1>2, <1>3, <1>4, <1>5, <1>6, <1>7
  DEF Next, Deliver, vars, StoreReceipt, SubmissionFails, ConnectionReady,
      WriteMessage, MarkReceipt, MarkFails, Drained, ConnectionDrops
-----------------------------------------------------------------------------
\* Every statement keeps what a connection holds in step with where it is.
LEMMA ConnectionStep ==
  ASSUME TypeOK, ConnectionOK, [Next]_vars
  PROVE  ConnectionOK'
<1> USE DEF TypeOK, ConnectionOK
<1>1. ASSUME NEW c \in Conns, NEW d \in Devices, ConnectionReady(c, d)
      PROVE  ConnectionOK'
  BY <1>1 DEF ConnectionReady
<1>2. ASSUME NEW c \in Conns, ClaimPendingMessagesFor(c)
      PROVE  ConnectionOK'
  BY <1>2 DEF ClaimPendingMessagesFor
<1>3. ASSUME NEW c \in Conns, NEW m \in Messages, WriteMessage(c, m)
      PROVE  ConnectionOK'
  BY <1>3, SMTT(30) DEF WriteMessage
<1>4. ASSUME NEW c \in Conns, MarkRow(c) \/ MarkReceipt(c) \/ MarkFails(c)
      PROVE  ConnectionOK'
  BY <1>4, ZenonT(20) DEF MarkRow, MarkReceipt, MarkFails
<1>5. ASSUME NEW c \in Conns, CloseConnection(c), UNCHANGED wire
      PROVE  ConnectionOK'
  BY <1>5 DEF CloseConnection
<1>6. CASE UNCHANGED <<connVars, wire>>
  BY <1>6 DEF connVars
<1> QED
  BY <1>1, <1>2, <1>3, <1>4, <1>5, <1>6, SMTT(30)
  DEF Next, Deliver, vars, connVars, StoreMessage, StoreReceipt,
      SubmissionFails, Drained, ConnectionDrops, ExpiredRelayMessages, Tick

\* No statement makes a receipt say delivered before the message is written.
LEMMA ReceiptStep ==
  ASSUME TypeOK, ConnectionOK, ReceiptTruthful, [Next]_vars
  PROVE  ReceiptTruthful'
<1>1. ASSUME NEW s \in Submitters, StoreReceipt(s)
      PROVE  ReceiptTruthful'
  BY <1>1 DEF StoreReceipt, ReceiptTruthful
<1>2. ASSUME NEW c \in Conns, MarkReceipt(c)
      PROVE  ReceiptTruthful'
  BY <1>2 DEF MarkReceipt, ReceiptTruthful, ConnectionOK
<1>3. ASSUME receipt' = receipt, wire \subseteq wire'
      PROVE  ReceiptTruthful'
  BY <1>3 DEF ReceiptTruthful
<1> QED
  BY <1>1, <1>2, <1>3, Zenon
  DEF Next, Deliver, vars, StoreMessage, SubmissionFails, ConnectionReady,
      ClaimPendingMessagesFor, WriteMessage, MarkRow, MarkFails, Drained,
      ConnectionDrops, ExpiredRelayMessages, Tick
-----------------------------------------------------------------------------
\* The empty tables satisfy the invariant.
LEMMA InitInv == Init => DeliveryInv
<1> SUFFICES ASSUME Init PROVE DeliveryInv
  OBVIOUS
<1>1. TypeOK
  BY NoRowType, DeliveryConstants
  DEF Init, TypeOK, Receipts, Submission, NoSubmission, ConnectSteps
<1>2. LeaseRecorded /\ LeaseExclusive
  BY DEF Init, LeaseRecorded, LeaseExclusive
<1>3. ConnectionOK /\ ReceiptTruthful
  BY DEF Init, ConnectionOK, ReceiptTruthful
<1> QED
  BY <1>1, <1>2, <1>3 DEF DeliveryInv

(***************************************************************************)
(* The inductive invariant of the persistent delivery path.                *)
(***************************************************************************)
THEOREM DeliveryInvariant == Spec => []DeliveryInv
<1>1. DeliveryInv /\ [Next]_vars => DeliveryInv'
  BY TypeStep, LeaseStep, ConnectionStep, ReceiptStep DEF DeliveryInv
<1> QED
  BY InitInv, <1>1, PTL DEF Spec

(***************************************************************************)
(* The tables and the handlers' local state keep their types, whatever     *)
(* statements of concurrent handlers interleave.                           *)
(***************************************************************************)
THEOREM TypeCorrect == Spec => []TypeOK
<1>1. DeliveryInv => TypeOK
  BY DEF DeliveryInv
<1> QED
  BY DeliveryInvariant, <1>1, PTL

(***************************************************************************)
(* ClaimPendingMessagesFor never gives a message out twice under running   *)
(* leases, for any number of replicas and connections.                     *)
(***************************************************************************)
THEOREM LeasesAreExclusive == Spec => []LeaseExclusive
<1>1. DeliveryInv => LeaseExclusive
  BY DEF DeliveryInv
<1> QED
  BY DeliveryInvariant, <1>1, PTL

(***************************************************************************)
(* A delivered_to_connection receipt is backed by a write.                 *)
(***************************************************************************)
THEOREM ReceiptsAreTruthful == Spec => []ReceiptTruthful
<1>1. DeliveryInv => ReceiptTruthful
  BY DEF DeliveryInv
<1> QED
  BY DeliveryInvariant, <1>1, PTL
-----------------------------------------------------------------------------
(* Refinement: every step is a step of the contract or leaves it unchanged. *)

\* What the contract sees is unchanged when rows keep their delivered_at.
LEMMA SameStatus ==
  ASSUME stored' = stored,
         \A m \in Messages : row'[m].delivered = row[m].delivered
  PROVE  [m \in Messages |-> Status(m)]' = [m \in Messages |-> Status(m)]
  BY SMTT(30) DEF Status

\* Every statement is a step of DeliveryContract or leaves it unchanged.
LEMMA RefineStep ==
  ASSUME DeliveryInv, [Next]_vars
  PROVE  [Contract!Next]_(Contract!contractVars)
<1> DEFINE status == [m \in Messages |-> Status(m)]
<1> USE DEF DeliveryInv, TypeOK
<1>1. ASSUME NEW s \in Submitters, NEW m \in Messages, NEW d \in Devices,
             NEW p \in Priorities, NEW t \in TTLs, StoreMessage(s, m, d, p, t)
      PROVE  [Contract!Next]_(Contract!contractVars)
  <2>1. /\ UNCHANGED <<batch, wire>>
        /\ stored' = stored \cup {m}
        /\ \A n \in Messages : row'[n] = IF n = m THEN Upserted(m, d, p, t) ELSE row[n]
    BY <1>1 DEF StoreMessage, connVars
  <2>2. CASE m \in stored
    <3>1. stored' = stored
      BY <2>1, <2>2
    <3>2. Upserted(m, d, p, t).delivered = row[m].delivered
      BY <2>2, UpsertedRow, ZenonT(20)
    <3>3. ASSUME NEW n \in Messages
          PROVE  row'[n].delivered = row[n].delivered
      <4>1. CASE n = m
        BY <2>1, <3>2, <4>1, Zenon
      <4>2. CASE n # m
        <5>1. row'[n] = row[n]
          BY <2>1, <4>2
        <5> QED
          BY <5>1, Zenon
      <4> QED
        BY <4>1, <4>2
    <3> QED
      BY <2>1, <3>1, <3>3, SameStatus DEF Contract!contractVars
  <2>3. CASE m \notin stored
    <3>1. status[m] = "absent"
      BY <2>3 DEF Status
    <3>2. status' = [status EXCEPT ![m] = "queued"]
      <4>1. row'[m].delivered = FALSE
        <5>1. row'[m] = Upserted(m, d, p, t)
          BY <2>1
        <5>2. Upserted(m, d, p, t).delivered = FALSE
          BY <2>3, UpsertedRow, ZenonT(20)
        <5> QED
          BY <5>1, <5>2, Zenon
      <4> QED
        BY <2>1, <2>3, <4>1, ZenonT(20) DEF Status
    <3>3. Contract!Accept(m)
      BY <2>1, <3>1, <3>2 DEF Contract!Accept
    <3> QED
      BY <3>3 DEF Contract!Next
  <2> QED
    BY <2>2, <2>3
<1>2. ASSUME NEW c \in Conns, ClaimPendingMessagesFor(c)
      PROVE  [Contract!Next]_(Contract!contractVars)
  <2>1. PICK T \in FirstOf(Claimable(dev[c])) : ClaimPendingMessagesFor(c)!2!(T)
    BY <1>2, ZenonT(20) DEF ClaimPendingMessagesFor
  <2>2. /\ T \subseteq Messages
        /\ \A m \in T : m \in stored /\ ~row[m].delivered
    BY DEF FirstOf, Claimable
  <2>3. \A m \in T : status[m] = "queued"
    BY <2>2 DEF Status
  <2>4. \A m \in Messages : row'[m].delivered = row[m].delivered
    BY <2>1, ClaimedRow
  <2>5. status' = status
    BY <1>2, <2>4, SameStatus DEF ClaimPendingMessagesFor
  <2>6. batch[c] = {}
    BY <1>2 DEF ClaimPendingMessagesFor, ConnectionOK
  <2>7. Contract!Take(c, T)
    BY <1>2, <2>1, <2>3, <2>5, <2>6 DEF Contract!Take, ClaimPendingMessagesFor
  <2> QED
    BY <2>2, <2>7 DEF Contract!Next
<1>3. ASSUME NEW c \in Conns, NEW m \in Messages, WriteMessage(c, m)
      PROVE  [Contract!Next]_(Contract!contractVars)
  <2>1. status' = status
    BY <1>3, SameStatus DEF WriteMessage
  <2>2. Contract!HandOver(c, m)
    BY <1>3, <2>1 DEF Contract!HandOver, WriteMessage
  <2> QED
    BY <2>2 DEF Contract!Next
<1>4. ASSUME NEW c \in Conns, MarkRow(c)
      PROVE  [Contract!Next]_(Contract!contractVars)
  <2>1. PICK m \in Messages : cur[c] = {m}
    BY <1>4, ZenonT(20) DEF MarkRow, ConnectionOK
  <2>2. m \in wire
    BY <2>1, SMTT(30) DEF ConnectionOK
  <2>3. /\ UNCHANGED <<stored, batch, wire>>
        /\ \A n \in Messages : n # m => row'[n] = row[n]
        /\ m \in stored => row'[m].delivered
        /\ m \notin stored => row'[m] = row[m]
    BY <1>4, <2>1, MarkedRow, ZenonT(20) DEF MarkRow
  <2>4. CASE m \in stored /\ ~row[m].delivered
    <3>1. status[m] = "queued"
      BY <2>4 DEF Status
    <3>2. status' = [status EXCEPT ![m] = "delivered"]
      BY <2>3, <2>4, ZenonT(20) DEF Status
    <3>3. Contract!Confirm(m)
      BY <2>2, <2>3, <3>1, <3>2 DEF Contract!Confirm
    <3> QED
      BY <3>3 DEF Contract!Next
  <2>5. CASE ~(m \in stored /\ ~row[m].delivered)
    <3>1. status' = status
      BY <2>3, <2>5 DEF Status
    <3> QED
      BY <2>3, <3>1 DEF Contract!contractVars
  <2> QED
    BY <2>4, <2>5, SMTT(30)
<1>5. ASSUME NEW c \in Conns, CloseConnection(c), UNCHANGED <<stored, row, wire>>
      PROVE  [Contract!Next]_(Contract!contractVars)
  <2>1. status' = status
    BY <1>5, SameStatus
  <2>2. Contract!Release(c)
    BY <1>5, <2>1 DEF CloseConnection, Contract!Release
  <2> QED
    BY <2>2 DEF Contract!Next
<1>6. CASE ExpiredRelayMessages
  <2> DEFINE gone == {m \in stored : row[m].ttl < 0}
  <2>1. status' = [m \in Messages |-> IF m \in gone THEN "absent" ELSE status[m]]
    BY <1>6 DEF ExpiredRelayMessages, Status
  <2>2. Contract!Forget(gone)
    BY <1>6, <2>1 DEF Contract!Forget, ExpiredRelayMessages, connVars
  <2>3. gone \in SUBSET Messages
    OBVIOUS
  <2> QED
    BY <2>2, <2>3 DEF Contract!Next
<1>7. CASE Tick
  <2>1. \A m \in Messages : row'[m].delivered = row[m].delivered
    BY <1>7, OlderRow DEF Tick
  <2> QED
    BY <1>7, <2>1, SameStatus DEF Tick, connVars, Contract!contractVars
<1>8. CASE UNCHANGED <<stored, row, batch, wire>>
  BY <1>8, SameStatus DEF Contract!contractVars
<1> QED
  BY <1>1, <1>2, <1>3, <1>4, <1>5, <1>6, <1>7, <1>8, SMTT(30)
  DEF Next, Deliver, vars, connVars, StoreReceipt, SubmissionFails,
      ConnectionReady, MarkReceipt, MarkFails, Drained, ConnectionDrops

(***************************************************************************)
(* The persistent delivery path implements DeliveryContract: no delivered  *)
(* message is claimed again, each claim is written at most once, and       *)
(* MarkMessageDelivered records only what was written.                     *)
(***************************************************************************)
THEOREM DeliveryRefinesContract == Spec => ImplementsContract
<1>1. Init => Contract!Init
  BY DEF Init, Contract!Init, Status
<1>2. DeliveryInv /\ [Next]_vars => [Contract!Next]_(Contract!contractVars)
  BY RefineStep
<1> QED
  BY DeliveryInvariant, <1>1, <1>2, PTL DEF Spec, ImplementsContract, Contract!Spec
=============================================================================
