-------------------------- MODULE RelayQueue_proofs --------------------------
(***************************************************************************)
(* For any devices, connections, sizes, lifetimes and quota: the in-memory *)
(* queue keeps its quota, loses no message and hands none out twice.       *)
(*                                                                         *)
(* The strengthening: every message held, handed out or being written was  *)
(* accepted, messages being written were handed out, and ids in use do not *)
(* exceed the number of accepted messages, so that a new message is none   *)
(* of the old ones.                                                        *)
(***************************************************************************)
EXTENDS RelayQueue, SumLemmas

Accounted ==
    /\ IsFiniteSet(accepted)
    /\ messages \subseteq accepted /\ taken \subseteq accepted
    /\ \A c \in Conns : batch[c] \subseteq taken
    /\ \A m \in accepted : m.id <= Cardinality(accepted)

QueueInv ==
    /\ TypeOK
    /\ Accounted
    /\ QuotaRespected
    /\ KeptUntilTakenOrExpired
    /\ TakenOnce
-----------------------------------------------------------------------------
(* The byte count of a set of messages.                                    *)

Sized(S) == IsFiniteSet(S) /\ \A m \in S : m.size \in Nat

\* The byte count of a finite set is a natural number; of none it is zero.
LEMMA BytesType ==
  ASSUME NEW S, Sized(S)
  PROVE  Bytes(S) \in Nat
  BY SumType DEF Bytes, SumFunction, Sized

\* An empty mailbox takes no bytes.
LEMMA BytesEmpty == Bytes({}) = 0
  BY SumEmpty DEF Bytes, SumFunction

\* Dropping messages does not raise the byte count.
LEMMA BytesOfPart ==
  ASSUME NEW S, Sized(S), NEW T \in SUBSET S
  PROVE  Sized(T) /\ Bytes(T) <= Bytes(S)
<1> DEFINE w == [m \in S |-> m.size]
           v == [m \in T |-> m.size]
<1>1. IsFiniteSet(T) /\ IsFiniteSet(S)
  BY FS_Subset DEF Sized
<1>2. SumFunctionOnSet(v, T) = SumFunctionOnSet(w, T)
  <2>1. \A m \in T : v[m] = w[m] OBVIOUS
  <2> HIDE DEF v, w
  <2> QED BY <1>1, <2>1, SumSame
<1>3. SumFunctionOnSet(w, T) <= SumFunctionOnSet(w, S)
  <2>1. \A m \in S : w[m] \in Nat BY DEF Sized
  <2> HIDE DEF w
  <2> QED BY <1>1, <2>1, SumSubset
<1>4. Bytes(T) = SumFunctionOnSet(v, T) /\ Bytes(S) = SumFunctionOnSet(w, S)
  BY DEF Bytes, SumFunction
<1> QED BY <1>1, <1>2, <1>3, <1>4 DEF Sized

\* A new message adds its size.
LEMMA BytesWith ==
  ASSUME NEW S, Sized(S), NEW m, m \notin S, m.size \in Nat
  PROVE  Sized(S \cup {m}) /\ Bytes(S \cup {m}) = Bytes(S) + m.size
<1> DEFINE w == [n \in S \cup {m} |-> n.size]
           v == [n \in S |-> n.size]
<1>1. IsFiniteSet(S) /\ IsFiniteSet(S \cup {m})
  BY FS_AddElement DEF Sized
<1>2. (\A n \in S \cup {m} : w[n] \in Nat) /\ w[m] = m.size
  BY DEF Sized
<1>3. SumFunctionOnSet(v, S) = SumFunctionOnSet(w, S)
  <2>1. \A n \in S : v[n] = w[n] OBVIOUS
  <2> HIDE DEF v, w
  <2> QED BY <1>1, <2>1, SumSame
<1>4. SumFunctionOnSet(w, S \cup {m}) = w[m] + SumFunctionOnSet(w, S)
  <2> HIDE DEF w
  <2> QED BY <1>1, <1>2, SumAdd
<1>5. Bytes(S) = SumFunctionOnSet(v, S) /\ Bytes(S \cup {m}) = SumFunctionOnSet(w, S \cup {m})
  BY DEF Bytes, SumFunction
<1>6. Bytes(S) \in Nat
  BY BytesType
<1>7. Bytes(S \cup {m}) = m.size + Bytes(S)
  BY <1>2, <1>3, <1>4, <1>5
<1> QED BY <1>1, <1>6, <1>7 DEF Sized
-----------------------------------------------------------------------------
\* New: an empty queue.
LEMMA InitQueue == Init => QueueInv
<1> SUFFICES ASSUME Init PROVE QueueInv
  OBVIOUS
<1>1. TypeOK
  BY QueueConstants DEF Init, TypeOK
<1>2. Accounted
  BY FS_EmptySet DEF Init, Accounted
<1>3. QuotaRespected
  BY BytesEmpty, QueueConstants DEF Init, QuotaRespected
<1>4. KeptUntilTakenOrExpired /\ TakenOnce
  BY DEF Init, KeptUntilTakenOrExpired, TakenOnce
<1> QED BY <1>1, <1>2, <1>3, <1>4 DEF QueueInv

\* What an operation leaves of the live messages fits, whatever time it read.
LEMMA PruningFits ==
  ASSUME QueueInv, NEW now \in Readings, NEW rest \in SUBSET Live(now)
  PROVE  /\ Sized(rest) /\ Bytes(rest) \in Nat /\ Bytes(rest) <= MaxBytes
         /\ rest \subseteq messages
         /\ \A m \in messages : m \notin Live(now) => m.exp < clock
<1>1. Sized(messages)
  <2>1. IsFiniteSet(messages)
    BY FS_Subset DEF QueueInv, Accounted
  <2>2. ASSUME NEW m \in Message PROVE m.size \in Nat
    <3>1. m.size \in Sizes
      BY DEF Message
    <3> QED BY <3>1, QueueConstants, Zenon
  <2>3. \A m \in messages : m.size \in Nat
    BY <2>2 DEF QueueInv, TypeOK
  <2> QED BY <2>1, <2>3 DEF Sized
<1>2. rest \in SUBSET messages
  BY DEF Live
<1>3. Sized(rest) /\ Bytes(rest) <= Bytes(messages)
  BY <1>1, <1>2, BytesOfPart
<1>4. Bytes(rest) \in Nat /\ Bytes(messages) \in Nat
  BY <1>1, <1>3, BytesType
<1>5. Bytes(rest) <= MaxBytes
  BY <1>3, <1>4, QueueConstants DEF QueueInv, QuotaRespected
<1>6. ASSUME NEW m \in messages, m \notin Live(now) PROVE m.exp < clock
  <2>1. m.exp \in Nat /\ now \in Nat /\ clock \in Nat /\ now <= clock
    BY QueueConstants DEF QueueInv, TypeOK, Message, Readings
  <2> QED BY <1>6, <2>1 DEF Live
<1> QED BY <1>2, <1>3, <1>4, <1>5, <1>6

\* Enqueue: the new message is none of the old ones, and within the quota.
LEMMA EnqueueKeepsInv ==
  ASSUME QueueInv, NEW d \in Devices, NEW size \in Sizes, NEW p \in Priorities,
         NEW t \in TTLs, NEW now \in Readings, Enqueue(d, size, p, t, now)
  PROVE  QueueInv'
<1> DEFINE live == Live(now)
           m == NewMessage(d, size, p, t, now)
<1>1. /\ Sized(live) /\ Bytes(live) \in Nat /\ Bytes(live) <= MaxBytes
      /\ live \subseteq messages /\ live \subseteq accepted
      /\ \A n \in messages : n \notin live => n.exp < clock
  BY PruningFits DEF QueueInv, Accounted
<1>2. /\ Cardinality(accepted) \in Nat /\ Cardinality(accepted) < MaxAccepted
      /\ size \in Nat /\ now \in 0 .. MaxClock
  BY FS_CardinalityType, QueueConstants DEF Enqueue, QueueInv, TypeOK, Accounted, Readings
<1>3. m \in Message
  BY <1>2, QueueConstants DEF NewMessage, Message
<1>4. m \notin accepted /\ m.id = Cardinality(accepted) + 1 /\ m.size = size
  BY <1>2 DEF NewMessage, QueueInv, Accounted
<1>5. IsFiniteSet(accepted \cup {m}) /\ Cardinality(accepted \cup {m}) = Cardinality(accepted) + 1
  BY <1>4, FS_AddElement, SMTT(30) DEF QueueInv, Accounted
<1>6. Sized(live \cup {m}) /\ Bytes(live \cup {m}) = Bytes(live) + size
  BY <1>1, <1>2, <1>4, BytesWith
<1>7. UNCHANGED <<clock, dev, batch, taken>>
  BY DEF Enqueue
<1> HIDE DEF m, live
<1>8. CASE Fits(live, size) /\ messages' = live \cup {m}
           /\ currentBytes' = Bytes(live) + size /\ accepted' = accepted \cup {m}
  <2>1. TypeOK'
    BY <1>1, <1>2, <1>3, <1>7, <1>8 DEF QueueInv, TypeOK
  <2>2. Accounted'
    <3>1. \A n \in accepted' : n.id <= Cardinality(accepted')
      BY <1>2, <1>3, <1>4, <1>5, <1>8 DEF QueueInv, Accounted, TypeOK, Message
    <3> QED BY <1>1, <1>5, <1>7, <1>8, <3>1, Zenon DEF QueueInv, Accounted
  <2>3. QuotaRespected'
    BY <1>6, <1>8 DEF QuotaRespected, Fits
  <2>4. KeptUntilTakenOrExpired' /\ TakenOnce'
    BY <1>1, <1>4, <1>7, <1>8 DEF QueueInv, Accounted, KeptUntilTakenOrExpired, TakenOnce
  <2> QED BY <2>1, <2>2, <2>3, <2>4 DEF QueueInv
<1>9. CASE messages' = live /\ currentBytes' = Bytes(live) /\ accepted' = accepted
  <2>1. TypeOK' /\ Accounted'
    BY <1>1, <1>7, <1>9 DEF QueueInv, TypeOK, Accounted
  <2>2. QuotaRespected' /\ KeptUntilTakenOrExpired' /\ TakenOnce'
    BY <1>1, <1>7, <1>9 DEF QueueInv, QuotaRespected, KeptUntilTakenOrExpired, TakenOnce
  <2> QED BY <2>1, <2>2 DEF QueueInv
<1> QED BY <1>8, <1>9 DEF Enqueue, live, m

\* DequeueFor: what is handed out leaves the queue in the same step.
LEMMA DequeueForKeepsInv ==
  ASSUME QueueInv, NEW c \in Conns, NEW d \in Devices, NEW now \in Readings, DequeueFor(c, d, now)
  PROVE  QueueInv'
<1>1. PICK out \in FirstOf({m \in Live(now) : m.rec = d}) :
        /\ messages' = Live(now) \ out
        /\ currentBytes' = Bytes(Live(now) \ out)
        /\ batch' = [batch EXCEPT ![c] = out]
        /\ taken' = taken \cup out
  BY Zenon DEF DequeueFor
<1>2. out \subseteq Live(now) /\ dev' = [dev EXCEPT ![c] = {d}] /\ UNCHANGED <<clock, accepted>>
  BY DEF DequeueFor, FirstOf
<1>3. /\ Bytes(messages') \in Nat /\ Bytes(messages') <= MaxBytes
      /\ Live(now) \subseteq messages /\ messages' \subseteq messages
      /\ \A m \in messages : m \notin Live(now) => m.exp < clock
  BY <1>1, PruningFits DEF Live
<1>4. TypeOK'
  BY <1>1, <1>2, <1>3 DEF QueueInv, TypeOK
<1>5. Accounted'
  BY <1>1, <1>2, <1>3 DEF QueueInv, TypeOK, Accounted
<1>6. QuotaRespected' /\ KeptUntilTakenOrExpired'
  BY <1>1, <1>2, <1>3 DEF QueueInv, QuotaRespected, KeptUntilTakenOrExpired
<1>7. TakenOnce'
  BY <1>1, <1>2, <1>3 DEF QueueInv, TypeOK, Accounted, TakenOnce
<1> QED BY <1>4, <1>5, <1>6, <1>7 DEF QueueInv

\* The connection's own steps, the admin list and the clock.
LEMMA OthersKeep ==
  ASSUME QueueInv,
         \/ \E c \in Conns : Close(c) \/ \E m \in batch[c] : WriteMessage(c, m)
         \/ \E now \in Readings : SnapshotMetadata(now)
         \/ Tick
         \/ UNCHANGED vars
  PROVE  QueueInv'
<1> USE DEF QueueInv, TypeOK, Accounted, QuotaRespected, KeptUntilTakenOrExpired, TakenOnce
<1>1. ASSUME NEW c \in Conns, Close(c) PROVE QueueInv'
  BY <1>1 DEF Close
<1>2. ASSUME NEW c \in Conns, NEW m \in batch[c], WriteMessage(c, m) PROVE QueueInv'
  BY <1>2 DEF WriteMessage
<1>3. ASSUME NEW now \in Readings, SnapshotMetadata(now) PROVE QueueInv'
  <2>1. /\ Bytes(Live(now)) \in Nat /\ Bytes(Live(now)) <= MaxBytes
        /\ Live(now) \subseteq messages
        /\ \A m \in messages : m \notin Live(now) => m.exp < clock
    BY PruningFits
  <2> QED BY <1>3, <2>1 DEF SnapshotMetadata
<1>4. CASE Tick
  <2>1. clock \in Nat /\ clock' = clock + 1 /\ clock' \in 0 .. MaxClock
    BY <1>4, QueueConstants DEF Tick
  <2>2. \A m \in accepted : m.exp \in Nat /\ (m.exp < clock => m.exp < clock')
    BY <2>1, QueueConstants DEF Message
  <2> QED BY <1>4, <2>1, <2>2 DEF Tick
<1>5. CASE UNCHANGED vars
  BY <1>5 DEF vars
<1> QED BY <1>1, <1>2, <1>3, <1>4, <1>5, SMTT(30)

\* Every step keeps the strengthening.
LEMMA NextQueue == QueueInv /\ [Next]_vars => QueueInv'
  BY EnqueueKeepsInv, DequeueForKeepsInv, OthersKeep DEF Next
-----------------------------------------------------------------------------
\* Every reachable state satisfies the strengthening.
THEOREM QueueInvariant == Spec => []QueueInv
  BY InitQueue, NextQueue, PTL DEF Spec

\* The queue holds well-formed messages, in any instance.
THEOREM QueueTypes == Spec => []TypeOK
  BY QueueInvariant, PTL DEF QueueInv

\* The cached byte count is exact and within relayMaxQueuedBytes, for any sizes,
\* quota and order of clock readings (Enqueue, DequeueFor, SnapshotMetadata).
THEOREM QuotaHolds == Spec => []QuotaRespected
  BY QueueInvariant, PTL DEF QueueInv

\* No accepted message is lost before it is handed out or expires, for any
\* number of devices, connections and messages.
THEOREM NothingLost == Spec => []KeptUntilTakenOrExpired
  BY QueueInvariant, PTL DEF QueueInv

\* A message is handed to one connection and never returns to the queue, for any
\* number of connections.
THEOREM HandedOutOnce == Spec => []TakenOnce
  BY QueueInvariant, PTL DEF QueueInv
=============================================================================
