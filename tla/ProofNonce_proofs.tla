--------------------------- MODULE ProofNonce_proofs ---------------------------
(***************************************************************************)
(* For every set of proofs and handlers, every ttl and both stores: a      *)
(* proof is accepted at most once until it expires.  The strengthening:    *)
(* no handler's reading of the clock is ahead of the clock, and the cache  *)
(* still holds every accepted proof that has not expired.                  *)
(***************************************************************************)
EXTENDS ProofNonce, TLAPS

\* The time a handler passes to the cache has already been reached.
ReadingsPast == \A h \in Handlers : now[h] <= clock

\* The purges of delayed handlers never remove a nonce that is still needed.
Remembered ==
    \A p \in Proofs : uses[p] > 0 /\ clock < ExpiresAt(p) => p \in cache

NonceInv ==
    /\ TypeOK
    /\ ReadingsPast
    /\ Remembered
    /\ AcceptedOnceWhileValid

\* Both stores start empty.
LEMMA InitNonce == Init => NonceInv
  BY NonceConstants
  DEF Init, NonceInv, TypeOK, ReadingsPast, Remembered, AcceptedOnceWhileValid,
      ExpiresAt

\* Every step of a handler, of verifyProof or of its store, and every tick
\* keeps the cache complete.
LEMMA NextNonce == NonceInv /\ [Next]_vars => NonceInv'
<1> SUFFICES ASSUME NonceInv, [Next]_vars PROVE NonceInv'
  OBVIOUS
<1> USE NonceConstants DEF NonceInv
<1>1. ASSUME NEW h \in Handlers, NEW p \in Proofs, VerifyProof(h, p)
      PROVE  NonceInv'
  <2>1. TypeOK'
    BY <1>1 DEF VerifyProof, TypeOK
  <2>2. ReadingsPast'
    BY <1>1 DEF VerifyProof, ReadingsPast, TypeOK
  <2>3. Remembered' /\ AcceptedOnceWhileValid'
    BY <1>1 DEF VerifyProof, Remembered, AcceptedOnceWhileValid, ExpiresAt
  <2> QED BY <2>1, <2>2, <2>3
<1>2. ASSUME NEW h \in Handlers, NEW p \in Proofs, Use(h, p)
      PROVE  NonceInv'
  <2> DEFINE kept == {q \in cache : ~(now[h] > ExpiresAt(q))}
  <2>1. TypeOK'
    BY <1>2 DEF Use, Answer, Accepted, TypeOK
  <2>2. ReadingsPast'
    BY <1>2 DEF Use, Answer, ReadingsPast, TypeOK
  <2>3. ASSUME NEW q \in Proofs, clock < ExpiresAt(q), uses[q] > 0
        PROVE  q \in kept /\ now[h] < ExpiresAt(q)
    BY <2>3 DEF Remembered, ReadingsPast, TypeOK, ExpiresAt
  <2>4. cache' = kept \cup {p} /\ UNCHANGED <<issued, clock>>
    BY <1>2 DEF Use
  <2>5. ASSUME NEW q \in Proofs, clock < ExpiresAt(q)
        PROVE  uses'[q] = uses[q] \/ (q = p /\ uses[q] = 0 /\ uses'[q] = 1)
    BY <1>2, <2>3, <2>5 DEF Use, Accepted, TypeOK
  <2>6. Remembered'
    BY <2>3, <2>4, <2>5 DEF Remembered, ExpiresAt
  <2>7. AcceptedOnceWhileValid'
    BY <2>4, <2>5 DEF AcceptedOnceWhileValid, ExpiresAt
  <2> QED BY <2>1, <2>2, <2>6, <2>7
<1>3. ASSUME NEW h \in Handlers, NEW p \in Proofs, InsertNonce(h, p)
      PROVE  NonceInv'
  <2>1. TypeOK'
    BY <1>3 DEF InsertNonce, Answer, Accepted, TypeOK
  <2>2. ReadingsPast'
    BY <1>3 DEF InsertNonce, Answer, ReadingsPast, TypeOK
  <2>3. cache' = cache \cup {p} /\ UNCHANGED <<issued, clock>>
    BY <1>3 DEF InsertNonce
  <2>4. ASSUME NEW q \in Proofs, clock < ExpiresAt(q)
        PROVE  uses'[q] = uses[q] \/ (q = p /\ uses[q] = 0 /\ uses'[q] = 1)
    BY <1>3, <2>4 DEF InsertNonce, Accepted, TypeOK, Remembered
  <2>5. Remembered' /\ AcceptedOnceWhileValid'
    BY <2>3, <2>4 DEF Remembered, AcceptedOnceWhileValid, ExpiresAt
  <2> QED BY <2>1, <2>2, <2>5
<1>4. ASSUME NEW h \in Handlers, DeleteExpired(h) PROVE NonceInv'
  <2>1. TypeOK' /\ ReadingsPast'
    BY <1>4 DEF DeleteExpired, TypeOK, ReadingsPast
  <2>2. Remembered'
    BY <1>4 DEF DeleteExpired, Remembered, ReadingsPast, TypeOK, ExpiresAt
  <2>3. AcceptedOnceWhileValid'
    BY <1>4 DEF DeleteExpired, AcceptedOnceWhileValid, ExpiresAt
  <2> QED BY <2>1, <2>2, <2>3
<1>5. ASSUME NEW h \in Handlers, HandlerFails(h) PROVE NonceInv'
  BY <1>5 DEF HandlerFails, Answer, TypeOK, ReadingsPast, Remembered,
              AcceptedOnceWhileValid, ExpiresAt
<1>6. CASE Tick
  BY <1>6 DEF Tick, TypeOK, ReadingsPast, Remembered, AcceptedOnceWhileValid,
              ExpiresAt
<1>7. CASE UNCHANGED vars
  BY <1>7 DEF vars, TypeOK, ReadingsPast, Remembered, AcceptedOnceWhileValid,
              ExpiresAt
<1> QED
  BY <1>1, <1>2, <1>3, <1>4, <1>5, <1>6, <1>7 DEF Next, RefuseProof

\* Every reachable state of verifyProof and its stores satisfies NonceInv.
THEOREM NonceInvariant == Spec => []NonceInv
  BY InitNonce, NextNonce, PTL DEF Spec

\* Clock, stores and the requests inside verifyProof keep their types.
THEOREM TypeCorrect == Spec => []TypeOK
<1>1. NonceInv => TypeOK
  BY DEF NonceInv
<1> QED BY NonceInvariant, <1>1, PTL

\* Two requests never both succeed with one unexpired proof, however the
\* handlers are delayed between reading the clock and using the nonce.
THEOREM ProofsAreUsedOnce == Spec => []AcceptedOnceWhileValid
<1>1. NonceInv => AcceptedOnceWhileValid
  BY DEF NonceInv
<1> QED BY NonceInvariant, <1>1, PTL
=============================================================================
