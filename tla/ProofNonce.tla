------------------------------ MODULE ProofNonce ------------------------------
(***************************************************************************)
(* Replay protection of device proofs: verifyProof of the Relay and of the *)
(* Trust Root, with the in-memory cache (pkg/server/replay) or the table   *)
(* pop_replay_cache (pkg/server/repository/proof_nonce.go), shared by all  *)
(* replicas.  A client may present one proof any number of times: retries  *)
(* and duplicated requests carry the same nonce.  A handler reads the      *)
(* clock once and may be delayed before it reaches the cache.              *)
(*                                                                         *)
(* A proof stands for its (domain, device, audience, nonce).  Identity,    *)
(* audience, challenge and signature checks are assumed to pass.           *)
(***************************************************************************)
EXTENDS Integers

CONSTANTS
    Proofs,     \* device proofs, each with its nonce
    Handlers,   \* concurrent requests
    TTL,        \* the ttl of verifyProof, in ticks
    MaxClock    \* bound: clock

ASSUME NonceConstants == TTL \in Nat \ {0} /\ MaxClock \in Nat

VARIABLES
    mode,       \* "memory", or "postgres" when a repository is configured
    issued,     \* proof.IssuedAt
    clock,      \* time.Now()
    cache,      \* proofs whose nonce is in the cache
    pc,         \* where a handler is
    proof,      \* the proof it verifies
    now,        \* the time it read
    uses        \* history: acceptances of a proof, 2 for two or more

vars == <<mode, issued, clock, cache, pc, proof, now, uses>>
-----------------------------------------------------------------------------
ExpiresAt(p) == issued[p] + TTL

Init ==
    /\ mode \in {"memory", "postgres"}
    /\ issued \in [Proofs -> 0..MaxClock]
    /\ clock = 0
    /\ cache = {}
    /\ pc = [h \in Handlers |-> "idle"]
    /\ proof = [h \in Handlers |-> {}]
    /\ now = [h \in Handlers |-> 0]
    /\ uses = [p \in Proofs |-> 0]

\* identity.VerifyProof at the time the handler reads: the window is closed on
\* both sides.
InWindow(p, t) == t - issued[p] <= TTL /\ issued[p] <= t + TTL

\* Mutant: expiresAt and now are swapped on the way to the cache.
VerifyProofSwapped(h, p) ==
    /\ pc[h] = "idle"
    /\ InWindow(p, clock)
    /\ pc' = [pc EXCEPT ![h] = IF mode = "memory" THEN "use" ELSE "purge"]
    /\ proof' = [proof EXCEPT ![h] = {p}]
    /\ now' = [now EXCEPT ![h] = ExpiresAt(p)]
    /\ UNCHANGED <<mode, issued, clock, cache, uses>>

VerifyProof(h, p) ==
    /\ pc[h] = "idle"
    /\ InWindow(p, clock)
    /\ pc' = [pc EXCEPT ![h] = IF mode = "memory" THEN "use" ELSE "purge"]
    /\ proof' = [proof EXCEPT ![h] = {p}]
    /\ now' = [now EXCEPT ![h] = clock]
    /\ UNCHANGED <<mode, issued, clock, cache, uses>>

\* A proof outside its window is refused and leaves no trace.
RefuseProof(h, p) ==
    /\ pc[h] = "idle"
    /\ ~InWindow(p, clock)
    /\ UNCHANGED vars

\* The handler answers and is done with its proof.
Answer(h) ==
    /\ pc' = [pc EXCEPT ![h] = "idle"]
    /\ proof' = [proof EXCEPT ![h] = {}]
    /\ now' = [now EXCEPT ![h] = 0]

Accepted(p) == [uses EXCEPT ![p] = IF @ = 0 THEN 1 ELSE 2]

\* replay.Cache.Use, under the cache's mutex: entries past their expiry are
\* deleted; a nonce is refused while it is in the cache and unexpired.
Use(h, p) ==
    LET kept == {q \in cache : ~(now[h] > ExpiresAt(q))} IN
    /\ pc[h] = "use"
    /\ p \in proof[h]
    /\ cache' = kept \cup {p}
    /\ uses' = IF p \in kept /\ now[h] < ExpiresAt(p)
               THEN uses ELSE Accepted(p)
    /\ Answer(h)
    /\ UNCHANGED <<mode, issued, clock>>

\* Mutant: the rows are expired one tick early.
DeleteExpiredEarly(h) ==
    /\ pc[h] = "purge"
    /\ cache' = {q \in cache : ~(ExpiresAt(q) <= now[h] + 1)}
    /\ pc' = [pc EXCEPT ![h] = "insert"]
    /\ UNCHANGED <<mode, issued, clock, proof, now, uses>>

\* useProofNonce: DELETE of the expired rows ...
DeleteExpired(h) ==
    /\ pc[h] = "purge"
    /\ cache' = {q \in cache : ~(ExpiresAt(q) <= now[h])}
    /\ pc' = [pc EXCEPT ![h] = "insert"]
    /\ UNCHANGED <<mode, issued, clock, proof, now, uses>>

\* ... then INSERT, refused by the primary key.
InsertNonce(h, p) ==
    /\ pc[h] = "insert"
    /\ p \in proof[h]
    /\ cache' = cache \cup {p}
    /\ uses' = IF p \in cache THEN uses ELSE Accepted(p)
    /\ Answer(h)
    /\ UNCHANGED <<mode, issued, clock>>

\* A statement fails or the process dies: nothing is accepted.  The table
\* survives; the memory cache is lost with its process, which is not modelled.
HandlerFails(h) ==
    /\ pc[h] \in {"purge", "insert"}
    /\ Answer(h)
    /\ UNCHANGED <<mode, issued, clock, cache, uses>>

Tick ==
    /\ clock < MaxClock
    /\ clock' = clock + 1
    /\ UNCHANGED <<mode, issued, cache, pc, proof, now, uses>>

Next ==
    \/ \E h \in Handlers, p \in Proofs :
          \/ VerifyProof(h, p) \/ RefuseProof(h, p)
          \/ Use(h, p) \/ InsertNonce(h, p)
    \/ \E h \in Handlers : DeleteExpired(h) \/ HandlerFails(h)
    \/ Tick

Spec == Init /\ [][Next]_vars
-----------------------------------------------------------------------------
\* Caches and handlers keep their types; a handler's time is a reading of the
\* clock, never a proof's expiry (verifyProof).
TypeOK ==
    /\ mode \in {"memory", "postgres"}
    /\ issued \in [Proofs -> 0..MaxClock]
    /\ clock \in 0..MaxClock
    /\ cache \subseteq Proofs
    /\ pc \in [Handlers -> {"idle", "use", "purge", "insert"}]
    /\ proof \in [Handlers -> SUBSET Proofs]
    /\ now \in [Handlers -> 0..MaxClock]
    /\ uses \in [Proofs -> 0..2]

(***************************************************************************)
(* Until a proof expires it is accepted at most once, whatever handlers    *)
(* with older readings of the clock do to the cache in between.            *)
(***************************************************************************)
AcceptedOnceWhileValid ==
    \A p \in Proofs : clock < ExpiresAt(p) => uses[p] <= 1

(***************************************************************************)
(* "The proof nonce is replay-protected" (spec/relay.md): a proof is       *)
(* accepted at most once, ever.                                            *)
(***************************************************************************)
AcceptedOnce == \A p \in Proofs : uses[p] <= 1
=============================================================================
