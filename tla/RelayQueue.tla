------------------------------ MODULE RelayQueue ------------------------------
(***************************************************************************)
(* The Relay without PostgreSQL: pkg/server/queue behind the envelopes,    *)
(* connect and admin messages handlers.  The queue has a mutex, but each   *)
(* handler reads the clock before it takes it, so an operation carries any *)
(* time up to the present.  A connection owns what it dequeued: if it      *)
(* drops, the rest of its batch is gone.                                   *)
(*                                                                         *)
(* q.messages is a set: its order shows only through sort.Slice, which     *)
(* leaves equal elements in any order.  Every accepted submission has an   *)
(* id of its own here; message ids are not told apart (the queue does not  *)
(* look at them).                                                          *)
(***************************************************************************)
EXTENDS Integers, FiniteSets, FiniteSetsExt

CONSTANTS
    Devices,     \* recipients
    Conns,       \* concurrent connect handlers
    Sizes,       \* envelope sizes
    Priorities,  \* route.priority values
    TTLs,        \* route.ttl_seconds values, in ticks
    MaxBytes,    \* relayMaxQueuedBytes
    Limit,       \* messages one connection dequeues (100 in the code)
    MaxAccepted, \* bound: messages accepted
    MaxClock     \* bound: clock

ASSUME QueueConstants ==
    /\ Sizes \subseteq Nat /\ Priorities \subseteq Nat /\ TTLs \subseteq Nat \ {0}
    /\ MaxBytes \in Nat /\ Limit \in Nat \ {0}
    /\ MaxAccepted \in Nat /\ MaxClock \in Nat

VARIABLES
    clock,         \* time.Now()
    messages,      \* q.messages
    currentBytes,  \* q.currentBytes
    dev,           \* connect handlers: the device served
    batch,         \* connect handlers: messages dequeued and not yet written
    accepted,      \* history: messages Enqueue accepted
    taken          \* history: messages DequeueFor returned

vars == <<clock, messages, currentBytes, dev, batch, accepted, taken>>
-----------------------------------------------------------------------------
Message == [id : 1..MaxAccepted, rec : Devices, size : Sizes,
            prio : Priorities, qat : 0..MaxClock,
            exp : {now + t : now \in 0..MaxClock, t \in TTLs}]

Bytes(S) == SumFunction([m \in S |-> m.size])

\* Mutant: a message is dropped at the instant it expires.
LiveBefore(now) == {m \in messages : m.exp > now}

\* now.After(ExpiresAt) drops a message.
Live(now) == {m \in messages : m.exp >= now}

\* The comparison of both sorts.
Before(m, n) ==
    \/ m.prio > n.prio
    \/ m.prio = n.prio /\ m.qat < n.qat

\* matches[:limit] of some sorted order of S
FirstOf(S) ==
    {T \in SUBSET S :
        /\ Cardinality(T) = Min({Cardinality(S), Limit})
        /\ \A m \in T, n \in S \ T : ~Before(n, m)}

Init ==
    /\ clock = 0
    /\ messages = {}
    /\ currentBytes = 0
    /\ dev = [c \in Conns |-> {}]
    /\ batch = [c \in Conns |-> {}]
    /\ accepted = {}
    /\ taken = {}

\* What a handler that reaches the mutex now may have read from the clock.
Readings == 0..clock
-----------------------------------------------------------------------------
\* Mutant: ttl_seconds taken for minutes.
NewMessageMinutes(d, size, p, t, now) ==
    [id |-> Cardinality(accepted) + 1, rec |-> d, size |-> size, prio |-> p,
     qat |-> now, exp |-> now + 60 * t]

NewMessage(d, size, p, t, now) ==
    [id |-> Cardinality(accepted) + 1, rec |-> d, size |-> size, prio |-> p,
     qat |-> now, exp |-> now + t]

\* Mutant: only the single message is compared with the quota.
FitsAlone(live, size) == size <= MaxBytes

Fits(live, size) == size <= MaxBytes /\ Bytes(live) + size <= MaxBytes

\* POST /v2/relay/envelopes: Enqueue of an envelope stamped now, then 202 or 413.
Enqueue(d, size, p, t, now) ==
    LET live == Live(now)
        m == NewMessage(d, size, p, t, now) IN
    /\ Cardinality(accepted) < MaxAccepted
    /\ \/ /\ Fits(live, size)
          /\ messages' = live \cup {m}
          /\ currentBytes' = Bytes(live) + size
          /\ accepted' = accepted \cup {m}
       \/ /\ ~Fits(live, size)
          /\ messages' = live
          /\ currentBytes' = Bytes(live)
          /\ accepted' = accepted
    /\ UNCHANGED <<clock, dev, batch, taken>>

\* Mutant: the messages handed out stay in the queue.
DequeueForKeeps(c, d, now) ==
    LET matches == {m \in Live(now) : m.rec = d} IN
    /\ dev[c] = {}
    /\ dev' = [dev EXCEPT ![c] = {d}]
    /\ \E out \in FirstOf(matches) :
        /\ messages' = Live(now)
        /\ currentBytes' = Bytes(Live(now))
        /\ batch' = [batch EXCEPT ![c] = out]
        /\ taken' = taken \cup out
    /\ UNCHANGED <<clock, accepted>>

\* GET /v2/relay/connect: DequeueFor on behalf of device d.
DequeueFor(c, d, now) ==
    LET matches == {m \in Live(now) : m.rec = d} IN
    /\ dev[c] = {}
    /\ dev' = [dev EXCEPT ![c] = {d}]
    /\ \E out \in FirstOf(matches) :
        /\ messages' = Live(now) \ out
        /\ currentBytes' = Bytes(Live(now) \ out)
        /\ batch' = [batch EXCEPT ![c] = out]
        /\ taken' = taken \cup out
    /\ UNCHANGED <<clock, accepted>>

WriteMessage(c, m) ==
    /\ m \in batch[c]
    /\ \A n \in batch[c] : ~Before(n, m)
    /\ batch' = [batch EXCEPT ![c] = @ \ {m}]
    /\ UNCHANGED <<clock, messages, currentBytes, dev, accepted, taken>>

\* Drained, or a write failed: the batch is dropped.
Close(c) ==
    /\ dev[c] # {}
    /\ dev' = [dev EXCEPT ![c] = {}]
    /\ batch' = [batch EXCEPT ![c] = {}]
    /\ UNCHANGED <<clock, messages, currentBytes, accepted, taken>>

\* GET of the admin message list.
SnapshotMetadata(now) ==
    /\ messages' = Live(now)
    /\ currentBytes' = Bytes(Live(now))
    /\ UNCHANGED <<clock, dev, batch, accepted, taken>>

Tick ==
    /\ clock < MaxClock
    /\ clock' = clock + 1
    /\ UNCHANGED <<messages, currentBytes, dev, batch, accepted, taken>>
-----------------------------------------------------------------------------
Next ==
    \/ \E d \in Devices, size \in Sizes, p \in Priorities, t \in TTLs,
          now \in Readings : Enqueue(d, size, p, t, now)
    \/ \E c \in Conns, d \in Devices, now \in Readings : DequeueFor(c, d, now)
    \/ \E c \in Conns : Close(c) \/ \E m \in batch[c] : WriteMessage(c, m)
    \/ \E now \in Readings : SnapshotMetadata(now)
    \/ Tick

Spec == Init /\ [][Next]_vars
-----------------------------------------------------------------------------
\* The queue holds well-formed messages, whose expiry is at most a TTL after
\* their submission (envelopes, Enqueue).
TypeOK ==
    /\ clock \in 0..MaxClock
    /\ messages \subseteq Message
    /\ currentBytes \in Nat
    /\ dev \in [Conns -> SUBSET Devices]
    /\ batch \in [Conns -> SUBSET Message]
    /\ accepted \subseteq Message
    /\ taken \subseteq Message

(***************************************************************************)
(* The cached byte count is that of the messages held and never exceeds    *)
(* the quota, whatever Enqueue, DequeueFor and SnapshotMetadata drop with  *)
(* out-of-order times.                                                     *)
(***************************************************************************)
QuotaRespected == currentBytes = Bytes(messages) /\ currentBytes <= MaxBytes

(***************************************************************************)
(* An accepted message stays queued until DequeueFor hands it out or its   *)
(* TTL has passed: no operation with an early or late reading of the clock *)
(* drops it sooner.                                                        *)
(***************************************************************************)
KeptUntilTakenOrExpired ==
    \A m \in accepted : m \in messages \/ m \in taken \/ m.exp < clock

(***************************************************************************)
(* A message DequeueFor handed out belongs to one connection and never     *)
(* returns to the queue.                                                   *)
(***************************************************************************)
TakenOnce ==
    /\ messages \cap taken = {}
    /\ \A c, d \in Conns : c # d => batch[c] \cap batch[d] = {}
=============================================================================
