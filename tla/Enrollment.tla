----------------------------- MODULE Enrollment -----------------------------
(***************************************************************************)
(* A device joins: it registers at the Relay with a pairing ticket and     *)
(* applies the bundle its inviter sends over the local channel.  The Relay *)
(* counts ticket uses in each process; a ticket store of the provisioning  *)
(* library counts them at the issuer.  A request passes the checks that    *)
(* need no state, then the replay store (module ProofNonce), the ticket    *)
(* count and bindIdentity (module RelayAccess), each an action; a replica  *)
(* may restart between them.                                               *)
(*                                                                         *)
(* There is one invitation: a v3 ticket for the Relay and a v2 ticket for  *)
(* the ticket store.  A device that is reset draws a new identity key.     *)
(***************************************************************************)
EXTENDS SignedObjects, FiniteSets

CONSTANTS
    Joiners, Inviter,        \* devices; the inviter is the grant's audience
    Replicas,                \* Relay processes
    Registrations,           \* concurrent registrations
    MaxUses,                 \* uses a ticket may allow, and a client may name
    TTL,                     \* lifetime of tickets and bundles
    MaxKeys, MaxRestarts,    \* bounds: keys of a device; restarts
    MaxClock                 \* bound: clock

ASSUME EnrollmentConstants ==
    /\ Inviter \notin Joiners /\ {TTL, MaxKeys} \subseteq Nat \ {0}
    /\ {MaxUses, MaxRestarts, MaxClock} \subseteq Nat
    /\ IsFiniteSet(Replicas) /\ IsFiniteSet(Registrations)

VARIABLES
    profile, clock,
    key,          \* the current key of each device, by number
    ticket,       \* the tickets issued
    uses,         \* tickets of each replica: MaxUses (0: unset) and Uses
    ticketStore,  \* the issuer's TicketStore: limit and uses
    reg,          \* registrations in progress
    local,        \* devices whose local channel is ready; the bundle on the way
    hist          \* history, see NoHistory

enrollVars == <<profile, clock, key, ticket, uses, ticketStore, reg, local, hist>>
-----------------------------------------------------------------------------
Members == Joiners \cup {Inviter}
Identity(d) == [dev |-> d, key |-> <<d, key[d]>>]
Issuer == "issuer"
InviterKey == <<Inviter, 1>>
NoReg == [pc |-> "idle", at |-> {}, dev |-> {}, signed |-> FALSE, uses |-> 0]
Unused == [max |-> 0, uses |-> 0]

\* Registrations bound through the signed ticket, and for which devices; bound
\* through the legacy path; uses the ticket store granted; restarts; bundles
\* signed; the bundle last applied, with the identity it was applied to.
NoHistory == [bound |-> 0, admitted |-> {}, legacy |-> 0, granted |-> 0, restarts |-> 0,
              issued |-> {}, applied |-> {}]

EnrollInit ==
    /\ profile \in {"local-lab", "production"}
    /\ clock = 0
    /\ key = [d \in Members |-> 1]
    /\ ticket = {}
    /\ uses = [r \in Replicas |-> Unused] /\ ticketStore = Unused
    /\ reg = [q \in Registrations |-> NoReg]
    /\ local = [ready |-> {}, bundle |-> {}]
    /\ hist = NoHistory

\* The issuer signs the invitation in both forms.
IssueTicket(relay, n) ==
    /\ ticket = {}
    /\ LET body == [audience |-> Inviter, relay |-> relay, uses |-> n,
                    issued |-> clock, expires |-> clock + TTL]
       IN ticket' = {SignTicketV3(Issuer, body), SignTicket(Issuer, body)}
    /\ UNCHANGED <<profile, clock, key, uses, ticketStore, reg, local, hist>>

\* What may arrive of a ticket: itself, or a copy with one field changed.
TicketCopies ==
    UNION {{o, Damaged(o, [o.body EXCEPT !.uses = @ + 1]), Damaged(o, [o.body EXCEPT !.relay = "here"]),
            Damaged(o, [o.body EXCEPT !.expires = @ + TTL])} : o \in ticket}

\* A device proves its key for this ticket, for no ticket (as bindSelf lets
\* it), or proved a key it had before a reset.
Proofs(d) ==
    {CreateProof([dev |-> d, key |-> <<d, k>>], "here", c, clock) : k \in 1 .. key[d], c \in {"ticket", "self"}}
-----------------------------------------------------------------------------
(* Registration at the Relay.                                              *)

\* The checks of registerWithSignedTicket up to the ticket count.
Admits(o, p, d) ==
    /\ VerifyTicketV3(o, Issuer, clock)
    /\ o.body.relay = "here"
    /\ p.body.challenge = "ticket"
    /\ VerifyProof(Identity(d), p, "here", "ticket")
    /\ BindGrantRoles(o.body, Identity(d))

RegisterWithSignedTicket(q, r, d) ==
    /\ reg[q].pc = "idle"
    /\ \E o \in TicketCopies, p \in Proofs(d) :
          /\ Admits(o, p, d)
          /\ reg' = [reg EXCEPT ![q] = [pc |-> "consume", at |-> {r}, dev |-> {d}, signed |-> TRUE, uses |-> o.body.uses]]
    /\ UNCHANGED <<profile, clock, key, ticket, uses, ticketStore, local, hist>>

\* Its error returns.
RefuseRegistration(d) ==
    /\ \E o \in TicketCopies, p \in Proofs(d) : ~Admits(o, p, d)
    /\ UNCHANGED enrollVars

\* registerWithTicket without a ticket: the request names the uses itself.
RegisterWithTicketID(q, r, d, n) ==
    /\ reg[q].pc = "idle" /\ profile # "production" /\ ticket # {}
    /\ \E p \in Proofs(d) : VerifyProof(Identity(d), p, "here", p.body.challenge)
    /\ reg' = [reg EXCEPT ![q] = [pc |-> "consume", at |-> {r}, dev |-> {}, signed |-> FALSE, uses |-> n]]
    /\ UNCHANGED <<profile, clock, key, ticket, uses, ticketStore, local, hist>>

\* Mutant: the last use is granted twice.
consumeTicketOnceMore(q, r) ==
    /\ reg[q].pc = "consume" /\ reg[q].at = {r}
    /\ LET max == IF uses[r].max = 0 THEN reg[q].uses ELSE uses[r].max
       IN IF max > 0 /\ uses[r].uses <= max
             THEN /\ uses' = [uses EXCEPT ![r] = [max |-> max, uses |-> uses[r].uses + 1]]
                  /\ reg' = [reg EXCEPT ![q].pc = "bind", ![q].uses = 0]
             ELSE reg' = [reg EXCEPT ![q] = NoReg] /\ UNCHANGED uses
    /\ UNCHANGED <<profile, clock, key, ticket, ticketStore, local, hist>>

\* Mutant: the changed count is not put back into the map.
consumeTicketUnsaved(q, r) ==
    /\ reg[q].pc = "consume" /\ reg[q].at = {r}
    /\ reg' = IF reg[q].uses > 0 THEN [reg EXCEPT ![q].pc = "bind"] ELSE [reg EXCEPT ![q] = NoReg]
    /\ UNCHANGED <<profile, clock, key, ticket, uses, ticketStore, local, hist>>

\* consumeTicket: the first request decides how many uses the ticket has.
consumeTicket(q, r) ==
    /\ reg[q].pc = "consume" /\ reg[q].at = {r}
    /\ LET max == IF uses[r].max = 0 THEN reg[q].uses ELSE uses[r].max
       IN IF max > 0 /\ uses[r].uses < max
             THEN /\ uses' = [uses EXCEPT ![r] = [max |-> max, uses |-> uses[r].uses + 1]]
                  /\ reg' = [reg EXCEPT ![q].pc = "bind", ![q].uses = 0]
             ELSE reg' = [reg EXCEPT ![q] = NoReg] /\ UNCHANGED uses
    /\ UNCHANGED <<profile, clock, key, ticket, ticketStore, local, hist>>

\* bindIdentity, module RelayAccess.
BindIdentity(q) ==
    /\ reg[q].pc = "bind"
    /\ hist' = IF reg[q].signed
                  THEN [hist EXCEPT !.bound = @ + 1, !.admitted = @ \cup reg[q].dev]
                  ELSE [hist EXCEPT !.legacy = @ + 1]
    /\ reg' = [reg EXCEPT ![q] = NoReg]
    /\ UNCHANGED <<profile, clock, key, ticket, uses, ticketStore, local>>

\* The replay store or bindIdentity fails; a use once consumed stays consumed.
RegistrationFails(q) ==
    /\ reg[q].pc # "idle"
    /\ reg' = [reg EXCEPT ![q] = NoReg]
    /\ UNCHANGED <<profile, clock, key, ticket, uses, ticketStore, local, hist>>

\* New: a replica starts with no ticket counted.
RestartReplica(r) ==
    /\ hist.restarts < MaxRestarts
    /\ hist' = [hist EXCEPT !.restarts = @ + 1]
    /\ uses' = [uses EXCEPT ![r] = Unused]
    /\ reg' = [q \in Registrations |-> IF reg[q].at = {r} THEN NoReg ELSE reg[q]]
    /\ UNCHANGED <<profile, clock, key, ticket, ticketStore, local>>
-----------------------------------------------------------------------------
(* The ticket store of the provisioning library.                           *)

\* consume: limit and count under the store's mutex.
Consume(n) ==
    LET limit == IF ticketStore.max = 0 THEN n ELSE ticketStore.max
    IN /\ n > 0
       /\ IF ticketStore.uses >= limit
             THEN ticketStore' = [ticketStore EXCEPT !.max = limit] /\ UNCHANGED hist
             ELSE /\ ticketStore' = [max |-> limit, uses |-> ticketStore.uses + 1]
                  /\ hist' = [hist EXCEPT !.granted = @ + 1]

\* An issuer verifies a ticket of either type and consumes it.
ConsumeTicket ==
    /\ \E o \in TicketCopies :
          /\ VerifyTicket(o, Issuer, clock) \/ VerifyTicketV3(o, Issuer, clock)
          /\ Consume(o.body.uses)
    /\ UNCHANGED <<profile, clock, key, ticket, uses, reg, local>>
-----------------------------------------------------------------------------
(* Local channel and bundle.                                               *)

\* EstablishLocalChannel: both ends derive the key at once.
EstablishLocalChannel(d) ==
    /\ local' = [local EXCEPT !.ready = @ \cup {d}]
    /\ UNCHANGED <<profile, clock, key, ticket, uses, ticketStore, reg, hist>>

\* The inviter signs a bundle for a device and the key it has now.
SendBundle(d) ==
    /\ LET body == [dev |-> d, key |-> Identity(d).key, issued |-> clock, expires |-> clock + TTL]
       IN /\ local' = [local EXCEPT !.bundle = {SignBundle(InviterKey, body)}]
          /\ hist' = [hist EXCEPT !.issued = @ \cup {body}]
    /\ UNCHANGED <<profile, clock, key, ticket, uses, ticketStore, reg>>

BundleCopies ==
    UNION {{o, Damaged(o, [o.body EXCEPT !.expires = @ + TTL])}
              \cup {Damaged(o, [o.body EXCEPT !.dev = d, !.key = <<d, key[d]>>]) : d \in Joiners} : o \in local.bundle}

ReceiveBundle(d) ==
    /\ \E o \in BundleCopies :
          /\ ApplyBundle(d \in local.ready, Identity(d), o, InviterKey, clock)
          /\ hist' = [hist EXCEPT !.applied = {[id |-> Identity(d), body |-> o.body]}]
    /\ UNCHANGED <<profile, clock, key, ticket, uses, ticketStore, reg, local>>

\* A device is reset: a new identity key (NewDevice), no channel, no bundle.
Reset(d) ==
    /\ key[d] < MaxKeys
    /\ key' = [key EXCEPT ![d] = @ + 1]
    /\ local' = [local EXCEPT !.ready = @ \ {d}]
    /\ hist' = [hist EXCEPT !.applied = {a \in @ : a.id.dev # d}]
    /\ UNCHANGED <<profile, clock, ticket, uses, ticketStore, reg>>

ClockTicks ==
    /\ clock < MaxClock
    /\ clock' = clock + 1
    /\ UNCHANGED <<profile, key, ticket, uses, ticketStore, reg, local, hist>>

TicketNext ==
    \/ \E relay \in {"here", "elsewhere"}, n \in 0 .. MaxUses : IssueTicket(relay, n)
    \/ \E q \in Registrations, r \in Replicas :
          \/ \E d \in Members : \/ RegisterWithSignedTicket(q, r, d)
                                \/ \E n \in 0 .. MaxUses : RegisterWithTicketID(q, r, d, n)
          \/ consumeTicket(q, r)
    \/ \E q \in Registrations : BindIdentity(q) \/ RegistrationFails(q)
    \/ \E r \in Replicas : RestartReplica(r)
    \/ ConsumeTicket \/ \E d \in Members : RefuseRegistration(d)

BundleNext ==
    \E d \in Joiners : EstablishLocalChannel(d) \/ SendBundle(d) \/ ReceiveBundle(d)

\* What both protocols depend on.
DeviceNext == ClockTicks \/ \E d \in Joiners : Reset(d)

EnrollNext == TicketNext \/ BundleNext \/ DeviceNext

EnrollSpec == EnrollInit /\ [][EnrollNext]_enrollVars
-----------------------------------------------------------------------------
Allowed == IF ticket = {} THEN 0 ELSE (CHOOSE o \in ticket : TRUE).body.uses

\* Counters and records stay in their ranges.
EnrollTypeOK ==
    /\ clock \in 0 .. MaxClock /\ key \in [Members -> 1 .. MaxKeys] /\ local.ready \subseteq Joiners
    /\ uses \in [Replicas -> [max : 0 .. MaxUses, uses : 0 .. MaxUses]]
    /\ ticketStore \in [max : 0 .. MaxUses, uses : 0 .. MaxUses]
    /\ \A q \in Registrations : reg[q].pc \in {"idle", "consume", "bind"} /\ reg[q].at \subseteq Replicas

\* A signed ticket admits no more devices than it says for each process that
\* counted it, and the ticket store grants no more than it says, whatever
\* requests overlap and whatever copies of the ticket arrive (consumeTicket
\* and TicketStore.consume).  In production the Relay has no other way in.
TicketUsesBounded ==
    /\ profile = "production" =>
          /\ hist.bound <= Allowed * (Cardinality(Replicas) + hist.restarts)
          /\ hist.legacy = 0
    /\ hist.granted <= Allowed

\* Only those enter who were invited: a device bound through the signed ticket
\* is not the ticket's audience, and the issuer signed a ticket for this relay
\* (registerWithSignedTicket, BindGrantRoles).
InvitationHonoured ==
    \A d \in hist.admitted : \E o \in ticket :
       o.type = "ticket.v3" /\ o.body.relay = "here" /\ o.body.audience # d

\* A bundle is applied only as the inviter signed it, over a ready channel, by
\* the device and with the key it was issued to, although devices are reset
\* and bundles arrive late or damaged (ApplyBundle).
BundlesReachTheirKey ==
    \A a \in hist.applied :
       /\ a.body \in hist.issued
       /\ a.body.dev = a.id.dev /\ a.body.key = a.id.key /\ a.id.dev \in local.ready
=============================================================================
