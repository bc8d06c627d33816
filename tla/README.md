# Verification of ISCP in TLA+

ISCP is a protocol by which devices exchange end-to-end encrypted messages
through a Relay that cannot read them, with a Trust Root that says which
devices exist and what they may do. This directory models the Go reference
implementation, checks the models with TLC on small instances and proves the
main results with TLAPS for instances of every size.

## The system

| Part | Code | Module |
|---|---|---|
| Relay delivery with PostgreSQL | `services/relay-reference/internal/relay/server.go` (`envelopes`, `connect`), `pkg/server/repository/relay.go`, `pkg/server/cleanup` | `RelayDelivery`, contract `DeliveryContract` |
| Relay queue in memory | `pkg/server/queue`, the same handlers | `RelayQueue` |
| Session handshake and secure envelopes | `pkg/iscp/session/session.go`, `pkg/iscp/envelope` | `Session` |
| Replay protection of device proofs | `verifyProof` of both services, `pkg/server/replay`, `pkg/server/repository/proof_nonce.go`, `identity.VerifyProof` | `ProofNonce` |
| Relay registration, credentials, revocation | `relay/server.go` (`bindIdentity`, `issueCredentials`, `refreshAccess`, `authenticateAccess`, `revokeAccess`, `connect`), `pkg/server/repository/relay.go` | `RelayAccess` |
| Trust Root: devices, grants, revocation, feed, key ring | `services/trust-root-reference/internal/trust/server.go`, `pkg/server/repository/trust.go`, `pkg/server/keyring`, `pkg/iscp/trust` | `TrustRoot` |
| Pairing tickets, local channel, bundles | `pkg/iscp/provisioning`, `registerWithTicket`, `registerWithSignedTicket`, `consumeTicket` | `Enrollment`, checks in `SignedObjects` |
| Reopen and close frames | `pkg/iscp/session/control.go` | `ControlFrames`, checks in `SignedObjects` |
| Rate limiter | `pkg/server/ratelimit`, `Handler` of both services | `RateLimit` |
| Descriptors, hot sessions, configuration gate, recovery blobs, cryptography, canonical JSON, storage, audit hash, tools, simulator | the rest | not modelled |

A sender submits an envelope to the Relay over HTTP; the Relay stores it (in a
table or in memory) and answers with a receipt. The recipient opens a WebSocket
connection, proves who it is, gets one batch of messages and is disconnected.
The envelopes are sealed under the keys of a session, which the two devices set
up with signed hello and ready messages. Every request that proves possession
of a device key goes through `verifyProof`, which must accept a nonce once.
Before that a device joins: the Trust Root authorizes it and signs grants, it
registers at the Relay with a pairing ticket and gets an access and a refresh
token, and its inviter hands it a bundle. Both services may revoke it. Each
service process keeps maps of its own and, with PostgreSQL, shares tables.
`PROJECT.json` lists all parts, the source lines of every definition, and the
hazards of the code with the properties that guard against them.

## The modules

**`DeliveryContract`** is what the Relay promises about a message: it is absent,
queued or delivered; a connection takes a message only while it is queued, hands
each one it holds over at most once per take, and delivered is recorded only
after a hand-over. A message may be delivered more than once, never claimed
again once it is recorded as delivered while its row lives.

**`RelayDelivery`** is the code: one action per SQL statement, because each
commits on its own. `StoreMessage` and `StoreReceipt` are the two statements of
`envelopes`; `ClaimPendingMessagesFor`, `WriteMessage`, `MarkRow`, `MarkReceipt`
and `Drained` are the steps of `connect` (the two marks are the statements of
`MarkMessageDelivered`). `SubmissionFails`, `MarkFails` and `ConnectionDrops`
are failing statements, lost connections and dying processes at every point
between statements. Times are kept relative to the present: `age`, `ttl` and
`claim` stand for `queued_at`, `expires_at` and `delivery_claimed_until`. `wire`
and `lease` are history variables. Assumptions: the replicas' clocks agree; a
handler's clock reading is that of its statement (an older reading only makes a
claim more cautious); statements take effect one after the other, so a claim
never passes over a row that an upsert or a mark has locked at that moment (in
the database it may, and the row then waits for the next connection); the sender
and the device were authenticated.

**`RelayQueue`** is the Relay without a database. Its operations are atomic
under the mutex, but the clock is read before the mutex is taken, so every
operation carries any `now` up to the present. A restart, which empties the
queue, is not modelled.

**`Session`** has one action per library call, on devices that restart and a
transport that keeps every message ever sent and delivers any of them at any
time, any number of times, perhaps damaged. Cryptography is ideal: a transcript
is the ordered pair of hellos, a key is a transcript and a direction. Assumed of
the application: it uses each `LocalHello` for one `Establish` (the library does
not enforce it; a second one with the same pair of hellos would restart the
sequence numbers under the same keys).

**`ProofNonce`** covers both stores (`mode`). A request reads the clock and
checks the window (`VerifyProof`), then uses the cache in one step (`Use`) or
the table in two (`DeleteExpired`, `InsertNonce`); any other request may run in
between. A restart that empties the in-memory cache is left out.

**`RelayAccess`** has one action per critical section and per SQL statement, so
requests interleave wherever the code releases the mutex. `revokeAccess` is the
exception the code makes: it keeps the mutex over its statements (`mutex`). A
credential of the model is the pair of tokens issued together. `db` holds the
three tables, `mem` the maps of each replica, `req` a request's position, what
it read and the time it read. `Fail` ends a request at any statement, `Restart`
empties a replica's maps and drops its requests. `held`, `dead`, `cut` and
`barred` are history: what clients were given, what an answered revocation or
rotation covered, and what of it each replica must know. `doomed` records, when
a request arrives, why it must not be served. The properties speak of the
replica that answered and of those started since, because a running replica
believes its own maps and does not learn of revocations made elsewhere.

**`TrustRoot`** follows the same pattern. `SubmitDevice` and `RecordSubmitted`
are the statement and the critical section of `submitDevice`; `AuthorizeInMap`,
`AuthorizeDevice`, `SignGrant`, `StoreGrant`, `PublishGrant` are the steps of
`authorizeDevice` (its look-up runs under the mutex and is part of the first);
`RevokeInMap`, `RevokeDevice`, `LogDeviceRevocation` those of `revokeDevice`;
`RevokeGrant`, `LogGrantRevocation`, `RecordGrantRevocation` those of
`revokeGrant`. `AddNextKey` and `RotateKeys` are the two calls on the ring.
`walk` is a client that follows `next_cursor`; the feed is the set of ids it
holds (`Held`) with the place of each (`Place`: the id in the table, the position
in the log), and a page is the first `Limit` after the cursor. A grant's time is one flag
(`expired`), set by `Expire`. `acked` is history: revocations a replica answered
(a revocation that found no row is not counted: it is answered, but a restart
forgets it). `device_record_version` is left out, because no condition reads it.

**`SignedObjects`** holds the checks as operators: what a receiver compares in a
ticket, a proof, a bundle, a control frame. A signature is ideal. **`Enrollment`**
uses them for one invitation: registrations at Relay processes that restart
(`uses` is the `tickets` map of each), the library's `TicketStore`, and bundles
to devices that are reset. Copies with one field changed arrive beside the
originals. **`ControlFrames`** uses them for frames between clocks that are off
by a constant. **`RateLimit`** is the limiter for one client, with requests that
read the clock before they wait for the mutex.

The `MC*` modules add symmetry sets; `MCLifecycle` also puts `Enrollment`,
`ControlFrames` and `RateLimit` side by side and lets a behaviour move one of
them, since they share no state that matters to each other. An operator whose
comment begins with "Mutant" is a plausible wrong version of the definition
after it, used to see that the properties notice.

## What the runs check

| Run | Configuration | Result |
|---|---|---|
| `relay_delivery` | `RelayDelivery_safety.cfg` | about 776,000 states. Leases are exclusive (`LeaseExclusive`), receipts are truthful (`ReceiptTruthful`), the statements implement the contract (`ImplementsContract`) |
| `relay_liveness` | `RelayDelivery_liveness.cfg` | about 100,000 states. A stored message that does not expire is eventually marked delivered (`EventuallyDelivered`) |
| `relay_queue` | `RelayQueue.cfg` | about 716,000 states. The byte count is right and within the quota (`QuotaRespected`), no live message is dropped (`KeptUntilTakenOrExpired`), none is handed out twice (`TakenOnce`) |
| `session` | `Session.cfg` | about 167,000 states. Ready sessions agree (`ReadyAgreement`), payload needs two verified ready messages (`DeliveryNeedsBothReady`), nonces do not repeat (`NonceUnique`), an envelope opens at most once (`OpenedAtMostOnce`) |
| `proof_nonce` | `ProofNonce.cfg` | about 68,000 states. Until a proof expires it is accepted at most once (`AcceptedOnceWhileValid`) |
| `proof_nonce_at_expiry` | `ProofNonce_afterExpiry.cfg` | violated, see below |
| `relay_access` | `RelayAccess.cfg` | about 1,970,000 states. A token covered by an answered revocation or rotation is not served again (`CutOffTokensStayDead`), a revoked device stays out until it registers again (`RevokedDeviceStaysOut`), a credential in a client's hands is in both tables (`CredentialsSurviveRestart`) and is never entered as live again (`HeldTokensNeverRevive`), a mutex is held exactly by a revocation at its statements (`TypeOK`) |
| `relay_access_expiry` | `RelayAccess_expiry.cfg` | about 978,000 states. `CutOffTokensStayDead` while tokens expire, in both profiles |
| `relay_refresh_single_use` | `RelayAccess_singleUse.cfg` | violated, see below |
| `trust_root` | `TrustRoot.cfg` | about 1,660,000 states. A grant signed around a revocation carries an older epoch (`GrantsDieWithDevice`), a replica stands by the revocations it answered (`AnsweredRevocationsHold`), the feed agrees with the tables (`FeedFaithful`), a reader who follows the cursor misses nothing that was there (`WalkComplete`), one key is active and the keys of issued grants are kept (`RotationKeepsGrants`), no step takes the revocation of a device back (`RevocationsAreKept`) |
| `trust_epochs` | `TrustRoot_epochs.cfg` | violated, see below |
| `device_lifecycle` | `Lifecycle.cfg` | about 514,000 states. Ticket uses are bounded per process that counted them (`TicketUsesBounded`), only invited devices enter (`InvitationHonoured`), a bundle is applied only under the key it was issued to (`BundlesReachTheirKey`), control frames are taken only for what they are (`FramesAuthentic`) and fresh ones are taken in spite of truncation and skew (`FreshFramesAccepted`), a window lets through at most twice the limit and what was waiting (`RateBounded`) |

**Bounds.** `relay_delivery`: two messages, each of which can be resubmitted at
any time, two competing connections of one device, a TTL that runs out and one
that does not, a lease of two ticks (so that it can be half over), one fault
anywhere. A second device or a third connection adds no new interaction: claims
of different devices touch different rows, and the proofs cover every number.
`relay_liveness`: the same with two faults, a lease of one tick and the long TTL
only. `relay_queue`: three messages of two sizes and priorities against a quota
of three bytes, so that the quota is hit exactly, exceeded, and freed again.
`session`: four ephemeral keys (two full attempts, or one with two abandoned
hellos), two session ids so that attempts share an id or not, two envelopes.
`proof_nonce`: two proofs so that one request's purge meets the other's nonce,
a window of two ticks and a clock that passes its end. `relay_access`: two
replicas, two requests at a time, one device, two credentials (one to rotate,
one to rotate into), no time; `relay_access_expiry`: one replica, tokens that
live one tick and a clock of two, so that requests fall before, at and after the
expiry. Requests of different devices meet only in the mutex. `trust_root`: one
device, one grant, two requests, two revocations, three keys (so that a rotation
or restarts happen), pages of one item, so that every page is full; one replica,
since replicas share only the tables, which the requests of one replica already
change behind its maps. `device_lifecycle`: tickets of zero to two uses, two
Relay processes, two registrations at a time, one restart, a device with two
keys in turn; two ticks to a second so that truncation shows, clocks up to a
second and a half apart with a skew allowance of one; two requests at a limiter
of two per window over three windows.

**Fairness** (`FairSpec`, only in `relay_liveness`): a running `connect` handler
takes its next step, time passes, and a device reconnects again and again
(strong fairness, because each connection ends after one batch). The first is
the Go scheduler and the database answering, the last is what a client does that
wants its messages. Faults are finitely many. Submission is not assumed fair.

No other run assumes fairness: their properties are invariants, the step
properties `HeldTokensNeverRevive` and `RevocationsAreKept`, and a refinement.

**Findings.**

* `spec/relay.md` says the proof nonce is replay-protected.
  `identity.VerifyProof` accepts a proof up to and including `IssuedAt+ttl`; the
  in-memory cache refuses a nonce only before that instant, and the table's rows
  are deleted at it. A proof used before is accepted again by a request that
  reads the clock exactly then, or that read it earlier and reaches the store
  after another request's purge. `AcceptedOnceWhileValid` is what does hold:
  before the expiry nothing, not even a delayed purge, lets a proof through twice.
* `docs/operations/install.md` says refresh credentials are single-use.
  `refreshAccess` checks and revokes in separate steps, so two overlapping
  requests with one credential are both answered (`RefreshSingleUse`). Once one
  is answered, no later request succeeds at that replica (`CutOffTokensStayDead`).
* `spec/security-baseline.md` says revocation epochs increase monotonically.
  After a restart, `submitDevice` enters a revoked device in the empty map with
  epoch 0, and `deviceStatus` shows that (`ShownEpochsMonotonic`). The row keeps
  its epoch, so no grant is signed for the device (`GrantsDieWithDevice`).
  Between restarts, and in the table always, epochs do increase
  (`RevocationsAreKept`).

Other behaviour the models show, of which no document says otherwise:
`verifyGrant` does not look at revoked grants, and `grantStatus` does not look at
the row of the device; a running replica does not learn of revocations made at
another; a process that dies between the two statements of a revocation leaves
it unlisted in the feed; an id chosen early and inserted late can appear behind a
cursor (`WalkComplete` promises what was there when the walk began).
`spec/provisioning.md` asks that consuming a ticket and binding the device be
atomic; a failure between them uses up a ticket use (`RegistrationFails`).

## What is proved

Every invariant, both step properties and the refinement that a passing run
checks are also theorems,
for every value of the constants that satisfies the `ASSUME` of its module. The
assumptions say that bounds are natural numbers, that leases, lifetimes, page
sizes and limits are positive, and:

* `TrustConstants`: a name is not both a device's and a grant's;
* `ControlConstants`: the lifetime of a frame is in whole seconds and exceeds the
  skew allowance by a second or more (30 and 5 seconds in `control.go`);
* `EnrollmentConstants`, `RateConstants`: the replicas, registrations and waiting
  requests are finitely many.

The specifications proved about are the ones the runs use, except that
`MCLifecycle` moves one of three components in a behaviour: each of its steps is
a step of `EnrollNext`, `ControlNext` or `RateNext`, which the theorems use.

* `RelayDelivery_proofs`: `LeasesAreExclusive`, `ReceiptsAreTruthful`,
  `TypeCorrect` and the refinement `DeliveryRefinesContract`. `LeaseExclusive` is
  not inductive alone: that another connection finds a message unclaimable
  depends on the row. `DeliveryInv` adds `LeaseRecorded` (a running lease is in
  the row's `claim`, or the row is delivered) and `ConnectionOK` (what a
  connection holds at each step; what it is marking was written, which is also
  what makes receipts truthful and `MarkRow` a `Confirm` of the contract).
* `RelayQueue_proofs`: `QuotaHolds`, `NothingLost`, `HandedOutOnce`, `QueueTypes`.
  `QueueInv` adds that whatever is held, handed out or being written was accepted
  and that ids in use do not exceed the number of accepted messages, so that a
  new message is none of the old ones. That the cached count is the sum over what
  is queued rests on `SumLemmas`.
* `Session_proofs`: `ReadySessionsAgree`, `NoncesAreUnique`,
  `EnvelopesOpenOnce`, `DeliveryIsMutuallyReady`, `TypeCorrect`. `SessionInv` adds
  where hellos come from (ephemeral keys are fresh, and a hello held locally is in
  no transcript its owner established), that a ready message was sent by a
  device that established its transcript, that sequence numbers in use are below
  the sender's counter, and that an opened envelope's number is in the seen set
  of any state with that key.
* `ProofNonce_proofs`: `ProofsAreUsedOnce`, `TypeCorrect`. `NonceInv` adds that no
  handler's reading is ahead of the clock and that the store holds every accepted
  proof that has not expired; a purge with an old reading therefore removes too
  little, never too much.
* `RelayAccess_proofs`: `CutOffTokensAlwaysDead`, `RevokedDeviceAlwaysOut`,
  `CredentialsAlwaysStored`, `TokensNeverRevive`, `AccessTypes`. `AccessInv` has four layers, each
  proved with the ones before it: types, the mutex and the credentials being
  issued, which are nobody else's; the rows behind a credential; what the tables,
  the maps and the requests under way know of a token that was cut off; the same
  for a device that was barred. The runs need two replicas and two requests for
  the interesting orders; the theorems allow any number. `TokensNeverRevive` is a
  step property: what `issueCredentials` writes as live is a credential that, by
  the first layer, no client holds yet, and every other write lets a token die.
* `TrustRoot_proofs`:
  * `RevocationReachesGrants` (`GrantsDieWithDevice`). `GrantInv` adds what carries
    it: a row that is not revoked has epoch 0, because `AuthorizeDevice` never
    brings a revoked row back; hence so has the record that is about to be signed,
    and so has every signed grant, while `RevokeDevice` raises the row above 0. The
    proof fails at `AuthorizeDevice` when `status <> 'revoked'` is left out.
  * `RevocationsNeverTakenBack` (`RevocationsAreKept`), a step property. The upsert
    writes only over a row that is not there (`KnownRows`: such a row is empty),
    `AuthorizeDevice` passes over a revoked row, `authorizeDevice` copies a row
    only over a record that was never revoked, and a process that restarts shares
    no key with the one before.
  * `RevocationsAlwaysHold`, `FeedAlwaysFaithful`, `RotationAlwaysKeepsGrants`.
    `TrustInv` says for each position of a request what it has made sure of
    (`Request`: a request about to log a revocation has updated its row, one about
    to answer has listed it, one that publishes a grant can find its key), and what
    maps, rings and tables say of each other. Other requests cannot take this away,
    because all steps but a restart only let replicas and tables know more
    (`Grows`) and bring back nothing forgotten (`NoReturn`). A restart is the
    exception, and why a replica stands by its revocations across one is that its
    new ring knows none of the old keys (`Forgotten`): it can verify no grant of
    the device, and the row keeps it from signing a new one.
  * `TrustTypes`. Epochs are bounded because each rise uses up an id: `CountInv`
    has that requests hold different ids, that a row's epoch is at most the number
    of ids whose `UPDATE` is over, and that no log lists an id twice.
    The facts of finite sets that this and the walk need are collected in
    `CountingLaws`, which the lemmas assume and `Counting` proves from the library,
    so that none of the theorems is left with an assumption.
  * `WalkAlwaysComplete`. `WalkInv` says that what was due and has not been seen
    lies ahead of the cursor. It holds because ids keep their place when others
    are inserted or appended (`PlaceStays`; in the log this needs that no id is
    listed twice), because a page leaves out only what comes after its last item
    (`PageFirst`), and because a page without a next cursor is all that was left
    (`PageShort`, `PageSize`).
* `Lifecycle_proofs`: `RateAlwaysBounded` follows the limiter's last window through
  its four positions relative to a span; `FramesAlwaysAuthentic` and
  `PromptFramesAccepted` need only that a frame carries what its sender made it
  for; `TicketUsesAlwaysBounded`, `InvitationAlwaysHonoured`,
  `BundlesAlwaysReachTheirKey` and `EnrollTypes` rest on `EnrollInv`, where the
  counters of all replicas and the registrations in between add up to the history.
* `SumLemmas`: a sum over a finite set does not depend on the order in which
  `SumFunctionOnSet` takes its elements, changes by one summand when one changes,
  and grows with the set. The induction is a minimal counterexample in the
  well-founded order of the subsets.

Only model-checked: `EventuallyDelivered`, since liveness under fairness is outside
the prover's reach. The three violated properties are shown by TLC's traces.

## What is not modelled

* Cryptography, canonical JSON and identifiers are taken as ideal; HTTP decoding,
  logging and the command-line tools have no protocol state.
* Descriptors, hot session tokens and the configuration gate are checks of one
  document or one configuration against fixed rules: nothing interleaves with
  them. The field `signer` of the Trust Root is written by `rotateKeys` and read
  by `wellKnown` without a lock; only the descriptor shows it.
* Recovery blobs are encryption and decryption of one value.
* The audit log is written and never read by a decision; its hash is a pure
  function of one entry.
* Expiry of grants in `VerifyGrant` is modelled, its comparisons of audience,
  subject, thumbprint, permission and relay are taken to hold.
* A restart of the in-memory queue and of the in-memory replay cache: that mode
  keeps nothing by design.

## What could follow

1. Composition of `RelayDelivery` and `Session`: at-least-once delivery below,
   at-most-once opening above.
2. An abstract specification of what a revocation promises, which `RelayAccess`
   and `TrustRoot` both implement.
