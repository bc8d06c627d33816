------------------------------ MODULE TrustRoot ------------------------------
(***************************************************************************)
(* The Trust Root: submitting, authorizing and revoking devices, signing,  *)
(* verifying and revoking Trust Grants, rotating the signing key, and the  *)
(* revocation feed.  Every replica keeps maps of its own and, with         *)
(* PostgreSQL, shares three tables.  Every critical section and every SQL  *)
(* statement is one action; a replica may restart at any point, and then   *)
(* starts with empty maps and a new signing key.                           *)
(*                                                                         *)
(* Left out: device_record_version (no condition reads it), audit, the     *)
(* descriptor (and the field signer, which only wellKnown reads).  Proofs  *)
(* of possession are module ProofNonce; administrators are authorized.     *)
(***************************************************************************)
EXTENDS Naturals, FiniteSets, Sequences, Functions

CONSTANTS
    Devices, Replicas, Grants, Keys,
    MaxId,                   \* bound: revocation ids 1 .. MaxId
    Requests,                \* concurrent requests
    Stores,                  \* "memory", "postgres": what a deployment may use
    Limit                    \* page size of the feed

ASSUME TrustConstants ==
    /\ Stores \subseteq {"memory", "postgres"}
    /\ Limit \in Nat \ {0} /\ MaxId \in Nat
    /\ Devices \cap Grants = {}

VARIABLES
    store,        \* "memory", or "postgres" when a repository is configured
    db,           \* tables devices, grants, revocations
    signed,       \* the content of every grant signed so far
    spent,        \* revocation ids drawn
    mem,          \* maps and key ring of each replica
    req,          \* requests in progress
    walk,         \* a client that reads the feed page by page
    acked         \* history: the devices and grants whose revocation a replica answered

vars == <<store, db, signed, spent, mem, req, walk, acked>>
-----------------------------------------------------------------------------
Ids == 1 .. MaxId
Status == {"none", "submitted", "authorized", "revoked"}

\* deviceRecord; known: Identity.DeviceID is set.
NoDevice == [known |-> FALSE, status |-> "none", epoch |-> 0]
NotSigned == [dev |-> {}, key |-> {}, epoch |-> 0, expired |-> FALSE]

\* A request: where it is, its replica, device, grant, key and revocation id,
\* the record it read, whether its UPDATE found a row; as history, the
\* subjects it must answer as revoked.
Idle == [pc |-> "idle", at |-> {}, dev |-> {}, grant |-> {}, key |-> {}, id |-> 0,
         rec |-> NoDevice, hit |-> FALSE, must |-> {}]

NoWalk == [on |-> FALSE, at |-> {}, cursor |-> 0, due |-> {}, seen |-> {}]

\* New: empty maps, and a ring with one new key.
Started(k) == [devices |-> [d \in Devices |-> NoDevice], grants |-> {}, revoked |-> {},
               log |-> <<>>, ring |-> [j \in Keys |-> IF j = k THEN "active" ELSE "none"]]

Init ==
    /\ store \in Stores
    /\ db = [device |-> [d \in Devices |-> NoDevice], stored |-> {}, revoked |-> {}, feed |-> {}]
    /\ signed = [g \in Grants |-> NotSigned]
    /\ spent = {}
    /\ \E start \in [Replicas -> Keys] :
          /\ IsInjective(start)
          /\ mem = [r \in Replicas |-> Started(start[r])]
    /\ req = [q \in Requests |-> Idle]
    /\ walk = NoWalk
    /\ acked = [r \in Replicas |-> {}]

Postgres == store = "postgres"
Unsigned == {g \in Grants : signed[g] = NotSigned /\ \A q \in Requests : g \notin req[q].grant}

\* A generated key is a new one: in no ring, under no grant, in no request.
NewKeys == {k \in Keys : /\ \A r \in Replicas : mem[r].ring[k] = "none"
                         /\ \A g \in Grants : k \notin signed[g].key
                         /\ \A q \in Requests : k \notin req[q].key}

\* The ring of a replica: the keys that sign, and whether it can find a key.
Active(r) == {k \in Keys : mem[r].ring[k] = "active"}
Get(r, k) == mem[r].ring[k] # "none"

Arrive(q, r, label, ask) ==
    req' = [req EXCEPT ![q] = [ask EXCEPT !.pc = label, !.at = {r}]]
At(q, r, label) == req[q].pc = label /\ req[q].at = {r}
Goto(q, label) == req' = [req EXCEPT ![q].pc = label]
Leave(q) == req' = [req EXCEPT ![q] = Idle]

\* The maps first, then the row (deviceRecordFromRepository).
Lookup(r, d) ==
    IF mem[r].devices[d].status # "none" \/ ~Postgres THEN mem[r].devices[d] ELSE db.device[d]
-----------------------------------------------------------------------------
(* Submitting a device.                                                    *)

\* persistSubmittedDevice: the upsert keeps status and epoch of a row.
SubmitDevice(q, r, d) ==
    /\ req[q].pc = "idle"
    /\ db' = IF Postgres /\ ~db.device[d].known
                THEN [db EXCEPT !.device[d] = [known |-> TRUE, status |-> "submitted", epoch |-> 0]]
                ELSE db
    /\ Arrive(q, r, "submitMap", [Idle EXCEPT !.dev = {d}])
    /\ UNCHANGED <<store, signed, spent, mem, walk, acked>>

\* Mutant: the status is set also when the map holds the device.
RecordSubmittedAnew(q, r) ==
    /\ At(q, r, "submitMap")
    /\ \E d \in req[q].dev : mem' = [mem EXCEPT ![r].devices[d].known = TRUE, ![r].devices[d].status = "submitted"]
    /\ Leave(q)
    /\ UNCHANGED <<store, db, signed, spent, walk, acked>>

\* submitDevice: a device that is not in the map is entered as submitted.
RecordSubmitted(q, r) ==
    /\ At(q, r, "submitMap")
    /\ \E d \in req[q].dev :
          LET rec == mem[r].devices[d]
              status == IF rec.status = "none" THEN "submitted" ELSE rec.status
          IN mem' = [mem EXCEPT ![r].devices[d] = [rec EXCEPT !.known = TRUE, !.status = status]]
    /\ Leave(q)
    /\ UNCHANGED <<store, db, signed, spent, walk, acked>>
-----------------------------------------------------------------------------
(* Authorizing a device and signing a grant (authorizeDevice).             *)

\* The mutex is held over the look-up, in the tables too.
AuthorizeInMap(q, r, d) ==
    /\ req[q].pc = "idle"
    /\ Lookup(r, d).status \notin {"none", "revoked"}
    /\ \E g \in Unsigned :
          Arrive(q, r, IF Postgres THEN "authorizeRow" ELSE "sign",
                 [Idle EXCEPT !.dev = {d}, !.grant = {g}, !.rec = Lookup(r, d)])
    /\ mem' = [mem EXCEPT ![r].devices[d] = [Lookup(r, d) EXCEPT !.status = "authorized"]]
    /\ UNCHANGED <<store, db, signed, spent, walk, acked>>

\* Mutant: the UPDATE lacks status <> 'revoked'.
AuthorizeDeviceAny(q) ==
    /\ req[q].pc = "authorizeRow"
    /\ \E d \in req[q].dev :
          /\ db' = [db EXCEPT !.device[d].status = "authorized"]
          /\ req' = [req EXCEPT ![q].pc = "sign", ![q].rec = db'.device[d]]
    /\ UNCHANGED <<store, signed, spent, mem, walk, acked>>

\* AuthorizeDevice: UPDATE ... WHERE status <> 'revoked' RETURNING.
AuthorizeDevice(q) ==
    /\ req[q].pc = "authorizeRow"
    /\ \E d \in req[q].dev :
          IF db.device[d].status \notin {"none", "revoked"}
             THEN /\ db' = [db EXCEPT !.device[d].status = "authorized"]
                  /\ req' = [req EXCEPT ![q].pc = "sign", ![q].rec = db'.device[d]]
             ELSE Leave(q) /\ UNCHANGED db
    /\ UNCHANGED <<store, signed, spent, mem, walk, acked>>

\* The policy knows the permission and caps the lifetime; the active key
\* signs (activeSigner, SignGrant).
SignGrant(q, r) ==
    /\ At(q, r, "sign")
    /\ \E g \in req[q].grant, k \in Active(r) :
          signed' = [signed EXCEPT ![g] = [dev |-> req[q].dev, key |-> {k},
                                           epoch |-> req[q].rec.epoch, expired |-> FALSE]]
    /\ Goto(q, IF Postgres THEN "storeGrant" ELSE "publishGrant")
    /\ UNCHANGED <<store, db, spent, mem, walk, acked>>

StoreGrant(q) ==
    /\ req[q].pc = "storeGrant"
    /\ db' = [db EXCEPT !.stored = @ \cup req[q].grant]
    /\ Goto(q, "publishGrant")
    /\ UNCHANGED <<store, signed, spent, mem, walk, acked>>

PublishGrant(q, r) ==
    /\ At(q, r, "publishGrant")
    /\ mem' = [mem EXCEPT ![r].grants = @ \cup req[q].grant]
    /\ Leave(q)
    /\ UNCHANGED <<store, db, signed, spent, walk, acked>>
-----------------------------------------------------------------------------
(* Verifying a grant; the status of a device and of a grant.               *)

\* Mutant: the revocation epoch is not compared.
VerifyGrantAnyEpoch(r, g, rec) ==
    /\ \E k \in signed[g].key : Get(r, k)
    /\ ~signed[g].expired

\* issuerForGrant and VerifyGrant, for a request that names the grant's
\* audience, subject, thumbprint, permission and relay.
VerifyGrant(r, g, rec) ==
    /\ \E k \in signed[g].key : Get(r, k)
    /\ ~signed[g].expired
    /\ signed[g].epoch >= rec.epoch

Verdict(q, r, g, rec, ask) ==
    IF VerifyGrant(r, g, rec) THEN Arrive(q, r, "valid", ask) ELSE Leave(q)

\* verifyGrant reads the map; a device without identity is looked up.
VerifyRequest(q, r, g) ==
    /\ req[q].pc = "idle"
    /\ \E d \in signed[g].dev :
          LET ask == [Idle EXCEPT !.dev = {d}, !.grant = {g}, !.must = {d} \cap acked[r]]
          IN IF Postgres /\ ~mem[r].devices[d].known
                THEN Arrive(q, r, "verifyRow", ask)
                ELSE Verdict(q, r, g, mem[r].devices[d], ask)
    /\ UNCHANGED <<store, db, signed, spent, mem, walk, acked>>

VerifyAgainstRow(q, r) ==
    /\ At(q, r, "verifyRow")
    /\ \E d \in req[q].dev, g \in req[q].grant : Verdict(q, r, g, db.device[d], req[q])
    /\ UNCHANGED <<store, db, signed, spent, mem, walk, acked>>

\* deviceStatus: the map ...
DeviceStatus(q, r, d) ==
    LET inMap == mem[r].devices[d].status # "none"
    IN
    /\ req[q].pc = "idle"
    /\ inMap \/ Postgres
    /\ Arrive(q, r, IF inMap THEN "shown" ELSE "deviceRow",
              [Idle EXCEPT !.dev = {d}, !.rec = mem[r].devices[d], !.must = {d} \cap acked[r]])
    /\ UNCHANGED <<store, db, signed, spent, mem, walk, acked>>

\* ... else the row.
GetDevice(q) ==
    /\ req[q].pc = "deviceRow"
    /\ \E d \in req[q].dev :
          IF db.device[d].known
             THEN req' = [req EXCEPT ![q].pc = "shown", ![q].rec = db.device[d]]
             ELSE Leave(q)
    /\ UNCHANGED <<store, db, signed, spent, mem, walk, acked>>

\* grantStatus: the map, else the row (hit: found to be revoked) ...
GrantStatus(q, r, g) ==
    /\ req[q].pc = "idle"
    /\ g \in mem[r].grants \/ Postgres
    /\ Arrive(q, r, IF g \in mem[r].grants THEN "judge" ELSE "statusRow",
              [Idle EXCEPT !.grant = {g}, !.dev = signed[g].dev, !.hit = g \in mem[r].revoked,
                           !.must = {g} \cap acked[r]])
    /\ UNCHANGED <<store, db, signed, spent, mem, walk, acked>>

GetGrant(q) ==
    /\ req[q].pc = "statusRow"
    /\ \E g \in req[q].grant :
          IF g \in db.stored
             THEN req' = [req EXCEPT ![q].pc = "judge", ![q].hit = @ \/ g \in db.revoked]
             ELSE Leave(q)
    /\ UNCHANGED <<store, db, signed, spent, mem, walk, acked>>

\* ... then the device in the map, then the expiry.
JudgeGrant(q, r) ==
    /\ At(q, r, "judge")
    /\ \E g \in req[q].grant, d \in req[q].dev :
          Goto(q, IF req[q].hit \/ mem[r].devices[d].epoch > signed[g].epoch THEN "revoked"
                  ELSE IF signed[g].expired THEN "expired" ELSE "active")
    /\ UNCHANGED <<store, db, signed, spent, mem, walk, acked>>

Answer(q) ==
    /\ req[q].pc \in {"valid", "shown", "revoked", "expired", "active"}
    /\ Leave(q)
    /\ UNCHANGED <<store, db, signed, spent, mem, walk, acked>>
-----------------------------------------------------------------------------
(* Revoking.                                                               *)

Item(i, type, subject, e) == [id |-> i, type |-> type, subject |-> subject, epoch |-> e]

\* INSERT INTO revocations fails on a second row for a subject and epoch.
Insertable(item) ==
    \A i \in db.feed : <<i.type, i.subject, i.epoch>> # <<item.type, item.subject, item.epoch>>

\* revocationLog, by id; it is read, and here kept, only without tables.
Logged(log, i) == IF Postgres THEN log ELSE Append(log, i)

\* Mutant: the handler goes on although the UPDATE found no row.
RevokeGrantUnchecked(q, r, g) ==
    /\ req[q].pc = "idle"
    /\ \E i \in Ids \ spent :
          /\ spent' = spent \cup {i}
          /\ Arrive(q, r, IF Postgres THEN "logGrant" ELSE "revokeMap", [Idle EXCEPT !.grant = {g}, !.id = i])
    /\ db' = IF Postgres THEN [db EXCEPT !.revoked = @ \cup {g}] ELSE db
    /\ UNCHANGED <<store, signed, mem, walk, acked>>

\* revokeGrant: UPDATE grants ... WHERE revoked_at IS NULL; no row, no grant.
RevokeGrant(q, r, g) ==
    /\ req[q].pc = "idle"
    /\ IF Postgres THEN g \in db.stored \ db.revoked ELSE g \in mem[r].grants
    /\ \E i \in Ids \ spent :
          /\ spent' = spent \cup {i}
          /\ Arrive(q, r, IF Postgres THEN "logGrant" ELSE "revokeMap", [Idle EXCEPT !.grant = {g}, !.id = i])
    /\ db' = IF Postgres THEN [db EXCEPT !.revoked = @ \cup {g}] ELSE db
    /\ UNCHANGED <<store, signed, mem, walk, acked>>

\* Mutant: the second statement is missing.
LogGrantRevocationNot(q) ==
    /\ req[q].pc = "logGrant"
    /\ Goto(q, "revokeMap")
    /\ UNCHANGED <<store, db, signed, spent, mem, walk, acked>>

\* INSERT INTO revocations ... SELECT ... FROM grants.
LogGrantRevocation(q) ==
    /\ req[q].pc = "logGrant"
    /\ \E g \in req[q].grant :
          db' = [db EXCEPT !.feed = @ \cup {Item(req[q].id, "grant", g, signed[g].epoch)}]
    /\ Goto(q, "revokeMap")
    /\ UNCHANGED <<store, signed, spent, mem, walk, acked>>

\* revokeGrant ends: the map and the log of the replica.
RecordGrantRevocation(q, r) ==
    /\ At(q, r, "revokeMap")
    /\ \E g \in req[q].grant :
          /\ mem' = [mem EXCEPT ![r].revoked = @ \cup {g},
                                ![r].log = Logged(@, req[q].id)]
          /\ acked' = [acked EXCEPT ![r] = @ \cup {g}]
    /\ Leave(q)
    /\ UNCHANGED <<store, db, signed, spent, walk>>

\* revokeDevice: the map first, also for a device it does not hold ...
RevokeInMap(q, r, d) ==
    /\ req[q].pc = "idle"
    /\ mem[r].devices[d].known \/ Postgres
    /\ \E i \in Ids \ spent :
          /\ spent' = spent \cup {i}
          /\ mem' = [mem EXCEPT ![r].devices[d] = [@ EXCEPT !.status = "revoked", !.epoch = mem[r].devices[d].epoch + 1],
                                ![r].log = Logged(@, i)]
          /\ IF Postgres THEN /\ Arrive(q, r, "revokeRow", [Idle EXCEPT !.dev = {d}, !.id = i])
                              /\ UNCHANGED acked
                         ELSE /\ acked' = [acked EXCEPT ![r] = @ \cup {d}]
                              /\ UNCHANGED req
    /\ UNCHANGED <<store, db, signed, walk>>

\* ... then RevokeDevice: UPDATE devices ...
RevokeDevice(q) ==
    /\ req[q].pc = "revokeRow"
    /\ \E d \in req[q].dev :
          /\ db' = IF db.device[d].known
                      THEN [db EXCEPT !.device[d] = [@ EXCEPT !.status = "revoked", !.epoch = db.device[d].epoch + 1]]
                      ELSE db
          /\ req' = [req EXCEPT ![q].pc = "logDevice", ![q].hit = db.device[d].known]
    /\ UNCHANGED <<store, signed, spent, mem, walk, acked>>

\* ... INSERT INTO revocations ... SELECT ... FROM devices, and the answer.
\* A revocation that updated no row is not counted as answered.
LogDeviceRevocation(q, r) ==
    /\ At(q, r, "logDevice")
    /\ \E d \in req[q].dev :
          LET item == Item(req[q].id, "device", d, db.device[d].epoch)
          IN /\ db' = IF db.device[d].known /\ Insertable(item)
                         THEN [db EXCEPT !.feed = @ \cup {item}] ELSE db
             /\ acked' = IF req[q].hit /\ Insertable(item)
                            THEN [acked EXCEPT ![r] = @ \cup {d}] ELSE acked
    /\ Leave(q)
    /\ UNCHANGED <<store, signed, spent, mem, walk>>
-----------------------------------------------------------------------------
(* The revocation feed.                                                    *)

\* The ids that the feed of replica r holds, and the place of each in its
\* order: rows by id, the log by position; a cursor the log lacks comes first.
Held(r) == IF Postgres THEN {i.id : i \in db.feed} ELSE Range(mem[r].log)

Place(r, i) ==
    IF Postgres THEN i
    ELSE IF i \in Held(r) THEN CHOOSE n \in DOMAIN mem[r].log : mem[r].log[n] = i ELSE 0

\* What comes after the cursor, and the first Limit of it.
Rest(r) == {i \in Held(r) : Place(r, i) > Place(r, walk.cursor)}
Page(r) == {i \in Rest(r) : Cardinality({j \in Rest(r) : Place(r, j) <= Place(r, i)}) <= Limit}
LastOf(r, S) == CHOOSE i \in S : \A j \in S : Place(r, j) <= Place(r, i)

\* Mutant: off by one, a full page says that the feed is exhausted.
NextCursorLate(r) == Cardinality(Page(r)) > Limit /\ (Postgres \/ Page(r) # Rest(r))

\* A full page has a next cursor; the log's only when more is left.
NextCursor(r) == Cardinality(Page(r)) = Limit /\ (Postgres \/ Page(r) # Rest(r))

StartWalk(r) ==
    /\ ~walk.on
    /\ walk' = [on |-> TRUE, at |-> {r}, cursor |-> 0, due |-> Held(r), seen |-> {}]
    /\ UNCHANGED <<store, db, signed, spent, mem, req, acked>>

\* revocations: one page.  With PostgreSQL any replica may answer.
Revocations(r) ==
    /\ walk.on
    /\ Postgres \/ r \in walk.at
    /\ walk' = [walk EXCEPT !.on = NextCursor(r), !.seen = @ \cup Page(r),
                            !.cursor = IF NextCursor(r) THEN LastOf(r, Page(r)) ELSE 0]
    /\ UNCHANGED <<store, db, signed, spent, mem, req, acked>>
-----------------------------------------------------------------------------
(* Rotating the signing key.                                               *)

\* rotateKeys: Add ...
AddNextKey(q, r) ==
    /\ req[q].pc = "idle"
    /\ \E k \in NewKeys :
          /\ mem' = [mem EXCEPT ![r].ring[k] = "next"]
          /\ Arrive(q, r, "rotate", [Idle EXCEPT !.key = {k}])
    /\ UNCHANGED <<store, db, signed, spent, walk, acked>>

\* Mutant: the ring keeps only the new key.
RotatedDropping(ring, next) ==
    [k \in Keys |-> IF k = next THEN "active" ELSE IF ring[k] = "active" THEN "none" ELSE ring[k]]

\* Rotate: the next key becomes active, the active one retired.
Rotated(ring, next) ==
    [k \in Keys |-> IF k = next THEN "active" ELSE IF ring[k] = "active" THEN "retired" ELSE ring[k]]

\* ... then Rotate.
RotateKeys(q, r) ==
    /\ At(q, r, "rotate")
    /\ \E k \in req[q].key : mem' = [mem EXCEPT ![r].ring = Rotated(@, k)]
    /\ Leave(q)
    /\ UNCHANGED <<store, db, signed, spent, walk, acked>>
-----------------------------------------------------------------------------
(* Failures and time.                                                      *)

\* A statement fails and the handler answers with an error.
Fail(q) ==
    /\ req[q].pc \in {"authorizeRow", "storeGrant", "verifyRow", "deviceRow", "statusRow", "logGrant", "revokeRow", "logDevice"}
    /\ Leave(q)
    /\ UNCHANGED <<store, db, signed, spent, mem, walk, acked>>

\* A replica stops and New starts it; without tables all it knew is gone.
Restart(r) ==
    /\ \E k \in NewKeys : mem' = [mem EXCEPT ![r] = Started(k)]
    /\ req' = [q \in Requests |-> IF req[q].at = {r} THEN Idle ELSE req[q]]
    /\ acked' = IF Postgres THEN acked ELSE [acked EXCEPT ![r] = {}]
    /\ walk' = IF Postgres \/ r \notin walk.at THEN walk ELSE [walk EXCEPT !.due = {}]
    /\ UNCHANGED <<store, db, signed, spent>>

\* A grant reaches its expires_at.
Expire(g) ==
    /\ signed[g] # NotSigned /\ ~signed[g].expired
    /\ signed' = [signed EXCEPT ![g].expired = TRUE]
    /\ UNCHANGED <<store, db, spent, mem, req, walk, acked>>

Handle(q, r) ==
    \/ \E d \in Devices : \/ SubmitDevice(q, r, d) \/ AuthorizeInMap(q, r, d)
                          \/ DeviceStatus(q, r, d) \/ RevokeInMap(q, r, d)
    \/ \E g \in Grants : VerifyRequest(q, r, g) \/ GrantStatus(q, r, g) \/ RevokeGrant(q, r, g)
    \/ RecordSubmitted(q, r) \/ SignGrant(q, r) \/ PublishGrant(q, r)
    \/ VerifyAgainstRow(q, r) \/ JudgeGrant(q, r)
    \/ RecordGrantRevocation(q, r) \/ LogDeviceRevocation(q, r)
    \/ AddNextKey(q, r) \/ RotateKeys(q, r)

Next ==
    \/ \E q \in Requests, r \in Replicas : Handle(q, r)
    \/ \E q \in Requests : \/ AuthorizeDevice(q) \/ StoreGrant(q) \/ GetDevice(q) \/ GetGrant(q) \/ Answer(q)
                           \/ LogGrantRevocation(q) \/ RevokeDevice(q) \/ Fail(q)
    \/ \E r \in Replicas : StartWalk(r) \/ Revocations(r) \/ Restart(r)
    \/ \E g \in Grants : Expire(g)

Spec == Init /\ [][Next]_vars
-----------------------------------------------------------------------------
DeviceRecord == [known : BOOLEAN, status : Status, epoch : 0 .. MaxId]

\* Tables, maps and requests hold values of the columns' and fields' types.
TypeOK ==
    /\ store \in Stores /\ spent \subseteq Ids
    /\ db.device \in [Devices -> DeviceRecord]
    /\ db.revoked \subseteq db.stored /\ db.stored \subseteq Grants
    /\ \A i \in db.feed : i.id \in spent /\ i.epoch \in 0 .. MaxId
    /\ \A g \in Grants : /\ signed[g].dev \subseteq Devices /\ signed[g].key \subseteq Keys
                         /\ signed[g].epoch \in 0 .. MaxId
    /\ \A r \in Replicas :
          /\ mem[r].devices \in [Devices -> DeviceRecord]
          /\ mem[r].ring \in [Keys -> {"none", "next", "active", "retired"}]
          /\ mem[r].grants \subseteq Grants /\ mem[r].revoked \subseteq Grants
          /\ Range(mem[r].log) \subseteq spent
    /\ \A q \in Requests : req[q].rec \in DeviceRecord

\* A revoked device keeps no grant: whatever the replicas were doing when the
\* row was revoked, every grant signed for the device, or about to be, carries
\* an epoch below the row's (authorizeDevice against revokeDevice).
GrantsDieWithDevice ==
    Postgres =>
       /\ \A g \in Grants : \A d \in signed[g].dev :
             db.device[d].epoch > 0 => signed[g].epoch < db.device[d].epoch
       /\ \A q \in Requests : \A d \in req[q].dev :
             req[q].pc = "sign" /\ db.device[d].epoch > 0 => req[q].rec.epoch < db.device[d].epoch

\* A replica stands by the revocations it answered, across restarts: it does
\* not verify a grant of a device it revoked, nor report as active or expired
\* a grant it revoked (verifyGrant and grantStatus).
AnsweredRevocationsHold ==
    \A q \in Requests : req[q].pc \in {"valid", "active", "expired"} => req[q].must = {}

\* The table of the feed says what the other tables say: a grant listed is
\* revoked, a device listed with an epoch above 0 is revoked at that epoch or
\* a later one, and every answered revocation is listed (RevokeDevice and
\* RevokeGrant, two statements each).
FeedFaithful ==
    Postgres =>
       /\ \A i \in db.feed :
             IF i.type = "grant" THEN i.subject \in db.revoked
             ELSE /\ i.epoch <= db.device[i.subject].epoch
                  /\ i.epoch > 0 => db.device[i.subject].status = "revoked"
       /\ \A r \in Replicas : \A s \in acked[r] : \E i \in db.feed : i.subject = s

\* What a later record of a device keeps of an earlier one.
KeepsRecord(old, new) ==
    /\ old.status = "revoked" => new.status = "revoked"
    /\ old.epoch <= new.epoch
    /\ old.epoch < new.epoch => new.status = "revoked"

\* The step does not restart the replica: a new process shares no key with it.
SameProcess(r) == \E k \in Keys : mem[r].ring[k] # "none" /\ mem'[r].ring[k] # "none"

RecordsKept ==
    \A d \in Devices :
        /\ KeepsRecord(db.device[d], db'.device[d])
        /\ \A r \in Replicas : SameProcess(r) => KeepsRecord(mem[r].devices[d], mem'[r].devices[d])

\* No handler takes a revocation of a device back: neither the upsert of a new
\* submission, nor an authorization that looked before the revocation, nor the
\* copy of a row into a map makes a revoked record usable or lowers its epoch,
\* in the table ever and in the map of a replica until it restarts
\* (persistSubmittedDevice, submitDevice, authorizeDevice, RevokeDevice).
RevocationsAreKept == [][RecordsKept]_vars

\* A client that follows next_cursor until there is none has seen every
\* revocation that the feed held when it began, whatever was appended or
\* inserted meanwhile (revocations).
WalkComplete == ~walk.on => walk.due \subseteq walk.seen

\* Whatever rotations overlap, a replica has one active key to sign with, and
\* has kept the key of every grant it issued since it started (rotateKeys
\* against authorizeDevice).
RotationKeepsGrants ==
    \A r \in Replicas :
       /\ Cardinality(Active(r)) = 1
       /\ \A g \in mem[r].grants : \A k \in signed[g].key : Get(r, k)

\* The revocation epoch of a device does not fall: once the answer to its
\* revocation showed it, no later status answer of the replica shows epoch 0
\* again (revokeDevice and deviceStatus).
ShownEpochsMonotonic ==
    \A q \in Requests : req[q].pc = "shown" /\ req[q].must # {} => req[q].rec.epoch > 0
=============================================================================
