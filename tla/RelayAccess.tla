----------------------------- MODULE RelayAccess -----------------------------
(***************************************************************************)
(* Access to the Relay: registration, issuing and rotating credentials,    *)
(* revocation, and the checks that requests and connections pass.  Every   *)
(* replica keeps maps of its own and, with PostgreSQL, shares three        *)
(* tables; the maps are read first.  Every critical section and every SQL  *)
(* statement is one action, so requests interleave between them; a replica *)
(* may restart at any point.                                               *)
(*                                                                         *)
(* A credential stands for an access and a refresh token issued together.  *)
(* Clients present credentials they were given.  Proofs of possession are  *)
(* module ProofNonce, tickets module Enrollment: here they hold.           *)
(***************************************************************************)
EXTENDS Integers

CONSTANTS
    Devices, Replicas, Creds,
    Requests,                \* concurrent requests
    Profiles,                \* profiles the deployment may run with
    AccessTTL, RefreshTTL,
    MaxClock                 \* bound: clock

ASSUME AccessConstants ==
    /\ {AccessTTL, RefreshTTL} \subseteq Nat \ {0} /\ MaxClock \in Nat
    /\ Profiles \subseteq {"local-lab", "production"}

VARIABLES
    profile,      \* ProfileGate.Profile: "local-lab" or "production"
    store,        \* "memory", or "postgres" when a repository is configured
    clock,
    db,           \* tables devices, access_tokens, refresh_tokens
    token,        \* what a credential says: whose it is, when it was issued
    mem,          \* maps of each replica: devices, revoked, access, refresh
    mutex,        \* the request that holds a replica's mutex over a statement
    req,          \* requests in progress
    \* History: credentials given to clients; tokens that an answered
    \* revocation or rotation covered; of these, the ones a replica must know
    \* of; the revoked devices it must know of.
    held, dead, cut, barred

config == <<profile, store>>
history == <<held, dead, cut, barred>>
vars == <<config, clock, db, token, mem, mutex, req, history>>
-----------------------------------------------------------------------------
State == {"none", "live", "revoked"}

\* A request: where it is, what it does, at which replica, for which device,
\* with which credential, issuing which, the time it read; and, as history,
\* the credentials a revocation covers and why the request must be refused.
Idle == [pc |-> "idle", op |-> "idle", at |-> {}, dev |-> {}, cred |-> {},
         fresh |-> {}, now |-> 0, covers |-> {}, doomed |-> {}]

\* New: a replica starts with empty maps.
EmptyMaps == [devices |-> {}, revoked |-> {},
              access |-> [c \in Creds |-> "none"], refresh |-> [c \in Creds |-> "none"]]

Init ==
    /\ profile \in Profiles
    /\ store \in {"memory", "postgres"}
    /\ clock = 0
    /\ db = [device |-> [d \in Devices |-> "none"],
             access |-> [c \in Creds |-> "none"], refresh |-> [c \in Creds |-> "none"]]
    /\ token = [c \in Creds |-> [owner |-> {}, issued |-> 0]]
    /\ mem = [r \in Replicas |-> EmptyMaps]
    /\ mutex = [r \in Replicas |-> {}]
    /\ req = [q \in Requests |-> Idle]
    /\ held = {} /\ dead = {}
    /\ cut = [r \in Replicas |-> {}] /\ barred = [r \in Replicas |-> {}]

Postgres == store = "postgres"
Production == profile = "production"
AccessExpiry(c) == token[c].issued + AccessTTL
RefreshExpiry(c) == token[c].issued + RefreshTTL
OwnedBy(d) == {c \in Creds : d \in token[c].owner}
Unissued == {c \in Creds : token[c].owner = {} /\ \A q \in Requests : c \notin req[q].fresh}
Free(r) == mutex[r] = {}

\* Request q, for device d at replica r, stands at a label.
At(q, r, d, label) == req[q].pc = label /\ req[q].at = {r} /\ req[q].dev = {d}

Goto(q, label) == req' = [req EXCEPT ![q].pc = label]

Arrive(q, o, r, d, cs, label, why) ==
    req' = [req EXCEPT ![q] = [Idle EXCEPT !.pc = label, !.op = o, !.at = {r}, !.dev = {d},
                                           !.cred = cs, !.doomed = why,
                                           !.now = IF o = "access" THEN clock ELSE 0]]

\* The request is answered, or given up.
Leave(q) == req' = [req EXCEPT ![q] = Idle]
-----------------------------------------------------------------------------
(* Registration and issuing.                                               *)

\* bindSelf and registerWithTicket reach bindIdentity once proof, actor or
\* ticket are accepted (modules ProofNonce and Enrollment).
Register(q, r, d) ==
    /\ req[q].pc = "idle"
    /\ \E f \in Unissued :
          req' = [req EXCEPT ![q] = [Idle EXCEPT !.pc = IF Postgres THEN "persist" ELSE "storeAccess",
                                                 !.op = "bind", !.at = {r}, !.dev = {d}, !.fresh = {f}]]
    /\ UNCHANGED <<config, clock, db, token, mem, mutex, history>>

\* persistDevice: the upsert makes the row active, also a revoked one.
PersistDevice(q, r, d) ==
    /\ At(q, r, d, "persist")
    /\ db' = [db EXCEPT !.device[d] = "active"]
    /\ barred' = [s \in Replicas |-> barred[s] \ {d}]
    /\ req' = [p \in Requests |->
                 [req[p] EXCEPT !.pc = IF p = q THEN "storeAccess" ELSE @,
                                !.doomed = IF d \in req[p].dev THEN @ \ {"barred"} ELSE @]]
    /\ UNCHANGED <<config, clock, token, mem, mutex, held, dead, cut>>

\* issueCredentials: the tokens are drawn and the access hash is stored ...
StoreAccessHash(q, c) ==
    /\ req[q].pc = "storeAccess" /\ c \in req[q].fresh
    /\ token' = [token EXCEPT ![c] = [owner |-> req[q].dev, issued |-> clock]]
    /\ db' = IF Postgres THEN [db EXCEPT !.access[c] = "live"] ELSE db
    /\ Goto(q, IF Postgres THEN "storeRefresh" ELSE "publish")
    /\ UNCHANGED <<config, clock, mem, mutex, history>>

\* Mutant: the refresh hash is never stored.
StoreRefreshHashSkipped(q, c) ==
    /\ req[q].pc = "storeRefresh" /\ c \in req[q].fresh
    /\ Goto(q, "publish")
    /\ UNCHANGED <<config, clock, db, token, mem, mutex, history>>

\* ... then the refresh hash ...
StoreRefreshHash(q, c) ==
    /\ req[q].pc = "storeRefresh" /\ c \in req[q].fresh
    /\ db' = [db EXCEPT !.refresh[c] = "live"]
    /\ Goto(q, "publish")
    /\ UNCHANGED <<config, clock, token, mem, mutex, history>>

\* Mutant: the token that was rotated is entered again with the new one.
PublishCredentialsAgain(q, r, d) ==
    /\ At(q, r, d, "publish") /\ Free(r)
    /\ \E c \in req[q].fresh :
          mem' = [mem EXCEPT ![r].access[c] = "live",
                             ![r].refresh = [k \in Creds |-> IF k \in {c} \cup req[q].cred THEN "live" ELSE @[k]]]
    /\ Goto(q, IF req[q].op = "bind" THEN "publishDevice" ELSE "rotated")
    /\ UNCHANGED <<config, clock, db, token, mutex, history>>

\* ... then both go into the maps.
PublishCredentials(q, r, d) ==
    /\ At(q, r, d, "publish") /\ Free(r)
    /\ \E c \in req[q].fresh :
          mem' = [mem EXCEPT ![r].access[c] = "live", ![r].refresh[c] = "live"]
    /\ Goto(q, IF req[q].op = "bind" THEN "publishDevice" ELSE "rotated")
    /\ UNCHANGED <<config, clock, db, token, mutex, history>>

\* bindIdentity ends: the device goes into the map, the credential to the client.
PublishDevice(q, r, d) ==
    /\ At(q, r, d, "publishDevice") /\ Free(r)
    /\ mem' = [mem EXCEPT ![r].devices = @ \cup {d}]
    /\ held' = held \cup req[q].fresh
    /\ Leave(q)
    /\ UNCHANGED <<config, clock, db, token, mutex, dead, cut, barred>>
-----------------------------------------------------------------------------
(* Rotation of a refresh credential (refreshAccess).                       *)

WhyNotRefresh(r, c) ==
    (IF <<"refresh", c>> \in cut[r] THEN {"cut"} ELSE {})
    \cup (IF clock > RefreshExpiry(c) THEN {"expired"} ELSE {})

\* The map is read under the mutex.  An entry that is there and revoked is
\* refused; an entry that is missing or has expired is looked up.
RefreshAccess(q, r, c) ==
    LET entry == mem[r].refresh[c]
        ok == entry # "none" /\ ~(entry = "live" /\ clock > RefreshExpiry(c))
    IN
    /\ req[q].pc = "idle" /\ Free(r) /\ c \in held
    /\ ok => entry = "live"
    /\ ~ok => Postgres
    /\ \E d \in token[c].owner :
          Arrive(q, "refresh", r, d, {c}, IF ok THEN "revokeOld" ELSE "lookupRefresh",
                 WhyNotRefresh(r, c))
    /\ UNCHANGED <<config, clock, db, token, mem, mutex, history>>

\* Mutant: expired rows are found too.
GetRefreshByHashExpired(q, c) ==
    /\ req[q].pc = "lookupRefresh" /\ c \in req[q].cred
    /\ IF db.refresh[c] = "live" THEN Goto(q, "revokeOld") ELSE Leave(q)
    /\ UNCHANGED <<config, clock, db, token, mem, mutex, history>>

\* GetRefreshByHash: an unrevoked, unexpired row.
GetRefreshByHash(q, c) ==
    /\ req[q].pc = "lookupRefresh" /\ c \in req[q].cred
    /\ IF db.refresh[c] = "live" /\ RefreshExpiry(c) > clock
       THEN Goto(q, "revokeOld") ELSE Leave(q)
    /\ UNCHANGED <<config, clock, db, token, mem, mutex, history>>

\* The expiry is compared once more before anything is changed.
RefuseExpired(q, c) ==
    /\ req[q].pc = "revokeOld" /\ c \in req[q].cred /\ clock > RefreshExpiry(c)
    /\ Leave(q)
    /\ UNCHANGED <<config, clock, db, token, mem, mutex, history>>

\* revokeRefreshCredential: the map's entry, if it has one ...
RevokeRefreshCredential(q, r, c) ==
    /\ req[q].pc = "revokeOld" /\ req[q].at = {r} /\ c \in req[q].cred /\ Free(r)
    /\ mem' = [mem EXCEPT ![r].refresh[c] = IF @ = "none" THEN @ ELSE "revoked"]
    /\ \E f \in Unissued :
          req' = [req EXCEPT ![q].pc = IF Postgres THEN "revokeOldRow" ELSE "storeAccess",
                             ![q].fresh = {f}]
    /\ UNCHANGED <<config, clock, db, token, mutex, history>>

\* ... then the row (RevokeRefreshByHash); new credentials are issued next.
RevokeRefreshByHash(q, c) ==
    /\ req[q].pc = "revokeOldRow" /\ c \in req[q].cred
    /\ db' = [db EXCEPT !.refresh[c] = IF @ = "live" THEN "revoked" ELSE @]
    /\ Goto(q, "storeAccess")
    /\ UNCHANGED <<config, clock, token, mem, mutex, history>>

\* The client gets the new credential for the old one.
AnswerRefresh(q, r, c) ==
    /\ req[q].pc = "rotated" /\ req[q].at = {r} /\ c \in req[q].cred
    /\ held' = held \cup req[q].fresh
    /\ dead' = dead \cup {<<"refresh", c>>, <<"rotated", c>>}
    /\ cut' = [cut EXCEPT ![r] = @ \cup {<<"refresh", c>>}]
    /\ Leave(q)
    /\ UNCHANGED <<config, clock, db, token, mem, mutex, barred>>
-----------------------------------------------------------------------------
(* Authenticated requests (authenticateAccess).                            *)

WhyNotAccess(r, c) ==
    (IF <<"access", c>> \in cut[r] THEN {"cut"} ELSE {})
    \cup (IF clock >= AccessExpiry(c) THEN {"expired"} ELSE {})
    \cup (IF Production /\ token[c].owner \subseteq barred[r] THEN {"barred"} ELSE {})

\* In production a proof of possession follows the lookup.
Found == IF Production THEN "identity" ELSE "accepted"

\* The map is read and an expired entry is marked; a live one is used;
\* anything else is looked up.
AuthenticateAccess(q, r, c) ==
    LET live == mem[r].access[c] = "live"
        usable == live /\ clock < AccessExpiry(c)
    IN
    /\ req[q].pc = "idle" /\ Free(r) /\ c \in held
    /\ mem' = IF live /\ clock > AccessExpiry(c)
              THEN [mem EXCEPT ![r].access[c] = "revoked"] ELSE mem
    /\ ~usable => Postgres
    /\ \E d \in token[c].owner :
          Arrive(q, "access", r, d, {c}, IF usable THEN Found ELSE "lookupAccess",
                 WhyNotAccess(r, c))
    /\ UNCHANGED <<config, clock, db, token, mutex, history>>

\* GetAccessByHash: an unrevoked row, unexpired at the time read before.
GetAccessByHash(q, c) ==
    /\ req[q].pc = "lookupAccess" /\ c \in req[q].cred
    /\ IF db.access[c] = "live" /\ AccessExpiry(c) > req[q].now THEN Goto(q, Found) ELSE Leave(q)
    /\ UNCHANGED <<config, clock, db, token, mem, mutex, history>>

\* Mutant: lookupIdentity does not look at revoked.
LookupIdentityOfAny(q, r, d) ==
    /\ At(q, r, d, "identity") /\ Free(r)
    /\ IF d \in mem[r].devices THEN Goto(q, "accepted")
       ELSE IF Postgres THEN Goto(q, "lookupIdentity") ELSE Leave(q)
    /\ UNCHANGED <<config, clock, db, token, mem, mutex, history>>

\* verifyAccessProof, lookupIdentity: the maps ...
LookupIdentity(q, r, d) ==
    /\ At(q, r, d, "identity") /\ Free(r)
    /\ IF d \in mem[r].devices \ mem[r].revoked THEN Goto(q, "accepted")
       ELSE IF Postgres THEN Goto(q, "lookupIdentity") ELSE Leave(q)
    /\ UNCHANGED <<config, clock, db, token, mem, mutex, history>>

\* ... then the row, if it is not revoked.
LookupIdentityRow(q, r, d) ==
    /\ At(q, r, d, "lookupIdentity")
    /\ IF db.device[d] = "active" THEN Goto(q, "accepted") ELSE Leave(q)
    /\ UNCHANGED <<config, clock, db, token, mem, mutex, history>>

\* An authenticated request does its work (module RelayDelivery) and ends ...
AnswerAccepted(q) ==
    /\ req[q].pc = "accepted"
    /\ Leave(q)
    /\ UNCHANGED <<config, clock, db, token, mem, mutex, history>>

\* ... or is a revokeAccess of the device the credential was issued to.
RevokeOwn(q) ==
    /\ req[q].pc = "accepted"
    /\ Goto(q, "revoke")
    /\ UNCHANGED <<config, clock, db, token, mem, mutex, history>>
-----------------------------------------------------------------------------
(* Revocation (revokeAccess).                                              *)

\* The operator may revoke any device.
RevokeByAdmin(q, r, d) ==
    /\ req[q].pc = "idle"
    /\ Arrive(q, "revoke", r, d, {}, "revoke", {})
    /\ UNCHANGED <<config, clock, db, token, mem, mutex, history>>

TokensOf(cs) == {"access", "refresh"} \X cs

\* revokeAccess takes the mutex and marks the device and its entries; with
\* PostgreSQL it keeps the mutex over the statements that follow.
RevokeAccess(q, r, d) ==
    LET mark(m) == [c \in Creds |-> IF m[c] # "none" /\ c \in OwnedBy(d) THEN "revoked" ELSE m[c]]
        known == held \cap OwnedBy(d)
    IN
    /\ At(q, r, d, "revoke") /\ Free(r)
    /\ mem' = [mem EXCEPT ![r].revoked = @ \cup {d}, ![r].access = mark(@), ![r].refresh = mark(@)]
    /\ IF Postgres
       THEN /\ req' = [req EXCEPT ![q].pc = "revokeDevice", ![q].covers = known]
            /\ mutex' = [mutex EXCEPT ![r] = {q}]
            /\ UNCHANGED <<dead, cut, barred>>
       ELSE /\ Leave(q)
            /\ dead' = dead \cup TokensOf(known)
            /\ cut' = [cut EXCEPT ![r] = @ \cup TokensOf(known)]
            /\ barred' = [barred EXCEPT ![r] = @ \cup {d}]
            /\ UNCHANGED mutex
    /\ UNCHANGED <<config, clock, db, token, held>>

\* RevokeDevice: UPDATE of the device's row, if there is one.
RevokeDevice(q, r, d) ==
    /\ At(q, r, d, "revokeDevice")
    /\ db' = [db EXCEPT !.device[d] = IF @ = "none" THEN @ ELSE "revoked"]
    /\ Goto(q, "revokeAccessRows")
    /\ UNCHANGED <<config, clock, token, mem, mutex, history>>

Revoked(rows, d) ==
    [c \in Creds |-> IF rows[c] = "live" /\ c \in OwnedBy(d) THEN "revoked" ELSE rows[c]]

\* Mutant: the access rows are left alone.
RevokeAccessRowsNot(q, r, d) ==
    /\ At(q, r, d, "revokeAccessRows")
    /\ Goto(q, "revokeRefreshRows")
    /\ UNCHANGED <<config, clock, db, token, mem, mutex, history>>

\* RevokeDeviceCredentials: the access rows ...
RevokeAccessRows(q, r, d) ==
    /\ At(q, r, d, "revokeAccessRows")
    /\ db' = [db EXCEPT !.access = Revoked(@, d)]
    /\ Goto(q, "revokeRefreshRows")
    /\ UNCHANGED <<config, clock, token, mem, mutex, history>>

\* ... then the refresh rows; the mutex is released and the request answered.
RevokeRefreshRows(q, r, d) ==
    /\ At(q, r, d, "revokeRefreshRows")
    /\ db' = [db EXCEPT !.refresh = Revoked(@, d)]
    /\ dead' = dead \cup TokensOf(req[q].covers)
    /\ cut' = [cut EXCEPT ![r] = @ \cup TokensOf(req[q].covers)]
    /\ barred' = IF db.device[d] = "revoked" THEN [barred EXCEPT ![r] = @ \cup {d}] ELSE barred
    /\ mutex' = [mutex EXCEPT ![r] = {}]
    /\ Leave(q)
    /\ UNCHANGED <<config, clock, token, mem, held>>
-----------------------------------------------------------------------------
(* WebSocket connections (connect), up to the ready state.                 *)

\* The maps are read; a device that is not in them is looked up.  A device
\* marked as revoked is refused either way.
Connect(q, r, d) ==
    /\ req[q].pc = "idle" /\ Free(r)
    /\ d \notin mem[r].revoked
    /\ d \in mem[r].devices \/ Postgres
    /\ Arrive(q, "connect", r, d, {}, IF d \in mem[r].devices THEN "connected" ELSE "lookupDevice",
              IF d \in barred[r] THEN {"barred"} ELSE {})
    /\ UNCHANGED <<config, clock, db, token, mem, mutex, history>>

\* GetDevice: a row that is not revoked.
GetDevice(q, r, d) ==
    /\ At(q, r, d, "lookupDevice")
    /\ IF db.device[d] = "active" THEN Goto(q, "connected") ELSE Leave(q)
    /\ UNCHANGED <<config, clock, db, token, mem, mutex, history>>

\* recordConnection .. closeConnection.
CloseConnection(q) ==
    /\ req[q].pc = "connected"
    /\ Leave(q)
    /\ UNCHANGED <<config, clock, db, token, mem, mutex, history>>
-----------------------------------------------------------------------------
Locked == {"revokeDevice", "revokeAccessRows", "revokeRefreshRows"}
Statements == Locked \cup {"persist", "storeAccess", "storeRefresh", "lookupRefresh",
                           "revokeOldRow", "lookupAccess", "lookupIdentity", "lookupDevice"}

\* Mutant: the error path forgets to unlock.
FailLocked(q) ==
    /\ Postgres /\ req[q].pc \in Statements
    /\ Leave(q)
    /\ UNCHANGED <<config, clock, db, token, mem, mutex, history>>

\* A statement fails: the request ends with an error, the maps stay as they are.
Fail(q) ==
    /\ Postgres /\ req[q].pc \in Statements
    /\ mutex' = [r \in Replicas |-> mutex[r] \ {q}]
    /\ Leave(q)
    /\ UNCHANGED <<config, clock, db, token, mem, history>>

\* A request without a credential, or with an unknown one, changes nothing.
Refuse(q) == req[q].pc = "idle" /\ UNCHANGED vars

\* The process of a replica ends and another starts.
Restart(r) ==
    /\ mem' = [mem EXCEPT ![r] = EmptyMaps]
    /\ mutex' = [mutex EXCEPT ![r] = {}]
    /\ req' = [q \in Requests |-> IF req[q].at = {r} THEN Idle ELSE req[q]]
    /\ cut' = [cut EXCEPT ![r] = dead]
    /\ barred' = [barred EXCEPT ![r] = {d \in Devices : db.device[d] = "revoked"}]
    /\ UNCHANGED <<config, clock, db, token, held, dead>>

Tick ==
    /\ clock < MaxClock
    /\ clock' = clock + 1
    /\ UNCHANGED <<config, db, token, mem, mutex, req, history>>

Next ==
    \/ \E q \in Requests, r \in Replicas, d \in Devices :
          \/ Register(q, r, d) \/ PersistDevice(q, r, d)
          \/ PublishCredentials(q, r, d) \/ PublishDevice(q, r, d)
          \/ LookupIdentity(q, r, d) \/ LookupIdentityRow(q, r, d)
          \/ RevokeByAdmin(q, r, d) \/ RevokeAccess(q, r, d) \/ RevokeDevice(q, r, d)
          \/ RevokeAccessRows(q, r, d) \/ RevokeRefreshRows(q, r, d)
          \/ Connect(q, r, d) \/ GetDevice(q, r, d)
    \/ \E q \in Requests, r \in Replicas, c \in Creds :
          \/ RefreshAccess(q, r, c) \/ RevokeRefreshCredential(q, r, c)
          \/ AnswerRefresh(q, r, c) \/ AuthenticateAccess(q, r, c)
    \/ \E q \in Requests, c \in Creds :
          \/ StoreAccessHash(q, c) \/ StoreRefreshHash(q, c) \/ GetRefreshByHash(q, c)
          \/ RefuseExpired(q, c) \/ RevokeRefreshByHash(q, c) \/ GetAccessByHash(q, c)
    \/ \E q \in Requests :
          AnswerAccepted(q) \/ RevokeOwn(q) \/ CloseConnection(q) \/ Fail(q) \/ Refuse(q)
    \/ \E r \in Replicas : Restart(r)
    \/ Tick

Spec == Init /\ [][Next]_vars
-----------------------------------------------------------------------------
Labels == Statements \cup {"idle", "publish", "publishDevice", "rotated", "revokeOld",
                           "identity", "revoke", "accepted", "connected"}

\* Types; only a revocation at its statements holds a mutex.
TypeOK ==
    /\ db \in [device : [Devices -> {"none", "active", "revoked"}],
               access : [Creds -> State], refresh : [Creds -> State]]
    /\ token \in [Creds -> [owner : SUBSET Devices, issued : 0..MaxClock]]
    /\ mem \in [Replicas -> [devices : SUBSET Devices, revoked : SUBSET Devices,
                             access : [Creds -> State], refresh : [Creds -> State]]]
    /\ \A q \in Requests :
          /\ req[q].pc \in Labels
          /\ \A r \in Replicas : q \in mutex[r] <=> req[q].at = {r} /\ req[q].pc \in Locked

\* The request passed its checks; for a token, before the proof of possession.
Served(q) ==
    \/ req[q].pc \in {"accepted", "connected", "rotated", "revokeOld", "revokeOldRow", "revoke"}
    \/ req[q].op = "refresh" /\ req[q].pc \in {"storeAccess", "storeRefresh", "publish"}

(***************************************************************************)
(* A token covered by an answered revocation or rotation, or expired, is   *)
(* never served by a request that arrives later, at the replica that       *)
(* answered and at every replica started since: also not through the row   *)
(* that authenticateAccess and refreshAccess fall back to when the map     *)
(* says no.                                                                *)
(***************************************************************************)
CutOffTokensStayDead ==
    \A q \in Requests : Served(q) \/ req[q].pc \in {"identity", "lookupIdentity"} => req[q].doomed \cap {"cut", "expired"} = {}

(***************************************************************************)
(* After an answered revokeAccess, and until the device is registered      *)
(* again, that replica and every replica started since refuse the device's *)
(* connections, and in production its requests, whatever credentials       *)
(* concurrent registrations and refreshes still issue.                     *)
(***************************************************************************)
RevokedDeviceStaysOut ==
    \A q \in Requests : Served(q) => "barred" \notin req[q].doomed

(***************************************************************************)
(* With PostgreSQL every credential a client holds is in both tables, for  *)
(* a registered device: it survives a restart and works at any replica     *)
(* until it expires or is revoked (issueCredentials, bindIdentity).        *)
(***************************************************************************)
CredentialsSurviveRestart ==
    Postgres => \A c \in held :
        /\ db.access[c] # "none" /\ db.refresh[c] # "none"
        /\ \A d \in token[c].owner : db.device[d] # "none"

\* What a step leaves live of a token that a client holds was live before it.
NoRevival ==
    \A c \in held :
        /\ db'.access[c] = "live" => db.access[c] = "live"
        /\ db'.refresh[c] = "live" => db.refresh[c] = "live"
        /\ \A s \in Replicas : /\ mem'[s].access[c] = "live" => mem[s].access[c] = "live"
                               /\ mem'[s].refresh[c] = "live" => mem[s].refresh[c] = "live"

(***************************************************************************)
(* Once a client holds a credential, no map and no table ever turns it     *)
(* live again: the only writes of "live" are those of issueCredentials,    *)
(* about tokens nobody has seen, so that a revocation or a rotation that a *)
(* late registration, refresh or restart overtakes is not undone.          *)
(***************************************************************************)
HeldTokensNeverRevive == [][NoRevival]_vars

(***************************************************************************)
(* "Refresh credentials are single-use" (docs/operations/install.md): one  *)
(* refresh credential is never exchanged twice.                            *)
(***************************************************************************)
RefreshSingleUse ==
    \A q \in Requests, c \in Creds :
        /\ req[q].op = "refresh" /\ req[q].pc = "rotated" /\ c \in req[q].cred
        => <<"rotated", c>> \notin dead
=============================================================================
