-------------------------- MODULE TrustRoot_proofs --------------------------
(***************************************************************************)
(* For any number of devices, replicas, grants, keys and requests: a grant *)
(* signed while its device is being revoked dies with the device; answered *)
(* revocations hold; the feed says what the tables say, and a walk through *)
(* it misses nothing; rotations keep one active key and the keys in use.   *)
(*                                                                         *)
(* GrantInv carries the first: a row which is not revoked still has epoch  *)
(* 0, since a revoked row is never authorized again; so has the record     *)
(* that AuthorizeDevice returns, and so has every grant signed from it.    *)
(* TrustInv says what each request has made sure of, CountInv who holds a  *)
(* revocation id, WalkInv what lies ahead of a cursor.                     *)
(***************************************************************************)
EXTENDS TrustRoot, TLAPS

RequestFields == {"pc", "at", "dev", "grant", "key", "id", "rec", "hit", "must"}

\* Shape of the state, as far as the argument needs it.
Shaped ==
    /\ DOMAIN req = Requests /\ \A q \in Requests : DOMAIN req[q] = RequestFields
    /\ DOMAIN signed = Grants
    /\ \A g \in Grants : DOMAIN signed[g] = {"dev", "key", "epoch", "expired"}
    /\ DOMAIN db = {"device", "stored", "revoked", "feed"}
    /\ DOMAIN db.device = Devices
    /\ \A d \in Devices : DOMAIN db.device[d] = {"known", "status", "epoch"}
    /\ \A q \in Requests : req[q].dev \subseteq Devices
    /\ \A g \in Grants : signed[g].dev \subseteq Devices

RowsOK == \A d \in Devices : db.device[d].status # "revoked" => db.device[d].epoch = 0
SignedOK == Postgres => \A g \in Grants : signed[g].epoch = 0
SigningOK == Postgres => \A q \in Requests : req[q].pc = "sign" => req[q].rec.epoch = 0

GrantInv == Shaped /\ RowsOK /\ SignedOK /\ SigningOK
-----------------------------------------------------------------------------
\* New: empty tables and no requests.
LEMMA InitGrants == Init => GrantInv
  BY DEF Init, GrantInv, Shaped, RowsOK, SignedOK, SigningOK, Idle, NoDevice, NotSigned, RequestFields

\* A request that ends keeps the invariant of the requests.
LEMMA LeaveKeeps ==
  ASSUME GrantInv, NEW q \in Requests, Leave(q), UNCHANGED <<store, db, signed>>
  PROVE  GrantInv'
  BY Zenon DEF Leave, GrantInv, Shaped, RowsOK, SignedOK, SigningOK, Idle, RequestFields, Postgres

\* So does one that goes on, other than to sign.
LEMMA GotoKeeps ==
  ASSUME GrantInv, NEW q \in Requests, NEW label, label # "sign", Goto(q, label),
         UNCHANGED <<store, db, signed>>
  PROVE  GrantInv'
  BY DEF Goto, GrantInv, Shaped, RowsOK, SignedOK, SigningOK, RequestFields, Postgres

\* So does one that arrives, other than to sign.
LEMMA ArriveKeeps ==
  ASSUME GrantInv, NEW q \in Requests, NEW r, NEW label, label # "sign", NEW ask,
         DOMAIN ask = RequestFields, ask.dev \subseteq Devices,
         Arrive(q, r, label, ask), UNCHANGED <<store, db, signed>>
  PROVE  GrantInv'
  BY Zenon DEF Arrive, GrantInv, Shaped, RowsOK, SignedOK, SigningOK, RequestFields, Postgres

\* A step that leaves requests, tables and grants alone changes nothing here.
LEMMA SameKeeps ==
  ASSUME GrantInv, UNCHANGED <<store, db, signed, req>>
  PROVE  GrantInv'
  BY Zenon DEF GrantInv, Shaped, RowsOK, SignedOK, SigningOK, Postgres
-----------------------------------------------------------------------------
\* The handlers that only read the tables, or answer from the maps.
LEMMA ReadersKeep ==
  ASSUME GrantInv, NEW q \in Requests, NEW r \in Replicas
  PROVE  /\ \A d \in Devices : DeviceStatus(q, r, d) => GrantInv'
         /\ \A d \in Devices : RevokeInMap(q, r, d) => GrantInv'
         /\ \A g \in Grants : VerifyRequest(q, r, g) => GrantInv'
         /\ \A g \in Grants : GrantStatus(q, r, g) => GrantInv'
         /\ VerifyAgainstRow(q, r) \/ JudgeGrant(q, r) => GrantInv'
         /\ AddNextKey(q, r) \/ RotateKeys(q, r) => GrantInv'
         /\ RecordSubmitted(q, r) \/ PublishGrant(q, r) => GrantInv'
         /\ RecordGrantRevocation(q, r) => GrantInv'
<1>1. ASSUME NEW d \in Devices, DeviceStatus(q, r, d) PROVE GrantInv'
  <2> DEFINE ask == [Idle EXCEPT !.dev = {d}, !.rec = mem[r].devices[d], !.must = {d} \cap acked[r]]
             label == IF mem[r].devices[d].status # "none" THEN "shown" ELSE "deviceRow"
  <2>1. DOMAIN ask = RequestFields /\ ask.dev \subseteq Devices
    BY Zenon DEF Idle, RequestFields, GrantInv, Shaped
  <2>2. label # "sign" BY Zenon
  <2>3. Arrive(q, r, label, ask) /\ UNCHANGED <<store, db, signed>>
    BY <1>1, Zenon DEF DeviceStatus
  <2> HIDE DEF ask, label
  <2> QED BY <2>1, <2>2, <2>3, ArriveKeeps, Zenon
<1>2. ASSUME NEW d \in Devices, RevokeInMap(q, r, d) PROVE GrantInv'
  <2>1. CASE UNCHANGED req
    BY <1>2, <2>1, SameKeeps, Zenon DEF RevokeInMap
  <2>2. ASSUME NEW i, Arrive(q, r, "revokeRow", [Idle EXCEPT !.dev = {d}, !.id = i]) PROVE GrantInv'
    <3> DEFINE ask == [Idle EXCEPT !.dev = {d}, !.id = i]
    <3>1. DOMAIN ask = RequestFields /\ ask.dev \subseteq Devices
    BY Zenon DEF Idle, RequestFields, GrantInv, Shaped
    <3>2. Arrive(q, r, "revokeRow", ask) /\ UNCHANGED <<store, db, signed>>
      BY <1>2, <2>2, Zenon DEF RevokeInMap
    <3> HIDE DEF ask
    <3> QED BY <3>1, <3>2, ArriveKeeps, Zenon
  <2> QED BY <1>2, <2>1, <2>2, Zenon DEF RevokeInMap
<1>3. ASSUME NEW g \in Grants, VerifyRequest(q, r, g) PROVE GrantInv'
  <2>1. PICK d \in signed[g].dev :
          LET ask == [Idle EXCEPT !.dev = {d}, !.grant = {g}, !.must = {d} \cap acked[r]]
          IN Arrive(q, r, "verifyRow", ask) \/ Arrive(q, r, "valid", ask) \/ Leave(q)
    BY <1>3, Zenon DEF VerifyRequest, Verdict
  <2> DEFINE ask == [Idle EXCEPT !.dev = {d}, !.grant = {g}, !.must = {d} \cap acked[r]]
  <2>2. DOMAIN ask = RequestFields /\ ask.dev \subseteq Devices
    BY DEF Idle, RequestFields, GrantInv, Shaped
  <2>3. Arrive(q, r, "verifyRow", ask) \/ Arrive(q, r, "valid", ask) \/ Leave(q)
    BY <2>1, Zenon
  <2>4. UNCHANGED <<store, db, signed>> BY <1>3, Zenon DEF VerifyRequest
  <2> HIDE DEF ask
  <2> QED BY <2>2, <2>3, <2>4, ArriveKeeps, LeaveKeeps, Zenon
<1>4. ASSUME NEW g \in Grants, GrantStatus(q, r, g) PROVE GrantInv'
  <2> DEFINE ask == [Idle EXCEPT !.grant = {g}, !.dev = signed[g].dev, !.hit = g \in mem[r].revoked,
                                 !.must = {g} \cap acked[r]]
             label == IF g \in mem[r].grants THEN "judge" ELSE "statusRow"
  <2>1. DOMAIN ask = RequestFields /\ ask.dev \subseteq Devices
    BY Zenon DEF Idle, RequestFields, GrantInv, Shaped
  <2>2. label # "sign" BY Zenon
  <2>3. Arrive(q, r, label, ask) /\ UNCHANGED <<store, db, signed>>
    BY <1>4, Zenon DEF GrantStatus
  <2> HIDE DEF ask, label
  <2> QED BY <2>1, <2>2, <2>3, ArriveKeeps, Zenon
<1>5. ASSUME VerifyAgainstRow(q, r) PROVE GrantInv'
  <2>1. DOMAIN req[q] = RequestFields /\ req[q].dev \subseteq Devices BY Zenon DEF GrantInv, Shaped
  <2>2. Arrive(q, r, "valid", req[q]) \/ Leave(q)
    BY <1>5, Zenon DEF VerifyAgainstRow, Verdict
  <2>3. UNCHANGED <<store, db, signed>> BY <1>5, Zenon DEF VerifyAgainstRow
  <2> QED BY <2>1, <2>2, <2>3, ArriveKeeps, LeaveKeeps, Zenon
<1>6. ASSUME JudgeGrant(q, r) PROVE GrantInv'
  <2>1. Goto(q, "revoked") \/ Goto(q, "expired") \/ Goto(q, "active")
    BY <1>6, Zenon DEF JudgeGrant
  <2>2. UNCHANGED <<store, db, signed>> BY <1>6, Zenon DEF JudgeGrant
  <2> QED BY <2>1, <2>2, GotoKeeps, Zenon
<1>7. ASSUME AddNextKey(q, r) PROVE GrantInv'
  <2>1. PICK k \in NewKeys : Arrive(q, r, "rotate", [Idle EXCEPT !.key = {k}])
    BY <1>7, Zenon DEF AddNextKey
  <2> DEFINE ask == [Idle EXCEPT !.key = {k}]
  <2>2. DOMAIN ask = RequestFields /\ ask.dev \subseteq Devices
    BY Zenon DEF Idle, RequestFields, GrantInv, Shaped
  <2>3. Arrive(q, r, "rotate", ask) /\ UNCHANGED <<store, db, signed>>
    BY <1>7, <2>1, Zenon DEF AddNextKey
  <2> HIDE DEF ask
  <2> QED BY <2>2, <2>3, ArriveKeeps, Zenon
<1>8. RotateKeys(q, r) \/ RecordSubmitted(q, r) \/ PublishGrant(q, r) \/ RecordGrantRevocation(q, r)
        => GrantInv'
  BY LeaveKeeps, Zenon DEF RotateKeys, RecordSubmitted, PublishGrant, RecordGrantRevocation
<1> QED BY <1>1, <1>2, <1>3, <1>4, <1>5, <1>6, <1>7, <1>8, Zenon
-----------------------------------------------------------------------------
\* The statements that write other columns and tables, and those that end or
\* go on with what they read.
LEMMA StatementsKeep ==
  ASSUME GrantInv, NEW q \in Requests
  PROVE  StoreGrant(q) \/ GetDevice(q) \/ GetGrant(q) \/ Answer(q) \/ LogGrantRevocation(q) \/ Fail(q)
           => GrantInv'
<1> USE DEF GrantInv, Shaped, RowsOK, SignedOK, SigningOK, RequestFields, Postgres
<1>1. ASSUME StoreGrant(q) PROVE GrantInv'
  BY <1>1 DEF StoreGrant, Goto
<1>2. ASSUME LogGrantRevocation(q) PROVE GrantInv'
  BY <1>2 DEF LogGrantRevocation, Goto
<1>3. ASSUME GetDevice(q) PROVE GrantInv'
  BY <1>3, LeaveKeeps DEF GetDevice
<1>4. ASSUME GetGrant(q) PROVE GrantInv'
  BY <1>4, LeaveKeeps DEF GetGrant
<1>5. Answer(q) \/ Fail(q) => GrantInv'
  BY LeaveKeeps, Zenon DEF Answer, Fail
<1> QED BY <1>1, <1>2, <1>3, <1>4, <1>5, Zenon

\* persistSubmittedDevice enters a row with epoch 0 and keeps an old one.
LEMMA SubmitKeeps ==
  ASSUME GrantInv, NEW q \in Requests, NEW r \in Replicas, NEW d \in Devices, SubmitDevice(q, r, d)
  PROVE  GrantInv'
  BY Zenon DEF SubmitDevice, Arrive, Idle, NoDevice, GrantInv, Shaped, RowsOK, SignedOK, SigningOK,
         RequestFields, Postgres

\* authorizeDevice with tables leaves the epoch to the row ...
LEMMA AuthorizeInMapKeeps ==
  ASSUME GrantInv, NEW q \in Requests, NEW r \in Replicas, NEW d \in Devices, AuthorizeInMap(q, r, d)
  PROVE  GrantInv'
  BY DEF AuthorizeInMap, Arrive, Idle, GrantInv, Shaped, RowsOK, SignedOK, SigningOK,
         RequestFields, Postgres

\* ... and AuthorizeDevice returns a row that is not revoked.
LEMMA AuthorizeDeviceKeeps ==
  ASSUME GrantInv, NEW q \in Requests, AuthorizeDevice(q)
  PROVE  GrantInv'
  BY LeaveKeeps
  DEF AuthorizeDevice, GrantInv, Shaped, RowsOK, SignedOK, SigningOK, RequestFields, Postgres

\* SignGrant copies the epoch of the record it was given.
LEMMA SignGrantKeeps ==
  ASSUME GrantInv, NEW q \in Requests, NEW r \in Replicas, SignGrant(q, r)
  PROVE  GrantInv'
  BY DEF SignGrant, At, Goto, GrantInv, Shaped, RowsOK, SignedOK, SigningOK, RequestFields, Postgres

\* revokeGrant writes no device.
LEMMA RevokeGrantKeeps ==
  ASSUME GrantInv, NEW q \in Requests, NEW r \in Replicas, NEW g \in Grants, RevokeGrant(q, r, g)
  PROVE  GrantInv'
  BY DEF RevokeGrant, Arrive, Idle, GrantInv, Shaped, RowsOK, SignedOK, SigningOK,
         RequestFields, Postgres

\* RevokeDevice raises the epoch of a row that it marks as revoked.
LEMMA RevokeDeviceKeeps ==
  ASSUME GrantInv, NEW q \in Requests, RevokeDevice(q)
  PROVE  GrantInv'
  BY DEF RevokeDevice, GrantInv, Shaped, RowsOK, SignedOK, SigningOK, RequestFields, Postgres

\* The second statement of RevokeDevice writes the feed only.
LEMMA LogDeviceKeeps ==
  ASSUME GrantInv, NEW q \in Requests, NEW r \in Replicas, LogDeviceRevocation(q, r)
  PROVE  GrantInv'
  BY DEF LogDeviceRevocation, Leave, Idle, GrantInv, Shaped, RowsOK, SignedOK, SigningOK,
         RequestFields, Postgres

\* A restart forgets requests, never rows or signed grants.
LEMMA RestartKeeps ==
  ASSUME GrantInv, NEW r \in Replicas, Restart(r)
  PROVE  GrantInv'
  BY Zenon DEF Restart, Idle, GrantInv, Shaped, RowsOK, SignedOK, SigningOK, RequestFields, Postgres

\* Expiry does not touch the epoch of a grant.
LEMMA ExpireKeeps ==
  ASSUME GrantInv, NEW g \in Grants, Expire(g)
  PROVE  GrantInv'
  BY DEF Expire, GrantInv, Shaped, RowsOK, SignedOK, SigningOK, RequestFields, Postgres
-----------------------------------------------------------------------------
\* Every step of a replica, its requests and its restarts keeps GrantInv.
LEMMA NextGrants == GrantInv /\ [Next]_vars => GrantInv'
<1> SUFFICES ASSUME GrantInv, [Next]_vars PROVE GrantInv'
  BY Zenon
<1>1. ASSUME NEW q \in Requests, NEW r \in Replicas, Handle(q, r) PROVE GrantInv'
  BY <1>1, ReadersKeep, SubmitKeeps, AuthorizeInMapKeeps, SignGrantKeeps, RevokeGrantKeeps,
     LogDeviceKeeps, Zenon
  DEF Handle
<1>2. ASSUME NEW q \in Requests,
             \/ AuthorizeDevice(q) \/ StoreGrant(q) \/ GetDevice(q) \/ GetGrant(q) \/ Answer(q)
             \/ LogGrantRevocation(q) \/ RevokeDevice(q) \/ Fail(q)
      PROVE  GrantInv'
  BY <1>2, StatementsKeep, AuthorizeDeviceKeeps, RevokeDeviceKeeps, Zenon
<1>3. ASSUME NEW r \in Replicas, StartWalk(r) \/ Revocations(r) \/ Restart(r) PROVE GrantInv'
  BY <1>3, SameKeeps, RestartKeeps, Zenon DEF StartWalk, Revocations
<1>4. ASSUME NEW g \in Grants, Expire(g) PROVE GrantInv'
  BY <1>4, ExpireKeeps, Zenon
<1>5. CASE UNCHANGED vars
  BY <1>5, SameKeeps, Zenon DEF vars
<1> QED BY <1>1, <1>2, <1>3, <1>4, <1>5, Zenon DEF Next

\* Rows that are not revoked, the records being signed and the signed grants
\* all have epoch 0, in every reachable state.
THEOREM EpochInvariant == Spec => []GrantInv
  BY InitGrants, NextGrants, PTL DEF Spec

\* With tables, no interleaving of authorizeDevice and revokeDevice, on any
\* number of replicas, leaves a revoked device a grant of its own epoch.
THEOREM RevocationReachesGrants == Spec => []GrantsDieWithDevice
<1>1. GrantInv => GrantsDieWithDevice
  BY Zenon DEF GrantInv, RowsOK, SignedOK, SigningOK, GrantsDieWithDevice
<1> QED BY EpochInvariant, <1>1, PTL
-----------------------------------------------------------------------------
(***************************************************************************)
(* The feed, the rings and the answered revocations.                       *)
(*                                                                         *)
(* A step either lets what the replicas and tables know grow, or restarts  *)
(* one replica.  So the argument is in two halves: what each request has   *)
(* made sure of so far (Request), which others cannot take away while they *)
(* only let knowledge grow; and what the maps, rings and tables of each    *)
(* replica say of each other.                                              *)
(***************************************************************************)
Record == [known : BOOLEAN, status : Status, epoch : Nat]
Maps == [devices : [Devices -> Record], grants : SUBSET Grants, revoked : SUBSET Grants,
         log : Seq(Ids), ring : [Keys -> {"none", "next", "active", "retired"}]]
FeedItem == [id : Ids, type : {"grant", "device"}, subject : Devices \cup Grants, epoch : Nat]
Tables == [device : [Devices -> Record], stored : SUBSET Grants, revoked : SUBSET Grants,
           feed : SUBSET FeedItem]
Content == [dev : SUBSET Devices, key : SUBSET Keys, epoch : Nat, expired : BOOLEAN]

\* An empty record.
LEMMA NoDeviceFields ==
  NoDevice \in Record /\ NoDevice.known = FALSE /\ NoDevice.status = "none" /\ NoDevice.epoch = 0
  BY DEF NoDevice, Record, Status

\* New: the ring of a replica that starts has one key.
LEMMA StartedFacts ==
  ASSUME NEW k \in Keys
  PROVE  /\ Started(k) \in Maps /\ Started(k).grants = {} /\ Started(k).revoked = {} /\ Started(k).log = <<>>
         /\ \A d \in Devices : Started(k).devices[d] = NoDevice
         /\ \A j \in Keys : Started(k).ring[j] = IF j = k THEN "active" ELSE "none"
  BY NoDeviceFields DEF Started, Maps

StateTypes ==
    /\ store \in Stores /\ spent \subseteq Ids /\ db \in Tables
    /\ signed \in [Grants -> Content] /\ mem \in [Replicas -> Maps]
    /\ acked \in [Replicas -> SUBSET (Devices \cup Grants)]

RowLabels == {"authorizeRow", "storeGrant", "verifyRow", "deviceRow", "statusRow", "logGrant", "revokeRow", "logDevice"}
Unfinished == {"authorizeRow", "sign"}
Issuing == {"storeGrant", "publishGrant"}

\* The key of the grant is one that the replica can find.
Findable(g, r) == signed[g].key # {} /\ \A k \in signed[g].key : Get(r, k)

RequestTypes(q) ==
    /\ req[q].dev \subseteq Devices /\ req[q].grant \subseteq Grants /\ req[q].key \subseteq Keys
    /\ \A d, e \in req[q].dev : d = e
    /\ \A g, h \in req[q].grant : g = h
    /\ \A k, j \in req[q].key : k = j
    /\ req[q].rec \in Record /\ req[q].hit \in BOOLEAN /\ req[q].id \in spent \cup {0}
    /\ req[q].pc # "idle" => \E r \in Replicas : req[q].at = {r}
    /\ req[q].pc \in RowLabels => Postgres
    /\ req[q].pc \in {"logGrant", "revokeMap", "revokeRow", "logDevice"} => req[q].id \in spent

\* What the tables and the grants say to a request, by where it is ...
RequestRows(q) ==
    /\ req[q].pc \in Unfinished => req[q].rec.epoch = 0 /\ \A g \in req[q].grant : signed[g].key = {}
    /\ req[q].pc = "logGrant" => req[q].grant \subseteq db.revoked
    /\ req[q].pc = "revokeMap" /\ Postgres =>
          \A g \in req[q].grant : g \in db.revoked /\ \E i \in db.feed : i.subject = g
    /\ req[q].pc = "logDevice" /\ req[q].hit =>
          \A d \in req[q].dev : db.device[d].known /\ db.device[d].epoch > 0

\* ... and what its replica does.
RequestMaps(q, r) ==
    /\ req[q].pc \in Issuing => \A g \in req[q].grant : Findable(g, r)
    /\ req[q].pc = "rotate" => \A k \in req[q].key : Get(r, k)
    /\ req[q].pc \in {"revokeRow", "logDevice"} => \A d \in req[q].dev : mem[r].devices[d].epoch > 0
    /\ req[q].pc = "verifyRow" => req[q].must \subseteq acked[r] \cap req[q].dev
    /\ req[q].pc = "statusRow" => req[q].must \subseteq acked[r] \cap req[q].grant
    /\ req[q].pc = "judge" /\ req[q].must # {} => req[q].hit
    /\ req[q].pc \in {"valid", "active", "expired"} => req[q].must = {}

Request(q) ==
    /\ RequestTypes(q) /\ RequestRows(q)
    /\ \A r \in Replicas : req[q].at = {r} => RequestMaps(q, r)

\* Two requests do not issue the same grant.
GrantsApart ==
    \A q, p \in Requests : q # p /\ req[q].pc \in Unfinished /\ req[p].pc \in Unfinished =>
        req[q].grant \cap req[p].grant = {}

TablesOK ==
    /\ \A d \in Devices : ~db.device[d].known => db.device[d].epoch = 0
    /\ db.revoked \subseteq db.stored /\ \A g \in db.stored : signed[g].key # {}
    /\ \A g \in Grants : signed[g].epoch = 0 /\ \A d, e \in signed[g].dev : d = e
    /\ \A i \in db.feed : i.id \in spent /\
          IF i.type = "grant" THEN i.subject \in db.revoked
          ELSE i.subject \in Devices /\ i.epoch <= db.device[i.subject].epoch

\* The maps and the ring of a replica.
MapsOK(r) ==
    /\ \A d \in Devices : mem[r].devices[d].status # "revoked" => mem[r].devices[d].epoch = 0
    /\ \E k \in Keys : Active(r) = {k}
    /\ \A g \in mem[r].grants : Findable(g, r)
    /\ \A n \in DOMAIN mem[r].log : mem[r].log[n] \in spent

RingsApart == \A r, s \in Replicas, k \in Keys : Get(r, k) /\ Get(s, k) => r = s

\* The replica has forgotten the revocation and can honour no grant.
Forgotten(r, d) ==
    /\ \A g \in Grants : d \in signed[g].dev => \A k \in signed[g].key : ~Get(r, k)
    /\ \A q \in Requests : req[q].at = {r} /\ req[q].pc = "sign" => d \notin req[q].dev

AckedDevice(r, d) ==
    /\ Postgres => db.device[d].epoch > 0
    /\ mem[r].devices[d].epoch > 0 \/ (Postgres /\ Forgotten(r, d))

AckedGrant(r, g) ==
    /\ Postgres => g \in db.revoked
    /\ \/ g \in mem[r].revoked
       \/ Postgres /\ g \notin mem[r].grants
          /\ \A q \in Requests : req[q].at = {r} /\ req[q].pc \in Issuing => g \notin req[q].grant

AckedFor(r, s) ==
    /\ s \in Devices => AckedDevice(r, s)
    /\ s \in Grants => AckedGrant(r, s)
    /\ Postgres => \E i \in db.feed : i.subject = s

TrustInv ==
    /\ GrantInv /\ StateTypes /\ TablesOK /\ RingsApart /\ GrantsApart
    /\ \A q \in Requests : Request(q)
    /\ \A r \in Replicas : MapsOK(r) /\ \A s \in acked[r] : AckedFor(r, s)

\* Epochs are numbers, wherever they are written down.
Epochs ==
    /\ \A d \in Devices : db.device[d].epoch \in Nat
    /\ \A r \in Replicas, d \in Devices : mem[r].devices[d].epoch \in Nat
    /\ \A q \in Requests : req[q].rec.epoch \in Nat
    /\ \A i \in db.feed : i.epoch \in Nat

\* The types of the tables, the maps and the requests say so ...
LEMMA EpochTypes == TrustInv => Epochs
<1> SUFFICES ASSUME TrustInv PROVE Epochs BY Zenon
<1>1. db \in Tables /\ mem \in [Replicas -> Maps] /\ \A q \in Requests : req[q].rec \in Record
  BY Zenon DEF TrustInv, StateTypes, Request, RequestTypes
<1>2. \A d \in Devices : db.device[d] \in Record
  BY <1>1 DEF Tables
<1>3. \A r \in Replicas, d \in Devices : mem[r].devices[d] \in Record
  BY <1>1 DEF Maps
<1>4. \A i \in db.feed : i \in FeedItem
  BY <1>1, Zenon DEF Tables
<1> QED BY <1>1, <1>2, <1>3, <1>4, Zenon DEF Epochs, Record, FeedItem

\* ... after a step as before it.
LEMMA EpochTypesNext == TrustInv' => Epochs'
  BY EpochTypes, PTL

\* An epoch in a map which is not touched has not grown.
LEMMA MapEpochs ==
  ASSUME TrustInv, NEW r \in Replicas, NEW d \in Devices
  PROVE  mem[r].devices[d].epoch \in Nat /\ mem[r].devices[d].epoch <= mem[r].devices[d].epoch
<1>1. mem[r].devices[d].epoch \in Nat
  BY EpochTypes, Zenon DEF Epochs
<1> QED BY <1>1
-----------------------------------------------------------------------------
(* No step takes a revocation of a device back.                            *)

\* A row that was not submitted is empty.
KnownRows == \A d \in Devices : db.device[d].known \/ db.device[d] = NoDevice

\* The records of the table and of the maps.
LEMMA RecordTypes ==
  ASSUME TrustInv
  PROVE  /\ \A d \in Devices : db.device[d] \in Record
         /\ \A r \in Replicas, d \in Devices : mem[r].devices[d] \in Record
<1>1. db \in Tables /\ mem \in [Replicas -> Maps]
  BY Zenon DEF TrustInv, StateTypes
<1>2. \A d \in Devices : db.device[d] \in Record
  BY <1>1 DEF Tables
<1>3. \A r \in Replicas, d \in Devices : mem[r].devices[d] \in Record
  BY <1>1 DEF Maps
<1> QED BY <1>2, <1>3, Zenon

\* A record which is not written is kept.
LEMMA SameRecord == ASSUME NEW rec \in Record PROVE KeepsRecord(rec, rec)
<1>1. rec.epoch \in Nat
  BY Zenon DEF Record
<1>2. rec.epoch <= rec.epoch /\ ~(rec.epoch < rec.epoch)
  BY <1>1
<1> QED BY <1>2, Zenon DEF KeepsRecord

\* A statement on one row keeps the records when that row is kept ...
LEMMA OneRow ==
  ASSUME TrustInv, KnownRows, NEW d \in Devices, KeepsRecord(db.device[d], db'.device[d]),
         db'.device[d].known \/ db'.device[d] = NoDevice,
         \A e \in Devices \ {d} : db'.device[e] = db.device[e],
         \A r \in Replicas : mem'[r].devices = mem[r].devices
  PROVE  KnownRows' /\ RecordsKept
<1>1. \A e \in Devices : KeepsRecord(db.device[e], db'.device[e])
  BY RecordTypes, SameRecord, Zenon
<1>2. \A e \in Devices, r \in Replicas : KeepsRecord(mem[r].devices[e], mem'[r].devices[e])
  BY RecordTypes, SameRecord, Zenon
<1>3. KnownRows'
  BY Zenon DEF KnownRows
<1> QED BY <1>1, <1>2, <1>3, Zenon DEF RecordsKept

\* ... so does one on other columns and tables, and an assignment to the maps
\* when the record it writes is kept.
LEMMA OneRecord ==
  ASSUME TrustInv, KnownRows, db'.device = db.device, NEW r \in Replicas, NEW d \in Devices,
         KeepsRecord(mem[r].devices[d], mem'[r].devices[d]),
         \A s \in Replicas, e \in Devices : s # r \/ e # d => mem'[s].devices[e] = mem[s].devices[e]
  PROVE  KnownRows' /\ RecordsKept
<1>1. \A e \in Devices : KeepsRecord(db.device[e], db'.device[e])
  BY RecordTypes, SameRecord, Zenon
<1>2. \A s \in Replicas, e \in Devices : KeepsRecord(mem[s].devices[e], mem'[s].devices[e])
  BY RecordTypes, SameRecord, Zenon
<1>3. KnownRows'
  BY Zenon DEF KnownRows
<1> QED BY <1>1, <1>2, <1>3, Zenon DEF RecordsKept

\* A step that writes no device keeps them all.
LEMMA NoRecord ==
  ASSUME TrustInv, KnownRows, db'.device = db.device, \A r \in Replicas : mem'[r].devices = mem[r].devices
  PROVE  KnownRows' /\ RecordsKept
<1>1. \A e \in Devices : KeepsRecord(db.device[e], db'.device[e])
  BY RecordTypes, SameRecord, Zenon
<1>2. \A e \in Devices, r \in Replicas : KeepsRecord(mem[r].devices[e], mem'[r].devices[e])
  BY RecordTypes, SameRecord, Zenon
<1>3. KnownRows'
  BY Zenon DEF KnownRows
<1> QED BY <1>1, <1>2, <1>3, Zenon DEF RecordsKept

\* The statements that write a row: the upsert enters only what is not there,
\* AuthorizeDevice passes over a revoked row, RevokeDevice raises the epoch.
LEMMA RowsAreKept ==
  ASSUME TrustInv, KnownRows, NEW q \in Requests,
         \/ \E r \in Replicas, d \in Devices : SubmitDevice(q, r, d)
         \/ AuthorizeDevice(q) \/ RevokeDevice(q)
  PROVE  KnownRows' /\ RecordsKept
<1>1. /\ DOMAIN db = {"device", "stored", "revoked", "feed"} /\ DOMAIN db.device = Devices
      /\ \A d \in Devices : DOMAIN db.device[d] = {"known", "status", "epoch"}
      /\ req[q].dev \subseteq Devices
  BY Zenon DEF TrustInv, GrantInv, Shaped
<1>2. mem' = mem
  BY Zenon DEF SubmitDevice, AuthorizeDevice, RevokeDevice
<1>3. CASE db' = db
  BY <1>2, <1>3, NoRecord, Zenon
<1>4. ASSUME NEW d \in Devices, ~db.device[d].known,
             db' = [db EXCEPT !.device[d] = [known |-> TRUE, status |-> "submitted", epoch |-> 0]]
      PROVE  KnownRows' /\ RecordsKept
  <2>1. db.device[d] = NoDevice
    BY <1>4, Zenon DEF KnownRows
  <2>2. db'.device[d] = [known |-> TRUE, status |-> "submitted", epoch |-> 0]
    BY <1>1, <1>4, Zenon
  <2>3. \A e \in Devices \ {d} : db'.device[e] = db.device[e]
    BY <1>1, <1>4, Zenon
  <2>4. KeepsRecord(db.device[d], db'.device[d])
    BY <2>1, <2>2 DEF KeepsRecord, NoDevice
  <2>5. db'.device[d].known
    BY <2>2
  <2> QED BY <1>2, <2>3, <2>4, <2>5, OneRow, Zenon
<1>5. ASSUME NEW d \in Devices, db.device[d].status \notin {"none", "revoked"},
             db' = [db EXCEPT !.device[d].status = "authorized"]
      PROVE  KnownRows' /\ RecordsKept
  <2>1. db.device[d].known
    BY <1>5 DEF KnownRows, NoDevice
  <2>2. db'.device[d].known = db.device[d].known /\ db'.device[d].epoch = db.device[d].epoch
    BY <1>1, <1>5, Zenon
  <2>3. \A e \in Devices \ {d} : db'.device[e] = db.device[e]
    BY <1>1, <1>5, Zenon
  <2>4. db.device[d].epoch <= db'.device[d].epoch /\ ~(db.device[d].epoch < db'.device[d].epoch)
    BY <2>2, EpochTypes DEF Epochs
  <2>5. KeepsRecord(db.device[d], db'.device[d])
    BY <1>5, <2>4, Zenon DEF KeepsRecord
  <2> QED BY <1>2, <2>1, <2>2, <2>3, <2>5, OneRow, Zenon
<1>6. ASSUME NEW d \in Devices, db.device[d].known,
             db' = [db EXCEPT !.device[d] = [@ EXCEPT !.status = "revoked", !.epoch = db.device[d].epoch + 1]]
      PROVE  KnownRows' /\ RecordsKept
  <2>0. db'.device[d] = [db.device[d] EXCEPT !.status = "revoked", !.epoch = db.device[d].epoch + 1]
    BY <1>1, <1>6, Zenon
  <2>1. /\ db'.device[d].known = db.device[d].known /\ db'.device[d].status = "revoked"
        /\ db'.device[d].epoch = db.device[d].epoch + 1
    BY <1>1, <2>0, Zenon
  <2>2. \A e \in Devices \ {d} : db'.device[e] = db.device[e]
    BY <1>1, <1>6, Zenon
  <2>3. db.device[d].epoch <= db'.device[d].epoch
    BY <2>1, EpochTypes DEF Epochs
  <2>4. KeepsRecord(db.device[d], db'.device[d])
    BY <2>1, <2>3, Zenon DEF KeepsRecord
  <2> QED BY <1>2, <1>6, <2>1, <2>2, <2>4, OneRow, Zenon
<1>7. ASSUME NEW r \in Replicas, NEW d \in Devices, SubmitDevice(q, r, d) PROVE KnownRows' /\ RecordsKept
  BY <1>3, <1>4, <1>7, Zenon DEF SubmitDevice
<1>8. CASE AuthorizeDevice(q)
  BY <1>1, <1>3, <1>5, <1>8, Zenon DEF AuthorizeDevice
<1>9. CASE RevokeDevice(q)
  BY <1>1, <1>3, <1>6, <1>9, Zenon DEF RevokeDevice
<1> QED BY <1>7, <1>8, <1>9, Zenon

\* The handlers that write a record of a map: submitDevice leaves the status of
\* one that is there, authorizeDevice refuses a revoked one and copies a row
\* only over an empty one, revokeDevice raises the epoch.
LEMMA MapsAreKept ==
  ASSUME TrustInv, KnownRows, NEW q \in Requests, NEW r \in Replicas,
         \/ RecordSubmitted(q, r)
         \/ \E d \in Devices : AuthorizeInMap(q, r, d) \/ RevokeInMap(q, r, d)
  PROVE  KnownRows' /\ RecordsKept
<1>1. /\ mem \in [Replicas -> Maps] /\ req[q].dev \subseteq Devices
      /\ \A d \in Devices : db.device[d].status # "revoked" => db.device[d].epoch = 0
      /\ \A d \in Devices : mem[r].devices[d].status # "revoked" => mem[r].devices[d].epoch = 0
  BY Zenon DEF TrustInv, StateTypes, GrantInv, Shaped, RowsOK, MapsOK
<1>2. DOMAIN mem = Replicas /\ DOMAIN mem[r] = {"devices", "grants", "revoked", "log", "ring"} /\ DOMAIN mem[r].devices = Devices
  BY <1>1, Zenon DEF Maps
<1>3. \A d \in Devices : DOMAIN db.device[d] = {"known", "status", "epoch"}
  BY Zenon DEF TrustInv, GrantInv, Shaped
<1>4. \A d \in Devices : DOMAIN mem[r].devices[d] = {"known", "status", "epoch"}
  BY RecordTypes, Zenon DEF Record
<1>5. ASSUME RecordSubmitted(q, r) PROVE KnownRows' /\ RecordsKept
  <2>1. PICK d \in req[q].dev :
          mem' = [mem EXCEPT ![r].devices[d] = [mem[r].devices[d] EXCEPT !.known = TRUE,
                     !.status = IF mem[r].devices[d].status = "none" THEN "submitted" ELSE mem[r].devices[d].status]]
    BY <1>5, Zenon DEF RecordSubmitted
  <2>2. d \in Devices
    BY <1>1, Zenon
  <2> DEFINE rec == [mem[r].devices[d] EXCEPT !.known = TRUE,
                       !.status = IF mem[r].devices[d].status = "none" THEN "submitted" ELSE mem[r].devices[d].status]
  <2>3. rec.epoch = mem[r].devices[d].epoch
    BY <1>4, <2>2, Zenon
  <2>4. mem[r].devices[d].status = "revoked" => rec.status = "revoked"
    BY <1>4, <2>2, Zenon
  <2>5. mem[r].devices[d].epoch <= rec.epoch /\ ~(mem[r].devices[d].epoch < rec.epoch)
    BY <2>2, <2>3, EpochTypes DEF Epochs
  <2> HIDE DEF rec
  <2>6. KeepsRecord(mem[r].devices[d], rec)
    BY <2>4, <2>5, Zenon DEF KeepsRecord
  <2>7. mem' = [mem EXCEPT ![r].devices[d] = rec]
    BY <2>1, Zenon DEF rec
  <2>8. mem'[r].devices[d] = rec
    BY <1>2, <2>2, <2>7, Zenon
  <2>9. \A s \in Replicas, e \in Devices : s # r \/ e # d => mem'[s].devices[e] = mem[s].devices[e]
    BY <1>2, <2>2, <2>7, Zenon
  <2>10. db' = db
    BY <1>5, Zenon DEF RecordSubmitted
  <2> QED BY <2>2, <2>6, <2>8, <2>9, <2>10, OneRecord, Zenon
<1>6. ASSUME NEW d \in Devices, AuthorizeInMap(q, r, d) PROVE KnownRows' /\ RecordsKept
  <2> DEFINE rec == [Lookup(r, d) EXCEPT !.status = "authorized"]
  <2>1. Lookup(r, d) \in {mem[r].devices[d], db.device[d]} /\ Lookup(r, d).status # "revoked"
    BY <1>6, Zenon DEF AuthorizeInMap, Lookup
  <2>2. mem[r].devices[d].status # "revoked"
    BY <2>1, Zenon DEF Lookup
  <2>3. rec.epoch = 0
    BY <1>1, <1>3, <1>4, <2>1, Zenon
  <2>4. mem[r].devices[d].epoch = 0
    BY <1>1, <2>2, Zenon
  <2> HIDE DEF rec
  <2>5. mem[r].devices[d].epoch <= rec.epoch /\ ~(mem[r].devices[d].epoch < rec.epoch)
    BY <2>3, <2>4
  <2>6. KeepsRecord(mem[r].devices[d], rec)
    BY <2>2, <2>5, Zenon DEF KeepsRecord
  <2>7. mem' = [mem EXCEPT ![r].devices[d] = rec]
    BY <1>6, Zenon DEF AuthorizeInMap, rec
  <2>8. mem'[r].devices[d] = rec
    BY <1>2, <2>7, Zenon
  <2>9. \A s \in Replicas, e \in Devices : s # r \/ e # d => mem'[s].devices[e] = mem[s].devices[e]
    BY <1>2, <2>7, Zenon
  <2>10. db' = db
    BY <1>6, Zenon DEF AuthorizeInMap
  <2> QED BY <2>6, <2>8, <2>9, <2>10, OneRecord, Zenon
<1>7. ASSUME NEW d \in Devices, RevokeInMap(q, r, d) PROVE KnownRows' /\ RecordsKept
  <2> DEFINE rec == [mem[r].devices[d] EXCEPT !.status = "revoked", !.epoch = mem[r].devices[d].epoch + 1]
  <2>1. rec.status = "revoked" /\ rec.epoch = mem[r].devices[d].epoch + 1
    BY <1>4, Zenon
  <2> HIDE DEF rec
  <2>2. mem[r].devices[d].epoch <= rec.epoch
    BY <2>1, EpochTypes DEF Epochs
  <2>3. KeepsRecord(mem[r].devices[d], rec)
    BY <2>1, <2>2, Zenon DEF KeepsRecord
  <2>4. PICK i \in Ids : mem' = [mem EXCEPT ![r].devices[d] = rec, ![r].log = Logged(mem[r].log, i)]
    BY <1>7, Zenon DEF RevokeInMap, rec
  <2>5. mem'[r].devices[d] = rec
    BY <1>2, <2>4, Zenon
  <2>6. \A s \in Replicas, e \in Devices : s # r \/ e # d => mem'[s].devices[e] = mem[s].devices[e]
    BY <1>2, <2>4, Zenon
  <2>7. db' = db
    BY <1>7, Zenon DEF RevokeInMap
  <2> QED BY <2>3, <2>5, <2>6, <2>7, OneRecord, Zenon
<1> QED BY <1>5, <1>6, <1>7, Zenon

\* A new process starts with a key that no ring holds.
LEMMA RestartEndsProcess ==
  ASSUME TrustInv, KnownRows, NEW r \in Replicas, Restart(r)
  PROVE  KnownRows' /\ RecordsKept
<1>1. DOMAIN mem = Replicas
  BY Zenon DEF TrustInv, StateTypes
<1>2. PICK k \in NewKeys : mem' = [mem EXCEPT ![r] = Started(k)]
  BY Zenon DEF Restart
<1>3. mem'[r] = Started(k) /\ \A s \in Replicas \ {r} : mem'[s] = mem[s]
  BY <1>1, <1>2, Zenon
<1>4. mem[r].ring[k] = "none"
  BY Zenon DEF NewKeys
<1>5. \A j \in Keys : mem'[r].ring[j] = IF j = k THEN "active" ELSE "none"
  BY <1>3 DEF Started
<1>6. ~SameProcess(r)
  BY <1>4, <1>5, Zenon DEF SameProcess
<1>7. \A s \in Replicas \ {r}, d \in Devices : KeepsRecord(mem[s].devices[d], mem'[s].devices[d])
  BY <1>3, RecordTypes, SameRecord, Zenon
<1>8. db' = db
  BY Zenon DEF Restart
<1>9. \A d \in Devices : KeepsRecord(db.device[d], db'.device[d])
  BY <1>8, RecordTypes, SameRecord, Zenon
<1> QED BY <1>6, <1>7, <1>8, <1>9, Zenon DEF RecordsKept, KnownRows

\* The handlers that write other fields of a replica.
LEMMA OtherMapsAreKept ==
  ASSUME TrustInv, KnownRows, NEW q \in Requests, NEW r \in Replicas,
         \/ PublishGrant(q, r) \/ RecordGrantRevocation(q, r) \/ AddNextKey(q, r) \/ RotateKeys(q, r)
  PROVE  KnownRows' /\ RecordsKept
<1>1. DOMAIN mem = Replicas
  BY Zenon DEF TrustInv, StateTypes
<1>2. DOMAIN mem[r] = {"devices", "grants", "revoked", "log", "ring"}
  BY Zenon DEF TrustInv, StateTypes, Maps
<1>3. \A s \in Replicas : mem'[s].devices = mem[s].devices
  <2>1. CASE PublishGrant(q, r)
    BY <1>1, <1>2, <2>1, Zenon DEF PublishGrant
  <2>2. CASE RecordGrantRevocation(q, r)
    <3>1. PICK g \in req[q].grant :
            mem' = [mem EXCEPT ![r].revoked = @ \cup {g}, ![r].log = Logged(@, req[q].id)]
      BY <2>2, Zenon DEF RecordGrantRevocation
    <3> QED BY <1>1, <1>2, <3>1, Zenon
  <2>3. CASE AddNextKey(q, r)
    <3>1. PICK k \in NewKeys : mem' = [mem EXCEPT ![r].ring[k] = "next"]
      BY <2>3, Zenon DEF AddNextKey
    <3> QED BY <1>1, <1>2, <3>1, Zenon
  <2>4. CASE RotateKeys(q, r)
    <3>1. PICK k \in req[q].key : mem' = [mem EXCEPT ![r].ring = Rotated(@, k)]
      BY <2>4, Zenon DEF RotateKeys
    <3> QED BY <1>1, <1>2, <3>1, Zenon
  <2> QED BY <2>1, <2>2, <2>3, <2>4, Zenon
<1>4. db' = db
  BY Zenon DEF PublishGrant, RecordGrantRevocation, AddNextKey, RotateKeys
<1> QED BY <1>3, <1>4, NoRecord, Zenon

\* The statements on the other tables.
LEMMA OtherTablesAreKept ==
  ASSUME TrustInv, KnownRows, NEW q \in Requests,
         \/ StoreGrant(q) \/ LogGrantRevocation(q)
         \/ \E r \in Replicas : LogDeviceRevocation(q, r) \/ \E g \in Grants : RevokeGrant(q, r, g)
  PROVE  KnownRows' /\ RecordsKept
<1>1. DOMAIN db = {"device", "stored", "revoked", "feed"}
  BY Zenon DEF TrustInv, GrantInv, Shaped
<1>2. db'.device = db.device
  BY <1>1, Zenon DEF StoreGrant, LogGrantRevocation, LogDeviceRevocation, RevokeGrant
<1>3. mem' = mem
  BY Zenon DEF StoreGrant, LogGrantRevocation, LogDeviceRevocation, RevokeGrant
<1> QED BY <1>2, <1>3, NoRecord, Zenon

\* No step takes a revocation back.
LEMMA NextRecords == TrustInv /\ KnownRows /\ [Next]_vars => KnownRows' /\ RecordsKept
<1> SUFFICES ASSUME TrustInv, KnownRows, [Next]_vars PROVE KnownRows' /\ RecordsKept
  BY Zenon
<1>1. ASSUME UNCHANGED <<db, mem>> PROVE KnownRows' /\ RecordsKept
  BY <1>1, NoRecord, Zenon
<1>2. ASSUME NEW q \in Requests, NEW r \in Replicas, Handle(q, r) PROVE KnownRows' /\ RecordsKept
  <2>1. ASSUME NEW d \in Devices,
               SubmitDevice(q, r, d) \/ AuthorizeInMap(q, r, d) \/ DeviceStatus(q, r, d) \/ RevokeInMap(q, r, d)
        PROVE  KnownRows' /\ RecordsKept
    BY <1>1, <2>1, RowsAreKept, MapsAreKept, Zenon DEF DeviceStatus
  <2>2. ASSUME NEW g \in Grants, VerifyRequest(q, r, g) \/ GrantStatus(q, r, g) \/ RevokeGrant(q, r, g)
        PROVE  KnownRows' /\ RecordsKept
    BY <1>1, <2>2, OtherTablesAreKept, Zenon DEF VerifyRequest, GrantStatus
  <2>3. CASE SignGrant(q, r) \/ VerifyAgainstRow(q, r) \/ JudgeGrant(q, r)
    BY <1>1, <2>3, Zenon DEF SignGrant, VerifyAgainstRow, JudgeGrant
  <2> QED BY <1>2, <2>1, <2>2, <2>3, MapsAreKept, OtherMapsAreKept, OtherTablesAreKept, Zenon DEF Handle
<1>3. ASSUME NEW q \in Requests,
             \/ AuthorizeDevice(q) \/ StoreGrant(q) \/ GetDevice(q) \/ GetGrant(q) \/ Answer(q)
             \/ LogGrantRevocation(q) \/ RevokeDevice(q) \/ Fail(q)
      PROVE  KnownRows' /\ RecordsKept
  BY <1>1, <1>3, RowsAreKept, OtherTablesAreKept, Zenon DEF GetDevice, GetGrant, Answer, Fail
<1>4. ASSUME NEW r \in Replicas, StartWalk(r) \/ Revocations(r) \/ Restart(r) PROVE KnownRows' /\ RecordsKept
  BY <1>1, <1>4, RestartEndsProcess, Zenon DEF StartWalk, Revocations
<1>5. ASSUME NEW g \in Grants, Expire(g) PROVE KnownRows' /\ RecordsKept
  BY <1>1, <1>5, Zenon DEF Expire
<1>6. CASE UNCHANGED vars
  BY <1>1, <1>6, Zenon DEF vars
<1> QED BY <1>2, <1>3, <1>4, <1>5, <1>6, Zenon DEF Next
-----------------------------------------------------------------------------
(* How a step changes the requests.                                        *)

Others(q) ==
    /\ DOMAIN req' = Requests /\ \A p \in Requests : DOMAIN req'[p] = RequestFields
    /\ \A p \in Requests \ {q} : req'[p] = req[p]

\* Two requests carry the same.
Same(a, b) ==
    /\ a.dev = b.dev /\ a.grant = b.grant /\ a.key = b.key /\ a.id = b.id
    /\ a.rec = b.rec /\ a.hit = b.hit /\ a.must = b.must

\* The fields of a request that is not there.
LEMMA IdleFields ==
  /\ DOMAIN Idle = RequestFields /\ Idle.pc = "idle" /\ Idle.at = {} /\ Idle.dev = {} /\ Idle.grant = {}
  /\ Idle.key = {} /\ Idle.id = 0 /\ Idle.rec = NoDevice /\ Idle.hit = FALSE /\ Idle.must = {}
  BY Zenon DEF Idle, RequestFields

\* What Leave, Goto and Arrive do, as facts about the fields of requests.
LEMMA LeaveFacts ==
  ASSUME Shaped, NEW q \in Requests, Leave(q)
  PROVE  Others(q) /\ req'[q].pc = "idle" /\ req'[q].at = {} /\ Same(req'[q], Idle)
  BY IdleFields, Zenon DEF Shaped, Leave, Others, Same

\* The same for Goto.
LEMMA GotoFacts ==
  ASSUME Shaped, NEW q \in Requests, NEW label, Goto(q, label)
  PROVE  Others(q) /\ req'[q].pc = label /\ req'[q].at = req[q].at /\ Same(req'[q], req[q])
  BY Zenon DEF Shaped, Goto, Others, Same, RequestFields

\* The same for Arrive.
LEMMA ArriveFacts ==
  ASSUME Shaped, NEW q \in Requests, NEW r, NEW label, NEW ask, DOMAIN ask = RequestFields, Arrive(q, r, label, ask)
  PROVE  Others(q) /\ req'[q].pc = label /\ req'[q].at = {r} /\ Same(req'[q], ask)
  BY Zenon DEF Shaped, Arrive, Others, Same, RequestFields
-----------------------------------------------------------------------------
(* What others cannot take away.                                           *)

\* What replica r and the tables know only grows.
Grows(r) ==
    /\ store' = store /\ spent \subseteq spent'
    /\ db.revoked \subseteq db'.revoked /\ db.feed \subseteq db'.feed
    /\ \A d \in Devices : /\ db.device[d].known => db'.device[d].known
                          /\ db.device[d].epoch > 0 => db'.device[d].epoch > 0
                          /\ mem[r].devices[d].epoch > 0 => mem'[r].devices[d].epoch > 0
    /\ \A k \in Keys : Get(r, k) => Get(r, k)'
    /\ Postgres => acked[r] \subseteq acked'[r]
    /\ \A g \in Grants : signed[g].key # {} => signed'[g].key = signed[g].key

\* A request that a step leaves alone keeps what it has made sure of.
LEMMA RequestStays ==
  ASSUME StateTypes, NEW p \in Requests, Request(p), req'[p] = req[p],
         \A r \in Replicas : req[p].at = {r} => Grows(r), req[p].pc = "idle" => spent \subseteq spent',
         req[p].pc \in Unfinished => \A g \in req[p].grant : signed'[g].key = signed[g].key
  PROVE  Request(p)'
<1>1. RequestTypes(p)'
  BY Zenon DEF Request, RequestTypes, Grows, Postgres, RowLabels
<1>2. RequestRows(p)'
  BY Zenon DEF Request, RequestTypes, RequestRows, Grows, Postgres, Unfinished
<1>3. ASSUME NEW r \in Replicas, req'[p].at = {r} PROVE RequestMaps(p, r)'
  <2>1. RequestMaps(p, r) /\ Grows(r)
    BY <1>3, Zenon DEF Request
  <2>2. \A g \in Grants : Findable(g, r) => Findable(g, r)'
    BY <2>1, Zenon DEF StateTypes, Content, Findable, Grows
  <2>3. req[p].pc \in RowLabels => Postgres
    BY Zenon DEF Request, RequestTypes
  <2> QED BY <2>1, <2>2, <2>3, Zenon DEF Request, RequestTypes, RequestMaps, Grows, RowLabels
<1> QED BY <1>1, <1>2, <1>3, Zenon DEF Request

\* No grant of a revoked device, and no revoked grant, comes back to replica s.
NoReturn(s) ==
    /\ mem[s].revoked \subseteq mem'[s].revoked
    /\ \A g \in mem'[s].grants : \/ g \in mem[s].grants
                                 \/ \E p \in Requests : req[p].at = {s} /\ req[p].pc \in Issuing /\ g \in req[p].grant
    /\ \A g \in Grants : \A d \in signed'[g].dev, k \in signed'[g].key : Get(s, k)' =>
          \/ d \in signed[g].dev /\ k \in signed[g].key /\ Get(s, k)
          \/ \E p \in Requests : req[p].at = {s} /\ req[p].pc = "sign" /\ d \in req[p].dev
    /\ \A p \in Requests : req'[p].at = {s} /\ req'[p].pc = "sign" /\ Postgres =>
          \A d \in req'[p].dev : \/ db.device[d].epoch = 0
                                 \/ req[p].at = {s} /\ req[p].pc = "sign" /\ d \in req[p].dev
    /\ \A p \in Requests : req'[p].at = {s} /\ req'[p].pc \in Issuing =>
          \A g \in req'[p].grant : \/ g \notin db.stored
                                   \/ req[p].at = {s} /\ req[p].pc \in Issuing /\ g \in req[p].grant

\* Then the answered revocations stand.
LEMMA AckedStays ==
  ASSUME TrustInv, NEW s \in Replicas, Grows(s), NoReturn(s), NEW x \in acked[s]
  PROVE  AckedFor(s, x)'
<1>1. AckedFor(s, x)
  BY Zenon DEF TrustInv
<1>2. ASSUME x \in Devices PROVE AckedDevice(s, x)'
  <2>1. AckedDevice(s, x)
    BY <1>1, <1>2, Zenon DEF AckedFor
  <2>2. CASE mem[s].devices[x].epoch > 0
    BY <1>2, <2>1, <2>2, Zenon DEF AckedDevice, Grows, Postgres
  <2>3. CASE Postgres /\ Forgotten(s, x)
    <3>1. db.device[x].epoch > 0 /\ db.device[x].epoch # 0 /\ db'.device[x].epoch > 0 /\ Postgres'
      BY <1>2, <2>1, <2>3 DEF AckedDevice, Grows, Postgres
    <3>2. Forgotten(s, x)'
      BY <2>3, <3>1, Zenon DEF Forgotten, NoReturn
    <3> QED BY <3>1, <3>2, Zenon DEF AckedDevice
  <2> QED BY <2>1, <2>2, <2>3, Zenon DEF AckedDevice
<1>3. ASSUME x \in Grants PROVE AckedGrant(s, x)'
  <2>1. AckedGrant(s, x) /\ db.revoked \subseteq db.stored
    BY <1>1, <1>3, Zenon DEF AckedFor, TrustInv, TablesOK
  <2> QED BY <2>1, Zenon DEF AckedGrant, Grows, NoReturn, Postgres
<1> QED BY <1>1, <1>2, <1>3, Zenon DEF AckedFor, Grows, Postgres
-----------------------------------------------------------------------------
(* Steps of one request.                                                   *)

\* What request q does takes nothing away from others.
MayStep(q) ==
    /\ Others(q) /\ spent \subseteq spent'
    /\ \A s \in Replicas : Grows(s) /\ NoReturn(s)
    /\ Request(q)'
    /\ \/ req'[q].pc \notin Unfinished
       \/ req[q].pc \in Unfinished /\ req'[q].grant = req[q].grant
       \/ \A p \in Requests : req'[q].grant \cap req[p].grant = {}
    /\ \A g \in Grants : signed'[g].key # signed[g].key => req[q].pc \in Unfinished /\ g \in req[q].grant

\* Then the requests and the answered revocations are fine after it; the step
\* itself answers for tables, maps and rings, and for what it acknowledges.
LEMMA StepKeeps ==
  ASSUME TrustInv, GrantInv', NEW q \in Requests, MayStep(q), StateTypes', TablesOK', RingsApart',
         \A r \in Replicas : MapsOK(r)' /\ \A x \in acked'[r] \ acked[r] : AckedFor(r, x)'
  PROVE  TrustInv'
<1>1. ASSUME NEW p \in Requests, p # q PROVE Request(p)'
  <2>1. StateTypes /\ Request(p) /\ Request(q) /\ req'[p] = req[p] /\ spent \subseteq spent'
    BY <1>1, Zenon DEF TrustInv, MayStep, Others
  <2>2. \A r \in Replicas : req[p].at = {r} => Grows(r)
    BY Zenon DEF MayStep
  <2>3. req[p].pc \in Unfinished => \A g \in req[p].grant : signed'[g].key = signed[g].key
    BY <1>1, <2>1, Zenon DEF MayStep, TrustInv, GrantsApart, Request, RequestTypes
  <2> QED BY <2>1, <2>2, <2>3, RequestStays, Zenon
<1>2. \A p \in Requests : Request(p)'
  BY <1>1, Zenon DEF MayStep
<1>3. GrantsApart'
  BY DEF GrantsApart, TrustInv, MayStep, Others
<1>4. ASSUME NEW r \in Replicas, NEW x \in acked'[r] PROVE AckedFor(r, x)'
  <2>1. Grows(r) /\ NoReturn(r)
    BY Zenon DEF MayStep
  <2> QED BY <2>1, AckedStays, Zenon
<1> QED BY <1>2, <1>3, <1>4, Zenon DEF TrustInv

\* Where the maps and the grants stay, so do the facts about them ...
LEMMA SameMaps ==
  ASSUME TrustInv, UNCHANGED <<mem, signed>>, spent \subseteq spent'
  PROVE  RingsApart' /\ \A r \in Replicas : MapsOK(r)'
<1>1. RingsApart'
  BY Zenon DEF TrustInv, RingsApart, Get
<1>2. ASSUME NEW r \in Replicas PROVE MapsOK(r)'
  BY DEF TrustInv, MapsOK, Active, Findable, Get
<1> QED BY <1>1, <1>2, Zenon

\* ... and where the tables stay, the facts about those.
LEMMA SameTables ==
  ASSUME TrustInv, UNCHANGED db, spent \subseteq spent',
         \A g \in Grants : /\ signed[g].key # {} => signed'[g].key # {}
                           /\ signed'[g].epoch = signed[g].epoch
                           /\ signed'[g].dev = signed[g].dev \/ \A d, e \in signed'[g].dev : d = e
  PROVE  TablesOK'
  BY Zenon DEF TrustInv, StateTypes, Tables, TablesOK

\* A request that reads, answers or ends, and is not about to issue a grant.
LEMMA QuietKeeps ==
  ASSUME TrustInv, GrantInv', NEW q \in Requests, Others(q), Request(q)',
         req'[q].pc \notin Unfinished \cup Issuing, UNCHANGED <<store, db, signed, spent, mem, acked>>
  PROVE  TrustInv'
<1>1. StateTypes' /\ \A s \in Replicas : Grows(s)
  BY Zenon DEF TrustInv, StateTypes, Grows, Get
<1>2. ASSUME NEW s \in Replicas PROVE NoReturn(s)
  BY Zenon DEF NoReturn, Others, Get, Unfinished
<1>3. MayStep(q)
  BY <1>1, <1>2, Zenon DEF MayStep
<1>4. TablesOK'
  BY SameTables, Zenon
<1>5. RingsApart' /\ \A r \in Replicas : MapsOK(r)'
  BY SameMaps, Zenon
<1> QED BY <1>1, <1>3, <1>4, <1>5, StepKeeps, Zenon

-----------------------------------------------------------------------------
(* Revocation ids: who holds one, what is logged, and how often an epoch   *)
(* can have risen.                                                         *)

Logging == {"logGrant", "revokeMap"}
Pending == Logging \cup {"revokeRow"}

\* Ids whose UPDATE of a row, if there is one, lies in the past.
Used == {i \in spent : \A q \in Requests : req[q].pc = "revokeRow" => req[q].id # i}

IdsApart ==
    \A p, q \in Requests : p # q /\ req[p].pc \in Pending /\ req[q].pc \in Pending => req[p].id # req[q].id

\* A log lists an id once, and not while a request is still to list it.
LogOK(r) ==
    /\ \A m, n \in DOMAIN mem[r].log : mem[r].log[m] = mem[r].log[n] => m = n
    /\ \A q \in Requests, n \in DOMAIN mem[r].log : req[q].pc \in Logging => mem[r].log[n] # req[q].id

\* An epoch has risen at most once for every id.
CountsOK ==
    /\ \A d \in Devices : db.device[d].epoch <= Cardinality(Used)
    /\ \A r \in Replicas, d \in Devices : mem[r].devices[d].epoch <= Cardinality(spent)
    /\ \A q \in Requests : req[q].rec.epoch <= Cardinality(spent)
    /\ \A i \in db.feed : i.epoch <= Cardinality(spent)

CountInv == IdsApart /\ CountsOK /\ \A r \in Replicas : LogOK(r)

\* A step in which at most request q draws an id, which is a new one.
Drawn(q) ==
    \A p \in Requests : req'[p].pc \in Pending =>
        \/ req'[p].id = req[p].id /\ (req'[p].pc = req[p].pc \/ (req'[p].pc \in Logging /\ req[p].pc \in Logging))
        \/ p = q /\ req'[p].id \notin spent

\* It leaves a log alone, clears it in a restart, or appends an id that nobody
\* else will.
LogStep(r) ==
    \/ mem'[r].log = mem[r].log
    \/ mem'[r].log = <<>> /\ Restart(r)
    \/ \E i \in Ids : /\ mem'[r].log = Append(mem[r].log, i)
                      /\ \A n \in DOMAIN mem[r].log : mem[r].log[n] # i
                      /\ \A p \in Requests : req'[p].pc \in Logging => req'[p].id # i

\* The record that a request holds: none, as before, or read from a row or map.
RecRead(p) ==
    \/ req'[p].rec.epoch = 0 \/ req'[p].rec = req[p].rec
    \/ \E d \in Devices : req'[p].rec.epoch = db.device[d].epoch
    \/ \E r \in Replicas, d \in Devices : req'[p].rec.epoch = mem[r].devices[d].epoch

\* Epochs rise in a map with a new id, in a row with an id held for it.
Advances(q) ==
    /\ Drawn(q) /\ spent \subseteq spent' /\ db.feed \subseteq db'.feed
    /\ \A r \in Replicas : LogStep(r)
    /\ \/ \A d \in Devices : db'.device[d].epoch = db.device[d].epoch
       \/ /\ q \in Requests /\ req[q].pc = "revokeRow" /\ req'[q].pc = "logDevice"
          /\ \A d \in Devices : db'.device[d].epoch <= db.device[d].epoch + 1
    /\ \A r \in Replicas, d \in Devices :
          \/ mem'[r].devices[d].epoch <= mem[r].devices[d].epoch
          \/ mem'[r].devices[d].epoch <= mem[r].devices[d].epoch + 1 /\ spent' # spent
    /\ \A p \in Requests : RecRead(p)
    /\ \A i \in db'.feed : i \in db.feed \/ i.epoch = 0 \/ \E d \in Devices : i.epoch = db.device[d].epoch

\* A step that draws no revocation id and moves neither feed, logs nor epochs;
\* what it has read of a device comes from a row, a map or the request itself.
Ordinary(q) ==
    /\ Others(q) /\ req'[q].pc \notin Pending
    /\ spent' = spent /\ db'.feed = db.feed
    /\ \A d \in Devices : db'.device[d].epoch = db.device[d].epoch
    /\ \A r \in Replicas : /\ mem'[r].log = mem[r].log
                           /\ \A d \in Devices : mem'[r].devices[d].epoch = mem[r].devices[d].epoch
    /\ RecRead(q)

\* A step of one request, as what it does to all.
LEMMA DrawnBy ==
  ASSUME NEW q \in Requests, Others(q), RecRead(q),
         \/ req'[q].pc \notin Pending \/ req'[q].id \notin spent
         \/ req'[q].id = req[q].id /\ req'[q].pc \in Logging /\ req[q].pc \in Logging
  PROVE  Drawn(q) /\ \A p \in Requests : RecRead(p)
  BY Zenon DEF Drawn, Others, RecRead

\* Most steps.
LEMMA OrdinaryAdvances ==
  ASSUME TrustInv, NEW q \in Requests, Ordinary(q)
  PROVE  Advances(q)
<1>1. Drawn(q) /\ \A p \in Requests : RecRead(p)
  BY DrawnBy, Zenon DEF Ordinary
<1>2. \A r \in Replicas, d \in Devices : mem[r].devices[d].epoch <= mem[r].devices[d].epoch
  BY MapEpochs, Zenon
<1> QED BY <1>1, <1>2, Zenon DEF Ordinary, Advances, LogStep

\* A request that has ended.
LEMMA LeftRequest ==
  ASSUME TrustInv, NEW q \in Requests, Leave(q), spent \subseteq spent'
  PROVE  Others(q) /\ Request(q)' /\ req'[q].pc = "idle" /\ req'[q].at = {} /\ req'[q].rec.epoch = 0 /\ RecRead(q)
<1>1. Others(q) /\ req'[q].pc = "idle" /\ req'[q].at = {} /\ Same(req'[q], Idle)
  BY LeaveFacts, Zenon DEF TrustInv, GrantInv
<1>2. Idle.rec \in Record
  BY IdleFields DEF Record, NoDevice, Status
<1>3. RequestTypes(q)' /\ RequestRows(q)'
  BY <1>1, <1>2, IdleFields, Zenon DEF RequestTypes, RequestRows, Same, RowLabels, Unfinished
<1>4. ASSUME NEW r \in Replicas PROVE req'[q].at # {r}
  BY <1>1, Zenon
<1>5. req'[q].rec.epoch = 0
  BY <1>1, IdleFields DEF Same, NoDevice
<1> QED BY <1>1, <1>3, <1>4, <1>5, Zenon DEF Request, RecRead

\* Ending is quiet.
LEMMA LeaveQuiet ==
  ASSUME TrustInv, GrantInv', NEW q \in Requests, Leave(q), UNCHANGED <<store, db, signed, spent, mem, acked>>
  PROVE  TrustInv' /\ Ordinary(q)
<1>1. Others(q) /\ Request(q)' /\ req'[q].pc \notin Unfinished \cup Issuing
  BY LeftRequest, Zenon DEF Unfinished, Issuing
<1>2. Ordinary(q)
  BY LeftRequest, Zenon DEF Ordinary, RecRead, Pending, Logging
<1> QED BY <1>1, <1>2, QuietKeeps, Zenon
-----------------------------------------------------------------------------
(* The handlers that only read.                                            *)

\* deviceStatus and its look-up in the table.
LEMMA DeviceStatusTrust ==
  ASSUME TrustInv, GrantInv', NEW q \in Requests, NEW r \in Replicas, NEW d \in Devices, DeviceStatus(q, r, d)
  PROVE  TrustInv' /\ Ordinary(q)
<1> DEFINE ask == [Idle EXCEPT !.dev = {d}, !.rec = mem[r].devices[d], !.must = {d} \cap acked[r]]
           label == IF mem[r].devices[d].status # "none" THEN "shown" ELSE "deviceRow"
<1>1. /\ DOMAIN ask = RequestFields /\ ask.dev = {d} /\ ask.grant = {} /\ ask.key = {} /\ ask.id = 0
      /\ ask.rec = mem[r].devices[d] /\ ask.hit = FALSE
  BY IdleFields, Zenon DEF RequestFields
<1>2. Arrive(q, r, label, ask) /\ UNCHANGED <<store, db, signed, spent, mem, acked>>
  BY Zenon DEF DeviceStatus
<1>3. label \in {"shown", "deviceRow"} /\ (label = "deviceRow" => Postgres)
  BY Zenon DEF DeviceStatus
<1>4. mem[r].devices[d] \in Record
  BY DEF TrustInv, StateTypes, Maps
<1> HIDE DEF ask, label
<1>5. Others(q) /\ req'[q].pc = label /\ req'[q].at = {r} /\ Same(req'[q], ask)
  BY <1>1, <1>2, ArriveFacts, Zenon DEF TrustInv, GrantInv
<1>6. RequestRows(q)' /\ \A s \in Replicas : RequestMaps(q, s)'
  BY <1>3, <1>5, Zenon DEF RequestRows, RequestMaps, Unfinished, Issuing
<1>7. /\ req'[q].dev = {d} /\ req'[q].grant = {} /\ req'[q].key = {} /\ req'[q].id = 0
      /\ req'[q].rec \in Record /\ req'[q].hit = FALSE
  BY <1>1, <1>4, <1>5, Zenon DEF Same
<1>8. req'[q].pc \in RowLabels => Postgres'
  BY <1>2, <1>3, <1>5, Zenon DEF RowLabels, Postgres
<1>9. RequestTypes(q)'
  BY <1>3, <1>5, <1>7, <1>8, Zenon DEF RequestTypes
<1>10. Request(q)' /\ req'[q].pc \notin Unfinished \cup Issuing
  BY <1>3, <1>5, <1>6, <1>9, Zenon DEF Request, Unfinished, Issuing
<1>11. Ordinary(q)
  BY <1>1, <1>2, <1>3, <1>5, Zenon DEF Ordinary, RecRead, Pending, Logging, Same
<1> QED BY <1>2, <1>5, <1>10, <1>11, QuietKeeps, Zenon

\* Its look-up in the table.
LEMMA GetDeviceTrust ==
  ASSUME TrustInv, GrantInv', NEW q \in Requests, GetDevice(q)
  PROVE  TrustInv' /\ Ordinary(q)
<1>1. CASE Leave(q)
  BY <1>1, LeaveQuiet, Zenon DEF GetDevice
<1>2. ASSUME NEW d \in Devices, req' = [req EXCEPT ![q].pc = "shown", ![q].rec = db.device[d]] PROVE TrustInv' /\ Ordinary(q)
  <2>1. UNCHANGED <<store, db, signed, spent, mem, acked>> /\ Request(q) /\ req[q].pc = "deviceRow"
    BY Zenon DEF GetDevice, TrustInv
  <2>2. /\ Others(q) /\ req'[q].pc = "shown" /\ req'[q].at = req[q].at /\ req'[q].dev = req[q].dev
        /\ req'[q].grant = req[q].grant /\ req'[q].key = req[q].key /\ req'[q].id = req[q].id
        /\ req'[q].rec = db.device[d] /\ req'[q].hit = req[q].hit
    BY <1>2 DEF TrustInv, GrantInv, Shaped, Others, RequestFields
  <2>3. db.device[d] \in Record
    BY <1>2, Zenon DEF TrustInv, StateTypes, Tables
  <2>4. RequestTypes(q)' /\ RequestRows(q)' /\ \A s \in Replicas : RequestMaps(q, s)'
    BY <2>1, <2>2, <2>3 DEF Request, RequestTypes, RequestRows, RequestMaps, RowLabels, Unfinished, Issuing
  <2>5. Request(q)' /\ req'[q].pc \notin Unfinished \cup Issuing
    BY <2>2, <2>4, Zenon DEF Request, Unfinished, Issuing
  <2>6. Ordinary(q)
    BY <2>1, <2>2, Zenon DEF Ordinary, RecRead, Pending, Logging
  <2> QED BY <2>1, <2>2, <2>5, <2>6, QuietKeeps, Zenon
<1>3. req[q].dev \subseteq Devices
  BY Zenon DEF TrustInv, GrantInv, Shaped
<1> QED BY <1>1, <1>2, <1>3, Zenon DEF GetDevice

\* A grant that the replica verifies against a record of its device is not of
\* a device whose revocation it answered.
LEMMA VerdictSound ==
  ASSUME TrustInv, NEW r \in Replicas, NEW g \in Grants, NEW d \in signed[g].dev, d \in acked[r],
         NEW rec, rec = mem[r].devices[d] \/ (Postgres /\ rec = db.device[d])
  PROVE  ~VerifyGrant(r, g, rec)
<1>1. d \in Devices /\ signed[g].epoch = 0 /\ AckedDevice(r, d) /\ signed[g].key \subseteq Keys
  BY Zenon DEF TrustInv, StateTypes, Content, TablesOK, AckedFor
<1>2. mem[r].devices[d].epoch \in Nat /\ db.device[d].epoch \in Nat
  BY <1>1 DEF TrustInv, StateTypes, Tables, Maps, Record
<1> QED BY <1>1, <1>2 DEF AckedDevice, Forgotten, VerifyGrant

\* verifyGrant, from the map or on the way to the table.
LEMMA VerifyRequestTrust ==
  ASSUME TrustInv, GrantInv', NEW q \in Requests, NEW r \in Replicas, NEW g \in Grants, VerifyRequest(q, r, g)
  PROVE  TrustInv' /\ Ordinary(q)
<1>1. PICK d \in signed[g].dev :
        LET ask == [Idle EXCEPT !.dev = {d}, !.grant = {g}, !.must = {d} \cap acked[r]]
        IN \/ Postgres /\ Arrive(q, r, "verifyRow", ask)
           \/ VerifyGrant(r, g, mem[r].devices[d]) /\ Arrive(q, r, "valid", ask)
           \/ Leave(q)
  BY Zenon DEF VerifyRequest, Verdict
<1> DEFINE ask == [Idle EXCEPT !.dev = {d}, !.grant = {g}, !.must = {d} \cap acked[r]]
<1>2. /\ DOMAIN ask = RequestFields /\ ask.dev = {d} /\ ask.grant = {g} /\ ask.key = {} /\ ask.id = 0
      /\ ask.rec = NoDevice /\ ask.hit = FALSE /\ ask.must = {d} \cap acked[r]
  BY IdleFields, Zenon DEF RequestFields
<1>3. UNCHANGED <<store, db, signed, spent, mem, acked>> /\ d \in Devices
  BY Zenon DEF VerifyRequest, TrustInv, GrantInv, Shaped
<1>4. \/ Postgres /\ Arrive(q, r, "verifyRow", ask)
      \/ VerifyGrant(r, g, mem[r].devices[d]) /\ Arrive(q, r, "valid", ask)
      \/ Leave(q)
  BY <1>1, Zenon
<1> HIDE DEF ask
<1>5. ASSUME NEW label \in {"verifyRow", "valid"}, Arrive(q, r, label, ask), label = "verifyRow" => Postgres,
             label = "valid" => VerifyGrant(r, g, mem[r].devices[d])
      PROVE  TrustInv' /\ Ordinary(q)
  <2>1. Others(q) /\ req'[q].pc = label /\ req'[q].at = {r} /\ Same(req'[q], ask)
    BY <1>2, <1>5, ArriveFacts, Zenon DEF TrustInv, GrantInv
  <2>2. /\ req'[q].dev = {d} /\ req'[q].grant = {g} /\ req'[q].key = {} /\ req'[q].id = 0
        /\ req'[q].rec = NoDevice /\ req'[q].hit = FALSE /\ req'[q].must = {d} \cap acked[r]
    BY <1>2, <2>1, Zenon DEF Same
  <2>3. NoDevice \in Record
    BY Zenon DEF NoDevice, Record, Status
  <2>4. req'[q].pc \in RowLabels => Postgres'
    BY <1>3, <1>5, <2>1, Zenon DEF RowLabels, Postgres
  <2>5. RequestTypes(q)'
    BY <1>3, <1>5, <2>1, <2>2, <2>3, <2>4, Zenon DEF RequestTypes
  <2>6. RequestRows(q)'
    BY <1>5, <2>1, Zenon DEF RequestRows, Unfinished
  <2>7. label = "valid" => d \notin acked[r]
    BY <1>5, VerdictSound, Zenon
  <2>8. RequestMaps(q, r)'
    BY <1>3, <1>5, <2>1, <2>2, <2>7, Zenon DEF RequestMaps, Issuing
  <2>9. \A s \in Replicas : req'[q].at = {s} => s = r
    BY <2>1, Zenon
  <2>10. Request(q)' /\ req'[q].pc \notin Unfinished \cup Issuing
    BY <1>5, <2>1, <2>5, <2>6, <2>8, <2>9, Zenon DEF Request, Unfinished, Issuing
  <2>11. Ordinary(q)
    BY <1>3, <1>5, <2>1, <2>2 DEF Ordinary, RecRead, Pending, Logging, NoDevice
  <2> QED BY <1>3, <2>1, <2>10, <2>11, QuietKeeps, Zenon
<1> QED BY <1>3, <1>4, <1>5, LeaveQuiet, Zenon

\* verifyGrant with the row that it looked up.
LEMMA VerifyAgainstRowTrust ==
  ASSUME TrustInv, GrantInv', NEW q \in Requests, NEW r \in Replicas, VerifyAgainstRow(q, r)
  PROVE  TrustInv' /\ Ordinary(q)
<1>1. /\ UNCHANGED <<store, db, signed, spent, mem, acked>> /\ Request(q) /\ At(q, r, "verifyRow")
      /\ DOMAIN req[q] = RequestFields /\ Postgres
  BY Zenon DEF VerifyAgainstRow, TrustInv, GrantInv, Shaped, At, Request, RequestTypes, RowLabels
<1>2. ASSUME NEW d \in req[q].dev, NEW g \in req[q].grant, VerifyGrant(r, g, db.device[d]), Arrive(q, r, "valid", req[q])
      PROVE  TrustInv' /\ Ordinary(q)
  <2>1. Others(q) /\ req'[q].pc = "valid" /\ req'[q].at = {r} /\ Same(req'[q], req[q])
    BY <1>1, <1>2, ArriveFacts, Zenon DEF TrustInv, GrantInv
  <2>2. req[q].must \subseteq acked[r] \cap {d} /\ d \in Devices /\ g \in Grants
    BY <1>1, Zenon DEF Request, RequestTypes, RequestMaps, At
  <2>3. d \notin acked[r]
    <3>1. SUFFICES ASSUME d \in acked[r] PROVE FALSE BY Zenon
    <3>2. db.device[d].epoch > 0 /\ signed[g].epoch = 0 /\ db.device[d].epoch \in Nat
      BY <1>1, <2>2, <3>1, Zenon DEF TrustInv, TablesOK, AckedFor, AckedDevice, StateTypes, Tables, Record
    <3> QED BY <1>2, <3>2 DEF VerifyGrant
  <2>4. req'[q].must = {}
    BY <2>1, <2>2, <2>3, Zenon DEF Same
  <2>5. RequestTypes(q)'
    BY <1>1, <2>1, Zenon DEF Request, RequestTypes, Same, RowLabels
  <2>6. RequestRows(q)' /\ \A s \in Replicas : RequestMaps(q, s)'
    BY <2>1, <2>4, Zenon DEF RequestRows, RequestMaps, Unfinished, Issuing
  <2>7. Request(q)' /\ req'[q].pc \notin Unfinished \cup Issuing
    BY <2>1, <2>5, <2>6, Zenon DEF Request, Unfinished, Issuing
  <2>8. Ordinary(q)
    BY <1>1, <2>1, Zenon DEF Ordinary, RecRead, Pending, Logging, Same
  <2> QED BY <1>1, <2>1, <2>7, <2>8, QuietKeeps, Zenon
<1> QED BY <1>1, <1>2, LeaveQuiet, Zenon DEF VerifyAgainstRow, Verdict

\* grantStatus, from the map or on the way to the table.
LEMMA GrantStatusTrust ==
  ASSUME TrustInv, GrantInv', NEW q \in Requests, NEW r \in Replicas, NEW g \in Grants, GrantStatus(q, r, g)
  PROVE  TrustInv' /\ Ordinary(q)
<1> DEFINE ask == [Idle EXCEPT !.grant = {g}, !.dev = signed[g].dev, !.hit = g \in mem[r].revoked,
                               !.must = {g} \cap acked[r]]
           label == IF g \in mem[r].grants THEN "judge" ELSE "statusRow"
<1>1. /\ DOMAIN ask = RequestFields /\ ask.dev = signed[g].dev /\ ask.grant = {g} /\ ask.key = {} /\ ask.id = 0
      /\ ask.rec = NoDevice /\ ask.hit = (g \in mem[r].revoked) /\ ask.must = {g} \cap acked[r]
  BY IdleFields, Zenon DEF RequestFields
<1>2. Arrive(q, r, label, ask) /\ UNCHANGED <<store, db, signed, spent, mem, acked>>
  BY Zenon DEF GrantStatus
<1>3. label \in {"judge", "statusRow"} /\ (label = "statusRow" => Postgres) /\ (label = "judge" => g \in mem[r].grants)
  BY Zenon DEF GrantStatus
<1>4. signed[g].dev \subseteq Devices /\ \A d, e \in signed[g].dev : d = e
  BY Zenon DEF TrustInv, StateTypes, Content, TablesOK
<1> HIDE DEF ask, label
<1>5. Others(q) /\ req'[q].pc = label /\ req'[q].at = {r} /\ Same(req'[q], ask)
  BY <1>1, <1>2, ArriveFacts, Zenon DEF TrustInv, GrantInv
<1>6. /\ req'[q].dev = signed[g].dev /\ req'[q].grant = {g} /\ req'[q].key = {} /\ req'[q].id = 0
      /\ req'[q].rec = NoDevice /\ req'[q].hit = (g \in mem[r].revoked) /\ req'[q].must = {g} \cap acked[r]
  BY <1>1, <1>5, Zenon DEF Same
<1>7. NoDevice \in Record
  BY Zenon DEF NoDevice, Record, Status
<1>8. req'[q].pc \in RowLabels => Postgres'
  BY <1>2, <1>3, <1>5, Zenon DEF RowLabels, Postgres
<1>9. RequestTypes(q)'
  BY <1>3, <1>4, <1>5, <1>6, <1>7, <1>8 DEF RequestTypes
<1>10. RequestRows(q)'
  BY <1>3, <1>5, Zenon DEF RequestRows, Unfinished
<1>11. g \in acked[r] /\ g \in mem[r].grants => g \in mem[r].revoked
  BY Zenon DEF TrustInv, AckedFor, AckedGrant
<1>12. RequestMaps(q, r)'
  BY <1>2, <1>3, <1>5, <1>6, <1>11, Zenon DEF RequestMaps, Issuing
<1>13. \A s \in Replicas : req'[q].at = {s} => s = r
  BY <1>5, Zenon
<1>14. Request(q)' /\ req'[q].pc \notin Unfinished \cup Issuing
  BY <1>3, <1>5, <1>9, <1>10, <1>12, <1>13, Zenon DEF Request, Unfinished, Issuing
<1>15. Ordinary(q)
  BY <1>2, <1>3, <1>5, <1>6 DEF Ordinary, RecRead, Pending, Logging, NoDevice
<1> QED BY <1>2, <1>5, <1>14, <1>15, QuietKeeps, Zenon

\* grantStatus with the row that it looked up.
LEMMA GetGrantTrust ==
  ASSUME TrustInv, GrantInv', NEW q \in Requests, GetGrant(q)
  PROVE  TrustInv' /\ Ordinary(q)
<1>1. /\ UNCHANGED <<store, db, signed, spent, mem, acked>> /\ Request(q) /\ req[q].pc = "statusRow" /\ Postgres
  BY Zenon DEF GetGrant, TrustInv, Request, RequestTypes, RowLabels
<1>2. ASSUME NEW g \in req[q].grant, req' = [req EXCEPT ![q].pc = "judge", ![q].hit = @ \/ g \in db.revoked]
      PROVE  TrustInv' /\ Ordinary(q)
  <2>1. /\ Others(q) /\ req'[q].pc = "judge" /\ req'[q].at = req[q].at /\ req'[q].dev = req[q].dev
        /\ req'[q].grant = req[q].grant /\ req'[q].key = req[q].key /\ req'[q].id = req[q].id
        /\ req'[q].rec = req[q].rec /\ req'[q].hit = (req[q].hit \/ g \in db.revoked) /\ req'[q].must = req[q].must
    BY <1>2 DEF TrustInv, GrantInv, Shaped, Others, RequestFields
  <2>2. ASSUME NEW r \in Replicas, req[q].at = {r} PROVE RequestMaps(q, r)'
    <3>1. req[q].must \subseteq acked[r] \cap {g} /\ g \in Grants
      BY <1>1, <2>2, Zenon DEF Request, RequestTypes, RequestMaps
    <3>2. g \in acked[r] => g \in db.revoked
      BY <1>1, <3>1, Zenon DEF TrustInv, AckedFor, AckedGrant
    <3> QED BY <2>1, <3>1, <3>2, Zenon DEF RequestMaps, Issuing
  <2>3. RequestTypes(q)'
    BY <1>1, <2>1, Zenon DEF Request, RequestTypes, RowLabels
  <2>4. RequestRows(q)'
    BY <2>1, Zenon DEF RequestRows, Unfinished
  <2>5. Request(q)' /\ req'[q].pc \notin Unfinished \cup Issuing
    BY <2>1, <2>2, <2>3, <2>4, Zenon DEF Request, Unfinished, Issuing
  <2>6. Ordinary(q)
    BY <1>1, <2>1, Zenon DEF Ordinary, RecRead, Pending, Logging
  <2> QED BY <1>1, <2>1, <2>5, <2>6, QuietKeeps, Zenon
<1> QED BY <1>1, <1>2, LeaveQuiet, Zenon DEF GetGrant

\* grantStatus ends, with what it found.
LEMMA JudgeGrantTrust ==
  ASSUME TrustInv, GrantInv', NEW q \in Requests, NEW r \in Replicas, JudgeGrant(q, r)
  PROVE  TrustInv' /\ Ordinary(q)
<1>1. /\ UNCHANGED <<store, db, signed, spent, mem, acked>> /\ Request(q) /\ At(q, r, "judge")
  BY Zenon DEF JudgeGrant, TrustInv
<1>2. PICK label \in {"revoked", "expired", "active"} : Goto(q, label) /\ (req[q].hit => label = "revoked")
  BY Zenon DEF JudgeGrant
<1>3. Others(q) /\ req'[q].pc = label /\ req'[q].at = req[q].at /\ Same(req'[q], req[q])
  BY <1>2, GotoFacts, Zenon DEF TrustInv, GrantInv
<1>4. RequestTypes(q)'
  BY <1>1, <1>3, <1>2, Zenon DEF Request, RequestTypes, Same, RowLabels, At
<1>5. RequestRows(q)'
  BY <1>2, <1>3, Zenon DEF RequestRows, Unfinished
<1>6. req[q].must # {} => req[q].hit
  BY <1>1, Zenon DEF Request, RequestMaps, At
<1>7. \A s \in Replicas : RequestMaps(q, s)'
  BY <1>2, <1>3, <1>6, Zenon DEF RequestMaps, Issuing, Same
<1>8. Request(q)' /\ req'[q].pc \notin Unfinished \cup Issuing
  BY <1>2, <1>3, <1>4, <1>5, <1>7, Zenon DEF Request, Unfinished, Issuing
<1>9. Ordinary(q)
  BY <1>1, <1>2, <1>3, Zenon DEF Ordinary, RecRead, Pending, Logging, Same
<1> QED BY <1>1, <1>3, <1>8, <1>9, QuietKeeps, Zenon
-----------------------------------------------------------------------------
(* The handlers that write.                                                *)

\* Where maps and grants stay and the request is not about to issue a grant,
\* nothing comes back.
LEMMA NothingReturns ==
  ASSUME NEW q \in Requests, Others(q), req'[q].pc \notin {"sign"} \cup Issuing, UNCHANGED <<mem, signed>>,
         NEW s \in Replicas
  PROVE  NoReturn(s)
  BY Zenon DEF NoReturn, Others, Get

\* submitDevice: a row that is there keeps status and epoch.
LEMMA SubmitDeviceTrust ==
  ASSUME TrustInv, GrantInv', NEW q \in Requests, NEW r \in Replicas, NEW d \in Devices, SubmitDevice(q, r, d)
  PROVE  TrustInv' /\ Ordinary(q)
<1> DEFINE ask == [Idle EXCEPT !.dev = {d}]
<1>1. /\ DOMAIN ask = RequestFields /\ ask.dev = {d} /\ ask.grant = {} /\ ask.key = {} /\ ask.id = 0
      /\ ask.rec = NoDevice /\ ask.hit = FALSE
  BY IdleFields, Zenon DEF RequestFields
<1>2. Arrive(q, r, "submitMap", ask) /\ UNCHANGED <<store, signed, spent, mem, acked>>
  BY Zenon DEF SubmitDevice
<1> HIDE DEF ask
<1>3. Others(q) /\ req'[q].pc = "submitMap" /\ req'[q].at = {r} /\ Same(req'[q], ask)
  BY <1>1, <1>2, ArriveFacts, Zenon DEF TrustInv, GrantInv
<1>4. /\ req'[q].dev = {d} /\ req'[q].grant = {} /\ req'[q].key = {} /\ req'[q].id = 0
      /\ req'[q].rec \in Record /\ req'[q].hit = FALSE
  BY <1>1, <1>3 DEF Same, NoDevice, Record, Status
<1>5. RequestTypes(q)'
  BY <1>3, <1>4, Zenon DEF RequestTypes, RowLabels
<1>6. RequestRows(q)' /\ \A s \in Replicas : RequestMaps(q, s)'
  BY <1>3, Zenon DEF RequestRows, RequestMaps, Unfinished, Issuing
<1>7. Request(q)'
  BY <1>5, <1>6, Zenon DEF Request
<1>8. db \in Tables /\ db.device[d] \in Record /\ (~db.device[d].known => db.device[d].epoch = 0)
  BY Zenon DEF TrustInv, StateTypes, Tables, TablesOK
<1>9. /\ db' \in Tables /\ db'.stored = db.stored /\ db'.revoked = db.revoked /\ db'.feed = db.feed
      /\ \A c \in Devices : /\ db'.device[c].epoch = db.device[c].epoch
                            /\ db.device[c].known => db'.device[c].known
  <2>1. CASE db' = db
    BY <1>8, <2>1, Zenon
  <2>2. CASE ~db.device[d].known /\ db' = [db EXCEPT !.device[d] = [known |-> TRUE, status |-> "submitted", epoch |-> 0]]
    BY <1>8, <2>2, Zenon DEF Tables, Record, Status
  <2> QED BY <2>1, <2>2, Zenon DEF SubmitDevice
<1>10. StateTypes' /\ \A s \in Replicas : Grows(s)
  BY <1>2, <1>9, Zenon DEF TrustInv, StateTypes, Grows, Get
<1>11. TablesOK'
  BY <1>2, <1>9, Zenon DEF TrustInv, TablesOK
<1>12. MayStep(q)
  <2>1. ASSUME NEW s \in Replicas PROVE NoReturn(s)
    BY <1>2, <1>3, NothingReturns, Zenon DEF Issuing
  <2> QED BY <1>2, <1>3, <1>7, <1>10, <2>1, Zenon DEF MayStep, Unfinished
<1>13. RingsApart' /\ \A s \in Replicas : MapsOK(s)'
  BY <1>2, SameMaps, Zenon
<1>14. Ordinary(q)
  BY <1>1, <1>2, <1>3, <1>9 DEF Ordinary, RecRead, Pending, Logging, Same, NoDevice
<1> QED BY <1>2, <1>10, <1>11, <1>12, <1>13, <1>14, StepKeeps, Zenon

\* A handler that writes one entry of a replica's devices map, and perhaps its log.
EntryFor(r, d, e, l) ==
    /\ mem' \in [Replicas -> Maps] /\ \A s \in Replicas : s # r => mem'[s] = mem[s]
    /\ mem'[r].grants = mem[r].grants /\ mem'[r].revoked = mem[r].revoked
    /\ mem'[r].ring = mem[r].ring /\ mem'[r].log = l
    /\ mem'[r].devices[d] = e /\ \A c \in Devices : c # d => mem'[r].devices[c] = mem[r].devices[c]

\* The update in that form.
LEMMA EntryWritten ==
  ASSUME NEW r \in Replicas, NEW d \in Devices, NEW e \in Record, mem \in [Replicas -> Maps],
         mem' = [mem EXCEPT ![r].devices[d] = e]
  PROVE  EntryFor(r, d, e, mem[r].log)
<1> DEFINE new == [mem[r] EXCEPT !.devices = [mem[r].devices EXCEPT ![d] = e]]
<1>1. /\ new \in Maps /\ new.grants = mem[r].grants /\ new.revoked = mem[r].revoked
      /\ new.ring = mem[r].ring /\ new.log = mem[r].log /\ new.devices[d] = e
      /\ \A c \in Devices : c # d => new.devices[c] = mem[r].devices[c]
  BY Zenon DEF Maps
<1>2. mem' = [mem EXCEPT ![r] = new]
  BY Zenon
<1> HIDE DEF new
<1> QED BY <1>1, <1>2, Zenon DEF EntryFor

\* What it leaves of the facts about maps and rings.
LEMMA EntrySet ==
  ASSUME TrustInv, NEW r \in Replicas, NEW d \in Devices, NEW e \in Record, NEW l \in Seq(Ids),
         EntryFor(r, d, e, l), UNCHANGED signed, spent \subseteq spent',
         e.status # "revoked" => e.epoch = 0, mem[r].devices[d].epoch > 0 => e.epoch > 0,
         \A n \in DOMAIN l : l[n] \in spent'
  PROVE  /\ mem' \in [Replicas -> Maps] /\ RingsApart' /\ mem'[r].devices[d] = e
         /\ \A s \in Replicas :
               /\ MapsOK(s)' /\ mem'[s].revoked = mem[s].revoked /\ mem'[s].grants = mem[s].grants
               /\ mem'[s].ring = mem[s].ring
               /\ \A c \in Devices : mem[s].devices[c].epoch > 0 => mem'[s].devices[c].epoch > 0
<1>1. \A s \in Replicas : /\ mem'[s].revoked = mem[s].revoked /\ mem'[s].grants = mem[s].grants
                          /\ mem'[s].ring = mem[s].ring
  BY Zenon DEF EntryFor
<1>2. \A s \in Replicas, c \in Devices : mem[s].devices[c].epoch > 0 => mem'[s].devices[c].epoch > 0
  BY Zenon DEF EntryFor
<1>3. RingsApart'
  BY <1>1 DEF TrustInv, RingsApart, Get
<1>4. ASSUME NEW s \in Replicas PROVE MapsOK(s)'
  <2>1. MapsOK(s) BY Zenon DEF TrustInv
  <2>2. Active(s)' = Active(s) BY <1>1, Zenon DEF Active
  <2>3. \A g \in mem'[s].grants : Findable(g, s)'
    BY <1>1, <2>1, Zenon DEF MapsOK, Findable, Get
  <2>4. \A c \in Devices : mem'[s].devices[c].status # "revoked" => mem'[s].devices[c].epoch = 0
    BY <2>1, Zenon DEF MapsOK, EntryFor
  <2>5. \A n \in DOMAIN mem'[s].log : mem'[s].log[n] \in spent'
    BY <2>1, Zenon DEF MapsOK, EntryFor
  <2> QED BY <2>1, <2>2, <2>3, <2>4, <2>5, Zenon DEF MapsOK
<1> QED BY <1>1, <1>2, <1>3, <1>4, Zenon DEF EntryFor

\* submitDevice ends: the entry in the map.
LEMMA RecordSubmittedTrust ==
  ASSUME TrustInv, GrantInv', NEW q \in Requests, NEW r \in Replicas, RecordSubmitted(q, r)
  PROVE  TrustInv' /\ Ordinary(q)
<1> DEFINE rec(d) == mem[r].devices[d]
           status(d) == IF rec(d).status = "none" THEN "submitted" ELSE rec(d).status
           entry(d) == [rec(d) EXCEPT !.known = TRUE, !.status = status(d)]
<1>1. PICK d \in Devices : mem' = [mem EXCEPT ![r].devices[d] = entry(d)]
  BY Zenon DEF RecordSubmitted, TrustInv, GrantInv, Shaped
<1>2. Leave(q) /\ UNCHANGED <<store, db, signed, spent, acked>>
  BY Zenon DEF RecordSubmitted
<1>3. mem \in [Replicas -> Maps] /\ mem[r].devices[d] \in Record /\ mem[r].log \in Seq(Ids) /\ MapsOK(r)
  BY Zenon DEF TrustInv, StateTypes, Maps
<1> DEFINE old == rec(d)
           e == entry(d)
<1>4. EntryFor(r, d, e, mem[r].log)
  <2>1. e \in Record
    BY <1>3, Zenon DEF Record, Status
  <2>2. mem' = [mem EXCEPT ![r].devices[d] = e]
    BY <1>1, Zenon
  <2> HIDE DEF e
  <2> QED BY <1>3, <2>1, <2>2, EntryWritten, Zenon
<1>5. /\ e \in Record /\ e.epoch = old.epoch /\ (e.status # "revoked" => e.epoch = 0)
      /\ \A n \in DOMAIN mem[r].log : mem[r].log[n] \in spent'
  BY <1>2, <1>3, Zenon DEF Record, Status, MapsOK
<1> HIDE DEF e
<1>6. /\ mem' \in [Replicas -> Maps] /\ RingsApart'
      /\ \A s \in Replicas :
            /\ MapsOK(s)' /\ mem'[s].revoked = mem[s].revoked /\ mem'[s].grants = mem[s].grants
            /\ mem'[s].ring = mem[s].ring
            /\ \A c \in Devices : mem[s].devices[c].epoch > 0 => mem'[s].devices[c].epoch > 0
  BY <1>2, <1>3, <1>4, <1>5, EntrySet, Zenon
<1>7. Others(q) /\ Request(q)' /\ req'[q].pc = "idle" /\ req'[q].at = {}
  BY <1>2, LeftRequest, Zenon
<1>8. StateTypes' /\ \A s \in Replicas : Grows(s)
  BY <1>2, <1>6, Zenon DEF TrustInv, StateTypes, Grows, Get
<1>9. ASSUME NEW s \in Replicas PROVE NoReturn(s)
  BY <1>2, <1>6, <1>7, Zenon DEF NoReturn, Others, Get, Issuing
<1>10. MayStep(q)
  BY <1>2, <1>7, <1>8, <1>9, Zenon DEF MayStep, Unfinished
<1>11. TablesOK'
  BY <1>2, SameTables, Zenon
<1>12. Ordinary(q)
  <2>1. req'[q].rec.epoch = 0
    BY <1>2, LeftRequest, Zenon
  <2> QED BY <1>2, <1>4, <1>5, <1>7, <2>1, Zenon DEF Ordinary, RecRead, Pending, Logging, EntryFor
<1> QED BY <1>2, <1>6, <1>8, <1>10, <1>11, <1>12, StepKeeps, Zenon

\* authorizeDevice in the map: only a device of epoch 0 goes on to be signed for,
\* with a grant no other request issues.
LEMMA AuthorizeInMapTrust ==
  ASSUME TrustInv, GrantInv', NEW q \in Requests, NEW r \in Replicas, NEW d \in Devices, AuthorizeInMap(q, r, d)
  PROVE  TrustInv' /\ Ordinary(q)
<1>1. mem \in [Replicas -> Maps] /\ mem[r].devices[d] \in Record /\ mem[r].log \in Seq(Ids) /\ MapsOK(r) /\ db.device[d] \in Record
  BY SMTT(30) DEF TrustInv, StateTypes, Maps, Tables
<1> DEFINE found == Lookup(r, d)
           e == [found EXCEPT !.status = "authorized"]
           label == IF Postgres THEN "authorizeRow" ELSE "sign"
<1>2. found \in Record /\ found.epoch = 0 /\ (mem[r].devices[d].epoch > 0 => FALSE)
  <2>1. found.status # "revoked" BY Zenon DEF AuthorizeInMap
  <2>2. db.device[d].status # "revoked" => db.device[d].epoch = 0
    BY Zenon DEF TrustInv, GrantInv, RowsOK
  <2>3. mem[r].devices[d].status # "revoked" => mem[r].devices[d].epoch = 0
    BY <1>1, Zenon DEF MapsOK
  <2> QED BY <1>1, <2>1, <2>2, <2>3 DEF Lookup, Record
<1>3. PICK g \in Unsigned : Arrive(q, r, label, [Idle EXCEPT !.dev = {d}, !.grant = {g}, !.rec = found])
  BY Zenon DEF AuthorizeInMap
<1>4. UNCHANGED <<store, db, signed, spent, acked>>
  BY Zenon DEF AuthorizeInMap
<1>5. mem' = [mem EXCEPT ![r].devices[d] = e]
  BY Zenon DEF AuthorizeInMap
<1> HIDE DEF found
<1>6. e \in Record /\ e.epoch = 0
  BY <1>2, Zenon DEF Record, Status
<1> HIDE DEF e
<1>7. EntryFor(r, d, e, mem[r].log)
  BY <1>1, <1>5, <1>6, EntryWritten, Zenon
<1>8. \A n \in DOMAIN mem[r].log : mem[r].log[n] \in spent'
  BY <1>1, <1>4, Zenon DEF MapsOK
<1>9. /\ mem' \in [Replicas -> Maps] /\ RingsApart'
      /\ \A s \in Replicas :
            /\ MapsOK(s)' /\ mem'[s].revoked = mem[s].revoked /\ mem'[s].grants = mem[s].grants
            /\ mem'[s].ring = mem[s].ring
            /\ \A c \in Devices : mem[s].devices[c].epoch > 0 => mem'[s].devices[c].epoch > 0
  BY <1>1, <1>2, <1>4, <1>6, <1>7, <1>8, EntrySet, Zenon
<1> DEFINE ask == [Idle EXCEPT !.dev = {d}, !.grant = {g}, !.rec = found]
<1>10. /\ DOMAIN ask = RequestFields /\ ask.dev = {d} /\ ask.grant = {g} /\ ask.key = {} /\ ask.id = 0
       /\ ask.rec = found /\ ask.hit = FALSE /\ ask.must = {}
  BY IdleFields, Zenon DEF RequestFields
<1>11. Arrive(q, r, label, ask)
  BY <1>3, Zenon
<1>12. label \in Unfinished /\ (Postgres => label = "authorizeRow")
  BY Zenon DEF Unfinished
<1> HIDE DEF ask, label
<1>13. Others(q) /\ req'[q].pc = label /\ req'[q].at = {r} /\ Same(req'[q], ask)
  BY <1>10, <1>11, ArriveFacts, Zenon DEF TrustInv, GrantInv
<1>14. /\ req'[q].dev = {d} /\ req'[q].grant = {g} /\ req'[q].key = {} /\ req'[q].id = 0
       /\ req'[q].rec = found /\ req'[q].hit = FALSE /\ req'[q].must = {}
  BY <1>10, <1>13, Zenon DEF Same
<1>15. g \in Grants /\ signed[g].key = {} /\ \A p \in Requests : g \notin req[p].grant
  BY DEF Unsigned, NotSigned
<1>16. label = "authorizeRow" => Postgres
  <2>1. label = IF Postgres THEN "authorizeRow" ELSE "sign" BY Zenon DEF label
  <2> QED BY <2>1, Zenon
<1>17. req'[q].pc \in RowLabels => Postgres'
  BY <1>4, <1>12, <1>13, <1>16, Zenon DEF RowLabels, Unfinished, Postgres
<1>18. RequestTypes(q)'
  BY <1>2, <1>12, <1>13, <1>14, <1>15, <1>17, Zenon DEF RequestTypes, Unfinished
<1>19. RequestRows(q)' /\ \A s \in Replicas : RequestMaps(q, s)'
  <2>1. req'[q].pc \in {"authorizeRow", "sign"} /\ req'[q].rec.epoch = 0 /\ \A h \in req'[q].grant : signed'[h].key = {}
    BY <1>2, <1>4, <1>12, <1>13, <1>14, <1>15, Zenon DEF Unfinished
  <2> QED BY <2>1, Zenon DEF RequestRows, RequestMaps, Issuing
<1>20. Request(q)'
  BY <1>18, <1>19, Zenon DEF Request
<1>21. StateTypes' /\ \A s \in Replicas : Grows(s)
  BY <1>4, <1>9, Zenon DEF TrustInv, StateTypes, Grows, Get
<1>22. ASSUME NEW s \in Replicas PROVE NoReturn(s)
  <2>1. req'[q].pc \notin Issuing /\ (Postgres => req'[q].pc # "sign")
    BY <1>12, <1>13, Zenon DEF Unfinished, Issuing
  <2> QED BY <1>4, <1>9, <1>13, <2>1, Zenon DEF NoReturn, Others, Get
<1>23. MayStep(q)
  BY <1>4, <1>13, <1>14, <1>15, <1>20, <1>21, <1>22, Zenon DEF MayStep
<1>24. TablesOK'
  BY <1>4, SameTables, Zenon
<1>25. Ordinary(q)
  <2>1. mem[r].devices[d].epoch = 0
    BY <1>1, <1>2, SMTT(30) DEF Record
  <2> QED BY <1>2, <1>4, <1>6, <1>7, <1>12, <1>13, <1>14, <2>1, Zenon DEF Ordinary, RecRead, Pending, Logging, Unfinished, EntryFor
<1> QED BY <1>4, <1>9, <1>21, <1>23, <1>24, <1>25, StepKeeps, Zenon

\* What an id drawn for the log adds to it.
LEMMA LoggedFacts ==
  ASSUME NEW l \in Seq(Ids), NEW i \in Ids, NEW S, i \in S, \A n \in DOMAIN l : l[n] \in S
  PROVE  Logged(l, i) \in Seq(Ids) /\ \A n \in DOMAIN Logged(l, i) : Logged(l, i)[n] \in S
  BY DEF Logged

\* revokeDevice in the map: the epoch rises, and without tables that is the answer.
LEMMA RevokeInMapTrust ==
  ASSUME TrustInv, GrantInv', NEW q \in Requests, NEW r \in Replicas, NEW d \in Devices, RevokeInMap(q, r, d)
  PROVE  TrustInv' /\ Advances(q)
<1> DEFINE old == mem[r].devices[d]
           e == [old EXCEPT !.status = "revoked", !.epoch = old.epoch + 1]
           l(i) == Logged(mem[r].log, i)
           new(i) == [mem[r] EXCEPT !.devices = [mem[r].devices EXCEPT ![d] = e], !.log = l(i)]
<1>0. PICK i \in Ids \ spent :
         /\ spent' = spent \cup {i}
         /\ mem' = [mem EXCEPT ![r].devices[d] = [@ EXCEPT !.status = "revoked", !.epoch = mem[r].devices[d].epoch + 1],
                               ![r].log = Logged(@, i)]
         /\ IF Postgres THEN Arrive(q, r, "revokeRow", [Idle EXCEPT !.dev = {d}, !.id = i]) /\ UNCHANGED acked
                        ELSE acked' = [acked EXCEPT ![r] = @ \cup {d}] /\ UNCHANGED req
  BY Zenon DEF RevokeInMap
<1>1. /\ i \in Ids /\ i \notin spent /\ spent' = spent \cup {i}
      /\ mem' = [mem EXCEPT ![r] = new(i)]
      /\ \/ /\ Postgres /\ UNCHANGED acked
            /\ Arrive(q, r, "revokeRow", [Idle EXCEPT !.dev = {d}, !.id = i])
         \/ ~Postgres /\ acked' = [acked EXCEPT ![r] = @ \cup {d}] /\ UNCHANGED req
  BY <1>0, Zenon
<1>2. UNCHANGED <<store, db, signed>>
  BY Zenon DEF RevokeInMap
<1>3. mem \in [Replicas -> Maps] /\ mem[r] \in Maps /\ old \in Record /\ mem[r].log \in Seq(Ids) /\ MapsOK(r)
  BY DEF TrustInv, StateTypes, Maps
<1>4. e \in Record /\ e.status = "revoked" /\ e.epoch > 0 /\ e.epoch = mem[r].devices[d].epoch + 1
  <2> HIDE DEF old
  <2>1. old.epoch + 1 \in Nat /\ old.epoch + 1 > 0
    BY <1>3 DEF Record
  <2>2. ASSUME NEW f \in Record, NEW n \in Nat
        PROVE  [f EXCEPT !.epoch = n] \in Record /\ [f EXCEPT !.epoch = n].epoch = n /\ [f EXCEPT !.epoch = n].status = f.status
    BY Zenon DEF Record
  <2> DEFINE f == [old EXCEPT !.status = "revoked"]
  <2>3. f \in Record /\ f.status = "revoked"
    BY <1>3, Zenon DEF Record, Status
  <2>4. e = [f EXCEPT !.epoch = old.epoch + 1]
    BY Zenon
  <2> HIDE DEF e, f
  <2>5. e \in Record /\ e.status = "revoked" /\ e.epoch = old.epoch + 1
    BY <2>1, <2>2, <2>3, <2>4, Zenon
  <2>6. old.epoch = mem[r].devices[d].epoch
    BY Zenon DEF old
  <2> QED BY <2>1, <2>5, <2>6, Zenon
<1>5. l(i) \in Seq(Ids) /\ \A n \in DOMAIN l(i) : l(i)[n] \in spent'
  <2>1. \A n \in DOMAIN mem[r].log : mem[r].log[n] \in spent'
    BY <1>1, <1>3, Zenon DEF MapsOK
  <2>2. i \in spent' BY <1>1, Zenon
  <2>3. ASSUME NEW S, i \in S, \A n \in DOMAIN mem[r].log : mem[r].log[n] \in S
        PROVE  Logged(mem[r].log, i) \in Seq(Ids) /\ \A n \in DOMAIN Logged(mem[r].log, i) : Logged(mem[r].log, i)[n] \in S
    BY <1>3, <2>3, LoggedFacts, Zenon
  <2> QED BY <2>1, <2>2, <2>3, Zenon
<1> HIDE DEF e, l
<1>6. EntryFor(r, d, e, l(i))
  <2>1. /\ new(i) \in Maps /\ new(i).grants = mem[r].grants /\ new(i).revoked = mem[r].revoked
        /\ new(i).ring = mem[r].ring /\ new(i).log = l(i) /\ new(i).devices[d] = e
        /\ \A c \in Devices : c # d => new(i).devices[c] = mem[r].devices[c]
    BY <1>3, <1>4, <1>5, Zenon DEF Maps
  <2>2. mem' = [mem EXCEPT ![r] = new(i)]
    BY <1>1, Zenon
  <2> HIDE DEF new
  <2> QED BY <1>3, <2>1, <2>2, Zenon DEF EntryFor
<1>7. /\ mem' \in [Replicas -> Maps] /\ RingsApart' /\ mem'[r].devices[d] = e
      /\ \A s \in Replicas :
            /\ MapsOK(s)' /\ mem'[s].revoked = mem[s].revoked /\ mem'[s].grants = mem[s].grants
            /\ mem'[s].ring = mem[s].ring
            /\ \A c \in Devices : mem[s].devices[c].epoch > 0 => mem'[s].devices[c].epoch > 0
  BY <1>1, <1>2, <1>4, <1>5, <1>6, EntrySet, Zenon
<1>8. TablesOK'
  BY <1>1, <1>2, SameTables, Zenon
<1>8a. ASSUME Drawn(q), \A p \in Requests : RecRead(p),
              \A p \in Requests : req'[p].pc \in Logging => req'[p].id # i
       PROVE  Advances(q)
  <2>1. ASSUME NEW s \in Replicas PROVE LogStep(s)
    <3>1. CASE s # r \/ Postgres
      BY <1>6, <3>1, Zenon DEF EntryFor, LogStep, l, Logged
    <3>2. CASE s = r /\ ~Postgres
      <4>1. mem'[r].log = Append(mem[r].log, i)
        BY <1>6, <3>2, Zenon DEF EntryFor, l, Logged
      <4>2. \A n \in DOMAIN mem[r].log : mem[r].log[n] # i
        BY <1>1, <1>3, Zenon DEF MapsOK
      <4> QED BY <1>8a, <3>2, <4>1, <4>2, Zenon DEF LogStep
    <3> QED BY <3>1, <3>2, Zenon
  <2>2. ASSUME NEW s \in Replicas, NEW c \in Devices
        PROVE  \/ mem'[s].devices[c].epoch <= mem[s].devices[c].epoch
               \/ mem'[s].devices[c].epoch <= mem[s].devices[c].epoch + 1 /\ spent' # spent
    <3>1. mem[s].devices[c].epoch \in Nat
      BY MapEpochs, Zenon
    <3>2. mem'[s].devices[c].epoch = mem[s].devices[c].epoch \/ mem'[s].devices[c].epoch = mem[s].devices[c].epoch + 1
      BY <1>4, <1>6, Zenon DEF EntryFor
    <3>3. spent' # spent BY <1>1, Zenon
    <3> QED BY <3>1, <3>2, <3>3
  <2> QED BY <1>1, <1>2, <1>8a, <2>1, <2>2, Zenon DEF Advances
<1>9. CASE Postgres
  <2> DEFINE ask == [Idle EXCEPT !.dev = {d}, !.id = i]
  <2>1. /\ DOMAIN ask = RequestFields /\ ask.dev = {d} /\ ask.grant = {} /\ ask.key = {} /\ ask.id = i
        /\ ask.rec = NoDevice /\ ask.hit = FALSE
    BY IdleFields, Zenon DEF RequestFields
  <2>2. Arrive(q, r, "revokeRow", ask) /\ UNCHANGED acked
    BY <1>1, <1>9, Zenon
  <2> HIDE DEF ask
  <2>3. Others(q) /\ req'[q].pc = "revokeRow" /\ req'[q].at = {r} /\ Same(req'[q], ask)
    BY <2>1, <2>2, ArriveFacts, Zenon DEF TrustInv, GrantInv
  <2>4. /\ req'[q].dev = {d} /\ req'[q].grant = {} /\ req'[q].key = {} /\ req'[q].id \in spent'
        /\ req'[q].rec \in Record /\ req'[q].hit = FALSE
    BY <1>1, <2>1, <2>3 DEF Same, NoDevice, Record, Status
  <2>5. RequestTypes(q)'
    BY <1>2, <1>9, <2>3, <2>4, Zenon DEF RequestTypes, RowLabels, Postgres
  <2>6. RequestRows(q)'
    BY <2>3, Zenon DEF RequestRows, Unfinished
  <2>7. RequestMaps(q, r)'
    BY <1>4, <1>7, <2>3, <2>4, Zenon DEF RequestMaps, Issuing
  <2>8. \A s \in Replicas : req'[q].at = {s} => s = r
    BY <2>3, Zenon
  <2>9. Request(q)'
    BY <2>5, <2>6, <2>7, <2>8, Zenon DEF Request
  <2>10. StateTypes' /\ \A s \in Replicas : Grows(s)
    BY <1>1, <1>2, <1>7, <2>2, Zenon DEF TrustInv, StateTypes, Grows, Get
  <2>11. ASSUME NEW s \in Replicas PROVE NoReturn(s)
    BY <1>2, <1>7, <2>3, Zenon DEF NoReturn, Others, Get, Issuing
  <2>12. MayStep(q)
    BY <1>1, <1>2, <2>3, <2>9, <2>10, <2>11, Zenon DEF MayStep, Unfinished
  <2>13. Advances(q)
    <3>1. req'[q].id = i /\ RecRead(q)
      BY <2>1, <2>3, NoDeviceFields, Zenon DEF Same, RecRead
    <3>2. Drawn(q) /\ \A p \in Requests : RecRead(p)
      BY <1>1, <2>3, <3>1, DrawnBy, Zenon
    <3>3. \A p \in Requests : req'[p].pc \in Logging => req'[p].id # i
      BY <1>1, <2>3 DEF Logging, Others, TrustInv, Request, RequestTypes
    <3> QED BY <1>8a, <3>2, <3>3, Zenon
  <2> QED BY <1>7, <1>8, <2>2, <2>10, <2>12, <2>13, StepKeeps, Zenon
<1>10. CASE ~Postgres
  <2>1. UNCHANGED req /\ acked' = [acked EXCEPT ![r] = @ \cup {d}] /\ spent \subseteq spent'
    BY <1>1, <1>10, Zenon
  <2>2. StateTypes' /\ \A s \in Replicas : Grows(s)
    BY <1>1, <1>2, <1>7, <1>10, <2>1, Zenon DEF TrustInv, StateTypes, Grows, Get
  <2>3. Others(q)
    BY <2>1, Zenon DEF TrustInv, GrantInv, Shaped, Others
  <2>4. Request(q)'
    BY <1>2, <2>1, <2>2, RequestStays, Zenon DEF TrustInv
  <2>5. ASSUME NEW s \in Replicas PROVE NoReturn(s)
    BY <1>2, <1>7, <2>1, Zenon DEF NoReturn, Get
  <2>6. MayStep(q)
    BY <1>2, <2>1, <2>2, <2>3, <2>4, <2>5, Zenon DEF MayStep
  <2>7. AckedFor(r, d)'
    BY <1>2, <1>4, <1>7, <1>10, TrustConstants, Zenon DEF AckedFor, AckedDevice, Postgres
  <2>8. \A s \in Replicas : \A x \in acked'[s] \ acked[s] : s = r /\ x = d
    BY <2>1, Zenon DEF TrustInv, StateTypes
  <2>9. Advances(q)
    <3>1. Drawn(q) /\ \A p \in Requests : RecRead(p)
      BY <2>1, Zenon DEF Drawn, RecRead
    <3>2. \A p \in Requests : req'[p].pc \in Logging => req'[p].id # i
      BY <1>1, <2>1 DEF Logging, TrustInv, Request, RequestTypes
    <3> QED BY <1>8a, <3>1, <3>2, Zenon
  <2> QED BY <1>7, <1>8, <2>2, <2>6, <2>7, <2>8, <2>9, StepKeeps, Zenon
<1> QED BY <1>9, <1>10, Zenon

\* A row that stays the same but for its status.
LEMMA RowStatus ==
  ASSUME NEW d \in Devices, NEW st \in Status, db \in Tables, db' = [db EXCEPT !.device[d].status = st]
  PROVE  /\ db' \in Tables /\ db'.stored = db.stored /\ db'.revoked = db.revoked /\ db'.feed = db.feed
         /\ \A c \in Devices : db'.device[c].epoch = db.device[c].epoch /\ db'.device[c].known = db.device[c].known
<1> DEFINE row == [db.device[d] EXCEPT !.status = st]
           rows == [db.device EXCEPT ![d] = row]
<1>1. row \in Record /\ row.epoch = db.device[d].epoch /\ row.known = db.device[d].known
  BY Zenon DEF Tables, Record
<1>2. db' = [db EXCEPT !.device = rows]
  BY Zenon
<1> HIDE DEF row
<1>3. /\ rows \in [Devices -> Record]
      /\ \A c \in Devices : rows[c].epoch = db.device[c].epoch /\ rows[c].known = db.device[c].known
  BY <1>1, Zenon DEF Tables
<1> HIDE DEF rows
<1> QED BY <1>2, <1>3, Zenon DEF Tables

\* AuthorizeDevice: what it returns to be signed has epoch 0.
LEMMA AuthorizeDeviceTrust ==
  ASSUME TrustInv, GrantInv', NEW q \in Requests, AuthorizeDevice(q)
  PROVE  TrustInv' /\ Ordinary(q)
<1>1. /\ UNCHANGED <<store, signed, spent, mem, acked>> /\ req[q].pc = "authorizeRow" /\ Request(q)
      /\ req[q].dev \subseteq Devices /\ db \in Tables
  BY Zenon DEF AuthorizeDevice, TrustInv, GrantInv, Shaped, StateTypes
<1>2. CASE Leave(q) /\ UNCHANGED db
  BY <1>1, <1>2, LeaveQuiet, Zenon
<1>3. ASSUME NEW d \in req[q].dev, db.device[d].status # "revoked", db' = [db EXCEPT !.device[d].status = "authorized"],
             req' = [req EXCEPT ![q].pc = "sign", ![q].rec = db'.device[d]]
      PROVE  TrustInv' /\ Ordinary(q)
  <2>1. /\ db' \in Tables /\ db'.stored = db.stored /\ db'.revoked = db.revoked /\ db'.feed = db.feed
        /\ \A c \in Devices : db'.device[c].epoch = db.device[c].epoch /\ db'.device[c].known = db.device[c].known
    BY <1>1, <1>3, RowStatus, Zenon DEF Status
  <2>2. /\ Others(q) /\ req'[q].pc = "sign" /\ req'[q].at = req[q].at /\ req'[q].dev = req[q].dev
        /\ req'[q].grant = req[q].grant /\ req'[q].key = req[q].key /\ req'[q].id = req[q].id
        /\ req'[q].rec = db'.device[d] /\ req'[q].hit = req[q].hit
    BY <1>3, SMTT(30) DEF TrustInv, GrantInv, Shaped, Others, RequestFields
  <2>3. db'.device[d] \in Record /\ db'.device[d].epoch = 0 /\ db.device[d].epoch = 0
    BY <1>1, <1>3, <2>1, Zenon DEF Tables, TrustInv, GrantInv, RowsOK
  <2>4. RequestTypes(q)'
    BY <1>1, <2>2, <2>3, Zenon DEF Request, RequestTypes, RowLabels
  <2>5. RequestRows(q)' /\ \A s \in Replicas : RequestMaps(q, s)'
    BY <1>1, <2>2, <2>3, Zenon DEF Request, RequestRows, RequestMaps, Unfinished, Issuing
  <2>6. Request(q)'
    BY <2>4, <2>5, Zenon DEF Request
  <2>7. StateTypes' /\ \A s \in Replicas : Grows(s)
    BY <1>1, <2>1, Zenon DEF TrustInv, StateTypes, Grows, Get
  <2>8. \A c \in req'[q].dev : db.device[c].epoch = 0
    BY <1>1, <2>2, <2>3, Zenon DEF Request, RequestTypes
  <2>9. ASSUME NEW s \in Replicas PROVE NoReturn(s)
    BY <1>1, <2>2, <2>8, Zenon DEF NoReturn, Others, Get, Issuing
  <2>10. MayStep(q)
    BY <1>1, <2>2, <2>6, <2>7, <2>9, Zenon DEF MayStep, Unfinished
  <2>11. TablesOK'
    BY <1>1, <2>1, Zenon DEF TrustInv, TablesOK
  <2>12. RingsApart' /\ \A s \in Replicas : MapsOK(s)'
    BY <1>1, SameMaps, Zenon
  <2>13. Ordinary(q)
    BY <1>1, <2>1, <2>2, <2>3, Zenon DEF Ordinary, RecRead, Pending, Logging
  <2> QED BY <1>1, <2>7, <2>10, <2>11, <2>12, <2>13, StepKeeps, Zenon
<1> QED BY <1>1, <1>2, <1>3, Zenon DEF AuthorizeDevice

\* SignGrant: the grant was unsigned, and the key is one of the replica's own.
LEMMA SignGrantTrust ==
  ASSUME TrustInv, GrantInv', NEW q \in Requests, NEW r \in Replicas, SignGrant(q, r)
  PROVE  TrustInv' /\ Ordinary(q)
<1> DEFINE label == IF Postgres THEN "storeGrant" ELSE "publishGrant"
           content(k) == [dev |-> req[q].dev, key |-> {k}, epoch |-> req[q].rec.epoch, expired |-> FALSE]
<1>1. /\ UNCHANGED <<store, db, spent, mem, acked>> /\ At(q, r, "sign") /\ Request(q)
      /\ Goto(q, label) /\ signed \in [Grants -> Content]
  BY Zenon DEF SignGrant, TrustInv, StateTypes
<1>2. PICK g \in req[q].grant, k \in Active(r) : signed' = [signed EXCEPT ![g] = content(k)]
  BY Zenon DEF SignGrant
<1>3. /\ g \in Grants /\ k \in Keys /\ Get(r, k) /\ signed[g].key = {} /\ req[q].rec.epoch = 0
      /\ req[q].dev \subseteq Devices /\ (\A c, d \in req[q].dev : c = d) /\ \A h \in req[q].grant : h = g
  BY <1>1, Zenon DEF Request, RequestTypes, RequestRows, At, Unfinished, Active, Get
<1>4. content(k) \in Content
  BY <1>3 DEF Content
<1>5. /\ signed' \in [Grants -> Content] /\ (\A h \in Grants : h # g => signed'[h] = signed[h])
      /\ signed'[g].dev = req[q].dev /\ signed'[g].key = {k} /\ signed'[g].epoch = 0
  BY <1>1, <1>2, <1>3, <1>4, Zenon
<1>6. label \in Issuing /\ (label = "storeGrant" => Postgres)
  BY Zenon DEF Issuing
<1> HIDE DEF label, content
<1>7. Others(q) /\ req'[q].pc = label /\ req'[q].at = {r} /\ Same(req'[q], req[q])
  BY <1>1, GotoFacts, Zenon DEF TrustInv, GrantInv, At
<1>8. \A h \in Grants, s \in Replicas : Findable(h, s) => h # g /\ Findable(h, s)'
  BY <1>1, <1>3, <1>5, Zenon DEF Findable, Get
<1>9. Findable(g, r)'
  BY <1>1, <1>3, <1>5, Zenon DEF Findable, Get
<1>10. Request(q)'
  <2>1. RequestTypes(q)'
    BY <1>1, <1>6, <1>7, Zenon DEF Request, RequestTypes, Same, RowLabels, Issuing, Postgres, At
  <2>2. RequestRows(q)'
    BY <1>6, <1>7, Zenon DEF RequestRows, Unfinished, Issuing
  <2>3. RequestMaps(q, r)'
    BY <1>3, <1>6, <1>7, <1>9, Zenon DEF RequestMaps, Issuing, Same
  <2> QED BY <1>7, <2>1, <2>2, <2>3, Zenon DEF Request
<1>11. StateTypes' /\ \A s \in Replicas : Grows(s)
  BY <1>1, <1>3, <1>5, Zenon DEF TrustInv, StateTypes, Grows, Get
<1>12. ASSUME NEW s \in Replicas PROVE NoReturn(s)
  <2>1. \A p \in Requests : req'[p].pc = "sign" => req'[p] = req[p]
    BY <1>6, <1>7, Zenon DEF Others, Issuing
  <2>2. \A p \in Requests : req'[p].at = {s} /\ req'[p].pc \in Issuing =>
           \A h \in req'[p].grant : \/ h \notin db.stored
                                    \/ req[p].at = {s} /\ req[p].pc \in Issuing /\ h \in req[p].grant
    BY <1>3, <1>7, Zenon DEF Others, Same, TrustInv, TablesOK
  <2>3. Get(s, k) => s = r
    BY <1>3, Zenon DEF TrustInv, RingsApart
  <2>4. ASSUME NEW h \in Grants, NEW d \in signed'[h].dev, NEW j \in signed'[h].key, Get(s, j)'
        PROVE  \/ d \in signed[h].dev /\ j \in signed[h].key /\ Get(s, j)
               \/ \E p \in Requests : req[p].at = {s} /\ req[p].pc = "sign" /\ d \in req[p].dev
    <3>1. Get(s, j) BY <1>1, <2>4, Zenon DEF Get
    <3>2. CASE h # g BY <1>5, <3>1, <3>2, Zenon
    <3>3. CASE h = g BY <1>1, <1>5, <2>3, <3>1, <3>3, Zenon DEF At
    <3> QED BY <3>2, <3>3, Zenon
  <2> QED BY <1>1, <2>1, <2>2, <2>4, Zenon DEF NoReturn
<1>13. MayStep(q)
  BY <1>1, <1>3, <1>5, <1>6, <1>7, <1>10, <1>11, <1>12, Zenon DEF MayStep, Unfinished, Issuing, At
<1>14. TablesOK'
  <2>1. \A h \in Grants : signed[h].epoch = 0
    BY Zenon DEF TrustInv, TablesOK
  <2> QED BY <1>1, <1>3, <1>5, <2>1, SameTables, Zenon
<1>15. RingsApart' /\ \A s \in Replicas : MapsOK(s)'
  <2>1. RingsApart' BY <1>1, Zenon DEF TrustInv, RingsApart, Get
  <2>2. ASSUME NEW s \in Replicas PROVE MapsOK(s)'
    BY <1>1, <1>8, SMTT(30) DEF TrustInv, StateTypes, Maps, MapsOK, Active
  <2> QED BY <2>1, <2>2, Zenon
<1>16. Ordinary(q)
  BY <1>1, <1>6, <1>7, Zenon DEF Ordinary, RecRead, Pending, Logging, Issuing, Same
<1> QED BY <1>1, <1>11, <1>13, <1>14, <1>15, <1>16, StepKeeps, Zenon

\* The grant goes to its table ...
LEMMA StoreGrantTrust ==
  ASSUME TrustInv, GrantInv', NEW q \in Requests, StoreGrant(q)
  PROVE  TrustInv' /\ Ordinary(q)
<1>1. /\ UNCHANGED <<store, signed, spent, mem, acked>> /\ req[q].pc = "storeGrant" /\ Request(q)
      /\ db' = [db EXCEPT !.stored = @ \cup req[q].grant] /\ Goto(q, "publishGrant") /\ db \in Tables
  BY Zenon DEF StoreGrant, TrustInv, StateTypes
<1>2. PICK r \in Replicas : req[q].at = {r}
  BY <1>1, Zenon DEF Request, RequestTypes
<1>3. req[q].grant \subseteq Grants /\ \A g \in req[q].grant : Findable(g, r)
  BY <1>1, <1>2, Zenon DEF Request, RequestTypes, RequestMaps, Issuing
<1>4. /\ db' \in Tables /\ db'.device = db.device /\ db'.revoked = db.revoked /\ db'.feed = db.feed
      /\ db'.stored = db.stored \cup req[q].grant
  BY <1>1, <1>3, Zenon DEF Tables
<1>5. Others(q) /\ req'[q].pc = "publishGrant" /\ req'[q].at = {r} /\ Same(req'[q], req[q])
  BY <1>1, <1>2, GotoFacts, Zenon DEF TrustInv, GrantInv
<1>6. RequestTypes(q)'
  BY <1>1, <1>2, <1>5, Zenon DEF Request, RequestTypes, Same, RowLabels
<1>7. RequestRows(q)'
  BY <1>5, Zenon DEF RequestRows, Unfinished
<1>8. RequestMaps(q, r)'
  BY <1>1, <1>3, <1>5, Zenon DEF RequestMaps, Same, Findable, Get
<1>9. Request(q)'
  BY <1>5, <1>6, <1>7, <1>8, Zenon DEF Request
<1>10. StateTypes' /\ \A s \in Replicas : Grows(s)
  BY <1>1, <1>4, Zenon DEF TrustInv, StateTypes, Grows, Get
<1>11. ASSUME NEW s \in Replicas PROVE NoReturn(s)
  BY <1>1, <1>2, <1>5, Zenon DEF NoReturn, Others, Same, Get, Issuing
<1>12. MayStep(q)
  BY <1>1, <1>5, <1>9, <1>10, <1>11, Zenon DEF MayStep, Unfinished
<1>13. TablesOK'
  BY <1>1, <1>3, <1>4, SMTT(30) DEF TrustInv, TablesOK, Findable
<1>14. RingsApart' /\ \A s \in Replicas : MapsOK(s)'
  BY <1>1, SameMaps, Zenon
<1>15. Ordinary(q)
  BY <1>1, <1>4, <1>5, Zenon DEF Ordinary, RecRead, Pending, Logging, Same
<1> QED BY <1>1, <1>10, <1>12, <1>13, <1>14, <1>15, StepKeeps, Zenon

\* A handler that writes the sets of a replica's map and its log.
SetsFor(r, gs, rs, l) ==
    /\ mem' \in [Replicas -> Maps] /\ \A s \in Replicas : s # r => mem'[s] = mem[s]
    /\ mem'[r].grants = gs /\ mem'[r].revoked = rs
    /\ mem'[r].ring = mem[r].ring /\ mem'[r].log = l /\ mem'[r].devices = mem[r].devices

\* What it leaves of the facts about maps and rings.
LEMMA SetsSet ==
  ASSUME TrustInv, NEW r \in Replicas, NEW gs, NEW rs, NEW l,
         SetsFor(r, gs, rs, l), UNCHANGED <<signed, spent>>,
         \A g \in gs : Findable(g, r), \A n \in DOMAIN l : l[n] \in spent
  PROVE  /\ RingsApart' /\ \A s \in Replicas : /\ MapsOK(s)' /\ mem'[s].ring = mem[s].ring
                                               /\ mem'[s].devices = mem[s].devices
<1>1. \A s \in Replicas : mem'[s].ring = mem[s].ring /\ mem'[s].devices = mem[s].devices
  BY Zenon DEF SetsFor
<1>2. RingsApart'
  BY <1>1, SMTT(30) DEF TrustInv, RingsApart, Get
<1>3. ASSUME NEW s \in Replicas PROVE MapsOK(s)'
  <2>1. MapsOK(s) BY Zenon DEF TrustInv
  <2>2. Active(s)' = Active(s) BY <1>1, Zenon DEF Active
  <2>3. \A g \in mem'[s].grants : Findable(g, s)'
    BY <1>1, <2>1, Zenon DEF MapsOK, Findable, Get, SetsFor
  <2>4. \A n \in DOMAIN mem'[s].log : mem'[s].log[n] \in spent'
    BY <2>1, Zenon DEF MapsOK, SetsFor
  <2> QED BY <1>1, <2>1, <2>2, <2>3, <2>4, Zenon DEF MapsOK
<1> QED BY <1>1, <1>2, <1>3, Zenon

\* ... and to the replica's map.
LEMMA PublishGrantTrust ==
  ASSUME TrustInv, GrantInv', NEW q \in Requests, NEW r \in Replicas, PublishGrant(q, r)
  PROVE  TrustInv' /\ Ordinary(q)
<1>1. /\ UNCHANGED <<store, db, signed, spent, acked>> /\ At(q, r, "publishGrant") /\ Request(q) /\ Leave(q)
      /\ mem \in [Replicas -> Maps] /\ mem[r] \in Maps /\ MapsOK(r)
  BY Zenon DEF PublishGrant, TrustInv, StateTypes
<1>2. req[q].grant \subseteq Grants /\ \A g \in req[q].grant : Findable(g, r)
  BY <1>1, Zenon DEF Request, RequestTypes, RequestMaps, Issuing, At
<1> DEFINE gs == mem[r].grants \cup req[q].grant
           new == [mem[r] EXCEPT !.grants = gs]
<1>3. SetsFor(r, gs, mem[r].revoked, mem[r].log)
  <2>1. /\ new \in Maps /\ new.grants = gs /\ new.revoked = mem[r].revoked /\ new.ring = mem[r].ring
        /\ new.log = mem[r].log /\ new.devices = mem[r].devices
    BY <1>1, <1>2, Zenon DEF Maps
  <2>2. mem' = [mem EXCEPT ![r] = new]
    BY Zenon DEF PublishGrant
  <2> HIDE DEF new, gs
  <2> QED BY <1>1, <2>1, <2>2, Zenon DEF SetsFor
<1>4. /\ RingsApart' /\ \A s \in Replicas : /\ MapsOK(s)' /\ mem'[s].ring = mem[s].ring
                                            /\ mem'[s].devices = mem[s].devices
  <2>1. (\A g \in gs : Findable(g, r)) /\ \A n \in DOMAIN mem[r].log : mem[r].log[n] \in spent
    BY <1>1, <1>2, Zenon DEF MapsOK
  <2> HIDE DEF gs
  <2> QED BY <1>1, <1>3, <2>1, SetsSet, Zenon
<1>5. Others(q) /\ Request(q)' /\ req'[q].pc = "idle" /\ req'[q].at = {}
  BY <1>1, LeftRequest, Zenon
<1>6. StateTypes' /\ \A s \in Replicas : Grows(s)
  BY <1>1, <1>3, <1>4, Zenon DEF TrustInv, StateTypes, Grows, Get, SetsFor
<1>7. ASSUME NEW s \in Replicas PROVE NoReturn(s)
  BY <1>1, <1>3, <1>4, <1>5, Zenon DEF NoReturn, Others, Get, Issuing, SetsFor, At
<1>8. MayStep(q)
  BY <1>1, <1>5, <1>6, <1>7, Zenon DEF MayStep, Unfinished
<1>9. TablesOK'
  BY <1>1, SameTables, Zenon
<1>10. Ordinary(q)
  <2>1. req'[q].rec.epoch = 0
    BY <1>1, LeftRequest, Zenon
  <2> QED BY <1>1, <1>3, <1>4, <1>5, <2>1, Zenon DEF Ordinary, RecRead, Pending, Logging, SetsFor
<1> QED BY <1>1, <1>4, <1>6, <1>8, <1>9, <1>10, StepKeeps, Zenon

\* revokeGrant: the grant that is marked is one that the table holds.
LEMMA RevokeGrantTrust ==
  ASSUME TrustInv, GrantInv', NEW q \in Requests, NEW r \in Replicas, NEW g \in Grants, RevokeGrant(q, r, g)
  PROVE  TrustInv' /\ Advances(q)
<1> DEFINE label == IF Postgres THEN "logGrant" ELSE "revokeMap"
           ask(i) == [Idle EXCEPT !.grant = {g}, !.id = i]
<1>1. PICK i \in Ids : i \notin spent /\ spent' = spent \cup {i} /\ Arrive(q, r, label, ask(i))
  BY Zenon DEF RevokeGrant
<1>2. UNCHANGED <<store, signed, mem, acked>> /\ db \in Tables
  BY Zenon DEF RevokeGrant, TrustInv, StateTypes
<1>3. /\ DOMAIN ask(i) = RequestFields /\ ask(i).dev = {} /\ ask(i).grant = {g} /\ ask(i).key = {} /\ ask(i).id = i
      /\ ask(i).rec = NoDevice /\ ask(i).hit = FALSE
  BY IdleFields, Zenon DEF RequestFields
<1>4. label \in {"logGrant", "revokeMap"} /\ (label = "logGrant" <=> Postgres)
  BY Zenon
<1>5. /\ db' \in Tables /\ db'.device = db.device /\ db'.stored = db.stored /\ db'.feed = db.feed
      /\ db.revoked \subseteq db'.revoked /\ (Postgres => g \in db'.revoked)
      /\ \A h \in db'.revoked : h \in db.revoked \/ h \in db.stored
  <2>1. CASE Postgres
    BY <1>2, <2>1, Zenon DEF RevokeGrant, Tables
  <2>2. CASE ~Postgres
    BY <1>2, <2>2, Zenon DEF RevokeGrant
  <2> QED BY <2>1, <2>2, Zenon
<1> HIDE DEF label, ask
<1>6. Others(q) /\ req'[q].pc = label /\ req'[q].at = {r} /\ Same(req'[q], ask(i))
  BY <1>1, <1>3, ArriveFacts, Zenon DEF TrustInv, GrantInv
<1>7. /\ req'[q].dev = {} /\ req'[q].grant = {g} /\ req'[q].key = {} /\ req'[q].id \in spent'
      /\ req'[q].rec \in Record /\ req'[q].hit = FALSE
  BY <1>1, <1>3, <1>6, NoDeviceFields, Zenon DEF Same
<1>8. req'[q].pc \in RowLabels => Postgres'
  BY <1>2, <1>4, <1>6, Zenon DEF RowLabels, Postgres
<1>9. RequestTypes(q)'
  BY <1>4, <1>6, <1>7, <1>8, Zenon DEF RequestTypes
<1>10. RequestRows(q)' /\ \A s \in Replicas : RequestMaps(q, s)'
  <2>1. Postgres' = Postgres /\ (Postgres => req'[q].pc = "logGrant") /\ (~Postgres => req'[q].pc = "revokeMap")
    BY <1>2, <1>4, <1>6, Zenon DEF Postgres
  <2> QED BY <1>4, <1>5, <1>6, <1>7, <2>1, Zenon DEF RequestRows, RequestMaps, Unfinished, Issuing
<1>11. Request(q)'
  BY <1>9, <1>10, Zenon DEF Request
<1>12. StateTypes' /\ \A s \in Replicas : Grows(s)
  BY <1>1, <1>2, <1>5, Zenon DEF TrustInv, StateTypes, Grows, Get
<1>13. MayStep(q)
  <2>1. ASSUME NEW s \in Replicas PROVE NoReturn(s)
    BY <1>2, <1>4, <1>6, NothingReturns, Zenon DEF Issuing
  <2> QED BY <1>1, <1>2, <1>4, <1>6, <1>11, <1>12, <2>1, Zenon DEF MayStep, Unfinished
<1>14. TablesOK'
  BY <1>1, <1>2, <1>5, Zenon DEF TrustInv, TablesOK
<1>15. RingsApart' /\ \A s \in Replicas : MapsOK(s)'
  BY <1>1, <1>2, SameMaps, Zenon
<1>16. Advances(q)
  <2>1. req'[q].id = i /\ RecRead(q)
    BY <1>3, <1>6, NoDeviceFields, Zenon DEF Same, RecRead
  <2>2. Drawn(q) /\ \A p \in Requests : RecRead(p)
    BY <1>1, <1>6, <2>1, DrawnBy, Zenon
  <2>3. \A s \in Replicas, d \in Devices : mem[s].devices[d].epoch <= mem[s].devices[d].epoch
    BY MapEpochs, Zenon
  <2> QED BY <1>1, <1>2, <1>5, <2>2, <2>3, Zenon DEF Advances, LogStep
<1> QED BY <1>2, <1>12, <1>13, <1>14, <1>15, <1>16, StepKeeps, Zenon

\* A row that a statement adds to the feed.
LEMMA FeedRow ==
  ASSUME NEW item \in FeedItem, db \in Tables, db' = [db EXCEPT !.feed = @ \cup {item}]
  PROVE  /\ db' \in Tables /\ db'.device = db.device /\ db'.stored = db.stored /\ db'.revoked = db.revoked
         /\ db'.feed = db.feed \cup {item}
  BY Zenon DEF Tables

\* What it keeps, when it says what the other tables say.
LEMMA FeedRowKeeps ==
  ASSUME TrustInv, NEW item \in FeedItem, db' = [db EXCEPT !.feed = @ \cup {item}], UNCHANGED <<signed, spent>>,
         item.id \in spent, IF item.type = "grant" THEN item.subject \in db.revoked
                            ELSE item.subject \in Devices /\ item.epoch <= db.device[item.subject].epoch
  PROVE  TablesOK'
<1>1. /\ db'.device = db.device /\ db'.stored = db.stored /\ db'.revoked = db.revoked
      /\ db'.feed = db.feed \cup {item}
  BY FeedRow, Zenon DEF TrustInv, StateTypes
<1> QED BY <1>1, Zenon DEF TrustInv, TablesOK

\* revokeGrant: the row of the feed.
LEMMA LogGrantRevocationTrust ==
  ASSUME TrustInv, GrantInv', NEW q \in Requests, LogGrantRevocation(q)
  PROVE  TrustInv' /\ Advances(q)
<1> DEFINE item(g) == Item(req[q].id, "grant", g, signed[g].epoch)
<1>1. PICK g \in req[q].grant : db' = [db EXCEPT !.feed = @ \cup {item(g)}]
  BY Zenon DEF LogGrantRevocation
<1>2. /\ UNCHANGED <<store, signed, spent, mem, acked>> /\ req[q].pc = "logGrant" /\ Request(q)
      /\ Goto(q, "revokeMap") /\ db \in Tables
  BY Zenon DEF LogGrantRevocation, TrustInv, StateTypes
<1>3. g \in Grants /\ g \in db.revoked /\ req[q].id \in spent /\ req[q].id \in Ids /\ \A h \in req[q].grant : h = g
  BY <1>2, Zenon DEF Request, RequestTypes, RequestRows, TrustInv, StateTypes
<1>4. item(g) \in FeedItem /\ item(g).id = req[q].id /\ item(g).type = "grant" /\ item(g).subject = g
  BY <1>3, Zenon DEF Item, FeedItem, TrustInv, StateTypes, Content
<1> HIDE DEF item
<1>5. /\ db' \in Tables /\ db'.device = db.device /\ db'.stored = db.stored /\ db'.revoked = db.revoked
      /\ db'.feed = db.feed \cup {item(g)}
  BY <1>1, <1>2, <1>4, FeedRow, Zenon
<1>6. TablesOK'
  BY <1>1, <1>2, <1>3, <1>4, FeedRowKeeps, Zenon
<1>7. Others(q) /\ req'[q].pc = "revokeMap" /\ req'[q].at = req[q].at /\ Same(req'[q], req[q])
  BY <1>2, GotoFacts, Zenon DEF TrustInv, GrantInv
<1>8. RequestTypes(q)'
  BY <1>2, <1>3, <1>7, Zenon DEF Request, RequestTypes, Same, RowLabels
<1>9. RequestRows(q)' /\ \A s \in Replicas : RequestMaps(q, s)'
  <2>1. \A h \in req'[q].grant : h \in db'.revoked /\ \E i \in db'.feed : i.subject = h
    BY <1>3, <1>4, <1>5, <1>7, Zenon DEF Same
  <2> QED BY <1>7, <2>1, Zenon DEF RequestRows, RequestMaps, Unfinished, Issuing
<1>10. Request(q)'
  BY <1>8, <1>9, Zenon DEF Request
<1>11. StateTypes' /\ \A s \in Replicas : Grows(s)
  BY <1>2, <1>5, Zenon DEF TrustInv, StateTypes, Grows, Get
<1>12. MayStep(q)
  <2>1. ASSUME NEW s \in Replicas PROVE NoReturn(s)
    BY <1>2, <1>7, NothingReturns, Zenon DEF Issuing
  <2> QED BY <1>2, <1>7, <1>10, <1>11, <2>1, Zenon DEF MayStep, Unfinished
<1>13. RingsApart' /\ \A s \in Replicas : MapsOK(s)'
  BY <1>2, SameMaps, Zenon
<1>14. Advances(q)
  <2>1. RecRead(q) /\ req'[q].id = req[q].id
    BY <1>7, Zenon DEF Same, RecRead
  <2>2. Drawn(q) /\ \A p \in Requests : RecRead(p)
    BY <1>2, <1>7, <2>1, DrawnBy, Zenon DEF Logging
  <2>3. \A s \in Replicas, d \in Devices : mem[s].devices[d].epoch <= mem[s].devices[d].epoch
    BY MapEpochs, Zenon
  <2>4. item(g).epoch = 0
    BY <1>3, Zenon DEF item, Item, TrustInv, TablesOK
  <2> QED BY <1>2, <1>5, <2>2, <2>3, <2>4, Zenon DEF Advances, LogStep
<1> QED BY <1>2, <1>6, <1>11, <1>12, <1>13, <1>14, StepKeeps, Zenon

\* revokeGrant ends: the grant is revoked in the tables, listed, and in the map.
LEMMA RecordGrantRevocationTrust ==
  ASSUME TrustInv, GrantInv', NEW q \in Requests, NEW r \in Replicas, RecordGrantRevocation(q, r)
  PROVE  TrustInv' /\ (CountInv => Advances(q))
<1>1. /\ UNCHANGED <<store, db, signed, spent>> /\ At(q, r, "revokeMap") /\ Request(q) /\ Leave(q)
      /\ mem \in [Replicas -> Maps] /\ mem[r] \in Maps /\ MapsOK(r)
      /\ acked \in [Replicas -> SUBSET (Devices \cup Grants)]
  BY Zenon DEF RecordGrantRevocation, TrustInv, StateTypes
<1> DEFINE rs(g) == mem[r].revoked \cup {g}
           l == Logged(mem[r].log, req[q].id)
           new(g) == [mem[r] EXCEPT !.revoked = rs(g), !.log = l]
<1>2. PICK g \in req[q].grant : mem' = [mem EXCEPT ![r] = new(g)] /\ acked' = [acked EXCEPT ![r] = @ \cup {g}]
  BY <1>1, Zenon DEF RecordGrantRevocation
<1>3. g \in Grants /\ req[q].id \in spent /\ req[q].id \in Ids
  BY <1>1, Zenon DEF Request, RequestTypes, At, TrustInv, StateTypes
<1>4. Postgres => g \in db.revoked /\ \E i \in db.feed : i.subject = g
  BY <1>1, Zenon DEF Request, RequestRows, At
<1>5. l \in Seq(Ids) /\ \A n \in DOMAIN l : l[n] \in spent
  <2>1. mem[r].log \in Seq(Ids) /\ \A n \in DOMAIN mem[r].log : mem[r].log[n] \in spent
    BY <1>1, Zenon DEF MapsOK, Maps
  <2> QED BY <1>3, <2>1, LoggedFacts, Zenon
<1> HIDE DEF l
<1>6. SetsFor(r, mem[r].grants, rs(g), l)
  <2>1. /\ new(g) \in Maps /\ new(g).grants = mem[r].grants /\ new(g).revoked = rs(g) /\ new(g).ring = mem[r].ring
        /\ new(g).log = l /\ new(g).devices = mem[r].devices
    BY <1>1, <1>3, <1>5, Zenon DEF Maps
  <2>2. mem' = [mem EXCEPT ![r] = new(g)]
    BY <1>2, Zenon
  <2> HIDE DEF new, rs
  <2> QED BY <1>1, <2>1, <2>2, Zenon DEF SetsFor
<1>7. /\ RingsApart' /\ \A s \in Replicas : /\ MapsOK(s)' /\ mem'[s].ring = mem[s].ring
                                            /\ mem'[s].devices = mem[s].devices
  <2>1. \A h \in mem[r].grants : Findable(h, r)
    BY <1>1, Zenon DEF MapsOK
  <2> HIDE DEF rs
  <2> QED BY <1>1, <1>5, <1>6, <2>1, SetsSet, Zenon
<1>8. Others(q) /\ Request(q)' /\ req'[q].pc = "idle" /\ req'[q].at = {} /\ RecRead(q)
  BY <1>1, LeftRequest, Zenon
<1>9. /\ acked' \in [Replicas -> SUBSET (Devices \cup Grants)]
      /\ \A s \in Replicas : acked[s] \subseteq acked'[s] /\ \A x \in acked'[s] \ acked[s] : s = r /\ x = g
  BY <1>1, <1>2, <1>3, Zenon
<1>10. StateTypes' /\ \A s \in Replicas : Grows(s)
  BY <1>1, <1>6, <1>7, <1>9, Zenon DEF TrustInv, StateTypes, Grows, Get, SetsFor
<1>11. ASSUME NEW s \in Replicas PROVE NoReturn(s)
  BY <1>1, <1>6, <1>7, <1>8, Zenon DEF NoReturn, Others, Get, Issuing, SetsFor
<1>12. MayStep(q)
  BY <1>1, <1>8, <1>10, <1>11, Zenon DEF MayStep, Unfinished
<1>13. TablesOK'
  BY <1>1, SameTables, Zenon
<1>14. AckedFor(r, g)'
  <2>1. AckedGrant(r, g)'
    BY <1>1, <1>4, <1>6, Zenon DEF AckedGrant, SetsFor, Postgres
  <2>2. g \notin Devices BY <1>3, TrustConstants, Zenon
  <2> QED BY <1>1, <1>4, <2>1, <2>2, Zenon DEF AckedFor, Postgres
<1>15. ASSUME CountInv PROVE Advances(q)
  <2>1. Drawn(q) /\ \A p \in Requests : RecRead(p)
    BY <1>8, DrawnBy, Zenon DEF Pending, Logging
  <2>2. \A s \in Replicas, d \in Devices : mem[s].devices[d].epoch <= mem[s].devices[d].epoch
    BY MapEpochs, Zenon
  <2>3. ASSUME NEW s \in Replicas PROVE LogStep(s)
    <3>1. CASE s # r \/ Postgres
      BY <1>6, <3>1, Zenon DEF SetsFor, LogStep, l, Logged
    <3>2. CASE s = r /\ ~Postgres
      <4>1. mem'[r].log = Append(mem[r].log, req[q].id)
        BY <1>6, <3>2, Zenon DEF SetsFor, l, Logged
      <4>2. \A n \in DOMAIN mem[r].log : mem[r].log[n] # req[q].id
        BY <1>1, <1>15, Zenon DEF CountInv, LogOK, At, Logging
      <4>3. \A p \in Requests : req'[p].pc \in Logging => req'[p].id # req[q].id
        BY <1>1, <1>8, <1>15, Zenon DEF CountInv, IdsApart, Pending, Logging, Others, At
      <4> QED BY <1>3, <3>2, <4>1, <4>2, <4>3, Zenon DEF LogStep
    <3> QED BY <3>1, <3>2, Zenon
  <2> QED BY <1>1, <1>7, <2>1, <2>2, <2>3, Zenon DEF Advances
<1> QED BY <1>7, <1>9, <1>10, <1>12, <1>13, <1>14, <1>15, StepKeeps, Zenon

\* RevokeDevice: the epoch of a row only rises.
LEMMA RevokeDeviceTrust ==
  ASSUME TrustInv, GrantInv', NEW q \in Requests, RevokeDevice(q)
  PROVE  TrustInv' /\ Advances(q)
<1>1. /\ UNCHANGED <<store, signed, spent, mem, acked>> /\ req[q].pc = "revokeRow" /\ Request(q) /\ db \in Tables
      /\ req[q].dev \subseteq Devices
  BY Zenon DEF RevokeDevice, TrustInv, StateTypes, GrantInv, Shaped
<1> DEFINE row(d) == [db.device[d] EXCEPT !.status = "revoked", !.epoch = db.device[d].epoch + 1]
<1>2. PICK d \in req[q].dev :
        /\ db' = IF db.device[d].known THEN [db EXCEPT !.device = [db.device EXCEPT ![d] = row(d)]] ELSE db
        /\ req' = [req EXCEPT ![q].pc = "logDevice", ![q].hit = db.device[d].known]
  BY <1>1, Zenon DEF RevokeDevice, Tables
<1>3. d \in Devices /\ \A c \in req[q].dev : c = d
  BY <1>1, Zenon DEF Request, RequestTypes
<1>4. /\ row(d) \in Record /\ row(d).epoch = db.device[d].epoch + 1 /\ row(d).known = db.device[d].known
      /\ db.device[d].epoch \in Nat
  <2>1. db.device[d] \in Record /\ db.device[d].epoch \in Nat
    BY <1>1, <1>3, Zenon DEF Tables, Record
  <2>2. ASSUME NEW f \in Record, NEW n \in Nat
        PROVE  /\ [f EXCEPT !.epoch = n] \in Record /\ [f EXCEPT !.epoch = n].epoch = n
               /\ [f EXCEPT !.epoch = n].known = f.known
    BY Zenon DEF Record
  <2>3. ASSUME NEW f \in Record
        PROVE  [f EXCEPT !.status = "revoked"] \in Record /\ [f EXCEPT !.status = "revoked"].known = f.known
    BY Zenon DEF Record, Status
  <2>4. row(d) = [[db.device[d] EXCEPT !.status = "revoked"] EXCEPT !.epoch = db.device[d].epoch + 1]
    BY Zenon
  <2>5. db.device[d].epoch + 1 \in Nat BY <2>1
  <2> DEFINE mid == [db.device[d] EXCEPT !.status = "revoked"]
  <2>6. mid \in Record /\ mid.known = db.device[d].known /\ row(d) = [mid EXCEPT !.epoch = db.device[d].epoch + 1]
    BY <2>1, <2>3, <2>4, Zenon
  <2> HIDE DEF row, mid
  <2> QED BY <2>1, <2>2, <2>5, <2>6
<1> HIDE DEF row
<1>5. /\ db' \in Tables /\ db'.stored = db.stored /\ db'.revoked = db.revoked /\ db'.feed = db.feed
      /\ \A c \in Devices : /\ db'.device[c].epoch >= db.device[c].epoch
                            /\ db'.device[c].known = db.device[c].known
                            /\ db'.device[c].epoch <= db.device[c].epoch + 1
      /\ db.device[d].known => db'.device[d].epoch > 0
      /\ ~db.device[d].known => db' = db
  <2>1. CASE ~db.device[d].known
    BY <1>1, <1>2, <2>1 DEF Tables, Record
  <2>2. CASE db.device[d].known
    <3>1. db' = [db EXCEPT !.device = [db.device EXCEPT ![d] = row(d)]]
      BY <1>2, <2>2, Zenon
    <3>2. \A c \in Devices : db.device[c].epoch \in Nat
      BY <1>1, Zenon DEF Tables, Record
    <3> DEFINE rows == [db.device EXCEPT ![d] = row(d)]
    <3>3. /\ rows \in [Devices -> Record] /\ rows[d] = row(d)
          /\ \A c \in Devices : c # d => rows[c] = db.device[c]
      BY <1>1, <1>3, <1>4, Zenon DEF Tables
    <3> HIDE DEF rows
    <3>4. /\ db' \in Tables /\ db'.stored = db.stored /\ db'.revoked = db.revoked /\ db'.feed = db.feed
          /\ db'.device = rows
      BY <1>1, <3>1, <3>3, Zenon DEF Tables, rows
    <3>5. \A c \in Devices : db'.device[c].epoch >= db.device[c].epoch /\ db'.device[c].epoch <= db.device[c].epoch + 1
      BY <1>3, <1>4, <3>2, <3>3, <3>4, SMTT(30)
    <3>6. \A c \in Devices : db'.device[c].known = db.device[c].known
      BY <1>3, <1>4, <3>3, <3>4, Zenon
    <3>7. db'.device[d].epoch > 0
      BY <1>3, <1>4, <3>3, <3>4, SMTT(30)
    <3> QED BY <2>2, <3>4, <3>5, <3>6, <3>7, Zenon
  <2> QED BY <2>1, <2>2, Zenon
<1>6. /\ Others(q) /\ req'[q].pc = "logDevice" /\ req'[q].at = req[q].at /\ req'[q].dev = req[q].dev
      /\ req'[q].grant = req[q].grant /\ req'[q].key = req[q].key /\ req'[q].id = req[q].id
      /\ req'[q].rec = req[q].rec /\ req'[q].hit = db.device[d].known
  BY <1>2, SMTT(30) DEF TrustInv, GrantInv, Shaped, Others, RequestFields
<1>7. RequestTypes(q)'
  <2>1. db.device[d].known \in BOOLEAN BY <1>1, <1>3, Zenon DEF Tables, Record
  <2> QED BY <1>1, <1>6, <2>1, Zenon DEF Request, RequestTypes, RowLabels, Postgres
<1>8. RequestRows(q)'
  BY <1>3, <1>5, <1>6, Zenon DEF RequestRows, Unfinished
<1>9. \A s \in Replicas : req'[q].at = {s} => RequestMaps(q, s)'
  BY <1>1, <1>6, Zenon DEF Request, RequestMaps, Issuing
<1>10. Request(q)'
  BY <1>7, <1>8, <1>9, Zenon DEF Request
<1>11. \A c \in Devices : db.device[c].epoch \in Nat /\ db'.device[c].epoch \in Nat
  BY <1>1, <1>5, Zenon DEF Tables, Record
<1>12. StateTypes' /\ \A s \in Replicas : Grows(s)
  BY <1>1, <1>5, <1>11, SMTT(30) DEF TrustInv, StateTypes, Grows, Get
<1>13. MayStep(q)
  <2>1. ASSUME NEW s \in Replicas PROVE NoReturn(s)
    BY <1>1, <1>6, NothingReturns, Zenon DEF Issuing
  <2> QED BY <1>1, <1>6, <1>10, <1>12, <2>1, Zenon DEF MayStep, Unfinished
<1>14. TablesOK'
  <2>1. \A i \in db.feed : i.epoch \in Nat
    BY <1>1, Zenon DEF Tables, FeedItem
  <2>2. \A c \in Devices : ~db'.device[c].known => db'.device[c].epoch = 0
    <3>1. \A c \in Devices : c # d \/ ~db.device[d].known => db'.device[c] = db.device[c]
      BY <1>1, <1>2, <1>3, Zenon DEF Tables
    <3> QED BY <1>5, <3>1, Zenon DEF TrustInv, TablesOK
  <2> QED BY <1>1, <1>5, <1>11, <2>1, <2>2, SMTT(30) DEF TrustInv, TablesOK
<1>15. RingsApart' /\ \A s \in Replicas : MapsOK(s)'
  BY <1>1, SameMaps, Zenon
<1>16. Advances(q)
  <2>1. Drawn(q) /\ \A p \in Requests : RecRead(p)
    BY <1>6, DrawnBy, Zenon DEF Pending, Logging, RecRead
  <2>2. \A s \in Replicas, c \in Devices : mem[s].devices[c].epoch <= mem[s].devices[c].epoch
    BY MapEpochs, Zenon
  <2> QED BY <1>1, <1>5, <1>6, <2>1, <2>2, Zenon DEF Advances, LogStep
<1> QED BY <1>1, <1>12, <1>13, <1>14, <1>15, <1>16, StepKeeps, Zenon

\* revokeDevice ends: the row is revoked and, unless the feed refuses it, listed.
LEMMA LogDeviceRevocationTrust ==
  ASSUME TrustInv, GrantInv', NEW q \in Requests, NEW r \in Replicas, LogDeviceRevocation(q, r)
  PROVE  TrustInv' /\ Advances(q)
<1> DEFINE item(d) == Item(req[q].id, "device", d, db.device[d].epoch)
<1>1. PICK d \in req[q].dev :
        /\ db' = IF db.device[d].known /\ Insertable(item(d)) THEN [db EXCEPT !.feed = @ \cup {item(d)}] ELSE db
        /\ acked' = IF req[q].hit /\ Insertable(item(d)) THEN [acked EXCEPT ![r] = @ \cup {d}] ELSE acked
  BY Zenon DEF LogDeviceRevocation
<1>2. /\ UNCHANGED <<store, signed, spent, mem>> /\ At(q, r, "logDevice") /\ Request(q) /\ Leave(q) /\ db \in Tables
      /\ acked \in [Replicas -> SUBSET (Devices \cup Grants)]
  BY Zenon DEF LogDeviceRevocation, TrustInv, StateTypes
<1>3. /\ d \in Devices /\ req[q].id \in spent /\ req[q].id \in Ids /\ mem[r].devices[d].epoch > 0
      /\ req[q].hit => db.device[d].known /\ db.device[d].epoch > 0
  BY <1>2, Zenon DEF Request, RequestTypes, RequestRows, RequestMaps, At, TrustInv, StateTypes
<1>4. db.device[d].epoch \in Nat
  BY <1>2, <1>3, Zenon DEF Tables, Record
<1>5. /\ item(d) \in FeedItem /\ item(d).id = req[q].id /\ item(d).type = "device" /\ item(d).subject = d
      /\ item(d).epoch = db.device[d].epoch
  BY <1>3, <1>4, Zenon DEF Item, FeedItem
<1> HIDE DEF item
<1>6. /\ db' \in Tables /\ db'.device = db.device /\ db'.stored = db.stored /\ db'.revoked = db.revoked
      /\ db.feed \subseteq db'.feed /\ TablesOK' /\ \A i \in db'.feed : i \in db.feed \/ i = item(d)
      /\ db.device[d].known /\ Insertable(item(d)) => item(d) \in db'.feed
  <2>1. CASE db.device[d].known /\ Insertable(item(d))
    <3>1. db' = [db EXCEPT !.feed = @ \cup {item(d)}]
      BY <1>1, <2>1, Zenon
    <3>2. item(d).epoch <= db.device[item(d).subject].epoch
      BY <1>4, <1>5
    <3>3. TablesOK'
      BY <1>2, <1>3, <1>5, <3>1, <3>2, FeedRowKeeps, Zenon
    <3> QED BY <1>2, <1>5, <3>1, <3>3, FeedRow, Zenon
  <2>2. CASE ~(db.device[d].known /\ Insertable(item(d)))
    <3>1. db' = db
      BY <1>1, <2>2, Zenon
    <3>2. TablesOK'
      BY <1>2, <3>1, SameTables, Zenon
    <3> QED BY <1>2, <2>2, <3>1, <3>2, Zenon
  <2> QED BY <2>1, <2>2, Zenon
<1>7. Others(q) /\ Request(q)' /\ req'[q].pc = "idle" /\ req'[q].at = {} /\ RecRead(q)
  BY <1>2, LeftRequest, Zenon
<1>8. /\ acked' \in [Replicas -> SUBSET (Devices \cup Grants)]
      /\ \A s \in Replicas : acked[s] \subseteq acked'[s] /\ \A x \in acked'[s] \ acked[s] :
            s = r /\ x = d /\ req[q].hit /\ Insertable(item(d))
  <2>1. CASE req[q].hit /\ Insertable(item(d))
    <3>1. acked' = [acked EXCEPT ![r] = @ \cup {d}] BY <1>1, <2>1, Zenon
    <3> QED BY <1>2, <1>3, <2>1, <3>1, Zenon
  <2>2. CASE ~(req[q].hit /\ Insertable(item(d)))
    <3>1. acked' = acked BY <1>1, <2>2, Zenon
    <3> QED BY <1>2, <3>1, Zenon
  <2> QED BY <2>1, <2>2, Zenon
<1>9. StateTypes' /\ \A s \in Replicas : Grows(s)
  BY <1>2, <1>6, <1>8, Zenon DEF TrustInv, StateTypes, Grows, Get
<1>10. MayStep(q)
  <2>1. ASSUME NEW s \in Replicas PROVE NoReturn(s)
    BY <1>2, <1>7, NothingReturns, Zenon DEF Issuing
  <2> QED BY <1>2, <1>7, <1>9, <2>1, Zenon DEF MayStep, Unfinished
<1>11. RingsApart' /\ \A s \in Replicas : MapsOK(s)'
  BY <1>2, SameMaps, Zenon
<1>12. req[q].hit /\ Insertable(item(d)) => AckedFor(r, d)'
  <2>1. SUFFICES ASSUME req[q].hit, Insertable(item(d)) PROVE AckedFor(r, d)' BY Zenon
  <2>2. d \notin Grants BY <1>3, TrustConstants, Zenon
  <2>3. AckedDevice(r, d)'
    BY <1>2, <1>3, <1>6, <2>1, Zenon DEF AckedDevice
  <2>4. item(d) \in db'.feed
    BY <1>3, <1>6, <2>1, Zenon
  <2> QED BY <1>5, <2>2, <2>3, <2>4, Zenon DEF AckedFor
<1>13. Advances(q)
  <2>1. Drawn(q) /\ \A p \in Requests : RecRead(p)
    BY <1>7, DrawnBy, Zenon DEF Pending, Logging
  <2>2. \A s \in Replicas, c \in Devices : mem[s].devices[c].epoch <= mem[s].devices[c].epoch
    BY MapEpochs, Zenon
  <2>3. \A i \in db'.feed : i \in db.feed \/ i.epoch = db.device[d].epoch
    BY <1>5, <1>6, Zenon
  <2> QED BY <1>2, <1>3, <1>6, <2>1, <2>2, <2>3, Zenon DEF Advances, LogStep
<1> QED BY <1>6, <1>8, <1>9, <1>10, <1>11, <1>12, <1>13, StepKeeps, Zenon
-----------------------------------------------------------------------------
(* Rotation.                                                               *)

\* A handler that writes the ring of a replica.
RingFor(r, ring) ==
    /\ mem' \in [Replicas -> Maps] /\ \A s \in Replicas : s # r => mem'[s] = mem[s]
    /\ mem'[r].grants = mem[r].grants /\ mem'[r].revoked = mem[r].revoked
    /\ mem'[r].ring = ring /\ mem'[r].log = mem[r].log /\ mem'[r].devices = mem[r].devices

\* The update in that form.
LEMMA RingWritten ==
  ASSUME NEW r \in Replicas, NEW ring \in [Keys -> {"none", "next", "active", "retired"}], mem \in [Replicas -> Maps],
         mem' = [mem EXCEPT ![r].ring = ring]
  PROVE  RingFor(r, ring)
<1> DEFINE new == [mem[r] EXCEPT !.ring = ring]
<1>1. /\ new \in Maps /\ new.grants = mem[r].grants /\ new.revoked = mem[r].revoked
      /\ new.ring = ring /\ new.log = mem[r].log /\ new.devices = mem[r].devices
  BY Zenon DEF Maps
<1>2. mem' = [mem EXCEPT ![r] = new]
  BY Zenon
<1> HIDE DEF new
<1> QED BY <1>1, <1>2, Zenon DEF RingFor

\* A ring that keeps what it can find, finds besides only a key that no ring
\* and no grant has, and has one active key.
LEMMA RingSet ==
  ASSUME TrustInv, NEW q \in Requests, NEW r \in Replicas, NEW ring, RingFor(r, ring), NEW k \in Keys,
         UNCHANGED <<store, db, signed, spent, acked>>, Others(q), req'[q].pc \notin {"sign"} \cup Issuing,
         \A j \in Keys : mem[r].ring[j] # "none" => ring[j] # "none",
         \A j \in Keys : ring[j] # "none" => mem[r].ring[j] # "none" \/ j \in NewKeys,
         {j \in Keys : ring[j] = "active"} = {k}
  PROVE  /\ StateTypes' /\ TablesOK' /\ RingsApart'
         /\ \A s \in Replicas : Grows(s) /\ NoReturn(s) /\ MapsOK(s)'
<1>1. \A s \in Replicas : /\ mem'[s].grants = mem[s].grants /\ mem'[s].revoked = mem[s].revoked
                          /\ mem'[s].devices = mem[s].devices /\ mem'[s].log = mem[s].log
  BY Zenon DEF RingFor
<1>2. \A s \in Replicas, j \in Keys : Get(s, j) => Get(s, j)'
  BY Zenon DEF RingFor, Get
<1>3. \A s \in Replicas, j \in Keys : Get(s, j)' => Get(s, j) \/ (s = r /\ j \in NewKeys)
  BY Zenon DEF RingFor, Get
<1>4. \A j \in NewKeys : (\A s \in Replicas : ~Get(s, j)) /\ \A g \in Grants : j \notin signed[g].key
  BY Zenon DEF NewKeys, Get
<1>5. RingsApart'
  BY <1>3, <1>4, Zenon DEF TrustInv, RingsApart
<1>6. StateTypes' /\ \A s \in Replicas : Grows(s)
  BY <1>1, <1>2, Zenon DEF TrustInv, StateTypes, Grows, RingFor
<1>7. TablesOK'
  BY SameTables, Zenon
<1>8. ASSUME NEW s \in Replicas PROVE NoReturn(s)
  <2>1. \A g \in Grants : \A j \in signed'[g].key : j \in Keys
    BY Zenon DEF TrustInv, StateTypes, Content
  <2> QED BY <1>1, <1>3, <1>4, <2>1, Zenon DEF NoReturn, Others
<1>9. ASSUME NEW s \in Replicas PROVE MapsOK(s)'
  <2>1. MapsOK(s) /\ mem[s].grants \subseteq Grants BY Zenon DEF TrustInv, StateTypes, Maps
  <2>2. \E j \in Keys : Active(s)' = {j}
    <3>1. CASE s = r BY <3>1, Zenon DEF RingFor, Active
    <3>2. CASE s # r BY <2>1, <3>2, Zenon DEF RingFor, Active, MapsOK
    <3> QED BY <3>1, <3>2, Zenon
  <2>3. \A g \in mem'[s].grants : Findable(g, s)'
    <3>1. \A g \in Grants : signed[g].key \subseteq Keys BY Zenon DEF TrustInv, StateTypes, Content
    <3> QED BY <1>1, <1>2, <2>1, <3>1, Zenon DEF MapsOK, Findable
  <2> QED BY <1>1, <2>1, <2>2, <2>3, Zenon DEF MapsOK
<1> QED BY <1>5, <1>6, <1>7, <1>8, <1>9, Zenon

\* rotateKeys: Add brings a key that no ring and no grant has ...
LEMMA AddNextKeyTrust ==
  ASSUME TrustInv, GrantInv', NEW q \in Requests, NEW r \in Replicas, AddNextKey(q, r)
  PROVE  TrustInv' /\ Ordinary(q)
<1> DEFINE ask(k) == [Idle EXCEPT !.key = {k}]
           ring(k) == [mem[r].ring EXCEPT ![k] = "next"]
<1>1. PICK k \in NewKeys : mem' = [mem EXCEPT ![r].ring = ring(k)] /\ Arrive(q, r, "rotate", ask(k))
  BY Zenon DEF AddNextKey
<1>2. UNCHANGED <<store, db, signed, spent, acked>>
  BY Zenon DEF AddNextKey
<1>3. /\ DOMAIN ask(k) = RequestFields /\ ask(k).dev = {} /\ ask(k).grant = {} /\ ask(k).key = {k} /\ ask(k).id = 0
      /\ ask(k).rec = NoDevice /\ ask(k).hit = FALSE
  BY IdleFields, Zenon DEF RequestFields
<1>4. k \in Keys /\ mem[r].ring[k] = "none" /\ mem \in [Replicas -> Maps]
      /\ mem[r].ring \in [Keys -> {"none", "next", "active", "retired"}] /\ MapsOK(r)
  BY Zenon DEF NewKeys, TrustInv, StateTypes, Maps
<1>5. PICK a \in Keys : Active(r) = {a}
  BY <1>4, Zenon DEF MapsOK
<1>6. /\ ring(k) \in [Keys -> {"none", "next", "active", "retired"}] /\ ring(k)[k] = "next"
      /\ \A j \in Keys : j # k => ring(k)[j] = mem[r].ring[j]
  BY <1>4, Zenon
<1> HIDE DEF ask, ring
<1>7. {j \in Keys : ring(k)[j] = "active"} = {a}
  BY <1>4, <1>5, <1>6, Zenon DEF Active
<1>8. RingFor(r, ring(k))
  BY <1>1, <1>4, <1>6, RingWritten, Zenon
<1>9. Others(q) /\ req'[q].pc = "rotate" /\ req'[q].at = {r} /\ Same(req'[q], ask(k))
  BY <1>1, <1>3, ArriveFacts, Zenon DEF TrustInv, GrantInv
<1>10. /\ StateTypes' /\ TablesOK' /\ RingsApart'
       /\ \A s \in Replicas : Grows(s) /\ NoReturn(s) /\ MapsOK(s)'
  <2>1. /\ \A j \in Keys : mem[r].ring[j] # "none" => ring(k)[j] # "none"
        /\ \A j \in Keys : ring(k)[j] # "none" => mem[r].ring[j] # "none" \/ j \in NewKeys
    BY <1>1, <1>4, <1>6, Zenon
  <2>2. req'[q].pc \notin {"sign"} \cup Issuing
    BY <1>9, Zenon DEF Issuing
  <2> QED BY <1>2, <1>5, <1>7, <1>8, <1>9, <2>1, <2>2, RingSet, SMTT(30)
<1>11. /\ req'[q].dev = {} /\ req'[q].grant = {} /\ req'[q].key = {k} /\ req'[q].id = 0
       /\ req'[q].rec \in Record /\ req'[q].hit = FALSE
  BY <1>3, <1>9, NoDeviceFields, Zenon DEF Same
<1>12. RequestTypes(q)'
  BY <1>4, <1>9, <1>11, Zenon DEF RequestTypes, RowLabels
<1>13. RequestRows(q)'
  BY <1>9, Zenon DEF RequestRows, Unfinished
<1>14. RequestMaps(q, r)'
  BY <1>6, <1>8, <1>9, <1>11, Zenon DEF RequestMaps, RingFor, Get, Issuing
<1>15. Request(q)'
  <2>1. \A s \in Replicas : req'[q].at = {s} => s = r BY <1>9, Zenon
  <2> QED BY <1>12, <1>13, <1>14, <2>1, Zenon DEF Request
<1>16. MayStep(q)
  BY <1>2, <1>9, <1>10, <1>15, Zenon DEF MayStep, Unfinished
<1>17. Ordinary(q)
  <2>1. req'[q].rec.epoch = 0
    BY <1>3, <1>9, NoDeviceFields, Zenon DEF Same
  <2> QED BY <1>2, <1>8, <1>9, <2>1, Zenon DEF Ordinary, RecRead, Pending, Logging, RingFor
<1> QED BY <1>2, <1>10, <1>16, <1>17, StepKeeps, Zenon

\* ... and Rotate makes it the only active one, forgetting none.
LEMMA RotateKeysTrust ==
  ASSUME TrustInv, GrantInv', NEW q \in Requests, NEW r \in Replicas, RotateKeys(q, r)
  PROVE  TrustInv' /\ Ordinary(q)
<1> DEFINE ring(k) == Rotated(mem[r].ring, k)
<1>1. PICK k \in req[q].key : mem' = [mem EXCEPT ![r].ring = ring(k)]
  BY Zenon DEF RotateKeys
<1>2. /\ UNCHANGED <<store, db, signed, spent, acked>> /\ Leave(q) /\ Request(q) /\ At(q, r, "rotate")
      /\ mem \in [Replicas -> Maps] /\ mem[r].ring \in [Keys -> {"none", "next", "active", "retired"}]
  BY Zenon DEF RotateKeys, TrustInv, StateTypes, Maps
<1>3. k \in Keys /\ mem[r].ring[k] # "none"
  BY <1>2, Zenon DEF Request, RequestTypes, RequestMaps, Get, At
<1>4. /\ ring(k) \in [Keys -> {"none", "next", "active", "retired"}] /\ ring(k)[k] = "active"
      /\ \A j \in Keys : j # k => ring(k)[j] # "active" /\ (ring(k)[j] = "none" <=> mem[r].ring[j] = "none")
  BY <1>2, <1>3, Zenon DEF Rotated
<1> HIDE DEF ring
<1>5. {j \in Keys : ring(k)[j] = "active"} = {k}
  BY <1>3, <1>4, Zenon
<1>6. RingFor(r, ring(k))
  BY <1>1, <1>2, <1>4, RingWritten, Zenon
<1>7. Others(q) /\ Request(q)' /\ req'[q].pc = "idle" /\ req'[q].at = {}
  BY <1>2, LeftRequest, Zenon
<1>8. /\ StateTypes' /\ TablesOK' /\ RingsApart'
      /\ \A s \in Replicas : Grows(s) /\ NoReturn(s) /\ MapsOK(s)'
  <2>1. /\ \A j \in Keys : mem[r].ring[j] # "none" => ring(k)[j] # "none"
        /\ \A j \in Keys : ring(k)[j] # "none" => mem[r].ring[j] # "none" \/ j \in NewKeys
    BY <1>3, <1>4, Zenon
  <2>2. req'[q].pc \notin {"sign"} \cup Issuing
    BY <1>7, Zenon DEF Issuing
  <2> QED BY <1>2, <1>3, <1>5, <1>6, <1>7, <2>1, <2>2, RingSet, SMTT(30)
<1>9. MayStep(q)
  BY <1>2, <1>7, <1>8, Zenon DEF MayStep, Unfinished
<1>10. Ordinary(q)
  <2>1. req'[q].rec.epoch = 0
    BY <1>2, LeftRequest, Zenon
  <2> QED BY <1>2, <1>6, <1>7, <2>1, Zenon DEF Ordinary, RecRead, Pending, Logging, RingFor
<1> QED BY <1>2, <1>8, <1>9, <1>10, StepKeeps, Zenon
-----------------------------------------------------------------------------
(* Restarts, time and the feed.                                            *)

\* A replica that restarts forgets, but then can honour no grant.
LEMMA RestartTrust ==
  ASSUME TrustInv, GrantInv', NEW r \in Replicas, Restart(r)
  PROVE  TrustInv' /\ \A q : Advances(q)
<1>1. PICK k \in NewKeys : mem' = [mem EXCEPT ![r] = Started(k)]
  BY Zenon DEF Restart
<1>2. /\ UNCHANGED <<store, db, signed, spent>>
      /\ req' = [q \in Requests |-> IF req[q].at = {r} THEN Idle ELSE req[q]]
      /\ acked' = IF Postgres THEN acked ELSE [acked EXCEPT ![r] = {}]
  BY Zenon DEF Restart
<1>3. /\ k \in Keys /\ mem \in [Replicas -> Maps] /\ acked \in [Replicas -> SUBSET (Devices \cup Grants)]
      /\ (\A s \in Replicas : ~Get(s, k)) /\ \A g \in Grants : k \notin signed[g].key /\ signed[g].key \subseteq Keys
  BY Zenon DEF NewKeys, TrustInv, StateTypes, Get, Content
<1>4. /\ mem' \in [Replicas -> Maps] /\ (\A s \in Replicas : s # r => mem'[s] = mem[s])
      /\ mem'[r].grants = {} /\ mem'[r].revoked = {} /\ mem'[r].log = <<>>
      /\ \A d \in Devices : mem'[r].devices[d] = NoDevice
      /\ \A j \in Keys : mem'[r].ring[j] = IF j = k THEN "active" ELSE "none"
  <2>1. mem'[r] = Started(k) /\ \A s \in Replicas : s # r => mem'[s] = mem[s]
    BY <1>1, <1>3, Zenon
  <2>2. mem' \in [Replicas -> Maps]
    BY <1>1, <1>3, StartedFacts, Zenon
  <2> QED BY <1>3, <2>1, <2>2, StartedFacts, SMTT(30)
<1>5. /\ acked' \in [Replicas -> SUBSET (Devices \cup Grants)]
      /\ \A s \in Replicas : s # r => acked'[s] = acked[s]
      /\ acked'[r] \subseteq acked[r] /\ (~Postgres => acked'[r] = {}) /\ (Postgres => acked' = acked)
  BY <1>2, <1>3, Zenon
<1>6. \A p \in Requests : \/ req'[p] = Idle
                          \/ req'[p] = req[p] /\ req[p].at # {r}
  BY <1>2, Zenon
<1>7. StateTypes' /\ TablesOK'
  <2>1. TablesOK' BY <1>2, SameTables, Zenon
  <2> QED BY <1>2, <1>4, <1>5, <2>1, Zenon DEF TrustInv, StateTypes
<1>8. RingsApart'
  BY <1>3, <1>4, SMTT(30) DEF TrustInv, RingsApart, Get
<1>9. ASSUME NEW s \in Replicas, s # r PROVE Grows(s) /\ NoReturn(s)
  <2>1. Grows(s)
    BY <1>2, <1>4, <1>5, <1>9, Zenon DEF Grows, Get
  <2>2. mem'[s] = mem[s] /\ \A p \in Requests : req'[p].at = {s} => req'[p] = req[p]
    BY <1>4, <1>6, <1>9, IdleFields, Zenon
  <2> QED BY <1>2, <2>1, <2>2, Zenon DEF NoReturn, Get
<1>10. ASSUME NEW p \in Requests PROVE Request(p)'
  <2>1. CASE req'[p] = Idle
    <3>1. Idle.rec \in Record
      BY IdleFields, NoDeviceFields, Zenon
    <3>2. RequestTypes(p)' /\ RequestRows(p)'
      BY <2>1, <3>1, IdleFields, Zenon DEF RequestTypes, RequestRows, RowLabels, Unfinished
    <3>3. \A s \in Replicas : req'[p].at # {s}
      BY <2>1, IdleFields, Zenon
    <3> QED BY <3>2, <3>3, Zenon DEF Request
  <2>2. CASE req'[p] = req[p] /\ req[p].at # {r}
    <3>1. StateTypes /\ Request(p) /\ \A s \in Replicas : req[p].at = {s} => Grows(s)
      BY <1>9, <2>2, Zenon DEF TrustInv
    <3> QED BY <1>2, <2>2, <3>1, RequestStays, Zenon
  <2> QED BY <1>6, <2>1, <2>2, Zenon
<1>11. GrantsApart'
  <2>1. \A p \in Requests : req'[p].pc \in Unfinished => req'[p] = req[p]
    BY <1>6, IdleFields, Zenon DEF Unfinished
  <2> QED BY <2>1, Zenon DEF TrustInv, GrantsApart
<1>12. ASSUME NEW s \in Replicas PROVE MapsOK(s)'
  <2>1. CASE s = r
    BY <1>3, <1>4, <2>1, SMTT(30) DEF MapsOK, Active, NoDevice
  <2>2. CASE s # r
    BY <1>2, <1>4, <2>2, SMTT(30) DEF TrustInv, MapsOK, Active, Findable, Get
  <2> QED BY <2>1, <2>2, Zenon
<1>13. ASSUME NEW s \in Replicas, NEW x \in acked'[s] PROVE AckedFor(s, x)'
  <2>1. CASE s # r
    BY <1>5, <1>9, <2>1, AckedStays, Zenon
  <2>2. CASE s = r
    <3>1. Postgres /\ Postgres' /\ AckedFor(r, x)
      BY <1>2, <1>5, <2>2, Zenon DEF TrustInv, Postgres
    <3>2. \A p \in Requests : req'[p].at # {r}
      BY <1>6, IdleFields, Zenon
    <3>3. ASSUME x \in Devices PROVE AckedDevice(r, x)'
      <4>1. \A g \in Grants : \A j \in signed'[g].key : ~Get(r, j)'
        BY <1>2, <1>3, <1>4, Zenon DEF Get
      <4>2. Forgotten(r, x)'
        BY <3>2, <4>1, Zenon DEF Forgotten
      <4> QED BY <1>2, <3>1, <3>3, <4>2, Zenon DEF AckedFor, AckedDevice
    <3>4. ASSUME x \in Grants PROVE AckedGrant(r, x)'
      BY <1>2, <1>4, <3>1, <3>2, <3>4, Zenon DEF AckedFor, AckedGrant
    <3> QED BY <1>2, <2>2, <3>1, <3>3, <3>4, Zenon DEF AckedFor
  <2> QED BY <2>1, <2>2, Zenon
<1>14. ASSUME NEW q PROVE Advances(q)
  <2>1. Drawn(q) /\ \A p \in Requests : RecRead(p)
    BY <1>6, IdleFields, NoDeviceFields, Zenon DEF Drawn, RecRead, Pending, Logging
  <2>2. \A s \in Replicas, d \in Devices : mem[s].devices[d].epoch \in Nat
    BY MapEpochs, Zenon
  <2>3. \A s \in Replicas, d \in Devices : mem'[s].devices[d].epoch <= mem[s].devices[d].epoch
    BY <1>4, <2>2, SMTT(30) DEF NoDevice
  <2>4. \A s \in Replicas : LogStep(s)
    BY <1>4, Zenon DEF LogStep
  <2> QED BY <1>2, <2>1, <2>3, <2>4, Zenon DEF Advances
<1> QED BY <1>7, <1>8, <1>10, <1>11, <1>12, <1>13, <1>14, Zenon DEF TrustInv

\* A step that touches no request: only the expiry of grants, or nothing here.
LEMMA NoRequestTrust ==
  ASSUME TrustInv, GrantInv', UNCHANGED <<store, db, spent, mem, req, acked>>, signed' \in [Grants -> Content],
         \A g \in Grants : /\ signed'[g].dev = signed[g].dev /\ signed'[g].key = signed[g].key
                           /\ signed'[g].epoch = signed[g].epoch
  PROVE  TrustInv' /\ \A q : Advances(q)
<1>1. StateTypes' /\ \A s \in Replicas : Grows(s) /\ NoReturn(s)
  BY Zenon DEF TrustInv, StateTypes, Grows, NoReturn, Get
<1>2. ASSUME NEW p \in Requests PROVE Request(p)'
  <2>1. StateTypes /\ Request(p) /\ \A g \in req[p].grant : g \in Grants
    BY Zenon DEF TrustInv, Request, RequestTypes
  <2> QED BY <1>1, <2>1, RequestStays, Zenon
<1>3. TablesOK'
  BY SameTables, Zenon
<1>4. RingsApart' /\ GrantsApart'
  BY Zenon DEF TrustInv, RingsApart, GrantsApart, Get
<1>5. ASSUME NEW s \in Replicas PROVE MapsOK(s)'
  <2>1. mem[s].grants \subseteq Grants BY Zenon DEF TrustInv, StateTypes, Maps
  <2> QED BY <2>1, SMTT(30) DEF TrustInv, MapsOK, Active, Findable, Get
<1>6. ASSUME NEW s \in Replicas, NEW x \in acked'[s] PROVE AckedFor(s, x)'
  BY <1>1, AckedStays, Zenon
<1>7. \A s \in Replicas, d \in Devices : mem[s].devices[d].epoch <= mem[s].devices[d].epoch
  BY MapEpochs, Zenon
<1>8. ASSUME NEW q PROVE Advances(q)
  BY <1>7, Zenon DEF Advances, Drawn, RecRead, LogStep
<1> QED BY <1>1, <1>2, <1>3, <1>4, <1>5, <1>6, <1>8, Zenon DEF TrustInv

\* Expire.
LEMMA ExpireTrust ==
  ASSUME TrustInv, GrantInv', NEW g \in Grants, Expire(g)
  PROVE  TrustInv' /\ \A q : Advances(q)
<1>1. UNCHANGED <<store, db, spent, mem, req, acked>> /\ signed' = [signed EXCEPT ![g].expired = TRUE]
      /\ signed \in [Grants -> Content]
  BY Zenon DEF Expire, TrustInv, StateTypes
<1>2. /\ signed' \in [Grants -> Content]
      /\ \A h \in Grants : /\ signed'[h].dev = signed[h].dev /\ signed'[h].key = signed[h].key
                           /\ signed'[h].epoch = signed[h].epoch
  BY <1>1, Zenon DEF Content
<1> QED BY <1>1, <1>2, NoRequestTrust, Zenon

\* The walk of the feed reads, and so does a step that changes nothing.
LEMMA WalkTrust ==
  ASSUME TrustInv, GrantInv', UNCHANGED <<store, db, signed, spent, mem, req, acked>>
  PROVE  TrustInv' /\ \A q : Advances(q)
<1>1. signed' \in [Grants -> Content]
  BY Zenon DEF TrustInv, StateTypes
<1> QED BY <1>1, NoRequestTrust, Zenon

\* New, on every replica: keys of their own, and nothing else.
LEMMA InitTrust == Init => TrustInv
<1>1. SUFFICES ASSUME Init PROVE TrustInv BY Zenon
<1>2. GrantInv BY <1>1, InitGrants, Zenon
<1>3. PICK start \in [Replicas -> Keys] : IsInjective(start) /\ mem = [r \in Replicas |-> Started(start[r])]
  BY <1>1, Zenon DEF Init
<1>4. ASSUME NEW r \in Replicas
      PROVE  /\ start[r] \in Keys /\ mem[r] \in Maps /\ mem[r].grants = {} /\ mem[r].log = <<>>
             /\ \A d \in Devices : mem[r].devices[d] = NoDevice
             /\ \A j \in Keys : mem[r].ring[j] = IF j = start[r] THEN "active" ELSE "none"
  <2>1. start[r] \in Keys /\ mem[r] = Started(start[r]) BY <1>3, Zenon
  <2> QED BY <2>1, StartedFacts, SMTT(30)
<1>5. NoDevice \in Record /\ NotSigned \in Content
  BY Zenon DEF NoDevice, Record, Status, NotSigned, Content
<1>6. StateTypes
  <2>1. mem \in [Replicas -> Maps]
    BY <1>3, <1>4, Zenon
  <2>2. db \in Tables
    BY <1>1, <1>5, Zenon DEF Init, Tables
  <2>3. signed \in [Grants -> Content] /\ acked \in [Replicas -> SUBSET (Devices \cup Grants)]
    BY <1>1, <1>5, Zenon DEF Init
  <2> QED BY <1>1, <2>1, <2>2, <2>3, Zenon DEF StateTypes, Init
<1>7. TablesOK
  BY <1>1, Zenon DEF Init, TablesOK, NoDevice, NotSigned
<1>8. RingsApart
  BY <1>3, <1>4, SMTT(30) DEF RingsApart, Get, IsInjective
<1>9. ASSUME NEW p \in Requests PROVE Request(p) /\ req[p].pc = "idle"
  <2>1. req[p] = Idle BY <1>1, Zenon DEF Init
  <2>2. RequestTypes(p) /\ RequestRows(p)
    BY <1>5, <2>1, IdleFields, Zenon DEF RequestTypes, RequestRows, RowLabels, Unfinished
  <2>3. \A s \in Replicas : req[p].at # {s}
    BY <2>1, IdleFields, Zenon
  <2> QED BY <2>1, <2>2, <2>3, IdleFields, Zenon DEF Request
<1>10. GrantsApart
  BY <1>9, Zenon DEF GrantsApart, Unfinished
<1>11. ASSUME NEW r \in Replicas PROVE MapsOK(r) /\ acked[r] = {}
  <2>1. \A d \in Devices : mem[r].devices[d].epoch = 0
    BY <1>4, NoDeviceFields, Zenon
  <2>2. Active(r) = {start[r]}
    BY <1>4, SMTT(30) DEF Active
  <2>3. MapsOK(r)
    BY <1>4, <2>1, <2>2, SMTT(30) DEF MapsOK
  <2> QED BY <1>1, <2>3, Zenon DEF Init
<1> QED BY <1>2, <1>6, <1>7, <1>8, <1>9, <1>10, <1>11, Zenon DEF TrustInv

\* Every step of the Trust Root keeps the invariant, and deals with ids as Advances says.
LEMMA NextTrust ==
  ASSUME TrustInv, [Next]_vars
  PROVE  TrustInv' /\ (CountInv => \E q : Advances(q))
<1> DEFINE Goal == TrustInv' /\ (CountInv => \E q : Advances(q))
<1>a. ASSUME NEW q \in Requests, TrustInv' /\ (Ordinary(q) \/ (CountInv => Advances(q))) PROVE Goal
  BY <1>a, OrdinaryAdvances, Zenon
<1> SUFFICES Goal
  BY Zenon
<1> HIDE DEF Goal
<1>0. GrantInv'
  BY NextGrants, Zenon DEF TrustInv
<1>1. ASSUME NEW q \in Requests, NEW r \in Replicas, Handle(q, r) PROVE Goal
  <2>1. ASSUME NEW d \in Devices, SubmitDevice(q, r, d) \/ AuthorizeInMap(q, r, d) \/ DeviceStatus(q, r, d) \/ RevokeInMap(q, r, d)
        PROVE  Goal
    BY <1>0, <1>a, <2>1, SubmitDeviceTrust, AuthorizeInMapTrust, DeviceStatusTrust, RevokeInMapTrust, Zenon
  <2>2. ASSUME NEW g \in Grants, VerifyRequest(q, r, g) \/ GrantStatus(q, r, g) \/ RevokeGrant(q, r, g)
        PROVE  Goal
    BY <1>0, <1>a, <2>2, VerifyRequestTrust, GrantStatusTrust, RevokeGrantTrust, Zenon
  <2>3. CASE RecordSubmitted(q, r) \/ SignGrant(q, r) \/ PublishGrant(q, r)
    BY <1>0, <1>a, <2>3, RecordSubmittedTrust, SignGrantTrust, PublishGrantTrust, Zenon
  <2>4. CASE VerifyAgainstRow(q, r) \/ JudgeGrant(q, r)
    BY <1>0, <1>a, <2>4, VerifyAgainstRowTrust, JudgeGrantTrust, Zenon
  <2>5. CASE RecordGrantRevocation(q, r) \/ LogDeviceRevocation(q, r)
    BY <1>0, <1>a, <2>5, RecordGrantRevocationTrust, LogDeviceRevocationTrust, Zenon
  <2>6. CASE AddNextKey(q, r) \/ RotateKeys(q, r)
    BY <1>0, <1>a, <2>6, AddNextKeyTrust, RotateKeysTrust, Zenon
  <2> QED BY <1>1, <2>1, <2>2, <2>3, <2>4, <2>5, <2>6, Zenon DEF Handle
<1>2. ASSUME NEW q \in Requests, \/ AuthorizeDevice(q) \/ StoreGrant(q) \/ GetDevice(q) \/ GetGrant(q)
                                 \/ LogGrantRevocation(q) \/ RevokeDevice(q)
      PROVE  Goal
  BY <1>0, <1>a, <1>2, AuthorizeDeviceTrust, StoreGrantTrust, GetDeviceTrust, GetGrantTrust, LogGrantRevocationTrust, RevokeDeviceTrust, Zenon
<1>3. ASSUME NEW q \in Requests, Answer(q) \/ Fail(q) PROVE Goal
  BY <1>0, <1>a, <1>3, LeaveQuiet, Zenon DEF Answer, Fail
<1>4. ASSUME NEW r \in Replicas, StartWalk(r) \/ Revocations(r) PROVE Goal
  BY <1>0, <1>4, WalkTrust, Zenon DEF StartWalk, Revocations, Goal
<1>5. ASSUME NEW r \in Replicas, Restart(r) PROVE Goal
  BY <1>0, <1>5, RestartTrust, Zenon DEF Goal
<1>6. ASSUME NEW g \in Grants, Expire(g) PROVE Goal
  BY <1>0, <1>6, ExpireTrust, Zenon DEF Goal
<1>7. CASE UNCHANGED vars
  BY <1>0, <1>7, WalkTrust, Zenon DEF vars, Goal
<1> QED BY <1>1, <1>2, <1>3, <1>4, <1>5, <1>6, <1>7, Zenon DEF Next

\* What the requests have made sure of, and what tables, maps and rings say of
\* each other, in every reachable state.
THEOREM TrustInvariant == Spec => []TrustInv
<1>1. TrustInv /\ [Next]_vars => TrustInv'
  BY NextTrust, Zenon
<1> QED BY <1>1, InitTrust, PTL DEF Spec

\* Whatever requests overlap, a revoked device stays revoked and its epoch never
\* falls: in the table for good, in the map of a replica until it restarts.
THEOREM RevocationsNeverTakenBack == Spec => RevocationsAreKept
<1>1. Init => KnownRows
  BY SMTT(30) DEF Init, KnownRows
<1>2. TrustInv /\ KnownRows /\ [Next]_vars => KnownRows'
  BY NextRecords, Zenon
<1>3. TrustInv /\ KnownRows /\ [Next]_vars => [RecordsKept]_vars
  BY NextRecords, Zenon
<1>4. Spec => []KnownRows
  BY <1>1, <1>2, TrustInvariant, PTL DEF Spec
<1> QED BY <1>3, <1>4, TrustInvariant, PTL DEF Spec, RevocationsAreKept

\* Whatever the replicas were doing and however often they restarted, none
\* verifies a grant of a device whose revocation it answered, nor reports a
\* grant as active or expired whose revocation it answered.
THEOREM RevocationsAlwaysHold == Spec => []AnsweredRevocationsHold
<1>1. TrustInv => AnsweredRevocationsHold
  <2> SUFFICES ASSUME TrustInv, NEW q \in Requests, req[q].pc \in {"valid", "active", "expired"} PROVE req[q].must = {}
    BY Zenon DEF AnsweredRevocationsHold
  <2>1. PICK r \in Replicas : req[q].at = {r}
    BY Zenon DEF TrustInv, Request, RequestTypes
  <2> QED BY <2>1, Zenon DEF TrustInv, Request, RequestMaps
<1> QED BY <1>1, TrustInvariant, PTL

\* The feed's table never says more than the other two, and every revocation
\* that a replica answered is in it.
THEOREM FeedAlwaysFaithful == Spec => []FeedFaithful
<1>1. TrustInv => FeedFaithful
  <2> SUFFICES ASSUME TrustInv, Postgres PROVE FeedFaithful
    BY Zenon DEF FeedFaithful
  <2>1. ASSUME NEW i \in db.feed, i.type # "grant"
        PROVE  i.epoch <= db.device[i.subject].epoch /\ (i.epoch > 0 => db.device[i.subject].status = "revoked")
    <3>1. i.subject \in Devices /\ i.epoch <= db.device[i.subject].epoch
      BY <2>1, Zenon DEF TrustInv, TablesOK
    <3>2. i.epoch \in Nat /\ db.device[i.subject].epoch \in Nat
      BY <3>1, Zenon DEF TrustInv, StateTypes, Tables, FeedItem, Record
    <3>3. db.device[i.subject].status # "revoked" => db.device[i.subject].epoch = 0
      BY <3>1, Zenon DEF TrustInv, GrantInv, RowsOK
    <3> QED BY <3>1, <3>2, <3>3
  <2>2. \A i \in db.feed : i.type = "grant" => i.subject \in db.revoked
    BY Zenon DEF TrustInv, TablesOK
  <2>3. \A r \in Replicas : \A s \in acked[r] : \E i \in db.feed : i.subject = s
    BY Zenon DEF TrustInv, AckedFor
  <2> QED BY <2>1, <2>2, <2>3, Zenon DEF FeedFaithful
<1> QED BY <1>1, TrustInvariant, PTL
-----------------------------------------------------------------------------
(***************************************************************************)
(* The rest of the argument counts.  The facts of finite sets and numbers  *)
(* that it rests on are named here and proved at the end of the module, in *)
(* Counting, from the library.                                             *)
(***************************************************************************)
SizeLaw == /\ \A S : IsFiniteSet(S) => Cardinality(S) \in Nat
           /\ Cardinality({}) = 0 /\ \A x : Cardinality({x}) = 1
PartLaw == \A S : IsFiniteSet(S) => \A T \in SUBSET S :
               /\ IsFiniteSet(T) /\ Cardinality(T) <= Cardinality(S)
               /\ Cardinality(S) = Cardinality(T) => S = T
TakeLaw == \A S : IsFiniteSet(S) => \A x \in S : Cardinality(S \ {x}) = Cardinality(S) - 1
IdsLaw == IsFiniteSet(Ids) /\ Cardinality(Ids) = MaxId
LeastLaw == \A T \in SUBSET Nat : T # {} => \E x \in T : \A y \in T : x <= y
CountingLaws == SizeLaw /\ PartLaw /\ TakeLaw /\ IdsLaw /\ LeastLaw

\* The order of the natural numbers, in the forms that counting epochs uses.
LEMMA NatOrder == \A a \in Nat : a <= a /\ 0 <= a /\ ~(a < a)
  OBVIOUS

\* It is transitive.
LEMMA NatTrans == \A a, b, c \in Nat : a <= b /\ b <= c => a <= c
  OBVIOUS

\* One more than what is below u is below whatever is above u.
LEMMA NatReach == \A a, b, u, v \in Nat : (a <= b + 1 /\ b <= u /\ u <= v /\ u # v) => a <= v
  OBVIOUS

\* What is above c has at least c below it.
LEMMA NatBelow == \A a, b, c \in Nat : ~(a <= c) /\ a - 1 <= b => ~(b < c)
  OBVIOUS

\* Ids are numbers, and 0 is none of them.
LEMMA IdNumbers == MaxId \in Nat /\ Ids \subseteq Nat /\ 0 \notin Ids /\ \A i \in Ids : i <= MaxId /\ i > 0
  BY TrustConstants DEF Ids

\* New: the log is empty.
LEMMA EmptyLog == DOMAIN <<>> = {}
  OBVIOUS

\* A step that leaves maps and tables alone leaves the order of the feed alone.
LEMMA SamePlaces ==
  ASSUME UNCHANGED <<store, db, mem>>, NEW r
  PROVE  Postgres' = Postgres /\ Held(r)' = Held(r) /\ \A i : Place(r, i)' = Place(r, i)
  BY DEF Postgres, Held, Place
-----------------------------------------------------------------------------
(* Keys, ids, logs and epochs.                                             *)

\* One active key on each replica, and the keys of what it issued.
LEMMA KeysKept ==
  ASSUME CountingLaws, TrustInv, NEW r \in Replicas
  PROVE  Cardinality(Active(r)) = 1 /\ \A g \in mem[r].grants : \A k \in signed[g].key : Get(r, k)
<1>1. PICK k \in Keys : Active(r) = {k}
  BY Zenon DEF TrustInv, MapsOK
<1>2. Cardinality(Active(r)) = 1
  BY <1>1, Zenon DEF CountingLaws, SizeLaw
<1> QED BY <1>2, Zenon DEF TrustInv, MapsOK, Findable

\* The ids drawn are finitely many.
LEMMA SpentFinite ==
  ASSUME CountingLaws, TrustInv
  PROVE  /\ IsFiniteSet(spent) /\ IsFiniteSet(Used) /\ Used \subseteq spent
         /\ Cardinality(spent) \in Nat /\ Cardinality(Used) \in Nat
         /\ Cardinality(Used) <= Cardinality(spent) /\ Cardinality(spent) <= MaxId
<1>1. IsFiniteSet(Ids) /\ Cardinality(Ids) = MaxId
  BY Zenon DEF CountingLaws, IdsLaw
<1>2. spent \subseteq Ids /\ Used \subseteq spent
  BY Zenon DEF TrustInv, StateTypes, Used
<1>3. IsFiniteSet(spent) /\ Cardinality(spent) <= MaxId
  BY <1>1, <1>2, Zenon DEF CountingLaws, PartLaw
<1>4. IsFiniteSet(Used) /\ Cardinality(Used) <= Cardinality(spent)
  BY <1>2, <1>3, Zenon DEF CountingLaws, PartLaw
<1> QED BY <1>2, <1>3, <1>4, Zenon DEF CountingLaws, SizeLaw

\* No two requests hold the same id.
LEMMA IdsStayApart ==
  ASSUME TrustInv, IdsApart, NEW q, Drawn(q)
  PROVE  IdsApart'
<1>1. \A p \in Requests : req[p].pc \in Pending => req[p].id \in spent
  BY Zenon DEF TrustInv, Request, RequestTypes, Pending, Logging
<1>2. \A p \in Requests : req'[p].pc \in Pending =>
         \/ req[p].pc \in Pending /\ req'[p].id = req[p].id
         \/ p = q /\ req'[p].id \notin spent
  BY Zenon DEF Drawn, Pending
<1> QED BY <1>1, <1>2, Zenon DEF IdsApart

\* No id is listed twice.
LEMMA LogStays ==
  ASSUME TrustInv, TrustInv', CountInv, NEW q, Drawn(q), NEW r \in Replicas, LogStep(r)
  PROVE  LogOK(r)'
<1>1. /\ mem[r].log \in Seq(Ids) /\ mem'[r].log \in Seq(Ids) /\ LogOK(r)
      /\ \A n \in DOMAIN mem[r].log : mem[r].log[n] \in spent
  BY Zenon DEF TrustInv, StateTypes, Maps, CountInv, MapsOK
<1>2. \A p \in Requests : req'[p].pc \in Logging =>
         \/ req[p].pc \in Logging /\ req'[p].id = req[p].id
         \/ req'[p].id \notin spent
  BY Zenon DEF Drawn, Pending
<1>3. \A p \in Requests, n \in DOMAIN mem[r].log : req'[p].pc \in Logging => mem[r].log[n] # req'[p].id
  BY <1>1, <1>2, Zenon DEF LogOK
<1>4. CASE mem'[r].log = mem[r].log
  BY <1>1, <1>3, <1>4, Zenon DEF LogOK
<1>5. CASE mem'[r].log = <<>>
  BY <1>5, EmptyLog, Zenon DEF LogOK
<1>6. ASSUME NEW i \in Ids, mem'[r].log = Append(mem[r].log, i), \A n \in DOMAIN mem[r].log : mem[r].log[n] # i,
             \A p \in Requests : req'[p].pc \in Logging => req'[p].id # i
      PROVE  LogOK(r)'
  <2> DEFINE l == mem[r].log
             k == mem'[r].log
  <2>1. /\ DOMAIN l = 1 .. Len(l) /\ Len(l) \in Nat /\ DOMAIN k = 1 .. Len(l) + 1 /\ k[Len(l) + 1] = i
        /\ \A n \in DOMAIN l : k[n] = l[n]
    BY <1>1, <1>6, SMTT(30)
  <2>2. \A m, n \in DOMAIN l : l[m] = l[n] => m = n
    BY <1>1, Zenon DEF LogOK
  <2>3. /\ \A n \in DOMAIN l : l[n] # i
        /\ \A p \in Requests, n \in DOMAIN l : req'[p].pc \in Logging => l[n] # req'[p].id
    BY <1>3, <1>6, Zenon
  <2> HIDE DEF l, k
  <2>4. \A n \in DOMAIN k : n \in DOMAIN l \/ n = Len(l) + 1
    BY <2>1, SMTT(30)
  <2>5. \A m, n \in DOMAIN k : k[m] = k[n] => m = n
    BY <2>1, <2>2, <2>3, <2>4, Zenon
  <2>6. \A p \in Requests, n \in DOMAIN k : req'[p].pc \in Logging => k[n] # req'[p].id
    BY <1>6, <2>1, <2>3, <2>4, Zenon
  <2> QED BY <2>5, <2>6, Zenon DEF LogOK, k
<1> QED BY <1>4, <1>5, <1>6, Zenon DEF LogStep

\* An epoch rises at most once for every id.
LEMMA CountsStay ==
  ASSUME CountingLaws, TrustInv, TrustInv', CountInv, NEW q, Advances(q)
  PROVE  CountsOK'
<1>1. /\ Cardinality(spent) \in Nat /\ Cardinality(Used) \in Nat /\ Cardinality(Used) <= Cardinality(spent)
      /\ IsFiniteSet(spent) /\ IsFiniteSet(Used)
  BY SpentFinite, Zenon
<1>2. /\ Cardinality(spent') \in Nat /\ Cardinality(Used') \in Nat /\ IsFiniteSet(spent') /\ IsFiniteSet(Used')
  <2>1. spent' \subseteq Ids /\ Used' \subseteq spent' /\ IsFiniteSet(Ids)
    BY Zenon DEF TrustInv, StateTypes, Used, CountingLaws, IdsLaw
  <2>2. IsFiniteSet(spent')
    BY <2>1, Zenon DEF CountingLaws, PartLaw
  <2>3. IsFiniteSet(Used')
    BY <2>1, <2>2, Zenon DEF CountingLaws, PartLaw
  <2> QED BY <2>2, <2>3, Zenon DEF CountingLaws, SizeLaw
<1>3. Cardinality(spent) <= Cardinality(spent') /\ (spent' # spent => Cardinality(spent) # Cardinality(spent'))
  <2>1. Cardinality(spent) <= Cardinality(spent')
    BY <1>2, Zenon DEF Advances, CountingLaws, PartLaw
  <2>2. spent' # spent => Cardinality(spent) # Cardinality(spent')
    BY <1>2, Zenon DEF Advances, CountingLaws, PartLaw
  <2> QED BY <2>1, <2>2, Zenon
<1>4. Used \subseteq Used'
  BY Zenon DEF Advances, Drawn, Used, Pending, Logging
<1>5. Cardinality(Used) <= Cardinality(Used')
  BY <1>2, <1>4, Zenon DEF CountingLaws, PartLaw
<1>6. Epochs /\ Epochs'
  BY EpochTypes, EpochTypesNext, Zenon
<1>7. CountsOK /\ IdsApart
  BY Zenon DEF CountInv
<1>8. ASSUME NEW d \in Devices PROVE db'.device[d].epoch <= Cardinality(Used')
  <2>1. CASE db'.device[d].epoch = db.device[d].epoch
    <3>1. db.device[d].epoch \in Nat /\ db.device[d].epoch <= Cardinality(Used)
      BY <1>6, <1>7, Zenon DEF CountsOK, Epochs
    <3>2. db.device[d].epoch <= Cardinality(Used')
      BY <1>1, <1>2, <1>5, <3>1, NatTrans, Zenon
    <3> QED BY <2>1, <3>2, Zenon
  <2>2. CASE /\ q \in Requests /\ req[q].pc = "revokeRow" /\ req'[q].pc = "logDevice"
             /\ db'.device[d].epoch <= db.device[d].epoch + 1
    <3>1. req[q].id \in spent /\ req[q].id \notin Used
      BY <2>2, Zenon DEF TrustInv, Request, RequestTypes, Used
    <3>2. req[q].id \in Used'
      BY <1>7, <2>2, <3>1, Zenon DEF Used, Advances, Drawn, IdsApart, Pending, Logging
    <3>3. Cardinality(Used) # Cardinality(Used')
      BY <1>2, <1>4, <3>1, <3>2, Zenon DEF CountingLaws, PartLaw
    <3>4. db.device[d].epoch <= Cardinality(Used)
      BY <1>7, Zenon DEF CountsOK
    <3>5. db.device[d].epoch \in Nat /\ db'.device[d].epoch \in Nat
      BY <1>6, Zenon DEF Epochs
    <3> QED BY <1>1, <1>2, <1>5, <2>2, <3>3, <3>4, <3>5, NatReach, Zenon
  <2> QED BY <2>1, <2>2, Zenon DEF Advances
<1>9. ASSUME NEW r \in Replicas, NEW d \in Devices PROVE mem'[r].devices[d].epoch <= Cardinality(spent')
  <2>1. mem[r].devices[d].epoch <= Cardinality(spent)
    BY <1>7, Zenon DEF CountsOK
  <2>2. \/ mem'[r].devices[d].epoch <= mem[r].devices[d].epoch
        \/ mem'[r].devices[d].epoch <= mem[r].devices[d].epoch + 1 /\ spent' # spent
    BY Zenon DEF Advances
  <2>3. mem[r].devices[d].epoch \in Nat /\ mem'[r].devices[d].epoch \in Nat
    BY <1>6, Zenon DEF Epochs
  <2>4. CASE mem'[r].devices[d].epoch <= mem[r].devices[d].epoch
    <3>1. mem'[r].devices[d].epoch <= Cardinality(spent)
      BY <1>1, <2>1, <2>3, <2>4, NatTrans, Zenon
    <3> QED BY <1>1, <1>2, <1>3, <2>3, <3>1, NatTrans, Zenon
  <2>5. CASE mem'[r].devices[d].epoch <= mem[r].devices[d].epoch + 1 /\ spent' # spent
    BY <1>1, <1>2, <1>3, <2>1, <2>3, <2>5, NatReach, Zenon
  <2> QED BY <2>2, <2>4, <2>5, Zenon
<1>10. /\ \A d \in Devices : db.device[d].epoch <= Cardinality(spent')
       /\ \A r \in Replicas, d \in Devices : mem[r].devices[d].epoch <= Cardinality(spent')
       /\ \A p \in Requests : req[p].rec.epoch <= Cardinality(spent')
       /\ \A i \in db.feed : i.epoch <= Cardinality(spent')
       /\ 0 <= Cardinality(spent')
  <2>1. \A n \in Nat : n <= Cardinality(spent) => n <= Cardinality(spent')
    BY <1>1, <1>2, <1>3, NatTrans, Zenon
  <2>2. \A n \in Nat : n <= Cardinality(Used) => n <= Cardinality(spent)
    BY <1>1, NatTrans, Zenon
  <2>3. 0 <= Cardinality(spent')
    BY <1>2, NatOrder, Zenon
  <2> QED BY <1>6, <1>7, <2>1, <2>2, <2>3, Zenon DEF CountsOK, Epochs
<1>11. \A p \in Requests : req'[p].rec.epoch <= Cardinality(spent')
  BY <1>10, Zenon DEF Advances, RecRead
<1>12. \A i \in db'.feed : i.epoch <= Cardinality(spent')
  BY <1>10, Zenon DEF Advances
<1> QED BY <1>8, <1>9, <1>11, <1>12, Zenon DEF CountsOK

\* Ids, logs and epochs are in order in the beginning ...
LEMMA InitCounts ==
  ASSUME CountingLaws, Init
  PROVE  CountInv
<1>1. TrustInv BY InitTrust, Zenon
<1>2. Cardinality(spent) \in Nat /\ Cardinality(Used) \in Nat
  BY <1>1, SpentFinite, Zenon
<1>3. \A p \in Requests : req[p].pc = "idle" /\ req[p].rec.epoch = 0
  BY IdleFields, NoDeviceFields, Zenon DEF Init
<1>4. ASSUME NEW r \in Replicas PROVE mem[r].log = <<>> /\ \A d \in Devices : mem[r].devices[d].epoch = 0
  <2>1. PICK start \in [Replicas -> Keys] : mem = [s \in Replicas |-> Started(start[s])]
    BY Zenon DEF Init
  <2>2. start[r] \in Keys /\ mem[r] = Started(start[r]) BY <2>1, Zenon
  <2>3. /\ Started(start[r]).log = <<>>
        /\ \A d \in Devices : Started(start[r]).devices[d] = NoDevice
    BY <2>2, StartedFacts, Zenon
  <2> QED BY <2>2, <2>3, NoDeviceFields, Zenon
<1>5. CountsOK
  <2>1. 0 <= Cardinality(spent) /\ 0 <= Cardinality(Used)
    BY <1>2, NatOrder, Zenon
  <2>2. db.feed = {} /\ \A d \in Devices : db.device[d].epoch = 0
    BY NoDeviceFields, Zenon DEF Init
  <2>3. \A d \in Devices : db.device[d].epoch <= Cardinality(Used)
    BY <2>1, <2>2, Zenon
  <2>4. \A r \in Replicas, d \in Devices : mem[r].devices[d].epoch <= Cardinality(spent)
    BY <1>4, <2>1, Zenon
  <2>5. \A p \in Requests : req[p].rec.epoch <= Cardinality(spent)
    BY <1>3, <2>1, Zenon
  <2> QED BY <2>2, <2>3, <2>4, <2>5, Zenon DEF CountsOK
<1>6. IdsApart /\ \A r \in Replicas : LogOK(r)
  BY <1>3, <1>4, EmptyLog, Zenon DEF IdsApart, LogOK, Pending, Logging
<1> QED BY <1>5, <1>6, Zenon DEF CountInv

\* ... and stay so.
LEMMA NextCounts ==
  ASSUME CountingLaws, TrustInv, CountInv, [Next]_vars
  PROVE  TrustInv' /\ CountInv'
<1>1. PICK q : TrustInv' /\ Advances(q)
  BY NextTrust, Zenon
<1>2. IdsApart' /\ CountsOK' /\ \A r \in Replicas : LogOK(r)'
  BY <1>1, IdsStayApart, CountsStay, LogStays, Zenon DEF Advances, CountInv
<1> QED BY <1>1, <1>2, Zenon DEF CountInv

\* The ids drawn bound every epoch.
LEMMA CountedTypes ==
  ASSUME CountingLaws, TrustInv, CountInv
  PROVE  TypeOK
<1>1. /\ Cardinality(spent) \in Nat /\ Cardinality(Used) \in Nat /\ Cardinality(Used) <= Cardinality(spent)
      /\ Cardinality(spent) <= MaxId /\ MaxId \in Nat
  BY SpentFinite, TrustConstants, Zenon
<1>2. ASSUME NEW f \in Record, f.epoch <= Cardinality(spent) PROVE f \in DeviceRecord
  <2>1. f.epoch \in 0 .. MaxId
    BY <1>1, <1>2, SMTT(30) DEF Record
  <2> QED BY <2>1, Zenon DEF Record, DeviceRecord
<1>3. db.device \in [Devices -> DeviceRecord]
  <2>1. db.device \in [Devices -> Record] BY Zenon DEF TrustInv, StateTypes, Tables
  <2>2. \A d \in Devices : db.device[d].epoch <= Cardinality(spent)
    <3>1. \A d \in Devices : db.device[d].epoch \in Nat /\ db.device[d].epoch <= Cardinality(Used)
      BY <2>1, Zenon DEF Record, CountInv, CountsOK
    <3> QED BY <1>1, <3>1, SMTT(30)
  <2> QED BY <1>2, <2>1, <2>2, Zenon
<1>4. \A i \in db.feed : i.id \in spent /\ i.epoch \in 0 .. MaxId
  <2>1. \A i \in db.feed : i.epoch \in Nat /\ i.epoch <= Cardinality(spent) /\ i.id \in spent
    BY Zenon DEF TrustInv, StateTypes, Tables, FeedItem, TablesOK, CountInv, CountsOK
  <2> QED BY <1>1, <2>1, SMTT(30)
<1>5. \A g \in Grants : signed[g].dev \subseteq Devices /\ signed[g].key \subseteq Keys /\ signed[g].epoch \in 0 .. MaxId
  BY <1>1, SMTT(30) DEF TrustInv, StateTypes, Content, TablesOK
<1>6. ASSUME NEW r \in Replicas
      PROVE  /\ mem[r].devices \in [Devices -> DeviceRecord]
             /\ mem[r].ring \in [Keys -> {"none", "next", "active", "retired"}]
             /\ mem[r].grants \subseteq Grants /\ mem[r].revoked \subseteq Grants
             /\ Range(mem[r].log) \subseteq spent
  <2>1. mem[r] \in Maps /\ mem[r].devices \in [Devices -> Record]
    BY Zenon DEF TrustInv, StateTypes, Maps
  <2>2. \A d \in Devices : mem[r].devices[d] \in DeviceRecord
    BY <1>2, <2>1, Zenon DEF CountInv, CountsOK
  <2>3. Range(mem[r].log) \subseteq spent
    BY Zenon DEF TrustInv, MapsOK, Range
  <2>4. mem[r].devices \in [Devices -> DeviceRecord]
    BY <2>1, <2>2, Zenon
  <2> QED BY <2>1, <2>3, <2>4, Zenon DEF Maps
<1>7. \A q \in Requests : req[q].rec \in DeviceRecord
  BY <1>2, Zenon DEF TrustInv, Request, RequestTypes, CountInv, CountsOK
<1>8. store \in Stores /\ spent \subseteq Ids /\ db.revoked \subseteq db.stored /\ db.stored \subseteq Grants
  BY Zenon DEF TrustInv, StateTypes, Tables, TablesOK
<1> QED BY <1>3, <1>4, <1>5, <1>6, <1>7, <1>8, Zenon DEF TypeOK

-----------------------------------------------------------------------------
(***************************************************************************)
(* A walk through the feed.  First what a page is: the first of what is    *)
(* left, all of it when it is less than a page, and otherwise such that    *)
(* what is left out comes after the last of the page.                      *)
(***************************************************************************)
\* A bounded set of numbers has a greatest one.
LEMMA GreatestOf ==
  ASSUME CountingLaws, NEW T, T \subseteq Nat, T # {}, NEW n \in Nat, \A y \in T : y <= n
  PROVE  \E x \in T : \A y \in T : y <= x
<1> DEFINE U == {n - y : y \in T}
<1>1. U \subseteq Nat /\ U # {}
  <2>1. \A y \in T : n - y \in Nat
    BY SMTT(30)
  <2>2. PICK y \in T : TRUE
    BY Zenon
  <2>3. n - y \in U
    BY Zenon
  <2> QED BY <2>1, <2>3, Zenon
<1>2. PICK u \in U : \A v \in U : u <= v
  <2> HIDE DEF U
  <2> QED BY <1>1, Zenon DEF CountingLaws, LeastLaw
<1>3. PICK x \in T : u = n - x
  BY Zenon
<1>4. \A y \in T : n - x <= n - y
  BY <1>2, <1>3, Zenon
<1> QED BY <1>3, <1>4, SMTT(30)

\* The places in the order of replica r's feed.
PlacesOK(r) ==
    /\ IsFiniteSet(Held(r))
    /\ \E n \in Nat : \A i \in Held(r) : Place(r, i) \in Nat /\ Place(r, i) <= n
    /\ \A i, j \in Held(r) : Place(r, i) = Place(r, j) => i = j

\* The ids up to one, in what is left.
UpTo(r, i) == {j \in Rest(r) : Place(r, j) <= Place(r, i)}

\* First and last of some ids of the feed.
LEMMA EndsOf ==
  ASSUME CountingLaws, NEW r, PlacesOK(r), NEW T, T \subseteq Held(r), T # {}
  PROVE  /\ \E i \in T : \A j \in T : Place(r, i) <= Place(r, j)
         /\ LastOf(r, T) \in T /\ \A j \in T : Place(r, j) <= Place(r, LastOf(r, T))
<1> DEFINE P == {Place(r, i) : i \in T}
<1>1. PICK n \in Nat : \A i \in Held(r) : Place(r, i) \in Nat /\ Place(r, i) <= n
  BY Zenon DEF PlacesOK
<1>2. P \subseteq Nat /\ P # {} /\ \A p \in P : p <= n
  BY <1>1, Zenon
<1>3. PICK a \in P : \A p \in P : a <= p
  <2> HIDE DEF P
  <2> QED BY <1>2, Zenon DEF CountingLaws, LeastLaw
<1>4. PICK b \in P : \A p \in P : p <= b
  <2> HIDE DEF P
  <2> QED BY <1>2, GreatestOf, Zenon
<1>5. \E i \in T : \A j \in T : Place(r, j) <= Place(r, i)
  BY <1>4, Zenon
<1> QED BY <1>3, <1>5, SMTT(30) DEF LastOf

\* What is left, and what of it is up to an id, is finite.
LEMMA RestFinite ==
  ASSUME CountingLaws, NEW r, PlacesOK(r), NEW i
  PROVE  /\ Rest(r) \subseteq Held(r) /\ IsFiniteSet(Rest(r)) /\ IsFiniteSet(UpTo(r, i)) /\ UpTo(r, i) \subseteq Rest(r)
         /\ IsFiniteSet(Page(r)) /\ Page(r) \subseteq Rest(r)
         /\ Cardinality(UpTo(r, i)) \in Nat /\ Cardinality(Page(r)) \in Nat
<1>1. Rest(r) \subseteq Held(r) /\ UpTo(r, i) \subseteq Rest(r) /\ Page(r) \subseteq Rest(r)
  BY Zenon DEF Rest, UpTo, Page
<1>2. IsFiniteSet(Rest(r))
  BY <1>1, Zenon DEF PlacesOK, CountingLaws, PartLaw
<1>3. IsFiniteSet(UpTo(r, i)) /\ IsFiniteSet(Page(r))
  BY <1>1, <1>2, Zenon DEF CountingLaws, PartLaw
<1> QED BY <1>1, <1>2, <1>3, Zenon DEF CountingLaws, SizeLaw

\* A page is no larger than the limit ...
LEMMA PageSize ==
  ASSUME CountingLaws, NEW r, PlacesOK(r)
  PROVE  Cardinality(Page(r)) <= Limit
<1>1. CASE Page(r) = {}
  <2>1. Cardinality(Page(r)) = 0
    BY <1>1, Zenon DEF CountingLaws, SizeLaw
  <2> QED BY <2>1, TrustConstants, NatOrder, Zenon
<1>2. CASE Page(r) # {}
  <2> DEFINE m == LastOf(r, Page(r))
  <2>1. m \in Page(r) /\ \A j \in Page(r) : Place(r, j) <= Place(r, m)
    BY <1>2, EndsOf, RestFinite, Zenon
  <2> HIDE DEF m
  <2>2. Page(r) \subseteq UpTo(r, m) /\ Cardinality(UpTo(r, m)) <= Limit
    BY <2>1, Zenon DEF Page, UpTo
  <2>3. Cardinality(Page(r)) <= Cardinality(UpTo(r, m))
    BY <2>2, RestFinite, Zenon DEF CountingLaws, PartLaw
  <2>4. Cardinality(Page(r)) \in Nat /\ Cardinality(UpTo(r, m)) \in Nat /\ Limit \in Nat
    BY RestFinite, TrustConstants, Zenon
  <2> QED BY <2>2, <2>3, <2>4, NatTrans, Zenon
<1> QED BY <1>1, <1>2, Zenon

\* ... is all that is left when it is smaller ...
LEMMA PageShort ==
  ASSUME CountingLaws, NEW r, PlacesOK(r), Cardinality(Page(r)) < Limit
  PROVE  Page(r) = Rest(r)
<1>1. SUFFICES ASSUME Rest(r) \ Page(r) # {} PROVE FALSE
  BY RestFinite, Zenon
<1>2. PICK i \in Rest(r) \ Page(r) : \A j \in Rest(r) \ Page(r) : Place(r, i) <= Place(r, j)
  BY <1>1, EndsOf, RestFinite, Zenon
<1>3. ~(Cardinality(UpTo(r, i)) <= Limit) /\ i \in UpTo(r, i)
  <2>1. Place(r, i) \in Nat BY RestFinite, Zenon DEF PlacesOK
  <2> QED BY <2>1, SMTT(30) DEF Page, UpTo
<1>4. UpTo(r, i) \ {i} \subseteq Page(r)
  <2>1. SUFFICES ASSUME NEW j \in UpTo(r, i), j # i, j \notin Page(r) PROVE FALSE
    BY Zenon
  <2>2. i \in Held(r) /\ j \in Held(r) /\ j \in Rest(r) /\ Place(r, j) <= Place(r, i)
    BY RestFinite, Zenon DEF UpTo
  <2>3. Place(r, i) \in Nat /\ Place(r, j) \in Nat /\ Place(r, i) <= Place(r, j)
    BY <1>2, <2>1, <2>2, Zenon DEF PlacesOK
  <2> QED BY <2>1, <2>2, <2>3, SMTT(30) DEF PlacesOK
<1>5. Cardinality(UpTo(r, i) \ {i}) = Cardinality(UpTo(r, i)) - 1
  BY <1>3, RestFinite, Zenon DEF CountingLaws, TakeLaw
<1>6. Cardinality(UpTo(r, i) \ {i}) <= Cardinality(Page(r))
  BY <1>4, RestFinite, Zenon DEF CountingLaws, PartLaw
<1>7. Cardinality(UpTo(r, i)) \in Nat /\ Cardinality(Page(r)) \in Nat /\ Limit \in Nat
  BY RestFinite, TrustConstants, Zenon
<1>8. Cardinality(UpTo(r, i)) - 1 <= Cardinality(Page(r))
  BY <1>5, <1>6, Zenon
<1> QED BY <1>3, <1>7, <1>8, NatBelow, Zenon

\* ... and what it leaves out comes after its last.
LEMMA PageFirst ==
  ASSUME CountingLaws, NEW r, PlacesOK(r), Page(r) # {}, NEW i \in Rest(r), i \notin Page(r)
  PROVE  Place(r, i) > Place(r, LastOf(r, Page(r)))
<1> DEFINE m == LastOf(r, Page(r))
<1>1. m \in Page(r) /\ m \in Held(r) /\ i \in Held(r)
  BY EndsOf, RestFinite, Zenon
<1> HIDE DEF m
<1>2. Place(r, i) \in Nat /\ Place(r, m) \in Nat /\ \A j \in Rest(r) : Place(r, j) \in Nat
  BY <1>1, RestFinite, Zenon DEF PlacesOK
<1>3. SUFFICES ASSUME Place(r, i) <= Place(r, m) PROVE FALSE
  BY <1>2, SMTT(30) DEF m
<1>4. UpTo(r, i) \subseteq UpTo(r, m)
  BY <1>2, <1>3 DEF UpTo
<1>5. Cardinality(UpTo(r, i)) <= Cardinality(UpTo(r, m))
  BY <1>4, RestFinite, Zenon DEF CountingLaws, PartLaw
<1>6. Cardinality(UpTo(r, m)) <= Limit /\ ~(Cardinality(UpTo(r, i)) <= Limit)
  BY <1>1, Zenon DEF Page, UpTo
<1>7. Cardinality(UpTo(r, i)) \in Nat /\ Cardinality(UpTo(r, m)) \in Nat /\ Limit \in Nat
  BY RestFinite, TrustConstants, Zenon
<1> QED BY <1>5, <1>6, <1>7, NatTrans, Zenon
-----------------------------------------------------------------------------
(* The walk.                                                               *)

WalkType == [on : BOOLEAN, at : SUBSET Replicas, cursor : Nat, due : SUBSET Ids, seen : SUBSET Ids]

\* What was there when the walk began and has not been seen lies ahead of the
\* cursor, which is itself in the log.
Ahead(r) ==
    \A i \in walk.due : /\ i \in Held(r)
                        /\ i \in walk.seen \/ Place(r, i) > Place(r, walk.cursor)
                        /\ Postgres \/ walk.cursor \in Held(r) \cup {0}

WalkInv ==
    /\ walk \in WalkType
    /\ ~walk.on => walk.due \subseteq walk.seen
    /\ walk.on => walk.at # {} /\ (\A r, s \in walk.at : r = s) /\ \A r \in walk.at : Ahead(r)

\* The order of a feed.
LEMMA HeldPlaces ==
  ASSUME CountingLaws, TrustInv, NEW r \in Replicas
  PROVE  /\ PlacesOK(r) /\ Held(r) \subseteq Ids
         /\ ~Postgres => \A i \in Held(r) : Place(r, i) \in DOMAIN mem[r].log /\ mem[r].log[Place(r, i)] = i
<1>1. MaxId \in Nat /\ IsFiniteSet(Ids) /\ Ids \subseteq Nat /\ \A i \in Ids : i <= MaxId
  BY IdNumbers, Zenon DEF CountingLaws, IdsLaw
<1>2. mem[r].log \in Seq(Ids) /\ \A i \in db.feed : i.id \in Ids
  BY Zenon DEF TrustInv, StateTypes, Maps, Tables, FeedItem
<1>3. Held(r) \subseteq Ids
  BY <1>2 DEF Held, Range
<1>4. IsFiniteSet(Held(r))
  BY <1>1, <1>3, Zenon DEF CountingLaws, PartLaw
<1>5. CASE Postgres
  <2>1. \A i \in Held(r) : Place(r, i) = i
    BY <1>5, Zenon DEF Place
  <2> QED BY <1>1, <1>3, <1>4, <1>5, <2>1, Zenon DEF PlacesOK
<1>6. CASE ~Postgres
  <2>1. ASSUME NEW i \in Held(r) PROVE Place(r, i) \in DOMAIN mem[r].log /\ mem[r].log[Place(r, i)] = i
    <3>1. \E n \in DOMAIN mem[r].log : mem[r].log[n] = i
      BY <1>6, Zenon DEF Held, Range
    <3>2. Place(r, i) = CHOOSE n \in DOMAIN mem[r].log : mem[r].log[n] = i
      BY <1>6, Zenon DEF Place
    <3> QED BY <3>1, <3>2, Zenon
  <2>2. Len(mem[r].log) \in Nat /\ \A n \in DOMAIN mem[r].log : n \in Nat /\ n <= Len(mem[r].log)
    BY <1>2, SMTT(30)
  <2> QED BY <1>3, <1>4, <2>1, <2>2, Zenon DEF PlacesOK
<1> QED BY <1>5, <1>6, Zenon

\* An id keeps its place when others are inserted or appended.
LEMMA PlaceStays ==
  ASSUME CountingLaws, TrustInv, TrustInv', CountInv', NEW r \in Replicas, store' = store, db.feed \subseteq db'.feed,
         Postgres \/ mem'[r].log = mem[r].log \/ \E i \in Ids : mem'[r].log = Append(mem[r].log, i)
  PROVE  /\ Held(r) \subseteq Held(r)' /\ Postgres' = Postgres
         /\ \A i : i \in Held(r) \cup {0} \/ Postgres => Place(r, i)' = Place(r, i)
<1>1. Postgres' = Postgres
  BY Zenon DEF Postgres
<1>2. CASE Postgres
  BY <1>1, <1>2, Zenon DEF Held, Place
<1>3. CASE ~Postgres
  <2>1. mem[r].log \in Seq(Ids) /\ mem'[r].log \in Seq(Ids) /\ 0 \notin Ids /\ Held(r) \subseteq Ids
    BY HeldPlaces, IdNumbers, Zenon DEF TrustInv, StateTypes, Maps
  <2>2. DOMAIN mem[r].log \subseteq DOMAIN mem'[r].log /\ \A n \in DOMAIN mem[r].log : mem'[r].log[n] = mem[r].log[n]
    <3>1. CASE mem'[r].log = mem[r].log
      BY <3>1, Zenon
    <3>2. ASSUME NEW i \in Ids, mem'[r].log = Append(mem[r].log, i)
          PROVE  DOMAIN mem[r].log \subseteq DOMAIN mem'[r].log /\ \A n \in DOMAIN mem[r].log : mem'[r].log[n] = mem[r].log[n]
      BY <2>1, <3>2, SMTT(30)
    <3> QED BY <1>3, <3>1, <3>2, Zenon
  <2>3. \A m, n \in DOMAIN mem'[r].log : mem'[r].log[m] = mem'[r].log[n] => m = n
    BY Zenon DEF CountInv, LogOK
  <2>4. ASSUME NEW i \in Held(r) PROVE i \in Held(r)' /\ Place(r, i)' = Place(r, i)
    <3>1. Place(r, i) \in DOMAIN mem[r].log /\ mem[r].log[Place(r, i)] = i
      BY <1>3, HeldPlaces, Zenon
    <3>2. Place(r, i) \in DOMAIN mem'[r].log /\ mem'[r].log[Place(r, i)] = i
      BY <2>2, <3>1, Zenon
    <3>3. i \in Held(r)'
      BY <1>1, <1>3, <3>2, Zenon DEF Held, Range
    <3>4. Place(r, i)' = CHOOSE n \in DOMAIN mem'[r].log : mem'[r].log[n] = i
      BY <1>1, <1>3, <3>3, Zenon DEF Place
    <3> QED BY <2>3, <3>2, <3>3, <3>4, Zenon
  <2>5. 0 \notin Held(r) /\ 0 \notin Held(r)'
    BY <1>1, <1>3, <2>1, SMTT(30) DEF Held, Range
  <2>6. Place(r, 0)' = Place(r, 0)
    BY <1>1, <1>3, <2>5, Zenon DEF Place
  <2> QED BY <1>1, <1>3, <2>4, <2>6, Zenon
<1> QED BY <1>2, <1>3, Zenon

\* What lies ahead stays there.
LEMMA AheadStays ==
  ASSUME CountingLaws, TrustInv, TrustInv', CountInv', NEW r \in Replicas, store' = store, db.feed \subseteq db'.feed,
         Postgres \/ mem'[r].log = mem[r].log \/ (\E i \in Ids : mem'[r].log = Append(mem[r].log, i)),
         walk' = walk, Ahead(r)
  PROVE  Ahead(r)'
<1>1. /\ Held(r) \subseteq Held(r)' /\ Postgres' = Postgres
      /\ \A i : i \in Held(r) \cup {0} \/ Postgres => Place(r, i)' = Place(r, i)
  BY PlaceStays, Zenon
<1>2. SUFFICES ASSUME NEW i \in walk.due
               PROVE  /\ i \in Held(r)'
                      /\ i \in walk.seen \/ Place(r, i)' > Place(r, walk.cursor)'
                      /\ Postgres \/ walk.cursor \in Held(r)' \cup {0}
  BY <1>1, Zenon DEF Ahead
<1>3. /\ i \in Held(r) /\ (i \in walk.seen \/ Place(r, i) > Place(r, walk.cursor))
      /\ Postgres \/ walk.cursor \in Held(r) \cup {0}
  BY Zenon DEF Ahead
<1>4. Place(r, i)' = Place(r, i) /\ Place(r, walk.cursor)' = Place(r, walk.cursor)
  BY <1>1, <1>3, Zenon
<1> QED BY <1>1, <1>3, <1>4, Zenon

\* One page: what is due is on it, or lies ahead of the new cursor.
LEMMA RevocationsWalk ==
  ASSUME CountingLaws, TrustInv, WalkInv, NEW r \in Replicas, Revocations(r)
  PROVE  WalkInv'
<1>1. walk \in WalkType /\ walk.on /\ UNCHANGED <<store, db, mem>> /\ Limit \in Nat \ {0}
  BY TrustConstants, Zenon DEF Revocations, WalkInv
<1>2. PICK s \in Replicas : walk.at = {s} /\ Ahead(s) /\ (Postgres \/ s = r)
  BY <1>1, SMTT(30) DEF WalkInv, WalkType, Revocations
<1>3. Ahead(r)
  <2>1. CASE Postgres
    BY <1>2, <2>1, Zenon DEF Ahead, Held, Place
  <2>2. CASE s = r
    BY <1>2, <2>2, Zenon
  <2> QED BY <1>2, <2>1, <2>2, Zenon
<1>4. PlacesOK(r) /\ Held(r) \subseteq Ids /\ Page(r) \subseteq Rest(r) /\ Rest(r) \subseteq Held(r)
      /\ Cardinality(Page(r)) \in Nat /\ Cardinality(Page(r)) <= Limit
  BY HeldPlaces, RestFinite, PageSize, Zenon
<1> DEFINE c == IF NextCursor(r) THEN LastOf(r, Page(r)) ELSE 0
           on == NextCursor(r)
<1>5. walk' = [walk EXCEPT !.on = on, !.seen = @ \cup Page(r), !.cursor = c] /\ on \in BOOLEAN
  BY Zenon DEF Revocations, NextCursor
<1>6. NextCursor(r) => Page(r) # {} /\ LastOf(r, Page(r)) \in Page(r)
  <2>1. SUFFICES ASSUME NextCursor(r) PROVE Page(r) # {} /\ LastOf(r, Page(r)) \in Page(r) BY Zenon
  <2>2. Page(r) # {}
    BY <1>1, <2>1, Zenon DEF NextCursor, CountingLaws, SizeLaw
  <2> QED BY <1>4, <2>2, EndsOf, Zenon
<1>7. c \in Nat /\ (NextCursor(r) => c = LastOf(r, Page(r)))
  BY <1>4, <1>6, IdNumbers, Zenon
<1> HIDE DEF c, on
<1>8. /\ walk' \in WalkType /\ walk'.on = on /\ walk'.at = walk.at /\ walk'.cursor = c
      /\ walk'.due = walk.due /\ walk'.seen = walk.seen \cup Page(r)
  BY <1>1, <1>4, <1>5, <1>7, Zenon DEF WalkType
<1>9. \A i \in walk.due : i \in Held(r) /\ (i \in walk.seen \/ i \in Rest(r))
  BY <1>3, Zenon DEF Ahead, Rest
<1>10. ASSUME ~on PROVE walk'.due \subseteq walk'.seen
  <2>1. Page(r) = Rest(r)
    <3>1. CASE Cardinality(Page(r)) # Limit
      BY <1>1, <1>4, <3>1, PageShort, SMTT(30)
    <3>2. CASE Cardinality(Page(r)) = Limit
      BY <1>10, <3>2, Zenon DEF on, NextCursor
    <3> QED BY <3>1, <3>2, Zenon
  <2> QED BY <1>8, <1>9, <2>1, Zenon
<1>11. ASSUME on PROVE Ahead(r)'
  <2>1. /\ Postgres' = Postgres /\ Held(r)' = Held(r) /\ (\A i : Place(r, i)' = Place(r, i))
    BY <1>1, SamePlaces, Zenon
  <2>2. c = LastOf(r, Page(r)) /\ c \in Held(r) /\ Page(r) # {}
    BY <1>4, <1>6, <1>7, <1>11, Zenon DEF on
  <2>3. ASSUME NEW i \in walk.due
        PROVE  i \in Held(r) /\ (i \in walk.seen \cup Page(r) \/ Place(r, i) > Place(r, c))
    BY <1>4, <1>9, <2>2, PageFirst, Zenon
  <2> QED BY <1>8, <2>1, <2>2, <2>3, Zenon DEF Ahead
<1>12. ASSUME on PROVE Ahead(s)'
  <2>1. CASE s = r
    BY <1>11, <1>12, <2>1, Zenon
  <2>2. CASE Postgres
    <3>1. Postgres' BY <1>1, <2>2, Zenon DEF Postgres
    <3> QED BY <1>11, <1>12, <3>1, Zenon DEF Ahead, Held, Place
  <2> QED BY <1>2, <2>1, <2>2, Zenon
<1>13. on = TRUE \/ on = FALSE
  BY <1>5, Zenon
<1> QED BY <1>2, <1>8, <1>10, <1>12, <1>13, SMTT(30) DEF WalkInv

\* A walk starts with everything ahead of it.
LEMMA StartWalkWalk ==
  ASSUME CountingLaws, TrustInv, NEW r \in Replicas, StartWalk(r)
  PROVE  WalkInv'
<1>1. /\ walk' = [on |-> TRUE, at |-> {r}, cursor |-> 0, due |-> Held(r), seen |-> {}]
      /\ UNCHANGED <<store, db, mem>>
  BY Zenon DEF StartWalk
<1>2. Held(r) \subseteq Ids /\ PlacesOK(r) /\ 0 \notin Ids /\ Ids \subseteq Nat
  BY HeldPlaces, IdNumbers, Zenon
<1>3. /\ walk' \in WalkType /\ walk'.on /\ walk'.at = {r} /\ walk'.cursor = 0 /\ walk'.due = Held(r)
  BY <1>1, <1>2, Zenon DEF WalkType
<1>4. Postgres' = Postgres /\ Held(r)' = Held(r) /\ \A i : Place(r, i)' = Place(r, i)
  BY <1>1, SamePlaces, Zenon
<1>5. ASSUME NEW i \in Held(r) PROVE Place(r, i) > Place(r, 0)
  <2>1. CASE Postgres
    BY <1>2, <2>1, SMTT(30) DEF Place, Ids
  <2>2. CASE ~Postgres
    <3>1. Place(r, 0) = 0
      BY <1>2, <2>2, Zenon DEF Place
    <3>2. Place(r, i) \in DOMAIN mem[r].log /\ mem[r].log \in Seq(Ids)
      BY <2>2, HeldPlaces, Zenon DEF TrustInv, StateTypes, Maps
    <3> QED BY <3>1, <3>2, SMTT(30)
  <2> QED BY <2>1, <2>2, Zenon
<1>6. Ahead(r)'
  BY <1>3, <1>4, <1>5, Zenon DEF Ahead
<1> QED BY <1>3, <1>6, Zenon DEF WalkInv

\* Only the client and, without tables, a restart of its replica touch a walk.
LEMMA WalkFrame ==
  ASSUME [Next]_vars
  PROVE  /\ store' = store
         /\ \/ walk' = walk
            \/ \E r \in Replicas : StartWalk(r) \/ Revocations(r) \/ (Restart(r) /\ ~Postgres /\ r \in walk.at)
<1>1. ASSUME NEW q \in Requests, NEW r \in Replicas, Handle(q, r) PROVE UNCHANGED <<store, walk>>
  <2>1. ASSUME NEW d \in Devices, SubmitDevice(q, r, d) \/ AuthorizeInMap(q, r, d) \/ DeviceStatus(q, r, d) \/ RevokeInMap(q, r, d)
        PROVE  UNCHANGED <<store, walk>>
    BY <2>1, Zenon DEF SubmitDevice, AuthorizeInMap, DeviceStatus, RevokeInMap
  <2>2. ASSUME NEW g \in Grants, VerifyRequest(q, r, g) \/ GrantStatus(q, r, g) \/ RevokeGrant(q, r, g)
        PROVE  UNCHANGED <<store, walk>>
    BY <2>2, Zenon DEF VerifyRequest, GrantStatus, RevokeGrant
  <2>3. CASE RecordSubmitted(q, r) \/ SignGrant(q, r) \/ PublishGrant(q, r)
    BY <2>3, Zenon DEF RecordSubmitted, SignGrant, PublishGrant
  <2>4. CASE VerifyAgainstRow(q, r) \/ JudgeGrant(q, r)
    BY <2>4, Zenon DEF VerifyAgainstRow, JudgeGrant
  <2>5. CASE RecordGrantRevocation(q, r) \/ LogDeviceRevocation(q, r)
    BY <2>5, Zenon DEF RecordGrantRevocation, LogDeviceRevocation
  <2>6. CASE AddNextKey(q, r) \/ RotateKeys(q, r)
    BY <2>6, Zenon DEF AddNextKey, RotateKeys
  <2> QED BY <1>1, <2>1, <2>2, <2>3, <2>4, <2>5, <2>6, Zenon DEF Handle
<1>2. ASSUME NEW q \in Requests, \/ AuthorizeDevice(q) \/ StoreGrant(q) \/ GetDevice(q) \/ GetGrant(q) \/ Answer(q)
                                 \/ LogGrantRevocation(q) \/ RevokeDevice(q) \/ Fail(q)
      PROVE  UNCHANGED <<store, walk>>
  BY <1>2, Zenon DEF AuthorizeDevice, StoreGrant, GetDevice, GetGrant, Answer, LogGrantRevocation, RevokeDevice, Fail
<1>3. ASSUME NEW r \in Replicas, StartWalk(r) \/ Revocations(r) PROVE store' = store
  BY <1>3, Zenon DEF StartWalk, Revocations
<1>4. ASSUME NEW r \in Replicas, Restart(r) PROVE store' = store /\ (walk' = walk \/ (~Postgres /\ r \in walk.at))
  BY <1>4, Zenon DEF Restart
<1>5. ASSUME NEW g \in Grants, Expire(g) PROVE UNCHANGED <<store, walk>>
  BY <1>5, Zenon DEF Expire
<1> QED BY <1>1, <1>2, <1>3, <1>4, <1>5, Zenon DEF Next, vars

\* The walk loses nothing on its way.
LEMMA NextWalk ==
  ASSUME CountingLaws, TrustInv, TrustInv', CountInv, CountInv', WalkInv, [Next]_vars
  PROVE  WalkInv'
<1>1. PICK q : Advances(q)
  BY NextTrust, Zenon
<1>2. CASE \E r \in Replicas : StartWalk(r) \/ Revocations(r)
  BY <1>2, StartWalkWalk, RevocationsWalk, Zenon
<1>3. ASSUME NEW r \in Replicas, Restart(r), ~Postgres, r \in walk.at PROVE WalkInv'
  <2>1. walk' = [walk EXCEPT !.due = {}] /\ walk \in WalkType
    BY <1>3, Zenon DEF Restart, WalkInv
  <2>2. walk' \in WalkType /\ walk'.due = {} /\ walk'.at = walk.at /\ walk'.on = walk.on
    BY <2>1, Zenon DEF WalkType
  <2>3. \A s \in Replicas : Ahead(s)'
    BY <2>2, Zenon DEF Ahead
  <2>4. walk.at \subseteq Replicas
    BY <2>1, Zenon DEF WalkType
  <2> QED BY <2>2, <2>3, <2>4, Zenon DEF WalkInv
<1>4. ASSUME walk' = walk, \A r \in Replicas : ~(Restart(r) /\ ~Postgres /\ r \in walk.at) PROVE WalkInv'
  <2>1. walk.at \subseteq Replicas /\ store' = store /\ db.feed \subseteq db'.feed
    BY <1>1, WalkFrame, Zenon DEF WalkInv, WalkType, Advances
  <2>2. ASSUME NEW r \in walk.at, Ahead(r) PROVE Ahead(r)'
    <3>1. r \in Replicas BY <2>1, Zenon
    <3>2. Postgres \/ mem'[r].log = mem[r].log \/ \E i \in Ids : mem'[r].log = Append(mem[r].log, i)
      BY <1>1, <1>4, <3>1, Zenon DEF Advances, LogStep
    <3> QED BY <1>4, <2>1, <2>2, <3>1, <3>2, AheadStays, Zenon
  <2> QED BY <1>4, <2>2, Zenon DEF WalkInv
<1> QED BY <1>2, <1>3, <1>4, WalkFrame, Zenon

\* Nobody walks in the beginning.
LEMMA InitWalk == Init => WalkInv
<1>1. NoWalk \in WalkType /\ NoWalk.on = FALSE /\ NoWalk.due = {}
  BY SMTT(30) DEF NoWalk, WalkType
<1> QED BY <1>1, Zenon DEF Init, WalkInv
-----------------------------------------------------------------------------
(* The counting laws, and what follows for every behaviour.                *)

INSTANCE FiniteSetTheorems

\* Every set of numbers has a least one.
LEMMA LeastOf == LeastLaw
<1>1. SUFFICES ASSUME NEW T, T \subseteq Nat, T # {}
               PROVE  \E x \in T : \A y \in T : x <= y
  BY Zenon DEF LeastLaw
<1>2. PICK x \in T : \A y \in T : ~(<<y, x>> \in OpToRel(<, Nat))
  BY <1>1, NatLessThanWellFounded, WFMin, Zenon
<1>3. \A y \in T : ~(y < x)
  BY <1>1, <1>2, Zenon DEF OpToRel
<1> QED BY <1>1, <1>3, SMTT(30)

\* The ids are finitely many.
LEMMA IdsFinite == IdsLaw
<1>1. IsFiniteSet(1 .. MaxId) /\ Cardinality(1 .. MaxId) = MaxId
  BY FS_Interval, TrustConstants, SMTT(30)
<1> QED BY <1>1, Zenon DEF IdsLaw, Ids

\* The counting laws hold.
LEMMA Counting == CountingLaws
<1>1. SizeLaw
  <2>1. \A S : IsFiniteSet(S) => Cardinality(S) \in Nat
    BY FS_CardinalityType, Zenon
  <2>2. Cardinality({}) = 0
    BY FS_EmptySet, Zenon
  <2>3. \A x : Cardinality({x}) = 1
    BY FS_Singleton, Zenon
  <2> QED BY <2>1, <2>2, <2>3, Zenon DEF SizeLaw
<1>2. PartLaw
  BY FS_Subset, Zenon DEF PartLaw
<1>3. TakeLaw
  BY FS_RemoveElement, Zenon DEF TakeLaw
<1> QED BY <1>1, <1>2, <1>3, LeastOf, IdsFinite, Zenon DEF CountingLaws

\* However many rotations overlap, on however many replicas: one active key on
\* each, and the keys of all grants that it issued since it started.
THEOREM RotationAlwaysKeepsGrants == Spec => []RotationKeepsGrants
<1>1. TrustInv => RotationKeepsGrants
  BY Counting, KeysKept, Zenon DEF RotationKeepsGrants
<1> QED BY <1>1, TrustInvariant, PTL

\* Ids, logs and epochs are in order in the beginning and stay so.
THEOREM IdInvariant == Spec => [](TrustInv /\ CountInv)
<1>1. Init => CountInv
  BY Counting, InitCounts, Zenon
<1>2. TrustInv /\ CountInv /\ [Next]_vars => TrustInv' /\ CountInv'
  BY Counting, NextCounts, Zenon
<1> QED BY <1>1, <1>2, InitTrust, PTL DEF Spec

\* Tables, maps and requests hold values of their types; the revocation ids
\* drawn bound every epoch, however handlers and restarts interleave.
THEOREM TrustTypes == Spec => []TypeOK
<1>1. TrustInv /\ CountInv => TypeOK
  BY Counting, CountedTypes, Zenon
<1> QED BY <1>1, IdInvariant, PTL

\* A client that follows the cursors to the end has seen every revocation that
\* the feed held when it began, whatever the page size and whatever was added
\* meanwhile.
THEOREM WalkAlwaysComplete == Spec => []WalkComplete
<1>1. WalkInv => WalkComplete
  BY Zenon DEF WalkInv, WalkComplete
<1>2. TrustInv /\ TrustInv' /\ CountInv /\ CountInv' /\ WalkInv /\ [Next]_vars => WalkInv'
  BY Counting, NextWalk, Zenon
<1> QED BY <1>1, <1>2, InitWalk, IdInvariant, PTL DEF Spec
=============================================================================
