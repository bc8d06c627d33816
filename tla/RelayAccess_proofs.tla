-------------------------- MODULE RelayAccess_proofs --------------------------
(***************************************************************************)
(* For any devices, replicas, credentials, concurrent requests and         *)
(* lifetimes: what a revocation or a rotation cut off stays cut off, a     *)
(* revoked device stays out, and a credential a client holds is stored.    *)
(*                                                                         *)
(* Four layers, each proved with the ones before it: types and the         *)
(* credentials being issued; the rows behind a credential; the tokens cut  *)
(* off; the devices barred.                                                *)
(***************************************************************************)
EXTENDS RelayAccess, TLAPS

Issuing == {"storeRefresh", "publish", "publishDevice", "rotated"}
NeedPostgres == Statements \ {"storeAccess"}

\* A credential being issued is no one's yet, and of one request only.
Fresh ==
    /\ \A q \in Requests :
          /\ req[q].fresh \subseteq Creds \ held
          /\ \A c, f \in req[q].fresh : c = f
          /\ req[q].pc \in Issuing => \A c \in req[q].fresh : token[c].owner = req[q].dev
    /\ \A q, p \in Requests : q # p => req[q].fresh \cap req[p].fresh = {}
    /\ \A c \in held : token[c].owner # {}

RequestsOK ==
    \A q \in Requests :
       /\ req[q].pc = "idle" => req[q] = Idle
       /\ req[q].pc # "idle" => /\ \E r \in Replicas : req[q].at = {r}
                                /\ \E d \in Devices : req[q].dev = {d}
       /\ req[q].pc \in NeedPostgres => Postgres
       /\ req[q].pc \in {"persist", "publishDevice"} => req[q].op = "bind"
       /\ req[q].op = "bind" => req[q].cred = {}
       /\ \A c, e \in req[q].cred : c = e
       /\ req[q].cred \subseteq held /\ req[q].covers \subseteq held
       /\ req[q].now \in 0 .. MaxClock

Shaped ==
    /\ clock \in 0 .. MaxClock /\ held \subseteq Creds
    /\ DOMAIN req = Requests /\ \A q \in Requests : DOMAIN req[q] = DOMAIN Idle
    /\ mutex \in [Replicas -> SUBSET Requests] /\ \A r \in Replicas : \A p, q \in mutex[r] : p = q
    /\ DOMAIN cut = Replicas /\ barred \in [Replicas -> SUBSET Devices]

TypeInv == TypeOK /\ Shaped /\ RequestsOK /\ Fresh

\* With PostgreSQL: rows exist behind what is held or about to be.
StoredInv == Postgres =>
    /\ CredentialsSurviveRestart
    /\ \A q \in Requests :
          /\ req[q].pc \in Issuing => \A c \in req[q].fresh : db.access[c] # "none"
          /\ req[q].pc \in Issuing \ {"storeRefresh"} => \A c \in req[q].fresh : db.refresh[c] # "none"
          /\ req[q].pc \in Issuing \cup {"storeAccess", "lookupRefresh", "revokeOld", "revokeOldRow"} =>
                \A d \in req[q].dev : db.device[d] # "none"

\* A token that was cut off is live neither in the map nor in the row.
Gone(kind, c, r) == mem[r][kind][c] # "live" /\ (Postgres => db[kind][c] # "live")

CutTokens ==
    \A r \in Replicas, c \in Creds, kind \in {"access", "refresh"} :
       /\ <<kind, c>> \in cut[r] => c \in held /\ Gone(kind, c, r)
       /\ <<kind, c>> \in dead => c \in held /\ (Postgres => db[kind][c] # "live")

\* A request that was given a token that is cut off will be refused; one that
\* rotates or revokes tokens has cut them off where it has been.
CutRequest(q, r) ==
    /\ \A c \in req[q].cred :
          /\ req[q].pc \in Issuing \cup {"storeAccess", "revokeOldRow"} => mem[r].refresh[c] # "live"
          /\ req[q].pc \in Issuing \cup {"storeAccess"} /\ Postgres => db.refresh[c] # "live"
          /\ req[q].pc = "lookupRefresh" =>
                /\ "cut" \in req[q].doomed => db.refresh[c] # "live"
                /\ "expired" \in req[q].doomed => clock > RefreshExpiry(c)
          /\ req[q].pc = "lookupAccess" =>
                /\ "cut" \in req[q].doomed => db.access[c] # "live"
                /\ "expired" \in req[q].doomed => req[q].now >= AccessExpiry(c)
    /\ req[q].pc \notin {"lookupRefresh", "lookupAccess"} => req[q].doomed \cap {"cut", "expired"} = {}
    /\ req[q].pc \in Locked => \A c \in req[q].covers :
          /\ req[q].dev \subseteq token[c].owner
          /\ mem[r].access[c] # "live" /\ mem[r].refresh[c] # "live"
          /\ req[q].pc = "revokeRefreshRows" => db.access[c] # "live"

CutRequests == \A q \in Requests, r \in Replicas : req[q].at = {r} => CutRequest(q, r)

CutInv == CutTokens /\ CutRequests

\* A registration that may still put the device into the map.
Registering(q, r, d) ==
    /\ req[q].op = "bind" /\ req[q].at = {r} /\ d \in req[q].dev
    /\ req[q].pc \in {"storeAccess", "storeRefresh", "publish", "publishDevice"}

BarredInv ==
    /\ ~Postgres => \A d \in Devices : db.device[d] = "none"
    /\ \A r \in Replicas : \A d \in barred[r] :
          /\ Postgres => db.device[d] = "revoked"
          /\ \/ d \in mem[r].revoked
             \/ Postgres /\ d \notin mem[r].devices /\ \A q \in Requests : ~Registering(q, r, d)
    /\ \A q \in Requests, r \in Replicas, d \in Devices : req[q].at = {r} /\ req[q].dev = {d} =>
          /\ "barred" \in req[q].doomed =>
                /\ d \in barred[r]
                /\ req[q].pc \in {"lookupAccess", "identity", "lookupIdentity", "lookupDevice"}
                /\ req[q].pc # "lookupDevice" => Production
          /\ req[q].pc \in Locked => d \in mem[r].revoked
-----------------------------------------------------------------------------
(* How a step changes the requests.                                        *)

DataTypes ==
    /\ db \in [device : [Devices -> {"none", "active", "revoked"}],
               access : [Creds -> State], refresh : [Creds -> State]]
    /\ token \in [Creds -> [owner : SUBSET Devices, issued : 0..MaxClock]]
    /\ mem \in [Replicas -> [devices : SUBSET Devices, revoked : SUBSET Devices,
                             access : [Creds -> State], refresh : [Creds -> State]]]

LocksOK ==
    \A q \in Requests : /\ req[q].pc \in Labels
                        /\ \A r \in Replicas : q \in mutex[r] <=> req[q].at = {r} /\ req[q].pc \in Locked

\* The other requests stay as they are.
Others(q) ==
    /\ DOMAIN req' = Requests /\ \A p \in Requests : DOMAIN req'[p] = DOMAIN Idle
    /\ \A p \in Requests \ {q} : req'[p] = req[p]

Left(q) ==
    /\ Others(q)
    /\ req'[q] = Idle /\ req'[q].pc = "idle" /\ req'[q].op = "idle" /\ req'[q].at = {} /\ req'[q].dev = {}
    /\ req'[q].cred = {} /\ req'[q].fresh = {} /\ req'[q].now = 0 /\ req'[q].covers = {} /\ req'[q].doomed = {}

Moved(q, label) ==
    /\ Others(q)
    /\ req'[q].pc = label
    /\ req'[q].op = req[q].op /\ req'[q].at = req[q].at /\ req'[q].dev = req[q].dev
    /\ req'[q].cred = req[q].cred /\ req'[q].fresh = req[q].fresh /\ req'[q].now = req[q].now
    /\ req'[q].covers = req[q].covers /\ req'[q].doomed = req[q].doomed

Arrived(q, o, r, d, cs, label, why) ==
    /\ Others(q)
    /\ req'[q].pc = label /\ req'[q].op = o /\ req'[q].at = {r} /\ req'[q].dev = {d}
    /\ req'[q].cred = cs /\ req'[q].fresh = {} /\ req'[q].now = (IF o = "access" THEN clock ELSE 0)
    /\ req'[q].covers = {} /\ req'[q].doomed = why

\* The fields of Idle.
LEMMA IdleFields ==
  /\ DOMAIN Idle = {"pc", "op", "at", "dev", "cred", "fresh", "now", "covers", "doomed"}
  /\ Idle.pc = "idle" /\ Idle.op = "idle" /\ Idle.at = {} /\ Idle.dev = {} /\ Idle.cred = {} /\ Idle.fresh = {}
  /\ Idle.now = 0 /\ Idle.covers = {} /\ Idle.doomed = {}
  BY Zenon DEF Idle

\* What Leave, Goto and Arrive do, as facts about the fields of requests.
LEMMA LeaveFacts == \A q \in Requests : Shaped /\ Leave(q) => Left(q)
  BY IdleFields, Zenon DEF Shaped, Leave, Left, Others

\* The same for Goto.
LEMMA GotoFacts == \A q \in Requests : \A label : Shaped /\ Goto(q, label) => Moved(q, label)
  BY IdleFields DEF Shaped, Goto, Moved, Others

\* The same for Arrive.
LEMMA ArriveFacts ==
  ASSUME NEW q \in Requests, NEW o, NEW r, NEW d, NEW cs, NEW label, NEW why,
         Shaped, Arrive(q, o, r, d, cs, label, why)
  PROVE  Arrived(q, o, r, d, cs, label, why)
<1> DEFINE new == [Idle EXCEPT !.pc = label, !.op = o, !.at = {r}, !.dev = {d}, !.cred = cs, !.doomed = why,
                               !.now = IF o = "access" THEN clock ELSE 0]
<1>1. /\ DOMAIN new = DOMAIN Idle /\ new.pc = label /\ new.op = o /\ new.at = {r} /\ new.dev = {d}
      /\ new.cred = cs /\ new.fresh = {} /\ new.now = (IF o = "access" THEN clock ELSE 0)
      /\ new.covers = {} /\ new.doomed = why
  BY IdleFields, Zenon
<1>2. req' = [req EXCEPT ![q] = new]
  BY Zenon DEF Arrive
<1> HIDE DEF new
<1> QED BY <1>1, <1>2, Zenon DEF Shaped, Arrived, Others

\* TypeOK in two parts.
LEMMA TypeOKParts == TypeOK <=> DataTypes /\ LocksOK
  BY Zenon DEF TypeOK, DataTypes, LocksOK

\* The same in the next state.
LEMMA TypeOKNext == TypeOK' <=> DataTypes' /\ LocksOK'
  BY TypeOKParts, PTL

\* The maps of one replica change.
Maps == [devices : SUBSET Devices, revoked : SUBSET Devices, access : [Creds -> State], refresh : [Creds -> State]]

MapsSet(r, new) ==
    /\ mem' \in [Replicas -> Maps]
    /\ mem'[r].devices = new.devices /\ mem'[r].revoked = new.revoked
    /\ mem'[r].access = new.access /\ mem'[r].refresh = new.refresh
    /\ \A s \in Replicas \ {r} : mem'[s] = mem[s]

\* The maps of the other replicas stay as they are.
LEMMA MapsFacts ==
  ASSUME mem \in [Replicas -> Maps], NEW r \in Replicas, NEW new \in Maps, mem' = [mem EXCEPT ![r] = new]
  PROVE  MapsSet(r, new)
<1> HIDE DEF Maps
<1>1. mem' \in [Replicas -> Maps] /\ mem'[r] = new /\ \A s \in Replicas \ {r} : mem'[s] = mem[s]
  BY Zenon
<1> QED BY <1>1, Zenon DEF MapsSet

\* One entry of the access map, or of the refresh map, changes.
LEMMA EntryFacts ==
  ASSUME NEW m \in Maps, NEW c \in Creds, NEW v \in State
  PROVE  /\ [m EXCEPT !.access = [m.access EXCEPT ![c] = v]] \in Maps
         /\ [m EXCEPT !.refresh = [m.refresh EXCEPT ![c] = v]] \in Maps
<1>1. [m.access EXCEPT ![c] = v] \in [Creds -> State] /\ [m.refresh EXCEPT ![c] = v] \in [Creds -> State]
  BY Zenon DEF Maps
<1> QED BY <1>1, Zenon DEF Maps
-----------------------------------------------------------------------------
(* Types, and the credentials being issued.                                *)

\* The layer holds initially.
LEMMA InitTypes == Init => TypeInv
<1> SUFFICES ASSUME Init PROVE TypeInv
  BY Zenon
<1> USE AccessConstants DEF Init
<1>1. DataTypes
  BY DEF DataTypes, State, EmptyMaps
<1>2. LocksOK
  BY IdleFields, Zenon DEF LocksOK, Labels, Locked
<1>3. Shaped
  BY DEF Shaped
<1>4. RequestsOK /\ Fresh
  BY IdleFields DEF RequestsOK, Fresh, NeedPostgres, Statements, Locked, Issuing
<1> QED BY <1>1, <1>2, <1>3, <1>4, TypeOKParts, Zenon DEF TypeInv

\* A request ends; the credential it issued may have become the client's.
LEMMA LeaveTypes ==
  ASSUME TypeInv, NEW q \in Requests, Left(q), UNCHANGED <<config, clock, token>>, DataTypes',
         held' = held \/ (held' = held \cup req[q].fresh /\ req[q].pc \in Issuing),
         \A r \in Replicas : mutex'[r] = mutex[r] \ {q}, mutex' \in [Replicas -> SUBSET Requests],
         DOMAIN cut' = Replicas, barred' \in [Replicas -> SUBSET Devices]
  PROVE  TypeInv'
<1>1. LocksOK'
  BY TypeOKParts DEF TypeInv, LocksOK, Left, Others, Labels, Locked
<1>2. held \subseteq held' /\ held' \subseteq held \cup req[q].fresh /\ held' \subseteq Creds
  BY Zenon DEF TypeInv, Shaped, Fresh
<1>3. Shaped'
  BY <1>2 DEF TypeInv, Shaped, Left, Others
<1>4. RequestsOK'
  BY <1>2, AccessConstants DEF TypeInv, RequestsOK, Left, Others, Postgres, config, NeedPostgres, Statements, Locked
<1>5. Fresh'
  <2>1. \A c \in held' : token[c].owner # {}
    BY DEF TypeInv, Fresh, RequestsOK, Issuing
  <2> QED BY <1>2, <2>1 DEF TypeInv, Fresh, Left, Others
<1> QED BY <1>1, <1>3, <1>4, <1>5, TypeOKNext, Zenon DEF TypeInv

\* A request goes on to another label.
LEMMA GotoTypes ==
  ASSUME TypeInv, NEW q \in Requests, NEW label \in Labels \ {"idle"}, Moved(q, label), DataTypes',
         UNCHANGED <<config, clock, mutex, held, cut, barred>>,
         req[q].pc # "idle", req[q].pc \in Locked <=> label \in Locked,
         label \in NeedPostgres => Postgres, label \in {"persist", "publishDevice"} => req[q].op = "bind",
         label \in Issuing => \A c \in req[q].fresh : token'[c].owner = req[q].dev,
         \A c \in Creds \ req[q].fresh : token'[c] = token[c]
  PROVE  TypeInv'
<1>1. LocksOK'
  BY TypeOKParts DEF TypeInv, LocksOK, Moved, Others
<1>2. Shaped'
  BY Zenon DEF TypeInv, Shaped, Moved, Others
<1>3. RequestsOK'
  BY DEF TypeInv, RequestsOK, Moved, Others, Postgres, config
<1>4. Fresh'
  BY DEF TypeInv, Fresh, Shaped, Moved, Others
<1> QED BY <1>1, <1>2, <1>3, <1>4, TypeOKNext, Zenon DEF TypeInv

\* A request arrives.
LEMMA ArriveTypes ==
  ASSUME TypeInv, NEW q \in Requests, NEW o, NEW r \in Replicas, NEW d \in Devices, NEW cs \in SUBSET held,
         NEW label \in Labels \ {"idle", "persist", "publishDevice"}, NEW why, o # "bind", \A c, e \in cs : c = e, Arrived(q, o, r, d, cs, label, why), DataTypes',
         UNCHANGED <<config, clock, token, mutex, held, cut, barred>>,
         req[q].pc = "idle", label \notin Locked, label \in NeedPostgres => Postgres
  PROVE  TypeInv'
<1>1. LocksOK'
  BY TypeOKParts DEF TypeInv, LocksOK, Arrived, Others, Locked
<1>2. Shaped'
  BY Zenon DEF TypeInv, Shaped, Arrived, Others
<1>3. RequestsOK'
  <2>1. req'[q].now \in 0 .. MaxClock
    BY AccessConstants DEF TypeInv, Shaped, Arrived
  <2> QED BY <2>1 DEF TypeInv, RequestsOK, Arrived, Others, Postgres, config
<1>4. Fresh'
  BY DEF TypeInv, Fresh, Arrived, Others
<1> QED BY <1>1, <1>2, <1>3, <1>4, TypeOKNext, Zenon DEF TypeInv

\* Nothing changes but db, mem and the clock, within their types.
LEMMA QuietTypes ==
  ASSUME TypeInv, UNCHANGED <<config, token, mutex, req, held>>, DataTypes',
         clock' \in 0 .. MaxClock, DOMAIN cut' = Replicas, barred' \in [Replicas -> SUBSET Devices]
  PROVE  TypeInv'
<1>1. LocksOK'
  BY TypeOKParts, Zenon DEF TypeInv, LocksOK
<1>2. Shaped' /\ RequestsOK' /\ Fresh'
  BY DEF TypeInv, Shaped, RequestsOK, Fresh, Postgres, config
<1> QED BY <1>1, <1>2, TypeOKNext, Zenon DEF TypeInv
-----------------------------------------------------------------------------
(* Steps that change nothing but a request.                                *)

AccessInv == TypeInv /\ StoredInv /\ CutInv /\ BarredInv

\* All layers hold initially.
LEMMA InitAccess == Init => AccessInv
<1> SUFFICES ASSUME Init PROVE AccessInv
  BY Zenon
<1>1. TypeInv
  BY InitTypes, Zenon
<1>2. StoredInv
  BY IdleFields, Zenon DEF Init, StoredInv, CredentialsSurviveRestart, Issuing
<1>3. CutInv
  BY IdleFields, Zenon DEF Init, CutInv, CutTokens, CutRequests, CutRequest, Locked
<1>4. BarredInv
  BY IdleFields, Zenon DEF Init, BarredInv, Locked
<1> QED BY <1>1, <1>2, <1>3, <1>4, Zenon DEF AccessInv

\* What BarredInv says of one request.
LEMMA BarredRequests ==
  ASSUME BarredInv, NEW q \in Requests, NEW r \in Replicas, NEW d \in Devices, req[q].at = {r}, req[q].dev = {d}
  PROVE  /\ "barred" \in req[q].doomed =>
               /\ d \in barred[r]
               /\ req[q].pc \in {"lookupAccess", "identity", "lookupIdentity", "lookupDevice"}
               /\ req[q].pc # "lookupDevice" => Production
         /\ req[q].pc \in Locked => d \in mem[r].revoked
  BY Zenon DEF BarredInv

\* A device stays barred when no map forgets a revocation or learns of a
\* device, and at most one request changes, to something barred devices allow.
LEMMA BarredStays ==
  ASSUME BarredInv, config' = config, db'.device = db.device,
         \A s \in Replicas : mem'[s].devices = mem[s].devices /\ mem[s].revoked \subseteq mem'[s].revoked,
         \A s \in Replicas : barred[s] \subseteq barred'[s],
         \A s \in Replicas : \A d \in barred'[s] :
            d \in barred[s] \/ (db.device[d] = "revoked" /\ d \in mem'[s].revoked),
         NEW q \in Requests, \A p \in Requests \ {q} : req'[p] = req[p],
         \A s \in Replicas, d \in Devices \cup req'[q].dev : Registering(q, s, d)' => Registering(q, s, d),
         \A s \in Replicas, d \in Devices : req'[q].at = {s} /\ req'[q].dev = {d} =>
            /\ "barred" \in req'[q].doomed =>
                  /\ d \in barred'[s]
                  /\ req'[q].pc \in {"lookupAccess", "identity", "lookupIdentity", "lookupDevice"}
                  /\ req'[q].pc # "lookupDevice" => Production'
            /\ req'[q].pc \in Locked => d \in mem'[s].revoked
  PROVE  BarredInv'
<1>1. Postgres' = Postgres /\ Production' = Production
  BY Zenon DEF Postgres, Production, config
<1>2. ASSUME NEW s \in Replicas, NEW d \in barred'[s]
      PROVE  /\ Postgres' => db'.device[d] = "revoked"
             /\ \/ d \in mem'[s].revoked
                \/ Postgres' /\ d \notin mem'[s].devices /\ \A p \in Requests : ~Registering(p, s, d)'
  <2>1. \A p \in Requests : Registering(p, s, d)' => Registering(p, s, d)
    BY Zenon DEF Registering
  <2> QED BY <1>1, <1>2, <2>1, Zenon DEF BarredInv
<1>3. ASSUME NEW p \in Requests, NEW s \in Replicas, NEW d \in Devices, req'[p].at = {s}, req'[p].dev = {d}
      PROVE  /\ "barred" \in req'[p].doomed =>
                   /\ d \in barred'[s]
                   /\ req'[p].pc \in {"lookupAccess", "identity", "lookupIdentity", "lookupDevice"}
                   /\ req'[p].pc # "lookupDevice" => Production'
             /\ req'[p].pc \in Locked => d \in mem'[s].revoked
  <2>1. CASE p = q
    BY <1>3, <2>1, Zenon
  <2>2. CASE p # q
    <3>1. req'[p] = req[p] /\ req[p].at = {s} /\ req[p].dev = {d}
      BY <1>3, <2>2, Zenon
    <3>2. "barred" \in req[p].doomed => d \in barred[s]
      BY <3>1, BarredRequests, Zenon
    <3>3. "barred" \in req[p].doomed =>
             /\ req[p].pc \in {"lookupAccess", "identity", "lookupIdentity", "lookupDevice"}
             /\ req[p].pc # "lookupDevice" => Production
      BY <3>1, BarredRequests, Zenon
    <3>4. req[p].pc \in Locked => d \in mem[s].revoked
      BY <3>1, BarredRequests, Zenon
    <3> QED BY <1>1, <3>1, <3>2, <3>3, <3>4, Zenon
  <2> QED BY <2>1, <2>2, Zenon
<1> QED BY <1>1, <1>2, <1>3, Zenon DEF BarredInv

\* So it does when a request leaves.
LEMMA BarredLeft ==
  ASSUME BarredInv, config' = config, db'.device = db.device,
         \A s \in Replicas : mem'[s].devices = mem[s].devices /\ mem[s].revoked \subseteq mem'[s].revoked,
         \A s \in Replicas : barred[s] \subseteq barred'[s],
         \A s \in Replicas : \A d \in barred'[s] :
            d \in barred[s] \/ (db.device[d] = "revoked" /\ d \in mem'[s].revoked),
         NEW q \in Requests, Left(q)
  PROVE  BarredInv'
<1>1. (\A p \in Requests \ {q} : req'[p] = req[p]) /\ req'[q].dev = {}
  BY Zenon DEF Left, Others
<1>2. \A s, d : ~Registering(q, s, d)' /\ req'[q].dev # {d}
  BY <1>1, Zenon DEF Registering
<1> QED BY <1>1, <1>2, BarredStays, Zenon

\* And when one goes on that neither becomes a registration nor needs a lock
\* it did not need before.
LEMMA BarredMoved ==
  ASSUME BarredInv, config' = config, db'.device = db.device, barred' = barred,
         \A s \in Replicas : mem'[s].devices = mem[s].devices /\ mem[s].revoked \subseteq mem'[s].revoked,
         NEW q \in Requests, NEW label, Moved(q, label),
         req[q].pc \notin {"lookupAccess", "identity", "lookupIdentity", "lookupDevice"},
         label \in Locked => req[q].pc \in Locked,
         req[q].op = "bind" /\ label \in {"storeAccess", "storeRefresh", "publish", "publishDevice"} =>
            req[q].pc \in {"storeAccess", "storeRefresh", "publish", "publishDevice"}
  PROVE  BarredInv'
<1>1. (\A p \in Requests \ {q} : req'[p] = req[p]) /\ req'[q].pc = label
  BY Zenon DEF Moved, Others
<1>2. req'[q].op = req[q].op /\ req'[q].at = req[q].at /\ req'[q].dev = req[q].dev /\ req'[q].doomed = req[q].doomed
  BY Zenon DEF Moved
<1>3. \A s, d : Registering(q, s, d)' => Registering(q, s, d)
  BY <1>1, <1>2, Zenon DEF Registering
<1>4. ASSUME NEW s \in Replicas, NEW d \in Devices, req'[q].at = {s}, req'[q].dev = {d}
      PROVE  "barred" \notin req'[q].doomed /\ (req'[q].pc \in Locked => d \in mem'[s].revoked)
  <2>1. req[q].at = {s} /\ req[q].dev = {d}
    BY <1>2, <1>4, Zenon
  <2>2. "barred" \notin req[q].doomed
    BY <2>1, BarredRequests, Zenon
  <2>3. req[q].pc \in Locked => d \in mem[s].revoked
    BY <2>1, BarredRequests, Zenon
  <2> QED BY <1>1, <1>2, <2>2, <2>3, Zenon
<1> QED BY <1>1, <1>3, <1>4, BarredStays, Zenon

\* A request that holds no mutex leaves.
LEMMA LeaveKeeps ==
  ASSUME AccessInv, NEW q \in Requests, Leave(q), req[q].pc \notin Locked,
         UNCHANGED <<config, clock, db, token, mem, mutex, history>>
  PROVE  AccessInv'
<1>1. Left(q)
  BY LeaveFacts, Zenon DEF AccessInv, TypeInv
<1>2. \A r \in Replicas : mutex'[r] = mutex[r] \ {q}
  BY TypeOKParts DEF AccessInv, TypeInv, LocksOK, Shaped
<1>3. TypeInv'
  BY <1>1, <1>2, LeaveTypes, TypeOKParts, Zenon DEF AccessInv, TypeInv, Shaped, DataTypes, history
<1>4. StoredInv'
  BY <1>1 DEF AccessInv, StoredInv, CredentialsSurviveRestart, Left, Others, Postgres, config, history, Issuing
<1>5. CutInv'
  BY <1>1 DEF AccessInv, CutInv, CutTokens, CutRequests, CutRequest, Gone, Left, Others, Postgres, config, history, RefreshExpiry, AccessExpiry, Locked
<1>6. BarredInv'
  BY <1>1 DEF AccessInv, BarredInv, Registering, Left, Others, Postgres, Production, config, history, Locked
<1> QED BY <1>3, <1>4, <1>5, <1>6, Zenon DEF AccessInv

\* A request that passed a check goes on.
LEMMA GotoKeeps ==
  ASSUME AccessInv, NEW q \in Requests,
         NEW label \in {"revokeOld", "identity", "lookupIdentity", "accepted", "revoke", "connected"}, Goto(q, label),
         UNCHANGED <<config, clock, db, token, mem, mutex, history>>,
         req[q].pc \notin Locked \cup {"idle"}, label = "lookupIdentity" => Postgres,
         label = "revokeOld" => req[q].pc = "lookupRefresh",
         req[q].doomed \cap {"cut", "expired"} = {},
         "barred" \in req[q].doomed => Production /\ label \in {"identity", "lookupIdentity"}
  PROVE  AccessInv'
<1>1. Moved(q, label)
  BY GotoFacts, Zenon DEF AccessInv, TypeInv
<1>2. /\ label \in Labels \ {"idle"} /\ label \notin Locked /\ label \notin Issuing
      /\ label \in NeedPostgres => label = "lookupIdentity"
      /\ label \notin {"persist", "storeAccess", "storeRefresh", "publish", "publishDevice", "lookupRefresh", "lookupAccess",
                       "revokeOldRow", "revokeRefreshRows", "lookupDevice"}
  BY Zenon DEF Labels, Statements, Locked, NeedPostgres, Issuing
<1>3. TypeInv'
  BY <1>1, <1>2, GotoTypes, TypeOKParts, Zenon DEF AccessInv, TypeInv, DataTypes, history
<1>4. StoredInv'
  BY <1>1, <1>2 DEF AccessInv, StoredInv, CredentialsSurviveRestart, Moved, Others, Postgres, config, history
<1>5. CutInv'
  BY <1>1, <1>2 DEF AccessInv, CutInv, CutTokens, CutRequests, CutRequest, Gone, Moved, Others, Postgres, config, history, RefreshExpiry, AccessExpiry
<1>6. BarredInv'
  BY <1>1, <1>2 DEF AccessInv, BarredInv, Registering, Moved, Others, Postgres, Production, config, history
<1> QED BY <1>3, <1>4, <1>5, <1>6, Zenon DEF AccessInv

\* No entry of a map becomes live again, and no device enters or leaves it.
Weaker(s) ==
    /\ mem'[s].devices = mem[s].devices /\ mem'[s].revoked = mem[s].revoked
    /\ \A c \in Creds : /\ mem'[s].access[c] = "live" => mem[s].access[c] = "live"
                        /\ mem'[s].refresh[c] = "live" => mem[s].refresh[c] = "live"

\* A request may arrive: the reasons to refuse it are ones that the checks to
\* come will find.
MayArrive(q, o, r, d, cs, label, why) ==
    /\ req[q].pc = "idle" /\ o \in {"refresh", "access", "revoke", "connect"}
    /\ r \in Replicas /\ d \in Devices /\ cs \in SUBSET held /\ \A c, e \in cs : c = e
    /\ label \in {"revokeOld", "lookupRefresh", "lookupAccess", "identity", "accepted", "revoke", "lookupDevice", "connected"}
    /\ label \in {"lookupRefresh", "lookupAccess", "lookupDevice"} => Postgres
    /\ label \in {"revokeOld", "lookupRefresh"} /\ Postgres => db.device[d] # "none"
    /\ label \notin {"lookupRefresh", "lookupAccess"} => why \cap {"cut", "expired"} = {}
    /\ label = "lookupRefresh" => \A c \in cs : /\ "cut" \in why => db.refresh[c] # "live"
                                                /\ "expired" \in why => clock > RefreshExpiry(c)
    /\ label = "lookupAccess" => /\ o = "access"
                                 /\ \A c \in cs : /\ "cut" \in why => db.access[c] # "live"
                                                  /\ "expired" \in why => clock >= AccessExpiry(c)
    /\ "barred" \in why => /\ d \in barred[r] /\ label \in {"lookupAccess", "identity", "lookupDevice"}
                           /\ label # "lookupDevice" => Production

\* A request that may arrive keeps the invariant.
LEMMA ArriveKeeps ==
  ASSUME AccessInv, NEW q \in Requests, NEW o, NEW r, NEW d, NEW cs, NEW label, NEW why,
         MayArrive(q, o, r, d, cs, label, why), Arrive(q, o, r, d, cs, label, why),
         UNCHANGED <<config, clock, db, token, mutex, history>>, DataTypes', \A s \in Replicas : Weaker(s)
  PROVE  AccessInv'
<1> USE DEF MayArrive
<1>1. Arrived(q, o, r, d, cs, label, why)
  BY ArriveFacts, Zenon DEF AccessInv, TypeInv
<1>2. /\ label \in Labels \ {"idle", "persist", "publishDevice"} /\ label \notin Locked /\ label \notin Issuing /\ o # "bind"
      /\ label \in NeedPostgres => label \in {"lookupRefresh", "lookupAccess", "lookupDevice"}
      /\ label \notin {"storeAccess", "storeRefresh", "publish", "publishDevice", "revokeOldRow", "revokeRefreshRows"}
  BY Zenon DEF Labels, Statements, Locked, NeedPostgres, Issuing
<1>3. TypeInv'
  BY <1>1, <1>2, ArriveTypes, Zenon DEF AccessInv, TypeInv, history
<1>4. StoredInv'
  BY <1>1, <1>2 DEF AccessInv, StoredInv, CredentialsSurviveRestart, Arrived, Others, Postgres, config, history
<1>5. CutInv'
  <2>1. \A s \in Replicas, c \in Creds, kind \in {"access", "refresh"} :
           /\ <<kind, c>> \in cut'[s] => c \in held' /\ Gone(kind, c, s)'
           /\ <<kind, c>> \in dead' => c \in held' /\ (Postgres' => db'[kind][c] # "live")
    <3> SUFFICES ASSUME NEW s \in Replicas, NEW c \in Creds, NEW kind \in {"access", "refresh"}
                 PROVE  /\ <<kind, c>> \in cut'[s] => c \in held' /\ Gone(kind, c, s)'
                        /\ <<kind, c>> \in dead' => c \in held' /\ (Postgres' => db'[kind][c] # "live")
      BY Zenon
    <3>1. mem'[s][kind][c] = "live" => mem[s][kind][c] = "live"
      BY DEF Weaker
    <3>2. /\ <<kind, c>> \in cut[s] => c \in held /\ Gone(kind, c, s)
          /\ <<kind, c>> \in dead => c \in held /\ (Postgres => db[kind][c] # "live")
      BY Zenon DEF AccessInv, CutInv, CutTokens
    <3> QED BY <3>1, <3>2, Zenon DEF Gone, Postgres, config, history
  <2>2. \A p \in Requests : p # q => req'[p] = req[p]
    BY <1>1, Zenon DEF Arrived, Others
  <2>3. cs \subseteq Creds /\ \A p \in Requests : req[p].cred \subseteq Creds /\ req[p].covers \subseteq Creds
    BY Zenon DEF AccessInv, TypeInv, RequestsOK, Shaped
  <2> QED BY <1>1, <1>2, <2>1, <2>2, <2>3, SMTT(30) DEF AccessInv, CutInv, CutTokens, CutRequests, CutRequest, Weaker, Arrived, Postgres, config, history, RefreshExpiry, AccessExpiry
<1>6. BarredInv'
  BY <1>1, <1>2, SMTT(30) DEF AccessInv, BarredInv, Registering, Weaker, Arrived, Others, Postgres, Production, config, history
<1> QED BY <1>3, <1>4, <1>5, <1>6, Zenon DEF AccessInv

\* Where a request is.
LEMMA RequestFacts ==
  ASSUME AccessInv, NEW q \in Requests, req[q].pc # "idle"
  PROVE  /\ \E r \in Replicas : req[q].at = {r}
         /\ \E d \in Devices : req[q].dev = {d}
         /\ req[q].pc \in NeedPostgres => Postgres
  BY Zenon DEF AccessInv, TypeInv, RequestsOK

\* The lookups of a refresh or access token in the tables.
LEMMA TokenLookupsKeep ==
  ASSUME AccessInv, NEW q \in Requests, NEW c \in Creds, GetRefreshByHash(q, c) \/ GetAccessByHash(q, c)
  PROVE  AccessInv'
<1>1. UNCHANGED <<config, clock, db, token, mem, mutex, history>> /\ c \in req[q].cred
  BY Zenon DEF GetRefreshByHash, GetAccessByHash
<1>2. CASE Leave(q)
  BY <1>1, <1>2, LeaveKeeps, Zenon DEF GetRefreshByHash, GetAccessByHash, Locked
<1>3. CASE GetRefreshByHash(q, c) /\ ~Leave(q)
  <2>1. req[q].pc = "lookupRefresh" /\ db.refresh[c] = "live" /\ RefreshExpiry(c) > clock /\ Goto(q, "revokeOld")
    BY <1>3, Zenon DEF GetRefreshByHash
  <2>2. PICK r \in Replicas : req[q].at = {r}
    BY <2>1, RequestFacts, Zenon
  <2>3. RefreshExpiry(c) \in Nat /\ clock \in Nat
    BY AccessConstants, TypeOKParts DEF AccessInv, TypeInv, DataTypes, Shaped, RefreshExpiry
  <2>4. req[q].doomed \cap {"cut", "expired"} = {}
    BY <1>1, <2>1, <2>2, <2>3 DEF AccessInv, CutInv, CutTokens, CutRequests, CutRequest
  <2>5. "barred" \notin req[q].doomed
    BY <2>1, <2>2, RequestFacts DEF AccessInv, BarredInv
  <2> QED BY <1>1, <2>1, <2>4, <2>5, GotoKeeps, Zenon DEF Locked
<1>4. CASE GetAccessByHash(q, c) /\ ~Leave(q)
  <2>1. req[q].pc = "lookupAccess" /\ db.access[c] = "live" /\ AccessExpiry(c) > req[q].now /\ Goto(q, Found)
    BY <1>4, Zenon DEF GetAccessByHash
  <2>2. PICK r \in Replicas : req[q].at = {r}
    BY <2>1, RequestFacts, Zenon
  <2>3. AccessExpiry(c) \in Nat /\ req[q].now \in Nat
    BY AccessConstants, TypeOKParts DEF AccessInv, TypeInv, DataTypes, RequestsOK, AccessExpiry
  <2>4. req[q].doomed \cap {"cut", "expired"} = {}
    BY <1>1, <2>1, <2>2, <2>3, SMTT(30) DEF AccessInv, CutInv, CutTokens, CutRequests, CutRequest
  <2>5. "barred" \in req[q].doomed => Production
    BY <2>1, <2>2, RequestFacts, SMTT(30) DEF AccessInv, BarredInv
  <2>6. Found \in {"identity", "accepted"} /\ (Production => Found = "identity")
    BY Zenon DEF Found
  <2> HIDE DEF Found
  <2> QED BY <1>1, <2>1, <2>4, <2>5, <2>6, GotoKeeps, Zenon DEF Locked
<1> QED BY <1>2, <1>3, <1>4, Zenon

\* The lookups of a device, in the maps and in the table.
LEMMA DeviceLookupsKeep ==
  ASSUME AccessInv, NEW q \in Requests, NEW r \in Replicas, NEW d \in Devices,
         LookupIdentity(q, r, d) \/ LookupIdentityRow(q, r, d) \/ GetDevice(q, r, d)
  PROVE  AccessInv'
<1>1. /\ UNCHANGED <<config, clock, db, token, mem, mutex, history>>
      /\ req[q].at = {r} /\ req[q].dev = {d} /\ req[q].pc \in {"identity", "lookupIdentity", "lookupDevice"}
  BY Zenon DEF LookupIdentity, LookupIdentityRow, GetDevice, At
<1>2. /\ req[q].doomed \cap {"cut", "expired"} = {} /\ req[q].pc \notin Locked \cup {"idle"}
      /\ req[q].pc # "identity" => Postgres
  BY <1>1, RequestFacts, Zenon DEF AccessInv, CutInv, CutTokens, CutRequests, CutRequest, Locked, NeedPostgres, Statements
<1>3. "barred" \in req[q].doomed =>
         /\ d \notin mem[r].devices \ mem[r].revoked
         /\ Postgres => db.device[d] = "revoked"
         /\ req[q].pc # "lookupDevice" => Production
  BY <1>1 DEF AccessInv, BarredInv
<1>4. CASE Leave(q)
  BY <1>1, <1>2, <1>4, LeaveKeeps, Zenon
<1>5. CASE LookupIdentity(q, r, d) /\ ~Leave(q)
  <2>1. /\ req[q].pc = "identity"
        /\ \/ d \in mem[r].devices \ mem[r].revoked /\ Goto(q, "accepted")
           \/ Postgres /\ Goto(q, "lookupIdentity")
    BY <1>5, Zenon DEF LookupIdentity, At
  <2> QED BY <1>1, <1>2, <1>3, <2>1, GotoKeeps, Zenon
<1>6. CASE (LookupIdentityRow(q, r, d) \/ GetDevice(q, r, d)) /\ ~Leave(q)
  <2>1. /\ req[q].pc # "identity" /\ db.device[d] = "active" /\ (Goto(q, "accepted") \/ Goto(q, "connected"))
    BY <1>6, Zenon DEF LookupIdentityRow, GetDevice, At
  <2> QED BY <1>1, <1>2, <1>3, <2>1, GotoKeeps, Zenon
<1> QED BY <1>4, <1>5, <1>6, Zenon

\* Ends of requests, and a device that revokes itself.
LEMMA AcceptedKeep ==
  ASSUME AccessInv, NEW q \in Requests,
         AnswerAccepted(q) \/ RevokeOwn(q) \/ CloseConnection(q) \/ \E c \in Creds : RefuseExpired(q, c)
  PROVE  AccessInv'
<1>1. /\ UNCHANGED <<config, clock, db, token, mem, mutex, history>>
      /\ req[q].pc \in {"accepted", "connected", "revokeOld"} /\ (Leave(q) \/ RevokeOwn(q))
  BY Zenon DEF AnswerAccepted, RevokeOwn, CloseConnection, RefuseExpired
<1>2. CASE Leave(q)
  BY <1>1, <1>2, LeaveKeeps, Zenon DEF Locked
<1>3. CASE RevokeOwn(q)
  <2>1. req[q].pc = "accepted" /\ Goto(q, "revoke")
    BY <1>3, Zenon DEF RevokeOwn
  <2>2. req[q].doomed \cap {"cut", "expired"} = {} /\ "barred" \notin req[q].doomed
    BY <2>1, RequestFacts, SMTT(30) DEF AccessInv, CutInv, CutTokens, CutRequests, CutRequest, BarredInv
  <2> QED BY <1>1, <2>1, <2>2, GotoKeeps, Zenon DEF Locked
<1> QED BY <1>1, <1>2, <1>3, Zenon

\* Connect and RevokeByAdmin.
LEMMA ConnectKeeps ==
  ASSUME AccessInv, NEW q \in Requests, NEW r \in Replicas, NEW d \in Devices,
         Connect(q, r, d) \/ RevokeByAdmin(q, r, d)
  PROVE  AccessInv'
<1>1. UNCHANGED <<config, clock, db, token, mem, mutex, history>> /\ req[q].pc = "idle"
  BY Zenon DEF Connect, RevokeByAdmin
<1>2. DataTypes' /\ \A s \in Replicas : Weaker(s)
  BY <1>1, TypeOKParts, Zenon DEF Weaker, DataTypes, AccessInv, TypeInv
<1>3. CASE RevokeByAdmin(q, r, d)
  <2>1. MayArrive(q, "revoke", r, d, {}, "revoke", {})
    BY <1>1, Zenon DEF MayArrive
  <2> QED BY <1>1, <1>2, <1>3, <2>1, ArriveKeeps, Zenon DEF RevokeByAdmin
<1>4. CASE Connect(q, r, d)
  <2> DEFINE label == IF d \in mem[r].devices THEN "connected" ELSE "lookupDevice"
             why == IF d \in barred[r] THEN {"barred"} ELSE {}
  <2>1. /\ Arrive(q, "connect", r, d, {}, label, why) /\ d \notin mem[r].revoked
        /\ d \in mem[r].devices \/ Postgres
    BY <1>4, Zenon DEF Connect
  <2>2. "barred" \in why => d \in barred[r] /\ label = "lookupDevice"
    BY <2>1, Zenon DEF AccessInv, BarredInv
  <2>3. /\ label \in {"revokeOld", "lookupRefresh", "lookupAccess", "identity", "accepted", "revoke", "lookupDevice", "connected"}
        /\ label \notin {"revokeOld", "lookupRefresh", "lookupAccess"}
        /\ label = "lookupDevice" => Postgres
        /\ why \cap {"cut", "expired"} = {}
    BY <2>1, Zenon
  <2> HIDE DEF label, why
  <2>4. MayArrive(q, "connect", r, d, {}, label, why)
    BY <1>1, <2>2, <2>3, Zenon DEF MayArrive
  <2> QED BY <1>1, <1>2, <2>1, <2>4, ArriveKeeps, Zenon
<1> QED BY <1>3, <1>4, Zenon

\* RefreshAccess: a live, unexpired entry was not cut off; else the row decides.
LEMMA RefreshAccessKeeps ==
  ASSUME AccessInv, NEW q \in Requests, NEW r \in Replicas, NEW c \in Creds, RefreshAccess(q, r, c)
  PROVE  AccessInv'
<1> DEFINE entry == mem[r].refresh[c]
           ok == entry # "none" /\ ~(entry = "live" /\ clock > RefreshExpiry(c))
           label == IF ok THEN "revokeOld" ELSE "lookupRefresh"
           why == WhyNotRefresh(r, c)
<1>1. /\ req[q].pc = "idle" /\ c \in held /\ (ok => entry = "live") /\ (~ok => Postgres)
      /\ UNCHANGED <<config, clock, db, token, mem, mutex, history>>
  BY Zenon DEF RefreshAccess
<1>2. PICK d \in token[c].owner : Arrive(q, "refresh", r, d, {c}, label, why)
  BY Zenon DEF RefreshAccess
<1>3. DataTypes' /\ \A s \in Replicas : Weaker(s)
  BY <1>1, TypeOKParts, Zenon DEF Weaker, DataTypes, AccessInv, TypeInv
<1>4. d \in Devices /\ (Postgres => db.device[d] # "none")
  BY <1>1, TypeOKParts, Zenon DEF AccessInv, TypeInv, DataTypes, StoredInv, CredentialsSurviveRestart
<1>5. /\ label \in {"revokeOld", "lookupRefresh", "lookupAccess", "identity", "accepted", "revoke", "lookupDevice", "connected"}
      /\ label \notin {"lookupAccess", "lookupDevice"}
      /\ label = "lookupRefresh" => Postgres
  BY <1>1, Zenon
<1>6. "barred" \notin why /\ ("expired" \in why => clock > RefreshExpiry(c))
  BY Zenon DEF WhyNotRefresh
<1>7. "cut" \in why => mem[r].refresh[c] # "live" /\ (Postgres => db.refresh[c] # "live")
  BY Zenon DEF WhyNotRefresh, AccessInv, CutInv, CutTokens, CutRequests, CutRequest, Gone
<1>8. label # "lookupRefresh" => why \cap {"cut", "expired"} = {}
  BY <1>1, <1>6, <1>7, Zenon
<1> HIDE DEF label, why, ok, entry
<1>9. MayArrive(q, "refresh", r, d, {c}, label, why)
  BY <1>1, <1>4, <1>5, <1>6, <1>7, <1>8, Zenon DEF MayArrive
<1> QED BY <1>1, <1>2, <1>3, <1>9, ArriveKeeps, Zenon

\* AuthenticateAccess: as above; an expired entry is marked.
LEMMA AuthenticateKeeps ==
  ASSUME AccessInv, NEW q \in Requests, NEW r \in Replicas, NEW c \in Creds, AuthenticateAccess(q, r, c)
  PROVE  AccessInv' /\ NoRevival
<1> DEFINE live == mem[r].access[c] = "live"
           usable == live /\ clock < AccessExpiry(c)
           label == IF usable THEN Found ELSE "lookupAccess"
           why == WhyNotAccess(r, c)
<1>1. /\ req[q].pc = "idle" /\ c \in held /\ (~usable => Postgres)
      /\ UNCHANGED <<config, clock, db, token, mutex, history>>
      /\ mem' = IF live /\ clock > AccessExpiry(c) THEN [mem EXCEPT ![r].access[c] = "revoked"] ELSE mem
  BY Zenon DEF AuthenticateAccess
<1>2. PICK d \in token[c].owner : Arrive(q, "access", r, d, {c}, label, why)
  BY Zenon DEF AuthenticateAccess
<1>3. DataTypes' /\ \A s \in Replicas : Weaker(s)
  <2>1. DataTypes
    BY TypeOKParts, Zenon DEF AccessInv, TypeInv
  <2>2. CASE mem' = mem
    BY <1>1, <2>1, <2>2, Zenon DEF Weaker, DataTypes
  <2>3. CASE mem' = [mem EXCEPT ![r].access[c] = "revoked"]
    <3> DEFINE new == [mem[r] EXCEPT !.access = [mem[r].access EXCEPT ![c] = "revoked"]]
    <3>1. mem \in [Replicas -> Maps] /\ mem[r] \in Maps
      BY <2>1, Zenon DEF DataTypes, Maps
    <3>2. new \in Maps
      BY <3>1, EntryFacts, Zenon DEF State
    <3>3. /\ new.devices = mem[r].devices /\ new.revoked = mem[r].revoked /\ new.refresh = mem[r].refresh
          /\ new.access = [mem[r].access EXCEPT ![c] = "revoked"] /\ DOMAIN mem[r].access = Creds
      BY <3>1, Zenon DEF Maps
    <3>4. mem' = [mem EXCEPT ![r] = new]
      BY <2>3, Zenon
    <3> HIDE DEF new
    <3>5. MapsSet(r, new)
      BY <3>1, <3>2, <3>4, MapsFacts, Zenon
    <3>6. \A s \in Replicas : Weaker(s)
      BY <3>3, <3>5, SMTT(30) DEF MapsSet, Weaker
    <3>7. DataTypes'
      BY <1>1, <2>1, <3>5, Zenon DEF MapsSet, DataTypes, Maps
    <3> QED BY <3>6, <3>7, Zenon
  <2> QED BY <1>1, <2>2, <2>3, Zenon
<1>4. d \in Devices /\ AccessExpiry(c) \in Nat /\ clock \in Nat
  BY <1>1, TypeOKParts, AccessConstants DEF AccessInv, TypeInv, DataTypes, Shaped, AccessExpiry
<1>5. /\ label \in {"revokeOld", "lookupRefresh", "lookupAccess", "identity", "accepted", "revoke", "lookupDevice", "connected"}
      /\ label \notin {"revokeOld", "lookupRefresh", "lookupDevice"}
      /\ label = "lookupAccess" => Postgres
      /\ Production => label \in {"lookupAccess", "identity"}
  BY <1>1, Zenon DEF Found
<1>6. /\ "barred" \in why => Production /\ d \in barred[r]
      /\ "expired" \in why => clock >= AccessExpiry(c)
  BY Zenon DEF WhyNotAccess
<1>7. "cut" \in why => mem[r].access[c] # "live" /\ (Postgres => db.access[c] # "live")
  BY Zenon DEF WhyNotAccess, AccessInv, CutInv, CutTokens, CutRequests, CutRequest, Gone
<1>8. label # "lookupAccess" => why \cap {"cut", "expired"} = {}
  BY <1>4, <1>6, <1>7, SMTT(30)
<1> HIDE DEF label, why, live, usable
<1>9. MayArrive(q, "access", r, d, {c}, label, why)
  BY <1>1, <1>4, <1>5, <1>6, <1>7, <1>8, Zenon DEF MayArrive
<1>10. NoRevival
  BY <1>1, <1>3, Zenon DEF Weaker, NoRevival, AccessInv, TypeInv, Shaped
<1> QED BY <1>1, <1>2, <1>3, <1>9, ArriveKeeps, <1>10, Zenon
-----------------------------------------------------------------------------
(* Registration and issuing.                                               *)

\* An unissued credential is held by no one and issued by no request.
LEMMA UnissuedFacts ==
  ASSUME AccessInv, NEW f \in Unissued
  PROVE  f \in Creds /\ f \notin held /\ \A q \in Requests : f \notin req[q].fresh
  BY Zenon DEF Unissued, AccessInv, TypeInv, Fresh

\* Register draws a credential for the device.
LEMMA RegisterKeeps ==
  ASSUME AccessInv, NEW q \in Requests, NEW r \in Replicas, NEW d \in Devices, Register(q, r, d)
  PROVE  AccessInv'
<1> DEFINE label == IF Postgres THEN "persist" ELSE "storeAccess"
<1>1. UNCHANGED <<config, clock, db, token, mem, mutex, history>> /\ req[q].pc = "idle"
  BY Zenon DEF Register
<1>2. PICK f \in Unissued :
         req' = [req EXCEPT ![q] = [Idle EXCEPT !.pc = label, !.op = "bind", !.at = {r}, !.dev = {d}, !.fresh = {f}]]
  BY Zenon DEF Register
<1> DEFINE new == [Idle EXCEPT !.pc = label, !.op = "bind", !.at = {r}, !.dev = {d}, !.fresh = {f}]
<1>3. /\ DOMAIN new = DOMAIN Idle /\ new.pc = label /\ new.op = "bind" /\ new.at = {r} /\ new.dev = {d}
      /\ new.cred = {} /\ new.fresh = {f} /\ new.now = 0 /\ new.covers = {} /\ new.doomed = {}
  BY IdleFields, Zenon
<1>4. req' = [req EXCEPT ![q] = new]
  BY <1>2, Zenon
<1>5. label \in {"persist", "storeAccess"} /\ (label = "persist" <=> Postgres)
  BY Zenon
<1> HIDE DEF new, label
<1>6. /\ Others(q) /\ req'[q].pc = label /\ req'[q].op = "bind" /\ req'[q].at = {r} /\ req'[q].dev = {d}
      /\ req'[q].cred = {} /\ req'[q].fresh = {f} /\ req'[q].now = 0 /\ req'[q].covers = {} /\ req'[q].doomed = {}
  BY <1>3, <1>4, Zenon DEF AccessInv, TypeInv, Shaped, Others
<1>7. label \in Labels /\ label \notin Locked /\ label \notin Issuing /\ label # "idle" /\ "idle" \notin Locked
  BY <1>5, Zenon DEF Labels, Statements, Locked, Issuing
<1>8. f \in Creds /\ f \notin held /\ \A p \in Requests : f \notin req[p].fresh
  BY UnissuedFacts, Zenon
<1>9. TypeInv'
  <2>1. DataTypes'
    BY <1>1, TypeOKParts, Zenon DEF AccessInv, TypeInv, DataTypes
  <2>2. LocksOK'
    BY <1>1, <1>6, <1>7, TypeOKParts, SMTT(30) DEF AccessInv, TypeInv, LocksOK, Others
  <2>3. Shaped'
    BY <1>1, <1>6, Zenon DEF AccessInv, TypeInv, Shaped, Others, history
  <2>4. RequestsOK'
    BY <1>1, <1>5, <1>6, <1>7, AccessConstants, SMTT(30)
       DEF AccessInv, TypeInv, RequestsOK, Others, Postgres, config, history, NeedPostgres
  <2>5. Fresh'
    BY <1>1, <1>6, <1>7, <1>8, SMTT(30) DEF AccessInv, TypeInv, Fresh, Others, history
  <2> QED BY <2>1, <2>2, <2>3, <2>4, <2>5, TypeOKNext, Zenon DEF TypeInv
<1>10. StoredInv'
  BY <1>1, <1>5, <1>6, <1>7 DEF AccessInv, StoredInv, CredentialsSurviveRestart, Others, Postgres, config, history
<1>11. CutInv'
  BY <1>1, <1>5, <1>6, <1>7, SMTT(30) DEF AccessInv, CutInv, CutTokens, CutRequests, CutRequest, Gone, Others, Postgres, config, history, RefreshExpiry, AccessExpiry
<1>12. BarredInv'
  BY <1>1, <1>5, <1>6, <1>7, SMTT(30) DEF AccessInv, BarredInv, Registering, Others, Postgres, Production, config, history
<1> QED BY <1>9, <1>10, <1>11, <1>12, Zenon DEF AccessInv

\* When nothing revives, the tokens that are cut off stay so.
LEMMA CutTokensStay ==
  ASSUME CutTokens, NoRevival, UNCHANGED <<config, cut, dead>>, held \subseteq held'
  PROVE  CutTokens'
<1> SUFFICES ASSUME NEW r \in Replicas, NEW c \in Creds, NEW kind \in {"access", "refresh"}
             PROVE  /\ <<kind, c>> \in cut'[r] => c \in held' /\ Gone(kind, c, r)'
                    /\ <<kind, c>> \in dead' => c \in held' /\ (Postgres' => db'[kind][c] # "live")
  BY Zenon DEF CutTokens
<1>1. /\ <<kind, c>> \in cut[r] => c \in held /\ Gone(kind, c, r)
      /\ <<kind, c>> \in dead => c \in held /\ (Postgres => db[kind][c] # "live")
  BY Zenon DEF CutTokens
<1>2. c \in held => /\ db'[kind][c] = "live" => db[kind][c] = "live"
                    /\ mem'[r][kind][c] = "live" => mem[r][kind][c] = "live"
  BY Zenon DEF NoRevival
<1> QED BY <1>1, <1>2, Zenon DEF Gone, Postgres, config

\* So does what a request has cut off, or will be refused for.
LEMMA CutRequestStays ==
  ASSUME AccessInv, NoRevival, UNCHANGED <<config, clock>>, \A c \in held : token'[c] = token[c],
         NEW p \in Requests, NEW s \in Replicas, req[p].at = {s},
         req'[p].pc = req[p].pc, req'[p].dev = req[p].dev, req'[p].cred = req[p].cred, req'[p].now = req[p].now,
         req'[p].covers = req[p].covers, req'[p].doomed \subseteq req[p].doomed
  PROVE  CutRequest(p, s)'
<1>1. CutRequest(p, s) /\ req[p].cred \subseteq held /\ req[p].covers \subseteq held
  BY Zenon DEF AccessInv, TypeInv, RequestsOK, CutInv, CutRequests
<1>2. \A c \in held : /\ token'[c] = token[c]
                      /\ mem[s].access[c] # "live" => mem'[s].access[c] # "live"
                      /\ mem[s].refresh[c] # "live" => mem'[s].refresh[c] # "live"
                      /\ db.access[c] # "live" => db'.access[c] # "live"
                      /\ db.refresh[c] # "live" => db'.refresh[c] # "live"
  BY Zenon DEF NoRevival
<1>3. Postgres' = Postgres /\ clock' = clock
  BY Zenon DEF Postgres, config
<1>4. ASSUME NEW c \in req'[p].cred
      PROVE  /\ req'[p].pc \in Issuing \cup {"storeAccess", "revokeOldRow"} => mem'[s].refresh[c] # "live"
             /\ req'[p].pc \in Issuing \cup {"storeAccess"} /\ Postgres' => db'.refresh[c] # "live"
             /\ req'[p].pc = "lookupRefresh" =>
                   /\ "cut" \in req'[p].doomed => db'.refresh[c] # "live"
                   /\ "expired" \in req'[p].doomed => clock' > RefreshExpiry(c)'
             /\ req'[p].pc = "lookupAccess" =>
                   /\ "cut" \in req'[p].doomed => db'.access[c] # "live"
                   /\ "expired" \in req'[p].doomed => req'[p].now >= AccessExpiry(c)'
  <2>1. c \in req[p].cred /\ c \in held
    BY <1>1, Zenon
  <2>2. /\ req[p].pc \in Issuing \cup {"storeAccess", "revokeOldRow"} => mem[s].refresh[c] # "live"
        /\ req[p].pc \in Issuing \cup {"storeAccess"} /\ Postgres => db.refresh[c] # "live"
        /\ req[p].pc = "lookupRefresh" => /\ "cut" \in req[p].doomed => db.refresh[c] # "live"
                                          /\ "expired" \in req[p].doomed => clock > RefreshExpiry(c)
        /\ req[p].pc = "lookupAccess" => /\ "cut" \in req[p].doomed => db.access[c] # "live"
                                         /\ "expired" \in req[p].doomed => req[p].now >= AccessExpiry(c)
    BY <1>1, <2>1, Zenon DEF CutRequest
  <2>3. /\ token'[c] = token[c]
        /\ mem[s].access[c] # "live" => mem'[s].access[c] # "live"
        /\ mem[s].refresh[c] # "live" => mem'[s].refresh[c] # "live"
        /\ db.access[c] # "live" => db'.access[c] # "live"
        /\ db.refresh[c] # "live" => db'.refresh[c] # "live"
    BY <1>2, <2>1, Zenon
  <2>4. /\ req'[p].pc = "lookupRefresh" =>
              /\ "cut" \in req'[p].doomed => db'.refresh[c] # "live"
              /\ "expired" \in req'[p].doomed => clock' > RefreshExpiry(c)'
        /\ req'[p].pc = "lookupAccess" =>
              /\ "cut" \in req'[p].doomed => db'.access[c] # "live"
              /\ "expired" \in req'[p].doomed => req'[p].now >= AccessExpiry(c)'
    BY <1>3, <2>2, <2>3, Zenon DEF RefreshExpiry, AccessExpiry
  <2> QED BY <1>3, <2>2, <2>3, <2>4, Zenon
<1>5. ASSUME NEW c \in req'[p].covers, req'[p].pc \in Locked
      PROVE  /\ req'[p].dev \subseteq token'[c].owner
             /\ mem'[s].access[c] # "live" /\ mem'[s].refresh[c] # "live"
             /\ req'[p].pc = "revokeRefreshRows" => db'.access[c] # "live"
  <2>1. c \in req[p].covers /\ c \in held /\ req[p].pc \in Locked
    BY <1>1, <1>5, Zenon
  <2>2. /\ req[p].dev \subseteq token[c].owner /\ mem[s].access[c] # "live" /\ mem[s].refresh[c] # "live"
        /\ req[p].pc = "revokeRefreshRows" => db.access[c] # "live"
    BY <1>1, <2>1, Zenon DEF CutRequest
  <2>3. /\ token'[c] = token[c]
        /\ mem[s].access[c] # "live" => mem'[s].access[c] # "live"
        /\ mem[s].refresh[c] # "live" => mem'[s].refresh[c] # "live"
        /\ db.access[c] # "live" => db'.access[c] # "live"
        /\ db.refresh[c] # "live" => db'.refresh[c] # "live"
    BY <1>2, <2>1, Zenon
  <2> QED BY <2>2, <2>3, Zenon
<1>6. req'[p].pc \notin {"lookupRefresh", "lookupAccess"} => req'[p].doomed \cap {"cut", "expired"} = {}
  BY <1>1, Zenon DEF CutRequest
<1> QED BY <1>4, <1>5, <1>6, Zenon DEF CutRequest

\* And what the others have, when a request leaves.
LEMMA CutRequestsLeft ==
  ASSUME AccessInv, NoRevival, UNCHANGED <<config, clock, token>>, NEW q \in Requests, Left(q)
  PROVE  CutRequests'
<1> SUFFICES ASSUME NEW p \in Requests, NEW s \in Replicas, req'[p].at = {s}
             PROVE  CutRequest(p, s)'
  BY Zenon DEF CutRequests
<1>1. p # q
  BY Zenon DEF Left
<1>2. req'[p] = req[p]
  BY <1>1, Zenon DEF Left, Others
<1>3. UNCHANGED <<config, clock>> /\ \A c \in held : token'[c] = token[c]
  BY Zenon
<1> QED BY <1>2, <1>3, CutRequestStays, Zenon

\* So a step of one request only has to answer for that request.
LEMMA CutOthersStay ==
  ASSUME AccessInv, NoRevival, UNCHANGED <<config, clock>>, \A c \in held : token'[c] = token[c],
         NEW q \in Requests, Others(q), \A s \in Replicas : req'[q].at = {s} => CutRequest(q, s)'
  PROVE  CutRequests'
<1> SUFFICES ASSUME NEW p \in Requests, NEW s \in Replicas, req'[p].at = {s}
             PROVE  CutRequest(p, s)'
  BY Zenon DEF CutRequests
<1>1. CASE p = q
  BY <1>1, Zenon
<1>2. CASE p # q
  <2>1. req'[p] = req[p]
    BY <1>2, Zenon DEF Others
  <2> QED BY <2>1, CutRequestStays, Zenon
<1> QED BY <1>1, <1>2, Zenon

\* PersistDevice makes the row active: the device is no longer barred anywhere.
LEMMA PersistDeviceKeeps ==
  ASSUME AccessInv, NEW q \in Requests, NEW r \in Replicas, NEW d \in Devices, PersistDevice(q, r, d)
  PROVE  AccessInv' /\ NoRevival
<1>1. /\ UNCHANGED <<config, clock, token, mem, mutex, held, dead, cut>>
      /\ req[q].pc = "persist" /\ req[q].at = {r} /\ req[q].dev = {d}
      /\ db' = [db EXCEPT !.device[d] = "active"]
      /\ barred' = [s \in Replicas |-> barred[s] \ {d}]
  BY Zenon DEF PersistDevice, At
<1>2. /\ DOMAIN req' = Requests
      /\ \A p \in Requests :
            /\ DOMAIN req'[p] = DOMAIN Idle /\ req'[p].op = req[p].op /\ req'[p].at = req[p].at /\ req'[p].dev = req[p].dev
            /\ req'[p].cred = req[p].cred /\ req'[p].fresh = req[p].fresh /\ req'[p].now = req[p].now
            /\ req'[p].covers = req[p].covers
            /\ p # q => req'[p].pc = req[p].pc
            /\ req'[p].doomed \subseteq req[p].doomed /\ ("barred" \in req'[p].doomed => d \notin req[p].dev)
      /\ req'[q].pc = "storeAccess"
  <2>1. \A p \in Requests : DOMAIN req[p] = DOMAIN Idle
    BY Zenon DEF AccessInv, TypeInv, Shaped
  <2> QED BY <2>1, IdleFields, Zenon DEF PersistDevice
<1>3. Postgres /\ req[q].pc \notin Locked /\ req[q].pc \notin Issuing
  BY <1>1, RequestFacts, Zenon DEF NeedPostgres, Statements, Locked, Issuing
<1>4. /\ DOMAIN db = {"device", "access", "refresh"} /\ db.device \in [Devices -> {"none", "active", "revoked"}]
      /\ db.access \in [Creds -> State] /\ db.refresh \in [Creds -> State]
  BY TypeOKParts, Zenon DEF AccessInv, TypeInv, DataTypes
<1>5. db'.access = db.access /\ db'.refresh = db.refresh /\ db'.device = [db.device EXCEPT ![d] = "active"]
  BY <1>1, <1>4, Zenon
<1>6. DataTypes'
  <2>1. db' \in [device : [Devices -> {"none", "active", "revoked"}], access : [Creds -> State], refresh : [Creds -> State]]
    <3> DEFINE new == [db.device EXCEPT ![d] = "active"]
    <3>1. new \in [Devices -> {"none", "active", "revoked"}]
      BY <1>4, Zenon
    <3>2. db' = [db EXCEPT !.device = new]
      BY <1>1, Zenon
    <3> HIDE DEF new
    <3> QED BY <3>1, <3>2, TypeOKParts, Zenon DEF AccessInv, TypeInv, DataTypes
  <2> QED BY <1>1, <2>1, TypeOKParts, Zenon DEF AccessInv, TypeInv, DataTypes
<1>7. "storeAccess" \in Labels /\ "storeAccess" \notin Locked /\ "storeAccess" \notin Issuing /\ "storeAccess" \notin NeedPostgres
  BY Zenon DEF Labels, Statements, Locked, Issuing, NeedPostgres
<1>8. TypeInv'
  <2>1. LocksOK'
    BY <1>1, <1>2, <1>3, <1>7, TypeOKParts DEF AccessInv, TypeInv, LocksOK
  <2>2. Shaped'
    BY <1>1, <1>2, Zenon DEF AccessInv, TypeInv, Shaped
  <2>3. RequestsOK'
    <3> SUFFICES ASSUME NEW p \in Requests
                 PROVE  /\ req'[p].pc = "idle" => req'[p] = Idle
                        /\ req'[p].pc # "idle" => /\ \E s \in Replicas : req'[p].at = {s}
                                                  /\ \E e \in Devices : req'[p].dev = {e}
                        /\ req'[p].pc \in NeedPostgres => Postgres'
                        /\ req'[p].pc \in {"persist", "publishDevice"} => req'[p].op = "bind"
                        /\ req'[p].op = "bind" => req'[p].cred = {}
                        /\ \A c, e \in req'[p].cred : c = e
                        /\ req'[p].cred \subseteq held' /\ req'[p].covers \subseteq held'
                        /\ req'[p].now \in 0 .. MaxClock
      BY Zenon DEF RequestsOK
    <3>1. req'[p].pc = "idle" => req'[p] = Idle
      <4> SUFFICES ASSUME req'[p].pc = "idle" PROVE req'[p] = Idle
        BY Zenon
      <4>1. req[p] = Idle /\ p # q
        BY <1>1, <1>2 DEF AccessInv, TypeInv, RequestsOK
      <4>2. req'[p] = [Idle EXCEPT !.pc = Idle.pc, !.doomed = Idle.doomed]
        BY <4>1, IdleFields, Zenon DEF PersistDevice
      <4>3. [Idle EXCEPT !.pc = Idle.pc, !.doomed = Idle.doomed] = Idle
        BY Zenon DEF Idle
      <4> QED BY <4>2, <4>3, Zenon
    <3> QED BY <1>1, <1>2, <1>3, <1>7, <3>1 DEF AccessInv, TypeInv, RequestsOK, Postgres, config
  <2>4. Fresh'
    BY <1>1, <1>2, <1>7 DEF AccessInv, TypeInv, Fresh
  <2> QED BY <1>6, <2>1, <2>2, <2>3, <2>4, TypeOKNext, Zenon DEF TypeInv
<1>9. StoredInv'
  <2>1. \A e \in Devices : db.device[e] # "none" => db'.device[e] # "none"
    BY <1>4, <1>5, Zenon
  <2>2. db'.device[d] # "none" /\ \A c \in Creds : token[c].owner \subseteq Devices
    BY <1>4, <1>5, TypeOKParts, Zenon DEF AccessInv, TypeInv, DataTypes
  <2>3. held \subseteq Creds /\ \A p \in Requests : req[p].pc # "idle" => req[p].dev \subseteq Devices
    BY SMTT(30) DEF AccessInv, TypeInv, Shaped, RequestsOK
  <2>4. CredentialsSurviveRestart'
    BY <1>1, <1>3, <1>5, <2>1, <2>2, <2>3, Zenon DEF AccessInv, StoredInv, CredentialsSurviveRestart, Postgres, config
  <2> QED BY <1>1, <1>2, <1>3, <1>5, <1>7, <2>1, <2>2, <2>3, <2>4 DEF AccessInv, StoredInv, Postgres, config, Issuing
<1>10. CutInv'
  <2>1. NoRevival
    BY <1>1, <1>5, Zenon DEF NoRevival
  <2>2. CutTokens'
    BY <1>1, <2>1, CutTokensStay, Zenon DEF AccessInv, CutInv
  <2>3. ASSUME NEW p \in Requests \ {q}, NEW s \in Replicas, req'[p].at = {s}
        PROVE  CutRequest(p, s)'
    <3>1. /\ req[p].at = {s} /\ req'[p].pc = req[p].pc /\ req'[p].dev = req[p].dev /\ req'[p].cred = req[p].cred
          /\ req'[p].now = req[p].now /\ req'[p].covers = req[p].covers /\ req'[p].doomed \subseteq req[p].doomed
      BY <1>2, <2>3, Zenon
    <3> QED BY <1>1, <2>1, <3>1, CutRequestStays, Zenon
  <2>4. ASSUME NEW s \in Replicas, req'[q].at = {s}
        PROVE  CutRequest(q, s)'
    <3>0. req[q].op = "bind" /\ req[q].at = {s} /\ req'[q].cred = req[q].cred /\ req'[q].doomed \subseteq req[q].doomed
      BY <1>1, <1>2, <2>4, Zenon DEF AccessInv, TypeInv, RequestsOK
    <3>1. req'[q].cred = {} /\ CutRequest(q, s) /\ req'[q].doomed \subseteq req[q].doomed
      BY <3>0, Zenon DEF AccessInv, TypeInv, RequestsOK, CutInv, CutRequests
    <3>2. req[q].pc \notin {"lookupRefresh", "lookupAccess"}
      BY <1>1, Zenon
    <3>3. req[q].doomed \cap {"cut", "expired"} = {}
      BY <3>1, <3>2, Zenon DEF CutRequest
    <3>4. req'[q].doomed \cap {"cut", "expired"} = {}
      BY <3>1, <3>3, Zenon
    <3> QED BY <1>2, <1>7, <3>1, <3>4, Zenon DEF CutRequest
  <2> QED BY <2>2, <2>3, <2>4, Zenon DEF CutInv, CutRequests
<1>11. BarredInv'
  <2>1. BarredInv /\ Postgres' = Postgres /\ Production' = Production /\ mem' = mem
    BY <1>1, Zenon DEF AccessInv, Postgres, Production, config
  <2>2. ASSUME NEW s \in Replicas, NEW e \in barred'[s]
        PROVE  /\ Postgres' => db'.device[e] = "revoked"
               /\ \/ e \in mem'[s].revoked
                  \/ Postgres' /\ e \notin mem'[s].devices /\ \A p \in Requests : ~Registering(p, s, e)'
    <3>1. e \in barred[s] /\ e # d
      BY <1>1, <2>2, Zenon
    <3>2. db'.device[e] = db.device[e]
      BY <1>4, <1>5, <3>1, Zenon DEF AccessInv, TypeInv, Shaped
    <3>3. \A p \in Requests : Registering(p, s, e)' => Registering(p, s, e)
      <4>1. e \notin req'[q].dev
        BY <1>1, <1>2, <3>1, Zenon
      <4>2. \A p \in Requests \ {q} : /\ req'[p].op = req[p].op /\ req'[p].at = req[p].at
                                      /\ req'[p].dev = req[p].dev /\ req'[p].pc = req[p].pc
        BY <1>2, Zenon
      <4> QED BY <4>1, <4>2, Zenon DEF Registering
    <3> QED BY <2>1, <3>1, <3>2, <3>3, Zenon DEF BarredInv
  <2>3. ASSUME NEW p \in Requests, NEW s \in Replicas, NEW e \in Devices, req'[p].at = {s}, req'[p].dev = {e}
        PROVE  /\ "barred" \in req'[p].doomed =>
                     /\ e \in barred'[s]
                     /\ req'[p].pc \in {"lookupAccess", "identity", "lookupIdentity", "lookupDevice"}
                     /\ req'[p].pc # "lookupDevice" => Production'
               /\ req'[p].pc \in Locked => e \in mem'[s].revoked
    <3>1. req[p].at = {s} /\ req[p].dev = {e} /\ ("barred" \in req'[p].doomed => "barred" \in req[p].doomed /\ e # d /\ p # q)
      BY <1>1, <1>2, <2>3, Zenon
    <3>2. "barred" \in req'[p].doomed => e \in barred'[s]
      <4>1. "barred" \in req[p].doomed => e \in barred[s]
        BY <2>1, <3>1, BarredRequests, Zenon
      <4> QED BY <1>1, <3>1, <4>1, Zenon
    <3>3. req'[p].pc \in Locked => req[p].pc \in Locked
      BY <1>2, <1>7, Zenon
    <3>4. "barred" \in req'[p].doomed => req'[p].pc = req[p].pc
      BY <1>2, <3>1, Zenon
    <3>5. "barred" \in req[p].doomed =>
             /\ req[p].pc \in {"lookupAccess", "identity", "lookupIdentity", "lookupDevice"}
             /\ req[p].pc # "lookupDevice" => Production
      BY <2>1, <3>1, BarredRequests, Zenon
    <3>6. req[p].pc \in Locked => e \in mem[s].revoked
      BY <2>1, <3>1, BarredRequests, Zenon
    <3> QED BY <2>1, <3>1, <3>2, <3>3, <3>4, <3>5, <3>6, Zenon
  <2> QED BY <1>3, <2>1, <2>2, <2>3, Zenon DEF BarredInv
<1>12. NoRevival
  BY <1>1, <1>5, Zenon DEF NoRevival
<1> QED BY <1>8, <1>9, <1>10, <1>11, <1>12, Zenon DEF AccessInv

Tables == [device : [Devices -> {"none", "active", "revoked"}], access : [Creds -> State], refresh : [Creds -> State]]

\* The tables after an update of one of them.
LEMMA AccessTable ==
  ASSUME db \in Tables, NEW rows \in [Creds -> State], db' = [db EXCEPT !.access = rows]
  PROVE  db' \in Tables /\ db'.access = rows /\ db'.refresh = db.refresh /\ db'.device = db.device
  BY Zenon DEF Tables

\* The same for the refresh tokens.
LEMMA RefreshTable ==
  ASSUME db \in Tables, NEW rows \in [Creds -> State], db' = [db EXCEPT !.refresh = rows]
  PROVE  db' \in Tables /\ db'.refresh = rows /\ db'.access = db.access /\ db'.device = db.device
  BY Zenon DEF Tables

\* The same for the devices.
LEMMA DeviceTable ==
  ASSUME db \in Tables, NEW rows \in [Devices -> {"none", "active", "revoked"}], db' = [db EXCEPT !.device = rows]
  PROVE  db' \in Tables /\ db'.device = rows /\ db'.access = db.access /\ db'.refresh = db.refresh
  BY Zenon DEF Tables

\* StoreAccessHash: the credential gets its owner, and its access row.
LEMMA StoreAccessHashKeeps ==
  ASSUME AccessInv, NEW q \in Requests, NEW c \in Creds, StoreAccessHash(q, c)
  PROVE  AccessInv' /\ NoRevival
<1> DEFINE label == IF Postgres THEN "storeRefresh" ELSE "publish"
           rows == [db.access EXCEPT ![c] = "live"]
<1>1. /\ UNCHANGED <<config, clock, mem, mutex, history>>
      /\ req[q].pc = "storeAccess" /\ c \in req[q].fresh
      /\ token' = [token EXCEPT ![c] = [owner |-> req[q].dev, issued |-> clock]]
      /\ db' = IF Postgres THEN [db EXCEPT !.access = rows] ELSE db
      /\ Goto(q, label)
  BY Zenon DEF StoreAccessHash
<1>2. /\ label \in {"storeRefresh", "publish"} /\ (label = "storeRefresh" => Postgres) /\ (Postgres => label = "storeRefresh")
      /\ label \in Labels \ {"idle"} /\ label \notin Locked /\ label \in Issuing
      /\ label \in NeedPostgres => Postgres
      /\ req[q].pc \notin Locked /\ req[q].pc \notin Issuing
  BY <1>1, Zenon DEF Labels, Statements, Locked, NeedPostgres, Issuing
<1>3. db \in Tables /\ rows \in [Creds -> State]
  BY TypeOKParts, Zenon DEF AccessInv, TypeInv, DataTypes, Tables, State
<1>4. /\ db' \in Tables /\ db'.device = db.device /\ db'.refresh = db.refresh
      /\ Postgres => db'.access[c] = "live"
      /\ \A e \in Creds \ {c} : db'.access[e] = db.access[e]
  <2>1. rows[c] = "live" /\ \A e \in Creds \ {c} : rows[e] = db.access[e]
    BY <1>3, Zenon DEF Tables
  <2> HIDE DEF rows
  <2> QED BY <1>1, <1>3, <2>1, AccessTable, Zenon
<1> HIDE DEF label, rows
<1>5. Moved(q, label)
  BY <1>1, GotoFacts, Zenon DEF AccessInv, TypeInv
<1>6. PICK d \in Devices : req[q].dev = {d}
  BY <1>1, RequestFacts, Zenon
<1>7. /\ token' \in [Creds -> [owner : SUBSET Devices, issued : 0..MaxClock]]
      /\ token'[c].owner = req[q].dev /\ \A e \in Creds \ {c} : token'[e] = token[e]
  BY <1>1, <1>6, TypeOKParts DEF AccessInv, TypeInv, DataTypes, Shaped
<1>8. DataTypes'
  BY <1>1, <1>4, <1>7, TypeOKParts, Zenon DEF AccessInv, TypeInv, DataTypes, Tables
<1>9. c \notin held /\ req[q].fresh = {c} /\ \A p \in Requests \ {q} : c \notin req[p].fresh
  BY <1>1 DEF AccessInv, TypeInv, Fresh
<1>10. TypeInv'
  BY <1>1, <1>2, <1>5, <1>7, <1>8, <1>9, GotoTypes, Zenon DEF AccessInv, history
<1>11. held \subseteq Creds /\ \A p \in Requests : req[p].cred \subseteq held /\ req[p].covers \subseteq held /\ req[p].fresh \subseteq Creds
  BY Zenon DEF AccessInv, TypeInv, Shaped, RequestsOK, Fresh
<1>12. StoredInv'
  BY <1>1, <1>2, <1>4, <1>5, <1>7, <1>9, <1>11 DEF AccessInv, StoredInv, CredentialsSurviveRestart, Moved, Others, Postgres, config, history
<1>13. CutInv'
  <2>1. NoRevival
    BY <1>1, <1>4, <1>9, <1>11, Zenon DEF NoRevival
  <2>2. \A e \in held : db'.access[e] = db.access[e] /\ db'.refresh[e] = db.refresh[e]
    BY <1>4, <1>9, <1>11, Zenon
  <2>3. \A e \in held : token'[e] = token[e] /\ RefreshExpiry(e)' = RefreshExpiry(e) /\ AccessExpiry(e)' = AccessExpiry(e)
    BY <1>7, <1>9, <1>11, Zenon DEF RefreshExpiry, AccessExpiry
  <2>4. CutTokens'
    BY <1>1, <2>1, CutTokensStay, Zenon DEF AccessInv, CutInv, history
  <2>5. CutRequests'
    BY <1>1, <1>2, <1>5, <1>11, <2>2, <2>3 DEF AccessInv, CutInv, CutRequests, CutRequest, Moved, Others, Postgres, config, history
  <2> QED BY <2>4, <2>5, Zenon DEF CutInv
<1>14. BarredInv'
  BY <1>1, <1>2, <1>4, <1>5, SMTT(30) DEF AccessInv, BarredInv, Registering, Moved, Others, Postgres, Production, config, history
<1>15. NoRevival
  BY <1>1, <1>4, <1>9, <1>11, Zenon DEF NoRevival
<1> QED BY <1>10, <1>12, <1>13, <1>14, <1>15, Zenon DEF AccessInv

\* StoreRefreshHash: the refresh row of a credential that no one holds yet.
LEMMA StoreRefreshHashKeeps ==
  ASSUME AccessInv, NEW q \in Requests, NEW c \in Creds, StoreRefreshHash(q, c)
  PROVE  AccessInv' /\ NoRevival
<1> DEFINE rows == [db.refresh EXCEPT ![c] = "live"]
<1>1. /\ UNCHANGED <<config, clock, token, mem, mutex, history>>
      /\ req[q].pc = "storeRefresh" /\ c \in req[q].fresh
      /\ db' = [db EXCEPT !.refresh = rows]
      /\ Goto(q, "publish")
  BY Zenon DEF StoreRefreshHash
<1>2. /\ "publish" \in Labels \ {"idle"} /\ "publish" \notin Locked /\ "publish" \in Issuing
      /\ "publish" \notin NeedPostgres /\ "storeRefresh" \notin Locked /\ "storeRefresh" \in Issuing
  BY Zenon DEF Labels, Statements, Locked, NeedPostgres, Issuing
<1>3. db \in Tables /\ rows \in [Creds -> State]
  BY TypeOKParts, Zenon DEF AccessInv, TypeInv, DataTypes, Tables, State
<1>4. /\ db' \in Tables /\ db'.device = db.device /\ db'.access = db.access
      /\ db'.refresh[c] = "live"
      /\ \A e \in Creds \ {c} : db'.refresh[e] = db.refresh[e]
  <2>1. rows[c] = "live" /\ \A e \in Creds \ {c} : rows[e] = db.refresh[e]
    BY <1>3, Zenon DEF Tables
  <2> HIDE DEF rows
  <2> QED BY <1>1, <1>3, <2>1, RefreshTable, Zenon
<1> HIDE DEF rows
<1>5. Moved(q, "publish")
  BY <1>1, GotoFacts, Zenon DEF AccessInv, TypeInv
<1>6. DataTypes'
  BY <1>1, <1>4, TypeOKParts, Zenon DEF AccessInv, TypeInv, DataTypes, Tables
<1>7. c \notin held /\ req[q].fresh = {c} /\ \A p \in Requests \ {q} : c \notin req[p].fresh
  BY <1>1 DEF AccessInv, TypeInv, Fresh
<1>8. token[c].owner = req[q].dev
  BY <1>1, <1>2 DEF AccessInv, TypeInv, Fresh
<1>9. TypeInv'
  BY <1>1, <1>2, <1>5, <1>6, <1>7, <1>8, GotoTypes, Zenon DEF AccessInv, history
<1>10. held \subseteq Creds /\ \A p \in Requests : req[p].cred \subseteq held /\ req[p].covers \subseteq held /\ req[p].fresh \subseteq Creds
  BY Zenon DEF AccessInv, TypeInv, Shaped, RequestsOK, Fresh
<1>11. StoredInv'
  BY <1>1, <1>2, <1>4, <1>5, <1>7, <1>10 DEF AccessInv, StoredInv, CredentialsSurviveRestart, Moved, Others, Postgres, config, history
<1>12. CutInv'
  <2>1. NoRevival
    BY <1>1, <1>4, <1>7, <1>10, Zenon DEF NoRevival
  <2>2. \A e \in held : db'.access[e] = db.access[e] /\ db'.refresh[e] = db.refresh[e]
    BY <1>4, <1>7, <1>10, Zenon
  <2>3. CutTokens'
    BY <1>1, <2>1, CutTokensStay, Zenon DEF AccessInv, CutInv, history
  <2>4. CutRequests'
    BY <1>1, <1>2, <1>5, <1>10, <2>2, SMTT(30)
       DEF AccessInv, CutInv, CutRequests, CutRequest, Moved, Others, Postgres, config, history, RefreshExpiry, AccessExpiry
  <2> QED BY <2>3, <2>4, Zenon DEF CutInv
<1>13. BarredInv'
  BY <1>1, <1>2, <1>4, <1>5 DEF AccessInv, BarredInv, Registering, Moved, Others, Postgres, Production, config, history
<1>14. NoRevival
  BY <1>1, <1>4, <1>7, <1>10, Zenon DEF NoRevival
<1> QED BY <1>9, <1>11, <1>12, <1>13, <1>14, Zenon DEF AccessInv

\* PublishCredentials: both tokens of a credential that no one holds yet.
LEMMA PublishCredentialsKeeps ==
  ASSUME AccessInv, NEW q \in Requests, NEW r \in Replicas, NEW d \in Devices, PublishCredentials(q, r, d)
  PROVE  AccessInv' /\ NoRevival
<1> DEFINE label == IF req[q].op = "bind" THEN "publishDevice" ELSE "rotated"
<1>1. /\ UNCHANGED <<config, clock, db, token, mutex, history>>
      /\ req[q].pc = "publish" /\ req[q].at = {r} /\ req[q].dev = {d} /\ Goto(q, label)
  BY Zenon DEF PublishCredentials, At
<1>2. PICK c \in req[q].fresh : mem' = [mem EXCEPT ![r].access[c] = "live", ![r].refresh[c] = "live"]
  BY Zenon DEF PublishCredentials
<1>3. /\ label \in {"publishDevice", "rotated"} /\ (label = "publishDevice" => req[q].op = "bind")
      /\ label \in Labels \ {"idle"} /\ label \notin Locked /\ label \in Issuing /\ label \notin NeedPostgres
      /\ req[q].pc \notin Locked /\ req[q].pc \in Issuing
  BY <1>1, Zenon DEF Labels, Statements, Locked, NeedPostgres, Issuing
<1>4. c \in Creds /\ c \notin held /\ req[q].fresh = {c} /\ \A p \in Requests \ {q} : c \notin req[p].fresh
  BY DEF AccessInv, TypeInv, Fresh
<1> HIDE DEF label
<1>5. /\ mem' \in [Replicas -> Maps] /\ \A s \in Replicas \ {r} : mem'[s] = mem[s]
      /\ mem'[r].devices = mem[r].devices /\ mem'[r].revoked = mem[r].revoked
      /\ \A e \in Creds \ {c} : mem'[r].access[e] = mem[r].access[e] /\ mem'[r].refresh[e] = mem[r].refresh[e]
  <2> DEFINE a == [mem[r].access EXCEPT ![c] = "live"]
             b == [mem[r].refresh EXCEPT ![c] = "live"]
             new == [mem[r] EXCEPT !.access = a, !.refresh = b]
  <2>1. mem \in [Replicas -> Maps] /\ mem[r] \in Maps
    BY TypeOKParts, Zenon DEF AccessInv, TypeInv, DataTypes, Maps
  <2>2. /\ a \in [Creds -> State] /\ b \in [Creds -> State]
        /\ \A e \in Creds \ {c} : a[e] = mem[r].access[e] /\ b[e] = mem[r].refresh[e]
    BY <1>4, <2>1, Zenon DEF Maps, State
  <2>3. mem' = [mem EXCEPT ![r] = new]
    BY <1>2, <1>4, <2>1, Zenon DEF Maps
  <2> HIDE DEF a, b
  <2>4. /\ new \in Maps /\ new.devices = mem[r].devices /\ new.revoked = mem[r].revoked
        /\ new.access = a /\ new.refresh = b
    BY <2>1, <2>2, Zenon DEF Maps
  <2> HIDE DEF new
  <2>5. MapsSet(r, new)
    BY <2>1, <2>3, <2>4, MapsFacts, Zenon
  <2> QED BY <2>2, <2>4, <2>5, Zenon DEF MapsSet
<1>6. Moved(q, label)
  BY <1>1, GotoFacts, Zenon DEF AccessInv, TypeInv
<1>7. DataTypes'
  BY <1>1, <1>5, TypeOKParts, Zenon DEF AccessInv, TypeInv, DataTypes, Maps
<1>8. token[c].owner = req[q].dev
  BY <1>3, Zenon DEF AccessInv, TypeInv, Fresh
<1>9. TypeInv'
  BY <1>1, <1>3, <1>4, <1>6, <1>7, <1>8, GotoTypes, Zenon DEF AccessInv, history
<1>10. held \subseteq Creds /\ \A p \in Requests : req[p].cred \subseteq held /\ req[p].covers \subseteq held /\ req[p].fresh \subseteq Creds
  BY Zenon DEF AccessInv, TypeInv, Shaped, RequestsOK, Fresh
<1>11. StoredInv'
  BY <1>1, <1>3, <1>6, SMTT(30) DEF AccessInv, StoredInv, CredentialsSurviveRestart, Moved, Others, Postgres, config, history
<1>12. CutInv'
  <2>1. \A s \in Replicas, e \in held : mem'[s].access[e] = mem[s].access[e] /\ mem'[s].refresh[e] = mem[s].refresh[e]
    BY <1>4, <1>5, <1>10, Zenon
  <2>2. NoRevival
    BY <1>1, <2>1, Zenon DEF NoRevival
  <2>3. CutTokens'
    BY <1>1, <2>2, CutTokensStay, Zenon DEF AccessInv, CutInv, history
  <2>4. ASSUME NEW s \in Replicas, req'[q].at = {s}
        PROVE  CutRequest(q, s)'
    <3>1. s = r /\ CutRequest(q, r)
      BY <1>1, <1>6, <2>4, Zenon DEF AccessInv, CutInv, CutRequests, Moved
    <3>2. \A e \in req[q].cred : mem'[r].refresh[e] # "live" /\ (Postgres => db.refresh[e] # "live")
      BY <1>3, <1>10, <2>1, <3>1, Zenon DEF CutRequest
    <3>3. /\ req'[q].pc = label /\ req'[q].cred = req[q].cred /\ req'[q].doomed = req[q].doomed
          /\ req[q].doomed \cap {"cut", "expired"} = {} /\ Postgres' = Postgres /\ db' = db
      BY <1>1, <1>6, <3>1, Zenon DEF CutRequest, Moved, Postgres, config
    <3> QED BY <1>3, <3>1, <3>2, <3>3, Zenon DEF CutRequest
  <2>5. CutRequests'
    BY <1>1, <1>6, <2>2, <2>4, CutOthersStay, Zenon DEF Moved
  <2> QED BY <2>3, <2>5, Zenon DEF CutInv
<1>13. BarredInv'
  <2>1. BarredInv /\ config' = config /\ db'.device = db.device /\ barred' = barred
    BY <1>1, Zenon DEF AccessInv, history
  <2>2. \A s \in Replicas : mem'[s].devices = mem[s].devices /\ mem[s].revoked \subseteq mem'[s].revoked
    BY <1>5, Zenon
  <2>3. /\ req[q].pc \notin {"lookupAccess", "identity", "lookupIdentity", "lookupDevice"}
        /\ req[q].pc \in {"storeAccess", "storeRefresh", "publish", "publishDevice"}
    BY <1>1, Zenon
  <2> QED BY <1>3, <1>6, <2>1, <2>2, <2>3, BarredMoved, Zenon
<1>14. NoRevival
  BY <1>1, <1>4, <1>5, <1>10, Zenon DEF NoRevival
<1> QED BY <1>9, <1>11, <1>12, <1>13, <1>14, Zenon DEF AccessInv

\* PublishDevice: the device enters the map, the client gets its credential.
LEMMA PublishDeviceKeeps ==
  ASSUME AccessInv, NEW q \in Requests, NEW r \in Replicas, NEW d \in Devices, PublishDevice(q, r, d)
  PROVE  AccessInv' /\ NoRevival
<1>1. /\ UNCHANGED <<config, clock, db, token, mutex, dead, cut, barred>>
      /\ req[q].pc = "publishDevice" /\ req[q].at = {r} /\ req[q].dev = {d} /\ Leave(q)
      /\ held' = held \cup req[q].fresh
      /\ mem' = [mem EXCEPT ![r].devices = @ \cup {d}]
  BY Zenon DEF PublishDevice, At
<1>2. /\ "publishDevice" \notin Locked /\ "publishDevice" \in Issuing /\ req[q].op = "bind"
      /\ "idle" \notin Locked /\ "idle" \notin Issuing
  BY <1>1, Zenon DEF Locked, Issuing, AccessInv, TypeInv, RequestsOK
<1>3. /\ mem' \in [Replicas -> Maps] /\ \A s \in Replicas \ {r} : mem'[s] = mem[s]
      /\ mem'[r].devices = mem[r].devices \cup {d} /\ mem'[r].revoked = mem[r].revoked
      /\ mem'[r].access = mem[r].access /\ mem'[r].refresh = mem[r].refresh
  <2> DEFINE new == [mem[r] EXCEPT !.devices = mem[r].devices \cup {d}]
  <2>1. mem \in [Replicas -> Maps] /\ mem[r] \in Maps
    BY TypeOKParts, Zenon DEF AccessInv, TypeInv, DataTypes, Maps
  <2>2. /\ new \in Maps /\ new.devices = mem[r].devices \cup {d} /\ new.revoked = mem[r].revoked
        /\ new.access = mem[r].access /\ new.refresh = mem[r].refresh
    BY <2>1, Zenon DEF Maps
  <2>3. mem' = [mem EXCEPT ![r] = new]
    BY <1>1, Zenon
  <2> HIDE DEF new
  <2>4. MapsSet(r, new)
    BY <2>1, <2>2, <2>3, MapsFacts, Zenon
  <2> QED BY <2>2, <2>4, Zenon DEF MapsSet
<1>4. Left(q)
  BY <1>1, LeaveFacts, Zenon DEF AccessInv, TypeInv
<1>5. DataTypes'
  BY <1>1, <1>3, TypeOKParts, Zenon DEF AccessInv, TypeInv, DataTypes, Maps
<1>6. \A s \in Replicas : mutex'[s] = mutex[s] \ {q}
  BY <1>1, <1>2, TypeOKParts DEF AccessInv, TypeInv, LocksOK, Shaped
<1>7. TypeInv'
  BY <1>1, <1>2, <1>4, <1>5, <1>6, LeaveTypes DEF AccessInv, TypeInv, Shaped
<1>8. StoredInv'
  <2>1. Postgres => \A c \in req[q].fresh : /\ db.access[c] # "none" /\ db.refresh[c] # "none"
                                            /\ \A e \in token[c].owner : db.device[e] # "none"
    BY <1>1, <1>2, Zenon DEF AccessInv, TypeInv, Fresh, StoredInv, Issuing
  <2> QED BY <1>1, <1>2, <1>4, <2>1 DEF AccessInv, StoredInv, CredentialsSurviveRestart, Left, Others, Postgres, config
<1>9. CutInv'
  <2>1. \A s \in Replicas : mem'[s].access = mem[s].access /\ mem'[s].refresh = mem[s].refresh
    BY <1>3, Zenon
  <2>2. CutTokens'
    BY <1>1, <2>1, CutTokensStay, Zenon DEF NoRevival, AccessInv, CutInv
  <2>3. CutRequests'
    BY <1>1, <1>2, <1>4, <2>1
       DEF AccessInv, CutInv, CutRequests, CutRequest, Left, Others, Postgres, config, RefreshExpiry, AccessExpiry
  <2> QED BY <2>2, <2>3, Zenon DEF CutInv
<1>10. BarredInv'
  <2>1. d \in barred[r] => d \in mem[r].revoked
    BY <1>1, <1>2 DEF AccessInv, BarredInv, Registering
  <2> QED BY <1>1, <1>2, <1>3, <1>4, <2>1 DEF AccessInv, BarredInv, Registering, Left, Others, Postgres, Production, config
<1>11. NoRevival
  BY <1>1, <1>3, Zenon DEF NoRevival
<1> QED BY <1>7, <1>8, <1>9, <1>10, <1>11, Zenon DEF AccessInv
-----------------------------------------------------------------------------
(* Rotation.                                                               *)

\* revokeRefreshCredential: the old token is dead in the map, a new
\* credential is drawn.
LEMMA RevokeRefreshCredentialKeeps ==
  ASSUME AccessInv, NEW q \in Requests, NEW r \in Replicas, NEW c \in Creds, RevokeRefreshCredential(q, r, c)
  PROVE  AccessInv' /\ NoRevival
<1> DEFINE label == IF Postgres THEN "revokeOldRow" ELSE "storeAccess"
<1>1. /\ UNCHANGED <<config, clock, db, token, mutex, history>>
      /\ req[q].pc = "revokeOld" /\ req[q].at = {r} /\ c \in req[q].cred
      /\ mem' = [mem EXCEPT ![r].refresh[c] = IF @ = "none" THEN @ ELSE "revoked"]
  BY Zenon DEF RevokeRefreshCredential
<1>2. PICK f \in Unissued : req' = [req EXCEPT ![q].pc = label, ![q].fresh = {f}]
  BY Zenon DEF RevokeRefreshCredential
<1>3. /\ label \in {"revokeOldRow", "storeAccess"} /\ (label = "revokeOldRow" <=> Postgres)
      /\ label \in Labels \ {"idle"} /\ label \notin Locked /\ label \notin Issuing
      /\ label \in NeedPostgres => Postgres
      /\ req[q].pc \notin Locked /\ req[q].pc \notin Issuing
  BY <1>1, Zenon DEF Labels, Statements, Locked, NeedPostgres, Issuing
<1> HIDE DEF label
<1>4. /\ Others(q) /\ req'[q].pc = label /\ req'[q].fresh = {f}
      /\ req'[q].op = req[q].op /\ req'[q].at = req[q].at /\ req'[q].dev = req[q].dev /\ req'[q].cred = req[q].cred
      /\ req'[q].now = req[q].now /\ req'[q].covers = req[q].covers /\ req'[q].doomed = req[q].doomed
  BY <1>2, IdleFields, Zenon DEF AccessInv, TypeInv, Shaped, Others
<1>5. /\ mem' \in [Replicas -> Maps] /\ \A s \in Replicas \ {r} : mem'[s] = mem[s]
      /\ mem'[r].devices = mem[r].devices /\ mem'[r].revoked = mem[r].revoked /\ mem'[r].access = mem[r].access
      /\ mem'[r].refresh[c] # "live"
      /\ \A e \in Creds \ {c} : mem'[r].refresh[e] = mem[r].refresh[e]
  <2> DEFINE v == IF mem[r].refresh[c] = "none" THEN mem[r].refresh[c] ELSE "revoked"
             new == [mem[r] EXCEPT !.refresh = [mem[r].refresh EXCEPT ![c] = v]]
  <2>1. mem \in [Replicas -> Maps] /\ mem[r] \in Maps
    BY TypeOKParts, Zenon DEF AccessInv, TypeInv, DataTypes, Maps
  <2>2. v \in State /\ v # "live"
    BY Zenon DEF State
  <2>3. mem' = [mem EXCEPT ![r] = new]
    BY <1>1, Zenon
  <2> HIDE DEF v
  <2>4. new \in Maps
    BY <2>1, <2>2, EntryFacts, Zenon
  <2>5. /\ new.devices = mem[r].devices /\ new.revoked = mem[r].revoked /\ new.access = mem[r].access
        /\ new.refresh = [mem[r].refresh EXCEPT ![c] = v] /\ DOMAIN mem[r].refresh = Creds
    BY <2>1, Zenon DEF Maps
  <2> HIDE DEF new
  <2>6. MapsSet(r, new)
    BY <2>1, <2>3, <2>4, MapsFacts, Zenon
  <2> QED BY <2>2, <2>5, <2>6, Zenon DEF MapsSet
<1>6. f \in Creds /\ f \notin held /\ \A p \in Requests : f \notin req[p].fresh
  BY UnissuedFacts, Zenon
<1>7. TypeInv'
  <2>1. DataTypes'
    BY <1>1, <1>5, TypeOKParts, Zenon DEF AccessInv, TypeInv, DataTypes, Maps
  <2>2. LocksOK'
    BY <1>1, <1>3, <1>4, TypeOKParts DEF AccessInv, TypeInv, LocksOK, Others
  <2>3. Shaped'
    BY <1>1, <1>4, Zenon DEF AccessInv, TypeInv, Shaped, Others, history
  <2>4. RequestsOK'
    BY <1>1, <1>3, <1>4 DEF AccessInv, TypeInv, RequestsOK, Others, Postgres, config, history
  <2>5. Fresh'
    BY <1>1, <1>3, <1>4, <1>6 DEF AccessInv, TypeInv, Fresh, Others, history
  <2> QED BY <2>1, <2>2, <2>3, <2>4, <2>5, TypeOKNext, Zenon DEF TypeInv
<1>8. StoredInv'
  BY <1>1, <1>3, <1>4 DEF AccessInv, StoredInv, CredentialsSurviveRestart, Others, Postgres, config, history
<1>9. req[q].cred = {c} /\ req[q].op # "bind" /\ \A p \in Requests : req[p].cred \subseteq Creds /\ req[p].covers \subseteq Creds
  BY <1>1 DEF AccessInv, TypeInv, RequestsOK, Shaped
<1>10. CutInv'
  <2>1. \A s \in Replicas, e \in Creds : /\ mem'[s].access[e] = mem[s].access[e]
                                         /\ mem'[s].refresh[e] = "live" => mem[s].refresh[e] = "live"
    BY <1>5, Zenon
  <2>2. CutTokens'
    BY <1>1, <2>1, CutTokensStay DEF NoRevival, AccessInv, TypeInv, Shaped, CutInv, history
  <2>3. CutRequests'
    <3>1. /\ UNCHANGED <<config, clock, db, token, history>> /\ mem'[r].refresh[c] # "live"
          /\ req[q].pc = "revokeOld" /\ req[q].at = {r}
      BY <1>1, <1>5, Zenon
    <3>2. req[q].doomed \cap {"cut", "expired"} = {}
      BY <3>1, Zenon DEF AccessInv, CutInv, CutRequests, CutRequest
    <3>3. \A p \in Requests \ {q} : req'[p] = req[p]
      BY <1>4, Zenon DEF Others
    <3>4. /\ Postgres' <=> Postgres
          /\ \A e : RefreshExpiry(e)' = RefreshExpiry(e) /\ AccessExpiry(e)' = AccessExpiry(e)
      BY <3>1, Zenon DEF Postgres, config, RefreshExpiry, AccessExpiry
    <3> SUFFICES ASSUME NEW p \in Requests, NEW s \in Replicas, req'[p].at = {s}
                 PROVE  CutRequest(p, s)'
      BY Zenon DEF CutRequests
    <3>5. CASE p # q
      <4>1. CutRequest(p, s)
        BY <3>3, <3>5, Zenon DEF AccessInv, CutInv, CutRequests
      <4> QED BY <1>9, <2>1, <3>1, <3>3, <3>4, <3>5, <4>1, SMTT(30) DEF CutRequest
    <3>6. CASE p = q
      <4>1. /\ s = r /\ req'[q].cred = {c} /\ req'[q].doomed \cap {"cut", "expired"} = {}
        BY <1>3, <1>4, <1>9, <3>1, <3>2, <3>6, Zenon
      <4>2. CutRequest(q, r)
        BY <3>1, Zenon DEF AccessInv, CutInv, CutRequests
      <4> QED BY <1>3, <1>4, <1>9, <2>1, <3>1, <3>4, <3>6, <4>1, <4>2, SMTT(30) DEF CutRequest
    <3> QED BY <3>5, <3>6, Zenon
  <2> QED BY <2>2, <2>3, Zenon DEF CutInv
<1>11. BarredInv'
  BY <1>1, <1>3, <1>4, <1>5, <1>9, SMTT(30) DEF AccessInv, BarredInv, Registering, Others, Postgres, Production, config, history
<1>12. NoRevival
  <2>1. \A s \in Replicas, e \in Creds : /\ mem'[s].access[e] = mem[s].access[e]
                                         /\ mem'[s].refresh[e] = "live" => mem[s].refresh[e] = "live"
    BY <1>5, Zenon
  <2>2. held \subseteq Creds /\ db' = db
    BY <1>1, Zenon DEF AccessInv, TypeInv, Shaped
  <2> QED BY <2>1, <2>2, Zenon DEF NoRevival
<1> QED BY <1>7, <1>8, <1>10, <1>11, <1>12, Zenon DEF AccessInv

\* RevokeRefreshByHash: the old token is dead in the table too.
LEMMA RevokeRefreshByHashKeeps ==
  ASSUME AccessInv, NEW q \in Requests, NEW c \in Creds, RevokeRefreshByHash(q, c)
  PROVE  AccessInv' /\ NoRevival
<1> DEFINE v == IF db.refresh[c] = "live" THEN "revoked" ELSE db.refresh[c]
           rows == [db.refresh EXCEPT ![c] = v]
<1>1. /\ UNCHANGED <<config, clock, token, mem, mutex, history>>
      /\ req[q].pc = "revokeOldRow" /\ c \in req[q].cred
      /\ db' = [db EXCEPT !.refresh = rows] /\ Goto(q, "storeAccess")
  BY Zenon DEF RevokeRefreshByHash
<1>2. /\ "storeAccess" \in Labels \ {"idle"} /\ "storeAccess" \notin Locked /\ "storeAccess" \notin Issuing
      /\ "storeAccess" \notin NeedPostgres /\ "revokeOldRow" \notin Locked /\ "revokeOldRow" \notin Issuing
      /\ "revokeOldRow" \in NeedPostgres
  BY Zenon DEF Labels, Statements, Locked, NeedPostgres, Issuing
<1>3. db \in Tables /\ v \in State /\ v # "live" /\ (v = "none" <=> db.refresh[c] = "none")
  BY TypeOKParts, Zenon DEF AccessInv, TypeInv, DataTypes, Tables, State
<1> HIDE DEF v
<1>4. /\ db' \in Tables /\ db'.device = db.device /\ db'.access = db.access
      /\ db'.refresh[c] # "live" /\ (db'.refresh[c] = "none" <=> db.refresh[c] = "none")
      /\ \A e \in Creds \ {c} : db'.refresh[e] = db.refresh[e]
  <2>1. rows \in [Creds -> State] /\ rows[c] = v /\ \A e \in Creds \ {c} : rows[e] = db.refresh[e]
    BY <1>3, Zenon DEF Tables
  <2> HIDE DEF rows
  <2> QED BY <1>1, <1>3, <2>1, RefreshTable, Zenon
<1> HIDE DEF rows
<1>5. Moved(q, "storeAccess")
  BY <1>1, GotoFacts, Zenon DEF AccessInv, TypeInv
<1>6. DataTypes'
  BY <1>1, <1>4, TypeOKParts, Zenon DEF AccessInv, TypeInv, DataTypes, Tables
<1>7. TypeInv'
  BY <1>1, <1>2, <1>5, <1>6, GotoTypes, Zenon DEF AccessInv, history
<1>8. req[q].cred = {c} /\ req[q].op # "bind" /\ Postgres /\ held \subseteq Creds
      /\ \A p \in Requests : req[p].cred \subseteq Creds /\ req[p].covers \subseteq Creds /\ req[p].fresh \subseteq Creds
  BY <1>1, <1>2 DEF AccessInv, TypeInv, RequestsOK, Shaped, Fresh
<1>9. StoredInv'
  BY <1>1, <1>2, <1>4, <1>5, <1>8 DEF AccessInv, StoredInv, CredentialsSurviveRestart, Moved, Others, Postgres, config, history
<1>10. CutInv'
  <2>1. \A e \in Creds : db'.refresh[e] = "live" => db.refresh[e] = "live"
    BY <1>4, Zenon
  <2>2. CutTokens'
    BY <1>1, <1>4, <1>8, <2>1, CutTokensStay, Zenon DEF NoRevival, AccessInv, CutInv, history
  <2>3. CutRequests'
    BY <1>1, <1>2, <1>4, <1>5, <1>8, <2>1, SMTT(30)
       DEF AccessInv, CutInv, CutRequests, CutRequest, Moved, Others, Postgres, config, history, RefreshExpiry, AccessExpiry
  <2> QED BY <2>2, <2>3, Zenon DEF CutInv
<1>11. BarredInv'
  BY <1>1, <1>2, <1>4, <1>5, <1>8, SMTT(30) DEF AccessInv, BarredInv, Registering, Moved, Others, Postgres, Production, config, history
<1>12. NoRevival
  BY <1>1, <1>4, <1>8, Zenon DEF NoRevival
<1> QED BY <1>7, <1>9, <1>10, <1>11, <1>12, Zenon DEF AccessInv

\* AnswerRefresh: the client gets the new credential; the old token is cut off.
LEMMA AnswerRefreshKeeps ==
  ASSUME AccessInv, NEW q \in Requests, NEW r \in Replicas, NEW c \in Creds, AnswerRefresh(q, r, c)
  PROVE  AccessInv'
<1>1. /\ UNCHANGED <<config, clock, db, token, mem, mutex, barred>>
      /\ req[q].pc = "rotated" /\ req[q].at = {r} /\ c \in req[q].cred /\ Leave(q)
      /\ held' = held \cup req[q].fresh
      /\ dead' = dead \cup {<<"refresh", c>>, <<"rotated", c>>}
      /\ cut' = [cut EXCEPT ![r] = @ \cup {<<"refresh", c>>}]
  BY Zenon DEF AnswerRefresh
<1>2. "rotated" \notin Locked /\ "rotated" \in Issuing /\ "idle" \notin Locked /\ "idle" \notin Issuing
  BY Zenon DEF Locked, Issuing
<1>3. Left(q)
  BY <1>1, LeaveFacts, Zenon DEF AccessInv, TypeInv
<1>4. DataTypes'
  BY <1>1, TypeOKParts, Zenon DEF AccessInv, TypeInv, DataTypes
<1>5. \A s \in Replicas : mutex'[s] = mutex[s] \ {q}
  BY <1>1, <1>2, TypeOKParts, SMTT(30) DEF AccessInv, TypeInv, LocksOK, Shaped
<1>6. TypeInv'
  BY <1>1, <1>2, <1>3, <1>4, <1>5, LeaveTypes, Zenon DEF AccessInv, TypeInv, Shaped
<1>7. StoredInv'
  <2>1. Postgres => \A e \in req[q].fresh : /\ db.access[e] # "none" /\ db.refresh[e] # "none"
                                            /\ \A d \in token[e].owner : db.device[d] # "none"
    BY <1>1, <1>2, SMTT(30) DEF AccessInv, TypeInv, Fresh, StoredInv, Issuing
  <2> QED BY <1>1, <1>2, <1>3, <2>1, SMTT(30) DEF AccessInv, StoredInv, CredentialsSurviveRestart, Left, Others, Postgres, config
<1>8. CutInv'
  <2>1. c \in held /\ mem[r].refresh[c] # "live" /\ (Postgres => db.refresh[c] # "live")
    BY <1>1, <1>2, SMTT(30) DEF AccessInv, TypeInv, RequestsOK, CutInv, CutRequests, CutRequest
  <2>2. CutTokens'
    <3> SUFFICES ASSUME NEW s \in Replicas, NEW e \in Creds, NEW kind \in {"access", "refresh"}
                 PROVE  /\ <<kind, e>> \in cut'[s] => e \in held' /\ Gone(kind, e, s)'
                        /\ <<kind, e>> \in dead' => e \in held' /\ (Postgres' => db'[kind][e] # "live")
      BY Zenon DEF CutTokens
    <3>1. /\ <<kind, e>> \in cut'[s] => <<kind, e>> \in cut[s] \/ (s = r /\ kind = "refresh" /\ e = c)
          /\ <<kind, e>> \in dead' => <<kind, e>> \in dead \/ (kind = "refresh" /\ e = c)
      BY <1>1, Zenon DEF AccessInv, TypeInv, Shaped
    <3>2. /\ <<kind, e>> \in cut[s] => e \in held /\ Gone(kind, e, s)
          /\ <<kind, e>> \in dead => e \in held /\ (Postgres => db[kind][e] # "live")
      BY Zenon DEF AccessInv, CutInv, CutTokens
    <3>3. Gone(kind, e, s)' <=> Gone(kind, e, s)
      BY <1>1, Zenon DEF Gone, Postgres, config
    <3>4. kind = "refresh" /\ e = c /\ s = r => Gone(kind, e, s)
      BY <2>1, Zenon DEF Gone
    <3> QED BY <1>1, <2>1, <3>1, <3>2, <3>3, <3>4, Zenon DEF Postgres, config
  <2>3. CutRequests'
    <3>1. NoRevival /\ UNCHANGED <<config, clock, token>>
      BY <1>1, Zenon DEF NoRevival
    <3> QED BY <1>3, <3>1, CutRequestsLeft, Zenon
  <2> QED BY <2>2, <2>3, Zenon DEF CutInv
<1>9. BarredInv'
  <2>1. config' = config /\ db'.device = db.device /\ mem' = mem /\ barred' = barred
    BY <1>1, Zenon
  <2> QED BY <1>3, <2>1, BarredLeft, Zenon DEF AccessInv
<1> QED BY <1>6, <1>7, <1>8, <1>9, Zenon DEF AccessInv
-----------------------------------------------------------------------------
(* Revocation.                                                             *)

\* The maps after revokeAccess: the device is marked, none of its tokens is live.
LEMMA MarkFacts ==
  ASSUME AccessInv, NEW q \in Requests, NEW r \in Replicas, NEW d \in Devices, RevokeAccess(q, r, d)
  PROVE  /\ mem' \in [Replicas -> Maps] /\ \A s \in Replicas \ {r} : mem'[s] = mem[s]
         /\ mem'[r].devices = mem[r].devices /\ mem'[r].revoked = mem[r].revoked \cup {d}
         /\ \A c \in Creds : /\ mem'[r].access[c] = "live" => mem[r].access[c] = "live" /\ c \notin OwnedBy(d)
                             /\ mem'[r].refresh[c] = "live" => mem[r].refresh[c] = "live" /\ c \notin OwnedBy(d)
<1> DEFINE mark(m) == [c \in Creds |-> IF m[c] # "none" /\ c \in OwnedBy(d) THEN "revoked" ELSE m[c]]
           new == [mem[r] EXCEPT !.revoked = mem[r].revoked \cup {d}, !.access = mark(mem[r].access),
                                 !.refresh = mark(mem[r].refresh)]
<1>1. mem' = [mem EXCEPT ![r].revoked = @ \cup {d}, ![r].access = mark(@), ![r].refresh = mark(@)]
  BY Zenon DEF RevokeAccess
<1>2. mem \in [Replicas -> Maps] /\ mem[r] \in Maps
  BY TypeOKParts, Zenon DEF AccessInv, TypeInv, DataTypes, Maps
<1>3. \A m \in [Creds -> State] : /\ mark(m) \in [Creds -> State]
                                  /\ \A c \in Creds : mark(m)[c] = "live" => m[c] = "live" /\ c \notin OwnedBy(d)
  BY Zenon DEF State
<1> HIDE DEF mark
<1>4. mem[r].access \in [Creds -> State] /\ mem[r].refresh \in [Creds -> State]
  BY <1>2, Zenon DEF Maps
<1>5. /\ new \in Maps /\ new.devices = mem[r].devices /\ new.revoked = mem[r].revoked \cup {d}
      /\ new.access = mark(mem[r].access) /\ new.refresh = mark(mem[r].refresh)
  BY <1>2, <1>3, <1>4, Zenon DEF Maps
<1>6. mem' = [mem EXCEPT ![r] = new]
  BY <1>1, <1>2, Zenon DEF Maps
<1> HIDE DEF new
<1>7. MapsSet(r, new)
  BY <1>2, <1>5, <1>6, MapsFacts, Zenon
<1> QED BY <1>3, <1>4, <1>5, <1>7, SMTT(30) DEF MapsSet

\* revokeAccess with PostgreSQL: it keeps the mutex, and what it covers is dead
\* in the maps.
LEMMA RevokeAccessPostgres ==
  ASSUME AccessInv, NEW q \in Requests, NEW r \in Replicas, NEW d \in Devices, RevokeAccess(q, r, d), Postgres
  PROVE  AccessInv' /\ NoRevival
<1> DEFINE known == held \cap OwnedBy(d)
<1>1. /\ UNCHANGED <<config, clock, db, token, history>>
      /\ req[q].pc = "revoke" /\ req[q].at = {r} /\ req[q].dev = {d} /\ mutex[r] = {}
      /\ req' = [req EXCEPT ![q].pc = "revokeDevice", ![q].covers = known]
      /\ mutex' = [mutex EXCEPT ![r] = {q}]
  BY Zenon DEF RevokeAccess, At, Free, history
<1>2. /\ "revokeDevice" \in Labels \ {"idle"} /\ "revokeDevice" \in Locked /\ "revokeDevice" \notin Issuing
      /\ "revoke" \notin Locked /\ "revoke" \notin Issuing
  BY Zenon DEF Labels, Statements, Locked, Issuing
<1>3. known \subseteq held /\ \A c \in known : c \in OwnedBy(d) /\ d \in token[c].owner
  BY Zenon DEF OwnedBy
<1> HIDE DEF known
<1>4. /\ Others(q) /\ req'[q].pc = "revokeDevice" /\ req'[q].covers = known
      /\ req'[q].op = req[q].op /\ req'[q].at = {r} /\ req'[q].dev = {d} /\ req'[q].cred = req[q].cred
      /\ req'[q].fresh = req[q].fresh /\ req'[q].now = req[q].now /\ req'[q].doomed = req[q].doomed
  BY <1>1, IdleFields, Zenon DEF AccessInv, TypeInv, Shaped, Others
<1>5. /\ mutex' \in [Replicas -> SUBSET Requests] /\ mutex'[r] = {q}
      /\ \A s \in Replicas \ {r} : mutex'[s] = mutex[s]
  BY <1>1 DEF AccessInv, TypeInv, Shaped
<1>6. TypeInv'
  <2>1. DataTypes'
    BY <1>1, MarkFacts, TypeOKParts, Zenon DEF AccessInv, TypeInv, DataTypes, Maps
  <2>2. LocksOK'
    BY <1>1, <1>2, <1>4, <1>5, TypeOKParts, SMTT(30) DEF AccessInv, TypeInv, LocksOK, Others
  <2>3. Shaped'
    BY <1>1, <1>4, <1>5 DEF AccessInv, TypeInv, Shaped, Others, history
  <2>4. RequestsOK'
    BY <1>1, <1>2, <1>3, <1>4, SMTT(30) DEF AccessInv, TypeInv, RequestsOK, Others, Postgres, config, history
  <2>5. Fresh'
    BY <1>1, <1>2, <1>4 DEF AccessInv, TypeInv, Fresh, Others, history
  <2> QED BY <2>1, <2>2, <2>3, <2>4, <2>5, TypeOKNext, Zenon DEF TypeInv
<1>7. StoredInv'
  BY <1>1, <1>2, <1>4 DEF AccessInv, StoredInv, CredentialsSurviveRestart, Others, Postgres, config, history
<1>8. held \subseteq Creds /\ \A p \in Requests : req[p].cred \subseteq Creds /\ req[p].covers \subseteq Creds
  BY Zenon DEF AccessInv, TypeInv, RequestsOK, Shaped
<1>9. \A s \in Replicas, e \in Creds : /\ mem'[s].access[e] = "live" => mem[s].access[e] = "live"
                                       /\ mem'[s].refresh[e] = "live" => mem[s].refresh[e] = "live"
  BY MarkFacts, Zenon
<1>10. CutInv'
  <2>1. CutTokens'
    BY <1>1, <1>8, <1>9, CutTokensStay, Zenon DEF NoRevival, AccessInv, CutInv, history
  <2>2. /\ Postgres' <=> Postgres
        /\ \A e : RefreshExpiry(e)' = RefreshExpiry(e) /\ AccessExpiry(e)' = AccessExpiry(e)
    BY <1>1, Zenon DEF Postgres, config, RefreshExpiry, AccessExpiry
  <2>3. UNCHANGED <<db, token, clock>>
    BY <1>1, Zenon
  <2>4. CutRequests'
    <3> SUFFICES ASSUME NEW p \in Requests, NEW s \in Replicas, req'[p].at = {s}
                 PROVE  CutRequest(p, s)'
      BY Zenon DEF CutRequests
    <3>1. CASE p # q
      <4>1. req'[p] = req[p]
        BY <1>4, <3>1, Zenon DEF Others
      <4>2. CutRequest(p, s)
        BY <4>1, Zenon DEF AccessInv, CutInv, CutRequests
      <4> QED BY <1>8, <1>9, <2>2, <2>3, <4>1, <4>2, Zenon DEF CutRequest
    <3>2. CASE p = q
      <4>1. req[q].doomed \cap {"cut", "expired"} = {} /\ s = r
        BY <1>1, <1>4, <3>2, Zenon DEF AccessInv, CutInv, CutRequests, CutRequest
      <4>2. \A c \in known : mem'[r].access[c] # "live" /\ mem'[r].refresh[c] # "live"
        BY <1>3, <1>8, MarkFacts, Zenon
      <4>3. /\ req'[q].pc \notin Issuing \cup {"storeAccess", "revokeOldRow"}
            /\ req'[q].pc \notin Issuing \cup {"storeAccess"}
            /\ req'[q].pc # "lookupRefresh" /\ req'[q].pc # "lookupAccess" /\ req'[q].pc # "revokeRefreshRows"
        BY <1>2, <1>4, Zenon
      <4>4. req'[q].doomed \cap {"cut", "expired"} = {}
        BY <1>4, <4>1, Zenon
      <4>5. \A c \in req'[q].covers : /\ req'[q].dev \subseteq token'[c].owner
                                      /\ mem'[s].access[c] # "live" /\ mem'[s].refresh[c] # "live"
        BY <1>3, <1>4, <2>3, <4>1, <4>2, Zenon
      <4> QED BY <3>2, <4>3, <4>4, <4>5, Zenon DEF CutRequest
    <3> QED BY <3>1, <3>2, Zenon
  <2> QED BY <2>1, <2>4, Zenon DEF CutInv
<1>11. BarredInv'
  <2>1. \A s \in Replicas : mem'[s].devices = mem[s].devices /\ mem[s].revoked \subseteq mem'[s].revoked
    BY MarkFacts, Zenon
  <2>2. d \in mem'[r].revoked
    BY MarkFacts
  <2>3. UNCHANGED <<config, db, barred>>
    BY <1>1, Zenon DEF history
  <2>4. "barred" \notin req[q].doomed
    BY <1>1 DEF AccessInv, BarredInv
  <2>5. \A s, e : ~Registering(q, s, e)'
    BY <1>4, Zenon DEF Registering
  <2>6. \A s \in Replicas, e \in Devices : req'[q].at = {s} /\ req'[q].dev = {e} => s = r /\ e = d
    BY <1>4, Zenon
  <2>7. BarredInv /\ config' = config /\ db'.device = db.device /\ barred' = barred
    BY <2>3, Zenon DEF AccessInv
  <2>8. "barred" \notin req'[q].doomed /\ \A p \in Requests \ {q} : req'[p] = req[p]
    BY <1>4, <2>4, Zenon DEF Others
  <2> QED BY <2>1, <2>2, <2>5, <2>6, <2>7, <2>8, BarredStays, Zenon
<1>12. NoRevival
  BY <1>1, <1>8, <1>9, Zenon DEF NoRevival
<1> QED BY <1>6, <1>7, <1>10, <1>11, <1>12, Zenon DEF AccessInv

\* revokeAccess without a repository: the request is answered.
LEMMA RevokeAccessMemory ==
  ASSUME AccessInv, NEW q \in Requests, NEW r \in Replicas, NEW d \in Devices, RevokeAccess(q, r, d), ~Postgres
  PROVE  AccessInv' /\ NoRevival
<1> DEFINE known == held \cap OwnedBy(d)
<1>1. /\ UNCHANGED <<config, clock, db, token, held, mutex>>
      /\ req[q].pc = "revoke" /\ req[q].at = {r} /\ req[q].dev = {d} /\ Leave(q)
      /\ dead' = dead \cup TokensOf(known)
      /\ cut' = [cut EXCEPT ![r] = @ \cup TokensOf(known)]
      /\ barred' = [barred EXCEPT ![r] = @ \cup {d}]
  BY Zenon DEF RevokeAccess, At
<1>2. "revoke" \notin Locked /\ "revoke" \notin Issuing /\ "idle" \notin Locked
  BY Zenon DEF Locked, Issuing
<1>3. known \subseteq held /\ \A c \in known : c \in OwnedBy(d)
  BY Zenon
<1> HIDE DEF known
<1>4. Left(q)
  BY <1>1, LeaveFacts, Zenon DEF AccessInv, TypeInv
<1>5. DataTypes'
  BY <1>1, MarkFacts, TypeOKParts, Zenon DEF AccessInv, TypeInv, DataTypes, Maps
<1>6. \A s \in Replicas : mutex'[s] = mutex[s] \ {q}
  BY <1>1, <1>2, TypeOKParts, SMTT(30) DEF AccessInv, TypeInv, LocksOK, Shaped
<1>7. /\ DOMAIN cut' = Replicas /\ barred' \in [Replicas -> SUBSET Devices]
      /\ barred'[r] = barred[r] \cup {d} /\ \A s \in Replicas \ {r} : barred'[s] = barred[s]
  BY <1>1 DEF AccessInv, TypeInv, Shaped
<1>8. TypeInv'
  BY <1>1, <1>4, <1>5, <1>6, <1>7, LeaveTypes, Zenon DEF AccessInv, TypeInv, Shaped
<1>9. StoredInv'
  BY <1>1, Zenon DEF StoredInv, Postgres, config
<1>10. held \subseteq Creds /\ \A p \in Requests : req[p].cred \subseteq Creds /\ req[p].covers \subseteq Creds
  BY Zenon DEF AccessInv, TypeInv, RequestsOK, Shaped
<1>11. \A s \in Replicas, e \in Creds : /\ mem'[s].access[e] = "live" => mem[s].access[e] = "live"
                                        /\ mem'[s].refresh[e] = "live" => mem[s].refresh[e] = "live"
  BY MarkFacts, Zenon
<1>12. CutInv'
  <2>1. CutTokens'
    <3> SUFFICES ASSUME NEW s \in Replicas, NEW e \in Creds, NEW kind \in {"access", "refresh"}
                 PROVE  /\ <<kind, e>> \in cut'[s] => e \in held' /\ Gone(kind, e, s)'
                        /\ <<kind, e>> \in dead' => e \in held' /\ (Postgres' => db'[kind][e] # "live")
      BY Zenon DEF CutTokens
    <3>1. /\ <<kind, e>> \in cut'[s] => <<kind, e>> \in cut[s] \/ (s = r /\ e \in known)
          /\ <<kind, e>> \in dead' => <<kind, e>> \in dead \/ e \in known
      BY <1>1, Zenon DEF AccessInv, TypeInv, Shaped, TokensOf
    <3>2. /\ <<kind, e>> \in cut[s] => e \in held /\ Gone(kind, e, s)
          /\ <<kind, e>> \in dead => e \in held
      BY Zenon DEF AccessInv, CutInv, CutTokens
    <3>3. mem'[s][kind][e] = "live" => mem[s][kind][e] = "live"
      BY <1>11, Zenon
    <3>4. e \in known => mem'[r][kind][e] # "live"
      BY <1>3, MarkFacts
    <3> QED BY <1>1, <1>3, <3>1, <3>2, <3>3, <3>4, Zenon DEF Gone, Postgres, config
  <2>2. UNCHANGED <<config, db, token, clock>>
    BY <1>1, Zenon
  <2>3. CutRequests'
    <3>1. NoRevival
      BY <1>10, <1>11, <2>2, Zenon DEF NoRevival
    <3> QED BY <1>4, <2>2, <3>1, CutRequestsLeft, Zenon
  <2> QED BY <2>1, <2>3, Zenon DEF CutInv
<1>13. BarredInv'
  <2>1. \A s \in Replicas : mem'[s].devices = mem[s].devices /\ mem[s].revoked \subseteq mem'[s].revoked
    BY MarkFacts, Zenon
  <2>2. d \in mem'[r].revoked
    BY MarkFacts
  <2>3. UNCHANGED <<config, db>>
    BY <1>1, Zenon
  <2>4. /\ \A p \in Requests \ {q} : req'[p] = req[p]
        /\ req'[q].at = {} /\ ~Postgres' /\ (Production' <=> Production)
    BY <1>4, <2>3, Zenon DEF Left, Others, Postgres, Production, config
  <2>5. \A e \in Devices : db'.device[e] = "none"
    BY <2>3, Zenon DEF AccessInv, BarredInv
  <2>6. ASSUME NEW s \in Replicas, NEW e \in barred'[s] PROVE e \in mem'[s].revoked
    <3>1. CASE e \in barred[s]
      BY <2>1, <3>1, Zenon DEF AccessInv, BarredInv
    <3>2. CASE s = r /\ e = d
      BY <2>2, <3>2, Zenon
    <3> QED BY <1>7, <3>1, <3>2, Zenon
  <2>7. ASSUME NEW p \in Requests, NEW s \in Replicas, NEW e \in Devices, req'[p].at = {s} /\ req'[p].dev = {e}
        PROVE  /\ "barred" \in req'[p].doomed =>
                     /\ e \in barred'[s]
                     /\ req'[p].pc \in {"lookupAccess", "identity", "lookupIdentity", "lookupDevice"}
                     /\ req'[p].pc # "lookupDevice" => Production'
               /\ req'[p].pc \in Locked => e \in mem'[s].revoked
    <3>1. p # q /\ req'[p] = req[p] /\ barred[s] \subseteq barred'[s]
      BY <1>7, <2>4, <2>7, Zenon
    <3>2. /\ "barred" \in req[p].doomed =>
                /\ e \in barred[s]
                /\ req[p].pc \in {"lookupAccess", "identity", "lookupIdentity", "lookupDevice"}
                /\ req[p].pc # "lookupDevice" => Production
          /\ req[p].pc \in Locked => e \in mem[s].revoked
      BY <2>7, <3>1, Zenon DEF AccessInv, BarredInv
    <3> QED BY <2>1, <2>4, <3>1, <3>2, Zenon
  <2> QED BY <2>4, <2>5, <2>6, <2>7, Zenon DEF BarredInv
<1>14. NoRevival
  BY <1>1, <1>10, <1>11, Zenon DEF NoRevival
<1> QED BY <1>8, <1>9, <1>12, <1>13, <1>14, Zenon DEF AccessInv

\* RevokeDevice: the row is marked, if there is one.
LEMMA RevokeDeviceKeeps ==
  ASSUME AccessInv, NEW q \in Requests, NEW r \in Replicas, NEW d \in Devices, RevokeDevice(q, r, d)
  PROVE  AccessInv' /\ NoRevival
<1> DEFINE v == IF db.device[d] = "none" THEN db.device[d] ELSE "revoked"
           rows == [db.device EXCEPT ![d] = v]
<1>1. /\ UNCHANGED <<config, clock, token, mem, mutex, history>>
      /\ req[q].pc = "revokeDevice" /\ req[q].at = {r} /\ req[q].dev = {d}
      /\ db' = [db EXCEPT !.device = rows] /\ Goto(q, "revokeAccessRows")
  BY Zenon DEF RevokeDevice, At
<1>2. /\ "revokeAccessRows" \in Labels \ {"idle"} /\ "revokeAccessRows" \in Locked /\ "revokeAccessRows" \notin Issuing
      /\ "revokeDevice" \in Locked /\ "revokeDevice" \in NeedPostgres
  BY Zenon DEF Labels, Statements, Locked, NeedPostgres, Issuing
<1>3. db \in Tables /\ v \in {"none", "active", "revoked"} /\ (v = "none" <=> db.device[d] = "none") /\ v # "active"
  BY TypeOKParts, Zenon DEF AccessInv, TypeInv, DataTypes, Tables
<1> HIDE DEF v
<1>4. /\ db' \in Tables /\ db'.access = db.access /\ db'.refresh = db.refresh
      /\ \A e \in Devices : /\ db'.device[e] = "none" <=> db.device[e] = "none"
                            /\ db.device[e] = "revoked" => db'.device[e] = "revoked"
  <2>1. /\ rows \in [Devices -> {"none", "active", "revoked"}]
        /\ \A e \in Devices : /\ rows[e] = "none" <=> db.device[e] = "none"
                              /\ db.device[e] = "revoked" => rows[e] = "revoked"
    BY <1>3, Zenon DEF Tables
  <2> HIDE DEF rows
  <2> QED BY <1>1, <1>3, <2>1, DeviceTable, Zenon
<1> HIDE DEF rows
<1>5. Moved(q, "revokeAccessRows")
  BY <1>1, GotoFacts, Zenon DEF AccessInv, TypeInv
<1>6. DataTypes'
  BY <1>1, <1>4, TypeOKParts, Zenon DEF AccessInv, TypeInv, DataTypes, Tables
<1>7. Postgres
  BY <1>1, <1>2, RequestFacts, Zenon
<1>8. TypeInv'
  BY <1>1, <1>2, <1>5, <1>6, <1>7, GotoTypes, Zenon DEF AccessInv, history
<1>9. StoredInv'
  <2>1. /\ \A c \in held : token[c].owner \subseteq Devices
        /\ \A p \in Requests : req[p].pc # "idle" => req[p].dev \subseteq Devices
    BY TypeOKParts, SMTT(30) DEF AccessInv, TypeInv, DataTypes, Shaped, RequestsOK
  <2>2. "idle" \notin Issuing \cup {"storeAccess", "lookupRefresh", "revokeOld", "revokeOldRow"}
    BY Zenon DEF Issuing
  <2> QED BY <1>1, <1>2, <1>4, <1>5, <2>1, <2>2
       DEF AccessInv, StoredInv, CredentialsSurviveRestart, Moved, Others, Postgres, config, history
<1>10. CutInv'
  <2>1. CutTokens'
    BY <1>1, <1>4, CutTokensStay, Zenon DEF NoRevival, AccessInv, CutInv, history
  <2>2. CutRequests'
    <3> SUFFICES ASSUME NEW p \in Requests, NEW s \in Replicas, req'[p].at = {s}
                 PROVE  CutRequest(p, s)'
      BY Zenon DEF CutRequests
    <3>1. UNCHANGED <<config, clock, token, mem>> /\ db'.access = db.access /\ db'.refresh = db.refresh
      BY <1>1, <1>4, Zenon
    <3>2. req[p].at = {s} /\ CutRequest(p, s)
      BY <1>5, Zenon DEF AccessInv, CutInv, CutRequests, Moved, Others
    <3>3. CASE p # q
      BY <1>5, <3>1, <3>2, <3>3, SMTT(30) DEF CutRequest, Moved, Others, Postgres, config, RefreshExpiry, AccessExpiry
    <3>4. CASE p = q
      BY <1>1, <1>2, <1>5, <3>1, <3>2, <3>4, Zenon DEF CutRequest, Moved
    <3> QED BY <3>3, <3>4, Zenon
  <2> QED BY <2>1, <2>2, Zenon DEF CutInv
<1>11. BarredInv'
  <2>1. \A s \in Replicas : barred[s] \subseteq Devices
    BY Zenon DEF AccessInv, TypeInv, Shaped
  <2> QED BY <1>1, <1>2, <1>4, <1>5, <1>7, <2>1, SMTT(30) DEF AccessInv, BarredInv, Registering, Moved, Others, Postgres, Production, config, history
<1>12. NoRevival
  BY <1>1, <1>4, Zenon DEF NoRevival
<1> QED BY <1>8, <1>9, <1>10, <1>11, <1>12, Zenon DEF AccessInv

\* Rows of the device's tokens, after they are revoked.
LEMMA RevokedFacts ==
  ASSUME NEW rows \in [Creds -> State], NEW d \in Devices
  PROVE  /\ Revoked(rows, d) \in [Creds -> State]
         /\ \A c \in Creds : /\ Revoked(rows, d)[c] = "none" <=> rows[c] = "none"
                             /\ Revoked(rows, d)[c] = "live" => rows[c] = "live" /\ c \notin OwnedBy(d)
  BY Zenon DEF Revoked, State

\* RevokeDeviceCredentials, the access rows.
LEMMA RevokeAccessRowsKeeps ==
  ASSUME AccessInv, NEW q \in Requests, NEW r \in Replicas, NEW d \in Devices, RevokeAccessRows(q, r, d)
  PROVE  AccessInv' /\ NoRevival
<1> DEFINE rows == Revoked(db.access, d)
<1>1. /\ UNCHANGED <<config, clock, token, mem, mutex, history>>
      /\ req[q].pc = "revokeAccessRows" /\ req[q].at = {r} /\ req[q].dev = {d}
      /\ db' = [db EXCEPT !.access = rows] /\ Goto(q, "revokeRefreshRows")
  BY Zenon DEF RevokeAccessRows, At
<1>2. /\ "revokeRefreshRows" \in Labels \ {"idle"} /\ "revokeRefreshRows" \in Locked /\ "revokeRefreshRows" \notin Issuing
      /\ "revokeAccessRows" \in Locked /\ "revokeAccessRows" \in NeedPostgres
  BY Zenon DEF Labels, Statements, Locked, NeedPostgres, Issuing
<1>3. db \in Tables /\ db.access \in [Creds -> State]
  BY TypeOKParts, Zenon DEF AccessInv, TypeInv, DataTypes, Tables
<1>4. /\ rows \in [Creds -> State]
      /\ \A c \in Creds : /\ rows[c] = "none" <=> db.access[c] = "none"
                          /\ rows[c] = "live" => db.access[c] = "live" /\ d \notin token[c].owner
  BY <1>3, RevokedFacts, Zenon DEF OwnedBy
<1> HIDE DEF rows
<1>5. db' \in Tables /\ db'.access = rows /\ db'.refresh = db.refresh /\ db'.device = db.device
  BY <1>1, <1>3, <1>4, AccessTable, Zenon
<1>6. Moved(q, "revokeRefreshRows")
  BY <1>1, GotoFacts, Zenon DEF AccessInv, TypeInv
<1>7. DataTypes'
  BY <1>1, <1>5, TypeOKParts, Zenon DEF AccessInv, TypeInv, DataTypes, Tables
<1>8. Postgres
  BY <1>1, <1>2, RequestFacts, Zenon
<1>9. TypeInv'
  BY <1>1, <1>2, <1>6, <1>7, <1>8, GotoTypes, Zenon DEF AccessInv, history
<1>10. held \subseteq Creds /\ \A p \in Requests : req[p].cred \subseteq Creds /\ req[p].covers \subseteq Creds /\ req[p].fresh \subseteq Creds
  BY Zenon DEF AccessInv, TypeInv, Shaped, RequestsOK, Fresh
<1>11. StoredInv'
  BY <1>1, <1>2, <1>4, <1>5, <1>6, <1>10 DEF AccessInv, StoredInv, CredentialsSurviveRestart, Moved, Others, Postgres, config, history
<1>12. CutInv'
  <2>1. CutTokens'
    BY <1>1, <1>4, <1>5, <1>10, CutTokensStay, Zenon DEF NoRevival, AccessInv, CutInv, history
  <2>2. CutRequests'
    <3> SUFFICES ASSUME NEW p \in Requests, NEW s \in Replicas, req'[p].at = {s}
                 PROVE  CutRequest(p, s)'
      BY Zenon DEF CutRequests
    <3>1. UNCHANGED <<config, clock, token, mem>>
      BY <1>1, Zenon
    <3>2. req[p].at = {s} /\ CutRequest(p, s)
      BY <1>6, Zenon DEF AccessInv, CutInv, CutRequests, Moved, Others
    <3>3. \A c \in Creds : db'.refresh[c] = db.refresh[c] /\ (db'.access[c] = "live" => db.access[c] = "live")
      BY <1>4, <1>5, Zenon
    <3>4. CASE p # q
      BY <1>6, <1>10, <3>1, <3>2, <3>3, <3>4, SMTT(30) DEF CutRequest, Moved, Others, Postgres, config, RefreshExpiry, AccessExpiry
    <3>5. CASE p = q
      <4>1. \A c \in req[q].covers : db'.access[c] # "live"
        BY <1>1, <1>2, <1>4, <1>5, <1>10, <3>2, <3>5, Zenon DEF CutRequest
      <4> QED BY <1>1, <1>2, <1>6, <1>10, <3>1, <3>2, <3>3, <3>5, <4>1, Zenon DEF CutRequest, Moved
    <3> QED BY <3>4, <3>5, Zenon
  <2> QED BY <2>1, <2>2, Zenon DEF CutInv
<1>13. BarredInv'
  <2>1. BarredInv /\ config' = config /\ db'.device = db.device /\ barred' = barred /\ mem' = mem
    BY <1>1, <1>5, Zenon DEF AccessInv, history
  <2>2. /\ req[q].pc \notin {"lookupAccess", "identity", "lookupIdentity", "lookupDevice"} /\ req[q].pc \in Locked
        /\ "revokeRefreshRows" \notin {"storeAccess", "storeRefresh", "publish", "publishDevice"}
    BY <1>1, <1>2, Zenon
  <2> QED BY <1>6, <2>1, <2>2, BarredMoved, Zenon
<1>14. NoRevival
  BY <1>1, <1>4, <1>5, <1>10, Zenon DEF NoRevival
<1> QED BY <1>9, <1>11, <1>12, <1>13, <1>14, Zenon DEF AccessInv

\* RevokeDeviceCredentials ends: what it covers is cut off at this replica, and
\* the device is barred if it has a row.
LEMMA RevokeRefreshRowsKeeps ==
  ASSUME AccessInv, NEW q \in Requests, NEW r \in Replicas, NEW d \in Devices, RevokeRefreshRows(q, r, d)
  PROVE  AccessInv' /\ NoRevival
<1> DEFINE rows == Revoked(db.refresh, d)
           known == req[q].covers
<1>1. /\ UNCHANGED <<config, clock, token, mem, held>>
      /\ req[q].pc = "revokeRefreshRows" /\ req[q].at = {r} /\ req[q].dev = {d} /\ Leave(q)
      /\ db' = [db EXCEPT !.refresh = rows]
      /\ dead' = dead \cup TokensOf(known)
      /\ cut' = [cut EXCEPT ![r] = @ \cup TokensOf(known)]
      /\ barred' = IF db.device[d] = "revoked" THEN [barred EXCEPT ![r] = @ \cup {d}] ELSE barred
      /\ mutex' = [mutex EXCEPT ![r] = {}]
  BY Zenon DEF RevokeRefreshRows, At
<1>2. /\ "revokeRefreshRows" \in Locked /\ "revokeRefreshRows" \notin Issuing /\ "revokeRefreshRows" \in NeedPostgres
      /\ "idle" \notin Locked /\ "idle" \notin Issuing
  BY Zenon DEF Labels, Statements, Locked, NeedPostgres, Issuing
<1>3. db \in Tables /\ db.refresh \in [Creds -> State]
  BY TypeOKParts, Zenon DEF AccessInv, TypeInv, DataTypes, Tables
<1>4. /\ rows \in [Creds -> State]
      /\ \A c \in Creds : /\ rows[c] = "none" <=> db.refresh[c] = "none"
                          /\ rows[c] = "live" => db.refresh[c] = "live" /\ d \notin token[c].owner
  BY <1>3, RevokedFacts, Zenon DEF OwnedBy
<1> HIDE DEF rows
<1>5. db' \in Tables /\ db'.refresh = rows /\ db'.access = db.access /\ db'.device = db.device
  BY <1>1, <1>3, <1>4, RefreshTable, Zenon
<1>6. Left(q)
  BY <1>1, LeaveFacts, Zenon DEF AccessInv, TypeInv
<1>7. DataTypes'
  BY <1>1, <1>5, TypeOKParts, Zenon DEF AccessInv, TypeInv, DataTypes, Tables
<1>8. Postgres
  BY <1>1, <1>2, RequestFacts, Zenon
<1>9. /\ mutex' \in [Replicas -> SUBSET Requests]
      /\ \A s \in Replicas : mutex'[s] = mutex[s] \ {q}
  <2>1. mutex[r] = {q} /\ \A s \in Replicas \ {r} : q \notin mutex[s]
    BY <1>1, <1>2, TypeOKParts, SMTT(30) DEF AccessInv, TypeInv, LocksOK, Shaped
  <2> QED BY <1>1, <2>1 DEF AccessInv, TypeInv, Shaped
<1>10. /\ DOMAIN cut' = Replicas /\ barred' \in [Replicas -> SUBSET Devices]
       /\ \A s \in Replicas : \A e \in barred'[s] : e \in barred[s] \/ (s = r /\ e = d /\ db.device[d] = "revoked")
       /\ \A s \in Replicas : barred[s] \subseteq barred'[s]
  BY <1>1 DEF AccessInv, TypeInv, Shaped
<1>11. TypeInv'
  BY <1>1, <1>6, <1>7, <1>9, <1>10, LeaveTypes, Zenon DEF AccessInv
<1>12. held \subseteq Creds /\ \A p \in Requests : req[p].cred \subseteq Creds /\ req[p].covers \subseteq held /\ req[p].fresh \subseteq Creds
  BY Zenon DEF AccessInv, TypeInv, Shaped, RequestsOK, Fresh
<1>13. StoredInv'
  BY <1>1, <1>2, <1>4, <1>5, <1>6, <1>12 DEF AccessInv, StoredInv, CredentialsSurviveRestart, Left, Others, Postgres, config
<1>14. CutInv'
  <2>1. \A c \in known : /\ c \in held /\ mem[r].access[c] # "live" /\ mem[r].refresh[c] # "live"
                         /\ db'.access[c] # "live" /\ db'.refresh[c] # "live"
    BY <1>1, <1>2, <1>4, <1>5, <1>12, Zenon DEF AccessInv, CutInv, CutRequests, CutRequest
  <2>2. CutTokens'
    <3> SUFFICES ASSUME NEW s \in Replicas, NEW e \in Creds, NEW kind \in {"access", "refresh"}
                 PROVE  /\ <<kind, e>> \in cut'[s] => e \in held' /\ Gone(kind, e, s)'
                        /\ <<kind, e>> \in dead' => e \in held' /\ (Postgres' => db'[kind][e] # "live")
      BY Zenon DEF CutTokens
    <3> HIDE DEF known
    <3>1. /\ <<kind, e>> \in cut'[s] => <<kind, e>> \in cut[s] \/ (s = r /\ e \in known)
          /\ <<kind, e>> \in dead' => <<kind, e>> \in dead \/ e \in known
      BY <1>1, Zenon DEF AccessInv, TypeInv, Shaped, TokensOf
    <3>2. /\ <<kind, e>> \in cut[s] => e \in held /\ Gone(kind, e, s)
          /\ <<kind, e>> \in dead => e \in held /\ (Postgres => db[kind][e] # "live")
      BY Zenon DEF AccessInv, CutInv, CutTokens
    <3>3. db'[kind][e] = "live" => db[kind][e] = "live"
      BY <1>4, <1>5, Zenon
    <3>4. e \in known => e \in held /\ mem[r][kind][e] # "live" /\ db'[kind][e] # "live"
      BY <2>1, Zenon
    <3> QED BY <1>1, <3>1, <3>2, <3>3, <3>4, Zenon DEF Gone, Postgres, config
  <2>3. UNCHANGED <<config, token, clock, mem>>
    BY <1>1, Zenon
  <2>4. \A c \in Creds : db'.access[c] = db.access[c] /\ (db'.refresh[c] = "live" => db.refresh[c] = "live")
    BY <1>4, <1>5, Zenon
  <2>5. CutRequests'
    <3>1. NoRevival
      BY <1>12, <2>3, <2>4, Zenon DEF NoRevival
    <3> QED BY <1>6, <2>3, <3>1, CutRequestsLeft, Zenon
  <2> QED BY <2>2, <2>5, Zenon DEF CutInv
<1>15. BarredInv'
  <2>1. d \in mem[r].revoked
    BY <1>1, <1>2, Zenon DEF AccessInv, BarredInv
  <2>2. UNCHANGED <<config, mem>> /\ db'.device = db.device
    BY <1>1, <1>5, Zenon
  <2>3. \A s \in Replicas : \A e \in barred'[s] : e \in barred[s] \/ (db.device[e] = "revoked" /\ e \in mem'[s].revoked)
    BY <1>10, <2>1, <2>2, Zenon
  <2> QED BY <1>6, <1>10, <2>2, <2>3, BarredLeft, Zenon DEF AccessInv
<1>16. NoRevival
  BY <1>1, <1>4, <1>5, <1>12, Zenon DEF NoRevival
<1> QED BY <1>11, <1>13, <1>14, <1>15, <1>16, Zenon DEF AccessInv
-----------------------------------------------------------------------------
(* Failures, restarts, time.                                               *)

\* Fail: the request gives back its mutex, if it holds one.
LEMMA FailKeeps ==
  ASSUME AccessInv, NEW q \in Requests, Fail(q)
  PROVE  AccessInv'
<1>1. /\ UNCHANGED <<config, clock, db, token, mem, history>> /\ Leave(q)
      /\ mutex' = [r \in Replicas |-> mutex[r] \ {q}]
  BY Zenon DEF Fail
<1>2. Left(q)
  BY <1>1, LeaveFacts, Zenon DEF AccessInv, TypeInv
<1>3. TypeInv'
  BY <1>1, <1>2, LeaveTypes, TypeOKParts, Zenon DEF AccessInv, TypeInv, Shaped, DataTypes, history
<1>4. StoredInv'
  BY <1>1, <1>2, Zenon DEF AccessInv, StoredInv, CredentialsSurviveRestart, Left, Others, Postgres, config, history, Issuing
<1>5. CutInv'
  <2>1. NoRevival /\ UNCHANGED <<config, clock, token, cut, dead, held>>
    BY <1>1, Zenon DEF NoRevival, history
  <2>2. CutTokens'
    BY <2>1, CutTokensStay, Zenon DEF AccessInv, CutInv
  <2>3. CutRequests'
    BY <1>2, <2>1, CutRequestsLeft, Zenon
  <2> QED BY <2>2, <2>3, Zenon DEF CutInv
<1>6. BarredInv'
  <2>1. config' = config /\ db'.device = db.device /\ mem' = mem /\ barred' = barred
    BY <1>1, Zenon DEF history
  <2> QED BY <1>2, <2>1, BarredLeft, Zenon DEF AccessInv
<1> QED BY <1>3, <1>4, <1>5, <1>6, Zenon DEF AccessInv

\* Tick: what has expired stays expired.
LEMMA TickKeeps ==
  ASSUME AccessInv, Tick
  PROVE  AccessInv'
<1>1. UNCHANGED <<config, db, token, mem, mutex, req, history>> /\ clock' = clock + 1 /\ clock < MaxClock
  BY Zenon DEF Tick
<1>2. clock \in 0 .. MaxClock /\ clock' \in 0 .. MaxClock /\ clock' > clock
  BY <1>1, AccessConstants DEF AccessInv, TypeInv, Shaped
<1>3. TypeInv'
  BY <1>1, <1>2, QuietTypes, TypeOKParts, Zenon DEF AccessInv, TypeInv, Shaped, DataTypes, history
<1>4. StoredInv'
  BY <1>1, Zenon DEF AccessInv, StoredInv, CredentialsSurviveRestart, Postgres, config, history
<1>5. CutInv'
  <2>1. CutTokens'
    BY <1>1, CutTokensStay, Zenon DEF NoRevival, AccessInv, CutInv, history
  <2>2. \A c \in Creds : RefreshExpiry(c) \in Nat /\ RefreshExpiry(c)' = RefreshExpiry(c) /\ AccessExpiry(c)' = AccessExpiry(c)
    BY <1>1, AccessConstants, TypeOKParts DEF AccessInv, TypeInv, DataTypes, RefreshExpiry, AccessExpiry
  <2>3. \A p \in Requests : req[p].cred \subseteq Creds
    BY Zenon DEF AccessInv, TypeInv, Shaped, RequestsOK
  <2>4. \A c \in Creds : clock > RefreshExpiry(c) => clock' > RefreshExpiry(c)'
    BY <1>2, <2>2
  <2>5. CutRequests'
    BY <1>1, <2>2, <2>3, <2>4, SMTT(30) DEF AccessInv, CutInv, CutRequests, CutRequest, Postgres, config
  <2> QED BY <2>1, <2>5, Zenon DEF CutInv
<1>6. BarredInv'
  BY <1>1, SMTT(30) DEF AccessInv, BarredInv, Registering, Postgres, Production, config, history
<1> QED BY <1>3, <1>4, <1>5, <1>6, Zenon DEF AccessInv

\* Restart: the maps are empty, the requests of the replica gone.  The replica
\* answers for what the tables say.
LEMMA RestartKeeps ==
  ASSUME AccessInv, NEW r \in Replicas, Restart(r)
  PROVE  AccessInv' /\ NoRevival
<1>1. /\ UNCHANGED <<config, clock, db, token, held, dead>>
      /\ mem' = [mem EXCEPT ![r] = EmptyMaps]
      /\ mutex' = [mutex EXCEPT ![r] = {}]
      /\ req' = [q \in Requests |-> IF req[q].at = {r} THEN Idle ELSE req[q]]
      /\ cut' = [cut EXCEPT ![r] = dead]
      /\ barred' = [barred EXCEPT ![r] = {d \in Devices : db.device[d] = "revoked"}]
  BY Zenon DEF Restart
<1>2. /\ EmptyMaps \in Maps /\ EmptyMaps.devices = {}
      /\ \A c \in Creds : EmptyMaps.access[c] = "none" /\ EmptyMaps.refresh[c] = "none"
  BY Zenon DEF EmptyMaps, Maps, State
<1>3. /\ mem' \in [Replicas -> Maps] /\ mem'[r] = EmptyMaps /\ \A s \in Replicas \ {r} : mem'[s] = mem[s]
  <2>1. mem \in [Replicas -> Maps]
    BY TypeOKParts, Zenon DEF AccessInv, TypeInv, DataTypes, Maps
  <2> QED BY <1>1, <1>2, <2>1, Zenon
<1>4. /\ DOMAIN req' = Requests
      /\ \A q \in Requests : /\ req[q].at = {r} => req'[q] = Idle
                             /\ req[q].at # {r} => req'[q] = req[q]
  BY <1>1, Zenon
<1>5. /\ mutex' \in [Replicas -> SUBSET Requests] /\ mutex'[r] = {} /\ \A s \in Replicas \ {r} : mutex'[s] = mutex[s]
      /\ DOMAIN cut' = Replicas /\ cut'[r] = dead /\ \A s \in Replicas \ {r} : cut'[s] = cut[s]
      /\ barred' \in [Replicas -> SUBSET Devices] /\ \A s \in Replicas \ {r} : barred'[s] = barred[s]
      /\ barred'[r] = {d \in Devices : db.device[d] = "revoked"}
  BY <1>1, Zenon DEF AccessInv, TypeInv, Shaped
<1>6. "idle" \in Labels /\ "idle" \notin Locked /\ "idle" \notin Issuing /\ "idle" \notin NeedPostgres
  BY Zenon DEF Labels, Statements, Locked, Issuing, NeedPostgres
<1>7. UNCHANGED <<config, clock, db, token, held, dead>>
  BY <1>1, Zenon
<1>8. TypeInv'
  <2>1. DataTypes'
    BY <1>3, <1>7, TypeOKParts, Zenon DEF AccessInv, TypeInv, DataTypes, Maps
  <2>2. LocksOK'
    BY <1>4, <1>5, <1>6, IdleFields, TypeOKParts, SMTT(30) DEF AccessInv, TypeInv, LocksOK
  <2>3. Shaped'
    BY <1>4, <1>5, <1>7, Zenon DEF AccessInv, TypeInv, Shaped
  <2>4. RequestsOK'
    <3>1. RequestsOK /\ Postgres' = Postgres /\ held' = held
      BY <1>7, Zenon DEF AccessInv, TypeInv, Postgres, config
    <3>2. \A q \in Requests : req'[q] = Idle \/ req'[q] = req[q]
      BY <1>4, Zenon
    <3>3. 0 \in 0 .. MaxClock
      BY AccessConstants
    <3>4. "idle" \notin {"persist", "publishDevice"} /\ Idle.op # "bind"
      BY IdleFields, Zenon
    <3> SUFFICES ASSUME NEW q \in Requests
                 PROVE  /\ req'[q].pc = "idle" => req'[q] = Idle
                        /\ req'[q].pc # "idle" => /\ \E s \in Replicas : req'[q].at = {s}
                                                  /\ \E d \in Devices : req'[q].dev = {d}
                        /\ req'[q].pc \in NeedPostgres => Postgres'
                        /\ req'[q].pc \in {"persist", "publishDevice"} => req'[q].op = "bind"
                        /\ req'[q].op = "bind" => req'[q].cred = {}
                        /\ \A c, e \in req'[q].cred : c = e
                        /\ req'[q].cred \subseteq held' /\ req'[q].covers \subseteq held'
                        /\ req'[q].now \in 0 .. MaxClock
      BY Zenon DEF RequestsOK
    <3>5. CASE req'[q] = Idle
      <4>1. /\ req'[q].pc = "idle" /\ req'[q].op # "bind" /\ req'[q].cred = {} /\ req'[q].covers = {}
            /\ req'[q].now \in 0 .. MaxClock
        BY <3>3, <3>4, <3>5, IdleFields, Zenon
      <4> QED BY <1>6, <3>4, <3>5, <4>1, Zenon
    <3>6. CASE req'[q] = req[q]
      BY <3>1, <3>6, Zenon DEF RequestsOK
    <3> QED BY <3>2, <3>5, <3>6, Zenon
  <2>5. Fresh'
    BY <1>4, <1>6, <1>7, IdleFields, SMTT(30) DEF AccessInv, TypeInv, Fresh
  <2> QED BY <2>1, <2>2, <2>3, <2>4, <2>5, TypeOKNext, Zenon DEF TypeInv
<1>9. StoredInv'
  BY <1>4, <1>6, <1>7, IdleFields, SMTT(30) DEF AccessInv, StoredInv, CredentialsSurviveRestart, Postgres, config
<1>10. CutInv'
  <2>1. CutTokens'
    <3> SUFFICES ASSUME NEW s \in Replicas, NEW e \in Creds, NEW kind \in {"access", "refresh"}
                 PROVE  /\ <<kind, e>> \in cut'[s] => e \in held' /\ Gone(kind, e, s)'
                        /\ <<kind, e>> \in dead' => e \in held' /\ (Postgres' => db'[kind][e] # "live")
      BY Zenon DEF CutTokens
    <3>1. /\ <<kind, e>> \in cut[s] => e \in held /\ Gone(kind, e, s)
          /\ <<kind, e>> \in dead => e \in held /\ (Postgres => db[kind][e] # "live")
      BY Zenon DEF AccessInv, CutInv, CutTokens
    <3>2. s = r => mem'[s][kind][e] = "none"
      BY <1>2, <1>3, Zenon
    <3> QED BY <1>3, <1>5, <1>7, <3>1, <3>2, Zenon DEF Gone, Postgres, config
  <2>2. CutRequests'
    <3> SUFFICES ASSUME NEW p \in Requests, NEW s \in Replicas, req'[p].at = {s}
                 PROVE  CutRequest(p, s)'
      BY Zenon DEF CutRequests
    <3>1. s # r /\ req'[p] = req[p] /\ mem'[s] = mem[s]
      BY <1>3, <1>4, IdleFields, Zenon
    <3>2. CutRequest(p, s)
      BY <3>1, Zenon DEF AccessInv, CutInv, CutRequests
    <3> QED BY <1>7, <3>1, <3>2, Zenon DEF CutRequest, Postgres, config, RefreshExpiry, AccessExpiry
  <2> QED BY <2>1, <2>2, Zenon DEF CutInv
<1>11. BarredInv'
  <2>1. \A q \in Requests : req'[q].at # {r}
    BY <1>4, IdleFields, Zenon
  <2>2. \A q \in Requests : req'[q].at # {} => req'[q] = req[q]
    BY <1>4, IdleFields, Zenon
  <2>3. ~Postgres => barred'[r] = {}
    BY <1>5, Zenon DEF AccessInv, BarredInv
  <2>4. (Postgres' <=> Postgres) /\ (Production' <=> Production)
    BY <1>7, Zenon DEF Postgres, Production, config
  <2>5. ASSUME NEW s \in Replicas, NEW d \in barred'[s]
        PROVE  /\ Postgres' => db'.device[d] = "revoked"
               /\ \/ d \in mem'[s].revoked
                  \/ Postgres' /\ d \notin mem'[s].devices /\ \A q \in Requests : ~Registering(q, s, d)'
    <3>1. CASE s = r
      BY <1>2, <1>3, <1>5, <1>7, <2>1, <2>3, <2>4, <3>1, Zenon DEF Registering
    <3>2. CASE s # r
      <4>1. mem'[s] = mem[s] /\ d \in barred[s]
        BY <1>3, <1>5, <3>2, Zenon
      <4>2. \A q \in Requests : Registering(q, s, d)' => Registering(q, s, d)
        BY <2>2, Zenon DEF Registering
      <4> QED BY <1>7, <2>4, <4>1, <4>2, Zenon DEF AccessInv, BarredInv
    <3> QED BY <3>1, <3>2, Zenon
  <2>6. ASSUME NEW q \in Requests, NEW s \in Replicas, NEW d \in Devices, req'[q].at = {s}, req'[q].dev = {d}
        PROVE  /\ "barred" \in req'[q].doomed =>
                     /\ d \in barred'[s]
                     /\ req'[q].pc \in {"lookupAccess", "identity", "lookupIdentity", "lookupDevice"}
                     /\ req'[q].pc # "lookupDevice" => Production'
               /\ req'[q].pc \in Locked => d \in mem'[s].revoked
    <3>1. req'[q] = req[q] /\ s # r /\ mem'[s] = mem[s] /\ barred'[s] = barred[s]
      BY <1>3, <1>5, <2>1, <2>2, <2>6, Zenon
    <3>2. BarredInv /\ req[q].at = {s} /\ req[q].dev = {d}
      BY <2>6, <3>1, Zenon DEF AccessInv
    <3>3. "barred" \in req[q].doomed =>
             /\ d \in barred[s]
             /\ req[q].pc \in {"lookupAccess", "identity", "lookupIdentity", "lookupDevice"}
             /\ req[q].pc # "lookupDevice" => Production
      BY <3>2, BarredRequests, Zenon
    <3>4. req[q].pc \in Locked => d \in mem[s].revoked
      BY <3>2, BarredRequests, Zenon
    <3> QED BY <2>4, <3>1, <3>3, <3>4, Zenon
  <2> QED BY <1>7, <2>4, <2>5, <2>6, Zenon DEF AccessInv, BarredInv
<1>12. NoRevival
  BY <1>1, <1>2, <1>3, Zenon DEF NoRevival, AccessInv, TypeInv, Shaped
<1> QED BY <1>8, <1>9, <1>10, <1>11, <1>12, Zenon DEF AccessInv
-----------------------------------------------------------------------------
(* The theorems.                                                           *)

\* Every step keeps the invariant.
LEMMA NextAccess == AccessInv /\ [Next]_vars => AccessInv'
<1> SUFFICES ASSUME AccessInv, [Next]_vars PROVE AccessInv'
  BY Zenon
<1>1. CASE UNCHANGED vars
  <2>1. TypeInv'
    BY <1>1, QuietTypes, TypeOKParts, Zenon DEF vars, AccessInv, TypeInv, Shaped, DataTypes, history
  <2>2. /\ UNCHANGED <<profile, store, clock, token, held, db, mem, req, cut, dead, barred>>
        /\ (Postgres' <=> Postgres) /\ (Production' <=> Production)
    BY <1>1, Zenon DEF vars, config, history, Postgres, Production
  <2>3. StoredInv'
    BY <2>2, Zenon DEF AccessInv, StoredInv, CredentialsSurviveRestart
  <2>4. CutTokens'
    BY <2>2, Zenon DEF AccessInv, CutInv, CutTokens, Gone
  <2>5. CutRequests'
    BY <1>1, <2>2, CutRequestStays, Zenon DEF vars, NoRevival, CutRequests
  <2>6. BarredInv'
    BY <2>2, SMTT(30) DEF AccessInv, BarredInv, Registering
  <2> QED BY <2>1, <2>3, <2>4, <2>5, <2>6, Zenon DEF AccessInv, CutInv
<1>2. CASE \E q \in Requests, r \in Replicas, d \in Devices :
             \/ Register(q, r, d) \/ PersistDevice(q, r, d) \/ PublishCredentials(q, r, d) \/ PublishDevice(q, r, d)
             \/ RevokeAccess(q, r, d) \/ RevokeDevice(q, r, d) \/ RevokeAccessRows(q, r, d) \/ RevokeRefreshRows(q, r, d)
  BY <1>2, RegisterKeeps, PersistDeviceKeeps, PublishCredentialsKeeps, PublishDeviceKeeps,
     RevokeAccessPostgres, RevokeAccessMemory, RevokeDeviceKeeps, RevokeAccessRowsKeeps, RevokeRefreshRowsKeeps, Zenon
<1>3. CASE \E q \in Requests, r \in Replicas, d \in Devices :
             \/ LookupIdentity(q, r, d) \/ LookupIdentityRow(q, r, d) \/ GetDevice(q, r, d)
             \/ RevokeByAdmin(q, r, d) \/ Connect(q, r, d)
  BY <1>3, DeviceLookupsKeep, ConnectKeeps, Zenon
<1>4. CASE \E q \in Requests, r \in Replicas, c \in Creds :
             \/ RefreshAccess(q, r, c) \/ RevokeRefreshCredential(q, r, c)
             \/ AnswerRefresh(q, r, c) \/ AuthenticateAccess(q, r, c)
  BY <1>4, RefreshAccessKeeps, RevokeRefreshCredentialKeeps, AnswerRefreshKeeps, AuthenticateKeeps, Zenon
<1>5. CASE \E q \in Requests, c \in Creds :
             \/ StoreAccessHash(q, c) \/ StoreRefreshHash(q, c) \/ GetRefreshByHash(q, c)
             \/ RefuseExpired(q, c) \/ RevokeRefreshByHash(q, c) \/ GetAccessByHash(q, c)
  BY <1>5, StoreAccessHashKeeps, StoreRefreshHashKeeps, TokenLookupsKeep, AcceptedKeep, RevokeRefreshByHashKeeps, Zenon
<1>6. CASE \E q \in Requests : AnswerAccepted(q) \/ RevokeOwn(q) \/ CloseConnection(q) \/ Fail(q) \/ Refuse(q)
  BY <1>1, <1>6, AcceptedKeep, FailKeeps, Zenon DEF Refuse
<1>7. CASE (\E r \in Replicas : Restart(r)) \/ Tick
  BY <1>7, RestartKeeps, TickKeeps, Zenon
<1> QED BY <1>1, <1>2, <1>3, <1>4, <1>5, <1>6, <1>7, Zenon DEF Next

\* No step revives a token: what is written as live belongs to a credential that
\* no client holds yet.
LEMMA NextRevival == AccessInv /\ [Next]_vars => NoRevival
<1> SUFFICES ASSUME AccessInv, [Next]_vars PROVE NoRevival
  BY Zenon
<1>1. ASSUME UNCHANGED <<db, mem>> PROVE NoRevival
  BY <1>1, Zenon DEF NoRevival
<1>2. CASE UNCHANGED vars
  BY <1>1, <1>2, Zenon DEF vars
<1>3. ASSUME NEW q \in Requests, NEW r \in Replicas, NEW d \in Devices,
             \/ PersistDevice(q, r, d) \/ PublishCredentials(q, r, d) \/ PublishDevice(q, r, d)
             \/ RevokeAccess(q, r, d) \/ RevokeDevice(q, r, d) \/ RevokeAccessRows(q, r, d) \/ RevokeRefreshRows(q, r, d)
      PROVE  NoRevival
  BY <1>3, PersistDeviceKeeps, PublishCredentialsKeeps, PublishDeviceKeeps,
     RevokeAccessPostgres, RevokeAccessMemory, RevokeDeviceKeeps, RevokeAccessRowsKeeps, RevokeRefreshRowsKeeps, Zenon
<1>4. ASSUME NEW q \in Requests, NEW r \in Replicas, NEW d \in Devices,
             \/ Register(q, r, d) \/ LookupIdentity(q, r, d) \/ LookupIdentityRow(q, r, d)
             \/ RevokeByAdmin(q, r, d) \/ Connect(q, r, d) \/ GetDevice(q, r, d)
      PROVE  NoRevival
  BY <1>1, <1>4, Zenon DEF Register, LookupIdentity, LookupIdentityRow, RevokeByAdmin, Connect, GetDevice
<1>5. ASSUME NEW q \in Requests, NEW r \in Replicas, NEW c \in Creds,
             \/ RefreshAccess(q, r, c) \/ RevokeRefreshCredential(q, r, c)
             \/ AnswerRefresh(q, r, c) \/ AuthenticateAccess(q, r, c)
      PROVE  NoRevival
  BY <1>1, <1>5, RevokeRefreshCredentialKeeps, AuthenticateKeeps, Zenon DEF RefreshAccess, AnswerRefresh
<1>6. ASSUME NEW q \in Requests, NEW c \in Creds,
             \/ StoreAccessHash(q, c) \/ StoreRefreshHash(q, c) \/ GetRefreshByHash(q, c)
             \/ RefuseExpired(q, c) \/ RevokeRefreshByHash(q, c) \/ GetAccessByHash(q, c)
      PROVE  NoRevival
  BY <1>1, <1>6, StoreAccessHashKeeps, StoreRefreshHashKeeps, RevokeRefreshByHashKeeps, Zenon
     DEF GetRefreshByHash, RefuseExpired, GetAccessByHash
<1>7. ASSUME NEW q \in Requests, AnswerAccepted(q) \/ RevokeOwn(q) \/ CloseConnection(q) \/ Fail(q) \/ Refuse(q)
      PROVE  NoRevival
  BY <1>1, <1>2, <1>7, Zenon DEF AnswerAccepted, RevokeOwn, CloseConnection, Fail, Refuse
<1>8. ASSUME NEW r \in Replicas, Restart(r) PROVE NoRevival
  BY <1>8, RestartKeeps, Zenon
<1>9. CASE Tick
  BY <1>1, <1>9, Zenon DEF Tick
<1> QED BY <1>2, <1>3, <1>4, <1>5, <1>6, <1>7, <1>8, <1>9, Zenon DEF Next

\* The invariant holds in every reachable state.
THEOREM AccessInvariant == Spec => []AccessInv
  BY InitAccess, NextAccess, PTL DEF Spec

\* A token that a client holds and that a map or a row does not hold live is
\* never entered there as live again, whatever registrations, refreshes and
\* revocations overlap, at whichever replica, and across restarts.
THEOREM TokensNeverRevive == Spec => HeldTokensNeverRevive
  BY AccessInvariant, NextRevival, PTL DEF Spec, HeldTokensNeverRevive

\* The maps, tables and tokens keep their types, and exactly the revocations at
\* their statements hold a mutex: one that fails, or whose replica restarts,
\* never leaves it locked.
THEOREM AccessTypes == Spec => []TypeOK
<1>1. AccessInv => TypeOK
  BY Zenon DEF AccessInv, TypeInv
<1> QED BY <1>1, AccessInvariant, PTL

\* Served requests are at labels where no reason "cut" or "expired" is left.
LEMMA CutInvProtects == AccessInv => CutOffTokensStayDead
<1> SUFFICES ASSUME AccessInv, NEW q \in Requests, Served(q) \/ req[q].pc \in {"identity", "lookupIdentity"}
             PROVE  req[q].doomed \cap {"cut", "expired"} = {}
  BY Zenon DEF CutOffTokensStayDead
<1>1. req[q].pc \notin {"lookupRefresh", "lookupAccess", "idle"}
  BY Zenon DEF Served
<1> QED BY <1>1, RequestFacts, Zenon DEF AccessInv, CutInv, CutRequests, CutRequest

\* What an answered revocation or rotation cut off, and what has expired, is
\* never served again by authenticateAccess or refreshAccess, at the replica
\* that answered and at every replica started since, whatever requests run
\* concurrently and wherever a statement fails.
THEOREM CutOffTokensAlwaysDead == Spec => []CutOffTokensStayDead
  BY CutInvProtects, AccessInvariant, PTL

\* Served requests are at labels where no reason "barred" is left.
LEMMA BarredInvProtects == AccessInv => RevokedDeviceStaysOut
<1> SUFFICES ASSUME AccessInv, NEW q \in Requests, Served(q)
             PROVE  "barred" \notin req[q].doomed
  BY Zenon DEF RevokedDeviceStaysOut
<1>1. req[q].pc \notin {"lookupAccess", "identity", "lookupIdentity", "lookupDevice", "idle"}
  BY Zenon DEF Served
<1>2. PICK r \in Replicas, d \in Devices : req[q].at = {r} /\ req[q].dev = {d}
  BY <1>1, RequestFacts, Zenon
<1>3. "barred" \in req[q].doomed => req[q].pc \in {"lookupAccess", "identity", "lookupIdentity", "lookupDevice"}
  BY <1>2, SMTT(30) DEF AccessInv, BarredInv
<1> QED BY <1>1, <1>3, Zenon

\* After an answered revokeAccess the device is refused by that replica and by
\* every replica started since, until it is registered again.
THEOREM RevokedDeviceAlwaysOut == Spec => []RevokedDeviceStaysOut
  BY BarredInvProtects, AccessInvariant, PTL

\* With PostgreSQL every credential a client holds is in both tables, for a
\* registered device.
THEOREM CredentialsAlwaysStored == Spec => []CredentialsSurviveRestart
<1>1. AccessInv => CredentialsSurviveRestart
  BY Zenon DEF AccessInv, StoredInv, CredentialsSurviveRestart
<1> QED BY <1>1, AccessInvariant, PTL
=============================================================================
