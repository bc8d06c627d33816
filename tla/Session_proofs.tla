---------------------------- MODULE Session_proofs ----------------------------
(***************************************************************************)
(* For every set of devices and session ids and every number of handshakes *)
(* and envelopes: sessions that are ready agree on their transcript, no    *)
(* nonce is used twice under a key, and an envelope is opened at most once *)
(* and only between devices that both verified the session.                *)
(***************************************************************************)
EXTENDS Session, TLAPS

\* th is the transcript of a and b.
Ends(th, a, b) ==
    \/ th[1].dev = a /\ th[2].dev = b
    \/ th[1].dev = b /\ th[2].dev = a

\* Transcripts are made of hellos that were sent; a LocalHello is in no
\* transcript of its device, so its keys were never derived before.
TranscriptsOK ==
    /\ \A h \in Sent("hello") : h.eph <= hellos
    /\ \A d \in Devices : \A th \in Transcript :
          <<d, th>> \in established => th[1] \in net /\ th[2] \in net
    /\ \A d \in Devices : \A l \in local[d] :
          /\ l.dev = d /\ l.peer # d /\ l \in net
          /\ \A th \in Transcript :
                <<d, th>> \in established => l # th[1] /\ l # th[2]

StatesOK ==
    \A d \in Devices : \A st \in state[d] :
        /\ st.local = d /\ st.peer # d
        /\ Ends(st.th, d, st.peer)
        /\ <<d, st.th>> \in established
        /\ st.ready = "yes" => <<d, st.th>> \in verified
        /\ st.sendSeq <= sends

ReadiesOK ==
    /\ verified \subseteq established
    /\ \A r \in Sent("ready") : <<r.dev, r.th>> \in established

\* An envelope was sealed in a verified session under its sender's key, with
\* a sequence number the session has moved past.
EnvelopesOK ==
    \A e \in Sent("envelope") :
        /\ e.id <= sends /\ e.dev # e.peer
        /\ Ends(e.key.th, e.dev, e.peer)
        /\ e.key.label = directionLabel(e.dev, e.peer)
        /\ <<e.dev, e.key.th>> \in verified
        /\ \A f \in Sent("envelope") : e.id = f.id => e = f
        /\ \A d \in Devices : \A st \in state[d] :
              e.key = SendKey(st) => e.seq < st.sendSeq

\* An opened envelope's sequence stays marked as long as its key is in use.
OpenedOK ==
    /\ \A n \in 1..MaxSends : n > sends => opened[n] = 0
    /\ \A e \in Sent("envelope") : opened[e.id] > 0 =>
          /\ <<e.peer, e.key.th>> \in verified
          /\ \A d \in Devices : \A st \in state[d] :
                e.key = ReceiveKey(st) => e.seq \in st.seen

SessionInv ==
    /\ TypeOK
    /\ TranscriptsOK
    /\ StatesOK
    /\ ReadiesOK
    /\ EnvelopesOK
    /\ OpenedOK
    /\ ReadyAgreement
    /\ NonceUnique
    /\ OpenedAtMostOnce
-----------------------------------------------------------------------------
\* Messages on the transport have the fields of their type.
LEMMA SentTypes ==
  ASSUME TypeOK
  PROVE  /\ Sent("hello") \subseteq Hello
         /\ Sent("ready") \subseteq Ready
         /\ Sent("envelope") \subseteq Envelope
  BY Zenon DEF TypeOK, Sent, Hello, Ready, Envelope

\* TranscriptHash sorts two hellos into one transcript of both.
LEMMA TranscriptHashType ==
  ASSUME NEW a \in Hello, NEW b \in Hello
  PROVE  /\ TranscriptHash(a, b) \in Transcript
         /\ a \in {TranscriptHash(a, b)[1], TranscriptHash(a, b)[2]}
         /\ b \in {TranscriptHash(a, b)[1], TranscriptHash(a, b)[2]}
         /\ Ends(TranscriptHash(a, b), a.dev, b.dev)
         /\ {TranscriptHash(a, b)[1], TranscriptHash(a, b)[2]} = {a, b}
  BY Zenon DEF TranscriptHash, Transcript, Ends

\* The keys of a session state are keys.
LEMMA KeyTypes ==
  ASSUME NEW st \in State
  PROVE  SendKey(st) \in Key /\ ReceiveKey(st) \in Key
  BY Zenon DEF State, Key, SendKey, ReceiveKey, directionLabel

\* The fields of a device's session state have their types.
LEMMA StateTypes ==
  ASSUME TypeOK, NEW d \in Devices, NEW st \in state[d]
  PROVE  /\ st \in State /\ st.peer \in Devices /\ st.th \in Transcript
         /\ st.sendSeq \in Nat
<1>1. st \in State
  BY Zenon DEF TypeOK
<1> QED
  BY <1>1, SessionConstants DEF State

\* A key determines who sends under it: the label tells the directions of one
\* transcript apart.
LEMMA KeyDirection ==
  ASSUME NEW th \in Transcript,
         NEW a \in Devices, NEW b \in Devices, a # b, Ends(th, a, b),
         NEW c \in Devices, NEW d \in Devices, c # d, Ends(th, c, d),
         directionLabel(a, b) = directionLabel(c, d)
  PROVE  a = c /\ b = d
  BY SessionConstants DEF Ends, directionLabel
-----------------------------------------------------------------------------
\* Every library call keeps the types.
LEMMA TypeStep ==
  ASSUME TypeOK, StatesOK, [Next]_vars
  PROVE  TypeOK'
<1> USE DEF TypeOK
<1>1. ASSUME NEW d \in Devices, NEW p \in Devices, NEW s \in SessionIDs,
             CreateHello(d, p, s)
      PROVE  TypeOK'
  <2> DEFINE h == [type |-> "hello", dev |-> d, peer |-> p, sid |-> s,
                   eph |-> hellos + 1]
  <2>1. h \in Hello /\ hellos + 1 \in 0..MaxHellos
    BY <1>1, SessionConstants DEF CreateHello, Hello
  <2> QED
    BY <1>1, <2>1, Zenon DEF CreateHello
<1>2. ASSUME NEW d \in Devices, NEW l \in local[d], NEW r \in net, Establish(d, l, r)
      PROVE  TypeOK'
  <2>1. l \in Hello /\ r \in Hello
    BY <1>2, SentTypes, Zenon DEF Establish
  <2>2. TranscriptHash(l, r) \in Transcript
    BY <2>1, TranscriptHashType, Zenon
  <2>3. [sid |-> l.sid, local |-> d, peer |-> r.dev, th |-> TranscriptHash(l, r),
         ready |-> "no", sendSeq |-> 0, seen |-> {}] \in State
    BY <2>1, <2>2, SessionConstants DEF State, Hello
  <2> QED
    BY <1>2, <2>2, <2>3 DEF Establish
<1>3. ASSUME NEW d \in Devices, NEW st \in state[d], CreateReady(d, st)
      PROVE  TypeOK'
  <2>1. [type |-> "ready", dev |-> d, sid |-> st.sid, th |-> st.th] \in Ready
    BY DEF State, Ready
  <2> QED
    BY <1>3, <2>1, Zenon DEF CreateReady
<1>4. ASSUME NEW d \in Devices, NEW st \in state[d], NEW r \in net, VerifyReady(d, st, r)
      PROVE  TypeOK'
  <2>1. [st EXCEPT !.ready = "yes"] \in State /\ st.th \in Transcript
    BY DEF State
  <2> QED
    BY <1>4, <2>1 DEF VerifyReady
<1>5. ASSUME NEW d \in Devices, NEW st \in state[d], Encrypt(d, st)
      PROVE  TypeOK'
  <2> DEFINE e == [type |-> "envelope", dev |-> d, peer |-> st.peer,
                   sid |-> st.sid, seq |-> st.sendSeq,
                   key |-> SendKey(st), id |-> sends + 1]
  <2>1. st \in State /\ st.sendSeq <= sends /\ sends < MaxSends
    BY <1>5, ZenonT(20) DEF Encrypt, StatesOK
  <2>2. e \in Envelope
    <3>1. SendKey(st) \in Key
      BY <2>1, KeyTypes, Zenon
    <3>2. st.peer \in Devices /\ st.sid \in SessionIDs /\ st.sendSeq \in 0..MaxSends
      BY <2>1, Zenon DEF State
    <3>3. sends + 1 \in 1..MaxSends
      BY <2>1, SessionConstants
    <3> QED
      BY <3>1, <3>2, <3>3, Zenon DEF Envelope
  <2>3. [st EXCEPT !.sendSeq = @ + 1] \in State
    <3>1. st.sendSeq + 1 \in 0..MaxSends
      BY <2>1, SessionConstants DEF State
    <3> QED
      BY <2>1, <3>1, Zenon DEF State
  <2>4. sends + 1 \in 0..MaxSends
    BY <2>1, SessionConstants
  <2> QED
    BY <1>5, <2>2, <2>3, <2>4, Zenon DEF Encrypt
<1>6. ASSUME NEW d \in Devices, NEW st \in state[d], NEW e \in net,
             NEW damaged \in BOOLEAN, Decrypt(d, st, e, damaged)
      PROVE  TypeOK'
  <2>1. st \in State /\ e \in Envelope
    BY <1>6, SentTypes, Zenon DEF Decrypt
  <2>2. [st EXCEPT !.seen = @ \cup {e.seq}] \in State
    BY <2>1, Zenon DEF State, Envelope
  <2>3. e.id \in 1..MaxSends
    BY <2>1, Zenon DEF Envelope
  <2>4. opened' \in [1..MaxSends -> Nat]
    BY <1>6, <2>3 DEF Decrypt
  <2> QED
    BY <1>6, <2>2, <2>4, Zenon DEF Decrypt
<1>7. ASSUME NEW d \in Devices, Restart(d)
      PROVE  TypeOK'
  BY <1>7, Zenon DEF Restart
<1>8. CASE UNCHANGED vars
  BY <1>8, Zenon DEF vars
<1> QED
  BY <1>1, <1>2, <1>3, <1>4, <1>5, <1>6, <1>7, <1>8, Zenon DEF Next
-----------------------------------------------------------------------------
(* The rest of the invariant, one lemma per call of the library. *)

\* CreateHello makes a hello with a fresh ephemeral key, in no transcript yet.
LEMMA CreateHelloStep ==
  ASSUME SessionInv, NEW d \in Devices, NEW p \in Devices, NEW s \in SessionIDs,
         CreateHello(d, p, s), TypeOK'
  PROVE  SessionInv'
<1> DEFINE h == [type |-> "hello", dev |-> d, peer |-> p, sid |-> s,
                 eph |-> hellos + 1]
<1> USE DEF SessionInv
<1>1. /\ net' = net \cup {h} /\ hellos' = hellos + 1 /\ d # p
      /\ local' = [local EXCEPT ![d] = {h}]
      /\ UNCHANGED <<state, sends, established, verified, opened>>
  BY Zenon DEF CreateHello
<1>2. /\ Sent("hello")' = Sent("hello") \cup {h}
      /\ Sent("ready")' = Sent("ready")
      /\ Sent("envelope")' = Sent("envelope")
  BY <1>1 DEF Sent
<1>3. TranscriptsOK'
  <2>1. \A x \in Sent("hello")' : x.eph <= hellos'
    BY <1>1, <1>2, SentTypes DEF TranscriptsOK, TypeOK, Hello
  <2>2. \A e \in Devices : \A th \in Transcript :
           <<e, th>> \in established' => th[1] \in net' /\ th[2] \in net'
    BY <1>1, Zenon DEF TranscriptsOK
  <2>3. h \notin net
    BY SentTypes DEF TranscriptsOK, TypeOK, Sent
  <2>4. \A e \in Devices : \A l \in local'[e] :
           /\ l.dev = e /\ l.peer # e /\ l \in net'
           /\ \A th \in Transcript :
                 <<e, th>> \in established' => l # th[1] /\ l # th[2]
    BY <1>1, <2>3 DEF TranscriptsOK, TypeOK
  <2> QED
    BY <2>1, <2>2, <2>4, Zenon DEF TranscriptsOK
<1>4. StatesOK' /\ ReadiesOK' /\ ReadyAgreement'
  BY <1>1, <1>2, Zenon DEF StatesOK, ReadiesOK, ReadyAgreement
<1>5. EnvelopesOK' /\ NonceUnique'
  BY <1>1, <1>2, Zenon DEF EnvelopesOK, NonceUnique
<1>6. OpenedOK' /\ OpenedAtMostOnce'
  BY <1>1, <1>2, Zenon DEF OpenedOK, OpenedAtMostOnce
<1> QED
  BY <1>3, <1>4, <1>5, <1>6, Zenon

\* The new transcript holds a fresh LocalHello, so no envelope was sealed or
\* opened by this device under its keys.
LEMMA EstablishStep ==
  ASSUME SessionInv, NEW d \in Devices, NEW l \in local[d], NEW r \in net,
         Establish(d, l, r), TypeOK'
  PROVE  SessionInv'
<1> DEFINE th == TranscriptHash(l, r)
           st == [sid |-> l.sid, local |-> d, peer |-> r.dev, th |-> th,
                  ready |-> "no", sendSeq |-> 0, seen |-> {}]
<1> USE DEF SessionInv
<1>1. /\ state' = [state EXCEPT ![d] = {st}]
      /\ local' = [local EXCEPT ![d] = {}]
      /\ established' = established \cup {<<d, th>>}
      /\ UNCHANGED <<net, hellos, sends, verified, opened>>
      /\ r \in Sent("hello") /\ Matches(l, r)
  BY Zenon DEF Establish
<1>2. /\ Sent("hello")' = Sent("hello")
      /\ Sent("ready")' = Sent("ready")
      /\ Sent("envelope")' = Sent("envelope")
  BY <1>1, Zenon DEF Sent
<1>3. l \in Hello /\ r \in Hello /\ l.dev = d /\ l.peer # d /\ l.peer = r.dev
  BY <1>1, SentTypes, Zenon DEF TypeOK, TranscriptsOK, Matches
<1>4. /\ th \in Transcript /\ Ends(th, d, r.dev) /\ l \in {th[1], th[2]}
      /\ {th[1], th[2]} = {l, r}
  BY <1>3, TranscriptHashType, Zenon
<1>5. <<d, th>> \notin established
  BY <1>4 DEF TranscriptsOK
<1>6. \A x \in Devices : \A q \in state'[x] : (q = st /\ x = d) \/ q \in state[x]
  BY <1>1, Zenon DEF TypeOK
<1> HIDE DEF th
<1>7. TranscriptsOK'
  <2>1. th[1] \in net /\ th[2] \in net
    BY <1>4, <1>1 DEF TranscriptsOK, Sent
  <2> QED
    BY <1>1, <1>2, <2>1 DEF TranscriptsOK, TypeOK
<1>8. StatesOK'
  <2>1. sends \in Nat /\ r.dev \in Devices
    BY <1>3, SessionConstants DEF TypeOK, Hello
  <2>2. ASSUME NEW x \in Devices, NEW q \in state'[x]
        PROVE  /\ q.local = x /\ q.peer # x
               /\ Ends(q.th, x, q.peer)
               /\ <<x, q.th>> \in established'
               /\ q.ready = "yes" => <<x, q.th>> \in verified'
               /\ q.sendSeq <= sends'
    <3>1. CASE q = st /\ x = d
      BY <3>1, <1>1, <1>3, <1>4, <2>1
    <3>2. CASE q \in state[x]
      BY <3>2, <1>1, Zenon DEF StatesOK
    <3> QED
      BY <3>1, <3>2, <1>6, Zenon
  <2> QED
    BY <2>2, Zenon DEF StatesOK
<1>9. ReadiesOK'
  BY <1>1, <1>2, Zenon DEF ReadiesOK
<1>10. ReadyAgreement'
  BY <1>1, <1>6 DEF ReadyAgreement
<1>11. ASSUME NEW e \in Sent("envelope")
       PROVE  /\ e.key # SendKey(st)
              /\ opened[e.id] > 0 => e.key # ReceiveKey(st)
  <2>1. e \in Envelope /\ e.key \in Key /\ r.dev \in Devices
    BY <1>3, SentTypes, Zenon DEF Envelope, Hello
  <2>2. /\ e.dev # e.peer /\ e.dev \in Devices /\ e.peer \in Devices
        /\ Ends(e.key.th, e.dev, e.peer)
        /\ e.key.label = directionLabel(e.dev, e.peer)
        /\ <<e.dev, e.key.th>> \in established
    BY <2>1, Zenon DEF EnvelopesOK, ReadiesOK, Envelope
  <2>3. ASSUME e.key = SendKey(st) PROVE FALSE
    <3>1. e.key.th = th /\ e.key.label = directionLabel(d, r.dev)
      BY <2>3 DEF SendKey
    <3>2. e.dev = d
      BY <1>3, <1>4, <2>1, <2>2, <3>1, KeyDirection, ZenonT(20)
    <3> QED
      BY <1>5, <2>2, <3>1, <3>2, Zenon
  <2>4. ASSUME opened[e.id] > 0, e.key = ReceiveKey(st) PROVE FALSE
    <3>1. e.key.th = th /\ e.key.label = directionLabel(r.dev, d)
      BY <2>4 DEF ReceiveKey
    <3>2. Ends(th, r.dev, d)
      BY <1>4, Zenon DEF Ends
    <3>3. e.peer = d
      <4>1. /\ r.dev # d /\ Ends(th, e.dev, e.peer)
            /\ directionLabel(e.dev, e.peer) = directionLabel(r.dev, d)
        BY <1>3, <2>2, <3>1, Zenon
      <4> QED
        BY <1>4, <2>1, <2>2, <3>2, <4>1, KeyDirection
    <3>4. <<e.peer, e.key.th>> \in established
      BY <2>4, Zenon DEF OpenedOK, ReadiesOK
    <3> QED
      BY <1>5, <3>1, <3>3, <3>4, Zenon
  <2> QED
    BY <2>3, <2>4, Zenon
<1>12. EnvelopesOK' /\ NonceUnique'
  BY <1>1, <1>2, <1>6, <1>11, ZenonT(20) DEF EnvelopesOK, NonceUnique
<1>13. OpenedOK' /\ OpenedAtMostOnce'
  BY <1>1, <1>2, <1>6, <1>11, ZenonT(20) DEF OpenedOK, OpenedAtMostOnce
<1> QED
  BY <1>7, <1>8, <1>9, <1>10, <1>12, <1>13, Zenon

\* CreateReady speaks only of a transcript its device established.
LEMMA CreateReadyStep ==
  ASSUME SessionInv, NEW d \in Devices, NEW st \in state[d], CreateReady(d, st), TypeOK'
  PROVE  SessionInv'
<1> DEFINE r == [type |-> "ready", dev |-> d, sid |-> st.sid, th |-> st.th]
<1> USE DEF SessionInv
<1>1. /\ net' = net \cup {r}
      /\ UNCHANGED <<local, state, hellos, sends, established, verified, opened>>
  BY Zenon DEF CreateReady
<1>2. /\ Sent("hello")' = Sent("hello")
      /\ Sent("ready")' = Sent("ready") \cup {r}
      /\ Sent("envelope")' = Sent("envelope")
  BY <1>1 DEF Sent
<1>3. ReadiesOK'
  BY <1>1, <1>2 DEF ReadiesOK, StatesOK
<1>4. TranscriptsOK' /\ StatesOK' /\ ReadyAgreement'
  BY <1>1, <1>2 DEF TranscriptsOK, StatesOK, ReadyAgreement
<1>5. EnvelopesOK' /\ NonceUnique'
  BY <1>1, <1>2, SMTT(30) DEF EnvelopesOK, NonceUnique
<1>6. OpenedOK' /\ OpenedAtMostOnce'
  BY <1>1, <1>2, Zenon DEF OpenedOK, OpenedAtMostOnce
<1> QED
  BY <1>3, <1>4, <1>5, <1>6, Zenon

\* The peer's ready was created after it established the same transcript.
LEMMA VerifyReadyStep ==
  ASSUME SessionInv, NEW d \in Devices, NEW st \in state[d], NEW r \in net,
         VerifyReady(d, st, r), TypeOK'
  PROVE  SessionInv'
<1> DEFINE new == [st EXCEPT !.ready = "yes"]
<1> USE DEF SessionInv
<1>1. /\ state' = [state EXCEPT ![d] = {new}]
      /\ verified' = verified \cup {<<d, st.th>>}
      /\ UNCHANGED <<local, net, hellos, sends, established, opened>>
      /\ r \in Sent("ready") /\ r.dev = st.peer /\ r.th = st.th
  BY Zenon DEF VerifyReady
<1>2. /\ Sent("hello")' = Sent("hello")
      /\ Sent("ready")' = Sent("ready")
      /\ Sent("envelope")' = Sent("envelope")
  BY <1>1, Zenon DEF Sent
<1>3. /\ new.local = st.local /\ new.peer = st.peer /\ new.th = st.th
      /\ new.sendSeq = st.sendSeq /\ new.seen = st.seen
      /\ SendKey(new) = SendKey(st) /\ ReceiveKey(new) = ReceiveKey(st)
  BY DEF TypeOK, State, SendKey, ReceiveKey
<1>4. \A x \in Devices : \A q \in state'[x] : (q = new /\ x = d) \/ q \in state[x]
  BY <1>1, Zenon DEF TypeOK
<1> HIDE DEF new
<1>5. TranscriptsOK'
  BY <1>1, <1>2 DEF TranscriptsOK
<1>6. StatesOK'
  <2>1. ASSUME NEW x \in Devices, NEW q \in state'[x]
        PROVE  /\ q.local = x /\ q.peer # x
               /\ Ends(q.th, x, q.peer)
               /\ <<x, q.th>> \in established'
               /\ q.ready = "yes" => <<x, q.th>> \in verified'
               /\ q.sendSeq <= sends'
    <3>1. CASE q = new /\ x = d
      BY <3>1, <1>1, <1>3 DEF StatesOK
    <3>2. CASE q \in state[x]
      BY <3>2, <1>1, Zenon DEF StatesOK
    <3> QED
      BY <3>1, <3>2, <1>4, Zenon
  <2> QED
    BY <2>1, Zenon DEF StatesOK
<1>7. ReadiesOK'
  BY <1>1, <1>2, Zenon DEF ReadiesOK, StatesOK
<1>8. ReadyAgreement'
  BY <1>1, <1>3, <1>4, Zenon DEF ReadyAgreement, ReadiesOK
<1>9. EnvelopesOK' /\ NonceUnique'
  BY <1>1, <1>2, <1>3, <1>4 DEF EnvelopesOK, NonceUnique
<1>10. OpenedOK' /\ OpenedAtMostOnce'
  BY <1>1, <1>2, <1>3, <1>4 DEF OpenedOK, OpenedAtMostOnce
<1> QED
  BY <1>5, <1>6, <1>7, <1>8, <1>9, <1>10, Zenon

\* Encrypt seals with a sequence number not used before under its key.
LEMMA EncryptStep ==
  ASSUME SessionInv, NEW d \in Devices, NEW st \in state[d], Encrypt(d, st), TypeOK'
  PROVE  SessionInv'
<1> DEFINE new == [st EXCEPT !.sendSeq = @ + 1]
           e == [type |-> "envelope", dev |-> d, peer |-> st.peer, sid |-> st.sid,
                 seq |-> st.sendSeq, key |-> SendKey(st), id |-> sends + 1]
<1> USE DEF SessionInv
<1>1. /\ state' = [state EXCEPT ![d] = {new}]
      /\ net' = net \cup {e} /\ sends' = sends + 1
      /\ UNCHANGED <<local, hellos, established, verified, opened>>
      /\ sends < MaxSends /\ st.ready = "yes"
  BY Zenon DEF Encrypt
<1>2. /\ Sent("hello")' = Sent("hello")
      /\ Sent("ready")' = Sent("ready")
      /\ Sent("envelope")' = Sent("envelope") \cup {e}
  BY <1>1 DEF Sent
<1>3. /\ new.local = st.local /\ new.peer = st.peer /\ new.th = st.th
      /\ new.ready = st.ready /\ new.sendSeq = st.sendSeq + 1 /\ new.seen = st.seen
      /\ SendKey(new) = SendKey(st) /\ ReceiveKey(new) = ReceiveKey(st)
  BY DEF TypeOK, State, SendKey, ReceiveKey
<1>4. \A x \in Devices : \A q \in state'[x] : (q = new /\ x = d) \/ q \in state[x]
  BY <1>1, Zenon DEF TypeOK
<1>5. /\ e.id = sends + 1 /\ e.dev = d /\ e.peer = st.peer /\ e.key = SendKey(st)
      /\ e.key.th = st.th /\ e.key.label = directionLabel(d, st.peer)
      /\ e.seq = st.sendSeq
  BY ZenonT(20) DEF SendKey, StatesOK
<1>6. /\ st \in State /\ st.peer \in Devices /\ st.th \in Transcript
      /\ st.sendSeq \in Nat /\ sends \in Nat /\ st.sendSeq <= sends
      /\ st.local = d /\ st.peer # d /\ Ends(st.th, d, st.peer)
      /\ <<d, st.th>> \in verified
  BY <1>1, SessionConstants, SMTT(30) DEF TypeOK, State, StatesOK
<1> HIDE DEF new, e
<1>7. TranscriptsOK'
  BY <1>1, <1>2 DEF TranscriptsOK
<1>8. StatesOK'
  <2>1. ASSUME NEW x \in Devices, NEW q \in state'[x]
        PROVE  /\ q.local = x /\ q.peer # x
               /\ Ends(q.th, x, q.peer)
               /\ <<x, q.th>> \in established'
               /\ q.ready = "yes" => <<x, q.th>> \in verified'
               /\ q.sendSeq <= sends'
    <3>1. CASE q = new /\ x = d
      BY <3>1, <1>1, <1>3, <1>6 DEF StatesOK
    <3>2. CASE q \in state[x]
      <4>1. q.sendSeq <= sends /\ q.sendSeq \in Nat
        BY <3>2, StateTypes, ZenonT(20) DEF StatesOK
      <4> QED
        BY <3>2, <4>1, <1>1, <1>6 DEF StatesOK
    <3> QED
      BY <3>1, <3>2, <1>4, Zenon
  <2> QED
    BY <2>1, Zenon DEF StatesOK
<1>9. ReadiesOK' /\ ReadyAgreement'
  BY <1>1, <1>2, <1>3, <1>4, Zenon DEF ReadiesOK, ReadyAgreement
<1>10. ASSUME NEW f \in Sent("envelope")
       PROVE  /\ f.id <= sends /\ f.id \in Nat /\ f.seq \in Nat
              /\ f.key = SendKey(st) => f.seq < st.sendSeq
  <2>1. f \in Envelope
    BY SentTypes, Zenon
  <2>2. f.id \in Nat /\ f.seq \in Nat
    BY <2>1, SessionConstants DEF Envelope
  <2> QED
    BY <2>2, ZenonT(20) DEF EnvelopesOK
<1>11. ASSUME NEW x \in Devices, NEW q \in state'[x], e.key = SendKey(q)
       PROVE  q = new
  <2>1. CASE q \in state[x]
    <3>1. /\ q.th = st.th /\ directionLabel(q.local, q.peer) = directionLabel(d, st.peer)
          /\ q.local = x /\ q.peer # x /\ Ends(q.th, x, q.peer) /\ q.peer \in Devices
      <4>1. q.local = x /\ q.peer # x /\ Ends(q.th, x, q.peer) /\ q.peer \in Devices
        BY <2>1, StateTypes, ZenonT(20) DEF StatesOK
      <4>2. q.th = e.key.th /\ directionLabel(q.local, q.peer) = e.key.label
        BY <1>11 DEF SendKey
      <4> QED
        BY <1>5, <4>1, <4>2, Zenon
    <3>2. x = d
      BY <1>6, <3>1, KeyDirection
    <3> QED
      BY <1>1, <3>2, Zenon DEF TypeOK
  <2> QED
    BY <1>4, <2>1, Zenon
<1>12. NonceUnique'
  BY <1>2, <1>5, <1>10, SMTT(30) DEF NonceUnique
<1>13. EnvelopesOK'
  <2>1. ASSUME NEW f \in Sent("envelope")
        PROVE  /\ f.id <= sends' /\ f.id # e.id
               /\ \A x \in Devices : \A q \in state'[x] :
                      f.key = SendKey(q) => f.seq < q.sendSeq
    <3>1. f.id <= sends' /\ f.id # e.id
      BY <1>1, <1>5, <1>6, <1>10
    <3>2. ASSUME NEW x \in Devices, NEW q \in state'[x], f.key = SendKey(q)
          PROVE  f.seq < q.sendSeq
      <4>1. CASE q = new
        BY <3>2, <4>1, <1>3, <1>6, <1>10
      <4>2. CASE q \in state[x]
        BY <3>2, <4>2, ZenonT(20) DEF EnvelopesOK
      <4> QED
        BY <4>1, <4>2, <1>4, Zenon
    <3> QED
      BY <3>1, <3>2, Zenon
  <2>2. /\ e.id <= sends' /\ e.dev # e.peer /\ Ends(e.key.th, e.dev, e.peer)
        /\ e.key.label = directionLabel(e.dev, e.peer)
        /\ <<e.dev, e.key.th>> \in verified'
    BY <1>1, <1>5, <1>6
  <2>3. \A x \in Devices : \A q \in state'[x] :
            e.key = SendKey(q) => e.seq < q.sendSeq
    BY <1>3, <1>5, <1>6, <1>11
  <2> QED
    BY <1>1, <1>2, <2>1, <2>2, <2>3, Zenon DEF EnvelopesOK
<1>14. OpenedOK' /\ OpenedAtMostOnce'
  <2>1. opened[e.id] = 0
    BY <1>1, <1>5, <1>6, SessionConstants, SMTT(30) DEF OpenedOK
  <2> QED
    BY <1>1, <1>2, <1>3, <1>4, <1>6, <2>1, SessionConstants, SMTT(30) DEF OpenedOK, OpenedAtMostOnce
<1> QED
  BY <1>7, <1>8, <1>9, <1>12, <1>13, <1>14, Zenon

\* The sequence was not marked, so the envelope was not opened before.
LEMMA DecryptStep ==
  ASSUME SessionInv, NEW d \in Devices, NEW st \in state[d], NEW e \in net,
         NEW damaged \in BOOLEAN, Decrypt(d, st, e, damaged), TypeOK'
  PROVE  SessionInv'
<1> DEFINE new == [st EXCEPT !.seen = @ \cup {e.seq}]
<1> USE DEF SessionInv
<1>1. /\ state' = [state EXCEPT ![d] = {new}]
      /\ UNCHANGED <<local, net, hellos, sends, established, verified>>
      /\ e \in Sent("envelope") /\ st.ready = "yes" /\ e.seq \notin st.seen
      /\ e.peer = st.local
  BY Zenon DEF Decrypt
<1>2. \/ opened' = opened
      \/ e.key = ReceiveKey(st) /\ opened' = [opened EXCEPT ![e.id] = @ + 1]
  BY Zenon DEF Decrypt
<1>3. /\ Sent("hello")' = Sent("hello")
      /\ Sent("ready")' = Sent("ready")
      /\ Sent("envelope")' = Sent("envelope")
  BY <1>1, Zenon DEF Sent
<1>4. /\ new.local = st.local /\ new.peer = st.peer /\ new.th = st.th
      /\ new.ready = st.ready /\ new.sendSeq = st.sendSeq
      /\ new.seen = st.seen \cup {e.seq}
      /\ SendKey(new) = SendKey(st) /\ ReceiveKey(new) = ReceiveKey(st)
  BY DEF TypeOK, State, SendKey, ReceiveKey
<1>5. \A x \in Devices : \A q \in state'[x] : (q = new /\ x = d) \/ q \in state[x]
  BY <1>1, Zenon DEF TypeOK
<1> HIDE DEF new
<1>6. TranscriptsOK' /\ ReadiesOK'
  BY <1>1, <1>3 DEF TranscriptsOK, ReadiesOK
<1>7. StatesOK'
  <2>1. ASSUME NEW x \in Devices, NEW q \in state'[x]
        PROVE  /\ q.local = x /\ q.peer # x
               /\ Ends(q.th, x, q.peer)
               /\ <<x, q.th>> \in established'
               /\ q.ready = "yes" => <<x, q.th>> \in verified'
               /\ q.sendSeq <= sends'
    <3>1. CASE q = new /\ x = d
      BY <3>1, <1>1, <1>4 DEF StatesOK
    <3>2. CASE q \in state[x]
      BY <3>2, <1>1, Zenon DEF StatesOK
    <3> QED
      BY <3>1, <3>2, <1>5, Zenon
  <2> QED
    BY <2>1, Zenon DEF StatesOK
<1>8. ReadyAgreement'
  BY <1>1, <1>4, <1>5, SMTT(30) DEF ReadyAgreement
<1>9. EnvelopesOK' /\ NonceUnique'
  BY <1>1, <1>3, <1>4, <1>5, SMTT(30) DEF EnvelopesOK, NonceUnique
<1>10. CASE opened' = opened
  <2>1. OpenedOK' /\ OpenedAtMostOnce'
    BY <1>1, <1>3, <1>4, <1>5, <1>10, SMTT(30) DEF OpenedOK, OpenedAtMostOnce
  <2> QED
    BY <1>6, <1>7, <1>8, <1>9, <2>1, SMTT(30)
<1>11. CASE e.key = ReceiveKey(st) /\ opened' = [opened EXCEPT ![e.id] = @ + 1]
  <2>1. /\ e.id \in 1..MaxSends /\ e.id <= sends
        /\ \A n \in 1..MaxSends : opened[n] \in Nat
    <3>1. e \in Envelope /\ e.id <= sends
      BY <1>1, SentTypes, ZenonT(20) DEF EnvelopesOK
    <3>2. e.id \in 1..MaxSends
      BY <3>1, Zenon DEF Envelope
    <3> QED
      BY <3>1, <3>2, SMTT(30) DEF TypeOK
  <2>2. opened[e.id] = 0
    <3>1. opened[e.id] > 0 => e.seq \in st.seen
      BY <1>1, <1>11, ZenonT(20) DEF OpenedOK
    <3> QED
      BY <1>1, <2>1, <3>1
  <2>3. /\ opened'[e.id] = 1
        /\ \A n \in 1..MaxSends : n # e.id => opened'[n] = opened[n]
    BY <1>11, <2>1, <2>2 DEF TypeOK
  <2>4. OpenedAtMostOnce'
    BY <2>3 DEF OpenedAtMostOnce
  <2>5. \A n \in 1..MaxSends : n > sends' => opened'[n] = 0
    <3>1. sends' = sends /\ sends \in Nat
      BY <1>1, SessionConstants DEF TypeOK
    <3> QED
      BY <2>1, <2>3, <3>1 DEF OpenedOK
  <2>6. <<e.peer, e.key.th>> \in verified
    <3>1. e.key.th = st.th
      BY <1>11 DEF ReceiveKey
    <3>2. st.local = d /\ <<d, st.th>> \in verified
      BY <1>1, Zenon DEF StatesOK
    <3> QED
      BY <1>1, <3>1, <3>2, Zenon
  <2>7. ASSUME NEW x \in Devices, NEW q \in state'[x], e.key = ReceiveKey(q)
        PROVE  q = new
    <3>1. CASE q \in state[x]
      <4>1. /\ q.local = x /\ q.peer # x /\ Ends(q.th, q.peer, x)
            /\ st.local = d /\ st.peer # d /\ Ends(st.th, st.peer, d)
        BY <3>1, ZenonT(20) DEF StatesOK, Ends
      <4>2. q.peer \in Devices /\ st.peer \in Devices /\ st.th \in Transcript
        BY <3>1, StateTypes, Zenon
      <4>3. q.th = st.th /\ directionLabel(q.peer, x) = directionLabel(st.peer, d)
        BY <1>11, <2>7, <4>1 DEF ReceiveKey
      <4>4. x = d
        BY <4>1, <4>2, <4>3, KeyDirection, Zenon
      <4> QED
        BY <1>1, <4>4, Zenon DEF TypeOK
    <3> QED
      BY <1>5, <3>1, Zenon
  <2>8. ASSUME NEW f \in Sent("envelope"), opened'[f.id] > 0
        PROVE  /\ <<f.peer, f.key.th>> \in verified
               /\ \A x \in Devices : \A q \in state'[x] :
                      f.key = ReceiveKey(q) => f.seq \in q.seen
    <3>1. CASE f = e
      BY <1>4, <2>6, <2>7, <3>1, Zenon
    <3>2. CASE f # e
      <4>1. f.id \in 1..MaxSends /\ f.id # e.id
        BY <1>1, <3>2, SentTypes, ZenonT(20) DEF EnvelopesOK, Envelope
      <4>2. opened[f.id] > 0
        BY <2>3, <2>8, <4>1, Zenon
      <4>3. \A x \in Devices : \A q \in state[x] : f.key = ReceiveKey(q) => f.seq \in q.seen
        BY <4>2, ZenonT(20) DEF OpenedOK
      <4> QED
        BY <1>4, <1>5, <4>2, <4>3 DEF OpenedOK
    <3> QED
      BY <3>1, <3>2, Zenon
  <2>9. OpenedOK'
    BY <1>1, <1>3, <2>5, <2>8, Zenon DEF OpenedOK
  <2> QED
    BY <1>6, <1>7, <1>8, <1>9, <2>4, <2>9, Zenon
<1> QED
  BY <1>2, <1>10, <1>11, Zenon

\* A restart forgets the session and its unused hello, nothing else.
LEMMA RestartStep ==
  ASSUME SessionInv, NEW d \in Devices, Restart(d), TypeOK'
  PROVE  SessionInv'
<1> USE DEF SessionInv
<1>1. /\ UNCHANGED <<net, hellos, sends, established, verified, opened>>
      /\ \A x \in Devices : state'[x] \subseteq state[x] /\ local'[x] \subseteq local[x]
  BY Zenon DEF Restart, TypeOK
<1>2. \A t : Sent(t)' = Sent(t)
  BY <1>1, SMTT(30) DEF Sent
<1>3. TranscriptsOK' /\ StatesOK' /\ ReadiesOK' /\ ReadyAgreement'
  BY <1>1, <1>2, SMTT(30) DEF TranscriptsOK, StatesOK, ReadiesOK, ReadyAgreement
<1>4. EnvelopesOK' /\ NonceUnique'
  BY <1>1, <1>2, Zenon DEF EnvelopesOK, NonceUnique
<1>5. OpenedOK' /\ OpenedAtMostOnce'
  BY <1>1, <1>2, Zenon DEF OpenedOK, OpenedAtMostOnce
<1> QED
  BY <1>3, <1>4, <1>5, Zenon
-----------------------------------------------------------------------------
\* Devices without sessions satisfy the invariant.
LEMMA InitInv == Init => SessionInv
<1> SUFFICES ASSUME Init PROVE SessionInv
  BY Zenon
<1>1. Sent("hello") = {} /\ Sent("ready") = {} /\ Sent("envelope") = {}
  BY Zenon DEF Init, Sent
<1>2. TypeOK
  BY SessionConstants DEF Init, TypeOK
<1>3. TranscriptsOK /\ StatesOK /\ ReadiesOK /\ EnvelopesOK /\ OpenedOK
  BY <1>1, Zenon DEF Init, TranscriptsOK, StatesOK, ReadiesOK, EnvelopesOK, OpenedOK
<1>4. ReadyAgreement /\ NonceUnique /\ OpenedAtMostOnce
  BY <1>1 DEF Init, ReadyAgreement, NonceUnique, OpenedAtMostOnce
<1> QED
  BY <1>2, <1>3, <1>4, Zenon DEF SessionInv

\* Every library call and every restart preserves the invariant.
LEMMA InvStep == SessionInv /\ [Next]_vars => SessionInv'
<1> SUFFICES ASSUME SessionInv, [Next]_vars PROVE SessionInv'
  BY Zenon
<1>1. TypeOK'
  BY TypeStep, Zenon DEF SessionInv
<1>2. CASE UNCHANGED vars
  <2>1. UNCHANGED <<local, state, net, hellos, sends, established, verified, opened>>
    BY <1>2, SMTT(30) DEF vars
  <2>2. TranscriptsOK' /\ StatesOK' /\ ReadiesOK' /\ ReadyAgreement'
    BY <2>1, SMTT(30) DEF Sent, SessionInv, TranscriptsOK, StatesOK, ReadiesOK, ReadyAgreement
  <2>3. EnvelopesOK' /\ NonceUnique'
    BY <2>1, Zenon DEF Sent, SessionInv, EnvelopesOK, NonceUnique
  <2>4. OpenedOK' /\ OpenedAtMostOnce'
    BY <2>1, SMTT(30) DEF Sent, SessionInv, OpenedOK, OpenedAtMostOnce
  <2> QED
    BY <1>1, <2>2, <2>3, <2>4, Zenon DEF SessionInv
<1>3. CASE Next
  BY <1>1, <1>3, CreateHelloStep, EstablishStep, CreateReadyStep,
     VerifyReadyStep, EncryptStep, DecryptStep, RestartStep, Zenon DEF Next
<1> QED
  BY <1>2, <1>3, Zenon

(***************************************************************************)
(* The inductive invariant of handshake and envelopes.                     *)
(***************************************************************************)
THEOREM SessionInvariant == Spec => []SessionInv
  BY InitInv, InvStep, PTL DEF Spec

(***************************************************************************)
(* Every value the handshake and the envelope calls store has its type.    *)
(***************************************************************************)
THEOREM TypeCorrect == Spec => []TypeOK
<1>1. SessionInv => TypeOK
  BY Zenon DEF SessionInv
<1> QED
  BY SessionInvariant, <1>1, PTL

(***************************************************************************)
(* A device whose VerifyReady succeeded shares its transcript with the     *)
(* peer, after any number of attempts and restarts.                        *)
(***************************************************************************)
THEOREM ReadySessionsAgree == Spec => []ReadyAgreement
<1>1. SessionInv => ReadyAgreement
  BY Zenon DEF SessionInv
<1> QED
  BY SessionInvariant, <1>1, PTL

(***************************************************************************)
(* NextSend never repeats a nonce under a key that Establish derived.      *)
(***************************************************************************)
THEOREM NoncesAreUnique == Spec => []NonceUnique
<1>1. SessionInv => NonceUnique
  BY Zenon DEF SessionInv
<1> QED
  BY SessionInvariant, <1>1, PTL

(***************************************************************************)
(* MarkReceived lets Decrypt open an envelope at most once.                *)
(***************************************************************************)
THEOREM EnvelopesOpenOnce == Spec => []OpenedAtMostOnce
<1>1. SessionInv => OpenedAtMostOnce
  BY SMTT(30) DEF SessionInv
<1> QED
  BY SessionInvariant, <1>1, PTL

(***************************************************************************)
(* Decrypt delivers only what was sent between two devices that both       *)
(* verified session.ready.                                                 *)
(***************************************************************************)
THEOREM DeliveryIsMutuallyReady == Spec => []DeliveryNeedsBothReady
<1>1. SessionInv => DeliveryNeedsBothReady
  BY Zenon DEF SessionInv, EnvelopesOK, OpenedOK, DeliveryNeedsBothReady
<1> QED
  BY SessionInvariant, <1>1, PTL
=============================================================================
