-------------------------------- MODULE Session --------------------------------
(***************************************************************************)
(* Session handshake and secure envelopes (pkg/iscp/session,               *)
(* pkg/iscp/envelope) between devices over a transport that loses, delays, *)
(* duplicates, reorders and damages messages and survives their restarts.  *)
(* Each action is one call of the library, made by the application when it *)
(* likes; a failed call changes nothing unless an action says so.          *)
(*                                                                         *)
(* Cryptography is ideal: a signature or MAC verifies only on the object   *)
(* it was made for, distinct inputs give distinct keys, and Open succeeds  *)
(* only under the key, nonce and AAD of Seal.  All devices are in one      *)
(* domain and know each other's identities.  The application uses each     *)
(* LocalHello for one Establish.                                           *)
(***************************************************************************)
EXTENDS Integers, FiniteSets

CONSTANTS
    Devices,      \* device ids, as numbers: the code compares them
    SessionIDs,   \* session ids the application chooses
    MaxHellos,    \* bound: ephemeral keys generated
    MaxSends      \* bound: envelopes encrypted

ASSUME SessionConstants ==
    /\ Devices \subseteq Nat
    /\ MaxHellos \in Nat
    /\ MaxSends \in Nat

VARIABLES
    local,        \* the LocalHello a device holds and has not used yet
    state,        \* *session.State of a device
    net,          \* messages put on the transport
    hellos,       \* number of ephemeral keys generated so far
    sends,        \* number of envelopes encrypted so far
    established,  \* history: <<d, th>>, d ran Establish with transcript th
    verified,     \* history: <<d, th>>, d's VerifyReady succeeded for th
    opened        \* history: how often each envelope was decrypted

vars == <<local, state, net, hellos, sends, established, verified, opened>>
-----------------------------------------------------------------------------
(* The objects.  A hello is identified by its ephemeral key; signature and   *)
(* grant id are part of it.                                                  *)

Hello == [type : {"hello"}, dev : Devices, peer : Devices, sid : SessionIDs,
          eph : 1..MaxHellos]

Transcript == Hello \X Hello

Key == [th : Transcript, label : {"low-to-high", "high-to-low"}]

Ready == [type : {"ready"}, dev : Devices, sid : SessionIDs, th : Transcript]

Envelope == [type : {"envelope"}, dev : Devices, peer : Devices,
             sid : SessionIDs, seq : 0..MaxSends, key : Key, id : 1..MaxSends]

State == [sid : SessionIDs, local : Devices, peer : Devices, th : Transcript,
          ready : {"no", "yes"}, sendSeq : 0..MaxSends, seen : SUBSET (0..MaxSends)]

Sent(type) == {x \in net : x.type = type}

\* The sort by device id makes both sides hash the same document.
TranscriptHash(a, b) == IF a.dev < b.dev THEN <<a, b>> ELSE <<b, a>>

\* Mutant: both directions use one label.
OneLabel(from, to) == "low-to-high"

directionLabel(from, to) == IF from < to THEN "low-to-high" ELSE "high-to-low"

SendKey(st) == [th |-> st.th, label |-> directionLabel(st.local, st.peer)]
ReceiveKey(st) == [th |-> st.th, label |-> directionLabel(st.peer, st.local)]

Init ==
    /\ local = [d \in Devices |-> {}]
    /\ state = [d \in Devices |-> {}]
    /\ net = {}
    /\ hellos = 0
    /\ sends = 0
    /\ established = {}
    /\ verified = {}
    /\ opened = [n \in 1..MaxSends |-> 0]
-----------------------------------------------------------------------------
CreateHello(d, p, s) ==
    LET h == [type |-> "hello", dev |-> d, peer |-> p, sid |-> s,
              eph |-> hellos + 1] IN
    /\ hellos < MaxHellos
    /\ d # p
    /\ hellos' = hellos + 1
    /\ local' = [local EXCEPT ![d] = {h}]
    /\ net' = net \cup {h}
    /\ UNCHANGED <<state, sends, established, verified, opened>>

\* The checks of Establish and of VerifyHello on the remote hello.
Matches(l, r) ==
    /\ l.sid = r.sid
    /\ l.peer = r.dev
    /\ r.peer = l.dev

\* Mutant: sequence numbers start at 1.
EstablishFromOne(d, l, r) ==
    LET th == TranscriptHash(l, r) IN
    /\ l \in local[d]
    /\ r \in Sent("hello")
    /\ Matches(l, r)
    /\ state' = [state EXCEPT ![d] =
                    {[sid |-> l.sid, local |-> d, peer |-> r.dev, th |-> th,
                      ready |-> "no", sendSeq |-> 1, seen |-> {}]}]
    /\ local' = [local EXCEPT ![d] = {}]
    /\ established' = established \cup {<<d, th>>}
    /\ UNCHANGED <<net, hellos, sends, verified, opened>>

Establish(d, l, r) ==
    LET th == TranscriptHash(l, r) IN
    /\ l \in local[d]
    /\ r \in Sent("hello")
    /\ Matches(l, r)
    /\ state' = [state EXCEPT ![d] =
                    {[sid |-> l.sid, local |-> d, peer |-> r.dev, th |-> th,
                      ready |-> "no", sendSeq |-> 0, seen |-> {}]}]
    /\ local' = [local EXCEPT ![d] = {}]
    /\ established' = established \cup {<<d, th>>}
    /\ UNCHANGED <<net, hellos, sends, verified, opened>>

CreateReady(d, st) ==
    /\ st \in state[d]
    /\ net' = net \cup {[type |-> "ready", dev |-> d, sid |-> st.sid, th |-> st.th]}
    /\ UNCHANGED <<local, state, hellos, sends, established, verified, opened>>

\* Mutant: the transcript hash is not compared.
VerifyReadyAnyTranscript(d, st, r) ==
    /\ st \in state[d]
    /\ r \in Sent("ready")
    /\ r.sid = st.sid
    /\ r.dev = st.peer
    /\ state' = [state EXCEPT ![d] = {[st EXCEPT !.ready = "yes"]}]
    /\ verified' = verified \cup {<<d, st.th>>}
    /\ UNCHANGED <<local, net, hellos, sends, established, opened>>

VerifyReady(d, st, r) ==
    /\ st \in state[d]
    /\ r \in Sent("ready")
    /\ r.sid = st.sid
    /\ r.dev = st.peer
    /\ r.th = st.th
    /\ state' = [state EXCEPT ![d] = {[st EXCEPT !.ready = "yes"]}]
    /\ verified' = verified \cup {<<d, st.th>>}
    /\ UNCHANGED <<local, net, hellos, sends, established, opened>>

\* Mutant: Encrypt does not ask whether the session is ready.
EncryptUnready(d, st) ==
    /\ sends < MaxSends
    /\ st \in state[d]
    /\ sends' = sends + 1
    /\ state' = [state EXCEPT ![d] = {[st EXCEPT !.sendSeq = @ + 1]}]
    /\ net' = net \cup {[type |-> "envelope", dev |-> d, peer |-> st.peer,
                         sid |-> st.sid, seq |-> st.sendSeq,
                         key |-> SendKey(st), id |-> sends + 1]}
    /\ UNCHANGED <<local, hellos, established, verified, opened>>

\* Encrypt, with NextSend.
Encrypt(d, st) ==
    /\ sends < MaxSends
    /\ st \in state[d]
    /\ st.ready = "yes"
    /\ sends' = sends + 1
    /\ state' = [state EXCEPT ![d] = {[st EXCEPT !.sendSeq = @ + 1]}]
    /\ net' = net \cup {[type |-> "envelope", dev |-> d, peer |-> st.peer,
                         sid |-> st.sid, seq |-> st.sendSeq,
                         key |-> SendKey(st), id |-> sends + 1]}
    /\ UNCHANGED <<local, hellos, established, verified, opened>>

\* Mutant: MarkReceived does not reject a sequence it has seen.
DecryptSeen(d, st, e, damaged) ==
    /\ st \in state[d]
    /\ e \in Sent("envelope")
    /\ st.ready = "yes"
    /\ e.sid = st.sid
    /\ e.dev = st.peer
    /\ e.peer = st.local
    /\ state' = [state EXCEPT ![d] = {[st EXCEPT !.seen = @ \cup {e.seq}]}]
    /\ opened' = IF e.key = ReceiveKey(st) /\ ~damaged
                 THEN [opened EXCEPT ![e.id] = @ + 1] ELSE opened
    /\ UNCHANGED <<local, net, hellos, sends, established, verified>>

\* Decrypt, with MarkReceived.  The sequence is marked before Open, which
\* fails on an envelope damaged on the way or sealed in another session.
Decrypt(d, st, e, damaged) ==
    /\ st \in state[d]
    /\ e \in Sent("envelope")
    /\ st.ready = "yes"
    /\ e.sid = st.sid
    /\ e.dev = st.peer
    /\ e.peer = st.local
    /\ e.seq \notin st.seen
    /\ state' = [state EXCEPT ![d] = {[st EXCEPT !.seen = @ \cup {e.seq}]}]
    /\ opened' = IF e.key = ReceiveKey(st) /\ ~damaged
                 THEN [opened EXCEPT ![e.id] = @ + 1] ELSE opened
    /\ UNCHANGED <<local, net, hellos, sends, established, verified>>

\* A process restart: nothing of a session is persisted.
Restart(d) ==
    /\ local' = [local EXCEPT ![d] = {}]
    /\ state' = [state EXCEPT ![d] = {}]
    /\ UNCHANGED <<net, hellos, sends, established, verified, opened>>
-----------------------------------------------------------------------------
Next ==
    \/ \E d, p \in Devices, s \in SessionIDs : CreateHello(d, p, s)
    \/ \E d \in Devices : \E l \in local[d], r \in net : Establish(d, l, r)
    \/ \E d \in Devices : \E st \in state[d] :
          \/ CreateReady(d, st)
          \/ \E r \in net : VerifyReady(d, st, r)
          \/ Encrypt(d, st)
          \/ \E e \in net, damaged \in BOOLEAN : Decrypt(d, st, e, damaged)
    \/ \E d \in Devices : Restart(d)

Spec == Init /\ [][Next]_vars
-----------------------------------------------------------------------------
\* Session states, messages and counters keep their types; sequence numbers
\* never pass the number of envelopes sent (Establish, Encrypt).
TypeOK ==
    /\ local \in [Devices -> SUBSET Hello]
    /\ state \in [Devices -> SUBSET State]
    /\ net \subseteq Hello \cup Ready \cup Envelope
    /\ hellos \in 0..MaxHellos
    /\ sends \in 0..MaxSends
    /\ established \subseteq Devices \X Transcript
    /\ verified \subseteq Devices \X Transcript
    /\ opened \in [1..MaxSends -> Nat]

(***************************************************************************)
(* A session that is ready was established by the peer too, over the same  *)
(* transcript and hence with the same keys, however many attempts,         *)
(* restarts and stale hellos came before.                                  *)
(***************************************************************************)
ReadyAgreement ==
    \A d \in Devices : \A st \in state[d] :
        st.ready = "yes" => <<st.peer, st.th>> \in established

(***************************************************************************)
(* "Business payload delivery is forbidden until both parties verify       *)
(* session.ready": whatever Decrypt opened travelled in a session that     *)
(* sender and receiver had both verified.                                  *)
(***************************************************************************)
DeliveryNeedsBothReady ==
    \A e \in Sent("envelope") :
        opened[e.id] > 0 =>
            <<e.dev, e.key.th>> \in verified /\ <<e.peer, e.key.th>> \in verified

(***************************************************************************)
(* "AEAD nonces MUST NOT repeat for the same direction and key": no two    *)
(* envelopes are sealed under one key with one sequence number.            *)
(***************************************************************************)
NonceUnique ==
    \A e, f \in Sent("envelope") : e.key = f.key /\ e.seq = f.seq => e = f

(***************************************************************************)
(* An envelope is opened at most once, over all sessions and restarts of   *)
(* its recipient and however often the transport repeats it.               *)
(***************************************************************************)
OpenedAtMostOnce == \A n \in 1..MaxSends : opened[n] <= 1
=============================================================================
