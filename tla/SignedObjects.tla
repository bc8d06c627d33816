--------------------------- MODULE SignedObjects ---------------------------
(***************************************************************************)
(* Objects signed with an identity key and the checks of their receivers:  *)
(* pairing tickets, provisioning bundles, proofs of possession, session    *)
(* control frames.  A signature is ideal: it verifies exactly for the key, *)
(* the type and the content it was made for.  A key stands for its key id  *)
(* and thumbprint.                                                         *)
(***************************************************************************)
EXTENDS Integers

CONSTANTS
    Second,                  \* ticks of the clock per second
    ControlFrameMaxTTL,      \* in ticks, whole seconds
    ControlFrameClockSkew

ASSUME ControlConstants ==
    /\ Second \in Nat \ {0} /\ {ControlFrameMaxTTL, ControlFrameClockSkew} \subseteq Nat
    /\ ControlFrameMaxTTL % Second = 0
    /\ ControlFrameClockSkew + Second <= ControlFrameMaxTTL

\* SignatureInput: prefix, type and canonical content, so that a signature
\* for one type is none for another.
SignatureInput(type, body) == <<type, body>>

Signed(key, type, body) == [type |-> type, body |-> body, kid |-> key, sig |-> [key |-> key, over |-> SignatureInput(type, body)]]

Verify(key, type, o) == o.sig = [key |-> key, over |-> SignatureInput(type, o.body)]

\* A copy on the way has another content under the same signature.
Damaged(o, body) == [o EXCEPT !.body = body]

Within(now, body) == body.issued <= now /\ now < body.expires
-----------------------------------------------------------------------------
(* Pairing tickets.                                                        *)

SignTicketV3(issuer, body) == Signed(issuer, "ticket.v3", body)

\* Purpose, role, permissions and lifetime are well formed in every ticket here.
VerifyTicketV3(o, issuer, now) ==
    /\ o.type = "ticket.v3"
    /\ Within(now, o.body)
    /\ Verify(issuer, "ticket.v3", o)

SignTicket(issuer, body) == Signed(issuer, "ticket.v2", body)

VerifyTicket(o, issuer, now) ==
    /\ o.type = "ticket.v2"
    /\ Within(now, o.body)
    /\ Verify(issuer, "ticket.v2", o)

\* Mutant: the consumer is not compared with the audience.
BindGrantRolesAny(body, consumer) == TRUE

\* BindGrantRoles fails when the inviting controller consumes its own ticket.
BindGrantRoles(body, consumer) == consumer.dev # body.audience

CreateProof(id, audience, challenge, now) ==
    Signed(id.key, "proof", [dev |-> id.dev, audience |-> audience, challenge |-> challenge, issued |-> now])

\* The window is module ProofNonce.
VerifyProof(id, o, audience, challenge) ==
    /\ o.type = "proof"
    /\ o.body.dev = id.dev
    /\ o.body.audience = audience /\ o.body.challenge = challenge
    /\ o.kid = id.key
    /\ Verify(id.key, "proof", o)
-----------------------------------------------------------------------------
(* Provisioning bundles.                                                   *)

SignBundle(issuer, body) == Signed(issuer, "bundle", body)

\* Mutant: the thumbprint is not compared.
ApplyBundleAnyKey(ready, local, o, issuer, now) ==
    /\ ready
    /\ Within(now, o.body)
    /\ o.body.dev = local.dev
    /\ Verify(issuer, "bundle", o)

ApplyBundle(ready, local, o, issuer, now) ==
    /\ ready
    /\ Within(now, o.body)
    /\ o.body.dev = local.dev
    /\ o.body.key = local.key
    /\ Verify(issuer, "bundle", o)
-----------------------------------------------------------------------------
(* Session control frames.                                                 *)

Causes == {"runtime_started", "foreground_recovery"}
CloseReasons == {"shutdown", "superseded", "revoked", "error"}

Truncate(t) == t - (t % Second)

FrameBody(from, to, relay, why, now) ==
    [from |-> from, to |-> to, relay |-> relay, why |-> why,
     issued |-> Truncate(now), expires |-> Truncate(now) + ControlFrameMaxTTL]

CreateReopen(from, to, relay, cause, now) == Signed(from, "reopen", FrameBody(from, to, relay, cause, now))
CreateClose(from, to, relay, reason, now) == Signed(from, "close", FrameBody(from, to, relay, reason, now))

\* Mutant: the allowance is on the wrong side.
verifyControlWindowSkewed(body, now) ==
    /\ body.issued + ControlFrameClockSkew <= now /\ now < body.expires
    /\ body.issued <= body.expires /\ body.expires - body.issued <= ControlFrameMaxTTL

verifyControlWindow(body, now) ==
    /\ body.issued <= now + ControlFrameClockSkew /\ now < body.expires
    /\ body.issued <= body.expires /\ body.expires - body.issued <= ControlFrameMaxTTL

\* What both checks compare: sender, addressee, relay, window, key.
FrameFits(o, sender, local, relay, now) ==
    /\ o.body.from = sender /\ o.body.to = local /\ o.body.relay = relay
    /\ verifyControlWindow(o.body, now)
    /\ o.kid = sender

\* Mutant: the signature is checked under the type the frame names.
VerifyReopenUntyped(o, sender, local, relay, now) ==
    /\ FrameFits(o, sender, local, relay, now)
    /\ Verify(sender, o.type, o)

VerifyReopen(o, sender, local, relay, now) ==
    /\ o.type = "reopen" /\ o.body.why \in Causes
    /\ FrameFits(o, sender, local, relay, now)
    /\ Verify(sender, "reopen", o)

VerifyClose(o, sender, local, relay, now) ==
    /\ o.type = "close" /\ o.body.why \in CloseReasons
    /\ FrameFits(o, sender, local, relay, now)
    /\ Verify(sender, "close", o)
=============================================================================
