--------------------------- MODULE ControlFrames ---------------------------
(***************************************************************************)
(* Reopen and close frames between devices whose clocks differ.  A frame   *)
(* may arrive late, damaged, more than once, at a device it is not for,    *)
(* and at the handler of the other type.                                   *)
(***************************************************************************)
EXTENDS SignedObjects

CONSTANTS
    Peers,                   \* devices
    PeerRelays,              \* relays a device may be pinned to
    MaxOffset,               \* bound: how far a clock is off, in ticks
    MaxTime                  \* bound: time

ASSUME FrameBounds == {MaxOffset, MaxTime} \subseteq Nat

VARIABLES
    time,
    offset,       \* of each device's clock
    pinned,       \* the relay each device is pinned to
    frame,        \* the last frame created, with the time of its creation
    taken         \* the last frame accepted, by whom, as what and when

controlVars == <<time, offset, pinned, frame, taken>>
-----------------------------------------------------------------------------
Reading(p) == time + offset[p]

ControlInit ==
    /\ time = 0
    /\ offset \in [Peers -> 0 .. MaxOffset]
    /\ pinned \in [Peers -> PeerRelays]
    /\ frame = {} /\ taken = {}

\* CreateReopen and CreateClose refuse any other cause or reason.
SendReopen(p, q, cause) ==
    /\ p # q /\ taken = {}
    /\ frame' = {[o |-> CreateReopen(p, q, pinned[p], cause, Reading(p)), at |-> time]}
    /\ UNCHANGED <<time, offset, pinned, taken>>

SendClose(p, q, reason) ==
    /\ p # q /\ taken = {}
    /\ frame' = {[o |-> CreateClose(p, q, pinned[p], reason, Reading(p)), at |-> time]}
    /\ UNCHANGED <<time, offset, pinned, taken>>

\* What may arrive of a frame: itself, or a copy with one field changed.
Copies(o) ==
    {o} \cup {Damaged(o, [o.body EXCEPT !.to = p]) : p \in Peers}
        \cup {Damaged(o, [o.body EXCEPT !.from = p]) : p \in Peers}
        \cup {Damaged(o, [o.body EXCEPT !.relay = r]) : r \in PeerRelays}
        \cup {Damaged(o, [o.body EXCEPT !.why = w]) : w \in {"runtime_started", "shutdown"}}
        \cup {Damaged(o, [o.body EXCEPT !.expires = @ + Second])}

\* The receiver takes the sender from its directory, by the frame's device id.
ReceiveReopen(p) ==
    \E f \in frame : \E o \in Copies(f.o) :
       /\ VerifyReopen(o, o.body.from, p, pinned[p], Reading(p))
       /\ taken' = {[by |-> p, as |-> "reopen", body |-> o.body]}
       /\ UNCHANGED <<time, offset, pinned, frame>>

ReceiveClose(p) ==
    \E f \in frame : \E o \in Copies(f.o) :
       /\ VerifyClose(o, o.body.from, p, pinned[p], Reading(p))
       /\ taken' = {[by |-> p, as |-> "close", body |-> o.body]}
       /\ UNCHANGED <<time, offset, pinned, frame>>

\* The receiver is done with the frame.
FrameHandled == taken # {} /\ taken' = {} /\ UNCHANGED <<time, offset, pinned, frame>>

TimePasses ==
    /\ time < MaxTime /\ taken = {}
    /\ time' = time + 1
    /\ UNCHANGED <<offset, pinned, frame, taken>>

ControlNext ==
    \/ \E p, q \in Peers : \/ \E w \in Causes : SendReopen(p, q, w)
                           \/ \E w \in CloseReasons : SendClose(p, q, w)
    \/ \E p \in Peers : ReceiveReopen(p) \/ ReceiveClose(p)
    \/ FrameHandled \/ TimePasses

ControlSpec == ControlInit /\ [][ControlNext]_controlVars
-----------------------------------------------------------------------------
\* A frame is acted upon only as what it was created for: its sender made it,
\* with this content and of this type, for the device that accepts it, less
\* than ControlFrameMaxTTL and the difference of their clocks ago
\* (VerifyReopen and VerifyClose against delay, damage and misdelivery).
FramesAuthentic ==
    \A t \in taken : \E f \in frame :
       /\ f.o.type = t.as /\ f.o.body = t.body /\ t.body.to = t.by
       /\ time - f.at < ControlFrameMaxTTL + offset[t.body.from] - offset[t.by]

\* A frame that arrives at once at its addressee, pinned to the same relay, is
\* accepted when the clocks differ by no more than ControlFrameClockSkew,
\* although its times are truncated to whole seconds (verifyControlWindow).
FreshFramesAccepted ==
    \A f \in frame :
       LET to == f.o.body.to  from == f.o.body.from
       IN /\ f.at = time /\ pinned[to] = pinned[from]
          /\ offset[from] - offset[to] <= ControlFrameClockSkew
          /\ offset[to] - offset[from] <= ControlFrameClockSkew
          => \/ VerifyReopen(f.o, from, to, pinned[to], Reading(to))
             \/ VerifyClose(f.o, from, to, pinned[to], Reading(to))
=============================================================================
