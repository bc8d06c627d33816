\* Enrollment: one invitation, its inviter and a joining device, two Relay
\* processes, two registrations at a time, a reset and a restart.
\* ControlFrames: two ticks to the second, clocks up to a second and a half
\* apart, frames valid for three.  RateLimit: two requests at a time, three
\* windows.
CONSTANTS
    Joiners = {d1}
    Inviter = c
    Replicas = {r1, r2}
    Registrations = {q1, q2}
    MaxUses = 2
    TTL = 1
    MaxKeys = 2
    MaxRestarts = 1
    MaxClock = 1
    Second = 2
    ControlFrameMaxTTL = 6
    ControlFrameClockSkew = 2
    Peers = {p1, p2}
    PeerRelays = {v1, v2}
    MaxOffset = 3
    MaxTime = 8
    Callers = {x1, x2}
    RateLimit = 2
    Window = 2
    MaxNow = 6
SPECIFICATION Spec
SYMMETRY Symmetry
INVARIANTS EnrollTypeOK  InvitationHonoured BundlesReachTheirKey FramesAuthentic FreshFramesAccepted RateBounded
