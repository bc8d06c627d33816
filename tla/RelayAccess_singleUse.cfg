SPECIFICATION Spec
CONSTANTS
    Devices = {d1}
    Replicas = {r1}
    Creds = {c1, c2, c3}
    Requests = {q1, q2}
    Profiles = {"local-lab", "production"}
    AccessTTL = 1
    RefreshTTL = 1
    MaxClock = 0
SYMMETRY Symmetry
INVARIANT RefreshSingleUse
