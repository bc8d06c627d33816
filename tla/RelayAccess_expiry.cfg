SPECIFICATION Spec
CONSTANTS
    Devices = {d1}
    Replicas = {r1}
    Creds = {c1, c2}
    Requests = {q1, q2}
    Profiles = {"local-lab", "production"}
    AccessTTL = 1
    RefreshTTL = 1
    MaxClock = 2
SYMMETRY Symmetry
INVARIANT CutOffTokensStayDead
