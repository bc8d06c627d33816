SPECIFICATION Spec
CONSTANTS
    Devices = {d1}
    Replicas = {r1, r2}
    Creds = {c1, c2}
    Requests = {q1, q2}
    Profiles = {"production"}
    AccessTTL = 1
    RefreshTTL = 1
    MaxClock = 0
SYMMETRY Symmetry
INVARIANTS
    TypeOK
    CutOffTokensStayDead
    
    CredentialsSurviveRestart
PROPERTY HeldTokensNeverRevive
