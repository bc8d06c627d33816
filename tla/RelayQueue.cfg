SPECIFICATION Spec
CONSTANTS
    Devices = {d1, d2}
    Conns = {c1, c2}
    Sizes = {1, 2}
    Priorities = {0, 1}
    TTLs = {1}
    MaxBytes = 3
    Limit = 1
    MaxAccepted = 3
    MaxClock = 2
SYMMETRY Symmetry
INVARIANTS
    TypeOK
    QuotaRespected
    KeptUntilTakenOrExpired
    TakenOnce
