SPECIFICATION Spec
CONSTANTS
    Messages = {m1, m2}
    Devices = {d1}
    Conns = {c1, c2}
    Submitters = {s1}
    Priorities = {0}
    TTLs = {1, 2}
    LongTTL = 2
    Lease = 2
    ClaimLimit = 1
    MaxAge = 1
    MaxFaults = 1
SYMMETRY Symmetry
INVARIANTS
    TypeOK
    LeaseExclusive
    ReceiptTruthful
PROPERTY
    ImplementsContract
