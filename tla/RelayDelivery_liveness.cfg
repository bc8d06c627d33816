SPECIFICATION FairSpec
CONSTANTS
    Messages = {m1, m2}
    Devices = {d1}
    Conns = {c1, c2}
    Submitters = {s1}
    Priorities = {0}
    TTLs = {2}
    LongTTL = 2
    Lease = 1
    ClaimLimit = 2
    MaxAge = 0
    MaxFaults = 2
PROPERTY
    EventuallyDelivered
