SPECIFICATION Spec
CONSTANTS
    Proofs = {p1, p2}
    Handlers = {h1, h2}
    TTL = 2
    MaxClock = 5
SYMMETRY Symmetry
INVARIANTS
    TypeOK
    AcceptedOnceWhileValid
