\* As TrustRoot.cfg, with tables.  The epoch a replica shows after a restart.
CONSTANTS
    Devices = {d1}
    Replicas = {r1}
    Grants = {g1}
    Keys = {k1, k2, k3}
    MaxId = 2
    Requests = {q1, q2}
    Stores = {"postgres"}
    Limit = 1
SPECIFICATION Spec
SYMMETRY Symmetry
INVARIANT ShownEpochsMonotonic
