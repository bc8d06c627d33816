\* One device, one grant, two requests at a time; the replica restarts and
\* rotates its key as often as it likes, two revocations are made.
CONSTANTS
    Devices = {d1}
    Replicas = {r1}
    Grants = {g1}
    Keys = {k1, k2, k3}
    MaxId = 2
    Requests = {q1, q2}
    Stores = {"memory", "postgres"}
    Limit = 1
SPECIFICATION Spec
SYMMETRY Symmetry
INVARIANTS TypeOK GrantsDieWithDevice  FeedFaithful WalkComplete RotationKeepsGrants
PROPERTY RevocationsAreKept
