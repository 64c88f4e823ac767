SPECIFICATION MCSpec
SYMMETRY Symmetric
CONSTANTS
    Subject = {u1}
    Request = {r1, r2}
    AccessTtl = 1
    RefreshTtl = 2
    Revocable <- MCRevocable
    MaxPairs = 3
    MaxTime = 2
    MaxLatency = 1
    Writer = {w1, w2}
    Tenant = {a, b}
    Key = {k1, k2}
    ChunkSize = 1
    MaxStatements = 2
CHECK_DEADLOCK FALSE
INVARIANTS SpentIsRefused ReuseIsReal WritesStayInReach AllOrNothing
PROPERTIES RevocationSticks RotationIsOneShot
