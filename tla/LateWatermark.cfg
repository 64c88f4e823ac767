SPECIFICATION Spec
CONSTANTS
    Subject = {u1}
    Request = {r1, r2}
    AccessTtl = 1
    RefreshTtl = 2
    Revocable = {}
    MaxPairs = 2
    MaxTime = 2
    MaxLatency = 1
CHECK_DEADLOCK FALSE
PROPERTIES RevocationIsFinal
