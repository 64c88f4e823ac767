SPECIFICATION Spec
CONSTANTS
    Target = {t1}
    Request = {r1, r2}
    ChallengeTtl = 1
    ProofTtl = 2
    MaxChallenges = 1
    MaxProofs = 1
    MaxTime = 4
    MaxLatency = 0
CHECK_DEADLOCK FALSE
INVARIANTS ProofIsOneShot
