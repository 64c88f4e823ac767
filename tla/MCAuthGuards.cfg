SPECIFICATION MCSpec
CONSTANTS
    Host = {h1, h2, h3}
    FailureThreshold = 2
    SuccessThreshold = 2
    Cooldown = 2
    IdleTtl = 3
    MaxHosts = 2
    MaxLag = 1
    Request = {r1, r2}
    Ip = {ip1}
    Identity = {alice, bob}
    IpAttempts = 2
    UsernameAttempts = 1
    Window = 1
    Unit = 3
    IpLimit = 2
    EmailLimit = 2
    GlobalLimit = 3
    EmailCooldown = 1
    Ttl = 2
    MaxAttempts = 2
    MaxCodes = 2
    Target = {t1}
    ChallengeTtl = 1
    ProofTtl = 2
    MaxChallenges = 2
    MaxProofs = 2
    MaxTime = 4
    Code = {c1, c2}
    WindowSeconds = 2
    Tolerance = 1
    TotpMaxTime = 9
    MaxLatency = 1
SYMMETRY Symmetric
CHECK_DEADLOCK FALSE
INVARIANTS WindowsAreFixed GuessesAreCounted StepUsedOnce
PROPERTIES CodesAreOneShot ProofUsedOnce NoEarlyForget
