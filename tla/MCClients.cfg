SPECIFICATION MCSpec
CONSTANTS
    Caller = {c1, c2}
    LockTtl = 4
    WaitAttempts = 2
    Margin = 2
    MaxIssue = 1
    CacheLatency = 1
    MaxSend = 0
    Expire = 4
    Renew = 3
    MaxTokens = 2
    Faults = {"cache", "lock", "issue", "revoke", "cancel"}
    Request = {r1}
    Second = 2
    MaxAttempts = 3
    BaseBackoff = 1
    MaxBackoff = 3
    MaxRetryAfter = 4
    Timeout = 2
    Advice = {1, 3}
    NoAdvice = NoAdvice
    Task = {t1, t2}
    Host = {h1}
    FailureThreshold = 2
    SuccessThreshold = 2
    Cooldown = 1
    IdleTtl = 1
    MaxHosts = 1
    MaxLag = 0
    MaxRetries = 2
    Backoff = 4
    TotalBudget = 4
    JitterPercent = 25
CHECK_DEADLOCK FALSE
INVARIANTS CachedIsUsable OneRefresher AskedOnce ExecutedOnce WithinWorstCase HitsWithinPolicy
PROPERTIES CallReturns SendReturns Heals
