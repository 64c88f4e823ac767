SPECIFICATION MCSpec
CONSTANTS
    Instance = {p1, p2, p3}
    Name = {n1, n2}
    Closer = {c1, c2}
    Cancels = TRUE
    NoPlugin = NoPlugin
    NoCloser = NoCloser
    Trigger = {t1, t2}
    Phase = {drain, close}
    Total = 2
    MaxReserve = 3
    MaxTime = 4
CHECK_DEADLOCK FALSE
INVARIANTS OneWinner ClosedOnReturn HooksBeforeClose BudgetIsShared
PROPERTIES ShutdownReturns NoLostWakeup
