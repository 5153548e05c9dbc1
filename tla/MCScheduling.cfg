\* The machine stops when no process is runnable or an assertion fails.
CONSTANTS
    p1 = p1
    p2 = p2
    p3 = p3
    Proc <- MCProc
    NoProc = NoProc
    FirstProc = p1
    TickWhileDisabled = TRUE
SPECIFICATION FairSchedSpec
INVARIANTS
    SchedTypeOK
    StoredOnlyWhileDisabled
PROPERTIES
    OnePlaceKept
    PendingUntilSwitch
    RoundRobin
    FirstComeFirstServed
CHECK_DEADLOCK FALSE
