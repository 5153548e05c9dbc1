\* The machine stops when every process has come to its end.
CONSTANTS
    p1 = p1
    p2 = p2
    p3 = p3
    Proc <- MCProc
    NoProc = NoProc
    FirstProc = p1
    TickWhileDisabled = TRUE
    Permits = 1
SPECIFICATION FairSpec
INVARIANTS
    KernelExclusive
    MutualExclusion
    NoAbort
    NoLostWakeup
PROPERTIES
    StarvationFree
    ImplementsSemaphore
CHECK_DEADLOCK FALSE
