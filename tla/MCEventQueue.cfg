\* The machine stops when an assertion fails or no process is left to run.
CONSTANTS
    p1 = p1
    p2 = p2
    p3 = p3
    Proc <- MCProc
    NoProc = NoProc
    EvQ = EvQ
    FirstProc = p1
    EvProc = p2
    TickWhileDisabled = TRUE
    Permits = 1
    MaxCount = 2
SPECIFICATION FairEvSpec
INVARIANTS
    EvKernelExclusive
    WaitersMatchCount
    SleepersInReach
PROPERTY EventWakes
CHECK_DEADLOCK FALSE
