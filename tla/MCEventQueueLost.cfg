\* An event may arrive between EventQueue>>wait's last look and its sleep.
CONSTANTS
    p1 = p1
    p2 = p2
    p3 = p3
    Proc <- MCProc
    NoProc = NoProc
    EvQ = EvQ
    FirstProc = p1
    EvProc = p2
    TickWhileDisabled = FALSE
    Permits = 1
    MaxCount = 2
SPECIFICATION EvSpec
INVARIANT AwakeWhenReady
CHECK_DEADLOCK FALSE
