\* As the code is: the timer raises the flag even while interrupts are disabled.
CONSTANTS
    p1 = p1
    p2 = p2
    p3 = p3
    Proc <- MCProc
    NoProc = NoProc
    FirstProc = p1
    TickWhileDisabled = TRUE
    Permits = 1
SPECIFICATION Spec
INVARIANT OneInKernel
CHECK_DEADLOCK FALSE
