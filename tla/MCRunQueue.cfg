\* After a failed assertion the machine has stopped.
CONSTANTS
    p1 = p1
    p2 = p2
    p3 = p3
    p4 = p4
    Proc <- MCProc
    NoProc = NoProc
SPECIFICATION Spec
INVARIANTS
    WalkTerminates
    OutsideUnlinked
PROPERTY ImplementsFifo
CHECK_DEADLOCK FALSE
