\* The process ends, or the machine stops at the limit of the stack.
CONSTANTS
    StackSize = 14
    Sizes <- MCSizes
SPECIFICATION Spec
INVARIANTS
    ContextsApart
    ScanReachesRunning
    WalkEndsAtNil
PROPERTY ImplementsCallStack
CHECK_DEADLOCK FALSE
