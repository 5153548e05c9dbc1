\* A collection while the heap variables of a new context are allocated.
CONSTANTS
    StackSize = 13
    Sizes <- MCSizes
SPECIFICATION Spec
INVARIANT NothingStaleScanned
CHECK_DEADLOCK FALSE
