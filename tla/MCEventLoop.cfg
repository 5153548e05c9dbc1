\* Both threads have ended when nothing is left to do.
SPECIFICATION FairSpec
INVARIANT LoopLocked
PROPERTIES
    NoTickAfterStop
    Timeslicing
    Ends
CHECK_DEADLOCK FALSE
