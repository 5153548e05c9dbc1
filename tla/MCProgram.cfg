SPECIFICATION Spec
CONSTANTS
    WordBits = 8
    TagBits = 3
    GlobalBuckets = 3
    MethodBuckets = 2
    SpaceBuckets = 2
    HashCode <- MCHashCode
    Trees <- MCTrees
    Library <- MCLibrary
INVARIANTS
    ResultRight
    NoAbort
    CodeWellFormed
    ResumesAtInstructions
    CachesCoherent
    LookupRight
PROPERTIES
    Terminates
CHECK_DEADLOCK FALSE
