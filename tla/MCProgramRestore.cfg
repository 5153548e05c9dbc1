SPECIFICATION Spec
CONSTANTS
    WordBits = 8
    TagBits = 3
    GlobalBuckets = 3
    MethodBuckets = 2
    SpaceBuckets = 2
    HashCode <- MCHashCode
    Trees <- MCRestoreTrees
    Library <- MCLibrary
INVARIANTS
    ParentsDataMutated
CHECK_DEADLOCK FALSE
