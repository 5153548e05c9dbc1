SPECIFICATION Spec
CONSTANTS
    Programs <- MCPrograms
    WordBits = 8
    TagBits = 3
INVARIANTS
    TestsAgree
    SubtypeRight
    ReplyTypeRight
    IvarTypesRight
    TypesSound
CHECK_DEADLOCK FALSE
