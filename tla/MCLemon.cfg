CONSTANTS
    Jobs <- AllJobs
    MAXRHS = 4
    YYSTACKDEPTH = 4
    StackLimit = 5
SPECIFICATION Spec
INVARIANTS
    ReadsExactly
    LookaheadsExact
    AssertsHold
    ParsesExactly
    ValuesAccounted
PROPERTIES
    RecoveryEnds
CHECK_DEADLOCK FALSE
