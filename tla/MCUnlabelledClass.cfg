CONSTANTS
    Jobs <- UnlabelledClass
    MAXRHS = 4
    YYSTACKDEPTH = 4
    StackLimit = 5
SPECIFICATION Spec
INVARIANTS
    ValuesAccounted
CHECK_DEADLOCK FALSE
