CONSTANTS
    Count = 4
    Graphs <- MCGraphs
    MaxActive = 2
    MaxCapacity = 3
    MaxInstance = 4
    StartupBudget = 1
    StopBudget = 2
    ServiceBudget = 3
    MaxOutput = 1
    InputSize = 0
    InputChunk = 1
    ReadSize = 1
    MaxWritten <- MCNothingWritten
    Modes <- MCModes
    Ending = {"EXITED", "TERMINATED"}
    LibraryMayFail = FALSE
CHECK_DEADLOCK FALSE
SPECIFICATION ProgressSpec
INVARIANTS
    DagSafe
    ControlInv
    ServiceInv
PROPERTIES
    EventuallyQuiescent
    ImplementsScheduler
    CallReturns
    ClosedCohortSettles
    WorkerReturns
