CONSTANTS
    Count = 3
    Graphs <- MCGraphs
    MaxActive = 1
    MaxCapacity = 1
    OutputKeys = {"shell_output", "shell_exit_code", "stdout", "x", "y"}
    MaxOutputs = 3
    MaxRevision = 4
    Groups = {}
    Keys = {"shell_output", "shell_exit_code", "stdout", "x", "y"}
    Values <- MCValues
    ValuesOf <- MCValuesOf
    Absent = Absent
    Capacity = 3
    Txns = {}
    Sources = {}
    Names = {"a", "b", "c", "z"}
    Dynamic = "dyn"
    MaxEdges = 4
    Workflows <- RunWorkflows
    ResourcesMayFail = FALSE
SPECIFICATION RuntimeSpec
CHECK_DEADLOCK FALSE
INVARIANT
    OutputsAreOwn
