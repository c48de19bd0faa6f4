CONSTANTS
    Count = 2
    Graphs <- MCSmallGraphs
    MaxActive = 2
    MaxCapacity = 2
    OutputKeys = {x}
    MaxOutputs = 1
    MaxRevision = 2
    Groups = {}
    k1 = k1
    v1 = v1
    Keys = {k1}
    Values = {v1}
    ValuesOf <- MCValuesOf
    Absent = Absent
    Capacity = 1
    Txns <- MCSmallTxns
    Sources = {}
    Cohorts = {c1, c2}
    QueueCapacity = 1
    MaxLeases = 1
    MayRunOutOfMemory = TRUE
SPECIFICATION CohortSpec
INVARIANTS
    NoHalfSettledCohort
