SPECIFICATION AllSpec
CONSTANTS
    Absent = Absent
    Keys <- MCKeys
    Values <- MCValues
    ValuesOf <- MCValuesOf
    Capacity = 8
    Txns = {}
    Sources = {}
    MaxRunningLeaves = 1
    RegexCapacity = 1
    PatternOf <- MCPatternOf
    MaxStateBytes = 7
    Scenarios <- MCScenarios
    Texts <- MCTexts
    RetainerCapacity = 2
    OrchTrees <- MCOrchTrees
    Profiles <- MCProfiles
    MaxDepth = 3
    MaxIterations = 50
    MaxChildren = 4
    Limits <- MCLimits
INVARIANTS
    SessionInv
    ActivationsBalanced
    LeasesAccounted
    StageReadsItsInput
    QueueExact
    PlanExact
