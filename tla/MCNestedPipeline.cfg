SPECIFICATION AllSpec
CONSTANTS
    Absent = Absent
    Keys <- MCKeys
    Values <- MCValues
    ValuesOf <- MCValuesOf
    Capacity = 4
    Txns = {}
    Sources = {}
    MaxRunningLeaves = 1
    RegexCapacity = 1
    PatternOf <- MCPatternOf
    MaxStateBytes = 10
    Scenarios <- NestedScenarios
    Texts <- MCTexts
    RetainerCapacity = 2
    OrchTrees = {}
    Profiles = {}
    MaxDepth = 3
    MaxIterations = 50
    MaxChildren = 4
    Limits = {}
INVARIANT StageReadsItsInput
