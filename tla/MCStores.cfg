CONSTANTS
    k1 = k1
    k2 = k2
    k3 = k3
    v1 = v1
    v2 = v2
    Count = 2
    Graphs <- MCGraphs
    OutputKeys = {o1}
    MaxOutputs = 1
    MaxRevision = 3
    Groups = {t1, t2}
    Keys = {k1, k2, k3}
    Values = {v1, v2}
    ValuesOf <- MCValuesOf
    Absent = Absent
    Capacity = 2
    Txns = {t1, t2}
    Sources <- MCSources
CHECK_DEADLOCK FALSE
SYMMETRY MCSymmetry
SPECIFICATION StoresSpec
INVARIANTS
    RegistryInv
    StoreInv
PROPERTIES
    NoLostOutput
    PublishesWhole
