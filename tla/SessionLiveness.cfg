SPECIFICATION FairSpec
CONSTANTS
    enVi = enVi
    jaEn = jaEn
    none = none
    Pairs <- MCPairs
    FirstPair = enVi
    NoPair = none
    PairBound <- MCPairBound
    MaxJobs = 3
CHECK_DEADLOCK FALSE
PROPERTIES
    EveryJobSettles
    PreparingIsTransient
