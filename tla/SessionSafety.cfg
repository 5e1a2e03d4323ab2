SPECIFICATION Spec
CONSTANTS
    enVi = enVi
    jaEn = jaEn
    none = none
    Pairs <- MCPairs
    FirstPair = enVi
    NoPair = none
    PairBound <- MCPairBound
    MaxJobs = 4
CHECK_DEADLOCK FALSE
INVARIANTS
    TypeOK
    OneLiveJobOfEachKind
    OverlapNeedsASkippedPreparation
    CaptionsNeedThePreparedPair
    NoPreparationUnderALivePipeline
PROPERTIES
    NothingStartsAfterClose
