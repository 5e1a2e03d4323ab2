SPECIFICATION HandoverFairSpec
CONSTANT MaxPreps = 3
CHECK_DEADLOCK FALSE

    
PROPERTIES
    PreparationsAnswer
