SPECIFICATION FairSpec
CONSTANTS
    collector = collector
    flush = flush
    Callers <- MCCallers
    Collector = collector
    Setups <- MCSetups
    MergeMaxWords = 3
    MaxSentences = 2
    MaxWords = 1
CHECK_DEADLOCK FALSE
PROPERTIES
    EveryFinalIsCaptioned
    CaptionLogSpec
