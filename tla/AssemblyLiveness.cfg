SPECIFICATION FairSpec
CONSTANTS
    Setups <- MCFinalsToCome
    MaxSentenceWords = 3
    OverlapWords = 3
    MinOverlapWords = 2
    StablePartials = 2
    MinFollowing = 1
    DedupeMinContain = 2
    MaxWords = 3
    MaxPartials = 2
CHECK_DEADLOCK FALSE
PROPERTY PooledTextIsFlushed
