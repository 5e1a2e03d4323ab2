SPECIFICATION Spec
CONSTANTS
    Setups <- MCSetups
    MaxSentenceWords = 3
    OverlapWords = 3
    MinOverlapWords = 2
    StablePartials = 2
    MinFollowing = 1
    DedupeMinContain = 2
    MaxWords = 4
    MaxPartials = 3
CHECK_DEADLOCK FALSE
INVARIANTS
    NoWordIsLost
    EachWordIsCaptionedOnce
    CaptionsFollowTheSpeech
