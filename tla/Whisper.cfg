SPECIFICATION Spec
CONSTANTS
    en = en
    auto = auto
    Preps <- MCPreps
    Detecting <- MCAuto
    None = None
    PreRoll = 1
    FramesToOpen = 2
    Hang = 2
    MinSegment = 2
    MaxSegment = 4
    Overlap = 2
    MinPartial = 3
    Step = 1
    PinFrames = 3
    MaxFrames = 7
    MaxStreams = 2
CHECK_DEADLOCK FALSE
INVARIANTS
    ContextsOutliveTheirUse
    NothingCrossesASwitch
    NoSpeechIsLost
    UtterancesEnd
