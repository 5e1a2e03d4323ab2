SPECIFICATION Spec
CONSTANTS
    WindowSize = 2
    LookaheadWindows = 1
    CloseAfter = 2
    MaxFrame = 3
    MaxSamples = 10
    MaxStreams = 2
CHECK_DEADLOCK FALSE
INVARIANTS
    SpeechIsNotMuted
    StreamIsCaptioned
