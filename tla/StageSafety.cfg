SPECIFICATION Spec
CONSTANTS
    collector = collector
    flush = flush
    Callers <- MCCollectorOnly
    Collector = collector
    Setups <- MCSetups
    MergeMaxWords = 3
    MaxSentences = 2
    MaxWords = 2
CHECK_DEADLOCK FALSE
INVARIANTS
    CaptionsCoverTheFinals
    FinalTranslatesItsSentence
    CurrentTranslationIsCurrent
    NoSegmentLeaks
PROPERTIES
    PartialsNeverGoBack
