SPECIFICATION DecisionSpec
CONSTANTS
    MaxCandidates = 3
    MaxSize = 2
    MaxAge = 2
    CardSize = 6
    CardSizes <- MCCardSizes
    Coresidents = {0, 25}
    Headrooms = {0, 10}
INVARIANTS
    LoopTakesTheOldest
    FitsIffNotOversubscribing
    VictimsMakeRoom
    WhisperFits
CHECK_DEADLOCK FALSE
