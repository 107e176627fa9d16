CONSTANTS
    anId = anId
    ConnsMade = 3
    MaxConnections = 2
    AuthEnabled = TRUE
    Ids <- MCIds
    Enabled = {"audio", "llm"}
    RequestLimit = 1
    RequestWindow = 2
    MessageLimit = 1
    MessageWindow = 1
    RequestCap = 2
    MessageCap = 2
    MaxClock = 1
    MaxMessages = 2
SPECIFICATION FairSpec
INVARIANTS PlacesBounded BooksBalance RatesBounded
PROPERTIES HandlerEnds PlaceIsFreed
CHECK_DEADLOCK FALSE
