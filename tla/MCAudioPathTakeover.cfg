SPECIFICATION FairSpec
CONSTANTS
    MaxSetups = 2
    Ports = {"audio"}
    Lengths <- TwoStreams
    Window = 1
    Room = 2
    Takeover = TRUE
    DecodeErrors = FALSE
    NoReader = NoReader
CHECK_DEADLOCK FALSE
PROPERTIES CallbackFirst RequestsAnswered ReadersEnd
