SPECIFICATION Spec
CONSTANTS
    MaxSetups = 1
    Ports = {"audio", "control"}
    Lengths <- OneStream
    Window = 1
    Room = 2
    Takeover = FALSE
    DecodeErrors = FALSE
    NoReader = NoReader
CHECK_DEADLOCK FALSE
PROPERTY FlushDropsHeld
