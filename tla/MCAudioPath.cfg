SPECIFICATION Spec
CONSTANTS
    MaxSetups = 1
    Ports = {"audio", "control"}
    Lengths <- OneStream
    Window = 1
    Room = 2
    Takeover = FALSE
    DecodeErrors = TRUE
    NoReader = NoReader
CHECK_DEADLOCK FALSE
INVARIANTS TypeOK RingOrder OnlyBadPacketsMissing
