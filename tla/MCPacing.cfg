SPECIFICATION Spec
CONSTANTS
    Chunk = 2
    ReserveFrames = 5
    Cap = 10
    Delay = 2
    Ahead = 3
    MaxStall = 8
    MaxFlushes = 1
    MaxTime = 16
CHECK_DEADLOCK FALSE
INVARIANTS TypeOK RateKept NoBurst NoPadWithinReserve
