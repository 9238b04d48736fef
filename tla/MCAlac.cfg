SPECIFICATION Spec
CONSTANTS
    FrameLength = 30
    PB = 40
    MB = 10
    KB = 14
    NumChannels = 2
    Sent <- MCSent
    Frames = 2
INVARIANTS TypeOK Lossless DamageReported
