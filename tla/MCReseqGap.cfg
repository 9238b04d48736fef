SPECIFICATION Spec
CONSTANTS
    Half = 8
    Window = 3
    Positions <- AcrossWrap
    MaxReordered = 6
    MaxLate = 1
    CallbackFirst = TRUE
    MaxResets = 0
PROPERTY GapAsked
