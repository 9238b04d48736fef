SPECIFICATION Spec
CONSTANTS
    Half = 5
    Window = 2
    Positions <- OverALap
    MaxReordered = 5
    MaxLate = 1
    CallbackFirst = FALSE
    MaxResets = 1
INVARIANTS TypeOK PendingInWindow InOrder LostAccounting RequestsInOrder
PROPERTIES HeadGapAsked NoHeldPacketDiscarded GivesUpOnlyWhenFull Playout
