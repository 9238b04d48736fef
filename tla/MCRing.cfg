SPECIFICATION FairSpec
CONSTANTS
    w1 = w1
    w2 = w2
    s1 = s1
    Cap = 2
    Writers = {w1, w2}
    Readers = {s1}
    Waiters = {s1}
    Lens = {1, 2}
    NoThread = NoThread
    MaxWritten = 4
    MaxResets = 1
    MaxUnderrun = 2
CHECK_DEADLOCK FALSE
INVARIANTS TypeOK Contents NoLostWakeup
PROPERTIES Queue PromptWake
