CONSTANTS
    w1 = w1
    w2 = w2
    NoWord = NoWord
    Words <- MCWords
    Lengths <- MCLengths
    RefocusDelay = 1
    CommitDelay = 2
    PendingRoom = 3
    NameRoom = 2
    MaxClicks = 2
    SlowPlayer = TRUE
SPECIFICATION Spec
PROPERTY NoRequestWhileBusy
