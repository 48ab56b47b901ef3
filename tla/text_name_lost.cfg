CONSTANTS
    w1 = w1
    w2 = w2
    NoWord = NoWord
    Words <- MCWords
    Lengths <- MCLengths
    RefocusDelay = 1
    CommitDelay = 2
    PendingRoom = 3
    NameRoom = 2
    MaxClicks = 1
    SlowPlayer = FALSE
SPECIFICATION Spec
PROPERTY PublishedIsAssigned
