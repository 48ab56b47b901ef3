CONSTANTS
    t1 = t1
    t2 = t2
    c1 = c1
    c2 = c2
    Threads <- MCThreads
    Creator = t1
    Cells <- MCCells
    Nobody = Nobody
    Initials <- MCNormal
    Handoff = FALSE
    MaxDepth = 2
SPECIFICATION Spec
INVARIANT UsesRealMutex
