SPECIFICATION FairSpec
CONSTANTS
    t1 = t1
    t2 = t2
    g = g
    MaxPending = 2
    Threads <- Two
    IgThreads <- None
PROPERTY WaitReturns
