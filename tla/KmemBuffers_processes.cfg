\* A thread with kernel buffers and one that maps BARs in one process, a
\* thread with kernel buffers in another.  The bound on buffers ends the run.
SPECIFICATION FairSpec
CONSTANTS
    b1 = b1
    b2 = b2
    m1 = m1
    p1 = p1
    p2 = p2
    a1 = a1
    a2 = a2
    BufThreads <- TwoBufs
    BarThreads <- OneBar
    Processes <- TwoProcesses
    Proc <- TwoAndOne
    Addresses <- TwoAddresses
    Bars <- BarSet
    MaxIds = 2
CHECK_DEADLOCK FALSE
INVARIANT TypeOK
INVARIANT MapsAsAsked
INVARIANT NoUseAfterFree
INVARIANT NothingLost
PROPERTY CallReturns
