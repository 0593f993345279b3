\* Two threads of one process create kernel buffers.
SPECIFICATION Spec
CONSTANTS
    b1 = b1
    b2 = b2
    m1 = m1
    p1 = p1
    p2 = p2
    a1 = a1
    a2 = a2
    BufThreads <- TwoBufs
    BarThreads <- NoThread
    Processes <- OneProcess
    Proc <- SameProcess
    Addresses <- TwoAddresses
    Bars <- BarSet
    MaxIds = 2
CHECK_DEADLOCK FALSE
INVARIANT MapsOwnBuffer
