\* One thread on both channels, another on the interrupt generator.
SPECIFICATION FairSpec
CONSTANTS
    t1 = t1
    t2 = t2
    g = g
    MaxPending = 2
    Threads <- One
    IgThreads <- IgUser
INVARIANT TypeOK
INVARIANT NoStaleCredit
INVARIANT NoSurplus
PROPERTY WaitMeansDone
PROPERTY LoneWaitReturns
\* The two threads can leave each other waiting for good with every source
\* disabled, so the system may stop.
CHECK_DEADLOCK FALSE
