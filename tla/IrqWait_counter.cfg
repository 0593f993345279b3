\* Two processes on two sources, one of which a process clears.
SPECIFICATION FairSpec
CONSTANTS
    w1 = w1
    w2 = w2
    MaxSources = 2
    Args <- AllArgs
    Waiters <- TwoWaiters
    ClearSources <- FirstOnly
    MaxIrq = 2
    MaxClear = 2
INVARIANT TypeOK
INVARIANT Conservation
PROPERTY ImplementsIrqQueue
PROPERTY WaiterReturns
