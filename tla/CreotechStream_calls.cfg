\* Every call, in any order, with signals, restarts and several transfers per
\* half.  A read may never return, so the system may stop.
SPECIFICATION FairSpec
CONSTANTS
    Counts <- UpToThree
    Calls <- AllCalls
INVARIANT TypeOK
INVARIANT HeldUsable
PROPERTY ImplementsPingPong
PROPERTY CompletionNoticed
CHECK_DEADLOCK FALSE
