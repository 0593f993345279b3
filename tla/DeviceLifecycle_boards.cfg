\* Boards come and go, and any step may fail.
SPECIFICATION Spec
CONSTANTS
    b1 = b1
    b2 = b2
    Boards <- TwoBoards
    MaxDevices = 2
    Failing <- AllFailures
    MaxOpens = 1
    MaxBuffers = 1
    MaxCount = 3
SYMMETRY BoardSymmetry
INVARIANT TypeOK
INVARIANT OwnNumber
INVARIANT NoDangling
INVARIANT CleanUnload
