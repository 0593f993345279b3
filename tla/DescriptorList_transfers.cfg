\* Every transfer of part or all of the buffers, with timeouts.
SPECIFICATION Spec
CONSTANTS
    u = u
    p = p
    k = k
    Buffers <- AllBuffers
    Type <- Types
    SG <- Memory
    Pieces = 3
    Word = 4
    BoardAddr = 7
    Channels <- BothChannels
    MaxDwords = 4
INVARIANT TypeOK
INVARIANT ListMovesRequest
INVARIANT ListsRestored
