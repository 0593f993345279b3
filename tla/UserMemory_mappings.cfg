\* Two threads that map, one that writes to umem_unmap.
SPECIFICATION Spec
CONSTANTS
    m1 = m1
    m2 = m2
    s = s
    p1 = p1
    p2 = p2
    p3 = p3
    Pages <- ThreePages
    Mappers <- TwoMappers
    Cleaners <- OneCleaner
    Buf <- Sharing
    MaxIds = 3
INVARIANT TypeOK
INVARIANT MappingsExact
INVARIANT LockedUnlessShared
\* The bound on entries, and a use of freed memory, end the run.
CHECK_DEADLOCK FALSE
