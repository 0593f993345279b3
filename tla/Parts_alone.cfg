\* Every component of Parts, each by itself.
SPECIFICATION Spec
CONSTANTS
    t1 = t1
    t2 = t2
    o1 = o1
    o2 = o2
    h1 = h1
    h2 = h2
    b1 = b1
    b2 = b2
    p1 = p1
    p2 = p2
    BoardWord = 6
    BoardSize <- Memory
    MaxInc = 2
    BoardCounts = {0, 1, 2, 5}
    Lengths = {1, 3}
    Threads = {t1, t2}
    MainWord = 16
    MemSize = 5
    RegOffset = 1
    BridgeSize = 1
    MainAddresses = {0, 4}
    Counts = {0, 1, 2}
    MaxRetries = 2
    NumWords = 2
    MaxCount = 2
    Second = 4
    Rate = 3
    Loops = 2
    TimerSleeps = {1, 2, 5}
    Delays = {1, 3}
    MaxTime = 16
    FileBits = {32, 40, 64, 96}
    MaxLines = 3
    Space = 8
    ReadOnly = {0, 1, 2, 3}
    Objects = {o1, o2}
    MaxFd = 2
    KMems = {h1}
    Lists = {h2}
    RegistryNumbers = {1, 2}
    Bars = {0}
    MaxDevices = 3
    Boards = {b1, b2}
    Processes = {p1, p2}
    TestDevices = 2
    PageSize = 4
    Frames = {1, 2, 3, 4}
    MaxSize = 9
    Fuses = TRUE
    Spare = 2
SYMMETRY Symmetry
INVARIANT TypeOK
INVARIANT WordsLand
INVARIANT ReadsAnnounced
INVARIANT WordsKept
INVARIANT Released
INVARIANT TimesTrue
INVARIANT BitstreamExact
INVARIANT ConfigTrue
INVARIANT LibraryExact
INVARIANT CreotechWhole
INVARIANT ListCorrect
INVARIANT TestsHonest
\* Calls that leave the mapped memory, misuse and bounds end a behaviour.
CHECK_DEADLOCK FALSE
