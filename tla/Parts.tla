-------------------------------- MODULE Parts --------------------------------
(***************************************************************************)
(* The components that meet no other one in their own module: the calls of *)
(* the framework's and the library's objects, the list of a user buffer,   *)
(* the life of the creotech driver and the test programs.  A behaviour is  *)
(* one of one component, chosen at the start; the components take turns in *)
(* the variables v1 to v16, and those a component has no use for stay as   *)
(* they are.  Each component keeps its own constants, under names with the *)
(* component's in front where another has one of that name.                *)
(***************************************************************************)
EXTENDS Integers, Sequences, FiniteSets

CONSTANTS
    \* BoardIO: words of the windows, and what is tried on them.
    BoardWord, BoardSize, MaxInc, BoardCounts, Lengths,
    \* MainFpga, which two threads may use.
    Threads, MainWord, MemSize, RegOffset, BridgeSize, MainAddresses, Counts,
    \* DmaBuffers
    MaxRetries, NumWords, MaxCount,
    \* CpuTimer
    Second, Rate, Loops, TimerSleeps, Delays, MaxTime,
    \* ConfigFile
    FileBits, MaxLines,
    \* ConfigSpace
    Space, ReadOnly,
    \* DeviceHandles with the same threads, CompatRegistry with the same objects
    Objects, MaxFd, KMems, Lists, RegistryNumbers, Bars, MaxDevices,
    \* CreotechLifecycle
    Boards, Processes,
    \* TestPrograms
    TestDevices,
    \* SgList
    PageSize, Frames, MaxSize, Fuses, Spare

Windows == {"mem", "fifo", "regs"}

\* Addresses of words fit in an unsigned int, and no window is larger than that.
BoardAssumption ==
    /\ BoardWord \in Nat \ {0} /\ MaxInc \in Nat
    /\ BoardSize \in [Windows -> Nat] /\ BoardSize["mem"] <= BoardWord
    /\ BoardCounts \subseteq Nat /\ Lengths \subseteq Nat

ASSUME BoardNumbers == BoardAssumption

MainAssumption ==
    /\ MainWord \in Nat \ {0}
    /\ MemSize \in Nat /\ RegOffset \in Nat /\ BridgeSize \in Nat
    /\ MainAddresses \subseteq Nat /\ Counts \subseteq Nat

ASSUME MainNumbers == MainAssumption

\* An allocation is tried at least once.
ASSUME BufferNumbers == MaxRetries \in Nat \ {0} /\ NumWords \in Nat /\ MaxCount \in Nat

\* A sleep of the calibration takes some time: the code divides by it.
TimerAssumption ==
    /\ Second \in Nat \ {0} /\ Rate \in Nat \ {0} /\ Loops \in Nat \ {0}
    /\ TimerSleeps \subseteq Nat \ {0} /\ Delays \subseteq Nat /\ MaxTime \in Nat

ASSUME TimerNumbers == TimerAssumption

ASSUME FileNumbers == FileBits \subseteq Nat /\ MaxLines \in Nat

\* The identity of a board is in the first four bytes, which nobody can write.
ASSUME SpaceNumbers == Space \in Nat /\ Space >= 4 /\ 0 .. 3 \subseteq ReadOnly

\* Objects are none of the names that stand for other holders of a descriptor.
ASSUME ObjectNames == MaxFd \in Nat /\ Objects \cap {"free", "other", "none"} = {}

ASSUME DeviceNumbers == MaxDevices \in Nat

ASSUME CreotechNames == IsFiniteSet(Processes) /\ "null" \notin Boards

ASSUME TestNumbers == TestDevices \in Nat \ {0}

\* The C++ library has room for two entries more than there are whole pages.
ListAssumption ==
    /\ PageSize \in Nat \ {0} /\ Frames \subseteq Nat /\ MaxSize \in Nat
    /\ Fuses \in BOOLEAN /\ Spare \in Nat /\ Spare >= 2

ASSUME ListNumbers == ListAssumption

VARIABLES part, v1, v2, v3, v4, v5, v6, v7, v8, v9, v10, v11, v12, v13, v14, v15, v16

vars == <<part, v1, v2, v3, v4, v5, v6, v7, v8, v9, v10, v11, v12, v13, v14, v15, v16>>

Board == INSTANCE BoardIO WITH
    Kinds <- {"ABB", "ML605", "MPRACE2"}, Word <- BoardWord,
    Size <- BoardSize, Counts <- BoardCounts, kind <- v1,
    life <- v2, fd <- v3, bars <- v4, log <- v5, lost <- v6,
    store <- v7, want <- v8, got <- v9, wanted <- v10,
    outcome <- v11, misled <- v12

Main == INSTANCE MainFpga WITH
    Word <- MainWord, Addresses <- MainAddresses,
    announced <- v1, call <- v2, pc <- v3, left <- v4, dma <- v5,
    halfReset <- v6, mixed <- v7

Buffers == INSTANCE DmaBuffers WITH
    kind <- v1,
    life <- v2, held <- v3, left <- v4, retry <- v5, stats <- v6,
    allocs <- v7, failed <- v8, host <- v9, bounce <- v10,
    board <- v11, moving <- v12, call <- v13, want <- v14,
    sure <- v15, boardWant <- v16

Timer == INSTANCE CpuTimer WITH
    Sleeps <- TimerSleeps,
    tick <- v1, clock <- v2,
    ticksPerMs <- v3, calibrated <- v4, pos <- v5, loops <- v6,
    acc <- v7, begin <- v8, startTime <- v9, asked <- v10,
    waited <- v11, stepped <- v12

Bitstream == INSTANCE ConfigFile WITH
    Bits <- FileBits,
    file <- v1, pos <- v2,
    good <- v3, type <- v4, count <- v5, line <- v6, buffer <- v7,
    shown <- v8, pins <- v9, lastStatus <- v10

Pci == INSTANCE ConfigSpace WITH
    handle <- v1, config <- v2,
    want <- v3, got <- v4, wanted <- v5, how <- v6, told <- v7

Handles == INSTANCE DeviceHandles WITH
    api <- v1,
    life <- v2, handle <- v3, owner <- v4, mutex <- v5, pc <- v6,
    on <- v7, entries <- v8, named <- v9, misused <- v10

Registry == INSTANCE CompatRegistry WITH
    Numbers <- RegistryNumbers,
    device <- v1, numberOf <- v2,
    dev <- v3, dev_number <- v4, bar <- v5, registry <- v6,
    held <- v7, left <- v8, careless <- v9

Creotech == INSTANCE CreotechLifecycle WITH
    code <- v1,
    refs <- v2, phase <- v3, at <- v4, have <- v5, wide <- v6,
    mapping <- v7, deviceOpen <- v8, fpc <- v9, counted <- v10,
    mapped <- v11, clobbered <- v12, overtaken <- v13

Tests == INSTANCE TestPrograms WITH
    Devices <- TestDevices,
    program <- v1, number <- v2, tests <- v3, todo <- v4,
    held <- v5, words <- v6, bounced <- v7, copy <- v8, moving <- v9,
    ideal <- v10, met <- v11, outcome <- v12, thread <- v13,
    alive <- v14, mutex <- v15

List == INSTANCE SgList WITH
    off <- v1, size <- v2, frame <- v3, merged <- v4,
    pc <- v5, sg <- v6, count <- v7, out <- v8, next <- v9, blocks <- v10

-----------------------------------------------------------------------------
\* The variables that a component with n of its own leaves over.
Over13 == <<v14, v15, v16>>
Over12 == <<v13, Over13>>
Over11 == <<v12, Over12>>
Over10 == <<v11, Over11>>
Over9 == <<v10, Over10>>
Over7 == <<v8, v9, Over9>>

Unused13 == v14 = 0 /\ v15 = 0 /\ v16 = 0
Unused12 == v13 = 0 /\ Unused13
Unused11 == v12 = 0 /\ Unused12
Unused10 == v11 = 0 /\ Unused11
Unused9 == v10 = 0 /\ Unused10
Unused7 == v8 = 0 /\ v9 = 0 /\ Unused9

Init ==
    \/ part = "boards" /\ Board!Init /\ Unused12
    \/ part = "main" /\ Main!Init /\ Unused7
    \/ part = "buffers" /\ Buffers!Init
    \/ part = "timer" /\ Timer!Init /\ Unused12
    \/ part = "bitstream" /\ Bitstream!Init /\ Unused10
    \/ part = "space" /\ Pci!Init /\ Unused7
    \/ part = "handles" /\ Handles!Init /\ Unused10
    \/ part = "registry" /\ Registry!Init /\ Unused9
    \/ part = "creotech" /\ Creotech!Init /\ Unused13
    \/ part = "list" /\ List!Init /\ Unused10
    \/ part = "tests" /\ Tests!Init /\ v16 = 0

BoardIOStep == part = "boards" /\ Board!Next /\ UNCHANGED part /\ UNCHANGED Over12
MainFpgaStep == part = "main" /\ Main!Next /\ UNCHANGED part /\ UNCHANGED Over7
DmaBuffersStep == part = "buffers" /\ Buffers!Next /\ UNCHANGED part
CpuTimerStep == part = "timer" /\ Timer!Next /\ UNCHANGED part /\ UNCHANGED Over12
ConfigFileStep == part = "bitstream" /\ Bitstream!Next /\ UNCHANGED part /\ UNCHANGED Over10
ConfigSpaceStep == part = "space" /\ Pci!Next /\ UNCHANGED part /\ UNCHANGED Over7
DeviceHandlesStep == part = "handles" /\ Handles!Next /\ UNCHANGED part /\ UNCHANGED Over10
CompatRegistryStep == part = "registry" /\ Registry!Next /\ UNCHANGED part /\ UNCHANGED Over9
CreotechLifecycleStep == part = "creotech" /\ Creotech!Next /\ UNCHANGED part /\ UNCHANGED Over13
SgListStep == part = "list" /\ List!Next /\ UNCHANGED part /\ UNCHANGED Over10
TestProgramsStep == part = "tests" /\ Tests!Next /\ UNCHANGED part /\ UNCHANGED v16

Next ==
    \/ BoardIOStep \/ MainFpgaStep \/ DmaBuffersStep \/ CpuTimerStep
    \/ ConfigFileStep \/ ConfigSpaceStep \/ DeviceHandlesStep
    \/ CompatRegistryStep \/ CreotechLifecycleStep \/ SgListStep
    \/ TestProgramsStep

Spec == Init /\ [][Next]_vars

-----------------------------------------------------------------------------
\* Each component's variables have the values its module says they have.
TypeOK ==
    /\ part = "boards" => Board!TypeOK
    /\ part = "main" => Main!TypeOK
    /\ part = "buffers" => Buffers!TypeOK
    /\ part = "timer" => Timer!TypeOK
    /\ part = "bitstream" => Bitstream!TypeOK
    /\ part = "space" => Pci!TypeOK
    /\ part = "handles" => Handles!TypeOK
    /\ part = "registry" => Registry!TypeOK
    /\ part = "creotech" => Creotech!TypeOK
    /\ part = "list" => List!TypeOK
    /\ part = "tests" => Tests!TypeOK

\* Until a block is taken for one beyond the memory, words and blocks that go
\* through ABB or ML605 reach the words they name and no others; no block
\* reaches a register, and one that ends before the last word of the memory
\* stays within the mapped window.
WordsLand == part = "boards" => Board!WordsLand

\* What the main FPGA of MPRACE2 sends is what it was told to send last, when
\* no two calls ran into each other.
ReadsAnnounced == part = "main" => Main!ReadsAnnounced

\* The words of a DMA buffer are those stored there or brought by a transfer,
\* whatever the kernel's copy of them went through.
WordsKept == part = "buffers" => Buffers!WordsKept

\* Boards and buffers that are gone hold nothing any more: windows, handles,
\* loggers, memory, pins, lists; and every allocation is in the statistics
\* once, however often it was tried.
Released ==
    /\ part = "boards" => Board!Released
    /\ part = "buffers" => Buffers!Accounted

\* A calibrated timer knows the rate of the counter, and no wait is over early.
TimesTrue == part = "timer" => Timer!TimesTrue

\* An ASCII bitstream is read byte for byte, and within its buffer.
BitstreamExact == part = "bitstream" => Bitstream!BitstreamExact

\* Each byte of the configuration space is the one last written to it by an
\* access of the right alignment, and such a read answers with just its bytes.
ConfigTrue == part = "space" => Pci!ConfigTrue

\* What the library keeps is what the program and the driver have: descriptors,
\* the driver's entries and the program's handles agree, no lock stays behind a
\* call that failed, and of the older interface the numbers in the registry are
\* those of the objects and their devices.
LibraryExact ==
    /\ part = "handles" => Handles!HandlesExact /\ Handles!LockReturned
    /\ part = "registry" => Registry!RegistryTrue

\* One process at a time has the device file of the creotech driver; a file is
\* served by a board that is whole, and a board that is gone leaves behind only
\* what the error paths forget.
CreotechWhole ==
    part = "creotech" => Creotech!OneFile /\ Creotech!FilesServed /\ Creotech!BoardGone

\* The list of a user buffer names its bytes in order, as few times as it can,
\* fits, and gives each page of descriptors its own address.
ListCorrect ==
    part = "list" => List!Covers /\ List!MergedMaximal /\ List!Fits /\ List!LinksOwnPages

\* The test programs give back what they took and show what was moved, unless a
\* call failed, the board was slow or the buffer was not where they thought.
TestsHonest == part = "tests" => Tests!NothingLeft /\ Tests!ShownTrue
=============================================================================
