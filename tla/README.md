# FPGA PCIe drivers in TLA+

Specifications of the software in this repository that moves data between a
host and an FPGA board over PCI Express: what its threads, interrupt handlers,
processes and boards do to each other, checked with TLC on small instances and
proved with TLAPS for all: every type invariant, safety invariant and refinement
that a passing run checks is also a theorem.

## The system

The repository holds three programs.

* `opencores_driver/` is a Linux character device driver, *pciDriver*, with a
  C++ library (`src/lib`) and a C library over it. It maps BARs, allocates
  kernel buffers for DMA, pins user memory and counts interrupts.
* `fpga_framework/mprace/` is a C++ library on top of the first. It drives the
  DMA engine of a board through mapped registers, keeps descriptor lists in
  host memory and has classes for each board.
* `creotech_driver/` is a driver of its own, for another board and an embedded
  kernel, which streams data in a buffer of two halves.

### Components

| Component | State | Operations | Hard behaviour | What makes it correct |
|---|---|---|---|---|
| Interrupt counting, `ioctl.c`, `int.c` | a counter and a wait queue per source | wait, clear, delivery | waiters, handler and clear touch a counter without a lock; timeouts and signals end the sleep | no interrupt lost or invented; the counter is a semaphore |
| Handler and DMA wait, `int.c`, `DMAEngineWG.cpp` | enable and status registers of the board, the two queues | enable, disable, wait, acknowledge | read-modify-write of one register by handler and threads | a wait returns, when the transfer ended, and not for an earlier one |
| Descriptor lists, `DMAEngineWG.cpp`, `DMADescriptorListWG.cpp` | one linked list per buffer, what was cut from it per channel | host2board, board2host, waitChannel | the list is edited in place and put back; the board reads it meanwhile | the bytes asked for move; the list comes back |
| DMA buffers, `DMABuffer.cpp`, `PCIDriver.cpp` | what a buffer acquired, the copies of its words | construct, sync, transfer, delete, retry | constructors that fail; a bounce buffer copied as a whole | words are kept; all is given back |
| Boards, `ABB.cpp`, `ML605.cpp`, `MPRACE2.cpp` | windows, handle, logger, objects | words, blocks, DMA, life | ends that wrap, FIFO or memory | words land where they were sent |
| Main FPGA of MPRACE2 | three announcement registers | announced reads and writes | two threads, one set of registers | what is loaded is what was announced |
| Bitstream file, `V4ConfigSMAP.cpp` | stream, buffer | config | header against content | the buffer is the file |
| Timer, `Timer.cpp` | rate, clock | calibrate, start, stop, wait | borrow, wrap, a clock that is set | waits are not over early |
| Kernel buffers, `kmem.c`, `KernelMemory.cpp`, `PciDevice.cpp` | list of buffers, mmap mode and area of the device, a mutex per process | alloc, mmap, sync, free, mapBAR | mmap has no argument; entries used outside the lock | everyone maps what it asked for; no freed entry is used |
| User memory, `umem.c`, `UserMemory.cpp`, `sysfs.c` | pinned pages, entries with ids | sgmap, sgget, sync, sgunmap, umem_unmap | partial failures, shared pages, two ways to unmap | references are exact, pages stay locked while mapped |
| Scatter/gather lists, `umem.c`, the library, `DMADescriptorListWG.cpp` | a list per mapping | sgmap, sgget, link | offsets and merging at page boundaries | the list names the buffer's bytes in order |
| Configuration space, `ioctl.c`, the library | the space | read, write, info | three interfaces, widths, alignment | an access reaches its bytes only |
| Device objects, `PciDevice.cpp`, `pciDriver_Capi.c` | descriptor, lock, driver entries | open, close, map, free | close under a call, a lock kept by a failure | each descriptor is one object's |
| Registry, `pciDriver_compat.cpp` | number to device | open, close, KMem, MemoryPageList | objects that share a number | the registry names devices that exist |
| Lifecycle, `base.c`, `int.c` | the device count, and what each probe acquired | init, exit, probe, remove, open, close, interrupt | failure at each step, hot plug | nothing is used after it was freed or left behind; numbers are unique |
| Creotech streaming, `pcie.c` | two halves, flags shared with the handler | START, NEXT, END_STREAM, SET_TLPCOUNT, reset, read, write | flags without a lock, timeouts, signals | the program holds a half that is complete and stays as it is |
| Creotech lifecycle, `pcie.c` | one descriptor for all boards | module, probe, remove, open, mmap, release | undoing a probe, unloading under a file | one process has the file, a file is served |
| Test programs, `other_tests/` | what each test took, what it shows | the scripts, an interrupt thread | exceptions half way, a thread that outlives its device | they give back what they took and show what was moved |

### How they interact

A program calls the mprace library; that calls the C++ library of pciDriver,
which makes ioctls. Kernel threads share the device's private data, protected
by a spinlock per list; the driver offers `unlocked_ioctl` (`base.c:523`), so
that ioctls of different threads run at the same time. The interrupt handler
shares with the ioctls the counters, and with the library, over the bus, the
board's enable register. The board reads descriptors from host memory. The C
and the compatibility interfaces of the library stand beside the C++ one and
make the same ioctls. The creotech driver shares nothing with the other two.

## The modules

| Module | Models | Run |
|---|---|---|
| `IrqQueue` | a counting semaphore per source: what the wait ioctl promises | through `IrqWait` |
| `IrqWait` | the wait and clear ioctls, step by step | `IrqWait_counter` |
| `DmaWait` | handler, enable register, `waitChannel`, interrupt generator | `DmaWait_channels`, `DmaWait_pair_stuck` |
| `PingPong` | a stream of two halves: what the stream ioctls promise | through `CreotechStream` |
| `CreotechStream` | the creotech driver's calls and its board | `CreotechStream_calls`, `_signal`, `_ended` |
| `DescriptorList` | the lists, the channels, the board walking a list | `DescriptorList_transfers` |
| `KmemBuffers` | kernel buffers and mmap in the threads of processes | `KmemBuffers_processes`, `KmemBuffers_threads` |
| `UserMemory` | pinning and unpinning | `UserMemory_mappings` |
| `DeviceLifecycle` | pciDriver's module and boards | `DeviceLifecycle_boards` |
| `BoardIO` | board objects of ABB, ML605, MPRACE2; words, blocks and DMA checks of the first two | `Parts_alone` |
| `MainFpga` | MPRACE2's announced accesses, from two threads | `Parts_alone` |
| `DmaBuffers` | a DMA buffer from construction to deletion, with the copies of its words | `Parts_alone` |
| `CpuTimer` | calibration and waiting | `Parts_alone` |
| `ConfigFile` | reading a bitstream file | `Parts_alone` |
| `SgList` | from pages to the library's list and to the list's own pages | `Parts_alone` |
| `ConfigSpace` | configuration space through three interfaces | `Parts_alone` |
| `DeviceHandles` | the library's device objects, in C++ and in C | `Parts_alone` |
| `CompatRegistry` | the compatibility classes | `Parts_alone` |
| `CreotechLifecycle` | creotech module, boards and device file | `Parts_alone` |
| `TestPrograms` | testPCIeBoard, testDMA, testDMA_c | `Parts_alone` |
| `Parts` | the eleven modules from `BoardIO` on: an instance of each, of which a behaviour has one | `Parts_alone` |
| `*_proofs` | proofs about `IrqWait`, `DmaWait`, `CreotechStream`, `DescriptorList`, `KmemBuffers`, `UserMemory`, `DeviceLifecycle` and `Parts` | |

Each `MC` module names the small sets a specification is checked with. A
definition whose name says what it gets wrong (`UndoForgets`, `ArmForgets`, ...)
is a mutation variant: it stands before the definition it would replace and no
specification uses it. `PROJECT.json` maps each definition to the lines of the
source, and pairs each checked property with a variant that breaks it.

In a passing run everything that can happen in its code happens, known defects
included. Where a defect makes a property false, a history variable records that
it struck, and the property speaks of the histories in which it did not; the
variable is part of the statement and the reader sees what is excepted. Where
the code leaves C's or the kernel's ground (a store past a buffer, the use of
freed memory), the behaviour ends. Nine defects that contradict a sentence of
the documentation or of a comment have a run of their own, which ends in a
counterexample.

### IrqQueue, IrqWait

`outstanding` is `irq_outstanding`. A waiter sleeps, then decrements; when the
result is negative it undoes that in a second step and sleeps again. `Call`,
`Take`, `Miss` and `Undo` are the atomic steps of `ioctl_wait_interrupt`; a
wake-up, a timeout and a signal all lead to the decrement, so that one step
stands for the three. `Deliver` is the handler, `Clear` the clear ioctl;
`delivered`, `taken` and `dropped` are history.

`IrqWait_counter`: two waiters, two of the sixteen sources, one of which is
cleared, and an argument out of range. `Conservation`: what was delivered is
counted, taken, or dropped by a clear, counting the debt of waiters between
decrement and undo. That nothing else makes the counter negative is proved
(`DebtIsTransient`).
`ImplementsIrqQueue`: on the sources nobody clears, the counter and its debts are
the counting semaphore `IrqQueue`; a miss and its undo are stutters.
`WaiterReturns`: a waiter returns if an interrupt is pending and stays so and
nobody else waits for the source; two waiters may make each other miss for ever.
Fairness is on the steps of a waiter: the scheduler runs a runnable task, and
the sleep has a timeout. With `MaxIrq` 2 there is one interrupt for each waiter,
and with two waiters the counter falls to -2.

### DmaWait

Threads execute `waitChannel` of `DMAEngineWG` as separate reads and writes of
the enable register; the handler does its status read, its acknowledgement and
the count in three steps. The status registers it reads in succession are taken
as one read. `!interrupt` and `!INTE_CH0` are logical negations in C, so both
handler and `disableInterrupt` write zero. The wait ioctl is the semaphore
`IrqQueue`, as proved of sources that nobody clears.

`DmaWait_channels`: one thread drives both channels in either mode, blocking or
not, with the timeout of polling; another uses the interrupt generator and thus
the same register. `overlap` is set when one reads the register to enable its
source while the other is between its own read and the end of its wait.
`NoSurplus`, always: the driver never counts more interrupts than threads wait
for. Without overlap: `WaitMeansDone` (a wait returns when its channel is no
longer busy), `NoStaleCredit` (nothing is left over for the next transfer),
`LoneWaitReturns`. Fairness: the board ends a transfer, an asserted interrupt is
handled, a thread goes on. After an overlap both threads may wait for ever, so
a deadlock is no error in this run. `DmaWait_pair_stuck` shows this for two
threads on the two channels of one engine. `MaxPending` caps the counters at
two, more than the one that `NoStaleCredit` allows a channel.

### PingPong, CreotechStream

`even`, `dmaDone`, `wake` are `even_buffer`, `dma_done`, `wake` of `pcie_descr`;
the ioctls are cut at every access to them that the handler can come between.
One program calls. `missing` is what each half has yet to receive in its round
of `dma_count` transfers. On kernel 3.1.6 the wait macro returns 0 when the time
is up without another look at the condition, which is `Timeout`.

`CreotechStream_calls`: every call in every order, with one to three transfers
per half, timeouts, signals and resets of the initiator. The driver does not ask
whether a stream was started: `NEXT_STREAM` and `END_STREAM` may come before the
first `START_STREAM` and after an `END_STREAM`, also one that ended with `EFAULT`,
and turn the buffer every time. Two history variables say when the stream is in
order (`InOrder`). `disturbed` is set when a running transfer is abandoned or
overtaken, a signal arrives or the buffer is put to another use, and is cleared by
the next `START_STREAM` that finds the board at rest. `stray` is set by a `NEXT` or
`END` without a stream or after its end, and cleared by the next start.

`HeldUsable`: of a stream in order the program holds halves that have all their
data, and whatever came before, the half `NEXT_STREAM` hands out is not written to.
`ImplementsPingPong`: a stream in order is a ping-pong of two halves, which a
disturbance or a stray call ends until the next clean start. `CompletionNoticed`: as
long as a stream in order is open, `dma_done` becomes true again; clearing it after
the transfer was started would erase a completion for good. Fairness: the engine
ends a transfer, the handler runs, a call goes on. A read may never return, so the
system may stop. With three transfers there is a first, a middle and a last one.

Two runs show what the excepted histories lead to. `CreotechStream_signal`: the
half that a signal hands out. `CreotechStream_ended`: `END_STREAM` leaves `dma_done`
set, so that a `NEXT_STREAM` after it returns at once with a half no transfer has
filled again.

`ReadWoken` says of `read` what the driver's comment says, and no run checks it, as it
is false: a read whose transfer ended and whose interrupt was handled still sleeps,
because the handler wakes nobody while `wake` is false (`pcie.c:302`), and `read` may
clear `dma_done` after the handler set it (`pcie.c:352`).

### DescriptorList

`SG` gives the physical blocks of each buffer, `list` its descriptors. `Start` is
`host2board` and `board2host` with all of `sendDescriptorList`; `Wait` and
`WaitTimeout` are the ends of `waitChannel` with `restoreSavedData`; `Walk` is
the board, which copies the bytes of a descriptor and then reads the next one
from the list as it is at that moment. `moved` records every byte with both
addresses. The caller waits for a channel before it starts it again, and does
not wait for one it never started; a buffer is given to one channel at a time.

`DescriptorList_transfers`: both channels, and buffers of all three kinds, every
offset and count. `ListMovesRequest`: the board moves the bytes asked for until
the wait ends, and all of them by the time it is idle; `ListsRestored`: a list that no transfer
uses is as it was first filled, also after a wait that gave up.
Excepted are kernel buffers at an offset, of which the code adds dwords to a byte
address; `MovesRequest`, without the exception, is false of them. The blocks of the
user buffer are one, two and one dword long, so that first, middle and last
descriptor of a transfer are the same or different in every way the code tells
apart; `MaxDwords` is 4, the whole of it.

### KmemBuffers

`kmemList` is the list in the driver, `Lock` and `Unlock` the library's mutex, one
per process. Allocation, setting the mode, setting the area and the two steps of
the mmap are separate, as are looking an entry up, using it, giving its memory
back and unlinking it. The allocator may give a free address again at once.

`KmemBuffers_processes`: a thread with buffers and one that maps BARs in one
process, a thread with buffers in another. `crossed` is set when a buffer is
linked while another thread has not yet mapped the one it linked before, when a
buffer is given an address whose old entry is still in the list, or when a
process sets mode or area between those of another and its mmap
(`KernelMemory.cpp:60-64` concedes this). Otherwise everyone maps what he asked
for (`MapsAsAsked`), `NoUseAfterFree`, `NothingLost`. `CallReturns` always: the
mutex is released on every path the driver can take. Fairness: strong on taking
the mutex, as the kernel hands it on, weak on the rest. `KmemBuffers_threads` is
the first way to cross, in one process. `MaxIds` bounds the buffers ever made; the
run stops there, so it does not check for deadlock; two are enough for a thread
to own one while the other's comes and goes.

### UserMemory

References, lock bits, entries and sysfs files of the pages of each buffer,
through every failure. `umemList` is the set of the ids in the list, since each
lookup goes by the id. `GetPages`, `LockPages`, `AddEntry`, `Link` are the steps of
`pcidriver_umem_sgmap`, `Undo` its error path; `Find`, `Release`, `Unlink` are an
unmapping.

`UserMemory_mappings`: two threads whose buffers share a page, and a writer of
the sysfs file `umem_unmap`. `fault` is the use of an entry that was freed: the
behaviours end there. `MappingsExact`: each page has one reference for each
mapping of it, and list and files are those of the live entries.
`LockedUnlessShared`: pages of one buffer only stay locked while it is mapped.
With three entries a thread maps again after an unmap while the other still has
its own.

### DeviceLifecycle

Each step of `pcidriver_probe` is an action that may fail, with the labels of its
error path as two or three steps. The kernel is external: it probes one board at
a time, removes boards, and opens and closes files; it does not unload a module
with open files, as `fops.owner` asks for (base.c sets it up to kernel 2.6.35).

`DeviceLifecycle_boards`: two boards and numbers for two; every step may fail.
`mishaps` records, per board, a failed step whose error path leaves something
behind (`bars`, `late`), and a removal under an open file (`pulled`). `OwnNumber`,
always; `NoDangling` (handlers and open files have their data) and `CleanUnload`
(nothing is left after unloading) for the boards spared. A mishap of one board
is no excuse for another. `MaxCount` 3 lets one probe find the numbers used up.

### Parts and the run Parts_alone

Eleven components meet no other through shared state that changes under them.
`Parts` has an instance of each, `Board`, `Main`, `Buffers` and so on, and a behaviour
is one of one component, chosen at the start (`part`), so that one run checks all and
one module holds their proofs. The components take turns in the variables `v1` to
`v16`, which the `WITH` of an instance gives their names; those a component has no
use for stay as they are. Constants keep their names unless two components have one
of the same name: those of `BoardIO` are `BoardWord`, `BoardSize`, `BoardCounts`, those of
`MainFpga` `MainWord`, `MainAddresses`, and `TimerSleeps`, `FileBits`, `RegistryNumbers` and
`TestDevices` are `Sleeps`, `Bits`, `Numbers` and `Devices` of theirs. What is assumed of
them is named there (`BoardNumbers`, `SpaceNumbers`, ...): numbers are numbers, a window
is not larger than the address space, a sleep takes time (the code divides by it),
the first four bytes of the configuration space are read-only, as they are the
identity, and there is room for two entries more than whole pages (`Spare`), as in
the C++ library.

The invariants are those of the component the behaviour belongs to. Behaviours end
at misuse, at bounds and where a pointer leaves its memory, so the run does not
check for deadlock.

**BoardIO** (`WordsLand`, `Released`). `AbbConstruct`, `Ml605Construct` and the others
follow the constructors with a failure after each BAR; words, blocks and DMA checks
are one action each. `store` is the board as the code leaves it. `want` is the board as
the calls asked for, and `wanted` what a read asked for: to a block the FIFO follows
the memory (`Place`), whatever branch the code takes. Six addresses over three words
of memory and one of FIFO, so that a block may end inside, at the end, behind it, or
wrap. A block whose end is the last word or beyond takes the branch for the FIFO,
which works on the memory; `misled` is set then. `WordsLand`: until then all blocks and
words reach their words and no others, never does a block reach a register, and a
block that ends before the last word of the memory stays in the window.
`BlocksLand`, the same without `misled`, is what the code's comments say ("write in fifo
BAR"), and is false: a block for the FIFO overwrites the beginning of the memory.

**MainFpga** (`ReadsAnnounced`). Three register writes and the loads of a read are
steps of their own, in two threads. `mixed` is set when two calls run into each
other, and falls when the last of those ends: from then on everything is as
announced again. That the threads do disturb each other is a fact of the code.

**DmaBuffers** (`WordsKept`, `Released`). One buffer after the other, of four types,
each with every failure of its constructor; retries of kernel allocations with
their statistics; transfers of every part of a buffer of two words, whose bounce
copy is synced as a whole. `sure` are the words no abandoned transfer may still
change. Two words are a part and its rest.

**CpuTimer** (`TimesTrue`). A second has four milliseconds, so that the sleep of a
calibration ends in the same second, in the next, or two later. `stepped` is set
when the clock is set during a calibration.

**ConfigFile** (`BitstreamExact`). Files of each type with up to three lines under
headers of every size, larger and smaller than the content.

**SgList** (`ListCorrect`). Buffers of 1 to 9 bytes at each offset in pages of 4, on
four bus pages in each order, merged by the bus in each way it may be: the list
names the bytes of the buffer in order, cannot be shorter, fits in the C++ library's
room, and gives the pages of descriptors their addresses, if nothing was merged.
One to three pages have none, one and two boundaries inside.

**ConfigSpace** (`ConfigTrue`). Eight bytes, of which the identity is read-only, three
widths, every address, three interfaces, opened and not, and a null handle. A value
travels in the four cells of the union of `pci_cfg_cmd`, of which each member of the
`switch` moves as many as it is wide; `want` and `wanted` are reckoned from address,
width and value alone. `ConfigTrue`: an aligned access reaches just its bytes and is
answered with these; a refused one reaches none. Two sentences of the manual stand
beside it and are false: `IdGiven`, as `pd_getID` answers 1 for every device, and
`ReadsGiven`, as a refused read is told as a success and gives what was in the
variable.

**DeviceHandles** (`LibraryExact`). Two objects of either interface, two threads,
three descriptors; the program opens other files. A call is lock, ioctls, unlock,
and an open or close may come between. `misused` is set when it does, and when an
object is closed under its buffers or opened twice.

**CompatRegistry** (`LibraryExact`). Two objects under two numbers, a `KMem` and a
`MemoryPageList`, up to three devices, so that an object may open a second one while
another still has its first. `careless` programs open over an open object or close
one with buffers; what the registry names exists for them too.

**CreotechLifecycle** (`CreotechWhole`). Two boards, two processes. A probe takes
eight things in order; `Unwind` follows the error labels, `Remove` the order of
`fpga_remove`, with processes opening and closing meanwhile. `clobbered` is set when
a board is probed while another is bound, which overwrites the shared descriptor;
`overtaken` are the files whose board was being removed. One process at a time has
the file, always; a file is served and a board leaves behind only what is listed
in the property, unless these happened.

**TestPrograms** (`TestsHonest`). A program is a sequence of tests and a test one of
calls; an exception takes the rest of the test with it. `met` records what it met: a
failed call, the early return, a slow board, a short first entry, the thread that
outlived its device. Two devices, so that this thread meets the second one.

`Released` and `LibraryExact` except what failed constructors and misuse leave.

## What is proved

For every value of the constants, with the assumptions the modules state of them,
which TLC evaluates in the runs. Each module has a theorem `Invariance` or the like
for an inductive invariant, from which the others follow. `TypeCorrect` is
typing in each.

**IrqWait_proofs**, for any finite set of waiters, any number of sources and any
arguments. `IInv` is typing with `Conservation`, no debt at rest and no drops on
uncleared sources. `Conservation` counts with the cardinality of the set of waiters
in their undo, and the lemmas `Undoing*` say how each step changes that set. From
it `InterruptsConserved`, `DebtIsTransient` (a counter is below zero only by waiters
in their undo) and `NoPhantom` (on a source nobody clears, no more waits return than
interrupts came). `Refinement`: the initial state and each step map to `IrqQueue`.

**DmaWait_proofs**, for any finite sets of threads on the engine and the generator.
`SurplusFree`: counted interrupts, the one in the handler and the enabled sources
are never more than the threads waiting, which is inductive with typing.
`NothingLeftOver`, from it, when no thread waits. `IInv` adds `InOrder`, for as long
as the enable register has had one user at a time: what is enabled, handled or
counted is the source of the one waiter (`OneUser`, `Aimed`), and a source that was
owed to a thread's channel says that its transfer is over. The condition cannot be
dropped: of two threads in the register at once one may be woken for the other.
From it `CreditsFresh` and `WaitsMeanDone`.

**CreotechStream_proofs**, for any set of values of `dma_count` and any set of the
other calls, in every order. `HeldUsable` alone is not inductive: that a half is complete follows
from what each completion means. `IInv` adds where a call may stand
(`CallsInPlace`), that the board has one transfer at most, which half it may write
to after the flip (`OtherHalf`), and `StreamInOrder`: in order, while the transfers
of a half are started, what it misses is on the board or yet to be started
(`Filling`); between two rounds a raised or noticed interrupt is that of the last
transfer (`Filled`). From it `HeldHalvesUsable` and, step by step, `Refinement`
(`ImplementsPingPong`).

**DeviceLifecycle_proofs**, for any finite set of boards, any numbers and any set of
steps that may fail. `IInv` says what a board has at each position of probe and
removal (`Holds`, `Failed`, `Handled`, `Opened`, `Tidy`), that the kernel probes one board
at a time, and that numbers in use are distinct and below the count, of which the
board in its probe has the last one (`Numbers`): a failing probe gives back its own
number for that reason only. From it `NumbersUnique`, `NothingDangles`, `UnloadsClean`.

**UserMemory_proofs**, for any finite sets of mappers and sysfs writers, any overlap
of the buffers and any bound on the entries. Up to a use of freed memory a thread's
position says what it holds (`Placed`, `Owned`), a live entry is the handle of one
mapper (`Entered`), and list and files are those of the entries (`Listing`). The
references of a page are then the threads whose mapping under way or live entry
has it; the lemmas on counting add and remove one at a time. From it
`MappingsCounted` and `LocksKept`, and that no count falls below zero.

**KmemBuffers_proofs**, for any threads, processes, addresses and BARs. Typing and the
mutexes are in order always; until `crossed`, each thread with a buffer owns an entry
that is live until it gives its memory back, that is the last in the list until it
is mapped, and that its own look-ups find (`Owns`), a thread that maps a BAR finds
mode and area as it set them (`Aims`), entries and addresses are apart, and the list
holds what was linked, once. From it `MapsRight`, `NothingUsedFreed`, `ListKept`.

**DescriptorList_proofs**, for any kinds and numbers of blocks, any of their sizes and
addresses, any offsets and counts, and at least one buffer (`Buffers # {}`). Each
channel's transfer is a function of its request: what it filled and cut (`Filled`,
`Cut`) and what it saved, so that restoring undoes the cut whatever came between
(`RestoreUndoes`). What a chain of descriptors comes to is a sum over its blocks; the
lemmas on these sums go by the least block at which they would fail, as the order of
the naturals is well-founded. The board's walk is described by what it has reached
and what it has moved (`Reached`, `Beginning`). From it `ListsKept` and `RequestMoved`.

**Parts_proofs**, for any values of the constants of `Parts`. `IInv` is that of the
component chosen. What each adds to its properties to be inductive:

| Component | Inductive invariant | Theorems |
|---|---|---|
| `BoardIO` | a board has mapped what its class maps; the windows of `store` and `want` have their types | `WordsReach`, `NothingHeld` |
| `MainFpga` | unless mixed, two threads are not both in a call (`Apart`), and one has told what its position says (`ToldSoFar`) | `AnnouncedRead` |
| `DmaBuffers` | what a buffer has by each step (`HasSoFar`), and the copies of a word at rest, while sent, while received and after (`AtRest`, `Sending`, `Receiving`, `Received`) | `BufferWordsKept`, `NothingHeld` |
| `CpuTimer` | the rate, by lemmas on quotients | `TimerTrue` |
| `ConfigFile` | what was read is a prefix of the file (`ReadSoFar`) | `FileExact` |
| `SgList` | which bytes pages and entries name so far (`Lays`, `Naming`), by least counterexample | `ListNamesBuffer` |
| `ConfigSpace` | types; that the cells of a union are the bytes that address and width name is `PciWritten` | `SpaceTrue` |
| `DeviceHandles` | who is where in a call (`InPlace`, `OneMaker`), entries and descriptors (`Described`, `Accounted`) | `LibraryKept` |
| `CompatRegistry` | numbers, slots and devices (`Linked`) | `LibraryKept` |
| `CreotechLifecycle` | the order in which a board gains and loses its things, what the error paths forget (`Owed`, `Forgotten`), who is alone, what is counted (`Alone`, `Counting`) | `CreotechStaysWhole` |
| `TestPrograms` | the script so far and what it still gives back (`Scripted`, `WillReturn`), the words of its buffers (`WordsInOrder`, `UserInOrder`) | `TestsGiveBack` |

Only model-checked: liveness (`WaiterReturns`, `LoneWaitReturns`, `CompletionNoticed`,
`CallReturns`), which the prover does not reach, and the counterexamples.

## Findings

The runs that expect a violation each check a sentence of the documentation or
of a comment. `PROJECT.json` quotes them; in short:

| Run | Code |
|---|---|
| `DmaWait_pair_stuck` | disabling one channel disables both |
| `CreotechStream_signal` | a signal hands out an unfinished half |
| `CreotechStream_ended` | after the end of a stream a half is handed out that was not filled again |
| `KmemBuffers_threads` | the mutex does not cover the allocation |

Five more sentences are stated in the modules beside the property that holds, are
false of the model, and have no run: each takes one call, or two in a row.

| Sentence | Source | Code |
|---|---|---|
| `ReadWoken` of `CreotechStream` | `pcie.c:316` "the program will be waken up" | a read is not woken by its own interrupt (`pcie.c:302`, `352`) |
| `MovesRequest` of `DescriptorList` | `DMAEngineWG.h:59` "Initial dword to transfer" | the offset into a kernel buffer is taken for bytes (`DMAEngineWG.cpp:342`, `407`) |
| `BlocksLand` of `BoardIO` | `ABB.cpp:279` "write in fifo BAR" | a block for the FIFO goes to the memory, at the FIFO's offset (`ABB.cpp:287`, `332`; `ML605.cpp` alike) |
| `IdGiven` of `ConfigSpace` | `doc/manual.html:440` "the Vendor and Device ID" | the two are joined with a logical or (`pciDriver_Capi.c:326`) |
| `ReadsGiven` of `ConfigSpace` | `doc/manual.html:464` "at address addr" | a refused read is told as a success (`ioctl.c:102-132`) |

What else was met while modelling, and how the models treat it. pciDriver:

| Code | What happens | In the model |
|---|---|---|
| `ioctl.c:379` | a clear between a waiter's decrement and its undo leaves a phantom interrupt | part of `IrqWait`; properties of single waits are for uncleared sources |
| `kmem.c:200` | an address is given out again before its entry leaves the list | `crossed` |
| `base.c:409`, `443`, `int.c:134` | late failures of probe return 0, or leave the handler or a BAR | `mishaps` |
| `base.c:233` | a failed class leaves the module loaded with nothing registered | part of `Load` |
| `base.c:498` | numbers of removed boards are not given back | part of `RemoveFree` |
| `base.c:446` | a failing probe decrements the count of all boards, which is wrong if probes overlap | probes are one at a time |
| `base.c:480-498` | files opened during a removal are left with freed data | `mishaps` |
| `umem.c:204` | the first of two mappings to go unlocks the page they share | `LockedUnlessShared` |
| `sysfs.c:295` | unmapping through sysfs and by the program may both release one entry | `fault` |
| `pciDriver_Capi.c:194` | the C library has room for one entry less than the C++ library | `Spare` is 2, the C++ library's |
| `umem.c:232` | `pcidriver_umem_sgunmap_all` is called from nowhere: what a program leaves mapped stays pinned | no action of `UserMemory` |
| `PciDevice.cpp:290`, `pciDriver_Capi.c:376` | a `mapBAR` whose ioctl fails keeps the lock | part of `DeviceHandles`; `misused` |
| `PciDevice.cpp:89` | a destructor does not close descriptor 0 | excepted in `HandlesExact` |
| `pciDriver_Capi.c:62`, `84` | opening over an open structure leaks its descriptor; closing twice closes somebody else's | `misused` |
| `pciDriver_Capi.c:168` | the handle of user memory is not told where and how large it is | left out |
| `ioctl.c:94-133` | a write to the configuration space that the kernel refuses is told as a success | `how = "refused"` |
| `pciDriver_Capi.c:440` | a read through a closed structure gives what was on the stack | `Junk` |
| `pciDriver_compat.cpp:275-304` | the device is registered before it is opened, its exceptions are thrown by value and caught by pointer, and it is deleted under its buffers | part of `CompatRegistry`; `careless` |
| `pciDriver_compat.cpp:102`, `175` | `Alloc` and `LockBuffer` over a buffer leak the first | `left` |
| `pciDriver_compat.cpp:95`, `164` | two constructors leave their pointers as they find them | not called |
| `pciDriver_compat.cpp:313` | after another `Open` a BAR is the one of the old device | part of `CompatRegistry`; `careless` |

The framework:

| Code | What happens | In the model |
|---|---|---|
| `DMAEngineWG.cpp:123` | of two threads, one writes back a stale enable register; a wait of the other may end early | `overlap` |
| `DMAEngineWG.cpp:197` | after a timeout the list is restored under a board that still walks it | part of `Walk`; properties end with the wait |
| `DMAEngineWG.cpp:224`, `480` | saved data is uninitialised before the first transfer, and overwritten by a second one that was not waited for | the caller waits once for each transfer |
| `DMAEngineWG.cpp:503` | a transfer that begins at a block's end starts with an empty descriptor | part of `InitDescriptor` |
| `DMADescriptorListWG.cpp:83` | entries of a merged list are taken for pages | `LinksOwnPages` is for lists not merged |
| `ABB.cpp:100-161`, `ML605.cpp:56-79` | a constructor that fails leaks driver, handle and BARs | `life = "failed"` |
| `ABB.cpp:131`, `ML605.cpp:75` | the interrupt generator is never deleted | left out: it holds nothing |
| `ABB.cpp:260-343`, `ML605.cpp:180-261` | a block that ends at the last word takes the branch for the FIFO, on the window of the memory; address and count may wrap | `misled`; may leave the window |
| `MPRACE2.cpp:148-289` | two readers overwrite each other's announcement | `mixed` |
| `DMABuffer.cpp:48-138` | constructors that fail leak what they had | `left` |
| `DMAEngineWG.cpp:390` | the sync after a full transfer that timed out copies old words over new ones | `sure` |
| `Timer.cpp:84` | `clock_nanosleep` returns a positive error, so that the loop never repeats; the clock is one that may be set; without calibration the rate is zero | part of `CpuTimer`; `stepped` |
| `V4ConfigSMAP.cpp:52-289` | BIN and BIT files are never recognised, the number of lines is not compared with the buffer, nothing is sent and the status is always the same | part of `ConfigFile`; lines as many as the header says |
| `ICS8430I.cpp:54-123` | the table is filled to row 250 of 250, and one bit less than asked for is sent | not modelled |
| `PinInRegister.h:56` | clearing a pin uses `!bitMask` and clears all | not modelled |

The creotech driver:

| Code | What happens | In the model |
|---|---|---|
| `pcie.c:216` | with `dma_count` above one each transfer is started over the last | `disturbed` |
| `pcie.c:174` | a stream restarted over a running transfer is completed by the old interrupt | `disturbed` |
| `pcie.c:270` | a missing break makes `SET_TLPCOUNT` overwrite both halves | part of `SetTlpCount`, `disturbed` |
| `pcie.c:190`, `232` | the calls do not ask for a stream: an `END` repeated after `EFAULT` turns the buffer again | `stray` |
| `pcie.c:260` | `dma_count` pieces of a transfer are not compared with the size of a half | addresses are left out of `CreotechStream` |
| `pcie.c:509` | the second board's probe finds the DMA channel taken, and unmaps its own registers, which the shared descriptor then names | `clobbered` |
| `pcie.c:549`, `575` | only BAR 0 is released, so that a board with more cannot be probed again | `further` |
| `pcie.c:494` | when the interrupt is not to be had MSI stays enabled; the buffer is freed by half | `msi`, `half` in `BoardGone` |
| `pcie.c:500` | the wait queue is initialised after the interrupt is requested, and again for a second board | left out |
| `pcie.c:62` | the result of `try_module_get` is dropped and `fops` has no owner: a file opened during an unload loses its code | `counted`; ends the behaviour of the process |
| `pcie.c:94` | the length of a mapping is not checked | left out |

The test programs:

| Code | What happens | In the model |
|---|---|---|
| `testPCIeBoard.cpp:398` | the wait lacks the source, and the program does not compile | modelled with it |
| `testPCIeBoard.cpp:70-484` | exceptions are caught by pointer and thrown by value: the program ends | part of `TestPrograms` |
| `testPCIeBoard.cpp:429-489` | the thread starts before the device is open; the mutex it should unlock was locked by nobody and is destroyed twice; the thread may meet the next device | part of `TestPrograms` |
| `testDMA.cpp:125-214` | after a failure the tests go on with the device, BARs and mutex as they were | part of `TestPrograms` |
| `testDMA.cpp:313` | prints "err" when there is none | left out |
| `testPCIeBoard.cpp:292` | the early return leaves the BARs mapped, and compares bytes with words | `early`, `short` |
| all | transfers are given a sleep and not waited for; the sync in both directions copies the old words of a bounce buffer over the board's | `late`, `bounced` |

## Not modelled

* The clock chip, `ICS8430I`: building its table writes past it, over the pins that
  every later call uses, so that nothing can be said of what follows.
* `RegisterAsPin*.h`, which do not compile.
* `getBridgeReg` and `waitForInterrupt` of MPRACE2, `countDevices`, and the default
  blocks of `Board`, which every class overrides.
* The sysfs files `kmem_alloc`, `kmem_free` and those of the mmap settings, which do
  what the ioctls do; the address arithmetic of `pcidriver_mmap_pci`.
* `Logger` writes text; only whether it is there is in `BoardIO`.
* In the test programs the functions that no `main` calls; the client and server of
  the creotech driver, which only make its calls, and the tests in `src/tests`.
* The Perl bindings are generated.

## Hazards only partly caught

`PROJECT.json` lists the hazards of the code with the properties that watch them. Of
these, what the properties leave out:

* `kmem.c:59`: the sysfs file and the count that a failed allocation leaves behind are
  outside `NothingLost`, which is about the list and the buffers.
* `base.c:443`: the board whose probe failed late is excepted from `NoDangling`.
* `MPRACE2.cpp:150`: calls that mix are excepted from `ReadsAnnounced`.
* `ABB.cpp:260`: after a block was taken for one beyond the memory `WordsLand` speaks
  of the registers only; a block that leaves the window ends the behaviour, and
  `WordsLand` says which ones do not.
* `pcie.c:352`: a read that loses its interrupt sleeps on; no property that holds says
  otherwise.
* `DMAEngineWG.cpp:342`: kernel buffers at an offset are excepted from
  `ListMovesRequest`.
* `PciDevice.cpp:290`: a `mapBAR` that fails keeps the lock, but it fails only under a
  misuse that ends the behaviour.
* `testPCIeBoard.cpp:471`: a thread that uses the deleted device ends the behaviour.

## Plan

Done: all of the components above, and the proofs of all their safety properties.

Left: a composition of `IrqWait` and `DmaWait` in place of the semaphore. The
refinement proved of the first justifies the semaphore on sources that nobody clears.
