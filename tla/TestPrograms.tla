----------------------------- MODULE TestPrograms -----------------------------
(***************************************************************************)
(* The test programs for the board (other_tests: testPCIeBoard.cpp,        *)
(* testDMA.cpp and testDMA_c.c), as users of the library: which calls they *)
(* make in which order, what they give back, what they show, and where     *)
(* they go when a call fails.                                              *)
(*                                                                         *)
(* A program is a sequence of tests, and a test one of statements; a test  *)
(* is as much as an exception takes away.  The board moves words by itself *)
(* and may take longer than the program sleeps.  The interrupt test of     *)
(* testPCIeBoard.cpp runs a second thread; its wait is modelled with the   *)
(* interrupt source that the call there lacks.  Addresses and registers    *)
(* have the 32 bits the programs take "unsigned long" to have.             *)
(***************************************************************************)
EXTENDS Naturals, Sequences

CONSTANT Devices    \* bound: device numbers tried, 0 up (4 in the code)

Programs == {"pcie", "dma", "c"}
Numbers == 0 .. Devices - 1

\* The 16 words shown: two written alone, six more that DMA moves, the rest.
Cells == {"first", "rest", "above"}
Memories == {"board", "kernel", "user"}
Patterns == {"old", "regs", "ramp", "zeros", "fives", "stripes"}

\* testPCIeBoard moves 8 of its 16 words, the others all they look at.
Moved(p) == IF p = "pcie" THEN {"first", "rest"} ELSE Cells

Things == {"object", "file", "bar0", "bar1", "kernel", "user", "lock"}

NoMove == [from |-> "board", to |-> "board", left |-> {}]

VARIABLES
    program,    \* which one runs
    number,     \* the device it tries
    tests,      \* the tests after the one it is in
    todo,       \* the statements left of that one
    held,       \* what it holds of the device's; "lock": the mmap mutex
    words,      \* the contents of the memories
    bounced,    \* the kernel keeps the user buffer's words in a bounce buffer,
    copy,       \* which is this
    moving,     \* the transfer under way
    ideal,      \* history: the contents if the board moved words at once
    met,        \* history: what came in the way
    outcome,    \* running, done, exited by itself or terminated
    thread,     \* each device's interrupt thread
    alive,      \* thread_alive
    mutex       \* int_mutex

place == <<program, number>>
script == <<tests, todo>>
memory == <<words, copy, moving, ideal>>
irq == <<thread, alive, mutex>>
vars == <<place, script, held, memory, bounced, met, outcome, irq>>

Hindrances == {"failure", "late", "early", "short", "race"}

-----------------------------------------------------------------------------
\* The statements.
Acquire(x) == <<"acquire", x>>
Release(x) == <<"release", x>>
Size == <<"size">>
Poke == <<"poke">>
Fill(m, p) == <<"fill", m, p>>
Show(m) == <<"show", m>>
Start(m, n) == <<"start", m, n>>
Sleep == <<"sleep">>
Sync == <<"sync">>
Scattered == <<"scattered">>
Create == <<"create">>
Stop == <<"stop">>
Lock == <<"lock">>
Destroy == <<"destroy">>

\* The tests of the BARs, one by one as their exceptions are caught.
TestBars == <<
    <<Acquire("bar0"), Release("bar0"), Size>>,
    <<Acquire("bar1"), Release("bar1"), Size>>,
    <<Release("file")>> >>

MapBars == <<Acquire("bar0"), Acquire("bar1")>>

\* UnmapOne is a mutation variant.
UnmapOne == <<Release("bar0")>>

UnmapBars == <<Release("bar0"), Release("bar1")>>

Blocks == <<Poke, Show("board"), Fill("board", "ramp"), Show("board")>>

TestDirectIO == <<Acquire("file")>> \o MapBars \o <<Size, Size>> \o Blocks
                \o UnmapBars \o <<Release("file")>>

\* testPCIeBoard: a buffer is cleared, written by the board, filled, and read
\* by the board; the user buffer is synced after the one and before the other.
WriteTest(m, sync) ==
    <<Fill(m, "zeros"), Show(m), Start("board", m), Sleep>> \o sync \o <<Show(m)>>

ReadTest(m, sync) ==
    <<Fill(m, "fives"), Show(m), Fill("board", "zeros"), Show("board")>> \o sync
    \o <<Start(m, "board"), Sleep, Show("board")>>

Cleanup == <<Release("kernel"), Release("user")>> \o UnmapBars \o <<Release("file")>>

Setup == <<Acquire("file")>> \o MapBars \o <<Acquire("kernel"), Acquire("user")>>

PcieTestDMA ==
    Setup \o WriteTest("kernel", <<>>) \o ReadTest("kernel", <<>>)
    \o <<Fill("board", "ramp"), Scattered>>
    \o WriteTest("user", <<Sync>>) \o ReadTest("user", <<Sync>>) \o Cleanup

TestInterrupts ==
    <<Create, Acquire("file")>> \o MapBars \o <<Acquire("kernel"), Sleep, Stop, Lock,
      Destroy, Release("kernel")>> \o UnmapBars \o <<Release("file"), Destroy>>

\* testDMA: writeDMA and readDMA start a transfer and sleep.
WriteDMA == <<Start("kernel", "board"), Sleep>>
ReadDMA == <<Start("board", "kernel"), Sleep>>

TestDMAKernelMemory ==
    <<Fill("kernel", "zeros")>> \o WriteDMA
    \o <<Show("board"), Fill("kernel", "stripes")>> \o WriteDMA
    \o <<Show("board"), Fill("kernel", "zeros")>> \o ReadDMA
    \o <<Show("kernel"), Fill("board", "zeros")>> \o ReadDMA \o <<Show("kernel")>>

DmaTestDMA == Setup \o TestDMAKernelMemory \o Cleanup

CTestDirectIO == MapBars \o Blocks \o UnmapBars

CTestDMA ==
    MapBars \o <<Poke, Acquire("kernel"), Fill("kernel", "zeros")>> \o WriteDMA
    \o <<Show("board"), Release("kernel")>> \o UnmapBars

\* What testDevice runs, the making and the opening of the device first.
PcieTestDevice ==
    <<<<Acquire("object"), Acquire("file")>>>> \o TestBars
    \o <<TestDirectIO, PcieTestDMA, TestInterrupts, <<Release("object")>>>>

DmaTestDevice ==
    <<<<Acquire("object"), Acquire("file")>>>> \o TestBars
    \o <<TestDirectIO, DmaTestDMA, <<Release("object")>>>>

CTestDevice == <<<<Acquire("file")>>, CTestDirectIO, CTestDMA, <<Release("file")>>>>

TestDevice(p) ==
    CASE p = "pcie" -> PcieTestDevice
      [] p = "dma" -> DmaTestDevice
      [] p = "c" -> CTestDevice

Untouched == [m \in Memories |-> [c \in Cells |-> "old"]]

Init ==
    /\ program \in Programs
    /\ number = 0
    /\ tests = Tail(TestDevice(program)) /\ todo = Head(TestDevice(program))
    /\ held = {} /\ met = {} /\ outcome = "running"
    /\ words = Untouched /\ ideal = Untouched
    /\ copy = Untouched["user"] /\ moving = NoMove
    /\ bounced \in BOOLEAN
    /\ thread = [n \in Numbers |-> "none"] /\ alive = FALSE /\ mutex = "free"

-----------------------------------------------------------------------------
Running == outcome = "running"
Doing(op) == Running /\ todo # <<>> /\ Head(todo)[1] = op
Arg == Head(todo)[2]
Go == todo' = Tail(todo) /\ UNCHANGED tests

Meet(h) == met' = met \cup {h}

\* open, new, mapBAR, allocKernelMemory and mapUserMemory: the two that use the
\* mmap mutex wait for ever when a failed mapBAR left it locked.
Takes(x) == x \in {"bar0", "bar1", "kernel"} => "lock" \notin held

Acquires ==
    /\ Doing("acquire") /\ Takes(Arg)
    /\ held' = held \cup {Arg}
    /\ Go
    /\ UNCHANGED <<place, memory, bounced, met, outcome, irq>>

\* Deleting the object closes its file, too.
Given(x) == IF x = "object" THEN {"object", "file", "lock"} ELSE {x}

\* A buffer's words go with it; where the board moves late ones is not told.
Forget(ms) ==
    /\ words' = [m \in Memories |-> IF m \in ms THEN Untouched[m] ELSE words[m]]
    /\ ideal' = [m \in Memories |-> IF m \in ms THEN Untouched[m] ELSE ideal[m]]
    /\ copy' = IF "user" \in ms THEN Untouched["user"] ELSE copy
    /\ moving' = IF {moving.from, moving.to} \cap ms = {} THEN moving ELSE NoMove

Releases ==
    /\ Doing("release")
    /\ held' = held \ Given(Arg)
    /\ Forget(Given(Arg) \cap Memories)
    /\ Go
    /\ UNCHANGED <<place, bounced, met, outcome, irq>>

GetSize ==
    /\ Doing("size")
    /\ Go
    /\ UNCHANGED <<place, held, memory, bounced, met, outcome, irq>>

\* The calls that may fail; new and delete of the object, and close, do not
\* once the device is there.
Failing ==
    \/ Doing("acquire") /\ Takes(Arg)
    \/ Doing("release") /\ Arg \notin {"object", "file"}
    \/ Doing("size") \/ Doing("sync")

Bar == Doing("acquire") /\ Arg \in {"bar0", "bar1"}

\* mapBAR may keep the mutex when it fails.
HeldAfterFailure == {held} \cup (IF Bar THEN {held \cup {"lock"}} ELSE {})

NextTest ==
    IF tests = <<>> THEN tests' = <<>> /\ todo' = <<>>
    ELSE tests' = Tail(tests) /\ todo' = Head(tests)

\* testPCIeBoard catches pointers, and the library throws values: nothing
\* catches them.
PcieCallFails ==
    /\ program = "pcie" /\ Failing
    /\ Meet("failure")
    /\ outcome' = "terminated"
    /\ UNCHANGED <<place, script, held, memory, bounced, irq>>

\* testDMA goes on with the next test, or without the device if it could not be
\* made or opened.  A BAR that is mapped nowhere, without an exception, is used.
Abandons == Len(tests) + 1 = Len(TestDevice(program))
LastTests == Len(tests) \in {1, 2}

DmaCallFails ==
    /\ program = "dma" /\ Failing
    /\ Meet("failure")
    /\ \/ /\ held' \in HeldAfterFailure
          /\ IF Abandons THEN tests' = <<>> /\ todo' = <<>> ELSE NextTest
          /\ UNCHANGED outcome
       \/ /\ Bar /\ LastTests
          /\ outcome' = "terminated"
          /\ UNCHANGED <<script, held>>
    /\ UNCHANGED <<place, memory, bounced, irq>>

\* testDMA_c skips a device it cannot open, uses BARs without a look, exits when
\* there is no memory, and asks nothing else.
CCallFails ==
    /\ program = "c" /\ Failing
    /\ Meet("failure")
    /\ \/ /\ Doing("acquire") /\ Arg = "file"
          /\ tests' = <<>> /\ todo' = <<>>
          /\ UNCHANGED <<held, outcome>>
       \/ /\ Bar
          /\ outcome' = "terminated"
          /\ UNCHANGED <<script, held>>
       \/ /\ Doing("acquire") /\ Arg = "kernel"
          /\ outcome' = "exited" /\ held' = held \ {"bar0", "bar1"}
          /\ UNCHANGED script
       \/ /\ Doing("release")
          /\ Go
          /\ UNCHANGED <<held, outcome>>
    /\ UNCHANGED <<place, memory, bounced, irq>>

-----------------------------------------------------------------------------
\* What the program does with memory.
Stored(contents, m, cells, p) ==
    [contents EXCEPT ![m] = [c \in Cells |-> IF c \in cells THEN p ELSE @[c]]]

PokeRegs ==
    /\ Doing("poke")
    /\ words' = Stored(words, "board", {"first"}, "regs")
    /\ ideal' = Stored(ideal, "board", {"first"}, "regs")
    /\ Go
    /\ UNCHANGED <<place, held, copy, moving, bounced, met, outcome, irq>>

FillMemory ==
    /\ Doing("fill")
    /\ words' = Stored(words, Arg, Cells, Head(todo)[3])
    /\ ideal' = Stored(ideal, Arg, Cells, Head(todo)[3])
    /\ Go
    /\ UNCHANGED <<place, held, copy, moving, bounced, met, outcome, irq>>

ShowMemory ==
    /\ Doing("show")
    /\ Go
    /\ UNCHANGED <<place, held, memory, bounced, met, outcome, irq>>

\* A descriptor or a command: what an unfinished transfer has left is dropped.
StartDMA ==
    LET from == Arg
        to == Head(todo)[3]
    IN  /\ Doing("start")
        /\ moving' = [from |-> from, to |-> to, left |-> Moved(program)]
        /\ ideal' = [ideal EXCEPT ![to] =
                        [c \in Cells |-> IF c \in Moved(program) THEN ideal[from][c] ELSE @[c]]]
        /\ Go
        /\ UNCHANGED <<place, held, words, copy, bounced, met, outcome, irq>>

\* The board (external): it sees a user buffer through its bounce buffer, and
\* only as far as the first entry of the list goes.
Seen(m) == IF m = "user" /\ bounced THEN copy ELSE words[m]

InReach(c) == "user" \in {moving.from, moving.to} /\ "short" \in met => c = "first"

Move(c) ==
    /\ Running /\ c \in moving.left
    /\ moving' = [moving EXCEPT !.left = @ \ {c}]
    /\ IF ~InReach(c) THEN UNCHANGED <<words, copy>>
       ELSE IF moving.to = "user" /\ bounced
            THEN copy' = [copy EXCEPT ![c] = Seen(moving.from)[c]] /\ UNCHANGED words
            ELSE words' = [words EXCEPT ![moving.to][c] = Seen(moving.from)[c]] /\ UNCHANGED copy
    /\ UNCHANGED <<place, script, held, ideal, bounced, met, outcome, irq>>

\* The sleeps are what the programs have for a wait.
Sleeps ==
    /\ Doing("sleep")
    /\ IF moving.left = {} THEN UNCHANGED met ELSE Meet("late")
    /\ Go
    /\ UNCHANGED <<place, held, memory, bounced, outcome, irq>>

\* A sync in both directions begins with the one for the device, which is over
\* the words the board has just brought.
SyncUser ==
    /\ Doing("sync")
    /\ copy' = words["user"]
    /\ Go
    /\ UNCHANGED <<place, held, words, moving, ideal, bounced, met, outcome, irq>>

\* A scattered buffer is given up when its first entry has fewer bytes than
\* there are words to show; one with more may still have too few.
TestScattered ==
    /\ Doing("scattered")
    /\ \/ Go /\ UNCHANGED <<held, met, memory>>
       \/ Go /\ Meet("short") /\ UNCHANGED <<held, memory>>
       \/ NextTest /\ Meet("early") /\ held' = held \ {"kernel", "user", "file"}
          /\ Forget({"kernel", "user"})
    /\ UNCHANGED <<place, bounced, outcome, irq>>

-----------------------------------------------------------------------------
\* testInterrupts, and the thread it makes before it opens the device.
CreateThread ==
    /\ Doing("create")
    /\ thread' = [thread EXCEPT ![number] = "test"]
    /\ alive' = TRUE /\ mutex' = "free"
    /\ Go
    /\ UNCHANGED <<place, held, memory, bounced, met, outcome>>

StopThread ==
    /\ Doing("stop")
    /\ alive' = FALSE
    /\ Go
    /\ UNCHANGED <<place, held, memory, bounced, met, outcome, thread, mutex>>

\* Nobody has locked the mutex, so this does not wait for the thread.
LockMutex ==
    /\ Doing("lock") /\ mutex = "free"
    /\ mutex' = "locked"
    /\ Go
    /\ UNCHANGED <<place, held, memory, bounced, met, outcome, thread, alive>>

DestroyMutex ==
    /\ Doing("destroy")
    /\ mutex' = "destroyed"
    /\ Go
    /\ UNCHANGED <<place, held, memory, bounced, met, outcome, thread, alive>>

HandlerTest(n) ==
    /\ Running /\ thread[n] = "test"
    /\ thread' = [thread EXCEPT ![n] = IF alive THEN "wait" ELSE "unlock"]
    /\ UNCHANGED <<place, script, held, memory, bounced, met, outcome, alive, mutex>>

\* waitForInterrupt on an object that is closed, or deleted, ends the program.
HandlerWait(n) ==
    /\ Running /\ thread[n] = "wait"
    /\ IF n = number /\ "file" \in held
       THEN thread' = [thread EXCEPT ![n] = "ioctl"] /\ UNCHANGED <<met, outcome>>
       ELSE Meet("race") /\ outcome' = "terminated" /\ UNCHANGED thread
    /\ UNCHANGED <<place, script, held, memory, bounced, alive, mutex>>

\* An interrupt (external): the thread counts it and goes round.
Interrupt(n) ==
    /\ Running /\ thread[n] = "ioctl"
    /\ thread' = [thread EXCEPT ![n] = "test"]
    /\ UNCHANGED <<place, script, held, memory, bounced, met, outcome, alive, mutex>>

HandlerUnlock(n) ==
    /\ Running /\ thread[n] = "unlock"
    /\ thread' = [thread EXCEPT ![n] = "gone"]
    /\ mutex' = IF mutex = "locked" THEN "free" ELSE mutex
    /\ UNCHANGED <<place, script, held, memory, bounced, met, outcome, alive>>

Handler(n) == HandlerTest(n) \/ HandlerWait(n) \/ Interrupt(n) \/ HandlerUnlock(n)

-----------------------------------------------------------------------------
TestOver ==
    /\ Running /\ todo = <<>> /\ tests # <<>>
    /\ NextTest
    /\ UNCHANGED <<place, held, memory, bounced, met, outcome, irq>>

Over == Running /\ todo = <<>> /\ tests = <<>>

\* main: the next device, with a memory of its own, or the end.  What a device's
\* tests forgot is no longer at hand.
Main ==
    /\ Over
    /\ IF number + 1 \in Numbers
       THEN /\ number' = number + 1
            /\ tests' = Tail(TestDevice(program)) /\ todo' = Head(TestDevice(program))
            /\ UNCHANGED outcome
       ELSE outcome' = "done" /\ UNCHANGED <<number, script>>
    /\ held' = {} /\ met' = {}
    /\ Forget(Memories)
    /\ UNCHANGED <<program, bounced, irq>>

Next ==
    \/ Acquires \/ Releases \/ GetSize \/ PcieCallFails \/ DmaCallFails \/ CCallFails
    \/ PokeRegs \/ FillMemory \/ ShowMemory \/ StartDMA \/ Sleeps \/ SyncUser
    \/ TestScattered
    \/ CreateThread \/ StopThread \/ LockMutex \/ DestroyMutex
    \/ TestOver \/ Main
    \/ \E c \in Cells : Move(c)
    \/ \E n \in Numbers : Handler(n)

Spec == Init /\ [][Next]_vars

-----------------------------------------------------------------------------
TypeOK ==
    /\ program \in Programs /\ number \in Numbers
    /\ held \subseteq Things /\ met \subseteq Hindrances
    /\ words \in [Memories -> [Cells -> Patterns]]
    /\ ideal \in [Memories -> [Cells -> Patterns]]
    /\ copy \in [Cells -> Patterns] /\ bounced \in BOOLEAN
    /\ moving \in [from : Memories, to : Memories, left : SUBSET Cells]
    /\ outcome \in {"running", "done", "exited", "terminated"}
    /\ thread \in [Numbers -> {"none", "test", "wait", "ioctl", "unlock", "gone"}]
    /\ alive \in BOOLEAN /\ mutex \in {"free", "locked", "destroyed"}

\* A device whose tests met no failure, and were not given up, has got back all
\* that they took: object, file, BARs and buffers (testPCIeBoard.cpp:371-386,
\* testDMA.cpp:515-529, testDMA_c.c:151-155).
NothingLeft == Over /\ met \cap {"failure", "early"} = {} => held = {}

\* What a test shows is what it wrote and what the board was told to move,
\* if the board was done before the sleep and the words were where the board
\* looked for them: not in a bounce buffer that the sync wrote over, and not
\* beyond a short first entry (testPCIeBoard.cpp:215-369, testDMA.cpp:304-363).
ShownTrue ==
    Doing("show") /\ "late" \notin met =>
        words[Arg] = ideal[Arg] \/ "short" \in met \/ (Arg = "user" /\ bounced)

-----------------------------------------------------------------------------
\* The inductive invariant: what the rest of the program still gives back, that
\* it sleeps after each transfer, and that it fills and syncs the user buffer
\* before it sends it.
Statements ==
    {Acquire(x) : x \in Things \ {"lock"}} \cup {Release(x) : x \in Things \ {"lock"}}
    \cup {Fill(m, p) : m \in Memories, p \in Patterns} \cup {Show(m) : m \in Memories}
    \cup {Start(m, n) : m \in Memories, n \in Memories}
    \cup {Size, Poke, Sleep, Sync, Scattered, Create, Stop, Lock, Destroy}

\* Statement i of s.
Starts(s, i) == s[i][1] = "start"
Sends(s, i) == Starts(s, i) /\ s[i][2] = "user"
Brings(s, i) == Starts(s, i) /\ s[i][3] = "user"
Fills(s, i) == s[i][1] = "fill" /\ s[i][2] = "user"
Gives(s, i, x) == s[i][1] = "release" /\ x \in Given(s[i][2])

GivenBy(s) == {x \in Things : \E i \in 1 .. Len(s) : Gives(s, i, x)}

\* What s acquires it gives back itself, or it is in later.
Returned(s, later) ==
    \A i \in 1 .. Len(s) :
        s[i][1] = "acquire" =>
            s[i][2] \in later \/ \E j \in i + 1 .. Len(s) : Gives(s, j, s[i][2])

Slept(s) ==
    \A i \in 1 .. Len(s) :
        Starts(s, i) => s[i][2] # s[i][3] /\ i < Len(s) /\ s[i + 1] = Sleep

\* Since the statement k, and the sync j, nothing has come in between.
NotBrought(s, k, i) == \A l \in k + 1 .. i - 1 : ~Brings(s, l)
NotFilled(s, j, i) == \A l \in j + 1 .. i - 1 : ~Fills(s, l)

FilledAndSynced(s, i) ==
    \E k \in 1 .. i - 1 : \E j \in k + 1 .. i - 1 :
        Fills(s, k) /\ s[j] = Sync /\ NotBrought(s, k, i) /\ NotFilled(s, j, i)

Prepared(s) == \A i \in 1 .. Len(s) : Sends(s, i) => FilledAndSynced(s, i)

Scripted ==
    /\ todo \in Seq(Statements) /\ Slept(todo)
    /\ tests \in Seq(Seq(Statements))
    /\ \A k \in 1 .. Len(tests) :
          Slept(tests[k]) /\ Prepared(tests[k]) /\ Returned(tests[k], {})

GivenLater == UNION {GivenBy(tests[k]) : k \in 1 .. Len(tests)}

WillReturn ==
    met \cap {"failure", "early"} = {} =>
        held \subseteq GivenBy(todo) \cup GivenLater /\ Returned(todo, GivenLater)

\* Where words are those they should be, but for the ones that are moving.
Direct == {"board", "kernel"} \cup (IF bounced THEN {} ELSE {"user"})

WordsInOrder ==
    /\ moving.left # {} => todo # <<>> /\ Head(todo) = Sleep /\ moving.from # moving.to
    /\ \A m \in Direct, c \in Cells :
          m # moving.to \/ c \notin moving.left => words[m][c] = ideal[m][c]
    /\ \A c \in moving.left : ideal[moving.to][c] = Seen(moving.from)[c]

\* The user's words, and those of the bounce buffer, before each transfer that
\* sends them.
Clean == words["user"] = ideal["user"] /\ (moving.left = {} \/ moving.to # "user")

UserInOrder ==
    bounced =>
        \A i \in 1 .. Len(todo) :
            Sends(todo, i) =>
                \/ FilledAndSynced(todo, i)
                \/ /\ Clean /\ NotBrought(todo, 0, i)
                   /\ \E j \in 1 .. i - 1 : todo[j] = Sync /\ NotFilled(todo, j, i)
                \/ /\ Clean /\ copy = words["user"]
                   /\ NotBrought(todo, 0, i) /\ NotFilled(todo, 0, i)

IInv ==
    /\ TypeOK /\ Scripted /\ WillReturn
    /\ met \cap {"late", "short"} = {} => WordsInOrder /\ UserInOrder
=============================================================================
