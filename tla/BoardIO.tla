------------------------------- MODULE BoardIO -------------------------------
(***************************************************************************)
(* The board objects of the framework: how ABB, ML605 and MPRACE2 come     *)
(* into being and go, and the word, block and DMA calls of ABB and ML605   *)
(* (ABB.cpp, ML605.cpp, MPRACE2.cpp, Board.cpp, PCIDriver.cpp).            *)
(*                                                                         *)
(* A board has a window on its registers, its memory and its FIFO.         *)
(* Beside the windows, as the code leaves them, the model keeps them as    *)
(* the calls asked for (want).  To a block the FIFO follows the memory.    *)
(* A call through a pointer that leaves the mapped window ends the         *)
(* behaviour.  The accesses of MPRACE2 are in MainFpga, the transfers the  *)
(* engine makes in DescriptorList.                                         *)
(***************************************************************************)
EXTENDS Integers, Sequences

CONSTANTS
    Kinds,      \* classes constructed
    Word,       \* values of an unsigned int, where addresses wrap
    Size,       \* words of the windows mem, fifo and regs
    MaxInc,     \* words an incrementing transfer of ABB may have
    Counts,     \* lengths of blocks tried
    Lengths     \* lengths of transfers tried

Windows == {"mem", "fifo", "regs"}
Offsets(w) == 0 .. Size[w] - 1
Addresses == 0 .. Word - 1
Bits == {0, 1}

VARIABLES
    kind, life,     \* class; none, alive, failed, dead or crashed
    fd, bars,       \* the driver's handle is open; BARs mapped
    log, lost,      \* a logger is set; one was overwritten
    store, want,    \* words on the board, and as asked for
    got, wanted,    \* words the last call returned, and as asked for
    outcome,        \* how the last call ended
    misled          \* history: a block that does not end in the memory was moved

object == <<kind, life, fd, bars>>
loggers == <<log, lost>>
data == <<store, want, got, wanted, misled>>
vars == <<object, loggers, data, outcome>>

None == <<>>

Init ==
    /\ kind = "none" /\ life = "none"
    /\ fd = FALSE /\ bars = {}
    /\ log = FALSE /\ lost = FALSE
    /\ store = [w \in Windows |-> [a \in Offsets(w) |-> 0]]
    /\ want = store
    /\ got = None /\ wanted = None
    /\ outcome = "ok"
    /\ misled = FALSE

-----------------------------------------------------------------------------
\* PCIDriver: mmapArea maps a BAR once, unmapArea takes it back, and the
\* destructor closes the handle.
MmapAreas(order, n) == bars' = {order[i] : i \in 1 .. n}

\* A constructor that fails leaves what it had done: the object is not there
\* to be destroyed, and nothing else knows the driver.  n BARs were mapped.
Construct(k, order) ==
    /\ life = "none" /\ k \in Kinds
    /\ kind' = k
    /\ \/ life' = "alive" /\ fd' = TRUE /\ MmapAreas(order, Len(order))
       \/ life' = "failed" /\ fd' = FALSE /\ bars' = {}
       \/ /\ life' = "failed" /\ fd' = TRUE
          /\ \E n \in 0 .. Len(order) : MmapAreas(order, n)
    /\ UNCHANGED <<loggers, data>>

\* ABB and ML605 pass on what they know, MPRACE2 calls everything UNKNOWN.
AbbConstruct ==
    /\ Construct("ABB", <<1, 0, 2>>)
    /\ outcome' \in IF life' = "alive" THEN {"ok"} ELSE {"thrown", "UNKNOWN"}
Ml605Construct ==
    /\ Construct("ML605", <<1, 0, 2>>)
    /\ outcome' \in IF life' = "alive" THEN {"ok"} ELSE {"thrown", "UNKNOWN"}
Mprace2Construct ==
    /\ Construct("MPRACE2", <<1, 0, 3, 2>>)
    /\ outcome' = IF life' = "alive" THEN "ok" ELSE "UNKNOWN"

Alive(k) == life = "alive" /\ kind = k

UnmapAreas(areas) == bars' = bars \ areas

\* Board's destructor deletes the logger, PCIDriver's closes the handle.
Destroy(k, areas) ==
    /\ Alive(k)
    /\ life' = "dead"
    /\ UnmapAreas(areas)
    /\ fd' = FALSE
    /\ log' = FALSE
    /\ outcome' = "ok"
    /\ UNCHANGED <<kind, lost, data>>

\* AbbDestroyKeepsFifo is a mutation variant.
AbbDestroyKeepsFifo == Destroy("ABB", {0, 1})

AbbDestroy == Destroy("ABB", {0, 1, 2})
Ml605Destroy == Destroy("ML605", {0, 1, 2})
Mprace2Destroy == Destroy("MPRACE2", {0, 1, 2, 3})

EnableLog ==
    /\ life = "alive"
    /\ log' = TRUE
    /\ lost' = (lost \/ log)
    /\ UNCHANGED <<object, data, outcome>>

DisableLog ==
    /\ life = "alive"
    /\ log' = FALSE
    /\ UNCHANGED <<object, lost, data, outcome>>

-----------------------------------------------------------------------------
Returns(r) == outcome' = r /\ UNCHANGED <<object, loggers>>

\* A call that throws has done nothing.
Throws(e) ==
    /\ got' = None /\ wanted' = None
    /\ UNCHANGED <<store, want, misled>>
    /\ Returns(e)

Written(s, t) ==
    /\ store' = s /\ want' = t
    /\ got' = None /\ wanted' = None
    /\ Returns("ok")

Answer(s, t) ==
    /\ got' = s /\ wanted' = t
    /\ UNCHANGED <<store, want>>
    /\ Returns("ok")

\* The word accesses.
PutWord(w, a, v) ==
    IF a < Size[w]
    THEN Written([store EXCEPT ![w][a] = v], [want EXCEPT ![w][a] = v]) /\ UNCHANGED misled
    ELSE Throws("ADDRESS_OUT_OF_RANGE")

GetWord(w, a) ==
    IF a < Size[w]
    THEN Answer(<<store[w][a]>>, <<want[w][a]>>) /\ UNCHANGED misled
    ELSE Throws("ADDRESS_OUT_OF_RANGE")

AbbSetReg(a, v) == Alive("ABB") /\ PutWord("regs", a, v)
AbbGetReg(a) == Alive("ABB") /\ GetWord("regs", a)
AbbWrite(a, v) == Alive("ABB") /\ PutWord("mem", a, v)
AbbWriteFIFO(a, v) == Alive("ABB") /\ PutWord("fifo", a, v)
AbbRead(a) == Alive("ABB") /\ GetWord("mem", a)
AbbReadFIFO(a) == Alive("ABB") /\ GetWord("fifo", a)

Ml605SetReg(a, v) == Alive("ML605") /\ PutWord("regs", a, v)
Ml605GetReg(a) == Alive("ML605") /\ GetWord("regs", a)
Ml605Write(a, v) == Alive("ML605") /\ PutWord("mem", a, v)
Ml605WriteFIFO(a, v) == Alive("ML605") /\ PutWord("fifo", a, v)
Ml605Read(a) == Alive("ML605") /\ GetWord("mem", a)
Ml605ReadFIFO(a) == Alive("ML605") /\ GetWord("fifo", a)

\* FIFO, DMA and configuration calls a class does not define.
Unsupported ==
    /\ life = "alive"
    /\ \/ kind = "MPRACE2" /\ Throws("FIFO_NOT_SUPPORTED")
       \/ kind = "MPRACE2" /\ Throws("DMA_NOT_SUPPORTED")
       \/ Throws("CONFIG_NOT_SUPPORTED")

-----------------------------------------------------------------------------
\* Blocks.  The end of a block is the word after its last one, which may wrap.
End(a, n, inc) == IF inc THEN (a + n) % Word ELSE a

Within(a, n, inc, limit) == a < limit /\ End(a, n, inc) < limit

InMemory(a, n, inc) == Within(a, n, inc, Size.mem)
InFifo(a, n, inc) ==
    ~InMemory(a, n, inc) /\ Within(a, n, inc, Size.mem + Size.fifo)

\* First word accessed, in the memory window in either case.
Base(a, n, inc) == IF InMemory(a, n, inc) THEN a ELSE (a - Size.mem) % Word

Touched(b, n, inc) == IF n = 0 THEN {} ELSE IF inc THEN b .. b + n - 1 ELSE {b}

\* The data of a block, told apart by its first word.
Item(v, i) == (v + i) % 2

\* The words of a window after a block was written.  PlacedFirst is a mutation
\* variant.
PlacedFirst(win, b, n, inc, v) ==
    [x \in DOMAIN win |->
        IF x \in Touched(b, n, inc) THEN Item(v, 0) ELSE win[x]]

Placed(win, b, n, inc, v) ==
    [x \in DOMAIN win |->
        IF x \in Touched(b, n, inc)
        THEN Item(v, IF inc THEN x - b ELSE n - 1)
        ELSE win[x]]

\* The words of a block read.
Taken(win, b, n, inc) == [i \in 1 .. n |-> win[IF inc THEN b + i - 1 ELSE b]]

\* The loop leaves the window: there is no telling what it does.
Wild ==
    /\ life' = "crashed"
    /\ UNCHANGED <<kind, fd, bars, loggers, data>>

\* What a block asks for: the address space of the board is the memory and,
\* after it, the FIFO ("write in fifo BAR"); NoWord is what is beyond.
NoWord == 2
Place(w, x) == IF w = "fifo" THEN Size.mem + x ELSE x

Asked(v, a, n, inc) ==
    [w \in Windows |-> [x \in Offsets(w) |->
        CASE w # "regs" /\ inc /\ Place(w, x) >= a /\ Place(w, x) < a + n ->
               (v + Place(w, x) - a) % 2
          [] w # "regs" /\ ~inc /\ n > 0 /\ Place(w, x) = a -> (v + n - 1) % 2
          [] OTHER -> want[w][x]]]

WordAt(p) ==
    CASE p < Size.mem -> want.mem[p]
      [] p >= Size.mem /\ p < Size.mem + Size.fifo -> want.fifo[p - Size.mem]
      [] OTHER -> NoWord

\* The branch for the FIFO works on the memory, and is taken also by a block
\* that ends with the last word of the memory or goes on beyond it.
Misleads(a, n, inc) == misled' = (misled \/ (n > 0 /\ ~InMemory(a, n, inc)))

WriteBlock(a, v, n, inc) ==
    LET b == Base(a, n, inc)
    IN  CASE ~InMemory(a, n, inc) /\ ~InFifo(a, n, inc) ->
               Throws("ADDRESS_OUT_OF_RANGE")
          [] OTHER ->
               IF Touched(b, n, inc) \subseteq Offsets("mem")
               THEN /\ Written([store EXCEPT !.mem = Placed(@, b, n, inc, v)],
                               Asked(v, a, n, inc))
                    /\ Misleads(a, n, inc)
               ELSE Wild /\ outcome' = <<a, n, inc>>

ReadBlock(a, n, inc) ==
    LET b == Base(a, n, inc)
    IN  CASE ~InMemory(a, n, inc) /\ ~InFifo(a, n, inc) ->
               Throws("ADDRESS_OUT_OF_RANGE")
          [] OTHER ->
               IF Touched(b, n, inc) \subseteq Offsets("mem")
               THEN /\ Answer(Taken(store.mem, b, n, inc),
                              [i \in 1 .. n |-> WordAt(IF inc THEN a + i - 1 ELSE a)])
                    /\ Misleads(a, n, inc)
               ELSE Wild /\ outcome' = <<a, n, inc>>

AbbWriteBlock(a, v, n, inc) == Alive("ABB") /\ WriteBlock(a, v, n, inc)
AbbReadBlock(a, n, inc) == Alive("ABB") /\ ReadBlock(a, n, inc)
Ml605WriteBlock(a, v, n, inc) == Alive("ML605") /\ WriteBlock(a, v, n, inc)
Ml605ReadBlock(a, n, inc) == Alive("ML605") /\ ReadBlock(a, n, inc)

-----------------------------------------------------------------------------
\* DMA: the transfer is made by the engine, on the words the call names.  Only
\* the first word is checked, and in ABB the length of transfers that increment.
HandOver(w, a, n, inc, max) ==
    CASE a >= Size[w] -> Throws("ADDRESS_OUT_OF_RANGE")
      [] a < Size[w] /\ inc /\ n > max -> Throws("OVERSIZED_TRANSFER")
      [] OTHER -> Throws("ok")

\* Any length is allowed where the class does not check.
Unbounded == Word

AbbWriteDMA(a, n, inc) == Alive("ABB") /\ HandOver("mem", a, n, inc, MaxInc)
AbbWriteDMAFIFO(a, n, inc) == Alive("ABB") /\ HandOver("fifo", a, n, inc, Unbounded)
AbbReadDMA(a, n, inc) == Alive("ABB") /\ HandOver("mem", a, n, inc, MaxInc)
AbbReadDMAFIFO(a, n, inc) == Alive("ABB") /\ HandOver("fifo", a, n, inc, Unbounded)
Ml605WriteDMA(a, n, inc) == Alive("ML605") /\ HandOver("mem", a, n, inc, Unbounded)
Ml605WriteDMAFIFO(a, n, inc) == Alive("ML605") /\ HandOver("fifo", a, n, inc, Unbounded)
Ml605ReadDMA(a, n, inc) == Alive("ML605") /\ HandOver("mem", a, n, inc, Unbounded)
Ml605ReadDMAFIFO(a, n, inc) == Alive("ML605") /\ HandOver("fifo", a, n, inc, Unbounded)

\* The wait itself is in IrqWait: here it ends, or fails with an exception of
\* the framework or of the library.
WaitForInterrupt ==
    \/ Throws("ok")
    \/ Throws("INTERRUPT_FAILED")

AbbWaitForInterrupt == Alive("ABB") /\ WaitForInterrupt
Ml605WaitForInterrupt == Alive("ML605") /\ WaitForInterrupt

-----------------------------------------------------------------------------
Words ==
    \E a \in Addresses :
        \/ AbbGetReg(a) \/ AbbRead(a) \/ AbbReadFIFO(a)
        \/ Ml605GetReg(a) \/ Ml605Read(a) \/ Ml605ReadFIFO(a)
        \/ \E v \in Bits :
              \/ AbbSetReg(a, v) \/ AbbWrite(a, v) \/ AbbWriteFIFO(a, v)
              \/ Ml605SetReg(a, v) \/ Ml605Write(a, v) \/ Ml605WriteFIFO(a, v)

Blocks ==
    \E a \in Addresses, n \in Counts, inc \in BOOLEAN :
        \/ AbbReadBlock(a, n, inc) \/ Ml605ReadBlock(a, n, inc)
        \/ \E v \in Bits : AbbWriteBlock(a, v, n, inc) \/ Ml605WriteBlock(a, v, n, inc)

Transfers ==
    \E a \in Addresses, n \in Lengths, inc \in BOOLEAN :
        \/ AbbWriteDMA(a, n, inc) \/ AbbWriteDMAFIFO(a, n, inc)
        \/ AbbReadDMA(a, n, inc) \/ AbbReadDMAFIFO(a, n, inc)
        \/ Ml605WriteDMA(a, n, inc) \/ Ml605WriteDMAFIFO(a, n, inc)
        \/ Ml605ReadDMA(a, n, inc) \/ Ml605ReadDMAFIFO(a, n, inc)

Next ==
    \/ AbbConstruct \/ Ml605Construct \/ Mprace2Construct
    \/ AbbDestroy \/ Ml605Destroy \/ Mprace2Destroy
    \/ EnableLog \/ DisableLog \/ Unsupported
    \/ AbbWaitForInterrupt \/ Ml605WaitForInterrupt
    \/ Words \/ Blocks \/ Transfers

Spec == Init /\ [][Next]_vars

-----------------------------------------------------------------------------
TypeOK ==
    /\ kind \in Kinds \cup {"none"}
    /\ life \in {"none", "alive", "failed", "dead", "crashed"}
    /\ fd \in BOOLEAN /\ bars \subseteq 0 .. 3
    /\ log \in BOOLEAN /\ lost \in BOOLEAN
    /\ \A w \in Windows : store[w] \in [Offsets(w) -> Bits] /\ want[w] \in [Offsets(w) -> Bits]
    /\ got \in Seq(Bits) /\ misled \in BOOLEAN

\* Every word on the board is the one the calls asked for, and so was the answer
\* to the last read.  ABB.cpp:279 and 325 say of blocks beyond the memory that
\* they go to the FIFO.
BlocksLand == store = want /\ got = wanted

\* Until a block is taken for one beyond the memory, words and blocks reach the
\* words they name and no others, and what is read is what was written there,
\* whatever calls came between; no block ever reaches a register; and one that
\* ends before the last word of the memory stays within the mapped window
\* (ABB.cpp:177-343, ML605.cpp:95-261).
WordsLand ==
    /\ ~misled => BlocksLand
    /\ store.regs = want.regs
    /\ life = "crashed" =>
          ~ \E a \in Offsets("mem"), n \in Counts, inc \in BOOLEAN :
                outcome = <<a, n, inc>> /\ (IF inc THEN a + n ELSE a) < Size.mem

\* A board that was destroyed leaves no BAR mapped, no handle open and no
\* logger; one that was never completely built may (ABB.cpp:166-175,
\* ML605.cpp:84-93, MPRACE2.cpp:108-117, Board.cpp:34-37).
Released == life = "dead" => ~fd /\ bars = {} /\ ~log

-----------------------------------------------------------------------------
\* The inductive invariant: a board that is there has mapped what its class
\* maps, and which way a call left the window.
BarsOf(k) == IF k = "MPRACE2" THEN 0 .. 3 ELSE 0 .. 2

IInv ==
    /\ TypeOK /\ WordsLand /\ Released
    /\ DOMAIN store = Windows /\ DOMAIN want = Windows
    /\ life = "alive" => bars \subseteq BarsOf(kind)
    /\ life = "none" => bars = {} /\ ~fd
=============================================================================
