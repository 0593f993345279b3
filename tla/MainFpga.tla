------------------------------- MODULE MainFpga -------------------------------
(***************************************************************************)
(* The accesses of MPRACE2 to its main FPGA (MPRACE2.cpp).                 *)
(*                                                                         *)
(* A read does not only load: before it, the object writes the address     *)
(* and the length into three registers of the main FPGA, which then        *)
(* begins to send.  The registers lie in the same window as the memory,    *)
(* and nothing keeps two readers apart.  Words are named by their place    *)
(* in the window; what they hold is left out but for the three registers.  *)
(* A transfer that is not waited for goes on after its call has returned.  *)
(***************************************************************************)
EXTENDS Integers, FiniteSets

CONSTANTS
    Threads,
    Word,           \* values of an unsigned int, where addresses wrap
    MemSize,        \* words of the window
    RegOffset,      \* where the registers begin in it
    BridgeSize,     \* bridge registers
    Addresses,      \* first words tried
    Counts          \* lengths of blocks tried

\* MAIN_SRC_ADDR, MAIN_DEST_ADDR, MAIN_RD_SIZE.
Fields == {"src", "dest", "size"}
Index == [src |-> 1, dest |-> 2, size |-> 3]
MainResetLink == 0
BridgeLinkReg == 0

Idle == [op |-> "idle", addr |-> 0, count |-> 0]

VARIABLES
    announced,      \* the three registers
    call, pc,       \* each thread's call and its next step
    left,           \* words its loop has yet to load
    dma,            \* the transfer to the host that runs, or Idle
    halfReset,      \* one side of the link was reset, the other not yet
    mixed           \* a call began while another or a transfer was under way

vars == <<announced, call, pc, left, dma, halfReset, mixed>>

Init ==
    /\ announced = [f \in Fields |-> 0]
    /\ call = [t \in Threads |-> Idle]
    /\ pc = [t \in Threads |-> "idle"]
    /\ left = [t \in Threads |-> 0]
    /\ dma = Idle
    /\ halfReset = FALSE
    /\ mixed = FALSE

Set(f, t, v) == [f EXCEPT ![t] = v]
Busy(t) == dma # Idle \/ \E o \in Threads \ {t} : pc[o] # "idle"
Join(t) == mixed' = (mixed \/ Busy(t))
\* The last one to leave ends the mixture.
Leave(t) == mixed' = (mixed /\ Busy(t))

\* The registers after a word of the window was written.
Stored(a, v) ==
    [f \in Fields |-> IF a = RegOffset + Index[f] THEN v ELSE announced[f]]

-----------------------------------------------------------------------------
\* Calls of one step.  A call that throws changes nothing.
PutMain(t, a, v) ==
    /\ pc[t] = "idle"
    /\ announced' = IF a < MemSize THEN Stored(a, v) ELSE announced
    /\ IF a < MemSize THEN Join(t) ELSE UNCHANGED mixed
    /\ UNCHANGED <<call, pc, left, dma, halfReset>>

SetReg(t, a, v) == PutMain(t, RegOffset + a, v)
Write(t, a, v) == PutMain(t, a, v)

\* The last word of a block, counted as the program counts.
BlockFits(a, n) == a <= MemSize /\ (a + n - 1) % Word < MemSize

\* Every word from a on gets v.
Fill(t, a, v, n, inc) ==
    /\ announced' = [f \in Fields |->
           IF n > 0 /\ RegOffset + Index[f] \in a .. (IF inc THEN a + n - 1 ELSE a)
           THEN v ELSE announced[f]]
    /\ IF n > 0 THEN Join(t) ELSE UNCHANGED mixed
    /\ UNCHANGED <<call, pc, left, dma, halfReset>>

WriteBlock(t, a, v, n, inc) ==
    /\ pc[t] = "idle"
    /\ IF BlockFits(a, n) THEN Fill(t, a, v, n, inc) ELSE UNCHANGED vars

\* The engine moves data to the board, with no check and no announcement; the
\* call waits for it.
WriteDMA(t, a, v, n, inc) == pc[t] = "idle" /\ n > 0 /\ Fill(t, a, v, n, inc)

SetBridgeReg(t, a) ==
    /\ pc[t] = "idle"
    /\ halfReset' = (halfReset \/ (a < BridgeSize /\ a = BridgeLinkReg))
    /\ UNCHANGED <<announced, call, pc, left, dma, mixed>>

\* The bridge side, a second later the main side.
ResetMGTlink(t) ==
    \/ /\ pc[t] = "idle"
       /\ halfReset' = TRUE
       /\ pc' = Set(pc, t, "link")
       /\ UNCHANGED <<announced, call, left, dma, mixed>>
    \/ /\ pc[t] = "link"
       /\ halfReset' = FALSE
       /\ announced' = Stored(RegOffset + MainResetLink, 0)
       /\ pc' = Set(pc, t, "idle")
       /\ UNCHANGED <<call, left, dma, mixed>>

-----------------------------------------------------------------------------
\* Calls that read.  n is the number of words announced.
Enter(t, op, a, n, times) ==
    /\ pc[t] = "idle"
    /\ call' = Set(call, t, [op |-> op, addr |-> a, count |-> n])
    /\ left' = Set(left, t, times)
    /\ pc' = Set(pc, t, "src")
    /\ Join(t)
    /\ UNCHANGED <<announced, dma, halfReset>>

GetReg(t, a) == RegOffset + a < MemSize /\ Enter(t, "load", RegOffset + a, 1, 1)
Read(t, a) == a < MemSize /\ Enter(t, "load", a, 1, 1)

\* With inc one announcement for the whole block, else one for each word.
ReadBlock(t, a, n, inc) ==
    /\ BlockFits(a, n)
    /\ inc \/ n > 0
    /\ Enter(t, "load", a, IF inc THEN n ELSE 1, n)

\* The address is not checked.  One transfer at a time: a second one finds the
\* channel busy and is left out.
ReadDMA(t, a, n, lock) ==
    /\ n > 0 /\ dma = Idle
    /\ Enter(t, IF lock THEN "dma" ELSE "dmaNoWait", a, n, 0)

\* The three writes, one after the other.  AnnounceSizeOnce is a mutation
\* variant.
NextStep == [src |-> "dest", dest |-> "size", size |-> "load"]
FieldValue(c, f) == IF f = "size" THEN c.count ELSE c.addr

AnnounceSizeOnce(t) ==
    \E f \in Fields :
        /\ pc[t] = f
        /\ announced' = Set(announced, f,
                            IF f = "size" /\ announced.size # 0 THEN announced.size
                            ELSE FieldValue(call[t], f))
        /\ pc' = Set(pc, t, NextStep[f])
        /\ UNCHANGED <<call, left, dma, halfReset, mixed>>

Announce(t) ==
    \E f \in Fields :
        /\ pc[t] = f
        /\ announced' = Set(announced, f, FieldValue(call[t], f))
        /\ pc' = Set(pc, t, NextStep[f])
        /\ UNCHANGED <<call, left, dma, halfReset, mixed>>

Told(c) ==
    announced.src = c.addr /\ announced.dest = c.addr /\ announced.size = c.count

\* One word of the loop; where words are announced one by one, so is the next.
Load(t) ==
    /\ pc[t] = "load" /\ call[t].op = "load"
    /\ left[t] > 0
    /\ left' = Set(left, t, left[t] - 1)
    /\ pc' = IF call[t].count = 1 /\ left[t] > 1 THEN Set(pc, t, "src") ELSE pc
    /\ UNCHANGED <<announced, call, dma, halfReset, mixed>>

Return(t) ==
    /\ \/ pc[t] = "load" /\ call[t].op = "load" /\ left[t] = 0
       \/ pc[t] = "wait" /\ dma = Idle
    /\ pc' = Set(pc, t, "idle")
    /\ call' = Set(call, t, Idle)
    /\ Leave(t)
    /\ UNCHANGED <<announced, left, dma, halfReset>>

\* board2host starts the channel, and waits or not.
StartDMA(t) ==
    /\ pc[t] = "load" /\ call[t].op \in {"dma", "dmaNoWait"} /\ dma = Idle
    /\ dma' = call[t]
    /\ IF call[t].op = "dma"
       THEN pc' = Set(pc, t, "wait") /\ UNCHANGED call
       ELSE pc' = Set(pc, t, "idle") /\ call' = Set(call, t, Idle)
    /\ UNCHANGED <<announced, left, halfReset, mixed>>

\* The wait ends with an exception; the transfer goes on.
GiveUp(t) ==
    /\ pc[t] = "wait"
    /\ pc' = Set(pc, t, "idle")
    /\ call' = Set(call, t, Idle)
    /\ UNCHANGED <<announced, left, dma, halfReset, mixed>>

\* The board moves the data, with the registers as they are then.
DmaDone ==
    /\ dma # Idle
    /\ dma' = Idle
    /\ mixed' = (mixed /\ \E t \in Threads : pc[t] # "idle")
    /\ UNCHANGED <<announced, call, pc, left, halfReset>>

Next ==
    \/ DmaDone
    \/ \E t \in Threads :
          \/ Announce(t) \/ Load(t) \/ Return(t) \/ StartDMA(t) \/ GiveUp(t)
          \/ ResetMGTlink(t)
          \/ \E a \in 0 .. BridgeSize : SetBridgeReg(t, a)
          \/ \E a \in Addresses :
                \/ GetReg(t, a) \/ Read(t, a)
                \/ SetReg(t, a, 0) \/ Write(t, a, 0)
                \/ \E n \in Counts :
                      \/ \E inc \in BOOLEAN :
                            \/ WriteBlock(t, a, 0, n, inc) \/ WriteDMA(t, a, 0, n, inc)
                            \/ ReadBlock(t, a, n, inc)
                      \/ \E lock \in BOOLEAN : ReadDMA(t, a, n, lock)

Spec == Init /\ [][Next]_vars

-----------------------------------------------------------------------------
Calls == [op : {"idle", "load", "dma", "dmaNoWait"},
          addr : Nat, count : Nat]

TypeOK ==
    /\ announced \in [Fields -> Nat]
    /\ call \in [Threads -> Calls]
    /\ pc \in [Threads -> Fields \cup {"idle", "load", "wait", "link"}]
    /\ left \in [Threads -> Nat]
    /\ dma \in Calls
    /\ halfReset \in BOOLEAN /\ mixed \in BOOLEAN

\* Every word that is loaded, or moved by a transfer, is one the main FPGA was
\* told to send, address and length, unless calls were mixed since all was
\* last at rest; whatever was mixed before does no harm any more
\* (MPRACE2.cpp:148-150, 206-208, 255-266, 287-289).
ReadsAnnounced ==
    ~mixed =>
        /\ \A t \in Threads :
              pc[t] = "load" /\ (left[t] > 0 \/ call[t].op \in {"dma", "dmaNoWait"})
                  => Told(call[t])
        /\ dma # Idle => Told(dma)

-----------------------------------------------------------------------------
\* The inductive invariant: how much of a call the main FPGA has been told at
\* each step, and who may be under way when nothing is mixed.
ToldSoFar(t) ==
    /\ pc[t] \in {"dest", "size", "load"} => announced.src = call[t].addr
    /\ pc[t] \in {"size", "load"} => announced.dest = call[t].addr
    /\ pc[t] = "load" => announced.size = call[t].count

Calling(t) == pc[t] \notin {"idle", "link"}

Apart ==
    /\ \A t, o \in Threads : Calling(t) /\ Calling(o) => t = o
    /\ dma # Idle => Told(dma) /\ \A t \in Threads : pc[t] \in {"idle", "link", "wait"}
    /\ \A t \in Threads : ToldSoFar(t)

IInv == TypeOK /\ (~mixed => Apart)
===============================================================================
