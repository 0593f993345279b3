------------------------------- MODULE DmaWait -------------------------------
(***************************************************************************)
(* Waiting for a DMA channel: the library's DMAEngineWG on the two         *)
(* channels of a board, the driver's interrupt handler (int.c) and the     *)
(* wait ioctl between them.                                                *)
(*                                                                         *)
(* User threads and the handler share one register, ABB_INT_ENABLE, and    *)
(* nothing orders their accesses: enableInterrupt is a read and a write    *)
(* over PCI, and the masks `!interrupt' and `!INTE_CH0' are logical        *)
(* negations, so both the handler and disableInterrupt write zero to the   *)
(* whole register whatever they read.                                      *)
(*                                                                         *)
(* The board is external.  From the code that drives it: a channel raises  *)
(* its done or timeout bit when a transfer ends and keeps it until the     *)
(* channel is reset (the code has no other way to clear it); the status    *)
(* register shows the bits whose channel is enabled, and the line is       *)
(* asserted while it shows one.  The done bit is raised with or without    *)
(* CTRL_EDI, which the code sets for kernel buffers only although          *)
(* testABB.cpp waits with interrupts for both kinds.  "busy" stands for    *)
(* BUSY and ERROR, which the code treats alike.                            *)
(*                                                                         *)
(* The wait ioctl is the counting semaphore of IrqQueue, which IrqWait is  *)
(* shown to implement.                                                     *)
(***************************************************************************)
EXTENDS Naturals, FiniteSets

CONSTANTS
    Threads,        \* user threads calling the DMA engine
    IgThreads,      \* user threads driving the interrupt generator
    MaxPending      \* bound: interrupts pending on one queue

ASSUME ThreadsAssumption ==
    /\ Threads \cap IgThreads = {}
    /\ IsFiniteSet(Threads) /\ IsFiniteSet(IgThreads)
ASSUME BoundAssumption == MaxPending \in Nat

Channels == {0, 1}      \* 0 is host2board, 1 is board2host
IG       == 2           \* ABB_IRQ_IG
Sources  == Channels \cup {IG}

\* Bits of ABB_INT_STAT with the wait queue int.c wakes for each.
Bits == {"CH0", "CH1", "IG", "CH0_TIMEOUT", "CH1_TIMEOUT"}
QueueOf(b) == IF b \in {"CH0", "CH0_TIMEOUT"} THEN 0
              ELSE IF b \in {"CH1", "CH1_TIMEOUT"} THEN 1
              ELSE IG
Done(c)  == IF c = 0 THEN "CH0" ELSE "CH1"
Tout(c)  == IF c = 0 THEN "CH0_TIMEOUT" ELSE "CH1_TIMEOUT"

VARIABLES
    enable,         \* ABB_INT_ENABLE: the sources in it
    raised,         \* bits the board holds raised
    engine,         \* status word of each channel
    hpc, bit,       \* the handler: its position and the bit it found set
    pending,        \* pending interrupts of each queue (IrqQueue)
    useInterrupts,  \* DMAEngineWG::useInterrupts
    pc, ch, reg,    \* each thread: position, channel, register value read
    ret,            \* each thread: how its last wait ended
    overlap         \* history: two threads had the register in use at once

board == <<raised, engine>>
handler == <<hpc, bit>>
thread == <<pc, ch, reg, ret>>
vars == <<enable, board, handler, pending, useInterrupts, overlap, thread>>

PC == {"ready", "send", "sendlock", "check", "read", "write", "ioctl", "disable"}

Init ==
    /\ enable = {}
    /\ raised = {}
    /\ engine = [c \in Channels |-> "idle"]
    /\ hpc = "idle"
    /\ bit = "IG"
    /\ pending = [s \in Sources |-> 0]
    /\ useInterrupts = FALSE
    /\ overlap = FALSE
    /\ pc = [t \in Threads \cup IgThreads |-> "ready"]
    /\ ch = [t \in Threads \cup IgThreads |-> IF t \in Threads THEN 0 ELSE IG]
    /\ reg = [t \in Threads \cup IgThreads |-> {}]
    /\ ret = [t \in Threads \cup IgThreads |-> "none"]

Queue == INSTANCE IrqQueue

Goto(t, from, to) == pc[t] = from /\ pc' = [pc EXCEPT ![t] = to]

-----------------------------------------------------------------------------
\* The board (external).

\* The bits the status register shows: a channel's two bits are gated by the
\* one enable bit the library has for it.
Visible == {b \in raised : QueueOf(b) \in enable}

\* A transfer ends, or the board gives it up.
Finish(c) ==
    /\ engine[c] = "busy"
    /\ \/ /\ engine' = [engine EXCEPT ![c] = "idle"]
          /\ raised' = raised \cup {Done(c)}
       \/ /\ engine' = [engine EXCEPT ![c] = "timeout"]
          /\ raised' = raised \cup {Tout(c)}
    /\ UNCHANGED <<enable, handler, pending, useInterrupts, overlap, thread>>

\* The interrupt generator fires.
Generate ==
    /\ IgThreads # {}
    /\ "IG" \notin raised
    /\ raised' = raised \cup {"IG"}
    /\ UNCHANGED <<enable, engine, handler, pending, useInterrupts, overlap, thread>>

-----------------------------------------------------------------------------
\* The interrupt handler (int.c).

\* The order in which pcidriver_irq_acknowledge tests the bits; it stops at
\* the first it finds.
First(bits) ==
    IF "CH0" \in bits THEN "CH0"
    ELSE IF "CH1" \in bits THEN "CH1"
    ELSE IF "IG" \in bits THEN "IG"
    ELSE IF "CH0_TIMEOUT" \in bits THEN "CH0_TIMEOUT"
    ELSE "CH1_TIMEOUT"

\* Mutation variant: the timeout bit of channel 1 is not looked at.
StatusSkipsTimeout1 ==
    /\ hpc = "idle"
    /\ Visible \ {"CH1_TIMEOUT"} # {}
    /\ pending[QueueOf(First(Visible))] < MaxPending
    /\ hpc' = "ack"
    /\ bit' = First(Visible)
    /\ UNCHANGED <<enable, board, pending, useInterrupts, overlap, thread>>

\* The line is asserted: the status register is read until a bit is found.
HandlerStatus ==
    /\ hpc = "idle"
    /\ Visible # {}
    /\ pending[QueueOf(First(Visible))] < MaxPending
    /\ hpc' = "ack"
    /\ bit' = First(Visible)
    /\ UNCHANGED <<enable, board, pending, useInterrupts, overlap, thread>>

\* Mutation variant: the handler leaves the enable register alone.
AckKeepsEnable ==
    /\ hpc = "ack"
    /\ hpc' = "credit"
    /\ raised' = raised \ ({bit} \cap {"IG"})
    /\ UNCHANGED <<enable, engine, bit, pending, useInterrupts, overlap, thread>>

\* `ENABLE &= !interrupt' clears every enable bit; for the generator the
\* request itself is acknowledged too.
HandlerAck ==
    /\ hpc = "ack"
    /\ hpc' = "credit"
    /\ enable' = {}
    /\ raised' = raised \ ({bit} \cap {"IG"})
    /\ UNCHANGED <<engine, bit, pending, useInterrupts, overlap, thread>>

\* atomic_inc and wake_up, the handler returns.
HandlerCredit ==
    /\ hpc = "credit"
    /\ hpc' = "idle"
    /\ Queue!Deliver(QueueOf(bit))
    /\ UNCHANGED <<enable, board, bit, useInterrupts, overlap, thread>>

Handler == HandlerStatus \/ HandlerAck \/ HandlerCredit

-----------------------------------------------------------------------------
\* DMAEngineWG in the calling thread.

\* A channel has one user at a time, and a running transfer is not started
\* again: what the application must see to.
Free(c) == /\ engine[c] # "busy"
           /\ \A t \in Threads : pc[t] = "ready" \/ ch[t] # c

\* host2board and board2host: reset the channel and, when polling, write
\* zero to the enable register.  The transfer is then sent.
Start(t, c, lock) ==
    /\ Free(c)
    /\ Goto(t, "ready", IF lock THEN "sendlock" ELSE "send")
    /\ ch' = [ch EXCEPT ![t] = c]
    /\ engine' = [engine EXCEPT ![c] = "idle"]
    /\ raised' = raised \ {Done(c), Tout(c)}
    /\ enable' = IF useInterrupts THEN enable ELSE {}
    /\ ret' = [ret EXCEPT ![t] = "none"]
    /\ UNCHANGED <<handler, pending, useInterrupts, overlap, reg>>

\* The control word is written last and starts the transfer; with lock the
\* call goes on to waitChannel.
Send(t) ==
    /\ \/ Goto(t, "send", "ready")
       \/ Goto(t, "sendlock", "check")
    /\ engine' = [engine EXCEPT ![ch[t]] = "busy"]
    /\ UNCHANGED <<enable, raised, handler, pending, useInterrupts, overlap, ch, reg, ret>>

\* waitChannel called for a transfer started without lock.
WaitChannel(t, c) ==
    /\ \A u \in Threads \ {t} : pc[u] = "ready" \/ ch[u] # c
    /\ Goto(t, "ready", "check")
    /\ ch' = [ch EXCEPT ![t] = c]
    /\ ret' = [ret EXCEPT ![t] = "none"]
    /\ UNCHANGED <<enable, board, handler, pending, useInterrupts, overlap, reg>>

\* The status test.  A channel that is idle or timed out needs no wait.
CheckOver(t) ==
    /\ engine[ch[t]] \in {"idle", "timeout"}
    /\ Goto(t, "check", "ready")
    /\ ret' = [ret EXCEPT ![t] = "OK"]
    /\ UNCHANGED <<enable, board, handler, pending, useInterrupts, overlap, ch, reg>>

\* Polling, the loop gives up when the caller's timeout has passed.
PollTimeout(t) ==
    /\ ~useInterrupts
    /\ engine[ch[t]] = "busy"
    /\ Goto(t, "check", "ready")
    /\ ret' = [ret EXCEPT ![t] = "DMA_TIMEOUT"]
    /\ UNCHANGED <<enable, board, handler, pending, useInterrupts, overlap, ch, reg>>

\* With interrupts, a busy channel is waited for.
CheckBusy(t) ==
    /\ useInterrupts
    /\ engine[ch[t]] = "busy"
    /\ Goto(t, "check", "read")
    /\ UNCHANGED <<enable, board, handler, pending, useInterrupts, overlap, ch, reg, ret>>

\* Between the read that begins an enable and the write that ends the wait.
Using(t) == pc[t] \in {"write", "ioctl", "disable"}

\* enableInterrupt, `*inte |= mask': the read and the write.  The interrupt
\* generator's enable has the same form.  EnableNextBit is a mutation
\* variant: the masks of the channels are off by one.
EnableRead(t) ==
    /\ Goto(t, "read", "write")
    /\ reg' = [reg EXCEPT ![t] = enable]
    /\ overlap' = (overlap \/ \E u \in Threads \cup IgThreads : Using(u))
    /\ UNCHANGED <<enable, board, handler, pending, useInterrupts, ch, ret>>

EnableNextBit(t) ==
    /\ Goto(t, "write", "ioctl")
    /\ enable' = reg[t] \cup {ch[t] + 1}
    /\ UNCHANGED <<board, handler, pending, useInterrupts, overlap, ch, reg, ret>>

EnableWrite(t) ==
    /\ Goto(t, "write", "ioctl")
    /\ enable' = reg[t] \cup {ch[t]}
    /\ UNCHANGED <<board, handler, pending, useInterrupts, overlap, ch, reg, ret>>

\* waitForInterrupt: the wait ioctl returns.
WaitForInterrupt(t) ==
    /\ Goto(t, "ioctl", "disable")
    /\ Queue!Take(ch[t])
    /\ UNCHANGED <<enable, board, handler, useInterrupts, overlap, ch, reg, ret>>

\* disableInterrupt clears the whole register; then the caller's timeout, if
\* it has one, is compared with the time the wait took.
DisableInterrupt(t) ==
    /\ Goto(t, "disable", "ready")
    /\ enable' = {}
    /\ \E r \in {"OK", "DMA_TIMEOUT"} : ret' = [ret EXCEPT ![t] = r]
    /\ UNCHANGED <<board, handler, pending, useInterrupts, overlap, ch, reg>>

\* setUseInterrupts: "should not be change while DMA transactions are
\* ongoing" (DMAEngineWG.h).
SetUseInterrupts ==
    /\ \A c \in Channels : engine[c] # "busy"
    /\ \A t \in Threads : pc[t] = "ready"
    /\ useInterrupts' = ~useInterrupts
    /\ UNCHANGED <<enable, board, handler, pending, overlap, thread>>

\* A thread that uses the interrupt generator enables it and waits for it.
IgWait(t) ==
    /\ Goto(t, "ready", "read")
    /\ ret' = [ret EXCEPT ![t] = "none"]
    /\ UNCHANGED <<enable, board, handler, pending, useInterrupts, overlap, ch, reg>>

InWait(t) == CheckOver(t) \/ CheckBusy(t) \/ EnableRead(t) \/ EnableWrite(t)
               \/ WaitForInterrupt(t) \/ DisableInterrupt(t) \/ Send(t)

Next ==
    \/ Handler
    \/ Generate
    \/ SetUseInterrupts
    \/ \E c \in Channels : Finish(c)
    \/ \E t \in Threads, c \in Channels :
          WaitChannel(t, c) \/ \E lock \in BOOLEAN : Start(t, c, lock)
    \/ \E t \in Threads : PollTimeout(t) \/ InWait(t)
    \/ \E t \in IgThreads :
          \/ IgWait(t) \/ EnableRead(t) \/ EnableWrite(t)
          \/ WaitForInterrupt(t) \/ DisableInterrupt(t)

Spec == Init /\ [][Next]_vars

\* A transfer that was started ends or times out, an asserted line is
\* served, a runnable thread runs.  The generator and new transfers are not
\* obliged to happen.
Fairness ==
    /\ \A c \in Channels : WF_vars(Finish(c))
    /\ WF_vars(Handler)
    /\ \A t \in Threads : WF_vars(InWait(t))

FairSpec == Spec /\ Fairness

-----------------------------------------------------------------------------
\* The sources somebody has a use for.
Usable == Channels \cup (IF IgThreads = {} THEN {} ELSE {IG})

TypeOK ==
    /\ enable \subseteq Usable
    /\ raised \subseteq Bits
    /\ engine \in [Channels -> {"idle", "busy", "timeout"}]
    /\ hpc \in {"idle", "ack", "credit"}
    /\ bit \in Bits
    /\ pending \in [Sources -> Nat]
    /\ useInterrupts \in BOOLEAN
    /\ overlap \in BOOLEAN
    /\ pc \in [Threads \cup IgThreads -> PC]
    /\ ch \in [Threads \cup IgThreads -> Sources]
    /\ \A t \in Threads : ch[t] \in Channels
    /\ reg \in [Threads \cup IgThreads -> SUBSET Usable]
    /\ ret \in [Threads \cup IgThreads -> {"none", "OK", "DMA_TIMEOUT"}]

\* Interrupts of channel c on their way to a waiter: credited or about to be.
Credits(c) == pending[c] + (IF hpc # "idle" /\ QueueOf(bit) = c THEN 1 ELSE 0)

\* As long as no two threads used the enable register at once, a wait that
\* returns without an exception leaves its channel idle or timed out, never
\* busy: the buffer may be used (DMAEngineWG.cpp:150-156).
WaitMeansDone ==
    [][\A t \in Threads :
          (~overlap /\ pc[t] # "ready" /\ pc'[t] = "ready" /\ ret'[t] = "OK")
              => engine[ch[t]] # "busy"]_vars

\* Under the same condition a channel has at most one interrupt in flight,
\* and only while its own thread waits for it and the transfer is over: no
\* later wait is satisfied by an interrupt of an earlier transfer
\* (int.c:222-228).
NoStaleCredit ==
    \A c \in Channels :
        (~overlap /\ Credits(c) > 0) =>
            /\ Credits(c) = 1
            /\ engine[c] # "busy"
            /\ \E t \in Threads : pc[t] = "ioctl" /\ ch[t] = c

\* The driver never counts more interrupts than there are threads to take
\* them, whatever stale value an enable wrote back: an enable is good for one
\* interrupt, of any source, and belongs to one wait (int.c:222-228,
\* DMAEngineWG.cpp:110-140, InterruptGenerator.h:32-47).  Of a register that
\* is not empty one more interrupt may still come, unless the handler is
\* about to clear it.
Waiting == {t \in Threads \cup IgThreads : pc[t] = "ioctl"}
Counted == pending[0] + pending[1] + pending[IG]
InHandler == IF hpc = "idle" THEN 0 ELSE 1
MayCome == IF enable # {} /\ hpc # "ack" THEN 1 ELSE 0
NoSurplus == Counted + InHandler + MayCome <= Cardinality(Waiting)

\* Whoever waits for a channel gets out of waitChannel.
WaitReturns == \A t \in Threads : (pc[t] # "ready") ~> (pc[t] = "ready")

\* The same, unless another thread uses the enable register meanwhile: the
\* interrupt cannot slip between the status test, the enable and the sleep
\* (DMAEngineWG.cpp:150-180, int.c:222-228).
LoneWaitReturns ==
    \A t \in Threads : (pc[t] # "ready") ~> (pc[t] = "ready" \/ overlap)
=============================================================================
