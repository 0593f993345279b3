--------------------------- MODULE CreotechStream ---------------------------
(***************************************************************************)
(* Data transfer in the creotech driver (creotech_driver/pcie.c): one      *)
(* program calling the stream ioctls, read and write, the DMA engine of    *)
(* the board filling a buffer of two halves, and the interrupt handler     *)
(* between them.                                                           *)
(*                                                                         *)
(* The program's process and the handler share pcie_descr without a lock:  *)
(* dma_done is set by the handler and reset by the process, wake is set by *)
(* the process and tested by the handler.  The process sleeps on irq_wait  *)
(* with a timeout of 10 ms in the stream ioctls and without one in read    *)
(* and write, and a signal ends the sleep.                                 *)
(*                                                                         *)
(* The board is external: a started transfer ends some time later, raises  *)
(* an interrupt unless it was started with WDMAINTDONE, and is abandoned   *)
(* when the initiator is reset before.  An interrupt that was raised is    *)
(* still delivered after a reset.                                          *)
(***************************************************************************)
EXTENDS Naturals, FiniteSets

CONSTANTS
    Counts,     \* values the program gives SET_DMACOUNT
    Calls       \* calls it makes besides START, NEXT and END

ASSUME CountsAssumption == Counts \subseteq Nat \ {0} /\ 1 \in Counts
ASSUME CallsAssumption ==
    Calls \subseteq {"READ", "WRITE", "RESET", "SET_TLPCOUNT", "SET_DMACOUNT"}

Halves == {0, 1}
NoHalf == 2         \* a write only reads the buffer
Pieces == UNION {0 .. n - 1 : n \in Counts}

VARIABLES
    even,       \* even_buffer
    dmaDone,    \* dma_done
    wake,       \* wake
    dmaCount,   \* dma_count: transfers that make up one half
    running,    \* the transfer on the board: none or one
    missing,    \* the transfers of its current round each half has not received
    irq,        \* the board has raised an interrupt, not yet handled
    hpc,        \* the handler: idle, or about to test wake
    op, pc, k,  \* the process: call, position, transfers of the half started
    retarg,     \* its local retarg, the half it will return
    ret,        \* what the last call returned
    streaming,  \* a stream was started and END_STREAM has not ended it
    held,       \* the half the program was given, until its next call
    disturbed,  \* history: since the last clean START_STREAM the stream was cut
                \* short by a signal or a reset of the initiator, or its buffer
                \* was put to another use
    stray       \* history: since the last START_STREAM, NEXT_STREAM or END_STREAM
                \* was called while no stream was started or it had been ended

driver  == <<even, dmaDone, wake, dmaCount>>
board   == <<running, missing, irq>>
process == <<op, pc, k, retarg>>
program == <<ret, streaming, held>>
history == <<disturbed, stray>>
vars == <<driver, board, hpc, process, program, history>>

Positions == {"idle", "test", "asleep", "test2", "asleep2", "flip", "piece",
              "arm", "fire", "reply", "start", "clear", "done"}

Init ==
    /\ even = FALSE /\ dmaDone = FALSE /\ wake = FALSE
    /\ dmaCount = 1
    /\ running = {}
    /\ missing = [h \in Halves |-> {0}]
    /\ irq = FALSE
    /\ hpc = "idle"
    /\ op = "none" /\ pc = "idle" /\ k = 0 /\ retarg = 0
    /\ ret = "none" /\ streaming = FALSE /\ held = {}
    /\ disturbed = FALSE /\ stray = FALSE

\* The half run_dma fills: !even_buffer ? BUF_SIZE : 0.
Half == IF even THEN 0 ELSE 1

-----------------------------------------------------------------------------
\* The board (external): the transfer ends.
Finish ==
    \E r \in running :
        /\ running' = running \ {r}
        /\ missing' = [h \in Halves |->
                          missing[h] \ (IF h = r.half THEN {r.piece} ELSE {})]
        /\ irq' = (irq \/ r.intr)
        /\ UNCHANGED <<driver, hpc, process, program, history>>

\* fpga_irq_handler: dma_done is set, then wake decides about the wake-up.
HandlerDone ==
    /\ irq /\ hpc = "idle"
    /\ irq' = FALSE
    /\ dmaDone' = TRUE
    /\ hpc' = "wake"
    /\ UNCHANGED <<even, wake, dmaCount, running, missing, process, program, history>>

HandlerWake ==
    /\ hpc = "wake"
    /\ hpc' = "idle"
    /\ pc' = CASE wake /\ pc = "asleep" -> "test"
               [] wake /\ pc = "asleep2" -> "test2"
               [] OTHER -> pc
    /\ UNCHANGED <<driver, board, op, k, retarg, program, history>>

Handler == HandlerDone \/ HandlerWake

-----------------------------------------------------------------------------
\* Mutation variant: no reset of the initiator.
RunDmaKeeps(h, piece, sendInterrupt) ==
    /\ running' = running \cup {[half |-> h, piece |-> piece, intr |-> sendInterrupt]}
    /\ disturbed' = (disturbed \/ running # {})
    /\ UNCHANGED <<missing, irq, stray>>

\* run_dma: the initiator is reset, which abandons a transfer still running,
\* and the next transfer is started.
RunDma(h, piece, sendInterrupt) ==
    /\ running' = {[half |-> h, piece |-> piece, intr |-> sendInterrupt]}
    /\ disturbed' = (disturbed \/ running # {})
    /\ UNCHANGED <<missing, irq, stray>>

\* A call begins; the program gives up the half it was given.
Begin(call, to) ==
    /\ pc = "idle"
    /\ op' = call
    /\ pc' = to
    /\ held' = {}
    /\ ret' = "none"

\* All transfers of the half but the last are started without interrupt.
FirstPosition == IF dmaCount > 1 THEN "piece" ELSE "arm"
Round == 0 .. dmaCount - 1

\* A stream may be started again before the last one was ended; the start is
\* clean when nothing of what went before is still on its way.
StartStream ==
    /\ Begin("START", FirstPosition)
    /\ even' = TRUE
    /\ wake' = FALSE
    /\ k' = 0
    /\ missing' = [missing EXCEPT ![0] = Round]
    /\ streaming' = TRUE
    /\ disturbed' = (running # {} \/ irq)
    /\ stray' = FALSE
    /\ UNCHANGED <<dmaDone, dmaCount, running, irq, hpc, retarg>>

\* Neither call asks whether a stream was started or already ended.
NextStream ==
    /\ Begin("NEXT", "test")
    /\ stray' = (stray \/ ~streaming)
    /\ UNCHANGED <<driver, board, hpc, k, retarg, streaming, disturbed>>

EndStream ==
    /\ Begin("END", "test")
    /\ stray' = (stray \/ ~streaming)
    /\ UNCHANGED <<driver, board, hpc, k, retarg, streaming, disturbed>>

\* if(!dma_done) and the condition of wait_event_interruptible_timeout.
Test ==
    /\ pc = "test"
    /\ pc' = IF ~dmaDone THEN "asleep" ELSE IF op = "END" THEN "reply" ELSE "flip"
    /\ UNCHANGED <<driver, board, hpc, op, k, retarg, program, history>>

\* 10 ms pass: -EIO.
Timeout ==
    /\ pc = "asleep" /\ op \in {"NEXT", "END"}
    /\ pc' = "idle"
    /\ ret' = "EIO"
    /\ UNCHANGED <<driver, board, hpc, op, k, retarg, streaming, held, history>>

\* A signal ends the wait with a negative value, which only the second wait
\* of END_STREAM, without timeout, stands between and the success path.
Signal ==
    /\ disturbed' = TRUE
    /\ \/ pc = "asleep" /\ op = "NEXT" /\ pc' = "flip"
       \/ pc = "asleep" /\ op = "END" /\ pc' = "test2"
       \/ pc = "asleep2" /\ op = "END" /\ pc' = "reply"
       \/ pc = "asleep2" /\ op \in {"READ", "WRITE"} /\ pc' = "done"
    /\ UNCHANGED <<driver, board, hpc, op, k, retarg, program, stray>>

\* The waits without timeout: END_STREAM's second, read's and write's.
Test2 ==
    /\ pc = "test2"
    /\ pc' = IF ~dmaDone THEN "asleep2" ELSE IF op = "END" THEN "reply" ELSE "done"
    /\ UNCHANGED <<driver, board, hpc, op, k, retarg, program, history>>

\* Mutation variants: the buffer is not switched, dma_done is left set.
FlipForgotten ==
    /\ pc = "flip"
    /\ retarg' = Half
    /\ wake' = FALSE
    /\ k' = 0
    /\ pc' = FirstPosition
    /\ UNCHANGED <<even, dmaDone, dmaCount, board, hpc, op, program, history>>

ArmForgets ==
    /\ pc = "arm"
    /\ wake' = TRUE
    /\ pc' = "fire"
    /\ UNCHANGED <<even, dmaDone, dmaCount, board, hpc, op, k, retarg, program, history>>

\* NEXT_STREAM after its wait: the half just filled is returned and the
\* other one will be filled.
Flip ==
    /\ pc = "flip"
    /\ retarg' = Half
    /\ even' = ~even
    /\ wake' = FALSE
    /\ k' = 0
    /\ pc' = FirstPosition
    /\ missing' = [missing EXCEPT ![1 - Half] = Round]
    /\ UNCHANGED <<dmaDone, dmaCount, running, irq, hpc, op, program, history>>

\* run_dma(false, offset) in the loop.
Piece ==
    /\ pc = "piece"
    /\ RunDma(Half, k, FALSE)
    /\ k' = k + 1
    /\ pc' = IF k + 1 < dmaCount - 1 THEN "piece" ELSE "arm"
    /\ UNCHANGED <<driver, hpc, op, retarg, program>>

\* dma_done=false; wake=true.
Arm ==
    /\ pc = "arm"
    /\ dmaDone' = FALSE
    /\ wake' = TRUE
    /\ pc' = "fire"
    /\ UNCHANGED <<even, dmaCount, board, hpc, op, k, retarg, program, history>>

\* run_dma(true, offset); START_STREAM is then over.
Fire ==
    /\ pc = "fire"
    /\ RunDma(Half, k, TRUE)
    /\ pc' = IF op = "NEXT" THEN "reply" ELSE "idle"
    /\ ret' = IF op = "NEXT" THEN ret ELSE "OK"
    /\ UNCHANGED <<driver, hpc, op, k, retarg, streaming, held>>

\* Mutation variant: dma_done is cleared when the transfer is under way.
ReplyClears ==
    /\ pc = "reply"
    /\ retarg' = IF op = "END" THEN Half ELSE retarg
    /\ even' = IF op = "END" THEN ~even ELSE even
    /\ \/ ret' = "OK" /\ held' = {retarg'}
       \/ ret' = "EFAULT" /\ held' = {}
    /\ missing' = IF op = "END" THEN [missing EXCEPT ![1 - Half] = Round] ELSE missing
    /\ streaming' = (streaming /\ op # "END")
    /\ dmaDone' = FALSE
    /\ pc' = "idle"
    /\ UNCHANGED <<wake, dmaCount, running, irq, hpc, op, k, history>>

\* copy_to_user(&retarg).  END_STREAM chooses its half here, as NEXT_STREAM
\* did before it started the next transfer; nothing fills the half it turns to.
Reply ==
    /\ pc = "reply"
    /\ retarg' = IF op = "END" THEN Half ELSE retarg
    /\ even' = IF op = "END" THEN ~even ELSE even
    /\ \/ ret' = "OK" /\ held' = {retarg'}
       \/ ret' = "EFAULT" /\ held' = {}
    /\ missing' = IF op = "END" THEN [missing EXCEPT ![1 - Half] = Round] ELSE missing
    /\ streaming' = (streaming /\ op # "END")
    /\ pc' = "idle"
    /\ UNCHANGED <<dmaDone, wake, dmaCount, running, irq, hpc, op, k, history>>

-----------------------------------------------------------------------------
\* read and write: one transfer with the first half, dma_done reset after it
\* was started.  A write copies the program's data into the half first, and
\* the board reads it.
ReadWrite(call) ==
    /\ call \in Calls
    /\ Begin(call, "start")
    /\ missing' = [missing EXCEPT ![0] = {0}]
    /\ disturbed' = (disturbed \/ streaming)
    /\ UNCHANGED <<driver, running, irq, hpc, k, retarg, streaming, stray>>

StartTransfer ==
    /\ pc = "start"
    /\ RunDma(IF op = "READ" THEN 0 ELSE NoHalf, 0, TRUE)
    /\ pc' = "clear"
    /\ UNCHANGED <<driver, hpc, op, k, retarg, program>>

ClearDone ==
    /\ pc = "clear"
    /\ dmaDone' = FALSE
    /\ pc' = "test2"
    /\ UNCHANGED <<even, wake, dmaCount, board, hpc, op, k, retarg, program, history>>

\* The data is copied and the length returned.
ReadWriteReturn ==
    /\ pc = "done"
    /\ pc' = "idle"
    /\ ret' = "OK"
    /\ UNCHANGED <<driver, board, hpc, op, k, retarg, streaming, held, history>>

\* RESET_CARD, fpga_init_device: the initiator is reset and left off.
ResetCard ==
    /\ "RESET" \in Calls
    /\ Begin("RESET", "idle")
    /\ running' = {}
    /\ UNCHANGED <<driver, missing, irq, hpc, k, retarg, streaming, history>>

\* SET_TLPCOUNT has no break: it goes on into MEMSET_WRITEBUFFER and fills
\* both halves with the low byte of its argument.  Unlike the calls above it
\* has nothing to do with the half the program was given.
SetTlpCount ==
    /\ "SET_TLPCOUNT" \in Calls
    /\ pc = "idle"
    /\ op' = "SET_TLPCOUNT"
    /\ missing' = [h \in Halves |-> Pieces]
    /\ disturbed' = (disturbed \/ streaming \/ held # {})
    /\ ret' = "OK"
    /\ UNCHANGED <<driver, running, irq, hpc, pc, k, retarg, streaming, held, stray>>

\* SET_DMACOUNT takes effect at the next half.
SetDmaCount ==
    /\ "SET_DMACOUNT" \in Calls
    /\ pc = "idle"
    /\ op' = "SET_DMACOUNT"
    /\ dmaCount' \in Counts
    /\ ret' = "OK"
    /\ UNCHANGED <<even, dmaDone, wake, board, hpc, pc, k, retarg, streaming, held, history>>

-----------------------------------------------------------------------------
\* A step of a call in progress that needs nobody else.
Step == Test \/ Timeout \/ Test2 \/ Flip \/ Piece \/ Arm \/ Fire \/ Reply
          \/ StartTransfer \/ ClearDone \/ ReadWriteReturn

Next ==
    \/ Finish \/ Handler \/ Signal \/ Step
    \/ StartStream \/ NextStream \/ EndStream
    \/ ReadWrite("READ") \/ ReadWrite("WRITE") \/ ResetCard \/ SetTlpCount \/ SetDmaCount

Spec == Init /\ [][Next]_vars

\* A started transfer ends, an interrupt is handled, a running process goes
\* on and its timed sleep ends.  Calls and signals need not happen.
FairSpec == Spec /\ WF_vars(Finish) /\ WF_vars(Handler) /\ WF_vars(Step)

-----------------------------------------------------------------------------
TypeOK ==
    /\ even \in BOOLEAN /\ dmaDone \in BOOLEAN /\ wake \in BOOLEAN
    /\ dmaCount \in Counts
    /\ running \subseteq [half : Halves \cup {NoHalf}, piece : Pieces, intr : BOOLEAN]
    /\ Cardinality(running) <= 1
    /\ missing \in [Halves -> SUBSET Pieces]
    /\ irq \in BOOLEAN
    /\ hpc \in {"idle", "wake"}
    /\ op \in {"none", "START", "NEXT", "END", "READ", "WRITE", "RESET",
             "SET_TLPCOUNT", "SET_DMACOUNT"}
    /\ pc \in Positions
    /\ k \in Pieces
    /\ retarg \in Halves
    /\ ret \in {"none", "OK", "EIO", "EFAULT"}
    /\ streaming \in BOOLEAN
    /\ held \subseteq Halves
    /\ disturbed \in BOOLEAN /\ stray \in BOOLEAN

\* Nothing happened since the last clean START_STREAM that the driver cannot
\* answer for.
InOrder == ~disturbed /\ ~stray

\* A half the program was given by NEXT or END on a stream in order has all
\* the data of its round, however timeouts, retries and interrupts fall
\* (pcie.c:193-230: wait, flip, start the next transfer, return).
HeldComplete == InOrder => \A h \in held : missing[h] = {}

\* The half NEXT_STREAM gave the program is complete, whatever came before, as
\* long as a stream was started: pcie_ioctl.h:10 calls it the next piece of data.
NextComplete == (op = "NEXT" /\ ~stray) => \A h \in held : missing[h] = {}

\* The half NEXT_STREAM gave the program is complete, also when it was called
\* after END_STREAM or before START_STREAM, as long as nothing else came
\* between (pcie.c:193 goes by dma_done alone).
NextRefilled == (op = "NEXT" /\ ~disturbed) => \A h \in held : missing[h] = {}

\* After NEXT_STREAM the board only writes to the other half, whatever
\* signals, timeouts, restarts or other calls came before.
NextStable == (op = "NEXT") => \A h \in held : \A r \in running : r.half # h

\* Both: what the program holds is complete, and stays so while it has it.
HeldUsable == HeldComplete /\ NextStable

\* The abstract stream: a disturbance or a stray call ends it, and it stays
\* ended until the next clean start.  A half counts as handed over from the
\* moment NEXT_STREAM turns to the other one, before the call returns.
HandedOver ==
    IF op = "NEXT" /\ pc \in {"piece", "arm", "fire", "reply"}
    THEN {retarg} ELSE held

Abstract == INSTANCE PingPong WITH
    half <- IF InOrder THEN Half ELSE 0,
    full <- InOrder /\ streaming /\ missing[Half] = {},
    held <- IF InOrder THEN HandedOver ELSE {}

\* The ioctls implement the ping-pong stream: START, NEXT and END hand over
\* the halves in turn, each only after the board has filled it again.
ImplementsPingPong == Abstract!Spec

\* As long as a stream in order is open its transfer is noticed: dma_done
\* becomes true, however clearing the flag, starting the transfer and the
\* interrupt interleave (pcie.c:185-187, 222-230, 298), unless the card is reset.
CompletionNoticed ==
    [](op # "RESET") => ((streaming /\ InOrder) ~> (dmaDone \/ ~InOrder))

\* A read whose transfer has ended and whose interrupt is handled goes on: the
\* comment of fpga_char_read says that the program is woken up after the handler
\* (pcie.c:316-317).
ReadWoken == (op = "READ" /\ pc # "idle" /\ hpc = "wake") ~> (pc = "idle")
=============================================================================
