------------------------ MODULE CreotechStream_proofs ------------------------
(***************************************************************************)
(* Proofs about CreotechStream for every set of values of dma_count and    *)
(* every set of calls.  The inductive invariant is IInv: where a call may  *)
(* stand, what the board still owes the half to fill, and what a completed *)
(* transfer that was raised or noticed says about it.                      *)
(***************************************************************************)
EXTENDS CreotechStream, FiniteSetTheorems, TLAPS

\* A call in progress stands where its kind may stand, its stream was started,
\* and the program has given up what it held.
CallsInPlace ==
    /\ pc \in {"piece", "arm", "fire"} => op \in {"START", "NEXT"}
    /\ pc \in {"test", "asleep"} => op \in {"NEXT", "END"}
    /\ pc = "flip" => op = "NEXT"
    /\ pc = "reply" => op \in {"NEXT", "END"}
    /\ pc \in {"test2", "asleep2"} => op \in {"END", "READ", "WRITE"}
    /\ pc \in {"start", "clear", "done"} => op \in {"READ", "WRITE"}
    /\ pc # "idle" => held = {}
    /\ pc # "idle" /\ op \in {"START", "NEXT", "END"} => streaming \/ stray

\* The loop of transfers stays within the half.
CountInStep ==
    /\ pc = "piece" => k < dmaCount - 1
    /\ pc \in {"arm", "fire"} => k = dmaCount - 1

\* The board has one transfer at most.
OneTransfer == running = {} \/ \E r : running = {r}

\* After the flip NEXT_STREAM returns the other half, and once it has fired the
\* board writes to no other but the half to fill.
OtherHalf ==
    op = "NEXT" =>
        /\ pc \in {"piece", "arm", "fire", "reply"} => retarg = 1 - Half
        /\ \A h \in held : h = 1 - Half
        /\ pc = "reply" \/ held # {} => \A r \in running : r.half = Half

\* While the transfers of a half are being started, what it misses is on the
\* board or has yet to be started, and nothing will interrupt.
Filling ==
    /\ ~irq
    /\ pc = "fire" => ~dmaDone
    /\ \A r \in running : r.half = Half /\ ~r.intr
    /\ \A p \in missing[Half] :
          p < dmaCount /\ (p >= k \/ \E r \in running : r.piece = p)

\* Between two rounds: a completion that was raised or noticed is that of the
\* last transfer of the half.
Filled ==
    /\ \A r \in running : r.half = Half /\ missing[Half] \subseteq {r.piece}
    /\ irq => running = {} /\ missing[Half] = {}
    /\ dmaDone => ~irq /\ running = {} /\ missing[Half] = {}

\* A stream in order.
StreamInOrder ==
    InOrder =>
        /\ \A h \in held : missing[h] = {}
        /\ op = "NEXT" /\ pc \in {"piece", "arm", "fire", "reply"} => missing[retarg] = {}
        /\ pc # "idle" /\ op \in {"READ", "WRITE"} => ~streaming
        /\ pc \in {"test2", "asleep2"} => op # "END"
        /\ pc = "flip" \/ (pc = "reply" /\ op = "END") => dmaDone
        /\ streaming => IF pc \in {"piece", "arm", "fire"} THEN Filling ELSE Filled

IInv == TypeOK /\ CallsInPlace /\ CountInStep /\ OneTransfer /\ OtherHalf /\ StreamInOrder

-----------------------------------------------------------------------------
\* Every number of a transfer within a half is one of Pieces.
LEMMA PiecesFacts ==
    /\ Pieces \subseteq Nat
    /\ 0 \in Pieces
    /\ \A n \in Counts : n \in Nat \ {0} /\ 0 .. n - 1 \subseteq Pieces
  BY CountsAssumption DEF Pieces

\* One transfer at most, said with Cardinality.
LEMMA OneTransferCounted ==
    ASSUME OneTransfer
    PROVE  Cardinality(running) <= 1
  <1>1. CASE running = {}
    BY <1>1, FS_EmptySet
  <1>2. ASSUME NEW r, running = {r}
        PROVE  Cardinality(running) <= 1
    <2>1. Cardinality({r}) = 1
      BY FS_Singleton
    <2>2. QED
      BY <1>2, <2>1
  <1>3. QED
    BY <1>1, <1>2 DEF OneTransfer

\* The initial state.
LEMMA InitInv == Init => IInv
  <1> SUFFICES ASSUME Init PROVE IInv
    OBVIOUS
  <1>1. OneTransfer
    BY DEF Init, OneTransfer
  <1>2. TypeOK
    BY <1>1, OneTransferCounted, PiecesFacts, CountsAssumption
    DEF Init, TypeOK, Positions, Halves
  <1>3. CallsInPlace /\ CountInStep /\ OtherHalf /\ StreamInOrder
    BY DEF Init, CallsInPlace, CountInStep, OtherHalf, StreamInOrder, InOrder, Filled
  <1>4. QED
    BY <1>1, <1>2, <1>3 DEF IInv

\* The transfers on the board: RunDma resets the initiator first.
LEMMA OneTransferStep ==
    ASSUME IInv, [Next]_vars
    PROVE  OneTransfer'
  <1>1. CASE Finish
    BY <1>1
    DEF IInv, OneTransfer, Finish, driver, board, process, program, history
  <1>2. CASE \/ Piece \/ Fire \/ StartTransfer
    BY <1>2
    DEF IInv, OneTransfer, Piece, RunDma, Half, Fire, StartTransfer, driver,
        board, process, program, history
  <1>3. CASE \/ HandlerDone \/ HandlerWake \/ Signal \/ Test \/ Timeout
             \/ Test2 \/ Flip \/ Arm \/ Reply \/ ClearDone
             \/ ReadWriteReturn \/ StartStream \/ NextStream
             \/ EndStream \/ ReadWrite("READ") \/ ReadWrite("WRITE")
             \/ ResetCard \/ SetTlpCount \/ SetDmaCount
             \/ UNCHANGED vars
    BY <1>3
    DEF IInv, OneTransfer, HandlerDone, HandlerWake, Signal, Test, Timeout,
        Test2, Flip, FirstPosition, Half, Round, Arm, Reply, ClearDone,
        ReadWriteReturn, StartStream, Begin, NextStream, EndStream,
        ReadWrite, ResetCard, SetTlpCount, SetDmaCount, vars, driver, board,
        process, program, history
  <1>4. QED
    BY <1>1, <1>2, <1>3 DEF Next, Handler, Step

\* Typing.
LEMMA TypeStep ==
    ASSUME IInv, [Next]_vars
    PROVE  TypeOK'
  <1>0. Cardinality(running') <= 1
    <2>1. CASE running' = {}
      BY <2>1, FS_EmptySet
    <2>2. ASSUME NEW r, running' = {r}
          PROVE  Cardinality(running') <= 1
      <3>1. Cardinality({r}) = 1
        BY FS_Singleton
      <3>2. QED
        BY <2>2, <3>1
    <2>3. QED
      BY <2>1, <2>2, OneTransferStep DEF OneTransfer
  <1>1. CASE Finish
    BY <1>1, <1>0, PiecesFacts
    DEF IInv, TypeOK, CallsInPlace, CountInStep, Positions, Halves, NoHalf,
        Finish, driver, board, process, program, history
  <1>2. CASE HandlerDone
    <2>1. /\ dmaDone' = TRUE /\ irq' = FALSE /\ hpc' = "wake"
          /\ UNCHANGED <<even, wake, dmaCount, running, missing>>
          /\ UNCHANGED <<process, program, history>>
      BY <1>2 DEF HandlerDone
    <2>2. QED
      BY <2>1, <1>0 DEF IInv, TypeOK, process, program, history
  <1>3. CASE HandlerWake
    BY <1>3, <1>0, PiecesFacts
    DEF IInv, TypeOK, CallsInPlace, CountInStep, Positions, Halves, NoHalf,
        HandlerWake, driver, board, process, program, history
  <1>4. CASE Signal
    BY <1>4, <1>0, PiecesFacts
    DEF IInv, TypeOK, CallsInPlace, CountInStep, Positions, Halves, NoHalf,
        Signal, driver, board, process, program, history
  <1>5. CASE Test
    BY <1>5, <1>0, PiecesFacts
    DEF IInv, TypeOK, CallsInPlace, CountInStep, Positions, Halves, NoHalf,
        Test, driver, board, process, program, history
  <1>6. CASE Timeout
    BY <1>6, <1>0, PiecesFacts
    DEF IInv, TypeOK, CallsInPlace, CountInStep, Positions, Halves, NoHalf,
        Timeout, driver, board, process, program, history
  <1>7. CASE Test2
    BY <1>7, <1>0, PiecesFacts
    DEF IInv, TypeOK, CallsInPlace, CountInStep, Positions, Halves, NoHalf,
        Test2, driver, board, process, program, history
  <1>8. CASE Flip
    BY <1>8, <1>0, PiecesFacts
    DEF IInv, TypeOK, CallsInPlace, CountInStep, Positions, Halves, NoHalf,
        Flip, FirstPosition, Half, Round, driver, board, process, program, history
  <1>9. CASE Piece
    BY <1>9, <1>0, PiecesFacts
    DEF IInv, TypeOK, CallsInPlace, CountInStep, Positions, Halves, NoHalf,
        Piece, RunDma, Half, driver, board, process, program, history
  <1>10. CASE Arm
    BY <1>10, <1>0, PiecesFacts
    DEF IInv, TypeOK, CallsInPlace, CountInStep, Positions, Halves, NoHalf,
        Arm, driver, board, process, program, history
  <1>11. CASE Fire
    BY <1>11, <1>0, PiecesFacts
    DEF IInv, TypeOK, CallsInPlace, CountInStep, Positions, Halves, NoHalf,
        Fire, RunDma, Half, driver, board, process, program, history
  <1>12. CASE Reply
    BY <1>12, <1>0, PiecesFacts
    DEF IInv, TypeOK, CallsInPlace, CountInStep, Positions, Halves, NoHalf,
        Reply, Half, Round, driver, board, process, program, history
  <1>13. CASE StartTransfer
    BY <1>13, <1>0, PiecesFacts
    DEF IInv, TypeOK, CallsInPlace, CountInStep, Positions, Halves, NoHalf,
        StartTransfer, RunDma, driver, board, process, program, history
  <1>14. CASE ClearDone
    BY <1>14, <1>0, PiecesFacts
    DEF IInv, TypeOK, CallsInPlace, CountInStep, Positions, Halves, NoHalf,
        ClearDone, driver, board, process, program, history
  <1>15. CASE ReadWriteReturn
    BY <1>15, <1>0, PiecesFacts
    DEF IInv, TypeOK, CallsInPlace, CountInStep, Positions, Halves, NoHalf,
        ReadWriteReturn, driver, board, process, program, history
  <1>16. CASE StartStream
    BY <1>16, <1>0, PiecesFacts
    DEF IInv, TypeOK, CallsInPlace, CountInStep, Positions, Halves, NoHalf,
        StartStream, Begin, FirstPosition, Round, driver, board, process,
        program, history
  <1>17. CASE NextStream
    BY <1>17, <1>0, PiecesFacts
    DEF IInv, TypeOK, CallsInPlace, CountInStep, Positions, Halves, NoHalf,
        NextStream, Begin, driver, board, process, program, history
  <1>18. CASE EndStream
    BY <1>18, <1>0, PiecesFacts
    DEF IInv, TypeOK, CallsInPlace, CountInStep, Positions, Halves, NoHalf,
        EndStream, Begin, driver, board, process, program, history
  <1>19. CASE ReadWrite("READ")
    BY <1>19, <1>0, PiecesFacts
    DEF IInv, TypeOK, CallsInPlace, CountInStep, Positions, Halves, NoHalf,
        ReadWrite, Begin, driver, board, process, program, history
  <1>20. CASE ReadWrite("WRITE")
    BY <1>20, <1>0, PiecesFacts
    DEF IInv, TypeOK, CallsInPlace, CountInStep, Positions, Halves, NoHalf,
        ReadWrite, Begin, driver, board, process, program, history
  <1>21. CASE ResetCard
    BY <1>21, <1>0, PiecesFacts
    DEF IInv, TypeOK, CallsInPlace, CountInStep, Positions, Halves, NoHalf,
        ResetCard, Begin, driver, board, process, program, history
  <1>22. CASE SetTlpCount
    BY <1>22, <1>0, PiecesFacts
    DEF IInv, TypeOK, CallsInPlace, CountInStep, Positions, Halves, NoHalf,
        SetTlpCount, driver, board, process, program, history
  <1>23. CASE SetDmaCount
    BY <1>23, <1>0, PiecesFacts
    DEF IInv, TypeOK, CallsInPlace, CountInStep, Positions, Halves, NoHalf,
        SetDmaCount, driver, board, process, program, history
  <1>24. CASE UNCHANGED vars
    BY <1>24, <1>0, PiecesFacts
    DEF IInv, TypeOK, CallsInPlace, CountInStep, Positions, Halves, NoHalf,
        vars, driver, board, process, program, history
  <1>25. QED
    BY <1>1, <1>2, <1>3, <1>4, <1>5, <1>6, <1>7, <1>8, <1>9, <1>10, <1>11, <1>12,
       <1>13, <1>14, <1>15, <1>16, <1>17, <1>18, <1>19, <1>20, <1>21, <1>22, <1>23, <1>24
    DEF Next, Handler, Step

\* Positions and what they say.
LEMMA CallsStep ==
    ASSUME IInv, [Next]_vars
    PROVE  CallsInPlace'
  <1>1. CASE \/ HandlerWake \/ Signal \/ Test \/ Timeout \/ Test2
    BY <1>1
    DEF IInv, TypeOK, CallsInPlace, Positions, HandlerWake, Signal, Test,
        Timeout, Test2, driver, board, process, program, history
  <1>2. CASE \/ Flip \/ Piece \/ Arm \/ Fire \/ Reply
    BY <1>2
    DEF IInv, TypeOK, CallsInPlace, Positions, Flip, FirstPosition, Half,
        Round, Piece, RunDma, Arm, Fire, Reply, driver, board, process,
        program, history
  <1>3. CASE \/ StartTransfer \/ ClearDone \/ ReadWriteReturn
    BY <1>3
    DEF IInv, TypeOK, CallsInPlace, Positions, StartTransfer, RunDma,
        ClearDone, ReadWriteReturn, driver, board, process, program, history
  <1>4. CASE \/ StartStream \/ NextStream \/ EndStream
             \/ ReadWrite("READ") \/ ReadWrite("WRITE") \/ ResetCard
    BY <1>4
    DEF IInv, TypeOK, CallsInPlace, Positions, StartStream, Begin,
        FirstPosition, Round, NextStream, EndStream, ReadWrite, ResetCard,
        driver, board, process, program, history
  <1>5. CASE \/ Finish \/ HandlerDone \/ SetTlpCount \/ SetDmaCount
             \/ UNCHANGED vars
    BY <1>5
    DEF IInv, TypeOK, CallsInPlace, Positions, Finish, HandlerDone,
        SetTlpCount, SetDmaCount, vars, driver, board, process, program, history
  <1>6. QED
    BY <1>1, <1>2, <1>3, <1>4, <1>5 DEF Next, Handler, Step

\* The loop of transfers.
LEMMA CountStep ==
    ASSUME IInv, [Next]_vars
    PROVE  CountInStep'
  <1>1. CASE \/ Flip \/ StartStream
    BY <1>1, PiecesFacts
    DEF IInv, TypeOK, CountInStep, Positions, Flip, FirstPosition, Half,
        Round, StartStream, Begin, driver, board, process, program, history
  <1>2. CASE Piece
    BY <1>2, PiecesFacts
    DEF IInv, TypeOK, CountInStep, Positions, Piece, RunDma, Half, driver,
        board, process, program, history
  <1>3. CASE \/ HandlerWake \/ Signal \/ Test \/ Test2
    BY <1>3, PiecesFacts
    DEF IInv, TypeOK, CountInStep, Positions, HandlerWake, Signal, Test,
        Test2, driver, board, process, program, history
  <1>4. CASE \/ Finish \/ HandlerDone \/ Timeout \/ Arm \/ Fire \/ Reply
             \/ StartTransfer \/ ClearDone \/ ReadWriteReturn
             \/ NextStream \/ EndStream \/ ReadWrite("READ")
             \/ ReadWrite("WRITE") \/ ResetCard \/ SetTlpCount
             \/ SetDmaCount \/ UNCHANGED vars
    BY <1>4, PiecesFacts
    DEF IInv, TypeOK, CountInStep, Positions, Finish, HandlerDone, Timeout,
        Arm, Fire, RunDma, Half, Reply, StartTransfer, ClearDone,
        ReadWriteReturn, NextStream, Begin, EndStream, ReadWrite, ResetCard,
        SetTlpCount, SetDmaCount, vars, driver, board, process, program, history
  <1>5. QED
    BY <1>1, <1>2, <1>3, <1>4 DEF Next, Handler, Step

\* NEXT_STREAM after its wait, and END_STREAM at its end, turn to the other half.
LEMMA HalfTurns ==
    ASSUME even \in BOOLEAN, even' = ~even
    PROVE  Half' = 1 - Half
  <1>1. CASE even
    <2>1. Half = 0 /\ Half' = 1
      BY <1>1, Zenon DEF Half
    <2>2. QED
      BY <2>1
  <1>2. CASE ~even
    <2>1. Half = 1 /\ Half' = 0
      BY <1>2, Zenon DEF Half
    <2>2. QED
      BY <2>1
  <1>3. QED
    BY <1>1, <1>2

\* The flip of NEXT_STREAM names the half that was filled.
LEMMA FlipTurns ==
    ASSUME IInv, Flip
    PROVE  Half' = 1 - Half /\ retarg' = Half
  <1>1. even \in BOOLEAN /\ even' = ~even /\ retarg' = Half
    BY DEF IInv, TypeOK, Flip
  <1>2. QED
    BY <1>1, HalfTurns

\* The return of END_STREAM turns to the other half.
LEMMA ReplyTurns ==
    ASSUME IInv, Reply, op = "END"
    PROVE  Half' = 1 - Half
  <1>1. even \in BOOLEAN /\ even' = ~even
    BY DEF IInv, TypeOK, Reply
  <1>2. QED
    BY <1>1, HalfTurns

\* The half the board writes to after the flip.
LEMMA OtherHalfStep ==
    ASSUME IInv, [Next]_vars
    PROVE  OtherHalf'
  <1>1. CASE Finish
    BY <1>1
    DEF IInv, TypeOK, CallsInPlace, OtherHalf, Positions, Halves, NoHalf,
        Half, Finish, driver, board, process, program, history
  <1>2. CASE HandlerDone
    BY <1>2
    DEF IInv, TypeOK, CallsInPlace, OtherHalf, Positions, Halves, NoHalf,
        Half, HandlerDone, driver, board, process, program, history
  <1>3. CASE HandlerWake
    BY <1>3
    DEF IInv, TypeOK, CallsInPlace, OtherHalf, Positions, Halves, NoHalf,
        Half, HandlerWake, driver, board, process, program, history
  <1>4. CASE Signal
    BY <1>4
    DEF IInv, TypeOK, CallsInPlace, OtherHalf, Positions, Halves, NoHalf,
        Half, Signal, driver, board, process, program, history
  <1>5. CASE Test
    BY <1>5
    DEF IInv, TypeOK, CallsInPlace, OtherHalf, Positions, Halves, NoHalf,
        Half, Test, driver, board, process, program, history
  <1>6. CASE Timeout
    BY <1>6
    DEF IInv, TypeOK, CallsInPlace, OtherHalf, Positions, Halves, NoHalf,
        Half, Timeout, driver, board, process, program, history
  <1>7. CASE Test2
    BY <1>7
    DEF IInv, TypeOK, CallsInPlace, OtherHalf, Positions, Halves, NoHalf,
        Half, Test2, driver, board, process, program, history
  <1>8. CASE Flip
    <2>1. Half' = 1 - Half /\ retarg' = Half
      BY <1>8, FlipTurns
    <2>2. held' = {} /\ pc' # "reply"
      BY <1>8 DEF IInv, CallsInPlace, Flip, FirstPosition, program
    <2>3. Half = 1 - (1 - Half)
      BY DEF Half
    <2>4. QED
      BY <2>1, <2>2, <2>3 DEF OtherHalf
  <1>9. CASE Piece
    BY <1>9
    DEF IInv, TypeOK, CallsInPlace, OtherHalf, Positions, Halves, NoHalf,
        Half, Piece, RunDma, driver, board, process, program, history
  <1>10. CASE Arm
    BY <1>10
    DEF IInv, TypeOK, CallsInPlace, OtherHalf, Positions, Halves, NoHalf,
        Half, Arm, driver, board, process, program, history
  <1>11. CASE Fire
    BY <1>11
    DEF IInv, TypeOK, CallsInPlace, OtherHalf, Positions, Halves, NoHalf,
        Half, Fire, RunDma, driver, board, process, program, history
  <1>12. CASE Reply
    BY <1>12
    DEF IInv, TypeOK, CallsInPlace, OtherHalf, Positions, Halves, NoHalf,
        Half, Reply, driver, board, process, program, history
  <1>13. CASE StartTransfer
    BY <1>13
    DEF IInv, TypeOK, CallsInPlace, OtherHalf, Positions, Halves, NoHalf,
        Half, StartTransfer, RunDma, driver, board, process, program, history
  <1>14. CASE ClearDone
    BY <1>14
    DEF IInv, TypeOK, CallsInPlace, OtherHalf, Positions, Halves, NoHalf,
        Half, ClearDone, driver, board, process, program, history
  <1>15. CASE ReadWriteReturn
    BY <1>15
    DEF IInv, TypeOK, CallsInPlace, OtherHalf, Positions, Halves, NoHalf,
        Half, ReadWriteReturn, driver, board, process, program, history
  <1>16. CASE StartStream
    BY <1>16
    DEF IInv, TypeOK, CallsInPlace, OtherHalf, Positions, Halves, NoHalf,
        Half, StartStream, Begin, FirstPosition, Round, driver, board,
        process, program, history
  <1>17. CASE NextStream
    BY <1>17
    DEF IInv, TypeOK, CallsInPlace, OtherHalf, Positions, Halves, NoHalf,
        Half, NextStream, Begin, driver, board, process, program, history
  <1>18. CASE EndStream
    BY <1>18
    DEF IInv, TypeOK, CallsInPlace, OtherHalf, Positions, Halves, NoHalf,
        Half, EndStream, Begin, driver, board, process, program, history
  <1>19. CASE ReadWrite("READ")
    BY <1>19
    DEF IInv, TypeOK, CallsInPlace, OtherHalf, Positions, Halves, NoHalf,
        Half, ReadWrite, Begin, driver, board, process, program, history
  <1>20. CASE ReadWrite("WRITE")
    BY <1>20
    DEF IInv, TypeOK, CallsInPlace, OtherHalf, Positions, Halves, NoHalf,
        Half, ReadWrite, Begin, driver, board, process, program, history
  <1>21. CASE ResetCard
    BY <1>21
    DEF IInv, TypeOK, CallsInPlace, OtherHalf, Positions, Halves, NoHalf,
        Half, ResetCard, Begin, driver, board, process, program, history
  <1>22. CASE SetTlpCount
    BY <1>22
    DEF IInv, TypeOK, CallsInPlace, OtherHalf, Positions, Halves, NoHalf,
        Half, SetTlpCount, driver, board, process, program, history
  <1>23. CASE SetDmaCount
    BY <1>23
    DEF IInv, TypeOK, CallsInPlace, OtherHalf, Positions, Halves, NoHalf,
        Half, SetDmaCount, driver, board, process, program, history
  <1>24. CASE UNCHANGED vars
    BY <1>24
    DEF IInv, TypeOK, CallsInPlace, OtherHalf, Positions, Halves, NoHalf,
        Half, vars, driver, board, process, program, history
  <1>25. QED
    BY <1>1, <1>2, <1>3, <1>4, <1>5, <1>6, <1>7, <1>8, <1>9, <1>10, <1>11, <1>12,
       <1>13, <1>14, <1>15, <1>16, <1>17, <1>18, <1>19, <1>20, <1>21, <1>22, <1>23, <1>24
    DEF Next, Handler, Step

\* The stream in order.
LEMMA StreamStep ==
    ASSUME IInv, [Next]_vars
    PROVE  StreamInOrder'
  <1>1. CASE Finish
    BY <1>1, PiecesFacts
    DEF IInv, TypeOK, CallsInPlace, CountInStep, OneTransfer, OtherHalf,
        StreamInOrder, InOrder, Filling, Filled, Positions, Halves, NoHalf, Half,
        Finish, driver, board, process, program, history
  <1>2. CASE HandlerDone
    BY <1>2, PiecesFacts
    DEF IInv, TypeOK, CallsInPlace, CountInStep, OneTransfer, OtherHalf,
        StreamInOrder, InOrder, Filling, Filled, Positions, Halves, NoHalf, Half,
        HandlerDone, driver, board, process, program, history
  <1>3. CASE HandlerWake
    BY <1>3, PiecesFacts
    DEF IInv, TypeOK, CallsInPlace, CountInStep, OneTransfer, OtherHalf,
        StreamInOrder, InOrder, Filling, Filled, Positions, Halves, NoHalf, Half,
        HandlerWake, driver, board, process, program, history
  <1>4. CASE Signal
    BY <1>4, PiecesFacts
    DEF IInv, TypeOK, CallsInPlace, CountInStep, OneTransfer, OtherHalf,
        StreamInOrder, InOrder, Filling, Filled, Positions, Halves, NoHalf, Half,
        Signal, driver, board, process, program, history
  <1>5. CASE Test
    BY <1>5, PiecesFacts
    DEF IInv, TypeOK, CallsInPlace, CountInStep, OneTransfer, OtherHalf,
        StreamInOrder, InOrder, Filling, Filled, Positions, Halves, NoHalf, Half,
        Test, driver, board, process, program, history
  <1>6. CASE Timeout
    BY <1>6, PiecesFacts
    DEF IInv, TypeOK, CallsInPlace, CountInStep, OneTransfer, OtherHalf,
        StreamInOrder, InOrder, Filling, Filled, Positions, Halves, NoHalf, Half,
        Timeout, driver, board, process, program, history
  <1>7. CASE Test2
    BY <1>7, PiecesFacts
    DEF IInv, TypeOK, CallsInPlace, CountInStep, OneTransfer, OtherHalf,
        StreamInOrder, InOrder, Filling, Filled, Positions, Halves, NoHalf, Half,
        Test2, driver, board, process, program, history
  <1>8. CASE Flip
    BY <1>8, PiecesFacts
    DEF IInv, TypeOK, CallsInPlace, CountInStep, OneTransfer, OtherHalf,
        StreamInOrder, InOrder, Filling, Filled, Positions, Halves, NoHalf, Half,
        Flip, FirstPosition, Round, driver, board, process, program, history
  <1>9. CASE Piece
    BY <1>9, PiecesFacts
    DEF IInv, TypeOK, CallsInPlace, CountInStep, OneTransfer, OtherHalf,
        StreamInOrder, InOrder, Filling, Filled, Positions, Halves, NoHalf, Half,
        Piece, RunDma, driver, board, process, program, history
  <1>10. CASE Arm
    BY <1>10, PiecesFacts
    DEF IInv, TypeOK, CallsInPlace, CountInStep, OneTransfer, OtherHalf,
        StreamInOrder, InOrder, Filling, Filled, Positions, Halves, NoHalf, Half, Arm,
        driver, board, process, program, history
  <1>11. CASE Fire
    <2> SUFFICES ASSUME InOrder'
                 PROVE  StreamInOrder'
      BY DEF StreamInOrder
    <2>1. running = {} /\ InOrder /\ streaming /\ Filling /\ held = {}
      BY <1>11 DEF IInv, CallsInPlace, StreamInOrder, InOrder, Fire, RunDma
    <2>2. k = dmaCount - 1 /\ dmaCount \in Nat /\ k \in Nat
      BY <1>11, PiecesFacts DEF IInv, TypeOK, CountInStep, Fire
    <2>3. missing[Half] \subseteq Pieces
      BY DEF IInv, TypeOK, Halves, Half
    <2>4. missing[Half] \subseteq {k}
      <3> SUFFICES ASSUME NEW p \in missing[Half]
                   PROVE  p = k
        OBVIOUS
      <3>1. p \in Nat
        BY <2>3, PiecesFacts
      <3>2. p < dmaCount /\ p >= k
        BY <2>1 DEF Filling
      <3>3. QED
        BY <2>2, <3>1, <3>2
    <2>5. /\ running' = {[half |-> Half, piece |-> k, intr |-> TRUE]}
          /\ UNCHANGED <<even, dmaDone, missing, irq, held, op, retarg>>
          /\ pc' = IF op = "NEXT" THEN "reply" ELSE "idle"
      BY <1>11 DEF Fire, RunDma, driver
    <2>6. op \in {"START", "NEXT"} /\ ~dmaDone /\ ~irq
      BY <1>11, <2>1 DEF IInv, CallsInPlace, Filling, Fire
    <2>7. Filled'
      <3>1. Half' = Half
        BY <2>5 DEF Half
      <3>2. missing[Half]' \subseteq {k}
        BY <2>4, <2>5, <3>1
      <3>3. \A r \in running' : r.half = Half' /\ r.piece = k
        BY <2>5, <3>1
      <3>4. ~irq' /\ ~dmaDone'
        BY <2>5, <2>6
      <3>5. QED
        BY <3>2, <3>3, <3>4 DEF Filled
    <2>8. op = "NEXT" => missing[retarg] = {}
      BY <1>11, <2>1 DEF IInv, StreamInOrder, Fire
    <2>9. QED
      BY <2>1, <2>5, <2>6, <2>7, <2>8 DEF StreamInOrder
  <1>12. CASE Reply
    BY <1>12, PiecesFacts
    DEF IInv, TypeOK, CallsInPlace, CountInStep, OneTransfer, OtherHalf,
        StreamInOrder, InOrder, Filling, Filled, Positions, Halves, NoHalf, Half,
        Reply, driver, board, process, program, history
  <1>13. CASE StartTransfer
    BY <1>13, PiecesFacts
    DEF IInv, TypeOK, CallsInPlace, CountInStep, OneTransfer, OtherHalf,
        StreamInOrder, InOrder, Filling, Filled, Positions, Halves, NoHalf, Half,
        StartTransfer, RunDma, driver, board, process, program, history
  <1>14. CASE ClearDone
    BY <1>14, PiecesFacts
    DEF IInv, TypeOK, CallsInPlace, CountInStep, OneTransfer, OtherHalf,
        StreamInOrder, InOrder, Filling, Filled, Positions, Halves, NoHalf, Half,
        ClearDone, driver, board, process, program, history
  <1>15. CASE ReadWriteReturn
    BY <1>15, PiecesFacts
    DEF IInv, TypeOK, CallsInPlace, CountInStep, OneTransfer, OtherHalf,
        StreamInOrder, InOrder, Filling, Filled, Positions, Halves, NoHalf, Half,
        ReadWriteReturn, driver, board, process, program, history
  <1>16. CASE StartStream
    <2> SUFFICES ASSUME InOrder'
                 PROVE  StreamInOrder'
      BY DEF StreamInOrder
    <2>1. /\ running' = {} /\ irq' = FALSE /\ held' = {} /\ op' = "START"
          /\ even' = TRUE /\ k' = 0 /\ pc' \in {"piece", "arm"}
          /\ UNCHANGED dmaCount
      BY <1>16 DEF StartStream, Begin, FirstPosition, InOrder, IInv, TypeOK
    <2>2. missing'[0] = 0 .. dmaCount - 1
      BY <1>16 DEF StartStream, Round, IInv, TypeOK, Halves
    <2>3. Filling'
      BY <2>1, <2>2, PiecesFacts DEF Filling, Half, IInv, TypeOK
    <2>4. QED
      BY <2>1, <2>3 DEF StreamInOrder
  <1>17. CASE NextStream
    BY <1>17, PiecesFacts
    DEF IInv, TypeOK, CallsInPlace, CountInStep, OneTransfer, OtherHalf,
        StreamInOrder, InOrder, Filling, Filled, Positions, Halves, NoHalf, Half,
        NextStream, Begin, driver, board, process, program, history
  <1>18. CASE EndStream
    BY <1>18, PiecesFacts
    DEF IInv, TypeOK, CallsInPlace, CountInStep, OneTransfer, OtherHalf,
        StreamInOrder, InOrder, Filling, Filled, Positions, Halves, NoHalf, Half,
        EndStream, Begin, driver, board, process, program, history
  <1>19. CASE ReadWrite("READ")
    BY <1>19, PiecesFacts
    DEF IInv, TypeOK, CallsInPlace, CountInStep, OneTransfer, OtherHalf,
        StreamInOrder, InOrder, Filling, Filled, Positions, Halves, NoHalf, Half,
        ReadWrite, Begin, driver, board, process, program, history
  <1>20. CASE ReadWrite("WRITE")
    BY <1>20, PiecesFacts
    DEF IInv, TypeOK, CallsInPlace, CountInStep, OneTransfer, OtherHalf,
        StreamInOrder, InOrder, Filling, Filled, Positions, Halves, NoHalf, Half,
        ReadWrite, Begin, driver, board, process, program, history
  <1>21. CASE ResetCard
    BY <1>21, PiecesFacts
    DEF IInv, TypeOK, CallsInPlace, CountInStep, OneTransfer, OtherHalf,
        StreamInOrder, InOrder, Filling, Filled, Positions, Halves, NoHalf, Half,
        ResetCard, Begin, driver, board, process, program, history
  <1>22. CASE SetTlpCount
    BY <1>22, PiecesFacts
    DEF IInv, TypeOK, CallsInPlace, CountInStep, OneTransfer, OtherHalf,
        StreamInOrder, InOrder, Filling, Filled, Positions, Halves, NoHalf, Half,
        SetTlpCount, driver, board, process, program, history
  <1>23. CASE SetDmaCount
    BY <1>23, PiecesFacts
    DEF IInv, TypeOK, CallsInPlace, CountInStep, OneTransfer, OtherHalf,
        StreamInOrder, InOrder, Filling, Filled, Positions, Halves, NoHalf, Half,
        SetDmaCount, driver, board, process, program, history
  <1>24. CASE UNCHANGED vars
    BY <1>24, PiecesFacts
    DEF IInv, TypeOK, CallsInPlace, CountInStep, OneTransfer, OtherHalf,
        StreamInOrder, InOrder, Filling, Filled, Positions, Halves, NoHalf, Half,
        vars, driver, board, process, program, history
  <1>25. QED
    BY <1>1, <1>2, <1>3, <1>4, <1>5, <1>6, <1>7, <1>8, <1>9, <1>10, <1>11, <1>12,
       <1>13, <1>14, <1>15, <1>16, <1>17, <1>18, <1>19, <1>20, <1>21, <1>22, <1>23, <1>24
    DEF Next, Handler, Step

\* No step breaks the invariant.
LEMMA InductiveStep ==
    ASSUME IInv, [Next]_vars
    PROVE  IInv'
  BY OneTransferStep, TypeStep, CallsStep, CountStep, OtherHalfStep, StreamStep
  DEF IInv

\* IInv holds in every state of driver, board and program.
THEOREM Invariance == Spec => []IInv
  BY InitInv, InductiveStep, PTL DEF Spec

\* Variables keep their types, and the board has one transfer at most.
THEOREM TypeCorrect == Spec => []TypeOK
  <1>1. IInv => TypeOK
    BY DEF IInv
  <1>2. QED
    BY <1>1, Invariance, PTL

\* What the program holds is complete, and the board leaves it alone.
THEOREM HeldHalvesUsable == Spec => []HeldUsable
  <1>1. IInv => HeldUsable
    <2> SUFFICES ASSUME IInv PROVE HeldUsable
      OBVIOUS
    <2>1. HeldComplete
      BY DEF IInv, StreamInOrder, HeldComplete
    <2>2. ASSUME op = "NEXT", NEW h \in held, NEW r \in running
          PROVE  r.half # h
      <3>1. h = 1 - Half /\ r.half = Half
        BY <2>2 DEF IInv, OtherHalf
      <3>2. QED
        BY <3>1 DEF Half
    <2>3. QED
      BY <2>1, <2>2 DEF HeldUsable, NextStable
  <1>2. QED
    BY <1>1, Invariance, PTL

-----------------------------------------------------------------------------
\* The variables of PingPong, and when they stay as they are.
Full == InOrder /\ streaming /\ missing[Half] = {}

\* While a stream is in order, these steps change neither the half nor
\* what the program holds, and let no half become less than full.
LEMMA RefinementStutter ==
    ASSUME IInv, InOrder, InOrder',
           \/ HandlerDone \/ HandlerWake \/ Test \/ Timeout \/ Test2
           \/ Piece \/ Arm \/ Fire \/ StartTransfer \/ ClearDone
           \/ ReadWriteReturn \/ SetTlpCount \/ SetDmaCount \/ UNCHANGED vars
    PROVE  /\ Half' = Half
           /\ HandedOver' = HandedOver
           /\ Full' <=> Full
  <1>1. CASE HandlerDone
    BY <1>1
    DEF IInv, CallsInPlace, Full, HandedOver, Half, HandlerDone, driver,
        board, process, program, history
  <1>2. CASE HandlerWake
    BY <1>2
    DEF IInv, CallsInPlace, Full, HandedOver, Half, HandlerWake, driver,
        board, process, program, history
  <1>3. CASE Test
    BY <1>3
    DEF IInv, CallsInPlace, Full, HandedOver, Half, Test, driver, board,
        process, program, history
  <1>4. CASE Timeout
    BY <1>4
    DEF IInv, CallsInPlace, Full, HandedOver, Half, Timeout, driver, board,
        process, program, history
  <1>5. CASE Test2
    BY <1>5
    DEF IInv, CallsInPlace, Full, HandedOver, Half, Test2, driver, board,
        process, program, history
  <1>6. CASE Piece
    BY <1>6
    DEF IInv, CallsInPlace, Full, HandedOver, Half, Piece, RunDma, driver,
        board, process, program, history
  <1>7. CASE Arm
    BY <1>7
    DEF IInv, CallsInPlace, Full, HandedOver, Half, Arm, driver, board,
        process, program, history
  <1>8. CASE Fire
    BY <1>8
    DEF IInv, CallsInPlace, Full, HandedOver, Half, Fire, RunDma, driver,
        board, process, program, history
  <1>9. CASE StartTransfer
    BY <1>9
    DEF IInv, CallsInPlace, Full, HandedOver, Half, StartTransfer, RunDma,
        driver, board, process, program, history
  <1>10. CASE ClearDone
    BY <1>10
    DEF IInv, CallsInPlace, Full, HandedOver, Half, ClearDone, driver, board,
        process, program, history
  <1>11. CASE ReadWriteReturn
    BY <1>11
    DEF IInv, CallsInPlace, Full, HandedOver, Half, ReadWriteReturn, driver,
        board, process, program, history
  <1>12. CASE SetTlpCount
    BY <1>12
    DEF IInv, CallsInPlace, Full, InOrder, HandedOver, Half, SetTlpCount, driver,
        board, process, program, history
  <1>13. CASE SetDmaCount
    BY <1>13
    DEF IInv, CallsInPlace, Full, HandedOver, Half, SetDmaCount, driver,
        board, process, program, history
  <1>14. CASE UNCHANGED vars
    BY <1>14
    DEF IInv, CallsInPlace, Full, HandedOver, Half, vars, driver, board,
        process, program, history
  <1>15. QED
    BY <1>1, <1>2, <1>3, <1>4, <1>5, <1>6, <1>7, <1>8, <1>9, <1>10, <1>11, <1>12, <1>13, <1>14

\* PingPong's actions, said of this module's variables.
LEMMA AbstractStep ==
    ASSUME InOrder, InOrder',
           \/ /\ Half' = Half /\ HandedOver' = HandedOver
              /\ Full => Full'
           \/ Half' = Half /\ (Full' <=> Full) /\ HandedOver' = {}
           \/ /\ Half' = 1 - Half /\ Full /\ ~Full'
              /\ HandedOver' \in {{Half}, {}}
    PROVE  Abstract!Next \/ UNCHANGED Abstract!vars
  BY DEF Full, Abstract!Next, Abstract!Fill, Abstract!Ask, Abstract!Hand, Abstract!vars

\* A disturbance, and a start, begin the abstract stream anew.
LEMMA AbstractStart ==
    ASSUME ~InOrder' \/ (Half' = 0 /\ ~Full' /\ HandedOver' = {})
    PROVE  Abstract!Start
  BY DEF Full, Abstract!Start

\* Every step is one of the ping-pong or a stutter.
LEMMA RefinementStep ==
    ASSUME IInv, [Next]_vars
    PROVE  Abstract!Next \/ UNCHANGED Abstract!vars
  <1>1. CASE ~InOrder'
    BY <1>1, AbstractStart DEF Abstract!Next
  <1>2. CASE InOrder' /\ StartStream
    <2>1. Half' = 0 /\ HandedOver' = {}
      BY <1>2 DEF StartStream, Begin, FirstPosition, Half, HandedOver
    <2>2. missing'[0] = 0 .. dmaCount - 1 /\ dmaCount \in Nat \ {0}
      BY <1>2, PiecesFacts DEF StartStream, Round, IInv, TypeOK, Halves
    <2>3. ~Full'
      BY <2>1, <2>2 DEF Full
    <2>4. QED
      BY <2>1, <2>3, AbstractStart DEF Abstract!Next
  <1>3. CASE InOrder' /\ ~StartStream
    <2>1. InOrder
      BY <1>3 DEF InOrder, history, IInv, TypeOK, Next, Handler, Step, Finish, HandlerDone, HandlerWake,
         Signal, Test, Timeout, Test2, Flip, Piece, Arm, Fire, Reply, StartTransfer,
         ClearDone, ReadWriteReturn, NextStream, EndStream, ReadWrite, ResetCard,
         SetTlpCount, SetDmaCount, RunDma, Begin, vars
    <2>2. CASE \/ HandlerDone \/ HandlerWake \/ Test \/ Timeout \/ Test2
               \/ Piece \/ Arm \/ Fire \/ StartTransfer \/ ClearDone
               \/ ReadWriteReturn \/ SetTlpCount \/ SetDmaCount \/ UNCHANGED vars
      BY <1>3, <2>1, <2>2, RefinementStutter, AbstractStep
    <2>3. CASE Finish
      <3>1. Half' = Half /\ HandedOver' = HandedOver
        BY <2>3 DEF Finish, Half, HandedOver, driver, process, program, history
      <3>2. Full => Full'
        BY <1>3, <2>3, <3>1 DEF Full, Finish, IInv, TypeOK, Halves, Half, program
      <3>3. QED
        BY <1>3, <2>1, <3>1, <3>2, AbstractStep
    <2>4. CASE NextStream \/ EndStream \/ ResetCard
      <3>1. Half' = Half /\ HandedOver' = {}
        BY <2>4 DEF NextStream, EndStream, ResetCard, Begin, Half, HandedOver, driver
      <3>2. Full' <=> Full
        BY <1>3, <2>1, <2>4, <3>1
        DEF Full, NextStream, EndStream, ResetCard, Begin, board
      <3>3. QED
        BY <1>3, <2>1, <3>1, <3>2, AbstractStep
    <2>5. CASE ReadWrite("READ") \/ ReadWrite("WRITE")
      <3>1. Half' = Half /\ held' = {} /\ pc' = "start"
        BY <2>5 DEF ReadWrite, Begin, Half, driver
      <3>2. HandedOver' = {}
        BY <3>1 DEF HandedOver
      <3>3. ~streaming /\ ~streaming'
        <4>1. disturbed' = (disturbed \/ streaming) /\ streaming' = streaming
          BY <2>5 DEF ReadWrite
        <4>2. QED
          BY <1>3, <4>1, Zenon DEF InOrder
      <3>4. QED
        BY <1>3, <2>1, <3>1, <3>2, <3>3, AbstractStep DEF Full
    <2>6. CASE Flip
      <3>1. Half' = 1 - Half /\ retarg' = Half
        BY <2>6, FlipTurns
      <3>2. Full
        BY <2>1, <2>6 DEF Full, Flip, IInv, CallsInPlace, StreamInOrder, InOrder, Filled
      <3>3. missing'[1 - Half] = 0 .. dmaCount - 1 /\ dmaCount \in Nat \ {0}
        BY <2>6, PiecesFacts DEF Flip, Round, IInv, TypeOK, Halves, Half
      <3>4. ~Full'
        BY <3>1, <3>3 DEF Full
      <3>5. HandedOver' = {Half}
        BY <2>6, <3>1 DEF Flip, FirstPosition, HandedOver, IInv, CallsInPlace
      <3>6. QED
        BY <1>3, <2>1, <3>1, <3>2, <3>4, <3>5, AbstractStep
    <2>7. CASE Reply /\ op = "NEXT"
      <3>1. Half' = Half /\ HandedOver = {retarg} /\ HandedOver' \in {{retarg}, {}}
        BY <2>7 DEF Reply, Half, HandedOver
      <3>2. Full' <=> Full
        BY <1>3, <2>1, <2>7, <3>1 DEF Full, Reply, IInv, CallsInPlace, board
      <3>3. QED
        BY <1>3, <2>1, <3>1, <3>2, AbstractStep
    <2>8. CASE Reply /\ op # "NEXT"
      <3>1. op = "END" /\ dmaDone /\ streaming
        BY <2>1, <2>8 DEF Reply, IInv, CallsInPlace, StreamInOrder, InOrder
      <3>2. Half' = 1 - Half
        BY <2>8, <3>1, ReplyTurns
      <3>3. Full
        BY <2>1, <2>8, <3>1 DEF Full, Reply, IInv, StreamInOrder, Filled
      <3>4. ~Full' /\ HandedOver' \in {{Half}, {}}
        BY <2>8, <3>1 DEF Full, Reply, HandedOver
      <3>5. QED
        BY <1>3, <2>1, <3>2, <3>3, <3>4, AbstractStep
    <2>9. QED
      BY <1>3, <2>1, <2>2, <2>3, <2>4, <2>5, <2>6, <2>7, <2>8
      DEF Next, Handler, Step, Signal, InOrder
  <1>4. QED
    BY <1>1, <1>2, <1>3

\* The stream ioctls implement the ping-pong of two halves, whatever the board,
\* signals, timeouts and other calls do.
THEOREM Refinement == Spec => ImplementsPingPong
  <1>1. Init => Abstract!Init
    BY DEF Init, Abstract!Init, Half, HandedOver
  <1>2. IInv /\ [Next]_vars => Abstract!Next \/ UNCHANGED Abstract!vars
    BY RefinementStep
  <1>3. QED
    BY <1>1, <1>2, Invariance, PTL
    DEF Spec, ImplementsPingPong, Abstract!Spec
=============================================================================
