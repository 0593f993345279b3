--------------------------- MODULE DmaWait_proofs ---------------------------
(***************************************************************************)
(* Proofs about DmaWait for any number of threads on the two channels and  *)
(* on the interrupt generator: the types, and NoSurplus, which with the    *)
(* types is inductive.  An enable write puts its thread into the wait      *)
(* ioctl and makes at most one interrupt possible; the handler turns that  *)
(* into one count; a wait that returns takes one count and one thread.     *)
(*                                                                         *)
(* While the register has one user at a time (OneUser), there is one       *)
(* waiter at most, and what is enabled, handled or counted is for it and   *)
(* for a transfer that is over (Aimed): no credit is stale, and a wait     *)
(* that returns means that its transfer is done.                           *)
(***************************************************************************)
EXTENDS DmaWait, FiniteSetTheorems, TLAPS

AllThreads == Threads \cup IgThreads

-----------------------------------------------------------------------------
\* Facts about the helpers.

\* Every bit the handler looks for has a wait queue (int.c:263-276).
LEMMA QueueOfSource == \A b \in Bits : QueueOf(b) \in Sources
  BY DEF Bits, QueueOf, Sources, Channels, IG

\* The handler finds one of the bits that are shown (int.c:263-276).
LEMMA FirstVisible ==
    ASSUME TypeOK, Visible # {}
    PROVE  First(Visible) \in Visible /\ First(Visible) \in Bits
  <1>1. Visible \subseteq Bits
    BY DEF Visible, TypeOK
  <1>2. First(Visible) \in Visible
    BY <1>1 DEF First, Bits
  <1>3. QED
    BY <1>1, <1>2

\* The handler only runs when a source is enabled.
LEMMA VisibleEnabled ==
    ASSUME Visible # {} PROVE enable # {}
  BY DEF Visible

\* The status bits of the channels are bits of the register.
LEMMA BitsOfChannels == \A c \in Channels : Done(c) \in Bits /\ Tout(c) \in Bits
  BY DEF Channels, Done, Tout, Bits

\* Channels and usable sources are interrupt sources.
LEMMA SourceSets == Usable \subseteq Sources /\ Channels \subseteq Usable
  BY DEF Usable, Sources, Channels, IG

\* The waiting threads are finitely many.
LEMMA WaitingFinite == IsFiniteSet(Waiting) /\ Cardinality(Waiting) \in Nat
  <1>1. IsFiniteSet(AllThreads)
    BY ThreadsAssumption, FS_Union DEF AllThreads
  <1>2. Waiting \subseteq AllThreads
    BY DEF Waiting, AllThreads
  <1>3. QED
    BY <1>1, <1>2, FS_Subset, FS_CardinalityType

\* What the wait queues count, as a natural number.
LEMMA CountedType ==
    ASSUME TypeOK
    PROVE  /\ pending[0] \in Nat /\ pending[1] \in Nat /\ pending[IG] \in Nat
           /\ Counted \in Nat /\ InHandler \in {0, 1} /\ MayCome \in {0, 1}
  BY DEF TypeOK, Sources, Channels, IG, Counted, InHandler, MayCome

\* Waiting after a thread moved: it grows by the thread that calls the ioctl,
\* loses the one whose call returns, and else stays as it is.
LEMMA WaitingEnter ==
    ASSUME TypeOK, NEW t \in AllThreads, NEW from, from # "ioctl",
           Goto(t, from, "ioctl")
    PROVE  Cardinality(Waiting)' = Cardinality(Waiting) + 1
  <1>1. t \notin Waiting
    BY DEF Waiting, Goto
  <1>2. Waiting' = Waiting \cup {t}
    BY DEF Waiting, Goto, TypeOK, AllThreads
  <1>3. QED
    BY <1>1, <1>2, WaitingFinite, FS_AddElement

\* A thread that leaves the wait ioctl is one waiter less.
LEMMA WaitingLeave ==
    ASSUME TypeOK, NEW t \in AllThreads, NEW to, to # "ioctl",
           Goto(t, "ioctl", to)
    PROVE  Cardinality(Waiting)' = Cardinality(Waiting) - 1
  <1>1. t \in Waiting
    BY DEF Waiting, Goto, AllThreads
  <1>2. Waiting' = Waiting \ {t}
    BY DEF Waiting, Goto, TypeOK, AllThreads
  <1>3. QED
    BY <1>1, <1>2, WaitingFinite, FS_RemoveElement

\* Steps outside the wait ioctl leave the waiters as they are.
LEMMA WaitingStays ==
    ASSUME TypeOK, NEW t \in AllThreads, NEW from, NEW to,
           from # "ioctl", to # "ioctl", Goto(t, from, to)
    PROVE  Waiting' = Waiting
  BY DEF Waiting, Goto, TypeOK, AllThreads

-----------------------------------------------------------------------------
\* The initial state is typed.
LEMMA TypeInit == Init => TypeOK
  <1> SUFFICES ASSUME Init PROVE TypeOK
    OBVIOUS
  <1> USE DEF Init, TypeOK
  <1>1. enable \subseteq Usable /\ raised \subseteq Bits
    OBVIOUS
  <1>2. hpc \in {"idle", "ack", "credit"} /\ bit \in Bits
    BY DEF Bits
  <1>3. pending \in [Sources -> Nat] /\ useInterrupts \in BOOLEAN
    OBVIOUS
  <1>4. engine \in [Channels -> {"idle", "busy", "timeout"}]
    OBVIOUS
  <1>5. ch \in [AllThreads -> Sources] /\ \A t \in Threads : ch[t] \in Channels
    BY DEF Sources, Channels, IG, AllThreads
  <1>6. reg \in [AllThreads -> SUBSET Usable]
    BY DEF AllThreads
  <1>7. pc \in [AllThreads -> PC] /\ ret \in [AllThreads -> {"none", "OK", "DMA_TIMEOUT"}]
    BY DEF PC, AllThreads
  <1>8. QED
    BY <1>1, <1>2, <1>3, <1>4, <1>5, <1>6, <1>7 DEF AllThreads

\* Every step keeps the types; in particular the handler counts on a queue
\* that exists, and nobody enables a source nobody uses.
LEMMA TypeNext == TypeOK /\ [Next]_vars => TypeOK'
  <1> SUFFICES ASSUME TypeOK, [Next]_vars
               PROVE  TypeOK'
    OBVIOUS
  <1> USE DEF TypeOK
  <1>1. CASE Handler
    <2>1. CASE HandlerStatus
      BY <2>1, FirstVisible DEF HandlerStatus, board, thread
    <2>2. CASE HandlerAck
      BY <2>2 DEF HandlerAck, thread
    <2>3. CASE HandlerCredit
      <3>1. QueueOf(bit) \in Sources
        BY QueueOfSource
      <3>2. pending' \in [Sources -> Nat]
        BY <2>3, <3>1 DEF HandlerCredit, Queue!Deliver
      <3>3. QED
        BY <2>3, <3>2 DEF HandlerCredit, board, thread
    <2>4. QED
      BY <1>1, <2>1, <2>2, <2>3 DEF Handler
  <1>2. CASE Generate
    BY <1>2 DEF Generate, handler, thread, Bits
  <1>3. CASE SetUseInterrupts
    BY <1>3 DEF SetUseInterrupts, board, handler, thread
  <1>4. ASSUME NEW c \in Channels, Finish(c)
        PROVE  TypeOK'
    BY <1>4, BitsOfChannels DEF Finish, handler, thread
  <1>5. ASSUME NEW t \in Threads, NEW c \in Channels, WaitChannel(t, c)
        PROVE  TypeOK'
    BY <1>5, SourceSets DEF WaitChannel, Goto, PC, board, handler
  <1>6. ASSUME NEW t \in Threads, NEW c \in Channels, NEW lock \in BOOLEAN,
               Start(t, c, lock)
        PROVE  TypeOK'
    <2>1. enable' \subseteq Usable /\ raised' \subseteq Bits
      BY <1>6 DEF Start
    <2>2. pc' \in [AllThreads -> PC]
      BY <1>6 DEF Start, Goto, PC, AllThreads
    <2>3. ch' \in [AllThreads -> Sources] /\ \A u \in Threads : ch'[u] \in Channels
      BY <1>6, SourceSets DEF Start, AllThreads
    <2>4. engine' \in [Channels -> {"idle", "busy", "timeout"}]
      BY <1>6 DEF Start
    <2>5. ret' \in [AllThreads -> {"none", "OK", "DMA_TIMEOUT"}]
      BY <1>6 DEF Start, AllThreads
    <2>6. QED
      BY <1>6, <2>1, <2>2, <2>3, <2>4, <2>5 DEF Start, handler, AllThreads
  <1>7. ASSUME NEW t \in Threads, PollTimeout(t)
        PROVE  TypeOK'
    BY <1>7 DEF PollTimeout, Goto, PC, board, handler
  <1>8. ASSUME NEW t \in Threads, CheckOver(t) \/ CheckBusy(t)
        PROVE  TypeOK'
    BY <1>8 DEF CheckOver, CheckBusy, Goto, PC, board, handler
  <1>9. ASSUME NEW t \in Threads, Send(t)
        PROVE  TypeOK'
    BY <1>9 DEF Send, Goto, PC, handler
  <1>10. ASSUME NEW t \in AllThreads, EnableRead(t)
         PROVE  TypeOK'
    BY <1>10 DEF EnableRead, Goto, PC, board, handler, AllThreads
  <1>11. ASSUME NEW t \in AllThreads, EnableWrite(t)
         PROVE  TypeOK'
    <2>1. ch[t] \in Usable
      BY SourceSets DEF AllThreads, Usable, Sources
    <2>2. enable' \subseteq Usable
      BY <1>11, <2>1 DEF EnableWrite, AllThreads
    <2>3. QED
      BY <1>11, <2>2 DEF EnableWrite, Goto, PC, board, handler, AllThreads
  <1>12. ASSUME NEW t \in AllThreads, WaitForInterrupt(t)
         PROVE  TypeOK'
    <2>1. pending' \in [Sources -> Nat]
      BY <1>12 DEF WaitForInterrupt, Queue!Take, AllThreads
    <2>2. QED
      BY <1>12, <2>1 DEF WaitForInterrupt, Goto, PC, board, handler, AllThreads
  <1>13. ASSUME NEW t \in AllThreads, DisableInterrupt(t)
         PROVE  TypeOK'
    BY <1>13 DEF DisableInterrupt, Goto, PC, board, handler, AllThreads
  <1>14. ASSUME NEW t \in IgThreads, IgWait(t)
         PROVE  TypeOK'
    BY <1>14 DEF IgWait, Goto, PC, board, handler
  <1>15. CASE UNCHANGED vars
    BY <1>15 DEF vars, board, handler, thread
  <1>16. QED
    BY <1>1, <1>2, <1>3, <1>4, <1>5, <1>6, <1>7, <1>8, <1>9, <1>10, <1>11,
       <1>12, <1>13, <1>14, <1>15 DEF Next, InWait, AllThreads

-----------------------------------------------------------------------------
\* The surplus invariant, action by action.

\* Steps that leave the queues, the handler and the enable register as they
\* are, or clear the register, and move no thread into or out of the ioctl.
LEMMA SurplusStays ==
    ASSUME TypeOK, NoSurplus,
           pending' = pending, hpc' = hpc, enable' \in {enable, {}},
           Waiting' = Waiting
    PROVE  NoSurplus'
  BY CountedType, WaitingFinite
  DEF NoSurplus, Counted, InHandler, MayCome

\* The handler turns an interrupt that may come into one it handles.
LEMMA SurplusStatus ==
    ASSUME TypeOK, NoSurplus, HandlerStatus
    PROVE  NoSurplus'
  <1>1. enable # {} /\ hpc = "idle" /\ hpc' = "ack" /\ pending' = pending
    BY VisibleEnabled DEF HandlerStatus
  <1>2. Waiting' = Waiting
    BY DEF HandlerStatus, thread, Waiting
  <1>3. Counted' = Counted /\ InHandler = 0 /\ InHandler' = 1
        /\ MayCome = 1 /\ MayCome' = 0
    BY <1>1 DEF Counted, InHandler, MayCome
  <1>4. QED
    BY <1>2, <1>3, CountedType, WaitingFinite DEF NoSurplus

\* It clears the register before it counts the interrupt.
LEMMA SurplusAck ==
    ASSUME TypeOK, NoSurplus, HandlerAck
    PROVE  NoSurplus'
  <1>1. Waiting' = Waiting
    BY DEF HandlerAck, thread, Waiting
  <1>2. Counted' = Counted /\ InHandler' = InHandler /\ MayCome' = 0
    BY DEF HandlerAck, Counted, InHandler, MayCome
  <1>3. QED
    BY <1>1, <1>2, CountedType, WaitingFinite DEF NoSurplus

\* The count grows by the interrupt the handler worked on.
LEMMA SurplusCredit ==
    ASSUME TypeOK, NoSurplus, HandlerCredit
    PROVE  NoSurplus'
  <1>1. QueueOf(bit) \in {0, 1, IG}
    BY DEF QueueOf, IG
  <1>2. pending' = [pending EXCEPT ![QueueOf(bit)] = @ + 1]
    BY DEF HandlerCredit, Queue!Deliver
  <1>3. Counted' = Counted + 1
    <2>1. CASE QueueOf(bit) = 0
      BY <1>2, <2>1, CountedType DEF Counted, TypeOK, Sources, Channels, IG
    <2>2. CASE QueueOf(bit) = 1
      BY <1>2, <2>2, CountedType DEF Counted, TypeOK, Sources, Channels, IG
    <2>3. CASE QueueOf(bit) = IG
      BY <1>2, <2>3, CountedType DEF Counted, TypeOK, Sources, Channels, IG
    <2>4. QED
      BY <1>1, <2>1, <2>2, <2>3
  <1>4. InHandler = 1 /\ InHandler' = 0 /\ MayCome' = MayCome
    BY DEF HandlerCredit, InHandler, MayCome
  <1>5. Waiting' = Waiting
    BY DEF HandlerCredit, thread, Waiting
  <1>6. QED
    BY <1>3, <1>4, <1>5, CountedType, WaitingFinite DEF NoSurplus

\* The enable write: one more thread waits, one more interrupt may come,
\* whatever the value it writes back.
LEMMA SurplusEnable ==
    ASSUME TypeOK, NoSurplus, NEW t \in AllThreads, EnableWrite(t)
    PROVE  NoSurplus'
  <1>1. Cardinality(Waiting)' = Cardinality(Waiting) + 1
    BY WaitingEnter DEF EnableWrite
  <1>2. Counted' = Counted /\ InHandler' = InHandler
    BY DEF EnableWrite, handler, Counted, InHandler
  <1>3. MayCome' <= MayCome + 1
    BY DEF MayCome
  <1>4. MayCome' \in {0, 1}
    BY DEF MayCome
  <1>5. QED
    BY <1>1, <1>2, <1>3, <1>4, CountedType, WaitingFinite DEF NoSurplus

\* A wait that returns: one thread and one count less.
LEMMA SurplusTake ==
    ASSUME TypeOK, NoSurplus, NEW t \in AllThreads, WaitForInterrupt(t)
    PROVE  NoSurplus'
  <1>1. Cardinality(Waiting)' = Cardinality(Waiting) - 1
    BY WaitingLeave DEF WaitForInterrupt
  <1>2. ch[t] \in {0, 1, IG}
    BY DEF TypeOK, AllThreads, Sources, Channels
  <1>3. pending' = [pending EXCEPT ![ch[t]] = @ - 1]
    BY DEF WaitForInterrupt, Queue!Take
  <1>4. Counted' = Counted - 1
    <2>1. CASE ch[t] = 0
      BY <1>3, <2>1, CountedType DEF Counted, TypeOK, Sources, Channels, IG
    <2>2. CASE ch[t] = 1
      BY <1>3, <2>2, CountedType DEF Counted, TypeOK, Sources, Channels, IG
    <2>3. CASE ch[t] = IG
      BY <1>3, <2>3, CountedType DEF Counted, TypeOK, Sources, Channels, IG
    <2>4. QED
      BY <1>2, <2>1, <2>2, <2>3
  <1>5. InHandler' = InHandler /\ MayCome' = MayCome
    BY DEF WaitForInterrupt, handler, InHandler, MayCome
  <1>6. QED
    BY <1>1, <1>4, <1>5, CountedType, WaitingFinite DEF NoSurplus

\* At first nothing is counted and nobody waits.
LEMMA SurplusInit == Init => NoSurplus
  <1> SUFFICES ASSUME Init PROVE NoSurplus
    OBVIOUS
  <1>1. Counted = 0 /\ InHandler = 0 /\ MayCome = 0
    BY DEF Init, Counted, InHandler, MayCome, Sources, Channels, IG
  <1>2. QED
    BY <1>1, WaitingFinite DEF NoSurplus

\* No step of handler, board or threads makes a surplus.
LEMMA SurplusNext == TypeOK /\ NoSurplus /\ [Next]_vars => NoSurplus'
  <1> SUFFICES ASSUME TypeOK, NoSurplus, [Next]_vars
               PROVE  NoSurplus'
    OBVIOUS
  <1>1. CASE Handler
    BY <1>1, SurplusStatus, SurplusAck, SurplusCredit DEF Handler
  <1>2. CASE Generate \/ SetUseInterrupts \/ (\E c \in Channels : Finish(c))
             \/ UNCHANGED vars
    <2>1. pending' = pending /\ hpc' = hpc /\ enable' = enable /\ pc' = pc
      BY <1>2 DEF Generate, SetUseInterrupts, Finish, vars, board, handler, thread
    <2>2. QED
      BY <2>1, SurplusStays DEF Waiting
  <1>3. ASSUME NEW t \in Threads, NEW c \in Channels, WaitChannel(t, c)
        PROVE  NoSurplus'
    <2>1. Waiting' = Waiting
      BY <1>3, WaitingStays DEF WaitChannel, AllThreads
    <2>2. QED
      BY <1>3, <2>1, SurplusStays DEF WaitChannel, handler
  <1>4. ASSUME NEW t \in Threads, NEW c \in Channels, NEW lock \in BOOLEAN,
               Start(t, c, lock)
        PROVE  NoSurplus'
    <2>1. Waiting' = Waiting
      BY <1>4, WaitingStays DEF Start, AllThreads
    <2>2. QED
      BY <1>4, <2>1, SurplusStays DEF Start, handler
  <1>5. ASSUME NEW t \in AllThreads,
               PollTimeout(t) \/ CheckOver(t) \/ CheckBusy(t) \/ Send(t)
                 \/ EnableRead(t) \/ IgWait(t)
        PROVE  NoSurplus'
    <2>1. Waiting' = Waiting
      BY <1>5, WaitingStays
      DEF PollTimeout, CheckOver, CheckBusy, Send, EnableRead, IgWait
    <2>2. pending' = pending /\ hpc' = hpc /\ enable' = enable
      BY <1>5
      DEF PollTimeout, CheckOver, CheckBusy, Send, EnableRead, IgWait, handler
    <2>3. QED
      BY <2>1, <2>2, SurplusStays
  <1>6. ASSUME NEW t \in AllThreads, DisableInterrupt(t)
        PROVE  NoSurplus'
    <2>1. Waiting' = Waiting
      BY <1>6, WaitingStays DEF DisableInterrupt
    <2>2. QED
      BY <1>6, <2>1, SurplusStays DEF DisableInterrupt, handler
  <1>7. ASSUME NEW t \in AllThreads, EnableWrite(t) PROVE NoSurplus'
    BY <1>7, SurplusEnable
  <1>8. ASSUME NEW t \in AllThreads, WaitForInterrupt(t) PROVE NoSurplus'
    BY <1>8, SurplusTake
  <1>9. QED
    BY <1>1, <1>2, <1>3, <1>4, <1>5, <1>6, <1>7, <1>8
    DEF Next, InWait, AllThreads

-----------------------------------------------------------------------------
\* What a wait rests on while the register has one user at a time: besides
\* counting, that what is enabled, handled or counted is for the one waiter,
\* and that its transfer is over by then.

\* With nobody in the wait ioctl nothing is counted, handled or enabled.
QuietAtRest ==
    Waiting = {} => /\ \A s \in Sources : pending[s] = 0
                    /\ hpc = "idle"
                    /\ enable = {}

\* Users of the generator stay with it, and a channel has one user.
OwnSources ==
    /\ \A t \in IgThreads : ch[t] = IG /\ pc[t] \notin {"send", "sendlock", "check"}
    /\ \A t, u \in Threads : pc[t] # "ready" /\ pc[u] # "ready" /\ ch[t] = ch[u] => t = u

\* A channel about to be started was reset; one with a bit raised has ended.
Prepared(t) ==
    pc[t] \in {"send", "sendlock"} =>
        /\ engine[ch[t]] = "idle" /\ ret[t] = "none"
        /\ \A b \in raised : QueueOf(b) # ch[t]

Ended == \A b \in raised : QueueOf(b) \in Channels => engine[QueueOf(b)] # "busy"

\* An interrupt of s is in the handler or counted.
Owed(s) == pending[s] > 0 \/ (hpc # "idle" /\ QueueOf(bit) = s)

OneUser == \A t, u \in AllThreads : Using(t) /\ Using(u) => t = u

Aimed(t) ==
    /\ pc[t] = "write" => reg[t] = {}
    /\ pc[t] = "ioctl" =>
          /\ enable \subseteq {ch[t]}
          /\ \A s \in Sources : Owed(s) => s = ch[t]
          /\ t \in Threads /\ Owed(ch[t]) => engine[ch[t]] # "busy"
    /\ pc[t] = "disable" /\ t \in Threads => engine[ch[t]] # "busy"

InOrder ==
    /\ OwnSources
    /\ \A t \in Threads : Prepared(t)
    /\ Ended
    /\ ~overlap => OneUser /\ \A t \in AllThreads : Aimed(t)

\* From the count: nothing for nobody.
LEMMA RestIsQuiet ==
    ASSUME TypeOK, NoSurplus
    PROVE  QuietAtRest
<1> SUFFICES ASSUME Waiting = {}
             PROVE  /\ \A s \in Sources : pending[s] = 0
                    /\ hpc = "idle"
                    /\ enable = {}
  BY DEF QuietAtRest
<1>1. Cardinality(Waiting) = 0
  BY FS_EmptySet
<1>2. Counted = 0 /\ InHandler = 0 /\ MayCome = 0
  BY <1>1, CountedType DEF NoSurplus
<1>3. hpc = "idle" /\ enable = {}
  BY <1>2 DEF InHandler, MayCome
<1>4. pending[0] = 0 /\ pending[1] = 0 /\ pending[IG] = 0
  BY <1>2, CountedType DEF Counted
<1>5. QED
  BY <1>3, <1>4 DEF Sources, Channels

\* The bits of a channel are its done and its timeout bit.
LEMMA BitsOfQueue == \A c \in Channels, b \in Bits : QueueOf(b) = c <=> b \in {Done(c), Tout(c)}
  BY DEF Channels, Bits, QueueOf, Done, Tout, IG

\* Channels are sources, and not the generator.
LEMMA ChannelSources == /\ Channels \subseteq Sources /\ IG \in Sources /\ IG \notin Channels
                        /\ \A b \in Bits : QueueOf(b) \in Sources
  BY DEF Channels, Sources, IG, Bits, QueueOf

\* Who uses which source.
LEMMA OwnSourcesStep ==
    ASSUME TypeOK, NoSurplus, InOrder, [Next]_vars
    PROVE  OwnSources'
<1>. USE ThreadsAssumption DEF TypeOK, PC, AllThreads, Goto, board, handler,
         thread, InOrder, OwnSources
<1>1. CASE HandlerStatus
  BY <1>1 DEF HandlerStatus
<1>2. CASE HandlerAck
  BY <1>2 DEF HandlerAck
<1>3. CASE HandlerCredit
  BY <1>3 DEF HandlerCredit
<1>4. CASE Generate
  BY <1>4 DEF Generate
<1>5. CASE SetUseInterrupts
  BY <1>5 DEF SetUseInterrupts
<1>6. ASSUME NEW c \in Channels, Finish(c)
       PROVE  OwnSources'
  BY <1>6 DEF Finish
<1>7. ASSUME NEW t \in Threads, NEW c \in Channels, WaitChannel(t, c)
       PROVE  OwnSources'
  BY <1>7 DEF WaitChannel
<1>8. ASSUME NEW t \in Threads, NEW c \in Channels, NEW lock \in BOOLEAN, Start(t, c, lock)
       PROVE  OwnSources'
  BY <1>8 DEF Start, Free
<1>9. ASSUME NEW t \in Threads, PollTimeout(t)
       PROVE  OwnSources'
  BY <1>9 DEF PollTimeout
<1>10. ASSUME NEW t \in Threads, CheckOver(t)
       PROVE  OwnSources'
  BY <1>10 DEF CheckOver
<1>11. ASSUME NEW t \in Threads, CheckBusy(t)
       PROVE  OwnSources'
  BY <1>11 DEF CheckBusy
<1>12. ASSUME NEW t \in Threads, Send(t)
       PROVE  OwnSources'
  BY <1>12 DEF Send
<1>13. ASSUME NEW t \in IgThreads, IgWait(t)
       PROVE  OwnSources'
  BY <1>13 DEF IgWait
<1>14. ASSUME NEW t \in AllThreads, EnableRead(t)
       PROVE  OwnSources'
  BY <1>14 DEF EnableRead
<1>15. ASSUME NEW t \in AllThreads, EnableWrite(t)
       PROVE  OwnSources'
  BY <1>15 DEF EnableWrite
<1>16. ASSUME NEW t \in AllThreads, WaitForInterrupt(t)
       PROVE  OwnSources'
  BY <1>16 DEF WaitForInterrupt
<1>17. ASSUME NEW t \in AllThreads, DisableInterrupt(t)
       PROVE  OwnSources'
  BY <1>17 DEF DisableInterrupt
<1>18. CASE UNCHANGED vars
  BY <1>18 DEF vars
<1>. QED
  BY <1>1, <1>2, <1>3, <1>4, <1>5, <1>6, <1>7, <1>8, <1>9, <1>10, <1>11, <1>12,
       <1>13, <1>14, <1>15, <1>16, <1>17, <1>18 DEF Next, Handler, InWait,
       AllThreads

\* A transfer is started on a channel that was reset.
LEMMA PreparedStep ==
    ASSUME TypeOK, NoSurplus, InOrder, [Next]_vars, NEW x \in Threads
    PROVE  Prepared(x)'
<1>. USE ThreadsAssumption DEF TypeOK, PC, AllThreads, Goto, board, handler,
         thread, InOrder, OwnSources, Prepared
<1>1. CASE HandlerStatus
  BY <1>1, ChannelSources DEF HandlerStatus
<1>2. CASE HandlerAck
  BY <1>2, ChannelSources DEF HandlerAck
<1>3. CASE HandlerCredit
  BY <1>3, ChannelSources DEF HandlerCredit
<1>4. CASE Generate
  BY <1>4, ChannelSources DEF Generate, QueueOf, Channels, IG
<1>5. CASE SetUseInterrupts
  BY <1>5, ChannelSources DEF SetUseInterrupts
<1>6. ASSUME NEW c \in Channels, Finish(c)
       PROVE  Prepared(x)'
  BY <1>6, ChannelSources, BitsOfQueue, BitsOfChannels DEF Finish
<1>7. ASSUME NEW t \in Threads, NEW c \in Channels, WaitChannel(t, c)
       PROVE  Prepared(x)'
  BY <1>7, ChannelSources DEF WaitChannel
<1>8. ASSUME NEW t \in Threads, NEW c \in Channels, NEW lock \in BOOLEAN, Start(t, c, lock)
       PROVE  Prepared(x)'
  BY <1>8, ChannelSources, BitsOfQueue, BitsOfChannels DEF Start, Free
<1>9. ASSUME NEW t \in Threads, PollTimeout(t)
       PROVE  Prepared(x)'
  BY <1>9, ChannelSources DEF PollTimeout
<1>10. ASSUME NEW t \in Threads, CheckOver(t)
       PROVE  Prepared(x)'
  BY <1>10, ChannelSources DEF CheckOver
<1>11. ASSUME NEW t \in Threads, CheckBusy(t)
       PROVE  Prepared(x)'
  BY <1>11, ChannelSources DEF CheckBusy
<1>12. ASSUME NEW t \in Threads, Send(t)
       PROVE  Prepared(x)'
  BY <1>12, ChannelSources DEF Send
<1>13. ASSUME NEW t \in IgThreads, IgWait(t)
       PROVE  Prepared(x)'
  BY <1>13, ChannelSources DEF IgWait
<1>14. ASSUME NEW t \in AllThreads, EnableRead(t)
       PROVE  Prepared(x)'
  BY <1>14, ChannelSources DEF EnableRead
<1>15. ASSUME NEW t \in AllThreads, EnableWrite(t)
       PROVE  Prepared(x)'
  BY <1>15, ChannelSources DEF EnableWrite
<1>16. ASSUME NEW t \in AllThreads, WaitForInterrupt(t)
       PROVE  Prepared(x)'
  BY <1>16, ChannelSources DEF WaitForInterrupt
<1>17. ASSUME NEW t \in AllThreads, DisableInterrupt(t)
       PROVE  Prepared(x)'
  BY <1>17, ChannelSources DEF DisableInterrupt
<1>18. CASE UNCHANGED vars
  BY <1>18 DEF vars
<1>. QED
  BY <1>1, <1>2, <1>3, <1>4, <1>5, <1>6, <1>7, <1>8, <1>9, <1>10, <1>11, <1>12,
       <1>13, <1>14, <1>15, <1>16, <1>17, <1>18 DEF Next, Handler, InWait,
       AllThreads

\* A bit is raised by a transfer that ended.
LEMMA EndedStep ==
    ASSUME TypeOK, NoSurplus, InOrder, [Next]_vars
    PROVE  Ended'
<1>. USE ThreadsAssumption DEF TypeOK, PC, AllThreads, Goto, board, handler,
         thread, InOrder, Ended
<1>1. CASE HandlerStatus
  BY <1>1, ChannelSources DEF HandlerStatus
<1>2. CASE HandlerAck
  BY <1>2, ChannelSources DEF HandlerAck
<1>3. CASE HandlerCredit
  BY <1>3, ChannelSources DEF HandlerCredit
<1>4. CASE Generate
  BY <1>4, ChannelSources DEF Generate, QueueOf, Channels, IG
<1>5. CASE SetUseInterrupts
  BY <1>5, ChannelSources DEF SetUseInterrupts
<1>6. ASSUME NEW c \in Channels, Finish(c)
       PROVE  Ended'
  BY <1>6, ChannelSources, BitsOfQueue, BitsOfChannels DEF Finish
<1>7. ASSUME NEW t \in Threads, NEW c \in Channels, WaitChannel(t, c)
       PROVE  Ended'
  BY <1>7, ChannelSources DEF WaitChannel
<1>8. ASSUME NEW t \in Threads, NEW c \in Channels, NEW lock \in BOOLEAN, Start(t, c, lock)
       PROVE  Ended'
  BY <1>8, ChannelSources, BitsOfQueue, BitsOfChannels DEF Start, Free
<1>9. ASSUME NEW t \in Threads, PollTimeout(t)
       PROVE  Ended'
  BY <1>9, ChannelSources DEF PollTimeout
<1>10. ASSUME NEW t \in Threads, CheckOver(t)
       PROVE  Ended'
  BY <1>10, ChannelSources DEF CheckOver
<1>11. ASSUME NEW t \in Threads, CheckBusy(t)
       PROVE  Ended'
  BY <1>11, ChannelSources DEF CheckBusy
<1>12. ASSUME NEW t \in Threads, Send(t)
       PROVE  Ended'
  BY <1>12, ChannelSources DEF Send, Prepared
<1>13. ASSUME NEW t \in IgThreads, IgWait(t)
       PROVE  Ended'
  BY <1>13, ChannelSources DEF IgWait
<1>14. ASSUME NEW t \in AllThreads, EnableRead(t)
       PROVE  Ended'
  BY <1>14, ChannelSources DEF EnableRead
<1>15. ASSUME NEW t \in AllThreads, EnableWrite(t)
       PROVE  Ended'
  BY <1>15, ChannelSources DEF EnableWrite
<1>16. ASSUME NEW t \in AllThreads, WaitForInterrupt(t)
       PROVE  Ended'
  BY <1>16, ChannelSources DEF WaitForInterrupt
<1>17. ASSUME NEW t \in AllThreads, DisableInterrupt(t)
       PROVE  Ended'
  BY <1>17, ChannelSources DEF DisableInterrupt
<1>18. CASE UNCHANGED vars
  BY <1>18 DEF vars
<1>. QED
  BY <1>1, <1>2, <1>3, <1>4, <1>5, <1>6, <1>7, <1>8, <1>9, <1>10, <1>11, <1>12,
       <1>13, <1>14, <1>15, <1>16, <1>17, <1>18 DEF Next, Handler, InWait,
       AllThreads

\* The register has a new user after the old one has left, or overlap is set.
LEMMA OneUserStep ==
    ASSUME TypeOK, NoSurplus, InOrder, [Next]_vars, ~overlap'
    PROVE  OneUser'
<1>. USE ThreadsAssumption DEF TypeOK, PC, AllThreads, Goto, board, handler,
         thread, InOrder, OneUser, Using
<1>1. CASE HandlerStatus
  BY <1>1 DEF HandlerStatus
<1>2. CASE HandlerAck
  BY <1>2 DEF HandlerAck
<1>3. CASE HandlerCredit
  BY <1>3 DEF HandlerCredit
<1>4. CASE Generate
  BY <1>4 DEF Generate
<1>5. CASE SetUseInterrupts
  BY <1>5 DEF SetUseInterrupts
<1>6. ASSUME NEW c \in Channels, Finish(c)
       PROVE  OneUser'
  BY <1>6 DEF Finish
<1>7. ASSUME NEW t \in Threads, NEW c \in Channels, WaitChannel(t, c)
       PROVE  OneUser'
  BY <1>7 DEF WaitChannel
<1>8. ASSUME NEW t \in Threads, NEW c \in Channels, NEW lock \in BOOLEAN, Start(t, c, lock)
       PROVE  OneUser'
  BY <1>8 DEF Start
<1>9. ASSUME NEW t \in Threads, PollTimeout(t)
       PROVE  OneUser'
  BY <1>9 DEF PollTimeout
<1>10. ASSUME NEW t \in Threads, CheckOver(t)
       PROVE  OneUser'
  BY <1>10 DEF CheckOver
<1>11. ASSUME NEW t \in Threads, CheckBusy(t)
       PROVE  OneUser'
  BY <1>11 DEF CheckBusy
<1>12. ASSUME NEW t \in Threads, Send(t)
       PROVE  OneUser'
  BY <1>12 DEF Send
<1>13. ASSUME NEW t \in IgThreads, IgWait(t)
       PROVE  OneUser'
  BY <1>13 DEF IgWait
<1>14. ASSUME NEW t \in AllThreads, EnableRead(t)
       PROVE  OneUser'
  BY <1>14 DEF EnableRead
<1>15. ASSUME NEW t \in AllThreads, EnableWrite(t)
       PROVE  OneUser'
  BY <1>15 DEF EnableWrite
<1>16. ASSUME NEW t \in AllThreads, WaitForInterrupt(t)
       PROVE  OneUser'
  BY <1>16 DEF WaitForInterrupt
<1>17. ASSUME NEW t \in AllThreads, DisableInterrupt(t)
       PROVE  OneUser'
  BY <1>17 DEF DisableInterrupt
<1>18. CASE UNCHANGED vars
  BY <1>18 DEF vars
<1>. QED
  BY <1>1, <1>2, <1>3, <1>4, <1>5, <1>6, <1>7, <1>8, <1>9, <1>10, <1>11, <1>12,
       <1>13, <1>14, <1>15, <1>16, <1>17, <1>18 DEF Next, Handler, InWait,
       AllThreads

\* What is enabled, handled or counted is the waiter's.
LEMMA AimedStep ==
    ASSUME TypeOK, NoSurplus, InOrder, [Next]_vars, ~overlap', NEW x \in AllThreads
    PROVE  Aimed(x)'
<1>. USE ThreadsAssumption DEF TypeOK, PC, AllThreads, Goto, board, handler,
         thread, InOrder, OneUser, Using, Aimed, Owed
<1>1. CASE HandlerStatus
  <2>1. First(Visible) \in Visible /\ First(Visible) \in Bits
    BY <1>1, FirstVisible DEF HandlerStatus
  <2>2. QueueOf(bit') \in enable /\ bit' \in raised /\ QueueOf(bit') \in Sources
    BY <1>1, <2>1, ChannelSources DEF HandlerStatus, Visible
  <2>3. QueueOf(bit') \in Channels => engine[QueueOf(bit')] # "busy"
    BY <2>2 DEF Ended
  <2>. QED
    BY <1>1, <2>2, <2>3, ChannelSources DEF HandlerStatus
<1>2. CASE HandlerAck
  BY <1>2, ChannelSources DEF HandlerAck
<1>3. CASE HandlerCredit
  <2>1. QueueOf(bit) \in Sources /\ pending' = [pending EXCEPT ![QueueOf(bit)] = pending[QueueOf(bit)] + 1]
    BY <1>3, ChannelSources DEF HandlerCredit, Queue!Deliver
  <2>2. \A s \in Sources : Owed(s)' => Owed(s)
    BY <1>3, <2>1 DEF HandlerCredit
  <2>. QED
    BY <1>3, <2>2, ChannelSources DEF HandlerCredit
<1>4. CASE Generate
  BY <1>4, ChannelSources DEF Generate
<1>5. CASE SetUseInterrupts
  BY <1>5, ChannelSources DEF SetUseInterrupts
<1>6. ASSUME NEW c \in Channels, Finish(c)
       PROVE  Aimed(x)'
  BY <1>6, ChannelSources DEF Finish
<1>7. ASSUME NEW t \in Threads, NEW c \in Channels, WaitChannel(t, c)
       PROVE  Aimed(x)'
  BY <1>7, ChannelSources DEF WaitChannel
<1>8. ASSUME NEW t \in Threads, NEW c \in Channels, NEW lock \in BOOLEAN, Start(t, c, lock)
       PROVE  Aimed(x)'
  <2>1. /\ engine' = [engine EXCEPT ![c] = "idle"] /\ enable' \subseteq enable
        /\ pending' = pending /\ hpc' = hpc /\ bit' = bit /\ reg' = reg /\ ~overlap
        /\ pc'[t] \in {"send", "sendlock"}
        /\ \A u \in AllThreads \ {t} : pc'[u] = pc[u] /\ ch'[u] = ch[u]
    BY <1>8 DEF Start
  <2>2. CASE x = t
    BY <2>1, <2>2
  <2>3. CASE x # t
    BY <2>1, <2>3
  <2>. QED
    BY <2>2, <2>3
<1>9. ASSUME NEW t \in Threads, PollTimeout(t)
       PROVE  Aimed(x)'
  BY <1>9, ChannelSources DEF PollTimeout
<1>10. ASSUME NEW t \in Threads, CheckOver(t)
       PROVE  Aimed(x)'
  BY <1>10, ChannelSources DEF CheckOver
<1>11. ASSUME NEW t \in Threads, CheckBusy(t)
       PROVE  Aimed(x)'
  BY <1>11, ChannelSources DEF CheckBusy
<1>12. ASSUME NEW t \in Threads, Send(t)
       PROVE  Aimed(x)'
  <2>1. /\ engine' = [engine EXCEPT ![ch[t]] = "busy"] /\ enable' = enable
        /\ pending' = pending /\ hpc' = hpc /\ bit' = bit /\ reg' = reg /\ ~overlap
        /\ pc[t] \in {"send", "sendlock"} /\ pc'[t] \in {"ready", "check"} /\ ch' = ch
        /\ \A u \in AllThreads \ {t} : pc'[u] = pc[u]
    BY <1>12 DEF Send
  <2>2. CASE x = t
    BY <2>1, <2>2
  <2>3. CASE x # t
    <3>1. x \in Threads /\ pc[x] # "ready" => ch[x] # ch[t]
      BY <2>1, <2>3 DEF OwnSources
    <3>. QED
      BY <2>1, <2>3, <3>1
  <2>. QED
    BY <2>2, <2>3
<1>13. ASSUME NEW t \in IgThreads, IgWait(t)
       PROVE  Aimed(x)'
  BY <1>13, ChannelSources DEF IgWait
<1>14. ASSUME NEW t \in AllThreads, EnableRead(t)
       PROVE  Aimed(x)'
  <2>1. \A u \in AllThreads : ~Using(u)
    BY <1>14 DEF EnableRead
  <2>2. Waiting = {}
    BY <2>1 DEF Waiting
  <2>3. enable = {}
    BY <2>2, RestIsQuiet DEF QuietAtRest
  <2>. QED
    BY <1>14, <2>1, <2>3 DEF EnableRead
<1>15. ASSUME NEW t \in AllThreads, EnableWrite(t)
       PROVE  Aimed(x)'
  <2>1. Using(t) /\ reg[t] = {} /\ \A u \in AllThreads : u # t => ~Using(u)
    BY <1>15 DEF EnableWrite
  <2>2. Waiting = {}
    BY <1>15, <2>1 DEF Waiting, EnableWrite
  <2>3. hpc = "idle" /\ \A s \in Sources : pending[s] = 0
    BY <2>2, RestIsQuiet DEF QuietAtRest
  <2>4. CASE x = t
    <3>1. \A s \in Sources : ~Owed(s)'
      BY <1>15, <2>3 DEF EnableWrite
    <3>2. enable' = {ch[t]} /\ pc'[t] = "ioctl" /\ ch' = ch /\ ch[t] \in Sources
      BY <1>15, <2>1 DEF EnableWrite
    <3>. QED
      BY <2>4, <3>1, <3>2
  <2>5. CASE x # t
    <3>1. pc'[x] = pc[x] /\ pc[x] \notin {"write", "ioctl", "disable"}
      BY <1>15, <2>1, <2>5 DEF EnableWrite
    <3>. QED
      BY <3>1
  <2>. QED
    BY <2>4, <2>5
<1>16. ASSUME NEW t \in AllThreads, WaitForInterrupt(t)
       PROVE  Aimed(x)'
  <2>1. /\ pc[t] = "ioctl" /\ pc' = [pc EXCEPT ![t] = "disable"] /\ ~overlap
        /\ engine' = engine /\ ch' = ch /\ reg' = reg
    BY <1>16 DEF WaitForInterrupt
  <2>2. Owed(ch[t])
    BY <1>16 DEF WaitForInterrupt, Queue!Take
  <2>3. CASE x = t
    BY <2>1, <2>2, <2>3
  <2>4. CASE x # t
    BY <2>1, <2>4
  <2>. QED
    BY <2>3, <2>4
<1>17. ASSUME NEW t \in AllThreads, DisableInterrupt(t)
       PROVE  Aimed(x)'
  BY <1>17, ChannelSources DEF DisableInterrupt
<1>18. CASE UNCHANGED vars
  BY <1>18 DEF vars
<1>. QED
  BY <1>1, <1>2, <1>3, <1>4, <1>5, <1>6, <1>7, <1>8, <1>9, <1>10, <1>11, <1>12,
       <1>13, <1>14, <1>15, <1>16, <1>17, <1>18 DEF Next, Handler, InWait,
       AllThreads

\* At first nobody waits.
LEMMA InOrderInit == Init => InOrder
  BY ThreadsAssumption DEF Init, InOrder, OwnSources, Prepared, Ended, OneUser,
       Using, Aimed, Owed, AllThreads

\* No step breaks the order.
LEMMA InOrderStep == TypeOK /\ NoSurplus /\ InOrder /\ [Next]_vars => InOrder'
<1> SUFFICES ASSUME TypeOK, NoSurplus, InOrder, [Next]_vars
             PROVE  InOrder'
  OBVIOUS
<1>1. OwnSources' /\ Ended' /\ \A t \in Threads : Prepared(t)'
  BY OwnSourcesStep, EndedStep, PreparedStep
<1>2. ASSUME ~overlap' PROVE OneUser' /\ \A t \in AllThreads : Aimed(t)'
  BY <1>2, OneUserStep, AimedStep
<1>. QED
  BY <1>1, <1>2 DEF InOrder, AllThreads

\* While the register has one user at a time, an interrupt that is handled or
\* counted is the only one, and belongs to a waiter whose transfer is over.
LEMMA CreditsAreFresh ==
    ASSUME TypeOK, NoSurplus, InOrder
    PROVE  NoStaleCredit
<1> SUFFICES ASSUME NEW c \in Channels, ~overlap, Credits(c) > 0
             PROVE  /\ Credits(c) = 1
                    /\ engine[c] # "busy"
                    /\ \E t \in Threads : pc[t] = "ioctl" /\ ch[t] = c
  BY DEF NoStaleCredit
<1>1. Owed(c) /\ c \in Sources /\ pending[c] \in Nat
  BY ChannelSources DEF Credits, Owed, TypeOK
<1>2. Waiting # {}
  BY <1>1, RestIsQuiet DEF QuietAtRest, Owed
<1>3. PICK t \in AllThreads : pc[t] = "ioctl"
  BY <1>2 DEF Waiting, AllThreads
<1>4. Waiting = {t}
  BY <1>3 DEF InOrder, OneUser, Using, Waiting, AllThreads
<1>5. ch[t] = c /\ t \in Threads
  BY <1>1, <1>3, ChannelSources DEF InOrder, Aimed, OwnSources, AllThreads
<1>6. engine[c] # "busy"
  BY <1>1, <1>3, <1>5 DEF InOrder, Aimed
<1>7. Cardinality(Waiting) = 1
  BY <1>4, FS_Singleton
<1>8. Credits(c) <= Counted + InHandler /\ Credits(c) \in Nat
  <2>1. pending[c] <= Counted /\ pending[c] \in Nat
    BY CountedType DEF Counted, Channels
  <2>2. (IF hpc # "idle" /\ QueueOf(bit) = c THEN 1 ELSE 0) \in 0 .. InHandler /\ InHandler \in {0, 1}
    BY DEF InHandler
  <2>. QED
    BY <2>1, <2>2, CountedType DEF Credits
<1>9. Credits(c) = 1
  BY <1>7, <1>8, CountedType DEF NoSurplus
<1>. QED
  BY <1>3, <1>5, <1>6, <1>9

-----------------------------------------------------------------------------
\* The variables keep their types, for any number of threads: the handler
\* counts on queues that exist (int.c:227), and only sources in use are ever
\* enabled (DMAEngineWG.cpp:110-124).
THEOREM TypeCorrect == Spec => []TypeOK
  <1>1. QED
    BY TypeInit, TypeNext, PTL DEF Spec

\* For any number of threads on the channels and the generator, and however
\* their reads and writes of the enable register interleave with each other
\* and with the handler, the driver never counts more interrupts than there
\* are threads in the wait ioctl (int.c:222-228, DMAEngineWG.cpp:110-140).
THEOREM SurplusFree == Spec => []NoSurplus
  <1>1. Init => TypeOK /\ NoSurplus
    BY TypeInit, SurplusInit
  <1>2. (TypeOK /\ NoSurplus) /\ [Next]_vars => (TypeOK /\ NoSurplus)'
    BY TypeNext, SurplusNext
  <1>3. QED
    BY <1>1, <1>2, PTL DEF Spec

\* IInv is what the theorems rest on.
IInv == TypeOK /\ NoSurplus /\ InOrder

\* IInv holds in every state of handler, board and threads.
THEOREM Invariance == Spec => []IInv
  <1>1. Init => IInv
    BY TypeInit, SurplusInit, InOrderInit DEF IInv
  <1>2. IInv /\ [Next]_vars => IInv'
    BY TypeNext, SurplusNext, InOrderStep DEF IInv
  <1>3. QED
    BY <1>1, <1>2, PTL DEF Spec

\* In particular no interrupt is left over for a later wait: with nobody in the
\* wait ioctl nothing is counted, handled or enabled (int.c:205-231,
\* DMAEngineWG.cpp:213-240).
THEOREM NothingLeftOver == Spec => []QuietAtRest
  <1>1. IInv => QuietAtRest
    BY RestIsQuiet DEF IInv
  <1>2. QED
    BY <1>1, Invariance, PTL

\* As long as no two threads use the enable register at once, no wait is
\* satisfied by an interrupt of an earlier transfer (int.c:222-228).
THEOREM CreditsFresh == Spec => []NoStaleCredit
  <1>1. IInv => NoStaleCredit
    BY CreditsAreFresh DEF IInv
  <1>2. QED
    BY <1>1, Invariance, PTL

\* Under the same condition a wait that returns finds its channel no longer busy
\* (DMAEngineWG.cpp:150-180).
THEOREM WaitsMeanDone == Spec => WaitMeansDone
  <1>1. IInv /\ [Next]_vars =>
            [\A t \in Threads :
                (~overlap /\ pc[t] # "ready" /\ pc'[t] = "ready" /\ ret'[t] = "OK")
                    => engine[ch[t]] # "busy"]_vars
    <2> SUFFICES ASSUME IInv, Next, NEW t \in Threads,
                        ~overlap, pc[t] # "ready", pc'[t] = "ready", ret'[t] = "OK"
                 PROVE  engine[ch[t]] # "busy"
      BY DEF vars, thread
    <2>. USE DEF IInv, TypeOK, PC, AllThreads, Goto, board, handler, thread
    <2>1. PICK u \in AllThreads :
              CheckOver(u) \/ PollTimeout(u) \/ Send(u) \/ DisableInterrupt(u)
      BY DEF Next, Handler, HandlerStatus, HandlerAck, HandlerCredit, Generate,
           SetUseInterrupts,
             Finish, WaitChannel, Start, InWait, CheckBusy, EnableRead, EnableWrite,
             WaitForInterrupt, IgWait
    <2>2. u = t
      BY <2>1 DEF CheckOver, PollTimeout, Send, DisableInterrupt
    <2>3. CASE CheckOver(t)
      BY <2>3 DEF CheckOver
    <2>4. CASE PollTimeout(t)
      BY <2>4 DEF PollTimeout
    <2>5. CASE Send(t)
      BY <2>5 DEF Send, InOrder, Prepared
    <2>6. CASE DisableInterrupt(t)
      BY <2>6 DEF DisableInterrupt, InOrder, Aimed
    <2>. QED
      BY <2>1, <2>2, <2>3, <2>4, <2>5, <2>6
  <1>2. QED
    BY <1>1, Invariance, PTL DEF Spec, WaitMeansDone
=============================================================================
