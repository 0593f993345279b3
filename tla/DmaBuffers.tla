----------------------------- MODULE DmaBuffers -----------------------------
(***************************************************************************)
(* DMA buffers of the framework: what a DMABuffer acquires and gives back, *)
(* how allocations are retried, and where the words of the buffer are when *)
(* the program, the board and the kernel's bounce buffers each have a copy *)
(* (DMABuffer.cpp, PCIDriver.cpp, DMADescriptorListWG.cpp, the calls of    *)
(* DMAEngineWG.cpp).                                                       *)
(*                                                                         *)
(* Kernel buffers are coherent.  For user memory the kernel may have a     *)
(* bounce buffer (SWIOTLB), which the board reads and writes and a sync    *)
(* copies as a whole.  A transfer is external: it moves its words one by   *)
(* one and may go on after the program stopped waiting, until its channel  *)
(* is reset.                                                               *)
(*                                                                         *)
(* The program follows the rules of the interface: it leaves a buffer      *)
(* alone that has a transfer under way, starts one transfer at a time,     *)
(* syncs what it received without a lock, and keeps a buffer while a       *)
(* transfer it gave up may still reach it.                                 *)
(***************************************************************************)
EXTENDS Naturals, FiniteSets

CONSTANTS
    MaxRetries,     \* PCIDriver::max_retries
    NumWords,       \* words of a buffer
    MaxCount        \* bound: entries of the statistics

Words == 1 .. NumWords
Values == {0, 1}
Tries == 0 .. MaxRetries - 1
Kinds == {"kernel", "pieces", "user", "view"}
Directions == {"host2board", "board2host"}

VARIABLES
    kind, life,     \* the buffer: its type; none, allocating, mapping, listing, alive
                    \* or thrown
    held, left,     \* what it holds, and what a failure left behind
    retry,          \* retryCount of the allocation under way
    stats,          \* retry_stats_kernel
    allocs,         \* allocations that succeeded or failed for good at once
    failed,         \* history: a constructor failed
    host, bounce,   \* the words: as the program and as the board sees them
    board,          \* the board's words
    moving,         \* words each channel has still to move
    call,           \* the transfer the program waits for, or not
    want, sure,     \* history: the host's words as they should be, and those
                    \* that no transfer given up or cut short may have changed
    boardWant       \* history: the board's words as they should be

object == <<kind, life, held, left, failed>>
allocation == <<retry, stats, allocs>>
words == <<host, bounce, board, moving, call, want, sure, boardWant>>
vars == <<object, allocation, words>>

NoCall == [dir |-> "none", target |-> {}, lock |-> FALSE, over |-> FALSE]
Zero == [w \in Words |-> 0]

\* The words the next buffer starts with.
Fresh ==
    /\ host' = Zero /\ bounce' = Zero /\ want' = Zero
    /\ board' = Zero /\ boardWant' = Zero
    /\ sure' = Words
    /\ call' = NoCall
    /\ moving' = [d \in Directions |-> {}]

Init ==
    /\ kind = "none" /\ life = "none"
    /\ held = {} /\ left = {} /\ failed = FALSE
    /\ retry = 0 /\ stats = [i \in Tries |-> 0] /\ allocs = 0
    /\ host = Zero /\ bounce = Zero /\ board = Zero
    /\ moving = [d \in Directions |-> {}]
    /\ call = NoCall
    /\ want = Zero /\ sure = Words /\ boardWant = Zero

-----------------------------------------------------------------------------
\* Construction.  The types that need a list of descriptors.
HasList(k) == k # "kernel"

List == {"array", "native", "nativePins", "blocks"}

Needs(k) ==
    CASE k = "kernel" -> {"kernelMemory"}
      [] k = "pieces" -> {"kernelMemory"} \cup List
      [] k = "user" -> {"hostMemory", "pins"} \cup List
      [] k = "view" -> {"pins"} \cup List

New(k) ==
    /\ life = "none"
    /\ kind' = k
    /\ life' = IF k \in {"kernel", "pieces"} THEN "allocating" ELSE "mapping"
    /\ held' = IF k = "user" THEN {"hostMemory"} ELSE {}
    /\ retry' = 0
    /\ UNCHANGED <<left, failed, stats, allocs, words>>

\* What a constructor acquired is not given back when it throws.  The program
\* goes no further.
Throw(more) ==
    /\ life' = "thrown"
    /\ held' = {}
    /\ left' = left \cup held \cup more
    /\ failed' = TRUE
    /\ UNCHANGED <<kind, words>>

Ready(resources) ==
    /\ held' = held \cup resources
    /\ life' = IF HasList(kind) THEN "listing" ELSE "alive"
    /\ UNCHANGED <<kind, left, failed, words>>

\* PCIDriver::allocKernelMemory: every try is entered in the statistics, and
\* taken out again when it failed for want of memory.
Entered == [stats EXCEPT ![retry] = @ + 1]

AllocKernelMemory ==
    /\ life = "allocating" /\ allocs < MaxCount
    /\ stats' = Entered
    /\ allocs' = allocs + 1
    /\ \/ Ready({"kernelMemory"})
       \/ Throw({})
    /\ UNCHANGED retry

AllocBusy ==
    /\ life = "allocating" /\ retry < MaxRetries - 1
    /\ retry' = retry + 1
    /\ UNCHANGED <<object, stats, allocs, words>>

AllocGivenUp ==
    /\ life = "allocating" /\ retry = MaxRetries - 1
    /\ Throw({})
    /\ UNCHANGED allocation

MapUserMemory ==
    /\ life = "mapping"
    /\ Ready({"pins"}) \/ Throw({})
    /\ UNCHANGED allocation

\* fillDescriptorList builds the list, whose native memory is mapped as well.
FillDescriptorList ==
    /\ life = "listing"
    /\ \/ /\ held' = held \cup List
          /\ life' = "alive"
          /\ UNCHANGED <<kind, left, failed, words>>
       \/ Throw({"array", "native"})
    /\ UNCHANGED allocation

\* ~DMABuffer, and releaseDescriptorList with ~DMADescriptorListWG.
ReleasedList(k) == IF HasList(k) THEN List ELSE {}

Released(k) ==
    ReleasedList(k) \cup
    CASE k \in {"kernel", "pieces"} -> {"kernelMemory"}
      [] k = "user" -> {"pins", "hostMemory"}
      [] k = "view" -> {"pins"}

Quiet == call = NoCall /\ \A d \in Directions : moving[d] = {}

Delete ==
    /\ life = "alive" /\ Quiet
    /\ life' = "none"
    /\ held' = {}
    /\ left' = left \cup (held \ Released(kind))
    /\ Fresh
    /\ UNCHANGED <<kind, failed, allocation>>

-----------------------------------------------------------------------------
Coherent == kind \in {"kernel", "pieces"}

Idle == life = "alive" /\ call = NoCall

\* Words a transfer that was given up may still change.
Late == UNION {moving[d] : d \in Directions}

\* The program writes a word.
Store(w, v) ==
    /\ Idle
    /\ host' = [host EXCEPT ![w] = v]
    /\ bounce' = IF Coherent THEN [bounce EXCEPT ![w] = v] ELSE bounce
    /\ want' = [want EXCEPT ![w] = v]
    /\ sure' = IF w \in moving["board2host"] THEN sure ELSE sure \cup {w}
    /\ UNCHANGED <<object, allocation, board, moving, call, boardWant>>

\* The board's own logic writes a word of its memory.
BoardStore(w, v) ==
    /\ Idle /\ Late = {}
    /\ board' = [board EXCEPT ![w] = v]
    /\ boardWant' = [boardWant EXCEPT ![w] = v]
    /\ UNCHANGED <<object, allocation, host, bounce, moving, call, want, sure>>

\* DMABuffer::sync: nothing for coherent memory.
ToDevice == IF Coherent THEN bounce ELSE host
FromDevice == IF Coherent THEN host ELSE bounce

\* host2board syncs both ways: the host's words reach the bounce buffer, and
\* come back.
Host2Board(n, lock) ==
    /\ Idle
    /\ call' = [dir |-> "host2board", target |-> 1 .. n, lock |-> lock, over |-> FALSE]
    /\ moving' = [moving EXCEPT !["host2board"] = 1 .. n]
    /\ bounce' = ToDevice
    /\ UNCHANGED <<object, allocation, host, board, want, sure, boardWant>>

\* board2host: when a part of the buffer is transferred, the rest has to be in
\* the bounce buffer, for the sync afterwards copies the whole.  KeptBack is a
\* mutation variant.
KeptBack(n) == bounce

Before(n) == IF n < NumWords THEN ToDevice ELSE bounce

Board2Host(n, lock) ==
    /\ Idle
    /\ call' = [dir |-> "board2host", target |-> 1 .. n, lock |-> lock, over |-> FALSE]
    /\ moving' = [moving EXCEPT !["board2host"] = 1 .. n]
    /\ bounce' = Before(n)
    /\ UNCHANGED <<object, allocation, host, board, want, sure, boardWant>>

\* The board moves a word (external).
Move(d) ==
    /\ life = "alive" /\ moving[d] # {}
    /\ LET w == CHOOSE x \in moving[d] : \A y \in moving[d] : x <= y
       IN  /\ moving' = [moving EXCEPT ![d] = @ \ {w}]
           /\ IF d = "host2board"
              THEN /\ board' = [board EXCEPT ![w] = bounce[w]]
                   /\ boardWant' = IF call.dir = d THEN boardWant
                                   ELSE [boardWant EXCEPT ![w] = bounce[w]]
                   /\ UNCHANGED <<host, bounce>>
              ELSE /\ bounce' = [bounce EXCEPT ![w] = board[w]]
                   /\ host' = IF Coherent THEN [host EXCEPT ![w] = board[w]] ELSE host
                   /\ UNCHANGED <<board, boardWant>>
    /\ UNCHANGED <<object, allocation, call, want, sure>>

\* What a transfer that ended, or did not, makes of the words.
Expect(complete) ==
    LET new == IF complete THEN call.target ELSE {}
    IN  IF call.dir = "host2board"
        THEN /\ boardWant' =
                  [w \in Words |->
                      IF w \in call.target \cap sure /\ complete
                      THEN want[w] ELSE board[w]]
             /\ UNCHANGED <<want, sure>>
        ELSE /\ want' = [w \in Words |-> IF w \in new THEN board[w] ELSE want[w]]
             /\ sure' = (sure \ call.target) \cup new
             /\ UNCHANGED boardWant

\* waitChannel returns, with a lock or called by the program; board2host with
\* a lock then syncs.  The words a program received without one have still to
\* be synced.
Conclude(complete) ==
    /\ life = "alive" /\ call # NoCall /\ ~call.over
    /\ Expect(complete)
    /\ IF call.dir = "board2host" /\ ~call.lock
       THEN call' = [call EXCEPT !.over = TRUE] /\ UNCHANGED host
       ELSE /\ call' = NoCall
            /\ host' = IF call.dir = "board2host" THEN FromDevice ELSE host
    /\ UNCHANGED <<object, allocation, bounce, board>>

Done == Conclude(TRUE) /\ moving[call.dir] = {} /\ UNCHANGED moving

\* The engine gives the transfer up: the status is TIMEOUT, and the wait ends
\* as if all was well.
EngineTimeout ==
    /\ Conclude(FALSE)
    /\ moving[call.dir] # {}
    /\ moving' = [moving EXCEPT ![call.dir] = {}]

\* The program's timeout has passed: the transfer may go on.
WaitTimeout == Conclude(FALSE) /\ UNCHANGED moving

SyncFromDevice ==
    /\ life = "alive" /\ call.over
    /\ host' = FromDevice
    /\ call' = NoCall
    /\ UNCHANGED <<object, allocation, bounce, board, moving, want, sure, boardWant>>

-----------------------------------------------------------------------------
Construction ==
    \/ \E k \in Kinds : New(k)
    \/ AllocKernelMemory \/ AllocBusy \/ AllocGivenUp
    \/ MapUserMemory \/ FillDescriptorList

Transfer ==
    \/ \E n \in Words, lock \in BOOLEAN : Host2Board(n, lock) \/ Board2Host(n, lock)
    \/ \E d \in Directions : Move(d)
    \/ Done \/ EngineTimeout \/ WaitTimeout \/ SyncFromDevice

Next ==
    \/ Construction \/ Delete \/ Transfer
    \/ \E w \in Words, v \in Values : Store(w, v) \/ BoardStore(w, v)

Spec == Init /\ [][Next]_vars

-----------------------------------------------------------------------------
TypeOK ==
    /\ kind \in Kinds \cup {"none"}
    /\ life \in {"none", "allocating", "mapping", "listing", "alive", "thrown"}
    /\ retry \in Tries /\ stats \in [Tries -> Nat] /\ allocs \in Nat
    /\ host \in [Words -> Values] /\ bounce \in [Words -> Values]
    /\ board \in [Words -> Values]
    /\ moving \in [Directions -> SUBSET Words]
    /\ call.dir \in Directions \cup {"none"} /\ call.target \subseteq Words
    /\ sure \subseteq Words

\* A buffer the program has back holds the words it stored there itself and
\* those a transfer brought since, whatever part of the buffer was transferred
\* and whatever the kernel's copy held before; and the board received the
\* words as they were stored (DMAEngineWG.cpp:316-437, DMABuffer.cpp:169-218).
WordsKept ==
    life = "alive" /\ call = NoCall =>
        /\ \A w \in sure : host[w] = want[w]
        /\ board = boardWant

\* The entries of the statistics.
Counted == UNION {{i} \X (1 .. stats[i]) : i \in Tries}

\* A buffer holds what its type needs and gives all of it back; only
\* constructors that failed leave something behind; and the statistics of the
\* retries count every allocation once (DMABuffer.cpp:48-167,
\* PCIDriver.cpp:76-108).
Accounted ==
    /\ life = "alive" => held = Needs(kind)
    /\ left # {} => failed
    /\ life # "allocating" => allocs = Cardinality(Counted)

-----------------------------------------------------------------------------
\* The inductive invariant.  What a constructor has at each step.
HasSoFar ==
    /\ life \in {"none", "allocating", "thrown"} => held = {}
    /\ life = "mapping" => kind \in {"user", "view"} /\ held = Needs(kind) \ ({"pins"} \cup List)
    /\ life = "listing" => HasList(kind) /\ held = Needs(kind) \ List
    /\ life = "alive" => held = Needs(kind)
    /\ life = "allocating" => kind \in {"kernel", "pieces"}
    /\ life \in {"mapping", "listing", "alive"} => kind \in Kinds
    /\ left # {} => failed
    /\ allocs = Cardinality(Counted) /\ IsFiniteSet(Counted)

WordsTyped ==
    /\ want \in [Words -> Values]
    /\ call \in [dir : Directions \cup {"none"}, target : SUBSET Words,
                 lock : BOOLEAN, over : BOOLEAN]

SameWords == host = bounce

\* The words between calls, in a transfer to the board, in one from the board
\* and after one that has still to be synced.
AtRest ==
    /\ call = NoCall
    /\ \A w \in sure : host[w] = want[w]
    /\ moving["board2host"] \cap sure = {}
    /\ board = boardWant

Sending ==
    /\ call.dir = "host2board" /\ ~call.over
    /\ \A w \in sure : host[w] = want[w] /\ bounce[w] = want[w]
    /\ moving["board2host"] \cap sure = {}
    /\ \A w \in (call.target \cap sure) \ moving["host2board"] : board[w] = want[w]

Receiving ==
    /\ call.dir = "board2host" /\ ~call.over
    /\ \A w \in sure \ call.target : host[w] = want[w] /\ bounce[w] = want[w]
    /\ moving["board2host"] \subseteq call.target
    /\ \A w \in call.target \ moving["board2host"] : bounce[w] = board[w]
    /\ board = boardWant

Received ==
    /\ call.dir = "board2host" /\ call.over
    /\ \A w \in sure : bounce[w] = want[w]
    /\ moving["board2host"] \cap sure = {}
    /\ board = boardWant

IInv ==
    /\ TypeOK /\ HasSoFar /\ WordsTyped
    /\ life = "alive" =>
          /\ Coherent => SameWords
          /\ AtRest \/ Sending \/ Receiving \/ Received
    /\ life # "alive" =>
          /\ AtRest /\ SameWords
          /\ host = want /\ \A d \in Directions : moving[d] = {}
=============================================================================
