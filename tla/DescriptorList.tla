---------------------------- MODULE DescriptorList ----------------------------
(***************************************************************************)
(* The descriptor lists of DMA buffers in host memory and the two channels *)
(* that walk them (DMAEngineWG.cpp, DMADescriptorListWG.cpp).              *)
(*                                                                         *)
(* A buffer that is not physically contiguous has one list, filled once.   *)
(* For a transfer of a part of it the library edits the list in place: it  *)
(* moves the start of the first descriptor, cuts the last one and ends the *)
(* chain there.  What it changed is kept per channel in saved_data, and    *)
(* waitChannel puts it back.  The board is given a copy of the first       *)
(* descriptor and reads the others from memory when it comes to them.      *)
(*                                                                         *)
(* Left out: the BAR and INC bits, which every control word of a transfer  *)
(* has alike, and the cache maintenance.  How a wait is done, polling or   *)
(* by interrupt, is in DmaWait.  Sequences start at 1 here, at 0 in the    *)
(* code; a next descriptor address of 0 is 0 in both.                      *)
(***************************************************************************)
EXTENDS Integers, Sequences, SequencesExt, FiniteSetsExt

CONSTANTS
    Buffers,    \* the DMA buffers
    Type,       \* type of each
    SG,         \* physical blocks of each: address and length in bytes
    Pieces,     \* kernel_pieces
    Word,       \* bytes of a dword
    BoardAddr,  \* dword address of the transfers on the board
    Channels,   \* the channels in use: 0 is host2board, 1 is board2host
    MaxDwords   \* bound: offset and count of a transfer

Block == [addr : Nat, len : Nat \ {0}]

ASSUME WordAssumption == Word \in Nat \ {0} /\ Pieces \in Nat \ {0} /\ BoardAddr \in Nat
ASSUME ChannelsAssumption == Channels \subseteq {0, 1} /\ MaxDwords \in Nat
ASSUME BuffersAssumption ==
    /\ Buffers # {}
    /\ Type \in [Buffers -> {"KERNEL", "KERNEL_PIECES", "USER"}]
    /\ \A b \in Buffers :
          /\ SG[b] \in Seq(Block) /\ SG[b] # <<>>
          /\ Type[b] # "USER" => Len(SG[b]) = 1

VARIABLES
    list,       \* the descriptor list of each buffer
    saved,      \* valid data was saved for the channel
    savedData,  \* what was saved, NoData once that is not valid any more
    engine,     \* status word of each channel
    cur,        \* the descriptor the channel has loaded
    moved,      \* bytes moved: board and host address of each
    request,    \* the last transfer asked of the channel
    phase       \* the channel is fresh, started or waited for

board == <<engine, cur, moved>>
vars == <<list, saved, savedData, board, request, phase>>

\* Bytes in the first n of a sequence of blocks or descriptors.
BytesUpTo(s, n) ==
    LET sum[i \in 0 .. Len(s)] == IF i = 0 THEN 0 ELSE sum[i - 1] + s[i].len
    IN  sum[n]

Size(b) == BytesUpTo(SG[b], Len(SG[b]))

\* Physical address of byte k of buffer b.
HostByte(b, k) ==
    LET i == CHOOSE j \in DOMAIN SG[b] :
                BytesUpTo(SG[b], j - 1) <= k /\ k < BytesUpTo(SG[b], j)
    IN  SG[b][i].addr + k - BytesUpTo(SG[b], i - 1)

NextOf(i, n) == IF i = n THEN 0 ELSE i + 1

-----------------------------------------------------------------------------
\* fillDescriptorList.  The pieces of a kernel buffer are equal but the last.
Filled(b) ==
    LET step == Size(b) \div Pieces
        descriptor(addr, len, i, n) ==
            [addr |-> addr, len |-> len, next |-> NextOf(i, n), per |-> 0, control |-> {}]
    IN  CASE Type[b] = "KERNEL" -> <<>>
          [] Type[b] = "USER" ->
                [i \in DOMAIN SG[b] |->
                   descriptor(SG[b][i].addr, SG[b][i].len, i, Len(SG[b]))]
          [] Type[b] = "KERNEL_PIECES" ->
                [i \in 1 .. Pieces |->
                   descriptor(SG[b][1].addr + (i - 1) * step,
                              IF i = Pieces THEN Size(b) - (Pieces - 1) * step ELSE step,
                              i, Pieces)]

Unloaded == [addr |-> 0, len |-> 0, next |-> 0, per |-> 0, control |-> {}]
NoData == [buf |-> CHOOSE b \in Buffers : TRUE,
           init |-> 0, last |-> 0, offset |-> 0, length |-> 0]
NoRequest == [buf |-> CHOOSE b \in Buffers : TRUE, offset |-> 0, count |-> 0]

Init ==
    /\ list = [b \in Buffers |-> Filled(b)]
    /\ saved \in [Channels -> BOOLEAN]          \* not set by the constructor
    /\ savedData = [c \in Channels |-> NoData]
    /\ engine = [c \in Channels |-> "idle"]
    /\ cur = [c \in Channels |-> Unloaded]
    /\ moved = [c \in Channels |-> <<>>]
    /\ request = [c \in Channels |-> NoRequest]
    /\ phase = [c \in Channels |-> "fresh"]

-----------------------------------------------------------------------------
\* sendDescriptorList.

\* The descriptor the transfer starts with and the bytes of it to skip: the
\* search stops at a descriptor that ends where the transfer starts, too.  One
\* behind the last means that there is none.  BlockOffsetWhole is a mutation
\* variant.
InitDescriptor(l, byteOffset) ==
    IF byteOffset = 0 THEN 1
    ELSE Min({i \in DOMAIN l : byteOffset <= BytesUpTo(l, i)} \cup {Len(l) + 1})

BlockOffsetWhole(l, byteOffset) == byteOffset

BlockOffset(l, byteOffset) ==
    byteOffset - BytesUpTo(l, InitDescriptor(l, byteOffset) - 1)

\* The descriptor the transfer ends in, and the bytes that are left for it.
LastDescriptor(l, byteOffset, bytes) ==
    Min({i \in InitDescriptor(l, byteOffset) .. Len(l) :
           byteOffset + bytes <= BytesUpTo(l, i)} \cup {Len(l) + 1})

BytesInLast(l, byteOffset, bytes) ==
    LET i == InitDescriptor(l, byteOffset)
        n == LastDescriptor(l, byteOffset, bytes)
    IN  IF i = n THEN bytes ELSE byteOffset + bytes - BytesUpTo(l, n - 1)

\* The whole buffer: the list is right but for the control words.  The board
\* passes the first control word on to descriptors that have none, so that the
\* second one needs its own.
SendWhole(c, b) ==
    LET l == list[b]
        n == Len(l)
        l1 == IF n > 2 THEN [l EXCEPT ![2].control = {"V"}] ELSE l
        l2 == [l1 EXCEPT ![n].control = {"V", "LAST"}]
    IN  /\ list' = [list EXCEPT ![b] = l2]
        /\ savedData' = [savedData EXCEPT ![c] =
              [buf |-> b, init |-> 1, last |-> n, offset |-> 0, length |-> l[n].len]]
        /\ saved' = [saved EXCEPT ![c] = TRUE]
        /\ cur' = [cur EXCEPT ![c] =
              [l2[1] EXCEPT !.per = BoardAddr * Word,
                 !.control = {"V", "UPA"} \cup (IF n = 1 THEN {"LAST"} ELSE {})]]

\* A part of it.  A descriptor to start with is there; if none is left to end
\* in, the chain is not ended and nothing is saved.
SendPart(c, b, byteOffset, bytes) ==
    LET l == list[b]
        i == InitDescriptor(l, byteOffset)
        n == LastDescriptor(l, byteOffset, bytes)
        skip == BlockOffset(l, byteOffset)
        l1 == IF n > Len(l) THEN l
              ELSE [l EXCEPT ![n].len = BytesInLast(l, byteOffset, bytes),
                             ![n].next = 0, ![n].control = {"V", "LAST"}]
        l2 == IF i + 1 < n THEN [l1 EXCEPT ![i + 1].control = {"V"}] ELSE l1
        l3 == [l2 EXCEPT ![i].addr = @ + skip,
                         ![i].len = IF i = n THEN @ ELSE @ - skip]
    IN  /\ i \in DOMAIN l
        /\ list' = [list EXCEPT ![b] = l3]
        /\ savedData' = IF n > Len(l) THEN savedData ELSE [savedData EXCEPT ![c] =
              [buf |-> b, init |-> i, last |-> n, offset |-> skip, length |-> l[n].len]]
        /\ saved' = [saved EXCEPT ![c] = @ \/ n <= Len(l)]
        /\ cur' = [cur EXCEPT ![c] =
              [l3[i] EXCEPT !.per = BoardAddr * Word,
                 !.control = {"V", "UPA"} \cup (IF i = n THEN {"LAST"} ELSE {})]]

\* A KERNEL buffer needs one descriptor and no list.
SendKernel(c, b, offset, bytes) ==
    /\ cur' = [cur EXCEPT ![c] =
          [addr |-> SG[b][1].addr + offset, len |-> bytes, next |-> 0,
           per |-> BoardAddr * Word, control |-> {"V", "UPA", "LAST"}]]
    /\ saved' = [saved EXCEPT ![c] = FALSE]
    /\ savedData' = [savedData EXCEPT ![c] = NoData]
    /\ UNCHANGED list

\* host2board and board2host: the checks, the reset of the channel, and the
\* first descriptor written to it, which starts it.  A buffer is used by one
\* channel at a time, and a channel is waited for before it is started again:
\* what the application must see to.
Start(c, b, offset, count) ==
    LET bytes == count * Word
    IN  /\ count > 0 /\ (offset + count) * Word <= Size(b)
        /\ \A d \in Channels \ {c} : phase[d] = "started" => request[d].buf # b
        /\ phase[c] # "started"
        /\ \/ Type[b] = "KERNEL" /\ SendKernel(c, b, offset, bytes)
           \/ Type[b] # "KERNEL" /\ offset = 0 /\ bytes = Size(b) /\ SendWhole(c, b)
           \/ /\ Type[b] # "KERNEL" /\ ~(offset = 0 /\ bytes = Size(b))
              /\ SendPart(c, b, offset * Word, bytes)
        /\ engine' = [engine EXCEPT ![c] = "busy"]
        /\ moved' = [moved EXCEPT ![c] = <<>>]
        /\ request' = [request EXCEPT ![c] = [buf |-> b, offset |-> offset, count |-> count]]
        /\ phase' = [phase EXCEPT ![c] = "started"]

-----------------------------------------------------------------------------
\* restoreSavedData.  Mutation variants: the link is not restored; the last
\* descriptor is restored before the first, which may be the same.
RestoreForgetsNext(l, d) ==
    LET l1 == IF d.offset # 0 THEN [l EXCEPT ![d.init].addr = @ - d.offset,
                                             ![d.init].len = @ + d.offset]
              ELSE l
        l2 == IF d.init # Len(l) THEN [l1 EXCEPT ![d.init + 1].control = {}] ELSE l1
    IN  [l2 EXCEPT ![d.last].len = d.length, ![d.last].control = {}]

RestoreLastFirst(l, d) ==
    LET l1 == [l EXCEPT ![d.last].len = d.length, ![d.last].control = {},
                        ![d.last].next = NextOf(d.last, Len(l))]
        l2 == IF d.init # Len(l) THEN [l1 EXCEPT ![d.init + 1].control = {}] ELSE l1
    IN  IF d.offset # 0 THEN [l2 EXCEPT ![d.init].addr = @ - d.offset,
                                        ![d.init].len = @ + d.offset]
        ELSE l2

Restored(l, d) ==
    LET l1 == IF d.offset # 0 THEN [l EXCEPT ![d.init].addr = @ - d.offset,
                                             ![d.init].len = @ + d.offset]
              ELSE l
        l2 == IF d.init # Len(l) THEN [l1 EXCEPT ![d.init + 1].control = {}] ELSE l1
    IN  [l2 EXCEPT ![d.last].len = d.length, ![d.last].control = {},
                   ![d.last].next = NextOf(d.last, Len(l))]

Restore(c) ==
    /\ saved' = [saved EXCEPT ![c] = FALSE]
    /\ savedData' = [savedData EXCEPT ![c] = NoData]
    /\ list' = IF saved[c]
               THEN [list EXCEPT ![savedData[c].buf] = Restored(@, savedData[c])]
               ELSE list

\* The end of waitChannel, of a channel that was started: it is idle or the
\* board gave it up.  The record of the transfer is closed.
Wait(c) ==
    /\ engine[c] # "busy"
    /\ phase[c] # "fresh"
    /\ Restore(c)
    /\ phase' = [phase EXCEPT ![c] = "waited"]
    /\ moved' = [moved EXCEPT ![c] = <<>>]
    /\ request' = [request EXCEPT ![c] = NoRequest]
    /\ UNCHANGED <<engine, cur>>

\* Polling, the caller's timeout passes first: the data is restored and an
\* exception thrown, the channel is left as it is: it goes on through the
\* list.  What it moves from now on is no longer recorded.
WaitTimeout(c) ==
    /\ engine[c] = "busy"
    /\ phase[c] = "started"
    /\ Restore(c)
    /\ phase' = [phase EXCEPT ![c] = "waited"]
    /\ moved' = [moved EXCEPT ![c] = <<>>]
    /\ request' = [request EXCEPT ![c].offset = 0, ![c].count = 0]
    /\ UNCHANGED <<engine, cur>>

-----------------------------------------------------------------------------
\* The board (external): the bytes of the loaded descriptor are moved, and
\* unless it is the last the next one is read from memory.  Without a control
\* word of its own it takes the one before; without UPA it goes on where the
\* one before ended.
Bytes(d) == [k \in 1 .. d.len |-> <<d.per + k - 1, d.addr + k - 1>>]

Walk(c) ==
    /\ engine[c] = "busy"
    /\ moved' = [moved EXCEPT ![c] = IF phase[c] = "started" THEN @ \o Bytes(cur[c]) ELSE @]
    /\ \/ /\ "LAST" \in cur[c].control
          /\ engine' = [engine EXCEPT ![c] = "idle"]
          /\ cur' = [cur EXCEPT ![c] = Unloaded]
       \/ /\ "LAST" \notin cur[c].control
          /\ cur[c].next = 0
          /\ engine' = [engine EXCEPT ![c] = "timeout"]
          /\ cur' = [cur EXCEPT ![c] = Unloaded]
       \/ /\ "LAST" \notin cur[c].control
          /\ cur[c].next # 0
          /\ LET d == list[request[c].buf][cur[c].next]
                 control == IF "V" \in d.control THEN d.control ELSE cur[c].control
             IN  cur' = [cur EXCEPT ![c] =
                    [d EXCEPT !.control = control,
                       !.per = IF "UPA" \in control THEN @ ELSE cur[c].per + cur[c].len]]
          /\ UNCHANGED engine
    /\ UNCHANGED <<list, saved, savedData, request, phase>>

\* The transfer is given up.
GiveUp(c) ==
    /\ engine[c] = "busy"
    /\ engine' = [engine EXCEPT ![c] = "timeout"]
    /\ cur' = [cur EXCEPT ![c] = Unloaded]
    /\ UNCHANGED <<list, saved, savedData, moved, request, phase>>

-----------------------------------------------------------------------------
Dwords == 0 .. MaxDwords

Next == \E c \in Channels :
    \/ \E b \in Buffers, offset, count \in Dwords : Start(c, b, offset, count)
    \/ Wait(c) \/ WaitTimeout(c) \/ Walk(c) \/ GiveUp(c)

Spec == Init /\ [][Next]_vars

-----------------------------------------------------------------------------
Descriptors == [addr : Nat, len : Nat, next : Nat, per : Nat,
                control : SUBSET {"V", "UPA", "LAST"}]

TypeOK ==
    /\ \A b \in Buffers :
          /\ list[b] \in Seq(Descriptors)
          /\ Len(list[b]) = Len(Filled(b))
          /\ \A i \in DOMAIN list[b] :
                list[b][i].next \in 0 .. Len(list[b]) /\ list[b][i].len <= Size(b)
    /\ saved \in [Channels -> BOOLEAN]
    /\ \A c \in Channels :
          /\ savedData[c].buf \in Buffers
          /\ {savedData[c].init, savedData[c].last, savedData[c].offset,
              savedData[c].length} \subseteq Nat
          /\ request[c].buf \in Buffers
          /\ {request[c].offset, request[c].count} \subseteq Dwords
          /\ moved[c] \in Seq(Nat \X Nat)
    /\ engine \in [Channels -> {"idle", "busy", "timeout"}]
    /\ cur \in [Channels -> Descriptors]
    /\ phase \in [Channels -> {"fresh", "started", "waited"}]

\* The bytes a transfer asks for: dword by dword from offset on, to the board
\* address and up.
Wanted(c) ==
    [k \in 1 .. request[c].count * Word |->
        <<BoardAddr * Word + k - 1,
          HostByte(request[c].buf, request[c].offset * Word + k - 1)>>]

Begun(c) == phase[c] = "started"

\* A KERNEL buffer's transfer behind its begin: the offset, in dwords, is added
\* to the address without conversion.
Unscaled(c) == Type[request[c].buf] = "KERNEL" /\ request[c].offset # 0

\* Until its wait gives up, the board moves the bytes a transfer asked for, in
\* order, and none beyond them (DMAEngineWG.h:59: offset and count in dwords).
MovesRequest == \A c \in Channels : Begun(c) => IsPrefix(moved[c], Wanted(c))

\* The same for every transfer the lists are cut for, however they were cut
\* and put back before, by either channel and after timeouts that left the
\* board walking them, and a channel that goes idle has moved all of them
\* (DMAEngineWG.cpp:439-583).
ListMovesRequest ==
    \A c \in Channels :
        Begun(c) /\ ~Unscaled(c) =>
            /\ IsPrefix(moved[c], Wanted(c))
            /\ engine[c] = "idle" => moved[c] = Wanted(c)

\* A list that no channel has saved data of is as fillDescriptorList left it
\* (DMAEngineWG.cpp:222-257).
ListsRestored ==
    \A b \in Buffers :
        (\A c \in Channels : Begun(c) => request[c].buf # b) => list[b] = Filled(b)
=============================================================================
