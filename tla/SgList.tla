-------------------------------- MODULE SgList --------------------------------
(***************************************************************************)
(* The scatter/gather list of a user buffer, from the pages the kernel     *)
(* gets to the list the library is given (umem.c, UserMemory.cpp,          *)
(* pciDriver_Capi.c), and what the framework makes of the list of its      *)
(* descriptor pages (DMADescriptorListWG.cpp).                             *)
(*                                                                         *)
(* The bus address of each page is arbitrary.  pci_map_sg may make one     *)
(* entry of pages whose bus addresses follow each other (Fuses).           *)
(***************************************************************************)
EXTENDS Integers, Sequences, SequencesExt

CONSTANTS
    PageSize,   \* a positive number
    Frames,     \* bus pages, numbers
    MaxSize,    \* bound: bytes of a buffer
    Fuses,      \* whether pci_map_sg may merge
    Spare       \* entries the library adds to size / PageSize

VARIABLES
    off, size,  \* the buffer: offset in its first page, bytes
    frame,      \* bus page of each of its pages
    merged,     \* kind of list asked for
    pc,
    sg, count,  \* entries made so far, bytes left
    out, next,  \* list given to the user, next entry to look at
    blocks      \* addresses of the descriptor pages

buffer == <<off, size, frame, merged>>
vars == <<buffer, pc, sg, count, out, next, blocks>>

\* Also for a buffer that does not begin at a page.
Pages(o, s) == (o + s + PageSize - 1) \div PageSize

Entry(a, n) == [addr |-> a, size |-> n]
Least(a, b) == IF a < b THEN a ELSE b
End(e) == e.addr + e.size

Init ==
    /\ off \in 0 .. PageSize - 1
    /\ size \in 1 .. MaxSize
    /\ \E f \in [1 .. Pages(off, size) -> Frames] : IsInjective(f) /\ frame = f
    /\ merged \in BOOLEAN
    /\ pc = "pages"
    /\ sg = <<>>
    /\ count = size
    /\ out = <<>>
    /\ next = 1
    /\ blocks = <<>>

\* Bytes of the buffer in its next page.  PageLengthIgnoresOffset is a
\* mutation variant.
PageLengthIgnoresOffset == Least(count, PageSize)

PageLength == Least(count, IF sg = <<>> THEN PageSize - off ELSE PageSize)

\* One page of the buffer.  AddFullPage is a mutation variant.
AddFullPage ==
    /\ pc = "pages"
    /\ Len(sg) < Len(frame)
    /\ LET a == frame[Len(sg) + 1] * PageSize + (IF sg = <<>> THEN off ELSE 0)
       IN  sg' = Append(sg, Entry(a, PageSize))
    /\ count' = count - PageSize
    /\ UNCHANGED <<buffer, pc, out, next, blocks>>

AddPage ==
    /\ pc = "pages"
    /\ Len(sg) < Len(frame)
    /\ LET a == frame[Len(sg) + 1] * PageSize + (IF sg = <<>> THEN off ELSE 0)
       IN  sg' = Append(sg, Entry(a, PageLength))
    /\ count' = count - PageLength
    /\ UNCHANGED <<buffer, pc, out, next, blocks>>

\* pci_map_sg: entry k begins at page first[k], and at the end there is no page.
Firsts(n) ==
    {f \in [1 .. n + 1 -> 1 .. Len(sg) + 1] :
        f[1] = 1 /\ f[n + 1] = Len(sg) + 1 /\ \A k \in 1 .. n : f[k] < f[k + 1]}

Fused(n, first) ==
    [k \in 1 .. n |->
        LET a == sg[first[k]].addr IN Entry(a, End(sg[first[k + 1] - 1]) - a)]

MapSg ==
    /\ pc = "pages"
    /\ Len(sg) = Len(frame)
    /\ \E n \in 1 .. Len(sg) : \E first \in Firsts(n) :
          /\ Fuses \/ n = Len(sg)
          /\ \A k \in 1 .. n : \A i \in first[k] + 1 .. first[k + 1] - 1 :
                sg[i].addr = End(sg[i - 1])
          /\ sg' = Fused(n, first)
    /\ pc' = "mapped"
    /\ UNCHANGED <<buffer, count, out, next, blocks>>

\* Entries the library has room for.
Capacity == (size \div PageSize) + Spare

\* pcidriver_umem_sgget: the check, then entry by entry.
SgGet ==
    /\ pc = "mapped"
    /\ pc' = IF Capacity < Len(sg) THEN "failed" ELSE "copy"
    /\ UNCHANGED <<buffer, sg, count, out, next, blocks>>

\* Appends an entry, or lengthens the last one it follows on the bus.
Lengthened(e) == [out EXCEPT ![Len(out)].size = @ + e.size]
Follows(e) == out # <<>> /\ e.addr = End(Last(out))

CopyMerged ==
    /\ pc = "copy" /\ merged /\ next <= Len(sg)
    /\ next' = next + 1
    /\ LET e == sg[next] IN
          \/ Follows(e) /\ out' = Lengthened(e)
          \/ /\ ~Follows(e)
             /\ out' = IF out # <<>> /\ e.size = 0 THEN out ELSE Append(out, e)
    /\ UNCHANGED <<buffer, pc, sg, count, blocks>>

\* A last entry of no length is left out.
CopyPlain ==
    /\ pc = "copy" /\ ~merged /\ next <= Len(sg)
    /\ next' = Len(sg) + 1
    /\ out' = IF Last(sg).size = 0 THEN Front(sg) ELSE sg
    /\ UNCHANGED <<buffer, pc, sg, count, blocks>>

Copied ==
    /\ pc = "copy" /\ next > Len(sg)
    /\ pc' = "done"
    /\ UNCHANGED <<buffer, sg, count, out, next, blocks>>

\* DMADescriptorListWG::init for descriptors in user memory: the buffer is a
\* number of whole pages, its list is not merged, and the address of page i
\* is taken from entry i.  Beyond the list there is anything.
Link ==
    /\ pc = "done" /\ ~merged /\ off = 0 /\ size % PageSize = 0
    /\ Len(blocks) < size \div PageSize
    /\ IF Len(blocks) < Len(out)
       THEN blocks' = Append(blocks, out[Len(blocks) + 1].addr)
       ELSE \E f \in Frames : blocks' = Append(blocks, f * PageSize)
    /\ UNCHANGED <<buffer, pc, sg, count, out, next>>

Next == AddPage \/ MapSg \/ SgGet \/ CopyMerged \/ CopyPlain \/ Copied \/ Link

Spec == Init /\ [][Next]_vars

-----------------------------------------------------------------------------
Entries == [addr : Nat, size : Nat]

TypeOK ==
    /\ off \in 0 .. PageSize - 1
    /\ size \in 1 .. MaxSize
    /\ frame \in Seq(Frames) /\ Len(frame) > 0
    /\ merged \in BOOLEAN
    /\ pc \in {"pages", "mapped", "copy", "done", "failed"}
    /\ sg \in Seq(Entries)
    /\ count \in 0 .. MaxSize
    /\ out \in Seq(Entries)
    /\ next \in 1 .. Len(frame) + 1
    /\ blocks \in Seq(Nat)

\* Bus address of each byte of the buffer, and of each byte of a list.
ByteAt(j) == frame[(off + j - 1) \div PageSize + 1] * PageSize + ((off + j - 1) % PageSize)
BufferBytes == [j \in 1 .. size |-> ByteAt(j)]
BytesOf(e) == [j \in 1 .. e.size |-> e.addr + j - 1]
ListBytes(l) == FlattenSeq([k \in DOMAIN l |-> BytesOf(l[k])])

\* The list given to the program names the bytes of its buffer, each once and
\* in order, wherever the buffer begins and however its pages lie on the bus
\* (umem.c:63, 109-123, 270-313).
Covers == pc = "done" => ListBytes(out) = BufferBytes

\* A merged list has no two entries that could be one (umem.c:283-301).
MergedMaximal ==
    pc = "done" /\ merged =>
        \A k \in 1 .. Len(out) - 1 : out[k + 1].addr # End(out[k])

\* The library has room for the list of any buffer (UserMemory.cpp:66,
\* pciDriver_Capi.c:194, umem.c:266).
Fits == pc # "failed"

\* Each page of descriptors is linked with its own address, as long as the
\* bus mapping keeps the entries of the pages apart
\* (DMADescriptorListWG.cpp:81-84).
LinksOwnPages ==
    Len(sg) = Len(frame) => \A k \in DOMAIN blocks : blocks[k] = frame[k] * PageSize

-----------------------------------------------------------------------------
\* The inductive invariant.  Bytes of the buffer in its first n pages.
Before(n) == IF n = 0 THEN 0 ELSE Least(size, n * PageSize - off)

\* Entry k of l names the bytes after byte ends[k - 1] up to byte ends[k].
Lays(l, ends) ==
    /\ ends[0] = 0
    /\ \A k \in 1 .. Len(l) :
          /\ ends[k - 1] < ends[k]
          /\ l[k].size = ends[k] - ends[k - 1]
          /\ \A j \in ends[k - 1] + 1 .. ends[k] :
                ByteAt(j) = l[k].addr + j - ends[k - 1] - 1

Ends(l) == [0 .. Len(l) -> 0 .. size]
Laid(l, n) == \E ends \in Ends(l) : Lays(l, ends) /\ ends[Len(l)] = n

\* The pages are as many as the buffer touches.
Touched == (Len(frame) - 1) * PageSize < off + size /\ off + size <= Len(frame) * PageSize

\* One entry for each page.
PageEntries ==
    \A k \in 1 .. Len(sg) : sg[k].addr = frame[k] * PageSize + (IF k = 1 THEN off ELSE 0)

PagesSoFar ==
    /\ Len(sg) <= Len(frame) /\ PageEntries
    /\ count = size - Before(Len(sg))
    /\ Lays(sg, [n \in 0 .. Len(sg) |-> Before(n)])
    /\ out = <<>> /\ next = 1

\* What has been copied of a mapped list.
CopiedSoFar ==
    /\ 0 < Len(sg) /\ Len(sg) <= Len(frame) /\ next <= Len(sg) + 1
    /\ \E ends \in Ends(sg) :
          Lays(sg, ends) /\ ends[Len(sg)] = size /\ Laid(out, ends[next - 1])
    /\ Len(sg) = Len(frame) => PageEntries
    /\ next > 1 /\ ~merged => out = sg
    /\ merged => \A k \in 1 .. Len(out) - 1 : out[k + 1].addr # End(out[k])
    /\ pc = "mapped" => next = 1
    /\ pc = "done" => next = Len(sg) + 1

Linking ==
    /\ blocks # <<>> => pc = "done" /\ ~merged /\ off = 0 /\ size % PageSize = 0
    /\ LinksOwnPages

IInv ==
    /\ TypeOK /\ Touched /\ Fits /\ Linking
    /\ pc = "pages" => PagesSoFar
    /\ pc # "pages" => CopiedSoFar
===============================================================================
