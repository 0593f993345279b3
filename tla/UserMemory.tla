------------------------------ MODULE UserMemory ------------------------------
(***************************************************************************)
(* User memory mapped for a board (umem.c, UserMemory.cpp).                *)
(*                                                                         *)
(* Mapping takes a reference on each page of a buffer, locks it and adds   *)
(* an entry to the device's list; unmapping undoes that.  References are   *)
(* counted by the kernel, the lock of a page is one bit.  Entries are      *)
(* looked up by their id under the list's lock and used after it was       *)
(* released.  Besides the ioctls of the library, anybody may write an id   *)
(* to the sysfs file umem_unmap.                                           *)
(*                                                                         *)
(* What the scatter/gather list of an entry holds is in SgList.            *)
(***************************************************************************)
EXTENDS Integers, FiniteSets

CONSTANTS
    Pages,      \* physical pages
    Mappers,    \* threads that map memory
    Cleaners,   \* writers of umem_unmap
    Buf,        \* pages of each mapper's buffer
    MaxIds      \* bound: entries made

ASSUME BufAssumption == Buf \in [Mappers -> SUBSET Pages]
ASSUME BoundAssumption == MaxIds \in Nat
ASSUME ThreadsAssumption ==
    IsFiniteSet(Mappers) /\ IsFiniteSet(Cleaners) /\ Mappers \cap Cleaners = {}

Threads == Mappers \cup Cleaners
Ids == 0 .. MaxIds - 1
NoId == MaxIds

VARIABLES
    locked,     \* pages with PG_locked
    refs,       \* references the driver holds on each page
    umemCount,
    umemList,   \* ids in the list; no lookup depends on their order
    entry,      \* none, live, released or freed
    pages,      \* the pages of each entry
    files,      \* sysfs files
    pc, handle, cur,    \* each thread: position, id, entry looked up
    got,        \* pages of the mapping under way
    fault       \* an entry was used after it was freed

memory == <<locked, refs>>
lists == <<umemCount, umemList, entry, pages, files>>
vars == <<memory, lists, pc, handle, cur, got, fault>>

Positions == {"idle", "got", "locked", "link", "undo", "sgget", "copy", "have", "sync",
              "find", "release", "unlink"}

Init ==
    /\ locked = {}
    /\ refs = [p \in Pages |-> 0]
    /\ umemCount = 0
    /\ umemList = {}
    /\ entry = [i \in Ids |-> "none"]
    /\ pages = [i \in Ids |-> {}]
    /\ files = {}
    /\ pc = [t \in Threads |-> "idle"]
    /\ handle = [t \in Threads |-> NoId]
    /\ cur = [t \in Threads |-> NoId]
    /\ got = [t \in Threads |-> {}]
    /\ fault = FALSE

Set(f, t, v) == [f EXCEPT ![t] = v]
\* What the kernel does after a use of freed memory is not defined: the model
\* ends there.
Goto(t, from, to) == ~fault /\ pc[t] = from /\ pc' = Set(pc, t, to)
Get(ps) == [p \in Pages |-> IF p \in ps THEN refs[p] + 1 ELSE refs[p]]
Put(ps) == [p \in Pages |-> IF p \in ps THEN refs[p] - 1 ELSE refs[p]]
Listed(id) == id \in umemList

-----------------------------------------------------------------------------
\* pcidriver_umem_sgmap.

\* get_user_pages: all pages of the buffer, or some of them and an error.
GetPages(t) ==
    /\ t \in Mappers
    /\ umemCount < MaxIds
    /\ \E ps \in SUBSET Buf[t] :
          /\ Goto(t, "idle", IF ps = Buf[t] THEN "got" ELSE "undo")
          /\ got' = Set(got, t, ps)
          /\ refs' = Get(ps)
    /\ UNCHANGED <<locked, lists, handle, cur, fault>>

LockPages(t) ==
    /\ Goto(t, "got", "locked")
    /\ locked' = locked \cup got[t]
    /\ UNCHANGED <<refs, lists, handle, cur, got, fault>>

\* The pages are mapped to the bus and the entry gets its id and its sysfs
\* file.  Each of these may fail; the id is not reused.
AddEntry(t) ==
    /\ umemCount < MaxIds
    /\ \/ /\ Goto(t, "locked", "link")
          /\ umemCount' = umemCount + 1
          /\ entry' = Set(entry, umemCount, "live")
          /\ pages' = Set(pages, umemCount, got[t])
          /\ files' = files \cup {umemCount}
          /\ handle' = Set(handle, t, umemCount)
          /\ got' = Set(got, t, {})
       \/ /\ Goto(t, "locked", "undo")
          /\ umemCount' \in {umemCount, umemCount + 1}
          /\ UNCHANGED <<entry, pages, files, handle, got>>
    /\ UNCHANGED <<memory, umemList, cur, fault>>

\* list_add_tail, under the spinlock; the ioctl returns the id.
Link(t) ==
    /\ Goto(t, "link", "sgget")
    /\ umemList' = umemList \cup {handle[t]}
    /\ UNCHANGED <<memory, umemCount, entry, pages, files, handle, cur, got, fault>>

\* The error path: pages that are locked are unlocked, all are released.
\* UndoKeepsPages and UndoWholeBuffer are mutation variants.
UndoKeepsPages(t) ==
    /\ Goto(t, "undo", "idle")
    /\ locked' = locked \ got[t]
    /\ got' = Set(got, t, {})
    /\ UNCHANGED <<refs, lists, handle, cur, fault>>

UndoWholeBuffer(t) ==
    /\ Goto(t, "undo", "idle")
    /\ locked' = locked \ got[t]
    /\ refs' = Put(Buf[t])
    /\ got' = Set(got, t, {})
    /\ UNCHANGED <<lists, handle, cur, fault>>

Undo(t) ==
    /\ Goto(t, "undo", "idle")
    /\ locked' = locked \ got[t]
    /\ refs' = Put(got[t])
    /\ got' = Set(got, t, {})
    /\ UNCHANGED <<lists, handle, cur, fault>>

-----------------------------------------------------------------------------
\* pcidriver_umem_sgget, called next by the constructor: the entry is looked
\* up and copied.  After an error the constructor unmaps.
SgGet(t) ==
    /\ pc[t] = "sgget"
    /\ \/ Listed(handle[t]) /\ Goto(t, "sgget", "copy") /\ cur' = Set(cur, t, handle[t])
       \/ Goto(t, "sgget", "find") /\ UNCHANGED cur
    /\ UNCHANGED <<memory, lists, handle, got, fault>>

SgCopy(t) ==
    /\ \/ Goto(t, "copy", "have")
       \/ Goto(t, "copy", "find")
    /\ fault' = (fault \/ entry[cur[t]] = "freed")
    /\ UNCHANGED <<memory, lists, handle, cur, got>>

\* pcidriver_umem_sync of the thread's buffer; an entry that is gone is an
\* exception, and the object stays.
Sync(t) ==
    /\ Listed(handle[t])
    /\ Goto(t, "have", "sync")
    /\ cur' = Set(cur, t, handle[t])
    /\ UNCHANGED <<memory, lists, handle, got, fault>>

SyncUse(t) ==
    /\ Goto(t, "sync", "have")
    /\ fault' = (fault \/ entry[cur[t]] = "freed")
    /\ UNCHANGED <<memory, lists, handle, cur, got>>

-----------------------------------------------------------------------------
\* ~UserMemory.
Delete(t) ==
    /\ Goto(t, "have", "find")
    /\ UNCHANGED <<memory, lists, handle, cur, got, fault>>

\* umem_unmap: any id below the count.
SysfsUnmap(t) ==
    /\ t \in Cleaners
    /\ Goto(t, "idle", "find")
    /\ \E id \in 0 .. umemCount - 1 : handle' = Set(handle, t, id)
    /\ UNCHANGED <<memory, lists, cur, got, fault>>

\* The entry is looked up; there may be none.
Find(t) ==
    /\ \/ /\ Listed(handle[t])
          /\ Goto(t, "find", "release")
          /\ cur' = Set(cur, t, handle[t])
          /\ UNCHANGED handle
       \/ /\ ~Listed(handle[t])
          /\ Goto(t, "find", "idle")
          /\ handle' = Set(handle, t, NoId)
          /\ UNCHANGED cur
    /\ UNCHANGED <<memory, lists, got, fault>>

\* pcidriver_umem_sgunmap: the sysfs file goes and the pages are unlocked and
\* released; then the entry leaves the list and is freed.  ReleaseAllLocks
\* is a mutation variant.
ReleaseAllLocks(t) ==
    /\ Goto(t, "release", "unlink")
    /\ files' = files \ {cur[t]}
    /\ locked' = {}
    /\ refs' = Put(pages[cur[t]])
    /\ entry' = IF entry[cur[t]] = "live" THEN Set(entry, cur[t], "released") ELSE entry
    /\ fault' = (fault \/ entry[cur[t]] # "live")
    /\ UNCHANGED <<umemCount, umemList, pages, handle, cur, got>>

Release(t) ==
    /\ Goto(t, "release", "unlink")
    /\ files' = files \ {cur[t]}
    /\ locked' = locked \ pages[cur[t]]
    /\ refs' = Put(pages[cur[t]])
    /\ entry' = IF entry[cur[t]] = "live" THEN Set(entry, cur[t], "released") ELSE entry
    /\ fault' = (fault \/ entry[cur[t]] # "live")
    /\ UNCHANGED <<umemCount, umemList, pages, handle, cur, got>>

Unlink(t) ==
    /\ Goto(t, "unlink", "idle")
    /\ umemList' = umemList \ {cur[t]}
    /\ entry' = Set(entry, cur[t], "freed")
    /\ fault' = (fault \/ entry[cur[t]] = "freed")
    /\ handle' = Set(handle, t, NoId)
    /\ UNCHANGED <<memory, umemCount, pages, files, cur, got>>

Step(t) ==
    \/ LockPages(t) \/ AddEntry(t) \/ Link(t) \/ Undo(t) \/ SgGet(t)
    \/ SgCopy(t) \/ SyncUse(t) \/ Find(t) \/ Release(t) \/ Unlink(t)

Call(t) == GetPages(t) \/ Sync(t) \/ Delete(t) \/ SysfsUnmap(t)

Next == \E t \in Threads : Call(t) \/ Step(t)

Spec == Init /\ [][Next]_vars

-----------------------------------------------------------------------------
TypeOK ==
    /\ locked \subseteq Pages
    /\ refs \in [Pages -> Int]
    /\ ~fault => \A p \in Pages : refs[p] >= 0
    /\ umemCount \in 0 .. MaxIds
    /\ umemList \subseteq Ids
    /\ entry \in [Ids -> {"none", "live", "released", "freed"}]
    /\ pages \in [Ids -> SUBSET Pages]
    /\ files \subseteq Ids
    /\ pc \in [Threads -> Positions]
    /\ handle \in [Threads -> Ids \cup {NoId}]
    /\ cur \in [Threads -> Ids \cup {NoId}]
    /\ got \in [Threads -> SUBSET Pages]
    /\ fault \in BOOLEAN

Live == {i \in Ids : entry[i] = "live"}

\* Each page has one reference for each mapping of it, complete or under way:
\* also on the error paths, and whoever unmaps, none is kept or given back
\* twice, up to a use of freed memory (umem.c:85-125, 163-183, 198-209).
PinsExact ==
    ~fault => \A p \in Pages :
        refs[p] = Cardinality({i \in Live : p \in pages[i]})
                  + Cardinality({t \in Threads : p \in got[t]})

\* The list holds the entries that are neither being made nor freed, each with
\* its sysfs file as long as its pages are held; those that are being unmapped
\* are on their way out (umem.c:143-156, 193-222, sysfs.c:282-298).
ListExact ==
    ~fault =>
        /\ umemList = {i \in Ids : entry[i] \in {"live", "released"}}
                                \ {handle[t] : t \in {u \in Threads : pc[u] = "link"}}
        /\ files = Live
        /\ \A i \in Ids : entry[i] = "released" =>
              \E t \in Threads : pc[t] = "unlink" /\ cur[t] = i

\* Both: references, entries and files belong to the mappings there are.
MappingsExact == PinsExact /\ ListExact

\* The pages of a mapping are locked, except those that lie in the buffers of
\* two threads: the first of their mappings to go takes the lock of the other
\* with it (umem.c:111-123, 202-205).
SharedPages ==
    {p \in Pages : \E t, u \in Mappers : t # u /\ p \in Buf[t] \cap Buf[u]}

LockedUnlessShared ==
    ~fault => \A i \in Live : pages[i] \ SharedPages \subseteq locked
=============================================================================
