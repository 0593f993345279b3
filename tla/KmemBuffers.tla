----------------------------- MODULE KmemBuffers -----------------------------
(***************************************************************************)
(* Kernel buffers and mmap in the opencores driver and its library.        *)
(*                                                                         *)
(* The driver keeps the buffers of a device in kmem_list (kmem.c).  Its    *)
(* spinlock covers each look-up and each link or unlink, but not what is   *)
(* done with the entry afterwards.  A buffer is freed by its bus address;  *)
(* the address goes back to the allocator before the entry leaves the      *)
(* list.  mmap has no argument for the buffer: it maps the last entry of   *)
(* the list, or the BAR in mmap_area, as mmap_mode says (base.c), and mode *)
(* and area belong to the device, not to the open file.                    *)
(*                                                                         *)
(* The library (KernelMemory.cpp, PciDevice.cpp, pciDriver_Capi.c) holds a *)
(* mutex of the process around setting the mode and mmap, but not around   *)
(* the allocation that made the entry the last one.                        *)
(*                                                                         *)
(* Every thread here is well behaved: it frees only the buffer it          *)
(* allocated, once, after it unmapped it.  All buffers have the same size. *)
(***************************************************************************)
EXTENDS Naturals, Sequences, FiniteSets, SequencesExt

CONSTANTS
    BufThreads,     \* threads that create and delete KernelMemory objects
    BarThreads,     \* threads that map BARs
    Processes,      \* processes that opened the device
    Proc,           \* the process of each thread
    Addresses,      \* bus addresses the DMA allocator can give out
    Bars,           \* BARs of the board
    MaxIds          \* bound: buffers allocated in one run (kmem_count)

Threads == BufThreads \cup BarThreads

ASSUME ThreadsAssumption == BufThreads \cap BarThreads = {}
ASSUME ProcAssumption == Proc \in [Threads -> Processes]
ASSUME MaxIdsAssumption == MaxIds \in Nat
ASSUME BarsAssumption == Bars \subseteq Nat

Ids == 0 .. MaxIds - 1
NoId == MaxIds

VARIABLES
    kmemCount,  \* kmem_count, the next handle id
    kmemList,   \* kmem_list, the ids of the entries in it
    address,    \* dma_handle of each entry
    entry,      \* life of each entry: none, live, dmafreed, freed
    sysfs,      \* ids with a sysfs file
    mode, area, \* mmap_mode and mmap_area of the device
    mutex,      \* mmap_mutex of each process: its holders
    pc,         \* position of each thread
    handle,     \* the buffer a thread owns: id, or NoId
    cur,        \* local kmem_entry pointer of each thread
    mapped,     \* what each thread has mapped: <<"kmem" or "bar", which>>
    bar,        \* the BAR a thread is mapping
    fault,      \* history: a freed entry was used
    crossed     \* history: list, mode or area did not stay as a call needs them
                \* between its steps, see Overtakes, GivenOutEarly, Resets

lists == <<kmemCount, kmemList, address, entry, sysfs>>
modes == <<mode, area>>
locals == <<handle, cur, mapped, bar>>
vars == <<lists, modes, mutex, pc, locals, fault, crossed>>

Positions == {"idle", "link", "lock", "setmode", "setarea", "mmap", "use",
              "unlock", "unlockerr", "have", "sync", "find", "dmafree", "unlink"}
FirstBar == 0           \* the structure is zeroed
Unmapped == <<"none", 0>>

Init ==
    /\ kmemCount = 0 /\ kmemList = <<>> /\ sysfs = {}
    /\ address = [i \in Ids |-> NoId]
    /\ entry = [i \in Ids |-> "none"]
    /\ mode = "PCI"
    /\ area = FirstBar
    /\ mutex = [p \in Processes |-> {}]
    /\ pc = [t \in Threads |-> "idle"]
    /\ handle = [t \in Threads |-> NoId]
    /\ cur = [t \in Threads |-> NoId]
    /\ mapped = [t \in Threads |-> Unmapped]
    /\ bar = [t \in Threads |-> FirstBar]
    /\ fault = FALSE
    /\ crossed = FALSE

Goto(t, from, to) == pc[t] = from /\ pc' = [pc EXCEPT ![t] = to]
Set(f, t, v) == [f EXCEPT ![t] = v]

\* Addresses the allocator has not given out.
FreeAddresses ==
    Addresses \ {address[i] : i \in {j \in Ids : entry[j] = "live"}}

\* Mutation variant: the address is not compared.
FirstEntry(t) == {n \in DOMAIN kmemList : n = 1}

\* pcidriver_kmem_find_entry, under the spinlock: the place of the first entry
\* with the bus address of the thread's handle, if there is one.
FirstMatch(t) ==
    LET matches == {n \in DOMAIN kmemList :
                      address[kmemList[n]] = address[handle[t]]}
    IN  {n \in matches : \A m \in matches : n <= m}

\* Where an entry is in the list.
Places(i) == {n \in DOMAIN kmemList : kmemList[n] = i}

\* The address belongs to a freed buffer whose entry is still in the list.
GivenOutEarly(a) == \E i \in ToSet(kmemList) : address[i] = a

\* Another thread has linked its buffer and not yet mapped it.
Overtakes(t) ==
    \E u \in BufThreads \ {t} : pc[u] \in {"lock", "setmode", "mmap"}

\* A thread of another process, which has another mutex, is between setting
\* mode or area and its mmap.
Resets(t) ==
    \E u \in Threads : Proc[u] # Proc[t] /\ pc[u] \in {"setarea", "mmap"}

-----------------------------------------------------------------------------
\* pcidriver_kmem_alloc: a new id, its sysfs file and the DMA memory.  The
\* allocator may fail: the entry is given back, but count and file stay.
Alloc(t) ==
    /\ t \in BufThreads
    /\ pc[t] = "idle"
    /\ kmemCount < MaxIds
    /\ kmemCount' = kmemCount + 1
    /\ sysfs' = sysfs \cup {kmemCount}
    /\ \/ \E a \in FreeAddresses :
            /\ address' = Set(address, kmemCount, a)
            /\ crossed' = (crossed \/ GivenOutEarly(a))
            /\ entry' = Set(entry, kmemCount, "live")
            /\ handle' = Set(handle, t, kmemCount)
            /\ pc' = Set(pc, t, "link")
       \/ /\ entry' = Set(entry, kmemCount, "freed")
          /\ UNCHANGED <<address, handle, pc, crossed>>
    /\ UNCHANGED <<kmemList, modes, mutex, cur, mapped, bar, fault>>

\* list_add_tail under the spinlock; the ioctl returns.
AllocLink(t) ==
    /\ Goto(t, "link", "lock")
    /\ kmemList' = Append(kmemList, handle[t])
    /\ crossed' = (crossed \/ Overtakes(t))
    /\ UNCHANGED <<kmemCount, address, entry, sysfs, modes, mutex, locals, fault>>

\* mapBAR is called.
MapBar(t) ==
    /\ t \in BarThreads
    /\ Goto(t, "idle", "lock")
    /\ \E b \in Bars : bar' = Set(bar, t, b)
    /\ UNCHANGED <<lists, modes, mutex, handle, cur, mapped, fault, crossed>>

\* Mutation variants: no mutual exclusion; the mutex is kept on the error
\* path; the entry is freed but stays in the list.
LockIgnored(t) ==
    /\ Goto(t, "lock", "setmode")
    /\ mutex' = [mutex EXCEPT ![Proc[t]] = @ \cup {t}]
    /\ UNCHANGED <<lists, modes, locals, fault, crossed>>

UnlockOnSuccess(t) ==
    /\ \/ /\ Goto(t, "unlock", "have")
          /\ mutex' = [mutex EXCEPT ![Proc[t]] = {}]
       \/ /\ Goto(t, "unlockerr", IF t \in BufThreads THEN "find" ELSE "idle")
          /\ UNCHANGED mutex
    /\ UNCHANGED <<lists, modes, locals, fault, crossed>>

FreeForgets(t) ==
    /\ Goto(t, "unlink", "idle")
    /\ entry' = Set(entry, cur[t], "freed")
    /\ fault' = (fault \/ entry[cur[t]] = "freed")
    /\ handle' = Set(handle, t, NoId)
    /\ cur' = Set(cur, t, NoId)
    /\ UNCHANGED <<kmemCount, kmemList, address, sysfs, modes, mutex, mapped, bar, crossed>>

\* pthread_mutex_lock(mmap_mutex).
Lock(t) ==
    /\ mutex[Proc[t]] = {}
    /\ Goto(t, "lock", "setmode")
    /\ mutex' = [mutex EXCEPT ![Proc[t]] = {t}]
    /\ UNCHANGED <<lists, modes, locals, fault, crossed>>

\* PCIDRIVER_IOC_MMAP_MODE, then for a BAR PCIDRIVER_IOC_MMAP_AREA.
SetMode(t) ==
    /\ Goto(t, "setmode", IF t \in BarThreads THEN "setarea" ELSE "mmap")
    /\ mode' = IF t \in BarThreads THEN "PCI" ELSE "KMEM"
    /\ crossed' = (crossed \/ Resets(t))
    /\ UNCHANGED <<lists, area, mutex, locals, fault>>

SetArea(t) ==
    /\ Goto(t, "setarea", "mmap")
    /\ area' = bar[t]
    /\ crossed' = (crossed \/ Resets(t))
    /\ UNCHANGED <<lists, mode, mutex, locals, fault>>

\* pcidriver_mmap in mode PCI: the BAR in mmap_area.  Here and below the
\* remapping itself may fail.
MmapBar(t) ==
    /\ mode = "PCI"
    /\ \/ /\ Goto(t, "mmap", "unlock")
          /\ mapped' = Set(mapped, t, <<"bar", area>>)
       \/ Goto(t, "mmap", "unlockerr") /\ UNCHANGED mapped
    /\ UNCHANGED <<lists, modes, mutex, handle, cur, bar, fault, crossed>>

\* pcidriver_mmap_kmem: the last entry is picked under the spinlock...
MmapPick(t) ==
    /\ pc[t] = "mmap" /\ mode = "KMEM" /\ kmemList # <<>>
    /\ pc' = Set(pc, t, "use")
    /\ cur' = Set(cur, t, Last(kmemList))
    /\ UNCHANGED <<lists, modes, mutex, handle, mapped, bar, fault, crossed>>

MmapEmpty(t) ==
    /\ mode = "KMEM" /\ kmemList = <<>>
    /\ Goto(t, "mmap", "unlockerr")
    /\ UNCHANGED <<lists, modes, mutex, locals, fault, crossed>>

\* ... and its size and address are used after the lock was released.
MmapUse(t) ==
    /\ \/ /\ Goto(t, "use", "unlock")
          /\ mapped' = Set(mapped, t, <<"kmem", cur[t]>>)
       \/ Goto(t, "use", "unlockerr") /\ UNCHANGED mapped
    /\ fault' = (fault \/ entry[cur[t]] = "freed")
    /\ cur' = Set(cur, t, NoId)
    /\ UNCHANGED <<lists, modes, mutex, handle, bar, crossed>>

\* The mutex is released and the object is complete.  After an error the
\* buffer is freed first; a BAR mapping just fails.
Unlock(t) ==
    /\ \/ Goto(t, "unlock", "have")
       \/ Goto(t, "unlockerr", IF t \in BufThreads THEN "find" ELSE "idle")
    /\ mutex' = [mutex EXCEPT ![Proc[t]] = {}]
    /\ UNCHANGED <<lists, modes, locals, fault, crossed>>

\* PCIDRIVER_IOC_KMEM_SYNC of the thread's buffer: the entry is found as for
\* a free, and its address and size are used after the lock was released.
Sync(t) ==
    /\ t \in BufThreads
    /\ Goto(t, "have", "sync")
    /\ \E n \in FirstMatch(t) : cur' = Set(cur, t, kmemList[n])
    /\ UNCHANGED <<lists, modes, mutex, handle, mapped, bar, fault, crossed>>

SyncUse(t) ==
    /\ Goto(t, "sync", "have")
    /\ fault' = (fault \/ entry[cur[t]] = "freed")
    /\ cur' = Set(cur, t, NoId)
    /\ UNCHANGED <<lists, modes, mutex, handle, mapped, bar, crossed>>

\* unmapBAR.
UnmapBar(t) ==
    /\ t \in BarThreads
    /\ Goto(t, "have", "idle")
    /\ mapped' = Set(mapped, t, Unmapped)
    /\ bar' = Set(bar, t, FirstBar)
    /\ UNCHANGED <<lists, modes, mutex, handle, cur, fault, crossed>>

\* ~KernelMemory: munmap, then PCIDRIVER_IOC_KMEM_FREE.
Delete(t) ==
    /\ t \in BufThreads
    /\ Goto(t, "have", "find")
    /\ mapped' = Set(mapped, t, Unmapped)
    /\ UNCHANGED <<lists, modes, mutex, handle, cur, bar, fault, crossed>>

\* PCIDRIVER_IOC_KMEM_FREE: no entry is -EINVAL.
Find(t) ==
    /\ pc[t] = "find"
    /\ \/ \E n \in FirstMatch(t) :
            /\ cur' = Set(cur, t, kmemList[n])
            /\ pc' = Set(pc, t, "dmafree")
            /\ UNCHANGED handle
       \/ /\ FirstMatch(t) = {}
          /\ handle' = Set(handle, t, NoId)
          /\ pc' = Set(pc, t, "idle")
          /\ UNCHANGED cur
    /\ UNCHANGED <<lists, modes, mutex, mapped, bar, fault, crossed>>

\* pcidriver_kmem_free_entry: the sysfs file and the DMA memory go...
FreeDma(t) ==
    /\ Goto(t, "dmafree", "unlink")
    /\ sysfs' = sysfs \ {cur[t]}
    /\ entry' = IF entry[cur[t]] = "live" THEN Set(entry, cur[t], "dmafreed") ELSE entry
    /\ fault' = (fault \/ entry[cur[t]] # "live")
    /\ UNCHANGED <<kmemCount, kmemList, address, modes, mutex, locals, crossed>>

\* ... then the entry leaves the list and is itself freed.
FreeUnlink(t) ==
    /\ Goto(t, "unlink", "idle")
    /\ \/ \E n \in Places(cur[t]) : kmemList' = RemoveAt(kmemList, n)
       \/ Places(cur[t]) = {} /\ UNCHANGED kmemList
    /\ entry' = Set(entry, cur[t], "freed")
    /\ fault' = (fault \/ entry[cur[t]] = "freed")
    /\ handle' = Set(handle, t, NoId)
    /\ cur' = Set(cur, t, NoId)
    /\ UNCHANGED <<kmemCount, address, sysfs, modes, mutex, mapped, bar, crossed>>

Step(t) ==
    \/ AllocLink(t) \/ Lock(t) \/ SetMode(t) \/ SetArea(t) \/ MmapBar(t)
    \/ MmapPick(t) \/ MmapEmpty(t) \/ MmapUse(t) \/ Unlock(t)
    \/ SyncUse(t) \/ Find(t) \/ FreeDma(t) \/ FreeUnlink(t)

Call(t) == Alloc(t) \/ MapBar(t) \/ Sync(t) \/ UnmapBar(t) \/ Delete(t)

Next == \E t \in Threads : Call(t) \/ Step(t)

Spec == Init /\ [][Next]_vars

\* A thread in a call is scheduled, and one that keeps asking for the mutex
\* gets it in the end.
FairSpec == Spec /\ \A t \in Threads : WF_vars(Step(t)) /\ SF_vars(Lock(t))

-----------------------------------------------------------------------------
TypeOK ==
    /\ kmemCount \in 0 .. MaxIds
    /\ kmemList \in Seq(Ids)
    /\ address \in [Ids -> Addresses \cup {NoId}]
    /\ entry \in [Ids -> {"none", "live", "dmafreed", "freed"}]
    /\ sysfs \subseteq Ids
    /\ mode \in {"PCI", "KMEM"}
    /\ area \in Bars \cup {FirstBar}
    /\ mutex \in [Processes -> SUBSET Threads]
    /\ \A p \in Processes : Cardinality(mutex[p]) <= 1
    /\ pc \in [Threads -> Positions]
    /\ handle \in [Threads -> Ids \cup {NoId}]
    /\ cur \in [Threads -> Ids \cup {NoId}]
    /\ bar \in [Threads -> Bars \cup {FirstBar}]
    /\ fault \in BOOLEAN
    /\ crossed \in BOOLEAN

\* A finished KernelMemory object maps the buffer it allocated
\* (KernelMemory.cpp:36-37).
MapsOwnBuffer ==
    \A t \in BufThreads : pc[t] = "have" => mapped[t] = <<"kmem", handle[t]>>

\* A finished mapBAR maps the BAR it was called with, and a KernelMemory
\* object its own buffer, whatever the threads of the process map, unless
\* another buffer was allocated or another process mapped in between
\* (PciDevice.cpp:288-298, KernelMemory.cpp:55-70, base.c:589-597).
MapsAsAsked ==
    ~crossed =>
        /\ \A t \in BarThreads : pc[t] = "have" => mapped[t] = <<"bar", bar[t]>>
        /\ MapsOwnBuffer

\* No entry is used after it was freed, or freed twice, though look-up, use
\* and unlinking are separate steps, by threads that free only what they
\* allocated (kmem.c:126-171, base.c:589-597).
NoUseAfterFree == ~crossed => ~fault

\* Once no call is in progress, every buffer in the list belongs to a thread,
\* and every buffer of a thread is in the list, once (kmem.c:75-77, 163-166).
NothingLost ==
    (~crossed /\ \A t \in Threads : pc[t] \in {"idle", "have"}) =>
        /\ ToSet(kmemList) = {handle[t] : t \in BufThreads} \ {NoId}
        /\ IsInjective(kmemList)

\* A call that was made returns: in particular nobody is left waiting for
\* the mutex, also after a mapping that failed (PciDevice.cpp:288-305).
CallReturns ==
    \A t \in Threads : (pc[t] \notin {"idle", "have"}) ~> (pc[t] \in {"idle", "have"})
=============================================================================
