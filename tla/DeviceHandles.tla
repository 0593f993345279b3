---------------------------- MODULE DeviceHandles ----------------------------
(***************************************************************************)
(* The device objects of the library, in C++ (PciDevice.cpp) and in C      *)
(* (pciDriver_Capi.c): the file descriptor each has, the lock around the   *)
(* mode ioctls, and what its calls do when the descriptor goes away.       *)
(*                                                                         *)
(* A program has two threads and two objects.  The lock keeps its threads' *)
(* mappings apart; nothing keeps apart an open or a close and a call.      *)
(* Descriptors are the lowest numbers free, also 0 for a program without a *)
(* standard input, and the program opens other files meanwhile.  What the  *)
(* driver makes of the calls is in KmemBuffers, UserMemory and IrqWait.    *)
(***************************************************************************)
EXTENDS Integers, FiniteSets

CONSTANTS
    Objects, Threads,
    MaxFd       \* bound: descriptors a program may have

Fds == 0 .. MaxFd
Free == "free"
Other == "other"
Closed == -1

VARIABLES
    api,        \* each object: of the C or the C++ interface
    life,       \* none, made (C++: constructed, C: opened once) or gone
    handle,     \* its descriptor
    owner,      \* who opened each descriptor: an object, Other or Free
    mutex,      \* mmap_mutex of each object: the threads that hold it
    pc, on,     \* each thread: its call and step, and the object
    entries,    \* what the driver keeps for each object: kernel or user memory
    named,      \* what the program has handles for
    misused     \* history: a structure was opened or closed twice, or an object
                \* opened or closed while a thread was in a call on it, closed
                \* with memory left, or used after it was closed

objects == <<api, life, handle>>
memory == <<entries, named>>
vars == <<objects, owner, mutex, pc, on, memory, misused>>

NoObject == "none"

Init ==
    /\ api \in [Objects -> {"c", "cpp"}]
    /\ life = [o \in Objects |-> "none"]
    /\ handle = [o \in Objects |-> Closed]
    /\ owner \in {[f \in Fds |-> IF f \in s THEN Other ELSE Free] : s \in {{}, {0}}}
    /\ mutex = [o \in Objects |-> {}]
    /\ pc = [t \in Threads |-> "idle"]
    /\ on = [t \in Threads |-> NoObject]
    /\ entries = [o \in Objects |-> {}]
    /\ named = [o \in Objects |-> {}]
    /\ misused = FALSE

InCall(o) == \E t \in Threads : on[t] = o

\* open(2): the lowest descriptor free, if there is one.
Lowest(f) == owner[f] = Free /\ \A g \in Fds : owner[g] = Free => f <= g

-----------------------------------------------------------------------------
\* PciDevice::PciDevice and ~PciDevice, which leaves descriptor 0 open.
Construct(o) ==
    /\ api[o] = "cpp" /\ life[o] = "none"
    /\ life' = [life EXCEPT ![o] = "made"]
    /\ handle' = [handle EXCEPT ![o] = Closed]
    /\ UNCHANGED <<api, owner, mutex, pc, on, memory, misused>>

ClosedFd(f) == IF f \in Fds THEN [owner EXCEPT ![f] = Free] ELSE owner

Destroy(o) ==
    /\ api[o] = "cpp" /\ life[o] = "made" /\ ~InCall(o)
    /\ life' = [life EXCEPT ![o] = "gone"]
    /\ owner' = IF handle[o] > 0 THEN ClosedFd(handle[o]) ELSE owner
    /\ handle' = IF handle[o] > 0 THEN [handle EXCEPT ![o] = Closed] ELSE handle
    /\ mutex' = [mutex EXCEPT ![o] = {}]
    /\ misused' = (misused \/ named[o] # {})
    /\ UNCHANGED <<api, pc, on, memory>>

\* PciDevice::open: nothing to do for an object that is open.
MayOpen(o) == handle[o] = Closed

Open(o) ==
    /\ api[o] = "cpp" /\ life[o] = "made" /\ MayOpen(o)
    /\ \E f \in Fds :
          /\ Lowest(f)
          /\ handle' = [handle EXCEPT ![o] = f]
          /\ owner' = [owner EXCEPT ![f] = o]
    /\ misused' = (misused \/ InCall(o))
    /\ UNCHANGED <<api, life, mutex, pc, on, memory>>

Close(o) ==
    /\ api[o] = "cpp" /\ life[o] = "made" /\ handle[o] # Closed
    /\ owner' = ClosedFd(handle[o])
    /\ handle' = [handle EXCEPT ![o] = Closed]
    /\ misused' = (misused \/ InCall(o) \/ named[o] # {})
    /\ UNCHANGED <<api, life, mutex, pc, on, memory>>

\* pd_open takes a new descriptor whatever the structure held, and makes the
\* lock anew.
PdOpen(o) ==
    /\ api[o] = "c"
    /\ \E f \in Fds :
          /\ Lowest(f)
          /\ handle' = [handle EXCEPT ![o] = f]
          /\ owner' = [owner EXCEPT ![f] = o]
    /\ mutex' = [mutex EXCEPT ![o] = {}]
    /\ misused' = (misused \/ InCall(o) \/ life[o] = "made")
    /\ life' = [life EXCEPT ![o] = "made"]
    /\ UNCHANGED <<api, pc, on, memory>>

\* pd_close closes the number in the structure, and leaves it there.
PdClose(o) ==
    /\ api[o] = "c" /\ life[o] # "none"
    /\ owner' = ClosedFd(handle[o])
    /\ mutex' = [mutex EXCEPT ![o] = {}]
    /\ misused' = (misused \/ InCall(o) \/ named[o] # {} \/ life[o] = "gone")
    /\ life' = [life EXCEPT ![o] = "gone"]
    /\ UNCHANGED <<api, handle, pc, on, memory>>

\* The program opens and closes other files (external).
OpenOther(f) ==
    /\ Lowest(f)
    /\ owner' = [owner EXCEPT ![f] = Other]
    /\ UNCHANGED <<objects, mutex, pc, on, memory, misused>>

CloseOther(f) ==
    /\ owner[f] = Other
    /\ owner' = [owner EXCEPT ![f] = Free]
    /\ UNCHANGED <<objects, mutex, pc, on, memory, misused>>

-----------------------------------------------------------------------------
\* A call begins: the C++ calls test the handle, the C calls trust it.
Usable(o) ==
    CASE api[o] = "cpp" -> life[o] = "made" /\ handle[o] # Closed
      [] api[o] = "c" -> life[o] # "none"

Begin(t, o, step) ==
    /\ pc[t] = "idle" /\ Usable(o)
    /\ pc' = [pc EXCEPT ![t] = step]
    /\ on' = [on EXCEPT ![t] = o]
    /\ misused' = (misused \/ life[o] = "gone")
    /\ UNCHANGED <<objects, owner, mutex, memory>>

\* An ioctl on the object's descriptor reaches whoever has it now.
Reached(o) == IF handle[o] = Closed THEN Free ELSE owner[handle[o]]

Succeeds(o) == Reached(o) \in Objects

Step(t, step) ==
    /\ pc' = [pc EXCEPT ![t] = step]
    /\ on' = IF step = "idle" THEN [on EXCEPT ![t] = NoObject] ELSE on

\* One ioctl: waitForInterrupt, clearInterruptQueue, the information calls,
\* the syncs and unmapBAR.
Ioctl(t) ==
    /\ pc[t] = "ioctl"
    /\ Step(t, "idle")
    /\ UNCHANGED <<objects, owner, mutex, memory, misused>>

Lock(t, from, to) ==
    /\ pc[t] = from /\ mutex[on[t]] = {}
    /\ mutex' = [mutex EXCEPT ![on[t]] = {t}]
    /\ Step(t, to)
    /\ UNCHANGED <<objects, owner, memory, misused>>

Unlocked(t) == mutex' = [mutex EXCEPT ![on[t]] = @ \ {t}]

\* mapBAR: information, lock, two ioctls, mmap, unlock.  When an ioctl fails
\* under the lock the call is over and the lock stays.
MapBarInfo(t) ==
    /\ pc[t] = "bar"
    /\ Step(t, IF Succeeds(on[t]) THEN "barlock" ELSE "idle")
    /\ UNCHANGED <<objects, owner, mutex, memory, misused>>

MapBarMode(t) ==
    /\ pc[t] = "barmode"
    /\ Step(t, IF Succeeds(on[t]) THEN "barmap" ELSE "idle")
    /\ UNCHANGED <<objects, owner, mutex, memory, misused>>

MapBarMap(t) ==
    /\ pc[t] = "barmap"
    /\ Unlocked(t)
    /\ Step(t, "idle")
    /\ UNCHANGED <<objects, owner, memory, misused>>

MapBar(t) ==
    MapBarInfo(t) \/ Lock(t, "barlock", "barmode") \/ MapBarMode(t) \/ MapBarMap(t)

\* Kernel memory: allocate, lock, mode and mmap, unlock; a failure under the
\* lock unlocks and frees.
Kept(o, m) == entries' = [entries EXCEPT ![o] = @ \cup m]
Dropped(o, m) == entries' = [entries EXCEPT ![o] = @ \ m]

AllocEntry(t) ==
    LET o == on[t]
    IN  /\ pc[t] = "alloc"
        /\ \/ Succeeds(o) /\ Kept(Reached(o), {"kernel"}) /\ Step(t, "alloclock")
           \/ Step(t, "idle") /\ UNCHANGED entries
        /\ UNCHANGED <<objects, owner, mutex, named, misused>>

\* NoUnlock is a mutation variant: the error label without its unlock.
NoUnlock(t) ==
    LET o == on[t]
    IN  /\ pc[t] = "allocmap"
        /\ IF Succeeds(o) THEN Dropped(Reached(o), {"kernel"}) ELSE UNCHANGED entries
        /\ Step(t, "idle")
        /\ UNCHANGED <<objects, owner, mutex, named, misused>>

AllocFails(t) ==
    LET o == on[t]
    IN  /\ pc[t] = "allocmap"
        /\ Unlocked(t)
        /\ IF Succeeds(o) THEN Dropped(Reached(o), {"kernel"}) ELSE UNCHANGED entries
        /\ Step(t, "idle")
        /\ UNCHANGED <<objects, owner, named, misused>>

AllocMapped(t) ==
    LET o == on[t]
    IN  /\ pc[t] = "allocmap" /\ Succeeds(o)
        /\ Unlocked(t)
        /\ named' = [named EXCEPT ![o] = @ \cup {"kernel"}]
        /\ Step(t, "idle")
        /\ UNCHANGED <<objects, owner, entries, misused>>

AllocKernel(t) ==
    AllocEntry(t) \/ Lock(t, "alloclock", "allocmap") \/ AllocFails(t) \/ AllocMapped(t)

\* User memory: two ioctls, and the first is undone when the second fails.
MapUser(t) ==
    LET o == on[t]
    IN  /\ pc[t] = "user"
        /\ \/ /\ Succeeds(o) /\ Kept(Reached(o), {"user"})
              /\ named' = [named EXCEPT ![o] = @ \cup {"user"}]
           \/ UNCHANGED memory
        /\ Step(t, "idle")
        /\ UNCHANGED <<objects, owner, mutex, misused>>

\* Freeing either: the handle is no good afterwards, whatever the ioctl says.
Release(t, step, m) ==
    LET o == on[t]
    IN  /\ pc[t] = step
        /\ IF Succeeds(o) THEN Dropped(Reached(o), {m}) ELSE UNCHANGED entries
        /\ named' = [named EXCEPT ![o] = @ \ {m}]
        /\ Step(t, "idle")
        /\ UNCHANGED <<objects, owner, mutex, misused>>

FreeKernel(t) == Release(t, "freekernel", "kernel")
UnmapUser(t) == Release(t, "freeuser", "user")

-----------------------------------------------------------------------------
\* The program has one handle of each kind for an object: only one thread at a
\* time makes or frees it.
Making == {"alloc", "alloclock", "allocmap", "user", "freekernel", "freeuser"}

BeginMemory(t, o, step) ==
    /\ \A u \in Threads : on[u] = o => pc[u] \notin Making
    /\ CASE step = "alloc" -> "kernel" \notin named[o]
         [] step = "user" -> "user" \notin named[o]
         [] step = "freekernel" -> "kernel" \in named[o]
         [] step = "freeuser" -> "user" \in named[o]
    /\ Begin(t, o, step)

Calls(t, o) ==
    \/ Begin(t, o, "ioctl") \/ Begin(t, o, "bar")
    \/ \E step \in {"alloc", "user", "freekernel", "freeuser"} : BeginMemory(t, o, step)

Steps(t) ==
    \/ Ioctl(t)
    \/ MapBar(t) \/ AllocKernel(t)
    \/ MapUser(t) \/ FreeKernel(t) \/ UnmapUser(t)

\* Misuse ends the behaviour.
Next ==
    /\ ~misused
    /\ \/ \E o \in Objects :
             \/ Construct(o) \/ Destroy(o) \/ Open(o) \/ Close(o)
             \/ PdOpen(o) \/ PdClose(o)
             \/ \E t \in Threads : Calls(t, o)
       \/ \E t \in Threads : Steps(t)
       \/ \E f \in Fds : OpenOther(f) \/ CloseOther(f)

Spec == Init /\ [][Next]_vars

-----------------------------------------------------------------------------
TypeOK ==
    /\ api \in [Objects -> {"c", "cpp"}]
    /\ life \in [Objects -> {"none", "made", "gone"}]
    /\ handle \in [Objects -> Fds \cup {Closed}]
    /\ owner \in [Fds -> Objects \cup {Other, Free}]
    /\ mutex \in [Objects -> SUBSET Threads]
    /\ on \in [Threads -> Objects \cup {NoObject}]
    /\ entries \in [Objects -> SUBSET {"kernel", "user"}]
    /\ named \in [Objects -> SUBSET {"kernel", "user"}]
    /\ misused \in BOOLEAN

\* Every descriptor the library opened is the one of a live object, so that
\* each call reaches the board it is for, and what the driver keeps is what
\* the program has handles for; descriptor 0 alone outlives a C++ object
\* (PciDevice.cpp:56-141, pciDriver_Capi.c:44-230).
HandlesExact ==
    ~misused =>
        \A o \in Objects :
            /\ \A f \in Fds :
                  owner[f] = o <=> handle[o] = f /\ (life[o] = "made" \/ (f = 0 /\ api[o] = "cpp"))
            /\ ~InCall(o) => entries[o] = named[o]

\* The lock is free when no thread is in a call that takes it, whichever of the
\* calls under it failed (PciDevice.cpp:284-297, pciDriver_Capi.c:116-139).
LockReturned ==
    ~misused =>
        \A o \in Objects, t \in Threads :
            t \in mutex[o] => on[t] = o /\ pc[t] \in {"barmode", "barmap", "allocmap"}

-----------------------------------------------------------------------------
\* The inductive invariant.  A thread's call is on an object, whose descriptor
\* it may use.
InPlace(t) ==
    /\ on[t] = NoObject <=> pc[t] = "idle"
    /\ on[t] # NoObject => life[on[t]] = "made" /\ handle[on[t]] # Closed

\* What an object has of a descriptor, and of memory: a buffer on its way has
\* an entry in the driver and no handle yet.
Described(o) ==
    /\ life[o] = "made" /\ api[o] = "c" => handle[o] # Closed
    /\ life[o] = "none" => handle[o] = Closed
    /\ \A f \in Fds :
          owner[f] = o <=> handle[o] = f /\ (life[o] = "made" \/ (f = 0 /\ api[o] = "cpp"))

Coming(o) == {t \in Threads : on[t] = o /\ pc[t] \in {"alloclock", "allocmap"}}

Accounted(o) ==
    /\ entries[o] = named[o] \cup (IF Coming(o) = {} THEN {} ELSE {"kernel"})
    /\ \A t \in Threads :
          on[t] = o /\ pc[t] \in {"alloc", "alloclock", "allocmap"} => "kernel" \notin named[o]

\* One thread at a time makes or frees an object's memory.
OneMaker ==
    \A t, u \in Threads :
        on[t] # NoObject /\ on[t] = on[u] /\ pc[t] \in Making /\ pc[u] \in Making => t = u

Positions == Making \cup {"idle", "ioctl", "bar", "barlock", "barmode", "barmap"}

IInv ==
    /\ TypeOK /\ pc \in [Threads -> Positions]
    /\ ~misused =>
          /\ \A t \in Threads : InPlace(t)
          /\ \A o \in Objects : Described(o) /\ Accounted(o)
          /\ OneMaker /\ LockReturned
=============================================================================
