--------------------------- MODULE CompatRegistry ---------------------------
(***************************************************************************)
(* The compatibility classes (pciDriver_compat.cpp): PciDevice objects     *)
(* that enter the library's device under its number in a registry, and     *)
(* KMem and MemoryPageList objects that find a device there by number and  *)
(* keep a reference to it.                                                 *)
(*                                                                         *)
(* Nothing ties the three together: the registry has one entry a number,   *)
(* whoever opens it, and a device is deleted whoever refers to it.         *)
(***************************************************************************)
EXTENDS Naturals, FiniteSets

CONSTANTS
    Objects,        \* PciDevice objects
    KMems, Lists,   \* KMem and MemoryPageList objects
    Numbers,        \* numbers of devices
    Bars,           \* BARs asked for
    MaxDevices      \* bound: devices of the library ever made

None == 0
Devices == 1 .. MaxDevices
Holders == KMems \cup Lists

VARIABLES
    device,     \* each device of the library: unmade, unopened, open or deleted
    numberOf,   \* its number
    dev, dev_number,    \* each PciDevice object: its device and number
    bar,        \* the device each of its BARs was mapped from
    registry,   \* devices by number
    held,       \* the device each holder refers to
    left,       \* buffers nobody can free any more
    careless    \* history: an object was opened, or a buffer allocated, over
                \* one it had, a device was closed under a buffer, or asked
                \* for before it was open

library == <<device, numberOf>>
objects == <<dev, dev_number, bar>>
buffers == <<held, left>>
vars == <<library, objects, registry, buffers, careless>>

Init ==
    /\ device = [i \in Devices |-> "unmade"]
    /\ numberOf \in {[i \in Devices |-> n] : n \in Numbers}
    /\ dev = [o \in Objects |-> None]
    /\ dev_number \in {[o \in Objects |-> n] : n \in Numbers}
    /\ bar = [o \in Objects |-> [b \in Bars |-> None]]
    /\ registry = [n \in Numbers |-> None]
    /\ held = [h \in Holders |-> None]
    /\ left = FALSE
    /\ careless = FALSE

Fresh(i) == device[i] = "unmade" /\ \A j \in Devices : device[j] = "unmade" => i <= j

-----------------------------------------------------------------------------
\* PciDeviceEnumerator.
GetDevice(n) == registry[n]

RegisterDevice(n, i) == registry' = [registry EXCEPT ![n] = i]

Unregistered(n) == [registry EXCEPT ![n] = None]

\* PciDevice::Open makes a device, enters it, and then opens it.  The handler
\* expects a pointer, and what is thrown is an object: a failure passes
\* through and leaves the device made and entered.
Open(o, n) ==
    /\ \E i \in Devices :
          /\ Fresh(i)
          /\ \E result \in {"open", "unopened"} : device' = [device EXCEPT ![i] = result]
          /\ numberOf' = [numberOf EXCEPT ![i] = n]
          /\ dev' = [dev EXCEPT ![o] = i]
          /\ dev_number' = [dev_number EXCEPT ![o] = n]
          /\ RegisterDevice(n, i)
    /\ careless' = (careless \/ dev[o] # None)
    /\ UNCHANGED <<bar, buffers>>

\* Close unmaps the BARs, deletes the device and clears the entry of the
\* number, whatever device it holds by now.  With a BAR left from another
\* device and its own not open it throws before it has done anything.
Close(o) ==
    /\ dev[o] # None
    /\ device[dev[o]] = "open" \/ \A b \in Bars : bar[o][b] = None
    /\ device' = [device EXCEPT ![dev[o]] = "deleted"]
    /\ dev' = [dev EXCEPT ![o] = None]
    /\ bar' = [bar EXCEPT ![o] = [b \in Bars |-> None]]
    /\ registry' = Unregistered(dev_number[o])
    /\ careless' = (careless \/ \E h \in Holders : held[h] = dev[o])
    /\ UNCHANGED <<numberOf, dev_number, buffers>>

\* GetBarAccess maps a BAR once, and answers 0 when it cannot.
GetBarAccess(o, b) ==
    /\ dev[o] # None
    /\ IF bar[o][b] = None /\ device[dev[o]] = "open"
       THEN \/ bar' = [bar EXCEPT ![o][b] = dev[o]]
            \/ UNCHANGED bar
       ELSE UNCHANGED bar
    /\ UNCHANGED <<library, dev, dev_number, registry, buffers, careless>>

-----------------------------------------------------------------------------
\* Buffers take the device of a number from the registry: the program asks
\* only for one that is there.
Allocate(h, n) ==
    LET i == GetDevice(n)
    IN  /\ i # None
        /\ IF device[i] = "open"
           THEN \/ /\ held' = [held EXCEPT ![h] = i]
                   /\ left' = (left \/ held[h] # None)
                \/ UNCHANGED buffers
           ELSE UNCHANGED buffers
        /\ careless' = (careless \/ held[h] # None \/ device[i] # "open")
        /\ UNCHANGED <<library, objects, registry>>

\* Giving back, by a call or by the destructor.
Release(h) ==
    /\ held[h] # None /\ device[held[h]] = "open"
    /\ held' = [held EXCEPT ![h] = None]
    /\ UNCHANGED <<library, objects, registry, left, careless>>

Alloc(h, n) == h \in KMems /\ Allocate(h, n)
LockBuffer(h, n) == h \in Lists /\ Allocate(h, n)
Free(h) == h \in KMems /\ Release(h)
UnlockBuffer(h) == h \in Lists /\ Release(h)

Next ==
    \/ \E o \in Objects :
          \/ \E n \in Numbers : Open(o, n)
          \/ Close(o)
          \/ \E b \in Bars : GetBarAccess(o, b)
    \/ \E h \in Holders :
          \/ \E n \in Numbers : Alloc(h, n) \/ LockBuffer(h, n)
          \/ Free(h) \/ UnlockBuffer(h)

Spec == Init /\ [][Next]_vars

-----------------------------------------------------------------------------
TypeOK ==
    /\ device \in [Devices -> {"unmade", "unopened", "open", "deleted"}]
    /\ numberOf \in [Devices -> Numbers]
    /\ dev \in [Objects -> Devices \cup {None}]
    /\ dev_number \in [Objects -> Numbers]
    /\ bar \in [Objects -> [Bars -> Devices \cup {None}]]
    /\ registry \in [Numbers -> Devices \cup {None}]
    /\ held \in [Holders -> Devices \cup {None}]

\* The parts of RegistryTrue.
EntriesExist ==
    \A n \in Numbers :
        registry[n] # None =>
            device[registry[n]] \in {"open", "unopened"} /\ numberOf[registry[n]] = n

DeviceFound ==
    \A o \in Objects :
        /\ dev[o] # None
        /\ \A i \in Devices : numberOf[i] = dev_number[o] /\ i # dev[o] => device[i] = "unmade"
        => registry[dev_number[o]] = dev[o]

NothingOrphaned ==
    /\ ~left
    /\ \A h \in Holders : held[h] # None => device[held[h]] = "open"
    /\ \A o \in Objects, b \in Bars : bar[o][b] \in {None, dev[o]}

\* An entry of the registry is a device of that number that still exists,
\* however opens, closes and failures follow on each other; the device of an
\* object that shares its number with no other is found under it; and as long
\* as the program is careful, each buffer and each BAR belongs to a device
\* that is open (pciDriver_compat.cpp:28-76, 102-125, 175-194, 275-329).
RegistryTrue == EntriesExist /\ DeviceFound /\ (~careless => NothingOrphaned)

-----------------------------------------------------------------------------
\* The inductive invariant: an object's device exists, has the object's number
\* and is no other's.
Linked ==
    \A o \in Objects :
        dev[o] # None =>
            /\ device[dev[o]] \in {"open", "unopened"}
            /\ numberOf[dev[o]] = dev_number[o]
            /\ \A p \in Objects : dev[p] = dev[o] => p = o

IInv == TypeOK /\ left \in BOOLEAN /\ careless \in BOOLEAN /\ Linked /\ RegistryTrue
=============================================================================
