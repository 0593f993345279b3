----------------------------- MODULE ConfigSpace -----------------------------
(***************************************************************************)
(* Access to a board's PCI configuration space and what the driver knows   *)
(* of the board: the ioctls (ioctl.c), and the calls of the library's C++, *)
(* C and compatibility interfaces that end in them (PciDevice.cpp,         *)
(* pciDriver_Capi.c, pciDriver_compat.cpp).                                *)
(*                                                                         *)
(* A value travels in the union val of pci_cfg_cmd, four cells that the    *)
(* caller, the ioctl and the kernel fill and read at the width of one of   *)
(* its members.  The kernel (external) refuses an access that is not       *)
(* aligned; the ioctl drops the refusal and returns 0.  A byte is one of   *)
(* two, a value the bytes that alternate from its first one on, and Junk   *)
(* is a byte nobody gave.                                                  *)
(***************************************************************************)
EXTENDS Naturals, Sequences

CONSTANTS
    Space,      \* bytes of the configuration space
    ReadOnly    \* bytes the board does not let anybody write

Sizes == {1, 2, 4}
Addresses == 0 .. Space - 1
Bits == {0, 1}
Junk == 2

VARIABLES
    handle,         \* what the program has: open, closed or null
    config,         \* the configuration space
    want,           \* each of its bytes as it was last written, or found
    got, wanted,    \* the bytes of the last answer, and those the program asked for
    how,            \* the last call: an access, one that was refused, the
                    \* identity, or another call
    told            \* what it told the program of its end

space == <<config, want>>
answer == <<got, wanted, how, told>>
vars == <<handle, space, answer>>

Init ==
    /\ handle = "closed"
    /\ config \in [Addresses -> Bits] /\ want = config
    /\ got = <<>> /\ wanted = <<>> /\ how = "other"
    /\ told = "ok"

\* A call that neither changes the space nor answers with bytes of it.
Other(t) ==
    /\ got' = <<>> /\ wanted' = <<>> /\ how' = "other" /\ told' = t
    /\ UNCHANGED space

Open == handle' = "open" /\ Other("ok")
Close == handle' = "closed" /\ Other("ok")

\* A C program may pass no device at all.
Null == handle' = "null" /\ Other("ok")

-----------------------------------------------------------------------------
Aligned(addr, size) == addr % size = 0 /\ addr + size <= Space

\* The cells of a union nobody wrote to.
Fresh == [i \in 0 .. 3 |-> Junk]

\* ioctl_pci_config_read_write: the member a size stands for.  WordAsByte is a
\* mutation variant: the case of the words without its own call.
WordAsByte(size) == IF size = 2 THEN 0 .. 0 ELSE 0 .. size - 1

Cells(size) == 0 .. size - 1

DriverRead(addr, size) ==
    [i \in 0 .. 3 |->
        IF Aligned(addr, size) /\ i \in Cells(size) THEN config[addr + i] ELSE Fresh[i]]

DriverWrite(addr, val, size) ==
    config' = [a \in Addresses |->
        IF Aligned(addr, size) /\ a \notin ReadOnly /\ a >= addr /\ (a - addr) \in Cells(size)
        THEN val[a - addr] ELSE config[a]]

\* A program's value, in the cells of its size.
Value(v, size) == [i \in 0 .. 3 |-> IF i < size THEN (v + i) % 2 ELSE Junk]

\* The bytes a program means that names an address and a size.
Named(addr, size) ==
    [i \in 1 .. size |-> IF addr + i <= Space THEN want[addr + i - 1] ELSE Junk]

\* A read takes from the union what its type holds, whatever the ioctl did.
Read(addr, size) ==
    /\ handle = "open"
    /\ got' = [i \in 1 .. size |-> DriverRead(addr, size)[i - 1]]
    /\ wanted' = Named(addr, size)
    /\ how' = IF Aligned(addr, size) THEN "access" ELSE "refused"
    /\ told' = "ok"

\* A write that the kernel takes leaves its bytes where the board lets it.
Write(addr, v, size) ==
    /\ handle = "open"
    /\ DriverWrite(addr, Value(v, size), size)
    /\ want' = [a \in Addresses |->
          CASE ~Aligned(addr, size) \/ a \in ReadOnly -> want[a]
            [] Aligned(addr, size) /\ a \notin ReadOnly ->
                 IF addr <= a /\ a < addr + size
                 THEN (v + a - addr) % 2 ELSE want[a]]
    /\ got' = <<>> /\ wanted' = <<>>
    /\ how' = IF Aligned(addr, size) THEN "access" ELSE "refused"
    /\ told' = "ok"
    /\ UNCHANGED handle

\* The three reads and the three writes of each interface.  None looks at the
\* result of the ioctl: a write that failed is told as one that succeeded, a
\* read that failed gives what was in the variable.  The C++ ones look at the
\* handle, the C ones at the pointer.  The compatibility class hands on to the
\* C++ ones, and has no object for that while it is closed.
NotOpen == handle = "closed" /\ Other("NOT_OPEN") /\ UNCHANGED handle

PciDeviceRead(addr, size) ==
    \/ Read(addr, size) /\ UNCHANGED <<handle, space>>
    \/ NotOpen

\* Closed, the ioctl fails and the union is as it was; without a device every
\* byte is set.
PdRead(addr, size) ==
    \/ Read(addr, size) /\ UNCHANGED <<handle, space>>
    \/ /\ handle # "open"
       /\ got' = [i \in 1 .. size |-> IF handle = "null" THEN 1 ELSE Junk]
       /\ wanted' = <<>> /\ how' = "other" /\ told' = "ok"
       /\ UNCHANGED <<handle, space>>

CompatRead(addr, size) == Read(addr, size) /\ UNCHANGED <<handle, space>>

PciDeviceWrite(addr, v, size) ==
    Write(addr, v, size) \/ NotOpen

PdWrite(addr, v, size) ==
    \/ Write(addr, v, size)
    \/ /\ handle # "open"
       /\ Other(IF handle = "null" THEN "failed" ELSE "ok")
       /\ UNCHANGED handle

CompatWrite(addr, v, size) == Write(addr, v, size)

-----------------------------------------------------------------------------
\* ioctl_pci_info and the calls for one item of it.

\* PciDevice::getBus and getSlot, also for the compatibility class.
GetPlace == (handle = "open" /\ Other("ok") /\ UNCHANGED handle) \/ NotOpen

\* pd_getID joins vendor and device with ||.  The vendor is in the first two
\* bytes of the space and belongs in the upper half of the answer.
PdGetID ==
    \/ /\ handle = "open"
       /\ got' = <<IF \E i \in 0 .. 3 : config[i] = 1 THEN 1 ELSE 0, 0, 0, 0>>
       /\ wanted' = <<want[2], want[3], want[0], want[1]>>
       /\ how' = "identity" /\ told' = "ok"
       /\ UNCHANGED <<handle, space>>
    \/ handle # "open" /\ Other("failed") /\ UNCHANGED handle

\* GetVendorId and GetDeviceId read the two words of the identity.
CompatGetId == CompatRead(0, 2) \/ CompatRead(2, 2)

\* A BAR beyond the sixth is refused; the length of another is one the driver
\* keeps.
GetBARsize(bar) ==
    \/ /\ handle = "open"
       /\ Other(IF bar > 5 THEN "INVALID_BAR" ELSE "ok")
       /\ UNCHANGED handle
    \/ NotOpen

PdGetBARsize(bar) ==
    /\ Other(IF handle = "open" /\ bar <= 5 THEN "ok" ELSE "failed")
    /\ UNCHANGED handle

Next ==
    \/ Open \/ Close \/ Null
    \/ \E addr \in Addresses, size \in Sizes :
          \/ PciDeviceRead(addr, size) \/ PdRead(addr, size) \/ CompatRead(addr, size)
          \/ \E v \in Bits :
                \/ PciDeviceWrite(addr, v, size) \/ PdWrite(addr, v, size)
                \/ CompatWrite(addr, v, size)
    \/ GetPlace \/ PdGetID \/ CompatGetId
    \/ \E bar \in {0, 6} : GetBARsize(bar) \/ PdGetBARsize(bar)

Spec == Init /\ [][Next]_vars

-----------------------------------------------------------------------------
TypeOK ==
    /\ handle \in {"open", "closed", "null"}
    /\ config \in [Addresses -> Bits] /\ want \in [Addresses -> Bits]
    /\ how \in {"access", "refused", "identity", "other"}
    /\ told \in {"ok", "failed", "NOT_OPEN", "INVALID_BAR"}

\* Each byte of the space is the one last written to it, through whichever
\* interface and at whatever width, by a write of the right alignment, and a
\* read of the right alignment answers with just these bytes; accesses that are
\* not aligned leave the space alone (ioctl.c:94-133, PciDevice.cpp:346-431,
\* pciDriver_Capi.c:436-528).
ConfigTrue == config = want /\ (how = "access" => got = wanted)

\* Every read that is told as a success answers with the bytes it names: the
\* manual (doc/manual.html:464) knows no other.
ReadsGiven == how \in {"access", "refused"} => got = wanted

\* pd_getID answers with vendor and device (doc/manual.html:440).
IdGiven == how = "identity" => got = wanted

\* Inductive with the types.
IInv == TypeOK /\ ConfigTrue
=============================================================================
