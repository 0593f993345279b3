--------------------------- MODULE DeviceLifecycle ---------------------------
(***************************************************************************)
(* Loading the opencores driver, probing and removing boards, and the      *)
(* processes and interrupts that use a board meanwhile (base.c, int.c).    *)
(*                                                                         *)
(* pcidriver_probe acquires one thing after the other and undoes them with *)
(* a chain of gotos; pcidriver_remove undoes a complete probe.  Boards are *)
(* told apart by deviceCount, which gives each its minor number.           *)
(*                                                                         *)
(* The kernel is external: it probes boards one at a time while the driver *)
(* is registered, calls remove for a board whose probe returned 0, when    *)
(* the driver is unregistered or the board is unplugged, unloads the       *)
(* module only when no file is open (fops.owner), and lets nobody open a   *)
(* file while it does.                                                     *)
(***************************************************************************)
EXTENDS Naturals, FiniteSets

CONSTANTS
    Boards,         \* boards in the machine
    MaxDevices,     \* MAXDEVICES
    Failing,        \* steps that may fail
    MaxOpens,       \* bound: open files of a board
    MaxBuffers,     \* bound: kernel buffers of a board
    MaxCount        \* bound: probes begin while the count is below it

ASSUME BoardsAssumption == IsFiniteSet(Boards)
ASSUME FailingAssumption ==
    Failing \subseteq {"chrdev", "class", "register", "privdata", "request",
                       "remap", "files", "cdev"}
ASSUME BoundsAssumption ==
    /\ MaxDevices \in Nat /\ MaxCount \in Nat
    /\ MaxOpens \in Nat /\ MaxBuffers \in Nat

VARIABLES
    module,     \* unloaded, loaded or exiting
    registered, \* the PCI driver is registered
    chrdev,     \* the character device region is allocated
    deviceCount,
    pc, err,    \* probe or remove of each board: position, error code
    minor,      \* devno of each board
    enabled,    \* the board is enabled
    privdata,   \* none, live or freed
    classdev,   \* the class device exists
    region,     \* the BAR is requested
    kmapped,    \* the BAR is mapped: bars_kmapped is not NULL
    irq,        \* the interrupt handler is registered
    files,      \* the board has sysfs files
    node,       \* its character device exists
    opens,      \* open files
    kmem,       \* kernel buffers
    mishaps     \* history: "bars" or "late" (the files or the device) for a
                \* board with a failed step whose error path leaves something
                \* behind, "pulled" for one removed in use or opened while
                \* it was removed

driver == <<module, registered, chrdev>>
held == <<minor, enabled, privdata, classdev, region, kmapped, irq, files, node>>
usage == <<opens, kmem>>
vars == <<driver, deviceCount, pc, err, held, usage, mishaps>>

Positions == {"unbound", "count", "alloc", "bars", "irq", "files", "cdev",
              "fail", "nomem", "disable", "bound", "rmirq", "rmnode", "rmfree"}

Init ==
    /\ module = "unloaded" /\ registered = FALSE /\ chrdev = FALSE
    /\ deviceCount = 0
    /\ pc = [b \in Boards |-> "unbound"]
    /\ err = [b \in Boards |-> 0]
    /\ minor = [b \in Boards |-> 0]
    /\ privdata = [b \in Boards |-> "none"]
    /\ enabled = [b \in Boards |-> FALSE]
    /\ classdev = [b \in Boards |-> FALSE]
    /\ region = [b \in Boards |-> FALSE]
    /\ kmapped = [b \in Boards |-> FALSE]
    /\ irq = [b \in Boards |-> FALSE]
    /\ files = [b \in Boards |-> FALSE]
    /\ node = [b \in Boards |-> FALSE]
    /\ opens = [b \in Boards |-> 0]
    /\ kmem = [b \in Boards |-> 0]
    /\ mishaps = {}

Set(f, b, v) == [f EXCEPT ![b] = v]
Goto(b, from, to) == pc[b] = from /\ pc' = Set(pc, b, to)
Busy == {b \in Boards : pc[b] \notin {"unbound", "bound"}}

-----------------------------------------------------------------------------
\* pcidriver_init.  When the class cannot be created the region is given
\* back, but err is still 0 and the module counts as loaded.
Load ==
    /\ module = "unloaded"
    /\ deviceCount' = 0
    /\ \/ module' = "loaded" /\ chrdev' = TRUE /\ registered' = TRUE
       \/ /\ Failing \cap {"chrdev", "register"} # {}
          /\ UNCHANGED driver
       \/ /\ "class" \in Failing
          /\ module' = "loaded"
          /\ UNCHANGED <<chrdev, registered>>
    /\ UNCHANGED <<pc, err, held, usage, mishaps>>

\* pcidriver_exit: pci_unregister_driver removes the boards, then the region
\* is given back.
Exit ==
    /\ module = "loaded"
    /\ \A b \in Boards : opens[b] = 0
    /\ Busy = {}
    /\ module' = "exiting"
    /\ registered' = FALSE
    /\ UNCHANGED <<chrdev, deviceCount, pc, err, held, usage, mishaps>>

ExitDone ==
    /\ module = "exiting"
    /\ \A b \in Boards : pc[b] = "unbound"
    /\ module' = "unloaded"
    /\ chrdev' = FALSE
    /\ UNCHANGED <<registered, deviceCount, pc, err, held, usage, mishaps>>

-----------------------------------------------------------------------------
\* Mutation variants: the id is returned as the error code; one board too many
\* gets an id; the handler or the buffers stay.
CountReturnsId(b) ==
    /\ Goto(b, "count", IF deviceCount >= MaxDevices THEN "disable" ELSE "alloc")
    /\ deviceCount' = deviceCount + 1
    /\ minor' = Set(minor, b, deviceCount)
    /\ err' = Set(err, b, IF deviceCount >= MaxDevices THEN deviceCount ELSE 0)
    /\ UNCHANGED <<driver, enabled, privdata, classdev, region, kmapped, irq, files, node, usage, mishaps>>

CountOneTooMany(b) ==
    /\ Goto(b, "count", IF deviceCount > MaxDevices THEN "disable" ELSE "alloc")
    /\ deviceCount' = deviceCount + 1
    /\ minor' = Set(minor, b, deviceCount)
    /\ err' = Set(err, b, IF deviceCount > MaxDevices THEN 1 ELSE 0)
    /\ UNCHANGED <<driver, enabled, privdata, classdev, region, kmapped, irq, files, node, usage, mishaps>>

RemoveIrqForgets(b) ==
    /\ Goto(b, "rmirq", "rmnode")
    /\ region' = Set(region, b, region[b] /\ ~kmapped[b])
    /\ kmapped' = Set(kmapped, b, FALSE)
    /\ UNCHANGED <<driver, deviceCount, err, minor, enabled, privdata, classdev, irq, files, node, usage, mishaps>>

RemoveKeepsBuffers(b) ==
    /\ Goto(b, "bound", "rmirq")
    /\ files' = Set(files, b, FALSE)
    /\ UNCHANGED <<driver, deviceCount, err, minor, enabled, privdata, classdev, region, kmapped, irq, node, usage, mishaps>>

-----------------------------------------------------------------------------
\* pcidriver_probe.  pci_enable_device; if that fails nothing happens.
Probe(b) ==
    /\ registered
    /\ Busy = {}
    /\ deviceCount < MaxCount
    /\ Goto(b, "unbound", "count")
    /\ enabled' = Set(enabled, b, TRUE)
    /\ UNCHANGED <<driver, deviceCount, err, minor, privdata, classdev, region, kmapped, irq, files, node, usage, mishaps>>

\* The device id; a board too many is refused, and stays counted.
Count(b) ==
    /\ Goto(b, "count", IF deviceCount >= MaxDevices THEN "disable" ELSE "alloc")
    /\ deviceCount' = deviceCount + 1
    /\ minor' = Set(minor, b, deviceCount)
    /\ err' = Set(err, b, IF deviceCount >= MaxDevices THEN 1 ELSE 0)
    /\ UNCHANGED <<driver, enabled, privdata, classdev, region, kmapped, irq, files, node, usage, mishaps>>

\* The private data and the class device, which the error path leaves.
AllocPrivdata(b) ==
    /\ \/ /\ Goto(b, "alloc", "bars")
          /\ privdata' = Set(privdata, b, "live")
          /\ kmem' = Set(kmem, b, 0)
          /\ classdev' = Set(classdev, b, TRUE)
          /\ UNCHANGED err
       \/ /\ "privdata" \in Failing
          /\ Goto(b, "alloc", "nomem")
          /\ err' = Set(err, b, 1)
          /\ UNCHANGED <<privdata, classdev, kmem>>
    /\ UNCHANGED <<driver, deviceCount, minor, enabled, region, kmapped, irq, files, node, opens, mishaps>>

\* pcidriver_probe_irq: the BAR is requested and mapped...
MapBars(b) ==
    /\ \/ /\ Goto(b, "bars", "irq")
          /\ region' = Set(region, b, TRUE)
          /\ kmapped' = Set(kmapped, b, TRUE)
          /\ UNCHANGED <<err, mishaps>>
       \/ /\ Failing \cap {"request", "remap"} # {}
          /\ Goto(b, "bars", "fail")
          /\ err' = Set(err, b, 1)
          /\ \E f \in Failing \cap {"request", "remap"} :
                /\ region' = Set(region, b, f = "remap")
                /\ mishaps' = mishaps \cup {<<b, "bars">>}
          /\ UNCHANGED kmapped
    /\ UNCHANGED <<driver, deviceCount, minor, enabled, privdata, classdev, irq, files, node, usage>>

\* ... and the handler registered; without an interrupt the board works on.
RequestIrq(b) ==
    /\ Goto(b, "irq", "files")
    /\ \E ok \in BOOLEAN : irq' = Set(irq, b, ok)
    /\ UNCHANGED <<driver, deviceCount, err, minor, enabled, privdata, classdev, region, kmapped, files, node, usage, mishaps>>

\* The sysfs files; after a failure err is still 0.
CreateFiles(b) ==
    /\ \/ /\ Goto(b, "files", "cdev")
          /\ files' = Set(files, b, TRUE)
          /\ UNCHANGED mishaps
       \/ /\ "files" \in Failing
          /\ Goto(b, "files", "fail")
          /\ mishaps' = mishaps \cup {<<b, "late">>}
          /\ \E some \in BOOLEAN : files' = Set(files, b, some)
    /\ UNCHANGED <<driver, deviceCount, err, minor, enabled, privdata, classdev, region, kmapped, irq, node, usage>>

AddCdev(b) ==
    /\ \/ /\ Goto(b, "cdev", "bound")
          /\ node' = Set(node, b, TRUE)
          /\ UNCHANGED <<err, mishaps>>
       \/ /\ "cdev" \in Failing
          /\ Goto(b, "cdev", "fail")
          /\ err' = Set(err, b, 1)
          /\ mishaps' = mishaps \cup {<<b, "late">>}
          /\ UNCHANGED node
    /\ UNCHANGED <<driver, deviceCount, minor, enabled, privdata, classdev, region, kmapped, irq, files, usage>>

\* The labels: unmap the BARs and free the private data, decrement the
\* count, disable the board and return err.
FailUnmap(b) ==
    /\ Goto(b, "fail", "nomem")
    /\ region' = Set(region, b, region[b] /\ ~kmapped[b])
    /\ kmapped' = Set(kmapped, b, FALSE)
    /\ privdata' = Set(privdata, b, "freed")
    /\ UNCHANGED <<driver, deviceCount, err, minor, enabled, classdev, irq, files, node, usage, mishaps>>

FailUncount(b) ==
    /\ Goto(b, "nomem", "disable")
    /\ deviceCount' = deviceCount - 1
    /\ UNCHANGED <<driver, err, held, usage, mishaps>>

FailDisable(b) ==
    /\ Goto(b, "disable", IF err[b] = 0 THEN "bound" ELSE "unbound")
    /\ enabled' = Set(enabled, b, FALSE)
    /\ UNCHANGED <<driver, deviceCount, err, minor, privdata, classdev, region, kmapped, irq, files, node, usage, mishaps>>

-----------------------------------------------------------------------------
\* pcidriver_remove.  The sysfs files and all kernel buffers...  (Private data
\* that a failed probe has freed is used here as if it were intact.)
Remove(b) ==
    /\ Goto(b, "bound", "rmirq")
    /\ files' = Set(files, b, FALSE)
    /\ kmem' = Set(kmem, b, 0)
    /\ mishaps' = mishaps \cup (IF opens[b] > 0 THEN {<<b, "pulled">>} ELSE {})
    /\ UNCHANGED <<driver, deviceCount, err, minor, enabled, privdata, classdev, region, kmapped, irq, node, opens>>

\* ... the handler and the BARs...
RemoveIrq(b) ==
    /\ Goto(b, "rmirq", "rmnode")
    /\ irq' = Set(irq, b, FALSE)
    /\ region' = Set(region, b, region[b] /\ ~kmapped[b])
    /\ kmapped' = Set(kmapped, b, FALSE)
    /\ UNCHANGED <<driver, deviceCount, err, minor, enabled, privdata, classdev, files, node, usage, mishaps>>

\* ... the character device...
RemoveNode(b) ==
    /\ Goto(b, "rmnode", "rmfree")
    /\ node' = Set(node, b, FALSE)
    /\ classdev' = Set(classdev, b, FALSE)
    /\ UNCHANGED <<driver, deviceCount, err, minor, enabled, privdata, region, kmapped, irq, files, usage, mishaps>>

\* ... and the private data; the count stays as it is.
RemoveFree(b) ==
    /\ Goto(b, "rmfree", "unbound")
    /\ privdata' = Set(privdata, b, "freed")
    /\ enabled' = Set(enabled, b, FALSE)
    /\ UNCHANGED <<driver, deviceCount, err, minor, classdev, region, kmapped, irq, files, node, usage, mishaps>>

-----------------------------------------------------------------------------
\* Processes: open, close, and an ioctl that allocates or frees a buffer.
Open(b) ==
    /\ node[b] /\ module = "loaded"
    /\ opens[b] < MaxOpens
    /\ opens' = Set(opens, b, opens[b] + 1)
    /\ mishaps' = mishaps \cup (IF pc[b] # "bound" THEN {<<b, "pulled">>} ELSE {})
    /\ UNCHANGED <<driver, deviceCount, pc, err, held, kmem>>

\* pcidriver_release does nothing: buffers outlive the file.
Close(b) ==
    /\ opens[b] > 0
    /\ opens' = Set(opens, b, opens[b] - 1)
    /\ UNCHANGED <<driver, deviceCount, pc, err, held, kmem, mishaps>>

Buffer(b) ==
    /\ opens[b] > 0
    /\ \E n \in {kmem[b] - 1, kmem[b] + 1} \cap (0 .. MaxBuffers) : kmem' = Set(kmem, b, n)
    /\ UNCHANGED <<driver, deviceCount, pc, err, held, opens, mishaps>>

ProbeStep(b) ==
    \/ Count(b) \/ AllocPrivdata(b) \/ MapBars(b) \/ RequestIrq(b)
    \/ CreateFiles(b) \/ AddCdev(b) \/ FailUnmap(b) \/ FailUncount(b) \/ FailDisable(b)

RemoveStep(b) == RemoveIrq(b) \/ RemoveNode(b) \/ RemoveFree(b)

Next ==
    \/ Load \/ Exit \/ ExitDone
    \/ \E b \in Boards :
          \/ Probe(b) \/ ProbeStep(b)
          \/ Remove(b) \/ RemoveStep(b)
          \/ Open(b) \/ Close(b) \/ Buffer(b)

Spec == Init /\ [][Next]_vars

-----------------------------------------------------------------------------
TypeOK ==
    /\ module \in {"unloaded", "loaded", "exiting"}
    /\ registered \in BOOLEAN /\ chrdev \in BOOLEAN
    /\ deviceCount \in Nat
    /\ pc \in [Boards -> Positions]
    /\ err \in [Boards -> {0, 1}]
    /\ minor \in [Boards -> Nat]
    /\ privdata \in [Boards -> {"none", "live", "freed"}]
    /\ \A f \in {enabled, classdev, region, kmapped, irq, files, node} : f \in [Boards -> BOOLEAN]
    /\ opens \in [Boards -> 0 .. MaxOpens]
    /\ kmem \in [Boards -> 0 .. MaxBuffers]
    /\ mishaps \subseteq Boards \X {"bars", "late", "pulled"}

\* Board b has met none of the mishaps in set.
Spared(b, set) == mishaps \cap ({b} \X set) = {}

\* A device has a number of its own, of the region the module allocated:
\* "Devices are enumerated and correspond to their device number as in
\* /dev/fpgaX" (doc/manual.html:155; base.c:222, 366-372).
OwnNumber ==
    \A b \in Boards : node[b] =>
        /\ chrdev /\ minor[b] < MaxDevices
        /\ \A a \in Boards \ {b} : node[a] => minor[a] # minor[b]

\* Whatever failed on other boards, the handler of a board has its private
\* data and the mapped BAR for as long as it is registered, and so have the
\* processes that can reach the device (base.c:443-447, 485-498,
\* int.c:182-189).  It cannot be so once a late step of the board's probe has
\* failed, which frees the data under the handler, or once the board was
\* pulled out under an open file or opened while it was removed.
NoDangling ==
    \A b \in Boards :
        /\ irq[b] /\ Spared(b, {"late"}) => privdata[b] = "live" /\ kmapped[b]
        /\ (node[b] \/ opens[b] > 0) /\ Spared(b, {"pulled"}) => privdata[b] = "live"

\* After the module was unloaded nothing is left of a board whose probes all
\* succeeded or failed where the error path is complete: no handler, region,
\* file, device or buffer (base.c:260-270, 458-504).
CleanUnload ==
    module = "unloaded" =>
        \A b \in Boards : Spared(b, {"bars", "late", "pulled"}) =>
            /\ ~irq[b] /\ ~region[b] /\ ~kmapped[b] /\ ~files[b] /\ ~node[b]
            /\ ~enabled[b] /\ ~classdev[b]
            /\ privdata[b] # "live" /\ kmem[b] = 0
=============================================================================
