-------------------------- MODULE CreotechLifecycle --------------------------
(***************************************************************************)
(* The creotech driver from insmod to rmmod (creotech_driver/pcie.c):      *)
(* boards probed and removed, and the processes that open and map the one  *)
(* device file meanwhile.                                                  *)
(*                                                                         *)
(* All boards share one descriptor (pcie_descr), one DMA channel and one   *)
(* device file.  A probe acquires one thing after the other and undoes     *)
(* them with a chain of gotos.                                             *)
(*                                                                         *)
(* The kernel is external: it probes while the driver is registered and    *)
(* removes what was bound, one board at a time, holds misc_mtx while a     *)
(* device file is opened and while one is taken away, and starts to unload *)
(* the module only when nothing refers to it.  The module's code is gone   *)
(* at the end of an unload, whoever has a file open: this ends the         *)
(* behaviour of that process.                                              *)
(***************************************************************************)
EXTENDS Naturals, Sequences, FiniteSets

CONSTANTS Boards, Processes

VARIABLES
    code,       \* the module: out, init, live or going
    refs,       \* its reference count
    phase, at,  \* each board: idle, probing, unwinding, bound or leaving, and how far
    have,       \* what the driver holds of each board
    wide,       \* boards with more BARs than BAR 0
    mapping,    \* pcie_descr.region: the board mapped, or null
    deviceOpen, \* Device_Open
    fpc,        \* each process: position
    counted,    \* processes whose open took a reference to the module
    mapped,     \* processes that mapped the buffer
    clobbered,  \* history: a board was probed while another was bound
    overtaken   \* history: files whose board was being removed

boards == <<phase, at, have, wide, mapping, clobbered>>
files == <<refs, deviceOpen, fpc, counted, mapped, overtaken>>
cvars == <<code, boards, files>>

Null == "null"

Init ==
    /\ code = "out" /\ refs = 0
    /\ phase = [b \in Boards |-> "idle"]
    /\ at = [b \in Boards |-> 0]
    /\ have = [b \in Boards |-> {}]
    /\ wide \in SUBSET Boards
    /\ mapping = Null
    /\ deviceOpen = 0
    /\ fpc = [p \in Processes |-> "out"]
    /\ counted = {} /\ mapped = {}
    /\ clobbered = FALSE /\ overtaken = {}

-----------------------------------------------------------------------------
\* What fpga_probe acquires, in order; the last step is misc_register.
Steps == <<"enabled", "regions", "region", "msi", "irq", "dma", "buffer", "misc">>

\* Free for a board to take: all its BARs, the one DMA channel, the one name.
Available(b, r) ==
    CASE r = "regions" -> "further" \notin have[b]
      [] r \in {"dma", "misc"} -> \A c \in Boards : r \notin have[c]
      [] OTHER -> TRUE

Claimed(b, r) ==
    have[b] \cup {r} \cup (IF r = "regions" /\ b \in wide THEN {"further"} ELSE {})

\* Processes in an open call, which holds misc_mtx.
Opening == {p \in Processes : fpc[p] = "opening"}

Quiet == \A b \in Boards : phase[b] \in {"idle", "bound"}

Probe(b) ==
    /\ code \in {"init", "live"} /\ Quiet /\ phase[b] = "idle"
    /\ phase' = [phase EXCEPT ![b] = "probing"]
    /\ clobbered' = \E c \in Boards : phase[c] = "bound"
    /\ UNCHANGED <<code, at, have, wide, mapping, files>>

Acquire(b) ==
    /\ phase[b] = "probing" /\ at[b] < Len(Steps)
    /\ LET r == Steps[at[b] + 1]
       IN  /\ Available(b, r)
           /\ r = "misc" => Opening = {}
           /\ have' = [have EXCEPT ![b] = Claimed(b, r)]
           /\ mapping' = IF r = "region" THEN b ELSE mapping
    /\ at' = [at EXCEPT ![b] = @ + 1]
    /\ UNCHANGED <<code, phase, wide, clobbered, files>>

\* Enabling MSI may fail and the probe goes on.
WithoutMsi(b) ==
    /\ phase[b] = "probing" /\ at[b] < Len(Steps) /\ Steps[at[b] + 1] = "msi"
    /\ at' = [at EXCEPT ![b] = @ + 1]
    /\ UNCHANGED <<code, phase, have, wide, mapping, clobbered, files>>

\* A step fails: also the test of the BAR and the DMA mask, which acquire
\* nothing.  ioremap leaves NULL where the mapping was.
ProbeFails(b) ==
    /\ phase[b] = "probing" /\ at[b] < Len(Steps)
    /\ Steps[at[b] + 1] # "msi"
    /\ Steps[at[b] + 1] = "misc" => Opening = {}
    /\ phase' = [phase EXCEPT ![b] = "unwinding"]
    /\ mapping' = IF Steps[at[b] + 1] = "region" THEN Null ELSE mapping
    /\ UNCHANGED <<code, at, have, wide, clobbered, files>>

\* fpga_init_device resets the board at the end of the probe.
Bound(b) ==
    /\ phase[b] = "probing" /\ at[b] = Len(Steps)
    /\ phase' = [phase EXCEPT ![b] = "bound"]
    /\ at' = [at EXCEPT ![b] = 0]
    /\ UNCHANGED <<code, have, wide, mapping, clobbered, files>>

\* Giving things back.  iounmap goes by the descriptor, and half the buffer
\* is freed.
Undone(b, r) ==
    CASE r = "region" ->
           [c \in Boards |-> IF c = mapping THEN have[c] \ {r} ELSE have[c]]
      [] r = "buffer" -> [have EXCEPT ![b] = (@ \ {r}) \cup {"half"}]
      [] r = "irq" -> [have EXCEPT ![b] = @ \ {"irq", "msi"}]
      [] OTHER -> [have EXCEPT ![b] = @ \ {r}]

\* The error labels.  MSI is disabled behind the label of the interrupt only.
Unwind(b) ==
    /\ phase[b] = "unwinding" /\ at[b] > 0
    /\ have' = IF Steps[at[b]] = "msi" THEN have ELSE Undone(b, Steps[at[b]])
    /\ at' = [at EXCEPT ![b] = @ - 1]
    /\ UNCHANGED <<code, phase, wide, mapping, clobbered, files>>

Unwound(b) ==
    /\ phase[b] = "unwinding" /\ at[b] = 0
    /\ phase' = [phase EXCEPT ![b] = "idle"]
    /\ UNCHANGED <<code, at, have, wide, mapping, clobbered, files>>

\* fpga_remove, and the order in which it gives back.
Removal == <<"buffer", "irq", "dma", "region", "regions", "enabled", "misc">>

Remove(b) ==
    /\ code # "out" /\ Quiet /\ phase[b] = "bound"
    /\ phase' = [phase EXCEPT ![b] = "leaving"]
    /\ overtaken' = overtaken \cup {p \in Processes : fpc[p] \in {"opening", "open"}}
    /\ UNCHANGED <<code, at, have, wide, mapping, clobbered, refs, deviceOpen,
                   fpc, counted, mapped>>

GiveBack(b) ==
    /\ phase[b] = "leaving" /\ at[b] < Len(Removal)
    /\ Removal[at[b] + 1] = "misc" => Opening = {}
    /\ have' = Undone(b, Removal[at[b] + 1])
    /\ at' = [at EXCEPT ![b] = @ + 1]
    /\ UNCHANGED <<code, phase, wide, mapping, clobbered, files>>

Removed(b) ==
    /\ phase[b] = "leaving" /\ at[b] = Len(Removal)
    /\ phase' = [phase EXCEPT ![b] = "idle"]
    /\ at' = [at EXCEPT ![b] = 0]
    /\ UNCHANGED <<code, have, wide, mapping, clobbered, files>>

-----------------------------------------------------------------------------
\* fpga_init registers the driver, which may probe boards and let programs in,
\* before it sets the defaults of the stream.
Insmod ==
    /\ code = "out" /\ \A p \in Processes : fpc[p] = "out"
    /\ code' = "init"
    /\ deviceOpen' = 0 /\ refs' = 0
    /\ clobbered' = FALSE /\ mapping' = Null
    /\ UNCHANGED <<phase, at, have, wide, fpc, counted, mapped, overtaken>>

Registered ==
    /\ code = "init" /\ Quiet
    /\ code' = "live"
    /\ UNCHANGED <<boards, files>>

\* fpga_exit: every bound board is removed before the code goes.
Rmmod ==
    /\ code = "live" /\ refs = 0
    /\ code' = "going"
    /\ UNCHANGED <<boards, files>>

Unloaded ==
    /\ code = "going" /\ \A b \in Boards : phase[b] = "idle"
    /\ code' = "out"
    /\ UNCHANGED <<boards, files>>

-----------------------------------------------------------------------------
Go(p, position) == fpc' = [fpc EXCEPT ![p] = position]

\* fpga_char_open tests Device_Open, then counts the file and the module's
\* reference.  The file operations name no owner, so the kernel takes none,
\* and try_module_get does not when the module is going.
OpenAnyway(p) == TRUE

Unused(p) == deviceOpen = 0

OpenTest(p) ==
    /\ fpc[p] = "out" /\ Opening = {}
    /\ \E b \in Boards : "misc" \in have[b]
    /\ Unused(p)
    /\ Go(p, "opening")
    /\ overtaken' = IF \E b \in Boards : phase[b] = "leaving"
                    THEN overtaken \cup {p} ELSE overtaken
    /\ UNCHANGED <<code, boards, refs, deviceOpen, counted, mapped>>

OpenCount(p) ==
    /\ fpc[p] = "opening"
    /\ Go(p, "open")
    /\ deviceOpen' = deviceOpen + 1
    /\ IF code = "going"
       THEN UNCHANGED <<refs, counted>>
       ELSE refs' = refs + 1 /\ counted' = counted \cup {p}
    /\ UNCHANGED <<code, boards, mapped, overtaken>>

\* fpga_char_mmap; a mapping keeps the file, and vma_close gives it up.
Mmap(p) ==
    /\ code # "out" /\ fpc[p] = "open" /\ p \notin mapped
    /\ mapped' = mapped \cup {p}
    /\ UNCHANGED <<code, boards, refs, deviceOpen, fpc, counted, overtaken>>

VmaClose(p) ==
    /\ code # "out" /\ p \in mapped
    /\ mapped' = mapped \ {p}
    /\ UNCHANGED <<code, boards, refs, deviceOpen, fpc, counted, overtaken>>

\* fpga_char_release, when the file and its mapping are gone.
Release(p) ==
    /\ code # "out" /\ fpc[p] = "open" /\ p \notin mapped
    /\ deviceOpen' = deviceOpen - 1
    /\ Go(p, "releasing")
    /\ overtaken' = overtaken \ {p}
    /\ UNCHANGED <<code, boards, refs, counted, mapped>>

ReleasePut(p) ==
    /\ code # "out" /\ fpc[p] = "releasing"
    /\ refs' = IF refs = 0 THEN 0 ELSE refs - 1
    /\ counted' = counted \ {p}
    /\ Go(p, "out")
    /\ UNCHANGED <<code, boards, deviceOpen, mapped, overtaken>>

-----------------------------------------------------------------------------
Next ==
    \/ Insmod \/ Registered \/ Rmmod \/ Unloaded
    \/ \E b \in Boards :
          \/ Probe(b) \/ Acquire(b) \/ WithoutMsi(b) \/ ProbeFails(b) \/ Bound(b)
          \/ Unwind(b) \/ Unwound(b) \/ Remove(b) \/ GiveBack(b) \/ Removed(b)
    \/ \E p \in Processes :
          \/ OpenTest(p) \/ OpenCount(p) \/ Mmap(p) \/ VmaClose(p)
          \/ Release(p) \/ ReleasePut(p)

Spec == Init /\ [][Next]_cvars

-----------------------------------------------------------------------------
TypeOK ==
    /\ code \in {"out", "init", "live", "going"} /\ refs \in Nat
    /\ phase \in [Boards -> {"idle", "probing", "unwinding", "bound", "leaving"}]
    /\ at \in [Boards -> 0 .. Len(Steps)]
    /\ have \in [Boards -> SUBSET ({Steps[i] : i \in DOMAIN Steps} \cup {"further", "half"})]
    /\ wide \subseteq Boards /\ mapping \in Boards \cup {Null}
    /\ deviceOpen \in Nat
    /\ fpc \in [Processes -> {"out", "opening", "open", "releasing"}]
    /\ counted \subseteq Processes /\ mapped \subseteq Processes
    /\ clobbered \in BOOLEAN /\ overtaken \subseteq Processes

\* One process at a time has the file: the test and the count of an open, the
\* count of a release and the mappings of the buffer together keep out every
\* other (pcie.c:54-81), and the file's reference keeps the module.
OneFile ==
    /\ Cardinality({p \in Processes : fpc[p] \in {"opening", "open"}}) <= 1
    /\ deviceOpen = Cardinality({p \in Processes : fpc[p] = "open"})
    /\ counted # {} => code \in {"init", "live"}

\* A file finds the registers mapped, the handler, the DMA channel and the
\* buffer, unless its board was being removed or another one was probed
\* (pcie.c:444-583).
FilesServed ==
    \A p \in Processes \ overtaken :
        fpc[p] = "open" /\ ~clobbered =>
            \E b \in Boards :
                /\ mapping = b
                /\ {"region", "irq", "dma", "buffer"} \subseteq have[b]

\* A board the driver has no more to do with leaves nothing behind but its
\* further BARs, half the buffer, MSI when the interrupt was not to be had,
\* and its registers mapped when the descriptor was overwritten
\* (pcie.c:536-583).
BoardGone ==
    \A b \in Boards :
        phase[b] = "idle" =>
            \/ have[b] \subseteq {"further", "half", "msi"}
            \/ have[b] \subseteq {"further", "half", "msi", "region"} /\ mapping # b

-----------------------------------------------------------------------------
\* The inductive invariant.  What the driver owes the kernel for a board: what
\* the probe has acquired and neither the labels nor the removal gave back.
Acquired(k) == {Steps[i] : i \in 1 .. k}
GivenBack(k) == {Removal[i] : i \in 1 .. k}

Owed(b) ==
    CASE phase[b] = "idle" -> {}
      [] phase[b] \in {"probing", "unwinding"} -> Acquired(at[b])
      [] phase[b] = "bound" -> Acquired(Len(Steps))
      [] phase[b] = "leaving" -> Acquired(Len(Steps)) \ GivenBack(at[b])

\* The driver holds that, perhaps without MSI, and what the error paths forget.
Forgotten(b) == {"further", "half", "msi"} \cup (IF mapping = b THEN {} ELSE {"region"})

Holds(b) == Owed(b) \ {"msi"} \subseteq have[b] /\ have[b] \subseteq Owed(b) \cup Forgotten(b)

\* How far a board can be.
InOrder(b) ==
    /\ phase[b] \in {"idle", "bound"} => at[b] = 0
    /\ phase[b] = "unwinding" => at[b] < Len(Steps)
    /\ phase[b] = "leaving" => at[b] <= Len(Removal)

\* The kernel works on one board at a time, and while one leaves there is no
\* other, for the one DMA channel was its.
OneAtATime ==
    \A b, c \in Boards :
        b # c /\ phase[b] \in {"probing", "unwinding", "leaving"} =>
            /\ phase[c] \in {"idle", "bound"}
            /\ phase[b] = "leaving" => phase[c] = "idle"

OneChannel == \A b, c \in Boards : "dma" \in have[b] /\ "dma" \in have[c] => b = c

\* The shared descriptor is the one of the board that has got that far.
Describes(b) ==
    /\ phase[b] \in {"probing", "unwinding"} /\ at[b] >= 3 => mapping = b
    /\ phase[b] = "bound" /\ ~clobbered =>
          mapping = b /\ \A c \in Boards \ {b} : phase[c] = "idle"

\* The reference count is that of the open files, until the module goes.
Counting ==
    /\ refs = Cardinality(counted)
    /\ counted \subseteq {p \in Processes : fpc[p] \in {"open", "releasing"}}
    /\ code \in {"init", "live"} =>
          {p \in Processes : fpc[p] \in {"open", "releasing"}} \subseteq counted
    /\ code \in {"going", "out"} => counted = {}

\* One process is past the test of Device_Open.
Alone ==
    /\ \A p, q \in Processes :
          fpc[p] \in {"opening", "open"} /\ fpc[q] \in {"opening", "open"} => p = q
    /\ deviceOpen = IF \E p \in Processes : fpc[p] = "open" THEN 1 ELSE 0

\* A file has a board, unless that was taken from it.
Served ==
    \A p \in Processes \ overtaken :
        fpc[p] \in {"opening", "open"} =>
            \E b \in Boards :
                phase[b] = "bound" \/ (phase[b] = "probing" /\ at[b] = Len(Steps))

\* The name of the device file stays while a process opens it.
NameStays == Opening # {} => \E b \in Boards : "misc" \in have[b]

IInv ==
    /\ TypeOK
    /\ \A b \in Boards : Holds(b) /\ InOrder(b) /\ Describes(b)
    /\ OneAtATime /\ OneChannel
    /\ code = "out" => \A b \in Boards : phase[b] = "idle"
    /\ Counting /\ Alone /\ Served /\ NameStays
=============================================================================
