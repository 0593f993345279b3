----------------------- MODULE DeviceLifecycle_proofs -----------------------
(***************************************************************************)
(* Proofs about DeviceLifecycle, for any finite set of boards, any number  *)
(* of device numbers and any set of steps that may fail.                   *)
(*                                                                         *)
(* The invariant says, for each position of a board in its probe or        *)
(* removal, what the driver holds for it there.  Much of it is excepted    *)
(* after a mishap of the same board; Spared only shrinks, since mishaps is *)
(* never taken back.                                                       *)
(***************************************************************************)
EXTENDS DeviceLifecycle, TLAPS

\* TypeOK with the set of functions written out.
Typing ==
    /\ module \in {"unloaded", "loaded", "exiting"}
    /\ registered \in BOOLEAN /\ chrdev \in BOOLEAN
    /\ deviceCount \in Nat
    /\ pc \in [Boards -> Positions]
    /\ err \in [Boards -> {0, 1}]
    /\ minor \in [Boards -> Nat]
    /\ privdata \in [Boards -> {"none", "live", "freed"}]
    /\ enabled \in [Boards -> BOOLEAN] /\ classdev \in [Boards -> BOOLEAN]
    /\ region \in [Boards -> BOOLEAN] /\ kmapped \in [Boards -> BOOLEAN]
    /\ irq \in [Boards -> BOOLEAN] /\ files \in [Boards -> BOOLEAN]
    /\ node \in [Boards -> BOOLEAN]
    /\ opens \in [Boards -> 0 .. MaxOpens]
    /\ kmem \in [Boards -> 0 .. MaxBuffers]
    /\ mishaps \subseteq Boards \X {"bars", "late", "pulled"}

Probing == {"count", "alloc", "bars", "irq", "files", "cdev", "fail", "nomem", "disable"}
Counted == {"alloc", "bars", "irq", "files", "cdev", "fail", "nomem"}

\* The driver's boards exist while it is loaded.
ModuleInStep ==
    /\ registered => module = "loaded" /\ chrdev
    /\ module = "unloaded" => \A b \in Boards : pc[b] = "unbound"
    /\ \A b \in Boards : pc[b] # "unbound" => chrdev

\* The kernel probes one board at a time.
OneProbe == \A a, b \in Boards : pc[a] \in Probing /\ pc[b] \in Probing => a = b

\* Numbers in use are below the count and distinct.  The board in its probe
\* has the last one, which its error path gives back.
Numbered(b) == node[b] \/ pc[b] \in Counted

Numbers ==
    /\ \A b \in Boards : Numbered(b) => minor[b] < deviceCount /\ minor[b] < MaxDevices
    /\ \A b \in Boards : pc[b] \in Counted => deviceCount = minor[b] + 1
    /\ \A a, b \in Boards : Numbered(a) /\ Numbered(b) /\ a # b => minor[a] # minor[b]

\* What a board has at each position, whatever happened before.
Holds(b) ==
    /\ pc[b] \in {"bars", "irq", "files", "cdev", "fail"} => privdata[b] = "live"
    /\ pc[b] \in {"irq", "files", "cdev"} => kmapped[b]
    /\ node[b] => pc[b] \in {"bound", "rmirq", "rmnode"} /\ privdata[b] = "live"

\* An error path is there for an error or a mishap; only a late one returns 0.
Failed(b) ==
    /\ pc[b] = "fail" => <<b, "late">> \in mishaps \/ <<b, "bars">> \in mishaps
    /\ pc[b] \in {"fail", "nomem", "disable"} /\ err[b] = 0 => <<b, "late">> \in mishaps

\* The handler and what it uses.
Handled(b) ==
    <<b, "late">> \in mishaps \/
        /\ irq[b] => pc[b] \in {"files", "cdev", "bound", "rmirq"}
        /\ pc[b] \in {"bound", "rmirq"} => privdata[b] = "live" /\ kmapped[b]

\* Open files are those of a board that works.
Opened(b) ==
    <<b, "pulled">> \in mishaps \/ opens[b] = 0 \/ (pc[b] = "bound" /\ node[b])

\* Without a mishap a board has things only between the step that acquires
\* them and the one that gives them back.
Tidy(b) ==
    (\E m \in {"bars", "late", "pulled"} : <<b, m>> \in mishaps) \/
        /\ irq[b] => pc[b] \in {"files", "cdev", "bound", "rmirq"}
        /\ kmapped[b] => pc[b] \in {"irq", "files", "cdev", "bound", "rmirq"}
        /\ region[b] => kmapped[b]
        /\ files[b] => pc[b] \in {"cdev", "bound"}
        /\ enabled[b] => pc[b] # "unbound"
        /\ classdev[b] => pc[b] \in {"bars", "irq", "files", "cdev", "bound", "rmirq", "rmnode"}
        /\ privdata[b] = "live" =>
              pc[b] \in {"bars", "irq", "files", "cdev", "bound", "rmirq", "rmnode", "rmfree"}
        /\ kmem[b] = 0 \/ pc[b] = "bound"

BoardInStep(b) == Holds(b) /\ Failed(b) /\ Handled(b) /\ Opened(b) /\ Tidy(b)

IInv ==
    /\ TypeOK
    /\ ModuleInStep
    /\ OneProbe
    /\ Numbers
    /\ \A b \in Boards : BoardInStep(b)

-----------------------------------------------------------------------------
\* The set of TypeOK holds the functions one by one.
LEMMA TypingIsTypeOK == TypeOK <=> Typing
BY DEF TypeOK, Typing

\* Types: the count falls only in the error path of a board that was counted.
LEMMA TypingStep ==
    ASSUME IInv, Next
    PROVE  Typing'
<1>. USE TypingIsTypeOK, BoundsAssumption DEF IInv, driver, held, usage, vars, Set, Goto, Typing, Positions, Numbers, Numbered, Counted
<1>1. CASE Load
  BY <1>1 DEF Load
<1>2. CASE Exit
  BY <1>2 DEF Exit
<1>3. CASE ExitDone
  BY <1>3 DEF ExitDone
<1>4. ASSUME NEW b \in Boards, Probe(b) PROVE Typing'
  BY <1>4 DEF Probe
<1>5. ASSUME NEW b \in Boards, Count(b) PROVE Typing'
  BY <1>5 DEF Count
<1>6. ASSUME NEW b \in Boards, AllocPrivdata(b) PROVE Typing'
  <2>1. mishaps' \subseteq Boards \X {"bars", "late", "pulled"}
    BY <1>6 DEF AllocPrivdata
  <2>2. /\ pc' \in [Boards -> Positions] /\ err' \in [Boards -> {0, 1}]
        /\ kmem' \in [Boards -> 0 .. MaxBuffers]
    BY <1>6 DEF AllocPrivdata
  <2>3. /\ files' \in [Boards -> BOOLEAN] /\ node' \in [Boards -> BOOLEAN]
        /\ privdata' \in [Boards -> {"none", "live", "freed"}]
    BY <1>6 DEF AllocPrivdata
  <2>. QED
    BY <1>6, <2>1, <2>2, <2>3 DEF AllocPrivdata
<1>7. ASSUME NEW b \in Boards, MapBars(b) PROVE Typing'
  <2>1. mishaps' \subseteq Boards \X {"bars", "late", "pulled"}
    BY <1>7 DEF MapBars
  <2>2. /\ pc' \in [Boards -> Positions] /\ err' \in [Boards -> {0, 1}]
        /\ kmem' \in [Boards -> 0 .. MaxBuffers]
    BY <1>7 DEF MapBars
  <2>3. /\ files' \in [Boards -> BOOLEAN] /\ node' \in [Boards -> BOOLEAN]
        /\ privdata' \in [Boards -> {"none", "live", "freed"}]
    BY <1>7 DEF MapBars
  <2>. QED
    BY <1>7, <2>1, <2>2, <2>3 DEF MapBars
<1>8. ASSUME NEW b \in Boards, RequestIrq(b) PROVE Typing'
  BY <1>8 DEF RequestIrq
<1>9. ASSUME NEW b \in Boards, CreateFiles(b) PROVE Typing'
  <2>1. mishaps' \subseteq Boards \X {"bars", "late", "pulled"}
    BY <1>9 DEF CreateFiles
  <2>2. /\ pc' \in [Boards -> Positions] /\ err' \in [Boards -> {0, 1}]
        /\ kmem' \in [Boards -> 0 .. MaxBuffers]
    BY <1>9 DEF CreateFiles
  <2>3. /\ files' \in [Boards -> BOOLEAN] /\ node' \in [Boards -> BOOLEAN]
        /\ privdata' \in [Boards -> {"none", "live", "freed"}]
    BY <1>9 DEF CreateFiles
  <2>. QED
    BY <1>9, <2>1, <2>2, <2>3 DEF CreateFiles
<1>10. ASSUME NEW b \in Boards, AddCdev(b) PROVE Typing'
  <2>1. mishaps' \subseteq Boards \X {"bars", "late", "pulled"}
    BY <1>10 DEF AddCdev
  <2>2. /\ pc' \in [Boards -> Positions] /\ err' \in [Boards -> {0, 1}]
        /\ kmem' \in [Boards -> 0 .. MaxBuffers]
    BY <1>10 DEF AddCdev
  <2>3. /\ files' \in [Boards -> BOOLEAN] /\ node' \in [Boards -> BOOLEAN]
        /\ privdata' \in [Boards -> {"none", "live", "freed"}]
    BY <1>10 DEF AddCdev
  <2>. QED
    BY <1>10, <2>1, <2>2, <2>3 DEF AddCdev
<1>11. ASSUME NEW b \in Boards, FailUnmap(b) PROVE Typing'
  BY <1>11 DEF FailUnmap
<1>12. ASSUME NEW b \in Boards, FailUncount(b) PROVE Typing'
  BY SMTT(30), <1>12 DEF FailUncount
<1>13. ASSUME NEW b \in Boards, FailDisable(b) PROVE Typing'
  BY <1>13 DEF FailDisable
<1>14. ASSUME NEW b \in Boards, Remove(b) PROVE Typing'
  BY <1>14 DEF Remove
<1>15. ASSUME NEW b \in Boards, RemoveIrq(b) PROVE Typing'
  BY <1>15 DEF RemoveIrq
<1>16. ASSUME NEW b \in Boards, RemoveNode(b) PROVE Typing'
  BY <1>16 DEF RemoveNode
<1>17. ASSUME NEW b \in Boards, RemoveFree(b) PROVE Typing'
  BY <1>17 DEF RemoveFree
<1>18. ASSUME NEW b \in Boards, Open(b) PROVE Typing'
  BY <1>18 DEF Open
<1>19. ASSUME NEW b \in Boards, Close(b) PROVE Typing'
  BY <1>19 DEF Close
<1>20. ASSUME NEW b \in Boards, Buffer(b) PROVE Typing'
  BY <1>20 DEF Buffer
<1>. QED
  BY <1>1, <1>2, <1>3, <1>4, <1>5, <1>6, <1>7, <1>8, <1>9, <1>10, <1>11, <1>12, <1>13, <1>14, <1>15, <1>16, <1>17, <1>18, <1>19, <1>20 DEF Next, ProbeStep, RemoveStep

\* The driver's state: boards are probed only while it is registered.
LEMMA ModuleStep ==
    ASSUME IInv, Next
    PROVE  ModuleInStep'
<1>. USE TypingIsTypeOK, BoundsAssumption DEF IInv, driver, held, usage, vars, Set, Goto, Typing, ModuleInStep
<1>1. CASE Load
  BY <1>1 DEF Load
<1>2. CASE Exit
  BY <1>2 DEF Exit
<1>3. CASE ExitDone
  BY <1>3 DEF ExitDone
<1>4. ASSUME NEW b \in Boards, Probe(b) PROVE ModuleInStep'
  BY <1>4 DEF Probe
<1>5. ASSUME NEW b \in Boards, Count(b) PROVE ModuleInStep'
  BY <1>5 DEF Count
<1>6. ASSUME NEW b \in Boards, AllocPrivdata(b) PROVE ModuleInStep'
  BY <1>6 DEF AllocPrivdata
<1>7. ASSUME NEW b \in Boards, MapBars(b) PROVE ModuleInStep'
  BY <1>7 DEF MapBars
<1>8. ASSUME NEW b \in Boards, RequestIrq(b) PROVE ModuleInStep'
  BY <1>8 DEF RequestIrq
<1>9. ASSUME NEW b \in Boards, CreateFiles(b) PROVE ModuleInStep'
  BY <1>9 DEF CreateFiles
<1>10. ASSUME NEW b \in Boards, AddCdev(b) PROVE ModuleInStep'
  BY <1>10 DEF AddCdev
<1>11. ASSUME NEW b \in Boards, FailUnmap(b) PROVE ModuleInStep'
  BY <1>11 DEF FailUnmap
<1>12. ASSUME NEW b \in Boards, FailUncount(b) PROVE ModuleInStep'
  BY SMTT(30), <1>12 DEF FailUncount
<1>13. ASSUME NEW b \in Boards, FailDisable(b) PROVE ModuleInStep'
  BY <1>13 DEF FailDisable
<1>14. ASSUME NEW b \in Boards, Remove(b) PROVE ModuleInStep'
  BY <1>14 DEF Remove
<1>15. ASSUME NEW b \in Boards, RemoveIrq(b) PROVE ModuleInStep'
  BY <1>15 DEF RemoveIrq
<1>16. ASSUME NEW b \in Boards, RemoveNode(b) PROVE ModuleInStep'
  BY <1>16 DEF RemoveNode
<1>17. ASSUME NEW b \in Boards, RemoveFree(b) PROVE ModuleInStep'
  BY <1>17 DEF RemoveFree
<1>18. ASSUME NEW b \in Boards, Open(b) PROVE ModuleInStep'
  BY <1>18 DEF Open
<1>19. ASSUME NEW b \in Boards, Close(b) PROVE ModuleInStep'
  BY <1>19 DEF Close
<1>20. ASSUME NEW b \in Boards, Buffer(b) PROVE ModuleInStep'
  BY <1>20 DEF Buffer
<1>. QED
  BY <1>1, <1>2, <1>3, <1>4, <1>5, <1>6, <1>7, <1>8, <1>9, <1>10, <1>11, <1>12, <1>13, <1>14, <1>15, <1>16, <1>17, <1>18, <1>19, <1>20 DEF Next, ProbeStep, RemoveStep

\* One probe at a time.
LEMMA ProbeOnce ==
    ASSUME IInv, Next
    PROVE  OneProbe'
<1>. USE TypingIsTypeOK, BoundsAssumption DEF IInv, driver, held, usage, vars, Set, Goto, Typing, OneProbe, Probing, Busy
<1>1. CASE Load
  BY <1>1 DEF Load
<1>2. CASE Exit
  BY <1>2 DEF Exit
<1>3. CASE ExitDone
  BY <1>3 DEF ExitDone
<1>4. ASSUME NEW b \in Boards, Probe(b) PROVE OneProbe'
  BY <1>4 DEF Probe
<1>5. ASSUME NEW b \in Boards, Count(b) PROVE OneProbe'
  BY <1>5 DEF Count
<1>6. ASSUME NEW b \in Boards, AllocPrivdata(b) PROVE OneProbe'
  BY <1>6 DEF AllocPrivdata
<1>7. ASSUME NEW b \in Boards, MapBars(b) PROVE OneProbe'
  BY <1>7 DEF MapBars
<1>8. ASSUME NEW b \in Boards, RequestIrq(b) PROVE OneProbe'
  BY <1>8 DEF RequestIrq
<1>9. ASSUME NEW b \in Boards, CreateFiles(b) PROVE OneProbe'
  BY <1>9 DEF CreateFiles
<1>10. ASSUME NEW b \in Boards, AddCdev(b) PROVE OneProbe'
  BY <1>10 DEF AddCdev
<1>11. ASSUME NEW b \in Boards, FailUnmap(b) PROVE OneProbe'
  BY <1>11 DEF FailUnmap
<1>12. ASSUME NEW b \in Boards, FailUncount(b) PROVE OneProbe'
  BY SMTT(30), <1>12 DEF FailUncount
<1>13. ASSUME NEW b \in Boards, FailDisable(b) PROVE OneProbe'
  BY <1>13 DEF FailDisable
<1>14. ASSUME NEW b \in Boards, Remove(b) PROVE OneProbe'
  BY <1>14 DEF Remove
<1>15. ASSUME NEW b \in Boards, RemoveIrq(b) PROVE OneProbe'
  BY <1>15 DEF RemoveIrq
<1>16. ASSUME NEW b \in Boards, RemoveNode(b) PROVE OneProbe'
  BY <1>16 DEF RemoveNode
<1>17. ASSUME NEW b \in Boards, RemoveFree(b) PROVE OneProbe'
  BY <1>17 DEF RemoveFree
<1>18. ASSUME NEW b \in Boards, Open(b) PROVE OneProbe'
  BY <1>18 DEF Open
<1>19. ASSUME NEW b \in Boards, Close(b) PROVE OneProbe'
  BY <1>19 DEF Close
<1>20. ASSUME NEW b \in Boards, Buffer(b) PROVE OneProbe'
  BY <1>20 DEF Buffer
<1>. QED
  BY <1>1, <1>2, <1>3, <1>4, <1>5, <1>6, <1>7, <1>8, <1>9, <1>10, <1>11, <1>12, <1>13, <1>14, <1>15, <1>16, <1>17, <1>18, <1>19, <1>20 DEF Next, ProbeStep, RemoveStep

\* Numbers: a new one is above all others, and the last is given back.
LEMMA NumbersStep ==
    ASSUME IInv, Next
    PROVE  Numbers'
<1>. USE TypingIsTypeOK, BoundsAssumption DEF IInv, driver, held, usage, vars, Set, Goto, Typing, Numbers, Numbered, Counted, OneProbe, Probing, ModuleInStep, BoardInStep, Holds
<1>1. CASE Load
  BY <1>1 DEF Load
<1>2. CASE Exit
  BY <1>2 DEF Exit
<1>3. CASE ExitDone
  BY <1>3 DEF ExitDone
<1>4. ASSUME NEW b \in Boards, Probe(b) PROVE Numbers'
  BY <1>4 DEF Probe
<1>5. ASSUME NEW b \in Boards, Count(b) PROVE Numbers'
  BY <1>5 DEF Count
<1>6. ASSUME NEW b \in Boards, AllocPrivdata(b) PROVE Numbers'
  BY <1>6 DEF AllocPrivdata
<1>7. ASSUME NEW b \in Boards, MapBars(b) PROVE Numbers'
  BY <1>7 DEF MapBars
<1>8. ASSUME NEW b \in Boards, RequestIrq(b) PROVE Numbers'
  BY <1>8 DEF RequestIrq
<1>9. ASSUME NEW b \in Boards, CreateFiles(b) PROVE Numbers'
  BY <1>9 DEF CreateFiles
<1>10. ASSUME NEW b \in Boards, AddCdev(b) PROVE Numbers'
  BY <1>10 DEF AddCdev
<1>11. ASSUME NEW b \in Boards, FailUnmap(b) PROVE Numbers'
  BY <1>11 DEF FailUnmap
<1>12. ASSUME NEW b \in Boards, FailUncount(b) PROVE Numbers'
  BY SMTT(30), <1>12 DEF FailUncount
<1>13. ASSUME NEW b \in Boards, FailDisable(b) PROVE Numbers'
  BY <1>13 DEF FailDisable
<1>14. ASSUME NEW b \in Boards, Remove(b) PROVE Numbers'
  BY <1>14 DEF Remove
<1>15. ASSUME NEW b \in Boards, RemoveIrq(b) PROVE Numbers'
  BY <1>15 DEF RemoveIrq
<1>16. ASSUME NEW b \in Boards, RemoveNode(b) PROVE Numbers'
  BY <1>16 DEF RemoveNode
<1>17. ASSUME NEW b \in Boards, RemoveFree(b) PROVE Numbers'
  BY <1>17 DEF RemoveFree
<1>18. ASSUME NEW b \in Boards, Open(b) PROVE Numbers'
  BY <1>18 DEF Open
<1>19. ASSUME NEW b \in Boards, Close(b) PROVE Numbers'
  BY <1>19 DEF Close
<1>20. ASSUME NEW b \in Boards, Buffer(b) PROVE Numbers'
  BY <1>20 DEF Buffer
<1>. QED
  BY <1>1, <1>2, <1>3, <1>4, <1>5, <1>6, <1>7, <1>8, <1>9, <1>10, <1>11, <1>12, <1>13, <1>14, <1>15, <1>16, <1>17, <1>18, <1>19, <1>20 DEF Next, ProbeStep, RemoveStep

\* Each board: the steps of the others leave it alone.
LEMMA BoardStep ==
    ASSUME IInv, Next
    PROVE  (\A x \in Boards : BoardInStep(x))'
<1>. USE TypingIsTypeOK, BoundsAssumption DEF IInv, driver, held, usage, vars, Set, Goto, Typing, BoardInStep
<1>1. CASE Load
  BY <1>1 DEF Load, Holds, Failed, Handled, Opened, Tidy
<1>2. CASE Exit
  BY <1>2 DEF Exit, Holds, Failed, Handled, Opened, Tidy
<1>3. CASE ExitDone
  BY <1>3 DEF ExitDone, Holds, Failed, Handled, Opened, Tidy
<1>4. ASSUME NEW b \in Boards, Probe(b) PROVE (\A x \in Boards : BoardInStep(x))'
  <2>. SUFFICES ASSUME NEW x \in Boards PROVE BoardInStep(x)'
    OBVIOUS
  <2>1. Holds(x)'
    BY <1>4 DEF Probe, Holds
  <2>2. Failed(x)'
    BY <1>4 DEF Probe, Failed
  <2>3. Handled(x)'
    BY <1>4 DEF Probe, Handled
  <2>4. Opened(x)'
    BY <1>4 DEF Probe, Opened
  <2>5. Tidy(x)'
    BY <1>4 DEF Probe, Tidy
  <2>. QED
    BY <2>1, <2>2, <2>3, <2>4, <2>5
<1>5. ASSUME NEW b \in Boards, Count(b) PROVE (\A x \in Boards : BoardInStep(x))'
  <2>. SUFFICES ASSUME NEW x \in Boards PROVE BoardInStep(x)'
    OBVIOUS
  <2>1. Holds(x)'
    BY <1>5 DEF Count, Holds
  <2>2. Failed(x)'
    BY <1>5 DEF Count, Failed
  <2>3. Handled(x)'
    BY <1>5 DEF Count, Handled
  <2>4. Opened(x)'
    BY <1>5 DEF Count, Opened
  <2>5. Tidy(x)'
    BY <1>5 DEF Count, Tidy
  <2>. QED
    BY <2>1, <2>2, <2>3, <2>4, <2>5
<1>6. ASSUME NEW b \in Boards, AllocPrivdata(b) PROVE (\A x \in Boards : BoardInStep(x))'
  <2>. SUFFICES ASSUME NEW x \in Boards PROVE BoardInStep(x)'
    OBVIOUS
  <2>1. Holds(x)'
    BY <1>6 DEF AllocPrivdata, Holds
  <2>2. Failed(x)'
    BY <1>6 DEF AllocPrivdata, Failed
  <2>3. Handled(x)'
    BY <1>6 DEF AllocPrivdata, Handled
  <2>4. Opened(x)'
    BY <1>6 DEF AllocPrivdata, Opened
  <2>5. Tidy(x)'
    BY <1>6 DEF AllocPrivdata, Tidy
  <2>. QED
    BY <2>1, <2>2, <2>3, <2>4, <2>5
<1>7. ASSUME NEW b \in Boards, MapBars(b) PROVE (\A x \in Boards : BoardInStep(x))'
  <2>. SUFFICES ASSUME NEW x \in Boards PROVE BoardInStep(x)'
    OBVIOUS
  <2>1. Holds(x)'
    BY <1>7 DEF MapBars, Holds
  <2>2. Failed(x)'
    BY <1>7 DEF MapBars, Failed
  <2>3. Handled(x)'
    BY <1>7 DEF MapBars, Handled
  <2>4. Opened(x)'
    BY <1>7 DEF MapBars, Opened
  <2>5. Tidy(x)'
    BY <1>7 DEF MapBars, Tidy
  <2>. QED
    BY <2>1, <2>2, <2>3, <2>4, <2>5
<1>8. ASSUME NEW b \in Boards, RequestIrq(b) PROVE (\A x \in Boards : BoardInStep(x))'
  <2>. SUFFICES ASSUME NEW x \in Boards PROVE BoardInStep(x)'
    OBVIOUS
  <2>1. Holds(x)'
    BY <1>8 DEF RequestIrq, Holds
  <2>2. Failed(x)'
    BY <1>8 DEF RequestIrq, Failed
  <2>3. Handled(x)'
    BY <1>8 DEF RequestIrq, Handled
  <2>4. Opened(x)'
    BY <1>8 DEF RequestIrq, Opened
  <2>5. Tidy(x)'
    BY <1>8 DEF RequestIrq, Tidy
  <2>. QED
    BY <2>1, <2>2, <2>3, <2>4, <2>5
<1>9. ASSUME NEW b \in Boards, CreateFiles(b) PROVE (\A x \in Boards : BoardInStep(x))'
  <2>. SUFFICES ASSUME NEW x \in Boards PROVE BoardInStep(x)'
    OBVIOUS
  <2>1. Holds(x)'
    BY <1>9 DEF CreateFiles, Holds
  <2>2. Failed(x)'
    BY <1>9 DEF CreateFiles, Failed
  <2>3. Handled(x)'
    BY <1>9 DEF CreateFiles, Handled
  <2>4. Opened(x)'
    BY <1>9 DEF CreateFiles, Opened
  <2>5. Tidy(x)'
    BY <1>9 DEF CreateFiles, Tidy
  <2>. QED
    BY <2>1, <2>2, <2>3, <2>4, <2>5
<1>10. ASSUME NEW b \in Boards, AddCdev(b) PROVE (\A x \in Boards : BoardInStep(x))'
  <2>. SUFFICES ASSUME NEW x \in Boards PROVE BoardInStep(x)'
    OBVIOUS
  <2>1. Holds(x)'
    BY <1>10 DEF AddCdev, Holds
  <2>2. Failed(x)'
    BY <1>10 DEF AddCdev, Failed
  <2>3. Handled(x)'
    BY <1>10 DEF AddCdev, Handled, Holds
  <2>4. Opened(x)'
    BY <1>10 DEF AddCdev, Opened
  <2>5. Tidy(x)'
    BY <1>10 DEF AddCdev, Tidy
  <2>. QED
    BY <2>1, <2>2, <2>3, <2>4, <2>5
<1>11. ASSUME NEW b \in Boards, FailUnmap(b) PROVE (\A x \in Boards : BoardInStep(x))'
  <2>. SUFFICES ASSUME NEW x \in Boards PROVE BoardInStep(x)'
    OBVIOUS
  <2>1. Holds(x)'
    BY <1>11 DEF FailUnmap, Holds
  <2>2. Failed(x)'
    BY <1>11 DEF FailUnmap, Failed
  <2>3. Handled(x)'
    BY <1>11 DEF FailUnmap, Handled
  <2>4. Opened(x)'
    BY <1>11 DEF FailUnmap, Opened
  <2>5. Tidy(x)'
    BY <1>11 DEF FailUnmap, Tidy
  <2>. QED
    BY <2>1, <2>2, <2>3, <2>4, <2>5
<1>12. ASSUME NEW b \in Boards, FailUncount(b) PROVE (\A x \in Boards : BoardInStep(x))'
  <2>. SUFFICES ASSUME NEW x \in Boards PROVE BoardInStep(x)'
    OBVIOUS
  <2>1. Holds(x)'
    BY <1>12 DEF FailUncount, Holds
  <2>2. Failed(x)'
    BY <1>12 DEF FailUncount, Failed
  <2>3. Handled(x)'
    BY <1>12 DEF FailUncount, Handled
  <2>4. Opened(x)'
    BY <1>12 DEF FailUncount, Opened
  <2>5. Tidy(x)'
    BY <1>12 DEF FailUncount, Tidy
  <2>. QED
    BY <2>1, <2>2, <2>3, <2>4, <2>5
<1>13. ASSUME NEW b \in Boards, FailDisable(b) PROVE (\A x \in Boards : BoardInStep(x))'
  <2>. SUFFICES ASSUME NEW x \in Boards PROVE BoardInStep(x)'
    OBVIOUS
  <2>1. Holds(x)'
    BY <1>13 DEF FailDisable, Holds
  <2>2. Failed(x)'
    BY <1>13 DEF FailDisable, Failed
  <2>3. Handled(x)'
    BY <1>13 DEF FailDisable, Handled, Failed
  <2>4. Opened(x)'
    BY <1>13 DEF FailDisable, Opened
  <2>5. Tidy(x)'
    BY <1>13 DEF FailDisable, Tidy
  <2>. QED
    BY <2>1, <2>2, <2>3, <2>4, <2>5
<1>14. ASSUME NEW b \in Boards, Remove(b) PROVE (\A x \in Boards : BoardInStep(x))'
  <2>. SUFFICES ASSUME NEW x \in Boards PROVE BoardInStep(x)'
    OBVIOUS
  <2>1. Holds(x)'
    BY <1>14 DEF Remove, Holds
  <2>2. Failed(x)'
    BY <1>14 DEF Remove, Failed
  <2>3. Handled(x)'
    BY <1>14 DEF Remove, Handled
  <2>4. Opened(x)'
    BY <1>14 DEF Remove, Opened
  <2>5. Tidy(x)'
    BY <1>14 DEF Remove, Tidy
  <2>. QED
    BY <2>1, <2>2, <2>3, <2>4, <2>5
<1>15. ASSUME NEW b \in Boards, RemoveIrq(b) PROVE (\A x \in Boards : BoardInStep(x))'
  <2>. SUFFICES ASSUME NEW x \in Boards PROVE BoardInStep(x)'
    OBVIOUS
  <2>1. Holds(x)'
    BY <1>15 DEF RemoveIrq, Holds
  <2>2. Failed(x)'
    BY <1>15 DEF RemoveIrq, Failed
  <2>3. Handled(x)'
    BY <1>15 DEF RemoveIrq, Handled
  <2>4. Opened(x)'
    BY <1>15 DEF RemoveIrq, Opened
  <2>5. Tidy(x)'
    BY <1>15 DEF RemoveIrq, Tidy
  <2>. QED
    BY <2>1, <2>2, <2>3, <2>4, <2>5
<1>16. ASSUME NEW b \in Boards, RemoveNode(b) PROVE (\A x \in Boards : BoardInStep(x))'
  <2>. SUFFICES ASSUME NEW x \in Boards PROVE BoardInStep(x)'
    OBVIOUS
  <2>1. Holds(x)'
    BY <1>16 DEF RemoveNode, Holds
  <2>2. Failed(x)'
    BY <1>16 DEF RemoveNode, Failed
  <2>3. Handled(x)'
    BY <1>16 DEF RemoveNode, Handled
  <2>4. Opened(x)'
    BY <1>16 DEF RemoveNode, Opened
  <2>5. Tidy(x)'
    BY <1>16 DEF RemoveNode, Tidy
  <2>. QED
    BY <2>1, <2>2, <2>3, <2>4, <2>5
<1>17. ASSUME NEW b \in Boards, RemoveFree(b) PROVE (\A x \in Boards : BoardInStep(x))'
  <2>. SUFFICES ASSUME NEW x \in Boards PROVE BoardInStep(x)'
    OBVIOUS
  <2>1. Holds(x)'
    BY <1>17 DEF RemoveFree, Holds
  <2>2. Failed(x)'
    BY <1>17 DEF RemoveFree, Failed
  <2>3. Handled(x)'
    BY <1>17 DEF RemoveFree, Handled
  <2>4. Opened(x)'
    BY <1>17 DEF RemoveFree, Opened
  <2>5. Tidy(x)'
    BY <1>17 DEF RemoveFree, Tidy
  <2>. QED
    BY <2>1, <2>2, <2>3, <2>4, <2>5
<1>18. ASSUME NEW b \in Boards, Open(b) PROVE (\A x \in Boards : BoardInStep(x))'
  <2>. SUFFICES ASSUME NEW x \in Boards PROVE BoardInStep(x)'
    OBVIOUS
  <2>1. Holds(x)'
    BY <1>18 DEF Open, Holds
  <2>2. Failed(x)'
    BY <1>18 DEF Open, Failed
  <2>3. Handled(x)'
    BY <1>18 DEF Open, Handled
  <2>4. Opened(x)'
    BY <1>18 DEF Open, Opened
  <2>5. Tidy(x)'
    BY <1>18 DEF Open, Tidy
  <2>. QED
    BY <2>1, <2>2, <2>3, <2>4, <2>5
<1>19. ASSUME NEW b \in Boards, Close(b) PROVE (\A x \in Boards : BoardInStep(x))'
  <2>. SUFFICES ASSUME NEW x \in Boards PROVE BoardInStep(x)'
    OBVIOUS
  <2>1. Holds(x)'
    BY <1>19 DEF Close, Holds
  <2>2. Failed(x)'
    BY <1>19 DEF Close, Failed
  <2>3. Handled(x)'
    BY <1>19 DEF Close, Handled
  <2>4. Opened(x)'
    BY <1>19 DEF Close, Opened
  <2>5. Tidy(x)'
    BY <1>19 DEF Close, Tidy
  <2>. QED
    BY <2>1, <2>2, <2>3, <2>4, <2>5
<1>20. ASSUME NEW b \in Boards, Buffer(b) PROVE (\A x \in Boards : BoardInStep(x))'
  <2>. SUFFICES ASSUME NEW x \in Boards PROVE BoardInStep(x)'
    OBVIOUS
  <2>1. Holds(x)'
    BY <1>20 DEF Buffer, Holds
  <2>2. Failed(x)'
    BY <1>20 DEF Buffer, Failed
  <2>3. Handled(x)'
    BY <1>20 DEF Buffer, Handled
  <2>4. Opened(x)'
    BY <1>20 DEF Buffer, Opened
  <2>5. Tidy(x)'
    BY <1>20 DEF Buffer, Tidy, Opened
  <2>. QED
    BY <2>1, <2>2, <2>3, <2>4, <2>5
<1>. QED
  BY <1>1, <1>2, <1>3, <1>4, <1>5, <1>6, <1>7, <1>8, <1>9, <1>10, <1>11, <1>12, <1>13, <1>14, <1>15, <1>16, <1>17, <1>18, <1>19, <1>20 DEF Next, ProbeStep, RemoveStep

\* IInv holds in every state of the driver.
THEOREM Invariance == Spec => []IInv
<1>1. Init => IInv
  <2>. SUFFICES ASSUME Init PROVE IInv
    OBVIOUS
  <2>1. Typing
    <3>1. 0 \in 0 .. MaxOpens /\ 0 \in 0 .. MaxBuffers
      BY BoundsAssumption
    <3>2. opens \in [Boards -> 0 .. MaxOpens] /\ kmem \in [Boards -> 0 .. MaxBuffers]
      BY <3>1 DEF Init
    <3>. QED
      BY <3>2 DEF Init, Typing, Positions
  <2>2. ModuleInStep /\ OneProbe /\ Numbers
    BY DEF Init, ModuleInStep, OneProbe, Probing, Numbers, Numbered, Counted
  <2>3. \A b \in Boards : BoardInStep(b)
    BY DEF Init, BoardInStep, Holds, Failed, Handled, Opened, Tidy
  <2>. QED
    BY <2>1, <2>2, <2>3, TypingIsTypeOK DEF IInv
<1>2. IInv /\ [Next]_vars => IInv'
  <2>1. ASSUME IInv, Next PROVE IInv'
    <3>1. Typing' => TypeOK'
      BY DEF TypeOK, Typing
    <3>. QED
      BY <2>1, <3>1, TypingStep, ModuleStep, ProbeOnce, NumbersStep, BoardStep DEF IInv
  <2>2. ASSUME IInv, UNCHANGED vars PROVE IInv'
    BY <2>2
    DEF IInv, TypeOK, vars, driver, held, usage, ModuleInStep, OneProbe, Numbers, Numbered,
        BoardInStep, Holds, Failed, Handled, Opened, Tidy
  <2>. QED
    BY <2>1, <2>2
<1>. QED
  BY <1>1, <1>2, PTL DEF Spec

\* Type correctness.
THEOREM TypeCorrect == Spec => []TypeOK
<1>1. IInv => TypeOK
  BY DEF IInv
<1>. QED
  BY <1>1, Invariance, PTL

\* Devices have numbers of their own, however probes and removals of the boards
\* interleave and fail (base.c:366-372, 446, 498).
THEOREM NumbersUnique == Spec => []OwnNumber
<1>1. IInv => OwnNumber
  BY TypingIsTypeOK DEF IInv, Typing, ModuleInStep, Numbers, Numbered, BoardInStep, Holds, OwnNumber
<1>. QED
  BY <1>1, Invariance, PTL

\* The handler and the open files of a board have its data, but for the mishaps
\* that NoDangling names (base.c:443-447, 485-498).
THEOREM NothingDangles == Spec => []NoDangling
<1>1. IInv => NoDangling
  <2>. SUFFICES ASSUME IInv, NEW b \in Boards
                PROVE  /\ irq[b] /\ Spared(b, {"late"}) => privdata[b] = "live" /\ kmapped[b]
                       /\ (node[b] \/ opens[b] > 0) /\ Spared(b, {"pulled"}) => privdata[b] = "live"
    BY DEF NoDangling
  <2>1. Holds(b) /\ Handled(b) /\ Opened(b) /\ Typing
    BY TypingIsTypeOK DEF IInv, BoardInStep
  <2>2. Spared(b, {"late"}) => <<b, "late">> \notin mishaps
    BY DEF Spared
  <2>3. Spared(b, {"pulled"}) => <<b, "pulled">> \notin mishaps
    BY DEF Spared
  <2>4. irq[b] /\ <<b, "late">> \notin mishaps => privdata[b] = "live" /\ kmapped[b]
    BY <2>1 DEF Holds, Handled
  <2>5. opens[b] > 0 => opens[b] # 0
    OBVIOUS
  <2>6. (node[b] \/ opens[b] # 0) /\ <<b, "pulled">> \notin mishaps => privdata[b] = "live"
    BY <2>1 DEF Holds, Opened
  <2>. QED
    BY <2>2, <2>3, <2>4, <2>5, <2>6
<1>. QED
  BY <1>1, Invariance, PTL

\* Unloading leaves nothing of a board without mishaps (base.c:260-270, 458-504).
THEOREM UnloadsClean == Spec => []CleanUnload
<1>1. IInv => CleanUnload
  <2>. SUFFICES ASSUME IInv, module = "unloaded", NEW b \in Boards, Spared(b, {"bars", "late", "pulled"})
                PROVE  /\ ~irq[b] /\ ~region[b] /\ ~kmapped[b] /\ ~files[b] /\ ~node[b]
                       /\ ~enabled[b] /\ ~classdev[b]
                       /\ privdata[b] # "live" /\ kmem[b] = 0
    BY DEF CleanUnload
  <2>1. pc[b] = "unbound" /\ Holds(b) /\ Tidy(b)
    BY DEF IInv, ModuleInStep, BoardInStep
  <2>2. ~ \E m \in {"bars", "late", "pulled"} : <<b, m>> \in mishaps
    BY DEF Spared
  <2>. QED
    BY <2>1, <2>2 DEF Holds, Tidy
<1>. QED
  BY <1>1, Invariance, PTL
=============================================================================
