------------------------------- MODULE IrqWait -------------------------------
(***************************************************************************)
(* The interrupt counters of the opencores driver: the atomic_t array      *)
(* irq_outstanding (common.h:45), incremented by the interrupt handler     *)
(* (int.c), consumed by the wait ioctl and reset by the clear ioctl        *)
(* (ioctl.c).                                                              *)
(*                                                                         *)
(* ioctl_wait_interrupt has no lock.  It sleeps on the wait queue until    *)
(* the counter is positive, 10 ms pass or a signal arrives, and in all     *)
(* three cases goes on to decrement the counter with atomic_add_negative.  *)
(* If the result is negative there was nothing to take, and it undoes the  *)
(* decrement with a second atomic operation; every other process can run   *)
(* between the two.                                                        *)
(***************************************************************************)
EXTENDS Integers, FiniteSets

CONSTANTS
    MaxSources,     \* PCIDRIVER_INT_MAXSOURCES, the size of the array
    Args,           \* the ioctl arguments the processes use
    Waiters,        \* processes that call PCIDRIVER_IOC_WAITI
    ClearSources,   \* sources some process calls PCIDRIVER_IOC_CLEAR_IOQ on
    MaxIrq,         \* bound: interrupts raised per source
    MaxClear        \* bound: clear ioctls per source

Sources == 0 .. MaxSources - 1

ASSUME MaxSourcesAssumption == MaxSources \in Nat \ {0}
ASSUME ArgsAssumption == Args \subseteq Nat
ASSUME WaitersAssumption == IsFiniteSet(Waiters)
ASSUME ClearAssumption == ClearSources \subseteq Sources
ASSUME BoundsAssumption == MaxIrq \in Nat /\ MaxClear \in Nat

VARIABLES
    outstanding,    \* irq_outstanding
    pc,             \* where each process is in ioctl_wait_interrupt
    src,            \* its local irq_source
    ret,            \* what its last wait returned
    delivered,      \* history: interrupts the handler counted
    taken,          \* history: waits that returned 0
    dropped,        \* history: what clears removed from the counter
    clears          \* history: number of clears

vars == <<outstanding, pc, src, ret, delivered, taken, dropped, clears>>

PC  == {"idle", "sleep", "undo"}
Ret == {"none", "OK", "EFAULT"}

Init ==
    /\ outstanding = [s \in Sources |-> 0]
    /\ pc = [w \in Waiters |-> "idle"]
    /\ src = [w \in Waiters |-> 0]
    /\ ret = [w \in Waiters |-> "none"]
    /\ delivered = [s \in Sources |-> 0]
    /\ taken = [s \in Sources |-> 0]
    /\ dropped = [s \in Sources |-> 0]
    /\ clears = [s \in Sources |-> 0]

-----------------------------------------------------------------------------
\* Variants for the mutation runs: a range check off by one, a decrement that
\* is tested before instead of after, one that is not tested, and failed
\* decrements that are not undone.
InRangeOffByOne(arg) == arg <= MaxSources

TakeTestsBefore(w) ==
    /\ pc[w] = "sleep"
    /\ outstanding[src[w]] >= 0
    /\ outstanding' = [outstanding EXCEPT ![src[w]] = @ - 1]
    /\ taken' = [taken EXCEPT ![src[w]] = @ + 1]
    /\ pc' = [pc EXCEPT ![w] = "idle"]
    /\ ret' = [ret EXCEPT ![w] = "OK"]
    /\ UNCHANGED <<src, delivered, dropped, clears>>

MissUntested(w) ==
    /\ pc[w] = "sleep"
    /\ outstanding' = [outstanding EXCEPT ![src[w]] = @ - 1]
    /\ pc' = [pc EXCEPT ![w] = "undo"]
    /\ UNCHANGED <<src, ret, delivered, taken, dropped, clears>>

UndoForgets(w) ==
    /\ pc[w] = "undo"
    /\ pc' = [pc EXCEPT ![w] = "sleep"]
    /\ UNCHANGED <<outstanding, src, ret, delivered, taken, dropped, clears>>

-----------------------------------------------------------------------------
\* The handler found source s raised: atomic_inc, then wake_up.  A wake-up
\* leaves no trace in the state: a sleeper may go on at any time anyhow.
Deliver(s) ==
    /\ delivered[s] < MaxIrq
    /\ outstanding' = [outstanding EXCEPT ![s] = @ + 1]
    /\ delivered' = [delivered EXCEPT ![s] = @ + 1]
    /\ UNCHANGED <<pc, src, ret, taken, dropped, clears>>

\* The range check both ioctls make on their argument.
InRange(arg) == arg < MaxSources

\* A process calls the ioctl.  An argument out of range returns -EFAULT.
Call(w, arg) ==
    /\ pc[w] = "idle"
    /\ \/ /\ InRange(arg)
          /\ pc' = [pc EXCEPT ![w] = "sleep"]
          /\ src' = [src EXCEPT ![w] = arg]
          /\ ret' = [ret EXCEPT ![w] = "none"]
       \/ /\ ~InRange(arg)
          /\ ret' = [ret EXCEPT ![w] = "EFAULT"]
          /\ UNCHANGED <<pc, src>>
    /\ UNCHANGED <<outstanding, delivered, taken, dropped, clears>>

\* wait_event_interruptible_timeout returns (condition, timeout or signal)
\* and the decrement gives a value that is not negative: the wait is over.
Take(w) ==
    /\ pc[w] = "sleep"
    /\ outstanding[src[w]] - 1 >= 0
    /\ outstanding' = [outstanding EXCEPT ![src[w]] = @ - 1]
    /\ taken' = [taken EXCEPT ![src[w]] = @ + 1]
    /\ pc' = [pc EXCEPT ![w] = "idle"]
    /\ ret' = [ret EXCEPT ![w] = "OK"]
    /\ UNCHANGED <<src, delivered, dropped, clears>>

\* The same, but the result is negative: the decrement must be undone.
Miss(w) ==
    /\ pc[w] = "sleep"
    /\ outstanding[src[w]] - 1 < 0
    /\ outstanding' = [outstanding EXCEPT ![src[w]] = @ - 1]
    /\ pc' = [pc EXCEPT ![w] = "undo"]
    /\ UNCHANGED <<src, ret, delivered, taken, dropped, clears>>

\* atomic_inc, and back to the wait queue.
Undo(w) ==
    /\ pc[w] = "undo"
    /\ outstanding' = [outstanding EXCEPT ![src[w]] = @ + 1]
    /\ pc' = [pc EXCEPT ![w] = "sleep"]
    /\ UNCHANGED <<src, ret, delivered, taken, dropped, clears>>

\* ioctl_clear_ioq: atomic_set to 0, whatever the counter was.
Clear(s) ==
    /\ s \in ClearSources
    /\ clears[s] < MaxClear
    /\ dropped' = [dropped EXCEPT ![s] = @ + outstanding[s]]
    /\ outstanding' = [outstanding EXCEPT ![s] = 0]
    /\ clears' = [clears EXCEPT ![s] = @ + 1]
    /\ UNCHANGED <<pc, src, ret, delivered, taken>>

WaitStep(w) == Take(w) \/ Miss(w) \/ Undo(w)

Next ==
    \/ \E s \in Sources : Deliver(s) \/ Clear(s)
    \/ \E w \in Waiters : WaitStep(w) \/ \E arg \in Args : Call(w, arg)

Spec == Init /\ [][Next]_vars

\* A process inside the ioctl is scheduled again and its 10 ms sleep ends.
\* Nothing obliges the device to interrupt or a process to call.
FairSpec == Spec /\ \A w \in Waiters : WF_vars(WaitStep(w))

-----------------------------------------------------------------------------
\* Processes that have decremented the counter of s and not yet undone it.
Undoing(s) == {w \in Waiters : pc[w] = "undo" /\ src[w] = s}

\* The program counters and counters have the values the code can give
\* them, and no process works on a source outside the array.
TypeOK ==
    /\ outstanding \in [Sources -> Int]
    /\ pc \in [Waiters -> PC]
    /\ src \in [Waiters -> Sources]
    /\ ret \in [Waiters -> Ret]
    /\ delivered \in [Sources -> 0 .. MaxIrq]
    /\ taken \in [Sources -> Nat]
    /\ dropped \in [Sources -> Int]
    /\ clears \in [Sources -> 0 .. MaxClear]

\* Every interrupt is accounted for once: it is still in the counter, it was
\* returned by a wait or a clear removed it; a process between its failed
\* decrement and the undo owes the counter one (ioctl.c:347-352, int.c:227).
Conservation ==
    \A s \in Sources :
        outstanding[s] + Cardinality(Undoing(s)) + taken[s] + dropped[s]
            = delivered[s]

\* The counter is never more negative than the decrements in flight: once
\* the waiters are back in their sleep no later interrupt is swallowed to
\* pay for a wait that found nothing (ioctl.c:349-350).
NoDebtAtRest ==
    \A s \in Sources : outstanding[s] + Cardinality(Undoing(s)) >= 0

\* On a source that nobody clears, the wait ioctl returns at most once per
\* interrupt (ioctl.c:347-352 against int.c:227).
NoPhantomOnUncleared ==
    \A s \in Sources \ ClearSources : taken[s] <= delivered[s]

\* The conjunction that is preserved by every step.
IInv == TypeOK /\ Conservation /\ NoDebtAtRest
             /\ \A s \in Sources \ ClearSources : dropped[s] = 0

\* What the counter will hold once the failed decrements in flight are undone.
Pending(s) == outstanding[s] + Cardinality(Undoing(s))

\* The counting semaphore the wait ioctl implements on the sources that are
\* not cleared.
Uncleared == Sources \ ClearSources
Abstract == INSTANCE IrqQueue WITH
    Sources <- Uncleared,
    pending <- [s \in Uncleared |-> Pending(s)]

\* Waits and interrupts behave as a counting semaphore (IrqQueue): a step of
\* the handler or of a waiter is one of its steps or changes nothing there
\* (ioctl.c:343-355, int.c:226-229).
ImplementsIrqQueue == Abstract!Spec

\* Process w is inside the ioctl, for source s.
WaitsFor(w, s) == pc[w] # "idle" /\ src[w] = s

\* A process that waits for a source with an interrupt pending returns from
\* the ioctl, unless the interrupt is consumed or another process waits for
\* the source too: neither the handler's increment nor the wake-up can be
\* missed for good, in whatever order they meet the sleep.
WaiterReturns ==
    \A w \in Waiters : \A s \in Sources :
        (WaitsFor(w, s) /\ Pending(s) > 0)
            ~> \/ ~WaitsFor(w, s)
               \/ Pending(s) <= 0
               \/ \E v \in Waiters \ {w} : WaitsFor(v, s)
=============================================================================
