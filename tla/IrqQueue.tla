------------------------------ MODULE IrqQueue ------------------------------
(***************************************************************************)
(* What PCIDRIVER_IOC_WAITI promises to the processes that use it, without *)
(* saying how: every interrupt source carries a counter of interrupts that *)
(* nobody has consumed yet.  An interrupt adds one, a wait that returns    *)
(* takes one, and no wait returns while the counter is empty.              *)
(*                                                                         *)
(* IrqWait.tla is the driver's implementation of this counter with one     *)
(* atomic_t that waiters decrement before they know whether they may.      *)
(***************************************************************************)
EXTENDS Naturals

CONSTANT Sources          \* interrupt sources of the board

VARIABLE pending          \* pending[s]: interrupts of s not yet consumed

Init == pending = [s \in Sources |-> 0]

\* The device raises source s.
Deliver(s) == pending' = [pending EXCEPT ![s] = @ + 1]

\* A wait on s returns to its caller.
Take(s) ==
    /\ pending[s] > 0
    /\ pending' = [pending EXCEPT ![s] = @ - 1]

Next == \E s \in Sources : Deliver(s) \/ Take(s)

Spec == Init /\ [][Next]_pending
=============================================================================
