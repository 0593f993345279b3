---------------------------- MODULE MCKmemBuffers ----------------------------
(***************************************************************************)
(* Instances of KmemBuffers for TLC: two threads with kernel buffers, of   *)
(* one process or of two, with or without one that maps BARs beside the    *)
(* first of them.                                                          *)
(***************************************************************************)
EXTENDS KmemBuffers

CONSTANTS b1, b2, m1, p1, p2, a1, a2

TwoBufs      == {b1, b2}
OneBar       == {m1}
NoThread     == {}
OneProcess   == {p1}
TwoProcesses == {p1, p2}
SameProcess  == [t \in Threads |-> p1]
TwoAndOne    == [t \in Threads |-> IF t = b2 THEN p2 ELSE p1]
TwoAddresses == {a1, a2}
BarSet       == {0, 1}
=============================================================================
