----------------------------- MODULE MCUserMemory -----------------------------
(***************************************************************************)
(* Two threads whose buffers share a page, as two small buffers on a heap  *)
(* do, and somebody who writes to umem_unmap.                              *)
(***************************************************************************)
EXTENDS UserMemory

CONSTANTS m1, m2, s, p1, p2, p3

ThreePages == {p1, p2, p3}
TwoMappers == {m1, m2}
OneCleaner == {s}
Sharing == [t \in Mappers |-> IF t = m1 THEN {p1, p2} ELSE {p2, p3}]
=============================================================================
