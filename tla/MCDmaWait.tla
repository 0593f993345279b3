------------------------------ MODULE MCDmaWait ------------------------------
(***************************************************************************)
(* Instances of DmaWait for TLC: one thread using both channels, two       *)
(* threads that may use one each, and a DMA thread beside one that waits   *)
(* for the interrupt generator.                                            *)
(***************************************************************************)
EXTENDS DmaWait

CONSTANTS t1, t2, g

One    == {t1}
Two    == {t1, t2}
IgUser == {g}
None   == {}
=============================================================================
