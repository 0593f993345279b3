------------------------------ MODULE MCIrqWait ------------------------------
(***************************************************************************)
(* Instances of IrqWait for TLC.  Two sources stand for the sixteen: one a *)
(* process clears, one nobody does.  The arguments include the first one   *)
(* out of range.                                                           *)
(***************************************************************************)
EXTENDS IrqWait

CONSTANTS w1, w2

TwoWaiters == {w1, w2}
AllArgs    == 0 .. MaxSources
FirstOnly  == {0}
=============================================================================
