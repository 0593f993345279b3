-------------------------- MODULE MCCreotechStream --------------------------
(***************************************************************************)
(* Sets of calls and of values for dma_count for the runs of               *)
(* CreotechStream, besides the stream ioctls every program makes.          *)
(***************************************************************************)
EXTENDS CreotechStream

StreamOnly == {}
AllCalls   == {"READ", "WRITE", "RESET", "SET_TLPCOUNT", "SET_DMACOUNT"}
One        == {1}
UpToThree  == {1, 2, 3}
=============================================================================
