------------------------------- MODULE MCParts -------------------------------
(***************************************************************************)
(* Parts for TLC.                                                          *)
(*                                                                         *)
(* Boards of three words of memory under six addresses, so that a block    *)
(* may end anywhere, and wrap.  Two threads on the main FPGA.  DMA buffers *)
(* of two words.  Seconds of four milliseconds, and sleeps that end in the *)
(* same second, in the next one and in the one after.  Bitstream files of  *)
(* up to three lines under headers of every size.  A configuration space   *)
(* of eight bytes whose first four, the identity, are fixed.  Two threads, *)
(* two objects and three descriptors; three devices under two numbers.     *)
(* Two boards of the creotech driver and two processes.  Two devices under *)
(* test, so that a thread of the first may meet the second.  Buffers of up *)
(* to three pages of four bytes, at every offset, on four pages of the bus *)
(* in every order.                                                         *)
(***************************************************************************)
EXTENDS Parts, TLC

CONSTANTS t1, t2, o1, o2, h1, h2, b1, b2, p1, p2

Symmetry == Permutations({t1, t2}) \cup Permutations({o1, o2})

Memory == [mem |-> 3, fifo |-> 1, regs |-> 1]
=============================================================================
