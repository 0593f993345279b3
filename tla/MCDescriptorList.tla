--------------------------- MODULE MCDescriptorList ---------------------------
(***************************************************************************)
(* User memory of four dwords in three blocks, so that a transfer has a    *)
(* first, a middle and a last descriptor and may start or end inside one;  *)
(* two dwords of kernel memory in three pieces that do not end at a dword; *)
(* two dwords of kernel memory.                                            *)
(***************************************************************************)
EXTENDS DescriptorList

CONSTANTS u, p, k

AllBuffers == {u, p, k}
Types == [b \in Buffers |-> IF b = u THEN "USER"
                            ELSE IF b = p THEN "KERNEL_PIECES" ELSE "KERNEL"]
Memory == [b \in Buffers |->
              IF b = u THEN <<[addr |-> 100, len |-> 4], [addr |-> 200, len |-> 8],
                              [addr |-> 300, len |-> 4]>>
              ELSE <<[addr |-> IF b = p THEN 400 ELSE 500, len |-> 8]>>]
BothChannels == {0, 1}
=============================================================================
