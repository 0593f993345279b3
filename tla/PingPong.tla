------------------------------ MODULE PingPong ------------------------------
(***************************************************************************)
(* What the stream ioctls of the creotech driver promise, "get next piece  *)
(* of data (PING-PONG data transfer)": two halves of a buffer are filled   *)
(* in turn; a half is handed to the program only when it is full, and      *)
(* while the program has it only the other one is being filled.            *)
(***************************************************************************)
EXTENDS Naturals

VARIABLES
    half,       \* the half being filled
    full,       \* it is full
    held        \* the halves the program may read: none or one

vars == <<half, full, held>>

Init == half \in {0, 1} /\ full = FALSE /\ held = {}

\* A stream starts, whatever went on before.
Start == half' = 0 /\ full' = FALSE /\ held' = {}

\* The device fills the half.
Fill == ~full /\ full' = TRUE /\ UNCHANGED <<half, held>>

\* The program asks for the next half: it gives the one it has back.
Ask == held' = {} /\ UNCHANGED <<half, full>>

\* The full half is handed over and the other is to be filled.  The program
\* does not get it when it asked with a bad pointer.
Hand ==
    /\ full
    /\ half' = 1 - half
    /\ full' = FALSE
    /\ held' \in {{half}, {}}

Next == Start \/ Fill \/ Ask \/ Hand

Spec == Init /\ [][Next]_vars
=============================================================================
