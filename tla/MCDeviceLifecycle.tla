-------------------------- MODULE MCDeviceLifecycle --------------------------
(***************************************************************************)
(* Two boards that come and go under a driver that gives out two numbers:  *)
(* any step may fail, and one of the boards may be one too many.           *)
(***************************************************************************)
EXTENDS DeviceLifecycle, TLC

CONSTANTS b1, b2

TwoBoards == {b1, b2}
BoardSymmetry == Permutations(Boards)

AllFailures == {"chrdev", "class", "register", "privdata", "request", "remap",
                "files", "cdev"}
=============================================================================
