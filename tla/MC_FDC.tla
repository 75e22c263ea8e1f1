------------------------------- MODULE MC_FDC -------------------------------
(* Small instances of FDC.  The steps from outside, which could disturb    *)
(* the controller for ever, are limited to a number.                       *)
EXTENDS FDC

CONSTANTS d1, Moves

VARIABLE moves

OneDrive == {d1}

Cmd(op, flags) == [op |-> op, flags |-> flags]

AllOps == {
  Cmd("RESTORE", {"VERIFY"}), Cmd("SEEK", {"NO_SPIN_UP"}), Cmd("STEP_IN", {"UPDATE_TRACK"}),
  Cmd("STEP_OUT", {"NO_SPIN_UP", "VERIFY"}), Cmd("READSECTORS", {"MULTIPLE_SECTOR"}),
  Cmd("WRITESECTORS", {"NO_SPIN_UP", "HEAD_LOAD", "MULTIPLE_SECTOR"}),
  Cmd("WRITESECTORS", {}), Cmd("READADDRESS", {"NO_SPIN_UP", "HEAD_LOAD"}), Cmd("READTRACK", {"NO_SPIN_UP"}),
  Cmd("WRITETRACK", {"NO_SPIN_UP"}),
  Cmd("FORCE", {}), Cmd("FORCE", {"IMMEDIATE"}), Cmd("FORCE", {"IP"})}

MCInit == Init /\ moves = 0

MCNext ==
  \/ Machine /\ UNCHANGED moves
  \/ moves < Moves /\ Outside /\ moves' = moves + 1

MCSpec == MCInit /\ [][MCNext]_<<vars, moves>> /\ Fairness
=============================================================================
