---------------------------- MODULE MCLifecycle ----------------------------
(* Lifecycle for TLC: the scenarios the configurations choose from.        *)
EXTENDS Lifecycle, TLC

UpCmd(sess, disable, primary) ==
    [op |-> "up", sess |-> sess, disable |-> disable, primary |-> primary]
DownCmd(sess) == [op |-> "down", sess |-> sess, disable |-> FALSE, primary |-> FALSE]
ResetCmd(sess) == [op |-> "reset", sess |-> sess, disable |-> FALSE, primary |-> FALSE]

(* One command line of each kind, in the session and out of it.            *)
AllCommands ==
    {UpCmd(TRUE, FALSE, FALSE), UpCmd(TRUE, TRUE, TRUE), UpCmd(FALSE, FALSE, FALSE),
     DownCmd(TRUE), DownCmd(FALSE), ResetCmd(TRUE)}

(* up, plain or taking over the desk, and the two ways to undo it.         *)
DeskCommands ==
    {UpCmd(TRUE, FALSE, FALSE), UpCmd(TRUE, TRUE, TRUE), DownCmd(TRUE), ResetCmd(TRUE)}

(* Those, and an up from outside the session.                              *)
MixedCommands == DeskCommands \cup {UpCmd(FALSE, FALSE, FALSE)}

NoFaults == {}
CrashOnly == {"crash"}
AllFaults == Fault
ButHang == Fault \ {"hang"}
Alike == Permutations(Proc) \cup Permutations(Conn) \cup Permutations(Real)
TwoSlots == 0..1
ThreeSlots == 0..2
=============================================================================
