------------------------------ MODULE MCServer ------------------------------
(* Instances of ChatServer for TLC. *)
EXTENDS ChatServer, TLC

CONSTANTS u1, u2, g1, g2, t1, t2
TwoUsers == {u1, u2}
TwoGroups == {g1, g2}
TwoTasks == {t1, t2}
Symmetry == Permutations(TwoUsers) \cup Permutations(TwoGroups) \cup Permutations(TwoTasks)
=============================================================================
