------------------------------- MODULE MCChat -------------------------------
(* Instances of ChatPage for TLC: numbers for the connections, so that the  *)
(* one taken next is the same in every state.                               *)
EXTENDS ChatPage, TLC

CONSTANTS g1, g2
TwoGroups == {g1, g2}
TwoConns == 1..2
GroupSymmetry == Permutations(TwoGroups)
=============================================================================
