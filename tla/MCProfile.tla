----------------------------- MODULE MCProfile ------------------------------
(* Instances of ProfilePage for TLC. *)
EXTENDS ProfilePage, TLC

CONSTANTS g1, g2, f1, f2
TwoGames == {g1, g2}
ValidForms == {f1, f2}
AllFaults == {"games", "game", "list", "item", "user", "save"}
Symmetry == Permutations(TwoGames) \cup Permutations(ValidForms)
=============================================================================
