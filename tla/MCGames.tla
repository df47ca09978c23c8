------------------------------ MODULE MCGames -------------------------------
(* Instances of UserGames for TLC. *)
EXTENDS UserGames, TLC

CONSTANTS h1, h2, d1, d2, d3, d4, d5
TwoHandlers == {h1, h2}
FiveDocs == {d1, d2, d3, d4, d5}
Symmetry == Permutations(TwoHandlers) \cup Permutations(FiveDocs)
=============================================================================
