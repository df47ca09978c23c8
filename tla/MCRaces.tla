------------------------------- MODULE MCRaces -------------------------------
(* A small instance of GroupRaces for TLC. *)
EXTENDS GroupRaces, TLC

CONSTANTS u1, u2, u3, h1, h2

Alone == <<u1>>

\* Request threads are interchangeable, and so are the users who are not in the
\* first group.
RaceSymmetry == Permutations({h1, h2}) \cup Permutations({u2, u3})
=============================================================================
