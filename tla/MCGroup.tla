------------------------------- MODULE MCGroup -------------------------------
(* Small instances of GroupService for TLC. *)
EXTENDS GroupProperties, TLC

CONSTANTS u1, u2, u3, h1, h2

Pair == <<u1, u2>>
Trio == <<u1, u2, u3>>

\* Request threads are interchangeable; TLC uses this for safety only.
HandlerSymmetry == Permutations({h1, h2})
=============================================================================
