----------------------------- MODULE MCListings -----------------------------
(* Small instances of Listings for TLC. *)
EXTENDS Listings, GroupProperties

CONSTANTS u1, u2, u3, h1

Pair == <<u1, u2>>

W(a, b, from, to) == [info |-> [k \in Attributes |-> IF k = "a" THEN a ELSE b],
                      start |-> from, end |-> to]

\* Nothing is said of the second attribute.
Less(w) == [w EXCEPT !.info = [k \in Attributes \ {"b"} |-> w.info[k]]]

\* A player who names everything, and groups that match and play longer, leave
\* one thing out and play within, miss one and play past midnight.
SomeProfiles == {W("x", "y", 14, 16)}
SomeOffers == {W("x", "y", 13, 17), Less(W("x", Open, 14, 15)), W("y", "y", 21, 2)}

\* The score counts how hours lie to each other, for all that end on the day
\* they begin.
Grid == {W(a, b, from, to) : a \in {Open, "x"}, b \in {Open, "x", "y"},
                             from \in {9, 10, 12, NoTime}, to \in {13, 14, 16, NoTime}}
ASSUME ScoreIsFit ==
  \A u, g \in Grid : /\ Total(u, g) = Fit(u, g)
                     /\ Total(Less(u), g) = Fit(Less(u), g)
                     /\ Total(u, Less(g)) = Fit(u, Less(g))
=============================================================================
