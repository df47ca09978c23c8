------------------------------- MODULE Groups -------------------------------
(***************************************************************************)
(* What the group service promises to its users, as one table of groups:   *)
(* a group has members, one of whom leads it; joining is open while there  *)
(* is room; the leader may change the group; a leader who leaves hands the *)
(* group over, and the group ends with its last member.                    *)
(***************************************************************************)
EXTENDS Naturals, FiniteSets, Functions

CONSTANTS Users, GroupIds, MaxCounts, Contents

VARIABLE groups  \* group id |-> [members, leads, max, rev]

Init == \E g \in GroupIds, m \in MaxCounts, c \in Contents,
           M \in SUBSET Users, u \in Users :
  /\ u \in M /\ Cardinality(M) <= m
  /\ groups = [x \in {g} |-> [members |-> M, leads |-> {u}, max |-> m, rev |-> c]]

Create(u, g, m, c) ==
  /\ g \notin DOMAIN groups
  /\ groups' = [x \in DOMAIN groups \cup {g} |->
                  IF x = g
                    THEN [members |-> {u}, leads |-> {u}, max |-> m, rev |-> c]
                    ELSE groups[x]]

Join(u, g) ==
  /\ u \notin groups[g].members
  /\ Cardinality(groups[g].members) < groups[g].max
  /\ groups' = [groups EXCEPT ![g].members = @ \cup {u}]

Update(u, g, m, c) ==
  /\ u \in groups[g].leads
  /\ groups' = [groups EXCEPT ![g].max = m, ![g].rev = c]

\* A member who does not lead, and is therefore not the only one, just goes.
Leave(u, g) ==
  /\ u \in groups[g].members \ groups[g].leads
  /\ groups' = [groups EXCEPT ![g].members = @ \ {u}]

HandOver(u, g) ==
  /\ u \in groups[g].leads
  /\ \E v \in groups[g].members \ {u} :
       groups' = [groups EXCEPT ![g].members = @ \ {u}, ![g].leads = {v}]

Dissolve(u, g) ==
  /\ groups[g].members = {u}
  /\ groups' = Restrict(groups, DOMAIN groups \ {g})

Next ==
  \E u \in Users :
    \/ \E g \in GroupIds, m \in MaxCounts, c \in Contents : Create(u, g, m, c)
    \/ \E g \in DOMAIN groups :
         \/ Join(u, g) \/ Leave(u, g) \/ HandOver(u, g) \/ Dissolve(u, g)
         \/ \E m \in MaxCounts, c \in Contents : Update(u, g, m, c)

Spec == Init /\ [][Next]_groups
=============================================================================
