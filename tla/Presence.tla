------------------------------ MODULE Presence ------------------------------
(***************************************************************************)
(* What the presence server promises: a user is in one group's chat or in  *)
(* none, and a request to come in or to go takes effect at once and as a   *)
(* whole, or not at all.                                                   *)
(***************************************************************************)
CONSTANTS Users, Groups, Slots, Nowhere

Requests == [user : Users, to : Groups \cup {Nowhere}]
Nothing == [user |-> Nowhere, to |-> Nowhere]

VARIABLES
  present,  \* where each user is
  pending   \* the requests not served yet, by slot

vars == <<present, pending>>

Init ==
  /\ present = [u \in Users |-> Nowhere]
  /\ pending = [s \in Slots |-> Nothing]

Ask(s) ==
  /\ pending[s] = Nothing
  /\ \E r \in Requests : pending' = [pending EXCEPT ![s] = r]
  /\ UNCHANGED present

Serve(s) ==
  /\ pending[s] # Nothing
  /\ present' = [present EXCEPT ![pending[s].user] = pending[s].to]
  /\ pending' = [pending EXCEPT ![s] = Nothing]

Refuse(s) ==
  /\ pending[s] # Nothing
  /\ pending' = [pending EXCEPT ![s] = Nothing]
  /\ UNCHANGED present

\* The server restarts: who is present is remembered, requests are not.
Restart ==
  /\ pending' = [s \in Slots |-> Nothing]
  /\ UNCHANGED present

Next ==
  \/ Restart
  \/ \E s \in Slots : Ask(s) \/ Serve(s) \/ Refuse(s)

Spec == Init /\ [][Next]_vars
=============================================================================
