----------------------------- MODULE Connection -----------------------------
(***************************************************************************)
(* What a SockJS connection promises its page: one open event at most,     *)
(* then one close event, after which nothing follows; and to the server,   *)
(* of what the page has sent while it was open, a beginning: nothing out   *)
(* of order, nothing twice, nothing after a gap.                           *)
(***************************************************************************)
EXTENDS Naturals, Sequences

VARIABLES
  events,  \* dispatched to the page
  ending,  \* nothing is accepted any more
  said,    \* messages accepted from the page: 1, 2, ...
  heard    \* messages the server has got

vars == <<events, ending, said, heard>>

UpTo(n) == [i \in 1 .. n |-> i]

Init == events = <<>> /\ ending = FALSE /\ said = 0 /\ heard = <<>>

Open ==
  /\ events = <<>> /\ ~ending
  /\ events' = <<"open">>
  /\ UNCHANGED <<ending, said, heard>>

Say ==
  /\ events = <<"open">> /\ ~ending
  /\ said' = said + 1
  /\ UNCHANGED <<events, ending, heard>>

Hear ==
  /\ \E n \in Len(heard) + 1 .. said : heard' = UpTo(n)
  /\ UNCHANGED <<events, ending, said>>

End ==
  /\ ~ending /\ ending' = TRUE
  /\ UNCHANGED <<events, said, heard>>

Close ==
  /\ ending /\ events \in {<<>>, <<"open">>}
  /\ events' = Append(events, "close")
  /\ UNCHANGED <<ending, said, heard>>

Next == Open \/ Say \/ Hear \/ End \/ Close

Spec == Init /\ [][Next]_vars
=============================================================================
