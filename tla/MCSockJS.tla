------------------------------ MODULE MCSockJS ------------------------------
(* Instances of SockJS for TLC. *)
EXTENDS SockJS, TLC

TransportsOfABrowser == <<"websocket", "ajax", "ajax">>
=============================================================================
