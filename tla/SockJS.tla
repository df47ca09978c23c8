------------------------------- MODULE SockJS -------------------------------
(***************************************************************************)
(* The connection below STOMP in the chat (sockjs.js, as the page loads    *)
(* it): the request for the server's info, the transports tried one after  *)
(* the other, and what becomes of the messages the page sends.             *)
(*                                                                         *)
(* Two kinds of transports differ in how they send: the websocket, and     *)
(* those that post batches with BufferedSender (xhr-streaming,             *)
(* eventsource, xhr-polling), here "ajax".  Every callback and every timer *)
(* is one action.  Messages are numbered in the order of send.  What the   *)
(* server sends but the frames o and c is left out, and so is the event    *)
(* "error"; send throws or drops what is sent before the open event or     *)
(* after close, and has no action then.                                    *)
(***************************************************************************)
EXTENDS Naturals, Sequences

CONSTANTS
  Transports,  \* those this browser can use, in the order they are tried
  MaxSends     \* bound: messages the page sends

\* transport-list.js (sockjs.js:1459): the websocket is the first, if any.
ASSUME ConstantsAssumption ==
  /\ Transports \in Seq({"websocket", "ajax"}) /\ MaxSends \in Nat
  /\ \A n \in 2 .. Len(Transports) : Transports[n] # "websocket"

None == "none"

VARIABLES
  readyState,
  info,      \* the request for the info is under way (_ir)
  todo,      \* transports not tried yet (_transports)
  kind,      \* the transport in use (_transport), or None
  current,   \* the timeout it has started (_transportTimeoutId), if not cleared
  timers,    \* the timeouts of transports still pending
  closers,   \* the timeouts of _close still pending
  events,    \* events dispatched
  sent,      \* messages accepted
  up,        \* websocket: messages under way
  buffer,    \* BufferedSender.sendBuffer
  stop,      \* BufferedSender.sendStop: None, "abort" the post, or "wait"
  post,      \* the request that posts a batch
  arrived,   \* messages the server has got
  gone       \* the page has been unloaded

stateVars == <<readyState, info, todo, kind, current, timers, closers, events>>
senderVars == <<buffer, stop, post>>
vars == <<stateVars, sent, up, senderVars, arrived, gone>>

NoPost == [st |-> None, batch |-> <<>>]

Init ==
  /\ readyState = "connecting" /\ info = TRUE /\ todo = <<>> /\ kind = None
  /\ current = 0 /\ timers = {} /\ closers = 0 /\ events = <<>>
  /\ sent = 0 /\ up = <<>> /\ buffer = <<>> /\ stop = None /\ post = NoPost
  /\ arrived = <<>> /\ gone = FALSE

-----------------------------------------------------------------------------
\* BufferedSender.close.  The wait is over for good.  A request that has been
\* scheduled but not started is not cancelled; one that has been started is
\* aborted, and may reach the server all the same.
StopSender ==
  /\ stop' = None
  /\ post' = IF stop = "abort" /\ post.st = "started" THEN [post EXCEPT !.st = "orphan"]
             ELSE IF stop = "abort" /\ post.st = "served" THEN NoPost
             ELSE post
  /\ UNCHANGED buffer

\* Variant: the transport stays in place.
ShutOnly ==
  /\ readyState' = "closing" /\ closers' = closers + 1
  /\ StopSender
  /\ UNCHANGED <<kind, info>>

\* _close: the transport is closed, and the event announced.
Shut ==
  /\ readyState' = "closing" /\ closers' = closers + 1
  /\ info' = FALSE /\ kind' = None
  /\ StopSender

\* Variant: a transport starts no timeout of its own.
ConnectOnce(list, pending) ==
  IF list = <<>> THEN Shut /\ todo' = list /\ timers' = pending /\ UNCHANGED current
  ELSE /\ kind' = Head(list) /\ todo' = Tail(list)
       /\ timers' = pending
       /\ info' = FALSE
       /\ UNCHANGED <<readyState, current, closers, senderVars>>

\* _connect: the next transport, with a timeout of its own; those of the
\* transports before it stay pending.
Connect(list, pending) ==
  IF list = <<>> THEN Shut /\ todo' = list /\ timers' = pending /\ UNCHANGED current
  ELSE /\ kind' = Head(list) /\ todo' = Tail(list)
       /\ current' = Len(list) /\ timers' = pending \cup {Len(list)}
       /\ info' = FALSE
       /\ UNCHANGED <<readyState, closers, senderVars>>

\* InfoReceiver ends with an info, or without: the request has failed or has
\* timed out.
Infos == {None, "websocket", "no websocket"}

\* filterToEnabled: the server may have disabled the websocket.
Enabled(i) ==
  IF i = "no websocket" /\ Transports # <<>> /\ Head(Transports) = "websocket"
  THEN Tail(Transports) ELSE Transports

\* _receiveInfo
ReceiveInfo ==
  /\ info /\ ~gone
  /\ \E i \in Infos :
       IF i = None THEN Shut /\ UNCHANGED <<todo, current, timers>>
       ELSE Connect(Enabled(i), timers)
  /\ UNCHANGED <<events, sent, up, arrived, gone>>

\* _transportTimeout: that of any transport closes the one in use.
TransportTimeout(t) ==
  /\ t \in timers /\ ~gone
  /\ IF readyState = "connecting" THEN Connect(todo, timers \ {t})
     ELSE /\ timers' = timers \ {t}
          /\ UNCHANGED <<readyState, info, todo, kind, current, closers, senderVars>>
  /\ UNCHANGED <<events, sent, up, arrived, gone>>

\* The frame o opens the connection; a second one says that the server has
\* lost it.
Open ==
  /\ kind # None /\ ~gone
  /\ IF readyState = "connecting"
       THEN /\ timers' = timers \ {current} /\ current' = 0
            /\ readyState' = "open" /\ events' = Append(events, "open")
            /\ UNCHANGED <<info, kind, closers, senderVars>>
       ELSE Shut /\ UNCHANGED <<timers, current, events>>
  /\ UNCHANGED <<todo, sent, up, arrived, gone>>

\* The frame c.
CloseFrame ==
  /\ kind # None /\ ~gone
  /\ Shut
  /\ UNCHANGED <<todo, current, timers, events, sent, up, arrived, gone>>

\* _transportClose when the transport has broken: the next one is tried, but
\* for a websocket closed with a code that a user may set.  What a websocket
\* has not delivered is lost.
TransportClose ==
  /\ kind # None /\ ~gone
  /\ \/ readyState = "connecting" /\ Connect(todo, timers)
     \/ (readyState = "open" \/ kind = "websocket")
        /\ Shut /\ UNCHANGED <<todo, current, timers>>
  /\ up' = <<>>
  /\ UNCHANGED <<events, sent, arrived, gone>>

\* The page closes the connection, and may do so again.
Close ==
  /\ ~gone /\ readyState \in {"connecting", "open"}
  /\ Shut
  /\ UNCHANGED <<todo, current, timers, events, sent, up, arrived, gone>>

\* The timeout of _close.
Closed ==
  /\ closers > 0 /\ ~gone
  /\ closers' = closers - 1 /\ readyState' = "closed" /\ events' = Append(events, "close")
  /\ UNCHANGED <<info, todo, kind, current, timers, sent, up, senderVars, arrived, gone>>

-----------------------------------------------------------------------------
(* Sending. *)

\* Variant: the buffer is not emptied.
ScheduleAgain(queue) ==
  /\ post' = [st |-> "scheduled", batch |-> queue] /\ stop' = "abort"
  /\ buffer' = queue

\* sendSchedule
Schedule(queue) ==
  /\ post' = [st |-> "scheduled", batch |-> queue] /\ stop' = "abort"
  /\ buffer' = <<>>

Send ==
  /\ readyState = "open" /\ ~gone /\ sent < MaxSends
  /\ sent' = sent + 1
  /\ IF kind = "websocket"
       THEN up' = Append(up, sent') /\ UNCHANGED senderVars
       ELSE /\ UNCHANGED up
            /\ IF stop = None THEN Schedule(Append(buffer, sent'))
               ELSE buffer' = Append(buffer, sent') /\ UNCHANGED <<stop, post>>
  /\ UNCHANGED <<stateVars, arrived, gone>>

Start ==
  /\ post.st = "scheduled" /\ ~gone
  /\ post' = [post EXCEPT !.st = "started"]
  /\ UNCHANGED <<stateVars, sent, up, buffer, stop, arrived, gone>>

\* The server gets a batch, perhaps one whose request is no longer waited for.
Serve ==
  /\ post.st \in {"started", "orphan"}
  /\ arrived' = arrived \o post.batch
  /\ post' = IF post.st = "orphan" THEN NoPost ELSE [st |-> "served", batch |-> <<>>]
  /\ UNCHANGED <<stateVars, sent, up, buffer, stop, gone>>

\* Variant: the next batch is left to the next send.
AnsweredOnly ==
  /\ post.st = "served" /\ ~gone
  /\ post' = NoPost /\ stop' = None
  /\ UNCHANGED <<stateVars, sent, up, buffer, arrived, gone>>

\* The answer starts the wait of sendScheduleWait, also after close.
Answered ==
  /\ post.st = "served" /\ ~gone
  /\ post' = NoPost /\ stop' = "wait"
  /\ UNCHANGED <<stateVars, sent, up, buffer, arrived, gone>>

\* The request fails, before or after it was served, and with it the connection.
Fail ==
  /\ post.st \in {"started", "served"} /\ ~gone
  /\ post' = NoPost /\ stop' = None
  /\ IF readyState = "open"
       THEN readyState' = "closing" /\ closers' = closers + 1 /\ kind' = None
       ELSE UNCHANGED <<readyState, closers, kind>>
  /\ UNCHANGED <<info, todo, current, timers, events, sent, up, buffer, arrived, gone>>

WaitOver ==
  /\ stop = "wait" /\ ~gone
  /\ IF buffer = <<>> THEN stop' = None /\ UNCHANGED <<buffer, post>> ELSE Schedule(buffer)
  /\ UNCHANGED <<stateVars, sent, up, arrived, gone>>

\* A websocket delivers in order, also after it was closed, unless it breaks.
Deliver ==
  /\ up # <<>>
  /\ arrived' = Append(arrived, Head(up)) /\ up' = Tail(up)
  /\ UNCHANGED <<stateVars, sent, senderVars, gone>>

Lose ==
  /\ kind = None \/ gone
  /\ up # <<>> \/ post.st = "orphan"
  /\ up' = <<>> /\ post' = IF post.st = "orphan" THEN NoPost ELSE post
  /\ UNCHANGED <<stateVars, sent, buffer, stop, arrived, gone>>

\* The page goes: no timer fires any more, and a request may still arrive.
Unload ==
  /\ ~gone /\ gone' = TRUE
  /\ post' = IF post.st = "started" THEN [post EXCEPT !.st = "orphan"] ELSE NoPost
  /\ stop' = None
  /\ UNCHANGED <<stateVars, sent, up, buffer, arrived>>

Next ==
  \/ ReceiveInfo \/ Open \/ CloseFrame \/ TransportClose \/ Close \/ Closed
  \/ \E t \in timers : TransportTimeout(t)
  \/ Send \/ Start \/ Serve \/ Answered \/ Fail \/ WaitOver \/ Deliver \/ Lose
  \/ Unload

\* Timers fire, and requests and messages under way arrive or fail in the end.
Fairness ==
  /\ WF_vars(ReceiveInfo) /\ WF_vars(Closed)
  /\ \A t \in 1 .. Len(Transports) : WF_vars(TransportTimeout(t))
  /\ WF_vars(Start) /\ WF_vars(Serve \/ Answered \/ Fail) /\ WF_vars(WaitOver)
  /\ WF_vars(Deliver \/ Lose)

Spec == Init /\ [][Next]_vars /\ Fairness

-----------------------------------------------------------------------------
(* Properties. *)

Posts == [st : {None, "scheduled", "started", "served", "orphan"}, batch : Seq(Nat)]

TypeOK ==
  /\ readyState \in {"connecting", "open", "closing", "closed"}
  /\ kind \in {None, "websocket", "ajax"}
  /\ todo \in Seq({"websocket", "ajax"}) /\ Len(todo) <= Len(Transports)
  /\ timers \subseteq 1 .. Len(Transports) /\ current \in 0 .. Len(Transports)
  /\ closers \in Nat /\ events \in Seq({"open", "close"}) /\ sent \in 0 .. MaxSends
  /\ up \in Seq(Nat) /\ buffer \in Seq(Nat) /\ arrived \in Seq(Nat)
  /\ post \in Posts
  /\ stop \in {None, "abort", "wait"} /\ info \in BOOLEAN /\ gone \in BOOLEAN

\* sockjs.js:786-977: what could close the connection a second time is gone
\* once it is closing, and its close event is announced once, last.
Ended ==
  /\ readyState \in {"closing", "closed"} => kind = None
  /\ info => readyState = "connecting" /\ kind = None
  /\ closers = IF readyState = "closing" THEN 1 ELSE 0
  /\ readyState = "open" => kind # None
  /\ readyState = "connecting" /\ ~info => kind # None /\ current \in timers
  /\ readyState = "connecting" => events = <<>>
  /\ readyState = "open" => events = <<"open">>
  /\ readyState = "closing" => events \in {<<>>, <<"open">>}

\* sockjs.js:2013-2076: the buffer goes on, after a post or a wait.
GoesOn == stop # None \/ post.st \in {"scheduled", "started", "served"}

\* What of the messages has reached the server or is on its way, in order.
Way == arrived \o post.batch \o up \o (IF GoesOn THEN buffer ELSE <<>>)
Numbered(seq) == \A i \in 1 .. Len(seq) : seq[i] = i

\* The transport that is not in use, and a connection that is not up yet, hold
\* no messages.
Apart ==
  LET nothing == buffer = <<>> /\ stop = None /\ post = NoPost IN
  /\ up = <<>> \/ nothing
  /\ kind = "websocket" => nothing
  /\ kind = "ajax" => up = <<>>
  /\ readyState = "connecting" => nothing /\ up = <<>> /\ arrived = <<>> /\ sent = 0

\* What the sender waits for: the post it would abort, or the time in between.
SenderInOrder ==
  /\ post.batch = <<>> <=> post.st \in {None, "served"}
  /\ stop = "abort" => post.st \in {"scheduled", "started", "served"}
  /\ stop = "wait" => post = NoPost
  /\ readyState = "open" /\ ~gone /\ stop # "abort" => post = NoPost

\* While the connection is open, what the server has not got is on its way, in
\* order, and a batch is waited for or scheduled.
Underway ==
  /\ Numbered(Way) /\ Len(Way) <= sent
  /\ readyState = "open" /\ ~gone =>
       /\ Len(Way) = sent
       /\ stop = None => buffer = <<>>

IInv == TypeOK /\ Ended /\ Apart /\ SenderInOrder /\ Underway

\* sockjs.js is a Connection.
C == INSTANCE Connection WITH
  ending <- readyState \in {"closing", "closed"}, said <- sent, heard <- arrived
RefinesConnection == C!Spec

\* sockjs.js:519-585 and 809-852: a connection opens or closes in the end, and
\* one that closes says so.
Settles ==
  /\ readyState = "connecting" ~> readyState # "connecting" \/ gone
  /\ readyState = "closing" ~> readyState = "closed" \/ gone

\* sockjs.js:2013-2076: no message is left behind in an open connection.
NothingStuck ==
  \A n \in 1 .. MaxSends :
    sent >= n ~> Len(arrived) >= n \/ readyState # "open" \/ gone
=============================================================================
