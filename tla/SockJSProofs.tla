---------------------------- MODULE SockJSProofs ----------------------------
(***************************************************************************)
(* Proofs about SockJS for every list of transports and every number of    *)
(* messages: the inductive invariant IInv, and that it is a Connection.    *)
(*                                                                         *)
(* That messages are in order is a fact about a concatenation; lemma       *)
(* InParts turns it into one fact for each of its parts (From), and the    *)
(* steps move messages from one part to the next.                          *)
(***************************************************************************)
EXTENDS SockJS, SequenceTheorems, TLAPS

-----------------------------------------------------------------------------
(* Sequences of numbers. *)

\* The numbers that follow n.
From(seq, n) == \A i \in 1 .. Len(seq) : seq[i] = n + i

\* A sequence counts on through the middle of a concatenation.
LEMMA ConcatFrom ==
  ASSUME NEW s \in Seq(Nat), NEW t \in Seq(Nat), NEW n \in Nat
  PROVE  From(s \o t, n) <=> From(s, n) /\ From(t, n + Len(s))
<1>1. /\ Len(s \o t) = Len(s) + Len(t) /\ Len(s) \in Nat /\ Len(t) \in Nat
      /\ \A i \in 1 .. Len(s) + Len(t) :
           (s \o t)[i] = IF i <= Len(s) THEN s[i] ELSE t[i - Len(s)]
  BY ConcatProperties, LenProperties
<1>2. ASSUME From(s \o t, n) PROVE From(s, n) /\ From(t, n + Len(s))
  <2>1. From(s, n)
    BY <1>1, <1>2 DEF From
  <2>2. ASSUME NEW i \in 1 .. Len(t) PROVE t[i] = (n + Len(s)) + i
    <3>1. Len(s) + i \in 1 .. Len(s) + Len(t) /\ ~(Len(s) + i <= Len(s))
      BY <1>1
    <3>2. (s \o t)[Len(s) + i] = t[(Len(s) + i) - Len(s)]
      BY <1>1, <3>1
    <3>3. (s \o t)[Len(s) + i] = n + (Len(s) + i)
      BY <1>1, <1>2, <3>1 DEF From
    <3>4. (Len(s) + i) - Len(s) = i
      BY <1>1
    <3> QED
      BY <1>1, <3>2, <3>3, <3>4
  <2> QED
    BY <2>1, <2>2 DEF From
<1>3. ASSUME From(s, n), From(t, n + Len(s)) PROVE From(s \o t, n)
  <2>1. ASSUME NEW i \in 1 .. Len(s) + Len(t) PROVE (s \o t)[i] = n + i
    <3>1. CASE i <= Len(s)
      BY <1>1, <1>3, <3>1 DEF From
    <3>2. CASE ~(i <= Len(s))
      <4>1. i - Len(s) \in 1 .. Len(t)
        BY <1>1, <3>2
      <4>2. t[i - Len(s)] = (n + Len(s)) + (i - Len(s))
        BY <1>3, <4>1 DEF From
      <4> QED
        BY <1>1, <3>2, <4>2
    <3> QED BY <3>1, <3>2
  <2> QED
    BY <1>1, <2>1 DEF From
<1> QED BY <1>2, <1>3

\* Four parts that count on.
Parts(a, b, u, f) ==
  /\ From(a, 0) /\ From(b, Len(a)) /\ From(u, Len(a) + Len(b))
  /\ From(f, Len(a) + Len(b) + Len(u))

\* What it means for a line of four parts to be numbered from one end to the
\* other.
LEMMA InParts ==
  ASSUME NEW a \in Seq(Nat), NEW b \in Seq(Nat), NEW u \in Seq(Nat), NEW f \in Seq(Nat)
  PROVE  /\ Len(a \o b \o u \o f) = Len(a) + Len(b) + Len(u) + Len(f)
         /\ Numbered(a \o b \o u \o f) <=> Parts(a, b, u, f)
<1>1. /\ a \o b \in Seq(Nat) /\ Len(a \o b) = Len(a) + Len(b)
      /\ Len(a) \in Nat /\ Len(b) \in Nat /\ Len(u) \in Nat /\ Len(f) \in Nat
  BY ConcatProperties, LenProperties
<1>2. a \o b \o u \in Seq(Nat) /\ Len(a \o b \o u) = Len(a) + Len(b) + Len(u)
  BY <1>1, ConcatProperties
<1>3. /\ a \o b \o u \o f \in Seq(Nat)
      /\ Len(a \o b \o u \o f) = Len(a) + Len(b) + Len(u) + Len(f)
  BY <1>2, ConcatProperties
<1>4. Numbered(a \o b \o u \o f) <=> From(a \o b \o u \o f, 0)
  BY <1>3, LenProperties DEF Numbered, From
<1>5. From(a \o b \o u \o f, 0) <=>
        From(a \o b \o u, 0) /\ From(f, 0 + Len(a \o b \o u))
  BY <1>2, ConcatFrom
<1>6. From(a \o b \o u, 0) <=> From(a \o b, 0) /\ From(u, 0 + Len(a \o b))
  BY <1>1, ConcatFrom
<1>7. From(a \o b, 0) <=> From(a, 0) /\ From(b, 0 + Len(a))
  BY ConcatFrom
<1>8. /\ 0 + Len(a) = Len(a) /\ 0 + Len(a \o b) = Len(a) + Len(b)
      /\ 0 + Len(a \o b \o u) = Len(a) + Len(b) + Len(u)
  BY <1>1, <1>2
<1> QED
  BY <1>3, <1>4, <1>5, <1>6, <1>7, <1>8 DEF Parts

\* The next number goes on.
LEMMA AppendFrom ==
  ASSUME NEW s \in Seq(Nat), NEW n \in Nat
  PROVE  LET t == Append(s, n + Len(s) + 1) IN
         /\ t \in Seq(Nat) /\ Len(t) = Len(s) + 1 /\ t # <<>>
         /\ From(s, n) => From(t, n)
<1> DEFINE t == Append(s, n + Len(s) + 1)
<1>1. Len(s) \in Nat /\ n + Len(s) + 1 \in Nat
  BY LenProperties
<1>2. /\ t \in Seq(Nat) /\ Len(t) = Len(s) + 1
      /\ \A i \in 1 .. Len(s) + 1 :
           t[i] = IF i = Len(s) + 1 THEN n + Len(s) + 1 ELSE s[i]
  BY <1>1
<1>3. t # <<>>
  BY <1>1, <1>2, EmptySeq
<1>4. From(s, n) => From(t, n)
  BY <1>1, <1>2 DEF From
<1> QED BY <1>2, <1>3, <1>4

\* Nothing counts on from anywhere.
LEMMA EmptyFrom == Len(<<>>) = 0 /\ <<>> \in Seq(Nat) /\ \A n : From(<<>>, n)
BY EmptySeq DEF From

-----------------------------------------------------------------------------
(* What the steps of the connection do. *)

\* Another transport is tried.
Tries ==
  /\ readyState = "connecting"
  /\ kind' \in {"websocket", "ajax"} /\ info' = FALSE
  /\ todo' \in Seq({"websocket", "ajax"}) /\ Len(todo') <= Len(Transports)
  /\ timers' \subseteq 1 .. Len(Transports) /\ current' \in timers'
  /\ up' \in {up, <<>>}
  /\ UNCHANGED <<readyState, closers, senderVars, events, sent, arrived, gone>>

\* The connection ends.
Ends ==
  /\ readyState \in {"connecting", "open"} /\ readyState' = "closing"
  /\ closers' = closers + 1 /\ info' = FALSE /\ kind' = None
  /\ StopSender
  /\ todo' \in Seq({"websocket", "ajax"}) /\ Len(todo') <= Len(Transports)
  /\ timers' \subseteq timers /\ current' = current /\ up' \in {up, <<>>}
  /\ UNCHANGED <<events, sent, arrived, gone>>

\* It opens.
Opens ==
  /\ kind # None /\ readyState = "connecting" /\ readyState' = "open"
  /\ timers' \subseteq timers /\ current' = 0 /\ events' = Append(events, "open")
  /\ UNCHANGED <<info, todo, kind, closers, senderVars, sent, up, arrived, gone>>

\* A timeout that is nobody's any more.
Expires ==
  /\ readyState # "connecting" /\ timers' \subseteq timers
  /\ UNCHANGED <<readyState, info, todo, kind, current, closers, events, senderVars,
                 sent, up, arrived, gone>>

\* The list of transports.
LEMMA EnabledTyped ==
  ASSUME NEW i
  PROVE  Enabled(i) \in Seq({"websocket", "ajax"}) /\ Len(Enabled(i)) <= Len(Transports)
<1>1. Transports \in Seq({"websocket", "ajax"}) /\ Len(Transports) \in Nat
  BY ConstantsAssumption, LenProperties
<1>2. Transports # <<>> =>
        /\ Tail(Transports) \in Seq({"websocket", "ajax"})
        /\ Len(Tail(Transports)) = Len(Transports) - 1
  BY <1>1, HeadTailProperties
<1>3. Transports # <<>> => Len(Tail(Transports)) <= Len(Transports)
  BY <1>1, <1>2
<1>4. Len(Transports) <= Len(Transports)
  BY <1>1
<1>5. Enabled(i) = Transports \/ (Transports # <<>> /\ Enabled(i) = Tail(Transports))
  BY DEF Enabled
<1> QED BY <1>1, <1>2, <1>3, <1>4, <1>5

\* A round of _connect tries a transport, or ends the connection when none is
\* left.
LEMMA Connects ==
  ASSUME TypeOK, readyState = "connecting",
         NEW list \in Seq({"websocket", "ajax"}), Len(list) <= Len(Transports),
         NEW pending \in SUBSET timers, Connect(list, pending),
         up' \in {up, <<>>}, UNCHANGED <<events, sent, arrived, gone>>
  PROVE  Tries \/ Ends
<1>1. CASE list = <<>>
  BY <1>1 DEF Connect, Shut, Ends
<1>2. CASE list # <<>>
  <2>1. /\ Head(list) \in {"websocket", "ajax"} /\ Len(list) \in Nat \ {0}
        /\ Tail(list) \in Seq({"websocket", "ajax"}) /\ Len(Tail(list)) = Len(list) - 1
        /\ Len(Transports) \in Nat
    BY <1>2, HeadTailProperties, LenProperties, EmptySeq, ConstantsAssumption
  <2>2. Len(list) \in 1 .. Len(Transports) /\ Len(Tail(list)) <= Len(Transports)
    BY <2>1
  <2>3. /\ kind' = Head(list) /\ todo' = Tail(list) /\ info' = FALSE
        /\ current' = Len(list) /\ timers' = pending \cup {Len(list)}
        /\ UNCHANGED <<readyState, closers, senderVars>>
    BY <1>2 DEF Connect
  <2>4. timers' \subseteq 1 .. Len(Transports)
    BY <2>2, <2>3 DEF TypeOK
  <2> QED
    BY <2>1, <2>2, <2>3, <2>4 DEF Tries
<1> QED BY <1>1, <1>2

\* What each step may be, told by what it does to the state.
LEMMA StepKinds ==
  ASSUME TypeOK, Ended, Next
  PROVE  \/ Tries \/ Ends \/ Opens \/ Expires \/ Closed
         \/ Send \/ Start \/ Serve \/ Answered \/ Fail \/ WaitOver \/ Deliver \/ Lose
         \/ Unload
<1>0. {} \subseteq timers /\ todo \in Seq({"websocket", "ajax"})
      /\ Len(todo) <= Len(Transports)
  BY DEF TypeOK
<1>1. CASE ReceiveInfo
  <2>1. readyState = "connecting"
    BY <1>1 DEF ReceiveInfo, Ended
  <2>2. PICK i \in Infos : IF i = None THEN Shut /\ UNCHANGED <<todo, current, timers>>
                           ELSE Connect(Enabled(i), timers)
    BY <1>1 DEF ReceiveInfo
  <2>3. UNCHANGED <<events, sent, up, arrived, gone>>
    BY <1>1 DEF ReceiveInfo
  <2> QED
    BY <1>0, <2>1, <2>2, <2>3, EnabledTyped, Connects DEF Shut, Ends
<1>2. ASSUME NEW t \in timers, TransportTimeout(t) PROVE Tries \/ Ends \/ Expires
  <2>1. CASE readyState = "connecting"
    BY <1>0, <1>2, <2>1, Connects DEF TransportTimeout
  <2>2. CASE readyState # "connecting"
    BY <1>2, <2>2 DEF TransportTimeout, Expires, senderVars
  <2> QED BY <2>1, <2>2
<1>3. CASE Open
  <2>1. readyState \in {"connecting", "open"}
    BY <1>3 DEF Open, Ended, TypeOK
  <2> QED
    BY <1>0, <1>3, <2>1 DEF Open, Opens, Shut, Ends
<1>4. CASE CloseFrame
  <2>1. readyState \in {"connecting", "open"}
    BY <1>4 DEF CloseFrame, Ended, TypeOK
  <2> QED
    BY <1>0, <1>4, <2>1 DEF CloseFrame, Shut, Ends
<1>5. CASE TransportClose
  <2>1. readyState \in {"connecting", "open"}
    BY <1>5 DEF TransportClose, Ended, TypeOK
  <2>2. CASE readyState = "connecting" /\ Connect(todo, timers)
    BY <1>0, <1>5, <2>2, Connects DEF TransportClose
  <2>3. CASE Shut /\ UNCHANGED <<todo, current, timers>>
    BY <1>0, <1>5, <2>1, <2>3 DEF TransportClose, Shut, Ends
  <2> QED BY <1>5, <2>2, <2>3 DEF TransportClose
<1>6. CASE Close
  BY <1>0, <1>6 DEF Close, Shut, Ends
<1> QED
  BY <1>1, <1>2, <1>3, <1>4, <1>5, <1>6 DEF Next

\* BufferedSender.close, by what it finds.
LEMMA Stops ==
  ASSUME TypeOK, StopSender
  PROVE  /\ stop' = None /\ buffer' = buffer /\ post' \in Posts
         /\ \/ post' = post /\ ~(stop = "abort" /\ post.st \in {"started", "served"})
            \/ /\ stop = "abort" /\ post.st = "started"
               /\ post'.st = "orphan" /\ post'.batch = post.batch
            \/ stop = "abort" /\ post.st = "served" /\ post' = NoPost
<1>1. NoPost \in Posts
  BY EmptySeq DEF NoPost, Posts
<1> QED
  BY <1>1 DEF StopSender, TypeOK, Posts

-----------------------------------------------------------------------------
(* The parts of the invariant. *)

\* Every step keeps the types.
LEMMA TypeStep ==
  ASSUME TypeOK, Ended, Apart, SenderInOrder, Next
  PROVE  TypeOK'
<1>0. NoPost \in Posts /\ \A q \in Seq(Nat) : [st |-> "scheduled", batch |-> q] \in Posts
  BY EmptySeq DEF NoPost, Posts
<1>00. post.batch \in Seq(Nat) /\ sent \in Nat /\ MaxSends \in Nat
  BY ConstantsAssumption DEF TypeOK, Posts
<1>1. CASE Tries
  <2>1. up' \in Seq(Nat)
    BY <1>1, EmptySeq DEF Tries, TypeOK
  <2>2. current' \in 0 .. Len(Transports)
    BY <1>1, ConstantsAssumption, LenProperties DEF Tries
  <2> QED
    BY <1>1, <2>1, <2>2 DEF Tries, TypeOK, senderVars
<1>2. CASE Ends
  <2>1. up' \in Seq(Nat) /\ timers' \subseteq 1 .. Len(Transports)
    BY <1>2, EmptySeq DEF Ends, TypeOK
  <2>2. closers' \in Nat
    BY <1>2 DEF Ends, TypeOK
  <2> QED
    BY <1>2, <2>1, <2>2, Stops DEF Ends, TypeOK
<1>3. CASE Opens
  <2>1. events' \in Seq({"open", "close"})
    BY <1>3 DEF Opens, TypeOK
  <2>2. 0 \in 0 .. Len(Transports)
    BY LenProperties, ConstantsAssumption
  <2> QED
    BY <1>3, <2>1, <2>2 DEF Opens, TypeOK, senderVars
<1>4. CASE Expires
  BY <1>4 DEF Expires, TypeOK, senderVars
<1>5. CASE Closed
  <2>1. events' \in Seq({"open", "close"}) /\ closers' \in Nat
    BY <1>5 DEF Closed, TypeOK
  <2> QED
    BY <1>5, <2>1 DEF Closed, TypeOK, senderVars
<1>6. CASE Send
  <2>1. sent' \in 0 .. MaxSends /\ sent' \in Nat
    BY <1>00, <1>6 DEF Send, TypeOK
  <2>2. Append(up, sent') \in Seq(Nat) /\ Append(buffer, sent') \in Seq(Nat)
    BY <2>1 DEF TypeOK
  <2>3. UNCHANGED <<stateVars, arrived, gone>>
    BY <1>6 DEF Send
  <2>4. up' \in Seq(Nat)
    BY <1>6, <2>2 DEF Send, TypeOK
  <2>5. buffer' \in Seq(Nat) /\ stop' \in {None, "abort", "wait"} /\ post' \in Posts
    BY <1>0, <1>6, <2>2, EmptySeq DEF Send, Schedule, TypeOK, senderVars
  <2> QED
    BY <2>1, <2>3, <2>4, <2>5 DEF TypeOK, stateVars
<1>7. CASE Start \/ Serve \/ Answered \/ Fail
  <2>1. arrived \o post.batch \in Seq(Nat)
    BY <1>00, ConcatProperties DEF TypeOK
  <2>2. [post EXCEPT !.st = "started"] \in Posts
    BY DEF TypeOK, Posts
  <2>3. [st |-> "served", batch |-> <<>>] \in Posts
    BY EmptySeq DEF Posts
  <2>4. closers + 1 \in Nat
    BY DEF TypeOK
  <2> QED
    BY <1>0, <1>7, <2>1, <2>2, <2>3, <2>4
    DEF Start, Serve, Answered, Fail, TypeOK, senderVars, stateVars
<1>8. CASE WaitOver
  BY <1>0, <1>8, EmptySeq DEF WaitOver, Schedule, TypeOK, stateVars
<1>9. CASE Deliver
  <2>1. Head(up) \in Nat /\ Tail(up) \in Seq(Nat)
    BY <1>9, HeadTailProperties DEF Deliver, TypeOK
  <2>2. Append(arrived, Head(up)) \in Seq(Nat)
    BY <2>1 DEF TypeOK
  <2> QED
    BY <1>9, <2>1, <2>2 DEF Deliver, TypeOK, senderVars, stateVars
<1>10. CASE Lose
  BY <1>0, <1>10, EmptySeq DEF Lose, TypeOK, stateVars
<1>11. CASE Unload
  <2>1. [post EXCEPT !.st = "orphan"] \in Posts
    BY DEF TypeOK, Posts
  <2> QED
    BY <1>0, <1>11, <2>1 DEF Unload, TypeOK, stateVars
<1> QED
  BY <1>1, <1>2, <1>3, <1>4, <1>5, <1>6, <1>7, <1>8, <1>9, <1>10, <1>11, StepKinds

\* A connection that has ended stays ended.
LEMMA EndedStep ==
  ASSUME TypeOK, Ended, Next
  PROVE  Ended'
<1>1. CASE Tries
  BY <1>1 DEF Tries, Ended, None
<1>2. CASE Ends
  BY <1>2 DEF Ends, Ended, None
<1>3. CASE Opens
  <2>1. Append(<<>>, "open") = <<"open">>
    OBVIOUS
  <2> QED
    BY <1>3, <2>1 DEF Opens, Ended
<1>4. CASE Expires
  BY <1>4 DEF Expires, Ended
<1>5. CASE Closed
  BY <1>5 DEF Closed, Ended, TypeOK
<1>6. CASE Send \/ Start \/ Serve \/ Answered \/ WaitOver \/ Deliver \/ Lose \/ Unload
  <2>1. UNCHANGED stateVars
    BY <1>6 DEF Send, Start, Serve, Answered, WaitOver, Deliver, Lose, Unload
  <2> QED
    BY <2>1 DEF stateVars, Ended
<1>7. CASE Fail
  BY <1>7 DEF Fail, Ended
<1> QED
  BY <1>1, <1>2, <1>3, <1>4, <1>5, <1>6, <1>7, StepKinds

\* Every step keeps the transport not in use, and a connection not yet up, free of messages.
LEMMA ApartStep ==
  ASSUME TypeOK, Ended, Apart, SenderInOrder, Next
  PROVE  Apart'
<1>1. CASE Tries
  BY <1>1 DEF Tries, Apart, senderVars
<1>2. CASE Ends
  BY <1>2, Stops DEF Ends, Apart, None, NoPost
<1>3. CASE Opens
  BY <1>3 DEF Opens, Apart, senderVars
<1>4. CASE Expires
  BY <1>4 DEF Expires, Apart, senderVars
<1>5. CASE Closed
  BY <1>5 DEF Closed, Apart, senderVars
<1>6. CASE Send
  <2>1. kind \in {"websocket", "ajax"}
    BY <1>6 DEF Send, Ended, TypeOK
  <2> QED
    BY <1>6, <2>1 DEF Send, Schedule, Apart, senderVars, stateVars
<1>7. CASE Start \/ Serve \/ Answered
  <2>1. post # NoPost
    BY <1>7 DEF Start, Serve, Answered, NoPost, None
  <2> QED
    BY <1>7, <2>1 DEF Start, Serve, Answered, Apart, stateVars
<1>8. CASE Fail
  <2>1. post # NoPost
    BY <1>8 DEF Fail, NoPost, None
  <2> QED
    BY <1>8, <2>1 DEF Fail, Apart, None
<1>9. CASE WaitOver
  BY <1>9 DEF WaitOver, Schedule, Apart, None, stateVars
<1>10. CASE Deliver
  BY <1>10 DEF Deliver, Apart, senderVars, stateVars
<1>11. CASE Lose
  BY <1>11 DEF Lose, Apart, stateVars
<1>12. CASE Unload
  BY <1>12 DEF Unload, Apart, NoPost, None, stateVars
<1> QED
  BY <1>1, <1>2, <1>3, <1>4, <1>5, <1>6, <1>7, <1>8, <1>9, <1>10, <1>11, <1>12, StepKinds

\* Every step keeps the sender in order.
LEMMA SenderStep ==
  ASSUME TypeOK, Ended, Apart, SenderInOrder, Next
  PROVE  SenderInOrder'
<1>0. \A q \in Seq(Nat), n \in Nat : Append(q, n) # <<>>
  OBVIOUS
<1>1. CASE Tries
  BY <1>1 DEF Tries, SenderInOrder, senderVars
<1>2. CASE Ends
  BY <1>2, Stops DEF Ends, SenderInOrder, None, NoPost
<1>3. CASE Opens
  BY <1>3 DEF Opens, SenderInOrder, Apart, senderVars
<1>4. CASE Expires
  BY <1>4 DEF Expires, SenderInOrder, senderVars
<1>5. CASE Closed
  BY <1>5 DEF Closed, SenderInOrder, senderVars
<1>6. CASE Send
  <2>1. sent' \in Nat /\ buffer \in Seq(Nat)
    BY <1>6, ConstantsAssumption DEF Send, TypeOK
  <2>2. Append(buffer, sent') # <<>>
    BY <1>0, <2>1
  <2> QED
    BY <1>6, <2>2 DEF Send, Schedule, SenderInOrder, senderVars, stateVars, None
<1>7. CASE Start
  BY <1>7 DEF Start, SenderInOrder, NoPost, None, TypeOK, Posts, stateVars
<1>8. CASE Serve
  BY <1>8 DEF Serve, SenderInOrder, NoPost, None, stateVars
<1>9. CASE Answered \/ Fail
  BY <1>9 DEF Answered, Fail, SenderInOrder, NoPost, None, stateVars
<1>10. CASE WaitOver
  BY <1>10 DEF WaitOver, Schedule, SenderInOrder, None, stateVars
<1>11. CASE Deliver
  BY <1>11 DEF Deliver, SenderInOrder, senderVars, stateVars
<1>12. CASE Lose
  BY <1>12 DEF Lose, SenderInOrder, NoPost, None, stateVars
<1>13. CASE Unload
  BY <1>13 DEF Unload, SenderInOrder, NoPost, None, TypeOK, Posts, stateVars
<1> QED
  BY <1>1, <1>2, <1>3, <1>4, <1>5, <1>6, <1>7, <1>8, <1>9, <1>10, <1>11, <1>12, <1>13,
     StepKinds

\* The buffer counts only if the sender goes on.
Rest == IF GoesOn THEN buffer ELSE <<>>

\* What is under way is numbered when its parts are, one after the other.
LEMMA UnderwayParts ==
  ASSUME TypeOK
  PROVE  /\ Rest \in Seq(Nat) /\ post.batch \in Seq(Nat)
         /\ Len(Way) = Len(arrived) + Len(post.batch) + Len(up) + Len(Rest)
         /\ Numbered(Way) <=> Parts(arrived, post.batch, up, Rest)
<1>1. Rest \in Seq(Nat) /\ post.batch \in Seq(Nat)
  BY EmptySeq DEF Rest, TypeOK, Posts
<1>2. Way = arrived \o post.batch \o up \o Rest
  BY DEF Way, Rest
<1>3. PICK a, b, u, f \in Seq(Nat) :
        a = arrived /\ b = post.batch /\ u = up /\ f = Rest
  BY <1>1 DEF TypeOK
<1>4. /\ Len(a \o b \o u \o f) = Len(a) + Len(b) + Len(u) + Len(f)
      /\ Numbered(a \o b \o u \o f) <=> Parts(a, b, u, f)
  BY InParts
<1>5. Way = a \o b \o u \o f
  BY <1>2, <1>3
<1> QED
  BY <1>1, <1>3, <1>4, <1>5

\* The same of the next state.
LEMMA NextParts ==
  ASSUME TypeOK'
  PROVE  /\ Rest' \in Seq(Nat) /\ post'.batch \in Seq(Nat)
         /\ Len(Way') = Len(arrived') + Len(post'.batch) + Len(up') + Len(Rest')
         /\ Numbered(Way') <=> Parts(arrived', post'.batch, up', Rest')
<1>1. Rest' \in Seq(Nat) /\ post'.batch \in Seq(Nat)
  BY EmptySeq DEF Rest, TypeOK, Posts
<1>2. Way' = arrived' \o post'.batch \o up' \o Rest'
  BY DEF Way, Rest
<1>3. PICK a, b, u, f \in Seq(Nat) :
        a = arrived' /\ b = post'.batch /\ u = up' /\ f = Rest'
  BY <1>1 DEF TypeOK
<1>4. /\ Len(a \o b \o u \o f) = Len(a) + Len(b) + Len(u) + Len(f)
      /\ Numbered(a \o b \o u \o f) <=> Parts(a, b, u, f)
  BY InParts
<1>5. Way' = a \o b \o u \o f
  BY <1>2, <1>3
<1> QED
  BY <1>1, <1>3, <1>4, <1>5

\* What is to be shown of a step, part by part.
Counted(a, b, u, f) ==
  /\ Parts(a, b, u, f) /\ Len(a) + Len(b) + Len(u) + Len(f) <= sent'
  /\ readyState' = "open" /\ ~gone' =>
       /\ Len(a) + Len(b) + Len(u) + Len(f) = sent'
       /\ stop' = None => buffer' = <<>>

\* Every step keeps what was accepted at the server or under way, in order.
LEMMA UnderwayStep ==
  ASSUME TypeOK, Ended, Apart, SenderInOrder, Underway, Next, TypeOK'
  PROVE  Underway'
<1> DEFINE a == arrived
           b == post.batch
           same == arrived' = a /\ sent' = sent /\ gone' = gone /\ readyState' = readyState
<1>1. /\ a \in Seq(Nat) /\ b \in Seq(Nat) /\ up \in Seq(Nat) /\ Rest \in Seq(Nat)
      /\ Len(a) \in Nat /\ Len(b) \in Nat /\ Len(up) \in Nat /\ Len(Rest) \in Nat
      /\ sent \in Nat /\ buffer \in Seq(Nat)
  BY UnderwayParts, LenProperties, ConstantsAssumption DEF TypeOK
<1>2. /\ Parts(a, b, up, Rest) /\ Len(a) + Len(b) + Len(up) + Len(Rest) <= sent
      /\ readyState = "open" /\ ~gone =>
           /\ Len(a) + Len(b) + Len(up) + Len(Rest) = sent
           /\ stop = None => buffer = <<>>
  BY UnderwayParts DEF Underway
<1>3. SUFFICES Counted(arrived', post'.batch, up', Rest')
  BY NextParts DEF Underway, Counted
<1>4. Len(<<>>) = 0 /\ \A n : From(<<>>, n)
  BY EmptyFrom
<1>5. CASE Tries
  <2>1. /\ up' = <<>> /\ arrived' = <<>> /\ post'.batch = <<>> /\ Rest' = <<>> /\ sent' = 0
        /\ readyState' = "connecting"
    BY <1>5 DEF Tries, Apart, senderVars, NoPost, Rest
  <2> QED
    BY <1>4, <2>1 DEF Counted, Parts
<1>6. CASE Ends
  <2>1. post'.batch = b /\ arrived' = a /\ sent' = sent /\ readyState' = "closing"
    BY <1>6, Stops DEF Ends, SenderInOrder, NoPost
  <2>2. \/ up' = up /\ Rest' \in {Rest, <<>>}
        \/ up' = <<>> /\ Rest' = <<>>
    BY <1>6, Stops DEF Ends, Rest, GoesOn, Apart, NoPost, None
  <2>3. CASE up' = up /\ Rest' = Rest
    BY <1>2, <2>1, <2>3 DEF Counted
  <2>4. CASE up' = up /\ Rest' = <<>>
    BY <1>1, <1>2, <1>4, <2>1, <2>4 DEF Counted, Parts
  <2>5. CASE up' = <<>> /\ Rest' = <<>>
    BY <1>1, <1>2, <1>4, <2>1, <2>5 DEF Counted, Parts
  <2> QED BY <2>2, <2>3, <2>4, <2>5
<1>7. CASE Opens
  <2>1. /\ up' = <<>> /\ arrived' = <<>> /\ post'.batch = <<>> /\ Rest' = <<>> /\ sent' = 0
        /\ buffer' = <<>>
    BY <1>7 DEF Opens, Apart, senderVars, NoPost, Rest
  <2> QED
    BY <1>4, <2>1 DEF Counted, Parts
<1>8. CASE Expires \/ Closed \/ Start
  <2>1. /\ arrived' = a /\ post'.batch = b /\ up' = up /\ sent' = sent /\ gone' = gone
        /\ stop' = stop /\ buffer' = buffer
        /\ readyState' = readyState \/ readyState' = "closed"
    BY <1>8 DEF Expires, Closed, Start, senderVars, stateVars, TypeOK, Posts
  <2>2. Rest' = Rest
    BY <1>8 DEF Expires, Closed, Start, senderVars, Rest, GoesOn, TypeOK, Posts
  <2> QED
    BY <1>2, <2>1, <2>2 DEF Counted
<1>9. CASE Send
  <2>1. /\ readyState = "open" /\ ~gone /\ sent' = sent + 1 /\ sent' \in Nat
        /\ arrived' = a /\ kind \in {"websocket", "ajax"}
    BY <1>1, <1>9 DEF Send, Ended, TypeOK
  <2>2. CASE kind = "websocket"
    <3>1. up' = Append(up, sent') /\ UNCHANGED senderVars /\ b = <<>> /\ buffer = <<>>
      BY <1>9, <2>2 DEF Send, Apart, NoPost
    <3>2. Rest = <<>> /\ Rest' = <<>> /\ post'.batch = b /\ buffer' = <<>>
      BY <3>1 DEF Rest, senderVars
    <3>3. sent' = (Len(a) + Len(b)) + Len(up) + 1 /\ Len(a) + Len(b) \in Nat
      <4>1. Len(Rest) = 0 /\ sent = Len(a) + Len(b) + Len(up) + Len(Rest)
        BY <1>2, <1>4, <2>1, <3>2
      <4> HIDE DEF a, b
      <4> QED
        BY <1>1, <2>1, <4>1
    <3>4. Len(up') = Len(up) + 1 /\ From(up', Len(a) + Len(b))
      BY <1>1, <1>2, <3>1, <3>3, AppendFrom DEF Parts
    <3>5. Len(a) + Len(b) + Len(up') + Len(<<>>) = sent'
      <4> HIDE DEF a, b
      <4> QED BY <1>1, <1>4, <2>1, <3>3, <3>4
    <3>6. Parts(a, b, up', <<>>)
      BY <1>2, <1>4, <3>4 DEF Parts
    <3>7. Len(a) + Len(b) + Len(up') + Len(<<>>) <= sent'
      BY <2>1, <3>5
    <3> QED
      BY <2>1, <3>2, <3>5, <3>6, <3>7 DEF Counted
  <2>3. CASE kind = "ajax" /\ stop = None
    <3>1. /\ up = <<>> /\ up' = <<>> /\ buffer = <<>> /\ b = <<>> /\ Rest = <<>>
          /\ post'.batch = Append(<<>>, sent') /\ Rest' = <<>> /\ stop' = "abort"
      BY <1>2, <1>9, <2>1, <2>3
      DEF Send, Schedule, Apart, SenderInOrder, NoPost, None, Rest
    <3>2. sent' = Len(a) + Len(<<>>) + 1 /\ <<>> \in Seq(Nat)
      BY <1>1, <1>2, <1>4, <2>1, <3>1, EmptySeq
    <3>3. Len(post'.batch) = 1 /\ From(post'.batch, Len(a))
      <4> DEFINE one == Append(<<>>, Len(a) + Len(<<>>) + 1)
      <4>1. Len(one) = Len(<<>>) + 1 /\ (From(<<>>, Len(a)) => From(one, Len(a)))
        BY <1>1, <3>2, AppendFrom
      <4>2. post'.batch = one
        BY <3>1, <3>2
      <4> HIDE DEF one
      <4> QED
        BY <1>4, <4>1, <4>2
    <3> QED
      BY <1>1, <1>2, <1>4, <2>1, <3>1, <3>2, <3>3 DEF Counted, Parts, None
  <2>4. CASE kind = "ajax" /\ stop # None
    <3>1. /\ up = <<>> /\ up' = <<>> /\ Rest = buffer /\ buffer' = Append(buffer, sent')
          /\ post'.batch = b /\ Rest' = buffer' /\ stop' = stop
      BY <1>9, <2>4 DEF Send, Apart, NoPost, None, Rest, GoesOn
    <3>2. /\ sent' = (Len(a) + Len(b) + Len(up)) + Len(buffer) + 1
          /\ Len(a) + Len(b) + Len(up) \in Nat
      BY <1>1, <1>2, <2>1, <3>1
    <3>3. Len(Rest') = Len(buffer) + 1 /\ From(Rest', Len(a) + Len(b) + Len(up))
      BY <1>1, <1>2, <3>1, <3>2, AppendFrom DEF Parts
    <3>4. Len(a) + Len(b) + Len(up) + Len(Rest') = sent'
      <4> HIDE DEF a, b
      <4> QED BY <1>1, <3>2, <3>3
    <3>5. Parts(a, b, up, Rest')
      BY <1>2, <3>3 DEF Parts
    <3>6. Len(a) + Len(b) + Len(up) + Len(Rest') <= sent'
      BY <2>1, <3>4
    <3> QED
      BY <2>1, <2>4, <3>1, <3>4, <3>5, <3>6 DEF Counted
  <2> QED BY <2>1, <2>2, <2>3, <2>4
<1>10. CASE Serve
  <2>1. /\ arrived' = a \o b /\ post'.batch = <<>> /\ up' = up /\ sent' = sent
        /\ gone' = gone /\ readyState' = readyState /\ stop' = stop /\ buffer' = buffer
    BY <1>10 DEF Serve, NoPost, stateVars
  <2>2. Rest' = Rest
    BY <1>10 DEF Serve, SenderInOrder, Rest, GoesOn, NoPost, None
  <2>3. Len(a \o b) = Len(a) + Len(b)
    BY <1>1, ConcatProperties
  <2>4. From(a \o b, 0)
    BY <1>1, <1>2, ConcatFrom DEF Parts
  <2> QED
    BY <1>1, <1>2, <1>4, <2>1, <2>2, <2>3, <2>4 DEF Counted, Parts
<1>11. CASE Answered
  <2>1. /\ same /\ b = <<>> /\ post'.batch = <<>> /\ up' = up
        /\ stop' = "wait" /\ buffer' = buffer
    BY <1>11 DEF Answered, SenderInOrder, NoPost, stateVars
  <2>2. Rest' = Rest
    BY <1>11 DEF Answered, Rest, GoesOn, None
  <2> QED
    BY <1>2, <2>1, <2>2 DEF Counted, None
<1>12. CASE Fail
  <2>1. /\ arrived' = a /\ sent' = sent /\ post'.batch = <<>> /\ Rest' = <<>>
        /\ up' = <<>> /\ readyState' # "open"
    BY <1>12 DEF Fail, NoPost, None, Rest, GoesOn, Apart
  <2> QED
    BY <1>1, <1>2, <1>4, <2>1 DEF Counted, Parts
<1>13. CASE WaitOver
  <2>1. same /\ b = <<>> /\ up = <<>> /\ up' = <<>> /\ Rest = buffer /\ post = NoPost
    BY <1>13 DEF WaitOver, SenderInOrder, Apart, Rest, GoesOn, NoPost, None, stateVars
  <2>2. CASE buffer = <<>>
    <3>1. post'.batch = <<>> /\ Rest' = <<>> /\ buffer' = <<>>
      BY <1>13, <2>1, <2>2 DEF WaitOver, Rest, NoPost
    <3> QED
      BY <1>1, <1>2, <1>4, <2>1, <2>2, <3>1 DEF Counted, Parts
  <2>3. CASE buffer # <<>>
    <3>1. post'.batch = buffer /\ Rest' = <<>> /\ buffer' = <<>>
      BY <1>13, <2>3 DEF WaitOver, Schedule, Rest
    <3> QED
      BY <1>1, <1>2, <1>4, <2>1, <3>1 DEF Counted, Parts
  <2> QED BY <2>2, <2>3
<1>14. CASE Deliver
  <2>1. /\ up # <<>> /\ arrived' = Append(a, Head(up)) /\ up' = Tail(up)
        /\ sent' = sent /\ gone' = gone /\ readyState' = readyState
        /\ post'.batch = b /\ b = <<>> /\ Rest' = <<>> /\ Rest = <<>>
        /\ buffer' = buffer /\ buffer = <<>>
    BY <1>14 DEF Deliver, Apart, NoPost, Rest, senderVars, stateVars
  <2>2. /\ Len(up) \in Nat \ {0} /\ Head(up) = up[1] /\ Len(Tail(up)) = Len(up) - 1
        /\ \A i \in 1 .. Len(Tail(up)) : Tail(up)[i] = up[i + 1]
    BY <1>1, <2>1, HeadTailProperties, EmptySeq
  <2>3. Head(up) = 0 + Len(a) + 1
    BY <1>1, <1>2, <1>4, <2>1, <2>2 DEF Parts, From
  <2>4. Len(arrived') = Len(a) + 1 /\ From(arrived', 0)
    BY <1>1, <1>2, <2>1, <2>3, AppendFrom DEF Parts
  <2>5. From(up', Len(arrived') + Len(<<>>))
    BY <1>1, <1>2, <1>4, <2>1, <2>2, <2>4 DEF Parts, From
  <2>6. Len(arrived') + Len(<<>>) + Len(up') + Len(<<>>)
          = Len(a) + Len(b) + Len(up) + Len(Rest)
    <3>1. Len(b) = 0 /\ Len(Rest) = 0 /\ Len(up') = Len(up) - 1 /\ Len(arrived') = Len(a) + 1
      BY <1>4, <2>1, <2>2, <2>4
    <3> HIDE DEF a, b
    <3> QED BY <1>1, <1>4, <3>1
  <2>7. Parts(arrived', <<>>, up', <<>>)
    BY <1>4, <2>4, <2>5 DEF Parts
  <2> QED
    BY <1>2, <2>1, <2>6, <2>7 DEF Counted
<1>15. CASE Lose
  <2>1. /\ same /\ up' = <<>> /\ ~(readyState = "open" /\ ~gone)
    BY <1>15 DEF Lose, Ended, stateVars
  <2>2. \/ post'.batch = b /\ Rest' = Rest
        \/ post'.batch = <<>> /\ Rest' = <<>>
    <3>1. CASE post.st = "orphan"
      BY <1>15, <3>1 DEF Lose, SenderInOrder, Rest, GoesOn, NoPost, None, TypeOK
    <3>2. CASE post.st # "orphan"
      BY <1>15, <3>2 DEF Lose, Rest, GoesOn
    <3> QED BY <3>1, <3>2
  <2>3. post'.batch = b => up = <<>> \/ Rest' = <<>>
    BY <1>15 DEF Lose, Apart, SenderInOrder, Rest, GoesOn, NoPost, None
  <2>4. CASE post'.batch = <<>> /\ Rest' = <<>>
    BY <1>1, <1>2, <1>4, <2>1, <2>4 DEF Counted, Parts
  <2>5. CASE post'.batch = b /\ up = <<>> /\ Rest' = Rest
    BY <1>1, <1>2, <2>1, <2>5 DEF Counted, Parts
  <2>6. CASE post'.batch = b /\ Rest' = <<>>
    BY <1>1, <1>2, <1>4, <2>1, <2>6 DEF Counted, Parts
  <2> QED BY <2>2, <2>3, <2>4, <2>5, <2>6
<1>16. CASE Unload
  <2>1. /\ arrived' = a /\ sent' = sent /\ gone' /\ up' = up /\ Rest' = <<>>
    BY <1>16 DEF Unload, Rest, GoesOn, NoPost, None, TypeOK, Posts
  <2>2. \/ post'.batch = b
        \/ post'.batch = <<>> /\ (b = <<>> \/ up = <<>>)
    BY <1>16 DEF Unload, Apart, NoPost, TypeOK, Posts
  <2>3. CASE post'.batch = b
    BY <1>1, <1>2, <1>4, <2>1, <2>3 DEF Counted, Parts
  <2>4. CASE post'.batch = <<>> /\ up = <<>>
    BY <1>1, <1>2, <1>4, <2>1, <2>4 DEF Counted, Parts
  <2> QED BY <2>2, <2>3, <2>4
<1> QED
  BY <1>5, <1>6, <1>7, <1>8, <1>9, <1>10, <1>11, <1>12, <1>13, <1>14, <1>15, <1>16,
     StepKinds

-----------------------------------------------------------------------------
(* The theorems. *)

\* The invariant holds at the start.
LEMMA Begin == Init => IInv
<1> SUFFICES ASSUME Init PROVE IInv
  OBVIOUS
<1>1. TypeOK
  <2>1. /\ <<>> \in Seq({"websocket", "ajax"}) /\ <<>> \in Seq({"open", "close"})
        /\ <<>> \in Seq(Nat) /\ Len(<<>>) = 0
    BY EmptySeq
  <2>2. Len(Transports) \in Nat /\ MaxSends \in Nat
    BY ConstantsAssumption, LenProperties
  <2>3. 0 \in 0 .. Len(Transports) /\ 0 \in 0 .. MaxSends /\ 0 <= Len(Transports)
    BY <2>2
  <2>4. NoPost \in Posts
    BY <2>1 DEF NoPost, Posts
  <2> QED
    BY <2>1, <2>3, <2>4 DEF Init, TypeOK
<1>2. Ended /\ Apart /\ SenderInOrder
  BY DEF Init, Ended, Apart, SenderInOrder, NoPost, None
<1>3. /\ arrived = <<>> /\ post.batch = <<>> /\ up = <<>> /\ Rest = <<>>
      /\ sent = 0 /\ readyState # "open"
  BY DEF Init, NoPost, Rest
<1>4. Parts(<<>>, <<>>, <<>>, <<>>)
  BY EmptyFrom DEF Parts
<1>5. Underway
  BY <1>1, <1>3, <1>4, EmptyFrom, UnderwayParts DEF Underway
<1> QED
  BY <1>1, <1>2, <1>5 DEF IInv

\* The invariant is kept by every step.
LEMMA Step == IInv /\ [Next]_vars => IInv'
<1>1. ASSUME IInv, Next PROVE IInv'
  BY <1>1, TypeStep, EndedStep, ApartStep, SenderStep, UnderwayStep DEF IInv
<1>2. ASSUME IInv, UNCHANGED vars PROVE IInv'
  <2>1. /\ TypeOK' /\ Ended' /\ Apart' /\ SenderInOrder'
    BY <1>2 DEF IInv, vars, stateVars, senderVars, TypeOK, Ended, Apart, SenderInOrder
  <2>2. Underway'
    BY <1>2 DEF IInv, vars, stateVars, senderVars, Underway, Way, GoesOn, Numbered
  <2> QED
    BY <2>1, <2>2 DEF IInv
<1> QED BY <1>1, <1>2

\* sockjs.js:786-977, 2013-2076: whatever transports are tried, time out, break
\* or are closed, the connection closes once, and the messages accepted from
\* the page are at the server or under way in the order of send, none twice.
THEOREM Invariance == Spec => []IInv
BY Begin, Step, PTL DEF Spec

\* What the server has got are the first messages.
LEMMA ArrivedInOrder ==
  ASSUME IInv
  PROVE  arrived = C!UpTo(Len(arrived)) /\ Len(arrived) \in Nat /\ Len(arrived) <= sent
<1>1. /\ From(arrived, 0) /\ Len(arrived) \in Nat /\ arrived \in Seq(Nat)
      /\ Len(arrived) + Len(post.batch) + Len(up) + Len(Rest) <= sent
      /\ Len(post.batch) \in Nat /\ Len(up) \in Nat /\ Len(Rest) \in Nat
  BY UnderwayParts, LenProperties DEF IInv, TypeOK, Underway, Parts
<1>2. arrived \in [1 .. Len(arrived) -> Nat]
  BY <1>1, LenProperties
<1>3. \A i \in 1 .. Len(arrived) : arrived[i] = i
  BY <1>1 DEF From
<1>4. Len(arrived) <= sent
  BY <1>1, ConstantsAssumption DEF IInv, TypeOK
<1> QED
  BY <1>1, <1>2, <1>3, <1>4 DEF C!UpTo

\* The same of the next state.
LEMMA ArrivesInOrder ==
  ASSUME IInv'
  PROVE  /\ arrived' = C!UpTo(Len(arrived')) /\ Len(arrived') \in Nat
         /\ Len(arrived') <= sent'
<1>1. /\ Parts(arrived', post'.batch, up', Rest')
      /\ Len(arrived') + Len(post'.batch) + Len(up') + Len(Rest') <= sent'
      /\ post'.batch \in Seq(Nat) /\ Rest' \in Seq(Nat)
      /\ arrived' \in Seq(Nat) /\ up' \in Seq(Nat) /\ sent' \in 0 .. MaxSends
  BY NextParts DEF IInv, TypeOK, Underway
<1>2. /\ Len(arrived') \in Nat /\ Len(post'.batch) \in Nat /\ Len(up') \in Nat
      /\ Len(Rest') \in Nat /\ sent' \in Nat
  BY <1>1, LenProperties, ConstantsAssumption
<1>3. arrived' \in [1 .. Len(arrived') -> Nat]
  BY <1>1, LenProperties
<1>4. \A i \in 1 .. Len(arrived') : arrived'[i] = i
  BY <1>1 DEF Parts, From
<1>5. Len(arrived') <= sent'
  BY <1>1, <1>2
<1> QED
  BY <1>2, <1>3, <1>4, <1>5 DEF C!UpTo

\* Every step is a step of the Connection, or changes nothing it speaks of.
LEMMA Maps ==
  ASSUME IInv, IInv', Next
  PROVE  C!Next \/ UNCHANGED <<events, readyState \in {"closing", "closed"}, sent, arrived>>
<1> DEFINE ending == readyState \in {"closing", "closed"}
<1>0. TypeOK /\ Ended /\ SenderInOrder /\ sent \in Nat
  BY ConstantsAssumption DEF IInv, TypeOK
<1>1. CASE Tries \/ Expires \/ Start \/ Answered \/ WaitOver \/ Lose \/ Unload
  BY <1>1 DEF Tries, Expires, Start, Answered, WaitOver, Lose, Unload, stateVars
<1>2. CASE Ends
  BY <1>2 DEF Ends, C!Next, C!End
<1>3. CASE Opens
  <2>1. events = <<>> /\ events' = <<"open">>
    BY <1>0, <1>3 DEF Opens, Ended
  <2> QED
    BY <1>3, <2>1 DEF Opens, C!Next, C!Open
<1>4. CASE Closed
  <2>1. readyState = "closing"
    BY <1>0, <1>4 DEF Closed, Ended, TypeOK
  <2> QED
    BY <1>0, <1>4, <2>1 DEF Closed, Ended, C!Next, C!Close
<1>5. CASE Send
  BY <1>0, <1>5 DEF Send, Ended, stateVars, C!Next, C!Say
<1>6. CASE Serve \/ Deliver
  <2>1. UNCHANGED <<events, readyState, sent>>
    BY <1>6 DEF Serve, Deliver, stateVars
  <2>2. Len(arrived') >= Len(arrived) + 1
    <3>1. CASE Serve
      <4>1. post.batch \in Seq(Nat) /\ post.batch # <<>> /\ arrived' = arrived \o post.batch
        BY <1>0, <3>1 DEF Serve, SenderInOrder, TypeOK, Posts, None
      <4>2. Len(post.batch) \in Nat \ {0} /\ Len(arrived) \in Nat
        BY <1>0, <4>1, EmptySeq, LenProperties DEF TypeOK
      <4>3. Len(arrived') = Len(arrived) + Len(post.batch)
        BY <1>0, <4>1, ConcatProperties DEF TypeOK
      <4> QED BY <4>2, <4>3
    <3>2. CASE Deliver
      <4>1. Head(up) \in Nat /\ arrived \in Seq(Nat) /\ Len(arrived) \in Nat
        BY <1>0, <3>2, HeadTailProperties, LenProperties DEF Deliver, TypeOK
      <4>2. Len(arrived') = Len(arrived) + 1
        BY <3>2, <4>1 DEF Deliver
      <4> QED BY <4>1, <4>2
    <3> QED BY <1>6, <3>1, <3>2
  <2>3. /\ arrived' = C!UpTo(Len(arrived')) /\ Len(arrived') \in Nat
        /\ Len(arrived') <= sent /\ Len(arrived) \in Nat
    BY <2>1, ArrivesInOrder, ArrivedInOrder
  <2>4. Len(arrived') \in Len(arrived) + 1 .. sent
    BY <1>0, <2>2, <2>3
  <2> QED
    BY <2>1, <2>3, <2>4 DEF C!Next, C!Hear
<1>7. CASE Fail
  BY <1>7 DEF Fail, C!Next, C!End
<1> QED
  BY <1>0, <1>1, <1>2, <1>3, <1>4, <1>5, <1>6, <1>7, StepKinds

\* sockjs.js promises its page a Connection: one open event at most, one close
\* event, last; and to the server a beginning of what was sent.
THEOREM Refinement == Spec => RefinesConnection
<1>1. Init => C!Init
  BY DEF Init, C!Init
<1>2. IInv /\ IInv' /\ [Next]_vars => [C!Next]_C!vars
  <2>1. UNCHANGED vars => UNCHANGED C!vars
    BY DEF vars, stateVars, C!vars
  <2> QED
    BY <2>1, Maps DEF C!vars
<1> QED
  BY <1>1, <1>2, Invariance, PTL DEF Spec, RefinesConnection, C!Spec
=============================================================================
