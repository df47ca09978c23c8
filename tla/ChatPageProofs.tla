--------------------------- MODULE ChatPageProofs ---------------------------
(***************************************************************************)
(* Theorems about ChatPage, for every set of groups and of connections and *)
(* however many pages are in flight.                                       *)
(***************************************************************************)
EXTENDS ChatPage, TLAPS

(* What a new page and its connection are built from. *)

\* The connection a page takes is one of the identities, and is not in use.
LEMMA FreeConnIsFree ==
  ASSUME \E c \in ConnIds : ~Live(c)
  PROVE  FreeConn \in ConnIds /\ ~Live(FreeConn)
BY DEF FreeConn

\* A new page has asked for the list.
LEMMA FreshLoads ==
  [e \in Entries |-> IF e = "list" THEN 1 ELSE 0] \in [Entries -> 0..MaxLoads]
<1>1. 0 \in 0..MaxLoads /\ 1 \in 0..MaxLoads
  BY ConstantsAssumption
<1> QED BY <1>1

\* An ended connection is a connection.
LEMMA EndedType ==
  Ended \in [st : {"closed", "opening", "open", "up"},
             group : Topics \cup {NoGroup}, subs : [Topics -> Nat]]
BY DEF Ended

-----------------------------------------------------------------------------
(* Type correctness. *)

\* A browser tab starts well typed.
LEMMA InitType == Init => TypeOK
BY FreshLoads, EndedType DEF Init, FreshPage, TypeOK, Entries, Others, NoAsk

\* Both ways of losing a page's connection keep the types.
LEMMA DestroyType ==
  ASSUME TypeOK, Destroy
  PROVE  /\ bound' \in BOOLEAN
         /\ listeners' \in SUBSET {"own", "old"}
         /\ conn' \in [ConnIds -> [st : {"closed", "opening", "open", "up"},
                                   group : Topics \cup {NoGroup},
                                   subs : [Topics -> Nat]]]
         /\ told' \in Groups \cup {NoGroup}
         /\ cut' \in BOOLEAN
<1>1. CASE Sends
  BY <1>1, EndedType
     DEF TypeOK, Destroy, Disconnect, AfterLeave, After, Sends
<1>2. CASE ~Sends
  BY <1>2 DEF TypeOK, Destroy, Disconnect, wireVars
<1> QED BY <1>1, <1>2

\* A page that may be fetched stays within the bound of loads.
LEMMA FetchType ==
  ASSUME TypeOK, NEW e \in Entries, MayFetch(e)
  PROVE  Fetch(e) \in [Entries -> 0..MaxLoads]
BY ConstantsAssumption DEF TypeOK, MayFetch, Fetch

\* An answered page is one less in flight.
LEMMA AnsweredType ==
  ASSUME TypeOK, NEW e \in Entries, PageAnswered(e)
  PROVE  loads' \in [Entries -> 0..MaxLoads]
<1>1. loads[e] - 1 \in 0..MaxLoads
  BY ConstantsAssumption DEF TypeOK, PageAnswered
<1> QED BY <1>1 DEF TypeOK, PageAnswered

\* The connection a group's page opens.
NewConn == [Ended EXCEPT !.st = "opening", !.group = SelectedGroup]

\* It is opened for the group selected, with no subscription.
LEMMA NewConnType ==
  /\ SelectedGroup \in Topics
  /\ NewConn.st = "opening" /\ NewConn.group = SelectedGroup
  /\ NewConn.subs = [t \in Topics |-> 0]
  /\ NewConn \in [st : {"closed", "opening", "open", "up"},
                  group : Topics \cup {NoGroup}, subs : [Topics -> Nat]]
BY DEF NewConn, Ended, SelectedGroup, Topics

\* CONNECTED leaves every connection a connection.
LEMMA ConnectedType ==
  ASSUME TypeOK, NEW c \in ConnIds, Connected(c)
  PROVE  conn' \in [ConnIds -> [st : {"closed", "opening", "open", "up"},
                               group : Topics \cup {NoGroup},
                               subs : [Topics -> Nat]]]
<1> DEFINE up == [conn EXCEPT ![c].st = "up"]
<1>1. up \in [ConnIds -> [st : {"closed", "opening", "open", "up"},
                         group : Topics \cup {NoGroup},
                         subs : [Topics -> Nat]]]
  BY DEF TypeOK
<1>2. CASE Sends
  <2>1. conn' = [up EXCEPT ![current].subs[header] = @ + 1]
    BY <1>2 DEF Connected, SubscribedTopic
  <2>2. current \in ConnIds
    BY <1>2 DEF Sends, TypeOK
  <2>3. up[current].subs[header] + 1 \in Nat \/ header \notin Topics
    BY <1>1, <2>2
  <2> QED BY <1>1, <2>1, <2>2, <2>3
<1>3. CASE ~Sends
  BY <1>1, <1>3 DEF Connected
<1> QED BY <1>2, <1>3

\* Every step of the page, the answers and the network keeps the types.
LEMMA StepType == TypeOK /\ [Next]_vars => TypeOK'
<1> SUFFICES ASSUME TypeOK, [Next]_vars PROVE TypeOK'
  OBVIOUS
<1> USE DEF menuVars, viewVars, chatVars, wireVars, Acts
<1>1. ASSUME NEW e \in Entries, SelectIcon(e) PROVE TypeOK'
  BY <1>1, DestroyType, FetchType DEF SelectIcon, TypeOK
<1>2. ASSUME NEW g \in Groups, AskJoin(g) PROVE TypeOK'
  BY <1>2 DEF AskJoin, TypeOK
<1>3. CASE AskExit
  BY <1>3 DEF AskExit, TypeOK
<1>4. CASE Unload
  <2>1. menu' \subseteq Groups
    BY <1>4 DEF Unload, TypeOK
  <2>2. told' \in Groups \cup {NoGroup} /\ cut' \in BOOLEAN
    BY <1>4 DEF Unload, TypeOK, AfterLeave, After
  <2> QED
    BY <1>4, <2>1, <2>2, EndedType, FreshLoads
       DEF Unload, TypeOK, Entries, Others, NoAsk
<1>5. CASE JoinAnswered
  <2>1. asked.group \in Groups
    BY <1>5 DEF JoinAnswered, TypeOK, NoAsk
  <2> QED
    BY <1>5, <2>1, FetchType DEF JoinAnswered, TypeOK, NoAsk, Entries
<1>6. CASE ExitAnswered
  BY <1>6, DestroyType, FetchType
     DEF ExitAnswered, TypeOK, NoAsk, Entries, Others
<1>7. CASE AskRefused
  BY <1>7 DEF AskRefused, TypeOK, NoAsk
<1>8. ASSUME NEW e \in Entries, OtherAnswered(e) PROVE TypeOK'
  BY <1>8, AnsweredType DEF OtherAnswered, TypeOK
<1>9. ASSUME NEW e \in Entries, GroupAnswered(e) PROVE TypeOK'
  <2>1. conn' = [conn EXCEPT ![FreeConn] = NewConn] /\ FreeConn \in ConnIds
    BY <1>9, FreeConnIsFree DEF GroupAnswered, NewConn
  <2>2. asked' \in {NoAsk} \cup [op : {"join", "exit"}, group : Groups,
                                here : BOOLEAN]
    <3>1. CASE asked = NoAsk
      BY <1>9, <3>1 DEF GroupAnswered, NoAsk
    <3>2. CASE asked # NoAsk
      BY <1>9, <3>2 DEF GroupAnswered, TypeOK
    <3> QED BY <3>1, <3>2
  <2>3. conn' \in [ConnIds -> [st : {"closed", "opening", "open", "up"},
                              group : Topics \cup {NoGroup},
                              subs : [Topics -> Nat]]]
    BY <2>1, NewConnType DEF TypeOK
  <2>4. /\ loads' \in [Entries -> 0..MaxLoads]
        /\ listeners' \in SUBSET {"own", "old"}
    BY <1>9, AnsweredType DEF GroupAnswered, AddListener
  <2>5. header' \in Topics /\ shown' \in Topics /\ detail' \in Topics
    BY <1>9, NewConnType DEF GroupAnswered, NewHeader
  <2>6. current' \in ConnIds
    BY <1>9, <2>1 DEF GroupAnswered
  <2> QED
    BY <1>9, <2>2, <2>3, <2>4, <2>5, <2>6 DEF GroupAnswered, TypeOK
<1>10. ASSUME NEW e \in Entries, LoadFails(e) PROVE TypeOK'
  BY <1>10, AnsweredType DEF LoadFails, TypeOK
<1>11. ASSUME NEW c \in ConnIds, Opened(c) PROVE TypeOK'
  BY <1>11 DEF Opened, TypeOK, menuVars
<1>12. ASSUME NEW c \in ConnIds, Connected(c) PROVE TypeOK'
  <2>1. told' \in Groups \cup {NoGroup} /\ cut' \in BOOLEAN
    BY <1>12 DEF Connected, TypeOK, After, Topics
  <2> QED
    BY <1>12, <2>1, ConnectedType DEF Connected, TypeOK
<1>13. ASSUME NEW c \in ConnIds, Lost(c) PROVE TypeOK'
  BY <1>13, EndedType DEF Lost, TypeOK
<1>14. CASE UNCHANGED vars
  BY <1>14 DEF vars, TypeOK
<1> QED
  BY <1>1, <1>2, <1>3, <1>4, <1>5, <1>6, <1>7, <1>8, <1>9, <1>10, <1>11,
     <1>12, <1>13, <1>14 DEF Next, User, Answers, Network

-----------------------------------------------------------------------------
(* One group per connection, and what is typed goes where it is shown. *)

\* The input handlers stay only with the page they belong to.
BoundKept == bound' => bound /\ shown' = shown

\* Steps that leave the connections alone, and steps that end one.
Keeps == UNCHANGED <<conn, current, header>> /\ BoundKept
Ends(c) ==
  conn' = [conn EXCEPT ![c] = Ended] /\ UNCHANGED chatVars /\ BoundKept

\* destroy ends the current connection or leaves all alone.
LEMMA DestroyKinds ==
  ASSUME TypeOK, Destroy, UNCHANGED <<current, header, shown>>
  PROVE  Keeps \/ \E c \in ConnIds : Ends(c)
<1>1. CASE Sends
  BY <1>1
     DEF Sends, TypeOK, Destroy, Disconnect, Ends, BoundKept, chatVars
<1>2. CASE ~Sends
  BY <1>2 DEF Destroy, Disconnect, Keeps, BoundKept, wireVars
<1> QED BY <1>1, <1>2

\* Every step is of one of these kinds.
LEMMA StepKinds ==
  ASSUME TypeOK, [Next]_vars
  PROVE  \/ Keeps
         \/ Unload
         \/ \E c \in ConnIds : Ends(c) \/ Opened(c) \/ Connected(c)
         \/ \E e \in Entries : GroupAnswered(e)
<1> USE DEF menuVars, viewVars, chatVars, wireVars
<1>1. ASSUME NEW e \in Entries, SelectIcon(e)
      PROVE  Keeps \/ \E c \in ConnIds : Ends(c)
  BY <1>1, DestroyKinds DEF SelectIcon
<1>2. CASE ExitAnswered
  BY <1>2, DestroyKinds DEF ExitAnswered
<1>3. ASSUME NEW g \in Groups, AskJoin(g) PROVE Keeps
  BY <1>3 DEF AskJoin, Keeps, BoundKept
<1>4. CASE AskExit
  BY <1>4 DEF AskExit, Keeps, BoundKept
<1>5. CASE JoinAnswered
  BY <1>5 DEF JoinAnswered, Keeps, BoundKept
<1>6. CASE AskRefused
  BY <1>6 DEF AskRefused, Keeps, BoundKept
<1>7. ASSUME NEW e \in Entries, OtherAnswered(e) PROVE Keeps
  BY <1>7 DEF OtherAnswered, Keeps, BoundKept
<1>8. ASSUME NEW e \in Entries, LoadFails(e) PROVE Keeps
  BY <1>8 DEF LoadFails, Keeps, BoundKept
<1>9. ASSUME NEW c \in ConnIds, Lost(c) PROVE Ends(c)
  BY <1>9 DEF Lost, Ends, BoundKept
<1>10. CASE UNCHANGED vars
  BY <1>10 DEF vars, Keeps, BoundKept
<1> QED
  BY <1>1, <1>2, <1>3, <1>4, <1>5, <1>6, <1>7, <1>8, <1>9, <1>10
     DEF Next, User, Answers, Network

\* What holds whatever the user does.
Wiring == TypeOK /\ EndedIsQuiet /\ OneGroupPerConnection /\ SaysWhereShown

\* The kinds of steps keep subscriptions, header and page in agreement.
LEMMA StepWiring ==
  ASSUME Wiring, [Next]_vars
  PROVE  EndedIsQuiet' /\ OneGroupPerConnection' /\ SaysWhereShown'
<1> USE DEF Wiring
<1>1. CASE Keeps
  BY <1>1 DEF Keeps, BoundKept, EndedIsQuiet, OneGroupPerConnection,
              SaysWhereShown, Live
<1>2. ASSUME NEW c \in ConnIds, Ends(c)
      PROVE  EndedIsQuiet' /\ OneGroupPerConnection' /\ SaysWhereShown'
  <2>1. \A d \in ConnIds : conn'[d] = IF d = c THEN Ended ELSE conn[d]
    BY <1>2 DEF Ends, TypeOK
  <2>2. Ended.st = "closed"
    BY DEF Ended
  <2> QED
    BY <1>2, <2>1, <2>2
       DEF Ends, BoundKept, EndedIsQuiet, OneGroupPerConnection,
           SaysWhereShown, Live, TypeOK, chatVars
<1>3. CASE Unload
  BY <1>3 DEF Unload, EndedIsQuiet, OneGroupPerConnection, SaysWhereShown,
              Live, Ended
<1>4. ASSUME NEW e \in Entries, GroupAnswered(e)
      PROVE  EndedIsQuiet' /\ OneGroupPerConnection' /\ SaysWhereShown'
  <2>1. FreeConn \in ConnIds /\ current' = FreeConn
    BY <1>4, FreeConnIsFree DEF GroupAnswered
  <2>2. \A d \in ConnIds :
          conn'[d] = IF d = FreeConn THEN NewConn ELSE conn[d]
    BY <1>4, <2>1 DEF GroupAnswered, NewConn, TypeOK
  <2>3. header' = SelectedGroup /\ shown' = SelectedGroup
    BY <1>4 DEF GroupAnswered, NewHeader
  <2>4. FreeConn # NoConn
    BY <2>1, ConstantsAssumption
  <2> QED
    BY <2>1, <2>2, <2>3, <2>4, NewConnType
       DEF EndedIsQuiet, OneGroupPerConnection, SaysWhereShown, Live
<1>5. ASSUME NEW c \in ConnIds, Opened(c)
      PROVE  EndedIsQuiet' /\ OneGroupPerConnection' /\ SaysWhereShown'
  <2>1. \A d \in ConnIds : /\ conn'[d].group = conn[d].group
                           /\ conn'[d].subs = conn[d].subs
                           /\ d # c => conn'[d] = conn[d]
    BY <1>5 DEF Opened, TypeOK
  <2>2. conn[c].st = "opening" /\ conn'[c].st = "open"
    BY <1>5 DEF Opened, TypeOK
  <2> QED
    BY <1>5, <2>1, <2>2
       DEF Opened, EndedIsQuiet, OneGroupPerConnection, SaysWhereShown, Live,
           viewVars, chatVars, TypeOK
<1>6. ASSUME NEW c \in ConnIds, Connected(c)
      PROVE  EndedIsQuiet' /\ OneGroupPerConnection' /\ SaysWhereShown'
  <2>1. \A d \in ConnIds :
          /\ conn'[d].group = conn[d].group
          /\ d # c => conn'[d].st = conn[d].st
          /\ d # c /\ conn'[d] # conn[d] => conn[d].st # "closed"
          /\ \A t \in Topics :
               conn'[d].subs[t] # conn[d].subs[t] => d = current /\ t = header
    BY <1>6 DEF Connected, SubscribedTopic, TypeOK, Sends
  <2>2. conn[c].st = "open" /\ conn'[c].st = "up"
    BY <1>6 DEF Connected, TypeOK
  <2>3. current # NoConn => current \in ConnIds
    BY DEF TypeOK
  <2>4. \A d \in ConnIds : Live(d)' <=> Live(d)
    BY <2>1, <2>2 DEF Live
  <2>5. UNCHANGED <<viewVars, chatVars>>
    BY <1>6 DEF Connected
  <2>6. EndedIsQuiet'
    BY <2>1, <2>2 DEF EndedIsQuiet, Live
  <2>7. \A d \in ConnIds, t \in Topics :
          Live(d)' /\ conn'[d].subs[t] > 0 => t = conn'[d].group
    <3> SUFFICES ASSUME NEW d \in ConnIds, NEW t \in Topics, Live(d),
                        conn'[d].subs[t] > 0
                 PROVE  t = conn[d].group
      BY <2>1, <2>4
    <3>1. CASE conn'[d].subs[t] = conn[d].subs[t]
      BY <3>1 DEF OneGroupPerConnection
    <3>2. CASE conn'[d].subs[t] # conn[d].subs[t]
      BY <3>2, <2>1, ConstantsAssumption DEF OneGroupPerConnection
    <3> QED BY <3>1, <3>2
  <2>8. OneGroupPerConnection'
    BY <2>1, <2>3, <2>4, <2>5, <2>7 DEF OneGroupPerConnection, chatVars
  <2>9. SaysWhereShown'
    BY <2>1, <2>3, <2>4, <2>5 DEF SaysWhereShown, viewVars, chatVars
  <2> QED BY <2>6, <2>8, <2>9
<1> QED BY <1>1, <1>2, <1>3, <1>4, <1>5, <1>6, StepKinds

-----------------------------------------------------------------------------
(* A user who is not hasty. *)

\* The invariant for a user who is not hasty, and what a step has to keep.
CalmState == Wiring /\ ~hasty /\ OneWait /\ OnlyCurrent /\ CalmPresence
CalmNext == OneWait' /\ OnlyCurrent' /\ CalmPresence'

\* When nobody waits, nothing is in flight and the connection is not opening.
LEMMA NotBusy ==
  ASSUME ~Busy
  PROVE  asked = NoAsk /\ ~InFlight /\ ~Throws
BY DEF Busy, InFlight

\* Destroying a page of a calm user that is not opening leaves no connection
\* and nobody present, unless the connection was lost.
LEMMA CalmDestroy ==
  ASSUME CalmState, Destroy, ~Throws
  PROVE  /\ \A c \in ConnIds : conn'[c] = Ended
         /\ told' # NoGroup => cut'
<1>1. CASE Sends
  <2>1. current \in ConnIds /\ Live(current)
    BY <1>1 DEF Sends, Live, CalmState, Wiring, TypeOK
  <2>2. \A c \in ConnIds : conn'[c] = IF c = current THEN Ended ELSE conn[c]
    BY <1>1, <2>1 DEF Destroy, Disconnect, CalmState, Wiring, TypeOK
  <2>3. \A c \in ConnIds : c # current => conn[c] = Ended
    BY DEF CalmState, OnlyCurrent, Wiring, EndedIsQuiet
  <2>4. told # NoGroup /\ ~cut => header # Undefined
    BY ConstantsAssumption DEF CalmState, CalmPresence, Wiring, TypeOK
  <2>5. told' # NoGroup => cut'
    BY <1>1, <2>4
       DEF Destroy, Disconnect, AfterLeave, After, CalmState, Wiring, TypeOK
  <2> QED BY <2>2, <2>3, <2>5
<1>2. CASE ~Sends
  <2>1. \A c \in ConnIds : ~Live(c)
    BY <1>2, ConstantsAssumption
       DEF CalmState, OnlyCurrent, Sends, Throws, Live, Wiring, TypeOK
  <2>2. UNCHANGED <<conn, told, cut>>
    BY <1>2 DEF Destroy, Disconnect, wireVars
  <2>3. told # NoGroup => cut
    BY <1>2 DEF CalmState, CalmPresence, Sends
  <2> QED
    BY <2>1, <2>2, <2>3 DEF CalmState, Wiring, EndedIsQuiet
<1> QED BY <1>1, <1>2

\* One page is fetched when nothing was in flight.
LEMMA CalmFetch ==
  ASSUME TypeOK, ~InFlight, NEW e \in Entries,
         loads' = Fetch(e) \/ UNCHANGED loads
  PROVE  \A f, h \in Entries :
           loads'[f] > 0 /\ loads'[h] > 0 => f = h /\ loads'[f] = 1
<1>1. \A f \in Entries : loads[f] = 0
  BY ConstantsAssumption DEF TypeOK, InFlight
<1>2. \A f \in Entries : loads'[f] = 0 \/ (f = e /\ loads'[f] = 1)
  BY <1>1 DEF Fetch, TypeOK
<1> QED BY <1>2

\* With every connection ended, only what is in flight matters.
LEMMA CalmWhenEnded ==
  ASSUME \A c \in ConnIds : conn'[c] = Ended, told' # NoGroup => cut'
  PROVE  OnlyCurrent' /\ CalmPresence'
BY DEF OnlyCurrent, CalmPresence, Live, Ended

\* An answer leaves nothing in flight.
LEMMA CalmAnswer ==
  ASSUME CalmState, NEW e \in Entries, PageAnswered(e)
  PROVE  /\ InFlight /\ ~InFlight'
         /\ asked = NoAsk
         /\ \A c \in ConnIds : conn[c] = Ended
         /\ told # NoGroup => cut
<1>1. InFlight /\ asked = NoAsk
  BY DEF PageAnswered, InFlight, CalmState, OneWait
<1>2. \A f \in Entries : loads'[f] = 0
  BY ConstantsAssumption DEF PageAnswered, CalmState, OneWait, Wiring, TypeOK
<1>3. ~InFlight'
  BY <1>2 DEF InFlight
<1>4. \A c \in ConnIds : conn[c] = Ended
  BY <1>1 DEF CalmState, OnlyCurrent, Wiring, EndedIsQuiet
<1>5. told # NoGroup => cut
  BY <1>4 DEF CalmState, CalmPresence, Ended, Wiring, TypeOK
<1> QED BY <1>1, <1>3, <1>4, <1>5

\* What the user does.
LEMMA CalmUser ==
  ASSUME CalmState, User, ~hasty'
  PROVE  CalmNext
<1> USE DEF viewVars, chatVars, wireVars
<1>1. ASSUME NEW e \in Entries, SelectIcon(e) PROVE CalmNext
  <2>1. ~Busy
    BY <1>1 DEF SelectIcon, Acts
  <2>2. asked' = NoAsk /\ ~InFlight /\ ~Throws
    BY <1>1, <2>1, NotBusy DEF SelectIcon
  <2>3. loads' = Fetch(e) \/ UNCHANGED loads
    BY <1>1 DEF SelectIcon
  <2>4. OneWait'
    BY <2>2, <2>3, CalmFetch DEF OneWait, CalmState, Wiring
  <2> QED
    BY <1>1, <2>2, <2>4, CalmDestroy, CalmWhenEnded DEF SelectIcon, CalmNext
<1>2. ASSUME NEW g \in Groups, AskJoin(g) PROVE CalmNext
  <2>1. ~Busy
    BY <1>2 DEF AskJoin, Acts
  <2>2. shown \notin Topics \cup {NoGroup}
    BY <1>2, ConstantsAssumption DEF AskJoin, Topics, Undefined, NoGroup
  <2>3. \A c \in ConnIds : ~Live(c)
    BY <2>2 DEF CalmState, OnlyCurrent, Wiring, TypeOK
  <2> QED
    BY <1>2, <2>1, <2>3, NotBusy
       DEF AskJoin, CalmState, CalmNext, OneWait, OnlyCurrent, CalmPresence,
           InFlight, Live
<1>3. CASE AskExit
  <2>1. ~Busy
    BY <1>3 DEF AskExit, Acts
  <2>2. ~InFlight /\ ~InFlight' /\ ~Throws
    BY <1>3, <2>1, NotBusy DEF AskExit, InFlight
  <2>3. OnlyCurrent'
    BY <1>3, <2>2, ConstantsAssumption
       DEF AskExit, CalmState, OnlyCurrent, Throws, Live, Wiring, TypeOK
  <2> QED
    BY <1>3, <2>2, <2>3 DEF AskExit, CalmState, CalmNext, OneWait, CalmPresence
<1>4. CASE Unload
  <2>1. \A c \in ConnIds : conn'[c] = Ended
    BY <1>4 DEF Unload
  <2>2. told' # NoGroup => cut'
    <3>1. CASE hasty
      BY <1>4, <3>1 DEF CalmState
    <3>2. CASE told # NoGroup /\ ~cut
      <4>1. current \in ConnIds /\ Live(current) /\ Sends /\ header # Undefined
        BY <3>2, ConstantsAssumption
           DEF CalmState, CalmPresence, Wiring, TypeOK, Live, Sends
      <4>2. listeners # {}
        BY <4>1 DEF CalmState, OnlyCurrent
      <4> QED BY <1>4, <4>1, <4>2 DEF Unload, AfterLeave, After
    <3>3. CASE told = NoGroup \/ cut
      BY <1>4, <3>3
         DEF Unload, AfterLeave, After, CalmState, Wiring, TypeOK
    <3> QED BY <3>1, <3>2, <3>3
  <2>3. OneWait'
    BY <1>4 DEF Unload, OneWait
  <2> QED BY <2>1, <2>2, <2>3, CalmWhenEnded DEF CalmNext
<1> QED BY <1>1, <1>2, <1>3, <1>4 DEF User

\* A page opened after a hasty one starts calm if nobody is told present.
LEMMA CalmAgain ==
  ASSUME Wiring, hasty, ~hasty', [Next]_vars
  PROVE  CalmNext
<1>1. Unload
  BY DEF Next, User, Answers, Network, vars, SelectIcon, AskJoin, AskExit, Acts,
         JoinAnswered, ExitAnswered, AskRefused, OtherAnswered, GroupAnswered,
         LoadFails, Opened, Connected, Lost
<1>2. told' = NoGroup /\ (\A c \in ConnIds : conn'[c] = Ended)
  BY <1>1 DEF Unload
<1>3. OneWait'
  BY <1>1 DEF Unload, OneWait
<1> QED BY <1>2, <1>3, CalmWhenEnded DEF CalmNext

\* What the page is answered.
LEMMA CalmAnswers ==
  ASSUME CalmState, Answers
  PROVE  CalmNext
<1> USE DEF viewVars, chatVars, wireVars
<1>1. CASE JoinAnswered
  <2>1. asked # NoAsk /\ asked.op = "join" /\ asked.group \in Entries
    BY <1>1 DEF JoinAnswered, NoAsk, CalmState, Wiring, TypeOK, Entries
  <2>2. ~InFlight
    BY <2>1 DEF CalmState, OneWait
  <2>3. OneWait'
    BY <1>1, <2>1, <2>2, CalmFetch
       DEF JoinAnswered, OneWait, CalmState, Wiring
  <2>4. \A c \in ConnIds : conn'[c] = Ended
    BY <1>1, <2>1
       DEF JoinAnswered, CalmState, OnlyCurrent, Wiring, EndedIsQuiet
  <2>5. told' # NoGroup => cut'
    BY <1>1, <2>4
       DEF JoinAnswered, CalmState, CalmPresence, Wiring, TypeOK, Ended
  <2> QED BY <2>3, <2>4, <2>5, CalmWhenEnded DEF CalmNext
<1>2. CASE ExitAnswered
  <2>1. asked # NoAsk /\ asked.op = "exit"
    BY <1>2 DEF ExitAnswered, NoAsk
  <2>2. ~InFlight /\ ~Throws
    BY <2>1, ConstantsAssumption
       DEF CalmState, OneWait, OnlyCurrent, Throws, Live, Wiring, TypeOK
  <2>3. "list" \in Entries /\ (loads' = Fetch("list") \/ UNCHANGED loads)
    BY <1>2 DEF ExitAnswered, Entries, Others
  <2>4. OneWait'
    BY <1>2, <2>2, <2>3, CalmFetch
       DEF ExitAnswered, OneWait, CalmState, Wiring
  <2> QED
    BY <1>2, <2>2, <2>4, CalmDestroy, CalmWhenEnded DEF ExitAnswered, CalmNext
<1>3. CASE AskRefused
  BY <1>3 DEF AskRefused, CalmState, CalmNext, OneWait, OnlyCurrent,
              CalmPresence, InFlight, Live
<1>4. ASSUME NEW e \in Entries, OtherAnswered(e) \/ LoadFails(e)
      PROVE  CalmNext
  <2>1. PageAnswered(e) /\ UNCHANGED <<asked, conn, told, cut>>
    BY <1>4 DEF OtherAnswered, LoadFails
  <2>2. OneWait'
    BY <2>1, CalmAnswer DEF OneWait, InFlight
  <2> QED BY <2>1, <2>2, CalmAnswer, CalmWhenEnded DEF CalmNext
<1>5. ASSUME NEW e \in Entries, GroupAnswered(e) PROVE CalmNext
  <2>1. PageAnswered(e)
    BY <1>5 DEF GroupAnswered
  <2>2. ~InFlight' /\ (told' # NoGroup => cut')
    BY <1>5, <2>1, CalmAnswer DEF GroupAnswered
  <2>3. \A d \in ConnIds :
          conn'[d] = IF d = FreeConn THEN NewConn ELSE Ended
    BY <1>5, <2>1, CalmAnswer, FreeConnIsFree
       DEF GroupAnswered, NewConn, CalmState, Wiring, TypeOK
  <2>4. asked' = NoAsk
    <3>1. asked = NoAsk
      BY <2>1, CalmAnswer
    <3> QED BY <1>5, <3>1 DEF GroupAnswered, NoAsk
  <2>5. OnlyCurrent'
    BY <1>5, <2>2, <2>3, <2>4, NewConnType
       DEF GroupAnswered, OnlyCurrent, Live, Ended, NewHeader, AddListener
  <2> QED
    BY <2>2, <2>4, <2>5 DEF CalmNext, OneWait, CalmPresence, InFlight
<1> QED BY <1>1, <1>2, <1>3, <1>4, <1>5 DEF Answers

\* What the network does.
LEMMA CalmNetwork ==
  ASSUME CalmState, Network
  PROVE  CalmNext
<1> USE DEF viewVars, chatVars, menuVars
<1>1. OneWait'
  BY DEF Network, Opened, Connected, Lost, CalmState, OneWait, InFlight
<1>2. ASSUME NEW c \in ConnIds, Opened(c) PROVE CalmNext
  <2>1. \A d \in ConnIds :
          conn'[d] = IF d = c THEN [conn[c] EXCEPT !.st = "open"] ELSE conn[d]
    BY <1>2 DEF Opened, CalmState, Wiring, TypeOK
  <2>2. /\ [conn[c] EXCEPT !.st = "open"].st = "open"
        /\ [conn[c] EXCEPT !.st = "open"].subs = conn[c].subs
    BY DEF CalmState, Wiring, TypeOK
  <2>3. OnlyCurrent'
    BY <1>2, <2>1, <2>2
       DEF Opened, CalmState, OnlyCurrent, Live, InFlight
  <2>4. CalmPresence'
    BY <1>2, <2>1 DEF Opened, CalmState, CalmPresence, Wiring, TypeOK
  <2> QED BY <1>1, <2>3, <2>4 DEF CalmNext
<1>3. ASSUME NEW c \in ConnIds, Lost(c) PROVE CalmNext
  <2>1. c = current
    BY <1>3 DEF Lost, CalmState, OnlyCurrent
  <2>2. \A d \in ConnIds : conn'[d] = IF d = c THEN Ended ELSE conn[d]
    BY <1>3 DEF Lost, CalmState, Wiring, TypeOK
  <2>3. \A d \in ConnIds : conn'[d] = Ended
    BY <2>1, <2>2 DEF CalmState, OnlyCurrent, Wiring, EndedIsQuiet
  <2>4. told' # NoGroup => cut'
    BY <1>3, <2>1 DEF Lost
  <2> QED BY <1>1, <2>3, <2>4, CalmWhenEnded DEF CalmNext
<1>4. ASSUME NEW c \in ConnIds, Connected(c) PROVE CalmNext
  <2>1. c = current /\ c # NoConn /\ Sends /\ header = shown
    BY <1>4, ConstantsAssumption
       DEF Connected, CalmState, OnlyCurrent, Live, Sends
  <2>2. /\ \A d \in ConnIds : d # c => conn'[d] = conn[d]
        /\ conn'[c].st = "up"
        /\ \A t \in Topics :
             conn'[c].subs[t] = conn[c].subs[t] + (IF t = header THEN 1 ELSE 0)
    BY <1>4, <2>1 DEF Connected, SubscribedTopic, CalmState, Wiring, TypeOK
  <2>3. \A t \in Topics : conn[c].subs[t] = 0
    BY <1>4 DEF Connected, CalmState, OnlyCurrent, Live
  <2>4. OnlyCurrent'
    BY <1>4, <2>1, <2>2, <2>3
       DEF Connected, CalmState, OnlyCurrent, Live, InFlight
  <2>5. told # NoGroup => cut
    BY <1>4, <2>1 DEF Connected, CalmState, CalmPresence
  <2>6. CalmPresence'
    BY <1>4, <2>1, <2>2, <2>5
       DEF Connected, CalmPresence, After
  <2> QED BY <1>1, <2>4, <2>6 DEF CalmNext
<1> QED BY <1>2, <1>3, <1>4 DEF Network

-----------------------------------------------------------------------------
(* The theorems. *)

\* The inductive invariant holds of a new tab.
LEMMA InitInv == Init => IInv
BY InitType
   DEF Init, FreshPage, IInv, EndedIsQuiet, OneGroupPerConnection,
       SaysWhereShown, Calm, OneWait, OnlyCurrent, CalmPresence, InFlight,
       Live, Ended

\* Every step keeps the inductive invariant.
LEMMA StepInv == IInv /\ [Next]_vars => IInv'
<1> SUFFICES ASSUME IInv, [Next]_vars PROVE IInv'
  OBVIOUS
<1>1. Wiring /\ TypeOK'
  BY StepType DEF IInv, Wiring
<1>2. EndedIsQuiet' /\ OneGroupPerConnection' /\ SaysWhereShown'
  BY <1>1, StepWiring
<1>3. Calm' /\ CalmPresence'
  <2>1. CASE hasty'
    BY <2>1 DEF Calm, CalmPresence
  <2>2. CASE ~hasty' /\ hasty
    BY <2>2, <1>1, CalmAgain DEF CalmNext, Calm
  <2>3. CASE ~hasty' /\ ~hasty
    <3>1. CalmState
      BY <2>3, <1>1 DEF CalmState, IInv, Calm
    <3>2. CASE UNCHANGED vars
      BY <3>2 DEF vars, menuVars, viewVars, chatVars, wireVars, IInv, Calm,
                  CalmPresence, OneWait, OnlyCurrent, InFlight, Live
    <3> QED
      BY <2>3, <3>1, <3>2, CalmUser, CalmAnswers, CalmNetwork
         DEF Next, CalmNext, Calm
  <2> QED BY <2>1, <2>2, <2>3
<1> QED BY <1>1, <1>2, <1>3 DEF IInv

\* The inductive invariant holds of every behaviour of the page.
THEOREM Invariance == Spec => []IInv
<1>1. Init => IInv
  BY InitInv
<1>2. IInv /\ [Next]_vars => IInv'
  BY StepInv
<1> QED BY <1>1, <1>2, PTL DEF Spec

\* What the inductive invariant is for: no message is received twice, and all
\* that are received are for the group shown, by a user who is not hasty.
LEMMA InvListens == IInv => CalmListens
<1> SUFFICES ASSUME IInv, ~hasty PROVE CalmListens
  BY DEF CalmListens
<1>1. OnlyCurrent
  BY DEF IInv, Calm
<1>2. \A c \in ConnIds, t \in Topics :
        conn[c].subs[t] > 0 => Live(c) /\ t = header /\ conn[c].subs[t] = 1
  BY <1>1 DEF IInv, EndedIsQuiet, OnlyCurrent, Ended
<1>3. \A c \in ConnIds, t \in Topics :
        conn[c].subs[t] # 0 => conn[c].subs[t] > 0
  BY DEF IInv, TypeOK
<1> QED
  BY <1>1, <1>2, <1>3 DEF CalmListens, NoDuplicates, OnlyCurrent

\* Every variable of the page has its type.
THEOREM TypeCorrect == Spec => []TypeOK
BY Invariance, PTL DEF IInv

\* Whatever the user and the network do, a connection carries one group.
THEOREM OneGroup == Spec => []OneGroupPerConnection
BY Invariance, PTL DEF IInv

\* Whatever the user and the network do, what is typed goes to the group shown.
THEOREM TypedWhereShown == Spec => []SaysWhereShown
BY Invariance, PTL DEF IInv

\* A user who is not hasty hears the group shown, once, and nothing else.
THEOREM HeardOnce == Spec => []CalmListens
<1>1. IInv => CalmListens
  BY InvListens
<1> QED BY <1>1, Invariance, PTL

\* A user who is not hasty is told present where the page shows, or nowhere.
THEOREM PresentWhereShown == Spec => []CalmPresence
BY Invariance, PTL DEF IInv
=============================================================================
