------------------------------ MODULE ChatPage ------------------------------
(***************************************************************************)
(* The client of the chat in one browser tab: the menu (menu.js), the page *)
(* of a group (groupDetail.js) and its connection (chat.js).               *)
(*                                                                         *)
(* Callbacks run one at a time and read the globals of the page.  The HTML *)
(* of a group page holds the script elements of groupDetail.js and         *)
(* chat.js, so each load of such a page evaluates both again: stompClient, *)
(* header and the groupDetail object are new, and a beforeunload listener  *)
(* that was added earlier is one that destroy cannot remove any more.      *)
(*                                                                         *)
(* A user who acts while a page is being fetched, a request is being       *)
(* answered or the connection is being opened is called hasty.             *)
(*                                                                         *)
(* A definition whose comment starts with "Variant" is a plausible mistake *)
(* in one after it; the properties are shown to notice it.                 *)
(***************************************************************************)
EXTENDS Naturals

CONSTANTS
  Groups,    \* ids of groups
  ConnIds,   \* identities of connections; reused when nothing refers to them
  NoConn,    \* stompClient is null
  MaxLoads   \* bound: loads of one page in flight

Undefined == "undefined"       \* the id read off a menu entry without one
NoGroup == "none"
Others == {"list", "logout"}   \* the entry of the profile acts like the list
Entries == Groups \cup Others
Topics == Groups \cup {Undefined}

ASSUME ConstantsAssumption ==
  /\ Groups \cap {Undefined, NoGroup, "list", "logout", "blank"} = {}
  /\ NoConn \notin ConnIds
  /\ MaxLoads \in Nat \ {0}

VARIABLES
  menu,      \* groups in the menu
  active,    \* the selected entry
  loads,     \* pages requested and not answered
  asked,     \* the join or exit not answered
  shown,     \* what .content-main shows; a group's page, by its title
  detail,    \* groupDetail.groupId, while a page that uses it is shown
  bound,     \* the input handlers of the shown page are in place
  listeners, \* beforeunload: the one destroy removes ("own"), others ("old")
  current,   \* stompClient
  header,    \* header.groupId
  conn,      \* the connections
  told,      \* the group this user is in by the last JOIN or LEAVE sent
  cut,       \* history: the connection was lost after telling it
  hasty      \* history: the user has been hasty in this page, or in the page
             \* that told the group

menuVars == <<menu, active, loads, asked>>
viewVars == <<shown, detail, bound, listeners>>
chatVars == <<current, header>>
wireVars == <<conn, told, cut>>
vars == <<menuVars, viewVars, chatVars, wireVars, hasty>>

NoAsk == [op |-> "none", group |-> NoGroup, here |-> FALSE]
Ended == [st |-> "closed", group |-> NoGroup, subs |-> [t \in Topics |-> 0]]

-----------------------------------------------------------------------------
Live(c) == conn[c].st # "closed"

\* SockJS: sending throws while opening, is dropped when closed.
Throws == current # NoConn /\ conn[current].st = "opening"
Sends == current # NoConn /\ conn[current].st \in {"open", "up"}

Busy == Throws \/ asked # NoAsk \/ \E e \in Entries : loads[e] > 0
Acts == hasty' = (hasty \/ Busy)

\* The server parses the id: a JOIN or LEAVE naming no group is rolled back.
After(g) == IF header = Undefined THEN told ELSE g

AfterLeave == After(NoGroup)

\* Variant: the connection is closed without a LEAVE.
CloseSilently ==
  IF Sends
    THEN conn' = [conn EXCEPT ![current] = Ended] /\ UNCHANGED <<told, cut>>
    ELSE UNCHANGED wireVars

\* LEAVE and DISCONNECT, unless the connection is gone.
Disconnect ==
  IF Sends
    THEN /\ conn' = [conn EXCEPT ![current] = Ended]
         /\ told' = AfterLeave
         /\ cut' = (cut /\ told' # NoGroup)
    ELSE UNCHANGED wireVars

\* Variant: only the handlers go.
Unbind ==
  /\ bound' = FALSE
  /\ listeners' = listeners \ {"own"}
  /\ UNCHANGED wireVars

\* The handlers are removed before disconnect, which may throw.
Destroy ==
  /\ bound' = FALSE
  /\ listeners' = listeners \ {"own"}
  /\ Disconnect

\* The handler of .group: an ajax request, or the browser leaves for /logout.
Fetch(e) == IF e = "logout" THEN loads ELSE [loads EXCEPT ![e] = @ + 1]
MayFetch(e) == e # "logout" => loads[e] < MaxLoads

-----------------------------------------------------------------------------
FreshPage ==
  /\ active = "list"
  /\ loads = [e \in Entries |-> IF e = "list" THEN 1 ELSE 0]
  /\ asked = NoAsk
  /\ shown = "blank" /\ detail = NoGroup /\ bound = FALSE /\ listeners = {}
  /\ current = NoConn /\ header = NoGroup
  /\ conn = [c \in ConnIds |-> Ended]
  /\ hasty = FALSE

Init ==
  /\ FreshPage
  /\ menu \in SUBSET Groups
  /\ told = NoGroup /\ cut = FALSE

-----------------------------------------------------------------------------
(* The user. *)

\* The icon fills its entry.  Its handler, destroy, runs first; if it throws,
\* the handler of the entry is not called.
SelectIcon(e) ==
  /\ e \in menu \cup Others
  /\ Acts
  /\ Destroy
  /\ detail' = NoGroup
  /\ IF Throws \/ active = e
       THEN UNCHANGED <<active, loads>>
       ELSE MayFetch(e) /\ active' = e /\ loads' = Fetch(e)
  /\ UNCHANGED <<menu, asked, shown, chatVars>>

\* Joining a group of the list (creating one is answered at once).
AskJoin(g) ==
  /\ asked = NoAsk /\ shown = "list" /\ g \in Groups \ menu
  /\ Acts
  /\ asked' = [op |-> "join", group |-> g, here |-> TRUE]
  /\ UNCHANGED <<menu, active, loads, viewVars, chatVars, wireVars>>

\* The exit button of the shown page; without a group id it is refused.
AskExit ==
  /\ asked = NoAsk /\ shown \in Topics /\ detail \in Groups
  /\ Acts
  /\ asked' = [op |-> "exit", group |-> detail, here |-> TRUE]
  /\ UNCHANGED <<menu, active, loads, viewVars, chatVars, wireVars>>

\* The tab is closed, reloaded or leaves for another page; the same user opens
\* the next one.  A request not answered may have been served.
Unload ==
  /\ told' = IF listeners # {} /\ Sends THEN AfterLeave ELSE told
  /\ cut' = (cut /\ told' # NoGroup)
  /\ menu' \in {menu, menu \cup ({asked.group} \cap Groups),
                menu \ {asked.group}}
  /\ active' = "list"
  /\ loads' = [e \in Entries |-> IF e = "list" THEN 1 ELSE 0]
  /\ asked' = NoAsk
  /\ shown' = "blank" /\ detail' = NoGroup /\ bound' = FALSE
  /\ listeners' = {}
  /\ current' = NoConn /\ header' = NoGroup
  /\ conn' = [c \in ConnIds |-> Ended]
  /\ hasty' = (hasty /\ told' # NoGroup)

-----------------------------------------------------------------------------
(* Answers to what the page has asked. *)

\* The menu is drawn again, with no entry of a group selected; the new one is
\* clicked, not its icon: nothing is destroyed.
JoinAnswered ==
  /\ asked.op = "join"
  /\ MayFetch(asked.group)
  /\ asked' = NoAsk
  /\ menu' = menu \cup {asked.group}
  /\ active' = asked.group
  /\ loads' = Fetch(asked.group)
  /\ UNCHANGED <<viewVars, chatVars, wireVars, hasty>>

\* The list is clicked, not its icon; then destroy, of the page that asked.
ExitAnswered ==
  /\ asked.op = "exit"
  /\ asked' = NoAsk
  /\ menu' = menu \ {asked.group}
  /\ active' = "list"
  /\ IF active = "list" THEN UNCHANGED loads
                        ELSE MayFetch("list") /\ loads' = Fetch("list")
  /\ Destroy
  /\ detail' = IF asked.here THEN NoGroup ELSE detail
  /\ UNCHANGED <<shown, chatVars, hasty>>

AskRefused ==
  /\ asked # NoAsk
  /\ asked' = NoAsk
  /\ UNCHANGED <<menu, active, loads, viewVars, chatVars, wireVars, hasty>>

\* Pages are answered in any order.
PageAnswered(e) ==
  /\ loads[e] > 0
  /\ loads' = [loads EXCEPT ![e] = @ - 1]

OtherAnswered(e) ==
  /\ e \in Others
  /\ PageAnswered(e)
  /\ shown' = e /\ detail' = NoGroup /\ bound' = FALSE
  /\ UNCHANGED <<menu, active, asked, listeners, chatVars, wireVars, hasty>>

\* Variant: the entry is taken for a group.
SelectedEntry == active

\* .group-detail.active, whatever page was asked for.
SelectedGroup == IF active \in Groups THEN active ELSE Undefined

\* Variant: a header, once set, is kept.
KeptHeader(g) == IF header = NoGroup THEN g ELSE header

NewHeader(g) == g

\* Variant: nothing is done when the window is closed.
SameListeners == listeners

\* A listener of an earlier page is not the function destroy now removes.
AddListener == {"own"} \cup IF listeners = {} THEN {} ELSE {"old"}

FreeConn == CHOOSE c \in ConnIds : ~Live(c)

\* The scripts are evaluated again; init and connect follow.
GroupAnswered(e) ==
  /\ e \in Groups
  /\ PageAnswered(e)
  /\ \E c \in ConnIds : ~Live(c)
  /\ shown' = SelectedGroup /\ detail' = SelectedGroup
  /\ bound' = TRUE
  /\ listeners' = AddListener
  /\ asked' = [asked EXCEPT !.here = FALSE]  \* groupDetail is a new object
  /\ header' = NewHeader(SelectedGroup)
  /\ current' = FreeConn
  /\ conn' = [conn EXCEPT ![FreeConn] =
                [Ended EXCEPT !.st = "opening", !.group = SelectedGroup]]
  /\ UNCHANGED <<menu, active, told, cut, hasty>>

\* No error handler: the entry stays selected, the page stays.
LoadFails(e) ==
  /\ PageAnswered(e)
  /\ UNCHANGED <<menu, active, asked, viewVars, chatVars, wireVars, hasty>>

-----------------------------------------------------------------------------
(* Connections. *)

\* The websocket is open; CONNECT is sent.
Opened(c) ==
  /\ conn[c].st = "opening"
  /\ conn' = [conn EXCEPT ![c].st = "open"]
  /\ UNCHANGED <<menuVars, viewVars, chatVars, told, cut, hasty>>

\* Variant: the topic is that of the entry selected now.
SelectedTopic == SelectedGroup

SubscribedTopic == header

\* CONNECTED arrives and onConnected runs, on the connection stompClient is
\* now: SUBSCRIBE and JOIN are sent, dropped, or the first of them throws.
Connected(c) ==
  LET up == [conn EXCEPT ![c].st = "up"] IN
  /\ conn[c].st = "open"
  /\ \/ /\ Sends
        /\ conn' = [up EXCEPT ![current].subs[SubscribedTopic] = @ + 1]
        /\ told' = After(header)
        /\ cut' = (cut /\ header = Undefined)
     \/ ~Sends /\ conn' = up /\ UNCHANGED <<told, cut>>
  /\ UNCHANGED <<menuVars, viewVars, chatVars, hasty>>

\* The handshake fails, the network or the server goes away: onError only
\* logs, and nothing connects again.
Lost(c) ==
  /\ Live(c)
  /\ conn' = [conn EXCEPT ![c] = Ended]
  /\ cut' = (cut \/ (c = current /\ told # NoGroup))
  /\ UNCHANGED <<menuVars, viewVars, chatVars, told, hasty>>

-----------------------------------------------------------------------------
User == \/ \E e \in Entries : SelectIcon(e)
        \/ \E g \in Groups : AskJoin(g)
        \/ AskExit
        \/ Unload

Answers == \/ JoinAnswered \/ ExitAnswered \/ AskRefused
           \/ \E e \in Entries :
                OtherAnswered(e) \/ GroupAnswered(e) \/ LoadFails(e)

Network == \E c \in ConnIds : Opened(c) \/ Connected(c) \/ Lost(c)

Next == User \/ Answers \/ Network

Spec == Init /\ [][Next]_vars

-----------------------------------------------------------------------------
(* Properties. *)

\* Every variable has its type; opening and ending leave no subscription.
TypeOK ==
  /\ menu \subseteq Groups
  /\ active \in Entries
  /\ loads \in [Entries -> 0..MaxLoads]
  /\ asked \in {NoAsk} \cup [op : {"join", "exit"}, group : Groups,
                             here : BOOLEAN]
  /\ shown \in Topics \cup {"blank"} \cup Others
  /\ detail \in Topics \cup {NoGroup}
  /\ bound \in BOOLEAN
  /\ listeners \in SUBSET {"own", "old"}
  /\ current \in ConnIds \cup {NoConn}
  /\ header \in Topics \cup {NoGroup}
  /\ conn \in [ConnIds -> [st : {"closed", "opening", "open", "up"},
                           group : Topics \cup {NoGroup},
                           subs : [Topics -> Nat]]]
  /\ told \in Groups \cup {NoGroup}
  /\ cut \in BOOLEAN
  /\ hasty \in BOOLEAN

\* onConnected, disconnect and sendMessage read the globals when they run, not
\* when their page was opened (chat.js:23-28, 41, 53).  Even so every frame of
\* a connection names the group the connection was opened for.
OneGroupPerConnection ==
  /\ \A c \in ConnIds, t \in Topics :
       Live(c) /\ conn[c].subs[t] > 0 => t = conn[c].group
  /\ current # NoConn /\ Live(current) => conn[current].group = header

\* What the user types is sent to the group whose title the page shows
\* (chat.js:49-55), whatever the order in which pages were answered.
SaysWhereShown ==
  bound => /\ header = shown
           /\ current # NoConn
           /\ Live(current) => conn[current].group = shown

\* groupDetail.js:75, "prevent duplicates": no message is received twice.
NoDuplicates ==
  \A c \in ConnIds, t \in Topics :
    conn[c].subs[t] > 0 => /\ conn[c].subs[t] = 1
                           /\ \A d \in ConnIds \ {c} : conn[d].subs[t] = 0

\* For a user who is not hasty that holds, only messages for the group shown
\* are received, and no connection is left behind.
CalmListens ==
  ~hasty => /\ NoDuplicates
            /\ \A c \in ConnIds : Live(c) => c = current
            /\ \A c \in ConnIds, t \in Topics :
                 conn[c].subs[t] > 0 => t = shown

\* groupDetail.js:69, "closing the window ends the chat": a user the server
\* has been told is present has a connection, unless it was lost.
PresentWhileChatting ==
  told # NoGroup /\ ~cut => \E c \in ConnIds : Live(c)

\* For a user who is not hasty, present in the group shown means more: the
\* connection of the page is up and says so.
CalmPresence ==
  ~hasty /\ ~cut /\ told # NoGroup =>
    /\ current # NoConn /\ conn[current].st = "up"
    /\ told = shown /\ told = header

-----------------------------------------------------------------------------
(* The inductive invariant. *)

\* A connection that ended has no subscription left.
EndedIsQuiet == \A c \in ConnIds : ~Live(c) => conn[c] = Ended

InFlight == \E e \in Entries : loads[e] > 0

\* What a user who is not hasty waits for comes one at a time.
OneWait ==
  /\ \A e, f \in Entries : loads[e] > 0 /\ loads[f] > 0 => e = f /\ loads[e] = 1
  /\ asked # NoAsk => ~InFlight

\* The only connection is that of the page shown, which can end it.
OnlyCurrent ==
  \A c \in ConnIds :
    Live(c) =>
      /\ c = current /\ header = shown /\ "own" \in listeners
      /\ ~InFlight
      /\ asked # NoAsk => asked.op = "exit" /\ conn[c].st # "opening"
      /\ \A t \in Topics :
           conn[c].subs[t] = IF conn[c].st = "up" /\ t = header THEN 1 ELSE 0

\* Both, for a user who is not hasty.
Calm == ~hasty => OneWait /\ OnlyCurrent

\* Why a page listens and speaks where it should: what holds whatever the user
\* does, and what holds of a user who is not hasty.
IInv == /\ TypeOK
        /\ EndedIsQuiet
        /\ OneGroupPerConnection
        /\ SaysWhereShown
        /\ Calm
        /\ CalmPresence
=============================================================================
