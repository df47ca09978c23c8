----------------------------- MODULE ChatServer -----------------------------
(***************************************************************************)
(* Who is in which chat: the server's side.  A page sends JOIN or LEAVE    *)
(* with the id of a group (ChatController.enter); the table chat_users has *)
(* one row per user, naming the group (ChatService.joinChat).              *)
(*                                                                         *)
(* A task is a frame in the inbound channel of the broker, the thread of   *)
(* its pool that handles it, or the list on its way to a page through the  *)
(* outbound channel: the pools keep neither the order of reception nor     *)
(* that of publication (WebSockectConfig sets nothing of the kind).        *)
(* joinChat is a transaction (READ COMMITTED): Hibernate reads, writes     *)
(* when the query of line 44 makes it flush, and the row written stays     *)
(* locked until the end.                                                   *)
(*                                                                         *)
(* No listener handles a session that ends, and nothing clears the table   *)
(* when the server starts: there are no actions for them.  A chat message  *)
(* (ChatController.message) changes no state and has none either.  The     *)
(* members of the groups are those of GroupService, here all the users.    *)
(***************************************************************************)
EXTENDS Naturals

CONSTANTS
  Users, Groups,
  Tasks,      \* bound: frames not handled, and lists not drawn
  Nowhere,    \* no row
  Undefined,  \* a header that names no group
  Unsure      \* history: what overlapping frames leave is not foretold

ASSUME NamesAssumption ==
  /\ {Nowhere, Undefined, Unsure} \cap Groups = {}
  /\ Nowhere # Undefined /\ Nowhere # Unsure /\ Nowhere \notin Users

VARIABLES
  rows,    \* chat_users, as committed
  task,    \* frames and their handlers
  shown,   \* the users last drawn as active by a page of the group: any one,
           \* for each gets every list in a message of its own
  said,    \* history: where the last frame of each user puts him, if it was
           \* sent when no other frame of his was being handled
  doubt    \* history: groups whose page may show what is out of date

vars == <<rows, task, shown, said, doubt>>

NoPlan == "none"
\* What to do with the user's row.
Plans == {"insert", "update", "replace", "delete", NoPlan}
Phases == {"idle", "queued", "looked", "planned", "written", "listed",
           "committed", "sent"}

Idle == [pc |-> "idle", user |-> Nowhere, to |-> Nowhere, group |-> Nowhere,
         plan |-> NoPlan, stale |-> FALSE, alone |-> FALSE, list |-> {}]

TaskType ==
  [pc : Phases, user : Users \cup {Nowhere}, to : Groups \cup {Nowhere, Undefined},
   group : Groups \cup {Nowhere, Undefined}, plan : Plans,
   stale : BOOLEAN, alone : BOOLEAN, list : SUBSET Users]

-----------------------------------------------------------------------------
Handled(t) == task[t].pc \notin {"idle", "queued"}

\* The transaction is over, or going on.
Published(t) == task[t].pc \in {"committed", "sent"}
InJoinChat(t) == Handled(t) /\ ~Published(t)

\* The frames that may still change a row, and those of a user.
Asking ==
  {t \in Tasks : task[t].pc # "idle" /\ ~Published(t) /\ task[t].group # Undefined}
Pending(u) == {t \in Asking : task[t].user = u}

\* The row of the user is locked by the transaction that has written it.
Locked(u, t) ==
  \E s \in Tasks \ {t} :
    /\ task[s].user = u /\ task[s].plan # NoPlan
    /\ task[s].pc \in {"written", "listed"}

\* Variant: LEAVE takes only a row that names its group.
GroupView(t) ==
  LET u == task[t].user IN
  IF task[t].plan = NoPlan \/ (task[t].to = Nowhere /\ rows[u] # task[t].group)
    THEN rows
    ELSE [rows EXCEPT ![u] = task[t].to]

\* What a transaction sees: the committed rows and its own.
View(t) ==
  IF task[t].plan = NoPlan
    THEN rows
    ELSE [rows EXCEPT ![task[t].user] = task[t].to]

Active(table, g) == {u \in Users : table[u] = g}

\* Variant: any id will do.
AnyId(t) == TRUE

\* Long.parseLong of the group, before anything is flushed.
Parses(t) == task[t].group # Undefined

-----------------------------------------------------------------------------
Init ==
  /\ rows = [u \in Users |-> Nowhere]
  /\ task = [t \in Tasks |-> Idle]
  /\ shown = [g \in Groups |-> {}]
  /\ said = rows
  /\ doubt = {}

\* A page of u sends a frame; LEAVE makes the user be nowhere.
Say(t, u, g, joins) ==
  /\ task[t].pc = "idle"
  /\ task' = [task EXCEPT ![t] = [Idle EXCEPT
                !.pc = "queued", !.user = u, !.group = g,
                !.to = IF joins THEN g ELSE Nowhere]]
  /\ IF g = Undefined
       THEN UNCHANGED said
       ELSE said' = [said EXCEPT ![u] = IF Pending(u) # {} THEN Unsure
                                        ELSE IF joins THEN g ELSE Nowhere]
  /\ UNCHANGED <<rows, shown, doubt>>

\* The first deleteById looks for the row.  A row it finds is deleted by the
\* flush, and inserted anew by JOIN.
PlanSeen(t) == IF task[t].to = Nowhere THEN "delete" ELSE "replace"

Look(t) ==
  /\ task[t].pc = "queued" /\ Parses(t)
  /\ task' = [s \in Tasks |->
       IF s = t
         THEN [task[t] EXCEPT
                 !.pc = IF rows[task[t].user] = Nowhere THEN "looked" ELSE "planned",
                 !.plan = IF rows[task[t].user] = Nowhere THEN NoPlan ELSE PlanSeen(t),
                 !.alone = \A r \in Tasks \ {t} : ~InJoinChat(r)]
         ELSE [task[s] EXCEPT !.alone = FALSE]]
  /\ UNCHANGED <<rows, shown, said, doubt>>

\* The second query of a task that has found none: the SELECT of merge for
\* JOIN, the second deleteById for LEAVE.
PlanAgain(t) ==
  LET here == rows[task[t].user] IN
  CASE task[t].to = Nowhere /\ here = Nowhere -> NoPlan
    [] task[t].to = Nowhere /\ here # Nowhere -> "delete"
    [] task[t].to # Nowhere /\ here = Nowhere -> "insert"
    [] task[t].to # Nowhere /\ here = task[t].to -> NoPlan
    [] OTHER -> "update"

LookAgain(t) ==
  /\ task[t].pc = "looked"
  /\ task' = [task EXCEPT ![t].pc = "planned", ![t].plan = PlanAgain(t)]
  /\ UNCHANGED <<rows, shown, said, doubt>>

\* The flush.  An INSERT meets the row another transaction has inserted; the
\* others find none when it is gone, or when they have waited for one that
\* replaced it.
MayWrite(t) ==
  \/ task[t].plan = NoPlan
  \/ task[t].plan = "insert" /\ rows[task[t].user] = Nowhere
  \/ task[t].plan \notin {NoPlan, "insert"} /\ rows[task[t].user] # Nowhere

Write(t) ==
  /\ task[t].pc = "planned"
  /\ task[t].plan # NoPlan => ~Locked(task[t].user, t)
  /\ MayWrite(t)
  /\ task' = [task EXCEPT ![t].pc = "written"]
  /\ UNCHANGED <<rows, shown, said, doubt>>

\* Variant: the row is given up.
FailOpen(t) ==
  /\ task' = [task EXCEPT ![t] = Idle]
  /\ rows' = [rows EXCEPT ![task[t].user] = Nowhere]
  /\ UNCHANGED <<shown, said, doubt>>

\* An exception rolls everything back, and nothing is broadcast.
Rollback(t) ==
  /\ task' = [task EXCEPT ![t] = Idle]
  /\ UNCHANGED <<rows, shown, said, doubt>>

Collide(t) ==
  /\ task[t].pc = "planned" /\ task[t].plan # NoPlan
  /\ ~Locked(task[t].user, t)
  /\ ~MayWrite(t) \/ (task[t].stale /\ task[t].plan # "insert")
  /\ Rollback(t)

BadGroup(t) ==
  /\ task[t].pc = "queued" /\ ~Parses(t)
  /\ Rollback(t)

\* Variant: the list is that of the committed rows.
CommittedList(t) == Active(rows, task[t].group)

MemberList(t) == Active(View(t), task[t].group)

List(t) ==
  /\ task[t].pc = "written"
  /\ task' = [task EXCEPT ![t].pc = "listed", ![t].list = MemberList(t)]
  /\ UNCHANGED <<rows, shown, said, doubt>>

\* The other transactions of the user may wait for a row that is no more.
Commit(t) ==
  /\ task[t].pc = "listed"
  /\ rows' = View(t)
  /\ task' = [s \in Tasks |->
       CASE s = t -> [task[s] EXCEPT !.pc = "committed"]
         [] s # t /\ task[s].user = task[t].user /\ task[s].pc = "planned"
              /\ task[t].plan \in {"delete", "replace"} ->
                            [task[s] EXCEPT !.stale = TRUE]
         [] OTHER -> task[s]]
  /\ doubt' = doubt \cup (Groups \cap {rows[task[t].user], task[t].group})
  /\ UNCHANGED <<shown, said>>

\* The list is handed to the outbound channel.
Broadcast(t) ==
  /\ task[t].pc = "committed"
  /\ task' = [task EXCEPT ![t].pc = "sent"]
  /\ UNCHANGED <<rows, shown, said, doubt>>

\* The page draws a list it has been sent, in whatever order they come.
ChangeActiveUsers(g, list) == shown' = [shown EXCEPT ![g] = list]

Draw(t) ==
  /\ task[t].pc = "sent"
  /\ ChangeActiveUsers(task[t].group, task[t].list)
  /\ doubt' = IF task[t].alone THEN doubt \ {task[t].group}
                               ELSE doubt \cup {task[t].group}
  /\ task' = [task EXCEPT ![t] = Idle]
  /\ UNCHANGED <<rows, said>>

\* The server dies and is started again.
Restart ==
  /\ task' = [t \in Tasks |-> Idle]
  /\ said' = [u \in Users |-> IF Pending(u) = {} THEN said[u] ELSE Unsure]
  /\ doubt' = Groups
  /\ UNCHANGED <<rows, shown>>

Handle(t) ==
  \/ Look(t) \/ LookAgain(t) \/ Write(t) \/ Collide(t) \/ BadGroup(t)
  \/ List(t) \/ Commit(t) \/ Broadcast(t)
Advance(t) == Handle(t) \/ Draw(t)

Next ==
  \/ Restart
  \/ \E t \in Tasks :
       \/ Advance(t)
       \/ \E u \in Users, g \in Groups \cup {Undefined}, joins \in BOOLEAN :
            Say(t, u, g, joins)

Spec == Init /\ [][Next]_vars

-----------------------------------------------------------------------------
(* Properties. *)

TypeOK ==
  /\ rows \in [Users -> Groups \cup {Nowhere}]
  /\ task \in [Tasks -> TaskType]
  /\ shown \in [Groups -> SUBSET Users]
  /\ said \in [Users -> Groups \cup {Nowhere, Unsure}]
  /\ doubt \subseteq Groups

\* joinChat (ChatService.java:28-40), whatever the other users do: once the last
\* frame of a user is handled, his row says what it said, if no other frame of
\* his was being handled when it was sent.  One such frame is enough to put
\* right what frames that overlapped have left.
SettledPresence ==
  \A u \in Users : said[u] # Unsure /\ Pending(u) = {} => rows[u] = said[u]

\* ChatController.java:24: a page shows who is in its group, but from the commit
\* of a change to the drawing of a list, and after a list whose frame others
\* overlapped or followed.  A list read while no other frame was being handled,
\* and drawn before the next one was, puts the page right; older lists under
\* way may put it wrong again.
ListsHeal ==
  \A g \in Groups \ doubt : shown[g] = Active(rows, g)

\* joinChat: a request takes effect at once and as a whole, or not at all.
Promise ==
  INSTANCE Presence WITH
    Slots <- Tasks, present <- rows,
    pending <- [t \in Tasks |-> IF t \in Asking
                                  THEN [user |-> task[t].user, to |-> task[t].to]
                                  ELSE [user |-> Nowhere, to |-> Nowhere]]
RefinesPresence == Promise!Spec

-----------------------------------------------------------------------------
(* The inductive invariant. *)

WellFormed ==
  \A t \in Tasks :
    /\ task[t].pc # "idle" => /\ task[t].user \in Users
                              /\ task[t].group \in Groups \cup {Undefined}
                              /\ task[t].to \in {task[t].group, Nowhere}
    /\ Handled(t) => task[t].group \in Groups
    /\ ~Handled(t) => ~task[t].alone
    /\ task[t].pc \in {"queued", "looked"} => /\ task[t].plan = NoPlan
                                            /\ ~task[t].stale

\* What the task of a user has planned suits his row as it is now.
Suits(t) ==
  LET here == rows[task[t].user] IN
  /\ ~task[t].stale
  /\ CASE task[t].plan = NoPlan -> here = task[t].to
       [] task[t].plan = "insert" -> here = Nowhere
       [] OTHER -> here # Nowhere

\* The only frame of a user will do what it says.
OneFrame ==
  \A u \in Users : said[u] # Unsure =>
    \/ Pending(u) = {} /\ rows[u] = said[u]
    \/ \E t \in Tasks :
         /\ Pending(u) = {t} /\ task[t].to = said[u]
         /\ task[t].pc \in {"planned", "written", "listed"} => Suits(t)

\* A frame that nobody has overlapped or followed has the list of the rows as
\* they are now.
AloneKnows ==
  \A t \in Tasks : task[t].alone =>
    /\ \A s \in Tasks \ {t} : ~InJoinChat(s)
    /\ task[t].pc = "listed" => task[t].list = Active(View(t), task[t].group)
    /\ Published(t) => task[t].list = Active(rows, task[t].group)

\* Why the table and the lists come right again.
IInv == TypeOK /\ WellFormed /\ OneFrame /\ AloneKnows /\ ListsHeal
=============================================================================
