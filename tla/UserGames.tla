----------------------------- MODULE UserGames ------------------------------
(***************************************************************************)
(* The games of a user, a document of MongoDB (GameInfoService), and the   *)
(* sign-up that stores it together with the user's row in PostgreSQL       *)
(* (UserService.JoinUser).                                                 *)
(*                                                                         *)
(* Each request runs in a thread of its own.  Every call of a repository   *)
(* is one step: MongoDB is outside of any transaction, and JoinUser's      *)
(* transaction writes its row when it commits.  Any call may throw, with   *)
(* or without its effect, and the process may die between two; nothing is  *)
(* caught, so what MongoDB has done stays.  updateUser only rewrites a row *)
(* that exists and has no action; nothing deletes a row.                   *)
(***************************************************************************)
EXTENDS Naturals

CONSTANTS
  Users, Games,
  Infos,     \* what a user says of a game
  Absent,    \* the game is not in the list
  Handlers,  \* bound: requests served at once
  DocIds,    \* bound: ids of documents, reused when nothing refers to them
  NoId, NoUser

ASSUME NamesAssumption ==
  /\ Absent \notin Infos
  /\ NoId \notin DocIds
  /\ NoUser \notin Users

VARIABLES
  docs,   \* the collection userGameInfo
  rows,   \* the users with a row in user_info
  req,    \* the requests being served
  clash,  \* history: users of whose overlapping requests one replaces the
          \* document; forgotten when one document and no request are left
  lost    \* history: users of whom a request deleted the document and failed,
          \* and none has saved one since

vars == <<docs, rows, req, clash, lost>>

Lists == [Games -> Infos \cup {Absent}]
Documents == [id : DocIds, user : Users, games : Lists]

Replacing == {"insert", "join"}
Ops == Replacing \cup {"update", "delete"}

NoList == [g \in Games |-> Absent]
NoRequest == [pc |-> "idle", op |-> "none", user |-> NoUser, body |-> NoList,
              bad |-> "no", found |-> NoId, result |-> "none",
              alone |-> FALSE, want |-> {}, before |-> {}]

DocsOf(u) == {d \in docs : d.user = u}
Doubled(D) == \E d, e \in D : d # e

\* The handlers that serve a user.
Serving(u) == {h \in Handlers : req[h].user = u /\ req[h].pc # "done"}

\* Update and delete name one game.
Single(list) == \E g \in Games : \A f \in Games : (list[f] # Absent) <=> (f = g)
Bodies(op) == IF op \in Replacing THEN Lists ELSE {l \in Lists : Single(l)}

\* Ids that a document has or a request remembers.
UsedIds == {d.id : d \in docs} \cup {req[h].found : h \in Handlers}

-----------------------------------------------------------------------------
\* What an update or a deletion makes of the list it has read.
Changed(op, list, body) ==
  [g \in Games |-> IF body[g] = Absent THEN list[g]
                   ELSE IF op = "update" THEN body[g] ELSE Absent]

\* History: what a request that is answered should make of the lists of its
\* user, by the comments in GameInfoService.java:62-131 and UserService.java:49-61.
\* Nobody signs up twice.
Wanted(u, op, body) ==
  LET lists == {d.games : d \in DocsOf(u)} IN
  IF op = "join" /\ u \in rows THEN lists
  ELSE IF op \in Replacing THEN {body}
  ELSE {Changed(op, l, body) : l \in lists}

\* History: another request of the user has come, and nothing is expected.
Overtaken(r) == [r EXCEPT !.alone = FALSE, !.want = {}, !.before = {}]

Init ==
  /\ docs = {} /\ rows = {} /\ clash = {} /\ lost = {}
  /\ req = [h \in Handlers |-> NoRequest]

\* What a request may bring that fails late: a row PostgreSQL refuses, or a
\* list toEntity (66) throws on.
Defects(op) == {"no"} \cup (IF op \in Replacing THEN {"list"} ELSE {})
                     \cup (IF op = "join" THEN {"row"} ELSE {})

\* A session of u asks.
Request(h, u, op, body, bad) ==
  /\ req[h].pc = "idle"
  /\ body \in Bodies(op) /\ bad \in Defects(op)
  /\ req' = [i \in Handlers |->
       IF i = h THEN [NoRequest EXCEPT
                        !.pc = IF op = "join" THEN "check" ELSE "find",
                        !.op = op, !.user = u, !.body = body, !.bad = bad,
                        !.alone = Serving(u) = {},
                        !.want = IF Serving(u) = {} THEN Wanted(u, op, body) ELSE {},
                        !.before = IF Serving(u) = {} THEN DocsOf(u) ELSE {}]
       ELSE IF req[i].user = u THEN Overtaken(req[i]) ELSE req[i]]
  /\ clash' =
       IF Serving(u) = {}
         THEN IF Doubled(DocsOf(u)) THEN clash ELSE clash \ {u}
         ELSE IF op \in Replacing \/ \E i \in Serving(u) : req[i].op \in Replacing
                THEN clash \cup {u} ELSE clash
  /\ UNCHANGED <<docs, rows, lost>>

Goto(h, pc) == req' = [req EXCEPT ![h].pc = pc]

\* The end: an answer, a refusal by the code, or an exception of a call.
Finish(h, result) ==
  req' = [req EXCEPT ![h].pc = "done", ![h].result = result,
                     ![h].body = NoList, ![h].bad = "no", ![h].found = NoId]

Return(h) ==
  /\ req[h].pc = "done"
  /\ req' = [req EXCEPT ![h] = NoRequest]
  /\ UNCHANGED <<docs, rows, clash, lost>>

\* Variant: the row is not looked for.
CheckNothing(h) ==
  /\ req[h].pc = "check" /\ Goto(h, "find")
  /\ UNCHANGED <<docs, rows, clash, lost>>

\* insertUser looks for the row.
CheckUser(h) ==
  /\ req[h].pc = "check"
  /\ IF req[h].user \in rows THEN Finish(h, "refused") ELSE Goto(h, "find")
  /\ UNCHANGED <<docs, rows, clash, lost>>

\* findByUserId throws when there are two documents.  Without one, or without
\* a game to delete, there is nothing to change.
FindsTwo(h) ==
  /\ req[h].pc = "find" /\ Doubled(DocsOf(req[h].user))
  /\ Finish(h, "refused")
  /\ UNCHANGED <<docs, rows, clash, lost>>

FindsNone(h) ==
  /\ req[h].pc = "find" /\ DocsOf(req[h].user) = {}
  /\ IF req[h].op \in Replacing THEN Goto(h, "save") ELSE Finish(h, "refused")
  /\ UNCHANGED <<docs, rows, clash, lost>>

FindsOne(h) ==
  /\ req[h].pc = "find"
  /\ \E d \in DocsOf(req[h].user) :
       /\ DocsOf(req[h].user) = {d}
       /\ LET list == Changed(req[h].op, d.games, req[h].body) IN
          \/ /\ req[h].op \in Replacing
             /\ req' = [req EXCEPT ![h].pc = "delete", ![h].found = d.id]
          \/ /\ req[h].op = "delete" /\ list = d.games
             /\ Finish(h, "answered")
          \/ /\ req[h].op = "update" \/ (req[h].op = "delete" /\ list # d.games)
             /\ req' = [req EXCEPT ![h].pc = "save", ![h].found = d.id, ![h].body = list]
  /\ UNCHANGED <<docs, rows, clash, lost>>

\* Variant: the found document is kept.
KeepDoc(h) ==
  /\ req[h].pc = "delete"
  /\ req' = [req EXCEPT ![h].pc = "save", ![h].found = NoId]
  /\ UNCHANGED <<docs, rows, clash, lost>>

\* A document already gone is no error.
Deleted(h) == {d \in docs : d.id # req[h].found}

DeleteDoc(h) ==
  /\ req[h].pc = "delete"
  /\ docs' = Deleted(h)
  /\ req' = [req EXCEPT ![h].pc = "save", ![h].found = NoId]
  /\ UNCHANGED <<rows, clash, lost>>

\* Variant: a new document every time.
FreshId(h) == DocIds \ UsedIds

\* The builder keeps the id of the document read, and gives a new one none.
SaveId(h) == IF req[h].found = NoId THEN DocIds \ UsedIds ELSE {req[h].found}

\* Variant: a document whose list is empty is removed.
SavedOrDropped(h, i) ==
  {d \in docs : d.id # i} \cup
    IF req[h].body = NoList THEN {}
    ELSE {[id |-> i, user |-> req[h].user, games |-> req[h].body]}

\* save with an id replaces that document or, when it is gone, brings it back.
Saved(h, i) ==
  {d \in docs : d.id # i} \cup
    {[id |-> i, user |-> req[h].user, games |-> req[h].body]}

SaveDoc(h) ==
  /\ req[h].pc = "save" /\ req[h].bad # "list"
  /\ \E i \in SaveId(h) : docs' = Saved(h, i)
  /\ IF req[h].op = "join" THEN Goto(h, "commit") ELSE Finish(h, "answered")
  /\ lost' = lost \ {req[h].user}
  /\ UNCHANGED <<rows, clash>>

\* The row is written: it may be refused, or another sign-up has written it,
\* and this one fails or overwrites it.
CommitUser(h) ==
  /\ req[h].pc = "commit"
  /\ \/ /\ req[h].bad = "row" \/ req[h].user \in rows
        /\ rows' = rows
        /\ Finish(h, "failed")
     \/ /\ req[h].bad # "row"
        /\ rows' = rows \cup {req[h].user}
        /\ Finish(h, "answered")
  /\ UNCHANGED <<docs, clash, lost>>

-----------------------------------------------------------------------------
(* Failures.  Nothing catches them. *)

\* A call throws without its effect, or with it.  toEntity (66) throws when the
\* document found is gone.
ReadThrows(h) ==
  /\ req[h].pc \in {"check", "find"}
  /\ Finish(h, "failed")
  /\ UNCHANGED <<docs, rows, clash, lost>>

DeleteThrows(h) ==
  /\ req[h].pc = "delete"
  /\ \/ UNCHANGED <<docs, lost>>
     \/ docs' = Deleted(h) /\ lost' = lost \cup {req[h].user}
  /\ Finish(h, "failed")
  /\ UNCHANGED <<rows, clash>>

SaveThrows(h) ==
  /\ req[h].pc = "save"
  /\ \/ /\ docs' = docs
        /\ lost' = lost \cup {u \in {req[h].user} : req[h].op \in Replacing}
     \/ /\ req[h].bad # "list"
        /\ \E i \in SaveId(h) : docs' = Saved(h, i)
        /\ lost' = lost \ {req[h].user}
  /\ Finish(h, "failed")
  /\ UNCHANGED <<rows, clash>>

CommitThrows(h) ==
  /\ req[h].pc = "commit"
  /\ \/ rows' = rows
     \/ req[h].bad # "row" /\ rows' = rows \cup {req[h].user}
  /\ Finish(h, "failed")
  /\ UNCHANGED <<docs, clash, lost>>

\* The process dies and is started again.
Crash ==
  /\ req' = [h \in Handlers |-> NoRequest]
  /\ lost' = lost \cup {u \in Users : \E h \in Serving(u) :
                           req[h].pc = "save" /\ req[h].op \in Replacing}
  /\ UNCHANGED <<docs, rows, clash>>

Serve(h) ==
  \/ CheckUser(h) \/ FindsTwo(h) \/ FindsNone(h) \/ FindsOne(h)
  \/ DeleteDoc(h) \/ SaveDoc(h) \/ CommitUser(h) \/ Return(h)

Throws(h) == ReadThrows(h) \/ DeleteThrows(h) \/ SaveThrows(h) \/ CommitThrows(h)

Next ==
  \/ Crash
  \/ \E h \in Handlers :
       \/ Serve(h) \/ Throws(h)
       \/ \E u \in Users, op \in Ops : \E body \in Bodies(op), bad \in Defects(op) :
            Request(h, u, op, body, bad)

Spec == Init /\ [][Next]_vars

-----------------------------------------------------------------------------
(* Properties. *)

Requests ==
  [pc : {"idle", "check", "find", "delete", "save", "commit", "done"},
   op : Ops \cup {"none"}, user : Users \cup {NoUser}, body : Lists,
   bad : {"no", "row", "list"}, found : DocIds \cup {NoId},
   result : {"none", "answered", "refused", "failed"},
   alone : BOOLEAN, want : SUBSET Lists, before : SUBSET Documents]

TypeOK ==
  /\ docs \subseteq Documents
  /\ rows \subseteq Users /\ clash \subseteq Users /\ lost \subseteq Users
  /\ req \in [Handlers -> Requests]

\* Ids are unique, and a remembered id is never that of another user's document,
\* nor remembered of one.
IdsInv ==
  /\ \A d, e \in docs : d.id = e.id => d = e
  /\ \A h \in Handlers, d \in docs : d.id = req[h].found => d.user = req[h].user
  /\ \A h, i \in Handlers :
       req[h].found # NoId /\ req[h].found = req[i].found => req[h].user = req[i].user

\* What a request that has read knows, when nothing that replaces overlaps it:
\* one that replaces has the user for itself, all that is left when it deletes
\* is the document it has found, and nothing when it saves; one that edits
\* still finds the document it has read.
Steady(h) ==
  LET u == req[h].user IN
  /\ req[h].op \in Replacing => Serving(u) = {h}
  /\ req[h].pc = "delete" => \A d \in DocsOf(u) : d.id = req[h].found
  /\ req[h].pc = "save" /\ req[h].op \in Replacing => DocsOf(u) = {}
  /\ req[h].pc = "save" /\ req[h].op \notin Replacing =>
       \E d \in DocsOf(u) : d.id = req[h].found

Undisturbed == \A u \in Users \ clash : \A h \in Serving(u) : Steady(h)

\* findByUserId (UserGameInfoRepository.java:15) expects one document per user:
\* there is at most one, unless a request that replaces it (insertUserGameInfo,
\* JoinUser) has overlapped another.  Calls that fail add none.
OneDocument == \A u \in Users \ clash : ~Doubled(DocsOf(u))

\* insertUserGameInfo, GameInfoService.java:62-71: whoever has signed up has a
\* list, but while it is replaced, and after a request that failed, or died,
\* between the deletion and the save, until something is saved again.
HasGames(u) ==
  \/ DocsOf(u) # {}
  \/ u \in lost
  \/ \E h \in Handlers : /\ req[h].user = u /\ req[h].pc = "save"
                         /\ req[h].op \in Replacing
RegisteredHasGames == \A u \in rows : HasGames(u)

CommitHasGames == \A h \in Handlers : req[h].pc = "commit" => HasGames(req[h].user)

\* The lists of the user of a request are what it should make of them, or are
\* still what it found.
Exact(h) ==
  /\ {d.games : d \in DocsOf(req[h].user)} = req[h].want
  /\ ~Doubled(DocsOf(req[h].user))
Untouched(h) == DocsOf(req[h].user) = req[h].before

\* What a request leaves.
Leaves(h) ==
  /\ req[h].result # "none"
  /\ req[h].result = "answered" => Exact(h)
  /\ req[h].result = "refused" => Untouched(h)
  /\ req[h].result = "failed" =>
       \/ Untouched(h) \/ Exact(h)
       \/ req[h].op \in Replacing /\ DocsOf(req[h].user) = {}

\* What a request knows that has its user for itself: until it writes, the
\* documents are those that were there, then the only one is that it replaces
\* or edits; in the end the lists are those it wanted.
AloneKnows(h) ==
  LET u == req[h].user IN
  /\ Serving(u) \subseteq {h}
  /\ req[h].pc \in {"check", "find"} =>
       /\ req[h].want = Wanted(u, req[h].op, req[h].body)
       /\ Untouched(h)
  /\ req[h].pc = "find" /\ req[h].op = "join" => u \notin rows
  /\ req[h].pc \in {"delete", "save"} =>
       /\ req[h].want = {req[h].body}
       /\ IF req[h].pc = "save" /\ req[h].op \in Replacing
            THEN DocsOf(u) = {}
            ELSE Untouched(h) /\ \A d \in DocsOf(u) : d.id = req[h].found
  /\ req[h].pc = "commit" => Exact(h)
  /\ req[h].pc = "done" => Leaves(h)

\* The locals of a request.
LocalsInOrder(h) ==
  /\ IF req[h].pc = "idle" THEN req[h].user = NoUser /\ ~req[h].alone
     ELSE req[h].user \in Users /\ req[h].op \in Ops
  /\ req[h].pc = "check" => req[h].op = "join"
  /\ req[h].pc \in {"idle", "check", "find"} => req[h].found = NoId
  /\ req[h].pc = "delete" => req[h].op \in Replacing /\ req[h].found # NoId
  /\ req[h].pc = "save" => (req[h].op \in Replacing <=> req[h].found = NoId)

\* GameInfoService.java:62-131: what the requests under way rely on: ids, and
\* that what they have read is so unless a replacement overlaps them.
ReadsHold ==
  /\ TypeOK /\ IdsInv
  /\ \A h \in Handlers : LocalsInOrder(h)
  /\ Undisturbed

\* The inductive invariant.
IInv ==
  /\ ReadsHold /\ OneDocument
  /\ RegisteredHasGames /\ CommitHasGames
  /\ \A h \in Handlers : req[h].alone => AloneKnows(h)

\* A request that is served while no other of its user is, and is answered, has
\* done what it should, whatever failed requests or requests that overlapped
\* before have left behind; one that is refused has changed nothing; and one
\* that fails leaves what was there, what it wanted or, when it replaces, no
\* document at all.
AloneIsExact ==
  \A h \in Handlers : req[h].pc = "done" /\ req[h].alone => Leaves(h)

=============================================================================
