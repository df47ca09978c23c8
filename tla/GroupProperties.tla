--------------------------- MODULE GroupProperties ---------------------------
(***************************************************************************)
(* What GroupService is meant to keep true of its two stores.              *)
(***************************************************************************)
EXTENDS GroupService

\* No request is in flight.
Idle == \A h \in Handlers : pc[h] = "idle"

-----------------------------------------------------------------------------
(* With any number of requests in flight.                                  *)

GroupRow == [max : Nat, rev : DocIds]
UserRow == [group : GroupIds, user : Users, role : {0, 1}]
ReqType == [op : {"none", "insert", "join", "update", "leave"},
            user : Users \cup {NoUser}, group : GroupIds \cup {NoId},
            max : Nat, body : {"ok", "badRow", "badDoc"}]
LocType == [row : RowIds \cup {NoId}, role : {0, 1}, heir : RowIds \cup {NoId},
            before : DocIds \cup {NoId}, found : DocIds \cup {NoId},
            doc : DocIds \cup {NoId}, locks : SUBSET RowIds,
            catching : BOOLEAN]

Table(f, Ids, Row) == DOMAIN f \subseteq Ids /\ f \in [DOMAIN f -> Row]

\* Rows and documents are well typed, and so are the locals of each request.
TypeOK ==
  /\ Table(groupInfo, GroupIds, GroupRow)
  /\ Table(groupUser, RowIds, UserRow)
  /\ Table(groupGame, DocIds, GroupIds)
  /\ pc \in [Handlers -> Steps]
  /\ req \in [Handlers -> ReqType]
  /\ loc \in [Handlers -> LocType]

\* No group has two leaders, however handovers interleave: the row locks taken
\* by the flush of deleteGroupByGroupId (371) and the row counts Hibernate
\* checks are all that prevents two requests of one leader from promoting two
\* members.
AtMostOneLeader ==
  \A r, s \in DOMAIN groupUser :
    /\ groupUser[r].group = groupUser[s].group
    /\ groupUser[r].role = 0 /\ groupUser[s].role = 0
    => r = s

\* Every membership row refers to a group: a join that races the last leave
\* (282 against 373) never leaves a row behind.
MembersHaveGroup ==
  \A r \in DOMAIN groupUser : groupUser[r].group \in DOMAIN groupInfo

\* A member becomes leader only in the step that removes the former leader's
\* row: nobody ever sees the promotion (361) without the departure (367).
HandoverIsAtomic ==
  [][\A r \in DOMAIN groupUser \cap DOMAIN groupUser' :
       groupUser[r].role # 0 /\ groupUser'[r].role = 0
       => \E l \in DOMAIN groupUser \ DOMAIN groupUser' :
            /\ groupUser[l].group = groupUser[r].group
            /\ groupUser[l].role = 0]_vars

\* A group becomes visible only when the document of its own creation is
\* stored, and no other document carries its id (217-237): after a failed and
\* compensated insert no group is left without a document.
PublishedWithDoc ==
  [][\A g \in DOMAIN groupInfo' \ DOMAIN groupInfo :
       DocsOf(g) = {groupInfo'[g].rev}]_vars

\* Updates that overlap may leave two documents, but a group that nobody joins
\* during its last leave is never left without one: each request that deletes
\* the document (313, 324) saves another (319, 325) or finds one it spares.
NeverWithoutDoc ==
  Idle => \A g \in DOMAIN groupInfo : DocsOf(g) # {}

\* Request h waits for a row lock of request k: to update or delete the row, or
\* to be sure that no row refers to the group it deletes.
WaitsFor(h, k) ==
  /\ h # k
  /\ \/ pc[h] = "updateHeir" /\ loc[h].heir \in loc[k].locks
     \/ pc[h] = "deleteRow" /\ loc[h].row \in loc[k].locks
     \/ pc[h] = "dropGroup" /\ loc[k].row \in loc[k].locks \cap Remaining(h)

\* No requests wait for each other in a circle, although a leave keeps the lock
\* of its heir's row (361) while it waits for that of its own (367): of those
\* that wait there is always one whose lock is held by none of them.
NoCircle ==
  \A S \in SUBSET Handlers :
    S # {} => \E h \in S : \A k \in S : ~WaitsFor(h, k)

-----------------------------------------------------------------------------
(* Why they hold but for NeverWithoutDoc: what is true of the requests in  *)
(* flight.                                                                 *)

\* Each program point is reached by the operations that have it, with the
\* locals it needs.
LocalsOf(h) ==
  /\ pc[h] = "idle" => req[h] = NoReq
  /\ pc[h] \in {"idle", "findMember"} => loc[h] = NoLoc
  /\ pc[h] # "idle" => req[h].user \in Users /\ req[h].group \in GroupIds
  /\ pc[h] = "findBefore" => req[h].op \in {"update", "leave"}
  /\ pc[h] \in {"chooseHeir", "updateHeir", "deleteRow"} => req[h].op = "leave"
  /\ pc[h] \in {"chooseHeir", "updateHeir"} => loc[h].role = 0
  /\ pc[h] \in {"findBefore", "chooseHeir"} => loc[h].heir = NoId
  /\ pc[h] \in {"findBefore", "chooseHeir", "updateHeir"} => loc[h].locks = {}
  /\ pc[h] = "commitInsert" => req[h].op = "insert"
  /\ loc[h].catching => pc[h] \in {"findDoc", "deleteDoc", "saveDoc"}
  /\ pc[h] = "findDoc" => IF loc[h].catching THEN loc[h].doc = loc[h].before
                                            ELSE loc[h].doc \in DocIds
  /\ pc[h] \in {"deleteDoc", "saveDoc", "commitInsert", "commitUpdate"}
       => loc[h].doc \in DocIds
LocalsInOrder == \A h \in Handlers : LocalsOf(h)

\* A leave holds the locks of exactly the rows it has changed: of its heir's
\* when it waits for its own, of both when it has flushed.  Locked rows exist,
\* and no two transactions hold the same lock.
Flushed(h) == pc[h] \in {"purgeDoc", "dropGroup", "commitLeave"}
LocksHeld ==
  /\ \A h \in Handlers :
       /\ loc[h].locks \subseteq DOMAIN groupUser
       /\ pc[h] = "deleteRow" => loc[h].locks = {loc[h].heir} \ {NoId}
       /\ Flushed(h) => /\ req[h].op = "leave"
                        /\ loc[h].locks = {loc[h].row, loc[h].heir} \ {NoId}
                        /\ loc[h].row \in loc[h].locks
  /\ \A h, k \in Handlers : h # k => loc[h].locks \cap loc[k].locks = {}

\* Nobody is his own heir, who ends a group has none, and a group is ended by
\* one request: the rows the others are deleting are there until they commit.
EndsGroup(h) == pc[h] \in {"purgeDoc", "dropGroup"}
OneEnd ==
  /\ \A h \in Handlers :
       /\ loc[h].heir # NoId => loc[h].heir # loc[h].row
       /\ EndsGroup(h) => loc[h].heir = NoId
  /\ \A h, k \in Handlers :
       h # k /\ EndsGroup(h) /\ EndsGroup(k) => req[h].group # req[k].group

\* What a leave has read stays true of the rows that are still there: they
\* belong to the group, and the row of a leader is a leader's.  Only a leader
\* has an heir.
ReadsStillTrue ==
  \A h \in Handlers :
    /\ req[h].op = "leave" /\ loc[h].row \in DOMAIN groupUser
       => /\ groupUser[loc[h].row].group = req[h].group
          /\ loc[h].role = 0 => groupUser[loc[h].row].role = 0
    /\ loc[h].heir \in DOMAIN groupUser
       => /\ req[h].op = "leave" /\ loc[h].role = 0
          /\ groupUser[loc[h].heir].group = req[h].group

\* The identities of an insert in flight are its own.
InsertsApart ==
  \A h \in Handlers : req[h].op = "insert" =>
    /\ req[h].group \notin DOMAIN groupInfo
    /\ loc[h].row \in RowIds \ DOMAIN groupUser
    /\ \A k \in Handlers \ {h} : /\ req[k].group # req[h].group
                                  /\ loc[k].row # loc[h].row
                                  /\ loc[k].heir # loc[h].row

\* A document that a request holds, to write, delete or restore it, is one of
\* its own group for as long as it exists: requests for different groups hold
\* different documents.
Held(h) == {loc[h].doc, loc[h].before, loc[h].found} \ {NoId}
DocsApart ==
  /\ \A h \in Handlers : \A d \in Held(h) \cap DOMAIN groupGame :
       groupGame[d] = req[h].group
  /\ \A h, k \in Handlers :
       req[h].group # req[k].group => Held(h) \cap Held(k) = {}

\* The group of an insert in flight has no document before its own, and its own
\* is the only one when it is committed.
InsertsUnseen ==
  \A h \in Handlers : req[h].op = "insert" =>
    /\ pc[h] \in {"findDoc", "saveDoc", "commitInsert", "undoDoc"}
    /\ ~loc[h].catching
    /\ loc[h].doc \in DocIds
    /\ pc[h] \in {"findDoc", "saveDoc"} => DocsOf(req[h].group) = {}
    /\ pc[h] = "commitInsert" => DocsOf(req[h].group) = {loc[h].doc}

\* The invariant is inductive.  It holds because a promotion is committed by
\* the transaction that holds the lock of the one leader's row (LocksHeld) and
\* that row has not changed its role since it was read (ReadsStillTrue), and
\* because nobody but its creator can know a group before its commit
\* (InsertsApart) or touch its document (DocsApart).
IInv ==
  /\ TypeOK /\ LocalsInOrder /\ LocksHeld /\ OneEnd /\ ReadsStillTrue
  /\ InsertsApart /\ DocsApart /\ InsertsUnseen
  /\ MembersHaveGroup /\ AtMostOneLeader

-----------------------------------------------------------------------------
(* What holds when requests for one group do not overlap, and what those   *)
(* that overlap are expected to keep.                                      *)

\* Between requests the two stores agree: each group has exactly one document,
\* the one of the revision PostgreSQL holds, and no document is without its
\* group.  This is what the catch blocks (240-245, 322-327, 378-384) are for.
StoresAgree ==
  Idle =>
    /\ \A g \in DOMAIN groupInfo : DocsOf(g) = {groupInfo[g].rev}
    /\ \A d \in DOMAIN groupGame : groupGame[d] \in DOMAIN groupInfo

\* Every group has a leader, so somebody may update it (305-307).
EveryGroupLed ==
  \A g \in DOMAIN groupInfo : \E r \in RowsOf(g) : groupUser[r].role = 0

\* A user has at most one row in a group; a second one would make every later
\* findByGroup_groupIdAndUser_userId throw (265, 305, 341).
OneRowPerUser ==
  \A r, s \in DOMAIN groupUser :
    /\ groupUser[r].group = groupUser[s].group
    /\ groupUser[r].user = groupUser[s].user
    => r = s

-----------------------------------------------------------------------------
(* Why they hold, and when: which requests for one group must not overlap, *)
(* and what is then true of those in flight.                               *)

\* Two requests in flight for one group, by what they do.
Overlap(h, k, a, b) ==
  /\ h # k /\ req[h].group = req[k].group
  /\ req[h].op = a /\ req[k].op = b

\* A user joins a group in one request at a time.
UsersJoinOnce ==
  \A h, k \in Handlers :
    Overlap(h, k, "join", "join") => req[h].user # req[k].user

\* Nobody joins a group while somebody leaves it.
JoinsMissLeaves == \A h, k \in Handlers : ~Overlap(h, k, "join", "leave")

\* Nor does anybody else leave it.
LeavesApart ==
  /\ JoinsMissLeaves
  /\ \A h, k \in Handlers : ~Overlap(h, k, "leave", "leave")

\* An update overlaps joins only.
UpdatesApart ==
  \A h, k \in Handlers : /\ ~Overlap(h, k, "update", "update")
                         /\ ~Overlap(h, k, "update", "leave")

\* The operation of a request says where it can be; a leave reads before it
\* writes, and the row it leaves is its own user's for as long as it is there.
\* This holds whatever overlaps.
PointOf(h) ==
  /\ pc[h] # "idle" => req[h].op \in {"insert", "join", "update", "leave"}
  /\ pc[h] = "findMember" => req[h].op \in {"join", "leave"}
  /\ pc[h] \in {"countMembers", "insertRow"} => req[h].op = "join"
  /\ req[h].op = "join" => pc[h] \in {"findMember", "countMembers", "insertRow"}
  /\ pc[h] \in {"authorize", "commitUpdate"} => req[h].op = "update"
  /\ pc[h] = "undoDoc" => req[h].op = "insert"
  /\ req[h].op = "leave" /\ pc[h] \in {"findDoc", "deleteDoc", "saveDoc"}
       => loc[h].catching
LeavesOwnRow(h) ==
  req[h].op = "leave" /\ loc[h].row \in DOMAIN groupUser =>
    groupUser[loc[h].row].user = req[h].user
InPlace == \A h \in Handlers : PointOf(h) /\ LeavesOwnRow(h)

\* Who is about to join is not in yet.
NotYetIn(h) ==
  pc[h] \in {"countMembers", "insertRow"} =>
    RowsOfUser(req[h].group, req[h].user) = {}

\* The invariant behind OneRowPerUser.
FirstRows == (\A h \in Handlers : NotYetIn(h)) /\ OneRowPerUser

\* User u leads group g, and who is about to update leads.
Leads(u, g) ==
  \E r \in RowsOf(g) : groupUser[r].user = u /\ groupUser[r].role = 0
UpdaterLeads(h) ==
  req[h].op = "update" /\ pc[h] \notin {"findBefore", "authorize"} =>
    Leads(req[h].user, req[h].group)

\* What a leave has read is still so: its row and the role in it, whether there
\* is somebody to take over, and whether anybody remains.
LeaveAsRead(h) ==
  LET g == req[h].group IN
  req[h].op = "leave" =>
    /\ pc[h] # "findMember" =>
         /\ loc[h].row \in RowsOfUser(g, req[h].user)
         /\ groupUser[loc[h].row].role = loc[h].role
    /\ pc[h] \in {"updateHeir", "deleteRow"} \/ Flushed(h) =>
         \/ loc[h].heir \in Heirs(g) /\ loc[h].role = 0
         \/ loc[h].heir = NoId /\ (loc[h].role = 0 => Heirs(g) = {})
    /\ pc[h] \in {"purgeDoc", "dropGroup"} => Remaining(h) = {}
    /\ pc[h] = "commitLeave" => Remaining(h) # {}

\* The invariant behind EveryGroupLed.
LedGroups == (\A h \in Handlers : LeaveAsRead(h)) /\ EveryGroupLed

\* No call fails.
Calm == ~Faults /\ ~Crashes

\* The requests for whose group a document is still to come, or which end it.
Mends(h, g) ==
  /\ req[h].group = g
  /\ \/ pc[h] \in {"saveDoc", "dropGroup"}
     \/ pc[h] = "findDoc" /\ loc[h].catching /\ loc[h].before # NoId

\* What mending rests on: an update has found the document it replaces, and the
\* last member is the last.
MendsInOrder(h) ==
  /\ pc[h] \in {"authorize", "findDoc", "deleteDoc", "saveDoc"}
       => (req[h].op = "update" => loc[h].before # NoId)
  /\ pc[h] \in {"purgeDoc", "dropGroup"} => Remaining(h) = {}

\* The invariant behind NeverWithoutDoc: whoever empties a group's documents is
\* about to fill them.
Mended ==
  /\ \A h \in Handlers : MendsInOrder(h)
  /\ \A g \in DOMAIN groupInfo :
       DocsOf(g) # {} \/ \E h \in Handlers : Mends(h, g)

\* Nothing fails once the catch block has been left: no commit, no
\* compensation, no UPDATE for a bad row.
CommitsSucceed == ~Crashes /\ "badRow" \notin Bodies

\* The group has the one document of its committed revision, and no document
\* if it is not there.
Agrees(g) ==
  DocsOf(g) = IF g \in DOMAIN groupInfo THEN {groupInfo[g].rev} ELSE {}

\* The documents of the group of an update or a leave are where its program
\* point says, and the one found before is that of the committed revision.
Changes(h) == req[h].op \in {"update", "leave"}
DocsAsRead(h) ==
  LET g == req[h].group
      docs == DocsOf(g)
  IN
  Changes(h) =>
    /\ g \in DOMAIN groupInfo
    /\ req[h].body # "badRow"
    /\ loc[h].catching => loc[h].doc = loc[h].before
    /\ pc[h] \notin {"findMember", "findBefore"} =>
         loc[h].before = groupInfo[g].rev
    /\ pc[h] \in {"findMember", "findBefore", "authorize", "chooseHeir",
                  "updateHeir", "deleteRow", "commitLeave", "purgeDoc"}
         => docs = {groupInfo[g].rev}
    /\ pc[h] = "findDoc" =>
         IF loc[h].catching THEN docs = {} \/ \E d \in DocIds : docs = {d}
                            ELSE docs = {groupInfo[g].rev}
    /\ pc[h] = "deleteDoc" => docs = {loc[h].found}
    /\ pc[h] \in {"saveDoc", "dropGroup"} => docs = {}
    /\ pc[h] = "commitUpdate" => docs = {loc[h].doc}

\* The invariant behind StoresAgree.
DocsInStep ==
  /\ \A h \in Handlers : DocsAsRead(h)
  /\ \A g \in GroupIds :
       Agrees(g) \/ \E h \in Handlers : req[h].group = g /\ req[h].op # "join"

-----------------------------------------------------------------------------
(* The abstract table of groups, read off the committed rows.              *)

UsersOf(rows) == {groupUser[r].user : r \in rows}
MembersOf(g) == UsersOf(RowsOf(g))
LeadersOf(g) == UsersOf({r \in RowsOf(g) : groupUser[r].role = 0})

Committed ==
  [g \in DOMAIN groupInfo |-> [members |-> MembersOf(g), leads |-> LeadersOf(g),
                               max |-> groupInfo[g].max,
                               rev |-> groupInfo[g].rev]]

Promise == INSTANCE Groups WITH Contents <- DocIds, groups <- Committed
=============================================================================
