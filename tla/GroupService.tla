---------------------------- MODULE GroupService ----------------------------
(***************************************************************************)
(* com.wasd.group.service.GroupService: creating, joining, updating and    *)
(* leaving a group.                                                        *)
(*                                                                         *)
(* A group is kept in two stores.  PostgreSQL holds the group and its      *)
(* members, each request in one READ COMMITTED transaction; MongoDB holds  *)
(* the document with the group's game, written at once and outside of any  *)
(* transaction.  The catch blocks of the service undo the MongoDB writes   *)
(* by hand.  A handler is a thread of the servlet container that serves    *)
(* one request at a time; a step of a handler ends at a statement that     *)
(* another handler can observe, or that observes another handler.          *)
(*                                                                         *)
(* The tables hold what is committed.  What a transaction has written and  *)
(* not committed is in loc (the locals of the request), and becomes        *)
(* visible in its commit step.                                             *)
(*                                                                         *)
(* A definition whose comment starts with "Variant" is a plausible mistake *)
(* in the one after it; the properties are shown to notice it.             *)
(***************************************************************************)
EXTENDS Naturals, FiniteSets, Sequences, Functions

CONSTANTS
  Users,            \* registered users (rows of user_info)
  Handlers,         \* request threads
  Founders,         \* members of group 1, the founder first, in join order
  MaxCounts,        \* values of maxUserCount a form may send
  IntegerCacheHigh, \* Integer.valueOf shares its objects up to this value
  Operations,       \* the operations requested
  Bodies,           \* what is wrong with a request body, if anything
  Faults,           \* a MongoDB call inside a try block may throw
  Crashes,          \* the process may die, a commit or a compensation may fail
  GroupIds, RowIds, DocIds  \* identities the two stores can hand out

NoId == 0
NoUser == "nobody"

ASSUME FoundersAssumption ==
  /\ Founders \in Seq(Users)
  /\ Len(Founders) > 0
  /\ \A i, j \in 1..Len(Founders) : Founders[i] = Founders[j] => i = j
ASSUME CountsAssumption ==
  /\ MaxCounts \subseteq Nat
  /\ IntegerCacheHigh \in Nat
ASSUME IdsAssumption ==
  /\ 1 \in GroupIds /\ 1 \in DocIds /\ 1..Len(Founders) \subseteq RowIds
  /\ NoId \notin GroupIds \cup RowIds \cup DocIds
ASSUME RequestsAssumption ==
  /\ NoUser \notin Users
  /\ Operations \subseteq {"insert", "join", "update", "leave"}
  /\ "ok" \in Bodies /\ Bodies \subseteq {"ok", "badRow", "badDoc"}
  /\ Faults \in BOOLEAN /\ Crashes \in BOOLEAN

VARIABLES
  groupInfo,  \* group_info: group id |-> [max, rev], rev names the content
  groupUser,  \* group_user_info: row id |-> [group, user, role], role 0 leads
  groupGame,  \* the groupGameInfo collection: document id |-> group id
  pc, req, loc

tables == <<groupInfo, groupUser>>
vars == <<groupInfo, groupUser, groupGame, pc, req, loc>>

Steps == {"idle", "findMember", "countMembers", "insertRow", "findBefore",
          "authorize", "findDoc", "deleteDoc", "saveDoc", "commitInsert",
          "commitUpdate", "chooseHeir", "updateHeir", "deleteRow", "purgeDoc",
          "dropGroup", "commitLeave", "undoDoc"}

NoReq == [op |-> "none", user |-> NoUser, group |-> NoId, max |-> 0,
          body |-> "ok"]
NoLoc == [row |-> NoId, role |-> 1, heir |-> NoId, before |-> NoId,
          found |-> NoId, doc |-> NoId, locks |-> {}, catching |-> FALSE]

-----------------------------------------------------------------------------
(* Queries of the three repositories. *)

\* groupUserRepository.findByGroup_groupId
RowsOf(g) == {r \in DOMAIN groupUser : groupUser[r].group = g}

\* Variant: the query leaves out the leader.
FollowingRowsOfUser(g, u) ==
  {r \in RowsOf(g) : groupUser[r].user = u /\ groupUser[r].role # 0}

\* groupUserRepository.findByGroup_groupIdAndUser_userId: an Optional, so a
\* second row makes the query throw
RowsOfUser(g, u) == {r \in RowsOf(g) : groupUser[r].user = u}

\* groupGameInfoRepository.findByGroupId: an Optional, too
DocsOf(g) == {d \in DOMAIN groupGame : groupGame[d] = g}

Put(f, x, v) == [y \in DOMAIN f \cup {x} |-> IF y = x THEN v ELSE f[y]]
Without(f, S) == Restrict(f, DOMAIN f \ S)

\* Variant: rows are not locked.
NeverBlocked(h, r) == FALSE

\* Another transaction has updated or deleted row r and not ended.
Blocked(h, r) == \E k \in Handlers \ {h} : r \in loc[k].locks

\* An identity nobody refers to stands for a fresh one of the database: what
\* has been forgotten everywhere may be named again.
UsedGroups == DOMAIN groupInfo \cup {groupGame[d] : d \in DOMAIN groupGame}
                \cup {req[h].group : h \in Handlers}
UsedRows == DOMAIN groupUser \cup {loc[h].row : h \in Handlers}
              \cup {loc[h].heir : h \in Handlers}
UsedDocs == DOMAIN groupGame \cup {groupInfo[g].rev : g \in DOMAIN groupInfo}
              \cup UNION {{loc[h].doc, loc[h].before, loc[h].found} :
                            h \in Handlers}
NewGroup == CHOOSE g \in GroupIds : g \notin UsedGroups
\* Variant: the identity of a row is not generated.
UnsetRow == NoId
NewRow == CHOOSE r \in RowIds : r \notin UsedRows
NewDoc == CHOOSE d \in DocIds : d \notin UsedDocs

-----------------------------------------------------------------------------
(* The database after Len(Founders) requests served one after the other.   *)
Init ==
  /\ \E m \in MaxCounts :
       /\ m >= Len(Founders)
       /\ groupInfo = [g \in {1} |-> [max |-> m, rev |-> 1]]
  /\ groupUser = [r \in 1..Len(Founders) |->
                    [group |-> 1, user |-> Founders[r],
                     role |-> IF r = 1 THEN 0 ELSE 1]]
  /\ groupGame = [d \in {1} |-> 1]
  /\ pc = [h \in Handlers |-> "idle"]
  /\ req = [h \in Handlers |-> NoReq]
  /\ loc = [h \in Handlers |-> NoLoc]

Goto(h, step) == pc' = [pc EXCEPT ![h] = step]

\* The request has been answered, or an exception leaves the method; whatever
\* the transaction has not committed is rolled back and its locks are freed.
Return(h) ==
  /\ pc' = [pc EXCEPT ![h] = "idle"]
  /\ req' = [req EXCEPT ![h] = NoReq]
  /\ loc' = [loc EXCEPT ![h] = NoLoc]

Request(h, op, u, g, m, b) ==
  /\ pc[h] = "idle"
  /\ op \in Operations
  /\ req' = [req EXCEPT ![h] = [op |-> op, user |-> u, group |-> g,
                                max |-> m, body |-> b]]

-----------------------------------------------------------------------------
(* Arrivals, up to the first statement another handler can observe.        *)

\* The rows of the group and of its leader get their identities and stay
\* invisible until the commit.  A bad row throws before MongoDB is written.
InsertGroup(h) ==
  /\ \E g \in GroupIds : g \notin UsedGroups
  /\ \E r \in RowIds : r \notin UsedRows
  /\ \E d \in DocIds : d \notin UsedDocs
  /\ \E u \in Users, m \in MaxCounts, b \in Bodies \ {"badRow"} :
       Request(h, "insert", u, NewGroup, m, b)
  /\ loc' = [loc EXCEPT ![h].row = NewRow, ![h].doc = NewDoc]
  /\ Goto(h, "findDoc")
  /\ UNCHANGED <<tables, groupGame>>

\* The group is loaded with the maximum the later comparison uses.
JoinGroup(h) ==
  /\ \E u \in Users, g \in DOMAIN groupInfo :
       Request(h, "join", u, g, groupInfo[g].max, "ok")
  /\ Goto(h, "findMember")
  /\ UNCHANGED <<tables, groupGame, loc>>

UpdateGroup(h) ==
  /\ \E u \in Users, g \in DOMAIN groupInfo, m \in MaxCounts, b \in Bodies :
       Request(h, "update", u, g, m, b)
  /\ Goto(h, "findBefore")
  /\ UNCHANGED <<tables, groupGame, loc>>

LeaveGroup(h) ==
  /\ \E u \in Users, g \in DOMAIN groupInfo :
       Request(h, "leave", u, g, 0, "ok")
  /\ Goto(h, "findMember")
  /\ UNCHANGED <<tables, groupGame, loc>>

-----------------------------------------------------------------------------
(* Reads that precede the try blocks. *)

\* join is refused to a user with a row, or two; leave needs exactly one.
FindMember(h) ==
  LET rows == RowsOfUser(req[h].group, req[h].user) IN
  /\ pc[h] = "findMember"
  /\ \/ /\ req[h].op = "join" /\ rows = {}
        /\ Goto(h, "countMembers")
        /\ UNCHANGED <<req, loc>>
     \/ /\ req[h].op = "leave"
        /\ \E r \in rows :
             /\ rows = {r}
             /\ loc' = [loc EXCEPT ![h].row = r, ![h].role = groupUser[r].role]
        /\ Goto(h, "findBefore")
        /\ UNCHANGED req
     \/ /\ IF req[h].op = "join" THEN rows # {} ELSE Cardinality(rows) # 1
        /\ Return(h)
  /\ UNCHANGED <<tables, groupGame>>

\* Variant: the group is full only when it holds too many.
TooMany(a, b) == a > b

\* == on two Integer objects: equal, and the same object.
SameInteger(a, b) == a = b /\ a <= IntegerCacheHigh

CountMembers(h) ==
  /\ pc[h] = "countMembers"
  /\ IF SameInteger(Cardinality(RowsOf(req[h].group)), req[h].max)
       THEN Return(h)
       ELSE Goto(h, "insertRow") /\ UNCHANGED <<req, loc>>
  /\ UNCHANGED <<tables, groupGame>>

\* Variant: group_id carries no foreign key.
Unchecked(h) == TRUE

\* The row the request refers to or rewrites is still there.
GroupExists(h) == req[h].group \in DOMAIN groupInfo

\* The INSERT with its foreign key check, and the commit.
InsertRow(h) ==
  /\ pc[h] = "insertRow"
  /\ \E r \in RowIds : r \notin UsedRows
  /\ groupUser' =
       IF GroupExists(h)
         THEN Put(groupUser, NewRow, [group |-> req[h].group,
                                      user |-> req[h].user, role |-> 1])
         ELSE groupUser
  /\ Return(h)
  /\ UNCHANGED <<groupInfo, groupGame>>

\* Variant: everybody who leaves looks for an heir.
AlwaysHandsOver(h) == TRUE

\* Only a leader hands the group over.
HandsOver(h) == loc[h].role = 0

\* The document kept for the catch block; leave accepts that there is none.
FindBefore(h) ==
  LET docs == DocsOf(req[h].group) IN
  /\ pc[h] = "findBefore"
  /\ \/ /\ \/ docs = {} /\ req[h].op = "leave" /\ UNCHANGED loc
           \/ \E d \in docs : /\ docs = {d}
                              /\ loc' = [loc EXCEPT ![h].before = d]
        /\ Goto(h, IF req[h].op = "update" THEN "authorize"
                   ELSE IF HandsOver(h) THEN "chooseHeir" ELSE "deleteRow")
        /\ UNCHANGED req
     \/ /\ \/ docs = {} /\ req[h].op = "update"
           \/ Cardinality(docs) > 1
        /\ Return(h)
  /\ UNCHANGED <<tables, groupGame>>

\* Variant: every member updates.
IsMember(h) ==
  \E r \in RowIds : RowsOfUser(req[h].group, req[h].user) = {r}

\* Only the leader updates.
MayUpdate(h) ==
  \E r \in RowIds : /\ RowsOfUser(req[h].group, req[h].user) = {r}
                    /\ groupUser[r].role = 0

Authorize(h) ==
  /\ pc[h] = "authorize"
  /\ \/ /\ MayUpdate(h)
        /\ \E d \in DocIds : d \notin UsedDocs
        /\ loc' = [loc EXCEPT ![h].doc = NewDoc]
        /\ Goto(h, "findDoc")
        /\ UNCHANGED req
     \/ ~MayUpdate(h) /\ Return(h)
  /\ UNCHANGED <<tables, groupGame>>

-----------------------------------------------------------------------------
(* The document of a group is replaced by three calls: find, delete, save. *)
(* insert and update make them in their try block; the catch blocks of     *)
(* update and leave make the same three to put the former document back.   *)

\* What the next MongoDB write of the request leaves in the collection.
Written(h) ==
  CASE pc[h] = "deleteDoc" -> Without(groupGame, {loc[h].found})
    [] pc[h] = "saveDoc" -> Put(groupGame, loc[h].doc, req[h].group)
    [] pc[h] \in {"purgeDoc", "undoDoc"} ->
         Without(groupGame, DocsOf(req[h].group))

\* An exception inside the try block enters the catch block, which restores
\* the document found before (if there was one) and throws.  The transaction
\* keeps its locks until then.
Catch(h) ==
  /\ UNCHANGED <<tables, req>>
  /\ IF req[h].op = "insert"
       THEN Goto(h, "undoDoc") /\ UNCHANGED loc
       ELSE /\ Goto(h, "findDoc")
            /\ loc' = [loc EXCEPT ![h].catching = TRUE,
                                  ![h].doc = loc[h].before]

\* Variant: the catch blocks only throw.
NothingToRestore(h) == loc[h].catching

\* The catch block of leave leaves alone a group that had no document.
Restored(h) == loc[h].catching /\ loc[h].before = NoId

FindDoc(h) ==
  LET docs == DocsOf(req[h].group) IN
  /\ pc[h] = "findDoc"
  /\ UNCHANGED groupGame
  /\ \/ /\ ~Restored(h) /\ docs = {}
        /\ Goto(h, "saveDoc")
        /\ UNCHANGED <<tables, req, loc>>
     \/ /\ ~Restored(h)
        /\ \E d \in docs : docs = {d} /\ loc' = [loc EXCEPT ![h].found = d]
        /\ Goto(h, "deleteDoc")
        /\ UNCHANGED <<tables, req>>
     \/ Cardinality(docs) > 1 /\ ~loc[h].catching /\ Catch(h)
     \/ /\ Restored(h) \/ (loc[h].catching /\ Cardinality(docs) > 1)
        /\ Return(h) /\ UNCHANGED tables

DeleteDoc(h) ==
  /\ pc[h] = "deleteDoc"
  /\ groupGame' = Written(h)
  /\ Goto(h, "saveDoc")
  /\ UNCHANGED <<tables, req, loc>>

\* A body without a game cannot be turned into a document.
NotADoc(h) == req[h].body = "badDoc" /\ ~loc[h].catching

SaveDoc(h) ==
  /\ pc[h] = "saveDoc"
  /\ \/ NotADoc(h) /\ Catch(h) /\ UNCHANGED groupGame
     \/ /\ ~NotADoc(h)
        /\ groupGame' = Written(h)
        /\ UNCHANGED tables
        /\ IF loc[h].catching
             THEN Return(h)
             ELSE /\ Goto(h, IF req[h].op = "insert" THEN "commitInsert"
                                                     ELSE "commitUpdate")
                  /\ UNCHANGED <<req, loc>>

\* Variant: the document is not removed.
UndoNothing(h) ==
  /\ pc[h] = "undoDoc"
  /\ Return(h)
  /\ UNCHANGED <<tables, groupGame>>

\* Variant: the catch block does not throw, so the transaction commits.
UndoAndCommit(h) ==
  /\ pc[h] = "undoDoc"
  /\ groupGame' = Written(h)
  /\ Goto(h, "commitInsert")
  /\ UNCHANGED <<tables, req, loc>>

\* The catch block of insert.
UndoDoc(h) ==
  /\ pc[h] = "undoDoc"
  /\ groupGame' = Written(h)
  /\ Return(h)
  /\ UNCHANGED tables

CommitInsert(h) ==
  /\ pc[h] = "commitInsert"
  /\ groupInfo' = Put(groupInfo, req[h].group,
                      [max |-> req[h].max, rev |-> loc[h].doc])
  /\ groupUser' = Put(groupUser, loc[h].row,
                      [group |-> req[h].group, user |-> req[h].user,
                       role |-> 0])
  /\ Return(h)
  /\ UNCHANGED groupGame

\* The UPDATE of group_info is flushed here, when the catch block has been
\* left: a bad row or a group that is gone only rolls PostgreSQL back.
CommitUpdate(h) ==
  /\ pc[h] = "commitUpdate"
  /\ groupInfo' =
       IF GroupExists(h) /\ req[h].body # "badRow"
         THEN Put(groupInfo, req[h].group,
                  [max |-> req[h].max, rev |-> loc[h].doc])
         ELSE groupInfo
  /\ Return(h)
  /\ UNCHANGED <<groupUser, groupGame>>

-----------------------------------------------------------------------------
(* Leaving: the handover, the own row, and the group if nobody is left.    *)

\* Variant: the filter is the wrong way round.
Leaders(g) == {r \in RowsOf(g) : groupUser[r].role = 0}

\* The members who can take over.
Heirs(g) == {r \in RowsOf(g) : groupUser[r].role # 0}

\* findFirst over rows in no order.
ChooseHeir(h) ==
  /\ pc[h] = "chooseHeir"
  /\ \/ /\ \E r \in Heirs(req[h].group) : loc' = [loc EXCEPT ![h].heir = r]
        /\ Goto(h, "updateHeir")
     \/ /\ Heirs(req[h].group) = {}
        /\ Goto(h, "deleteRow")
        /\ UNCHANGED loc
  /\ UNCHANGED <<tables, groupGame, req>>

\* The query of the remaining members flushes what the request has changed:
\* Hibernate sends the UPDATE of the heir before the DELETE of the own row.
\* Each statement waits for the lock of its row, the second while the first
\* keeps its own, and one that matches no row makes Hibernate throw.
UpdateHeir(h) ==
  /\ pc[h] = "updateHeir"
  /\ ~Blocked(h, loc[h].heir)
  /\ \/ /\ loc[h].heir \in DOMAIN groupUser
        /\ loc' = [loc EXCEPT ![h].locks = {loc[h].heir}]
        /\ Goto(h, "deleteRow")
        /\ UNCHANGED <<tables, req>>
     \/ loc[h].heir \notin DOMAIN groupUser /\ Catch(h)
  /\ UNCHANGED groupGame

Remaining(h) == RowsOf(req[h].group) \ {loc[h].row}

DeleteRow(h) ==
  /\ pc[h] = "deleteRow"
  /\ ~Blocked(h, loc[h].row)
  /\ \/ /\ loc[h].row \in DOMAIN groupUser
        /\ loc' = [loc EXCEPT ![h].locks = @ \cup {loc[h].row}]
        /\ Goto(h, IF Remaining(h) = {} THEN "purgeDoc" ELSE "commitLeave")
        /\ UNCHANGED <<tables, req>>
     \/ loc[h].row \notin DOMAIN groupUser /\ Catch(h)
  /\ UNCHANGED groupGame

PurgeDoc(h) ==
  /\ pc[h] = "purgeDoc"
  /\ groupGame' = Written(h)
  /\ Goto(h, "dropGroup")
  /\ UNCHANGED <<tables, req, loc>>

\* Variant: the leader stays.
AfterHandover(h) ==
  [r \in DOMAIN groupUser |->
     IF r = loc[h].heir THEN [groupUser[r] EXCEPT !.role = 0]
                        ELSE groupUser[r]]

\* group_user_info once the handover and the DELETE are committed.
AfterLeave(h) ==
  [r \in DOMAIN groupUser \ {loc[h].row} |->
     IF r = loc[h].heir THEN [groupUser[r] EXCEPT !.role = 0]
                        ELSE groupUser[r]]

CommitLeave(h) ==
  /\ pc[h] = "commitLeave"
  /\ groupUser' = AfterLeave(h)
  /\ Return(h)
  /\ UNCHANGED <<groupInfo, groupGame>>

\* Another transaction has deleted row r and not ended.  (One that has only
\* promoted the row does not stop a foreign key check.)
Going(h, r) ==
  \E k \in Handlers \ {h} : r = loc[k].row /\ r \in loc[k].locks

\* The DELETE of group_info is flushed by the commit and fails on the foreign
\* key of a member who has joined meanwhile, again outside of the try block.
\* It waits while all such rows are going.
DropGroup(h) ==
  /\ pc[h] = "dropGroup"
  /\ \/ /\ Remaining(h) = {}
        /\ groupUser' = AfterLeave(h)
        /\ groupInfo' = Without(groupInfo, {req[h].group})
     \/ (\E r \in Remaining(h) : ~Going(h, r)) /\ UNCHANGED tables
  /\ Return(h)
  /\ UNCHANGED groupGame

-----------------------------------------------------------------------------
(* Failures. *)

\* A MongoDB call inside a try block throws, with or without its effect.
MongoThrows(h) ==
  /\ Faults
  /\ pc[h] \in {"findDoc", "deleteDoc", "saveDoc", "purgeDoc"}
  /\ ~loc[h].catching
  /\ \/ UNCHANGED groupGame
     \/ pc[h] # "findDoc" /\ ~NotADoc(h) /\ groupGame' = Written(h)
  /\ Catch(h)

\* The commit fails, or a compensation does: nothing more is undone.
RequestFails(h) ==
  /\ Crashes
  /\ \/ pc[h] \in {"insertRow", "commitInsert", "commitUpdate",
                   "commitLeave", "dropGroup", "undoDoc"}
     \/ loc[h].catching
  /\ Return(h)
  /\ UNCHANGED <<tables, groupGame>>

\* The process dies: PostgreSQL rolls back what was open, MongoDB keeps what
\* was written.
Crash ==
  /\ Crashes
  /\ \E h \in Handlers : pc[h] # "idle"
  /\ pc' = [h \in Handlers |-> "idle"]
  /\ req' = [h \in Handlers |-> NoReq]
  /\ loc' = [h \in Handlers |-> NoLoc]
  /\ UNCHANGED <<tables, groupGame>>

-----------------------------------------------------------------------------
Arrive(h) == InsertGroup(h) \/ JoinGroup(h) \/ UpdateGroup(h) \/ LeaveGroup(h)

Work(h) ==
  \/ FindMember(h) \/ CountMembers(h) \/ InsertRow(h)
  \/ FindBefore(h) \/ Authorize(h)
  \/ FindDoc(h) \/ DeleteDoc(h) \/ SaveDoc(h) \/ UndoDoc(h)
  \/ CommitInsert(h) \/ CommitUpdate(h)
  \/ ChooseHeir(h) \/ UpdateHeir(h) \/ DeleteRow(h)
  \/ PurgeDoc(h) \/ CommitLeave(h) \/ DropGroup(h)

Fail(h) == MongoThrows(h) \/ RequestFails(h)

Next == (\E h \in Handlers : Arrive(h) \/ Work(h) \/ Fail(h)) \/ Crash

Spec == Init /\ [][Next]_vars
=============================================================================
