-------------------------- MODULE GroupStoresProofs --------------------------
(***************************************************************************)
(* Proofs about the two stores of GroupService: what they keep as long as  *)
(* requests of the kinds GroupProperties names do not overlap, and, with   *)
(* no such assumption, what GroupRaces says of requests that overlap: what *)
(* an overtaken request may break is all that breaks.                      *)
(***************************************************************************)
EXTENDS GroupServiceProofs, GroupRaces

-----------------------------------------------------------------------------
(* What a step does to the locals of its handler, field by field. *)

\* One field is set, the others stay.
LEMMA SetLocal ==
  ASSUME TypeOK, NEW h \in Handlers, NEW v
  PROVE  /\ loc' = [loc EXCEPT ![h].before = v] =>
              /\ loc'[h].before = v /\ loc'[h].row = loc[h].row
              /\ loc'[h].role = loc[h].role /\ loc'[h].heir = loc[h].heir
              /\ loc'[h].found = loc[h].found /\ loc'[h].doc = loc[h].doc
              /\ loc'[h].catching = loc[h].catching
         /\ loc' = [loc EXCEPT ![h].found = v] =>
              /\ loc'[h].found = v /\ loc'[h].row = loc[h].row
              /\ loc'[h].role = loc[h].role /\ loc'[h].heir = loc[h].heir
              /\ loc'[h].before = loc[h].before /\ loc'[h].doc = loc[h].doc
              /\ loc'[h].catching = loc[h].catching
         /\ loc' = [loc EXCEPT ![h].doc = v] =>
              /\ loc'[h].doc = v /\ loc'[h].row = loc[h].row
              /\ loc'[h].role = loc[h].role /\ loc'[h].heir = loc[h].heir
              /\ loc'[h].before = loc[h].before
              /\ loc'[h].found = loc[h].found
              /\ loc'[h].catching = loc[h].catching
         /\ loc' = [loc EXCEPT ![h].heir = v] =>
              /\ loc'[h].heir = v /\ loc'[h].row = loc[h].row
              /\ loc'[h].role = loc[h].role
              /\ loc'[h].before = loc[h].before
              /\ loc'[h].found = loc[h].found /\ loc'[h].doc = loc[h].doc
              /\ loc'[h].catching = loc[h].catching
         /\ loc' = [loc EXCEPT ![h].locks = v] =>
              /\ loc'[h].row = loc[h].row
              /\ loc'[h].role = loc[h].role /\ loc'[h].heir = loc[h].heir
              /\ loc'[h].before = loc[h].before
              /\ loc'[h].found = loc[h].found /\ loc'[h].doc = loc[h].doc
              /\ loc'[h].catching = loc[h].catching
<1>1. loc[h] \in LocType /\ DOMAIN loc = Handlers
  BY DEF TypeOK
<1> QED BY <1>1 DEF LocType

\* A catch block keeps what was read and makes the former document the one to
\* save.
LEMMA SetCatch ==
  ASSUME TypeOK, NEW h \in Handlers, Catch(h)
  PROVE  /\ req'[h] = req[h] /\ groupInfo' = groupInfo /\ groupUser' = groupUser
         /\ loc'[h].row = loc[h].row /\ loc'[h].role = loc[h].role
         /\ loc'[h].heir = loc[h].heir /\ loc'[h].before = loc[h].before
         /\ loc'[h].found = loc[h].found
         /\ IF req[h].op = "insert"
              THEN pc'[h] = "undoDoc" /\ loc'[h] = loc[h]
              ELSE /\ pc'[h] = "findDoc" /\ loc'[h].catching = TRUE
                   /\ loc'[h].doc = loc[h].before
<1>1. loc[h] \in LocType
  BY DEF TypeOK
<1>2. UNCHANGED tables /\ req'[h] = req[h]
  BY DEF Catch
<1>3. CASE /\ pc'[h] = "findDoc" /\ req[h].op # "insert"
           /\ loc'[h] = [loc[h] EXCEPT !.catching = TRUE, !.doc = loc[h].before]
  BY <1>1, <1>2, <1>3 DEF LocType, tables
<1>4. CASE pc'[h] = "undoDoc" /\ req[h].op = "insert" /\ loc'[h] = loc[h]
  BY <1>2, <1>4 DEF tables
<1> QED BY <1>3, <1>4, OwnCatch

\* A request that has returned.
LEMMA SetReturn ==
  ASSUME TypeOK, NEW h \in Handlers, Return(h)
  PROVE  /\ pc'[h] = "idle" /\ req'[h] = NoReq /\ req'[h].op = "none"
         /\ req'[h].group = NoId /\ loc'[h] = NoLoc
         /\ loc'[h].heir = NoId /\ loc'[h].row = NoId
         /\ loc'[h].catching = FALSE
<1>1. /\ NoReq.op = "none" /\ NoReq.group = NoId
      /\ NoLoc.heir = NoId /\ NoLoc.row = NoId /\ NoLoc.catching = FALSE
  BY DEF NoReq, NoLoc
<1>2. pc'[h] = "idle" /\ req'[h] = NoReq /\ loc'[h] = NoLoc
  BY OwnReturn
<1> HIDE DEF NoReq, NoLoc
<1> QED BY <1>1, <1>2

\* The action a handler takes at each program point.
LEMMA AtPoint ==
  ASSUME NEW h \in Handlers, Work(h)
  PROVE  /\ pc[h] # "idle"
         /\ pc[h] = "findMember" => FindMember(h)
         /\ pc[h] = "countMembers" => CountMembers(h)
         /\ pc[h] = "insertRow" => InsertRow(h)
         /\ pc[h] = "findBefore" => FindBefore(h)
         /\ pc[h] = "authorize" => Authorize(h)
         /\ pc[h] = "findDoc" => FindDoc(h)
         /\ pc[h] = "deleteDoc" => DeleteDoc(h)
         /\ pc[h] = "saveDoc" => SaveDoc(h)
         /\ pc[h] = "undoDoc" => UndoDoc(h)
         /\ pc[h] = "commitInsert" => CommitInsert(h)
         /\ pc[h] = "commitUpdate" => CommitUpdate(h)
         /\ pc[h] = "chooseHeir" => ChooseHeir(h)
         /\ pc[h] = "updateHeir" => UpdateHeir(h)
         /\ pc[h] = "deleteRow" => DeleteRow(h)
         /\ pc[h] = "purgeDoc" => PurgeDoc(h)
         /\ pc[h] = "commitLeave" => CommitLeave(h)
         /\ pc[h] = "dropGroup" => DropGroup(h)
BY DEF Work, FindMember, CountMembers, InsertRow, FindBefore, Authorize,
       FindDoc, DeleteDoc, SaveDoc, UndoDoc, CommitInsert, CommitUpdate,
       ChooseHeir, UpdateHeir, DeleteRow, PurgeDoc, CommitLeave, DropGroup

-----------------------------------------------------------------------------
(* What a step does to the rows. *)

\* What is visible of the groups changes only in these steps.
LEMMA TableSteps ==
  ASSUME IInv, NEW h \in Handlers, HandlerStep(h)
  PROVE  \/ UNCHANGED tables
         \/ InsertRow(h) \/ CommitInsert(h) \/ CommitUpdate(h)
         \/ CommitLeave(h) \/ DropGroup(h)
<1>1. CASE Arrive(h)
  BY <1>1 DEF Arrive, InsertGroup, JoinGroup, UpdateGroup, LeaveGroup
<1>2. CASE \/ FindMember(h) \/ CountMembers(h) \/ FindBefore(h) \/ Authorize(h)
           \/ DeleteDoc(h) \/ UndoDoc(h) \/ ChooseHeir(h) \/ PurgeDoc(h)
           \/ RequestFails(h)
  BY <1>2 DEF FindMember, CountMembers, FindBefore, Authorize, DeleteDoc,
              UndoDoc, ChooseHeir, PurgeDoc, RequestFails
<1>3. CASE \/ FindDoc(h) \/ SaveDoc(h) \/ UpdateHeir(h) \/ DeleteRow(h)
           \/ MongoThrows(h)
  BY <1>3 DEF FindDoc, SaveDoc, UpdateHeir, DeleteRow, MongoThrows, Catch
<1> QED BY <1>1, <1>2, <1>3 DEF HandlerStep, Work, Fail

\* A group that the request does not name, and its rows, stay as they are.
LEMMA RowsElsewhere ==
  ASSUME IInv, NEW h \in Handlers, HandlerStep(h), NEW g, g # req[h].group
  PROVE  /\ g \in DOMAIN groupInfo' <=> g \in DOMAIN groupInfo
         /\ g \in DOMAIN groupInfo => groupInfo'[g] = groupInfo[g]
         /\ RowsOf(g)' = RowsOf(g)
         /\ \A r \in RowsOf(g) : groupUser'[r] = groupUser[r]
<1>1. SUFFICES /\ g \in DOMAIN groupInfo' <=> g \in DOMAIN groupInfo
               /\ g \in DOMAIN groupInfo => groupInfo'[g] = groupInfo[g]
               /\ \A r : r \in DOMAIN groupUser' /\ groupUser'[r].group = g
                    <=> r \in DOMAIN groupUser /\ groupUser[r].group = g
               /\ \A r \in DOMAIN groupUser : groupUser[r].group = g =>
                    groupUser'[r] = groupUser[r]
  BY Zenon DEF RowsOf
<1>2. TypeOK
  BY DEF IInv
<1>3. CASE UNCHANGED tables
  BY <1>3 DEF tables
<1>4. CASE InsertRow(h)
  <2>1. groupInfo' = groupInfo
    BY <1>4 DEF InsertRow
  <2>2. NewRow \notin DOMAIN groupUser
    BY <1>2, <1>4, RowsAfterInsert DEF UsedRows
  <2> QED BY <1>2, <1>4, <2>1, <2>2, RowsAfterInsert
<1>5. CASE CommitInsert(h)
  <2>1. /\ g \in DOMAIN groupInfo' <=> g \in DOMAIN groupInfo
        /\ g \in DOMAIN groupInfo => groupInfo'[g] = groupInfo[g]
    BY <1>5 DEF CommitInsert, Put
  <2> QED BY <1>5, <2>1, RowsAfterCommit
<1>6. CASE CommitUpdate(h)
  BY <1>6 DEF CommitUpdate, Put
<1>7. CASE CommitLeave(h) \/ (DropGroup(h) /\ groupUser' = AfterLeave(h))
  <2>5. req[h].op = "leave" /\ loc[h].row \in DOMAIN groupUser
    BY <1>7 DEF CommitLeave, DropGroup, IInv, LocksHeld, Flushed
  <2>1. /\ groupUser[loc[h].row].group = req[h].group
        /\ groupUser' = AfterLeave(h)
        /\ DOMAIN groupUser' = DOMAIN groupUser \ {loc[h].row}
        /\ \A r \in DOMAIN groupUser' : groupUser'[r].group = groupUser[r].group
        /\ CommitLeave(h) => groupInfo' = groupInfo
        /\ DropGroup(h) => \/ groupInfo' = Without(groupInfo, {req[h].group})
                           \/ groupInfo' = groupInfo
    <3>1. groupUser[loc[h].row].group = req[h].group
      BY <2>5 DEF IInv, ReadsStillTrue
    <3>2. /\ DOMAIN groupUser' = DOMAIN groupUser \ {loc[h].row}
          /\ \A r \in DOMAIN groupUser' : groupUser'[r].group = groupUser[r].group
      BY <1>2, <1>7, RowsAfterLeave DEF CommitLeave
    <3> QED BY <1>7, <3>1, <3>2 DEF CommitLeave, DropGroup, tables
  <2>2. loc[h].heir \in DOMAIN groupUser =>
          groupUser[loc[h].heir].group = req[h].group
    BY DEF IInv, ReadsStillTrue
  <2>3. \A r \in DOMAIN groupUser : groupUser[r].group = g =>
          groupUser'[r] = groupUser[r]
    BY <2>1, <2>2 DEF AfterLeave
  <2>4. /\ g \in DOMAIN groupInfo' <=> g \in DOMAIN groupInfo
        /\ g \in DOMAIN groupInfo => groupInfo'[g] = groupInfo[g]
    BY <1>7, <2>1 DEF Without, Restrict
  <2> QED BY <2>1, <2>3, <2>4
<1>8. DropGroup(h) => groupUser' = AfterLeave(h) \/ UNCHANGED tables
  BY DEF DropGroup
<1> QED BY <1>3, <1>4, <1>5, <1>6, <1>7, <1>8, TableSteps

\* A row is added by a join, or by the insert that creates the group; it goes
\* with its leave, and what is left of it is its group, its user and, unless it
\* is the heir's, its role.
LEMMA RowMoves ==
  ASSUME IInv, NEW h \in Handlers, HandlerStep(h)
  PROVE  /\ \A r \in DOMAIN groupUser' \ DOMAIN groupUser :
              /\ groupUser'[r].group = req[h].group
              /\ groupUser'[r].user = req[h].user
              /\ \/ pc[h] = "insertRow" /\ r \notin UsedRows
                 \/ req[h].op = "insert" /\ r = loc[h].row
         /\ \A r \in DOMAIN groupUser \ DOMAIN groupUser' :
              req[h].op = "leave" /\ r = loc[h].row
         /\ \A r \in DOMAIN groupUser' \cap DOMAIN groupUser :
              /\ groupUser'[r].group = groupUser[r].group
              /\ groupUser'[r].user = groupUser[r].user
              /\ groupUser'[r].role = groupUser[r].role \/ groupUser'[r].role = 0
<1>1. TypeOK
  BY DEF IInv
<1>2. CASE UNCHANGED tables \/ CommitUpdate(h)
  BY <1>2 DEF tables, CommitUpdate
<1>3. CASE InsertRow(h)
  <2>1. NewRow \notin DOMAIN groupUser /\ NewRow \notin UsedRows
    BY <1>1, <1>3, RowsAfterInsert DEF UsedRows
  <2> QED BY <1>3, <2>1 DEF InsertRow, Put
<1>4. CASE CommitInsert(h)
  BY <1>4, RowsAfterCommit DEF CommitInsert, Put
<1>5. CASE CommitLeave(h) \/ (DropGroup(h) /\ groupUser' = AfterLeave(h))
  <2>1. req[h].op = "leave" /\ groupUser' = AfterLeave(h)
    BY <1>5 DEF CommitLeave, DropGroup, IInv, LocksHeld, Flushed
  <2> QED BY <1>1, <2>1, RowsAfterLeave
<1>6. DropGroup(h) => groupUser' = AfterLeave(h) \/ UNCHANGED tables
  BY DEF DropGroup
<1> QED BY <1>2, <1>3, <1>4, <1>5, <1>6, TableSteps

-----------------------------------------------------------------------------
(* What the requests have read of the rows. *)

\* What a request reads of the rows is the same until the rows change.
LEMMA SameRows ==
  ASSUME NEW h \in Handlers, groupUser' = groupUser, req'[h] = req[h]
  PROVE  /\ RowsOf(req[h].group)' = RowsOf(req[h].group)
         /\ Heirs(req[h].group)' = Heirs(req[h].group)
         /\ RowsOfUser(req[h].group, req[h].user)'
              = RowsOfUser(req[h].group, req[h].user)
         /\ Leads(req[h].user, req[h].group)' <=> Leads(req[h].user, req[h].group)
         /\ loc'[h].row = loc[h].row => Remaining(h)' = Remaining(h)
BY DEF RowsOf, Heirs, RowsOfUser, Leads, Remaining

\* What a step keeps of what its request has read.
KeepsReads(h) ==
  /\ PointOf(h)'
  /\ LeavesOwnRow(h) => LeavesOwnRow(h)'
  /\ UpdaterLeads(h) => UpdaterLeads(h)'
  /\ LeaveAsRead(h) => LeaveAsRead(h)'
  /\ OnlyRow(h) => OnlyRow(h)'
  /\ RoleAsRead(h) => RoleAsRead(h)'
  /\ NoHeirs(h) => NoHeirs(h)'

\* A request keeps what it has read of the rows.
LEMMA OwnReads ==
  ASSUME IInv, NEW h \in Handlers, HandlerStep(h), PointOf(h)
  PROVE  KeepsReads(h)
<1>1. TypeOK /\ LocalsOf(h) /\ (Flushed(h) => req[h].op = "leave")
  BY DEF IInv, LocalsInOrder, LocksHeld
<1>2. ASSUME Return(h) PROVE KeepsReads(h)
  BY <1>1, <1>2, SetReturn
        DEF KeepsReads, PointOf, LeavesOwnRow, UpdaterLeads, LeaveAsRead, Flushed,
            OnlyRow, RoleAsRead, Looked, NoHeirs, Heirless
<1>3. ASSUME UNCHANGED tables, req'[h] = req[h], loc'[h].row = loc[h].row,
             loc'[h].role = loc[h].role, loc'[h].heir = loc[h].heir,
             loc'[h].catching = loc[h].catching \/ loc'[h].catching = TRUE,
             \/ pc'[h] = "findDoc" /\ ~loc'[h].catching /\ req[h].op = "update"
                  /\ pc[h] = "authorize" /\ MayUpdate(h)
             \/ /\ pc'[h] \in {"findDoc", "deleteDoc", "saveDoc"}
                /\ pc[h] \notin {"authorize", "findBefore", "findMember",
                                 "countMembers", "insertRow", "idle"}
                /\ req[h].op = "leave" => loc'[h].catching
             \/ /\ pc'[h] = "commitUpdate" /\ req[h].op = "update"
                /\ pc[h] \notin {"authorize", "findBefore"}
             \/ pc'[h] \in {"commitInsert", "undoDoc"} /\ req[h].op = "insert"
             \/ pc[h] = "purgeDoc" /\ pc'[h] = "dropGroup"
             \/ pc[h] = "countMembers" /\ pc'[h] = "insertRow"
      PROVE  KeepsReads(h)
  <2>1. groupInfo' = groupInfo /\ groupUser' = groupUser
    BY <1>3 DEF tables
  <2>2. /\ RowsOf(req[h].group)' = RowsOf(req[h].group)
        /\ Heirs(req[h].group)' = Heirs(req[h].group)
        /\ RowsOfUser(req[h].group, req[h].user)'
             = RowsOfUser(req[h].group, req[h].user)
        /\ Leads(req[h].user, req[h].group)' <=> Leads(req[h].user, req[h].group)
        /\ Remaining(h)' = Remaining(h)
    BY <1>3, <2>1, SameRows
  <2>3. PointOf(h)'
    BY <1>3 DEF PointOf
  <2>4. LeavesOwnRow(h) => LeavesOwnRow(h)'
    BY <1>3, <2>1 DEF LeavesOwnRow
  <2>5. UpdaterLeads(h) => UpdaterLeads(h)'
    <3>1. pc[h] = "authorize" /\ MayUpdate(h) => Leads(req[h].user, req[h].group)
      BY DEF MayUpdate, Leads, RowsOfUser
    <3> QED BY <1>3, <2>2, <3>1 DEF UpdaterLeads, PointOf
  <2>6. LeaveAsRead(h) => LeaveAsRead(h)'
    BY <1>3, <2>1, <2>2 DEF LeaveAsRead, Flushed, PointOf
  <2>7. /\ OnlyRow(h) => OnlyRow(h)'
        /\ RoleAsRead(h) => RoleAsRead(h)'
    BY <1>3, <2>1, <2>2 DEF OnlyRow, RoleAsRead, Looked, PointOf
  <2>8. NoHeirs(h) => NoHeirs(h)'
    BY <1>3, <2>2 DEF NoHeirs, Heirless, Flushed, PointOf
  <2> QED BY <2>3, <2>4, <2>5, <2>6, <2>7, <2>8 DEF KeepsReads
<1>4. ASSUME Catch(h),
             \/ pc[h] \in {"findDoc", "deleteDoc", "saveDoc"}
             \/ /\ pc[h] \in {"purgeDoc", "updateHeir", "deleteRow"}
                /\ req[h].op = "leave"
      PROVE  KeepsReads(h)
  <2>1. /\ req'[h] = req[h] /\ UNCHANGED tables
        /\ loc'[h].row = loc[h].row /\ loc'[h].role = loc[h].role
        /\ loc'[h].heir = loc[h].heir
        /\ IF req[h].op = "insert"
             THEN pc'[h] = "undoDoc" /\ loc'[h] = loc[h]
             ELSE pc'[h] = "findDoc" /\ loc'[h].catching = TRUE
    BY <1>1, <1>4, SetCatch DEF tables
  <2> QED BY <1>3, <1>4, <2>1
<1>5. CASE InsertGroup(h)
  <2>1. pc'[h] = "findDoc" /\ req'[h].op = "insert"
    BY <1>1, <1>5 DEF InsertGroup, Request, Goto, TypeOK
  <2> QED BY <2>1
        DEF KeepsReads, PointOf, LeavesOwnRow, UpdaterLeads, LeaveAsRead, Flushed,
            OnlyRow, RoleAsRead, Looked, NoHeirs, Heirless
<1>6. CASE JoinGroup(h) \/ UpdateGroup(h) \/ LeaveGroup(h)
  <2>1. /\ \/ pc'[h] = "findBefore" /\ req'[h].op = "update"
           \/ pc'[h] = "findMember" /\ req'[h].op \in {"join", "leave"}
        /\ req'[h].group \in DOMAIN groupInfo /\ groupInfo' = groupInfo
    BY <1>1, <1>6 DEF JoinGroup, UpdateGroup, LeaveGroup, Request, Goto, TypeOK,
                      tables
  <2>2. loc'[h].row = NoId /\ groupUser' = groupUser /\ NoId \notin DOMAIN groupUser
    <3>1. NoLoc.row = NoId
      BY DEF NoLoc
    <3> QED BY <1>1, <1>6, <3>1, TypedTables DEF JoinGroup, UpdateGroup, LeaveGroup,
               Request, LocalsOf, tables
  <2> QED BY <2>1, <2>2
        DEF KeepsReads, PointOf, LeavesOwnRow, UpdaterLeads, LeaveAsRead, Flushed,
            OnlyRow, RoleAsRead, Looked, NoHeirs, Heirless
<1>7. CASE FindMember(h)
  <2>1. CASE Return(h)
    BY <1>2, <2>1
  <2>2. CASE /\ req[h].op = "join" /\ RowsOfUser(req[h].group, req[h].user) = {}
             /\ Goto(h, "countMembers") /\ UNCHANGED <<req, loc>>
    <3>1. pc'[h] = "countMembers" /\ groupUser' = groupUser
          /\ groupInfo' = groupInfo
      BY <1>1, <1>7, <2>2, OwnGoto DEF FindMember, tables
    <3>2. RowsOfUser(req[h].group, req[h].user)' = {}
      BY <2>2, <3>1, SameRows
    <3> QED BY <2>2, <3>1, <3>2
        DEF KeepsReads, PointOf, LeavesOwnRow, UpdaterLeads, LeaveAsRead, Flushed,
            OnlyRow, RoleAsRead, Looked, NoHeirs, Heirless
  <2>3. ASSUME req[h].op = "leave",
               NEW r \in RowsOfUser(req[h].group, req[h].user),
               RowsOfUser(req[h].group, req[h].user) = {r},
               loc' = [loc EXCEPT ![h].row = r, ![h].role = groupUser[r].role],
               Goto(h, "findBefore"), UNCHANGED req
        PROVE  KeepsReads(h)
    <3>1. pc'[h] = "findBefore" /\ groupUser' = groupUser
          /\ groupInfo' = groupInfo
      BY <1>1, <1>7, <2>3, OwnGoto DEF FindMember, tables
    <3>2. loc'[h].row = r /\ loc'[h].role = groupUser[r].role
          /\ loc'[h].heir = loc[h].heir
      <4>1. loc'[h] = [loc[h] EXCEPT !.row = r, !.role = groupUser[r].role]
        BY <1>1, <2>3 DEF TypeOK
      <4>2. loc[h] \in LocType
        BY <1>1 DEF TypeOK
      <4> QED BY <4>1, <4>2 DEF LocType
    <3>3. loc[h].heir = NoId
      BY <1>1, <1>7 DEF FindMember, LocalsOf, NoLoc
    <3>4. RowsOfUser(req[h].group, req[h].user)'
             = RowsOfUser(req[h].group, req[h].user)
      BY <2>3, <3>1, SameRows
    <3>5. groupUser[r].user = req[h].user /\ r \in DOMAIN groupUser
      BY <2>3 DEF RowsOfUser, RowsOf
    <3> QED BY <2>3, <3>1, <3>2, <3>3, <3>4, <3>5
        DEF KeepsReads, PointOf, LeavesOwnRow, UpdaterLeads, LeaveAsRead, Flushed,
            OnlyRow, RoleAsRead, Looked, NoHeirs, Heirless
  <2> QED BY <1>7, <2>1, <2>2, <2>3 DEF FindMember
<1>8. CASE CountMembers(h)
  <2>1. CASE Return(h)
    BY <1>2, <2>1
  <2>2. CASE Goto(h, "insertRow") /\ UNCHANGED <<req, loc>>
    <3>1. pc'[h] = "insertRow"
      BY <1>1, <2>2, OwnGoto
    <3> QED BY <1>3, <1>8, <2>2, <3>1 DEF CountMembers
  <2> QED BY <1>8, <2>1, <2>2 DEF CountMembers
<1>9. CASE FindBefore(h)
  <2>1. CASE Return(h)
    BY <1>2, <2>1
  <2>2. ASSUME \/ loc' = loc
               \/ \E d \in DocsOf(req[h].group) : loc' = [loc EXCEPT ![h].before = d],
               Goto(h, IF req[h].op = "update" THEN "authorize"
                       ELSE IF loc[h].role = 0 THEN "chooseHeir" ELSE "deleteRow"),
               UNCHANGED req
        PROVE  KeepsReads(h)
    <3>1. /\ loc'[h].row = loc[h].row /\ loc'[h].role = loc[h].role
          /\ loc'[h].heir = loc[h].heir /\ loc'[h].catching = loc[h].catching
      BY <1>1, <2>2, SetLocal
    <3>2. pc'[h] = IF req[h].op = "update" THEN "authorize"
                   ELSE IF loc[h].role = 0 THEN "chooseHeir" ELSE "deleteRow"
      BY <1>1, <2>2, OwnGoto
    <3>3. groupInfo' = groupInfo /\ groupUser' = groupUser
          /\ pc[h] = "findBefore" /\ req[h].op \in {"update", "leave"}
          /\ loc[h].heir = NoId
      BY <1>1, <1>9 DEF FindBefore, tables, LocalsOf
    <3>4. RowsOfUser(req[h].group, req[h].user)'
             = RowsOfUser(req[h].group, req[h].user)
      BY <2>2, <3>3, SameRows
    <3>5. CASE req[h].op = "update"
      BY <2>2, <3>1, <3>2, <3>3, <3>5
         DEF KeepsReads, PointOf, LeavesOwnRow, UpdaterLeads, LeaveAsRead,
             Flushed, OnlyRow, RoleAsRead, Looked, NoHeirs, Heirless
    <3>6. CASE req[h].op = "leave"
      BY <2>2, <3>1, <3>2, <3>3, <3>4, <3>6
         DEF KeepsReads, PointOf, LeavesOwnRow, UpdaterLeads, LeaveAsRead,
             Flushed, OnlyRow, RoleAsRead, Looked, NoHeirs, Heirless
    <3> QED BY <3>3, <3>5, <3>6
  <2> QED BY <1>9, <2>1, <2>2 DEF FindBefore, HandsOver
<1>10. CASE Authorize(h)
  <2>1. CASE Return(h)
    BY <1>2, <2>1
  <2>2. CASE /\ MayUpdate(h) /\ loc' = [loc EXCEPT ![h].doc = NewDoc]
             /\ Goto(h, "findDoc") /\ UNCHANGED req
    <3>1. PICK n : n = NewDoc
      OBVIOUS
    <3>2. /\ loc'[h].row = loc[h].row /\ loc'[h].role = loc[h].role
          /\ loc'[h].heir = loc[h].heir /\ loc'[h].catching = loc[h].catching
      BY <1>1, <2>2, <3>1, SetLocal
    <3>3. pc'[h] = "findDoc" /\ pc[h] = "authorize" /\ ~loc[h].catching
      BY <1>1, <1>10, <2>2, OwnGoto DEF Authorize, LocalsOf
    <3> QED BY <1>3, <1>10, <2>2, <3>2, <3>3 DEF Authorize, PointOf
  <2> QED BY <1>10, <2>1, <2>2 DEF Authorize
<1>11. CASE FindDoc(h)
  <2>1. CASE Return(h) \/ Catch(h)
    BY <1>2, <1>4, <1>11, <2>1 DEF FindDoc
  <2>2. ASSUME UNCHANGED <<tables, req>>, Goto(h, "saveDoc") \/ Goto(h, "deleteDoc"),
               \/ loc' = loc
               \/ \E d \in DocsOf(req[h].group) : loc' = [loc EXCEPT ![h].found = d]
        PROVE  KeepsReads(h)
    <3>1. /\ loc'[h].row = loc[h].row /\ loc'[h].role = loc[h].role
          /\ loc'[h].heir = loc[h].heir /\ loc'[h].catching = loc[h].catching
      BY <1>1, <2>2, SetLocal
    <3>2. pc'[h] \in {"saveDoc", "deleteDoc"} /\ pc[h] = "findDoc"
      BY <1>1, <1>11, <2>2, OwnGoto DEF FindDoc
    <3>3. req[h].op = "leave" => loc[h].catching
      BY <3>2 DEF PointOf
    <3> QED BY <1>3, <2>2, <3>1, <3>2, <3>3
  <2> QED BY <1>11, <2>1, <2>2 DEF FindDoc
<1>12. CASE DeleteDoc(h)
  <2>1. pc'[h] = "saveDoc" /\ pc[h] = "deleteDoc" /\ loc' = loc /\ req' = req
        /\ UNCHANGED tables
    BY <1>1, <1>12, OwnGoto DEF DeleteDoc
  <2>2. req[h].op = "leave" => loc[h].catching
    BY <2>1 DEF PointOf
  <2> QED BY <1>3, <2>1, <2>2
<1>13. CASE SaveDoc(h)
  <2>1. CASE Return(h) \/ Catch(h)
    BY <1>2, <1>4, <1>13, <2>1 DEF SaveDoc
  <2>2. CASE /\ UNCHANGED <<tables, req, loc>> /\ ~loc[h].catching
             /\ Goto(h, IF req[h].op = "insert" THEN "commitInsert"
                                                ELSE "commitUpdate")
    <3>1. pc'[h] = IF req[h].op = "insert" THEN "commitInsert"
                                            ELSE "commitUpdate"
      BY <1>1, <2>2, OwnGoto
    <3>2. req[h].op \in {"insert", "update"} /\ pc[h] = "saveDoc"
      BY <1>13, <2>2 DEF SaveDoc, PointOf
    <3> QED BY <1>3, <2>2, <3>1, <3>2
  <2> QED BY <1>13, <2>1, <2>2 DEF SaveDoc
<1>14. CASE ChooseHeir(h)
  <2>1. /\ req' = req /\ groupInfo' = groupInfo
        /\ groupUser' = groupUser /\ pc[h] = "chooseHeir"
        /\ req[h].op = "leave" /\ loc[h].role = 0 /\ loc[h].heir = NoId
    BY <1>1, <1>14 DEF ChooseHeir, tables, LocalsOf
  <2>2. /\ loc'[h].row = loc[h].row /\ loc'[h].role = loc[h].role
        /\ \/ pc'[h] = "updateHeir" /\ loc'[h].heir \in Heirs(req[h].group)
           \/ /\ pc'[h] = "deleteRow" /\ loc'[h].heir = NoId
              /\ Heirs(req[h].group) = {}
    BY <1>1, <1>14, <2>1, SetLocal, OwnGoto DEF ChooseHeir
  <2>3. /\ Heirs(req[h].group)' = Heirs(req[h].group)
        /\ RowsOfUser(req[h].group, req[h].user)'
             = RowsOfUser(req[h].group, req[h].user)
    BY <2>1, SameRows
  <2> QED BY <2>1, <2>2, <2>3
        DEF KeepsReads, PointOf, LeavesOwnRow, UpdaterLeads, LeaveAsRead, Flushed,
            OnlyRow, RoleAsRead, Looked, NoHeirs, Heirless
<1>15. CASE UpdateHeir(h) /\ ~Catch(h)
  <2>1. /\ pc'[h] = "deleteRow" /\ req' = req /\ groupInfo' = groupInfo
        /\ groupUser' = groupUser /\ pc[h] = "updateHeir"
        /\ req[h].op = "leave" /\ loc[h].heir # NoId
    BY <1>1, <1>15, OwnGoto, TypedTables DEF UpdateHeir, tables, LocalsOf
  <2>2. PICK S : loc' = [loc EXCEPT ![h].locks = S]
    BY <1>15 DEF UpdateHeir
  <2>3. /\ loc'[h].row = loc[h].row /\ loc'[h].role = loc[h].role
        /\ loc'[h].heir = loc[h].heir
    BY <1>1, <2>2, SetLocal
  <2>4. /\ Heirs(req[h].group)' = Heirs(req[h].group)
        /\ RowsOfUser(req[h].group, req[h].user)'
             = RowsOfUser(req[h].group, req[h].user)
    BY <2>1, SameRows
  <2> QED BY <2>1, <2>3, <2>4
        DEF KeepsReads, PointOf, LeavesOwnRow, UpdaterLeads, LeaveAsRead, Flushed,
            OnlyRow, RoleAsRead, Looked, NoHeirs, Heirless
<1>16. CASE DeleteRow(h) /\ ~Catch(h)
  <2>1. /\ pc'[h] = IF Remaining(h) = {} THEN "purgeDoc" ELSE "commitLeave"
        /\ req' = req /\ groupInfo' = groupInfo
        /\ groupUser' = groupUser /\ pc[h] = "deleteRow" /\ req[h].op = "leave"
    BY <1>1, <1>16, OwnGoto DEF DeleteRow, tables, LocalsOf
  <2>2. PICK S : loc' = [loc EXCEPT ![h].locks = S]
    BY <1>16 DEF DeleteRow
  <2>3. /\ loc'[h].row = loc[h].row /\ loc'[h].role = loc[h].role
        /\ loc'[h].heir = loc[h].heir
    BY <1>1, <2>2, SetLocal
  <2>4. /\ Heirs(req[h].group)' = Heirs(req[h].group)
        /\ RowsOfUser(req[h].group, req[h].user)'
             = RowsOfUser(req[h].group, req[h].user)
        /\ Remaining(h)' = Remaining(h)
    BY <2>1, <2>3, SameRows
  <2> QED BY <2>1, <2>3, <2>4
        DEF KeepsReads, PointOf, LeavesOwnRow, UpdaterLeads, LeaveAsRead, Flushed,
            OnlyRow, RoleAsRead, Looked, NoHeirs, Heirless
<1>20. CASE (UpdateHeir(h) \/ DeleteRow(h)) /\ Catch(h)
  BY <1>1, <1>4, <1>20 DEF UpdateHeir, DeleteRow, LocalsOf
<1>17. CASE PurgeDoc(h)
  <2>1. pc'[h] = "dropGroup" /\ pc[h] = "purgeDoc" /\ loc' = loc /\ req' = req
        /\ UNCHANGED tables
    BY <1>1, <1>17, OwnGoto DEF PurgeDoc
  <2> QED BY <1>3, <2>1
<1>18. CASE MongoThrows(h)
  <2>1. pc[h] = "purgeDoc" => req[h].op = "leave"
    BY <1>1 DEF Flushed
  <2> QED BY <1>4, <1>18, <2>1 DEF MongoThrows
<1>19. CASE \/ InsertRow(h) \/ CommitInsert(h) \/ CommitUpdate(h) \/ UndoDoc(h)
            \/ CommitLeave(h) \/ DropGroup(h) \/ RequestFails(h)
  BY <1>2, <1>19 DEF InsertRow, CommitInsert, CommitUpdate, UndoDoc,
                     CommitLeave, DropGroup, RequestFails
<1> QED BY <1>5, <1>6, <1>7, <1>8, <1>9, <1>10, <1>11, <1>12, <1>13, <1>14,
           <1>15, <1>16, <1>17, <1>18, <1>19, <1>20
        DEF HandlerStep, Arrive, Work, Fail

\* Nobody has read anything at first, or after a crash.
LEMMA InitReads ==
  ASSUME Init, NEW h \in Handlers
  PROVE  /\ PointOf(h) /\ LeavesOwnRow(h) /\ NotYetIn(h) /\ UpdaterLeads(h)
         /\ LeaveAsRead(h)
<1>1. NoReq.op = "none"
  BY DEF NoReq
<1>2. pc[h] = "idle" /\ req[h].op = "none"
  BY <1>1 DEF Init
<1> QED BY <1>2 DEF PointOf, LeavesOwnRow, NotYetIn, UpdaterLeads, LeaveAsRead

LEMMA CrashReads ==
  ASSUME Crash, NEW h \in Handlers
  PROVE  /\ PointOf(h)' /\ LeavesOwnRow(h)' /\ NotYetIn(h)' /\ UpdaterLeads(h)'
         /\ LeaveAsRead(h)'
<1>1. NoReq.op = "none"
  BY DEF NoReq
<1>2. pc'[h] = "idle" /\ req'[h].op = "none"
  BY <1>1 DEF Crash
<1> QED BY <1>2 DEF PointOf, LeavesOwnRow, NotYetIn, UpdaterLeads, LeaveAsRead

\* Nothing is read anew by a stutter.
LEMMA StutterReads ==
  ASSUME UNCHANGED vars, NEW h \in Handlers
  PROVE  /\ PointOf(h) => PointOf(h)'
         /\ LeavesOwnRow(h) => LeavesOwnRow(h)'
         /\ NotYetIn(h) => NotYetIn(h)'
         /\ UpdaterLeads(h) => UpdaterLeads(h)'
         /\ LeaveAsRead(h) => LeaveAsRead(h)'
<1>1. UNCHANGED <<groupInfo, groupUser, groupGame, pc, req, loc>>
  BY DEF vars
<1>2. /\ RowsOf(req[h].group)' = RowsOf(req[h].group)
      /\ Heirs(req[h].group)' = Heirs(req[h].group)
      /\ RowsOfUser(req[h].group, req[h].user)'
           = RowsOfUser(req[h].group, req[h].user)
      /\ Leads(req[h].user, req[h].group)' <=> Leads(req[h].user, req[h].group)
      /\ Remaining(h)' = Remaining(h)
  BY <1>1, SameRows
<1>3. PointOf(h) => PointOf(h)'
  BY <1>1 DEF PointOf
<1>4. LeavesOwnRow(h) => LeavesOwnRow(h)'
  BY <1>1 DEF LeavesOwnRow
<1>5. /\ NotYetIn(h) => NotYetIn(h)'
      /\ UpdaterLeads(h) => UpdaterLeads(h)'
  BY <1>1, <1>2 DEF NotYetIn, UpdaterLeads
<1>6. LeaveAsRead(h) => LeaveAsRead(h)'
  BY <1>1, <1>2 DEF LeaveAsRead, Flushed
<1> QED BY <1>3, <1>4, <1>5, <1>6

\* A row that a leave has read is never given to somebody else.
LEMMA OtherOwnRow ==
  ASSUME IInv, NEW h \in Handlers, HandlerStep(h),
         NEW k \in Handlers \ {h}, PointOf(k), LeavesOwnRow(k)
  PROVE  PointOf(k)' /\ LeavesOwnRow(k)'
<1>1. pc'[k] = pc[k] /\ req'[k] = req[k] /\ loc'[k] = loc[k]
  BY OwnOnly DEF IInv, HandlerStep
<1>2. PointOf(k)'
  BY <1>1 DEF PointOf
<1>3. ASSUME req[k].op = "leave", loc[k].row \in DOMAIN groupUser'
      PROVE  groupUser'[loc[k].row].user = req[k].user
  <2>1. loc[k].row \in DOMAIN groupUser
    <3>1. loc[k].row \in UsedRows
      BY DEF UsedRows
    <3>2. req[h].op = "insert" => loc[k].row # loc[h].row
      BY DEF IInv, InsertsApart
    <3> QED BY <1>3, <3>1, <3>2, RowMoves
  <2> QED BY <1>3, <2>1, RowMoves DEF LeavesOwnRow
<1> QED BY <1>1, <1>2, <1>3 DEF LeavesOwnRow

\* So the requests are in their places, whatever overlaps.
LEMMA InPlaceNext == ASSUME IInv, InPlace, [Next]_vars PROVE InPlace'
<1>1. ASSUME NEW h \in Handlers, HandlerStep(h) PROVE InPlace'
  <2>1. PointOf(h)' /\ LeavesOwnRow(h)'
    BY <1>1, OwnReads DEF InPlace, KeepsReads
  <2>2. \A k \in Handlers \ {h} : PointOf(k)' /\ LeavesOwnRow(k)'
    BY <1>1, OtherOwnRow DEF InPlace
  <2> QED BY <2>1, <2>2 DEF InPlace
<1>2. CASE Crash
  BY <1>2, CrashReads DEF InPlace
<1>3. CASE UNCHANGED vars
  BY <1>3, StutterReads DEF InPlace
<1> QED BY <1>1, <1>2, <1>3 DEF Next, HandlerStep

LEMMA Places == Spec => [](IInv /\ InPlace)
<1>1. Init => InPlace
  BY InitReads DEF InPlace
<1>2. IInv /\ InPlace /\ [Next]_vars => InPlace'
  BY InPlaceNext
<1> QED BY <1>1, <1>2, Invariance, PTL DEF Spec

-----------------------------------------------------------------------------
(* No user is a member twice. *)

\* A join comes to these program points only so.
LEMMA JoinPoints ==
  ASSUME IInv, NEW h \in Handlers, HandlerStep(h),
         pc'[h] \in {"countMembers", "insertRow"}
  PROVE  /\ UNCHANGED tables /\ req'[h] = req[h]
         /\ \/ /\ pc[h] = "findMember" /\ req[h].op = "join"
               /\ RowsOfUser(req[h].group, req[h].user) = {}
               /\ pc'[h] = "countMembers"
            \/ /\ pc[h] = "countMembers"
               /\ ~SameInteger(Cardinality(RowsOf(req[h].group)), req[h].max)
<1>1. TypeOK
  BY DEF IInv
<1> USE OwnReturn, OwnGoto, OwnCatch
<1>2. ~Arrive(h)
  BY <1>1 DEF Arrive, InsertGroup, JoinGroup, UpdateGroup, LeaveGroup
<1>3. ~Fail(h)
  BY <1>1 DEF Fail, MongoThrows, RequestFails, Catch
<1>4. ~(\/ InsertRow(h) \/ FindBefore(h) \/ Authorize(h) \/ DeleteDoc(h)
        \/ UndoDoc(h) \/ CommitInsert(h) \/ CommitUpdate(h) \/ ChooseHeir(h)
        \/ PurgeDoc(h) \/ CommitLeave(h) \/ DropGroup(h))
  BY <1>1 DEF InsertRow, FindBefore, Authorize, DeleteDoc, UndoDoc,
              CommitInsert, CommitUpdate, ChooseHeir, PurgeDoc, CommitLeave,
              DropGroup
<1>5. ~(FindDoc(h) \/ SaveDoc(h) \/ UpdateHeir(h) \/ DeleteRow(h))
  BY <1>1 DEF FindDoc, SaveDoc, UpdateHeir, DeleteRow
<1>6. FindMember(h) \/ CountMembers(h)
  BY <1>2, <1>3, <1>4, <1>5 DEF HandlerStep, Work
<1> QED BY <1>1, <1>6 DEF FindMember, CountMembers

\* Who is about to join is still not in.
LEMMA NotYetInStep ==
  ASSUME IInv, InPlace, UsersJoinOnce, \A k \in Handlers : NotYetIn(k),
         NEW k \in Handlers, HandlerStep(k), NEW h \in Handlers
  PROVE  NotYetIn(h)'
<1>1. CASE h = k
  BY <1>1, JoinPoints DEF NotYetIn, RowsOfUser, RowsOf, tables
<1>2. CASE h # k
  <2>1. pc'[h] = pc[h] /\ req'[h] = req[h]
    BY <1>2, OwnOnly DEF IInv, HandlerStep
  <2> SUFFICES ASSUME pc[h] \in {"countMembers", "insertRow"},
                      NEW r \in DOMAIN groupUser',
                      groupUser'[r].group = req[h].group,
                      groupUser'[r].user = req[h].user
               PROVE  FALSE
    BY <2>1 DEF NotYetIn, RowsOfUser, RowsOf
  <2>2. req[h].op = "join" /\ RowsOfUser(req[h].group, req[h].user) = {}
    BY DEF NotYetIn, InPlace, PointOf
  <2>3. r \notin DOMAIN groupUser
    BY <2>2, RowMoves DEF RowsOfUser, RowsOf
  <2>4. /\ req[k].group = req[h].group /\ req[k].user = req[h].user
        /\ pc[k] = "insertRow" \/ req[k].op = "insert"
    BY <2>3, RowMoves
  <2>5. req[k].op # "insert"
    BY <1>2, <2>4 DEF IInv, InsertsApart
  <2>6. req[k].op = "join"
    BY <2>4, <2>5 DEF InPlace, PointOf
  <2> QED BY <1>2, <2>2, <2>4, <2>6 DEF UsersJoinOnce, Overlap
<1> QED BY <1>1, <1>2

\* Nobody becomes a member twice.
LEMMA OneRowStep ==
  ASSUME IInv, NEW h \in Handlers, HandlerStep(h), NotYetIn(h),
         OneRowPerUser
  PROVE  OneRowPerUser'
<1>1. \A r \in DOMAIN groupUser' \ DOMAIN groupUser, s \in DOMAIN groupUser :
        ~(/\ groupUser'[r].group = groupUser[s].group
          /\ groupUser'[r].user = groupUser[s].user)
  <2> SUFFICES ASSUME NEW r \in DOMAIN groupUser' \ DOMAIN groupUser,
                      NEW s \in DOMAIN groupUser,
                      groupUser'[r].group = groupUser[s].group,
                      groupUser'[r].user = groupUser[s].user
               PROVE  FALSE
    OBVIOUS
  <2>1. /\ groupUser[s].group = req[h].group /\ groupUser[s].user = req[h].user
        /\ pc[h] = "insertRow" \/ req[h].op = "insert"
    BY RowMoves
  <2>2. CASE pc[h] = "insertRow"
    BY <2>1, <2>2 DEF NotYetIn, RowsOfUser, RowsOf
  <2>3. CASE req[h].op = "insert"
    BY <2>1, <2>3 DEF IInv, InsertsApart, MembersHaveGroup
  <2> QED BY <2>1, <2>2, <2>3
<1>2. \A r, s \in DOMAIN groupUser' \ DOMAIN groupUser : r = s
  <2>1. CASE DOMAIN groupUser' \subseteq DOMAIN groupUser
    BY <2>1
  <2>2. CASE InsertRow(h)
    BY <2>2 DEF InsertRow, Put
  <2>3. CASE CommitInsert(h)
    BY <2>3 DEF CommitInsert, Put
  <2>4. UNCHANGED tables \/ CommitUpdate(h) \/ CommitLeave(h) \/ DropGroup(h)
          => DOMAIN groupUser' \subseteq DOMAIN groupUser
    BY DEF CommitUpdate, CommitLeave, DropGroup, tables, AfterLeave
  <2> QED BY <2>1, <2>2, <2>3, <2>4, TableSteps
<1>3. \A r \in DOMAIN groupUser \cap DOMAIN groupUser' :
        /\ groupUser'[r].group = groupUser[r].group
        /\ groupUser'[r].user = groupUser[r].user
  BY RowMoves
<1> QED BY <1>1, <1>2, <1>3 DEF OneRowPerUser

LEMMA FirstRowsNext ==
  ASSUME UsersJoinOnce, IInv, InPlace, FirstRows, [Next]_vars
  PROVE  FirstRows'
<1>1. ASSUME NEW h \in Handlers, HandlerStep(h) PROVE FirstRows'
  <2>1. \A k \in Handlers : NotYetIn(k)'
    BY <1>1, NotYetInStep DEF FirstRows
  <2>2. OneRowPerUser'
    BY <1>1, OneRowStep DEF FirstRows
  <2> QED BY <2>1, <2>2 DEF FirstRows
<1>2. CASE Crash
  BY <1>2, CrashReads DEF Crash, tables, FirstRows, OneRowPerUser
<1>3. CASE UNCHANGED vars
  BY <1>3, StutterReads DEF vars, FirstRows, OneRowPerUser
<1> QED BY <1>1, <1>2, <1>3 DEF Next, HandlerStep

\* The founders of the first group are different users, and the first leads.
LEMMA FoundersApart == Init => OneRowPerUser /\ EveryGroupLed
<1> SUFFICES ASSUME Init PROVE OneRowPerUser /\ EveryGroupLed
  OBVIOUS
<1>1. Len(Founders) \in Nat /\ 1 \in 1..Len(Founders)
  BY FoundersAssumption
<1>2. /\ DOMAIN groupInfo = {1} /\ DOMAIN groupUser = 1..Len(Founders)
      /\ groupUser[1].role = 0
      /\ \A r \in 1..Len(Founders) : /\ groupUser[r].group = 1
                                     /\ groupUser[r].user = Founders[r]
  BY <1>1 DEF Init
<1>3. EveryGroupLed
  BY <1>1, <1>2 DEF EveryGroupLed, RowsOf
<1>4. OneRowPerUser
  BY <1>2, FoundersAssumption DEF OneRowPerUser
<1> QED BY <1>3, <1>4

\* So it is in every reachable state.
LEMMA FirstRowsInvariant == Spec /\ []UsersJoinOnce => []FirstRows
<1>1. Init => FirstRows
  BY InitReads, FoundersApart DEF FirstRows
<1>2. UsersJoinOnce /\ IInv /\ InPlace /\ FirstRows /\ [Next]_vars => FirstRows'
  BY FirstRowsNext
<1> QED BY <1>1, <1>2, Places, PTL DEF Spec

\* If nobody joins a group twice at once, no user is a member twice.
LEMMA NoSecondRow == Spec /\ []UsersJoinOnce => []OneRowPerUser
<1>1. FirstRows => OneRowPerUser
  BY DEF FirstRows
<1> QED BY <1>1, FirstRowsInvariant, PTL

-----------------------------------------------------------------------------
(* Every group is led. *)

\* The rows change only by these operations.
LEMMA RowsBy ==
  ASSUME IInv, NEW h \in Handlers, HandlerStep(h), PointOf(h),
         groupUser' # groupUser
  PROVE  req[h].op \in {"insert", "join", "leave"}
<1>1. InsertRow(h) => req[h].op = "join"
  BY DEF InsertRow, PointOf
<1>2. CommitInsert(h) => req[h].op = "insert"
  BY RowsAfterCommit
<1>3. CommitLeave(h) \/ DropGroup(h) => req[h].op = "leave"
  BY DEF CommitLeave, DropGroup, IInv, LocksHeld, Flushed
<1> QED BY <1>1, <1>2, <1>3, TableSteps DEF tables, CommitUpdate

\* While a leave is in flight the rows of its group stay what they are.
LEMMA LeftAlone ==
  ASSUME IInv, InPlace, LeavesApart, NEW h \in Handlers, HandlerStep(h),
         NEW k \in Handlers \ {h}, req[k].op = "leave", NEW g, g = req[k].group
  PROVE  /\ RowsOf(g)' = RowsOf(g)
         /\ \A r \in RowsOf(g) : groupUser'[r] = groupUser[r]
<1>1. CASE g # req[h].group
  BY <1>1, RowsElsewhere
<1>2. CASE g = req[h].group
  <2>1. req[h].op # "insert"
    BY <1>2 DEF IInv, InsertsApart
  <2>2. req[h].op \notin {"join", "leave"}
    BY <1>2 DEF LeavesApart, JoinsMissLeaves, Overlap
  <2>3. groupUser' = groupUser
    BY <2>1, <2>2, RowsBy DEF InPlace
  <2> QED BY <2>3 DEF RowsOf
<1> QED BY <1>1, <1>2

\* So what it has read is still so.
LEMMA OtherLeave ==
  ASSUME IInv, InPlace, LeavesApart, NEW h \in Handlers, HandlerStep(h),
         NEW k \in Handlers \ {h}, LeaveAsRead(k)
  PROVE  LeaveAsRead(k)'
<1>1. pc'[k] = pc[k] /\ req'[k] = req[k] /\ loc'[k] = loc[k]
  BY OwnOnly DEF IInv, HandlerStep
<1>2. CASE req[k].op # "leave"
  BY <1>1, <1>2 DEF LeaveAsRead
<1>3. CASE req[k].op = "leave"
  <2>1. PICK g, u : g = req[k].group /\ u = req[k].user
    OBVIOUS
  <2>2. RowsOf(g)' = RowsOf(g) /\ \A r \in RowsOf(g) : groupUser'[r] = groupUser[r]
    BY <1>3, <2>1, LeftAlone
  <2>3. /\ RowsOf(req[k].group)' = RowsOf(g)
        /\ Heirs(req[k].group)' = Heirs(g)
        /\ RowsOfUser(req[k].group, req[k].user)' = RowsOfUser(g, u)
    BY <1>1, <2>1, <2>2 DEF RowsOf, Heirs, RowsOfUser
  <2>4. Remaining(k)' = Remaining(k)
    BY <1>1, <2>1, <2>3 DEF Remaining
  <2>5. \A r \in RowsOfUser(g, u) : groupUser'[r] = groupUser[r]
    BY <2>2 DEF RowsOfUser
  <2> QED BY <1>1, <1>3, <2>1, <2>3, <2>4, <2>5 DEF LeaveAsRead, Flushed
<1> QED BY <1>2, <1>3

\* A leave that commits takes its row away and promotes its heir.
LEMMA RowsAfterDeparture ==
  ASSUME IInv, NEW h \in Handlers, CommitLeave(h) \/ DropGroup(h),
         LeaveAsRead(h)
  PROVE  /\ req[h].op = "leave" /\ Flushed(h)
         /\ loc[h].row \in RowsOf(req[h].group)
         /\ groupUser' = AfterLeave(h)
         /\ DOMAIN groupUser' = DOMAIN groupUser \ {loc[h].row}
         /\ \A r \in DOMAIN groupUser' :
              /\ groupUser'[r].group = groupUser[r].group
              /\ groupUser'[r].user = groupUser[r].user
              /\ groupUser'[r].role =
                   IF r = loc[h].heir THEN 0 ELSE groupUser[r].role
         /\ CommitLeave(h) => groupInfo' = groupInfo
         /\ DropGroup(h) => groupInfo' = Without(groupInfo, {req[h].group})
<1>1. TypeOK /\ Flushed(h)
  BY DEF IInv, CommitLeave, DropGroup, Flushed
<1>2. req[h].op = "leave"
  BY <1>1 DEF IInv, LocksHeld
<1>3. loc[h].row \in RowsOf(req[h].group)
  BY <1>1, <1>2 DEF LeaveAsRead, Flushed, RowsOfUser
<1>4. DropGroup(h) => Remaining(h) = {}
  BY <1>2 DEF LeaveAsRead, DropGroup
<1>5. groupUser' = AfterLeave(h)
  BY <1>4 DEF DropGroup, CommitLeave
<1>6. CommitLeave(h) => groupInfo' = groupInfo
  BY DEF CommitLeave
<1>7. DropGroup(h) => groupInfo' = Without(groupInfo, {req[h].group})
  BY <1>4 DEF DropGroup
<1> QED BY <1>1, <1>2, <1>3, <1>5, <1>6, <1>7, RowsAfterLeave

\* The leader of a group with other members has an heir.
LEMMA LeaderHasHeir ==
  ASSUME IInv, NEW h \in Handlers, LeaveAsRead(h), pc[h] = "commitLeave",
         NEW l \in RowsOf(req[h].group), groupUser[l].role = 0
  PROVE  \/ l # loc[h].row
         \/ loc[h].heir \in RowsOf(req[h].group) \ {loc[h].row}
<1>1. ASSUME l = loc[h].row
      PROVE  loc[h].heir \in RowsOf(req[h].group) \ {loc[h].row}
  <2>1. req[h].op = "leave"
    BY DEF IInv, LocksHeld, Flushed
  <2>2. loc[h].role = 0
    BY <1>1, <2>1 DEF LeaveAsRead
  <2>3. PICK r \in RowsOf(req[h].group) : r # loc[h].row
    BY <2>1 DEF LeaveAsRead, Remaining
  <2>4. groupUser[r].role # 0
    BY <1>1, <2>3 DEF IInv, AtMostOneLeader, RowsOf
  <2>5. loc[h].heir \in Heirs(req[h].group)
    BY <2>1, <2>2, <2>3, <2>4 DEF LeaveAsRead, Flushed, Heirs
  <2> QED BY <1>1, <2>5 DEF Heirs
<1> QED BY <1>1

\* Every group keeps a leader.
LEMMA LedStep ==
  ASSUME IInv, NEW h \in Handlers, HandlerStep(h), LeaveAsRead(h),
         EveryGroupLed
  PROVE  EveryGroupLed'
<1>1. TypeOK
  BY DEF IInv
<1>2. CASE UNCHANGED tables
  BY <1>2 DEF tables, EveryGroupLed, RowsOf
<1>3. CASE InsertRow(h)
  <2>1. groupInfo' = groupInfo
    BY <1>3 DEF InsertRow
  <2>2. \A r \in DOMAIN groupUser :
          r \in DOMAIN groupUser' /\ groupUser'[r] = groupUser[r]
    BY <1>1, <1>3, RowsAfterInsert
  <2> QED BY <2>1, <2>2 DEF EveryGroupLed, RowsOf
<1>4. CASE CommitInsert(h)
  <2>1. /\ DOMAIN groupInfo' = DOMAIN groupInfo \cup {req[h].group}
        /\ loc[h].row \in DOMAIN groupUser'
        /\ groupUser'[loc[h].row].group = req[h].group
        /\ groupUser'[loc[h].row].role = 0
        /\ \A r \in DOMAIN groupUser :
             r \in DOMAIN groupUser' /\ groupUser'[r] = groupUser[r]
    BY <1>4, RowsAfterCommit
  <2> QED BY <2>1 DEF EveryGroupLed, RowsOf
<1>5. CASE CommitUpdate(h)
  <2>1. DOMAIN groupInfo' = DOMAIN groupInfo /\ groupUser' = groupUser
    BY <1>5 DEF CommitUpdate, GroupExists, Put
  <2> QED BY <2>1 DEF EveryGroupLed, RowsOf
<1>6. CASE CommitLeave(h) \/ DropGroup(h)
  <2>1. ASSUME NEW g \in DOMAIN groupInfo'
        PROVE  \E r \in RowsOf(g)' : groupUser'[r].role = 0
    <3>5. /\ CommitLeave(h) => groupInfo' = groupInfo
          /\ DropGroup(h) => groupInfo' = Without(groupInfo, {req[h].group})
      BY <1>6, RowsAfterDeparture
    <3>1. /\ g \in DOMAIN groupInfo
          /\ DropGroup(h) => g # req[h].group
      BY <1>6, <3>5 DEF Without, Restrict
    <3>2. PICK l \in RowsOf(g) : groupUser[l].role = 0
      BY <3>1 DEF EveryGroupLed
    <3>3. CASE l # loc[h].row
      BY <1>6, <3>2, <3>3, RowsAfterDeparture DEF RowsOf
    <3>4. CASE l = loc[h].row
      <4>1. g = req[h].group
        BY <1>6, <3>2, <3>4, RowsAfterDeparture DEF RowsOf
      <4>2. pc[h] = "commitLeave"
        BY <1>6, <3>1, <4>1 DEF CommitLeave
      <4>3. loc[h].heir \in RowsOf(g) \ {loc[h].row}
        BY <3>2, <3>4, <4>1, <4>2, LeaderHasHeir
      <4>4. /\ loc[h].heir \in DOMAIN groupUser'
            /\ groupUser'[loc[h].heir].group = g
            /\ groupUser'[loc[h].heir].role = 0
        BY <1>6, <4>3, RowsAfterDeparture DEF RowsOf
      <4> QED BY <4>4 DEF RowsOf
    <3> QED BY <3>3, <3>4
  <2> QED BY <2>1 DEF EveryGroupLed
<1> QED BY <1>2, <1>3, <1>4, <1>5, <1>6, TableSteps

LEMMA LedGroupsNext ==
  ASSUME LeavesApart, IInv, InPlace, LedGroups, [Next]_vars
  PROVE  LedGroups'
<1>1. ASSUME NEW h \in Handlers, HandlerStep(h) PROVE LedGroups'
  <2>1. LeaveAsRead(h)'
    BY <1>1, OwnReads DEF InPlace, LedGroups, KeepsReads
  <2>2. \A k \in Handlers \ {h} : LeaveAsRead(k)'
    BY <1>1, OtherLeave DEF LedGroups
  <2>3. EveryGroupLed'
    BY <1>1, LedStep DEF LedGroups
  <2> QED BY <2>1, <2>2, <2>3 DEF LedGroups
<1>2. CASE Crash
  BY <1>2, CrashReads DEF Crash, tables, LedGroups, EveryGroupLed, RowsOf
<1>3. CASE UNCHANGED vars
  BY <1>3, StutterReads DEF vars, LedGroups, EveryGroupLed, RowsOf
<1> QED BY <1>1, <1>2, <1>3 DEF Next, HandlerStep

\* So it is in every reachable state.
LEMMA LedGroupsInvariant == Spec /\ []LeavesApart => []LedGroups
<1>1. Init => LedGroups
  BY InitReads, FoundersApart DEF LedGroups
<1>2. LeavesApart /\ IInv /\ InPlace /\ LedGroups /\ [Next]_vars => LedGroups'
  BY LedGroupsNext
<1> QED BY <1>1, <1>2, Places, PTL DEF Spec

-----------------------------------------------------------------------------
(* Two facts the rest needs. *)

\* The number of rows of a group is a number.
LEMMA RowsFinite ==
  ASSUME IsFiniteSet(DOMAIN groupUser), NEW g
  PROVE  IsFiniteSet(RowsOf(g)) /\ Cardinality(RowsOf(g)) \in Nat
<1>1. RowsOf(g) \subseteq DOMAIN groupUser
  BY DEF RowsOf
<1> QED BY <1>1, FS_Subset, FS_CardinalityType

\* A request that goes on keeps what it asks for, and nothing is committed.
LEMMA StillAsked ==
  ASSUME TypeOK, NEW h \in Handlers, ~Return(h), Work(h) \/ Fail(h)
  PROVE  req'[h] = req[h] /\ UNCHANGED tables
<1>1. CASE Catch(h)
  BY <1>1 DEF Catch
<1>2. CASE \/ FindMember(h) \/ CountMembers(h) \/ InsertRow(h)
           \/ FindBefore(h) \/ Authorize(h) \/ DeleteDoc(h) \/ UndoDoc(h)
           \/ CommitInsert(h) \/ CommitUpdate(h) \/ ChooseHeir(h)
           \/ PurgeDoc(h) \/ CommitLeave(h) \/ DropGroup(h) \/ RequestFails(h)
  BY <1>2 DEF FindMember, CountMembers, InsertRow, FindBefore,
       Authorize, DeleteDoc, UndoDoc, CommitInsert, CommitUpdate,
       ChooseHeir, PurgeDoc, CommitLeave, DropGroup, RequestFails
<1>3. CASE \/ FindDoc(h) \/ SaveDoc(h) \/ UpdateHeir(h) \/ DeleteRow(h)
           \/ MongoThrows(h)
  BY <1>1, <1>3 DEF FindDoc, SaveDoc, UpdateHeir, DeleteRow, MongoThrows
<1> QED BY <1>2, <1>3 DEF Work, Fail

-----------------------------------------------------------------------------
(* A group is never left without a document, however updates and leaves    *)
(* interleave.                                                             *)

\* Without failures a step is an arrival or a piece of work.
LEMMA CalmStep ==
  ASSUME Calm, [Next]_vars
  PROVE  (\E h \in Handlers : Work(h) \/ Arrive(h)) \/ UNCHANGED vars
BY DEF Calm, Next, Fail, MongoThrows, RequestFails, Crash

\* Rows come to a group only by a join and by the group's own creation.
LEMMA RowsShrink ==
  ASSUME IInv, NEW h \in Handlers, HandlerStep(h), pc[h] # "insertRow",
         NEW g, req[h].op = "insert" => g # req[h].group
  PROVE  RowsOf(g)' \subseteq RowsOf(g)
<1>1. CASE groupUser' = groupUser
  BY <1>1 DEF RowsOf
<1>2. CASE CommitInsert(h)
  BY <1>2, RowsAfterCommit DEF RowsOf
<1>3. CASE Leaves(h)
  BY <1>3, RowsAfterLeave DEF RowsOf, Leaves, IInv
<1>4. ~InsertRow(h)
  BY DEF InsertRow
<1> QED BY <1>1, <1>2, <1>3, <1>4, StepKinds
        DEF Arrives, Ends, Continues, Finds, Chooses, Locks, LocksHeir,
            LocksRow, Keeps, tables,
            CommitUpdate

\* A handler keeps its own part of the invariant.
LEMMA OwnMendsStep ==
  ASSUME IInv, NEW h \in Handlers, PointOf(h), MendsInOrder(h),
         Work(h) \/ Arrive(h)
  PROVE  MendsInOrder(h)'
<1>1. TypeOK /\ pc[h] \in Steps
  BY DEF IInv, TypeOK
<1>2. ASSUME Return(h) PROVE MendsInOrder(h)'
  BY <1>1, <1>2, SetReturn DEF MendsInOrder
<1>3. ASSUME Catch(h), pc[h] # "idle",
             pc[h] = "saveDoc" \/ pc[h] = "findDoc" \/ req[h].op = "leave"
      PROVE  MendsInOrder(h)'
  BY <1>1, <1>3, SetCatch DEF MendsInOrder
<1>4. CASE Arrive(h)
  <2>1. \/ pc'[h] \in {"findBefore", "findMember"}
        \/ pc'[h] = "findDoc" /\ req'[h].op = "insert"
    BY <1>1, <1>4 DEF Arrive, InsertGroup, JoinGroup, UpdateGroup, LeaveGroup,
                      Request, Goto, TypeOK
  <2> QED BY <2>1 DEF MendsInOrder
<1>5. CASE FindMember(h)
  <2>1. CASE Return(h)
    BY <1>2, <2>1
  <2>2. CASE Goto(h, "countMembers") \/ Goto(h, "findBefore")
    BY <1>1, <2>2, OwnGoto DEF MendsInOrder
  <2> QED BY <1>5, <2>1, <2>2 DEF FindMember
<1>6. CASE FindBefore(h)
  <2>1. req[h].op \in {"update", "leave"} /\ NoId \notin DocIds
    BY <1>6, IdsAssumption DEF FindBefore, IInv, LocalsInOrder, LocalsOf
  <2>2. \A d \in DocsOf(req[h].group) : d # NoId
    BY <1>1, <2>1 DEF DocsOf, TypeOK, Table
  <2>3. CASE Return(h)
    BY <1>2, <2>3
  <2>4. CASE Goto(h, IF req[h].op = "update" THEN "authorize"
                   ELSE IF loc[h].role = 0 THEN "chooseHeir" ELSE "deleteRow")
             /\ req' = req
    <3>1. pc'[h] = IF req[h].op = "update" THEN "authorize"
                   ELSE IF loc[h].role = 0 THEN "chooseHeir" ELSE "deleteRow"
      BY <1>1, <2>4, OwnGoto
    <3>2. req[h].op = "update" =>
            \E d \in DocsOf(req[h].group) : loc' = [loc EXCEPT ![h].before = d]
      BY <1>6, <2>4, <3>1, <1>2, SetReturn, <1>1 DEF FindBefore
    <3>3. req[h].op = "update" => loc'[h].before # NoId
      BY <1>1, <2>2, <3>2, SetLocal
    <3> QED BY <2>1, <2>4, <3>1, <3>3 DEF MendsInOrder
  <2> QED BY <1>6, <2>3, <2>4 DEF FindBefore, HandsOver
<1>7. CASE Authorize(h)
  <2>1. CASE Return(h)
    BY <1>2, <2>1
  <2>2. CASE /\ loc' = [loc EXCEPT ![h].doc = NewDoc]
             /\ Goto(h, "findDoc") /\ req' = req
    <3>1. PICK n : n = NewDoc
      OBVIOUS
    <3>2. loc'[h].before = loc[h].before
      BY <1>1, <2>2, <3>1, SetLocal
    <3>3. pc'[h] = "findDoc"
      BY <1>1, <2>2, OwnGoto
    <3> QED BY <1>7, <2>2, <3>2, <3>3 DEF Authorize, MendsInOrder
  <2> QED BY <1>7, <2>1, <2>2 DEF Authorize
<1>8. CASE FindDoc(h)
  <2>1. CASE Return(h) \/ Catch(h)
    BY <1>2, <1>3, <1>8, <2>1 DEF FindDoc
  <2>2. ASSUME req' = req, Goto(h, "saveDoc") \/ Goto(h, "deleteDoc"),
               \/ loc' = loc
               \/ \E d \in DocsOf(req[h].group) : loc' = [loc EXCEPT ![h].found = d]
        PROVE  MendsInOrder(h)'
    <3>1. loc'[h].before = loc[h].before /\ loc'[h].catching = loc[h].catching
      BY <1>1, <2>2, SetLocal
    <3>2. pc'[h] \in {"saveDoc", "deleteDoc"}
      BY <1>1, <2>2, OwnGoto
    <3> QED BY <1>8, <2>2, <3>1, <3>2 DEF FindDoc, MendsInOrder
  <2> QED BY <1>8, <2>1, <2>2 DEF FindDoc
<1>9. CASE SaveDoc(h)
  <2>1. CASE Return(h) \/ Catch(h)
    BY <1>2, <1>3, <1>9, <2>1 DEF SaveDoc
  <2>2. CASE req' = req /\ (Goto(h, "commitInsert") \/ Goto(h, "commitUpdate"))
    BY <1>1, <1>9, <2>2, OwnGoto DEF MendsInOrder, SaveDoc
  <2> QED BY <1>9, <2>1, <2>2 DEF SaveDoc
<1>10. CASE DeleteDoc(h)
  BY <1>1, <1>10, OwnGoto DEF DeleteDoc, MendsInOrder
<1>11. CASE ChooseHeir(h)
  BY <1>1, <1>11, OwnGoto DEF ChooseHeir, MendsInOrder
<1>12. CASE DeleteRow(h) /\ ~Catch(h)
  <2>1. PICK S : loc' = [loc EXCEPT ![h].locks = S]
    BY <1>12 DEF DeleteRow
  <2>2. Remaining(h)' = Remaining(h)
    BY <1>1, <1>12, <2>1, SetLocal DEF DeleteRow, Remaining, RowsOf, tables
  <2>3. pc'[h] = IF Remaining(h) = {} THEN "purgeDoc" ELSE "commitLeave"
    BY <1>1, <1>12, OwnGoto DEF DeleteRow
  <2> QED BY <1>12, <2>2, <2>3 DEF DeleteRow, MendsInOrder
<1>13. CASE UpdateHeir(h) \/ (DeleteRow(h) /\ Catch(h))
  <2>1. req[h].op = "leave" /\ pc[h] # "idle"
    BY <1>13 DEF UpdateHeir, DeleteRow, IInv, LocalsInOrder, LocalsOf
  <2>2. CASE Goto(h, "deleteRow")
    BY <1>1, <2>2, OwnGoto DEF MendsInOrder
  <2> QED BY <1>3, <1>13, <2>1, <2>2 DEF UpdateHeir
<1>14. CASE PurgeDoc(h)
  <2>1. Remaining(h)' = Remaining(h)
    BY <1>14 DEF PurgeDoc, Remaining, RowsOf, tables
  <2>2. pc'[h] = "dropGroup"
    BY <1>1, <1>14, OwnGoto DEF PurgeDoc
  <2> QED BY <1>14, <2>1, <2>2 DEF PurgeDoc, MendsInOrder
<1>15. CASE \/ InsertRow(h) \/ CommitInsert(h) \/ CommitUpdate(h)
            \/ CommitLeave(h) \/ DropGroup(h) \/ UndoDoc(h)
  BY <1>2, <1>15 DEF InsertRow, CommitInsert, CommitUpdate, CommitLeave,
                     DropGroup, UndoDoc
<1>16. CASE CountMembers(h)
  <2>1. CASE Return(h)
    BY <1>2, <2>1
  <2>2. CASE Goto(h, "insertRow")
    BY <1>1, <2>2, OwnGoto DEF MendsInOrder
  <2> QED BY <1>16, <2>1, <2>2 DEF CountMembers
<1> QED BY <1>4, <1>5, <1>6, <1>7, <1>8, <1>9, <1>10, <1>11, <1>12, <1>13,
           <1>14, <1>15, <1>16 DEF Work

\* The steps of the others leave it alone: nobody joins a group whose last
\* member leaves.
LEMMA OtherMendsStep ==
  ASSUME JoinsMissLeaves, IInv, InPlace, NEW h \in Handlers, HandlerStep(h),
         NEW k \in Handlers \ {h}, MendsInOrder(k)
  PROVE  MendsInOrder(k)'
<1>1. pc'[k] = pc[k] /\ req'[k] = req[k] /\ loc'[k] = loc[k]
  BY OwnOnly DEF IInv, HandlerStep
<1>2. ASSUME pc[k] \in {"purgeDoc", "dropGroup"} PROVE Remaining(k)' = {}
  <2>1. req[h].op = "insert" => req[k].group # req[h].group
    BY DEF IInv, InsertsApart
  <2>2. PICK g : g = req[k].group
    OBVIOUS
  <2>5. req[k].op = "leave"
    BY <1>2 DEF IInv, LocksHeld, Flushed
  <2>6. pc[h] = "insertRow" => req[h].group # g
    BY <2>2, <2>5 DEF JoinsMissLeaves, Overlap, InPlace, PointOf
  <2>3. RowsOf(g)' \subseteq RowsOf(g)
    BY <2>1, <2>2, <2>6, RowsShrink, RowsElsewhere
  <2>4. Remaining(k)' = RowsOf(g)' \ {loc[k].row}
    BY <1>1, <2>2 DEF Remaining, RowsOf
  <2> QED BY <1>2, <2>2, <2>3, <2>4 DEF MendsInOrder, Remaining
<1> QED BY <1>1, <1>2 DEF MendsInOrder

\* Whoever takes the last document of a group away is about to mend it.
LEMMA EmptiedMends ==
  ASSUME IInv, InPlace, Mended, NEW h \in Handlers, Work(h),
         NEW g \in DOMAIN groupInfo, DocsOf(g) # {}, DocsOf(g)' = {}
  PROVE  Mends(h, g)'
<1>1. TypeOK /\ MendsInOrder(h)
  BY DEF IInv, Mended
<1>2. /\ pc[h] \in {"deleteDoc", "saveDoc", "purgeDoc", "undoDoc"}
      /\ groupGame' = Written(h)
  BY <1>1, DocWrites DEF HandlerStep, DocsOf
<1>3. req[h].group = g
  <2>1. ASSUME req[h].group # g PROVE FALSE
    <3>1. \A d \in Held(h) : d \notin DocsOf(g)
      BY <2>1 DEF IInv, DocsApart, DocsOf
    <3>2. NoId \notin DocsOf(g)
      BY <1>1, IdsAssumption DEF TypeOK, Table, DocsOf
    <3>3. DocsOf(g)' = DocsOf(g)
      BY <1>2, <2>1, <3>1, <3>2, WriterHolds, WrittenElsewhere
    <3> QED BY <3>3
  <2> QED BY <2>1
<1>4. pc[h] # "undoDoc"
  BY <1>3 DEF InPlace, PointOf, IInv, InsertsApart
<1>5. pc[h] # "saveDoc"
  BY <1>2, <1>3 DEF Written, Put, DocsOf
<1>6. CASE pc[h] = "deleteDoc"
  <2>1. pc'[h] = "saveDoc" /\ req' = req
    BY <1>1, <1>6, AtPoint, OwnGoto DEF DeleteDoc
  <2> QED BY <1>3, <2>1 DEF Mends
<1>7. CASE pc[h] = "purgeDoc"
  <2>1. pc'[h] = "dropGroup" /\ req' = req
    BY <1>1, <1>7, AtPoint, OwnGoto DEF PurgeDoc
  <2> QED BY <1>3, <2>1 DEF Mends
<1> QED BY <1>2, <1>4, <1>5, <1>6, <1>7

\* Who mends a group goes on with it until there is a document, or no group.
LEMMA MenderGoesOn ==
  ASSUME IInv, InPlace, Mended, NEW h \in Handlers, Work(h),
         NEW g \in DOMAIN groupInfo, g \in DOMAIN groupInfo',
         DocsOf(g) = {}, DocsOf(g)' = {}, Mends(h, g)
  PROVE  Mends(h, g)'
<1>1. TypeOK /\ MendsInOrder(h) /\ req[h].group = g /\ NoId \notin DocIds
  BY IdsAssumption DEF IInv, Mended, Mends
<1>2. req[h].op # "insert"
  BY <1>1 DEF IInv, InsertsApart
<1>3. CASE pc[h] = "saveDoc"
  <2>1. SaveDoc(h)
    BY <1>3, AtPoint
  <2>2. groupGame' # Written(h)
    BY <1>1, <1>3 DEF Written, Put, DocsOf
  <2>3. NotADoc(h) /\ Catch(h)
    BY <2>1, <2>2 DEF SaveDoc
  <2>4. req[h].op = "update" /\ loc[h].before # NoId
    BY <1>1, <1>2, <1>3, <2>3 DEF NotADoc, MendsInOrder, InPlace, PointOf
  <2>5. /\ pc'[h] = "findDoc" /\ loc'[h].catching /\ req'[h] = req[h]
        /\ loc'[h].before = loc[h].before
    BY <1>1, <1>2, <2>3, SetCatch
  <2> QED BY <1>1, <2>4, <2>5 DEF Mends
<1>4. CASE pc[h] = "findDoc" /\ loc[h].catching /\ loc[h].before # NoId
  <2>1. FindDoc(h) /\ ~Restored(h)
    BY <1>4, AtPoint DEF Restored
  <2>2. ~(Cardinality(DocsOf(req[h].group)) > 1)
    BY <1>1, FS_EmptySet
  <2>3. Goto(h, "saveDoc") /\ req' = req
    BY <1>1, <2>1, <2>2 DEF FindDoc
  <2>4. pc'[h] = "saveDoc"
    BY <1>1, <2>3, OwnGoto
  <2> QED BY <1>1, <2>3, <2>4 DEF Mends
<1>5. CASE pc[h] = "dropGroup"
  <2>1. DropGroup(h) /\ Remaining(h) = {}
    BY <1>1, <1>5, AtPoint DEF MendsInOrder
  <2>2. groupInfo' = Without(groupInfo, {g})
    BY <1>1, <2>1 DEF DropGroup
  <2>3. g \notin DOMAIN groupInfo'
    BY <2>2 DEF Without, Restrict
  <2> QED BY <2>3
<1> QED BY <1>3, <1>4, <1>5 DEF Mends

\* Mended is inductive next to IInv.
LEMMA MendedNext ==
  ASSUME Calm, JoinsMissLeaves, IInv, InPlace, Mended, [Next]_vars
  PROVE  Mended'
<1>1. ASSUME NEW h \in Handlers, Work(h) \/ Arrive(h) PROVE Mended'
  <2>1. HandlerStep(h) /\ TypeOK
    BY <1>1 DEF HandlerStep, IInv
  <2>2. ASSUME NEW k \in Handlers PROVE MendsInOrder(k)'
    <3>1. MendsInOrder(k) /\ MendsInOrder(h) /\ PointOf(h)
      BY DEF Mended, InPlace
    <3> QED BY <1>1, <2>1, <3>1, OwnMendsStep, OtherMendsStep
  <2>3. ASSUME NEW g \in DOMAIN groupInfo', DocsOf(g)' = {}
        PROVE  \E k \in Handlers : Mends(k, g)'
    <3>1. CASE g \notin DOMAIN groupInfo
      <4>1. CommitInsert(h)
        BY <1>1, <2>1, <2>3, <3>1, StepKinds
           DEF Arrives, Ends, Continues, Finds, Chooses, Locks, LocksHeir,
            LocksRow, Keeps, tables,
               InsertRow, CommitUpdate, Leaves, Put, GroupExists, Without,
               Restrict
      <4>2. g = req[h].group /\ DocsOf(req[h].group) = {loc[h].doc}
        BY <2>3, <3>1, <4>1, RowsAfterCommit DEF CommitInsert, IInv, InsertsUnseen
      <4>3. DocsOf(g)' = DocsOf(g)
        BY <4>1 DEF CommitInsert, DocsOf
      <4> QED BY <2>3, <4>2, <4>3
    <3>2. CASE g \in DOMAIN groupInfo /\ DocsOf(g) # {}
      <4>1. CASE Work(h)
        BY <2>3, <3>2, <4>1, EmptiedMends
      <4>2. CASE Arrive(h)
        BY <2>3, <3>2, <4>2 DEF Arrive, InsertGroup, JoinGroup, UpdateGroup,
                                LeaveGroup, DocsOf
      <4> QED BY <1>1, <4>1, <4>2
    <3>3. CASE g \in DOMAIN groupInfo /\ DocsOf(g) = {}
      <4>1. PICK k \in Handlers : Mends(k, g)
        BY <3>3 DEF Mended
      <4>2. CASE k # h
        <5>1. pc'[k] = pc[k] /\ req'[k] = req[k] /\ loc'[k] = loc[k]
          BY <2>1, <4>2, OwnOnly DEF HandlerStep
        <5> QED BY <4>1, <5>1 DEF Mends
      <4>3. CASE k = h
        <5>1. pc[h] # "idle"
          BY <4>1, <4>3 DEF Mends
        <5>2. Work(h)
          BY <1>1, <5>1 DEF Arrive, InsertGroup, JoinGroup, UpdateGroup,
                            LeaveGroup, Request
        <5> QED BY <2>3, <3>3, <4>1, <4>3, <5>2, MenderGoesOn
      <4> QED BY <4>2, <4>3
    <3> QED BY <3>1, <3>2, <3>3
  <2>4. \A g \in DOMAIN groupInfo' :
          DocsOf(g)' # {} \/ \E k \in Handlers : Mends(k, g)'
    BY <2>3
  <2> QED BY <2>2, <2>4 DEF Mended
<1>2. CASE UNCHANGED vars
  <2>1. UNCHANGED <<groupInfo, groupUser, groupGame, pc, req, loc>>
    BY <1>2 DEF vars
  <2>2. \A h \in Handlers : MendsInOrder(h)'
    BY <2>1 DEF Mended, MendsInOrder, Remaining, RowsOf
  <2>3. \A g \in DOMAIN groupInfo' :
          DocsOf(g)' # {} \/ \E h \in Handlers : Mends(h, g)'
    BY <2>1 DEF Mended, DocsOf, Mends
  <2> QED BY <2>2, <2>3 DEF Mended
<1> QED BY <1>1, <1>2, CalmStep

\* At first nothing is to be mended.
LEMMA MendedInit == Init => Mended
<1> SUFFICES ASSUME Init PROVE Mended
  OBVIOUS
<1>1. DOMAIN groupInfo = {1} /\ DocsOf(1) = {1}
  BY DEF Init, DocsOf
<1>2. NoReq.op = "none"
  BY DEF NoReq
<1> QED BY <1>1, <1>2 DEF Init, Mended, MendsInOrder

\* However many updates, leaves and joins are in flight, a group that nobody
\* joins while somebody leaves it is never left without a document when calls
\* do not fail.
THEOREM DocsMended ==
  ASSUME Calm PROVE Spec /\ []JoinsMissLeaves => []NeverWithoutDoc
<1>1. JoinsMissLeaves /\ IInv /\ InPlace /\ Mended /\ [Next]_vars => Mended'
  BY MendedNext
<1>2. Mended => NeverWithoutDoc
  BY DEF Mended, Mends, NeverWithoutDoc, Idle
<1> QED BY <1>1, <1>2, MendedInit, Places, PTL DEF Spec

-----------------------------------------------------------------------------
(* The two stores agree.                                                   *)

\* Types the documents' proofs need.
LEMMA DocFacts ==
  ASSUME TypeOK
  PROVE  /\ NoId \notin DocIds /\ NoId \notin GroupIds
         /\ DOMAIN groupInfo \subseteq GroupIds
         /\ \A g \in DOMAIN groupInfo : groupInfo[g].rev \in DocIds
         /\ \A g : DocsOf(g) \subseteq DocIds
         /\ \A g : DocsOf(g) # {} => g \in GroupIds
BY IdsAssumption DEF TypeOK, Table, GroupRow, DocsOf

\* None of the sets that the program points name holds two documents.
LEMMA NotTwo ==
  /\ ~(Cardinality({}) > 1)
  /\ \A d : ~(Cardinality({d}) > 1)
<1>1. Cardinality({}) = 0
  BY FS_EmptySet
<1>2. \A d : Cardinality({d}) = 1
  BY FS_Singleton
<1> QED BY <1>1, <1>2

\* What a write leaves of the documents of the request's own group.
LEMMA WrittenOwn ==
  ASSUME NEW h \in Handlers, groupGame' = Written(h),
         NEW g, g = req[h].group
  PROVE  /\ pc[h] = "deleteDoc" /\ DocsOf(g) = {loc[h].found} => DocsOf(g)' = {}
         /\ pc[h] = "saveDoc" /\ DocsOf(g) = {} => DocsOf(g)' = {loc[h].doc}
         /\ pc[h] \in {"purgeDoc", "undoDoc"} => DocsOf(g)' = {}
<1>1. ASSUME pc[h] = "deleteDoc", DocsOf(g) = {loc[h].found}
      PROVE  DocsOf(g)' = {}
  BY <1>1 DEF Written, Without, Restrict, DocsOf
<1>2. ASSUME pc[h] = "saveDoc", DocsOf(g) = {} PROVE DocsOf(g)' = {loc[h].doc}
  BY <1>2 DEF Written, Put, DocsOf
<1>3. ASSUME pc[h] \in {"purgeDoc", "undoDoc"} PROVE DocsOf(g)' = {}
  BY <1>3 DEF Written, Without, Restrict, DocsOf
<1> QED BY <1>1, <1>2, <1>3

\* The documents of the other groups stay as they are.
LEMMA DocsElsewhere ==
  ASSUME IInv, NEW h \in Handlers, HandlerStep(h), NEW g, g # req[h].group
  PROVE  DocsOf(g)' = DocsOf(g)
<1>1. TypeOK
  BY DEF IInv
<1>2. CASE groupGame' = groupGame
  BY <1>2 DEF DocsOf
<1>3. CASE /\ pc[h] \in {"deleteDoc", "saveDoc", "purgeDoc", "undoDoc"}
           /\ groupGame' = Written(h)
  <2>1. \A d \in Held(h) : d \notin DocsOf(g)
    BY DEF IInv, DocsApart, DocsOf
  <2>2. NoId \notin DocsOf(g)
    BY <1>1, DocFacts
  <2> QED BY <1>3, <2>1, <2>2, WriterHolds, WrittenElsewhere
<1> QED BY <1>1, <1>2, <1>3, DocWrites

\* So they keep agreeing with the revisions.
LEMMA OtherGroups ==
  ASSUME IInv, NEW h \in Handlers, HandlerStep(h), NEW g \in GroupIds,
         g # req[h].group, Agrees(g)
  PROVE  Agrees(g)'
BY DocsElsewhere, RowsElsewhere DEF Agrees

\* A join changes neither a group nor a document.
LEMMA JoinsElsewhere ==
  ASSUME IInv, NEW h \in Handlers, HandlerStep(h), PointOf(h),
         req[h].op = "join"
  PROVE  groupInfo' = groupInfo /\ groupGame' = groupGame
<1>1. TypeOK /\ pc[h] \in {"findMember", "countMembers", "insertRow"}
  BY DEF IInv, PointOf
<1>2. groupGame' = groupGame
  BY <1>1, DocWrites
<1>3. ~CommitInsert(h) /\ ~CommitUpdate(h) /\ ~CommitLeave(h) /\ ~DropGroup(h)
  BY <1>1 DEF CommitInsert, CommitUpdate, CommitLeave, DropGroup
<1> QED BY <1>2, <1>3, TableSteps DEF InsertRow, tables

\* Only joins overlap an update or a leave.
LEMMA OnlyJoinsOverlap ==
  ASSUME IInv, InPlace, LeavesApart, UpdatesApart, NEW h \in Handlers,
         NEW k \in Handlers \ {h}, Changes(k), req[h].group = req[k].group
  PROVE  req[h].op = "join"
<1>1. req[k].group \in GroupIds /\ req[h].op # "insert"
  <2>1. pc[k] # "idle"
    BY DEF IInv, LocalsInOrder, LocalsOf, Changes, NoReq
  <2> QED BY <2>1 DEF IInv, LocalsInOrder, LocalsOf, InsertsApart
<1>2. req[h].op \notin {"update", "leave"}
  BY DEF Changes, LeavesApart, UpdatesApart, Overlap
<1>3. pc[h] # "idle"
  BY <1>1, IdsAssumption DEF IInv, LocalsInOrder, LocalsOf, NoReq
<1> QED BY <1>1, <1>2, <1>3 DEF InPlace, PointOf

\* What the other requests know of the documents stays so.
LEMMA OtherDocsAsRead ==
  ASSUME IInv, InPlace, LeavesApart, UpdatesApart, NEW h \in Handlers,
         HandlerStep(h), NEW k \in Handlers \ {h}, DocsAsRead(k)
  PROVE  DocsAsRead(k)'
<1>1. pc'[k] = pc[k] /\ req'[k] = req[k] /\ loc'[k] = loc[k]
  BY OwnOnly DEF HandlerStep, IInv
<1>2. CASE ~Changes(k)
  BY <1>1, <1>2 DEF Changes, DocsAsRead
<1>3. CASE Changes(k)
  <2>1. PICK g : g = req[k].group
    OBVIOUS
  <2>2. DocsOf(g)' = DocsOf(g) /\ groupInfo'[g] = groupInfo[g]
        /\ g \in DOMAIN groupInfo'
    <3>1. g \in DOMAIN groupInfo
      BY <1>3, <2>1 DEF DocsAsRead
    <3>2. CASE g # req[h].group
      BY <3>1, <3>2, DocsElsewhere, RowsElsewhere
    <3>3. CASE g = req[h].group
      <4>1. req[h].op = "join" /\ PointOf(h)
        BY <1>3, <2>1, <3>3, OnlyJoinsOverlap DEF InPlace
      <4> QED BY <3>1, <4>1, JoinsElsewhere DEF DocsOf
    <3> QED BY <3>2, <3>3
  <2>3. DocsOf(req[k].group)' = DocsOf(g)
    BY <1>1, <2>1, <2>2 DEF DocsOf
  <2> QED BY <1>1, <1>3, <2>1, <2>2, <2>3 DEF DocsAsRead, Changes
<1> QED BY <1>2, <1>3

\* The group of a request that returns has its document again, or is gone with
\* it.
LEMMA ReturnAgrees ==
  ASSUME CommitsSucceed, IInv, NEW h \in Handlers, HandlerStep(h),
         PointOf(h), LeaveAsRead(h), DocsAsRead(h), Return(h),
         NEW g \in GroupIds, g = req[h].group, req[h].op # "join"
  PROVE  Agrees(g)'
<1>1. TypeOK /\ (Flushed(h) => req[h].op = "leave")
      /\ (pc[h] # "idle" => req[h].op = "insert" \/ Changes(h))
  BY DEF IInv, LocksHeld, PointOf, Changes
<1>2. ~Catch(h)
  BY <1>1, SetCatch, SetReturn
<1>3. ASSUME pc[h] \in {"findMember", "countMembers", "insertRow", "findBefore",
                        "authorize", "commitLeave"},
             UNCHANGED <<groupInfo, groupGame>>
      PROVE  Agrees(g)'
  <2>1. Changes(h) /\ g \in DOMAIN groupInfo
        /\ pc[h] \in {"findMember", "findBefore", "authorize", "commitLeave"}
    BY <1>1, <1>3 DEF PointOf, IInv, InsertsUnseen, DocsAsRead
  <2>2. DocsOf(g) = {groupInfo[g].rev}
    BY <2>1 DEF DocsAsRead
  <2> QED BY <1>3, <2>1, <2>2 DEF Agrees, DocsOf
<1>4. CASE FindMember(h) \/ CountMembers(h) \/ InsertRow(h) \/ FindBefore(h)
           \/ Authorize(h) \/ CommitLeave(h)
  BY <1>3, <1>4 DEF FindMember, CountMembers, InsertRow, FindBefore, Authorize,
                    CommitLeave, tables
<1>5. CASE FindDoc(h)
  <2>1. pc[h] = "findDoc"
    BY <1>5 DEF FindDoc
  <2>2. ~Goto(h, "saveDoc") /\ ~Goto(h, "deleteDoc") /\ ~Catch(h)
    BY <1>1, <1>2, SetReturn, OwnGoto
  <2>3. Restored(h) \/ (loc[h].catching /\ Cardinality(DocsOf(g)) > 1)
    BY <1>5, <2>2 DEF FindDoc
  <2>4. Changes(h) /\ g \in DOMAIN groupInfo
    BY <1>1, <2>1, <2>3 DEF Restored, IInv, InsertsUnseen, DocsAsRead
  <2>5. loc[h].before = groupInfo[g].rev
    BY <2>1, <2>4 DEF DocsAsRead
  <2>6. ~Restored(h)
    BY <1>1, <2>4, <2>5, DocFacts DEF Restored
  <2>7. DocsOf(g) = {} \/ \E d : DocsOf(g) = {d}
    BY <2>1, <2>3, <2>4, <2>6 DEF DocsAsRead
  <2> QED BY <2>3, <2>6, <2>7, NotTwo
<1>6. CASE SaveDoc(h)
  <2>1. ~Catch(h) /\ ~Goto(h, "commitInsert") /\ ~Goto(h, "commitUpdate")
    BY <1>1, <1>2, SetReturn, OwnGoto
  <2>2. /\ groupGame' = Written(h) /\ UNCHANGED tables /\ loc[h].catching
        /\ pc[h] = "saveDoc"
    BY <1>6, <2>1 DEF SaveDoc
  <2>3. Changes(h) /\ g \in DOMAIN groupInfo
    BY <1>1, <2>2 DEF IInv, InsertsUnseen, DocsAsRead
  <2>4. DocsOf(g) = {} /\ loc[h].doc = groupInfo[g].rev
    BY <2>2, <2>3 DEF DocsAsRead
  <2>5. DocsOf(g)' = {groupInfo[g].rev}
    BY <2>2, <2>4, WrittenOwn
  <2> QED BY <2>2, <2>3, <2>5 DEF Agrees, tables
<1>7. CASE UndoDoc(h)
  <2>1. pc[h] = "undoDoc" /\ groupGame' = Written(h) /\ groupInfo' = groupInfo
    BY <1>7 DEF UndoDoc, tables
  <2>2. g \notin DOMAIN groupInfo
    BY <2>1 DEF PointOf, IInv, InsertsApart
  <2>3. DocsOf(g)' = {}
    BY <2>1, WrittenOwn
  <2> QED BY <2>1, <2>2, <2>3 DEF Agrees
<1>8. CASE CommitInsert(h)
  <2>1. DocsOf(g) = {loc[h].doc}
    BY <1>8, RowsAfterCommit DEF CommitInsert, IInv, InsertsUnseen
  <2>2. /\ groupGame' = groupGame /\ g \in DOMAIN groupInfo'
        /\ groupInfo'[g].rev = loc[h].doc
    BY <1>8 DEF CommitInsert, Put
  <2> QED BY <2>1, <2>2 DEF Agrees, DocsOf
<1>9. CASE CommitUpdate(h)
  <2>1. GroupExists(h) /\ req[h].body # "badRow" /\ DocsOf(g) = {loc[h].doc}
    BY <1>9 DEF CommitUpdate, PointOf, Changes, DocsAsRead, GroupExists
  <2>2. /\ groupGame' = groupGame /\ g \in DOMAIN groupInfo'
        /\ groupInfo'[g].rev = loc[h].doc
    BY <1>9, <2>1 DEF CommitUpdate, Put
  <2> QED BY <2>1, <2>2 DEF Agrees, DocsOf
<1>10. CASE DropGroup(h)
  <2>1. DocsOf(g) = {} /\ groupGame' = groupGame
    BY <1>1, <1>10 DEF DropGroup, Flushed, Changes, DocsAsRead
  <2>2. groupInfo' = Without(groupInfo, {g})
    BY <1>10, RowsAfterDeparture
  <2>3. g \notin DOMAIN groupInfo'
    BY <2>2 DEF Without, Restrict
  <2> QED BY <2>1, <2>3 DEF Agrees, DocsOf
<1>11. CASE Arrive(h) \/ DeleteDoc(h) \/ ChooseHeir(h) \/ PurgeDoc(h)
  <2>1. pc'[h] # "idle"
    BY <1>1, <1>11, OwnGoto DEF Arrive, InsertGroup, JoinGroup, UpdateGroup,
       LeaveGroup, DeleteDoc, ChooseHeir, PurgeDoc
  <2> QED BY <1>1, <2>1, SetReturn
<1>12. CASE UpdateHeir(h) \/ DeleteRow(h)
  <2>1. pc'[h] # "idle"
    BY <1>1, <1>2, <1>12, OwnGoto DEF UpdateHeir, DeleteRow
  <2> QED BY <1>1, <2>1, SetReturn
<1>13. CASE MongoThrows(h) \/ RequestFails(h)
  BY <1>2, <1>13 DEF MongoThrows, RequestFails, CommitsSucceed
<1> QED BY <1>4, <1>5, <1>6, <1>7, <1>8, <1>9, <1>10, <1>11, <1>12, <1>13
        DEF HandlerStep, Work, Fail

\* An update or a leave begins when its group agrees with its document.
LEMMA ChangeArrives ==
  ASSUME CommitsSucceed, IInv, InPlace, DocsInStep, LeavesApart', UpdatesApart',
         NEW h \in Handlers, Arrive(h)
  PROVE  DocsAsRead(h)'
<1>1. TypeOK /\ LocalsOf(h) /\ HandlerStep(h)
  BY DEF IInv, LocalsInOrder, HandlerStep
<1>2. CASE InsertGroup(h) \/ JoinGroup(h)
  <2>1. req'[h].op \in {"insert", "join"}
    BY <1>1, <1>2 DEF InsertGroup, JoinGroup, Request, TypeOK
  <2> QED BY <2>1 DEF DocsAsRead, Changes
<1>3. CASE UpdateGroup(h) \/ LeaveGroup(h)
  <2>1. /\ \/ pc'[h] = "findBefore" /\ req'[h].op = "update"
           \/ pc'[h] = "findMember" /\ req'[h].op = "leave"
        /\ req'[h].group \in DOMAIN groupInfo /\ groupInfo' = groupInfo
        /\ groupGame' = groupGame /\ req'[h].body \in Bodies
        /\ pc[h] = "idle" /\ loc' = loc
    BY <1>1, <1>3, RequestsAssumption DEF UpdateGroup, LeaveGroup,
       Request, Goto, TypeOK, tables
  <2>2. loc'[h].catching = FALSE
    BY <1>1, <2>1 DEF LocalsOf, NoLoc
  <2>3. req[h].group = NoId
    BY <1>1, <2>1 DEF LocalsOf, NoReq
  <2>4. PICK x : x = req'[h].group
    OBVIOUS
  <2>5. x \in GroupIds /\ x # NoId
    BY <1>1, <2>1, <2>4, DocFacts
  <2>6. DocsOf(x) = {groupInfo[x].rev}
    <3>1. ASSUME NEW k \in Handlers, req[k].group = x, req[k].op # "join"
          PROVE  FALSE
      <4>1. k # h /\ req'[k] = req[k]
        BY <1>1, <2>3, <2>5, <3>1, OwnOnly
      <4>2. pc[k] # "idle" /\ req[k].op # "insert"
        BY <2>1, <2>4, <2>5, <3>1
           DEF IInv, LocalsInOrder, LocalsOf, NoReq, InsertsApart
      <4>3. req[k].op \in {"update", "leave"}
        BY <3>1, <4>2 DEF InPlace, PointOf
      <4> QED BY <2>1, <2>4, <3>1, <4>1, <4>3
              DEF LeavesApart, UpdatesApart, Overlap
    <3>2. Agrees(x)
      BY <2>5, <3>1 DEF DocsInStep
    <3> QED BY <2>1, <2>4, <3>2 DEF Agrees
  <2>7. DocsOf(req[h].group)' = {groupInfo'[req'[h].group].rev}
    BY <2>1, <2>4, <2>6 DEF DocsOf
  <2> QED BY <2>1, <2>2, <2>7 DEF DocsAsRead, CommitsSucceed
<1> QED BY <1>2, <1>3 DEF Arrive

\* The documents of its group go through the program points as the invariant
\* says.
LEMMA ChangeGoesOn ==
  ASSUME CommitsSucceed, IInv, NEW h \in Handlers, Work(h) \/ Fail(h),
         PointOf(h), Changes(h), DocsAsRead(h)
  PROVE  DocsAsRead(h)'
<1>1. /\ TypeOK /\ LocalsOf(h) /\ (Flushed(h) => req[h].op = "leave")
      /\ TypeOK'
  BY TypeStep DEF IInv, LocalsInOrder, LocksHeld, Next
<1>2. PICK g : g = req[h].group
  OBVIOUS
<1>3. req'[h] = req[h] => DocsOf(req[h].group)' = DocsOf(g)'
  BY <1>2 DEF DocsOf
<1>4. groupGame' = groupGame => DocsOf(g)' = DocsOf(g)
  BY DEF DocsOf
<1>5. /\ g \in DOMAIN groupInfo
      /\ req[h].op \in {"update", "leave"} /\ req[h].body # "badRow"
      /\ pc[h] \notin {"findMember", "findBefore"}
         => loc[h].before = groupInfo[g].rev
      /\ loc[h].catching => loc[h].doc = loc[h].before
  BY <1>2 DEF DocsAsRead, Changes
<1>6. ASSUME Return(h) PROVE DocsAsRead(h)'
  BY <1>1, <1>6, SetReturn DEF DocsAsRead, Changes
\* Entering a catch block finds one document or none.
<1>7. ASSUME Catch(h),
             pc[h] \in {"findDoc", "deleteDoc", "saveDoc", "purgeDoc",
                       "updateHeir", "deleteRow"},
             DocsOf(g)' = {} \/ \E d \in DocIds : DocsOf(g)' = {d}
      PROVE  DocsAsRead(h)'
  <2>1. /\ req'[h] = req[h] /\ groupInfo' = groupInfo
        /\ loc'[h].before = loc[h].before /\ loc'[h].doc = loc[h].before
        /\ pc'[h] = "findDoc" /\ loc'[h].catching = TRUE
    BY <1>1, <1>5, <1>7, SetCatch
  <2> QED BY <1>2, <1>3, <1>5, <1>7, <2>1 DEF DocsAsRead
\* A step that leaves the documents of the group alone.
<1>8. ASSUME NEW step \in {"findBefore", "chooseHeir", "updateHeir",
                           "deleteRow", "authorize", "purgeDoc", "commitLeave"},
             pc'[h] = step, req'[h] = req[h], groupInfo' = groupInfo,
             groupGame' = groupGame, DocsOf(g) = {groupInfo[g].rev},
             loc'[h].catching => loc'[h].doc = loc'[h].before,
             step # "findBefore" => loc'[h].before = groupInfo[g].rev
      PROVE  DocsAsRead(h)'
  <2>1. DocsOf(req[h].group)' = {groupInfo[g].rev}
    BY <1>3, <1>4, <1>8
  <2> QED BY <1>2, <1>5, <1>8, <2>1 DEF DocsAsRead
<1>11. CASE FindMember(h)
  <2>1. /\ pc[h] = "findMember" /\ UNCHANGED <<groupInfo, groupGame>>
        /\ DocsOf(g) = {groupInfo[g].rev}
    BY <1>2, <1>11 DEF FindMember, tables, DocsAsRead
  <2>2. CASE Return(h)
    BY <1>6, <2>2
  <2>4. CASE /\ \E r : loc' = [loc EXCEPT ![h].row = r, ![h].role = groupUser[r].role]
             /\ Goto(h, "findBefore") /\ req' = req
    <3>1. PICK r, s : loc' = [loc EXCEPT ![h].row = r, ![h].role = s]
      BY <2>4
    <3>2. loc'[h] = [loc[h] EXCEPT !.row = r, !.role = s] /\ loc[h] \in LocType
      BY <1>1, <3>1 DEF TypeOK
    <3>3. loc'[h].catching = loc[h].catching /\ loc'[h].doc = loc[h].doc
          /\ loc'[h].before = loc[h].before
      BY <3>2 DEF LocType
    <3>4. pc'[h] = "findBefore"
      BY <1>1, <2>4, OwnGoto
    <3> QED BY <1>5, <1>8, <2>1, <2>4, <3>3, <3>4
  <2> QED BY <1>5, <1>11, <2>2, <2>4 DEF FindMember
<1>12. ~CountMembers(h)
  BY <1>5 DEF CountMembers, PointOf
<1>13. CASE FindBefore(h)
  <2>1. /\ pc[h] = "findBefore" /\ UNCHANGED <<groupInfo, groupGame>>
        /\ DocsOf(g) = {groupInfo[g].rev}
    BY <1>2, <1>13 DEF FindBefore, tables, DocsAsRead
  <2>2. CASE Return(h)
    BY <1>6, <2>2
  <2>3. CASE /\ \E d \in DocsOf(g) : loc' = [loc EXCEPT ![h].before = d]
             /\ Goto(h, IF req[h].op = "update" THEN "authorize"
                        ELSE IF loc[h].role = 0 THEN "chooseHeir" ELSE "deleteRow")
             /\ req' = req
    <3>1. loc' = [loc EXCEPT ![h].before = groupInfo[g].rev]
      BY <2>1, <2>3
    <3>2. PICK d : d = groupInfo[g].rev
      OBVIOUS
    <3>3. loc'[h].before = d /\ loc'[h].catching = loc[h].catching
      BY <1>1, <3>1, <3>2, SetLocal
    <3>4. pc'[h] = IF req[h].op = "update" THEN "authorize"
                   ELSE IF loc[h].role = 0 THEN "chooseHeir" ELSE "deleteRow"
      BY <1>1, <2>3, OwnGoto
    <3>5. ~loc[h].catching
      BY <1>1, <2>1 DEF LocalsOf
    <3> QED BY <1>8, <2>1, <2>3, <3>2, <3>3, <3>4, <3>5
  <2>4. DocsOf(g) # {}
    BY <2>1
  <2> QED BY <1>2, <1>13, <2>2, <2>3, <2>4 DEF FindBefore, HandsOver
<1>14. CASE Authorize(h)
  <2>1. /\ pc[h] = "authorize" /\ UNCHANGED <<groupInfo, groupGame>>
        /\ DocsOf(g) = {groupInfo[g].rev} /\ req[h].op = "update"
    BY <1>2, <1>14 DEF Authorize, tables, DocsAsRead, PointOf
  <2>2. CASE Return(h)
    BY <1>6, <2>2
  <2>3. CASE /\ loc' = [loc EXCEPT ![h].doc = NewDoc]
             /\ Goto(h, "findDoc") /\ req' = req
    <3>1. PICK n : n = NewDoc
      OBVIOUS
    <3>2. loc'[h].before = loc[h].before /\ loc'[h].catching = loc[h].catching
      BY <1>1, <2>3, <3>1, SetLocal
    <3>3. pc'[h] = "findDoc" /\ ~loc[h].catching
      BY <1>1, <2>1, <2>3, OwnGoto DEF LocalsOf
    <3>4. DocsOf(req[h].group)' = {groupInfo[g].rev}
      BY <1>3, <1>4, <2>1, <2>3
    <3> QED BY <1>2, <1>5, <2>1, <2>3, <3>2, <3>3, <3>4 DEF DocsAsRead
  <2> QED BY <1>14, <2>2, <2>3 DEF Authorize
<1>15. CASE FindDoc(h)
  <2>1. pc[h] = "findDoc" /\ groupGame' = groupGame
    BY <1>15 DEF FindDoc
  <2>2. DocsOf(g) = {} \/ \E d \in DocIds : DocsOf(g) = {d}
    BY <1>1, <1>2, <1>5, <2>1, DocFacts DEF DocsAsRead
  <2>3. ~(Cardinality(DocsOf(g)) > 1)
    BY <2>2, NotTwo
  <2>4. CASE Return(h)
    BY <1>6, <2>4
  <2>5. CASE /\ DocsOf(g) = {} /\ Goto(h, "saveDoc")
             /\ UNCHANGED <<tables, req, loc>>
    <3>1. pc'[h] = "saveDoc"
      BY <1>1, <2>5, OwnGoto
    <3>2. DocsOf(req[h].group)' = {}
      BY <1>3, <1>4, <2>1, <2>5
    <3> QED BY <1>2, <1>5, <2>1, <2>5, <3>1, <3>2 DEF DocsAsRead, tables
  <2>6. CASE /\ \E d \in DocsOf(g) : /\ DocsOf(g) = {d}
                                     /\ loc' = [loc EXCEPT ![h].found = d]
             /\ Goto(h, "deleteDoc") /\ UNCHANGED <<tables, req>>
    <3>1. PICK d : DocsOf(g) = {d} /\ loc' = [loc EXCEPT ![h].found = d]
      BY <2>6
    <3>2. /\ loc'[h].found = d /\ loc'[h].before = loc[h].before
          /\ loc'[h].doc = loc[h].doc /\ loc'[h].catching = loc[h].catching
      <4>1. loc'[h] = [loc[h] EXCEPT !.found = d] /\ loc[h] \in LocType
        BY <1>1, <3>1 DEF TypeOK
      <4> QED BY <4>1 DEF LocType
    <3>3. pc'[h] = "deleteDoc"
      BY <1>1, <2>6, OwnGoto
    <3>4. DocsOf(req[h].group)' = {loc'[h].found}
      BY <1>3, <1>4, <2>1, <2>6, <3>1, <3>2
    <3> QED BY <1>2, <1>5, <2>1, <2>6, <3>2, <3>3, <3>4 DEF DocsAsRead, tables
  <2> QED BY <1>2, <1>15, <2>3, <2>4, <2>5, <2>6 DEF FindDoc
<1>16. CASE DeleteDoc(h)
  <2>1. /\ pc[h] = "deleteDoc" /\ groupGame' = Written(h)
        /\ UNCHANGED <<groupInfo, req, loc>>
    BY <1>16 DEF DeleteDoc, tables
  <2>2. DocsOf(g) = {loc[h].found}
    BY <1>2, <2>1 DEF DocsAsRead
  <2>3. DocsOf(g)' = {}
    BY <1>2, <2>1, <2>2, WrittenOwn
  <2>4. pc'[h] = "saveDoc"
    BY <1>1, <1>16, OwnGoto DEF DeleteDoc
  <2>5. DocsOf(req[h].group)' = {}
    BY <1>3, <2>1, <2>3
  <2> QED BY <1>2, <1>5, <2>1, <2>4, <2>5 DEF DocsAsRead
<1>17. CASE SaveDoc(h)
  <2>1. pc[h] = "saveDoc" /\ DocsOf(g) = {}
    BY <1>2, <1>17 DEF SaveDoc, DocsAsRead
  <2>2. CASE Return(h)
    BY <1>6, <2>2
  <2>3. CASE Catch(h) /\ groupGame' = groupGame
    <3>1. DocsOf(g)' = {}
      BY <1>4, <2>1, <2>3
    <3> QED BY <1>7, <2>1, <2>3, <3>1
  <2>4. CASE /\ groupGame' = Written(h) /\ UNCHANGED <<tables, req, loc>>
             /\ ~loc[h].catching
             /\ Goto(h, IF req[h].op = "insert" THEN "commitInsert"
                                                ELSE "commitUpdate")
    <3>1. DocsOf(g)' = {loc[h].doc}
      BY <1>2, <2>1, <2>4, WrittenOwn
    <3>2. pc'[h] = IF req[h].op = "insert" THEN "commitInsert"
                                           ELSE "commitUpdate"
      BY <1>1, <2>4, OwnGoto
    <3>3. DocsOf(req[h].group)' = {loc[h].doc}
      BY <1>3, <2>4, <3>1
    <3> QED BY <1>2, <1>5, <2>1, <2>4, <3>2, <3>3 DEF DocsAsRead, tables
  <2> QED BY <1>17, <2>2, <2>3, <2>4 DEF SaveDoc
<1>18. CASE ChooseHeir(h)
  <2>1. /\ pc[h] = "chooseHeir" /\ UNCHANGED <<groupInfo, groupGame, req>>
        /\ DocsOf(g) = {groupInfo[g].rev} /\ req[h].op = "leave"
    BY <1>1, <1>2, <1>18 DEF ChooseHeir, tables, DocsAsRead, LocalsOf
  <2>2. loc'[h].before = loc[h].before /\ loc'[h].catching = loc[h].catching
        /\ loc'[h].doc = loc[h].doc
    BY <1>1, <1>18, SetLocal DEF ChooseHeir
  <2>3. pc'[h] \in {"updateHeir", "deleteRow"}
    BY <1>1, <1>18, OwnGoto DEF ChooseHeir
  <2> QED BY <1>5, <1>8, <2>1, <2>2, <2>3
<1>19. CASE (UpdateHeir(h) \/ DeleteRow(h)) /\ ~Catch(h)
  <2>1. /\ pc[h] \in {"updateHeir", "deleteRow"}
        /\ UNCHANGED <<groupInfo, groupGame, req>>
        /\ DocsOf(g) = {groupInfo[g].rev} /\ req[h].op = "leave"
    BY <1>1, <1>2, <1>19 DEF UpdateHeir, DeleteRow, tables, DocsAsRead, LocalsOf
  <2>2. PICK S : loc' = [loc EXCEPT ![h].locks = S]
    BY <1>19 DEF UpdateHeir, DeleteRow
  <2>3. loc'[h].before = loc[h].before /\ loc'[h].catching = loc[h].catching
        /\ loc'[h].doc = loc[h].doc
    BY <1>1, <2>2, SetLocal
  <2>4. pc'[h] \in {"deleteRow", "purgeDoc", "commitLeave"}
    BY <1>1, <1>19, OwnGoto DEF UpdateHeir, DeleteRow
  <2> QED BY <1>5, <1>8, <2>1, <2>3, <2>4
<1>20. CASE (UpdateHeir(h) \/ DeleteRow(h)) /\ Catch(h)
  <2>1. /\ pc[h] \in {"updateHeir", "deleteRow"} /\ groupGame' = groupGame
        /\ req[h].op = "leave"
        /\ DocsOf(g) = {groupInfo[g].rev} /\ g \in DOMAIN groupInfo
    BY <1>1, <1>2, <1>20 DEF UpdateHeir, DeleteRow, DocsAsRead, LocalsOf
  <2>2. \E d \in DocIds : DocsOf(g)' = {d}
    BY <1>1, <1>4, <2>1, DocFacts
  <2> QED BY <1>7, <1>20, <2>1, <2>2
<1>21. CASE PurgeDoc(h)
  <2>1. /\ pc[h] = "purgeDoc" /\ groupGame' = Written(h)
        /\ UNCHANGED <<groupInfo, req, loc>> /\ req[h].op = "leave"
    BY <1>1, <1>21 DEF PurgeDoc, tables, Flushed
  <2>2. DocsOf(g)' = {}
    BY <1>2, <2>1, WrittenOwn
  <2>3. pc'[h] = "dropGroup"
    BY <1>1, <1>21, OwnGoto DEF PurgeDoc
  <2>4. DocsOf(req[h].group)' = {}
    BY <1>3, <2>1, <2>2
  <2> QED BY <1>2, <1>5, <2>1, <2>3, <2>4 DEF DocsAsRead
<1>22. CASE MongoThrows(h)
  <2>1. /\ pc[h] \in {"findDoc", "deleteDoc", "saveDoc", "purgeDoc"}
        /\ ~loc[h].catching /\ Catch(h)
        /\ \/ groupGame' = groupGame
           \/ pc[h] # "findDoc" /\ groupGame' = Written(h)
    BY <1>22 DEF MongoThrows
  <2>2. /\ pc[h] = "deleteDoc" => DocsOf(g) = {loc[h].found}
        /\ pc[h] = "saveDoc" => DocsOf(g) = {} /\ loc[h].doc \in DocIds
    BY <1>1, <1>2 DEF DocsAsRead, LocalsOf
  <2>3. DocsOf(g) = {} \/ \E d : DocsOf(g) = {d}
    BY <1>2, <2>1, <2>2 DEF DocsAsRead
  <2>4. DocsOf(g)' = {} \/ \E d : DocsOf(g)' = {d}
    BY <1>2, <1>4, <2>1, <2>2, <2>3, WrittenOwn
  <2>5. DocsOf(g)' \subseteq DocIds
    BY <1>1 DEF TypeOK, Table, DocsOf
  <2> QED BY <1>7, <2>1, <2>4, <2>5
<1>23. CASE \/ InsertRow(h) \/ UndoDoc(h) \/ CommitInsert(h) \/ CommitUpdate(h)
            \/ CommitLeave(h) \/ DropGroup(h) \/ RequestFails(h)
  BY <1>6, <1>23 DEF InsertRow, UndoDoc, CommitInsert, CommitUpdate,
                     CommitLeave, DropGroup, RequestFails
<1> QED BY <1>11, <1>12, <1>13, <1>14, <1>15, <1>16, <1>17, <1>18, <1>19, <1>20,
           <1>21, <1>22, <1>23 DEF Work, Fail

\* A request keeps what it asks for until it returns.
LEMMA RequestStays ==
  ASSUME IInv, NEW h \in Handlers, HandlerStep(h), ~Return(h)
  PROVE  req'[h] = req[h] \/ req[h] = NoReq
<1>1. TypeOK /\ LocalsOf(h)
  BY DEF IInv, LocalsInOrder
<1>2. CASE Arrive(h)
  BY <1>1, <1>2 DEF Arrive, InsertGroup, JoinGroup, UpdateGroup, LeaveGroup,
                    Request, LocalsOf
<1> QED BY <1>1, <1>2, StillAsked DEF HandlerStep

\* The database Init describes holds one group and its document.
LEMMA DocsInStepInit == Init => DocsInStep
<1> SUFFICES ASSUME Init PROVE DocsInStep
  OBVIOUS
<1>1. NoReq.op = "none"
  BY DEF NoReq
<1>2. \A h \in Handlers : req[h] = NoReq
  BY DEF Init
<1>3. \A h \in Handlers : DocsAsRead(h)
  BY <1>1, <1>2 DEF DocsAsRead, Changes
<1>4. \A g : DocsOf(g) = IF g = 1 THEN {1} ELSE {}
  BY DEF Init, DocsOf
<1>5. DOMAIN groupInfo = {1} /\ groupInfo[1].rev = 1
  BY DEF Init
<1>6. \A g : Agrees(g)
  BY <1>4, <1>5 DEF Agrees
<1> QED BY <1>3, <1>6 DEF DocsInStep

\* Every group but those of the updates, leaves and inserts in flight has its
\* document.
LEMMA DocsInStepNext ==
  ASSUME LeavesApart, UpdatesApart, LeavesApart', UpdatesApart', CommitsSucceed,
         IInv, InPlace, LedGroups, DocsInStep, [Next]_vars
  PROVE  DocsInStep'
<1>1. ASSUME NEW h \in Handlers, HandlerStep(h) PROVE DocsInStep'
  <2>1. \A k \in Handlers \ {h} : DocsAsRead(k)' /\ req'[k] = req[k]
    BY <1>1, OtherDocsAsRead, OwnOnly DEF DocsInStep, HandlerStep, IInv
  <2>2. /\ PointOf(h) /\ LeaveAsRead(h) /\ DocsAsRead(h) /\ TypeOK
        /\ pc[h] = "idle" => req[h] = NoReq
    BY DEF InPlace, LedGroups, DocsInStep, IInv, LocalsInOrder, LocalsOf
  <2>3. ~Return(h) => req'[h] = req[h] \/ req[h] = NoReq
    BY <1>1, RequestStays
  <2>4. DocsAsRead(h)'
    <3>1. CASE Arrive(h)
      BY <3>1, ChangeArrives
    <3>2. CASE Work(h) \/ Fail(h)
      <4>1. CASE Changes(h)
        BY <2>2, <3>2, <4>1, ChangeGoesOn
      <4>2. CASE ~Changes(h)
        <5>1. NoReq.op = "none"
          BY DEF NoReq
        <5>2. pc[h] # "idle"
          BY <3>2, AtPoint DEF Fail, MongoThrows, RequestFails, IInv, LocalsInOrder,
                               LocalsOf
        <5>3. req[h] # NoReq
          BY <2>2, <5>1, <5>2 DEF PointOf
        <5>4. ~Changes(h)'
          BY <2>2, <2>3, <4>2, <5>3, SetReturn DEF Changes
        <5> QED BY <5>4 DEF DocsAsRead
      <4> QED BY <4>1, <4>2
    <3> QED BY <1>1, <3>1, <3>2 DEF HandlerStep
  <2>5. ASSUME NEW x \in GroupIds
        PROVE  \/ Agrees(x)'
               \/ \E k \in Handlers : req'[k].group = x /\ req'[k].op # "join"
    <3>0. Agrees(x) \/ \E k \in Handlers : req[k].group = x /\ req[k].op # "join"
      BY DEF DocsInStep
    <3>1. CASE x # req[h].group
      <4>1. CASE Agrees(x)
        BY <1>1, <3>1, <4>1, OtherGroups
      <4>2. CASE \E k \in Handlers : req[k].group = x /\ req[k].op # "join"
        BY <2>1, <3>1, <4>2
      <4> QED BY <3>0, <4>1, <4>2
    <3>2. CASE x = req[h].group /\ req[h].op = "join"
      <4>1. groupInfo' = groupInfo /\ groupGame' = groupGame
        BY <1>1, <2>2, <3>2, JoinsElsewhere
      <4>2. Agrees(x) => Agrees(x)'
        BY <4>1 DEF Agrees, DocsOf
      <4> QED BY <2>1, <3>0, <3>2, <4>2
    <3>3. CASE x = req[h].group /\ req[h].op # "join" /\ Return(h)
      BY <1>1, <2>2, <3>3, ReturnAgrees
    <3>4. CASE x = req[h].group /\ req[h].op # "join" /\ ~Return(h)
      <4>1. NoReq.group = NoId /\ NoId \notin GroupIds
        BY IdsAssumption DEF NoReq
      <4> QED BY <2>3, <2>5, <3>4, <4>1
    <3> QED BY <3>1, <3>2, <3>3, <3>4
  <2>6. \A k \in Handlers : DocsAsRead(k)'
    BY <2>1, <2>4
  <2> QED BY <2>5, <2>6 DEF DocsInStep
<1>2. ~Crash
  BY DEF CommitsSucceed, Crash
<1>3. CASE UNCHANGED vars
  <2>1. UNCHANGED <<groupInfo, groupUser, groupGame, pc, req, loc>>
    BY <1>3 DEF vars
  <2>2. \A h \in Handlers : DocsAsRead(h)'
    <3> TAKE h \in Handlers
    <3>1. DocsOf(req[h].group)' = DocsOf(req[h].group)
      BY <2>1 DEF DocsOf
    <3>2. DocsAsRead(h)
      BY DEF DocsInStep
    <3> QED BY <2>1, <3>1, <3>2 DEF DocsAsRead, Changes
  <2>3. \A x \in GroupIds : Agrees(x) => Agrees(x)'
    BY <2>1 DEF Agrees, DocsOf
  <2> QED BY <2>1, <2>2, <2>3 DEF DocsInStep
<1> QED BY <1>1, <1>2, <1>3 DEF Next, HandlerStep

\* So it is in every reachable state.
LEMMA DocsInStepInvariant ==
  ASSUME CommitsSucceed
  PROVE  Spec /\ []LeavesApart /\ []UpdatesApart => []DocsInStep
<1>1. LeavesApart /\ LeavesApart' /\ UpdatesApart /\ UpdatesApart' /\ IInv
        /\ InPlace /\ LedGroups /\ DocsInStep /\ [Next]_vars => DocsInStep'
  BY DocsInStepNext
<1> QED BY <1>1, DocsInStepInit, LedGroupsInvariant, Places, PTL DEF Spec

\* If updates and leaves of a group overlap joins at most, and leaves not even
\* those, the two stores agree between requests, whatever call of MongoDB fails
\* inside a try block and however often.
THEOREM StoresInStep ==
  ASSUME CommitsSucceed
  PROVE  Spec /\ []LeavesApart /\ []UpdatesApart => []StoresAgree
<1>1. ASSUME IInv, DocsInStep PROVE StoresAgree
  <2> SUFFICES ASSUME Idle
               PROVE  /\ \A g \in DOMAIN groupInfo : DocsOf(g) = {groupInfo[g].rev}
                      /\ \A d \in DOMAIN groupGame :
                           groupGame[d] \in DOMAIN groupInfo
    BY DEF StoresAgree
  <2>1. NoReq.group = NoId
    BY DEF NoReq
  <2>2. \A h \in Handlers : req[h].group = NoId
    BY <1>1, <2>1 DEF Idle, IInv, LocalsInOrder, LocalsOf
  <2>3. TypeOK
    BY <1>1 DEF IInv
  <2>4. \A g \in GroupIds : Agrees(g)
    BY <1>1, <2>2, <2>3, DocFacts DEF DocsInStep
  <2>5. \A d \in DOMAIN groupGame : groupGame[d] \in GroupIds
                                    /\ d \in DocsOf(groupGame[d])
    BY <2>3 DEF TypeOK, Table, DocsOf
  <2>6. DOMAIN groupInfo \subseteq GroupIds
    BY <2>3, DocFacts
  <2> QED BY <2>4, <2>5, <2>6 DEF Agrees
<1>2. IInv /\ DocsInStep => StoresAgree
  BY <1>1
<1> QED BY <1>2, DocsInStepInvariant, Invariance, PTL

-----------------------------------------------------------------------------
(* What the requests have read stays true until they are told otherwise.   *)

\* A step that commits nothing is no news.
LEMMA NoNews ==
  ASSUME RNext, UNCHANGED tables, NEW k \in Handlers, pc'[k] # "idle"
  PROVE  news'[k] = news[k]
<1>1. news'[k] = Told(k)
  BY DEF RNext
<1>2. groupUser' = groupUser /\ groupInfo' = groupInfo
  BY DEF tables
<1>3. \A n : ~Happens(n, k)
  BY <1>2 DEF Happens, Joins, Leave, Updates
<1>4. {n \in News : Happens(n, k)} = {}
  BY <1>3
<1> QED BY <1>1, <1>4 DEF Told

\* What a request is told, it keeps.
LEMMA ToldMore ==
  ASSUME RNext, NEW k \in Handlers, pc'[k] # "idle"
  PROVE  /\ news[k] \subseteq news'[k]
         /\ \A n \in News : Happens(n, k) => n \in news'[k]
         /\ \A n \in news'[k] : n \in news[k] \/ Happens(n, k)
<1>1. news'[k] = news[k] \cup {n \in News : Happens(n, k)}
  BY DEF RNext, Told
<1> QED BY <1>1

\* Nobody in flight, nobody told.
LEMMA IdleAsRead ==
  ASSUME NEW h \in Handlers
  PROVE  /\ pc[h] = "idle" /\ req[h] = NoReq /\ news[h] = {} => AsRead(h)
         /\ pc'[h] = "idle" /\ req'[h] = NoReq /\ news'[h] = {} => AsRead(h)'
<1>1. NoReq.op = "none"
  BY DEF NoReq
<1> QED BY <1>1 DEF AsRead, JoinAsRead, UpdateAsRead, UpdaterLeads,
                    LeaveUnlessTold, AsksAllowed

\* A request has read nothing when it arrives, but a join the maximum.
LEMMA ArrivesAsRead ==
  ASSUME RaceInv, RNext, NEW h \in Handlers, Arrive(h)
  PROVE  AsRead(h)'
<1>1. TypeOK /\ AsRead(h) /\ UNCHANGED tables
  BY DEF RaceInv, IInv, Arrive, InsertGroup, JoinGroup, UpdateGroup, LeaveGroup
<1>2. \/ pc'[h] = "findDoc" /\ req'[h].op = "insert" /\ req'[h].max \in MaxCounts
      \/ pc'[h] = "findBefore" /\ req'[h].op = "update" /\ req'[h].max \in MaxCounts
      \/ pc'[h] = "findMember" /\ req'[h].op = "leave"
      \/ /\ pc'[h] = "findMember" /\ req'[h].op = "join"
         /\ req'[h].group \in DOMAIN groupInfo
         /\ req'[h].max = groupInfo[req'[h].group].max
  BY <1>1 DEF Arrive, InsertGroup, JoinGroup, UpdateGroup, LeaveGroup, Request,
              Goto, TypeOK
<1>3. news'[h] = news[h]
  BY <1>1, <1>2, NoNews
<1>4. JoinAsRead(h)'
  BY <1>1, <1>2, <1>3 DEF AsRead, JoinAsRead, NotYetIn, tables
<1>5. UpdateAsRead(h)' /\ AsksAllowed(h)'
  BY <1>2 DEF UpdateAsRead, UpdaterLeads, AsksAllowed
<1>6. LeaveUnlessTold(h)'
  BY <1>2 DEF LeaveUnlessTold, OnlyRow, RoleAsRead, Looked, NoHeirs, Heirless,
              Flushed
<1> QED BY <1>4, <1>5, <1>6 DEF AsRead

\* Where a leader found nobody to take over and somebody remains, it has been
\* told of a join.
LEMMA RemainsTold ==
  ASSUME RaceInv, NEW h \in Handlers, HandlerStep(h), req[h].op = "leave",
         pc'[h] = "commitLeave", Heirless(h)', req'[h] = req[h]
  PROVE  "joined" \in news[h]
<1>1. TypeOK /\ PointOf(h) /\ AsRead(h)
  BY DEF RaceInv, IInv, InPlace
<1>2. pc[h] = "deleteRow" /\ DeleteRow(h) /\ ~Catch(h)
  <2> USE OwnReturn, OwnGoto, OwnCatch
  <2>1. ~Arrive(h)
    BY <1>1 DEF Arrive, InsertGroup, JoinGroup, UpdateGroup, LeaveGroup
  <2>2. ~Fail(h)
    BY <1>1 DEF Fail, MongoThrows, RequestFails
  <2>3. ~(\/ FindMember(h) \/ CountMembers(h) \/ InsertRow(h) \/ FindBefore(h)
          \/ Authorize(h) \/ DeleteDoc(h) \/ UndoDoc(h) \/ CommitInsert(h)
          \/ CommitUpdate(h) \/ ChooseHeir(h) \/ PurgeDoc(h) \/ CommitLeave(h)
          \/ DropGroup(h))
    BY <1>1 DEF FindMember, CountMembers, InsertRow, FindBefore, Authorize,
       DeleteDoc, UndoDoc, CommitInsert, CommitUpdate, ChooseHeir, PurgeDoc,
       CommitLeave, DropGroup
  <2>4. ~(FindDoc(h) \/ SaveDoc(h) \/ UpdateHeir(h))
    BY <1>1 DEF FindDoc, SaveDoc, UpdateHeir
  <2>5. ~Catch(h)
    BY <1>1
  <2> QED BY <2>1, <2>2, <2>3, <2>4, <2>5 DEF HandlerStep, Work, DeleteRow
<1>3. /\ loc[h].row \in DOMAIN groupUser
      /\ pc'[h] = IF Remaining(h) = {} THEN "purgeDoc" ELSE "commitLeave"
  BY <1>1, <1>2, OwnGoto DEF DeleteRow
<1>4. loc'[h].role = loc[h].role /\ loc'[h].heir = loc[h].heir
  <2>1. PICK S : loc' = [loc EXCEPT ![h].locks = S]
    BY <1>2 DEF DeleteRow
  <2> QED BY <1>1, <2>1, SetLocal
<1>5. Heirless(h)
  BY <1>2, <1>4 DEF Heirless
<1>6. PICK q \in RowsOf(req[h].group) : q # loc[h].row
  BY <1>3 DEF Remaining
<1>7. /\ groupUser[loc[h].row].group = req[h].group
      /\ groupUser[loc[h].row].role = 0
  BY <1>3, <1>5 DEF RaceInv, IInv, ReadsStillTrue, Heirless
<1>8. q \in Heirs(req[h].group)
  BY <1>3, <1>6, <1>7 DEF RaceInv, IInv, AtMostOneLeader, Heirs, RowsOf
<1> QED BY <1>1, <1>5, <1>8 DEF AsRead, LeaveUnlessTold, NoHeirs

\* What a request has read of the rows, it has read right.
LEMMA OwnAsRead ==
  ASSUME RaceInv, RNext, NEW h \in Handlers, Work(h) \/ Fail(h)
  PROVE  AsRead(h)'
<1>1. TypeOK /\ AsRead(h) /\ IInv /\ PointOf(h) /\ HandlerStep(h)
  BY DEF RaceInv, IInv, InPlace, HandlerStep
<1>2. IInv' /\ LocalsOf(h)'
  BY <1>1, NextInv DEF RNext, IInv, LocalsInOrder
<1>3. CASE pc'[h] = "idle"
  <2>1. req'[h] = NoReq /\ news'[h] = {}
    BY <1>2, <1>3 DEF LocalsOf, RNext, Told
  <2> QED BY <1>3, <2>1, IdleAsRead
<1>4. CASE pc'[h] # "idle"
  <2>1. req'[h] = req[h] /\ UNCHANGED tables
    BY <1>1, <1>4, OwnReturn, StillAsked
  <2>2. news'[h] = news[h]
    BY <1>4, <2>1, NoNews
  <2>3. KeepsReads(h)
    BY <1>1, OwnReads
  <2>4. JoinAsRead(h)'
    <3>1. NotYetIn(h)' \/ "again" \in news[h] \/ req[h].op # "join"
      <4>1. CASE pc'[h] \in {"countMembers", "insertRow"}
        BY <1>1, <2>1, <4>1, JoinPoints
           DEF AsRead, JoinAsRead, NotYetIn, RowsOfUser, RowsOf, tables
      <4>2. CASE pc'[h] \notin {"countMembers", "insertRow"}
        BY <4>2 DEF NotYetIn
      <4> QED BY <4>1, <4>2
    <3>2. pc'[h] = "insertRow" =>
            ~SameInteger(Cardinality(RowsOf(req[h].group)), req[h].max)
      BY <1>1, JoinPoints
    <3>3. RowsOf(req[h].group)' = RowsOf(req[h].group)
      BY <2>1, SameRows DEF tables
    <3> QED BY <1>1, <2>1, <2>2, <3>1, <3>2, <3>3
            DEF AsRead, JoinAsRead, tables
  <2>5. UpdateAsRead(h)' /\ AsksAllowed(h)'
    BY <1>1, <2>1, <2>2, <2>3
       DEF AsRead, UpdateAsRead, AsksAllowed, KeepsReads, UpdaterLeads
  <2>6. LeaveUnlessTold(h)'
    <3>1. SUFFICES ASSUME req[h].op = "leave" PROVE LeaveUnlessTold(h)'
      BY <2>1 DEF LeaveUnlessTold
    <3>2. pc'[h] = "commitLeave" /\ Heirless(h)' => "joined" \in news[h]
      BY <1>1, <2>1, <3>1, RemainsTold
    <3> QED BY <1>1, <2>1, <2>2, <2>3, <3>1, <3>2
            DEF AsRead, LeaveUnlessTold, KeepsReads
  <2> QED BY <2>4, <2>5, <2>6 DEF AsRead
<1> QED BY <1>3, <1>4

\* What another request does to the rows a join has read, it is told.
LEMMA JoinTold ==
  ASSUME RaceInv, RNext, NEW h \in Handlers, HandlerStep(h),
         NEW k \in Handlers \ {h}, pc[k] # "idle"
  PROVE  JoinAsRead(k)'
<1>1. /\ TypeOK /\ TypeOK' /\ AsRead(k) /\ LocalsOf(k)
      /\ pc'[k] = pc[k] /\ req'[k] = req[k]
  BY TypeStep, OwnOnly DEF RaceInv, IInv, LocalsInOrder, HandlerStep, RNext
<1>2. PICK g, u : g = req[k].group /\ u = req[k].user
  OBVIOUS
<1>3. u \in Users
  BY <1>1, <1>2 DEF LocalsOf
<1>4. /\ news[k] \subseteq news'[k]
      /\ \A n \in News : Happens(n, k) => n \in news'[k]
      /\ \A n \in news'[k] : n \in news[k] \/ Happens(n, k)
  BY <1>1, ToldMore
<1>5. "again" \in news'[k] => "moved" \in news'[k]
  <2>1. Happens("again", k) => Happens("moved", k)
    BY <1>2, <1>3 DEF Happens, Joins
  <2> QED BY <1>1, <1>4, <2>1 DEF AsRead, JoinAsRead, News
<1> SUFFICES ASSUME req[k].op = "join"
             PROVE  /\ NotYetIn(k)' \/ "again" \in news'[k]
                    /\ \/ "moved" \in news'[k]
                       \/ /\ g \in DOMAIN groupInfo' =>
                               groupInfo'[g].max = req[k].max
                          /\ pc[k] = "insertRow" =>
                               ~SameInteger(Cardinality(RowsOf(g)'), req[k].max)
  BY <1>1, <1>2, <1>5 DEF JoinAsRead, RowsOf
<1>6. NotYetIn(k)' \/ "again" \in news'[k]
  <2> SUFFICES ASSUME NotYetIn(k), pc[k] \in {"countMembers", "insertRow"},
                      NEW r \in DOMAIN groupUser',
                      groupUser'[r].group = g, groupUser'[r].user = u
               PROVE  Happens("again", k)
    BY <1>1, <1>2, <1>4 DEF NotYetIn, RowsOfUser, RowsOf, AsRead, JoinAsRead, News
  <2>1. r \notin DOMAIN groupUser
    BY <1>2, RowMoves DEF NotYetIn, RowsOfUser, RowsOf, RaceInv
  <2> QED BY <1>2, <2>1 DEF Happens, Joins
<1>7. ASSUME ~Happens("moved", k)
      PROVE  /\ RowsOf(g)' = RowsOf(g)
             /\ g \in DOMAIN groupInfo' =>
                  g \in DOMAIN groupInfo /\ groupInfo'[g] = groupInfo[g]
  <2>1. ~Joins(g, Users) /\ ~Leave(g, Users) /\ ~Updates(g)
    BY <1>2, <1>7 DEF Happens
  <2>2. /\ \A r \in DOMAIN groupUser : groupUser[r].user \in Users
        /\ \A r \in DOMAIN groupUser' : groupUser'[r].user \in Users
    BY <1>1 DEF TypeOK, Table, UserRow
  <2>3. \A r \in DOMAIN groupUser' : groupUser'[r].group = g =>
          r \in DOMAIN groupUser /\ groupUser[r].group = g
    BY <2>1, <2>2, RowMoves DEF Joins, RaceInv
  <2>4. \A r \in DOMAIN groupUser : groupUser[r].group = g =>
          r \in DOMAIN groupUser' /\ groupUser'[r].group = g
    BY <2>1, <2>2, RowMoves DEF Leave, RaceInv
  <2>5. RowsOf(g)' = RowsOf(g)
    BY <2>3, <2>4 DEF RowsOf
  <2>6. ASSUME g \in DOMAIN groupInfo', g \notin DOMAIN groupInfo PROVE FALSE
    <3>1. g = req[h].group
      BY <2>6, RowsElsewhere DEF RaceInv
    <3>2. req[h].op # "insert"
      BY <1>2, <3>1 DEF RaceInv, IInv, InsertsApart
    <3>3. ~CommitInsert(h)
      BY <3>2, RowsAfterCommit DEF RaceInv
    <3> QED BY <2>6, <3>3, TableSteps
            DEF RaceInv, tables, InsertRow, CommitUpdate, CommitLeave, DropGroup,
                GroupExists, Put, Without, Restrict
  <2> QED BY <2>1, <2>5, <2>6 DEF Updates
<1> QED BY <1>1, <1>2, <1>4, <1>6, <1>7 DEF AsRead, JoinAsRead, News

\* Nor is an update left in the dark, or a leave.
LEMMA UpdateTold ==
  ASSUME RaceInv, RNext, NEW h \in Handlers, HandlerStep(h),
         NEW k \in Handlers \ {h}, pc[k] # "idle"
  PROVE  UpdateAsRead(k)'
<1>1. /\ TypeOK /\ AsRead(k) /\ pc'[k] = pc[k] /\ req'[k] = req[k]
  BY OwnOnly DEF RaceInv, IInv, HandlerStep
<1>2. /\ news[k] \subseteq news'[k]
      /\ \A n \in News : Happens(n, k) => n \in news'[k]
  BY <1>1, ToldMore
<1>3. ASSUME req[k].op = "update", Leads(req[k].user, req[k].group)
      PROVE  Leads(req[k].user, req[k].group)' \/ "gone" \in news'[k]
  <2>1. PICK r \in DOMAIN groupUser : /\ groupUser[r].group = req[k].group
                                      /\ groupUser[r].user = req[k].user
                                      /\ groupUser[r].role = 0
    BY <1>3 DEF Leads, RowsOf
  <2>2. CASE r \in DOMAIN groupUser'
    BY <1>1, <2>1, <2>2, RowMoves DEF Leads, RowsOf, RaceInv
  <2>3. CASE r \notin DOMAIN groupUser'
    BY <1>2, <1>3, <2>1, <2>3 DEF Happens, Leave, News
  <2> QED BY <2>2, <2>3
<1> QED BY <1>1, <1>2, <1>3 DEF AsRead, UpdateAsRead, UpdaterLeads

LEMMA LeaveTold ==
  ASSUME RaceInv, RNext, NEW h \in Handlers, HandlerStep(h),
         NEW k \in Handlers \ {h}, pc[k] # "idle"
  PROVE  LeaveUnlessTold(k)'
<1>1. /\ TypeOK /\ TypeOK' /\ AsRead(k) /\ PointOf(k)
      /\ pc'[k] = pc[k] /\ req'[k] = req[k] /\ loc'[k] = loc[k]
  BY TypeStep, OwnOnly DEF RaceInv, IInv, InPlace, HandlerStep, RNext
<1>2. /\ news[k] \subseteq news'[k]
      /\ \A n \in News : Happens(n, k) => n \in news'[k]
  BY <1>1, ToldMore
<1>3. PICK g, u, l : g = req[k].group /\ u = req[k].user /\ l = loc[k].row
  OBVIOUS
<1> SUFFICES ASSUME req[k].op = "leave"
             PROVE  LeaveUnlessTold(k)'
  BY <1>1 DEF LeaveUnlessTold
<1>4. /\ \A r \in DOMAIN groupUser : groupUser[r].user \in Users
      /\ \A r \in DOMAIN groupUser' : groupUser'[r].user \in Users
  BY <1>1 DEF TypeOK, Table, UserRow
<1>5. /\ Joins(g, Users) => "joined" \in news'[k]
      /\ Leave(g, Users) => "left" \in news'[k]
  BY <1>2, <1>3 DEF Happens, News
<1>6. OnlyRow(k)' \/ news'[k] \cap {"joined", "left"} # {}
  <2>1. CASE Joins(g, Users) \/ Leave(g, Users)
    BY <1>5, <2>1
  <2>2. CASE ~Joins(g, Users) /\ ~Leave(g, Users)
    <3>1. \A r : r \in DOMAIN groupUser' /\ groupUser'[r].group = g
                   /\ groupUser'[r].user = u
                 <=> r \in DOMAIN groupUser /\ groupUser[r].group = g
                       /\ groupUser[r].user = u
      BY <1>4, <2>2, RowMoves DEF Joins, Leave, RaceInv
    <3>2. RowsOfUser(g, u)' = RowsOfUser(g, u)
      BY <3>1, Zenon DEF RowsOfUser, RowsOf
    <3>3. OnlyRow(k) => OnlyRow(k)'
      BY <1>1, <1>3, <3>2 DEF OnlyRow, Looked, RowsOfUser, RowsOf
    <3> QED BY <1>1, <1>2, <3>3 DEF AsRead, LeaveUnlessTold
  <2> QED BY <2>1, <2>2
<1>7. RoleAsRead(k)' \/ "left" \in news'[k]
  <2>1. SUFFICES ASSUME Looked(k), l \in DOMAIN groupUser,
                        groupUser[l].role = loc[k].role
                 PROVE  \/ l \in DOMAIN groupUser' /\ groupUser'[l].role = loc[k].role
                        \/ "left" \in news'[k]
    BY <1>1, <1>2, <1>3 DEF AsRead, LeaveUnlessTold, RoleAsRead, Looked
  <2>2. groupUser[l].group = g
    BY <1>3, <2>1 DEF RaceInv, IInv, ReadsStillTrue
  <2>3. CASE l \notin DOMAIN groupUser'
    BY <1>4, <1>5, <2>1, <2>2, <2>3 DEF Leave
  <2>4. CASE l \in DOMAIN groupUser' /\ groupUser'[l].role # groupUser[l].role
    <3>1. groupUser'[l].role = 0
      BY <2>1, <2>4, RowMoves DEF RaceInv
    <3>2. PICK q \in DOMAIN groupUser \ DOMAIN groupUser' :
            groupUser[q].group = g
      BY <2>1, <2>2, <2>4, <3>1, Promotions DEF RaceInv, RNext
    <3> QED BY <1>4, <1>5, <3>2 DEF Leave
  <2> QED BY <2>1, <2>3, <2>4
<1>8. NoHeirs(k)' \/ "joined" \in news'[k]
  <2>1. SUFFICES ASSUME Heirs(g) = {}, NEW r \in DOMAIN groupUser',
                        groupUser'[r].group = g, groupUser'[r].role # 0
                 PROVE  Joins(g, Users)
    <3>1. Heirless(k)' <=> Heirless(k)
      BY <1>1 DEF Heirless, Flushed
    <3> QED BY <1>1, <1>2, <1>3, <1>5, <3>1
            DEF AsRead, LeaveUnlessTold, NoHeirs, Heirs, RowsOf
  <2>2. r \notin DOMAIN groupUser
    BY <2>1, RowMoves DEF RaceInv, Heirs, RowsOf
  <2> QED BY <1>4, <2>1, <2>2 DEF Joins
<1>9. pc'[k] = "commitLeave" /\ Heirless(k)' => "joined" \in news'[k]
  BY <1>1, <1>2 DEF AsRead, LeaveUnlessTold, Heirless, Flushed
<1> QED BY <1>6, <1>7, <1>8, <1>9 DEF LeaveUnlessTold

\* No step adds more than one row.
LEMMA FiniteRows ==
  ASSUME IInv, NEW h \in Handlers, HandlerStep(h), IsFiniteSet(DOMAIN groupUser)
  PROVE  IsFiniteSet(DOMAIN groupUser')
<1>1. TypeOK
  BY DEF IInv
<1>2. CASE DOMAIN groupUser' \subseteq DOMAIN groupUser
  BY <1>2, FS_Subset
<1>3. CASE InsertRow(h)
  <2>1. \/ groupUser' = groupUser
        \/ DOMAIN groupUser' = DOMAIN groupUser \cup {NewRow}
    BY <1>1, <1>3, RowsAfterInsert
  <2> QED BY <1>2, <2>1, FS_AddElement
<1>4. CASE CommitInsert(h)
  <2>1. DOMAIN groupUser' = DOMAIN groupUser \cup {loc[h].row}
    BY <1>4, RowsAfterCommit
  <2> QED BY <2>1, FS_AddElement
<1>5. CASE CommitLeave(h) \/ DropGroup(h)
  BY <1>2, <1>5 DEF CommitLeave, DropGroup, AfterLeave, tables
<1> QED BY <1>2, <1>3, <1>4, <1>5, TableSteps DEF tables, CommitUpdate

\* Nothing has been read, and nobody told, at first.
LEMMA RaceInit == RInit => RaceInv
<1> SUFFICES ASSUME RInit PROVE RaceInv
  OBVIOUS
<1>1. Init /\ \A h \in Handlers : news[h] = {}
  BY DEF RInit
<1>2. \A h \in Handlers : pc[h] = "idle" /\ req[h] = NoReq
  BY <1>1 DEF Init
<1>3. \A h \in Handlers : AsRead(h)
  BY <1>1, <1>2, IdleAsRead
<1>4. IsFiniteSet(DOMAIN groupUser)
  <2>1. PICK n : n = Len(Founders)
    OBVIOUS
  <2>2. n \in Nat /\ DOMAIN groupUser = 1..n
    BY <1>1, <2>1, FoundersAssumption DEF Init
  <2> QED BY <2>2, FS_Interval
<1> QED BY <1>1, <1>3, <1>4, InitInv, InitReads DEF RaceInv, InPlace

\* What the requests have read is true, or they have been told.
LEMMA RaceNext == RaceInv /\ [RNext]_rvars => RaceInv'
<1> SUFFICES ASSUME RaceInv, [RNext]_rvars PROVE RaceInv'
  OBVIOUS
<1>1. [Next]_vars
  BY DEF RNext, rvars
<1>2. IInv' /\ InPlace'
  BY <1>1, NextInv, InPlaceNext DEF RaceInv
<1>3. ASSUME RNext, NEW h \in Handlers, HandlerStep(h) PROVE RaceInv'
  <2>1. AsRead(h)'
    BY <1>3, ArrivesAsRead, OwnAsRead DEF HandlerStep
  <2>2. ASSUME NEW k \in Handlers \ {h} PROVE AsRead(k)'
    <3>1. pc'[k] = pc[k] /\ req'[k] = req[k] /\ AsRead(k) /\ LocalsOf(k)
      BY <1>3, OwnOnly DEF RaceInv, IInv, HandlerStep, LocalsInOrder
    <3>2. CASE pc[k] = "idle"
      <4>1. news'[k] = {} /\ req[k] = NoReq
        BY <1>3, <3>1, <3>2 DEF RNext, Told, LocalsOf
      <4> QED BY <3>1, <3>2, <4>1, IdleAsRead
    <3>3. CASE pc[k] # "idle"
      <4>1. JoinAsRead(k)' /\ UpdateAsRead(k)' /\ LeaveUnlessTold(k)'
        BY <1>3, <3>3, JoinTold, UpdateTold, LeaveTold
      <4>2. AsksAllowed(k)'
        BY <3>1 DEF AsRead, AsksAllowed
      <4> QED BY <4>1, <4>2 DEF AsRead
    <3> QED BY <3>2, <3>3
  <2>3. IsFiniteSet(DOMAIN groupUser')
    BY <1>3, FiniteRows DEF RaceInv
  <2> QED BY <1>2, <2>1, <2>2, <2>3 DEF RaceInv
<1>4. CASE RNext /\ Crash
  <2>1. ASSUME NEW k \in Handlers PROVE AsRead(k)'
    <3>1. pc'[k] = "idle" /\ req'[k] = NoReq
      BY <1>4 DEF Crash
    <3>2. news'[k] = {}
      BY <1>4, <3>1 DEF RNext, Told
    <3> QED BY <3>1, <3>2, IdleAsRead
  <2>2. groupUser' = groupUser
    BY <1>4 DEF Crash, tables
  <2> QED BY <1>2, <2>1, <2>2 DEF RaceInv
<1>5. CASE UNCHANGED rvars
  <2>1. UNCHANGED <<groupInfo, groupUser, groupGame, pc, req, loc, news>>
    BY <1>5 DEF rvars, vars
  <2>2. ASSUME NEW k \in Handlers PROVE AsRead(k)'
    <3>1. /\ RowsOf(req[k].group)' = RowsOf(req[k].group)
          /\ Heirs(req[k].group)' = Heirs(req[k].group)
          /\ RowsOfUser(req[k].group, req[k].user)'
               = RowsOfUser(req[k].group, req[k].user)
          /\ Leads(req[k].user, req[k].group)' <=> Leads(req[k].user, req[k].group)
      BY <2>1, SameRows
    <3>2. AsRead(k)
      BY DEF RaceInv
    <3>3. JoinAsRead(k)' /\ UpdateAsRead(k)' /\ AsksAllowed(k)'
      BY <2>1, <3>1, <3>2 DEF AsRead, JoinAsRead, NotYetIn, UpdateAsRead,
                              UpdaterLeads, AsksAllowed
    <3>4. LeaveUnlessTold(k)'
      BY <2>1, <3>1, <3>2 DEF AsRead, LeaveUnlessTold, OnlyRow, RoleAsRead,
                              Looked, NoHeirs, Heirless, Flushed
    <3> QED BY <3>3, <3>4 DEF AsRead
  <2> QED BY <1>2, <2>1, <2>2 DEF RaceInv
<1>6. RNext => Crash \/ \E h \in Handlers : HandlerStep(h)
  BY DEF RNext, Next, HandlerStep
<1> QED BY <1>3, <1>4, <1>5, <1>6

LEMMA RaceInvariance == RSpec => []RaceInv
BY RaceInit, RaceNext, PTL DEF RSpec

-----------------------------------------------------------------------------
(* The table of groups that is promised.                                   *)

\* The table of groups, before and after a step.
LEMMA CommittedFacts ==
  /\ Committed = [g \in DOMAIN groupInfo |-> Committed[g]]
  /\ \A g \in DOMAIN groupInfo :
       Committed[g] = [members |-> MembersOf(g), leads |-> LeadersOf(g),
                       max |-> groupInfo[g].max, rev |-> groupInfo[g].rev]
  /\ Committed' = [g \in DOMAIN groupInfo' |-> Committed'[g]]
  /\ \A g \in DOMAIN groupInfo' :
       Committed'[g] = [members |-> MembersOf(g)', leads |-> LeadersOf(g)',
                        max |-> groupInfo'[g].max, rev |-> groupInfo'[g].rev]
BY DEF Committed

\* Who is a member, and who leads, before and after a step.
LEMMA WhoIsIn ==
  ASSUME NEW g, NEW u
  PROVE  /\ u \in MembersOf(g) <=>
              \E r \in DOMAIN groupUser : /\ groupUser[r].group = g
                                          /\ groupUser[r].user = u
         /\ u \in LeadersOf(g) <=>
              \E r \in DOMAIN groupUser : /\ groupUser[r].group = g
                                          /\ groupUser[r].user = u
                                          /\ groupUser[r].role = 0
         /\ u \in MembersOf(g)' <=>
              \E r \in DOMAIN groupUser' : /\ groupUser'[r].group = g
                                           /\ groupUser'[r].user = u
         /\ u \in LeadersOf(g)' <=>
              \E r \in DOMAIN groupUser' : /\ groupUser'[r].group = g
                                           /\ groupUser'[r].user = u
                                           /\ groupUser'[r].role = 0
BY DEF MembersOf, LeadersOf, UsersOf, RowsOf

-----------------------------------------------------------------------------
(* What overtaken requests may break, and nobody else.                     *)

\* A request that commits anything ends with it.
LEMMA CommitEnds ==
  ASSUME IInv, NEW h \in Handlers, HandlerStep(h), ~UNCHANGED tables
  PROVE  Commits(h, req[h].group)
<1>1. TypeOK
  BY DEF IInv
<1>2. pc[h] # "idle" /\ Return(h)
  BY TableSteps DEF InsertRow, CommitInsert, CommitUpdate, CommitLeave, DropGroup
<1> QED BY <1>1, <1>2, OwnReturn DEF Commits

\* What a step may do to the leaders of a group.
LEMMA UnledStep ==
  ASSUME RaceInv, NEW h \in Handlers, HandlerStep(h), NEW g \in DOMAIN groupInfo',
         LeadersOf(g)' = {}
  PROVE  \/ g \in DOMAIN groupInfo /\ LeadersOf(g) = {}
         \/ /\ Commits(h, g) /\ req[h].op = "leave"
            /\ \/ loc[h].role = 0 /\ "joined" \in news[h]
               \/ loc[h].role = 1 /\ "left" \in news[h]
<1>1. IInv /\ TypeOK /\ AsRead(h)
  BY DEF RaceInv, IInv
<1>2. ASSUME NEW r \in DOMAIN groupUser', groupUser'[r].group = g,
             groupUser'[r].role = 0
      PROVE  FALSE
  <2>1. PICK u : u = groupUser'[r].user
    OBVIOUS
  <2>2. u \in LeadersOf(g)'
    BY <1>2, <2>1, WhoIsIn
  <2> QED BY <2>2
<1>3. ASSUME \A r \in DOMAIN groupUser : groupUser[r].group = g /\ groupUser[r].role = 0
               => r \in DOMAIN groupUser' /\ groupUser'[r].group = g
                    /\ groupUser'[r].role = 0
      PROVE  LeadersOf(g) = {}
  BY <1>2, <1>3, WhoIsIn
<1>4. CASE g \notin DOMAIN groupInfo
  <2>1. CommitInsert(h)
    BY <1>1, <1>4, TableSteps
       DEF tables, InsertRow, CommitUpdate, CommitLeave, DropGroup, GroupExists,
           Put, Without, Restrict
  <2> QED BY <1>1, <1>2, <1>4, <2>1, RowsAfterCommit
<1>5. CASE UNCHANGED tables \/ InsertRow(h) \/ CommitInsert(h) \/ CommitUpdate(h)
  <2>1. \A r \in DOMAIN groupUser : r \in DOMAIN groupUser'
                                     /\ groupUser'[r] = groupUser[r]
    <3>1. CASE UNCHANGED tables \/ CommitUpdate(h)
      BY <3>1 DEF tables, CommitUpdate
    <3>2. CASE InsertRow(h)
      BY <1>1, <3>2, RowsAfterInsert
    <3>3. CASE CommitInsert(h)
      BY <1>1, <3>3, RowsAfterCommit
    <3> QED BY <1>5, <3>1, <3>2, <3>3
  <2> QED BY <1>3, <1>4, <2>1
<1>6. CASE (CommitLeave(h) \/ DropGroup(h)) /\ ~UNCHANGED tables
  <2>0. /\ groupUser' = AfterLeave(h) /\ g \in DOMAIN groupInfo
        /\ DropGroup(h) => groupInfo' = Without(groupInfo, {req[h].group})
    BY <1>6 DEF CommitLeave, DropGroup, Without, Restrict
  <2>1. /\ req[h].op = "leave" /\ Flushed(h)
        /\ loc[h].row \in DOMAIN groupUser
        /\ loc[h].heir # NoId => loc[h].heir \in DOMAIN groupUser
        /\ DOMAIN groupUser' = DOMAIN groupUser \ {loc[h].row}
        /\ \A r \in DOMAIN groupUser' :
             /\ groupUser'[r].group = groupUser[r].group
             /\ groupUser'[r].role =
                  IF r = loc[h].heir THEN 0 ELSE groupUser[r].role
    <3>1. Flushed(h)
      BY <1>6 DEF Flushed, CommitLeave, DropGroup
    <3>2. /\ req[h].op = "leave" /\ loc[h].row \in loc[h].locks
          /\ loc[h].locks = {loc[h].row, loc[h].heir} \ {NoId}
          /\ loc[h].locks \subseteq DOMAIN groupUser
      BY <1>1, <3>1 DEF IInv, LocksHeld
    <3>3. groupUser' = AfterLeave(h)
      BY <2>0
    <3>4. /\ DOMAIN groupUser' = DOMAIN groupUser \ {loc[h].row}
          /\ \A r \in DOMAIN groupUser' :
               /\ groupUser'[r].group = groupUser[r].group
               /\ groupUser'[r].role =
                    IF r = loc[h].heir THEN 0 ELSE groupUser[r].role
      BY <1>1, <3>3, RowsAfterLeave
    <3> QED BY <3>1, <3>2, <3>4
  <2>2. SUFFICES ASSUME NEW r \in DOMAIN groupUser, groupUser[r].group = g,
                        groupUser[r].role = 0, r \notin DOMAIN groupUser'
                 PROVE  /\ Commits(h, g)
                        /\ \/ loc[h].role = 0 /\ "joined" \in news[h]
                           \/ loc[h].role = 1 /\ "left" \in news[h]
    BY <1>3, <2>0, <2>1
  <2>3. r = loc[h].row /\ req[h].group = g
    BY <1>1, <2>1, <2>2 DEF IInv, ReadsStillTrue
  <2>4. Commits(h, g)
    BY <1>1, <2>2, <2>3, CommitEnds DEF tables
  <2>5. pc[h] = "commitLeave"
    <3>1. g \notin DOMAIN Without(groupInfo, {g})
      BY DEF Without, Restrict
    <3>2. ~DropGroup(h)
      BY <2>0, <2>3, <3>1
    <3> QED BY <1>6, <3>2 DEF CommitLeave
  <2>6. loc[h].heir = NoId
    <3>1. ASSUME loc[h].heir # NoId PROVE FALSE
      <4>1. /\ loc[h].heir \in DOMAIN groupUser'
            /\ groupUser[loc[h].heir].group = g
        BY <1>1, <2>1, <2>3, <3>1 DEF IInv, OneEnd, ReadsStillTrue
      <4> QED BY <1>2, <2>1, <4>1
    <3> QED BY <3>1
  <2>7. loc[h].role \in {0, 1}
    BY <1>1 DEF TypeOK, LocType
  <2>8. CASE loc[h].role = 0
    BY <1>1, <2>1, <2>4, <2>5, <2>6, <2>8
       DEF AsRead, LeaveUnlessTold, Heirless
  <2>9. CASE loc[h].role = 1
    <3>1. ~RoleAsRead(h)
      BY <2>1, <2>2, <2>3, <2>5, <2>9 DEF RoleAsRead, Looked
    <3> QED BY <1>1, <2>1, <2>4, <2>9, <3>1 DEF AsRead, LeaveUnlessTold
  <2> QED BY <2>7, <2>8, <2>9
<1> QED BY <1>1, <1>5, <1>6, TableSteps

\* However requests interleave and fail, a group loses its leader only to a
\* leave that was overtaken: by a join where nobody had been found to take over,
\* or by another leave that made a leader of the member who goes.
THEOREM LedUnlessTold == RSpec => LedUnlessOvertaken
<1> DEFINE A == \A g \in DOMAIN groupInfo' :
                  LeadersOf(g)' = {} =>
                    \/ g \in DOMAIN groupInfo /\ LeadersOf(g) = {}
                    \/ \E h \in Handlers :
                         /\ Commits(h, g) /\ req[h].op = "leave"
                         /\ \/ loc[h].role = 0 /\ "joined" \in news[h]
                            \/ loc[h].role = 1 /\ "left" \in news[h]
<1>1. ASSUME RaceInv, RNext PROVE A
  <2>1. ASSUME UNCHANGED tables PROVE A
    BY <2>1 DEF tables, LeadersOf, UsersOf, RowsOf
  <2>2. ASSUME NEW h \in Handlers, HandlerStep(h) PROVE A
    BY <1>1, <2>2, UnledStep
  <2> QED BY <1>1, <2>1, <2>2 DEF RNext, Next, Crash, HandlerStep
<1>2. RaceInv /\ [RNext]_rvars => [A]_rvars
  BY <1>1
<1> QED BY <1>2, RaceInvariance, PTL DEF RSpec, LedUnlessOvertaken

\* What a step may do to the room of a group.
LEMMA RoomStep ==
  ASSUME RaceInv, NEW h \in Handlers, HandlerStep(h), NEW g \in DOMAIN groupInfo',
         Overfull(g)'
  PROVE  \/ Overfull(g)
         \/ g \in DOMAIN groupInfo /\ groupInfo'[g].max < groupInfo[g].max
         \/ g \notin DOMAIN groupInfo /\ groupInfo'[g].max = 0
         \/ /\ Commits(h, g) /\ req[h].op = "join"
            /\ "moved" \in news[h] \/ req[h].max > IntegerCacheHigh
<1>1. /\ IInv /\ TypeOK /\ TypeOK' /\ AsRead(h) /\ PointOf(h)
      /\ IsFiniteSet(DOMAIN groupUser)
  BY TypeStep DEF RaceInv, IInv, InPlace, HandlerStep, Next
<1>2. PICK n, S : n = Cardinality(RowsOf(g)) /\ S = RowsOf(g)'
  OBVIOUS
<1>3. n \in Nat /\ IsFiniteSet(RowsOf(g))
  BY <1>1, <1>2, RowsFinite
<1>4. /\ groupInfo'[g].max \in Nat
      /\ g \in DOMAIN groupInfo => groupInfo[g].max \in Nat
  BY <1>1 DEF TypeOK, Table, GroupRow
<1>5. Cardinality(S) > groupInfo'[g].max
  BY <1>2 DEF Overfull
<1>6. ASSUME g \in DOMAIN groupInfo, S \subseteq RowsOf(g)
      PROVE  Overfull(g) \/ groupInfo'[g].max < groupInfo[g].max
  <2>1. Cardinality(S) \in Nat /\ Cardinality(S) <= n
    BY <1>2, <1>3, <1>6, FS_Subset, FS_CardinalityType
  <2> QED BY <1>2, <1>3, <1>4, <1>5, <1>6, <2>1 DEF Overfull
<1>7. CASE g # req[h].group
  BY <1>1, <1>2, <1>6, <1>7, RowsElsewhere
<1>8. CASE UNCHANGED tables \/ CommitUpdate(h)
  BY <1>2, <1>6, <1>8 DEF tables, CommitUpdate, GroupExists, Put, RowsOf
<1>9. CASE InsertRow(h) /\ g = req[h].group
  <2>1. groupInfo' = groupInfo /\ pc[h] = "insertRow" /\ req[h].op = "join"
    BY <1>1, <1>9 DEF InsertRow, PointOf
  <2>2. CASE groupUser' = groupUser
    BY <1>2, <1>6, <2>1, <2>2 DEF RowsOf
  <2>3. CASE groupUser' # groupUser
    <3>1. /\ DOMAIN groupUser' = DOMAIN groupUser \cup {NewRow}
          /\ \A r \in DOMAIN groupUser : groupUser'[r] = groupUser[r]
          /\ groupUser'[NewRow].group = g /\ NewRow \notin DOMAIN groupUser
      BY <1>1, <1>9, <2>3, RowsAfterInsert DEF UsedRows
    <3>2. S = RowsOf(g) \cup {NewRow} /\ NewRow \notin RowsOf(g)
      BY <1>2, <3>1 DEF RowsOf
    <3>3. Cardinality(S) = n + 1
      BY <1>2, <1>3, <3>2, FS_AddElement
    <3>4. Commits(h, g)
      BY <1>1, <1>9, <2>3, CommitEnds DEF tables
    <3>5. req[h].max \in Nat /\ IntegerCacheHigh \in Nat
      BY <1>1, CountsAssumption DEF TypeOK, ReqType
    <3>6. ASSUME "moved" \notin news[h], ~(req[h].max > IntegerCacheHigh)
          PROVE  Overfull(g)
      <4>1. groupInfo[g].max = req[h].max /\ ~SameInteger(n, req[h].max)
        BY <1>1, <1>2, <1>9, <2>1, <3>6 DEF AsRead, JoinAsRead
      <4>2. n # groupInfo[g].max
        BY <3>5, <3>6, <4>1 DEF SameInteger
      <4> QED BY <1>2, <1>3, <1>4, <1>5, <2>1, <3>3, <4>2 DEF Overfull
    <3> QED BY <2>1, <3>4, <3>6
  <2> QED BY <2>2, <2>3
<1>10. CASE CommitInsert(h) /\ g = req[h].group
  <2>1. g \notin DOMAIN groupInfo /\ S = {loc[h].row}
    <3>1. /\ g \notin DOMAIN groupInfo
          /\ DOMAIN groupUser' = DOMAIN groupUser \cup {loc[h].row}
          /\ \A r \in DOMAIN groupUser : groupUser'[r] = groupUser[r]
          /\ groupUser'[loc[h].row].group = g
      BY <1>1, <1>10, RowsAfterCommit
    <3>2. \A r \in DOMAIN groupUser : groupUser[r].group # g
      BY <1>1, <3>1 DEF IInv, MembersHaveGroup
    <3> QED BY <1>2, <3>1, <3>2 DEF RowsOf
  <2>2. Cardinality(S) = 1
    BY <2>1, FS_Singleton
  <2> QED BY <1>4, <1>5, <2>1, <2>2
<1>11. CASE CommitLeave(h) \/ DropGroup(h)
  <2>1. /\ g \in DOMAIN groupInfo
        /\ \A r \in DOMAIN groupUser' : r \in DOMAIN groupUser
                                         /\ groupUser'[r].group = groupUser[r].group
    <3>1. g \in DOMAIN groupInfo /\ DOMAIN groupUser' \subseteq DOMAIN groupUser
      BY <1>11 DEF CommitLeave, DropGroup, AfterLeave, Without, Restrict, tables
    <3> QED BY <1>1, <3>1, RowMoves
  <2> QED BY <1>2, <1>6, <2>1 DEF RowsOf
<1> QED BY <1>1, <1>7, <1>8, <1>9, <1>10, <1>11, TableSteps

\* However requests interleave and fail, a group gets more members than its
\* maximum only by lowering the maximum, by a maximum of no place, by a join that
\* was overtaken, or by == on a maximum beyond the Integer cache.
THEOREM RoomUnlessTold == RSpec => RoomUnlessOvertaken
<1> DEFINE A == \A g \in DOMAIN groupInfo' :
                  Overfull(g)' =>
                    \/ Overfull(g)
                    \/ g \in DOMAIN groupInfo /\ groupInfo'[g].max < groupInfo[g].max
                    \/ g \notin DOMAIN groupInfo /\ groupInfo'[g].max = 0
                    \/ \E h \in Handlers :
                         /\ Commits(h, g) /\ req[h].op = "join"
                         /\ \/ "moved" \in news[h]
                            \/ req[h].max > IntegerCacheHigh
<1>1. ASSUME RaceInv, RNext PROVE A
  <2>1. ASSUME UNCHANGED tables PROVE A
    BY <2>1 DEF tables, Overfull, RowsOf
  <2>2. ASSUME NEW h \in Handlers, HandlerStep(h) PROVE A
    BY <1>1, <2>2, RoomStep
  <2> QED BY <1>1, <2>1, <2>2 DEF RNext, Next, Crash, HandlerStep
<1>2. RaceInv /\ [RNext]_rvars => [A]_rvars
  BY <1>1
<1> QED BY <1>2, RaceInvariance, PTL DEF RSpec, RoomUnlessOvertaken

\* What a step may do to the rows of a user.
LEMMA TwiceStep ==
  ASSUME RaceInv, NEW h \in Handlers, HandlerStep(h),
         NEW r \in DOMAIN groupUser', NEW s \in DOMAIN groupUser', r # s,
         groupUser'[r].group = groupUser'[s].group,
         groupUser'[r].user = groupUser'[s].user,
         r \notin DOMAIN groupUser
  PROVE  /\ Commits(h, groupUser'[r].group) /\ req[h].op = "join"
         /\ "again" \in news[h]
<1>1. IInv /\ TypeOK /\ AsRead(h) /\ PointOf(h)
  BY DEF RaceInv, IInv, InPlace
<1>2. /\ groupUser'[r].group = req[h].group /\ groupUser'[r].user = req[h].user
      /\ pc[h] = "insertRow" \/ (req[h].op = "insert" /\ r = loc[h].row)
  BY <1>1, RowMoves
<1>3. Commits(h, req[h].group)
  BY <1>1, CommitEnds DEF tables
<1>4. s \in DOMAIN groupUser /\ groupUser'[s] = groupUser[s]
  <2>1. InsertRow(h) \/ CommitInsert(h)
    BY <1>1, TableSteps DEF tables, CommitUpdate, CommitLeave, DropGroup, AfterLeave
  <2>2. PICK y : DOMAIN groupUser' \subseteq DOMAIN groupUser \cup {y}
    <3>1. CASE InsertRow(h)
      <4>1. DOMAIN groupUser' \subseteq DOMAIN groupUser \cup {NewRow}
        BY <1>1, <3>1, RowsAfterInsert
      <4> QED BY <4>1
    <3>2. CASE CommitInsert(h)
      <4>1. DOMAIN groupUser' \subseteq DOMAIN groupUser \cup {loc[h].row}
        BY <1>1, <3>2, RowsAfterCommit
      <4> QED BY <4>1
    <3> QED BY <2>1, <3>1, <3>2
  <2>3. \A x \in DOMAIN groupUser : groupUser'[x] = groupUser[x]
    <3>1. CASE InsertRow(h)
      BY <1>1, <3>1, RowsAfterInsert
    <3>2. CASE CommitInsert(h)
      BY <1>1, <3>2, RowsAfterCommit
    <3> QED BY <2>1, <3>1, <3>2
  <2> QED BY <2>2, <2>3
<1>5. req[h].op # "insert"
  BY <1>1, <1>2, <1>4 DEF IInv, MembersHaveGroup, InsertsApart
<1>6. pc[h] = "insertRow" /\ req[h].op = "join"
  BY <1>1, <1>2, <1>5 DEF PointOf
<1>7. ~NotYetIn(h)
  BY <1>2, <1>4, <1>6 DEF NotYetIn, RowsOfUser, RowsOf
<1> QED BY <1>1, <1>2, <1>3, <1>6, <1>7 DEF AsRead, JoinAsRead

\* However requests interleave and fail, a user becomes a member a second time
\* only by a join that another join of the same user has overtaken.
THEOREM OneRowUnlessTold == RSpec => OneRowUnlessOvertaken
<1> DEFINE A == \A r, s \in DOMAIN groupUser' :
                  /\ r # s
                  /\ groupUser'[r].group = groupUser'[s].group
                  /\ groupUser'[r].user = groupUser'[s].user
                  => \/ {r, s} \subseteq DOMAIN groupUser
                     \/ \E h \in Handlers : /\ Commits(h, groupUser'[r].group)
                                            /\ req[h].op = "join"
                                            /\ "again" \in news[h]
<1>1. ASSUME RaceInv, RNext PROVE A
  <2>1. ASSUME UNCHANGED tables PROVE A
    BY <2>1 DEF tables
  <2>2. ASSUME NEW h \in Handlers, HandlerStep(h) PROVE A
    BY <1>1, <2>2, TwiceStep
  <2> QED BY <1>1, <2>1, <2>2 DEF RNext, Next, Crash, HandlerStep
<1>2. RaceInv /\ [RNext]_rvars => [A]_rvars
  BY <1>1
<1> QED BY <1>2, RaceInvariance, PTL DEF RSpec, OneRowUnlessOvertaken

\* However requests interleave and fail, a group changes only by an update of its
\* leader, or of a user who was that and has left since.
THEOREM LeaderUpdatesUnlessTold == RSpec => LeaderUpdatesUnlessOvertaken
<1> DEFINE A == \A g \in DOMAIN groupInfo \cap DOMAIN groupInfo' :
                  groupInfo'[g] # groupInfo[g] =>
                    \E h \in Handlers :
                      /\ Commits(h, g) /\ req[h].op = "update"
                      /\ Leads(req[h].user, g) \/ "gone" \in news[h]
<1>1. ASSUME RaceInv, RNext PROVE A
  <2>1. ASSUME UNCHANGED tables PROVE A
    BY <2>1 DEF tables
  <2>2. ASSUME NEW h \in Handlers, HandlerStep(h),
               NEW g \in DOMAIN groupInfo \cap DOMAIN groupInfo',
               groupInfo'[g] # groupInfo[g]
        PROVE  /\ Commits(h, g) /\ req[h].op = "update"
               /\ Leads(req[h].user, g) \/ "gone" \in news[h]
    <3>1. IInv /\ AsRead(h) /\ PointOf(h)
      BY <1>1 DEF RaceInv, InPlace
    <3>2. g = req[h].group
      BY <2>2, <3>1, RowsElsewhere
    <3>3. ~CommitInsert(h)
      BY <2>2, <3>1, <3>2, RowsAfterCommit
    <3>4. CommitUpdate(h)
      BY <2>2, <3>1, <3>3, TableSteps
         DEF tables, InsertRow, CommitLeave, DropGroup, Without, Restrict
    <3>5. pc[h] = "commitUpdate" /\ req[h].op = "update"
      BY <3>1, <3>4 DEF CommitUpdate, PointOf
    <3>6. Commits(h, g)
      BY <2>2, <3>1, <3>2, CommitEnds DEF tables
    <3> QED BY <3>1, <3>2, <3>5, <3>6 DEF AsRead, UpdateAsRead, UpdaterLeads
  <2> QED BY <1>1, <2>1, <2>2 DEF RNext, Next, Crash, HandlerStep
<1>2. RaceInv /\ [RNext]_rvars => [A]_rvars
  BY <1>1
<1> QED BY <1>2, RaceInvariance, PTL DEF RSpec, LeaderUpdatesUnlessOvertaken

-----------------------------------------------------------------------------
(* The service does what Groups promises, but for overtaken requests.      *)

\* A step that only touches the rows of one group shows in no other.
LEMMA OtherGroupsCommitted ==
  ASSUME NEW g, NEW x \in DOMAIN groupInfo \cap DOMAIN groupInfo', x # g,
         groupInfo'[x] = groupInfo[x],
         \A r \in DOMAIN groupUser : groupUser[r].group # g =>
           r \in DOMAIN groupUser' /\ groupUser'[r] = groupUser[r],
         \A r \in DOMAIN groupUser' : groupUser'[r].group # g =>
           r \in DOMAIN groupUser /\ groupUser'[r] = groupUser[r]
  PROVE  Committed'[x] = Committed[x]
<1>1. \A u : u \in MembersOf(x)' <=> u \in MembersOf(x)
  BY WhoIsIn
<1>2. \A u : u \in LeadersOf(x)' <=> u \in LeadersOf(x)
  BY WhoIsIn
<1>3. MembersOf(x)' = MembersOf(x) /\ LeadersOf(x)' = LeadersOf(x)
  <2>1. PICK a, b, c, d : /\ a = MembersOf(x) /\ b = MembersOf(x)'
                          /\ c = LeadersOf(x) /\ d = LeadersOf(x)'
    OBVIOUS
  <2> QED BY <1>1, <1>2, <2>1
<1> QED BY <1>3, CommittedFacts

\* The users of a group are at most its rows.
LEMMA MembersCounted ==
  ASSUME IsFiniteSet(DOMAIN groupUser), NEW g
  PROVE  /\ Cardinality(MembersOf(g)) \in Nat
         /\ Cardinality(MembersOf(g)) <= Cardinality(RowsOf(g))
<1>1. PICK S : S = RowsOf(g)
  OBVIOUS
<1>2. PICK T : T = MembersOf(g)
  OBVIOUS
<1>3. IsFiniteSet(S)
  BY <1>1, RowsFinite
<1>4. PICK f : f = [r \in S |-> groupUser[r].user]
  OBVIOUS
<1>5. T = {groupUser[r].user : r \in S}
  BY <1>1, <1>2 DEF MembersOf, UsersOf
<1>6. f \in [S -> T]
  BY <1>4, <1>5
<1>7. f \in Surjection(S, T)
  BY <1>4, <1>5, <1>6 DEF Surjection
<1>8. IsFiniteSet(T) /\ Cardinality(T) <= Cardinality(S)
  BY <1>3, <1>7, FS_Surjection
<1> QED BY <1>1, <1>2, <1>8, FS_CardinalityType

\* Both modules count alike.
LEMMA SameCardinality ==
  ASSUME NEW S PROVE Promise!Cardinality(S) = Cardinality(S)
BY DEF Promise!Cardinality, Cardinality

\* The founder leads the first group, which is not overfull.
LEMMA PromiseInit == Init => Promise!Init
<1> SUFFICES ASSUME Init PROVE Promise!Init
  OBVIOUS
<1>1. PICK n : n = Len(Founders)
  OBVIOUS
<1>2. n \in Nat /\ n > 0 /\ \A i \in 1..n : Founders[i] \in Users
  BY <1>1, FoundersAssumption
<1>3. PICK m \in MaxCounts :
        m >= n /\ groupInfo = [g \in {1} |-> [max |-> m, rev |-> 1]]
  BY <1>1 DEF Init
<1>4. /\ DOMAIN groupUser = 1..n
      /\ \A r \in 1..n : /\ groupUser[r].group = 1
                         /\ groupUser[r].user = Founders[r]
                         /\ groupUser[r].role = 0 <=> r = 1
  BY <1>1 DEF Init
<1>5. PICK M : M = MembersOf(1)
  OBVIOUS
<1>6. M \subseteq Users
  BY <1>2, <1>4, <1>5 DEF MembersOf, UsersOf, RowsOf
<1>7. LeadersOf(1) = {Founders[1]} /\ Founders[1] \in M
  <2>1. 1 \in 1..n
    BY <1>2
  <2>2. {r \in RowsOf(1) : groupUser[r].role = 0} = {1}
    BY <1>4, <2>1 DEF RowsOf
  <2>3. LeadersOf(1) = {Founders[1]}
    BY <1>4, <2>1, <2>2 DEF LeadersOf, UsersOf
  <2>4. Founders[1] \in M
    BY <1>4, <1>5, <2>1, WhoIsIn
  <2> QED BY <2>3, <2>4
<1>8. Cardinality(M) <= m
  <2>1. IsFiniteSet(1..n) /\ Cardinality(1..n) = n
    <3>1. IsFiniteSet(1..n) /\ Cardinality(1..n) = IF 1 > n THEN 0 ELSE n - 1 + 1
      BY <1>2, FS_Interval
    <3> QED BY <1>2, <3>1
  <2>2. RowsOf(1) = 1..n
    BY <1>4 DEF RowsOf
  <2>3. Cardinality(M) \in Nat /\ Cardinality(M) <= n
    BY <1>4, <1>5, <2>1, <2>2, MembersCounted
  <2> QED BY <1>2, <1>3, <2>3, CountsAssumption
<1>9. Committed = [x \in {1} |-> [members |-> M, leads |-> {Founders[1]},
                                  max |-> m, rev |-> 1]]
  BY <1>3, <1>5, <1>7, CommittedFacts
<1>10. 1 \in GroupIds /\ 1 \in DocIds /\ Founders[1] \in Users
  BY <1>2, IdsAssumption
<1>11. M \in SUBSET Users /\ Promise!Cardinality(M) <= m
  BY <1>6, <1>8, SameCardinality
<1> SUFFICES \E g \in GroupIds, k \in MaxCounts, c \in DocIds,
                A \in SUBSET Users, u \in Users :
               /\ u \in A /\ Promise!Cardinality(A) <= k
               /\ Committed = [x \in {g} |-> [members |-> A, leads |-> {u},
                                              max |-> k, rev |-> c]]
  BY DEF Promise!Init
<1> USE <1>10, <1>11
<1> WITNESS 1 \in GroupIds, m \in MaxCounts, 1 \in DocIds, M \in SUBSET Users,
            Founders[1] \in Users
<1> QED BY <1>7, <1>9, <1>11

\* A committed insert creates a group with its founder.
LEMMA CreateMaps ==
  ASSUME RaceInv, NEW h \in Handlers, CommitInsert(h)
  PROVE  Promise!Next
<1>1. PICK g, u, m, c : /\ g = req[h].group /\ u = req[h].user
                        /\ m = req[h].max /\ c = loc[h].doc
  OBVIOUS
<1>2. TypeOK /\ IInv /\ req[h].op = "insert" /\ g \notin DOMAIN groupInfo
  BY <1>1, RowsAfterCommit DEF IInv, RaceInv
<1>3. g \in GroupIds /\ u \in Users /\ c \in DocIds /\ m \in MaxCounts
  <2>1. pc[h] = "commitInsert"
    BY DEF CommitInsert
  <2>2. LocalsOf(h)
    BY <1>2 DEF IInv, LocalsInOrder
  <2>3. m \in MaxCounts
    BY <1>1, <1>2 DEF RaceInv, AsRead, AsksAllowed
  <2> QED BY <1>1, <2>1, <2>2, <2>3 DEF LocalsOf
<1>4. \A r \in DOMAIN groupUser : groupUser[r].group # g
  BY <1>2 DEF IInv, MembersHaveGroup
<1>5. PICK w : w = loc[h].row
  OBVIOUS
<1>6. /\ w \notin DOMAIN groupUser /\ DOMAIN groupUser' = DOMAIN groupUser \cup {w}
      /\ \A r \in DOMAIN groupUser : groupUser'[r] = groupUser[r]
      /\ groupUser'[w].group = g /\ groupUser'[w].role = 0
      /\ groupUser'[w].user = u
  <2>1. groupUser'[w].user = u
    BY <1>1, <1>5 DEF CommitInsert, Put
  <2> QED BY <1>1, <1>2, <1>5, <2>1, RowsAfterCommit
<1>7. /\ DOMAIN groupInfo' = DOMAIN groupInfo \cup {g}
      /\ \A x \in DOMAIN groupInfo : groupInfo'[x] = groupInfo[x]
      /\ groupInfo'[g].max = m /\ groupInfo'[g].rev = c
  BY <1>1, <1>2 DEF CommitInsert, Put
<1>8. \A x \in DOMAIN groupInfo : Committed'[x] = Committed[x]
  BY <1>2, <1>4, <1>6, <1>7, OtherGroupsCommitted
<1>9. MembersOf(g)' = {u} /\ LeadersOf(g)' = {u}
  <2>1. RowsOf(g)' = {w}
    BY <1>4, <1>6 DEF RowsOf
  <2>2. {r \in RowsOf(g) : groupUser[r].role = 0}' = {w}
    BY <1>6, <2>1
  <2> QED BY <1>6, <2>1, <2>2 DEF MembersOf, LeadersOf, UsersOf
<1>10. Committed'[g] = [members |-> {u}, leads |-> {u}, max |-> m, rev |-> c]
  BY <1>7, <1>9, CommittedFacts
<1>11. DOMAIN Committed = DOMAIN groupInfo
  BY CommittedFacts
<1>12. Promise!Create(u, g, m, c)
  <2>1. Committed' = [x \in DOMAIN groupInfo' |-> Committed'[x]]
    BY CommittedFacts
  <2>2. Committed' =
          [x \in DOMAIN Committed \cup {g} |->
             IF x = g THEN [members |-> {u}, leads |-> {u}, max |-> m, rev |-> c]
                      ELSE Committed[x]]
    BY <1>7, <1>8, <1>10, <1>11, <2>1
  <2> QED BY <1>2, <1>11, <2>2 DEF Promise!Create
<1> QED BY <1>3, <1>12 DEF Promise!Next

\* A committed row of a join makes its user a member of a group with room.
LEMMA JoinMaps ==
  ASSUME RaceInv, NEW h \in Handlers, InsertRow(h), GroupExists(h), ~Overtaken(h)
  PROVE  Promise!Next
<1>1. PICK g, u : g = req[h].group /\ u = req[h].user
  OBVIOUS
<1>2. /\ TypeOK /\ PointOf(h) /\ AsRead(h)
      /\ pc[h] = "insertRow" /\ IsFiniteSet(DOMAIN groupUser) /\ LocalsOf(h)
  BY DEF RaceInv, IInv, InPlace, InsertRow, LocalsInOrder
<1>3. /\ req[h].op = "join" /\ g \in DOMAIN groupInfo /\ u \in Users
      /\ RowsOfUser(g, u) = {} /\ groupInfo[g].max = req[h].max
      /\ ~SameInteger(Cardinality(RowsOf(g)), req[h].max)
      /\ ~(req[h].max > IntegerCacheHigh) /\ ~Overfull(g)
  BY <1>1, <1>2 DEF PointOf, NotYetIn, GroupExists, LocalsOf, AsRead, JoinAsRead,
                    Overtaken
<1>4. PICK w : w = NewRow
  OBVIOUS
<1>5. /\ w \notin DOMAIN groupUser /\ DOMAIN groupUser' = DOMAIN groupUser \cup {w}
      /\ \A r \in DOMAIN groupUser : groupUser'[r] = groupUser[r]
      /\ groupUser'[w].group = g /\ groupUser'[w].role = 1
      /\ groupUser'[w].user = u
  <2>1. w \notin DOMAIN groupUser
    BY <1>2, <1>4, RowsAfterInsert DEF UsedRows
  <2>2. groupUser' = Put(groupUser, w, [group |-> g, user |-> u, role |-> 1])
    BY <1>1, <1>3, <1>4 DEF InsertRow, GroupExists
  <2> QED BY <2>1, <2>2 DEF Put
<1>6. groupInfo' = groupInfo
  BY DEF InsertRow
<1>7. \A x \in DOMAIN groupInfo : x # g => Committed'[x] = Committed[x]
  BY <1>5, <1>6, OtherGroupsCommitted
<1>8. MembersOf(g)' = MembersOf(g) \cup {u} /\ LeadersOf(g)' = LeadersOf(g)
  <2>1. PICK a, b, c, d : /\ a = MembersOf(g) /\ b = MembersOf(g)'
                          /\ c = LeadersOf(g) /\ d = LeadersOf(g)'
    OBVIOUS
  <2>2. \A v : v \in b <=> v \in a \cup {u}
    BY <1>5, <2>1, WhoIsIn
  <2>3. \A v : v \in d <=> v \in c
    BY <1>5, <2>1, WhoIsIn
  <2> QED BY <2>1, <2>2, <2>3
<1>9. /\ Committed[g].members = MembersOf(g) /\ Committed[g].leads = LeadersOf(g)
      /\ Committed[g].max = groupInfo[g].max
      /\ Committed[g] = [members |-> MembersOf(g), leads |-> LeadersOf(g),
                         max |-> groupInfo[g].max, rev |-> groupInfo[g].rev]
  BY <1>3, CommittedFacts
<1>10. Committed'[g] = [Committed[g] EXCEPT !.members = @ \cup {u}]
  <2>1. Committed'[g] = [members |-> MembersOf(g)', leads |-> LeadersOf(g)',
                         max |-> groupInfo'[g].max, rev |-> groupInfo'[g].rev]
    BY <1>3, <1>6, CommittedFacts
  <2> QED BY <1>6, <1>8, <1>9, <2>1
<1>11. u \notin MembersOf(g)
  BY <1>3, WhoIsIn DEF RowsOfUser, RowsOf
<1>12. Cardinality(MembersOf(g)) < groupInfo[g].max
  <2>1. PICK k, n, m : /\ k = Cardinality(MembersOf(g))
                       /\ n = Cardinality(RowsOf(g)) /\ m = groupInfo[g].max
    OBVIOUS
  <2>2. k \in Nat /\ n \in Nat /\ k <= n
    BY <1>2, <2>1, MembersCounted, RowsFinite
  <2>3. m \in Nat /\ IntegerCacheHigh \in Nat
    BY <1>2, <1>3, <2>1, CountsAssumption DEF TypeOK, Table, GroupRow
  <2>4. n # m /\ ~(n > m)
    BY <1>3, <2>1, <2>3 DEF SameInteger, Overfull
  <2> QED BY <2>1, <2>2, <2>3, <2>4
<1>13. Promise!Join(u, g)
  <2>1. /\ Committed = [x \in DOMAIN groupInfo |-> Committed[x]]
        /\ Committed' = [x \in DOMAIN groupInfo |-> Committed'[x]]
    BY <1>6, CommittedFacts
  <2>2. Committed' = [Committed EXCEPT ![g].members = @ \cup {u}]
    BY <1>3, <1>7, <1>10, <2>1
  <2>3. Promise!Cardinality(Committed[g].members) < Committed[g].max
    BY <1>9, <1>12, SameCardinality
  <2> QED BY <1>9, <1>11, <2>2, <2>3 DEF Promise!Join
<1>14. g \in DOMAIN Committed
  BY <1>3, CommittedFacts
<1> QED BY <1>3, <1>13, <1>14 DEF Promise!Next

\* A committed update changes a group its user leads, or nothing.
LEMMA UpdateMaps ==
  ASSUME RaceInv, NEW h \in Handlers, CommitUpdate(h), ~Overtaken(h)
  PROVE  Promise!Next \/ UNCHANGED Committed
<1>1. PICK g, u, m, c : /\ g = req[h].group /\ u = req[h].user
                        /\ m = req[h].max /\ c = loc[h].doc
  OBVIOUS
<1>2. /\ TypeOK /\ IInv /\ PointOf(h) /\ AsRead(h)
      /\ pc[h] = "commitUpdate" /\ LocalsOf(h) /\ groupUser' = groupUser
  BY DEF RaceInv, IInv, InPlace, CommitUpdate, LocalsInOrder
<1>3. /\ req[h].op = "update" /\ g \in DOMAIN groupInfo /\ u \in Users
      /\ Leads(u, g) /\ c \in DocIds
  <2>1. req[h].op = "update" /\ u \in Users /\ Leads(u, g) /\ c \in DocIds
    BY <1>1, <1>2 DEF PointOf, AsRead, UpdateAsRead, UpdaterLeads, LocalsOf,
                      Overtaken
  <2>2. g \in DOMAIN groupInfo
    BY <1>2, <2>1 DEF Leads, RowsOf, IInv, MembersHaveGroup
  <2> QED BY <2>1, <2>2
<1>4. m \in MaxCounts
  BY <1>1, <1>2, <1>3 DEF AsRead, AsksAllowed
<1>5. u \in LeadersOf(g)
  BY <1>3, WhoIsIn DEF Leads, RowsOf
<1>6. CASE req[h].body = "badRow"
  BY <1>2, <1>6 DEF CommitUpdate, Committed, MembersOf, LeadersOf, UsersOf, RowsOf
<1>7. CASE req[h].body # "badRow"
  <2>1. /\ DOMAIN groupInfo' = DOMAIN groupInfo
        /\ \A x \in DOMAIN groupInfo : x # g => groupInfo'[x] = groupInfo[x]
        /\ groupInfo'[g].max = m /\ groupInfo'[g].rev = c
    BY <1>1, <1>3, <1>7 DEF CommitUpdate, GroupExists, Put
  <2>2. \A x \in DOMAIN groupInfo : x # g => Committed'[x] = Committed[x]
    BY <1>2, <2>1, OtherGroupsCommitted
  <2>3. MembersOf(g)' = MembersOf(g) /\ LeadersOf(g)' = LeadersOf(g)
    BY <1>2 DEF MembersOf, LeadersOf, UsersOf, RowsOf
  <2>4. /\ Committed[g] = [members |-> MembersOf(g), leads |-> LeadersOf(g),
                           max |-> groupInfo[g].max, rev |-> groupInfo[g].rev]
        /\ Committed'[g] = [members |-> MembersOf(g), leads |-> LeadersOf(g),
                            max |-> m, rev |-> c]
    BY <1>3, <2>1, <2>3, CommittedFacts
  <2>5. /\ Committed = [x \in DOMAIN groupInfo |-> Committed[x]]
        /\ Committed' = [x \in DOMAIN groupInfo |-> Committed'[x]]
    BY <2>1, CommittedFacts
  <2>6. Committed'[g] = [[Committed[g] EXCEPT !.max = m] EXCEPT !.rev = c]
    <3>1. PICK a, b, k, r, v, w :
            /\ a = MembersOf(g) /\ b = LeadersOf(g) /\ k = groupInfo[g].max
            /\ r = groupInfo[g].rev /\ v = Committed[g] /\ w = Committed'[g]
      OBVIOUS
    <3>2. /\ v = [members |-> a, leads |-> b, max |-> k, rev |-> r]
          /\ w = [members |-> a, leads |-> b, max |-> m, rev |-> c]
      BY <2>4, <3>1
    <3>3. [v EXCEPT !.max = m]
            = [members |-> a, leads |-> b, max |-> m, rev |-> r]
      BY <3>2
    <3>4. PICK p : p = [v EXCEPT !.max = m]
      OBVIOUS
    <3>5. p = [members |-> a, leads |-> b, max |-> m, rev |-> r]
      BY <3>3, <3>4, Zenon
    <3>6. w = [p EXCEPT !.rev = c]
      BY <3>2, <3>5
    <3> QED BY <3>1, <3>4, <3>6, Zenon
  <2>7. Committed' = [Committed EXCEPT ![g].max = m, ![g].rev = c]
    BY <1>3, <2>2, <2>5, <2>6
  <2>8. u \in Committed[g].leads /\ g \in DOMAIN Committed
    BY <1>3, <1>5, <2>4, <2>5
  <2>9. Promise!Update(u, g, m, c)
    BY <2>7, <2>8 DEF Promise!Update
  <2> QED BY <1>3, <1>4, <2>8, <2>9 DEF Promise!Next
<1> QED BY <1>6, <1>7

\* A committed leave takes away one member, who leads no longer: either somebody
\* else did, or the heir does now.
LEMMA LeaveMaps ==
  ASSUME RaceInv, NEW h \in Handlers, CommitLeave(h), ~Overtaken(h)
  PROVE  Promise!Next
<1>1. PICK g, u, l, e : /\ g = req[h].group /\ u = req[h].user
                        /\ l = loc[h].row /\ e = loc[h].heir
  OBVIOUS
<1>2. /\ TypeOK /\ IInv /\ AsRead(h) /\ pc[h] = "commitLeave" /\ LocalsOf(h)
      /\ groupInfo' = groupInfo /\ AtMostOneLeader /\ Flushed(h)
      /\ groupUser' = AfterLeave(h)
  BY DEF RaceInv, IInv, CommitLeave, LocalsInOrder, Flushed
<1>3. /\ req[h].op = "leave" /\ g \in DOMAIN groupInfo /\ u \in Users
      /\ l \in DOMAIN groupUser /\ groupUser[l].group = g
      /\ groupUser[l].user = u /\ groupUser[l].role = loc[h].role
      /\ RowsOfUser(g, u) = {l} /\ ~Heirless(h)
  <2>1. req[h].op = "leave"
    BY <1>2 DEF IInv, LocksHeld
  <2>2. OnlyRow(h) /\ RoleAsRead(h) /\ ~Heirless(h)
    BY <1>2, <2>1 DEF AsRead, LeaveUnlessTold, Overtaken
  <2>3. /\ RowsOfUser(g, u) = {l} /\ groupUser[l].role = loc[h].role
    BY <1>1, <1>2, <2>1, <2>2 DEF OnlyRow, RoleAsRead, Looked
  <2>4. /\ u \in Users /\ l \in DOMAIN groupUser /\ groupUser[l].group = g
        /\ groupUser[l].user = u
    BY <1>1, <1>2, <2>3 DEF LocalsOf, RowsOfUser, RowsOf
  <2> QED BY <1>2, <2>1, <2>2, <2>3, <2>4 DEF IInv, MembersHaveGroup
<1>4. /\ DOMAIN groupUser' = DOMAIN groupUser \ {l}
      /\ \A r \in DOMAIN groupUser' :
           /\ groupUser'[r].group = groupUser[r].group
           /\ groupUser'[r].user = groupUser[r].user
           /\ groupUser'[r].role = IF r = e THEN 0 ELSE groupUser[r].role
  BY <1>1, <1>2, RowsAfterLeave
<1>5. \A r \in DOMAIN groupUser : groupUser[r].group = g /\ groupUser[r].user = u
                                    => r = l
  BY <1>3 DEF RowsOfUser, RowsOf
<1>6. \/ e \in Heirs(g) /\ loc[h].role = 0
      \/ e = NoId /\ loc[h].role # 0
  <2>1. CASE e = NoId
    BY <1>1, <1>2, <1>3, <2>1 DEF Heirless
  <2>2. CASE e # NoId
    <3>1. e \in DOMAIN groupUser /\ e # l
      BY <1>1, <1>2, <2>2 DEF IInv, LocksHeld, OneEnd
    <3>2. groupUser[e].group = g /\ loc[h].role = 0
      BY <1>1, <1>2, <3>1 DEF IInv, ReadsStillTrue
    <3>3. groupUser[e].role # 0
      BY <1>2, <1>3, <3>1, <3>2 DEF AtMostOneLeader
    <3> QED BY <3>1, <3>2, <3>3 DEF Heirs, RowsOf
  <2> QED BY <2>1, <2>2
<1>7. NoId \notin DOMAIN groupUser
  BY <1>2, TypedTables
<1>8. ASSUME NEW x \in DOMAIN groupInfo, x # g PROVE Committed'[x] = Committed[x]
  <2>1. \A r \in DOMAIN groupUser' : groupUser[r] \in UserRow /\ groupUser'[r] \in UserRow
    <3>1. TypeOK'
      BY <1>2, TypeStep DEF Next, Work
    <3> QED BY <1>2, <1>4, <3>1 DEF TypeOK, Table
  <2>2. e \in DOMAIN groupUser => groupUser[e].group = g
    BY <1>6, <1>7 DEF Heirs, RowsOf
  <2>3. \A r \in DOMAIN groupUser' : groupUser[r].group # g
                                      => groupUser'[r] = groupUser[r]
    BY <1>4, <2>1, <2>2 DEF UserRow
  <2> QED BY <1>2, <1>3, <1>4, <1>8, <2>3, OtherGroupsCommitted
<1>9. MembersOf(g)' = MembersOf(g) \ {u} /\ u \in MembersOf(g)
  <2>1. PICK a, b : a = MembersOf(g) /\ b = MembersOf(g)'
    OBVIOUS
  <2>2. \A v : v \in b <=> v \in a \ {u}
    BY <1>3, <1>4, <1>5, <2>1, WhoIsIn
  <2>3. u \in a
    BY <1>3, <2>1, WhoIsIn
  <2> QED BY <2>1, <2>2, <2>3
<1>10. PICK a, b, k, r, d :
         /\ a = MembersOf(g) /\ b = LeadersOf(g) /\ k = groupInfo[g].max
         /\ r = groupInfo[g].rev /\ d = LeadersOf(g)'
  OBVIOUS
<1>11. /\ Committed[g] = [members |-> a, leads |-> b, max |-> k, rev |-> r]
       /\ Committed'[g] = [members |-> a \ {u}, leads |-> d, max |-> k, rev |-> r]
       /\ Committed = [x \in DOMAIN groupInfo |-> Committed[x]]
       /\ Committed' = [x \in DOMAIN groupInfo |-> Committed'[x]]
  BY <1>2, <1>3, <1>9, <1>10, CommittedFacts
<1>12. g \in DOMAIN Committed
  BY <1>3, CommittedFacts
<1>13. CASE e = NoId
  <2>1. loc[h].role # 0
    BY <1>6, <1>7, <1>13 DEF Heirs, RowsOf
  <2>2. d = b /\ u \notin b
    <3>1. \A v : v \in d <=> v \in b
      BY <1>3, <1>4, <1>7, <1>10, <1>13, <2>1, WhoIsIn
    <3>2. u \notin b
      BY <1>3, <1>5, <1>10, <2>1, WhoIsIn
    <3> QED BY <1>10, <3>1, <3>2 DEF LeadersOf, UsersOf
  <2>3. u \in Committed[g].members \ Committed[g].leads
    BY <1>9, <1>10, <1>11, <2>2
  <2>4. Committed'[g] = [Committed[g] EXCEPT !.members = @ \ {u}]
    <3>1. PICK v, w : v = Committed[g] /\ w = Committed'[g]
      OBVIOUS
    <3>2. w = [v EXCEPT !.members = @ \ {u}]
      BY <1>11, <2>2, <3>1
    <3> QED BY <3>1, <3>2
  <2>5. Committed' = [Committed EXCEPT ![g].members = @ \ {u}]
    BY <1>3, <1>8, <1>11, <2>4
  <2>6. Promise!Leave(u, g)
    BY <2>3, <2>5 DEF Promise!Leave
  <2> QED BY <1>3, <1>12, <2>6 DEF Promise!Next
<1>14. CASE e \in Heirs(g) /\ loc[h].role = 0
  <2>1. /\ e \in DOMAIN groupUser /\ groupUser[e].group = g
        /\ groupUser[e].role # 0 /\ e # l
    BY <1>3, <1>14 DEF Heirs, RowsOf
  <2>2. PICK v : v = groupUser[e].user
    OBVIOUS
  <2>3. v # u /\ v \in a /\ u \in b
    BY <1>3, <1>5, <1>10, <1>14, <2>1, <2>2, WhoIsIn
  <2>4. d = {v}
    <3>1. \A q \in DOMAIN groupUser : groupUser[q].group = g
                                      /\ groupUser[q].role = 0 => q = l
      BY <1>2, <1>3, <1>14 DEF AtMostOneLeader
    <3>2. \A w : w \in d <=> w = v
      BY <1>4, <1>10, <2>1, <2>2, <3>1, WhoIsIn
    <3> QED BY <1>10, <3>2 DEF LeadersOf, UsersOf
  <2>5. v \in Committed[g].members \ {u} /\ u \in Committed[g].leads
    BY <1>11, <2>3
  <2>6. Committed'[g] = [[Committed[g] EXCEPT !.members = @ \ {u}]
                           EXCEPT !.leads = {v}]
    <3>1. PICK p, w : p = Committed[g] /\ w = Committed'[g]
      OBVIOUS
    <3>2. /\ p = [members |-> a, leads |-> b, max |-> k, rev |-> r]
          /\ w = [members |-> a \ {u}, leads |-> {v}, max |-> k, rev |-> r]
      BY <1>11, <2>4, <3>1, Zenon
    <3>3. PICK q : q = [members |-> a \ {u}, leads |-> b, max |-> k, rev |-> r]
      OBVIOUS
    <3>4. [p EXCEPT !.members = @ \ {u}] = q
      BY <3>2, <3>3
    <3>5. [q EXCEPT !.leads = {v}] = w
      BY <3>2, <3>3
    <3> QED BY <3>1, <3>4, <3>5, Zenon
  <2>7. Committed' = [Committed EXCEPT ![g].members = @ \ {u}, ![g].leads = {v}]
    BY <1>3, <1>8, <1>11, <2>6
  <2>8. Promise!HandOver(u, g)
    BY <2>5, <2>7 DEF Promise!HandOver
  <2> QED BY <1>3, <1>12, <2>8 DEF Promise!Next
<1> QED BY <1>6, <1>13, <1>14

\* A group is dropped with its last member.
LEMMA DropMaps ==
  ASSUME RaceInv, NEW h \in Handlers, DropGroup(h)
  PROVE  Promise!Next \/ UNCHANGED tables
<1>0. SUFFICES ASSUME Remaining(h) = {}, groupUser' = AfterLeave(h),
                      groupInfo' = Without(groupInfo, {req[h].group})
               PROVE  Promise!Next
  BY DEF DropGroup
<1>1. PICK g, u, l : g = req[h].group /\ u = req[h].user /\ l = loc[h].row
  OBVIOUS
<1>2. /\ TypeOK /\ IInv /\ pc[h] = "dropGroup" /\ LocalsOf(h) /\ LeavesOwnRow(h)
      /\ Flushed(h) /\ EndsGroup(h)
  BY DEF RaceInv, InPlace, IInv, DropGroup, LocalsInOrder, Flushed, EndsGroup
<1>3. /\ req[h].op = "leave" /\ groupInfo' = Without(groupInfo, {g})
      /\ DOMAIN groupUser' = DOMAIN groupUser \ {l}
      /\ \A r \in DOMAIN groupUser' :
           /\ groupUser'[r].group = groupUser[r].group
           /\ groupUser'[r].user = groupUser[r].user
           /\ groupUser'[r].role =
                IF r = loc[h].heir THEN 0 ELSE groupUser[r].role
  BY <1>0, <1>1, <1>2, RowsAfterLeave DEF IInv, LocksHeld
<1>4. /\ g \in DOMAIN groupInfo /\ u \in Users
      /\ l \in DOMAIN groupUser /\ groupUser[l].group = g
      /\ groupUser[l].user = u
  <2>1. l \in DOMAIN groupUser
    BY <1>1, <1>2 DEF IInv, LocksHeld
  <2>2. groupUser[l].group = g /\ groupUser[l].user = u /\ u \in Users
    BY <1>1, <1>2, <1>3, <2>1 DEF IInv, ReadsStillTrue, LeavesOwnRow, LocalsOf
  <2> QED BY <1>2, <2>1, <2>2 DEF IInv, MembersHaveGroup
<1>5. RowsOf(g) = {l}
  BY <1>0, <1>1, <1>4 DEF Remaining, RowsOf
<1>6. \A r \in DOMAIN groupUser' : groupUser'[r] = groupUser[r]
  <2>1. TypeOK'
    BY <1>2, TypeStep DEF Next, Work
  <2>2. \A r \in DOMAIN groupUser' : groupUser[r] \in UserRow /\ groupUser'[r] \in UserRow
    BY <1>2, <1>3, <2>1 DEF TypeOK, Table
  <2>3. loc[h].heir \notin DOMAIN groupUser'
    BY <1>2, <1>3, TypedTables DEF IInv, OneEnd
  <2> QED BY <1>3, <2>2, <2>3 DEF UserRow
<1>7. /\ DOMAIN groupInfo' = DOMAIN groupInfo \ {g}
      /\ \A x \in DOMAIN groupInfo' : groupInfo'[x] = groupInfo[x]
  BY <1>3 DEF Without, Restrict
<1>8. \A x \in DOMAIN groupInfo' : Committed'[x] = Committed[x]
  <2> TAKE x \in DOMAIN groupInfo'
  <2>1. \A r \in DOMAIN groupUser : groupUser[r].group # g =>
          r \in DOMAIN groupUser' /\ groupUser'[r] = groupUser[r]
    BY <1>3, <1>4, <1>6
  <2>2. \A r \in DOMAIN groupUser' : groupUser'[r].group # g =>
          r \in DOMAIN groupUser /\ groupUser'[r] = groupUser[r]
    BY <1>3, <1>6
  <2>3. x \in DOMAIN groupInfo /\ x # g /\ groupInfo'[x] = groupInfo[x]
    BY <1>7
  <2> QED BY <2>1, <2>2, <2>3, OtherGroupsCommitted
<1>9. Committed[g].members = {u}
  <2>1. MembersOf(g) = {u}
    BY <1>4, <1>5 DEF MembersOf, UsersOf
  <2> QED BY <1>4, <2>1, CommittedFacts
<1>10. /\ Committed' = [x \in DOMAIN Committed \ {g} |-> Committed[x]]
       /\ g \in DOMAIN Committed
  <2>1. DOMAIN Committed = DOMAIN groupInfo
    BY CommittedFacts
  <2>2. Committed' = [x \in DOMAIN groupInfo' |-> Committed'[x]]
    BY CommittedFacts
  <2> QED BY <1>4, <1>7, <1>8, <2>1, <2>2
<1>11. Promise!Dissolve(u, g)
  BY <1>9, <1>10 DEF Promise!Dissolve, Promise!Restrict
<1> QED BY <1>4, <1>10, <1>11 DEF Promise!Next

\* However requests interleave and fail, the service does what Groups promises but
\* for the commits of requests that were overtaken and for joins of a group that
\* is overfull: what the committed rows go through otherwise is created, joined,
\* updated, left, handed over and dissolved by users who may.
THEOREM RefinesUnlessTold == RSpec => RefinesUnlessOvertaken
<1> DEFINE A == \/ Promise!Next
                \/ \E h \in Handlers : Commits(h, req[h].group) /\ Overtaken(h)
<1>1. ASSUME RaceInv, [RNext]_rvars PROVE [A]_Committed
  <2>1. ASSUME UNCHANGED tables PROVE UNCHANGED Committed
    BY <2>1 DEF tables, Committed, MembersOf, LeadersOf, UsersOf, RowsOf
  <2>2. ASSUME NEW h \in Handlers, HandlerStep(h), ~UNCHANGED tables
        PROVE  [A]_Committed
    <3>1. CASE Overtaken(h)
      BY <1>1, <2>2, <3>1, CommitEnds DEF RaceInv
    <3>2. CASE ~Overtaken(h)
      <4>1. InsertRow(h) => GroupExists(h)
        BY <2>2 DEF InsertRow, tables
      <4> QED BY <1>1, <2>2, <3>2, <4>1, TableSteps, CreateMaps, JoinMaps, UpdateMaps,
              LeaveMaps, DropMaps DEF RaceInv
    <3> QED BY <3>1, <3>2
  <2>3. CASE UNCHANGED rvars
    BY <2>1, <2>3 DEF rvars, vars, tables
  <2> QED BY <1>1, <2>1, <2>2, <2>3 DEF RNext, Next, Crash, HandlerStep
<1>2. RaceInv /\ [RNext]_rvars => [A]_Committed
  BY <1>1
<1>3. RInit => Promise!Init
  BY PromiseInit DEF RInit
<1> QED BY <1>2, <1>3, RaceInvariance, PTL DEF RSpec, RefinesUnlessOvertaken
=============================================================================
