------------------------- MODULE GroupServiceProofs -------------------------
(***************************************************************************)
(* Proofs about GroupService for every number of users, groups, rows and   *)
(* request threads: the inductive invariant IInv of GroupProperties, and   *)
(* what follows from it.                                                   *)
(*                                                                         *)
(* The steps of a handler are first sorted by what they do to the parts of *)
(* the state the invariant speaks of (StepKinds); each part of the         *)
(* invariant is then kept by each kind.                                    *)
(***************************************************************************)
EXTENDS GroupProperties, FiniteSetTheorems, TLAPS

-----------------------------------------------------------------------------
(* Types. *)

\* A row of the right type, put under an identity of the right kind.
LEMMA PutTable ==
  ASSUME NEW f, NEW Id, NEW Row, Table(f, Id, Row), NEW x \in Id, NEW v \in Row
  PROVE  Table(Put(f, x, v), Id, Row)
BY DEF Table, Put

\* Removing rows keeps a table typed.
LEMMA WithoutTable ==
  ASSUME NEW f, NEW Id, NEW Row, Table(f, Id, Row), NEW S
  PROVE  Table(Without(f, S), Id, Row)
BY DEF Table, Without, Restrict

\* The types of the fields of a request.
LEMMA ReqField ==
  ASSUME NEW r \in ReqType
  PROVE  /\ r.op \in {"none", "insert", "join", "update", "leave"}
         /\ r.user \in Users \cup {NoUser} /\ r.group \in GroupIds \cup {NoId}
         /\ r.max \in Nat /\ r.body \in {"ok", "badRow", "badDoc"}
BY DEF ReqType

\* One field of the locals at a time.
LEMMA LocField ==
  ASSUME NEW l \in LocType
  PROVE  /\ l.row \in RowIds \cup {NoId} /\ l.heir \in RowIds \cup {NoId}
         /\ l.locks \subseteq RowIds /\ l.role \in {0, 1}
         /\ l.before \in DocIds \cup {NoId} /\ l.found \in DocIds \cup {NoId}
         /\ l.doc \in DocIds \cup {NoId} /\ l.catching \in BOOLEAN
         /\ \A r \in RowIds \cup {NoId} : /\ [l EXCEPT !.row = r] \in LocType
                                          /\ [l EXCEPT !.heir = r] \in LocType
         /\ \A d \in DocIds \cup {NoId} : /\ [l EXCEPT !.before = d] \in LocType
                                          /\ [l EXCEPT !.found = d] \in LocType
                                          /\ [l EXCEPT !.doc = d] \in LocType
         /\ \A S \in SUBSET RowIds : [l EXCEPT !.locks = S] \in LocType
         /\ \A n \in {0, 1} : [l EXCEPT !.role = n] \in LocType
         /\ \A b \in BOOLEAN : [l EXCEPT !.catching = b] \in LocType
BY DEF LocType

\* The locals of an idle handler.
LEMMA NoReqTyped == NoReq \in ReqType /\ NoLoc \in LocType
BY DEF NoReq, ReqType, NoLoc, LocType

\* An identity that is free can be handed out.
LEMMA FreshIds ==
  /\ (\E g \in GroupIds : g \notin UsedGroups)
       => NewGroup \in GroupIds \ UsedGroups
  /\ (\E r \in RowIds : r \notin UsedRows) => NewRow \in RowIds \ UsedRows
  /\ (\E d \in DocIds : d \notin UsedDocs) => NewDoc \in DocIds \ UsedDocs
BY DEF NewGroup, NewRow, NewDoc

RequestsTyped == /\ pc \in [Handlers -> Steps]
                 /\ req \in [Handlers -> ReqType]
                 /\ loc \in [Handlers -> LocType]
TablesTyped == /\ Table(groupInfo, GroupIds, GroupRow)
               /\ Table(groupUser, RowIds, UserRow)
               /\ Table(groupGame, DocIds, GroupIds)

\* Returning keeps the locals typed.
LEMMA ReturnTyped ==
  ASSUME RequestsTyped, NEW h \in Handlers, Return(h)
  PROVE  RequestsTyped'
BY NoReqTyped DEF RequestsTyped, Return, Steps

\* A step of handler h to another program point, with new locals.
LEMMA GotoTyped ==
  ASSUME RequestsTyped, NEW h \in Handlers, NEW step \in Steps, Goto(h, step),
         NEW r \in ReqType, req' = req \/ req' = [req EXCEPT ![h] = r],
         NEW l \in LocType, loc' = loc \/ loc' = [loc EXCEPT ![h] = l]
  PROVE  RequestsTyped'
BY DEF RequestsTyped, Goto

\* So does entering a catch block.
LEMMA CatchTyped ==
  ASSUME RequestsTyped, NEW h \in Handlers, Catch(h)
  PROVE  RequestsTyped'
<1> DEFINE l == [[loc[h] EXCEPT !.catching = TRUE] EXCEPT !.doc = loc[h].before]
<1>1. loc[h] \in LocType /\ req[h] \in ReqType
  BY DEF RequestsTyped
<1>2. l \in LocType
  <2>1. [loc[h] EXCEPT !.catching = TRUE] \in LocType
    BY <1>1, LocField
  <2>2. loc[h].before \in DocIds \cup {NoId}
    BY <1>1, LocField
  <2> QED BY <2>1, <2>2, LocField
<1>3. CASE req[h].op = "insert"
  <2>1. Goto(h, "undoDoc") /\ loc' = loc /\ req' = req
    BY <1>3 DEF Catch
  <2> QED BY <1>1, <2>1, GotoTyped DEF Steps
<1>4. CASE req[h].op # "insert"
  <2>1. Goto(h, "findDoc") /\ req' = req
    BY <1>4 DEF Catch
  <2>2. loc' = [loc EXCEPT ![h] = [loc[h] EXCEPT !.catching = TRUE,
                                                 !.doc = loc[h].before]]
    BY <1>4 DEF Catch
  <2>3. loc' = [loc EXCEPT ![h] = l]
    BY <2>2, <1>1 DEF LocType
  <2> QED BY <1>1, <1>2, <2>1, <2>3, GotoTyped DEF Steps
<1> QED BY <1>3, <1>4

\* Each write keeps the collection typed.
LEMMA WrittenTyped ==
  ASSUME Table(groupGame, DocIds, GroupIds), NEW h \in Handlers,
         pc[h] \in {"deleteDoc", "saveDoc", "purgeDoc", "undoDoc"},
         pc[h] = "saveDoc" => loc[h].doc \in DocIds /\ req[h].group \in GroupIds
  PROVE  Table(Written(h), DocIds, GroupIds)
BY PutTable, WithoutTable DEF Written

\* Leaving keeps the membership rows typed.
LEMMA AfterLeaveTyped ==
  ASSUME Table(groupUser, RowIds, UserRow), NEW h \in Handlers
  PROVE  Table(AfterLeave(h), RowIds, UserRow)
BY DEF Table, AfterLeave, UserRow

\* A request arrives with a typed body.
LEMMA ArrivalTyped ==
  ASSUME TypeOK, NEW h \in Handlers, Arrive(h)
  PROVE  TypeOK'
<1> USE DEF TypeOK
<1>0. /\ loc[h] \in LocType /\ RequestsTyped
      /\ \A g \in DOMAIN groupInfo : g \in GroupIds /\ groupInfo[g].max \in Nat
  BY DEF RequestsTyped, Table, GroupRow
<1>1. ASSUME NEW op \in Operations, NEW u \in Users, NEW g \in GroupIds,
             NEW m \in Nat, NEW b \in Bodies
      PROVE  [op |-> op, user |-> u, group |-> g, max |-> m, body |-> b]
               \in ReqType
  BY RequestsAssumption DEF ReqType
<1>2. CASE InsertGroup(h)
  <2>1. PICK u \in Users, m \in MaxCounts, b \in Bodies \ {"badRow"} :
          Request(h, "insert", u, NewGroup, m, b)
    BY <1>2 DEF InsertGroup
  <2>2. NewGroup \in GroupIds /\ NewRow \in RowIds /\ NewDoc \in DocIds
    BY <1>2, FreshIds DEF InsertGroup
  <2>3. [op |-> "insert", user |-> u, group |-> NewGroup, max |-> m, body |-> b]
          \in ReqType
    BY <1>1, <2>1, <2>2, CountsAssumption DEF Request
  <2>4. [[loc[h] EXCEPT !.row = NewRow] EXCEPT !.doc = NewDoc] \in LocType
    <3>1. [loc[h] EXCEPT !.row = NewRow] \in LocType
      BY <1>0, <2>2, LocField
    <3> QED BY <2>2, <3>1, LocField
  <2>5. loc' = [loc EXCEPT ![h] =
                  [[loc[h] EXCEPT !.row = NewRow] EXCEPT !.doc = NewDoc]]
    BY <1>2, <1>0 DEF InsertGroup, LocType
  <2> HIDE DEF TypeOK
  <2>6. RequestsTyped'
    BY <1>0, <1>2, <2>1, <2>3, <2>4, <2>5, GotoTyped
       DEF InsertGroup, Request, Steps
  <2> QED BY <1>2, <2>6 DEF InsertGroup, tables, RequestsTyped, TypeOK, Table
<1>3. CASE JoinGroup(h)
  <2>1. PICK u \in Users, g \in DOMAIN groupInfo :
          Request(h, "join", u, g, groupInfo[g].max, "ok")
    BY <1>3 DEF JoinGroup
  <2>2. [op |-> "join", user |-> u, group |-> g, max |-> groupInfo[g].max,
         body |-> "ok"] \in ReqType
    BY <1>0, <1>1, <2>1, RequestsAssumption DEF Request
  <2>3. RequestsTyped'
    BY <1>0, <1>3, <2>1, <2>2, GotoTyped DEF JoinGroup, Request, Steps
  <2> QED BY <1>3, <2>3 DEF JoinGroup, tables, RequestsTyped, Table
<1>4. CASE UpdateGroup(h)
  <2>1. PICK u \in Users, g \in DOMAIN groupInfo, m \in MaxCounts, b \in Bodies :
          Request(h, "update", u, g, m, b)
    BY <1>4 DEF UpdateGroup
  <2>2. [op |-> "update", user |-> u, group |-> g, max |-> m, body |-> b]
          \in ReqType
    BY <1>0, <1>1, <2>1, CountsAssumption DEF Request
  <2>3. RequestsTyped'
    BY <1>0, <1>4, <2>1, <2>2, GotoTyped DEF UpdateGroup, Request, Steps
  <2> QED BY <1>4, <2>3 DEF UpdateGroup, tables, RequestsTyped, Table
<1>5. CASE LeaveGroup(h)
  <2>1. PICK u \in Users, g \in DOMAIN groupInfo :
          Request(h, "leave", u, g, 0, "ok")
    BY <1>5 DEF LeaveGroup
  <2>2. [op |-> "leave", user |-> u, group |-> g, max |-> 0, body |-> "ok"]
          \in ReqType
    BY <1>0, <1>1, <2>1, RequestsAssumption DEF Request
  <2>3. RequestsTyped'
    BY <1>0, <1>5, <2>1, <2>2, GotoTyped DEF LeaveGroup, Request, Steps
  <2> QED BY <1>5, <2>3 DEF LeaveGroup, tables, RequestsTyped, Table
<1> QED BY <1>2, <1>3, <1>4, <1>5 DEF Arrive

\* Every later step keeps the locals typed.
LEMMA RequestsTypedStep ==
  ASSUME TypeOK, NEW h \in Handlers, Work(h) \/ Fail(h)
  PROVE  RequestsTyped'
<1>1. /\ RequestsTyped /\ loc[h] \in LocType /\ req[h] \in ReqType
      /\ \A r \in DOMAIN groupUser : r \in RowIds /\ groupUser[r].role \in {0, 1}
      /\ DOMAIN groupGame \subseteq DocIds
  BY DEF TypeOK, RequestsTyped, Table, UserRow
<1>2. ASSUME NEW l \in LocType, loc' = loc \/ loc' = [loc EXCEPT ![h] = l],
             NEW step \in Steps, Goto(h, step), req' = req
      PROVE  RequestsTyped'
  BY <1>1, <1>2, GotoTyped
<1>3. ASSUME Return(h) PROVE RequestsTyped'
  BY <1>1, <1>3, ReturnTyped
<1>4. ASSUME Catch(h) PROVE RequestsTyped'
  BY <1>1, <1>4, CatchTyped
<1> USE DEF Steps
<1>5. CASE FindMember(h)
  <2>1. ASSUME NEW r \in DOMAIN groupUser,
               loc' = [loc EXCEPT ![h].row = r, ![h].role = groupUser[r].role],
               Goto(h, "findBefore"), req' = req
        PROVE  RequestsTyped'
    <3>1. [[loc[h] EXCEPT !.row = r] EXCEPT !.role = groupUser[r].role] \in LocType
      <4>1. [loc[h] EXCEPT !.row = r] \in LocType
        BY <1>1, LocField
      <4> QED BY <1>1, <4>1, LocField
    <3>2. loc' = [loc EXCEPT ![h] = [[loc[h] EXCEPT !.row = r]
                                       EXCEPT !.role = groupUser[r].role]]
      BY <1>1, <2>1 DEF LocType
    <3> QED BY <1>2, <2>1, <3>1, <3>2
  <2> QED BY <1>1, <1>2, <1>3, <1>5, <2>1 DEF FindMember, RowsOfUser, RowsOf
<1>6. CASE CountMembers(h)
  BY <1>1, <1>2, <1>3, <1>6 DEF CountMembers
<1>7. CASE FindBefore(h)
  <2>1. \A d \in DocsOf(req[h].group) : [loc[h] EXCEPT !.before = d] \in LocType
    BY <1>1, LocField DEF DocsOf
  <2> QED BY <1>1, <1>2, <1>3, <1>7, <2>1 DEF FindBefore
<1>8. CASE Authorize(h)
  <2>1. (\E d \in DocIds : d \notin UsedDocs)
          => [loc[h] EXCEPT !.doc = NewDoc] \in LocType
    BY <1>1, LocField, FreshIds
  <2> QED BY <1>2, <1>3, <1>8, <2>1 DEF Authorize
<1>9. CASE FindDoc(h)
  <2>1. \A d \in DocsOf(req[h].group) : [loc[h] EXCEPT !.found = d] \in LocType
    BY <1>1, LocField DEF DocsOf
  <2> QED BY <1>1, <1>2, <1>3, <1>4, <1>9, <2>1 DEF FindDoc
<1>10. CASE ChooseHeir(h)
  <2>1. \A r \in Heirs(req[h].group) : [loc[h] EXCEPT !.heir = r] \in LocType
    BY <1>1, LocField DEF Heirs, RowsOf
  <2> QED BY <1>1, <1>2, <1>10, <2>1 DEF ChooseHeir
<1>11. CASE UpdateHeir(h)
  <2>1. loc[h].heir \in DOMAIN groupUser
          => [loc[h] EXCEPT !.locks = {loc[h].heir}] \in LocType
    BY <1>1, LocField
  <2> QED BY <1>2, <1>4, <1>11, <2>1 DEF UpdateHeir
<1>12. CASE DeleteRow(h)
  <2>1. loc[h].row \in DOMAIN groupUser
          => [loc[h] EXCEPT !.locks = @ \cup {loc[h].row}] \in LocType
    BY <1>1, LocField
  <2> QED BY <1>2, <1>4, <1>12, <2>1 DEF DeleteRow
<1>13. CASE SaveDoc(h)
  BY <1>1, <1>2, <1>3, <1>4, <1>13 DEF SaveDoc
<1>14. CASE MongoThrows(h)
  BY <1>4, <1>14 DEF MongoThrows
<1>15. CASE DeleteDoc(h) \/ PurgeDoc(h)
  BY <1>1, <1>2, <1>15 DEF DeleteDoc, PurgeDoc
<1>16. CASE \/ InsertRow(h) \/ CommitInsert(h) \/ CommitUpdate(h)
            \/ CommitLeave(h) \/ DropGroup(h) \/ UndoDoc(h) \/ RequestFails(h)
  BY <1>3, <1>16 DEF InsertRow, CommitInsert, CommitUpdate, CommitLeave,
                     DropGroup, UndoDoc, RequestFails
<1> QED BY <1>5, <1>6, <1>7, <1>8, <1>9, <1>10, <1>11, <1>12, <1>13, <1>14,
           <1>15, <1>16 DEF Work, Fail

\* Every later step keeps the tables and documents typed.
LEMMA TablesTypedStep ==
  ASSUME TypeOK, LocalsInOrder, InsertsApart, NEW h \in Handlers,
         Work(h) \/ Fail(h)
  PROVE  TablesTyped'
<1>1. /\ TablesTyped /\ req[h] \in ReqType
      /\ pc[h] # "idle" => req[h].user \in Users /\ req[h].group \in GroupIds
      /\ pc[h] \in {"deleteDoc", "saveDoc", "commitInsert", "commitUpdate"}
           => loc[h].doc \in DocIds
  BY DEF TypeOK, TablesTyped, LocalsInOrder, LocalsOf
<1>2. ASSUME UNCHANGED <<tables, groupGame>> PROVE TablesTyped'
  BY <1>1, <1>2 DEF TablesTyped, tables, Table
<1>3. ASSUME UNCHANGED tables,
             groupGame' = groupGame \/ groupGame' = Written(h),
             pc[h] \in {"findDoc", "deleteDoc", "saveDoc", "purgeDoc", "undoDoc"},
             pc[h] = "findDoc" => groupGame' = groupGame
      PROVE  TablesTyped'
  <2>1. groupGame' = Written(h) /\ pc[h] # "findDoc"
          => Table(Written(h), DocIds, GroupIds)
    BY <1>1, <1>3, WrittenTyped DEF TablesTyped
  <2> QED BY <1>1, <1>3, <2>1 DEF TablesTyped, tables, Table
<1>4. CASE InsertRow(h)
  <2>1. NewRow \in RowIds
    BY <1>4, FreshIds DEF InsertRow
  <2>2. [group |-> req[h].group, user |-> req[h].user, role |-> 1] \in UserRow
    BY <1>1, <1>4 DEF InsertRow, UserRow
  <2>3. Table(groupUser', RowIds, UserRow)
    BY <1>1, <1>4, <2>1, <2>2, PutTable DEF InsertRow, TablesTyped
  <2> QED BY <1>1, <1>4, <2>3 DEF InsertRow, TablesTyped, Table
<1>5. CASE CommitInsert(h)
  <2>1. pc[h] = "commitInsert" /\ req[h].op = "insert"
    BY <1>5 DEF CommitInsert, LocalsInOrder, LocalsOf
  <2>2. loc[h].row \in RowIds
    BY <2>1 DEF InsertsApart
  <2>3. [max |-> req[h].max, rev |-> loc[h].doc] \in GroupRow
    BY <1>1, <2>1, ReqField DEF GroupRow
  <2>4. [group |-> req[h].group, user |-> req[h].user, role |-> 0] \in UserRow
    BY <1>1, <2>1 DEF UserRow
  <2>5. /\ Table(groupInfo', GroupIds, GroupRow)
        /\ Table(groupUser', RowIds, UserRow)
    BY <1>1, <1>5, <2>1, <2>2, <2>3, <2>4, PutTable DEF CommitInsert, TablesTyped
  <2> QED BY <1>1, <1>5, <2>5 DEF CommitInsert, TablesTyped, Table
<1>6. CASE CommitUpdate(h)
  <2>1. [max |-> req[h].max, rev |-> loc[h].doc] \in GroupRow
    BY <1>1, <1>6, ReqField DEF CommitUpdate, GroupRow
  <2>2. Table(groupInfo', GroupIds, GroupRow)
    BY <1>1, <1>6, <2>1, PutTable DEF CommitUpdate, TablesTyped
  <2> QED BY <1>1, <1>6, <2>2 DEF CommitUpdate, TablesTyped, Table
<1>7. CASE CommitLeave(h) \/ DropGroup(h)
  <2>1. Table(AfterLeave(h), RowIds, UserRow)
    BY <1>1, AfterLeaveTyped DEF TablesTyped
  <2>2. Table(Without(groupInfo, {req[h].group}), GroupIds, GroupRow)
    BY <1>1, WithoutTable DEF TablesTyped
  <2>3. CASE groupInfo' = groupInfo /\ groupUser' = AfterLeave(h)
             /\ groupGame' = groupGame
    BY <1>1, <2>1, <2>3 DEF TablesTyped, Table
  <2>4. CASE groupInfo' = Without(groupInfo, {req[h].group})
             /\ groupUser' = AfterLeave(h) /\ groupGame' = groupGame
    BY <1>1, <2>1, <2>2, <2>4 DEF TablesTyped, Table
  <2> QED BY <1>2, <1>7, <2>3, <2>4 DEF CommitLeave, DropGroup, tables
<1>8. CASE \/ FindMember(h) \/ CountMembers(h) \/ FindBefore(h) \/ Authorize(h)
           \/ ChooseHeir(h) \/ RequestFails(h)
  BY <1>2, <1>8 DEF FindMember, CountMembers, FindBefore, Authorize,
                    ChooseHeir, RequestFails
<1>9. CASE UpdateHeir(h) \/ DeleteRow(h)
  BY <1>2, <1>9 DEF UpdateHeir, DeleteRow, Catch, tables
<1>10. CASE FindDoc(h)
  BY <1>2, <1>10 DEF FindDoc, Catch, tables
<1>11. CASE SaveDoc(h)
  BY <1>3, <1>11 DEF SaveDoc, Catch
<1>12. CASE DeleteDoc(h) \/ UndoDoc(h) \/ PurgeDoc(h)
  BY <1>3, <1>12 DEF DeleteDoc, UndoDoc, PurgeDoc
<1>13. CASE MongoThrows(h)
  BY <1>3, <1>13 DEF MongoThrows, Catch
<1> QED BY <1>4, <1>5, <1>6, <1>7, <1>8, <1>9, <1>10, <1>11, <1>12, <1>13
        DEF Work, Fail

\* The types are kept by every step.
LEMMA TypeStep ==
  ASSUME IInv, [Next]_vars
  PROVE  TypeOK'
<1>1. ASSUME NEW h \in Handlers, Work(h) \/ Fail(h) PROVE TypeOK'
  <2>1. RequestsTyped' /\ TablesTyped'
    BY <1>1, RequestsTypedStep, TablesTypedStep DEF IInv
  <2> QED BY <2>1 DEF RequestsTyped, TablesTyped, TypeOK
<1>2. ASSUME NEW h \in Handlers, Arrive(h) PROVE TypeOK'
  BY <1>2, ArrivalTyped DEF IInv
<1>3. CASE Crash
  BY <1>3, NoReqTyped DEF Crash, IInv, TypeOK, Table, tables, Steps
<1>4. CASE UNCHANGED vars
  BY <1>4 DEF vars, IInv, TypeOK, Table
<1> QED BY <1>1, <1>2, <1>3, <1>4 DEF Next

\* A step of one handler leaves the others where they are.
LEMMA OwnOnly ==
  ASSUME TypeOK, NEW h \in Handlers, Arrive(h) \/ Work(h) \/ Fail(h),
         NEW k \in Handlers \ {h}
  PROVE  pc'[k] = pc[k] /\ req'[k] = req[k] /\ loc'[k] = loc[k]
<1>1. /\ pc' = [pc EXCEPT ![h] = pc'[h]]
      /\ req' = [req EXCEPT ![h] = req'[h]]
      /\ loc' = [loc EXCEPT ![h] = loc'[h]]
  <2> USE DEF TypeOK, Goto, Return, Request, Catch
  <2>1. CASE Arrive(h)
    BY <2>1 DEF Arrive, InsertGroup, JoinGroup, UpdateGroup, LeaveGroup
  <2>2. CASE \/ FindMember(h) \/ CountMembers(h) \/ InsertRow(h)
             \/ FindBefore(h) \/ Authorize(h)
    BY <2>2 DEF FindMember, CountMembers, InsertRow, FindBefore, Authorize
  <2>3. CASE \/ FindDoc(h) \/ DeleteDoc(h) \/ SaveDoc(h) \/ UndoDoc(h)
             \/ CommitInsert(h) \/ CommitUpdate(h)
    BY <2>3 DEF FindDoc, DeleteDoc, SaveDoc, UndoDoc, CommitInsert, CommitUpdate
  <2>4. CASE \/ ChooseHeir(h) \/ UpdateHeir(h) \/ DeleteRow(h)
             \/ PurgeDoc(h) \/ CommitLeave(h) \/ DropGroup(h)
    BY <2>4 DEF ChooseHeir, UpdateHeir, DeleteRow, PurgeDoc, CommitLeave,
                DropGroup
  <2>5. CASE Fail(h)
    BY <2>5 DEF Fail, MongoThrows, RequestFails
  <2> QED BY <2>1, <2>2, <2>3, <2>4, <2>5 DEF Work
<1> QED BY <1>1 DEF TypeOK

\* What the steps that all requests share do to the handler's own locals.
LEMMA OwnReturn ==
  ASSUME TypeOK, NEW h \in Handlers, Return(h)
  PROVE  pc'[h] = "idle" /\ req'[h] = NoReq /\ loc'[h] = NoLoc
BY DEF TypeOK, Return

\* A step to another program point.
LEMMA OwnGoto ==
  ASSUME TypeOK, NEW h \in Handlers, NEW step, Goto(h, step)
  PROVE  pc'[h] = step
BY DEF TypeOK, Goto

\* Entering a catch block: the former document becomes the one to save.
LEMMA OwnCatch ==
  ASSUME TypeOK, NEW h \in Handlers, Catch(h)
  PROVE  /\ req'[h] = req[h]
         /\ \/ pc'[h] = "undoDoc" /\ req[h].op = "insert" /\ loc'[h] = loc[h]
            \/ /\ pc'[h] = "findDoc" /\ req[h].op # "insert"
               /\ loc'[h] = [loc[h] EXCEPT !.catching = TRUE,
                                           !.doc = loc[h].before]
BY DEF TypeOK, Catch, Goto

\* A handler keeps its own locals in order.
LEMMA LocalsOfStep ==
  ASSUME TypeOK, NEW h \in Handlers, LocalsOf(h),
         Arrive(h) \/ Work(h) \/ Fail(h)
  PROVE  LocalsOf(h)'
<1>1. loc[h] \in LocType /\ req[h] \in ReqType /\ pc[h] \in Steps
  BY DEF TypeOK
<1>2. ASSUME Return(h) PROVE LocalsOf(h)'
  <2>1. NoLoc.catching = FALSE
    BY DEF NoLoc
  <2>2. pc'[h] = "idle" /\ req'[h] = NoReq /\ loc'[h] = NoLoc
    BY <1>2, OwnReturn
  <2>3. loc'[h].catching = FALSE
    BY <2>1, <2>2
  <2> QED BY <2>2, <2>3 DEF LocalsOf
<1>3. ASSUME Catch(h), pc[h] # "idle", loc[h].catching = FALSE
      PROVE  LocalsOf(h)'
  <2>1. loc'[h] = [loc[h] EXCEPT !.catching = TRUE, !.doc = loc[h].before]
          => loc'[h].catching = TRUE /\ loc'[h].doc = loc'[h].before
    BY <1>1 DEF LocType
  <2>2. pc[h] # "idle" /\ req'[h] = req[h]
    BY <1>3, OwnCatch
  <2>3. CASE /\ pc'[h] = "undoDoc" /\ req[h].op = "insert"
             /\ loc'[h] = loc[h]
    <3>1. loc[h].catching = FALSE
      BY <1>3, <2>3
    <3> QED BY <2>2, <2>3, <3>1 DEF LocalsOf
  <2>4. CASE /\ pc'[h] = "findDoc"
             /\ loc'[h] = [loc[h] EXCEPT !.catching = TRUE,
                                         !.doc = loc[h].before]
    BY <2>1, <2>2, <2>4 DEF LocalsOf
  <2> QED BY <1>3, <2>3, <2>4, OwnCatch
<1>4. CASE Arrive(h)
  <2>1. /\ NoLoc \in LocType /\ NoLoc.catching = FALSE
        /\ NoLoc.heir = NoId /\ NoLoc.locks = {}
    BY NoReqTyped DEF NoLoc
  <2>2. CASE InsertGroup(h)
    <3>1. NewGroup \in GroupIds /\ NewDoc \in DocIds
      BY <2>2, FreshIds DEF InsertGroup
    <3> QED BY <1>1, <2>1, <2>2, <3>1
            DEF InsertGroup, Request, Goto, TypeOK, LocalsOf, LocType
  <2>3. CASE JoinGroup(h) \/ UpdateGroup(h) \/ LeaveGroup(h)
    <3>1. DOMAIN groupInfo \subseteq GroupIds
      BY DEF TypeOK, Table
    <3> QED BY <2>1, <2>3, <3>1
            DEF JoinGroup, UpdateGroup, LeaveGroup, Request, Goto, TypeOK,
                LocalsOf
  <2> QED BY <1>4, <2>2, <2>3 DEF Arrive
<1>5. CASE FindMember(h)
  <2> DEFINE NoneYet(l) ==
               l.catching = FALSE /\ l.heir = NoId /\ l.locks = {}
  <2>1. pc[h] = "findMember" /\ NoneYet(loc[h])
    BY <1>5 DEF FindMember, LocalsOf, NoLoc
  <2>2. ASSUME NEW r, loc' = [loc EXCEPT ![h].row = r,
                                         ![h].role = groupUser[r].role]
        PROVE  NoneYet(loc'[h])
    BY <1>1, <2>1, <2>2 DEF TypeOK, LocType
  <2>3. ASSUME req'[h] = req[h], NoneYet(loc'[h]),
               \/ pc'[h] = "countMembers"
               \/ pc'[h] = "findBefore" /\ req[h].op = "leave"
        PROVE  LocalsOf(h)'
    BY <2>1, <2>3 DEF LocalsOf
  <2> QED BY <1>2, <1>5, <2>1, <2>2, <2>3, OwnGoto DEF FindMember
<1>6. CASE CountMembers(h)
  BY <1>2, <1>6 DEF CountMembers, Goto, TypeOK, LocalsOf
<1>7. CASE FindBefore(h)
  <2>1. /\ pc[h] = "findBefore" /\ loc[h].catching = FALSE
        /\ loc[h].heir = NoId /\ loc[h].locks = {}
        /\ req[h].op \in {"update", "leave"}
    BY <1>1, <1>7, LocField DEF FindBefore, LocalsOf
  <2>2. ASSUME ~Return(h)
        PROVE  /\ loc'[h].catching = FALSE /\ loc'[h].role = loc[h].role
               /\ loc'[h].heir = NoId /\ loc'[h].locks = {}
    BY <1>1, <1>7, <2>1, <2>2 DEF FindBefore, TypeOK, LocType
  <2>3. ASSUME ~Return(h)
        PROVE  /\ req'[h] = req[h]
               /\ \/ pc'[h] = "authorize"
                  \/ pc'[h] = "chooseHeir" /\ loc[h].role = 0
                                          /\ req[h].op = "leave"
                  \/ pc'[h] = "deleteRow" /\ req[h].op = "leave"
    BY <1>7, <2>1, <2>3, OwnGoto DEF FindBefore, HandsOver
  <2>4. CASE ~Return(h)
    BY <2>1, <2>2, <2>3, <2>4 DEF LocalsOf
  <2> QED BY <1>2, <2>4
<1>8. CASE Authorize(h)
  <2>1. (\E d \in DocIds : d \notin UsedDocs) => NewDoc \in DocIds
    BY FreshIds
  <2>2. loc[h].catching = FALSE \/ loc[h].catching = TRUE
    BY <1>1, LocField
  <2> QED BY <1>1, <1>2, <1>8, <2>1 DEF Authorize, Goto, TypeOK, LocalsOf, LocType
<1>9. CASE FindDoc(h)
  <2>1. pc[h] = "findDoc" /\ loc[h].catching \in BOOLEAN
        /\ loc[h].before \in DocIds \cup {NoId}
    BY <1>1, <1>9, LocField DEF FindDoc
  <2>2. ~Restored(h) => loc[h].doc \in DocIds
    BY <2>1 DEF LocalsOf, Restored
  <2>3. ASSUME ~Restored(h), UNCHANGED req, loc'[h].doc = loc[h].doc,
               Goto(h, "saveDoc") \/ Goto(h, "deleteDoc")
        PROVE  LocalsOf(h)'
    BY <2>1, <2>2, <2>3, OwnGoto DEF LocalsOf
  <2>4. \A d : [loc EXCEPT ![h].found = d][h].doc = loc[h].doc
    BY <1>1 DEF TypeOK, LocType
  <2> QED BY <1>2, <1>3, <1>9, <2>1, <2>3, <2>4 DEF FindDoc
<1>10. CASE DeleteDoc(h) \/ PurgeDoc(h)
  BY <1>10 DEF DeleteDoc, PurgeDoc, Goto, TypeOK, LocalsOf
<1>11. CASE SaveDoc(h)
  BY <1>1, <1>2, <1>3, <1>11, LocField DEF SaveDoc, NotADoc, Goto, TypeOK, LocalsOf
<1>12. CASE ChooseHeir(h)
  BY <1>1, <1>12 DEF ChooseHeir, Goto, TypeOK, LocalsOf, LocType
<1>13. CASE UpdateHeir(h) \/ DeleteRow(h)
  <2>1. loc[h].catching = FALSE
    BY <1>1, <1>13, LocField DEF UpdateHeir, DeleteRow, LocalsOf
  <2>2. CASE Catch(h)
    BY <1>3, <1>13, <2>1, <2>2 DEF UpdateHeir, DeleteRow
  <2>3. ASSUME NEW S, loc' = [loc EXCEPT ![h].locks = S]
        PROVE  loc'[h].catching = loc[h].catching
    BY <1>1, <2>3 DEF TypeOK, LocType
  <2> QED BY <1>13, <2>1, <2>2, <2>3
          DEF UpdateHeir, DeleteRow, Goto, TypeOK, LocalsOf
<1>14. CASE MongoThrows(h)
  BY <1>1, <1>3, <1>14, LocField DEF MongoThrows
<1>15. CASE \/ InsertRow(h) \/ CommitInsert(h) \/ CommitUpdate(h)
            \/ CommitLeave(h) \/ DropGroup(h) \/ UndoDoc(h) \/ RequestFails(h)
  BY <1>2, <1>15 DEF InsertRow, CommitInsert, CommitUpdate, CommitLeave,
                     DropGroup, UndoDoc, RequestFails
<1> QED BY <1>4, <1>5, <1>6, <1>7, <1>8, <1>9, <1>10, <1>11, <1>12, <1>13,
           <1>14, <1>15 DEF Work, Fail

-----------------------------------------------------------------------------
(* The steps of a handler by what they do to what the invariant speaks of: *)
(* the tables, the request, and its row, role, heir and locks.             *)

Ends(h) == Return(h) /\ UNCHANGED tables

Keeps(h) ==
  /\ UNCHANGED tables
  /\ req'[h] = req[h]
  /\ loc'[h].row = loc[h].row /\ loc'[h].role = loc[h].role
  /\ loc'[h].heir = loc[h].heir

Continues(h) ==
  /\ Keeps(h) /\ loc'[h].locks = loc[h].locks
  /\ Flushed(h)' => Flushed(h)
  /\ EndsGroup(h)' => EndsGroup(h)
  /\ pc'[h] = "deleteRow" => loc[h].heir = NoId /\ loc[h].locks = {}

Arrives(h) ==
  /\ UNCHANGED tables
  /\ req[h] = NoReq /\ loc[h] = NoLoc
  /\ loc'[h].heir = NoId /\ loc'[h].locks = {}
  /\ pc'[h] \in {"findDoc", "findMember", "findBefore"}
  /\ \/ /\ req'[h].op # "insert" /\ req'[h].group \in DOMAIN groupInfo
        /\ loc'[h].row = NoId
     \/ /\ req'[h].op = "insert" /\ req'[h].group \in GroupIds \ UsedGroups
        /\ loc'[h].row \in RowIds \ UsedRows

Finds(h) ==
  /\ UNCHANGED tables
  /\ req'[h] = req[h] /\ req[h].op = "leave" /\ loc[h] = NoLoc
  /\ pc'[h] = "findBefore"
  /\ loc'[h].row \in RowsOf(req[h].group)
  /\ loc'[h].role = groupUser[loc'[h].row].role
  /\ loc'[h].heir = loc[h].heir /\ loc'[h].locks = loc[h].locks

Chooses(h) ==
  /\ UNCHANGED tables
  /\ req'[h] = req[h] /\ req[h].op = "leave"
  /\ loc'[h].row = loc[h].row /\ loc'[h].role = 0
  /\ loc[h].role = 0 /\ loc[h].heir = NoId /\ loc[h].locks = {}
  /\ \/ loc'[h].heir \in Heirs(req[h].group) /\ pc'[h] = "updateHeir"
     \/ loc'[h].heir = NoId /\ pc'[h] = "deleteRow"
  /\ loc'[h].locks = {}

\* The flush: the UPDATE of the heir, then the DELETE of the own row.
LocksHeir(h) ==
  /\ Keeps(h)
  /\ pc[h] = "updateHeir" /\ pc'[h] = "deleteRow"
  /\ ~Blocked(h, loc[h].heir) /\ loc[h].heir \in DOMAIN groupUser
  /\ loc'[h].locks = {loc[h].heir}

LocksRow(h) ==
  /\ Keeps(h)
  /\ pc[h] = "deleteRow"
  /\ ~Blocked(h, loc[h].row) /\ loc[h].row \in DOMAIN groupUser
  /\ loc'[h].locks = loc[h].locks \cup {loc[h].row}
  /\ pc'[h] = IF Remaining(h) = {} THEN "purgeDoc" ELSE "commitLeave"
Locks(h) == LocksHeir(h) \/ LocksRow(h)

Leaves(h) ==
  /\ Return(h) /\ Flushed(h)
  /\ groupUser' = AfterLeave(h)
  /\ \/ groupInfo' = groupInfo
     \/ /\ Remaining(h) = {}
        /\ groupInfo' = Without(groupInfo, {req[h].group})

\* An arrival reserves fresh identities or names a visible group.
LEMMA ArrivalKind ==
  ASSUME TypeOK, NEW h \in Handlers, LocalsOf(h), Arrive(h)
  PROVE  Arrives(h)
<1>1. NoLoc = [row |-> NoId, role |-> 1, heir |-> NoId, before |-> NoId,
               found |-> NoId, doc |-> NoId, locks |-> {}, catching |-> FALSE]
  BY DEF NoLoc
<1>2. pc[h] = "idle" /\ req[h] = NoReq /\ loc[h] = NoLoc /\ UNCHANGED tables
  BY DEF Arrive, InsertGroup, JoinGroup, UpdateGroup, LeaveGroup, Request,
         LocalsOf
<1>3. CASE InsertGroup(h)
  <2>1. NewGroup \in GroupIds \ UsedGroups /\ NewRow \in RowIds \ UsedRows
    BY <1>3, FreshIds DEF InsertGroup
  <2>2. loc'[h].row = NewRow /\ loc'[h].heir = NoId /\ loc'[h].locks = {}
    BY <1>1, <1>2, <1>3 DEF InsertGroup, TypeOK
  <2>3. req'[h].op = "insert" /\ req'[h].group = NewGroup /\ pc'[h] = "findDoc"
    BY <1>3 DEF InsertGroup, Request, Goto, TypeOK
  <2> QED BY <1>2, <2>1, <2>2, <2>3 DEF Arrives
<1>4. CASE JoinGroup(h) \/ UpdateGroup(h) \/ LeaveGroup(h)
  <2>1. loc'[h] = NoLoc
    BY <1>2, <1>4 DEF JoinGroup, UpdateGroup, LeaveGroup
  <2>2. /\ req'[h].op # "insert" /\ req'[h].group \in DOMAIN groupInfo
        /\ pc'[h] \in {"findMember", "findBefore"}
    BY <1>4 DEF JoinGroup, UpdateGroup, LeaveGroup, Request, Goto, TypeOK
  <2> QED BY <1>1, <1>2, <2>1, <2>2 DEF Arrives
<1> QED BY <1>3, <1>4 DEF Arrive

\* Every later step is of one of the kinds above.
LEMMA WorkKinds ==
  ASSUME TypeOK, NEW h \in Handlers, LocalsOf(h), Work(h) \/ Fail(h)
  PROVE  \/ Ends(h) \/ Continues(h) \/ Finds(h) \/ Chooses(h) \/ Locks(h)
         \/ InsertRow(h) \/ CommitInsert(h) \/ CommitUpdate(h) \/ Leaves(h)
<1>1. loc[h] \in LocType
  BY DEF TypeOK
<1>2. ASSUME NEW step, Goto(h, step), UNCHANGED tables, req' = req,
             \/ loc' = loc
             \/ \E d : \/ loc' = [loc EXCEPT ![h].before = d]
                       \/ loc' = [loc EXCEPT ![h].found = d]
                       \/ loc' = [loc EXCEPT ![h].doc = d],
             step \notin {"purgeDoc", "commitLeave"},
             step = "dropGroup" => EndsGroup(h),
             step = "deleteRow" => loc[h].heir = NoId /\ loc[h].locks = {}
      PROVE  Continues(h)
  <2>1. /\ loc'[h].row = loc[h].row /\ loc'[h].role = loc[h].role
        /\ loc'[h].heir = loc[h].heir /\ loc'[h].locks = loc[h].locks
    BY <1>1, <1>2 DEF TypeOK, LocType
  <2> QED BY <1>2, <2>1, OwnGoto DEF Continues, Keeps, Flushed, EndsGroup
<1>4. ASSUME Catch(h) PROVE Continues(h)
  <2>1. ASSUME NEW m, m = [loc[h] EXCEPT !.catching = TRUE,
                                          !.doc = loc[h].before]
        PROVE  /\ m.row = loc[h].row /\ m.role = loc[h].role
               /\ m.heir = loc[h].heir /\ m.locks = loc[h].locks
    BY <1>1, <2>1 DEF LocType
  <2> QED BY <1>4, <2>1, OwnCatch DEF Continues, Keeps, Flushed, EndsGroup, Catch
<1>5. CASE FindMember(h)
  <2>1. CASE Return(h)
    BY <1>5, <2>1 DEF FindMember, Ends
  <2>2. CASE Goto(h, "countMembers") /\ req' = req /\ loc' = loc
    BY <1>2, <1>5, <2>2 DEF FindMember
  <2>3. ASSUME req[h].op = "leave", req' = req, Goto(h, "findBefore"),
               NEW r \in RowsOf(req[h].group),
               loc' = [loc EXCEPT ![h].row = r, ![h].role = groupUser[r].role]
        PROVE  Finds(h)
    <3>1. loc'[h] = [loc[h] EXCEPT !.row = r, !.role = groupUser[r].role]
      BY <2>3 DEF TypeOK
    <3>2. /\ loc'[h].row = r /\ loc'[h].role = groupUser[r].role
          /\ loc'[h].heir = loc[h].heir /\ loc'[h].locks = loc[h].locks
      BY <1>1, <3>1 DEF LocType
    <3>3. pc'[h] = "findBefore" /\ loc[h] = NoLoc
      BY <1>5, <2>3, OwnGoto DEF FindMember, LocalsOf
    <3> QED BY <1>5, <2>3, <3>2, <3>3 DEF Finds, FindMember
  <2> QED BY <1>5, <2>1, <2>2, <2>3 DEF FindMember, RowsOfUser
<1>6. CASE CountMembers(h)
  BY <1>2, <1>6 DEF CountMembers, Ends
<1>7. CASE FindBefore(h)
  <2>1. loc[h].heir = NoId /\ loc[h].locks = {}
    BY <1>7 DEF FindBefore, LocalsOf
  <2> QED BY <1>2, <1>7, <2>1 DEF FindBefore, Ends
<1>8. CASE Authorize(h)
  BY <1>2, <1>8 DEF Authorize, Ends
<1>9. CASE FindDoc(h)
  BY <1>2, <1>4, <1>9 DEF FindDoc, Ends
<1>10. CASE DeleteDoc(h)
  BY <1>2, <1>10 DEF DeleteDoc
<1>11. CASE SaveDoc(h)
  BY <1>2, <1>4, <1>11 DEF SaveDoc, Ends
<1>12. CASE ChooseHeir(h)
  <2>1. /\ req[h].op = "leave" /\ loc[h].role = 0
        /\ loc[h].heir = NoId /\ loc[h].locks = {}
    BY <1>12 DEF ChooseHeir, LocalsOf
  <2>2. /\ loc'[h].row = loc[h].row /\ loc'[h].role = loc[h].role
        /\ loc'[h].locks = loc[h].locks
        /\ \/ loc'[h].heir \in Heirs(req[h].group) /\ Goto(h, "updateHeir")
           \/ loc'[h].heir = loc[h].heir /\ Goto(h, "deleteRow")
    BY <1>1, <1>12 DEF ChooseHeir, TypeOK, LocType
  <2> QED BY <1>12, <2>1, <2>2, OwnGoto DEF ChooseHeir, Chooses
<1>13. CASE UpdateHeir(h)
  <2>1. ASSUME loc' = [loc EXCEPT ![h].locks = {loc[h].heir}]
        PROVE  /\ loc'[h].row = loc[h].row /\ loc'[h].role = loc[h].role
               /\ loc'[h].heir = loc[h].heir /\ loc'[h].locks = {loc[h].heir}
    BY <1>1, <2>1 DEF TypeOK, LocType
  <2> QED BY <1>4, <1>13, <2>1, OwnGoto DEF UpdateHeir, Locks, LocksHeir, Keeps
<1>14. CASE DeleteRow(h)
  <2>1. ASSUME loc' = [loc EXCEPT ![h].locks = @ \cup {loc[h].row}]
        PROVE  /\ loc'[h].row = loc[h].row /\ loc'[h].role = loc[h].role
               /\ loc'[h].heir = loc[h].heir
               /\ loc'[h].locks = loc[h].locks \cup {loc[h].row}
    BY <1>1, <2>1 DEF TypeOK, LocType
  <2> QED BY <1>4, <1>14, <2>1, OwnGoto DEF DeleteRow, Locks, LocksRow, Keeps
<1>15. CASE PurgeDoc(h)
  BY <1>2, <1>15 DEF PurgeDoc, EndsGroup
<1>16. CASE CommitLeave(h) \/ DropGroup(h)
  BY <1>16 DEF CommitLeave, DropGroup, Leaves, Ends, Flushed, tables
<1>17. CASE UndoDoc(h) \/ RequestFails(h)
  BY <1>17 DEF UndoDoc, RequestFails, Ends
<1>18. CASE MongoThrows(h)
  BY <1>4, <1>18 DEF MongoThrows
<1> QED BY <1>5, <1>6, <1>7, <1>8, <1>9, <1>10, <1>11, <1>12, <1>13, <1>14,
           <1>15, <1>16, <1>17, <1>18 DEF Work, Fail

-----------------------------------------------------------------------------
(* Each part of the invariant is kept by each kind of step. *)

HandlerStep(h) == Arrive(h) \/ Work(h) \/ Fail(h)

\* So every step of a handler has a kind.
LEMMA StepKinds ==
  ASSUME IInv, NEW h \in Handlers, HandlerStep(h)
  PROVE  \/ Arrives(h) \/ Ends(h) \/ Continues(h) \/ Finds(h) \/ Chooses(h)
         \/ Locks(h) \/ InsertRow(h) \/ CommitInsert(h) \/ CommitUpdate(h)
         \/ Leaves(h)
BY ArrivalKind, WorkKinds DEF IInv, LocalsInOrder, HandlerStep

\* Facts about the tables that the type invariant gives.
LEMMA TypedTables ==
  ASSUME TypeOK
  PROVE  /\ NoId \notin DOMAIN groupUser /\ NoId \notin DOMAIN groupInfo
         /\ \A r \in DOMAIN groupUser :
              groupUser[r] \in UserRow /\ r \in RowIds
BY IdsAssumption DEF TypeOK, Table

\* What is left of the locals by a return.
LEMMA ReturnLocals ==
  ASSUME TypeOK, NEW h \in Handlers, Return(h)
  PROVE  /\ pc'[h] = "idle" /\ ~Flushed(h)' /\ ~EndsGroup(h)'
         /\ req'[h].op = "none" /\ req'[h].group = NoId
         /\ loc'[h].row = NoId /\ loc'[h].heir = NoId /\ loc'[h].locks = {}
<1>1. /\ NoReq.op = "none" /\ NoReq.group = NoId
      /\ NoLoc.row = NoId /\ NoLoc.heir = NoId /\ NoLoc.locks = {}
  BY DEF NoReq, NoLoc
<1> QED BY <1>1, OwnReturn DEF Flushed, EndsGroup

\* What the row tables look like after each step that changes them.
LEMMA RowsAfterLeave ==
  ASSUME TypeOK, NEW h \in Handlers, groupUser' = AfterLeave(h)
  PROVE  /\ DOMAIN groupUser' = DOMAIN groupUser \ {loc[h].row}
         /\ \A r \in DOMAIN groupUser' :
              /\ groupUser'[r].group = groupUser[r].group
              /\ groupUser'[r].user = groupUser[r].user
              /\ groupUser'[r].role =
                   IF r = loc[h].heir THEN 0 ELSE groupUser[r].role
BY TypedTables DEF AfterLeave, UserRow

\* A join adds one row to a group that is there, or nothing.
LEMMA RowsAfterInsert ==
  ASSUME TypeOK, NEW h \in Handlers, InsertRow(h)
  PROVE  /\ NewRow \in RowIds \ UsedRows
         /\ \/ groupUser' = groupUser
            \/ /\ DOMAIN groupUser' = DOMAIN groupUser \cup {NewRow}
               /\ \A r \in DOMAIN groupUser : groupUser'[r] = groupUser[r]
               /\ groupUser'[NewRow].group = req[h].group
               /\ groupUser'[NewRow].role = 1
               /\ req[h].group \in DOMAIN groupInfo
<1>1. NewRow \in RowIds \ UsedRows
  BY FreshIds DEF InsertRow
<1> QED BY <1>1 DEF InsertRow, GroupExists, Put, UsedRows

\* The commit of an insert adds a group nobody has seen, with its leader.
LEMMA RowsAfterCommit ==
  ASSUME IInv, NEW h \in Handlers, CommitInsert(h)
  PROVE  /\ req[h].op = "insert"
         /\ req[h].group \notin DOMAIN groupInfo
         /\ loc[h].row \in RowIds \ DOMAIN groupUser
         /\ DOMAIN groupInfo' = DOMAIN groupInfo \cup {req[h].group}
         /\ DOMAIN groupUser' = DOMAIN groupUser \cup {loc[h].row}
         /\ \A r \in DOMAIN groupUser : groupUser'[r] = groupUser[r]
         /\ groupUser'[loc[h].row].group = req[h].group
         /\ groupUser'[loc[h].row].role = 0
<1>1. req[h].op = "insert"
  BY DEF CommitInsert, IInv, LocalsInOrder, LocalsOf
<1>2. /\ req[h].group \notin DOMAIN groupInfo
      /\ loc[h].row \in RowIds \ DOMAIN groupUser
  BY <1>1 DEF IInv, InsertsApart
<1> QED BY <1>1, <1>2 DEF CommitInsert, Put

\* Locks are taken only when free, on rows that are there.
LEMMA LocksStep ==
  ASSUME IInv, NEW h \in Handlers, HandlerStep(h)
  PROVE  LocksHeld'
<1>1. TypeOK /\ LocksHeld
  BY DEF IInv
<1>2. \A k \in Handlers \ {h} : /\ loc'[k] = loc[k] /\ req'[k] = req[k]
                                /\ pc'[k] = pc[k] /\ (Flushed(k)' <=> Flushed(k))
  BY <1>1, OwnOnly DEF HandlerStep, Flushed
<1>3. ASSUME \A k \in Handlers : loc'[k].locks \subseteq DOMAIN groupUser',
             \A k \in Handlers \ {h} : loc'[h].locks \cap loc[k].locks = {},
             pc'[h] = "deleteRow" => loc'[h].locks = {loc'[h].heir} \ {NoId},
             Flushed(h)' => /\ req'[h].op = "leave"
                            /\ loc'[h].locks = {loc'[h].row, loc'[h].heir} \ {NoId}
                            /\ loc'[h].row \in loc'[h].locks
      PROVE  LocksHeld'
  BY <1>1, <1>2, <1>3 DEF LocksHeld
<1>4. CASE Arrives(h)
  BY <1>1, <1>2, <1>3, <1>4 DEF Arrives, LocksHeld, Flushed, tables
<1>5. CASE Ends(h)
  BY <1>1, <1>2, <1>3, <1>5, ReturnLocals DEF Ends, LocksHeld, tables
<1>6. CASE Continues(h)
  BY <1>1, <1>2, <1>3, <1>6 DEF Continues, Keeps, LocksHeld, tables
<1>7. CASE Finds(h) \/ Chooses(h)
  <2>1. NoLoc.locks = {}
    BY DEF NoLoc
  <2> QED BY <1>1, <1>2, <1>3, <1>7, <2>1
          DEF Finds, Chooses, LocksHeld, Flushed, tables
<1>8. CASE Locks(h)
  <2>1. groupUser' = groupUser /\ req'[h] = req[h]
        /\ loc'[h].row = loc[h].row /\ loc'[h].heir = loc[h].heir
    BY <1>8 DEF Locks, LocksHeir, LocksRow, Keeps, tables
  <2>2. NoId \notin DOMAIN groupUser
    BY <1>1, TypedTables
  <2>3. CASE LocksHeir(h)
    <3>1. \A k \in Handlers \ {h} : loc[h].heir \notin loc[k].locks
      BY <2>3 DEF LocksHeir, Blocked
    <3> QED BY <1>1, <1>2, <1>3, <2>1, <2>2, <2>3, <3>1
            DEF LocksHeir, LocksHeld, Flushed
  <2>4. CASE LocksRow(h)
    <3>1. \A k \in Handlers \ {h} : loc[h].row \notin loc[k].locks
      BY <2>4 DEF LocksRow, Blocked
    <3>2. loc[h].locks = {loc[h].heir} \ {NoId} /\ req[h].op = "leave"
      BY <1>1, <2>4 DEF LocksRow, LocksHeld, IInv, LocalsInOrder, LocalsOf
    <3>3. loc'[h].locks = {loc[h].row, loc[h].heir} \ {NoId}
          /\ loc[h].row \in loc'[h].locks
      BY <2>2, <2>4, <3>2 DEF LocksRow
    <3>4. pc'[h] # "deleteRow"
      BY <2>4 DEF LocksRow
    <3> QED BY <1>1, <1>2, <1>3, <2>1, <2>4, <3>1, <3>2, <3>3, <3>4
            DEF LocksRow, LocksHeld
  <2> QED BY <1>8, <2>3, <2>4 DEF Locks
<1>9. CASE InsertRow(h) \/ CommitInsert(h) \/ CommitUpdate(h)
  <2>1. Return(h) /\ DOMAIN groupUser \subseteq DOMAIN groupUser'
    BY <1>1, <1>9, RowsAfterInsert, RowsAfterCommit
       DEF InsertRow, CommitInsert, CommitUpdate
  <2> QED BY <1>1, <1>2, <1>3, <2>1, ReturnLocals DEF LocksHeld
<1>10. CASE Leaves(h)
  <2>1. Return(h) /\ DOMAIN groupUser' = DOMAIN groupUser \ {loc[h].row}
    BY <1>1, <1>10, RowsAfterLeave DEF Leaves
  <2>2. \A k \in Handlers \ {h} : loc[h].row \notin loc[k].locks
    BY <1>1, <1>10 DEF Leaves, LocksHeld
  <2> QED BY <1>1, <1>2, <1>3, <2>1, <2>2, ReturnLocals DEF LocksHeld
<1> QED BY <1>4, <1>5, <1>6, <1>7, <1>8, <1>9, <1>10, StepKinds

\* Nobody remains when a leave starts to end its group, so no other is ending it.
LEMMA EndsStep ==
  ASSUME IInv, NEW h \in Handlers, HandlerStep(h)
  PROVE  OneEnd'
<1>1. TypeOK /\ LocksHeld /\ OneEnd /\ ReadsStillTrue
  BY DEF IInv
<1>2. \A k \in Handlers \ {h} : /\ loc'[k] = loc[k] /\ req'[k] = req[k]
                                /\ EndsGroup(k)' <=> EndsGroup(k)
  BY <1>1, OwnOnly DEF HandlerStep, EndsGroup
<1>3. ASSUME loc'[h].heir # NoId => loc'[h].heir # loc'[h].row,
             EndsGroup(h)' => loc'[h].heir = NoId,
             EndsGroup(h)' => \A k \in Handlers \ {h} :
                                EndsGroup(k) => req'[h].group # req[k].group
      PROVE  OneEnd'
  BY <1>1, <1>2, <1>3 DEF OneEnd
<1>4. CASE Arrives(h) \/ Finds(h)
  <2>1. NoLoc.heir = NoId
    BY DEF NoLoc
  <2> QED BY <1>3, <1>4, <2>1 DEF Arrives, Finds, EndsGroup
<1>5. CASE Ends(h) \/ InsertRow(h) \/ CommitInsert(h) \/ CommitUpdate(h)
           \/ Leaves(h)
  BY <1>1, <1>3, <1>5, ReturnLocals
     DEF Ends, InsertRow, CommitInsert, CommitUpdate, Leaves
<1>6. CASE Continues(h) \/ LocksHeir(h)
  BY <1>1, <1>3, <1>6 DEF Continues, LocksHeir, Keeps, OneEnd, EndsGroup
<1>7. CASE Chooses(h)
  <2>1. loc'[h].heir \in Heirs(req[h].group) => loc[h].row # loc'[h].heir
    BY <1>1, <1>7 DEF Chooses, ReadsStillTrue, Heirs, RowsOf
  <2> QED BY <1>3, <1>7, <2>1 DEF Chooses, EndsGroup
<1>8. CASE LocksRow(h)
  <2>1. /\ loc'[h].row = loc[h].row /\ loc'[h].heir = loc[h].heir
        /\ req'[h] = req[h]
    BY <1>8 DEF LocksRow, Keeps
  <2>2. EndsGroup(h)' => RowsOf(req[h].group) \subseteq {loc[h].row}
    BY <1>8 DEF LocksRow, EndsGroup, Remaining
  <2>3. loc[h].heir # NoId => /\ loc[h].heir \in RowsOf(req[h].group)
                              /\ loc[h].heir # loc[h].row
    BY <1>1, <1>8 DEF LocksRow, LocksHeld, OneEnd, ReadsStillTrue, RowsOf
  <2>4. ASSUME NEW k \in Handlers \ {h}, EndsGroup(k),
               req[h].group = req[k].group
        PROVE  loc[k].row \in RowsOf(req[h].group) \ {loc[h].row}
    <3>1. req[k].op = "leave" /\ loc[k].row \in loc[k].locks
          /\ loc[k].row \in DOMAIN groupUser
      BY <1>1, <2>4 DEF LocksHeld, Flushed, EndsGroup
    <3>2. loc[k].row # loc[h].row
      BY <1>8, <3>1 DEF LocksRow, Blocked
    <3> QED BY <1>1, <2>4, <3>1, <3>2 DEF ReadsStillTrue, RowsOf
  <2> QED BY <1>1, <1>3, <2>1, <2>2, <2>3, <2>4 DEF OneEnd
<1> QED BY <1>4, <1>5, <1>6, <1>7, <1>8, StepKinds DEF Locks

\* A committed or inserted row has an identity that no leave refers to.
LEMMA ReadsStep ==
  ASSUME IInv, NEW h \in Handlers, HandlerStep(h)
  PROVE  ReadsStillTrue'
<1>1. TypeOK /\ ReadsStillTrue /\ TypeOK'
  BY TypeStep DEF IInv, Next, HandlerStep
<1>2. \A k \in Handlers \ {h} : loc'[k] = loc[k] /\ req'[k] = req[k]
  BY <1>1, OwnOnly DEF HandlerStep
<1>3. NoId \notin DOMAIN groupUser'
  BY <1>1, IdsAssumption DEF TypeOK, Table
<1> DEFINE RowTrue(k) ==
             req[k].op = "leave" /\ loc[k].row \in DOMAIN groupUser
             => /\ groupUser[loc[k].row].group = req[k].group
                /\ loc[k].role = 0 => groupUser[loc[k].row].role = 0
           HeirTrue(k) ==
             loc[k].heir \in DOMAIN groupUser
             => /\ req[k].op = "leave" /\ loc[k].role = 0
                /\ groupUser[loc[k].heir].group = req[k].group
<1>4. ReadsStillTrue <=> \A k \in Handlers : RowTrue(k) /\ HeirTrue(k)
  BY DEF ReadsStillTrue
<1>5. ReadsStillTrue' <=> \A k \in Handlers : RowTrue(k)' /\ HeirTrue(k)'
  BY DEF ReadsStillTrue
<1>6. ASSUME groupUser' = groupUser, RowTrue(h)', HeirTrue(h)'
      PROVE  ReadsStillTrue'
  BY <1>1, <1>2, <1>4, <1>5, <1>6
<1>7. ASSUME Return(h),
             \A k \in Handlers \ {h} : \A r \in {loc[k].row, loc[k].heir} :
               r \in DOMAIN groupUser' =>
                 /\ r \in DOMAIN groupUser
                 /\ groupUser'[r].group = groupUser[r].group
                 /\ groupUser[r].role = 0 => groupUser'[r].role = 0
      PROVE  ReadsStillTrue'
  <2>1. RowTrue(h)' /\ HeirTrue(h)'
    BY <1>1, <1>3, <1>7, ReturnLocals
  <2>2. ASSUME NEW k \in Handlers \ {h} PROVE RowTrue(k)' /\ HeirTrue(k)'
    <3>1. RowTrue(k) /\ HeirTrue(k)
      BY <1>1, <1>4
    <3>2. loc'[k] = loc[k] /\ req'[k] = req[k]
      BY <1>2
    <3>3. RowTrue(k)'
      BY <1>7, <3>1, <3>2
    <3>4. HeirTrue(k)'
      BY <1>7, <3>1, <3>2
    <3> QED BY <3>3, <3>4
  <2> QED BY <1>5, <2>1, <2>2
<1>8. CASE Arrives(h)
  <2>1. groupUser' = groupUser /\ loc'[h].heir = NoId
        /\ loc'[h].row \notin DOMAIN groupUser
    BY <1>1, <1>8, TypedTables DEF Arrives, tables, UsedRows
  <2> QED BY <1>3, <1>6, <2>1
<1>9. CASE Ends(h)
  <2>1. groupUser' = groupUser /\ Return(h)
    BY <1>9 DEF Ends, tables
  <2> QED BY <1>1, <1>3, <1>6, <2>1, ReturnLocals
<1>10. CASE Continues(h) \/ Locks(h)
  BY <1>1, <1>4, <1>6, <1>10 DEF Continues, Locks, LocksHeir, LocksRow, Keeps, tables
<1>11. CASE Finds(h)
  <2>1. groupUser' = groupUser /\ loc'[h].heir = NoId
    BY <1>11 DEF Finds, tables, NoLoc
  <2>2. RowTrue(h)'
    BY <1>11, <2>1 DEF Finds, RowsOf
  <2>3. HeirTrue(h)'
    BY <1>3, <2>1
  <2> QED BY <1>6, <2>1, <2>2, <2>3
<1>12. CASE Chooses(h)
  <2>1. groupUser' = groupUser /\ RowTrue(h) /\ HeirTrue(h)
    BY <1>1, <1>4, <1>12 DEF Chooses, tables
  <2>2. RowTrue(h)'
    BY <1>12, <2>1 DEF Chooses
  <2>3. HeirTrue(h)'
    BY <1>3, <1>12, <2>1 DEF Chooses, Heirs, RowsOf
  <2> QED BY <1>6, <2>1, <2>2, <2>3
<1>13. CASE InsertRow(h)
  <2>1. \A k \in Handlers : NewRow \notin {loc[k].row, loc[k].heir}
    BY <1>1, <1>13, RowsAfterInsert DEF UsedRows
  <2> QED BY <1>1, <1>7, <1>13, <2>1, RowsAfterInsert DEF InsertRow
<1>14. CASE CommitInsert(h)
  <2>1. \A k \in Handlers \ {h} : loc[h].row \notin {loc[k].row, loc[k].heir}
    BY <1>14, RowsAfterCommit DEF IInv, InsertsApart
  <2> QED BY <1>7, <1>14, <2>1, RowsAfterCommit DEF CommitInsert
<1>15. CASE CommitUpdate(h)
  BY <1>7, <1>15 DEF CommitUpdate
<1>16. CASE Leaves(h)
  BY <1>1, <1>7, <1>16, RowsAfterLeave DEF Leaves
<1> QED BY <1>8, <1>9, <1>10, <1>11, <1>12, <1>13, <1>14, <1>15, <1>16,
           StepKinds

\* An insert in flight keeps its identities to itself.
LEMMA InsertsStep ==
  ASSUME IInv, NEW h \in Handlers, HandlerStep(h)
  PROVE  InsertsApart'
<1>1. TypeOK /\ InsertsApart
  BY DEF IInv
<1>2. \A k \in Handlers \ {h} : loc'[k] = loc[k] /\ req'[k] = req[k]
  BY <1>1, OwnOnly DEF HandlerStep
<1>3. \A k \in Handlers : req[k].op = "insert" =>
        /\ req[k].group \in GroupIds \ DOMAIN groupInfo
        /\ loc[k].row \in RowIds \ DOMAIN groupUser
        /\ \A j \in Handlers \ {k} : /\ req[j].group # req[k].group
                                     /\ loc[j].row # loc[k].row
                                     /\ loc[j].heir # loc[k].row
  BY <1>1 DEF IInv, InsertsApart, LocalsInOrder, LocalsOf, NoReq
\* Nothing is claimed of the handler that moves, and what it claims is free.
<1>4. ASSUME req'[h].op = "insert" => req[h].op = "insert"
                                       /\ req'[h].group = req[h].group
                                       /\ loc'[h].row = loc[h].row,
             \A k \in Handlers : req'[k].op = "insert" =>
               /\ req[k].group \notin DOMAIN groupInfo'
               /\ loc[k].row \notin DOMAIN groupUser',
             \A k \in Handlers \ {h} : req[k].op = "insert" =>
               /\ req'[h].group # req[k].group
               /\ loc'[h].row # loc[k].row /\ loc'[h].heir # loc[k].row,
             req'[h].op = "insert" => loc'[h].heir = loc[h].heir
      PROVE  InsertsApart'
  BY <1>2, <1>3, <1>4 DEF InsertsApart
<1>5. \A k \in Handlers : req[k].op = "insert" =>
        /\ req[k].group # NoId /\ loc[k].row # NoId
  BY <1>3, IdsAssumption
<1>6. ASSUME Return(h),
             \A k \in Handlers \ {h} : req[k].op = "insert" =>
               /\ req[k].group \notin DOMAIN groupInfo'
               /\ loc[k].row \notin DOMAIN groupUser'
      PROVE  InsertsApart'
  BY <1>1, <1>2, <1>4, <1>5, <1>6, ReturnLocals
<1>7. CASE Arrives(h)
  <2>1. groupInfo' = groupInfo /\ groupUser' = groupUser /\ loc'[h].heir = NoId
    BY <1>7 DEF Arrives, tables
  <2>2. CASE req'[h].op # "insert" /\ req'[h].group \in DOMAIN groupInfo
             /\ loc'[h].row = NoId
    BY <1>2, <1>3, <1>4, <1>5, <2>1, <2>2
  <2>3. CASE /\ req'[h].op = "insert" /\ req'[h].group \in GroupIds \ UsedGroups
             /\ loc'[h].row \in RowIds \ UsedRows
    <3>1. /\ req'[h].group \notin DOMAIN groupInfo
          /\ loc'[h].row \in RowIds \ DOMAIN groupUser
          /\ \A k \in Handlers : /\ req[k].group # req'[h].group
                                 /\ loc[k].row # loc'[h].row
                                 /\ loc[k].heir # loc'[h].row
      BY <2>3 DEF UsedGroups, UsedRows
    <3> QED BY <1>2, <1>3, <1>5, <2>1, <3>1 DEF InsertsApart
  <2> QED BY <1>7, <2>2, <2>3 DEF Arrives
<1>8. CASE Ends(h)
  BY <1>3, <1>6, <1>8 DEF Ends, tables
<1>9. CASE Continues(h) \/ Locks(h)
  BY <1>2, <1>3, <1>4, <1>9 DEF Continues, Locks, LocksHeir, LocksRow, Keeps, tables
<1>10. CASE Finds(h)
  BY <1>2, <1>3, <1>4, <1>5, <1>10 DEF Finds, tables, RowsOf, NoLoc
<1>11. CASE Chooses(h)
  BY <1>2, <1>3, <1>4, <1>5, <1>11 DEF Chooses, tables, Heirs, RowsOf
<1>12. CASE InsertRow(h)
  <2>1. \A k \in Handlers : NewRow # loc[k].row
    BY <1>1, <1>12, RowsAfterInsert DEF UsedRows
  <2> QED BY <1>1, <1>3, <1>6, <1>12, <2>1, RowsAfterInsert DEF InsertRow
<1>13. CASE CommitInsert(h)
  <2>1. Return(h) /\ req[h].op = "insert"
    BY <1>13, RowsAfterCommit DEF CommitInsert
  <2>2. ASSUME NEW k \in Handlers \ {h}, req[k].op = "insert"
        PROVE  /\ req[k].group \notin DOMAIN groupInfo'
               /\ loc[k].row \notin DOMAIN groupUser'
    <3>1. req[h].group # req[k].group /\ loc[h].row # loc[k].row
      BY <1>3, <2>2
    <3>2. /\ DOMAIN groupInfo' = DOMAIN groupInfo \cup {req[h].group}
          /\ DOMAIN groupUser' = DOMAIN groupUser \cup {loc[h].row}
      BY <1>13, RowsAfterCommit
    <3> QED BY <1>3, <2>2, <3>1, <3>2
  <2> QED BY <1>6, <2>1, <2>2
<1>14. CASE CommitUpdate(h)
  <2>1. DOMAIN groupInfo' = DOMAIN groupInfo
    BY <1>14 DEF CommitUpdate, GroupExists, Put
  <2> QED BY <1>3, <1>6, <1>14, <2>1 DEF CommitUpdate
<1>15. CASE Leaves(h)
  <2>1. DOMAIN groupInfo' \subseteq DOMAIN groupInfo
        /\ DOMAIN groupUser' \subseteq DOMAIN groupUser
    BY <1>1, <1>15, RowsAfterLeave DEF Leaves, Without, Restrict
  <2> QED BY <1>3, <1>6, <1>15, <2>1 DEF Leaves
<1> QED BY <1>7, <1>8, <1>9, <1>10, <1>11, <1>12, <1>13, <1>14, <1>15,
           StepKinds

\* Rows come only to groups that are there, and groups go only when empty.
LEMMA MembersStep ==
  ASSUME IInv, NEW h \in Handlers, HandlerStep(h)
  PROVE  MembersHaveGroup'
<1>1. TypeOK /\ MembersHaveGroup
  BY DEF IInv
<1>2. ASSUME UNCHANGED tables PROVE MembersHaveGroup'
  BY <1>1, <1>2 DEF MembersHaveGroup, tables
<1>3. CASE InsertRow(h)
  BY <1>1, <1>3, RowsAfterInsert DEF InsertRow, MembersHaveGroup
<1>4. CASE CommitInsert(h)
  <2>1. /\ req[h].group \notin DOMAIN groupInfo
        /\ DOMAIN groupInfo' = DOMAIN groupInfo \cup {req[h].group}
        /\ DOMAIN groupUser' = DOMAIN groupUser \cup {loc[h].row}
        /\ \A r \in DOMAIN groupUser : groupUser'[r] = groupUser[r]
        /\ groupUser'[loc[h].row].group = req[h].group
    BY <1>4, RowsAfterCommit
  <2> QED BY <1>1, <2>1 DEF MembersHaveGroup
<1>5. CASE CommitUpdate(h)
  BY <1>1, <1>5 DEF CommitUpdate, GroupExists, Put, MembersHaveGroup
<1>6. CASE Leaves(h)
  <2>1. /\ DOMAIN groupUser' = DOMAIN groupUser \ {loc[h].row}
        /\ \A r \in DOMAIN groupUser' : groupUser'[r].group = groupUser[r].group
    BY <1>1, <1>6, RowsAfterLeave DEF Leaves
  <2>2. CASE groupInfo' = groupInfo
    BY <1>1, <2>1, <2>2 DEF MembersHaveGroup
  <2>3. CASE Remaining(h) = {} /\ groupInfo' = Without(groupInfo, {req[h].group})
    <3>1. DOMAIN groupInfo' = DOMAIN groupInfo \ {req[h].group}
      BY <2>3 DEF Without, Restrict
    <3>2. \A r \in DOMAIN groupUser' : groupUser[r].group # req[h].group
      BY <2>1, <2>3 DEF Remaining, RowsOf
    <3> QED BY <1>1, <2>1, <3>1, <3>2 DEF MembersHaveGroup
  <2> QED BY <1>6, <2>2, <2>3 DEF Leaves
<1> QED BY <1>2, <1>3, <1>4, <1>5, <1>6, StepKinds
        DEF Arrives, Ends, Continues, Finds, Chooses, Locks, LocksHeir,
                LocksRow, Keeps

\* The promotion and the departure are one commit: the leaver's row is the
\* leader's when there is an heir.
LEMMA LeaverLed ==
  ASSUME IInv, NEW h \in Handlers, Leaves(h),
         loc[h].heir \in DOMAIN groupUser
  PROVE  /\ loc[h].row \in DOMAIN groupUser
         /\ groupUser[loc[h].row].role = 0
         /\ groupUser[loc[h].row].group = groupUser[loc[h].heir].group
<1>1. req[h].op = "leave" /\ loc[h].row \in DOMAIN groupUser
  BY DEF IInv, LocksHeld, Leaves
<1> QED BY <1>1 DEF IInv, ReadsStillTrue

\* A leader comes with a new group, or in the place of the former leader.
LEMMA LeaderStep ==
  ASSUME IInv, NEW h \in Handlers, HandlerStep(h)
  PROVE  AtMostOneLeader'
<1>1. TypeOK /\ MembersHaveGroup /\ AtMostOneLeader
  BY DEF IInv
<1>2. ASSUME groupUser' = groupUser PROVE AtMostOneLeader'
  BY <1>1, <1>2 DEF AtMostOneLeader
<1>3. CASE InsertRow(h)
  BY <1>1, <1>2, <1>3, RowsAfterInsert DEF UsedRows, AtMostOneLeader
<1>4. CASE CommitInsert(h)
  <2>1. /\ req[h].group \notin DOMAIN groupInfo
        /\ DOMAIN groupInfo' = DOMAIN groupInfo \cup {req[h].group}
        /\ DOMAIN groupUser' = DOMAIN groupUser \cup {loc[h].row}
        /\ \A r \in DOMAIN groupUser : groupUser'[r] = groupUser[r]
        /\ groupUser'[loc[h].row].group = req[h].group
    BY <1>4, RowsAfterCommit
  <2>2. \A r \in DOMAIN groupUser : groupUser[r].group # req[h].group
    BY <1>1, <2>1 DEF MembersHaveGroup
  <2> QED BY <1>1, <2>1, <2>2 DEF AtMostOneLeader
<1>5. CASE CommitUpdate(h)
  BY <1>2, <1>5 DEF CommitUpdate
<1>6. CASE Leaves(h)
  <2>1. /\ DOMAIN groupUser' = DOMAIN groupUser \ {loc[h].row}
        /\ \A r \in DOMAIN groupUser' :
             /\ groupUser'[r].group = groupUser[r].group
             /\ groupUser'[r].role =
                  IF r = loc[h].heir THEN 0 ELSE groupUser[r].role
    BY <1>1, <1>6, RowsAfterLeave DEF Leaves
  <2>2. CASE loc[h].heir \notin DOMAIN groupUser
    BY <1>1, <2>1, <2>2 DEF AtMostOneLeader
  <2>3. CASE loc[h].heir \in DOMAIN groupUser
    <3>1. \A r \in DOMAIN groupUser' :
            groupUser[r].group = groupUser[loc[h].heir].group
            => groupUser[r].role # 0
      BY <1>1, <1>6, <2>1, <2>3, LeaverLed DEF AtMostOneLeader
    <3> QED BY <1>1, <2>1, <3>1 DEF AtMostOneLeader
  <2> QED BY <2>2, <2>3
<1> QED BY <1>2, <1>3, <1>4, <1>5, <1>6, StepKinds
        DEF Arrives, Ends, Continues, Finds, Chooses, Locks, LocksHeir,
                LocksRow, Keeps, tables

-----------------------------------------------------------------------------
(* Documents: who writes them, and why nobody disturbs those of an insert. *)

\* Only four steps write a document, and only to their own group.
LEMMA DocWrites ==
  ASSUME TypeOK, NEW h \in Handlers, HandlerStep(h)
  PROVE  \/ groupGame' = groupGame
         \/ /\ pc[h] \in {"deleteDoc", "saveDoc", "purgeDoc", "undoDoc"}
            /\ groupGame' = Written(h)
<1>1. CASE Arrive(h)
  BY <1>1 DEF Arrive, InsertGroup, JoinGroup, UpdateGroup, LeaveGroup
<1>2. CASE \/ FindMember(h) \/ CountMembers(h) \/ InsertRow(h)
           \/ FindBefore(h) \/ Authorize(h) \/ FindDoc(h)
           \/ CommitInsert(h) \/ CommitUpdate(h) \/ ChooseHeir(h)
           \/ UpdateHeir(h) \/ DeleteRow(h) \/ CommitLeave(h)
           \/ DropGroup(h) \/ RequestFails(h)
  BY <1>2 DEF FindMember, CountMembers, InsertRow, FindBefore, Authorize,
              FindDoc, CommitInsert, CommitUpdate, ChooseHeir, UpdateHeir,
              DeleteRow, CommitLeave, DropGroup, RequestFails
<1>3. CASE DeleteDoc(h) \/ SaveDoc(h) \/ UndoDoc(h) \/ PurgeDoc(h)
           \/ MongoThrows(h)
  BY <1>3 DEF DeleteDoc, SaveDoc, UndoDoc, PurgeDoc, MongoThrows
<1> QED BY <1>1, <1>2, <1>3 DEF HandlerStep, Work, Fail

\* What a write leaves of the documents of another group, one of which is not
\* held by the writer or does not exist.
LEMMA WrittenElsewhere ==
  ASSUME NEW h \in Handlers, NEW g, g # req[h].group,
         pc[h] \in {"deleteDoc", "saveDoc", "purgeDoc", "undoDoc"},
         groupGame' = Written(h),
         pc[h] = "saveDoc" => loc[h].doc \notin DocsOf(g),
         pc[h] = "deleteDoc" => loc[h].found \notin DocsOf(g)
  PROVE  DocsOf(g)' = DocsOf(g)
<1>1. CASE pc[h] = "saveDoc"
  BY <1>1 DEF Written, Put, DocsOf
<1>2. CASE pc[h] = "deleteDoc"
  BY <1>2 DEF Written, Without, Restrict, DocsOf
<1>3. CASE pc[h] \in {"purgeDoc", "undoDoc"}
  BY <1>3 DEF Written, Without, Restrict, DocsOf
<1> QED BY <1>1, <1>2, <1>3

\* A document after a write is the one written, or was there before.
LEMMA WrittenAt ==
  ASSUME NEW h \in Handlers,
         pc[h] \in {"deleteDoc", "saveDoc", "purgeDoc", "undoDoc"},
         groupGame' = Written(h), NEW d \in DOMAIN groupGame'
  PROVE  \/ d \in DOMAIN groupGame /\ groupGame'[d] = groupGame[d]
         \/ pc[h] = "saveDoc" /\ d = loc[h].doc /\ groupGame'[d] = req[h].group
<1>1. CASE pc[h] = "saveDoc"
  BY <1>1 DEF Written, Put
<1>2. CASE pc[h] = "deleteDoc"
  BY <1>2 DEF Written, Without, Restrict
<1>3. CASE pc[h] \in {"purgeDoc", "undoDoc"}
  BY <1>3 DEF Written, Without, Restrict
<1> QED BY <1>1, <1>2, <1>3

\* A request comes to hold what it held, a document of its group, or one that
\* nobody uses.
LEMMA HeldMoves ==
  ASSUME IInv, NEW h \in Handlers, HandlerStep(h)
  PROVE  \A d \in Held(h)' :
           \/ /\ d \in Held(h) \cup DocsOf(req[h].group)
              /\ req'[h] = req[h]
           \/ /\ d \in DocIds \ UsedDocs
              /\ groupGame' = groupGame
<1>1. loc[h] \in LocType /\ TypeOK
  BY DEF IInv, TypeOK
<1>2. NoLoc.doc = NoId /\ NoLoc.before = NoId /\ NoLoc.found = NoId
  BY DEF NoLoc
<1>3. ASSUME loc'[h] = loc[h] PROVE Held(h)' = Held(h)
  BY <1>3 DEF Held
<1>4. ASSUME Return(h) PROVE Held(h)' = {}
  BY <1>1, <1>2, <1>4, OwnReturn DEF Held
<1>5. ASSUME Catch(h)
      PROVE  Held(h)' \subseteq Held(h) /\ req'[h] = req[h]
  <2>1. CASE loc'[h] = loc[h]
    BY <1>1, <1>3, <1>5, <2>1, OwnCatch
  <2>2. CASE loc'[h] = [loc[h] EXCEPT !.catching = TRUE, !.doc = loc[h].before]
    BY <1>1, <1>5, <2>2, OwnCatch DEF LocType, Held
  <2> QED BY <1>1, <1>5, <2>1, <2>2, OwnCatch
<1>6. ASSUME loc[h] = NoLoc PROVE Held(h) = {}
  BY <1>2, <1>6 DEF Held
<1>7. CASE InsertGroup(h)
  <2>1. NewDoc \in DocIds \ UsedDocs /\ groupGame' = groupGame
    BY <1>7, FreshIds DEF InsertGroup
  <2>2. loc'[h] = [loc[h] EXCEPT !.row = NewRow, !.doc = NewDoc]
    BY <1>1, <1>7 DEF InsertGroup, TypeOK
  <2>3. PICK n \in DocIds \ UsedDocs, r \in {NewRow} :
          loc'[h] = [loc[h] EXCEPT !.row = r, !.doc = n]
    BY <2>1, <2>2
  <2>4. loc[h] = NoLoc
    BY <1>7 DEF InsertGroup, Request, IInv, LocalsInOrder, LocalsOf
  <2>5. Held(h)' \subseteq Held(h) \cup {n}
    BY <1>1, <2>3 DEF LocType, Held
  <2> QED BY <1>6, <2>1, <2>4, <2>5
<1>8. CASE JoinGroup(h) \/ UpdateGroup(h) \/ LeaveGroup(h)
  <2>1. loc'[h] = loc[h] /\ loc[h] = NoLoc
    BY <1>8 DEF JoinGroup, UpdateGroup, LeaveGroup, Request, IInv,
                LocalsInOrder, LocalsOf
  <2> QED BY <1>3, <1>6, <2>1
<1>9. CASE Authorize(h)
  <2>1. CASE Return(h)
    BY <1>4, <2>1
  <2>2. CASE (\E n \in DocIds : n \notin UsedDocs) /\ req' = req
             /\ loc' = [loc EXCEPT ![h].doc = NewDoc]
    <3>1. PICK n \in DocIds \ UsedDocs : loc' = [loc EXCEPT ![h].doc = n]
      BY <2>2, FreshIds
    <3>2. loc'[h] = [loc[h] EXCEPT !.doc = n]
      BY <1>1, <3>1 DEF TypeOK
    <3>3. Held(h)' \subseteq Held(h) \cup {n}
      BY <1>1, <3>2 DEF LocType, Held
    <3> QED BY <1>9, <2>2, <3>3 DEF Authorize
  <2> QED BY <1>9, <2>1, <2>2 DEF Authorize
<1>10. ASSUME NEW n \in DocsOf(req[h].group), req' = req,
              \/ loc' = [loc EXCEPT ![h].before = n]
              \/ loc' = [loc EXCEPT ![h].found = n]
       PROVE  Held(h)' \subseteq Held(h) \cup DocsOf(req[h].group)
  <2>1. \/ loc'[h] = [loc[h] EXCEPT !.before = n]
        \/ loc'[h] = [loc[h] EXCEPT !.found = n]
    BY <1>1, <1>10 DEF TypeOK
  <2> QED BY <1>1, <1>10, <2>1 DEF LocType, Held
<1>11. CASE FindBefore(h)
  <2>1. CASE Return(h)
    BY <1>4, <2>1
  <2>2. CASE req' = req /\ loc' = loc
    BY <1>3, <2>2
  <2> QED BY <1>10, <1>11, <2>1, <2>2 DEF FindBefore
<1>12. CASE FindDoc(h)
  <2>1. CASE Return(h)
    BY <1>4, <2>1
  <2>2. CASE req' = req /\ loc' = loc
    BY <1>3, <2>2
  <2>3. CASE Catch(h)
    BY <1>5, <2>3
  <2> QED BY <1>10, <1>12, <2>1, <2>2, <2>3 DEF FindDoc
<1>13. ASSUME NEW r, NEW n,
              \/ loc' = [loc EXCEPT ![h].row = r, ![h].role = n]
              \/ loc' = [loc EXCEPT ![h].heir = r]
              \/ loc' = [loc EXCEPT ![h].locks = r]
       PROVE  Held(h)' = Held(h)
  <2>1. \/ loc'[h] = [loc[h] EXCEPT !.row = r, !.role = n]
        \/ loc'[h] = [loc[h] EXCEPT !.heir = r]
        \/ loc'[h] = [loc[h] EXCEPT !.locks = r]
    BY <1>1, <1>13 DEF TypeOK
  <2> QED BY <1>1, <2>1 DEF LocType, Held
<1>14. CASE FindMember(h)
  <2>1. CASE Return(h)
    BY <1>4, <2>1
  <2>2. CASE req' = req /\ loc' = loc
    BY <1>3, <2>2
  <2>3. ASSUME req' = req, NEW r,
               loc' = [loc EXCEPT ![h].row = r, ![h].role = groupUser[r].role]
        PROVE  Held(h)' = Held(h)
    BY <1>13, <2>3
  <2> QED BY <1>14, <2>1, <2>2, <2>3 DEF FindMember
<1>15. CASE ChooseHeir(h) \/ UpdateHeir(h) \/ DeleteRow(h)
  BY <1>3, <1>5, <1>13, <1>15 DEF ChooseHeir, UpdateHeir, DeleteRow
<1>16. CASE SaveDoc(h) \/ MongoThrows(h)
  BY <1>3, <1>4, <1>5, <1>16 DEF SaveDoc, MongoThrows
<1>17. CASE DeleteDoc(h) \/ PurgeDoc(h)
  BY <1>3, <1>17 DEF DeleteDoc, PurgeDoc
<1>18. CASE \/ CountMembers(h) \/ InsertRow(h) \/ UndoDoc(h) \/ CommitInsert(h)
            \/ CommitUpdate(h) \/ CommitLeave(h) \/ DropGroup(h)
            \/ RequestFails(h)
  BY <1>3, <1>4, <1>18 DEF CountMembers, InsertRow, UndoDoc, CommitInsert,
       CommitUpdate, CommitLeave, DropGroup, RequestFails
<1> QED BY <1>7, <1>8, <1>9, <1>11, <1>12, <1>14, <1>15, <1>16, <1>17, <1>18
        DEF HandlerStep, Arrive, Work, Fail

\* What a writer saves it holds, and what it deletes.
LEMMA WriterHolds ==
  ASSUME IInv, NEW h \in Handlers
  PROVE  /\ pc[h] = "saveDoc" => loc[h].doc \in Held(h)
         /\ loc[h].found # NoId => loc[h].found \in Held(h)
         /\ \A d \in Held(h) : d \in UsedDocs
         /\ \A d \in DOMAIN groupGame : d \in UsedDocs
BY IdsAssumption DEF IInv, LocalsInOrder, LocalsOf, Held, UsedDocs

\* Requests for different groups keep their documents apart.
LEMMA DocsStep ==
  ASSUME IInv, NEW h \in Handlers, HandlerStep(h)
  PROVE  DocsApart'
<1>1. TypeOK /\ DocsApart
  BY DEF IInv
<1>2. ASSUME NEW k \in Handlers \ {h}
      PROVE  Held(k)' = Held(k) /\ req'[k] = req[k]
  BY <1>1, OwnOnly DEF HandlerStep, Held
<1>3. ASSUME NEW d \in Held(h)' PROVE d \in DOMAIN groupGame =>
               groupGame[d] = req'[h].group
  BY <1>1, HeldMoves, WriterHolds DEF DocsApart, DocsOf
<1>4. ASSUME NEW k \in Handlers \ {h}, req'[h].group # req[k].group
      PROVE  Held(h)' \cap Held(k) = {}
  <2>1. ASSUME NEW d \in Held(h)', d \in Held(k) PROVE FALSE
    <3>1. d \in UsedDocs
      BY <2>1, WriterHolds
    <3>2. d \in Held(h) \cup DocsOf(req[h].group) /\ req'[h] = req[h]
      BY <2>1, <3>1, HeldMoves
    <3>3. d \in DocsOf(req[h].group) => groupGame[d] = req[h].group
                                         /\ d \in DOMAIN groupGame
      BY DEF DocsOf
    <3> QED BY <1>1, <1>4, <2>1, <3>2, <3>3 DEF DocsApart
  <2> QED BY <2>1
<1>5. ASSUME NEW k \in Handlers, NEW d \in Held(k)', d \in DOMAIN groupGame'
      PROVE  groupGame'[d] = req'[k].group
  <2>1. CASE groupGame' = groupGame
    BY <1>1, <1>2, <1>3, <1>5, <2>1 DEF DocsApart
  <2>2. CASE /\ pc[h] \in {"deleteDoc", "saveDoc", "purgeDoc", "undoDoc"}
             /\ groupGame' = Written(h)
    <3>1. CASE d \in DOMAIN groupGame /\ groupGame'[d] = groupGame[d]
      BY <1>1, <1>2, <1>3, <1>5, <3>1 DEF DocsApart
    <3>2. CASE /\ pc[h] = "saveDoc" /\ d = loc[h].doc
               /\ groupGame'[d] = req[h].group
      <4>1. d \in Held(h) /\ d \in UsedDocs
        BY <3>2, WriterHolds
      <4>2. CASE k = h
        BY <1>5, <3>2, <4>1, <4>2, HeldMoves
      <4>3. CASE k # h
        BY <1>1, <1>2, <1>5, <3>2, <4>1, <4>3 DEF DocsApart
      <4> QED BY <4>2, <4>3
    <3> QED BY <1>5, <2>2, <3>1, <3>2, WrittenAt
  <2> QED BY <1>1, <2>1, <2>2, DocWrites
<1>6. \A j, k \in Handlers :
        req'[j].group # req'[k].group => Held(j)' \cap Held(k)' = {}
  BY <1>1, <1>2, <1>4 DEF DocsApart
<1> QED BY <1>5, <1>6 DEF DocsApart

\* What an insert is sure of, whoever else is at work.
OwnInsert(h) ==
  /\ pc[h] \in {"findDoc", "saveDoc", "commitInsert", "undoDoc"}
  /\ ~loc[h].catching
  /\ loc[h].doc \in DocIds
  /\ pc[h] \in {"findDoc", "saveDoc"} => DocsOf(req[h].group) = {}
  /\ pc[h] = "commitInsert" => DocsOf(req[h].group) = {loc[h].doc}

\* The steps of an insert keep it sure of its own document.
LEMMA OwnInsertStep ==
  ASSUME IInv, NEW h \in Handlers, HandlerStep(h), req'[h].op = "insert"
  PROVE  OwnInsert(h)'
<1>1. loc[h] \in LocType /\ req[h] \in ReqType /\ TypeOK
  BY DEF IInv, TypeOK
<1>2. CASE InsertGroup(h)
  <2>1. NewDoc \in DocIds \ UsedDocs /\ NewGroup \in GroupIds \ UsedGroups
    BY <1>2, FreshIds DEF InsertGroup
  <2>2. /\ loc'[h] = [loc[h] EXCEPT !.row = NewRow, !.doc = NewDoc]
        /\ req'[h].group = NewGroup /\ pc'[h] = "findDoc"
        /\ groupGame' = groupGame
    BY <1>1, <1>2 DEF InsertGroup, Request, Goto, TypeOK
  <2>3. PICK n \in DocIds \ UsedDocs, r \in {NewRow} :
          loc'[h] = [loc[h] EXCEPT !.row = r, !.doc = n]
    BY <2>1, <2>2
  <2>4. loc'[h].doc = n /\ loc'[h].catching = loc[h].catching
    BY <1>1, <2>3 DEF LocType
  <2>5. pc[h] = "idle"
    BY <1>2 DEF InsertGroup, Request
  <2>6. ~loc[h].catching
    BY <2>5 DEF IInv, LocalsInOrder, LocalsOf
  <2>7. \A d \in DOMAIN groupGame : groupGame[d] # req'[h].group
    BY <2>1, <2>2 DEF UsedGroups
  <2>8. DocsOf(req[h].group)' = {}
    BY <2>2, <2>7 DEF DocsOf
  <2> QED BY <2>2, <2>4, <2>6, <2>8 DEF OwnInsert
<1>3. CASE JoinGroup(h) \/ UpdateGroup(h) \/ LeaveGroup(h)
  BY <1>1, <1>3 DEF JoinGroup, UpdateGroup, LeaveGroup, Request, TypeOK
<1>4. CASE Work(h) \/ Fail(h)
  <2>1. ~Return(h)
    BY <1>1, ReturnLocals
  <2>2. req'[h] = req[h]
    BY <1>1, <1>4, <2>1 DEF Work, Fail, FindMember, CountMembers, InsertRow,
         FindBefore, Authorize, FindDoc, DeleteDoc, SaveDoc, UndoDoc,
         CommitInsert, CommitUpdate, ChooseHeir, UpdateHeir, DeleteRow,
         PurgeDoc, CommitLeave, DropGroup, MongoThrows, RequestFails, Catch
  <2>3. OwnInsert(h)
    BY <2>2 DEF IInv, InsertsUnseen, OwnInsert
  <2>4. CASE FindDoc(h)
    <3>1. DocsOf(req[h].group) = {} /\ ~loc[h].catching
      BY <2>3, <2>4 DEF FindDoc, OwnInsert
    <3>2. ~(Cardinality(DocsOf(req[h].group)) > 1)
      BY <3>1, FS_EmptySet
    <3>3. Goto(h, "saveDoc") /\ loc' = loc /\ groupGame' = groupGame
      BY <2>1, <2>4, <3>1, <3>2 DEF FindDoc
    <3>4. pc'[h] = "saveDoc"
      BY <1>1, <3>3, OwnGoto
    <3> QED BY <2>2, <2>3, <3>1, <3>3, <3>4 DEF OwnInsert, DocsOf
  <2>5. ASSUME Catch(h) PROVE OwnInsert(h)'
    <3>1. pc'[h] = "undoDoc" /\ loc'[h] = loc[h]
      BY <1>1, <2>2, <2>5, OwnCatch
    <3> QED BY <2>2, <2>3, <3>1 DEF OwnInsert
  <2>6. CASE SaveDoc(h)
    <3>1. CASE ~NotADoc(h)
      <4>1. groupGame' = Written(h) /\ loc' = loc /\ Goto(h, "commitInsert")
        BY <2>1, <2>2, <2>3, <2>6, <3>1 DEF SaveDoc, OwnInsert
      <4>2. pc'[h] = "commitInsert"
        BY <1>1, <4>1, OwnGoto
      <4>3. DocsOf(req[h].group)' = {loc[h].doc}
        BY <2>2, <2>3, <2>6, <4>1 DEF SaveDoc, Written, Put, DocsOf, OwnInsert
      <4> QED BY <2>2, <2>3, <4>1, <4>2, <4>3 DEF OwnInsert
    <3> QED BY <2>5, <2>6, <3>1 DEF SaveDoc
  <2>7. CASE MongoThrows(h)
    BY <2>5, <2>7 DEF MongoThrows
  <2>8. CASE ~(FindDoc(h) \/ SaveDoc(h) \/ MongoThrows(h))
    BY <1>4, <2>1, <2>3, <2>8 DEF OwnInsert, Work, Fail, FindMember,
         CountMembers, InsertRow, FindBefore, Authorize, DeleteDoc, UndoDoc,
         CommitInsert, CommitUpdate, ChooseHeir, UpdateHeir, DeleteRow,
         PurgeDoc, CommitLeave, DropGroup, RequestFails
  <2> QED BY <2>4, <2>6, <2>7, <2>8
<1> QED BY <1>2, <1>3, <1>4 DEF HandlerStep, Arrive

\* The steps of the others leave it alone.
LEMMA OtherInsertStep ==
  ASSUME IInv, NEW h \in Handlers, HandlerStep(h), NEW k \in Handlers \ {h},
         req[k].op = "insert"
  PROVE  OwnInsert(k)'
<1>1. OwnInsert(k) /\ TypeOK /\ req[h].group # req[k].group
  BY DEF IInv, InsertsUnseen, InsertsApart, OwnInsert
<1>2. pc'[k] = pc[k] /\ loc'[k] = loc[k] /\ req'[k] = req[k]
  BY <1>1, OwnOnly DEF HandlerStep
<1>3. CASE groupGame' = groupGame
  BY <1>1, <1>2, <1>3 DEF OwnInsert, DocsOf
<1>4. CASE /\ pc[h] \in {"deleteDoc", "saveDoc", "purgeDoc", "undoDoc"}
           /\ groupGame' = Written(h)
  <2>1. PICK g \in GroupIds \cup {NoId} : g = req[k].group
    BY <1>1 DEF TypeOK, ReqType
  <2>2. \A d \in Held(h) : d \notin DocsOf(g)
    BY <1>1, <2>1 DEF IInv, DocsApart, DocsOf
  <2>3. NoId \notin DocsOf(g)
    BY <1>1, IdsAssumption DEF TypeOK, Table, DocsOf
  <2>4. DocsOf(g)' = DocsOf(g)
    BY <1>1, <1>4, <2>1, <2>2, <2>3, WriterHolds, WrittenElsewhere
  <2>5. DocsOf(req[k].group)' = DocsOf(g)'
    BY <1>2, <2>1 DEF DocsOf
  <2> QED BY <1>1, <1>2, <2>1, <2>4, <2>5 DEF OwnInsert
<1> QED BY <1>1, <1>3, <1>4, DocWrites

\* So the document of an insert in flight stays its own.
LEMMA UnseenStep ==
  ASSUME IInv, NEW h \in Handlers, HandlerStep(h)
  PROVE  InsertsUnseen'
<1>1. TypeOK
  BY DEF IInv
<1>2. ASSUME NEW k \in Handlers, req'[k].op = "insert" PROVE OwnInsert(k)'
  <2>1. k # h => req'[k] = req[k]
    BY <1>1, OwnOnly DEF HandlerStep
  <2> QED BY <1>2, <2>1, OwnInsertStep, OtherInsertStep
<1> QED BY <1>2 DEF InsertsUnseen, OwnInsert

-----------------------------------------------------------------------------
(* The invariant, and what follows from it for every number of users,      *)
(* groups and request threads.                                             *)

\* The initial state satisfies the invariant.
LEMMA InitInv == Init => IInv
<1> SUFFICES ASSUME Init PROVE IInv
  OBVIOUS
<1>1. PICK m \in MaxCounts : groupInfo = [g \in {1} |-> [max |-> m, rev |-> 1]]
  BY DEF Init
<1>2. Table(groupInfo, GroupIds, GroupRow)
  BY <1>1, CountsAssumption, IdsAssumption DEF Table, GroupRow
<1>3. Len(Founders) \in Nat /\ \A i \in 1..Len(Founders) : Founders[i] \in Users
  BY FoundersAssumption
<1>4. Table(groupUser, RowIds, UserRow)
  BY <1>3, IdsAssumption DEF Init, Table, UserRow
<1>5. Table(groupGame, DocIds, GroupIds)
  BY IdsAssumption DEF Init, Table
<1>6. /\ pc \in [Handlers -> Steps] /\ req \in [Handlers -> ReqType]
      /\ loc \in [Handlers -> LocType]
  BY NoReqTyped DEF Init, Steps
<1>7. NoReq.op = "none" /\ NoLoc.heir = NoId /\ NoLoc.locks = {}
      /\ NoLoc.catching = FALSE
      /\ NoLoc.doc = NoId /\ NoLoc.before = NoId /\ NoLoc.found = NoId
  BY DEF NoReq, NoLoc
<1>8. \A h \in Handlers : pc[h] = "idle" /\ req[h] = NoReq /\ loc[h] = NoLoc
  BY DEF Init
<1>9. LocalsInOrder
  BY <1>7, <1>8 DEF LocalsInOrder, LocalsOf
<1>10. LocksHeld /\ OneEnd
  BY <1>7, <1>8 DEF LocksHeld, OneEnd, Flushed, EndsGroup
<1>11. NoId \notin DOMAIN groupUser
  BY <1>4, IdsAssumption DEF Table
<1>12. ReadsStillTrue
  BY <1>7, <1>8, <1>11 DEF ReadsStillTrue
<1>13. InsertsApart
  BY <1>7, <1>8 DEF InsertsApart
<1>16. InsertsUnseen
  BY <1>7, <1>8 DEF InsertsUnseen
<1>17. \A h \in Handlers : Held(h) = {}
  BY <1>7, <1>8 DEF Held
<1>18. DocsApart
  BY <1>17 DEF DocsApart
<1>14. MembersHaveGroup
  BY <1>1 DEF Init, MembersHaveGroup
<1>15. AtMostOneLeader
  BY DEF Init, AtMostOneLeader
<1> QED BY <1>2, <1>4, <1>5, <1>6, <1>9, <1>10, <1>12, <1>13, <1>14, <1>15,
           <1>16, <1>18 DEF IInv, TypeOK

\* Every handler keeps its locals in order.
LEMMA LocalsStep ==
  ASSUME IInv, NEW h \in Handlers, HandlerStep(h)
  PROVE  LocalsInOrder'
<1>1. LocalsOf(h)'
  BY LocalsOfStep DEF IInv, LocalsInOrder, HandlerStep
<1>2. ASSUME NEW k \in Handlers \ {h} PROVE LocalsOf(k)'
  <2>1. pc'[k] = pc[k] /\ req'[k] = req[k] /\ loc'[k] = loc[k]
    BY OwnOnly DEF IInv, HandlerStep
  <2> QED BY <2>1 DEF IInv, LocalsInOrder, LocalsOf
<1> QED BY <1>1, <1>2 DEF LocalsInOrder

\* A crash frees all locks and forgets all reads.
LEMMA CrashStep ==
  ASSUME IInv, Crash
  PROVE  IInv'
<1>1. TypeOK'
  BY TypeStep DEF Next
<1>2. NoReq.op = "none" /\ NoLoc.heir = NoId /\ NoLoc.locks = {}
      /\ NoLoc.catching = FALSE
      /\ NoLoc.doc = NoId /\ NoLoc.before = NoId /\ NoLoc.found = NoId
  BY DEF NoReq, NoLoc
<1>3. /\ groupInfo' = groupInfo /\ groupUser' = groupUser
      /\ \A h \in Handlers :
           pc'[h] = "idle" /\ req'[h] = NoReq /\ loc'[h] = NoLoc
  BY DEF Crash, tables
<1>4. /\ LocalsInOrder' /\ LocksHeld' /\ OneEnd'
      /\ InsertsApart' /\ InsertsUnseen'
  BY <1>2, <1>3 DEF LocalsInOrder, LocalsOf, LocksHeld, OneEnd, Flushed,
                    EndsGroup, InsertsApart, InsertsUnseen
<1>8. \A h \in Handlers : Held(h)' = {}
  BY <1>2, <1>3 DEF Held
<1>9. DocsApart'
  BY <1>8 DEF DocsApart
<1>5. NoId \notin DOMAIN groupUser'
  BY <1>1, IdsAssumption DEF TypeOK, Table
<1>6. ReadsStillTrue'
  BY <1>2, <1>3, <1>5 DEF ReadsStillTrue
<1>7. MembersHaveGroup' /\ AtMostOneLeader'
  BY <1>3 DEF IInv, MembersHaveGroup, AtMostOneLeader
<1> QED BY <1>1, <1>4, <1>6, <1>7, <1>9 DEF IInv

\* The invariant is inductive.
LEMMA NextInv == IInv /\ [Next]_vars => IInv'
<1> SUFFICES ASSUME IInv, [Next]_vars PROVE IInv'
  OBVIOUS
<1>1. ASSUME NEW h \in Handlers, HandlerStep(h) PROVE IInv'
  <2>1. TypeOK'
    BY <1>1, TypeStep
  <2>2. /\ LocalsInOrder' /\ LocksHeld' /\ OneEnd' /\ ReadsStillTrue'
        /\ InsertsApart' /\ DocsApart' /\ InsertsUnseen'
    BY <1>1, LocalsStep, LocksStep, EndsStep, ReadsStep, InsertsStep, DocsStep, UnseenStep
  <2>3. MembersHaveGroup' /\ AtMostOneLeader'
    BY <1>1, MembersStep, LeaderStep
  <2> QED BY <2>1, <2>2, <2>3 DEF IInv
<1>2. CASE Crash
  BY <1>2, CrashStep
<1>3. CASE UNCHANGED vars
  <2>1. UNCHANGED <<groupInfo, groupUser, groupGame, pc, req, loc>>
    BY <1>3 DEF vars
  <2>2. TypeOK' /\ LocalsInOrder'
    BY <2>1 DEF IInv, TypeOK, Table, LocalsInOrder, LocalsOf
  <2>3. LocksHeld' /\ OneEnd' /\ ReadsStillTrue'
    BY <2>1 DEF IInv, LocksHeld, OneEnd, Flushed, EndsGroup, ReadsStillTrue
  <2>4. InsertsApart' /\ DocsApart' /\ InsertsUnseen'
    BY <2>1 DEF IInv, InsertsApart, DocsApart, Held, InsertsUnseen, DocsOf
  <2>5. MembersHaveGroup' /\ AtMostOneLeader'
    BY <2>1 DEF IInv, MembersHaveGroup, AtMostOneLeader
  <2> QED BY <2>2, <2>3, <2>4, <2>5 DEF IInv
<1> QED BY <1>1, <1>2, <1>3 DEF Next, HandlerStep

\* IInv holds in every reachable state.
THEOREM Invariance == Spec => []IInv
BY InitInv, NextInv, PTL DEF Spec

\* Rows, documents and the locals of every request keep their types.
THEOREM TypeCorrect == Spec => []TypeOK
<1>1. IInv => TypeOK
  BY DEF IInv
<1> QED BY <1>1, Invariance, PTL

\* However requests, failures and crashes interleave, no group has two leaders.
THEOREM OneLeader == Spec => []AtMostOneLeader
<1>1. IInv => AtMostOneLeader
  BY DEF IInv
<1> QED BY <1>1, Invariance, PTL

\* No membership row outlives its group.
THEOREM NoOrphanRow == Spec => []MembersHaveGroup
<1>1. IInv => MembersHaveGroup
  BY DEF IInv
<1> QED BY <1>1, Invariance, PTL

\* However requests, failures and crashes interleave, no number of requests
\* waits in a circle for each other's row locks.
THEOREM NoDeadlock == Spec => []NoCircle
<1>1. ASSUME IInv PROVE NoCircle
  <2> DEFINE Waits(h) == \E k \in Handlers : WaitsFor(h, k)
             WithHeir(h) == /\ pc[h] = "deleteRow"
                            /\ loc[h].heir \in DOMAIN groupUser
                            /\ loc[h].locks = {loc[h].heir}
             Ending(h) == pc[h] = "dropGroup" /\ loc[h].locks = {loc[h].row}
  <2>1. /\ TypeOK /\ LocalsInOrder /\ LocksHeld /\ OneEnd /\ ReadsStillTrue
        /\ AtMostOneLeader /\ NoId \notin DOMAIN groupUser
    BY <1>1, TypedTables DEF IInv
  \* Who waits and keeps somebody waiting has an heir or ends its group.
  <2>2. ASSUME NEW h \in Handlers, NEW k \in Handlers, WaitsFor(h, k), Waits(k)
        PROVE  WithHeir(k) \/ Ending(k)
    <3>1. loc[k].locks # {} /\ loc[k].locks \subseteq DOMAIN groupUser
      BY <2>1, <2>2 DEF WaitsFor, LocksHeld
    <3>2. CASE pc[k] = "updateHeir"
      BY <2>1, <3>1, <3>2 DEF LocalsInOrder, LocalsOf
    <3>3. CASE pc[k] = "deleteRow"
      BY <2>1, <3>1, <3>3 DEF LocksHeld
    <3>4. CASE pc[k] = "dropGroup"
      BY <2>1, <3>1, <3>4 DEF LocksHeld, OneEnd, Flushed, EndsGroup
    <3> QED BY <2>2, <3>2, <3>3, <3>4 DEF WaitsFor
  \* The row of a leader is nobody's heir, so who has an heir waits for one that
  \* ends its group.
  <2>3. ASSUME NEW k \in Handlers, NEW m \in Handlers, WaitsFor(k, m), Waits(m),
               WithHeir(k)
        PROVE  Ending(m)
    <3>1. SUFFICES ASSUME WithHeir(m) PROVE FALSE
      BY <2>2, <2>3
    <3>2. loc[k].row = loc[m].heir
      BY <2>3, <3>1 DEF WaitsFor
    <3>3. loc[m].row \in DOMAIN groupUser
      BY <2>1, <2>3, <3>1 DEF WaitsFor, LocksHeld
    <3>4. /\ req[k].op = "leave" /\ loc[k].role = 0
          /\ req[m].op = "leave" /\ loc[m].role = 0
          /\ groupUser[loc[m].heir].group = req[m].group
      BY <2>1, <2>3, <3>1 DEF ReadsStillTrue
    <3>5. /\ groupUser[loc[m].heir].role = 0
          /\ groupUser[loc[m].row].role = 0
          /\ groupUser[loc[m].row].group = groupUser[loc[m].heir].group
      BY <2>1, <3>1, <3>2, <3>3, <3>4 DEF ReadsStillTrue
    <3>6. loc[m].heir = loc[m].row
      BY <2>1, <3>1, <3>3, <3>5 DEF AtMostOneLeader
    <3> QED BY <2>1, <3>1, <3>6 DEF OneEnd
  \* A request that ends its group waits for none that waits.
  <2>4. ASSUME NEW m \in Handlers, NEW n \in Handlers, WaitsFor(m, n), Waits(n),
               Ending(m)
        PROVE  FALSE
    <3>1. m # n /\ loc[n].row \in loc[n].locks /\ loc[n].row \in RowsOf(req[m].group)
      BY <2>4 DEF WaitsFor, Remaining
    <3>2. CASE WithHeir(n)
      BY <2>1, <3>1, <3>2 DEF OneEnd
    <3>3. CASE Ending(n)
      <4>1. req[n].op = "leave"
        BY <2>1, <3>3 DEF LocksHeld, Flushed
      <4>2. req[n].group = req[m].group
        BY <2>1, <3>1, <4>1 DEF ReadsStillTrue, RowsOf
      <4> QED BY <2>1, <2>4, <3>1, <3>3, <4>2 DEF OneEnd, EndsGroup
    <3> QED BY <2>2, <2>4, <3>2, <3>3
  <2>5. ASSUME NEW S \in SUBSET Handlers, S # {},
               \A h \in S : \E k \in S : WaitsFor(h, k)
        PROVE  FALSE
    <3>1. \A h \in S : Waits(h)
      BY <2>5
    <3>2. PICK h \in S, k \in S : WaitsFor(h, k)
      BY <2>5
    <3>3. PICK m \in S : WaitsFor(k, m)
      BY <2>5
    <3>4. PICK n \in S : WaitsFor(m, n)
      BY <2>5
    <3>5. CASE WithHeir(k)
      BY <2>3, <2>4, <3>1, <3>3, <3>4, <3>5
    <3>6. CASE Ending(k)
      BY <2>4, <3>1, <3>3, <3>6
    <3> QED BY <2>2, <3>1, <3>2, <3>5, <3>6
  <2> QED BY <2>5 DEF NoCircle
<1> QED BY <1>1, Invariance, PTL

\* A member is promoted in the very step that removes the former leader.
LEMMA Promotions ==
  ASSUME IInv, [Next]_vars
  PROVE  \A r \in DOMAIN groupUser \cap DOMAIN groupUser' :
           groupUser[r].role # 0 /\ groupUser'[r].role = 0
           => \E l \in DOMAIN groupUser \ DOMAIN groupUser' :
                /\ groupUser[l].group = groupUser[r].group
                /\ groupUser[l].role = 0
<1> DEFINE A == \A r \in DOMAIN groupUser \cap DOMAIN groupUser' :
                  groupUser[r].role # 0 /\ groupUser'[r].role = 0
                  => \E l \in DOMAIN groupUser \ DOMAIN groupUser' :
                       /\ groupUser[l].group = groupUser[r].group
                       /\ groupUser[l].role = 0
<1> SUFFICES A
  OBVIOUS
<1>1. ASSUME groupUser' = groupUser PROVE A
  BY <1>1
<1>2. ASSUME NEW h \in Handlers, HandlerStep(h) PROVE A
  <2>1. CASE InsertRow(h)
    BY <1>1, <2>1, RowsAfterInsert DEF IInv
  <2>2. CASE CommitInsert(h)
    BY <2>2, RowsAfterCommit
  <2>3. CASE CommitUpdate(h)
    BY <1>1, <2>3 DEF CommitUpdate
  <2>4. CASE Leaves(h)
    <3>1. DOMAIN groupUser' = DOMAIN groupUser \ {loc[h].row}
          /\ \A r \in DOMAIN groupUser' :
               groupUser'[r].role =
                 IF r = loc[h].heir THEN 0 ELSE groupUser[r].role
      BY <2>4, RowsAfterLeave DEF Leaves, IInv
    <3> QED BY <2>4, <3>1, LeaverLed
  <2> QED BY <1>1, <1>2, <2>1, <2>2, <2>3, <2>4, StepKinds
          DEF Arrives, Ends, Continues, Finds, Chooses, Locks, LocksHeir,
              LocksRow, Keeps, tables
<1>3. CASE Crash
  BY <1>1, <1>3 DEF Crash, tables
<1>4. CASE UNCHANGED vars
  BY <1>1, <1>4 DEF vars
<1> QED BY <1>2, <1>3, <1>4 DEF Next, HandlerStep

\* Whatever overlaps and whatever fails, nobody sees a promotion without the
\* departure it goes with.
THEOREM AtomicHandover == Spec => HandoverIsAtomic
<1> DEFINE A == \A r \in DOMAIN groupUser \cap DOMAIN groupUser' :
                  groupUser[r].role # 0 /\ groupUser'[r].role = 0
                  => \E l \in DOMAIN groupUser \ DOMAIN groupUser' :
                       /\ groupUser[l].group = groupUser[r].group
                       /\ groupUser[l].role = 0
<1>1. IInv /\ [Next]_vars => [A]_vars
  BY Promotions
<1> QED BY <1>1, Invariance, PTL DEF Spec, HandoverIsAtomic

\* However requests, failures and crashes interleave, a group becomes visible
\* with the document of its own creation, and with no other.
THEOREM PublishedComplete == Spec => PublishedWithDoc
<1> DEFINE A == \A g \in DOMAIN groupInfo' \ DOMAIN groupInfo :
                  DocsOf(g) = {groupInfo'[g].rev}
<1>1. ASSUME IInv, [Next]_vars PROVE [A]_vars
  <2>1. ASSUME DOMAIN groupInfo' \subseteq DOMAIN groupInfo PROVE A
    BY <2>1
  <2>2. ASSUME NEW h \in Handlers, HandlerStep(h) PROVE A
    <3>1. CASE CommitInsert(h)
      <4>1. DocsOf(req[h].group) = {loc[h].doc}
        BY <1>1, <3>1, RowsAfterCommit DEF CommitInsert, IInv, InsertsUnseen
      <4>2. groupInfo'[req[h].group].rev = loc[h].doc
        BY <3>1 DEF CommitInsert, Put
      <4> QED BY <1>1, <3>1, <4>1, <4>2, RowsAfterCommit
    <3>2. CASE InsertRow(h) \/ CommitUpdate(h) \/ Leaves(h)
      BY <2>1, <3>2 DEF InsertRow, CommitUpdate, Leaves, GroupExists, Put,
                        Without, Restrict
    <3> QED BY <1>1, <2>1, <2>2, <3>1, <3>2, StepKinds
            DEF Arrives, Ends, Continues, Finds, Chooses, Locks, LocksHeir,
                LocksRow, Keeps, tables
  <2>3. CASE Crash \/ UNCHANGED vars
    BY <2>1, <2>3 DEF Crash, tables, vars
  <2> QED BY <1>1, <2>2, <2>3 DEF Next, HandlerStep
<1>2. IInv /\ [Next]_vars => [A]_vars
  BY <1>1
<1> QED BY <1>2, Invariance, PTL DEF Spec, PublishedWithDoc
=============================================================================
