-------------------------- MODULE ChatServerProofs --------------------------
(***************************************************************************)
(* Theorems about ChatServer, for every set of users, of groups and of     *)
(* frames in flight.                                                       *)
(***************************************************************************)
EXTENDS ChatServer, TLAPS

(* The initial state and the restart. *)

\* An empty slot is a task of the right type.
LEMMA IdleType == Idle \in TaskType
BY DEF Idle, TaskType, Phases, Plans, NoPlan

\* The server starts within the invariant.
LEMMA InitInvariant == Init => IInv
<1> SUFFICES ASSUME Init PROVE IInv
  OBVIOUS
<1>1. TypeOK
  BY IdleType DEF Init, TypeOK
<1>2. WellFormed
  BY DEF Init, WellFormed, Idle, Handled
<1>3. Asking = {}
  BY DEF Init, Idle, Asking, Published
<1>4. OneFrame
  BY <1>3 DEF Init, OneFrame, Pending
<1>5. AloneKnows
  BY DEF Init, AloneKnows, Idle
<1>6. ListsHeal
  BY NamesAssumption DEF Init, ListsHeal, Active
<1> QED BY <1>1, <1>2, <1>4, <1>5, <1>6 DEF IInv

\* A restart forgets the frames, and what depended on them.
LEMMA RestartInvariant == IInv /\ Restart => IInv'
<1> SUFFICES ASSUME IInv, Restart PROVE IInv'
  OBVIOUS
<1>1. TypeOK'
  BY IdleType DEF Restart, IInv, TypeOK
<1>2. WellFormed'
  BY DEF Restart, WellFormed, Idle, Handled
<1>3. Asking' = {}
  BY DEF Restart, Idle, Asking, Published
<1>4. OneFrame'
  <2> SUFFICES ASSUME NEW u \in Users, said'[u] # Unsure
               PROVE  Pending(u)' = {} /\ rows'[u] = said'[u]
    BY DEF OneFrame
  <2>1. Pending(u) = {} /\ said'[u] = said[u]
    BY DEF Restart
  <2> QED BY <1>3, <2>1 DEF Restart, IInv, OneFrame, Pending
<1>5. AloneKnows'
  BY DEF Restart, AloneKnows, Idle
<1>6. ListsHeal'
  BY DEF Restart, ListsHeal
<1> QED BY <1>1, <1>2, <1>4, <1>5, <1>6 DEF IInv

-----------------------------------------------------------------------------
(* Types and the form of tasks. *)

\* What a transaction sees is a table.
LEMMA ViewType ==
  ASSUME TypeOK, WellFormed, NEW t \in Tasks, Handled(t)
  PROVE  View(t) \in [Users -> Groups \cup {Nowhere}]
BY DEF TypeOK, WellFormed, View, Handled, TaskType

\* A handler knows whom it is for, and which group.
LEMMA HandledType ==
  ASSUME TypeOK, WellFormed, NEW t \in Tasks, task[t].pc # "idle"
  PROVE  /\ task \in [Tasks -> TaskType] /\ task[t] \in TaskType
         /\ task[t].user \in Users
         /\ task[t].group \in Groups \cup {Undefined}
         /\ task[t].to \in {task[t].group, Nowhere}
         /\ task[t].to \in Groups \cup {Nowhere, Undefined}
         /\ task[t].list \in SUBSET Users
         /\ task[t].stale \in BOOLEAN /\ task[t].alone \in BOOLEAN
         /\ Handled(t) => task[t].group \in Groups
BY DEF TypeOK, WellFormed, TaskType

\* Steps that change one task, and keep what its frame says, keep tasks well
\* formed.
LEMMA OneTask ==
  ASSUME TypeOK, WellFormed, NEW t \in Tasks, Handled(t)', task[t].pc # "idle",
         Parses(t),
         NEW r \in TaskType, task' = [task EXCEPT ![t] = r],
         r.user = task[t].user, r.group = task[t].group, r.to = task[t].to,
         r.pc \notin {"queued", "looked"}
  PROVE  task' \in [Tasks -> TaskType] /\ WellFormed'
<1>1. task' \in [Tasks -> TaskType]
  BY DEF TypeOK
<1>2. task[t].group \in Groups
  BY HandledType DEF Parses
<1>3. ASSUME NEW s \in Tasks, s # t PROVE task'[s] = task[s]
  BY <1>3 DEF TypeOK
<1>4. task'[t] = r
  BY DEF TypeOK
<1> QED BY <1>1, <1>2, <1>3, <1>4, HandledType DEF WellFormed, Handled

\* A slot that is emptied is well formed.
LEMMA EmptiedType ==
  ASSUME TypeOK, WellFormed, NEW t \in Tasks, task' = [task EXCEPT ![t] = Idle]
  PROVE  task' \in [Tasks -> TaskType] /\ WellFormed'
<1>1. task' \in [Tasks -> TaskType]
  BY IdleType DEF TypeOK
<1>2. ASSUME NEW s \in Tasks, s # t PROVE task'[s] = task[s]
  BY <1>2 DEF TypeOK
<1>3. task'[t] = Idle
  BY DEF TypeOK
<1> QED BY <1>1, <1>2, <1>3 DEF WellFormed, Handled, Idle

\* Looking keeps tasks well formed; the other handlers are no longer alone.
LEMMA LookType ==
  ASSUME TypeOK, WellFormed, NEW t \in Tasks, Look(t)
  PROVE  task' \in [Tasks -> TaskType] /\ WellFormed'
<1>1. task \in [Tasks -> TaskType]
  BY DEF TypeOK
<1>2. ASSUME NEW s \in Tasks PROVE task'[s] \in TaskType
  <2>1. task[s] \in TaskType
    BY <1>1
  <2>2. CASE s = t
    <3> DEFINE seen == rows[task[t].user] # Nowhere
               pc == IF seen THEN "planned" ELSE "looked"
               plan == IF seen THEN PlanSeen(t) ELSE NoPlan
               alone == \A q \in Tasks \ {t} : ~InJoinChat(q)
    <3>1. pc \in Phases /\ plan \in Plans /\ alone \in BOOLEAN
      BY DEF PlanSeen, Phases, Plans, NoPlan
    <3>2. task'[t] = [task[t] EXCEPT !.pc = pc, !.plan = plan, !.alone = alone]
      BY DEF Look
    <3> QED BY <2>1, <2>2, <3>1, <3>2 DEF TaskType
  <2>3. CASE s # t
    <3>1. task'[s] = [task[s] EXCEPT !.alone = FALSE]
      BY <2>3 DEF Look
    <3> QED BY <2>1, <3>1 DEF TaskType
  <2> QED BY <2>2, <2>3
<1>3. ASSUME NEW s \in Tasks, s # t
      PROVE  /\ task'[s].pc = task[s].pc /\ task'[s].user = task[s].user
             /\ task'[s].group = task[s].group /\ task'[s].to = task[s].to
             /\ task'[s].plan = task[s].plan /\ task'[s].stale = task[s].stale
             /\ task'[s].alone = FALSE
  BY <1>1, <1>3 DEF Look, TaskType
<1>4. /\ task'[t].pc \in {"looked", "planned"}
      /\ task'[t].pc = "looked" => task'[t].plan = NoPlan
      /\ task'[t].user = task[t].user /\ task'[t].group = task[t].group
      /\ task'[t].to = task[t].to /\ task'[t].stale = task[t].stale
  BY <1>1 DEF Look, TaskType
<1>5. task[t].pc = "queued" /\ task[t].group \in Groups
  BY HandledType DEF Look, Parses
<1>6. task' \in [Tasks -> TaskType]
  BY <1>2 DEF Look
<1> QED BY <1>3, <1>4, <1>5, <1>6 DEF WellFormed, Handled

\* A commit changes the others only in what they may wait for.
LEMMA CommitType ==
  ASSUME TypeOK, WellFormed, NEW t \in Tasks, Commit(t)
  PROVE  /\ task' \in [Tasks -> TaskType]
         /\ task'[t] = [task[t] EXCEPT !.pc = "committed"]
         /\ \A s \in Tasks \ {t} :
              /\ task'[s].pc = task[s].pc /\ task'[s].user = task[s].user
              /\ task'[s].group = task[s].group /\ task'[s].to = task[s].to
              /\ task'[s].plan = task[s].plan /\ task'[s].alone = task[s].alone
              /\ task'[s].list = task[s].list
              /\ task[s].user # task[t].user => task'[s].stale = task[s].stale
              /\ task[s].pc # "planned" => task'[s].stale = task[s].stale
<1>1. task \in [Tasks -> TaskType]
  BY DEF TypeOK
<1>2. ASSUME NEW s \in Tasks PROVE task'[s] \in TaskType
  BY <1>1 DEF Commit, TaskType, Phases
<1>3. task' \in [Tasks -> TaskType]
  BY <1>2 DEF Commit
<1>4. ASSUME NEW s \in Tasks, s # t
      PROVE  \/ task'[s] = task[s]
             \/ /\ task'[s] = [task[s] EXCEPT !.stale = TRUE]
                /\ task[s].user = task[t].user
                /\ task[s].pc = "planned"
  BY <1>4 DEF Commit
<1>5. task'[t] = [task[t] EXCEPT !.pc = "committed"]
  BY DEF Commit
<1> QED BY <1>1, <1>3, <1>4, <1>5 DEF TaskType

\* Steps keep the types and the form of tasks.
LEMMA StepType ==
  ASSUME TypeOK, WellFormed, NEW t \in Tasks, Advance(t)
  PROVE  TypeOK' /\ WellFormed'
<1>1. CASE Look(t)
  BY <1>1, LookType DEF Look, TypeOK
<1>2. CASE LookAgain(t)
  <2> DEFINE r == [task[t] EXCEPT !.pc = "planned", !.plan = PlanAgain(t)]
  <2>1. r \in TaskType /\ task' = [task EXCEPT ![t] = r] /\ task'[t] = r
    BY <1>2, HandledType DEF LookAgain, PlanAgain, TaskType, Phases, Plans, NoPlan
  <2>2. /\ Handled(t)' /\ r.pc = "planned" /\ r.user = task[t].user
        /\ r.group = task[t].group /\ r.to = task[t].to /\ Parses(t)
    BY <1>2, <2>1, HandledType, NamesAssumption
       DEF LookAgain, Handled, TaskType, Parses
  <2> QED BY <1>2, <2>1, <2>2, OneTask DEF LookAgain, TypeOK
<1>3. CASE Write(t)
  <2> DEFINE r == [task[t] EXCEPT !.pc = "written"]
  <2>1. r \in TaskType /\ task' = [task EXCEPT ![t] = r] /\ task'[t] = r
    BY <1>3, HandledType DEF Write, TaskType, Phases
  <2>2. /\ Handled(t)' /\ r.pc = "written" /\ r.user = task[t].user
        /\ r.group = task[t].group /\ r.to = task[t].to /\ Parses(t)
    BY <1>3, <2>1, HandledType, NamesAssumption DEF Write, Handled, TaskType, Parses
  <2> QED BY <1>3, <2>1, <2>2, OneTask DEF Write, TypeOK
<1>4. CASE Rollback(t)
  BY <1>4, EmptiedType DEF Rollback, TypeOK
<1>5. CASE List(t)
  <2> DEFINE r == [task[t] EXCEPT !.pc = "listed", !.list = MemberList(t)]
  <2>1. r \in TaskType /\ task' = [task EXCEPT ![t] = r] /\ task'[t] = r
    BY <1>5, HandledType DEF List, MemberList, Active, TaskType, Phases
  <2>2. /\ Handled(t)' /\ r.pc = "listed" /\ r.user = task[t].user
        /\ r.group = task[t].group /\ r.to = task[t].to /\ Parses(t)
    BY <1>5, <2>1, HandledType, NamesAssumption DEF List, Handled, TaskType, Parses
  <2> QED BY <1>5, <2>1, <2>2, OneTask DEF List, TypeOK
<1>6. CASE Commit(t)
  <2>1. View(t) \in [Users -> Groups \cup {Nowhere}]
    BY <1>6, ViewType DEF Commit, Handled
  <2>2. WellFormed'
    BY <1>6, CommitType, HandledType DEF WellFormed, Handled, Commit, TaskType
  <2> QED BY <1>6, <2>1, <2>2, CommitType DEF Commit, TypeOK
<1>7. CASE Broadcast(t)
  <2> DEFINE r == [task[t] EXCEPT !.pc = "sent"]
  <2>1. r \in TaskType /\ task' = [task EXCEPT ![t] = r] /\ task'[t] = r
    BY <1>7, HandledType DEF Broadcast, TaskType, Phases
  <2>2. /\ Handled(t)' /\ r.pc = "sent" /\ r.user = task[t].user
        /\ r.group = task[t].group /\ r.to = task[t].to /\ Parses(t)
    BY <1>7, <2>1, HandledType, NamesAssumption
       DEF Broadcast, Handled, TaskType, Parses
  <2> QED BY <1>7, <2>1, <2>2, OneTask DEF Broadcast, TypeOK
<1>8. CASE Draw(t)
  <2>1. task[t].group \in Groups /\ task[t].list \in SUBSET Users
    BY <1>8, HandledType DEF Draw, Handled
  <2>2. task' \in [Tasks -> TaskType] /\ WellFormed'
    BY <1>8, EmptiedType DEF Draw
  <2>3. shown' \in [Groups -> SUBSET Users] /\ doubt' \subseteq Groups
    BY <1>8, <2>1 DEF Draw, ChangeActiveUsers, TypeOK
  <2> QED BY <1>8, <2>2, <2>3 DEF Draw, TypeOK
<1> QED BY <1>1, <1>2, <1>3, <1>4, <1>5, <1>6, <1>7, <1>8
        DEF Advance, Handle, Collide, BadGroup

\* A frame that is sent is well formed.
LEMMA SayType ==
  ASSUME TypeOK, WellFormed, NEW t \in Tasks, NEW u \in Users,
         NEW g \in Groups \cup {Undefined}, NEW joins \in BOOLEAN, Say(t, u, g, joins)
  PROVE  TypeOK' /\ WellFormed'
<1> DEFINE r == [Idle EXCEPT !.pc = "queued", !.user = u, !.group = g,
                             !.to = IF joins THEN g ELSE Nowhere]
<1>1. r \in TaskType /\ task' = [task EXCEPT ![t] = r]
  BY IdleType DEF Say, TaskType, Phases
<1>2. task' \in [Tasks -> TaskType] /\ task'[t] = r
  BY <1>1 DEF TypeOK
<1>3. ASSUME NEW s \in Tasks, s # t PROVE task'[s] = task[s]
  BY <1>3 DEF Say, TypeOK
<1>4. /\ r.pc = "queued" /\ r.user = u /\ r.group = g /\ r.to \in {g, Nowhere}
      /\ r.plan = NoPlan /\ r.stale = FALSE /\ r.alone = FALSE
  BY DEF Idle
<1>5. WellFormed'
  BY <1>2, <1>3, <1>4 DEF WellFormed, Handled
<1>6. said' \in [Users -> Groups \cup {Nowhere, Unsure}]
  BY DEF Say, TypeOK
<1> QED BY <1>2, <1>5, <1>6 DEF Say, TypeOK

-----------------------------------------------------------------------------
(* What a step does to the other tasks and to the rows. *)

\* A handler touches the tasks of others in two ways only.
LEMMA StepOthers ==
  ASSUME TypeOK, WellFormed, NEW t \in Tasks, Advance(t), NEW s \in Tasks, s # t
  PROVE  /\ task'[s].pc = task[s].pc /\ task'[s].user = task[s].user
         /\ task'[s].group = task[s].group /\ task'[s].to = task[s].to
         /\ task'[s].plan = task[s].plan /\ task'[s].list = task[s].list
         /\ task'[s].alone => task[s].alone /\ ~Look(t)
         /\ ~(Commit(t) /\ task[s].user = task[t].user) =>
              task'[s].stale = task[s].stale
<1>1. task \in [Tasks -> TaskType] /\ task[s] \in TaskType
  BY DEF TypeOK
<1>2. CASE Look(t)
  <2>1. task'[s] = [task[s] EXCEPT !.alone = FALSE]
    BY <1>2 DEF Look
  <2>2. task'[s].alone = FALSE
    BY <1>1, <2>1 DEF TaskType
  <2> QED BY <1>1, <2>1, <2>2 DEF TaskType
<1>3. CASE Commit(t)
  <2>1. ~Look(t)
    BY <1>3 DEF Look, Commit
  <2> QED BY <1>3, <2>1, CommitType
<1>4. CASE ~Look(t) /\ ~Commit(t)
  <2>1. task'[s] = task[s]
    BY <1>1, <1>4 DEF Advance, Handle, LookAgain, Write, Collide, BadGroup, Rollback, List, Broadcast, Draw
  <2> QED BY <1>4, <2>1
<1> QED BY <1>2, <1>3, <1>4

\* A row changes only when a task of the user commits what it has planned.
LEMMA StepRows ==
  ASSUME TypeOK, WellFormed, NEW t \in Tasks, Advance(t)
  PROVE  /\ said' = said
         /\ ~Commit(t) => rows' = rows
         /\ Commit(t) =>
              /\ task[t].user \in Users /\ t \in Pending(task[t].user)
              /\ \A u \in Users \ {task[t].user} : rows'[u] = rows[u]
              /\ rows'[task[t].user] = IF task[t].plan = NoPlan
                                         THEN rows[task[t].user] ELSE task[t].to
<1>1. CASE ~Commit(t)
  BY <1>1 DEF Advance, Handle, Look, LookAgain, Write, Collide, BadGroup, Rollback, List, Broadcast, Draw
<1>2. CASE Commit(t)
  <2>1. task[t].user \in Users /\ task[t].group \in Groups
    BY <1>2, HandledType DEF Commit, Handled
  <2>2. t \in Pending(task[t].user)
    BY <1>2, <2>1, NamesAssumption DEF Commit, Pending, Asking, Published
  <2> QED BY <1>2, <2>1, <2>2 DEF Commit, View, TypeOK
<1> QED BY <1>1, <1>2

\* Handling takes frames from those that may still change a row, adds none.
LEMMA StepAsking ==
  ASSUME TypeOK, WellFormed, NEW t \in Tasks, Advance(t)
  PROVE  /\ t \notin Asking => Asking' = Asking /\ ~Commit(t)
         /\ Asking' \in {Asking, Asking \ {t}}
         /\ t \in Asking' => task'[t].user = task[t].user /\ task'[t].to = task[t].to
<1>1. \A s \in Tasks \ {t} : s \in Asking' <=> s \in Asking
  BY StepOthers DEF Asking, Published
<1>2. t \notin Asking => t \notin Asking' /\ ~Commit(t)
  <2> SUFFICES ASSUME t \notin Asking PROVE t \notin Asking' /\ ~Commit(t)
    OBVIOUS
  <2>1. task[t].group = Undefined \/ task[t].pc = "idle" \/ Published(t)
    BY DEF Asking, Published
  <2>2. task[t].group = Undefined => ~Handled(t)
    BY NamesAssumption DEF WellFormed
  <2>3. BadGroup(t) \/ Broadcast(t) \/ Draw(t)
    BY <2>1, <2>2 DEF Advance, Handle, Look, LookAgain, Write, Collide, List, Commit,
                      Handled, Parses, Published
  <2>4. task'[t].pc \in {"idle", "sent"}
    BY <2>3 DEF BadGroup, Broadcast, Draw, Rollback, Idle, TypeOK, TaskType
  <2> QED BY <2>3, <2>4 DEF Asking, Published, BadGroup, Broadcast, Draw, Commit
<1>3. task'[t].pc # "idle" => task'[t].user = task[t].user /\ task'[t].to = task[t].to
  <2>1. task \in [Tasks -> TaskType] /\ task[t] \in TaskType
    BY DEF TypeOK
  <2>2. CASE Look(t)
    BY <2>1, <2>2 DEF Look, TaskType
  <2>3. CASE Commit(t)
    BY <2>1, <2>3, CommitType DEF TaskType
  <2>4. CASE LookAgain(t) \/ Write(t) \/ List(t) \/ Broadcast(t)
    BY <2>1, <2>4 DEF LookAgain, Write, List, Broadcast, TaskType
  <2>5. CASE Rollback(t) \/ Draw(t)
    BY <2>1, <2>5 DEF Rollback, Draw, Idle
  <2> QED BY <2>2, <2>3, <2>4, <2>5 DEF Advance, Handle, Collide, BadGroup
<1>4. t \in Asking' => task'[t].pc # "idle"
  BY DEF Asking, Published
<1>5. Asking \subseteq Tasks /\ Asking' \subseteq Tasks
  BY DEF Asking, Published
<1>6. Asking' \in {Asking, Asking \ {t}}
  BY <1>1, <1>2, <1>5
<1> QED BY <1>1, <1>2, <1>3, <1>4, <1>5, <1>6

-----------------------------------------------------------------------------
(* The frames of a user, and the lists of a group. *)

\* The only frame of a user stays the one that decides.
LEMMA StepOneFrame ==
  ASSUME TypeOK, WellFormed, OneFrame, NEW t \in Tasks, Advance(t)
  PROVE  OneFrame'
<1> SUFFICES ASSUME NEW u \in Users, said[u] # Unsure
             PROVE  \/ Pending(u)' = {} /\ rows'[u] = said[u]
                    \/ \E p \in Tasks :
                         /\ Pending(u)' = {p} /\ task'[p].to = said[u]
                         /\ task'[p].pc \in {"planned", "written", "listed"} => Suits(p)'
  BY StepRows DEF OneFrame
<1>1. \A s \in Tasks \ {t} : s \in Pending(u)' <=> s \in Pending(u)
  BY StepOthers, StepAsking DEF Pending
<1>2. t \in Pending(u)' => t \in Pending(u)
  BY StepAsking DEF Pending
<1>3. Pending(u) \subseteq Tasks /\ Pending(u)' \subseteq Tasks
  BY DEF Pending, Asking, Published
<1>4. t \notin Pending(u) => rows'[u] = rows[u] /\ ~(Commit(t) /\ task[t].user = u)
  BY StepRows
<1>5. CASE t \notin Pending(u)
  <2>1. Pending(u)' = Pending(u)
    BY <1>1, <1>2, <1>3, <1>5
  <2>2. ASSUME NEW p \in Tasks, Pending(u) = {p}
        PROVE  /\ task'[p].to = task[p].to /\ task'[p].pc = task[p].pc
               /\ Suits(p) => Suits(p)'
    <3>1. p # t /\ task[p].user = u
      BY <1>5, <2>2 DEF Pending
    <3>2. /\ task'[p].to = task[p].to /\ task'[p].pc = task[p].pc
          /\ task'[p].plan = task[p].plan /\ task'[p].user = u
          /\ task'[p].stale = task[p].stale
      BY <1>4, <1>5, <3>1, StepOthers
    <3> QED BY <1>4, <1>5, <3>1, <3>2 DEF Suits
  <2> QED BY <1>4, <1>5, <2>1, <2>2 DEF OneFrame
<1>6. CASE t \in Pending(u)
  <2>1. Pending(u) = {t} /\ task[t].to = said[u] /\ task[t].user = u
        /\ task[t].group \in Groups /\ t \in Asking
        /\ (task[t].pc \in {"planned", "written", "listed"} => Suits(t))
    BY <1>6, HandledType DEF OneFrame, Pending, Asking, Published
  <2>2. task \in [Tasks -> TaskType] /\ task[t] \in TaskType
    BY DEF TypeOK
  <2>3. ASSUME t \in Pending(u)', task'[t].pc \in {"planned", "written", "listed"} => Suits(t)'
        PROVE  Pending(u)' = {t} /\ task'[t].to = said[u]
    BY <1>1, <1>3, <2>1, <2>3, StepAsking DEF Pending
  <2>4. CASE Look(t)
    <3>1. task'[t].pc = "planned" => Suits(t)'
      BY <2>1, <2>2, <2>4 DEF Look, Suits, WellFormed, TaskType, PlanSeen, NoPlan
    <3>2. task'[t].pc \in {"looked", "planned"}
      BY <2>2, <2>4 DEF Look, TaskType
    <3>3. t \in Pending(u)'
      BY <2>1, <2>2, <2>4, <3>2 DEF Look, Pending, Asking, Published, TaskType
    <3> QED BY <2>3, <3>1, <3>2, <3>3
  <2>5. CASE LookAgain(t)
    <3> DEFINE r == [task[t] EXCEPT !.pc = "planned", !.plan = PlanAgain(t)]
    <3>1. task'[t] = r /\ rows' = rows
      BY <2>2, <2>5 DEF LookAgain
    <3>2. /\ r.pc = "planned" /\ r.plan = PlanAgain(t) /\ r.user = u /\ r.stale = FALSE
          /\ r.group = task[t].group /\ r.to = task[t].to
      BY <2>1, <2>2, <2>5 DEF LookAgain, TaskType, WellFormed
    <3>3. Suits(t)'
      BY <2>1, <3>1, <3>2 DEF Suits, PlanAgain, NoPlan
    <3>4. t \in Pending(u)'
      BY <2>1, <3>1, <3>2 DEF Pending, Asking, Published
    <3> QED BY <2>3, <3>3, <3>4
  <2>6. CASE Write(t) \/ List(t)
    <3>1. /\ task'[t].pc \in {"written", "listed"} /\ task'[t].plan = task[t].plan
          /\ task'[t].user = u /\ task'[t].stale = task[t].stale
          /\ task'[t].group = task[t].group /\ task'[t].to = task[t].to
          /\ rows' = rows /\ task[t].pc \in {"planned", "written"}
      BY <2>1, <2>2, <2>6 DEF Write, List, TaskType
    <3>2. Suits(t)'
      BY <2>1, <3>1 DEF Suits
    <3>3. t \in Pending(u)'
      BY <2>1, <3>1 DEF Pending, Asking, Published
    <3> QED BY <2>3, <3>2, <3>3
  <2>7. ~Collide(t)
    BY <2>1 DEF Collide, Suits, MayWrite
  <2>8. ~BadGroup(t)
    BY <2>1, NamesAssumption DEF BadGroup, Parses
  <2>9. CASE Commit(t)
    <3>1. task'[t].pc = "committed"
      BY <2>2, <2>9, CommitType DEF TaskType
    <3>2. Pending(u)' = {}
      BY <1>1, <1>3, <2>1, <3>1 DEF Pending, Asking, Published
    <3>3. rows'[u] = said[u]
      <4>1. Suits(t)
        BY <2>1, <2>9 DEF Commit
      <4>2. task[t].plan = NoPlan => rows[u] = task[t].to
        BY <2>1, <4>1 DEF Suits, NoPlan
      <4>3. rows'[u] = IF task[t].plan = NoPlan THEN rows[u] ELSE task[t].to
        BY <2>1, <2>9, StepRows
      <4> QED BY <2>1, <4>2, <4>3
    <3> QED BY <3>2, <3>3
  <2>10. ~Broadcast(t) /\ ~Draw(t)
    BY <2>1 DEF Broadcast, Draw, Asking, Published
  <2> QED BY <2>4, <2>5, <2>6, <2>7, <2>8, <2>9, <2>10 DEF Advance, Handle
<1> QED BY <1>5, <1>6

\* A frame that nobody has overlapped or followed knows the rows.
LEMMA StepAloneKnows ==
  ASSUME TypeOK, WellFormed, AloneKnows, NEW t \in Tasks, Advance(t)
  PROVE  AloneKnows'
<1> SUFFICES ASSUME NEW s \in Tasks, task'[s].alone
             PROVE  /\ \A q \in Tasks \ {s} : ~InJoinChat(q)'
                    /\ task'[s].pc = "listed" =>
                         task'[s].list = Active(View(s), task[s].group)'
                    /\ Published(s)' => task'[s].list = Active(rows, task[s].group)'
  BY DEF AloneKnows
<1>1. task \in [Tasks -> TaskType]
  BY DEF TypeOK
<1>2. CASE s # t
  \* The step is that of another task, which changes nothing any more.
  <2>1. task[s].alone /\ ~Look(t)
    BY <1>2, StepOthers
  <2>2. ~InJoinChat(t)
    BY <1>2, <2>1 DEF AloneKnows
  <2>3. BadGroup(t) \/ Broadcast(t) \/ Draw(t)
    BY <2>1, <2>2 DEF Advance, Handle, LookAgain, Write, Collide, List, Commit,
                      InJoinChat, Published, Handled
  <2>4. rows' = rows /\ task'[s] = task[s] /\ task'[t].pc \in {"idle", "sent"}
        /\ \A q \in Tasks \ {t} : task'[q] = task[q]
    BY <1>1, <1>2, <2>3 DEF BadGroup, Rollback, Broadcast, Draw, Idle, TaskType
  <2>5. \A q \in Tasks \ {s} : ~InJoinChat(q)'
    BY <2>1, <2>4 DEF AloneKnows, InJoinChat, Handled, Published
  <2> QED BY <2>1, <2>4, <2>5 DEF AloneKnows, View, Active, Published
<1>3. CASE s = t
  <2>0. \A q \in Tasks \ {t} : task'[q].pc = task[q].pc
    BY StepOthers
  <2>1. CASE Look(t)
    <3>1. task'[t].pc \in {"looked", "planned"}
          /\ task'[t].alone = \A q \in Tasks \ {t} : ~InJoinChat(q)
      BY <1>1, <2>1 DEF Look, TaskType
    <3> QED BY <1>3, <2>0, <3>1 DEF InJoinChat, Handled, Published
  <2>2. CASE ~Look(t)
    <3>1. /\ task[t].alone /\ ~Collide(t) /\ ~BadGroup(t) /\ ~Draw(t)
          /\ task'[t].user = task[t].user /\ task'[t].group = task[t].group
          /\ task'[t].to = task[t].to
      <4>1. CASE LookAgain(t) \/ Write(t) \/ List(t) \/ Broadcast(t)
        BY <1>1, <1>3, <4>1
           DEF LookAgain, Write, List, Collide, BadGroup, Broadcast, Draw, Rollback,
               TaskType, Idle
      <4>2. CASE Commit(t)
        BY <1>1, <1>3, <4>2, CommitType
           DEF Commit, Collide, BadGroup, Draw, TaskType
      <4>3. CASE Collide(t) \/ BadGroup(t) \/ Draw(t)
        BY <1>1, <1>3, <4>3 DEF Collide, BadGroup, Draw, Rollback, Idle
      <4> QED BY <2>2, <4>1, <4>2, <4>3 DEF Advance, Handle
    <3>2. \A q \in Tasks \ {t} : ~InJoinChat(q)'
      BY <2>0, <3>1 DEF AloneKnows, InJoinChat, Handled, Published
    <3>3. CASE LookAgain(t) \/ Write(t)
      BY <1>1, <1>3, <3>2, <3>3 DEF LookAgain, Write, TaskType, Published
    <3>4. CASE List(t)
      <4>1. /\ task'[t].pc = "listed" /\ task'[t].list = MemberList(t) /\ rows' = rows
            /\ task'[t].plan = task[t].plan
        BY <1>1, <3>4 DEF List, TaskType
      <4> QED BY <1>3, <3>1, <3>2, <4>1 DEF MemberList, View, Active, Published
    <3>5. CASE Commit(t)
      <4>1. /\ task'[t].pc = "committed" /\ task'[t].list = task[t].list
            /\ rows' = View(t) /\ task[t].pc = "listed"
        BY <1>1, <3>5, CommitType DEF Commit, TaskType
      <4> QED BY <1>3, <3>1, <3>2, <4>1 DEF AloneKnows, Active
    <3>6. CASE Broadcast(t)
      <4>1. /\ task'[t].pc = "sent" /\ task'[t].list = task[t].list
            /\ rows' = rows /\ task[t].pc = "committed"
        BY <1>1, <3>6 DEF Broadcast, TaskType
      <4> QED BY <1>3, <3>1, <3>2, <4>1 DEF AloneKnows, Active, Published
    <3> QED BY <2>2, <3>1, <3>3, <3>4, <3>5, <3>6 DEF Advance, Handle
  <2> QED BY <2>1, <2>2
<1> QED BY <1>2, <1>3

\* A list that is not in doubt stays true.
LEMMA StepListsHeal ==
  ASSUME TypeOK, WellFormed, AloneKnows, ListsHeal, NEW t \in Tasks, Advance(t)
  PROVE  ListsHeal'
<1>1. CASE Commit(t)
  <2> SUFFICES ASSUME NEW g \in Groups \ doubt'
               PROVE  shown[g] = Active(rows', g)
    BY <1>1 DEF Commit, ListsHeal, Active
  <2>1. /\ g \notin doubt /\ g # rows[task[t].user] /\ g # task[t].group
        /\ task[t].user \in Users /\ task[t].to \in {task[t].group, Nowhere}
    BY <1>1, HandledType DEF Commit
  <2>2. \A u \in Users : rows'[u] = g <=> rows[u] = g
    BY <1>1, <2>1, StepRows, NamesAssumption
  <2> QED BY <2>1, <2>2 DEF ListsHeal, Active
<1>2. CASE Draw(t)
  <2>1. rows' = rows /\ task[t].group \in Groups
    BY <1>2, HandledType DEF Draw, Handled
  <2>2. shown' = [shown EXCEPT ![task[t].group] = task[t].list]
    BY <1>2 DEF Draw, ChangeActiveUsers
  <2>3. \A g \in Groups \ {task[t].group} : shown'[g] = shown[g]
    BY <2>2 DEF TypeOK
  <2>4. shown'[task[t].group] = task[t].list
    BY <2>1, <2>2 DEF TypeOK
  <2> QED BY <1>2, <2>1, <2>3, <2>4 DEF Draw, ListsHeal, AloneKnows, Active, Published
<1>3. CASE ~Commit(t) /\ ~Draw(t)
  <2>1. rows' = rows /\ shown' = shown /\ doubt' = doubt
    BY <1>3 DEF Advance, Handle, Look, LookAgain, Write, Collide, BadGroup, Rollback, List, Broadcast
  <2> QED BY <2>1 DEF ListsHeal, Active
<1> QED BY <1>1, <1>2, <1>3

-----------------------------------------------------------------------------
(* A frame that is sent. *)

\* Sending a frame preserves the invariant.
LEMMA SayInvariant ==
  ASSUME IInv, NEW t \in Tasks, NEW u \in Users,
         NEW g \in Groups \cup {Undefined}, NEW joins \in BOOLEAN, Say(t, u, g, joins)
  PROVE  IInv'
<1> DEFINE r == [Idle EXCEPT !.pc = "queued", !.user = u, !.group = g,
                             !.to = IF joins THEN g ELSE Nowhere]
<1>1. TypeOK /\ WellFormed /\ OneFrame /\ AloneKnows /\ ListsHeal
  BY DEF IInv
<1>2. TypeOK' /\ WellFormed'
  BY <1>1, SayType
<1>3. /\ task' = [task EXCEPT ![t] = r] /\ rows' = rows /\ shown' = shown
      /\ doubt' = doubt /\ task[t].pc = "idle"
  BY DEF Say
<1>4. task'[t] = r /\ \A s \in Tasks \ {t} : task'[s] = task[s]
  BY <1>1, <1>3 DEF TypeOK
<1>5. /\ r.pc = "queued" /\ r.user = u /\ r.group = g
      /\ r.to = (IF joins THEN g ELSE Nowhere) /\ r.alone = FALSE
  BY DEF Idle
<1>6. AloneKnows'
  <2>1. \A q \in Tasks : InJoinChat(q)' => InJoinChat(q)
    BY <1>3, <1>4, <1>5 DEF InJoinChat, Handled, Published
  <2> QED BY <1>1, <1>3, <1>4, <1>5, <2>1 DEF AloneKnows, View, Active, Published
<1>7. ListsHeal'
  BY <1>1, <1>3 DEF ListsHeal, Active
<1>8. t \notin Asking /\ Asking' = IF g = Undefined THEN Asking ELSE Asking \cup {t}
  <2>1. t \notin Asking
    BY <1>3 DEF Asking, Published
  <2>2. t \in Asking' <=> g # Undefined
    BY <1>4, <1>5 DEF Asking, Published
  <2>3. \A s \in Tasks \ {t} : s \in Asking' <=> s \in Asking
    BY <1>4 DEF Asking, Published
  <2>4. Asking \subseteq Tasks /\ Asking' \subseteq Tasks
    BY DEF Asking, Published
  <2> QED BY <2>1, <2>2, <2>3, <2>4
<1>9. ASSUME NEW v \in Users
      PROVE  Pending(v)' = IF g # Undefined /\ v = u THEN Pending(v) \cup {t} ELSE Pending(v)
  BY <1>4, <1>5, <1>8 DEF Pending, Asking, Published
<1>10. ASSUME NEW s \in Asking PROVE task'[s] = task[s] /\ (Suits(s) => Suits(s)')
  BY <1>3, <1>4, <1>8 DEF Suits, Asking, Published
<1>11. OneFrame'
  <2> SUFFICES ASSUME NEW v \in Users, said'[v] # Unsure
               PROVE  \/ Pending(v)' = {} /\ rows'[v] = said'[v]
                      \/ \E p \in Tasks :
                           /\ Pending(v)' = {p} /\ task'[p].to = said'[v]
                           /\ task'[p].pc \in {"planned", "written", "listed"} => Suits(p)'
    BY DEF OneFrame
  <2>1. CASE g = Undefined \/ v # u
    <3>1. said'[v] = said[v] /\ Pending(v)' = Pending(v)
      BY <1>1, <1>9, <2>1 DEF Say, TypeOK
    <3>2. CASE Pending(v) = {} /\ rows[v] = said[v]
      BY <1>3, <3>1, <3>2
    <3>3. CASE \E p \in Tasks :
                 /\ Pending(v) = {p} /\ task[p].to = said[v]
                 /\ task[p].pc \in {"planned", "written", "listed"} => Suits(p)
      <4>1. PICK p \in Tasks :
                 /\ Pending(v) = {p} /\ task[p].to = said[v]
                 /\ task[p].pc \in {"planned", "written", "listed"} => Suits(p)
        BY <3>3
      <4>2. p \in Asking
        BY <4>1 DEF Pending
      <4> QED BY <1>10, <3>1, <4>1, <4>2
    <3> QED BY <1>1, <3>1, <3>2, <3>3 DEF OneFrame
  <2>2. CASE g # Undefined /\ v = u
    <3>1. Pending(u) = {} /\ said'[u] = (IF joins THEN g ELSE Nowhere)
      <4>1. said'[u] = IF Pending(u) # {} THEN Unsure ELSE IF joins THEN g ELSE Nowhere
        BY <1>1, <2>2 DEF Say, TypeOK
      <4>2. Pending(u) = {}
        BY <2>2, <4>1
      <4> QED BY <4>1, <4>2
    <3>2. Pending(u)' = {t}
      BY <1>9, <2>2, <3>1
    <3> QED BY <1>4, <1>5, <2>2, <3>1, <3>2
  <2> QED BY <2>1, <2>2
<1> QED BY <1>2, <1>6, <1>7, <1>11 DEF IInv

-----------------------------------------------------------------------------
(* The theorems. *)

\* Stuttering preserves the invariant.
LEMMA StutterInvariant == IInv /\ UNCHANGED vars => IInv'
BY DEF vars, IInv, TypeOK, WellFormed, Handled, InJoinChat, OneFrame, Pending, Asking, Published, Suits,
       AloneKnows, View, Active, ListsHeal

\* IInv is inductive: every step of the server keeps it (joinChat,
\* ChatService.java:28-72, and enter, ChatController.java:24-30).
THEOREM Invariance == Spec => []IInv
<1>1. Init => IInv
  BY InitInvariant
<1>2. IInv /\ [Next]_vars => IInv'
  <2> SUFFICES ASSUME IInv, [Next]_vars PROVE IInv'
    OBVIOUS
  <2>1. ASSUME NEW t \in Tasks, Advance(t) PROVE IInv'
    <3>1. TypeOK /\ WellFormed /\ OneFrame /\ AloneKnows /\ ListsHeal
      BY DEF IInv
    <3> QED BY <2>1, <3>1, StepType, StepOneFrame, StepAloneKnows, StepListsHeal DEF IInv
  <2> QED BY <2>1, RestartInvariant, SayInvariant, StutterInvariant DEF Next
<1> QED BY <1>1, <1>2, PTL DEF Spec

\* Once the last frame of a user is handled, his row says what it said, if no
\* other frame of his was being handled when it was sent.
THEOREM PresenceSettles == Spec => []SettledPresence
<1>1. IInv => SettledPresence
  BY DEF IInv, OneFrame, SettledPresence
<1> QED BY <1>1, Invariance, PTL

\* A page shows who is in its group, but between a change and the next list of a
\* frame that others neither overlap nor follow, and when an older list of the
\* outbound channel is drawn after it.
THEOREM ListsTrue == Spec => []ListsHeal
<1>1. IInv => ListsHeal
  BY DEF IInv
<1> QED BY <1>1, Invariance, PTL

-----------------------------------------------------------------------------
(* What the steps are to those who ask. *)

\* What is pending, as the promise sees it.
Asked(t) == IF t \in Asking THEN [user |-> task[t].user, to |-> task[t].to]
                            ELSE [user |-> Nowhere, to |-> Nowhere]

\* Steps that keep who asks for what keep the promise where it is.
LEMMA SameAsked ==
  ASSUME rows' = rows, \A t \in Tasks : Asked(t)' = Asked(t)
  PROVE  UNCHANGED Promise!vars
BY DEF Promise!vars, Asked

\* Stuttering is.
LEMMA UnchangedPromise == UNCHANGED vars => UNCHANGED Promise!vars
<1> SUFFICES ASSUME UNCHANGED vars PROVE UNCHANGED Promise!vars
  OBVIOUS
<1>1. rows' = rows /\ task' = task
  BY DEF vars
<1>2. \A t \in Tasks : Asked(t)' = Asked(t)
  BY <1>1 DEF Asked, Asking, Published
<1> QED BY <1>1, <1>2, SameAsked

\* A restart is the promise's.
LEMMA RestartPromise == Restart => Promise!Restart
<1> SUFFICES ASSUME Restart PROVE Promise!Restart
  OBVIOUS
<1>1. Asking' = {} /\ rows' = rows
  BY DEF Restart, Asking, Published, Idle
<1> QED BY <1>1 DEF Promise!Restart, Promise!Nothing

\* A handler serves or refuses what was asked, or does nothing anyone sees.
LEMMA HandlePromise ==
  ASSUME IInv, NEW t \in Tasks, Advance(t)
  PROVE  Promise!Serve(t) \/ Promise!Refuse(t) \/ UNCHANGED Promise!vars
<1>1. TypeOK /\ WellFormed
  BY DEF IInv
<1>2. \A s \in Tasks \ {t} : Asked(s)' = Asked(s)
  BY <1>1, StepOthers, StepAsking DEF Asked
<1>3. CASE Asking' = Asking /\ ~Commit(t)
  <2>1. Asked(t)' = Asked(t)
    BY <1>1, <1>3, StepAsking DEF Asked
  <2>2. rows' = rows
    BY <1>1, <1>3, StepRows
  <2> QED BY <1>2, <2>1, <2>2, SameAsked
<1>4. CASE Asking' # Asking \/ Commit(t)
  <2>1. t \in Asking /\ t \notin Asking'
    <3>1. CASE Commit(t)
      <4>1. task'[t].pc = "committed"
        BY <1>1, <3>1, CommitType DEF TypeOK, TaskType
      <4> QED BY <1>1, <3>1, <4>1, StepAsking DEF Asking, Published
    <3> QED BY <1>1, <1>4, <3>1, StepAsking
  <2>2. task[t].user \in Users /\ Nowhere \notin Users
    BY <1>1, <2>1, HandledType, NamesAssumption DEF Asking, Published
  <2> DEFINE pending == [s \in Tasks |-> Asked(s)]
  <2>3. pending' = [pending EXCEPT ![t] = [user |-> Nowhere, to |-> Nowhere]]
    BY <1>2, <2>1 DEF Asked
  <2>4. pending[t] = [user |-> task[t].user, to |-> task[t].to]
        /\ pending[t] # [user |-> Nowhere, to |-> Nowhere]
    BY <2>1, <2>2 DEF Asked
  <2>5. CASE Commit(t) /\ task[t].plan # NoPlan
    <3>1. rows' = [rows EXCEPT ![task[t].user] = task[t].to]
      BY <2>5 DEF Commit, View
    <3> QED BY <2>3, <2>4, <3>1 DEF Promise!Serve, Promise!Nothing, Asked
  <2>6. CASE ~Commit(t) \/ task[t].plan = NoPlan
    <3>1. rows' = rows
      BY <1>1, <2>6, StepRows DEF Commit, View
    <3> QED BY <2>3, <2>4, <3>1 DEF Promise!Refuse, Promise!Nothing, Asked
  <2> QED BY <2>5, <2>6
<1> QED BY <1>3, <1>4

\* A frame that names a group asks; another does nothing anyone sees.
LEMMA SayPromise ==
  ASSUME IInv, NEW t \in Tasks, NEW u \in Users,
         NEW g \in Groups \cup {Undefined}, NEW joins \in BOOLEAN, Say(t, u, g, joins)
  PROVE  Promise!Ask(t) \/ UNCHANGED Promise!vars
<1> DEFINE r == [Idle EXCEPT !.pc = "queued", !.user = u, !.group = g,
                             !.to = IF joins THEN g ELSE Nowhere]
<1>1. task' = [task EXCEPT ![t] = r] /\ rows' = rows /\ task[t].pc = "idle"
  BY DEF Say
<1>2. task'[t] = r /\ \A s \in Tasks \ {t} : task'[s] = task[s]
  BY <1>1 DEF IInv, TypeOK
<1>3. r.pc = "queued" /\ r.user = u /\ r.group = g /\ r.to = (IF joins THEN g ELSE Nowhere)
  BY DEF Idle
<1>4. \A s \in Tasks \ {t} : Asked(s)' = Asked(s)
  BY <1>2 DEF Asked, Asking, Published
<1>5. t \notin Asking /\ Asked(t) = [user |-> Nowhere, to |-> Nowhere]
  BY <1>1 DEF Asked, Asking, Published
<1>6. CASE g = Undefined
  <2>1. Asked(t)' = Asked(t)
    BY <1>2, <1>3, <1>5, <1>6 DEF Asked, Asking, Published
  <2> QED BY <1>1, <1>4, <2>1, SameAsked
<1>7. CASE g # Undefined
  <2> DEFINE pending == [s \in Tasks |-> Asked(s)]
             q == [user |-> u, to |-> IF joins THEN g ELSE Nowhere]
  <2>1. Asked(t)' = q
    BY <1>2, <1>3, <1>7 DEF Asked, Asking, Published
  <2>2. pending' = [pending EXCEPT ![t] = q] /\ pending[t] = [user |-> Nowhere, to |-> Nowhere]
    BY <1>4, <1>5, <2>1
  <2>3. q \in Promise!Requests
    BY <1>7 DEF Promise!Requests
  <2> QED BY <1>1, <2>2, <2>3 DEF Promise!Ask, Promise!Nothing, Asked
<1> QED BY <1>6, <1>7

\* joinChat: a request takes effect at once and as a whole, or not at all.
THEOREM Refinement == Spec => RefinesPresence
<1>1. Init => Promise!Init
  BY DEF Init, Promise!Init, Promise!Nothing, Asking, Published, Idle
<1>2. IInv /\ [Next]_vars => [Promise!Next]_Promise!vars
  <2> SUFFICES ASSUME IInv, Next PROVE Promise!Next \/ UNCHANGED Promise!vars
    BY UnchangedPromise
  <2>1. CASE Restart
    BY <2>1, RestartPromise DEF Promise!Next
  <2>2. ASSUME NEW t \in Tasks, Advance(t)
        PROVE  Promise!Next \/ UNCHANGED Promise!vars
    BY <2>2, HandlePromise DEF Promise!Next
  <2>3. ASSUME NEW t \in Tasks, NEW u \in Users, NEW g \in Groups \cup {Undefined},
               NEW joins \in BOOLEAN, Say(t, u, g, joins)
        PROVE  Promise!Next \/ UNCHANGED Promise!vars
    BY <2>3, SayPromise DEF Promise!Next
  <2> QED BY <2>1, <2>2, <2>3 DEF Next
<1> QED BY <1>1, <1>2, Invariance, PTL DEF Spec, RefinesPresence, Promise!Spec
=============================================================================
