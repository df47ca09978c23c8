-------------------------- MODULE UserGamesProofs ---------------------------
(***************************************************************************)
(* Proofs about UserGames for every number of users, games, documents and  *)
(* requests at once: the inductive invariant IInv, and what follows of it. *)
(*                                                                         *)
(* A step of a request that is being served moves it alone (Moves) and     *)
(* leaves the documents, deletes the one found or saves one, whether it    *)
(* throws then or not; each part of the invariant has a lemma for each of  *)
(* the three.                                                              *)
(***************************************************************************)
EXTENDS UserGames, TLAPS

\* Only request h moves: to p, remembering document f, with the list b.
Moves(h, p, f, b) ==
  /\ req' \in [Handlers -> Requests]
  /\ \A i \in Handlers \ {h} : req'[i] = req[i]
  /\ req'[h].pc = p /\ req'[h].found = f /\ req'[h].body = b
  /\ req'[h].op = req[h].op /\ req'[h].user = req[h].user
  /\ req'[h].alone = req[h].alone /\ req'[h].want = req[h].want
  /\ req'[h].before = req[h].before

\* Only request h moves, and it ends.
Ends(h, result) == Moves(h, "done", NoId, NoList) /\ req'[h].result = result

\* One of the ids h may save under is given to its list.
Saves(h) == \E i \in SaveId(h) : docs' = Saved(h, i)

-----------------------------------------------------------------------------
(* Types. *)

\* Changing a list by another gives a list.
LEMMA ChangedTyped ==
  ASSUME NEW op, NEW list \in Lists, NEW body \in Lists
  PROVE  Changed(op, list, body) \in Lists
BY DEF Changed, Lists

\* The fields of a request.
LEMMA Fields ==
  ASSUME TypeOK, NEW h \in Handlers
  PROVE  /\ req[h].pc \in {"idle", "check", "find", "delete", "save", "commit", "done"}
         /\ req[h].op \in Ops \cup {"none"} /\ req[h].user \in Users \cup {NoUser}
         /\ req[h].body \in Lists /\ req[h].bad \in {"no", "row", "list"}
         /\ req[h].found \in DocIds \cup {NoId} /\ req[h].alone \in BOOLEAN
         /\ req[h].result \in {"none", "answered", "refused", "failed"}
         /\ req[h].want \in SUBSET Lists /\ req[h].before \in SUBSET Documents
BY DEF TypeOK, Requests

\* An idle request is typed.
LEMMA NoRequestTyped == NoRequest \in Requests
BY DEF NoRequest, Requests, NoList, Lists

\* Goto moves the request and changes none of its locals.
LEMMA GotoMoves ==
  ASSUME TypeOK, NEW h \in Handlers, NEW p \in {"idle", "check", "find", "delete", "save", "commit", "done"},
         Goto(h, p)
  PROVE  Moves(h, p, req[h].found, req[h].body)
BY Fields DEF Goto, TypeOK, Requests, Moves

\* A request that goes on, remembering a document and a list.
LEMMA RemembersAll ==
  ASSUME TypeOK, NEW h \in Handlers, NEW p \in {"delete", "save"},
         NEW f \in DocIds \cup {NoId}, NEW list \in Lists,
         req' = [req EXCEPT ![h].pc = p, ![h].found = f, ![h].body = list]
  PROVE  Moves(h, p, f, list)
<1> DEFINE new == [req[h] EXCEPT !.pc = p, !.found = f, !.body = list]
<1>1. req[h] \in Requests
  BY DEF TypeOK
<1>2. new \in Requests
  BY <1>1 DEF Requests
<1>3. /\ new.pc = p /\ new.found = f /\ new.body = list
      /\ new.op = req[h].op /\ new.user = req[h].user
      /\ new.alone = req[h].alone /\ new.want = req[h].want /\ new.before = req[h].before
  BY <1>1 DEF Requests
<1>4. req' = [req EXCEPT ![h] = new]
  OBVIOUS
<1> HIDE DEF new
<1>5. /\ req' \in [Handlers -> Requests] /\ req'[h] = new
      /\ \A i \in Handlers \ {h} : req'[i] = req[i]
  BY <1>2, <1>4 DEF TypeOK
<1> QED
  BY <1>3, <1>5 DEF Moves

\* A request that goes on, remembering a document.
LEMMA Remembers ==
  ASSUME TypeOK, NEW h \in Handlers, NEW p \in {"delete", "save"},
         NEW f \in DocIds \cup {NoId},
         req' = [req EXCEPT ![h].pc = p, ![h].found = f]
  PROVE  Moves(h, p, f, req[h].body)
<1>1. req[h] \in Requests
  BY DEF TypeOK
<1>2. req' = [req EXCEPT ![h].pc = p, ![h].found = f, ![h].body = req[h].body]
  BY <1>1 DEF Requests
<1> QED
  BY <1>1, <1>2, RemembersAll DEF Requests

\* Finish ends the request and forgets its locals.
LEMMA FinishEnds ==
  ASSUME TypeOK, NEW h \in Handlers, NEW r \in {"answered", "refused", "failed"},
         Finish(h, r)
  PROVE  Ends(h, r)
<1> DEFINE new == [req[h] EXCEPT !.pc = "done", !.result = r,
                                 !.body = NoList, !.bad = "no", !.found = NoId]
<1>1. NoList \in Lists
  BY DEF NoList, Lists
<1>2. /\ new \in Requests
      /\ new.pc = "done" /\ new.found = NoId /\ new.body = NoList /\ new.result = r
      /\ new.op = req[h].op /\ new.user = req[h].user
      /\ new.alone = req[h].alone /\ new.want = req[h].want /\ new.before = req[h].before
  <2>1. req[h] \in Requests
    BY DEF TypeOK
  <2>2. new \in Requests
    BY <1>1, <2>1 DEF Requests
  <2> QED
    BY <2>1, <2>2 DEF Requests
<1>3. req' = [req EXCEPT ![h] = new]
  BY DEF Finish
<1> HIDE DEF new
<1>4. req' \in [Handlers -> Requests] /\ req'[h] = new
      /\ \A i \in Handlers \ {h} : req'[i] = req[i]
  BY <1>2, <1>3 DEF TypeOK
<1> QED
  BY <1>2, <1>4 DEF Ends, Moves

\* What a new request wants is a set of lists.
LEMMA WantedTyped ==
  ASSUME TypeOK, NEW u \in Users, NEW op \in Ops, NEW body \in Lists
  PROVE  Wanted(u, op, body) \in SUBSET Lists
<1>1. \A d \in DocsOf(u) : d.games \in Lists
  BY DEF DocsOf, TypeOK, Documents
<1>2. \A d \in DocsOf(u) : Changed(op, d.games, body) \in Lists
  BY <1>1, ChangedTyped
<1> QED
  BY <1>1, <1>2 DEF Wanted

\* A new request: its own locals, and nobody else of its user is alone now.
Asks(h, u, op, body) ==
  /\ req' \in [Handlers -> Requests]
  /\ \A i \in Handlers \ {h} :
       /\ req'[i].pc = req[i].pc /\ req'[i].op = req[i].op /\ req'[i].user = req[i].user
       /\ req'[i].body = req[i].body /\ req'[i].found = req[i].found
       /\ IF req[i].user = u THEN ~req'[i].alone ELSE req'[i] = req[i]
  /\ req'[h].pc = IF op = "join" THEN "check" ELSE "find"
  /\ req'[h].op = op /\ req'[h].user = u /\ req'[h].body = body
  /\ req'[h].found = NoId
  /\ req'[h].alone <=> Serving(u) = {}
  /\ Serving(u) = {} =>
       req'[h].want = Wanted(u, op, body) /\ req'[h].before = DocsOf(u)

\* A new request asks for what it was given, and finds its user free or not.
LEMMA RequestAsks ==
  ASSUME TypeOK, NEW h \in Handlers, NEW u \in Users, NEW op \in Ops,
         NEW bad \in Defects(op), NEW body \in Bodies(op), Request(h, u, op, body, bad)
  PROVE  Asks(h, u, op, body)
<1>1. body \in Lists /\ bad \in {"no", "row", "list"}
  BY DEF Bodies, Defects
<1> DEFINE want == IF Serving(u) = {} THEN Wanted(u, op, body) ELSE {}
           before == IF Serving(u) = {} THEN DocsOf(u) ELSE {}
           new == [NoRequest EXCEPT
                     !.pc = IF op = "join" THEN "check" ELSE "find",
                     !.op = op, !.user = u, !.body = body, !.bad = bad,
                     !.alone = Serving(u) = {}, !.want = want, !.before = before]
<1>2. want \in SUBSET Lists
  BY <1>1, WantedTyped
<1>3. before \in SUBSET Documents
  BY DEF DocsOf, TypeOK
<1>4. req' = [i \in Handlers |-> IF i = h THEN new
                ELSE IF req[i].user = u THEN Overtaken(req[i]) ELSE req[i]]
  BY DEF Request
<1>5. Serving(u) = {} => want = Wanted(u, op, body) /\ before = DocsOf(u)
  OBVIOUS
<1>6. (Serving(u) = {}) \in BOOLEAN
  OBVIOUS
<1> HIDE DEF want, before
<1>7. new \in Requests
  BY <1>1, <1>2, <1>3, <1>6, NoRequestTyped DEF Requests, NoRequest
<1>8. /\ new.pc = IF op = "join" THEN "check" ELSE "find"
      /\ new.op = op /\ new.user = u /\ new.body = body
      /\ new.found = NoId /\ new.want = want /\ new.before = before
      /\ new.alone <=> Serving(u) = {}
  BY DEF NoRequest
<1> HIDE DEF new
<1>9. ASSUME NEW i \in Handlers
      PROVE  /\ Overtaken(req[i]) \in Requests /\ ~Overtaken(req[i]).alone
             /\ Overtaken(req[i]).pc = req[i].pc /\ Overtaken(req[i]).op = req[i].op
             /\ Overtaken(req[i]).user = req[i].user
             /\ Overtaken(req[i]).body = req[i].body
             /\ Overtaken(req[i]).found = req[i].found
  <2>1. req[i] \in Requests
    BY DEF TypeOK
  <2> QED
    BY <2>1 DEF Overtaken, Requests
<1>10. req' \in [Handlers -> Requests] /\ req'[h] = new
  BY <1>4, <1>7, <1>9 DEF TypeOK
<1>11. \A i \in Handlers \ {h} :
         req'[i] = IF req[i].user = u THEN Overtaken(req[i]) ELSE req[i]
  BY <1>4
<1> QED
  BY <1>5, <1>8, <1>9, <1>10, <1>11 DEF Asks

-----------------------------------------------------------------------------
(* What each step does. *)

\* The steps that only read, or have nothing to change.
LEMMA ReadSteps ==
  ASSUME TypeOK, NEW h \in Handlers
  PROVE  /\ CheckUser(h) =>
              /\ req[h].pc = "check" /\ UNCHANGED <<docs, rows, clash, lost>>
              /\ \/ Ends(h, "refused")
                 \/ req[h].user \notin rows /\ Moves(h, "find", req[h].found, req[h].body)
         /\ FindsTwo(h) =>
              /\ req[h].pc = "find" /\ UNCHANGED <<docs, rows, clash, lost>>
              /\ Ends(h, "refused")
         /\ FindsNone(h) =>
              /\ req[h].pc = "find" /\ UNCHANGED <<docs, rows, clash, lost>>
              /\ DocsOf(req[h].user) = {}
              /\ \/ req[h].op \in Replacing /\ Moves(h, "save", req[h].found, req[h].body)
                 \/ Ends(h, "refused")
BY GotoMoves, FinishEnds DEF CheckUser, FindsTwo, FindsNone

\* A request that finds one document goes on to replace it, to save the rest of
\* its list, or is done.
LEMMA FindStep ==
  ASSUME TypeOK, NEW h \in Handlers, FindsOne(h)
  PROVE  /\ req[h].pc = "find" /\ UNCHANGED <<docs, rows, clash, lost>>
         /\ \E d \in DocsOf(req[h].user) :
              /\ DocsOf(req[h].user) = {d}
              /\ \/ /\ req[h].op \in Replacing
                    /\ Moves(h, "delete", d.id, req[h].body)
                 \/ /\ req[h].op = "delete"
                    /\ Changed(req[h].op, d.games, req[h].body) = d.games
                    /\ Ends(h, "answered")
                 \/ /\ req[h].op \in {"update", "delete"}
                    /\ Moves(h, "save", d.id, Changed(req[h].op, d.games, req[h].body))
<1>1. PICK d \in DocsOf(req[h].user) :
        /\ DocsOf(req[h].user) = {d}
        /\ LET list == Changed(req[h].op, d.games, req[h].body) IN
           \/ /\ req[h].op \in Replacing
              /\ req' = [req EXCEPT ![h].pc = "delete", ![h].found = d.id]
           \/ /\ req[h].op = "delete" /\ list = d.games
              /\ Finish(h, "answered")
           \/ /\ req[h].op = "update" \/ (req[h].op = "delete" /\ list # d.games)
              /\ req' = [req EXCEPT ![h].pc = "save", ![h].found = d.id, ![h].body = list]
  BY Zenon DEF FindsOne
<1> DEFINE list == Changed(req[h].op, d.games, req[h].body)
<1>2. d.id \in DocIds /\ d.games \in Lists
  BY DEF DocsOf, TypeOK, Documents
<1>3. list \in Lists
  BY <1>2, Fields, ChangedTyped
<1>4. req[h].pc = "find" /\ UNCHANGED <<docs, rows, clash, lost>>
  BY DEF FindsOne
<1>5. CASE req[h].op \in Replacing /\ req' = [req EXCEPT ![h].pc = "delete", ![h].found = d.id]
  <2>1. Moves(h, "delete", d.id, req[h].body)
    BY <1>2, <1>5, Remembers
  <2> QED
    BY <1>1, <1>4, <1>5, <2>1, Zenon
<1>6. CASE /\ req[h].op \in {"update", "delete"}
           /\ req' = [req EXCEPT ![h].pc = "save", ![h].found = d.id, ![h].body = list]
  <2> HIDE DEF list
  <2>1. Moves(h, "save", d.id, list)
    BY <1>2, <1>3, <1>6, RemembersAll
  <2> QED
    BY <1>1, <1>4, <1>6, <2>1, Zenon DEF list
<1>7. CASE req[h].op = "delete" /\ list = d.games /\ Finish(h, "answered")
  <2>1. Ends(h, "answered")
    BY <1>7, FinishEnds
  <2> QED
    BY <1>1, <1>4, <1>7, <2>1, Zenon
<1> QED
  BY <1>1, <1>5, <1>6, <1>7

\* Only the document found is deleted.
LEMMA DeleteStep ==
  ASSUME TypeOK, NEW h \in Handlers, DeleteDoc(h)
  PROVE  /\ req[h].pc = "delete" /\ UNCHANGED <<rows, clash, lost>>
         /\ docs' = Deleted(h)
         /\ Moves(h, "save", NoId, req[h].body)
<1>1. Moves(h, "save", NoId, req[h].body)
  BY Remembers DEF DeleteDoc
<1> QED
  BY <1>1 DEF DeleteDoc

\* A saved list replaces what has its id.
LEMMA SaveStep ==
  ASSUME TypeOK, NEW h \in Handlers, SaveDoc(h)
  PROVE  /\ req[h].pc = "save" /\ UNCHANGED <<rows, clash>>
         /\ lost' = lost \ {req[h].user}
         /\ Saves(h)
         /\ \/ req[h].op = "join" /\ Moves(h, "commit", req[h].found, req[h].body)
            \/ Ends(h, "answered")
BY GotoMoves, FinishEnds DEF SaveDoc, Saves

\* A sign-up commits its row or fails.
LEMMA CommitStep ==
  ASSUME TypeOK, NEW h \in Handlers, CommitUser(h)
  PROVE  /\ req[h].pc = "commit" /\ UNCHANGED <<docs, clash, lost>>
         /\ rows' \in {rows, rows \cup {req[h].user}}
         /\ Ends(h, "answered") \/ Ends(h, "failed")
BY FinishEnds DEF CommitUser

\* A request that fails, where it does, has or has not done what it was about to.
LEMMA ThrowStep ==
  ASSUME TypeOK, NEW h \in Handlers, Throws(h)
  PROVE  /\ req[h].pc \in {"check", "find", "delete", "save", "commit"}
         /\ clash' = clash /\ Ends(h, "failed")
         /\ rows' # rows => req[h].pc = "commit" /\ rows' = rows \cup {req[h].user}
         /\ \/ /\ docs' = docs
               /\ lost' = lost \cup {u \in {req[h].user} :
                                       req[h].pc = "save" /\ req[h].op \in Replacing}
            \/ /\ req[h].pc = "delete" /\ docs' = Deleted(h)
               /\ lost' = lost \cup {req[h].user}
            \/ /\ req[h].pc = "save" /\ Saves(h)
               /\ lost' = lost \ {req[h].user}
<1>1. CASE ReadThrows(h)
  BY <1>1, FinishEnds DEF ReadThrows
<1>2. CASE DeleteThrows(h)
  BY <1>2, FinishEnds DEF DeleteThrows
<1>3. CASE SaveThrows(h)
  BY <1>3, FinishEnds DEF SaveThrows, Saves
<1>4. CASE CommitThrows(h)
  BY <1>4, FinishEnds DEF CommitThrows
<1> QED
  BY <1>1, <1>2, <1>3, <1>4 DEF Throws

\* A request that is answered leaves nothing behind.
LEMMA ReturnStep ==
  ASSUME TypeOK, NEW h \in Handlers, Return(h)
  PROVE  /\ req[h].pc = "done" /\ UNCHANGED <<docs, rows, clash, lost>>
         /\ req' \in [Handlers -> Requests] /\ req'[h] = NoRequest
         /\ \A i \in Handlers \ {h} : req'[i] = req[i]
BY NoRequestTyped DEF Return, TypeOK

\* A crash forgets the requests.
LEMMA CrashStep ==
  ASSUME TypeOK, Crash
  PROVE  /\ UNCHANGED <<docs, rows, clash>>
         /\ req' \in [Handlers -> Requests]
         /\ \A h \in Handlers : req'[h] = NoRequest
         /\ lost' = lost \cup {u \in Users : \E h \in Serving(u) :
                                  req[h].pc = "save" /\ req[h].op \in Replacing}
BY NoRequestTyped DEF Crash

\* A step of a request under way moves it alone.
LEMMA ServesAlone ==
  ASSUME TypeOK, NEW h \in Handlers, Serve(h) \/ Throws(h), ~Return(h)
  PROVE  req[h].pc # "done" /\ \E p, f, b : Moves(h, p, f, b)
BY ReadSteps, FindStep, DeleteStep, SaveStep, CommitStep, ThrowStep DEF Serve, Ends

\* Who serves a user, after a request has moved.
LEMMA ServingMoves ==
  ASSUME TypeOK, NEW h \in Handlers, req[h].pc # "done", NEW p, NEW f, NEW b,
         Moves(h, p, f, b)
  PROVE  \A u : Serving(u)' = IF p = "done" THEN Serving(u) \ {h} ELSE Serving(u)
BY DEF Serving, Moves

-----------------------------------------------------------------------------
(* The documents. *)

\* What a deletion and a save do to the documents of one user at a time.
LEMMA DeletesOwn ==
  ASSUME TypeOK, IdsInv, NEW h \in Handlers, docs' = Deleted(h)
  PROVE  \A u : DocsOf(u)' = IF u = req[h].user
                             THEN {d \in DocsOf(u) : d.id # req[h].found} ELSE DocsOf(u)
<1>1. docs' = {d \in docs : d.id # req[h].found}
  BY DEF Deleted
<1>2. \A d \in docs : d.id = req[h].found => d.user = req[h].user
  BY DEF IdsInv
<1> QED
  BY <1>1, <1>2 DEF DocsOf

\* The id of a saved document is new, or that of the document found: the lists
\* of other users stay as they are.
LEMMA SavesOwn ==
  ASSUME TypeOK, IdsInv, NEW h \in Handlers, LocalsInOrder(h), req[h].pc = "save", Saves(h)
  PROVE  \E i \in DocIds :
           /\ IF req[h].found = NoId THEN i \notin UsedIds ELSE i = req[h].found
           /\ [id |-> i, user |-> req[h].user, games |-> req[h].body] \in Documents
           /\ docs' = {d \in docs : d.id # i}
                        \cup {[id |-> i, user |-> req[h].user, games |-> req[h].body]}
           /\ \A u : DocsOf(u)' =
                IF u = req[h].user
                THEN {d \in DocsOf(u) : d.id # i}
                       \cup {[id |-> i, user |-> req[h].user, games |-> req[h].body]}
                ELSE DocsOf(u)
<1>1. PICK i \in SaveId(h) :
        docs' = {d \in docs : d.id # i}
                  \cup {[id |-> i, user |-> req[h].user, games |-> req[h].body]}
  BY DEF Saves, Saved
<1>2. i \in DocIds /\ IF req[h].found = NoId THEN i \notin UsedIds ELSE i = req[h].found
  BY Fields DEF SaveId
<1>3. [id |-> i, user |-> req[h].user, games |-> req[h].body] \in Documents
  BY <1>2, Fields DEF LocalsInOrder, Documents
<1>4. \A d \in docs : d.id = i => d.user = req[h].user
  BY <1>2 DEF UsedIds, IdsInv
<1> DEFINE new == [id |-> i, user |-> req[h].user, games |-> req[h].body]
<1>5. new.user = req[h].user /\ docs' = {d \in docs : d.id # i} \cup {new}
  BY <1>1
<1> HIDE DEF new
<1>6. \A u : DocsOf(u)' = IF u = req[h].user
                          THEN {d \in DocsOf(u) : d.id # i} \cup {new} ELSE DocsOf(u)
  BY <1>4, <1>5 DEF DocsOf
<1> QED
  BY <1>1, <1>2, <1>3, <1>6 DEF new

\* A step of a request of one user leaves the documents and the row of another.
LEMMA OthersKept ==
  ASSUME TypeOK, IdsInv, NEW h \in Handlers, LocalsInOrder(h),
         Serve(h) \/ Throws(h), NEW u, u # req[h].user
  PROVE  DocsOf(u)' = DocsOf(u) /\ (u \in rows' <=> u \in rows)
<1>1. docs' = docs => DocsOf(u)' = DocsOf(u)
  BY DEF DocsOf
<1>2. CASE Serve(h)
  BY <1>1, <1>2, ReadSteps, FindStep, DeleteStep, DeletesOwn, SaveStep, SavesOwn,
     CommitStep, ReturnStep DEF Serve
<1>3. CASE Throws(h)
  BY <1>1, <1>3, ThrowStep, DeletesOwn, SavesOwn
<1> QED
  BY <1>2, <1>3

-----------------------------------------------------------------------------
(* The parts of the invariant. *)

\* Every step keeps the types.
LEMMA TypeStep ==
  ASSUME TypeOK, IdsInv, \A h \in Handlers : LocalsInOrder(h), [Next]_vars
  PROVE  TypeOK'
<1>1. ASSUME NEW h \in Handlers, CheckUser(h) \/ FindsTwo(h) \/ FindsNone(h)
      PROVE  TypeOK'
  BY <1>1, ReadSteps DEF TypeOK, Moves, Ends
<1>2. ASSUME NEW h \in Handlers, FindsOne(h) PROVE TypeOK'
  BY <1>2, FindStep DEF TypeOK, Moves, Ends
<1>3. ASSUME NEW h \in Handlers, DeleteDoc(h) PROVE TypeOK'
  BY <1>3, DeleteStep DEF TypeOK, Moves, Deleted
<1>4. ASSUME NEW h \in Handlers, SaveDoc(h) PROVE TypeOK'
  <2>1. docs' \subseteq Documents
    BY <1>4, SaveStep, SavesOwn DEF TypeOK
  <2> QED
    BY <1>4, <2>1, SaveStep DEF TypeOK, Moves, Ends
<1>5. ASSUME NEW h \in Handlers, CommitUser(h) PROVE TypeOK'
  <2>1. req[h].user \in Users
    BY <1>5, CommitStep DEF LocalsInOrder
  <2> QED
    BY <1>5, <2>1, CommitStep DEF TypeOK, Moves, Ends
<1>6. ASSUME NEW h \in Handlers, Return(h) PROVE TypeOK'
  BY <1>6, ReturnStep DEF TypeOK
<1>7. ASSUME NEW h \in Handlers, NEW u \in Users, NEW op \in Ops, NEW bad \in Defects(op),
             NEW body \in Bodies(op), Request(h, u, op, body, bad)
      PROVE  TypeOK'
  <2>1. UNCHANGED <<docs, rows, lost>> /\ clash' \subseteq Users
    BY <1>7 DEF Request, TypeOK
  <2>2. Asks(h, u, op, body)
    BY <1>7, RequestAsks
  <2> QED
    BY <2>1, <2>2 DEF TypeOK, Asks
<1>8. ASSUME NEW h \in Handlers, Throws(h) PROVE TypeOK'
  <2>1. req[h].user \in Users
    BY <1>8, ThrowStep DEF LocalsInOrder
  <2>2. docs' \subseteq Documents
    BY <1>8, ThrowStep, SavesOwn DEF TypeOK, Deleted
  <2> QED
    BY <1>8, <2>1, <2>2, ThrowStep DEF TypeOK, Moves, Ends
<1>9. CASE Crash
  BY <1>9, CrashStep DEF TypeOK
<1>10. CASE UNCHANGED vars
  BY <1>10 DEF vars, TypeOK
<1> QED
  BY <1>1, <1>2, <1>3, <1>4, <1>5, <1>6, <1>7, <1>8, <1>9, <1>10 DEF Next, Serve

\* A saved document has an id of its own.
LEMMA IdsSaved ==
  ASSUME TypeOK, IdsInv, NEW h \in Handlers, LocalsInOrder(h), req[h].pc = "save",
         Saves(h), NEW p, NEW f \in {NoId, req[h].found}, NEW b, Moves(h, p, f, b)
  PROVE  IdsInv'
<1>1. PICK i \in DocIds :
         /\ IF req[h].found = NoId THEN i \notin UsedIds ELSE i = req[h].found
         /\ docs' = {d \in docs : d.id # i}
                      \cup {[id |-> i, user |-> req[h].user, games |-> req[h].body]}
  BY SavesOwn
<1>2. \A j \in Handlers : req[j].found = i => req[j].user = req[h].user
  BY <1>1, NamesAssumption DEF UsedIds, IdsInv
<1>3. \A j \in Handlers : /\ req'[j].user = req[j].user
                          /\ req'[j].found \in {NoId, req[j].found}
  BY DEF Moves
<1> QED
  BY <1>1, <1>2, <1>3, NamesAssumption DEF IdsInv, TypeOK, Documents

\* Every step keeps ids unique, and none remembered of another user's document.
LEMMA IdsStep ==
  ASSUME TypeOK, IdsInv, \A h \in Handlers : LocalsInOrder(h), [Next]_vars
  PROVE  IdsInv'
<1>0. \A d \in docs : d.id # NoId
  BY NamesAssumption DEF TypeOK, Documents
<1>1. ASSUME NEW h \in Handlers, CheckUser(h) \/ FindsTwo(h) \/ FindsNone(h)
      PROVE  IdsInv'
  BY <1>0, <1>1, ReadSteps DEF IdsInv, Moves, Ends
<1>2. ASSUME NEW h \in Handlers, FindsOne(h) PROVE IdsInv'
  <2>1. \E d \in docs : \E p, b :
          /\ d.user = req[h].user
          /\ \/ Moves(h, p, d.id, b)
             \/ Moves(h, p, NoId, b)
    BY <1>2, FindStep DEF DocsOf, Ends
  <2> QED
    BY <1>0, <1>2, <2>1, FindStep DEF IdsInv, Moves
<1>3. ASSUME NEW h \in Handlers, DeleteDoc(h) PROVE IdsInv'
  BY <1>0, <1>3, DeleteStep DEF IdsInv, Moves, Deleted
<1>4. ASSUME NEW h \in Handlers, SaveDoc(h) PROVE IdsInv'
  BY <1>4, SaveStep, IdsSaved DEF Ends
<1>5. ASSUME NEW h \in Handlers, CommitUser(h) PROVE IdsInv'
  BY <1>0, <1>5, CommitStep DEF IdsInv, Moves, Ends
<1>6. ASSUME NEW h \in Handlers, Return(h) PROVE IdsInv'
  <2>1. req'[h].found = NoId
    BY <1>6, ReturnStep DEF NoRequest
  <2> QED
    BY <1>0, <1>6, <2>1, ReturnStep DEF IdsInv
<1>7. ASSUME NEW h \in Handlers, NEW u \in Users, NEW op \in Ops, NEW bad \in Defects(op),
             NEW body \in Bodies(op), Request(h, u, op, body, bad)
      PROVE  IdsInv'
  <2>1. docs' = docs /\ Asks(h, u, op, body)
    BY <1>7, RequestAsks DEF Request
  <2> QED
    BY <1>0, <2>1 DEF IdsInv, Asks
<1>8. ASSUME NEW h \in Handlers, Throws(h) PROVE IdsInv'
  <2>1. Moves(h, "done", NoId, NoList)
    BY <1>8, ThrowStep DEF Ends
  <2>2. CASE docs' = docs \/ docs' = Deleted(h)
    BY <1>0, <2>1, <2>2 DEF IdsInv, Moves, Deleted
  <2>3. CASE req[h].pc = "save" /\ Saves(h)
    BY <2>1, <2>3, IdsSaved
  <2> QED
    BY <1>8, <2>2, <2>3, ThrowStep
<1>9. CASE Crash
  <2>1. docs' = docs /\ \A h \in Handlers : req'[h].found = NoId
    BY <1>9, CrashStep DEF NoRequest
  <2> QED
    BY <1>0, <2>1 DEF IdsInv
<1>10. CASE UNCHANGED vars
  BY <1>10 DEF vars, IdsInv
<1> QED
  BY <1>1, <1>2, <1>3, <1>4, <1>5, <1>6, <1>7, <1>8, <1>9, <1>10 DEF Next, Serve

\* Every step leaves the locals of each request as its program point needs them.
LEMMA LocalsStep ==
  ASSUME TypeOK, \A h \in Handlers : LocalsInOrder(h), [Next]_vars
  PROVE  \A h \in Handlers : LocalsInOrder(h)'
<1>1. ASSUME NEW h \in Handlers, CheckUser(h) \/ FindsTwo(h) \/ FindsNone(h)
      PROVE  \A i \in Handlers : LocalsInOrder(i)'
  BY <1>1, ReadSteps DEF LocalsInOrder, Moves, Ends, NoRequest
<1>2. ASSUME NEW h \in Handlers, FindsOne(h) PROVE \A i \in Handlers : LocalsInOrder(i)'
  <2>1. \A d \in DocsOf(req[h].user) : d.id # NoId
    BY NamesAssumption DEF DocsOf, TypeOK, Documents
  <2> QED
    BY <1>2, <2>1, FindStep DEF LocalsInOrder, Moves, Ends, NoRequest, Replacing
<1>3. ASSUME NEW h \in Handlers, DeleteDoc(h) PROVE \A i \in Handlers : LocalsInOrder(i)'
  BY <1>3, DeleteStep DEF LocalsInOrder, Moves, NoRequest
<1>4. ASSUME NEW h \in Handlers, SaveDoc(h) PROVE \A i \in Handlers : LocalsInOrder(i)'
  BY <1>4, SaveStep DEF LocalsInOrder, Moves, Ends, NoRequest
<1>5. ASSUME NEW h \in Handlers, CommitUser(h) PROVE \A i \in Handlers : LocalsInOrder(i)'
  BY <1>5, CommitStep DEF LocalsInOrder, Moves, Ends, NoRequest
<1>6. ASSUME NEW h \in Handlers, Return(h) PROVE \A i \in Handlers : LocalsInOrder(i)'
  BY <1>6, ReturnStep DEF LocalsInOrder, NoRequest
<1>7. ASSUME NEW h \in Handlers, NEW u \in Users, NEW op \in Ops, NEW bad \in Defects(op),
             NEW body \in Bodies(op), Request(h, u, op, body, bad)
      PROVE  \A i \in Handlers : LocalsInOrder(i)'
  <2>1. Asks(h, u, op, body)
    BY <1>7, RequestAsks
  <2>2. \A i \in Handlers \ {h} : req[i].pc = "idle" => ~req'[i].alone
    BY <2>1 DEF LocalsInOrder, Asks
  <2> QED
    BY <2>1, <2>2, NamesAssumption DEF LocalsInOrder, Asks
<1>8. ASSUME NEW h \in Handlers, Throws(h) PROVE \A i \in Handlers : LocalsInOrder(i)'
  BY <1>8, ThrowStep DEF LocalsInOrder, Moves, Ends
<1>9. CASE Crash
  BY <1>9, CrashStep DEF LocalsInOrder, NoRequest
<1>10. CASE UNCHANGED vars
  BY <1>10 DEF vars, LocalsInOrder
<1> QED
  BY <1>1, <1>2, <1>3, <1>4, <1>5, <1>6, <1>7, <1>8, <1>9, <1>10 DEF Next, Serve

\* A step that writes no document keeps the requests undisturbed, if what the
\* request now relies on is so.
LEMMA QuietMove ==
  ASSUME TypeOK, OneDocument, Undisturbed, NEW h \in Handlers, req[h].pc # "done",
         docs' = docs, clash' = clash, NEW p, NEW f, NEW b, Moves(h, p, f, b),
         p = "delete" => \A d \in DocsOf(req[h].user) : d.id = f,
         p = "save" => IF req[h].op \in Replacing THEN DocsOf(req[h].user) = {}
                       ELSE \E d \in DocsOf(req[h].user) : d.id = f
  PROVE  OneDocument' /\ Undisturbed'
<1>1. \A u : Serving(u)' = IF p = "done" THEN Serving(u) \ {h} ELSE Serving(u)
  BY ServingMoves
<1>2. \A u : DocsOf(u)' = DocsOf(u)
  BY DEF DocsOf
<1>3. ASSUME NEW u \in Users \ clash, NEW i \in Serving(u)' PROVE Steady(i)'
  <2>1. i \in Handlers /\ i \in Serving(u) /\ (i = h => p # "done")
    BY <1>1, <1>3 DEF Serving
  <2>2. Steady(i) /\ req[i].user = u /\ req'[i].user = u
    BY <2>1 DEF Serving, Moves, Undisturbed
  <2>3. Serving(u) = {i} => Serving(u)' = {i}
    BY <1>1, <1>3
  <2> QED
    BY <1>2, <2>1, <2>2, <2>3 DEF Steady, Moves
<1> QED
  BY <1>2, <1>3 DEF Doubled, OneDocument, Undisturbed

\* A deletion takes the document of one who has his user for himself.
LEMMA DeletingMove ==
  ASSUME TypeOK, IdsInv, OneDocument, Undisturbed, NEW h \in Handlers,
         LocalsInOrder(h), req[h].pc = "delete", docs' = Deleted(h), clash' = clash,
         NEW p \in {"save", "done"}, NEW b, Moves(h, p, NoId, b)
  PROVE  OneDocument' /\ Undisturbed'
<1>0. PICK v \in Users : v = req[h].user
  BY DEF LocalsInOrder
<1>1. req[h].op \in Replacing
  BY DEF LocalsInOrder
<1>2. /\ \A u : Serving(u)' = IF p = "done" THEN Serving(u) \ {h} ELSE Serving(u)
      /\ \A u : u # v => DocsOf(u)' = DocsOf(u)
      /\ DocsOf(v)' = {d \in DocsOf(v) : d.id # req[h].found}
  BY <1>0, ServingMoves, DeletesOwn
<1>3. v \notin clash => Serving(v) = {h} /\ DocsOf(v)' = {}
  <2>1. h \in Serving(v)
    BY <1>0 DEF Serving
  <2> QED
    BY <1>0, <1>1, <1>2, <2>1 DEF Undisturbed, Steady
<1>4. ASSUME NEW u \in Users \ clash, NEW i \in Serving(u)' PROVE Steady(i)'
  <2>1. i \in Handlers /\ i \in Serving(u) /\ (i = h => p = "save")
    BY <1>0, <1>2, <1>4 DEF Serving
  <2>2. Steady(i) /\ req[i].user = u /\ (Serving(u) = {i} => Serving(u)' = {i})
    BY <1>0, <1>2, <1>4, <2>1 DEF Undisturbed, Serving
  <2>3. CASE u = v
    <3>1. i = h /\ Serving(v)' = {h} /\ DocsOf(v)' = {}
      BY <1>0, <1>2, <1>3, <1>4, <2>1, <2>2, <2>3
    <3> QED
      BY <1>0, <1>1, <2>1, <3>1 DEF Steady, Moves
  <2>4. CASE u # v
    BY <1>0, <1>1, <1>2, <2>1, <2>2, <2>4 DEF Steady, Moves
  <2> QED BY <2>3, <2>4
<1> QED
  BY <1>0, <1>1, <1>2, <1>4 DEF OneDocument, Undisturbed, Doubled

\* A save is of one who has his user for himself, or of a list that is kept
\* under the id it was read with.
LEMMA SavingMove ==
  ASSUME TypeOK, IdsInv, \A i \in Handlers : LocalsInOrder(i), OneDocument, Undisturbed,
         NEW h \in Handlers, req[h].pc = "save", Saves(h), clash' = clash,
         NEW p \in {"commit", "done"}, NEW f, NEW b, Moves(h, p, f, b)
  PROVE  OneDocument' /\ Undisturbed'
<1>0. PICK v \in Users : v = req[h].user
  BY DEF LocalsInOrder
<1>1. req[h].op \in Replacing <=> req[h].found = NoId
  BY DEF LocalsInOrder
<1>2. PICK new \in Documents :
        /\ new.user = v /\ new.id # NoId
        /\ req[h].found # NoId => new.id = req[h].found
        /\ \A u : u # v => DocsOf(u)' = DocsOf(u)
        /\ DocsOf(v)' = {d \in DocsOf(v) : d.id # new.id} \cup {new}
  BY <1>0, SavesOwn, NamesAssumption, Fields
<1>3. \A u : Serving(u)' = IF p = "done" THEN Serving(u) \ {h} ELSE Serving(u)
  BY <1>0, ServingMoves
<1>4. v \notin clash => Steady(h)
  BY <1>0, <1>1 DEF Undisturbed, Serving
<1>5. v \notin clash => DocsOf(v)' = {new}
  <2>1. CASE req[h].op \in Replacing
    BY <1>0, <1>1, <1>2, <1>4, <2>1 DEF Steady
  <2>2. CASE req[h].op \notin Replacing /\ v \notin clash
    <3>1. PICK d \in DocsOf(v) : d.id = req[h].found
      BY <1>0, <1>1, <1>4, <2>2 DEF Steady
    <3>2. \A e \in DocsOf(v) : e = d
      BY <1>0, <1>1, <2>2, <3>1 DEF OneDocument, Doubled
    <3> QED
      BY <1>0, <1>1, <1>2, <2>2, <3>1, <3>2
  <2> QED BY <2>1, <2>2
<1>6. ASSUME NEW u \in Users \ clash, NEW i \in Serving(u)' PROVE Steady(i)'
  <2>1. i \in Handlers /\ i \in Serving(u) /\ (i = h => p # "done")
    BY <1>0, <1>3, <1>6 DEF Serving
  <2>2. Steady(i) /\ req[i].user = u /\ (Serving(u) = {i} => Serving(u)' = {i})
    BY <1>0, <1>3, <1>6, <2>1 DEF Undisturbed, Serving
  <2>3. CASE i = h
    BY <1>0, <1>1, <2>1, <2>2, <2>3 DEF Steady, Moves
  <2>4. CASE i # h
    <3>1. req'[i] = req[i]
      BY <1>0, <1>1, <2>1, <2>4 DEF Moves
    <3>2. u = v => req[i].op \notin Replacing
      BY <1>0, <1>1, <2>1, <2>2, <2>4 DEF Steady, Serving
    <3>3. CASE u # v
      BY <1>0, <1>2, <2>2, <3>1, <3>3 DEF Steady
    <3>4. CASE u = v
      <4>1. ASSUME req[i].pc = "save" PROVE req[i].found = new.id
        <5>1. h \in Serving(v) /\ req[h].op \notin Replacing
          BY <1>0, <1>1, <2>1, <2>2, <2>4, <3>4, <1>4, <1>6 DEF Steady, Serving
        <5>2. PICK d \in DocsOf(v) : d.id = req[i].found
          BY <2>2, <3>2, <3>4, <4>1 DEF Steady
        <5>3. PICK e \in DocsOf(v) : e.id = req[h].found
          BY <1>0, <1>1, <1>4, <1>6, <3>4, <5>1 DEF Steady
        <5>4. d = e
          BY <1>0, <1>6, <3>4, <5>2, <5>3 DEF OneDocument, Doubled
        <5> QED
          BY <1>0, <1>1, <1>2, <5>1, <5>2, <5>3, <5>4
      <4>2. req[i].pc # "delete"
        BY <2>1, <3>2, <3>4 DEF LocalsInOrder
      <4> QED
        BY <1>0, <1>5, <1>6, <2>2, <3>1, <3>2, <3>4, <4>1, <4>2 DEF Steady
    <3> QED BY <3>3, <3>4
  <2> QED BY <2>3, <2>4
<1> QED
  BY <1>0, <1>1, <1>2, <1>5, <1>6 DEF OneDocument, Undisturbed, Doubled

\* While a user's requests do not clash, each still relies on what it has read.
LEMMA UndisturbedStep ==
  ASSUME TypeOK, IdsInv, \A h \in Handlers : LocalsInOrder(h), OneDocument, Undisturbed,
         [Next]_vars
  PROVE  OneDocument' /\ Undisturbed'
<1>1. ASSUME NEW h \in Handlers, CheckUser(h) \/ FindsTwo(h) \/ FindsNone(h)
      PROVE  OneDocument' /\ Undisturbed'
  <2>1. /\ docs' = docs /\ clash' = clash
        /\ \E p, f, b : /\ req[h].pc # "done" /\ Moves(h, p, f, b) /\ p # "delete"
                        /\ p = "save" => DocsOf(req[h].user) = {} /\ req[h].op \in Replacing
    BY <1>1, ReadSteps DEF Ends
  <2> QED
    BY <2>1, QuietMove
<1>2. ASSUME NEW h \in Handlers, FindsOne(h) PROVE OneDocument' /\ Undisturbed'
  <2>1. /\ docs' = docs /\ clash' = clash /\ req[h].pc = "find"
    BY <1>2, FindStep
  <2>2. PICK d \in DocsOf(req[h].user) :
          /\ DocsOf(req[h].user) = {d}
          /\ \E p, b : \/ req[h].op \in Replacing /\ p = "delete" /\ Moves(h, p, d.id, b)
                       \/ p = "done" /\ Moves(h, p, NoId, b)
                       \/ req[h].op \notin Replacing /\ p = "save" /\ Moves(h, p, d.id, b)
    BY <1>2, FindStep DEF Replacing, Ends
  <2> QED
    BY <2>1, <2>2, QuietMove
<1>3. ASSUME NEW h \in Handlers, DeleteDoc(h) PROVE OneDocument' /\ Undisturbed'
  BY <1>3, DeleteStep, DeletingMove
<1>4. ASSUME NEW h \in Handlers, SaveDoc(h) PROVE OneDocument' /\ Undisturbed'
  BY <1>4, SaveStep, SavingMove DEF Ends
<1>5. ASSUME NEW h \in Handlers, CommitUser(h) PROVE OneDocument' /\ Undisturbed'
  BY <1>5, CommitStep, QuietMove DEF Ends
<1>6. ASSUME NEW h \in Handlers, Return(h) PROVE OneDocument' /\ Undisturbed'
  <2>1. \A u \in Users : Serving(u)' = Serving(u) /\ h \notin Serving(u)
    BY <1>6, ReturnStep, NamesAssumption DEF Serving, NoRequest
  <2>2. \A u : DocsOf(u)' = DocsOf(u)
    BY <1>6, ReturnStep DEF DocsOf
  <2>3. ASSUME NEW u \in Users \ clash, NEW i \in Serving(u) PROVE Steady(i)'
    <3>1. i \in Handlers /\ i # h /\ req'[i] = req[i] /\ Steady(i) /\ req[i].user = u
      BY <1>6, <2>1, <2>3, ReturnStep DEF Serving, Undisturbed
    <3> QED
      BY <2>1, <2>2, <3>1 DEF Steady
  <2> QED
    BY <1>6, ReturnStep, <2>1, <2>2, <2>3 DEF OneDocument, Undisturbed, Doubled
<1>7. ASSUME NEW h \in Handlers, NEW u \in Users, NEW op \in Ops, NEW bad \in Defects(op),
             NEW body \in Bodies(op), Request(h, u, op, body, bad)
      PROVE  OneDocument' /\ Undisturbed'
  <2>1. req[h].pc = "idle" /\ docs' = docs /\ Asks(h, u, op, body)
    BY <1>7, RequestAsks DEF Request
  <2>2. \A v : DocsOf(v)' = DocsOf(v)
    BY <2>1 DEF DocsOf
  <2>3. \A v \in Users : Serving(v)' = IF v = u THEN Serving(v) \cup {h} ELSE Serving(v)
    <3>1. req[h].user = NoUser /\ NoUser \notin Users
      BY <2>1, NamesAssumption DEF LocalsInOrder
    <3> QED
      BY <2>1, <3>1 DEF Serving, Asks
  <2>4. OneDocument'
    BY <1>7, <2>2 DEF Request, OneDocument, Doubled
  <2>5. ASSUME NEW v \in Users, v \notin clash', NEW i \in Serving(v)' PROVE Steady(i)'
    <3>1. i \in Handlers
      BY DEF Serving
    <3>2. CASE i = h
      <4>1. v = u
        BY <2>1, <2>5, <3>2 DEF Serving, Asks
      <4>2. op \in Replacing => Serving(u) = {}
        BY <1>7, <2>5, <4>1 DEF Request
      <4> QED
        BY <2>1, <2>3, <3>2, <4>2 DEF Asks, Steady
    <3>3. CASE i # h
      <4>1. i \in Serving(v) /\ req[i].user = v
        BY <2>1, <2>3, <2>5, <3>3 DEF Serving
      <4>2. v = u => req[i].op \notin Replacing
        BY <1>7, <2>5, <4>1 DEF Request
      <4>3. v \notin clash
        BY <1>7, <2>5, <4>1 DEF Request
      <4>4. Steady(i)
        BY <4>1, <4>3 DEF Undisturbed
      <4> QED
        BY <2>1, <2>2, <2>3, <3>1, <3>3, <4>1, <4>2, <4>4 DEF Asks, Steady
    <3> QED BY <3>2, <3>3
  <2> QED
    BY <2>4, <2>5 DEF Undisturbed
<1>8. ASSUME NEW h \in Handlers, Throws(h) PROVE OneDocument' /\ Undisturbed'
  <2>1. /\ req[h].pc # "done" /\ clash' = clash /\ Moves(h, "done", NoId, NoList)
        /\ \/ docs' = docs
           \/ req[h].pc = "delete" /\ docs' = Deleted(h)
           \/ req[h].pc = "save" /\ Saves(h)
    BY <1>8, ThrowStep DEF Ends
  <2> QED
    BY <2>1, QuietMove, DeletingMove, SavingMove
<1>9. CASE Crash
  <2>1. clash' = clash /\ \A u : DocsOf(u)' = DocsOf(u)
    BY <1>9, CrashStep DEF DocsOf
  <2>2. \A u \in Users : Serving(u)' = {}
    BY <1>9, CrashStep, NamesAssumption DEF Serving, NoRequest
  <2> QED
    BY <2>1, <2>2 DEF OneDocument, Undisturbed, Doubled
<1>10. CASE UNCHANGED vars
  BY <1>10 DEF vars, OneDocument, Undisturbed, DocsOf, Serving, Steady
<1> QED
  BY <1>1, <1>2, <1>3, <1>4, <1>5, <1>6, <1>7, <1>8, <1>9, <1>10 DEF Next, Serve

\* What saves a list gives its user one.
LEMMA SavesGames ==
  ASSUME TypeOK, IdsInv, NEW h \in Handlers, LocalsInOrder(h), req[h].pc = "save", Saves(h),
         NEW u, u = req[h].user
  PROVE  DocsOf(u)' # {}
BY SavesOwn

\* No step takes away the games of a user, but for the moment between a
\* deletion and the save, or for a request that fails or dies there.
LEMMA HasGamesKept ==
  ASSUME TypeOK, IdsInv, \A h \in Handlers : LocalsInOrder(h), [Next]_vars,
         NEW u \in Users, HasGames(u)
  PROVE  HasGames(u)'
<1>1. ASSUME NEW h \in Handlers, CheckUser(h) \/ FindsTwo(h) \/ FindsNone(h)
      PROVE  HasGames(u)'
  BY <1>1, ReadSteps DEF HasGames, DocsOf, Moves, Ends
<1>2. ASSUME NEW h \in Handlers, FindsOne(h) PROVE HasGames(u)'
  <2>1. /\ docs' = docs /\ lost' = lost /\ req[h].pc = "find"
        /\ \A i \in Handlers \ {h} : req'[i] = req[i]
    BY <1>2, FindStep DEF Moves, Ends
  <2> QED
    BY <2>1 DEF HasGames, DocsOf
<1>3. ASSUME NEW h \in Handlers, DeleteDoc(h) PROVE HasGames(u)'
  <2>1. /\ req[h].pc = "delete" /\ Moves(h, "save", NoId, req[h].body) /\ lost' = lost
        /\ req[h].op \in Replacing
        /\ req[h].user # u => DocsOf(u)' = DocsOf(u)
    BY <1>3, DeleteStep, DeletesOwn DEF LocalsInOrder
  <2> QED
    BY <2>1 DEF HasGames, Moves
<1>4. ASSUME NEW h \in Handlers, SaveDoc(h) PROVE HasGames(u)'
  <2>1. /\ req[h].pc = "save" /\ Saves(h) /\ lost' = lost \ {req[h].user}
        /\ \A i \in Handlers \ {h} : req'[i] = req[i]
    BY <1>4, SaveStep DEF Moves, Ends
  <2>2. CASE req[h].user = u
    BY <2>1, <2>2, SavesGames DEF HasGames
  <2>3. CASE req[h].user # u
    <3>1. DocsOf(u)' = DocsOf(u)
      BY <2>1, <2>3, SavesOwn
    <3> QED
      BY <2>1, <2>3, <3>1 DEF HasGames
  <2> QED BY <2>2, <2>3
<1>5. ASSUME NEW h \in Handlers, CommitUser(h) PROVE HasGames(u)'
  BY <1>5, CommitStep DEF HasGames, DocsOf, Moves, Ends
<1>6. ASSUME NEW h \in Handlers, Return(h) PROVE HasGames(u)'
  BY <1>6, ReturnStep DEF HasGames, DocsOf
<1>7. ASSUME NEW h \in Handlers, NEW v \in Users, NEW op \in Ops, NEW bad \in Defects(op),
             NEW body \in Bodies(op), Request(h, v, op, body, bad)
      PROVE  HasGames(u)'
  <2>1. req[h].pc = "idle" /\ docs' = docs /\ lost' = lost /\ Asks(h, v, op, body)
    BY <1>7, RequestAsks DEF Request
  <2> QED
    BY <2>1 DEF HasGames, DocsOf, Asks
<1>8. ASSUME NEW h \in Handlers, Throws(h) PROVE HasGames(u)'
  <2>1. \A i \in Handlers \ {h} : req'[i] = req[i]
    BY <1>8, ThrowStep DEF Moves, Ends
  <2>2. CASE /\ docs' = docs
             /\ lost' = lost \cup {v \in {req[h].user} :
                                     req[h].pc = "save" /\ req[h].op \in Replacing}
    BY <2>1, <2>2 DEF HasGames, DocsOf
  <2>3. CASE docs' = Deleted(h) /\ lost' = lost \cup {req[h].user} /\ req[h].pc = "delete"
    <3>1. req[h].user # u => DocsOf(u)' = DocsOf(u)
      BY <2>3, DeletesOwn
    <3> QED
      BY <2>1, <2>3, <3>1 DEF HasGames
  <2>4. CASE req[h].pc = "save" /\ Saves(h) /\ lost' = lost \ {req[h].user}
    <3>1. CASE req[h].user = u
      BY <2>4, <3>1, SavesGames DEF HasGames
    <3>2. CASE req[h].user # u
      <4>1. DocsOf(u)' = DocsOf(u)
        BY <2>4, <3>2, SavesOwn
      <4> QED
        BY <2>1, <2>4, <3>2, <4>1 DEF HasGames
    <3> QED BY <3>1, <3>2
  <2> QED
    BY <1>8, <2>2, <2>3, <2>4, ThrowStep
<1>9. CASE Crash
  BY <1>9, CrashStep DEF HasGames, DocsOf, Serving
<1>10. CASE UNCHANGED vars
  BY <1>10 DEF vars, HasGames, DocsOf
<1> QED
  BY <1>1, <1>2, <1>3, <1>4, <1>5, <1>6, <1>7, <1>8, <1>9, <1>10 DEF Next, Serve

\* The row is written after the list, and a row is never written without.
LEMMA GamesStep ==
  ASSUME TypeOK, IdsInv, \A h \in Handlers : LocalsInOrder(h), CommitHasGames,
         RegisteredHasGames, [Next]_vars
  PROVE  CommitHasGames' /\ RegisteredHasGames'
<1>1. \A u \in Users : HasGames(u) => HasGames(u)'
  BY HasGamesKept
<1>2. ASSUME NEW u \in rows' PROVE HasGames(u)'
  <2>1. CASE u \in rows
    BY <1>1, <2>1 DEF TypeOK, RegisteredHasGames
  <2>2. CASE u \notin rows
    <3>1. PICK h \in Handlers : CommitUser(h) \/ Throws(h)
      <4>1. \A h \in Handlers :
              /\ CheckUser(h) \/ FindsTwo(h) \/ FindsNone(h) => rows' = rows
              /\ FindsOne(h) => rows' = rows
              /\ DeleteDoc(h) => rows' = rows
              /\ SaveDoc(h) => rows' = rows
              /\ Return(h) => rows' = rows
              /\ \A v, op, body, bad : Request(h, v, op, body, bad) => rows' = rows
        BY DEF CheckUser, FindsTwo, FindsNone, FindsOne, DeleteDoc, SaveDoc, Return, Request
      <4>2. Crash => rows' = rows
        BY DEF Crash
      <4> QED
        BY <1>2, <2>2, <4>1, <4>2 DEF Next, Serve, vars
    <3>2. req[h].pc = "commit" /\ u = req[h].user /\ u \in Users
      BY <1>2, <2>2, <3>1, CommitStep, ThrowStep DEF LocalsInOrder
    <3> QED
      BY <1>1, <3>2 DEF CommitHasGames
  <2> QED BY <2>1, <2>2
<1>3. ASSUME NEW i \in Handlers, req'[i].pc = "commit" PROVE HasGames(req[i].user)'
  <2>1. CASE req[i].pc = "commit" /\ req'[i].user = req[i].user
    <3>1. PICK u \in Users : u = req[i].user
      BY <2>1 DEF LocalsInOrder
    <3>2. HasGames(u)'
      BY <1>1, <2>1, <3>1 DEF CommitHasGames
    <3> QED
      BY <2>1, <3>1, <3>2 DEF HasGames, DocsOf
  <2>2. ASSUME NEW h \in Handlers, SaveDoc(h), i = h PROVE HasGames(req[i].user)'
    <3>1. PICK u \in Users : u = req[h].user /\ u = req'[h].user
      BY <2>2, SaveStep DEF LocalsInOrder, Moves, Ends
    <3>2. HasGames(u)'
      BY <2>2, <3>1, SaveStep, SavesGames DEF HasGames
    <3> QED
      BY <2>2, <3>1, <3>2 DEF HasGames, DocsOf
  <2>3. (req[i].pc = "commit" /\ req'[i].user = req[i].user) \/ SaveDoc(i)
    <3>1. ASSUME NEW h \in Handlers
          PROVE  /\ CheckUser(h) \/ FindsTwo(h) \/ FindsNone(h) =>
                      req[i].pc = "commit" /\ req'[i].user = req[i].user
                 /\ FindsOne(h) => req[i].pc = "commit" /\ req'[i].user = req[i].user
                 /\ DeleteDoc(h) => req[i].pc = "commit" /\ req'[i].user = req[i].user
                 /\ SaveDoc(h) /\ h # i => req[i].pc = "commit" /\ req'[i].user = req[i].user
                 /\ CommitUser(h) => req[i].pc = "commit" /\ req'[i].user = req[i].user
                 /\ Throws(h) => req[i].pc = "commit" /\ req'[i].user = req[i].user
                 /\ Return(h) => req[i].pc = "commit" /\ req'[i].user = req[i].user
                 /\ \A u \in Users, op \in Ops : \A bad \in Defects(op), body \in Bodies(op) :
                      Request(h, u, op, body, bad) =>
                        req[i].pc = "commit" /\ req'[i].user = req[i].user
      BY <1>3, ReadSteps, FindStep, DeleteStep, SaveStep, CommitStep, ReturnStep, ThrowStep,
         RequestAsks DEF Moves, Ends, Asks, NoRequest
    <3>2. ~Crash
      BY <1>3, CrashStep DEF NoRequest
    <3> QED
      BY <1>3, <3>1, <3>2 DEF Next, Serve, vars
  <2> QED BY <2>1, <2>2, <2>3
<1> QED
  BY <1>2, <1>3 DEF CommitHasGames, RegisteredHasGames

\* A request alone knows as much as before when its user's documents and row,
\* and those who serve him, have not changed.
LEMMA AloneFrame ==
  ASSUME NEW i \in Handlers, AloneKnows(i), NEW u, req[i].user = u,
         req'[i] = req[i],
         Serving(u)' \subseteq Serving(u), DocsOf(u)' = DocsOf(u),
         u \in rows' <=> u \in rows
  PROVE  AloneKnows(i)'
<1>1. Wanted(u, req[i].op, req[i].body)' = Wanted(u, req[i].op, req[i].body)
  BY DEF Wanted
<1>2. DocsOf(req[i].user)' = DocsOf(req[i].user)
  BY DEF DocsOf
<1>3. Serving(req[i].user)' \subseteq Serving(req[i].user)
  BY DEF Serving
<1>4. Exact(i)' = Exact(i) /\ Untouched(i)' = Untouched(i)
  BY <1>2 DEF Exact, Untouched, Doubled
<1>5. Leaves(i)' = Leaves(i)
  BY <1>2, <1>4 DEF Leaves
<1> QED
  BY <1>1, <1>2, <1>3, <1>4, <1>5 DEF AloneKnows, Wanted

\* The steps of another request do not concern one that is alone: they are of
\* another user, or return.
LEMMA AloneOthers ==
  ASSUME TypeOK, IdsInv, \A h \in Handlers : LocalsInOrder(h),
         NEW h \in Handlers, Serve(h) \/ Throws(h),
         NEW i \in Handlers, i # h, req[i].alone, AloneKnows(i)
  PROVE  req'[i] = req[i] /\ AloneKnows(i)'
<1>1. PICK u \in Users : u = req[i].user
  BY DEF LocalsInOrder
<1>2. h \notin Serving(u)
  BY <1>1 DEF AloneKnows
<1>3. CASE Return(h)
  <2>1. /\ req'[i] = req[i] /\ req'[h].user = NoUser
        /\ rows' = rows /\ docs' = docs
        /\ \A j \in Handlers \ {h} : req'[j] = req[j]
    BY <1>3, ReturnStep DEF NoRequest
  <2>2. Serving(u)' \subseteq Serving(u) /\ DocsOf(u)' = DocsOf(u)
    BY <2>1, NamesAssumption DEF Serving, DocsOf
  <2> QED
    BY <1>1, <2>1, <2>2, AloneFrame
<1>4. ASSUME ~Return(h) PROVE req'[i] = req[i] /\ AloneKnows(i)'
  <2>1. req[h].pc # "done" /\ \E p, f, b : Moves(h, p, f, b)
    BY <1>4, ServesAlone
  <2>2. req[h].user # u
    BY <1>2, <2>1 DEF Serving
  <2>3. req'[i] = req[i] /\ \A v : Serving(v)' \subseteq Serving(v)
    BY <2>1, ServingMoves DEF Moves
  <2>4. DocsOf(u)' = DocsOf(u) /\ (u \in rows' <=> u \in rows)
    BY <2>2, OthersKept
  <2> QED
    BY <1>1, <2>3, <2>4, AloneFrame
<1> QED BY <1>3, <1>4

\* What a request alone has changed when it saves: there is one list, the one
\* it wants.
LEMMA SavesExactly ==
  ASSUME TypeOK, IdsInv, NEW h \in Handlers, LocalsInOrder(h), AloneKnows(h),
         req[h].pc = "save", Saves(h), NEW p, NEW f, NEW b, Moves(h, p, f, b)
  PROVE  Exact(h)'
<1>1. PICK u \in Users : u = req[h].user
  BY DEF LocalsInOrder
<1>2. /\ req[h].want = {req[h].body}
      /\ \A d \in DocsOf(u) : req[h].found # NoId /\ d.id = req[h].found
  BY <1>1 DEF AloneKnows, LocalsInOrder
<1>3. PICK i \in DocIds :
        /\ req[h].found # NoId => i = req[h].found
        /\ DocsOf(u)' = {d \in DocsOf(u) : d.id # i}
             \cup {[id |-> i, user |-> u, games |-> req[h].body]}
  BY <1>1, SavesOwn
<1>4. DocsOf(u)' = {[id |-> i, user |-> u, games |-> req[h].body]}
  BY <1>2, <1>3
<1>5. req'[h].user = u /\ req'[h].want = {req[h].body}
  BY <1>1, <1>2 DEF Moves
<1>6. DocsOf(req[h].user)' = DocsOf(u)'
  BY <1>5 DEF DocsOf
<1> DEFINE D == DocsOf(u)'
<1>7. {d.games : d \in D} = {req[h].body} /\ ~ \E d, e \in D : d # e
  BY <1>4
<1> HIDE DEF D
<1>8. {d.games : d \in DocsOf(req[h].user)'} = req'[h].want
      /\ ~ \E d, e \in DocsOf(req[h].user)' : d # e
  BY <1>5, <1>6, <1>7 DEF D
<1> QED
  BY <1>8 DEF Exact, Doubled

\* A step of a request alone: it knows again what it should.
LEMMA AloneServes ==
  ASSUME TypeOK, IdsInv, \A i \in Handlers : LocalsInOrder(i), NEW h \in Handlers,
         Serve(h) \/ Throws(h), ~Return(h), req[h].alone, AloneKnows(h)
  PROVE  AloneKnows(h)'
<1>1. PICK u \in Users : u = req[h].user
  BY DEF LocalsInOrder
<1>2. req[h].pc # "done" /\ \E p, f, b : Moves(h, p, f, b)
  BY ServesAlone
<1>3. /\ req'[h].user = u /\ req'[h].op = req[h].op
      /\ req'[h].want = req[h].want /\ req'[h].before = req[h].before
      /\ Serving(u)' \subseteq {h}
  <2>1. Serving(u) \subseteq {h}
    BY <1>1 DEF AloneKnows
  <2>2. PICK p, f, b : Moves(h, p, f, b)
    BY <1>2
  <2>3. Serving(u)' \subseteq Serving(u)
    BY <1>2, <2>2, ServingMoves
  <2> QED
    BY <1>1, <2>1, <2>2, <2>3 DEF Moves
<1>4. /\ Serving(req[h].user)' = Serving(u)' /\ DocsOf(req[h].user)' = DocsOf(u)'
      /\ docs' = docs => DocsOf(u)' = DocsOf(u)
  BY <1>3 DEF DocsOf, Serving
<1>5. docs' = docs => /\ Untouched(h)' = Untouched(h)
                      /\ Exact(h)' = Exact(h)
  BY <1>1, <1>3, <1>4 DEF Untouched, Exact, Doubled
<1>6. ASSUME NEW r, Ends(h, r), Leaves(h)' PROVE AloneKnows(h)'
  BY <1>3, <1>4, <1>6 DEF Ends, Moves, AloneKnows
<1>7. req[h].pc # "idle" /\ req[h].op \in Ops
  BY DEF LocalsInOrder
<1>8. CASE CheckUser(h)
  <2>1. /\ req[h].pc = "check" /\ docs' = docs /\ rows' = rows
        /\ \/ Ends(h, "refused")
           \/ u \notin rows /\ Moves(h, "find", req[h].found, req[h].body)
    BY <1>1, <1>8, ReadSteps
  <2>2. req[h].want = Wanted(u, req[h].op, req[h].body) /\ Untouched(h)
    BY <1>1, <2>1 DEF AloneKnows
  <2>3. CASE Ends(h, "refused")
    <3>1. Leaves(h)'
      BY <1>5, <2>1, <2>2, <2>3 DEF Ends, Leaves
    <3> QED
      BY <1>6, <2>3, <3>1
  <2>4. CASE u \notin rows /\ Moves(h, "find", req[h].found, req[h].body)
    <3>1. Wanted(u, req[h].op, req[h].body)' = req[h].want
      BY <1>4, <2>1, <2>2, <2>4 DEF Wanted, Moves
    <3>2. req'[h].pc = "find" /\ Untouched(h)'
      BY <1>5, <2>1, <2>2, <2>4 DEF Moves
    <3> QED
      BY <1>3, <1>4, <2>1, <2>4, <3>1, <3>2 DEF AloneKnows, Wanted
  <2> QED BY <2>1, <2>3, <2>4
<1>9. CASE FindsTwo(h)
  <2>1. req[h].pc = "find" /\ docs' = docs /\ Ends(h, "refused")
    BY <1>9, ReadSteps
  <2>2. Leaves(h)'
    BY <1>5, <2>1 DEF AloneKnows, Ends, Leaves
  <2> QED
    BY <1>6, <2>1, <2>2
<1>10. CASE FindsNone(h)
  <2>1. /\ req[h].pc = "find" /\ docs' = docs /\ DocsOf(u) = {}
        /\ \/ req[h].op \in Replacing /\ Moves(h, "save", req[h].found, req[h].body)
           \/ Ends(h, "refused")
    BY <1>1, <1>10, ReadSteps
  <2>2. /\ req[h].want = Wanted(u, req[h].op, req[h].body) /\ Untouched(h)
        /\ req[h].op = "join" => u \notin rows
    BY <1>1, <2>1 DEF AloneKnows
  <2>3. CASE Ends(h, "refused")
    <3>1. Leaves(h)'
      BY <1>5, <2>1, <2>2, <2>3 DEF Ends, Leaves
    <3> QED
      BY <1>6, <2>3, <3>1
  <2>4. CASE req[h].op \in Replacing /\ Moves(h, "save", req[h].found, req[h].body)
    <3>1. req[h].want = {req[h].body}
      BY <2>2, <2>4 DEF Wanted
    <3> QED
      BY <1>3, <1>4, <2>1, <2>4, <3>1 DEF Moves, AloneKnows
  <2> QED BY <2>1, <2>3, <2>4
<1>11. CASE FindsOne(h)
  <2>1. req[h].pc = "find" /\ docs' = docs
    BY <1>11, FindStep
  <2>2. PICK d \in DocsOf(u) :
          /\ DocsOf(u) = {d}
          /\ \/ req[h].op \in Replacing /\ Moves(h, "delete", d.id, req[h].body)
             \/ /\ req[h].op = "delete"
                /\ Changed(req[h].op, d.games, req[h].body) = d.games
                /\ Ends(h, "answered")
             \/ /\ req[h].op \in {"update", "delete"}
                /\ Moves(h, "save", d.id, Changed(req[h].op, d.games, req[h].body))
    BY <1>1, <1>11, FindStep
  <2>3. /\ req[h].want = Wanted(u, req[h].op, req[h].body) /\ Untouched(h)
        /\ req[h].op = "join" => u \notin rows
    BY <1>1, <2>1 DEF AloneKnows
  <2>4. req[h].op \in {"update", "delete"} =>
          /\ req[h].op \notin Replacing
          /\ req[h].want = {Changed(req[h].op, d.games, req[h].body)}
    <3>1. req[h].op \in {"update", "delete"} => req[h].op \notin Replacing /\ req[h].op # "join"
      BY DEF Replacing
    <3> QED
      BY <2>2, <2>3, <3>1 DEF Wanted
  <2>5. CASE req[h].op \in Replacing /\ Moves(h, "delete", d.id, req[h].body)
    <3>1. req[h].want = {req[h].body}
      BY <2>3, <2>5 DEF Wanted
    <3> QED
      BY <1>3, <1>4, <1>5, <2>1, <2>2, <2>3, <2>5, <3>1 DEF Moves, AloneKnows
  <2>6. CASE /\ req[h].op \in {"update", "delete"}
             /\ Moves(h, "save", d.id, Changed(req[h].op, d.games, req[h].body))
    BY <1>3, <1>4, <1>5, <2>1, <2>2, <2>3, <2>4, <2>6 DEF Moves, AloneKnows
  <2>7. CASE /\ req[h].op = "delete"
             /\ Changed(req[h].op, d.games, req[h].body) = d.games
             /\ Ends(h, "answered")
    <3>1. {e.games : e \in DocsOf(u)} = req[h].want /\ ~Doubled(DocsOf(u))
      BY <2>2, <2>4, <2>7 DEF Doubled
    <3>2. Leaves(h)'
      BY <1>1, <1>5, <2>1, <2>7, <3>1 DEF Ends, Leaves, Exact
    <3> QED
      BY <1>6, <2>7, <3>2
  <2> QED BY <2>2, <2>5, <2>6, <2>7
<1>12. CASE DeleteDoc(h)
  <2>1. /\ req[h].pc = "delete" /\ Moves(h, "save", NoId, req[h].body)
        /\ DocsOf(u)' = {d \in DocsOf(u) : d.id # req[h].found}
    BY <1>1, <1>12, DeleteStep, DeletesOwn
  <2>2. /\ req[h].want = {req[h].body} /\ \A d \in DocsOf(u) : d.id = req[h].found
        /\ req[h].op \in Replacing
    BY <1>1, <2>1 DEF AloneKnows, LocalsInOrder
  <2> QED
    BY <1>3, <1>4, <2>1, <2>2 DEF Moves, AloneKnows
<1>13. CASE SaveDoc(h)
  <2>1. /\ req[h].pc = "save" /\ Saves(h)
        /\ \/ Moves(h, "commit", req[h].found, req[h].body)
           \/ Ends(h, "answered")
    BY <1>13, SaveStep
  <2>2. Exact(h)'
    BY <2>1, SavesExactly DEF Ends
  <2>3. CASE Ends(h, "answered")
    <3>1. Leaves(h)'
      BY <2>2, <2>3 DEF Ends, Leaves
    <3> QED
      BY <1>6, <2>3, <3>1
  <2>4. CASE Moves(h, "commit", req[h].found, req[h].body)
    BY <1>3, <1>4, <2>2, <2>4 DEF Moves, AloneKnows
  <2> QED BY <2>1, <2>3, <2>4
<1>14. CASE CommitUser(h)
  <2>1. docs' = docs /\ Exact(h) /\ (Ends(h, "answered") \/ Ends(h, "failed"))
    BY <1>14, CommitStep DEF AloneKnows
  <2>2. Leaves(h)'
    BY <1>5, <2>1 DEF Ends, Leaves
  <2> QED
    BY <1>6, <2>1, <2>2
<1>15. CASE Throws(h)
  <2>1. Ends(h, "failed") /\ req[h].pc \in {"check", "find", "delete", "save", "commit"}
    BY <1>15, ThrowStep
  <2>2. Leaves(h)'
    <3>1. CASE docs' = docs
      <4>1. \/ Untouched(h) \/ Exact(h)
            \/ req[h].op \in Replacing /\ DocsOf(u) = {}
        BY <1>1, <2>1 DEF AloneKnows
      <4> QED
        BY <1>3, <1>4, <1>5, <2>1, <3>1, <4>1 DEF Ends, Leaves
    <3>2. CASE req[h].pc = "delete" /\ docs' = Deleted(h)
      <4>1. req[h].op \in Replacing /\ \A d \in DocsOf(u) : d.id = req[h].found
        BY <1>1, <3>2 DEF AloneKnows, LocalsInOrder
      <4>2. DocsOf(u)' = {d \in DocsOf(u) : d.id # req[h].found}
        BY <1>1, <3>2, DeletesOwn
      <4> QED
        BY <1>3, <1>4, <2>1, <4>1, <4>2 DEF Ends, Leaves
    <3>3. CASE req[h].pc = "save" /\ Saves(h)
      <4>1. Exact(h)'
        BY <2>1, <3>3, SavesExactly DEF Ends
      <4> QED
        BY <2>1, <4>1 DEF Ends, Leaves
    <3> QED
      BY <1>15, <3>1, <3>2, <3>3, ThrowStep
  <2> QED
    BY <1>6, <2>1, <2>2
<1> QED
  BY <1>8, <1>9, <1>10, <1>11, <1>12, <1>13, <1>14, <1>15 DEF Serve

\* A request that is alone does what it should.
LEMMA AloneStep ==
  ASSUME TypeOK, IdsInv, \A h \in Handlers : LocalsInOrder(h),
         \A h \in Handlers : req[h].alone => AloneKnows(h), [Next]_vars
  PROVE  \A i \in Handlers : req'[i].alone => AloneKnows(i)'
<1>1. ASSUME NEW h \in Handlers, Return(h) PROVE ~req'[h].alone
  BY <1>1, ReturnStep DEF NoRequest
<1>2. ASSUME NEW h \in Handlers, Serve(h) \/ Throws(h), NEW i \in Handlers, req'[i].alone
      PROVE  AloneKnows(i)'
  <2>1. i # h => req'[i] = req[i]
    BY <1>2, ServesAlone, ReturnStep DEF Moves
  <2>2. ~Return(h) => req'[h].alone = req[h].alone
    BY <1>2, ServesAlone DEF Moves
  <2> QED
    BY <1>1, <1>2, <2>1, <2>2, AloneOthers, AloneServes
<1>3. ASSUME NEW h \in Handlers, NEW u \in Users, NEW op \in Ops, NEW bad \in Defects(op),
             NEW body \in Bodies(op), Request(h, u, op, body, bad),
             NEW i \in Handlers, req'[i].alone
      PROVE  AloneKnows(i)'
  <2>1. /\ req[h].pc = "idle" /\ docs' = docs /\ rows' = rows
        /\ Asks(h, u, op, body)
    BY <1>3, RequestAsks DEF Request
  <2>2. \A v : DocsOf(v)' = DocsOf(v)
    BY <2>1 DEF DocsOf
  <2>3. \A v : Serving(v)' = IF v = u THEN Serving(v) \cup {h} ELSE Serving(v) \ {h}
    BY <2>1 DEF Serving, Asks
  <2>4. CASE i = h
    <3>1. Serving(u) = {} /\ req'[h].user = u
      BY <1>3, <2>1, <2>4 DEF Asks
    <3>2. Serving(u)' \subseteq {h}
      BY <2>3, <3>1
    <3>3. /\ req'[h].pc = IF op = "join" THEN "check" ELSE "find"
          /\ req'[h].op = op /\ req'[h].body = body
          /\ req'[h].want = Wanted(u, op, body)
          /\ req'[h].before = DocsOf(u)
      BY <2>1, <3>1 DEF Asks
    <3>4. Wanted(u, op, body)' = Wanted(u, op, body)
      BY <2>1, <2>2 DEF Wanted
    <3>5. Untouched(h)'
      BY <2>2, <3>1, <3>3 DEF Untouched, DocsOf
    <3> QED
      BY <2>2, <2>4, <3>1, <3>2, <3>3, <3>4, <3>5 DEF AloneKnows, Wanted
  <2>5. CASE i # h
    <3>1. PICK v \in Users : v = req[i].user /\ v # u /\ req[i].alone /\ req'[i] = req[i]
      BY <1>3, <2>1, <2>5 DEF Asks, LocalsInOrder
    <3>2. Serving(v)' \subseteq Serving(v) /\ DocsOf(v)' = DocsOf(v) /\ AloneKnows(i)
      BY <2>2, <2>3, <3>1
    <3> QED
      BY <2>1, <3>1, <3>2, AloneFrame
  <2> QED BY <2>4, <2>5
<1>4. CASE Crash
  BY <1>4, CrashStep DEF NoRequest
<1>5. CASE UNCHANGED vars
  <2>1. \A u : DocsOf(u)' = DocsOf(u) /\ Serving(u)' = Serving(u)
    BY <1>5 DEF vars, DocsOf, Serving
  <2>2. req' = req /\ rows' = rows
    BY <1>5 DEF vars
  <2> QED
    BY <2>1, <2>2, AloneFrame
<1> QED
  BY <1>2, <1>3, <1>4, <1>5 DEF Next

-----------------------------------------------------------------------------
(* The theorems. *)

\* The invariant holds at the start.
LEMMA Start == Init => IInv
<1> SUFFICES ASSUME Init PROVE IInv
  OBVIOUS
<1>1. \A h \in Handlers : req[h] = NoRequest
  BY DEF Init
<1>2. TypeOK
  BY NoRequestTyped DEF Init, TypeOK
<1>3. \A h \in Handlers : /\ req[h].pc = "idle" /\ req[h].user = NoUser
                          /\ ~req[h].alone /\ req[h].found = NoId
  BY <1>1 DEF NoRequest
<1>4. \A u \in Users : DocsOf(u) = {} /\ Serving(u) = {}
  BY <1>3, NamesAssumption DEF Init, DocsOf, Serving
<1> QED
  BY <1>2, <1>3, <1>4 DEF Init, IInv, ReadsHold, IdsInv, LocalsInOrder, OneDocument, Doubled,
     Undisturbed, RegisteredHasGames, CommitHasGames

\* Requests of any users overlap in any way, are refused, fail at any call with
\* or without its effect, and die.
LEMMA Invariance == Spec => []IInv
<1>1. IInv /\ [Next]_vars => IInv'
  BY TypeStep, IdsStep, LocalsStep, UndisturbedStep, GamesStep, AloneStep DEF IInv, ReadsHold
<1> QED
  BY Start, <1>1, PTL DEF Spec

\* GameInfoService.java:62-131: ids stay unique, and what a request has read is
\* so when it writes unless a request that replaces the document overlaps it,
\* though any call may fail and the process may die.
THEOREM ReadsKept == Spec => []ReadsHold
<1>1. IInv => ReadsHold
  BY DEF IInv
<1> QED
  BY <1>1, Invariance, PTL

\* findByUserId (UserGameInfoRepository.java:15) finds two documents of a user
\* only after two requests overlapped of which one replaces the document.
THEOREM AtMostOneDocument == Spec => []OneDocument
<1>1. IInv => OneDocument
  BY DEF IInv
<1> QED
  BY <1>1, Invariance, PTL

\* JoinUser (UserService.java:49-61) writes the row after the list, and what
\* replaces a list deletes it and saves again (GameInfoService.java:62-71):
\* whoever has signed up has a list, but between the two, and after a request
\* failed or died between the two.
THEOREM SignedUpHaveGames == Spec => []RegisteredHasGames
<1>1. IInv => RegisteredHasGames
  BY DEF IInv
<1> QED
  BY <1>1, Invariance, PTL

\* GameInfoService.java:62-131: a request that no other of its user overlaps
\* leaves the lists it should when it is answered, those it found when it is
\* refused, and when a call throws one of the two, or none when it replaces.
THEOREM AloneExact == Spec => []AloneIsExact
<1>1. IInv => AloneIsExact
  BY DEF IInv, AloneIsExact, AloneKnows
<1> QED
  BY <1>1, Invariance, PTL
=============================================================================
