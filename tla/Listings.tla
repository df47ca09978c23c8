------------------------------ MODULE Listings ------------------------------
(***************************************************************************)
(* The queries of com.wasd.group.service.GroupService, which run beside    *)
(* the requests of module GroupService and read the two stores that those  *)
(* change one after the other:                                             *)
(*   all        the groups of a game (findGroupByGameId)                   *)
(*   recommend  the best of those for a user (findRcmGroupByGameId)        *)
(*   mine       the groups of a user (findGroupByUserId), the menu         *)
(*   view       one group and its game (findGroupByGroupId), the popup     *)
(*                                                                         *)
(* A query changes nothing, so one thread that asks again and again stands *)
(* for any number of them.  It is in no transaction: every statement reads *)
(* what is committed at that moment.  All groups are of one game, the game *)
(* of the query; a user without that game gets an answer before a group is *)
(* looked at (82-88), which is left out.                                   *)
(***************************************************************************)
EXTENDS GroupService, FiniteSetsExt, SequencesExt

CONSTANTS
  Kinds,     \* the queries asked
  Askers,    \* the users who ask
  Limit,     \* how many groups a recommendation holds (163: 8)
  Attributes, \* what a game asks of its players
  Options,   \* what can be answered
  Profiles,  \* what users say they want: [info, start, end]
  Offers     \* what groups say they are: [info, start, end]

Open == "open"   \* an attribute left open (an empty option of the form)
NoTime == 99    \* a time left open
Hours == 0..23

\* The answers to some of the questions of the game, and the hours.
Wish == [info : UNION {[keys -> Options \cup {Open}] : keys \in SUBSET Attributes},
         start : Hours \cup {NoTime}, end : Hours \cup {NoTime}]

ASSUME KindsAssumption ==
  Kinds \subseteq {"all", "recommend", "mine", "view"} /\ Askers \subseteq Users
ASSUME LimitAssumption == Limit \in Nat \ {0}
ASSUME WishAssumption ==
  IsFiniteSet(Attributes) /\ Profiles \subseteq Wish /\ Offers \subseteq Wish
\* Documents are sorted by their group.
ASSUME NumbersAssumption == GroupIds \subseteq Nat

VARIABLES
  step,    \* where the query is
  ask,     \* [kind, user]
  todo,    \* the groups still to be looked up, the next one first
  found,   \* what was looked up: [group, max, count], scored: offer too
  wish,    \* the profile of the user, once read
  answer,  \* what is sent back
  busy     \* history: groups that a request in flight named, since the question

query == <<step, ask, todo, found, wish, answer, busy>>
allVars == <<vars, query>>

NoAsk == [kind |-> "none", user |-> NoUser]
NoWish == [info |-> <<>>, start |-> NoTime, end |-> NoTime]

Named == {req[h].group : h \in Handlers} \ {NoId}

-----------------------------------------------------------------------------
(* The score of a group (114-166). *)

\* What is said of a question, open where nothing is (getOrDefault).
Said(info, key) == IF key \in DOMAIN info THEN info[key] ELSE Open

AttrScore(wanted, offered) ==
  IF wanted = Open THEN 5 ELSE IF offered = Open THEN 3
  ELSE IF wanted = offered THEN 10 ELSE 0

Within(p, q) == q.start <= p.start /\ p.end <= q.end

\* The branches are tried in this order.
TimeScore(u, g) ==
  IF NoTime \in {u.start, u.end, g.start, g.end} THEN 2
  ELSE IF Within(u, g) THEN 10 ELSE IF Within(g, u) THEN 8
  ELSE IF u.start < g.end /\ g.start < u.end THEN 5 ELSE 0

\* Only the attributes of the user count.
Total(u, g) ==
  MapThenSumSet(LAMBDA key : AttrScore(u.info[key], Said(g.info, key)), DOMAIN u.info)
    + TimeScore(u, g)

\* Variant: the totals are not reversed.
AheadUp(u, groups, i, j) ==
  LET a == Total(u, groups[i].offer)
      b == Total(u, groups[j].offer)
  IN  a < b \/ (a = b /\ i < j)

\* The totals from the highest, the groups of one total in the order they came.
Ahead(u, groups, i, j) ==
  LET a == Total(u, groups[i].offer)
      b == Total(u, groups[j].offer)
  IN  a > b \/ (a = b /\ i < j)

Place(u, groups, i) ==
  1 + Cardinality({j \in DOMAIN groups : Ahead(u, groups, j, i)})

\* groupSort, cut after the limit.
Sorted(u, groups) ==
  [n \in 1..Min({Limit, Len(groups)}) |->
     groups[CHOOSE i \in DOMAIN groups : Place(u, groups, i) = n]]

-----------------------------------------------------------------------------
(* The query. *)

ListInit ==
  /\ Init
  /\ step = "idle" /\ ask = NoAsk
  /\ todo = <<>> /\ found = <<>> /\ wish = NoWish /\ answer = <<>>
  /\ busy = {}

First(kind) ==
  CASE kind = "mine" -> "findRows" [] kind = "view" -> "findDoc"
    [] OTHER -> "findDocs"

Ask(kind, u, groups) ==
  /\ step = "idle"
  /\ kind \in Kinds
  /\ ask' = [kind |-> kind, user |-> u]
  /\ todo' = groups
  /\ step' = First(kind)
  /\ busy' = Named
  /\ UNCHANGED <<found, wish, answer, vars>>

AskList == \E u \in Askers, kind \in {"recommend", "mine"} : Ask(kind, u, <<>>)
AskAll == Ask("all", NoUser, <<>>)
AskView == \E g \in DOMAIN groupInfo : Ask("view", NoUser, <<g>>)

\* Variant: the end of the stream is not noticed.
ProceedAlways(groups) ==
  /\ todo' = groups
  /\ step' = IF ask.kind = "recommend" THEN "checkMember" ELSE "findGroup"

\* On to the next group of the stream, or to what follows the stream.
Proceed(groups) ==
  /\ todo' = groups
  /\ step' = CASE groups = <<>> /\ ask.kind = "recommend" -> "rank"
               [] groups = <<>> /\ ask.kind # "recommend" -> "answered"
               [] groups # <<>> /\ ask.kind = "recommend" -> "checkMember"
               [] groups # <<>> /\ ask.kind # "recommend" -> "findGroup"

Refuse == step' = "refused" /\ UNCHANGED <<todo, found>>

Reads == UNCHANGED <<ask, wish, answer, busy, vars>>

\* findByGameInfo_GameIdOrderByGroupIdDesc: one entry per document.
FindDocs ==
  /\ step = "findDocs"
  /\ \E docs \in SetToSeqs(DOMAIN groupGame) :
       /\ \A i, j \in DOMAIN docs : i < j => groupGame[docs[i]] >= groupGame[docs[j]]
       /\ Proceed([i \in DOMAIN docs |-> groupGame[docs[i]]])
  /\ UNCHANGED found /\ Reads

\* findByUser_userId: one entry per row, in no order.
FindRows ==
  /\ step = "findRows"
  /\ \E rows \in SetToSeqs({r \in DOMAIN groupUser : groupUser[r].user = ask.user}) :
       Proceed([i \in DOMAIN rows |-> groupUser[rows[i]].group])
  /\ UNCHANGED found /\ Reads

\* findByGroupId of the view, an Optional.
FindViewed ==
  /\ step = "findDoc"
  /\ IF Cardinality(DocsOf(Head(todo))) = 1
       THEN Proceed(todo) /\ UNCHANGED found
       ELSE Refuse
  /\ Reads

\* Variant: the leader's own row is not found.
OwnFollowingRows == FollowingRowsOfUser(Head(todo), ask.user)

OwnRows == RowsOfUser(Head(todo), ask.user)

\* A recommendation passes over the user's own groups.  A row that is found
\* brings its group along, by a SELECT of its own (fetchOwn).
CheckMember ==
  /\ step = "checkMember"
  /\ \/ OwnRows = {} /\ step' = "findGroup" /\ UNCHANGED <<todo, found>>
     \/ \E r \in RowIds : OwnRows = {r} /\ step' = "fetchOwn"
                          /\ UNCHANGED <<todo, found>>
     \/ Cardinality(OwnRows) > 1 /\ Refuse
  /\ Reads

FetchOwn ==
  /\ step = "fetchOwn"
  /\ IF Head(todo) \in DOMAIN groupInfo
       THEN Proceed(Tail(todo)) /\ UNCHANGED found
       ELSE Refuse
  /\ Reads

\* findById of the group, or the SELECT that follows a row of the user.  Only
\* the list of all groups passes over a document whose group is not there.
FindGroup ==
  LET g == Head(todo) IN
  /\ step = "findGroup"
  /\ \/ /\ g \in DOMAIN groupInfo
        /\ found' = Append(found, [group |-> g, max |-> groupInfo[g].max,
                                   count |-> 0])
        /\ IF ask.kind \in {"all", "recommend"}
             THEN step' = "countUsers" /\ UNCHANGED todo
             ELSE Proceed(Tail(todo))
     \/ /\ g \notin DOMAIN groupInfo /\ ask.kind = "all"
        /\ Proceed(Tail(todo)) /\ UNCHANGED found
     \/ g \notin DOMAIN groupInfo /\ ask.kind # "all" /\ Refuse
  /\ Reads

CountUsers ==
  /\ step = "countUsers"
  /\ found' = [found EXCEPT ![Len(found)].count = Cardinality(RowsOf(Head(todo)))]
  /\ Proceed(Tail(todo))
  /\ Reads

\* The profile was read first and the offers with their groups; they are any,
\* and made out only here.
Score ==
  /\ step = "rank"
  /\ \E u \in Profiles, offers \in [DOMAIN found -> Offers] :
       LET scored == [i \in DOMAIN found |->
                        [group |-> found[i].group, max |-> found[i].max,
                         count |-> found[i].count, offer |-> offers[i]]] IN
       /\ wish' = u
       /\ found' = scored
       /\ answer' = Sorted(u, scored)
  /\ step' = "answered"
  /\ UNCHANGED <<ask, todo, busy, vars>>

Done ==
  /\ step \in {"answered", "refused"}
  /\ step' = "idle" /\ ask' = NoAsk
  /\ todo' = <<>> /\ found' = <<>> /\ wish' = NoWish /\ answer' = <<>>
  /\ busy' = {}
  /\ UNCHANGED vars

Query ==
  \/ AskList \/ AskAll \/ AskView
  \/ FindDocs \/ FindRows \/ FindViewed
  \/ CheckMember \/ FetchOwn \/ FindGroup \/ CountUsers \/ Score \/ Done

\* The requests; what was sent back is looked at before they go on.
Change ==
  /\ Next
  /\ step \notin {"answered", "refused"}
  /\ busy' = IF step = "idle" THEN {} ELSE busy \cup (Named')
  /\ UNCHANGED <<step, ask, todo, found, wish, answer>>

ListSpec == ListInit /\ [][Query \/ Change]_allVars

-----------------------------------------------------------------------------
(* What a user may rely on. *)

Entries(g) == {i \in DOMAIN found : found[i].group = g}

Found == [group : GroupIds, max : Nat, count : Nat]
Scored == [group : GroupIds, max : Nat, count : Nat, offer : Offers]

\* The steps belong to their queries, and have what they need.
StepInOrder ==
  /\ todo \in Seq(GroupIds)
  /\ step \notin {"answered", "refused"} => found \in Seq(Found)
  /\ step \in {"findDocs", "countUsers"} => ask.kind \in {"all", "recommend"}
  /\ step = "findRows" => ask.kind = "mine"
  /\ step = "findDoc" => ask.kind = "view"
  /\ step \in {"checkMember", "fetchOwn", "rank"} => ask.kind = "recommend"
  /\ step \in {"idle", "findDocs", "findRows", "findDoc"} => found = <<>>
  /\ step \in {"findDoc", "checkMember", "fetchOwn", "findGroup", "countUsers"}
       => todo # <<>>
  /\ step \in {"rank", "answered"} => todo = <<>>
  /\ step = "findDoc" => todo = <<Head(todo)>>
  /\ step = "countUsers" => found # <<>> /\ found[Len(found)].group = Head(todo)

\* The query keeps its types, and each step has what it needs: a group to look
\* up, an entry whose members are to be counted.
ListTypeOK ==
  /\ StepInOrder
  /\ ask \in [kind : Kinds \cup {"none"}, user : Users \cup {NoUser}]
  /\ found \in Seq(IF step = "answered" /\ ask.kind = "recommend" THEN Scored
                                                               ELSE Found)
  /\ wish \in Profiles \cup {NoWish} /\ answer \in Seq(Scored)
  /\ busy \subseteq GroupIds
  /\ step = "refused" => todo # <<>>
  /\ step = "idle" => query = <<"idle", NoAsk, <<>>, <<>>, NoWish, <<>>, {}>>

Wanted(g) ==
  /\ g \in DOMAIN groupInfo
  /\ ask.kind = "recommend" => RowsOfUser(g, ask.user) = {}
  /\ ask.kind = "mine" => RowsOfUser(g, ask.user) # {}
  /\ ask.kind = "view" => Entries(g) # {}

\* A group that no request touched while the query ran is answered as it is:
\* once if it belongs in the answer, with its members counted, and not at all
\* otherwise.  The query walks through two stores without a transaction
\* (46-65, 91-112), and it relies on every earlier request, failed ones too,
\* having left the stores in agreement.
ShowsWhatIs ==
  step = "answered" =>
    \A g \in GroupIds \ busy :
      IF Wanted(g)
        THEN \E i \in DOMAIN found :
               /\ Entries(g) = {i}
               /\ found[i].max = groupInfo[g].max
               /\ ask.kind \in {"all", "recommend"}
                    => found[i].count = Cardinality(RowsOf(g))
        ELSE Entries(g) = {}

\* A query fails only because of a group that a request was creating, changing
\* or removing meanwhile (110, 194-198): a group at rest, or what is left of a
\* failed request, never takes the whole answer away.
RefusedInMotion == step = "refused" => Head(todo) \in busy

\* Why both hold: what is true of a query under way.

\* What the answer is to hold, of the groups at rest.
Due(g) ==
  /\ g \in DOMAIN groupInfo
  /\ ask.kind = "recommend" => RowsOfUser(g, ask.user) = {}
  /\ ask.kind = "mine" => RowsOfUser(g, ask.user) # {}

OnceIn(groups, g) ==
  \A i, j \in DOMAIN groups : groups[i] = g /\ groups[j] = g => i = j

\* What the query has read of a group is still so, and the group has its place:
\* it is to be looked up, or has been once, or is not due.
Sought(g) ==
  /\ OnceIn(todo, g)
  /\ \A i, j \in Entries(g) : i = j
  /\ g \in ToSet(todo) =>
       /\ g \in DOMAIN groupInfo
       /\ ask.kind = "mine" => RowsOfUser(g, ask.user) # {}
       /\ Entries(g) # {} => step = "countUsers" /\ g = Head(todo)
  /\ Entries(g) # {} => Due(g)
  /\ ask.kind # "view" /\ Due(g) => g \in ToSet(todo) \/ Entries(g) # {}
  /\ \A i \in Entries(g) :
       /\ found[i].max = groupInfo[g].max
       /\ ask.kind \in {"all", "recommend"} /\ ~(step = "countUsers" /\ i = Len(found))
            => found[i].count = Cardinality(RowsOf(g))
  /\ todo # <<>> /\ g = Head(todo) =>
       /\ step \in {"findGroup", "countUsers"} => Due(g)
       /\ step = "fetchOwn" => ~Due(g)

\* The invariant behind both.
QueryInv ==
  /\ StepInOrder
  /\ step # "idle" => Named \subseteq busy
  /\ step = "findDoc" => Head(todo) \in DOMAIN groupInfo \cup busy
  /\ step \in {"checkMember", "fetchOwn", "findGroup", "countUsers", "rank",
               "answered"}
       => \A g \in GroupIds \ busy : Sought(g)
  /\ RefusedInMotion

\* A reference for the score that does not compare ends: how the sets of hours
\* lie to each other, with the points the code gives for it.  The words at 148
\* and 152 say the same, those at 144 speak of hours that coincide; the example
\* at 148 (group 14 to 17, user 15 to 16, at the branch of 8 points) is one the
\* code gives the 10 points of the branch before.
HoursOf(w) == {h \in Hours : w.start <= h /\ h < w.end}
Together(u, g) ==
  IF NoTime \in {u.start, u.end, g.start, g.end} THEN 2
  ELSE IF HoursOf(u) \subseteq HoursOf(g) THEN 10
  ELSE IF HoursOf(g) \subseteq HoursOf(u) THEN 8
  ELSE IF HoursOf(u) \cap HoursOf(g) # {} THEN 5 ELSE 0

Fit(u, g) ==
  LET named == {k \in DOMAIN u.info : u.info[k] # Open}
      left == {k \in named : Said(g.info, k) = Open}
      met == {k \in named : Said(g.info, k) = u.info[k]}
  IN  Together(u, g) + 5 * Cardinality(DOMAIN u.info \ named)
        + 3 * Cardinality(left) + 10 * Cardinality(met)

Before(e, f) ==
  LET a == Total(wish, e.offer)
      b == Total(wish, f.offer)
  IN  a > b \/ (a = b /\ e.group >= f.group)

\* A recommendation is the Limit groups of the highest totals (157-164), the
\* highest first, and of two with one total the newer first: grouping by the
\* total keeps the order of the stream, which is that of the documents, however
\* the requests have changed the stores while it was walked through.
BestFirst ==
  step = "answered" /\ ask.kind = "recommend" =>
    /\ Len(answer) = Min({Limit, Len(found)})
    /\ \A i, j \in DOMAIN answer : i < j => Before(answer[i], answer[j])
    /\ \A e \in ToSet(found) \ ToSet(answer) :
         \A i \in DOMAIN answer : Before(answer[i], e)

\* Every recommended group has room for one more (README.md:72: groups below
\* their maximum are selected).  The code has no such filter.
RecommendsRoom ==
  \A i \in DOMAIN answer : answer[i].count < answer[i].max
=============================================================================
