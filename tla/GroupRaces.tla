------------------------------ MODULE GroupRaces ------------------------------
(***************************************************************************)
(* What requests for one group may do to each other.  GroupService checks  *)
(* before it acts and locks nothing it has checked: whether somebody has   *)
(* joined, left or updated the group between the check and the commit of a *)
(* request decides what the commit may spoil.  news records that, and no   *)
(* action of the service reads it.                                         *)
(***************************************************************************)
EXTENDS GroupProperties

VARIABLE news  \* what others committed to its group since a request arrived

rvars == <<vars, news>>

Joins(g, U) ==
  \E r \in DOMAIN groupUser' \ DOMAIN groupUser :
    groupUser'[r].group = g /\ groupUser'[r].user \in U
Leave(g, U) ==
  \E r \in DOMAIN groupUser \ DOMAIN groupUser' :
    groupUser[r].group = g /\ groupUser[r].user \in U
Updates(g) ==
  /\ g \in DOMAIN groupInfo \cap DOMAIN groupInfo'
  /\ groupInfo'[g] # groupInfo[g]

\* What the step does to the group of h that h has read or is going to rely on.
News == {"joined", "left", "moved", "again", "gone"}
Happens(n, h) ==
  LET g == req[h].group
      u == req[h].user
  IN  \/ n = "moved" /\ req[h].op = "join"
                     /\ (Joins(g, Users) \/ Leave(g, Users) \/ Updates(g))
      \/ n = "again" /\ req[h].op = "join" /\ Joins(g, {u})
      \/ n = "gone" /\ req[h].op = "update" /\ Leave(g, {u})
      \/ n = "joined" /\ req[h].op = "leave" /\ Joins(g, Users)
      \/ n = "left" /\ req[h].op = "leave" /\ Leave(g, Users)

\* The commit of a request is its last step, so its own is no news to it.
Told(h) == IF pc'[h] = "idle" THEN {}
                              ELSE news[h] \cup {n \in News : Happens(n, h)}

RInit == Init /\ news = [h \in Handlers |-> {}]
RNext == Next /\ news' = [h \in Handlers |-> Told(h)]
RSpec == RInit /\ [][RNext]_rvars

-----------------------------------------------------------------------------
(* Each of these names all there is that can break what the service means  *)
(* to keep.                                                                *)

\* The request h for group g ends in this step.
Commits(h, g) == /\ pc[h] # "idle" /\ pc'[h] = "idle"
                 /\ req[h].group = g

\* Every group is born with a leader (305-307 let nobody else update it).  It
\* is left without one only by a leader who found nobody to take over (351-353) and
\* was overtaken by a join, or by a member who has been promoted since his role
\* was read (341): that takes another leave.
LedUnlessOvertaken ==
  [][\A g \in DOMAIN groupInfo' :
       LeadersOf(g)' = {} =>
         \/ g \in DOMAIN groupInfo /\ LeadersOf(g) = {}
         \/ \E h \in Handlers :
              /\ Commits(h, g) /\ req[h].op = "leave"
              /\ \/ loc[h].role = 0 /\ "joined" \in news[h]
                 \/ loc[h].role = 1 /\ "left" \in news[h]]_rvars

\* A group has no more members than its maximum (271).  It gets more only by an
\* update that lowers the maximum (which nothing compares with the members),
\* by a maximum of no place at all, by a join that was overtaken after it had
\* read the maximum or counted, or by == on a maximum beyond the Integer cache.
Overfull(g) ==
  g \in DOMAIN groupInfo /\ Cardinality(RowsOf(g)) > groupInfo[g].max
RoomUnlessOvertaken ==
  [][\A g \in DOMAIN groupInfo' :
       Overfull(g)' =>
         \/ Overfull(g)
         \/ g \in DOMAIN groupInfo /\ groupInfo'[g].max < groupInfo[g].max
         \/ g \notin DOMAIN groupInfo /\ groupInfo'[g].max = 0
         \/ \E h \in Handlers :
              /\ Commits(h, g) /\ req[h].op = "join"
              /\ \/ "moved" \in news[h]
                 \/ req[h].max > IntegerCacheHigh]_rvars

\* A user gets a second row in a group, which makes every later query for it
\* throw (265, 305, 341), only by a join that an earlier join of the same user
\* has overtaken.
OneRowUnlessOvertaken ==
  [][\A r, s \in DOMAIN groupUser' :
       /\ r # s
       /\ groupUser'[r].group = groupUser'[s].group
       /\ groupUser'[r].user = groupUser'[s].user
       => \/ {r, s} \subseteq DOMAIN groupUser
          \/ \E h \in Handlers : /\ Commits(h, groupUser'[r].group)
                                 /\ req[h].op = "join"
                                 /\ "again" \in news[h]]_rvars

\* A group changes only by an update of a user who leads it when the change is
\* committed, or who has left it since his right was checked (305-307).
LeaderUpdatesUnlessOvertaken ==
  [][\A g \in DOMAIN groupInfo \cap DOMAIN groupInfo' :
       groupInfo'[g] # groupInfo[g] =>
         \E h \in Handlers :
           /\ Commits(h, g) /\ req[h].op = "update"
           /\ Leads(req[h].user, g) \/ "gone" \in news[h]]_rvars

\* The request commits on what was true when it looked and may no longer be.
Overtaken(h) ==
  \/ /\ req[h].op = "join"
     /\ \/ "moved" \in news[h]
        \/ req[h].max > IntegerCacheHigh
        \/ Overfull(req[h].group)
  \/ req[h].op = "update" /\ "gone" \in news[h]
  \/ req[h].op = "leave" /\ news[h] \cap {"joined", "left"} # {}

\* The service does what Groups promises: every commit is one of its
\* operations, done by a user it allows, and every request that is refused or
\* fails changes nothing, except for requests that have been overtaken and for
\* joins of a group that is overfull already.
RefinesUnlessOvertaken ==
  /\ Promise!Init
  /\ [][\/ Promise!Next
        \/ \E h \in Handlers : Commits(h, req[h].group) /\ Overtaken(h)]_Committed

-----------------------------------------------------------------------------
(* Why they do: what a request has read stays true of the committed rows   *)
(* until it is overtaken.                                                  *)

\* The user of a join is not in yet, the maximum is the one that was read, and
\* the members are not as many as that, in the eyes of ==.
JoinAsRead(h) ==
  LET g == req[h].group IN
  /\ "again" \in news[h] => "moved" \in news[h]
  /\ req[h].op = "join" =>
       /\ NotYetIn(h) \/ "again" \in news[h]
       /\ \/ "moved" \in news[h]
          \/ /\ g \in DOMAIN groupInfo => groupInfo[g].max = req[h].max
             /\ pc[h] = "insertRow" =>
                  ~SameInteger(Cardinality(RowsOf(g)), req[h].max)

UpdateAsRead(h) == UpdaterLeads(h) \/ "gone" \in news[h]

\* A leave has read its row: it is the only one of its user, and there with its
\* role.
Looked(h) == req[h].op = "leave" /\ pc[h] # "findMember"
OnlyRow(h) ==
  Looked(h) => RowsOfUser(req[h].group, req[h].user) = {loc[h].row}
RoleAsRead(h) ==
  Looked(h) => /\ loc[h].row \in DOMAIN groupUser
               /\ groupUser[loc[h].row].role = loc[h].role

\* A leader who has found nobody to take over.
Heirless(h) ==
  /\ req[h].op = "leave" /\ loc[h].role = 0 /\ loc[h].heir = NoId
  /\ pc[h] = "deleteRow" \/ Flushed(h)
NoHeirs(h) == Heirless(h) => Heirs(req[h].group) = {}

\* The last of these: that somebody remains when nobody was found is news.
LeaveUnlessTold(h) ==
  req[h].op = "leave" =>
    /\ OnlyRow(h) \/ news[h] \cap {"joined", "left"} # {}
    /\ RoleAsRead(h) \/ "left" \in news[h]
    /\ NoHeirs(h) \/ "joined" \in news[h]
    /\ pc[h] = "commitLeave" /\ Heirless(h) => "joined" \in news[h]

\* An insert or an update asks for a maximum a form may send.
AsksAllowed(h) ==
  req[h].op \in {"insert", "update"} => req[h].max \in MaxCounts

AsRead(h) == /\ JoinAsRead(h) /\ UpdateAsRead(h) /\ LeaveUnlessTold(h)
             /\ AsksAllowed(h)

\* The invariant is inductive beside those of the service.
RaceInv ==
  /\ IInv /\ InPlace
  /\ IsFiniteSet(DOMAIN groupUser)
  /\ \A h \in Handlers : AsRead(h)
=============================================================================
