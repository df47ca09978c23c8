# WASD: a verification development

WASD is a web service for finding people to play with: a user signs up with an
OAuth account, lists the games they play, finds, creates and joins groups for a
game, and chats with the members of a group. The server is a Spring Boot
application (`src/src/main/java/com/wasd`) over two databases, PostgreSQL (users,
groups, memberships, chat presence, HTTP sessions) and MongoDB (games of a user,
game of a group). The client is jQuery (`src/src/main/resources/static/js`).

This directory models the program in TLA+, model-checks small instances with TLC
and proves the central invariants with TLAPS for every instance.

## 1. Inventory

| component | state | operations | what is hard | what makes it correct |
|---|---|---|---|---|
| **Group service** `group/service/GroupService.java` | `group_info`, `group_user_info` (PostgreSQL), `groupGameInfo` (MongoDB) | create, join, update, leave | two stores and one transaction manager; checks without locks; a leader's rights handed over; catch blocks that undo MongoDB by hand | the stores agree between requests; every group has one leader; no group above its maximum; one row per user and group; no row or document without its group |
| **Group listings, recommendation** (same file, 44-199) | none | find by game, by user, by id; score and sort | walks through two stores without a snapshot; one document without its group fails a whole answer | groups at rest are answered as they are, once; order by score, at most 8, only groups the user is not in |
| **Chat presence server** `chat/` | `chat_users`: user to group | enter (JOIN, LEAVE), message | frames of one page are handled by a pool of threads, lists reach the pages through another; broadcasts happen after the commit; a page may die without LEAVE | a frame takes effect as a whole; table and lists come right again |
| **Chat client** `chat.js`, `groupDetail.js`, `menu.js` | globals `stompClient`, `header`, selected menu entry, pages being loaded, connections | select a page, connect, disconnect, send | callbacks read globals that the next page resets: the page's HTML contains the `<script>` elements, so every load of a group page evaluates `chat.js` again and sets `stompClient` to null | one subscription, to the group shown; choosing another group ends the chat |
| **Chat transport** `cdn/js/sockjs.js` | readyState, transports, their timeouts, BufferedSender | open, send, close, unload | timeouts of transports that are given up; posts that are scheduled, started, answered, aborted; close in the middle of any of it | opens or closes in the end, closes once, delivers a beginning of what was sent |
| **Games of a user** `gameInfo/` | `userGameInfo` (MongoDB) | insert (delete + save), update, delete | read-modify-write of a whole document without a lock or a catch block; a call may fail between deletion and save | one document per user; a request alone does what it says |
| **Sign-up, profile** `user/`, `joinCommon.js`, `profileSetting.js`, `join.js` | `user_info`; on the page the form, the buttons, the box of answers, `saveGameInfoList`, `oriGameInfoList` | sign-up, edit, save, change of step | MongoDB written before PostgreSQL commits; the same list kept in several places, any request of a click may fail | whoever is registered has games; what is sent is what was seen and chosen; an edit is offered for saving |
| Login, session, roles `common/oauth`, `config/SecurityConfig.java` | authorities in the HTTP session | login, logout | roles are computed once, at login | a registered user can reach `/main` |
| Catalogue of games | `gameInfo` (MongoDB), read-only | find | none | none |
| Error handling `common/exception` | none | exception to response | none | none |
| Pages and forms | DOM | groupNew, groupView, group lists | layout, forms | what they send is well formed |
| Configuration | pool of 4 connections | | a request may need two connections | no request waits for ever |

The controllers call the services directly. Every request runs in its own servlet
thread; chat messages run in the threads of Spring's inbound channel. Services
share state only through the databases. On the client, `chat.js` speaks STOMP over a
SockJS connection; the pages of `user/` call the server with synchronous requests.

`PROJECT.json` lists under `hazards`, line by line, what in this code is hard to
test, with the properties that would notice it going wrong.

## 2. Modules

| module | what it is |
|---|---|
| `GroupService` | the group service, detailed: one action per statement (or run of statements) that another request can observe |
| `GroupProperties` | its properties, the inductive invariant `IInv`, which requests for one group overlap, and the invariants that hold as long as they do not |
| `GroupRaces` | the service with a record of what other requests commit to the group of a request while it is under way, and the properties that hold of all requests that were not overtaken |
| `Groups` | what the service promises: one table of groups, each operation atomic |
| `Listings` | the queries, composed with `GroupService`: a query and the requests interleave |
| `ChatPage` | the client of the chat in one browser tab, its properties and its invariant |
| `ChatServer` | the server's side of presence, its properties and its invariant |
| `Presence` | what the presence server promises: one function, changed atomically |
| `SockJS` | the connection under STOMP, its timers, transports and buffers |
| `Connection` | what a SockJS connection promises |
| `UserGames` | the games of a user, and the sign-up over both stores |
| `ProfilePage` | the sign-up page and the profile page |
| `MCGroup`, `MCRaces`, `MCListings`, `MCChat`, `MCServer`, `MCSockJS`, `MCGames`, `MCProfile` | instances for TLC |
| `GroupServiceProofs`, `GroupStoresProofs`, `ListingsProofs`, `ChatPageProofs`, `ChatServerProofs`, `SockJSProofs`, `UserGamesProofs`, `ProfilePageProofs` | theorems, for every value of the constants |

### GroupService

State. `groupInfo` and `groupUser` are the two tables *as committed*. `groupGame`
is the MongoDB collection. A group's row is abstracted to its maximum and a
revision `rev` that names the content; the document written with it has that
identity, so that "the stores agree" can be said. `pc`, `req` and `loc` are, for
each request thread, the statement it is at, the request, and the local variables
(`beforeGroupGame`, the own row and role, the chosen heir, the document found), its
row locks, and whether it runs its catch block.

Transactions. PostgreSQL runs at READ COMMITTED, its default: each query sees what
is committed at that moment, so each query another request can disturb is a step.
What a transaction writes is applied in its commit step. Where a write is
observable before the commit, that is modelled:

- In `deleteGroupByGroupId` the query at line 371 makes Hibernate flush the pending
  UPDATE of the heir and then the DELETE of the own row. Each is a step that waits for
  the lock of its row, the second while the first keeps its own (`UpdateHeir`,
  `DeleteRow`, `Blocked`); the locks are kept until the request ends, through the catch
  block too (`loc.locks`). A statement that matches no row makes Hibernate throw inside
  the try block (`Catch`).
- The DELETE of `group_info` waits while every row that still refers to the group is
  being deleted by another transaction (`Going`), and fails if one is to stay
  (`DropGroup`).
- In `joinGroup` the INSERT is the last statement, so INSERT, foreign key check and
  commit are one step (`InsertRow`).
- In `updateGroup` and `deleteGroupByGroupId` the UPDATE and the DELETE of
  `group_info` are flushed by the commit, when the method has returned: their
  failure does not reach the catch block (`CommitUpdate`, `DropGroup`).

MongoDB calls act at once. "Find, delete, save" is made by the try blocks of insert
and update and, to restore the former document, by the catch blocks of update and
leave: `FindDoc`, `DeleteDoc`, `SaveDoc`, with `loc.catching` telling which.

Failures. `Faults`: a MongoDB call in a try block throws, with or without having had
its effect (once per request: the catch block follows). `Crashes`: the process dies,
a commit fails, or a catch block fails. A body is `ok`, `badDoc` (no game: turning it
into a document throws) or `badRow` (PostgreSQL refuses the row).

`==` in `joinGroup` compares two `Integer` objects: `SameInteger(a, b)` is equality up
to `IntegerCacheHigh` (127 unless the JVM is told otherwise) and false above.

Identities. The databases never reuse an id. `NewGroup`, `NewRow` and `NewDoc` pick an
id that *nothing refers to*, neither a table nor a request in flight: such an id cannot
be told from one that was never used. The state space is finite without a bound on
the history; the only bounds are the sets of ids.

What is left out: names, descriptions and times; an insert that carries a groupId
(the form never sends one); a user who is not registered (refused before any state is
touched).

### Groups, GroupRaces and the refinement

`GroupProperties` instantiates `Groups` with the table read off the committed rows. The
code checks before it acts and locks nothing it has checked, so the table is not
implemented whatever overlaps. `GroupRaces` adds one history variable, `news`, that no action
reads: for each request, what others have committed to its group since it arrived (for a
join, that the group changed at all, and that its own user joined; for an update, that its
user left; for a leave, that somebody joined, or left). Each property names just the news
that can break it, and the commit of which request does:

- `LedUnlessOvertaken`: a group loses its last leader only by a leave that found nobody to take over
  and was overtaken by a join, or that read the role of a member and was overtaken by a leave
  which promoted him.
- `RoomUnlessOvertaken`: a group gets above its maximum only by a join overtaken by any change
  of the group, by an update that lowers the maximum, by a group made with a maximum of 0, or
  by a maximum that `==` cannot compare.
- `OneRowUnlessOvertaken`: a user gets a second row only by a join overtaken by an earlier join of
  his.
- `LeaderUpdatesUnlessOvertaken`: who changes a group leads it, or has left it since he asked.
- `RefinesUnlessOvertaken`: each commit is an operation of `Groups` by a user who may do it, except
  those of requests that were overtaken in these ways, and of joins of a group that is above its
  maximum already.

A request that nobody overtakes, whatever else runs, thus does what the service promises; the
exceptions are what the code does not keep (section 3).

### ChatPage

State.

| variable | in the code |
|---|---|
| `menu`, `active` | the entries of `#myGroups`; the `.group` with class `active` |
| `loads` | the requests of `getContentMain` that are not answered, per url |
| `asked` | a join or exit that is not answered; `here`: the `groupDetail` object that sent it is still the current one |
| `shown`, `detail` | what `.content-main` shows; `groupDetail.groupId` |
| `bound`, `listeners` | the input handlers; the `beforeunload` listeners |
| `current`, `header` | the globals `stompClient` and `header` of `chat.js` |
| `conn` | every connection that still exists, with the group it was opened for and its subscriptions |
| `told` | the group the server has last been told this user is in (`chat_users`, seen from the page) |

`cut` and `hasty` are history variables. `hasty` says that the user has acted while a
page was being fetched, a request being answered or the connection being opened.

Actions. JavaScript callbacks run one at a time, so each callback is one action:
a click on an icon, on a join or on an exit, the unload of the tab; the answer to each
request; the opening of the websocket, the arrival of CONNECTED, the loss of a
connection. What is easily missed in the code, and decides what happens:

- The HTML of a group page contains the `<script>` elements (groupDetail.html 85-89),
  so `GroupAnswered` evaluates `groupDetail.js` and `chat.js` again: `stompClient`
  becomes null, `destroy` in `init` therefore has nothing to end, and `disconnect` is
  another function than the one the last page gave to `addEventListener`.
- A click on an icon runs `destroy` (groupDetail.js 14) before the handler of the entry
  (menu.js 3). `disconnect` throws while the connection is opening; the handlers are gone
  by then, the entry's handler does not run, and the click has no other effect.
- The icon of the group shown ends its chat as well, and its entry's handler then returns
  at once (menu.js 4): the page stays, silent, and nothing connects again.
- JOIN and LEAVE of a page whose group is `undefined` (the entry selected when its answer
  came was no group's) reach the server, which fails to parse the id and rolls back.
- `onConnected` uses the globals of the moment, which may be another connection's.

What is left out: the text that is typed and drawn; the transports (module `SockJS`); a refused
refresh of the menu; the profile page, whose entry acts like the list's. A browser that
dies is `Lost` followed by `Unload`. No fairness is assumed: all is safety.

### ChatServer and Presence

`rows` is `chat_users` as committed. A `task` is a frame in the inbound channel or the
thread that handles it: the pool takes frames in any order. Its program points follow
Hibernate: `deleteById` looks for the row (`Look`) and, when it finds one, has it
deleted at the flush; when it finds none, `save` or the second `deleteById` looks again
(`LookAgain`). The query of line 44 flushes: the row is written and locked (`Write`), or
the INSERT meets a row and the UPDATE or DELETE finds none, and the transaction fails
(`Collide`). `List` computes the members with what the transaction sees, `Commit` makes it
visible, `Broadcast` hands the list to the outbound channel after that, and `Draw` is a page
drawing it (`shown`). `WebSockectConfig` asks for no order of either channel, so lists are
drawn in any order whatever the order of their transactions or of their publication. A group that
is no number fails before the flush (`BadGroup`). A restart forgets the frames and keeps
the table: the code has nothing that clears it, and no listener for sessions that end.

`said` and `doubt` are history variables: where the last frame of a user puts him, unless
it overlapped another of his; the groups whose page may show what is out of date: from the
commit of a change until a list is drawn that was read, sent and drawn with no other frame
being handled. `Presence` is refined by mapping `present` to `rows` and
`pending` to the frames that have not committed. `ChatPage` and `ChatServer` meet in the
frames: `told` of the page is what `Say` of the server receives, in order and in time
only if the page's user waits.

### SockJS and Connection

One action per callback and per timer. A transport is a websocket, or one of those that
post with `BufferedSender` ("ajax": xhr-streaming, eventsource, xhr-polling). The model
keeps what the code does by omission: `_open` clears only the timeout of the last
transport (`current`), so those of earlier ones stay in `timers` and act on the transport
then in use; `close()` of a sender aborts a post only if it has started, because the
start is itself on a timer nobody cancels (`StopSender`), so an "orphan" can still reach
the server; an answer that comes after the close starts a wait again (`Answered`).
`RefinesConnection` maps `ending` to closing or closed, `said` and `heard` to the messages
accepted and received.

Left out: frames from the server other than `o` and `c`, the iframe, JSONP and htmlfile
transports, heartbeats, and the arithmetic of the timeouts: any timer may fire at any time.
A websocket is tried first if at all (the order of the list in sockjs.js), which the
assumption on `Transports` says.

### UserGames

`docs` is the collection `userGameInfo`, `rows` the users with a row in PostgreSQL. Each
repository call is a step. A replacement (`insertUserGameInfo`, and `JoinUser` through it)
finds, deletes and saves a document without an id; update and delete find, change the copy
and save it under its id, which brings it back if it has been deleted meanwhile. `JoinUser`
commits its row after MongoDB has been written.

Failures. Nothing in `GameInfoService` or `UserService` is caught. Any call may throw, without
its effect or with it (`ReadThrows`, `DeleteThrows`, `SaveThrows`, `CommitThrows`); a list may hold
what `toEntity` (66) throws on after the old list has been deleted, and a row may be one that
PostgreSQL refuses at the commit (`Defects`); the process may die between any two steps
(`Crash`). What MongoDB has done stays.

History. `clash`: users of whose overlapping requests one was a replacement. `lost`: users of
whom a request deleted the list and failed or died before it saved the new one, until one is
saved. While a request has its user for itself (`alone`), `want` and `before` hold what it
should leave and what it found. `AloneIsExact` compares: an answered request leaves what it
should, a refused one what it found, a failed one either of these or, if it replaces, nothing.
That last case, and a list that stays although its sign-up failed, are what the code does for
want of a transaction over both stores; the property says that they are all it does.

Ids are reused when no document and no request refers to them, as in `GroupService`.

### ProfilePage

Every request of these pages is synchronous, so a click with all it fetches is one action.
`picker` holds the buttons in order, the selected one, the box of answers and
`saveGameInfoList`; `ori` and `alias` hold `oriGameInfoList`, which after a save is the
very array `saveGameInfoList`; `stored` and `account` are the server's. What is easily missed:
`changeGameAttr` saves the box also when the catalogue did not answer (`complete`), which
stores an entry without attributes (`Blank`); the add button is
checked when only the first of the buttons is there.

`intent` is a history variable: the list as the user has seen and changed it; `unseen`
are games whose answers a failed request has kept from the page. `NothingElse` and `AddReady`
are what `SavedIsIntended` and `AddOffered` need to be inductive.

Failures (`Faults`). A request ends with its answer, with an error that has a message, with an
error that is no JSON, or with no answer at all, and one that has not its answer may have been
carried out. The error callbacks read `xhr.responseJSON.msg`: without JSON they throw and the
rest of the callback is skipped, the form is not reset (profileSetting.js 135), and the click
goes on, since the browser only reports an exception of a callback that its load event
runs; with no answer `send` itself throws, jQuery runs the callback within the click, and the
click ends with its exception (no popup at joinCommon.js 289).
`kept` marks the forms that such an answer leaves untouched. Requests without an error
callback succeed or do not. An answer of status 200 that is no JSON is an error to jQuery
and is not told from the others.

### Listings

The four queries, statement by statement, each reading what is committed at that moment,
beside the requests of `GroupService` (`Change`). A query changes nothing, so one reader
that asks again and again stands for any number of them (`QueriesOnlyRead` is the other
half of that: the requests do not notice it). All groups are of the game asked for; groups
of other games are not found by the query at line 46. `busy` is a history variable: the groups
that some request in flight has named since the question. The answer is looked at before
the requests go on, which loses nothing: it does not change any more. Documents come sorted
by their group, several of one group in any order; rows come in any order.

`Sought(g)` says of a group at rest what is true of it while a query walks: it is still to be
looked up, or has an entry that is right, or does not belong into the answer. `QueryInv`
demands that of every group outside `busy`.

Profiles and offers are drawn when the scores are made out: any profile and any offers
are possible then: answers out of `Options` to some of the `Attributes` of the game, and hours.
`Limit` is the 8 of line 163. `Total` sums `AttrScore` over the attributes of the user and adds
`TimeScore`; `Sorted` puts each group at the place that the number of groups ahead of it gives
(a higher total, or the same total and found earlier). `BestFirst` speaks of these totals, for any
hours.

`Fit` is a reference for the totals that counts answers and hours as sets instead of comparing
ends, with the points the code gives for each case. They agree for hours that end on the
day they begin. The words of the comments at 144, 148 and 152 (hours that coincide, the
group's within the user's, some in common) name the cases of `Fit` but one, the user's
within the group's, which gets the 10 points of the first branch (145); and the example at
148 for the branch of 8 points, group 14~17 and user 15~16, is of just that kind: the code
gives it 10 (theorem `CommentedHours`). Past midnight the comparisons and the hours part
altogether: a user of the same evening gets nothing for a group that plays from 21 to 2 (theorem
`NightsMissed`), and one who plays from 22 to 2 gets 10 points for a group that plays from 10
to 18. Nothing in the repository says what they should get.

## 3. Runs

In the `group_` runs group 1 exists with the members given by `Founders`; that is the
database after those users' requests were served. `CHECK_DEADLOCK FALSE` is said where
the system may really stop: in the group instances arrivals may run out (a group that
is gone takes no requests), the sign-up ends when the page is left, a connection is closed.

| run | instance | result |
|---|---|---|
| `group_races` | 2 threads, 3 users, 1 founder, maxima 1 and 2 of which `==` can compare 1, join, update, leave | `LedUnlessOvertaken`, `RoomUnlessOvertaken`, `OneRowUnlessOvertaken`, `LeaderUpdatesUnlessOvertaken`, `RefinesUnlessOvertaken` hold (6.7 M states) |
| `group_members` | 2 threads, 3 users, 2 founders, maximum 3, insert, join, leave, `badDoc`, faults, crashes | `IInv`, `AtMostOneLeader`, `MembersHaveGroup`, `NoCircle`, `HandoverIsAtomic`, `PublishedWithDoc` hold (2.6 M) |
| `group_updates` | 2 threads, 2 users, update, leave, `badDoc` | `NeverWithoutDoc` holds (1.4 M) |
| `group_listings` | 1 thread with all operations and faults, 2 users, 2 groups, 1 asker, all queries, at most 1 recommended | `StoresAgree`, `QueryInv`, `ListTypeOK`, `ShowsWhatIs`, `RefusedInMotion`, `BestFirst` hold (7.2 M); the assumption `ScoreIsFit` compares scores over a grid of profiles |
| `chat_page` | 2 groups, 2 connections at a time, one load of each page in flight | `TypeOK`, `OneGroupPerConnection`, `SaysWhereShown`, `CalmListens`, `CalmPresence`, `IInv` hold (1.0 M) |
| `chat_server` | 2 users, 2 groups, 2 frames or lists in flight | `IInv`, `SettledPresence`, `ListsHeal`, `RefinesPresence` hold (1.3 M) |
| `user_games` | 1 user, 2 games, 2 threads, 5 ids, any call may throw, crashes | `ReadsHold`, `AloneIsExact`, `OneDocument`, `RegisteredHasGames` hold (0.16 M) |
| `profile_page` | 2 games, 1 answer, 3 forms (2 valid), every request may fail | `IInv`, `SavedIsIntended`, `AsksWhenEdited`, `AddOffered` hold (2.5 M) |
| `sockjs` | websocket and two ajax transports, 4 messages | `IInv`, `RefinesConnection`, `Settles`, `NothingStuck` hold (2.5 k) |
| `group_leaderless` | 2 threads, 3 founders, leave | `EveryGroupLed` **violated** |
| `recommends_full` | 3 users, the third asks, maximum 2 | `RecommendsRoom` **violated** |
| `profile_lost_edits` | as `profile_page`, no request fails | `NoticesEdits` **violated** |

Why the bounds are enough. Group service: its hazards involve two requests on one group
and, for a handover, a third member to be left behind; two threads and three users reach
all of them. A third thread adds only more of the same waiting on row locks, and the
safety results are proved for any number. In `group_races` one founder and two more users make
every handover, and the maxima 1 and 2 beside a cache that ends at 1 make each of the ways above
the maximum happen. Listings: a query that overlaps requests of one thread meets every point of
every operation, and several requests in turn; two groups make a list that can be wrong in
one place and right in another, and a limit of 1 cuts it. Chat page: a former group, a next
one and pages that are no group's; three loads can be in flight at once, and with two
connections one can be left behind while the next is used. Which of the closed
connections is used next makes no difference, so one is chosen; deadlock is checked,
since a tab can always be closed. Chat server: two frames of one user collide on the row,
two of two users disturb each other's lists, two lists are drawn in either order, and slots are used again, so histories are
unbounded. User games: users share nothing but ids, two requests
overlap, and five ids are as many as two requests and the documents they leave can refer
to. Profile: one game selected and one not; one answer beside the open one is enough to
tell a list from another. SockJS: three transports let a timeout of the first fire in
each later state; four messages make a batch in flight, one waiting, and one after.
`SYMMETRY` is used in safety runs only.

What the violations mean.

- `group_leaderless`. The leader u1 and the member u2 leave together. u2's request
  reads its own role, 1, before u1's handover to u2 commits; it then leaves as an
  ordinary member, and u3 stays in a group that nobody leads or can change.
- `recommends_full`. `README.md:72` of the repository says that the recommendation selects
  groups below their number of members; `findRcmGroupByGameId` counts the members for the
  answer and filters only by membership (92).
- `profile_lost_edits`. After a save `oriGameInfoList` and `saveGameInfoList` are one array:
  the next edit changes both, the comparison finds no difference, and leaving the step
  loses the edit without a question.

### What the code does not keep, beyond those runs

Each of these is known to happen, and each is the reason for the form of a property that
does hold. Where a definition is named, it stands in its module, and a configuration that
adds it shows the trace.

- `OneRowPerUser`, in `group_races`: two joins of one user look for his row before either
  commits. In the same way two joins count the members before either commits, and pass the
  maximum. `OneRowUnlessOvertaken` and `RoomUnlessOvertaken` say that nothing else does.
- The last member's leave is sent twice: the second finds no row at its flush, and its catch
  block (379-383) restores the document of the group that is gone. From then on the
  recommendation of that game fails for everybody (110). `RefusedInMotion` shows that
  leaves that overlap no other leave, no join and no update of their group never leave such a
  document.
- `StoresAgree`, in `group_listings` with `badRow` among the bodies: the UPDATE that PostgreSQL
  refuses is sent by the commit, after the try block of `updateGroup` (322-328) has been left,
  and MongoDB keeps the new document.
- `NoDuplicates`, in `chat_page`: a second group is chosen before the first page has come.
  Both answers show the group selected now and open a connection; when the first is up its
  `onConnected` subscribes the second, which then subscribes itself. Each message is drawn
  twice. `CalmListens` is what remains for a user who waits.
- `PresentWhileChatting`, in `chat_page`: a click while the connection is opening removes the
  `beforeunload` listener and throws; the chat comes up and JOIN is sent, and closing the
  window sends no LEAVE. `CalmPresence` is what remains.
- In `user_games`, two sign-ups, or two saves of the list from two tabs, both find no document
  and save one each; every later `findByUserId` throws (`OneDocument` says that nothing else leads
  there). A replacement that fails between its deletion and its save leaves the user without
  a list (`RegisteredHasGames` says that nothing else does), and a sign-up that fails at its commit
  leaves a list without its user.
- In `chat_server`, two lists drawn in the opposite order of their transactions: the page shows
  the older until a frame of its group is handled, and its list drawn, alone.

What a hasty user of the chat cannot break is the stronger result: `OneGroupPerConnection`
and `SaysWhereShown` hold for everybody, so a message is never sent to another group than
the one whose title is on the page. They hold for a reason nobody wrote down: every
answer reads the selected entry, sets `header` and `stompClient` together, and shows the
title of the same entry.

### Fairness

The group service has no action that would have to be fair: its property about waiting is
`NoCircle`, that requests never wait for each other's row locks in a circle, and it is one
of safety.

`SockJS` assumes that timers fire (each timeout, the two of `BufferedSender`, that of
`_close`), that the request for the info ends (`InfoReceiver` has a timeout of 8 s), and
that a request under way is answered or fails in the end, as XMLHttpRequest does. It does
not assume that any transport works, that the server ever sends a frame, or that the page
sends or closes.

All other modules are checked for safety and assume no fairness.

## 4. Proofs

### Group service

`GroupServiceProofs` proves, for any finite or infinite sets of users, threads,
identities and maxima, any founders, with or without faults and crashes, from the
named assumptions of `GroupService`:

| theorem | statement |
|---|---|
| `Invariance` | `Spec => []IInv` |
| `TypeCorrect` | `Spec => []TypeOK` |
| `OneLeader` | `Spec => []AtMostOneLeader` |
| `NoOrphanRow` | `Spec => []MembersHaveGroup` |
| `NoDeadlock` | `Spec => []NoCircle` |
| `AtomicHandover` | `Spec => HandoverIsAtomic` |
| `PublishedComplete` | `Spec => PublishedWithDoc` |

The argument. That no group has two leaders is not inductive: it depends on what a
leave in flight has read and locked. `IInv` adds

- `LocalsInOrder`: which operations reach a program point, and with which locals;
- `LocksHeld`: a leave that waits for its own row holds the lock of its heir's, one that has
  flushed those of exactly the rows it changed; the rows exist, and two requests never hold the
  same lock;
- `OneEnd`: nobody is his own heir, who ends a group has none, and a group is ended by one
  request;
- `ReadsStillTrue`: what a leave has read of a row stays true while the row exists (a
  leader's row is only ever deleted, never demoted), and only a leader has an heir;
- `InsertsApart`: the ids of an insert in flight are known to nobody else;
- `DocsApart`: a document a request holds, to write, delete or restore it, belongs to the
  request's own group as long as it exists, so requests on other groups cannot touch it;
- `InsertsUnseen`: the group of an insert has no document before its own, and exactly that
  one when it is committed.

A promotion is committed only by a leave that read role 0 and holds the lock of its own
row; by `ReadsStillTrue` that row is still the leader's, by `AtMostOneLeader` it is the
only one, and it is deleted in the same step. The foreign key gives `MembersHaveGroup`:
a join checks that the group exists, an insert publishes group and row together, and a
group is dropped only when no other row refers to it. `PublishedWithDoc` is what
`InsertsUnseen` says at the commit, whatever other requests do with other groups, fail or
crash.

`NoDeadlock`: whoever waits and keeps somebody waiting either waits for its own row with its
heir's locked, or ends its group. The first kind waits only for one of the second: the row of
a leader is nobody's heir, since a group has one leader and nobody is his own heir
(`OneEnd`). The second kind waits for none that waits: the rows that others are deleting of its
group belong to requests that hold their own row, and those neither wait for it nor end the
same group. So no chain of waiting has more than three links, and none is a circle.

The proof has a lemma per component of the invariant and a step per action under it;
`GroupService`, `GroupProperties` and `GroupRaces` use no RECURSIVE operator so that they can be
proved about.

### Overlapping requests of the group service

`GroupStoresProofs` proves the properties of `GroupRaces`, without a hypothesis on what overlaps,
fails or crashes, on users, threads, maxima, founders or identities:

| theorem | statement |
|---|---|
| `LedUnlessTold` | `RSpec => LedUnlessOvertaken` |
| `RoomUnlessTold` | `RSpec => RoomUnlessOvertaken` |
| `OneRowUnlessTold` | `RSpec => OneRowUnlessOvertaken` |
| `LeaderUpdatesUnlessTold` | `RSpec => LeaderUpdatesUnlessOvertaken` |
| `RefinesUnlessTold` | `RSpec => RefinesUnlessOvertaken` |

The argument. `RaceInv` adds to `IInv` what each request has read and when that stays true
(`AsRead`): the user of a join is not in yet, the group has the maximum that was read, and
its members are not as many (`JoinAsRead`); the user of an update leads (`UpdateAsRead`); the
row of a leave is its user's only one, its role is the one that was read, and nobody can
take over if nobody was found (`LeaveUnlessTold`); each unless the news that would
change it has come. A step leaves alone the rows of every group its own request does not
name (`RowsElsewhere`), so only commits for the same group matter, and `news` records them.
`CommitInsert`, `InsertRow`, `CommitUpdate`, `CommitLeave` and `DropGroup` are the only steps that
change a table (`TableSteps`); for each, either what was read still holds, and it is an
operation by a user it allows, or its news names the exception.

### The two stores of the group service

The same module proves what the two stores keep only while certain requests for one group do
not overlap. The code takes no lock that would enforce that, and without it the statements
are false, so each theorem names the pairs of requests that break its property; all others
overlap freely. All definitions are in `GroupProperties`.

| theorem | hypotheses on constants | statement | invariant |
|---|---|---|---|
| `DocsMended` | `Calm` | `Spec /\ []JoinsMissLeaves => []NeverWithoutDoc` | `Mended` |
| `StoresInStep` | `CommitsSucceed` | `Spec /\ []LeavesApart /\ []UpdatesApart => []StoresAgree` | `DocsInStep` |

What the hypotheses say, and what happens without them.

- `JoinsMissLeaves`: nobody joins a group while somebody leaves it. A member who joins between
  the removal of the document (`PurgeDoc`) and the DELETE of the group makes that DELETE fail
  on the foreign key, outside of any catch block.
- `LeavesApart`: in addition no two leaves of a group overlap. Of two by the last member one
  restores the document of the group that the other removes.
- `UpdatesApart`: an update overlaps neither another update nor a leave. Two updates may save a
  document each; a last leave may remove group and document before an update of the same
  user saves a new one.
- `Calm`: no call fails, nothing crashes. A leave that has found no document, since an update
  was about to save one, and whose own removal takes effect and throws, has nothing to
  restore in its catch block (379-383), and the group stays without.
- `CommitsSucceed`: no commit and no compensation fails, and PostgreSQL refuses no row; but
  any call of MongoDB inside a try block may throw, with or without effect.

`LeavesApart` and `UpdatesApart` hold when there is one thread, which is the instance in which
`group_listings` checks `StoresAgree`; `group_updates` has two threads, no joins and no
faults, which is an instance of `JoinsMissLeaves` and `Calm`.

The arguments. `Places` says, of any requests whatever, where each operation can be and that
the row a leave has read is its own user's (`InPlace`). A step leaves alone the rows
(`RowsElsewhere`) and, by `DocsApart`, the documents (`DocsElsewhere`) of every group that its own
request does not name. Then

- `Mended`: whenever a group has no document, some request is about to save one, or to drop the
  group. `MendsInOrder` carries what that request must have read to be sure to do it.
- `DocsInStep`: `DocsAsRead` follows the documents of the group of an update or a leave through
  the try block and the catch block; `Agrees` says of every group that only joins name, or
  nobody, that it has just the document of its row. Joins touch neither documents nor rows of
  groups (`JoinsElsewhere`), which is why they may overlap an update.
- `FirstRows` and `LedGroups`, of members and leaders, hold under `UsersJoinOnce` and `LeavesApart`; the
  theorems about the queries use them.

### Chat page

`ChatPageProofs` proves, for any set of groups, any set of connections and any number of
page loads in flight, from `ConstantsAssumption` (the names of pages are no ids of groups,
null is no connection, `MaxLoads` is positive):

| theorem | statement |
|---|---|
| `Invariance` | `Spec => []IInv` |
| `TypeCorrect` | `Spec => []TypeOK` |
| `OneGroup` | `Spec => []OneGroupPerConnection` |
| `TypedWhereShown` | `Spec => []SaysWhereShown` |
| `HeardOnce` | `Spec => []CalmListens` |
| `PresentWhereShown` | `Spec => []CalmPresence` |

The argument has two halves. Whatever the user does, `header` and `stompClient` change
only together, in `GroupAnswered`, and a connection that ended has no subscription
(`EndedIsQuiet`): so a subscription is always made on the connection whose group is the
header's. For a user who is not hasty, `OneWait` says that at most one thing is awaited,
and `OnlyCurrent` that the only live connection is the page's, that `destroy` can still
remove its listener, and that it has exactly the one subscription when it is up. A click
that is not hasty therefore finds no connection that is opening, and `disconnect` in it
ends the only one: the next page starts without any. `CalmListens` follows from the
invariant and is no part of it.

### Presence server

`ChatServerProofs` proves, for any users, groups and number of frames in flight, from
`NamesAssumption` (the ids of nobody, nowhere and undefined are no ids of groups):

| theorem | statement |
|---|---|
| `Invariance` | `Spec => []IInv` |
| `PresenceSettles` | `Spec => []SettledPresence` |
| `ListsTrue` | `Spec => []ListsHeal` |
| `Refinement` | `Spec => RefinesPresence` |

The argument. That the table says what the last frame said is not inductive: between its
arrival and its commit a frame has read a row it will write later. `OneFrame` says that as
long as a user has one frame, what it plans suits his row as it is now (`Suits`): nobody
else writes that row, because rows are written only by frames of their user. `AloneKnows`
says the same of lists: a frame that has been alone so far has the list of the table as it will
be when it commits, and as it is from then until another frame is handled; drawn by
then, it puts the page right, and a list drawn later puts the group in `doubt` again. The refinement uses the type invariant and `WellFormed` only:
`rows` changes in `Commit` alone, and there by exactly what the frame asks.

### Chat transport

`SockJSProofs` proves, for any list of transports and any number of messages:

| theorem | statement |
|---|---|
| `Invariance` | `Spec => []IInv` |
| `Refinement` | `Spec => RefinesConnection` |

The argument. `Ended` counts what can still close the connection: the timer of `_close` is
there exactly while it is closing, so the close event comes once, last, though timeouts of
transports given up long ago fire in any state. `Apart` keeps the buffers of the transport
that is not in use empty: only a connection that is up holds messages, and a websocket
holds none in `BufferedSender`. `SenderInOrder` says what a sender waits for. `Way`, the
messages arrived, posted, in the socket and in the buffer, is then always the numbers from
1 on (`Underway`); each step moves messages along it, cuts its end, or appends the one that
is sent. The refinement follows from `Ended` and from `arrived` being a beginning of `Way`.

### Games of a user

`UserGamesProofs` proves, for any users, games, ids and number of requests at once, whichever
calls throw and whenever the process dies:

| theorem | statement |
|---|---|
| `ReadsKept` | `Spec => []ReadsHold` |
| `AtMostOneDocument` | `Spec => []OneDocument` |
| `SignedUpHaveGames` | `Spec => []RegisteredHasGames` |
| `AloneExact` | `Spec => []AloneIsExact` |

The argument. `Steady` is what a request relies on after it has read: who replaces a list
has its user for itself, and deletes and saves what it has found; who edits still finds the
document it has read. Only a request that replaces can disturb that, and then the user is
in `clash`. A call that throws only ends its request, with the effect a step of it could have
had. `IdsInv` keeps the requests of different users apart: nobody remembers the id of
another's document, so the save that brings a deleted document back (`SaveId`) hits no
other. `CommitHasGames` says that a sign-up that is about to commit has saved its list, or is
overlapped by a replacement that has deleted it and is about to save its own, or has
failed. `AloneKnows` follows a request that is not overlapped from its arrival to its end,
whatever requests before it have left behind.

### Sign-up and profile

`ProfilePageProofs` proves, for any finite catalogue, any answers, any forms and any
requests that fail:

| theorem | statement |
|---|---|
| `Invariance` | `Spec => []IInv` |
| `SavesWhatWasChosen` | `Spec => []SavedIsIntended` |
| `AsksJustWhenEdited` | `Spec => []AsksWhenEdited` |
| `OffersTheOthers` | `Spec => []AddOffered` |

The argument. The actions are made of three things done to a picker: the box is stored
(`Change`), a button is clicked (`Click`), a game is dropped (`Drop`). Each has a lemma that
says what is in order after it and how what is stored follows what the user has in mind;
the actions put those together. `NothingElse` is needed since an entry without attributes
stands for answers that nobody has seen. `AddReady` is `AddOffered` without its conditions
on step and popup: the button that adds a game is checked at moments when the condition
does not hold yet. That two lists are found equal just when they are (`Compared`) is
proved from the comparison's two parts: the same number of games, and each entry of the
one in the other.

### Listings

`ListingsProofs` proves

| theorem | hypotheses | statement |
|---|---|---|
| `QueriesOnlyRead` | | `ListSpec => Spec` |
| `QueriesTyped` | | `ListSpec => []ListTypeOK` |
| `HoursScored` | hours end on the day they begin | `TimeScore(u, g) = Together(u, g)` |
| `TotalIsFit` | the same | `Total(u, g) = Fit(u, g)` |
| `NightsMissed` | the group plays past midnight, the user on the same evening | `TimeScore(u, g) = 0` |
| `CommentedHours` | group 14 to 17, user 15 to 16 | `TimeScore(u, g) = 10` |
| `RecommendsBest` | | `ListSpec => []BestFirst` |
| `QueryInvariance` | `CommitsSucceed` | `ListSpec /\ []SeldomOverlap => []QueryInv` |
| `RefusesOnlyInMotion` | `CommitsSucceed` | `ListSpec /\ []SeldomOverlap => []RefusedInMotion` |
| `ShowsTheGroups` | `CommitsSucceed` | `ListSpec /\ []SeldomOverlap => []ShowsWhatIs` |

`QueriesOnlyRead` makes every theorem about the group service one about the service beside
any queries. The others have three arguments.

*What a query needs at each step.* `WalkInv` is `ListTypeOK` with `NewestFirst`: what was found
comes the newest group first, because the stream is sorted by ids and looked up in order. Of
the requests it uses only `IInv`, and that documents and rows are finitely many, so it holds
whatever overlaps, fails or crashes.

*The ranking.* `HoursScored`: the four comparisons of hours at 140-155, tried in their order,
tell exactly whether the hours of user and group contain each other, meet or miss. `TotalIsFit`
adds the attributes. The sum over a set is a fold, and the provers cannot use the library's
induction theorems; `FoldGathers` takes, by well-foundedness of finite sets, a smallest set on
which the sum is not what it should be, and removes one element from it. That `Total` is a
natural number at all (`TotalNat`) comes the same way. For `RecommendsBest`, `PlacesTaken` says that the places of the groups are the numbers from 1 on,
each taken once and a better group's the lower; so the answer has at each place the one group
of that place, and a group that is not in it is behind all that are.

*Answers as things are.* A query may rely on what is proved of the requests in
`GroupStoresProofs`: a group that no update or leave names agrees in both stores (`DocsInStep`)
and nobody is in it twice (`OneRowPerUser`); and a step changes only the group its request names
(`AtRest`). So the documents name each group at rest once, no `Optional` query of such a group
throws, and what was read of it stays so. `QueryInv` has a lemma for every step of the
query and one for the steps of the requests, which move groups from the first kind to
`busy`. `SeldomOverlap` is `UsersJoinOnce /\ LeavesApart /\ UpdatesApart`. Without it the three are
false: two updates leave two documents, and their group is listed twice; a document that
survives its group makes every recommendation of its game fail, with no request in flight.

### Only model-checked

- Liveness is beyond the proof system: `Settles`, `NothingStuck`.
- Every other property of the passing runs is stated by a theorem; those of the documents
  (`NeverWithoutDoc`, `StoresAgree` and the three of the queries that rest on it) under a hypothesis
  about overlapping requests that the run meets by having one thread, or no joins.

## 5. Plan

1. Done: the group service, its promise, its proofs; the queries beside it.
2. Done: the chat: page, server, transport, with their proofs.
3. Done: the games of a user, sign-up and profile, with their proofs.
4. Done: what overlapping requests for one group can break, and by which request, for members,
   leaders, limits and rights. What could follow is the same for the documents, whose theorems
   still exclude overlaps.
5. Models that could still be added: the popup of a group (`groupView.js`: which group a
   late click joins), and `ChatPage` over `SockJS` instead of over the five facts it uses of
   it (send throws while connecting, sends while open, drops later, opens once, ends).

## 6. Not modelled

- OAuth, session, roles. `loadUser` reads the user's row once and puts two roles into the
  session; what they decide is which page opens after the login. The exchange with the
  providers and the session store are Spring's.
- Catalogue of games and error handling: no state of their own, and no failure of theirs
  that the models do not already have as a request that fails.
- Pages, forms, templates: `group.js`, `groupView.js`, `groupNew.js` and `util.js` build HTML
  from answers and forms from fields, with synchronous requests; what the forms can send
  bounds the inputs of the models. The parts of `group.js` that take part in a race
  (`joinGroup`, the menu) are in `ChatPage`.
- Vendored libraries. `jquery-ui.js` (18 700 lines) is loaded by the layout and never
  called. The others are minified. Of `sockjs.js` the parts above are modelled; the rest
  is parsing of URLs, JSON and random ids, events, and transports for browsers
  without XMLHttpRequest.
- The pool of 4 connections: what holds a connection beyond a transaction is decided by
  Spring's open session in view and its session store; no faithful model of it can be
  read off the sources here.
