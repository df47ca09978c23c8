---------------------------- MODULE ProfilePage -----------------------------
(***************************************************************************)
(* The two pages on which users describe themselves: the sign-up (join.js) *)
(* and the profile (profileSetting.js), both over joinCommon.js.  Step 1   *)
(* is the form of the profile, step 2 the list of the user's games: a      *)
(* button for each, and a box with the answers for the selected one.       *)
(*                                                                         *)
(* Every request of these pages is synchronous (async: false), so a click  *)
(* with all it fetches and sends is one action.  What makes the code hard  *)
(* is that the same thing is kept in several places: the buttons, the box, *)
(* saveGameInfoList, oriGameInfoList, the server; and that any of the      *)
(* requests of a click may fail while the others succeed.                  *)
(*                                                                         *)
(* The answers for a game are one value.  The order of saveGameInfoList    *)
(* matters to nobody; that of the buttons decides which is first.          *)
(*                                                                         *)
(* The error callbacks alert xhr.responseJSON.msg.  When the answer is no  *)
(* JSON ("page") they throw, and the rest of the callback is skipped; when *)
(* there is no answer ("cut") send throws within the click, and jQuery     *)
(* lets the exception of the callback end the click.                       *)
(***************************************************************************)
EXTENDS Naturals, Sequences, SequencesExt

CONSTANTS
  Games,     \* the catalogue
  Answers,   \* what a user may choose for a game
  NoAnswer,  \* all left open
  Blank,     \* info: {}, an entry without attributes
  Absent,    \* not in the list, or no button
  Empty,     \* nothing in the box
  Forms,     \* what the form may hold
  Valid,     \* the forms that validation accepts
  Unknown,   \* no profile has been read
  Faults     \* requests that may fail: "games" (the catalogue), "game" (one
             \* game of it), "list" and "item" (the user's), "user", "save"

ASSUME ConstantsAssumption ==
  /\ Valid \subseteq Forms /\ Unknown \notin Forms
  /\ IsFiniteSet(Games) /\ Absent \notin Games
  /\ Answers \cap {NoAnswer, Blank, Absent, Empty} = {}
  /\ IsInjective(<<NoAnswer, Blank, Absent, Empty>>)

Infos == Answers \cup {NoAnswer, Blank}
Lists == [Games -> Infos \cup {Absent}]
NoList == [g \in Games |-> Absent]
GamesIn(list) == {g \in Games : list[g] # Absent}

VARIABLES
  page,      \* "join", "profile", or "left" when the sign-up is done
  step,      \* the step shown
  form,      \* the fields of step 1
  userInfo,  \* the profile as last read
  picker,    \* step 2: buttons, selected, box and saveGameInfoList (saved)
  ori,       \* oriGameInfoList, while it is a list of its own
  alias,     \* oriGameInfoList is the very array saveGameInfoList
  popup,     \* the popup of games is open; it covers the page
  catalog,   \* gameInfoList has been read
  addable,   \* the button that opens the popup is shown
  kept,      \* history: the save on the way to step 2 was answered by no JSON
  account,   \* server: the user's profile
  stored,    \* server: the user's games
  intent,    \* history: the list as the user has seen and changed it
  unseen     \* history: games whose answers here are not those of intent,
             \* since a request for them has failed

formVars == <<form, userInfo, kept, account>>
popupVars == <<popup, catalog, addable>>
listVars == <<ori, alias>>
vars == <<page, step, formVars, picker, popupVars, listVars, stored, intent, unseen>>

NoPicker == [buttons |-> <<>>, selected |-> Absent, box |-> Empty, saved |-> NoList]

\* Whether a request of one kind succeeds, when the code has no callback for the
\* error.
Succeeds(fault) == IF fault \in Faults THEN BOOLEAN ELSE {TRUE}
\* How it may end when the code has one: with the answer, an error with a
\* message, one without, no answer.
Ends(fault) ==
  {"ok"} \cup IF fault \in Faults THEN {"told", "page", "cut"} ELSE {}
\* Whether the server has carried out what it was asked.
Carried(end) == IF end = "ok" THEN {TRUE} ELSE BOOLEAN

-----------------------------------------------------------------------------
(* The picker of games (joinCommon.js). *)

\* saveGameAttr stores what the box holds under the selected game.
SaveGameAttr(p) ==
  [p EXCEPT !.saved[p.selected] = IF p.box = Empty THEN Blank ELSE p.box]

\* The answers of the old game are saved, the new one selected and, when the
\* catalogue answers, its box built; whatever the box is then is saved.
ChangeGameAttr(p, g, ok) ==
  LET old == IF p.box = Empty THEN p ELSE SaveGameAttr(p) IN
  SaveGameAttr([old EXCEPT !.selected = g,
    !.box = IF ~ok THEN Empty
            ELSE IF old.saved[g] \in Answers THEN old.saved[g] ELSE NoAnswer])

\* A click on the first button.
ClickFirst(p, ok) ==
  IF p.buttons = <<>> \/ Head(p.buttons) = p.selected THEN p
  ELSE ChangeGameAttr(p, Head(p.buttons), ok)

\* Variant: the entry stays in the list.
RemoveButton(p, g, ok) ==
  LET left == [p EXCEPT !.buttons = RemoveFirst(p.buttons, g)] IN
  IF g # p.selected THEN left
  ELSE ClickFirst([left EXCEPT !.selected = Absent, !.box = Empty], ok)

\* deleteGameInfo: the entry and the button go; a button's id is the game's, so
\* the first with that id is the only one.
RemoveGame(p, g, ok) ==
  LET left == [p EXCEPT !.saved[g] = Absent, !.buttons = RemoveFirst(p.buttons, g)] IN
  IF g # p.selected THEN left
  ELSE ClickFirst([left EXCEPT !.selected = Absent, !.box = Empty], ok)

\* Variant: checked before the button is there.
MoreThanNext(buttons) == Len(buttons) + 1 # (IF catalog THEN Cardinality(Games) ELSE 0)

\* openGameInfoPopupCheck
MoreThan(buttons) == Len(buttons) # (IF catalog THEN Cardinality(Games) ELSE 0)

\* openGameInfoPopup reads the catalogue if it has not been.
OpenPopup ==
  \E end \in IF catalog THEN {"ok"} ELSE Ends("games") :
    /\ catalog' = (end = "ok")
    /\ popup' = (popup \/ end # "cut")

\* Which of these games a failed request has kept the page from showing.
Missed(games, ok) == IF ok THEN {} ELSE games

-----------------------------------------------------------------------------
\* What earlier visits may have saved.
Sent == [Games -> Answers \cup {NoAnswer, Absent}
                    \cup IF "game" \in Faults THEN {Blank} ELSE {}]

\* A page as it is loaded, with the user the server knows.  initJoinCommon reads
\* the catalogue before initProfileSetting the user.
Init ==
  /\ page \in {"join", "profile"} /\ step = 1
  /\ IF page = "join" THEN stored = NoList /\ account = Unknown
                      ELSE stored \in Sent /\ account \in Valid
  /\ \E end \in Ends("games"), ok \in Succeeds("user") :
       /\ catalog = (end = "ok")
       /\ userInfo = IF page = "profile" /\ end # "cut" /\ ok THEN account ELSE Unknown
  /\ form \in IF userInfo = Unknown THEN Forms \ Valid ELSE {userInfo}
  /\ picker = NoPicker /\ ori = NoList /\ alias = FALSE
  /\ popup = FALSE /\ addable = TRUE /\ kept = FALSE
  /\ intent = NoList /\ unseen = {}

\* The popup covers everything else.
Clickable(s) == page # "left" /\ step = s /\ ~popup

Type(f) ==
  /\ Clickable(1) /\ f # form
  /\ form' = f
  /\ UNCHANGED <<page, step, userInfo, kept, account, picker, popupVars, listVars, stored,
                 intent, unseen>>

\* The buttons of the games, the selects in the box and the popup are those of
\* step 2.
SelectGame(g) ==
  /\ Clickable(2) /\ Contains(picker.buttons, g) /\ g # picker.selected
  /\ \E ok \in Succeeds("game") :
       /\ picker' = ChangeGameAttr(picker, g, ok)
       /\ unseen' = unseen \cup Missed({g}, ok)
  /\ UNCHANGED <<page, step, formVars, popupVars, listVars, stored, intent>>

Answer(a) ==
  /\ Clickable(2) /\ picker.box # Empty /\ a # picker.box
  /\ picker' = SaveGameAttr([picker EXCEPT !.box = a])
  /\ intent' = [intent EXCEPT ![picker.selected] = a]
  /\ unseen' = unseen \ {picker.selected}
  /\ UNCHANGED <<page, step, formVars, popupVars, listVars, stored>>

\* The last game removed opens the popup.
DeleteGameInfo(g) ==
  /\ Clickable(2) /\ Contains(picker.buttons, g)
  /\ \E ok \in Succeeds("game") :
       /\ picker' = RemoveGame(picker, g, ok)
       /\ unseen' = (unseen \ {g})
            \cup IF g = picker.selected THEN Missed({picker'.selected} \ {Absent}, ok) ELSE {}
  /\ addable' = MoreThan(picker'.buttons)
  /\ IF picker'.buttons = <<>> THEN OpenPopup ELSE UNCHANGED <<popup, catalog>>
  /\ intent' = [intent EXCEPT ![g] = Absent]
  /\ UNCHANGED <<page, step, formVars, listVars, stored>>

OpenGameInfoPopup ==
  /\ Clickable(2) /\ addable
  /\ OpenPopup
  /\ UNCHANGED <<page, step, formVars, picker, addable, listVars, stored, intent, unseen>>

CloseGameInfoPopup ==
  /\ popup
  /\ popup' = FALSE
  /\ UNCHANGED <<page, step, formVars, picker, catalog, addable, listVars, stored, intent, unseen>>

\* The popup offers the games that have no button.
AddPopupGameInfo(g) ==
  /\ popup /\ catalog /\ ~Contains(picker.buttons, g)
  /\ \E ok \in Succeeds("game") :
       /\ picker' = ChangeGameAttr([picker EXCEPT !.buttons = Append(@, g)], g, ok)
       /\ unseen' = (unseen \ {g}) \cup Missed({g}, ok)
  /\ addable' = MoreThan(picker'.buttons) /\ popup' = FALSE
  /\ intent' = [intent EXCEPT ![g] = NoAnswer]
  /\ UNCHANGED <<page, step, formVars, catalog, listVars, stored>>

-----------------------------------------------------------------------------
(* The sign-up (join.js). *)

JoinStep(s) ==
  /\ page = "join" /\ Clickable(3 - s)
  /\ s = 2 => form \in Valid
  /\ step' = s
  /\ IF s = 2 /\ picker.buttons = <<>> THEN OpenPopup ELSE UNCHANGED <<popup, catalog>>
  /\ UNCHANGED <<page, formVars, picker, addable, listVars, stored, intent, unseen>>

\* The server refuses who has signed up, and may have saved the games of a
\* sign-up that fails.
UserInfoSave ==
  /\ page = "join" /\ Clickable(2) /\ picker.saved # NoList
  /\ \/ /\ account = Unknown
        /\ page' = "left" /\ account' = form /\ stored' = picker.saved
     \/ /\ account # Unknown \/ "save" \in Faults
        /\ UNCHANGED <<page, account, stored>>
     \/ /\ account = Unknown /\ "save" \in Faults
        /\ stored' = picker.saved /\ account' \in {Unknown, form}
        /\ page' = page
  /\ UNCHANGED <<step, form, userInfo, kept, picker, popupVars, listVars, intent, unseen>>

-----------------------------------------------------------------------------
(* The profile (profileSetting.js). *)

Ori == IF alias THEN picker.saved ELSE ori

\* Variant: answers are not compared.
CompareGames(old, new) == GamesIn(old) # GamesIn(new)

\* compareGameInfoLists looks only at the attributes the original entry has.
CompareGameInfoLists(old, new) ==
  \/ Cardinality(GamesIn(old)) # Cardinality(GamesIn(new))
  \/ \E g \in GamesIn(old) : new[g] = Absent \/ (old[g] # Blank /\ old[g] # new[g])

\* sendUserInfo.  Without a profile read it sends {}, which the server refuses.
\* The error callback of 132-137 takes the form back after its message.
SendUserInfo(end, reset) ==
  LET ok == end = "ok" /\ userInfo # Unknown IN
  /\ \E carried \in Carried(end) :
       account' = IF carried /\ userInfo # Unknown THEN form ELSE account
  /\ userInfo' = IF ok THEN form ELSE userInfo
  /\ form' = IF reset /\ end = "told" /\ userInfo # Unknown THEN userInfo ELSE form
  /\ kept' = (reset /\ end = "page")

\* saveUserInfo(false)
SaveUserInfo ==
  /\ page = "profile" /\ Clickable(1) /\ form \in Valid
  /\ \E end \in Ends("save") : SendUserInfo(end, FALSE)
  /\ UNCHANGED <<page, step, picker, popupVars, listVars, stored, intent, unseen>>

\* saveUserInfo(true) asks, when the form is not the profile.
Edited == form # userInfo /\ userInfo # Unknown

\* Variant: the form stays as typed.
KeepForm == UNCHANGED formVars

\* Not asked, or not to be saved: the form is taken back.
ResetForm ==
  /\ form' = IF userInfo = Unknown THEN form ELSE userInfo
  /\ kept' = FALSE
  /\ UNCHANGED <<userInfo, account>>

\* getGameInfoUser.  The answers of the first game are selected, and the add
\* button checked, before the other buttons are there.
GetGameInfoUser ==
  \E order \in SetToSeqs(GamesIn(stored)), ok \in Succeeds("game"),
     failed \in IF "item" \in Faults THEN SUBSET GamesIn(stored) ELSE {{}} :
    LET read == [g \in Games |-> IF g \in failed THEN Absent ELSE stored[g]]
        all == [NoPicker EXCEPT !.buttons = order, !.saved = read]
        first == IF order = <<>> THEN <<>> ELSE <<Head(order)>> IN
    /\ ori' = read /\ intent' = stored
    /\ picker' = ClickFirst(all, ok)
    /\ addable' = IF order = <<>> THEN addable ELSE MoreThan(first)
    /\ unseen' = failed \cup {g \in Games : stored[g] = Blank}
                   \cup Missed(ToSet(first), ok)

\* The list is not read: the old one is gone, and the step changes all the same,
\* unless there is no answer.
GetNothing ==
  /\ \E end \in Ends("list") \ {"ok"} : step' = IF end = "cut" THEN step ELSE 2
  /\ ori' = NoList /\ intent' = NoList /\ picker' = NoPicker /\ unseen' = Games
  /\ UNCHANGED addable

\* changeStep(2)
ShowGames ==
  /\ page = "profile" /\ Clickable(1) /\ form \in Valid
  /\ \/ ResetForm
     \/ Edited /\ \E end \in Ends("save") \ {"cut"} : SendUserInfo(end, TRUE)
  /\ (GetGameInfoUser /\ step' = 2) \/ GetNothing
  /\ alias' = FALSE
  /\ UNCHANGED <<page, popup, catalog, stored>>

\* The save is not answered: the click ends there.
StayInForm ==
  /\ page = "profile" /\ Clickable(1) /\ form \in Valid
  /\ Edited /\ "save" \in Faults /\ SendUserInfo("cut", TRUE)
  /\ UNCHANGED <<page, step, picker, popupVars, listVars, stored, intent, unseen>>

\* saveUserGameInfo, when the list is not empty.  From here on
\* oriGameInfoList is the array that the next edits change.
SendGames(end) ==
  \E carried \in Carried(end), ok \in Succeeds("game") :
    /\ stored' = IF carried THEN picker.saved ELSE stored
    /\ alias' = (alias \/ end = "ok")
    /\ picker' = IF end = "ok" THEN ClickFirst(picker, ok) ELSE picker
    /\ unseen' = IF picker' = picker THEN unseen
                 ELSE unseen \cup Missed({picker'.selected}, ok)
    /\ UNCHANGED <<ori, intent>>

SaveUserGameInfo ==
  /\ page = "profile" /\ Clickable(2) /\ picker.saved # NoList
  /\ \E end \in Ends("save") : SendGames(end)
  /\ UNCHANGED <<page, step, formVars, popupVars>>

\* changeStep(1) asks whether to save what it takes to be changed; it stays
\* when there is nothing to save or the save is not answered, and leaves when
\* it fails otherwise.
LeaveGames ==
  /\ page = "profile" /\ Clickable(2)
  /\ \/ step' = 1 /\ UNCHANGED <<picker, listVars, stored, intent, unseen>>
     \/ /\ CompareGameInfoLists(Ori, picker.saved) /\ picker.saved # NoList
        /\ \E end \in Ends("save") :
             SendGames(end) /\ step' = IF end = "cut" THEN step ELSE 1
  /\ UNCHANGED <<page, formVars, popupVars>>

Next ==
  \/ \E f \in Forms : Type(f)
  \/ \E g \in Games : SelectGame(g) \/ DeleteGameInfo(g) \/ AddPopupGameInfo(g)
  \/ \E a \in Answers \cup {NoAnswer} : Answer(a)
  \/ OpenGameInfoPopup \/ CloseGameInfoPopup
  \/ \E s \in {1, 2} : JoinStep(s)
  \/ UserInfoSave
  \/ SaveUserInfo \/ ShowGames \/ StayInForm \/ SaveUserGameInfo \/ LeaveGames

Spec == Init /\ [][Next]_vars

-----------------------------------------------------------------------------
(* Properties. *)

TypeOK ==
  /\ page \in {"join", "profile", "left"} /\ step \in {1, 2}
  /\ form \in Forms /\ userInfo \in Valid \cup {Unknown} /\ account \in Valid \cup {Unknown}
  /\ picker \in [buttons : Seq(Games), selected : Games \cup {Absent},
                  box : Answers \cup {NoAnswer, Empty}, saved : Lists]
  /\ ori \in Lists /\ stored \in Lists /\ intent \in Lists
  /\ unseen \subseteq Games
  /\ \A b \in {alias, popup, catalog, addable, kept} : b \in BOOLEAN

\* joinCommon.js:115-266: no game has two buttons, one of the buttons is
\* selected, and the box is the one of that game, with the answers saved for it.
PickerOK ==
  LET p == picker IN
  /\ IsInjective(p.buttons)
  /\ p.selected = Absent <=> p.buttons = <<>>
  /\ p.buttons # <<>> => Contains(p.buttons, p.selected)
  /\ p.selected = Absent => p.box = Empty
  /\ p.selected # Absent => p.saved[p.selected] = IF p.box = Empty THEN Blank ELSE p.box

\* changeStep (profileSetting.js:26-56, join.js:16-33): behind the first step
\* there is no form that is not valid, nor one that is neither saved nor taken
\* back; but when its save was answered by an error that is no JSON.
FormSettled ==
  step = 2 =>
    /\ form \in Valid
    /\ page = "profile" => form = userInfo \/ userInfo = Unknown \/ kept

IInv == TypeOK /\ PickerOK /\ FormSettled

\* joinCommon.js:161-266: what would be sent for a game is what its user has
\* seen and chosen, and a game has a button just then; but for games whose
\* answers a failed request has kept from the page.
SavedIsIntended ==
  /\ ToSet(picker.buttons) = GamesIn(intent)
  /\ \A g \in Games \ unseen : picker.saved[g] = intent[g]

\* What it rests on: nothing is kept for a game without a button, and an entry
\* without attributes stands for answers that have not been seen.
NothingElse ==
  /\ GamesIn(picker.saved) \subseteq GamesIn(intent)
  /\ \A g \in Games : intent[g] = Blank => g \in unseen

\* profileSetting.js:33-41 and 58-82: until the list has been saved on this
\* page, its user is asked to save it exactly when it is not what the server
\* has; provided the original list is the server's, which it is not when a
\* request has failed, and has no entry without attributes, where the
\* comparison looks at nothing.
AsksWhenEdited ==
  /\ page = "profile" /\ step = 2 /\ ~alias
  /\ unseen = {} /\ \A g \in Games : ori[g] = stored[g] /\ ori[g] # Blank
  => (CompareGameInfoLists(Ori, picker.saved) <=> intent # stored)

\* profileSetting.js:58, "check whether the games have changed": the comparison
\* notices every change that is not saved.
NoticesEdits ==
  page = "profile" /\ step = 2 /\ unseen = {} /\ intent # stored =>
    CompareGameInfoLists(Ori, picker.saved)

\* joinCommon.js:270-276 and profileSetting.js:182-186: a user who has some of
\* the games is offered the others.
AddOffered ==
  step = 2 /\ ~popup /\ picker.buttons # <<>> /\ ToSet(picker.buttons) # Games => addable

\* So it is behind the popup and in the first step.
AddReady == picker.buttons # <<>> /\ ToSet(picker.buttons) # Games => addable
=============================================================================
