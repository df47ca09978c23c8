-------------------------- MODULE ProfilePageProofs --------------------------
(***************************************************************************)
(* Proofs about ProfilePage for every catalogue, all answers and forms,    *)
(* and any set of requests that may fail.                                  *)
(*                                                                         *)
(* A click changes the picker by one of three helpers, and each of them    *)
(* stores what the box holds before and after.  The proofs follow them:    *)
(* what a helper makes of a picker (Change, Click, Drop), that the       *)
(* result is in order (Fine), and that its list follows the one the user   *)
(* has in mind (Follows).  A picker is carried through a proof as a        *)
(* constant p or q, never as an expression over the state.                 *)
(***************************************************************************)
EXTENDS ProfilePage, FiniteSetTheorems, SequenceTheorems, TLAPS

Pickers == [buttons : Seq(Games), selected : Games \cup {Absent},
            box : Answers \cup {NoAnswer, Empty}, saved : Lists]

\* What is stored for a box, and the box that is built for a game.
Kept(box) == IF box = Empty THEN Blank ELSE box
Shown(saved, g, ok) ==
  IF ~ok THEN Empty ELSE IF saved[g] \in Answers THEN saved[g] ELSE NoAnswer

\* What PickerOK says of one picker; Boxed is the part that holds in the
\* middle of a click.
Boxed(p) == p.box # Empty => p.selected \in Games /\ p.saved[p.selected] = p.box
Fine(p) ==
  /\ IsInjective(p.buttons)
  /\ p.selected = Absent <=> p.buttons = <<>>
  /\ p.buttons # <<>> => Contains(p.buttons, p.selected)
  /\ p.selected = Absent => p.box = Empty
  /\ p.selected # Absent => p.saved[p.selected] = Kept(p.box)

\* The list follows the one intended, but for these games.
Follows(saved, wanted, games) ==
  /\ \A g \in Games \ games : saved[g] = wanted[g]
  /\ GamesIn(saved) \subseteq GamesIn(wanted)
  /\ \A g \in Games : wanted[g] = Blank => g \in games

-----------------------------------------------------------------------------
(* The constants and sequences of buttons. *)

\* The values that are no answers differ from one another.
LEMMA Distinct ==
  /\ NoAnswer # Blank /\ NoAnswer # Absent /\ NoAnswer # Empty
  /\ Blank # Absent /\ Blank # Empty /\ Absent # Empty
  /\ NoAnswer \notin Answers /\ Blank \notin Answers
  /\ Absent \notin Answers /\ Empty \notin Answers
  /\ Absent \notin Games /\ IsFiniteSet(Games)
<1> DEFINE t == <<NoAnswer, Blank, Absent, Empty>>
<1>1. \A i, j \in 1..4 : t[i] = t[j] => i = j
  BY ConstantsAssumption DEF IsInjective
<1>2. t[1] # t[2] /\ t[1] # t[3] /\ t[1] # t[4] /\ t[2] # t[3] /\ t[2] # t[4] /\ t[3] # t[4]
  <2>1. {1, 2, 3, 4} \subseteq 1..4
    OBVIOUS
  <2> HIDE DEF t
  <2> QED
    BY <1>1, <2>1
<1> QED
  BY <1>2, ConstantsAssumption

\* A sequence contains what is in its range.
LEMMA ContainsToSet ==
  ASSUME NEW S, NEW s \in Seq(S), NEW e
  PROVE  Contains(s, e) <=> e \in ToSet(s)
BY DEF Contains, ToSet

\* The range of a sequence over a set, and the first of it.
LEMMA ToSetFacts ==
  ASSUME NEW S, NEW s \in Seq(S)
  PROVE  /\ ToSet(s) \subseteq S
         /\ ToSet(s) = {} <=> s = <<>>
         /\ s # <<>> => Head(s) \in ToSet(s) /\ Head(s) \in S
<1>1. DOMAIN s = 1..Len(s) /\ Len(s) \in Nat /\ \A i \in 1..Len(s) : s[i] \in S
  BY LenProperties, ElementOfSeq
<1>2. s # <<>> => 1 \in 1..Len(s) /\ Head(s) = s[1]
  BY <1>1, EmptySeq, HeadTailProperties
<1>3. s = <<>> => Len(s) = 0
  BY EmptySeq
<1> QED
  BY <1>1, <1>2, <1>3 DEF ToSet

\* An appended game that has no button gets one, and no other has two.
LEMMA Appended ==
  ASSUME NEW s \in Seq(Games), IsInjective(s), NEW g \in Games, g \notin ToSet(s)
  PROVE  /\ Append(s, g) \in Seq(Games) /\ IsInjective(Append(s, g))
         /\ ToSet(Append(s, g)) = ToSet(s) \cup {g} /\ Append(s, g) # <<>>
<1> DEFINE a == Append(s, g)  n == Len(s)
<1>1. n \in Nat /\ DOMAIN s = 1..n
  BY LenProperties
<1>2. /\ a \in Seq(Games) /\ Len(a) = n + 1 /\ DOMAIN a = 1..(n + 1)
      /\ \A i \in 1..n : a[i] = s[i]
      /\ a[n + 1] = g
  BY AppendProperties, LenProperties
<1> HIDE DEF a, n
<1>3. \A i \in 1..n : s[i] # g
  BY <1>1 DEF ToSet
<1>4. \A i \in 1..(n + 1) : i \in 1..n \/ i = n + 1
  BY <1>1
<1>5. IsInjective(a)
  <2> SUFFICES ASSUME NEW i \in 1..(n + 1), NEW j \in 1..(n + 1), a[i] = a[j]
               PROVE  i = j
    BY <1>2 DEF IsInjective
  <2> QED
    BY <1>1, <1>2, <1>3, <1>4 DEF IsInjective
<1>6. ToSet(a) = ToSet(s) \cup {g}
  <2>1. ToSet(a) \subseteq ToSet(s) \cup {g}
    BY <1>1, <1>2, <1>4 DEF ToSet
  <2>2. n + 1 \in 1..(n + 1) /\ \A i \in 1..n : i \in 1..(n + 1)
    BY <1>1
  <2>3. ToSet(s) \cup {g} \subseteq ToSet(a)
    BY <1>1, <1>2, <2>2 DEF ToSet
  <2> QED
    BY <2>1, <2>3
<1>7. a # <<>>
  BY <1>1, <1>2, EmptySeq
<1> QED
  BY <1>2, <1>5, <1>6, <1>7 DEF a

\* A button that is removed was the only one of its game.
LEMMA Removed ==
  ASSUME NEW s \in Seq(Games), IsInjective(s), NEW g \in Games, g \in ToSet(s)
  PROVE  /\ RemoveFirst(s, g) \in Seq(Games) /\ IsInjective(RemoveFirst(s, g))
         /\ ToSet(RemoveFirst(s, g)) = ToSet(s) \ {g}
<1> DEFINE n == Len(s)  I == {i \in 1..Len(s) : s[i] = g}
<1>1. n \in Nat /\ DOMAIN s = 1..n
  BY LenProperties
<1>2. PICK k \in 1..n : s[k] = g
  BY <1>1 DEF ToSet
<1>3. I = {k}
  BY <1>1, <1>2 DEF IsInjective
<1>4. Min(I) = k
  BY <1>1, <1>3 DEF Min
<1>5. RemoveFirst(s, g) = RemoveAt(s, k)
  BY <1>2, <1>3, <1>4 DEF RemoveFirst, SelectInSeq
<1> DEFINE u == SubSeq(s, 1, k - 1)  v == SubSeq(s, k + 1, n)  r == u \o v
<1>6. /\ u \in Seq(Games) /\ Len(u) = k - 1
      /\ \A i \in 1..(k - 1) : u[i] = s[i]
  <2>1. \A i \in 1..(k - 1) : s[i] \in Games
    BY <1>1, ElementOfSeq
  <2> QED
    BY <1>1, <2>1, SubSeqProperties
<1>7. /\ v \in Seq(Games) /\ Len(v) = n - k
      /\ \A i \in 1..(n - k) : v[i] = s[k + i]
  <2>1. \A i \in (k + 1)..n : s[i] \in Games
    BY <1>1, ElementOfSeq
  <2>2. /\ v \in Seq(Games) /\ Len(v) = IF k + 1 <= n THEN n - (k + 1) + 1 ELSE 0
        /\ \A i \in 1..(n - (k + 1) + 1) : v[i] = s[k + 1 + i - 1]
    <3>1. k + 1 \in Int /\ n \in Int
      BY <1>1
    <3> QED
      BY <3>1, <2>1, SubSeqProperties
  <2> HIDE DEF v
  <2>3. Len(v) = n - k
    BY <1>1, <2>2
  <2>4. ASSUME NEW i \in 1..(n - k)
        PROVE  v[i] = s[k + i]
    <3>1. i \in 1..(n - (k + 1) + 1) /\ k + 1 + i - 1 = k + i
      BY <1>1
    <3> QED
      BY <3>1, <2>2
  <2> QED
    BY <2>2, <2>3, <2>4
<1> HIDE DEF u, v
<1>8. /\ r \in Seq(Games) /\ Len(r) = n - 1
      /\ \A i \in 1..(n - 1) : r[i] = IF i < k THEN s[i] ELSE s[i + 1]
  <2>1. r \in Seq(Games) /\ Len(r) = Len(u) + Len(v)
    BY <1>6, <1>7, ConcatProperties
  <2>2. \A i \in 1..(Len(u) + Len(v)) : r[i] = IF i <= Len(u) THEN u[i] ELSE v[i - Len(u)]
    BY <1>6, <1>7, ConcatProperties
  <2> HIDE DEF r
  <2>3. ASSUME NEW i \in 1..(n - 1)
        PROVE  r[i] = IF i < k THEN s[i] ELSE s[i + 1]
    <3>0. /\ i \in 1..(Len(u) + Len(v))
          /\ i < k <=> i <= Len(u)
          /\ i - Len(u) = i - (k - 1)
      BY <1>1, <1>6, <1>7
    <3>1. CASE i < k
      <4>1. i \in 1..(k - 1)
        BY <3>1, <1>1
      <4>2. r[i] = u[i]
        BY <3>0, <3>1, <2>2
      <4> QED
        BY <3>1, <4>1, <4>2, <1>6
    <3>2. CASE ~(i < k)
      <4>1. i - (k - 1) \in 1..(n - k) /\ k + (i - (k - 1)) = i + 1
        BY <3>2, <1>1
      <4>2. r[i] = v[i - (k - 1)]
        BY <3>0, <3>2, <2>2
      <4> QED
        BY <3>2, <4>1, <4>2, <1>7
    <3> QED
      BY <3>1, <3>2
  <2> QED
    BY <2>1, <2>3, <1>1, <1>6, <1>7
<1>9. RemoveFirst(s, g) = r
  BY <1>5 DEF RemoveAt, u, v
<1> HIDE DEF r
<1>10. DOMAIN r = 1..(n - 1)
  BY <1>8, LenProperties
<1>11. IsInjective(r)
  <2> SUFFICES ASSUME NEW i \in 1..(n - 1), NEW j \in 1..(n - 1), r[i] = r[j]
               PROVE  i = j
    BY <1>10 DEF IsInjective
  <2> DEFINE x == IF i < k THEN i ELSE i + 1  y == IF j < k THEN j ELSE j + 1
  <2>1. x \in 1..n /\ y \in 1..n /\ r[i] = s[x] /\ r[j] = s[y]
    BY <1>1, <1>8
  <2>2. x = y
    BY <2>1, <1>1 DEF IsInjective
  <2> QED
    BY <2>2, <1>1
<1>12. ToSet(r) = ToSet(s) \ {g}
  <2>1. ASSUME NEW i \in 1..(n - 1)
        PROVE  r[i] \in ToSet(s) \ {g}
    <3> DEFINE x == IF i < k THEN i ELSE i + 1
    <3>1. x \in 1..n /\ r[i] = s[x] /\ x # k
      BY <1>1, <1>8
    <3> QED
      BY <3>1, <1>1, <1>2 DEF ToSet, IsInjective
  <2>2. ASSUME NEW x \in 1..n, s[x] # g
        PROVE  s[x] \in ToSet(r)
    <3> DEFINE i == IF x < k THEN x ELSE x - 1
    <3>1. x # k
      BY <2>2, <1>2
    <3>2. i \in 1..(n - 1) /\ r[i] = s[x]
      BY <3>1, <1>1, <1>8
    <3> QED
      BY <3>2, <1>10 DEF ToSet
  <2> QED
    BY <2>1, <2>2, <1>1, <1>10 DEF ToSet
<1> QED
  BY <1>8, <1>9, <1>11, <1>12

\* An order of some of the games has each of them once.
LEMMA Ordered ==
  ASSUME NEW S \in SUBSET Games, NEW s \in SetToSeqs(S)
  PROVE  s \in Seq(Games) /\ IsInjective(s) /\ ToSet(s) = S
<1> DEFINE n == Cardinality(S)
<1>1. IsFiniteSet(S) /\ n \in Nat
  BY Distinct, FS_Subset, FS_CardinalityType
<1>2. s \in [1..n -> S] /\ \A i, j \in 1..n : i # j => s[i] # s[j]
  BY DEF SetToSeqs
<1>3. IsFiniteSet(1..n) /\ Cardinality(1..n) = n
  BY <1>1, FS_Interval
<1>4. s \in Injection(1..n, S)
  BY <1>2 DEF Injection, IsInjective
<1>5. s \in Surjection(1..n, S)
  BY <1>1, <1>3, <1>4, FS_Injection
<1>6. ToSet(s) = S
  BY <1>2, <1>5 DEF Surjection, ToSet
<1>7. s \in Seq(Games)
  BY <1>1, <1>2, SeqDef
<1> QED
  BY <1>2, <1>6, <1>7 DEF IsInjective

\* There are as many buttons as games with one.
LEMMA Counted ==
  ASSUME NEW s \in Seq(Games), IsInjective(s), ToSet(s) # Games
  PROVE  Len(s) \in Nat /\ Len(s) < Cardinality(Games)
<1> DEFINE n == Len(s)
<1>1. n \in Nat /\ DOMAIN s = 1..n /\ s \in [1..n -> ToSet(s)]
  BY LenProperties, IsASeq, ElementOfSeq DEF ToSet
<1>2. IsFiniteSet(1..n) /\ Cardinality(1..n) = n
  BY <1>1, FS_Interval
<1>3. IsFiniteSet(ToSet(s)) /\ Cardinality(ToSet(s)) < Cardinality(Games)
  <2>1. ToSet(s) \in SUBSET Games
    BY ToSetFacts
  <2>2. IsFiniteSet(Games)
    BY Distinct
  <2> QED
    BY <2>1, <2>2, FS_Subset, FS_CardinalityType
<1>4. s \in Injection(1..n, ToSet(s))
  BY <1>1 DEF Injection, IsInjective
<1>5. Cardinality(1..n) <= Cardinality(ToSet(s))
  BY <1>3, <1>4, FS_Injection
<1> QED
  BY <1>1, <1>2, <1>3, <1>5, FS_CardinalityType, Distinct

-----------------------------------------------------------------------------
(* What a click makes of a picker. *)

\* The fields of a picker, of what is stored and of what is shown.
LEMMA PickerFields ==
  ASSUME NEW p \in Pickers
  PROVE  /\ p.buttons \in Seq(Games) /\ p.selected \in Games \cup {Absent}
         /\ p.box \in Answers \cup {NoAnswer, Empty} /\ p.saved \in Lists
         /\ \A g \in Games : p.saved[g] \in Infos \cup {Absent}
BY DEF Pickers, Lists

\* What is stored for a box is never the absence of an entry.
LEMMA KeptTyped ==
  /\ \A b \in Answers \cup {NoAnswer, Empty} :
       Kept(b) \in Infos /\ Kept(b) # Absent /\ (Kept(b) = Blank <=> b = Empty)
  /\ \A saved, g : \A ok \in BOOLEAN :
       Shown(saved, g, ok) \in Answers \cup {NoAnswer, Empty}
BY Distinct DEF Kept, Shown, Infos

\* The list after an entry has been stored.
LEMMA Stored ==
  ASSUME NEW list \in Lists, NEW g \in Games, NEW i \in Infos \cup {Absent},
         NEW l, l = [list EXCEPT ![g] = i]
  PROVE  l \in Lists /\ l[g] = i /\ \A o \in Games \ {g} : l[o] = list[o]
BY DEF Lists

\* changeGameAttr stores the old box, which is stored already, and then what
\* it shows for the new game.
LEMMA Change ==
  ASSUME NEW p \in Pickers, Boxed(p), NEW g \in Games, NEW ok \in BOOLEAN
  PROVE  LET b == Shown(p.saved, g, ok) IN
         ChangeGameAttr(p, g, ok) =
           [buttons |-> p.buttons, selected |-> g, box |-> b,
            saved |-> [p.saved EXCEPT ![g] = Kept(b)]]
<1> DEFINE old == IF p.box = Empty THEN p ELSE SaveGameAttr(p)
<1>1. p = [buttons |-> p.buttons, selected |-> p.selected, box |-> p.box, saved |-> p.saved]
  BY DEF Pickers
<1>2. old = p
  <2>1. CASE p.box = Empty
    BY <2>1
  <2>2. CASE p.box # Empty
    <3>1. [p.saved EXCEPT ![p.selected] = p.box] = p.saved
      BY <2>2, PickerFields DEF Boxed, Lists
    <3>2. SaveGameAttr(p) = [p EXCEPT !.saved[p.selected] = p.box]
      BY <2>2 DEF SaveGameAttr
    <3>3. [p EXCEPT !.saved[p.selected] = p.box] = [p EXCEPT !.saved = [p.saved EXCEPT ![p.selected] = p.box]]
      BY <1>1
    <3> QED
      BY <2>2, <3>1, <3>2, <3>3, <1>1
  <2> QED
    BY <2>1, <2>2
<1> DEFINE b == Shown(p.saved, g, ok)
<1>3. PICK q : q = [buttons |-> p.buttons, selected |-> g, box |-> b, saved |-> p.saved]
  OBVIOUS
<1>4. [old EXCEPT !.selected = g,
         !.box = IF ~ok THEN Empty
                 ELSE IF old.saved[g] \in Answers THEN old.saved[g] ELSE NoAnswer] = q
  <2>1. PICK r : r = [p EXCEPT !.selected = g]
    OBVIOUS
  <2>2. r = [buttons |-> p.buttons, selected |-> g, box |-> p.box, saved |-> p.saved]
    BY <2>1 DEF Pickers
  <2>3. [r EXCEPT !.box = b] = q
    BY <2>2, <1>3
  <2>4. [p EXCEPT !.selected = g, !.box = b] = [r EXCEPT !.box = b]
    BY <2>1
  <2> QED
    BY <1>2, <2>3, <2>4 DEF Shown
<1>5. ChangeGameAttr(p, g, ok) = SaveGameAttr(q)
  BY <1>4 DEF ChangeGameAttr
<1>6. SaveGameAttr(q) = [q EXCEPT !.saved[q.selected] = Kept(b)]
  BY <1>3 DEF SaveGameAttr, Kept
<1>7. [q EXCEPT !.saved[q.selected] = Kept(b)]
        = [buttons |-> p.buttons, selected |-> g, box |-> b,
           saved |-> [p.saved EXCEPT ![g] = Kept(b)]]
  BY <1>3
<1> QED
  BY <1>5, <1>6, <1>7

\* So the picker it leaves is in order when the game has a button.
LEMMA ChangeFine ==
  ASSUME NEW p \in Pickers, Boxed(p), IsInjective(p.buttons), NEW g \in Games,
         g \in ToSet(p.buttons), NEW ok \in BOOLEAN, NEW q, q = ChangeGameAttr(p, g, ok)
  PROVE  /\ q \in Pickers /\ Fine(q) /\ q.buttons = p.buttons /\ q.selected = g
         /\ q.saved = [p.saved EXCEPT ![g] = Kept(Shown(p.saved, g, ok))]
<1> DEFINE b == Shown(p.saved, g, ok)  l == [p.saved EXCEPT ![g] = Kept(b)]
<1>1. q = [buttons |-> p.buttons, selected |-> g, box |-> b, saved |-> l]
  BY Change
<1>2. b \in Answers \cup {NoAnswer, Empty} /\ Kept(b) \in Infos
  BY KeptTyped
<1>3. l \in Lists /\ l[g] = Kept(b)
  BY <1>2, PickerFields, Stored
<1> HIDE DEF b, l
<1>4. q \in Pickers
  BY <1>1, <1>2, <1>3, PickerFields DEF Pickers
<1>5. g # Absent /\ p.buttons # <<>> /\ Contains(p.buttons, g)
  BY Distinct, PickerFields, ContainsToSet, ToSetFacts
<1>6. Fine(q)
  BY <1>1, <1>3, <1>5 DEF Fine
<1> QED
  BY <1>1, <1>4, <1>6 DEF b, l

\* What it stores is what the user has in mind, or the request has failed.
LEMMA ChangeFollows ==
  ASSUME NEW saved \in Lists, NEW wanted \in Lists, NEW games, Follows(saved, wanted, games),
         NEW g \in Games, wanted[g] # Absent, NEW ok \in BOOLEAN
  PROVE  Follows([saved EXCEPT ![g] = Kept(Shown(saved, g, ok))], wanted,
                 games \cup Missed({g}, ok))
<1> DEFINE b == Shown(saved, g, ok)
<1>1. PICK l : l = [saved EXCEPT ![g] = Kept(b)]
  OBVIOUS
<1>2. l[g] = Kept(b) /\ \A o \in Games \ {g} : l[o] = saved[o]
  BY <1>1, KeptTyped, Stored
<1>3. ASSUME ok, g \notin games
      PROVE  l[g] = wanted[g]
  <2>1. saved[g] = wanted[g] /\ wanted[g] # Blank
    BY <1>3 DEF Follows
  <2>2. wanted[g] \in Answers \cup {NoAnswer}
    BY <2>1 DEF Lists, Infos
  <2>3. b = wanted[g]
    BY <1>3, <2>1, <2>2, Distinct DEF Shown
  <2> QED
    BY <1>2, <2>2, <2>3, Distinct DEF Kept
<1>4. \A o \in Games \ (games \cup Missed({g}, ok)) : l[o] = wanted[o]
  BY <1>2, <1>3 DEF Follows, Missed
<1>5. GamesIn(l) \subseteq GamesIn(wanted)
  BY <1>2 DEF Follows, GamesIn
<1>6. \A o \in Games : wanted[o] = Blank => o \in games \cup Missed({g}, ok)
  BY DEF Follows
<1>7. Follows(l, wanted, games \cup Missed({g}, ok))
  BY <1>4, <1>5, <1>6 DEF Follows
<1> QED
  BY <1>1, <1>7

\* A picker in order has a box with what is stored for its game.
LEMMA FineBoxed ==
  ASSUME NEW p \in Pickers, Fine(p)
  PROVE  Boxed(p) /\ IsInjective(p.buttons)
BY PickerFields, Distinct DEF Fine, Boxed, Kept

\* A click on the first button leaves a picker in order, and stores what the
\* user has in mind.
LEMMA Click ==
  ASSUME NEW p \in Pickers, Boxed(p), IsInjective(p.buttons),
         p.selected = Absent => p.box = Empty,
         p.buttons = <<>> => p.selected = Absent,
         p.selected # Absent => Fine(p),
         NEW ok \in BOOLEAN, NEW q, q = ClickFirst(p, ok)
  PROVE  /\ q \in Pickers /\ Fine(q) /\ q.buttons = p.buttons
         /\ \/ q = p /\ (p.buttons = <<>> \/ Head(p.buttons) = p.selected)
            \/ /\ q # p /\ p.buttons # <<>> /\ q.selected = Head(p.buttons)
               /\ q.selected \in Games /\ Head(p.buttons) # p.selected
         /\ \A wanted \in Lists : \A games :
              Follows(p.saved, wanted, games) /\ ToSet(p.buttons) = GamesIn(wanted)
              => Follows(q.saved, wanted,
                         games \cup IF q = p THEN {} ELSE Missed({q.selected}, ok))
<1>1. CASE p.buttons = <<>> \/ Head(p.buttons) = p.selected
  <2>1. q = p
    BY <1>1 DEF ClickFirst
  <2>2. Fine(p)
    <3>1. CASE p.buttons = <<>>
      BY <3>1 DEF Fine
    <3>2. CASE p.buttons # <<>>
      BY <3>2, <1>1, PickerFields, ToSetFacts, Distinct
    <3> QED
      BY <3>1, <3>2
  <2>3. \A wanted \in Lists : \A games :
          Follows(p.saved, wanted, games) => Follows(p.saved, wanted, games \cup {})
    BY DEF Follows
  <2> QED
    BY <1>1, <2>1, <2>2, <2>3
<1>2. CASE p.buttons # <<>> /\ Head(p.buttons) # p.selected
  <2>1. PICK g : g = Head(p.buttons)
    OBVIOUS
  <2>2. g \in Games /\ g \in ToSet(p.buttons)
    BY <1>2, <2>1, PickerFields, ToSetFacts
  <2>3. q = ChangeGameAttr(p, g, ok)
    BY <1>2, <2>1 DEF ClickFirst
  <2>4. /\ q \in Pickers /\ Fine(q) /\ q.buttons = p.buttons /\ q.selected = g
        /\ q.saved = [p.saved EXCEPT ![g] = Kept(Shown(p.saved, g, ok))]
    BY <2>2, <2>3, ChangeFine
  <2>5. q # p
    BY <1>2, <2>1, <2>4
  <2>6. ASSUME NEW wanted \in Lists, NEW games, Follows(p.saved, wanted, games),
               ToSet(p.buttons) = GamesIn(wanted)
        PROVE  Follows(q.saved, wanted, games \cup Missed({q.selected}, ok))
    <3>1. wanted[g] # Absent
      BY <2>2, <2>6 DEF GamesIn
    <3>2. p.saved \in Lists
      BY PickerFields
    <3>3. Follows([p.saved EXCEPT ![g] = Kept(Shown(p.saved, g, ok))], wanted,
                  games \cup Missed({g}, ok))
      BY <2>2, <2>6, <3>1, <3>2, ChangeFollows
    <3> QED
      BY <2>4, <3>3
  <2> QED
    BY <1>2, <2>1, <2>2, <2>4, <2>5, <2>6
<1> QED
  BY <1>1, <1>2

\* When an entry is dropped from both lists, its game is out of question.
LEMMA DropFollows ==
  ASSUME NEW saved \in Lists, NEW wanted \in Lists, NEW games, Follows(saved, wanted, games),
         NEW g \in Games
  PROVE  Follows([saved EXCEPT ![g] = Absent], [wanted EXCEPT ![g] = Absent], games \ {g})
<1>1. PICK l, w : l = [saved EXCEPT ![g] = Absent] /\ w = [wanted EXCEPT ![g] = Absent]
  OBVIOUS
<1>2. /\ l[g] = Absent /\ w[g] = Absent
      /\ \A o \in Games \ {g} : l[o] = saved[o] /\ w[o] = wanted[o]
  BY <1>1 DEF Lists
<1>3. Follows(l, w, games \ {g})
  BY <1>2, Distinct DEF Follows, GamesIn
<1> QED
  BY <1>1, <1>3

\* A removed game has neither button nor entry, and when it was the selected
\* one, the first of the others is.
LEMMA Drop ==
  ASSUME NEW p \in Pickers, Fine(p), NEW g \in Games, g \in ToSet(p.buttons),
         NEW ok \in BOOLEAN, NEW q, q = RemoveGame(p, g, ok)
  PROVE  /\ q \in Pickers /\ Fine(q) /\ ToSet(q.buttons) = ToSet(p.buttons) \ {g}
         /\ \A wanted \in Lists : \A games :
              Follows(p.saved, wanted, games) /\ ToSet(p.buttons) = GamesIn(wanted)
              => Follows(q.saved, [wanted EXCEPT ![g] = Absent],
                   (games \ {g}) \cup
                     IF g = p.selected THEN Missed({q.selected} \ {Absent}, ok) ELSE {})
<1>1. PICK s, l : s = RemoveFirst(p.buttons, g) /\ l = [p.saved EXCEPT ![g] = Absent]
  OBVIOUS
<1>2. s \in Seq(Games) /\ IsInjective(s) /\ ToSet(s) = ToSet(p.buttons) \ {g}
  BY <1>1, FineBoxed, Removed, PickerFields
<1>3. l \in Lists /\ \A o \in Games \ {g} : l[o] = p.saved[o]
  BY <1>1, Stored, PickerFields
<1>4. PICK left : left = [buttons |-> s, selected |-> p.selected, box |-> p.box, saved |-> l]
  OBVIOUS
<1>5. [p EXCEPT !.saved[g] = Absent, !.buttons = RemoveFirst(p.buttons, g)] = left
  <2>1. PICK r : r = [p EXCEPT !.saved[g] = Absent]
    OBVIOUS
  <2>2. r = [buttons |-> p.buttons, selected |-> p.selected, box |-> p.box, saved |-> l]
    BY <2>1, <1>1 DEF Pickers
  <2>3. [r EXCEPT !.buttons = s] = left
    BY <2>2, <1>4
  <2>4. [p EXCEPT !.saved[g] = Absent, !.buttons = s] = [r EXCEPT !.buttons = s]
    BY <2>1
  <2> QED
    BY <2>3, <2>4, <1>1
<1>6. ASSUME NEW wanted \in Lists, NEW games, Follows(p.saved, wanted, games),
             ToSet(p.buttons) = GamesIn(wanted)
      PROVE  /\ [wanted EXCEPT ![g] = Absent] \in Lists
             /\ Follows(l, [wanted EXCEPT ![g] = Absent], games \ {g})
             /\ ToSet(s) = GamesIn([wanted EXCEPT ![g] = Absent])
  <2>1. PICK w : w = [wanted EXCEPT ![g] = Absent]
    OBVIOUS
  <2>2. w \in Lists /\ w[g] = Absent /\ \A o \in Games \ {g} : w[o] = wanted[o]
    <3>1. Absent \in Infos \cup {Absent} /\ wanted \in Lists
      BY <1>6
    <3> QED
      BY <2>1, <3>1 DEF Lists
  <2>3. ToSet(s) = GamesIn(w)
    BY <2>2, <1>2, <1>6 DEF GamesIn
  <2>4. p.saved \in Lists
    BY PickerFields
  <2>5. Follows(l, w, games \ {g})
    BY <2>1, <2>4, <1>1, <1>6, DropFollows
  <2> QED
    BY <2>1, <2>2, <2>3, <2>5
<1>7. CASE g # p.selected
  <2>1. q = left
    BY <1>5, <1>7 DEF RemoveGame
  <2>2. left \in Pickers
    BY <1>2, <1>3, <1>4, PickerFields DEF Pickers
  <2>3. p.selected # Absent /\ p.selected \in ToSet(p.buttons) /\ p.selected \in Games
    BY ToSetFacts, PickerFields, ContainsToSet DEF Fine
  <2>4. s # <<>> /\ Contains(s, p.selected)
    BY <1>2, <1>7, <2>3, ToSetFacts, ContainsToSet
  <2>5. l[p.selected] = Kept(p.box)
    BY <1>3, <1>7, <2>3 DEF Fine
  <2>6. Fine(left)
    BY <1>2, <1>4, <2>3, <2>4, <2>5 DEF Fine
  <2>7. q.buttons = s /\ q.saved = l
    BY <1>4, <2>1
  <2>8. ASSUME NEW wanted \in Lists, NEW games, Follows(p.saved, wanted, games),
               ToSet(p.buttons) = GamesIn(wanted)
        PROVE  Follows(q.saved, [wanted EXCEPT ![g] = Absent],
                       (games \ {g}) \cup {})
    <3>1. (games \ {g}) \cup {} = games \ {g}
      OBVIOUS
    <3> QED
      BY <1>6, <2>7, <2>8, <3>1
  <2> QED
    BY <1>2, <1>7, <2>1, <2>2, <2>6, <2>7, <2>8
<1>8. CASE g = p.selected
  <2>1. PICK r : r = [buttons |-> s, selected |-> Absent, box |-> Empty, saved |-> l]
    OBVIOUS
  <2>2. [left EXCEPT !.selected = Absent, !.box = Empty] = r
    <3>1. PICK t : t = [left EXCEPT !.selected = Absent]
      OBVIOUS
    <3>2. t = [buttons |-> s, selected |-> Absent, box |-> p.box, saved |-> l]
      BY <1>4, <3>1
    <3>3. [t EXCEPT !.box = Empty] = r
      BY <2>1, <3>2
    <3>4. [left EXCEPT !.selected = Absent, !.box = Empty] = [t EXCEPT !.box = Empty]
      BY <3>1
    <3> QED
      BY <3>3, <3>4
  <2>3. q = ClickFirst(r, ok)
    BY <1>5, <1>8, <2>2 DEF RemoveGame
  <2>4. r \in Pickers /\ Boxed(r) /\ IsInjective(r.buttons)
    BY <1>2, <1>3, <2>1 DEF Pickers, Boxed
  <2>5. r.selected = Absent /\ r.box = Empty /\ r.buttons = s /\ r.saved = l
    BY <2>1
  <2> HIDE DEF Fine, Boxed
  <2>6. /\ q \in Pickers /\ Fine(q) /\ q.buttons = s
        /\ \/ q = r /\ (s = <<>> \/ Head(s) = Absent)
           \/ q # r /\ q.selected \in Games
        /\ \A wanted \in Lists : \A games :
             Follows(l, wanted, games) /\ ToSet(s) = GamesIn(wanted)
             => Follows(q.saved, wanted,
                        games \cup IF q = r THEN {} ELSE Missed({q.selected}, ok))
    BY <2>3, <2>4, <2>5, Click
  <2>7. (IF q = r THEN {} ELSE Missed({q.selected}, ok)) = Missed({q.selected} \ {Absent}, ok)
    <3>1. CASE q = r
      <4>1. {q.selected} \ {Absent} = {}
        BY <3>1, <2>5
      <4> QED
        BY <3>1, <4>1 DEF Missed
    <3>2. CASE q # r
      <4>1. {q.selected} \ {Absent} = {q.selected}
        BY <3>2, <2>6, Distinct
      <4> QED
        BY <3>2, <4>1
    <3> QED
      BY <3>1, <3>2
  <2>8. ASSUME NEW wanted \in Lists, NEW games, Follows(p.saved, wanted, games),
               ToSet(p.buttons) = GamesIn(wanted)
        PROVE  Follows(q.saved, [wanted EXCEPT ![g] = Absent],
                       (games \ {g}) \cup Missed({q.selected} \ {Absent}, ok))
    BY <2>6, <2>7, <2>8, <1>6
  <2> QED
    BY <1>2, <1>8, <2>6, <2>8
<1> QED
  BY <1>7, <1>8

-----------------------------------------------------------------------------
(* What each click makes of the picker, the list intended and the games not *)
(* seen, taken together.                                                    *)

Settled(p, wanted, games) ==
  /\ p \in Pickers /\ Fine(p)
  /\ wanted \in Lists /\ games \subseteq Games
  /\ ToSet(p.buttons) = GamesIn(wanted)
  /\ Follows(p.saved, wanted, games)

\* Only games can be missed.
LEMMA MissedGames ==
  ASSUME NEW games \in SUBSET Games, NEW ok \in BOOLEAN
  PROVE  Missed(games, ok) \subseteq Games
BY DEF Missed

\* Another button is clicked.
LEMMA SelectSettles ==
  ASSUME NEW p, NEW w, NEW u, Settled(p, w, u), NEW g \in Games, g \in ToSet(p.buttons),
         NEW ok \in BOOLEAN, NEW q, q = ChangeGameAttr(p, g, ok)
  PROVE  Settled(q, w, u \cup Missed({g}, ok))
<1>1. /\ p \in Pickers /\ Boxed(p) /\ IsInjective(p.buttons) /\ p.saved \in Lists
      /\ w \in Lists /\ Follows(p.saved, w, u) /\ u \subseteq Games
  BY FineBoxed, PickerFields DEF Settled
<1>2. /\ q \in Pickers /\ Fine(q) /\ q.buttons = p.buttons
      /\ q.saved = [p.saved EXCEPT ![g] = Kept(Shown(p.saved, g, ok))]
  BY <1>1, ChangeFine
<1>3. w[g] # Absent
  BY DEF Settled, GamesIn
<1>4. Follows([p.saved EXCEPT ![g] = Kept(Shown(p.saved, g, ok))], w, u \cup Missed({g}, ok))
  BY <1>1, <1>3, ChangeFollows
<1>5. u \cup Missed({g}, ok) \subseteq Games
  BY <1>1, MissedGames
<1> QED
  BY <1>1, <1>2, <1>4, <1>5 DEF Settled

\* An answer is chosen for the selected game.
LEMMA AnswerSettles ==
  ASSUME NEW p, NEW w, NEW u, Settled(p, w, u), p.box # Empty,
         NEW a \in Answers \cup {NoAnswer}, NEW q, q = SaveGameAttr([p EXCEPT !.box = a])
  PROVE  /\ Settled(q, [w EXCEPT ![p.selected] = a], u \ {p.selected})
         /\ q.buttons = p.buttons
<1>1. /\ p \in Pickers /\ Fine(p) /\ p.saved \in Lists /\ p.buttons \in Seq(Games)
      /\ p.selected \in Games \cup {Absent} /\ w \in Lists
      /\ Follows(p.saved, w, u) /\ u \subseteq Games /\ ToSet(p.buttons) = GamesIn(w)
  BY PickerFields DEF Settled
<1>2. PICK g : g = p.selected
  OBVIOUS
<1>3. g \in Games /\ g \in ToSet(p.buttons) /\ a # Empty /\ a # Absent /\ a \in Infos /\ a # Blank
  BY <1>1, <1>2, Distinct, ContainsToSet DEF Fine, Infos
<1>4. PICK l, v : l = [p.saved EXCEPT ![g] = a] /\ v = [w EXCEPT ![g] = a]
  OBVIOUS
<1>5. /\ l \in Lists /\ l[g] = a /\ \A o \in Games \ {g} : l[o] = p.saved[o]
      /\ v \in Lists /\ v[g] = a /\ \A o \in Games \ {g} : v[o] = w[o]
  BY <1>1, <1>3, <1>4 DEF Lists
<1>6. q = [buttons |-> p.buttons, selected |-> g, box |-> a, saved |-> l]
  <2>1. PICK r : r = [p EXCEPT !.box = a]
    OBVIOUS
  <2>2. r = [buttons |-> p.buttons, selected |-> g, box |-> a, saved |-> p.saved]
    BY <2>1, <1>1, <1>2 DEF Pickers
  <2>3. q = [r EXCEPT !.saved[r.selected] = a]
    BY <2>1, <2>2, <1>3 DEF SaveGameAttr
  <2> QED
    BY <2>2, <2>3, <1>4
<1>7. q \in Pickers
  BY <1>1, <1>3, <1>5, <1>6 DEF Pickers
<1>8. Fine(q)
  <2>1. Kept(a) = a
    BY <1>3 DEF Kept
  <2>2. p.buttons # <<>> /\ g # Absent /\ Contains(p.buttons, g) /\ IsInjective(p.buttons)
    BY <1>1, <1>2, <1>3, Distinct, ContainsToSet, ToSetFacts DEF Fine
  <2> QED
    BY <2>1, <2>2, <1>5, <1>6 DEF Fine
<1>9. ToSet(q.buttons) = GamesIn(v)
  BY <1>1, <1>3, <1>5, <1>6 DEF GamesIn
<1>10. Follows(l, v, u \ {g})
  BY <1>1, <1>3, <1>5 DEF Follows, GamesIn
<1>11. Settled(q, v, u \ {g})
  BY <1>1, <1>5, <1>6, <1>7, <1>8, <1>9, <1>10 DEF Settled
<1> QED
  BY <1>2, <1>4, <1>6, <1>11

\* A game is removed.
LEMMA DeleteSettles ==
  ASSUME NEW p, NEW w, NEW u, Settled(p, w, u), NEW g \in Games, g \in ToSet(p.buttons),
         NEW ok \in BOOLEAN, NEW q, q = RemoveGame(p, g, ok)
  PROVE  Settled(q, [w EXCEPT ![g] = Absent],
                 (u \ {g}) \cup IF g = p.selected THEN Missed({q.selected} \ {Absent}, ok) ELSE {})
<1>1. /\ p \in Pickers /\ Fine(p) /\ w \in Lists /\ Follows(p.saved, w, u)
      /\ u \subseteq Games /\ ToSet(p.buttons) = GamesIn(w)
  BY DEF Settled
<1>2. PICK v : v = [w EXCEPT ![g] = Absent]
  OBVIOUS
<1>3. PICK m : m = (u \ {g}) \cup IF g = p.selected THEN Missed({q.selected} \ {Absent}, ok) ELSE {}
  OBVIOUS
<1>4. /\ q \in Pickers /\ Fine(q) /\ ToSet(q.buttons) = ToSet(p.buttons) \ {g}
      /\ Follows(q.saved, v, m)
  BY <1>1, <1>2, <1>3, Drop
<1>5. v \in Lists /\ v[g] = Absent /\ \A o \in Games \ {g} : v[o] = w[o]
  BY <1>1, <1>2 DEF Lists
<1>6. ToSet(q.buttons) = GamesIn(v)
  BY <1>1, <1>4, <1>5 DEF GamesIn
<1>7. m \subseteq Games
  <2>1. {q.selected} \ {Absent} \subseteq Games
    BY <1>4, PickerFields
  <2> QED
    BY <2>1, <1>1, <1>3, MissedGames
<1>8. Settled(q, v, m)
  BY <1>4, <1>5, <1>6, <1>7 DEF Settled
<1> QED
  BY <1>2, <1>3, <1>8

\* A game is added, of which nothing is kept before.
LEMMA AddSettles ==
  ASSUME NEW p, NEW w, NEW u, Settled(p, w, u), NEW g \in Games, g \notin ToSet(p.buttons),
         NEW ok \in BOOLEAN, NEW q,
         q = ChangeGameAttr([p EXCEPT !.buttons = Append(@, g)], g, ok)
  PROVE  /\ Settled(q, [w EXCEPT ![g] = NoAnswer], (u \ {g}) \cup Missed({g}, ok))
         /\ q.buttons = Append(p.buttons, g)
<1>1. /\ p \in Pickers /\ Fine(p) /\ Boxed(p) /\ p.saved \in Lists /\ p.buttons \in Seq(Games)
      /\ IsInjective(p.buttons) /\ w \in Lists /\ Follows(p.saved, w, u)
      /\ u \subseteq Games /\ ToSet(p.buttons) = GamesIn(w)
  BY FineBoxed, PickerFields DEF Settled
<1>2. PICK s : s = Append(p.buttons, g)
  OBVIOUS
<1>3. s \in Seq(Games) /\ IsInjective(s) /\ ToSet(s) = ToSet(p.buttons) \cup {g}
  BY <1>1, <1>2, Appended
<1>4. PICK r : r = [p EXCEPT !.buttons = Append(@, g)]
  OBVIOUS
<1>5. /\ r = [buttons |-> s, selected |-> p.selected, box |-> p.box, saved |-> p.saved]
      /\ r \in Pickers
  BY <1>1, <1>2, <1>3, <1>4 DEF Pickers
<1>6. Boxed(r)
  BY <1>1, <1>5 DEF Boxed
<1>7. /\ q \in Pickers /\ Fine(q) /\ q.buttons = s
      /\ q.saved = [p.saved EXCEPT ![g] = Kept(Shown(p.saved, g, ok))]
  <2>1. q = ChangeGameAttr(r, g, ok)
    BY <1>4
  <2>2. g \in ToSet(r.buttons) /\ IsInjective(r.buttons) /\ r.saved = p.saved /\ r.buttons = s
    BY <1>3, <1>5
  <2>3. /\ q \in Pickers /\ Fine(q) /\ q.buttons = r.buttons
        /\ q.saved = [r.saved EXCEPT ![g] = Kept(Shown(r.saved, g, ok))]
    BY <2>1, <2>2, <1>5, <1>6, ChangeFine
  <2> QED
    BY <2>2, <2>3
<1>8. PICK v : v = [w EXCEPT ![g] = NoAnswer]
  OBVIOUS
<1>9. v \in Lists /\ v[g] = NoAnswer /\ \A o \in Games \ {g} : v[o] = w[o]
  <2>1. NoAnswer \in Infos \cup {Absent}
    BY DEF Infos
  <2> QED
    BY <2>1, <1>1, <1>8 DEF Lists
<1>10. ToSet(q.buttons) = GamesIn(v)
  BY <1>1, <1>3, <1>7, <1>9, Distinct DEF GamesIn
<1>11. w[g] = Absent /\ p.saved[g] = Absent
  BY <1>1 DEF GamesIn, Follows
<1>12. PICK l : l = q.saved
  OBVIOUS
<1>13. \A o \in Games \ {g} : l[o] = p.saved[o]
  <2>1. Kept(Shown(p.saved, g, ok)) \in Infos \cup {Absent}
    BY KeptTyped
  <2> QED
    BY <2>1, <1>1, <1>7, <1>12, Stored
<1>14. ok => l[g] = NoAnswer
  BY <1>1, <1>7, <1>11, <1>12, Distinct DEF Shown, Kept, Lists
<1>15. Follows(l, v, (u \ {g}) \cup Missed({g}, ok))
  BY <1>1, <1>9, <1>13, <1>14, Distinct DEF Follows, GamesIn, Missed
<1>16. (u \ {g}) \cup Missed({g}, ok) \subseteq Games
  BY <1>1, MissedGames
<1>17. Settled(q, v, (u \ {g}) \cup Missed({g}, ok))
  BY <1>7, <1>9, <1>10, <1>12, <1>15, <1>16 DEF Settled
<1> QED
  BY <1>2, <1>7, <1>8, <1>17

\* The first button is clicked by the page.
LEMMA ClickSettles ==
  ASSUME NEW p, NEW w, NEW u, Settled(p, w, u), NEW ok \in BOOLEAN,
         NEW q, q = ClickFirst(p, ok)
  PROVE  /\ Settled(q, w, u \cup IF q = p THEN {} ELSE Missed({q.selected}, ok))
         /\ q.buttons = p.buttons
<1>1. /\ p \in Pickers /\ Fine(p) /\ Boxed(p) /\ IsInjective(p.buttons)
      /\ w \in Lists /\ Follows(p.saved, w, u) /\ u \subseteq Games
      /\ ToSet(p.buttons) = GamesIn(w)
  BY FineBoxed DEF Settled
<1>2. /\ p.selected = Absent => p.box = Empty
      /\ p.buttons = <<>> => p.selected = Absent
  BY <1>1 DEF Fine
<1>3. PICK m : m = u \cup IF q = p THEN {} ELSE Missed({q.selected}, ok)
  OBVIOUS
<1>4. /\ q \in Pickers /\ Fine(q) /\ q.buttons = p.buttons /\ Follows(q.saved, w, m)
      /\ q = p \/ q.selected \in Games
  BY <1>1, <1>2, <1>3, Click
<1>5. m \subseteq Games
  BY <1>1, <1>3, <1>4, MissedGames
<1>6. Settled(q, w, m)
  BY <1>1, <1>4, <1>5 DEF Settled
<1> QED
  BY <1>3, <1>4, <1>6

\* The list as read when some entries are not, the picker before its first
\* button is clicked, that button, and the entries without attributes.
Read(list, failed) == [g \in Games |-> IF g \in failed THEN Absent ELSE list[g]]
Start(order, read) == [NoPicker EXCEPT !.buttons = order, !.saved = read]
First(order) == IF order = <<>> THEN <<>> ELSE <<Head(order)>>
Blanks(list) == {g \in Games : list[g] = Blank}

\* The list is read; some of its entries may not be, and the answers of the
\* first button may not be shown.
LEMMA ReadSettles ==
  ASSUME NEW list \in Lists, NEW order \in SetToSeqs(GamesIn(list)), NEW ok \in BOOLEAN,
         NEW failed \in SUBSET GamesIn(list), NEW read, read = Read(list, failed),
         NEW q, q = ClickFirst(Start(order, read), ok), NEW first, first = First(order),
         NEW v, v = failed \cup Blanks(list) \cup Missed(ToSet(first), ok)
  PROVE  Settled(q, list, v) /\ q.buttons = order /\ read \in Lists
<1> DEFINE u == failed \cup Blanks(list)
<1>1. order \in Seq(Games) /\ IsInjective(order) /\ ToSet(order) = GamesIn(list)
  BY Ordered DEF GamesIn
<1>2. read \in Lists
  BY DEF Lists, Read
<1>3. PICK p : p = [buttons |-> order, selected |-> Absent, box |-> Empty, saved |-> read]
  OBVIOUS
<1>4. Start(order, read) = p
  <2>1. PICK t : t = [NoPicker EXCEPT !.buttons = order]
    OBVIOUS
  <2>2. t = [buttons |-> order, selected |-> Absent, box |-> Empty, saved |-> NoList]
    BY <2>1 DEF NoPicker
  <2>3. [t EXCEPT !.saved = read] = p
    BY <2>2, <1>3
  <2>4. [NoPicker EXCEPT !.buttons = order, !.saved = read] = [t EXCEPT !.saved = read]
    BY <2>1
  <2> QED
    BY <2>3, <2>4 DEF Start
<1>5. p \in Pickers /\ Boxed(p)
  BY <1>1, <1>2, <1>3 DEF Pickers, Boxed
<1>6. p.buttons = order /\ p.saved = read /\ p.selected = Absent /\ p.box = Empty
  BY <1>3
<1>7. u \subseteq Games
  BY DEF GamesIn, Blanks
<1>8. Follows(read, list, u)
  BY DEF Follows, GamesIn, Blanks, Read
<1> HIDE DEF u
<1>9. /\ q \in Pickers /\ Fine(q) /\ q.buttons = order
      /\ \/ q = p /\ (order = <<>> \/ Head(order) = Absent)
         \/ q # p /\ order # <<>> /\ q.selected = Head(order)
      /\ Follows(q.saved, list, u \cup IF q = p THEN {} ELSE Missed({q.selected}, ok))
  <2>1. q = ClickFirst(p, ok)
    BY <1>4
  <2>2. /\ q \in Pickers /\ Fine(q) /\ q.buttons = p.buttons
        /\ \/ q = p /\ (p.buttons = <<>> \/ Head(p.buttons) = p.selected)
           \/ q # p /\ p.buttons # <<>> /\ q.selected = Head(p.buttons)
        /\ \A wanted \in Lists : \A games :
             Follows(p.saved, wanted, games) /\ ToSet(p.buttons) = GamesIn(wanted)
             => Follows(q.saved, wanted,
                        games \cup IF q = p THEN {} ELSE Missed({q.selected}, ok))
    BY <2>1, <1>1, <1>5, <1>6, Click
  <2>3. Follows(q.saved, list, u \cup IF q = p THEN {} ELSE Missed({q.selected}, ok))
    BY <2>2, <1>1, <1>6, <1>8
  <2> QED
    BY <2>2, <2>3, <1>6
<1>10. (IF q = p THEN {} ELSE Missed({q.selected}, ok)) = Missed(ToSet(first), ok)
  <2>1. CASE order = <<>>
    <3>1. ToSet(first) = {}
      BY <2>1 DEF ToSet, First
    <3> QED
      BY <2>1, <3>1, <1>9 DEF Missed
  <2>2. CASE order # <<>>
    <3>1. Head(order) # Absent
      BY <2>2, <1>1, ToSetFacts, Distinct
    <3>2. ToSet(first) = {Head(order)}
      BY <2>2 DEF ToSet, First
    <3> QED
      BY <2>2, <3>1, <3>2, <1>9
  <2> QED
    BY <2>1, <2>2
<1>11. Missed(ToSet(first), ok) \subseteq Games
  <2>1. ToSet(first) \subseteq Games
    BY <1>1, ToSetFacts DEF ToSet, First
  <2> QED
    BY <2>1, MissedGames
<1>12. Settled(q, list, u \cup Missed(ToSet(first), ok))
  BY <1>1, <1>7, <1>9, <1>10, <1>11 DEF Settled
<1> QED
  BY <1>2, <1>9, <1>12 DEF u

\* Before a list is read there is nothing to see.
LEMMA NothingSettles ==
  /\ NoList \in Lists /\ NoPicker.buttons = <<>>
  /\ Settled(NoPicker, NoList, {}) /\ Settled(NoPicker, NoList, Games)
<1>1. NoList \in Lists /\ \A g \in Games : NoList[g] = Absent
  BY DEF NoList, Lists
<1>2. <<>> \in Seq(Games) /\ ToSet(<<>>) = {} /\ IsInjective(<<>>)
  BY EmptySeq DEF ToSet, IsInjective
<1>3. NoPicker \in Pickers /\ Fine(NoPicker)
  BY <1>1, <1>2 DEF NoPicker, Pickers, Fine
<1>4. GamesIn(NoList) = {}
  BY <1>1 DEF GamesIn
<1>5. Follows(NoList, NoList, {}) /\ Follows(NoList, NoList, Games)
  BY <1>1, Distinct DEF Follows
<1>6. NoPicker.buttons = <<>> /\ NoPicker.saved = NoList
  BY DEF NoPicker
<1> QED
  BY <1>1, <1>2, <1>3, <1>4, <1>5, <1>6 DEF Settled

-----------------------------------------------------------------------------
(* The inductive invariant. *)

\* What TypeOK says of the variables that Here leaves out.
RestOK ==
  /\ page \in {"join", "profile", "left"} /\ step \in {1, 2}
  /\ form \in Forms /\ userInfo \in Valid \cup {Unknown} /\ account \in Valid \cup {Unknown}
  /\ ori \in Lists /\ stored \in Lists
  /\ alias \in BOOLEAN /\ popup \in BOOLEAN /\ catalog \in BOOLEAN /\ addable \in BOOLEAN
  /\ kept \in BOOLEAN

Here == Settled(picker, intent, unseen)

Inductive == RestOK /\ Here /\ FormSettled /\ AddReady

\* The inductive invariant is what TLC checks, and AddReady.
LEMMA Parts ==
  Inductive => IInv /\ SavedIsIntended /\ NothingElse /\ AddReady
<1> SUFFICES ASSUME Inductive
             PROVE  IInv /\ SavedIsIntended /\ NothingElse /\ AddReady
  OBVIOUS
<1>1. TypeOK
  BY DEF Inductive, RestOK, Here, Settled, Pickers, TypeOK
<1>2. PickerOK
  BY DEF Inductive, Here, Settled, Fine, Kept, PickerOK
<1>3. SavedIsIntended /\ NothingElse
  BY DEF Inductive, Here, Settled, Follows, SavedIsIntended, NothingElse
<1> QED
  BY <1>1, <1>2, <1>3 DEF Inductive, IInv

\* A request may fail or not.
LEMMA SucceedsTyped == \A fault : Succeeds(fault) \subseteq BOOLEAN
BY DEF Succeeds

\* A page as it is loaded.
LEMMA InitInductive == Init => Inductive
<1> SUFFICES ASSUME Init
             PROVE  Inductive
  OBVIOUS
<1>1. Sent \subseteq Lists
  BY DEF Sent, Lists, Infos
<1>2. NoList \in Lists /\ Settled(NoPicker, NoList, {}) /\ NoPicker.buttons = <<>>
  BY NothingSettles
<1>3. Here
  BY <1>2 DEF Init, Here
<1>4. RestOK
  <2>1. stored \in Lists /\ account \in Valid \cup {Unknown}
    BY <1>1, <1>2 DEF Init
  <2>2. userInfo \in Valid \cup {Unknown}
    BY <2>1 DEF Init
  <2>3. form \in Forms
    BY <2>2, ConstantsAssumption DEF Init
  <2> QED
    BY <1>2, <2>1, <2>2, <2>3, SucceedsTyped DEF Init, RestOK
<1>5. FormSettled /\ AddReady
  BY <1>2 DEF Init, FormSettled, AddReady
<1> QED
  BY <1>3, <1>4, <1>5 DEF Inductive

\* What a save leaves of the picker.
LEMMA SendSettles ==
  ASSUME Here, NEW end, SendGames(end)
  PROVE  Here' /\ picker'.buttons = picker.buttons
<1>1. PICK ok \in Succeeds("game") :
        /\ picker' = IF end = "ok" THEN ClickFirst(picker, ok) ELSE picker
        /\ unseen' = IF picker' = picker THEN unseen
                     ELSE unseen \cup Missed({picker'.selected}, ok)
        /\ intent' = intent
  BY DEF SendGames
<1>2. ok \in BOOLEAN
  BY SucceedsTyped
<1>3. PICK p, q, w, u, v : p = picker /\ q = picker' /\ w = intent /\ u = unseen /\ v = unseen'
  OBVIOUS
<1>4. Settled(p, w, u)
  BY <1>3 DEF Here
<1>5. CASE end = "ok"
  <2>1. q = ClickFirst(p, ok) /\ v = IF q = p THEN u ELSE u \cup Missed({q.selected}, ok)
    BY <1>1, <1>3, <1>5
  <2>2. v = u \cup IF q = p THEN {} ELSE Missed({q.selected}, ok)
    BY <2>1
  <2>3. Settled(q, w, u \cup IF q = p THEN {} ELSE Missed({q.selected}, ok)) /\ q.buttons = p.buttons
    BY <1>2, <1>4, <2>1, ClickSettles
  <2>4. Settled(q, w, v) /\ q.buttons = p.buttons
    BY <2>2, <2>3
  <2> QED
    BY <1>1, <1>3, <2>4 DEF Here
<1>6. CASE end # "ok"
  BY <1>1, <1>3, <1>4, <1>6 DEF Here
<1> QED
  BY <1>5, <1>6

\* What reading the list makes of the picker.
LEMMA GetSettles ==
  ASSUME RestOK, GetGameInfoUser \/ GetNothing
  PROVE  Here' /\ ori' \in Lists
<1>1. CASE GetGameInfoUser
  <2>1. PICK order \in SetToSeqs(GamesIn(stored)), ok \in Succeeds("game"),
             failed \in IF "item" \in Faults THEN SUBSET GamesIn(stored) ELSE {{}} :
          /\ ori' = [g \in Games |-> IF g \in failed THEN Absent ELSE stored[g]]
          /\ intent' = stored
          /\ picker' = ClickFirst([NoPicker EXCEPT !.buttons = order,
               !.saved = [g \in Games |-> IF g \in failed THEN Absent ELSE stored[g]]], ok)
          /\ unseen' = failed \cup {g \in Games : stored[g] = Blank}
               \cup Missed(ToSet(IF order = <<>> THEN <<>> ELSE <<Head(order)>>), ok)
    BY <1>1 DEF GetGameInfoUser
  <2>2. PICK list, q, u, read, first, set :
          /\ list = stored /\ q = picker' /\ u = unseen' /\ read = Read(list, failed)
          /\ first = First(order) /\ set = failed
    OBVIOUS
  <2>3. /\ list \in Lists /\ order \in SetToSeqs(GamesIn(list)) /\ ok \in BOOLEAN
        /\ set \in SUBSET GamesIn(list) /\ read = Read(list, set)
    BY <2>2, SucceedsTyped DEF RestOK
  <2>4. /\ ori' = read /\ intent' = list
        /\ q = ClickFirst(Start(order, read), ok)
        /\ u = set \cup Blanks(list) \cup Missed(ToSet(first), ok)
    BY <2>1, <2>2 DEF Read, Start, First, Blanks
  <2>5. Settled(q, list, u) /\ read \in Lists
    BY <2>2, <2>3, <2>4, ReadSettles
  <2> QED
    BY <2>2, <2>4, <2>5 DEF Here
<1>2. CASE GetNothing
  BY <1>2, NothingSettles DEF GetNothing, Here
<1> QED
  BY <1>1, <1>2

\* Every step keeps the picker settled.
LEMMA NextHere == Inductive /\ [Next]_vars => Here'
<1> SUFFICES ASSUME Inductive, [Next]_vars
             PROVE  Here'
  OBVIOUS
<1>1. Here /\ RestOK
  BY DEF Inductive
<1>2. PICK p, q, w, u : p = picker /\ q = picker' /\ w = intent /\ u = unseen
  OBVIOUS
<1>3. Settled(p, w, u) /\ p \in Pickers /\ p.buttons \in Seq(Games)
  BY <1>1, <1>2, PickerFields DEF Here, Settled
<1>4. ASSUME UNCHANGED <<picker, intent, unseen>>
      PROVE  Here'
  BY <1>1, <1>4 DEF Here
<1>5. ASSUME NEW g \in Games, SelectGame(g)
      PROVE  Here'
  <2>1. PICK ok \in Succeeds("game") :
          picker' = ChangeGameAttr(picker, g, ok) /\ unseen' = unseen \cup Missed({g}, ok)
    BY <1>5 DEF SelectGame
  <2>2. g \in ToSet(p.buttons) /\ intent' = intent
    BY <1>2, <1>3, <1>5, ContainsToSet DEF SelectGame
  <2>3. ok \in BOOLEAN /\ q = ChangeGameAttr(p, g, ok)
    BY <1>2, <2>1, SucceedsTyped
  <2>4. Settled(q, w, u \cup Missed({g}, ok))
    BY <1>3, <2>2, <2>3, SelectSettles
  <2> QED
    BY <1>2, <2>1, <2>2, <2>4 DEF Here
<1>6. ASSUME NEW a \in Answers \cup {NoAnswer}, Answer(a)
      PROVE  Here'
  <2>1. /\ p.box # Empty /\ q = SaveGameAttr([p EXCEPT !.box = a])
        /\ intent' = [w EXCEPT ![p.selected] = a] /\ unseen' = u \ {p.selected}
    BY <1>2, <1>6 DEF Answer
  <2>2. Settled(q, [w EXCEPT ![p.selected] = a], u \ {p.selected})
    BY <1>3, <1>6, <2>1, AnswerSettles
  <2> QED
    BY <1>2, <2>1, <2>2 DEF Here
<1>7. ASSUME NEW g \in Games, DeleteGameInfo(g)
      PROVE  Here'
  <2>1. PICK ok \in Succeeds("game") :
          /\ picker' = RemoveGame(picker, g, ok)
          /\ unseen' = (unseen \ {g})
               \cup IF g = picker.selected THEN Missed({picker'.selected} \ {Absent}, ok) ELSE {}
    BY <1>7 DEF DeleteGameInfo
  <2>2. g \in ToSet(p.buttons) /\ intent' = [w EXCEPT ![g] = Absent]
    BY <1>2, <1>3, <1>7, ContainsToSet DEF DeleteGameInfo
  <2>3. ok \in BOOLEAN /\ q = RemoveGame(p, g, ok)
    BY <1>2, <2>1, SucceedsTyped
  <2>4. Settled(q, [w EXCEPT ![g] = Absent],
          (u \ {g}) \cup IF g = p.selected THEN Missed({q.selected} \ {Absent}, ok) ELSE {})
    BY <1>3, <2>2, <2>3, DeleteSettles
  <2> QED
    BY <1>2, <2>1, <2>2, <2>4 DEF Here
<1>8. ASSUME NEW g \in Games, AddPopupGameInfo(g)
      PROVE  Here'
  <2>1. PICK ok \in Succeeds("game") :
          /\ picker' = ChangeGameAttr([picker EXCEPT !.buttons = Append(@, g)], g, ok)
          /\ unseen' = (unseen \ {g}) \cup Missed({g}, ok)
    BY <1>8 DEF AddPopupGameInfo
  <2>2. g \notin ToSet(p.buttons) /\ intent' = [w EXCEPT ![g] = NoAnswer]
    BY <1>2, <1>3, <1>8, ContainsToSet DEF AddPopupGameInfo
  <2>3. ok \in BOOLEAN /\ q = ChangeGameAttr([p EXCEPT !.buttons = Append(@, g)], g, ok)
    BY <1>2, <2>1, SucceedsTyped
  <2>4. Settled(q, [w EXCEPT ![g] = NoAnswer], (u \ {g}) \cup Missed({g}, ok))
    BY <1>3, <2>2, <2>3, AddSettles
  <2> QED
    BY <1>2, <2>1, <2>2, <2>4 DEF Here
<1>9. CASE ShowGames
  BY <1>1, <1>9, GetSettles DEF ShowGames
<1>10. CASE SaveUserGameInfo
  BY <1>1, <1>10, SendSettles DEF SaveUserGameInfo
<1>11. CASE LeaveGames
  BY <1>1, <1>4, <1>11, SendSettles DEF LeaveGames
<1>12. CASE \E f \in Forms : Type(f)
  BY <1>4, <1>12 DEF Type
<1>13. CASE OpenGameInfoPopup \/ CloseGameInfoPopup
  BY <1>4, <1>13 DEF OpenGameInfoPopup, CloseGameInfoPopup
<1>14. CASE (\E s \in {1, 2} : JoinStep(s)) \/ UserInfoSave \/ SaveUserInfo \/ StayInForm
  BY <1>4, <1>14 DEF JoinStep, UserInfoSave, SaveUserInfo, StayInForm
<1>15. CASE UNCHANGED vars
  BY <1>4, <1>15 DEF vars
<1> QED
  BY <1>5, <1>6, <1>7, <1>8, <1>9, <1>10, <1>11, <1>12, <1>13, <1>14, <1>15 DEF Next

\* Every step keeps the other variables in their types.
LEMMA NextRest == Inductive /\ [Next]_vars => RestOK'
<1> SUFFICES ASSUME Inductive, [Next]_vars
             PROVE  RestOK'
  OBVIOUS
<1>1. RestOK /\ picker.saved \in Lists
  BY PickerFields DEF Inductive, Here, Settled
<1>2. \A buttons : MoreThan(buttons) \in BOOLEAN
  BY DEF MoreThan
<1>3. OpenPopup => popup' \in BOOLEAN /\ catalog' \in BOOLEAN
  BY <1>1 DEF OpenPopup, RestOK
<1>4. CASE UNCHANGED vars
  BY <1>1, <1>4 DEF vars, formVars, popupVars, listVars, RestOK
<1>5. CASE \E f \in Forms : Type(f)
  BY <1>1, <1>5 DEF Type, popupVars, listVars, RestOK
<1>6. CASE \E g \in Games : SelectGame(g) \/ DeleteGameInfo(g) \/ AddPopupGameInfo(g)
  BY <1>1, <1>2, <1>3, <1>6
     DEF SelectGame, DeleteGameInfo, AddPopupGameInfo, formVars, popupVars, listVars, RestOK
<1>7. CASE (\E a \in Answers \cup {NoAnswer} : Answer(a)) \/ OpenGameInfoPopup \/ CloseGameInfoPopup
  BY <1>1, <1>3, <1>7
     DEF Answer, OpenGameInfoPopup, CloseGameInfoPopup, formVars, popupVars, listVars, RestOK
<1>8. CASE \E s \in {1, 2} : JoinStep(s)
  BY <1>1, <1>3, <1>8 DEF JoinStep, formVars, popupVars, listVars, RestOK
<1>9. CASE UserInfoSave
  <2>1. form \in Valid
    BY <1>9 DEF UserInfoSave, Clickable, Inductive, FormSettled
  <2> QED
    BY <1>1, <1>9, <2>1 DEF UserInfoSave, popupVars, listVars, RestOK
<1>10. ASSUME NEW end, NEW reset \in BOOLEAN, form \in Valid, SendUserInfo(end, reset)
       PROVE  /\ form' \in Forms /\ userInfo' \in Valid \cup {Unknown}
              /\ account' \in Valid \cup {Unknown} /\ kept' \in BOOLEAN
  BY <1>1, <1>10, ConstantsAssumption DEF SendUserInfo, RestOK
<1>11. CASE SaveUserInfo
  BY <1>1, <1>10, <1>11 DEF SaveUserInfo, popupVars, listVars, RestOK
<1>12. CASE StayInForm
  BY <1>1, <1>10, <1>12 DEF StayInForm, popupVars, listVars, RestOK
<1>13. CASE ShowGames
  <2>1. ori' \in Lists
    BY <1>1, <1>13, GetSettles DEF ShowGames
  <2>2. /\ form' \in Forms /\ userInfo' \in Valid \cup {Unknown}
        /\ account' \in Valid \cup {Unknown} /\ kept' \in BOOLEAN
    <3>1. CASE ResetForm
      BY <1>1, <3>1, ConstantsAssumption DEF ResetForm, RestOK
    <3> QED
      BY <1>10, <1>13, <3>1 DEF ShowGames
  <2>3. addable' \in BOOLEAN
    BY <1>1, <1>2, <1>13 DEF ShowGames, GetGameInfoUser, GetNothing, RestOK
  <2>4. step' \in {1, 2}
    BY <1>1, <1>13 DEF ShowGames, GetNothing, RestOK
  <2> QED
    BY <1>1, <1>13, <2>1, <2>2, <2>3, <2>4 DEF ShowGames, RestOK
<1>14. ASSUME NEW end, SendGames(end)
       PROVE  stored' \in Lists /\ alias' \in BOOLEAN /\ ori' = ori
  BY <1>1, <1>14 DEF SendGames, RestOK
<1>15. CASE SaveUserGameInfo
  BY <1>1, <1>14, <1>15 DEF SaveUserGameInfo, formVars, popupVars, RestOK
<1>16. CASE LeaveGames
  <2>1. stored' \in Lists /\ alias' \in BOOLEAN /\ ori' = ori /\ step' \in {1, 2}
    BY <1>1, <1>14, <1>16 DEF LeaveGames, listVars, RestOK
  <2> QED
    BY <1>1, <1>16, <2>1 DEF LeaveGames, formVars, popupVars, RestOK
<1> QED
  BY <1>4, <1>5, <1>6, <1>7, <1>8, <1>9, <1>11, <1>12, <1>13, <1>15, <1>16 DEF Next

\* Every step keeps the form settled behind the first step: the steps that
\* change it there are those that lead there.
LEMMA NextForm == Inductive /\ [Next]_vars => FormSettled'
<1> SUFFICES ASSUME Inductive, [Next]_vars
             PROVE  FormSettled'
  OBVIOUS
<1>1. RestOK /\ FormSettled
  BY DEF Inductive
<1>2. ASSUME UNCHANGED <<page, step, formVars>>
      PROVE  FormSettled'
  BY <1>1, <1>2 DEF FormSettled, formVars
<1>3. CASE UNCHANGED vars
  BY <1>2, <1>3 DEF vars
<1>4. CASE \E f \in Forms : Type(f)
  BY <1>4 DEF Type, Clickable, FormSettled
<1>5. CASE \E g \in Games : SelectGame(g) \/ DeleteGameInfo(g) \/ AddPopupGameInfo(g)
  BY <1>2, <1>5 DEF SelectGame, DeleteGameInfo, AddPopupGameInfo
<1>6. CASE (\E a \in Answers \cup {NoAnswer} : Answer(a)) \/ OpenGameInfoPopup \/ CloseGameInfoPopup
  BY <1>2, <1>6 DEF Answer, OpenGameInfoPopup, CloseGameInfoPopup
<1>7. CASE \E s \in {1, 2} : JoinStep(s)
  BY <1>7 DEF JoinStep, formVars, FormSettled
<1>8. CASE UserInfoSave
  <2>1. /\ step = 2 /\ page = "join" /\ page' \in {"join", "left"}
        /\ form' = form
    BY <1>8 DEF UserInfoSave, Clickable
  <2> QED
    BY <1>1, <2>1 DEF FormSettled
<1>9. CASE SaveUserInfo \/ StayInForm
  <2>1. step' = 1
    BY <1>9 DEF SaveUserInfo, StayInForm, Clickable
  <2> QED
    BY <2>1 DEF FormSettled
<1>10. CASE ShowGames
  <2>1. CASE ResetForm
    BY <1>1, <1>10, <2>1 DEF ShowGames, ResetForm, RestOK, FormSettled
  <2>2. ASSUME NEW end \in Ends("save") \ {"cut"}, Edited, SendUserInfo(end, TRUE)
        PROVE  FormSettled'
    <3>1. end \in {"ok", "told", "page"}
      BY DEF Ends
    <3> QED
      BY <1>1, <1>10, <2>2, <3>1 DEF ShowGames, Edited, SendUserInfo, RestOK, FormSettled
  <2> QED
    BY <1>10, <2>1, <2>2 DEF ShowGames
<1>11. CASE SaveUserGameInfo
  BY <1>2, <1>11 DEF SaveUserGameInfo
<1>12. CASE LeaveGames
  BY <1>1, <1>12 DEF LeaveGames, Clickable, formVars, FormSettled
<1> QED
  BY <1>3, <1>4, <1>5, <1>6, <1>7, <1>8, <1>9, <1>10, <1>11, <1>12 DEF Next

\* While a game has no button, there are not as many buttons as games.
LEMMA MoreToAdd ==
  ASSUME NEW s \in Seq(Games), IsInjective(s), s # <<>>, ToSet(s) # Games
  PROVE  MoreThan(s)
<1>1. Len(s) \in Nat /\ Len(s) < Cardinality(Games)
  BY Counted
<1>2. Len(s) # 0
  BY <1>1, EmptySeq, LenProperties
<1>3. Cardinality(Games) \in Nat
  BY Distinct, FS_CardinalityType
<1> QED
  BY <1>1, <1>2, <1>3 DEF MoreThan

\* A list that has been read is checked with one button of perhaps many: one
\* is still too few when a game is left.
LEMMA ReadOffers ==
  ASSUME RestOK, GetGameInfoUser, picker'.buttons # <<>>, ToSet(picker'.buttons) # Games
  PROVE  addable'
<1>1. PICK order \in SetToSeqs(GamesIn(stored)), ok \in Succeeds("game"),
           failed \in IF "item" \in Faults THEN SUBSET GamesIn(stored) ELSE {{}} :
        /\ picker' = ClickFirst([NoPicker EXCEPT !.buttons = order,
             !.saved = [g \in Games |-> IF g \in failed THEN Absent ELSE stored[g]]], ok)
        /\ addable' = IF order = <<>> THEN addable
                      ELSE MoreThan(IF order = <<>> THEN <<>> ELSE <<Head(order)>>)
  BY DEF GetGameInfoUser
<1>2. PICK list, q, set, read, first, v :
        /\ list = stored /\ q = picker' /\ set = failed /\ read = Read(list, failed)
        /\ first = First(order) /\ v = set \cup Blanks(list) \cup Missed(ToSet(first), ok)
  OBVIOUS
<1>3. /\ list \in Lists /\ order \in SetToSeqs(GamesIn(list)) /\ ok \in BOOLEAN
      /\ set \in SUBSET GamesIn(list) /\ read = Read(list, set)
  BY <1>2, SucceedsTyped DEF RestOK
<1>4. q = ClickFirst(Start(order, read), ok)
  BY <1>1, <1>2 DEF Read, Start
<1>5. q.buttons = order
  BY <1>2, <1>3, <1>4, ReadSettles
<1>6. order # <<>> /\ ToSet(order) # Games
  BY <1>2, <1>5
<1>7. PICK g : g = Head(order)
  OBVIOUS
<1>8. addable' = MoreThan(<<g>>)
  BY <1>1, <1>6, <1>7
<1>9. order \in Seq(Games) /\ IsInjective(order) /\ ToSet(order) \subseteq Games
  BY <1>3, Ordered, ToSetFacts DEF GamesIn
<1>10. g \in ToSet(order) /\ g \in Games
  BY <1>6, <1>7, <1>9, ToSetFacts
<1>11. PICK s : s = <<g>>
  OBVIOUS
<1>12. s \in Seq(Games) /\ IsInjective(s) /\ s # <<>> /\ ToSet(s) = {g}
  BY <1>10, <1>11 DEF IsInjective, ToSet
<1>13. ToSet(s) # Games
  BY <1>6, <1>9, <1>10, <1>12
<1> QED
  BY <1>8, <1>11, <1>12, <1>13, MoreToAdd

\* Every step leaves the button that adds a game shown while there is one.
LEMMA NextAdd == Inductive /\ [Next]_vars => AddReady'
<1> SUFFICES ASSUME Inductive, [Next]_vars, picker'.buttons # <<>>, ToSet(picker'.buttons) # Games
             PROVE  addable'
  BY DEF AddReady
<1>1. RestOK /\ AddReady
  BY DEF Inductive
<1>2. picker'.buttons \in Seq(Games) /\ IsInjective(picker'.buttons)
  <2>1. PICK q : q = picker'
    OBVIOUS
  <2>2. q \in Pickers /\ Fine(q)
    BY <2>1, NextHere DEF Here, Settled
  <2> QED
    BY <2>1, <2>2, PickerFields, FineBoxed
<1>3. ASSUME addable' = MoreThan(picker'.buttons)
      PROVE  addable'
  BY <1>2, <1>3, MoreToAdd
<1>4. ASSUME picker'.buttons = picker.buttons, addable' = addable
      PROVE  addable'
  BY <1>1, <1>4 DEF AddReady
<1>5. Here
  BY DEF Inductive
<1>6. CASE UNCHANGED vars
  BY <1>4, <1>6 DEF vars, popupVars
<1>7. CASE (\E f \in Forms : Type(f)) \/ OpenGameInfoPopup \/ CloseGameInfoPopup
  BY <1>4, <1>7 DEF Type, OpenGameInfoPopup, CloseGameInfoPopup, popupVars
<1>8. ASSUME NEW g \in Games, SelectGame(g)
      PROVE  addable'
  <2>1. PICK ok \in Succeeds("game") : picker' = ChangeGameAttr(picker, g, ok)
    BY <1>8 DEF SelectGame
  <2>2. PICK p, q : p = picker /\ q = picker'
    OBVIOUS
  <2>3. /\ p \in Pickers /\ Boxed(p) /\ IsInjective(p.buttons) /\ ok \in BOOLEAN
        /\ p.buttons \in Seq(Games)
    BY <1>5, <2>2, SucceedsTyped, FineBoxed, PickerFields DEF Here, Settled
  <2>4. g \in ToSet(p.buttons)
    BY <1>8, <2>2, <2>3, ContainsToSet DEF SelectGame
  <2>5. q = ChangeGameAttr(p, g, ok)
    BY <2>1, <2>2
  <2>6. /\ q \in Pickers /\ Fine(q) /\ q.buttons = p.buttons
        /\ q.saved = [p.saved EXCEPT ![g] = Kept(Shown(p.saved, g, ok))]
    BY <1>8, <2>3, <2>4, <2>5, ChangeFine
  <2> QED
    BY <1>4, <1>8, <2>2, <2>6 DEF SelectGame, popupVars
<1>9. CASE \E g \in Games : DeleteGameInfo(g) \/ AddPopupGameInfo(g)
  BY <1>3, <1>9 DEF DeleteGameInfo, AddPopupGameInfo
<1>10. ASSUME NEW a \in Answers \cup {NoAnswer}, Answer(a)
       PROVE  addable'
  <2>1. PICK p, q, w, u : p = picker /\ q = picker' /\ w = intent /\ u = unseen
    OBVIOUS
  <2>2. /\ Settled(p, w, u) /\ p.box # Empty
        /\ q = SaveGameAttr([p EXCEPT !.box = a])
    BY <1>5, <1>10, <2>1 DEF Answer, Here
  <2>3. /\ Settled(q, [w EXCEPT ![p.selected] = a], u \ {p.selected})
        /\ q.buttons = p.buttons
    BY <1>10, <2>2, AnswerSettles
  <2> QED
    BY <1>4, <1>10, <2>1, <2>3 DEF Answer, popupVars
<1>11. CASE (\E s \in {1, 2} : JoinStep(s)) \/ UserInfoSave \/ SaveUserInfo \/ StayInForm
  BY <1>4, <1>11 DEF JoinStep, UserInfoSave, SaveUserInfo, StayInForm, popupVars
<1>12. CASE ShowGames
  <2>1. CASE GetGameInfoUser
    BY <1>1, <2>1, ReadOffers
  <2>2. CASE GetNothing
    BY <2>2, NothingSettles DEF GetNothing
  <2> QED
    BY <1>12, <2>1, <2>2 DEF ShowGames
<1>13. CASE SaveUserGameInfo
  BY <1>4, <1>5, <1>13, SendSettles DEF SaveUserGameInfo, popupVars
<1>14. CASE LeaveGames
  BY <1>4, <1>5, <1>14, SendSettles DEF LeaveGames, popupVars
<1> QED
  BY <1>6, <1>7, <1>8, <1>9, <1>10, <1>11, <1>12, <1>13, <1>14 DEF Next

\* The invariant is inductive.
LEMMA InductiveInvariant == Spec => []Inductive
<1>1. Inductive /\ [Next]_vars => Inductive'
  BY NextHere, NextRest, NextForm, NextAdd DEF Inductive
<1> QED
  BY <1>1, InitInductive, PTL DEF Spec

-----------------------------------------------------------------------------
(* The properties. *)

\* One button for each game, one of them selected, its box the one of that
\* game; and a form that is saved, taken back or valid behind the first step.
THEOREM Invariance == Spec => []IInv
BY Parts, InductiveInvariant, PTL

\* What would be sent for a game is what its user has seen and chosen, but for
\* games of which a request has failed.
THEOREM SavesWhatWasChosen == Spec => []SavedIsIntended
BY Parts, InductiveInvariant, PTL

\* A user who has some of the games is offered the others.
THEOREM OffersTheOthers == Spec => []AddOffered
<1>1. AddReady => AddOffered
  BY DEF AddReady, AddOffered
<1> QED
  BY <1>1, Parts, InductiveInvariant, PTL

\* Two lists are found equal just when they are, provided the old one has no
\* entry without attributes: it is as long as the new one and within it.
LEMMA Compared ==
  ASSUME NEW old \in Lists, NEW new \in Lists, \A g \in Games : old[g] # Blank
  PROVE  CompareGameInfoLists(old, new) <=> new # old
<1>1. CASE new = old
  BY <1>1 DEF CompareGameInfoLists, GamesIn
<1>2. ASSUME ~CompareGameInfoLists(old, new)
      PROVE  new = old
  <2>1. /\ Cardinality(GamesIn(old)) = Cardinality(GamesIn(new))
        /\ \A g \in GamesIn(old) : new[g] # Absent /\ old[g] = new[g]
    BY <1>2 DEF CompareGameInfoLists, GamesIn
  <2>2. GamesIn(old) \subseteq GamesIn(new)
    BY <2>1 DEF GamesIn
  <2>3. IsFiniteSet(GamesIn(new))
    <3>1. GamesIn(new) \in SUBSET Games
      BY DEF GamesIn
    <3> QED
      BY <3>1, Distinct, FS_Subset
  <2>4. GamesIn(new) = GamesIn(old)
    BY <2>1, <2>2, <2>3, FS_Subset
  <2>5. \A g \in Games : new[g] = old[g]
    BY <2>1, <2>4 DEF GamesIn
  <2> QED
    BY <2>5 DEF Lists
<1> QED
  BY <1>1, <1>2

\* The user is asked to save the list just when it is not what the server has.
THEOREM AsksJustWhenEdited == Spec => []AsksWhenEdited
<1>1. Inductive => AsksWhenEdited
  <2> SUFFICES ASSUME Inductive, ~alias, unseen = {},
                      \A g \in Games : ori[g] = stored[g] /\ ori[g] # Blank
               PROVE  CompareGameInfoLists(Ori, picker.saved) <=> intent # stored
    BY DEF AsksWhenEdited
  <2>1. /\ picker.saved \in Lists /\ intent \in Lists /\ ori \in Lists /\ stored \in Lists
        /\ \A g \in Games \ unseen : picker.saved[g] = intent[g]
    BY PickerFields DEF Inductive, RestOK, Here, Settled, Follows
  <2>2. picker.saved = intent
    BY <2>1 DEF Lists
  <2>3. ori = stored
    BY <2>1 DEF Lists
  <2>4. Ori = ori
    BY DEF Ori
  <2> QED
    BY <2>1, <2>2, <2>3, <2>4, Compared
<1> QED
  BY <1>1, InductiveInvariant, PTL
=============================================================================
