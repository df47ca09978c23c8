--------------------------- MODULE ListingsProofs ---------------------------
(***************************************************************************)
(* The queries beside the requests: they disturb nothing that is proved of *)
(* the requests, show the groups at rest as they are, and rank by how well *)
(* a group fits.                                                           *)
(***************************************************************************)
EXTENDS Listings, GroupStoresProofs, SequenceTheorems, FunctionTheorems,
        WellFoundedInduction

\* Somebody who plays on one day: the hours are left open, or end after they
\* begin.
SameDay(w) == w.start = NoTime \/ w.end = NoTime \/ w.start < w.end

\* Hours are covered exactly when the ends are.
LEMMA WithinIsSubset ==
  ASSUME NEW u \in Wish, NEW g \in Wish, u.start < u.end, g.start < g.end,
         u.start # NoTime, u.end # NoTime, g.start # NoTime, g.end # NoTime
  PROVE  Within(u, g) <=> HoursOf(u) \subseteq HoursOf(g)
<1>1. /\ u.start \in Hours /\ u.end \in Hours
      /\ g.start \in Hours /\ g.end \in Hours
  BY DEF Wish
<1>2. ASSUME Within(u, g) PROVE HoursOf(u) \subseteq HoursOf(g)
  BY <1>1, <1>2 DEF Within, HoursOf, Hours
<1>3. ASSUME HoursOf(u) \subseteq HoursOf(g) PROVE Within(u, g)
  <2>1. u.start \in HoursOf(u) /\ u.end - 1 \in HoursOf(u)
    BY <1>1 DEF HoursOf, Hours
  <2>2. u.start \in HoursOf(g) /\ u.end - 1 \in HoursOf(g)
    BY <2>1, <1>3
  <2> QED
    BY <1>1, <2>2 DEF Within, HoursOf, Hours
<1> QED
  BY <1>2, <1>3

\* The last branch asks whether there is a common hour.
LEMMA MeetIsCommonHour ==
  ASSUME NEW u \in Wish, NEW g \in Wish, u.start < u.end, g.start < g.end,
         u.start # NoTime, u.end # NoTime, g.start # NoTime, g.end # NoTime
  PROVE  (u.start < g.end /\ g.start < u.end)
           <=> HoursOf(u) \cap HoursOf(g) # {}
<1>1. /\ u.start \in Hours /\ u.end \in Hours
      /\ g.start \in Hours /\ g.end \in Hours
  BY DEF Wish
<1>2. ASSUME u.start < g.end, g.start < u.end
      PROVE  HoursOf(u) \cap HoursOf(g) # {}
  <2>1. CASE u.start <= g.start
    <3>1. g.start \in HoursOf(u) \cap HoursOf(g)
      BY <1>1, <1>2, <2>1 DEF HoursOf, Hours
    <3> QED BY <3>1
  <2>2. CASE g.start < u.start
    <3>1. u.start \in HoursOf(u) \cap HoursOf(g)
      BY <1>1, <1>2, <2>2 DEF HoursOf, Hours
    <3> QED BY <3>1
  <2> QED
    BY <1>1, <2>1, <2>2 DEF Hours
<1>3. ASSUME HoursOf(u) \cap HoursOf(g) # {}
      PROVE  u.start < g.end /\ g.start < u.end
  <2>1. PICK h \in Hours : h \in HoursOf(u) /\ h \in HoursOf(g)
    BY <1>3 DEF HoursOf
  <2> QED
    BY <1>1, <2>1 DEF HoursOf, Hours
<1> QED
  BY <1>2, <1>3

\* The four comparisons of findRcmGroupByGameId (140-155), tried in their order,
\* tell whether the hours of a user and of a group contain each other, meet or
\* miss, for all hours that do not run past midnight.
THEOREM HoursScored ==
  ASSUME NEW u \in Wish, NEW g \in Wish, SameDay(u), SameDay(g)
  PROVE  TimeScore(u, g) = Together(u, g)
<1>1. CASE NoTime \in {u.start, u.end, g.start, g.end}
  BY <1>1 DEF TimeScore, Together
<1>2. CASE NoTime \notin {u.start, u.end, g.start, g.end}
  <2>1. /\ u.start < u.end /\ g.start < g.end
        /\ u.start # NoTime /\ u.end # NoTime
        /\ g.start # NoTime /\ g.end # NoTime
    BY <1>2 DEF SameDay
  <2>2. Within(u, g) <=> HoursOf(u) \subseteq HoursOf(g)
    BY <2>1, WithinIsSubset
  <2>3. Within(g, u) <=> HoursOf(g) \subseteq HoursOf(u)
    BY <2>1, WithinIsSubset
  <2>4. (u.start < g.end /\ g.start < u.end)
          <=> HoursOf(u) \cap HoursOf(g) # {}
    BY <2>1, MeetIsCommonHour
  <2> QED
    BY <1>2, <2>2, <2>3, <2>4, Zenon DEF TimeScore, Together
<1> QED
  BY <1>1, <1>2

\* What the comparisons make of a night.  A group that plays past midnight gets
\* no point from a user who begins after it and ends on the same evening, though
\* all the user's hours are the group's: the user's end is after the group's and
\* the last branch (153) compares with an end that is early in the day.
THEOREM NightsMissed ==
  ASSUME NEW u \in Wish, NEW g \in Wish,
         NoTime \notin {u.start, u.end, g.start, g.end},
         u.start < u.end, g.end < g.start, g.start < u.start
  PROVE  TimeScore(u, g) = 0
<1>1. /\ u.start \in Hours /\ u.end \in Hours
      /\ g.start \in Hours /\ g.end \in Hours
  BY DEF Wish
<1>2. ~Within(u, g) /\ ~Within(g, u) /\ ~(u.start < g.end /\ g.start < u.end)
  BY <1>1 DEF Within, Hours
<1> QED BY <1>2, Zenon DEF TimeScore

\* The example beside the branch of 8 points (148), a group from 14 to 17 and a
\* user from 15 to 16, is given 10 by the branch before it.
THEOREM CommentedHours ==
  ASSUME NEW u \in Wish, NEW g \in Wish,
         u.start = 15, u.end = 16, g.start = 14, g.end = 17
  PROVE  TimeScore(u, g) = 10
  BY DEF TimeScore, Within, NoTime

-----------------------------------------------------------------------------
(* The score of a group is how well it fits. *)

\* A sum of scores, gathered by the score.
Scores == {0, 3, 5, 10}
Worth(p, n, s) == Cardinality({k \in s : p[k] = n})
Gathered(p, s) == 3 * Worth(p, 3, s) + 5 * Worth(p, 5, s) + 10 * Worth(p, 10, s)

LEMMA WorthOfOne ==
  ASSUME NEW K, IsFiniteSet(K), NEW p, NEW s \in SUBSET K, NEW x \in s, NEW n
  PROVE  /\ Worth(p, n, s) \in Nat
         /\ Worth(p, n, s \ {x}) \in Nat
         /\ Worth(p, n, s) = Worth(p, n, s \ {x}) + (IF p[x] = n THEN 1 ELSE 0)
<1>1. PICK A : A = {k \in s : p[k] = n}
  OBVIOUS
<1>2. IsFiniteSet(A)
  BY <1>1, FS_Subset
<1>3. {k \in s \ {x} : p[k] = n} = A \ {x} /\ (x \in A <=> p[x] = n)
  BY <1>1
<1>4. /\ IsFiniteSet(A \ {x})
      /\ Cardinality(A \ {x}) = IF x \in A THEN Cardinality(A) - 1 ELSE Cardinality(A)
      /\ Cardinality(A) \in Nat /\ Cardinality(A \ {x}) \in Nat
  BY <1>2, FS_RemoveElement, FS_CardinalityType
<1>5. Worth(p, n, s) = Cardinality(A) /\ Worth(p, n, s \ {x}) = Cardinality(A \ {x})
  BY <1>1, <1>3, Zenon DEF Worth
<1>6. Cardinality(A \ {x}) + (IF x \in A THEN 1 ELSE 0) = Cardinality(A)
  BY <1>4
<1> QED BY <1>3, <1>4, <1>5, <1>6

LEMMA GatheredStep ==
  ASSUME NEW K, IsFiniteSet(K), NEW p \in [K -> Scores],
         NEW s \in SUBSET K, NEW x \in s
  PROVE  Gathered(p, s) = p[x] + Gathered(p, s \ {x})
<1>1. \A n : /\ Worth(p, n, s) \in Nat /\ Worth(p, n, s \ {x}) \in Nat
             /\ Worth(p, n, s) = Worth(p, n, s \ {x}) + (IF p[x] = n THEN 1 ELSE 0)
  BY WorthOfOne
<1>2. p[x] \in Scores
  OBVIOUS
<1> DEFINE W(n) == Worth(p, n, s)
           V(n) == Worth(p, n, s \ {x})
<1>3. \A n : W(n) \in Nat /\ V(n) \in Nat /\ W(n) = V(n) + (IF p[x] = n THEN 1 ELSE 0)
  BY <1>1
<1>4. /\ Gathered(p, s) = 3 * W(3) + 5 * W(5) + 10 * W(10)
      /\ Gathered(p, s \ {x}) = 3 * V(3) + 5 * V(5) + 10 * V(10)
  BY DEF Gathered
<1>5. PICK a, b, c, d, e, f :
        /\ a = W(3) /\ b = W(5) /\ c = W(10) /\ d = V(3) /\ e = V(5) /\ f = V(10)
  OBVIOUS
<1> HIDE DEF W, V
<1>6. /\ a \in Nat /\ b \in Nat /\ c \in Nat /\ d \in Nat /\ e \in Nat /\ f \in Nat
      /\ a = d + (IF p[x] = 3 THEN 1 ELSE 0)
      /\ b = e + (IF p[x] = 5 THEN 1 ELSE 0)
      /\ c = f + (IF p[x] = 10 THEN 1 ELSE 0)
  BY <1>3, <1>5
<1> QED BY <1>2, <1>4, <1>5, <1>6 DEF Scores

LEMMA GatheredNothing == \A p : Gathered(p, {}) = 0
<1>1. \A p, n : Worth(p, n, {}) = 0
  BY FS_EmptySet DEF Worth
<1> QED BY <1>1 DEF Gathered

\* The function MapThenSumSet defines: it takes away one member after another.
AddsUp(iter, p, K) ==
  iter = [s \in SUBSET K |->
            IF s = {} THEN 0
            ELSE p[CHOOSE x \in s : TRUE] + iter[s \ {CHOOSE x \in s : TRUE}]]

\* However the members are chosen, it adds them up.
LEMMA FoldGathers ==
  ASSUME NEW K, IsFiniteSet(K), NEW p \in [K -> Scores], NEW iter,
         AddsUp(iter, p, K)
  PROVE  iter[K] = Gathered(p, K)
<1> DEFINE Wrong == {s \in SUBSET K : iter[s] # Gathered(p, s)}
<1>1. ASSUME Wrong # {} PROVE FALSE
  <2>1. IsWellFoundedOn(StrictSubsetOrdering(K), SUBSET K)
    BY FS_StrictSubsetOrderingWellFounded, FS_FiniteSubsetsOfFinite
  <2>2. PICK s \in Wrong : \A t \in Wrong : <<t, s>> \notin StrictSubsetOrdering(K)
    <3> HIDE DEF Wrong
    <3>1. Wrong \subseteq SUBSET K
      BY DEF Wrong
    <3> QED BY <1>1, <2>1, <3>1, WFMin
  <2>3. CASE s = {}
    <3>1. iter[{}] = 0
      BY DEF AddsUp
    <3> QED BY <2>2, <2>3, <3>1, GatheredNothing
  <2>4. CASE s # {}
    <3>1. PICK x : x = CHOOSE y \in s : TRUE
      OBVIOUS
    <3>2. x \in s /\ s \in SUBSET K
      BY <2>4, <3>1
    <3>3. iter[s] = p[x] + iter[s \ {x}]
      BY <2>4, <3>1, <3>2 DEF AddsUp
    <3>4. <<s \ {x}, s>> \in StrictSubsetOrdering(K)
      BY <3>2 DEF StrictSubsetOrdering
    <3>5. iter[s \ {x}] = Gathered(p, s \ {x})
      BY <2>2, <3>2, <3>4
    <3> QED BY <3>2, <3>3, <3>5, GatheredStep
  <2> QED BY <2>3, <2>4
<1> QED BY <1>1

LEMMA FoldExists ==
  ASSUME NEW K, IsFiniteSet(K), NEW p \in [K -> Scores]
  PROVE  \E iter : AddsUp(iter, p, K)
<1>1. PICK it : it = [s \in SUBSET K |-> Gathered(p, s)]
  OBVIOUS
<1>2. ASSUME NEW s \in SUBSET K
      PROVE  it[s] = IF s = {} THEN 0
                     ELSE p[CHOOSE x \in s : TRUE]
                            + it[s \ {CHOOSE x \in s : TRUE}]
  <2>1. CASE s = {}
    BY <1>1, <2>1, GatheredNothing
  <2>2. CASE s # {}
    <3>1. PICK x : x = CHOOSE y \in s : TRUE
      OBVIOUS
    <3>2. x \in s
      BY <2>2, <3>1
    <3>3. it[s] = Gathered(p, s) /\ it[s \ {x}] = Gathered(p, s \ {x})
      BY <1>1, <3>2
    <3>4. it[s] = p[x] + it[s \ {x}]
      BY <3>2, <3>3, GatheredStep
    <3> QED BY <2>2, <3>1, <3>4
  <2> QED BY <2>1, <2>2
<1>3. AddsUp(it, p, K)
  BY <1>1, <1>2 DEF AddsUp
<1> QED BY <1>3

LEMMA SumGathers ==
  ASSUME NEW u, NEW g, IsFiniteSet(DOMAIN u.info),
         NEW p, p = [k \in DOMAIN u.info |-> AttrScore(u.info[k], Said(g.info, k))]
  PROVE  MapThenSumSet(LAMBDA key : AttrScore(u.info[key], Said(g.info, key)),
                       DOMAIN u.info) = Gathered(p, DOMAIN u.info)
<1> DEFINE K == DOMAIN u.info
           Fold(f) == f = [s \in SUBSET K |->
                   IF s = {} THEN 0
                   ELSE AttrScore(u.info[CHOOSE x \in s : TRUE], Said(g.info, CHOOSE x \in s : TRUE))
                          + f[s \ {CHOOSE x \in s : TRUE}]]
           iter == CHOOSE f : Fold(f)
<1>1. p \in [K -> Scores]
  BY DEF AttrScore, Scores
<1>2. ASSUME NEW f PROVE Fold(f) <=> AddsUp(f, p, K)
  <2>1. \A s \in SUBSET K : s # {} =>
          p[CHOOSE x \in s : TRUE]
            = AttrScore(u.info[CHOOSE x \in s : TRUE], Said(g.info, CHOOSE x \in s : TRUE))
    OBVIOUS
  <2> QED BY <2>1 DEF AddsUp
<1>3. \E f : Fold(f)
  <2>1. PICK f : AddsUp(f, p, K)
    BY <1>1, FoldExists
  <2> HIDE DEF Fold
  <2> QED BY <1>2, <2>1
<1>4. Fold(iter)
  <2> HIDE DEF Fold
  <2> QED BY <1>3
<1>6. iter[K] = Gathered(p, K)
  <2> HIDE DEF iter, Fold
  <2> QED BY <1>1, <1>2, <1>4, FoldGathers
<1>5. MapThenSumSet(LAMBDA key : AttrScore(u.info[key], Said(g.info, key)), K)
        = iter[K]
  BY DEF MapThenSumSet, MapThenFoldSet
<1> QED BY <1>5, <1>6

\* The score of the attributes (116-130), gathered: 10 for what both want, 5 for
\* what the user leaves open, 3 for what the group does.
LEMMA AttrsGathered ==
  ASSUME NEW u \in Wish, NEW g \in Wish
  PROVE  LET named == {k \in DOMAIN u.info : u.info[k] # Open}
             left == {k \in named : Said(g.info, k) = Open}
             met == {k \in named : Said(g.info, k) = u.info[k]}
         IN  \E attrs \in Nat :
               /\ Total(u, g) = attrs + TimeScore(u, g)
               /\ attrs = 5 * Cardinality(DOMAIN u.info \ named)
                            + 3 * Cardinality(left) + 10 * Cardinality(met)
<1> DEFINE K == DOMAIN u.info
           named == {k \in K : u.info[k] # Open}
           left == {k \in named : Said(g.info, k) = Open}
           met == {k \in named : Said(g.info, k) = u.info[k]}
<1>1. PICK p : p = [k \in K |-> AttrScore(u.info[k], Said(g.info, k))]
  OBVIOUS
<1>2. IsFiniteSet(K)
  BY WishAssumption, FS_Subset DEF Wish
<1>3. MapThenSumSet(LAMBDA key : AttrScore(u.info[key], Said(g.info, key)), K)
        = Gathered(p, K)
  BY <1>1, <1>2, SumGathers
<1>4. /\ {k \in K : p[k] = 5} = K \ named
      /\ {k \in K : p[k] = 3} = left
      /\ {k \in K : p[k] = 10} = met
  BY <1>1 DEF AttrScore
<1>5. /\ Worth(p, 5, K) = Cardinality(K \ named)
      /\ Worth(p, 3, K) = Cardinality(left)
      /\ Worth(p, 10, K) = Cardinality(met)
  BY <1>4, Zenon DEF Worth
<1>6. /\ Cardinality(K \ named) \in Nat
      /\ Cardinality(left) \in Nat /\ Cardinality(met) \in Nat
  <2>1. IsFiniteSet(K \ named) /\ IsFiniteSet(left) /\ IsFiniteSet(met)
    BY <1>2, FS_Subset
  <2> QED BY <2>1, FS_CardinalityType
<1>7. Total(u, g) = Gathered(p, K) + TimeScore(u, g)
  BY <1>3, Zenon DEF Total
<1>8. Gathered(p, K) = 3 * Cardinality(left) + 5 * Cardinality(K \ named)
                         + 10 * Cardinality(met)
  BY <1>5 DEF Gathered
<1> HIDE DEF left, met, named, K
<1>9. PICK a, b, c : a = Cardinality(K \ named) /\ b = Cardinality(left) /\ c = Cardinality(met)
  OBVIOUS
<1>10. Gathered(p, K) \in Nat /\ Gathered(p, K) = 5 * a + 3 * b + 10 * c
  BY <1>6, <1>8, <1>9
<1> QED BY <1>7, <1>9, <1>10 DEF left, met, named, K

LEMMA TotalNat ==
  ASSUME NEW u \in Wish, NEW g \in Wish
  PROVE  Total(u, g) \in Nat
<1>1. PICK attrs \in Nat : Total(u, g) = attrs + TimeScore(u, g)
  BY AttrsGathered, Zenon
<1>2. TimeScore(u, g) \in Nat
  BY DEF TimeScore
<1> QED BY <1>1, <1>2

\* The total of findRcmGroupByGameId (116-155), a sum over the attributes of the
\* user and one for the hours, is how well the group fits: 10 for what both
\* want, 5 for what the user leaves open, 3 for what the group does, and the
\* hours as they lie to each other, for all who play on one day.
THEOREM TotalIsFit ==
  ASSUME NEW u \in Wish, NEW g \in Wish, SameDay(u), SameDay(g)
  PROVE  Total(u, g) = Fit(u, g)
<1> DEFINE K == DOMAIN u.info
           named == {k \in K : u.info[k] # Open}
           left == {k \in named : Said(g.info, k) = Open}
           met == {k \in named : Said(g.info, k) = u.info[k]}
<1>1. PICK attrs \in Nat :
        /\ Total(u, g) = attrs + TimeScore(u, g)
        /\ attrs = 5 * Cardinality(K \ named) + 3 * Cardinality(left)
                     + 10 * Cardinality(met)
  BY AttrsGathered, Zenon
<1>2. TimeScore(u, g) = Together(u, g) /\ Together(u, g) \in Nat
  BY HoursScored DEF Together
<1>3. Fit(u, g) = Together(u, g) + 5 * Cardinality(K \ named)
                    + 3 * Cardinality(left) + 10 * Cardinality(met)
  BY Zenon DEF Fit
<1>4. /\ Cardinality(K \ named) \in Nat
      /\ Cardinality(left) \in Nat /\ Cardinality(met) \in Nat
  <2>1. IsFiniteSet(K)
    BY WishAssumption, FS_Subset DEF Wish
  <2>2. IsFiniteSet(K \ named) /\ IsFiniteSet(left) /\ IsFiniteSet(met)
    BY <2>1, FS_Subset
  <2> QED BY <2>2, FS_CardinalityType
<1> HIDE DEF left, met, named, K
<1>5. PICK a, b, c : a = Cardinality(K \ named) /\ b = Cardinality(left) /\ c = Cardinality(met)
  OBVIOUS
<1> QED BY <1>1, <1>2, <1>3, <1>4, <1>5

-----------------------------------------------------------------------------
(* The order of a recommendation. *)

\* What comes first of the members 1..n, by their totals, and how many come
\* before one.
Pre(t, i, j) == t[i] > t[j] \/ (t[i] = t[j] /\ i < j)
Pos(t, n, i) == 1 + Cardinality({j \in 1..n : Pre(t, j, i)})

\* Every place is taken once, in order.
LEMMA PlacesTaken ==
  ASSUME NEW n \in Nat, NEW t \in [1..n -> Nat]
  PROVE  /\ \A i \in 1..n : Pos(t, n, i) \in 1..n
         /\ \A m \in 1..n : \E i \in 1..n : Pos(t, n, i) = m
         /\ \A i, j \in 1..n : Pre(t, i, j) <=> Pos(t, n, i) < Pos(t, n, j)
         /\ \A i, j \in 1..n : Pos(t, n, i) = Pos(t, n, j) => i = j
<1> DEFINE Fore(i) == {j \in 1..n : Pre(t, j, i)}
<1>1. IsFiniteSet(1..n) /\ Cardinality(1..n) = n
  BY FS_Interval
<1>2. ASSUME NEW i \in 1..n
      PROVE  /\ IsFiniteSet(Fore(i)) /\ Cardinality(Fore(i)) \in Nat
             /\ Pos(t, n, i) = 1 + Cardinality(Fore(i))
             /\ Pos(t, n, i) \in 1..n
  <2>1. Fore(i) \in SUBSET (1..n) /\ i \notin Fore(i)
    BY DEF Pre
  <2>2. /\ IsFiniteSet(Fore(i)) /\ Cardinality(Fore(i)) <= n
        /\ Cardinality(1..n) = Cardinality(Fore(i)) => 1..n = Fore(i)
    <3> HIDE DEF Fore
    <3> QED BY <1>1, <2>1, FS_Subset
  <2>3. Cardinality(Fore(i)) \in Nat
    BY <2>2, FS_CardinalityType
  <2>4. Pos(t, n, i) = 1 + Cardinality(Fore(i))
    BY DEF Pos
  <2> HIDE DEF Fore
  <2> QED BY <1>1, <2>1, <2>2, <2>3, <2>4
<1>3. ASSUME NEW i \in 1..n, NEW j \in 1..n, Pre(t, i, j)
      PROVE  Pos(t, n, i) < Pos(t, n, j)
  <2>1. Fore(i) \subseteq Fore(j) /\ i \in Fore(j) /\ i \notin Fore(i)
    <3>1. \A k \in 1..n : Pre(t, k, i) => Pre(t, k, j)
      BY <1>3 DEF Pre
    <3> QED BY <1>3, <3>1 DEF Pre
  <2>2. /\ Cardinality(Fore(i)) <= Cardinality(Fore(j))
        /\ Cardinality(Fore(j)) = Cardinality(Fore(i)) => Fore(j) = Fore(i)
    <3> HIDE DEF Fore
    <3> QED BY <1>2, <2>1, FS_Subset
  <2> HIDE DEF Fore
  <2> QED BY <1>2, <2>1, <2>2
<1>4. \A i, j \in 1..n : Pre(t, i, j) \/ Pre(t, j, i) \/ i = j
  BY DEF Pre
<1>5. \A i, j \in 1..n : Pre(t, i, j) <=> Pos(t, n, i) < Pos(t, n, j)
  <2> SUFFICES ASSUME NEW i \in 1..n, NEW j \in 1..n,
                      Pos(t, n, i) < Pos(t, n, j)
               PROVE  Pre(t, i, j)
    BY <1>3
  <2>1. Pos(t, n, i) \in 1..n /\ Pos(t, n, j) \in 1..n
    BY <1>2
  <2>2. ~Pre(t, j, i) /\ i # j
    BY <1>3, <2>1
  <2> QED BY <1>4, <2>2
<1>6. \A i, j \in 1..n : Pos(t, n, i) = Pos(t, n, j) => i = j
  <2> SUFFICES ASSUME NEW i \in 1..n, NEW j \in 1..n,
                      Pos(t, n, i) = Pos(t, n, j), i # j
               PROVE  FALSE
    OBVIOUS
  <2>1. Pos(t, n, i) \in 1..n /\ Pos(t, n, j) \in 1..n
    BY <1>2
  <2> QED BY <1>3, <1>4, <2>1
<1>7. \A m \in 1..n : \E i \in 1..n : Pos(t, n, i) = m
  <2>1. PICK pos : pos = [i \in 1..n |-> Pos(t, n, i)]
    OBVIOUS
  <2>2. pos \in Injection(1..n, 1..n)
    BY <1>2, <1>6, <2>1 DEF Injection, IsInjective
  <2>3. pos \in Surjection(1..n, 1..n)
    BY <1>1, <2>2, FS_Injection
  <2> QED BY <2>1, <2>3 DEF Surjection
<1> QED BY <1>2, <1>5, <1>6, <1>7

LEMMA MinOfTwo ==
  ASSUME NEW a \in Nat, NEW b \in Nat
  PROVE  Min({a, b}) = IF a <= b THEN a ELSE b
<1> DEFINE m == IF a <= b THEN a ELSE b
<1>1. m \in {a, b} /\ \A y \in {a, b} : m =< y
  OBVIOUS
<1>2. \A x \in {a, b} : (\A y \in {a, b} : x =< y) => x = m
  OBVIOUS
<1> HIDE DEF m
<1>3. Min({a, b}) = m
  BY <1>1, <1>2 DEF Min
<1> QED BY <1>3 DEF m

\* The ranking takes the groups at the first places.
LEMMA SortedTakes ==
  ASSUME NEW S, NEW groups \in Seq(S), NEW u,
         \A i \in DOMAIN groups : Total(u, groups[i].offer) \in Nat
  PROVE  /\ Sorted(u, groups) \in Seq(S)
         /\ Len(Sorted(u, groups)) = Min({Limit, Len(groups)})
         /\ \E at \in [DOMAIN Sorted(u, groups) -> DOMAIN groups] :
              /\ \A k \in DOMAIN Sorted(u, groups) : Sorted(u, groups)[k] = groups[at[k]]
              /\ \A k, l \in DOMAIN Sorted(u, groups) :
                   k < l => Ahead(u, groups, at[k], at[l])
              /\ \A i \in DOMAIN groups :
                   \/ \E k \in DOMAIN Sorted(u, groups) : at[k] = i
                   \/ \A k \in DOMAIN Sorted(u, groups) : Ahead(u, groups, at[k], i)
<1>1. PICK n \in Nat : n = Len(groups) /\ DOMAIN groups = 1..n
  BY LenProperties
<1>2. PICK m \in Nat : m = Min({Limit, n}) /\ m <= n
  BY LimitAssumption, MinOfTwo
<1>3. PICK t : t = [i \in 1..n |-> Total(u, groups[i].offer)]
  OBVIOUS
<1>4. t \in [1..n -> Nat]
  BY <1>1, <1>3
<1> DEFINE P(i) == Pos(t, n, i)
<1>16. /\ \A i \in 1..n : P(i) \in 1..n
       /\ \A k \in 1..n : \E i \in 1..n : P(i) = k
       /\ \A i, j \in 1..n : Pre(t, i, j) <=> P(i) < P(j)
       /\ \A i, j \in 1..n : P(i) = P(j) => i = j
  BY <1>4, PlacesTaken
<1>5. \A i, j \in 1..n : Ahead(u, groups, i, j) <=> Pre(t, i, j)
  BY <1>3 DEF Ahead, Pre
<1>6. \A i \in 1..n : Place(u, groups, i) = P(i)
  <2> SUFFICES ASSUME NEW i \in 1..n PROVE Place(u, groups, i) = P(i)
    OBVIOUS
  <2>1. {j \in DOMAIN groups : Ahead(u, groups, j, i)} = {j \in 1..n : Pre(t, j, i)}
    BY <1>1, <1>5
  <2> QED BY <2>1, Zenon DEF Place, Pos
<1> HIDE DEF P
<1>7. PICK at : at = [k \in 1..m |->
                        CHOOSE i \in DOMAIN groups : Place(u, groups, i) = k]
  OBVIOUS
<1>8. \A k \in 1..m : at[k] \in 1..n /\ P(at[k]) = k
  <2> SUFFICES ASSUME NEW k \in 1..m
               PROVE  at[k] \in 1..n /\ P(at[k]) = k
    OBVIOUS
  <2>1. k \in 1..n
    BY <1>2
  <2>2. \E i \in DOMAIN groups : Place(u, groups, i) = k
    BY <1>1, <1>6, <1>16, <2>1
  <2>3. at[k] \in DOMAIN groups /\ Place(u, groups, at[k]) = k
    BY <1>7, <2>2
  <2> QED BY <1>1, <1>6, <2>3
<1>9. PICK s : s = Sorted(u, groups)
  OBVIOUS
<1>10. s = [k \in 1..m |-> groups[at[k]]]
  BY <1>1, <1>2, <1>7, <1>9 DEF Sorted
<1>11. s \in Seq(S) /\ DOMAIN s = 1..m /\ Len(s) = m
  <2>1. \A k \in 1..m : groups[at[k]] \in S
    BY <1>1, <1>8, ElementOfSeq
  <2>2. s \in [1..m -> S]
    BY <1>10, <2>1
  <2> QED BY <2>2, SeqDef, LenProperties
<1>12. \A k, l \in 1..m : k < l => Ahead(u, groups, at[k], at[l])
  <2> SUFFICES ASSUME NEW k \in 1..m, NEW l \in 1..m, k < l
               PROVE  Ahead(u, groups, at[k], at[l])
    OBVIOUS
  <2>1. /\ at[k] \in 1..n /\ at[l] \in 1..n
        /\ P(at[k]) = k /\ P(at[l]) = l
    BY <1>8
  <2>2. Pre(t, at[k], at[l])
    BY <1>16, <2>1
  <2> QED BY <1>5, <2>1, <2>2
<1>13. \A i \in 1..n : \/ \E k \in 1..m : at[k] = i
                      \/ \A k \in 1..m : Ahead(u, groups, at[k], i)
  <2> SUFFICES ASSUME NEW i \in 1..n, \A k \in 1..m : at[k] # i, NEW k \in 1..m
               PROVE  Ahead(u, groups, at[k], i)
    OBVIOUS
  <2>1. P(i) \in 1..n
    BY <1>16
  <2>2. P(i) \notin 1..m
    <3>1. ASSUME P(i) \in 1..m PROVE FALSE
      <4>1. at[P(i)] \in 1..n /\ P(at[P(i)]) = P(i)
        BY <1>8, <3>1
      <4> QED BY <1>16, <3>1, <4>1
    <3> QED BY <3>1
  <2>3. P(at[k]) < P(i)
    <3>1. P(at[k]) = k /\ k \in 1..m
      BY <1>8
    <3>2. P(i) > m
      BY <2>1, <2>2
    <3> QED BY <2>1, <3>1, <3>2
  <2> QED BY <1>5, <1>8, <1>16, <2>3
<1>14. at \in [DOMAIN s -> DOMAIN groups]
  BY <1>1, <1>7, <1>8, <1>11
<1>15. \A k \in DOMAIN s : s[k] = groups[at[k]]
  BY <1>10, <1>11
<1> QED BY <1>1, <1>2, <1>9, <1>11, <1>12, <1>13, <1>14, <1>15

-----------------------------------------------------------------------------
(* Beside the requests. *)

\* Beside any queries the requests behave as they do alone.
THEOREM QueriesOnlyRead == ListSpec => Spec
<1>1. ListInit => Init
  BY DEF ListInit
<1>2. [Query \/ Change]_allVars => [Next]_vars
  <2>1. Query => UNCHANGED vars
    BY DEF Query, AskList, AskAll, AskView, Ask, FindDocs, FindRows, FindViewed,
           CheckMember, FetchOwn, FindGroup, CountUsers, Score, Done, Reads
  <2>2. Change => Next
    BY DEF Change
  <2>3. UNCHANGED allVars => UNCHANGED vars
    BY DEF allVars
  <2> QED
    BY <2>1, <2>2, <2>3
<1> QED
  BY <1>1, <1>2, PTL DEF ListSpec, Spec
-----------------------------------------------------------------------------
(* Sequences of groups. *)

\* The groups of a stream are its head and those of its tail, and a group that
\* is there once is not met again.
LEMMA HeadOrLater ==
  ASSUME NEW S, NEW s \in Seq(S), s # <<>>
  PROVE  /\ Head(s) \in S /\ Head(s) \in ToSet(s) /\ Tail(s) \in Seq(S)
         /\ \A x : x \in ToSet(s) <=> x = Head(s) \/ x \in ToSet(Tail(s))
         /\ \A x : OnceIn(s, x) =>
              OnceIn(Tail(s), x) /\ (x = Head(s) => x \notin ToSet(Tail(s)))
<1>1. /\ Len(s) \in Nat /\ Len(s) >= 1 /\ DOMAIN s = 1..Len(s)
      /\ Head(s) = s[1] /\ \A i \in 1..Len(s) : s[i] \in S
  BY EmptySeq, HeadTailProperties, LenProperties, ElementOfSeq
<1>2. PICK t \in Seq(S) :
        /\ t = Tail(s) /\ DOMAIN t = 1..(Len(s) - 1)
        /\ \A i \in 1..(Len(s) - 1) : t[i] = s[i + 1]
  <2>1. Tail(s) \in Seq(S) /\ Len(Tail(s)) = Len(s) - 1
    BY HeadTailProperties
  <2>2. DOMAIN Tail(s) = 1..(Len(s) - 1)
    BY <2>1, LenProperties
  <2> QED BY <2>1, <2>2, HeadTailProperties
<1>3. \A x : x \in ToSet(s) <=> x = s[1] \/ x \in ToSet(t)
  <2> SUFFICES ASSUME NEW x PROVE x \in ToSet(s) <=> x = s[1] \/ x \in ToSet(t)
    OBVIOUS
  <2>1. ASSUME NEW i \in 1..Len(s), x = s[i] PROVE x = s[1] \/ x \in ToSet(t)
    <3>1. i = 1 \/ (i - 1 \in 1..(Len(s) - 1) /\ t[i - 1] = s[i])
      BY <1>1, <1>2
    <3> QED BY <1>2, <2>1, <3>1 DEF ToSet
  <2>2. ASSUME NEW i \in 1..(Len(s) - 1), x = t[i] PROVE x \in ToSet(s)
    <3>1. i + 1 \in 1..Len(s) /\ x = s[i + 1]
      BY <1>1, <1>2, <2>2
    <3> QED BY <1>1, <3>1 DEF ToSet
  <2>3. s[1] \in ToSet(s)
    BY <1>1 DEF ToSet
  <2> QED BY <1>1, <1>2, <2>1, <2>2, <2>3 DEF ToSet
<1>4. ASSUME NEW x, OnceIn(s, x)
      PROVE  OnceIn(t, x) /\ (x = s[1] => x \notin ToSet(t))
  <2>1. ASSUME NEW i \in 1..(Len(s) - 1), NEW j \in 1..(Len(s) - 1),
               t[i] = x, t[j] = x
        PROVE  i = j
    <3>1. /\ i + 1 \in 1..Len(s) /\ j + 1 \in 1..Len(s)
          /\ s[i + 1] = x /\ s[j + 1] = x
      BY <1>1, <1>2, <2>1
    <3>2. i + 1 = j + 1
      BY <1>1, <1>4, <3>1 DEF OnceIn
    <3> QED BY <3>2
  <2>2. ASSUME NEW i \in 1..(Len(s) - 1), t[i] = x, x = s[1] PROVE FALSE
    <3>1. i + 1 \in 1..Len(s) /\ 1 \in 1..Len(s) /\ s[i + 1] = x /\ i + 1 # 1
      BY <1>1, <1>2, <2>2
    <3> QED BY <1>1, <1>4, <2>2, <3>1 DEF OnceIn
  <2> QED BY <1>2, <2>1, <2>2 DEF OnceIn, ToSet
<1>5. s[1] \in ToSet(s)
  BY <1>1 DEF ToSet
<1> QED BY <1>1, <1>2, <1>3, <1>4, <1>5

\* One more entry.
LEMMA OneMore ==
  ASSUME NEW S, NEW s \in Seq(S), NEW e \in S, NEW t, t = Append(s, e)
  PROVE  /\ t \in Seq(S) /\ t # <<>> /\ Len(s) \in Nat /\ Len(t) = Len(s) + 1
         /\ DOMAIN t = DOMAIN s \cup {Len(t)} /\ Len(t) \notin DOMAIN s
         /\ t[Len(t)] = e /\ \A i \in DOMAIN s : t[i] = s[i]
<1>1. /\ Append(s, e) \in Seq(S) /\ Append(s, e) # <<>>
      /\ Len(Append(s, e)) = Len(s) + 1
      /\ \A i \in 1..Len(s) : Append(s, e)[i] = s[i]
      /\ Append(s, e)[Len(s) + 1] = e
  BY AppendProperties
<1>2. DOMAIN s = 1..Len(s) /\ DOMAIN t = 1..Len(t) /\ Len(s) \in Nat
  BY <1>1, LenProperties
<1> QED BY <1>1, <1>2

\* The orders of a finite set have each member once.
LEMMA OrdersOf ==
  ASSUME NEW S, IsFiniteSet(S), NEW s \in SetToSeqs(S)
  PROVE  /\ s \in Seq(S)
         /\ \A i, j \in DOMAIN s : s[i] = s[j] => i = j
         /\ \A i \in DOMAIN s : s[i] \in S
         /\ \A x \in S : \E i \in DOMAIN s : s[i] = x
<1> DEFINE n == Cardinality(S)
<1>1. n \in Nat
  BY FS_CardinalityType
<1>2. s \in [1..n -> S] /\ \A i, j \in 1..n : i # j => s[i] # s[j]
  BY DEF SetToSeqs
<1>3. IsFiniteSet(1..n) /\ Cardinality(1..n) = n
  BY <1>1, FS_Interval
<1>4. s \in Injection(1..n, S)
  BY <1>2 DEF Injection, IsInjective
<1>5. s \in Surjection(1..n, S)
  BY <1>1, <1>3, <1>4, FS_Injection
<1>6. s \in Seq(S)
  BY <1>1, <1>2, SeqDef
<1> QED BY <1>2, <1>5, <1>6 DEF Surjection
-----------------------------------------------------------------------------
(* What a query may rely on while it runs. *)

\* Both tables and the collection are finite.
FiniteTables == IsFiniteSet(DOMAIN groupUser) /\ IsFiniteSet(DOMAIN groupGame)

\* A group that no request in flight names is left alone by every step.
LEMMA AtRest ==
  ASSUME IInv, [Next]_vars, NEW g \in GroupIds \ Named
  PROVE  /\ g \in DOMAIN groupInfo' <=> g \in DOMAIN groupInfo
         /\ g \in DOMAIN groupInfo => groupInfo'[g] = groupInfo[g]
         /\ RowsOf(g)' = RowsOf(g)
         /\ \A u : RowsOfUser(g, u)' = RowsOfUser(g, u)
<1>1. CASE UNCHANGED tables
  BY <1>1 DEF tables, RowsOf, RowsOfUser
<1>2. ASSUME NEW h \in Handlers, HandlerStep(h)
      PROVE  /\ g \in DOMAIN groupInfo' <=> g \in DOMAIN groupInfo
             /\ g \in DOMAIN groupInfo => groupInfo'[g] = groupInfo[g]
             /\ RowsOf(g)' = RowsOf(g)
             /\ \A r \in RowsOf(g) : groupUser'[r] = groupUser[r]
  <2>1. g # req[h].group
    BY IdsAssumption DEF Named
  <2> QED BY <1>2, <2>1, RowsElsewhere
<1>3. ASSUME RowsOf(g)' = RowsOf(g),
             \A r \in RowsOf(g) : groupUser'[r] = groupUser[r], NEW u
      PROVE  RowsOfUser(g, u)' = RowsOfUser(g, u)
  BY <1>3 DEF RowsOfUser
<1>4. CASE Crash \/ UNCHANGED vars
  BY <1>1, <1>4 DEF Crash, vars, tables
<1> QED BY <1>2, <1>3, <1>4 DEF Next, HandlerStep

\* A step adds a row or a document at a time.
LEMMA FiniteStep ==
  ASSUME IInv, FiniteTables, [Next]_vars
  PROVE  FiniteTables'
<1>1. ASSUME NEW h \in Handlers, HandlerStep(h) PROVE FiniteTables'
  <2>1. TypeOK
    BY DEF IInv
  <2>2. IsFiniteSet(DOMAIN groupUser')
    BY <1>1, FiniteRows DEF FiniteTables
  <2>3. \E x : DOMAIN groupGame' \subseteq DOMAIN groupGame \cup {x}
    <3>1. CASE groupGame' = groupGame
      BY <3>1
    <3>2. CASE /\ pc[h] \in {"deleteDoc", "saveDoc", "purgeDoc", "undoDoc"}
               /\ groupGame' = Written(h)
      BY <3>2 DEF Written, Put, Without, Restrict
    <3> QED BY <1>1, <2>1, <3>1, <3>2, DocWrites
  <2>4. ASSUME NEW S, IsFiniteSet(S), NEW T, NEW x, T \subseteq S \cup {x}
        PROVE  IsFiniteSet(T)
    BY <2>4, FS_AddElement, FS_Subset
  <2>5. PICK T : T = DOMAIN groupGame'
    OBVIOUS
  <2>6. IsFiniteSet(T)
    BY <2>3, <2>4, <2>5 DEF FiniteTables
  <2> QED BY <2>2, <2>5, <2>6 DEF FiniteTables
<1>2. CASE Crash
  BY <1>2 DEF Crash, FiniteTables, tables
<1>3. CASE UNCHANGED vars
  BY <1>3 DEF vars, FiniteTables
<1> QED BY <1>1, <1>2, <1>3 DEF Next, HandlerStep

LEMMA FiniteInit == Init => FiniteTables
<1> SUFFICES ASSUME Init PROVE FiniteTables
  OBVIOUS
<1>1. PICK n \in Nat : n = Len(Founders)
  BY FoundersAssumption
<1>2. DOMAIN groupUser = 1..n /\ DOMAIN groupGame = {1}
  BY <1>1 DEF Init
<1>3. IsFiniteSet(1..n)
  BY FS_Interval
<1>4. IsFiniteSet({1})
  BY FS_Singleton
<1> QED BY <1>2, <1>3, <1>4 DEF FiniteTables

\* Beside any queries, whatever the requests do to each other.
LEMMA FiniteBeside == ListSpec => [](IInv /\ FiniteTables)
<1>1. IInv /\ FiniteTables /\ [Next]_vars => FiniteTables'
  BY FiniteStep
<1>2. Spec => []FiniteTables
  BY <1>1, FiniteInit, Invariance, PTL DEF Spec
<1> QED
  BY <1>2, QueriesOnlyRead, Invariance, PTL

\* What is proved of the requests beside a query when nothing fails once its
\* catch block has been left.
Served == IInv /\ OneRowPerUser /\ DocsInStep /\ FiniteTables

\* They join one at a time per user, and their updates and leaves overlap joins
\* at most, leaves not even those.
SeldomOverlap == UsersJoinOnce /\ LeavesApart /\ UpdatesApart

LEMMA ServedBeside ==
  ASSUME CommitsSucceed PROVE ListSpec /\ []SeldomOverlap => []Served
<1>1. SeldomOverlap => UsersJoinOnce /\ LeavesApart /\ UpdatesApart
  BY DEF SeldomOverlap
<1> QED BY <1>1, FiniteBeside, QueriesOnlyRead, NoSecondRow,
           DocsInStepInvariant, PTL DEF Served

-----------------------------------------------------------------------------
(* The steps of a query. *)

\* The steps at which a query has its groups.
Walking == {"checkMember", "fetchOwn", "findGroup", "countUsers", "rank",
            "answered"}

\* A query reads, and the groups stay what they are.
LEMMA ReadingOnly ==
  ASSUME UNCHANGED vars, NEW g
  PROVE  /\ groupInfo' = groupInfo /\ groupUser' = groupUser
         /\ groupGame' = groupGame /\ Named' = Named
         /\ RowsOf(g)' = RowsOf(g) /\ (ask' = ask => (Due(g)' <=> Due(g)))
BY DEF vars, Named, RowsOf, RowsOfUser, Due

\* A new stream, or the rest of one: what its groups need.
LEMMA ProceedSought ==
  ASSUME UNCHANGED vars, ask' = ask, NEW groups, Proceed(groups), NEW g,
         OnceIn(groups, g),
         \A i, j \in Entries(g)' : i = j,
         g \in ToSet(groups) =>
           /\ g \in DOMAIN groupInfo
           /\ ask.kind = "mine" => RowsOfUser(g, ask.user) # {}
           /\ Entries(g)' = {},
         Entries(g)' # {} => Due(g),
         ask.kind # "view" /\ Due(g) => g \in ToSet(groups) \/ Entries(g)' # {},
         \A i \in Entries(g)' :
           /\ found'[i].max = groupInfo[g].max
           /\ ask.kind \in {"all", "recommend"}
                => found'[i].count = Cardinality(RowsOf(g)),
         groups # <<>> => Head(groups) \in ToSet(groups)
  PROVE  Sought(g)'
<1>1. /\ groupInfo' = groupInfo /\ groupUser' = groupUser
      /\ RowsOf(g)' = RowsOf(g) /\ (Due(g)' <=> Due(g))
  BY ReadingOnly
<1>2. RowsOfUser(g, ask.user)' = RowsOfUser(g, ask.user)
  BY <1>1 DEF RowsOfUser
<1>3. /\ todo' = groups
      /\ step' = "rank" => groups = <<>>
      /\ step' \in {"rank", "answered", "checkMember", "findGroup"}
      /\ step' = "findGroup" => ask.kind # "recommend"
  BY DEF Proceed
<1>4. groups # <<>> /\ g = Head(groups) /\ step' = "findGroup" => Due(g)
  BY <1>3 DEF Due
<1> QED BY <1>1, <1>2, <1>3, <1>4 DEF Sought

\* Where a query goes on to is in order.
LEMMA ProceedInOrder ==
  ASSUME NEW groups \in Seq(GroupIds), Proceed(groups), ask' = ask,
         found' \in Seq(Found)
  PROVE  StepInOrder' /\ step' \in Walking /\ step' # "refused"
BY DEF Proceed, StepInOrder, Walking

\* The question.
LEMMA AskKeeps ==
  ASSUME QueryInv, AskList \/ AskAll \/ AskView, IInv
  PROVE  QueryInv'
<1>1. PICK kind, u, groups :
        /\ Ask(kind, u, groups) /\ groups \in Seq(GroupIds)
        /\ kind = "view" => \E g \in DOMAIN groupInfo : groups = <<g>>
  <2>1. \A g \in DOMAIN groupInfo : <<g>> \in Seq(GroupIds)
    BY DEF IInv, TypeOK, Table
  <2>2. <<>> \in Seq(GroupIds)
    OBVIOUS
  <2>3. CASE AskList
    BY <2>2, <2>3 DEF AskList
  <2>4. CASE AskAll
    <3>1. Ask("all", NoUser, <<>>) /\ "all" # "view"
      BY <2>4 DEF AskAll
    <3> QED BY <2>2, <3>1
  <2>5. CASE AskView
    BY <2>1, <2>5 DEF AskView
  <2> QED BY <2>3, <2>4, <2>5
<1>2. /\ kind \in Kinds
      /\ step = "idle" /\ found' = found /\ todo' = groups /\ busy' = Named
      /\ step' = First(kind) /\ ask'.kind = kind /\ UNCHANGED vars
  BY <1>1 DEF Ask
<1>3. kind \in {"all", "recommend", "mine", "view"} /\ found = <<>>
      /\ found \in Seq(Found)
  BY <1>2, KindsAssumption DEF QueryInv, StepInOrder
<1>4. kind = "view" => todo' = <<Head(todo')>> /\ Head(todo') \in DOMAIN groupInfo
  BY <1>1, <1>2
<1>5. StepInOrder'
  BY <1>1, <1>2, <1>3, <1>4 DEF StepInOrder, First
<1>6. Named' = Named /\ groupInfo' = groupInfo
  BY <1>2, ReadingOnly
<1> QED BY <1>2, <1>3, <1>4, <1>5, <1>6 DEF QueryInv, RefusedInMotion, First

\* The documents of the game.
LEMMA FindDocsKeeps ==
  ASSUME QueryInv, FindDocs, Served
  PROVE  QueryInv'
<1>1. /\ ask' = ask /\ busy' = busy /\ found' = found /\ UNCHANGED vars
      /\ found = <<>> /\ step = "findDocs" /\ ask.kind \in {"all", "recommend"}
      /\ Named \subseteq busy /\ found \in Seq(Found)
  BY DEF FindDocs, Reads, QueryInv, StepInOrder
<1>2. PICK docs, s :
        /\ docs \in SetToSeqs(DOMAIN groupGame)
        /\ s = [i \in DOMAIN docs |-> groupGame[docs[i]]] /\ Proceed(s)
  BY DEF FindDocs
<1>3. /\ docs \in Seq(DOMAIN groupGame)
      /\ \A i, j \in DOMAIN docs : docs[i] = docs[j] => i = j
      /\ \A i \in DOMAIN docs : docs[i] \in DOMAIN groupGame
      /\ \A d \in DOMAIN groupGame : \E i \in DOMAIN docs : docs[i] = d
  BY <1>2, OrdersOf DEF Served, FiniteTables
<1>4. \A d \in DOMAIN groupGame : groupGame[d] \in GroupIds
  BY DEF Served, IInv, TypeOK, Table
<1>5. s \in Seq(GroupIds)
  <2>1. Len(docs) \in Nat /\ DOMAIN docs = 1..Len(docs)
    BY <1>3, LenProperties
  <2>2. s \in [1..Len(docs) -> GroupIds]
    BY <1>2, <1>3, <1>4, <2>1
  <2> QED BY <2>1, <2>2, SeqDef
<1>6. StepInOrder' /\ step' \in Walking /\ step' # "refused"
  BY <1>1, <1>2, <1>5, ProceedInOrder
<1>7. Named' = Named
  BY <1>1, ReadingOnly
<1>8. ASSUME NEW g \in GroupIds \ busy PROVE Sought(g)'
  <2>1. Agrees(g)
    BY <1>1, <1>8, IdsAssumption DEF Served, DocsInStep, Named
  <2>2. Entries(g)' = {}
    BY <1>1 DEF Entries
  <2>3. \A i \in DOMAIN s : s[i] = g => docs[i] \in DocsOf(g)
    BY <1>2, <1>3 DEF DocsOf
  <2>4. OnceIn(s, g)
    BY <1>2, <1>3, <2>1, <2>3 DEF OnceIn, Agrees
  <2>5. g \in ToSet(s) => g \in DOMAIN groupInfo
    BY <2>1, <2>3 DEF Agrees, ToSet
  <2>6. Due(g) => g \in ToSet(s)
    <3> SUFFICES ASSUME Due(g) PROVE g \in ToSet(s)
      OBVIOUS
    <3>1. PICK d \in DOMAIN groupGame : groupGame[d] = g
      BY <2>1 DEF Due, Agrees, DocsOf
    <3>2. PICK i \in DOMAIN docs : docs[i] = d
      BY <1>3
    <3> QED BY <1>2, <3>1, <3>2 DEF ToSet
  <2>7. s # <<>> => Head(s) \in ToSet(s)
    BY <1>5, HeadOrLater
  <2> QED BY <1>1, <1>2, <2>2, <2>4, <2>5, <2>6, <2>7, ProceedSought
<1> QED BY <1>1, <1>6, <1>7, <1>8 DEF QueryInv, Walking, RefusedInMotion
\* The rows of the user.
LEMMA FindRowsKeeps ==
  ASSUME QueryInv, FindRows, Served
  PROVE  QueryInv'
<1>1. /\ ask' = ask /\ busy' = busy /\ found' = found /\ UNCHANGED vars
      /\ found = <<>> /\ step = "findRows" /\ ask.kind = "mine"
      /\ Named \subseteq busy /\ found \in Seq(Found)
  BY DEF FindRows, Reads, QueryInv, StepInOrder
<1> DEFINE Own == {r \in DOMAIN groupUser : groupUser[r].user = ask.user}
<1>2. PICK rows, s :
        /\ rows \in SetToSeqs(Own)
        /\ s = [i \in DOMAIN rows |-> groupUser[rows[i]].group] /\ Proceed(s)
  BY DEF FindRows
<1>3. /\ rows \in Seq(Own)
      /\ \A i, j \in DOMAIN rows : rows[i] = rows[j] => i = j
      /\ \A i \in DOMAIN rows : rows[i] \in Own
      /\ \A r \in Own : \E i \in DOMAIN rows : rows[i] = r
  <2>1. IsFiniteSet(Own)
    BY FS_Subset DEF Served, FiniteTables
  <2> HIDE DEF Own
  <2> QED BY <1>2, <2>1, OrdersOf
<1>4. \A r \in DOMAIN groupUser : /\ groupUser[r].group \in GroupIds
                                  /\ groupUser[r].group \in DOMAIN groupInfo
  BY DEF Served, IInv, TypeOK, Table, UserRow, MembersHaveGroup
<1>5. s \in Seq(GroupIds)
  <2>1. Len(rows) \in Nat /\ DOMAIN rows = 1..Len(rows)
    BY <1>3, LenProperties
  <2>2. s \in [1..Len(rows) -> GroupIds]
    BY <1>2, <1>3, <1>4, <2>1
  <2> QED BY <2>1, <2>2, SeqDef
<1>6. StepInOrder' /\ step' \in Walking /\ step' # "refused"
  BY <1>1, <1>2, <1>5, ProceedInOrder
<1>7. Named' = Named
  BY <1>1, ReadingOnly
<1>8. ASSUME NEW g \in GroupIds \ busy PROVE Sought(g)'
  <2>1. \A i \in DOMAIN s : s[i] = g =>
          rows[i] \in RowsOfUser(g, ask.user) /\ g \in DOMAIN groupInfo
    BY <1>2, <1>3, <1>4 DEF RowsOfUser, RowsOf
  <2>2. Entries(g)' = {}
    BY <1>1 DEF Entries
  <2>3. OnceIn(s, g)
    <3>1. \A q, r \in RowsOfUser(g, ask.user) : q = r
      BY DEF Served, OneRowPerUser, RowsOfUser, RowsOf
    <3> QED BY <1>2, <1>3, <2>1, <3>1 DEF OnceIn
  <2>4. g \in ToSet(s) =>
          g \in DOMAIN groupInfo /\ RowsOfUser(g, ask.user) # {}
    BY <2>1 DEF ToSet
  <2>5. Due(g) => g \in ToSet(s)
    <3> SUFFICES ASSUME Due(g) PROVE g \in ToSet(s)
      OBVIOUS
    <3>1. PICK r \in Own : groupUser[r].group = g
      BY <1>1 DEF Due, RowsOfUser, RowsOf
    <3>2. PICK i \in DOMAIN rows : rows[i] = r
      BY <1>3
    <3> QED BY <1>2, <3>1, <3>2 DEF ToSet
  <2>6. s # <<>> => Head(s) \in ToSet(s)
    BY <1>5, HeadOrLater
  <2> QED BY <1>1, <1>2, <2>2, <2>3, <2>4, <2>5, <2>6, ProceedSought
<1> QED BY <1>1, <1>6, <1>7, <1>8 DEF QueryInv, Walking, RefusedInMotion

\* The document of the group that is viewed.
LEMMA FindViewedKeeps ==
  ASSUME QueryInv, FindViewed, Served
  PROVE  QueryInv'
<1>1. /\ ask' = ask /\ busy' = busy /\ found' = found /\ UNCHANGED vars
      /\ found = <<>> /\ step = "findDoc" /\ ask.kind = "view"
      /\ Named \subseteq busy /\ found \in Seq(Found) /\ todo \in Seq(GroupIds)
      /\ todo # <<>> /\ todo = <<Head(todo)>>
      /\ Head(todo) \in DOMAIN groupInfo \cup busy
  BY DEF FindViewed, Refuse, Reads, QueryInv, StepInOrder
<1>2. Named' = Named
  BY <1>1, ReadingOnly
<1>3. CASE Proceed(todo)
  <2>1. StepInOrder' /\ step' \in Walking /\ step' # "refused"
    BY <1>1, <1>3, ProceedInOrder
  <2>2. ASSUME NEW g \in GroupIds \ busy PROVE Sought(g)'
    <3>1. Entries(g)' = {}
      BY <1>1 DEF Entries
    <3>2. ToSet(todo) = {Head(todo)} /\ OnceIn(todo, g)
      BY <1>1 DEF ToSet, OnceIn
    <3> QED BY <1>1, <1>3, <2>2, <3>1, <3>2, ProceedSought
  <2> QED BY <1>1, <1>2, <2>1, <2>2 DEF QueryInv, Walking, RefusedInMotion
<1>4. CASE Refuse /\ Cardinality(DocsOf(Head(todo))) # 1
  <2>1. Head(todo) \in busy
    <3> SUFFICES ASSUME Head(todo) \notin busy PROVE FALSE
      OBVIOUS
    <3>1. PICK g \in GroupIds : g = Head(todo) /\ g \in DOMAIN groupInfo
      BY <1>1, HeadOrLater
    <3>2. Agrees(g)
      BY <1>1, <3>1, IdsAssumption DEF Served, DocsInStep, Named
    <3>3. DocsOf(g) = {groupInfo[g].rev}
      BY <3>1, <3>2 DEF Agrees
    <3> QED BY <1>4, <3>1, <3>3, FS_Singleton
  <2>2. step' = "refused" /\ todo' = todo
    BY <1>4 DEF Refuse
  <2>3. StepInOrder'
    BY <1>1, <2>2 DEF StepInOrder
  <2> QED BY <1>1, <1>2, <2>1, <2>2, <2>3 DEF QueryInv, RefusedInMotion
<1> QED BY <1>3, <1>4 DEF FindViewed

\* A step among the groups starts from this.
LEMMA WalkingFacts ==
  ASSUME QueryInv, step \in Walking, UNCHANGED vars, busy' = busy
  PROVE  /\ StepInOrder /\ Named \subseteq busy /\ Named' \subseteq busy'
         /\ todo \in Seq(GroupIds) /\ \A g \in GroupIds \ busy : Sought(g)
         /\ todo # <<>> => Head(todo) \in GroupIds /\ Head(todo) \in ToSet(todo)
<1>1. Named' = Named
  BY ReadingOnly
<1> QED BY <1>1, HeadOrLater DEF QueryInv, Walking, StepInOrder

\* The user's own row in the next group.
LEMMA CheckMemberKeeps ==
  ASSUME QueryInv, CheckMember, Served
  PROVE  QueryInv'
<1>1. /\ ask' = ask /\ busy' = busy /\ UNCHANGED vars
      /\ found' = found /\ todo' = todo
      /\ step = "checkMember" /\ step \in Walking
  BY DEF CheckMember, Refuse, Reads, Walking
<1>2. /\ StepInOrder /\ Named' \subseteq busy' /\ todo # <<>>
      /\ ask.kind = "recommend" /\ todo \in Seq(GroupIds)
      /\ \A g \in GroupIds \ busy : Sought(g)
      /\ Head(todo) \in GroupIds /\ Head(todo) \in ToSet(todo)
  BY <1>1, WalkingFacts DEF StepInOrder
<1>3. \/ OwnRows = {} /\ step' = "findGroup"
      \/ OwnRows # {} /\ step' = "fetchOwn"
  <2>1. \A q, r \in OwnRows : q = r
    BY DEF Served, OneRowPerUser, OwnRows, RowsOfUser, RowsOf
  <2>2. ~(Cardinality(OwnRows) > 1)
    <3>1. CASE OwnRows = {}
      BY <3>1, NotTwo
    <3>2. CASE OwnRows # {}
      <4>1. PICK r \in OwnRows : TRUE
        BY <3>2
      <4>2. OwnRows = {r}
        BY <2>1
      <4> QED BY <4>2, NotTwo
    <3> QED BY <3>1, <3>2
  <2> QED BY <2>2 DEF CheckMember
<1>4. ASSUME NEW g \in GroupIds \ busy PROVE Sought(g)'
  <2>1. /\ groupInfo' = groupInfo /\ groupUser' = groupUser
        /\ RowsOf(g)' = RowsOf(g) /\ (Due(g)' <=> Due(g))
        /\ RowsOfUser(g, ask.user)' = RowsOfUser(g, ask.user)
    BY <1>1, ReadingOnly DEF RowsOfUser
  <2>2. Sought(g)
    BY <1>2, <1>4
  <2>3. Entries(g)' = Entries(g)
    BY <1>1 DEF Entries
  <2>4. g = Head(todo) => /\ step' = "findGroup" => Due(g)
                          /\ step' = "fetchOwn" => ~Due(g)
    BY <1>2, <1>3, <2>2 DEF Sought, Due, OwnRows
  <2> QED BY <1>1, <1>3, <2>1, <2>2, <2>3, <2>4 DEF Sought
<1>5. StepInOrder'
  BY <1>1, <1>2, <1>3 DEF StepInOrder
<1> QED BY <1>1, <1>2, <1>3, <1>4, <1>5 DEF QueryInv, RefusedInMotion
\* A group of the user is passed over.
LEMMA FetchOwnKeeps ==
  ASSUME QueryInv, FetchOwn, Served
  PROVE  QueryInv'
<1>1. /\ ask' = ask /\ busy' = busy /\ UNCHANGED vars /\ found' = found
      /\ step = "fetchOwn" /\ step \in Walking
  BY DEF FetchOwn, Refuse, Reads, Walking
<1>2. /\ StepInOrder /\ Named' \subseteq busy' /\ todo # <<>>
      /\ todo \in Seq(GroupIds) /\ found \in Seq(Found)
      /\ \A g \in GroupIds \ busy : Sought(g)
      /\ Head(todo) \in GroupIds /\ Head(todo) \in ToSet(todo)
  BY <1>1, WalkingFacts DEF StepInOrder
<1>3. CASE Proceed(Tail(todo))
  <2>1. StepInOrder' /\ step' \in Walking /\ step' # "refused"
    BY <1>1, <1>2, <1>3, HeadOrLater, ProceedInOrder
  <2>2. ASSUME NEW g \in GroupIds \ busy PROVE Sought(g)'
    <3>1. Sought(g) /\ Entries(g)' = Entries(g)
      BY <1>1, <1>2, <2>2 DEF Entries
    <3>2. PICK rest : rest = Tail(todo)
      OBVIOUS
    <3>3. /\ OnceIn(rest, g) /\ (g = Head(todo) => g \notin ToSet(rest))
          /\ g \in ToSet(todo) <=> g = Head(todo) \/ g \in ToSet(rest)
          /\ rest # <<>> => Head(rest) \in ToSet(rest)
      BY <1>2, <3>1, <3>2, HeadOrLater DEF Sought
    <3>4. /\ g \in ToSet(todo) => Entries(g) = {}
          /\ g = Head(todo) => ~Due(g)
      BY <1>1, <1>2, <3>1 DEF Sought
    <3>5. /\ \A i, j \in Entries(g) : i = j
          /\ g \in ToSet(todo) =>
               /\ g \in DOMAIN groupInfo
               /\ ask.kind = "mine" => RowsOfUser(g, ask.user) # {}
          /\ Entries(g) # {} => Due(g)
          /\ ask.kind # "view" /\ Due(g) => g \in ToSet(todo) \/ Entries(g) # {}
          /\ \A i \in Entries(g) :
               /\ found[i].max = groupInfo[g].max
               /\ ask.kind \in {"all", "recommend"}
                    => found[i].count = Cardinality(RowsOf(g))
      BY <1>1, <3>1 DEF Sought
    <3> QED BY <1>1, <1>3, <3>1, <3>2, <3>3, <3>4, <3>5, ProceedSought
  <2> QED BY <1>1, <1>2, <2>1, <2>2 DEF QueryInv, Walking, RefusedInMotion
<1>4. CASE Refuse /\ Head(todo) \notin DOMAIN groupInfo
  <2>1. Head(todo) \in busy
    BY <1>2, <1>4 DEF Sought
  <2> QED BY <1>1, <1>2, <1>4, <2>1 DEF QueryInv, RefusedInMotion, StepInOrder,
                                        Refuse
<1> QED BY <1>3, <1>4 DEF FetchOwn

\* The next group itself.
LEMMA FindGroupKeeps ==
  ASSUME QueryInv, FindGroup, Served
  PROVE  QueryInv'
<1>1. /\ ask' = ask /\ busy' = busy /\ UNCHANGED vars
      /\ step = "findGroup" /\ step \in Walking
  BY DEF FindGroup, Refuse, Reads, Walking
<1>2. /\ StepInOrder /\ Named' \subseteq busy' /\ todo # <<>>
      /\ todo \in Seq(GroupIds) /\ found \in Seq(Found)
      /\ \A g \in GroupIds \ busy : Sought(g)
      /\ Head(todo) \in GroupIds /\ Head(todo) \in ToSet(todo)
  BY <1>1, WalkingFacts DEF StepInOrder
<1>3. PICK rest : rest = Tail(todo)
  OBVIOUS
<1>4. /\ rest \in Seq(GroupIds)
      /\ rest # <<>> => Head(rest) \in ToSet(rest)
  BY <1>2, <1>3, HeadOrLater
<1>5. ASSUME NEW g \in GroupIds \ busy
      PROVE  /\ OnceIn(rest, g) /\ (g = Head(todo) => g \notin ToSet(rest))
             /\ g \in ToSet(todo) <=> g = Head(todo) \/ g \in ToSet(rest)
             /\ g \in ToSet(todo) =>
                  /\ Entries(g) = {} /\ g \in DOMAIN groupInfo
                  /\ ask.kind = "mine" => RowsOfUser(g, ask.user) # {}
             /\ g = Head(todo) => Due(g)
             /\ \A i, j \in Entries(g) : i = j
             /\ Entries(g) # {} => Due(g)
             /\ ask.kind # "view" /\ Due(g) =>
                  g \in ToSet(todo) \/ Entries(g) # {}
             /\ \A i \in Entries(g) :
                  /\ found[i].max = groupInfo[g].max
                  /\ ask.kind \in {"all", "recommend"}
                       => found[i].count = Cardinality(RowsOf(g))
  <2>1. Sought(g) /\ OnceIn(todo, g)
    BY <1>2, <1>5 DEF Sought
  <2>2. /\ OnceIn(rest, g) /\ (g = Head(todo) => g \notin ToSet(rest))
        /\ g \in ToSet(todo) <=> g = Head(todo) \/ g \in ToSet(rest)
    BY <1>2, <1>3, <2>1, HeadOrLater
  <2> QED BY <1>1, <1>2, <2>1, <2>2 DEF Sought
<1>6. ASSUME Head(todo) \in DOMAIN groupInfo,
             found' = Append(found, [group |-> Head(todo),
                                     max |-> groupInfo[Head(todo)].max,
                                     count |-> 0])
      PROVE  /\ found' \in Seq(Found) /\ found' # <<>>
             /\ found'[Len(found')].group = Head(todo)
             /\ found'[Len(found')].max = groupInfo[Head(todo)].max
             /\ DOMAIN found' = DOMAIN found \cup {Len(found')}
             /\ Len(found') \notin DOMAIN found
             /\ \A i \in DOMAIN found : found'[i] = found[i]
  <2>1. PICK e \in Found : e = [group |-> Head(todo),
                                max |-> groupInfo[Head(todo)].max, count |-> 0]
    <3>1. groupInfo[Head(todo)].max \in Nat
      BY <1>6 DEF Served, IInv, TypeOK, Table, GroupRow
    <3> QED BY <1>2, <3>1 DEF Found
  <2>2. found' = Append(found, e)
    BY <1>6, <2>1
  <2>3. e.group = Head(todo) /\ e.max = groupInfo[Head(todo)].max
    BY <2>1
  <2> QED BY <1>2, <2>2, <2>3, OneMore
<1>7. ASSUME Head(todo) \in DOMAIN groupInfo,
             found' = Append(found, [group |-> Head(todo),
                                     max |-> groupInfo[Head(todo)].max,
                                     count |-> 0]),
             NEW g \in GroupIds \ busy
      PROVE  Entries(g)' = Entries(g) \cup (IF g = Head(todo) THEN {Len(found')}
                                                              ELSE {})
  BY <1>6, <1>7 DEF Entries
<1>8. CASE /\ Head(todo) \in DOMAIN groupInfo
           /\ found' = Append(found, [group |-> Head(todo),
                                      max |-> groupInfo[Head(todo)].max,
                                      count |-> 0])
           /\ ask.kind \in {"all", "recommend"}
           /\ step' = "countUsers" /\ todo' = todo
  <2>1. StepInOrder'
    BY <1>1, <1>2, <1>6, <1>8 DEF StepInOrder
  <2>2. ASSUME NEW g \in GroupIds \ busy PROVE Sought(g)'
    <3>1. /\ groupInfo' = groupInfo /\ RowsOf(g)' = RowsOf(g)
          /\ (Due(g)' <=> Due(g))
      BY <1>1, ReadingOnly
    <3>2. OnceIn(todo, g)
      BY <1>2, <2>2 DEF Sought
    <3>3. /\ \A i \in Entries(g) : i \in DOMAIN found /\ i # Len(found')
                                   /\ found'[i] = found[i]
      BY <1>6, <1>8 DEF Entries
    <3>4. CASE g = Head(todo)
      <4>1. Entries(g)' = {Len(found')} /\ Due(g)
        BY <1>2, <1>5, <1>7, <1>8, <2>2, <3>4
      <4> QED BY <1>1, <1>2, <1>6, <1>8, <3>1, <3>2, <3>4, <4>1 DEF Sought
    <3>5. CASE g # Head(todo)
      <4>1. Entries(g)' = Entries(g)
        BY <1>7, <1>8, <2>2, <3>5
      <4> QED BY <1>1, <1>5, <1>8, <2>2, <3>1, <3>2, <3>3, <3>5, <4>1 DEF Sought
    <3> QED BY <3>4, <3>5
  <2> QED BY <1>1, <1>2, <1>8, <2>1, <2>2 DEF QueryInv, RefusedInMotion
<1>9. CASE /\ Head(todo) \in DOMAIN groupInfo
           /\ found' = Append(found, [group |-> Head(todo),
                                      max |-> groupInfo[Head(todo)].max,
                                      count |-> 0])
           /\ ask.kind \notin {"all", "recommend"}
           /\ Proceed(rest)
  <2>1. StepInOrder' /\ step' \in Walking /\ step' # "refused"
    BY <1>1, <1>4, <1>6, <1>9, ProceedInOrder
  <2>2. ASSUME NEW g \in GroupIds \ busy PROVE Sought(g)'
    <3>1. \A i \in Entries(g) : i \in DOMAIN found /\ found'[i] = found[i]
      BY <1>6, <1>9 DEF Entries
    <3>2. CASE g = Head(todo)
      <4>1. Entries(g)' = {Len(found')} /\ Due(g) /\ g \notin ToSet(rest)
        BY <1>2, <1>5, <1>7, <1>9, <2>2, <3>2
      <4>2. found'[Len(found')].max = groupInfo[g].max
        BY <1>6, <1>9, <3>2
      <4> QED BY <1>1, <1>4, <1>5, <1>9, <2>2, <4>1, <4>2, ProceedSought
    <3>3. CASE g # Head(todo)
      <4>1. Entries(g)' = Entries(g)
        BY <1>7, <1>9, <2>2, <3>3
      <4> QED BY <1>1, <1>4, <1>5, <1>9, <2>2, <3>1, <3>3, <4>1, ProceedSought
    <3> QED BY <3>2, <3>3
  <2> QED BY <1>1, <1>2, <2>1, <2>2 DEF QueryInv, Walking, RefusedInMotion
<1>10. CASE /\ Head(todo) \notin DOMAIN groupInfo /\ Proceed(rest)
            /\ found' = found
  <2>1. StepInOrder' /\ step' \in Walking /\ step' # "refused"
    BY <1>1, <1>2, <1>4, <1>10, ProceedInOrder
  <2>2. ASSUME NEW g \in GroupIds \ busy PROVE Sought(g)'
    <3>1. Entries(g)' = Entries(g) /\ g # Head(todo)
      BY <1>2, <1>5, <1>10, <2>2 DEF Entries
    <3> QED BY <1>1, <1>4, <1>5, <1>10, <2>2, <3>1, ProceedSought
  <2> QED BY <1>1, <1>2, <2>1, <2>2 DEF QueryInv, Walking, RefusedInMotion
<1>11. CASE Refuse /\ Head(todo) \notin DOMAIN groupInfo
  <2>1. Head(todo) \in busy
    BY <1>2, <1>5, <1>11
  <2> QED BY <1>1, <1>2, <1>11, <2>1 DEF QueryInv, RefusedInMotion, StepInOrder,
                                         Refuse
<1> QED BY <1>3, <1>8, <1>9, <1>10, <1>11 DEF FindGroup

\* The count of the last entry is filled in.
LEMMA LastCounted ==
  ASSUME NEW s \in Seq(Found), s # <<>>, NEW n \in Nat,
         NEW t, t = [s EXCEPT ![Len(s)].count = n]
  PROVE  /\ t \in Seq(Found) /\ DOMAIN t = DOMAIN s /\ Len(s) \in DOMAIN s
         /\ \A i \in DOMAIN s :
              /\ t[i].group = s[i].group /\ t[i].max = s[i].max
              /\ t[i].count = IF i = Len(s) THEN n ELSE s[i].count
<1>1. /\ Len(s) \in Nat /\ Len(s) >= 1 /\ DOMAIN s = 1..Len(s)
      /\ \A i \in 1..Len(s) : s[i] \in Found
  BY EmptySeq, LenProperties, ElementOfSeq
<1>2. PICK e : e = [s[Len(s)] EXCEPT !.count = n]
  OBVIOUS
<1>3. /\ e \in Found /\ e.group = s[Len(s)].group /\ e.max = s[Len(s)].max
      /\ e.count = n
  <2>1. PICK l \in Found : l = s[Len(s)]
    BY <1>1
  <2>2. e = [l EXCEPT !.count = n]
    BY <1>2, <2>1
  <2>3. e \in Found /\ e.group = l.group /\ e.max = l.max /\ e.count = n
    BY <2>2 DEF Found
  <2> QED BY <2>1, <2>3
<1>4. t = [s EXCEPT ![Len(s)] = e]
  BY <1>2
<1>5. t \in [1..Len(s) -> Found]
  BY <1>1, <1>3, <1>4
<1> QED BY <1>1, <1>3, <1>4, <1>5, SeqDef
\* The members of the next group.
LEMMA CountUsersKeeps ==
  ASSUME QueryInv, CountUsers, Served
  PROVE  QueryInv'
<1>1. /\ ask' = ask /\ busy' = busy /\ UNCHANGED vars
      /\ step = "countUsers" /\ step \in Walking
  BY DEF CountUsers, Reads, Walking
<1>2. /\ StepInOrder /\ Named' \subseteq busy' /\ todo # <<>>
      /\ todo \in Seq(GroupIds) /\ found \in Seq(Found) /\ found # <<>>
      /\ found[Len(found)].group = Head(todo)
      /\ \A g \in GroupIds \ busy : Sought(g)
      /\ Head(todo) \in GroupIds /\ Head(todo) \in ToSet(todo)
  BY <1>1, WalkingFacts DEF StepInOrder
<1>3. PICK n, rest : n = Cardinality(RowsOf(Head(todo))) /\ rest = Tail(todo)
  OBVIOUS
<1>4. n \in Nat
  BY <1>3, RowsFinite DEF Served, FiniteTables
<1>5. /\ found' \in Seq(Found) /\ DOMAIN found' = DOMAIN found
      /\ Len(found) \in DOMAIN found
      /\ \A i \in DOMAIN found :
           /\ found'[i].group = found[i].group /\ found'[i].max = found[i].max
           /\ found'[i].count = IF i = Len(found) THEN n ELSE found[i].count
  <2>1. found' = [found EXCEPT ![Len(found)].count = n]
    BY <1>3 DEF CountUsers
  <2> QED BY <1>2, <1>4, <2>1, LastCounted
<1>6. Proceed(rest)
  BY <1>3 DEF CountUsers
<1>7. rest \in Seq(GroupIds) /\ (rest # <<>> => Head(rest) \in ToSet(rest))
  BY <1>2, <1>3, HeadOrLater
<1>8. StepInOrder' /\ step' \in Walking /\ step' # "refused"
  BY <1>1, <1>5, <1>6, <1>7, ProceedInOrder
<1>9. ASSUME NEW g \in GroupIds \ busy PROVE Sought(g)'
  <2>1. Sought(g) /\ OnceIn(todo, g)
    BY <1>2, <1>9 DEF Sought
  <2>2. /\ OnceIn(rest, g) /\ (g = Head(todo) => g \notin ToSet(rest))
        /\ g \in ToSet(todo) <=> g = Head(todo) \/ g \in ToSet(rest)
    BY <1>2, <1>3, <2>1, HeadOrLater
  <2>3. Entries(g)' = Entries(g)
    BY <1>5 DEF Entries
  <2>4. /\ \A i, j \in Entries(g) : i = j
        /\ g \in ToSet(todo) =>
             /\ g \in DOMAIN groupInfo
             /\ ask.kind = "mine" => RowsOfUser(g, ask.user) # {}
             /\ Entries(g) # {} => g = Head(todo)
        /\ Entries(g) # {} => Due(g)
        /\ ask.kind # "view" /\ Due(g) => g \in ToSet(todo) \/ Entries(g) # {}
        /\ \A i \in Entries(g) : found[i].max = groupInfo[g].max
        /\ \A i \in Entries(g) :
             ask.kind \in {"all", "recommend"} /\ i # Len(found)
               => found[i].count = Cardinality(RowsOf(g))
    BY <2>1 DEF Sought
  <2>5. \A i \in Entries(g) : i \in DOMAIN found /\ found[i].group = g
    BY DEF Entries
  <2>6. g = Head(todo) => Entries(g) # {} /\ n = Cardinality(RowsOf(g))
    BY <1>2, <1>3, <1>5 DEF Entries
  <2>7. \A i \in Entries(g)' :
          /\ found'[i].max = groupInfo[g].max
          /\ ask.kind \in {"all", "recommend"}
               => found'[i].count = Cardinality(RowsOf(g))
    BY <1>2, <1>3, <1>5, <2>3, <2>4, <2>5
  <2>8. /\ g \in ToSet(rest) =>
             /\ g \in DOMAIN groupInfo
             /\ ask.kind = "mine" => RowsOfUser(g, ask.user) # {}
             /\ Entries(g)' = {}
        /\ ask.kind # "view" /\ Due(g) => g \in ToSet(rest) \/ Entries(g)' # {}
    BY <2>2, <2>3, <2>4, <2>6
  <2> QED BY <1>1, <1>6, <1>7, <2>2, <2>3, <2>4, <2>7, <2>8, ProceedSought
<1> QED BY <1>1, <1>2, <1>8, <1>9 DEF QueryInv, Walking, RefusedInMotion

\* The ranking answers with what was looked up.
LEMMA ScoreKeeps ==
  ASSUME QueryInv, Score
  PROVE  QueryInv'
<1>1. /\ ask' = ask /\ busy' = busy /\ todo' = todo /\ UNCHANGED vars
      /\ step = "rank" /\ step \in Walking /\ step' = "answered"
  BY DEF Score, Walking
<1>2. /\ StepInOrder /\ Named' \subseteq busy'
      /\ todo \in Seq(GroupIds) /\ todo = <<>>
      /\ \A g \in GroupIds \ busy : Sought(g)
  BY <1>1, WalkingFacts DEF StepInOrder
<1>3. /\ DOMAIN found' = DOMAIN found
      /\ \A i \in DOMAIN found :
           /\ found'[i].group = found[i].group /\ found'[i].max = found[i].max
           /\ found'[i].count = found[i].count
  BY DEF Score
<1>4. StepInOrder'
  BY <1>1, <1>2 DEF StepInOrder
<1>5. ASSUME NEW g \in GroupIds \ busy PROVE Sought(g)'
  <2>1. /\ groupInfo' = groupInfo /\ RowsOf(g)' = RowsOf(g)
        /\ (Due(g)' <=> Due(g))
    BY <1>1, ReadingOnly
  <2>2. Sought(g) /\ Entries(g)' = Entries(g) /\ Entries(g) \subseteq DOMAIN found
    BY <1>2, <1>3, <1>5 DEF Entries
  <2>3. g \notin ToSet(todo)
    BY <1>2 DEF ToSet
  <2> QED BY <1>1, <1>2, <1>3, <2>1, <2>2, <2>3 DEF Sought
<1> QED BY <1>1, <1>2, <1>4, <1>5 DEF QueryInv, RefusedInMotion

LEMMA DoneKeeps ==
  ASSUME QueryInv, Done
  PROVE  QueryInv'
<1>1. step' = "idle" /\ todo' = <<>> /\ found' = <<>>
  BY DEF Done
<1>2. StepInOrder'
  BY <1>1 DEF StepInOrder
<1> QED BY <1>1, <1>2 DEF QueryInv, RefusedInMotion

\* The requests change what they name, and that is known to the query.
LEMMA ChangeKeeps ==
  ASSUME QueryInv, Change, Served
  PROVE  QueryInv'
<1>1. /\ UNCHANGED <<step, ask, todo, found, wish, answer>> /\ [Next]_vars
      /\ step # "idle" => busy' = busy \cup Named'
      /\ step # "refused"
  BY DEF Change
<1>2. StepInOrder'
  BY <1>1 DEF QueryInv, StepInOrder
<1>3. ASSUME step # "idle", NEW g \in GroupIds \ busy'
      PROVE  /\ g \in GroupIds \ busy
             /\ g \in DOMAIN groupInfo' <=> g \in DOMAIN groupInfo
             /\ g \in DOMAIN groupInfo => groupInfo'[g] = groupInfo[g]
             /\ RowsOf(g)' = RowsOf(g)
             /\ \A u : RowsOfUser(g, u)' = RowsOfUser(g, u)
  <2>1. g \in GroupIds \ busy /\ g \in GroupIds \ Named
    BY <1>1, <1>3 DEF QueryInv
  <2> QED BY <1>1, <2>1, AtRest DEF Served
<1>4. ASSUME step = "findDoc"
      PROVE  Head(todo) \in DOMAIN groupInfo' \cup busy'
  <2>1. todo \in Seq(GroupIds) /\ todo # <<>>
    BY <1>4 DEF QueryInv, StepInOrder
  <2>2. PICK g \in GroupIds : g = Head(todo)
    BY <2>1, HeadOrLater
  <2>3. g \in DOMAIN groupInfo \cup busy
    BY <1>4, <2>2 DEF QueryInv
  <2> QED BY <1>1, <1>3, <1>4, <2>2, <2>3
<1>5. ASSUME step # "idle", NEW g \in GroupIds \ busy', Sought(g)
      PROVE  Sought(g)'
  <2>1. /\ g \in DOMAIN groupInfo' <=> g \in DOMAIN groupInfo
        /\ g \in DOMAIN groupInfo => groupInfo'[g] = groupInfo[g]
        /\ RowsOf(g)' = RowsOf(g)
        /\ \A u : RowsOfUser(g, u)' = RowsOfUser(g, u)
    BY <1>3, <1>5
  <2>2. RowsOfUser(g, ask.user)' = RowsOfUser(g, ask.user)
    BY <1>1, <2>1 DEF RowsOfUser, RowsOf
  <2>3. Due(g)' <=> Due(g)
    BY <1>1, <2>1, <2>2 DEF Due
  <2>4. Entries(g)' = Entries(g)
    BY <1>1 DEF Entries
  <2>5. Entries(g) # {} => g \in DOMAIN groupInfo
    BY <1>5 DEF Sought, Due
  <2> QED BY <1>1, <1>5, <2>1, <2>2, <2>3, <2>4, <2>5 DEF Sought
<1> QED BY <1>1, <1>2, <1>3, <1>4, <1>5 DEF QueryInv, RefusedInMotion

\* So every step keeps the invariant.
LEMMA QueryInvNext ==
  ASSUME QueryInv, Served, [Query \/ Change]_allVars
  PROVE  QueryInv'
<1>1. CASE Query
  BY <1>1, AskKeeps, FindDocsKeeps, FindRowsKeeps, FindViewedKeeps,
     CheckMemberKeeps, FetchOwnKeeps, FindGroupKeeps, CountUsersKeeps,
     ScoreKeeps, DoneKeeps DEF Query, Served
<1>2. CASE Change
  BY <1>2, ChangeKeeps
<1>3. CASE UNCHANGED allVars
  <2>1. /\ UNCHANGED vars /\ UNCHANGED query
        /\ UNCHANGED <<step, ask, todo, found, busy, groupInfo, groupUser>>
    BY <1>3 DEF allVars, query, vars
  <2>2. /\ Named' = Named /\ StepInOrder'
        /\ RefusedInMotion'
    BY <2>1, ReadingOnly DEF QueryInv, StepInOrder, RefusedInMotion
  <2>3. \A g : Sought(g) => Sought(g)'
    BY <2>1 DEF Sought, Entries, Due, RowsOf, RowsOfUser
  <2> QED BY <2>1, <2>2, <2>3 DEF QueryInv
<1> QED BY <1>1, <1>2, <1>3

LEMMA QueryInvInit == ListInit => QueryInv
<1> SUFFICES ASSUME ListInit PROVE QueryInv
  OBVIOUS
<1>1. step = "idle" /\ todo = <<>> /\ found = <<>>
  BY DEF ListInit
<1>2. StepInOrder
  BY <1>1 DEF StepInOrder
<1> QED BY <1>1, <1>2 DEF QueryInv, RefusedInMotion

\* The invariant of a query under way, beside such requests.
THEOREM QueryInvariance ==
  ASSUME CommitsSucceed PROVE ListSpec /\ []SeldomOverlap => []QueryInv
<1>1. QueryInv /\ Served /\ [Query \/ Change]_allVars => QueryInv'
  BY QueryInvNext
<1> QED BY <1>1, QueryInvInit, ServedBeside, PTL DEF ListSpec

\* Beside any number of such requests a query fails only because of a group that
\* a request named while it ran, whatever call fails inside a try block.
THEOREM RefusesOnlyInMotion ==
  ASSUME CommitsSucceed PROVE ListSpec /\ []SeldomOverlap => []RefusedInMotion
<1>1. QueryInv => RefusedInMotion
  BY DEF QueryInv
<1> QED BY <1>1, QueryInvariance, PTL

\* Beside any number of such requests a query answers every group that no
\* request named meanwhile as it is, and once, whatever call fails inside a try
\* block.
THEOREM ShowsTheGroups ==
  ASSUME CommitsSucceed PROVE ListSpec /\ []SeldomOverlap => []ShowsWhatIs
<1>1. ASSUME QueryInv PROVE ShowsWhatIs
  <2> SUFFICES ASSUME step = "answered", NEW g \in GroupIds \ busy
               PROVE  IF Wanted(g)
                        THEN \E i \in DOMAIN found :
                               /\ Entries(g) = {i}
                               /\ found[i].max = groupInfo[g].max
                               /\ ask.kind \in {"all", "recommend"}
                                    => found[i].count = Cardinality(RowsOf(g))
                        ELSE Entries(g) = {}
    BY DEF ShowsWhatIs
  <2>1. Sought(g) /\ todo = <<>>
    BY <1>1 DEF QueryInv, StepInOrder
  <2>2. g \notin ToSet(todo)
    BY <2>1 DEF ToSet
  <2>3. Wanted(g) <=> Entries(g) # {}
    BY <2>1, <2>2 DEF Sought, Wanted, Due
  <2>4. ASSUME NEW i \in Entries(g)
        PROVE  /\ i \in DOMAIN found /\ Entries(g) = {i}
               /\ found[i].max = groupInfo[g].max
               /\ ask.kind \in {"all", "recommend"}
                    => found[i].count = Cardinality(RowsOf(g))
    <3>1. i \in DOMAIN found
      BY DEF Entries
    <3> QED BY <2>1, <3>1 DEF Sought
  <2> QED BY <2>3, <2>4
<1>2. QueryInv => ShowsWhatIs
  BY <1>1
<1> QED BY <1>2, QueryInvariance, PTL
-----------------------------------------------------------------------------
(* The types of a query, and the order in which it walks. *)

\* Groups are walked through from the newest: f has been looked up, t is to be.
InOrder(f, t) ==
  /\ \A i, j \in DOMAIN t : i < j => t[i] >= t[j]
  /\ \A i, j \in DOMAIN f : i < j => f[i].group >= f[j].group
  /\ \A i \in DOMAIN f, j \in DOMAIN t : f[i].group >= t[j]

NewestFirst == ask.kind \in {"all", "recommend"} => InOrder(found, todo)

\* What any query keeps, whatever the requests do to each other.
WalkInv == ListTypeOK /\ NewestFirst
Tables == IInv /\ FiniteTables

\* The rest of a stream in order is in order.
LEMMA RestInOrder ==
  ASSUME NEW S, NEW t \in Seq(S), t # <<>>, NEW f, InOrder(f, t)
  PROVE  InOrder(f, Tail(t))
<1>1. /\ Len(t) \in Nat /\ Len(t) >= 1 /\ DOMAIN t = 1..Len(t)
      /\ DOMAIN Tail(t) = 1..(Len(t) - 1)
      /\ \A i \in 1..(Len(t) - 1) : Tail(t)[i] = t[i + 1]
  <2>1. Tail(t) \in Seq(S) /\ Len(Tail(t)) = Len(t) - 1
    BY HeadTailProperties
  <2>2. DOMAIN Tail(t) = 1..(Len(t) - 1)
    BY <2>1, LenProperties
  <2> QED BY <2>2, EmptySeq, HeadTailProperties, LenProperties
<1>2. PICK r, n : /\ r = Tail(t) /\ n \in Nat /\ n >= 1 /\ DOMAIN t = 1..n
                  /\ DOMAIN r = 1..(n - 1)
                  /\ \A i \in 1..(n - 1) : r[i] = t[i + 1]
  BY <1>1
<1>3. \A i \in 1..(n - 1) : i + 1 \in 1..n
  BY <1>2
<1>4. \A i, j \in 1..(n - 1) : i < j => r[i] >= r[j]
  <2> SUFFICES ASSUME NEW i \in 1..(n - 1), NEW j \in 1..(n - 1), i < j
               PROVE  r[i] >= r[j]
    OBVIOUS
  <2>1. i + 1 < j + 1
    OBVIOUS
  <2> QED BY <1>2, <1>3, <2>1 DEF InOrder
<1>5. \A i \in DOMAIN f, j \in 1..(n - 1) : f[i].group >= r[j]
  BY <1>2, <1>3 DEF InOrder
<1> QED BY <1>2, <1>4, <1>5 DEF InOrder

\* The next group may be looked up.
LEMMA HeadInOrder ==
  ASSUME NEW S, NEW t \in Seq(GroupIds), t # <<>>,
         NEW f \in Seq(S), NEW e \in S, e.group = Head(t), InOrder(f, t)
  PROVE  InOrder(Append(f, e), t)
<1>1. /\ Len(t) \in Nat /\ Len(t) >= 1 /\ DOMAIN t = 1..Len(t)
      /\ Head(t) = t[1] /\ \A i \in 1..Len(t) : t[i] \in Nat
  <2>1. \A i \in 1..Len(t) : t[i] \in GroupIds
    BY ElementOfSeq
  <2>2. \A i \in 1..Len(t) : t[i] \in Nat
    BY <2>1, NumbersAssumption
  <2> QED BY <2>2, EmptySeq, HeadTailProperties, LenProperties
<1>2. PICK g : g = Append(f, e)
  OBVIOUS
<1>3. /\ Len(f) \in Nat /\ DOMAIN f = 1..Len(f) /\ DOMAIN g = 1..(Len(f) + 1)
      /\ g[Len(f) + 1] = e /\ \A i \in 1..Len(f) : g[i] = f[i]
  BY <1>2, OneMore, LenProperties
<1>4. \A j \in DOMAIN t : t[1] >= t[j]
  BY <1>1 DEF InOrder
<1>5. \A i, j \in DOMAIN g : i < j => g[i].group >= g[j].group
  <2> SUFFICES ASSUME NEW i \in DOMAIN g, NEW j \in DOMAIN g, i < j
               PROVE  g[i].group >= g[j].group
    OBVIOUS
  <2>1. CASE j \in 1..Len(f)
    <3>1. i \in 1..Len(f)
      BY <1>3, <2>1
    <3> QED BY <1>3, <2>1, <3>1 DEF InOrder
  <2>2. CASE j = Len(f) + 1
    <3>1. i \in 1..Len(f) /\ 1 \in DOMAIN t
      BY <1>1, <1>3, <2>2
    <3> QED BY <1>1, <1>3, <2>2, <3>1 DEF InOrder
  <2> QED BY <1>3, <2>1, <2>2
<1>6. \A i \in DOMAIN g, j \in DOMAIN t : g[i].group >= t[j]
  <2> SUFFICES ASSUME NEW i \in DOMAIN g, NEW j \in DOMAIN t
               PROVE  g[i].group >= t[j]
    OBVIOUS
  <2>1. CASE i \in 1..Len(f)
    BY <1>3, <2>1 DEF InOrder
  <2>2. CASE i = Len(f) + 1
    BY <1>1, <1>3, <1>4, <2>2
  <2> QED BY <1>3, <2>1, <2>2
<1> QED BY <1>2, <1>5, <1>6 DEF InOrder

\* Only the groups matter.
LEMMA SameInOrder ==
  ASSUME NEW f, NEW g, NEW t, InOrder(f, t), DOMAIN g = DOMAIN f,
         \A i \in DOMAIN f : g[i].group = f[i].group
  PROVE  InOrder(g, t)
BY DEF InOrder

\* A step that reads and goes on keeps the types.
LEMMA ProceedTypes ==
  ASSUME ListTypeOK, Reads, NEW groups \in Seq(GroupIds), Proceed(groups),
         found' \in Seq(Found)
  PROVE  ListTypeOK'
<1>1. ask' = ask /\ wish' = wish /\ answer' = answer /\ busy' = busy
  BY DEF Reads
<1>2. StepInOrder' /\ step' \in Walking /\ step' # "refused"
  BY <1>1, ProceedInOrder
<1>3. step' = "answered" => ask'.kind # "recommend"
  BY <1>1 DEF Proceed
<1>4. step' # "idle"
  BY <1>2 DEF Walking
<1> QED BY <1>1, <1>2, <1>3, <1>4 DEF ListTypeOK

LEMMA RefuseTypes ==
  ASSUME ListTypeOK, Reads, Refuse, todo # <<>>, step # "answered"
  PROVE  ListTypeOK'
<1>1. /\ ask' = ask /\ wish' = wish /\ answer' = answer /\ busy' = busy
      /\ step' = "refused" /\ todo' = todo /\ found' = found
  BY DEF Reads, Refuse
<1>2. StepInOrder'
  BY <1>1 DEF ListTypeOK, StepInOrder
<1> QED BY <1>1, <1>2 DEF ListTypeOK

LEMMA NamedGroups ==
  ASSUME IInv
  PROVE  Named \subseteq GroupIds
BY DEF IInv, TypeOK, Named, ReqType

LEMMA AskWalks ==
  ASSUME WalkInv, AskList \/ AskAll \/ AskView, Tables
  PROVE  WalkInv'
<1>1. PICK kind, u, groups :
        /\ kind \in Kinds /\ u \in Users \cup {NoUser}
        /\ Ask(kind, u, groups) /\ groups \in Seq(GroupIds)
        /\ kind = "view" => \E g \in DOMAIN groupInfo : groups = <<g>>
        /\ kind # "view" => groups = <<>>
  <2>1. \A g \in DOMAIN groupInfo : <<g>> \in Seq(GroupIds)
    BY DEF Tables, IInv, TypeOK, Table
  <2>2. <<>> \in Seq(GroupIds)
    OBVIOUS
  <2>3. CASE AskList
    <3>1. PICK u \in Askers, kind \in {"recommend", "mine"} : Ask(kind, u, <<>>)
      BY <2>3 DEF AskList
    <3> QED BY <2>2, <3>1, KindsAssumption DEF Ask
  <2>4. CASE AskAll
    <3>1. Ask("all", NoUser, <<>>) /\ "all" # "view"
      BY <2>4 DEF AskAll
    <3> QED BY <2>2, <3>1 DEF Ask
  <2>5. CASE AskView
    <3>1. PICK g \in DOMAIN groupInfo : Ask("view", NoUser, <<g>>)
      BY <2>5 DEF AskView
    <3> QED BY <2>1, <3>1 DEF Ask
  <2> QED BY <2>3, <2>4, <2>5
<1>2. /\ step = "idle" /\ found' = found /\ todo' = groups /\ busy' = Named
      /\ wish' = wish /\ answer' = answer
      /\ step' = First(kind) /\ ask' = [kind |-> kind, user |-> u]
  BY <1>1 DEF Ask
<1>3. /\ kind \in {"all", "recommend", "mine", "view"}
      /\ found = <<>> /\ found \in Seq(Found)
  BY <1>1, <1>2, KindsAssumption DEF WalkInv, ListTypeOK, StepInOrder
<1>4. kind = "view" => todo' # <<>> /\ todo' = <<Head(todo')>>
  BY <1>1, <1>2
<1>5. step' \in {"findDocs", "findRows", "findDoc"} /\ ask'.kind = kind
  BY <1>2 DEF First
<1>6. StepInOrder'
  BY <1>1, <1>2, <1>3, <1>4, <1>5 DEF StepInOrder, First
<1>7. Named \subseteq GroupIds
  BY NamedGroups DEF Tables
<1>8. ListTypeOK'
  BY <1>1, <1>2, <1>3, <1>5, <1>6, <1>7 DEF WalkInv, ListTypeOK
<1>9. InOrder(<<>>, <<>>)
  BY DEF InOrder
<1> QED BY <1>1, <1>2, <1>3, <1>5, <1>8, <1>9 DEF WalkInv, NewestFirst

LEMMA FindDocsWalks ==
  ASSUME WalkInv, FindDocs, Tables
  PROVE  WalkInv'
<1>1. /\ ask' = ask /\ found' = found /\ Reads
      /\ found = <<>> /\ step = "findDocs" /\ found \in Seq(Found)
  BY DEF FindDocs, Reads, WalkInv, ListTypeOK, StepInOrder
<1>2. PICK docs, s :
        /\ docs \in SetToSeqs(DOMAIN groupGame)
        /\ \A i, j \in DOMAIN docs : i < j => groupGame[docs[i]] >= groupGame[docs[j]]
        /\ s = [i \in DOMAIN docs |-> groupGame[docs[i]]] /\ Proceed(s)
  BY DEF FindDocs
<1>3. /\ docs \in Seq(DOMAIN groupGame)
      /\ \A i \in DOMAIN docs : docs[i] \in DOMAIN groupGame
  BY <1>2, OrdersOf DEF Tables, FiniteTables
<1>4. \A d \in DOMAIN groupGame : groupGame[d] \in GroupIds
  BY DEF Tables, IInv, TypeOK, Table
<1>5. s \in Seq(GroupIds)
  <2>1. Len(docs) \in Nat /\ DOMAIN docs = 1..Len(docs)
    BY <1>3, LenProperties
  <2>2. s \in [1..Len(docs) -> GroupIds]
    BY <1>2, <1>3, <1>4, <2>1
  <2> QED BY <2>1, <2>2, SeqDef
<1>6. ListTypeOK'
  BY <1>1, <1>2, <1>5, ProceedTypes DEF WalkInv
<1>7. InOrder(<<>>, s)
  BY <1>2 DEF InOrder
<1> QED BY <1>1, <1>2, <1>6, <1>7 DEF WalkInv, NewestFirst, Proceed

LEMMA FindRowsWalks ==
  ASSUME WalkInv, FindRows, Tables
  PROVE  WalkInv'
<1>1. /\ ask' = ask /\ found' = found /\ Reads
      /\ step = "findRows" /\ found \in Seq(Found) /\ ask.kind = "mine"
  BY DEF FindRows, Reads, WalkInv, ListTypeOK, StepInOrder
<1> DEFINE Own == {r \in DOMAIN groupUser : groupUser[r].user = ask.user}
<1>2. PICK rows, s :
        /\ rows \in SetToSeqs(Own)
        /\ s = [i \in DOMAIN rows |-> groupUser[rows[i]].group] /\ Proceed(s)
  BY DEF FindRows
<1>3. rows \in Seq(Own) /\ \A i \in DOMAIN rows : rows[i] \in Own
  <2>1. IsFiniteSet(Own)
    BY FS_Subset DEF Tables, FiniteTables
  <2> HIDE DEF Own
  <2> QED BY <1>2, <2>1, OrdersOf
<1>4. \A r \in DOMAIN groupUser : groupUser[r].group \in GroupIds
  BY DEF Tables, IInv, TypeOK, Table, UserRow
<1>5. s \in Seq(GroupIds)
  <2>1. Len(rows) \in Nat /\ DOMAIN rows = 1..Len(rows)
    BY <1>3, LenProperties
  <2>2. s \in [1..Len(rows) -> GroupIds]
    BY <1>2, <1>3, <1>4, <2>1
  <2> QED BY <2>1, <2>2, SeqDef
<1>6. ListTypeOK'
  BY <1>1, <1>2, <1>5, ProceedTypes DEF WalkInv
<1> QED BY <1>1, <1>6 DEF WalkInv, NewestFirst

LEMMA FindViewedWalks ==
  ASSUME WalkInv, FindViewed
  PROVE  WalkInv'
<1>1. /\ ask' = ask /\ Reads /\ ask.kind = "view"
      /\ step = "findDoc" /\ found \in Seq(Found)
      /\ todo \in Seq(GroupIds) /\ todo # <<>>
  BY DEF FindViewed, Reads, WalkInv, ListTypeOK, StepInOrder
<1>2. ListTypeOK'
  BY <1>1, ProceedTypes, RefuseTypes DEF FindViewed, WalkInv
<1> QED BY <1>1, <1>2 DEF WalkInv, NewestFirst

\* A step among the groups starts from this.
LEMMA WalkingTypes ==
  ASSUME WalkInv,
         step \in {"checkMember", "fetchOwn", "findGroup", "countUsers"}
  PROVE  /\ StepInOrder /\ found \in Seq(Found)
         /\ todo \in Seq(GroupIds) /\ todo # <<>>
         /\ Head(todo) \in GroupIds /\ Tail(todo) \in Seq(GroupIds)
BY HeadOrLater DEF WalkInv, ListTypeOK, StepInOrder

LEMMA CheckMemberWalks ==
  ASSUME WalkInv, CheckMember
  PROVE  WalkInv'
<1>1. /\ UNCHANGED <<ask, found, todo, wish, answer, busy>> /\ Reads
      /\ step = "checkMember"
      /\ Refuse \/ step' \in {"findGroup", "fetchOwn"}
  BY DEF CheckMember, Refuse, Reads
<1>2. StepInOrder /\ found \in Seq(Found) /\ todo # <<>>
  BY <1>1, WalkingTypes
<1>3. ListTypeOK'
  <2>1. CASE step' \in {"findGroup", "fetchOwn"}
    <3>1. StepInOrder'
      BY <1>1, <1>2, <2>1 DEF StepInOrder
    <3> QED BY <1>1, <1>2, <2>1, <3>1 DEF WalkInv, ListTypeOK
  <2> QED BY <1>1, <1>2, <2>1, RefuseTypes DEF WalkInv
<1> QED BY <1>1, <1>3 DEF WalkInv, NewestFirst

LEMMA FetchOwnWalks ==
  ASSUME WalkInv, FetchOwn
  PROVE  WalkInv'
<1>1. /\ ask' = ask /\ found' = found /\ Reads /\ step = "fetchOwn"
      /\ Refuse \/ Proceed(Tail(todo))
  BY DEF FetchOwn, Refuse, Reads
<1>2. /\ found \in Seq(Found) /\ todo \in Seq(GroupIds) /\ todo # <<>>
      /\ Tail(todo) \in Seq(GroupIds)
  BY <1>1, WalkingTypes
<1>3. ListTypeOK'
  BY <1>1, <1>2, ProceedTypes, RefuseTypes DEF WalkInv
<1>4. todo' = todo \/ todo' = Tail(todo)
  BY <1>1 DEF Refuse, Proceed
<1> QED BY <1>1, <1>2, <1>3, <1>4, RestInOrder DEF WalkInv, NewestFirst

LEMMA FindGroupWalks ==
  ASSUME WalkInv, FindGroup, Tables
  PROVE  WalkInv'
<1>1. ask' = ask /\ Reads /\ step = "findGroup"
  BY DEF FindGroup, Reads
<1>2. /\ StepInOrder
      /\ found \in Seq(Found) /\ todo \in Seq(GroupIds) /\ todo # <<>>
      /\ Head(todo) \in GroupIds /\ Tail(todo) \in Seq(GroupIds)
  BY <1>1, WalkingTypes
<1>3. CASE Refuse
  <2>1. ListTypeOK'
    BY <1>1, <1>2, <1>3, RefuseTypes DEF WalkInv
  <2> QED BY <1>1, <1>3, <2>1 DEF WalkInv, NewestFirst, Refuse
<1>4. CASE Proceed(Tail(todo)) /\ found' = found
  <2>1. ListTypeOK'
    BY <1>1, <1>2, <1>4, ProceedTypes DEF WalkInv
  <2>2. todo' = Tail(todo)
    BY <1>4 DEF Proceed
  <2> QED BY <1>1, <1>2, <1>4, <2>1, <2>2, RestInOrder DEF WalkInv, NewestFirst
<1>5. CASE /\ Head(todo) \in DOMAIN groupInfo
           /\ found' = Append(found, [group |-> Head(todo),
                                      max |-> groupInfo[Head(todo)].max,
                                      count |-> 0])
           /\ IF ask.kind \in {"all", "recommend"}
                THEN step' = "countUsers" /\ UNCHANGED todo
                ELSE Proceed(Tail(todo))
  <2>1. PICK e \in Found : found' = Append(found, e) /\ e.group = Head(todo)
    <3>1. groupInfo[Head(todo)].max \in Nat
      BY <1>5 DEF Tables, IInv, TypeOK, Table, GroupRow
    <3> QED BY <1>2, <1>5, <3>1 DEF Found
  <2>2. /\ found' \in Seq(Found) /\ found' # <<>>
        /\ found'[Len(found')] = e
    BY <1>2, <2>1, OneMore
  <2>3. CASE ask.kind \in {"all", "recommend"}
    <3>1. step' = "countUsers" /\ todo' = todo
      BY <1>5, <2>3
    <3>2. StepInOrder'
      BY <1>1, <1>2, <2>1, <2>2, <2>3, <3>1 DEF StepInOrder
    <3>3. UNCHANGED <<ask, wish, answer, busy>>
      BY DEF FindGroup, Reads
    <3>4. ListTypeOK'
      BY <1>2, <2>2, <3>1, <3>2, <3>3 DEF WalkInv, ListTypeOK
    <3>5. InOrder(found', todo')
      BY <1>2, <2>1, <2>3, <3>1, HeadInOrder DEF WalkInv, NewestFirst
    <3> QED BY <3>4, <3>5 DEF WalkInv, NewestFirst
  <2>4. CASE ask.kind \notin {"all", "recommend"}
    <3>1. ListTypeOK'
      BY <1>1, <1>2, <1>5, <2>2, <2>4, ProceedTypes DEF WalkInv
    <3> QED BY <1>1, <2>4, <3>1 DEF WalkInv, NewestFirst
  <2> QED BY <2>3, <2>4
<1> QED BY <1>3, <1>4, <1>5 DEF FindGroup

LEMMA CountUsersWalks ==
  ASSUME WalkInv, CountUsers, Tables
  PROVE  WalkInv'
<1>1. /\ ask' = ask /\ Reads /\ step = "countUsers" /\ Proceed(Tail(todo))
      /\ ask.kind \in {"all", "recommend"}
  BY DEF CountUsers, Reads, WalkInv, ListTypeOK, StepInOrder
<1>2. /\ found \in Seq(Found) /\ found # <<>>
      /\ todo \in Seq(GroupIds) /\ todo # <<>>
      /\ Head(todo) \in GroupIds /\ Tail(todo) \in Seq(GroupIds)
  BY <1>1, WalkingTypes DEF StepInOrder
<1>3. PICK n : n = Cardinality(RowsOf(Head(todo)))
  OBVIOUS
<1>4. n \in Nat
  BY <1>3, RowsFinite DEF Tables, FiniteTables
<1>5. /\ found' \in Seq(Found) /\ DOMAIN found' = DOMAIN found
      /\ \A i \in DOMAIN found : found'[i].group = found[i].group
  <2>1. found' = [found EXCEPT ![Len(found)].count = n]
    BY <1>3 DEF CountUsers
  <2> QED BY <1>2, <1>4, <2>1, LastCounted
<1>6. ListTypeOK'
  BY <1>1, <1>2, <1>5, ProceedTypes DEF WalkInv
<1>7. InOrder(found', Tail(todo))
  BY <1>1, <1>2, <1>5, RestInOrder, SameInOrder DEF WalkInv, NewestFirst
<1> QED BY <1>1, <1>6, <1>7 DEF WalkInv, NewestFirst, Proceed

\* What is ranked.
LEMMA Ranked ==
  ASSUME WalkInv, Score
  PROVE  /\ UNCHANGED <<ask, todo, busy>> /\ step' = "answered"
         /\ ask.kind = "recommend" /\ wish' \in Profiles
         /\ found' \in Seq(Scored) /\ answer' = Sorted(wish', found')
         /\ DOMAIN found' = DOMAIN found
         /\ \A i \in DOMAIN found : found'[i].group = found[i].group
         /\ \A i \in DOMAIN found' : found'[i].offer \in Offers
<1>1. /\ UNCHANGED <<ask, todo, busy>> /\ step' = "answered"
      /\ ask.kind = "recommend" /\ found \in Seq(Found)
  BY DEF Score, WalkInv, ListTypeOK, StepInOrder
<1>2. PICK u \in Profiles, offers \in [DOMAIN found -> Offers] :
        /\ found' = [i \in DOMAIN found |->
                       [group |-> found[i].group, max |-> found[i].max,
                        count |-> found[i].count, offer |-> offers[i]]]
        /\ wish' = u /\ answer' = Sorted(u, found')
  BY DEF Score
<1>3. Len(found) \in Nat /\ DOMAIN found = 1..Len(found)
  BY <1>1, LenProperties
<1>4. \A i \in 1..Len(found) : found[i] \in Found
  BY <1>1, ElementOfSeq
<1>5. found' \in [1..Len(found) -> Scored]
  BY <1>2, <1>3, <1>4 DEF Found, Scored
<1>6. found' \in Seq(Scored)
  BY <1>3, <1>5, SeqDef
<1> QED BY <1>1, <1>2, <1>6

\* Every total is a number, whatever the hours.
LEMMA TotalIsNumber ==
  ASSUME NEW u \in Wish, NEW g \in Wish
  PROVE  Total(u, g) \in Nat
<1> DEFINE K == DOMAIN u.info
<1>1. PICK p : p = [k \in K |-> AttrScore(u.info[k], Said(g.info, k))]
  OBVIOUS
<1>2. IsFiniteSet(K)
  BY WishAssumption, FS_Subset DEF Wish
<1>3. MapThenSumSet(LAMBDA key : AttrScore(u.info[key], Said(g.info, key)), K)
        = Gathered(p, K)
  BY <1>1, <1>2, SumGathers
<1>4. Total(u, g) = Gathered(p, K) + TimeScore(u, g)
  BY <1>3, Zenon DEF Total
<1>5. TimeScore(u, g) \in Nat
  BY DEF TimeScore
<1>6. \A n : Worth(p, n, K) \in Nat
  <2> SUFFICES ASSUME NEW n PROVE Worth(p, n, K) \in Nat
    OBVIOUS
  <2>1. PICK A : A = {k \in K : p[k] = n}
    OBVIOUS
  <2>2. Cardinality(A) \in Nat
    BY <1>2, <2>1, FS_Subset, FS_CardinalityType
  <2> QED BY <2>1, <2>2, Zenon DEF Worth
<1> HIDE DEF K
<1>7. Gathered(p, K) \in Nat
  BY <1>6 DEF Gathered
<1> QED BY <1>4, <1>5, <1>7

LEMMA ScoreWalks ==
  ASSUME WalkInv, Score
  PROVE  WalkInv'
<1>1. PICK s, u : s = found' /\ u = wish'
  OBVIOUS
<1>2. /\ UNCHANGED <<ask, todo, busy>> /\ step' = "answered"
      /\ ask.kind = "recommend" /\ u \in Profiles
      /\ s \in Seq(Scored) /\ answer' = Sorted(u, s)
      /\ DOMAIN s = DOMAIN found
      /\ \A i \in DOMAIN found : s[i].group = found[i].group
      /\ \A i \in DOMAIN s : s[i].offer \in Offers
  BY <1>1, Ranked
<1>3. \A i \in DOMAIN s : Total(u, s[i].offer) \in Nat
  BY <1>2, TotalIsNumber, WishAssumption
<1>4. answer' \in Seq(Scored)
  BY <1>2, <1>3, SortedTakes
<1>5. StepInOrder'
  BY <1>2 DEF Score, WalkInv, ListTypeOK, StepInOrder
<1>6. ListTypeOK'
  BY <1>1, <1>2, <1>4, <1>5 DEF WalkInv, ListTypeOK
<1>7. InOrder(found', todo')
  <2>1. InOrder(found, todo)
    BY <1>2 DEF WalkInv, NewestFirst
  <2> QED BY <1>1, <1>2, <2>1, SameInOrder
<1> QED BY <1>6, <1>7 DEF WalkInv, NewestFirst

LEMMA DoneWalks ==
  ASSUME WalkInv, Done
  PROVE  WalkInv'
<1>1. /\ step' = "idle" /\ ask' = NoAsk /\ todo' = <<>> /\ found' = <<>>
      /\ wish' = NoWish /\ answer' = <<>> /\ busy' = {}
  BY DEF Done
<1>2. StepInOrder'
  BY <1>1 DEF StepInOrder
<1>3. ListTypeOK'
  BY <1>1, <1>2 DEF ListTypeOK, NoAsk, query
<1> QED BY <1>1, <1>3 DEF WalkInv, NewestFirst, NoAsk

LEMMA ChangeWalks ==
  ASSUME WalkInv, Change, IInv'
  PROVE  WalkInv'
<1>1. /\ UNCHANGED <<step, ask, todo, found, wish, answer>>
      /\ busy' = IF step = "idle" THEN {} ELSE busy \cup Named'
  BY DEF Change
<1>2. StepInOrder'
  BY <1>1 DEF WalkInv, ListTypeOK, StepInOrder
<1>3. (Named \subseteq GroupIds)'
  BY DEF IInv, TypeOK, Named, ReqType
<1>4. step = "idle" => busy' = {}
  BY <1>1
<1>5. ListTypeOK'
  BY <1>1, <1>2, <1>3, <1>4 DEF WalkInv, ListTypeOK, query
<1> QED BY <1>1, <1>5 DEF WalkInv, NewestFirst

LEMMA WalkNext ==
  ASSUME WalkInv, Tables, IInv', [Query \/ Change]_allVars
  PROVE  WalkInv'
<1>1. CASE Query
  BY <1>1, AskWalks, FindDocsWalks, FindRowsWalks, FindViewedWalks,
     CheckMemberWalks, FetchOwnWalks, FindGroupWalks, CountUsersWalks,
     ScoreWalks, DoneWalks DEF Query
<1>2. CASE Change
  BY <1>2, ChangeWalks
<1>3. CASE UNCHANGED allVars
  <2>1. UNCHANGED <<step, ask, todo, found, wish, answer, busy>>
    BY <1>3 DEF allVars, query
  <2>2. StepInOrder'
    BY <2>1 DEF WalkInv, ListTypeOK, StepInOrder
  <2> QED BY <2>1, <2>2 DEF WalkInv, ListTypeOK, NewestFirst, query
<1> QED BY <1>1, <1>2, <1>3

LEMMA WalkInit == ListInit => WalkInv
<1> SUFFICES ASSUME ListInit PROVE WalkInv
  OBVIOUS
<1>1. /\ step = "idle" /\ ask = NoAsk /\ todo = <<>> /\ found = <<>>
      /\ wish = NoWish /\ answer = <<>> /\ busy = {}
  BY DEF ListInit
<1>2. StepInOrder
  BY <1>1 DEF StepInOrder
<1>3. ListTypeOK
  BY <1>1, <1>2 DEF ListTypeOK, NoAsk, query
<1> QED BY <1>1, <1>3 DEF WalkInv, NewestFirst, NoAsk

LEMMA Walks == ListSpec => [](WalkInv /\ Tables)
<1>1. WalkInv /\ Tables /\ Tables' /\ [Query \/ Change]_allVars => WalkInv'
  BY WalkNext DEF Tables
<1>2. ListSpec => []Tables
  BY FiniteBeside DEF Tables
<1> QED BY <1>1, <1>2, WalkInit, PTL DEF ListSpec

\* Whatever the requests do to each other, whatever fails and whenever the
\* process dies, no query comes to a step without what it needs there: a group
\* to look up (iterator of the stream), an entry whose members are counted.
THEOREM QueriesTyped == ListSpec => []ListTypeOK
<1>1. WalkInv => ListTypeOK
  BY DEF WalkInv
<1> QED BY <1>1, Walks, PTL

\* The ranking puts the best first.
LEMMA ScoreRanks ==
  ASSUME WalkInv, Score
  PROVE  BestFirst'
<1>1. PICK s, u, a : s = found' /\ u = wish' /\ a = answer'
  OBVIOUS
<1>2. /\ UNCHANGED <<ask, todo, busy>> /\ ask.kind = "recommend"
      /\ u \in Profiles /\ s \in Seq(Scored) /\ a = Sorted(u, s)
      /\ DOMAIN s = DOMAIN found
      /\ \A i \in DOMAIN found : s[i].group = found[i].group
      /\ \A i \in DOMAIN s : s[i].offer \in Offers
  BY <1>1, Ranked
<1>3. \A i \in DOMAIN s : Total(u, s[i].offer) \in Nat
  BY <1>2, TotalNat, WishAssumption
<1>4. /\ a \in Seq(Scored) /\ Len(a) = Min({Limit, Len(s)})
      /\ \E at \in [DOMAIN a -> DOMAIN s] :
           /\ \A k \in DOMAIN a : a[k] = s[at[k]]
           /\ \A k, l \in DOMAIN a : k < l => Ahead(u, s, at[k], at[l])
           /\ \A i \in DOMAIN s :
                \/ \E k \in DOMAIN a : at[k] = i
                \/ \A k \in DOMAIN a : Ahead(u, s, at[k], i)
  BY <1>2, <1>3, SortedTakes
<1>5. PICK at \in [DOMAIN a -> DOMAIN s] :
           /\ \A k \in DOMAIN a : a[k] = s[at[k]]
           /\ \A k, l \in DOMAIN a : k < l => Ahead(u, s, at[k], at[l])
           /\ \A i \in DOMAIN s :
                \/ \E k \in DOMAIN a : at[k] = i
                \/ \A k \in DOMAIN a : Ahead(u, s, at[k], i)
  BY <1>4
<1>6. \A i, j \in DOMAIN s : i < j => s[i].group >= s[j].group
  BY <1>2 DEF WalkInv, NewestFirst, InOrder
<1>7. \A i, j \in DOMAIN s : Ahead(u, s, i, j) => Before(s[i], s[j])'
  <2> SUFFICES ASSUME NEW i \in DOMAIN s, NEW j \in DOMAIN s, Ahead(u, s, i, j)
               PROVE  Before(s[i], s[j])'
    OBVIOUS
  <2>1. PICK m, n : m = Total(u, s[i].offer) /\ n = Total(u, s[j].offer)
    OBVIOUS
  <2>2. m > n \/ (m = n /\ i < j)
    BY <1>3, <2>1 DEF Ahead
  <2>3. m > n \/ (m = n /\ s[i].group >= s[j].group)
    BY <1>6, <2>2
  <2> QED BY <1>1, <2>1, <2>3, Zenon DEF Before
<1>8. Len(s) = Len(found')
  BY <1>1
<1>9. ASSUME NEW i \in DOMAIN a, NEW j \in DOMAIN a, i < j
      PROVE  Before(a[i], a[j])'
  BY <1>5, <1>7, <1>9
<1>10. ASSUME NEW e \in ToSet(s) \ ToSet(a), NEW i \in DOMAIN a
       PROVE  Before(a[i], e)'
  <2>1. PICK n \in DOMAIN s : e = s[n]
    BY <1>10 DEF ToSet
  <2>2. \A k \in DOMAIN a : at[k] # n
    BY <1>5, <1>10, <2>1 DEF ToSet
  <2> QED BY <1>5, <1>7, <2>1, <2>2
<1> QED BY <1>1, <1>4, <1>9, <1>10 DEF BestFirst

\* Nothing else answers a recommendation, and the answer stands.
LEMMA RankingStands ==
  ASSUME WalkInv, BestFirst, [Query \/ Change]_allVars, ~Score
  PROVE  BestFirst'
<1>1. CASE Change
  BY <1>1 DEF Change, BestFirst
<1>2. CASE UNCHANGED allVars
  <2>1. UNCHANGED <<step, ask, found, wish, answer>>
    BY <1>2 DEF allVars, query
  <2> QED BY <2>1 DEF BestFirst, Before
<1>3. CASE AskList \/ AskAll \/ AskView \/ Done
  BY <1>3 DEF AskList, AskAll, AskView, Ask, First, Done, BestFirst
<1>4. CASE FindDocs \/ FindRows \/ FindViewed \/ CheckMember \/ FetchOwn
           \/ FindGroup \/ CountUsers
  <2>1. ask' = ask
    BY <1>4 DEF FindDocs, FindRows, FindViewed, CheckMember, FetchOwn,
                FindGroup, CountUsers, Reads
  <2>2. \/ step' \in {"findGroup", "fetchOwn", "countUsers", "refused"}
        \/ \E groups : Proceed(groups)
    BY <1>4 DEF FindDocs, FindRows, FindViewed, CheckMember, FetchOwn,
                FindGroup, CountUsers, Refuse
  <2>3. ask.kind = "recommend" => step' # "answered"
    BY <2>2 DEF Proceed
  <2> QED BY <2>1, <2>3 DEF BestFirst
<1> QED BY <1>1, <1>2, <1>3, <1>4 DEF Query

\* Whatever the requests do meanwhile, a recommendation is the groups of the
\* highest totals, the highest first and of two with one total the newer
\* (findRcmGroupByGameId with groupSort, 91-166), for all profiles and offers.
THEOREM RecommendsBest == ListSpec => []BestFirst
<1>1. ListInit => BestFirst
  BY DEF ListInit, BestFirst
<1>2. WalkInv /\ BestFirst /\ [Query \/ Change]_allVars => BestFirst'
  BY ScoreRanks, RankingStands
<1> QED BY <1>1, <1>2, Walks, PTL DEF ListSpec
=============================================================================
