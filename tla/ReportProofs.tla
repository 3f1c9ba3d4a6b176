---------------------------- MODULE ReportProofs -----------------------------
(***************************************************************************)
(* Proofs about ShopReports and the clock it reads: the minutes that       *)
(* intervals cover, the stretches of an activity, the boards and the       *)
(* bandings of a day, and what the floor's requests keep of the rows; for  *)
(* any orders, sheets, staff and instants.                                 *)
(***************************************************************************)
EXTENDS ShopReports,
        SumTheorems, SequenceTheorems, FiniteSetTheorems, TLAPS

-----------------------------------------------------------------------------
(* WorkClock: the minutes that intervals cover *)

\* The ticks of an interval, and of a set of them.
Covers(i) == i[1] .. i[2] - 1
Covered(intervals) == UNION {Covers(i) : i \in intervals}

\* What i adds to those before it.
Added(intervals, i) == Reach(intervals, i) .. i[2] - 1

\* An interval reaches from its start, or from the latest end of those before it.
LEMMA ReachFact ==
    ASSUME NEW I \in SUBSET (Int \X Int), IsFiniteSet(I), NEW i \in I
    PROVE  /\ Reach(I, i) \in Int /\ i[1] <= Reach(I, i)
           /\ \A k \in I : k[1] < i[1] \/ (k[1] = i[1] /\ k[2] < i[2]) => k[2] <= Reach(I, i)
           /\ \A t \in Int : /\ i[1] <= t
                             /\ \A k \in I : k[1] < i[1] \/ (k[1] = i[1] /\ k[2] < i[2]) => k[2] <= t
                             => Reach(I, i) <= t
<1>1. PICK K : K = {k \in I : k[1] < i[1] \/ (k[1] = i[1] /\ k[2] < i[2])}
  OBVIOUS
<1>2. PICK end : end = [k \in I |-> k[2]]
  OBVIOUS
<1>3. PICK E : E = {i[1]} \union {end[k] : k \in K}
  OBVIOUS
<1>4. E \in SUBSET Int /\ E # {}
  BY <1>1, <1>2, <1>3
<1>5. IsFiniteSet(E)
  <2>1. IsFiniteSet(K)
    BY <1>1, FS_Subset
  <2>2. IsFiniteSet({end[k] : k \in K})
    BY <2>1, ImageIsFinite
  <2>3. QED
    BY <1>3, <2>2, FS_Singleton, FS_Union
<1>6. Reach(I, i) = Max(E)
  <2>1. E = {i[1]} \union {j[2] : j \in {k \in I : k[1] < i[1] \/ (k[1] = i[1] /\ k[2] < i[2])}}
    BY <1>1, <1>2, <1>3
  <2>2. QED
    BY <2>1 DEF Reach
<1>7. Max(E) \in E /\ \A y \in E : y <= Max(E)
  BY <1>4, <1>5, GreatestIsThere
<1>8. QED
  BY <1>1, <1>2, <1>3, <1>4, <1>6, <1>7

\* Every tick covered is added once: by the first of the intervals that cover it.
LEMMA AddedOnce ==
    ASSUME NEW I \in SUBSET (Int \X Int), IsFiniteSet(I)
    PROVE  /\ \A i \in I : Added(I, i) \subseteq Covers(i)
           /\ \A i, j \in I : i # j => Added(I, i) \cap Added(I, j) = {}
           /\ \A t \in Covered(I) : \E i \in I : t \in Added(I, i)
<1>1. ASSUME NEW i \in I PROVE Added(I, i) \subseteq Covers(i)
  <2>1. Reach(I, i) \in Int /\ i[1] <= Reach(I, i) /\ i[1] \in Int /\ i[2] \in Int
    BY ReachFact
  <2>2. QED
    BY <2>1 DEF Added, Covers
<1>2. ASSUME NEW i \in I, NEW j \in I, i[1] < j[1] \/ (i[1] = j[1] /\ i[2] < j[2])
      PROVE  Added(I, i) \cap Added(I, j) = {}
  <2>1. Reach(I, i) \in Int /\ Reach(I, j) \in Int /\ i[2] <= Reach(I, j)
    BY <1>2, ReachFact
  <2>2. i[2] \in Int /\ j[2] \in Int
    OBVIOUS
  <2>3. QED
    BY <2>1, <2>2 DEF Added
<1>3. ASSUME NEW i \in I, NEW j \in I, i # j
      PROVE  Added(I, i) \cap Added(I, j) = {}
  <2>1. i[1] # j[1] \/ i[2] # j[2]
    BY <1>3
  <2>2. \/ i[1] < j[1] \/ (i[1] = j[1] /\ i[2] < j[2])
        \/ j[1] < i[1] \/ (j[1] = i[1] /\ j[2] < i[2])
    BY <2>1
  <2>3. QED
    BY <1>2, <2>2
<1>4. ASSUME NEW t \in Covered(I) PROVE \E i \in I : t \in Added(I, i)
  <2>1. PICK K : K = {i \in I : t \in Covers(i)}
    OBVIOUS
  <2>2. K # {} /\ K \subseteq I /\ t \in Int /\ \A k \in K : k[1] \in Int /\ k[2] \in Int
    BY <2>1 DEF Covered, Covers
  <2>3. IsFiniteSet(K)
    BY <2>2, FS_Subset
  <2>4. PICK start : start = [k \in K |-> k[1]]
    OBVIOUS
  <2>5. PICK S : S = {start[k] : k \in K}
    OBVIOUS
  <2>6. S \in SUBSET Int /\ S # {} /\ IsFiniteSet(S)
    BY <2>2, <2>3, <2>4, <2>5, ImageIsFinite
  <2>7. PICK a \in S : \A y \in S : a <= y
    BY <2>6, LeastIsThere
  <2>8. PICK F : F = {k \in K : k[1] = a}
    OBVIOUS
  <2>9. F # {} /\ F \subseteq K /\ IsFiniteSet(F)
    <3>1. F # {} /\ F \subseteq K
      BY <2>4, <2>5, <2>7, <2>8
    <3>2. QED
      BY <2>3, <3>1, FS_Subset
  <2>10. PICK end : end = [k \in F |-> k[2]]
    OBVIOUS
  <2>11. PICK E : E = {end[k] : k \in F}
    OBVIOUS
  <2>12. E \in SUBSET Int /\ E # {} /\ IsFiniteSet(E)
    BY <2>2, <2>9, <2>10, <2>11, ImageIsFinite
  <2>13. PICK b \in E : \A y \in E : b <= y
    BY <2>12, LeastIsThere
  <2>14. PICK i \in F : i[2] = b
    BY <2>10, <2>11, <2>13
  <2>15. i \in I /\ i[1] = a /\ i[1] <= t /\ t < i[2] /\ a \in Int /\ i[2] \in Int
    BY <2>1, <2>2, <2>8, <2>9, <2>14 DEF Covers
  <2>16. ASSUME NEW k \in I, k[1] < i[1] \/ (k[1] = i[1] /\ k[2] < i[2])
         PROVE  k[2] <= t
    <3>1. k \notin K
      <4>1. CASE k[1] < i[1]
        BY <2>2, <2>4, <2>5, <2>7, <2>15, <4>1
      <4>2. CASE k[1] = i[1] /\ k[2] < i[2]
        <5> SUFFICES ASSUME k \in K PROVE FALSE
          OBVIOUS
        <5>1. k \in F
          BY <2>8, <2>15, <4>2
        <5>2. b <= k[2]
          BY <2>10, <2>11, <2>13, <5>1
        <5>3. QED
          BY <2>2, <2>14, <2>15, <4>2, <5>2
      <4>3. QED
        BY <2>16, <4>1, <4>2
    <3>2. k[1] \in Int /\ k[2] \in Int /\ k[1] <= i[1]
      BY <2>15, <2>16
    <3>3. QED
      BY <2>1, <2>2, <2>15, <3>1, <3>2 DEF Covers
  <2>17. Reach(I, i) <= t /\ Reach(I, i) \in Int
    BY <2>2, <2>15, <2>16, ReachFact
  <2>18. QED
    BY <2>2, <2>15, <2>17 DEF Added
<1>5. QED
  BY <1>1, <1>3, <1>4

\* _union_seconds adds up each minute covered once, however the intervals overlap.
THEOREM UnionCountsOnce ==
    ASSUME NEW I \in SUBSET (Int \X Int), IsFiniteSet(I)
    PROVE  /\ IsFiniteSet(Covered(I))
           /\ UnionTicks(I) = Cardinality(Covered(I))
<1>1. PICK part : part = [i \in I |-> Added(I, i)]
  OBVIOUS
<1>2. PICK each : each = [i \in I |-> Later(0, i[2] - Reach(I, i))]
  OBVIOUS
<1>3. /\ \A i \in I : part[i] \subseteq Covered(I)
      /\ \A t \in Covered(I) : \E i \in I : t \in part[i]
  BY <1>1, AddedOnce DEF Covered
<1>4. ASSUME NEW i \in I
      PROVE  IsFiniteSet(part[i]) /\ each[i] = Cardinality(part[i])
  <2>1. Reach(I, i) \in Int /\ i[2] \in Int
    BY ReachFact
  <2>2. IsFiniteSet(Added(I, i)) /\ Cardinality(Added(I, i)) = Later(0, i[2] - Reach(I, i))
    BY <2>1, FS_Interval DEF Added, Later
  <2>3. QED
    BY <1>1, <1>2, <2>2
<1>5. \A i, j \in I : i # j => part[i] \cap part[j] = {}
  BY <1>1, AddedOnce
<1>6. SplitBy(part, I, Covered(I))
  BY <1>3, <1>4, <1>5 DEF SplitBy
<1>7. IsFiniteSet(Covered(I)) /\ Total(each, I) = Cardinality(Covered(I))
  BY <1>4, <1>6, TotalOfApart
<1>8. QED
  BY <1>2, <1>7 DEF UnionTicks

-----------------------------------------------------------------------------
(* ShopReports: the rows the shop floor leaves, and what is read in them *)

\* What a column may hold: nothing, or an instant that has come.
SoFar == {t \in Instants \union {Never} : t <= clock}

ColumnsTyped ==
    /\ clock \in Instants \union {0}
    /\ stage \in [Acts -> {"pending", "in_progress", "done"}]
    /\ begun \in [Acts -> SoFar] /\ ended \in [Acts -> SoFar]
    /\ ender \in [Acts -> Staff \union {Nobody}]
    /\ marked \in [Slips -> SoFar] /\ marker \in [Slips -> Staff \union {Nobody}]
    /\ ready \subseteq Orders

\* A pause is somebody's, and ends after it began.
IsPause(s) ==
    /\ s = [from |-> s.from, to |-> s.to, user |-> s.user]
    /\ s.from \in SoFar \ {Never} /\ s.to \in SoFar /\ s.user \in Staff
    /\ s.to # Never => s.from < s.to

\* The instant is not one of the pause's.
Outside(t, s) == t < s.from \/ (s.to # Never /\ s.to < t)

\* The pauses of an activity are apart, and one in force is of an activity under way.
StopsAgree ==
    /\ stops = [a \in Acts |-> stops[a]]
    /\ \A a \in Acts :
          /\ \A s \in stops[a] : IsPause(s)
          /\ \A s, q \in stops[a] : s # q => Outside(s.from, q)
          /\ Stopped(a) => stage[a] = "in_progress"

\* A mark has its author and an instant of its own, and nothing is marked or taken
\* during a pause.
EventsAgree ==
    /\ \A p \in Slips : marked[p] = Never => marker[p] = Nobody
    /\ \A p \in Slips : marked[p] # Never =>
          /\ marker[p] \in Staff
          /\ marked[p] # begun[Cut(OrderOf[SheetOf[p]])]
          /\ \A q \in Slips : marked[q] = marked[p] => q = p
          /\ \A s \in stops[Cut(OrderOf[SheetOf[p]])] : Outside(marked[p], s)
    /\ \A a \in Acts : begun[a] # Never => \A s \in stops[a] : Outside(begun[a], s)

RowsInv == ColumnsTyped /\ StopsAgree /\ EventsAgree

\* The activities and their parts.
LEMMA ActsFact ==
    /\ \A o \in Orders : Cut(o) \in Acts
    /\ \A a \in Acts : a[1] \in Orders /\ a[2] \in {"cutting", "banding"}
    /\ \A o, z \in Orders : Cut(o) = Cut(z) => o = z
    /\ \A a \in Acts : a[2] = "cutting" => a = Cut(a[1])
    /\ \A p \in Slips : SheetOf[p] \in Sheets /\ OrderOf[SheetOf[p]] \in Orders
BY ShopReportsAssumption DEF Acts, Cut

\* Time passes: what was set is set, and what is set now is set last.
LEMMA PassesFact ==
    ASSUME ColumnsTyped, Passes
    PROVE  /\ clock' \in Instants /\ clock' \in Nat /\ clock' # Never /\ clock < clock'
           /\ \A t \in SoFar : t \in SoFar' /\ t < clock' /\ t \in Nat
           /\ clock' \in SoFar'
BY ShopReportsAssumption DEF ColumnsTyped, Passes, SoFar, Never

\* The pauses once those in force have ended.
LEMMA EndedFact ==
    ASSUME RowsInv, Passes, NEW a \in Acts
    PROVE  /\ \A q \in Ended(a) : \E s \in stops[a] :
                 /\ q.from = s.from /\ q.user = s.user /\ IsPause(q)'
                 /\ q.to = IF s.to = Never THEN clock' ELSE s.to
                 /\ q.to # Never
                 /\ q = [s EXCEPT !.to = q.to]
           /\ \A s \in stops[a] : IsPause(s) => IsPause(s)'
<1>1. ASSUME NEW s \in stops[a], NEW q, q = IF s.to = Never THEN [s EXCEPT !.to = clock'] ELSE s
      PROVE  /\ q.from = s.from /\ q.user = s.user /\ IsPause(q)'
             /\ q.to = IF s.to = Never THEN clock' ELSE s.to
             /\ q.to # Never
             /\ q = [s EXCEPT !.to = q.to]
  <2>1. /\ s = [from |-> s.from, to |-> s.to, user |-> s.user]
        /\ s.from \in SoFar \ {Never} /\ s.to \in SoFar /\ s.user \in Staff
        /\ s.to # Never => s.from < s.to
    BY DEF RowsInv, StopsAgree, IsPause
  <2>2. /\ clock' # Never /\ clock' \in SoFar' /\ s.from \in SoFar' /\ s.to \in SoFar'
        /\ s.from < clock'
    BY <2>1, PassesFact DEF RowsInv
  <2>3. q = [from |-> s.from, to |-> IF s.to = Never THEN clock' ELSE s.to, user |-> s.user]
    BY <1>1, <2>1
  <2>4. q.from = s.from /\ q.user = s.user /\ q.to = IF s.to = Never THEN clock' ELSE s.to
    BY <2>3
  <2>5. q = [from |-> q.from, to |-> q.to, user |-> q.user]
    BY <2>3, <2>4
  <2>6. q = [s EXCEPT !.to = q.to]
    BY <2>1, <2>3, <2>4
  <2>7. q.to \in SoFar' /\ q.from \in SoFar' \ {Never} /\ q.user \in Staff /\ q.to # Never /\ q.from < q.to
    BY <2>1, <2>2, <2>4
  <2>8. IsPause(q)'
    BY <2>5, <2>7 DEF IsPause
  <2>9. QED
    BY <2>4, <2>6, <2>7, <2>8
<1>2. \A q \in Ended(a) : \E s \in stops[a] :
         q = IF s.to = Never THEN [s EXCEPT !.to = clock'] ELSE s
  BY DEF Ended
<1>3. \A s \in stops[a] : IsPause(s) => IsPause(s)'
  BY PassesFact DEF IsPause, RowsInv
<1>4. QED
  BY <1>1, <1>2, <1>3

\* Columns keep their types as time passes.
LEMMA ColumnsStand ==
    ASSUME ColumnsTyped, Passes
    PROVE  /\ \A S : [S -> SoFar] \subseteq [S -> SoFar']
           /\ begun \in [Acts -> SoFar'] /\ ended \in [Acts -> SoFar'] /\ marked \in [Slips -> SoFar']
           /\ clock' \in Instants /\ clock' \in SoFar'
<1>1. SoFar \subseteq SoFar'
  BY PassesFact
<1>2. \A S : [S -> SoFar] \subseteq [S -> SoFar']
  BY <1>1
<1>3. QED
  BY <1>2, PassesFact DEF ColumnsTyped

\* Requests that leave the pauses as they are.
LEMMA PausesStand ==
    ASSUME RowsInv, Passes, UNCHANGED stops,
           \A a \in Acts : Stopped(a) => stage'[a] = "in_progress"
    PROVE  StopsAgree'
<1>1. \A a \in Acts : \A s \in stops[a] : IsPause(s)'
  BY EndedFact DEF RowsInv, StopsAgree
<1>2. QED
  BY <1>1 DEF RowsInv, StopsAgree, Stopped, Outside

\* What was set before now is outside a pause that ends now only if it was
\* outside it when in force.
LEMMA OutsideStands ==
    ASSUME RowsInv, Passes, NEW a \in Acts, NEW q \in Ended(a)
    PROVE  \E s \in stops[a] : /\ q.from = s.from /\ (s.to # Never => q = s)
                               /\ q.to = IF s.to = Never THEN clock' ELSE s.to
                               /\ \A t \in SoFar : Outside(t, s) => Outside(t, q)
<1>1. PICK s \in stops[a] : /\ q.from = s.from
                            /\ q.to = IF s.to = Never THEN clock' ELSE s.to
                            /\ q = [s EXCEPT !.to = q.to]
  BY EndedFact
<1>2. IsPause(s)
  BY DEF RowsInv, StopsAgree
<1>3. s.to # Never => q = s
  BY <1>1, <1>2 DEF IsPause
<1>4. \A t \in SoFar : Outside(t, s) => Outside(t, q)
  BY <1>1 DEF Outside
<1>5. QED
  BY <1>1, <1>3, <1>4

\* Pauses that end now stay apart.
LEMMA EndedApart ==
    ASSUME RowsInv, Passes, NEW a \in Acts
    PROVE  /\ \A s \in Ended(a) : IsPause(s)'
           /\ \A s, q \in Ended(a) : s # q => Outside(s.from, q)
           /\ \A s \in Ended(a) : s.to # Never
<1>1. ASSUME NEW s \in Ended(a), NEW q \in Ended(a), s # q
      PROVE  Outside(s.from, q)
  <2>1. PICK u \in stops[a] : /\ s.from = u.from
                              /\ s.to = IF u.to = Never THEN clock' ELSE u.to
                              /\ s = [u EXCEPT !.to = s.to]
    BY EndedFact
  <2>2. PICK v \in stops[a] : /\ q.from = v.from
                              /\ q.to = IF v.to = Never THEN clock' ELSE v.to
                              /\ q = [v EXCEPT !.to = q.to]
    BY EndedFact
  <2>3. u # v
    BY <1>1, <2>1, <2>2
  <2>4. Outside(u.from, v)
    BY <2>3 DEF RowsInv, StopsAgree
  <2>5. QED
    BY <2>1, <2>2, <2>4 DEF Outside
<1>2. QED
  BY <1>1, EndedFact

\* No pause of these begins within another.
PausesApart(new) == \A s, q \in new : s # q => Outside(s.from, q)

\* The pauses of the others and the new ones of this activity.
LEMMA PausesMove ==
    ASSUME RowsInv, Passes, NEW a \in Acts, NEW new, stops' = [stops EXCEPT ![a] = new],
           \A s \in new : IsPause(s)',
           PausesApart(new),
           (\E s \in new : s.to = Never) => stage'[a] = "in_progress",
           \A z \in Acts \ {a} : stage'[z] = stage[z]
    PROVE  StopsAgree'
<1>1. stops' = [z \in Acts |-> IF z = a THEN new ELSE stops[z]]
  BY DEF RowsInv, StopsAgree
<1>2. ASSUME NEW z \in Acts
      PROVE  /\ \A s \in stops'[z] : IsPause(s)'
             /\ \A s, q \in stops'[z] : s # q => Outside(s.from, q)
             /\ (\E s \in stops'[z] : s.to = Never) => stage'[z] = "in_progress"
  <2>1. CASE z = a
    BY <1>1, <2>1 DEF PausesApart
  <2>2. CASE z # a
    <3>1. stops'[z] = stops[z] /\ stage'[z] = stage[z]
      BY <1>1, <2>2
    <3>2. QED
      BY <3>1, EndedFact DEF RowsInv, StopsAgree, Stopped
  <2>3. QED
    BY <2>1, <2>2
<1>3. stops' = [z \in Acts |-> stops'[z]]
  BY <1>1
<1>4. QED
  BY <1>2, <1>3 DEF StopsAgree, Stopped, Outside

\* Nothing is in force: what comes now is outside every pause.
LEMMA NowIsOutside ==
    ASSUME RowsInv, Passes, NEW a \in Acts, ~Stopped(a)
    PROVE  \A s \in stops[a] : s.to # Never /\ Outside(clock', s) /\ s.from < clock'
<1>1. \A s \in stops[a] : s.to # Never /\ IsPause(s)
  BY DEF RowsInv, StopsAgree, Stopped
<1>2. \A t \in SoFar : t < clock'
  BY PassesFact DEF RowsInv
<1>3. QED
  BY <1>1, <1>2 DEF IsPause, Outside

\* A cut is taken, or a banding begun, outside its pauses.
LEMMA StartKeeps == ASSUME RowsInv, NEW a \in Acts, Start(a) PROVE RowsInv'
<1>1. /\ Passes /\ stage[a] = "pending" /\ ColumnsTyped /\ StopsAgree /\ EventsAgree
      /\ begun' = [begun EXCEPT ![a] = clock'] /\ stage' = [stage EXCEPT ![a] = "in_progress"]
      /\ UNCHANGED <<ended, ender, stops, marked, marker, ready>>
  BY DEF Start, RowsInv
<1>2. ColumnsTyped'
  BY <1>1, ColumnsStand DEF ColumnsTyped
<1>3. ~Stopped(a)
  BY <1>1 DEF StopsAgree
<1>4. StopsAgree'
  BY <1>1, <1>3, PausesStand DEF StopsAgree, ColumnsTyped
<1>5. \A s \in stops[a] : Outside(clock', s)
  BY <1>1, <1>3, NowIsOutside
<1>6. begun' = [z \in Acts |-> IF z = a THEN clock' ELSE begun[z]]
  BY <1>1 DEF ColumnsTyped
<1>7. \A z \in Acts : begun'[z] # Never => \A s \in stops[z] : Outside(begun'[z], s)
  BY <1>1, <1>5, <1>6 DEF EventsAgree
<1>8. \A p \in Slips : marked[p] # clock'
  BY <1>1, PassesFact DEF ColumnsTyped
<1>9. \A p \in Slips : marked[p] # Never => marked[p] # begun'[Cut(OrderOf[SheetOf[p]])]
  BY <1>1, <1>6, <1>8, ActsFact DEF EventsAgree
<1>10. EventsAgree'
  BY <1>1, <1>7, <1>9 DEF EventsAgree, Outside
<1>11. QED
  BY <1>2, <1>4, <1>10 DEF RowsInv

\* A mark falls outside the pauses of its cut, at an instant no other has.
LEMMA MarkKeeps == ASSUME RowsInv, NEW p \in Slips, NEW u \in Staff, Mark(p, u) PROVE RowsInv'
<1> DEFINE o == OrderOf[SheetOf[p]]
<1>1. /\ Passes /\ CutRuns(o) /\ ColumnsTyped /\ StopsAgree /\ EventsAgree
      /\ marked' = [marked EXCEPT ![p] = clock'] /\ marker' = [marker EXCEPT ![p] = u]
      /\ ready' = ready \union ({o} \cap Banding)
      /\ UNCHANGED <<stage, begun, ended, ender, stops>>
  BY DEF Mark, RowsInv, pauseless
<1>2. o \in Orders /\ Cut(o) \in Acts
  BY ActsFact
<1> HIDE DEF o
<1>3. ColumnsTyped'
  BY <1>1, <1>2, ColumnsStand, ShopReportsAssumption DEF ColumnsTyped
<1>4. ~Stopped(Cut(o))
  BY <1>1 DEF CutRuns
<1>5. StopsAgree'
  BY <1>1, PausesStand DEF StopsAgree
<1>6. \A s \in stops[Cut(o)] : Outside(clock', s)
  BY <1>1, <1>2, <1>4, NowIsOutside
<1>7. /\ marked' = [q \in Slips |-> IF q = p THEN clock' ELSE marked[q]]
      /\ marker' = [q \in Slips |-> IF q = p THEN u ELSE marker[q]]
  BY <1>1 DEF ColumnsTyped
<1>8. (\A q \in Slips : marked[q] # clock') /\ begun[Cut(o)] # clock'
  BY <1>1, <1>2, PassesFact DEF ColumnsTyped
<1>9. ASSUME NEW q \in Slips, marked'[q] # Never
      PROVE  /\ marker'[q] \in Staff
             /\ marked'[q] # begun[Cut(OrderOf[SheetOf[q]])]
             /\ \A z \in Slips : marked'[z] = marked'[q] => z = q
             /\ \A s \in stops[Cut(OrderOf[SheetOf[q]])] : Outside(marked'[q], s)
  <2>1. CASE q = p
    <3>1. marked'[q] = clock' /\ marker'[q] = u /\ OrderOf[SheetOf[q]] = o
      BY <1>7, <2>1 DEF o
    <3>2. \A z \in Slips : marked'[z] = clock' => z = p
      BY <1>7, <1>8
    <3>3. QED
      BY <2>1, <3>1, <3>2, <1>6, <1>8
  <2>2. CASE q # p
    <3>1. marked'[q] = marked[q] /\ marker'[q] = marker[q] /\ marked'[p] = clock' /\ marked[q] # clock'
      BY <1>7, <1>8, <2>2
    <3>2. \A z \in Slips : marked'[z] = marked[q] => z = q
      BY <1>1, <1>7, <1>9, <3>1 DEF EventsAgree
    <3>3. QED
      BY <1>1, <1>9, <3>1, <3>2 DEF EventsAgree
  <2>3. QED
    BY <2>1, <2>2
<1>10. \A q \in Slips : marked'[q] = Never => marker'[q] = Nobody
  BY <1>1, <1>7, PassesFact DEF EventsAgree
<1>11. EventsAgree'
  BY <1>1, <1>9, <1>10 DEF EventsAgree, Outside
<1>12. QED
  BY <1>3, <1>5, <1>11 DEF RowsInv

\* A mark taken back leaves no author.
LEMMA UnmarkKeeps == ASSUME RowsInv, NEW p \in Slips, Unmark(p) PROVE RowsInv'
<1>1. /\ Passes /\ ColumnsTyped /\ StopsAgree /\ EventsAgree
      /\ marked' = [marked EXCEPT ![p] = Never] /\ marker' = [marker EXCEPT ![p] = Nobody]
      /\ UNCHANGED <<stage, begun, ended, ender, stops, ready>>
  BY DEF Unmark, RowsInv, pauseless
<1>2. Never \in SoFar'
  BY PassesFact, <1>1 DEF SoFar, ColumnsTyped, Never
<1>3. ColumnsTyped'
  BY <1>1, <1>2, ColumnsStand DEF ColumnsTyped
<1>4. StopsAgree'
  BY <1>1, PausesStand DEF StopsAgree
<1>5. \A q \in Slips : marked'[q] = (IF q = p THEN Never ELSE marked[q])
                      /\ marker'[q] = (IF q = p THEN Nobody ELSE marker[q])
  BY <1>1 DEF ColumnsTyped
<1>6. EventsAgree'
  BY <1>1, <1>5 DEF EventsAgree, Outside
<1>7. QED
  BY <1>3, <1>4, <1>6 DEF RowsInv

\* A pause begins outside all the others and after everything that was set.
LEMMA PauseKeeps == ASSUME RowsInv, NEW a \in Acts, NEW u \in Staff, Pause(a, u) PROVE RowsInv'
<1>1. PICK s : s = [from |-> clock', to |-> Never, user |-> u]
  OBVIOUS
<1>2. PICK new : new = stops[a] \union {s}
  OBVIOUS
<1>3. /\ Passes /\ stage[a] = "in_progress" /\ ~Stopped(a)
      /\ ColumnsTyped /\ StopsAgree /\ EventsAgree
      /\ stops' = [stops EXCEPT ![a] = new]
      /\ UNCHANGED <<stage, begun, ended, ender, marked, marker, ready>>
  BY <1>1, <1>2 DEF Pause, RowsInv, pauseless
<1>4. ColumnsTyped'
  BY <1>3, ColumnsStand DEF ColumnsTyped
<1>5. clock' \in SoFar' /\ clock' # Never /\ Never \in SoFar'
  BY <1>3, PassesFact DEF SoFar, ColumnsTyped, Never
<1>6. \A q \in stops[a] : /\ q.to # Never /\ q.from < clock' /\ IsPause(q)'
                           /\ Outside(clock', q)
  BY <1>3, NowIsOutside, EndedFact DEF StopsAgree
<1>7. /\ s = [from |-> s.from, to |-> s.to, user |-> s.user]
      /\ s.from = clock' /\ s.to = Never /\ s.user = u
  BY <1>1
<1>8. IsPause(s)'
  BY <1>5, <1>7 DEF IsPause
<1>9. \A q, z \in new : q # z => Outside(q.from, z)
  BY <1>2, <1>3, <1>6, <1>7 DEF StopsAgree, Outside
<1>10. \A q \in new : IsPause(q)'
  BY <1>2, <1>6, <1>8
<1>11. StopsAgree'
  <2>1. (\E q \in new : q.to = Never) => stage'[a] = "in_progress"
    BY <1>3
  <2>2. \A z \in Acts \ {a} : stage'[z] = stage[z]
    BY <1>3
  <2>3. stops' = [stops EXCEPT ![a] = new] /\ Passes
    BY <1>3
  <2>4. PausesApart(new)
    BY <1>9 DEF PausesApart
  <2>5. QED
    BY <1>10, <2>1, <2>2, <2>3, <2>4, PausesMove
<1>12. \A z \in Acts : stops'[z] = (IF z = a THEN stops[a] \union {s} ELSE stops[z])
  BY <1>2, <1>3 DEF StopsAgree
<1>13. \A t \in SoFar : Outside(t, s)
  BY <1>3, <1>7, PassesFact DEF Outside
<1>14. EventsAgree'
  BY <1>3, <1>12, <1>13 DEF EventsAgree, Outside, ColumnsTyped
<1>15. QED
  BY <1>4, <1>11, <1>14 DEF RowsInv

\* An activity's pauses end, or it goes back to the queue: nothing else moves.
LEMMA EndingKeeps ==
    ASSUME RowsInv, Passes, NEW a \in Acts, stops' = [stops EXCEPT ![a] = Ended(a)],
           ColumnsTyped', \A z \in Acts \ {a} : stage'[z] = stage[z],
           UNCHANGED <<marked, marker>>,
           \A z \in Acts : begun'[z] \in {begun[z], Never}
    PROVE  RowsInv'
<1>1. StopsAgree'
  <2>1. PausesApart(Ended(a))
    BY EndedApart DEF PausesApart
  <2>2. \A s \in Ended(a) : IsPause(s)' /\ s.to # Never
    BY EndedApart
  <2>3. QED
    BY <2>1, <2>2, PausesMove
<1>2. \A z \in Acts : stops'[z] = IF z = a THEN Ended(a) ELSE stops[z]
  BY DEF RowsInv, StopsAgree
<1>3. ASSUME NEW z \in Acts, NEW t \in SoFar, \A s \in stops[z] : Outside(t, s)
      PROVE  \A s \in stops'[z] : Outside(t, s)
  BY <1>2, <1>3, OutsideStands
<1>4. \A p \in Slips : marked[p] \in SoFar /\ Cut(OrderOf[SheetOf[p]]) \in Acts
  BY ActsFact DEF RowsInv, ColumnsTyped
<1>5. \A z \in Acts : begun[z] \in SoFar
  BY DEF RowsInv, ColumnsTyped
<1>6. ASSUME NEW p \in Slips, marked[p] # Never
      PROVE  /\ marker[p] \in Staff
             /\ marked[p] # begun'[Cut(OrderOf[SheetOf[p]])]
             /\ \A q \in Slips : marked[q] = marked[p] => q = p
             /\ \A s \in stops'[Cut(OrderOf[SheetOf[p]])] : Outside(marked[p], s)
  <2> DEFINE z == Cut(OrderOf[SheetOf[p]])
  <2>1. /\ marker[p] \in Staff /\ marked[p] # begun[z]
        /\ \A q \in Slips : marked[q] = marked[p] => q = p
        /\ \A s \in stops[z] : Outside(marked[p], s)
    BY <1>6 DEF RowsInv, EventsAgree
  <2>2. z \in Acts /\ marked[p] \in SoFar
    BY <1>4
  <2> HIDE DEF z
  <2>3. marked[p] # begun'[z]
    BY <1>6, <2>1, <2>2
  <2>4. \A s \in stops'[z] : Outside(marked[p], s)
    BY <1>3, <2>1, <2>2
  <2>5. QED
    BY <2>1, <2>3, <2>4 DEF z
<1>7. ASSUME NEW z \in Acts, begun'[z] # Never
      PROVE  \A s \in stops'[z] : Outside(begun'[z], s)
  <2>1. begun'[z] = begun[z] /\ begun[z] # Never
    BY <1>7
  <2>2. \A s \in stops[z] : Outside(begun[z], s)
    BY <2>1 DEF RowsInv, EventsAgree
  <2>3. QED
    BY <1>3, <1>5, <2>1, <2>2
<1>8. \A p \in Slips : marked[p] = Never => marker[p] = Nobody
  BY DEF RowsInv, EventsAgree
<1>9. EventsAgree'
  BY <1>6, <1>7, <1>8 DEF EventsAgree, Outside
<1>10. QED
  BY <1>1, <1>9 DEF RowsInv

\* Every request keeps the rows' agreement.
LEMMA RowsStep == RowsInv /\ [ReportsNext]_reportVars => RowsInv'
<1> SUFFICES ASSUME RowsInv, [ReportsNext]_reportVars PROVE RowsInv'
  OBVIOUS
<1>1. ASSUME NEW a \in Acts, Resume(a) PROVE RowsInv'
  <2>1. /\ Passes /\ stops' = [stops EXCEPT ![a] = Ended(a)] /\ ColumnsTyped
        /\ UNCHANGED <<stage, begun, ended, ender, marked, marker, ready>>
    BY <1>1 DEF Resume, pauseless, RowsInv
  <2>2. ColumnsTyped'
    BY <2>1, ColumnsStand DEF ColumnsTyped
  <2>3. QED
    BY <2>1, <2>2, EndingKeeps
<1>2. ASSUME NEW o \in Orders, SendBack(o) PROVE RowsInv'
  <2> DEFINE a == Cut(o)
  <2>1. /\ Passes /\ stops' = [stops EXCEPT ![a] = Ended(a)] /\ ColumnsTyped
        /\ stage' = [stage EXCEPT ![a] = "pending"] /\ begun' = [begun EXCEPT ![a] = Never]
        /\ UNCHANGED <<ended, ender, marked, marker, ready>>
    BY <1>2 DEF SendBack, RowsInv
  <2>2. a \in Acts
    BY ActsFact
  <2> HIDE DEF a
  <2>3. Never \in SoFar'
    BY PassesFact, <2>1 DEF SoFar, ColumnsTyped, Never
  <2>4. ColumnsTyped'
    BY <2>1, <2>2, <2>3, ColumnsStand DEF ColumnsTyped
  <2>5. /\ \A z \in Acts \ {a} : stage'[z] = stage[z]
        /\ \A z \in Acts : begun'[z] \in {begun[z], Never}
    BY <2>1 DEF ColumnsTyped
  <2>6. QED
    BY <2>1, <2>2, <2>4, <2>5, EndingKeeps
<1>3. ASSUME NEW a \in Acts, NEW u \in Staff, Finish(a, u) PROVE RowsInv'
  <2>1. /\ Passes /\ ~Stopped(a) /\ ColumnsTyped /\ StopsAgree /\ EventsAgree
        /\ stage' = [stage EXCEPT ![a] = "done"] /\ ended' = [ended EXCEPT ![a] = clock']
        /\ ender' = [ender EXCEPT ![a] = u]
        /\ UNCHANGED <<begun, stops, marked, marker, ready>>
    BY <1>3 DEF Finish, RowsInv
  <2>2. ColumnsTyped'
    BY <2>1, ColumnsStand DEF ColumnsTyped
  <2>3. StopsAgree'
    BY <2>1, PausesStand DEF StopsAgree, ColumnsTyped
  <2>4. EventsAgree'
    BY <2>1 DEF EventsAgree, Outside
  <2>5. QED
    BY <2>2, <2>3, <2>4 DEF RowsInv
<1>4. CASE UNCHANGED reportVars
  BY <1>4 DEF reportVars, RowsInv, ColumnsTyped, StopsAgree, EventsAgree, SoFar, IsPause, Outside,
              Stopped
<1>5. QED
  BY <1>1, <1>2, <1>3, <1>4, StartKeeps, MarkKeeps, UnmarkKeeps, PauseKeeps DEF ReportsNext, RowsNext

\* The rows the floor leaves agree with each other: pauses are apart, one in
\* force is of an activity under way, and nothing is marked or taken during one.
THEOREM RowsSafe == ReportsSpec => []RowsInv
<1>1. ReportsInit => RowsInv
  BY DEF ReportsInit, RowsInit, RowsInv, ColumnsTyped, StopsAgree, EventsAgree, SoFar, Stopped, Never
<1>2. QED
  BY <1>1, RowsStep, PTL DEF ReportsSpec

\* The instants of a saw's events are numbers that have come.
LEMMA EventsAreInstants ==
    ASSUME RowsInv
    PROVE  CutEvents \in SUBSET Int /\ IsFiniteSet(CutEvents) /\ \A t \in CutEvents : t \in Nat /\ t <= clock
<1> DEFINE Starts == [o \in Orders |-> begun[Cut(o)]]
           Closings == [o \in Orders |-> ended[Cut(o)]]
           M == {marked[p] : p \in Slips}
           S == {Starts[o] : o \in Orders}
           C == {Closings[o] : o \in Orders}
<1>1. IsFiniteSet(Orders) /\ IsFiniteSet(Slips)
  BY ShopReportsAssumption
<1>2. IsFiniteSet(M) /\ IsFiniteSet(S) /\ IsFiniteSet(C)
  BY <1>1, ImageIsFinite
<1>3. M \union S \union C \subseteq SoFar
  BY ActsFact DEF RowsInv, ColumnsTyped
<1>4. CutEvents = {t \in M \union S \union C : t # Never}
  BY DEF CutEvents
<1> HIDE DEF M, S, C
<1>5. IsFiniteSet(M \union S \union C)
  BY <1>2, FS_Union
<1>6. IsFiniteSet(CutEvents)
  BY <1>4, <1>5, FS_Subset
<1>7. \A t \in CutEvents : t \in Nat /\ t <= clock
  BY <1>3, <1>4, ShopReportsAssumption DEF SoFar
<1>8. QED
  BY <1>6, <1>7

\* A run starts at one of its instants, and every instant after its start up to
\* the last is within the gap of one of them.
LEMMA RunHasNoSilence ==
    ASSUME NEW times \in SUBSET Int, IsFiniteSet(times), times # {}, NEW gap \in Nat
    PROVE  /\ run_start(times, gap) \in times
           /\ \A t \in Int : run_start(times, gap) <= t /\ t <= Max(times)
                 => \E e \in times : e - t \in -gap .. gap
<1>1. PICK R : R = {t \in times : \A u \in times :
                      u > t => \E v \in times : t <= v /\ v < u /\ u - v <= gap}
  OBVIOUS
<1>2. Max(times) \in times /\ \A y \in times : y <= Max(times)
  BY GreatestIsThere
<1>3. PICK m \in times : m = Max(times) /\ \A y \in times : y <= m
  BY <1>2
<1>4. m \in R
  BY <1>1, <1>3
<1>5. R \in SUBSET Int /\ R # {} /\ IsFiniteSet(R)
  BY <1>1, <1>4, FS_Subset
<1>6. PICK r \in R : r = Min(R)
  BY <1>5, LeastIsThere
<1>7. run_start(times, gap) = r
  BY <1>1, <1>6 DEF run_start
<1>8. ASSUME NEW t \in Int, r <= t, t <= m
      PROVE  \E e \in times : e - t \in -gap .. gap
  <2>1. CASE t = m
    BY <1>3, <2>1
  <2>2. CASE t < m
    <3>1. PICK A : A = {e \in times : e > t}
      OBVIOUS
    <3>2. A \in SUBSET Int /\ IsFiniteSet(A) /\ A # {}
      BY <3>1, <2>2, <1>3, FS_Subset
    <3>3. PICK u \in A : \A y \in A : u <= y
      BY <3>2, LeastIsThere
    <3>4. u \in times /\ u > t /\ u \in Int /\ r \in Int
      BY <3>1, <3>3, <1>5
    <3>5. PICK v \in times : r <= v /\ v < u /\ u - v <= gap
      BY <1>1, <1>8, <3>4
    <3>6. v \in Int /\ v <= t
      BY <3>1, <3>3, <3>4, <3>5
    <3>7. v - t \in -gap .. gap
      BY <3>4, <3>5, <3>6
    <3>8. QED
      BY <3>7
  <2>3. QED
    BY <1>3, <1>8, <2>1, <2>2
<1>9. r \in times
  BY <1>1
<1>10. QED
  BY <1>3, <1>7, <1>8, <1>9

\* A saw that is cutting says since when, and bridges no silence.
LEMMA CuttingHasNoSilence ==
    ASSUME RowsInv, NEW now \in Instants, now >= clock, live_state(now) = "cutting"
    PROVE  /\ since(now) <= clock
           /\ \A t \in since(now) .. now : \E e \in CutEvents : e - t \in -IdleGap .. IdleGap
<1>1. CutEvents # {} /\ now - Max(CutEvents) <= IdleGap
  BY DEF live_state
<1>2. PICK T : T = {t \in CutEvents : t >= now - DayTicks}
  OBVIOUS
<1>3. since(now) = run_start(T, IdleGap)
  BY <1>2 DEF since
<1>4. CutEvents \in SUBSET Int /\ IsFiniteSet(CutEvents) /\ \A t \in CutEvents : t \in Nat /\ t <= clock
  BY EventsAreInstants
<1>5. PICK m \in CutEvents : m = Max(CutEvents) /\ \A y \in CutEvents : y <= m
  BY <1>1, <1>4, GreatestIsThere
<1>6. now \in Nat /\ clock \in Nat /\ m \in Nat /\ IdleGap \in Nat /\ DayTicks \in Nat /\ IdleGap <= DayTicks
  BY <1>4, ShopReportsAssumption, WorkClockAssumption DEF RowsInv, ColumnsTyped
<1>7. m \in T
  BY <1>1, <1>2, <1>5, <1>6
<1>8. T \in SUBSET Int /\ T # {} /\ IsFiniteSet(T) /\ T \subseteq CutEvents
  BY <1>2, <1>4, <1>7, FS_Subset
<1>9. Max(T) = m
  <2>1. PICK x \in T : x = Max(T) /\ \A y \in T : y <= x
    BY <1>8, GreatestIsThere
  <2>2. x <= m /\ m <= x /\ x \in Int /\ m \in Int
    BY <1>5, <1>7, <1>8, <2>1, <1>4
  <2>3. QED
    BY <2>1, <2>2
<1>10. PICK r \in T : r = since(now)
  BY <1>3, <1>6, <1>8, RunHasNoSilence
<1>11. \A t \in Int : r <= t /\ t <= m => \E e \in T : e - t \in -IdleGap .. IdleGap
  BY <1>3, <1>6, <1>8, <1>9, <1>10, RunHasNoSilence
<1>12. r \in Nat /\ r <= clock
  BY <1>4, <1>8
<1>13. ASSUME NEW t \in r .. now PROVE \E e \in CutEvents : e - t \in -IdleGap .. IdleGap
  <2>1. t \in Int /\ r <= t /\ t <= now
    BY <1>6, <1>12
  <2>2. CASE t <= m
    BY <1>8, <1>11, <2>1, <2>2
  <2>3. CASE t > m
    <3>1. m - t \in -IdleGap .. IdleGap
      BY <1>1, <1>5, <1>6, <2>1, <2>3
    <3>2. QED
      BY <3>1, <1>5
  <2>4. QED
    BY <1>6, <2>1, <2>2, <2>3
<1>14. QED
  BY <1>10, <1>12, <1>13

\* Whatever a saw reads, it reads it since an instant that has come.
LEMMA SinceHasCome ==
    ASSUME RowsInv, NEW now \in Instants, now >= clock
    PROVE  since(now) <= clock
<1>1. CASE live_state(now) = "cutting"
  BY <1>1, CuttingHasNoSilence
<1>2. CASE live_state(now) = "paused"
  <2>1. PausedCuts # {}
    BY <1>2 DEF live_state
  <2>2. PICK f : f = [o \in PausedCuts |-> PauseOf(Cut(o)).from]
    OBVIOUS
  <2>3. PICK F : F = {f[o] : o \in PausedCuts}
    OBVIOUS
  <2>4. PausedCuts \subseteq Orders /\ IsFiniteSet(PausedCuts)
    BY FS_Subset, ShopReportsAssumption DEF PausedCuts
  <2>5. IsFiniteSet(F)
    BY <2>3, <2>4, ImageIsFinite
  <2>6. ASSUME NEW o \in PausedCuts PROVE f[o] \in Int /\ f[o] <= clock
    <3>1. Cut(o) \in Acts /\ Stopped(Cut(o))
      BY <2>4, ActsFact DEF PausedCuts
    <3>2. PauseOf(Cut(o)) \in stops[Cut(o)]
      BY <3>1 DEF Stopped, PauseOf
    <3>3. IsPause(PauseOf(Cut(o)))
      BY <3>1, <3>2 DEF RowsInv, StopsAgree
    <3>4. PauseOf(Cut(o)).from \in SoFar \ {Never}
      BY <3>3 DEF IsPause
    <3>5. \A t \in SoFar \ {Never} : t \in Int /\ t <= clock
      BY ShopReportsAssumption DEF SoFar
    <3>6. f[o] = PauseOf(Cut(o)).from
      BY <2>2
    <3>7. QED
      BY <3>4, <3>5, <3>6
  <2>7. F \in SUBSET Int /\ F # {} /\ \A t \in F : t <= clock
    BY <2>1, <2>3, <2>6
  <2>8. Min(F) <= clock
    BY <2>5, <2>7, LeastIsThere
  <2>9. {PauseOf(Cut(o)).from : o \in PausedCuts} = F
    BY <2>2, <2>3
  <2>10. since(now) = Min(F)
    BY <1>2, <2>9 DEF since
  <2>11. QED
    BY <2>8, <2>10
<1>3. CASE live_state(now) \notin {"cutting", "paused"}
  <2>1. PICK E : E = CutEvents \union {Never}
    OBVIOUS
  <2>2. CutEvents \in SUBSET Int /\ IsFiniteSet(CutEvents) /\ \A t \in CutEvents : t <= clock
    BY EventsAreInstants
  <2>3. IsFiniteSet(E)
    BY <2>1, <2>2, FS_AddElement
  <2>4. clock \in Nat /\ Never = 0
    <3>1. Never = 0
      BY DEF Never
    <3>2. clock \in Nat
      BY ShopReportsAssumption DEF RowsInv, ColumnsTyped
    <3>3. QED
      BY <3>1, <3>2
  <2>5. E \in SUBSET Int /\ IsFiniteSet(E) /\ E # {} /\ \A t \in E : t <= clock
    BY <2>1, <2>2, <2>3, <2>4
  <2>6. Max(E) <= clock
    BY <2>5, GreatestIsThere
  <2>7. since(now) = Max(E)
    BY <1>3, <2>1 DEF since
  <2>8. QED
    BY <2>6, <2>7
<1>4. QED
  BY <1>1, <1>2, <1>3

\* A saw reads paused or idle with nobody at a running cut.
LEMMA QuietSawIsStopped ==
    ASSUME NEW now, live_state(now) \in {"paused", "idle"}, NEW o \in Orders,
           stage[Cut(o)] = "in_progress"
    PROVE  Stopped(Cut(o))
<1>1. InProcess(o)
  BY ActsFact DEF InProcess, Unfinished, Cut
<1>2. Cutting = {}
  BY DEF live_state
<1>3. QED
  BY <1>1, <1>2 DEF Cutting, Runs

\* A banding under way reads as such while its order is in process.
LEMMA IdleBenchIsQueued ==
    ASSUME activity_live_state = "idle", NEW a \in Acts, a[2] = "banding", stage[a] = "in_progress"
    PROVE  a[1] \in Queued
<1>1. a[1] \in Orders
  BY ActsFact
<1>2. SUFFICES ASSUME stage[Cut(a[1])] # "pending" PROVE FALSE
  BY <1>1 DEF Queued
<1>3. a \in Benches
  BY <1>2 DEF Benches, InProcess, Unfinished
<1>4. Runs(a) \/ Stopped(a)
  BY DEF Runs
<1>5. QED
  BY <1>3, <1>4 DEF activity_live_state

\* Property QuietHasItsReason: ProductionService.live_state never says paused or
\* idle over a running cut, and a run in progress bridges no silence.
THEOREM QuietIsExplained == ReportsSpec => []QuietHasItsReason
<1>1. RowsInv => QuietHasItsReason
  <2> SUFFICES ASSUME RowsInv PROVE QuietHasItsReason
    OBVIOUS
  <2>1. \A a \in Acts : Stopped(a) => stage[a] = "in_progress"
    BY DEF RowsInv, StopsAgree
  <2>2. QED
    BY <2>1, CuttingHasNoSilence, SinceHasCome, QuietSawIsStopped, IdleBenchIsQueued
    DEF QuietHasItsReason
<1>2. QED
  BY <1>1, RowsSafe, PTL

\* The last mark of a sheet.
LEMMA LastMarkIsThere ==
    ASSUME RowsInv, NEW b \in Sheets
    PROVE  /\ LastMark(b) \in Slips /\ SheetOf[LastMark(b)] = b
           /\ \A q \in Slips : SheetOf[q] = b => marked[q] <= marked[LastMark(b)]
<1>1. PICK P : P = {p \in Slips : SheetOf[p] = b}
  OBVIOUS
<1>2. P # {} /\ IsFiniteSet(P) /\ P \subseteq Slips
  BY <1>1, ShopReportsAssumption, FS_Subset
<1>3. PICK T : T = {marked[p] : p \in P}
  OBVIOUS
<1>4. \A p \in Slips : marked[p] \in Int
  <2>1. Instants \subseteq Int /\ Never \in Int
    BY ShopReportsAssumption DEF Never
  <2>2. QED
    BY <2>1 DEF RowsInv, ColumnsTyped, SoFar
<1>5. T # {} /\ IsFiniteSet(T) /\ T \in SUBSET Int
  BY <1>2, <1>3, <1>4, ImageIsFinite
<1>6. PICK m \in T : \A y \in T : y <= m
  BY <1>5, GreatestIsThere
<1>7. PICK p \in P : marked[p] = m
  BY <1>3, <1>6
<1>8. p \in Slips /\ SheetOf[p] = b /\ \A q \in Slips : SheetOf[q] = b => marked[q] <= marked[p]
  BY <1>1, <1>3, <1>6, <1>7
<1>9. QED
  BY <1>8 DEF LastMark

\* A mark's instant and its author.
LEMMA MarksHaveAuthors ==
    ASSUME RowsInv, NEW p \in Slips
    PROVE  /\ marked[p] # Never => marked[p] \in Instants /\ marker[p] \in Staff
           /\ marker[p] \in Staff => marked[p] # Never
<1>1. marked[p] # Never => marked[p] \in Instants
  BY DEF RowsInv, ColumnsTyped, SoFar
<1>2. QED
  BY <1>1, ShopReportsAssumption DEF RowsInv, EventsAgree

\* An instant is of the one day that holds it.
LEMMA OneDay ==
    ASSUME NEW t \in Nat
    PROVE  local_date(t) \in Nat /\ \A d \in Nat : Within(t, From(d), To(d)) <=> local_date(t) = d
<1>1. DayTicks \in Nat \ {0}
  BY WorkClockAssumption
<1>2. PICK e \in Nat : e = t \div DayTicks /\ e * DayTicks <= t /\ t < (e + 1) * DayTicks
  BY <1>1
<1>3. ASSUME NEW d \in Nat, d * DayTicks <= t, t < (d + 1) * DayTicks
      PROVE  d = e
  BY <1>1, <1>2, <1>3
<1>4. QED
  BY <1>2, <1>3 DEF local_date, Within, From, To

\* The days of the instants, and the range that holds them all.
LEMMA DaysHoldAll ==
    /\ IsFiniteSet(Days) /\ Days \subseteq Nat
    /\ \A t \in Instants : t \in Nat /\ local_date(t) \in Days /\ Within(t, AllFrom, AllTo)
<1>1. Instants \subseteq Nat /\ IsFiniteSet(Instants) /\ DayTicks \in Nat \ {0}
  BY ShopReportsAssumption, WorkClockAssumption
<1>2. PICK f : f = [t \in Instants |-> local_date(t)]
  OBVIOUS
<1>3. Days = {f[t] : t \in Instants}
  BY <1>2 DEF Days
<1>4. IsFiniteSet(Days) /\ Days \subseteq Nat
  <2>1. \A t \in Instants : f[t] \in Nat
    BY <1>1, <1>2, OneDay
  <2>2. IsFiniteSet(Days)
    BY <1>1, <1>3, ImageIsFinite
  <2>3. QED
    BY <1>3, <2>1, <2>2
<1>5. ASSUME NEW t \in Instants
      PROVE  t \in Nat /\ local_date(t) \in Days /\ Within(t, AllFrom, AllTo)
  <2>1. PICK d \in Days : d = local_date(t)
    BY DEF Days
  <2>2. Days \in SUBSET Int /\ Days # {}
    BY <1>4, <2>1
  <2>3. PICK low \in Days : low = Min(Days) /\ low <= d
    BY <1>4, <2>1, <2>2, LeastIsThere
  <2>4. PICK top \in Days : top = Max(Days) /\ d <= top
    BY <1>4, <2>1, <2>2, GreatestIsThere
  <2>5. d * DayTicks <= t /\ t < (d + 1) * DayTicks
    BY <1>1, <1>4, <2>1, OneDay DEF Within, From, To
  <2>6. low \in Nat /\ d \in Nat /\ top \in Nat /\ t \in Nat
    BY <1>1, <1>4
  <2>7. low * DayTicks <= d * DayTicks /\ (d + 1) * DayTicks <= (top + 1) * DayTicks
    BY <1>1, <2>3, <2>4, <2>6
  <2>8. low * DayTicks <= t /\ t < (top + 1) * DayTicks
    BY <1>1, <2>5, <2>6, <2>7
  <2>9. QED
    BY <2>1, <2>3, <2>4, <2>6, <2>8 DEF Within, AllFrom, AllTo, From, To
<1>6. QED
  BY <1>4, <1>5

\* Days and staff, and who is behind a sheet on which day.
Rows == Staff \X Days
Finisher(b) == <<marker[LastMark(b)], local_date(marked[LastMark(b)])>>
Author(p) == <<marker[p], local_date(marked[p])>>

\* The pairs of an operator and a day are finite in number.
LEMMA RowsAreFinite == IsFiniteSet(Rows) /\ \A k \in Rows : k[1] \in Staff /\ k[2] \in Nat
<1>1. IsFiniteSet(Staff) /\ IsFiniteSet(Days) /\ Days \subseteq Nat
  BY ShopReportsAssumption, DaysHoldAll
<1>2. IsFiniteSet(Staff \X Days)
  BY <1>1, FS_Product
<1>3. QED
  BY <1>1, <1>2 DEF Rows

\* The ledger behind a row holds the sheets the row counts.
LEMMA LedgerIsTheRow ==
    ASSUME RowsInv, NEW u, NEW from, NEW to
    PROVE  CreditedSheets(u, from, to) = OperatorBoards(u, from, to)
<1>1. ASSUME NEW b \in Sheets
      PROVE  b \in CreditedSheets(u, from, to) <=> b \in OperatorBoards(u, from, to)
  <2>1. LastMark(b) \in Slips /\ SheetOf[LastMark(b)] = b
    BY LastMarkIsThere
  <2>2. b \in OperatorBoards(u, from, to)
          <=> Whole(b) /\ Within(marked[LastMark(b)], from, to) /\ marker[LastMark(b)] = u
    BY DEF OperatorBoards, processed_boards
  <2>3. sheet_credit(u, b, from, to) = "credited"
          <=> Whole(b) /\ Within(marked[LastMark(b)], from, to) /\ marker[LastMark(b)] = u
    BY DEF sheet_credit
  <2>4. b \in CreditedSheets(u, from, to)
          <=> b \in operator_sheets(u, from, to) /\ sheet_credit(u, b, from, to) = "credited"
    BY DEF CreditedSheets
  <2>5. Within(marked[LastMark(b)], from, to) /\ marker[LastMark(b)] = u
          => b \in operator_sheets(u, from, to)
    BY <2>1 DEF operator_sheets
  <2>6. QED
    BY <2>2, <2>3, <2>4, <2>5
<1>2. CreditedSheets(u, from, to) \subseteq Sheets /\ OperatorBoards(u, from, to) \subseteq Sheets
  BY DEF CreditedSheets, operator_sheets, OperatorBoards, processed_boards
<1>3. QED
  BY <1>1, <1>2

\* A finished sheet has a finisher, and counts on its row only.
LEMMA FinishedOnce ==
    ASSUME RowsInv, NEW b \in Sheets, Whole(b)
    PROVE  /\ Finisher(b) \in Rows /\ b \in processed_boards(AllFrom, AllTo)
           /\ \A k \in Rows : b \in OperatorBoards(k[1], From(k[2]), To(k[2])) <=> k = Finisher(b)
<1>1. LastMark(b) \in Slips /\ SheetOf[LastMark(b)] = b
  BY LastMarkIsThere
<1>2. marked[LastMark(b)] \in Instants /\ marker[LastMark(b)] \in Staff
  BY <1>1, MarksHaveAuthors DEF Whole
<1>3. PICK t \in Instants : t = marked[LastMark(b)]
  BY <1>2
<1>4. PICK w \in Staff : w = marker[LastMark(b)]
  BY <1>2
<1>5. t \in Nat /\ local_date(t) \in Days /\ Within(t, AllFrom, AllTo)
  BY DaysHoldAll
<1>6. Finisher(b) = <<w, local_date(t)>>
  BY <1>3, <1>4 DEF Finisher
<1>7. b \in processed_boards(AllFrom, AllTo)
  BY <1>3, <1>5 DEF processed_boards
<1>8. ASSUME NEW k \in Rows
      PROVE  b \in OperatorBoards(k[1], From(k[2]), To(k[2])) <=> k = Finisher(b)
  <2>1. b \in OperatorBoards(k[1], From(k[2]), To(k[2])) <=> Within(t, From(k[2]), To(k[2])) /\ w = k[1]
    BY <1>3, <1>4 DEF OperatorBoards, processed_boards
  <2>2. k = <<k[1], k[2]>> /\ k[2] \in Nat
    BY RowsAreFinite DEF Rows
  <2>3. Within(t, From(k[2]), To(k[2])) <=> local_date(t) = k[2]
    BY <1>5, <2>2, OneDay
  <2>4. QED
    BY <1>6, <2>1, <2>2, <2>3
<1>9. QED
  BY <1>4, <1>5, <1>6, <1>7, <1>8 DEF Rows

\* A finished sheet is counted on one row.
LEMMA CountedOnce ==
    ASSUME RowsInv, NEW b \in Sheets, Whole(b)
    PROVE  Cardinality({k \in Rows : b \in CreditedSheets(k[1], From(k[2]), To(k[2]))}) = 1
<1>1. \A k \in Rows : CreditedSheets(k[1], From(k[2]), To(k[2])) = OperatorBoards(k[1], From(k[2]), To(k[2]))
  BY LedgerIsTheRow
<1>2. {k \in Rows : b \in CreditedSheets(k[1], From(k[2]), To(k[2]))} = {Finisher(b)}
  BY <1>1, FinishedOnce
<1>3. QED
  BY <1>2, FS_Singleton

\* The rows' boards add up to the range's.
LEMMA BoardsAddUp ==
    ASSUME RowsInv
    PROVE  Total([k \in Rows |-> Boards(OperatorBoards(k[1], From(k[2]), To(k[2])))], Rows)
             = Boards(processed_boards(AllFrom, AllTo))
<1>1. PICK P : P = processed_boards(AllFrom, AllTo)
  OBVIOUS
<1>2. P \subseteq Sheets /\ (\A b \in P : Whole(b)) /\ IsFiniteSet(P)
  BY <1>1, ShopReportsAssumption, FS_Subset DEF processed_boards
<1>3. PICK f : f = [b \in P |-> Weight(b)]
  OBVIOUS
<1>4. PICK key : key = [b \in P |-> Finisher(b)]
  OBVIOUS
<1>5. \A b \in P : f[b] \in Int /\ key[b] \in Rows
  BY <1>2, <1>3, <1>4, FinishedOnce, ShopReportsAssumption DEF Weight
<1>6. PICK each : each = [k \in Rows |-> Boards(OperatorBoards(k[1], From(k[2]), To(k[2])))]
  OBVIOUS
<1>7. ASSUME NEW k \in Rows PROVE each[k] = Total(f, Part(P, key, k))
  <2>1. PICK Q : Q = OperatorBoards(k[1], From(k[2]), To(k[2]))
    OBVIOUS
  <2>2. Q \subseteq Sheets /\ \A b \in Q : Whole(b)
    BY <2>1 DEF OperatorBoards, processed_boards
  <2>3. \A b \in Sheets : Whole(b) => (b \in Q <=> k = Finisher(b)) /\ b \in P
    BY <1>1, <2>1, FinishedOnce
  <2>4. Part(P, key, k) = Q
    BY <1>2, <1>4, <2>2, <2>3 DEF Part
  <2>5. PICK g : g = [b \in Q |-> Weight(b)]
    OBVIOUS
  <2>6. Q \subseteq P /\ IsFiniteSet(Q)
    BY <1>2, <2>2, <2>3, FS_Subset
  <2>7. \A b \in Q : f[b] \in Int /\ g[b] \in Int /\ f[b] = g[b]
    BY <1>3, <1>5, <2>5, <2>6
  <2>8. Total(f, Q) = Total(g, Q)
    BY <2>6, <2>7, TotalIsMonotone, TotalSplits
  <2>9. each[k] = Total(g, Q)
    BY <1>6, <2>1, <2>5 DEF Boards
  <2>10. QED
    BY <2>4, <2>8, <2>9
<1>8. IsFiniteSet(Rows)
  BY RowsAreFinite
<1>9. Total(each, Rows) = Total(f, P)
  BY <1>2, <1>5, <1>7, <1>8, TotalOfParts
<1>10. QED
  BY <1>1, <1>3, <1>6, <1>9 DEF Boards

\* The rows' pieces add up to the pieces marked.
LEMMA PiecesAddUp ==
    ASSUME RowsInv
    PROVE  Total([k \in Rows |-> PiecesCut(k[1], From(k[2]), To(k[2]))], Rows)
             = Cardinality({p \in Slips : marked[p] # Never})
<1>1. PICK P : P = {p \in Slips : marked[p] # Never}
  OBVIOUS
<1>2. P \subseteq Slips /\ IsFiniteSet(P)
  BY <1>1, ShopReportsAssumption, FS_Subset
<1>3. PICK f : f = [p \in P |-> 1]
  OBVIOUS
<1>4. PICK key : key = [p \in P |-> Author(p)]
  OBVIOUS
<1>5. ASSUME NEW p \in P
      PROVE  /\ marked[p] \in Instants /\ marked[p] \in Nat /\ marker[p] \in Staff
             /\ local_date(marked[p]) \in Days
  BY <1>1, MarksHaveAuthors, DaysHoldAll
<1>6. \A p \in P : f[p] \in Int /\ f[p] = 1 /\ key[p] \in Rows
  BY <1>3, <1>4, <1>5 DEF Author, Rows
<1>7. PICK each : each = [k \in Rows |-> PiecesCut(k[1], From(k[2]), To(k[2]))]
  OBVIOUS
<1>8. ASSUME NEW k \in Rows PROVE each[k] = Total(f, Part(P, key, k))
  <2>1. PICK Q : Q = {p \in Slips : marker[p] = k[1] /\ Within(marked[p], From(k[2]), To(k[2]))}
    OBVIOUS
  <2>2. k[1] \in Staff /\ k[2] \in Nat /\ k = <<k[1], k[2]>>
    BY RowsAreFinite DEF Rows
  <2>3. \A p \in Q : p \in P
    BY <1>1, <2>1, <2>2, MarksHaveAuthors
  <2>4. \A p \in P : Within(marked[p], From(k[2]), To(k[2])) <=> local_date(marked[p]) = k[2]
    BY <1>5, <2>2, OneDay
  <2>5. \A p \in P : p \in Q <=> key[p] = k
    BY <1>2, <1>4, <2>1, <2>2, <2>4 DEF Author
  <2>6. Part(P, key, k) = Q
    BY <2>3, <2>5 DEF Part
  <2>7. IsFiniteSet(Q) /\ \A p \in Q : f[p] = 1
    BY <1>2, <1>6, <2>3, FS_Subset
  <2>8. Total(f, Q) = Cardinality(Q)
    BY <2>7, TotalOfOnes
  <2>9. each[k] = Cardinality(Q)
    BY <1>7, <2>1 DEF PiecesCut
  <2>10. QED
    BY <2>6, <2>8, <2>9
<1>9. IsFiniteSet(Rows)
  BY RowsAreFinite
<1>10. Total(each, Rows) = Total(f, P)
  BY <1>2, <1>6, <1>8, <1>9, TotalOfParts
<1>11. Total(f, P) = Cardinality(P)
  BY <1>2, <1>6, TotalOfOnes
<1>12. QED
  BY <1>1, <1>7, <1>10, <1>11

\* Property SheetsCountOnce: sheet_credit's ledger, processed_boards and the rows of
\* performance.py count a sheet and a piece once.
THEOREM SheetsAreCountedOnce == ReportsSpec => []SheetsCountOnce
<1>1. RowsInv => SheetsCountOnce
  BY LedgerIsTheRow, CountedOnce, BoardsAddUp, PiecesAddUp DEF SheetsCountOnce, Rows
<1>2. QED
  BY <1>1, RowsSafe, PTL

-----------------------------------------------------------------------------
(* ShopReports: the minutes of the cuts, of the saw and of the pauses *)

\* Two intervals without a tick in common.
Disjoint(i, j) == i[2] <= j[1] \/ j[2] <= i[1]

\* An interval of so many ticks inside start .. end - 1.
Inside(i, start, end) == start <= i[1] /\ i[1] < i[2] /\ i[2] <= end

\* What the windows of the schedule are: pairs of instants, apart, each within its day.
LEMMA WindowsFact ==
    ASSUME NEW start \in Int, NEW end \in Int, NEW open
    PROVE  /\ windows(start, end, open) \in SUBSET (Int \X Int)
           /\ IsFiniteSet(windows(start, end, open))
           /\ \A v \in windows(start, end, open) : v[1] < v[2]
           /\ \A v, w \in windows(start, end, open) : v # w => Disjoint(v, w)
<1>1. DayTicks \in Nat \ {0} /\ Cardinality(DOMAIN Week) \in Nat \ {0}
  BY WorkClockAssumption
<1>2. PICK D : D = (local_date(start) - 1 .. local_date(end) + 1) \cap open
  OBVIOUS
<1>3. D \subseteq Int /\ IsFiniteSet(D)
  <2>1. local_date(start) \in Int /\ local_date(end) \in Int
    BY <1>1 DEF local_date
  <2>2. IsFiniteSet(local_date(start) - 1 .. local_date(end) + 1)
    BY <2>1, FS_Interval
  <2>3. QED
    BY <1>2, <2>1, <2>2, FS_Subset
<1>4. PICK hours : hours = [d \in D |-> Week[1 + (d % Cardinality(DOMAIN Week))]]
  OBVIOUS
<1>5. ASSUME NEW d \in D
      PROVE  /\ hours[d] \in SUBSET ((0..DayTicks - 1) \X (1..DayTicks))
             /\ \A w \in hours[d] : w[1] < w[2]
             /\ \A v, w \in hours[d] : v # w => Disjoint(v, w)
  <2>1. d % Cardinality(DOMAIN Week) \in 0..Cardinality(DOMAIN Week) - 1
    BY <1>1, <1>3
  <2>2. PICK k \in DOMAIN Week : k = 1 + (d % Cardinality(DOMAIN Week))
    BY <2>1, WorkClockAssumption
  <2>3. hours[d] = Week[k]
    BY <1>4, <2>2
  <2>4. QED
    BY <2>3, WorkClockAssumption DEF Disjoint
<1>6. PICK at : at = [d \in D |-> {<<d * DayTicks + w[1], d * DayTicks + w[2]>> : w \in hours[d]}]
  OBVIOUS
<1>7. windows(start, end, open) = UNION {at[d] : d \in D}
  BY <1>2, <1>4, <1>6 DEF windows
<1>8. ASSUME NEW d \in D
      PROVE  IsFiniteSet(at[d])
  <2>1. IsFiniteSet((0..DayTicks - 1) \X (1..DayTicks))
    <3>1. 0 \in Int /\ 1 \in Int /\ DayTicks - 1 \in Int /\ DayTicks \in Int
      BY <1>1
    <3>2. IsFiniteSet(0..DayTicks - 1) /\ IsFiniteSet(1..DayTicks)
      BY <3>1, FS_Interval
    <3>3. QED
      BY <3>2, FS_Product
  <2>2. IsFiniteSet(hours[d])
    BY <1>5, <2>1, FS_Subset
  <2>3. PICK f : f = [w \in hours[d] |-> <<d * DayTicks + w[1], d * DayTicks + w[2]>>]
    OBVIOUS
  <2>4. at[d] = {f[w] : w \in hours[d]}
    BY <1>6, <2>3
  <2>5. QED
    BY <2>2, <2>4, ImageIsFinite
<1>9. IsFiniteSet(windows(start, end, open))
  <2>1. IsFiniteSet({at[d] : d \in D})
    BY <1>3, ImageIsFinite
  <2>2. QED
    BY <1>7, <1>8, <2>1, FS_UNION
<1>10. ASSUME NEW v \in windows(start, end, open)
       PROVE  \E d \in D : \E w \in hours[d] :
                 /\ v = <<d * DayTicks + w[1], d * DayTicks + w[2]>>
                 /\ v[1] = d * DayTicks + w[1] /\ v[2] = d * DayTicks + w[2]
                 /\ d \in Int /\ d * DayTicks \in Int
                 /\ w[1] \in 0..DayTicks - 1 /\ w[2] \in 1..DayTicks /\ w[1] < w[2]
  <2> PICK d \in D : v \in at[d]
    BY <1>7
  <2>1. PICK w \in hours[d] : v = <<d * DayTicks + w[1], d * DayTicks + w[2]>>
    BY <1>6
  <2>2. w[1] \in 0..DayTicks - 1 /\ w[2] \in 1..DayTicks /\ w[1] < w[2]
    BY <1>5
  <2>3. d \in Int /\ d * DayTicks \in Int
    BY <1>1, <1>3
  <2>4. QED
    BY <2>1, <2>2, <2>3
<1>11. ASSUME NEW v \in windows(start, end, open)
       PROVE  v \in Int \X Int /\ v[1] < v[2]
  <2> PICK d \in D : \E w \in hours[d] :
                 /\ v = <<d * DayTicks + w[1], d * DayTicks + w[2]>>
                 /\ v[1] = d * DayTicks + w[1] /\ v[2] = d * DayTicks + w[2]
                 /\ d \in Int /\ d * DayTicks \in Int
                 /\ w[1] \in 0..DayTicks - 1 /\ w[2] \in 1..DayTicks /\ w[1] < w[2]
    BY <1>10
  <2>1. PICK w \in hours[d] :
                 /\ v = <<d * DayTicks + w[1], d * DayTicks + w[2]>>
                 /\ v[1] = d * DayTicks + w[1] /\ v[2] = d * DayTicks + w[2]
                 /\ d \in Int /\ d * DayTicks \in Int
                 /\ w[1] \in 0..DayTicks - 1 /\ w[2] \in 1..DayTicks /\ w[1] < w[2]
    OBVIOUS
  <2>2. PICK m \in Int : m = d * DayTicks
    BY <2>1
  <2>3. m + w[1] \in Int /\ m + w[2] \in Int /\ m + w[1] < m + w[2]
    BY <1>1, <2>1, <2>2
  <2>4. QED
    BY <2>1, <2>2, <2>3
<1>12. ASSUME NEW v \in windows(start, end, open), NEW u \in windows(start, end, open), v # u
       PROVE  Disjoint(v, u)
  <2> PICK d \in D : \E w \in hours[d] :
                 /\ v = <<d * DayTicks + w[1], d * DayTicks + w[2]>>
                 /\ v[1] = d * DayTicks + w[1] /\ v[2] = d * DayTicks + w[2]
                 /\ d \in Int /\ d * DayTicks \in Int
                 /\ w[1] \in 0..DayTicks - 1 /\ w[2] \in 1..DayTicks /\ w[1] < w[2]
    BY <1>10
  <2>1. PICK w \in hours[d] :
                 /\ v = <<d * DayTicks + w[1], d * DayTicks + w[2]>>
                 /\ v[1] = d * DayTicks + w[1] /\ v[2] = d * DayTicks + w[2]
                 /\ d \in Int /\ d * DayTicks \in Int
                 /\ w[1] \in 0..DayTicks - 1 /\ w[2] \in 1..DayTicks /\ w[1] < w[2]
    OBVIOUS
  <2> PICK e \in D : \E z \in hours[e] :
                 /\ u = <<e * DayTicks + z[1], e * DayTicks + z[2]>>
                 /\ u[1] = e * DayTicks + z[1] /\ u[2] = e * DayTicks + z[2]
                 /\ e \in Int /\ e * DayTicks \in Int
                 /\ z[1] \in 0..DayTicks - 1 /\ z[2] \in 1..DayTicks /\ z[1] < z[2]
    BY <1>10
  <2>2. PICK z \in hours[e] :
                 /\ u = <<e * DayTicks + z[1], e * DayTicks + z[2]>>
                 /\ u[1] = e * DayTicks + z[1] /\ u[2] = e * DayTicks + z[2]
                 /\ e \in Int /\ e * DayTicks \in Int
                 /\ z[1] \in 0..DayTicks - 1 /\ z[2] \in 1..DayTicks /\ z[1] < z[2]
    OBVIOUS
  <2>3. PICK m \in Int, n \in Int : m = d * DayTicks /\ n = e * DayTicks
    BY <2>1, <2>2
  <2>4. CASE d = e
    <3>1. w # z
      BY <1>12, <2>1, <2>2, <2>4
    <3>2. w \in hours[d] /\ z \in hours[d]
      BY <2>4
    <3>3. w[2] <= z[1] \/ z[2] <= w[1]
      BY <1>5, <3>1, <3>2 DEF Disjoint
    <3>4. m = n
      BY <2>3, <2>4
    <3>5. QED
      BY <1>1, <2>1, <2>2, <2>3, <3>3, <3>4 DEF Disjoint
  <2>5. CASE d < e
    <3>1. m + DayTicks <= n
      BY <1>1, <2>1, <2>2, <2>3, <2>5
    <3>2. QED
      BY <1>1, <2>1, <2>2, <2>3, <3>1 DEF Disjoint
  <2>6. CASE e < d
    <3>1. n + DayTicks <= m
      BY <1>1, <2>1, <2>2, <2>3, <2>6
    <3>2. QED
      BY <1>1, <2>1, <2>2, <2>3, <3>1 DEF Disjoint
  <2>7. d = e \/ d < e \/ e < d
    BY <1>3
  <2>8. QED
    BY <2>4, <2>5, <2>6, <2>7
<1>13. QED
  BY <1>9, <1>11, <1>12

\* The windows' part of a stretch.
LEMMA OverlapFact ==
    ASSUME NEW start \in Int, NEW end \in Int, start < end, NEW open
    PROVE  /\ overlap(start, end, open) \in SUBSET (Int \X Int)
           /\ IsFiniteSet(overlap(start, end, open))
           /\ \A i \in overlap(start, end, open) : Inside(i, start, end)
           /\ \A i, j \in overlap(start, end, open) : i # j => Disjoint(i, j)
<1>1. PICK V : V = {v \in windows(start, end, open) : v[2] > start /\ v[1] < end}
  OBVIOUS
<1>2. /\ V \in SUBSET (Int \X Int) /\ IsFiniteSet(V)
      /\ \A v \in V : v[1] < v[2] /\ v[2] > start /\ v[1] < end /\ v[1] \in Int /\ v[2] \in Int
      /\ \A v, w \in V : v # w => Disjoint(v, w)
  <2>1. V \subseteq windows(start, end, open)
    BY <1>1
  <2>2. IsFiniteSet(V)
    BY <2>1, WindowsFact, FS_Subset
  <2>3. QED
    BY <1>1, <2>1, <2>2, WindowsFact
<1>3. PICK clip : clip = [v \in V |-> <<Later(start, v[1]), Sooner(end, v[2])>>]
  OBVIOUS
<1>4. overlap(start, end, open) = {clip[v] : v \in V}
  BY <1>1, <1>3 DEF overlap
<1>5. ASSUME NEW v \in V
      PROVE  /\ clip[v] \in Int \X Int /\ Inside(clip[v], start, end)
             /\ v[1] <= clip[v][1] /\ clip[v][2] <= v[2]
  <2>1. PICK a \in Int, b \in Int : a = v[1] /\ b = v[2] /\ a < b /\ b > start /\ a < end
    BY <1>2
  <2>2. PICK x \in Int, y \in Int :
            x = Later(start, a) /\ y = Sooner(end, b) /\ start <= x /\ a <= x /\ x < y /\ y <= end /\ y <= b
    BY <2>1 DEF Later, Sooner
  <2>3. clip[v] = <<x, y>>
    BY <1>3, <2>1, <2>2
  <2>4. QED
    BY <2>1, <2>2, <2>3 DEF Inside
<1>6. ASSUME NEW v \in V, NEW w \in V, clip[v] # clip[w]
      PROVE  Disjoint(clip[v], clip[w])
  <2>1. v # w
    BY <1>6
  <2>2. v[2] <= w[1] \/ w[2] <= v[1]
    BY <1>2, <2>1 DEF Disjoint
  <2>3. /\ clip[v][1] \in Int /\ clip[v][2] \in Int /\ v[1] <= clip[v][1] /\ clip[v][2] <= v[2]
        /\ clip[w][1] \in Int /\ clip[w][2] \in Int /\ w[1] <= clip[w][1] /\ clip[w][2] <= w[2]
        /\ v[1] \in Int /\ v[2] \in Int /\ w[1] \in Int /\ w[2] \in Int
    BY <1>2, <1>5
  <2>4. QED
    BY <2>2, <2>3 DEF Disjoint
<1>7. IsFiniteSet({clip[v] : v \in V})
  BY <1>2, ImageIsFinite
<1>8. QED
  BY <1>4, <1>5, <1>6, <1>7

\* What counts as work of a stretch lies within it, each minute once.
LEMMA WorkedFact ==
    ASSUME NEW start \in Int, NEW end \in Int, NEW open
    PROVE  /\ worked(start, end, open) \in SUBSET (Int \X Int)
           /\ IsFiniteSet(worked(start, end, open))
           /\ \A i \in worked(start, end, open) : Inside(i, start, end)
           /\ \A i, j \in worked(start, end, open) : i # j => Disjoint(i, j)
<1>1. CASE end <= start
  <2>1. worked(start, end, open) = {}
    BY <1>1 DEF worked
  <2>2. QED
    BY <2>1, FS_EmptySet
<1>2. CASE ~(end <= start)
  <2>1. start < end
    BY <1>2
  <2>2. PICK P : P = overlap(start, end, open)
    OBVIOUS
  <2>3. /\ P \in SUBSET (Int \X Int) /\ IsFiniteSet(P)
        /\ \A i \in P : Inside(i, start, end)
        /\ \A i, j \in P : i # j => Disjoint(i, j)
    BY <2>1, <2>2, OverlapFact
  <2>4. PICK last : last = CHOOSE p \in P : \A q \in P : q[2] <= p[2]
    OBVIOUS
  <2>5. P # {} => last \in P /\ \A q \in P : q[2] <= last[2]
    <3> SUFFICES ASSUME P # {} PROVE \E p \in P : \A q \in P : q[2] <= p[2]
      BY <2>4
    <3>1. PICK f : f = [p \in P |-> p[2]]
      OBVIOUS
    <3>2. PICK E : E = {f[p] : p \in P}
      OBVIOUS
    <3>3. E \in SUBSET Int /\ E # {} /\ IsFiniteSet(E)
      BY <2>3, <3>1, <3>2, ImageIsFinite
    <3>4. PICK m \in E : \A y \in E : y <= m
      BY <3>3, GreatestIsThere
    <3>5. QED
      BY <3>1, <3>2, <3>4
  <2>6. \/ worked(start, end, open) = {<<start, end>>}
        \/ P # {} /\ worked(start, end, open) = (P \ {last}) \union {<<last[1], end>>}
        \/ worked(start, end, open) = P
    <3>1. CASE end - start <= Overtime
      BY <1>2, <3>1 DEF worked
    <3>2. CASE ~(end - start <= Overtime)
      <4>1. worked(start, end, open)
              = IF /\ P # {} /\ ~(\E w \in windows(start, end, open) : w[1] <= end /\ end < w[2])
                   /\ end - last[2] <= Overtime
                THEN (P \ {last}) \union {<<last[1], end>>}
                ELSE P
        BY <1>2, <2>2, <2>4, <3>2 DEF worked
      <4>2. QED
        BY <4>1
    <3>3. QED
      BY <3>1, <3>2
  <2>7. CASE worked(start, end, open) = {<<start, end>>}
    <3>1. <<start, end>> \in Int \X Int /\ Inside(<<start, end>>, start, end)
      BY <2>1 DEF Inside
    <3>2. QED
      BY <2>7, <3>1, FS_Singleton
  <2>8. CASE P # {} /\ worked(start, end, open) = (P \ {last}) \union {<<last[1], end>>}
    <3>1. P # {}
      BY <2>8
    <3>2. last \in P /\ last[1] \in Int /\ last[2] \in Int /\ Inside(last, start, end)
      BY <2>3, <2>5, <3>1
    <3>3. PICK z : z = <<last[1], end>>
      OBVIOUS
    <3>4. z \in Int \X Int /\ z[1] = last[1] /\ z[2] = end
      BY <3>2, <3>3
    <3>5. Inside(z, start, end)
      BY <3>2, <3>4 DEF Inside
    <3>6. ASSUME NEW i \in P \ {last}
          PROVE  Disjoint(i, z) /\ Disjoint(z, i)
      <4>1. i[1] \in Int /\ i[2] \in Int /\ i[1] < i[2] /\ i[2] <= last[2]
        BY <2>3, <2>5, <3>1 DEF Inside
      <4>2. Disjoint(i, last)
        BY <2>3, <3>2
      <4>3. last[1] < last[2]
        BY <3>2 DEF Inside
      <4>4. i[2] <= last[1]
        BY <3>2, <4>1, <4>2, <4>3 DEF Disjoint
      <4>5. QED
        BY <3>4, <4>4 DEF Disjoint
    <3>7. IsFiniteSet((P \ {last}) \union {z})
      <4>1. IsFiniteSet(P \ {last}) /\ IsFiniteSet({z})
        BY <2>3, FS_Subset, FS_Singleton
      <4>2. QED
        BY <4>1, FS_Union
    <3>8. PICK W : W = (P \ {last}) \union {z} /\ W = worked(start, end, open)
      BY <2>8, <3>3
    <3>9. \A i, j \in W : i # j => Disjoint(i, j)
      BY <2>3, <3>6, <3>8
    <3>10. QED
      BY <2>3, <3>4, <3>5, <3>7, <3>8, <3>9
  <2>9. CASE worked(start, end, open) = P
    BY <2>3, <2>9
  <2>10. QED
    BY <2>6, <2>7, <2>8, <2>9
<1>3. QED
  BY <1>1, <1>2

\* What in the rows an event of a cut stands for.
OnRecord(o, e) ==
    \/ \E p \in SlipsOf(o) :
          marked[p] # Never /\ e = [at |-> marked[p], kind |-> "mark", user |-> marker[p]]
    \/ begun[Cut(o)] # Never /\ e = [at |-> begun[Cut(o)], kind |-> "take"]
    \/ \E s \in stops[Cut(o)] : e = [at |-> s.from, kind |-> "pause", user |-> s.user]
    \/ \E s \in stops[Cut(o)] : s.to # Never /\ e = [at |-> s.to, kind |-> "resume"]

\* The pauses of an activity are finitely many.
LEMMA FewStops == ASSUME RowsInv, NEW a \in Acts PROVE IsFiniteSet(stops[a])
<1>1. PICK T : T = Instants \union {Never}
  OBVIOUS
<1>2. IsFiniteSet(T) /\ IsFiniteSet(Staff)
  <2>1. IsFiniteSet(Instants) /\ IsFiniteSet({Never}) /\ IsFiniteSet(Staff)
    BY ShopReportsAssumption, FS_Singleton
  <2>2. QED
    BY <1>1, <2>1, FS_Union
<1>3. IsFiniteSet((T \X T) \X Staff)
  <2>1. IsFiniteSet(T \X T)
    BY <1>2, FS_Product
  <2>2. QED
    BY <1>2, <2>1, FS_Product
<1>4. PICK f : f = [t \in (T \X T) \X Staff |-> [from |-> t[1][1], to |-> t[1][2], user |-> t[2]]]
  OBVIOUS
<1>5. IsFiniteSet({f[t] : t \in (T \X T) \X Staff})
  BY <1>3, ImageIsFinite
<1>6. ASSUME NEW s \in stops[a]
      PROVE  \E t \in (T \X T) \X Staff : s = f[t]
  <2>1. /\ s = [from |-> s.from, to |-> s.to, user |-> s.user]
        /\ s.from \in T /\ s.to \in T /\ s.user \in Staff
    BY <1>1 DEF RowsInv, StopsAgree, IsPause, SoFar
  <2>2. PICK t : t = <<<<s.from, s.to>>, s.user>>
    OBVIOUS
  <2>3. t \in (T \X T) \X Staff /\ t[1][1] = s.from /\ t[1][2] = s.to /\ t[2] = s.user
    BY <2>1, <2>2
  <2>4. f[t] = [from |-> s.from, to |-> s.to, user |-> s.user]
    BY <1>4, <2>3
  <2>5. QED
    BY <2>1, <2>3, <2>4
<1>7. stops[a] \subseteq {f[t] : t \in (T \X T) \X Staff}
  BY <1>6
<1>8. QED
  BY <1>5, <1>7, FS_Subset

\* The timeline of a cut: finitely many events, each out of the rows.
LEMMA TimelineFact ==
    ASSUME RowsInv, NEW o \in Orders
    PROVE  /\ IsFiniteSet(Timeline(o))
           /\ \A e : e \in Timeline(o) <=> OnRecord(o, e)
           /\ \A e \in Timeline(o) :
                 /\ e.at \in Instants /\ e.at \in Nat /\ e.at <= clock
                 /\ e.kind \in {"mark", "take", "pause", "resume"}
                 /\ e.kind \in {"mark", "pause"} => e.user \in Staff
<1>1. PICK a \in Acts : a = Cut(o)
  BY ActsFact
<1>2. PICK M, T, P, R :
        /\ M = Marks(o)
        /\ T = IF begun[a] = Never THEN {} ELSE {[at |-> begun[a], kind |-> "take"]}
        /\ P = {[at |-> s.from, kind |-> "pause", user |-> s.user] : s \in stops[a]}
        /\ R = {[at |-> s.to, kind |-> "resume"] : s \in {q \in stops[a] : q.to # Never}}
  OBVIOUS
<1>3. Timeline(o) = M \union T \union P \union R
  BY <1>1, <1>2 DEF Timeline
<1>4. IsFiniteSet(M)
  <2>1. PICK S : S = {q \in SlipsOf(o) : marked[q] # Never}
    OBVIOUS
  <2>2. PICK f : f = [p \in S |-> [at |-> marked[p], kind |-> "mark", user |-> marker[p]]]
    OBVIOUS
  <2>3. IsFiniteSet(S)
    BY <2>1, ShopReportsAssumption, FS_Subset DEF SlipsOf
  <2>4. M = {f[p] : p \in S}
    BY <1>2, <2>1, <2>2 DEF Marks
  <2>5. QED
    BY <2>3, <2>4, ImageIsFinite
<1>5. IsFiniteSet(P) /\ IsFiniteSet(R)
  <2>1. PICK f : f = [s \in stops[a] |-> [at |-> s.from, kind |-> "pause", user |-> s.user]]
    OBVIOUS
  <2>2. PICK S : S = {q \in stops[a] : q.to # Never}
    OBVIOUS
  <2>3. PICK g : g = [s \in S |-> [at |-> s.to, kind |-> "resume"]]
    OBVIOUS
  <2>4. IsFiniteSet(stops[a]) /\ IsFiniteSet(S)
    BY <2>2, FewStops, FS_Subset
  <2>5. P = {f[s] : s \in stops[a]} /\ R = {g[s] : s \in S}
    BY <1>2, <2>1, <2>2, <2>3
  <2>6. QED
    BY <2>4, <2>5, ImageIsFinite
<1>6. IsFiniteSet(T)
  BY <1>2, FS_EmptySet, FS_Singleton
<1>7. IsFiniteSet(Timeline(o))
  <2>1. IsFiniteSet(M \union T)
    BY <1>4, <1>6, FS_Union
  <2>2. IsFiniteSet(M \union T \union P)
    BY <1>5, <2>1, FS_Union
  <2>3. QED
    BY <1>3, <1>5, <2>2, FS_Union
<1>8. \A e : e \in Timeline(o) <=> OnRecord(o, e)
  <2>1. \A e : e \in M <=> \E p \in SlipsOf(o) :
          marked[p] # Never /\ e = [at |-> marked[p], kind |-> "mark", user |-> marker[p]]
    BY <1>2 DEF Marks
  <2>2. \A e : e \in T <=> begun[a] # Never /\ e = [at |-> begun[a], kind |-> "take"]
    BY <1>2
  <2>3. \A e : e \in P <=> \E s \in stops[a] : e = [at |-> s.from, kind |-> "pause", user |-> s.user]
    BY <1>2
  <2>4. \A e : e \in R <=> \E s \in stops[a] : s.to # Never /\ e = [at |-> s.to, kind |-> "resume"]
    BY <1>2
  <2>5. QED
    BY <1>1, <1>3, <2>1, <2>2, <2>3, <2>4 DEF OnRecord
<1>9. ASSUME NEW e \in Timeline(o)
      PROVE  /\ e.at \in Instants /\ e.at \in Nat /\ e.at <= clock
             /\ e.kind \in {"mark", "take", "pause", "resume"}
             /\ e.kind \in {"mark", "pause"} => e.user \in Staff
  <2>1. OnRecord(o, e)
    BY <1>8
  <2>2. \A t \in SoFar \ {Never} : t \in Instants /\ t \in Nat /\ t <= clock
    BY ShopReportsAssumption DEF SoFar
  <2>3. ASSUME NEW p \in SlipsOf(o), marked[p] # Never,
               e = [at |-> marked[p], kind |-> "mark", user |-> marker[p]]
        PROVE  e.at \in SoFar \ {Never} /\ e.kind = "mark" /\ e.user \in Staff
    <3>1. p \in Slips
      BY DEF SlipsOf
    <3>2. QED
      BY <2>3, <3>1 DEF RowsInv, ColumnsTyped, EventsAgree
  <2>4. ASSUME begun[a] # Never, e = [at |-> begun[a], kind |-> "take"]
        PROVE  e.at \in SoFar \ {Never} /\ e.kind = "take"
    BY <2>4 DEF RowsInv, ColumnsTyped
  <2>5. ASSUME NEW s \in stops[a], e = [at |-> s.from, kind |-> "pause", user |-> s.user]
        PROVE  e.at \in SoFar \ {Never} /\ e.kind = "pause" /\ e.user \in Staff
    BY <2>5 DEF RowsInv, StopsAgree, IsPause
  <2>6. ASSUME NEW s \in stops[a], s.to # Never, e = [at |-> s.to, kind |-> "resume"]
        PROVE  e.at \in SoFar \ {Never} /\ e.kind = "resume"
    BY <2>6 DEF RowsInv, StopsAgree, IsPause
  <2>7. QED
    BY <1>1, <2>1, <2>2, <2>3, <2>4, <2>5, <2>6 DEF OnRecord
<1>10. QED
  BY <1>7, <1>8, <1>9

\* Two events of a cut at one instant are of different kinds.
LEMMA OneEvent ==
    ASSUME RowsInv, NEW o \in Orders, NEW e \in Timeline(o), NEW f \in Timeline(o),
           e.at = f.at, e.kind = f.kind
    PROVE  e = f
<1>1. OnRecord(o, e) /\ OnRecord(o, f) /\ Cut(o) \in Acts
  BY TimelineFact, ActsFact
<1>2. ASSUME NEW p \in SlipsOf(o), e = [at |-> marked[p], kind |-> "mark", user |-> marker[p]],
             marked[p] # Never
      PROVE  e = f
  <2>1. PICK q \in SlipsOf(o) : f = [at |-> marked[q], kind |-> "mark", user |-> marker[q]]
    BY <1>1, <1>2 DEF OnRecord
  <2>2. p \in Slips /\ q \in Slips /\ marked[p] = marked[q]
    BY <1>2, <2>1 DEF SlipsOf
  <2>3. p = q
    BY <1>2, <2>2 DEF RowsInv, EventsAgree
  <2>4. QED
    BY <1>2, <2>1, <2>3
<1>3. ASSUME e = [at |-> begun[Cut(o)], kind |-> "take"]
      PROVE  e = f
  BY <1>1, <1>3 DEF OnRecord
<1>4. ASSUME NEW s \in stops[Cut(o)], e = [at |-> s.from, kind |-> "pause", user |-> s.user]
      PROVE  e = f
  <2>1. PICK q \in stops[Cut(o)] : f = [at |-> q.from, kind |-> "pause", user |-> q.user]
    BY <1>1, <1>4 DEF OnRecord
  <2>2. s.from = q.from
    BY <1>4, <2>1
  <2>3. s.from \in Nat /\ q.from \in Nat /\ q.to # Never => q.to \in Nat /\ q.from < q.to
    BY <1>1, ShopReportsAssumption DEF RowsInv, StopsAgree, IsPause, SoFar
  <2>4. s.from \in Nat
    BY <1>1, ShopReportsAssumption DEF RowsInv, StopsAgree, IsPause, SoFar
  <2>5. s # q => Outside(s.from, q)
    BY <1>1 DEF RowsInv, StopsAgree
  <2>6. s = q
    BY <2>2, <2>3, <2>4, <2>5, <1>1 DEF Outside, RowsInv, StopsAgree, IsPause
  <2>7. QED
    BY <1>4, <2>1, <2>6
<1>5. ASSUME NEW s \in stops[Cut(o)], e = [at |-> s.to, kind |-> "resume"]
      PROVE  e = f
  BY <1>1, <1>5 DEF OnRecord
<1>6. QED
  BY <1>1, <1>2, <1>3, <1>4, <1>5 DEF OnRecord

\* No event of a cut but its own ends falls in a pause.
LEMMA NothingInAPause ==
    ASSUME RowsInv, NEW o \in Orders, NEW e \in Timeline(o), NEW s \in stops[Cut(o)],
           s.from < e.at
    PROVE  s.to # Never /\ s.to <= e.at
<1>1. OnRecord(o, e) /\ Cut(o) \in Acts /\ e.at \in Nat
  BY TimelineFact, ActsFact
<1>2. \A q \in stops[Cut(o)] : /\ q.from \in Nat /\ q.to \in Nat
                               /\ q.to # Never => q.from < q.to
  BY <1>1, ShopReportsAssumption DEF RowsInv, StopsAgree, IsPause, SoFar, Never
<1>3. ASSUME NEW p \in SlipsOf(o), marked[p] # Never, e.at = marked[p]
      PROVE  Outside(e.at, s)
  <2>1. p \in Slips /\ OrderOf[SheetOf[p]] = o
    BY DEF SlipsOf
  <2>2. QED
    BY <1>3, <2>1 DEF RowsInv, EventsAgree
<1>4. ASSUME begun[Cut(o)] # Never, e.at = begun[Cut(o)]
      PROVE  Outside(e.at, s)
  BY <1>1, <1>4 DEF RowsInv, EventsAgree
<1>5. ASSUME NEW q \in stops[Cut(o)], e.at = q.from
      PROVE  Outside(e.at, s)
  <2>1. q # s
    BY <1>1, <1>2, <1>5
  <2>2. QED
    BY <1>1, <1>5, <2>1 DEF RowsInv, StopsAgree
<1>6. ASSUME NEW q \in stops[Cut(o)], q.to # Never, e.at = q.to
      PROVE  s.to # Never /\ s.to <= e.at
  <2>1. CASE q = s
    BY <1>1, <1>6, <2>1
  <2>2. CASE q # s
    <3>1. Outside(s.from, q) /\ Outside(q.from, s)
      BY <1>1, <2>2 DEF RowsInv, StopsAgree
    <3>2. /\ s.from \in Nat /\ s.to \in Nat /\ q.from \in Nat /\ q.to \in Nat
          /\ q.from < q.to /\ s.from < q.to
      BY <1>2, <1>6
    <3>3. s.from < q.from
      BY <1>6, <3>1, <3>2 DEF Outside
    <3>4. s.to # Never /\ s.to < q.from
      BY <3>1, <3>2, <3>3 DEF Outside
    <3>5. QED
      BY <1>6, <3>2, <3>4
  <2>3. QED
    BY <2>1, <2>2
<1>7. Outside(e.at, s) => s.to # Never /\ s.to <= e.at
  BY <1>1, <1>2 DEF Outside
<1>8. \/ \E p \in SlipsOf(o) : marked[p] # Never /\ e.at = marked[p]
      \/ begun[Cut(o)] # Never /\ e.at = begun[Cut(o)]
      \/ \E q \in stops[Cut(o)] : e.at = q.from
      \/ \E q \in stops[Cut(o)] : q.to # Never /\ e.at = q.to
  BY <1>1 DEF OnRecord
<1>9. QED
  BY <1>3, <1>4, <1>5, <1>6, <1>7, <1>8

\* The events a timeline is read up to.
MarkTimes(o) == {e.at : e \in {f \in Timeline(o) : f.kind = "mark"}}
Counted(o) == {e \in Timeline(o) : e.at <= Max(MarkTimes(o))}

\* The marks of a timeline have a last one, and what is counted is all there is before it.
LEMMA CountedFact ==
    ASSUME RowsInv, NEW o \in Orders, MarkTimes(o) # {}
    PROVE  /\ MarkTimes(o) \in SUBSET Int /\ IsFiniteSet(MarkTimes(o))
           /\ Max(MarkTimes(o)) \in Int
           /\ \A e \in Timeline(o), f \in Counted(o) : e.at <= f.at => e \in Counted(o)
<1>1. PICK at : at = [e \in Timeline(o) |-> e.at]
  OBVIOUS
<1>2. PICK F : F = {f \in Timeline(o) : f.kind = "mark"}
  OBVIOUS
<1>3. MarkTimes(o) = {at[e] : e \in F}
  BY <1>1, <1>2 DEF MarkTimes
<1>4. IsFiniteSet(F)
  BY <1>2, TimelineFact, FS_Subset
<1>5. MarkTimes(o) \in SUBSET Int /\ IsFiniteSet(MarkTimes(o))
  <2>1. \A e \in F : at[e] \in Int
    BY <1>1, <1>2, TimelineFact
  <2>2. QED
    BY <1>3, <1>4, <2>1, ImageIsFinite
<1>6. PICK m \in Int : m = Max(MarkTimes(o))
  BY <1>5, GreatestIsThere
<1>7. ASSUME NEW e \in Timeline(o), NEW f \in Counted(o), e.at <= f.at
      PROVE  e \in Counted(o)
  <2>1. e.at \in Nat /\ f.at \in Nat /\ f.at <= m
    BY <1>6, TimelineFact DEF Counted
  <2>2. e.at <= m
    BY <1>7, <2>1
  <2>3. QED
    BY <1>6, <2>2 DEF Counted
<1>8. QED
  BY <1>5, <1>6, <1>7

Stretches(o) == WorkedStretches(Counted(o))

\* A stretch is between two events of the cut, out of every pause.
LEMMA StretchFact ==
    ASSUME RowsInv, NEW o \in Orders, MarkTimes(o) # {}, NEW x \in Stretches(o)
    PROVE  /\ x = <<x[1], x[2]>> /\ x[1] \in Timeline(o) /\ x[2] \in Timeline(o)
           /\ x[1] \in Counted(o) /\ x[2] \in Counted(o)
           /\ x[1].at \in Nat /\ x[2].at \in Nat /\ x[1].at <= x[2].at
           /\ x[2].user \in Staff /\ x[1].kind # "pause"
           /\ Before(x[1], x[2])
           /\ ~ \E e \in Counted(o) : Before(x[1], e) /\ Before(e, x[2])
           /\ \A s \in stops[Cut(o)] : (s.to # Never /\ s.to <= x[1].at) \/ x[2].at <= s.from
<1>1. /\ x \in Counted(o) \X Counted(o) /\ Before(x[1], x[2])
      /\ ~ \E e \in Counted(o) : Before(x[1], e) /\ Before(e, x[2])
      /\ x[2].kind \in {"mark", "pause"} /\ x[1].kind # "pause"
  BY DEF Stretches, WorkedStretches, Consecutive
<1>2. PICK e \in Counted(o), f \in Counted(o) : x = <<e, f>> /\ e = x[1] /\ f = x[2]
  BY <1>1
<1>3. /\ e \in Timeline(o) /\ f \in Timeline(o) /\ e.at \in Nat /\ f.at \in Nat
      /\ e.kind \in {"mark", "take", "pause", "resume"} /\ f.user \in Staff
  BY <1>1, <1>2, TimelineFact DEF Counted
<1>4. e.at <= f.at
  BY <1>1, <1>2, <1>3 DEF Before
<1>5. ASSUME NEW s \in stops[Cut(o)], ~(f.at <= s.from)
      PROVE  s.to # Never /\ s.to <= e.at
  <2>1. PICK p : p = [at |-> s.from, kind |-> "pause", user |-> s.user]
    OBVIOUS
  <2>2. p \in Timeline(o) /\ p.at = s.from /\ p.kind = "pause"
    BY <2>1, TimelineFact DEF OnRecord
  <2>3. p.at \in Nat /\ p.at < f.at
    BY <1>3, <1>5, <2>2, TimelineFact
  <2>4. p \in Counted(o)
    BY <1>3, <2>2, <2>3, CountedFact
  <2>5. Before(p, f)
    BY <2>3 DEF Before
  <2>6. ~Before(e, p)
    BY <1>1, <1>2, <2>4, <2>5
  <2>7. KindOrder(e.kind) < KindOrder(p.kind)
    BY <1>1, <1>2, <1>3, <2>2 DEF KindOrder
  <2>8. s.from < e.at
    BY <1>3, <2>2, <2>3, <2>6, <2>7 DEF Before
  <2>9. QED
    BY <1>3, <2>8, NothingInAPause
<1>6. QED
  BY <1>1, <1>2, <1>3, <1>4, <1>5

\* Two stretches of a cut share no minute.
LEMMA StretchesApart ==
    ASSUME RowsInv, NEW o \in Orders, MarkTimes(o) # {},
           NEW x \in Stretches(o), NEW y \in Stretches(o), x # y
    PROVE  x[2].at <= y[1].at \/ y[2].at <= x[1].at
<1> SUFFICES ASSUME y[1].at < x[2].at, x[1].at < y[2].at PROVE FALSE
  BY StretchFact
<1>1. PICK e, f : e = x[1] /\ f = x[2] /\ x = <<e, f>> /\ e \in Timeline(o) /\ f \in Timeline(o)
  BY StretchFact
<1>2. PICK g, h : g = y[1] /\ h = y[2] /\ y = <<g, h>> /\ g \in Timeline(o) /\ h \in Timeline(o)
  BY StretchFact
<1>3. /\ e \in Counted(o) /\ f \in Counted(o) /\ g \in Counted(o) /\ h \in Counted(o)
      /\ e.at \in Nat /\ f.at \in Nat /\ g.at \in Nat /\ h.at \in Nat
      /\ Before(e, f) /\ Before(g, h)
      /\ ~ \E z \in Counted(o) : Before(e, z) /\ Before(z, f)
      /\ ~ \E z \in Counted(o) : Before(g, z) /\ Before(z, h)
  BY <1>1, <1>2, StretchFact
<1>4. Before(g, f) /\ Before(e, h)
  BY <1>1, <1>2 DEF Before
<1>5. ~Before(e, g) /\ ~Before(g, e) /\ ~Before(f, h) /\ ~Before(h, f)
  BY <1>3, <1>4
<1>6. ASSUME NEW a \in Timeline(o), NEW b \in Timeline(o), ~Before(a, b), ~Before(b, a)
      PROVE  a = b
  <2>1. /\ a.at \in Nat /\ b.at \in Nat
        /\ a.kind \in {"mark", "take", "pause", "resume"}
        /\ b.kind \in {"mark", "take", "pause", "resume"}
    BY TimelineFact
  <2>2. a.at = b.at
    BY <1>6, <2>1 DEF Before
  <2>3. KindOrder(a.kind) \in Nat /\ KindOrder(b.kind) \in Nat
    BY <2>1 DEF KindOrder
  <2>4. KindOrder(a.kind) = KindOrder(b.kind)
    BY <1>6, <2>2, <2>3 DEF Before
  <2>5. a.kind = b.kind
    BY <2>1, <2>4 DEF KindOrder
  <2>6. QED
    BY <2>2, <2>5, OneEvent
<1>7. e = g /\ f = h
  BY <1>1, <1>2, <1>5, <1>6
<1>8. QED
  BY <1>1, <1>2, <1>7

\* The phase of what ends in x's second event.
PhaseOf(o, x) == IF x[2].at <= Min(MarkTimes(o)) THEN "loading" ELSE "sawing"
WorkedIn(x, open) == worked(x[1].at, x[2].at, open)
SegmentOf(o, x, i) == [start |-> i[1], end |-> i[2], user |-> x[2].user, phase |-> PhaseOf(o, x)]

\* The segments of a cut are the worked parts of its stretches.
LEMMA SegmentsFact ==
    ASSUME RowsInv, NEW o \in Orders, NEW open
    PROVE  /\ IsFiniteSet(cut_segments(Timeline(o), open))
           /\ MarkTimes(o) = {} => cut_segments(Timeline(o), open) = {}
           /\ \A s \in cut_segments(Timeline(o), open) :
                 \E x \in Stretches(o) : \E i \in WorkedIn(x, open) : s = SegmentOf(o, x, i)
<1>1. CASE MarkTimes(o) = {}
  <2>1. cut_segments(Timeline(o), open) = {}
    BY <1>1 DEF cut_segments, MarkTimes
  <2>2. QED
    BY <2>1, FS_EmptySet
<1>2. CASE MarkTimes(o) # {}
  <2>1. PICK at : at = [x \in Stretches(o) |-> {SegmentOf(o, x, i) : i \in WorkedIn(x, open)}]
    OBVIOUS
  <2>2. cut_segments(Timeline(o), open) = UNION {at[x] : x \in Stretches(o)}
    <3>1. cut_segments(Timeline(o), open)
            = UNION {{SegmentOf(o, x, i) : i \in WorkedIn(x, open)} : x \in Stretches(o)}
      BY <1>2 DEF cut_segments, MarkTimes, Counted, Stretches, SegmentOf, PhaseOf, WorkedIn
    <3>2. QED
      BY <2>1, <3>1
  <2>3. IsFiniteSet(Stretches(o))
    <3>1. IsFiniteSet(Counted(o))
      BY TimelineFact, FS_Subset DEF Counted
    <3>2. IsFiniteSet(Counted(o) \X Counted(o))
      BY <3>1, FS_Product
    <3>3. Stretches(o) \subseteq Counted(o) \X Counted(o)
      BY DEF Stretches, WorkedStretches, Consecutive
    <3>4. QED
      BY <3>2, <3>3, FS_Subset
  <2>4. ASSUME NEW x \in Stretches(o)
        PROVE  IsFiniteSet(at[x])
    <3>1. x[1].at \in Int /\ x[2].at \in Int
      BY <1>2, StretchFact
    <3>2. IsFiniteSet(WorkedIn(x, open))
      BY <3>1, WorkedFact DEF WorkedIn
    <3>3. PICK f : f = [i \in WorkedIn(x, open) |-> SegmentOf(o, x, i)]
      OBVIOUS
    <3>4. at[x] = {f[i] : i \in WorkedIn(x, open)}
      BY <2>1, <3>3
    <3>5. QED
      BY <3>2, <3>4, ImageIsFinite
  <2>5. IsFiniteSet(UNION {at[x] : x \in Stretches(o)})
    <3>1. IsFiniteSet({at[x] : x \in Stretches(o)})
      BY <2>3, ImageIsFinite
    <3>2. QED
      BY <2>4, <3>1, FS_UNION
  <2>6. QED
    BY <1>2, <2>1, <2>2, <2>5
<1>3. QED
  BY <1>1, <1>2

\* A segment lies in its stretch.
LEMMA SegmentFact ==
    ASSUME RowsInv, NEW o \in Orders, NEW open, NEW s \in cut_segments(Timeline(o), open)
    PROVE  \E x \in Stretches(o) : \E i \in WorkedIn(x, open) :
              /\ s = SegmentOf(o, x, i) /\ s.start = i[1] /\ s.end = i[2] /\ s.user = x[2].user
              /\ s.start \in Int /\ s.end \in Int /\ s.user \in Staff
              /\ s.phase \in {"loading", "sawing"}
              /\ x[1].at <= s.start /\ s.start < s.end /\ s.end <= x[2].at
<1>1. MarkTimes(o) # {}
  BY SegmentsFact
<1>2. PICK x \in Stretches(o) : \E i \in WorkedIn(x, open) : s = SegmentOf(o, x, i)
  BY SegmentsFact
<1>3. PICK i \in WorkedIn(x, open) : s = SegmentOf(o, x, i)
  BY <1>2
<1>4. x[1].at \in Int /\ x[2].at \in Int /\ x[2].user \in Staff
  BY <1>1, StretchFact
<1>5. i \in Int \X Int /\ Inside(i, x[1].at, x[2].at)
  BY <1>4, WorkedFact DEF WorkedIn
<1>6. /\ s.start = i[1] /\ s.end = i[2] /\ s.user = x[2].user
      /\ s.phase \in {"loading", "sawing"}
  BY <1>3 DEF SegmentOf, PhaseOf
<1>7. QED
  BY <1>3, <1>4, <1>5, <1>6 DEF Inside

\* Two segments of a cut share no minute.
LEMMA SegmentsApart ==
    ASSUME RowsInv, NEW o \in Orders, NEW open,
           NEW s \in cut_segments(Timeline(o), open), NEW q \in cut_segments(Timeline(o), open), s # q
    PROVE  s.end <= q.start \/ q.end <= s.start
<1>1. MarkTimes(o) # {}
  BY SegmentsFact
<1>2. PICK x \in Stretches(o) : \E i \in WorkedIn(x, open) :
              /\ s = SegmentOf(o, x, i) /\ s.start = i[1] /\ s.end = i[2]
              /\ s.start \in Int /\ s.end \in Int /\ x[1].at <= s.start /\ s.end <= x[2].at
  BY SegmentFact
<1>3. PICK i \in WorkedIn(x, open) :
              /\ s = SegmentOf(o, x, i) /\ s.start = i[1] /\ s.end = i[2]
              /\ s.start \in Int /\ s.end \in Int /\ x[1].at <= s.start /\ s.end <= x[2].at
  BY <1>2
<1>4. PICK y \in Stretches(o) : \E j \in WorkedIn(y, open) :
              /\ q = SegmentOf(o, y, j) /\ q.start = j[1] /\ q.end = j[2]
              /\ q.start \in Int /\ q.end \in Int /\ y[1].at <= q.start /\ q.end <= y[2].at
  BY SegmentFact
<1>5. PICK j \in WorkedIn(y, open) :
              /\ q = SegmentOf(o, y, j) /\ q.start = j[1] /\ q.end = j[2]
              /\ q.start \in Int /\ q.end \in Int /\ y[1].at <= q.start /\ q.end <= y[2].at
  BY <1>4
<1>6. x[1].at \in Int /\ x[2].at \in Int /\ y[1].at \in Int /\ y[2].at \in Int
  BY <1>1, StretchFact
<1>7. CASE x = y
  <2>1. i # j
    BY <1>3, <1>5, <1>7
  <2>2. Disjoint(i, j)
    BY <1>6, <1>7, <2>1, WorkedFact DEF WorkedIn
  <2>3. QED
    BY <1>3, <1>5, <2>2 DEF Disjoint
<1>8. CASE x # y
  <2>1. x[2].at <= y[1].at \/ y[2].at <= x[1].at
    BY <1>1, <1>8, StretchesApart
  <2>2. QED
    BY <1>3, <1>5, <1>6, <2>1
<1>9. QED
  BY <1>7, <1>8

\* What a range reads of an order.
LEMMA CutsFact ==
    ASSUME NEW from, NEW to, NEW c \in order_cuts(from, to)
    PROVE  c.order \in Orders /\ c.segments = cut_segments(Timeline(c.order), OpenFor(from, to))
<1>1. PICK o \in BeingCut(from, to) :
         c = [order |-> o, segments |-> cut_segments(Timeline(o), OpenFor(from, to))]
  BY DEF order_cuts
<1>2. o \in Orders
  BY DEF BeingCut
<1>3. QED
  BY <1>1, <1>2

\* Of ReportsAgree, MinutesAreWork: an order's minutes are read once, none of them in a
\* registered pause of its cut, whatever was marked, unmarked, paused and sent back.
THEOREM MinutesAreWorked == ReportsSpec => []MinutesAreWork(order_cuts(AllFrom, AllTo))
<1>1. RowsInv => MinutesAreWork(order_cuts(AllFrom, AllTo))
  <2> SUFFICES ASSUME RowsInv, NEW c \in order_cuts(AllFrom, AllTo)
      PROVE  /\ \A s \in c.segments :
                  /\ TicksOf(s) \cap StoppedTicks(Cut(c.order)) = {}
                  /\ s.user \in Staff
                  /\ begun[Cut(c.order)] # Never
                       /\ (\A e \in Timeline(c.order) : begun[Cut(c.order)] <= e.at)
                       => s.start >= begun[Cut(c.order)]
             /\ \A s, q \in c.segments : s # q => TicksOf(s) \cap TicksOf(q) = {}
    BY DEF MinutesAreWork
  <2> PICK o \in Orders : c.order = o
    BY CutsFact
  <2>1. PICK open : c.segments = cut_segments(Timeline(o), open)
    BY CutsFact
  <2>2. Cut(o) \in Acts
    BY ActsFact
  <2>3. ASSUME NEW s \in c.segments
        PROVE  /\ TicksOf(s) \cap StoppedTicks(Cut(o)) = {}
               /\ s.user \in Staff
               /\ begun[Cut(o)] # Never /\ (\A e \in Timeline(o) : begun[Cut(o)] <= e.at)
                    => s.start >= begun[Cut(o)]
    <3>1. MarkTimes(o) # {}
      BY <2>1, SegmentsFact
    <3>2. PICK x \in Stretches(o) :
              /\ s.start \in Int /\ s.end \in Int /\ s.user \in Staff
              /\ x[1].at <= s.start /\ s.end <= x[2].at
      BY <2>1, SegmentFact
    <3>3. /\ x[1].at \in Nat /\ x[2].at \in Nat /\ x[1] \in Timeline(o)
          /\ \A z \in stops[Cut(o)] : (z.to # Never /\ z.to <= x[1].at) \/ x[2].at <= z.from
      BY <3>1, StretchFact
    <3>4. ASSUME NEW z \in stops[Cut(o)], NEW t \in TicksOf(s),
                 t \in interval(z)[1] .. interval(z)[2] - 1
          PROVE  FALSE
      <4>1. t \in Int /\ s.start <= t /\ t < s.end
        BY <3>2 DEF TicksOf
      <4>2. z.from \in Nat /\ z.to \in Nat /\ clock \in Nat
        BY <2>2, ShopReportsAssumption DEF RowsInv, ColumnsTyped, StopsAgree, IsPause, SoFar, Never
      <4>3. z.from <= t /\ (z.to # Never => t < z.to)
        <5>1. /\ interval(z)[1] = z.from
              /\ interval(z)[2] = IF z.to = Never THEN clock ELSE z.to
          BY DEF interval
        <5>2. z.from <= t
          BY <3>4, <4>1, <4>2, <5>1
        <5>3. ASSUME z.to # Never PROVE t < z.to
          <6>1. t \in z.from .. z.to - 1
            BY <3>4, <5>1, <5>3
          <6>2. QED
            BY <4>1, <4>2, <6>1
        <5>4. QED
          BY <5>2, <5>3
      <4>4. QED
        BY <3>2, <3>3, <4>1, <4>2, <4>3
    <3>5. TicksOf(s) \cap StoppedTicks(Cut(o)) = {}
      BY <3>4 DEF StoppedTicks
    <3>6. ASSUME begun[Cut(o)] # Never, \A e \in Timeline(o) : begun[Cut(o)] <= e.at
          PROVE  s.start >= begun[Cut(o)]
      <4>1. begun[Cut(o)] \in SoFar
        BY <2>2 DEF RowsInv, ColumnsTyped
      <4>2. begun[Cut(o)] \in Nat
        BY <3>6, <4>1, ShopReportsAssumption DEF SoFar
      <4>3. begun[Cut(o)] <= x[1].at
        BY <3>3, <3>6
      <4>4. QED
        BY <3>2, <3>3, <4>2, <4>3
    <3>7. QED
      BY <3>2, <3>5, <3>6
  <2>4. ASSUME NEW s \in c.segments, NEW q \in c.segments, s # q
        PROVE  TicksOf(s) \cap TicksOf(q) = {}
    <3>1. s.end <= q.start \/ q.end <= s.start
      BY <2>1, <2>4, SegmentsApart
    <3>2. s.start \in Int /\ s.end \in Int /\ q.start \in Int /\ q.end \in Int
      BY <2>1, SegmentFact
    <3>3. QED
      BY <3>1, <3>2 DEF TicksOf
  <2>5. QED
    BY <2>1, <2>3, <2>4
<1>2. QED
  BY <1>1, RowsSafe, PTL

DayTicksOf(day) == From(day) .. To(day) - 1

\* What is left of some intervals in a day of the range: their ticks of the day.
LEMMA OnDayFact ==
    ASSUME NEW I \in SUBSET (Int \X Int), IsFiniteSet(I), NEW day \in Int,
           NEW from \in Int, NEW to \in Int, from <= From(day), To(day) <= to
    PROVE  /\ OnDay(I, day, from, to) \in SUBSET (Int \X Int)
           /\ IsFiniteSet(OnDay(I, day, from, to))
           /\ Covered(OnDay(I, day, from, to)) = Covered(I) \cap DayTicksOf(day)
<1>1. PICK a \in Int, b \in Int : a = From(day) /\ b = To(day)
  BY WorkClockAssumption DEF From, To
<1>2. Later(from, day * DayTicks) = a /\ Sooner(to, (day + 1) * DayTicks) = b
  BY <1>1 DEF From, To, Later, Sooner
<1>3. PICK J : J = {j \in I : Later(j[1], a) < Sooner(j[2], b)}
  OBVIOUS
<1>4. PICK clip : clip = [j \in J |-> <<Later(j[1], a), Sooner(j[2], b)>>]
  OBVIOUS
<1>5. OnDay(I, day, from, to) = {clip[j] : j \in J}
  BY <1>2, <1>3, <1>4 DEF OnDay
<1>6. ASSUME NEW j \in J
      PROVE  /\ j \in I /\ j[1] \in Int /\ j[2] \in Int /\ clip[j] \in Int \X Int
             /\ clip[j][1] = Later(j[1], a) /\ clip[j][2] = Sooner(j[2], b)
  <2>1. j \in I /\ j[1] \in Int /\ j[2] \in Int
    BY <1>3
  <2>2. PICK x \in Int, y \in Int : x = Later(j[1], a) /\ y = Sooner(j[2], b)
    BY <1>1, <2>1 DEF Later, Sooner
  <2>3. clip[j] = <<x, y>>
    BY <1>4, <2>2
  <2>4. QED
    BY <2>1, <2>2, <2>3
<1>7. IsFiniteSet({clip[j] : j \in J})
  <2>1. IsFiniteSet(J)
    BY <1>3, FS_Subset
  <2>2. QED
    BY <2>1, ImageIsFinite
<1>8. ASSUME NEW t \in Covered(OnDay(I, day, from, to))
      PROVE  t \in Covered(I) \cap DayTicksOf(day)
  <2>1. PICK j \in J : t \in clip[j][1] .. clip[j][2] - 1
    BY <1>5 DEF Covered, Covers
  <2>2. /\ j[1] \in Int /\ j[2] \in Int /\ t \in Int
        /\ Later(j[1], a) <= t /\ t < Sooner(j[2], b)
    BY <1>1, <1>6, <2>1 DEF Later, Sooner
  <2>3. j[1] <= t /\ a <= t /\ t < j[2] /\ t < b
    BY <1>1, <2>2 DEF Later, Sooner
  <2>4. j \in I
    BY <1>6
  <2>5. t \in Covers(j) /\ t \in DayTicksOf(day)
    BY <1>1, <2>2, <2>3 DEF Covers, DayTicksOf
  <2>6. QED
    BY <2>4, <2>5 DEF Covered
<1>9. ASSUME NEW t \in Covered(I) \cap DayTicksOf(day)
      PROVE  t \in Covered(OnDay(I, day, from, to))
  <2>1. PICK j \in I : t \in Covers(j)
    BY DEF Covered
  <2>2. j[1] \in Int /\ j[2] \in Int /\ t \in Int /\ j[1] <= t /\ t < j[2] /\ a <= t /\ t < b
    BY <1>1, <2>1 DEF Covers, DayTicksOf
  <2>3. /\ Later(j[1], a) <= t /\ t < Sooner(j[2], b)
        /\ Later(j[1], a) \in Int /\ Sooner(j[2], b) \in Int
    BY <1>1, <2>2 DEF Later, Sooner
  <2>4. j \in J
    BY <1>3, <2>2, <2>3
  <2>5. t \in Covers(clip[j])
    BY <1>6, <2>2, <2>3, <2>4 DEF Covers
  <2>6. QED
    BY <1>5, <2>4, <2>5 DEF Covered
<1>10. QED
  BY <1>5, <1>6, <1>7, <1>8, <1>9

Minutes(S) == UNION {TicksOf(s) : s \in S}
Sawn(S) == {s \in S : s.phase \in {"sawing"}}

\* A day is charged the minutes of its segments, and what is not sawing is loading.
DayCounted(S, day, from, to) ==
    LET all == Minutes(S) \cap DayTicksOf(day)
        sawn == Minutes(Sawn(S)) \cap DayTicksOf(day)
    IN  /\ IsFiniteSet(all)
        /\ DayWork(work_by_day(S, day, from, to)) = Cardinality(all)
        /\ work_by_day(S, day, from, to)
             = [loading |-> Cardinality(all) - Cardinality(sawn), sawing |-> Cardinality(sawn)]

\* A day's work is the minutes of the day that some segment holds, and its sawing those
\* that one of sawing does.
LEMMA DayWorkFact ==
    ASSUME NEW S, IsFiniteSet(S),
           \A s \in S : s.start \in Int /\ s.end \in Int /\ s.phase \in {"loading", "sawing"},
           NEW day \in Int, NEW from \in Int, NEW to \in Int, from <= From(day), To(day) <= to
    PROVE  DayCounted(S, day, from, to)
<1>1. PICK both : both = {s \in S : s.phase \in {"loading", "sawing"}}
  OBVIOUS
<1>2. PICK sawn : sawn = {s \in S : s.phase \in {"sawing"}} /\ sawn = Sawn(S)
  BY DEF Sawn
<1>3. both = S /\ sawn \subseteq S
  BY <1>1, <1>2
<1>4. ASSUME NEW R \in SUBSET S
      PROVE  /\ IsFiniteSet(Minutes(R) \cap DayTicksOf(day))
             /\ UnionTicks(OnDay({<<s.start, s.end>> : s \in R}, day, from, to))
                  = Cardinality(Minutes(R) \cap DayTicksOf(day))
  <2>1. PICK span : span = [s \in R |-> <<s.start, s.end>>]
    OBVIOUS
  <2>2. PICK I : I = {span[s] : s \in R} /\ I = {<<s.start, s.end>> : s \in R}
    BY <2>1
  <2>3. IsFiniteSet(I)
    <3>1. IsFiniteSet(R)
      BY FS_Subset
    <3>2. QED
      BY <2>2, <3>1, ImageIsFinite
  <2>4. I \in SUBSET (Int \X Int)
    BY <2>2
  <2>5. Covered(I) = Minutes(R)
    <3>1. \A s \in R : Covers(span[s]) = TicksOf(s)
      BY <2>1 DEF Covers, TicksOf
    <3>2. QED
      BY <2>2, <3>1 DEF Covered, Minutes
  <2>6. /\ OnDay(I, day, from, to) \in SUBSET (Int \X Int)
        /\ IsFiniteSet(OnDay(I, day, from, to))
        /\ Covered(OnDay(I, day, from, to)) = Minutes(R) \cap DayTicksOf(day)
    BY <2>3, <2>4, <2>5, OnDayFact
  <2>7. QED
    BY <2>2, <2>6, UnionCountsOnce
<1>5. PICK all : all = UnionTicks(OnDay({<<s.start, s.end>> : s \in both}, day, from, to))
  OBVIOUS
<1>6. PICK saw : saw = UnionTicks(OnDay({<<s.start, s.end>> : s \in sawn}, day, from, to))
  OBVIOUS
<1>7. /\ all \in Int /\ all = Cardinality(Minutes(S) \cap DayTicksOf(day))
      /\ saw \in Int /\ saw = Cardinality(Minutes(Sawn(S)) \cap DayTicksOf(day))
  <2>1. both \in SUBSET S /\ sawn \in SUBSET S
    BY <1>3
  <2>2. /\ IsFiniteSet(Minutes(both) \cap DayTicksOf(day))
        /\ all = Cardinality(Minutes(both) \cap DayTicksOf(day))
    BY <1>4, <1>5, <2>1
  <2>3. /\ IsFiniteSet(Minutes(sawn) \cap DayTicksOf(day))
        /\ saw = Cardinality(Minutes(sawn) \cap DayTicksOf(day))
    BY <1>4, <1>6, <2>1
  <2>4. all \in Int /\ saw \in Int
    BY <2>2, <2>3, FS_CardinalityType
  <2>5. QED
    BY <1>2, <1>3, <2>2, <2>3, <2>4
<1>8. work_by_day(S, day, from, to) = [loading |-> all - saw, sawing |-> saw]
  <2>1. PICK I, J :
           /\ I = {<<s.start, s.end>> : s \in {q \in S : q.phase \in {"loading", "sawing"}}}
           /\ J = {<<s.start, s.end>> : s \in {q \in S : q.phase \in {"sawing"}}}
    OBVIOUS
  <2>2. I = {<<s.start, s.end>> : s \in both} /\ J = {<<s.start, s.end>> : s \in sawn}
    BY <1>1, <1>2, <2>1
  <2>3. all = UnionTicks(OnDay(I, day, from, to)) /\ saw = UnionTicks(OnDay(J, day, from, to))
    BY <1>5, <1>6, <2>2
  <2>4. QED
    BY <2>1, <2>3 DEF work_by_day
<1>9. DayWork(work_by_day(S, day, from, to)) = all
  <2>1. /\ work_by_day(S, day, from, to).loading = all - saw
        /\ work_by_day(S, day, from, to).sawing = saw
    BY <1>8
  <2>2. QED
    BY <1>7, <2>1 DEF DayWork
<1>10. work_by_day(S, day, from, to)
         = [loading |-> Cardinality(Minutes(S) \cap DayTicksOf(day))
                          - Cardinality(Minutes(Sawn(S)) \cap DayTicksOf(day)),
            sawing |-> Cardinality(Minutes(Sawn(S)) \cap DayTicksOf(day))]
  BY <1>7, <1>8
<1>11. IsFiniteSet(Minutes(S) \cap DayTicksOf(day))
  BY <1>3, <1>4
<1>12. QED
  BY <1>7, <1>9, <1>10, <1>11 DEF DayCounted

\* The segments of a range: finitely many, each somebody's.
LEMMA AllSegmentsFact ==
    ASSUME RowsInv, NEW from, NEW to
    PROVE  /\ IsFiniteSet(Segments(order_cuts(from, to)))
           /\ \A s \in Segments(order_cuts(from, to)) :
                 s.start \in Int /\ s.end \in Int /\ s.user \in Staff /\ s.phase \in {"loading", "sawing"}
<1>1. PICK of : of = [o \in BeingCut(from, to) |-> cut_segments(Timeline(o), OpenFor(from, to))]
  OBVIOUS
<1>2. BeingCut(from, to) \subseteq Orders
  BY DEF BeingCut
<1>3. Segments(order_cuts(from, to)) = UNION {of[o] : o \in BeingCut(from, to)}
  <2>1. PICK row : row = [o \in BeingCut(from, to) |->
                             [order |-> o, segments |-> cut_segments(Timeline(o), OpenFor(from, to))]]
    OBVIOUS
  <2>2. order_cuts(from, to) = {row[o] : o \in BeingCut(from, to)}
    BY <2>1 DEF order_cuts
  <2>3. \A o \in BeingCut(from, to) : row[o].segments = of[o]
    BY <1>1, <2>1
  <2>4. QED
    BY <2>2, <2>3 DEF Segments
<1>4. IsFiniteSet({of[o] : o \in BeingCut(from, to)})
  <2>1. IsFiniteSet(BeingCut(from, to))
    BY <1>2, ShopReportsAssumption, FS_Subset
  <2>2. QED
    BY <2>1, ImageIsFinite
<1>5. \A o \in BeingCut(from, to) : IsFiniteSet(of[o])
  BY <1>1, <1>2, SegmentsFact
<1>6. IsFiniteSet(Segments(order_cuts(from, to)))
  BY <1>3, <1>4, <1>5, FS_UNION
<1>7. ASSUME NEW s \in Segments(order_cuts(from, to))
      PROVE  s.start \in Int /\ s.end \in Int /\ s.user \in Staff /\ s.phase \in {"loading", "sawing"}
  <2>1. PICK o \in BeingCut(from, to) : s \in of[o]
    BY <1>3
  <2>2. o \in Orders /\ s \in cut_segments(Timeline(o), OpenFor(from, to))
    BY <1>1, <1>2, <2>1
  <2>3. QED
    BY <2>2, SegmentFact
<1>8. QED
  BY <1>6, <1>7

\* The range of every day holds each of them.
LEMMA RangeOfDay ==
    ASSUME NEW day \in Days
    PROVE  /\ day \in Nat /\ AllFrom \in Int /\ AllTo \in Int /\ From(day) \in Nat /\ To(day) \in Nat
           /\ AllFrom <= From(day) /\ From(day) < To(day) /\ To(day) <= AllTo
<1>1. DayTicks \in Nat \ {0} /\ Days \subseteq Nat /\ IsFiniteSet(Days)
  BY WorkClockAssumption, DaysHoldAll
<1>2. Days \in SUBSET Int /\ Days # {}
  BY <1>1
<1>3. PICK low \in Days : low = Min(Days) /\ low <= day
  BY <1>1, <1>2, LeastIsThere
<1>4. PICK top \in Days : top = Max(Days) /\ day <= top
  BY <1>1, <1>2, GreatestIsThere
<1>5. low \in Nat /\ day \in Nat /\ top \in Nat
  BY <1>1
<1>6. low * DayTicks <= day * DayTicks /\ (day + 1) * DayTicks <= (top + 1) * DayTicks
  BY <1>1, <1>3, <1>4, <1>5
<1>7. day * DayTicks \in Nat /\ (day + 1) * DayTicks = day * DayTicks + DayTicks
  BY <1>1, <1>5
<1>8. low * DayTicks \in Nat /\ (top + 1) * DayTicks \in Nat
  BY <1>1, <1>5
<1>9. QED
  BY <1>1, <1>3, <1>4, <1>5, <1>6, <1>7, <1>8 DEF AllFrom, AllTo, From, To

\* Of ReportsAgree, OneSaw: a day's work is the minutes of it that some order was being cut
\* in, each once, so never more than the day has; no operator has more of them than
\* the saw, and together the operators have them all.
THEOREM TheSawIsOne ==
    ReportsSpec => [](\A day \in Days : OneSaw(order_cuts(AllFrom, AllTo), day))
<1>1. RowsInv => \A day \in Days : OneSaw(order_cuts(AllFrom, AllTo), day)
  <2> SUFFICES ASSUME RowsInv, NEW day \in Days PROVE OneSaw(order_cuts(AllFrom, AllTo), day)
    OBVIOUS
  <2>1. PICK cuts : cuts = order_cuts(AllFrom, AllTo)
    OBVIOUS
  <2>2. PICK S : S = Segments(cuts)
    OBVIOUS
  <2>3. /\ IsFiniteSet(S)
        /\ \A s \in S : /\ s.start \in Int /\ s.end \in Int /\ s.user \in Staff
                        /\ s.phase \in {"loading", "sawing"}
    BY <2>1, <2>2, AllSegmentsFact
  <2>4. /\ day \in Int /\ AllFrom \in Int /\ AllTo \in Int
        /\ AllFrom <= From(day) /\ To(day) <= AllTo
    BY RangeOfDay
  <2>5. ASSUME NEW R \in SUBSET S
        PROVE  /\ IsFiniteSet(Minutes(R) \cap DayTicksOf(day))
               /\ DayWork(work_by_day(R, day, AllFrom, AllTo)) = Cardinality(Minutes(R) \cap DayTicksOf(day))
    <3>1. IsFiniteSet(R)
      BY <2>3, FS_Subset
    <3>2. \A s \in R : s.start \in Int /\ s.end \in Int /\ s.phase \in {"loading", "sawing"}
      BY <2>3
    <3>3. DayCounted(R, day, AllFrom, AllTo)
      BY <2>4, <3>1, <3>2, DayWorkFact
    <3>4. QED
      BY <3>3 DEF DayCounted
  <2>6. PICK M : M = Minutes(S) \cap DayTicksOf(day)
    OBVIOUS
  <2>7. PICK whole : whole = DayWork(BranchDay(cuts, day, AllFrom, AllTo))
    OBVIOUS
  <2>8. IsFiniteSet(M) /\ whole = Cardinality(M)
    BY <2>2, <2>5, <2>6, <2>7 DEF BranchDay
  <2>9. PICK staff : staff = [u \in Staff |-> DayWork(OperatorDay(cuts, u, day, AllFrom, AllTo))]
    OBVIOUS
  <2>10. PICK own : own = [u \in Staff |-> Minutes(OfUser(S, u)) \cap DayTicksOf(day)]
    OBVIOUS
  <2>11. ASSUME NEW u \in Staff
         PROVE  /\ own[u] \subseteq M /\ IsFiniteSet(own[u]) /\ staff[u] = Cardinality(own[u])
                /\ staff[u] \in Nat /\ staff[u] <= whole
    <3>1. OfUser(S, u) \in SUBSET S
      BY DEF OfUser
    <3>2. own[u] \subseteq M
      BY <2>6, <2>10, <3>1 DEF Minutes
    <3>3. IsFiniteSet(own[u]) /\ Cardinality(own[u]) <= Cardinality(M)
      BY <2>8, <3>2, FS_Subset
    <3>4. staff[u] = Cardinality(own[u])
      BY <2>2, <2>5, <2>9, <2>10, <3>1 DEF OperatorDay
    <3>5. QED
      BY <2>8, <3>2, <3>3, <3>4, FS_CardinalityType
  <2>12. PICK who : who = [t \in M |-> CHOOSE u \in Staff : t \in own[u]]
    OBVIOUS
  <2>13. ASSUME NEW t \in M
         PROVE  who[t] \in Staff /\ t \in own[who[t]]
    <3>1. PICK s \in S : t \in TicksOf(s) /\ t \in DayTicksOf(day)
      BY <2>6 DEF Minutes
    <3>2. s.user \in Staff /\ t \in own[s.user]
      BY <2>3, <2>10, <3>1 DEF OfUser, Minutes
    <3>3. QED
      BY <2>12, <3>2
  <2>14. PICK ones : ones = [t \in M |-> 1]
    OBVIOUS
  <2>15. PICK each : each = [u \in Staff |-> Total(ones, Part(M, who, u))]
    OBVIOUS
  <2>16. ASSUME NEW u \in Staff
         PROVE  each[u] \in Int /\ each[u] <= staff[u] /\ staff[u] \in Int
    <3>1. Part(M, who, u) \subseteq own[u]
      BY <2>13 DEF Part
    <3>2. IsFiniteSet(Part(M, who, u)) /\ Cardinality(Part(M, who, u)) <= Cardinality(own[u])
      BY <2>11, <3>1, FS_Subset
    <3>3. \A t \in Part(M, who, u) : ones[t] = 1
      BY <2>14 DEF Part
    <3>4. each[u] = Cardinality(Part(M, who, u))
      BY <2>15, <3>2, <3>3, TotalOfOnes
    <3>5. QED
      BY <2>11, <3>2, <3>4, FS_CardinalityType
  <2>17. IsFiniteSet(Staff)
    BY ShopReportsAssumption
  <2>18. Total(each, Staff) = whole
    <3>1. \A t \in M : ones[t] \in Int /\ who[t] \in Staff
      BY <2>13, <2>14
    <3>2. \A u \in Staff : each[u] = Total(ones, Part(M, who, u))
      BY <2>15
    <3>3. Total(each, Staff) = Total(ones, M)
      BY <2>8, <2>17, <3>1, <3>2, TotalOfParts
    <3>4. Total(ones, M) = Cardinality(M)
      BY <2>8, <2>14, TotalOfOnes
    <3>5. QED
      BY <2>8, <3>3, <3>4
  <2>19. Total(each, Staff) <= Total(staff, Staff)
    BY <2>16, <2>17, TotalIsMonotone
  <2>20. M = Minutes(Segments(cuts)) \cap (From(day) .. To(day) - 1)
    BY <2>2, <2>6 DEF DayTicksOf
  <2>21. OneSaw(cuts, day)
    <3>1. whole = Cardinality(Minutes(Segments(cuts)) \cap (From(day) .. To(day) - 1))
      BY <2>8, <2>20
    <3>2. (\A u \in Staff : staff[u] <= whole) /\ whole <= Total(staff, Staff)
      BY <2>11, <2>18, <2>19
    <3>3. QED
      BY <2>7, <2>9, <3>1, <3>2 DEF OneSaw, Minutes
  <2>22. QED
    BY <2>1, <2>21
<1>2. QED
  BY <1>1, RowsSafe, PTL

\* The date goes with the instant.
LEMMA DateFact ==
    ASSUME NEW t \in Int, NEW day \in Int
    PROVE  local_date(t) \in Int /\ (From(day) <= t <=> day <= local_date(t))
<1>1. DayTicks \in Nat \ {0}
  BY WorkClockAssumption
<1>2. PICK e \in Int : e = t \div DayTicks /\ e * DayTicks <= t /\ t < (e + 1) * DayTicks
  BY <1>1
<1>3. ASSUME day <= e PROVE day * DayTicks <= t
  <2>1. day * DayTicks <= e * DayTicks
    BY <1>1, <1>2, <1>3
  <2>2. day * DayTicks \in Int /\ e * DayTicks \in Int
    BY <1>1, <1>2
  <2>3. QED
    BY <1>2, <2>1, <2>2
<1>4. ASSUME ~(day <= e) PROVE ~(day * DayTicks <= t)
  <2>1. (e + 1) * DayTicks <= day * DayTicks
    BY <1>1, <1>2, <1>4
  <2>2. day * DayTicks \in Int /\ (e + 1) * DayTicks \in Int
    BY <1>1, <1>2
  <2>3. QED
    BY <1>2, <2>1, <2>2
<1>5. QED
  BY <1>2, <1>3, <1>4 DEF local_date, From

\* A window is of a day that is open, and of any other set of open days with it.
LEMMA WindowOfADay ==
    ASSUME NEW start \in Int, NEW end \in Int, NEW open, NEW v \in windows(start, end, open)
    PROVE  \E d \in open :
              /\ d \in Int /\ From(d) <= v[1] /\ v[1] < v[2] /\ v[2] <= To(d)
              /\ v[1] \in Int /\ v[2] \in Int /\ From(d) \in Int /\ To(d) \in Int
              /\ \A other : d \in other => v \in windows(start, end, other)
<1>1. DayTicks \in Nat \ {0} /\ Cardinality(DOMAIN Week) \in Nat \ {0}
  BY WorkClockAssumption
<1>2. PICK d \in (local_date(start) - 1 .. local_date(end) + 1) \cap open :
         v \in {<<d * DayTicks + w[1], d * DayTicks + w[2]>> :
                   w \in Week[1 + (d % Cardinality(DOMAIN Week))]}
  BY DEF windows
<1>3. PICK w \in Week[1 + (d % Cardinality(DOMAIN Week))] :
         v = <<d * DayTicks + w[1], d * DayTicks + w[2]>>
  BY <1>2
<1>4. d \in Int
  BY <1>1, DateFact
<1>5. w[1] \in 0..DayTicks - 1 /\ w[2] \in 1..DayTicks /\ w[1] < w[2]
  <2>1. d % Cardinality(DOMAIN Week) \in 0..Cardinality(DOMAIN Week) - 1
    BY <1>1, <1>4
  <2>2. PICK k \in DOMAIN Week : k = 1 + (d % Cardinality(DOMAIN Week))
    BY <2>1, WorkClockAssumption
  <2>3. w \in Week[k] /\ Week[k] \subseteq (0..DayTicks - 1) \X (1..DayTicks)
    BY <2>2, WorkClockAssumption
  <2>4. QED
    BY <2>2, <2>3, WorkClockAssumption
<1>6. PICK m \in Int : m = d * DayTicks
  BY <1>1, <1>4
<1>7. From(d) = m /\ To(d) = m + DayTicks
  BY <1>1, <1>4, <1>6 DEF From, To
<1>8. v[1] = m + w[1] /\ v[2] = m + w[2]
  BY <1>3, <1>6
<1>9. ASSUME NEW other, d \in other
      PROVE  v \in windows(start, end, other)
  <2>1. d \in (local_date(start) - 1 .. local_date(end) + 1) \cap other
    BY <1>9
  <2>2. QED
    BY <1>2, <2>1 DEF windows
<1>10. /\ From(d) <= v[1] /\ v[1] < v[2] /\ v[2] <= To(d)
       /\ v[1] \in Int /\ v[2] \in Int /\ From(d) \in Int /\ To(d) \in Int
  BY <1>1, <1>5, <1>6, <1>7, <1>8
<1>11. QED
  BY <1>4, <1>9, <1>10

\* Of the days open, a stretch asks for those it reaches into.
LEMMA OverlapAlike ==
    ASSUME NEW start \in Int, NEW end \in Int, NEW open, NEW other,
           \A d \in Int : From(d) < end /\ start < To(d) => (d \in open <=> d \in other)
    PROVE  overlap(start, end, open) = overlap(start, end, other)
<1> DEFINE Near(days) == {v \in windows(start, end, days) : v[2] > start /\ v[1] < end}
<1>1. ASSUME NEW days, NEW rest, NEW v \in Near(days),
             \A d \in Int : From(d) < end /\ start < To(d) /\ d \in days => d \in rest
      PROVE  v \in Near(rest)
  <2>1. v \in windows(start, end, days) /\ v[2] > start /\ v[1] < end
    OBVIOUS
  <2>2. PICK d \in days :
              /\ d \in Int /\ From(d) <= v[1] /\ v[1] < v[2] /\ v[2] <= To(d)
              /\ v[1] \in Int /\ v[2] \in Int /\ From(d) \in Int /\ To(d) \in Int
              /\ \A set : d \in set => v \in windows(start, end, set)
    BY <2>1, WindowOfADay
  <2>3. From(d) < end /\ start < To(d)
    BY <2>1, <2>2
  <2>4. d \in rest
    BY <1>1, <2>2, <2>3
  <2>5. QED
    BY <2>1, <2>2, <2>4
<1>2. Near(open) = Near(other)
  BY <1>1
<1>3. PICK near : near = Near(open)
  OBVIOUS
<1>4. /\ overlap(start, end, open) = {<<Later(start, w[1]), Sooner(end, w[2])>> : w \in near}
      /\ overlap(start, end, other) = {<<Later(start, w[1]), Sooner(end, w[2])>> : w \in near}
  BY <1>2, <1>3 DEF overlap
<1>5. QED
  BY <1>4

\* The same for what counts as work of it.
LEMMA WorkedAlike ==
    ASSUME NEW start \in Int, NEW end \in Int, NEW open, NEW other,
           \A d \in Int : From(d) <= end /\ start < To(d) => (d \in open <=> d \in other)
    PROVE  worked(start, end, open) = worked(start, end, other)
<1>1. CASE end <= start
  BY <1>1 DEF worked
<1>2. CASE ~(end <= start)
  <2>1. overlap(start, end, open) = overlap(start, end, other)
    <3>1. \A d \in Int : From(d) \in Int
      BY WorkClockAssumption DEF From
    <3>2. \A d \in Int : From(d) < end /\ start < To(d) => (d \in open <=> d \in other)
      BY <3>1
    <3>3. QED
      BY <3>2, OverlapAlike
  <2>2. ASSUME NEW days, NEW rest,
               \A d \in Int : From(d) <= end /\ start < To(d) /\ d \in days => d \in rest,
               NEW v \in windows(start, end, days), v[1] <= end, end < v[2]
        PROVE  v \in windows(start, end, rest)
    <3>1. PICK d \in days :
              /\ d \in Int /\ From(d) <= v[1] /\ v[1] < v[2] /\ v[2] <= To(d)
              /\ v[1] \in Int /\ v[2] \in Int /\ From(d) \in Int /\ To(d) \in Int
              /\ \A set : d \in set => v \in windows(start, end, set)
      BY WindowOfADay
    <3>2. From(d) <= end /\ start < To(d)
      BY <1>2, <2>2, <3>1
    <3>3. QED
      BY <2>2, <3>1, <3>2
  <2>3. (\E w \in windows(start, end, open) : w[1] <= end /\ end < w[2])
          <=> (\E w \in windows(start, end, other) : w[1] <= end /\ end < w[2])
    BY <2>2
  <2>4. PICK P : P = overlap(start, end, open)
    OBVIOUS
  <2>5. PICK last : last = CHOOSE p \in P : \A q \in P : q[2] <= p[2]
    OBVIOUS
  <2>6. CASE end - start <= Overtime
    BY <1>2, <2>6 DEF worked
  <2>7. CASE ~(end - start <= Overtime)
    <3>1. worked(start, end, open)
            = IF /\ P # {} /\ ~(\E w \in windows(start, end, open) : w[1] <= end /\ end < w[2])
                 /\ end - last[2] <= Overtime
              THEN (P \ {last}) \union {<<last[1], end>>}
              ELSE P
      BY <1>2, <2>4, <2>5, <2>7 DEF worked
    <3>2. worked(start, end, other)
            = IF /\ P # {} /\ ~(\E w \in windows(start, end, other) : w[1] <= end /\ end < w[2])
                 /\ end - last[2] <= Overtime
              THEN (P \ {last}) \union {<<last[1], end>>}
              ELSE P
      BY <1>2, <2>1, <2>4, <2>5, <2>7 DEF worked
    <3>3. QED
      BY <2>3, <3>1, <3>2
  <2>8. QED
    BY <2>6, <2>7
<1>3. QED
  BY <1>1, <1>2

\* A stretch within a day asks for that day only.
LEMMA OverlapInADay ==
    ASSUME NEW start \in Int, NEW end \in Int, NEW day \in Int,
           From(day) <= start, end <= To(day), NEW open, NEW other, day \in open, day \in other
    PROVE  overlap(start, end, open) = overlap(start, end, other)
<1>1. ASSUME NEW d \in Int, From(d) < end, start < To(d)
      PROVE  d = day
  <2>1. DayTicks \in Nat \ {0}
    BY WorkClockAssumption
  <2>2. d * DayTicks \in Int /\ day * DayTicks \in Int
    BY <2>1
  <2>3. d * DayTicks < day * DayTicks + DayTicks /\ day * DayTicks < d * DayTicks + DayTicks
    BY <1>1, <2>1, <2>2 DEF From, To
  <2>4. ~(d < day)
    <3> SUFFICES ASSUME d < day PROVE FALSE
      OBVIOUS
    <3>1. d * DayTicks + DayTicks <= day * DayTicks
      BY <2>1
    <3>2. QED
      BY <2>1, <2>2, <2>3, <3>1
  <2>5. ~(day < d)
    <3> SUFFICES ASSUME day < d PROVE FALSE
      OBVIOUS
    <3>1. day * DayTicks + DayTicks <= d * DayTicks
      BY <2>1
    <3>2. QED
      BY <2>1, <2>2, <2>3, <3>1
  <2>6. QED
    BY <2>4, <2>5
<1>2. QED
  BY <1>1, OverlapAlike

\* A pause as an interval: of two instants, the end of one in force being now.
LEMMA IntervalFact ==
    ASSUME RowsInv, NEW a \in Acts, NEW s \in stops[a]
    PROVE  /\ interval(s)[1] = s.from /\ interval(s)[2] = IF s.to = Never THEN clock ELSE s.to
           /\ s.from \in Nat /\ s.to \in Nat /\ clock \in Nat
<1>1. s.from \in Nat /\ s.to \in Nat /\ clock \in Nat
  BY ShopReportsAssumption DEF RowsInv, ColumnsTyped, StopsAgree, IsPause, SoFar, Never
<1>2. QED
  BY <1>1 DEF interval

\* The pauses of every cut, and how much of the day has passed.
CutPauses == {interval(s) : s \in UNION {stops[a] : a \in {b \in Acts : b[2] = "cutting"}}}
SoFarOf(day) == Sooner(clock, To(day))

\* What of the pauses of a range falls in a day of it.
LEMMA PausesOfTheDay ==
    ASSUME RowsInv, NEW day \in Int, From(day) \in Int, To(day) \in Int,
           NEW from \in Int, NEW to \in Int, from <= From(day), To(day) <= to
    PROVE  OnDay({interval(s) : s \in PausesIn("cutting", from, to)}, day, from, Sooner(to, clock))
             = {<<Later(i[1], From(day)), Sooner(i[2], SoFarOf(day))>> :
                   i \in {j \in CutPauses : Later(j[1], From(day)) < Sooner(j[2], SoFarOf(day))}}
<1> DEFINE P == CutPauses
           m == SoFarOf(day)
<1>0. P = {interval(s) : s \in UNION {stops[a] : a \in {b \in Acts : b[2] = "cutting"}}} /\ m = Sooner(clock, To(day))
  BY DEF CutPauses, SoFarOf
<1> HIDE DEF P, m
<1>1. clock \in Nat
  BY ShopReportsAssumption DEF RowsInv, ColumnsTyped
<1>2. Later(from, day * DayTicks) = From(day)
  BY DEF Later, From
<1>3. Sooner(Sooner(to, clock), (day + 1) * DayTicks) = m
  BY <1>0, <1>1 DEF Sooner, To
<1>4. PICK R : R = {interval(s) : s \in PausesIn("cutting", from, to)}
  OBVIOUS
<1>5. R \subseteq P
  BY <1>0, <1>4 DEF PausesIn
<1>6. ASSUME NEW j \in P, Later(j[1], From(day)) < Sooner(j[2], m)
      PROVE  j \in R
  <2>1. PICK a \in Acts : a[2] = "cutting" /\ \E s \in stops[a] : j = interval(s)
    BY <1>0
  <2>2. PICK s \in stops[a] : j = interval(s)
    BY <2>1
  <2>3. /\ j[1] = s.from /\ j[2] = IF s.to = Never THEN clock ELSE s.to
        /\ s.from \in Nat /\ s.to \in Nat
    BY <2>2, IntervalFact
  <2>4. m \in Int /\ m <= To(day)
    BY <1>0, <1>1 DEF Sooner
  <2>5. s.from < m /\ (s.to = Never \/ From(day) < s.to)
    BY <1>1, <1>6, <2>3, <2>4 DEF Later, Sooner
  <2>6. s.from < to /\ (s.to = Never \/ s.to >= from)
    BY <2>3, <2>4, <2>5
  <2>7. s \in PausesIn("cutting", from, to)
    BY <2>1, <2>6 DEF PausesIn
  <2>8. QED
    BY <1>4, <2>2, <2>7
<1>7. {j \in R : Later(j[1], From(day)) < Sooner(j[2], m)}
        = {j \in P : Later(j[1], From(day)) < Sooner(j[2], m)}
  BY <1>5, <1>6
<1>8. OnDay(R, day, from, Sooner(to, clock))
        = {<<Later(i[1], From(day)), Sooner(i[2], m)>> :
              i \in {j \in R : Later(j[1], From(day)) < Sooner(j[2], m)}}
  BY <1>2, <1>3 DEF OnDay
<1>9. QED
  BY <1>4, <1>7, <1>8 DEF P, m

\* Property PausesReadTheSame, of ReportsAgree: the paused time of a day is the same
\* whichever range it is asked in, though each range loads its own pauses and opens its
\* own days.
THEOREM PausesReadAlike == ReportsSpec => []PausesReadTheSame
<1>1. RowsInv => PausesReadTheSame
  <2> SUFFICES ASSUME RowsInv, NEW day \in Days
      PROVE  PausedDay(day, AllFrom, AllTo) = PausedDay(day, From(day), To(day))
    BY DEF PausesReadTheSame
  <2>1. /\ day \in Int /\ AllFrom \in Int /\ AllTo \in Int /\ From(day) \in Int /\ To(day) \in Int
        /\ AllFrom <= From(day) /\ From(day) < To(day) /\ To(day) <= AllTo
    BY RangeOfDay
  <2>2. clock \in Nat
    BY ShopReportsAssumption DEF RowsInv, ColumnsTyped
  <2>3. PICK m \in Int : m = SoFarOf(day) /\ m <= To(day) /\ m <= clock
    BY <2>1, <2>2 DEF Sooner, SoFarOf
  <2>4. PICK P : P = CutPauses
    OBVIOUS
  <2>5. PICK L : L = {j \in P : Later(j[1], From(day)) < Sooner(j[2], m)}
    OBVIOUS
  <2>6. PICK I : I = {<<Later(i[1], From(day)), Sooner(i[2], m)>> : i \in L}
    OBVIOUS
  <2>7. ASSUME NEW from \in Int, NEW to \in Int, from <= From(day), To(day) <= to
        PROVE  OnDay({interval(s) : s \in PausesIn("cutting", from, to)}, day, from, Sooner(to, clock)) = I
    <3>1. OnDay({interval(s) : s \in PausesIn("cutting", from, to)}, day, from, Sooner(to, clock))
            = {<<Later(i[1], From(day)), Sooner(i[2], m)>> :
                  i \in {j \in P : Later(j[1], From(day)) < Sooner(j[2], m)}}
      BY <2>1, <2>3, <2>4, <2>7, PausesOfTheDay
    <3>2. QED
      BY <2>5, <2>6, <3>1
  <2>8. ASSUME NEW i \in I
        PROVE  /\ i[1] \in Int /\ i[2] \in Int /\ i[1] < i[2]
               /\ From(day) <= i[1] /\ i[2] <= m
    <3>1. PICK j \in L : i = <<Later(j[1], From(day)), Sooner(j[2], m)>>
      BY <2>6
    <3>2. PICK a \in Acts : \E s \in stops[a] : j = interval(s)
      BY <2>4, <2>5 DEF CutPauses
    <3>3. j[1] \in Nat /\ j[2] \in Nat
      BY <3>2, IntervalFact
    <3>4. Later(j[1], From(day)) < Sooner(j[2], m)
      BY <2>5
    <3>5. QED
      BY <2>1, <3>1, <3>3, <3>4 DEF Later, Sooner
  <2>9. ASSUME NEW from \in Int, NEW to \in Int, from <= From(day), To(day) <= to, NEW i \in I
        PROVE  day \in local_date(from) - 1 .. local_date(Sooner(to, clock)) + 1
    <3>1. Sooner(to, clock) \in Int /\ From(day) <= Sooner(to, clock)
      BY <2>1, <2>2, <2>3, <2>8, <2>9 DEF Sooner
    <3>2. local_date(Sooner(to, clock)) \in Int /\ day <= local_date(Sooner(to, clock))
      BY <2>1, <3>1, DateFact
    <3>3. local_date(from) \in Int /\ local_date(from) <= day
      <4>1. From(day + 1) = To(day)
        BY DEF From, To
      <4>2. day + 1 \in Int /\ ~(From(day + 1) <= from)
        BY <2>1, <2>9, <4>1
      <4>3. local_date(from) \in Int /\ ~(day + 1 <= local_date(from))
        BY <4>2, DateFact
      <4>4. QED
        BY <2>1, <4>3
    <3>4. QED
      BY <2>1, <3>2, <3>3
  <2>10. PICK open, other :
            /\ open = local_date(AllFrom) - 1 .. local_date(Sooner(AllTo, clock)) + 1
            /\ other = local_date(From(day)) - 1 .. local_date(Sooner(To(day), clock)) + 1
    OBVIOUS
  <2>11. ASSUME NEW i \in I
         PROVE  overlap(i[1], i[2], open) = overlap(i[1], i[2], other)
    <3>1. day \in open /\ day \in other
      BY <2>1, <2>9, <2>10
    <3>2. /\ i[1] \in Int /\ i[2] \in Int /\ i[1] < i[2]
          /\ From(day) <= i[1] /\ i[2] <= To(day)
      BY <2>1, <2>3, <2>8
    <3>3. QED
      BY <2>1, <3>1, <3>2, OverlapInADay
  <2>12. UNION {overlap(i[1], i[2], open) : i \in I} = UNION {overlap(i[1], i[2], other) : i \in I}
    BY <2>11
  <2>13. PausedDay(day, AllFrom, AllTo) = UnionTicks(UNION {overlap(i[1], i[2], open) : i \in I})
    <3>1. OnDay({interval(s) : s \in PausesIn("cutting", AllFrom, AllTo)}, day, AllFrom, Sooner(AllTo, clock)) = I
      BY <2>1, <2>7
    <3>2. QED
      BY <2>10, <3>1 DEF PausedDay, paused_by_day
  <2>14. PausedDay(day, From(day), To(day)) = UnionTicks(UNION {overlap(i[1], i[2], other) : i \in I})
    <3>1. OnDay({interval(s) : s \in PausesIn("cutting", From(day), To(day))}, day, From(day), Sooner(To(day), clock)) = I
      BY <2>1, <2>7
    <3>2. QED
      BY <2>10, <3>1 DEF PausedDay, paused_by_day
  <2>15. QED
    BY <2>12, <2>13, <2>14
<1>2. QED
  BY <1>1, RowsSafe, PTL

-----------------------------------------------------------------------------
(* ShopReports: the bandings, which leave no marks *)

\* A banding's pauses lie between its start and its closing.
BandingSpan(a) ==
    /\ stage[a] = "pending" => begun[a] = Never /\ stops[a] = {}
    /\ stage[a] # "pending" => begun[a] # Never /\ \A s \in stops[a] : begun[a] < s.from
    /\ stage[a] # "done" => ended[a] = Never
    /\ stage[a] = "done" =>
          /\ ended[a] # Never /\ begun[a] < ended[a]
          /\ \A s \in stops[a] : s.to # Never /\ s.to < ended[a]

BandingInv == RowsInv /\ \A a \in Acts : a[2] = "banding" => BandingSpan(a)

\* No request takes a banding back: it begins, is paused and closes in order.
LEMMA BandingKeeps ==
    ASSUME BandingInv, [ReportsNext]_reportVars, NEW a \in Acts, a[2] = "banding"
    PROVE  BandingSpan(a)'
<1>1. BandingSpan(a) /\ ColumnsTyped /\ RowsInv
  BY DEF BandingInv, RowsInv
<1>2. ASSUME stage'[a] = stage[a], begun'[a] = begun[a], ended'[a] = ended[a], stops'[a] = stops[a]
      PROVE  BandingSpan(a)'
  BY <1>1, <1>2 DEF BandingSpan
<1>3. begun[a] \in SoFar /\ ended[a] \in SoFar
  BY <1>1 DEF ColumnsTyped
<1>4. ASSUME NEW b \in Acts, Start(b)
      PROVE  BandingSpan(a)'
  <2>1. CASE b # a
    BY <1>1, <1>2, <1>4, <2>1 DEF Start, ColumnsTyped
  <2>2. CASE b = a
    <3>1. /\ Passes /\ stage[a] = "pending" /\ stage'[a] = "in_progress"
          /\ begun'[a] = clock' /\ ended'[a] = ended[a] /\ stops'[a] = stops[a]
      BY <1>1, <1>4, <2>2 DEF Start, ColumnsTyped
    <3>2. clock' # Never
      BY <1>1, <3>1, PassesFact
    <3>3. stops[a] = {} /\ ended[a] = Never
      BY <1>1, <3>1 DEF BandingSpan
    <3>4. QED
      BY <3>1, <3>2, <3>3 DEF BandingSpan
  <2>3. QED
    BY <2>1, <2>2
<1>5. ASSUME NEW b \in Acts, Resume(b)
      PROVE  BandingSpan(a)'
  <2>1. CASE b # a
    BY <1>1, <1>2, <1>5, <2>1 DEF Resume, RowsInv, StopsAgree, pauseless
  <2>2. CASE b = a
    <3>1. /\ Passes /\ Stopped(a) /\ stops'[a] = Ended(a)
          /\ stage'[a] = stage[a] /\ begun'[a] = begun[a] /\ ended'[a] = ended[a]
      BY <1>1, <1>5, <2>2 DEF Resume, RowsInv, StopsAgree, pauseless
    <3>2. stage[a] = "in_progress"
      BY <1>1, <3>1 DEF RowsInv, StopsAgree
    <3>3. \A q \in Ended(a) : \E s \in stops[a] : q.from = s.from
      BY <1>1, <3>1, EndedFact
    <3>4. QED
      BY <1>1, <3>1, <3>2, <3>3 DEF BandingSpan
  <2>3. QED
    BY <2>1, <2>2
<1>6. ASSUME NEW b \in Acts, NEW u \in Staff, Pause(b, u)
      PROVE  BandingSpan(a)'
  <2>1. CASE b # a
    BY <1>1, <1>2, <1>6, <2>1 DEF Pause, RowsInv, StopsAgree, pauseless
  <2>2. CASE b = a
    <3>1. PICK s : s = [from |-> clock', to |-> Never, user |-> u]
      OBVIOUS
    <3>2. /\ Passes /\ stage[a] = "in_progress" /\ stops'[a] = stops[a] \union {s}
          /\ stage'[a] = stage[a] /\ begun'[a] = begun[a] /\ ended'[a] = ended[a]
      BY <1>1, <1>6, <2>2, <3>1 DEF Pause, RowsInv, StopsAgree, pauseless
    <3>3. begun[a] < clock'
      BY <1>1, <1>3, <3>2, PassesFact
    <3>4. s.from = clock'
      BY <3>1
    <3>5. QED
      BY <1>1, <3>2, <3>3, <3>4 DEF BandingSpan
  <2>3. QED
    BY <2>1, <2>2
<1>7. ASSUME NEW b \in Acts, NEW u \in Staff, Finish(b, u)
      PROVE  BandingSpan(a)'
  <2>1. CASE b # a
    BY <1>1, <1>2, <1>7, <2>1 DEF Finish, ColumnsTyped
  <2>2. CASE b = a
    <3>1. /\ Passes /\ stage[a] = "in_progress" /\ ~Stopped(a) /\ stage'[a] = "done"
          /\ ended'[a] = clock' /\ begun'[a] = begun[a] /\ stops'[a] = stops[a]
      BY <1>1, <1>7, <2>2 DEF Finish, ColumnsTyped
    <3>2. clock' # Never /\ \A t \in SoFar : t < clock'
      BY <1>1, <3>1, PassesFact
    <3>3. \A s \in stops[a] : s.to # Never /\ s.to \in SoFar
      BY <1>1, <3>1 DEF Stopped, RowsInv, StopsAgree, IsPause
    <3>4. QED
      BY <1>1, <1>3, <3>1, <3>2, <3>3 DEF BandingSpan
  <2>3. QED
    BY <2>1, <2>2
<1>8. ASSUME NEW p \in Slips, Unmark(p) \/ \E u \in Staff : Mark(p, u)
      PROVE  BandingSpan(a)'
  BY <1>2, <1>8 DEF Mark, Unmark, pauseless
<1>9. ASSUME NEW o \in Orders, SendBack(o)
      PROVE  BandingSpan(a)'
  <2>1. Cut(o) # a
    BY DEF Cut
  <2>2. QED
    BY <1>1, <1>2, <1>9, <2>1 DEF SendBack, ColumnsTyped, RowsInv, StopsAgree
<1>10. CASE UNCHANGED reportVars
  BY <1>2, <1>10 DEF reportVars
<1>11. QED
  BY <1>4, <1>5, <1>6, <1>7, <1>8, <1>9, <1>10 DEF ReportsNext, RowsNext

\* And so it is after every request.
LEMMA BandingSafe == ReportsSpec => []BandingInv
<1>1. ReportsInit /\ RowsInv => BandingInv
  BY DEF ReportsInit, RowsInit, BandingInv, BandingSpan
<1>2. BandingInv /\ RowsInv' /\ [ReportsNext]_reportVars => BandingInv'
  <2> SUFFICES ASSUME BandingInv, RowsInv', [ReportsNext]_reportVars PROVE BandingInv'
    OBVIOUS
  <2>1. \A a \in Acts : a[2] = "banding" => BandingSpan(a)'
    BY BandingKeeps
  <2>2. QED
    BY <2>1 DEF BandingInv
<1>3. QED
  BY <1>1, <1>2, RowsSafe, PTL DEF ReportsSpec

\* The events a closed banding's time is read from.
BenchEvents(a) ==
    {[at |-> begun[a], kind |-> "take"], [at |-> ended[a], kind |-> "mark"]}
    \union {[at |-> s.from, kind |-> "pause"] : s \in stops[a]}
    \union {[at |-> s.to, kind |-> "resume"] : s \in {q \in stops[a] : q.to # Never}}
BenchStretches(a) == WorkedStretches(BenchEvents(a))

\* What a column holds is a number, NULL included.
LEMMA SoFarFact == \A t \in SoFar : t \in Nat
BY ShopReportsAssumption DEF SoFar, Never

\* The pauses of a closed banding are over, apart and within it.
LEMMA BenchStops ==
    ASSUME BandingInv, NEW a \in Acts, a[2] = "banding", ended[a] # Never
    PROVE  /\ begun[a] \in Nat /\ ended[a] \in Nat /\ begun[a] < ended[a] /\ begun[a] # Never
           /\ \A s \in stops[a] :
                 /\ s.from \in Nat /\ s.to \in Nat /\ s.to # Never
                 /\ begun[a] < s.from /\ s.from < s.to /\ s.to < ended[a]
           /\ \A s, q \in stops[a] : s # q => s.to < q.from \/ q.to < s.from
<1>1. BandingSpan(a) /\ RowsInv
  BY DEF BandingInv
<1>2. begun[a] \in Nat /\ ended[a] \in Nat /\ stage[a] \in {"pending", "in_progress", "done"}
  <2>1. \A t \in SoFar : t \in Nat
    BY SoFarFact
  <2>2. begun[a] \in SoFar /\ ended[a] \in SoFar
    BY <1>1 DEF RowsInv, ColumnsTyped
  <2>3. stage[a] \in {"pending", "in_progress", "done"}
    BY <1>1 DEF RowsInv, ColumnsTyped
  <2>4. QED
    BY <2>1, <2>2, <2>3
<1>3. stage[a] = "done"
  BY <1>1 DEF BandingSpan
<1>4. ASSUME NEW s \in stops[a]
      PROVE  /\ s.from \in Nat /\ s.to \in Nat /\ s.to # Never
             /\ begun[a] < s.from /\ s.from < s.to /\ s.to < ended[a]
  <2>1. IsPause(s)
    BY <1>1 DEF RowsInv, StopsAgree
  <2>2. s.from \in Nat /\ s.to \in Nat
    BY <2>1, ShopReportsAssumption DEF IsPause, SoFar, Never
  <2>3. s.to # Never /\ s.to < ended[a] /\ begun[a] < s.from
    BY <1>1, <1>3 DEF BandingSpan
  <2>4. QED
    BY <2>1, <2>2, <2>3 DEF IsPause
<1>5. ASSUME NEW s \in stops[a], NEW q \in stops[a], s # q
      PROVE  s.to < q.from \/ q.to < s.from
  <2>1. Outside(s.from, q) /\ Outside(q.from, s)
    BY <1>1, <1>5 DEF RowsInv, StopsAgree
  <2>2. QED
    BY <1>4, <2>1 DEF Outside
<1>6. begun[a] < ended[a] /\ begun[a] # Never
  BY <1>1, <1>3 DEF BandingSpan
<1>7. QED
  BY <1>2, <1>4, <1>5, <1>6

\* Its events lie within it and out of its pauses.
LEMMA BenchFact ==
    ASSUME BandingInv, NEW a \in Acts, a[2] = "banding", ended[a] # Never
    PROVE  /\ IsFiniteSet(BenchEvents(a)) /\ IsFiniteSet(stops[a])
           /\ \A e \in BenchEvents(a) :
                 /\ e = [at |-> e.at, kind |-> e.kind]
                 /\ e.at \in Nat /\ begun[a] <= e.at /\ e.at <= ended[a]
                 /\ e.kind \in {"take", "mark", "pause", "resume"}
                 /\ \A s \in stops[a] : s.from < e.at => s.to <= e.at
           /\ \A s \in stops[a] : \E e \in BenchEvents(a) : e.at = s.from /\ e.kind = "pause"
<1>1. /\ begun[a] \in Nat /\ ended[a] \in Nat /\ begun[a] < ended[a]
      /\ \A s \in stops[a] :
            /\ s.from \in Nat /\ s.to \in Nat /\ s.to # Never
            /\ begun[a] < s.from /\ s.from < s.to /\ s.to < ended[a]
      /\ \A s, q \in stops[a] : s # q => s.to < q.from \/ q.to < s.from
  BY BenchStops
<1>2. IsFiniteSet(stops[a])
  BY FewStops DEF BandingInv
<1>3. PICK T, P, R :
        /\ T = {[at |-> begun[a], kind |-> "take"], [at |-> ended[a], kind |-> "mark"]}
        /\ P = {[at |-> s.from, kind |-> "pause"] : s \in stops[a]}
        /\ R = {[at |-> s.to, kind |-> "resume"] : s \in {q \in stops[a] : q.to # Never}}
  OBVIOUS
<1>4. BenchEvents(a) = T \union P \union R
  BY <1>3 DEF BenchEvents
<1>5. IsFiniteSet(BenchEvents(a))
  <2>1. PICK f : f = [s \in stops[a] |-> [at |-> s.from, kind |-> "pause"]]
    OBVIOUS
  <2>2. PICK S : S = {q \in stops[a] : q.to # Never}
    OBVIOUS
  <2>3. PICK g : g = [s \in S |-> [at |-> s.to, kind |-> "resume"]]
    OBVIOUS
  <2>4. IsFiniteSet(S)
    BY <1>2, <2>2, FS_Subset
  <2>5. P = {f[s] : s \in stops[a]} /\ R = {g[s] : s \in S}
    BY <1>3, <2>1, <2>2, <2>3
  <2>6. IsFiniteSet(P) /\ IsFiniteSet(R)
    BY <1>2, <2>4, <2>5, ImageIsFinite
  <2>7. IsFiniteSet(T)
    <3>1. /\ IsFiniteSet({[at |-> begun[a], kind |-> "take"]})
          /\ IsFiniteSet({[at |-> ended[a], kind |-> "mark"]})
      BY FS_Singleton
    <3>2. T = {[at |-> begun[a], kind |-> "take"]} \union {[at |-> ended[a], kind |-> "mark"]}
      BY <1>3
    <3>3. QED
      BY <3>1, <3>2, FS_Union
  <2>8. IsFiniteSet(T \union P)
    BY <2>6, <2>7, FS_Union
  <2>9. QED
    BY <1>4, <2>6, <2>8, FS_Union
<1>6. ASSUME NEW e \in BenchEvents(a)
      PROVE  /\ e = [at |-> e.at, kind |-> e.kind]
             /\ \/ e.kind = "take" /\ e.at = begun[a]
                \/ e.kind = "mark" /\ e.at = ended[a]
                \/ e.kind = "pause" /\ \E s \in stops[a] : e.at = s.from
                \/ e.kind = "resume" /\ \E s \in stops[a] : e.at = s.to
  <2>1. CASE e \in T
    BY <1>3, <2>1
  <2>2. CASE e \in P
    BY <1>3, <2>2
  <2>3. CASE e \in R
    BY <1>3, <2>3
  <2>4. QED
    BY <1>4, <2>1, <2>2, <2>3
<1>7. ASSUME NEW e \in BenchEvents(a)
      PROVE  /\ e.at \in Nat /\ begun[a] <= e.at /\ e.at <= ended[a]
             /\ e.kind \in {"take", "mark", "pause", "resume"}
             /\ \A s \in stops[a] : s.from < e.at => s.to <= e.at
  <2>1. CASE e.at = begun[a] \/ e.at = ended[a]
    BY <1>1, <1>6, <2>1
  <2>2. ASSUME NEW q \in stops[a], e.at = q.from \/ e.at = q.to
        PROVE  /\ e.at \in Nat /\ begun[a] <= e.at /\ e.at <= ended[a]
               /\ \A s \in stops[a] : s.from < e.at => s.to <= e.at
    <3>1. ASSUME NEW s \in stops[a], s.from < e.at
          PROVE  s.to <= e.at
      <4>1. CASE s = q
        BY <1>1, <2>2, <3>1, <4>1
      <4>2. CASE s # q
        <5>1. s.to < q.from \/ q.to < s.from
          BY <1>1, <4>2
        <5>2. QED
          BY <1>1, <2>2, <3>1, <5>1
      <4>3. QED
        BY <4>1, <4>2
    <3>2. QED
      BY <1>1, <2>2, <3>1
  <2>3. QED
    BY <1>6, <2>1, <2>2
<1>8. ASSUME NEW s \in stops[a]
      PROVE  \E e \in BenchEvents(a) : e.at = s.from /\ e.kind = "pause"
  <2>1. PICK e : e = [at |-> s.from, kind |-> "pause"]
    OBVIOUS
  <2>2. e \in BenchEvents(a) /\ e.at = s.from /\ e.kind = "pause"
    BY <1>3, <1>4, <2>1
  <2>3. QED
    BY <2>2
<1>9. QED
  BY <1>2, <1>5, <1>6, <1>7, <1>8

\* A stretch of it is out of every pause.
LEMMA BenchStretch ==
    ASSUME BandingInv, NEW a \in Acts, a[2] = "banding", ended[a] # Never,
           NEW x \in BenchStretches(a)
    PROVE  /\ x = <<x[1], x[2]>> /\ x[1] \in BenchEvents(a) /\ x[2] \in BenchEvents(a)
           /\ x[1].at \in Nat /\ x[2].at \in Nat /\ x[1].at <= x[2].at
           /\ begun[a] <= x[1].at /\ x[2].at <= ended[a]
           /\ Before(x[1], x[2])
           /\ ~ \E e \in BenchEvents(a) : Before(x[1], e) /\ Before(e, x[2])
           /\ \A s \in stops[a] : s.to <= x[1].at \/ x[2].at <= s.from
<1>1. /\ x \in BenchEvents(a) \X BenchEvents(a) /\ Before(x[1], x[2])
      /\ ~ \E e \in BenchEvents(a) : Before(x[1], e) /\ Before(e, x[2])
      /\ x[1].kind # "pause"
  BY DEF BenchStretches, WorkedStretches, Consecutive
<1>2. PICK e \in BenchEvents(a), f \in BenchEvents(a) : x = <<e, f>> /\ e = x[1] /\ f = x[2]
  BY <1>1
<1>3. /\ e.at \in Nat /\ f.at \in Nat /\ begun[a] <= e.at /\ f.at <= ended[a]
      /\ e.kind \in {"take", "mark", "pause", "resume"}
      /\ \A s \in stops[a] : s.from < e.at => s.to <= e.at
  BY <1>2, BenchFact
<1>4. e.at <= f.at
  BY <1>1, <1>2, <1>3 DEF Before
<1>5. ASSUME NEW s \in stops[a], ~(f.at <= s.from)
      PROVE  s.to <= e.at
  <2>1. PICK p \in BenchEvents(a) : p.at = s.from /\ p.kind = "pause"
    BY BenchFact
  <2>2. p.at \in Nat /\ p.at < f.at
    BY <1>3, <1>5, <2>1, BenchFact
  <2>3. Before(p, f)
    BY <2>2 DEF Before
  <2>4. ~Before(e, p)
    BY <1>1, <1>2, <2>1, <2>3
  <2>5. KindOrder(e.kind) < KindOrder(p.kind)
    BY <1>1, <1>2, <1>3, <2>1 DEF KindOrder
  <2>6. s.from < e.at
    BY <1>3, <2>1, <2>2, <2>4, <2>5 DEF Before
  <2>7. QED
    BY <1>3, <2>6
<1>6. QED
  BY <1>1, <1>2, <1>3, <1>4, <1>5

\* Two stretches of it share no minute.
LEMMA BenchApart ==
    ASSUME BandingInv, NEW a \in Acts, a[2] = "banding", ended[a] # Never,
           NEW x \in BenchStretches(a), NEW y \in BenchStretches(a), x # y
    PROVE  x[2].at <= y[1].at \/ y[2].at <= x[1].at
<1> SUFFICES ASSUME y[1].at < x[2].at, x[1].at < y[2].at PROVE FALSE
  BY BenchStretch
<1>1. PICK e, f : e = x[1] /\ f = x[2] /\ x = <<e, f>>
  BY BenchStretch
<1>2. PICK g, h : g = y[1] /\ h = y[2] /\ y = <<g, h>>
  BY BenchStretch
<1>3. /\ e \in BenchEvents(a) /\ f \in BenchEvents(a) /\ g \in BenchEvents(a) /\ h \in BenchEvents(a)
      /\ e.at \in Nat /\ f.at \in Nat /\ g.at \in Nat /\ h.at \in Nat
      /\ Before(e, f) /\ Before(g, h)
      /\ ~ \E z \in BenchEvents(a) : Before(e, z) /\ Before(z, f)
      /\ ~ \E z \in BenchEvents(a) : Before(g, z) /\ Before(z, h)
  BY <1>1, <1>2, BenchStretch
<1>4. Before(g, f) /\ Before(e, h)
  BY <1>1, <1>2 DEF Before
<1>5. ~Before(e, g) /\ ~Before(g, e) /\ ~Before(f, h) /\ ~Before(h, f)
  BY <1>3, <1>4
<1>6. ASSUME NEW c \in BenchEvents(a), NEW d \in BenchEvents(a), ~Before(c, d), ~Before(d, c)
      PROVE  c = d
  <2>1. /\ c.at \in Nat /\ d.at \in Nat
        /\ c.kind \in {"mark", "take", "pause", "resume"}
        /\ d.kind \in {"mark", "take", "pause", "resume"}
        /\ c = [at |-> c.at, kind |-> c.kind] /\ d = [at |-> d.at, kind |-> d.kind]
    BY BenchFact
  <2>2. c.at = d.at
    BY <1>6, <2>1 DEF Before
  <2>3. KindOrder(c.kind) \in Nat /\ KindOrder(d.kind) \in Nat
    BY <2>1 DEF KindOrder
  <2>4. KindOrder(c.kind) = KindOrder(d.kind)
    BY <1>6, <2>2, <2>3 DEF Before
  <2>5. c.kind = d.kind
    BY <2>1, <2>4 DEF KindOrder
  <2>6. QED
    BY <2>1, <2>2, <2>5
<1>7. e = g /\ f = h
  BY <1>3, <1>5, <1>6
<1>8. QED
  BY <1>1, <1>2, <1>7

\* Intervals that share no minute hold as many as all of them together.
LEMMA TicksFact ==
    ASSUME NEW I \in SUBSET (Int \X Int), IsFiniteSet(I), \A i \in I : i[1] < i[2],
           \A i, j \in I : i # j => Disjoint(i, j)
    PROVE  IsFiniteSet(Covered(I)) /\ Ticks(I) = Cardinality(Covered(I))
<1>1. PICK part : part = [i \in I |-> Covers(i)]
  OBVIOUS
<1>2. PICK each : each = [i \in I |-> i[2] - i[1]]
  OBVIOUS
<1>3. ASSUME NEW i \in I
      PROVE  /\ IsFiniteSet(part[i]) /\ each[i] = Cardinality(part[i])
             /\ part[i] \subseteq Covered(I)
  <2>1. i[1] \in Int /\ i[2] \in Int /\ i[2] - 1 \in Int /\ i[1] < i[2]
    OBVIOUS
  <2>2. IsFiniteSet(Covers(i)) /\ Cardinality(Covers(i)) = i[2] - i[1]
    <3>1. PICK m \in Int, n \in Int : m = i[1] /\ n = i[2] - 1 /\ Covers(i) = m..n
      BY <2>1 DEF Covers
    <3>2. IsFiniteSet(m..n) /\ Cardinality(m..n) = IF m > n THEN 0 ELSE n - m + 1
      BY FS_Interval
    <3>3. QED
      BY <2>1, <3>1, <3>2
  <2>3. QED
    BY <1>1, <1>2, <2>2 DEF Covered
<1>4. ASSUME NEW i \in I, NEW j \in I, i # j
      PROVE  part[i] \cap part[j] = {}
  <2>1. i[1] \in Int /\ i[2] \in Int /\ j[1] \in Int /\ j[2] \in Int
    OBVIOUS
  <2>2. i[2] <= j[1] \/ j[2] <= i[1]
    BY <1>4 DEF Disjoint
  <2>3. QED
    BY <1>1, <2>1, <2>2 DEF Covers
<1>5. \A t \in Covered(I) : \E i \in I : t \in part[i]
  BY <1>1 DEF Covered
<1>6. SplitBy(part, I, Covered(I))
  BY <1>3, <1>4, <1>5 DEF SplitBy
<1>7. IsFiniteSet(Covered(I)) /\ Total(each, I) = Cardinality(Covered(I))
  BY <1>3, <1>6, TotalOfApart
<1>8. QED
  BY <1>2, <1>7 DEF Ticks

\* The minutes of a closed banding, on the days that are open.
BenchMinutes(a, open) == UNION {Covered(WorkedIn(x, open)) : x \in BenchStretches(a)}

\* Its time is so many minutes, from its start to its closing and in none of its pauses.
LEMMA BenchTicks ==
    ASSUME BandingInv, NEW a \in Acts, a[2] = "banding", ended[a] # Never, NEW open
    PROVE  /\ activity_seconds(begun[a], ended[a], stops[a], open)
                 = Cardinality(BenchMinutes(a, open))
           /\ BenchMinutes(a, open) \subseteq (begun[a] .. ended[a] - 1) \ StoppedTicks(a)
<1>1. PICK X : X = BenchStretches(a)
  OBVIOUS
<1>2. PICK part : part = [x \in X |-> Covered(WorkedIn(x, open))]
  OBVIOUS
<1>3. PICK each : each = [x \in X |-> Ticks(worked(x[1].at, x[2].at, open))]
  OBVIOUS
<1>4. begun[a] \in Nat /\ ended[a] \in Nat
  BY BenchStops
<1>5. ASSUME NEW x \in X
      PROVE  /\ IsFiniteSet(part[x]) /\ each[x] = Cardinality(part[x])
             /\ part[x] \subseteq x[1].at .. x[2].at - 1
  <2>1. x[1].at \in Int /\ x[2].at \in Int
    BY <1>1, BenchStretch
  <2>2. PICK W : W = WorkedIn(x, open)
    OBVIOUS
  <2>3. /\ W \in SUBSET (Int \X Int) /\ IsFiniteSet(W)
        /\ \A i \in W : Inside(i, x[1].at, x[2].at)
        /\ \A i, j \in W : i # j => Disjoint(i, j)
    BY <2>1, <2>2, WorkedFact DEF WorkedIn
  <2>4. \A i \in W : i[1] < i[2]
    BY <2>3 DEF Inside
  <2>5. IsFiniteSet(Covered(W)) /\ Ticks(W) = Cardinality(Covered(W))
    BY <2>3, <2>4, TicksFact
  <2>6. ASSUME NEW t \in Covered(W)
        PROVE  t \in x[1].at .. x[2].at - 1
    <3>1. PICK i \in W : t \in Covers(i)
      BY DEF Covered
    <3>2. i[1] \in Int /\ i[2] \in Int /\ x[1].at <= i[1] /\ i[2] <= x[2].at
      BY <2>3 DEF Inside
    <3>3. QED
      BY <2>1, <3>1, <3>2 DEF Covers
  <2>7. part[x] = Covered(W) /\ each[x] = Ticks(W)
    BY <1>2, <1>3, <2>2 DEF WorkedIn
  <2>8. QED
    BY <2>5, <2>6, <2>7
<1>6. ASSUME NEW x \in X, NEW y \in X, x # y
      PROVE  part[x] \cap part[y] = {}
  <2>1. x[2].at <= y[1].at \/ y[2].at <= x[1].at
    BY <1>1, <1>6, BenchApart
  <2>2. /\ x[1].at \in Nat /\ x[2].at \in Nat /\ y[1].at \in Nat /\ y[2].at \in Nat
    BY <1>1, BenchStretch
  <2>3. part[x] \subseteq x[1].at .. x[2].at - 1 /\ part[y] \subseteq y[1].at .. y[2].at - 1
    BY <1>5
  <2>4. QED
    BY <2>1, <2>2, <2>3
<1>7. PICK S : S = BenchMinutes(a, open)
  OBVIOUS
<1>8. S = UNION {part[x] : x \in X}
  BY <1>1, <1>2, <1>7 DEF BenchMinutes
<1>9. SplitBy(part, X, S)
  BY <1>5, <1>6, <1>8 DEF SplitBy
<1>10. IsFiniteSet(X)
  <2>1. PICK E : E = BenchEvents(a) /\ IsFiniteSet(E)
    BY BenchFact
  <2>2. IsFiniteSet(E \X E)
    BY <2>1, FS_Product
  <2>3. X \subseteq E \X E
    BY <1>1, <2>1 DEF BenchStretches, WorkedStretches, Consecutive
  <2>4. QED
    BY <2>2, <2>3, FS_Subset
<1>11. Total(each, X) = Cardinality(S)
  BY <1>5, <1>9, <1>10, TotalOfApart
<1>12. activity_seconds(begun[a], ended[a], stops[a], open) = Total(each, X)
  <2>1. activity_seconds(begun[a], ended[a], stops[a], open)
          = Total([x \in BenchStretches(a) |-> Ticks(worked(x[1].at, x[2].at, open))],
                  BenchStretches(a))
    BY DEF activity_seconds, BenchStretches, BenchEvents
  <2>2. QED
    BY <1>1, <1>3, <2>1
<1>13. ASSUME NEW t \in S
       PROVE  t \in begun[a] .. ended[a] - 1 /\ t \notin StoppedTicks(a)
  <2>1. PICK x \in X : t \in part[x]
    BY <1>9 DEF SplitBy
  <2>2. /\ x[1].at \in Nat /\ x[2].at \in Nat
        /\ begun[a] <= x[1].at /\ x[2].at <= ended[a]
        /\ \A s \in stops[a] : s.to <= x[1].at \/ x[2].at <= s.from
    BY <1>1, BenchStretch
  <2>3. t \in x[1].at .. x[2].at - 1
    BY <1>5, <2>1
  <2>4. t \in begun[a] .. ended[a] - 1
    BY <1>4, <2>2, <2>3
  <2>5. ASSUME NEW s \in stops[a]
        PROVE  t \notin interval(s)[1] .. interval(s)[2] - 1
    <3>1. s.from \in Nat /\ s.to \in Nat /\ s.to # Never
      BY BenchStops
    <3>2. interval(s)[1] = s.from /\ interval(s)[2] = s.to
      BY <3>1 DEF interval
    <3>3. s.to <= x[1].at \/ x[2].at <= s.from
      BY <2>2
    <3>4. QED
      BY <2>2, <2>3, <3>1, <3>2, <3>3
  <2>6. t \notin StoppedTicks(a)
    BY <2>5 DEF StoppedTicks
  <2>7. QED
    BY <2>4, <2>6
<1>14. QED
  BY <1>7, <1>11, <1>12, <1>13

\* The activities are finitely many.
LEMMA FewActs == IsFiniteSet(Acts)
<1>1. IsFiniteSet(Orders) /\ IsFiniteSet({"cutting"}) /\ IsFiniteSet({"banding"})
  BY ShopReportsAssumption, FS_Singleton
<1>2. IsFiniteSet({"cutting"} \union {"banding"})
  BY <1>1, FS_Union
<1>3. IsFiniteSet(Orders \X ({"cutting"} \union {"banding"}))
  BY <1>1, <1>2, FS_Product
<1>4. Acts \subseteq Orders \X ({"cutting"} \union {"banding"})
  BY ShopReportsAssumption DEF Acts
<1>5. QED
  BY <1>3, <1>4, FS_Subset

\* The instants the branch's banders left.
BenchStamps == {begun[b] : b \in {c \in Acts : c[2] = "banding"}}
               \union {ended[b] : b \in {c \in Acts : c[2] = "banding"}}

\* Of the days a closed banding reaches into, the same are open in every range that holds
\* the day of its closing.
LEMMA BenchDays ==
    ASSUME BandingInv, NEW a \in Acts, a[2] = "banding", ended[a] # Never,
           NEW from \in Int, NEW to \in Int, from <= ended[a], ended[a] < to,
           To(local_date(ended[a])) <= to,
           NEW d \in Int, From(d) <= ended[a], begun[a] < To(d)
    PROVE  d \in BanderDays(from, to)
             <=> \/ d = local_date(begun[a])
                 \/ \E t \in BenchStamps : t # Never /\ begun[a] < t /\ local_date(t) = d
<1>1. begun[a] \in Nat /\ ended[a] \in Nat /\ begun[a] < ended[a] /\ begun[a] # Never
  BY BenchStops
<1>2. \A t \in BenchStamps : t \in Nat
  <2>1. \A t \in SoFar : t \in Nat
    BY SoFarFact
  <2>2. \A b \in Acts : begun[b] \in SoFar /\ ended[b] \in SoFar
    BY DEF BandingInv, RowsInv, ColumnsTyped
  <2>3. QED
    BY <2>1, <2>2 DEF BenchStamps
<1>3. PICK first \in Int : /\ first = Min({begun[b] : b \in ClosedBandings(from, to)})
                           /\ first <= begun[a]
  <2>1. PICK C : C = ClosedBandings(from, to)
    OBVIOUS
  <2>2. IsFiniteSet(C) /\ a \in C
    <3>1. IsFiniteSet(Acts)
      BY FewActs
    <3>2. C \subseteq Acts
      BY <2>1 DEF ClosedBandings
    <3>3. a \in C
      BY <2>1 DEF ClosedBandings, Within
    <3>4. QED
      BY <3>1, <3>2, <3>3, FS_Subset
  <2>3. PICK S : S = {begun[b] : b \in C}
    OBVIOUS
  <2>4. S \in SUBSET Int
    <3>1. \A b \in C : begun[b] \in BenchStamps
      BY <2>1 DEF ClosedBandings, BenchStamps
    <3>2. QED
      BY <1>2, <2>3, <3>1
  <2>5. IsFiniteSet(S) /\ begun[a] \in S
    BY <2>2, <2>3, ImageIsFinite
  <2>6. Min(S) \in S /\ \A y \in S : Min(S) <= y
    BY <2>4, <2>5, LeastIsThere
  <2>7. QED
    BY <2>1, <2>3, <2>4, <2>5, <2>6
<1>4. d \in BanderDays(from, to)
        <=> \E t \in BenchStamps : t # Never /\ first <= t /\ t < to /\ local_date(t) = d
  BY <1>3 DEF BanderDays, BenchStamps, Within
<1>5. \A t \in Int : /\ local_date(t) \in Int
                     /\ (From(d) <= t <=> d <= local_date(t))
                     /\ (t < To(d) <=> local_date(t) <= d)
  <2>1. From(d + 1) = To(d)
    BY DEF From, To
  <2>2. From(d + 1) \in Int
    BY WorkClockAssumption DEF From
  <2>3. \A t \in Int : /\ local_date(t) \in Int
                       /\ (From(d) <= t <=> d <= local_date(t))
                       /\ (From(d + 1) <= t <=> d + 1 <= local_date(t))
    BY DateFact
  <2>4. QED
    BY <2>1, <2>2, <2>3
<1>6. ASSUME NEW t \in BenchStamps, t # Never, first <= t, t < to, local_date(t) = d, ~(begun[a] < t)
      PROVE  d = local_date(begun[a])
  <2>1. t \in Nat /\ From(d) <= t
    BY <1>2, <1>5, <1>6
  <2>2. From(d) \in Int
    BY WorkClockAssumption DEF From
  <2>3. From(d) <= begun[a]
    BY <1>1, <1>6, <2>1, <2>2
  <2>4. QED
    BY <1>1, <1>5, <2>3
<1>7. ASSUME NEW t \in BenchStamps, t # Never, begun[a] < t, local_date(t) = d
      PROVE  first <= t /\ t < to
  <2>1. t \in Nat
    BY <1>2
  <2>2. d <= local_date(ended[a]) /\ local_date(ended[a]) \in Int
    BY <1>1, <1>5
  <2>3. To(d) <= To(local_date(ended[a])) /\ To(d) \in Int /\ To(local_date(ended[a])) \in Int
    <3>1. PICK e \in Int : e = local_date(ended[a]) /\ d <= e
      BY <2>2
    <3>2. (d + 1) * DayTicks <= (e + 1) * DayTicks
      BY <3>1, WorkClockAssumption
    <3>3. (d + 1) * DayTicks \in Int /\ (e + 1) * DayTicks \in Int
      BY WorkClockAssumption
    <3>4. QED
      BY <3>1, <3>2, <3>3 DEF To
  <2>4. t < To(d)
    BY <1>5, <1>7, <2>1
  <2>5. QED
    BY <1>1, <1>3, <1>7, <2>1, <2>3, <2>4
<1>8. ASSUME d = local_date(begun[a])
      PROVE  d \in BanderDays(from, to)
  <2>1. begun[a] \in BenchStamps
    BY DEF BenchStamps
  <2>2. first <= begun[a] /\ begun[a] < to
    BY <1>1, <1>3
  <2>3. QED
    BY <1>1, <1>4, <1>8, <2>1, <2>2
<1>9. QED
  BY <1>4, <1>6, <1>7, <1>8

\* Property BandingReadsTheSame, of ReportsAgree: a closed banding takes the same time in
\* every range that holds its closing, though each range opens its own days, and never
\* more than what its pauses leave.
THEOREM BandingReadsAlike == ReportsSpec => []BandingReadsTheSame
<1>1. BandingInv => BandingReadsTheSame
  <2> SUFFICES ASSUME BandingInv, NEW a \in ClosedBandings(AllFrom, AllTo), NEW day,
                      day = local_date(ended[a]), NEW took, took = BandingTicks(a, AllFrom, AllTo)
      PROVE  /\ took = BandingTicks(a, From(day), To(day))
             /\ took <= ended[a] - begun[a] - Cardinality(StoppedTicks(a))
    BY DEF BandingReadsTheSame
  <2>1. /\ a \in Acts /\ a[2] = "banding" /\ ended[a] # Never
        /\ AllFrom <= ended[a] /\ ended[a] < AllTo
    BY DEF ClosedBandings, Within
  <2>2. /\ begun[a] \in Nat /\ ended[a] \in Nat /\ begun[a] < ended[a]
        /\ \A s \in stops[a] :
              /\ s.from \in Nat /\ s.to \in Nat /\ s.to # Never
              /\ begun[a] < s.from /\ s.from < s.to /\ s.to < ended[a]
    BY <2>1, BenchStops
  <2>3. day \in Days
    <3>1. ended[a] \in Instants
      BY <2>1 DEF BandingInv, RowsInv, ColumnsTyped, SoFar
    <3>2. QED
      BY <3>1 DEF Days
  <2>4. /\ day \in Int /\ AllFrom \in Int /\ AllTo \in Int /\ From(day) \in Int /\ To(day) \in Int
        /\ To(day) <= AllTo
    BY <2>3, RangeOfDay
  <2>5. From(day) <= ended[a] /\ ended[a] < To(day)
    <3>1. From(day) <= ended[a]
      BY <2>2, <2>4, DateFact
    <3>2. ~(From(day + 1) <= ended[a])
      BY <2>2, <2>4, DateFact
    <3>3. From(day + 1) = To(day)
      BY DEF From, To
    <3>4. QED
      BY <2>2, <2>4, <3>1, <3>2, <3>3
  <2>6. PICK open, other : open = BanderDays(AllFrom, AllTo) /\ other = BanderDays(From(day), To(day))
    OBVIOUS
  <2>7. ASSUME NEW d \in Int, From(d) <= ended[a], begun[a] < To(d)
        PROVE  d \in open <=> d \in other
    <3>1. d \in open <=> \/ d = local_date(begun[a])
                         \/ \E t \in BenchStamps : t # Never /\ begun[a] < t /\ local_date(t) = d
      BY <2>1, <2>4, <2>6, <2>7, BenchDays
    <3>2. d \in other <=> \/ d = local_date(begun[a])
                          \/ \E t \in BenchStamps : t # Never /\ begun[a] < t /\ local_date(t) = d
      BY <2>1, <2>4, <2>5, <2>6, <2>7, BenchDays
    <3>3. QED
      BY <3>1, <3>2
  <2>8. ASSUME NEW x \in BenchStretches(a)
        PROVE  worked(x[1].at, x[2].at, open) = worked(x[1].at, x[2].at, other)
    <3>1. PICK start \in Int, end \in Int :
             /\ start = x[1].at /\ end = x[2].at /\ begun[a] <= start /\ end <= ended[a]
      BY <2>1, BenchStretch
    <3>2. ASSUME NEW d \in Int, From(d) <= end, start < To(d)
          PROVE  d \in open <=> d \in other
      <4>1. From(d) \in Int /\ To(d) \in Int
        BY WorkClockAssumption DEF From, To
      <4>2. From(d) <= ended[a] /\ begun[a] < To(d)
        BY <2>2, <3>1, <3>2, <4>1
      <4>3. QED
        BY <2>7, <4>2
    <3>3. worked(start, end, open) = worked(start, end, other)
      BY <3>2, WorkedAlike
    <3>4. QED
      BY <3>1, <3>3
  <2>9. PICK X : X = BenchStretches(a)
    OBVIOUS
  <2>10. PICK time, again : /\ time = [x \in X |-> Ticks(worked(x[1].at, x[2].at, open))]
                            /\ again = [x \in X |-> Ticks(worked(x[1].at, x[2].at, other))]
    OBVIOUS
  <2>11. time = again
    BY <2>8, <2>9, <2>10
  <2>12. activity_seconds(begun[a], ended[a], stops[a], open) = Total(time, X)
    BY <2>9, <2>10 DEF activity_seconds, BenchStretches, BenchEvents
  <2>13. activity_seconds(begun[a], ended[a], stops[a], other) = Total(again, X)
    BY <2>9, <2>10 DEF activity_seconds, BenchStretches, BenchEvents
  <2>14. took = BandingTicks(a, From(day), To(day))
    BY <2>6, <2>11, <2>12, <2>13 DEF BandingTicks
  <2>15. PICK B : B = begun[a] .. ended[a] - 1
    OBVIOUS
  <2>16. IsFiniteSet(B) /\ Cardinality(B) = ended[a] - begun[a]
    <3>1. PICK m \in Int, n \in Int : m = begun[a] /\ n = ended[a] - 1 /\ B = m..n
      BY <2>2, <2>15
    <3>2. IsFiniteSet(m..n) /\ Cardinality(m..n) = IF m > n THEN 0 ELSE n - m + 1
      BY FS_Interval
    <3>3. QED
      BY <2>2, <3>1, <3>2
  <2>17. PICK T : T = StoppedTicks(a)
    OBVIOUS
  <2>18. T \subseteq B
    <3>1. ASSUME NEW s \in stops[a]
          PROVE  interval(s)[1] .. interval(s)[2] - 1 \subseteq B
      <4>1. interval(s)[1] = s.from /\ interval(s)[2] = s.to
        BY <2>2 DEF interval
      <4>2. QED
        BY <2>2, <2>15, <4>1
    <3>2. QED
      BY <2>17, <3>1 DEF StoppedTicks
  <2>19. IsFiniteSet(T) /\ Cardinality(T) \in Nat /\ Cardinality(T) <= Cardinality(B)
    BY <2>16, <2>18, FS_Subset, FS_CardinalityType
  <2>20. PICK S : S = BenchMinutes(a, open)
    OBVIOUS
  <2>21. /\ activity_seconds(begun[a], ended[a], stops[a], open) = Cardinality(S)
         /\ S \subseteq B \ T
    BY <2>1, <2>15, <2>17, <2>20, BenchTicks
  <2>22. Cardinality(S) + Cardinality(T) <= Cardinality(B)
    <3>1. IsFiniteSet(S) /\ Cardinality(S) \in Nat
      BY <2>16, <2>21, FS_Subset, FS_CardinalityType
    <3>2. S \cap T = {} /\ S \cup T \subseteq B
      BY <2>18, <2>21
    <3>3. Cardinality(S \cup T) <= Cardinality(B)
      BY <2>16, <3>2, FS_Subset
    <3>4. Cardinality(S \cup T) = Cardinality(S) + Cardinality(T)
      BY <2>19, <3>1, <3>2, FS_Union, FS_EmptySet
    <3>5. QED
      BY <3>3, <3>4
  <2>23. took = 0 \/ took = Cardinality(S)
    BY <2>6, <2>21 DEF BandingTicks
  <2>24. Cardinality(S) \in Nat
    BY <2>16, <2>21, FS_Subset, FS_CardinalityType
  <2>25. took <= ended[a] - begun[a] - Cardinality(T)
    BY <2>2, <2>16, <2>19, <2>22, <2>23, <2>24
  <2>26. QED
    BY <2>14, <2>17, <2>25
<1>2. QED
  BY <1>1, BandingSafe, PTL

-----------------------------------------------------------------------------
(* ShopReports: what a day reads, in every range and from one request to the next *)

\* A piece is of a window of a day that is open; with that day open it is one anywhere.
LEMMA PieceFact ==
    ASSUME NEW start \in Int, NEW end \in Int, start < end, NEW open,
           NEW p \in overlap(start, end, open)
    PROVE  \E d \in open :
              /\ d \in Int /\ From(d) \in Int /\ To(d) \in Int
              /\ p[1] \in Int /\ p[2] \in Int
              /\ From(d) <= p[1] /\ p[1] < p[2] /\ p[2] <= To(d)
              /\ start <= p[1] /\ p[2] <= end
              /\ \A other : d \in other => p \in overlap(start, end, other)
<1>1. PICK v \in windows(start, end, open) :
         v[2] > start /\ v[1] < end /\ p = <<Later(start, v[1]), Sooner(end, v[2])>>
  BY DEF overlap
<1>2. PICK d \in open :
              /\ d \in Int /\ From(d) <= v[1] /\ v[1] < v[2] /\ v[2] <= To(d)
              /\ v[1] \in Int /\ v[2] \in Int /\ From(d) \in Int /\ To(d) \in Int
              /\ \A other : d \in other => v \in windows(start, end, other)
  BY WindowOfADay
<1>3. PICK x \in Int, y \in Int : x = Later(start, v[1]) /\ y = Sooner(end, v[2])
  BY <1>2 DEF Later, Sooner
<1>4. p[1] = x /\ p[2] = y
  BY <1>1, <1>3
<1>5. From(d) <= x /\ x < y /\ y <= To(d) /\ start <= x /\ y <= end
  BY <1>1, <1>2, <1>3 DEF Later, Sooner
<1>6. ASSUME NEW other, d \in other
      PROVE  p \in overlap(start, end, other)
  <2>1. v \in windows(start, end, other)
    BY <1>2, <1>6
  <2>2. QED
    BY <1>1, <2>1 DEF overlap
<1>7. QED
  BY <1>2, <1>3, <1>4, <1>5, <1>6

\* The last of the pieces, and whether the stretch ends in working hours.
LastPiece(P) == CHOOSE p \in P : \A q \in P : q[2] <= p[2]
InHours(start, end, open) == \E w \in windows(start, end, open) : w[1] <= end /\ end < w[2]

\* The pieces of a stretch have one last.
LEMMA LastPieceFact ==
    ASSUME NEW start \in Int, NEW end \in Int, start < end, NEW open,
           NEW P, P = overlap(start, end, open), P # {}
    PROVE  /\ LastPiece(P) \in P /\ \A q \in P : q[2] <= LastPiece(P)[2]
           /\ \A p \in P : (\A q \in P : q[2] <= p[2]) => p = LastPiece(P)
<1>1. /\ P \in SUBSET (Int \X Int) /\ IsFiniteSet(P)
      /\ \A i \in P : Inside(i, start, end)
      /\ \A i, j \in P : i # j => Disjoint(i, j)
  BY OverlapFact
<1>2. PICK f : f = [p \in P |-> p[2]]
  OBVIOUS
<1>3. PICK E : E = {f[p] : p \in P}
  OBVIOUS
<1>4. E \in SUBSET Int /\ E # {} /\ IsFiniteSet(E)
  BY <1>1, <1>2, <1>3, ImageIsFinite
<1>5. PICK m \in E : \A y \in E : y <= m
  BY <1>4, GreatestIsThere
<1>6. \E p \in P : \A q \in P : q[2] <= p[2]
  BY <1>2, <1>3, <1>5
<1>7. LastPiece(P) \in P /\ \A q \in P : q[2] <= LastPiece(P)[2]
  BY <1>6 DEF LastPiece
<1>8. ASSUME NEW p \in P, \A q \in P : q[2] <= p[2]
      PROVE  p = LastPiece(P)
  <2>1. PICK l \in P : l = LastPiece(P) /\ p[2] <= l[2] /\ l[2] <= p[2]
    BY <1>7, <1>8
  <2>2. p \in Int \X Int /\ l \in Int \X Int
    BY <1>1
  <2>3. p[1] < p[2] /\ l[1] < l[2]
    BY <1>1 DEF Inside
  <2>4. p[1] \in Int /\ p[2] \in Int /\ l[1] \in Int /\ l[2] \in Int
    BY <2>2
  <2>5. ~Disjoint(p, l)
    BY <2>1, <2>3, <2>4 DEF Disjoint
  <2>6. QED
    BY <1>1, <2>1, <2>5
<1>9. QED
  BY <1>7, <1>8

\* The three ways a stretch counts.
LEMMA WorkedShape ==
    ASSUME NEW start \in Int, NEW end \in Int, start < end, NEW open,
           NEW P, P = overlap(start, end, open)
    PROVE  worked(start, end, open)
             = IF end - start <= Overtime THEN {<<start, end>>}
               ELSE IF /\ P # {} /\ ~InHours(start, end, open)
                       /\ end - LastPiece(P)[2] <= Overtime
               THEN (P \ {LastPiece(P)}) \union {<<LastPiece(P)[1], end>>}
               ELSE P
<1>1. PICK last : last = LastPiece(P)
  OBVIOUS
<1>2. last = CHOOSE p \in P : \A q \in P : q[2] <= p[2]
  BY <1>1 DEF LastPiece
<1>3. ~(end <= start)
  OBVIOUS
<1>4. CASE end - start <= Overtime
  BY <1>3, <1>4 DEF worked
<1>5. CASE ~(end - start <= Overtime)
  <2>1. worked(start, end, open)
          = IF /\ P # {} /\ ~(\E w \in windows(start, end, open) : w[1] <= end /\ end < w[2])
               /\ end - last[2] <= Overtime
            THEN (P \ {last}) \union {<<last[1], end>>}
            ELSE P
    BY <1>2, <1>3, <1>5 DEF worked
  <2>2. QED
    BY <1>1, <1>5, <2>1 DEF InHours
<1>6. QED
  BY <1>4, <1>5

\* A stretch that is more than a short one holds all of its pieces.
LEMMA PiecesAreWorked ==
    ASSUME NEW start \in Int, NEW end \in Int, start < end, NEW open,
           end - start > Overtime
    PROVE  Covered(overlap(start, end, open)) \subseteq Covered(worked(start, end, open))
<1>1. PICK P : P = overlap(start, end, open)
  OBVIOUS
<1>2. Overtime \in Int
  BY WorkClockAssumption
<1>3. ASSUME NEW t \in Covered(P)
      PROVE  t \in Covered(worked(start, end, open))
  <2>1. PICK p \in P : t \in Covers(p)
    BY DEF Covered
  <2>2. p[1] \in Int /\ p[2] \in Int /\ p[2] <= end
    BY <1>1, OverlapFact DEF Inside
  <2>3. CASE p \in worked(start, end, open)
    BY <2>1, <2>3 DEF Covered
  <2>4. CASE p \notin worked(start, end, open)
    <3>1. /\ p = LastPiece(P)
          /\ worked(start, end, open) = (P \ {LastPiece(P)}) \union {<<LastPiece(P)[1], end>>}
      BY <1>1, <1>2, <2>4, WorkedShape
    <3>2. PICK i : i = <<p[1], end>> /\ i \in worked(start, end, open)
      BY <3>1
    <3>3. i[1] = p[1] /\ i[2] = end
      BY <3>2
    <3>4. t \in Covers(i)
      BY <2>1, <2>2, <3>3 DEF Covers
    <3>5. QED
      BY <3>2, <3>4 DEF Covered
  <2>5. QED
    BY <2>3, <2>4
<1>4. QED
  BY <1>1, <1>3

\* Only the day the stretch ends on tells whether it ends in working hours.
LEMMA HoursOfTheEnd ==
    ASSUME NEW start \in Int, NEW end \in Int, NEW open, NEW other,
           local_date(end) \in open, local_date(end) \in other
    PROVE  InHours(start, end, open) <=> InHours(start, end, other)
<1>1. ASSUME NEW days, NEW rest, local_date(end) \in rest, InHours(start, end, days)
      PROVE  InHours(start, end, rest)
  <2>1. PICK v \in windows(start, end, days) : v[1] <= end /\ end < v[2]
    BY <1>1 DEF InHours
  <2>2. PICK d \in days :
              /\ d \in Int /\ From(d) <= v[1] /\ v[1] < v[2] /\ v[2] <= To(d)
              /\ v[1] \in Int /\ v[2] \in Int /\ From(d) \in Int /\ To(d) \in Int
              /\ \A set : d \in set => v \in windows(start, end, set)
    BY WindowOfADay
  <2>3. From(d) <= end /\ ~(From(d + 1) <= end)
    <3>1. From(d + 1) = To(d)
      BY DEF From, To
    <3>2. QED
      BY <2>1, <2>2, <3>1
  <2>4. local_date(end) \in Int /\ d <= local_date(end) /\ ~(d + 1 <= local_date(end))
    BY <2>2, <2>3, DateFact
  <2>5. d = local_date(end)
    BY <2>2, <2>4
  <2>6. QED
    BY <1>1, <2>1, <2>2, <2>5 DEF InHours
<1>2. QED
  BY <1>1

\* A day of the range before another ends before the other begins.
LEMMA DaysInOrder ==
    ASSUME NEW d \in Int, NEW e \in Int
    PROVE  /\ From(d) \in Int /\ To(d) \in Int /\ To(d) = From(d) + DayTicks /\ DayTicks \in Int
           /\ d < e => To(d) <= From(e)
           /\ d <= e => From(d) <= From(e) /\ To(d) <= To(e)
<1>1. DayTicks \in Nat \ {0}
  BY WorkClockAssumption
<1>2. PICK m \in Int, n \in Int : m = d * DayTicks /\ n = e * DayTicks
  BY <1>1
<1>3. From(d) = m /\ To(d) = m + DayTicks /\ From(e) = n /\ To(e) = n + DayTicks
  BY <1>1, <1>2 DEF From, To
<1>4. d < e => m + DayTicks <= n
  BY <1>1, <1>2
<1>5. d <= e => m <= n
  BY <1>1, <1>2
<1>6. QED
  BY <1>1, <1>2, <1>3, <1>4, <1>5

\* An instant is of the day it is dated.
LEMMA InTheDay ==
    ASSUME NEW t \in Int
    PROVE  /\ local_date(t) \in Int
           /\ \A d \in Int : /\ From(d) <= t <=> d <= local_date(t)
                             /\ t < To(d) <=> local_date(t) <= d
<1>1. ASSUME NEW d \in Int
      PROVE  t < To(d) <=> local_date(t) <= d
  <2>1. From(d + 1) = To(d) /\ To(d) \in Int /\ d + 1 \in Int
    BY DaysInOrder DEF From, To
  <2>2. local_date(t) \in Int /\ (To(d) <= t <=> d + 1 <= local_date(t))
    BY <2>1, DateFact
  <2>3. QED
    BY <2>1, <2>2
<1>2. QED
  BY <1>1, DateFact

\* With more days open a stretch counts for as much or more: a day opened in its middle
\* cannot take from what it ends in, which is at most the limit away.
LEMMA WorkedGrows ==
    ASSUME NEW start \in Int, NEW end \in Int, NEW open, NEW other, open \subseteq other,
           local_date(end) \in open
    PROVE  Covered(worked(start, end, open)) \subseteq Covered(worked(start, end, other))
<1>1. CASE end <= start
  <2>1. worked(start, end, open) = {}
    BY <1>1 DEF worked
  <2>2. QED
    BY <2>1 DEF Covered
<1>2. CASE start < end
  <2>1. PICK P, Q : P = overlap(start, end, open) /\ Q = overlap(start, end, other)
    OBVIOUS
  <2>2. P \subseteq Q
    <3>1. ASSUME NEW p \in P
          PROVE  p \in Q
      <4>1. PICK d \in open : \A set : d \in set => p \in overlap(start, end, set)
        BY <1>2, <2>1, PieceFact
      <4>2. QED
        BY <2>1, <4>1
    <3>2. QED
      BY <3>1
  <2>3. InHours(start, end, open) <=> InHours(start, end, other)
    BY HoursOfTheEnd
  <2>4. Overtime \in Int /\ DayTicks \in Int /\ Overtime < DayTicks
    BY WorkClockAssumption
  <2>5. CASE end - start <= Overtime
    <3>1. worked(start, end, open) = worked(start, end, other)
      <4>1. worked(start, end, open) = {<<start, end>>}
        BY <1>2, <2>5, WorkedShape
      <4>2. worked(start, end, other) = {<<start, end>>}
        BY <1>2, <2>5, WorkedShape
      <4>3. QED
        BY <4>1, <4>2
    <3>2. QED
      BY <3>1
  <2>6. CASE end - start > Overtime
    <3> SUFFICES ASSUME NEW t \in Covered(worked(start, end, open))
        PROVE  t \in Covered(worked(start, end, other))
      OBVIOUS
    <3>1. PICK i \in worked(start, end, open) : t \in Covers(i)
      BY DEF Covered
    <3>2. CASE i \in P
      <4>1. t \in Covered(Q)
        BY <2>2, <3>1, <3>2 DEF Covered
      <4>2. QED
        BY <1>2, <2>1, <2>6, <4>1, PiecesAreWorked
    <3>3. CASE i \notin P
      <4>1. PICK last : last = LastPiece(P)
        OBVIOUS
      <4>2. /\ P # {} /\ ~InHours(start, end, open) /\ end - last[2] <= Overtime
            /\ i = <<last[1], end>>
        BY <1>2, <2>1, <2>4, <2>6, <3>1, <3>3, <4>1, WorkedShape
      <4>3. last \in P /\ \A q \in P : q[2] <= last[2]
        BY <1>2, <2>1, <4>1, <4>2, LastPieceFact
      <4>4. PICK e \in open :
              /\ e \in Int /\ From(e) \in Int /\ To(e) \in Int
              /\ last[1] \in Int /\ last[2] \in Int
              /\ From(e) <= last[1] /\ last[1] < last[2] /\ last[2] <= To(e)
        BY <1>2, <2>1, <4>3, PieceFact
      <4>5. ASSUME NEW q \in Q
            PROVE  q[2] <= last[2]
        <5>1. CASE q \in P
          BY <4>3, <5>1
        <5>2. CASE q \notin P
          <6>1. PICK d \in other :
                  /\ d \in Int /\ From(d) \in Int /\ To(d) \in Int
                  /\ q[1] \in Int /\ q[2] \in Int
                  /\ From(d) <= q[1] /\ q[1] < q[2] /\ q[2] <= To(d) /\ q[2] <= end
                  /\ d \in open => q \in overlap(start, end, open)
            BY <1>2, <2>1, PieceFact
          <6>2. d # e /\ d # local_date(end)
            BY <2>1, <5>2, <6>1
          <6>3. From(d) <= end
            BY <6>1
          <6>4. local_date(end) \in Int /\ d < local_date(end)
            BY <6>1, <6>2, <6>3, InTheDay
          <6>5. To(d) <= end
            <7>1. To(d) <= From(local_date(end)) /\ From(local_date(end)) \in Int
              BY <6>1, <6>4, DaysInOrder
            <7>2. From(local_date(end)) <= end
              BY <6>4, InTheDay
            <7>3. QED
              BY <6>1, <7>1, <7>2
          <6>6. ~(e < d)
            <7> SUFFICES ASSUME e < d PROVE FALSE
              OBVIOUS
            <7>1. To(e) <= From(d) /\ To(d) = From(d) + DayTicks
              BY <4>4, <6>1, DaysInOrder
            <7>2. end - last[2] >= DayTicks
              BY <2>4, <4>4, <6>1, <6>5, <7>1
            <7>3. QED
              BY <2>4, <4>2, <4>4, <7>2
          <6>7. To(d) <= From(e)
            BY <4>4, <6>1, <6>2, <6>6, DaysInOrder
          <6>8. QED
            BY <4>4, <6>1, <6>7
        <5>3. QED
          BY <5>1, <5>2
      <4>6. last = LastPiece(Q) /\ Q # {}
        BY <1>2, <2>1, <2>2, <4>3, <4>5, LastPieceFact
      <4>7. i \in worked(start, end, other)
        BY <1>2, <2>1, <2>3, <2>4, <2>6, <4>2, <4>6, WorkedShape
      <4>8. QED
        BY <3>1, <4>7 DEF Covered
    <3>4. QED
      BY <3>2, <3>3
  <2>7. QED
    BY <2>4, <2>5, <2>6
<1>3. QED
  BY <1>1, <1>2

\* What a stretch counts for in a day hangs on the days open up to that one, and on the
\* day it ends on.
LEMMA WorkedOfTheDay ==
    ASSUME NEW start \in Int, NEW end \in Int, NEW day \in Int, NEW open, NEW other,
           other \subseteq open, local_date(end) \in other,
           \A d \in Int : d <= day /\ start < To(d) /\ d \in open => d \in other,
           NEW t \in Covered(worked(start, end, open)), t \in DayTicksOf(day)
    PROVE  t \in Covered(worked(start, end, other))
<1>1. start < end
  <2>1. CASE end <= start
    <3>1. worked(start, end, open) = {}
      BY <2>1 DEF worked
    <3>2. QED
      BY <3>1 DEF Covered
  <2>2. QED
    BY <2>1
<1>2. PICK P, Q : P = overlap(start, end, open) /\ Q = overlap(start, end, other)
  OBVIOUS
<1>3. ASSUME NEW p \in P, p[1] < To(day)
      PROVE  p \in Q
  <2>1. PICK d \in open :
          /\ d \in Int /\ From(d) \in Int /\ To(d) \in Int
          /\ p[1] \in Int /\ p[2] \in Int
          /\ From(d) <= p[1] /\ p[1] < p[2] /\ p[2] <= To(d) /\ start <= p[1]
          /\ d \in other => p \in overlap(start, end, other)
    BY <1>1, <1>2, PieceFact
  <2>2. d <= day
    <3> SUFFICES ASSUME day < d PROVE FALSE
      BY <2>1
    <3>1. To(day) <= From(d) /\ To(day) \in Int
      BY <2>1, DaysInOrder
    <3>2. QED
      BY <1>3, <2>1, <3>1
  <2>3. start < To(d)
    BY <2>1
  <2>4. QED
    BY <1>2, <2>1, <2>2, <2>3
<1>4. Q \subseteq P
  <2>1. ASSUME NEW p \in Q
        PROVE  p \in P
    <3>1. PICK d \in other : \A set : d \in set => p \in overlap(start, end, set)
      BY <1>1, <1>2, PieceFact
    <3>2. QED
      BY <1>2, <3>1
  <2>2. QED
    BY <2>1
<1>5. InHours(start, end, open) <=> InHours(start, end, other)
  BY HoursOfTheEnd
<1>6. Overtime \in Int
  BY WorkClockAssumption
<1>7. CASE end - start <= Overtime
  <2>1. worked(start, end, open) = {<<start, end>>}
    BY <1>1, <1>2, <1>7, WorkedShape
  <2>3. worked(start, end, other) = {<<start, end>>}
    BY <1>1, <1>2, <1>7, WorkedShape
  <2>2. QED
    BY <2>1, <2>3
<1>8. CASE end - start > Overtime
  <2>1. PICK i \in worked(start, end, open) : t \in Covers(i)
    BY DEF Covered
  <2>2. To(day) \in Int /\ t \in Int /\ t < To(day)
    BY DaysInOrder DEF DayTicksOf
  <2>3. ASSUME NEW p \in P, t \in Covers(p)
        PROVE  t \in Covered(worked(start, end, other))
    <3>1. p[1] \in Int /\ p[1] < To(day)
      <4>1. p[1] \in Int /\ p[2] \in Int
        BY <1>1, <1>2, PieceFact
      <4>2. p[1] <= t
        BY <2>3, <4>1 DEF Covers
      <4>3. QED
        BY <2>2, <4>1, <4>2
    <3>2. t \in Covered(Q)
      BY <1>3, <2>3, <3>1 DEF Covered
    <3>3. QED
      BY <1>1, <1>2, <1>8, <3>2, PiecesAreWorked
  <2>4. ASSUME i \notin P
        PROVE  t \in Covered(worked(start, end, other))
    <3>1. PICK last : last = LastPiece(P)
      OBVIOUS
    <3>2. P # {} /\ i = <<last[1], end>>
      BY <1>1, <1>2, <1>6, <1>8, <2>1, <2>4, <3>1, WorkedShape
    <3>3. last \in P /\ \A q \in P : q[2] <= last[2]
      BY <1>1, <1>2, <3>1, <3>2, LastPieceFact
    <3>4. last[1] \in Int /\ last[2] \in Int /\ last[1] <= t
      <4>1. last[1] \in Int /\ last[2] \in Int
        BY <1>1, <1>2, <3>3, PieceFact
      <4>2. i[1] = last[1] /\ i[2] = end
        BY <3>2
      <4>3. QED
        BY <2>1, <4>1, <4>2 DEF Covers
    <3>5. CASE t < last[2]
      <4>1. t \in Covers(last)
        BY <2>2, <3>4, <3>5 DEF Covers
      <4>2. QED
        BY <2>3, <3>3, <4>1
    <3>6. CASE ~(t < last[2])
      <4>1. ASSUME NEW p \in P
            PROVE  p[1] < To(day)
        <5>1. p[1] \in Int /\ p[2] \in Int /\ p[1] < p[2]
          BY <1>1, <1>2, PieceFact
        <5>2. QED
          BY <2>2, <3>3, <3>4, <3>6, <5>1
      <4>2. P = Q
        BY <1>3, <1>4, <4>1
      <4>3. worked(start, end, open) = worked(start, end, other)
        <5>1. P = overlap(start, end, other)
          BY <1>2, <4>2
        <5>2. PICK l : l = LastPiece(P)
          OBVIOUS
        <5>3. PICK hours \in BOOLEAN : hours <=> InHours(start, end, open)
          OBVIOUS
        <5>4. PICK count : count = IF end - start <= Overtime THEN {<<start, end>>}
                                   ELSE IF P # {} /\ ~hours /\ end - l[2] <= Overtime
                                   THEN (P \ {l}) \union {<<l[1], end>>}
                                   ELSE P
          OBVIOUS
        <5>5. worked(start, end, open) = count
          BY <1>1, <1>2, <5>2, <5>3, <5>4, WorkedShape
        <5>6. worked(start, end, other) = count
          BY <1>1, <1>5, <5>1, <5>2, <5>3, <5>4, WorkedShape
        <5>7. QED
          BY <5>5, <5>6
      <4>4. QED
        BY <4>3
    <3>7. QED
      BY <3>5, <3>6
  <2>5. QED
    BY <2>1, <2>3, <2>4
<1>9. QED
  BY <1>6, <1>7, <1>8

\* The events that open a day and put an order in a range.
Taken(e) == e.kind \in {"mark", "take"}

\* Every mark and every taking is an event of an order's timeline, and those only.
LEMMA StampsFact ==
    ASSUME RowsInv, NEW t
    PROVE  /\ t \in {marked[p] : p \in Slips} \union {begun[Cut(o)] : o \in Orders} /\ t # Never
                => \E o \in Orders : \E e \in Timeline(o) : Taken(e) /\ e.at = t
           /\ \A o \in Orders : \A e \in Timeline(o) : Taken(e) =>
                 /\ e.at \in {marked[p] : p \in Slips} \union {begun[Cut(z)] : z \in Orders}
                 /\ e.at # Never
<1>1. ASSUME NEW p \in Slips, marked[p] = t, t # Never
      PROVE  \E o \in Orders : \E e \in Timeline(o) : Taken(e) /\ e.at = t
  <2>1. PICK o \in Orders : o = OrderOf[SheetOf[p]]
    BY ActsFact
  <2>2. p \in SlipsOf(o)
    BY <2>1 DEF SlipsOf
  <2>3. PICK e : e = [at |-> marked[p], kind |-> "mark", user |-> marker[p]]
    OBVIOUS
  <2>4. e \in Timeline(o)
    BY <1>1, <2>2, <2>3, TimelineFact DEF OnRecord
  <2>5. e.at = t /\ Taken(e)
    BY <1>1, <2>3 DEF Taken
  <2>6. QED
    BY <2>4, <2>5
<1>2. ASSUME NEW o \in Orders, begun[Cut(o)] = t, t # Never
      PROVE  \E e \in Timeline(o) : Taken(e) /\ e.at = t
  <2>1. PICK e : e = [at |-> begun[Cut(o)], kind |-> "take"]
    OBVIOUS
  <2>2. e \in Timeline(o)
    BY <1>2, <2>1, TimelineFact DEF OnRecord
  <2>3. e.at = t /\ Taken(e)
    BY <1>2, <2>1 DEF Taken
  <2>4. QED
    BY <2>2, <2>3
<1>3. ASSUME NEW o \in Orders, NEW e \in Timeline(o), Taken(e)
      PROVE  /\ e.at \in {marked[p] : p \in Slips} \union {begun[Cut(z)] : z \in Orders}
             /\ e.at # Never
  <2>1. OnRecord(o, e)
    BY TimelineFact
  <2>2. ASSUME NEW p \in SlipsOf(o), marked[p] # Never, e.at = marked[p]
        PROVE  e.at \in {marked[q] : q \in Slips} /\ e.at # Never
    BY <2>2 DEF SlipsOf
  <2>3. e.kind # "pause" /\ e.kind # "resume"
    BY <1>3 DEF Taken
  <2>4. \/ \E p \in SlipsOf(o) : marked[p] # Never /\ e.at = marked[p]
        \/ begun[Cut(o)] # Never /\ e.at = begun[Cut(o)]
    BY <2>1, <2>3 DEF OnRecord
  <2>5. QED
    BY <2>2, <2>4
<1>4. QED
  BY <1>1, <1>2, <1>3

\* The days open in a range are those of its takings and marks.
LEMMA OpenDaysFact ==
    ASSUME RowsInv, NEW from, NEW to, NEW d
    PROVE  d \in open_days(from, to)
             <=> \E o \in Orders : \E e \in Timeline(o) :
                    Taken(e) /\ Within(e.at, from, to) /\ local_date(e.at) = d
<1>1. PICK T : T = {marked[p] : p \in Slips} \union {begun[Cut(o)] : o \in Orders}
  OBVIOUS
<1>2. d \in open_days(from, to)
        <=> \E t \in T : t # Never /\ Within(t, from, to) /\ d = local_date(t)
  BY <1>1 DEF open_days
<1>3. \A t \in T : t # Never => \E o \in Orders : \E e \in Timeline(o) : Taken(e) /\ e.at = t
  BY <1>1, StampsFact
<1>4. \A o \in Orders : \A e \in Timeline(o) : Taken(e) => e.at \in T /\ e.at # Never
  BY <1>1, StampsFact
<1>5. QED
  BY <1>2, <1>3, <1>4

\* An order is cut in a range when a mark is not before it and an opening event not after.
LEMMA BeingCutFact ==
    RowsInv => \A low, top \in Int : \A z :
        z \in BeingCut(low, top)
          <=> /\ z \in Orders
              /\ \E m \in Timeline(z) : m.kind = "mark" /\ low <= m.at
              /\ \E e \in Timeline(z) : Taken(e) /\ e.at < top
<1> SUFFICES ASSUME RowsInv, NEW from \in Int, NEW to \in Int, NEW o \in Orders
    PROVE  o \in BeingCut(from, to)
             <=> /\ \E m \in Timeline(o) : m.kind = "mark" /\ from <= m.at
                 /\ \E e \in Timeline(o) : Taken(e) /\ e.at < to
  BY DEF BeingCut
<1>1. PICK M, F, T :
         /\ M = {e.at : e \in Marks(o)}
         /\ F = IF begun[Cut(o)] = Never THEN M ELSE M \union {begun[Cut(o)]}
         /\ T = {e \in Timeline(o) : Taken(e)}
  OBVIOUS
<1>2. o \in BeingCut(from, to) <=> M # {} /\ Max(M) >= from /\ Min(F) < to
  BY <1>1 DEF BeingCut
<1>3. \A e : e \in Marks(o) <=> e \in Timeline(o) /\ e.kind = "mark"
  <2>1. \A e : e \in Marks(o) <=> \E p \in SlipsOf(o) :
           marked[p] # Never /\ e = [at |-> marked[p], kind |-> "mark", user |-> marker[p]]
    BY DEF Marks
  <2>2. \A e \in Marks(o) : e \in Timeline(o) /\ e.kind = "mark"
    BY <2>1, TimelineFact DEF OnRecord
  <2>3. \A e \in Timeline(o) : e.kind = "mark" => e \in Marks(o)
    BY <2>1, TimelineFact DEF OnRecord
  <2>4. QED
    BY <2>2, <2>3
<1>4. \A t : t \in M <=> \E m \in Timeline(o) : m.kind = "mark" /\ t = m.at
  BY <1>1, <1>3
<1>5. \A t : t \in F <=> \E e \in T : t = e.at
  <2>1. \A e : e \in Timeline(o) /\ e.kind = "take"
                  <=> begun[Cut(o)] # Never /\ e = [at |-> begun[Cut(o)], kind |-> "take"]
    BY TimelineFact DEF OnRecord
  <2>2. \A t : t \in F <=> t \in M \/ (begun[Cut(o)] # Never /\ t = begun[Cut(o)])
    BY <1>1
  <2>3. ASSUME begun[Cut(o)] # Never
        PROVE  \E e \in T : begun[Cut(o)] = e.at
    <3>1. PICK e : e = [at |-> begun[Cut(o)], kind |-> "take"]
      OBVIOUS
    <3>2. e \in Timeline(o)
      BY <2>1, <2>3, <3>1
    <3>3. Taken(e) /\ e.at = begun[Cut(o)]
      BY <3>1 DEF Taken
    <3>4. QED
      BY <1>1, <3>2, <3>3
  <2>4. ASSUME NEW e \in T
        PROVE  e.at \in F
    <3>1. e \in Timeline(o) /\ (e.kind = "mark" \/ e.kind = "take")
      BY <1>1 DEF Taken
    <3>2. CASE e.kind = "mark"
      BY <1>4, <2>2, <3>1, <3>2
    <3>3. CASE e.kind = "take"
      BY <2>1, <2>2, <3>1, <3>3
    <3>4. QED
      BY <3>1, <3>2, <3>3
  <2>5. ASSUME NEW t \in M
        PROVE  \E e \in T : t = e.at
    <3>1. PICK m \in Timeline(o) : m.kind = "mark" /\ t = m.at
      BY <1>4
    <3>2. m \in T
      BY <1>1, <3>1 DEF Taken
    <3>3. QED
      BY <3>1, <3>2
  <2>6. QED
    BY <2>2, <2>3, <2>4, <2>5
<1>6. M \in SUBSET Int /\ IsFiniteSet(M) /\ F \in SUBSET Int /\ IsFiniteSet(F) /\ M \subseteq F
  <2>1. PICK at : at = [e \in Timeline(o) |-> e.at]
    OBVIOUS
  <2>2. PICK A : A = {at[e] : e \in Timeline(o)}
    OBVIOUS
  <2>3. \A e \in Timeline(o) : at[e] = e.at /\ e.at \in Int
    BY <2>1, TimelineFact
  <2>4. IsFiniteSet(A) /\ A \in SUBSET Int
    BY <2>2, <2>3, TimelineFact, ImageIsFinite
  <2>5. F \subseteq A
    BY <1>1, <1>5, <2>2, <2>3
  <2>6. M \subseteq F
    BY <1>1
  <2>7. IsFiniteSet(F) /\ IsFiniteSet(M)
    BY <2>4, <2>5, <2>6, FS_Subset
  <2>8. QED
    BY <2>4, <2>5, <2>6, <2>7
<1>7. ASSUME M # {}
      PROVE  Max(M) >= from <=> \E t \in M : from <= t
  <2>1. PICK top \in M : top = Max(M) /\ \A t \in M : t <= top
    BY <1>6, <1>7, GreatestIsThere
  <2>2. M \in SUBSET Int
    BY <1>6
  <2>3. QED
    BY <2>1, <2>2
<1>8. ASSUME M # {}
      PROVE  Min(F) < to <=> \E t \in F : t < to
  <2>1. PICK low \in F : low = Min(F) /\ \A t \in F : low <= t
    BY <1>6, <1>8, LeastIsThere
  <2>2. F \in SUBSET Int
    BY <1>6
  <2>3. QED
    BY <2>1, <2>2
<1>9. (\E t \in M : from <= t) <=> \E m \in Timeline(o) : m.kind = "mark" /\ from <= m.at
  BY <1>4
<1>10. (\E t \in F : t < to) <=> \E e \in Timeline(o) : Taken(e) /\ e.at < to
  <2>1. (\E t \in F : t < to) <=> \E e \in T : e.at < to
    BY <1>5
  <2>2. (\E e \in T : e.at < to) <=> \E e \in Timeline(o) : Taken(e) /\ e.at < to
    BY <1>1
  <2>3. QED
    BY <2>1, <2>2
<1>11. QED
  BY <1>2, <1>7, <1>8, <1>9, <1>10

\* A range reaches back to the earliest event of the orders cut in it, and is open on the
\* days of their events and of whatever was marked or taken since.
LEMMA OpenForFact ==
    RowsInv => \A low, top \in Int : \A c :
        c \in OpenFor(low, top)
          <=> \/ \E o \in BeingCut(low, top) : \E e \in Timeline(o) : local_date(e.at) = c
              \/ \E o \in Orders : \E u \in Timeline(o) :
                    /\ Taken(u) /\ u.at < top /\ local_date(u.at) = c
                    /\ \/ low <= u.at
                       \/ \E z \in BeingCut(low, top) : \E e \in Timeline(z) : e.at <= u.at
<1> SUFFICES ASSUME RowsInv, NEW from \in Int, NEW to \in Int, NEW d
    PROVE  d \in OpenFor(from, to)
             <=> \/ \E o \in BeingCut(from, to) : \E e \in Timeline(o) : local_date(e.at) = d
                 \/ \E o \in Orders : \E u \in Timeline(o) :
                       /\ Taken(u) /\ u.at < to /\ local_date(u.at) = d
                       /\ \/ from <= u.at
                          \/ \E z \in BeingCut(from, to) : \E e \in Timeline(z) : e.at <= u.at
  OBVIOUS
<1>1. PICK B, line : B = BeingCut(from, to) /\ line = [o \in B |-> Timeline(o)]
  OBVIOUS
<1>2. PICK V : V = UNION {line[o] : o \in B}
  OBVIOUS
<1>3. V = UNION {Timeline(o) : o \in BeingCut(from, to)}
  BY <1>1, <1>2
<1>4. \A e : e \in V <=> \E o \in B : e \in Timeline(o)
  BY <1>1, <1>2
<1>5. B \subseteq Orders
  BY <1>1 DEF BeingCut
<1>6. IsFiniteSet(V) /\ \A e \in V : e.at \in Int
  <2>1. IsFiniteSet(B)
    BY <1>5, ShopReportsAssumption, FS_Subset
  <2>2. IsFiniteSet({line[o] : o \in B})
    BY <2>1, ImageIsFinite
  <2>3. \A o \in B : IsFiniteSet(line[o])
    BY <1>1, <1>5, TimelineFact
  <2>4. IsFiniteSet(V)
    BY <1>2, <2>2, <2>3, FS_UNION
  <2>5. \A e \in V : e.at \in Int
    BY <1>4, <1>5, TimelineFact
  <2>6. QED
    BY <2>4, <2>5
<1>7. PICK at : at = [e \in V |-> e.at]
  OBVIOUS
<1>8. PICK A, C : A = {at[e] : e \in V} /\ C = A \union {from}
  OBVIOUS
<1>9. IsFiniteSet(C) /\ C \in SUBSET Int /\ C # {}
  <2>1. IsFiniteSet(A)
    BY <1>6, <1>8, ImageIsFinite
  <2>4. IsFiniteSet({from})
    BY FS_Singleton
  <2>2. A \in SUBSET Int
    BY <1>6, <1>7, <1>8
  <2>3. QED
    BY <1>8, <2>1, <2>2, <2>4, FS_Union
<1>10. PICK low \in C : low = Min(C) /\ \A t \in C : low <= t
  BY <1>9, LeastIsThere
<1>11. low \in Int /\ low <= from
  BY <1>8, <1>9, <1>10
<1>12. Sooner(from, low) = low
  BY <1>11 DEF Sooner
<1>13. OpenFor(from, to) = open_days(low, to) \union {local_date(e.at) : e \in V}
  <2>1. {e.at : e \in V} = A
    BY <1>7, <1>8
  <2>2. Min({e.at : e \in V} \union {from}) = low
    BY <1>8, <1>10, <2>1
  <2>3. OpenFor(from, to)
          = open_days(Sooner(from, Min({e.at : e \in V} \union {from})), to)
            \union {local_date(e.at) : e \in V}
    BY <1>3 DEF OpenFor
  <2>4. QED
    BY <1>12, <2>2, <2>3
<1>14. ASSUME NEW t \in Int
       PROVE  low <= t <=> from <= t \/ \E z \in B : \E e \in Timeline(z) : e.at <= t
  <2>1. ASSUME NEW z \in B, NEW e \in Timeline(z), e.at <= t
        PROVE  low <= t
    <3>1. e \in V
      BY <1>4
    <3>2. at[e] = e.at /\ at[e] \in C /\ e.at \in Int
      BY <1>6, <1>7, <1>8, <3>1
    <3>3. QED
      BY <1>10, <1>11, <2>1, <3>2
  <2>2. ASSUME low <= t, low # from
        PROVE  \E z \in B : \E e \in Timeline(z) : e.at <= t
    <3>1. PICK e \in V : low = at[e]
      BY <1>8, <2>2
    <3>2. low = e.at
      BY <1>7, <3>1
    <3>3. QED
      BY <1>4, <2>2, <3>1, <3>2
  <2>3. QED
    BY <1>11, <2>1, <2>2
<1>15. d \in open_days(low, to)
         <=> \E o \in Orders : \E u \in Timeline(o) :
                Taken(u) /\ Within(u.at, low, to) /\ local_date(u.at) = d
  BY OpenDaysFact
<1>16. ASSUME NEW o \in Orders, NEW u \in Timeline(o)
       PROVE  Within(u.at, low, to)
                <=> /\ u.at < to
                    /\ from <= u.at \/ \E z \in B : \E e \in Timeline(z) : e.at <= u.at
  <2>1. u.at \in Int
    BY TimelineFact
  <2>2. QED
    BY <1>14, <2>1 DEF Within
<1>17. d \in {local_date(e.at) : e \in V} <=> \E o \in B : \E e \in Timeline(o) : local_date(e.at) = d
  BY <1>4
<1>18. d \in open_days(low, to)
         <=> \E o \in Orders : \E u \in Timeline(o) :
                /\ Taken(u) /\ u.at < to /\ local_date(u.at) = d
                /\ from <= u.at \/ \E z \in B : \E e \in Timeline(z) : e.at <= u.at
  BY <1>15, <1>16
<1>19. QED
  BY <1>1, <1>13, <1>17, <1>18

\* A timeline is read up to its last mark.
LEMMA CountedIs ==
    RowsInv => \A z \in Orders :
        /\ MarkTimes(z) # {} <=> \E m \in Timeline(z) : m.kind = "mark"
        /\ MarkTimes(z) # {} => \A e :
              e \in Counted(z) <=> /\ e \in Timeline(z)
                                   /\ \E m \in Timeline(z) : m.kind = "mark" /\ e.at <= m.at
<1> SUFFICES ASSUME RowsInv, NEW o \in Orders
    PROVE  /\ MarkTimes(o) # {} <=> \E m \in Timeline(o) : m.kind = "mark"
           /\ MarkTimes(o) # {} => \A e :
                 e \in Counted(o) <=> /\ e \in Timeline(o)
                                      /\ \E m \in Timeline(o) : m.kind = "mark" /\ e.at <= m.at
  OBVIOUS
<1>1. \A t : t \in MarkTimes(o) <=> \E m \in Timeline(o) : m.kind = "mark" /\ t = m.at
  BY DEF MarkTimes
<1>2. ASSUME MarkTimes(o) # {}, NEW e \in Timeline(o)
      PROVE  e \in Counted(o) <=> \E m \in Timeline(o) : m.kind = "mark" /\ e.at <= m.at
  <2>1. MarkTimes(o) \in SUBSET Int /\ IsFiniteSet(MarkTimes(o))
    BY <1>2, CountedFact
  <2>2. PICK top \in MarkTimes(o) : top = Max(MarkTimes(o)) /\ \A t \in MarkTimes(o) : t <= top
    BY <1>2, <2>1, GreatestIsThere
  <2>3. e.at \in Int /\ \A m \in Timeline(o) : m.at \in Int
    BY TimelineFact
  <2>4. e \in Counted(o) <=> e.at <= top
    BY <2>2 DEF Counted
  <2>5. ASSUME NEW m \in Timeline(o), m.kind = "mark", e.at <= m.at
        PROVE  e.at <= top
    <3>1. m.at \in MarkTimes(o)
      BY <1>1, <2>5
    <3>2. top \in Int
      BY <2>1
    <3>3. QED
      BY <2>2, <2>3, <2>5, <3>1, <3>2
  <2>6. ASSUME e.at <= top
        PROVE  \E m \in Timeline(o) : m.kind = "mark" /\ e.at <= m.at
    BY <1>1, <2>2, <2>6
  <2>7. QED
    BY <2>4, <2>5, <2>6
<1>3. \A e \in Counted(o) : e \in Timeline(o)
  BY DEF Counted
<1>4. QED
  BY <1>1, <1>2, <1>3

\* The minutes of a day that a range reads as work of some of the phases.
MinutesOf(day, phases, from, to) ==
    {t \in DayTicksOf(day) :
        \E o \in BeingCut(from, to) : \E x \in Stretches(o) :
            PhaseOf(o, x) \in phases /\ t \in Covered(WorkedIn(x, OpenFor(from, to)))}

\* Those are the minutes of the range's segments.
LEMMA MinutesFact ==
    ASSUME RowsInv, NEW day \in Int, NEW from \in Int, NEW to \in Int, NEW phases,
           NEW S, S = {s \in Segments(order_cuts(from, to)) : s.phase \in phases}
    PROVE  Minutes(S) \cap DayTicksOf(day) = MinutesOf(day, phases, from, to)
<1>1. PICK open : open = OpenFor(from, to)
  OBVIOUS
<1>2. \A s : s \in Segments(order_cuts(from, to))
               <=> \E o \in BeingCut(from, to) : s \in cut_segments(Timeline(o), open)
  <2>1. PICK row : row = [o \in BeingCut(from, to) |->
                             [order |-> o, segments |-> cut_segments(Timeline(o), open)]]
    OBVIOUS
  <2>2. order_cuts(from, to) = {row[o] : o \in BeingCut(from, to)}
    BY <1>1, <2>1 DEF order_cuts
  <2>3. \A o \in BeingCut(from, to) : row[o].segments = cut_segments(Timeline(o), open)
    BY <2>1
  <2>4. \A s : s \in Segments(order_cuts(from, to)) <=> \E o \in BeingCut(from, to) : s \in row[o].segments
    BY <2>2 DEF Segments
  <2>5. QED
    BY <2>3, <2>4
<1>3. ASSUME NEW o \in BeingCut(from, to)
      PROVE  \A s : s \in cut_segments(Timeline(o), open)
                      <=> \E x \in Stretches(o) : \E i \in WorkedIn(x, open) : s = SegmentOf(o, x, i)
  <2>1. MarkTimes(o) # {}
    BY BeingCutFact, CountedIs
  <2>2. cut_segments(Timeline(o), open)
          = UNION {{SegmentOf(o, x, i) : i \in WorkedIn(x, open)} : x \in Stretches(o)}
    BY <2>1 DEF cut_segments, MarkTimes, Counted, Stretches, SegmentOf, PhaseOf, WorkedIn
  <2>3. QED
    BY <2>2
<1>4. ASSUME NEW o, NEW x, NEW i, NEW s, s = SegmentOf(o, x, i)
      PROVE  TicksOf(s) = Covers(i) /\ s.phase = PhaseOf(o, x)
  BY <1>4 DEF SegmentOf, TicksOf, Covers
<1>5. ASSUME NEW t \in MinutesOf(day, phases, from, to)
      PROVE  t \in Minutes(S) \cap DayTicksOf(day)
  <2>1. PICK o \in BeingCut(from, to) : \E x \in Stretches(o) :
           PhaseOf(o, x) \in phases /\ t \in Covered(WorkedIn(x, open)) /\ t \in DayTicksOf(day)
    BY <1>1 DEF MinutesOf
  <2>2. PICK x \in Stretches(o) :
           PhaseOf(o, x) \in phases /\ t \in Covered(WorkedIn(x, open)) /\ t \in DayTicksOf(day)
    BY <2>1
  <2>3. PICK i \in WorkedIn(x, open) : t \in Covers(i)
    BY <2>2 DEF Covered
  <2>4. PICK s : s = SegmentOf(o, x, i)
    OBVIOUS
  <2>5. s \in Segments(order_cuts(from, to))
    BY <1>2, <1>3, <2>4
  <2>6. s \in S /\ t \in TicksOf(s)
    BY <1>4, <2>2, <2>3, <2>4, <2>5
  <2>7. QED
    BY <2>2, <2>6 DEF Minutes
<1>6. ASSUME NEW t \in Minutes(S) \cap DayTicksOf(day)
      PROVE  t \in MinutesOf(day, phases, from, to)
  <2>1. PICK s \in S : t \in TicksOf(s)
    BY DEF Minutes
  <2>2. PICK o \in BeingCut(from, to) : s \in cut_segments(Timeline(o), open)
    BY <1>2
  <2>3. PICK x \in Stretches(o) : \E i \in WorkedIn(x, open) : s = SegmentOf(o, x, i)
    BY <1>3, <2>2
  <2>4. PICK i \in WorkedIn(x, open) : s = SegmentOf(o, x, i)
    BY <2>3
  <2>5. t \in Covers(i) /\ PhaseOf(o, x) \in phases
    BY <1>4, <2>1, <2>4
  <2>6. t \in Covered(WorkedIn(x, open))
    BY <2>5 DEF Covered
  <2>7. QED
    BY <1>1, <2>5, <2>6 DEF MinutesOf
<1>7. QED
  BY <1>5, <1>6

\* What a day reads in a range that holds it.
LEMMA DayReadFact ==
    RowsInv => \A day, from, to \in Int : from <= From(day) /\ To(day) <= to =>
        /\ BranchDay(order_cuts(from, to), day, from, to)
             = [loading |-> Cardinality(MinutesOf(day, {"loading", "sawing"}, from, to))
                              - Cardinality(MinutesOf(day, {"sawing"}, from, to)),
                sawing |-> Cardinality(MinutesOf(day, {"sawing"}, from, to))]
        /\ DayWork(BranchDay(order_cuts(from, to), day, from, to))
             = Cardinality(MinutesOf(day, {"loading", "sawing"}, from, to))
        /\ IsFiniteSet(MinutesOf(day, {"loading", "sawing"}, from, to))
<1> SUFFICES ASSUME RowsInv, NEW day \in Int, NEW from \in Int, NEW to \in Int,
                    from <= From(day), To(day) <= to
    PROVE  /\ BranchDay(order_cuts(from, to), day, from, to)
                = [loading |-> Cardinality(MinutesOf(day, {"loading", "sawing"}, from, to))
                                 - Cardinality(MinutesOf(day, {"sawing"}, from, to)),
                   sawing |-> Cardinality(MinutesOf(day, {"sawing"}, from, to))]
           /\ DayWork(BranchDay(order_cuts(from, to), day, from, to))
                = Cardinality(MinutesOf(day, {"loading", "sawing"}, from, to))
           /\ IsFiniteSet(MinutesOf(day, {"loading", "sawing"}, from, to))
  OBVIOUS
<1>1. PICK S : S = Segments(order_cuts(from, to))
  OBVIOUS
<1>2. /\ IsFiniteSet(S)
      /\ \A s \in S : s.start \in Int /\ s.end \in Int /\ s.phase \in {"loading", "sawing"}
  BY <1>1, AllSegmentsFact
<1>3. /\ Minutes(S) \cap DayTicksOf(day) = MinutesOf(day, {"loading", "sawing"}, from, to)
      /\ Minutes(Sawn(S)) \cap DayTicksOf(day) = MinutesOf(day, {"sawing"}, from, to)
  <2>1. S = {s \in Segments(order_cuts(from, to)) : s.phase \in {"loading", "sawing"}}
    BY <1>1, <1>2
  <2>2. Sawn(S) = {s \in Segments(order_cuts(from, to)) : s.phase \in {"sawing"}}
    BY <1>1 DEF Sawn
  <2>3. Minutes(S) \cap DayTicksOf(day) = MinutesOf(day, {"loading", "sawing"}, from, to)
    BY <2>1, MinutesFact
  <2>4. Minutes(Sawn(S)) \cap DayTicksOf(day) = MinutesOf(day, {"sawing"}, from, to)
    BY <2>2, MinutesFact
  <2>5. QED
    BY <2>3, <2>4
<1>4. PICK read : read = work_by_day(S, day, from, to)
  OBVIOUS
<1>5. BranchDay(order_cuts(from, to), day, from, to) = read
  BY <1>1, <1>4 DEF BranchDay
<1>6. /\ IsFiniteSet(Minutes(S) \cap DayTicksOf(day))
      /\ DayWork(read) = Cardinality(Minutes(S) \cap DayTicksOf(day))
      /\ read = [loading |-> Cardinality(Minutes(S) \cap DayTicksOf(day))
                                - Cardinality(Minutes(Sawn(S)) \cap DayTicksOf(day)),
                  sawing |-> Cardinality(Minutes(Sawn(S)) \cap DayTicksOf(day))]
  <2>1. DayCounted(S, day, from, to)
    BY <1>2, DayWorkFact
  <2>2. QED
    BY <1>4, <2>1 DEF DayCounted
<1>7. QED
  BY <1>3, <1>5, <1>6

\* Where no pause is overlooked, a timeline begins with a mark or a taking, and each of
\* its days is one that somebody marked or took something on.
LEMMA NothingOverlooked ==
    ASSUME RowsInv, ~PausesOverlooked, NEW o \in Orders, NEW e \in Timeline(o)
    PROVE  /\ \E f \in Timeline(o) : Taken(f) /\ f.at <= e.at
           /\ \E z \in Orders : \E u \in Timeline(z) : Taken(u) /\ local_date(u.at) = local_date(e.at)
<1>1. PICK at : at = [f \in Timeline(o) |-> f.at]
  OBVIOUS
<1>2. PICK A : A = {at[f] : f \in Timeline(o)}
  OBVIOUS
<1>3. \A f \in Timeline(o) : at[f] = f.at /\ f.at \in Int /\ f.kind \in {"mark", "take", "pause", "resume"}
  BY <1>1, TimelineFact
<1>4. IsFiniteSet(A) /\ A \in SUBSET Int /\ A # {}
  <2>1. IsFiniteSet(A)
    BY <1>2, TimelineFact, ImageIsFinite
  <2>2. QED
    BY <1>2, <1>3, <2>1
<1>5. PICK low \in A : \A t \in A : low <= t
  BY <1>4, LeastIsThere
<1>6. PICK f \in Timeline(o) : low = at[f]
  BY <1>2
<1>7. \A g \in Timeline(o) : f.at <= g.at
  BY <1>2, <1>3, <1>5, <1>6
<1>8. f.kind \notin {"pause", "resume"}
  BY <1>7 DEF PausesOverlooked
<1>9. Taken(f) /\ f.at <= e.at
  BY <1>3, <1>7, <1>8 DEF Taken
<1>10. ASSUME ~Taken(e)
       PROVE  \E z \in Orders : \E u \in Timeline(z) : Taken(u) /\ local_date(u.at) = local_date(e.at)
  <2>1. e.kind \in {"pause", "resume"}
    BY <1>3, <1>10 DEF Taken
  <2>2. local_date(e.at) \in open_days(AllFrom, AllTo)
    BY <2>1 DEF PausesOverlooked
  <2>3. QED
    BY <2>2, OpenDaysFact
<1>11. QED
  BY <1>9, <1>10

\* So the range of every day is open on the days of the marks and the takings, and an
\* order with a mark is cut in it.
LEMMA OpenForAll ==
    ASSUME RowsInv, ~PausesOverlooked
    PROVE  /\ \A d : d \in OpenFor(AllFrom, AllTo)
                       <=> \E z \in Orders : \E u \in Timeline(z) : Taken(u) /\ local_date(u.at) = d
           /\ \A o \in Orders : o \in BeingCut(AllFrom, AllTo) <=> \E m \in Timeline(o) : m.kind = "mark"
<1>1. \A o \in Orders : \A e \in Timeline(o) : /\ e.at \in Int /\ AllFrom \in Int /\ AllTo \in Int
                                                /\ AllFrom <= e.at /\ e.at < AllTo
  <2> SUFFICES ASSUME NEW o \in Orders, NEW e \in Timeline(o)
      PROVE  e.at \in Int /\ AllFrom \in Int /\ AllTo \in Int /\ AllFrom <= e.at /\ e.at < AllTo
    OBVIOUS
  <2>1. e.at \in Instants
    BY TimelineFact
  <2>2. e.at \in Nat /\ Within(e.at, AllFrom, AllTo) /\ local_date(e.at) \in Days
    BY <2>1, DaysHoldAll
  <2>3. AllFrom \in Int /\ AllTo \in Int
    BY <2>2, RangeOfDay
  <2>4. QED
    BY <2>2, <2>3 DEF Within
<1>2. ASSUME NEW o \in Orders
      PROVE  o \in BeingCut(AllFrom, AllTo) <=> \E m \in Timeline(o) : m.kind = "mark"
  <2>1. CASE \E e \in Timeline(o) : TRUE
    <3>1. AllFrom \in Int /\ AllTo \in Int
      BY <1>1, <2>1
    <3>2. o \in BeingCut(AllFrom, AllTo)
            <=> /\ \E m \in Timeline(o) : m.kind = "mark" /\ AllFrom <= m.at
                /\ \E e \in Timeline(o) : Taken(e) /\ e.at < AllTo
      BY <3>1, BeingCutFact
    <3>3. \A m \in Timeline(o) : m.kind = "mark" => Taken(m)
      BY DEF Taken
    <3>4. QED
      BY <1>1, <3>2, <3>3
  <2>2. CASE ~ \E e \in Timeline(o) : TRUE
    <3>1. \A e : e \notin Marks(o)
      <4>1. Timeline(o) = {}
        BY <2>2
      <4>2. QED
        BY <4>1 DEF Timeline
    <3>2. {e.at : e \in Marks(o)} = {}
      BY <3>1
    <3>3. o \notin BeingCut(AllFrom, AllTo)
      BY <3>2 DEF BeingCut
    <3>4. QED
      BY <2>2, <3>3
  <2>3. QED
    BY <2>1, <2>2
<1>3. ASSUME NEW d, NEW z \in Orders, NEW u \in Timeline(z), Taken(u), local_date(u.at) = d
      PROVE  d \in OpenFor(AllFrom, AllTo)
  <2>1. AllFrom \in Int /\ AllTo \in Int /\ AllFrom <= u.at /\ u.at < AllTo
    BY <1>1
  <2>2. QED
    BY <1>3, <2>1, OpenForFact
<1>4. ASSUME NEW d \in OpenFor(AllFrom, AllTo)
      PROVE  \E z \in Orders : \E u \in Timeline(z) : Taken(u) /\ local_date(u.at) = d
  <2>1. \/ \E o \in BeingCut(AllFrom, AllTo) : \E e \in Timeline(o) : local_date(e.at) = d
        \/ d \in open_days(Sooner(AllFrom, Min({e.at : e \in UNION {Timeline(o) : o \in BeingCut(AllFrom, AllTo)}}
                                               \union {AllFrom})), AllTo)
    BY DEF OpenFor
  <2>2. CASE \E o \in BeingCut(AllFrom, AllTo) : \E e \in Timeline(o) : local_date(e.at) = d
    <3>1. PICK o \in BeingCut(AllFrom, AllTo) : \E e \in Timeline(o) : local_date(e.at) = d
      BY <2>2
    <3>2. PICK e \in Timeline(o) : local_date(e.at) = d
      BY <3>1
    <3>3. o \in Orders
      BY DEF BeingCut
    <3>4. QED
      BY <3>2, <3>3, NothingOverlooked
  <2>3. CASE ~ \E o \in BeingCut(AllFrom, AllTo) : \E e \in Timeline(o) : local_date(e.at) = d
    BY <2>1, <2>3, OpenDaysFact
  <2>4. QED
    BY <2>2, <2>3
<1>5. QED
  BY <1>2, <1>3, <1>4

\* A day reads the same minutes in its own range and in that of every day.
LEMMA SameMinutes ==
    ASSUME RowsInv, ~PausesOverlooked, NEW day \in Days, NEW phases
    PROVE  MinutesOf(day, phases, AllFrom, AllTo) = MinutesOf(day, phases, From(day), To(day))
<1>1. PICK open, few : open = OpenFor(AllFrom, AllTo) /\ few = OpenFor(From(day), To(day))
  OBVIOUS
<1>2. /\ day \in Int /\ AllFrom \in Int /\ AllTo \in Int /\ From(day) \in Int /\ To(day) \in Int
      /\ From(day) < To(day)
  BY RangeOfDay
<1>3. \A o \in BeingCut(From(day), To(day)) : o \in Orders /\ o \in BeingCut(AllFrom, AllTo)
  <2> SUFFICES ASSUME NEW o \in BeingCut(From(day), To(day))
      PROVE  o \in Orders /\ o \in BeingCut(AllFrom, AllTo)
    OBVIOUS
  <2>1. o \in Orders /\ \E m \in Timeline(o) : m.kind = "mark"
    BY <1>2, BeingCutFact
  <2>2. QED
    BY <2>1, OpenForAll
<1>4. ASSUME NEW d \in few
      PROVE  d \in open
  <2>1. \/ \E o \in BeingCut(From(day), To(day)) : \E e \in Timeline(o) : local_date(e.at) = d
        \/ \E o \in Orders : \E u \in Timeline(o) : Taken(u) /\ local_date(u.at) = d
    BY <1>1, <1>2, OpenForFact
  <2>2. CASE \E o \in BeingCut(From(day), To(day)) : \E e \in Timeline(o) : local_date(e.at) = d
    <3>1. PICK o \in BeingCut(From(day), To(day)) : \E e \in Timeline(o) : local_date(e.at) = d
      BY <2>2
    <3>2. PICK e \in Timeline(o) : local_date(e.at) = d
      BY <3>1
    <3>3. QED
      BY <1>1, <1>3, <3>2, OpenForAll, NothingOverlooked
  <2>3. CASE ~ \E o \in BeingCut(From(day), To(day)) : \E e \in Timeline(o) : local_date(e.at) = d
    BY <1>1, <2>1, <2>3, OpenForAll
  <2>4. QED
    BY <2>2, <2>3
<1>5. few \subseteq open
  BY <1>4
<1>6. ASSUME NEW o \in Orders, o \in BeingCut(AllFrom, AllTo), NEW x \in Stretches(o)
      PROVE  /\ x[1] \in Timeline(o) /\ x[2] \in Timeline(o)
             /\ x[1].at \in Int /\ x[2].at \in Int /\ x[1].at <= x[2].at
             /\ x[1].kind # "pause"
             /\ \E m \in Timeline(o) : m.kind = "mark" /\ x[2].at <= m.at
  <2>1. MarkTimes(o) # {}
    BY <1>6, OpenForAll, CountedIs
  <2>2. x[2] \in Counted(o)
    BY <2>1, StretchFact
  <2>3. \E m \in Timeline(o) : m.kind = "mark" /\ x[2].at <= m.at
    BY <2>1, <2>2, CountedIs
  <2>4. QED
    BY <2>1, <2>3, StretchFact
<1>7. ASSUME NEW o \in BeingCut(From(day), To(day)), NEW x \in Stretches(o),
             NEW t \in Covered(WorkedIn(x, few))
      PROVE  t \in Covered(WorkedIn(x, open))
  <2>1. o \in Orders /\ o \in BeingCut(AllFrom, AllTo)
    BY <1>3
  <2>2. x[2] \in Timeline(o) /\ x[1].at \in Int /\ x[2].at \in Int
    BY <1>6, <2>1
  <2>3. local_date(x[2].at) \in few
    BY <1>1, <1>2, <2>2, OpenForFact
  <2>4. QED
    BY <1>5, <2>2, <2>3, WorkedGrows DEF WorkedIn
<1>8. ASSUME NEW o \in BeingCut(AllFrom, AllTo), NEW x \in Stretches(o),
             NEW t \in Covered(WorkedIn(x, open)), t \in DayTicksOf(day)
      PROVE  o \in BeingCut(From(day), To(day)) /\ t \in Covered(WorkedIn(x, few))
  <2>1. o \in Orders
    BY DEF BeingCut
  <2>2. /\ x[1] \in Timeline(o) /\ x[2] \in Timeline(o)
        /\ x[1].at \in Int /\ x[2].at \in Int /\ x[1].at <= x[2].at
    BY <1>6, <2>1
  <2>3. PICK m \in Timeline(o) : m.kind = "mark" /\ x[2].at <= m.at
    BY <1>6, <2>1
  <2>4. t \in Int /\ x[1].at <= t /\ t < x[2].at
    <3>1. PICK i \in WorkedIn(x, open) : t \in Covers(i)
      BY DEF Covered
    <3>2. i \in Int \X Int /\ Inside(i, x[1].at, x[2].at)
      BY <2>2, <3>1, WorkedFact DEF WorkedIn
    <3>3. i[1] \in Int /\ i[2] \in Int /\ t \in Int /\ i[1] <= t /\ t < i[2]
      BY <3>1, <3>2 DEF Covers
    <3>4. QED
      BY <2>2, <3>2, <3>3 DEF Inside
  <2>5. From(day) <= t /\ t < To(day)
    BY <1>2, <1>8, <2>4 DEF DayTicksOf
  <2>6. PICK f \in Timeline(o) : Taken(f) /\ f.at <= x[1].at
    BY <2>1, <2>2, NothingOverlooked
  <2>7. m.at \in Int /\ f.at \in Int
    BY <2>1, TimelineFact
  <2>8. o \in BeingCut(From(day), To(day))
    <3>1. From(day) <= m.at /\ f.at < To(day)
      BY <1>2, <2>2, <2>3, <2>4, <2>5, <2>6, <2>7
    <3>2. QED
      BY <1>2, <2>1, <2>3, <2>6, <3>1, BeingCutFact
  <2>9. local_date(x[2].at) \in few
    BY <1>1, <1>2, <2>2, <2>8, OpenForFact
  <2>10. ASSUME NEW d \in Int, d <= day, x[1].at < To(d), d \in open
         PROVE  d \in few
    <3>1. local_date(x[1].at) \in Int /\ local_date(x[1].at) <= d
      BY <2>2, <2>10, InTheDay
    <3>2. CASE local_date(x[1].at) = d
      BY <1>1, <1>2, <2>2, <2>8, <3>2, OpenForFact
    <3>3. CASE local_date(x[1].at) # d
      <4>1. PICK z \in Orders : \E u \in Timeline(z) : Taken(u) /\ local_date(u.at) = d
        BY <1>1, <2>10, OpenForAll
      <4>2. PICK u \in Timeline(z) : Taken(u) /\ local_date(u.at) = d
        BY <4>1
      <4>3. u.at \in Int
        BY TimelineFact
      <4>4. From(d) <= u.at /\ u.at < To(d) /\ From(d) \in Int /\ To(d) \in Int /\ To(d) <= To(day)
        <5>1. From(d) <= u.at /\ u.at < To(d)
          BY <2>10, <4>2, <4>3, InTheDay
        <5>2. From(d) \in Int /\ To(d) \in Int /\ To(d) <= To(day)
          BY <1>2, <2>10, DaysInOrder
        <5>3. QED
          BY <5>1, <5>2
      <4>5. ~(From(d) <= x[1].at)
        BY <2>2, <2>10, <3>1, <3>3, InTheDay
      <4>6. x[1].at <= u.at /\ u.at < To(day)
        BY <1>2, <2>2, <4>3, <4>4, <4>5
      <4>7. QED
        BY <1>1, <1>2, <2>2, <2>8, <4>2, <4>6, OpenForFact
    <3>4. QED
      BY <3>2, <3>3
  <2>11. \A d \in Int : d <= day /\ x[1].at < To(d) /\ d \in open => d \in few
    BY <2>10
  <2>12. t \in Covered(WorkedIn(x, few))
    BY <1>2, <1>5, <1>8, <2>2, <2>9, <2>11, WorkedOfTheDay DEF WorkedIn
  <2>13. QED
    BY <2>8, <2>12
<1>9. ASSUME NEW t \in MinutesOf(day, phases, AllFrom, AllTo)
      PROVE  t \in MinutesOf(day, phases, From(day), To(day))
  <2>1. PICK o \in BeingCut(AllFrom, AllTo) : \E x \in Stretches(o) :
           /\ PhaseOf(o, x) \in phases /\ t \in Covered(WorkedIn(x, open)) /\ t \in DayTicksOf(day)
    BY <1>1 DEF MinutesOf
  <2>2. PICK x \in Stretches(o) :
           /\ PhaseOf(o, x) \in phases /\ t \in Covered(WorkedIn(x, open)) /\ t \in DayTicksOf(day)
    BY <2>1
  <2>3. o \in BeingCut(From(day), To(day)) /\ t \in Covered(WorkedIn(x, few))
    BY <1>8, <2>2
  <2>4. QED
    BY <1>1, <2>2, <2>3 DEF MinutesOf
<1>10. ASSUME NEW t \in MinutesOf(day, phases, From(day), To(day))
       PROVE  t \in MinutesOf(day, phases, AllFrom, AllTo)
  <2>1. PICK o \in BeingCut(From(day), To(day)) : \E x \in Stretches(o) :
           /\ PhaseOf(o, x) \in phases /\ t \in Covered(WorkedIn(x, few)) /\ t \in DayTicksOf(day)
    BY <1>1 DEF MinutesOf
  <2>2. PICK x \in Stretches(o) :
           /\ PhaseOf(o, x) \in phases /\ t \in Covered(WorkedIn(x, few)) /\ t \in DayTicksOf(day)
    BY <2>1
  <2>3. o \in BeingCut(AllFrom, AllTo) /\ t \in Covered(WorkedIn(x, open))
    BY <1>3, <1>7, <2>2
  <2>4. QED
    BY <1>1, <2>2, <2>3 DEF MinutesOf
<1>11. QED
  BY <1>9, <1>10

\* Of ReportsAgree, SameInEveryRange: a day's loading and sawing are the same in the range
\* of the day and in that of every day, wherever no pause is overlooked.
THEOREM DaysReadAlike ==
    ReportsSpec => [](\A day \in Days : SameInEveryRange(order_cuts(AllFrom, AllTo), day))
<1>1. RowsInv => \A day \in Days : SameInEveryRange(order_cuts(AllFrom, AllTo), day)
  <2> SUFFICES ASSUME RowsInv, NEW day \in Days, ~PausesOverlooked
      PROVE  BranchDay(order_cuts(AllFrom, AllTo), day, AllFrom, AllTo)
               = BranchDay(order_cuts(From(day), To(day)), day, From(day), To(day))
    BY DEF SameInEveryRange
  <2>1. /\ day \in Int /\ AllFrom \in Int /\ AllTo \in Int /\ From(day) \in Int /\ To(day) \in Int
        /\ AllFrom <= From(day) /\ From(day) <= From(day) /\ To(day) <= To(day) /\ To(day) <= AllTo
    BY RangeOfDay
  <2>2. /\ MinutesOf(day, {"loading", "sawing"}, AllFrom, AllTo)
             = MinutesOf(day, {"loading", "sawing"}, From(day), To(day))
        /\ MinutesOf(day, {"sawing"}, AllFrom, AllTo) = MinutesOf(day, {"sawing"}, From(day), To(day))
    BY SameMinutes
  <2>3. PICK all, saw :
           /\ all = Cardinality(MinutesOf(day, {"loading", "sawing"}, AllFrom, AllTo))
           /\ saw = Cardinality(MinutesOf(day, {"sawing"}, AllFrom, AllTo))
    OBVIOUS
  <2>4. BranchDay(order_cuts(AllFrom, AllTo), day, AllFrom, AllTo) = [loading |-> all - saw, sawing |-> saw]
    BY <2>1, <2>3, DayReadFact
  <2>5. BranchDay(order_cuts(From(day), To(day)), day, From(day), To(day))
          = [loading |-> all - saw, sawing |-> saw]
    BY <2>1, <2>2, <2>3, DayReadFact
  <2>6. QED
    BY <2>4, <2>5
<1>2. QED
  BY <1>1, RowsSafe, PTL

\* What a request may do to the rows and leave what was read standing: it adds marks, a
\* taking, a pause or the end of one, at its own instant.
MarksGrow ==
    \A p \in Slips : \/ marked'[p] = marked[p] /\ marker'[p] = marker[p]
                     \/ marked[p] = Never /\ marked'[p] = clock'
TakingGrows(o) ==
    \/ begun'[Cut(o)] = begun[Cut(o)]
    \/ begun[Cut(o)] = Never /\ begun'[Cut(o)] = clock'
StopsGrow(o) ==
    /\ \A s \in stops[Cut(o)] : \E q \in stops'[Cut(o)] :
          q.from = s.from /\ q.user = s.user /\ (s.to # Never => q.to = s.to)
    /\ \A q \in stops'[Cut(o)] :
          /\ q.from = clock' \/ \E s \in stops[Cut(o)] : q.from = s.from /\ q.user = s.user
          /\ q.to = Never \/ q.to = clock' \/ \E s \in stops[Cut(o)] : s.to # Never /\ q.to = s.to
RowsGrow == MarksGrow /\ \A o \in Orders : TakingGrows(o) /\ StopsGrow(o)

\* Whoever has not started has no start.
StartsAgree == \A a \in Acts : stage[a] = "pending" => begun[a] = Never

\* A pause that ends keeps its start and its author.
LEMMA EndedGrows ==
    ASSUME RowsInv, NEW a \in Acts, NEW o \in Orders, stops' = [stops EXCEPT ![a] = Ended(a)]
    PROVE  StopsGrow(o)
<1>1. Cut(o) \in Acts
  BY ActsFact
<1>2. CASE a # Cut(o)
  <2>1. stops'[Cut(o)] = stops[Cut(o)]
    BY <1>2
  <2>2. QED
    BY <2>1 DEF StopsGrow
<1>3. CASE a = Cut(o)
  <2>1. stops = [b \in Acts |-> stops[b]]
    BY DEF RowsInv, StopsAgree
  <2>2. stops'[a] = Ended(a)
    BY <2>1
  <2>3. \A s \in stops[a] : s = [from |-> s.from, to |-> s.to, user |-> s.user]
    BY DEF RowsInv, StopsAgree, IsPause
  <2>4. ASSUME NEW s \in stops[a]
        PROVE  LET q == IF s.to = Never THEN [s EXCEPT !.to = clock'] ELSE s
               IN  /\ q \in stops'[a]
                   /\ q.from = s.from /\ q.user = s.user
                   /\ q.to = IF s.to = Never THEN clock' ELSE s.to
    <3>1. PICK q : q = IF s.to = Never THEN [s EXCEPT !.to = clock'] ELSE s
      OBVIOUS
    <3>2. q \in stops'[a]
      BY <2>2, <3>1 DEF Ended
    <3>3. PICK f, t, u : s = [from |-> f, to |-> t, user |-> u] /\ f = s.from /\ t = s.to /\ u = s.user
      BY <2>3
    <3>4. q = [from |-> f, to |-> IF s.to = Never THEN clock' ELSE s.to, user |-> u]
      BY <3>1, <3>3
    <3>5. q.from = f /\ q.user = u /\ q.to = IF s.to = Never THEN clock' ELSE s.to
      BY <3>4
    <3>6. QED
      BY <3>1, <3>2, <3>3, <3>5
  <2>5. \A q \in stops'[a] : \E s \in stops[a] :
           q.from = s.from /\ q.user = s.user /\ q.to = IF s.to = Never THEN clock' ELSE s.to
    <3>1. \A q \in stops'[a] : \E s \in stops[a] : q = IF s.to = Never THEN [s EXCEPT !.to = clock'] ELSE s
      BY <2>2 DEF Ended
    <3>2. QED
      BY <2>4, <3>1
  <2>6. \A s \in stops[a] : \E q \in stops'[a] :
           q.from = s.from /\ q.user = s.user /\ (s.to # Never => q.to = s.to)
    BY <2>4
  <2>7. \A q \in stops'[a] :
           /\ \E s \in stops[a] : q.from = s.from /\ q.user = s.user
           /\ q.to = clock' \/ \E s \in stops[a] : s.to # Never /\ q.to = s.to
    BY <2>5
  <2>8. \A q \in stops'[a] :
           /\ q.from = clock' \/ \E s \in stops[a] : q.from = s.from /\ q.user = s.user
           /\ q.to = Never \/ q.to = clock' \/ \E s \in stops[a] : s.to # Never /\ q.to = s.to
    BY <2>7
  <2>9. PICK c : c = Cut(o) /\ c = a
    BY <1>3
  <2>10. QED
    BY <2>6, <2>8, <2>9 DEF StopsGrow
<1>4. QED
  BY <1>2, <1>3

\* Every request that takes nothing back only adds to the rows.
LEMMA RequestsAdd ==
    ASSUME RowsInv, StartsAgree, [ReportsNext]_reportVars, ~TakesBack
    PROVE  RowsGrow
<1>1. \A o \in Orders : Cut(o) \in Acts
  BY ActsFact
<1>2. /\ stops = [b \in Acts |-> stops[b]] /\ begun = [b \in Acts |-> begun[b]]
      /\ marked = [p \in Slips |-> marked[p]] /\ marker = [p \in Slips |-> marker[p]]
  BY DEF RowsInv, ColumnsTyped, StopsAgree
<1>3. ASSUME UNCHANGED <<marked, marker>> PROVE MarksGrow
  BY <1>3 DEF MarksGrow
<1>4. ASSUME UNCHANGED begun PROVE \A o \in Orders : TakingGrows(o)
  BY <1>4 DEF TakingGrows
<1>5. ASSUME UNCHANGED stops PROVE \A o \in Orders : StopsGrow(o)
  BY <1>5 DEF StopsGrow
<1>6. ASSUME NEW a \in Acts, Start(a)
      PROVE  RowsGrow
  <2>1. begun[a] = Never /\ begun' = [begun EXCEPT ![a] = clock'] /\ UNCHANGED <<stops, marked, marker>>
    BY <1>6 DEF Start, StartsAgree
  <2>2. \A o \in Orders : TakingGrows(o)
    BY <1>1, <1>2, <2>1 DEF TakingGrows
  <2>3. QED
    BY <1>3, <1>5, <2>1, <2>2 DEF RowsGrow
<1>7. ASSUME NEW p \in Slips, NEW u \in Staff, Mark(p, u)
      PROVE  RowsGrow
  <2>1. /\ marked[p] = Never /\ marked' = [marked EXCEPT ![p] = clock']
        /\ marker' = [marker EXCEPT ![p] = u] /\ UNCHANGED <<begun, stops>>
    BY <1>7 DEF Mark, pauseless
  <2>2. MarksGrow
    BY <1>2, <2>1 DEF MarksGrow
  <2>3. QED
    BY <1>4, <1>5, <2>1, <2>2 DEF RowsGrow
<1>8. ASSUME NEW p \in Slips, Unmark(p)
      PROVE  FALSE
  <2>1. marked[p] # Never /\ marked' = [marked EXCEPT ![p] = Never]
    BY <1>8 DEF Unmark
  <2>2. marked'[p] = Never
    BY <1>2, <2>1
  <2>3. QED
    BY <2>1, <2>2 DEF TakesBack
<1>9. ASSUME NEW a \in Acts, NEW u \in Staff, Pause(a, u)
      PROVE  RowsGrow
  <2>1. PICK n : n = [from |-> clock', to |-> Never, user |-> u]
    OBVIOUS
  <2>2. stops' = [stops EXCEPT ![a] = @ \union {n}] /\ UNCHANGED <<begun, marked, marker>>
    BY <1>9, <2>1 DEF Pause, pauseless
  <2>3. ASSUME NEW o \in Orders
        PROVE  StopsGrow(o)
    <3>1. stops'[Cut(o)] = stops[Cut(o)] \/ stops'[Cut(o)] = stops[Cut(o)] \union {n}
      BY <1>1, <1>2, <2>2
    <3>2. n.from = clock' /\ n.to = Never
      BY <2>1
    <3>3. QED
      BY <3>1, <3>2 DEF StopsGrow
  <2>4. QED
    BY <1>3, <1>4, <2>2, <2>3 DEF RowsGrow
<1>10. ASSUME NEW a \in Acts, Resume(a)
       PROVE  RowsGrow
  <2>1. stops' = [stops EXCEPT ![a] = Ended(a)] /\ UNCHANGED <<begun, marked, marker>>
    BY <1>10 DEF Resume, pauseless
  <2>2. QED
    BY <1>3, <1>4, <2>1, EndedGrows DEF RowsGrow
<1>11. ASSUME NEW a \in Acts, NEW u \in Staff, Finish(a, u)
       PROVE  RowsGrow
  <2>1. UNCHANGED <<begun, stops, marked, marker>>
    BY <1>11 DEF Finish
  <2>2. QED
    BY <1>3, <1>4, <1>5, <2>1 DEF RowsGrow
<1>12. ASSUME NEW o \in Orders, SendBack(o)
       PROVE  RowsGrow
  <2>1. /\ begun' = [begun EXCEPT ![Cut(o)] = Never] /\ stops' = [stops EXCEPT ![Cut(o)] = Ended(Cut(o))]
        /\ UNCHANGED <<marked, marker>>
    BY <1>12 DEF SendBack
  <2>2. begun'[Cut(o)] = Never
    BY <1>1, <1>2, <2>1
  <2>3. begun[Cut(o)] = Never
    BY <2>2 DEF TakesBack
  <2>4. \A z \in Orders : TakingGrows(z)
    BY <1>1, <1>2, <2>1, <2>3 DEF TakingGrows
  <2>5. \A z \in Orders : StopsGrow(z)
    BY <1>1, <2>1, EndedGrows
  <2>6. QED
    BY <1>3, <2>1, <2>4, <2>5 DEF RowsGrow
<1>13. CASE UNCHANGED reportVars
  BY <1>3, <1>4, <1>5, <1>13 DEF RowsGrow, reportVars
<1>14. CASE ReportsNext
  BY <1>6, <1>7, <1>8, <1>9, <1>10, <1>11, <1>12, <1>14 DEF ReportsNext, RowsNext
<1>15. QED
  BY <1>13, <1>14

\* Whoever has not started has no start, whatever happens.
LEMMA StartsKeep == RowsInv /\ StartsAgree /\ [ReportsNext]_reportVars => StartsAgree'
<1> SUFFICES ASSUME RowsInv, StartsAgree, [ReportsNext]_reportVars, NEW b \in Acts, stage'[b] = "pending"
    PROVE  begun'[b] = Never
  BY DEF StartsAgree
<1>1. stage = [a \in Acts |-> stage[a]] /\ begun = [a \in Acts |-> begun[a]]
  BY DEF RowsInv, ColumnsTyped
<1>2. ASSUME stage'[b] = stage[b], begun'[b] = begun[b] PROVE begun'[b] = Never
  BY <1>2 DEF StartsAgree
<1>3. ASSUME NEW a \in Acts, Start(a) PROVE begun'[b] = Never
  <2>1. stage' = [stage EXCEPT ![a] = "in_progress"] /\ begun' = [begun EXCEPT ![a] = clock']
    BY <1>3 DEF Start
  <2>2. b # a
    BY <1>1, <2>1
  <2>3. QED
    BY <1>1, <1>2, <2>1, <2>2
<1>4. ASSUME NEW a \in Acts, NEW u \in Staff, Finish(a, u) PROVE begun'[b] = Never
  <2>1. stage' = [stage EXCEPT ![a] = "done"] /\ begun' = begun
    BY <1>4 DEF Finish
  <2>2. b # a
    BY <1>1, <2>1
  <2>3. QED
    BY <1>1, <1>2, <2>1, <2>2
<1>5. ASSUME NEW o \in Orders, SendBack(o) PROVE begun'[b] = Never
  <2>1. stage' = [stage EXCEPT ![Cut(o)] = "pending"] /\ begun' = [begun EXCEPT ![Cut(o)] = Never]
    BY <1>5 DEF SendBack
  <2>2. CASE b = Cut(o)
    BY <1>1, <2>1, <2>2
  <2>3. CASE b # Cut(o)
    BY <1>1, <1>2, <2>1, <2>3
  <2>4. QED
    BY <2>2, <2>3
<1>6. CASE UNCHANGED <<stage, begun>>
  BY <1>2, <1>6
<1>7. \/ UNCHANGED <<stage, begun>>
      \/ \E a \in Acts : Start(a) \/ \E u \in Staff : Finish(a, u)
      \/ \E o \in Orders : SendBack(o)
  <2>1. CASE UNCHANGED reportVars
    BY <2>1 DEF reportVars
  <2>2. CASE ReportsNext
    BY <2>2 DEF ReportsNext, RowsNext, Mark, Unmark, Pause, Resume, pauseless
  <2>3. QED
    BY <2>1, <2>2
<1>8. QED
  BY <1>3, <1>4, <1>5, <1>6, <1>7

\* What the readers see, before a request and after it.
LEMMA TimelinesAre == RowsInv => \A z \in Orders : \A e : e \in Timeline(z) <=> OnRecord(z, e)
BY TimelineFact

\* A timeline after the request.
LEMMA TimelinesAreNext ==
    (RowsInv => \A z \in Orders : \A e : e \in Timeline(z) <=> OnRecord(z, e))'
BY TimelinesAre, PTL

\* What it counts after the request.
LEMMA CountedIsNext ==
    (RowsInv => \A z \in Orders :
        /\ MarkTimes(z) # {} <=> \E m \in Timeline(z) : m.kind = "mark"
        /\ MarkTimes(z) # {} => \A e :
              e \in Counted(z) <=> /\ e \in Timeline(z)
                                   /\ \E m \in Timeline(z) : m.kind = "mark" /\ e.at <= m.at)'
BY CountedIs, PTL

\* The orders of a range after the request.
LEMMA BeingCutNext ==
    (RowsInv => \A low, top \in Int : \A z :
        z \in BeingCut(low, top)
          <=> /\ z \in Orders
              /\ \E m \in Timeline(z) : m.kind = "mark" /\ low <= m.at
              /\ \E e \in Timeline(z) : Taken(e) /\ e.at < top)'
BY BeingCutFact, PTL

\* The days open to it after the request.
LEMMA OpenForNext ==
    (RowsInv => \A low, top \in Int : \A c :
        c \in OpenFor(low, top)
          <=> \/ \E o \in BeingCut(low, top) : \E e \in Timeline(o) : local_date(e.at) = c
              \/ \E o \in Orders : \E u \in Timeline(o) :
                    /\ Taken(u) /\ u.at < top /\ local_date(u.at) = c
                    /\ \/ low <= u.at
                       \/ \E z \in BeingCut(low, top) : \E e \in Timeline(z) : e.at <= u.at)'
BY OpenForFact, PTL

\* So each timeline keeps its events, and gains only later ones.
LEMMA TimelinesGrow ==
    ASSUME RowsInv, RowsInv', RowsGrow, NEW o \in Orders
    PROVE  /\ \A e \in Timeline(o) : e \in Timeline(o)'
           /\ \A e \in Timeline(o)' : e \in Timeline(o) \/ e.at = clock'
<1>1. /\ \A e : e \in Timeline(o) <=> OnRecord(o, e)
      /\ \A e : e \in Timeline(o)' <=> OnRecord(o, e)'
  <2>1. (RowsInv => \A z \in Orders : \A e : e \in Timeline(z) <=> OnRecord(z, e))'
    BY TimelinesAreNext
  <2>2. QED
    BY <2>1, TimelinesAre
<1>2. /\ \A p \in SlipsOf(o) : \/ marked'[p] = marked[p] /\ marker'[p] = marker[p]
                               \/ marked[p] = Never /\ marked'[p] = clock'
      /\ TakingGrows(o) /\ StopsGrow(o)
  BY DEF RowsGrow, MarksGrow, SlipsOf
<1>3. SlipsOf(o)' = SlipsOf(o)
  BY DEF SlipsOf
<1>4. ASSUME NEW e, OnRecord(o, e)
      PROVE  OnRecord(o, e)'
  <2>1. ASSUME NEW p \in SlipsOf(o), marked[p] # Never,
               e = [at |-> marked[p], kind |-> "mark", user |-> marker[p]]
        PROVE  OnRecord(o, e)'
    BY <1>2, <1>3, <2>1 DEF OnRecord
  <2>2. ASSUME begun[Cut(o)] # Never, e = [at |-> begun[Cut(o)], kind |-> "take"]
        PROVE  OnRecord(o, e)'
    BY <1>2, <2>2 DEF OnRecord, TakingGrows, Cut
  <2>3. ASSUME NEW s \in stops[Cut(o)], e = [at |-> s.from, kind |-> "pause", user |-> s.user]
        PROVE  OnRecord(o, e)'
    <3>1. PICK q \in stops'[Cut(o)] : q.from = s.from /\ q.user = s.user
      BY <1>2 DEF StopsGrow
    <3>2. e = [at |-> q.from, kind |-> "pause", user |-> q.user]
      BY <2>3, <3>1
    <3>3. QED
      BY <3>2 DEF OnRecord, Cut
  <2>4. ASSUME NEW s \in stops[Cut(o)], s.to # Never, e = [at |-> s.to, kind |-> "resume"]
        PROVE  OnRecord(o, e)'
    <3>1. PICK q \in stops'[Cut(o)] : q.to = s.to
      BY <1>2, <2>4 DEF StopsGrow
    <3>2. e = [at |-> q.to, kind |-> "resume"] /\ q.to # Never
      BY <2>4, <3>1
    <3>3. QED
      BY <3>2 DEF OnRecord, Cut
  <2>5. QED
    BY <1>4, <2>1, <2>2, <2>3, <2>4 DEF OnRecord
<1>5. ASSUME NEW e, OnRecord(o, e)'
      PROVE  OnRecord(o, e) \/ e.at = clock'
  <2>1. ASSUME NEW p \in SlipsOf(o), marked'[p] # Never,
               e = [at |-> marked'[p], kind |-> "mark", user |-> marker'[p]]
        PROVE  OnRecord(o, e) \/ e.at = clock'
    <3>1. CASE marked'[p] = marked[p] /\ marker'[p] = marker[p]
      BY <2>1, <3>1 DEF OnRecord
    <3>2. CASE marked'[p] = clock'
      BY <2>1, <3>2
    <3>3. QED
      BY <1>2, <3>1, <3>2
  <2>2. ASSUME begun'[Cut(o)] # Never, e = [at |-> begun'[Cut(o)], kind |-> "take"]
        PROVE  OnRecord(o, e) \/ e.at = clock'
    BY <1>2, <2>2 DEF OnRecord, TakingGrows
  <2>3. ASSUME NEW q \in stops'[Cut(o)], e = [at |-> q.from, kind |-> "pause", user |-> q.user]
        PROVE  OnRecord(o, e) \/ e.at = clock'
    <3>1. CASE q.from = clock'
      BY <2>3, <3>1
    <3>2. CASE \E s \in stops[Cut(o)] : q.from = s.from /\ q.user = s.user
      <4>1. PICK s \in stops[Cut(o)] : q.from = s.from /\ q.user = s.user
        BY <3>2
      <4>2. e = [at |-> s.from, kind |-> "pause", user |-> s.user]
        BY <2>3, <4>1
      <4>3. QED
        BY <4>2 DEF OnRecord
    <3>3. QED
      BY <1>2, <3>1, <3>2 DEF StopsGrow
  <2>4. ASSUME NEW q \in stops'[Cut(o)], q.to # Never, e = [at |-> q.to, kind |-> "resume"]
        PROVE  OnRecord(o, e) \/ e.at = clock'
    <3>1. CASE q.to = clock'
      BY <2>4, <3>1
    <3>2. CASE \E s \in stops[Cut(o)] : s.to # Never /\ q.to = s.to
      <4>1. PICK s \in stops[Cut(o)] : s.to # Never /\ q.to = s.to
        BY <3>2
      <4>2. e = [at |-> s.to, kind |-> "resume"]
        BY <2>4, <4>1
      <4>3. QED
        BY <4>1, <4>2 DEF OnRecord
    <3>3. QED
      BY <1>2, <2>4, <3>1, <3>2 DEF StopsGrow
  <2>5. QED
    BY <1>3, <1>5, <2>1, <2>2, <2>3, <2>4 DEF OnRecord, Cut
<1>6. QED
  BY <1>1, <1>4, <1>5

\* A stretch once counted stays one: what comes later cannot fall between its events.
LEMMA StretchesGrow ==
    ASSUME RowsInv, RowsInv', RowsGrow, clock < clock' \/ UNCHANGED reportVars,
           NEW o \in Orders, MarkTimes(o) # {}, NEW x \in Stretches(o)
    PROVE  x \in Stretches(o)'
<1>1. MarkTimes(o)' # {} /\ \A e : e \in Counted(o)' <=>
         e \in Timeline(o)' /\ \E m \in Timeline(o)' : m.kind = "mark" /\ e.at <= m.at
  <2>1. (RowsInv => \A z \in Orders :
           /\ MarkTimes(z) # {} <=> \E m \in Timeline(z) : m.kind = "mark"
           /\ MarkTimes(z) # {} => \A e :
                 e \in Counted(z) <=> /\ e \in Timeline(z)
                                      /\ \E m \in Timeline(z) : m.kind = "mark" /\ e.at <= m.at)'
    BY CountedIsNext
  <2>2. \E m \in Timeline(o) : m.kind = "mark"
    BY CountedIs
  <2>3. \E m \in Timeline(o)' : m.kind = "mark"
    BY <2>2, TimelinesGrow
  <2>4. MarkTimes(o)' # {}
    BY <2>1, <2>3
  <2>5. QED
    BY <2>1, <2>4
<1>2. ASSUME NEW e \in Counted(o)
      PROVE  e \in Counted(o)'
  <2>1. e \in Timeline(o) /\ \E m \in Timeline(o) : m.kind = "mark" /\ e.at <= m.at
    BY CountedIs
  <2>2. QED
    BY <1>1, <2>1, TimelinesGrow
<1>3. /\ x \in Counted(o) \X Counted(o) /\ Before(x[1], x[2])
      /\ ~ \E e \in Counted(o) : Before(x[1], e) /\ Before(e, x[2])
      /\ x[2].kind \in {"mark", "pause"} /\ x[1].kind # "pause"
  BY DEF Stretches, WorkedStretches, Consecutive
<1>4. x[2].at \in Nat /\ x[2].at <= clock /\ clock \in Int /\ clock' \in Int
  <2>1. x[2] \in Timeline(o)
    BY StretchFact
  <2>2. clock \in Int /\ clock' \in Int
    BY ShopReportsAssumption DEF RowsInv, ColumnsTyped
  <2>3. QED
    BY <2>1, <2>2, TimelineFact
<1>5. ASSUME NEW e \in Counted(o)', Before(x[1], e), Before(e, x[2])
      PROVE  FALSE
  <2>1. e \in Timeline(o)'
    BY <1>1
  <2>2. e.at = x[2].at \/ e.at < x[2].at
    BY <1>5 DEF Before
  <2>3. ASSUME clock < clock' PROVE e \in Timeline(o)
    <3>1. e.at # clock'
      BY <1>4, <2>2, <2>3
    <3>2. QED
      BY <2>1, <3>1, TimelinesGrow
  <2>4. ASSUME UNCHANGED reportVars PROVE e \in Timeline(o)
    <3>1. Timeline(o)' = Timeline(o)
      BY <2>4 DEF reportVars, Timeline, Marks, SlipsOf, Cut
    <3>2. QED
      BY <2>1, <3>1
  <2>5. e \in Timeline(o)
    BY <2>3, <2>4
  <2>6. e.at \in Nat
    BY <2>5, TimelineFact
  <2>7. e.at <= x[2].at
    BY <1>4, <1>5, <2>6 DEF Before
  <2>8. e \in Counted(o)
    BY <2>5, <2>7, CountedFact, StretchFact
  <2>9. QED
    BY <1>3, <1>5, <2>8
<1>6. x \in Counted(o)' \X Counted(o)'
  BY <1>2, <1>3
<1>7. x \in WorkedStretches(Counted(o)')
  BY <1>3, <1>5, <1>6 DEF WorkedStretches, Consecutive
<1>8. QED
  BY <1>7 DEF Stretches

\* So what a day read in its own range it goes on reading.
LEMMA MinutesGrow ==
    ASSUME RowsInv, RowsInv', RowsGrow, clock < clock' \/ UNCHANGED reportVars,
           NEW day \in Int, NEW from \in Int, NEW to \in Int,
           NEW phases, phases = {"loading", "sawing"}, NEW t \in MinutesOf(day, phases, from, to)
    PROVE  t \in MinutesOf(day, phases, from, to)'
<1>1. PICK open, more : open = OpenFor(from, to) /\ more = OpenFor(from, to)'
  OBVIOUS
<1>2. ASSUME NEW o \in BeingCut(from, to)
      PROVE  o \in Orders /\ MarkTimes(o) # {} /\ o \in BeingCut(from, to)'
  <2>1. (RowsInv => \A low, top \in Int : \A z :
           z \in BeingCut(low, top)
             <=> /\ z \in Orders
                 /\ \E m \in Timeline(z) : m.kind = "mark" /\ low <= m.at
                 /\ \E e \in Timeline(z) : Taken(e) /\ e.at < top)'
    BY BeingCutNext
  <2>2. /\ o \in Orders
        /\ \E m \in Timeline(o) : m.kind = "mark" /\ from <= m.at
        /\ \E e \in Timeline(o) : Taken(e) /\ e.at < to
    BY BeingCutFact
  <2>3. MarkTimes(o) # {}
    BY <2>2, CountedIs
  <2>4. /\ \E m \in Timeline(o)' : m.kind = "mark" /\ from <= m.at
        /\ \E e \in Timeline(o)' : Taken(e) /\ e.at < to
    BY <2>2, TimelinesGrow
  <2>5. o \in BeingCut(from, to)'
    BY <2>1, <2>2, <2>4 DEF Taken
  <2>6. QED
    BY <2>2, <2>3, <2>5
<1>3. ASSUME NEW d \in open
      PROVE  d \in more
  <2>1. (RowsInv => \A low, top \in Int : \A c :
           c \in OpenFor(low, top)
             <=> \/ \E o \in BeingCut(low, top) : \E e \in Timeline(o) : local_date(e.at) = c
                 \/ \E o \in Orders : \E u \in Timeline(o) :
                       /\ Taken(u) /\ u.at < top /\ local_date(u.at) = c
                       /\ \/ low <= u.at
                          \/ \E z \in BeingCut(low, top) : \E e \in Timeline(z) : e.at <= u.at)'
    BY OpenForNext
  <2>2. CASE \E o \in BeingCut(from, to) : \E e \in Timeline(o) : local_date(e.at) = d
    <3>1. PICK o \in BeingCut(from, to) : \E e \in Timeline(o) : local_date(e.at) = d
      BY <2>2
    <3>2. PICK e \in Timeline(o) : local_date(e.at) = d
      BY <3>1
    <3>3. o \in BeingCut(from, to)' /\ e \in Timeline(o)'
      BY <1>2, TimelinesGrow
    <3>4. QED
      BY <1>1, <2>1, <3>2, <3>3 DEF local_date
  <2>3. CASE \E o \in Orders : \E u \in Timeline(o) :
                /\ Taken(u) /\ u.at < to /\ local_date(u.at) = d
                /\ \/ from <= u.at
                   \/ \E z \in BeingCut(from, to) : \E e \in Timeline(z) : e.at <= u.at
    <3>1. PICK o \in Orders : \E u \in Timeline(o) :
                /\ Taken(u) /\ u.at < to /\ local_date(u.at) = d
                /\ \/ from <= u.at
                   \/ \E z \in BeingCut(from, to) : \E e \in Timeline(z) : e.at <= u.at
      BY <2>3
    <3>2. PICK u \in Timeline(o) :
                /\ Taken(u) /\ u.at < to /\ local_date(u.at) = d
                /\ \/ from <= u.at
                   \/ \E z \in BeingCut(from, to) : \E e \in Timeline(z) : e.at <= u.at
      BY <3>1
    <3>3. u \in Timeline(o)'
      BY TimelinesGrow
    <3>4. ASSUME NEW z \in BeingCut(from, to), NEW e \in Timeline(z), e.at <= u.at
          PROVE  z \in BeingCut(from, to)' /\ e \in Timeline(z)'
      BY <1>2, TimelinesGrow
    <3>5. from <= u.at \/ \E z \in BeingCut(from, to)' : \E e \in Timeline(z)' : e.at <= u.at
      BY <3>2, <3>4
    <3>6. QED
      BY <1>1, <2>1, <3>2, <3>3, <3>5 DEF local_date, Taken
  <2>4. QED
    BY <1>1, <2>2, <2>3, OpenForFact
<1>4. PICK o \in BeingCut(from, to) : \E x \in Stretches(o) :
         t \in Covered(WorkedIn(x, open)) /\ t \in DayTicksOf(day)
  BY <1>1 DEF MinutesOf
<1>5. PICK x \in Stretches(o) : t \in Covered(WorkedIn(x, open)) /\ t \in DayTicksOf(day)
  BY <1>4
<1>6. x \in Stretches(o)' /\ o \in BeingCut(from, to)'
  BY <1>2, StretchesGrow
<1>7. t \in Covered(worked(x[1].at, x[2].at, more))
  <2>1. x[2] \in Timeline(o) /\ x[1].at \in Int /\ x[2].at \in Int
    BY <1>2, StretchFact
  <2>2. local_date(x[2].at) \in open
    BY <1>1, <2>1, OpenForFact
  <2>3. open \subseteq more
    BY <1>3
  <2>4. QED
    BY <1>5, <2>1, <2>2, <2>3, WorkedGrows DEF WorkedIn
<1>8. PhaseOf(o, x)' \in phases
  BY DEF PhaseOf
<1>9. QED
  BY <1>1, <1>5, <1>6, <1>7, <1>8 DEF MinutesOf, WorkedIn, DayTicksOf, From, To

\* What a day reads is the number of its minutes worked.
LEMMA WorkReadIs ==
    RowsInv => \A day \in Days :
        /\ WorkRead[day] = Cardinality(MinutesOf(day, {"loading", "sawing"}, From(day), To(day)))
        /\ IsFiniteSet(MinutesOf(day, {"loading", "sawing"}, From(day), To(day)))
<1> SUFFICES ASSUME RowsInv, NEW day \in Days
    PROVE  /\ WorkRead[day] = Cardinality(MinutesOf(day, {"loading", "sawing"}, From(day), To(day)))
           /\ IsFiniteSet(MinutesOf(day, {"loading", "sawing"}, From(day), To(day)))
  OBVIOUS
<1>1. /\ day \in Int /\ From(day) \in Int /\ To(day) \in Int
      /\ From(day) <= From(day) /\ To(day) <= To(day)
  BY RangeOfDay
<1>2. WorkRead[day] = DayWork(BranchDay(order_cuts(From(day), To(day)), day, From(day), To(day)))
  BY DEF WorkRead
<1>3. QED
  BY <1>1, <1>2, DayReadFact

\* What was read last is a number, and still read.
WorkInv ==
    /\ RowsInv /\ StartsAgree
    /\ \A day \in Days : told[day] \in Nat
    /\ WorkOnlyGrows

\* So it is at the start and after every request.
LEMMA WorkStarts == ReportsInit => WorkInv
<1> SUFFICES ASSUME ReportsInit PROVE WorkInv
  OBVIOUS
<1>1. RowsInv
  BY DEF ReportsInit, RowsInit, RowsInv, ColumnsTyped, StopsAgree, EventsAgree, SoFar, Stopped, Never
<1>2. StartsAgree /\ told = [day \in Days |-> 0]
  BY DEF ReportsInit, RowsInit, ToldInit, StartsAgree
<1>3. ASSUME NEW day \in Days PROVE told[day] \in Nat /\ WorkRead[day] >= told[day]
  <2>1. WorkRead[day] \in Nat
    BY <1>1, WorkReadIs, FS_CardinalityType
  <2>2. QED
    BY <1>2, <2>1
<1>4. QED
  BY <1>1, <1>2, <1>3 DEF WorkInv, WorkOnlyGrows

\* The request that takes work back clears what was told; any other only adds.
LEMMA WorkStep == WorkInv /\ [ReportsNext]_reportVars => WorkInv'
<1> SUFFICES ASSUME WorkInv, [ReportsNext]_reportVars PROVE WorkInv'
  OBVIOUS
<1>1. RowsInv /\ StartsAgree /\ RowsInv' /\ StartsAgree'
  BY RowsStep, StartsKeep DEF WorkInv
<1>2. clock < clock' \/ UNCHANGED reportVars
  <2>1. ReportsNext => Passes
    BY DEF ReportsNext, RowsNext, Start, Mark, Unmark, Pause, Resume, Finish, SendBack
  <2>2. QED
    BY <1>1, <2>1, PassesFact DEF RowsInv
<1>3. \A day \in Days :
        /\ WorkRead[day] = Cardinality(MinutesOf(day, {"loading", "sawing"}, From(day), To(day)))
        /\ IsFiniteSet(MinutesOf(day, {"loading", "sawing"}, From(day), To(day)))
        /\ WorkRead'[day] = Cardinality(MinutesOf(day, {"loading", "sawing"}, From(day), To(day))')
        /\ IsFiniteSet(MinutesOf(day, {"loading", "sawing"}, From(day), To(day))')
  <2>1. (RowsInv => \A day \in Days :
           /\ WorkRead[day] = Cardinality(MinutesOf(day, {"loading", "sawing"}, From(day), To(day)))
           /\ IsFiniteSet(MinutesOf(day, {"loading", "sawing"}, From(day), To(day))))'
    BY WorkReadIs, PTL
  <2>2. QED
    BY <1>1, <2>1, WorkReadIs
<1>4. ASSUME ~TakesBack, NEW day \in Days
      PROVE  WorkRead[day] \in Nat /\ WorkRead'[day] \in Nat /\ WorkRead[day] <= WorkRead'[day]
  <2>1. RowsGrow
    BY <1>1, <1>4, RequestsAdd
  <2>2. day \in Int /\ From(day) \in Int /\ To(day) \in Int
    BY RangeOfDay
  <2>3. PICK M, N : /\ M = MinutesOf(day, {"loading", "sawing"}, From(day), To(day))
                    /\ N = MinutesOf(day, {"loading", "sawing"}, From(day), To(day))'
    OBVIOUS
  <2>4. ASSUME NEW t \in M PROVE t \in N
    BY <1>1, <1>2, <2>1, <2>2, <2>3, MinutesGrow
  <2>5. M \subseteq N /\ IsFiniteSet(N) /\ IsFiniteSet(M)
    BY <1>3, <2>3, <2>4
  <2>6. Cardinality(M) <= Cardinality(N) /\ Cardinality(M) \in Nat /\ Cardinality(N) \in Nat
    BY <2>5, FS_Subset, FS_CardinalityType
  <2>7. QED
    BY <1>3, <2>3, <2>6
<1>5. CASE TakesBack /\ ReportsNext
  <2>1. told' = [day \in Days |-> 0]
    BY <1>5 DEF ReportsNext, ToldNext
  <2>2. ASSUME NEW day \in Days PROVE told'[day] \in Nat /\ WorkRead'[day] >= told'[day]
    <3>1. WorkRead'[day] \in Nat
      BY <1>3, FS_CardinalityType
    <3>2. QED
      BY <2>1, <3>1
  <2>3. QED
    BY <1>1, <2>2 DEF WorkInv, WorkOnlyGrows
<1>6. CASE ~TakesBack /\ ReportsNext
  <2>1. told' = WorkRead
    BY <1>6 DEF ReportsNext, ToldNext
  <2>2. ASSUME NEW day \in Days PROVE told'[day] \in Nat /\ WorkRead'[day] >= told'[day]
    BY <1>4, <1>6, <2>1
  <2>3. QED
    BY <1>1, <2>2 DEF WorkInv, WorkOnlyGrows
<1>7. CASE UNCHANGED reportVars
  <2>1. told' = told /\ ~TakesBack
    BY <1>7 DEF reportVars, TakesBack
  <2>2. ASSUME NEW day \in Days PROVE told'[day] \in Nat /\ WorkRead'[day] >= told'[day]
    <3>1. WorkRead[day] \in Nat /\ WorkRead'[day] \in Nat /\ WorkRead[day] <= WorkRead'[day]
      BY <1>4, <2>1
    <3>2. told[day] \in Nat /\ WorkRead[day] >= told[day]
      BY DEF WorkInv, WorkOnlyGrows
    <3>3. QED
      BY <2>1, <3>1, <3>2
  <2>3. QED
    BY <1>1, <2>2 DEF WorkInv, WorkOnlyGrows
<1>8. QED
  BY <1>5, <1>6, <1>7

\* Of ReportsAgree, WorkOnlyGrows: what a day read before a request it reads at least as
\* much of after it, unless the request took back a mark or sent an order to the queue.
THEOREM WorkStands == ReportsSpec => []WorkOnlyGrows
<1>1. WorkInv => WorkOnlyGrows
  BY DEF WorkInv
<1>2. QED
  BY <1>1, WorkStarts, WorkStep, PTL DEF ReportsSpec

\* ReportsAgree: what the shop floor's reports say agrees with itself and with the rows,
\* for any shop, any schedule and any order of the requests.
THEOREM ReportsDoAgree == ReportsSpec => []ReportsAgree
<1>1. /\ MinutesAreWork(order_cuts(AllFrom, AllTo))
      /\ \A day \in Days : OneSaw(order_cuts(AllFrom, AllTo), day)
      /\ \A day \in Days : SameInEveryRange(order_cuts(AllFrom, AllTo), day)
      /\ SheetsCountOnce /\ BandingReadsTheSame /\ PausesReadTheSame /\ QuietHasItsReason
      /\ WorkOnlyGrows
      => ReportsAgree
  BY DEF ReportsAgree
<1>2. QED
  BY <1>1, MinutesAreWorked, TheSawIsOne, DaysReadAlike, SheetsAreCountedOnce, BandingReadsAlike,
     PausesReadAlike, QuietIsExplained, WorkStands, PTL

\* The rows of the floor keep their domains.
THEOREM ReportsTypeCorrect == ReportsSpec => []ReportsTyped
<1>1. RowsInv => ReportsTyped
  <2> SUFFICES ASSUME RowsInv PROVE ReportsTyped
    OBVIOUS
  <2>1. SoFar \subseteq Instants \union {Never}
    BY DEF SoFar
  <2>2. ColumnsTyped /\ \A a \in Acts : \A s \in stops[a] : IsPause(s)
    BY DEF RowsInv, StopsAgree
  <2>3. \A a \in Acts : \A s \in stops[a] :
           s.from \in Instants /\ s.to \in Instants \union {Never} /\ s.user \in Staff
    BY <2>1, <2>2 DEF IsPause
  <2>4. /\ begun \in [Acts -> Instants \union {Never}] /\ ended \in [Acts -> Instants \union {Never}]
        /\ marked \in [Slips -> Instants \union {Never}]
    BY <2>1, <2>2 DEF ColumnsTyped
  <2>5. QED
    BY <2>2, <2>3, <2>4 DEF ReportsTyped, ColumnsTyped
<1>2. QED
  BY <1>1, RowsSafe, PTL
=============================================================================
