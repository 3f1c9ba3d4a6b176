---------------------------- MODULE SumTheorems -----------------------------
(***************************************************************************)
(* What the proofs need of sums. The induction theorems of the library take *)
(* a predicate as a parameter; here the predicate is a set, of subsets or   *)
(* of numbers, and its least counterexample does the work.                 *)
(***************************************************************************)
EXTENDS Sums, Sequences, FiniteSetTheorems, TLAPS

\* A family of subsets of a finite set has a smallest one.
LEMMA SmallestSet ==
    ASSUME NEW S, IsFiniteSet(S), NEW F \in SUBSET (SUBSET S), F # {}
    PROVE  \E m \in F : \A t \in F : t \subseteq m => t = m
<1>1. IsWellFoundedOn(StrictSubsetOrdering(S), SUBSET S)
  BY FS_StrictSubsetOrderingWellFounded, FS_FiniteSubsetsOfFinite
<1>2. PICK m \in F : \A t \in F : ~ (<<t, m>> \in StrictSubsetOrdering(S))
  BY <1>1, WFMin
<1>3. QED
  BY <1>2 DEF StrictSubsetOrdering

\* Induction over a finite set.
LEMMA SetInduction ==
    ASSUME NEW S, IsFiniteSet(S), NEW Good \in SUBSET (SUBSET S), {} \in Good,
           \A T \in Good : \A x \in S \ T : T \union {x} \in Good
    PROVE  S \in Good
<1>1. SUFFICES ASSUME S \notin Good PROVE FALSE
  OBVIOUS
<1> DEFINE Missing == {S \ T : T \in Good}
<1>2. Missing \in SUBSET (SUBSET S) /\ S \in Missing
  <2>1. S = S \ {}
    OBVIOUS
  <2>2. QED
    BY <2>1
<1>3. \A m \in Missing : \E T \in Good : m = S \ T
  OBVIOUS
<1>4. \A T \in Good : S \ T \in Missing
  OBVIOUS
<1> HIDE DEF Missing
<1>5. PICK m \in Missing : \A t \in Missing : t \subseteq m => t = m
  BY <1>2, SmallestSet
<1>6. PICK T \in Good : m = S \ T
  BY <1>3
<1>7. m # {}
  BY <1>1, <1>6
<1>8. PICK x \in m : TRUE
  BY <1>7
<1>9. T \union {x} \in Good
  BY <1>6, <1>8
<1>10. S \ (T \union {x}) \in Missing
  BY <1>9, <1>4
<1>11. QED
  BY <1>5, <1>6, <1>8, <1>10

\* Induction over the numbers.
LEMMA NumberInduction ==
    ASSUME NEW Good \in SUBSET Nat, 0 \in Good, \A n \in Good : n + 1 \in Good
    PROVE  Good = Nat
<1>1. SUFFICES ASSUME NEW n \in Nat, n \notin Good PROVE FALSE
  OBVIOUS
<1>2. IsFiniteSet(0..n)
  BY FS_Interval
<1> DEFINE Bad == {k \in 0..n : k \notin Good}
           Prefixes == {0..k : k \in Bad}
<1>3. \A k \in Bad : 0..k \subseteq 0..n
  BY SMT
<1>4. Prefixes \in SUBSET (SUBSET (0..n))
  BY <1>3
<1>5. n \in Bad
  BY <1>1
<1>6. 0..n \in Prefixes
  BY <1>5
<1>7. \A t \in Prefixes : \E k \in Bad : t = 0..k
  OBVIOUS
<1>8. \A k \in Bad : 0..k \in Prefixes
  OBVIOUS
<1> HIDE DEF Prefixes
<1>9. PICK m \in Prefixes : \A t \in Prefixes : t \subseteq m => t = m
  <2>1. Prefixes # {}
    BY <1>6
  <2> DEFINE S == 0..n
  <2>2. IsFiniteSet(S) /\ Prefixes \in SUBSET (SUBSET S)
    BY <1>2, <1>4
  <2> HIDE DEF S
  <2>3. QED
    BY <2>1, <2>2, SmallestSet
<1>10. PICK k \in Bad : m = 0..k
  BY <1>7
<1>11. k \in Nat /\ k # 0 /\ k - 1 \in 0..n
  BY <1>10
<1>12. k - 1 \notin Good
  <2>1. k = (k - 1) + 1
    BY <1>11
  <2>2. QED
    BY <2>1, <1>10
<1>13. 0..(k - 1) \in Prefixes
  BY <1>8, <1>11, <1>12
<1>14. 0..(k - 1) \subseteq 0..k /\ 0..(k - 1) # 0..k
  <2>1. k \in 0..k /\ k \notin 0..(k - 1)
    BY <1>11
  <2>2. 0..(k - 1) \subseteq 0..k
    BY <1>11
  <2>3. QED
    BY <2>1, <2>2
<1>15. QED
  BY <1>9, <1>10, <1>13, <1>14

-----------------------------------------------------------------------------
(* The fold is what its definition says: there is one adder, and it adds.  *)

TakenFrom(s) == CHOOSE x \in s : TRUE
LeftOf(s) == s \ {TakenFrom(s)}

\* What the fold makes of s, given what it makes of the smaller sets.
AddedTo(f, g, s) == IF s = {} THEN 0 ELSE f[TakenFrom(s)] + g[LeftOf(s)]

AddsUp(f, S, g) == g = [s \in SUBSET S |-> AddedTo(f, g, s)]
TheAdder(f, S) == CHOOSE g : AddsUp(f, S, g)

\* The sum is the fold's value.
LEMMA TotalIsTheAdder ==
    ASSUME NEW f, NEW S PROVE Total(f, S) = TheAdder(f, S)[S]
BY DEF Total, MapThenSumSet, MapThenFoldSet, TheAdder, AddsUp, AddedTo, TakenFrom, LeftOf

\* Something of the set is chosen.
LEMMA TakenIsThere ==
    ASSUME NEW s, s # {} PROVE TakenFrom(s) \in s
BY DEF TakenFrom

\* There is an adder for every finite set.
LEMMA AnAdderExists ==
    ASSUME NEW f, NEW S, IsFiniteSet(S) PROVE \E g : AddsUp(f, S, g)
<1> DEFINE SoFar(n, g) ==
               /\ g = [s \in SUBSET S |-> g[s]]
               /\ \A s \in SUBSET S : Cardinality(s) <= n => g[s] = AddedTo(f, g, s)
           Good == {n \in Nat : \E g : SoFar(n, g)}
<1>1. \A s \in SUBSET S : IsFiniteSet(s) /\ Cardinality(s) \in Nat
  BY FS_Subset, FS_CardinalityType
<1>2. 0 \in Good
  <2> DEFINE g == [s \in SUBSET S |-> 0]
  <2>1. \A s \in SUBSET S : Cardinality(s) <= 0 => s = {}
    BY <1>1, FS_EmptySet
  <2>2. SoFar(0, g)
    BY <2>1 DEF AddedTo
  <2>3. QED
    BY <2>2
<1>3. ASSUME NEW n \in Good PROVE n + 1 \in Good
  <2>1. PICK g : SoFar(n, g)
    BY <1>3
  <2> DEFINE h == [s \in SUBSET S |-> AddedTo(f, g, s)]
  <2>2. ASSUME NEW s \in SUBSET S, Cardinality(s) <= n + 1
        PROVE  h[s] = AddedTo(f, h, s)
    <3>1. CASE s = {}
      BY <3>1 DEF AddedTo
    <3>2. CASE s # {}
      <4>1. LeftOf(s) \in SUBSET S /\ Cardinality(LeftOf(s)) = Cardinality(s) - 1
        BY <1>1, <3>2, TakenIsThere, FS_RemoveElement DEF LeftOf
      <4>2. Cardinality(LeftOf(s)) <= n
        BY <4>1, <1>1, <2>2
      <4>3. h[LeftOf(s)] = g[LeftOf(s)]
        BY <4>1, <4>2, <2>1
      <4>4. QED
        BY <4>3, <3>2 DEF AddedTo
    <3>3. QED
      BY <3>1, <3>2
  <2>3. SoFar(n + 1, h)
    <3> HIDE DEF h
    <3>1. h = [s \in SUBSET S |-> h[s]]
      BY DEF h
    <3>2. QED
      BY <2>2, <3>1
  <2>4. QED
    <3> HIDE DEF SoFar, h
    <3>1. QED
      BY <2>3
<1>4. Good = Nat
  <2> HIDE DEF Good
  <2>1. Good \in SUBSET Nat
    BY DEF Good
  <2>2. QED
    BY <1>2, <1>3, <2>1, NumberInduction
<1>5. PICK g : SoFar(Cardinality(S), g)
  BY <1>1, <1>4
<1>6. \A s \in SUBSET S : g[s] = AddedTo(f, g, s)
  BY <1>1, <1>5, FS_Subset
<1>7. QED
  BY <1>5, <1>6 DEF AddsUp

\* Two adders agree where both are defined.
LEMMA OneAdder ==
    ASSUME NEW f, NEW S, NEW T \in SUBSET S, IsFiniteSet(S),
           NEW g, AddsUp(f, S, g), NEW h, AddsUp(f, T, h)
    PROVE  g[T] = h[T]
<1> DEFINE F == {t \in SUBSET T : g[t] # h[t]}
<1>1. IsFiniteSet(T) /\ F \in SUBSET (SUBSET T)
  BY FS_Subset
<1>2. \A t \in SUBSET T : g[t] = AddedTo(f, g, t) /\ h[t] = AddedTo(f, h, t)
  BY DEF AddsUp
<1>3. SUFFICES ASSUME F # {} PROVE FALSE
  OBVIOUS
<1>4. PICK m \in F : \A t \in F : t \subseteq m => t = m
  <2> HIDE DEF F
  <2>1. QED
    BY <1>1, <1>3, SmallestSet
<1>5. m # {}
  BY <1>2, <1>4 DEF AddedTo
<1>6. LeftOf(m) \subseteq m /\ LeftOf(m) # m /\ LeftOf(m) \in SUBSET T
  BY <1>4, <1>5, TakenIsThere DEF LeftOf
<1>7. g[LeftOf(m)] = h[LeftOf(m)]
  BY <1>4, <1>6
<1>8. g[m] = h[m]
  BY <1>2, <1>5, <1>7, <1>4 DEF AddedTo
<1>9. QED
  BY <1>4, <1>8

\* The sum of nothing.
THEOREM TotalOfNothing ==
    ASSUME NEW f PROVE Total(f, {}) = 0
<1>1. AddsUp(f, {}, TheAdder(f, {}))
  BY AnAdderExists, FS_EmptySet DEF TheAdder
<1>2. QED
  BY <1>1, TotalIsTheAdder DEF AddsUp, AddedTo

\* One unfolding of the fold.
LEMMA TotalUnfolds ==
    ASSUME NEW f, NEW S, IsFiniteSet(S), S # {}
    PROVE  Total(f, S) = f[TakenFrom(S)] + Total(f, LeftOf(S))
<1>1. AddsUp(f, S, TheAdder(f, S))
  BY AnAdderExists DEF TheAdder
<1>2. LeftOf(S) \in SUBSET S /\ IsFiniteSet(LeftOf(S))
  BY FS_Subset DEF LeftOf
<1>3. AddsUp(f, LeftOf(S), TheAdder(f, LeftOf(S)))
  BY <1>2, AnAdderExists DEF TheAdder
<1>4. TheAdder(f, S)[LeftOf(S)] = TheAdder(f, LeftOf(S))[LeftOf(S)]
  BY <1>1, <1>2, <1>3, OneAdder
<1>5. TheAdder(f, S)[S] = f[TakenFrom(S)] + TheAdder(f, S)[LeftOf(S)]
  BY <1>1 DEF AddsUp, AddedTo
<1>6. QED
  BY <1>4, <1>5, TotalIsTheAdder

-----------------------------------------------------------------------------
(* Sums of numbers *)

\* Any element may be taken out first.
THEOREM TotalSplits ==
    ASSUME NEW S, IsFiniteSet(S), NEW f, \A x \in S : f[x] \in Int
    PROVE  /\ Total(f, S) \in Int
           /\ \A x \in S : Total(f, S) = f[x] + Total(f, S \ {x})
<1> DEFINE Fine(T) == /\ Total(f, T) \in Int
                      /\ \A x \in T : Total(f, T) = f[x] + Total(f, T \ {x})
           F == {T \in SUBSET S : ~Fine(T)}
<1>1. SUFFICES ASSUME F # {} PROVE FALSE
  OBVIOUS
<1>2. PICK m \in F : \A t \in F : t \subseteq m => t = m
  <2>1. F \in SUBSET (SUBSET S)
    OBVIOUS
  <2> HIDE DEF F
  <2>2. QED
    BY <1>1, <2>1, SmallestSet
<1>3. m \in SUBSET S /\ IsFiniteSet(m) /\ ~Fine(m)
  BY <1>2, FS_Subset
<1>4. \A t \in SUBSET m : t # m => Fine(t)
  BY <1>2, <1>3
<1> HIDE DEF F
<1>5. m # {}
  BY <1>3, TotalOfNothing
<1> DEFINE c == TakenFrom(m)
<1>6. c \in m
  BY <1>5, TakenIsThere
<1>7. Total(f, m) = f[c] + Total(f, m \ {c})
  BY <1>3, <1>5, TotalUnfolds DEF LeftOf
<1> HIDE DEF c
<1>8. \A x \in m : Total(f, m \ {x}) \in Int
  BY <1>4
<1>9. Total(f, m) \in Int
  BY <1>3, <1>6, <1>7, <1>8
<1>10. ASSUME NEW x \in m, x # c
       PROVE  Total(f, m) = f[x] + Total(f, m \ {x})
  <2>1. Fine(m \ {c}) /\ Fine(m \ {x})
    BY <1>4, <1>6, <1>10
  <2> DEFINE both == (m \ {c}) \ {x}
  <2>2. Total(f, m \ {c}) = f[x] + Total(f, both)
    BY <2>1, <1>10
  <2>3. (m \ {x}) \ {c} = both
    OBVIOUS
  <2>4. Total(f, m \ {x}) = f[c] + Total(f, both)
    BY <2>1, <2>3, <1>6, <1>10
  <2>5. Total(f, both) \in Int
    <3>1. both \in SUBSET m /\ both # m
      BY <1>10
    <3>2. QED
      BY <3>1, <1>4
  <2> HIDE DEF both
  <2>6. f[c] \in Int /\ f[x] \in Int
    BY <1>3, <1>6, <1>10
  <2>7. QED
    BY <2>2, <2>4, <2>5, <2>6, <1>7
<1>11. Fine(m)
  BY <1>7, <1>9, <1>10
<1>12. QED
  BY <1>3, <1>11

\* A sum of naturals is one.
THEOREM TotalIsNatural ==
    ASSUME NEW S, IsFiniteSet(S), NEW f, \A x \in S : f[x] \in Nat
    PROVE  Total(f, S) \in Nat
<1> DEFINE Good == {T \in SUBSET S : Total(f, T) \in Nat}
<1>1. {} \in Good
  BY TotalOfNothing
<1>2. ASSUME NEW T \in Good, NEW x \in S \ T PROVE T \union {x} \in Good
  <2> DEFINE more == T \union {x}
  <2>1. IsFiniteSet(more) /\ more \subseteq S /\ x \in more /\ more \ {x} = T
    BY FS_Subset, FS_AddElement
  <2>2. \A y \in more : f[y] \in Int
    BY <2>1
  <2> HIDE DEF more
  <2>3. Total(f, more) = f[x] + Total(f, T)
    BY <2>1, <2>2, TotalSplits
  <2>4. QED
    BY <2>1, <2>3 DEF more
<1>3. S \in Good
  <2>1. Good \in SUBSET (SUBSET S)
    OBVIOUS
  <2> HIDE DEF Good
  <2>2. QED
    BY <1>1, <1>2, <2>1, SetInduction
<1>4. QED
  BY <1>3

\* Adding an element adds what it is worth.
COROLLARY TotalOfOneMore ==
    ASSUME NEW S, IsFiniteSet(S), NEW x, x \notin S, NEW f,
           \A y \in S \union {x} : f[y] \in Int
    PROVE  Total(f, S \union {x}) = f[x] + Total(f, S)
<1>1. IsFiniteSet(S \union {x})
  BY FS_AddElement
<1>2. (S \union {x}) \ {x} = S
  OBVIOUS
<1>3. QED
  BY <1>1, <1>2, TotalSplits

\* A sum only looks at its own set, and is monotone.
THEOREM TotalIsMonotone ==
    ASSUME NEW S, IsFiniteSet(S), NEW f, NEW g,
           \A x \in S : f[x] \in Int /\ g[x] \in Int /\ f[x] <= g[x]
    PROVE  Total(f, S) <= Total(g, S)
<1> DEFINE Good == {T \in SUBSET S : Total(f, T) <= Total(g, T)}
<1>1. {} \in Good
  BY TotalOfNothing
<1>2. ASSUME NEW T \in Good, NEW x \in S \ T PROVE T \union {x} \in Good
  <2>1. IsFiniteSet(T) /\ T \in SUBSET S
    BY FS_Subset
  <2>2. Total(f, T \union {x}) = f[x] + Total(f, T)
    BY <2>1, TotalOfOneMore
  <2>3. Total(g, T \union {x}) = g[x] + Total(g, T)
    BY <2>1, TotalOfOneMore
  <2>4. Total(f, T) \in Int /\ Total(g, T) \in Int
    BY <2>1, TotalSplits
  <2>5. QED
    BY <2>1, <2>2, <2>3, <2>4
<1>3. S \in Good
  <2>1. Good \in SUBSET (SUBSET S)
    OBVIOUS
  <2> HIDE DEF Good
  <2>2. QED
    BY <1>1, <1>2, <2>1, SetInduction
<1>4. QED
  BY <1>3

\* Two functions that agree on a set have one sum there.
COROLLARY TotalAgrees ==
    ASSUME NEW S, IsFiniteSet(S), NEW f, NEW g,
           \A x \in S : f[x] \in Int /\ f[x] = g[x]
    PROVE  Total(f, S) = Total(g, S)
<1>1. Total(f, S) <= Total(g, S) /\ Total(g, S) <= Total(f, S)
  BY TotalIsMonotone
<1>2. Total(f, S) \in Int /\ Total(g, S) \in Int
  BY TotalSplits
<1>3. QED
  BY <1>1, <1>2

\* Sums over the two halves of a set add up.
THEOREM TotalOfUnion ==
    ASSUME NEW S, IsFiniteSet(S), NEW R, IsFiniteSet(R), S \cap R = {}, NEW f,
           \A x \in S \union R : f[x] \in Int
    PROVE  Total(f, S \union R) = Total(f, S) + Total(f, R)
<1> DEFINE Good == {T \in SUBSET R : Total(f, S \union T) = Total(f, S) + Total(f, T)}
<1>1. Total(f, S) \in Int
  BY TotalSplits
<1>2. {} \in Good
  <2>1. S \union {} = S
    OBVIOUS
  <2>2. QED
    BY <1>1, <2>1, TotalOfNothing
<1>3. ASSUME NEW T \in Good, NEW x \in R \ T PROVE T \union {x} \in Good
  <2>1. IsFiniteSet(T) /\ IsFiniteSet(S \union T) /\ T \in SUBSET R
    BY FS_Subset, FS_Union
  <2>2. Total(f, T \union {x}) = f[x] + Total(f, T) /\ Total(f, T) \in Int
    BY <2>1, TotalOfOneMore, TotalSplits
  <2> DEFINE both == S \union T
             more == T \union {x}
             all == S \union more
  <2>3. Total(f, all) = f[x] + Total(f, both)
    <3>1. both \union {x} = all /\ IsFiniteSet(both) /\ x \notin both
      BY <2>1
    <3>2. \A y \in both \union {x} : f[y] \in Int
      BY <2>1
    <3> HIDE DEF both, all
    <3>3. QED
      BY <3>1, <3>2, TotalOfOneMore
  <2>4. Total(f, both) = Total(f, S) + Total(f, T)
    OBVIOUS
  <2>5. f[x] \in Int
    OBVIOUS
  <2>6. Total(f, all) = Total(f, S) + Total(f, more)
    <3> HIDE DEF both, more, all
    <3>1. Total(f, more) = f[x] + Total(f, T)
      BY <2>2 DEF more
    <3>2. QED
      BY <1>1, <2>2, <2>3, <2>4, <2>5, <3>1
  <2>7. QED
    BY <2>1, <2>6
<1>4. R \in Good
  <2>1. Good \in SUBSET (SUBSET R)
    OBVIOUS
  <2> HIDE DEF Good
  <2>2. QED
    BY <1>2, <1>3, <2>1, SetInduction
<1>5. QED
  BY <1>4

\* The sum of a sum: of two functions at once.
THEOREM TotalOfSum ==
    ASSUME NEW S, IsFiniteSet(S), NEW f, NEW g, NEW h,
           \A x \in S : f[x] \in Int /\ g[x] \in Int /\ h[x] = f[x] + g[x]
    PROVE  Total(h, S) = Total(f, S) + Total(g, S)
<1> DEFINE Good == {T \in SUBSET S : Total(h, T) = Total(f, T) + Total(g, T)}
<1>1. {} \in Good
  BY TotalOfNothing
<1>2. ASSUME NEW T \in Good, NEW x \in S \ T PROVE T \union {x} \in Good
  <2>1. IsFiniteSet(T) /\ T \in SUBSET S
    BY FS_Subset
  <2>2. Total(f, T \union {x}) = f[x] + Total(f, T) /\ Total(f, T) \in Int
    BY <2>1, TotalOfOneMore, TotalSplits
  <2>3. Total(g, T \union {x}) = g[x] + Total(g, T) /\ Total(g, T) \in Int
    BY <2>1, TotalOfOneMore, TotalSplits
  <2>4. Total(h, T \union {x}) = h[x] + Total(h, T)
    <3>1. \A y \in T \union {x} : h[y] \in Int
      BY <2>1
    <3>2. QED
      BY <2>1, <3>1, TotalOfOneMore
  <2>5. QED
    BY <2>1, <2>2, <2>3, <2>4
<1>3. S \in Good
  <2>1. Good \in SUBSET (SUBSET S)
    OBVIOUS
  <2> HIDE DEF Good
  <2>2. QED
    BY <1>1, <1>2, <2>1, SetInduction
<1>4. QED
  BY <1>3
\* The sum of zeros.
LEMMA TotalOfZeros ==
    ASSUME NEW S, IsFiniteSet(S), NEW f, \A x \in S : f[x] = 0
    PROVE  Total(f, S) = 0
<1> DEFINE Good == {T \in SUBSET S : Total(f, T) = 0}
<1>1. {} \in Good
  BY TotalOfNothing
<1>2. ASSUME NEW T \in Good, NEW x \in S \ T PROVE T \union {x} \in Good
  <2>1. IsFiniteSet(T) /\ T \in SUBSET S
    BY FS_Subset
  <2>2. \A y \in T \union {x} : f[y] \in Int
    BY <2>1
  <2>3. Total(f, T \union {x}) = f[x] + Total(f, T)
    BY <2>1, <2>2, TotalOfOneMore
  <2>4. QED
    BY <2>1, <2>3
<1>3. S \in Good
  <2>1. Good \in SUBSET (SUBSET S)
    OBVIOUS
  <2> HIDE DEF Good
  <2>2. QED
    BY <1>1, <1>2, <2>1, SetInduction
<1>4. QED
  BY <1>3

\* What is worth nothing may be left out.
THEOREM TotalIgnoresZeros ==
    ASSUME NEW S, IsFiniteSet(S), NEW T \in SUBSET S, NEW f,
           \A x \in S : f[x] \in Int, \A x \in S \ T : f[x] = 0
    PROVE  Total(f, S) = Total(f, T)
<1> DEFINE R == S \ T
<1>1. IsFiniteSet(T) /\ IsFiniteSet(R) /\ T \cap R = {} /\ T \union R = S
  BY FS_Subset
<1>2. \A x \in R : f[x] = 0
  OBVIOUS
<1> HIDE DEF R
<1>3. Total(f, R) = 0
  BY <1>1, <1>2, TotalOfZeros
<1>4. \A x \in T \union R : f[x] \in Int
  BY <1>1
<1>5. Total(f, T \union R) = Total(f, T) + Total(f, R)
  BY <1>1, <1>4, TotalOfUnion
<1>6. Total(f, T) \in Int
  BY <1>1, TotalSplits
<1>7. Total(f, T \union R) = Total(f, S)
  <2>1. T \union R = S
    BY <1>1
  <2>2. QED
    BY <2>1, Zenon
<1>8. QED
  BY <1>3, <1>5, <1>6, <1>7

\* Counting is adding ones.
THEOREM TotalOfOnes ==
    ASSUME NEW S, IsFiniteSet(S), NEW f, \A x \in S : f[x] = 1
    PROVE  Total(f, S) = Cardinality(S)
<1> DEFINE Good == {T \in SUBSET S : Total(f, T) = Cardinality(T)}
<1>1. {} \in Good
  BY TotalOfNothing, FS_EmptySet
<1>2. ASSUME NEW T \in Good, NEW x \in S \ T PROVE T \union {x} \in Good
  <2>1. IsFiniteSet(T) /\ T \in SUBSET S /\ x \notin T /\ f[x] = 1
    BY FS_Subset
  <2>2. \A y \in T \union {x} : f[y] \in Int
    BY <2>1
  <2>3. Total(f, T \union {x}) = 1 + Total(f, T)
    <3>1. Total(f, T \union {x}) = f[x] + Total(f, T)
      BY <2>1, <2>2, TotalOfOneMore
    <3>2. QED
      BY <2>1, <3>1
  <2>4. Cardinality(T \union {x}) = Cardinality(T) + 1 /\ Cardinality(T) \in Nat
    BY <2>1, FS_AddElement, FS_CardinalityType
  <2>5. QED
    BY <2>1, <2>3, <2>4
<1>3. S \in Good
  <2>1. Good \in SUBSET (SUBSET S)
    OBVIOUS
  <2> HIDE DEF Good
  <2>2. QED
    BY <1>1, <1>2, <2>1, SetInduction
<1>4. QED
  BY <1>3

\* Those of S with the key c.
Part(S, key, c) == {x \in S : key[x] = c}

\* A sum taken part by part: each element counts under its key and nowhere else.
THEOREM TotalOfParts ==
    ASSUME NEW S, IsFiniteSet(S), NEW C, IsFiniteSet(C), NEW f, NEW key,
           \A x \in S : f[x] \in Int /\ key[x] \in C,
           NEW each, \A c \in C : each[c] = Total(f, Part(S, key, c))
    PROVE  Total(each, C) = Total(f, S)
<1> DEFINE By(T) == [c \in C |-> Total(f, Part(T, key, c))]
           Good == {T \in SUBSET S : Total(By(T), C) = Total(f, T)}
<1>1. \A T \in SUBSET S : IsFiniteSet(T)
  BY FS_Subset
<1>2. \A T \in SUBSET S : \A c \in C : By(T)[c] \in Int
  <2> SUFFICES ASSUME NEW T \in SUBSET S, NEW c \in C PROVE Total(f, Part(T, key, c)) \in Int
    OBVIOUS
  <2>1. Part(T, key, c) \in SUBSET S /\ IsFiniteSet(Part(T, key, c))
    BY <1>1 DEF Part
  <2>2. \A x \in Part(T, key, c) : f[x] \in Int
    BY <2>1
  <2>3. QED
    BY <2>1, <2>2, TotalSplits
<1>3. {} \in Good
  <2>1. \A c \in C : Part({}, key, c) = {}
    BY DEF Part
  <2>2. \A c \in C : By({})[c] = 0
    BY <2>1, TotalOfNothing
  <2> HIDE DEF By
  <2>3. Total(By({}), C) = 0
    BY <2>2, TotalOfZeros
  <2>4. QED
    BY <2>3, TotalOfNothing
<1>4. ASSUME NEW T \in Good, NEW x \in S \ T PROVE T \union {x} \in Good
  <2> DEFINE k == key[x]
             more == T \union {x}
  <2>1. k \in C /\ T \in SUBSET S /\ more \in SUBSET S /\ x \notin T /\ f[x] \in Int
    OBVIOUS
  <2>2. Total(By(T), C) = Total(f, T)
    OBVIOUS
  <2>3. \A c \in C \ {k} : Part(more, key, c) = Part(T, key, c)
    BY DEF Part
  <2>4. Part(more, key, k) = Part(T, key, k) \union {x} /\ x \notin Part(T, key, k)
    BY DEF Part
  <2>5. Total(f, Part(more, key, k)) = f[x] + Total(f, Part(T, key, k))
    <3> DEFINE P == Part(T, key, k)
    <3>1. P \in SUBSET S /\ IsFiniteSet(P)
      BY <1>1, <2>1 DEF Part
    <3>2. \A y \in P \union {x} : f[y] \in Int
      BY <3>1
    <3> HIDE DEF P, k, more
    <3>3. Total(f, P \union {x}) = f[x] + Total(f, P)
      BY <2>4, <3>1, <3>2, TotalOfOneMore DEF P
    <3>4. QED
      BY <2>4, <3>3 DEF P
  <2>6. \A c \in C \ {k} : By(more)[c] = By(T)[c]
    BY <2>3
  <2>7. By(more)[k] = f[x] + By(T)[k]
    BY <2>1, <2>5
  <2>8. \A c \in C : By(T)[c] \in Int /\ By(more)[c] \in Int
    <3> HIDE DEF By, more
    <3>1. QED
      BY <1>2, <2>1
  <2> HIDE DEF By
  <2>9. /\ Total(By(T), C) = By(T)[k] + Total(By(T), C \ {k})
        /\ Total(By(T), C \ {k}) \in Int
    <3>1. IsFiniteSet(C \ {k})
      BY FS_Subset
    <3> HIDE DEF k
    <3>2. Total(By(T), C \ {k}) \in Int
      BY <3>1, <2>8, TotalSplits
    <3>3. QED
      BY <2>1, <2>8, <3>2, TotalSplits
  <2>10. Total(By(more), C) = By(more)[k] + Total(By(more), C \ {k})
    <3> HIDE DEF k, more
    <3>1. QED
      BY <2>1, <2>8, TotalSplits
  <2>11. Total(By(more), C \ {k}) = Total(By(T), C \ {k})
    <3>1. IsFiniteSet(C \ {k})
      BY FS_Subset
    <3> HIDE DEF k, more
    <3>2. QED
      BY <3>1, <2>6, <2>8, TotalAgrees
  <2>12. Total(f, more) = f[x] + Total(f, T) /\ Total(f, T) \in Int
    <3>1. IsFiniteSet(T) /\ \A y \in T : f[y] \in Int
      BY <1>1, <2>1
    <3>2. QED
      BY <3>1, <2>1, TotalOfOneMore, TotalSplits
  <2>13. By(T)[k] \in Int
    BY <2>1, <2>8
  <2> HIDE DEF k, more
  <2>14. Total(By(more), C) = Total(f, more)
    BY <2>1, <2>2, <2>7, <2>9, <2>10, <2>11, <2>12, <2>13
  <2>15. QED
    BY <2>1, <2>14 DEF more
<1>5. S \in Good
  <2>1. Good \in SUBSET (SUBSET S)
    OBVIOUS
  <2> HIDE DEF Good
  <2>2. QED
    BY <1>3, <1>4, <2>1, SetInduction
<1>6. Total(By(S), C) = Total(f, S)
  BY <1>5
<1>7. \A c \in C : each[c] \in Int /\ each[c] = By(S)[c]
  BY <1>2
<1> HIDE DEF By
<1>8. Total(each, C) = Total(By(S), C)
  BY <1>7, TotalAgrees
<1>9. QED
  BY <1>6, <1>8

\* A sum does not care what its elements are called.
THEOREM TotalRenamed ==
    ASSUME NEW S, IsFiniteSet(S), NEW name, NEW f, NEW g,
           \A x \in S : f[x] \in Int /\ g[name[x]] = f[x],
           \A x, y \in S : name[x] = name[y] => x = y
    PROVE  Total(g, {name[x] : x \in S}) = Total(f, S)
<1> DEFINE Names(T) == {name[x] : x \in T}
           Good == {T \in SUBSET S : IsFiniteSet(Names(T)) /\ Total(g, Names(T)) = Total(f, T)}
<1>1. {} \in Good
  <2>1. Names({}) = {}
    OBVIOUS
  <2>2. QED
    BY <2>1, TotalOfNothing, FS_EmptySet
<1>2. ASSUME NEW T \in Good, NEW x \in S \ T PROVE T \union {x} \in Good
  <2>1. IsFiniteSet(T) /\ T \in SUBSET S /\ x \notin T
    BY FS_Subset
  <2>2. IsFiniteSet(Names(T))
    OBVIOUS
  <2>3. Names(T \union {x}) = Names(T) \union {name[x]} /\ name[x] \notin Names(T)
    BY <2>1
  <2>4. \A n \in Names(T) \union {name[x]} : g[n] \in Int
    BY <2>1
  <2>5. Total(f, T \union {x}) = f[x] + Total(f, T)
    BY <2>1, TotalOfOneMore
  <2>6. Total(g, Names(T)) = Total(f, T)
    OBVIOUS
  <2> HIDE DEF Names
  <2>7. Total(g, Names(T) \union {name[x]}) = g[name[x]] + Total(g, Names(T))
    BY <2>2, <2>3, <2>4, TotalOfOneMore
  <2>8. /\ Total(g, Names(T \union {x})) = Total(f, T \union {x})
        /\ IsFiniteSet(Names(T \union {x}))
    <3>1. IsFiniteSet(Names(T) \union {name[x]})
      BY <2>2, FS_AddElement
    <3>2. g[name[x]] = f[x]
      OBVIOUS
    <3>3. Total(g, Names(T) \union {name[x]}) = Total(f, T \union {x})
      BY <2>5, <2>6, <2>7, <3>2, Zenon
    <3>4. QED
      BY <2>3, <3>1, <3>3, Zenon
  <2>9. QED
    BY <2>1, <2>8
<1>3. S \in Good
  <2>1. Good \in SUBSET (SUBSET S)
    OBVIOUS
  <2> HIDE DEF Good
  <2>2. QED
    BY <1>1, <1>2, <2>1, SetInduction
<1>4. QED
  BY <1>3


\* A sum of multiples is the multiple of the sum.
THEOREM TotalScaled ==
    ASSUME NEW S, IsFiniteSet(S), NEW u \in Int, NEW f, NEW h,
           \A x \in S : f[x] \in Int /\ h[x] = u * f[x]
    PROVE  Total(h, S) = u * Total(f, S)
<1> DEFINE Good == {T \in SUBSET S : Total(f, T) \in Int /\ Total(h, T) = u * Total(f, T)}
<1>1. {} \in Good
  BY TotalOfNothing
<1>2. ASSUME NEW T \in Good, NEW x \in S \ T PROVE T \union {x} \in Good
  <2>1. IsFiniteSet(T) /\ T \subseteq S /\ Total(f, T) \in Int /\ Total(h, T) = u * Total(f, T)
    BY FS_Subset
  <2> DEFINE more == T \union {x}
             a == f[x]
             b == Total(f, T)
  <2>2. \A y \in more : f[y] \in Int /\ h[y] \in Int
    BY <2>1
  <2>3. Total(f, more) = a + b
    BY <2>1, <2>2, TotalOfOneMore
  <2>4. Total(h, more) = h[x] + Total(h, T)
    BY <2>1, <2>2, TotalOfOneMore
  <2>5. a \in Int /\ b \in Int /\ h[x] = u * a /\ Total(h, T) = u * b
    BY <2>1
  <2> HIDE DEF more, a, b
  <2>6. Total(h, more) = u * (a + b) /\ a + b \in Int
    BY <2>4, <2>5
  <2>7. more \subseteq S
    BY <2>1 DEF more
  <2>8. QED
    BY <2>3, <2>6, <2>7 DEF more
<1>3. Good \in SUBSET (SUBSET S)
  OBVIOUS
<1>4. S \in Good
  <2> HIDE DEF Good
  <2>1. QED
    BY <1>1, <1>2, <1>3, SetInduction
<1>5. QED
  BY <1>4

\* A sum of one number over and over is that many times the number.
COROLLARY TotalOfConstant ==
    ASSUME NEW S, IsFiniteSet(S), NEW u \in Int, NEW h, \A x \in S : h[x] = u
    PROVE  Total(h, S) = u * Cardinality(S)
<1> DEFINE ones == [x \in S |-> 1]
<1>1. \A x \in S : ones[x] = 1
  OBVIOUS
<1> HIDE DEF ones
<1>2. Total(ones, S) = Cardinality(S)
  BY <1>1, TotalOfOnes
<1>3. \A x \in S : ones[x] \in Int /\ h[x] = u * ones[x]
  BY <1>1
<1>4. QED
  BY <1>2, <1>3, TotalScaled

-----------------------------------------------------------------------------
(* Finite sets of numbers, and images of finite sets *)

\* The greatest of a finite set of numbers is one of them.
LEMMA GreatestIsThere ==
    ASSUME NEW S \in SUBSET Int, IsFiniteSet(S), S # {}
    PROVE  Max(S) \in S /\ \A y \in S : y <= Max(S)
<1> DEFINE Good == {T \in SUBSET S : T = {} \/ \E m \in T : \A y \in T : y <= m}
<1>1. {} \in Good
  OBVIOUS
<1>2. ASSUME NEW T \in Good, NEW x \in S \ T PROVE T \union {x} \in Good
  <2>1. CASE T = {}
    <3>1. \A y \in T \union {x} : y <= x
      BY <2>1
    <3>2. QED
      BY <3>1
  <2>2. CASE \E m \in T : \A y \in T : y <= m
    <3>1. PICK m \in T : \A y \in T : y <= m
      BY <2>2
    <3>2. CASE x <= m
      BY <3>1, <3>2
    <3>3. CASE ~(x <= m)
      <4>1. \A y \in T \union {x} : y <= x
        BY <3>1, <3>3
      <4>2. QED
        BY <4>1
    <3>4. QED
      BY <3>2, <3>3
  <2>3. QED
    BY <2>1, <2>2
<1>3. Good \in SUBSET (SUBSET S)
  OBVIOUS
<1>4. S \in Good
  <2> HIDE DEF Good
  <2>1. QED
    BY <1>1, <1>2, <1>3, SetInduction
<1>5. \E m \in S : \A y \in S : m >= y
  BY <1>4
<1>6. QED
  BY <1>5 DEF Max

\* The least of a finite set of numbers is one of them.
LEMMA LeastIsThere ==
    ASSUME NEW S \in SUBSET Int, IsFiniteSet(S), S # {}
    PROVE  Min(S) \in S /\ \A y \in S : Min(S) <= y
<1> DEFINE Good == {T \in SUBSET S : T = {} \/ \E m \in T : \A y \in T : m <= y}
<1>1. {} \in Good
  OBVIOUS
<1>2. ASSUME NEW T \in Good, NEW x \in S \ T PROVE T \union {x} \in Good
  <2>1. CASE T = {}
    <3>1. \A y \in T \union {x} : x <= y
      BY <2>1
    <3>2. QED
      BY <3>1
  <2>2. CASE \E m \in T : \A y \in T : m <= y
    <3>1. PICK m \in T : \A y \in T : m <= y
      BY <2>2
    <3>2. CASE m <= x
      BY <3>1, <3>2
    <3>3. CASE ~(m <= x)
      <4>1. \A y \in T \union {x} : x <= y
        BY <3>1, <3>3
      <4>2. QED
        BY <4>1
    <3>4. QED
      BY <3>2, <3>3
  <2>3. QED
    BY <2>1, <2>2
<1>3. Good \in SUBSET (SUBSET S)
  OBVIOUS
<1>4. S \in Good
  <2> HIDE DEF Good
  <2>1. QED
    BY <1>1, <1>2, <1>3, SetInduction
<1>5. \E m \in S : \A y \in S : m <= y
  BY <1>4
<1>6. QED
  BY <1>5 DEF Min

\* The image of a finite set is finite and no larger.
LEMMA ImageIsFinite ==
    ASSUME NEW S, IsFiniteSet(S), NEW f
    PROVE  /\ IsFiniteSet({f[x] : x \in S})
           /\ Cardinality({f[x] : x \in S}) <= Cardinality(S)
<1> DEFINE T == {f[x] : x \in S}
           onto == [x \in S |-> f[x]]
<1>1. onto \in Surjection(S, T)
  BY DEF Surjection
<1> HIDE DEF T, onto
<1>2. IsFiniteSet(T) /\ Cardinality(T) <= Cardinality(S)
  BY <1>1, FS_Surjection
<1>3. QED
  BY <1>2 DEF T

\* A finite set of numbers, taken from the least up: each once.
LEMMA InOrderFact ==
    ASSUME NEW S \in SUBSET Nat, IsFiniteSet(S)
    PROVE  /\ InOrder(S) \in Seq(S) /\ DOMAIN InOrder(S) = 1..Cardinality(S)
           /\ \A i \in S : \E n \in DOMAIN InOrder(S) : InOrder(S)[n] = i
<1> DEFINE Under(i) == {j \in S : j <= i}
           rank == [i \in S |-> Cardinality(Under(i))]
           N == Cardinality(S)
<1>1. N \in Nat /\ IsFiniteSet(1..N) /\ Cardinality(1..N) = N
  BY FS_CardinalityType, FS_Interval
<1>2. \A i \in S : IsFiniteSet(Under(i)) /\ Cardinality(Under(i)) \in 1..N
  <2> TAKE i \in S
  <2>1. Under(i) \in SUBSET S /\ i \in Under(i)
    OBVIOUS
  <2>2. IsFiniteSet(Under(i)) /\ Cardinality(Under(i)) <= N
    BY <2>1, FS_Subset
  <2>3. Cardinality(Under(i)) \in Nat /\ Cardinality(Under(i)) # 0
    BY <2>1, <2>2, FS_CardinalityType, FS_EmptySet
  <2>4. QED
    BY <1>1, <2>2, <2>3
<1>3. ASSUME NEW i \in S, NEW k \in S, i < k PROVE rank[i] # rank[k]
  <2>1. Under(i) \in SUBSET Under(k) /\ k \in Under(k) /\ k \notin Under(i)
    <3>1. i \in Nat /\ k \in Nat /\ \A j \in S : j \in Nat
      OBVIOUS
    <3>2. \A j \in S : j <= i => j <= k
      BY <1>3, <3>1
    <3>3. k <= k /\ ~(k <= i)
      BY <1>3, <3>1
    <3>4. QED
      BY <3>2, <3>3
  <2>2. Cardinality(Under(i)) # Cardinality(Under(k))
    BY <2>1, <1>2, FS_Subset
  <2>3. QED
    BY <2>2
<1>4. \A i, k \in S : rank[i] = rank[k] => i = k
  BY <1>3
<1>5. rank \in Injection(S, 1..N)
  BY <1>2, <1>4 DEF Injection, IsInjective
<1>6. rank \in Surjection(S, 1..N)
  BY <1>1, <1>5, FS_Injection
<1>7. \A n \in 1..N : \E i \in S : Cardinality(Under(i)) = n
  BY <1>6 DEF Surjection
<1>8. \A n \in 1..N : InOrder(S)[n] \in S /\ Cardinality(Under(InOrder(S)[n])) = n
  <2> TAKE n \in 1..N
  <2>1. InOrder(S)[n] = CHOOSE i \in S : Cardinality(Under(i)) = n
    BY DEF InOrder
  <2> HIDE DEF Under
  <2>2. QED
    BY <2>1, <1>7
<1>9. \A i \in S : InOrder(S)[rank[i]] = i /\ rank[i] \in 1..N
  BY <1>2, <1>4, <1>8
<1>10. DOMAIN InOrder(S) = 1..N /\ InOrder(S) \in [1..N -> S]
  BY <1>8 DEF InOrder
<1>11. InOrder(S) \in Seq(S)
  BY <1>1, <1>10
<1>12. QED
  BY <1>9, <1>10, <1>11

\* S in finite parts without a member in common.
SplitBy(g, C, S) ==
    /\ \A c \in C : IsFiniteSet(g[c]) /\ g[c] \subseteq S
    /\ \A c, d \in C : c # d => g[c] \cap g[d] = {}
    /\ \A t \in S : \E c \in C : t \in g[c]

\* Parts without a member in common hold together what each of them holds.
LEMMA TotalOfApart ==
    ASSUME NEW C, IsFiniteSet(C), NEW g, NEW S, SplitBy(g, C, S),
           NEW each, \A c \in C : each[c] = Cardinality(g[c])
    PROVE  IsFiniteSet(S) /\ Total(each, C) = Cardinality(S)
<1>1. S = UNION {g[c] : c \in C}
  BY DEF SplitBy
<1>2. IsFiniteSet(S)
  <2>1. IsFiniteSet({g[c] : c \in C})
    BY ImageIsFinite
  <2>2. \A c \in C : IsFiniteSet(g[c])
    BY DEF SplitBy
  <2>3. QED
    BY <1>1, <2>1, <2>2, FS_UNION
<1>3. PICK ones : ones = [t \in S |-> 1]
  OBVIOUS
<1>4. PICK key : key = [t \in S |-> CHOOSE c \in C : t \in g[c]]
  OBVIOUS
<1>5. \A t \in S : key[t] \in C /\ t \in g[key[t]]
  BY <1>4 DEF SplitBy
<1>6. ASSUME NEW c \in C PROVE each[c] = Total(ones, Part(S, key, c))
  <2>1. Part(S, key, c) = g[c]
    BY <1>5 DEF Part, SplitBy
  <2>2. IsFiniteSet(g[c]) /\ \A t \in g[c] : ones[t] = 1
    BY <1>3 DEF SplitBy
  <2>3. QED
    BY <2>1, <2>2, TotalOfOnes
<1>7. Total(each, C) = Total(ones, S)
  <2>1. \A t \in S : ones[t] \in Int /\ key[t] \in C
    BY <1>3, <1>5
  <2>2. \A c \in C : each[c] = Total(ones, Part(S, key, c))
    BY <1>6
  <2>3. QED
    BY <1>2, <2>1, <2>2, TotalOfParts
<1>8. Total(ones, S) = Cardinality(S)
  BY <1>2, <1>3, TotalOfOnes
<1>9. QED
  BY <1>2, <1>7, <1>8
=============================================================================
