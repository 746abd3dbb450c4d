------------------------------ MODULE SumLemmas ------------------------------
(***************************************************************************)
(* What SumFunctionOnSet of the community modules returns on a finite set: *)
(* it is a recursion over subsets, so its existence, its type and its      *)
(* value after an update are proved by taking a smallest counterexample    *)
(* (the set form of induction over finite sets).                           *)
(***************************************************************************)
EXTENDS Integers, FiniteSets, Functions, FiniteSetTheorems, WellFoundedInduction, TLAPS

-----------------------------------------------------------------------------
Pick(s) == CHOOSE x \in s : TRUE

\* One step of the recursion, and its solutions on the subsets of X
Recur(f, h, s) == IF s = {} THEN 0 ELSE f[Pick(s)] + h[s \ {Pick(s)}]
Solves(f, h, X) == h \in [SUBSET X -> Int] /\ \A s \in SUBSET X : h[s] = Recur(f, h, s)

\* The function SumFunctionOnSet(f, S) applies to S
Sums(f, S) == CHOOSE h : h = [s \in SUBSET S |-> Recur(f, h, s)]

-----------------------------------------------------------------------------
\* The sum is the recursive function at S.
LEMMA SumIsSums ==
    ASSUME NEW f, NEW S
    PROVE  SumFunctionOnSet(f, S) = Sums(f, S)[S]
BY DEF SumFunctionOnSet, FoldFunctionOnSet, MapThenFoldSet, Sums, Recur, Pick

\* A set that is not empty has a member to pick, and is larger without it.
LEMMA PickMember ==
    ASSUME NEW s, s # {}
    PROVE  Pick(s) \in s /\ s \ {Pick(s)} # s
BY DEF Pick

\* A nonempty set of subsets of a finite set has a smallest member.
LEMMA SmallestSubset ==
    ASSUME NEW S, IsFiniteSet(S), NEW T \in SUBSET SUBSET S, T # {}
    PROVE  \E X \in T : \A Y \in T : Y \subseteq X => Y = X
<1>1. IsWellFoundedOn(StrictSubsetOrdering(S), SUBSET S)
  BY FS_StrictSubsetOrderingWellFounded, FS_FiniteSubsetsOfFinite
<1>2. PICK X \in T : \A Y \in T : ~(<<Y, X>> \in StrictSubsetOrdering(S))
  BY <1>1, WFMin
<1>3. QED
  BY <1>2 DEF StrictSubsetOrdering

\* Two solutions agree where both are defined.
LEMMA SolutionsAgree ==
    ASSUME NEW S, IsFiniteSet(S), NEW f, NEW X \in SUBSET S, NEW Y \in SUBSET S,
           NEW h, NEW k, Solves(f, h, X), Solves(f, k, Y)
    PROVE  \A s \in SUBSET (X \cap Y) : h[s] = k[s]
<1> DEFINE Bad == {s \in SUBSET (X \cap Y) : h[s] # k[s]}
<1> SUFFICES ASSUME Bad # {} PROVE FALSE
  OBVIOUS
<1>0. Bad \in SUBSET SUBSET S
  OBVIOUS
<1>1. PICK s \in Bad : \A t \in Bad : t \subseteq s => t = s
  <2> HIDE DEF Bad
  <2> QED BY <1>0, SmallestSubset
<1>2. s # {}
  BY <1>1 DEF Solves, Recur
<1>3. Pick(s) \in s /\ s \ {Pick(s)} # s
  BY <1>2, PickMember
<1>4. s \ {Pick(s)} \notin Bad
  BY <1>1, <1>3
<1>5. h[s \ {Pick(s)}] = k[s \ {Pick(s)}]
  BY <1>4
<1>6. QED
  BY <1>1, <1>2, <1>5 DEF Solves, Recur

\* The recursion has a solution on every subset of a finite set.
LEMMA SolutionExists ==
    ASSUME NEW S, IsFiniteSet(S), NEW f \in [S -> Int]
    PROVE  \A X \in SUBSET S : \E h : Solves(f, h, X)
<1> DEFINE Bad == {X \in SUBSET S : ~\E h : Solves(f, h, X)}
<1> SUFFICES ASSUME Bad # {} PROVE FALSE
  OBVIOUS
<1>0. Bad \in SUBSET SUBSET S
  OBVIOUS
<1>1. PICK X \in Bad : \A Y \in Bad : Y \subseteq X => Y = X
  <2> HIDE DEF Bad
  <2> QED BY <1>0, SmallestSubset
<1> DEFINE H == [Y \in SUBSET X |-> CHOOSE h : Solves(f, h, Y)]
           Rest == X \ {Pick(X)}
           Top == IF X = {} THEN 0 ELSE f[Pick(X)] + H[Rest][Rest]
           g == [s \in SUBSET X |-> IF s = X THEN Top ELSE H[s][s]]
<1>2. \A Y \in SUBSET X : Y # X => Solves(f, H[Y], Y)
  BY <1>1
<1>3. g[X] = Top /\ \A s \in SUBSET X : s # X => g[s] = H[s][s]
  OBVIOUS
<1>4. X # {} => Pick(X) \in X /\ Rest # X /\ Rest \in SUBSET X
  BY PickMember
<1> HIDE DEF H
<1>5. g \in [SUBSET X -> Int]
  <2>1. ASSUME NEW s \in SUBSET X, s # X
        PROVE  H[s][s] \in Int
    <3>1. H[s] \in [SUBSET s -> Int]
      BY <1>2, <2>1 DEF Solves
    <3>2. QED
      BY <3>1
  <2>2. Top \in Int
    <3>1. CASE X = {}
      BY <3>1
    <3>2. CASE X # {}
      <4>1. f[Pick(X)] \in Int
        BY <1>4, <3>2
      <4>2. H[Rest][Rest] \in Int
        BY <1>4, <2>1, <3>2
      <4>3. QED
        BY <3>2, <4>1, <4>2
    <3>3. QED
      BY <3>1, <3>2
  <2> HIDE DEF Top
  <2>3. QED
    BY <2>1, <2>2
<1> HIDE DEF g
<1>6. ASSUME NEW s \in SUBSET X
      PROVE  g[s] = Recur(f, g, s)
  <2>1. CASE s = {}
    <3>1. CASE X = {}
      BY <2>1, <3>1, <1>3 DEF Recur
    <3>2. CASE X # {}
      BY <2>1, <3>2, <1>2, <1>3 DEF Solves, Recur
    <3>3. QED
      BY <3>1, <3>2
  <2>2. CASE s # {} /\ s = X
    BY <2>2, <1>3, <1>4 DEF Recur
  <2>3. CASE s # {} /\ s # X
    <3> DEFINE t == s \ {Pick(s)}
    <3>1. t \in SUBSET X /\ t \in SUBSET (s \cap t) /\ t \in SUBSET s /\ t # s /\ t # X
      BY <2>3, PickMember
    <3>2. Solves(f, H[s], s) /\ Solves(f, H[t], t)
      BY <1>2, <2>3, <3>1
    <3>3. H[s][t] = H[t][t]
      <4>1. s \in SUBSET S /\ t \in SUBSET S
        BY <3>1
      <4>2. \A u \in SUBSET (s \cap t) : H[s][u] = H[t][u]
        <5> HIDE DEF t
        <5>1. \A h, k : Solves(f, h, s) /\ Solves(f, k, t) =>
                \A u \in SUBSET (s \cap t) : h[u] = k[u]
          BY <4>1, SolutionsAgree
        <5>2. QED
          BY <3>2, <5>1
      <4>3. QED
        BY <3>1, <4>2
    <3>4. H[s][s] = f[Pick(s)] + H[s][t]
      BY <2>3, <3>2 DEF Solves, Recur
    <3>5. g[s] = f[Pick(s)] + g[t]
      BY <1>3, <2>3, <3>1, <3>3, <3>4
    <3>6. QED
      BY <2>3, <3>5 DEF Recur
  <2>4. QED
    BY <2>1, <2>2, <2>3
<1>7. Solves(f, g, X)
  BY <1>5, <1>6 DEF Solves
<1>8. QED
  BY <1>1, <1>7

\* So the sums of a function into the integers are a solution.
LEMMA SumsSolve ==
    ASSUME NEW S, IsFiniteSet(S), NEW f \in [S -> Int]
    PROVE  Solves(f, Sums(f, S), S)
<1>1. PICK h : Solves(f, h, S)
  BY SolutionExists
<1>2. h = [s \in SUBSET S |-> Recur(f, h, s)]
  BY <1>1 DEF Solves
<1> DEFINE k == Sums(f, S)
<1>3. k = [s \in SUBSET S |-> Recur(f, k, s)]
  BY <1>2 DEF Sums
<1> HIDE DEF k
<1> DEFINE Bad == {s \in SUBSET S : k[s] # h[s]}
<1>4. Bad = {}
  <2> SUFFICES ASSUME Bad # {} PROVE FALSE
    OBVIOUS
  <2>0. Bad \in SUBSET SUBSET S
    OBVIOUS
  <2>1. PICK s \in Bad : \A t \in Bad : t \subseteq s => t = s
    <3> HIDE DEF Bad
    <3> QED BY <2>0, SmallestSubset
  <2>2. k[s] = Recur(f, k, s) /\ h[s] = Recur(f, h, s)
    BY <1>2, <1>3
  <2>3. s # {}
    BY <2>1, <2>2 DEF Recur
  <2>4. k[s \ {Pick(s)}] = h[s \ {Pick(s)}]
    BY <2>1, <2>3, PickMember
  <2>5. QED
    BY <2>1, <2>2, <2>3, <2>4 DEF Recur
<1>5. k = h
  BY <1>2, <1>3, <1>4
<1>6. QED
  BY <1>1, <1>5 DEF k

-----------------------------------------------------------------------------
\* A sum of integers is an integer.
LEMMA SumType ==
    ASSUME NEW S, IsFiniteSet(S), NEW f \in [S -> Int]
    PROVE  SumFunctionOnSet(f, S) \in Int
<1>1. Sums(f, S) \in [SUBSET S -> Int]
  BY SumsSolve DEF Solves
<1>2. Sums(f, S)[S] \in Int
  BY <1>1
<1>3. QED
  BY <1>2, SumIsSums

\* A sum of naturals is a natural.
LEMMA SumNat ==
    ASSUME NEW S, IsFiniteSet(S), NEW f \in [S -> Nat]
    PROVE  SumFunctionOnSet(f, S) \in Nat
<1> DEFINE h == Sums(f, S)
           Bad == {s \in SUBSET S : h[s] \notin Nat}
<1>1. Solves(f, h, S)
  <2>1. f \in [S -> Int]
    OBVIOUS
  <2>2. QED
    BY <2>1, SumsSolve
<1> HIDE DEF h
<1>2. Bad = {}
  <2> SUFFICES ASSUME Bad # {} PROVE FALSE
    OBVIOUS
  <2>0. Bad \in SUBSET SUBSET S
    OBVIOUS
  <2>1. PICK s \in Bad : \A t \in Bad : t \subseteq s => t = s
    <3> HIDE DEF Bad
    <3> QED BY <2>0, SmallestSubset
  <2>2. h[s] = Recur(f, h, s)
    BY <1>1, <2>1 DEF Solves
  <2>3. s # {}
    BY <2>1, <2>2 DEF Recur
  <2>4. Pick(s) \in S /\ h[s \ {Pick(s)}] \in Nat
    BY <2>1, <2>3, PickMember
  <2>5. f[Pick(s)] \in Nat
    BY <2>4
  <2>6. QED
    BY <2>1, <2>2, <2>3, <2>4, <2>5 DEF Recur
<1>3. h[S] \in Nat
  BY <1>2
<1>4. QED
  BY <1>3, SumIsSums DEF h

\* A change of one value changes the sum by as much.
LEMMA SumUpdate ==
    ASSUME NEW S, IsFiniteSet(S), NEW f \in [S -> Int], NEW g \in [S -> Int], NEW a \in S,
           \A x \in S : x # a => g[x] = f[x]
    PROVE  SumFunctionOnSet(g, S) = SumFunctionOnSet(f, S) + g[a] - f[a]
<1> DEFINE h == Sums(f, S)
           k == Sums(g, S)
           Change(s) == IF a \in s THEN g[a] - f[a] ELSE 0
           Bad == {s \in SUBSET S : k[s] # h[s] + Change(s)}
<1>1. Solves(f, h, S) /\ Solves(g, k, S)
  BY SumsSolve
<1> HIDE DEF h, k
<1>2. Bad = {}
  <2> SUFFICES ASSUME Bad # {} PROVE FALSE
    OBVIOUS
  <2>0. Bad \in SUBSET SUBSET S
    OBVIOUS
  <2>1. PICK s \in Bad : \A t \in Bad : t \subseteq s => t = s
    <3> HIDE DEF Bad
    <3> QED BY <2>0, SmallestSubset
  <2>2. h[s] = Recur(f, h, s) /\ k[s] = Recur(g, k, s)
    BY <1>1, <2>1 DEF Solves
  <2>3. s # {}
    BY <2>1, <2>2 DEF Recur
  <2> DEFINE p == Pick(s)
             r == s \ {p}
  <2>4. p \in s /\ p \in S /\ r \in SUBSET S /\ r # s /\ r \notin Bad
    BY <2>1, <2>3, PickMember
  <2>5. k[r] = h[r] + Change(r) /\ h[r] \in Int
    BY <1>1, <2>4 DEF Solves
  <2>6. h[s] = f[p] + h[r] /\ k[s] = g[p] + k[r]
    BY <2>2, <2>3 DEF Recur
  <2>7. f[p] \in Int /\ g[p] \in Int /\ f[a] \in Int /\ g[a] \in Int
    BY <2>4
  <2> HIDE DEF p
  <2>8. k[s] = h[s] + Change(s)
    <3>1. CASE p = a
      <4>1. a \in s /\ a \notin r
        BY <2>4, <3>1
      <4>2. QED
        BY <2>5, <2>6, <2>7, <3>1, <4>1
    <3>2. CASE p # a
      <4>1. g[p] = f[p] /\ (a \in s <=> a \in r)
        BY <2>4, <3>2
      <4>2. QED
        BY <2>5, <2>6, <2>7, <4>1
    <3>3. QED
      BY <3>1, <3>2
  <2>9. QED
    BY <2>1, <2>8
<1>3. k[S] = h[S] + g[a] - f[a]
  <2>1. k[S] = h[S] + Change(S) /\ h[S] \in Int
    BY <1>1, <1>2 DEF Solves
  <2>2. QED
    BY <2>1
<1>4. QED
  BY <1>3, SumIsSums DEF h, k

\* Any member can be taken first.
LEMMA SumSplit ==
    ASSUME NEW S, IsFiniteSet(S), NEW f \in [S -> Int], NEW h, Solves(f, h, S)
    PROVE  \A X \in SUBSET S : \A x \in X : h[X] = f[x] + h[X \ {x}]
<1> DEFINE Bad == {s \in SUBSET S : \E x \in s : h[s] # f[x] + h[s \ {x}]}
<1> SUFFICES ASSUME Bad # {} PROVE FALSE
  OBVIOUS
<1>0. Bad \in SUBSET SUBSET S
  OBVIOUS
<1>1. PICK s \in Bad : \A t \in Bad : t \subseteq s => t = s
  <2> HIDE DEF Bad
  <2> QED BY <1>0, SmallestSubset
<1>2. PICK x \in s : h[s] # f[x] + h[s \ {x}]
  BY <1>1
<1>3. s \in SUBSET S /\ s # {}
  BY <1>1, <1>2
<1> DEFINE p == Pick(s)
<1>4. p \in s /\ p \in S /\ h[s] = f[p] + h[s \ {p}]
  BY <1>1, <1>3, PickMember DEF Solves, Recur
<1> HIDE DEF p
<1>5. p # x
  BY <1>2, <1>4
<1>6. \A r \in SUBSET s : r # s => \A y \in r : h[r] = f[y] + h[r \ {y}]
  BY <1>1, <1>3
<1>7. h[s \ {p}] = f[x] + h[(s \ {p}) \ {x}] /\ h[s \ {x}] = f[p] + h[(s \ {x}) \ {p}]
  <2>1. s \ {p} \in SUBSET s /\ s \ {p} # s /\ x \in s \ {p}
    BY <1>4, <1>5
  <2>2. s \ {x} \in SUBSET s /\ s \ {x} # s /\ p \in s \ {x}
    BY <1>4, <1>5
  <2>3. QED
    BY <1>6, <2>1, <2>2
<1>8. (s \ {p}) \ {x} = (s \ {x}) \ {p}
  OBVIOUS
<1>9. f[p] \in Int /\ f[x] \in Int /\ h[(s \ {p}) \ {x}] \in Int
  BY <1>1, <1>4 DEF Solves
<1> DEFINE z == h[(s \ {p}) \ {x}]
<1>10. h[s \ {p}] = f[x] + z /\ h[s \ {x}] = f[p] + z /\ z \in Int
  BY <1>7, <1>8, <1>9
<1> HIDE DEF z, Bad
<1>11. QED
  BY <1>2, <1>4, <1>9, <1>10

\* A value that is added adds as much to the sum.
LEMMA SumAdded ==
    ASSUME NEW S, IsFiniteSet(S), NEW a, a \notin S, NEW T, T = S \cup {a},
           NEW f \in [S -> Int], NEW g \in [T -> Int], \A x \in S : g[x] = f[x]
    PROVE  SumFunctionOnSet(g, T) = SumFunctionOnSet(f, S) + g[a]
<1> DEFINE h == Sums(f, S)
           k == Sums(g, T)
           r == [s \in SUBSET S |-> k[s]]
<1>1. IsFiniteSet(T) /\ S \in SUBSET T /\ T \in SUBSET T /\ a \in T /\ T \ {a} = S
  BY FS_AddElement
<1>2. Solves(f, h, S) /\ Solves(g, k, T)
  BY <1>1, SumsSolve
<1> HIDE DEF h, k
<1>3. k[T] = g[a] + k[S]
  BY <1>1, <1>2, SumSplit
<1>4. Solves(f, r, S)
  <2>1. r \in [SUBSET S -> Int]
    BY <1>1, <1>2 DEF Solves
  <2>2. ASSUME NEW s \in SUBSET S PROVE r[s] = Recur(f, r, s)
    <3>1. k[s] = Recur(g, k, s)
      BY <1>1, <1>2 DEF Solves
    <3>2. CASE s = {}
      BY <3>1, <3>2 DEF Recur
    <3>3. CASE s # {}
      <4>1. Pick(s) \in S /\ s \ {Pick(s)} \in SUBSET S
        BY <3>3, PickMember
      <4>2. QED
        BY <3>1, <3>3, <4>1 DEF Recur
    <3>4. QED
      BY <3>2, <3>3
  <2>3. QED
    BY <2>1, <2>2 DEF Solves
<1> HIDE DEF r
<1>5. h[S] = r[S]
  <2>1. S \in SUBSET S /\ S \cap S = S
    OBVIOUS
  <2>2. QED
    BY <1>2, <1>4, <2>1, SolutionsAgree
<1>6. k[S] = h[S] /\ h[S] \in Int /\ g[a] \in Int
  BY <1>1, <1>2, <1>5 DEF r, Solves
<1>7. k[T] = h[S] + g[a]
  BY <1>3, <1>6
<1>8. QED
  BY <1>7, SumIsSums DEF h, k

\* A sum of zeros is zero.
LEMMA SumZero ==
    ASSUME NEW S, IsFiniteSet(S), NEW f \in [S -> Int], \A x \in S : f[x] = 0
    PROVE  SumFunctionOnSet(f, S) = 0
<1> DEFINE h == Sums(f, S)
           Bad == {s \in SUBSET S : h[s] # 0}
<1>1. Solves(f, h, S)
  BY SumsSolve
<1> HIDE DEF h
<1>2. Bad = {}
  <2> SUFFICES ASSUME Bad # {} PROVE FALSE
    OBVIOUS
  <2>0. Bad \in SUBSET SUBSET S
    OBVIOUS
  <2>1. PICK s \in Bad : \A t \in Bad : t \subseteq s => t = s
    <3> HIDE DEF Bad
    <3> QED BY <2>0, SmallestSubset
  <2>2. h[s] = Recur(f, h, s)
    BY <1>1, <2>1 DEF Solves
  <2>3. s # {}
    BY <2>1, <2>2 DEF Recur
  <2>4. Pick(s) \in S /\ h[s \ {Pick(s)}] = 0
    BY <2>1, <2>3, PickMember
  <2>5. QED
    BY <2>1, <2>2, <2>3, <2>4 DEF Recur
<1>3. QED
  BY <1>2, SumIsSums DEF h

\* A sum of equal values is as many times that value.
LEMMA SumConst ==
    ASSUME NEW S, IsFiniteSet(S), NEW c \in Nat, NEW f \in [S -> Int], \A x \in S : f[x] = c
    PROVE  SumFunctionOnSet(f, S) = c * Cardinality(S)
<1> DEFINE h == Sums(f, S)
           Bad == {s \in SUBSET S : h[s] # c * Cardinality(s)}
<1>1. Solves(f, h, S)
  BY SumsSolve
<1> HIDE DEF h
<1>2. Bad = {}
  <2> SUFFICES ASSUME Bad # {} PROVE FALSE
    OBVIOUS
  <2>0. Bad \in SUBSET SUBSET S
    OBVIOUS
  <2>1. PICK s \in Bad : \A t \in Bad : t \subseteq s => t = s
    <3> HIDE DEF Bad
    <3> QED BY <2>0, SmallestSubset
  <2>2. h[s] = Recur(f, h, s)
    BY <1>1, <2>1 DEF Solves
  <2>3. s # {}
    <3>1. c * Cardinality({}) = 0
      <4>1. Cardinality({}) = 0 /\ c * 0 = 0
        BY FS_EmptySet
      <4>2. QED
        BY <4>1
    <3>2. s = {} => h[s] = 0
      BY <2>2 DEF Recur
    <3>3. h[s] # c * Cardinality(s)
      BY <2>1
    <3>4. QED
      BY <3>1, <3>2, <3>3, Zenon
  <2> DEFINE p == Pick(s)
             r == s \ {p}
  <2>4. p \in s /\ p \in S /\ r \in SUBSET S /\ r # s /\ r \notin Bad
    BY <2>1, <2>3, PickMember
  <2>5. h[s] = c + h[r] /\ h[r] = c * Cardinality(r)
    BY <2>2, <2>3, <2>4 DEF Recur
  <2>6. IsFiniteSet(s)
    BY <2>1, FS_Subset
  <2>7. Cardinality(r) = Cardinality(s) - 1 /\ Cardinality(s) \in Nat
    BY <2>4, <2>6, FS_RemoveElement, FS_CardinalityType
  <2>8. c * (Cardinality(s) - 1) = c * Cardinality(s) - c
    BY <2>7
  <2>9. c * Cardinality(s) \in Nat
    BY <2>7
  <2> HIDE DEF p, r
  <2>10. h[s] = c * Cardinality(s)
    BY <2>5, <2>7, <2>8, <2>9
  <2>11. QED
    BY <2>1, <2>10
<1>3. QED
  BY <1>2, SumIsSums DEF h
=============================================================================
