--------------------------- MODULE DiagramsProofs ---------------------------
(***************************************************************************)
(* Which diagrams std::sort can order, and what the cubes of one list have *)
(* to do with each other.  The cubes are made by loops over the list: what *)
(* they hold is shown by induction on it, one appended record at a time.   *)
(***************************************************************************)
EXTENDS Diagrams, FiniteSetTheorems, SequenceTheorems, WellFoundedInduction, TLAPS

PriceRange == [min_price : Int, max_price : Int]

\* Of two different ranges one is the less, and the less of a chain is the least.
LEMMA RangesOrdered ==
  ASSUME NEW x \in PriceRange, NEW y \in PriceRange, NEW z \in PriceRange
  PROVE  /\ x # y => (PriceRangeLess(x, y) <=> ~PriceRangeLess(y, x))
         /\ ~PriceRangeLess(x, x)
         /\ PriceRangeLess(x, y) /\ PriceRangeLess(y, z) => PriceRangeLess(x, z)
<1>1. x # y => x.min_price # y.min_price \/ x.max_price # y.max_price
  BY DEF PriceRange
<1>2. /\ x.min_price \in Int /\ x.max_price \in Int /\ y.min_price \in Int
      /\ y.max_price \in Int /\ z.min_price \in Int /\ z.max_price \in Int
  BY DEF PriceRange
<1> QED BY <1>1, <1>2 DEF PriceRangeLess

\* Totals and counts compare as numbers do (the lambda of Cube::dump).
THEOREM NumbersSortable ==
  ASSUME NEW type \in DiagramType \ {"PRICE_RANGE_PER_DATA", "RECORDS_PER_DATA"},
         NEW cube, \A k \in DOMAIN cube : cube[k] \in Int
  PROVE  SortDefined(type, cube)
<1>1. ASSUME NEW i \in DOMAIN cube, NEW j \in DOMAIN cube
      PROVE  Greater(type, cube[i], cube[j]) <=> cube[i] > cube[j]
  BY DEF Greater
<1> QED BY <1>1 DEF SortDefined

\* A MeasureList is never the greater: the sort finds all of them level.
THEOREM ListsSortable ==
  ASSUME NEW cube
  PROVE  SortDefined("RECORDS_PER_DATA", cube)
BY DEF SortDefined, Greater

\* Equal ranges, and nothing else, make the comparison of ranges contradict itself
\* (PriceRange::operator>).
THEOREM RangesSortable ==
  ASSUME NEW cube, \A k \in DOMAIN cube : cube[k] \in PriceRange
  PROVE  SortDefined("PRICE_RANGE_PER_DATA", cube) <=> IsInjective(cube)
<1> DEFINE G(i, j) == Greater("PRICE_RANGE_PER_DATA", cube[i], cube[j])
<1>1. ASSUME NEW i \in DOMAIN cube, NEW j \in DOMAIN cube
      PROVE  G(i, j) <=> ~PriceRangeLess(cube[i], cube[j])
  BY DEF Greater
<1>2. ASSUME IsInjective(cube)
      PROVE  SortDefined("PRICE_RANGE_PER_DATA", cube)
  <2>1. \A i, j \in DOMAIN cube : i # j => (G(i, j) <=> PriceRangeLess(cube[j], cube[i]))
    <3> TAKE i, j \in DOMAIN cube
    <3>1. i # j => cube[i] # cube[j]
      BY <1>2 DEF IsInjective
    <3> QED BY <1>1, <3>1, RangesOrdered
  <2>2. \A i, j \in DOMAIN cube : i # j => (G(i, j) <=> ~G(j, i))
    <3> TAKE i, j \in DOMAIN cube
    <3>1. i # j => cube[i] # cube[j]
      BY <1>2 DEF IsInjective
    <3> QED BY <1>1, <3>1, RangesOrdered
  <2>3. \A i, j \in DOMAIN cube : \A k \in DOMAIN cube \ {i, j} :
          i # j /\ G(i, j) /\ G(j, k) => G(i, k)
    BY <2>1, RangesOrdered
  <2> HIDE DEF G
  <2>4. \A i, j \in DOMAIN cube : i # j =>
          /\ ~(G(i, j) /\ G(j, i))
          /\ \A k \in DOMAIN cube \ {i, j} :
               /\ G(i, j) /\ G(j, k) => G(i, k)
               /\ (~G(i, j) /\ ~G(j, i)) /\ (~G(j, k) /\ ~G(k, j)) =>
                    ~G(i, k) /\ ~G(k, i)
    BY <2>2, <2>3
  <2> QED BY <2>4 DEF SortDefined, G
<1>3. ASSUME SortDefined("PRICE_RANGE_PER_DATA", cube)
      PROVE  IsInjective(cube)
  <2> SUFFICES ASSUME NEW i \in DOMAIN cube, NEW j \in DOMAIN cube,
                      cube[i] = cube[j], i # j
               PROVE  FALSE
    BY DEF IsInjective
  <2>1. G(i, j) /\ G(j, i)
    BY <1>1, RangesOrdered
  <2> QED BY <1>3, <2>1 DEF SortDefined
<1> QED BY <1>2, <1>3

-----------------------------------------------------------------------------
(* Induction, on sets that stand for what is to be shown *)

\* Induction on the naturals, for a set of them.
LEMMA NaturalInduction ==
  ASSUME NEW N \in SUBSET Nat, 0 \in N, \A n \in N : n + 1 \in N
  PROVE  N = Nat
<1> SUFFICES ASSUME Nat \ N # {} PROVE FALSE
  OBVIOUS
<1>1. PICK m \in Nat \ N : \A n \in Nat \ N : ~(<<n, m>> \in OpToRel(<, Nat))
  <2> DEFINE T == Nat \ N
  <2>1. T \subseteq Nat /\ T # {}
    OBVIOUS
  <2> HIDE DEF T
  <2>2. \E x \in T : \A y \in T : ~(<<y, x>> \in OpToRel(<, Nat))
    BY <2>1, NatLessThanWellFounded, WFMin
  <2> QED BY <2>2 DEF T
<1>2. \A n \in Nat \ N : ~(n < m)
  BY <1>1 DEF OpToRel
<1>3. m - 1 \in N /\ m = (m - 1) + 1
  BY <1>2
<1> QED BY <1>3

\* Induction on lists that grow at their end, for a set of them.
LEMMA ListInduction ==
  ASSUME NEW S, NEW G \in SUBSET Seq(S), << >> \in G,
         \A s \in G, e \in S : Append(s, e) \in G
  PROVE  G = Seq(S)
<1> DEFINE N == {n \in Nat : \A s \in Seq(S) : Len(s) = n => s \in G}
<1>1. 0 \in N
  BY EmptySeq
<1>2. ASSUME NEW n \in N PROVE n + 1 \in N
  <2> SUFFICES ASSUME NEW s \in Seq(S), Len(s) = n + 1 PROVE s \in G
    OBVIOUS
  <2>0. s # << >>
    BY EmptySeq
  <2>1. PICK t \in Seq(S), e \in S : s = Append(t, e)
    BY <2>0, SequenceEmptyOrAppend
  <2>2. Len(t) = n
    BY <2>1, AppendProperties
  <2> QED BY <2>1, <2>2
<1>3. N = Nat
  <2>1. N \in SUBSET Nat
    OBVIOUS
  <2> HIDE DEF N
  <2> QED BY <1>1, <1>2, <2>1, NaturalInduction
<1> QED BY <1>3, LenProperties

\* Induction on the subsets of a finite set, for a set of them.
LEMMA SetInduction ==
  ASSUME NEW S, IsFiniteSet(S), NEW G \in SUBSET SUBSET S,
         \A T \in SUBSET S : (\A U \in SUBSET T : U # T => U \in G) => T \in G
  PROVE  G = SUBSET S
<1> SUFFICES ASSUME (SUBSET S) \ G # {} PROVE FALSE
  OBVIOUS
<1> DEFINE Bad == (SUBSET S) \ G
<1>1. Bad # {} /\ Bad \subseteq FiniteSubsetsOf(S)
  BY FS_FiniteSubsetsOfFinite
<1> HIDE DEF Bad
<1>2. PICK T \in Bad : \A U \in Bad : ~(<<U, T>> \in StrictSubsetOrdering(S))
  BY <1>1, FS_StrictSubsetOrderingWellFounded, WFMin
<1>3. ASSUME NEW U \in SUBSET T, U # T PROVE U \in G
  BY <1>2, <1>3 DEF Bad, StrictSubsetOrdering
<1> QED BY <1>2, <1>3 DEF Bad

-----------------------------------------------------------------------------
(* Sums, as the community modules define them *)

\* The element that a sum takes next.
Pick(T) == CHOOSE x \in T : TRUE

\* The recursion that defines a sum over the subsets of S, and its solution.
SumTable(f, S, g) ==
  g = [T \in SUBSET S |-> IF T = {} THEN 0 ELSE f[Pick(T)] + g[T \ {Pick(T)}]]

\* The sum of the community modules is that solution's value for the whole set.
LEMMA SumIsFromTable ==
  ASSUME NEW f, NEW S
  PROVE  SumFunctionOnSet(f, S) = (CHOOSE g : SumTable(f, S, g))[S]
BY DEF SumFunctionOnSet, FoldFunctionOnSet, MapThenFoldSet, Pick, SumTable

\* The recursion by which a sum is defined has a solution.
LEMMA SumRecursion ==
  ASSUME NEW S, IsFiniteSet(S), NEW f
  PROVE  \E g : SumTable(f, S, g)
<1> DEFINE Small(n) == {T \in SUBSET S : Cardinality(T) <= n}
           Solves(g, D) == g = [T \in D |->
                       IF T = {} THEN 0 ELSE f[Pick(T)] + g[T \ {Pick(T)}]]
           N == {n \in Nat : \E g : Solves(g, Small(n))}
<1>1. 0 \in N
  <2>1. Small(0) = {{}}
    <3>1. \A T \in SUBSET S : IsFiniteSet(T) /\ Cardinality(T) \in Nat
      BY FS_Subset, FS_CardinalityType
    <3> QED BY <3>1, FS_EmptySet
  <2>2. Solves([T \in {{}} |-> 0], {{}})
    OBVIOUS
  <2> QED BY <2>1, <2>2
<1>2. ASSUME NEW n \in N PROVE n + 1 \in N
  <2>1. PICK g : Solves(g, Small(n))
    OBVIOUS
  <2> DEFINE h == [T \in Small(n + 1) |->
                     IF T = {} THEN 0 ELSE f[Pick(T)] + g[T \ {Pick(T)}]]
  <2>2. ASSUME NEW T \in Small(n + 1), T # {}
        PROVE  T \ {Pick(T)} \in Small(n)
    <3>1. IsFiniteSet(T) /\ Cardinality(T) \in Nat
      BY FS_Subset, FS_CardinalityType
    <3>2. Pick(T) \in T
      BY <2>2 DEF Pick
    <3>3. Cardinality(T \ {Pick(T)}) = Cardinality(T) - 1
      BY <3>1, <3>2, FS_RemoveElement
    <3> QED BY <3>1, <3>3
  <2>3. ASSUME NEW T \in Small(n)
        PROVE  T \in Small(n + 1) /\ h[T] = g[T]
    <3>1. T \in Small(n + 1)
      <4>1. IsFiniteSet(T) /\ Cardinality(T) \in Nat
        BY FS_Subset, FS_CardinalityType
      <4> QED BY <4>1
    <3> QED BY <2>1, <3>1
  <2>4. Solves(h, Small(n + 1))
    <3> HIDE DEF Small
    <3>1. \A T \in Small(n + 1) : T # {} => h[T \ {Pick(T)}] = g[T \ {Pick(T)}]
      BY <2>2, <2>3
    <3> QED BY <3>1
  <2> HIDE DEF h, Solves, Small
  <2> QED BY <2>4
<1>3. N = Nat
  <2>1. N \in SUBSET Nat
    OBVIOUS
  <2> HIDE DEF N
  <2> QED BY <1>1, <1>2, <2>1, NaturalInduction
<1>4. PICK g : Solves(g, Small(Cardinality(S)))
  BY <1>3, FS_CardinalityType
<1>5. Small(Cardinality(S)) = SUBSET S
  BY FS_Subset, FS_CardinalityType
<1> QED BY <1>4, <1>5 DEF SumTable

\* A sum over a finite set is what its recursion makes of it.
LEMMA SumSolves ==
  ASSUME NEW S, IsFiniteSet(S), NEW f
  PROVE  \E g : SumTable(f, S, g) /\ SumFunctionOnSet(f, S) = g[S]
BY SumRecursion, SumIsFromTable

\* The recursion determines its solution
LEMMA SumUnique ==
  ASSUME NEW S, IsFiniteSet(S), NEW f, NEW g, SumTable(f, S, g)
  PROVE  \A U \in SUBSET S : SumFunctionOnSet(f, U) = g[U]
<1> SUFFICES ASSUME NEW U \in SUBSET S PROVE SumFunctionOnSet(f, U) = g[U]
  OBVIOUS
<1>0. IsFiniteSet(U)
  BY FS_Subset
<1>1. PICK h : /\ SumTable(f, U, h)
               /\ SumFunctionOnSet(f, U) = h[U]
  BY <1>0, SumSolves
<1> DEFINE G == {T \in SUBSET U : h[T] = g[T]}
<1>2. ASSUME NEW T \in SUBSET U, \A V \in SUBSET T : V # T => V \in G
      PROVE  T \in G
  <2>1. CASE T = {}
    BY <1>1, <2>1 DEF SumTable
  <2>2. CASE T # {}
    <3>1. Pick(T) \in T
      BY <2>2 DEF Pick
    <3>2. h[T \ {Pick(T)}] = g[T \ {Pick(T)}]
      BY <1>2, <3>1
    <3> QED BY <1>1, <2>2, <3>1, <3>2 DEF SumTable
  <2> QED BY <2>1, <2>2
<1>3. G = SUBSET U
  <2>1. G \in SUBSET SUBSET U
    OBVIOUS
  <2> HIDE DEF G
  <2> QED BY <1>0, <1>2, <2>1, SetInduction
<1> QED BY <1>1, <1>3

\* The sum of nothing is zero.
LEMMA SumEmpty == ASSUME NEW f PROVE SumFunctionOnSet(f, {}) = 0
<1>1. PICK g : /\ SumTable(f, {}, g)
               /\ SumFunctionOnSet(f, {}) = g[{}]
  BY SumSolves, FS_EmptySet
<1> QED BY <1>1 DEF SumTable

\* The recursion takes the term that CHOOSE picks out of the sum.
LEMMA SumPick ==
  ASSUME NEW S, IsFiniteSet(S), NEW f, S # {}
  PROVE  /\ Pick(S) \in S
         /\ SumFunctionOnSet(f, S) = f[Pick(S)] + SumFunctionOnSet(f, S \ {Pick(S)})
<1>1. PICK g : /\ SumTable(f, S, g)
               /\ SumFunctionOnSet(f, S) = g[S]
  BY SumSolves
<1>2. SumFunctionOnSet(f, S \ {Pick(S)}) = g[S \ {Pick(S)}]
  <2>1. S \ {Pick(S)} \in SUBSET S
    OBVIOUS
  <2> QED BY <1>1, <2>1, SumUnique
<1>3. g[S] = f[Pick(S)] + g[S \ {Pick(S)}]
  BY <1>1 DEF SumTable
<1>4. Pick(S) \in S
  BY DEF Pick
<1> QED BY <1>1, <1>2, <1>3, <1>4

\* A sum of integers is one, in whatever order its terms are taken.
LEMMA SumRemove ==
  ASSUME NEW S, IsFiniteSet(S), NEW f, \A x \in S : f[x] \in Int
  PROVE  /\ SumFunctionOnSet(f, S) \in Int
         /\ \A x \in S : SumFunctionOnSet(f, S) = f[x] + SumFunctionOnSet(f, S \ {x})
<1> DEFINE Sum(T) == SumFunctionOnSet(f, T)
           Good(T) == Sum(T) \in Int /\ \A x \in T : Sum(T) = f[x] + Sum(T \ {x})
           G == {T \in SUBSET S : Good(T)}
<1>1. ASSUME NEW T \in SUBSET S, \A U \in SUBSET T : U # T => U \in G
      PROVE  T \in G
  <2>1. CASE T = {}
    BY <2>1, SumEmpty
  <2>2. CASE T # {}
    <3>0. IsFiniteSet(T)
      BY FS_Subset
    <3> DEFINE p == Pick(T)
    <3>1. p \in T /\ Sum(T) = f[p] + Sum(T \ {p})
      BY <2>2, <3>0, SumPick
    <3> HIDE DEF p, Sum
    <3>2. \A x \in T : Sum(T \ {x}) \in Int /\ \A y \in T \ {x} : Sum(T \ {x}) = f[y] + Sum((T \ {x}) \ {y})
      BY <1>1
    <3>3. Sum(T) \in Int
      BY <3>1, <3>2
    <3>4. ASSUME NEW x \in T, x # p PROVE Sum(T) = f[x] + Sum(T \ {x})
      <4>1. (T \ {p}) \ {x} = (T \ {x}) \ {p}
        OBVIOUS
      <4> DEFINE rest == Sum((T \ {p}) \ {x})
      <4>2. /\ Sum(T \ {p}) = f[x] + rest
            /\ Sum(T \ {x}) = f[p] + rest
        BY <3>1, <3>2, <3>4, <4>1
      <4>3. rest \in Int
        <5>1. (T \ {p}) \ {x} \in G
          BY <1>1, <3>1
        <5> QED BY <5>1
      <4> HIDE DEF rest
      <4> QED BY <3>1, <4>2, <4>3
    <3> QED BY <3>1, <3>3, <3>4
  <2> QED BY <2>1, <2>2
<1>2. G = SUBSET S
  <2>1. G \in SUBSET SUBSET S
    OBVIOUS
  <2> HIDE DEF G
  <2> QED BY <1>1, <2>1, SetInduction
<1> QED BY <1>2

\* A sum depends on its terms alone.
LEMMA SumAgree ==
  ASSUME NEW S, IsFiniteSet(S), NEW f, NEW g, \A x \in S : f[x] = g[x]
  PROVE  SumFunctionOnSet(f, S) = SumFunctionOnSet(g, S)
<1>1. PICK h : SumTable(f, S, h) /\ SumFunctionOnSet(f, S) = h[S]
  BY SumSolves
<1>2. \A T \in SUBSET S : T # {} => f[Pick(T)] = g[Pick(T)]
  <2> SUFFICES ASSUME NEW T \in SUBSET S, T # {} PROVE f[Pick(T)] = g[Pick(T)]
    OBVIOUS
  <2>1. Pick(T) \in T
    BY DEF Pick
  <2> QED BY <2>1
<1>3. SumTable(g, S, h)
  BY <1>1, <1>2 DEF SumTable
<1> QED BY <1>1, <1>3, SumUnique

\* A function that changes at one point, or gets one point more.
LEMMA SumBump ==
  ASSUME NEW f, NEW g, NEW x, NEW d \in Int, IsFiniteSet(DOMAIN f),
         DOMAIN g = DOMAIN f \cup {x},
         \A y \in DOMAIN f : f[y] \in Int,
         \A y \in DOMAIN f \ {x} : g[y] = f[y],
         g[x] = (IF x \in DOMAIN f THEN f[x] ELSE 0) + d
  PROVE  SumFunction(g) = SumFunction(f) + d
<1> DEFINE rest == DOMAIN f \ {x}
<1>1. /\ IsFiniteSet(DOMAIN g) /\ IsFiniteSet(rest)
      /\ rest = DOMAIN g \ {x} /\ x \in DOMAIN g
  BY FS_AddElement, FS_RemoveElement
<1>2. \A y \in DOMAIN g : g[y] \in Int
  OBVIOUS
<1>3. SumFunctionOnSet(g, DOMAIN g) = g[x] + SumFunctionOnSet(g, rest)
  BY <1>1, <1>2, SumRemove
<1> HIDE DEF rest
<1>4. SumFunctionOnSet(g, rest) = SumFunctionOnSet(f, rest)
  BY <1>1, SumAgree DEF rest
<1>5. SumFunctionOnSet(f, rest) \in Int
  BY <1>1, SumRemove DEF rest
<1>6. CASE x \in DOMAIN f
  <2>1. SumFunctionOnSet(f, DOMAIN f) = f[x] + SumFunctionOnSet(f, rest)
    BY <1>6, SumRemove DEF rest
  <2> QED BY <1>3, <1>4, <1>5, <1>6, <2>1 DEF SumFunction
<1>7. CASE x \notin DOMAIN f
  <2>1. rest = DOMAIN f
    BY <1>7 DEF rest
  <2> QED BY <1>3, <1>4, <1>5, <1>7, <2>1 DEF SumFunction
<1> QED BY <1>6, <1>7

\* A finite set of integers that has an element has a least and a greatest one.
LEMMA MinMax ==
  ASSUME NEW S \in SUBSET Int, IsFiniteSet(S), S # {}
  PROVE  /\ Min(S) \in S /\ \A y \in S : Min(S) <= y
         /\ Max(S) \in S /\ \A y \in S : Max(S) >= y
<1> DEFINE Good(T) == T # {} => /\ \E x \in T : \A y \in T : x <= y
                               /\ \E x \in T : \A y \in T : x >= y
           G == {T \in SUBSET S : Good(T)}
<1>1. ASSUME NEW T \in SUBSET S, \A U \in SUBSET T : U # T => U \in G
      PROVE  T \in G
  <2> SUFFICES ASSUME T # {} PROVE Good(T)
    OBVIOUS
  <2>1. PICK x \in T : TRUE
    OBVIOUS
  <2>2. CASE T = {x}
    BY <2>2
  <2>3. CASE T # {x}
    <3>1. Good(T \ {x}) /\ T \ {x} # {}
      <4>1. T \ {x} \in SUBSET T /\ T \ {x} # T /\ T \ {x} # {}
        BY <2>1, <2>3
      <4>2. T \ {x} \in G
        BY <1>1, <4>1
      <4> QED BY <4>1, <4>2
    <3>2. PICK l \in T \ {x}, h \in T \ {x} :
            \A y \in T \ {x} : l <= y /\ h >= y
      BY <3>1
    <3>3. \E m \in T : \A y \in T : m <= y
      <4>1. CASE l <= x BY <3>2, <4>1
      <4>2. CASE ~(l <= x) BY <3>2, <4>2
      <4> QED BY <4>1, <4>2
    <3>4. \E m \in T : \A y \in T : m >= y
      <4>1. CASE h >= x BY <3>2, <4>1
      <4>2. CASE ~(h >= x) BY <3>2, <4>2
      <4> QED BY <4>1, <4>2
    <3> QED BY <3>3, <3>4
  <2> QED BY <2>2, <2>3
<1>2. G = SUBSET S
  <2>1. G \in SUBSET SUBSET S
    OBVIOUS
  <2> HIDE DEF G
  <2> QED BY <1>1, <2>1, SetInduction
<1>3. /\ \E x \in S : \A y \in S : x <= y
      /\ \E x \in S : \A y \in S : x >= y
  BY <1>2
<1> QED BY <1>3 DEF Min, Max

-----------------------------------------------------------------------------
(* The groups of a list *)

\* The recursion that defines GroupOf, and its solution.
GroupTable(dims, rs, k, g) ==
  g = [i \in 0..Len(rs) |->
        IF i = 0 THEN << >>
        ELSE IF Keys(dims, rs[i]) = k THEN Append(g[i - 1], rs[i])
        ELSE g[i - 1]]

\* A group is the last value of its recursion's solution.
LEMMA GroupFromTable ==
  ASSUME NEW dims, NEW rs, NEW k
  PROVE  GroupOf(dims, rs, k) = (CHOOSE g : GroupTable(dims, rs, k, g))[Len(rs)]
BY DEF GroupOf, GroupTable

\* What the recursion says of every place of the list.
LEMMA GroupTableAt ==
  ASSUME NEW dims, NEW rs, NEW k, NEW g, GroupTable(dims, rs, k, g), Len(rs) \in Nat
  PROVE  /\ g[0] = << >>
         /\ \A i \in 1..Len(rs) :
              g[i] = IF Keys(dims, rs[i]) = k THEN Append(g[i - 1], rs[i]) ELSE g[i - 1]
<1> DEFINE Step(i) == IF i = 0 THEN << >>
                      ELSE IF Keys(dims, rs[i]) = k THEN Append(g[i - 1], rs[i])
                      ELSE g[i - 1]
<1>1. g = [i \in 0..Len(rs) |-> Step(i)]
  BY DEF GroupTable
<1> HIDE DEF Step
<1>2. \A i \in 0..Len(rs) : g[i] = Step(i)
  BY <1>1
<1>3. g[0] = Step(0) /\ \A i \in 1..Len(rs) : g[i] = Step(i) /\ i # 0
  BY <1>2
<1>4. Step(0) = << >>
  BY DEF Step
<1>5. \A i : i # 0 => Step(i) = IF Keys(dims, rs[i]) = k THEN Append(g[i - 1], rs[i]) ELSE g[i - 1]
  BY Zenon DEF Step
<1> QED BY <1>3, <1>4, <1>5

\* The recursion has a solution, whatever the list.
LEMMA GroupTables ==
  ASSUME NEW S, NEW dims, NEW k, NEW rs \in Seq(S)
  PROVE  \E g : GroupTable(dims, rs, k, g)
<1> DEFINE G == {ss \in Seq(S) : \E g : GroupTable(dims, ss, k, g)}
<1>1. << >> \in G
  <2>1. GroupTable(dims, << >>, k, [i \in 0..0 |-> << >>])
    BY DEF GroupTable
  <2> QED BY <2>1, EmptySeq
<1>2. ASSUME NEW ss \in G, NEW r \in S
      PROVE  Append(ss, r) \in G
  <2>1. PICK g : GroupTable(dims, ss, k, g)
    OBVIOUS
  <2> DEFINE n == Len(ss)
             tt == Append(ss, r)
             h == [i \in 0..(n + 1) |->
                     IF i = n + 1 THEN IF Keys(dims, r) = k THEN Append(g[n], r) ELSE g[n]
                     ELSE g[i]]
  <2>2. /\ tt \in Seq(S) /\ Len(tt) = n + 1 /\ n \in Nat /\ tt[n + 1] = r
        /\ \A i \in 1..n : tt[i] = ss[i]
    BY AppendProperties
  <2>3. /\ h[0] = << >>
        /\ \A i \in 1..n : h[i] = g[i] /\ h[i - 1] = g[i - 1]
        /\ h[n + 1 - 1] = g[n]
    <3>1. \A i \in 0..n : h[i] = g[i]
      BY <2>2
    <3>2. g[0] = << >>
      BY <2>1, <2>2 DEF GroupTable
    <3> HIDE DEF h
    <3> QED BY <2>2, <3>1, <3>2
  <2>4. \A i \in 1..n : g[i] = IF Keys(dims, ss[i]) = k THEN Append(g[i - 1], ss[i])
                               ELSE g[i - 1]
    BY <2>1, <2>2, GroupTableAt
  <2> DEFINE Step(i) == IF i = 0 THEN << >>
                        ELSE IF Keys(dims, tt[i]) = k THEN Append(h[i - 1], tt[i])
                        ELSE h[i - 1]
  <2>5. \A i \in 0..(n + 1) : h[i] = Step(i)
    <3> SUFFICES ASSUME NEW i \in 0..(n + 1) PROVE h[i] = Step(i)
      OBVIOUS
    <3> HIDE DEF tt
    <3>1. CASE i = 0
      BY <2>3, <3>1
    <3>2. CASE i = n + 1
      <4>1. h[i] = IF Keys(dims, r) = k THEN Append(g[n], r) ELSE g[n]
        BY <3>2
      <4> HIDE DEF h
      <4> QED BY <2>2, <2>3, <3>2, <4>1
    <3>3. CASE i \in 1..n
      <4> HIDE DEF h
      <4> QED BY <2>2, <2>3, <2>4, <3>3
    <3> HIDE DEF Step, h
    <3> QED BY <2>2, <3>1, <3>2, <3>3
  <2>6. h = [i \in 0..Len(tt) |-> Step(i)]
    <3>1. h = [i \in 0..(n + 1) |-> h[i]]
      OBVIOUS
    <3> HIDE DEF h, Step, tt
    <3> QED BY <2>2, <2>5, <3>1
  <2>7. GroupTable(dims, tt, k, h)
    <3> HIDE DEF h, tt
    <3> QED BY <2>6 DEF GroupTable
  <2> HIDE DEF h
  <2> QED BY <2>2, <2>7
<1>3. G = Seq(S)
  <2>1. G \in SUBSET Seq(S)
    OBVIOUS
  <2> HIDE DEF G
  <2> QED BY <1>1, <1>2, <2>1, ListInduction
<1> QED BY <1>3

\* Two tables agree as far as their lists do.
LEMMA GroupTablesAgree ==
  ASSUME NEW dims, NEW k, NEW rs, NEW ss, NEW g, NEW h, NEW n \in Nat,
         GroupTable(dims, rs, k, g), GroupTable(dims, ss, k, h),
         n <= Len(rs), n <= Len(ss), Len(rs) \in Nat, Len(ss) \in Nat,
         \A i \in 1..n : rs[i] = ss[i]
  PROVE  g[n] = h[n]
<1> DEFINE N == {i \in Nat : i <= n => g[i] = h[i]}
<1>1. 0 \in N
  BY DEF GroupTable
<1>2. ASSUME NEW i \in N PROVE i + 1 \in N
  <2> SUFFICES ASSUME i + 1 <= n PROVE g[i + 1] = h[i + 1]
    OBVIOUS
  <2>1. /\ i + 1 \in 1..Len(rs) /\ i + 1 \in 1..Len(ss)
        /\ i \in Nat /\ rs[i + 1] = ss[i + 1] /\ g[i] = h[i]
    OBVIOUS
  <2> HIDE DEF N
  <2> DEFINE j == i + 1
  <2>2. j \in 1..Len(rs) /\ j \in 1..Len(ss) /\ g[j - 1] = h[j - 1] /\ rs[j] = ss[j]
    BY <2>1
  <2> HIDE DEF j
  <2>3. /\ g[j] = IF Keys(dims, rs[j]) = k THEN Append(g[j - 1], rs[j]) ELSE g[j - 1]
        /\ h[j] = IF Keys(dims, ss[j]) = k THEN Append(h[j - 1], ss[j]) ELSE h[j - 1]
    BY <2>2, GroupTableAt
  <2>4. g[j] = h[j]
    BY <2>2, <2>3
  <2> QED BY <2>4 DEF j
<1>3. N = Nat
  <2>1. N \in SUBSET Nat
    OBVIOUS
  <2> HIDE DEF N
  <2> QED BY <1>1, <1>2, <2>1, NaturalInduction
<1> QED BY <1>3

\* No record, no group.
LEMMA GroupEmpty ==
  ASSUME NEW dims, NEW k
  PROVE  GroupOf(dims, << >>, k) = << >>
<1>1. << >> \in Seq(Record) /\ Len(<< >>) = 0
  BY EmptySeq
<1>2. \E g : GroupTable(dims, << >>, k, g)
  BY <1>1, GroupTables
<1> QED BY <1>1, <1>2, GroupFromTable DEF GroupTable

\* The record that is looked at last ends the group of its key and no other (the loop of
\* Cube::process).
LEMMA GroupAppend ==
  ASSUME NEW S, NEW dims, NEW k, NEW rs \in Seq(S), NEW r \in S
  PROVE  GroupOf(dims, Append(rs, r), k) =
           IF Keys(dims, r) = k THEN Append(GroupOf(dims, rs, k), r)
                                ELSE GroupOf(dims, rs, k)
<1> DEFINE n == Len(rs)
           ss == Append(rs, r)
<1>1. /\ ss \in Seq(S) /\ Len(ss) = n + 1 /\ n \in Nat /\ ss[n + 1] = r
      /\ \A i \in 1..n : rs[i] = ss[i]
  BY AppendProperties
<1>2. PICK g : GroupTable(dims, rs, k, g) /\ GroupOf(dims, rs, k) = g[n]
  BY GroupTables, GroupFromTable
<1> HIDE DEF ss
<1>3. PICK h : GroupTable(dims, ss, k, h) /\ GroupOf(dims, ss, k) = h[n + 1]
  BY <1>1, GroupTables, GroupFromTable
<1>4. h[n + 1] = IF Keys(dims, ss[n + 1]) = k THEN Append(h[n + 1 - 1], ss[n + 1])
                                               ELSE h[n + 1 - 1]
  BY <1>1, <1>3, GroupTableAt
<1>5. n + 1 - 1 = n /\ g[n] = h[n]
  BY <1>1, <1>2, <1>3, GroupTablesAgree
<1> QED BY <1>1, <1>2, <1>3, <1>4, <1>5 DEF ss

\* What is in a list to which something is appended.
LEMMA RangeAppend ==
  ASSUME NEW S, NEW s \in Seq(S), NEW e \in S
  PROVE  Range(Append(s, e)) = Range(s) \cup {e}
<1> DEFINE t == Append(s, e)
<1>1. /\ DOMAIN t = 1..(Len(s) + 1) /\ Len(s) \in Nat /\ DOMAIN s = 1..Len(s)
      /\ t[Len(s) + 1] = e /\ \A i \in 1..Len(s) : t[i] = s[i]
  BY AppendProperties
<1> HIDE DEF t
<1>2. \A i \in DOMAIN t : i \in DOMAIN s \/ i = Len(s) + 1
  BY <1>1
<1>3. \A i \in DOMAIN s : i \in DOMAIN t /\ t[i] = s[i]
  BY <1>1
<1>4. Range(t) = Range(s) \cup {e}
  BY <1>1, <1>2, <1>3 DEF Range
<1> QED BY <1>4 DEF t

\* Nothing is in the empty list.
LEMMA RangeEmpty == Range(<< >>) = {}
BY DEF Range

\* A list holds finitely many different things, all of their kind.
LEMMA RangeFinite ==
  ASSUME NEW S, NEW rs \in Seq(S)
  PROVE  IsFiniteSet(Range(rs)) /\ Range(rs) \subseteq S
<1> DEFINE G == {ss \in Seq(S) : IsFiniteSet(Range(ss)) /\ Range(ss) \subseteq S}
<1>1. << >> \in G
  BY EmptySeq, RangeEmpty, FS_EmptySet
<1>2. ASSUME NEW ss \in G, NEW r \in S PROVE Append(ss, r) \in G
  BY RangeAppend, AppendProperties, FS_AddElement
<1>3. G = Seq(S)
  <2>1. G \in SUBSET Seq(S)
    OBVIOUS
  <2> HIDE DEF G
  <2> QED BY <1>1, <1>2, <2>1, ListInduction
<1> QED BY <1>3

\* A group holds the records of its key, in the order of the list.
LEMMA GroupElements ==
  ASSUME NEW S, NEW dims, NEW k, NEW rs \in Seq(S)
  PROVE  /\ GroupOf(dims, rs, k) \in Seq(S)
         /\ Range(GroupOf(dims, rs, k)) = {r \in Range(rs) : Keys(dims, r) = k}
<1> DEFINE Good(ss) == /\ GroupOf(dims, ss, k) \in Seq(S)
                       /\ Range(GroupOf(dims, ss, k)) = {r \in Range(ss) : Keys(dims, r) = k}
           G == {ss \in Seq(S) : Good(ss)}
<1>1. << >> \in G
  BY EmptySeq, RangeEmpty, GroupEmpty
<1>2. ASSUME NEW ss \in G, NEW r \in S PROVE Append(ss, r) \in G
  <2>1. Append(ss, r) \in Seq(S) /\ Range(Append(ss, r)) = Range(ss) \cup {r}
    BY AppendProperties, RangeAppend
  <2>2. CASE Keys(dims, r) = k
    <3>1. GroupOf(dims, Append(ss, r), k) = Append(GroupOf(dims, ss, k), r)
      BY <2>2, GroupAppend
    <3>2. GroupOf(dims, Append(ss, r), k) \in Seq(S)
      BY <3>1, AppendProperties
    <3>3. Range(GroupOf(dims, Append(ss, r), k)) = Range(GroupOf(dims, ss, k)) \cup {r}
      BY <3>1, RangeAppend
    <3> QED BY <2>1, <2>2, <3>2, <3>3
  <2>3. CASE Keys(dims, r) # k
    <3>1. GroupOf(dims, Append(ss, r), k) = GroupOf(dims, ss, k)
      BY <2>3, GroupAppend
    <3> QED BY <2>1, <2>3, <3>1
  <2> QED BY <2>2, <2>3
<1>3. G = Seq(S)
  <2>1. G \in SUBSET Seq(S)
    OBVIOUS
  <2> HIDE DEF G
  <2> QED BY <1>1, <1>2, <2>1, ListInduction
<1> QED BY <1>3

\* The key of a record in the full cube is the record itself (Cube::getKeys).
LEMMA AllKeys ==
  ASSUME NEW r \in Record
  PROVE  Keys(AllDimensions, r) = r
BY DEF Keys, AllDimensions, Record

-----------------------------------------------------------------------------
(* What groups and cells add up to *)

\* The measure W summed up over a list.
ListSum(W, group) == SumFunction([i \in DOMAIN group |-> W[group[i]]])

\* A function with one place more adds up to its value there more.
LEMMA SumOneMore ==
  ASSUME NEW f, NEW g, NEW x, IsFiniteSet(DOMAIN f), x \notin DOMAIN f,
         DOMAIN g = DOMAIN f \cup {x}, g[x] \in Int,
         \A y \in DOMAIN f : f[y] \in Int /\ g[y] = f[y]
  PROVE  SumFunction(g) = SumFunction(f) + g[x]
<1> PICK d \in Int : d = g[x]
  OBVIOUS
<1>1. g[x] = (IF x \in DOMAIN f THEN f[x] ELSE 0) + d
  OBVIOUS
<1>2. /\ \A y \in DOMAIN f : f[y] \in Int
      /\ \A y \in DOMAIN f \ {x} : g[y] = f[y]
  OBVIOUS
<1>3. SumFunction(g) = SumFunction(f) + d
  BY <1>1, <1>2, SumBump
<1> QED BY <1>3

\* The empty list adds up to zero.
LEMMA ListSumEmpty ==
  ASSUME NEW W
  PROVE  ListSum(W, << >>) = 0
<1>1. DOMAIN [i \in DOMAIN << >> |-> W[<< >>[i]]] = {}
  OBVIOUS
<1> QED BY <1>1, SumEmpty DEF ListSum, SumFunction

\* A list adds up to its last element more than the rest does.
LEMMA ListSumAppend ==
  ASSUME NEW S, NEW W \in [S -> Int], NEW s \in Seq(S), NEW e \in S
  PROVE  ListSum(W, Append(s, e)) = ListSum(W, s) + W[e]
<1> DEFINE t == Append(s, e)
           f == [i \in DOMAIN s |-> W[s[i]]]
           g == [i \in DOMAIN t |-> W[t[i]]]
           x == Len(s) + 1
<1>1. /\ DOMAIN t = 1..x /\ Len(s) \in Nat /\ DOMAIN s = 1..Len(s)
      /\ t[x] = e /\ \A i \in 1..Len(s) : t[i] = s[i]
  BY AppendProperties
<1>2. IsFiniteSet(DOMAIN s)
  BY <1>1, FS_Interval
<1>3. DOMAIN t = DOMAIN s \cup {x} /\ x \notin DOMAIN s
  BY <1>1
<1> HIDE DEF t, x
<1>4. \A y \in DOMAIN s : s[y] \in S /\ t[y] = s[y]
  BY <1>1
<1>5. DOMAIN f = DOMAIN s /\ DOMAIN g = DOMAIN f \cup {x} /\ IsFiniteSet(DOMAIN f)
  BY <1>2, <1>3
<1>6. \A y \in DOMAIN f : f[y] \in Int /\ g[y] = f[y]
  BY <1>3, <1>4
<1>7. W[e] \in Int
  OBVIOUS
<1>8. g[x] = W[e] /\ x \notin DOMAIN f
  BY <1>1, <1>3
<1> HIDE DEF f, g
<1>9. SumFunction(g) = SumFunction(f) + g[x]
  BY <1>5, <1>6, <1>7, <1>8, SumOneMore
<1> QED BY <1>8, <1>9 DEF f, g, t, ListSum

\* A list of integers adds up to an integer.
LEMMA ListSumType ==
  ASSUME NEW S, NEW W \in [S -> Int], NEW s \in Seq(S)
  PROVE  ListSum(W, s) \in Int
<1>1. IsFiniteSet(DOMAIN s)
  BY FS_Interval
<1> DEFINE f == [i \in DOMAIN s |-> W[s[i]]]
<1>2. \A y \in DOMAIN s : f[y] \in Int
  OBVIOUS
<1>3. DOMAIN f = DOMAIN s
  OBVIOUS
<1> HIDE DEF f
<1>4. SumFunctionOnSet(f, DOMAIN f) \in Int
  BY <1>1, <1>2, <1>3, SumRemove
<1> QED BY <1>4 DEF ListSum, SumFunction, f

\* A sum of ones is a length.
LEMMA SumOfOnes ==
  ASSUME NEW S, NEW s \in Seq(S)
  PROVE  ListSum([r \in S |-> 1], s) = Len(s)
<1> DEFINE One == [r \in S |-> 1]
           G == {ss \in Seq(S) : ListSum(One, ss) = Len(ss)}
<1>1. << >> \in G
  BY EmptySeq, ListSumEmpty
<1>2. ASSUME NEW ss \in G, NEW r \in S PROVE Append(ss, r) \in G
  <2>1. One \in [S -> Int] /\ One[r] = 1
    OBVIOUS
  <2> HIDE DEF One
  <2>2. ListSum(One, Append(ss, r)) = ListSum(One, ss) + 1
    BY <2>1, ListSumAppend
  <2> QED BY <2>2, AppendProperties
<1>3. G = Seq(S)
  <2>1. G \in SUBSET Seq(S)
    OBVIOUS
  <2> HIDE DEF G
  <2> QED BY <1>1, <1>2, <2>1, ListInduction
<1> QED BY <1>3

\* The measure W summed up over the cells of the full cube of rs that are in cells.
CellSum(W, rs, cells) ==
  SumFunction([c \in cells \cap Range(rs) |-> Len(GroupOf(AllDimensions, rs, c)) * W[c]])

\* The full cube of no record adds up to zero.
LEMMA CellSumEmpty ==
  ASSUME NEW W, NEW cells
  PROVE  CellSum(W, << >>, cells) = 0
<1> DEFINE f == [c \in cells \cap Range(<< >>) |-> Len(GroupOf(AllDimensions, << >>, c)) * W[c]]
<1>1. DOMAIN f = {}
  BY RangeEmpty
<1> HIDE DEF f
<1>2. SumFunction(f) = 0
  BY <1>1, SumEmpty DEF SumFunction
<1> QED BY <1>2 DEF CellSum, f

\* One record more is one copy more in its cell of the full cube, and in no other.
LEMMA FullCubeAppend ==
  ASSUME NEW S \in SUBSET Record, NEW rs \in Seq(S), NEW r \in S, NEW c \in S
  PROVE  /\ Len(GroupOf(AllDimensions, rs, c)) \in Nat
         /\ c \notin Range(rs) => Len(GroupOf(AllDimensions, rs, c)) = 0
         /\ Len(GroupOf(AllDimensions, Append(rs, r), c)) =
              Len(GroupOf(AllDimensions, rs, c)) + (IF c = r THEN 1 ELSE 0)
<1> DEFINE g == GroupOf(AllDimensions, rs, c)
<1>1. g \in Seq(S) /\ Range(g) = {q \in Range(rs) : Keys(AllDimensions, q) = c}
  BY GroupElements
<1>2. Keys(AllDimensions, r) = r /\ Keys(AllDimensions, c) = c
  BY AllKeys
<1>3. GroupOf(AllDimensions, Append(rs, r), c) = IF r = c THEN Append(g, r) ELSE g
  BY <1>2, GroupAppend
<1> HIDE DEF g
<1>4. Len(Append(g, r)) = Len(g) + 1
  BY <1>1, AppendProperties
<1>5. ASSUME c \notin Range(rs) PROVE Len(g) = 0
  <2>1. \A q \in Range(rs) : Keys(AllDimensions, q) = q
    BY AllKeys, RangeFinite
  <2>2. Range(g) = {}
    BY <1>1, <1>5, <2>1
  <2>3. DOMAIN g = {}
    BY <2>2 DEF Range
  <2>4. DOMAIN g = 1..Len(g) /\ Len(g) \in Nat
    BY <1>1
  <2>5. 1 \notin 1..Len(g)
    BY <2>3, <2>4
  <2> QED BY <2>4, <2>5
<1> QED BY <1>1, <1>3, <1>4, <1>5 DEF g

\* One record more adds its measure to the cells that it is among.
LEMMA CellSumAppend ==
  ASSUME NEW S \in SUBSET Record, NEW W \in [S -> Int], NEW cells,
         NEW rs \in Seq(S), NEW r \in S
  PROVE  CellSum(W, Append(rs, r), cells) =
           CellSum(W, rs, cells) + (IF r \in cells THEN W[r] ELSE 0)
<1> DEFINE ss == Append(rs, r)
           n(c) == Len(GroupOf(AllDimensions, rs, c))
           m(c) == Len(GroupOf(AllDimensions, ss, c))
           f == [c \in cells \cap Range(rs) |-> n(c) * W[c]]
           g == [c \in cells \cap Range(ss) |-> m(c) * W[c]]
<1>1. /\ Range(ss) = Range(rs) \cup {r}
      /\ IsFiniteSet(Range(rs)) /\ Range(rs) \subseteq S /\ Range(ss) \subseteq S
  BY RangeAppend, RangeFinite
<1>2. \A c \in S : /\ n(c) \in Nat
                   /\ c \notin Range(rs) => n(c) = 0
                   /\ m(c) = n(c) + (IF c = r THEN 1 ELSE 0)
  BY FullCubeAppend
<1>3. \A c \in S : W[c] \in Int
  OBVIOUS
<1>4. IsFiniteSet(DOMAIN f)
  BY <1>1, FS_Subset
<1> HIDE DEF n, m, ss
<1>5. \A c \in DOMAIN f : f[c] \in Int
  BY <1>1, <1>2, <1>3
<1>6. CASE r \in cells
  <2>1. DOMAIN g = DOMAIN f \cup {r}
    BY <1>1, <1>6
  <2>2. \A c \in DOMAIN f \ {r} : g[c] = f[c]
    BY <1>1, <1>2, <1>3
  <2>3. g[r] = (IF r \in DOMAIN f THEN f[r] ELSE 0) + W[r]
    <3>1. g[r] = (n(r) + 1) * W[r]
      BY <1>1, <1>2, <1>6
    <3>2. CASE r \in Range(rs)
      <4>1. r \in DOMAIN f /\ f[r] = n(r) * W[r]
        BY <1>6, <3>2
      <4>2. n(r) \in Int /\ W[r] \in Int
        BY <1>2, <1>3
      <4>3. (n(r) + 1) * W[r] = n(r) * W[r] + W[r]
        BY <4>2
      <4> QED BY <3>1, <4>1, <4>3
    <3>3. CASE r \notin Range(rs)
      <4>1. r \notin DOMAIN f /\ n(r) = 0 /\ W[r] \in Int
        BY <1>2, <1>3, <3>3
      <4> HIDE DEF f, g
      <4> QED BY <3>1, <4>1
    <3> QED BY <3>2, <3>3
  <2>a. W[r] \in Int
    OBVIOUS
  <2> HIDE DEF f, g
  <2>4. SumFunction(g) = SumFunction(f) + W[r]
    BY <1>4, <1>5, <2>a, <2>1, <2>2, <2>3, SumBump
  <2> QED BY <1>6, <2>4 DEF f, g, n, m, ss, CellSum
<1>7. CASE r \notin cells
  <2>1. f = g
    BY <1>1, <1>2, <1>7
  <2>2. SumFunction(f) \in Int
    <3> HIDE DEF f
    <3> QED BY <1>4, <1>5, SumRemove DEF SumFunction
  <2> HIDE DEF f, g
  <2>3. SumFunction(g) = SumFunction(f) + 0
    BY <2>1, <2>2
  <2> QED BY <1>7, <2>3 DEF f, g, n, m, ss, CellSum
<1> QED BY <1>6, <1>7

\* What a group adds up to is what its cells of the full cube add up to.
LEMMA GroupSum ==
  ASSUME NEW S \in SUBSET Record, NEW W \in [S -> Int], NEW dims, NEW k, NEW rs \in Seq(S)
  PROVE  ListSum(W, GroupOf(dims, rs, k)) = CellSum(W, rs, {c \in S : Keys(dims, c) = k})
<1> DEFINE cells == {c \in S : Keys(dims, c) = k}
           G == {ss \in Seq(S) : ListSum(W, GroupOf(dims, ss, k)) = CellSum(W, ss, cells)}
<1>1. << >> \in G
  BY EmptySeq, GroupEmpty, ListSumEmpty, CellSumEmpty
<1>2. ASSUME NEW ss \in G, NEW r \in S PROVE Append(ss, r) \in G
  <2>1. /\ Append(ss, r) \in Seq(S) /\ W[r] \in Int
        /\ GroupOf(dims, ss, k) \in Seq(S)
    BY AppendProperties, GroupElements
  <2>2. CellSum(W, Append(ss, r), cells) =
          CellSum(W, ss, cells) + (IF r \in cells THEN W[r] ELSE 0)
    BY CellSumAppend
  <2>3. ListSum(W, GroupOf(dims, ss, k)) \in Int
    BY <2>1, ListSumType
  <2>4. CASE Keys(dims, r) = k
    <3>1. GroupOf(dims, Append(ss, r), k) = Append(GroupOf(dims, ss, k), r)
      BY <2>4, GroupAppend
    <3>2. ListSum(W, Append(GroupOf(dims, ss, k), r)) = ListSum(W, GroupOf(dims, ss, k)) + W[r]
      BY <2>1, ListSumAppend
    <3> QED BY <2>1, <2>2, <2>4, <3>1, <3>2
  <2>5. CASE Keys(dims, r) # k
    <3>1. GroupOf(dims, Append(ss, r), k) = GroupOf(dims, ss, k)
      BY <2>5, GroupAppend
    <3> QED BY <2>1, <2>2, <2>3, <2>5, <3>1
  <2> QED BY <2>4, <2>5
<1>3. G = Seq(S)
  <2>1. G \in SUBSET Seq(S)
    OBVIOUS
  <2> HIDE DEF G
  <2> QED BY <1>1, <1>2, <2>1, ListInduction
<1> QED BY <1>3

\* What the groups of some keys add up to.
KeySum(W, dims, rs, keys) ==
  SumFunction([key \in keys \cap {Keys(dims, r) : r \in Range(rs)} |->
                 ListSum(W, GroupOf(dims, rs, key))])

\* One record more adds its measure to the groups that it is in.
LEMMA KeySumAppend ==
  ASSUME NEW S, NEW W \in [S -> Int], NEW dims, NEW keys, NEW rs \in Seq(S), NEW r \in S
  PROVE  KeySum(W, dims, Append(rs, r), keys) =
           KeySum(W, dims, rs, keys) + (IF Keys(dims, r) \in keys THEN W[r] ELSE 0)
<1> DEFINE ss == Append(rs, r)
           k == Keys(dims, r)
           D == {Keys(dims, q) : q \in Range(rs)}
           E == {Keys(dims, q) : q \in Range(ss)}
           m(key) == ListSum(W, GroupOf(dims, rs, key))
           n(key) == ListSum(W, GroupOf(dims, ss, key))
           f == [key \in keys \cap D |-> m(key)]
           g == [key \in keys \cap E |-> n(key)]
<1>1. Range(ss) = Range(rs) \cup {r} /\ IsFiniteSet(Range(rs))
  BY RangeAppend, RangeFinite
<1>2. E = D \cup {k}
  BY <1>1
<1>3. W[r] \in Int
  OBVIOUS
<1>4. \A key : m(key) \in Int
  BY GroupElements, ListSumType
<1>5. \A key : key # k => n(key) = m(key)
  <2> SUFFICES ASSUME NEW key, key # k PROVE n(key) = m(key)
    OBVIOUS
  <2> QED BY GroupAppend
<1>6. n(k) = m(k) + W[r]
  <2>1. GroupOf(dims, ss, k) = Append(GroupOf(dims, rs, k), r)
    BY GroupAppend
  <2>2. GroupOf(dims, rs, k) \in Seq(S)
    BY GroupElements
  <2>3. ListSum(W, Append(GroupOf(dims, rs, k), r)) = ListSum(W, GroupOf(dims, rs, k)) + W[r]
    BY <2>2, ListSumAppend
  <2> QED BY <2>1, <2>3
<1>7. k \notin D => m(k) = 0
  <2> SUFFICES ASSUME k \notin D PROVE m(k) = 0
    OBVIOUS
  <2> DEFINE group == GroupOf(dims, rs, k)
  <2>1. group \in Seq(S) /\ Range(group) = {}
    BY GroupElements
  <2>2. DOMAIN group = {}
    BY <2>1 DEF Range
  <2>3. group = << >>
    <3> HIDE DEF group
    <3>1. DOMAIN group = 1..Len(group) /\ Len(group) \in Nat
      BY <2>1
    <3>2. 1 \notin 1..Len(group)
      BY <2>2, <3>1
    <3>3. Len(group) = 0
      BY <3>1, <3>2
    <3> QED BY <2>1, <3>3, EmptySeq
  <2> QED BY <2>3, ListSumEmpty
<1>8. IsFiniteSet(D)
  <2> DEFINE h == [q \in Range(rs) |-> Keys(dims, q)]
  <2>1. h \in Surjection(Range(rs), D)
    BY DEF Surjection
  <2> HIDE DEF h, D
  <2> QED BY <1>1, <2>1, FS_Surjection
<1>9. DOMAIN f = keys \cap D /\ DOMAIN g = keys \cap E
  OBVIOUS
<1>10. IsFiniteSet(DOMAIN f)
  BY <1>8, <1>9, FS_Subset
<1> HIDE DEF m, n, ss, D, E, k
<1>11. \A key \in DOMAIN f : f[key] \in Int
  BY <1>4
<1>12. CASE k \in keys
  <2>1. DOMAIN g = DOMAIN f \cup {k}
    BY <1>2, <1>12
  <2>2. \A key \in DOMAIN f \ {k} : g[key] = f[key]
    BY <1>2, <1>5
  <2>3. g[k] = m(k) + W[r] /\ (k \in D => f[k] = m(k)) /\ (k \in DOMAIN f <=> k \in D)
    BY <1>2, <1>6, <1>12
  <2> HIDE DEF f, g
  <2>4. g[k] = (IF k \in DOMAIN f THEN f[k] ELSE 0) + W[r]
    BY <1>7, <2>3
  <2>5. SumFunction(g) = SumFunction(f) + W[r]
    BY <1>3, <1>10, <1>11, <2>1, <2>2, <2>4, SumBump
  <2> QED BY <1>12, <2>5 DEF f, g, m, n, ss, D, E, k, KeySum
<1>13. CASE k \notin keys
  <2>1. f = g
    BY <1>2, <1>5, <1>13
  <2>2. SumFunction(f) \in Int
    <3> HIDE DEF f
    <3> QED BY <1>10, <1>11, SumRemove DEF SumFunction
  <2> HIDE DEF f, g
  <2>3. SumFunction(g) = SumFunction(f) + 0
    BY <2>1, <2>2
  <2> QED BY <1>13, <2>3 DEF f, g, m, n, ss, D, E, k, KeySum
<1> QED BY <1>12, <1>13

\* The groups of some keys add up to what their cells of the full cube add up to.
LEMMA KeySumIsCellSum ==
  ASSUME NEW S \in SUBSET Record, NEW W \in [S -> Int], NEW dims, NEW keys, NEW rs \in Seq(S)
  PROVE  KeySum(W, dims, rs, keys) = CellSum(W, rs, {c \in S : Keys(dims, c) \in keys})
<1> DEFINE cells == {c \in S : Keys(dims, c) \in keys}
           G == {ss \in Seq(S) : KeySum(W, dims, ss, keys) = CellSum(W, ss, cells)}
<1>1. << >> \in G
  <2> DEFINE f == [key \in keys \cap {Keys(dims, r) : r \in Range(<< >>)} |->
                     ListSum(W, GroupOf(dims, << >>, key))]
  <2>1. DOMAIN f = {}
    BY RangeEmpty
  <2> HIDE DEF f
  <2>2. SumFunction(f) = 0
    BY <2>1, SumEmpty DEF SumFunction
  <2>3. KeySum(W, dims, << >>, keys) = 0
    BY <2>2 DEF f, KeySum
  <2> QED BY <2>3, EmptySeq, CellSumEmpty
<1>2. ASSUME NEW ss \in G, NEW r \in S PROVE Append(ss, r) \in G
  <2>1. Append(ss, r) \in Seq(S)
    BY AppendProperties
  <2>2. CellSum(W, Append(ss, r), cells) =
          CellSum(W, ss, cells) + (IF r \in cells THEN W[r] ELSE 0)
    BY CellSumAppend
  <2>3. KeySum(W, dims, Append(ss, r), keys) =
          KeySum(W, dims, ss, keys) + (IF Keys(dims, r) \in keys THEN W[r] ELSE 0)
    BY KeySumAppend
  <2> QED BY <2>1, <2>2, <2>3
<1>3. G = Seq(S)
  <2>1. G \in SUBSET Seq(S)
    OBVIOUS
  <2> HIDE DEF G
  <2> QED BY <1>1, <1>2, <2>1, ListInduction
<1> QED BY <1>3

\* How often something is in a list.
Copies(list, c) == Cardinality({i \in DOMAIN list : list[i] = c})

\* A group holds as many copies of a record as the full cube does.
LEMMA GroupCount ==
  ASSUME NEW S \in SUBSET Record, NEW dims, NEW c \in S, NEW rs \in Seq(S)
  PROVE  Copies(GroupOf(dims, rs, Keys(dims, c)), c) = Len(GroupOf(AllDimensions, rs, c))
<1> DEFINE k == Keys(dims, c)
           Places(s) == {i \in DOMAIN s : s[i] = c}
           Count(ss) == Cardinality(Places(GroupOf(dims, ss, k)))
           Good(ss) == /\ IsFiniteSet(Places(GroupOf(dims, ss, k)))
                       /\ Count(ss) = Len(GroupOf(AllDimensions, ss, c))
           G == {ss \in Seq(S) : Good(ss)}
<1>1. << >> \in G
  <2>1. Places(<< >>) = {}
    OBVIOUS
  <2>2. Len(<< >>) = 0
    OBVIOUS
  <2> HIDE DEF Places
  <2> QED BY <2>1, <2>2, EmptySeq, GroupEmpty, FS_EmptySet
<1>2. ASSUME NEW ss \in G, NEW r \in S PROVE Append(ss, r) \in G
  <2> DEFINE g == GroupOf(dims, ss, k)
  <2>1. Append(ss, r) \in Seq(S) /\ g \in Seq(S)
    BY AppendProperties, GroupElements
  <2>2. /\ Len(GroupOf(AllDimensions, ss, c)) \in Nat
        /\ Len(GroupOf(AllDimensions, Append(ss, r), c)) =
             Len(GroupOf(AllDimensions, ss, c)) + (IF c = r THEN 1 ELSE 0)
    BY FullCubeAppend
  <2>3. GroupOf(dims, Append(ss, r), k) = IF Keys(dims, r) = k THEN Append(g, r) ELSE g
    BY GroupAppend
  <2> HIDE DEF g
  <2>4. /\ DOMAIN g = 1..Len(g) /\ Len(g) \in Nat
        /\ DOMAIN Append(g, r) = 1..(Len(g) + 1)
        /\ Append(g, r)[Len(g) + 1] = r
        /\ \A i \in 1..Len(g) : Append(g, r)[i] = g[i]
    BY <2>1, AppendProperties
  <2>5. IsFiniteSet(Places(g)) /\ Cardinality(Places(g)) = Len(GroupOf(AllDimensions, ss, c))
    BY DEF g
  <2>6. CASE r = c
    <3>1. Places(Append(g, r)) = Places(g) \cup {Len(g) + 1} /\ Len(g) + 1 \notin Places(g)
      BY <2>4, <2>6
    <3> HIDE DEF Places
    <3>2. /\ IsFiniteSet(Places(Append(g, r)))
          /\ Cardinality(Places(Append(g, r))) = Cardinality(Places(g)) + 1
      BY <2>5, <3>1, FS_AddElement
    <3>3. /\ GroupOf(dims, Append(ss, r), k) = Append(g, r)
          /\ Len(GroupOf(AllDimensions, Append(ss, r), c)) = Cardinality(Places(g)) + 1
      BY <2>2, <2>3, <2>5, <2>6
    <3>4. Good(Append(ss, r))
      BY <3>2, <3>3
    <3> HIDE DEF Good
    <3> QED BY <2>1, <3>4
  <2>7. CASE r # c
    <3>1. Places(Append(g, r)) = Places(g)
      BY <2>4, <2>7
    <3> HIDE DEF Places
    <3>2. Places(GroupOf(dims, Append(ss, r), k)) = Places(g)
      BY <2>3, <3>1
    <3>3. Good(Append(ss, r))
      BY <2>2, <2>5, <2>7, <3>2
    <3> HIDE DEF Good
    <3> QED BY <2>1, <3>3
  <2> QED BY <2>6, <2>7
<1>3. G = Seq(S)
  <2>1. G \in SUBSET Seq(S)
    OBVIOUS
  <2> HIDE DEF G
  <2> QED BY <1>1, <1>2, <2>1, ListInduction
<1> QED BY <1>3 DEF Copies

-----------------------------------------------------------------------------
(* The cubes of a list *)

\* The records whose price is a number, and their prices.
Priced == {r \in Record : r[Price] \in Numeric}
PriceOf == [r \in Priced |-> Stod[r[Price]]]

\* A list of records that std::stod converts.
LEMMA PricedLists ==
  ASSUME NEW rs \in Seq(Record), Aggregable(rs)
  PROVE  rs \in Seq(Priced) /\ Priced \in SUBSET Record /\ PriceOf \in [Priced -> Int]
<1>1. \A i \in 1..Len(rs) : rs[i] \in Priced
  BY DEF Aggregable, Priced
<1>2. rs \in Seq(Priced)
  BY <1>1
<1>3. PriceOf \in [Priced -> Int]
  BY NumericAssumption DEF Priced, PriceOf, NumericAssumption
<1> QED BY <1>2, <1>3 DEF Priced

\* The keys that the records of a list have.
KeysIn(dims, rs) == {Keys(dims, r) : r \in Range(rs)}

\* The groups of a list: one for every key that one of its records has.
LEMMA GroupsAt ==
  ASSUME NEW rs, NEW dims
  PROVE  /\ DOMAIN Groups(dims, rs) = KeysIn(dims, rs)
         /\ \A key \in DOMAIN Groups(dims, rs) : Groups(dims, rs)[key] = GroupOf(dims, rs, key)
<1>1. {Keys(dims, rs[i]) : i \in DOMAIN rs} = KeysIn(dims, rs)
  BY DEF Range, KeysIn
<1>2. Groups(dims, rs) = [k \in {Keys(dims, rs[i]) : i \in DOMAIN rs} |-> GroupOf(dims, rs, k)]
  BY DEF Groups
<1> QED BY <1>1, <1>2

\* The cells of the full cube are the records of the list.
LEMMA FullCube ==
  ASSUME NEW rs \in Seq(Record)
  PROVE  BuildDiagrams(rs).full_cube = [c \in Range(rs) |-> GroupOf(AllDimensions, rs, c)]
<1>1. \A r \in Range(rs) : Keys(AllDimensions, r) = r
  BY AllKeys, RangeFinite
<1>2. KeysIn(AllDimensions, rs) = Range(rs)
  BY <1>1 DEF KeysIn
<1>3. DOMAIN Groups(AllDimensions, rs) = Range(rs)
  BY <1>2, GroupsAt
<1>4. BuildDiagrams(rs).full_cube =
        [k \in DOMAIN Groups(AllDimensions, rs) |-> Groups(AllDimensions, rs)[k]]
  BY DEF BuildDiagrams, Process, RecordDefaultAggregator
<1>5. \A c \in Range(rs) : Groups(AllDimensions, rs)[c] = GroupOf(AllDimensions, rs, c)
  BY <1>3, GroupsAt
<1> QED BY <1>3, <1>4, <1>5

\* The total of a group is the sum of its prices (RecordTotalPriceAggregator).
LEMMA TotalIsListSum ==
  ASSUME NEW group \in Seq(Priced)
  PROVE  RecordTotalPriceAggregator(group) = ListSum(PriceOf, group)
<1>1. \A i \in DOMAIN group : Stod[group[i][Price]] = PriceOf[group[i]]
  BY DEF PriceOf
<1>2. [i \in DOMAIN group |-> Stod[group[i][Price]]] = [i \in DOMAIN group |-> PriceOf[group[i]]]
  BY <1>1
<1> QED BY <1>2 DEF RecordTotalPriceAggregator, ListSum

\* Prices of a group that is not empty have a range.
LEMMA RangeType ==
  ASSUME NEW group \in Seq(Priced), Range(group) # {}
  PROVE  RecordPriceRangeAggregator(group) \in PriceRange
<1> DEFINE price == [i \in DOMAIN group |-> Stod[group[i][Price]]]
           prices == {Stod[group[i][Price]] : i \in DOMAIN group}
<1>1. IsFiniteSet(DOMAIN group) /\ DOMAIN group # {}
  <2>1. DOMAIN group = 1..Len(group) /\ Len(group) \in Nat
    OBVIOUS
  <2> QED BY <2>1, FS_Interval DEF Range
<1>2. price \in Surjection(DOMAIN group, prices)
  BY DEF Surjection
<1>3. prices \in SUBSET Int /\ prices # {}
  <2>1. \A i \in DOMAIN group : Stod[group[i][Price]] \in Int
    BY NumericAssumption DEF NumericAssumption, Priced
  <2> QED BY <1>1, <2>1
<1> HIDE DEF price, prices
<1>4. IsFiniteSet(prices)
  BY <1>1, <1>2, FS_Surjection
<1>5. Min(prices) \in Int /\ Max(prices) \in Int
  BY <1>3, <1>4, MinMax
<1> QED BY <1>5 DEF RecordPriceRangeAggregator, PriceRange, prices

=============================================================================
