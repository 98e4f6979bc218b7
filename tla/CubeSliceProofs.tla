-------------------------- MODULE CubeSliceProofs --------------------------
(***************************************************************************)
(* The loops of Cube::getSlice compute Slice, for every cube, every list   *)
(* of arguments and every order of the two walks.                          *)
(***************************************************************************)
EXTENDS CubeSlice, TLAPS

\* A cube is a function of its keys, and restricting it to all of them is no change.
LEMMA CubeWhole ==
  \A c \in Cubes : Restrict(c, DOMAIN c) = c
BY CubeSliceAssumption DEF Restrict

\* To keep a part of a part is to keep that part.
LEMMA RestrictTwice ==
  ASSUME NEW f, NEW S, NEW T, T \subseteq S
  PROVE  Restrict(Restrict(f, S), T) = Restrict(f, T)
BY DEF Restrict

\* What is kept of a function is what was asked for.
LEMMA DomainOfRestriction ==
  ASSUME NEW f, NEW S
  PROVE  DOMAIN Restrict(f, S) = S
BY DEF Restrict

\* The arguments are pairs, and the first of each is a dimension.
LEMMA ArgumentPairs ==
  ASSUME slice_arguments \in Arguments, NEW j \in DOMAIN slice_arguments
  PROVE  slice_arguments[j][1] \in Dimension
<1>1. slice_arguments \in Seq(Dimension \X Token)
  BY CubeSliceAssumption
<1>2. slice_arguments[j] \in Dimension \X Token
  BY <1>1, DOMAIN slice_arguments = 1..Len(slice_arguments)
<1>. QED BY <1>2

\* None is no dimension that is named.
LEMMA NamedAreDimensions ==
  ASSUME slice_arguments \in Arguments, FiltersCollected
  PROVE  None \notin DOMAIN filters
<1>1. slice_arguments \in Seq(Dimension \X Token)
  BY CubeSliceAssumption
<1>2. \A j \in 1..(n - 1) : j \in DOMAIN slice_arguments
  BY <1>1 DEF FiltersCollected
<1>3. DOMAIN filters \subseteq Dimension
  BY <1>2, ArgumentPairs DEF FiltersCollected
<1>. QED BY <1>3, CubeSliceAssumption

-----------------------------------------------------------------------------
\* The invariant holds at the start.
LEMMA InitInvariant == Init => LoopInvariant
<1>. SUFFICES ASSUME Init PROVE LoopInvariant
  OBVIOUS
<1>. USE DEF Init
<1>1. slice_arguments \in Seq(Dimension \X Token)
  BY CubeSliceAssumption
<1>2. FiltersCollected
  <2>1. 1 \in 1..(Len(slice_arguments) + 1) /\ 1..(n - 1) = {}
    BY <1>1
  <2>. QED BY <2>1 DEF FiltersCollected
<1>. QED BY <1>2 DEF LoopInvariant, Walking

\* Collect keeps the invariant.
LEMMA CollectStep == LoopInvariant /\ Collect => LoopInvariant'
<1>. SUFFICES ASSUME LoopInvariant, Collect PROVE LoopInvariant'
  OBVIOUS
<1>. DEFINE d == slice_arguments[n][1]
            v == slice_arguments[n][2]
<1>1. slice_arguments \in Seq(Dimension \X Token) /\ Len(slice_arguments) \in Nat
  BY CubeSliceAssumption DEF LoopInvariant
<1>2. /\ pc = "collect" /\ pc' = "collect" /\ n \in Nat \ {0} /\ n <= Len(slice_arguments)
      /\ n' = n + 1 /\ slice_arguments' = slice_arguments
      /\ filters' = [e \in DOMAIN filters \cup {d} |->
                       (IF e \in DOMAIN filters THEN filters[e] ELSE {})
                         \cup (IF e = d THEN {v} ELSE {})]
  BY <1>1 DEF Collect, input, LoopInvariant, FiltersCollected
<1>3. 1..(n' - 1) = (1..(n - 1)) \cup {n} /\ n' \in 1..(Len(slice_arguments) + 1)
  BY <1>1, <1>2
<1>4. DOMAIN filters' = {slice_arguments[j][1] : j \in 1..(n' - 1)}
  BY <1>2, <1>3 DEF LoopInvariant, FiltersCollected
<1>5. ASSUME NEW e \in DOMAIN filters'
      PROVE  filters'[e] = {slice_arguments[j][2] :
                              j \in {l \in 1..(n' - 1) : slice_arguments[l][1] = e}}
  <2>1. CASE e \in DOMAIN filters
    <3>1. filters[e] = {slice_arguments[j][2] :
                          j \in {l \in 1..(n - 1) : slice_arguments[l][1] = e}}
      BY <2>1 DEF LoopInvariant, FiltersCollected
    <3>2. filters'[e] = filters[e] \cup (IF e = d THEN {v} ELSE {})
      BY <1>2, <2>1
    <3>. QED BY <3>1, <3>2, <1>3
  <2>2. CASE e \notin DOMAIN filters
    <3>1. e = d /\ filters'[e] = {v}
      BY <1>2, <2>2
    <3>2. \A l \in 1..(n - 1) : slice_arguments[l][1] # e
      BY <2>2 DEF LoopInvariant, FiltersCollected
    <3>. QED BY <3>1, <3>2, <1>3
  <2>. QED BY <2>1, <2>2
<1>6. FiltersCollected'
  <2>. HIDE DEF d, v
  <2>1. (pc # "collect")' => n' = Len(slice_arguments) + 1
    BY <1>2
  <2>2. slice_arguments' = slice_arguments
    BY <1>2
  <2>3. DOMAIN filters' = {slice_arguments'[j][1] : j \in 1..(n' - 1)}
    BY <1>4, <2>2
  <2>4. \A e \in DOMAIN filters' :
          filters'[e] = {slice_arguments'[j][2] :
                           j \in {l \in 1..(n' - 1) : slice_arguments'[l][1] = e}}
    BY <1>5, <2>2
  <2>. QED BY <1>3, <2>1, <2>2, <2>3, <2>4 DEF FiltersCollected
<1>. QED BY <1>2, <1>6 DEF Collect, input, LoopInvariant, Walking

\* Collected keeps the invariant.
LEMMA CollectedStep == LoopInvariant /\ Collected => LoopInvariant'
<1>. SUFFICES ASSUME LoopInvariant, Collected PROVE LoopInvariant'
  OBVIOUS
<1>1. slice_arguments \in Seq(Dimension \X Token) /\ Len(slice_arguments) \in Nat
  BY CubeSliceAssumption DEF LoopInvariant
<1>2. /\ pc = "collect" /\ pc' = "dimension" /\ todo' = DOMAIN filters
      /\ cube' = cube /\ slice_arguments' = slice_arguments /\ n' = n
      /\ filters' = filters /\ dimension_name' = None /\ ahead' = {}
      /\ new_cube' = cube
  BY DEF Collected, input, LoopInvariant, Walking
<1>3. n = Len(slice_arguments) + 1
  BY <1>1 DEF Collected, LoopInvariant, FiltersCollected
<1>4. FiltersCollected'
  BY <1>2, <1>3 DEF LoopInvariant, FiltersCollected
<1>5. Sliced' = {}
  BY <1>2 DEF Sliced
<1>6. CellsLeft' = DOMAIN cube
  BY <1>2, <1>5 DEF CellsLeft, Walking
<1>7. new_cube' = Restrict(cube', CellsLeft')
  BY <1>2, <1>6, CubeWhole DEF LoopInvariant
<1>. QED BY <1>2, <1>4, <1>5, <1>7 DEF LoopInvariant, Walking

\* NextDimension keeps the invariant.
LEMMA NextDimensionStep == LoopInvariant /\ NextDimension => LoopInvariant'
<1>. SUFFICES ASSUME LoopInvariant, NextDimension PROVE LoopInvariant'
  OBVIOUS
<1>1. PICK d \in todo :
        /\ todo' = todo \ {d}
        /\ IF d \in Range(Dims)
             THEN pc' = "walk" /\ dimension_name' = d /\ ahead' = DOMAIN new_cube
             ELSE pc' = "asserted" /\ UNCHANGED <<dimension_name, ahead>>
  BY DEF NextDimension
<1>2. /\ pc = "dimension" /\ dimension_name = None /\ ahead = {}
      /\ cube' = cube /\ slice_arguments' = slice_arguments /\ n' = n
      /\ filters' = filters /\ new_cube' = new_cube
  BY DEF NextDimension, input, LoopInvariant, Walking
<1>3. FiltersCollected' /\ None \notin DOMAIN filters
  BY <1>1, <1>2, NamedAreDimensions DEF LoopInvariant, FiltersCollected
<1>4. d \in DOMAIN filters /\ d # None
  BY <1>1, <1>3 DEF LoopInvariant
<1>5. CASE d \in Range(Dims)
  <2>1. pc' = "walk" /\ dimension_name' = d /\ ahead' = DOMAIN new_cube
    BY <1>1, <1>5
  <2>2. Sliced' = Sliced
    BY <1>1, <1>2, <1>3, <2>1 DEF Sliced
  <2>3. new_cube = Restrict(cube, CellsLeft) /\ DOMAIN new_cube = CellsLeft
    BY <1>2, DomainOfRestriction DEF LoopInvariant
  <2>4. CellsLeft = {key \in DOMAIN cube : \A e \in Sliced : key[pos(e)] \in filters[e]}
    BY <1>2 DEF CellsLeft, Walking
  <2>5. CellsLeft' = {key \in DOMAIN cube :
                        /\ \A e \in Sliced : key[pos(e)] \in filters[e]
                        /\ key \notin CellsLeft => key[pos(d)] \in filters[d]}
    BY <1>2, <2>1, <2>2, <2>3 DEF CellsLeft, Walking, Wanted, pos
  <2>6. CellsLeft' = CellsLeft
    BY <2>4, <2>5
  <2>. QED BY <1>1, <1>2, <1>3, <1>4, <1>5, <2>1, <2>2, <2>3, <2>6
           DEF LoopInvariant, Walking
<1>6. CASE d \notin Range(Dims)
  BY <1>1, <1>2, <1>3, <1>4, <1>6 DEF LoopInvariant, Walking
<1>. QED BY <1>5, <1>6

\* Visit keeps the invariant.
LEMMA VisitStep == LoopInvariant /\ Visit => LoopInvariant'
<1>. SUFFICES ASSUME LoopInvariant, Visit PROVE LoopInvariant'
  OBVIOUS
<1>1. PICK key \in ahead :
        /\ new_cube' = IF Wanted(key) THEN new_cube
                       ELSE Restrict(new_cube, DOMAIN new_cube \ {key})
        /\ ahead' = ahead \ {key}
  BY DEF Visit
<1>2. /\ pc = "walk" /\ pc' = "walk" /\ dimension_name' = dimension_name
      /\ cube' = cube /\ slice_arguments' = slice_arguments /\ n' = n
      /\ filters' = filters /\ todo' = todo /\ Sliced' = Sliced
      /\ FiltersCollected'
  BY DEF Visit, input, LoopInvariant, Sliced, FiltersCollected
<1>3. new_cube = Restrict(cube, CellsLeft) /\ DOMAIN new_cube = CellsLeft
  BY <1>2, DomainOfRestriction DEF LoopInvariant
<1>4. \A k : Wanted(k)' <=> Wanted(k)
  BY <1>2 DEF Wanted, pos
<1>5. CellsLeft' = {k \in CellsLeft : k = key => Wanted(key)}
  BY <1>1, <1>2, <1>4 DEF CellsLeft, Walking, pos
<1>6. new_cube' = Restrict(cube, CellsLeft')
  <2>1. CASE Wanted(key)
    BY <1>1, <1>3, <1>5, <2>1
  <2>2. CASE ~Wanted(key)
    <3>1. CellsLeft' = CellsLeft \ {key}
      BY <1>5, <2>2
    <3>. QED BY <1>1, <1>3, <2>2, <3>1, RestrictTwice
  <2>. QED BY <2>1, <2>2
<1>. QED BY <1>2, <1>6 DEF LoopInvariant, Walking

\* Walked keeps the invariant.
LEMMA WalkedStep == LoopInvariant /\ Walked => LoopInvariant'
<1>. SUFFICES ASSUME LoopInvariant, Walked PROVE LoopInvariant'
  OBVIOUS
<1>1. /\ pc = "walk" /\ pc' = "dimension" /\ dimension_name' = None
      /\ cube' = cube /\ slice_arguments' = slice_arguments /\ n' = n
      /\ filters' = filters /\ todo' = todo /\ new_cube' = new_cube
      /\ ahead = {} /\ ahead' = {}
  BY DEF Walked, input
<1>2. FiltersCollected' /\ None \notin DOMAIN filters
  BY <1>1, NamedAreDimensions DEF LoopInvariant, FiltersCollected
<1>3. Sliced' = Sliced \cup {dimension_name} /\ Sliced' \subseteq Range(Dims)
  BY <1>1, <1>2 DEF LoopInvariant, Sliced, Walking
<1>4. CellsLeft' = CellsLeft
  BY <1>1, <1>3 DEF CellsLeft, Walking, Wanted, pos
<1>. QED BY <1>1, <1>2, <1>3, <1>4 DEF LoopInvariant, Walking

\* Return keeps the invariant.
LEMMA ReturnStep == LoopInvariant /\ Return => LoopInvariant'
<1>. SUFFICES ASSUME LoopInvariant, Return PROVE LoopInvariant'
  OBVIOUS
<1>1. /\ pc = "dimension" /\ pc' = "returned" /\ dimension_name' = dimension_name
      /\ cube' = cube /\ slice_arguments' = slice_arguments /\ n' = n
      /\ filters' = filters /\ todo' = todo /\ new_cube' = new_cube
      /\ todo = {} /\ ahead' = ahead
  BY DEF Return, input
<1>2. FiltersCollected' /\ Sliced' = Sliced
  BY <1>1 DEF LoopInvariant, FiltersCollected, Sliced
<1>3. CellsLeft' = CellsLeft
  BY <1>1, <1>2 DEF CellsLeft, Walking, pos
<1>. QED BY <1>1, <1>2, <1>3 DEF LoopInvariant, Walking

\* The loop invariant of Cube::getSlice holds throughout.
THEOREM LoopsCorrect == Spec => []LoopInvariant
<1>1. Init => LoopInvariant
  BY InitInvariant
<1>2. LoopInvariant /\ [Next]_vars => LoopInvariant'
  <2>. SUFFICES ASSUME LoopInvariant, [Next]_vars PROVE LoopInvariant'
    OBVIOUS
  <2>1. CASE UNCHANGED vars
    <3>1. /\ cube' = cube /\ slice_arguments' = slice_arguments /\ pc' = pc /\ n' = n
          /\ filters' = filters /\ todo' = todo /\ dimension_name' = dimension_name
          /\ new_cube' = new_cube /\ ahead' = ahead
      BY <2>1 DEF vars
    <3>2. FiltersCollected' = FiltersCollected /\ Sliced' = Sliced
      BY <3>1 DEF FiltersCollected, Sliced
    <3>3. CellsLeft' = CellsLeft
      BY <3>1, <3>2 DEF CellsLeft, Walking, Wanted, pos
    <3>. QED BY <3>1, <3>2, <3>3 DEF LoopInvariant, Walking
  <2>. QED BY <2>1, CollectStep, CollectedStep, NextDimensionStep, VisitStep,
              WalkedStep, ReturnStep DEF Next
<1>. QED BY <1>1, <1>2, PTL DEF Spec

-----------------------------------------------------------------------------
\* Cube::getSlice returns the slice that Diagrams defines.
THEOREM SliceReturned == Spec => []ReturnsSlice
<1>1. LoopInvariant => ReturnsSlice
  <2>. SUFFICES ASSUME LoopInvariant, pc = "returned"
                PROVE  new_cube = Slice(Dims, cube, slice_arguments)
    BY DEF ReturnsSlice
  <2>. DEFINE named == {slice_arguments[j][1] : j \in DOMAIN slice_arguments}
              asked(d) == {slice_arguments[j][2] :
                             j \in {l \in DOMAIN slice_arguments : slice_arguments[l][1] = d}}
              place(d) == Min({j \in DOMAIN Dims : Dims[j] = d})
  <2>1. slice_arguments \in Seq(Dimension \X Token)
    BY CubeSliceAssumption DEF LoopInvariant
  <2>2. 1..(n - 1) = DOMAIN slice_arguments
    BY <2>1 DEF LoopInvariant, FiltersCollected
  <2>3. DOMAIN filters = named /\ \A d \in named : filters[d] = asked(d)
    BY <2>2 DEF LoopInvariant, FiltersCollected
  <2>4. Sliced = named
    BY <2>3, NamedAreDimensions DEF Sliced, LoopInvariant, Walking
  <2>5. CellsLeft = {key \in DOMAIN cube : \A d \in named : key[place(d)] \in asked(d)}
    BY <2>3, <2>4 DEF CellsLeft, Walking, pos
  <2>6. Slice(Dims, cube, slice_arguments)
          = Restrict(cube, {key \in DOMAIN cube : \A d \in named : key[place(d)] \in asked(d)})
    BY DEF Slice
  <2>. QED BY <2>5, <2>6 DEF LoopInvariant
<1>. QED BY <1>1, LoopsCorrect, PTL

\* Cube::getSlice never steps from an iterator that its erase has invalidated.
THEOREM IteratorSafe == Spec => []IteratorValid
<1>1. Init => IteratorValid
  BY DEF Init, IteratorValid
<1>2. IteratorValid /\ [Next]_vars => IteratorValid'
  <2>. SUFFICES ASSUME IteratorValid, [Next]_vars PROVE IteratorValid'
    OBVIOUS
  <2>. USE DEF IteratorValid
  <2>1. CASE Collect \/ Collected \/ Walked \/ Return \/ UNCHANGED vars
    BY <2>1 DEF Collect, Collected, Walked, Return, vars
  <2>2. CASE NextDimension
    BY <2>2 DEF NextDimension
  <2>3. CASE Visit
    <3>1. PICK key \in ahead :
            /\ new_cube' = IF Wanted(key) THEN new_cube
                           ELSE Restrict(new_cube, DOMAIN new_cube \ {key})
            /\ ahead' = ahead \ {key}
      BY <2>3 DEF Visit
    <3>. QED BY <3>1, DomainOfRestriction
  <2>. QED BY <2>1, <2>2, <2>3 DEF Next
<1>. QED BY <1>1, <1>2, PTL DEF Spec

\* The assertion of Cube::getSlice fails for the slices that name a dimension which
\* the cube does not have, and for no other.
THEOREM AssertionExact == Spec => []AssertsOnUnknown
<1>1. LoopInvariant => AssertsOnUnknown
  <2>. SUFFICES ASSUME LoopInvariant PROVE AssertsOnUnknown
    OBVIOUS
  <2>. DEFINE named == {slice_arguments[j][1] : j \in DOMAIN slice_arguments}
  <2>1. slice_arguments \in Seq(Dimension \X Token)
    BY CubeSliceAssumption DEF LoopInvariant
  <2>2. \A j \in 1..(n - 1) : j \in DOMAIN slice_arguments
    BY <2>1 DEF LoopInvariant, FiltersCollected
  <2>3. DOMAIN filters \subseteq named
    BY <2>2 DEF LoopInvariant, FiltersCollected
  <2>4. pc = "returned" => DOMAIN filters = named
    BY <2>1 DEF LoopInvariant, FiltersCollected
  <2>5. pc = "returned" => Sliced = DOMAIN filters /\ Sliced \subseteq Range(Dims)
    BY NamedAreDimensions DEF LoopInvariant, Sliced, Walking
  <2>. QED BY <2>3, <2>4, <2>5 DEF LoopInvariant, AssertsOnUnknown
<1>. QED BY <1>1, LoopsCorrect, PTL

=============================================================================
