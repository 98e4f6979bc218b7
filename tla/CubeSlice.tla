----------------------------- MODULE CubeSlice -----------------------------
(***************************************************************************)
(* Cube::getSlice step by step: the arguments are collected by dimension,  *)
(* and then, one dimension after the other, an iterator walks through the  *)
(* copy of the cube and erases the cells that are not asked for.  What it  *)
(* returns is Slice of Diagrams.                                           *)
(*                                                                         *)
(* The maps are walked through in the order of their keys; here any order  *)
(* will do.                                                                *)
(***************************************************************************)
EXTENDS Diagrams

CONSTANTS
  Dims,        \* kDimensions_ of the cube
  Cubes,       \* the cells it may have: functions on tuples of as many values
  Arguments,   \* what it may be sliced by: sequences of <<dimension, value>>
  None         \* no dimension

ASSUME CubeSliceAssumption ==
  /\ Dims \in Seq(Dimension)
  /\ None \notin Dimension
  /\ Arguments \subseteq Seq(Dimension \X Token)
  /\ \A c \in Cubes : c \in [DOMAIN c -> Range(c)]

VARIABLES
  cube,             \* cube_
  slice_arguments,
  pc,               \* "collect", "dimension", "walk", "returned" or "asserted"
  n,                \* the argument that is collected next
  filters,          \* the values asked for of every dimension named so far
  todo,             \* the dimensions of filters that new_cube is not yet sliced by
  dimension_name,   \* the one it is being sliced by, or None
  new_cube,
  ahead             \* the keys from iter to the end

vars == <<cube, slice_arguments, pc, n, filters, todo, dimension_name, new_cube, ahead>>
input == <<cube, slice_arguments>>

\* The first place of a dimension in kDimensions_.
pos(d) == Min({i \in DOMAIN Dims : Dims[i] = d})

Init ==
  /\ cube \in Cubes
  /\ slice_arguments \in Arguments
  /\ pc = "collect" /\ n = 1
  /\ filters = << >>
  /\ todo = {} /\ dimension_name = None
  /\ new_cube = cube
  /\ ahead = {}

\* Mutant: a value replaces the one asked for before.
Collect_Replaces ==
  /\ pc = "collect" /\ n <= Len(slice_arguments)
  /\ LET d == slice_arguments[n][1]
     IN  filters' = [e \in DOMAIN filters \cup {d} |->
                       IF e = d THEN {slice_arguments[n][2]} ELSE filters[e]]
  /\ n' = n + 1
  /\ UNCHANGED <<input, pc, todo, dimension_name, new_cube, ahead>>

\* filters[slice.first].insert(slice.second)
Collect ==
  /\ pc = "collect" /\ n <= Len(slice_arguments)
  /\ LET d == slice_arguments[n][1]
         v == slice_arguments[n][2]
     IN  filters' = [e \in DOMAIN filters \cup {d} |->
                       (IF e \in DOMAIN filters THEN filters[e] ELSE {})
                         \cup (IF e = d THEN {v} ELSE {})]
  /\ n' = n + 1
  /\ UNCHANGED <<input, pc, todo, dimension_name, new_cube, ahead>>

Collected ==
  /\ pc = "collect" /\ n > Len(slice_arguments)
  /\ pc' = "dimension"
  /\ todo' = DOMAIN filters
  /\ UNCHANGED <<input, n, filters, dimension_name, new_cube, ahead>>

\* Mutant: a dimension that the cube does not have is passed over.
Dimension_Unchecked ==
  /\ pc = "dimension"
  /\ \E d \in todo :
       /\ todo' = todo \ {d}
       /\ IF d \in Range(Dims)
            THEN pc' = "walk" /\ dimension_name' = d /\ ahead' = DOMAIN new_cube
            ELSE UNCHANGED <<pc, dimension_name, ahead>>
  /\ UNCHANGED <<input, n, filters, new_cube>>

\* The search for the dimension, and assert(pos >= 0).
NextDimension ==
  /\ pc = "dimension"
  /\ \E d \in todo :
       /\ todo' = todo \ {d}
       /\ IF d \in Range(Dims)
            THEN pc' = "walk" /\ dimension_name' = d /\ ahead' = DOMAIN new_cube
            ELSE pc' = "asserted" /\ UNCHANGED <<dimension_name, ahead>>
  /\ UNCHANGED <<input, n, filters, new_cube>>

Wanted(key) == key[pos(dimension_name)] \in filters[dimension_name]

\* Mutant: the iterator stays at the cell that is erased.
Visit_Dangling ==
  /\ pc = "walk"
  /\ \E key \in ahead :
       IF Wanted(key)
         THEN UNCHANGED new_cube /\ ahead' = ahead \ {key}
         ELSE new_cube' = Restrict(new_cube, DOMAIN new_cube \ {key}) /\ UNCHANGED ahead
  /\ UNCHANGED <<input, pc, n, filters, todo, dimension_name>>

\* iter = new_cube.erase(iter), or ++iter
Visit ==
  /\ pc = "walk"
  /\ \E key \in ahead :
       /\ new_cube' = IF Wanted(key) THEN new_cube
                      ELSE Restrict(new_cube, DOMAIN new_cube \ {key})
       /\ ahead' = ahead \ {key}
  /\ UNCHANGED <<input, pc, n, filters, todo, dimension_name>>

Walked ==
  /\ pc = "walk" /\ ahead = {}
  /\ pc' = "dimension" /\ dimension_name' = None
  /\ UNCHANGED <<input, n, filters, todo, new_cube, ahead>>

Return ==
  /\ pc = "dimension" /\ todo = {}
  /\ pc' = "returned"
  /\ UNCHANGED <<input, n, filters, todo, dimension_name, new_cube, ahead>>

Next ==
  Collect \/ Collected \/ NextDimension \/ Visit \/ Walked \/ Return

Spec == Init /\ [][Next]_vars

FairSpec == Spec /\ WF_vars(Next)

-----------------------------------------------------------------------------
Walking == pc = "walk"

\* filters holds the arguments that have been collected.
FiltersCollected ==
  /\ n \in 1..(Len(slice_arguments) + 1)
  /\ pc # "collect" => n = Len(slice_arguments) + 1
  /\ DOMAIN filters = {slice_arguments[j][1] : j \in 1..(n - 1)}
  /\ \A d \in DOMAIN filters :
       filters[d] = {slice_arguments[j][2] :
                       j \in {l \in 1..(n - 1) : slice_arguments[l][1] = d}}

\* The dimensions that new_cube is sliced by.
Sliced == DOMAIN filters \ (todo \cup {dimension_name})

\* What is left of a cube sliced by Sliced, when the walk along the dimension that
\* comes next has still the keys ahead before it.
CellsLeft ==
  {key \in DOMAIN cube :
     /\ \A d \in Sliced : key[pos(d)] \in filters[d]
     /\ Walking /\ key \notin ahead => Wanted(key)}

\* The loops' invariant: new_cube is the cube without the cells that the dimensions
\* and keys left behind do not want (the two loops of Cube::getSlice).
LoopInvariant ==
  /\ pc \in {"collect", "dimension", "walk", "returned", "asserted"}
  /\ cube \in Cubes /\ slice_arguments \in Arguments
  /\ FiltersCollected
  /\ todo \subseteq DOMAIN filters
  /\ pc = "collect" => new_cube = cube
  /\ pc = "returned" => todo = {}
  /\ IF Walking THEN dimension_name \in (DOMAIN filters \cap Range(Dims)) \ todo
                ELSE dimension_name = None /\ ahead = {}
  /\ pc \in {"dimension", "walk", "returned"} =>
       /\ Sliced \subseteq Range(Dims)
       /\ new_cube = Restrict(cube, CellsLeft)
  /\ pc = "asserted" => ~(DOMAIN filters \subseteq Range(Dims))

\* The slice is what Diagrams says it is, which is how OLAPService answers: a cell
\* stays exactly when its value of every dimension named is one of those asked for.
ReturnsSlice ==
  pc = "returned" => new_cube = Slice(Dims, cube, slice_arguments)

\* The iterator never stands on a cell that has been erased, whichever was erased
\* (Cube::getSlice's erase in the middle of its walk).
IteratorValid == ahead \subseteq DOMAIN new_cube

\* The assertion fails for a slice that names a dimension the cube does not have,
\* and for no other.
AssertsOnUnknown ==
  LET named == {slice_arguments[j][1] : j \in DOMAIN slice_arguments}
  IN  /\ pc = "asserted" => ~(named \subseteq Range(Dims))
      /\ pc = "returned" => named \subseteq Range(Dims)

\* The walks come to their end.
GetSliceEnds == <>(pc \in {"returned", "asserted"})

=============================================================================
