------------------------------ MODULE Diagrams ------------------------------
(***************************************************************************)
(* olap/Cube, service/Aggregators and service/DiagramBuilder: a cube maps  *)
(* a tuple of dimension values to a measure of the records that carry      *)
(* them; the service keeps eight cubes, all built from one record list.    *)
(* Prices are integers here (doubles in the code).                         *)
(***************************************************************************)
EXTENDS Record, SequencesExt

CONSTANTS
  Numeric,   \* the words std::stod converts
  Stod       \* Stod[w]: the number std::stod makes of the word w

ASSUME NumericAssumption ==
  /\ Numeric \subseteq Token
  /\ Stod \in [Numeric -> Int]

\* Cube::getKeys
Keys(dims, r) == [i \in DOMAIN dims |-> r[dims[i]]]

\* Cube::process groups the records by key, in list order, and aggregates each group:
\* raw_mapping[k] after all of them were looked at.
GroupOf(dims, rs, k) ==
  LET group[i \in 0..Len(rs)] ==
        IF i = 0 THEN << >>
        ELSE IF Keys(dims, rs[i]) = k THEN Append(group[i - 1], rs[i])
        ELSE group[i - 1]
  IN  group[Len(rs)]
Groups(dims, rs) ==
  [k \in {Keys(dims, rs[i]) : i \in DOMAIN rs} |-> GroupOf(dims, rs, k)]
Process(dims, Aggregator(_), rs) ==
  LET raw_mapping == Groups(dims, rs)
  IN  [k \in DOMAIN raw_mapping |-> Aggregator(raw_mapping[k])]

RecordDefaultAggregator(group) == group
RecordCountAggregator(group) == Len(group)
RecordTotalPriceAggregator(group) ==
  SumFunction([i \in DOMAIN group |-> Stod[group[i][Price]]])

\* Mutant: the range starts from {0., 0.}, not from the first record.
RecordPriceRangeAggregator_FromZero(group) ==
  LET prices == {0} \cup {Stod[group[i][Price]] : i \in DOMAIN group}
  IN  [min_price |-> Min(prices), max_price |-> Max(prices)]

RecordPriceRangeAggregator(group) ==
  LET prices == {Stod[group[i][Price]] : i \in DOMAIN group}
  IN  [min_price |-> Min(prices), max_price |-> Max(prices)]

\* Mutant: of several values of one dimension only the last is kept.
Slice_LastValue(dims, cube, args) ==
  LET pos(d) == Min({i \in DOMAIN dims : dims[i] = d})
      last == {i \in DOMAIN args : \A j \in DOMAIN args :
                 args[j][1] = args[i][1] => j <= i}
  IN  Restrict(cube, {k \in DOMAIN cube : \A i \in last :
                        k[pos(args[i][1])] = args[i][2]})

\* Cube::getSlice: keep the cells whose value in every named dimension is one of
\* those asked for; values of one dimension are alternatives.  A slice argument
\* is a pair <<dimension, value>>, and every named dimension must be in dims.
Slice(dims, cube, args) ==
  LET named  == {args[i][1] : i \in DOMAIN args}
      asked(d) == {args[i][2] : i \in {j \in DOMAIN args : args[j][1] = d}}
      pos(d) == Min({i \in DOMAIN dims : dims[i] = d})
  IN  Restrict(cube, {k \in DOMAIN cube : \A d \in named : k[pos(d)] \in asked(d)})

-----------------------------------------------------------------------------
\* The dimensions of the eight cubes, as DiagramBuilder.h declares them.
AllDimensions == [d \in Dimension |-> d]

\* DiagramBuilder::buildDiagrams.  full_cube has no diagram type: GET_SLICE reads it.
BuildDiagrams(rs) ==
  [TOTAL_PRICE_PER_DATA |->
     Process(<<Data>>, RecordTotalPriceAggregator, rs),
   PRODUCTS_COUNT |->
     Process(<<ProductName>>, RecordCountAggregator, rs),
   DELIVERIES_PER_DATA_AND_TIME |->
     Process(<<Data, Time>>, RecordCountAggregator, rs),
   DELIVERIES_PER_DISTANCE_AND_TIME |->
     Process(<<Distance, Time>>, RecordCountAggregator, rs),
   PRICE_RANGE_PER_DATA |->
     Process(<<Data>>, RecordPriceRangeAggregator, rs),
   COURIERS_REVENUE |->
     Process(<<CourierId>>, RecordTotalPriceAggregator, rs),
   RECORDS_PER_DATA |->
     Process(<<Data>>, RecordDefaultAggregator, rs),
   full_cube |->
     Process(AllDimensions, RecordDefaultAggregator, rs)]

\* std::stod of a price that is no number throws, and nothing catches it.
Aggregable(rs) == \A i \in DOMAIN rs : rs[i][Price] \in Numeric

DiagramType ==
  {"TOTAL_PRICE_PER_DATA", "PRODUCTS_COUNT", "DELIVERIES_PER_DATA_AND_TIME",
   "DELIVERIES_PER_DISTANCE_AND_TIME", "PRICE_RANGE_PER_DATA",
   "COURIERS_REVENUE", "RECORDS_PER_DATA"}

-----------------------------------------------------------------------------
(* Cube::dump(need_sort) *)

\* PriceRange::operator<
PriceRangeLess(x, y) ==
  \/ x.min_price < y.min_price
  \/ x.min_price = y.min_price /\ x.max_price < y.max_price

\* Mutant: the sort's comparison takes equal measures, too.
Greater_OrEqual(type, x, y) ==
  CASE type = "PRICE_RANGE_PER_DATA" -> ~PriceRangeLess(x, y)
    [] type = "RECORDS_PER_DATA" -> FALSE
    [] OTHER -> x >= y

\* operator> of a diagram's measure: a PriceRange's is the negation of its operator<, a
\* MeasureList is not greater than any other.
Greater(type, x, y) ==
  CASE type = "PRICE_RANGE_PER_DATA" -> ~PriceRangeLess(x, y)
    [] type = "RECORDS_PER_DATA" -> FALSE
    [] OTHER -> x > y

\* What std::sort asks of the comparison of different cells; with any other its loops
\* may leave the vector.
SortDefined(type, cube) ==
  LET Above(i, j) == Greater(type, cube[i], cube[j])
      Level(i, j) == ~Above(i, j) /\ ~Above(j, i)
  IN  \A i, j \in DOMAIN cube : i # j =>
        /\ ~(Above(i, j) /\ Above(j, i))
        /\ \A k \in DOMAIN cube \ {i, j} :
             /\ Above(i, j) /\ Above(j, k) => Above(i, k)
             /\ Level(i, j) /\ Level(j, k) => Level(i, k)

=============================================================================
