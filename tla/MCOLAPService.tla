--------------------------- MODULE MCOLAPService ---------------------------
(***************************************************************************)
(* A small instance of OLAPService: two records of one day, a cheap and a  *)
(* dear one, and one of another day, so that the cubes have groups of one  *)
(* and of several records, of equal and of different records.              *)
(***************************************************************************)
EXTENDS OLAPService

MCToken == {"mon", "tue", "9h", "A", "B", "tea", "jam", "c1", "10", "55", "7", "5", "free"}

\* The only proper beginnings of words of the instance that are cut: of prices.
MCCut == [w \in MCToken |-> IF w = "55" THEN {"5"} ELSE {}]

MCNumeric == {"10", "55", "7", "5"}
MCStod    == [w \in MCNumeric |-> CASE w = "10" -> 10 [] w = "55" -> 55
                                    [] w = "7" -> 7 [] w = "5" -> 5]

tea == <<"mon", "9h", "A", "B", "tea", "c1", "10", "55">>
jam == <<"tue", "9h", "A", "B", "jam", "c1", "10", "7">>
deal == [tea EXCEPT ![Price] = "7"]

\* A price that std::stod refuses.
gift == <<"mon", "9h", "A", "B", "jam", "c1", "10", "free">>

Texts     == {tea, deal, jam}
MCStorage == {Image(<<tea>>), Image(<<jam, tea>>)}

Typed(t) == [type |-> t]

Sorted == {"PRODUCTS_COUNT", "PRICE_RANGE_PER_DATA"}

\* One request of each kind that the handler tells apart.
WellFormed ==
  {[type |-> t, data |-> ws] : t \in {"ADD_RECORD", "REMOVE_RECORD"}, ws \in Texts}
  \cup {Typed("RELOAD"), Typed("SAVE"), Typed("GET_RECORDS")}
  \cup {[type |-> "GET_SLICE", slice |-> s] :
          s \in {<< >>,
                 << <<Data, "mon">>, <<Data, "tue">>, <<Data, "mon">> >>,
                 << <<Data, "mon">>, <<ProductName, "jam">> >>}}
  \cup {[type |-> "GET_DIAGRAM", diagram |-> d] : d \in DiagramType \ Sorted}
  \cup {[type |-> "GET_DIAGRAM", diagram |-> d, sort |-> "yes"] : d \in Sorted}

Refused ==
  {NoRequest, NotAMap, [data |-> tea], Typed("HELLO"), Typed("ADD_RECORD"),
   Typed("REMOVE_RECORD"), Typed("GET_SLICE"), Typed("GET_DIAGRAM"),
   [type |-> "ADD_RECORD", data |-> SubSeq(tea, 1, NF - 1)],
   [type |-> "ADD_RECORD", data |-> Append(jam, "A")],
   [type |-> "GET_DIAGRAM", diagram |-> "HELLO", sort |-> "yes"]}

Aborting ==
  {Typed(Mistyped), [type |-> "REMOVE_RECORD", data |-> Mistyped],
   [type |-> "GET_SLICE", slice |-> Mistyped],
   [type |-> "GET_SLICE", slice |-> <<Mistyped>>],
   [type |-> "GET_SLICE", slice |-> << <<0, "mon">> >>],
   [type |-> "GET_DIAGRAM", diagram |-> Mistyped],
   [type |-> "GET_DIAGRAM", diagram |-> "HELLO", sort |-> Mistyped]}

MCRequest == WellFormed \cup Refused \cup Aborting

\* What changes records, file or process, and one request that does neither.
MCChange ==
  {[type |-> t, data |-> ws] :
     t \in {"ADD_RECORD", "REMOVE_RECORD"}, ws \in {tea, jam}}
  \cup {Typed("RELOAD"), Typed("SAVE"), Typed("GET_RECORDS"), Typed(Mistyped)}

\* With a record whose price is no number.
MCGift == MCChange \cup {[type |-> "ADD_RECORD", data |-> gift]}

=============================================================================
