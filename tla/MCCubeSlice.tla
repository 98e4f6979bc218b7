---------------------------- MODULE MCCubeSlice ----------------------------
(***************************************************************************)
(* A cube of two dimensions of which every set of cells is tried, sliced   *)
(* by every list of at most three arguments, one value of which no cell    *)
(* has and one dimension of which the cube has not.                        *)
(***************************************************************************)
EXTENDS CubeSlice

MCToken == {"mon", "tue", "tea"}
MCCut   == [w \in MCToken |-> {}]
MCDims  == <<Data, ProductName>>
MCCubes == {[k \in keys |-> k[1]] : keys \in SUBSET ({"mon", "tue"} \X {"tea", "mon"})}
MCStod  == [w \in {} |-> 0]
MCArguments ==
  BoundedSeq({<<Data, "mon">>, <<Data, "tue">>, <<ProductName, "tea">>, <<Data, "tea">>}, 3)
  \cup {<<a, <<Price, "tea">> >> : a \in {<<Data, "mon">>, <<Price, "mon">>}}

=============================================================================
