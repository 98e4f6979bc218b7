------------------------------ MODULE MCSystem ------------------------------
(* A client that changes the list and the file and one that looks at them. *)
EXTENDS System, MCOLAPService

CONSTANTS Writer, Reader

MCClient == {Writer, Reader}
MCAsks ==
  Writer :> {[type |-> t, data |-> tea] : t \in {"ADD_RECORD", "REMOVE_RECORD"}}
               \cup {Typed("SAVE")}
  @@ Reader :> {Typed("GET_RECORDS"), Typed("RELOAD")}
MCTold == MCAsks[Writer] \cup MCAsks[Reader]

MCMaxAsked == Writer :> 2 @@ Reader :> 1

MCSaved == {Image(<<tea>>)}

\* Words are written whole: MCOLAPService has the torn ones.
MCWhole == [w \in MCToken |-> {}]

\* States behave alike that differ in words of the file, or of the stream, that no
\* record is read from, or in the request handled last, which its client's row holds.
View == <<pc, records, Durable, storage = Absent, cubes, netVars>>

=============================================================================
