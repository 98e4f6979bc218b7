------------------------------ MODULE Messages ------------------------------
(***************************************************************************)
(* What goes through a connection: the requests of the clients, as         *)
(* run_client and the front ends make them, and the answers of the         *)
(* service, each a map in JSON.                                            *)
(***************************************************************************)
EXTENDS Json

CONSTANTS
  Requests,   \* maps under "request", as users make them
  Lines,      \* lists of records, each by its text
  Cells,      \* lists of pairs: the keys of a cell, the texts of its records
  Plain       \* other answers: "OK" and the refusals

Message(field, node) == Map([name \in {<<field>>} |-> node])

ASSUME MessagesAssumption ==
  /\ {<<name>> : name \in {"cube", "data", "dimensions", "keys", "response", "value"}}
       \subseteq Range(Names)
  /\ Depth >= 4
  /\ \A request \in Requests : IsNode(Message("request", Map(request)))
  /\ Lines \subseteq Seq(Seq(Char))
  /\ Cells \subseteq Seq([keys : Seq(Seq(Char)), records : Seq(Seq(Char))])
  /\ Plain \subseteq Seq(Char)

\* GET_RECORDS: the text of every record, as an array.
RecordsNode(lines) == Array([i \in DOMAIN lines |-> String(lines[i])])

\* A list with every text between these quotes, as operator<< of a MeasureList lays it
\* out.
ListText(lines, quote) ==
  <<"[", "\n">>
    \o FlattenSeq([i \in DOMAIN lines |->
         <<"\t">> \o quote \o lines[i] \o quote
           \o (IF i # Len(lines) THEN <<",">> ELSE << >>) \o <<"\n">>])
    \o <<"]">>

\* Mutant: quotes for one reading only.
MeasureList_Plain(lines) == ListText(lines, <<"\"">>)

\* The quotes are escaped for the string that the list goes into.
MeasureList(lines) == ListText(lines, <<"\\", "\"">>)

\* A cube as Dump::toJson has it; Value(lines) is the text of a cell's measure.
CubeOrder == << <<"dimensions">>, <<"cube">>, <<"keys">>, <<"value">> >>
CellNode(cell, value) ==
  Map([name \in {<<"keys">>, <<"value">>} |->
         IF name = <<"keys">> THEN RecordsNode(cell.keys) ELSE String(value)])
CubeNode(cells, value) ==
  Map([name \in {<<"cube">>, <<"dimensions">>} |->
         IF name = <<"cube">> THEN Array([i \in DOMAIN cells |-> CellNode(cells[i], value[i])])
                              ELSE RecordsNode(<< <<"data">> >>)])
DumpToJson(cells) ==
  Write(CubeNode(cells, [i \in DOMAIN cells |-> MeasureList(cells[i].records)]),
        Raw, CubeOrder)

\* The cube that the text stands for.
CubeMeant(cells) ==
  CubeNode(cells, [i \in DOMAIN cells |-> ListText(cells[i].records, <<"\"">>)])

Answers ==
  {String(text) : text \in Plain}
  \cup {String(Text(RecordsNode(lines))) : lines \in Lines}
  \cup {String(DumpToJson(cells)) : cells \in Cells}

Writings ==
  {[by |-> "cpp", node |-> Message("response", answer)] : answer \in Answers}
  \cup {[by |-> by, node |-> Message("request", Map(request))] :
          by \in {"cpp", "python"}, request \in Requests}

\* The text that get_ready_message, or json.dumps, makes.
Encoded(writing) ==
  IF writing.by = "cpp" THEN Text(writing.node) ELSE Dumps(writing.node)

\* The fields as LoadString leaves them.
Meant(writing) ==
  Respell(writing.node, IF writing.by = "cpp" THEN Kept ELSE Typed).map

=============================================================================
