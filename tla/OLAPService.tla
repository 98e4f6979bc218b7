---------------------------- MODULE OLAPService ----------------------------
(***************************************************************************)
(* service/OLAPService with the Database and the DiagramBuilder it owns:   *)
(* one request is handled to its end before the next, but a save writes    *)
(* the storage file in pieces and the process may die between two of them. *)
(*                                                                         *)
(* A request is the map under the message's "request" field: the fields    *)
(* type ("request-type"), data (the words of the text), slice (a sequence  *)
(* of pairs <<dimension, value>>), diagram ("diagram-type") and sort, each *)
(* of which may be missing or hold a JSON value of an unexpected type.     *)
(***************************************************************************)
EXTENDS Diagrams

CONSTANTS
  Request,         \* the requests that arrive
  NotAMap,         \* a "request" that is no JSON map
  NoRequest,       \* a message without a "request"
  Mistyped,        \* a field, or a slice argument, of an unexpected JSON type
  InitialStorage,  \* the contents the storage file may have at the beginning
  Absent,          \* the storage file cannot be opened
  IOFaults,        \* whether opening or writing the storage file may fail
  SortLimit,       \* std::sort of so many cells stays in its vector, whatever it compares by
  MaxRecords       \* bound: ADD_RECORD is not sent to a longer list

ASSUME OLAPServiceAssumption ==
  /\ IOFaults \in BOOLEAN
  /\ MaxRecords \in Nat /\ SortLimit \in Nat
  /\ Absent \notin Seq(Token)
  /\ InitialStorage \subseteq {Absent} \cup Seq(Token)

\* The text of a record is words, and a slice a list; a dimension in it is given by its
\* number, and another number is the name of none.
ASSUME RequestAssumption ==
  \A req \in Request \ {NotAMap, NoRequest} :
    /\ "data" \in DOMAIN req => req.data \in {Mistyped} \cup Seq(Token)
    /\ "slice" \in DOMAIN req =>
         req.slice \in {Mistyped} \cup Seq({Mistyped} \cup (Nat \X Token))

VARIABLES
  pc,          \* "down", "aborted" (down, by its own doing), "ready", "saving"
  records,     \* database_->records_
  storage,     \* the words of the file at kDBStoragePath
  unflushed,   \* what save() has written to its stream and not yet to the file
  cubes,       \* the cubes of diagrams_builder_
  reply        \* the request handled last by this process, and its answer

vars == <<pc, records, storage, unflushed, cubes, reply>>

RequestType ==
  {"RELOAD", "SAVE", "ADD_RECORD", "REMOVE_RECORD", "GET_RECORDS", "GET_SLICE",
   "GET_DIAGRAM"}

Running == pc \in {"ready", "saving"}

Has(req, field) == req \notin {NotAMap, NoRequest} /\ field \in DOMAIN req
OfType(req, types) == Has(req, "type") /\ req.type \in types

\* handleRequest of a well-formed ADD_RECORD or REMOVE_RECORD gets a record.
GivesRecord(req) ==
  Has(req, "data") /\ req.data # Mistyped /\ Parses(req.data)

\* The sort may read beyond the cells of the diagram.
SortBreaks(req) ==
  /\ req.diagram \in DiagramType
  /\ Has(req, "sort") /\ req.sort = "yes"
  /\ Cardinality(DOMAIN cubes[req.diagram]) > SortLimit
  /\ ~SortDefined(req.diagram, cubes[req.diagram])

BadSort(req) == Has(req, "sort") /\ req.sort = Mistyped

\* GET_SLICE's arguments are all pairs of strings.
GivesSlice(req) ==
  /\ Has(req, "slice") /\ req.slice # Mistyped
  /\ \A i \in DOMAIN req.slice : req.slice[i] # Mistyped

\* The dimensions that Cube::getSlice asserts to be among the cube's own.
SliceInDimensions(req) ==
  \A i \in DOMAIN req.slice : req.slice[i][1] \in Dimension

\* std::stod throws while the diagrams are built, or the file does not open.
Loadable(file) == file # Absent /\ Aggregable(ReadAll(file))

ReplyWith(req, status, body) ==
  reply' = [to |-> req, status |-> status, body |-> body]

-----------------------------------------------------------------------------
Init ==
  /\ pc = "down"
  /\ records = << >>
  /\ storage \in InitialStorage
  /\ unflushed = << >>
  /\ cubes = BuildDiagrams(<< >>)
  /\ reply = [to |-> NotAMap, status |-> "none", body |-> ""]

\* reload() of a file that opens and holds prices that are numbers.
LoadStorage ==
  /\ Loadable(storage)
  /\ records' = ReadAll(storage)
  /\ cubes' = BuildDiagrams(ReadAll(storage))
  /\ UNCHANGED <<storage, unflushed>>

\* The constructor, when the process is started or started again.  On a file
\* that is not loadable the new process dies before it listens: no step.
Start ==
  /\ ~Running
  /\ LoadStorage
  /\ pc' = "ready"
  /\ ReplyWith(NotAMap, "none", "")

Refuse(req, why) ==
  /\ ReplyWith(req, "ERROR", why)
  /\ UNCHANGED <<pc, records, storage, unflushed, cubes>>

\* processMessageFrom answers this by itself, without the handler.
RefuseMessage(req) == req = NoRequest /\ Refuse(req, "No request")

\* The refusals, in the order in which the server and the handler come to them.
Reject(req) ==
  \/ RefuseMessage(req)
  \/ req = NotAMap /\ Refuse(req, "Bad request format")
  \/ req \notin {NoRequest, NotAMap} /\ ~Has(req, "type")
       /\ Refuse(req, "No field request-type")
  \/ Has(req, "type") /\ req.type \notin RequestType \cup {Mistyped}
       /\ Refuse(req, "Undefined request type")
  \/ OfType(req, {"ADD_RECORD", "REMOVE_RECORD"}) /\ ~Has(req, "data")
       /\ Refuse(req, "No field data")
  \/ OfType(req, {"ADD_RECORD", "REMOVE_RECORD"}) /\ Has(req, "data")
       /\ req.data # Mistyped /\ ~Parses(req.data)
       /\ Refuse(req, "Failed to parse record")
  \/ OfType(req, {"REMOVE_RECORD"}) /\ GivesRecord(req)
       /\ ParseFromString(req.data) \notin Range(records)
       /\ Refuse(req, "There is no such record")
  \/ OfType(req, {"GET_SLICE"}) /\ ~Has(req, "slice")
       /\ Refuse(req, "No field slice")
  \/ OfType(req, {"GET_DIAGRAM"}) /\ ~Has(req, "diagram")
       /\ Refuse(req, "No field diagram-type")
  \/ OfType(req, {"GET_DIAGRAM"}) /\ Has(req, "diagram") /\ ~BadSort(req)
       /\ req.diagram \notin DiagramType \cup {Mistyped}
       /\ Refuse(req, "Undefined diagram type")

\* A request on which an uncaught exception or an assertion ends the process:
\* As...() of a JSON value of another type, map.at() of a missing key, the
\* assertion of Cube::getSlice, a sort that leaves its vector, and RELOAD of a file that
\* is not loadable.
Abort(req) ==
  /\ \/ OfType(req, {Mistyped})
     \/ /\ OfType(req, {"ADD_RECORD", "REMOVE_RECORD"})
        /\ Has(req, "data") /\ req.data = Mistyped
     \/ /\ OfType(req, {"GET_SLICE"}) /\ Has(req, "slice")
        /\ GivesSlice(req) => ~SliceInDimensions(req)
     \/ /\ OfType(req, {"GET_DIAGRAM"}) /\ Has(req, "diagram")
        /\ req.diagram = Mistyped \/ BadSort(req) \/ SortBreaks(req)
     \/ OfType(req, {"RELOAD"}) /\ ~Loadable(storage)
  /\ pc' = "aborted"
  /\ ReplyWith(req, "none", "")
  /\ UNCHANGED <<records, storage, unflushed, cubes>>

Reload(req) ==
  /\ OfType(req, {"RELOAD"})
  /\ LoadStorage
  /\ ReplyWith(req, "OK", "")
  /\ UNCHANGED pc

AddRecord(req) ==
  /\ OfType(req, {"ADD_RECORD"}) /\ GivesRecord(req)
  /\ Len(records) < MaxRecords
  /\ records' = Append(records, ParseFromString(req.data))
  /\ ReplyWith(req, "OK", "")
  /\ UNCHANGED <<pc, storage, unflushed, cubes>>

\* Mutant: every record equal to the given one is erased.
RemoveRecord_All(req) ==
  /\ OfType(req, {"REMOVE_RECORD"}) /\ GivesRecord(req)
  /\ ParseFromString(req.data) \in Range(records)
  /\ records' = SelectSeq(records, LAMBDA r : r # ParseFromString(req.data))
  /\ ReplyWith(req, "OK", "")
  /\ UNCHANGED <<pc, storage, unflushed, cubes>>

RemoveRecord(req) ==
  /\ OfType(req, {"REMOVE_RECORD"}) /\ GivesRecord(req)
  /\ \E i \in DOMAIN records :
       /\ records[i] = ParseFromString(req.data)
       /\ \A j \in 1..(i - 1) : records[j] # records[i]
       /\ records' = RemoveAt(records, i)
  /\ ReplyWith(req, "OK", "")
  /\ UNCHANGED <<pc, storage, unflushed, cubes>>

\* Mutant: the records are read from the file again.
GetRecords_FromFile(req) ==
  /\ OfType(req, {"GET_RECORDS"})
  /\ ReplyWith(req, "DATA", IF storage = Absent THEN << >> ELSE ReadAll(storage))
  /\ UNCHANGED <<pc, records, storage, unflushed, cubes>>

GetRecords(req) ==
  /\ OfType(req, {"GET_RECORDS"})
  /\ ReplyWith(req, "DATA", records)
  /\ UNCHANGED <<pc, records, storage, unflushed, cubes>>

GetSlice(req) ==
  /\ OfType(req, {"GET_SLICE"}) /\ GivesSlice(req) /\ SliceInDimensions(req)
  /\ ReplyWith(req, "DATA", Slice(AllDimensions, cubes.full_cube, req.slice))
  /\ UNCHANGED <<pc, records, storage, unflushed, cubes>>

GetDiagram(req) ==
  /\ OfType(req, {"GET_DIAGRAM"}) /\ Has(req, "diagram")
  /\ req.diagram \in DiagramType /\ ~BadSort(req)
  /\ ReplyWith(req, "DATA", cubes[req.diagram])
  /\ UNCHANGED <<pc, records, storage, unflushed, cubes>>

\* Mutant: the file is opened at its end instead of emptied.
SaveOpen_Appends(req) ==
  /\ OfType(req, {"SAVE"})
  /\ pc' = "saving"
  /\ storage' = IF storage = Absent THEN << >> ELSE storage
  /\ unflushed' = Image(records)
  /\ ReplyWith(req, "none", "")
  /\ UNCHANGED <<records, cubes>>

\* save() opens the file, which empties it, and formats every record.
SaveOpen(req) ==
  /\ OfType(req, {"SAVE"})
  /\ pc' = "saving"
  /\ storage' = << >>
  /\ unflushed' = Image(records)
  /\ ReplyWith(req, "none", "")
  /\ UNCHANGED <<records, cubes>>

\* handleRequest drops the result of save().
SaveOpenFails(req) ==
  /\ IOFaults
  /\ OfType(req, {"SAVE"})
  /\ ReplyWith(req, "OK", "")
  /\ UNCHANGED <<pc, records, storage, unflushed, cubes>>

HandleRequest(req) ==
  /\ pc = "ready"
  /\ \/ Reject(req)
     \/ Abort(req)
     \/ Reload(req)
     \/ AddRecord(req)
     \/ RemoveRecord(req)
     \/ GetRecords(req)
     \/ GetSlice(req)
     \/ GetDiagram(req)
     \/ SaveOpen(req)
     \/ SaveOpenFails(req)

-----------------------------------------------------------------------------
\* Mutant: what was handed to the file stays in the buffer.
SaveFlush_Twice ==
  /\ pc = "saving"
  /\ \E n \in 1..Len(unflushed) :
       storage' = storage \o SubSeq(unflushed, 1, n)
  /\ UNCHANGED <<pc, records, unflushed, cubes, reply>>

\* The stream hands some of its buffer to the file, at any word boundary.
SaveFlush ==
  /\ pc = "saving"
  /\ \E n \in 1..Len(unflushed) :
       /\ storage' = storage \o SubSeq(unflushed, 1, n)
       /\ unflushed' = SubSeq(unflushed, n + 1, Len(unflushed))
  /\ UNCHANGED <<pc, records, cubes, reply>>

\* The stream's destructor has written the rest and closed the file.
SaveClose ==
  /\ pc = "saving"
  /\ unflushed = << >>
  /\ pc' = "ready"
  /\ reply' = [reply EXCEPT !.status = "OK"]
  /\ UNCHANGED <<records, storage, unflushed, cubes>>

\* What the file holds when the writing stops here: the word being written may
\* be in it up to some letter.
Torn(file) ==
  {file} \cup
  (IF unflushed = << >> THEN {} ELSE {Append(file, w) : w \in Cut[Head(unflushed)]})

\* A write fails (a full disk): the stream drops the rest, and nobody looks.
SaveWriteFails ==
  /\ IOFaults
  /\ pc = "saving"
  /\ unflushed # << >>
  /\ storage' \in Torn(storage)
  /\ unflushed' = << >>
  /\ pc' = "ready"
  /\ reply' = [reply EXCEPT !.status = "OK"]
  /\ UNCHANGED <<records, cubes>>

\* The process is killed, by its server (Server.tla) or from outside.
Kill ==
  /\ Running
  /\ pc' = "down"
  /\ storage' \in Torn(storage)
  /\ unflushed' = << >>
  /\ UNCHANGED <<records, cubes, reply>>

\* The storage file is moved away or made unreadable.
StorageLost ==
  /\ IOFaults
  /\ pc # "saving"
  /\ storage' = Absent
  /\ UNCHANGED <<pc, records, unflushed, cubes, reply>>

Next ==
  \/ Start
  \/ \E req \in Request : HandleRequest(req)
  \/ SaveFlush
  \/ SaveClose
  \/ SaveWriteFails
  \/ Kill
  \/ StorageLost

Spec == Init /\ [][Next]_vars

-----------------------------------------------------------------------------
\* The parts of the state have their types, and the cubes their names.
TypeOK ==
  /\ pc \in {"down", "aborted", "ready", "saving"}
  /\ records \in Seq(Record)
  /\ storage = Absent \/ storage \in Seq(Token)
  /\ unflushed \in Seq(Token)
  /\ DOMAIN cubes = DiagramType \cup {"full_cube"}
  /\ DOMAIN reply = {"to", "status", "body"}
  /\ reply.to \in Request \cup {NotAMap}
  /\ reply.status \in {"none", "OK", "ERROR", "DATA"}

\* While save() writes, the file and the rest of the stream together are the text
\* of the records, so each of its pieces continues where the last one ended; and
\* a stream outlives neither the save nor the process (Database::save).
SaveInFlight ==
  /\ pc = "saving" => storage # Absent /\ storage \o unflushed = Image(records)
  /\ pc # "saving" => unflushed = << >>

\* Once SAVE is answered OK, and until the next request, the file loads as the
\* records in memory: a restart then loses nothing (Database::save and ::read,
\* the two stream operators of Record, the answer of handleRequest).
SaveThenLoad ==
  pc = "ready" /\ OfType(reply.to, {"SAVE"}) =>
    storage # Absent /\ ReadAll(storage) = records

\* Of records whose prices are numbers, and begin with numbers when they are cut: what
\* was added, however it was saved, and wherever a save was cut short, the file can be
\* loaded, so that neither RELOAD nor a start of the process dies on it (reload,
\* Database::read, std::stod in the aggregators).  A price that is no number is accepted
\* and makes it false.
AlwaysLoadable == Loadable(storage)

\* The eight cubes, each grouped and aggregated on its own, tell one story: every
\* diagram is the full cube rolled up along the dimensions it leaves out, so that
\* GET_DIAGRAM and GET_SLICE cannot disagree (DiagramBuilder::buildDiagrams).
RollUpConsistent ==
  LET full == cubes.full_cube
      Cells(dims, key) == {k \in DOMAIN full : Keys(dims, k) = key}
      Count(dims, key) ==
        SumFunction([k \in Cells(dims, key) |-> Len(full[k])])
      Total(dims, key) ==
        SumFunction([k \in Cells(dims, key) |-> Len(full[k]) * Stod[k[Price]]])
      PriceRange(dims, key) ==
        LET prices == {Stod[k[Price]] : k \in Cells(dims, key)}
        IN  [min_price |-> Min(prices), max_price |-> Max(prices)]
      Contents(dims, key) ==
        [k \in Cells(dims, key) |-> Len(full[k])]
      RollUp(dims, Measure(_, _)) ==
        [key \in {Keys(dims, k) : k \in DOMAIN full} |-> Measure(dims, key)]
      Counted(lists) ==
        [key \in DOMAIN lists |->
           [r \in Range(lists[key]) |-> Cardinality({i \in DOMAIN lists[key] :
                                                       lists[key][i] = r})]]
  IN  /\ cubes.TOTAL_PRICE_PER_DATA = RollUp(<<Data>>, Total)
      /\ cubes.COURIERS_REVENUE = RollUp(<<CourierId>>, Total)
      /\ cubes.PRODUCTS_COUNT = RollUp(<<ProductName>>, Count)
      /\ cubes.DELIVERIES_PER_DATA_AND_TIME = RollUp(<<Data, Time>>, Count)
      /\ cubes.DELIVERIES_PER_DISTANCE_AND_TIME = RollUp(<<Distance, Time>>, Count)
      /\ cubes.PRICE_RANGE_PER_DATA = RollUp(<<Data>>, PriceRange)
      /\ Counted(cubes.RECORDS_PER_DATA) = RollUp(<<Data>>, Contents)

\* A slice by days adds up to what the price diagram shows for the days asked for,
\* each once however often it is asked for: values of one dimension are
\* alternatives (Cube::getSlice, RecordTotalPriceAggregator).
SliceMatchesDiagram ==
  LET args == reply.to.slice
      totals == cubes.TOTAL_PRICE_PER_DATA
      days == {args[i][2] : i \in DOMAIN args}
  IN  /\ reply.status = "DATA"
      /\ OfType(reply.to, {"GET_SLICE"})
      /\ args # << >> /\ \A i \in DOMAIN args : args[i][1] = Data
      => SumFunction([k \in DOMAIN reply.body |-> Len(reply.body[k]) * Stod[k[Price]]])
         = SumFunction([key \in {key \in DOMAIN totals : key[1] \in days} |-> totals[key]])

\* std::sort can order every diagram by its measure, but for one: of the price ranges
\* no two may be equal, and neither the types nor the list rule that out.  No other
\* comparison contradicts itself (Cube::dump, PriceRange::operator>, MeasureList).
SortsDefined ==
  \A d \in DiagramType :
    SortDefined(d, cubes[d]) <=>
      (d = "PRICE_RANGE_PER_DATA" => IsInjective(cubes[d]))

\* The service keeps what RecordStore promises: whatever it is asked, however its
\* saves are cut short and whenever it dies, the file only ever turns into a
\* remnant of the list in memory, and what is loaded and shown is what the file
\* holds.
Mode == IF Running THEN "up" ELSE "down"
Durable == IF storage = Absent THEN << >> ELSE ReadAll(storage)
Store == INSTANCE RecordStore WITH
           mode     <- Mode,
           working  <- records,
           durable  <- Durable,
           diagrams <- cubes,
           Item     <- Record,
           Remnants <- Remnants,
           Shown    <- BuildDiagrams
KeepsTheStore == Store!Spec

-----------------------------------------------------------------------------
\* What comments, messages and assertions in the code say, and the code does not
\* keep; each is checked by a run that finds the counterexample.

\* A RELOAD that cannot load the file is answered "ERROR: Failed to reload
\* database" (OLAPService::handleRequest): it does not end the process.
ReloadAnswers == pc = "aborted" => ~OfType(reply.to, {"RELOAD"})

=============================================================================
