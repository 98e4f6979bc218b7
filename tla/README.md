# OLAPService: specifications, model checking and proofs

The repository holds a small OLAP system: a C++ server that keeps delivery
records in a text file, aggregates them in cubes and answers requests over TCP,
and three programs that talk to it. This directory models it in TLA+, checks
the models with TLC and proves the most important results with TLAPS.

## The system

| Part | Source (`src/`) | State | Operations |
|---|---|---|---|
| Record, Database | `backend/database/` | `records_`, the storage file | read, addRecord, removeRecord, save; ParseFromString, `<<`, `>>` |
| Cube, aggregators, DiagramBuilder | `backend/olap/`, `backend/service/` | eight `Cube`s | process, getSlice, dump, buildDiagrams |
| OLAPService | `backend/service/OLAPService.cpp` | database_, diagrams_builder_ | reload, handleRequest (seven request types) |
| Server | `backend/server/Server.cpp` | clients_, read_fds, buffer_ | accept, scan, receive, answer, removeClient |
| ChatMessage, Json | `backend/server/`, `backend/common/` | none | framing by a six digit length, JSON text |
| Client, run_client | `backend/server/Client.cpp`, `backend/run_client.cpp` | one socket | read, send, poll |
| front ends | `front-end/*.py` | one socket | requests typed (CLI) or clicked (GUI), charts |
| generator, build files | `data-generation/`, `CMakeLists.txt` | | |

How they interact. `Server::run` is one thread: `select`, then either one
`accept` or a scan of all clients, each of which that is ready is read one
message and sent one answer. `processMessageFrom` calls
`OLAPService::handleRequest`, which runs to its end before the next request;
it changes the record list in memory, or writes it to the file (SAVE), or
replaces list and cubes by what the file holds (RELOAD). The cubes are built on
load only. The clients write requests and read answers; an answer carries
nothing that says which request it belongs to, so a client can only pair them
by order.

What is hard in it:

* **Crashes.** `save()` empties the file and writes it again; the process can
  die at any point of that, also by the many inputs on which the service itself
  ends the process (uncaught exceptions, an assertion, `exit`).
* **Failure.** `save()`'s result is ignored; a failed reload dereferences null.
* **Descriptors.** The scan removes clients from the vector it is indexing;
  the kernel hands out closed descriptors again.
* **Delivery.** Header and body are two blocking `recv`s with different
  reactions to a short read; `send` blocks too.
* **Pairing.** The GUI does not read the answers to changes; the CLI drains them
  with a timeout of a second.
* **Loops** that erase from a map they walk through (`Cube::getSlice`), and a sort
  whose comparison of price ranges is no order (`PriceRange::operator>`).
* **Sharing.** All clients change one list; a request waits in its socket while
  others are carried out, and is carried out although its client has gone.
* **Texts in texts.** An answer is JSON text inside a JSON message, put together by
  three printers, and read twice; the C++ reader knows no letters after a backslash.

What makes the parts correct, in a sentence each. *Database*: what is saved is
what is loaded, and what a torn save leaves is a beginning of it. *Cubes*: all
eight agree with each other, and a slice keeps exactly the cells asked for.
*OLAPService*: between crash and restart nothing changes but what was asked for.
*Server*: every descriptor is tracked, every answer goes to who asked, in order,
everybody whose requests the service answers has a turn, and whoever ends it for the
others is a client that is not polite. *Front ends*:
the answer shown is the one asked for, and waits end. *Together*: what a client is
told was true while it waited. *Messages*: every field arrives as it was written,
and where one message ends the next begins.

`PROJECT.json` lists the hazards one by one, with their lines and the
properties that watch over them.

## The modules

| Module | Models | Role |
|---|---|---|
| `Record` | Record's text format, Database::read, what a torn write leaves | pure operators |
| `Diagrams` | Cube::process, getSlice, the aggregators, DiagramBuilder | pure operators |
| `OLAPService` | the service with its database, file and crashes | state machine |
| `RecordStore` | what the service promises about records | abstract specification |
| `Session` | what the server promises a client | abstract specification |
| `System` | service, sessions and clients together | composition |
| `JsonString` | common/json on the characters of a string | operators on characters |
| `Json` | common/json on whole texts: printer and reader; Python's as they are met | functions of depth and text |
| `Messages` | the requests and answers in JSON, texts in texts | pure operators |
| `ChatMessage` | length header and body of messages on a connection | state machine |
| `CubeSlice` | Cube::getSlice, iterator step by step | state machine, refines `Slice` |
| `Server` | the select loop with its clients and the kernel | state machine |
| `FrontEnd` | CLI, GUI and run_client: who reads which answer when | state machine |
| `MCOLAPService`, `MCSystem`, `MCChatMessage`, `MCCubeSlice` | | small instances for TLC; those of `Server` and `FrontEnd` are configurations alone |
| `DiagramsProofs`, `OLAPServiceProofs`, `CubeSliceProofs`, `ServerProofs`, `SystemProofs`, `FrontEndProofs`, `JsonProofs`, `ChatMessageProofs` | | theorems |

### Record and Diagrams

A text is the sequence of its words (blank-separated, newlines are blanks for
`>>`), a record is a tuple of eight words. `Image` is `<<` of a list, `ReadAll`
is the loop of `>>`, `Remnants` is what a write that stops anywhere can be read
back as: a prefix of the records, the last of which may have lost the end of its
price, the one word after which nothing has to follow. `Diagrams` turns record
lists into functions from key tuples to measures: `GroupOf` is the vector that
`Cube::process` has gathered for one key after the whole list, and an aggregator makes a
measure of it. Prices are integers (doubles
in the code): rounding is not modelled. Words that are no number make
`std::stod` throw: `Aggregable`. `Greater` is `operator>` of each kind of measure,
and `SortDefined` what `std::sort` asks of it: that it is a strict weak order of the
cells. A diagram stays a function: in which order its cells are listed is left out.

### OLAPService

`records`, `cubes` are `database_->records_` and the cubes; `storage` is the
file as words, or `Absent`; `unflushed` is the stream of `save()`; `reply` is the
last answer; `pc` tells whether the process is down, ended by its own doing
(`aborted`), ready or inside `save()`. Every request type is an action.
`Reject` has one disjunct per `return "ERROR: ..."`, in the code's order, after the
server's own "ERROR: No request" to a message without one (`RefuseMessage`);
`Abort` has one per way in which a request ends the process. SAVE is the only
request in pieces: `SaveOpen` empties the file, `SaveFlush` moves any number of
words to it, `SaveClose` answers, and `Kill` may come at any time and leave a
half-written word. With `IOFaults` opening and writing may fail
(`SaveOpenFails`, `SaveWriteFails`) and the file may disappear (`StorageLost`).
A sorted diagram whose measures cannot be ordered is undefined behaviour: with more
than `SortLimit` cells (16 in libstdc++, where short vectors are sorted by insertion)
the process may end (`SortBreaks`) or answer.

`RecordStore` is what a user would want to be told of this: a working list, a
durable list that only ever becomes a remnant of the working list, and diagrams
of what was loaded. `KeepsTheStore` maps `storage` to `ReadAll(storage)` and
both kinds of being down to "down".

### CubeSlice

The arguments are collected into `filters`; for every dimension in it the place
is looked up (`assert(pos >= 0)`), and an iterator walks through `new_cube`;
`ahead` is the set of keys from the iterator to the end, so that an erase that
did not advance it would leave `ahead` outside the map (`IteratorValid`). The
order of the walks is left open.

### Server

`pc` is the place in `run`: `select`, `accept`, `scan` (with `i`), `body`
(between the two `recv`s) and `reply` (before `send`); `dead` is `ExitWithError`,
SIGPIPE, or an exception or assertion that nothing catches. It has an action for each of
its places: no descriptor (`AcceptFails`), the welcome cannot be sent (`WelcomeFails`),
the body is short (`ShortBody`) or no map (`BodyIsNoMap`: `ChatMessage`'s constructor),
`handleRequest` does not return (`HandlerFails`: the `Abort`s of `OLAPService`), the
answer cannot be sent (`ReplyFails`). What a body holds is not in this model, so every
answer is `Answer`, and any message of a client that is not polite may be one of the
two kinds that end the process. `clients_`, `read_fds` and `i` are the code's;
`checked` records whom a scan has come to. `sock[f]` is the kernel's side of a
descriptor: who is connected, whether the end or a reset has arrived, how many
units are unread, the answers not yet read. `accept` takes the lowest free
descriptor, as POSIX has it. A message is two units of header and two of body,
so each can come in two pieces (`Boundaries`).

`Session` is what this amounts to for one client: a connection is waiting, then
open with a welcome, and from then on has one answer per request, in order, and
none that was not asked. `SessionOf` reads that from `link`, `asked`, `got` and the
answers that wait in the client's descriptor (`KeepsSessions`).

The clients are an environment: they connect, write, read and quit. Those in `Polite`
quit only between messages with every answer read, and send only maps with requests that
`handleRequest` answers; the others quit anywhere, with resets, and send anything.
`SparesThePolite` says that the former never end the process, also when the latter are
there: a process that ends does so over an impolite client, for want of a descriptor or
over a body that the network has cut.

### FrontEnd

One program (CLI, GUI or run_client) and one connection; the service is a queue
that answers in order (which is what `AnswersInOrder` of `Server` is about) or
ends. Where the code waits for an answer the model is in `wait`; `drain` is the
loop over `hasAnyMessages`; `idle` is Tk's main loop. An answer is reduced to what
a program can make of it: a plain text (no JSON), a list, a cube, a cube with
numbers that `int()` refuses. An exception ends the CLI and brings the GUI back to
Tk. `Prompt` says that answers come within the second that the CLI's select
waits.

### System

`System` puts the two together: `OLAPService` handles one request at a time, each
the first of an open `Session`, and its answer goes back on it. `asked[c]` is the row
of c's requests whose answers c has not read, `inbox[c]` the answers that are there.
The process and its connections die together (`Crash`, `lost`); a client that closes
leaves its waiting requests in the socket, and they are still carried out
(`left`, `ServeLeft`): the server reads them before it sees the end. `serving` is the
client whose SAVE is being written. `seen` in a row is the history variable of
`AnswersWereTrue`: the lists that the service has had while the request waited.
That an answer to one who has gone may end the server is the subject of `Server`; here
it is one of the ways to `Die`.

### JsonString, Json, Messages and ChatMessage

A text is a sequence of characters; words into which no code looks are one character.
`Write` is the layout that `operator<<`, `ToJson` of the cubes and `json.dumps`
share; they differ in the spelling of characters. `Load...` are the functions of
`json.cpp` with the stream as the text that is left: `LoadString` in `JsonString`, with
one `StringStep` per turn of its loop, those that call each other in `Json`. A number is
kept as spelled.

Printer and reader are recursive in the code; here they are tables. `Level` has the nodes
that lie so deep in a node, `Write` the texts of each level made of those of the next
(`NodeText`), and `Respell` has the same shape. `Loads` is what calls of `LoadNode` in each
other read, so many and no more, and `Load` allows as many as the text has characters;
`Turns` is the loop of `LoadArray` and `LoadDict`, one `Turn` for each `input >> c`, and
`AfterLoop` where it ends.
`IsNode` says which nodes programs put into messages: strings, arrays and maps with the
names of `Names`, at most `Depth` deep. `operator<<` writes the fields of a map in the
order of `Names` (`std::map`), `json.dumps` in that of `Added`, in which the front ends
add them.

What a newline or a letter beyond ASCII becomes is stated, not wished: `Kept` and
`Typed` say that a newline printed by `operator<<` arrives as a backslash and an n,
and that `json.dumps`' escapes arrive without their backslash, so that a non-ASCII
letter typed into a front end reaches the service as `uXXXX`.

`ChatMessage` is one direction of a connection: a writer puts header and body on the
stream, and the reader is a C++ client, which takes header and body by one `recv` each and
ends when one of them gets less than it asks for (`Arrived`), or on a value that is no
map. Messages are delivered whole here: what a delivery in pieces does to such a reader
is `ReceivePart` in `FrontEnd`, and to the server `RemoveClient` and `ShortBody` in
`Server`. A message whose length has more
digits than `Width` makes the reader begin the body one digit early, and it ends on
a value that is no map. `Messages` has what is written: requests as the programs make
them, lists and cubes as texts within texts (`MeasureList` escapes its quotes for the
second reading, `DumpToJson` escapes nothing), and refusals. `Encoded` is the text of a
message by its writer, `Meant` the fields that the reader is to get.

## The runs

Passing:

| Run | What it shows | Bounds |
|---|---|---|
| `service` | `SaveInFlight`, `SaveThenLoad`, `AlwaysLoadable`, `RollUpConsistent`, `SliceMatchesDiagram`, `SortsDefined` for every kind of request and a kill anywhere | 3 record texts, lists of at most 2 records beyond what a file holds, one request of every kind the handler tells apart |
| `service_store` | the service implements `RecordStore`, with I/O faults too | 2 record texts, lists of at most 2 |
| `system` | `AnswersWereTrue`, and `RecordStore` with I/O faults, for a client that changes and saves and one that reads and reloads | 1 record text, 1 record beyond the file's, 2 and 1 requests per connection, 1 connection left with requests |
| `codec` | what is read is what was written, in both directions; texts within texts; lengths up to and beyond the header | header of 2 digits, 2 messages out of 23 |
| `slice` | `getSlice` returns `Slice`, its iterator is valid, it ends | every set of the 4 cells of a 2x2 cube, every argument list up to 3 |
| `server` | order, scan and removal, and with liveness that everybody is served, for polite clients | deliveries end between header and body or with the message, 2 clients, 2 connections each, 2 requests each, 4 descriptors |
| `server_rude` | what holds whatever clients and network do, `StreamAligned` and `Session` included, and who ends the server (`SparesThePolite`) | a polite client and one that is not, 2 connections each, 2 requests each, deliveries that end anywhere, 2 descriptors, failing select |
| `front_end` | pairing of answers and requests, for all three programs | 4 requests |

Why the bounds are enough. Two records suffice for groups of one and of two,
equal and different ones, removal of the first of equal ones, and for a save
with a complete and a torn record; a price "55" that can be torn to "5" is the
case where the tear is not noticed. `MaxRecords` bounds only ADD_RECORD: an
unbounded list would only add longer groups. Two clients are the least with one
that moves up in the scan when the other is removed, and a second connection is
what makes a descriptor be used again; descriptors are fewer than connections in
`server_rude`, so that accept fails. Four requests let the GUI fall two
answers behind and show two. `SortLimit` is 1, so that the two cells
of the instance stand for more than 16. In `system` the states have a VIEW: it leaves
out words of the file or the stream that no record is read from, and the last request
and answer, which the rows hold too; neither changes what may follow, since a load
uses `ReadAll` only and a save begins with an empty file, and the properties see the
file through `ReadAll`. Words are torn in `service` and `service_store` only. In `codec`
a header of two digits is full at 99 characters, and messages of 99 and 100 are among those sent; the
words are chosen to hold every character that a printer or reader treats specially,
alone and beside another. `MaxSent`, `MaxLeft`, `Backlog`, `Capacity`, `MaxRequests`,
`MaxSessions`, `MaxAsked` and `Depth` are the bounds' names. `Depth` is 4, which the nodes
of a cube need (cube, array, cell, keys, key) and those of a slice (message, request,
array, pair, value).

Violations, each a disagreement of the code with itself (`findings` in
`PROJECT.json` quotes the lines):

| Run | Counterexample |
|---|---|
| `service_saved` | SAVE answered OK when the file could not be opened or written |
| `service_reload` | RELOAD of a missing file ends the process; the error answer is never reached. So does, in the same instance, ADD_RECORD with price "free", SAVE, RELOAD, and every later start |
| `server_short_body` | a client that quits after the header ends the server, not only its connection |
| `front_end_success` | the GUI shows "ADD_RECORD: SUCCESS" for an ADD_RECORD that the service has answered with an error |

`SaveThenLoad` and `AlwaysLoadable` therefore hold under conditions that the
passing run states: no I/O faults, and prices that are numbers also when torn.

Deadlock is checked in `service` and `system`. Elsewhere the system may rightly stop: a
service whose file is lost cannot start, a server sleeps in select when nobody
connects, programs end, and a writer in `codec` has no more to say.

## Fairness

* `Server`: weak fairness of `Serve`, the one thread, which does something
  whenever it can, in the run with polite clients, whose requests the handler answers
  (over others the process may end, and nobody is served any more); of `Read`, clients read their answers; and of `Write` once a
  message has been begun, because every client sends header and body in a row.
  Nothing makes clients connect, ask or quit. Without the last two assumptions
  the server hangs, because its `send` and its second `recv` block; with
  connections that never stop coming it would starve those it has, because the
  listening socket goes first. The number of connections is bounded here.
* `FrontEnd`: weak fairness of the program's own steps (its loops poll) and of
  the service's answers. Users are free to do nothing.
* `CubeSlice`: weak fairness of the sequential code.
* `OLAPService`, `System` and `ChatMessage` have no liveness property: nothing has to
  be asked. That no `recv` of a reader falls short is the invariant `NothingHeldBack`.

## The proofs

Everything is proved for all values of the constants, under the named
assumptions: `RecordAssumption` (`Cut` gives words), `NumericAssumption`,
`OLAPServiceAssumption` (`Absent` is no text), `RequestAssumption` (the text of a record
is words, a slice is a list of pairs with the number of a dimension),
`CubeSliceAssumption` (cubes are functions, arguments are pairs),
`ServerAssumption` (descriptors are numbers, a delivery ends inside a message),
`SystemAssumption` (clients ask what is a request), `FrontEndAssumption`,
`JsonStringAssumption` (letters are no punctuation), `JsonAssumption` (names are texts,
and the front ends' order has them all),
`MessagesAssumption` (the names in use are among them, requests are nodes, records and
keys are texts) and `ChatMessageAssumption` (a header has a digit).
Theorems with a hypothesis beyond these say so below.

Inductions over data (the length of a list, a finite set of keys, the digits of a number,
the loop over a text) are made without the library's induction theorems, which take an
operator: the natural numbers at which the claim fails are a set, and were it not empty it
would have a least element (`WFMin`), which cannot be. The lemmas of that kind
(`UpwardInduction`, `StrongInduction`, `GrowingInduction`) are stated for sets.

* `DiagramsProofs`. `NumbersSortable`, `ListsSortable`, `RangesSortable`: which
  measures can be sorted, for every cube. Its lemmas are what the diagrams need of sums:
  a sum over a finite set is that over a part and that over the rest; what a record more
  does to a group; and that the prices of a list, summed by its keys or by its cells,
  are the same.
* `OLAPServiceProofs`. Of the texts: `ReadAllOfImage`, reading a written list gives it
  back, by the place of every field (`FieldPlace`); `ReadTorn` and `PartlyWritten`, a
  prefix of the words, with a torn one after it, is read as one of `Remnants`. Of the
  service: `TypeCorrect` is inductive as it stands. `SaveCorrect`
  needs the types. `SavedLoads` (for `~IOFaults`) strengthens `SaveThenLoad`
  by `SaveInFlight`: at `SaveClose` the stream is empty, so the file is
  `Image(records)`, and `ReadAllOfImage` applies. `LoadableForever` (for
  requests and files whose prices are numbers, torn or not: `SoundPrices`) is
  inductive together with the soundness of the prices in `records` and
  `unflushed`. `ImplementsStore`: every step maps to a step of `RecordStore`
  or a stutter, with `SaveInFlight` and `PartlyWritten` for the steps of SAVE.
  Of the diagrams: `RollUpConsistent` and `SortsDefined` relate the cubes to each other,
  and no step changes one without the others, but nothing in them says how the cubes
  came about. `CubesBuilt` does: they are `BuildDiagrams` of some list, all of whose
  prices are numbers, not of `records`, which have moved on. It is inductive, and
  `DiagramsRollUp` and `DiagramsSortable` follow from it by facts about lists.
  `SlicesMatch` needs `SliceAnswered` too, that a slice shown is `Slice` of the full cube
  as it still is.
* `CubeSliceProofs`. `LoopsCorrect`: `LoopInvariant` says that `new_cube` is the
  cube restricted to `CellsLeft`, the cells that the dimensions and keys left
  behind do not exclude; it is preserved by each step. When no dimension is
  left it is `Slice` (`SliceReturned`). `AssertionExact` follows from the same
  invariant; `IteratorSafe` is inductive by itself.
* `ServerProofs`, about `Spec`: rude clients, interrupted selects and descriptors
  that run out included. `AnswersInOrder` is not inductive: the number of the next
  answer is computed from `taken`, what the client has read is in `got`. `Counted`
  joins them (answers read, waiting and owed make up the messages taken and the
  welcome); it needs `Engaged` (a body is awaited only after a header),
  `StreamAligned`, `Linked` (a connected client is alive and at the other end of
  its descriptor, so no two share one) and `Waiting` (who waits for accept waits
  once and has read nothing), and `DescriptorsTracked` for the reuse of
  descriptors. Together they are `IInv`, one lemma per action (`AcceptStep`,
  `HeaderStep`, ..., `QuitStep`). `ScanMissesNone` and `ScanRepeatsNone` follow from
  `ScanInv`: what lies before `i` has been come to if marked, what lies behind has
  not. `RemovedOnce`, what `erase` leaves of a vector without repetitions, is what
  makes the scan's `--i` right.

  `Counted` is conditional on a server that lives: one that ends while it owes an answer
  gives none.

  `PoliteClientsSpared` (`SparesThePolite`) has no hypothesis; whom it is about is the
  constant `Polite`. Its invariant `PInv` says what a polite client's going leaves behind
  whatever the others do: a descriptor that is not reset, and when its end has come
  nothing unread, no answer waiting and none owed (`Settled`); and that none leaves while
  it waits to be accepted (`Awaited`). It needs `IInv`, because a client knows its
  messages answered from the number of answers it has read (`Counted`), and a descriptor
  closed and used again must not pass on what its former owner has left. Each action that
  ends the process is then excluded for a polite client or excused.

  `KeepsTheCourteous` has a hypothesis, `Courteous`: all clients are polite, and no
  delivery ends inside a header or a body. Without it the property is false: a header cut
  in two by the network makes the server drop a client that is alive. `Halves` says that
  what has arrived is headers and bodies, so that `NoMessage` can only find the end. The
  run `server` satisfies the hypothesis.

  `ServerKeepsSessions`: every step of the server, the clients and the
  network is, for one client, a step of `Session`, and for the others none. Beside
  `IInv` it needs `Requested`: what a client has sent is what the server has taken and
  what waits. So an answer is never given before its request (`AnsweredAsked`).
* `SystemProofs`. `SInv` says of every client's row that it has as many answers as its
  session, each true of a list in its `seen`, and that a request that waits has seen the
  list as it is; with `Serving` (the SAVE being written is the first that waits) and
  `Lost` (without a process nobody waits unless lost). One lemma per action, `RowOK` for
  one row at a time. `AnswersAreTrue` follows. `SystemKeepsTheStore`: a step of the
  system is a step of `OLAPService` or leaves it alone (`StepOfService`).
* `FrontEndProofs`. `LagExact` from `GuiQueue`: the answers not read and the requests
  not answered are the latest, as many as there were changes. `OwnAnswerShown` from
  `CliQueue`: nothing is left when the command line front end asks.
* `JsonProofs`. What is written is read, for strings of any characters in nodes of any
  shape. `StringsReadBack`, `PythonStringsRead`: whatever a string holds, quotes,
  backslashes and newlines too, `LoadString` comes to the quote that ends it and to no
  earlier one, and returns what `Kept` or `Typed` say. The invariant of its loop is that
  the position is that of a character's spelling and the text so far that of the
  characters before it. `NodesReadBack`, `PythonNodesRead`: so does `LoadNode` with a node.
  The induction goes from the deepest level up: a node's text is one that calls enough for
  its depth read to its end whatever follows (`LevelRead`); for a list and a map that needs
  an invariant of the turns of the loop, and that no text of a node begins with a blank, a
  comma or a closing bracket (`NodeLike`).

  `WritesStandardText`: to spell the characters as `operator<<` does is to make `Kept` of
  them and spell that as JSON does (`KeptEscaped`), and what two spellings do one after the
  other one does (`Composed`), in a string and so in every level of a node.
* `ChatMessageProofs`. `MessagesAreRead`, `OnlyLongOnesEnd` and `NothingIsHeldBack`, for
  headers of any width, any number of messages, and any requests, records, cells and
  refusals. Their invariant is `Aligned`: what has been sent and not received is in the
  stream one message after another, with a cut between every two (`Cuts`), and a reader
  that has not ended is at the first. A step of the reader needs that `Atoi` undoes the
  zeros and digits of the header, by recursion on the number; that the body of a message
  that is not too long is read as its fields (`WritingRead`, from `JsonProofs`); and for a
  length of more digits than `Width` that what the reader takes begins with a digit, is
  not empty and is there, and is read as no map.

  `AnswersAreJson` is `WritesStandardText` of every message. `AnswersAreReadTwice` is about
  texts that Python reads as a string and then as JSON. For a list that is the same
  argument once more (`ListsReadTwice`). For a cube it is an equivalence, which takes two
  steps: a spelling that leaves layout and names as they are goes into the parts of a
  text (`WriteRespelled`), and each word in the cube contributes to what Python reads a
  text that is either the same as JSON's or one character or more shorter (`Grown`), the
  same if and only if it has no quote and no backslash (`Twin`, `Rewritten`, `Alike`). As
  no part is ever longer, what is missing in one word nothing makes good in another.

Every safety property that a run checks is proved. Only model-checked are the liveness
properties `GetSliceEnds`, `EveryConnectionWelcomed`, `EveryRequestAnswered` and
`EveryGetReturns`, which are out of the prover's reach.

## Not modelled

* `FD_SETSIZE`, socket options, the setup of the listening socket beyond its success;
  console input, windows and charts.
* Rounding and formatting of doubles; `LoadDouble`'s arithmetic. Numbers and bools are
  printed and read by `NodeText` and `LoadNode`, but no program puts one into a message,
  and `IsNode` has none.
* Texts that end too early: `LoadNode` then looks at a character that was never set. And
  texts with a node missing, as `[}`, on which the loop of `LoadArray` never ends; that of
  `Turns` does. The header's length is the body's, so no writer of the repository
  sends either, but for messages that are too long; there the model's reader ends.
* The order in which `std::sort` leaves a diagram; what a sort that leaves its vector
  does beyond ending the process.
* RecordAveragePriceAggregator and RecordDistanceAggregator, which no cube uses, and
  `ChatMessage`'s `remove_field` and `reset`, which nothing calls.
* `run_server.cpp`, which runs a server without a service and dereferences null on the
  first request.
* The records generator and the build files: nothing of the running system depends on
  their behaviour.

## Plan

All modules of the plan are written: the components, the composition `System`, the
abstract specifications `RecordStore` and `Session`, and a module of theorems for each
component. Every safety property that a run checks is proved. What could still be added:
`System` over `Server` itself instead of its sessions, in one state machine, whose states
are many more; and an instance of `server` with three clients, where the theorems speak
of any number.
