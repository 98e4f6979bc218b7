-------------------------------- MODULE Json --------------------------------
(***************************************************************************)
(* common/json: the printer (operator<<) and the reader (Load) of the C++  *)
(* programs, and what Python's json.dumps and json.loads make of the same  *)
(* values.                                                                 *)
(***************************************************************************)
EXTENDS JsonString

CONSTANTS
  Names,   \* the names of fields, in alphabetical order
  Added,   \* in the order in which the front ends add them to a message
  Depth    \* bound: how deep a node that is written holds others

ASSUME JsonAssumption ==
  /\ Names \in Seq(Seq(Letter))
  /\ Added \in Seq(Seq(Letter)) /\ Range(Names) \subseteq Range(Added)
  /\ Depth \in Nat

-----------------------------------------------------------------------------
(* Nodes in nodes *)

\* The nodes that a node holds.
Held(node) == IF Is(node, "array") THEN Range(node.array)
              ELSE IF Is(node, "map") THEN Range(node.map) ELSE {}

\* Those that lie so deep in it.
Level(node) ==
  LET level[k \in 0..Depth] ==
        IF k = 0 THEN {node} ELSE UNION {Held(n) : n \in level[k - 1]}
  IN  level

\* A node that a program makes for a message is of strings, arrays and maps; none of
\* them holds a number or a bool.
Plainly(level) ==
  \A k \in 0..Depth : \A n \in level[k] :
    \/ n \in [string : Seq(Char)]
    \/ k < Depth /\ n \in [array : Seq(level[k + 1])]
    \/ k < Depth /\ n \in [map : [DOMAIN n.map -> level[k + 1]]]
                 /\ DOMAIN n.map \subseteq Range(Names)
IsNode(node) == Plainly(Level(node))

-----------------------------------------------------------------------------
(* Writing *)

\* What stands between two items or two fields.
Between == <<",", " ">>

Joined(items) ==
  FlattenSeq([i \in DOMAIN items |-> (IF i = 1 THEN << >> ELSE Between) \o items[i]])

Field(name, text) == Quoted(name) \o <<":", " ">> \o text

\* The fields in this order, of which the map need not have all.
JoinedFields(texts, order) ==
  FlattenSeq([i \in DOMAIN order |->
    IF order[i] \notin DOMAIN texts THEN << >>
    ELSE (IF \E j \in 1..(i - 1) : order[j] \in DOMAIN texts THEN Between ELSE << >>)
           \o Field(order[i], texts[order[i]])])

\* The layout that operator<<, Cube's ToJson and json.dumps have in common; they
\* differ in how they spell the characters of a string and order the fields.  A
\* bool is printed as nothing.  inner has the texts of the nodes in this one.
NodeText(node, inner, spelling, order) ==
  IF Is(node, "string") THEN Quoted(Respelled(node.string, spelling))
  ELSE IF Is(node, "array")
  THEN <<"[">> \o Joined([i \in DOMAIN node.array |-> inner[node.array[i]]]) \o <<"]">>
  ELSE IF Is(node, "map")
  THEN <<"{">> \o JoinedFields([name \in DOMAIN node.map |-> inner[node.map[name]]], order)
               \o <<"}">>
  ELSE IF Is(node, "number") THEN node.number ELSE << >>

Write(node, spelling, order) ==
  LET write[k \in 0..Depth] ==
        [n \in Level(node)[Depth - k] |-> NodeText(n, write[k - 1], spelling, order)]
  IN  write[Depth][node]

Text(node) == Write(node, Spelling, Names)

\* json.dumps writes the fields in the order in which the program has added them.
Dumps(node) == Write(node, PythonSpelling, Added)

\* The text, laid out in that order, which json.loads(strict=False) reads as node.
Standard(node, order) == Write(node, Escaped, order)

-----------------------------------------------------------------------------
(* Reading *)

\* input >> c, which is what the text begins with then.
NonBlank(text) == From(text, Span(text, Blank))

\* Digits, and after a point more digits; the sign has been taken.
LoadDouble(text, sign) ==
  LET whole == Span(text, Range(Digit))
      real  == whole < Len(text) /\ text[whole + 1] = "."
      all   == IF real THEN whole + 1 + Span(From(text, whole + 1), Range(Digit)) ELSE whole
  IN  Read(Number(sign \o SubSeq(text, 1, all)), From(text, all))

\* Anything that begins like nothing else: every word but "false" is true.
LoadBool(text) ==
  LET word == Span(text, Letter)
  IN  Read(Bool(SubSeq(text, 1, word) # <<"false">>), From(text, word))

\* emplace keeps the first value of a name.
Emplaced(fields, name, value) ==
  [n \in DOMAIN fields \cup {name} |-> IF n \in DOMAIN fields THEN fields[n] ELSE value]

\* An item, or a field, behind those already read; load reads what is in it.  A comma
\* before it is skipped.
WithItem(load, items, text) ==
  LET item == load[IF Head(text) = "," THEN Tail(text) ELSE text]
  IN  Read(Append(items, item.node), item.rest)

WithField(load, fields, text) ==
  LET opening == IF Head(text) = "," THEN NonBlank(Tail(text)) ELSE text
      name    == LoadString(Tail(opening))
      value   == load[Tail(NonBlank(name.rest))]
  IN  Read(Emplaced(fields, name.node.string, value.node), value.rest)

\* One turn of the loop of LoadArray or LoadDict, up to the bracket or the end of the
\* text.
Turn(load, bracket, so_far) ==
  LET text == NonBlank(so_far.rest)
      ends == text = << >> \/ Head(text) = bracket
      more == IF bracket = "]" THEN WithItem(load, so_far.node, text)
                               ELSE WithField(load, so_far.node, text)
  IN  IF ~so_far.open THEN so_far
      ELSE IF ends THEN [open |-> FALSE, node |-> so_far.node, rest |-> From(text, 1)]
      ELSE [open |-> TRUE, node |-> more.node, rest |-> more.rest]

\* Where the loop is after every turn, which takes at least one character of a text that
\* a program has written.
Turns(load, bracket, text) ==
  LET so_far[k \in 0..Len(text)] ==
        IF k = 0 THEN [open |-> TRUE, node |-> << >>, rest |-> text]
                 ELSE Turn(load, bracket, so_far[k - 1])
  IN  so_far

\* Where it is when it has ended, or the text has.
AfterLoop(load, bracket, text) ==
  LET so_far == Turns(load, bracket, text)
  IN  so_far[CHOOSE k \in 0..Len(text) : ~so_far[k].open \/ k = Len(text)]

LoadArray(load, text) ==
  LET end == AfterLoop(load, "]", text) IN Read(Array(end.node), end.rest)
LoadDict(load, text) ==
  LET end == AfterLoop(load, "}", text) IN Read(Map(end.node), end.rest)

\* The nodes in a node are read by load.
LoadNode(load, text) ==
  LET t == NonBlank(text)
      c == Head(t)
  IN  IF c = "[" THEN LoadArray(load, Tail(t))
      ELSE IF c = "{" THEN LoadDict(load, Tail(t))
      ELSE IF c = "\"" THEN LoadString(Tail(t))
      ELSE IF c \in Range(Digit) THEN LoadDouble(t, << >>)
      ELSE IF c = "-" THEN LoadDouble(Tail(t), <<"-">>)
      ELSE LoadBool(t)

\* A node is read by calls in each other, no more than the text has characters.
Loads(calls) ==
  LET load[n \in 0..calls] ==
        [text \in Seq(Char) |-> IF n = 0 THEN << >> ELSE LoadNode(load[n - 1], text)]
  IN  load
Load(text) == Loads(Len(text))[Len(text)][text].node

-----------------------------------------------------------------------------
(* The same node, with the characters of its strings spelled otherwise *)

Respelt(node, inner, spelling) ==
  IF Is(node, "string") THEN String(Respelled(node.string, spelling))
  ELSE IF Is(node, "array")
  THEN Array([i \in DOMAIN node.array |-> inner[node.array[i]]])
  ELSE IF Is(node, "map")
  THEN Map([name \in DOMAIN node.map |-> inner[node.map[name]]])
  ELSE node

Respell(node, spelling) ==
  LET respell[k \in 0..Depth] ==
        [n \in Level(node)[Depth - k] |-> Respelt(n, respell[k - 1], spelling)]
  IN  respell[Depth][node]

=============================================================================
