----------------------------- MODULE ChatMessage -----------------------------
(***************************************************************************)
(* server/ChatMessage: a message is a text after a header of Width digits  *)
(* with its length.  One side of a connection writes messages, the other   *)
(* takes header and body.  Messages says what the texts are.               *)
(*                                                                         *)
(* The writer is a C++ program (the server, run_client) or a Python front  *)
(* end; the reader is a C++ client, which ends on what is no map.  Each    *)
(* message is delivered whole; what recv makes of one that comes in pieces *)
(* is in Server and FrontEnd.                                              *)
(***************************************************************************)
EXTENDS Messages

CONSTANTS
  Width,     \* kDefaultMessageLength
  MaxSent    \* bound: messages in one connection

ASSUME ChatMessageAssumption ==
  /\ Width \in Nat \ {0}
  /\ MaxSent \in Nat

VARIABLES
  sent,       \* what has been written
  stream,     \* the characters on their way
  received,   \* the fields of the messages that the reader has got
  reader      \* "reads" or "ended"

vars == <<sent, stream, received, reader>>

-----------------------------------------------------------------------------
(* The header *)

\* std::to_string
Decimal[n \in Nat] ==
  IF n < 10 THEN <<Digit[n + 1]>> ELSE Append(Decimal[n \div 10], Digit[(n % 10) + 1])

Zeros(n) == [i \in 1..n |-> "0"]

\* Mutant: a zero too many is put before the digits.
LengthHeader_Padded(length) ==
  Zeros(Width + 1 - Len(Decimal[length])) \o Decimal[length]

\* parse_data_length, here and in the front ends: zeros up to Width digits, and more
\* digits than that when there are more.
LengthHeader(length) == Zeros(Width - Len(Decimal[length])) \o Decimal[length]

\* Mutant: the header counts itself.
Frame_CountsHeader(writing) ==
  LengthHeader(Width + Len(Encoded(writing))) \o Encoded(writing)

\* get_ready_message
Frame(writing) == LengthHeader(Len(Encoded(writing))) \o Encoded(writing)

DigitValue(c) == CHOOSE v \in 0..9 : Digit[v + 1] = c

\* std::atoi
Atoi(text) ==
  LET digits == Span(text, Range(Digit))
      value[k \in 0..digits] ==
        IF k = 0 THEN 0 ELSE 10 * value[k - 1] + DigitValue(text[k])
  IN  value[digits]

-----------------------------------------------------------------------------
(* The connection *)

Init == sent = << >> /\ stream = << >> /\ received = << >> /\ reader = "reads"

Send(writing) ==
  /\ Len(sent) < MaxSent
  /\ sent' = Append(sent, writing)
  /\ stream' = stream \o Frame(writing)
  /\ UNCHANGED <<received, reader>>

\* One recv for the header and one for the body, which do not wait for what is missing:
\* both get all that they ask for.
Arrived == /\ Len(stream) >= Width
           /\ Len(stream) >= Width + Atoi(SubSeq(stream, 1, Width))

\* Client::receiveMessage and the constructor of ChatMessage: the program ends when a
\* recv falls short, and AsMap throws on what is no map.
Receive ==
  LET body == Width + Atoi(SubSeq(stream, 1, Width))
      node == Load(SubSeq(stream, Width + 1, body))
  IN  /\ reader = "reads" /\ stream # << >>
      /\ IF Arrived /\ Is(node, "map")
         THEN /\ received' = Append(received, node.map)
              /\ stream' = From(stream, body)
              /\ UNCHANGED reader
         ELSE reader' = "ended" /\ UNCHANGED <<stream, received>>
      /\ UNCHANGED sent

Next == Receive \/ \E writing \in Writings : Send(writing)

Spec == Init /\ [][Next]_vars

-----------------------------------------------------------------------------
(* Properties *)

\* Whatever the words hold, a reader in C++ gets the fields that were written, in their
\* order, where one message ends at the next one's header: from run_client or the
\* server with every newline as a backslash and an "n", from a Python front end with
\* what json.dumps has spelled by a letter or a number without its backslash.
ReadsWhatWasSent ==
  /\ Len(received) <= Len(sent)
  /\ \A i \in DOMAIN received : received[i] = Meant(sent[i])

\* The length of the text has more digits than the header has room for.
Long(writing) == Len(Decimal[Len(Encoded(writing))]) > Width

\* The reader only ever ends on a message whose length has more digits than the header
\* has room for: no word in a message can do that.
EndsOnlyOnLong ==
  reader = "ended" => Len(received) < Len(sent) /\ Long(sent[Len(received) + 1])

\* No header announces more than is written, not even that of a message which is too
\* long for it: what has not been read begins with a header and the whole of the body
\* announced, so that neither recv of the reader falls short.
NothingHeldBack == reader = "reads" /\ Len(received) < Len(sent) => Arrived

\* What a C++ program writes is JSON, also for Python: the same fields, with every
\* newline as a backslash and an "n".
PythonReadsAnswers ==
  \A i \in DOMAIN sent : sent[i].by = "cpp" =>
    Text(sent[i].node) = Standard(Respell(sent[i].node, Kept), Names)

\* What Python has read of an answer with a list or a cube is a JSON text in its turn,
\* as it is read twice: of a list whatever the records hold, of a cube as long as no
\* key and no record holds a quote or a backslash.
AnswersReadTwice ==
  \A i \in DOMAIN sent :
    /\ \A lines \in Lines :
         LET text == Text(RecordsNode(lines))
         IN  sent[i].node = Message("response", String(text))
               => Respelled(text, Kept)
                    = Standard(Respell(RecordsNode(lines), Kept), Names)
    /\ \A cells \in Cells :
         LET text  == DumpToJson(cells)
             words == UNION {Range(cells[j].keys) \cup Range(cells[j].records) :
                               j \in DOMAIN cells}
         IN  sent[i].node = Message("response", String(text))
               => ((Respelled(text, Kept) = Standard(CubeMeant(cells), CubeOrder))
                     <=> \A word \in words : Range(word) \cap {"\"", "\\"} = {})

=============================================================================
