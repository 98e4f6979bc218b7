----------------------------- MODULE JsonString -----------------------------
(***************************************************************************)
(* common/json: the strings of a text, as operator<< writes and LoadString *)
(* reads them, and as Python's json.dumps writes them.  A text is a        *)
(* sequence of characters; a word that none of them looks into (a field's  *)
(* name, the text of a record) is one character.                           *)
(***************************************************************************)
EXTENDS Integers, SequencesExt

CONSTANTS
  Letter,    \* characters that neither side treats specially, and words of them
  Foreign    \* characters beyond ASCII

Digit == <<"0", "1", "2", "3", "4", "5", "6", "7", "8", "9">>
Blank == {" ", "\t", "\n"}
Other == {"\"", "\\", "[", "]", "{", "}", ",", ":", "-", "."}
Char  == Letter \cup Foreign \cup Range(Digit) \cup Blank \cup Other

ASSUME JsonStringAssumption ==
  /\ {"n", "t", "u", "hex"} \subseteq Letter
  /\ Letter \cap Foreign = {}
  /\ (Letter \cup Foreign) \cap (Range(Digit) \cup Blank \cup Other) = {}

\* A node, by the alternative of the variant that it holds.  A number is kept as it
\* is spelled.
String(s) == [string |-> s]
Array(s)  == [array |-> s]
Map(f)    == [map |-> f]
Number(s) == [number |-> s]
Bool(b)   == [bool |-> b]
Is(node, alternative) == alternative \in DOMAIN node

-----------------------------------------------------------------------------
(* Writing *)

Respelled(s, spelling) == FlattenSeq([i \in DOMAIN s |-> spelling[s[i]]])
Quoted(s) == <<"\"">> \o s \o <<"\"">>

Raw == [c \in Char |-> <<c>>]

\* Mutant: a backslash is printed as it is.
Spelling_Bare == [Raw EXCEPT !["\""] = <<"\\", "\"">>, !["\n"] = <<"\\", "\\", "n">>]

\* operator<<: a newline becomes three characters, which read as a backslash and "n".
Spelling == [Raw EXCEPT !["\\"] = <<"\\", "\\">>, !["\""] = <<"\\", "\"">>,
                        !["\n"] = <<"\\", "\\", "n">>]

\* As JSON has it.
Escaped == [Raw EXCEPT !["\\"] = <<"\\", "\\">>, !["\""] = <<"\\", "\"">>,
                       !["\n"] = <<"\\", "n">>]

\* json.dumps writes a control character by its letter and what is beyond ASCII by
\* its number.
PythonSpelling ==
  [c \in Char |-> IF c \in Foreign THEN <<"\\", "u", "hex">>
                  ELSE [Escaped EXCEPT !["\t"] = <<"\\", "t">>][c]]

-----------------------------------------------------------------------------
(* Reading *)

\* How many characters of text, from its first on, are in S.
Span(text, S) ==
  CHOOSE n \in 0..Len(text) :
    (\A i \in 1..n : text[i] \in S) /\ (n < Len(text) => text[n + 1] \notin S)
From(text, n) == SubSeq(text, n + 1, Len(text))

\* What has been read, and the text that is left.
Read(node, rest) == [node |-> node, rest |-> rest]

\* Mutant: a backslash before a letter is kept.
StringStep_KeepsSlash(reading, c) ==
  IF ~reading.open THEN reading
  ELSE [taken |-> reading.taken + 1,
        open  |-> c # "\"" \/ reading.slash,
        slash |-> c = "\\" /\ ~reading.slash,
        line  |-> IF c \in {"\"", "\\"}
                  THEN IF reading.slash THEN Append(reading.line, c) ELSE reading.line
                  ELSE reading.line \o IF reading.slash THEN <<"\\", c>> ELSE <<c>>]

\* One turn of LoadString's loop: a backslash is dropped, and keeps a quote or a
\* backslash after it; before any other character it is just lost.
StringStep(reading, c) ==
  IF ~reading.open THEN reading
  ELSE [taken |-> reading.taken + 1,
        open  |-> c # "\"" \/ reading.slash,
        slash |-> c = "\\" /\ ~reading.slash,
        line  |-> IF c \in {"\"", "\\"} => reading.slash THEN Append(reading.line, c)
                                                         ELSE reading.line]

\* Where the loop is after every character, and after the whole text.
StringLoop(text) ==
  LET reading[k \in 0..Len(text)] ==
        IF k = 0 THEN [taken |-> 0, open |-> TRUE, slash |-> FALSE, line |-> << >>]
                 ELSE StringStep(reading[k - 1], text[k])
  IN  reading

LoadString(text) ==
  LET end == StringLoop(text)[Len(text)]
  IN  Read(String(end.line), From(text, end.taken))

\* What a newline printed by operator<< is to whoever reads it.
Kept == [Raw EXCEPT !["\n"] = <<"\\", "n">>]

\* What the characters written by json.dumps are to LoadString, which knows no letters.
Typed ==
  [c \in Char |-> IF c \in Foreign THEN <<"u", "hex">>
                  ELSE [Raw EXCEPT !["\n"] = <<"n">>, !["\t"] = <<"t">>][c]]

=============================================================================
