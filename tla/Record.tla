------------------------------- MODULE Record -------------------------------
(***************************************************************************)
(* database/Record and the text format of the storage file.                *)
(*                                                                         *)
(* operator<< writes the eight fields of a record separated by blanks and  *)
(* Database::save ends it with a newline; operator>> reads eight blank-    *)
(* separated words and takes a newline for any other blank.  A text is     *)
(* therefore the sequence of its words, and a record is eight words.       *)
(***************************************************************************)
EXTENDS Integers, Sequences

CONSTANTS
  Token,   \* the words: non-empty runs of non-blank characters
  Cut      \* Cut[w]: what a write that stops inside the word w leaves of it

ASSUME RecordAssumption == Cut \in [Token -> SUBSET Token]

\* The dimensions, numbered in the order in which the stream operators use them.
NF          == 8
Dimension   == 1..NF
Data        == 1
Time        == 2
From        == 3
To          == 4
ProductName == 5
CourierId   == 6
Distance    == 7
Price       == 8

Record == [Dimension -> Token]

\* Mutant: operator<< writes the price before the distance.
Image_Swapped(rs) ==
  LET order == <<Data, Time, From, To, ProductName, CourierId, Price, Distance>>
  IN  [i \in 1..(NF * Len(rs)) |->
         rs[((i - 1) \div NF) + 1][order[((i - 1) % NF) + 1]]]

\* Database::save: operator<< of every record, in order.
Image(rs) ==
  [i \in 1..(NF * Len(rs)) |-> rs[((i - 1) \div NF) + 1][((i - 1) % NF) + 1]]

\* Database::read: operator>> until it fails; the words of an incomplete last
\* record are read and thrown away.
ReadAll(ws) ==
  [j \in 1..(Len(ws) \div NF) |-> [d \in Dimension |-> ws[NF * (j - 1) + d]]]

\* Record::ParseFromString fails on fewer than eight words and ignores the
\* words after the eighth.
Parses(ws) == Len(ws) >= NF
\* Mutant: the words after the eighth are kept.
ParseFromString_AllWords(ws) == ws

ParseFromString(ws) == [d \in Dimension |-> ws[d]]

\* What a write of rs that stops anywhere can be read back as: the first n
\* records, the last of which may have lost the end of its price, the last word
\* of its line.
TornAt(rs, n) ==
  {[SubSeq(rs, 1, n) EXCEPT ![n] = [rs[n] EXCEPT ![Price] = torn]] :
     torn \in Cut[rs[n][Price]]}
Remnants(rs) ==
  {SubSeq(rs, 1, n) : n \in 0..Len(rs)} \cup UNION {TornAt(rs, n) : n \in 1..Len(rs)}

=============================================================================
