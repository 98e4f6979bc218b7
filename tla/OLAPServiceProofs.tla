-------------------------- MODULE OLAPServiceProofs --------------------------
(***************************************************************************)
(* OLAPService keeps its types, knows while it saves where the file ends   *)
(* and the stream begins, and implements RecordStore, for any words,       *)
(* requests, bounds and initial file, with and without I/O faults; and     *)
(* what the stream operators of Record do to each other.                   *)
(***************************************************************************)
EXTENDS OLAPService, DiagramsProofs

-----------------------------------------------------------------------------
(* The text of the records: what was written is read back as the records it was  *)
(* written from, and what was cut anywhere as a remnant of them (Record).        *)

\* operator<< writes eight words for every record.
LEMMA ImageType ==
  ASSUME NEW rs \in Seq(Record)
  PROVE  /\ Image(rs) \in Seq(Token)
         /\ Len(Image(rs)) = NF * Len(rs)
         /\ \A i \in 1..(NF * Len(rs)) :
              Image(rs)[i] = rs[((i - 1) \div NF) + 1][((i - 1) % NF) + 1]
<1>1. ASSUME NEW i \in 1..(NF * Len(rs))
      PROVE  rs[((i - 1) \div NF) + 1][((i - 1) % NF) + 1] \in Token
  <2>1. ((i - 1) \div NF) + 1 \in 1..Len(rs)
    BY DEF NF
  <2>2. ((i - 1) % NF) + 1 \in Dimension
    BY DEF NF, Dimension
  <2>3. rs[((i - 1) \div NF) + 1] \in Record
    BY <2>1
  <2> QED BY <2>2, <2>3 DEF Record
<1>2. NF * Len(rs) \in Nat
  BY DEF NF
<1> QED BY <1>1, <1>2 DEF Image

\* operator>> reads a record of every eight words.
LEMMA ReadAllType ==
  ASSUME NEW ws \in Seq(Token)
  PROVE  /\ ReadAll(ws) \in Seq(Record)
         /\ Len(ReadAll(ws)) = Len(ws) \div NF
         /\ \A j \in 1..(Len(ws) \div NF), d \in Dimension :
              ReadAll(ws)[j][d] = ws[NF * (j - 1) + d]
<1>1. Len(ws) \div NF \in Nat
  BY DEF NF
<1>2. ASSUME NEW j \in 1..(Len(ws) \div NF), NEW d \in Dimension
      PROVE  ws[NF * (j - 1) + d] \in Token
  <2>1. NF * (j - 1) + d \in 1..Len(ws)
    BY DEF NF, Dimension
  <2> QED BY <2>1
<1> QED BY <1>1, <1>2 DEF ReadAll, Record

\* The word of a text at the place of field d of record j is that field.
LEMMA FieldPlace ==
  ASSUME NEW rs \in Seq(Record), NEW j \in 1..Len(rs), NEW d \in Dimension
  PROVE  /\ NF * (j - 1) + d \in 1..(NF * Len(rs))
         /\ Image(rs)[NF * (j - 1) + d] = rs[j][d]
<1> DEFINE i == NF * (j - 1) + d
<1>1. i \in 1..(NF * Len(rs))
  BY DEF NF, Dimension
<1>2. /\ ((i - 1) \div NF) + 1 = j
      /\ ((i - 1) % NF) + 1 = d
  BY DEF NF, Dimension
<1> HIDE DEF i
<1>3. Image(rs)[i] = rs[((i - 1) \div NF) + 1][((i - 1) % NF) + 1]
  BY <1>1, ImageType
<1>4. Image(rs)[i] = rs[j][d]
  BY <1>2, <1>3
<1> QED BY <1>1, <1>4 DEF i

\* The first n words of a text are read back as its first n \div NF records.
LEMMA ReadPrefix ==
  ASSUME NEW rs \in Seq(Record), NEW n \in 0..(NF * Len(rs))
  PROVE  ReadAll(SubSeq(Image(rs), 1, n)) = SubSeq(rs, 1, n \div NF)
<1> DEFINE ws == SubSeq(Image(rs), 1, n)
           m  == n \div NF
<1>1. /\ Image(rs) \in Seq(Token)
      /\ Len(Image(rs)) = NF * Len(rs)
  BY ImageType
<1>2. /\ ws \in Seq(Token)
      /\ Len(ws) = n
      /\ \A i \in 1..n : ws[i] = Image(rs)[i]
  BY <1>1 DEF NF
<1>3. m \in 0..Len(rs)
  BY DEF NF
<1>4. ASSUME NEW j \in 1..m
      PROVE  ReadAll(ws)[j] = rs[j]
  <2>1. j \in 1..Len(rs)
    BY <1>3
  <2>2. ASSUME NEW d \in Dimension
        PROVE  ReadAll(ws)[j][d] = rs[j][d]
    <3>1. ReadAll(ws)[j][d] = ws[NF * (j - 1) + d]
      BY <1>2, ReadAllType
    <3>2. NF * (j - 1) + d \in 1..n
      BY DEF NF, Dimension
    <3> QED BY <1>2, <2>1, <3>1, <3>2, FieldPlace
  <2>3. ReadAll(ws) \in Seq(Record) /\ Len(ReadAll(ws)) = m
    BY <1>2, ReadAllType
  <2>4. ReadAll(ws)[j] \in Record /\ rs[j] \in Record
    BY <2>1, <2>3, ElementOfSeq
  <2> QED BY <2>2, <2>4 DEF Record
<1>5. ReadAll(ws) \in Seq(Record) /\ Len(ReadAll(ws)) = m
  BY <1>2, ReadAllType
<1>6. /\ SubSeq(rs, 1, m) \in Seq(Record)
      /\ Len(SubSeq(rs, 1, m)) = m
      /\ \A j \in 1..m : SubSeq(rs, 1, m)[j] = rs[j]
  BY <1>3
<1> HIDE DEF ws, m
<1>7. ReadAll(ws) = SubSeq(rs, 1, m)
  BY <1>4, <1>5, <1>6, SeqEqual
<1> QED BY <1>7 DEF ws, m

\* What Database::save writes, Database::read reads back.
THEOREM ReadAllOfImage ==
  ASSUME NEW rs \in Seq(Record)
  PROVE  ReadAll(Image(rs)) = rs
<1> DEFINE n == NF * Len(rs)
<1>1. n \in 0..n /\ n \div NF = Len(rs)
  BY DEF NF
<1>2. SubSeq(Image(rs), 1, n) = Image(rs)
  BY ImageType, SubSeqFull
<1>3. SubSeq(rs, 1, Len(rs)) = rs
  BY SubSeqFull
<1> QED BY <1>1, <1>2, <1>3, ReadPrefix

\* A text that a write left off inside a word is read back as a remnant.
THEOREM ReadTorn ==
  ASSUME NEW rs \in Seq(Record),
         NEW n \in 0..(NF * Len(rs) - 1), NEW torn \in Cut[Image(rs)[n + 1]]
  PROVE  ReadAll(Append(SubSeq(Image(rs), 1, n), torn)) \in Remnants(rs)
<1> DEFINE ws == Append(SubSeq(Image(rs), 1, n), torn)
           m  == (n + 1) \div NF
<1>1. /\ Image(rs) \in Seq(Token)
      /\ Len(Image(rs)) = NF * Len(rs)
  BY ImageType
<1>2. Image(rs)[n + 1] \in Token
  BY <1>1 DEF NF
<1>3. torn \in Token
  BY <1>2, RecordAssumption DEF RecordAssumption
<1>4. /\ ws \in Seq(Token)
      /\ Len(ws) = n + 1
      /\ \A i \in 1..n : ws[i] = Image(rs)[i]
      /\ ws[n + 1] = torn
  BY <1>1, <1>3 DEF NF
<1>5. m \in 0..Len(rs)
  BY DEF NF
<1>6. /\ ReadAll(ws) \in Seq(Record)
      /\ Len(ReadAll(ws)) = m
      /\ \A j \in 1..m, d \in Dimension : ReadAll(ws)[j][d] = ws[NF * (j - 1) + d]
  BY <1>4, ReadAllType
<1>7. /\ SubSeq(rs, 1, m) \in Seq(Record)
      /\ Len(SubSeq(rs, 1, m)) = m
      /\ \A j \in 1..m : SubSeq(rs, 1, m)[j] = rs[j]
  BY <1>5
<1>8. ASSUME NEW j \in 1..m, NEW d \in Dimension, NF * (j - 1) + d # n + 1
      PROVE  ReadAll(ws)[j][d] = rs[j][d]
  <2>1. j \in 1..Len(rs)
    BY <1>5
  <2>2. NF * (j - 1) + d \in 1..n
    BY <1>8 DEF NF, Dimension
  <2> QED BY <1>4, <1>6, <2>1, <2>2, FieldPlace
<1>9. CASE (n + 1) % NF # 0
  <2>1. ASSUME NEW j \in 1..m
        PROVE  ReadAll(ws)[j] = SubSeq(rs, 1, m)[j]
    <3>1. ASSUME NEW d \in Dimension
          PROVE  ReadAll(ws)[j][d] = rs[j][d]
      <4>1. NF * (j - 1) + d # n + 1
        BY <1>9 DEF NF, Dimension
      <4> QED BY <1>8, <4>1
    <3>2. ReadAll(ws)[j] \in Record /\ rs[j] \in Record
      BY <1>5, <1>6, ElementOfSeq
    <3> QED BY <1>7, <3>1, <3>2 DEF Record
  <2> HIDE DEF ws, m
  <2>2. ReadAll(ws) = SubSeq(rs, 1, m)
    BY <1>6, <1>7, <2>1, SeqEqual
  <2> QED BY <1>5, <2>2 DEF Remnants, ws
<1>10. CASE (n + 1) % NF = 0
  <2>1. m \in 1..Len(rs) /\ n + 1 = NF * (m - 1) + Price
    BY <1>10 DEF NF, Price
  <2>2. torn \in Cut[rs[m][Price]]
    <3>1. Price \in Dimension
      BY DEF Price, Dimension, NF
    <3> HIDE DEF m
    <3> QED BY <2>1, <3>1, FieldPlace
  <2> DEFINE prefix == SubSeq(rs, 1, m)
             last == [rs[m] EXCEPT ![Price] = torn]
             cut == [prefix EXCEPT ![m] = last]
  <2>3. rs[m] \in Record /\ prefix[m] = rs[m]
    BY <1>7, <2>1, ElementOfSeq
  <2>4. last \in Record
    BY <1>3, <2>3 DEF Record
  <2>5. /\ cut \in Seq(Record)
        /\ Len(cut) = m
        /\ cut[m] = last
        /\ \A j \in 1..m : j # m => cut[j] = rs[j]
    <3>1. prefix \in Seq(Record) /\ Len(prefix) = m /\ m \in 1..Len(prefix)
      BY <1>7, <2>1
    <3>2. \A j \in 1..m : prefix[j] = rs[j]
      BY <1>7
    <3> HIDE DEF m, prefix, last
    <3> QED BY <2>4, <3>1, <3>2, ExceptSeq
  <2>6. ASSUME NEW j \in 1..m
        PROVE  ReadAll(ws)[j] = cut[j]
    <3>1. ASSUME NEW d \in Dimension
          PROVE  ReadAll(ws)[j][d] = cut[j][d]
      <4>1. CASE j = m /\ d = Price
        <5>1. ReadAll(ws)[j][d] = torn
          BY <1>4, <1>6, <2>1, <4>1
        <5> QED BY <2>3, <2>5, <4>1, <5>1 DEF Record
      <4>2. CASE ~(j = m /\ d = Price)
        <5>1. NF * (j - 1) + d # n + 1
          BY <2>1, <4>2 DEF NF, Price, Dimension
        <5>2. ReadAll(ws)[j][d] = rs[j][d]
          BY <1>8, <5>1
        <5>3. cut[j][d] = rs[j][d]
          BY <2>3, <2>5, <4>2 DEF Record
        <5> QED BY <5>2, <5>3
      <4> QED BY <4>1, <4>2
    <3>2. ReadAll(ws)[j] \in Record /\ cut[j] \in Record
      BY <1>6, <2>5, ElementOfSeq
    <3> QED BY <3>1, <3>2 DEF Record
  <2> HIDE DEF ws, m
  <2>7. ReadAll(ws) = cut
    <3> HIDE DEF cut
    <3> QED BY <1>6, <2>5, <2>6, SeqEqual
  <2>8. cut \in TornAt(rs, m)
    BY <2>2 DEF TornAt
  <2>9. cut \in Remnants(rs)
    <3> HIDE DEF cut, m
    <3> QED BY <2>1, <2>8 DEF Remnants
  <2> QED BY <2>7, <2>9 DEF ws
<1> QED BY <1>9, <1>10 DEF NF

\* A file that holds the text of rs as far as it has been written, be its last
\* word whole or cut, is read back as a remnant of rs.
THEOREM PartlyWritten ==
  ASSUME NEW rs \in Seq(Record), NEW file \in Seq(Token), NEW rest \in Seq(Token),
         file \o rest = Image(rs)
  PROVE  /\ ReadAll(file) \in Remnants(rs)
         /\ rest # << >> => \A torn \in Cut[Head(rest)] :
              ReadAll(Append(file, torn)) \in Remnants(rs)
<1> DEFINE n == Len(file)
<1>1. Len(file) + Len(rest) = NF * Len(rs)
  <2>1. Len(file \o rest) = Len(file) + Len(rest)
    BY ConcatProperties
  <2> QED BY <2>1, ImageType
<1>2. file = SubSeq(Image(rs), 1, n)
  BY SubSeqOfConcat1, SubSeqFull
<1>3. n \in 0..(NF * Len(rs))
  BY <1>1 DEF NF
<1>4. ReadAll(file) \in Remnants(rs)
  <2>1. n \div NF \in 0..Len(rs)
    BY <1>3 DEF NF
  <2>2. ReadAll(file) = SubSeq(rs, 1, n \div NF)
    BY <1>2, <1>3, ReadPrefix
  <2> QED BY <2>1, <2>2 DEF Remnants
<1>5. ASSUME rest # << >>, NEW torn \in Cut[Head(rest)]
      PROVE  ReadAll(Append(file, torn)) \in Remnants(rs)
  <2>1. n \in 0..(NF * Len(rs) - 1)
    BY <1>1, <1>5 DEF NF
  <2>2. Image(rs)[n + 1] = Head(rest)
    BY <1>5
  <2> QED BY <1>2, <1>5, <2>1, <2>2, ReadTorn
<1> QED BY <1>4, <1>5

-----------------------------------------------------------------------------
(* The service *)

\* The inductive invariant: SaveInFlight says of every piece of a save where in
\* the text of the records it belongs, which the types alone do not.
IInv == TypeOK /\ SaveInFlight

\* BuildDiagrams makes the cubes of the three diagrams and the full one.
LEMMA CubesNames ==
  ASSUME NEW rs
  PROVE  DOMAIN BuildDiagrams(rs) = DiagramType \cup {"full_cube"}
BY DEF BuildDiagrams, DiagramType

\* Record::ParseFromString returns a record of the first eight words.
LEMMA ParsedIsRecord ==
  ASSUME NEW req \in Request, GivesRecord(req)
  PROVE  ParseFromString(req.data) \in Record
<1>1. req.data \in Seq(Token) /\ NF <= Len(req.data)
  BY RequestAssumption DEF RequestAssumption, GivesRecord, Has, Parses
<1>2. \A d \in Dimension : d \in 1..Len(req.data)
  BY <1>1 DEF NF, Dimension
<1> QED BY <1>1, <1>2 DEF ParseFromString, Record

\* std::vector::erase leaves a list of elements that were in it.
LEMMA RemovedType ==
  ASSUME NEW S, NEW s \in Seq(S), NEW i \in DOMAIN s
  PROVE  /\ RemoveAt(s, i) \in Seq(S)
         /\ \A j \in DOMAIN RemoveAt(s, i) : \E k \in DOMAIN s : RemoveAt(s, i)[j] = s[k]
<1> DEFINE before == SubSeq(s, 1, i - 1)
           after  == SubSeq(s, i + 1, Len(s))
<1>1. i \in 1..Len(s)
  OBVIOUS
<1>2. before \in Seq(S) /\ \A j \in 1..Len(before) : before[j] = s[j] /\ j \in DOMAIN s
  BY <1>1
<1>3. after \in Seq(S) /\ \A j \in 1..Len(after) : after[j] = s[i + j] /\ i + j \in DOMAIN s
  BY <1>1
<1> HIDE DEF before, after
<1>4. before \o after \in Seq(S)
  BY <1>2, <1>3, ConcatProperties
<1>5. ASSUME NEW j \in DOMAIN (before \o after)
      PROVE  \E k \in DOMAIN s : (before \o after)[j] = s[k]
  <2>1. j \in 1..(Len(before) + Len(after))
    BY <1>2, <1>3, ConcatProperties
  <2>2. CASE j <= Len(before)
    BY <1>2, <1>3, <2>1, <2>2, ConcatProperties
  <2>3. CASE j > Len(before)
    <3>1. /\ j - Len(before) \in 1..Len(after)
          /\ (before \o after)[j] = after[j - Len(before)]
      BY <1>2, <1>3, <2>1, <2>3, ConcatProperties
    <3> QED BY <1>3, <3>1
  <2> QED BY <1>2, <2>1, <2>2, <2>3
<1> QED BY <1>4, <1>5 DEF RemoveAt, before, after

\* A request that leaves records, file and stream alone.
LEMMA QuietStep ==
  ASSUME IInv, UNCHANGED <<records, storage, unflushed, cubes>>,
         pc' \in {"ready", "aborted"}, pc = "ready",
         NEW req \in Request, NEW status \in {"none", "OK", "ERROR", "DATA"},
         NEW body, ReplyWith(req, status, body)
  PROVE  IInv'
BY DEF IInv, TypeOK, SaveInFlight, ReplyWith

\* LOAD keeps the invariant, at the start and on request.
LEMMA LoadStep ==
  ASSUME IInv, LoadStorage, pc # "saving", pc' = "ready",
         NEW req \in Request \cup {NotAMap}, NEW status \in {"none", "OK"},
         ReplyWith(req, status, "")
  PROVE  IInv'
<1>1. storage \in Seq(Token)
  BY DEF IInv, TypeOK, LoadStorage, Loadable
<1>2. records' \in Seq(Record)
  BY <1>1, ReadAllType DEF LoadStorage
<1>3. DOMAIN cubes' = DiagramType \cup {"full_cube"}
  BY CubesNames DEF LoadStorage
<1>4. reply' = [to |-> req, status |-> status, body |-> ""]
  BY DEF ReplyWith
<1>5. UNCHANGED <<storage, unflushed>>
  BY DEF LoadStorage
<1> QED BY <1>2, <1>3, <1>4, <1>5 DEF IInv, TypeOK, SaveInFlight

\* The invariant holds at the start.
LEMMA InitIInv == Init => IInv
<1> SUFFICES ASSUME Init PROVE IInv
  OBVIOUS
<1>1. storage = Absent \/ storage \in Seq(Token)
  BY OLAPServiceAssumption DEF Init, OLAPServiceAssumption
<1>2. DOMAIN cubes = DiagramType \cup {"full_cube"}
  BY CubesNames DEF Init
<1>3. records \in Seq(Record) /\ unflushed \in Seq(Token) /\ unflushed = << >>
  BY EmptySeq DEF Init
<1> QED BY <1>1, <1>2, <1>3 DEF Init, IInv, TypeOK, SaveInFlight

\* A request is handled to its end, or a save begins.
LEMMA HandleRequestIInv ==
  ASSUME IInv, NEW req \in Request, HandleRequest(req)
  PROVE  IInv'
<1>0. pc = "ready"
  BY DEF HandleRequest
<1>1. CASE Reject(req)
  <2>1. PICK why : Refuse(req, why)
    BY <1>1 DEF Reject, RefuseMessage
  <2> QED BY <1>0, <2>1, QuietStep DEF Refuse
<1>2. CASE Abort(req)
  BY <1>0, <1>2, QuietStep DEF Abort
<1>3. CASE Reload(req)
  BY <1>0, <1>3, LoadStep DEF Reload
<1>4. CASE AddRecord(req)
  <2>1. records' \in Seq(Record)
    BY <1>4, ParsedIsRecord, AppendProperties DEF AddRecord, IInv, TypeOK
  <2> QED BY <1>0, <1>4, <2>1
          DEF AddRecord, ReplyWith, IInv, TypeOK, SaveInFlight
<1>5. CASE RemoveRecord(req)
  <2>1. PICK i \in DOMAIN records : records' = RemoveAt(records, i)
    BY <1>5 DEF RemoveRecord
  <2>2. records' \in Seq(Record)
    BY <2>1, RemovedType DEF IInv, TypeOK
  <2> QED BY <1>0, <1>5, <2>2
          DEF RemoveRecord, ReplyWith, IInv, TypeOK, SaveInFlight
<1>6. CASE GetRecords(req)
  BY <1>0, <1>6, QuietStep DEF GetRecords
<1>7. CASE GetSlice(req)
  BY <1>0, <1>7, QuietStep DEF GetSlice
<1>8. CASE GetDiagram(req)
  BY <1>0, <1>8, QuietStep DEF GetDiagram
<1>9. CASE SaveOpen(req)
  <2>1. Image(records) \in Seq(Token)
    BY ImageType DEF IInv, TypeOK
  <2>2. << >> \in Seq(Token) /\ << >> \o Image(records) = Image(records)
    BY <2>1
  <2>3. storage' # Absent
    BY <1>9, EmptySeq, OLAPServiceAssumption DEF SaveOpen, OLAPServiceAssumption
  <2> QED BY <1>9, <2>1, <2>2, <2>3
          DEF SaveOpen, ReplyWith, IInv, TypeOK, SaveInFlight
<1>10. CASE SaveOpenFails(req)
  BY <1>0, <1>10, QuietStep DEF SaveOpenFails
<1> QED BY <1>1, <1>2, <1>3, <1>4, <1>5, <1>6, <1>7, <1>8, <1>9, <1>10
        DEF HandleRequest

\* What a write that stops leaves of the file is words.
LEMMA TornType ==
  ASSUME TypeOK, NEW file \in Seq(Token), NEW left \in Torn(file)
  PROVE  left \in Seq(Token)
<1>1. CASE left = file
  BY <1>1
<1>2. CASE unflushed # << >> /\ \E w \in Cut[Head(unflushed)] : left = Append(file, w)
  <2>1. Head(unflushed) \in Token
    BY <1>2, HeadTailProperties DEF TypeOK
  <2>2. Cut[Head(unflushed)] \subseteq Token
    BY <2>1, RecordAssumption DEF RecordAssumption
  <2> QED BY <1>2, <2>2, AppendProperties
<1> QED BY <1>1, <1>2 DEF Torn

\* Every step keeps the invariant.
LEMMA NextIInv == IInv /\ [Next]_vars => IInv'
<1> SUFFICES ASSUME IInv, [Next]_vars PROVE IInv'
  OBVIOUS
<1>1. CASE Start
  BY <1>1, LoadStep DEF Start, Running
<1>2. CASE \E req \in Request : HandleRequest(req)
  BY <1>2, HandleRequestIInv
<1>3. CASE SaveFlush
  <2>1. PICK n \in 1..Len(unflushed) :
          /\ storage' = storage \o SubSeq(unflushed, 1, n)
          /\ unflushed' = SubSeq(unflushed, n + 1, Len(unflushed))
    BY <1>3 DEF SaveFlush
  <2>2. /\ pc = "saving" /\ storage \in Seq(Token)
        /\ unflushed \in Seq(Token)
        /\ UNCHANGED <<pc, records, cubes, reply>>
    BY <1>3 DEF SaveFlush, IInv, TypeOK, SaveInFlight
  <2> DEFINE piece == SubSeq(unflushed, 1, n)
             rest  == SubSeq(unflushed, n + 1, Len(unflushed))
  <2>3. piece \in Seq(Token) /\ rest \in Seq(Token) /\ piece \o rest = unflushed
    <3>1. n + 1 \in 1..(Len(unflushed) + 1)
      BY <2>2
    <3> QED BY <2>2, <3>1, ConcatAdjacentSubSeq, SubSeqFull
  <2>4. storage' = storage \o piece /\ unflushed' = rest
    BY <2>1
  <2> HIDE DEF piece, rest
  <2>5. storage' \in Seq(Token) /\ storage' \o unflushed' = storage \o unflushed
    <3>1. storage' \in Seq(Token)
      BY <2>2, <2>3, <2>4, ConcatProperties
    <3>2. piece \in Seq(Token) /\ rest \in Seq(Token)
      BY <2>3
    <3>3. (storage \o piece) \o rest = storage \o (piece \o rest)
      BY <2>2, <3>2
    <3> QED BY <2>3, <2>4, <3>1, <3>3
  <2>6. storage' # Absent
    BY <2>5, OLAPServiceAssumption DEF OLAPServiceAssumption
  <2> QED BY <2>2, <2>3, <2>4, <2>5, <2>6 DEF IInv, TypeOK, SaveInFlight
<1>4. CASE SaveClose
  BY <1>4 DEF SaveClose, IInv, TypeOK, SaveInFlight
<1>5. CASE SaveWriteFails
  <2>1. storage' \in Seq(Token)
    BY <1>5, TornType DEF SaveWriteFails, IInv, TypeOK, SaveInFlight
  <2> QED BY <1>5, <2>1, EmptySeq DEF SaveWriteFails, IInv, TypeOK, SaveInFlight
<1>6. CASE Kill
  <2>1. storage' = Absent \/ storage' \in Seq(Token)
    BY <1>6, TornType DEF Kill, Running, Torn, IInv, TypeOK, SaveInFlight
  <2> QED BY <1>6, <2>1, EmptySeq DEF Kill, IInv, TypeOK, SaveInFlight
<1>7. CASE StorageLost
  BY <1>7 DEF StorageLost, IInv, TypeOK, SaveInFlight
<1>8. CASE UNCHANGED vars
  BY <1>8 DEF vars, IInv, TypeOK, SaveInFlight
<1> QED BY <1>1, <1>2, <1>3, <1>4, <1>5, <1>6, <1>7, <1>8 DEF Next

\* It holds in every state.
LEMMA InvariantIInv == Spec => []IInv
BY InitIInv, NextIInv, PTL DEF Spec

\* The state keeps its types whatever is asked and however the process dies.
THEOREM TypeCorrect == Spec => []TypeOK
<1>1. IInv => TypeOK
  BY DEF IInv
<1> QED BY <1>1, InvariantIInv, PTL

\* A save in flight is always somewhere in the text of the records.
THEOREM SaveCorrect == Spec => []SaveInFlight
<1>1. IInv => SaveInFlight
  BY DEF IInv
<1> QED BY <1>1, InvariantIInv, PTL

-----------------------------------------------------------------------------
\* What the steps that write the file leave of it, in RecordStore's terms.

LEMMA DurableType == TypeOK => Durable \in Seq(Record)
BY ReadAllType, EmptySeq DEF TypeOK, Durable

\* The list itself, and no record at all, are remnants of a list.
LEMMA NothingIsRemnant ==
  ASSUME NEW rs \in Seq(Record)
  PROVE  << >> \in Remnants(rs)
<1>1. SubSeq(rs, 1, 0) = << >> /\ 0 \in 0..Len(rs)
  BY SubSeqEmpty
<1> QED BY <1>1 DEF Remnants

\* An empty file has no records.
LEMMA NothingRead == ReadAll(<< >>) = << >>
<1> DEFINE nothing == << >>
<1>1. nothing \in Seq(Token) /\ Len(nothing) = 0
  BY EmptySeq
<1>2. 0 \div NF = 0
  BY DEF NF
<1> HIDE DEF nothing
<1>3. ReadAll(nothing) \in Seq(Record) /\ Len(ReadAll(nothing)) = 0
  BY <1>1, <1>2, ReadAllType
<1> QED BY <1>3, EmptySeq DEF nothing

\* A save that is cut short while it writes leaves a remnant of the records.
LEMMA TornIsRemnant ==
  ASSUME IInv, pc = "saving", NEW left \in Torn(storage)
  PROVE  left \in Seq(Token) /\ ReadAll(left) \in Remnants(records)
<1>1. /\ records \in Seq(Record) /\ storage \in Seq(Token)
      /\ unflushed \in Seq(Token) /\ storage \o unflushed = Image(records)
  BY DEF IInv, TypeOK, SaveInFlight
<1>2. left \in Seq(Token)
  BY <1>1, TornType DEF IInv
<1>3. CASE left = storage
  BY <1>1, <1>2, <1>3, PartlyWritten
<1>4. CASE unflushed # << >> /\ \E w \in Cut[Head(unflushed)] : left = Append(storage, w)
  BY <1>1, <1>2, <1>4, PartlyWritten
<1> QED BY <1>3, <1>4 DEF Torn

\* One step of the service, as RecordStore sees it.
LEMMA FlushIsRemnant ==
  ASSUME IInv, IInv', pc = "saving", pc' = "saving", UNCHANGED records
  PROVE  Durable' \in Remnants(records)
<1>1. /\ records \in Seq(Record) /\ storage' \in Seq(Token)
      /\ unflushed' \in Seq(Token) /\ storage' \o unflushed' = Image(records)
      /\ storage' # Absent
  BY DEF IInv, TypeOK, SaveInFlight
<1>2. ReadAll(storage') \in Remnants(records)
  BY <1>1, PartlyWritten
<1> QED BY <1>1, <1>2 DEF Durable

\* The service starts as the store does.
LEMMA InitStore == Init => Store!Init
<1> SUFFICES ASSUME Init PROVE Store!Init
  OBVIOUS
<1>1. Durable \in Seq(Record)
  BY InitIInv, DurableType DEF IInv
<1>2. Mode = "down"
  BY DEF Init, Mode, Running
<1> QED BY <1>1, <1>2 DEF Init, Store!Init

\* What leaves the four of them alone is a stutter of the store.
LEMMA StoreStutter ==
  ASSUME UNCHANGED <<records, storage, cubes>>, Mode' = Mode
  PROVE  UNCHANGED Store!storeVars
BY DEF Store!storeVars, Durable

\* LoadStorage of a service that stays up is Load of the store.
LEMMA LoadIsLoad ==
  ASSUME LoadStorage, Mode' = "up"
  PROVE  Store!Load
<1>1. storage # Absent /\ storage' = storage
  BY DEF LoadStorage, Loadable
<1>2. Durable = ReadAll(storage) /\ Durable' = Durable
  BY <1>1 DEF Durable
<1> QED BY <1>2 DEF Store!Load, LoadStorage

\* Whatever the request, what is done is a step of the store or none.
LEMMA HandleRequestStore ==
  ASSUME IInv, IInv', NEW req \in Request, HandleRequest(req)
  PROVE  [Store!Next]_(Store!storeVars)
<1>0. /\ pc = "ready" /\ Mode = "up"
      /\ records \in Seq(Record)
  BY DEF HandleRequest, Mode, Running, IInv, TypeOK
<1>1. CASE Reject(req)
  <2>1. PICK why : Refuse(req, why)
    BY <1>1 DEF Reject, RefuseMessage
  <2> QED BY <2>1, StoreStutter DEF Refuse, Mode, Running
<1>2. CASE Abort(req)
  <2>1. Mode' = "down" /\ UNCHANGED <<records, storage, cubes>>
    BY <1>2 DEF Abort, Mode, Running
  <2>2. Durable' = Durable
    BY <2>1 DEF Durable
  <2>3. Store!Stop
    BY <1>0, <2>1, <2>2 DEF Store!Stop
  <2> QED BY <2>3 DEF Store!Next
<1>3. CASE Reload(req)
  <2>1. Mode' = "up"
    BY <1>0, <1>3 DEF Reload, Mode, Running
  <2>2. Store!Load
    BY <1>3, <2>1, LoadIsLoad DEF Reload
  <2> QED BY <2>2 DEF Store!Next
<1>4. CASE AddRecord(req)
  <2> DEFINE new == ParseFromString(req.data)
  <2>1. new \in Record
    BY <1>4, ParsedIsRecord DEF AddRecord
  <2>2. /\ records' = Append(records, new)
        /\ UNCHANGED <<pc, storage, cubes>>
    BY <1>4 DEF AddRecord
  <2>3. UNCHANGED <<Mode, Durable>>
    BY <2>2 DEF Mode, Running, Durable
  <2> HIDE DEF new
  <2>4. records' # << >> /\ records'[Len(records')] = new
    BY <1>0, <2>1, <2>2
  <2>5. Store!AddOne
    BY <1>0, <2>1, <2>2, <2>3, <2>4 DEF Store!AddOne, Store!Last
  <2> QED BY <2>5 DEF Store!Next
<1>5. CASE RemoveRecord(req)
  <2>1. PICK i \in DOMAIN records :
          /\ \A j \in 1..(i - 1) : records[j] # records[i]
          /\ records' = RemoveAt(records, i)
    BY <1>5 DEF RemoveRecord
  <2>2. UNCHANGED <<pc, storage, cubes>>
    BY <1>5 DEF RemoveRecord
  <2>3. UNCHANGED <<Mode, Durable>>
    BY <2>2 DEF Mode, Running, Durable
  <2>4. Store!RemoveOne
    BY <1>0, <2>1, <2>2, <2>3 DEF Store!RemoveOne, RemoveAt
  <2> QED BY <2>4 DEF Store!Next
<1>6. CASE GetRecords(req) \/ GetSlice(req) \/ GetDiagram(req) \/ SaveOpenFails(req)
  BY <1>6, StoreStutter
     DEF GetRecords, GetSlice, GetDiagram, SaveOpenFails, Mode, Running
<1>7. CASE SaveOpen(req)
  <2>1. pc' = "saving" /\ storage' = << >> /\ UNCHANGED <<records, cubes>>
    BY <1>7 DEF SaveOpen
  <2>2. Durable' = << >>
    BY <2>1, NothingRead DEF Durable
  <2>3. Mode' = "up"
    BY <2>1 DEF Mode, Running
  <2>4. Store!Persist
    BY <1>0, <2>1, <2>2, <2>3, NothingIsRemnant DEF Store!Persist
  <2> QED BY <2>4 DEF Store!Next
<1> QED BY <1>1, <1>2, <1>3, <1>4, <1>5, <1>6, <1>7 DEF HandleRequest

\* Every step of the service is a step of the store or none.
LEMMA NextStore ==
  IInv /\ IInv' /\ [Next]_vars => [Store!Next]_(Store!storeVars)
<1> SUFFICES ASSUME IInv, IInv', [Next]_vars
             PROVE  [Store!Next]_(Store!storeVars)
  OBVIOUS
<1>0. records \in Seq(Record)
  BY DEF IInv, TypeOK
<1>1. CASE Start
  <2>1. Mode' = "up"
    BY <1>1 DEF Start, Mode, Running
  <2>2. Store!Load
    BY <1>1, <2>1, LoadIsLoad DEF Start
  <2> QED BY <2>2 DEF Store!Next
<1>2. CASE \E req \in Request : HandleRequest(req)
  BY <1>2, HandleRequestStore
<1>3. CASE SaveFlush
  <2>1. pc = "saving" /\ UNCHANGED <<pc, records, cubes>>
    BY <1>3 DEF SaveFlush
  <2>2. Durable' \in Remnants(records)
    BY <2>1, FlushIsRemnant
  <2>3. Mode = "up" /\ Mode' = "up"
    BY <2>1 DEF Mode, Running
  <2>4. Store!Persist
    BY <2>1, <2>2, <2>3 DEF Store!Persist
  <2> QED BY <2>4 DEF Store!Next
<1>4. CASE SaveClose
  BY <1>4, StoreStutter DEF SaveClose, Mode, Running
<1>5. CASE SaveWriteFails
  <2>1. /\ pc = "saving" /\ pc' = "ready" /\ UNCHANGED <<records, cubes>>
        /\ storage' \in Torn(storage)
    BY <1>5 DEF SaveWriteFails
  <2>2. storage' # Absent /\ ReadAll(storage') \in Remnants(records)
    BY <2>1, TornIsRemnant, OLAPServiceAssumption DEF OLAPServiceAssumption
  <2>3. Mode = "up" /\ Mode' = "up"
    BY <2>1 DEF Mode, Running
  <2>4. Store!Persist
    BY <2>1, <2>2, <2>3 DEF Store!Persist, Durable
  <2> QED BY <2>4 DEF Store!Next
<1>6. CASE Kill
  <2>1. /\ Mode = "up" /\ Mode' = "down" /\ UNCHANGED <<records, cubes>>
        /\ storage' \in Torn(storage)
    BY <1>6 DEF Kill, Mode, Running
  <2>2. Durable' \in Remnants(records) \cup {Durable}
    <3>1. CASE pc = "saving"
      <4>1. storage' # Absent /\ ReadAll(storage') \in Remnants(records)
        BY <2>1, <3>1, TornIsRemnant, OLAPServiceAssumption
           DEF OLAPServiceAssumption
      <4> QED BY <4>1 DEF Durable
    <3>2. CASE pc # "saving"
      <4>1. storage' = storage
        BY <2>1, <3>2 DEF Torn, IInv, SaveInFlight
      <4> QED BY <4>1 DEF Durable
    <3> QED BY <3>1, <3>2
  <2>3. Store!Stop
    BY <2>1, <2>2 DEF Store!Stop
  <2> QED BY <2>3 DEF Store!Next
<1>7. CASE StorageLost
  <2>1. storage' = Absent /\ UNCHANGED <<pc, records, cubes>>
    BY <1>7 DEF StorageLost
  <2>2. Durable' = << >> /\ Mode' = Mode
    BY <2>1 DEF Durable, Mode, Running
  <2>3. Store!Lose
    BY <2>1, <2>2 DEF Store!Lose
  <2> QED BY <2>3 DEF Store!Next
<1>8. CASE UNCHANGED vars
  BY <1>8, StoreStutter DEF vars, Mode, Running
<1> QED BY <1>1, <1>2, <1>3, <1>4, <1>5, <1>6, <1>7, <1>8 DEF Next

\* The service keeps what RecordStore promises, I/O faults and kills included:
\* the file only ever turns into a remnant of the list in memory, and what is
\* loaded and shown is what the file held.
THEOREM ImplementsStore == Spec => KeepsTheStore
<1>1. Spec => []IInv
  BY InvariantIInv
<1> QED BY <1>1, InitStore, NextStore, PTL DEF Spec, KeepsTheStore, Store!Spec

-----------------------------------------------------------------------------
\* What an answered SAVE is worth when no write fails: the file is the text of
\* the records until the next request.
SavedText ==
  pc = "ready" /\ OfType(reply.to, {"SAVE"}) =>
    storage # Absent /\ storage = Image(records)

\* A request that ReplyWith names is the one that reply shows.
LEMMA OtherAnswer ==
  ASSUME NEW req, NEW status, NEW body, ReplyWith(req, status, body),
         ~OfType(req, {"SAVE"})
  PROVE  SavedText'
BY DEF ReplyWith, SavedText, OfType, Has

\* Whatever the request, an answer to SAVE leaves the file it tells of.
LEMMA HandleRequestSavedText ==
  ASSUME ~IOFaults, NEW req \in Request, HandleRequest(req)
  PROVE  SavedText'
<1>1. CASE Reject(req)
  <2>1. PICK why : Refuse(req, why)
    BY <1>1 DEF Reject, RefuseMessage
  <2>2. ~OfType(req, {"SAVE"})
    BY <1>1 DEF Reject, RefuseMessage, OfType, Has, RequestType
  <2> QED BY <2>1, <2>2, OtherAnswer DEF Refuse
<1>2. CASE Abort(req) \/ SaveOpen(req)
  BY <1>2 DEF Abort, SaveOpen, SavedText
<1>3. CASE Reload(req)
  BY <1>3, OtherAnswer DEF Reload, OfType
<1>4. CASE AddRecord(req)
  BY <1>4, OtherAnswer DEF AddRecord, OfType
<1>5. CASE RemoveRecord(req)
  BY <1>5, OtherAnswer DEF RemoveRecord, OfType
<1>6. CASE GetRecords(req)
  BY <1>6, OtherAnswer DEF GetRecords, OfType
<1>7. CASE GetSlice(req)
  BY <1>7, OtherAnswer DEF GetSlice, OfType
<1>8. CASE GetDiagram(req)
  BY <1>8, OtherAnswer DEF GetDiagram, OfType
<1> QED BY <1>1, <1>2, <1>3, <1>4, <1>5, <1>6, <1>7, <1>8
        DEF HandleRequest, SaveOpenFails

\* Without I/O faults every step leaves the file an answer to SAVE tells of.
LEMMA NextSavedText ==
  ASSUME ~IOFaults
  PROVE  IInv /\ SavedText /\ [Next]_vars => SavedText'
<1> SUFFICES ASSUME IInv, SavedText, [Next]_vars PROVE SavedText'
  OBVIOUS
<1>1. CASE Start
  BY <1>1, OtherAnswer DEF Start, OfType, Has
<1>2. CASE \E req \in Request : HandleRequest(req)
  BY <1>2, HandleRequestSavedText
<1>3. CASE SaveFlush \/ Kill
  BY <1>3 DEF SaveFlush, Kill, SavedText
<1>4. CASE SaveClose
  <2>1. /\ pc = "saving" /\ unflushed = << >> /\ storage' = storage
        /\ records' = records
    BY <1>4 DEF SaveClose
  <2>2. storage \in Seq(Token) /\ storage # Absent
        /\ storage \o unflushed = Image(records)
    BY <2>1 DEF IInv, TypeOK, SaveInFlight
  <2>3. storage = Image(records)
    BY <2>1, <2>2, ConcatEmptySeq
  <2> QED BY <2>1, <2>2, <2>3 DEF SavedText
<1>5. CASE UNCHANGED vars
  BY <1>5 DEF vars, SavedText
<1> QED BY <1>1, <1>2, <1>3, <1>4, <1>5 DEF Next, SaveWriteFails, StorageLost

\* When no write fails, a SAVE that was answered OK is worth a restart: the file
\* loads as the records that were in memory.
THEOREM SavedLoads ==
  ASSUME ~IOFaults
  PROVE  Spec => []SaveThenLoad
<1>1. Init => SavedText
  BY DEF Init, SavedText
<1>2. IInv /\ SavedText => SaveThenLoad
  BY ReadAllOfImage DEF IInv, TypeOK, SavedText, SaveThenLoad
<1> QED BY <1>1, <1>2, NextSavedText, InvariantIInv, PTL DEF Spec

-----------------------------------------------------------------------------
\* What keeps the file loadable: it was to begin with, every price that clients
\* send is a number and stays one when its end is cut off, and no I/O fails.
SoundPrices ==
  /\ ~IOFaults
  /\ \A file \in InitialStorage : Loadable(file)
  /\ \A req \in Request :
       GivesRecord(req) => ParseFromString(req.data)[Price] \in Numeric
  /\ \A w \in Numeric : Cut[w] \subseteq Numeric

Sound == Aggregable(records) /\ Loadable(storage)

\* What is left of a file that was not written to its end holds no price that cannot be added.
LEMMA RemnantsSound ==
  ASSUME SoundPrices, NEW rs \in Seq(Record), Aggregable(rs),
         NEW left \in Remnants(rs)
  PROVE  Aggregable(left)
<1>1. CASE \E n \in 0..Len(rs) : left = SubSeq(rs, 1, n)
  BY <1>1 DEF Aggregable
<1>2. ASSUME NEW n \in 1..Len(rs), left \in TornAt(rs, n)
      PROVE  Aggregable(left)
  <2>1. PICK torn \in Cut[rs[n][Price]] :
          left = [SubSeq(rs, 1, n) EXCEPT ![n] = [rs[n] EXCEPT ![Price] = torn]]
    BY <1>2 DEF TornAt
  <2>2. rs[n][Price] \in Numeric
    BY DEF Aggregable
  <2>3. torn \in Numeric
    BY <2>1, <2>2 DEF SoundPrices
  <2>4. rs[n] \in Record /\ Price \in Dimension
    BY ElementOfSeq DEF Price, Dimension, NF
  <2>5. [rs[n] EXCEPT ![Price] = torn][Price] = torn
    BY <2>4 DEF Record
  <2> DEFINE prefix == SubSeq(rs, 1, n)
             cut    == [rs[n] EXCEPT ![Price] = torn]
  <2>6. /\ prefix \in Seq(Record) /\ n \in DOMAIN prefix /\ DOMAIN prefix = 1..n
        /\ \A i \in 1..n : prefix[i] = rs[i]
    OBVIOUS
  <2>7. left = [prefix EXCEPT ![n] = cut] /\ cut[Price] \in Numeric
    BY <2>1, <2>3, <2>5
  <2> HIDE DEF prefix, cut
  <2>8. DOMAIN left = 1..n
    BY <2>6, <2>7
  <2>9. ASSUME NEW i \in 1..n
        PROVE  left[i][Price] \in Numeric
    <3>1. CASE i = n
      BY <2>6, <2>7, <3>1
    <3>2. CASE i # n
      <4>1. left[i] = rs[i] /\ i \in DOMAIN rs
        BY <2>6, <2>7, <3>2
      <4> QED BY <4>1 DEF Aggregable
    <3> QED BY <3>1, <3>2
  <2> QED BY <2>8, <2>9 DEF Aggregable
<1> QED BY <1>1, <1>2 DEF Remnants

\* With prices that can be added every step leaves records that can be added up.
LEMMA NextSound ==
  ASSUME SoundPrices
  PROVE  IInv /\ IInv' /\ Sound /\ [Next]_vars => Sound'
<1> SUFFICES ASSUME IInv, IInv', Sound, [Next]_vars PROVE Sound'
  OBVIOUS
<1>0. /\ ~IOFaults /\ records \in Seq(Record)
      /\ Aggregable(records) /\ Loadable(storage)
  BY DEF SoundPrices, IInv, TypeOK, Sound
<1>1. ASSUME LoadStorage PROVE Sound'
  BY <1>0, <1>1 DEF LoadStorage, Loadable, Sound
<1>2. ASSUME NEW left \in Seq(Token), ReadAll(left) \in Remnants(records)
      PROVE  Loadable(left)
  BY <1>0, <1>2, RemnantsSound, OLAPServiceAssumption
     DEF OLAPServiceAssumption, Loadable
<1>3. ASSUME NEW req \in Request, HandleRequest(req) PROVE Sound'
  <2>1. CASE AddRecord(req)
    <3> DEFINE new == ParseFromString(req.data)
    <3>1. new[Price] \in Numeric /\ new \in Record
      BY <2>1, ParsedIsRecord DEF SoundPrices, AddRecord
    <3>2. records' = Append(records, new) /\ storage' = storage
      BY <2>1 DEF AddRecord
    <3> HIDE DEF new
    <3>3. Aggregable(records')
      BY <1>0, <3>1, <3>2 DEF Aggregable
    <3> QED BY <1>0, <3>2, <3>3 DEF Sound
  <2>2. CASE RemoveRecord(req)
    <3>1. PICK i \in DOMAIN records : records' = RemoveAt(records, i)
      BY <2>2 DEF RemoveRecord
    <3>2. Aggregable(records')
      BY <1>0, <3>1, RemovedType DEF Aggregable
    <3> QED BY <1>0, <2>2, <3>2 DEF RemoveRecord, Sound
  <2>3. CASE SaveOpen(req)
    <3>1. storage' = << >> /\ records' = records
      BY <2>3 DEF SaveOpen
    <3>2. << >> \in Seq(Token) /\ ReadAll(<< >>) \in Remnants(records)
      BY <1>0, EmptySeq, NothingRead, NothingIsRemnant
    <3>3. Loadable(<< >>)
      BY <1>2, <3>2
    <3> QED BY <1>0, <3>1, <3>3 DEF Sound
  <2>4. CASE Reload(req)
    BY <1>1, <2>4 DEF Reload
  <2>5. CASE Reject(req)
    <3>1. PICK why : Refuse(req, why)
      BY <2>5 DEF Reject, RefuseMessage
    <3> QED BY <1>0, <3>1 DEF Refuse, Sound
  <2>6. CASE Abort(req) \/ GetRecords(req) \/ GetSlice(req) \/ GetDiagram(req)
    BY <1>0, <2>6 DEF Abort, GetRecords, GetSlice, GetDiagram, Sound
  <2> QED BY <1>0, <1>3, <2>1, <2>2, <2>3, <2>4, <2>5, <2>6
          DEF HandleRequest, SaveOpenFails
<1>4. CASE Start
  BY <1>1, <1>4 DEF Start
<1>5. CASE SaveFlush
  <2>1. pc = "saving" /\ pc' = "saving" /\ records' = records
    BY <1>5 DEF SaveFlush
  <2>2. Durable' \in Remnants(records) /\ storage' \in Seq(Token) /\ storage' # Absent
    BY <2>1, FlushIsRemnant DEF IInv, TypeOK, SaveInFlight
  <2> QED BY <1>0, <1>2, <2>1, <2>2 DEF Durable, Sound
<1>6. CASE SaveClose
  BY <1>0, <1>6 DEF SaveClose, Sound
<1>7. CASE Kill
  <2>1. storage' \in Torn(storage) /\ records' = records
    BY <1>7 DEF Kill
  <2>2. CASE pc = "saving"
    BY <1>0, <1>2, <2>1, <2>2, TornIsRemnant DEF Sound
  <2>3. CASE pc # "saving"
    BY <1>0, <2>1, <2>3 DEF Torn, IInv, SaveInFlight, Sound
  <2> QED BY <2>2, <2>3
<1>8. CASE UNCHANGED vars
  BY <1>0, <1>8 DEF vars, Sound
<1> QED BY <1>0, <1>3, <1>4, <1>5, <1>6, <1>7, <1>8
        DEF Next, SaveWriteFails, StorageLost

\* With sound prices and no I/O fault the file can always be loaded, even after a
\* save that was cut inside a price: no RELOAD and no start dies on it.
THEOREM LoadableForever ==
  ASSUME SoundPrices
  PROVE  Spec => []AlwaysLoadable
<1>1. ASSUME Init PROVE Sound
  <2>1. records \in Seq(Record) /\ Len(records) = 0
    BY <1>1, EmptySeq DEF Init
  <2>2. DOMAIN records = {}
    BY <2>1
  <2> QED BY <1>1, <2>2 DEF SoundPrices, Init, Sound, Aggregable
<1>2. Sound => AlwaysLoadable
  BY DEF Sound, AlwaysLoadable
<1>3. IInv /\ IInv' /\ Sound /\ [Next]_vars => Sound'
  BY NextSound
<1> QED BY <1>1, <1>2, <1>3, InvariantIInv, PTL DEF Spec

-----------------------------------------------------------------------------
(* What the diagrams show *)

\* The eight cubes of one list roll up into each other (Cube::process and the
\* aggregators, each on its own).
LEMMA BuiltRollsUp ==
  ASSUME NEW rs \in Seq(Record), Aggregable(rs), cubes = BuildDiagrams(rs)
  PROVE  RollUpConsistent
<1> DEFINE full == cubes.full_cube
           Cells(dims, key) == {k \in DOMAIN full : Keys(dims, k) = key}
           Count(dims, key) ==
             SumFunction([k \in Cells(dims, key) |-> Len(full[k])])
           Total(dims, key) ==
             SumFunction([k \in Cells(dims, key) |-> Len(full[k]) * Stod[k[Price]]])
           PRange(dims, key) ==
             LET prices == {Stod[k[Price]] : k \in Cells(dims, key)}
             IN  [min_price |-> Min(prices), max_price |-> Max(prices)]
           Contents(dims, key) == [k \in Cells(dims, key) |-> Len(full[k])]
           One == [r \in Priced |-> 1]
<1>1. /\ rs \in Seq(Priced) /\ Priced \in SUBSET Record /\ PriceOf \in [Priced -> Int]
      /\ Range(rs) \subseteq Priced /\ One \in [Priced -> Int]
  BY PricedLists, RangeFinite
<1>2. DOMAIN full = Range(rs) /\ \A c \in Range(rs) : full[c] = GroupOf(AllDimensions, rs, c)
  BY FullCube
<1>3. \A dims, key : /\ GroupOf(dims, rs, key) \in Seq(Priced)
                     /\ Range(GroupOf(dims, rs, key)) = Cells(dims, key)
  BY <1>1, <1>2, GroupElements
<1>4. \A dims, key : Cells(dims, key) = {c \in Priced : Keys(dims, c) = key} \cap Range(rs)
  BY <1>1, <1>2
<1> HIDE DEF full
<1>5. \A k \in DOMAIN full : PriceOf[k] = Stod[k[Price]] /\ One[k] = 1 /\ Len(full[k]) \in Nat
  <2> TAKE k \in DOMAIN full
  <2>1. k \in Priced /\ full[k] \in Seq(Priced)
    BY <1>1, <1>2, <1>3
  <2> QED BY <2>1 DEF PriceOf
<1> HIDE DEF One
<1>6. ASSUME NEW dims, NEW key
      PROVE  RecordTotalPriceAggregator(GroupOf(dims, rs, key)) = Total(dims, key)
  <2>1. RecordTotalPriceAggregator(GroupOf(dims, rs, key)) = ListSum(PriceOf, GroupOf(dims, rs, key))
    BY <1>3, TotalIsListSum
  <2>2. ListSum(PriceOf, GroupOf(dims, rs, key)) = CellSum(PriceOf, rs, {c \in Priced : Keys(dims, c) = key})
    BY <1>1, GroupSum
  <2>3. [c \in Cells(dims, key) |-> Len(GroupOf(AllDimensions, rs, c)) * PriceOf[c]]
        = [k \in Cells(dims, key) |-> Len(full[k]) * Stod[k[Price]]]
    BY <1>2, <1>5
  <2> QED BY <1>4, <2>1, <2>2, <2>3 DEF CellSum
<1>7. ASSUME NEW dims, NEW key
      PROVE  RecordCountAggregator(GroupOf(dims, rs, key)) = Count(dims, key)
  <2>1. Len(GroupOf(dims, rs, key)) = ListSum(One, GroupOf(dims, rs, key))
    BY <1>3, SumOfOnes DEF One
  <2>2. ListSum(One, GroupOf(dims, rs, key)) = CellSum(One, rs, {c \in Priced : Keys(dims, c) = key})
    BY <1>1, GroupSum
  <2>3. [c \in Cells(dims, key) |-> Len(GroupOf(AllDimensions, rs, c)) * One[c]]
        = [k \in Cells(dims, key) |-> Len(full[k])]
    BY <1>2, <1>5
  <2> QED BY <1>4, <2>1, <2>2, <2>3 DEF CellSum, RecordCountAggregator
<1>8. ASSUME NEW dims, NEW key
      PROVE  RecordPriceRangeAggregator(GroupOf(dims, rs, key)) = PRange(dims, key)
  <2> DEFINE group == GroupOf(dims, rs, key)
  <2>1. {Stod[group[i][Price]] : i \in DOMAIN group} = {Stod[k[Price]] : k \in Range(group)}
    BY DEF Range
  <2> QED BY <1>3, <2>1 DEF RecordPriceRangeAggregator
<1>9. ASSUME NEW dims, NEW c \in Range(rs)
      PROVE  Copies(GroupOf(dims, rs, Keys(dims, c)), c) = Len(full[c])
  <2>1. c \in Priced /\ full[c] = GroupOf(AllDimensions, rs, c)
    BY <1>1, <1>2
  <2> QED BY <1>1, <2>1, GroupCount
<1>10. ASSUME NEW dims
       PROVE  /\ DOMAIN Groups(dims, rs) = {Keys(dims, k) : k \in DOMAIN full}
              /\ \A key \in DOMAIN Groups(dims, rs) : Groups(dims, rs)[key] = GroupOf(dims, rs, key)
  <2>1. KeysIn(dims, rs) = {Keys(dims, k) : k \in DOMAIN full}
    BY <1>2 DEF KeysIn
  <2> QED BY <2>1, GroupsAt
<1> HIDE DEF Total, Count, PRange, Contents
<1>11. ASSUME NEW dims
       PROVE  Process(dims, RecordTotalPriceAggregator, rs)
              = [key \in {Keys(dims, k) : k \in DOMAIN full} |-> Total(dims, key)]
  BY <1>6, <1>10 DEF Process
<1>12. ASSUME NEW dims
       PROVE  Process(dims, RecordCountAggregator, rs)
              = [key \in {Keys(dims, k) : k \in DOMAIN full} |-> Count(dims, key)]
  BY <1>7, <1>10 DEF Process
<1>13. ASSUME NEW dims
       PROVE  Process(dims, RecordPriceRangeAggregator, rs)
              = [key \in {Keys(dims, k) : k \in DOMAIN full} |-> PRange(dims, key)]
  BY <1>8, <1>10 DEF Process
<1> DEFINE lists == cubes.RECORDS_PER_DATA
           RollUp(dims, Measure(_, _)) ==
             [key \in {Keys(dims, k) : k \in DOMAIN full} |-> Measure(dims, key)]
<1>14. [key \in DOMAIN lists |->
           [r \in Range(lists[key]) |-> Cardinality({i \in DOMAIN lists[key] : lists[key][i] = r})]]
       = RollUp(<<Data>>, Contents)
  <2>0. lists = [key \in DOMAIN Groups(<<Data>>, rs) |-> Groups(<<Data>>, rs)[key]]
    BY DEF BuildDiagrams, Process, RecordDefaultAggregator
  <2>1. DOMAIN lists = {Keys(<<Data>>, k) : k \in DOMAIN full}
    BY <1>10, <2>0
  <2>2. \A key \in DOMAIN lists : lists[key] = GroupOf(<<Data>>, rs, key)
    BY <1>10, <2>0
  <2> HIDE DEF lists
  <2>3. ASSUME NEW key \in DOMAIN lists
        PROVE  [r \in Range(lists[key]) |-> Cardinality({i \in DOMAIN lists[key] : lists[key][i] = r})]
               = Contents(<<Data>>, key)
    <3>1. Range(lists[key]) = Cells(<<Data>>, key)
      BY <1>3, <2>2
    <3>2. ASSUME NEW r \in Cells(<<Data>>, key)
          PROVE  Cardinality({i \in DOMAIN lists[key] : lists[key][i] = r}) = Len(full[r])
      <4>1. key = Keys(<<Data>>, r) /\ r \in Range(rs) /\ lists[key] = GroupOf(<<Data>>, rs, key)
        BY <1>2, <2>2
      <4>2. Copies(lists[key], r) = Len(full[r])
        BY <1>9, <4>1
      <4> QED BY <4>2 DEF Copies
    <3> QED BY <3>1, <3>2 DEF Contents
  <2> QED BY <2>1, <2>3
<1>15. /\ cubes.TOTAL_PRICE_PER_DATA = RollUp(<<Data>>, Total)
       /\ cubes.COURIERS_REVENUE = RollUp(<<CourierId>>, Total)
       /\ cubes.PRODUCTS_COUNT = RollUp(<<ProductName>>, Count)
       /\ cubes.DELIVERIES_PER_DATA_AND_TIME = RollUp(<<Data, Time>>, Count)
       /\ cubes.DELIVERIES_PER_DISTANCE_AND_TIME = RollUp(<<Distance, Time>>, Count)
       /\ cubes.PRICE_RANGE_PER_DATA = RollUp(<<Data>>, PRange)
  BY <1>11, <1>12, <1>13 DEF BuildDiagrams
<1> QED
  BY <1>14, <1>15 DEF RollUpConsistent, full, Total, Count, PRange, Contents

\* The cubes that are built of a list that stod converts are of the measures' types.
LEMMA BuiltSorts ==
  ASSUME NEW rs \in Seq(Record), Aggregable(rs), cubes = BuildDiagrams(rs)
  PROVE  SortsDefined
<1>1. rs \in Seq(Priced) /\ PriceOf \in [Priced -> Int]
  BY PricedLists
<1>2. ASSUME NEW dims, NEW key \in DOMAIN Groups(dims, rs)
      PROVE  /\ Groups(dims, rs)[key] \in Seq(Priced)
             /\ Range(Groups(dims, rs)[key]) # {}
  <2>1. Groups(dims, rs)[key] = GroupOf(dims, rs, key) /\ key \in KeysIn(dims, rs)
    BY <1>2, GroupsAt
  <2>2. /\ GroupOf(dims, rs, key) \in Seq(Priced)
        /\ Range(GroupOf(dims, rs, key)) = {r \in Range(rs) : Keys(dims, r) = key}
    BY <1>1, GroupElements
  <2>3. \E r \in Range(rs) : Keys(dims, r) = key
    BY <2>1 DEF KeysIn
  <2> QED BY <2>1, <2>2, <2>3
<1>3. ASSUME NEW dims
      PROVE  \A k \in DOMAIN Process(dims, RecordTotalPriceAggregator, rs) :
               Process(dims, RecordTotalPriceAggregator, rs)[k] \in Int
  <2>1. \A k \in DOMAIN Groups(dims, rs) :
          RecordTotalPriceAggregator(Groups(dims, rs)[k]) \in Int
    BY <1>1, <1>2, TotalIsListSum, ListSumType
  <2> QED BY <2>1 DEF Process
<1>4. ASSUME NEW dims
      PROVE  \A k \in DOMAIN Process(dims, RecordCountAggregator, rs) :
               Process(dims, RecordCountAggregator, rs)[k] \in Int
  <2>1. \A k \in DOMAIN Groups(dims, rs) :
          RecordCountAggregator(Groups(dims, rs)[k]) \in Int
    BY <1>2 DEF RecordCountAggregator
  <2> QED BY <2>1 DEF Process
<1>5. ASSUME NEW dims
      PROVE  \A k \in DOMAIN Process(dims, RecordPriceRangeAggregator, rs) :
               Process(dims, RecordPriceRangeAggregator, rs)[k] \in PriceRange
  <2>1. \A k \in DOMAIN Groups(dims, rs) :
          RecordPriceRangeAggregator(Groups(dims, rs)[k]) \in PriceRange
    BY <1>2, RangeType
  <2> QED BY <2>1 DEF Process
<1> SUFFICES ASSUME NEW d \in DiagramType
             PROVE  SortDefined(d, cubes[d]) <=>
                      (d = "PRICE_RANGE_PER_DATA" => IsInjective(cubes[d]))
  BY DEF SortsDefined
<1>6. CASE d \in {"TOTAL_PRICE_PER_DATA", "COURIERS_REVENUE"}
  <2>1. \A k \in DOMAIN cubes[d] : cubes[d][k] \in Int
    BY <1>3, <1>6 DEF BuildDiagrams
  <2> QED BY <1>6, <2>1, NumbersSortable
<1>7. CASE d \in {"PRODUCTS_COUNT", "DELIVERIES_PER_DATA_AND_TIME",
                  "DELIVERIES_PER_DISTANCE_AND_TIME"}
  <2>1. \A k \in DOMAIN cubes[d] : cubes[d][k] \in Int
    BY <1>4, <1>7 DEF BuildDiagrams
  <2> QED BY <1>7, <2>1, NumbersSortable
<1>8. CASE d = "PRICE_RANGE_PER_DATA"
  <2>1. \A k \in DOMAIN cubes[d] : cubes[d][k] \in PriceRange
    BY <1>5, <1>8 DEF BuildDiagrams
  <2> QED BY <1>8, <2>1, RangesSortable
<1>9. CASE d = "RECORDS_PER_DATA"
  BY <1>9, ListsSortable
<1> QED BY <1>6, <1>7, <1>8, <1>9 DEF DiagramType

\* A slice is answered from the full cube, which only a reload changes.
SliceAnswered ==
  reply.status = "DATA" /\ OfType(reply.to, {"GET_SLICE"}) =>
    /\ \E S : reply.to.slice \in Seq(S)
    /\ reply.body = Slice(AllDimensions, cubes.full_cube, reply.to.slice)

\* A slice of the full cube of these records has the totals of their diagram.
LEMMA BuiltSliceMatches ==
  ASSUME NEW rs \in Seq(Record), Aggregable(rs), cubes = BuildDiagrams(rs), SliceAnswered
  PROVE  SliceMatchesDiagram
<1> DEFINE args == reply.to.slice
           totals == cubes.TOTAL_PRICE_PER_DATA
           full == cubes.full_cube
           days == {args[i][2] : i \in DOMAIN args}
           keys == {<<day>> : day \in days}
           cells == {c \in Priced : Keys(<<Data>>, c) \in keys}
<1> SUFFICES ASSUME reply.status = "DATA", OfType(reply.to, {"GET_SLICE"}),
                    args # << >>, \A i \in DOMAIN args : args[i][1] = Data
             PROVE  SumFunction([k \in DOMAIN reply.body |-> Len(reply.body[k]) * Stod[k[Price]]])
                    = SumFunction([key \in {key \in DOMAIN totals : key[1] \in days} |-> totals[key]])
  BY DEF SliceMatchesDiagram
<1>1. /\ rs \in Seq(Priced) /\ Priced \in SUBSET Record /\ PriceOf \in [Priced -> Int]
      /\ Range(rs) \subseteq Priced
  BY PricedLists, RangeFinite
<1>2. full = [c \in Range(rs) |-> GroupOf(AllDimensions, rs, c)]
  BY FullCube
<1>3. PICK S : args \in Seq(S)
  BY DEF SliceAnswered
<1>4. DOMAIN args # {}
  <2>1. Len(args) # 0 /\ Len(args) \in Nat /\ DOMAIN args = 1..Len(args)
    BY <1>3, EmptySeq
  <2>2. 1 \in 1..Len(args)
    BY <2>1
  <2> QED BY <2>1, <2>2
<1>5. Min({i \in DOMAIN AllDimensions : AllDimensions[i] = Data}) = Data
  <2>1. {i \in DOMAIN AllDimensions : AllDimensions[i] = Data} = {Data}
    BY DEF AllDimensions, Data, Dimension, NF
  <2> QED BY <2>1 DEF Min, Data
<1>6. reply.body = [k \in {k \in Range(rs) : k[Data] \in days} |-> full[k]]
  <2>1. {args[i][1] : i \in DOMAIN args} = {Data}
    BY <1>4
  <2>2. {args[i][2] : i \in {j \in DOMAIN args : args[j][1] = Data}} = days
    OBVIOUS
  <2>3. DOMAIN full = Range(rs)
    BY <1>2
  <2>4. reply.body = Slice(AllDimensions, full, args)
    BY DEF SliceAnswered
  <2> HIDE DEF args, full, days
  <2>5. {k \in DOMAIN full : \A d \in {args[i][1] : i \in DOMAIN args} :
            k[Min({i \in DOMAIN AllDimensions : AllDimensions[i] = d})] \in
              {args[i][2] : i \in {j \in DOMAIN args : args[j][1] = d}}}
        = {k \in Range(rs) : k[Data] \in days}
    BY <1>5, <2>1, <2>2, <2>3
  <2> QED BY <2>4, <2>5 DEF Slice, Restrict
<1>7. \A r : Keys(<<Data>>, r) = <<r[Data]>>
  BY DEF Keys
<1>8. \A r : Keys(<<Data>>, r) \in keys <=> r[Data] \in days
  <2> HIDE DEF days
  <2> QED BY <1>7
<1>9. SumFunction([k \in DOMAIN reply.body |-> Len(reply.body[k]) * Stod[k[Price]]])
      = CellSum(PriceOf, rs, cells)
  <2> HIDE DEF args, full, keys, days
  <2>1. DOMAIN reply.body = cells \cap Range(rs)
    BY <1>1, <1>6, <1>8
  <2>2. \A k \in DOMAIN reply.body :
          Len(reply.body[k]) * Stod[k[Price]] = Len(GroupOf(AllDimensions, rs, k)) * PriceOf[k]
    <3> TAKE k \in DOMAIN reply.body
    <3>1. k \in Range(rs) /\ k \in Priced
      BY <1>1, <2>1
    <3>2. reply.body[k] = GroupOf(AllDimensions, rs, k)
      BY <1>2, <1>6, <3>1
    <3>3. PriceOf[k] = Stod[k[Price]]
      BY <3>1 DEF PriceOf
    <3> QED BY <3>2, <3>3
  <2> HIDE DEF cells
  <2> QED BY <2>1, <2>2 DEF CellSum
<1>10. SumFunction([key \in {key \in DOMAIN totals : key[1] \in days} |-> totals[key]])
       = KeySum(PriceOf, <<Data>>, rs, keys)
  <2>1. totals = [k \in DOMAIN Groups(<<Data>>, rs) |->
                    RecordTotalPriceAggregator(Groups(<<Data>>, rs)[k])]
    BY DEF BuildDiagrams, Process
  <2> HIDE DEF args, totals, days, keys
  <2>2. DOMAIN totals = {Keys(<<Data>>, r) : r \in Range(rs)}
    BY <2>1, GroupsAt DEF KeysIn
  <2>3. \A key \in DOMAIN totals : totals[key] = ListSum(PriceOf, GroupOf(<<Data>>, rs, key))
    BY <1>1, <2>1, GroupsAt, GroupElements, TotalIsListSum
  <2>4. {key \in DOMAIN totals : key[1] \in days} = keys \cap {Keys(<<Data>>, r) : r \in Range(rs)}
    <3>1. \A r : Keys(<<Data>>, r)[1] = r[Data]
      <4> TAKE r
      <4>1. Keys(<<Data>>, r) = <<r[Data]>>
        BY <1>7
      <4> QED BY <4>1
    <3>2. \A key \in DOMAIN totals : key[1] \in days <=> key \in keys
      BY <1>8, <2>2, <3>1
    <3> QED BY <2>2, <3>2
  <2> QED BY <2>2, <2>3, <2>4 DEF KeySum
<1>11. KeySum(PriceOf, <<Data>>, rs, keys) = CellSum(PriceOf, rs, cells)
  <2> HIDE DEF keys
  <2> QED BY <1>1, KeySumIsCellSum
<1> QED BY <1>9, <1>10, <1>11

\* The cubes are always those of some list, all of whose prices were numbers.
CubesBuilt ==
  \E rs \in Seq(Record) : Aggregable(rs) /\ cubes = BuildDiagrams(rs)

\* No price is no number.
LEMMA NothingBuilt == Aggregable(<< >>)
BY DEF Aggregable

\* A request that is not answered with a slice.
LEMMA NoSlice ==
  ASSUME NEW req, NEW status, NEW body, ReplyWith(req, status, body),
         status # "DATA" \/ ~OfType(req, {"GET_SLICE"})
  PROVE  SliceAnswered'
BY DEF ReplyWith, SliceAnswered, OfType, Has

\* What is loaded is what is shown.
LEMMA LoadCubes ==
  ASSUME IInv, LoadStorage
  PROVE  CubesBuilt'
<1>1. storage \in Seq(Token) /\ Aggregable(ReadAll(storage))
  BY DEF IInv, TypeOK, LoadStorage, Loadable
<1>2. ReadAll(storage) \in Seq(Record)
  BY <1>1, ReadAllType
<1> QED BY <1>1, <1>2 DEF LoadStorage, CubesBuilt

\* Whatever the request, the cubes stay those of some records, and a slice is of those cubes.
LEMMA HandleRequestCubes ==
  ASSUME IInv, CubesBuilt, NEW req \in Request, HandleRequest(req)
  PROVE  CubesBuilt' /\ SliceAnswered'
<1>0. ASSUME UNCHANGED cubes PROVE CubesBuilt'
  BY <1>0 DEF CubesBuilt
<1>1. CASE Reject(req)
  <2>1. PICK why : Refuse(req, why)
    BY <1>1 DEF Reject, RefuseMessage
  <2> QED BY <1>0, <2>1, NoSlice DEF Refuse
<1>2. CASE Abort(req)
  BY <1>0, <1>2, NoSlice DEF Abort
<1>3. CASE Reload(req)
  BY <1>3, LoadCubes, NoSlice DEF Reload
<1>4. CASE AddRecord(req)
  BY <1>0, <1>4, NoSlice DEF AddRecord
<1>5. CASE RemoveRecord(req)
  BY <1>0, <1>5, NoSlice DEF RemoveRecord
<1>6. CASE GetRecords(req)
  BY <1>0, <1>6, NoSlice DEF GetRecords, OfType
<1>7. CASE GetSlice(req)
  <2> DEFINE S == {Mistyped} \cup (Nat \X Token)
  <2>1. req.slice \in Seq(S)
    BY <1>7, RequestAssumption DEF RequestAssumption, GetSlice, GivesSlice, Has
  <2>2. /\ UNCHANGED cubes
        /\ reply' = [to |-> req, status |-> "DATA",
                     body |-> Slice(AllDimensions, cubes.full_cube, req.slice)]
    BY <1>7 DEF GetSlice, ReplyWith
  <2> HIDE DEF S
  <2>3. SliceAnswered'
    BY <2>1, <2>2 DEF SliceAnswered
  <2> QED BY <1>0, <2>2, <2>3
<1>8. CASE GetDiagram(req)
  BY <1>0, <1>8, NoSlice DEF GetDiagram, OfType
<1>9. CASE SaveOpen(req)
  BY <1>0, <1>9, NoSlice DEF SaveOpen
<1>10. CASE SaveOpenFails(req)
  BY <1>0, <1>10, NoSlice DEF SaveOpenFails
<1> QED BY <1>1, <1>2, <1>3, <1>4, <1>5, <1>6, <1>7, <1>8, <1>9, <1>10
        DEF HandleRequest

\* Every step leaves cubes of some records, and slices of those cubes.
LEMMA NextCubes ==
  IInv /\ CubesBuilt /\ SliceAnswered /\ [Next]_vars => CubesBuilt' /\ SliceAnswered'
<1> SUFFICES ASSUME IInv, CubesBuilt, SliceAnswered, [Next]_vars
             PROVE  CubesBuilt' /\ SliceAnswered'
  OBVIOUS
<1>1. CASE Start
  BY <1>1, LoadCubes, NoSlice DEF Start
<1>2. CASE \E req \in Request : HandleRequest(req)
  BY <1>2, HandleRequestCubes
<1>3. CASE UNCHANGED <<cubes, reply>>
  BY <1>3 DEF CubesBuilt, SliceAnswered, OfType, Has
<1>4. CASE SaveFlush \/ Kill \/ StorageLost \/ UNCHANGED vars
  BY <1>3, <1>4 DEF SaveFlush, Kill, StorageLost, vars
<1>5. CASE SaveClose \/ SaveWriteFails
  <2>1. UNCHANGED cubes /\ reply' = [reply EXCEPT !.status = "OK"]
    BY <1>5 DEF SaveClose, SaveWriteFails
  <2>2. reply'.status = "OK"
    BY <2>1 DEF IInv, TypeOK
  <2> QED BY <2>1, <2>2 DEF CubesBuilt, SliceAnswered
<1> QED BY <1>1, <1>2, <1>4, <1>5 DEF Next

\* In every state the cubes are those of some records, and a slice sent is of them.
LEMMA InvariantCubes == Spec => [](CubesBuilt /\ SliceAnswered)
<1>1. ASSUME Init PROVE CubesBuilt /\ SliceAnswered
  <2>1. << >> \in Seq(Record) /\ cubes = BuildDiagrams(<< >>)
    BY <1>1, EmptySeq DEF Init
  <2>2. reply.status # "DATA"
    BY <1>1 DEF Init
  <2> QED BY <2>1, <2>2, NothingBuilt DEF CubesBuilt, SliceAnswered
<1> QED BY <1>1, NextCubes, InvariantIInv, PTL DEF Spec

\* Every diagram is the full cube rolled up, of whatever list the cubes were built
\* and however large it is: GET_DIAGRAM and GET_SLICE cannot disagree.
THEOREM DiagramsRollUp == Spec => []RollUpConsistent
<1>1. CubesBuilt => RollUpConsistent
  BY BuiltRollsUp DEF CubesBuilt
<1> QED BY <1>1, InvariantCubes, PTL

\* A slice by days adds up to what the price diagram shows for the days, for any
\* list and any slice of days.
THEOREM SlicesMatch == Spec => []SliceMatchesDiagram
<1>1. CubesBuilt /\ SliceAnswered => SliceMatchesDiagram
  BY BuiltSliceMatches DEF CubesBuilt
<1> QED BY <1>1, InvariantCubes, PTL

\* Of the diagrams that the service holds, std::sort can order each one but price
\* ranges of which two are equal.
THEOREM DiagramsSortable == Spec => []SortsDefined
<1>1. CubesBuilt => SortsDefined
  BY BuiltSorts DEF CubesBuilt
<1> QED BY <1>1, InvariantCubes, PTL

=============================================================================
