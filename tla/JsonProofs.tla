----------------------------- MODULE JsonProofs -----------------------------
(***************************************************************************)
(* What becomes of a node that operator<< or json.dumps has written and    *)
(* Load, or json.loads, reads.                                             *)
(***************************************************************************)
EXTENDS Json, SequenceTheorems, WellFoundedInduction, TLAPS

-----------------------------------------------------------------------------
(* Induction, on sets that stand for what is to be shown *)

\* Induction on the naturals, for a set of them.
LEMMA UpwardInduction ==
  ASSUME NEW N \in SUBSET Nat, 0 \in N, \A n \in N : n + 1 \in N
  PROVE  N = Nat
<1> DEFINE Missing == Nat \ N
<1> SUFFICES ASSUME Missing # {} PROVE FALSE
  OBVIOUS
<1>1. Missing \subseteq Nat
  OBVIOUS
<1>2. \E m \in Missing : \A n \in Missing : ~(<<n, m>> \in OpToRel(<, Nat))
  <2> HIDE DEF Missing
  <2> QED BY <1>1, NatLessThanWellFounded, WFMin
<1>3. PICK m \in Missing : \A n \in Missing : ~(n < m)
  BY <1>2 DEF OpToRel
<1>4. m - 1 \in N /\ m = (m - 1) + 1
  BY <1>3
<1> QED BY <1>4

\* Induction on the naturals from all that are less.
LEMMA StrongInduction ==
  ASSUME NEW N \in SUBSET Nat, \A n \in Nat : (\A m \in 0..(n - 1) : m \in N) => n \in N
  PROVE  N = Nat
<1> DEFINE Below == {n \in Nat : \A m \in 0..(n - 1) : m \in N}
<1>1. 0 \in Below
  OBVIOUS
<1>2. ASSUME NEW n \in Below PROVE n + 1 \in Below
  <2>1. \A m \in 0..((n + 1) - 1) : m \in 0..(n - 1) \/ m = n
    OBVIOUS
  <2> QED BY <2>1
<1>3. Below = Nat
  <2>1. Below \in SUBSET Nat
    OBVIOUS
  <2> HIDE DEF Below
  <2> QED BY <1>1, <1>2, <2>1, UpwardInduction
<1> QED BY <1>3

\* Induction on lists that grow at their end, for a set of them.
LEMMA GrowingInduction ==
  ASSUME NEW S, NEW G \in SUBSET Seq(S), << >> \in G,
         \A s \in G, e \in S : Append(s, e) \in G
  PROVE  G = Seq(S)
<1> DEFINE N == {n \in Nat : \A s \in Seq(S) : Len(s) = n => s \in G}
<1>1. 0 \in N
  BY EmptySeq
<1>2. ASSUME NEW n \in N PROVE n + 1 \in N
  <2> SUFFICES ASSUME NEW s \in Seq(S), Len(s) = n + 1 PROVE s \in G
    OBVIOUS
  <2>1. s # << >>
    BY EmptySeq
  <2>2. PICK t \in Seq(S), e \in S : s = Append(t, e)
    BY <2>1, SequenceEmptyOrAppend
  <2>3. Len(t) = n
    BY <2>2, AppendProperties
  <2> QED BY <2>2, <2>3
<1>3. N = Nat
  <2>1. N \in SUBSET Nat
    OBVIOUS
  <2> HIDE DEF N
  <2> QED BY <1>1, <1>2, <2>1, UpwardInduction
<1> QED BY <1>3, LenProperties

-----------------------------------------------------------------------------
(* Texts put together from parts *)

\* The recursion that defines FlattenSeq, up to part N.
FlatTable(parts, g, N) ==
  g = [i \in 1..N |-> IF i = 1 THEN parts[i] ELSE g[i - 1] \o parts[i]]

\* The recursion has a solution
LEMMA FlatTables == \A N \in Nat : \A parts : \E g : FlatTable(parts, g, N)
<1> SUFFICES ASSUME NEW parts PROVE \A N \in Nat : \E g : FlatTable(parts, g, N)
  OBVIOUS
<1> DEFINE G == {N \in Nat : \E g : FlatTable(parts, g, N)}
<1>1. 0 \in G
  <2>1. FlatTable(parts, [i \in 1..0 |-> << >>], 0)
    BY DEF FlatTable
  <2> QED BY <2>1
<1>2. ASSUME NEW N \in G PROVE N + 1 \in G
  <2>1. PICK g : FlatTable(parts, g, N)
    OBVIOUS
  <2> DEFINE h == [i \in 1..(N + 1) |-> IF i = 1 THEN parts[i] ELSE g[i - 1] \o parts[i]]
  <2>2. ASSUME NEW i \in 1..N PROVE h[i] = g[i]
    <3>1. i \in 1..(N + 1)
      OBVIOUS
    <3> QED BY <2>1, <3>1 DEF FlatTable
  <2>3. \A i \in 1..(N + 1) : i # 1 => h[i - 1] = g[i - 1]
    <3> SUFFICES ASSUME NEW i \in 1..(N + 1), i # 1 PROVE h[i - 1] = g[i - 1]
      OBVIOUS
    <3>1. i - 1 \in 1..N
      OBVIOUS
    <3> HIDE DEF h
    <3> QED BY <2>2, <3>1
  <2>4. FlatTable(parts, h, N + 1)
    BY <2>3 DEF FlatTable
  <2> QED BY <2>4
<1>3. G = Nat
  <2>1. G \in SUBSET Nat
    OBVIOUS
  <2> HIDE DEF G
  <2> QED BY <1>1, <1>2, <2>1, UpwardInduction
<1> QED BY <1>3

\* for lists that begin alike the same as far as they do.
LEMMA FlatTablesAgree ==
  ASSUME NEW s, NEW t, NEW g, NEW h, NEW N \in Nat, NEW M \in Nat, N <= M,
         FlatTable(s, g, N), FlatTable(t, h, M), \A i \in 1..N : s[i] = t[i]
  PROVE  \A i \in 1..N : g[i] = h[i]
<1> DEFINE G == {k \in Nat : k >= 1 /\ k <= N => g[k] = h[k]}
<1>1. 0 \in G
  OBVIOUS
<1>2. ASSUME NEW k \in G PROVE k + 1 \in G
  <2> SUFFICES ASSUME k + 1 <= N PROVE g[k + 1] = h[k + 1]
    OBVIOUS
  <2>1. k + 1 \in 1..N /\ k + 1 \in 1..M /\ (k + 1) - 1 = k /\ s[k + 1] = t[k + 1]
    OBVIOUS
  <2>2. CASE k = 0
    BY <2>1, <2>2 DEF FlatTable
  <2>3. CASE k # 0
    <3>1. g[k] = h[k]
      BY <2>1, <2>3
    <3>2. /\ g[k + 1] = IF k + 1 = 1 THEN s[k + 1] ELSE g[(k + 1) - 1] \o s[k + 1]
          /\ h[k + 1] = IF k + 1 = 1 THEN t[k + 1] ELSE h[(k + 1) - 1] \o t[k + 1]
      BY <2>1 DEF FlatTable
    <3>3. k + 1 # 1
      BY <2>3
    <3>4. g[k + 1] = g[k] \o s[k + 1] /\ h[k + 1] = h[k] \o t[k + 1]
      BY <2>1, <3>2, <3>3
    <3> QED BY <2>1, <3>1, <3>4
  <2> QED BY <2>2, <2>3
<1>3. G = Nat
  <2>1. G \in SUBSET Nat
    OBVIOUS
  <2> HIDE DEF G
  <2> QED BY <1>1, <1>2, <2>1, UpwardInduction
<1> QED BY <1>3

\* FlattenSeq is the last entry of a solution.
LEMMA FlattenSolves ==
  ASSUME NEW parts, Len(parts) \in Nat, Len(parts) # 0
  PROVE  \E g : FlatTable(parts, g, Len(parts)) /\ FlattenSeq(parts) = g[Len(parts)]
<1> DEFINE g == CHOOSE h : FlatTable(parts, h, Len(parts))
<1>1. FlatTable(parts, g, Len(parts))
  BY FlatTables
<1>2. FlattenSeq(parts) = g[Len(parts)]
  BY DEF FlattenSeq, FlatTable
<1> QED BY <1>1, <1>2

\* A part more is put at the end.
LEMMA FlattenAppend ==
  ASSUME NEW S, NEW parts \in Seq(Seq(S)), NEW part \in Seq(S)
  PROVE  FlattenSeq(Append(parts, part)) =
           IF parts = << >> THEN part ELSE FlattenSeq(parts) \o part
<1> DEFINE n == Len(parts)
           more == Append(parts, part)
<1>1. /\ n \in Nat /\ more \in Seq(Seq(S)) /\ Len(more) = n + 1
      /\ \A i \in 1..n : more[i] = parts[i]
      /\ more[n + 1] = part
  BY AppendProperties
<1> HIDE DEF more
<1>2. PICK h : FlatTable(more, h, n + 1) /\ FlattenSeq(more) = h[n + 1]
  BY <1>1, FlattenSolves
<1>3. h[n + 1] = IF n + 1 = 1 THEN more[n + 1] ELSE h[(n + 1) - 1] \o more[n + 1]
  <2>1. n + 1 \in 1..(n + 1)
    BY <1>1
  <2> QED BY <1>2, <2>1 DEF FlatTable
<1>4. CASE parts = << >>
  BY <1>1, <1>2, <1>3, <1>4 DEF more
<1>5. CASE parts # << >>
  <2>1. n # 0
    BY <1>5, EmptySeq
  <2>2. PICK g : FlatTable(parts, g, n) /\ FlattenSeq(parts) = g[n]
    BY <1>1, <2>1, FlattenSolves
  <2>3. g[n] = h[n]
    <3>1. n \in Nat /\ \A i \in 1..n : parts[i] = more[i]
      BY <1>1
    <3> HIDE DEF n
    <3>2. n + 1 \in Nat /\ n <= n + 1 /\ n \in 1..n
      BY <2>1, <3>1
    <3>3. \A i \in 1..n : g[i] = h[i]
      BY <1>2, <2>2, <3>1, <3>2, FlatTablesAgree
    <3> QED BY <3>2, <3>3
  <2>4. n + 1 # 1 /\ (n + 1) - 1 = n
    BY <1>1, <2>1
  <2> QED BY <1>1, <1>2, <1>3, <1>5, <2>2, <2>3, <2>4 DEF more
<1> QED BY <1>4, <1>5

Spelt == [Char -> Seq(Char)]

\* A text is spelled a character at a time.
LEMMA RespelledAppend ==
  ASSUME NEW spelling \in Spelt
  PROVE  /\ Respelled(<< >>, spelling) = << >>
         /\ \A s \in Seq(Char), c \in Char :
              Respelled(s, spelling) \in Seq(Char) =>
                Respelled(Append(s, c), spelling) = Respelled(s, spelling) \o spelling[c]
<1> DEFINE parts(s) == [i \in DOMAIN s |-> spelling[s[i]]]
<1>1. Respelled(<< >>, spelling) = << >>
  <2>1. parts(<< >>) = << >> /\ Len(<< >>) = 0
    OBVIOUS
  <2> QED BY <2>1 DEF Respelled, FlattenSeq
<1>2. ASSUME NEW s \in Seq(Char), NEW c \in Char, Respelled(s, spelling) \in Seq(Char)
      PROVE  Respelled(Append(s, c), spelling) = Respelled(s, spelling) \o spelling[c]
  <2>1. /\ Append(s, c) \in Seq(Char) /\ Len(Append(s, c)) = Len(s) + 1
        /\ \A i \in 1..Len(s) : Append(s, c)[i] = s[i]
        /\ Append(s, c)[Len(s) + 1] = c
    BY AppendProperties
  <2>2. spelling[c] \in Seq(Char)
    BY DEF Spelt
  <2>3. parts(s) \in Seq(Seq(Char)) /\ Len(parts(s)) = Len(s)
    <3>1. \A i \in 1..Len(s) : spelling[s[i]] \in Seq(Char)
      BY DEF Spelt
    <3>2. parts(s) = [i \in 1..Len(s) |-> spelling[s[i]]]
      OBVIOUS
    <3> QED BY <3>1, <3>2
  <2>4. parts(Append(s, c)) = Append(parts(s), spelling[c])
    <3>1. /\ parts(Append(s, c)) \in Seq(Seq(Char))
          /\ Len(parts(Append(s, c))) = Len(s) + 1
          /\ \A i \in 1..(Len(s) + 1) : parts(Append(s, c))[i] = spelling[Append(s, c)[i]]
      <4> DEFINE t == Append(s, c)
      <4> HIDE DEF t
      <4>1. t \in Seq(Char) => parts(t) \in Seq(Seq(Char)) /\ Len(parts(t)) = Len(t)
                               /\ \A i \in 1..Len(t) : parts(t)[i] = spelling[t[i]]
        <5> SUFFICES ASSUME t \in Seq(Char)
                     PROVE  /\ parts(t) \in Seq(Seq(Char)) /\ Len(parts(t)) = Len(t)
                            /\ \A i \in 1..Len(t) : parts(t)[i] = spelling[t[i]]
          OBVIOUS
        <5>1. \A i \in 1..Len(t) : spelling[t[i]] \in Seq(Char)
          BY DEF Spelt
        <5>2. parts(t) = [i \in 1..Len(t) |-> spelling[t[i]]]
          OBVIOUS
        <5> QED BY <5>1, <5>2
      <4> QED BY <2>1, <4>1 DEF t
    <3>2. /\ Append(parts(s), spelling[c]) \in Seq(Seq(Char))
          /\ Len(Append(parts(s), spelling[c])) = Len(s) + 1
          /\ \A i \in 1..Len(s) : Append(parts(s), spelling[c])[i] = parts(s)[i]
          /\ Append(parts(s), spelling[c])[Len(s) + 1] = spelling[c]
      <4> HIDE DEF parts
      <4> QED BY <2>2, <2>3, AppendProperties
    <3>3. \A i \in 1..Len(s) : parts(s)[i] = spelling[s[i]] /\ i \in 1..(Len(s) + 1)
      OBVIOUS
    <3>4. ASSUME NEW i \in 1..(Len(s) + 1)
          PROVE  parts(Append(s, c))[i] = Append(parts(s), spelling[c])[i]
      <4>1. CASE i \in 1..Len(s)
        <5> HIDE DEF parts
        <5> QED BY <2>1, <3>1, <3>2, <3>3, <4>1
      <4>2. CASE i = Len(s) + 1
        <5> HIDE DEF parts
        <5> QED BY <2>1, <3>1, <3>2, <4>2
      <4> QED BY <4>1, <4>2
    <3> HIDE DEF parts
    <3> QED BY <3>1, <3>2, <3>4, SeqEqual
  <2>5. /\ Respelled(s, spelling) = FlattenSeq(parts(s))
        /\ Respelled(Append(s, c), spelling) = FlattenSeq(parts(Append(s, c)))
    BY DEF Respelled
  <2> HIDE DEF parts
  <2>6. CASE s = << >>
    <3>1. parts(s) = << >>
      BY <2>3, <2>6, EmptySeq
    <3>2. Respelled(Append(s, c), spelling) = spelling[c]
      BY <2>2, <2>3, <2>4, <2>5, <3>1, FlattenAppend
    <3> QED BY <1>1, <2>2, <2>6, <3>2, ConcatEmptySeq
  <2>7. CASE s # << >>
    <3>1. parts(s) # << >>
      BY <2>3, <2>7, EmptySeq
    <3> QED BY <2>2, <2>3, <2>4, <2>5, <3>1, FlattenAppend
  <2> QED BY <2>6, <2>7
<1> QED BY <1>1, <1>2

-----------------------------------------------------------------------------
(* LoadString *)

Start == [taken |-> 0, open |-> TRUE, slash |-> FALSE, line |-> << >>]

\* Inside a string, after n characters that have given this line, on an open backslash
\* or not; and behind its closing quote.
Clean(n, line)   == [taken |-> n, open |-> TRUE, slash |-> FALSE, line |-> line]
Slashed(n, line) == [taken |-> n, open |-> TRUE, slash |-> TRUE, line |-> line]
Closed(n, line)  == [taken |-> n, open |-> FALSE, slash |-> FALSE, line |-> line]

LoopTable(text, g, N) ==
  g = [k \in 0..N |-> IF k = 0 THEN Start ELSE StringStep(g[k - 1], text[k])]

\* The loop over a text goes from one character to the next.
LEMMA LoopRuns ==
  ASSUME NEW text \in Seq(Char)
  PROVE  /\ StringLoop(text)[0] = Start
         /\ \A k \in 1..Len(text) :
              StringLoop(text)[k] = StringStep(StringLoop(text)[k - 1], text[k])
<1> DEFINE G == {N \in Nat : \E g : LoopTable(text, g, N)}
<1>1. 0 \in G
  <2>1. LoopTable(text, [k \in 0..0 |-> Start], 0)
    BY DEF LoopTable
  <2> QED BY <2>1
<1>2. ASSUME NEW N \in G PROVE N + 1 \in G
  <2>1. PICK g : LoopTable(text, g, N)
    OBVIOUS
  <2> DEFINE h == [k \in 0..(N + 1) |-> IF k = 0 THEN Start
                                                 ELSE StringStep(g[k - 1], text[k])]
  <2>2. ASSUME NEW k \in 0..N PROVE h[k] = g[k]
    <3>1. k \in 0..(N + 1)
      OBVIOUS
    <3> QED BY <2>1, <3>1 DEF LoopTable
  <2>3. \A k \in 0..(N + 1) : k # 0 => h[k - 1] = g[k - 1]
    <3> SUFFICES ASSUME NEW k \in 0..(N + 1), k # 0 PROVE h[k - 1] = g[k - 1]
      OBVIOUS
    <3>1. k - 1 \in 0..N
      OBVIOUS
    <3> HIDE DEF h
    <3> QED BY <2>2, <3>1
  <2>4. LoopTable(text, h, N + 1)
    BY <2>3 DEF LoopTable
  <2> QED BY <2>4
<1>3. G = Nat
  <2>1. G \in SUBSET Nat
    OBVIOUS
  <2> HIDE DEF G
  <2> QED BY <1>1, <1>2, <2>1, UpwardInduction
<1>4. Len(text) \in Nat
  OBVIOUS
<1>5. StringLoop(text) = CHOOSE g : LoopTable(text, g, Len(text))
  BY DEF StringLoop, LoopTable, Start
<1>6. LoopTable(text, StringLoop(text), Len(text))
  <2>1. \E g : LoopTable(text, g, Len(text))
    BY <1>3, <1>4
  <2> QED BY <1>5, <2>1
<1> DEFINE loop == StringLoop(text)
<1> HIDE DEF loop
<1>7. /\ loop[0] = Start
      /\ \A k \in 1..Len(text) : loop[k] = StringStep(loop[k - 1], text[k])
  <2>1. LoopTable(text, loop, Len(text))
    BY <1>6 DEF loop
  <2>2. 0 \in 0..Len(text) /\ \A k \in 1..Len(text) : k \in 0..Len(text) /\ k # 0
    BY <1>4
  <2> QED BY <2>1, <2>2 DEF LoopTable
<1> QED BY <1>7 DEF loop

\* What one character does: another than a quote and a backslash is taken, with a
\* backslash before it or not; those two are taken after a backslash.
LEMMA StringSteps ==
  ASSUME NEW c \in Char, NEW n \in Nat, NEW line \in Seq(Char)
  PROVE  /\ c \notin {"\"", "\\"} => StringStep(Clean(n, line), c) = Clean(n + 1, Append(line, c))
         /\ StringStep(Slashed(n, line), c) = Clean(n + 1, Append(line, c))
         /\ StringStep(Clean(n, line), "\\") = Slashed(n + 1, line)
         /\ StringStep(Clean(n, line), "\"") = Closed(n + 1, line)
         /\ StringStep(Closed(n, line), c) = Closed(n, line)
<1>1. "\"" # "\\"
  OBVIOUS
<1> QED BY <1>1 DEF StringStep, Clean, Slashed, Closed

\* These characters lead the loop from one state to another.
Leads(from, word, to) ==
  \/ Len(word) = 1 /\ StringStep(from, word[1]) = to
  \/ Len(word) = 2 /\ StringStep(StringStep(from, word[1]), word[2]) = to
  \/ /\ Len(word) = 3
     /\ StringStep(StringStep(StringStep(from, word[1]), word[2]), word[3]) = to

\* LoadString makes kept[c] of what c is spelled as, wherever it stands in a string.
ReadAs(spelling, kept) ==
  /\ spelling \in Spelt /\ kept \in Spelt
  /\ \A c \in Char, n \in Nat, line \in Seq(Char) :
       Leads(Clean(n, line), spelling[c],
             Clean(n + Len(spelling[c]), line \o kept[c]))

\* A character alone, one after a backslash, and one more after that.
LEMMA LeadsTo ==
  ASSUME NEW n \in Nat, NEW line \in Seq(Char), NEW a \in Char, NEW b \in Char,
         "\\" \in Char
  PROVE  /\ a \notin {"\"", "\\"} =>
              Leads(Clean(n, line), <<a>>, Clean(n + Len(<<a>>), line \o <<a>>))
         /\ Leads(Clean(n, line), <<"\\", a>>,
                  Clean(n + Len(<<"\\", a>>), line \o <<a>>))
         /\ b \notin {"\"", "\\"} =>
              Leads(Clean(n, line), <<"\\", a, b>>,
                    Clean(n + Len(<<"\\", a, b>>), line \o <<a, b>>))
<1>1. Append(line, a) \in Seq(Char) /\ line \o <<a>> = Append(line, a)
  OBVIOUS
<1>2. line \o <<a, b>> = Append(Append(line, a), b)
  <2>1. <<a>> \in Seq(Char) /\ <<b>> \in Seq(Char) /\ <<a, b>> = <<a>> \o <<b>>
    <3>1. <<a>> \in Seq(Char) /\ <<b>> \in Seq(Char) /\ <<a, b>> \in Seq(Char)
      OBVIOUS
    <3>2. /\ <<a>> \o <<b>> \in Seq(Char)
          /\ Len(<<a>> \o <<b>>) = 2
          /\ (<<a>> \o <<b>>)[1] = a /\ (<<a>> \o <<b>>)[2] = b
      BY <3>1
    <3>3. \A i \in 1..2 : i = 1 \/ i = 2
      OBVIOUS
    <3>4. Len(<<a, b>>) = 2 /\ <<a, b>>[1] = a /\ <<a, b>>[2] = b
      OBVIOUS
    <3>5. \A i \in 1..2 : <<a, b>>[i] = (<<a>> \o <<b>>)[i]
      BY <3>2, <3>3, <3>4
    <3> QED BY <3>1, <3>2, <3>4, <3>5, SeqEqual
  <2>2. line \o <<a, b>> = (line \o <<a>>) \o <<b>>
    BY <2>1, ConcatAssociative
  <2>3. Append(line, a) \o <<b>> = Append(Append(line, a), b)
    BY <1>1
  <2> QED BY <1>1, <2>2, <2>3
<1>3. n + 1 \in Nat /\ n + 2 \in Nat /\ (n + 1) + 1 = n + 2 /\ (n + 2) + 1 = n + 3
  OBVIOUS
<1>4. StringStep(Clean(n, line), "\\") = Slashed(n + 1, line)
  BY StringSteps
<1>5. StringStep(Slashed(n + 1, line), a) = Clean(n + 2, Append(line, a))
  <2> DEFINE m == n + 1
  <2>1. m \in Nat /\ m + 1 = n + 2
    OBVIOUS
  <2> HIDE DEF m
  <2>2. StringStep(Slashed(m, line), a) = Clean(m + 1, Append(line, a))
    BY <2>1, StringSteps
  <2> QED BY <2>1, <2>2 DEF m
<1>6. a \notin {"\"", "\\"} => StringStep(Clean(n, line), a) = Clean(n + 1, Append(line, a))
  BY StringSteps
<1>7. b \notin {"\"", "\\"} => StringStep(Clean(n + 2, Append(line, a)), b)
                                 = Clean(n + 3, Append(Append(line, a), b))
  <2> DEFINE m == n + 2
             l == Append(line, a)
  <2>1. m \in Nat /\ m + 1 = n + 3 /\ l \in Seq(Char)
    BY <1>1
  <2> HIDE DEF m, l
  <2>2. b \notin {"\"", "\\"} => StringStep(Clean(m, l), b) = Clean(m + 1, Append(l, b))
    BY <2>1, StringSteps
  <2> QED BY <2>1, <2>2 DEF m, l
<1>8. /\ Len(<<a>>) = 1 /\ <<a>>[1] = a
      /\ Len(<<"\\", a>>) = 2 /\ <<"\\", a>>[1] = "\\" /\ <<"\\", a>>[2] = a
      /\ Len(<<"\\", a, b>>) = 3 /\ <<"\\", a, b>>[1] = "\\" /\ <<"\\", a, b>>[2] = a
      /\ <<"\\", a, b>>[3] = b
  OBVIOUS
<1>9. a \notin {"\"", "\\"} =>
        Leads(Clean(n, line), <<a>>, Clean(n + Len(<<a>>), line \o <<a>>))
  BY <1>1, <1>6, <1>8 DEF Leads
<1>10. Leads(Clean(n, line), <<"\\", a>>, Clean(n + Len(<<"\\", a>>), line \o <<a>>))
  BY <1>1, <1>4, <1>5, <1>8 DEF Leads
<1>11. b \notin {"\"", "\\"} =>
         Leads(Clean(n, line), <<"\\", a, b>>,
               Clean(n + Len(<<"\\", a, b>>), line \o <<a, b>>))
  BY <1>2, <1>4, <1>5, <1>7, <1>8 DEF Leads
<1> QED BY <1>9, <1>10, <1>11

\* The characters that the spellings write.
LEMMA SpellingChars ==
  /\ {"\"", "\\", "\n", "\t", "n", "t", "u", "hex"} \subseteq Char
  /\ {"n", "t", "u", "hex", "\n", "\t"} \cap {"\"", "\\"} = {}
  /\ Foreign \subseteq Char /\ Foreign \cap {"\"", "\\", "\n", "\t"} = {}
<1>1. {"\"", "\\", "\n", "\t"} \subseteq Blank \cup Other
  BY DEF Blank, Other
<1>2. {"n", "t", "u", "hex", "\n", "\t"} \cap {"\"", "\\"} = {}
  OBVIOUS
<1> QED BY <1>1, <1>2, JsonStringAssumption DEF Char

\* What operator<< writes for a character, and json.dumps, and what is made of it.
LEMMA SpellingTables ==
  ASSUME NEW c \in Char
  PROVE  /\ c = "\n" => Spelling[c] = <<"\\", "\\", "n">> /\ Kept[c] = <<"\\", "n">>
         /\ c \in {"\"", "\\"} => Spelling[c] = <<"\\", c>> /\ Kept[c] = <<c>>
         /\ c \notin {"\"", "\\", "\n"} => Spelling[c] = <<c>> /\ Kept[c] = <<c>>
         /\ c = "\n" => PythonSpelling[c] = <<"\\", "n">> /\ Typed[c] = <<"n">>
         /\ c = "\t" => PythonSpelling[c] = <<"\\", "t">> /\ Typed[c] = <<"t">>
         /\ c \in {"\"", "\\"} => PythonSpelling[c] = <<"\\", c>> /\ Typed[c] = <<c>>
         /\ c \in Foreign =>
              PythonSpelling[c] = <<"\\", "u", "hex">> /\ Typed[c] = <<"u", "hex">>
         /\ c \notin Foreign \cup {"\"", "\\", "\n", "\t"} =>
              PythonSpelling[c] = <<c>> /\ Typed[c] = <<c>>
<1>1. c = "\n" => Spelling[c] = <<"\\", "\\", "n">> /\ Kept[c] = <<"\\", "n">>
  BY SpellingChars DEF Spelling, Kept, Raw
<1>2. c \in {"\"", "\\"} => Spelling[c] = <<"\\", c>> /\ Kept[c] = <<c>>
  BY SpellingChars DEF Spelling, Kept, Raw
<1>3. c \notin {"\"", "\\", "\n"} => Spelling[c] = <<c>> /\ Kept[c] = <<c>>
  BY SpellingChars DEF Spelling, Kept, Raw
<1>4. c = "\n" => PythonSpelling[c] = <<"\\", "n">> /\ Typed[c] = <<"n">>
  BY SpellingChars DEF PythonSpelling, Escaped, Typed, Raw
<1>5. c = "\t" => PythonSpelling[c] = <<"\\", "t">> /\ Typed[c] = <<"t">>
  BY SpellingChars DEF PythonSpelling, Escaped, Typed, Raw
<1>6. c \in {"\"", "\\"} => PythonSpelling[c] = <<"\\", c>> /\ Typed[c] = <<c>>
  BY SpellingChars DEF PythonSpelling, Escaped, Typed, Raw
<1>7. c \in Foreign => /\ PythonSpelling[c] = <<"\\", "u", "hex">>
                       /\ Typed[c] = <<"u", "hex">>
  BY SpellingChars DEF PythonSpelling, Escaped, Typed, Raw
<1>8. c \notin Foreign \cup {"\"", "\\", "\n", "\t"} =>
        PythonSpelling[c] = <<c>> /\ Typed[c] = <<c>>
  BY DEF PythonSpelling, Escaped, Typed, Raw
<1> QED BY <1>1, <1>2, <1>3, <1>4, <1>5, <1>6, <1>7, <1>8

\* The spellings are of one to three characters.
LEMMA SpellingTypes ==
  Spelling \in Spelt /\ Kept \in Spelt /\ PythonSpelling \in Spelt /\ Typed \in Spelt
<1>1. \A a \in Char, b \in Char, c \in Char :
        <<a>> \in Seq(Char) /\ <<a, b>> \in Seq(Char) /\ <<a, b, c>> \in Seq(Char)
  OBVIOUS
<1>2. Spelling = [c \in Char |-> Spelling[c]]
  BY DEF Spelling, Raw
<1>3. Kept = [c \in Char |-> Kept[c]]
  BY DEF Kept, Raw
<1>4. PythonSpelling = [c \in Char |-> PythonSpelling[c]]
  BY DEF PythonSpelling
<1>5. Typed = [c \in Char |-> Typed[c]]
  BY DEF Typed
<1>6. ASSUME NEW c \in Char
      PROVE  /\ Spelling[c] \in Seq(Char) /\ Kept[c] \in Seq(Char)
             /\ PythonSpelling[c] \in Seq(Char) /\ Typed[c] \in Seq(Char)
  <2>1. "\\" \in Char /\ "n" \in Char /\ "t" \in Char /\ "u" \in Char /\ "hex" \in Char
    BY SpellingChars
  <2>2. <<"\\", "\\", "n">> \in Seq(Char) /\ <<"\\", "n">> \in Seq(Char)
    BY <1>1, <2>1
  <2>3. <<"\\", "u", "hex">> \in Seq(Char) /\ <<"u", "hex">> \in Seq(Char)
    BY <1>1, <2>1
  <2>4. Spelling[c] \in Seq(Char) /\ Kept[c] \in Seq(Char)
    <3>1. CASE c = "\n"
      BY <2>2, <3>1, SpellingTables
    <3>2. CASE c \in {"\"", "\\"}
      BY <1>1, <2>1, <3>2, SpellingTables
    <3>3. CASE c \notin {"\"", "\\", "\n"}
      BY <1>1, <3>3, SpellingTables
    <3> QED BY <3>1, <3>2, <3>3
  <2>5. PythonSpelling[c] \in Seq(Char) /\ Typed[c] \in Seq(Char)
    <3>1. CASE c \in {"\n", "\t"}
      BY <1>1, <2>1, <3>1, SpellingTables
    <3>2. CASE c \in {"\"", "\\"}
      BY <1>1, <2>1, <3>2, SpellingTables
    <3>3. CASE c \in Foreign
      BY <2>3, <3>3, SpellingTables
    <3>4. CASE c \notin Foreign \cup {"\"", "\\", "\n", "\t"}
      BY <1>1, <3>4, SpellingTables
    <3> QED BY <3>1, <3>2, <3>3, <3>4
  <2> QED BY <2>4, <2>5
<1> QED BY <1>2, <1>3, <1>4, <1>5, <1>6 DEF Spelt

\* A character that operator<< has written is read as Kept has it, one that json.dumps
\* has written as Typed has it.
LEMMA SpellingsRead == ReadAs(Spelling, Kept) /\ ReadAs(PythonSpelling, Typed)
<1>1. "\\" \in Char /\ "n" \in Char /\ "t" \in Char /\ "u" \in Char /\ "hex" \in Char
      /\ {"n", "t", "u", "hex"} \cap {"\"", "\\"} = {}
  BY SpellingChars
<1>2. ASSUME NEW c \in Char, NEW n \in Nat, NEW line \in Seq(Char)
      PROVE  Leads(Clean(n, line), Spelling[c],
                   Clean(n + Len(Spelling[c]), line \o Kept[c]))
  <2>1. CASE c = "\n"
    <3>1. Spelling[c] = <<"\\", "\\", "n">> /\ Kept[c] = <<"\\", "n">>
      BY <2>1, SpellingTables
    <3>2. "n" \notin {"\"", "\\"}
      OBVIOUS
    <3> QED BY <1>1, <3>1, <3>2, LeadsTo
  <2>2. CASE c \in {"\"", "\\"}
    <3>1. Spelling[c] = <<"\\", c>> /\ Kept[c] = <<c>>
      BY <2>2, SpellingTables
    <3> QED BY <1>1, <3>1, LeadsTo
  <2>3. CASE c \notin {"\"", "\\", "\n"}
    <3>1. Spelling[c] = <<c>> /\ Kept[c] = <<c>>
      BY <2>3, SpellingTables
    <3> QED BY <1>1, <2>3, <3>1, LeadsTo
  <2> QED BY <2>1, <2>2, <2>3
<1>3. ASSUME NEW c \in Char, NEW n \in Nat, NEW line \in Seq(Char)
      PROVE  Leads(Clean(n, line), PythonSpelling[c],
                   Clean(n + Len(PythonSpelling[c]), line \o Typed[c]))
  <2>1. CASE c = "\n"
    <3>1. PythonSpelling[c] = <<"\\", "n">> /\ Typed[c] = <<"n">>
      BY <2>1, SpellingTables
    <3> QED BY <1>1, <3>1, LeadsTo
  <2>2. CASE c = "\t"
    <3>1. PythonSpelling[c] = <<"\\", "t">> /\ Typed[c] = <<"t">>
      BY <2>2, SpellingTables
    <3> QED BY <1>1, <3>1, LeadsTo
  <2>3. CASE c \in {"\"", "\\"}
    <3>1. PythonSpelling[c] = <<"\\", c>> /\ Typed[c] = <<c>>
      BY <2>3, SpellingTables
    <3> QED BY <1>1, <3>1, LeadsTo
  <2>4. CASE c \in Foreign
    <3>1. PythonSpelling[c] = <<"\\", "u", "hex">> /\ Typed[c] = <<"u", "hex">>
      BY <2>4, SpellingTables
    <3>2. "hex" \notin {"\"", "\\"}
      OBVIOUS
    <3> QED BY <1>1, <3>1, <3>2, LeadsTo
  <2>5. CASE c \notin Foreign \cup {"\"", "\\", "\n", "\t"}
    <3>1. PythonSpelling[c] = <<c>> /\ Typed[c] = <<c>>
      BY <2>5, SpellingTables
    <3> QED BY <1>1, <2>5, <3>1, LeadsTo
  <2> QED BY <2>1, <2>2, <2>3, <2>4, <2>5
<1> QED BY <1>2, <1>3, SpellingTypes DEF ReadAs

\* The loop takes these characters where it meets them.
LEMMA WordTaken ==
  ASSUME NEW text \in Seq(Char), NEW n \in Nat, NEW word \in Seq(Char),
         n + Len(word) <= Len(text), \A j \in 1..Len(word) : text[n + j] = word[j],
         NEW to, Leads(StringLoop(text)[n], word, to)
  PROVE  StringLoop(text)[n + Len(word)] = to
<1> DEFINE loop == StringLoop(text)
<1>1. \A k \in 1..Len(text) : loop[k] = StringStep(loop[k - 1], text[k])
  BY LoopRuns
<1> HIDE DEF loop
<1>2. Len(word) \in Nat /\ Len(text) \in Nat
  OBVIOUS
<1>3. ASSUME NEW j \in 1..Len(word)
      PROVE  loop[n + j] = StringStep(loop[n + (j - 1)], word[j])
  <2>1. n + j \in 1..Len(text) /\ (n + j) - 1 = n + (j - 1)
    BY <1>2
  <2> QED BY <1>1, <2>1
<1>4. Leads(loop[n], word, to)
  BY DEF loop
<1>5. CASE Len(word) = 1
  <2>1. loop[n + 1] = StringStep(loop[n], word[1])
    <3>1. 1 \in 1..Len(word) /\ n + (1 - 1) = n
      BY <1>5
    <3> QED BY <1>3, <3>1
  <2> QED BY <1>4, <1>5, <2>1 DEF Leads, loop
<1>6. CASE Len(word) = 2
  <2>1. loop[n + 1] = StringStep(loop[n], word[1])
    <3>1. 1 \in 1..Len(word) /\ n + (1 - 1) = n
      BY <1>6
    <3> QED BY <1>3, <3>1
  <2>2. loop[n + 2] = StringStep(loop[n + 1], word[2])
    <3>1. 2 \in 1..Len(word) /\ n + (2 - 1) = n + 1
      BY <1>6
    <3> QED BY <1>3, <3>1
  <2> QED BY <1>4, <1>6, <2>1, <2>2 DEF Leads, loop
<1>7. CASE Len(word) = 3
  <2>1. loop[n + 1] = StringStep(loop[n], word[1])
    <3>1. 1 \in 1..Len(word) /\ n + (1 - 1) = n
      BY <1>7
    <3> QED BY <1>3, <3>1
  <2>2. loop[n + 2] = StringStep(loop[n + 1], word[2])
    <3>1. 2 \in 1..Len(word) /\ n + (2 - 1) = n + 1
      BY <1>7
    <3> QED BY <1>3, <3>1
  <2>3. loop[n + 3] = StringStep(loop[n + 2], word[3])
    <3>1. 3 \in 1..Len(word) /\ n + (3 - 1) = n + 2
      BY <1>7
    <3> QED BY <1>3, <3>1
  <2> QED BY <1>4, <1>7, <2>1, <2>2, <2>3 DEF Leads, loop
<1> QED BY <1>4, <1>5, <1>6, <1>7 DEF Leads

\* Three texts joined, in either order.
LEMMA TextsJoin ==
  ASSUME NEW a \in Seq(Char), NEW b \in Seq(Char), NEW c \in Seq(Char)
  PROVE  (a \o b) \o c = a \o (b \o c)
BY ConcatAssociative

\* The loop has the whole of a string at the end of its spelling, whatever comes after.
LEMMA StringTaken ==
  ASSUME NEW spelling, NEW kept, ReadAs(spelling, kept)
  PROVE  \A s \in Seq(Char) :
           /\ Respelled(s, spelling) \in Seq(Char)
           /\ Respelled(s, kept) \in Seq(Char)
           /\ \A t \in Seq(Char) :
                StringLoop(Respelled(s, spelling) \o t)[Len(Respelled(s, spelling))]
                  = Clean(Len(Respelled(s, spelling)), Respelled(s, kept))
<1> DEFINE Taken(s) ==
             /\ Respelled(s, spelling) \in Seq(Char)
             /\ Respelled(s, kept) \in Seq(Char)
             /\ \A t \in Seq(Char) :
                  StringLoop(Respelled(s, spelling) \o t)[Len(Respelled(s, spelling))]
                    = Clean(Len(Respelled(s, spelling)), Respelled(s, kept))
           G == {s \in Seq(Char) : Taken(s)}
<1>0. spelling \in Spelt /\ kept \in Spelt
  BY DEF ReadAs
<1>1. << >> \in G
  <2>1. Respelled(<< >>, spelling) = << >> /\ Respelled(<< >>, kept) = << >>
    BY <1>0, RespelledAppend
  <2>2. << >> \in Seq(Char) /\ Len(<< >>) = 0
    OBVIOUS
  <2>3. ASSUME NEW t \in Seq(Char) PROVE StringLoop(<< >> \o t)[0] = Clean(0, << >>)
    <3>1. << >> \o t = t
      BY ConcatEmptySeq
    <3>2. StringLoop(t)[0] = Start
      BY LoopRuns
    <3> QED BY <3>1, <3>2 DEF Start, Clean
  <2> QED BY <2>1, <2>2, <2>3
<1>2. ASSUME NEW s \in G, NEW c \in Char PROVE Append(s, c) \in G
  <2> DEFINE front == Respelled(s, spelling)
             line == Respelled(s, kept)
             word == spelling[c]
             more == kept[c]
             n == Len(front)
  <2>1. /\ s \in Seq(Char) /\ front \in Seq(Char) /\ line \in Seq(Char)
        /\ \A t \in Seq(Char) : StringLoop(front \o t)[n] = Clean(n, line)
    OBVIOUS
  <2>2. word \in Seq(Char) /\ more \in Seq(Char)
    BY <1>0 DEF Spelt
  <2>3. /\ Respelled(Append(s, c), spelling) = front \o word
        /\ Respelled(Append(s, c), kept) = line \o more
    BY <1>0, <2>1, RespelledAppend
  <2> HIDE DEF front, line, word, more
  <2>4. n \in Nat /\ Len(word) \in Nat
    BY <2>1, <2>2
  <2>5. Leads(Clean(n, line), word, Clean(n + Len(word), line \o more))
    BY <2>1, <2>4 DEF ReadAs, word, more
  <2>6. /\ front \o word \in Seq(Char) /\ Len(front \o word) = n + Len(word)
        /\ line \o more \in Seq(Char)
    BY <2>1, <2>2, ConcatProperties
  <2>7. ASSUME NEW t \in Seq(Char)
        PROVE  StringLoop((front \o word) \o t)[n + Len(word)]
                 = Clean(n + Len(word), line \o more)
    <3> DEFINE text == (front \o word) \o t
    <3>1. text = front \o (word \o t) /\ word \o t \in Seq(Char)
      <4>1. front \in Seq(Char) /\ word \in Seq(Char) /\ t \in Seq(Char)
        BY <2>1, <2>2, <2>7
      <4> HIDE DEF front, word
      <4>2. (front \o word) \o t = front \o (word \o t)
        BY <4>1, TextsJoin, SMTT(30)
      <4>3. word \o t \in Seq(Char)
        BY <4>1, ConcatProperties
      <4> QED BY <4>2, <4>3
    <3>2. StringLoop(text)[n] = Clean(n, line)
      BY <2>1, <3>1
    <3>3. /\ text \in Seq(Char) /\ Len(text) = n + Len(word) + Len(t)
          /\ \A j \in 1..Len(word) : text[n + j] = word[j]
      <4>1. /\ text \in Seq(Char) /\ Len(text) = n + Len(word) + Len(t)
            /\ \A j \in 1..(n + Len(word)) : text[j] = (front \o word)[j]
        BY <2>4, <2>6, ConcatProperties
      <4>2. \A j \in 1..Len(word) : (front \o word)[n + j] = word[j]
        BY <2>1, <2>2, <2>4, ConcatProperties
      <4>3. \A j \in 1..Len(word) : n + j \in 1..(n + Len(word))
        BY <2>4
      <4> HIDE DEF text
      <4> QED BY <4>1, <4>2, <4>3
    <3> HIDE DEF text
    <3>4. n + Len(word) <= Len(text)
      <4>1. Len(t) \in Nat
        OBVIOUS
      <4> QED BY <2>4, <3>3, <4>1
    <3>5. StringLoop(text)[n + Len(word)] = Clean(n + Len(word), line \o more)
      <4> HIDE DEF n
      <4> QED BY <2>2, <2>4, <2>5, <3>2, <3>3, <3>4, WordTaken
    <3> QED BY <3>5 DEF text
  <2>8. Append(s, c) \in Seq(Char)
    BY <2>1
  <2> QED BY <2>3, <2>6, <2>7, <2>8
<1>3. G = Seq(Char)
  <2>1. G \in SUBSET Seq(Char)
    OBVIOUS
  <2> HIDE DEF G
  <2> QED BY <1>1, <1>2, <2>1, GrowingInduction
<1> QED BY <1>3

\* A text between quotes is read whole, and reading goes on behind the second quote.
LEMMA ReadsBack ==
  ASSUME NEW spelling, NEW kept, ReadAs(spelling, kept),
         NEW s \in Seq(Char), NEW rest \in Seq(Char)
  PROVE  LoadString((Respelled(s, spelling) \o <<"\"">>) \o rest)
           = Read(String(Respelled(s, kept)), rest)
<1> DEFINE q == "\""
           front == Respelled(s, spelling)
           line == Respelled(s, kept)
           n == Len(front)
           text == (front \o <<q>>) \o rest
           loop == StringLoop(text)
<1>1. q \in Char
  BY SpellingChars
<1> HIDE DEF q
<1>2. /\ front \in Seq(Char) /\ line \in Seq(Char)
      /\ \A t \in Seq(Char) : StringLoop(front \o t)[n] = Clean(n, line)
  BY StringTaken
<1> HIDE DEF front, line
<1>3. n \in Nat /\ Len(rest) \in Nat
  BY <1>2
<1>4. /\ front \o <<q>> \in Seq(Char) /\ Len(front \o <<q>>) = n + 1
      /\ (front \o <<q>>)[n + 1] = q
  <2>1. <<q>> \in Seq(Char) /\ Len(<<q>>) = 1 /\ <<q>>[1] = q
    BY <1>1
  <2> QED BY <1>2, <1>3, <2>1, ConcatProperties
<1>5. text = front \o (<<q>> \o rest) /\ <<q>> \o rest \in Seq(Char)
  <2>1. <<q>> \in Seq(Char)
    BY <1>1
  <2> QED BY <1>2, <2>1, ConcatAssociative, ConcatProperties
<1>6. /\ text \in Seq(Char) /\ Len(text) = n + 1 + Len(rest)
      /\ text[n + 1] = q
      /\ \A j \in 1..Len(rest) : text[n + 1 + j] = rest[j]
  <2> DEFINE quoted == front \o <<q>>
  <2>1. quoted \in Seq(Char) /\ Len(quoted) = n + 1 /\ quoted[n + 1] = q
    BY <1>4
  <2>2. text = quoted \o rest
    OBVIOUS
  <2> HIDE DEF quoted, text
  <2> DEFINE m == n + 1
  <2>3. m \in Nat /\ m >= 1 /\ Len(quoted) = m /\ quoted[m] = q
    BY <1>3, <2>1
  <2> HIDE DEF m
  <2>4. /\ text \in Seq(Char) /\ Len(text) = m + Len(rest)
        /\ \A j \in 1..(m + Len(rest)) :
             text[j] = IF j <= m THEN quoted[j] ELSE rest[j - m]
    BY <2>1, <2>2, <2>3, ConcatProperties
  <2>5. text[m] = q
    <3>1. m \in 1..(m + Len(rest)) /\ m <= m
      BY <1>3, <2>3
    <3> QED BY <2>3, <2>4, <3>1
  <2>6. ASSUME NEW j \in 1..Len(rest) PROVE text[m + j] = rest[j]
    <3>1. m + j \in 1..(m + Len(rest)) /\ ~(m + j <= m) /\ (m + j) - m = j
      BY <1>3, <2>3
    <3> QED BY <2>4, <3>1
  <2> QED BY <2>4, <2>5, <2>6 DEF m
<1>7. loop[n] = Clean(n, line)
  BY <1>2, <1>5
<1> HIDE DEF text
<1>8. \A k \in 1..Len(text) : loop[k] = StringStep(loop[k - 1], text[k])
  BY <1>6, LoopRuns
<1> HIDE DEF loop
<1>9. loop[n + 1] = Closed(n + 1, line)
  <2>1. n + 1 \in 1..Len(text) /\ (n + 1) - 1 = n
    BY <1>3, <1>6
  <2>2. loop[n + 1] = StringStep(Clean(n, line), q)
    BY <1>6, <1>7, <1>8, <2>1
  <2> QED BY <1>1, <1>2, <1>3, <2>2, StringSteps DEF q
<1> DEFINE G == {k \in Nat : k <= Len(rest) => loop[n + 1 + k] = Closed(n + 1, line)}
<1>10. 0 \in G
  BY <1>3, <1>9
<1>11. ASSUME NEW k \in G PROVE k + 1 \in G
  <2> SUFFICES ASSUME k + 1 <= Len(rest)
               PROVE  loop[n + 1 + (k + 1)] = Closed(n + 1, line)
    OBVIOUS
  <2>1. /\ loop[n + 1 + k] = Closed(n + 1, line)
        /\ n + 1 + (k + 1) \in 1..Len(text)
        /\ (n + 1 + (k + 1)) - 1 = n + 1 + k
    BY <1>3, <1>6
  <2> DEFINE c == text[n + 1 + (k + 1)]
  <2>2. loop[n + 1 + (k + 1)] = StringStep(Closed(n + 1, line), c)
    BY <1>8, <2>1
  <2>3. c \in Char
    BY <1>6, <2>1
  <2> HIDE DEF c
  <2>4. n + 1 \in Nat
    BY <1>3
  <2>5. StringStep(Closed(n + 1, line), c) = Closed(n + 1, line)
    BY <1>2, <2>3, <2>4, StringSteps
  <2> QED BY <2>2, <2>5
<1>12. G = Nat
  <2>1. G \in SUBSET Nat
    OBVIOUS
  <2> HIDE DEF G
  <2> QED BY <1>10, <1>11, <2>1, UpwardInduction
<1>13. loop[Len(text)] = Closed(n + 1, line)
  BY <1>3, <1>6, <1>12
<1>14. From(text, n + 1) = rest
  <2>1. \A j \in ((n + 1) + 1)..Len(text) : text[j] \in Char
    BY <1>3, <1>6
  <2>2. /\ SubSeq(text, (n + 1) + 1, Len(text)) \in Seq(Char)
        /\ Len(SubSeq(text, (n + 1) + 1, Len(text))) = Len(rest)
        /\ \A j \in 1..Len(rest) :
             SubSeq(text, (n + 1) + 1, Len(text))[j] = text[(n + 1) + j]
    BY <1>3, <1>6, <2>1, SubSeqProperties
  <2>3. SubSeq(text, (n + 1) + 1, Len(text)) = rest
    BY <1>6, <2>2, SeqEqual
  <2> QED BY <2>3 DEF From
<1>15. LoadString(text) = Read(String(line), From(text, n + 1))
  <2>1. loop[Len(text)].line = line /\ loop[Len(text)].taken = n + 1
    BY <1>13 DEF Closed
  <2> QED BY <2>1 DEF LoadString, loop
<1> QED BY <1>14, <1>15 DEF text, front, line, q

\* Whatever a string holds, quotes and backslashes too, LoadString reads it whole from
\* what operator<< has written, and stops at its end: only a newline has become a
\* backslash and an "n".
THEOREM StringsReadBack ==
  ASSUME NEW s \in Seq(Char), NEW rest \in Seq(Char)
  PROVE  LoadString((Respelled(s, Spelling) \o <<"\"">>) \o rest)
           = Read(String(Respelled(s, Kept)), rest)
BY SpellingsRead, ReadsBack

\* So it is with what json.dumps has written, which it leaves as the bare letters and
\* numbers of Python's escapes.
THEOREM PythonStringsRead ==
  ASSUME NEW s \in Seq(Char), NEW rest \in Seq(Char)
  PROVE  LoadString((Respelled(s, PythonSpelling) \o <<"\"">>) \o rest)
           = Read(String(Respelled(s, Typed)), rest)
BY SpellingsRead, ReadsBack

-----------------------------------------------------------------------------
(* Texts of several parts *)

\* Parts make a text, each put behind those before it.
LEMMA FlattenIs ==
  ASSUME NEW S, NEW parts \in Seq(Seq(S))
  PROVE  /\ FlattenSeq(<< >>) = << >>
         /\ FlattenSeq(parts) \in Seq(S)
         /\ \A part \in Seq(S) :
              FlattenSeq(Append(parts, part)) = FlattenSeq(parts) \o part
<1> DEFINE G == {s \in Seq(Seq(S)) : FlattenSeq(s) \in Seq(S)}
<1>1. FlattenSeq(<< >>) = << >>
  <2>1. Len(<< >>) = 0
    OBVIOUS
  <2> QED BY <2>1 DEF FlattenSeq
<1>2. << >> \in Seq(S) /\ << >> \in Seq(Seq(S))
  OBVIOUS
<1>3. << >> \in G
  BY <1>1, <1>2
<1>4. ASSUME NEW s \in Seq(Seq(S)), FlattenSeq(s) \in Seq(S), NEW part \in Seq(S)
      PROVE  FlattenSeq(Append(s, part)) = FlattenSeq(s) \o part
  <2>1. FlattenSeq(Append(s, part)) = IF s = << >> THEN part ELSE FlattenSeq(s) \o part
    BY FlattenAppend
  <2>2. << >> \o part = part
    BY ConcatEmptySeq
  <2> QED BY <1>1, <2>1, <2>2
<1>5. ASSUME NEW s \in G, NEW part \in Seq(S) PROVE Append(s, part) \in G
  <2>1. FlattenSeq(s) \o part \in Seq(S)
    BY ConcatProperties
  <2>2. Append(s, part) \in Seq(Seq(S))
    OBVIOUS
  <2>3. FlattenSeq(Append(s, part)) = FlattenSeq(s) \o part
    BY <1>4
  <2> QED BY <2>1, <2>2, <2>3
<1>6. G = Seq(Seq(S))
  <2>1. G \in SUBSET Seq(Seq(S))
    OBVIOUS
  <2> HIDE DEF G
  <2> QED BY <1>3, <1>5, <2>1, GrowingInduction
<1> QED BY <1>1, <1>4, <1>6

\* A text with a character in front of it.
LEMMA FrontChar ==
  ASSUME NEW S, NEW c \in S, NEW t \in Seq(S)
  PROVE  /\ <<c>> \o t \in Seq(S) /\ <<c>> \o t # << >>
         /\ Len(<<c>> \o t) = Len(t) + 1
         /\ Head(<<c>> \o t) = c /\ (<<c>> \o t)[1] = c
         /\ Tail(<<c>> \o t) = t
         /\ From(<<c>> \o t, 1) = t
<1> DEFINE text == <<c>> \o t
<1>1. <<c>> \in Seq(S) /\ Len(<<c>>) = 1 /\ <<c>>[1] = c
  OBVIOUS
<1>2. /\ text \in Seq(S) /\ Len(text) = 1 + Len(t)
      /\ \A i \in 1..(1 + Len(t)) : text[i] = IF i <= 1 THEN c ELSE t[i - 1]
  <2>1. \A i \in 1..(1 + Len(t)) : i <= 1 => i = 1
    OBVIOUS
  <2> HIDE DEF text
  <2>2. text = <<c>> \o t
    BY DEF text
  <2> DEFINE a == <<c>>
  <2>3. a \in Seq(S) /\ Len(a) = 1 /\ a[1] = c
    BY <1>1
  <2> HIDE DEF a
  <2>4. /\ text \in Seq(S) /\ Len(text) = Len(a) + Len(t)
        /\ \A i \in 1..(Len(a) + Len(t)) :
             text[i] = IF i <= Len(a) THEN a[i] ELSE t[i - Len(a)]
    BY <2>2, <2>3, ConcatProperties DEF a
  <2> QED BY <2>1, <2>3, <2>4
<1> HIDE DEF text
<1>3. Len(t) \in Nat
  OBVIOUS
<1>4. text[1] = c /\ text # << >>
  BY <1>2, <1>3, EmptySeq
<1>5. Head(text) = c
  BY <1>2, <1>4
<1>6. Tail(text) = t
  <2>1. /\ Tail(text) \in Seq(S) /\ Len(Tail(text)) = Len(t)
        /\ \A i \in 1..Len(t) : Tail(text)[i] = text[i + 1]
    BY <1>2, <1>3, <1>4, HeadTailProperties
  <2>2. \A i \in 1..Len(t) : text[i + 1] = t[i]
    <3> SUFFICES ASSUME NEW i \in 1..Len(t) PROVE text[i + 1] = t[i]
      OBVIOUS
    <3>1. i + 1 \in 1..(1 + Len(t)) /\ ~(i + 1 <= 1) /\ (i + 1) - 1 = i
      BY <1>3
    <3> QED BY <1>2, <3>1
  <2> QED BY <2>1, <2>2, SeqEqual
<1>7. From(text, 1) = t
  <2>1. Tail(text) = SubSeq(text, 2, Len(text))
    BY <1>2, <1>4, TailIsSubSeq
  <2>2. 1 + 1 = 2
    OBVIOUS
  <2> QED BY <1>6, <2>1, <2>2 DEF From
<1> QED BY <1>2, <1>3, <1>4, <1>5, <1>6, <1>7 DEF text

\* How many characters there are of a kind, when the next one is of another.
LEMMA SpanIs ==
  ASSUME NEW text \in Seq(Char), NEW S, NEW n \in 0..Len(text),
         \A i \in 1..n : text[i] \in S, n < Len(text) => text[n + 1] \notin S
  PROVE  Span(text, S) = n
<1> DEFINE Fits(m) == (\A i \in 1..m : text[i] \in S) /\ (m < Len(text) => text[m + 1] \notin S)
<1>1. n \in 0..Len(text) /\ Fits(n)
  OBVIOUS
<1>2. ASSUME NEW m \in 0..Len(text), Fits(m) PROVE m = n
  <2>1. ASSUME m < n PROVE FALSE
    <3>1. m + 1 \in 1..n /\ m < Len(text)
      BY <2>1
    <3> QED BY <1>2, <3>1
  <2>2. ASSUME n < m PROVE FALSE
    <3>1. n + 1 \in 1..m /\ n < Len(text)
      BY <2>2
    <3> QED BY <1>2, <3>1
  <2> QED BY <2>1, <2>2
<1> HIDE DEF Fits
<1>3. (CHOOSE m \in 0..Len(text) : Fits(m)) = n
  BY <1>1, <1>2
<1> QED BY <1>3 DEF Span, Fits

\* What does not begin with white space is what is left behind a blank.
LEMMA NonBlankIs ==
  ASSUME NEW t \in Seq(Char), t # << >>, t[1] \notin Blank
  PROVE  NonBlank(t) = t /\ NonBlank(<<" ">> \o t) = t
<1> DEFINE b == " "
<1>1. b \in Blank /\ b \in Char
  BY DEF Blank, Char
<1>2. Len(t) \in Nat \ {0}
  BY EmptySeq
<1>3. Span(t, Blank) = 0
  BY <1>2, SpanIs
<1>4. From(t, 0) = t
  BY <1>2, SubSeqFull DEF From
<1> HIDE DEF b
<1> DEFINE more == <<b>> \o t
<1>5. /\ more \in Seq(Char) /\ Len(more) = Len(t) + 1 /\ more[1] = b
      /\ Tail(more) = t /\ more # << >> /\ From(more, 1) = t
  BY <1>1, FrontChar
<1> HIDE DEF more
<1>6. more[2] = t[1]
  <2>1. 1 \in 1..Len(Tail(more)) /\ 1 + 1 = 2
    BY <1>2, <1>5
  <2>2. Tail(more)[1] = more[1 + 1]
    BY <1>5, <2>1, HeadTailProperties
  <2> QED BY <1>5, <2>1, <2>2
<1>7. Span(more, Blank) = 1
  <2>1. 1 \in 0..Len(more) /\ (\A i \in 1..1 : i = 1) /\ 1 + 1 = 2
    BY <1>2, <1>5
  <2> QED BY <1>1, <1>5, <1>6, <2>1, SpanIs
<1> QED BY <1>3, <1>4, <1>5, <1>7 DEF NonBlank, more, b

\* A list that goes on where another ends.
LEMMA OneMore ==
  ASSUME NEW S, NEW s \in Seq(S), NEW t \in Seq(S), Len(t) = Len(s) + 1,
         \A i \in 1..Len(s) : t[i] = s[i]
  PROVE  t = Append(s, t[Len(s) + 1])
<1> DEFINE e == t[Len(s) + 1]
<1>1. Len(s) \in Nat
  OBVIOUS
<1>2. e \in S
  BY <1>1, ElementOfSeq
<1> HIDE DEF e
<1>3. /\ Append(s, e) \in Seq(S) /\ Len(Append(s, e)) = Len(s) + 1
      /\ \A i \in 1..Len(s) : Append(s, e)[i] = s[i]
      /\ Append(s, e)[Len(s) + 1] = e
  BY <1>2, AppendProperties
<1>4. \A i \in 1..(Len(s) + 1) : i \in 1..Len(s) \/ i = Len(s) + 1
  BY <1>1
<1>5. \A i \in 1..Len(t) : t[i] = Append(s, e)[i]
  BY <1>3, <1>4 DEF e
<1> QED BY <1>3, <1>5, SeqEqual DEF e

\* The characters that the layout needs.
Layout == {"\"", "[", "]", "{", "}", ",", ":", " "}

\* The characters the writer puts between the words are characters, and no bracket is blank.
LEMMA LayoutChars ==
  /\ Layout \subseteq Char
  /\ \A c \in {"\"", "[", "]", "{", "}", ",", ":"} : c \notin Blank
<1>1. Layout \subseteq Blank \cup Other
  BY DEF Layout, Blank, Other
<1>2. Layout \subseteq Char
  BY <1>1 DEF Char
<1>3. \A c \in {"\"", "[", "]", "{", "}", ",", ":"} : c \notin Blank
  BY DEF Blank
<1> QED BY <1>2, <1>3

\* The separators the writer puts down are texts of any characters that hold the layout.
LEMMA LayoutTexts ==
  ASSUME NEW C, Layout \subseteq C
  PROVE  /\ Between \in Seq(C) /\ <<":", " ">> \in Seq(C)
         /\ \A c \in Layout : <<c>> \in Seq(C)
<1> DEFINE comma == ","
           colon == ":"
           blank == " "
<1>1. comma \in C /\ colon \in C /\ blank \in C
  BY DEF Layout
<1> HIDE DEF comma, colon, blank
<1>2. \A a \in C, b \in C : <<a>> \in Seq(C) /\ <<a, b>> \in Seq(C)
  OBVIOUS
<1>3. <<comma, blank>> \in Seq(C) /\ <<colon, blank>> \in Seq(C)
  BY <1>1, <1>2
<1>4. \A c \in Layout : <<c>> \in Seq(C)
  BY <1>2
<1> QED BY <1>3, <1>4 DEF Between, comma, colon, blank

\* A word in its quotes is two characters longer.
LEMMA QuotedIs ==
  ASSUME NEW C, Layout \subseteq C, NEW s \in Seq(C)
  PROVE  Quoted(s) \in Seq(C) /\ Len(Quoted(s)) = Len(s) + 2
<1> DEFINE q == "\""
<1>1. q \in C
  BY DEF Layout
<1> HIDE DEF q
<1>2. <<q>> \in Seq(C) /\ Len(<<q>>) = 1
  BY <1>1
<1>3. <<q>> \o s \in Seq(C) /\ Len(<<q>> \o s) = 1 + Len(s)
  BY <1>2, ConcatProperties
<1>4. (<<q>> \o s) \o <<q>> \in Seq(C) /\ Len((<<q>> \o s) \o <<q>>) = Len(<<q>> \o s) + 1
  BY <1>2, <1>3, ConcatProperties
<1>5. Len(s) \in Nat
  OBVIOUS
<1>6. Quoted(s) = (<<q>> \o s) \o <<q>>
  BY DEF Quoted, q
<1> QED BY <1>3, <1>4, <1>5, <1>6

\* A field is longer than the quotes of its name and the text of its value.
LEMMA FieldIs ==
  ASSUME NEW C, Layout \subseteq C, NEW name \in Seq(C), NEW text \in Seq(C)
  PROVE  Field(name, text) \in Seq(C) /\ Len(Field(name, text)) >= Len(text) + 2
<1> DEFINE colon == <<":", " ">>
<1>1. Quoted(name) \in Seq(C) /\ Len(Quoted(name)) = Len(name) + 2
  BY QuotedIs
<1>2. colon \in Seq(C)
  BY LayoutTexts
<1> HIDE DEF colon
<1>3. /\ Quoted(name) \o colon \in Seq(C)
      /\ Len(Quoted(name) \o colon) = Len(Quoted(name)) + Len(colon)
  BY <1>1, <1>2, ConcatProperties
<1>4. /\ (Quoted(name) \o colon) \o text \in Seq(C)
      /\ Len((Quoted(name) \o colon) \o text) = Len(Quoted(name) \o colon) + Len(text)
  BY <1>3, ConcatProperties
<1>5. Len(name) \in Nat /\ Len(colon) \in Nat /\ Len(text) \in Nat
  BY <1>2
<1>6. Field(name, text) = (Quoted(name) \o colon) \o text
  BY DEF Field, colon
<1> QED BY <1>1, <1>3, <1>4, <1>5, <1>6

\* Items are put behind each other.
LEMMA JoinedIs ==
  ASSUME NEW C, Layout \subseteq C, NEW items \in Seq(Seq(C))
  PROVE  /\ Joined(<< >>) = << >>
         /\ Joined(items) \in Seq(C)
         /\ \A item \in Seq(C) :
              Joined(Append(items, item)) =
                Joined(items) \o ((IF items = << >> THEN << >> ELSE Between) \o item)
<1> DEFINE part(s, i) == (IF i = 1 THEN << >> ELSE Between) \o s[i]
           parts(s) == [i \in DOMAIN s |-> part(s, i)]
<1>0. Between \in Seq(C) /\ << >> \in Seq(C)
  <2>1. Between \in Seq(C)
    BY LayoutTexts
  <2> QED BY <2>1, EmptySeq
<1>1. ASSUME NEW s \in Seq(Seq(C))
      PROVE  /\ parts(s) \in Seq(Seq(C)) /\ Len(parts(s)) = Len(s)
             /\ \A i \in 1..Len(s) : parts(s)[i] = part(s, i)
  <2>1. \A i \in 1..Len(s) : part(s, i) \in Seq(C)
    <3> SUFFICES ASSUME NEW i \in 1..Len(s) PROVE part(s, i) \in Seq(C)
      OBVIOUS
    <3>1. s[i] \in Seq(C)
      BY ElementOfSeq
    <3>2. (IF i = 1 THEN << >> ELSE Between) \in Seq(C)
      BY <1>0
    <3> QED BY <3>1, <3>2, ConcatProperties
  <2>2. parts(s) = [i \in 1..Len(s) |-> part(s, i)]
    OBVIOUS
  <2> HIDE DEF part
  <2> QED BY <2>1, <2>2
<1>2. \A s : Joined(s) = FlattenSeq(parts(s))
  BY DEF Joined
<1>3. Joined(<< >>) = << >>
  <2>1. parts(<< >>) = << >>
    OBVIOUS
  <2> HIDE DEF parts
  <2> QED BY <1>2, <2>1, FlattenIs
<1>4. Joined(items) \in Seq(C)
  <2> HIDE DEF parts, part
  <2> QED BY <1>1, <1>2, FlattenIs
<1>5. ASSUME NEW item \in Seq(C)
      PROVE  Joined(Append(items, item)) =
               Joined(items) \o ((IF items = << >> THEN << >> ELSE Between) \o item)
  <2> DEFINE more == Append(items, item)
             last == (IF items = << >> THEN << >> ELSE Between) \o item
  <2>1. /\ more \in Seq(Seq(C)) /\ Len(more) = Len(items) + 1
        /\ \A i \in 1..Len(items) : more[i] = items[i]
        /\ more[Len(items) + 1] = item
    BY AppendProperties
  <2>2. last \in Seq(C)
    <3>1. (IF items = << >> THEN << >> ELSE Between) \in Seq(C)
      BY <1>0
    <3> QED BY <3>1, ConcatProperties
  <2> HIDE DEF more
  <2>3. \A i \in 1..Len(items) : part(more, i) = part(items, i)
    BY <2>1
  <2>4. part(more, Len(items) + 1) = last
    <3>1. Len(items) \in Nat /\ (Len(items) + 1 = 1 <=> items = << >>)
      BY EmptySeq
    <3> QED BY <2>1, <3>1
  <2> HIDE DEF part, last
  <2>5. /\ parts(items) \in Seq(Seq(C)) /\ Len(parts(items)) = Len(items)
        /\ \A i \in 1..Len(items) : parts(items)[i] = part(items, i)
    BY <1>1
  <2>6. /\ parts(more) \in Seq(Seq(C)) /\ Len(parts(more)) = Len(items) + 1
        /\ \A i \in 1..(Len(items) + 1) : parts(more)[i] = part(more, i)
    BY <1>1, <2>1
  <2> HIDE DEF parts
  <2>7. parts(more) = Append(parts(items), last)
    <3>1. Len(items) \in Nat
      OBVIOUS
    <3>2. \A i \in 1..Len(items) : i \in 1..(Len(items) + 1)
      BY <3>1
    <3>3. Len(items) + 1 \in 1..(Len(items) + 1)
      BY <3>1
    <3>4. \A i \in 1..Len(items) : parts(more)[i] = parts(items)[i]
      BY <2>3, <2>5, <2>6, <3>2
    <3>5. parts(more)[Len(items) + 1] = last
      BY <2>4, <2>6, <3>3
    <3> QED BY <2>5, <2>6, <3>4, <3>5, OneMore
  <2> QED BY <1>2, <2>2, <2>5, <2>7, FlattenIs DEF more, last
<1> QED BY <1>3, <1>4, <1>5

\* What a name adds behind these.
FieldPart(texts, order, name) ==
  IF name \notin DOMAIN texts THEN << >>
  ELSE (IF Range(order) \cap DOMAIN texts # {} THEN Between ELSE << >>)
         \o Field(name, texts[name])

\* Fields are put behind each other.
LEMMA JoinedFieldsIs ==
  ASSUME NEW C, Layout \subseteq C, NEW D, NEW texts \in [D -> Seq(C)],
         NEW order \in Seq(Seq(C))
  PROVE  /\ JoinedFields(texts, << >>) = << >>
         /\ JoinedFields(texts, order) \in Seq(C)
         /\ \A name \in Seq(C) :
              /\ FieldPart(texts, order, name) \in Seq(C)
              /\ JoinedFields(texts, Append(order, name)) =
                   JoinedFields(texts, order) \o FieldPart(texts, order, name)
<1> DEFINE before(s, i) == IF \E j \in 1..(i - 1) : s[j] \in DOMAIN texts THEN Between
                                                                         ELSE << >>
           part(s, i) == IF s[i] \notin DOMAIN texts THEN << >>
                         ELSE before(s, i) \o Field(s[i], texts[s[i]])
           parts(s) == [i \in DOMAIN s |-> part(s, i)]
<1>0. Between \in Seq(C) /\ << >> \in Seq(C)
  <2>1. Between \in Seq(C)
    BY LayoutTexts
  <2> QED BY <2>1, EmptySeq
<1>1. ASSUME NEW s \in Seq(Seq(C))
      PROVE  /\ parts(s) \in Seq(Seq(C)) /\ Len(parts(s)) = Len(s)
             /\ \A i \in 1..Len(s) : parts(s)[i] = part(s, i)
  <2>1. \A i \in 1..Len(s) : part(s, i) \in Seq(C)
    <3> SUFFICES ASSUME NEW i \in 1..Len(s), s[i] \in DOMAIN texts
                 PROVE  before(s, i) \o Field(s[i], texts[s[i]]) \in Seq(C)
      BY <1>0
    <3>1. s[i] \in Seq(C) /\ texts[s[i]] \in Seq(C)
      BY ElementOfSeq
    <3>2. before(s, i) \in Seq(C)
      BY <1>0
    <3>3. Field(s[i], texts[s[i]]) \in Seq(C)
      BY <3>1, FieldIs
    <3> HIDE DEF before
    <3> QED BY <3>2, <3>3, ConcatProperties
  <2>2. parts(s) = [i \in 1..Len(s) |-> part(s, i)]
    OBVIOUS
  <2> HIDE DEF part
  <2> QED BY <2>1, <2>2
<1>2. \A s : JoinedFields(texts, s) = FlattenSeq(parts(s))
  BY DEF JoinedFields
<1>3. JoinedFields(texts, << >>) = << >>
  <2>1. parts(<< >>) = << >>
    OBVIOUS
  <2> HIDE DEF parts
  <2> QED BY <1>2, <2>1, FlattenIs
<1>4. JoinedFields(texts, order) \in Seq(C)
  <2> HIDE DEF parts, part
  <2> QED BY <1>1, <1>2, FlattenIs
<1>5. ASSUME NEW name \in Seq(C)
      PROVE  /\ FieldPart(texts, order, name) \in Seq(C)
             /\ JoinedFields(texts, Append(order, name)) =
                  JoinedFields(texts, order) \o FieldPart(texts, order, name)
  <2> DEFINE more == Append(order, name)
             last == FieldPart(texts, order, name)
  <2>1. /\ more \in Seq(Seq(C)) /\ Len(more) = Len(order) + 1
        /\ \A i \in 1..Len(order) : more[i] = order[i]
        /\ more[Len(order) + 1] = name
    BY AppendProperties
  <2>2. last \in Seq(C)
    <3>1. CASE name \notin DOMAIN texts
      BY <1>0, <3>1 DEF FieldPart
    <3>2. CASE name \in DOMAIN texts
      <4> DEFINE front == IF Range(order) \cap DOMAIN texts # {} THEN Between ELSE << >>
      <4>1. Field(name, texts[name]) \in Seq(C)
        BY <3>2, FieldIs
      <4>2. front \in Seq(C)
        BY <1>0
      <4>3. last = front \o Field(name, texts[name])
        BY <3>2 DEF FieldPart
      <4> HIDE DEF front, last
      <4> QED BY <4>1, <4>2, <4>3, ConcatProperties
    <3> QED BY <3>1, <3>2
  <2> HIDE DEF more
  <2>3. \A i \in 1..Len(order) : part(more, i) = part(order, i)
    <3> SUFFICES ASSUME NEW i \in 1..Len(order) PROVE part(more, i) = part(order, i)
      OBVIOUS
    <3>1. \A j \in 1..(i - 1) : j \in 1..Len(order)
      OBVIOUS
    <3>2. \A j \in 1..(i - 1) : more[j] = order[j]
      BY <2>1, <3>1
    <3>3. before(more, i) = before(order, i)
      BY <3>2
    <3>4. more[i] = order[i]
      BY <2>1
    <3> HIDE DEF before
    <3> QED BY <3>3, <3>4
  <2>4. part(more, Len(order) + 1) = last
    <3>1. Len(order) \in Nat /\ (Len(order) + 1) - 1 = Len(order)
      OBVIOUS
    <3>2. (\E j \in 1..Len(order) : more[j] \in DOMAIN texts)
            <=> Range(order) \cap DOMAIN texts # {}
      <4>1. Range(order) = {order[j] : j \in 1..Len(order)}
        BY RangeEquality
      <4> QED BY <2>1, <4>1
    <3>3. before(more, Len(order) + 1) =
            IF Range(order) \cap DOMAIN texts # {} THEN Between ELSE << >>
      BY <3>1, <3>2
    <3> HIDE DEF before
    <3> QED BY <2>1, <3>3 DEF FieldPart
  <2> HIDE DEF part, last
  <2>5. /\ parts(order) \in Seq(Seq(C)) /\ Len(parts(order)) = Len(order)
        /\ \A i \in 1..Len(order) : parts(order)[i] = part(order, i)
    BY <1>1
  <2>6. /\ parts(more) \in Seq(Seq(C)) /\ Len(parts(more)) = Len(order) + 1
        /\ \A i \in 1..(Len(order) + 1) : parts(more)[i] = part(more, i)
    BY <1>1, <2>1
  <2> HIDE DEF parts
  <2>7. parts(more) = Append(parts(order), last)
    <3>1. Len(order) \in Nat
      OBVIOUS
    <3>2. \A i \in 1..Len(order) : i \in 1..(Len(order) + 1)
      BY <3>1
    <3>3. Len(order) + 1 \in 1..(Len(order) + 1)
      BY <3>1
    <3>4. \A i \in 1..Len(order) : parts(more)[i] = parts(order)[i]
      BY <2>3, <2>5, <2>6, <3>2
    <3>5. parts(more)[Len(order) + 1] = last
      BY <2>4, <2>6, <3>3
    <3> QED BY <2>5, <2>6, <3>4, <3>5, OneMore
  <2>8. FlattenSeq(Append(parts(order), last)) = FlattenSeq(parts(order)) \o last
    BY <2>2, <2>5, FlattenIs
  <2>9. JoinedFields(texts, more) = JoinedFields(texts, order) \o last
    BY <1>2, <2>7, <2>8
  <2> QED BY <2>2, <2>9 DEF more, last
<1> QED BY <1>3, <1>4, <1>5

-----------------------------------------------------------------------------
(* The recursions *)

LevelTable(node, g, N) ==
  g = [k \in 0..N |-> IF k = 0 THEN {node} ELSE UNION {Held(n) : n \in g[k - 1]}]

\* The nodes in a node, and those in them.
LEMMA LevelIs ==
  ASSUME NEW node
  PROVE  /\ Level(node)[0] = {node}
         /\ \A k \in 1..Depth : Level(node)[k] = UNION {Held(n) : n \in Level(node)[k - 1]}
<1> DEFINE G == {N \in Nat : \E g : LevelTable(node, g, N)}
<1>1. 0 \in G
  <2>1. LevelTable(node, [k \in 0..0 |-> {node}], 0)
    BY DEF LevelTable
  <2> QED BY <2>1
<1>2. ASSUME NEW N \in G PROVE N + 1 \in G
  <2>1. PICK g : LevelTable(node, g, N)
    OBVIOUS
  <2> DEFINE h == [k \in 0..(N + 1) |-> IF k = 0 THEN {node}
                                        ELSE UNION {Held(n) : n \in g[k - 1]}]
  <2>2. ASSUME NEW k \in 0..N PROVE h[k] = g[k]
    <3>1. k \in 0..(N + 1)
      OBVIOUS
    <3> QED BY <2>1, <3>1 DEF LevelTable
  <2>3. \A k \in 0..(N + 1) : k # 0 => h[k - 1] = g[k - 1]
    <3> SUFFICES ASSUME NEW k \in 0..(N + 1), k # 0 PROVE h[k - 1] = g[k - 1]
      OBVIOUS
    <3>1. k - 1 \in 0..N
      OBVIOUS
    <3> HIDE DEF h
    <3> QED BY <2>2, <3>1
  <2>4. LevelTable(node, h, N + 1)
    BY <2>3 DEF LevelTable
  <2> QED BY <2>4
<1>3. G = Nat
  <2>1. G \in SUBSET Nat
    OBVIOUS
  <2> HIDE DEF G
  <2> QED BY <1>1, <1>2, <2>1, UpwardInduction
<1>4. Depth \in Nat
  BY JsonAssumption
<1>5. \E g : LevelTable(node, g, Depth)
  BY <1>3, <1>4
<1>6. Level(node) = CHOOSE g : LevelTable(node, g, Depth)
  BY DEF Level, LevelTable
<1> DEFINE level == Level(node)
<1> HIDE DEF level
<1>7. LevelTable(node, level, Depth)
  BY <1>5, <1>6 DEF level
<1>8. 0 \in 0..Depth /\ \A k \in 1..Depth : k \in 0..Depth /\ k # 0
  BY <1>4
<1>9. level[0] = {node} /\ \A k \in 1..Depth : level[k] = UNION {Held(n) : n \in level[k - 1]}
  BY <1>7, <1>8 DEF LevelTable
<1> QED BY <1>9 DEF level

-----------------------------------------------------------------------------
(* Nodes in nodes, their texts and what those are respelled to *)

\* What a node of a message is: a text, or a list or a map of nodes one level down.
LEMMA PlainKinds ==
  ASSUME NEW level, Plainly(level), NEW k \in 0..Depth, NEW n \in level[k]
  PROVE  \/ /\ Is(n, "string") /\ n = String(n.string) /\ n.string \in Seq(Char)
         \/ /\ k < Depth /\ ~Is(n, "string")
            /\ Is(n, "array") /\ n = Array(n.array) /\ n.array \in Seq(level[k + 1])
         \/ /\ k < Depth /\ ~Is(n, "string") /\ ~Is(n, "array")
            /\ Is(n, "map") /\ n = Map(n.map)
            /\ n.map \in [DOMAIN n.map -> level[k + 1]] /\ DOMAIN n.map \subseteq Range(Names)
<1>1. CASE n \in [string : Seq(Char)]
  BY <1>1 DEF Is, String
<1>2. CASE k < Depth /\ n \in [array : Seq(level[k + 1])]
  BY <1>2 DEF Is, Array
<1>3. CASE /\ k < Depth /\ n \in [map : [DOMAIN n.map -> level[k + 1]]]
           /\ DOMAIN n.map \subseteq Range(Names)
  BY <1>3 DEF Is, Map
<1> QED BY <1>1, <1>2, <1>3 DEF Plainly

\* The nodes of the last level are strings.
LEMMA Bottom ==
  ASSUME NEW level, Plainly(level), NEW n \in level[Depth]
  PROVE  Is(n, "string")
<1>1. Depth \in 0..Depth /\ ~(Depth < Depth)
  BY JsonAssumption
<1> QED BY <1>1, PlainKinds

WriteTable(level, spelling, order, g, N) ==
  g = [k \in 0..N |->
         [n \in level[Depth - k] |-> NodeText(n, g[k - 1], spelling, order)]]

\* The recursion has a solution.
LEMMA WriteTables ==
  ASSUME NEW level, Plainly(level), NEW spelling, NEW order
  PROVE  \E g : WriteTable(level, spelling, order, g, Depth)
<1> DEFINE text(n, inner) == NodeText(n, inner, spelling, order)
           row(f, k) == [n \in level[Depth - k] |-> text(n, f[k - 1])]
           Table(g, N) == g = [k \in 0..N |-> row(g, k)]
           G == {N \in Nat : \E g : Table(g, N)}
<1>0. Depth \in Nat /\ Depth - 0 = Depth
  BY JsonAssumption
<1>1. 0 \in G
  <2> DEFINE g == [k \in 0..0 |-> [n \in level[Depth - k] |-> text(n, << >>)]]
  <2>1. \A n \in level[Depth] : \A inner : text(n, << >>) = text(n, inner)
    BY Bottom DEF NodeText
  <2> HIDE DEF text
  <2>2. ASSUME NEW k \in 0..0, NEW inner
        PROVE  [n \in level[Depth - k] |-> text(n, << >>)]
                 = [n \in level[Depth - k] |-> text(n, inner)]
    <3>1. k = 0
      OBVIOUS
    <3> QED BY <1>0, <2>1, <3>1
  <2>3. g = [k \in 0..0 |-> [n \in level[Depth - k] |-> text(n, g[k - 1])]]
    BY <2>2
  <2> HIDE DEF g
  <2>4. Table(g, 0)
    BY <2>3
  <2> QED BY <2>4
<1> HIDE DEF text
<1>2. ASSUME NEW N \in G PROVE N + 1 \in G
  <2>1. PICK g : Table(g, N)
    OBVIOUS
  <2> DEFINE h == [k \in 0..(N + 1) |-> IF k = 0 THEN g[0] ELSE row(g, k)]
  <2>2. ASSUME NEW k \in 0..N PROVE h[k] = g[k]
    <3> HIDE DEF row
    <3>1. k \in 0..(N + 1)
      OBVIOUS
    <3>2. g[k] = row(g, k)
      BY <2>1
    <3>3. k = 0 => g[0] = g[k]
      OBVIOUS
    <3> QED BY <3>1, <3>2, <3>3
  <2>3. \A k \in 0..(N + 1) : k # 0 => h[k] = row(h, k)
    <3> SUFFICES ASSUME NEW k \in 0..(N + 1), k # 0 PROVE h[k] = row(h, k)
      OBVIOUS
    <3>1. k - 1 \in 0..N
      OBVIOUS
    <3>2. h[k] = row(g, k)
      OBVIOUS
    <3> HIDE DEF h
    <3>3. h[k - 1] = g[k - 1]
      BY <2>2, <3>1
    <3> QED BY <3>2, <3>3
  <2>4. h[0] = row(h, 0)
    <3>1. h[0] = g[0] /\ g[0] = row(g, 0)
      <4> HIDE DEF row
      <4>1. 0 \in 0..N /\ 0 \in 0..(N + 1)
        OBVIOUS
      <4>2. h[0] = g[0]
        BY <4>1
      <4> HIDE DEF h
      <4>3. g[0] = row(g, 0)
        BY <2>1, <4>1
      <4> QED BY <4>2, <4>3
    <3>2. row(g, 0) = row(h, 0)
      <4>1. \A n \in level[Depth] : text(n, g[0 - 1]) = text(n, h[0 - 1])
        <5> HIDE DEF h
        <5> QED BY Bottom DEF NodeText, text
      <4> HIDE DEF h
      <4> QED BY <1>0, <4>1
    <3> HIDE DEF h, row
    <3> QED BY <3>1, <3>2
  <2>5. h = [k \in 0..(N + 1) |-> h[k]]
    OBVIOUS
  <2> HIDE DEF h, row
  <2>6. \A k \in 0..(N + 1) : h[k] = row(h, k)
    BY <2>3, <2>4
  <2>7. h = [k \in 0..(N + 1) |-> row(h, k)]
    BY <2>5, <2>6
  <2>8. Table(h, N + 1)
    BY <2>7
  <2> QED BY <2>8
<1>3. G = Nat
  <2>1. G \in SUBSET Nat
    OBVIOUS
  <2> HIDE DEF G
  <2> QED BY <1>1, <1>2, <2>1, UpwardInduction
<1>4. \E g : Table(g, Depth)
  BY <1>0, <1>3
<1> QED BY <1>4 DEF WriteTable, text

\* The text of a node is made of the texts of those in it.
LEMMA WriteIs ==
  ASSUME NEW node, IsNode(node), NEW spelling, NEW order
  PROVE  \E g : /\ WriteTable(Level(node), spelling, order, g, Depth)
                /\ Write(node, spelling, order) = g[Depth][node]
<1> DEFINE g == CHOOSE w : WriteTable(Level(node), spelling, order, w, Depth)
<1>1. WriteTable(Level(node), spelling, order, g, Depth)
  BY WriteTables DEF IsNode
<1>2. Write(node, spelling, order) = g[Depth][node]
  BY DEF Write, WriteTable
<1> QED BY <1>1, <1>2

RespellTable(level, spelling, g, N) ==
  g = [k \in 0..N |->
         [n \in level[Depth - k] |-> Respelt(n, g[k - 1], spelling)]]

\* The recursion has a solution.
LEMMA RespellTables ==
  ASSUME NEW level, Plainly(level), NEW spelling
  PROVE  \E g : RespellTable(level, spelling, g, Depth)
<1> DEFINE text(n, inner) == Respelt(n, inner, spelling)
           row(f, k) == [n \in level[Depth - k] |-> text(n, f[k - 1])]
           Table(g, N) == g = [k \in 0..N |-> row(g, k)]
           G == {N \in Nat : \E g : Table(g, N)}
<1>0. Depth \in Nat /\ Depth - 0 = Depth
  BY JsonAssumption
<1>1. 0 \in G
  <2> DEFINE g == [k \in 0..0 |-> [n \in level[Depth - k] |-> text(n, << >>)]]
  <2>1. \A n \in level[Depth] : \A inner : text(n, << >>) = text(n, inner)
    BY Bottom DEF Respelt
  <2> HIDE DEF text
  <2>2. ASSUME NEW k \in 0..0, NEW inner
        PROVE  [n \in level[Depth - k] |-> text(n, << >>)]
                 = [n \in level[Depth - k] |-> text(n, inner)]
    <3>1. k = 0
      OBVIOUS
    <3> QED BY <1>0, <2>1, <3>1
  <2>3. g = [k \in 0..0 |-> [n \in level[Depth - k] |-> text(n, g[k - 1])]]
    BY <2>2
  <2> HIDE DEF g
  <2>4. Table(g, 0)
    BY <2>3
  <2> QED BY <2>4
<1> HIDE DEF text
<1>2. ASSUME NEW N \in G PROVE N + 1 \in G
  <2>1. PICK g : Table(g, N)
    OBVIOUS
  <2> DEFINE h == [k \in 0..(N + 1) |-> IF k = 0 THEN g[0] ELSE row(g, k)]
  <2>2. ASSUME NEW k \in 0..N PROVE h[k] = g[k]
    <3> HIDE DEF row
    <3>1. k \in 0..(N + 1)
      OBVIOUS
    <3>2. g[k] = row(g, k)
      BY <2>1
    <3>3. k = 0 => g[0] = g[k]
      OBVIOUS
    <3> QED BY <3>1, <3>2, <3>3
  <2>3. \A k \in 0..(N + 1) : k # 0 => h[k] = row(h, k)
    <3> SUFFICES ASSUME NEW k \in 0..(N + 1), k # 0 PROVE h[k] = row(h, k)
      OBVIOUS
    <3>1. k - 1 \in 0..N
      OBVIOUS
    <3>2. h[k] = row(g, k)
      OBVIOUS
    <3> HIDE DEF h
    <3>3. h[k - 1] = g[k - 1]
      BY <2>2, <3>1
    <3> QED BY <3>2, <3>3
  <2>4. h[0] = row(h, 0)
    <3>1. h[0] = g[0] /\ g[0] = row(g, 0)
      <4> HIDE DEF row
      <4>1. 0 \in 0..N /\ 0 \in 0..(N + 1)
        OBVIOUS
      <4>2. h[0] = g[0]
        BY <4>1
      <4> HIDE DEF h
      <4>3. g[0] = row(g, 0)
        BY <2>1, <4>1
      <4> QED BY <4>2, <4>3
    <3>2. row(g, 0) = row(h, 0)
      <4>1. \A n \in level[Depth] : text(n, g[0 - 1]) = text(n, h[0 - 1])
        <5> HIDE DEF h
        <5> QED BY Bottom DEF Respelt, text
      <4> HIDE DEF h
      <4> QED BY <1>0, <4>1
    <3> HIDE DEF h, row
    <3> QED BY <3>1, <3>2
  <2>5. h = [k \in 0..(N + 1) |-> h[k]]
    OBVIOUS
  <2> HIDE DEF h, row
  <2>6. \A k \in 0..(N + 1) : h[k] = row(h, k)
    BY <2>3, <2>4
  <2>7. h = [k \in 0..(N + 1) |-> row(h, k)]
    BY <2>5, <2>6
  <2>8. Table(h, N + 1)
    BY <2>7
  <2> QED BY <2>8
<1>3. G = Nat
  <2>1. G \in SUBSET Nat
    OBVIOUS
  <2> HIDE DEF G
  <2> QED BY <1>1, <1>2, <2>1, UpwardInduction
<1>4. \E g : Table(g, Depth)
  BY <1>0, <1>3
<1> QED BY <1>4 DEF RespellTable, text

\* So it is with the spelling of its strings.
LEMMA RespellIs ==
  ASSUME NEW node, IsNode(node), NEW spelling
  PROVE  \E g : /\ RespellTable(Level(node), spelling, g, Depth)
                /\ Respell(node, spelling) = g[Depth][node]
<1> DEFINE g == CHOOSE w : RespellTable(Level(node), spelling, w, Depth)
<1>1. RespellTable(Level(node), spelling, g, Depth)
  BY RespellTables DEF IsNode
<1>2. Respell(node, spelling) = g[Depth][node]
  BY DEF Respell, RespellTable
<1> QED BY <1>1, <1>2

-----------------------------------------------------------------------------
(* The loops of LoadArray and LoadDict, and calls of LoadNode in each other *)

Begun(text) == [open |-> TRUE, node |-> << >>, rest |-> text]

TurnTable(load, bracket, text, g, N) ==
  g = [k \in 0..N |-> IF k = 0 THEN Begun(text) ELSE Turn(load, bracket, g[k - 1])]

\* The loop goes from one turn to the next.
LEMMA TurnsRun ==
  ASSUME NEW load, NEW bracket, NEW text \in Seq(Char)
  PROVE  /\ Turns(load, bracket, text)[0] = Begun(text)
         /\ \A k \in 1..Len(text) :
              Turns(load, bracket, text)[k] =
                Turn(load, bracket, Turns(load, bracket, text)[k - 1])
<1> DEFINE G == {N \in Nat : \E g : TurnTable(load, bracket, text, g, N)}
<1>1. 0 \in G
  <2>1. TurnTable(load, bracket, text, [k \in 0..0 |-> Begun(text)], 0)
    BY DEF TurnTable
  <2> QED BY <2>1
<1>2. ASSUME NEW N \in G PROVE N + 1 \in G
  <2>1. PICK g : TurnTable(load, bracket, text, g, N)
    OBVIOUS
  <2> DEFINE h == [k \in 0..(N + 1) |-> IF k = 0 THEN Begun(text)
                                        ELSE Turn(load, bracket, g[k - 1])]
  <2>2. ASSUME NEW k \in 0..N PROVE h[k] = g[k]
    <3>1. k \in 0..(N + 1)
      OBVIOUS
    <3> QED BY <2>1, <3>1 DEF TurnTable
  <2>3. \A k \in 0..(N + 1) : k # 0 => h[k - 1] = g[k - 1]
    <3> SUFFICES ASSUME NEW k \in 0..(N + 1), k # 0 PROVE h[k - 1] = g[k - 1]
      OBVIOUS
    <3>1. k - 1 \in 0..N
      OBVIOUS
    <3> HIDE DEF h
    <3> QED BY <2>2, <3>1
  <2>4. TurnTable(load, bracket, text, h, N + 1)
    BY <2>3 DEF TurnTable
  <2> QED BY <2>4
<1>3. G = Nat
  <2>1. G \in SUBSET Nat
    OBVIOUS
  <2> HIDE DEF G
  <2> QED BY <1>1, <1>2, <2>1, UpwardInduction
<1>4. Len(text) \in Nat
  OBVIOUS
<1>5. \E g : TurnTable(load, bracket, text, g, Len(text))
  BY <1>3, <1>4
<1>6. Turns(load, bracket, text) = CHOOSE g : TurnTable(load, bracket, text, g, Len(text))
  BY DEF Turns, TurnTable, Begun
<1> DEFINE turns == Turns(load, bracket, text)
<1> HIDE DEF turns
<1>7. TurnTable(load, bracket, text, turns, Len(text))
  BY <1>5, <1>6 DEF turns
<1>8. 0 \in 0..Len(text) /\ \A k \in 1..Len(text) : k \in 0..Len(text) /\ k # 0
  BY <1>4
<1>9. /\ turns[0] = Begun(text)
      /\ \A k \in 1..Len(text) : turns[k] = Turn(load, bracket, turns[k - 1])
  BY <1>7, <1>8 DEF TurnTable
<1> QED BY <1>9 DEF turns

LoadTable(g, N) ==
  g = [n \in 0..N |->
         [text \in Seq(Char) |-> IF n = 0 THEN << >> ELSE LoadNode(g[n - 1], text)]]

\* A call goes to the next one.
LEMMA LoadsRun ==
  ASSUME NEW calls \in Nat
  PROVE  \A n \in 1..calls : \A text \in Seq(Char) :
           Loads(calls)[n][text] = LoadNode(Loads(calls)[n - 1], text)
<1> DEFINE row(f, n) == [text \in Seq(Char) |->
                           IF n = 0 THEN << >> ELSE LoadNode(f[n - 1], text)]
           Table(g, N) == g = [n \in 0..N |-> row(g, n)]
           G == {N \in Nat : \E g : Table(g, N)}
           none == [n \in 0..0 |-> [text \in Seq(Char) |-> << >>]]
<1>1. 0 \in G
  <2>1. \A n \in 0..0 : [text \in Seq(Char) |-> << >>] = row(none, n)
    OBVIOUS
  <2> HIDE DEF row
  <2>2. none = [n \in 0..0 |-> row(none, n)]
    BY <2>1
  <2> HIDE DEF none
  <2>3. Table(none, 0)
    BY <2>2
  <2> QED BY <2>3
<1>2. ASSUME NEW N \in G PROVE N + 1 \in G
  <2> HIDE DEF none
  <2>1. PICK g : Table(g, N)
    OBVIOUS
  <2> DEFINE h == [n \in 0..(N + 1) |-> row(g, n)]
  <2>2. ASSUME NEW n \in 0..N PROVE h[n] = g[n]
    <3> HIDE DEF row
    <3>1. n \in 0..(N + 1)
      OBVIOUS
    <3>2. g[n] = row(g, n)
      BY <2>1
    <3> QED BY <3>1, <3>2
  <2>3. \A n \in 0..(N + 1) : row(g, n) = row(h, n)
    <3> SUFFICES ASSUME NEW n \in 0..(N + 1) PROVE row(g, n) = row(h, n)
      OBVIOUS
    <3> HIDE DEF h
    <3>1. CASE n = 0
      BY <3>1
    <3>2. CASE n # 0
      <4>1. n - 1 \in 0..N
        BY <3>2
      <4>2. h[n - 1] = g[n - 1]
        BY <2>2, <4>1
      <4> QED BY <4>2
    <3> QED BY <3>1, <3>2
  <2> HIDE DEF row
  <2>4. h = [n \in 0..(N + 1) |-> row(h, n)]
    BY <2>3
  <2> HIDE DEF h
  <2>5. Table(h, N + 1)
    BY <2>4
  <2> QED BY <2>5
<1> HIDE DEF none
<1>3. G = Nat
  <2>1. G \in SUBSET Nat
    OBVIOUS
  <2> HIDE DEF G
  <2> QED BY <1>1, <1>2, <2>1, UpwardInduction
<1> HIDE DEF row
<1>4. \E g : Table(g, calls)
  BY <1>3
<1>5. Loads(calls) = CHOOSE g : Table(g, calls)
  BY DEF Loads, row
<1> DEFINE loads == Loads(calls)
<1> HIDE DEF loads
<1>6. Table(loads, calls)
  BY <1>4, <1>5 DEF loads
<1>7. ASSUME NEW n \in 1..calls, NEW text \in Seq(Char)
      PROVE  loads[n][text] = LoadNode(loads[n - 1], text)
  <2>1. n \in 0..calls /\ n # 0
    OBVIOUS
  <2>2. loads[n] = row(loads, n)
    BY <1>6, <2>1
  <2> QED BY <2>1, <2>2 DEF row
<1> QED BY <1>7 DEF loads

-----------------------------------------------------------------------------
(* A list and a map, cut into their parts *)

\* Two characters, and a text behind them.
LEMMA PairIs ==
  ASSUME NEW a \in Char, NEW b \in Char
  PROVE  <<a, b>> = <<a>> \o <<b>>
<1>1. <<a>> \in Seq(Char) /\ <<b>> \in Seq(Char) /\ <<a, b>> \in Seq(Char)
  OBVIOUS
<1>2. /\ <<a>> \o <<b>> \in Seq(Char)
      /\ Len(<<a>> \o <<b>>) = 2
      /\ (<<a>> \o <<b>>)[1] = a /\ (<<a>> \o <<b>>)[2] = b
  BY <1>1
<1>3. \A i \in 1..2 : i = 1 \/ i = 2
  OBVIOUS
<1>4. Len(<<a, b>>) = 2 /\ <<a, b>>[1] = a /\ <<a, b>>[2] = b
  OBVIOUS
<1>5. \A i \in 1..2 : <<a, b>>[i] = (<<a>> \o <<b>>)[i]
  BY <1>2, <1>3, <1>4
<1> QED BY <1>1, <1>2, <1>4, <1>5, SeqEqual

\* Two characters before a text, one at a time.
LEMMA PairSplit ==
  ASSUME NEW a \in Char, NEW b \in Char, NEW t \in Seq(Char)
  PROVE  <<a, b>> \o t = <<a>> \o (<<b>> \o t)
<1> DEFINE x == <<a>>
           y == <<b>>
<1>1. x \in Seq(Char) /\ y \in Seq(Char)
  OBVIOUS
<1>2. <<a, b>> = x \o y
  BY PairIs
<1> HIDE DEF x, y
<1>3. (x \o y) \o t = x \o (y \o t)
  BY <1>1, TextsJoin
<1> QED BY <1>2, <1>3 DEF x, y

\* What is behind a comma and a blank.
LEMMA BetweenSplit ==
  ASSUME NEW t \in Seq(Char), NEW tail \in Seq(Char)
  PROVE  (Between \o t) \o tail = <<",">> \o (<<" ">> \o (t \o tail))
<1> DEFINE comma == ","
           blank == " "
<1>1. comma \in Char /\ blank \in Char
  BY LayoutChars DEF Layout
<1> HIDE DEF comma, blank
<1>2. t \o tail \in Seq(Char)
  BY ConcatProperties
<1>3. <<comma, blank>> \in Seq(Char)
  BY <1>1
<1>4. (<<comma, blank>> \o t) \o tail = <<comma, blank>> \o (t \o tail)
  <2> DEFINE x == <<comma, blank>>
  <2>1. x \in Seq(Char)
    BY <1>3
  <2> HIDE DEF x
  <2>2. (x \o t) \o tail = x \o (t \o tail)
    BY <2>1, TextsJoin
  <2> QED BY <2>2 DEF x
<1>5. <<comma, blank>> \o (t \o tail) = <<comma>> \o (<<blank>> \o (t \o tail))
  BY <1>1, <1>2, PairSplit
<1> QED BY <1>4, <1>5 DEF Between, comma, blank

\* A field is a quote, its name up to another, a colon and a blank, and its text.
LEMMA FieldSplit ==
  ASSUME NEW name \in Seq(Char), NEW t \in Seq(Char), NEW tail \in Seq(Char)
  PROVE  Field(name, t) \o tail =
           <<"\"">> \o ((name \o <<"\"">>) \o (<<":">> \o (<<" ">> \o (t \o tail))))
<1> DEFINE quote == "\""
           colon == ":"
           blank == " "
           q == <<quote>>
           pair == <<colon, blank>>
<1>1. quote \in Char /\ colon \in Char /\ blank \in Char
  BY LayoutChars DEF Layout
<1> HIDE DEF quote, colon, blank
<1>2. q \in Seq(Char) /\ pair \in Seq(Char)
  BY <1>1
<1>3. t \o tail \in Seq(Char)
  BY ConcatProperties
<1>4. pair \o (t \o tail) = <<colon>> \o (<<blank>> \o (t \o tail))
  BY <1>1, <1>3, PairSplit
<1> HIDE DEF q, pair
<1>5. q \o name \in Seq(Char) /\ name \o q \in Seq(Char) /\ pair \o (t \o tail) \in Seq(Char)
  BY <1>2, <1>3, ConcatProperties
<1>6. (q \o name) \o q \in Seq(Char)
  BY <1>2, <1>5, ConcatProperties
<1>7. ((q \o name) \o q) \o pair \in Seq(Char)
  BY <1>2, <1>6, ConcatProperties
<1>8. ((((q \o name) \o q) \o pair) \o t) \o tail
        = (((q \o name) \o q) \o pair) \o (t \o tail)
  BY <1>7, TextsJoin
<1>9. (((q \o name) \o q) \o pair) \o (t \o tail) = ((q \o name) \o q) \o (pair \o (t \o tail))
  BY <1>2, <1>3, <1>6, TextsJoin
<1>10. (q \o name) \o q = q \o (name \o q)
  BY <1>2, TextsJoin, ZenonT(60)
<1>11. (q \o (name \o q)) \o (pair \o (t \o tail)) = q \o ((name \o q) \o (pair \o (t \o tail)))
  <2> DEFINE x == name \o q
             y == pair \o (t \o tail)
  <2>1. x \in Seq(Char) /\ y \in Seq(Char)
    BY <1>5
  <2> HIDE DEF x, y
  <2>2. q \in Seq(Char)
    BY <1>2
  <2>3. (q \o x) \o y = q \o (x \o y)
    BY <2>1, <2>2, TextsJoin
  <2> QED BY <2>3 DEF x, y
<1>12. Field(name, t) \o tail = q \o ((name \o q) \o (pair \o (t \o tail)))
  <2>1. Field(name, t) = (((q \o name) \o q) \o pair) \o t
    BY DEF Field, Quoted, q, quote, pair, colon, blank
  <2> QED BY <1>8, <1>9, <1>10, <1>11, <2>1
<1> QED BY <1>4, <1>12 DEF q, quote, colon, blank

\* A list of texts none of which is empty is at least as long as it has texts, and as
\* each of them is.
LEMMA JoinedLonger ==
  ASSUME NEW items \in Seq(Seq(Char) \ {<< >>})
  PROVE  /\ Len(Joined(items)) >= Len(items)
         /\ \A i \in 1..Len(items) : Len(items[i]) <= Len(Joined(items))
<1> DEFINE S == Seq(Char) \ {<< >>}
           Holds(s) == /\ Len(Joined(s)) >= Len(s)
                       /\ \A i \in 1..Len(s) : Len(s[i]) <= Len(Joined(s))
           G == {s \in Seq(S) : Holds(s)}
<1>0. Layout \subseteq Char /\ Between \in Seq(Char)
  BY LayoutChars, LayoutTexts
<1>1. << >> \in G
  <2>1. << >> \in Seq(Seq(Char))
    OBVIOUS
  <2>2. Joined(<< >>) = << >>
    BY <1>0, <2>1, JoinedIs
  <2> QED BY <2>2
<1>2. ASSUME NEW s \in G, NEW e \in S PROVE Append(s, e) \in G
  <2>1. s \in Seq(S) /\ Holds(s)
    OBVIOUS
  <2>2. s \in Seq(Seq(Char)) /\ e \in Seq(Char)
    BY <2>1
  <2> DEFINE part == (IF s = << >> THEN << >> ELSE Between) \o e
             joined == Joined(s)
             more == Append(s, e)
  <2>3. part \in Seq(Char) /\ Len(part) >= Len(e)
    <3>1. CASE s = << >>
      BY <2>2, <3>1, ConcatEmptySeq
    <3>2. CASE s # << >>
      <4>1. Between \o e \in Seq(Char) /\ Len(Between \o e) = Len(Between) + Len(e)
        BY <1>0, <2>2, ConcatProperties
      <4>2. Len(Between) \in Nat /\ Len(e) \in Nat
        BY <1>0, <2>2
      <4> QED BY <3>2, <4>1, <4>2
    <3> QED BY <3>1, <3>2
  <2>4. joined \in Seq(Char) /\ Joined(more) = joined \o part
    BY <1>0, <2>2, JoinedIs
  <2> HIDE DEF part, joined
  <2>5. Joined(more) \in Seq(Char) /\ Len(Joined(more)) = Len(joined) + Len(part)
    BY <2>3, <2>4, ConcatProperties
  <2>6. /\ more \in Seq(S) /\ Len(more) = Len(s) + 1
        /\ \A i \in 1..Len(s) : more[i] = s[i]
        /\ more[Len(s) + 1] = e
    BY <2>1, AppendProperties
  <2>7. Len(e) \in Nat /\ Len(e) >= 1
    BY <2>2, EmptySeq
  <2>8. Len(joined) \in Nat /\ Len(part) \in Nat /\ Len(s) \in Nat
    BY <2>3, <2>4
  <2>9. Len(joined) >= Len(s) /\ \A i \in 1..Len(s) : Len(s[i]) <= Len(joined)
    BY <2>1 DEF joined
  <2> HIDE DEF more, Holds
  <2>10. Len(Joined(more)) >= Len(more)
    BY <2>3, <2>5, <2>6, <2>7, <2>8, <2>9
  <2>11. ASSUME NEW i \in 1..Len(more) PROVE Len(more[i]) <= Len(Joined(more))
    <3>1. CASE i \in 1..Len(s)
      <4>1. Len(more[i]) = Len(s[i]) /\ Len(s[i]) <= Len(joined)
        BY <2>6, <2>9, <3>1
      <4>2. Len(s[i]) \in Nat
        BY <2>1, <3>1, ElementOfSeq
      <4> QED BY <2>5, <2>8, <4>1, <4>2
    <3>2. CASE i = Len(s) + 1
      BY <2>3, <2>5, <2>6, <2>7, <2>8, <3>2
    <3> QED BY <2>6, <2>8, <3>1, <3>2
  <2> QED BY <2>6, <2>10, <2>11 DEF Holds, more
<1>3. G = Seq(S)
  <2>1. G \in SUBSET Seq(S)
    OBVIOUS
  <2> HIDE DEF G, S
  <2> QED BY <1>1, <1>2, <2>1, GrowingInduction
<1> QED BY <1>3

\* Fields of texts, one name after the other.
LEMMA FieldsGrow ==
  ASSUME NEW D, NEW texts \in [D -> Seq(Char)], NEW order \in Seq(Seq(Char)),
         NEW name \in Seq(Char)
  PROVE  /\ JoinedFields(texts, << >>) = << >>
         /\ JoinedFields(texts, order) \in Seq(Char)
         /\ FieldPart(texts, order, name) \in Seq(Char)
         /\ JoinedFields(texts, Append(order, name)) =
              JoinedFields(texts, order) \o FieldPart(texts, order, name)
<1>1. JoinedFields(texts, << >>) = << >>
  BY JoinedFieldsIs, LayoutChars
<1>2. JoinedFields(texts, order) \in Seq(Char)
  BY JoinedFieldsIs, LayoutChars
<1>3. FieldPart(texts, order, name) \in Seq(Char)
  BY JoinedFieldsIs, LayoutChars
<1>4. JoinedFields(texts, Append(order, name)) =
        JoinedFields(texts, order) \o FieldPart(texts, order, name)
  BY JoinedFieldsIs, LayoutChars
<1> QED BY <1>1, <1>2, <1>3, <1>4

\* The fields are together longer than the text of each.
LEMMA FieldsLonger ==
  ASSUME NEW D, NEW texts \in [D -> Seq(Char)], NEW order \in Seq(Seq(Char))
  PROVE  \A i \in 1..Len(order) :
           order[i] \in D => Len(texts[order[i]]) <= Len(JoinedFields(texts, order))
<1> DEFINE S == Seq(Char)
           Holds(s) == \A i \in 1..Len(s) :
                         s[i] \in D => Len(texts[s[i]]) <= Len(JoinedFields(texts, s))
           G == {s \in Seq(S) : Holds(s)}
<1>0. Layout \subseteq Char /\ Between \in Seq(Char) /\ << >> \in Seq(Char)
  <2>1. << >> \in Seq(Char)
    OBVIOUS
  <2> QED BY <2>1, LayoutChars, LayoutTexts
<1>1. << >> \in G
  OBVIOUS
<1>2. ASSUME NEW s \in G, NEW e \in S PROVE Append(s, e) \in G
  <2>1. s \in Seq(S) /\ Holds(s)
    OBVIOUS
  <2> DEFINE part == FieldPart(texts, s, e)
             joined == JoinedFields(texts, s)
             more == Append(s, e)
  <2>2. /\ joined \in Seq(Char) /\ part \in Seq(Char)
        /\ JoinedFields(texts, more) = joined \o part
    BY <2>1, FieldsGrow
  <2>3. e \in D => Len(part) >= Len(texts[e])
    <3> SUFFICES ASSUME e \in D PROVE Len(part) >= Len(texts[e])
      OBVIOUS
    <3> DEFINE sep == IF Range(s) \cap D # {} THEN Between ELSE << >>
               field == Field(e, texts[e])
    <3>1. sep \in Seq(Char)
      BY <1>0
    <3>2. field \in Seq(Char) /\ Len(field) >= Len(texts[e]) + 2
      BY <1>0, FieldIs
    <3>3. part = sep \o field
      BY DEF FieldPart
    <3> HIDE DEF sep, field, part
    <3>4. Len(part) = Len(sep) + Len(field)
      BY <3>1, <3>2, <3>3, ConcatProperties
    <3>5. Len(sep) \in Nat /\ Len(field) \in Nat /\ Len(texts[e]) \in Nat
      BY <3>1, <3>2
    <3> QED BY <3>2, <3>4, <3>5
  <2> HIDE DEF part, joined
  <2>4. Len(JoinedFields(texts, more)) = Len(joined) + Len(part)
    BY <2>2, ConcatProperties
  <2>5. /\ more \in Seq(S) /\ Len(more) = Len(s) + 1
        /\ \A i \in 1..Len(s) : more[i] = s[i]
        /\ more[Len(s) + 1] = e
    BY <2>1, AppendProperties
  <2>6. Len(joined) \in Nat /\ Len(part) \in Nat /\ Len(s) \in Nat
    BY <2>1, <2>2
  <2>7. \A i \in 1..Len(s) : s[i] \in D => Len(texts[s[i]]) <= Len(joined)
    BY <2>1 DEF joined
  <2> HIDE DEF more, Holds
  <2>8. ASSUME NEW i \in 1..Len(more), more[i] \in D
        PROVE  Len(texts[more[i]]) <= Len(JoinedFields(texts, more))
    <3>1. Len(texts[more[i]]) \in Nat
      BY <2>8
    <3>2. CASE i \in 1..Len(s)
      <4>1. Len(texts[more[i]]) <= Len(joined)
        BY <2>5, <2>7, <2>8, <3>2
      <4> QED BY <2>4, <2>6, <3>1, <4>1
    <3>3. CASE i = Len(s) + 1
      <4>1. Len(texts[more[i]]) <= Len(part)
        BY <2>3, <2>5, <2>8, <3>3
      <4> QED BY <2>4, <2>6, <3>1, <4>1
    <3> QED BY <2>5, <2>6, <3>2, <3>3
  <2> QED BY <2>5, <2>8 DEF Holds, more
<1>3. G = Seq(S)
  <2>1. G \in SUBSET Seq(S)
    OBVIOUS
  <2> HIDE DEF G, S
  <2> QED BY <1>1, <1>2, <2>1, GrowingInduction
<1> QED BY <1>3

-----------------------------------------------------------------------------
(* Reading a list *)

\* Before another turn of a loop, with these items or fields and this text left; and
\* when it has ended.
Opened(node, rest) == [open |-> TRUE, node |-> node, rest |-> rest]
Ended(node, rest)  == [open |-> FALSE, node |-> node, rest |-> rest]

Square == "]"
Brace  == "}"

\* A loop that has ended turns no more.
LEMMA TurnsStay ==
  ASSUME NEW load, NEW bracket, NEW text \in Seq(Char), NEW m \in 0..Len(text),
         ~Turns(load, bracket, text)[m].open
  PROVE  Turns(load, bracket, text)[Len(text)] = Turns(load, bracket, text)[m]
<1> DEFINE turns == Turns(load, bracket, text)
<1>1. ~turns[m].open
  OBVIOUS
<1>2. \A j \in 1..Len(text) : turns[j] = Turn(load, bracket, turns[j - 1])
  BY TurnsRun
<1> HIDE DEF turns
<1>3. Len(text) \in Nat /\ m \in Nat /\ m <= Len(text)
  OBVIOUS
<1> DEFINE G == {j \in Nat : m + j <= Len(text) => turns[m + j] = turns[m]}
<1>4. 0 \in G
  <2>1. m + 0 = m
    BY <1>3
  <2> QED BY <2>1
<1>5. ASSUME NEW j \in G PROVE j + 1 \in G
  <2> SUFFICES ASSUME m + (j + 1) <= Len(text)
               PROVE  turns[m + (j + 1)] = turns[m]
    OBVIOUS
  <2>1. m + j <= Len(text) /\ m + (j + 1) \in 1..Len(text) /\ (m + (j + 1)) - 1 = m + j
    BY <1>3
  <2>2. turns[m + (j + 1)] = Turn(load, bracket, turns[m + j])
    BY <1>2, <2>1
  <2>3. turns[m + j] = turns[m]
    BY <2>1
  <2> QED BY <1>1, <2>2, <2>3 DEF Turn
<1>6. G = Nat
  <2>1. G \in SUBSET Nat
    OBVIOUS
  <2> HIDE DEF G
  <2> QED BY <1>4, <1>5, <2>1, UpwardInduction
<1>7. PICK j \in Nat : Len(text) = m + j
  <2>1. Len(text) - m \in Nat /\ Len(text) = m + (Len(text) - m)
    BY <1>3
  <2> QED BY <2>1
<1>8. turns[m + j] = turns[m]
  <2>1. j \in G
    BY <1>6
  <2>2. m + j <= Len(text)
    BY <1>3, <1>7
  <2> QED BY <2>1, <2>2
<1> QED BY <1>7, <1>8 DEF turns

\* At the bracket the loop ends.
LEMMA TurnsEnd ==
  ASSUME NEW load, NEW bracket, NEW text \in Seq(Char), NEW k \in Nat,
         k < Len(text), NEW node, NEW rest, NEW here, here # << >>,
         NonBlank(here) = here, Head(here) = bracket, From(here, 1) = rest,
         Turns(load, bracket, text)[k] = Opened(node, here)
  PROVE  AfterLoop(load, bracket, text) = Ended(node, rest)
<1> DEFINE turns == Turns(load, bracket, text)
           Over(j) == ~turns[j].open \/ j = Len(text)
           last == CHOOSE j \in 0..Len(text) : Over(j)
<1>1. turns[k] = Opened(node, here)
  OBVIOUS
<1>2. \A j \in 1..Len(text) : turns[j] = Turn(load, bracket, turns[j - 1])
  BY TurnsRun
<1>3. \A m \in 0..Len(text) : ~turns[m].open => turns[Len(text)] = turns[m]
  BY TurnsStay
<1>4. AfterLoop(load, bracket, text) = turns[last]
  BY DEF AfterLoop
<1> HIDE DEF turns
<1>5. Len(text) \in Nat
  OBVIOUS
<1>6. turns[k + 1] = Ended(node, rest)
  <2>1. k + 1 \in 1..Len(text) /\ (k + 1) - 1 = k
    BY <1>5
  <2>2. turns[k + 1] = Turn(load, bracket, Opened(node, here))
    BY <1>1, <1>2, <2>1
  <2>3. Turn(load, bracket, Opened(node, here)) = Ended(node, rest)
    BY DEF Turn, Opened, Ended
  <2> QED BY <2>2, <2>3
<1>7. turns[Len(text)] = Ended(node, rest)
  <2>1. k + 1 \in 0..Len(text)
    BY <1>5
  <2>2. ~Ended(node, rest).open
    BY DEF Ended
  <2> QED BY <1>3, <1>6, <2>1, <2>2
<1>8. last \in 0..Len(text) /\ Over(last)
  <2>1. Len(text) \in 0..Len(text) /\ Over(Len(text))
    BY <1>5
  <2> QED BY <2>1
<1> HIDE DEF last
<1>9. turns[last] = Ended(node, rest)
  BY <1>3, <1>7, <1>8
<1> QED BY <1>4, <1>9

\* What a turn takes before the bracket and the end of the text.
Taking(load, bracket, done, text) ==
  IF bracket = "]" THEN WithItem(load, done, text) ELSE WithField(load, done, text)

\* A turn of the loop of a list that does not see its bracket reads the next item.
LEMMA TurnOn ==
  ASSUME NEW load, NEW done, NEW text, NonBlank(text) = text, text # << >>, NEW all,
         NEW left, NEW bracket, Head(text) # bracket,
         Taking(load, bracket, done, text) = Read(all, left)
  PROVE  Turn(load, bracket, Opened(done, text)) = Opened(all, left)
<1>1. Opened(done, text).open /\ Opened(done, text).node = done /\ Opened(done, text).rest = text
  BY DEF Opened
<1>2. Read(all, left).node = all /\ Read(all, left).rest = left
  BY DEF Read
<1>3. Turn(load, bracket, Opened(done, text))
        = [open |-> TRUE, node |-> Taking(load, bracket, done, text).node,
           rest |-> Taking(load, bracket, done, text).rest]
  BY <1>1 DEF Turn, Taking
<1> QED BY <1>2, <1>3 DEF Opened

\* What operator<< prints of a string, an array or a map.
NodeLike(text) ==
  text \in Seq(Char) /\ text # << >> /\ text[1] \in {"\"", "[", "{"}

\* load gets this node from the text, with a blank before it or not, and leaves what is
\* behind it.
Reads(load, text, node) ==
  \A rest \in Seq(Char) :
    /\ load[text \o rest] = Read(node, rest)
    /\ load[<<" ">> \o (text \o rest)] = Read(node, rest)

\* A text like that is not taken for white space, a comma or a bracket.
LEMMA NodeFront ==
  ASSUME NEW t, NodeLike(t), NEW tail \in Seq(Char)
  PROVE  /\ t \o tail \in Seq(Char) /\ t \o tail # << >>
         /\ NonBlank(t \o tail) = t \o tail /\ NonBlank(<<" ">> \o (t \o tail)) = t \o tail
         /\ Head(t \o tail) = t[1] /\ Head(t \o tail) \notin {",", "]", "}"}
<1> DEFINE text == t \o tail
<1>0. t[1] \in {"\"", "[", "{"}
  BY DEF NodeLike
<1>1. t \in Seq(Char) /\ t # << >>
  BY DEF NodeLike
<1>2. Len(t) \in Nat \ {0} /\ Len(tail) \in Nat
  <2>1. Len(t) \in Nat /\ Len(tail) \in Nat
    BY <1>1
  <2>2. Len(t) # 0
    BY <1>1, EmptySeq
  <2> QED BY <2>1, <2>2
<1>3. text \in Seq(Char) /\ text[1] = t[1] /\ Len(text) = Len(t) + Len(tail)
  <2>1. /\ text \in Seq(Char) /\ Len(text) = Len(t) + Len(tail)
        /\ \A i \in 1..(Len(t) + Len(tail)) :
             text[i] = IF i <= Len(t) THEN t[i] ELSE tail[i - Len(t)]
    BY <1>1, ConcatProperties
  <2>2. 1 \in 1..(Len(t) + Len(tail)) /\ 1 <= Len(t)
    BY <1>2
  <2> HIDE DEF text
  <2> QED BY <2>1, <2>2
<1> HIDE DEF text
<1>4. text # << >>
  BY <1>2, <1>3, EmptySeq
<1>5. text[1] \notin Blank
  BY <1>0, <1>3, LayoutChars
<1>6. NonBlank(text) = text /\ NonBlank(<<" ">> \o text) = text
  BY <1>3, <1>4, <1>5, NonBlankIs
<1>7. Head(text) = text[1]
  BY <1>3, <1>4
<1>8. text[1] \notin {",", "]", "}"}
  BY <1>0, <1>3
<1> QED BY <1>3, <1>4, <1>6, <1>7, <1>8 DEF text

\* Turn after turn, the loop gets over this text, and has these items or fields.
TakenBy(load, bracket, inner, items) ==
  \A rest \in Seq(Char) :
    \E k \in 0..Len(inner) : Turns(load, bracket, inner \o rest)[k] = Opened(items, rest)

\* The text of an item or a field, with what stands before it.
Follows(part, text) == part \in {text, Between \o text}

\* A turn of LoadArray's loop takes the next item.
LEMMA ItemTurn ==
  ASSUME NEW load, NEW items, NEW t, NEW node, NodeLike(t), Reads(load, t, node),
         NEW part, Follows(part, t), NEW tail \in Seq(Char)
  PROVE  Turn(load, Square, Opened(items, part \o tail)) = Opened(Append(items, node), tail)
<1> DEFINE text == t \o tail
<1>1. /\ text \in Seq(Char) /\ text # << >> /\ NonBlank(text) = text
      /\ Head(text) \notin {",", "]", "}"}
  BY NodeFront
<1>2. load[text] = Read(node, tail)
  BY DEF Reads
<1>6. load[<<" ">> \o text] = Read(node, tail)
  BY DEF Reads
<1>3. (Between \o t) \o tail = <<",">> \o (<<" ">> \o text)
  BY BetweenSplit DEF NodeLike
<1> HIDE DEF text
<1>7. \A any : WithItem(load, items, any) = Taking(load, Square, items, any)
  BY DEF Taking, Square
<1>8. Head(text) # Square
  BY <1>1 DEF Square
<1>9. Square # ","
  BY DEF Square
<1>4. Turn(load, Square, Opened(items, text)) = Opened(Append(items, node), tail)
  <2>1. WithItem(load, items, text) = Read(Append(items, node), tail)
    <3>1. Head(text) # ","
      BY <1>1
    <3>2. load[text].node = node /\ load[text].rest = tail
      BY <1>2 DEF Read
    <3> QED BY <3>1, <3>2 DEF WithItem
  <2>2. Taking(load, Square, items, text) = Read(Append(items, node), tail)
    BY <1>7, <2>1
  <2>3. NonBlank(text) = text /\ text # << >>
    BY <1>1
  <2> QED BY <1>8, <2>2, <2>3, TurnOn
<1>5. Turn(load, Square, Opened(items, <<",">> \o (<<" ">> \o text)))
        = Opened(Append(items, node), tail)
  <2> DEFINE comma == ","
             blank == " "
             behind == <<blank>> \o text
             more == <<comma>> \o behind
  <2>1. comma \in Char /\ blank \in Char /\ comma \notin Blank /\ comma # Square
    BY <1>9, LayoutChars DEF Layout
  <2>2. load[behind] = Read(node, tail)
    BY <1>6
  <2> HIDE DEF comma, blank
  <2>3. behind \in Seq(Char)
    BY <1>1, <2>1, FrontChar
  <2> HIDE DEF behind
  <2>4. /\ more \in Seq(Char) /\ more # << >> /\ more[1] = comma /\ Head(more) = comma
        /\ Tail(more) = behind
    BY <2>1, <2>3, FrontChar
  <2> HIDE DEF more
  <2>5. NonBlank(more) = more
    BY <2>1, <2>4, NonBlankIs
  <2>6. WithItem(load, items, more) = Read(Append(items, node), tail)
    <3>1. Head(more) = ","
      BY <2>4 DEF comma
    <3>2. load[behind].node = node /\ load[behind].rest = tail
      BY <2>2 DEF Read
    <3> QED BY <2>4, <3>1, <3>2 DEF WithItem
  <2>7. Turn(load, Square, Opened(items, more)) = Opened(Append(items, node), tail)
    <3>1. Head(more) # Square /\ more # << >>
      BY <2>1, <2>4
    <3>2. Taking(load, Square, items, more) = Read(Append(items, node), tail)
      BY <1>7, <2>6
    <3> QED BY <2>5, <3>1, <3>2, TurnOn
  <2> QED BY <2>7 DEF more, behind, comma, blank
<1> QED BY <1>3, <1>4, <1>5 DEF text, Follows

\* What each of a list is mapped to.
Of(s, f) == [i \in DOMAIN s |-> f[s[i]]]

\* A sequence of the values of f at the items of s.
LEMMA OfIs ==
  ASSUME NEW S, NEW s \in Seq(S), NEW f
  PROVE  /\ Of(<< >>, f) = << >>
         /\ Len(Of(s, f)) = Len(s)
         /\ \A i \in 1..Len(s) : Of(s, f)[i] = f[s[i]]
<1>1. \A i \in 1..Len(s) : Of(s, f)[i] = f[s[i]]
  BY DEF Of
<1>2. Len(Of(s, f)) = Len(s)
  BY DEF Of
<1>3. Of(<< >>, f) = << >>
  BY DEF Of
<1> QED BY <1>1, <1>2, <1>3

\* The values of f at the items of s are of the type of f.
LEMMA OfType ==
  ASSUME NEW S, NEW T, NEW f, \A x \in S : f[x] \in T, NEW s \in Seq(S)
  PROVE  Of(s, f) \in Seq(T)
<1>1. Len(s) \in Nat /\ DOMAIN s = 1..Len(s)
  OBVIOUS
<1>2. \A i \in 1..Len(s) : s[i] \in S
  BY ElementOfSeq
<1> QED BY <1>1, <1>2 DEF Of

\* One item more, one value more.
LEMMA OfGrows ==
  ASSUME NEW S, NEW f, NEW s \in Seq(S), NEW e \in S
  PROVE  Of(Append(s, e), f) = Append(Of(s, f), f[e])
<1> DEFINE T == {f[x] : x \in S}
<1>0. \A x \in S : f[x] \in T
  OBVIOUS
<1> HIDE DEF T
<1> DEFINE more == Append(s, e)
<1>1. /\ more \in Seq(S) /\ Len(more) = Len(s) + 1
      /\ \A i \in 1..Len(s) : more[i] = s[i]
      /\ more[Len(s) + 1] = e
  BY AppendProperties
<1> HIDE DEF more
<1>2. /\ Of(s, f) \in Seq(T) /\ Len(Of(s, f)) = Len(s)
      /\ \A i \in 1..Len(s) : Of(s, f)[i] = f[s[i]]
  <2>1. Of(s, f) \in Seq(T)
    BY <1>0, OfType
  <2>2. Len(Of(s, f)) = Len(s)
    BY OfIs
  <2>3. \A i \in 1..Len(s) : Of(s, f)[i] = f[s[i]]
    BY OfIs
  <2> QED BY <2>1, <2>2, <2>3
<1>3. /\ Of(more, f) \in Seq(T) /\ Len(Of(more, f)) = Len(s) + 1
      /\ \A i \in 1..(Len(s) + 1) : Of(more, f)[i] = f[more[i]]
  <2>1. Of(more, f) \in Seq(T)
    BY <1>0, <1>1, OfType
  <2>2. Len(Of(more, f)) = Len(more)
    BY <1>1, OfIs
  <2>3. \A i \in 1..Len(more) : Of(more, f)[i] = f[more[i]]
    BY <1>1, OfIs
  <2> QED BY <1>1, <2>1, <2>2, <2>3
<1>4. \A i \in 1..Len(s) : i \in 1..(Len(s) + 1) /\ Of(more, f)[i] = Of(s, f)[i]
  <2> SUFFICES ASSUME NEW i \in 1..Len(s)
               PROVE  i \in 1..(Len(s) + 1) /\ Of(more, f)[i] = Of(s, f)[i]
    OBVIOUS
  <2>1. i \in 1..(Len(s) + 1)
    OBVIOUS
  <2> QED BY <1>1, <1>2, <1>3, <2>1
<1>5. Of(more, f)[Len(s) + 1] = f[e]
  <2>1. Len(s) + 1 \in 1..(Len(s) + 1)
    OBVIOUS
  <2> QED BY <1>1, <1>3, <2>1
<1>6. Of(more, f) = Append(Of(s, f), Of(more, f)[Len(Of(s, f)) + 1])
  BY <1>2, <1>3, <1>4, OneMore
<1> QED BY <1>2, <1>5, <1>6 DEF more

\* Texts in a list, one after the other.
LEMMA ItemsGrow ==
  ASSUME NEW items \in Seq(Seq(Char)), NEW item \in Seq(Char)
  PROVE  /\ Joined(<< >>) = << >>
         /\ Joined(items) \in Seq(Char)
         /\ Joined(Append(items, item)) =
              Joined(items) \o ((IF items = << >> THEN << >> ELSE Between) \o item)
<1>1. Joined(<< >>) = << >>
  BY JoinedIs, LayoutChars
<1>2. Joined(items) \in Seq(Char)
  BY JoinedIs, LayoutChars
<1>3. Joined(Append(items, item)) =
        Joined(items) \o ((IF items = << >> THEN << >> ELSE Between) \o item)
  BY JoinedIs, LayoutChars
<1> QED BY <1>1, <1>2, <1>3

\* LoadArray's loop gets over the items of a list, each as it is read alone.
LEMMA ItemsTaken ==
  ASSUME NEW load, NEW S, NEW text, NEW node,
         \A n \in S : NodeLike(text[n]) /\ Reads(load, text[n], node[n]),
         NEW all \in Seq(S)
  PROVE  TakenBy(load, Square, Joined(Of(all, text)), Of(all, node))
<1> DEFINE joined(s) == Joined(Of(s, text))
           Taken(s, tail) == \E k \in 0..Len(joined(s)) :
                               Turns(load, Square, joined(s) \o tail)[k]
                                 = Opened(Of(s, node), tail)
           G == {s \in Seq(S) : \A tail \in Seq(Char) : Taken(s, tail)}
<1>0. Layout \subseteq Char
  BY LayoutChars
<1>1. << >> \in G
  <2>1. << >> \in Seq(S) /\ << >> \in Seq(Seq(Char)) /\ << >> \in Seq(Char)
    OBVIOUS
  <2>2. Of(<< >>, text) = << >> /\ Of(<< >>, node) = << >>
    BY <2>1, OfIs
  <2>3. joined(<< >>) = << >>
    <3>1. Joined(<< >>) = << >>
      BY <1>0, <2>1, JoinedIs
    <3> QED BY <2>2, <3>1
  <2>4. ASSUME NEW tail \in Seq(Char) PROVE Taken(<< >>, tail)
    <3>1. << >> \o tail = tail
      BY ConcatEmptySeq
    <3>2. Turns(load, Square, tail)[0] = Begun(tail)
      BY TurnsRun
    <3>3. 0 \in 0..Len(<< >>)
      OBVIOUS
    <3> HIDE DEF joined
    <3> QED BY <2>2, <2>3, <3>1, <3>2, <3>3 DEF Begun, Opened
  <2> HIDE DEF Taken
  <2> QED BY <2>1, <2>4
<1>2. ASSUME NEW s \in G, NEW e \in S PROVE Append(s, e) \in G
  <2>1. s \in Seq(S) /\ \A tail \in Seq(Char) : Taken(s, tail)
    OBVIOUS
  <2> HIDE DEF G
  <2>2. Append(s, e) \in Seq(S)
    BY <2>1, AppendProperties
  <2>3. /\ Of(s, text) \in Seq(Seq(Char)) /\ Len(Of(s, text)) = Len(s)
        /\ Of(Append(s, e), text) = Append(Of(s, text), text[e])
    <3>1. Of(s, text) \in Seq(Seq(Char)) /\ Len(Of(s, text)) = Len(s)
      <4>1. Of(s, text) \in Seq(Seq(Char))
        <5>1. \A x \in S : text[x] \in Seq(Char)
          BY DEF NodeLike
        <5> QED BY <2>1, <5>1, OfType
      <4>2. Len(Of(s, text)) = Len(s)
        BY <2>1, OfIs
      <4> QED BY <4>1, <4>2
    <3>2. Of(Append(s, e), text) = Append(Of(s, text), text[e])
      BY <2>1, OfGrows
    <3> QED BY <3>1, <3>2
  <2>4. Of(Append(s, e), node) = Append(Of(s, node), node[e])
    BY <2>1, OfGrows
  <2> DEFINE part == (IF Of(s, text) = << >> THEN << >> ELSE Between) \o text[e]
  <2>5. joined(s) \in Seq(Char) /\ joined(Append(s, e)) = joined(s) \o part
    <3>1. /\ Joined(Of(s, text)) \in Seq(Char)
          /\ Joined(Append(Of(s, text), text[e])) = Joined(Of(s, text)) \o part
      <4>1. text[e] \in Seq(Char)
        BY DEF NodeLike
      <4> QED BY <2>3, <4>1, ItemsGrow
    <3> QED BY <2>3, <3>1
  <2>6. NodeLike(text[e]) /\ Reads(load, text[e], node[e])
    OBVIOUS
  <2>7. part \in Seq(Char) /\ part # << >>
    <3>1. text[e] \in Seq(Char) /\ text[e] # << >>
      BY <2>6 DEF NodeLike
    <3>2. Between \in Seq(Char) /\ Len(text[e]) \in Nat \ {0} /\ Len(Between) \in Nat
      <4>1. Between \in Seq(Char)
        BY <1>0, LayoutTexts
      <4>2. Len(text[e]) \in Nat /\ Len(Between) \in Nat
        BY <3>1, <4>1
      <4>3. Len(text[e]) # 0
        BY <3>1, EmptySeq
      <4> QED BY <4>1, <4>2, <4>3
    <3>3. << >> \o text[e] = text[e]
      BY <3>1, ConcatEmptySeq
    <3>4. Between \o text[e] \in Seq(Char) /\ Len(Between \o text[e]) = Len(Between) + Len(text[e])
      BY <3>1, <3>2, ConcatProperties
    <3>5. Between \o text[e] # << >>
      BY <3>2, <3>4, EmptySeq
    <3> QED BY <3>1, <3>3, <3>4, <3>5
  <2>8. ASSUME NEW tail \in Seq(Char)
        PROVE  Turn(load, Square, Opened(Of(s, node), part \o tail))
                 = Opened(Of(Append(s, e), node), tail)
    <3>1. text[e] \in Seq(Char)
      BY DEF NodeLike
    <3>2. << >> \o text[e] = text[e]
      BY <3>1, ConcatEmptySeq
    <3>3. part \in {text[e], Between \o text[e]}
      BY <3>2
    <3> DEFINE t == text[e]
               v == node[e]
               items == Of(s, node)
    <3>4. NodeLike(t) /\ Reads(load, t, v) /\ Follows(part, t)
      BY <2>6, <3>3 DEF Follows
    <3> HIDE DEF part, t, v, items
    <3>5. Turn(load, Square, Opened(items, part \o tail)) = Opened(Append(items, v), tail)
      BY <3>4, ItemTurn
    <3> QED BY <2>4, <3>5 DEF items, v
  <2> HIDE DEF part, joined
  <2>9. ASSUME NEW tail \in Seq(Char) PROVE Taken(Append(s, e), tail)
    <3> DEFINE whole == joined(s) \o (part \o tail)
               turns == Turns(load, Square, whole)
    <3>1. part \o tail \in Seq(Char)
      BY <2>7, ConcatProperties
    <3>2. joined(Append(s, e)) \o tail = whole
      <4>1. (joined(s) \o part) \o tail = joined(s) \o (part \o tail)
        BY <2>5, <2>7, TextsJoin
      <4> QED BY <2>5, <4>1
    <3>3. PICK k \in 0..Len(joined(s)) : turns[k] = Opened(Of(s, node), part \o tail)
      BY <2>1, <3>1
    <3>4. whole \in Seq(Char) /\ Len(whole) = Len(joined(s)) + Len(part \o tail)
      BY <2>5, <3>1, ConcatProperties
    <3> HIDE DEF whole
    <3>5. \A j \in 1..Len(whole) : turns[j] = Turn(load, Square, turns[j - 1])
      BY <3>4, TurnsRun
    <3>6. /\ Len(joined(Append(s, e))) = Len(joined(s)) + Len(part)
          /\ Len(part \o tail) = Len(part) + Len(tail)
      BY <2>5, <2>7, ConcatProperties
    <3>7. Len(joined(s)) \in Nat /\ Len(part) \in Nat /\ Len(part) >= 1 /\ Len(tail) \in Nat
      <4>1. Len(joined(s)) \in Nat /\ Len(part) \in Nat /\ Len(tail) \in Nat
        BY <2>5, <2>7
      <4>2. Len(part) # 0
        BY <2>7, EmptySeq
      <4> QED BY <4>1, <4>2
    <3>8. k + 1 \in 1..Len(whole) /\ (k + 1) - 1 = k /\ k + 1 \in 0..Len(joined(Append(s, e)))
      BY <3>4, <3>6, <3>7
    <3>9. turns[k + 1] = Opened(Of(Append(s, e), node), tail)
      BY <2>8, <3>3, <3>5, <3>8
    <3> QED BY <3>2, <3>8, <3>9
  <2> HIDE DEF Taken
  <2> QED BY <2>2, <2>9 DEF G
<1>3. G = Seq(S)
  <2>1. G \in SUBSET Seq(S)
    OBVIOUS
  <2> HIDE DEF G
  <2> QED BY <1>1, <1>2, <2>1, GrowingInduction
<1> QED BY <1>3 DEF TakenBy

-----------------------------------------------------------------------------
(* Reading a map *)

\* The spelling leaves the letters as they are.
Lettered(spelling) == spelling \in Spelt /\ \A c \in Letter : spelling[c] = <<c>>

\* So it leaves a name of letters.
LEMMA NamesStay ==
  ASSUME NEW spelling, Lettered(spelling), NEW name \in Seq(Letter)
  PROVE  Respelled(name, spelling) = name
<1> DEFINE G == {s \in Seq(Letter) : Respelled(s, spelling) = s}
<1>1. << >> \in G
  BY RespelledAppend DEF Lettered
<1>2. Letter \subseteq Char
  BY DEF Char
<1>3. ASSUME NEW s \in G, NEW c \in Letter PROVE Append(s, c) \in G
  <2>1. s \in Seq(Char) /\ c \in Char /\ Respelled(s, spelling) = s
    BY <1>2
  <2>2. Respelled(Append(s, c), spelling) = s \o spelling[c]
    BY <2>1, RespelledAppend DEF Lettered
  <2>3. spelling[c] = <<c>>
    BY DEF Lettered
  <2>4. s \o <<c>> = Append(s, c)
    BY <2>1
  <2> QED BY <2>2, <2>3, <2>4
<1>4. G = Seq(Letter)
  <2>1. G \in SUBSET Seq(Letter)
    OBVIOUS
  <2> HIDE DEF G
  <2> QED BY <1>1, <1>3, <2>1, GrowingInduction
<1> QED BY <1>4

\* A text behind its opening quote is a name.
LEMMA NameRead ==
  ASSUME NEW name \in Seq(Letter), NEW rest \in Seq(Char)
  PROVE  LoadString((name \o <<"\"">>) \o rest) = Read(String(name), rest)
<1>1. Lettered(Spelling) /\ Lettered(Kept)
  <2>1. ASSUME NEW c \in Letter PROVE Spelling[c] = <<c>> /\ Kept[c] = <<c>>
    <3>1. c \in Char /\ c \notin {"\"", "\\", "\n"}
      BY JsonStringAssumption DEF Char, Blank, Other
    <3> QED BY <3>1, SpellingTables
  <2> QED BY <2>1, SpellingTypes DEF Lettered
<1>2. Respelled(name, Spelling) = name /\ Respelled(name, Kept) = name
  BY <1>1, NamesStay
<1>3. name \in Seq(Char)
  BY DEF Char
<1>4. LoadString((Respelled(name, Spelling) \o <<"\"">>) \o rest)
        = Read(String(Respelled(name, Kept)), rest)
  BY <1>3, SpellingsRead, ReadsBack
<1> QED BY <1>2, <1>4

\* LoadDict gets the name and, behind the colon, the value of a field.
LEMMA FieldGot ==
  ASSUME NEW load, NEW name \in Seq(Letter), NEW t, NEW v, NodeLike(t),
         Reads(load, t, v), NEW tail \in Seq(Char)
  PROVE  /\ NodeLike(Field(name, t))
         /\ LET got == LoadString(Tail(Field(name, t) \o tail))
            IN  /\ got.node.string = name
                /\ load[Tail(NonBlank(got.rest))] = Read(v, tail)
<1> DEFINE quote == "\""
           colon == ":"
           blank == " "
           w == <<blank>> \o (t \o tail)
           z == <<colon>> \o w
           y == (name \o <<quote>>) \o z
           x == <<quote>> \o y
<1>1. name \in Seq(Char) /\ t \in Seq(Char)
  <2>1. t \in Seq(Char)
    BY DEF NodeLike
  <2> QED BY <2>1 DEF Char
<1>2. Field(name, t) \o tail = x
  BY <1>1, FieldSplit
<1>3. Field(name, t) = Field(name, t) \o << >> /\ << >> \in Seq(Char)
  <2>1. << >> \in Seq(Char) /\ Layout \subseteq Char
    <3>1. << >> \in Seq(Char)
      OBVIOUS
    <3> QED BY <3>1, LayoutChars
  <2>2. Field(name, t) \in Seq(Char)
    BY <1>1, <2>1, FieldIs
  <2> QED BY <2>1, <2>2, ConcatEmptySeq
<1>4. load[w] = Read(v, tail)
  BY DEF Reads
<1>5. \A rest : LoadString((name \o <<quote>>) \o rest) = LoadString((name \o <<"\"">>) \o rest)
  OBVIOUS
<1>6. quote \in Char /\ colon \in Char /\ blank \in Char /\ colon \notin Blank
  BY LayoutChars DEF Layout
<1>7. quote \in {"\"", "[", "{"}
  OBVIOUS
<1>8. NodeLike(Field(name, t))
  <2> DEFINE end == (name \o <<quote>>) \o (<<colon>> \o (<<blank>> \o (t \o << >>)))
  <2>1. Field(name, t) = <<quote>> \o end
    <3>1. Field(name, t) \o << >> = <<quote>> \o end
      BY <1>1, <1>3, FieldSplit
    <3> QED BY <1>3, <3>1
  <2> HIDE DEF quote, colon, blank
  <2>2. end \in Seq(Char)
    <3>1. t \o << >> \in Seq(Char)
      BY <1>1, <1>3, ConcatProperties
    <3>2. <<blank>> \o (t \o << >>) \in Seq(Char)
      BY <1>6, <3>1, FrontChar
    <3>3. <<colon>> \o (<<blank>> \o (t \o << >>)) \in Seq(Char)
      BY <1>6, <3>2, FrontChar
    <3>4. <<quote>> \in Seq(Char)
      BY <1>6
    <3>5. name \o <<quote>> \in Seq(Char)
      BY <1>1, <3>4, ConcatProperties
    <3> QED BY <3>3, <3>5, ConcatProperties
  <2> HIDE DEF end
  <2>3. /\ <<quote>> \o end \in Seq(Char) /\ <<quote>> \o end # << >>
        /\ (<<quote>> \o end)[1] = quote
    BY <1>6, <2>2, FrontChar
  <2> QED BY <1>7, <2>1, <2>3 DEF NodeLike
<1>9. w \in Seq(Char)
  <2> HIDE DEF blank
  <2>1. t \o tail \in Seq(Char)
    BY <1>1, ConcatProperties
  <2> QED BY <1>6, <2>1, FrontChar
<1> HIDE DEF w, blank
<1>10. /\ z \in Seq(Char) /\ z # << >> /\ z[1] = colon /\ Tail(z) = w
  <2> HIDE DEF colon
  <2> QED BY <1>6, <1>9, FrontChar, ZenonT(60)
<1> HIDE DEF z, colon
<1>11. NonBlank(z) = z
  BY <1>6, <1>10, NonBlankIs
<1>12. LoadString(y) = Read(String(name), z)
  <2>1. LoadString((name \o <<"\"">>) \o z) = Read(String(name), z)
    BY <1>10, NameRead
  <2> QED BY <1>5, <2>1
<1>13. y \in Seq(Char)
  <2> HIDE DEF quote
  <2>1. <<quote>> \in Seq(Char)
    BY <1>6
  <2>2. name \o <<quote>> \in Seq(Char)
    BY <1>1, <2>1, ConcatProperties
  <2> QED BY <1>10, <2>2, ConcatProperties
<1> HIDE DEF y, quote
<1>14. Tail(x) = y
  BY <1>6, <1>13, FrontChar
<1> HIDE DEF x
<1> DEFINE got == LoadString(Tail(Field(name, t) \o tail))
<1>15. got = Read(String(name), z)
  BY <1>2, <1>12, <1>14
<1> HIDE DEF got
<1>16. got.node.string = name /\ got.rest = z
  BY <1>15 DEF Read, String
<1>17. load[Tail(NonBlank(got.rest))] = Read(v, tail)
  BY <1>4, <1>10, <1>11, <1>16
<1> QED BY <1>8, <1>16, <1>17 DEF got

\* A turn of LoadDict's loop takes the next field.
LEMMA FieldTurn ==
  ASSUME NEW load, NEW fields, NEW name \in Seq(Letter), NEW t, NEW v, NodeLike(t),
         Reads(load, t, v), NEW part, Follows(part, Field(name, t)),
         NEW tail \in Seq(Char)
  PROVE  Turn(load, Brace, Opened(fields, part \o tail))
           = Opened(Emplaced(fields, name, v), tail)
<1> DEFINE field == Field(name, t)
           text == field \o tail
           got == LoadString(Tail(text))
           more == Emplaced(fields, name, v)
<1>1. NodeLike(field) /\ got.node.string = name /\ load[Tail(NonBlank(got.rest))] = Read(v, tail)
  BY FieldGot
<1>2. (Between \o field) \o tail = <<",">> \o (<<" ">> \o text)
  BY <1>1, BetweenSplit DEF NodeLike
<1> HIDE DEF field
<1>3. /\ text \in Seq(Char) /\ text # << >> /\ NonBlank(text) = text
      /\ NonBlank(<<" ">> \o text) = text
      /\ Head(text) \notin {",", "]", "}"}
  BY <1>1, NodeFront
<1>4. \A any : (IF Head(any) = "," THEN NonBlank(Tail(any)) ELSE any) = text
                 => WithField(load, fields, any) = Read(more, tail)
  <2> HIDE DEF text, more
  <2> SUFFICES ASSUME NEW any,
                      (IF Head(any) = "," THEN NonBlank(Tail(any)) ELSE any) = text
               PROVE  WithField(load, fields, any) = Read(more, tail)
    OBVIOUS
  <2>1. WithField(load, fields, any)
          = Read(Emplaced(fields, got.node.string, load[Tail(NonBlank(got.rest))].node),
                 load[Tail(NonBlank(got.rest))].rest)
    BY DEF WithField
  <2>2. Read(v, tail).node = v /\ Read(v, tail).rest = tail
    BY DEF Read
  <2> QED BY <1>1, <2>1, <2>2 DEF more
<1> HIDE DEF text, more
<1>7. Head(text) # Brace
  BY <1>3 DEF Brace
<1>9. Brace # ","
  BY DEF Brace
<1>8. \A any : WithField(load, fields, any) = Taking(load, Brace, fields, any)
  BY DEF Taking, Brace
<1>5. Turn(load, Brace, Opened(fields, text)) = Opened(more, tail)
  <2>1. Head(text) # ","
    BY <1>3
  <2>2. WithField(load, fields, text) = Read(more, tail)
    BY <1>4, <2>1
  <2>3. NonBlank(text) = text /\ text # << >>
    BY <1>3
  <2>4. Taking(load, Brace, fields, text) = Read(more, tail)
    BY <1>8, <2>2
  <2> QED BY <1>7, <2>3, <2>4, TurnOn
<1>6. Turn(load, Brace, Opened(fields, <<",">> \o (<<" ">> \o text))) = Opened(more, tail)
  <2> DEFINE comma == ","
             blank == " "
             behind == <<blank>> \o text
             all == <<comma>> \o behind
  <2>1. comma \in Char /\ blank \in Char /\ comma \notin Blank /\ comma # Brace
    BY <1>9, LayoutChars DEF Layout
  <2>2. NonBlank(behind) = text
    BY <1>3
  <2> HIDE DEF comma, blank
  <2>3. behind \in Seq(Char)
    BY <1>3, <2>1, FrontChar
  <2> HIDE DEF behind
  <2>4. /\ all \in Seq(Char) /\ all # << >> /\ all[1] = comma /\ Head(all) = comma
        /\ Tail(all) = behind
    BY <2>1, <2>3, FrontChar
  <2> HIDE DEF all
  <2>5. NonBlank(all) = all
    BY <2>1, <2>4, NonBlankIs
  <2>6. WithField(load, fields, all) = Read(more, tail)
    <3>1. Head(all) = ","
      BY <2>4 DEF comma
    <3> QED BY <1>4, <2>2, <2>4, <3>1
  <2>7. Turn(load, Brace, Opened(fields, all)) = Opened(more, tail)
    <3>1. Head(all) # Brace /\ all # << >>
      BY <2>1, <2>4
    <3>2. Taking(load, Brace, fields, all) = Read(more, tail)
      BY <1>8, <2>6
    <3> QED BY <2>5, <3>1, <3>2, TurnOn
  <2> QED BY <2>7 DEF all, behind, comma, blank
<1> QED BY <1>2, <1>5, <1>6 DEF text, more, field, Follows

\* The values of those of a map's names that are in the list.
FieldsOf(s, f) == [name \in Range(s) \cap DOMAIN f |-> f[name]]

\* Of the names in a sequence, only those f has are fields; each is put in once.
LEMMA FieldsOfIs ==
  ASSUME NEW S, NEW s \in Seq(S), NEW f, NEW e \in S
  PROVE  /\ FieldsOf(<< >>, f) = << >>
         /\ Range(Append(s, e)) = Range(s) \cup {e}
         /\ e \notin DOMAIN f => FieldsOf(Append(s, e), f) = FieldsOf(s, f)
         /\ e \in DOMAIN f => FieldsOf(Append(s, e), f) = Emplaced(FieldsOf(s, f), e, f[e])
<1>1. FieldsOf(<< >>, f) = << >>
  <2>1. Range(<< >>) = {}
    BY DEF Range
  <2>2. FieldsOf(<< >>, f) = [name \in {} |-> f[name]]
    BY <2>1 DEF FieldsOf
  <2>3. << >> = [name \in {} |-> f[name]]
    OBVIOUS
  <2> QED BY <2>2, <2>3
<1>2. Range(Append(s, e)) = Range(s) \cup {e}
  <2>1. /\ Append(s, e) \in Seq(S) /\ Len(Append(s, e)) = Len(s) + 1
        /\ \A i \in 1..Len(s) : Append(s, e)[i] = s[i]
        /\ Append(s, e)[Len(s) + 1] = e
    BY AppendProperties
  <2> DEFINE more == Append(s, e)
  <2> HIDE DEF more
  <2>2. /\ more \in Seq(S) /\ Len(more) = Len(s) + 1
        /\ \A i \in 1..Len(s) : more[i] = s[i]
        /\ more[Len(s) + 1] = e
    BY <2>1 DEF more
  <2>3. Range(more) = {more[i] : i \in 1..Len(more)} /\ Range(s) = {s[i] : i \in 1..Len(s)}
    BY <2>2, RangeEquality
  <2>4. Len(s) \in Nat
    OBVIOUS
  <2>5. ASSUME NEW x \in Range(more) PROVE x \in Range(s) \cup {e}
    <3>1. PICK i \in 1..Len(more) : x = more[i]
      BY <2>3
    <3>2. CASE i = Len(s) + 1
      BY <2>2, <3>1, <3>2
    <3>3. CASE i # Len(s) + 1
      <4>1. i \in 1..Len(s)
        BY <2>2, <2>4, <3>3
      <4> QED BY <2>2, <2>3, <3>1, <4>1
    <3> QED BY <3>2, <3>3
  <2>6. ASSUME NEW x \in Range(s) \cup {e} PROVE x \in Range(more)
    <3>1. CASE x = e
      <4>1. Len(s) + 1 \in 1..Len(more)
        BY <2>2, <2>4
      <4> QED BY <2>2, <2>3, <3>1, <4>1
    <3>2. CASE x \in Range(s)
      <4>1. PICK i \in 1..Len(s) : x = s[i]
        BY <2>3, <3>2
      <4>2. i \in 1..Len(more)
        BY <2>2, <2>4
      <4> QED BY <2>2, <2>3, <4>1, <4>2
    <3> QED BY <3>1, <3>2
  <2> QED BY <2>5, <2>6 DEF more
<1>3. ASSUME e \notin DOMAIN f PROVE FieldsOf(Append(s, e), f) = FieldsOf(s, f)
  <2>1. Range(Append(s, e)) \cap DOMAIN f = Range(s) \cap DOMAIN f
    BY <1>2, <1>3
  <2> QED BY <2>1 DEF FieldsOf
<1>4. ASSUME e \in DOMAIN f
      PROVE  FieldsOf(Append(s, e), f) = Emplaced(FieldsOf(s, f), e, f[e])
  <2> DEFINE R == Range(s) \cap DOMAIN f
             g == FieldsOf(s, f)
  <2>1. g = [name \in R |-> f[name]]
    BY DEF FieldsOf
  <2>2. FieldsOf(Append(s, e), f) = [name \in R \cup {e} |-> f[name]]
    <3>1. Range(Append(s, e)) \cap DOMAIN f = R \cup {e}
      BY <1>2, <1>4
    <3> QED BY <3>1 DEF FieldsOf
  <2> HIDE DEF R, g
  <2>3. DOMAIN g = R
    BY <2>1
  <2>4. Emplaced(g, e, f[e]) = [x \in R \cup {e} |-> IF x \in R THEN g[x] ELSE f[e]]
    BY <2>3 DEF Emplaced
  <2>5. \A x \in R \cup {e} : (IF x \in R THEN g[x] ELSE f[e]) = f[x]
    BY <2>1
  <2>6. Emplaced(g, e, f[e]) = [name \in R \cup {e} |-> f[name]]
    BY <2>4, <2>5
  <2> QED BY <2>2, <2>6 DEF g
<1> QED BY <1>1, <1>2, <1>3, <1>4

\* LoadDict's loop gets over the fields of a map.
LEMMA FieldsTaken ==
  ASSUME NEW load, NEW D \in SUBSET Seq(Letter), NEW text \in [D -> Seq(Char)],
         NEW value, DOMAIN value = D,
         \A name \in D : NodeLike(text[name]) /\ Reads(load, text[name], value[name]),
         NEW all \in Seq(Seq(Letter))
  PROVE  TakenBy(load, Brace, JoinedFields(text, all), FieldsOf(all, value))
<1> DEFINE S == Seq(Letter)
           joined(s) == JoinedFields(text, s)
           Taken(s, tail) == \E k \in 0..Len(joined(s)) :
                               Turns(load, Brace, joined(s) \o tail)[k]
                                 = Opened(FieldsOf(s, value), tail)
           G == {s \in Seq(S) : \A tail \in Seq(Char) : Taken(s, tail)}
<1>02. S \subseteq Seq(Char)
  <2>1. Letter \subseteq Char
    BY DEF Char
  <2> QED BY <2>1
<1>03. DOMAIN text = D /\ DOMAIN value = D
  OBVIOUS
<1>1. << >> \in G
  <2>1. << >> \in Seq(S) /\ << >> \in Seq(Seq(Char)) /\ << >> \in Seq(Char)
    OBVIOUS
  <2>2. FieldsOf(<< >>, value) = << >>
    BY <2>1, FieldsOfIs
  <2>3. joined(<< >>) = << >>
    BY <2>1, FieldsGrow
  <2>4. ASSUME NEW tail \in Seq(Char) PROVE Taken(<< >>, tail)
    <3>1. << >> \o tail = tail
      BY ConcatEmptySeq
    <3>2. Turns(load, Brace, tail)[0] = Begun(tail)
      BY TurnsRun
    <3>3. 0 \in 0..Len(<< >>)
      OBVIOUS
    <3> HIDE DEF joined
    <3> QED BY <2>2, <2>3, <3>1, <3>2, <3>3 DEF Begun, Opened
  <2> HIDE DEF Taken
  <2> QED BY <2>1, <2>4
<1>2. ASSUME NEW s \in G, NEW e \in S PROVE Append(s, e) \in G
  <2>1. s \in Seq(S) /\ \A tail \in Seq(Char) : Taken(s, tail)
    OBVIOUS
  <2> HIDE DEF G
  <2>2. Append(s, e) \in Seq(S) /\ s \in Seq(Seq(Char)) /\ e \in Seq(Char)
    <3>1. Append(s, e) \in Seq(S)
      BY <2>1, AppendProperties
    <3>2. s \in Seq(Seq(Char)) /\ e \in Seq(Char)
      <4> HIDE DEF S
      <4> QED BY <1>02, <2>1
    <3> QED BY <3>1, <3>2
  <2> DEFINE part == FieldPart(text, s, e)
  <2>3. /\ joined(s) \in Seq(Char) /\ part \in Seq(Char)
        /\ joined(Append(s, e)) = joined(s) \o part
    BY <2>2, FieldsGrow
  <2>4. CASE e \notin D
    <3>1. part = << >>
      BY <1>03, <2>4 DEF FieldPart
    <3>2. joined(Append(s, e)) = joined(s)
      BY <2>3, <3>1, ConcatEmptySeq
    <3>3. FieldsOf(Append(s, e), value) = FieldsOf(s, value)
      BY <1>03, <2>1, <2>4, FieldsOfIs
    <3>4. \A tail \in Seq(Char) : Taken(Append(s, e), tail)
      <4> HIDE DEF joined
      <4> QED BY <2>1, <3>2, <3>3
    <3> HIDE DEF Taken
    <3> QED BY <2>2, <3>4 DEF G
  <2>5. CASE e \in D
    <3> DEFINE field == Field(e, text[e])
               sep == IF Range(s) \cap DOMAIN text # {} THEN Between ELSE << >>
    <3>1. part = sep \o field
      BY <1>03, <2>5 DEF FieldPart
    <3>2. NodeLike(text[e]) /\ Reads(load, text[e], value[e])
      BY <2>5
    <3>3. FieldsOf(Append(s, e), value) = Emplaced(FieldsOf(s, value), e, value[e])
      BY <1>03, <2>1, <2>5, FieldsOfIs
    <3>4. field \in Seq(Char) /\ Len(field) >= Len(text[e]) + 2
      BY <2>2, <2>5, FieldIs, LayoutChars
    <3>5. Between \in Seq(Char)
      BY LayoutTexts, LayoutChars
    <3>6. << >> \o field = field
      BY <3>4, ConcatEmptySeq
    <3>7. ASSUME NEW tail \in Seq(Char)
          PROVE  Turn(load, Brace, Opened(FieldsOf(s, value), part \o tail))
                   = Opened(FieldsOf(Append(s, e), value), tail)
      <4>1. e \in Seq(Letter) /\ part \in {field, Between \o field}
        BY <3>1, <3>6
      <4> DEFINE t == text[e]
                 v == value[e]
                 items == FieldsOf(s, value)
      <4>2. NodeLike(t) /\ Reads(load, t, v) /\ e \in Seq(Letter)
            /\ Follows(part, Field(e, t))
        BY <3>2, <4>1 DEF Follows
      <4> HIDE DEF S, part, joined, sep, t, v, items
      <4>3. Turn(load, Brace, Opened(items, part \o tail)) = Opened(Emplaced(items, e, v), tail)
        BY <4>2, FieldTurn
      <4> QED BY <3>3, <4>3 DEF items, v
    <3>8. part # << >>
      <4>1. sep \in Seq(Char)
        <5>1. << >> \in Seq(Char)
          OBVIOUS
        <5> QED BY <3>5, <5>1
      <4> HIDE DEF sep, field, part
      <4>2. Len(part) = Len(sep) + Len(field)
        BY <3>1, <3>4, <4>1, ConcatProperties
      <4>3. Len(sep) \in Nat /\ Len(field) \in Nat /\ Len(text[e]) \in Nat
        BY <2>5, <3>4, <4>1
      <4>4. Len(part) # 0
        BY <3>4, <4>2, <4>3
      <4> QED BY <4>4
    <3> HIDE DEF part, joined, field, sep
    <3>9. ASSUME NEW tail \in Seq(Char) PROVE Taken(Append(s, e), tail)
      <4> DEFINE whole == joined(s) \o (part \o tail)
                 turns == Turns(load, Brace, whole)
      <4>1. part \o tail \in Seq(Char)
        BY <2>3, ConcatProperties
      <4>2. joined(Append(s, e)) \o tail = whole
        <5>1. (joined(s) \o part) \o tail = joined(s) \o (part \o tail)
          BY <2>3, TextsJoin
        <5> QED BY <2>3, <5>1
      <4>3. PICK k \in 0..Len(joined(s)) : turns[k] = Opened(FieldsOf(s, value), part \o tail)
        BY <2>1, <4>1
      <4>4. whole \in Seq(Char) /\ Len(whole) = Len(joined(s)) + Len(part \o tail)
        BY <2>3, <4>1, ConcatProperties
      <4> HIDE DEF whole
      <4>5. \A j \in 1..Len(whole) : turns[j] = Turn(load, Brace, turns[j - 1])
        BY <4>4, TurnsRun
      <4>6. /\ Len(joined(Append(s, e))) = Len(joined(s)) + Len(part)
            /\ Len(part \o tail) = Len(part) + Len(tail)
        BY <2>3, ConcatProperties
      <4>7. Len(joined(s)) \in Nat /\ Len(part) \in Nat /\ Len(part) >= 1 /\ Len(tail) \in Nat
        <5>1. Len(joined(s)) \in Nat /\ Len(part) \in Nat /\ Len(tail) \in Nat
          BY <2>3
        <5>2. Len(part) # 0
          BY <2>3, <3>8, EmptySeq
        <5> QED BY <5>1, <5>2
      <4>8. k + 1 \in 1..Len(whole) /\ (k + 1) - 1 = k /\ k + 1 \in 0..Len(joined(Append(s, e)))
        BY <4>4, <4>6, <4>7
      <4>9. turns[k + 1] = Opened(FieldsOf(Append(s, e), value), tail)
        BY <3>7, <4>3, <4>5, <4>8
      <4> QED BY <4>2, <4>8, <4>9
    <3> HIDE DEF Taken
    <3> QED BY <2>2, <3>9 DEF G
  <2> QED BY <2>4, <2>5
<1>3. G = Seq(S)
  <2>1. G \in SUBSET Seq(S)
    OBVIOUS
  <2> HIDE DEF G, S
  <2> QED BY <1>1, <1>2, <2>1, GrowingInduction
<1> QED BY <1>3 DEF TakenBy

-----------------------------------------------------------------------------
(* Reading a node *)

Curly == "{"
Open  == "["
Quote == "\""

\* The characters the loader tells kinds of nodes by are of the layout, none of them blank.
LEMMA Brackets ==
  /\ {Square, Brace, Curly, Open, Quote} \subseteq Layout \ Blank
  /\ {Curly, Open, Quote} = {"\"", "[", "{"}
BY LayoutChars DEF Square, Brace, Curly, Open, Quote, Layout

\* A text with a character behind it, and what is behind that.
LEMMA UpTo ==
  ASSUME NEW b \in Char, NEW inner \in Seq(Char), NEW rest \in Seq(Char)
  PROVE  /\ inner \o <<b>> \in Seq(Char) /\ Len(inner \o <<b>>) = Len(inner) + 1
         /\ (inner \o <<b>>) \o rest = inner \o (<<b>> \o rest)
         /\ (inner \o <<b>>) \o rest \in Seq(Char)
<1> DEFINE y == <<b>>
<1>1. y \in Seq(Char) /\ Len(y) = 1
  OBVIOUS
<1> HIDE DEF y
<1>2. inner \o y \in Seq(Char) /\ Len(inner \o y) = Len(inner) + Len(y)
  BY <1>1, ConcatProperties
<1>3. (inner \o y) \o rest = inner \o (y \o rest)
  BY <1>1, TextsJoin
<1>4. (inner \o y) \o rest \in Seq(Char)
  BY <1>2, ConcatProperties
<1> QED BY <1>1, <1>2, <1>3, <1>4 DEF y

\* A text between two characters.
LEMMA BetweenTwo ==
  ASSUME NEW a \in Char, NEW b \in Char, NEW inner \in Seq(Char)
  PROVE  /\ (<<a>> \o inner) \o <<b>> \in Seq(Char)
         /\ Len((<<a>> \o inner) \o <<b>>) = Len(inner) + 2
         /\ ((<<a>> \o inner) \o <<b>>)[1] = a
<1> DEFINE x == <<a>>
           y == <<b>>
           z == inner \o y
<1>1. x \in Seq(Char) /\ y \in Seq(Char)
  OBVIOUS
<1>2. \A t \in Seq(Char) : x \o t \in Seq(Char) /\ Len(x \o t) = Len(t) + 1 /\ (x \o t)[1] = a
  BY FrontChar
<1>3. z \in Seq(Char) /\ Len(z) = Len(inner) + 1
  <2>1. << >> \in Seq(Char)
    OBVIOUS
  <2>2. inner \o <<b>> \in Seq(Char)
    BY <2>1, UpTo
  <2>3. Len(inner \o <<b>>) = Len(inner) + 1
    BY <2>1, UpTo
  <2> QED BY <2>2, <2>3
<1> HIDE DEF x, y
<1>4. (x \o inner) \o y = x \o z
  BY <1>1, TextsJoin
<1> HIDE DEF z
<1>5. x \o z \in Seq(Char) /\ Len(x \o z) = Len(z) + 1 /\ (x \o z)[1] = a
  BY <1>2, <1>3
<1>7. Len(inner) \in Nat
  OBVIOUS
<1>8. /\ (x \o inner) \o y \in Seq(Char) /\ Len((x \o inner) \o y) = Len(inner) + 2
      /\ ((x \o inner) \o y)[1] = a
  BY <1>3, <1>4, <1>5, <1>7
<1> QED BY <1>8 DEF x, y

\* A text in its brackets with something behind it, from the first bracket on.
LEMMA BehindTwo ==
  ASSUME NEW a \in Char, NEW b \in Char, NEW inner \in Seq(Char), NEW rest \in Seq(Char)
  PROVE  ((<<a>> \o inner) \o <<b>>) \o rest = <<a>> \o ((inner \o <<b>>) \o rest)
<1> DEFINE x == <<a>>
           y == <<b>>
           z == inner \o y
<1>1. x \in Seq(Char) /\ y \in Seq(Char)
  OBVIOUS
<1> HIDE DEF x, y
<1>2. z \in Seq(Char)
  BY <1>1, ConcatProperties
<1>3. (x \o inner) \o y = x \o z
  BY <1>1, TextsJoin
<1> HIDE DEF z
<1>4. (x \o z) \o rest = x \o (z \o rest)
  BY <1>1, <1>2, TextsJoin, ZenonT(60)
<1>5. ((x \o inner) \o y) \o rest = x \o (z \o rest)
  BY <1>3, <1>4
<1> QED BY <1>5 DEF x, y, z

\* This text is read as this node, next for what is in it; and load does so.
ReadHere(next, text, node) ==
  \A rest \in Seq(Char) : LoadNode(next, text \o rest) = Read(node, rest)
Calls(load, next) == \A text \in Seq(Char) : load[text] = LoadNode(next, text)

\* A text that starts like a node is one of at least one character.
LEMMA NodeLikeText ==
  ASSUME NEW t, NodeLike(t)
  PROVE  t \in Seq(Char) /\ t # << >> /\ Len(t) \in Nat /\ Len(t) >= 1
<1>1. t \in Seq(Char) /\ t # << >>
  BY DEF NodeLike
<1>2. Len(t) \in Nat
  BY <1>1
<1>3. Len(t) # 0
  BY <1>1, EmptySeq
<1> QED BY <1>1, <1>2, <1>3

\* A node that is read where it stands is read behind a blank, too.
LEMMA NodeReads ==
  ASSUME NEW load, NEW next, Calls(load, next), NEW t, NodeLike(t), NEW v,
         ReadHere(next, t, v)
  PROVE  Reads(load, t, v)
<1> SUFFICES ASSUME NEW rest \in Seq(Char)
             PROVE  /\ load[t \o rest] = Read(v, rest)
                    /\ load[<<" ">> \o (t \o rest)] = Read(v, rest)
  BY DEF Reads
<1> DEFINE text == t \o rest
           blank == " "
           more == <<blank>> \o text
<1>1. text \in Seq(Char) /\ NonBlank(text) = text /\ NonBlank(more) = text
  BY NodeFront
<1>2. LoadNode(next, text) = Read(v, rest)
  BY DEF ReadHere
<1>3. blank \in Char
  BY LayoutChars DEF Layout
<1> HIDE DEF text, blank
<1>4. more \in Seq(Char)
  BY <1>1, <1>3, FrontChar
<1> HIDE DEF more
<1>5. LoadNode(next, more) = LoadNode(next, text)
  BY <1>1 DEF LoadNode
<1>6. load[text] = Read(v, rest)
  BY <1>1, <1>2 DEF Calls
<1>7. load[more] = Read(v, rest)
  BY <1>2, <1>4, <1>5 DEF Calls
<1> QED BY <1>6, <1>7 DEF text, more, blank

\* A string is.
LEMMA StringReads ==
  ASSUME NEW spelling, NEW kept, ReadAs(spelling, kept), NEW s \in Seq(Char), NEW next
  PROVE  /\ NodeLike(Quoted(Respelled(s, spelling)))
         /\ ReadHere(next, Quoted(Respelled(s, spelling)), String(Respelled(s, kept)))
<1> DEFINE inner == Respelled(s, spelling)
           t == Quoted(inner)
<1>1. inner \in Seq(Char)
  BY StringTaken
<1>2. Quote \in Char
  BY Brackets, LayoutChars
<1>3. t = (<<Quote>> \o inner) \o <<Quote>>
  BY DEF Quoted, Quote
<1>4. \A rest \in Seq(Char) :
        LoadString((inner \o <<Quote>>) \o rest) = Read(String(Respelled(s, kept)), rest)
  BY ReadsBack DEF Quote
<1> HIDE DEF inner, t
<1>5. NodeLike(t)
  <2>2. t \in Seq(Char) /\ Len(t) = Len(inner) + 2 /\ t[1] = Quote
    BY <1>1, <1>2, <1>3, BetweenTwo
  <2>3. t # << >>
    <3>1. Len(inner) \in Nat
      BY <1>1
    <3>2. Len(t) # 0
      BY <2>2, <3>1
    <3> QED BY <3>2
  <2> QED BY <2>2, <2>3, Brackets DEF NodeLike
<1>6. ASSUME NEW rest \in Seq(Char)
      PROVE  LoadNode(next, t \o rest) = Read(String(Respelled(s, kept)), rest)
  <2> DEFINE behind == (inner \o <<Quote>>) \o rest
             text == <<Quote>> \o behind
  <2>1. t \o rest = text /\ behind \in Seq(Char)
    <3>1. ((<<Quote>> \o inner) \o <<Quote>>) \o rest = <<Quote>> \o ((inner \o <<Quote>>) \o rest)
      BY <1>1, <1>2, BehindTwo
    <3>2. (inner \o <<Quote>>) \o rest \in Seq(Char)
      BY <1>1, <1>2, UpTo
    <3> QED BY <1>3, <3>1, <3>2
  <2>2. NonBlank(t \o rest) = t \o rest
    BY <1>5, NodeFront
  <2>3. LoadString(behind) = Read(String(Respelled(s, kept)), rest)
    BY <1>4
  <2> HIDE DEF behind
  <2>4. Head(text) = Quote /\ Tail(text) = behind
    BY <1>2, <2>1, FrontChar
  <2> HIDE DEF text
  <2>5. LoadNode(next, text) = LoadString(Tail(text))
    <3>1. Head(text) = "\"" /\ NonBlank(text) = text
      BY <2>1, <2>2, <2>4 DEF Quote
    <3> QED BY <3>1 DEF LoadNode
  <2> QED BY <2>1, <2>3, <2>4, <2>5
<1> QED BY <1>5, <1>6 DEF ReadHere, t, inner

\* All these parts of a node are read as they stand.
PartsRead(load, parts, text, node) ==
  \A part \in parts : NodeLike(text[part]) /\ Reads(load, text[part], node[part])

\* A list is, when its items are.
LEMMA ArrayReads ==
  ASSUME NEW next, NEW S, NEW text, NEW node,
         PartsRead(next, S, text, node),
         NEW s \in Seq(S), NEW t, t = (<<Open>> \o Joined(Of(s, text))) \o <<Square>>
  PROVE  ReadHere(next, t, Array(Of(s, node)))
<1> DEFINE inner == Joined(Of(s, text))
           items == Of(s, node)
<1>1. inner \in Seq(Char)
  <2>1. Of(s, text) \in Seq(Seq(Char))
    <3>1. \A x \in S : text[x] \in Seq(Char)
      BY DEF PartsRead, NodeLike
    <3> QED BY <3>1, OfType
  <2>2. << >> \in Seq(Char)
    OBVIOUS
  <2> HIDE DEF inner
  <2>3. Joined(Of(s, text)) \in Seq(Char)
    BY <2>1, <2>2, ItemsGrow
  <2> QED BY <2>3 DEF inner
<1>2. \A tail \in Seq(Char) :
        \E k \in 0..Len(inner) :
          Turns(next, Square, inner \o tail)[k] = Opened(items, tail)
  <2> HIDE DEF inner, items
  <2>1. TakenBy(next, Square, Joined(Of(s, text)), Of(s, node))
    BY ItemsTaken DEF PartsRead
  <2> QED BY <2>1 DEF TakenBy, inner, items
<1>3. t = (<<Open>> \o inner) \o <<Square>>
  OBVIOUS
<1> HIDE DEF inner, items
<1>4. Open \in Char /\ Square \in Char /\ Open \notin Blank /\ Square \notin Blank
  BY Brackets, LayoutChars
<1>5. ASSUME NEW rest \in Seq(Char)
      PROVE  LoadNode(next, t \o rest) = Read(Array(items), rest)
  <2> DEFINE end == <<Square>> \o rest
             behind == inner \o end
             whole == <<Open>> \o behind
  <2>1. t \o rest = whole /\ behind \in Seq(Char)
    <3>1. t \o rest = <<Open>> \o ((inner \o <<Square>>) \o rest)
      <4>1. ((<<Open>> \o inner) \o <<Square>>) \o rest = <<Open>> \o ((inner \o <<Square>>) \o rest)
        BY <1>1, <1>4, BehindTwo
      <4> QED BY <1>3, <4>1
    <3>2. (inner \o <<Square>>) \o rest = inner \o (<<Square>> \o rest)
      BY <1>1, <1>4, UpTo
    <3>3. (inner \o <<Square>>) \o rest \in Seq(Char)
      BY <1>1, <1>4, UpTo
    <3> QED BY <3>1, <3>2, <3>3
  <2>2. /\ end \in Seq(Char) /\ end # << >> /\ Len(end) = Len(rest) + 1
        /\ end[1] = Square /\ Head(end) = Square /\ From(end, 1) = rest
    BY <1>4, FrontChar
  <2> HIDE DEF end
  <2>3. NonBlank(end) = end
    BY <1>4, <2>2, NonBlankIs
  <2>4. Len(behind) = Len(inner) + Len(end)
    BY <1>1, <2>2, ConcatProperties
  <2>5. PICK k \in 0..Len(inner) : Turns(next, Square, behind)[k] = Opened(items, end)
    BY <1>2, <2>2
  <2> HIDE DEF behind
  <2>6. /\ whole \in Seq(Char) /\ whole # << >> /\ whole[1] = Open /\ Head(whole) = Open
        /\ Tail(whole) = behind
    BY <1>4, <2>1, FrontChar
  <2> HIDE DEF whole
  <2>7. NonBlank(whole) = whole
    BY <1>4, <2>6, NonBlankIs
  <2>8. k \in Nat /\ k < Len(behind)
    <3>1. Len(inner) \in Nat /\ Len(rest) \in Nat
      BY <1>1
    <3> QED BY <2>2, <2>4, <3>1
  <2>9. AfterLoop(next, Square, behind) = Ended(items, rest)
    BY <2>1, <2>2, <2>3, <2>5, <2>8, TurnsEnd
  <2>10. LoadArray(next, behind) = Read(Array(items), rest)
    <3>1. Ended(items, rest).node = items /\ Ended(items, rest).rest = rest
      BY DEF Ended
    <3> QED BY <2>9, <3>1 DEF LoadArray, Square
  <2>11. LoadNode(next, whole) = LoadArray(next, behind)
    BY <2>6, <2>7 DEF LoadNode, Open
  <2> QED BY <2>1, <2>10, <2>11
<1> QED BY <1>5 DEF ReadHere, items

\* A map is, when the values of its fields are.
LEMMA MapReads ==
  ASSUME NEW next, NEW D \in SUBSET Seq(Letter), NEW text \in [D -> Seq(Char)],
         NEW value, DOMAIN value = D,
         PartsRead(next, D, text, value),
         NEW s \in Seq(Seq(Letter)), NEW t,
         t = (<<Curly>> \o JoinedFields(text, s)) \o <<Brace>>
  PROVE  ReadHere(next, t, Map(FieldsOf(s, value)))
<1> DEFINE inner == JoinedFields(text, s)
           items == FieldsOf(s, value)
<1>1. inner \in Seq(Char)
  <2>1. s \in Seq(Seq(Char))
    <3>1. Seq(Letter) \subseteq Seq(Char)
      <4>1. Letter \subseteq Char
        BY DEF Char
      <4> QED BY <4>1
    <3> QED BY <3>1
  <2>2. << >> \in Seq(Char)
    OBVIOUS
  <2> HIDE DEF inner
  <2>3. JoinedFields(text, s) \in Seq(Char)
    BY <2>1, <2>2, FieldsGrow
  <2> QED BY <2>3 DEF inner
<1>2. \A tail \in Seq(Char) :
        \E k \in 0..Len(inner) :
          Turns(next, Brace, inner \o tail)[k] = Opened(items, tail)
  <2> HIDE DEF inner, items
  <2>1. TakenBy(next, Brace, JoinedFields(text, s), FieldsOf(s, value))
    BY FieldsTaken DEF PartsRead
  <2> QED BY <2>1 DEF TakenBy, inner, items
<1>3. t = (<<Curly>> \o inner) \o <<Brace>>
  OBVIOUS
<1> HIDE DEF inner, items
<1>4. Curly \in Char /\ Brace \in Char /\ Curly \notin Blank /\ Brace \notin Blank
  BY Brackets, LayoutChars
<1>5. ASSUME NEW rest \in Seq(Char)
      PROVE  LoadNode(next, t \o rest) = Read(Map(items), rest)
  <2> DEFINE end == <<Brace>> \o rest
             behind == inner \o end
             whole == <<Curly>> \o behind
  <2>1. t \o rest = whole /\ behind \in Seq(Char)
    <3>1. t \o rest = <<Curly>> \o ((inner \o <<Brace>>) \o rest)
      <4>1. ((<<Curly>> \o inner) \o <<Brace>>) \o rest = <<Curly>> \o ((inner \o <<Brace>>) \o rest)
        BY <1>1, <1>4, BehindTwo, ZenonT(60)
      <4> QED BY <1>3, <4>1
    <3>2. (inner \o <<Brace>>) \o rest = inner \o (<<Brace>> \o rest)
      BY <1>1, <1>4, UpTo
    <3>3. (inner \o <<Brace>>) \o rest \in Seq(Char)
      BY <1>1, <1>4, UpTo
    <3> QED BY <3>1, <3>2, <3>3
  <2>2. /\ end \in Seq(Char) /\ end # << >> /\ Len(end) = Len(rest) + 1
        /\ end[1] = Brace /\ Head(end) = Brace /\ From(end, 1) = rest
    BY <1>4, FrontChar
  <2> HIDE DEF end
  <2>3. NonBlank(end) = end
    BY <1>4, <2>2, NonBlankIs
  <2>4. Len(behind) = Len(inner) + Len(end)
    BY <1>1, <2>2, ConcatProperties
  <2>5. PICK k \in 0..Len(inner) : Turns(next, Brace, behind)[k] = Opened(items, end)
    BY <1>2, <2>2
  <2> HIDE DEF behind
  <2>6. /\ whole \in Seq(Char) /\ whole # << >> /\ whole[1] = Curly /\ Head(whole) = Curly
        /\ Tail(whole) = behind
    BY <1>4, <2>1, FrontChar
  <2> HIDE DEF whole
  <2>7. NonBlank(whole) = whole
    BY <1>4, <2>6, NonBlankIs
  <2>8. k \in Nat /\ k < Len(behind)
    <3>1. Len(inner) \in Nat /\ Len(rest) \in Nat
      BY <1>1
    <3> QED BY <2>2, <2>4, <3>1
  <2>9. AfterLoop(next, Brace, behind) = Ended(items, rest)
    BY <2>1, <2>2, <2>3, <2>5, <2>8, TurnsEnd
  <2>10. LoadDict(next, behind) = Read(Map(items), rest)
    <3>1. Ended(items, rest).node = items /\ Ended(items, rest).rest = rest
      BY DEF Ended
    <3> QED BY <2>9, <3>1 DEF LoadDict, Brace
  <2>11. LoadNode(next, whole) = LoadDict(next, behind)
    BY <2>6, <2>7 DEF LoadNode, Curly
  <2> QED BY <2>1, <2>10, <2>11
<1> QED BY <1>5 DEF ReadHere, items

\* With as many calls of Load as the text has characters, each in the other, the text is
\* read as this node.
ReadWhole(calls, text, node) ==
  /\ NodeLike(text)
  /\ \A m \in Len(text)..calls : Reads(Loads(calls)[m], text, node)

\* The texts of the nodes of one level, and what is read from them.
LevelRead(calls, nodes, text, node) ==
  \A n \in nodes : ReadWhole(calls, text[n], node[n])

\* A string, whatever the calls.
LEMMA WholeString ==
  ASSUME NEW calls \in Nat, NEW spelling, NEW kept, ReadAs(spelling, kept),
         NEW s \in Seq(Char)
  PROVE  ReadWhole(calls, Quoted(Respelled(s, spelling)), String(Respelled(s, kept)))
<1> DEFINE t == Quoted(Respelled(s, spelling))
           v == String(Respelled(s, kept))
<1>1. NodeLike(t)
  BY StringReads
<1>2. \A next : ReadHere(next, t, v)
  BY StringReads
<1> HIDE DEF t, v
<1>3. ASSUME NEW m \in Len(t)..calls PROVE Reads(Loads(calls)[m], t, v)
  <2>1. m \in 1..calls
    <3>1. Len(t) \in Nat /\ Len(t) >= 1
      BY <1>1, NodeLikeText
    <3> QED BY <3>1
  <2>2. Calls(Loads(calls)[m], Loads(calls)[m - 1])
    BY <2>1, LoadsRun DEF Calls
  <2> QED BY <1>1, <1>2, <2>2, NodeReads
<1> QED BY <1>1, <1>3 DEF ReadWhole, t, v

\* A list of nodes that are read.
LEMMA WholeArray ==
  ASSUME NEW calls \in Nat, NEW N, NEW text, NEW node, LevelRead(calls, N, text, node),
         NEW s \in Seq(N)
  PROVE  ReadWhole(calls, (<<Open>> \o Joined(Of(s, text))) \o <<Square>>,
                   Array(Of(s, node)))
<1> DEFINE inner == Joined(Of(s, text))
           t == (<<Open>> \o inner) \o <<Square>>
           v == Array(Of(s, node))
<1>1. \A n \in N : ReadWhole(calls, text[n], node[n])
  BY DEF LevelRead
<1>2. /\ Of(s, text) \in Seq(Seq(Char) \ {<< >>}) /\ Len(Of(s, text)) = Len(s)
      /\ \A i \in 1..Len(s) : Of(s, text)[i] = text[s[i]]
  <2>1. \A n \in N : text[n] \in Seq(Char) \ {<< >>}
    BY <1>1 DEF ReadWhole, NodeLike
  <2>2. Of(s, text) \in Seq(Seq(Char) \ {<< >>})
    BY <2>1, OfType
  <2>3. Len(Of(s, text)) = Len(s)
    BY OfIs
  <2>4. \A i \in 1..Len(s) : Of(s, text)[i] = text[s[i]]
    BY OfIs
  <2> QED BY <2>2, <2>3, <2>4
<1>3. inner \in Seq(Char) /\ \A i \in 1..Len(s) : Len(text[s[i]]) <= Len(inner)
  <2>1. Of(s, text) \in Seq(Seq(Char)) /\ << >> \in Seq(Char)
    <3>1. << >> \in Seq(Char)
      OBVIOUS
    <3> QED BY <1>2, <3>1
  <2>2. Joined(Of(s, text)) \in Seq(Char)
    BY <2>1, ItemsGrow
  <2>3. \A i \in 1..Len(Of(s, text)) : Len(Of(s, text)[i]) <= Len(Joined(Of(s, text)))
    BY <1>2, JoinedLonger
  <2> QED BY <1>2, <2>2, <2>3
<1> HIDE DEF inner
<1>4. Open \in Char /\ Square \in Char /\ Open \in {"\"", "[", "{"}
  BY Brackets, LayoutChars
<1>5. t \in Seq(Char) /\ Len(t) = Len(inner) + 2 /\ t[1] = Open
  <2> HIDE DEF t
  <2>1. t = (<<Open>> \o inner) \o <<Square>>
    BY DEF t
  <2> QED BY <1>3, <1>4, <2>1, BetweenTwo
<1>6. t = (<<Open>> \o Joined(Of(s, text))) \o <<Square>>
  BY DEF inner
<1> HIDE DEF t
<1>7. Len(inner) \in Nat
  BY <1>3
<1>8. NodeLike(t)
  <2>1. t # << >>
    <3>1. Len(t) # 0
      BY <1>5, <1>7
    <3> QED BY <3>1
  <2> QED BY <1>4, <1>5, <2>1 DEF NodeLike
<1>9. ASSUME NEW m \in Len(t)..calls PROVE Reads(Loads(calls)[m], t, v)
  <2> DEFINE next == Loads(calls)[m - 1]
             S == {n \in N : Len(text[n]) <= m - 1}
  <2>1. m \in 1..calls /\ Len(inner) <= m - 1
    BY <1>5, <1>7
  <2>2. Calls(Loads(calls)[m], next)
    BY <2>1, LoadsRun DEF Calls
  <2>3. s \in Seq(S)
    <3>1. ASSUME NEW i \in 1..Len(s) PROVE s[i] \in S
      <4>1. s[i] \in N
        BY ElementOfSeq
      <4>2. Len(text[s[i]]) <= Len(inner)
        BY <1>3
      <4>3. Len(text[s[i]]) \in Nat
        BY <1>1, <4>1, NodeLikeText DEF ReadWhole
      <4>4. Len(text[s[i]]) <= m - 1
        BY <1>7, <2>1, <4>2, <4>3
      <4> QED BY <4>1, <4>4
    <3> HIDE DEF S
    <3> QED BY <3>1
  <2>4. ASSUME NEW n \in S PROVE NodeLike(text[n]) /\ Reads(next, text[n], node[n])
    <3>1. ReadWhole(calls, text[n], node[n])
      BY <1>1
    <3>2. Len(text[n]) \in Nat
      BY <3>1, NodeLikeText DEF ReadWhole
    <3>3. m - 1 \in Len(text[n])..calls
      BY <2>1, <3>2
    <3> QED BY <3>1, <3>3 DEF ReadWhole
  <2> HIDE DEF next, S
  <2>5. ReadHere(next, t, v)
    <3>1. PartsRead(next, S, text, node)
      BY <2>4 DEF PartsRead
    <3> QED BY <1>6, <2>3, <3>1, ArrayReads
  <2> QED BY <1>8, <2>2, <2>5, NodeReads
<1> HIDE DEF v
<1>10. ReadWhole(calls, t, v)
  BY <1>8, <1>9 DEF ReadWhole
<1> QED BY <1>6, <1>10 DEF v

\* A map of nodes that are read, where the order has all its names.
LEMMA WholeMap ==
  ASSUME NEW calls \in Nat, NEW D \in SUBSET Seq(Letter), NEW text \in [D -> Seq(Char)],
         NEW value, value = [name \in D |-> value[name]],
         LevelRead(calls, D, text, value),
         NEW s \in Seq(Seq(Letter)), D \subseteq Range(s)
  PROVE  ReadWhole(calls, (<<Curly>> \o JoinedFields(text, s)) \o <<Brace>>, Map(value))
<1> DEFINE inner == JoinedFields(text, s)
           t == (<<Curly>> \o inner) \o <<Brace>>
           v == Map(value)
<1>1. \A n \in D : ReadWhole(calls, text[n], value[n])
  BY DEF LevelRead
<1>2. DOMAIN value = D /\ FieldsOf(s, value) = value
  <2>1. DOMAIN value = D
    OBVIOUS
  <2>2. Range(s) \cap DOMAIN value = D
    BY <2>1
  <2> QED BY <2>1, <2>2 DEF FieldsOf
<1>3. inner \in Seq(Char) /\ \A n \in D : Len(text[n]) <= Len(inner)
  <2>1. s \in Seq(Seq(Char))
    <3>1. Letter \subseteq Char
      BY DEF Char
    <3> QED BY <3>1
  <2>2. JoinedFields(text, s) \in Seq(Char)
    <3>1. << >> \in Seq(Char)
      OBVIOUS
    <3> QED BY <2>1, <3>1, FieldsGrow
  <2>3. \A i \in 1..Len(s) : s[i] \in D => Len(text[s[i]]) <= Len(JoinedFields(text, s))
    BY <2>1, FieldsLonger
  <2>4. ASSUME NEW n \in D PROVE \E i \in 1..Len(s) : s[i] = n
    <3>1. n \in Range(s)
      OBVIOUS
    <3>2. Range(s) = {s[i] : i \in 1..Len(s)}
      BY RangeEquality
    <3> QED BY <3>1, <3>2
  <2> QED BY <2>2, <2>3, <2>4
<1> HIDE DEF inner
<1>4. Curly \in Char /\ Brace \in Char /\ Curly \in {"\"", "[", "{"}
  BY Brackets, LayoutChars
<1>5. t \in Seq(Char) /\ Len(t) = Len(inner) + 2 /\ t[1] = Curly
  <2> HIDE DEF t
  <2>1. t = (<<Curly>> \o inner) \o <<Brace>>
    BY DEF t
  <2> QED BY <1>3, <1>4, <2>1, BetweenTwo
<1>6. t = (<<Curly>> \o JoinedFields(text, s)) \o <<Brace>>
  BY DEF inner
<1> HIDE DEF t
<1>7. Len(inner) \in Nat
  BY <1>3
<1>8. NodeLike(t)
  <2>1. t # << >>
    <3>1. Len(t) # 0
      BY <1>5, <1>7
    <3> QED BY <3>1
  <2> QED BY <1>4, <1>5, <2>1 DEF NodeLike
<1>9. ASSUME NEW m \in Len(t)..calls PROVE Reads(Loads(calls)[m], t, v)
  <2> DEFINE next == Loads(calls)[m - 1]
  <2>1. m \in 1..calls /\ Len(inner) <= m - 1
    BY <1>5, <1>7
  <2>2. Calls(Loads(calls)[m], next)
    BY <2>1, LoadsRun DEF Calls
  <2>3. ASSUME NEW n \in D PROVE NodeLike(text[n]) /\ Reads(next, text[n], value[n])
    <3>1. ReadWhole(calls, text[n], value[n])
      BY <1>1
    <3>2. Len(text[n]) \in Nat
      BY <3>1, NodeLikeText DEF ReadWhole
    <3>3. m - 1 \in Len(text[n])..calls
      <4>1. Len(text[n]) <= Len(inner)
        BY <1>3
      <4> QED BY <1>7, <2>1, <3>2, <4>1
    <3> QED BY <3>1, <3>3 DEF ReadWhole
  <2> HIDE DEF next
  <2>4. ReadHere(next, t, v)
    <3>1. PartsRead(next, D, text, value)
      BY <2>3 DEF PartsRead
    <3>2. ReadHere(next, t, Map(FieldsOf(s, value)))
      BY <1>2, <1>6, <3>1, MapReads
    <3> QED BY <1>2, <3>2
  <2> QED BY <1>8, <2>2, <2>4, NodeReads
<1> HIDE DEF v
<1>10. ReadWhole(calls, t, v)
  BY <1>8, <1>9 DEF ReadWhole
<1> QED BY <1>6, <1>10 DEF v

\* The text of a node and what it is respelled to, by what the node is.
LEMMA OfString ==
  ASSUME NEW n, Is(n, "string"), NEW inner, NEW spelling, NEW order
  PROVE  /\ NodeText(n, inner, spelling, order) = Quoted(Respelled(n.string, spelling))
         /\ Respelt(n, inner, spelling) = String(Respelled(n.string, spelling))
BY DEF NodeText, Respelt

\* The text of a list, and the list it is read back as.
LEMMA OfArray ==
  ASSUME NEW n, ~Is(n, "string"), Is(n, "array"), NEW inner, NEW spelling, NEW order
  PROVE  /\ NodeText(n, inner, spelling, order)
              = (<<Open>> \o Joined(Of(n.array, inner))) \o <<Square>>
         /\ Respelt(n, inner, spelling) = Array(Of(n.array, inner))
BY DEF NodeText, Respelt, Of, Open, Square

\* The fields of a map, each with what inner has for its value.
Within(map, inner) == [name \in DOMAIN map |-> inner[map[name]]]

\* The text of a map, and the map it is read back as.
LEMMA OfMap ==
  ASSUME NEW n, ~Is(n, "string"), ~Is(n, "array"), Is(n, "map"),
         NEW inner, NEW spelling, NEW order
  PROVE  /\ NodeText(n, inner, spelling, order)
              = (<<Curly>> \o JoinedFields(Within(n.map, inner), order)) \o <<Brace>>
         /\ Respelt(n, inner, spelling) = Map(Within(n.map, inner))
BY DEF NodeText, Respelt, Within, Curly, Brace

\* Where the nodes one level down are read, so are those that hold them.
LEMMA LevelRises ==
  ASSUME NEW level, Plainly(level), NEW spelling, NEW kept, ReadAs(spelling, kept),
         NEW order \in Seq(Seq(Letter)), Range(Names) \subseteq Range(order),
         NEW calls \in Nat, NEW k \in 0..Depth, NEW text, NEW node,
         k < Depth => LevelRead(calls, level[k + 1], text, node),
         NEW n \in level[k]
  PROVE  ReadWhole(calls, NodeText(n, text, spelling, order), Respelt(n, node, kept))
<1>1. CASE Is(n, "string") /\ n.string \in Seq(Char)
  <2>1. ReadWhole(calls, Quoted(Respelled(n.string, spelling)),
                  String(Respelled(n.string, kept)))
    <3> DEFINE s == n.string
    <3>1. s \in Seq(Char)
      BY <1>1
    <3> HIDE DEF s
    <3>2. ReadWhole(calls, Quoted(Respelled(s, spelling)), String(Respelled(s, kept)))
      BY <3>1, WholeString
    <3> QED BY <3>2 DEF s
  <2>2. NodeText(n, text, spelling, order) = Quoted(Respelled(n.string, spelling))
    BY <1>1, OfString
  <2>3. Respelt(n, node, kept) = String(Respelled(n.string, kept))
    BY <1>1, OfString
  <2> QED BY <2>1, <2>2, <2>3
<1>2. CASE /\ k < Depth /\ ~Is(n, "string")
           /\ Is(n, "array") /\ n.array \in Seq(level[k + 1])
  <2>1. LevelRead(calls, level[k + 1], text, node)
    BY <1>2
  <2>2. ReadWhole(calls, (<<Open>> \o Joined(Of(n.array, text))) \o <<Square>>,
                  Array(Of(n.array, node)))
    BY <1>2, <2>1, WholeArray
  <2>3. NodeText(n, text, spelling, order)
          = (<<Open>> \o Joined(Of(n.array, text))) \o <<Square>>
    BY <1>2, OfArray
  <2>4. Respelt(n, node, kept) = Array(Of(n.array, node))
    BY <1>2, OfArray
  <2> QED BY <2>2, <2>3, <2>4
<1>3. CASE /\ k < Depth /\ ~Is(n, "string") /\ ~Is(n, "array") /\ Is(n, "map")
           /\ n.map \in [DOMAIN n.map -> level[k + 1]] /\ DOMAIN n.map \subseteq Range(Names)
  <2> DEFINE D == DOMAIN n.map
             T == Within(n.map, text)
             V == Within(n.map, node)
  <2>1. \A m \in level[k + 1] : ReadWhole(calls, text[m], node[m])
    BY <1>3 DEF LevelRead
  <2>2. ASSUME NEW name \in D
        PROVE  /\ ReadWhole(calls, T[name], V[name])
               /\ T[name] \in Seq(Char)
    <3>1. n.map[name] \in level[k + 1]
      BY <1>3
    <3>2. T[name] = text[n.map[name]] /\ V[name] = node[n.map[name]]
      BY DEF Within
    <3>3. ReadWhole(calls, T[name], V[name])
      BY <2>1, <3>1, <3>2
    <3> QED BY <3>3 DEF ReadWhole, NodeLike
  <2>3. D \in SUBSET Seq(Letter) /\ D \subseteq Range(order)
    <3>1. Range(Names) \subseteq Seq(Letter)
      <4>1. Range(Names) = {Names[i] : i \in 1..Len(Names)}
        BY JsonAssumption, RangeEquality
      <4>2. \A i \in 1..Len(Names) : Names[i] \in Seq(Letter)
        BY JsonAssumption
      <4> QED BY <4>1, <4>2
    <3> QED BY <1>3, <3>1
  <2>4. /\ T = [name \in D |-> T[name]] /\ T \in [D -> Seq(Char)]
        /\ V = [name \in D |-> V[name]]
    BY <2>2 DEF Within
  <2> HIDE DEF D, T, V
  <2>5. LevelRead(calls, D, T, V)
    BY <2>2 DEF LevelRead
  <2>6. ReadWhole(calls, (<<Curly>> \o JoinedFields(T, order)) \o <<Brace>>, Map(V))
    BY <2>3, <2>4, <2>5, WholeMap
  <2>7. NodeText(n, text, spelling, order)
          = (<<Curly>> \o JoinedFields(T, order)) \o <<Brace>>
    BY <1>3, OfMap DEF T
  <2>8. Respelt(n, node, kept) = Map(V)
    BY <1>3, OfMap DEF V
  <2> QED BY <2>6, <2>7, <2>8
<1> QED BY <1>1, <1>2, <1>3, PlainKinds

\* All nodes of a level are read from their texts.
LEMMA LevelsRead ==
  ASSUME NEW level, Plainly(level), NEW spelling, NEW kept, ReadAs(spelling, kept),
         NEW order \in Seq(Seq(Letter)), Range(Names) \subseteq Range(order),
         NEW calls \in Nat,
         NEW g, WriteTable(level, spelling, order, g, Depth),
         NEW h, RespellTable(level, kept, h, Depth)
  PROVE  \A d \in 0..Depth : LevelRead(calls, level[Depth - d], g[d], h[d])
<1> DEFINE Done(d) == d <= Depth => LevelRead(calls, level[Depth - d], g[d], h[d])
           G == {d \in Nat : Done(d)}
<1>0. Depth \in Nat
  BY JsonAssumption
<1>1. ASSUME NEW d \in 0..Depth, d > 0 => LevelRead(calls, level[Depth - (d - 1)], g[d - 1], h[d - 1])
      PROVE  LevelRead(calls, level[Depth - d], g[d], h[d])
  <2>1. PICK k \in 0..Depth : k = Depth - d
    BY <1>0
  <2>2. k < Depth => d > 0 /\ Depth - (d - 1) = k + 1
    BY <1>0, <2>1
  <2>3. k < Depth => LevelRead(calls, level[k + 1], g[d - 1], h[d - 1])
    BY <1>1, <2>2
  <2>4. ASSUME NEW n \in level[k] PROVE ReadWhole(calls, g[d][n], h[d][n])
    <3>1. g[d][n] = NodeText(n, g[d - 1], spelling, order)
      <4>1. g[d] = [m \in level[Depth - d] |-> NodeText(m, g[d - 1], spelling, order)]
        BY DEF WriteTable
      <4> QED BY <2>1, <4>1
    <3>2. h[d][n] = Respelt(n, h[d - 1], kept)
      <4>1. h[d] = [m \in level[Depth - d] |-> Respelt(m, h[d - 1], kept)]
        BY DEF RespellTable
      <4> QED BY <2>1, <4>1
    <3> DEFINE text == g[d - 1]
               node == h[d - 1]
    <3>3. k < Depth => LevelRead(calls, level[k + 1], text, node)
      BY <2>3
    <3> HIDE DEF text, node
    <3>4. ReadWhole(calls, NodeText(n, text, spelling, order), Respelt(n, node, kept))
      BY <3>3, LevelRises
    <3> QED BY <3>1, <3>2, <3>4 DEF text, node
  <2> QED BY <2>1, <2>4 DEF LevelRead
<1>2. 0 \in G
  BY <1>0, <1>1
<1>3. ASSUME NEW d \in G PROVE d + 1 \in G
  BY <1>0, <1>1, <1>3
<1>4. G \in SUBSET Nat
  OBVIOUS
<1> HIDE DEF G
<1>5. G = Nat
  BY <1>2, <1>3, <1>4, UpwardInduction
<1> USE DEF G
<1> QED BY <1>5

\* A node is read from its text, whatever it is of strings, arrays and maps.
LEMMA NodeRead ==
  ASSUME NEW node, IsNode(node), NEW spelling, NEW kept, ReadAs(spelling, kept),
         NEW order \in Seq(Seq(Letter)), Range(Names) \subseteq Range(order)
  PROVE  /\ NodeLike(Write(node, spelling, order))
         /\ Load(Write(node, spelling, order)) = Respell(node, kept)
<1> DEFINE t == Write(node, spelling, order)
           v == Respell(node, kept)
           level == Level(node)
<1>0. Depth \in Nat /\ Depth \in 0..Depth /\ Depth - Depth = 0
  BY JsonAssumption
<1>1. PICK g : WriteTable(level, spelling, order, g, Depth) /\ t = g[Depth][node]
  BY WriteIs
<1>2. PICK h : RespellTable(level, kept, h, Depth) /\ v = h[Depth][node]
  BY RespellIs
<1>3. level[0] = {node} /\ Plainly(level)
  BY LevelIs DEF IsNode
<1> HIDE DEF t, v, level
<1>4. ASSUME NEW calls \in Nat PROVE ReadWhole(calls, t, v)
  <2>1. \A d \in 0..Depth : LevelRead(calls, level[Depth - d], g[d], h[d])
    BY <1>1, <1>2, <1>3, LevelsRead
  <2>2. LevelRead(calls, level[0], g[Depth], h[Depth])
    BY <1>0, <2>1
  <2>3. node \in level[0]
    BY <1>3
  <2> QED BY <1>1, <1>2, <2>2, <2>3 DEF LevelRead
<1>5. NodeLike(t) /\ t \in Seq(Char) /\ Len(t) \in Nat
  <2>1. NodeLike(t)
    BY <1>4 DEF ReadWhole
  <2> QED BY <2>1, NodeLikeText
<1>6. Reads(Loads(Len(t))[Len(t)], t, v)
  <2> DEFINE calls == Len(t)
  <2>1. calls \in Nat /\ calls \in Len(t)..calls
    BY <1>5
  <2> QED BY <1>4, <2>1 DEF ReadWhole
<1>7. Loads(Len(t))[Len(t)][t] = Read(v, << >>)
  <2> DEFINE load == Loads(Len(t))[Len(t)]
  <2>1. Reads(load, t, v)
    BY <1>6
  <2> HIDE DEF load
  <2>2. << >> \in Seq(Char)
    OBVIOUS
  <2>3. load[t \o << >>] = Read(v, << >>)
    BY <2>1, <2>2 DEF Reads
  <2>4. t \o << >> = t
    BY <1>5
  <2> QED BY <2>3, <2>4 DEF load
<1>8. Load(t) = v
  BY <1>7 DEF Load, Read
<1> QED BY <1>5, <1>8 DEF t, v

\* The orders in which fields are written have every name.
LEMMA OrdersOfNames ==
  /\ Names \in Seq(Seq(Letter)) /\ Added \in Seq(Seq(Letter))
  /\ Range(Names) \subseteq Range(Added)
BY JsonAssumption

\* What operator<< has written is read by Load as the same node: the fields under their
\* names, the items in their order, and in every string nothing but each newline is
\* another, a backslash and an "n".
THEOREM NodesReadBack ==
  \A node : IsNode(node) => Load(Text(node)) = Respell(node, Kept)
<1> SUFFICES ASSUME NEW node, IsNode(node) PROVE Load(Text(node)) = Respell(node, Kept)
  OBVIOUS
<1>1. ReadAs(Spelling, Kept)
  BY SpellingsRead
<1>2. Names \in Seq(Seq(Letter)) /\ Range(Names) \subseteq Range(Names)
  BY OrdersOfNames
<1>3. Load(Write(node, Spelling, Names)) = Respell(node, Kept)
  BY <1>1, <1>2, NodeRead
<1> QED BY <1>3 DEF Text

\* And so it is with what json.dumps has written, fields in whatever order, when what it
\* has spelled by a letter or a number has lost its backslash.
THEOREM PythonNodesRead ==
  \A node : IsNode(node) => Load(Dumps(node)) = Respell(node, Typed)
<1> SUFFICES ASSUME NEW node, IsNode(node) PROVE Load(Dumps(node)) = Respell(node, Typed)
  OBVIOUS
<1>1. ReadAs(PythonSpelling, Typed)
  BY SpellingsRead
<1>2. Added \in Seq(Seq(Letter)) /\ Range(Names) \subseteq Range(Added)
  BY OrdersOfNames
<1>3. Load(Write(node, PythonSpelling, Added)) = Respell(node, Typed)
  BY <1>1, <1>2, NodeRead
<1> QED BY <1>3 DEF Dumps

-----------------------------------------------------------------------------
(* Nodes that can be written *)

\* A text is respelled to a text.
LEMMA RespelledText ==
  ASSUME NEW spelling \in Spelt, NEW s \in Seq(Char)
  PROVE  Respelled(s, spelling) \in Seq(Char)
<1>1. \A c \in Char : spelling[c] \in Seq(Char)
  BY DEF Spelt
<1>2. Of(s, spelling) \in Seq(Seq(Char))
  <2> DEFINE T == Seq(Char)
             S == Char
  <2>1. (\A c \in S : spelling[c] \in T) /\ s \in Seq(S)
    BY <1>1
  <2> HIDE DEF S, T
  <2>2. Of(s, spelling) \in Seq(T)
    BY <2>1, OfType
  <2> QED BY <2>2 DEF T
<1>3. Respelled(s, spelling) = FlattenSeq(Of(s, spelling))
  BY DEF Respelled, Of
<1> DEFINE parts == Of(s, spelling)
<1> HIDE DEF parts
<1>4. FlattenSeq(parts) \in Seq(Char)
  <2>1. parts \in Seq(Seq(Char))
    BY <1>2 DEF parts
  <2> QED BY <2>1, FlattenIs
<1> QED BY <1>3, <1>4 DEF parts

\* Where the nodes one level down have texts, so have those that hold them.
LEMMA TextRises ==
  ASSUME NEW level, Plainly(level), NEW spelling \in Spelt, NEW order \in Seq(Seq(Char)),
         NEW k \in 0..Depth, NEW text,
         k < Depth => \A m \in level[k + 1] : text[m] \in Seq(Char),
         NEW n \in level[k]
  PROVE  NodeText(n, text, spelling, order) \in Seq(Char)
<1>0. /\ Layout \subseteq Char /\ {Square, Brace, Curly, Open} \subseteq Char
      /\ << >> \in Seq(Char)
  <2>1. << >> \in Seq(Char)
    OBVIOUS
  <2> QED BY <2>1, LayoutChars, Brackets
<1>1. CASE Is(n, "string") /\ n.string \in Seq(Char)
  <2> DEFINE s == Respelled(n.string, spelling)
  <2>1. s \in Seq(Char)
    BY <1>1, RespelledText
  <2>2. NodeText(n, text, spelling, order) = Quoted(s)
    BY <1>1, OfString
  <2> HIDE DEF s
  <2> QED BY <1>0, <2>1, <2>2, QuotedIs
<1>2. CASE /\ k < Depth /\ ~Is(n, "string")
           /\ Is(n, "array") /\ n.array \in Seq(level[k + 1])
  <2> DEFINE items == Of(n.array, text)
             inner == Joined(items)
  <2>1. items \in Seq(Seq(Char))
    <3> DEFINE T == Seq(Char)
    <3>1. \A m \in level[k + 1] : text[m] \in T
      BY <1>2
    <3> HIDE DEF T
    <3>2. items \in Seq(T)
      BY <1>2, <3>1, OfType
    <3> QED BY <3>2 DEF T
  <2>2. NodeText(n, text, spelling, order) = (<<Open>> \o inner) \o <<Square>>
    BY <1>2, OfArray
  <2> HIDE DEF items
  <2>3. inner \in Seq(Char)
    BY <1>0, <2>1, ItemsGrow
  <2> HIDE DEF inner
  <2> QED BY <1>0, <2>2, <2>3, BetweenTwo
<1>3. CASE /\ k < Depth /\ ~Is(n, "string") /\ ~Is(n, "array") /\ Is(n, "map")
           /\ n.map \in [DOMAIN n.map -> level[k + 1]]
  <2> DEFINE D == DOMAIN n.map
             T == Within(n.map, text)
             inner == JoinedFields(T, order)
  <2>1. T \in [D -> Seq(Char)]
    <3>1. \A name \in D : text[n.map[name]] \in Seq(Char)
      BY <1>3
    <3> QED BY <3>1 DEF Within
  <2>2. NodeText(n, text, spelling, order) = (<<Curly>> \o inner) \o <<Brace>>
    BY <1>3, OfMap
  <2> HIDE DEF D, T
  <2>3. inner \in Seq(Char)
    BY <1>0, <2>1, FieldsGrow
  <2> HIDE DEF inner
  <2> QED BY <1>0, <2>2, <2>3, BetweenTwo
<1> QED BY <1>1, <1>2, <1>3, PlainKinds

\* A node is written as a text, however its strings are spelled.
LEMMA WriteText ==
  ASSUME NEW node, IsNode(node), NEW spelling \in Spelt, NEW order \in Seq(Seq(Char))
  PROVE  Write(node, spelling, order) \in Seq(Char)
<1> DEFINE t == Write(node, spelling, order)
           level == Level(node)
<1>0. Depth \in Nat
  BY JsonAssumption
<1>1. PICK g : WriteTable(level, spelling, order, g, Depth) /\ t = g[Depth][node]
  BY WriteIs
<1>2. level[0] = {node} /\ Plainly(level)
  BY LevelIs DEF IsNode
<1> HIDE DEF t, level
<1> DEFINE Done(d) == d <= Depth => \A n \in level[Depth - d] : g[d][n] \in Seq(Char)
           G == {d \in Nat : Done(d)}
<1>3. ASSUME NEW d \in 0..Depth,
             d > 0 => \A m \in level[Depth - (d - 1)] : g[d - 1][m] \in Seq(Char),
             NEW n \in level[Depth - d]
      PROVE  g[d][n] \in Seq(Char)
  <2>1. PICK k \in 0..Depth : k = Depth - d
    BY <1>0
  <2>2. k < Depth => d > 0 /\ Depth - (d - 1) = k + 1
    BY <1>0, <2>1
  <2>3. g[d][n] = NodeText(n, g[d - 1], spelling, order)
    <3>1. g[d] = [m \in level[Depth - d] |-> NodeText(m, g[d - 1], spelling, order)]
      BY <1>1 DEF WriteTable
    <3> QED BY <3>1
  <2> DEFINE text == g[d - 1]
  <2>4. k < Depth => \A m \in level[k + 1] : text[m] \in Seq(Char)
    BY <1>3, <2>2
  <2>5. n \in level[k]
    BY <2>1
  <2> HIDE DEF text
  <2>6. NodeText(n, text, spelling, order) \in Seq(Char)
    BY <1>2, <2>4, <2>5, TextRises
  <2> QED BY <2>3, <2>6 DEF text
<1>4. 0 \in G
  BY <1>0, <1>3
<1>5. ASSUME NEW d \in G PROVE d + 1 \in G
  <2>1. d + 1 <= Depth => d + 1 \in 0..Depth /\ d <= Depth /\ (d + 1) - 1 = d
    BY <1>0
  <2>2. Done(d)
    BY <1>5
  <2>3. d + 1 <= Depth =>
          \A m \in level[Depth - ((d + 1) - 1)] : g[(d + 1) - 1][m] \in Seq(Char)
    BY <2>1, <2>2
  <2>4. Done(d + 1)
    BY <1>3, <2>1, <2>3
  <2> QED BY <2>4
<1>6. G \in SUBSET Nat
  OBVIOUS
<1> HIDE DEF G
<1>7. G = Nat
  BY <1>4, <1>5, <1>6, UpwardInduction
<1> USE DEF G
<1>8. \A n \in level[Depth - Depth] : g[Depth][n] \in Seq(Char)
  BY <1>0, <1>7
<1>9. Depth - Depth = 0 /\ node \in level[0]
  BY <1>0, <1>2
<1> QED BY <1>1, <1>8, <1>9 DEF t

\* Where the nodes that may lie k deep in others are known, those that lie so deep in a
\* node of the outermost are among them.
LEMMA ShapedLevels ==
  ASSUME NEW shape, Plainly(shape), NEW node \in shape[0]
  PROVE  \A k \in 0..Depth : Level(node)[k] \subseteq shape[k]
<1> DEFINE level == Level(node)
<1>0. Depth \in Nat
  BY JsonAssumption
<1>1. /\ level[0] = {node}
      /\ \A k \in 1..Depth : level[k] = UNION {Held(n) : n \in level[k - 1]}
  BY LevelIs
<1> HIDE DEF level
<1>2. ASSUME NEW k \in 0..Depth, k < Depth, NEW n \in shape[k]
      PROVE  Held(n) \subseteq shape[k + 1]
  <2>1. CASE Is(n, "array") /\ n.array \in Seq(shape[k + 1])
    <3> DEFINE s == n.array
               S == shape[k + 1]
    <3>1. Held(n) = Range(s)
      BY <2>1 DEF Held
    <3>2. s \in Seq(S)
      BY <2>1
    <3> HIDE DEF s, S
    <3>3. Range(s) \subseteq S
      <4>1. Range(s) = {s[i] : i \in 1..Len(s)}
        BY <3>2, RangeEquality
      <4>2. \A i \in 1..Len(s) : s[i] \in S
        BY <3>2
      <4> QED BY <4>1, <4>2
    <3> QED BY <3>1, <3>3 DEF s, S
  <2>2. CASE ~Is(n, "array") /\ Is(n, "map") /\ n.map \in [DOMAIN n.map -> shape[k + 1]]
    <3>1. Held(n) = {n.map[name] : name \in DOMAIN n.map}
      BY <2>2 DEF Held, Range
    <3> QED BY <2>2, <3>1
  <2>3. CASE Is(n, "string") /\ n = String(n.string)
    <3>1. Held(n) = {}
      BY <2>3 DEF Held, String, Is
    <3> QED BY <3>1
  <2> QED BY <1>2, <2>1, <2>2, <2>3, PlainKinds
<1> DEFINE Inside(k) == k <= Depth => level[k] \subseteq shape[k]
           G == {k \in Nat : Inside(k)}
<1>3. 0 \in G
  BY <1>1
<1>4. ASSUME NEW k \in G PROVE k + 1 \in G
  <2> SUFFICES ASSUME k + 1 <= Depth PROVE level[k + 1] \subseteq shape[k + 1]
    OBVIOUS
  <2>1. k \in 0..Depth /\ k < Depth /\ k + 1 \in 1..Depth /\ (k + 1) - 1 = k
    BY <1>0
  <2>2. level[k] \subseteq shape[k]
    BY <1>4, <2>1
  <2>3. level[k + 1] = UNION {Held(n) : n \in level[k]}
    <3>1. level[k + 1] = UNION {Held(n) : n \in level[(k + 1) - 1]}
      BY <1>1, <2>1
    <3> QED BY <2>1, <3>1
  <2>4. \A n \in level[k] : Held(n) \subseteq shape[k + 1]
    BY <1>2, <2>1, <2>2
  <2> QED BY <2>3, <2>4
<1>5. G \in SUBSET Nat
  OBVIOUS
<1> HIDE DEF G
<1>6. G = Nat
  BY <1>3, <1>4, <1>5, UpwardInduction
<1> USE DEF G
<1>7. \A k \in 0..Depth : level[k] \subseteq shape[k]
  BY <1>0, <1>6
<1> QED BY <1>7 DEF level

\* And it is one that can be written.
LEMMA ShapedNode ==
  ASSUME NEW shape, Plainly(shape), NEW node \in shape[0]
  PROVE  IsNode(node)
<1> DEFINE level == Level(node)
<1>0. Depth \in Nat
  BY JsonAssumption
<1>1. /\ level[0] = {node}
      /\ \A k \in 1..Depth : level[k] = UNION {Held(n) : n \in level[k - 1]}
  BY LevelIs
<1>2. \A k \in 0..Depth : level[k] \subseteq shape[k]
  BY ShapedLevels
<1> HIDE DEF level
<1>3. ASSUME NEW k \in 0..Depth, k < Depth, NEW n \in level[k]
      PROVE  Held(n) \subseteq level[k + 1]
  <2>1. k + 1 \in 1..Depth /\ (k + 1) - 1 = k
    BY <1>0, <1>3
  <2>2. level[k + 1] = UNION {Held(m) : m \in level[k]}
    <3>1. level[k + 1] = UNION {Held(m) : m \in level[(k + 1) - 1]}
      BY <1>1, <2>1
    <3> QED BY <2>1, <3>1
  <2> QED BY <1>3, <2>2
<1>4. ASSUME NEW k \in 0..Depth, NEW n \in level[k]
      PROVE  \/ n \in [string : Seq(Char)]
             \/ k < Depth /\ n \in [array : Seq(level[k + 1])]
             \/ k < Depth /\ n \in [map : [DOMAIN n.map -> level[k + 1]]]
                          /\ DOMAIN n.map \subseteq Range(Names)
  <2>0. n \in shape[k]
    BY <1>2, <1>4
  <2>1. CASE n = String(n.string) /\ n.string \in Seq(Char)
    BY <2>1 DEF String
  <2>2. CASE /\ k < Depth /\ Is(n, "array") /\ n = Array(n.array)
             /\ n.array \in Seq(shape[k + 1])
    <3> DEFINE s == n.array
               S == shape[k + 1]
               L == level[k + 1]
    <3>1. Held(n) = Range(s) /\ Held(n) \subseteq L
      BY <1>3, <1>4, <2>2 DEF Held
    <3>2. s \in Seq(S)
      BY <2>2
    <3> HIDE DEF s, S, L
    <3>3. s \in Seq(L)
      <4>1. Range(s) = {s[i] : i \in 1..Len(s)}
        BY <3>2, RangeEquality
      <4>2. \A i \in 1..Len(s) : s[i] \in L
        BY <3>1, <4>1
      <4> QED BY <3>2, <4>2
    <3>4. n = [array |-> s]
      BY <2>2 DEF Array, s
    <3> QED BY <2>2, <3>3, <3>4 DEF L
  <2>3. CASE /\ k < Depth /\ ~Is(n, "array") /\ Is(n, "map") /\ n = Map(n.map)
             /\ n.map \in [DOMAIN n.map -> shape[k + 1]] /\ DOMAIN n.map \subseteq Range(Names)
    <3> DEFINE f == n.map
               D == DOMAIN n.map
    <3>1. Held(n) = {f[name] : name \in D} /\ Held(n) \subseteq level[k + 1]
      BY <1>3, <1>4, <2>3 DEF Held, Range
    <3>2. f \in [D -> shape[k + 1]]
      BY <2>3
    <3>3. f \in [D -> level[k + 1]]
      <4> HIDE DEF f, D
      <4> QED BY <3>1, <3>2
    <3>4. n = [map |-> f]
      BY <2>3 DEF Map
    <3> QED BY <2>3, <3>3, <3>4
  <2> QED BY <2>0, <2>1, <2>2, <2>3, PlainKinds
<1> QED BY <1>4 DEF IsNode, Plainly, level

-----------------------------------------------------------------------------
(* Spelled once and once more *)

\* A text in two parts is respelled in two parts.
LEMMA RespelledParts ==
  ASSUME NEW spelling \in Spelt, NEW a \in Seq(Char)
  PROVE  \A b \in Seq(Char) :
           Respelled(a \o b, spelling) = Respelled(a, spelling) \o Respelled(b, spelling)
<1> DEFINE G == {b \in Seq(Char) :
                   Respelled(a \o b, spelling) = Respelled(a, spelling) \o Respelled(b, spelling)}
<1>0. Respelled(a, spelling) \in Seq(Char) /\ << >> \in Seq(Char)
  BY RespelledText
<1>1. << >> \in G
  <2>1. Respelled(<< >>, spelling) = << >>
    BY RespelledAppend
  <2>2. a \o << >> = a /\ Respelled(a, spelling) \o << >> = Respelled(a, spelling)
    BY <1>0
  <2> QED BY <1>0, <2>1, <2>2
<1>2. ASSUME NEW b \in G, NEW c \in Char PROVE Append(b, c) \in G
  <2>1. /\ b \in Seq(Char) /\ Append(b, c) \in Seq(Char) /\ a \o b \in Seq(Char)
        /\ a \o Append(b, c) = Append(a \o b, c)
    OBVIOUS
  <2>2. /\ Respelled(b, spelling) \in Seq(Char) /\ Respelled(a \o b, spelling) \in Seq(Char)
        /\ spelling[c] \in Seq(Char)
    BY <2>1, RespelledText DEF Spelt
  <2>3. Respelled(Append(b, c), spelling) = Respelled(b, spelling) \o spelling[c]
    BY <2>1, <2>2, RespelledAppend
  <2>4. Respelled(Append(a \o b, c), spelling) = Respelled(a \o b, spelling) \o spelling[c]
    BY <2>1, <2>2, RespelledAppend
  <2>5. Respelled(a \o b, spelling) = Respelled(a, spelling) \o Respelled(b, spelling)
    BY <1>2
  <2> DEFINE x == Respelled(a, spelling)
             y == Respelled(b, spelling)
             z == spelling[c]
  <2>6. x \in Seq(Char) /\ y \in Seq(Char) /\ z \in Seq(Char)
    BY <1>0, <2>2
  <2> HIDE DEF x, y, z
  <2>7. (x \o y) \o z = x \o (y \o z)
    BY <2>6, TextsJoin
  <2> QED BY <2>1, <2>3, <2>4, <2>5, <2>7 DEF x, y, z
<1>3. G = Seq(Char)
  <2>1. G \in SUBSET Seq(Char)
    OBVIOUS
  <2> HIDE DEF G
  <2> QED BY <1>1, <1>2, <2>1, GrowingInduction
<1> QED BY <1>3

\* One character behind another.
LEMMA TwoCharacters ==
  ASSUME NEW b \in Char, NEW c \in Char
  PROVE  /\ <<b>> \in Seq(Char) /\ Append(<<b>>, c) = <<b, c>>
         /\ <<b>> \o <<c>> = <<b, c>>
<1>1. <<b>> \in Seq(Char) /\ Append(<<b>>, c) = <<b, c>>
  <2>1. Append(<<b>>, c) = [i \in 1..2 |-> IF i = 2 THEN c ELSE <<b>>[i]]
    OBVIOUS
  <2>2. <<b, c>> = [i \in 1..2 |-> IF i = 2 THEN c ELSE b]
    OBVIOUS
  <2>3. \A i \in 1..2 : (IF i = 2 THEN c ELSE <<b>>[i]) = (IF i = 2 THEN c ELSE b)
    OBVIOUS
  <2>4. <<b>> \in Seq(Char)
    OBVIOUS
  <2> QED BY <2>1, <2>2, <2>3, <2>4
<1>2. <<b>> \o <<c>> = Append(<<b>>, c)
  BY <1>1, AppendIsConcat
<1> QED BY <1>1, <1>2

\* A text of one character, or of two.
LEMMA RespelledOne ==
  ASSUME NEW spelling \in Spelt, NEW c \in Char
  PROVE  Respelled(<<c>>, spelling) = spelling[c]
<1>1. << >> \in Seq(Char) /\ Append(<< >>, c) = <<c>>
  OBVIOUS
<1>2. Respelled(<< >>, spelling) = << >> /\ spelling[c] \in Seq(Char)
  BY RespelledAppend DEF Spelt
<1>3. Respelled(Append(<< >>, c), spelling) = Respelled(<< >>, spelling) \o spelling[c]
  BY <1>1, <1>2, RespelledAppend
<1>4. << >> \o spelling[c] = spelling[c]
  BY <1>2
<1> QED BY <1>1, <1>2, <1>3, <1>4

\* Two characters are respelled one by one.
LEMMA RespelledTwo ==
  ASSUME NEW spelling \in Spelt, NEW b \in Char, NEW c \in Char
  PROVE  Respelled(<<b, c>>, spelling) = spelling[b] \o spelling[c]
<1>1. <<b>> \in Seq(Char) /\ Append(<<b>>, c) = <<b, c>>
  BY TwoCharacters
<1>2. Respelled(<<b>>, spelling) = spelling[b] /\ spelling[b] \in Seq(Char)
  BY RespelledOne DEF Spelt
<1>3. Respelled(Append(<<b>>, c), spelling) = Respelled(<<b>>, spelling) \o spelling[c]
  BY <1>1, <1>2, RespelledAppend
<1> QED BY <1>1, <1>2, <1>3

\* One spelling does what two do one after the other.
Composed(first, second, both) ==
  /\ first \in Spelt /\ second \in Spelt /\ both \in Spelt
  /\ \A c \in Char : Respelled(first[c], second) = both[c]

\* To respell with one spelling and then with another is to respell with their composition.
LEMMA RespelledTwice ==
  ASSUME NEW first, NEW second, NEW both, Composed(first, second, both)
  PROVE  \A s \in Seq(Char) : Respelled(Respelled(s, first), second) = Respelled(s, both)
<1> DEFINE Same(s) == Respelled(Respelled(s, first), second) = Respelled(s, both)
           G == {s \in Seq(Char) : Same(s)}
<1>0. first \in Spelt /\ second \in Spelt /\ both \in Spelt
  BY DEF Composed
<1>1. << >> \in G
  <2>1. /\ Respelled(<< >>, first) = << >> /\ Respelled(<< >>, second) = << >>
        /\ Respelled(<< >>, both) = << >>
    BY <1>0, RespelledAppend
  <2>2. << >> \in Seq(Char)
    OBVIOUS
  <2> QED BY <2>1, <2>2
<1>2. ASSUME NEW s \in G, NEW c \in Char PROVE Append(s, c) \in G
  <2>1. s \in Seq(Char) /\ Same(s) /\ Append(s, c) \in Seq(Char)
    OBVIOUS
  <2> DEFINE x == Respelled(s, first)
             w == first[c]
  <2>2. x \in Seq(Char) /\ w \in Seq(Char)
    BY <1>0, <2>1, RespelledText DEF Spelt
  <2>3. Respelled(s, both) \in Seq(Char)
    BY <1>0, <2>1, RespelledText
  <2>4. Respelled(Append(s, c), first) = x \o w
    BY <1>0, <2>1, <2>2, RespelledAppend
  <2>5. Respelled(Append(s, c), both) = Respelled(s, both) \o both[c]
    BY <1>0, <2>1, <2>3, RespelledAppend
  <2>6. Respelled(w, second) = both[c]
    BY DEF Composed
  <2> HIDE DEF x, w
  <2>7. Respelled(x \o w, second) = Respelled(x, second) \o Respelled(w, second)
    BY <1>0, <2>2, RespelledParts
  <2>8. Respelled(x, second) = Respelled(s, both)
    BY <2>1 DEF x
  <2> QED BY <2>1, <2>4, <2>5, <2>6, <2>7, <2>8
<1>3. G = Seq(Char)
  <2>1. G \in SUBSET Seq(Char)
    OBVIOUS
  <2> HIDE DEF G
  <2> QED BY <1>1, <1>2, <2>1, GrowingInduction
<1> QED BY <1>3

\* JSON's spelling of what is read of a string is what operator<< has written of it.
LEMMA KeptEscaped == Composed(Kept, Escaped, Spelling)
<1>1. Escaped \in Spelt
  <2>1. \A a \in Char, b \in Char : <<a>> \in Seq(Char) /\ <<a, b>> \in Seq(Char)
    OBVIOUS
  <2>2. Escaped = [c \in Char |-> Escaped[c]]
    BY DEF Escaped, Raw
  <2>3. ASSUME NEW c \in Char PROVE Escaped[c] \in Seq(Char)
    BY <2>1, SpellingChars DEF Escaped, Raw
  <2> QED BY <2>2, <2>3 DEF Spelt
<1>2. ASSUME NEW c \in Char PROVE Respelled(Kept[c], Escaped) = Spelling[c]
  <2>1. CASE c = "\n"
    <3> DEFINE slash == "\\"
               n == "n"
    <3>1. slash \in Char /\ n \in Char /\ Kept[c] = <<slash, n>>
      BY <2>1, SpellingChars, SpellingTables
    <3>2. Escaped[slash] = <<slash, slash>> /\ Escaped[n] = <<n>>
      BY SpellingChars DEF Escaped, Raw
    <3>3. Spelling[c] = <<slash, slash, n>>
      BY <2>1, SpellingTables
    <3> HIDE DEF slash, n
    <3>4. Respelled(<<slash, n>>, Escaped) = Escaped[slash] \o Escaped[n]
      BY <1>1, <3>1, RespelledTwo
    <3> QED BY <3>1, <3>2, <3>3, <3>4
  <2>2. CASE c # "\n"
    <3>1. Kept[c] = <<c>>
      BY <2>2, SpellingTables
    <3>2. Escaped[c] = Spelling[c]
      BY <2>2, SpellingChars DEF Escaped, Spelling, Raw
    <3>3. Respelled(<<c>>, Escaped) = Escaped[c]
      BY <1>1, RespelledOne
    <3> QED BY <3>1, <3>2, <3>3
  <2> QED BY <2>1, <2>2
<1> QED BY <1>1, <1>2, SpellingTypes DEF Composed

\* A node so deep in one that can be written, whose parts are among these.
PlainAt(node, k, parts) ==
  \/ node \in [string : Seq(Char)]
  \/ k < Depth /\ node \in [array : Seq(parts)]
  \/ k < Depth /\ node \in [map : [DOMAIN node.map -> parts]]
               /\ DOMAIN node.map \subseteq Range(Names)

\* The kinds of nodes stay what they are.
LEMMA RespeltPlain ==
  ASSUME NEW level, Plainly(level), NEW spelling \in Spelt, NEW k \in 0..Depth, NEW inner,
         NEW n \in level[k], NEW parts,
         k < Depth => \A m \in level[k + 1] : inner[m] \in parts
  PROVE  PlainAt(Respelt(n, inner, spelling), k, parts)
<1> DEFINE v == Respelt(n, inner, spelling)
<1>1. CASE Is(n, "string") /\ n.string \in Seq(Char)
  <2>1. v = String(Respelled(n.string, spelling))
    BY <1>1, OfString
  <2>2. Respelled(n.string, spelling) \in Seq(Char)
    BY <1>1, RespelledText
  <2> HIDE DEF v
  <2>3. v \in [string : Seq(Char)]
    BY <2>1, <2>2 DEF String
  <2> QED BY <2>3 DEF PlainAt, v
<1>2. CASE /\ k < Depth /\ ~Is(n, "string")
           /\ Is(n, "array") /\ n.array \in Seq(level[k + 1])
  <2> DEFINE items == Of(n.array, inner)
  <2>1. v = Array(items)
    BY <1>2, OfArray
  <2>2. items \in Seq(parts)
    <3>1. \A m \in level[k + 1] : inner[m] \in parts
      BY <1>2
    <3> QED BY <1>2, <3>1, OfType
  <2> HIDE DEF v, items
  <2>3. v \in [array : Seq(parts)]
    BY <2>1, <2>2 DEF Array
  <2> QED BY <1>2, <2>3 DEF PlainAt, v
<1>3. CASE /\ k < Depth /\ ~Is(n, "string") /\ ~Is(n, "array") /\ Is(n, "map")
           /\ n.map \in [DOMAIN n.map -> level[k + 1]] /\ DOMAIN n.map \subseteq Range(Names)
  <2> DEFINE f == Within(n.map, inner)
             D == DOMAIN n.map
  <2>1. v = [map |-> f]
    BY <1>3, OfMap DEF Map
  <2>2. f \in [D -> parts]
    <3>1. \A name \in D : inner[n.map[name]] \in parts
      BY <1>3
    <3> QED BY <3>1 DEF Within
  <2> HIDE DEF v, f
  <2>3. v.map = f /\ DOMAIN v.map = D /\ v = [map |-> v.map]
    BY <2>1, <2>2
  <2>4. v \in [map : [DOMAIN v.map -> parts]] /\ DOMAIN v.map \subseteq Range(Names)
    BY <1>3, <2>2, <2>3
  <2> QED BY <1>3, <2>4 DEF PlainAt, v
<1> QED BY <1>1, <1>2, <1>3, PlainKinds

\* What is in a node, respelled, is in the respelled node.
LEMMA HeldRespelt ==
  ASSUME NEW level, Plainly(level), NEW spelling, NEW k \in 0..Depth, NEW inner,
         NEW n \in level[k], NEW m \in Held(n)
  PROVE  inner[m] \in Held(Respelt(n, inner, spelling))
<1> DEFINE v == Respelt(n, inner, spelling)
<1>1. CASE Is(n, "string") /\ n = String(n.string)
  <2>1. Held(n) = {}
    BY <1>1 DEF Held, String, Is
  <2> QED BY <2>1
<1>2. CASE ~Is(n, "string") /\ Is(n, "array") /\ n.array \in Seq(level[k + 1])
  <2> DEFINE s == n.array
             items == Of(s, inner)
             S == level[k + 1]
  <2>1. v = Array(items)
    BY <1>2, OfArray
  <2>2. Held(n) = Range(s) /\ s \in Seq(S)
    BY <1>2 DEF Held
  <2> HIDE DEF v, s, S
  <2>3. Held(v) = Range(items)
    BY <2>1 DEF Held, Array, Is
  <2>4. Range(s) = {s[i] : i \in 1..Len(s)}
    BY <2>2, RangeEquality
  <2>5. PICK i \in 1..Len(s) : m = s[i]
    BY <2>2, <2>4
  <2>6. i \in DOMAIN items /\ items[i] = inner[m]
    <3>1. i \in DOMAIN s
      BY <2>2, <2>5
    <3> QED BY <2>5, <3>1 DEF Of
  <2> HIDE DEF items
  <2>7. items[i] \in Range(items)
    BY <2>6 DEF Range
  <2> QED BY <2>3, <2>6, <2>7 DEF v
<1>3. CASE ~Is(n, "string") /\ ~Is(n, "array") /\ Is(n, "map")
  <2> DEFINE f == Within(n.map, inner)
  <2>1. v = Map(f)
    BY <1>3, OfMap
  <2>2. Held(n) = {n.map[name] : name \in DOMAIN n.map}
    BY <1>3 DEF Held, Range
  <2>3. PICK name \in DOMAIN n.map : m = n.map[name]
    BY <2>2
  <2>4. name \in DOMAIN f /\ f[name] = inner[m]
    BY <2>3 DEF Within
  <2> HIDE DEF v, f
  <2>5. Held(v) = Range(f)
    BY <2>1 DEF Held, Map, Is
  <2>6. f[name] \in Range(f)
    BY <2>4 DEF Range
  <2> QED BY <2>4, <2>5, <2>6 DEF v
<1> QED BY <1>1, <1>2, <1>3, PlainKinds

\* The respelled node has the text of the node in the spelling that does what both do.
LEMMA TextRespelt ==
  ASSUME NEW first, NEW second, NEW both, Composed(first, second, both),
         NEW level, Plainly(level), NEW order, NEW k \in 0..Depth, NEW inner,
         NEW n \in level[k], NEW text, NEW outer,
         k < Depth => \A m \in level[k + 1] : outer[inner[m]] = text[m]
  PROVE  NodeText(Respelt(n, inner, first), outer, second, order)
           = NodeText(n, text, both, order)
<1> DEFINE v == Respelt(n, inner, first)
<1>1. CASE Is(n, "string") /\ n.string \in Seq(Char)
  <2> DEFINE s == n.string
             t == Respelled(s, first)
  <2>1. v = String(t)
    BY <1>1, OfString
  <2>2. NodeText(n, text, both, order) = Quoted(Respelled(s, both))
    BY <1>1, OfString
  <2>3. s \in Seq(Char)
    BY <1>1
  <2> HIDE DEF v, s
  <2>4. Respelled(t, second) = Respelled(s, both)
    BY <2>3, RespelledTwice
  <2> HIDE DEF t
  <2>5. Is(v, "string") /\ v.string = t
    BY <2>1 DEF String, Is
  <2>6. NodeText(v, outer, second, order) = Quoted(Respelled(t, second))
    BY <2>5, OfString
  <2> QED BY <2>2, <2>4, <2>6 DEF v
<1>2. CASE /\ k < Depth /\ ~Is(n, "string")
           /\ Is(n, "array") /\ n.array \in Seq(level[k + 1])
  <2> DEFINE s == n.array
             items == Of(s, inner)
  <2>1. v = Array(items)
    BY <1>2, OfArray
  <2>2. NodeText(n, text, both, order) = (<<Open>> \o Joined(Of(s, text))) \o <<Square>>
    BY <1>2, OfArray
  <2>3. Of(items, outer) = Of(s, text)
    <3>1. \A i \in DOMAIN s : s[i] \in level[k + 1]
      BY <1>2
    <3>2. \A i \in DOMAIN s : outer[inner[s[i]]] = text[s[i]]
      BY <1>2, <3>1
    <3> HIDE DEF s
    <3> QED BY <3>2 DEF Of
  <2> HIDE DEF v, s, items
  <2>4. Is(v, "array") /\ ~Is(v, "string") /\ v.array = items
    BY <2>1 DEF Array, Is
  <2>5. NodeText(v, outer, second, order)
          = (<<Open>> \o Joined(Of(items, outer))) \o <<Square>>
    BY <2>4, OfArray
  <2> QED BY <2>2, <2>3, <2>5 DEF v
<1>3. CASE /\ k < Depth /\ ~Is(n, "string") /\ ~Is(n, "array") /\ Is(n, "map")
           /\ n.map \in [DOMAIN n.map -> level[k + 1]]
  <2> DEFINE f == n.map
             g == Within(f, inner)
  <2>1. v = Map(g)
    BY <1>3, OfMap
  <2>2. NodeText(n, text, both, order)
          = (<<Curly>> \o JoinedFields(Within(f, text), order)) \o <<Brace>>
    BY <1>3, OfMap
  <2>3. Within(g, outer) = Within(f, text)
    <3>1. \A name \in DOMAIN f : outer[inner[f[name]]] = text[f[name]]
      BY <1>3
    <3> HIDE DEF f
    <3> QED BY <3>1 DEF Within
  <2> HIDE DEF v, f, g
  <2>4. Is(v, "map") /\ ~Is(v, "array") /\ ~Is(v, "string") /\ v.map = g
    BY <2>1 DEF Map, Is
  <2>5. NodeText(v, outer, second, order)
          = (<<Curly>> \o JoinedFields(Within(g, outer), order)) \o <<Brace>>
    BY <2>4, OfMap
  <2> QED BY <2>2, <2>3, <2>5 DEF v
<1> QED BY <1>1, <1>2, <1>3, PlainKinds

\* The respelled nodes of a node are as deep in the respelled node.
LEMMA LevelsRespelt ==
  ASSUME NEW node, IsNode(node), NEW spelling,
         NEW h, RespellTable(Level(node), spelling, h, Depth),
         Respell(node, spelling) = h[Depth][node]
  PROVE  \A k \in 0..Depth : \A n \in Level(node)[k] :
           h[Depth - k][n] \in Level(Respell(node, spelling))[k]
<1> DEFINE level == Level(node)
           other == Level(Respell(node, spelling))
           Deep(k) == k <= Depth => \A n \in level[k] : h[Depth - k][n] \in other[k]
           G == {k \in Nat : Deep(k)}
<1>0. Depth \in Nat /\ Depth - 0 = Depth
  BY JsonAssumption
<1>1. /\ level[0] = {node} /\ Plainly(level)
      /\ \A k \in 1..Depth : level[k] = UNION {Held(n) : n \in level[k - 1]}
  BY LevelIs DEF IsNode
<1>2. /\ other[0] = {h[Depth][node]}
      /\ \A k \in 1..Depth : other[k] = UNION {Held(n) : n \in other[k - 1]}
  BY LevelIs
<1>3. RespellTable(level, spelling, h, Depth)
  OBVIOUS
<1> HIDE DEF level, other
<1>4. 0 \in G
  BY <1>0, <1>1, <1>2
<1>5. ASSUME NEW k \in G PROVE k + 1 \in G
  <2> SUFFICES ASSUME k + 1 <= Depth, NEW m \in level[k + 1]
               PROVE  h[Depth - (k + 1)][m] \in other[k + 1]
    OBVIOUS
  <2>1. k \in 0..Depth /\ k + 1 \in 1..Depth /\ (k + 1) - 1 = k /\ k <= Depth
    BY <1>0
  <2>2. level[k + 1] = UNION {Held(n) : n \in level[k]}
    <3>1. level[k + 1] = UNION {Held(n) : n \in level[(k + 1) - 1]}
      BY <1>1, <2>1
    <3> QED BY <2>1, <3>1
  <2>3. other[k + 1] = UNION {Held(n) : n \in other[k]}
    <3>1. other[k + 1] = UNION {Held(n) : n \in other[(k + 1) - 1]}
      BY <1>2, <2>1
    <3> QED BY <2>1, <3>1
  <2>4. PICK n \in level[k] : m \in Held(n)
    BY <2>2
  <2>5. h[Depth - k][n] \in other[k]
    BY <1>5, <2>1
  <2> DEFINE inner == h[Depth - (k + 1)]
  <2>6. h[Depth - k][n] = Respelt(n, inner, spelling)
    <3>1. PICK d \in 0..Depth : d = Depth - k
      BY <1>0, <2>1
    <3>2. d - 1 = Depth - (k + 1) /\ Depth - d = k
      BY <1>0, <2>1, <3>1
    <3>3. h[d] = [x \in level[Depth - d] |-> Respelt(x, h[d - 1], spelling)]
      BY <1>3 DEF RespellTable
    <3>4. h[d][n] = Respelt(n, h[d - 1], spelling)
      BY <3>2, <3>3
    <3> QED BY <3>1, <3>2, <3>4
  <2> HIDE DEF inner
  <2>7. inner[m] \in Held(Respelt(n, inner, spelling))
    BY <1>1, <2>1, <2>4, HeldRespelt
  <2> QED BY <2>3, <2>5, <2>6, <2>7 DEF inner
<1>6. G \in SUBSET Nat
  OBVIOUS
<1> HIDE DEF G
<1>7. G = Nat
  BY <1>4, <1>5, <1>6, UpwardInduction
<1> USE DEF G
<1>8. \A k \in 0..Depth : \A n \in level[k] : h[Depth - k][n] \in other[k]
  BY <1>0, <1>7
<1> QED BY <1>8 DEF level, other

\* What is left of a node when it has been read can be written again.
LEMMA RespelledNode ==
  ASSUME NEW node, IsNode(node), NEW spelling \in Spelt
  PROVE  IsNode(Respell(node, spelling))
<1> DEFINE level == Level(node)
<1>0. Depth \in Nat /\ Depth - 0 = Depth
  BY JsonAssumption
<1>1. PICK h : RespellTable(level, spelling, h, Depth) /\ Respell(node, spelling) = h[Depth][node]
  BY RespellIs
<1>2. level[0] = {node} /\ Plainly(level)
  BY LevelIs DEF IsNode
<1> HIDE DEF level
<1> DEFINE shape == [k \in 0..Depth |-> {h[Depth - k][n] : n \in level[k]}]
<1>3. ASSUME NEW k \in 0..Depth, NEW v \in shape[k] PROVE PlainAt(v, k, shape[k + 1])
  <2>1. PICK n \in level[k] : v = h[Depth - k][n]
    OBVIOUS
  <2>2. PICK d \in 0..Depth : d = Depth - k
    BY <1>0
  <2>3. Depth - d = k /\ (k < Depth => d - 1 = Depth - (k + 1) /\ k + 1 \in 0..Depth)
    BY <1>0, <2>2
  <2> DEFINE inner == h[d - 1]
  <2>4. v = Respelt(n, inner, spelling)
    <3>1. h[d] = [x \in level[Depth - d] |-> Respelt(x, h[d - 1], spelling)]
      BY <1>1 DEF RespellTable
    <3>2. h[d][n] = Respelt(n, h[d - 1], spelling)
      BY <2>3, <3>1
    <3> QED BY <2>1, <2>2, <3>2
  <2>5. k < Depth => \A m \in level[k + 1] : inner[m] \in shape[k + 1]
    BY <2>3
  <2> HIDE DEF inner, shape
  <2> DEFINE parts == shape[k + 1]
  <2>6. k < Depth => \A m \in level[k + 1] : inner[m] \in parts
    BY <2>5
  <2> HIDE DEF parts
  <2>7. PlainAt(Respelt(n, inner, spelling), k, parts)
    BY <1>2, <2>6, RespeltPlain
  <2> QED BY <2>4, <2>7 DEF parts
<1>4. h[Depth][node] \in shape[0]
  BY <1>0, <1>2
<1> HIDE DEF shape
<1>5. Plainly(shape)
  BY <1>3 DEF Plainly, PlainAt
<1> QED BY <1>1, <1>4, <1>5, ShapedNode

\* A node respelled and written is the node written.
LEMMA RespelledText2 ==
  ASSUME NEW first, NEW second, NEW both, Composed(first, second, both),
         NEW node, IsNode(node), NEW order
  PROVE  Write(Respell(node, first), second, order) = Write(node, both, order)
<1> DEFINE level == Level(node)
           v == Respell(node, first)
           other == Level(v)
<1>0. Depth \in Nat /\ Depth - Depth = 0 /\ first \in Spelt
  BY JsonAssumption DEF Composed
<1>1. PICK h : RespellTable(level, first, h, Depth) /\ v = h[Depth][node]
  BY RespellIs
<1>2. level[0] = {node} /\ Plainly(level)
  BY LevelIs DEF IsNode
<1>3. IsNode(v)
  BY <1>0, RespelledNode
<1>4. \A k \in 0..Depth : \A n \in level[k] : h[Depth - k][n] \in other[k]
  BY <1>1, LevelsRespelt
<1>5. PICK w : WriteTable(level, both, order, w, Depth) /\ Write(node, both, order) = w[Depth][node]
  BY WriteIs
<1> HIDE DEF level
<1>6. PICK u : WriteTable(other, second, order, u, Depth) /\ Write(v, second, order) = u[Depth][v]
  BY <1>3, WriteIs
<1> HIDE DEF other, v
<1> DEFINE Same(d) == d <= Depth => \A n \in level[Depth - d] : u[d][h[d][n]] = w[d][n]
           G == {d \in Nat : Same(d)}
<1>7. ASSUME NEW d \in 0..Depth,
             d > 0 => \A m \in level[Depth - (d - 1)] : u[d - 1][h[d - 1][m]] = w[d - 1][m],
             NEW n \in level[Depth - d]
      PROVE  u[d][h[d][n]] = w[d][n]
  <2>1. PICK k \in 0..Depth : k = Depth - d
    BY <1>0
  <2>2. Depth - k = d /\ (k < Depth => d > 0 /\ Depth - (d - 1) = k + 1)
    BY <1>0, <2>1
  <2> DEFINE inner == h[d - 1]
             text == w[d - 1]
             outer == u[d - 1]
  <2>3. h[d][n] = Respelt(n, inner, first)
    <3>1. h[d] = [x \in level[Depth - d] |-> Respelt(x, h[d - 1], first)]
      BY <1>1 DEF RespellTable
    <3> QED BY <3>1
  <2>4. w[d][n] = NodeText(n, text, both, order)
    <3>1. w[d] = [x \in level[Depth - d] |-> NodeText(x, w[d - 1], both, order)]
      BY <1>5 DEF WriteTable
    <3> QED BY <3>1
  <2>5. u[d][h[d][n]] = NodeText(h[d][n], outer, second, order)
    <3>1. u[d] = [x \in other[Depth - d] |-> NodeText(x, u[d - 1], second, order)]
      BY <1>6 DEF WriteTable
    <3>2. h[d][n] \in other[Depth - d]
      <4>1. h[Depth - k][n] \in other[k]
        BY <1>4, <2>1
      <4> QED BY <2>1, <2>2, <4>1
    <3> QED BY <3>1, <3>2
  <2>6. k < Depth => \A m \in level[k + 1] : outer[inner[m]] = text[m]
    BY <1>7, <2>2
  <2>7. n \in level[k]
    BY <2>1
  <2> HIDE DEF inner, text, outer
  <2>8. NodeText(Respelt(n, inner, first), outer, second, order) = NodeText(n, text, both, order)
    BY <1>2, <2>6, <2>7, TextRespelt
  <2> QED BY <2>3, <2>4, <2>5, <2>8
<1>8. 0 \in G
  BY <1>0, <1>7
<1>9. ASSUME NEW d \in G PROVE d + 1 \in G
  <2>1. d + 1 <= Depth => d + 1 \in 0..Depth /\ d <= Depth /\ (d + 1) - 1 = d
    BY <1>0
  <2>2. Same(d)
    BY <1>9
  <2>3. d + 1 <= Depth =>
          \A m \in level[Depth - ((d + 1) - 1)] :
             u[(d + 1) - 1][h[(d + 1) - 1][m]] = w[(d + 1) - 1][m]
    BY <2>1, <2>2
  <2>4. Same(d + 1)
    BY <1>7, <2>1, <2>3
  <2> QED BY <2>4
<1>10. G \in SUBSET Nat
  OBVIOUS
<1> HIDE DEF G
<1>11. G = Nat
  BY <1>8, <1>9, <1>10, UpwardInduction
<1> USE DEF G
<1>12. \A n \in level[Depth - Depth] : u[Depth][h[Depth][n]] = w[Depth][n]
  BY <1>0, <1>11
<1>13. u[Depth][h[Depth][node]] = w[Depth][node]
  BY <1>0, <1>2, <1>12
<1>14. Write(v, second, order) = Write(node, both, order)
  BY <1>1, <1>5, <1>6, <1>13
<1> QED BY <1>14 DEF v

\* What operator<< writes of a node is JSON's text of the node that it is read as, with
\* the fields in whatever order.
THEOREM WritesStandardText ==
  \A node, order : IsNode(node) =>
    Write(node, Spelling, order) = Standard(Respell(node, Kept), order)
<1> SUFFICES ASSUME NEW node, NEW order, IsNode(node)
             PROVE  Write(node, Spelling, order) = Standard(Respell(node, Kept), order)
  OBVIOUS
<1>1. Write(Respell(node, Kept), Escaped, order) = Write(node, Spelling, order)
  BY KeptEscaped, RespelledText2
<1> QED BY <1>1 DEF Standard

-----------------------------------------------------------------------------
(* Texts of parts that are respelled, or grow *)

\* Parts respelled make the whole respelled.
LEMMA RespelledFlat ==
  ASSUME NEW spelling \in Spelt, NEW R, R = [t \in Seq(Char) |-> Respelled(t, spelling)]
  PROVE  \A parts \in Seq(Seq(Char)) :
           Respelled(FlattenSeq(parts), spelling) = FlattenSeq(Of(parts, R))
<1> DEFINE T == Seq(Char)
           Good(s) == Respelled(FlattenSeq(s), spelling) = FlattenSeq(Of(s, R))
           G == {s \in Seq(T) : Good(s)}
<1>0. \A t \in T : R[t] = Respelled(t, spelling) /\ R[t] \in T
  BY RespelledText
<1>1. << >> \in G
  <2>1. << >> \in Seq(Seq(Char))
    OBVIOUS
  <2>2. FlattenSeq(<< >>) = << >>
    BY <2>1, FlattenIs
  <2>3. Respelled(<< >>, spelling) = << >>
    BY RespelledAppend
  <2>4. Of(<< >>, R) = << >>
    BY <2>1, OfIs
  <2> QED BY <2>1, <2>2, <2>3, <2>4
<1>2. ASSUME NEW s \in G, NEW e \in T PROVE Append(s, e) \in G
  <2>1. s \in Seq(T) /\ Good(s)
    OBVIOUS
  <2>2. Append(s, e) \in Seq(T)
    BY <2>1, AppendProperties
  <2> DEFINE flat == FlattenSeq(s)
             more == FlattenSeq(Of(s, R))
  <2>3. flat \in Seq(Char) /\ FlattenSeq(Append(s, e)) = flat \o e
    BY <2>1, FlattenIs
  <2>4. Of(s, R) \in Seq(Seq(Char))
    <3>1. \A t \in T : R[t] \in T
      BY <1>0
    <3> HIDE DEF T
    <3>2. Of(s, R) \in Seq(T)
      BY <2>1, <3>1, OfType
    <3> QED BY <3>2 DEF T
  <2>5. Of(Append(s, e), R) = Append(Of(s, R), R[e])
    <3> HIDE DEF T
    <3> QED BY <2>1, OfGrows
  <2>6. FlattenSeq(Append(Of(s, R), R[e])) = more \o R[e]
    <3>1. R[e] \in Seq(Char)
      BY <1>0
    <3> QED BY <2>4, <3>1, FlattenIs
  <2>7. Respelled(flat \o e, spelling) = Respelled(flat, spelling) \o Respelled(e, spelling)
    <3> HIDE DEF flat
    <3> QED BY <2>3, RespelledParts
  <2> QED BY <1>0, <2>1, <2>2, <2>3, <2>5, <2>6, <2>7
<1>3. G = Seq(T)
  <2>1. G \in SUBSET Seq(T)
    OBVIOUS
  <2> HIDE DEF G, T
  <2> QED BY <1>1, <1>2, <2>1, GrowingInduction
<1> QED BY <1>3

\* The same text, or a longer one.
Grown(a, b) == a \in Seq(Char) /\ b \in Seq(Char) /\ (a = b \/ Len(a) < Len(b))

\* A text grows into itself.
LEMMA GrownSame ==
  ASSUME NEW a \in Seq(Char)
  PROVE  Grown(a, a)
BY DEF Grown

\* A text is the same when both its parts are.
LEMMA GrownTwo ==
  ASSUME NEW a, NEW b, NEW x, NEW y, Grown(a, b), Grown(x, y)
  PROVE  Grown(a \o x, b \o y) /\ (a \o x = b \o y => a = b /\ x = y)
<1>1. /\ a \in Seq(Char) /\ b \in Seq(Char) /\ x \in Seq(Char) /\ y \in Seq(Char)
      /\ Len(a) \in Nat /\ Len(b) \in Nat /\ Len(x) \in Nat /\ Len(y) \in Nat
  BY DEF Grown
<1>2. /\ a \o x \in Seq(Char) /\ Len(a \o x) = Len(a) + Len(x)
      /\ b \o y \in Seq(Char) /\ Len(b \o y) = Len(b) + Len(y)
  BY <1>1, ConcatProperties
<1>3. CASE a = b /\ x = y
  BY <1>2, <1>3 DEF Grown
<1>4. CASE ~(a = b /\ x = y)
  <2>1. Len(a) < Len(b) \/ Len(x) < Len(y)
    BY <1>4 DEF Grown
  <2>2. Len(a) <= Len(b) /\ Len(x) <= Len(y)
    <3>1. a = b \/ Len(a) < Len(b)
      BY DEF Grown
    <3>2. x = y \/ Len(x) < Len(y)
      BY DEF Grown
    <3> QED BY <1>1, <3>1, <3>2
  <2>3. Len(a) + Len(x) < Len(b) + Len(y)
    BY <1>1, <2>1, <2>2
  <2>4. Len(a \o x) < Len(b \o y)
    BY <1>2, <2>3
  <2>5. Len(a \o x) \in Nat
    BY <1>1, <1>2
  <2>6. a \o x # b \o y
    BY <2>4, <2>5
  <2> QED BY <1>2, <1>4, <2>4, <2>6 DEF Grown
<1> QED BY <1>3, <1>4

\* And so with what stands around it.
LEMMA GrownInside ==
  ASSUME NEW a, NEW b, Grown(a, b), NEW x \in Seq(Char), NEW y \in Seq(Char)
  PROVE  Grown((x \o a) \o y, (x \o b) \o y) /\ ((x \o a) \o y = (x \o b) \o y => a = b)
<1>1. Grown(x, x) /\ Grown(y, y)
  BY GrownSame
<1>2. Grown(x \o a, x \o b) /\ (x \o a = x \o b => a = b)
  BY <1>1, GrownTwo
<1> DEFINE u == x \o a
           v == x \o b
<1>3. Grown(u, v)
  BY <1>2
<1> HIDE DEF u, v
<1>4. Grown(u \o y, v \o y) /\ (u \o y = v \o y => u = v)
  BY <1>1, <1>3, GrownTwo
<1> QED BY <1>2, <1>4 DEF u, v

\* Parts that are the same or grown, and the lists that are made of them.
GrownOn(S, f, g) == \A x \in S : Grown(f[x], g[x])
AllGrown(S, f, g) ==
  \A s \in Seq(S) :
    /\ Grown(FlattenSeq(Of(s, f)), FlattenSeq(Of(s, g)))
    /\ FlattenSeq(Of(s, f)) = FlattenSeq(Of(s, g))
         <=> \A i \in 1..Len(s) : f[s[i]] = g[s[i]]

\* A list is the same when all its parts are.
LEMMA GrownOf ==
  ASSUME NEW S, NEW f, NEW g, GrownOn(S, f, g)
  PROVE  AllGrown(S, f, g)
<1> DEFINE F(s) == FlattenSeq(Of(s, f))
           H(s) == FlattenSeq(Of(s, g))
           All(s) == \A i \in 1..Len(s) : f[s[i]] = g[s[i]]
           Good(s) == Grown(F(s), H(s)) /\ (F(s) = H(s) <=> All(s))
           G == {s \in Seq(S) : Good(s)}
           T == Seq(Char)
<1>0. \A x \in S : f[x] \in T /\ g[x] \in T
  BY DEF Grown, GrownOn
<1>1. << >> \in G
  <2>1. << >> \in Seq(S) /\ Len(<< >>) = 0 /\ << >> \in Seq(Char) /\ << >> \in Seq(Seq(Char))
    OBVIOUS
  <2>2. F(<< >>) = << >> /\ H(<< >>) = << >>
    <3>1. Of(<< >>, f) = << >> /\ Of(<< >>, g) = << >>
      BY <2>1, OfIs
    <3>2. FlattenSeq(<< >>) = << >>
      BY <2>1, FlattenIs
    <3> QED BY <3>1, <3>2
  <2>3. Grown(<< >>, << >>)
    BY <2>1, GrownSame
  <2>4. All(<< >>)
    BY <2>1
  <2> HIDE DEF F, H, All
  <2> QED BY <2>1, <2>2, <2>3, <2>4
<1>2. ASSUME NEW s \in G, NEW e \in S PROVE Append(s, e) \in G
  <2>1. s \in Seq(S) /\ Good(s)
    OBVIOUS
  <2>2. /\ Append(s, e) \in Seq(S) /\ Len(Append(s, e)) = Len(s) + 1
        /\ \A i \in 1..Len(s) : Append(s, e)[i] = s[i]
        /\ Append(s, e)[Len(s) + 1] = e
    BY <2>1, AppendProperties
  <2>3. F(Append(s, e)) = F(s) \o f[e]
    <3>1. Of(Append(s, e), f) = Append(Of(s, f), f[e])
      BY <2>1, OfGrows
    <3>2. Of(s, f) \in Seq(T)
      <4>1. \A x \in S : f[x] \in T
        BY <1>0
      <4> HIDE DEF T, Good, All, F, H
      <4> QED BY <2>1, <4>1, OfType
    <3>3. f[e] \in Seq(Char) /\ Of(s, f) \in Seq(Seq(Char))
      BY <1>0, <3>2
    <3>4. FlattenSeq(Append(Of(s, f), f[e])) = FlattenSeq(Of(s, f)) \o f[e]
      BY <3>3, FlattenIs
    <3> QED BY <3>1, <3>4
  <2>4. H(Append(s, e)) = H(s) \o g[e]
    <3>1. Of(Append(s, e), g) = Append(Of(s, g), g[e])
      BY <2>1, OfGrows
    <3>2. Of(s, g) \in Seq(T)
      <4>1. \A x \in S : g[x] \in T
        BY <1>0
      <4> HIDE DEF T, Good, All, F, H
      <4> QED BY <2>1, <4>1, OfType
    <3>3. g[e] \in Seq(Char) /\ Of(s, g) \in Seq(Seq(Char))
      BY <1>0, <3>2
    <3>4. FlattenSeq(Append(Of(s, g), g[e])) = FlattenSeq(Of(s, g)) \o g[e]
      BY <3>3, FlattenIs
    <3> QED BY <3>1, <3>4
  <2> HIDE DEF F, H
  <2>5. Grown(F(s), H(s)) /\ Grown(f[e], g[e])
    BY <2>1 DEF GrownOn
  <2>6. /\ Grown(F(s) \o f[e], H(s) \o g[e])
        /\ F(s) \o f[e] = H(s) \o g[e] => F(s) = H(s) /\ f[e] = g[e]
    <3> DEFINE a == F(s)
               b == H(s)
               x == f[e]
               y == g[e]
    <3>1. Grown(a, b) /\ Grown(x, y)
      BY <2>5
    <3> HIDE DEF a, b, x, y
    <3>2. Grown(a \o x, b \o y) /\ (a \o x = b \o y => a = b /\ x = y)
      BY <3>1, GrownTwo
    <3> QED BY <3>2 DEF a, b, x, y
  <2>7. All(Append(s, e)) <=> All(s) /\ f[e] = g[e]
    <3> DEFINE t == Append(s, e)
    <3>1. Len(s) \in Nat /\ Len(t) = Len(s) + 1
      BY <2>1, <2>2
    <3>2. (\A i \in 1..Len(s) : t[i] = s[i]) /\ t[Len(s) + 1] = e
      BY <2>2
    <3> HIDE DEF t, G
    <3>3. ASSUME All(t) PROVE All(s) /\ f[e] = g[e]
      <4>1. ASSUME NEW i \in 1..Len(s) PROVE f[s[i]] = g[s[i]]
        <5>1. i \in 1..Len(t)
          BY <3>1
        <5> QED BY <3>2, <3>3, <5>1
      <4>2. Len(s) + 1 \in 1..Len(t)
        BY <3>1
      <4> QED BY <3>2, <3>3, <4>1, <4>2
    <3>4. ASSUME All(s), f[e] = g[e] PROVE All(t)
      <4>1. ASSUME NEW i \in 1..Len(t) PROVE f[t[i]] = g[t[i]]
        <5>1. i \in 1..Len(s) \/ i = Len(s) + 1
          BY <3>1
        <5> QED BY <3>2, <3>4, <5>1
      <4> QED BY <4>1
    <3>5. All(t) <=> All(s) /\ f[e] = g[e]
      BY <3>3, <3>4
    <3> QED BY <3>5 DEF t
  <2> HIDE DEF All
  <2>8. Good(Append(s, e))
    BY <2>1, <2>3, <2>4, <2>6, <2>7
  <2> QED BY <2>2, <2>8
<1>3. G = Seq(S)
  <2>1. G \in SUBSET Seq(S)
    OBVIOUS
  <2> HIDE DEF G
  <2> QED BY <1>1, <1>2, <2>1, GrowingInduction
<1>4. \A s \in Seq(S) : Good(s)
  BY <1>3
<1> QED BY <1>4 DEF AllGrown

\* Lists of as many parts, each the same or grown.
LEMMA GrownList ==
  ASSUME NEW a \in Seq(Seq(Char)), NEW b \in Seq(Seq(Char)), Len(a) = Len(b),
         \A i \in 1..Len(a) : Grown(a[i], b[i])
  PROVE  /\ Grown(FlattenSeq(a), FlattenSeq(b))
         /\ FlattenSeq(a) = FlattenSeq(b) => \A i \in 1..Len(a) : a[i] = b[i]
<1> DEFINE n == Len(a)
           S == 1..n
           s == [i \in 1..n |-> i]
<1>1. n \in Nat /\ a = [i \in 1..n |-> a[i]] /\ b = [i \in 1..n |-> b[i]]
  OBVIOUS
<1>2. \A i \in S : Grown(a[i], b[i])
  OBVIOUS
<1> HIDE DEF n
<1>3. /\ s \in Seq(S) /\ Len(s) = n /\ \A i \in 1..n : s[i] = i
      /\ DOMAIN s = 1..n
  <2>1. DOMAIN s = 1..n /\ \A i \in 1..n : s[i] = i
    OBVIOUS
  <2>2. s \in [1..n -> S]
    OBVIOUS
  <2> HIDE DEF s
  <2>3. s \in Seq(S) /\ Len(s) = n
    <3>1. s \in Seq(S)
      <4>1. n \in Nat
        BY <1>1
      <4> HIDE DEF S
      <4>2. \A m \in Nat : \A f \in [1..m -> S] : f \in Seq(S)
        OBVIOUS
      <4> QED BY <2>2, <4>1, <4>2
    <3>2. Len(s) \in Nat /\ DOMAIN s = 1..Len(s)
      <4> HIDE DEF S
      <4> QED BY <3>1
    <3> QED BY <1>1, <2>1, <3>1, <3>2
  <2> QED BY <2>1, <2>3
<1> HIDE DEF s
<1>4. Of(s, a) = a /\ Of(s, b) = b
  <2>1. Of(s, a) = [i \in 1..n |-> a[i]]
    BY <1>3 DEF Of
  <2>2. Of(s, b) = [i \in 1..n |-> b[i]]
    BY <1>3 DEF Of
  <2> QED BY <1>1, <2>1, <2>2
<1> HIDE DEF S
<1>5. /\ Grown(FlattenSeq(Of(s, a)), FlattenSeq(Of(s, b)))
      /\ FlattenSeq(Of(s, a)) = FlattenSeq(Of(s, b)) <=> \A i \in 1..Len(s) : a[s[i]] = b[s[i]]
  <2>1. \A t \in Seq(S) :
          /\ Grown(FlattenSeq(Of(t, a)), FlattenSeq(Of(t, b)))
          /\ FlattenSeq(Of(t, a)) = FlattenSeq(Of(t, b))
               <=> \A i \in 1..Len(t) : a[t[i]] = b[t[i]]
    <3>1. GrownOn(S, a, b)
      BY <1>2 DEF GrownOn
    <3>2. AllGrown(S, a, b)
      BY <3>1, GrownOf
    <3> QED BY <3>2 DEF AllGrown
  <2> QED BY <1>3, <2>1
<1>6. Grown(FlattenSeq(a), FlattenSeq(b))
  BY <1>4, <1>5
<1>7. FlattenSeq(a) = FlattenSeq(b) => \A i \in 1..n : a[i] = b[i]
  BY <1>3, <1>4, <1>5
<1> QED BY <1>6, <1>7 DEF n

\* Lists of as many parts, one with the parts of the other respelled.
LEMMA RespelledList ==
  ASSUME NEW spelling \in Spelt, NEW a \in Seq(Seq(Char)), NEW b \in Seq(Seq(Char)),
         Len(a) = Len(b), \A i \in 1..Len(a) : Respelled(a[i], spelling) = b[i]
  PROVE  Respelled(FlattenSeq(a), spelling) = FlattenSeq(b)
<1> DEFINE R == [t \in Seq(Char) |-> Respelled(t, spelling)]
           T == Seq(Char)
<1>1. ASSUME NEW i \in 1..Len(a) PROVE R[a[i]] = b[i]
  <2>1. a[i] \in Seq(Char)
    <3>1. a \in Seq(T) /\ i \in 1..Len(a)
      OBVIOUS
    <3> HIDE DEF T
    <3>2. a[i] \in T
      BY <3>1, ElementOfSeq
    <3> QED BY <3>2 DEF T
  <2> QED BY <2>1
<1>2. R = [t \in Seq(Char) |-> Respelled(t, spelling)]
  OBVIOUS
<1> HIDE DEF R
<1>3. Respelled(FlattenSeq(a), spelling) = FlattenSeq(Of(a, R))
  BY <1>2, RespelledFlat
<1>4. Of(a, R) = b
  <2>1. Of(a, R) = [i \in 1..Len(a) |-> R[a[i]]]
    BY DEF Of
  <2>2. b = [i \in 1..Len(a) |-> b[i]]
    OBVIOUS
  <2> QED BY <1>1, <2>1, <2>2
<1> QED BY <1>3, <1>4

-----------------------------------------------------------------------------
(* The parts of a list and of a map *)

ItemFront(i) == IF i = 1 THEN << >> ELSE Between
ItemParts(items) == [i \in DOMAIN items |-> ItemFront(i) \o items[i]]

\* The text of a list is its items, each behind what separates it from the one before.
LEMMA ItemPartsAre ==
  ASSUME NEW items \in Seq(Seq(Char))
  PROVE  /\ Joined(items) = FlattenSeq(ItemParts(items))
         /\ ItemParts(items) \in Seq(Seq(Char)) /\ Len(ItemParts(items)) = Len(items)
         /\ \A i \in 1..Len(items) :
              /\ items[i] \in Seq(Char) /\ ItemFront(i) \in Seq(Layout)
              /\ ItemFront(i) \in Seq(Char)
              /\ ItemParts(items)[i] = ItemFront(i) \o items[i]
<1> DEFINE T == Seq(Char)
           n == Len(items)
           parts == ItemParts(items)
<1>1. Joined(items) = FlattenSeq(ItemParts(items))
  BY DEF Joined, ItemParts, ItemFront
<1>2. Between \in Seq(Layout) /\ Between \in T /\ << >> \in Seq(Layout) /\ << >> \in T
  <2>1. << >> \in Seq(Layout) /\ << >> \in T
    OBVIOUS
  <2>2. Layout \subseteq Layout /\ Layout \subseteq Char
    BY LayoutChars
  <2>3. Between \in Seq(Layout)
    BY <2>2, LayoutTexts
  <2>4. Between \in Seq(Char)
    BY <2>2, LayoutTexts
  <2> QED BY <2>1, <2>3, <2>4
<1>3. n \in Nat /\ DOMAIN items = 1..n
  OBVIOUS
<1>4. ASSUME NEW i \in 1..n
      PROVE  items[i] \in T /\ ItemFront(i) \in Seq(Layout) /\ ItemFront(i) \in T
  <2>1. items \in Seq(T)
    OBVIOUS
  <2> HIDE DEF T
  <2>2. items[i] \in T
    BY <2>1, ElementOfSeq
  <2> QED BY <1>2, <2>2 DEF ItemFront
<1>5. parts = [i \in 1..n |-> ItemFront(i) \o items[i]]
  BY <1>3 DEF ItemParts
<1> HIDE DEF parts, n
<1>6. ASSUME NEW i \in 1..n PROVE parts[i] = ItemFront(i) \o items[i] /\ parts[i] \in T
  <2> DEFINE x == ItemFront(i)
             y == items[i]
  <2>1. x \in T /\ y \in T
    BY <1>4
  <2> HIDE DEF x, y
  <2>2. x \o y \in T
    BY <2>1
  <2> QED BY <1>5, <2>2 DEF x, y
<1> HIDE DEF T
<1>7. parts \in Seq(T) /\ Len(parts) = n
  BY <1>3, <1>5, <1>6
<1> USE DEF T, n, parts
<1>8. \A i \in 1..Len(items) :
        /\ items[i] \in Seq(Char) /\ ItemFront(i) \in Seq(Layout) /\ ItemFront(i) \in Seq(Char)
        /\ ItemParts(items)[i] = ItemFront(i) \o items[i]
  BY <1>4, <1>6
<1> QED BY <1>1, <1>7, <1>8

FieldFront(D, order, i) ==
  (IF \E j \in 1..(i - 1) : order[j] \in D THEN Between ELSE << >>)
    \o (Quoted(order[i]) \o <<":", " ">>)
FieldParts(texts, order) ==
  [i \in DOMAIN order |->
     IF order[i] \notin DOMAIN texts THEN << >>
     ELSE FieldFront(DOMAIN texts, order, i) \o texts[order[i]]]

\* What is in front of the value of a field is text.
LEMMA FieldFrontIs ==
  ASSUME NEW C, Layout \subseteq C, NEW D, NEW order \in Seq(Seq(C)), NEW i \in 1..Len(order)
  PROVE  FieldFront(D, order, i) \in Seq(C)
<1> DEFINE colon == <<":", " ">>
           before == IF \E j \in 1..(i - 1) : order[j] \in D THEN Between ELSE << >>
           name == order[i]
           T == Seq(C)
<1>1. colon \in T /\ before \in T
  <2>1. << >> \in T
    OBVIOUS
  <2>2. Between \in T /\ colon \in T
    BY LayoutTexts
  <2> QED BY <2>1, <2>2
<1>2. name \in T
  <2>1. order \in Seq(T)
    OBVIOUS
  <2> HIDE DEF T
  <2> QED BY <2>1, ElementOfSeq
<1>3. FieldFront(D, order, i) = before \o (Quoted(name) \o colon)
  BY DEF FieldFront
<1> HIDE DEF colon, before, name
<1>4. Quoted(name) \in Seq(C)
  BY <1>2, QuotedIs
<1> DEFINE q == Quoted(name)
<1> HIDE DEF q
<1>5. before \o (q \o colon) \in Seq(C)
  BY <1>1, <1>4 DEF q
<1> QED BY <1>3, <1>5 DEF q

\* The fields of a map are those of its names that are in the order.
Parted(D, texts, order) ==
  /\ JoinedFields(texts, order) = FlattenSeq(FieldParts(texts, order))
  /\ FieldParts(texts, order) \in Seq(Seq(Char))
  /\ Len(FieldParts(texts, order)) = Len(order)
  /\ \A i \in 1..Len(order) :
       /\ FieldFront(D, order, i) \in Seq(Char)
       /\ order[i] \notin D => FieldParts(texts, order)[i] = << >>
       /\ order[i] \in D =>
            FieldParts(texts, order)[i] = FieldFront(D, order, i) \o texts[order[i]]

\* The text of a map is its fields, each behind its separator and its name.
LEMMA FieldPartsAre ==
  ASSUME NEW D, NEW texts \in [D -> Seq(Char)], NEW order \in Seq(Seq(Char))
  PROVE  Parted(D, texts, order)
<1> DEFINE T == Seq(Char)
           n == Len(order)
           parts == FieldParts(texts, order)
           front(i) == FieldFront(D, order, i)
<1>0. Layout \subseteq Char /\ << >> \in T /\ DOMAIN texts = D
  <2>1. << >> \in T
    OBVIOUS
  <2> QED BY <2>1, LayoutChars
<1>1. \A i \in 1..n : front(i) \in T
  BY <1>0, FieldFrontIs
<1>2. n \in Nat /\ DOMAIN order = 1..n
  OBVIOUS
<1>3. ASSUME NEW i \in 1..n, order[i] \in D
      PROVE  (IF \E j \in 1..(i - 1) : order[j] \in DOMAIN texts THEN Between ELSE << >>)
               \o Field(order[i], texts[order[i]])
             = front(i) \o texts[order[i]]
  <2> DEFINE before == IF \E j \in 1..(i - 1) : order[j] \in D THEN Between ELSE << >>
             colon == <<":", " ">>
             name == order[i]
             q == Quoted(name)
             text == texts[name]
  <2>1. before \in T /\ colon \in T
    <3>1. Between \in Seq(Char) /\ colon \in Seq(Char)
      BY <1>0, LayoutTexts
    <3> QED BY <1>0, <3>1
  <2>2. name \in T /\ text \in T
    <3>1. order \in Seq(T)
      OBVIOUS
    <3>2. text \in T
      BY <1>3
    <3> HIDE DEF T, text
    <3> QED BY <3>1, <3>2, ElementOfSeq
  <2>3. front(i) = before \o (q \o colon)
    BY DEF FieldFront
  <2>4. Field(name, text) = (q \o colon) \o text
    BY DEF Field
  <2> HIDE DEF before, colon, name, text, front
  <2>5. q \in T
    BY <1>0, <2>2, QuotedIs
  <2> HIDE DEF q
  <2> DEFINE x == q \o colon
  <2>6. x \in T
    BY <2>1, <2>5
  <2> HIDE DEF x
  <2>7. before \o (x \o text) = (before \o x) \o text
    BY <2>1, <2>2, <2>6, TextsJoin
  <2>8. before \o Field(name, text) = front(i) \o text
    BY <2>3, <2>4, <2>7 DEF x
  <2> QED BY <1>0, <2>8 DEF before, name, text
<1>4. JoinedFields(texts, order) = FlattenSeq(parts)
  <2> DEFINE old == [i \in 1..n |->
                       IF order[i] \notin DOMAIN texts THEN << >>
                       ELSE (IF \E j \in 1..(i - 1) : order[j] \in DOMAIN texts
                             THEN Between ELSE << >>) \o Field(order[i], texts[order[i]])]
             new == [i \in 1..n |-> IF order[i] \notin DOMAIN texts THEN << >>
                                    ELSE front(i) \o texts[order[i]]]
  <2>1. JoinedFields(texts, order) = FlattenSeq(old)
    BY <1>2 DEF JoinedFields
  <2>2. parts = new
    BY <1>0, <1>2 DEF FieldParts
  <2>3. old = new
    <3> HIDE DEF front
    <3> QED BY <1>0, <1>3
  <2> QED BY <2>1, <2>2, <2>3
<1>5. parts = [i \in 1..n |-> IF order[i] \notin D THEN << >> ELSE front(i) \o texts[order[i]]]
  BY <1>0, <1>2 DEF FieldParts
<1> HIDE DEF parts, n, front
<1>6. ASSUME NEW i \in 1..n PROVE parts[i] \in T
  <2>1. CASE order[i] \in D
    <3> DEFINE x == front(i)
               y == texts[order[i]]
    <3>1. x \in T /\ y \in T
      BY <1>1, <2>1
    <3>2. parts[i] = x \o y
      BY <1>5, <2>1
    <3> HIDE DEF x, y
    <3> QED BY <3>1, <3>2
  <2>2. CASE order[i] \notin D
    BY <1>0, <1>5, <2>2
  <2> QED BY <2>1, <2>2
<1>7. parts \in Seq(T) /\ Len(parts) = n
  <2> HIDE DEF T
  <2> QED BY <1>2, <1>5, <1>6
<1>8. \A i \in 1..n : /\ order[i] \notin D => parts[i] = << >>
                      /\ order[i] \in D => parts[i] = front(i) \o texts[order[i]]
  BY <1>5
<1>9. \A i \in 1..Len(order) :
        /\ FieldFront(D, order, i) \in Seq(Char)
        /\ order[i] \notin D => FieldParts(texts, order)[i] = << >>
        /\ order[i] \in D =>
             FieldParts(texts, order)[i] = FieldFront(D, order, i) \o texts[order[i]]
  BY <1>1, <1>8 DEF n, parts, front
<1> QED BY <1>4, <1>7, <1>9 DEF n, parts, Parted

\* A spelling that leaves the layout and the names.
Bare(spelling) ==
  spelling \in Spelt /\ \A c \in Layout \cup Letter : spelling[c] = <<c>>

\* A bare spelling leaves layout and letters as they are.
LEMMA BareTexts ==
  ASSUME NEW spelling, Bare(spelling)
  PROVE  \A t \in Seq(Layout \cup Letter) : t \in Seq(Char) /\ Respelled(t, spelling) = t
<1> DEFINE C == Layout \cup Letter
           G == {s \in Seq(C) : Respelled(s, spelling) = s}
<1>1. C \subseteq Char
  BY LayoutChars DEF Char
<1>2. << >> \in G
  <2>1. << >> \in Seq(C)
    OBVIOUS
  <2>2. Respelled(<< >>, spelling) = << >>
    BY RespelledAppend DEF Bare
  <2> QED BY <2>1, <2>2
<1>3. ASSUME NEW s \in G, NEW c \in C PROVE Append(s, c) \in G
  <2>1. s \in Seq(C) /\ Respelled(s, spelling) = s
    OBVIOUS
  <2>2. s \in Seq(Char) /\ c \in Char
    BY <1>1, <2>1
  <2>3. spelling[c] = <<c>>
    BY DEF Bare
  <2>4. Respelled(Append(s, c), spelling) = s \o spelling[c]
    BY <2>1, <2>2, RespelledAppend DEF Bare
  <2>5. s \o <<c>> = Append(s, c) /\ Append(s, c) \in Seq(C)
    <3> HIDE DEF C, G
    <3> QED BY <2>1, AppendProperties, AppendIsConcat
  <2> QED BY <2>3, <2>4, <2>5
<1>4. G = Seq(C)
  <2>1. G \in SUBSET Seq(C)
    OBVIOUS
  <2> HIDE DEF G, C
  <2> QED BY <1>2, <1>3, <2>1, GrowingInduction
<1>5. \A t \in Seq(C) : t \in Seq(Char)
  BY <1>1
<1> QED BY <1>4, <1>5

\* What is around a text stays.
LEMMA RespelledInside ==
  ASSUME NEW spelling, Bare(spelling), NEW x \in Seq(Layout \cup Letter),
         NEW y \in Seq(Layout \cup Letter), NEW t \in Seq(Char)
  PROVE  /\ Respelled(x \o t, spelling) = x \o Respelled(t, spelling)
         /\ Respelled((x \o t) \o y, spelling) = (x \o Respelled(t, spelling)) \o y
<1>1. /\ x \in Seq(Char) /\ Respelled(x, spelling) = x
      /\ y \in Seq(Char) /\ Respelled(y, spelling) = y
  BY BareTexts
<1>2. spelling \in Spelt
  BY DEF Bare
<1>3. Respelled(x \o t, spelling) = Respelled(x, spelling) \o Respelled(t, spelling)
  BY <1>1, <1>2, RespelledParts
<1> DEFINE u == x \o t
<1>4. u \in Seq(Char)
  BY <1>1
<1> HIDE DEF u
<1>5. Respelled(u \o y, spelling) = Respelled(u, spelling) \o Respelled(y, spelling)
  BY <1>1, <1>2, <1>4, RespelledParts
<1> QED BY <1>1, <1>3, <1>5 DEF u

\* A text between two brackets or two quotes.
LEMMA RespelledBetween ==
  ASSUME NEW spelling, Bare(spelling), NEW a \in Layout, NEW b \in Layout, NEW t \in Seq(Char)
  PROVE  Respelled((<<a>> \o t) \o <<b>>, spelling)
           = (<<a>> \o Respelled(t, spelling)) \o <<b>>
<1> DEFINE x == <<a>>
           y == <<b>>
           C == Layout \cup Letter
<1>1. x \in Seq(C) /\ y \in Seq(C)
  <2>1. a \in C /\ b \in C
    OBVIOUS
  <2> HIDE DEF C
  <2> QED BY <2>1
<1> HIDE DEF x, y
<1>2. Respelled((x \o t) \o y, spelling) = (x \o Respelled(t, spelling)) \o y
  BY <1>1, RespelledInside, SMTT(60) DEF C
<1> QED BY <1>2 DEF x, y

\* The text of a list is respelled item by item.
LEMMA RespelledJoined ==
  ASSUME NEW spelling, Bare(spelling), NEW a \in Seq(Seq(Char)), NEW b \in Seq(Seq(Char)),
         Len(a) = Len(b), \A i \in 1..Len(a) : Respelled(a[i], spelling) = b[i]
  PROVE  Respelled(Joined(a), spelling) = Joined(b)
<1> DEFINE p == ItemParts(a)
           q == ItemParts(b)
<1>1. /\ Joined(a) = FlattenSeq(p) /\ p \in Seq(Seq(Char)) /\ Len(p) = Len(a)
      /\ \A i \in 1..Len(a) : /\ a[i] \in Seq(Char) /\ ItemFront(i) \in Seq(Layout)
                              /\ p[i] = ItemFront(i) \o a[i]
  BY ItemPartsAre
<1>2. /\ Joined(b) = FlattenSeq(q) /\ q \in Seq(Seq(Char)) /\ Len(q) = Len(b)
      /\ \A i \in 1..Len(b) : q[i] = ItemFront(i) \o b[i]
  BY ItemPartsAre
<1> HIDE DEF p, q
<1>3. ASSUME NEW i \in 1..Len(p) PROVE Respelled(p[i], spelling) = q[i]
  <2> DEFINE x == ItemFront(i)
             t == a[i]
  <2>1. t \in Seq(Char) /\ x \in Seq(Layout) /\ p[i] = x \o t
    BY <1>1
  <2>2. q[i] = x \o b[i] /\ Respelled(t, spelling) = b[i]
    BY <1>1, <1>2
  <2> HIDE DEF x, t
  <2>3. x \in Seq(Layout \cup Letter)
    BY <2>1
  <2>4. Respelled(x \o t, spelling) = x \o Respelled(t, spelling)
    <3>1. << >> \in Seq(Layout \cup Letter)
      OBVIOUS
    <3> QED BY <2>1, <2>3, <3>1, RespelledInside
  <2> QED BY <2>1, <2>2, <2>4
<1>4. Respelled(FlattenSeq(p), spelling) = FlattenSeq(q)
  BY <1>1, <1>2, <1>3, RespelledList DEF Bare
<1> QED BY <1>1, <1>2, <1>4

\* Texts that are respelled to others.
RespelledOn(D, a, b, spelling) == \A name \in D : Respelled(a[name], spelling) = b[name]

\* The text of a map is respelled field by field.
LEMMA RespelledFields ==
  ASSUME NEW spelling, Bare(spelling), NEW D,
         NEW a \in [D -> Seq(Char)], NEW b \in [D -> Seq(Char)],
         RespelledOn(D, a, b, spelling), NEW order \in Seq(Seq(Letter))
  PROVE  Respelled(JoinedFields(a, order), spelling) = JoinedFields(b, order)
<1> DEFINE p == FieldParts(a, order)
           q == FieldParts(b, order)
           C == Layout \cup Letter
<1>0. order \in Seq(Seq(Char)) /\ order \in Seq(Seq(C))
  <2>1. Letter \subseteq Char /\ Letter \subseteq C
    BY DEF Char
  <2> HIDE DEF C
  <2>2. order \in Seq(Seq(Char))
    BY <2>1
  <2>3. order \in Seq(Seq(C))
    BY <2>1
  <2> QED BY <2>2, <2>3
<1>a. Parted(D, a, order) /\ Parted(D, b, order)
  BY <1>0, FieldPartsAre
<1>1. /\ JoinedFields(a, order) = FlattenSeq(p) /\ p \in Seq(Seq(Char)) /\ Len(p) = Len(order)
      /\ \A i \in 1..Len(order) :
           /\ order[i] \notin D => p[i] = << >>
           /\ order[i] \in D => p[i] = FieldFront(D, order, i) \o a[order[i]]
  BY <1>a DEF Parted
<1>2. /\ JoinedFields(b, order) = FlattenSeq(q) /\ q \in Seq(Seq(Char)) /\ Len(q) = Len(order)
      /\ \A i \in 1..Len(order) :
           /\ order[i] \notin D => q[i] = << >>
           /\ order[i] \in D => q[i] = FieldFront(D, order, i) \o b[order[i]]
  BY <1>a DEF Parted
<1>3. \A i \in 1..Len(order) : FieldFront(D, order, i) \in Seq(C)
  <2>1. Layout \subseteq C
    OBVIOUS
  <2> HIDE DEF C
  <2> QED BY <1>0, <2>1, FieldFrontIs
<1> HIDE DEF p, q
<1>4. ASSUME NEW i \in 1..Len(p) PROVE Respelled(p[i], spelling) = q[i]
  <2>1. CASE order[i] \in D
    <3> DEFINE x == FieldFront(D, order, i)
               t == a[order[i]]
    <3>1. t \in Seq(Char) /\ x \in Seq(C) /\ p[i] = x \o t
      BY <1>1, <1>3, <2>1
    <3>2. q[i] = x \o b[order[i]] /\ Respelled(t, spelling) = b[order[i]]
      BY <1>1, <1>2, <2>1 DEF RespelledOn
    <3> HIDE DEF x, t
    <3>3. Respelled(x \o t, spelling) = x \o Respelled(t, spelling)
      <4>1. << >> \in Seq(Layout \cup Letter)
        OBVIOUS
      <4> QED BY <3>1, <4>1, RespelledInside
    <3> QED BY <3>1, <3>2, <3>3
  <2>2. CASE order[i] \notin D
    <3>1. p[i] = << >> /\ q[i] = << >>
      BY <1>1, <1>2, <2>2
    <3>2. Respelled(<< >>, spelling) = << >>
      BY RespelledAppend DEF Bare
    <3> QED BY <3>1, <3>2
  <2> QED BY <2>1, <2>2
<1>5. Respelled(FlattenSeq(p), spelling) = FlattenSeq(q)
  BY <1>1, <1>2, <1>4, RespelledList DEF Bare
<1> QED BY <1>1, <1>2, <1>5

\* A node's text respelled is its text in another spelling, when so it is with the nodes
\* in it.
LEMMA TextRespelled ==
  ASSUME NEW first, NEW second, NEW both, Composed(first, second, both), Bare(second),
         NEW level, Plainly(level), NEW order \in Seq(Seq(Letter)), NEW k \in 0..Depth,
         NEW n \in level[k], NEW text, NEW other,
         k < Depth => \A m \in level[k + 1] :
           text[m] \in Seq(Char) /\ other[m] \in Seq(Char) /\ Respelled(text[m], second) = other[m]
  PROVE  Respelled(NodeText(n, text, first, order), second) = NodeText(n, other, both, order)
<1>0. {Square, Brace, Curly, Open, Quote} \subseteq Layout
  BY Brackets
<1>1. CASE Is(n, "string") /\ n.string \in Seq(Char)
  <2> DEFINE s == n.string
             t == Respelled(s, first)
  <2>1. s \in Seq(Char) /\ first \in Spelt
    BY <1>1 DEF Composed
  <2>2. NodeText(n, text, first, order) = Quoted(t)
    BY <1>1, OfString
  <2>3. NodeText(n, other, both, order) = Quoted(Respelled(s, both))
    BY <1>1, OfString
  <2> HIDE DEF s
  <2>4. t \in Seq(Char)
    BY <2>1, RespelledText
  <2>5. Respelled(t, second) = Respelled(s, both)
    BY <2>1, RespelledTwice
  <2> HIDE DEF t
  <2>6. Respelled((<<Quote>> \o t) \o <<Quote>>, second)
          = (<<Quote>> \o Respelled(t, second)) \o <<Quote>>
    BY <1>0, <2>4, RespelledBetween
  <2> QED BY <2>2, <2>3, <2>5, <2>6 DEF Quoted, Quote
<1>2. CASE /\ k < Depth /\ ~Is(n, "string")
           /\ Is(n, "array") /\ n.array \in Seq(level[k + 1])
  <2> DEFINE s == n.array
             S == level[k + 1]
             T == Seq(Char)
             a == Of(s, text)
             b == Of(s, other)
  <2>1. NodeText(n, text, first, order) = (<<Open>> \o Joined(a)) \o <<Square>>
    BY <1>2, OfArray
  <2>2. NodeText(n, other, both, order) = (<<Open>> \o Joined(b)) \o <<Square>>
    BY <1>2, OfArray
  <2>3. /\ s \in Seq(S)
        /\ \A m \in S : text[m] \in T /\ other[m] \in T /\ Respelled(text[m], second) = other[m]
    BY <1>2
  <2> HIDE DEF s, S
  <2>4. a \in Seq(Seq(Char)) /\ b \in Seq(Seq(Char))
    <3> HIDE DEF T
    <3>1. a \in Seq(T)
      BY <2>3, OfType
    <3>2. b \in Seq(T)
      BY <2>3, OfType
    <3> QED BY <3>1, <3>2 DEF T
  <2>5. /\ Len(a) = Len(s) /\ Len(b) = Len(s)
        /\ \A i \in 1..Len(s) : a[i] = text[s[i]] /\ b[i] = other[s[i]]
    BY <2>3, OfIs
  <2> HIDE DEF a, b
  <2>6. \A i \in 1..Len(a) : Respelled(a[i], second) = b[i]
    <3> SUFFICES ASSUME NEW i \in 1..Len(s) PROVE Respelled(a[i], second) = b[i]
      BY <2>5
    <3>1. s[i] \in S
      BY <2>3, ElementOfSeq
    <3> QED BY <2>3, <2>5, <3>1
  <2> DEFINE x == Joined(a)
  <2>7. x \in Seq(Char)
    <3>1. << >> \in Seq(Char)
      OBVIOUS
    <3> QED BY <2>4, <3>1, ItemsGrow
  <2>8. Respelled(x, second) = Joined(b)
    BY <2>4, <2>5, <2>6, RespelledJoined
  <2> HIDE DEF x
  <2>9. Respelled((<<Open>> \o x) \o <<Square>>, second)
          = (<<Open>> \o Respelled(x, second)) \o <<Square>>
    BY <1>0, <2>7, RespelledBetween
  <2> QED BY <2>1, <2>2, <2>8, <2>9 DEF x
<1>3. CASE /\ k < Depth /\ ~Is(n, "string") /\ ~Is(n, "array") /\ Is(n, "map")
           /\ n.map \in [DOMAIN n.map -> level[k + 1]]
  <2> DEFINE D == DOMAIN n.map
             a == Within(n.map, text)
             b == Within(n.map, other)
  <2>1. NodeText(n, text, first, order) = (<<Curly>> \o JoinedFields(a, order)) \o <<Brace>>
    BY <1>3, OfMap
  <2>2. NodeText(n, other, both, order) = (<<Curly>> \o JoinedFields(b, order)) \o <<Brace>>
    BY <1>3, OfMap
  <2>3. \A name \in D : /\ text[n.map[name]] \in Seq(Char) /\ other[n.map[name]] \in Seq(Char)
                        /\ Respelled(text[n.map[name]], second) = other[n.map[name]]
    BY <1>3
  <2>4. /\ a \in [D -> Seq(Char)] /\ b \in [D -> Seq(Char)]
        /\ RespelledOn(D, a, b, second)
    BY <2>3 DEF Within, RespelledOn
  <2> HIDE DEF D, a, b
  <2> DEFINE x == JoinedFields(a, order)
  <2>5. x \in Seq(Char)
    <3>1. << >> \in Seq(Char) /\ order \in Seq(Seq(Char))
      <4>1. Letter \subseteq Char
        BY DEF Char
      <4> QED BY <4>1
    <3> QED BY <2>4, <3>1, FieldsGrow
  <2>6. Respelled(x, second) = JoinedFields(b, order)
    BY <2>4, RespelledFields
  <2> HIDE DEF x
  <2>7. Respelled((<<Curly>> \o x) \o <<Brace>>, second)
          = (<<Curly>> \o Respelled(x, second)) \o <<Brace>>
    BY <1>0, <2>5, RespelledBetween
  <2> QED BY <2>1, <2>2, <2>6, <2>7 DEF x
<1> QED BY <1>1, <1>2, <1>3, PlainKinds

\* Two texts, one of which is the other respelled.
RespelledTo(a, b, spelling) ==
  a \in Seq(Char) /\ b \in Seq(Char) /\ Respelled(a, spelling) = b

\* A node's text respelled is the node written in another spelling.
LEMMA WriteRespelled ==
  ASSUME NEW first, NEW second, NEW both, Composed(first, second, both), Bare(second),
         NEW node, IsNode(node), NEW order \in Seq(Seq(Letter))
  PROVE  Respelled(Write(node, first, order), second) = Write(node, both, order)
<1> DEFINE t == Write(node, first, order)
           v == Write(node, both, order)
           level == Level(node)
<1>0. Depth \in Nat /\ first \in Spelt /\ both \in Spelt /\ order \in Seq(Seq(Char))
  <2>1. Letter \subseteq Char
    BY DEF Char
  <2>2. order \in Seq(Seq(Char))
    BY <2>1
  <2> QED BY <2>2, JsonAssumption DEF Composed
<1>1. PICK g : WriteTable(level, first, order, g, Depth) /\ t = g[Depth][node]
  BY WriteIs
<1>2. PICK w : WriteTable(level, both, order, w, Depth) /\ v = w[Depth][node]
  BY WriteIs
<1>3. level[0] = {node} /\ Plainly(level)
  BY LevelIs DEF IsNode
<1> HIDE DEF t, v, level
<1> DEFINE Done(d) == d <= Depth => \A n \in level[Depth - d] :
                                      RespelledTo(g[d][n], w[d][n], second)
           G == {d \in Nat : Done(d)}
<1>4. ASSUME NEW d \in 0..Depth,
             d > 0 => \A m \in level[Depth - (d - 1)] :
                        RespelledTo(g[d - 1][m], w[d - 1][m], second),
             NEW n \in level[Depth - d]
      PROVE  RespelledTo(g[d][n], w[d][n], second)
  <2>1. PICK k \in 0..Depth : k = Depth - d
    BY <1>0
  <2>2. k < Depth => d > 0 /\ Depth - (d - 1) = k + 1
    BY <1>0, <2>1
  <2>3. g[d][n] = NodeText(n, g[d - 1], first, order)
    <3>1. g[d] = [m \in level[Depth - d] |-> NodeText(m, g[d - 1], first, order)]
      BY <1>1 DEF WriteTable
    <3> QED BY <3>1
  <2>4. w[d][n] = NodeText(n, w[d - 1], both, order)
    <3>1. w[d] = [m \in level[Depth - d] |-> NodeText(m, w[d - 1], both, order)]
      BY <1>2 DEF WriteTable
    <3> QED BY <3>1
  <2> DEFINE text == g[d - 1]
             other == w[d - 1]
  <2>5. k < Depth => \A m \in level[k + 1] : RespelledTo(text[m], other[m], second)
    BY <1>4, <2>2
  <2>6. n \in level[k]
    BY <2>1
  <2> HIDE DEF text, other
  <2>7. k < Depth => \A m \in level[k + 1] :
          text[m] \in Seq(Char) /\ other[m] \in Seq(Char) /\ Respelled(text[m], second) = other[m]
    BY <2>5 DEF RespelledTo
  <2>8. Respelled(NodeText(n, text, first, order), second) = NodeText(n, other, both, order)
    BY <1>3, <2>6, <2>7, TextRespelled, SMTT(60)
  <2>9. NodeText(n, text, first, order) \in Seq(Char)
    BY <1>0, <1>3, <2>6, <2>7, TextRises
  <2>10. NodeText(n, other, both, order) \in Seq(Char)
    BY <1>0, <1>3, <2>6, <2>7, TextRises
  <2> QED BY <2>3, <2>4, <2>8, <2>9, <2>10 DEF text, other, RespelledTo
<1>5. 0 \in G
  BY <1>0, <1>4
<1>6. ASSUME NEW d \in G PROVE d + 1 \in G
  <2>1. d + 1 <= Depth => d + 1 \in 0..Depth /\ d <= Depth /\ (d + 1) - 1 = d
    BY <1>0
  <2>2. Done(d)
    BY <1>6
  <2>3. d + 1 <= Depth =>
          \A m \in level[Depth - ((d + 1) - 1)] :
            RespelledTo(g[(d + 1) - 1][m], w[(d + 1) - 1][m], second)
    BY <2>1, <2>2
  <2>4. Done(d + 1)
    BY <1>4, <2>1, <2>3
  <2> QED BY <2>4
<1>7. G \in SUBSET Nat
  OBVIOUS
<1> HIDE DEF G
<1>8. G = Nat
  BY <1>5, <1>6, <1>7, UpwardInduction
<1> USE DEF G
<1>9. \A n \in level[Depth - Depth] : RespelledTo(g[Depth][n], w[Depth][n], second)
  BY <1>0, <1>8
<1>10. Depth - Depth = 0 /\ node \in level[0]
  BY <1>0, <1>3
<1> QED BY <1>1, <1>2, <1>9, <1>10 DEF t, v, RespelledTo

-----------------------------------------------------------------------------
(* A node's text, made of the texts of the nodes that it holds *)

\* Only the texts of these count.
LEMMA TextOfHeld ==
  ASSUME NEW level, Plainly(level), NEW k \in 0..Depth, NEW n \in level[k],
         NEW f, NEW g, \A m \in Held(n) : f[m] = g[m], NEW spelling, NEW order
  PROVE  NodeText(n, f, spelling, order) = NodeText(n, g, spelling, order)
<1>1. CASE Is(n, "string")
  BY <1>1, OfString
<1>2. CASE ~Is(n, "string") /\ Is(n, "array") /\ n.array \in Seq(level[k + 1])
  <2> DEFINE s == n.array
             S == level[k + 1]
  <2>1. Held(n) = Range(s) /\ s \in Seq(S)
    BY <1>2 DEF Held
  <2>2. NodeText(n, f, spelling, order) = (<<Open>> \o Joined(Of(s, f))) \o <<Square>>
    BY <1>2, OfArray
  <2>3. NodeText(n, g, spelling, order) = (<<Open>> \o Joined(Of(s, g))) \o <<Square>>
    BY <1>2, OfArray
  <2> HIDE DEF s, S
  <2>4. \A i \in DOMAIN s : f[s[i]] = g[s[i]]
    <3>1. \A i \in DOMAIN s : s[i] \in Held(n)
      BY <2>1 DEF Range
    <3> QED BY <3>1
  <2>5. Of(s, f) = Of(s, g)
    BY <2>4 DEF Of
  <2> QED BY <2>2, <2>3, <2>5
<1>3. CASE ~Is(n, "string") /\ ~Is(n, "array") /\ Is(n, "map")
  <2> DEFINE h == n.map
  <2>1. Held(n) = Range(h)
    BY <1>3 DEF Held
  <2>2. NodeText(n, f, spelling, order)
          = (<<Curly>> \o JoinedFields(Within(h, f), order)) \o <<Brace>>
    BY <1>3, OfMap
  <2>3. NodeText(n, g, spelling, order)
          = (<<Curly>> \o JoinedFields(Within(h, g), order)) \o <<Brace>>
    BY <1>3, OfMap
  <2> HIDE DEF h
  <2>4. \A name \in DOMAIN h : f[h[name]] = g[h[name]]
    <3>1. \A name \in DOMAIN h : h[name] \in Held(n)
      BY <2>1 DEF Range
    <3> QED BY <3>1
  <2>5. Within(h, f) = Within(h, g)
    BY <2>4 DEF Within
  <2> QED BY <2>2, <2>3, <2>5
<1> QED BY <1>1, <1>2, <1>3, PlainKinds

\* A node in a node that can be written can be written; what lies in it lies one deeper in
\* the other.
LEMMA HeldIsNode ==
  ASSUME NEW node, IsNode(node), NEW m \in Held(node)
  PROVE  /\ IsNode(m) /\ Depth > 0
         /\ \A k \in 0..Depth : k < Depth => Level(m)[k] \subseteq Level(node)[k + 1]
<1> DEFINE level == Level(node)
           shape == [k \in 0..Depth |-> IF k < Depth THEN level[k + 1] ELSE {}]
<1>0. Depth \in Nat
  BY JsonAssumption
<1>1. /\ level[0] = {node} /\ Plainly(level)
      /\ \A k \in 1..Depth : level[k] = UNION {Held(n) : n \in level[k - 1]}
  BY LevelIs DEF IsNode
<1> HIDE DEF level
<1>2. Depth > 0
  <2> SUFFICES ASSUME Depth = 0 PROVE FALSE
    BY <1>0
  <2>1. node \in level[0] /\ 0 \in 0..Depth /\ ~(0 < Depth)
    BY <1>0, <1>1
  <2>2. Is(node, "string") /\ node = String(node.string)
    BY <1>1, <2>1, PlainKinds
  <2>3. Held(node) = {}
    BY <2>2 DEF Held, String, Is
  <2> QED BY <2>3
<1>3. m \in level[1]
  <2>1. level[1] = UNION {Held(n) : n \in level[0]}
    <3>1. 1 \in 1..Depth /\ 1 - 1 = 0
      BY <1>0, <1>2
    <3>2. level[1] = UNION {Held(n) : n \in level[1 - 1]}
      BY <1>1, <3>1
    <3> QED BY <3>1, <3>2
  <2> QED BY <1>1, <2>1
<1>4. \A k \in 0..Depth : /\ k < Depth => shape[k] = level[k + 1]
                          /\ ~(k < Depth) => shape[k] = {}
  OBVIOUS
<1>5. m \in shape[0]
  BY <1>0, <1>2, <1>3, <1>4
<1> HIDE DEF shape
<1>6. ASSUME NEW k \in 0..Depth, NEW n \in shape[k]
      PROVE  \/ n \in [string : Seq(Char)]
             \/ k < Depth /\ n \in [array : Seq(shape[k + 1])]
             \/ k < Depth /\ n \in [map : [DOMAIN n.map -> shape[k + 1]]]
                          /\ DOMAIN n.map \subseteq Range(Names)
  <2>1. PICK j \in 0..Depth : j = k + 1
    BY <1>0, <1>4
  <2>2. n \in level[j] /\ k < Depth
    BY <1>4, <2>1
  <2>3. j < Depth => k + 1 \in 0..Depth /\ shape[k + 1] = level[j + 1]
    BY <1>0, <1>4, <2>1
  <2>4. \/ n \in [string : Seq(Char)]
        \/ j < Depth /\ n \in [array : Seq(level[j + 1])]
        \/ j < Depth /\ n \in [map : [DOMAIN n.map -> level[j + 1]]]
                     /\ DOMAIN n.map \subseteq Range(Names)
    BY <1>1, <2>2 DEF Plainly
  <2> DEFINE deeper == level[j + 1]
             below == shape[k + 1]
  <2>5. j < Depth => below = deeper
    BY <2>3
  <2>6. \/ n \in [string : Seq(Char)]
        \/ j < Depth /\ n \in [array : Seq(deeper)]
        \/ j < Depth /\ n \in [map : [DOMAIN n.map -> deeper]]
                     /\ DOMAIN n.map \subseteq Range(Names)
    BY <2>4
  <2> HIDE DEF deeper, below
  <2>7. \/ n \in [string : Seq(Char)]
        \/ k < Depth /\ n \in [array : Seq(below)]
        \/ k < Depth /\ n \in [map : [DOMAIN n.map -> below]]
                     /\ DOMAIN n.map \subseteq Range(Names)
    BY <2>2, <2>5, <2>6
  <2> QED BY <2>7 DEF below
<1>7. Plainly(shape)
  BY <1>6 DEF Plainly
<1>8. IsNode(m)
  BY <1>5, <1>7, ShapedNode
<1>9. \A k \in 0..Depth : Level(m)[k] \subseteq shape[k]
  BY <1>5, <1>7, ShapedLevels
<1>10. \A k \in 0..Depth : k < Depth => Level(m)[k] \subseteq level[k + 1]
  BY <1>4, <1>9
<1> QED BY <1>2, <1>8, <1>10 DEF level

\* The text of a node is the same wherever it is written.
LEMMA HeldWritten ==
  ASSUME NEW node, IsNode(node), NEW m \in Held(node), NEW spelling, NEW order,
         NEW g, WriteTable(Level(node), spelling, order, g, Depth)
  PROVE  g[Depth - 1][m] = Write(m, spelling, order)
<1> DEFINE level == Level(node)
           inner == Level(m)
           t == Write(m, spelling, order)
<1>0. Depth \in Nat /\ Depth > 0 /\ IsNode(m)
  BY HeldIsNode, JsonAssumption
<1>1. PICK w : WriteTable(inner, spelling, order, w, Depth) /\ t = w[Depth][m]
  BY <1>0, WriteIs
<1>2. Plainly(level) /\ inner[0] = {m}
  BY LevelIs DEF IsNode
<1>3. /\ \A k \in 0..Depth : k < Depth => inner[k] \subseteq level[k + 1]
      /\ \A k \in 1..Depth : inner[k] = UNION {Held(n) : n \in inner[k - 1]}
  BY LevelIs, HeldIsNode
<1>4. WriteTable(level, spelling, order, g, Depth)
  OBVIOUS
<1> HIDE DEF level, inner, t
<1> DEFINE Same(d) == d + 1 <= Depth => \A n \in inner[Depth - (d + 1)] : w[d + 1][n] = g[d][n]
           G == {d \in Nat : Same(d)}
<1>5. ASSUME NEW d \in Nat, d + 1 <= Depth,
             d > 0 => \A n \in inner[Depth - d] : w[d][n] = g[d - 1][n],
             NEW n \in inner[Depth - (d + 1)]
      PROVE  w[d + 1][n] = g[d][n]
  <2>1. PICK k \in 0..Depth : k = Depth - d
    BY <1>0, <1>5
  <2>2. PICK j \in 0..Depth : j = Depth - (d + 1)
    BY <1>0, <1>5
  <2>3. /\ k = j + 1 /\ j < Depth /\ d \in 0..Depth /\ d + 1 \in 0..Depth /\ (d + 1) - 1 = d
        /\ k \in 1..Depth /\ k - 1 = j /\ (k < Depth => d > 0)
    BY <1>0, <1>5, <2>1, <2>2
  <2>4. n \in level[k]
    BY <1>3, <2>2, <2>3
  <2>5. w[d + 1][n] = NodeText(n, w[d], spelling, order)
    <3>1. w[d + 1] = [x \in inner[Depth - (d + 1)] |->
                        NodeText(x, w[(d + 1) - 1], spelling, order)]
      BY <1>1, <2>3 DEF WriteTable
    <3> QED BY <2>3, <3>1
  <2>6. g[d][n] = NodeText(n, g[d - 1], spelling, order)
    <3>1. g[d] = [x \in level[Depth - d] |-> NodeText(x, g[d - 1], spelling, order)]
      BY <1>4, <2>3 DEF WriteTable
    <3> QED BY <2>1, <2>4, <3>1
  <2> DEFINE a == w[d]
             b == g[d - 1]
  <2>7. \A x \in Held(n) : a[x] = b[x]
    <3>1. CASE k < Depth
      <4>1. \A x \in inner[k] : a[x] = b[x]
        BY <1>5, <2>1, <2>3, <3>1
      <4>2. Held(n) \subseteq inner[k]
        <5>1. inner[k] = UNION {Held(x) : x \in inner[k - 1]}
          BY <1>3, <2>3
        <5>2. n \in inner[k - 1]
          BY <2>2, <2>3
        <5> QED BY <5>1, <5>2
      <4> QED BY <4>1, <4>2
    <3>2. CASE ~(k < Depth)
      <4>1. Is(n, "string") /\ n = String(n.string)
        BY <1>2, <2>4, <3>2, PlainKinds
      <4>2. Held(n) = {}
        BY <4>1 DEF Held, String, Is
      <4> QED BY <4>2
    <3> QED BY <3>1, <3>2
  <2> HIDE DEF a, b
  <2>8. NodeText(n, a, spelling, order) = NodeText(n, b, spelling, order)
    BY <1>2, <2>4, <2>7, TextOfHeld
  <2> QED BY <2>5, <2>6, <2>8 DEF a, b
<1>6. 0 \in G
  <2>1. 0 + 1 <= Depth => \A n \in inner[Depth - (0 + 1)] : w[0 + 1][n] = g[0][n]
    BY <1>0, <1>5
  <2> QED BY <2>1
<1>7. ASSUME NEW d \in G PROVE d + 1 \in G
  <2>1. d \in Nat /\ Same(d)
    BY <1>7
  <2> HIDE DEF G
  <2> DEFINE e == d + 1
  <2>2. e \in Nat /\ e > 0 /\ e - 1 = d
    BY <2>1
  <2>3. e + 1 <= Depth => e <= Depth
    BY <1>0, <2>2
  <2>4. e + 1 <= Depth => \A n \in inner[Depth - e] : w[e][n] = g[d][n]
    BY <2>1, <2>3
  <2> HIDE DEF e
  <2>5. Same(e)
    BY <1>5, <2>2, <2>4
  <2>6. e \in G
    BY <2>2, <2>5 DEF G
  <2> QED BY <2>6 DEF e
<1>8. G \in SUBSET Nat
  OBVIOUS
<1> HIDE DEF G
<1>9. G = Nat
  BY <1>6, <1>7, <1>8, UpwardInduction
<1> USE DEF G
<1>10. PICK d \in Nat : d + 1 = Depth /\ d = Depth - 1
  BY <1>0
<1>11. Same(d)
  BY <1>9
<1>12. Depth - (d + 1) = 0 /\ m \in inner[0]
  BY <1>0, <1>2, <1>10
<1>13. w[d + 1][m] = g[d][m]
  BY <1>0, <1>10, <1>11, <1>12
<1> QED BY <1>1, <1>10, <1>13 DEF t

\* The text of a node is laid out around the texts of those in it.
LEMMA WriteUnfolds ==
  ASSUME NEW node, IsNode(node), NEW spelling, NEW order
  PROVE  Write(node, spelling, order)
           = NodeText(node, [m \in Held(node) |-> Write(m, spelling, order)], spelling, order)
<1> DEFINE level == Level(node)
           t == Write(node, spelling, order)
           texts == [m \in Held(node) |-> Write(m, spelling, order)]
<1>0. Depth \in Nat /\ Depth - Depth = 0 /\ Depth \in 0..Depth /\ 0 \in 0..Depth
  BY JsonAssumption
<1>1. PICK g : WriteTable(level, spelling, order, g, Depth) /\ t = g[Depth][node]
  BY WriteIs
<1>2. Plainly(level) /\ level[0] = {node}
  BY LevelIs DEF IsNode
<1> DEFINE f == g[Depth - 1]
<1>3. \A m \in Held(node) : f[m] = texts[m]
  BY <1>1, HeldWritten
<1>4. g[Depth][node] = NodeText(node, f, spelling, order)
  <2> HIDE DEF t, level
  <2>1. g[Depth] = [x \in level[Depth - Depth] |-> NodeText(x, g[Depth - 1], spelling, order)]
    BY <1>0, <1>1 DEF WriteTable
  <2> QED BY <1>0, <1>2, <2>1
<1> HIDE DEF t, level, texts, f
<1>5. NodeText(node, f, spelling, order) = NodeText(node, texts, spelling, order)
  BY <1>0, <1>2, <1>3, TextOfHeld
<1> QED BY <1>1, <1>4, <1>5 DEF t, texts

\* A string, a list and a map, written.
LEMMA StringWritten ==
  ASSUME NEW s, IsNode(String(s)), NEW spelling, NEW order
  PROVE  Write(String(s), spelling, order) = Quoted(Respelled(s, spelling))
<1> DEFINE n == String(s)
           texts == [m \in Held(n) |-> Write(m, spelling, order)]
<1>1. Is(n, "string") /\ n.string = s
  BY DEF String, Is
<1>2. Write(n, spelling, order) = NodeText(n, texts, spelling, order)
  BY WriteUnfolds
<1> HIDE DEF n, texts
<1>3. NodeText(n, texts, spelling, order) = Quoted(Respelled(n.string, spelling))
  BY <1>1, OfString
<1> QED BY <1>1, <1>2, <1>3 DEF n

Writes(s, spelling, order) == [i \in DOMAIN s |-> Write(s[i], spelling, order)]

\* What is written of a list: what is written of its items, in brackets.
LEMMA ArrayWritten ==
  ASSUME NEW s, IsNode(Array(s)), NEW spelling, NEW order
  PROVE  /\ Write(Array(s), spelling, order)
              = (<<Open>> \o Joined(Writes(s, spelling, order))) \o <<Square>>
         /\ \A i \in DOMAIN s : IsNode(s[i])
<1> DEFINE n == Array(s)
           texts == [m \in Held(n) |-> Write(m, spelling, order)]
<1>1. Is(n, "array") /\ ~Is(n, "string") /\ n.array = s
  BY DEF Array, Is
<1>2. Write(n, spelling, order) = NodeText(n, texts, spelling, order)
  BY WriteUnfolds
<1>3. IsNode(n)
  OBVIOUS
<1> HIDE DEF n
<1>4. Held(n) = Range(s)
  BY <1>1 DEF Held
<1>5. \A i \in DOMAIN s : s[i] \in Held(n)
  BY <1>4 DEF Range
<1>6. Of(s, texts) = Writes(s, spelling, order)
  BY <1>5 DEF Of, Writes
<1> HIDE DEF texts
<1>7. NodeText(n, texts, spelling, order) = (<<Open>> \o Joined(Of(n.array, texts))) \o <<Square>>
  BY <1>1, OfArray
<1>8. \A i \in DOMAIN s : IsNode(s[i])
  BY <1>3, <1>5, HeldIsNode
<1> QED BY <1>1, <1>2, <1>6, <1>7, <1>8 DEF n

\* What is written of a map: what is written of its fields, in braces.
LEMMA MapWritten ==
  ASSUME NEW f, IsNode(Map(f)), NEW spelling, NEW order
  PROVE  /\ Write(Map(f), spelling, order)
              = (<<Curly>> \o JoinedFields(Writes(f, spelling, order), order)) \o <<Brace>>
         /\ \A name \in DOMAIN f : IsNode(f[name])
<1> DEFINE n == Map(f)
           texts == [m \in Held(n) |-> Write(m, spelling, order)]
<1>1. Is(n, "map") /\ ~Is(n, "array") /\ ~Is(n, "string") /\ n.map = f
  BY DEF Map, Is
<1>2. Write(n, spelling, order) = NodeText(n, texts, spelling, order)
  BY WriteUnfolds
<1>3. IsNode(n)
  OBVIOUS
<1> HIDE DEF n
<1>4. Held(n) = Range(f)
  BY <1>1 DEF Held
<1>5. \A name \in DOMAIN f : f[name] \in Held(n)
  BY <1>4 DEF Range
<1>6. Within(f, texts) = Writes(f, spelling, order)
  BY <1>5 DEF Within, Writes
<1> HIDE DEF texts
<1>7. NodeText(n, texts, spelling, order)
        = (<<Curly>> \o JoinedFields(Within(n.map, texts), order)) \o <<Brace>>
  BY <1>1, OfMap
<1>8. \A name \in DOMAIN f : IsNode(f[name])
  BY <1>3, <1>5, HeldIsNode
<1> QED BY <1>1, <1>2, <1>6, <1>7, <1>8 DEF n

-----------------------------------------------------------------------------
(* Texts that are the same as long as no word has a quote or a backslash *)

Clear(words) == \A word \in words : Range(word) \cap {"\"", "\\"} = {}
Twin(a, b, words) == Grown(a, b) /\ (a = b <=> Clear(words))

\* A text is its own twin whatever the words.
LEMMA TwinSame ==
  ASSUME NEW a \in Seq(Char)
  PROVE  Twin(a, a, {})
<1>1. Clear({})
  BY DEF Clear
<1> QED BY <1>1, GrownSame DEF Twin

\* Texts of two parts are twins when the parts are.
LEMMA TwinTwo ==
  ASSUME NEW a, NEW b, NEW x, NEW y, NEW words, NEW more, Twin(a, b, words), Twin(x, y, more)
  PROVE  Twin(a \o x, b \o y, words \cup more)
<1>1. Clear(words \cup more) <=> Clear(words) /\ Clear(more)
  BY DEF Clear
<1>2. Grown(a \o x, b \o y) /\ (a \o x = b \o y => a = b /\ x = y)
  BY GrownTwo DEF Twin
<1>3. a = b /\ x = y => a \o x = b \o y
  OBVIOUS
<1> QED BY <1>1, <1>2, <1>3 DEF Twin

\* Twins stay twins between the same two texts.
LEMMA TwinInside ==
  ASSUME NEW a, NEW b, NEW words, Twin(a, b, words), NEW x \in Seq(Char), NEW y \in Seq(Char)
  PROVE  Twin((x \o a) \o y, (x \o b) \o y, words)
<1>1. Grown((x \o a) \o y, (x \o b) \o y) /\ ((x \o a) \o y = (x \o b) \o y => a = b)
  BY GrownInside DEF Twin
<1>2. a = b => (x \o a) \o y = (x \o b) \o y
  OBVIOUS
<1> QED BY <1>1, <1>2 DEF Twin

\* Texts that are twins, each for its words.
TwinsOn(S, a, b, W) == \A i \in S : Twin(a[i], b[i], W[i])
Words(S, W) == UNION {W[i] : i \in S}

\* Texts of parts are twins when the parts are.
LEMMA TwinList ==
  ASSUME NEW a \in Seq(Seq(Char)), NEW b \in Seq(Seq(Char)), Len(a) = Len(b),
         NEW W, TwinsOn(1..Len(a), a, b, W)
  PROVE  Twin(FlattenSeq(a), FlattenSeq(b), Words(1..Len(a), W))
<1>1. \A i \in 1..Len(a) : Grown(a[i], b[i]) /\ (a[i] = b[i] <=> Clear(W[i]))
  BY DEF TwinsOn, Twin
<1>2. \A i \in 1..Len(a) : Grown(a[i], b[i])
  BY <1>1
<1>3. Grown(FlattenSeq(a), FlattenSeq(b))
  BY <1>2, GrownList
<1>4. FlattenSeq(a) = FlattenSeq(b) => \A i \in 1..Len(a) : a[i] = b[i]
  BY <1>2, GrownList
<1>5. (\A i \in 1..Len(a) : a[i] = b[i]) => FlattenSeq(a) = FlattenSeq(b)
  <2> SUFFICES ASSUME \A i \in 1..Len(a) : a[i] = b[i] PROVE a = b
    OBVIOUS
  <2>1. a = [i \in 1..Len(a) |-> a[i]] /\ b = [i \in 1..Len(a) |-> b[i]]
    OBVIOUS
  <2> QED BY <2>1
<1>6. Clear(Words(1..Len(a), W)) <=> \A i \in 1..Len(a) : Clear(W[i])
  BY DEF Clear, Words
<1> QED BY <1>1, <1>3, <1>4, <1>5, <1>6 DEF Twin

\* The texts of two lists are twins when their items are.
LEMMA TwinJoined ==
  ASSUME NEW a \in Seq(Seq(Char)), NEW b \in Seq(Seq(Char)), Len(a) = Len(b),
         NEW W, TwinsOn(1..Len(a), a, b, W)
  PROVE  Twin(Joined(a), Joined(b), Words(1..Len(a), W))
<1> DEFINE p == ItemParts(a)
           q == ItemParts(b)
<1>1. /\ Joined(a) = FlattenSeq(p) /\ p \in Seq(Seq(Char)) /\ Len(p) = Len(a)
      /\ \A i \in 1..Len(a) : ItemFront(i) \in Seq(Char) /\ p[i] = ItemFront(i) \o a[i]
  BY ItemPartsAre
<1>2. /\ Joined(b) = FlattenSeq(q) /\ q \in Seq(Seq(Char)) /\ Len(q) = Len(b)
      /\ \A i \in 1..Len(b) : q[i] = ItemFront(i) \o b[i]
  BY ItemPartsAre
<1> HIDE DEF p, q
<1>3. ASSUME NEW i \in 1..Len(p) PROVE Twin(p[i], q[i], W[i])
  <2> DEFINE x == ItemFront(i)
             s == a[i]
             t == b[i]
             w == W[i]
  <2>1. x \in Seq(Char) /\ p[i] = x \o s /\ q[i] = x \o t
    BY <1>1, <1>2
  <2>2. Twin(s, t, w)
    BY <1>1 DEF TwinsOn
  <2> HIDE DEF x, s, t, w
  <2>3. Twin(x, x, {})
    BY <2>1, TwinSame
  <2>4. Twin(x \o s, x \o t, {} \cup w)
    BY <2>2, <2>3, TwinTwo
  <2>5. {} \cup w = w
    OBVIOUS
  <2> QED BY <2>1, <2>4, <2>5 DEF w
<1>4. Twin(FlattenSeq(p), FlattenSeq(q), Words(1..Len(p), W))
  <2>1. TwinsOn(1..Len(p), p, q, W)
    BY <1>3 DEF TwinsOn
  <2>2. p \in Seq(Seq(Char)) /\ q \in Seq(Seq(Char)) /\ Len(p) = Len(q)
    BY <1>1, <1>2
  <2> QED BY <2>1, <2>2, TwinList
<1> QED BY <1>1, <1>2, <1>4

\* The texts of two maps are twins when their fields are.
LEMMA TwinFields ==
  ASSUME NEW D, NEW a \in [D -> Seq(Char)], NEW b \in [D -> Seq(Char)],
         NEW W, TwinsOn(D, a, b, W), NEW order \in Seq(Seq(Char)), D \subseteq Range(order)
  PROVE  Twin(JoinedFields(a, order), JoinedFields(b, order), Words(D, W))
<1> DEFINE p == FieldParts(a, order)
           q == FieldParts(b, order)
           V == [i \in 1..Len(order) |-> IF order[i] \in D THEN W[order[i]] ELSE {}]
<1>0. Parted(D, a, order) /\ Parted(D, b, order)
  BY FieldPartsAre
<1>1. /\ JoinedFields(a, order) = FlattenSeq(p) /\ p \in Seq(Seq(Char)) /\ Len(p) = Len(order)
      /\ \A i \in 1..Len(order) :
           /\ FieldFront(D, order, i) \in Seq(Char)
           /\ order[i] \notin D => p[i] = << >>
           /\ order[i] \in D => p[i] = FieldFront(D, order, i) \o a[order[i]]
  BY <1>0 DEF Parted
<1>2. /\ JoinedFields(b, order) = FlattenSeq(q) /\ q \in Seq(Seq(Char)) /\ Len(q) = Len(order)
      /\ \A i \in 1..Len(order) :
           /\ order[i] \notin D => q[i] = << >>
           /\ order[i] \in D => q[i] = FieldFront(D, order, i) \o b[order[i]]
  BY <1>0 DEF Parted
<1> HIDE DEF p, q
<1>3. ASSUME NEW i \in 1..Len(p) PROVE Twin(p[i], q[i], V[i])
  <2>1. CASE order[i] \in D
    <3> DEFINE x == FieldFront(D, order, i)
               s == a[order[i]]
               t == b[order[i]]
               w == W[order[i]]
    <3>1. x \in Seq(Char) /\ p[i] = x \o s /\ q[i] = x \o t /\ V[i] = w
      BY <1>1, <1>2, <2>1
    <3>2. Twin(s, t, w)
      BY <2>1 DEF TwinsOn
    <3> HIDE DEF x, s, t, w, V
    <3>3. Twin(x, x, {})
      BY <3>1, TwinSame
    <3>4. Twin(x \o s, x \o t, {} \cup w)
      BY <3>2, <3>3, TwinTwo
    <3>5. {} \cup w = w
      OBVIOUS
    <3> QED BY <3>1, <3>4, <3>5
  <2>2. CASE order[i] \notin D
    <3>1. p[i] = << >> /\ q[i] = << >> /\ V[i] = {}
      BY <1>1, <1>2, <2>2
    <3>2. << >> \in Seq(Char)
      OBVIOUS
    <3>3. Twin(<< >>, << >>, {})
      BY <3>2, TwinSame
    <3> QED BY <3>1, <3>3
  <2> QED BY <2>1, <2>2
<1>4. Words(1..Len(p), V) = Words(D, W)
  <2>1. Range(order) = {order[i] : i \in 1..Len(order)}
    <3> DEFINE T == Seq(Char)
    <3>1. order \in Seq(T)
      OBVIOUS
    <3> HIDE DEF T
    <3> QED BY <3>1, RangeEquality
  <2>2. \A name \in D : \E i \in 1..Len(order) : order[i] = name
    BY <2>1
  <2>3. \A i \in 1..Len(order) : V[i] = IF order[i] \in D THEN W[order[i]] ELSE {}
    OBVIOUS
  <2> HIDE DEF V
  <2>4. ASSUME NEW x \in Words(D, W) PROVE x \in Words(1..Len(order), V)
    <3>1. PICK name \in D : x \in W[name]
      BY DEF Words
    <3>2. PICK i \in 1..Len(order) : order[i] = name
      BY <2>2
    <3>3. x \in V[i]
      BY <2>3, <3>1, <3>2
    <3> QED BY <3>3 DEF Words
  <2>5. ASSUME NEW x \in Words(1..Len(order), V) PROVE x \in Words(D, W)
    <3>1. PICK i \in 1..Len(order) : x \in V[i]
      BY DEF Words
    <3>2. order[i] \in D /\ x \in W[order[i]]
      BY <2>3, <3>1
    <3> QED BY <3>2 DEF Words
  <2> QED BY <1>1, <2>4, <2>5
<1> HIDE DEF V
<1>5. Twin(FlattenSeq(p), FlattenSeq(q), Words(1..Len(p), V))
  <2>1. TwinsOn(1..Len(p), p, q, V)
    BY <1>3 DEF TwinsOn
  <2>2. p \in Seq(Seq(Char)) /\ q \in Seq(Seq(Char)) /\ Len(p) = Len(q)
    BY <1>1, <1>2
  <2> QED BY <2>1, <2>2, TwinList
<1> QED BY <1>1, <1>2, <1>4, <1>5

\* Kept leaves a text that operator<< has written as it is, and has of a text with its
\* newlines in it what it has of each character.
LEMMA KeptTwice ==
  /\ Bare(Kept) /\ Composed(Spelling, Kept, Spelling) /\ Composed(Raw, Kept, Kept)
  /\ Escaped \in Spelt
<1>1. /\ Kept \in Spelt /\ Spelling \in Spelt /\ Escaped \in Spelt
      /\ Raw \in Spelt /\ \A c \in Char : Raw[c] = <<c>>
  <2>1. \A c \in Char : <<c>> \in Seq(Char)
    OBVIOUS
  <2> QED BY <2>1, SpellingTypes, KeptEscaped DEF Composed, Raw, Spelt
<1>2. \A c \in Char : c # "\n" => Kept[c] = <<c>>
  BY SpellingTables
<1>3. Bare(Kept)
  <2>1. "\n" \in Blank /\ "\n" \notin Layout
    BY DEF Blank, Layout
  <2>2. "\n" \notin Letter
    BY <2>1, JsonStringAssumption
  <2>3. Layout \subseteq Char /\ Letter \subseteq Char
    BY LayoutChars DEF Char
  <2>4. \A c \in Layout \cup Letter : c \in Char /\ c # "\n"
    BY <2>1, <2>2, <2>3
  <2> QED BY <1>1, <1>2, <2>4 DEF Bare
<1>4. ASSUME NEW c \in Char PROVE Respelled(Raw[c], Kept) = Kept[c]
  BY <1>1, RespelledOne
<1>5. ASSUME NEW c \in Char PROVE Respelled(Spelling[c], Kept) = Spelling[c]
  <2> DEFINE slash == "\\"
             quote == "\""
             n == "n"
             line == "\n"
  <2>1. slash \in Char /\ quote \in Char /\ n \in Char
    BY SpellingChars
  <2>2. /\ c = line => Spelling[c] = <<slash, slash, n>>
        /\ c \in {quote, slash} => Spelling[c] = <<slash, c>>
        /\ c \notin {quote, slash, line} => Spelling[c] = <<c>>
    BY SpellingTables
  <2>3. Kept[slash] = <<slash>> /\ Kept[quote] = <<quote>> /\ Kept[n] = <<n>>
    BY <1>2, SpellingChars
  <2>4. c # line => Kept[c] = <<c>>
    BY <1>2
  <2> HIDE DEF slash, quote, n, line
  <2>5. CASE c = line
    <3> DEFINE x == <<slash>>
               y == <<slash, n>>
    <3>1. x \in Seq(Char) /\ y \in Seq(Char) /\ x \o y = <<slash, slash, n>>
      <4>1. x \in Seq(Char) /\ y \in Seq(Char)
        BY <2>1
      <4>2. x \o y = <<slash, slash, n>>
        <5> DEFINE z == <<slash, slash, n>>
        <5>1. Len(x) = 1 /\ Len(y) = 2 /\ Len(z) = 3 /\ z \in Seq(Char)
          BY <2>1
        <5>2. x[1] = slash /\ y[1] = slash /\ y[2] = n /\ z[1] = slash /\ z[2] = slash /\ z[3] = n
          OBVIOUS
        <5> HIDE DEF x, y, z
        <5> DEFINE w == x \o y
        <5>3. /\ w \in Seq(Char) /\ Len(w) = Len(x) + Len(y)
              /\ \A i \in 1..(Len(x) + Len(y)) :
                   w[i] = IF i <= Len(x) THEN x[i] ELSE y[i - Len(x)]
          BY <4>1, ConcatProperties
        <5> HIDE DEF w
        <5>4. Len(w) = 3 /\ w[1] = x[1] /\ w[2] = y[1] /\ w[3] = y[2]
          BY <5>1, <5>3
        <5>5. ASSUME NEW i \in 1..3 PROVE w[i] = z[i]
          <6>1. i = 1 \/ i = 2 \/ i = 3
            OBVIOUS
          <6> QED BY <5>2, <5>4, <6>1
        <5>6. w = z
          BY <5>1, <5>3, <5>4, <5>5
        <5> QED BY <5>6 DEF w, z
      <4> QED BY <4>1, <4>2
    <3>2. Respelled(x, Kept) = x
      BY <1>1, <2>1, <2>3, RespelledOne
    <3>3. Respelled(y, Kept) = y
      <4>1. Respelled(y, Kept) = Kept[slash] \o Kept[n]
        BY <1>1, <2>1, RespelledTwo
      <4> QED BY <2>3, <4>1
    <3> HIDE DEF x, y
    <3>4. Respelled(x \o y, Kept) = Respelled(x, Kept) \o Respelled(y, Kept)
      BY <1>1, <3>1, RespelledParts
    <3> QED BY <2>2, <2>5, <3>1, <3>2, <3>3, <3>4
  <2>6. CASE c \in {quote, slash}
    <3>1. Respelled(<<slash, c>>, Kept) = Kept[slash] \o Kept[c]
      BY <1>1, <2>1, RespelledTwo
    <3>2. Kept[c] = <<c>>
      BY <2>3, <2>6
    <3> QED BY <2>2, <2>3, <2>6, <3>1, <3>2
  <2>7. CASE c \notin {quote, slash, line}
    <3>1. Respelled(<<c>>, Kept) = Kept[c]
      BY <1>1, RespelledOne
    <3> QED BY <2>2, <2>4, <2>7, <3>1
  <2> QED BY <2>5, <2>6, <2>7
<1> QED BY <1>1, <1>3, <1>4, <1>5 DEF Composed

\* What Python reads of the first text, where the second has to be in JSON.
Rewritten(s, t, words) ==
  /\ s \in Seq(Char) /\ t \in Seq(Char)
  /\ Twin(Respelled(s, Kept), Respelled(t, Escaped), words)

\* A text of two parts is rewritten part by part.
LEMMA RewrittenTwo ==
  ASSUME NEW s, NEW t, NEW x, NEW y, NEW words, NEW more,
         Rewritten(s, t, words), Rewritten(x, y, more)
  PROVE  Rewritten(s \o x, t \o y, words \cup more)
<1>1. s \in Seq(Char) /\ t \in Seq(Char) /\ x \in Seq(Char) /\ y \in Seq(Char)
  BY DEF Rewritten
<1>2. s \o x \in Seq(Char) /\ t \o y \in Seq(Char)
  BY <1>1
<1>3. Respelled(s \o x, Kept) = Respelled(s, Kept) \o Respelled(x, Kept)
  BY <1>1, KeptTwice, RespelledParts DEF Bare
<1>4. Respelled(t \o y, Escaped) = Respelled(t, Escaped) \o Respelled(y, Escaped)
  BY <1>1, KeptTwice, RespelledParts
<1> DEFINE a == Respelled(s, Kept)
           b == Respelled(t, Escaped)
           c == Respelled(x, Kept)
           d == Respelled(y, Escaped)
<1>5. Twin(a, b, words) /\ Twin(c, d, more)
  BY DEF Rewritten
<1> HIDE DEF a, b, c, d
<1>6. Twin(a \o c, b \o d, words \cup more)
  BY <1>5, TwinTwo
<1> QED BY <1>2, <1>3, <1>4, <1>6 DEF Rewritten, a, b, c, d

RewrittenOn(S, a, b, W) == \A i \in S : Rewritten(a[i], b[i], W[i])

\* A text of parts is rewritten part by part.
LEMMA RewrittenList ==
  ASSUME NEW a \in Seq(Seq(Char)), NEW b \in Seq(Seq(Char)), Len(a) = Len(b),
         NEW W, RewrittenOn(1..Len(a), a, b, W)
  PROVE  Rewritten(FlattenSeq(a), FlattenSeq(b), Words(1..Len(a), W))
<1> DEFINE f == [t \in Seq(Char) |-> Respelled(t, Kept)]
           g == [t \in Seq(Char) |-> Respelled(t, Escaped)]
           p == Of(a, f)
           q == Of(b, g)
           T == Seq(Char)
<1>0. Kept \in Spelt /\ Escaped \in Spelt
  BY KeptTwice DEF Bare
<1>1. \A t \in T : /\ f[t] = Respelled(t, Kept) /\ f[t] \in T
                   /\ g[t] = Respelled(t, Escaped) /\ g[t] \in T
  BY <1>0, RespelledText
<1>2. Respelled(FlattenSeq(a), Kept) = FlattenSeq(p)
  <2>1. f = [t \in Seq(Char) |-> Respelled(t, Kept)]
    OBVIOUS
  <2> HIDE DEF f
  <2> QED BY <1>0, <2>1, RespelledFlat
<1>3. Respelled(FlattenSeq(b), Escaped) = FlattenSeq(q)
  <2>1. g = [t \in Seq(Char) |-> Respelled(t, Escaped)]
    OBVIOUS
  <2> HIDE DEF g
  <2> QED BY <1>0, <2>1, RespelledFlat
<1> HIDE DEF f, g
<1>4. a \in Seq(T) /\ b \in Seq(T)
  OBVIOUS
<1>5. ASSUME NEW i \in 1..Len(a) PROVE Twin(f[a[i]], g[b[i]], W[i])
  <2>1. Rewritten(a[i], b[i], W[i])
    BY DEF RewrittenOn
  <2> QED BY <1>1, <2>1 DEF Rewritten
<1>6. p \in Seq(T) /\ q \in Seq(T)
  <2>1. (\A t \in T : f[t] \in T) /\ (\A t \in T : g[t] \in T)
    BY <1>1
  <2> HIDE DEF T
  <2>2. p \in Seq(T)
    BY <1>4, <2>1, OfType
  <2>3. q \in Seq(T)
    BY <1>4, <2>1, OfType
  <2> QED BY <2>2, <2>3
<1>7. /\ Len(p) = Len(a) /\ Len(q) = Len(b)
      /\ \A i \in 1..Len(a) : p[i] = f[a[i]] /\ q[i] = g[b[i]]
  <2> HIDE DEF T
  <2>1. Len(p) = Len(a) /\ \A i \in 1..Len(a) : p[i] = f[a[i]]
    BY <1>4, OfIs
  <2>2. Len(q) = Len(b) /\ \A i \in 1..Len(b) : q[i] = g[b[i]]
    BY <1>4, OfIs
  <2> QED BY <2>1, <2>2
<1> HIDE DEF p, q
<1>8. TwinsOn(1..Len(p), p, q, W)
  BY <1>5, <1>7 DEF TwinsOn
<1>9. Twin(FlattenSeq(p), FlattenSeq(q), Words(1..Len(p), W))
  BY <1>6, <1>7, <1>8, TwinList
<1>10. FlattenSeq(a) \in Seq(Char) /\ FlattenSeq(b) \in Seq(Char)
  BY FlattenIs
<1> QED BY <1>2, <1>3, <1>7, <1>9, <1>10 DEF Rewritten

\* A word, with the quotes and backslashes in it.
LEMMA RewrittenWord ==
  ASSUME NEW word \in Seq(Char)
  PROVE  Rewritten(word, word, {word})
<1>0. Kept \in Spelt /\ Escaped \in Spelt
  BY KeptTwice DEF Bare
<1>1. ASSUME NEW c \in Char
      PROVE  Grown(Kept[c], Escaped[c]) /\ (Kept[c] = Escaped[c] <=> c \notin {"\"", "\\"})
  <2> DEFINE slash == "\\"
             special == {"\"", "\\"}
             line == "\n"
  <2>1. slash \in Char
    BY SpellingChars
  <2>2. c \in special => Kept[c] = <<c>> /\ Escaped[c] = <<slash, c>>
    BY SpellingTables, SpellingChars DEF Escaped, Raw
  <2>3. c \notin special => Kept[c] = Escaped[c]
    BY SpellingTables, SpellingChars DEF Escaped, Raw
  <2>4. Kept[c] \in Seq(Char) /\ Escaped[c] \in Seq(Char)
    BY <1>0 DEF Spelt
  <2> HIDE DEF slash, special
  <2>5. CASE c \in special
    <3>1. Len(<<c>>) = 1 /\ Len(<<slash, c>>) = 2
      OBVIOUS
    <3>2. Len(Kept[c]) = 1 /\ Len(Escaped[c]) = 2
      BY <2>2, <2>5, <3>1
    <3>3. Kept[c] # Escaped[c] /\ Len(Kept[c]) < Len(Escaped[c])
      BY <3>2
    <3> QED BY <2>4, <2>5, <3>3 DEF Grown, special
  <2>6. CASE c \notin special
    BY <2>3, <2>4, <2>6 DEF Grown, special
  <2> QED BY <2>5, <2>6
<1>2. AllGrown(Char, Kept, Escaped)
  <2>1. GrownOn(Char, Kept, Escaped)
    BY <1>1 DEF GrownOn
  <2> QED BY <2>1, GrownOf
<1>3. Respelled(word, Kept) = FlattenSeq(Of(word, Kept))
  BY DEF Respelled, Of
<1>4. Respelled(word, Escaped) = FlattenSeq(Of(word, Escaped))
  BY DEF Respelled, Of
<1> DEFINE a == Respelled(word, Kept)
           b == Respelled(word, Escaped)
<1>5. Grown(a, b) /\ (a = b <=> \A i \in 1..Len(word) : Kept[word[i]] = Escaped[word[i]])
  BY <1>2, <1>3, <1>4 DEF AllGrown
<1> HIDE DEF a, b
<1>6. Clear({word}) <=> \A i \in 1..Len(word) : Kept[word[i]] = Escaped[word[i]]
  <2>1. Range(word) = {word[i] : i \in 1..Len(word)}
    BY RangeEquality
  <2>2. \A i \in 1..Len(word) : word[i] \in Char
    OBVIOUS
  <2> DEFINE special == {"\"", "\\"}
  <2>3. \A i \in 1..Len(word) : Kept[word[i]] = Escaped[word[i]] <=> word[i] \notin special
    BY <1>1, <2>2
  <2>4. Clear({word}) <=> Range(word) \cap special = {}
    BY DEF Clear
  <2> HIDE DEF special
  <2> QED BY <2>1, <2>3, <2>4
<1>7. Twin(a, b, {word})
  BY <1>5, <1>6 DEF Twin
<1> QED BY <1>7 DEF Rewritten, a, b

\* Texts without words.
LEMMA RewrittenSame ==
  ASSUME NEW s \in Seq(Char), NEW t \in Seq(Char), Respelled(s, Kept) = Respelled(t, Escaped)
  PROVE  Rewritten(s, t, {})
<1> DEFINE a == Respelled(s, Kept)
<1>1. a \in Seq(Char)
  BY KeptTwice, RespelledText DEF Bare
<1> HIDE DEF a
<1>2. Twin(a, a, {})
  BY <1>1, TwinSame
<1> QED BY <1>2 DEF Rewritten, a

\* Strings, written.
LEMMA RewrittenString ==
  ASSUME NEW s, NEW t, NEW words, Rewritten(s, t, words),
         IsNode(String(s)), IsNode(String(t)), NEW order
  PROVE  Twin(Write(String(s), Kept, order), Write(String(t), Escaped, order), words)
<1> DEFINE a == Respelled(s, Kept)
           b == Respelled(t, Escaped)
           x == <<Quote>>
<1>1. Write(String(s), Kept, order) = (x \o a) \o x
  BY StringWritten DEF Quoted, Quote
<1>2. Write(String(t), Escaped, order) = (x \o b) \o x
  BY StringWritten DEF Quoted, Quote
<1>3. Twin(a, b, words)
  BY DEF Rewritten
<1>4. x \in Seq(Char)
  <2>1. Quote \in Char
    BY Brackets, LayoutChars
  <2> QED BY <2>1
<1> HIDE DEF a, b, x
<1>5. Twin((x \o a) \o x, (x \o b) \o x, words)
  BY <1>3, <1>4, TwinInside
<1> QED BY <1>1, <1>2, <1>5

\* A function on the first numbers is a sequence.
LEMMA ListOf ==
  ASSUME NEW n \in Nat, NEW S, NEW f, f = [i \in 1..n |-> f[i]], \A i \in 1..n : f[i] \in S
  PROVE  f \in Seq(S) /\ Len(f) = n /\ DOMAIN f = 1..n
<1>1. f \in [1..n -> S] /\ DOMAIN f = 1..n
  <2>1. [i \in 1..n |-> f[i]] \in [1..n -> S]
    OBVIOUS
  <2> QED BY <2>1
<1>2. f \in Seq(S)
  <2>1. \A m \in Nat : \A g \in [1..m -> S] : g \in Seq(S)
    OBVIOUS
  <2> QED BY <1>1, <2>1
<1>3. Len(f) \in Nat /\ DOMAIN f = 1..Len(f)
  BY <1>2
<1> QED BY <1>1, <1>2, <1>3

\* Two nodes, of which Python finds one where it reads the other's text once more.
Alike(n, m, order, words) ==
  Twin(Write(n, Kept, order), Write(m, Escaped, order), words)
AlikeOn(S, f, g, order, W) == \A x \in S : Alike(f[x], g[x], order, W[x])

\* Two lists are written alike when their items are.
LEMMA AlikeArrays ==
  ASSUME NEW S, NEW s \in Seq(S), NEW R, NEW t \in Seq(R), Len(s) = Len(t),
         IsNode(Array(s)), IsNode(Array(t)), NEW order, NEW W,
         AlikeOn(1..Len(s), s, t, order, W)
  PROVE  Alike(Array(s), Array(t), order, Words(1..Len(s), W))
<1> DEFINE a == Writes(s, Kept, order)
           b == Writes(t, Escaped, order)
           x == <<Open>>
           y == <<Square>>
<1>1. Write(Array(s), Kept, order) = (x \o Joined(a)) \o y
  BY ArrayWritten
<1>2. Write(Array(t), Escaped, order) = (x \o Joined(b)) \o y
  BY ArrayWritten
<1>3. x \in Seq(Char) /\ y \in Seq(Char)
  <2>1. Open \in Char /\ Square \in Char
    BY Brackets, LayoutChars
  <2> QED BY <2>1
<1>4. /\ Len(s) \in Nat /\ a = [i \in 1..Len(s) |-> Write(s[i], Kept, order)]
      /\ b = [i \in 1..Len(s) |-> Write(t[i], Escaped, order)]
  BY DEF Writes
<1>5. \A i \in 1..Len(s) : Twin(a[i], b[i], W[i])
  BY <1>4 DEF AlikeOn, Alike
<1>6. \A i \in 1..Len(s) : a[i] \in Seq(Char) /\ b[i] \in Seq(Char)
  BY <1>5 DEF Twin, Grown
<1>7. a \in Seq(Seq(Char)) /\ b \in Seq(Seq(Char)) /\ Len(a) = Len(s) /\ Len(b) = Len(s)
  <2> DEFINE T == Seq(Char)
             n == Len(s)
  <2>1. \A i \in 1..n : a[i] \in T /\ b[i] \in T
    BY <1>6
  <2>2. n \in Nat /\ a = [i \in 1..n |-> a[i]] /\ b = [i \in 1..n |-> b[i]]
    BY <1>4
  <2> HIDE DEF T, n, a, b
  <2>3. a \in Seq(T) /\ Len(a) = n
    BY <2>1, <2>2, ListOf
  <2>4. b \in Seq(T) /\ Len(b) = n
    BY <2>1, <2>2, ListOf
  <2> QED BY <2>3, <2>4 DEF T, n
<1> HIDE DEF a, b, x, y
<1>8. Twin(Joined(a), Joined(b), Words(1..Len(a), W))
  <2>1. TwinsOn(1..Len(a), a, b, W)
    BY <1>5, <1>7 DEF TwinsOn
  <2> QED BY <1>7, <2>1, TwinJoined
<1> DEFINE u == Joined(a)
           v == Joined(b)
           words == Words(1..Len(s), W)
<1>9. Twin(u, v, words)
  BY <1>7, <1>8
<1> HIDE DEF u, v, words
<1>10. Twin((x \o u) \o y, (x \o v) \o y, words)
  BY <1>3, <1>9, TwinInside
<1> QED BY <1>1, <1>2, <1>10 DEF Alike, u, v, words

\* Two maps are written alike when their fields are.
LEMMA AlikeMaps ==
  ASSUME NEW f, NEW g, DOMAIN f = DOMAIN g, IsNode(Map(f)), IsNode(Map(g)),
         NEW order \in Seq(Seq(Char)), DOMAIN f \subseteq Range(order), NEW W,
         AlikeOn(DOMAIN f, f, g, order, W)
  PROVE  Alike(Map(f), Map(g), order, Words(DOMAIN f, W))
<1> DEFINE D == DOMAIN f
           a == Writes(f, Kept, order)
           b == Writes(g, Escaped, order)
           x == <<Curly>>
           y == <<Brace>>
<1>1. Write(Map(f), Kept, order) = (x \o JoinedFields(a, order)) \o y
  BY MapWritten
<1>2. Write(Map(g), Escaped, order) = (x \o JoinedFields(b, order)) \o y
  BY MapWritten
<1>3. x \in Seq(Char) /\ y \in Seq(Char)
  <2>1. Curly \in Char /\ Brace \in Char
    BY Brackets, LayoutChars
  <2> QED BY <2>1
<1>4. /\ a = [name \in D |-> Write(f[name], Kept, order)]
      /\ b = [name \in D |-> Write(g[name], Escaped, order)]
  BY DEF Writes
<1>5. \A name \in D : Twin(a[name], b[name], W[name])
  BY <1>4 DEF AlikeOn, Alike
<1>6. \A name \in D : a[name] \in Seq(Char) /\ b[name] \in Seq(Char)
  BY <1>5 DEF Twin, Grown
<1>7. a \in [D -> Seq(Char)] /\ b \in [D -> Seq(Char)] /\ D \subseteq Range(order)
  <2> DEFINE T == Seq(Char)
  <2>1. \A name \in D : a[name] \in T /\ b[name] \in T
    BY <1>6
  <2>2. a = [name \in D |-> a[name]] /\ b = [name \in D |-> b[name]]
    BY <1>4
  <2> HIDE DEF T, a, b
  <2>3. a \in [D -> T] /\ b \in [D -> T]
    BY <2>1, <2>2
  <2> QED BY <2>3 DEF T
<1>8. TwinsOn(D, a, b, W)
  BY <1>5 DEF TwinsOn
<1> HIDE DEF a, b, x, y, D
<1> DEFINE u == JoinedFields(a, order)
           v == JoinedFields(b, order)
           words == Words(D, W)
<1>9. Twin(u, v, words)
  BY <1>7, <1>8, TwinFields
<1> HIDE DEF u, v, words
<1>10. Twin((x \o u) \o y, (x \o v) \o y, words)
  BY <1>3, <1>9, TwinInside
<1> QED BY <1>1, <1>2, <1>10 DEF Alike, u, v, words, D

\* A list of words in one text and in the other.
LEMMA AlikeWords ==
  ASSUME NEW lines \in Seq(Seq(Char)), NEW s, s = [i \in 1..Len(lines) |-> String(lines[i])],
         IsNode(Array(s)), NEW order
  PROVE  Alike(Array(s), Array(s), order, Range(lines))
<1> DEFINE W == [i \in 1..Len(lines) |-> {lines[i]}]
           T == Seq(Char)
<1>1. Len(lines) \in Nat /\ s \in Seq([string : T]) /\ Len(s) = Len(lines)
      /\ DOMAIN s = 1..Len(lines)
  <2> DEFINE n == Len(lines)
             S == [string : T]
  <2>1. n \in Nat
    OBVIOUS
  <2>2. \A i \in 1..n : s[i] \in S
    BY DEF String
  <2>3. s = [i \in 1..n |-> s[i]]
    OBVIOUS
  <2> HIDE DEF S, n
  <2> DEFINE r == s
  <2>6. r = [i \in 1..n |-> r[i]] /\ \A i \in 1..n : r[i] \in S
    BY <2>2, <2>3
  <2> HIDE DEF r
  <2>7. r \in Seq(S) /\ Len(r) = n
    BY <2>1, <2>6, ListOf
  <2>4. s \in Seq(S) /\ Len(s) = n
    BY <2>7 DEF r
  <2>5. DOMAIN s = 1..n
    BY <2>3
  <2> QED BY <2>1, <2>4, <2>5 DEF n, S
<1>2. \A i \in DOMAIN s : IsNode(s[i])
  BY ArrayWritten
<1>3. ASSUME NEW i \in 1..Len(s) PROVE Alike(s[i], s[i], order, W[i])
  <2> DEFINE word == lines[i]
  <2>1. word \in T
    <3>1. lines \in Seq(T) /\ i \in 1..Len(lines)
      BY <1>1
    <3> HIDE DEF T
    <3> QED BY <3>1, ElementOfSeq
  <2>2. s[i] = String(word) /\ W[i] = {word} /\ IsNode(s[i])
    BY <1>1, <1>2
  <2> HIDE DEF word
  <2>3. Rewritten(word, word, {word})
    BY <2>1, RewrittenWord
  <2>4. Twin(Write(String(word), Kept, order), Write(String(word), Escaped, order), {word})
    BY <2>2, <2>3, RewrittenString
  <2> QED BY <2>2, <2>4 DEF Alike
<1>4. Words(1..Len(s), W) = Range(lines)
  <2>1. Range(lines) = {lines[i] : i \in 1..Len(lines)}
    <3>1. lines \in Seq(T)
      OBVIOUS
    <3> HIDE DEF T
    <3> QED BY <3>1, RangeEquality
  <2> QED BY <1>1, <2>1 DEF Words
<1> HIDE DEF W
<1>5. AlikeOn(1..Len(s), s, s, order, W)
  BY <1>3 DEF AlikeOn
<1>6. Alike(Array(s), Array(s), order, Words(1..Len(s), W))
  <2> DEFINE S == [string : T]
  <2>1. s \in Seq(S)
    BY <1>1
  <2> HIDE DEF S
  <2> QED BY <1>5, <2>1, AlikeArrays
<1> QED BY <1>4, <1>6

=============================================================================
