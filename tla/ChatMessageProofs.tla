-------------------------- MODULE ChatMessageProofs --------------------------
(***************************************************************************)
(* Where a message ends: a reader finds every header and takes the whole   *)
(* of every body, whatever is in it.                                       *)
(***************************************************************************)
EXTENDS ChatMessage, JsonProofs

-----------------------------------------------------------------------------
(* The digits of a number *)

\* The recursion of std::to_string, on the numbers of D.
DecimalTable(g, D) ==
  g = [n \in D |-> IF n < 10 THEN <<Digit[n + 1]>>
                             ELSE Append(g[n \div 10], Digit[(n % 10) + 1])]

\* A number without its last digit is a lesser number.
LEMMA LastDigit ==
  ASSUME NEW n \in Nat
  PROVE  /\ n \div 10 \in Nat /\ n % 10 \in 0..9
         /\ n = 10 * (n \div 10) + (n % 10)
         /\ n >= 10 => n \div 10 < n /\ n \div 10 >= 1
<1>1. PICK q \in Int, r \in 0..9 : q = n \div 10 /\ r = n % 10
  OBVIOUS
<1>2. n = 10 * q + r
  BY <1>1
<1>3. q \in Nat /\ (n >= 10 => q < n /\ q >= 1)
  BY <1>2
<1>4. n \div 10 \in Nat /\ (n >= 10 => n \div 10 < n /\ n \div 10 >= 1)
  BY <1>1, <1>3, Zenon
<1>5. n % 10 \in 0..9
  BY <1>1, Zenon
<1>6. n = 10 * (n \div 10) + (n % 10)
  BY <1>1, <1>2, Zenon
<1> QED BY <1>4, <1>5, <1>6, Zenon

\* The recursion has a solution up to every number.
LEMMA DecimalTables == \A N \in Nat : \E g : DecimalTable(g, 0..N)
<1> DEFINE G == {N \in Nat : \E g : DecimalTable(g, 0..N)}
<1>1. 0 \in G
  <2>1. DecimalTable([n \in 0..0 |-> <<Digit[n + 1]>>], 0..0)
    BY DEF DecimalTable
  <2> QED BY <2>1
<1>2. ASSUME NEW N \in G PROVE N + 1 \in G
  <2>1. PICK g : DecimalTable(g, 0..N)
    OBVIOUS
  <2> DEFINE h == [n \in 0..(N + 1) |->
                     IF n < 10 THEN <<Digit[n + 1]>>
                               ELSE Append(g[n \div 10], Digit[(n % 10) + 1])]
  <2>2. ASSUME NEW n \in 0..N PROVE h[n] = g[n]
    <3>1. g[n] = IF n < 10 THEN <<Digit[n + 1]>>
                           ELSE Append(g[n \div 10], Digit[(n % 10) + 1])
      BY <2>1 DEF DecimalTable
    <3>2. n \in 0..(N + 1)
      OBVIOUS
    <3> QED BY <3>1, <3>2
  <2>3. \A n \in 0..(N + 1) : n >= 10 => h[n \div 10] = g[n \div 10]
    <3> SUFFICES ASSUME NEW n \in 0..(N + 1), n >= 10 PROVE h[n \div 10] = g[n \div 10]
      OBVIOUS
    <3>1. n \div 10 \in 0..N
      BY LastDigit
    <3> QED BY <2>2, <3>1
  <2>4. DecimalTable(h, 0..(N + 1))
    <3> DEFINE of(n) == IF n < 10 THEN <<Digit[n + 1]>>
                                  ELSE Append(h[n \div 10], Digit[(n % 10) + 1])
    <3>1. ASSUME NEW n \in 0..(N + 1) PROVE h[n] = of(n)
      <4>1. CASE n < 10
        BY <4>1
      <4>2. CASE ~(n < 10)
        <5>1. h[n] = Append(g[n \div 10], Digit[(n % 10) + 1])
          BY <4>2
        <5>2. h[n \div 10] = g[n \div 10]
          <6>1. n >= 10
            BY <4>2
          <6> HIDE DEF h
          <6> QED BY <2>3, <6>1, Zenon
        <5> HIDE DEF h
        <5> QED BY <4>2, <5>1, <5>2
      <4> QED BY <4>1, <4>2
    <3>2. h = [n \in 0..(N + 1) |-> h[n]]
      OBVIOUS
    <3> HIDE DEF h
    <3>3. h = [n \in 0..(N + 1) |-> of(n)]
      BY <3>1, <3>2
    <3> QED BY <3>3 DEF DecimalTable
  <2> QED BY <2>4
<1>3. G = Nat
  <2>1. G \in SUBSET Nat
    OBVIOUS
  <2> HIDE DEF G
  <2> QED BY <1>1, <1>2, <2>1, UpwardInduction
<1> QED BY <1>3

\* Solutions agree where both are defined.
LEMMA DecimalTablesAgree ==
  ASSUME NEW N \in Nat, NEW M \in Nat, NEW g, NEW h,
         DecimalTable(g, 0..N), DecimalTable(h, 0..M)
  PROVE  \A n \in (0..N) \cap (0..M) : g[n] = h[n]
<1> DEFINE G == {n \in Nat : n <= N /\ n <= M => g[n] = h[n]}
<1>1. ASSUME NEW n \in Nat, \A m \in 0..(n - 1) : m \in G
      PROVE  n \in G
  <2> SUFFICES ASSUME n <= N, n <= M PROVE g[n] = h[n]
    OBVIOUS
  <2>1. CASE n < 10
    BY <2>1 DEF DecimalTable
  <2>2. CASE n >= 10
    <3>1. n \div 10 \in 0..(n - 1)
      BY <2>2, LastDigit
    <3>2. g[n \div 10] = h[n \div 10]
      BY <1>1, <3>1
    <3>3. n \in 0..N /\ n \in 0..M /\ ~(n < 10)
      BY <2>2
    <3> QED BY <3>2, <3>3 DEF DecimalTable
  <2> QED BY <2>1, <2>2
<1>2. G = Nat
  <2>1. G \in SUBSET Nat
    OBVIOUS
  <2> HIDE DEF G
  <2> QED BY <1>1, <2>1, StrongInduction
<1> QED BY <1>2

\* Decimal is what its recursion makes of it.
LEMMA DecimalSolves ==
  ASSUME NEW n \in Nat
  PROVE  Decimal[n] = IF n < 10 THEN <<Digit[n + 1]>>
                                ELSE Append(Decimal[n \div 10], Digit[(n % 10) + 1])
<1> DEFINE table(N) == CHOOSE g : DecimalTable(g, 0..N)
           whole == [k \in Nat |-> table(k)[k]]
<1>1. \A N \in Nat : DecimalTable(table(N), 0..N)
  BY DecimalTables
<1> HIDE DEF table
<1>2. \A k \in Nat : whole[k] = IF k < 10 THEN <<Digit[k + 1]>>
                                 ELSE Append(whole[k \div 10], Digit[(k % 10) + 1])
  <2> SUFFICES ASSUME NEW k \in Nat
               PROVE  whole[k] = IF k < 10 THEN <<Digit[k + 1]>>
                                 ELSE Append(whole[k \div 10], Digit[(k % 10) + 1])
    OBVIOUS
  <2>1. table(k)[k] = IF k < 10 THEN <<Digit[k + 1]>>
                      ELSE Append(table(k)[k \div 10], Digit[(k % 10) + 1])
    <3> DEFINE g == table(k)
    <3>1. DecimalTable(g, 0..k) /\ k \in 0..k
      BY <1>1
    <3> HIDE DEF g
    <3>2. g[k] = IF k < 10 THEN <<Digit[k + 1]>>
                           ELSE Append(g[k \div 10], Digit[(k % 10) + 1])
      BY <3>1 DEF DecimalTable
    <3> QED BY <3>2 DEF g
  <2>2. CASE k >= 10
    <3> DEFINE j == k \div 10
    <3>1. j \in Nat /\ j <= k
      BY <2>2, LastDigit
    <3>2. j \in (0..k) \cap (0..j)
      BY <3>1
    <3> HIDE DEF j
    <3>3. table(k)[j] = table(j)[j]
      BY <1>1, <3>1, <3>2, DecimalTablesAgree
    <3>4. whole[j] = table(k)[j]
      BY <3>1, <3>3
    <3> QED BY <2>1, <2>2, <3>4 DEF j
  <2>3. CASE k < 10
    BY <2>1, <2>3
  <2> QED BY <2>2, <2>3
<1>3. DecimalTable(whole, Nat)
  BY <1>2 DEF DecimalTable
<1>4. Decimal = CHOOSE g : DecimalTable(g, Nat)
  BY DEF Decimal, DecimalTable
<1>5. DecimalTable(Decimal, Nat)
  BY <1>3, <1>4
<1> QED BY <1>5 DEF DecimalTable


-----------------------------------------------------------------------------
(* The header, written and read *)

DigitChar == Range(Digit)

\* Every digit is the character of one value.
LEMMA DigitValues ==
  /\ \A v \in 0..9 : Digit[v + 1] \in DigitChar /\ DigitValue(Digit[v + 1]) = v
  /\ \A c \in DigitChar : DigitValue(c) \in 0..9
  /\ DigitChar \subseteq Char
<1>1. DOMAIN Digit = 1..10
  BY DEF Digit
<1>2. ASSUME NEW v \in 0..9, NEW w \in 0..9, Digit[v + 1] = Digit[w + 1]
      PROVE  v = w
  BY <1>2 DEF Digit
<1>3. ASSUME NEW v \in 0..9
      PROVE  Digit[v + 1] \in DigitChar /\ DigitValue(Digit[v + 1]) = v
  <2>1. v + 1 \in 1..10
    OBVIOUS
  <2>2. Digit[v + 1] \in DigitChar
    BY <1>1, <2>1 DEF DigitChar, Range
  <2> QED BY <1>2, <2>2 DEF DigitValue
<1>4. ASSUME NEW c \in DigitChar PROVE \E v \in 0..9 : c = Digit[v + 1]
  <2>1. PICK i \in 1..10 : c = Digit[i]
    BY <1>1 DEF DigitChar, Range
  <2>2. i - 1 \in 0..9 /\ i = (i - 1) + 1
    OBVIOUS
  <2> QED BY <2>1, <2>2
<1>5. DigitChar \subseteq Char
  BY DEF DigitChar, Char
<1> QED BY <1>3, <1>4, <1>5

\* The values of the beginnings of a text of digits.
Values(text, p) ==
  /\ p \in [0..Len(text) -> Nat]
  /\ p[0] = 0
  /\ \A k \in 1..Len(text) : p[k] = 10 * p[k - 1] + DigitValue(text[k])

\* All of a text of digits is digits.
LEMMA SpanOfDigits ==
  ASSUME NEW text \in Seq(DigitChar)
  PROVE  Span(text, DigitChar) = Len(text)
<1> DEFINE Fits(n) == /\ \A i \in 1..n : text[i] \in DigitChar
                      /\ n < Len(text) => text[n + 1] \notin DigitChar
<1>1. Len(text) \in 0..Len(text) /\ Fits(Len(text))
  OBVIOUS
<1>2. ASSUME NEW n \in 0..Len(text), Fits(n) PROVE n = Len(text)
  <2>1. ASSUME n < Len(text) PROVE FALSE
    <3>1. n + 1 \in 1..Len(text)
      BY <2>1
    <3> QED BY <1>2, <2>1, <3>1
  <2> QED BY <2>1
<1> HIDE DEF Fits
<1>3. (CHOOSE n \in 0..Len(text) : Fits(n)) = Len(text)
  BY <1>1, <1>2
<1> QED BY <1>3 DEF Span, Fits

\* std::atoi gives the value of the whole text.
LEMMA AtoiIs ==
  ASSUME NEW text \in Seq(DigitChar), NEW p, Values(text, p)
  PROVE  Atoi(text) = p[Len(text)]
<1> DEFINE n == Len(text)
           Table(g) == g = [k \in 0..n |-> IF k = 0 THEN 0
                                ELSE 10 * g[k - 1] + DigitValue(text[k])]
           value == CHOOSE g : Table(g)
<1>0. n \in Nat
  OBVIOUS
<1>1. Atoi(text) = value[n]
  <2>1. Span(text, Range(Digit)) = n
    BY SpanOfDigits DEF DigitChar
  <2> QED BY <2>1 DEF Atoi
<1>2. Table(p)
  BY DEF Values
<1>3. Table(value)
  BY <1>2
<1> HIDE DEF value
<1> DEFINE G == {k \in Nat : k <= n => value[k] = p[k]}
<1>4. 0 \in G
  BY <1>0, <1>2, <1>3
<1>5. ASSUME NEW k \in G PROVE k + 1 \in G
  <2> SUFFICES ASSUME k + 1 <= n PROVE value[k + 1] = p[k + 1]
    OBVIOUS
  <2>1. k + 1 \in 0..n /\ k + 1 # 0 /\ (k + 1) - 1 = k /\ value[k] = p[k]
    BY <1>0
  <2>2. value[k + 1] = 10 * value[k] + DigitValue(text[k + 1])
    BY <1>3, <2>1
  <2>3. p[k + 1] = 10 * p[k] + DigitValue(text[k + 1])
    BY <1>2, <2>1
  <2> QED BY <2>1, <2>2, <2>3
<1>6. G = Nat
  <2>1. G \in SUBSET Nat
    OBVIOUS
  <2> HIDE DEF G
  <2> QED BY <1>4, <1>5, <2>1, UpwardInduction
<1> QED BY <1>0, <1>1, <1>6

\* The beginnings of a number's digits never have a greater value than the number.
Numbered(n) ==
  /\ Decimal[n] \in Seq(DigitChar)
  /\ Len(Decimal[n]) >= 1
  /\ n < 10 => Len(Decimal[n]) = 1
  /\ \E p : /\ Values(Decimal[n], p)
            /\ p[Len(Decimal[n])] = n
            /\ \A k \in 1..Len(Decimal[n]) : p[k] <= n /\ (n >= 1 => p[k] >= 1)

\* std::stoi of std::to_string of a number is the number: by the number of its digits.
LEMMA DecimalReads == \A n \in Nat : Numbered(n)
<1> DEFINE G == {n \in Nat : Numbered(n)}
<1>1. ASSUME NEW n \in Nat, \A m \in 0..(n - 1) : m \in G
      PROVE  n \in G
  <2>1. CASE n < 10
    <3> DEFINE c == Digit[n + 1]
               p == [k \in 0..1 |-> IF k = 0 THEN 0 ELSE n]
    <3>1. c \in DigitChar /\ DigitValue(c) = n
      BY <2>1, DigitValues
    <3>2. Decimal[n] = <<c>>
      BY <2>1, DecimalSolves
    <3> HIDE DEF c
    <3>3. Decimal[n] \in Seq(DigitChar) /\ Len(Decimal[n]) = 1 /\ Decimal[n][1] = c
      BY <3>1, <3>2
    <3>4. Values(Decimal[n], p)
      <4>1. p \in [0..1 -> Nat] /\ p[0] = 0 /\ p[1] = n
        OBVIOUS
      <4> HIDE DEF p
      <4> QED BY <3>1, <3>3, <4>1 DEF Values
    <3>5. /\ p[Len(Decimal[n])] = n
          /\ \A k \in 1..Len(Decimal[n]) : p[k] <= n /\ (n >= 1 => p[k] >= 1)
      BY <3>3
    <3> QED BY <3>3, <3>4, <3>5 DEF Numbered
  <2>2. CASE n >= 10
    <3> DEFINE m == n \div 10
               c == Digit[(n % 10) + 1]
               front == Decimal[m]
    <3>1. m \in Nat /\ m < n /\ m >= 1
      BY <2>2, LastDigit
    <3>2. c \in DigitChar /\ DigitValue(c) \in Nat /\ n = 10 * m + DigitValue(c)
      <4>1. DigitValue(c) = n % 10 /\ c \in DigitChar /\ n % 10 \in 0..9
        BY LastDigit, DigitValues
      <4>2. n = 10 * (n \div 10) + (n % 10)
        BY LastDigit
      <4> QED BY <4>1, <4>2
    <3>3. Decimal[n] = Append(front, c)
      <4>1. ~(n < 10)
        BY <2>2
      <4> QED BY <4>1, DecimalSolves
    <3> HIDE DEF m, c
    <3>4. Numbered(m)
      BY <1>1, <3>1
    <3>5. PICK q : /\ Values(front, q)
                   /\ q[Len(front)] = m
                   /\ \A k \in 1..Len(front) : q[k] <= m /\ (m >= 1 => q[k] >= 1)
      BY <3>4 DEF Numbered
    <3>6. front \in Seq(DigitChar) /\ Len(front) \in Nat /\ Len(front) >= 1
      BY <3>4 DEF Numbered
    <3> DEFINE last == Len(front) + 1
               p == [k \in 0..last |-> IF k = last THEN n ELSE q[k]]
    <3> HIDE DEF front
    <3>7. /\ Decimal[n] \in Seq(DigitChar) /\ Len(Decimal[n]) = last
          /\ \A k \in 1..Len(front) : Decimal[n][k] = front[k]
          /\ Decimal[n][last] = c
      BY <3>2, <3>3, <3>6, AppendProperties
    <3>8. /\ \A k \in 0..Len(front) : p[k] = q[k] /\ p[k] \in Nat
          /\ p[last] = n
          /\ p \in [0..last -> Nat]
      <4>1. \A k \in 0..Len(front) : q[k] \in Nat
        BY <3>5 DEF Values
      <4>2. \A k \in 0..last : k = last \/ k \in 0..Len(front)
        BY <3>6
      <4>3. \A k \in 0..Len(front) : k \in 0..last /\ k # last
        BY <3>6
      <4> QED BY <3>6, <4>1, <4>2, <4>3
    <3> HIDE DEF p
    <3>9. ASSUME NEW k \in 1..last
          PROVE  p[k] = 10 * p[k - 1] + DigitValue(Decimal[n][k])
      <4>1. CASE k = last
        <5>1. last - 1 = Len(front) /\ Len(front) \in 0..Len(front)
          BY <3>6
        <5>2. p[last - 1] = m
          BY <3>5, <3>8, <5>1
        <5> QED BY <3>2, <3>7, <3>8, <4>1, <5>2
      <4>2. CASE k # last
        <5>1. k \in 1..Len(front) /\ k - 1 \in 0..Len(front) /\ k \in 0..Len(front)
          BY <3>6, <4>2
        <5>2. q[k] = 10 * q[k - 1] + DigitValue(front[k])
          BY <3>5, <5>1 DEF Values
        <5> QED BY <3>7, <3>8, <5>1, <5>2
      <4> QED BY <4>1, <4>2
    <3>10. Values(Decimal[n], p)
      <4>1. p[0] = 0
        BY <3>5, <3>6, <3>8 DEF Values
      <4> QED BY <3>7, <3>8, <3>9, <4>1 DEF Values
    <3>11. ASSUME NEW k \in 1..last PROVE p[k] <= n /\ p[k] >= 1
      <4>1. CASE k = last
        BY <2>2, <3>8, <4>1
      <4>2. CASE k # last
        <5>1. k \in 1..Len(front) /\ k \in 0..Len(front)
          BY <3>6, <4>2
        <5>2. p[k] = q[k] /\ p[k] \in Nat /\ q[k] <= m /\ q[k] >= 1
          BY <3>1, <3>5, <3>8, <5>1
        <5> QED BY <3>1, <5>2
      <4> QED BY <4>1, <4>2
    <3>12. last >= 1 /\ ~(n < 10)
      BY <2>2, <3>6
    <3> HIDE DEF last
    <3> QED BY <3>7, <3>8, <3>10, <3>11, <3>12 DEF Numbered
  <2> QED BY <2>1, <2>2
<1>2. G = Nat
  <2>1. G \in SUBSET Nat
    OBVIOUS
  <2> HIDE DEF G
  <2> QED BY <1>1, <2>1, StrongInduction
<1> QED BY <1>2

\* As many zeros as are asked for.
LEMMA Zeroed ==
  ASSUME NEW z \in Int
  PROVE  /\ Zeros(z) \in Seq(DigitChar)
         /\ Len(Zeros(z)) = IF z >= 0 THEN z ELSE 0
         /\ \A k \in 1..z : Zeros(z)[k] = "0"
         /\ DigitValue("0") = 0
<1>1. "0" \in DigitChar /\ DigitValue("0") = 0
  <2>1. "0" = Digit[0 + 1]
    BY DEF Digit
  <2> QED BY <2>1, DigitValues
<1>2. CASE z >= 0
  BY <1>1, <1>2 DEF Zeros
<1>3. CASE z < 0
  <2>1. Zeros(z) = << >>
    BY <1>3 DEF Zeros
  <2>2. 1..z = {}
    BY <1>3
  <2> QED BY <1>1, <1>3, <2>1, <2>2, EmptySeq
<1> QED BY <1>2, <1>3

\* A header is digits, exactly Width of them unless the number is longer.
LEMMA HeaderShape ==
  ASSUME NEW n \in Nat
  PROVE  /\ LengthHeader(n) \in Seq(DigitChar)
         /\ Len(LengthHeader(n)) =
              IF Len(Decimal[n]) <= Width THEN Width ELSE Len(Decimal[n])
         /\ Len(Decimal[n]) > Width => LengthHeader(n) = Decimal[n]
<1> DEFINE zeros == Zeros(Width - Len(Decimal[n]))
<1>1. Decimal[n] \in Seq(DigitChar) /\ Len(Decimal[n]) \in Nat
  BY DecimalReads DEF Numbered
<1>2. /\ zeros \in Seq(DigitChar)
      /\ Len(zeros) = IF Len(Decimal[n]) <= Width THEN Width - Len(Decimal[n]) ELSE 0
  <2>1. Width - Len(Decimal[n]) \in Int
    BY <1>1, ChatMessageAssumption
  <2> QED BY <1>1, <2>1, Zeroed, ChatMessageAssumption
<1> HIDE DEF zeros
<1>3. LengthHeader(n) = zeros \o Decimal[n]
  BY DEF LengthHeader, zeros
<1>4. /\ LengthHeader(n) \in Seq(DigitChar)
      /\ Len(LengthHeader(n)) = Len(zeros) + Len(Decimal[n])
  BY <1>1, <1>2, <1>3, ConcatProperties
<1>5. Len(Decimal[n]) > Width => zeros = << >>
  BY <1>1, <1>2, EmptySeq, ChatMessageAssumption
<1>6. Len(Decimal[n]) > Width => LengthHeader(n) = Decimal[n]
  BY <1>1, <1>3, <1>5, ConcatEmptySeq
<1>7. Len(LengthHeader(n)) = IF Len(Decimal[n]) <= Width THEN Width ELSE Len(Decimal[n])
  <2>1. Width \in Nat
    BY ChatMessageAssumption
  <2>2. CASE Len(Decimal[n]) <= Width
    <3>1. Len(zeros) = Width - Len(Decimal[n])
      BY <1>2, <2>2
    <3> QED BY <1>1, <1>4, <2>1, <2>2, <3>1
  <2>3. CASE ~(Len(Decimal[n]) <= Width)
    <3>1. Len(zeros) = 0
      BY <1>2, <2>3
    <3> QED BY <1>1, <1>4, <2>1, <2>3, <3>1
  <2> QED BY <2>2, <2>3
<1> QED BY <1>4, <1>6, <1>7

\* atoi reads a header that has room for its number as that number.
LEMMA HeaderReads ==
  ASSUME NEW n \in Nat, Len(Decimal[n]) <= Width
  PROVE  Atoi(LengthHeader(n)) = n
<1> DEFINE digits == Decimal[n]
           z == Width - Len(digits)
           text == LengthHeader(n)
<1>1. digits \in Seq(DigitChar) /\ Len(digits) \in Nat /\ Len(digits) >= 1
  BY DecimalReads DEF Numbered
<1>2. PICK q : Values(digits, q) /\ q[Len(digits)] = n
  BY DecimalReads DEF Numbered
<1>3. /\ z \in Nat
      /\ Zeros(z) \in Seq(DigitChar) /\ Len(Zeros(z)) = z
      /\ \A k \in 1..z : Zeros(z)[k] = "0"
  <2>1. z \in Nat
    BY <1>1, ChatMessageAssumption
  <2> HIDE DEF z
  <2> QED BY <2>1, Zeroed
<1>4. text \in Seq(DigitChar) /\ Len(text) = Width
  BY HeaderShape
<1>5. /\ \A k \in 1..z : text[k] = "0"
      /\ \A k \in 1..Len(digits) : text[z + k] = digits[k]
  <2>1. text = Zeros(z) \o digits
    BY DEF LengthHeader
  <2> HIDE DEF digits, text, z
  <2> QED BY <1>1, <1>3, <2>1, ConcatProperties
<1>6. DigitValue("0") = 0
  BY Zeroed
<1>7. /\ q \in [0..Len(digits) -> Nat] /\ q[0] = 0
      /\ \A k \in 1..Len(digits) : q[k] = 10 * q[k - 1] + DigitValue(digits[k])
  BY <1>2 DEF Values
<1>8. Width \in Nat /\ Width = z + Len(digits)
  BY <1>1, ChatMessageAssumption
<1> DEFINE p == [k \in 0..Width |-> IF k <= z THEN 0 ELSE q[k - z]]
<1> HIDE DEF digits, text, z
<1>9. /\ p \in [0..Width -> Nat]
      /\ \A k \in 0..z : p[k] = 0
      /\ \A k \in 0..Len(digits) : p[z + k] = q[k]
  <2>1. ASSUME NEW k \in 0..Width, ~(k <= z) PROVE k - z \in 0..Len(digits)
    BY <1>3, <1>8, <2>1
  <2>2. p \in [0..Width -> Nat]
    BY <1>3, <1>7, <2>1
  <2>3. ASSUME NEW k \in 0..z PROVE p[k] = 0
    BY <1>1, <1>3, <1>8
  <2>4. ASSUME NEW k \in 0..Len(digits) PROVE p[z + k] = q[k]
    <3>1. z + k \in 0..Width /\ (z + k <= z => k = 0) /\ (z + k) - z = k
      BY <1>1, <1>3, <1>8
    <3> QED BY <1>7, <3>1
  <2> QED BY <2>2, <2>3, <2>4
<1> HIDE DEF p
<1>10. ASSUME NEW k \in 1..Width PROVE p[k] = 10 * p[k - 1] + DigitValue(text[k])
  <2>1. CASE k <= z
    <3>1. k \in 1..z /\ k \in 0..z /\ k - 1 \in 0..z
      BY <1>3, <2>1
    <3> QED BY <1>5, <1>6, <1>9, <3>1
  <2>2. CASE k > z
    <3>1. PICK j \in 1..Len(digits) : k = z + j
      <4>1. k - z \in 1..Len(digits) /\ k = z + (k - z)
        BY <1>1, <1>3, <1>8, <2>2
      <4> QED BY <4>1
    <3>2. j \in 0..Len(digits) /\ j - 1 \in 0..Len(digits) /\ k - 1 = z + (j - 1)
      BY <1>1, <1>3, <3>1
    <3>3. p[k] = q[j] /\ p[k - 1] = q[j - 1]
      BY <1>9, <3>1, <3>2
    <3> QED BY <1>5, <1>7, <3>1, <3>3
  <2> QED BY <1>3, <2>1, <2>2
<1>11. Values(text, p)
  <2>1. p[0] = 0
    BY <1>3, <1>9
  <2> QED BY <1>4, <1>9, <1>10, <2>1 DEF Values
<1>12. Atoi(text) = p[Width]
  BY <1>4, <1>11, AtoiIs
<1>13. p[Width] = n
  <2>1. Len(digits) \in 0..Len(digits)
    BY <1>1
  <2> QED BY <1>2, <1>8, <1>9, <2>1 DEF digits
<1> QED BY <1>12, <1>13 DEF text

\* Of a longer number it reads the first digits, which make no greater number.
LEMMA LongHeaderReads ==
  ASSUME NEW n \in Nat, Len(Decimal[n]) > Width
  PROVE  Atoi(SubSeq(LengthHeader(n), 1, Width)) \in 1..n
<1> DEFINE digits == Decimal[n]
           text == SubSeq(digits, 1, Width)
<1>1. digits \in Seq(DigitChar) /\ Len(digits) \in Nat /\ n >= 1
  <2>0. Numbered(n)
    BY DecimalReads
  <2>1. Width \in Nat /\ Width >= 1
    BY ChatMessageAssumption
  <2>2. /\ digits \in Seq(DigitChar) /\ (n < 10 => Len(digits) = 1)
        /\ Len(digits) > Width
    BY <2>0 DEF Numbered
  <2> HIDE DEF digits
  <2>3. Len(digits) \in Nat
    BY <2>2
  <2>4. ASSUME n < 10 PROVE FALSE
    <3>1. Len(digits) = 1
      BY <2>2, <2>4
    <3>2. 1 > Width
      BY <2>2, <3>1
    <3> QED BY <2>1, <3>2
  <2> QED BY <2>2, <2>3, <2>4
<1>2. PICK p : /\ Values(digits, p)
               /\ \A k \in 1..Len(digits) : p[k] <= n /\ (n >= 1 => p[k] >= 1)
  BY DecimalReads DEF Numbered
<1>3. LengthHeader(n) = digits
  BY HeaderShape
<1>4. Width \in Nat /\ Width >= 1 /\ Width <= Len(digits)
  BY <1>1, ChatMessageAssumption
<1> HIDE DEF digits
<1>5. /\ text \in Seq(DigitChar) /\ Len(text) = Width
      /\ \A k \in 1..Width : text[k] = digits[k]
  BY <1>1, <1>4, SubSeqProperties
<1> DEFINE q == [k \in 0..Width |-> p[k]]
<1>6. Values(text, q)
  <2>1. q \in [0..Width -> Nat] /\ q[0] = 0
    <3>1. p \in [0..Len(digits) -> Nat] /\ p[0] = 0
      BY <1>2 DEF Values
    <3>2. 0 \in 0..Width /\ \A k \in 0..Width : k \in 0..Len(digits)
      BY <1>1, <1>4
    <3> QED BY <3>1, <3>2
  <2>2. ASSUME NEW k \in 1..Width PROVE q[k] = 10 * q[k - 1] + DigitValue(text[k])
    <3>1. k \in 0..Width /\ k - 1 \in 0..Width /\ k \in 1..Len(digits)
      BY <1>1, <1>4
    <3>2. p[k] = 10 * p[k - 1] + DigitValue(digits[k])
      BY <1>2, <3>1 DEF Values
    <3> QED BY <1>5, <3>1, <3>2
  <2> HIDE DEF q, text
  <2> QED BY <1>5, <2>1, <2>2 DEF Values
<1>7. Atoi(text) = p[Width]
  <2>1. Width \in 0..Width
    BY <1>4
  <2> HIDE DEF text
  <2> QED BY <1>5, <1>6, <2>1, AtoiIs
<1>8. p[Width] \in Nat /\ p[Width] <= n /\ p[Width] >= 1
  <2>1. Width \in 1..Len(digits) /\ Width \in 0..Len(digits)
    BY <1>1, <1>4
  <2> QED BY <1>1, <1>2, <2>1 DEF Values
<1> HIDE DEF text
<1>9. Atoi(text) \in 1..n
  BY <1>7, <1>8
<1> QED BY <1>3, <1>9 DEF text

-----------------------------------------------------------------------------
(* The texts of the messages *)

\* A text that begins with a digit is read as a number, which is no map.
LEMMA NumberRead ==
  ASSUME NEW text \in Seq(Char), text # << >>, text[1] \in Range(Digit)
  PROVE  ~Is(Load(text), "map")
<1> DEFINE calls == Len(text)
           next == Loads(calls)[calls - 1]
<1>1. calls \in Nat /\ calls \in 1..calls
  <2>1. Len(text) \in Nat /\ Len(text) # 0
    BY EmptySeq
  <2> QED BY <2>1
<1>2. Loads(calls)[calls][text] = LoadNode(next, text)
  BY <1>1, LoadsRun
<1>3. text[1] \notin Blank /\ text[1] \notin {"[", "{", "\""}
  <2>1. DOMAIN Digit = 1..10
    BY DEF Digit
  <2>2. PICK i \in 1..10 : text[1] = Digit[i]
    BY <2>1 DEF Range
  <2>3. text[1] \in {"0", "1", "2", "3", "4", "5", "6", "7", "8", "9"}
    BY <2>2 DEF Digit
  <2> QED BY <2>3 DEF Blank
<1>4. NonBlank(text) = text /\ Head(text) = text[1]
  <2>1. text[1] \notin Blank
    BY <1>3
  <2>2. NonBlank(text) = text
    BY <2>1, NonBlankIs
  <2>3. Head(text) = text[1]
    OBVIOUS
  <2> QED BY <2>2, <2>3
<1> HIDE DEF next
<1>5. LoadNode(next, text) = LoadDouble(text, << >>)
  BY <1>3, <1>4 DEF LoadNode
<1>6. \E s : LoadDouble(text, << >>).node = Number(s)
  BY DEF LoadDouble, Read
<1>7. Load(text) = LoadDouble(text, << >>).node
  BY <1>2, <1>5 DEF Load
<1> QED BY <1>6, <1>7 DEF Is, Number

\* A map of strings is a node.
LEMMA ResponseNode ==
  ASSUME NEW t \in Seq(Char)
  PROVE  IsNode(Message("response", String(t)))
<1> DEFINE msg == Message("response", String(t))
           shape == [k \in 0..Depth |-> IF k = 0 THEN {msg}
                                        ELSE IF k = 1 THEN {String(t)} ELSE {}]
<1>0. Depth \in Nat /\ Depth >= 4 /\ <<"response">> \in Range(Names)
  BY JsonAssumption, MessagesAssumption
<1>1. shape[0] = {msg} /\ shape[1] = {String(t)}
  BY <1>0
<1>2. ASSUME NEW k \in 0..Depth, NEW n \in shape[k]
      PROVE  \/ n \in [string : Seq(Char)]
             \/ k < Depth /\ n \in [map : [DOMAIN n.map -> shape[k + 1]]]
                          /\ DOMAIN n.map \subseteq Range(Names)
  <2>1. CASE k = 0
    <3> DEFINE f == [name \in {<<"response">>} |-> String(t)]
    <3>1. n = msg /\ msg = [map |-> f]
      BY <2>1 DEF Message, Map
    <3>2. n.map = f /\ DOMAIN n.map = {<<"response">>}
      BY <3>1
    <3>3. f \in [{<<"response">>} -> shape[1]]
      BY <1>1
    <3>4. k < Depth /\ k + 1 = 1
      BY <1>0, <2>1
    <3> HIDE DEF shape, f, msg
    <3>5. n.map \in [DOMAIN n.map -> shape[k + 1]]
      BY <3>2, <3>3, <3>4
    <3>6. n \in [map : [DOMAIN n.map -> shape[k + 1]]]
      BY <3>1, <3>2, <3>5
    <3> QED BY <1>0, <3>2, <3>4, <3>6
  <2>2. CASE k # 0
    <3>1. n = String(t)
      BY <2>2
    <3> QED BY <3>1 DEF String
  <2> QED BY <2>1, <2>2
<1> HIDE DEF shape
<1>3. Plainly(shape)
  BY <1>2 DEF Plainly
<1>4. msg \in shape[0]
  BY <1>1
<1> HIDE DEF msg
<1>5. IsNode(msg)
  BY <1>3, <1>4, ShapedNode
<1> QED BY <1>5 DEF msg

\* A list of texts is a node of its own.
LEMMA RecordsIsNode ==
  ASSUME NEW lines \in Seq(Seq(Char))
  PROVE  IsNode(RecordsNode(lines))
<1> DEFINE node == RecordsNode(lines)
           Strings == [string : Seq(Char)]
           shape == [k \in 0..Depth |-> IF k = 0 THEN {node}
                                        ELSE IF k = 1 THEN Strings ELSE {}]
<1>0. Depth \in Nat /\ Depth >= 4
  BY JsonAssumption, MessagesAssumption
<1>1. shape[0] = {node} /\ shape[1] = Strings
  <2> HIDE DEF node, Strings
  <2> QED BY <1>0
<1>2. node = [array |-> [i \in 1..Len(lines) |-> String(lines[i])]]
  <2>1. DOMAIN lines = 1..Len(lines)
    OBVIOUS
  <2>2. node = Array([i \in DOMAIN lines |-> String(lines[i])])
    BY DEF RecordsNode
  <2> QED BY <2>1, <2>2 DEF Array
<1>3. [i \in 1..Len(lines) |-> String(lines[i])] \in Seq(Strings)
  <2>1. \A i \in 1..Len(lines) : String(lines[i]) \in Strings
    BY DEF String
  <2> HIDE DEF Strings
  <2> QED BY <2>1
<1> HIDE DEF node
<1>4. ASSUME NEW k \in 0..Depth, NEW n \in shape[k]
      PROVE  \/ n \in [string : Seq(Char)]
             \/ k < Depth /\ n \in [array : Seq(shape[k + 1])]
  <2>1. CASE k = 0
    <3>1. n = node /\ k < Depth /\ k + 1 = 1
      BY <1>0, <2>1
    <3> DEFINE s == [i \in 1..Len(lines) |-> String(lines[i])]
    <3>2. s \in Seq(shape[k + 1]) /\ n = [array |-> s]
      <4> HIDE DEF shape, Strings
      <4> QED BY <1>1, <1>2, <1>3, <3>1
    <3> HIDE DEF s, shape
    <3> QED BY <3>1, <3>2
  <2>2. CASE k # 0
    BY <2>2
  <2> QED BY <2>1, <2>2
<1> HIDE DEF shape
<1>5. Plainly(shape)
  BY <1>4 DEF Plainly
<1>6. IsNode(node)
  BY <1>1, <1>5, ShapedNode
<1> QED BY <1>6 DEF node

\* A list in quotes is a text.
LEMMA ListIsText ==
  ASSUME NEW lines \in Seq(Seq(Char)), NEW quote \in Seq(Char)
  PROVE  ListText(lines, quote) \in Seq(Char)
<1> DEFINE T == Seq(Char)
           front == <<"[", "\n">>
           tab == <<"\t">>
           comma == <<",">>
           newline == <<"\n">>
           end == <<"]">>
           part(i) == tab \o quote \o lines[i] \o quote
                        \o (IF i # Len(lines) THEN comma ELSE << >>) \o newline
           parts == [i \in DOMAIN lines |-> part(i)]
<1>1. front \in T /\ tab \in T /\ comma \in T /\ newline \in T /\ end \in T
  <2>1. "[" \in Char /\ "\n" \in Char /\ "\t" \in Char /\ "," \in Char /\ "]" \in Char
    BY DEF Char, Blank, Other
  <2>2. \A a \in Char, b \in Char : <<a>> \in Seq(Char) /\ <<a, b>> \in Seq(Char)
    OBVIOUS
  <2>3. front \in T /\ tab \in T
    BY <2>1, <2>2
  <2>4. comma \in T /\ newline \in T /\ end \in T
    BY <2>1, <2>2
  <2> QED BY <2>3, <2>4
<1>2. << >> \in T
  OBVIOUS
<1>3. ListText(lines, quote) = front \o FlattenSeq(parts) \o end
  BY DEF ListText
<1> HIDE DEF front, tab, comma, newline, end
<1>4. ASSUME NEW i \in 1..Len(lines) PROVE part(i) \in T
  <2> DEFINE c == IF i # Len(lines) THEN comma ELSE << >>
             l == lines[i]
  <2>1. c \in T /\ l \in T /\ quote \in T
    BY <1>1, <1>2
  <2>2. part(i) = tab \o quote \o l \o quote \o c \o newline
    OBVIOUS
  <2> HIDE DEF part, c, l
  <2> QED BY <1>1, <2>1, <2>2
<1> HIDE DEF part
<1>5. parts \in Seq(T)
  <2>1. DOMAIN lines = 1..Len(lines)
    OBVIOUS
  <2> HIDE DEF T
  <2> QED BY <1>4, <2>1
<1> HIDE DEF parts
<1> DEFINE text == FlattenSeq(parts)
<1>6. text \in T
  BY <1>5, FlattenIs
<1> HIDE DEF text
<1>7. front \o text \o end \in T
  BY <1>1, <1>6
<1> QED BY <1>3, <1>7 DEF text

\* Nodes of lists of texts are lists of nodes.
LEMMA RecordsInLevel ==
  ASSUME NEW lines \in Seq(Seq(Char)), NEW S, [string : Seq(Char)] \subseteq S
  PROVE  RecordsNode(lines) \in [array : Seq(S)]
<1> DEFINE s == [i \in 1..Len(lines) |-> String(lines[i])]
<1>1. \A i \in 1..Len(lines) : String(lines[i]) \in S
  BY DEF String
<1>2. s \in Seq(S)
  BY <1>1
<1>3. DOMAIN lines = 1..Len(lines)
  OBVIOUS
<1>4. RecordsNode(lines) = Array([i \in DOMAIN lines |-> String(lines[i])])
  BY DEF RecordsNode
<1>5. RecordsNode(lines) = [array |-> s]
  BY <1>3, <1>4 DEF Array
<1> HIDE DEF s
<1> QED BY <1>2, <1>5

\* A cube is a node, whatever stands for its measures.
LEMMA CubeIsNode ==
  ASSUME NEW cells \in Seq([keys : Seq(Seq(Char)), records : Seq(Seq(Char))]),
         NEW value, \A i \in 1..Len(cells) : value[i] \in Seq(Char)
  PROVE  IsNode(CubeNode(cells, value))
<1> DEFINE cube == CubeNode(cells, value)
           keys == <<"keys">>
           val == <<"value">>
           dims == <<"dimensions">>
           name == <<"cube">>
           X4 == [string : Seq(Char)]
           X3 == X4 \cup [array : Seq(X4)]
           X2 == X4 \cup [map : [{keys, val} -> X3]]
           X1 == [array : Seq(X2)]
           shape == [k \in 0..Depth |->
                       IF k = 0 THEN {cube} ELSE IF k = 1 THEN X1 ELSE IF k = 2 THEN X2
                       ELSE IF k = 3 THEN X3 ELSE IF k = 4 THEN X4 ELSE {}]
<1>0. /\ Depth \in Nat /\ Depth >= 4
      /\ {keys, val} \subseteq Range(Names) /\ {dims, name} \subseteq Range(Names)
  BY JsonAssumption, MessagesAssumption
<1>1. keys # val /\ dims # name
  BY DEF keys, val
<1>2. \E f : cube = [map |-> f] /\ f \in [{name, dims} -> X1]
  <2> DEFINE all == Array([i \in DOMAIN cells |-> CellNode(cells[i], value[i])])
             data == RecordsNode(<< <<"data">> >>)
             f == [n \in {name, dims} |-> IF n = name THEN all ELSE data]
  <2>1. cube = [map |-> f]
    BY DEF CubeNode, Map
  <2>2. data \in X1
    <3> DEFINE word == <<"data">>
    <3>1. word \in Seq(Char)
      <4>1. word \in Range(Names)
        BY MessagesAssumption
      <4>2. Range(Names) = {Names[i] : i \in 1..Len(Names)}
        BY JsonAssumption, RangeEquality
      <4> HIDE DEF word
      <4>3. word \in Seq(Letter)
        BY <4>1, <4>2, JsonAssumption
      <4>4. Letter \subseteq Char
        BY DEF Char
      <4> QED BY <4>3, <4>4
    <3>2. data = RecordsNode(<<word>>)
      OBVIOUS
    <3> HIDE DEF word, data
    <3>3. <<word>> \in Seq(Seq(Char))
      BY <3>1
    <3>4. X4 \subseteq X2
      OBVIOUS
    <3> HIDE DEF X2
    <3> QED BY <3>2, <3>3, <3>4, RecordsInLevel
  <2>3. all \in X1
    <3> DEFINE s == [i \in 1..Len(cells) |-> CellNode(cells[i], value[i])]
    <3>1. ASSUME NEW i \in 1..Len(cells) PROVE CellNode(cells[i], value[i]) \in X2
      <4> DEFINE c == cells[i]
                 v == value[i]
                 list == RecordsNode(c.keys)
                 g == [n \in {keys, val} |-> IF n = keys THEN list ELSE String(v)]
      <4>1. c.keys \in Seq(Seq(Char)) /\ v \in Seq(Char)
        <5> DEFINE C == [keys : Seq(Seq(Char)), records : Seq(Seq(Char))]
        <5>1. c \in C
          <6>1. cells \in Seq(C)
            OBVIOUS
          <6> HIDE DEF C
          <6> QED BY <6>1, ElementOfSeq
        <5>2. v \in Seq(Char)
          OBVIOUS
        <5> HIDE DEF c
        <5>3. c.keys \in Seq(Seq(Char))
          BY <5>1
        <5> QED BY <5>2, <5>3
      <4>2. list \in X3
        <5> DEFINE lines == c.keys
        <5>1. lines \in Seq(Seq(Char)) /\ [string : Seq(Char)] \subseteq X4
          BY <4>1
        <5> HIDE DEF lines, X4
        <5>2. RecordsNode(lines) \in [array : Seq(X4)]
          BY <5>1, RecordsInLevel
        <5> QED BY <5>2 DEF lines
      <4>3. String(v) \in X3
        BY <4>1 DEF String
      <4>4. CellNode(c, v) = [map |-> g]
        BY DEF CellNode, Map
      <4> HIDE DEF X3, list, v, c, keys, val
      <4>5. g \in [{keys, val} -> X3]
        BY <4>2, <4>3
      <4> HIDE DEF g
      <4>6. CellNode(c, v) \in X2
        BY <4>4, <4>5
      <4> QED BY <4>6 DEF c, v
    <3>2. DOMAIN cells = 1..Len(cells)
      OBVIOUS
    <3>3. all = [array |-> s]
      BY <3>2 DEF Array
    <3> HIDE DEF X2, all
    <3>4. s \in Seq(X2)
      BY <3>1
    <3> HIDE DEF s
    <3> QED BY <3>3, <3>4
  <2> HIDE DEF all, data, X1, name, dims
  <2>4. f \in [{name, dims} -> X1]
    BY <2>2, <2>3
  <2> HIDE DEF f
  <2> QED BY <2>1, <2>4
<1> HIDE DEF cube, keys, val, name, dims
<1>3. /\ shape[0] = {cube} /\ shape[1] = X1 /\ shape[2] = X2 /\ shape[3] = X3
      /\ shape[4] = X4 /\ \A k \in 0..Depth : k > 4 => shape[k] = {}
  <2> HIDE DEF X1, X2, X3, X4
  <2> QED BY <1>0
<1> HIDE DEF shape
<1>4. ASSUME NEW k \in 0..Depth, NEW n \in shape[k]
      PROVE  \/ n \in [string : Seq(Char)]
             \/ k < Depth /\ n \in [array : Seq(shape[k + 1])]
             \/ k < Depth /\ n \in [map : [DOMAIN n.map -> shape[k + 1]]]
                          /\ DOMAIN n.map \subseteq Range(Names)
  <2>0. k \in {0, 1, 2, 3, 4}
    BY <1>0, <1>3
  <2>1. CASE k = 0
    <3>1. PICK f : n = [map |-> f] /\ f \in [{name, dims} -> X1]
      BY <1>2, <1>3, <2>1
    <3> HIDE DEF X1
    <3>2. DOMAIN n.map = {name, dims} /\ n.map = f /\ n = [map |-> n.map]
      BY <3>1
    <3>3. n.map \in [DOMAIN n.map -> shape[k + 1]] /\ k < Depth
      BY <1>0, <1>3, <2>1, <3>1, <3>2
    <3>4. n \in [map : [DOMAIN n.map -> shape[k + 1]]]
      BY <3>2, <3>3
    <3> QED BY <1>0, <3>2, <3>3, <3>4
  <2>2. CASE k = 1
    <3>1. n \in X1 /\ shape[k + 1] = X2 /\ k < Depth
      <4> HIDE DEF X1, X2, X3, X4
      <4> QED BY <1>0, <1>3, <2>2
    <3> HIDE DEF X2
    <3> QED BY <3>1
  <2>3. CASE k = 2
    <3>1. CASE n \in X4
      BY <3>1
    <3>2. CASE n \in [map : [{keys, val} -> X3]]
      <4> HIDE DEF X3
      <4>1. DOMAIN n.map = {keys, val} /\ n.map \in [{keys, val} -> X3] /\ n = [map |-> n.map]
        BY <3>2
      <4>2. n.map \in [DOMAIN n.map -> shape[k + 1]] /\ k < Depth
        BY <1>0, <1>3, <2>3, <4>1
      <4>3. n \in [map : [DOMAIN n.map -> shape[k + 1]]]
        BY <4>1, <4>2
      <4> QED BY <1>0, <4>1, <4>2, <4>3
    <3> QED BY <1>3, <2>3, <3>1, <3>2
  <2>4. CASE k = 3
    <3>1. n \in X3 /\ shape[k + 1] = X4 /\ k < Depth
      <4> HIDE DEF X1, X2, X3, X4
      <4> QED BY <1>0, <1>3, <2>4
    <3>2. CASE n \in X4
      BY <3>2
    <3>3. CASE n \in [array : Seq(X4)]
      <4> HIDE DEF X4
      <4> QED BY <3>1, <3>3
    <3> QED BY <3>1, <3>2, <3>3
  <2>5. CASE k = 4
    BY <1>3, <2>5
  <2> QED BY <2>0, <2>1, <2>2, <2>3, <2>4, <2>5
<1>5. Plainly(shape)
  BY <1>4 DEF Plainly
<1>6. IsNode(cube)
  BY <1>3, <1>5, ShapedNode
<1> QED BY <1>6 DEF cube

\* The fields of a cube have names.
LEMMA CubeOrderIs == CubeOrder \in Seq(Seq(Letter)) /\ CubeOrder \in Seq(Seq(Char))
<1> DEFINE a == <<"dimensions">>
           b == <<"cube">>
           c == <<"keys">>
           d == <<"value">>
<1>1. {a, b, c, d} \subseteq Range(Names)
  BY MessagesAssumption
<1>2. Range(Names) \subseteq Seq(Letter)
  <2>1. Range(Names) = {Names[i] : i \in 1..Len(Names)}
    BY JsonAssumption, RangeEquality
  <2>2. \A i \in 1..Len(Names) : Names[i] \in Seq(Letter)
    BY JsonAssumption
  <2> QED BY <2>1, <2>2
<1>3. CubeOrder = <<a, b, c, d>>
  BY DEF CubeOrder
<1> HIDE DEF a, b, c, d
<1>4. <<a, b, c, d>> \in Seq(Seq(Letter))
  BY <1>1, <1>2
<1>5. Letter \subseteq Char
  BY DEF Char
<1>6. <<a, b, c, d>> \in Seq(Seq(Char))
  <2>1. a \in Seq(Char) /\ b \in Seq(Char) /\ c \in Seq(Char) /\ d \in Seq(Char)
    BY <1>1, <1>2, <1>5
  <2> QED BY <2>1
<1> QED BY <1>3, <1>4, <1>6

\* What the service makes of a list or a cube is a text.
LEMMA ListsAreTexts ==
  ASSUME NEW lines \in Seq(Seq(Char))
  PROVE  Text(RecordsNode(lines)) \in Seq(Char)
<1> DEFINE node == RecordsNode(lines)
<1>1. IsNode(node)
  BY RecordsIsNode
<1> HIDE DEF node
<1>2. Spelling \in Spelt /\ Names \in Seq(Seq(Char))
  <2>1. Letter \subseteq Char
    BY DEF Char
  <2> QED BY <2>1, SpellingTypes, JsonAssumption
<1>3. Write(node, Spelling, Names) \in Seq(Char)
  BY <1>1, <1>2, WriteText
<1> QED BY <1>3 DEF Text, node

\* The text Cube::DumpToJson makes of any cells is of the characters.
LEMMA CubesAreTexts ==
  ASSUME NEW cells \in Seq([keys : Seq(Seq(Char)), records : Seq(Seq(Char))])
  PROVE  DumpToJson(cells) \in Seq(Char)
<1> DEFINE value == [i \in DOMAIN cells |-> MeasureList(cells[i].records)]
           node == CubeNode(cells, value)
           C == [keys : Seq(Seq(Char)), records : Seq(Seq(Char))]
<1>1. ASSUME NEW i \in 1..Len(cells) PROVE value[i] \in Seq(Char)
  <2> DEFINE c == cells[i]
             quote == <<"\\", "\"">>
             lines == c.records
  <2>1. c \in C
    <3> HIDE DEF C
    <3>1. cells \in Seq(C)
      BY DEF C
    <3> QED BY <3>1, ElementOfSeq
  <2>2. lines \in Seq(Seq(Char))
    <3> HIDE DEF c
    <3> QED BY <2>1
  <2>3. quote \in Seq(Char)
    <3>1. \A a \in Char, b \in Char : <<a, b>> \in Seq(Char)
      OBVIOUS
    <3> QED BY <3>1, SpellingChars
  <2>4. value[i] = ListText(lines, quote)
    <3>1. DOMAIN cells = 1..Len(cells)
      OBVIOUS
    <3> QED BY <3>1 DEF MeasureList
  <2> HIDE DEF lines, quote, value
  <2> QED BY <2>2, <2>3, <2>4, ListIsText
<1> HIDE DEF value
<1>2. IsNode(node)
  BY <1>1, CubeIsNode
<1>3. Raw \in Spelt /\ CubeOrder \in Seq(Seq(Char))
  <2>1. \A c \in Char : <<c>> \in Seq(Char)
    OBVIOUS
  <2> QED BY <2>1, CubeOrderIs DEF Raw, Spelt
<1> HIDE DEF node
<1>4. Write(node, Raw, CubeOrder) \in Seq(Char)
  BY <1>2, <1>3, WriteText
<1> QED BY <1>4 DEF DumpToJson, node, value

\* Every answer the server sends is one word.
LEMMA AnswersAreTexts ==
  ASSUME NEW answer \in Answers
  PROVE  \E t \in Seq(Char) : answer = String(t)
<1>1. CASE answer \in {String(text) : text \in Plain}
  BY <1>1, MessagesAssumption
<1>2. CASE answer \in {String(Text(RecordsNode(lines))) : lines \in Lines}
  <2>1. PICK lines \in Lines : answer = String(Text(RecordsNode(lines)))
    BY <1>2
  <2>2. lines \in Seq(Seq(Char))
    BY MessagesAssumption
  <2> QED BY <2>1, <2>2, ListsAreTexts
<1>3. CASE answer \in {String(DumpToJson(cells)) : cells \in Cells}
  <2>1. PICK cells \in Cells : answer = String(DumpToJson(cells))
    BY <1>3
  <2>2. cells \in Seq([keys : Seq(Seq(Char)), records : Seq(Seq(Char))])
    BY MessagesAssumption
  <2> QED BY <2>1, <2>2, CubesAreTexts
<1> QED BY <1>1, <1>2, <1>3 DEF Answers

\* What is written is a map that can be.
LEMMA WritingsAreNodes ==
  ASSUME NEW writing \in Writings
  PROVE  /\ IsNode(writing.node)
         /\ Is(writing.node, "map") /\ ~Is(writing.node, "array") /\ ~Is(writing.node, "string")
<1>1. CASE writing \in {[by |-> "cpp", node |-> Message("response", answer)] : answer \in Answers}
  <2>1. PICK answer \in Answers :
          writing = [by |-> "cpp", node |-> Message("response", answer)]
    BY <1>1
  <2>2. PICK t \in Seq(Char) : answer = String(t)
    BY AnswersAreTexts
  <2>3. writing.node = Message("response", String(t))
    BY <2>1, <2>2
  <2>4. IsNode(writing.node)
    BY <2>3, ResponseNode
  <2> QED BY <2>3, <2>4 DEF Message, Map, Is
<1>2. CASE writing \in {[by |-> by, node |-> Message("request", Map(request))] :
                          by \in {"cpp", "python"}, request \in Requests}
  <2>1. PICK request \in Requests : writing.node = Message("request", Map(request))
    BY <1>2
  <2>2. IsNode(writing.node)
    BY <2>1, MessagesAssumption
  <2> QED BY <2>1, <2>2 DEF Message, Map, Is
<1> QED BY <1>1, <1>2 DEF Writings

\* A map is respelled to a map.
LEMMA MapStaysMap ==
  ASSUME NEW node, IsNode(node), NEW spelling,
         Is(node, "map"), ~Is(node, "array"), ~Is(node, "string")
  PROVE  Is(Respell(node, spelling), "map")
<1>0. Depth \in 0..Depth /\ Depth - Depth = 0
  BY JsonAssumption
<1>1. PICK h : /\ RespellTable(Level(node), spelling, h, Depth)
               /\ Respell(node, spelling) = h[Depth][node]
  BY RespellIs
<1>2. Level(node)[0] = {node}
  BY LevelIs
<1>3. h[Depth] = [n \in Level(node)[Depth - Depth] |-> Respelt(n, h[Depth - 1], spelling)]
  BY <1>0, <1>1 DEF RespellTable
<1>4. h[Depth][node] = Respelt(node, h[Depth - 1], spelling)
  BY <1>0, <1>2, <1>3
<1> DEFINE inner == h[Depth - 1]
<1>5. Respelt(node, inner, spelling) = Map(Within(node.map, inner))
  BY OfMap
<1>6. Respell(node, spelling) = Map(Within(node.map, inner))
  BY <1>1, <1>4, <1>5
<1> HIDE DEF inner
<1> QED BY <1>6 DEF Is, Map

\* Load reads a message as the fields that it is to stand for.
LEMMA WritingRead ==
  ASSUME NEW writing \in Writings
  PROVE  /\ Encoded(writing) \in Seq(Char)
         /\ Is(Load(Encoded(writing)), "map")
         /\ Load(Encoded(writing)).map = Meant(writing)
<1> DEFINE node == writing.node
<1>1. /\ IsNode(node)
      /\ Is(node, "map") /\ ~Is(node, "array") /\ ~Is(node, "string")
  BY WritingsAreNodes
<1> HIDE DEF node
<1>2. CASE writing.by = "cpp"
  <2>1. Encoded(writing) = Text(node) /\ Meant(writing) = Respell(node, Kept).map
    BY <1>2 DEF Encoded, Meant, node
  <2>2. Load(Text(node)) = Respell(node, Kept)
    BY <1>1, NodesReadBack
  <2>3. Text(node) \in Seq(Char)
    <3>1. ReadAs(Spelling, Kept)
      BY SpellingsRead
    <3>2. Names \in Seq(Seq(Letter)) /\ Range(Names) \subseteq Range(Names)
      BY OrdersOfNames
    <3>3. NodeLike(Write(node, Spelling, Names))
      BY <1>1, <3>1, <3>2, NodeRead
    <3> QED BY <3>3 DEF NodeLike, Text
  <2>4. Is(Respell(node, Kept), "map")
    BY <1>1, MapStaysMap
  <2> QED BY <2>1, <2>2, <2>3, <2>4
<1>3. CASE writing.by # "cpp"
  <2>1. Encoded(writing) = Dumps(node) /\ Meant(writing) = Respell(node, Typed).map
    BY <1>3 DEF Encoded, Meant, node
  <2>2. Load(Dumps(node)) = Respell(node, Typed)
    BY <1>1, PythonNodesRead
  <2>3. Dumps(node) \in Seq(Char)
    <3>1. ReadAs(PythonSpelling, Typed)
      BY SpellingsRead
    <3>2. Added \in Seq(Seq(Letter)) /\ Range(Names) \subseteq Range(Added)
      BY OrdersOfNames
    <3>3. NodeLike(Write(node, PythonSpelling, Added))
      BY <1>1, <3>1, <3>2, NodeRead
    <3> QED BY <3>3 DEF NodeLike, Dumps
  <2>4. Is(Respell(node, Typed), "map")
    BY <1>1, MapStaysMap
  <2> QED BY <2>1, <2>2, <2>3, <2>4
<1> QED BY <1>2, <1>3

\* What Python reads of a list once, it can read again as JSON: the records with their
\* newlines as the first reading has left them.
LEMMA ListsReadTwice ==
  ASSUME NEW lines \in Seq(Seq(Char))
  PROVE  Respelled(Text(RecordsNode(lines)), Kept)
           = Standard(Respell(RecordsNode(lines), Kept), Names)
<1> DEFINE n == RecordsNode(lines)
<1>1. IsNode(n)
  BY RecordsIsNode
<1> HIDE DEF n
<1>2. Respelled(Write(n, Spelling, Names), Kept) = Write(n, Spelling, Names)
  BY <1>1, KeptTwice, JsonAssumption, WriteRespelled
<1>3. Write(n, Spelling, Names) = Standard(Respell(n, Kept), Names)
  BY <1>1, WritesStandardText
<1> QED BY <1>2, <1>3 DEF n, Text

\* The quotes around a list's records are escaped where they go into a string.
LEMMA MeasuresRewritten ==
  ASSUME NEW lines \in Seq(Seq(Char))
  PROVE  Rewritten(MeasureList(lines), ListText(lines, <<"\"">>), Range(lines))
<1> DEFINE front == <<"[", "\n">>
           tab == <<"\t">>
           comma == <<",">>
           newline == <<"\n">>
           end == <<"]">>
           quote == <<"\"">>
           escaped == <<"\\", "\"">>
           T == Seq(Char)
           mark(i) == IF i # Len(lines) THEN comma ELSE << >>
           part(q, i) == tab \o q \o lines[i] \o q \o mark(i) \o newline
           parts(q) == [i \in 1..Len(lines) |-> part(q, i)]
           W == [i \in 1..Len(lines) |-> {lines[i]}]
<1>1. /\ front \in T /\ tab \in T /\ comma \in T /\ newline \in T /\ end \in T
      /\ << >> \in T /\ quote \in T /\ escaped \in T
  <2>1. "[" \in Char /\ "\n" \in Char /\ "\t" \in Char /\ "," \in Char /\ "]" \in Char
        /\ "\"" \in Char /\ "\\" \in Char
    BY DEF Char, Blank, Other
  <2>2. \A a \in Char, b \in Char : <<a>> \in Seq(Char) /\ <<a, b>> \in Seq(Char)
    OBVIOUS
  <2>3. front \in T /\ tab \in T
    BY <2>1, <2>2
  <2>4. comma \in T /\ newline \in T /\ end \in T
    BY <2>1, <2>2
  <2>5. quote \in T /\ escaped \in T
    BY <2>1, <2>2
  <2>6. << >> \in T
    OBVIOUS
  <2> QED BY <2>3, <2>4, <2>5, <2>6
<1>2. /\ MeasureList(lines) = front \o FlattenSeq(parts(escaped)) \o end
      /\ ListText(lines, quote) = front \o FlattenSeq(parts(quote)) \o end
  <2>1. DOMAIN lines = 1..Len(lines)
    OBVIOUS
  <2>2. \A q : ListText(lines, q) = front \o FlattenSeq(parts(q)) \o end
    BY <2>1 DEF ListText
  <2> QED BY <2>2 DEF MeasureList
<1>3. /\ Rewritten(front, front, {}) /\ Rewritten(tab, tab, {}) /\ Rewritten(comma, comma, {})
      /\ Rewritten(newline, newline, {}) /\ Rewritten(end, end, {})
      /\ Rewritten(<< >>, << >>, {}) /\ Rewritten(escaped, quote, {})
  <2>0. Kept \in Spelt /\ Escaped \in Spelt
    BY KeptTwice DEF Bare
  <2>1. {"[", "\n", "\t", ",", "]", "\"", "\\"} \subseteq Char
    BY DEF Char, Blank, Other
  <2>2. /\ \A c \in {"[", "\n", "\t", ",", "]"} : Kept[c] = Escaped[c]
        /\ Kept["\\"] = <<"\\">> /\ Kept["\""] = <<"\"">> /\ Escaped["\""] = <<"\\", "\"">>
    BY <2>1 DEF Kept, Escaped, Raw
  <2>3. ASSUME NEW c \in {"[", "\n", "\t", ",", "]"}
        PROVE  <<c>> \in T /\ Respelled(<<c>>, Kept) = Respelled(<<c>>, Escaped)
    <3>1. c \in Char /\ Kept[c] = Escaped[c]
      BY <2>1, <2>2
    <3>2. Respelled(<<c>>, Kept) = Kept[c] /\ Respelled(<<c>>, Escaped) = Escaped[c]
      BY <2>0, <3>1, RespelledOne
    <3>3. <<c>> \in Seq(Char)
      BY <3>1, TwoCharacters
    <3> HIDE DEF tab, comma, newline, end, front, quote, escaped
    <3> QED BY <3>1, <3>2, <3>3
  <2>4. Respelled(front, Kept) = Respelled(front, Escaped)
    <3> DEFINE a == "["
               b == "\n"
    <3>1. a \in Char /\ b \in Char /\ Kept[a] = Escaped[a] /\ Kept[b] = Escaped[b]
      BY <2>1, <2>2
    <3> HIDE DEF a, b
    <3>2. /\ Respelled(<<a, b>>, Kept) = Kept[a] \o Kept[b]
          /\ Respelled(<<a, b>>, Escaped) = Escaped[a] \o Escaped[b]
      BY <2>0, <3>1, RespelledTwo
    <3> QED BY <3>1, <3>2 DEF a, b
  <2>5. Respelled(escaped, Kept) = Respelled(quote, Escaped)
    <3> DEFINE a == "\\"
               b == "\""
    <3>1. a \in Char /\ b \in Char /\ Kept[a] = <<a>> /\ Kept[b] = <<b>> /\ Escaped[b] = <<a, b>>
      BY <2>1, <2>2
    <3> HIDE DEF a, b
    <3>2. Respelled(<<a, b>>, Kept) = Kept[a] \o Kept[b]
      BY <2>0, <3>1, RespelledTwo
    <3>3. Respelled(<<b>>, Escaped) = Escaped[b]
      BY <2>0, <3>1, RespelledOne
    <3>4. <<a>> \o <<b>> = <<a, b>>
      BY <3>1, TwoCharacters
    <3> QED BY <3>1, <3>2, <3>3, <3>4 DEF a, b
  <2>6. Respelled(<< >>, Kept) = Respelled(<< >>, Escaped)
    BY <2>0, RespelledAppend
  <2>7. /\ Respelled(tab, Kept) = Respelled(tab, Escaped)
        /\ Respelled(comma, Kept) = Respelled(comma, Escaped)
        /\ Respelled(newline, Kept) = Respelled(newline, Escaped)
        /\ Respelled(end, Kept) = Respelled(end, Escaped)
    BY <2>3
  <2> HIDE DEF front, tab, comma, newline, end, escaped, quote
  <2>8. Rewritten(front, front, {}) /\ Rewritten(tab, tab, {}) /\ Rewritten(comma, comma, {})
    BY <1>1, <2>4, <2>7, RewrittenSame
  <2>9. /\ Rewritten(newline, newline, {}) /\ Rewritten(end, end, {})
        /\ Rewritten(<< >>, << >>, {}) /\ Rewritten(escaped, quote, {})
    BY <1>1, <2>5, <2>6, <2>7, RewrittenSame
  <2> QED BY <2>8, <2>9
<1> HIDE DEF front, tab, comma, newline, end, escaped, quote
<1>4. ASSUME NEW i \in 1..Len(lines)
      PROVE  Rewritten(part(escaped, i), part(quote, i), {lines[i]})
  <2> DEFINE c == mark(i)
             word == lines[i]
             a1 == tab \o escaped
             b1 == tab \o quote
             a2 == a1 \o word
             b2 == b1 \o word
             a3 == a2 \o escaped
             b3 == b2 \o quote
             a4 == a3 \o c
             b4 == b3 \o c
  <2>1. Rewritten(c, c, {})
    BY <1>3
  <2>2. Rewritten(word, word, {word})
    <3>1. lines \in Seq(T)
      OBVIOUS
    <3> HIDE DEF T
    <3>2. word \in T
      BY <3>1, ElementOfSeq
    <3> HIDE DEF word
    <3> QED BY <3>2, RewrittenWord DEF T
  <2> HIDE DEF mark, word, c
  <2>3. Rewritten(a1, b1, {} \cup {})
    BY <1>3, RewrittenTwo
  <2> HIDE DEF a1, b1
  <2>4. Rewritten(a2, b2, ({} \cup {}) \cup {word})
    BY <2>2, <2>3, RewrittenTwo
  <2> HIDE DEF a2, b2
  <2>5. Rewritten(a3, b3, (({} \cup {}) \cup {word}) \cup {})
    BY <1>3, <2>4, RewrittenTwo
  <2> HIDE DEF a3, b3
  <2>6. Rewritten(a4, b4, ((({} \cup {}) \cup {word}) \cup {}) \cup {})
    BY <2>1, <2>5, RewrittenTwo
  <2> HIDE DEF a4, b4
  <2>7. Rewritten(a4 \o newline, b4 \o newline, (((({} \cup {}) \cup {word}) \cup {}) \cup {}) \cup {})
    BY <1>3, <2>6, RewrittenTwo
  <2>8. (((({} \cup {}) \cup {word}) \cup {}) \cup {}) \cup {} = {word}
    OBVIOUS
  <2>9. part(escaped, i) = a4 \o newline /\ part(quote, i) = b4 \o newline
    BY DEF a4, a3, a2, a1, b4, b3, b2, b1, c, word
  <2> HIDE DEF part
  <2> QED BY <2>7, <2>8, <2>9 DEF word
<1>5. \A i \in 1..Len(lines) : part(escaped, i) \in T /\ part(quote, i) \in T
  BY <1>4 DEF Rewritten
<1> HIDE DEF part, mark
<1> DEFINE a == parts(escaped)
           b == parts(quote)
<1>6. /\ a \in Seq(T) /\ Len(a) = Len(lines)
      /\ b \in Seq(T) /\ Len(b) = Len(lines)
  <2> HIDE DEF T
  <2>1. Len(lines) \in Nat
    OBVIOUS
  <2> QED BY <1>5, <2>1
<1>7. RewrittenOn(1..Len(a), a, b, W)
  BY <1>4, <1>6 DEF RewrittenOn
<1>8. Words(1..Len(lines), W) = Range(lines)
  <2>1. Range(lines) = {lines[i] : i \in 1..Len(lines)}
    <3>1. lines \in Seq(T)
      OBVIOUS
    <3> HIDE DEF T
    <3> QED BY <3>1, RangeEquality
  <2> QED BY <2>1 DEF Words
<1> HIDE DEF W
<1>9. MeasureList(lines) = front \o FlattenSeq(a) \o end
      /\ ListText(lines, quote) = front \o FlattenSeq(b) \o end
  BY <1>2
<1> HIDE DEF a, b
<1> DEFINE x == FlattenSeq(a)
           y == FlattenSeq(b)
           words == Range(lines)
<1>10. Rewritten(x, y, words)
  BY <1>6, <1>7, <1>8, RewrittenList
<1> HIDE DEF x, y, words
<1>11. Rewritten(front \o x, front \o y, {} \cup words)
  BY <1>3, <1>10, RewrittenTwo
<1> DEFINE u == front \o x
           v == front \o y
<1>12. Rewritten(u, v, {} \cup words)
  BY <1>11
<1> HIDE DEF u, v
<1>13. Rewritten(u \o end, v \o end, ({} \cup words) \cup {})
  BY <1>3, <1>12, RewrittenTwo
<1>14. ({} \cup words) \cup {} = words
  OBVIOUS
<1> QED BY <1>9, <1>13, <1>14 DEF u, v, x, y, words, quote

\* The names of a cube's fields.
LEMMA CubeNames ==
  /\ {<<"keys">>, <<"value">>, <<"cube">>, <<"dimensions">>} \subseteq Range(CubeOrder)
  /\ <<"keys">> # <<"value">> /\ <<"cube">> # <<"dimensions">>
  /\ <<"data">> \in Seq(Char) /\ Clear({<<"data">>})
<1> DEFINE a == <<"dimensions">>
           b == <<"cube">>
           c == <<"keys">>
           d == <<"value">>
           word == <<"data">>
<1>1. c # d /\ b # a
  OBVIOUS
<1>2. word \in Seq(Char)
  <2>1. word \in Range(Names)
    BY MessagesAssumption
  <2>2. Range(Names) = {Names[i] : i \in 1..Len(Names)}
    BY JsonAssumption, RangeEquality
  <2> HIDE DEF word
  <2>3. word \in Seq(Letter)
    BY <2>1, <2>2, JsonAssumption
  <2>4. Letter \subseteq Char
    BY DEF Char
  <2> QED BY <2>3, <2>4
<1>3. Clear({word})
  <2>1. DOMAIN word = {1} /\ word[1] = "data"
    OBVIOUS
  <2>2. Range(word) = {"data"}
    BY <2>1 DEF Range
  <2>3. {"data"} \cap {"\"", "\\"} = {}
    OBVIOUS
  <2> HIDE DEF word
  <2> QED BY <2>2, <2>3 DEF Clear
<1>4. CubeOrder = <<a, b, c, d>>
  BY DEF CubeOrder
<1> HIDE DEF a, b, c, d, word
<1>5. {c, d, b, a} \subseteq Range(CubeOrder)
  <2>1. DOMAIN CubeOrder = 1..4 /\ CubeOrder[1] = a /\ CubeOrder[2] = b
        /\ CubeOrder[3] = c /\ CubeOrder[4] = d
    BY <1>4
  <2> QED BY <2>1 DEF Range
<1> QED BY <1>1, <1>2, <1>3, <1>5 DEF a, b, c, d, word

\* A cell, with what stands for its measure in one text and in the other.
LEMMA AlikeCells ==
  ASSUME NEW cell, cell.keys \in Seq(Seq(Char)), NEW s, NEW t, NEW words,
         Rewritten(s, t, words), IsNode(CellNode(cell, s)), IsNode(CellNode(cell, t))
  PROVE  Alike(CellNode(cell, s), CellNode(cell, t), CubeOrder, Range(cell.keys) \cup words)
<1> DEFINE a == <<"keys">>
           b == <<"value">>
           lines == cell.keys
           keys == RecordsNode(lines)
           f == [name \in {a, b} |-> IF name = a THEN keys ELSE String(s)]
           g == [name \in {a, b} |-> IF name = a THEN keys ELSE String(t)]
           W == [name \in {a, b} |-> IF name = a THEN Range(lines) ELSE words]
<1>0. {a, b} \subseteq Range(CubeOrder) /\ a # b /\ CubeOrder \in Seq(Seq(Char))
  BY CubeNames, CubeOrderIs
<1>1. CellNode(cell, s) = Map(f) /\ CellNode(cell, t) = Map(g)
  BY DEF CellNode
<1>2. lines \in Seq(Seq(Char))
  OBVIOUS
<1> HIDE DEF a, b
<1>3. /\ f[a] = keys /\ g[a] = keys /\ f[b] = String(s) /\ g[b] = String(t)
      /\ W[a] = Range(lines) /\ W[b] = words
      /\ DOMAIN f = {a, b} /\ DOMAIN g = {a, b}
  BY <1>0
<1> HIDE DEF f, g, W, lines
<1>4. IsNode(keys) /\ IsNode(String(s)) /\ IsNode(String(t))
  <2>1. \A name \in DOMAIN f : IsNode(f[name])
    BY <1>1, MapWritten
  <2>2. \A name \in DOMAIN g : IsNode(g[name])
    BY <1>1, MapWritten
  <2> QED BY <1>3, <2>1, <2>2
<1>5. Alike(f[a], g[a], CubeOrder, W[a])
  <2> DEFINE r == [i \in 1..Len(lines) |-> String(lines[i])]
  <2>1. keys = Array(r)
    <3>1. DOMAIN lines = 1..Len(lines)
      BY <1>2
    <3> QED BY <3>1 DEF RecordsNode
  <2>2. r = [i \in 1..Len(lines) |-> String(lines[i])] /\ IsNode(Array(r))
    BY <1>4, <2>1
  <2> HIDE DEF r, keys
  <2>3. Alike(Array(r), Array(r), CubeOrder, Range(lines))
    BY <1>2, <2>2, AlikeWords
  <2> QED BY <1>3, <2>1, <2>3
<1>6. Alike(f[b], g[b], CubeOrder, W[b])
  BY <1>3, <1>4, RewrittenString DEF Alike
<1>7. AlikeOn(DOMAIN f, f, g, CubeOrder, W)
  BY <1>3, <1>5, <1>6 DEF AlikeOn
<1>8. Alike(Map(f), Map(g), CubeOrder, Words(DOMAIN f, W))
  BY <1>0, <1>1, <1>3, <1>7, AlikeMaps
<1>9. Words(DOMAIN f, W) = Range(lines) \cup words
  BY <1>3 DEF Words
<1> QED BY <1>1, <1>8, <1>9 DEF lines

CellWords(cells) == UNION {Range(cells[j].keys) \cup Range(cells[j].records) : j \in DOMAIN cells}

\* And the cube.
LEMMA AlikeCubes ==
  ASSUME NEW cells \in Seq([keys : Seq(Seq(Char)), records : Seq(Seq(Char))]),
         NEW v, NEW w, NEW R, R = [i \in 1..Len(cells) |-> Range(cells[i].records)],
         RewrittenOn(1..Len(cells), v, w, R)
  PROVE  Alike(CubeNode(cells, v), CubeNode(cells, w), CubeOrder,
               CellWords(cells) \cup {<<"data">>})
<1> DEFINE a == <<"cube">>
           b == <<"dimensions">>
           word == <<"data">>
           n == Len(cells)
           s == [i \in 1..n |-> CellNode(cells[i], v[i])]
           t == [i \in 1..n |-> CellNode(cells[i], w[i])]
           all(c) == Array(c)
           data == RecordsNode(<<word>>)
           f == [name \in {a, b} |-> IF name = a THEN Array(s) ELSE data]
           g == [name \in {a, b} |-> IF name = a THEN Array(t) ELSE data]
           V == [i \in 1..n |-> Range(cells[i].keys) \cup R[i]]
           W == [name \in {a, b} |-> IF name = a THEN Words(1..n, V) ELSE {word}]
<1>0. /\ {a, b} \subseteq Range(CubeOrder) /\ a # b /\ CubeOrder \in Seq(Seq(Char))
      /\ word \in Seq(Char) /\ n \in Nat /\ DOMAIN cells = 1..n
  BY CubeNames, CubeOrderIs
<1>1. CubeNode(cells, v) = Map(f) /\ CubeNode(cells, w) = Map(g)
  BY <1>0 DEF CubeNode
<1>2. IsNode(Map(f)) /\ IsNode(Map(g))
  <2>1. \A i \in 1..Len(cells) : v[i] \in Seq(Char) /\ w[i] \in Seq(Char)
    BY DEF RewrittenOn, Rewritten
  <2>2. IsNode(CubeNode(cells, v))
    BY <2>1, CubeIsNode
  <2>3. IsNode(CubeNode(cells, w))
    BY <2>1, CubeIsNode
  <2> QED BY <1>1, <2>2, <2>3
<1>3. \A i \in 1..n : cells[i].keys \in Seq(Seq(Char))
  <2> DEFINE C == [keys : Seq(Seq(Char)), records : Seq(Seq(Char))]
  <2>1. \A c \in C : c.keys \in Seq(Seq(Char))
    OBVIOUS
  <2>2. cells \in Seq(C)
    OBVIOUS
  <2> HIDE DEF C
  <2>3. \A i \in 1..n : cells[i] \in C
    BY <2>2, ElementOfSeq
  <2> QED BY <2>1, <2>3
<1> HIDE DEF a, b, word
<1>4. /\ f[a] = Array(s) /\ g[a] = Array(t) /\ f[b] = data /\ g[b] = data
      /\ W[a] = Words(1..n, V) /\ W[b] = {word}
      /\ DOMAIN f = {a, b} /\ DOMAIN g = {a, b}
  BY <1>0
<1> HIDE DEF f, g, W, n
<1>5. IsNode(Array(s)) /\ IsNode(Array(t)) /\ IsNode(data)
  <2>1. \A name \in DOMAIN f : IsNode(f[name])
    BY <1>2, MapWritten
  <2>2. \A name \in DOMAIN g : IsNode(g[name])
    BY <1>2, MapWritten
  <2> HIDE DEF s, t, data
  <2> QED BY <1>4, <2>1, <2>2
<1>6. Alike(f[a], g[a], CubeOrder, W[a])
  <2> DEFINE S == {CellNode(cells[i], v[i]) : i \in 1..n}
             U == {CellNode(cells[i], w[i]) : i \in 1..n}
  <2>1. s \in Seq(S) /\ Len(s) = n /\ DOMAIN s = 1..n
    <3>1. s = [i \in 1..n |-> s[i]] /\ \A i \in 1..n : s[i] \in S
      OBVIOUS
    <3> HIDE DEF s, S
    <3> QED BY <1>0, <3>1, ListOf
  <2>2. t \in Seq(U) /\ Len(t) = n /\ DOMAIN t = 1..n
    <3>1. t = [i \in 1..n |-> t[i]] /\ \A i \in 1..n : t[i] \in U
      OBVIOUS
    <3> HIDE DEF t, U
    <3> QED BY <1>0, <3>1, ListOf
  <2>3. /\ \A i \in 1..n : IsNode(s[i])
        /\ \A i \in 1..n : IsNode(t[i])
    <3>1. \A i \in DOMAIN s : IsNode(s[i])
      BY <1>5, ArrayWritten
    <3>2. \A i \in DOMAIN t : IsNode(t[i])
      BY <1>5, ArrayWritten
    <3> HIDE DEF s, t
    <3> QED BY <2>1, <2>2, <3>1, <3>2
  <2>4. ASSUME NEW i \in 1..n PROVE Alike(s[i], t[i], CubeOrder, V[i])
    <3> DEFINE cell == cells[i]
               x == v[i]
               y == w[i]
               words == R[i]
    <3>1. s[i] = CellNode(cell, x) /\ t[i] = CellNode(cell, y)
          /\ V[i] = Range(cell.keys) \cup words
      OBVIOUS
    <3>2. cell.keys \in Seq(Seq(Char)) /\ Rewritten(x, y, words)
      BY <1>3 DEF RewrittenOn, n
    <3>3. IsNode(CellNode(cell, x)) /\ IsNode(CellNode(cell, y))
      BY <2>3, <3>1
    <3> HIDE DEF cell, x, y, words, s, t, V
    <3>4. Alike(CellNode(cell, x), CellNode(cell, y), CubeOrder, Range(cell.keys) \cup words)
      BY <3>2, <3>3, AlikeCells
    <3> QED BY <3>1, <3>4
  <2> HIDE DEF s, t, V, S, U
  <2>5. AlikeOn(1..Len(s), s, t, CubeOrder, V)
    BY <2>1, <2>4 DEF AlikeOn
  <2>6. Alike(Array(s), Array(t), CubeOrder, Words(1..Len(s), V))
    BY <1>5, <2>1, <2>2, <2>5, AlikeArrays
  <2> QED BY <1>4, <2>1, <2>6
<1>7. Alike(f[b], g[b], CubeOrder, W[b])
  <2> DEFINE lines == <<word>>
             r == [i \in 1..Len(lines) |-> String(lines[i])]
  <2>1. lines \in Seq(Seq(Char)) /\ Range(lines) = {word}
    <3>1. lines \in Seq(Seq(Char))
      BY <1>0
    <3>2. DOMAIN lines = {1} /\ lines[1] = word
      OBVIOUS
    <3> HIDE DEF lines
    <3>3. Range(lines) = {word}
      BY <3>2 DEF Range
    <3> QED BY <3>1, <3>3
  <2>2. data = RecordsNode(lines)
    OBVIOUS
  <2> HIDE DEF lines, data
  <2>3. data = Array(r)
    <3>1. DOMAIN lines = 1..Len(lines)
      BY <2>1
    <3> QED BY <2>2, <3>1 DEF RecordsNode
  <2>4. r = [i \in 1..Len(lines) |-> String(lines[i])] /\ IsNode(Array(r))
    BY <1>5, <2>3
  <2> HIDE DEF r
  <2>5. Alike(Array(r), Array(r), CubeOrder, Range(lines))
    BY <2>1, <2>4, AlikeWords
  <2> QED BY <1>4, <2>1, <2>3, <2>5
<1>8. AlikeOn(DOMAIN f, f, g, CubeOrder, W)
  <2> HIDE DEF s, t, data, V
  <2> QED BY <1>4, <1>6, <1>7 DEF AlikeOn
<1>9. Alike(Map(f), Map(g), CubeOrder, Words(DOMAIN f, W))
  <2> HIDE DEF s, t, data, V
  <2>1. DOMAIN f = DOMAIN g /\ DOMAIN f \subseteq Range(CubeOrder)
    BY <1>0, <1>4
  <2> QED BY <1>0, <1>2, <1>8, <2>1, AlikeMaps
<1>10. Words(DOMAIN f, W) = CellWords(cells) \cup {word}
  <2>1. Words(1..n, V) = CellWords(cells)
    <3>1. \A i \in 1..n : V[i] = Range(cells[i].keys) \cup Range(cells[i].records)
      BY DEF n
    <3>2. DOMAIN cells = 1..n
      BY <1>0
    <3> HIDE DEF V
    <3> QED BY <3>1, <3>2 DEF Words, CellWords
  <2> HIDE DEF s, t, data, V
  <2>2. Words(DOMAIN f, W) = Words(1..n, V) \cup {word}
    <3> DEFINE P == Words(1..n, V)
    <3>1. W[a] = P /\ W[b] = {word} /\ DOMAIN f = {a, b}
      BY <1>4
    <3> HIDE DEF P
    <3>2. Words(DOMAIN f, W) = P \cup {word}
      BY <3>1 DEF Words
    <3> QED BY <3>2 DEF P
  <2> QED BY <2>1, <2>2
<1> QED BY <1>1, <1>9, <1>10 DEF word

\* A cube can be read again, unless a quote or a backslash stands in a key or a record.
LEMMA CubesReadTwice ==
  ASSUME NEW cells \in Seq([keys : Seq(Seq(Char)), records : Seq(Seq(Char))])
  PROVE  (Respelled(DumpToJson(cells), Kept) = Standard(CubeMeant(cells), CubeOrder))
           <=> Clear(CellWords(cells))
<1> DEFINE n == Len(cells)
           v == [i \in DOMAIN cells |-> MeasureList(cells[i].records)]
           w == [i \in DOMAIN cells |-> ListText(cells[i].records, <<"\"">>)]
           R == [i \in 1..Len(cells) |-> Range(cells[i].records)]
           C == [keys : Seq(Seq(Char)), records : Seq(Seq(Char))]
<1>1. ASSUME NEW i \in 1..n
      PROVE  Rewritten(v[i], w[i], R[i])
  <2> DEFINE lines == cells[i].records
  <2>1. lines \in Seq(Seq(Char))
    <3>1. \A c \in C : c.records \in Seq(Seq(Char))
      OBVIOUS
    <3>2. cells \in Seq(C)
      OBVIOUS
    <3> HIDE DEF C
    <3>3. cells[i] \in C
      BY <3>2, ElementOfSeq
    <3> QED BY <3>1, <3>3
  <2>2. /\ v[i] = MeasureList(lines) /\ w[i] = ListText(lines, <<"\"">>)
        /\ R[i] = Range(lines)
    <3>1. DOMAIN cells = 1..n
      OBVIOUS
    <3> QED BY <3>1
  <2> HIDE DEF lines, v, w, R
  <2>3. Rewritten(MeasureList(lines), ListText(lines, <<"\"">>), Range(lines))
    BY <2>1, MeasuresRewritten
  <2> QED BY <2>2, <2>3
<1>2. RewrittenOn(1..Len(cells), v, w, R)
  BY <1>1 DEF RewrittenOn
<1>3. R = [i \in 1..Len(cells) |-> Range(cells[i].records)]
  OBVIOUS
<1>4. /\ DumpToJson(cells) = Write(CubeNode(cells, v), Raw, CubeOrder)
      /\ CubeMeant(cells) = CubeNode(cells, w)
  BY DEF DumpToJson, CubeMeant
<1>5. \A i \in 1..Len(cells) : v[i] \in Seq(Char) /\ w[i] \in Seq(Char)
  BY <1>1 DEF Rewritten
<1> HIDE DEF v, w, R, C
<1> DEFINE x == CubeNode(cells, v)
           y == CubeNode(cells, w)
           words == CellWords(cells) \cup {<<"data">>}
<1>6. IsNode(x)
  BY <1>5, CubeIsNode
<1>7. Alike(x, y, CubeOrder, words)
  BY <1>2, <1>3, AlikeCubes
<1>8. Clear(words) <=> Clear(CellWords(cells))
  BY CubeNames DEF Clear
<1> HIDE DEF x, y, words
<1>9. Respelled(Write(x, Raw, CubeOrder), Kept) = Write(x, Kept, CubeOrder)
  BY <1>6, KeptTwice, CubeOrderIs, WriteRespelled
<1>10. (Write(x, Kept, CubeOrder) = Write(y, Escaped, CubeOrder)) <=> Clear(words)
  BY <1>7 DEF Alike, Twin
<1> QED BY <1>4, <1>8, <1>9, <1>10 DEF Standard, x, y

-----------------------------------------------------------------------------
(* Messages in a stream *)

Fields == {Meant(writing) : writing \in Writings}

\* at[i] is where message i ends in a text that begins where message first has ended.
Cuts(at, first, messages, text) ==
  /\ at \in [first..Len(messages) -> 0..Len(text)]
  /\ at[first] = 0
  /\ at[Len(messages)] = Len(text)
  /\ \A i \in (first + 1)..Len(messages) :
       /\ at[i] = at[i - 1] + Len(Frame(messages[i]))
       /\ \A j \in 1..Len(Frame(messages[i])) :
            text[at[i - 1] + j] = Frame(messages[i])[j]

\* A reader that has not ended is at the first character of a message, and what it has
\* not read is whole messages.
Aligned ==
  /\ sent \in Seq(Writings) /\ stream \in Seq(Char) /\ received \in Seq(Fields)
  /\ ReadsWhatWasSent
  /\ EndsOnlyOnLong
  /\ reader = "reads" => \E at : Cuts(at, Len(received), sent, stream)

\* A body of up to 10^Width - 1 characters, or a longer one, and its header.
LEMMA FrameShape ==
  ASSUME NEW writing \in Writings
  PROVE  /\ Encoded(writing) \in Seq(Char) /\ Len(Encoded(writing)) \in Nat
         /\ LengthHeader(Len(Encoded(writing))) \in Seq(Char)
         /\ Frame(writing) \in Seq(Char)
         /\ Len(Frame(writing)) =
              Len(LengthHeader(Len(Encoded(writing)))) + Len(Encoded(writing))
         /\ \A j \in 1..Len(LengthHeader(Len(Encoded(writing)))) :
              Frame(writing)[j] = LengthHeader(Len(Encoded(writing)))[j]
         /\ \A j \in 1..Len(Encoded(writing)) :
              Frame(writing)[Len(LengthHeader(Len(Encoded(writing)))) + j] = Encoded(writing)[j]
<1> DEFINE body == Encoded(writing)
           header == LengthHeader(Len(body))
<1>1. body \in Seq(Char) /\ Len(body) \in Nat
  <2>1. body \in Seq(Char)
    BY WritingRead
  <2> HIDE DEF body
  <2> QED BY <2>1
<1>2. header \in Seq(Char) /\ Len(header) \in Nat
  <2>1. header \in Seq(DigitChar)
    BY <1>1, HeaderShape
  <2> HIDE DEF header
  <2>2. header \in Seq(Char)
    BY <2>1, DigitValues, SeqMonotonic
  <2> QED BY <2>2
<1>3. Frame(writing) = header \o body
  BY DEF Frame
<1> HIDE DEF body, header
<1>4. /\ Frame(writing) \in Seq(Char)
      /\ Len(Frame(writing)) = Len(header) + Len(body)
      /\ \A j \in 1..Len(header) : Frame(writing)[j] = header[j]
      /\ \A j \in 1..Len(body) : Frame(writing)[Len(header) + j] = body[j]
  BY <1>1, <1>2, <1>3, ConcatProperties
<1> QED BY <1>1, <1>2, <1>4 DEF body, header

\* What the reader finds at the first character of a message: all of a short message; of
\* a long one as many characters as its header seems to announce, the first a digit.
LEMMA AtAMessage ==
  ASSUME NEW writing \in Writings, stream \in Seq(Char),
         Len(Frame(writing)) <= Len(stream),
         \A j \in 1..Len(Frame(writing)) : stream[j] = Frame(writing)[j],
         NEW length, length = Atoi(SubSeq(stream, 1, Width))
  PROVE  /\ Len(stream) >= Width /\ length \in Nat /\ Arrived
         /\ ~Long(writing) => /\ Len(Frame(writing)) = Width + length
                              /\ SubSeq(stream, Width + 1, Width + length) = Encoded(writing)
         /\ Long(writing) =>
              /\ SubSeq(stream, Width + 1, Width + length) \in Seq(Char) \ {<< >>}
              /\ SubSeq(stream, Width + 1, Width + length)[1] \in DigitChar
<1> DEFINE body == Encoded(writing)
           n == Len(body)
           header == LengthHeader(n)
           size == Len(Frame(writing))
<1>1. /\ body \in Seq(Char) /\ n \in Nat
      /\ size = Len(header) + n
      /\ \A j \in 1..Len(header) : Frame(writing)[j] = header[j]
      /\ \A j \in 1..n : Frame(writing)[Len(header) + j] = body[j]
  BY FrameShape
<1>2. /\ header \in Seq(DigitChar)
      /\ Len(header) = IF Long(writing) THEN Len(Decimal[n]) ELSE Width
  <2>1. Len(Decimal[n]) \in Nat /\ Width \in Nat
    BY <1>1, DecimalReads, ChatMessageAssumption DEF Numbered
  <2>2. /\ header \in Seq(DigitChar)
        /\ Len(header) = IF Len(Decimal[n]) <= Width THEN Width ELSE Len(Decimal[n])
    BY <1>1, HeaderShape
  <2>3. Long(writing) <=> Len(Decimal[n]) > Width
    BY DEF Long
  <2> HIDE DEF header, n
  <2>4. CASE Len(Decimal[n]) > Width
    <3>1. ~(Len(Decimal[n]) <= Width)
      BY <2>1, <2>4
    <3> QED BY <2>2, <2>3, <2>4, <3>1
  <2>5. CASE Len(Decimal[n]) <= Width
    <3>1. ~(Len(Decimal[n]) > Width)
      BY <2>1, <2>5
    <3> QED BY <2>2, <2>3, <2>5, <3>1
  <2> QED BY <2>1, <2>4, <2>5
<1>3. Width \in Nat /\ Width >= 1 /\ Len(header) \in Nat /\ Len(header) >= Width
      /\ (Long(writing) => Len(header) > Width)
  <2>1. Width \in Nat /\ Width >= 1
    BY ChatMessageAssumption
  <2>2. Long(writing) => Len(Decimal[n]) > Width
    BY DEF Long
  <2>3. Len(header) \in Nat
    <3> HIDE DEF header
    <3> QED BY <1>2
  <2> QED BY <1>2, <2>1, <2>2, <2>3
<1>4. ~Long(writing) => Atoi(header) = n
  <2> SUFFICES ASSUME ~Long(writing) PROVE Atoi(header) = n
    OBVIOUS
  <2>1. Len(Decimal[n]) <= Width
    <3>1. Len(Decimal[n]) \in Nat
      BY <1>1, DecimalReads DEF Numbered
    <3> QED BY <1>3, <3>1 DEF Long
  <2> QED BY <1>1, <2>1, HeaderReads
<1>5. Long(writing) => Atoi(SubSeq(header, 1, Width)) \in 1..n
  BY <1>1, LongHeaderReads DEF Long
<1>6. size <= Len(stream) /\ \A j \in 1..size : stream[j] = Frame(writing)[j]
  OBVIOUS
<1> HIDE DEF body, n, header, size
<1>7. /\ \A j \in 1..Len(header) : stream[j] = header[j]
      /\ \A j \in 1..n : stream[Len(header) + j] = body[j]
      /\ Len(stream) \in Nat /\ Len(stream) >= Len(header) + n
  <2>1. \A j \in 1..Len(header) : j \in 1..size
    BY <1>1, <1>3
  <2>2. \A j \in 1..n : Len(header) + j \in 1..size
    BY <1>1, <1>3
  <2> QED BY <1>1, <1>6, <2>1, <2>2
<1>8. SubSeq(stream, 1, Width) = SubSeq(header, 1, Width)
  <2>1. \A j \in 1..Width : j \in 1..Len(header) /\ j \in 1..Len(stream)
    BY <1>1, <1>3, <1>7
  <2>2. \A j \in 1..Width : stream[j] \in Char /\ header[j] \in Char /\ stream[j] = header[j]
    BY <1>2, <1>7, <2>1, DigitValues
  <2>3. /\ SubSeq(stream, 1, Width) \in Seq(Char) /\ Len(SubSeq(stream, 1, Width)) = Width
        /\ \A j \in 1..Width : SubSeq(stream, 1, Width)[j] = stream[j]
    BY <1>3, <2>2, SubSeqProperties
  <2>4. /\ SubSeq(header, 1, Width) \in Seq(Char) /\ Len(SubSeq(header, 1, Width)) = Width
        /\ \A j \in 1..Width : SubSeq(header, 1, Width)[j] = header[j]
    BY <1>3, <2>2, SubSeqProperties
  <2> QED BY <2>2, <2>3, <2>4, SeqEqual
<1> DEFINE rest == SubSeq(stream, Width + 1, Width + length)
<1>9. CASE ~Long(writing)
  <2>1. Len(header) = Width /\ length = n
    <3>1. Len(header) = Width
      BY <1>2, <1>9
    <3>2. SubSeq(header, 1, Width) = header
      BY <1>2, <3>1, SubSeqFull
    <3> QED BY <1>4, <1>8, <1>9, <3>1, <3>2
  <2>2. Len(stream) >= Width /\ length \in Nat /\ Len(stream) >= Width + length
    BY <1>1, <1>3, <1>7, <2>1
  <2>3. rest = body
    <3>1. \A j \in (Width + 1)..(Width + n) : stream[j] \in Char
      BY <1>1, <1>3, <1>7, <2>1
    <3>2. /\ rest \in Seq(Char) /\ Len(rest) = n
          /\ \A j \in 1..n : rest[j] = stream[Width + j]
      BY <1>1, <1>3, <2>1, <3>1, SubSeqProperties
    <3> HIDE DEF rest
    <3> QED BY <1>1, <1>7, <2>1, <3>2, SeqEqual DEF n
  <2> QED BY <1>1, <1>9, <2>1, <2>2, <2>3 DEF Arrived, body, size
<1>10. CASE Long(writing)
  <2>1. length \in 1..n
    BY <1>5, <1>8, <1>10
  <2>2. Len(stream) >= Width /\ length \in Nat /\ Len(stream) >= Width + length
    BY <1>1, <1>3, <1>7, <1>10, <2>1
  <2>3. rest \in Seq(Char) /\ Len(rest) = length /\ rest[1] = stream[Width + 1]
    <3>1. \A j \in (Width + 1)..(Width + length) : stream[j] \in Char
      BY <1>3, <1>7, <2>2
    <3>2. /\ Width + 1 \in Int /\ Width + length \in Int /\ Width + 1 <= Width + length
          /\ (Width + length) - (Width + 1) + 1 = length /\ 1 \in 1..length
          /\ (Width + 1) + 1 - 1 = Width + 1
      BY <1>3, <2>1, <2>2
    <3> QED BY <3>1, <3>2, SubSeqProperties
  <2>4. stream[Width + 1] \in DigitChar
    <3>1. Width + 1 \in 1..Len(header)
      BY <1>3, <1>10
    <3> QED BY <1>2, <1>7, <3>1
  <2> HIDE DEF rest
  <2>5. rest # << >>
    BY <2>1, <2>3, EmptySeq
  <2> QED BY <1>10, <2>2, <2>3, <2>4, <2>5 DEF Arrived, rest
<1> QED BY <1>9, <1>10

\* One more message is one more cut, at the end.
LEMMA SendAligned ==
  ASSUME Aligned, NEW writing \in Writings, Send(writing)
  PROVE  Aligned'
<1> DEFINE frame == Frame(writing)
           first == Len(received)
           last == Len(sent)
<1>1. frame \in Seq(Char) /\ Len(frame) \in Nat
  <2>1. frame \in Seq(Char)
    BY FrameShape
  <2> HIDE DEF frame
  <2> QED BY <2>1
<1>2. /\ sent' = Append(sent, writing) /\ stream' = stream \o frame
      /\ received' = received /\ reader' = reader
  BY DEF Send
<1>3. /\ sent \in Seq(Writings) /\ stream \in Seq(Char) /\ received \in Seq(Fields)
      /\ last \in Nat /\ first \in Nat /\ first <= last /\ Len(stream) \in Nat
  BY DEF Aligned, ReadsWhatWasSent
<1> HIDE DEF frame
<1>4. /\ sent' \in Seq(Writings) /\ Len(sent') = last + 1
      /\ \A i \in 1..last : sent'[i] = sent[i]
      /\ sent'[last + 1] = writing
  BY <1>2, <1>3, AppendProperties
<1>5. /\ stream' \in Seq(Char) /\ Len(stream') = Len(stream) + Len(frame)
      /\ \A j \in 1..Len(stream) : stream'[j] = stream[j]
      /\ \A j \in 1..Len(frame) : stream'[Len(stream) + j] = frame[j]
  BY <1>1, <1>2, <1>3, ConcatProperties
<1>6. ReadsWhatWasSent'
  <2>1. \A i \in DOMAIN received : i \in 1..last /\ received[i] = Meant(sent[i])
    BY <1>3 DEF Aligned, ReadsWhatWasSent
  <2> QED BY <1>2, <1>3, <1>4, <2>1 DEF ReadsWhatWasSent
<1>7. EndsOnlyOnLong'
  <2>1. reader = "ended" => first < last /\ Long(sent[first + 1])
    BY DEF Aligned, EndsOnlyOnLong
  <2>2. reader = "ended" => first < last + 1 /\ Long(sent'[first + 1])
    <3> SUFFICES ASSUME reader = "ended"
                 PROVE  first < last + 1 /\ Long(sent'[first + 1])
      OBVIOUS
    <3>1. first < last /\ first + 1 \in 1..last
      BY <1>3, <2>1
    <3>2. sent'[first + 1] = sent[first + 1]
      BY <1>4, <3>1
    <3> QED BY <1>3, <2>1, <3>1, <3>2
  <2> QED BY <1>2, <1>4, <2>2 DEF EndsOnlyOnLong, Long
<1>8. ASSUME reader = "reads" PROVE \E at : Cuts(at, first, sent', stream')
  <2>1. PICK at : Cuts(at, first, sent, stream)
    BY <1>8 DEF Aligned
  <2> DEFINE new == [i \in first..(last + 1) |->
                       IF i <= last THEN at[i] ELSE Len(stream) + Len(frame)]
  <2>2. /\ \A i \in first..last : at[i] \in 0..Len(stream)
        /\ at[first] = 0 /\ at[last] = Len(stream)
        /\ \A i \in (first + 1)..last :
             /\ at[i] = at[i - 1] + Len(Frame(sent[i]))
             /\ \A j \in 1..Len(Frame(sent[i])) : stream[at[i - 1] + j] = Frame(sent[i])[j]
    BY <2>1 DEF Cuts
  <2>3. /\ \A i \in first..last : new[i] = at[i]
        /\ new[last + 1] = Len(stream) + Len(frame)
        /\ new \in [first..(last + 1) -> 0..(Len(stream) + Len(frame))]
    <3>1. \A i \in first..last : i \in first..(last + 1) /\ i <= last
      BY <1>3
    <3>2. ~(last + 1 <= last) /\ last + 1 \in first..(last + 1)
      BY <1>3
    <3>3. \A i \in first..(last + 1) : i <= last => i \in first..last
      BY <1>3
    <3>4. \A k \in 0..Len(stream) : k \in 0..(Len(stream) + Len(frame))
      BY <1>1, <1>3
    <3>5. Len(stream) + Len(frame) \in 0..(Len(stream) + Len(frame))
      BY <1>1, <1>3
    <3> QED BY <2>2, <3>1, <3>2, <3>3, <3>4, <3>5
  <2> HIDE DEF new
  <2>4. new[first] = 0
    <3>1. first \in first..last
      BY <1>3
    <3> QED BY <2>2, <2>3, <3>1
  <2>5. ASSUME NEW i \in (first + 1)..(last + 1)
        PROVE  /\ new[i] = new[i - 1] + Len(Frame(sent'[i]))
               /\ \A j \in 1..Len(Frame(sent'[i])) :
                    stream'[new[i - 1] + j] = Frame(sent'[i])[j]
    <3>1. CASE i <= last
      <4>1. i \in (first + 1)..last /\ i \in first..last /\ i - 1 \in first..last
        BY <1>3, <3>1
      <4>2. i \in 1..last
        BY <1>3, <4>1
      <4>3. sent'[i] = sent[i] /\ sent[i] \in Writings
        BY <1>3, <1>4, <4>2
      <4> DEFINE f == Frame(sent[i])
      <4>4. f \in Seq(Char) /\ Len(f) \in Nat
        <5>1. f \in Seq(Char)
          BY <4>3, FrameShape
        <5> HIDE DEF f
        <5> QED BY <5>1
      <4>5. at[i] = at[i - 1] + Len(f) /\ \A j \in 1..Len(f) : stream[at[i - 1] + j] = f[j]
        BY <2>2, <4>1
      <4> HIDE DEF f
      <4>6. ASSUME NEW j \in 1..Len(f) PROVE stream'[at[i - 1] + j] = f[j]
        <5>1. at[i - 1] \in Nat /\ at[i] <= Len(stream) /\ at[i] \in Nat
          <6>1. Len(stream) \in Nat
            BY <1>3
          <6>2. at[i - 1] \in 0..Len(stream) /\ at[i] \in 0..Len(stream)
            BY <2>2, <4>1
          <6> QED BY <6>1, <6>2
        <5>2. at[i - 1] + j \in 1..Len(stream)
          BY <1>3, <4>4, <4>5, <5>1
        <5> QED BY <1>5, <4>5, <5>2
      <4>7. new[i] = at[i] /\ new[i - 1] = at[i - 1]
        BY <2>3, <4>1
      <4> QED BY <4>3, <4>5, <4>6, <4>7 DEF f
    <3>2. CASE ~(i <= last)
      <4>1. i = last + 1 /\ i - 1 = last /\ last \in first..last
        BY <1>3, <3>2
      <4>2. new[i - 1] = Len(stream) /\ new[i] = Len(stream) + Len(frame)
        BY <2>2, <2>3, <4>1
      <4>3. Frame(sent'[i]) = frame
        BY <1>4, <4>1 DEF frame
      <4> QED BY <1>5, <4>2, <4>3
    <3> QED BY <3>1, <3>2
  <2>6. /\ new \in [first..Len(sent') -> 0..Len(stream')]
        /\ new[Len(sent')] = Len(stream')
    BY <1>4, <1>5, <2>3
  <2>7. Cuts(new, first, sent', stream')
    <3> HIDE DEF first, last
    <3> QED BY <1>4, <2>4, <2>5, <2>6 DEF Cuts
  <2> QED BY <2>7
<1>9. (\E at : Cuts(at, Len(received), sent, stream))'
         <=> \E at : Cuts(at, first, sent', stream')
  BY <1>2
<1> QED BY <1>2, <1>3, <1>4, <1>5, <1>6, <1>7, <1>8, <1>9 DEF Aligned

\* What a reader that has not read everything finds: the next message.
LEMMA NextMessage ==
  ASSUME Aligned, reader = "reads", Len(received) < Len(sent)
  PROVE  /\ sent[Len(received) + 1] \in Writings
         /\ Len(Frame(sent[Len(received) + 1])) <= Len(stream)
         /\ \A j \in 1..Len(Frame(sent[Len(received) + 1])) :
              stream[j] = Frame(sent[Len(received) + 1])[j]
<1> DEFINE first == Len(received)
           frame == Frame(sent[first + 1])
<1>1. PICK at : Cuts(at, first, sent, stream)
  BY DEF Aligned
<1>2. /\ sent \in Seq(Writings) /\ Len(sent) \in Nat /\ first \in Nat /\ first < Len(sent)
      /\ Len(stream) \in Nat
  BY DEF Aligned
<1>3. sent[first + 1] \in Writings
  BY <1>2
<1>4. frame \in Seq(Char) /\ Len(frame) \in Nat
  <2>1. frame \in Seq(Char)
    BY <1>3, FrameShape
  <2> HIDE DEF frame
  <2> QED BY <2>1
<1>5. /\ at[first] = 0 /\ at[first + 1] = at[first] + Len(frame)
      /\ at[first + 1] \in 0..Len(stream)
      /\ \A j \in 1..Len(frame) : stream[at[first] + j] = frame[j]
  <2>1. first + 1 \in (first + 1)..Len(sent) /\ first + 1 \in first..Len(sent)
        /\ (first + 1) - 1 = first
    BY <1>2
  <2> QED BY <1>1, <2>1 DEF Cuts
<1> HIDE DEF frame
<1>6. Len(frame) <= Len(stream) /\ \A j \in 1..Len(frame) : stream[j] = frame[j]
  BY <1>2, <1>4, <1>5
<1> QED BY <1>3, <1>6 DEF frame

\* A message taken is a cut less, and what a long one is taken for is no map.
LEMMA ReceiveAligned ==
  ASSUME Aligned, Receive
  PROVE  Aligned'
<1> DEFINE first == Len(received)
           last == Len(sent)
           writing == sent[first + 1]
           length == Atoi(SubSeq(stream, 1, Width))
           text == SubSeq(stream, Width + 1, Width + length)
           taken == Width + length
<1>1. /\ sent \in Seq(Writings) /\ stream \in Seq(Char) /\ received \in Seq(Fields)
      /\ last \in Nat /\ first \in Nat /\ first <= last /\ Len(stream) \in Nat
      /\ Width \in Nat /\ Width >= 1
  BY ChatMessageAssumption DEF Aligned, ReadsWhatWasSent
<1>2. /\ reader = "reads" /\ stream # << >> /\ sent' = sent
      /\ IF Arrived /\ Is(Load(text), "map")
         THEN /\ received' = Append(received, Load(text).map)
              /\ stream' = From(stream, taken) /\ reader' = reader
         ELSE reader' = "ended" /\ stream' = stream /\ received' = received
  BY DEF Receive
<1>3. PICK at : Cuts(at, first, sent, stream)
  BY <1>2 DEF Aligned
<1>4. first < last
  <2>1. ASSUME first = last PROVE FALSE
    <3>1. Len(stream) = 0
      BY <1>3, <2>1 DEF Cuts
    <3> QED BY <1>1, <1>2, <3>1, EmptySeq
  <2> QED BY <1>1, <2>1
<1>5. /\ writing \in Writings /\ Len(Frame(writing)) <= Len(stream)
      /\ \A j \in 1..Len(Frame(writing)) : stream[j] = Frame(writing)[j]
  BY <1>2, <1>4, NextMessage
<1>6. /\ length \in Nat /\ Arrived /\ Len(stream) >= taken
      /\ ~Long(writing) => Len(Frame(writing)) = taken /\ text = Encoded(writing)
      /\ Long(writing) => text \in Seq(Char) \ {<< >>} /\ text[1] \in DigitChar
  <2> HIDE DEF length, writing
  <2>1. /\ length \in Nat /\ Arrived /\ length = Atoi(SubSeq(stream, 1, Width))
        /\ ~Long(writing) => Len(Frame(writing)) = taken /\ text = Encoded(writing)
        /\ Long(writing) => text \in Seq(Char) \ {<< >>} /\ text[1] \in DigitChar
    <3>1. length = Atoi(SubSeq(stream, 1, Width))
      BY DEF length
    <3> QED BY <1>1, <1>5, <3>1, AtAMessage
  <2> QED BY <2>1 DEF Arrived
<1>7. Len(Frame(writing)) \in Nat
  <2>1. Frame(writing) \in Seq(Char)
    BY <1>5, FrameShape
  <2> QED BY <2>1
<1> HIDE DEF length
<1>8. taken \in Nat
  BY <1>1, <1>6
<1> HIDE DEF taken
<1>9. stream' = From(stream, taken) =>
        /\ stream' \in Seq(Char) /\ Len(stream') = Len(stream) - taken
        /\ \A j \in 1..(Len(stream) - taken) : stream'[j] = stream[taken + j]
  <2>1. \A j \in (taken + 1)..Len(stream) : stream[j] \in Char
    BY <1>1, <1>8
  <2>2. From(stream, taken) = SubSeq(stream, taken + 1, Len(stream))
    BY DEF From
  <2> QED BY <1>1, <1>6, <1>8, <2>1, <2>2, SubSeqProperties
<1>10. ReadsWhatWasSent /\ \A i \in 1..first : received[i] = Meant(sent[i])
  BY <1>1 DEF Aligned, ReadsWhatWasSent
<1>11. CASE Long(writing)
  <2>1. ~Is(Load(text), "map")
    <3> HIDE DEF text
    <3> QED BY <1>6, <1>11, NumberRead DEF DigitChar
  <2>2. reader' = "ended" /\ stream' = stream /\ received' = received
    BY <1>2, <2>1
  <2>3. ReadsWhatWasSent'
    BY <1>2, <1>10, <2>2 DEF ReadsWhatWasSent
  <2>4. EndsOnlyOnLong'
    BY <1>2, <1>4, <1>11, <2>2 DEF EndsOnlyOnLong, Long
  <2> QED BY <1>1, <1>2, <1>9, <2>2, <2>3, <2>4 DEF Aligned
<1>12. CASE ~Long(writing)
  <2>1. Is(Load(text), "map") /\ Load(text).map = Meant(writing)
    <3>1. text = Encoded(writing)
      BY <1>6, <1>12
    <3> HIDE DEF text, writing
    <3> QED BY <1>5, <3>1, WritingRead
  <2>2. /\ received' = Append(received, Meant(writing))
        /\ stream' = From(stream, taken) /\ reader' = reader
    BY <1>2, <1>6, <2>1
  <2>15. /\ stream' \in Seq(Char) /\ Len(stream') = Len(stream) - taken
         /\ \A j \in 1..(Len(stream) - taken) : stream'[j] = stream[taken + j]
    BY <1>9, <2>2
  <2>3. /\ received' \in Seq(Fields) /\ Len(received') = first + 1
        /\ \A i \in 1..first : received'[i] = received[i]
        /\ received'[first + 1] = Meant(writing)
    <3>1. Meant(writing) \in Fields
      BY <1>5 DEF Fields
    <3> HIDE DEF writing
    <3> QED BY <1>1, <2>2, <3>1, AppendProperties
  <2>4. ReadsWhatWasSent'
    <3>1. \A i \in 1..(first + 1) : i \in 1..first \/ i = first + 1
      BY <1>1
    <3>2. \A i \in 1..(first + 1) : received'[i] = Meant(sent[i])
      BY <1>10, <2>3, <3>1
    <3>3. DOMAIN received' = 1..(first + 1) /\ first + 1 <= last
      BY <1>1, <1>4, <2>3
    <3> QED BY <1>2, <2>3, <3>2, <3>3 DEF ReadsWhatWasSent
  <2>5. EndsOnlyOnLong'
    BY <1>2, <2>2 DEF EndsOnlyOnLong
  <2> DEFINE new == [i \in (first + 1)..last |-> at[i] - taken]
             frame(i) == Frame(sent[i])
  <2>6. /\ \A i \in first..last : at[i] \in 0..Len(stream)
        /\ at[first] = 0 /\ at[last] = Len(stream)
        /\ \A i \in (first + 1)..last :
             /\ at[i] = at[i - 1] + Len(frame(i))
             /\ \A j \in 1..Len(frame(i)) : stream[at[i - 1] + j] = frame(i)[j]
    BY <1>3 DEF Cuts
  <2>7. at[first + 1] = taken
    <3>1. first + 1 \in (first + 1)..last /\ (first + 1) - 1 = first
      BY <1>1, <1>4
    <3> QED BY <1>6, <1>7, <1>12, <2>6, <3>1
  <2>8. \A i \in (first + 1)..last : Len(frame(i)) \in Nat
    <3> SUFFICES ASSUME NEW i \in (first + 1)..last PROVE Len(frame(i)) \in Nat
      OBVIOUS
    <3>1. sent[i] \in Writings
      <4>1. i \in 1..last
        BY <1>1
      <4> QED BY <1>1, <4>1
    <3>2. frame(i) \in Seq(Char)
      BY <3>1, FrameShape
    <3> QED BY <3>2
  <2> HIDE DEF frame
  <2>9. \A i \in (first + 1)..last : at[i] >= taken
    <3> DEFINE G == {k \in Nat : first + 1 + k <= last => at[first + 1 + k] >= taken}
    <3>1. 0 \in G
      BY <1>1, <1>8, <2>7
    <3>2. ASSUME NEW k \in G PROVE k + 1 \in G
      <4> SUFFICES ASSUME first + 1 + (k + 1) <= last
                   PROVE  at[first + 1 + (k + 1)] >= taken
        OBVIOUS
      <4> DEFINE i == first + 1 + k
      <4>1. /\ i \in first..last /\ i + 1 \in (first + 1)..last /\ (i + 1) - 1 = i
            /\ first + 1 + (k + 1) = i + 1
        BY <1>1
      <4>2. at[i] >= taken
        BY <1>1
      <4> HIDE DEF i
      <4>3. at[i + 1] = at[i] + Len(frame(i + 1)) /\ Len(frame(i + 1)) \in Nat
        BY <2>6, <2>8, <4>1
      <4>4. at[i] \in Nat
        BY <1>1, <2>6, <4>1
      <4>5. at[i + 1] >= taken
        BY <1>8, <4>2, <4>3, <4>4
      <4> QED BY <4>1, <4>5
    <3>3. G = Nat
      <4>1. G \in SUBSET Nat
        OBVIOUS
      <4> HIDE DEF G
      <4> QED BY <3>1, <3>2, <4>1, UpwardInduction
    <3> SUFFICES ASSUME NEW i \in (first + 1)..last PROVE at[i] >= taken
      OBVIOUS
    <3>4. i - (first + 1) \in Nat /\ first + 1 + (i - (first + 1)) = i /\ i <= last
      BY <1>1
    <3> QED BY <3>3, <3>4
  <2>10. \A i \in (first + 1)..last :
           at[i] \in 0..Len(stream) /\ at[i] - taken \in 0..(Len(stream) - taken)
    <3> SUFFICES ASSUME NEW i \in (first + 1)..last
                 PROVE  /\ at[i] \in 0..Len(stream)
                        /\ at[i] - taken \in 0..(Len(stream) - taken)
      OBVIOUS
    <3>1. i \in first..last
      BY <1>1
    <3>2. at[i] \in 0..Len(stream) /\ at[i] >= taken
      BY <2>6, <2>9, <3>1
    <3> QED BY <1>1, <1>8, <3>2
  <2>11. ASSUME NEW i \in (first + 2)..last
         PROVE  /\ new[i] = new[i - 1] + Len(frame(i))
                /\ \A j \in 1..Len(frame(i)) : stream'[new[i - 1] + j] = frame(i)[j]
    <3>1. i \in (first + 1)..last /\ i - 1 \in (first + 1)..last
      BY <1>1
    <3>2. /\ at[i] = at[i - 1] + Len(frame(i)) /\ Len(frame(i)) \in Nat
          /\ \A j \in 1..Len(frame(i)) : stream[at[i - 1] + j] = frame(i)[j]
      BY <2>6, <2>8, <3>1
    <3>3. /\ at[i] \in 0..Len(stream) /\ at[i - 1] \in 0..Len(stream)
          /\ at[i - 1] - taken \in 0..(Len(stream) - taken)
      BY <2>10, <3>1
    <3>4. new[i] = at[i] - taken /\ new[i - 1] = at[i - 1] - taken
      BY <3>1
    <3> HIDE DEF new
    <3>5. ASSUME NEW j \in 1..Len(frame(i))
          PROVE  stream'[new[i - 1] + j] = frame(i)[j]
      <4>1. /\ (at[i - 1] - taken) + j \in 1..(Len(stream) - taken)
            /\ taken + ((at[i - 1] - taken) + j) = at[i - 1] + j
        <5>1. PICK a \in 0..Len(stream), b \in 0..Len(stream), f \in Nat :
                a = at[i - 1] /\ b = at[i] /\ f = Len(frame(i))
          BY <3>2, <3>3
        <5>2. b = a + f /\ a - taken >= 0 /\ j \in 1..f
          BY <1>1, <1>8, <3>2, <3>3, <5>1
        <5>3. (a - taken) + j \in 1..(Len(stream) - taken) /\ taken + ((a - taken) + j) = a + j
          BY <1>1, <1>8, <5>2
        <5> QED BY <5>1, <5>3
      <4>2. stream'[(at[i - 1] - taken) + j] = stream[at[i - 1] + j]
        BY <2>15, <4>1
      <4> QED BY <3>2, <3>4, <4>2
    <3> QED BY <1>8, <3>2, <3>3, <3>4, <3>5
  <2>12. /\ new \in [(first + 1)..last -> 0..Len(stream')]
         /\ new[first + 1] = 0 /\ new[last] = Len(stream')
    <3>1. first + 1 \in (first + 1)..last /\ last \in (first + 1)..last
      BY <1>1, <1>4
    <3> QED BY <1>1, <1>8, <2>15, <2>6, <2>7, <2>10, <3>1
  <2>13. Cuts(new, first + 1, sent, stream')
    <3>1. first + 1 + 1 = first + 2
      BY <1>1
    <3> HIDE DEF new, first, last
    <3> QED BY <2>11, <2>12, <3>1 DEF Cuts, last, frame
  <2>14. (\E a : Cuts(a, Len(received), sent, stream))'
           <=> \E a : Cuts(a, first + 1, sent, stream')
    BY <1>2, <2>3
  <2> QED BY <1>1, <1>2, <2>15, <2>3, <2>4, <2>5, <2>13, <2>14 DEF Aligned
<1> QED BY <1>11, <1>12

\* Between two messages the reader is at the first character of one.
LEMMA NextAligned ==
  /\ Init => Aligned
  /\ Aligned /\ [Next]_vars => Aligned'
<1>1. ASSUME Init PROVE Aligned
  <2>1. /\ sent = << >> /\ stream = << >> /\ received = << >> /\ reader = "reads"
    BY <1>1 DEF Init
  <2>2. Cuts([i \in {0} |-> 0], 0, << >>, << >>)
    BY DEF Cuts
  <2>3. Len(<< >>) = 0 /\ DOMAIN << >> = {}
    OBVIOUS
  <2>4. \E at : Cuts(at, Len(received), sent, stream)
    BY <2>1, <2>2, <2>3
  <2> QED BY <2>1, <2>3, <2>4 DEF Aligned, ReadsWhatWasSent, EndsOnlyOnLong
<1>2. ASSUME Aligned, [Next]_vars PROVE Aligned'
  <2>1. CASE Receive
    BY <1>2, <2>1, ReceiveAligned
  <2>2. CASE \E writing \in Writings : Send(writing)
    BY <1>2, <2>2, SendAligned
  <2>3. CASE UNCHANGED vars
    BY <1>2, <2>3 DEF Aligned, vars, ReadsWhatWasSent, EndsOnlyOnLong, Long
  <2> QED BY <1>2, <2>1, <2>2, <2>3 DEF Next
<1> QED BY <1>1, <1>2

\* However many messages follow each other, and whatever their texts hold, a reader in
\* C++ gets the fields of each (receiveMessage, ChatMessage::get_ready_message).
THEOREM MessagesAreRead == Spec => []ReadsWhatWasSent
<1>1. Aligned => ReadsWhatWasSent
  BY DEF Aligned
<1> QED BY <1>1, NextAligned, PTL DEF Spec

\* Only a message with more digits in its length than a header has room for ends a
\* reader, the seven-digit lengths of parse_data_length.
THEOREM OnlyLongOnesEnd == Spec => []EndsOnlyOnLong
<1>1. Aligned => EndsOnlyOnLong
  BY DEF Aligned
<1> QED BY <1>1, NextAligned, PTL DEF Spec

\* Where messages arrive whole, no recv of the reader falls short: a header announces no
\* more than is written, also that of a message too long for it.
THEOREM NothingIsHeldBack == Spec => []NothingHeldBack
<1>1. Aligned => NothingHeldBack
  <2> SUFFICES ASSUME Aligned, reader = "reads", Len(received) < Len(sent)
               PROVE  Arrived
    BY DEF NothingHeldBack
  <2>1. stream \in Seq(Char)
    BY DEF Aligned
  <2> QED BY <2>1, NextMessage, AtAMessage
<1> QED BY <1>1, NextAligned, PTL DEF Spec

\* Whatever the answers and requests hold, Python finds in what a C++ program has written
\* the fields that were meant, in one and the same JSON text (operator<<, json.loads).
THEOREM AnswersAreJson == Spec => []PythonReadsAnswers
<1>1. ASSUME Aligned PROVE PythonReadsAnswers
  <2> SUFFICES ASSUME NEW i \in DOMAIN sent
               PROVE  Text(sent[i].node) = Standard(Respell(sent[i].node, Kept), Names)
    BY DEF PythonReadsAnswers
  <2>1. sent[i] \in Writings
    BY <1>1 DEF Aligned
  <2>2. IsNode(sent[i].node)
    BY <2>1, WritingsAreNodes
  <2> QED BY <2>2, WritesStandardText DEF Text
<1> QED BY <1>1, NextAligned, PTL DEF Spec

\* What Python has read of a list or a cube is JSON once more: of a list always, of a cube
\* exactly as long as no key and no record has a quote or a backslash, since only the
\* quotes around them are escaped twice (operator<< of a MeasureList, Dump::toJson).
THEOREM AnswersAreReadTwice == Spec => []AnswersReadTwice
<1>1. AnswersReadTwice
  <2> SUFFICES ASSUME NEW i \in DOMAIN sent
               PROVE  /\ \A lines \in Lines :
                           LET text == Text(RecordsNode(lines))
                           IN  sent[i].node = Message("response", String(text))
                                 => Respelled(text, Kept)
                                      = Standard(Respell(RecordsNode(lines), Kept), Names)
                      /\ \A cells \in Cells :
                           LET text  == DumpToJson(cells)
                               words == UNION {Range(cells[j].keys) \cup Range(cells[j].records) :
                                                 j \in DOMAIN cells}
                           IN  sent[i].node = Message("response", String(text))
                                 => ((Respelled(text, Kept)
                                        = Standard(CubeMeant(cells), CubeOrder))
                                      <=> \A word \in words : Range(word) \cap {"\"", "\\"} = {})
    BY DEF AnswersReadTwice
  <2>1. ASSUME NEW lines \in Lines
        PROVE  Respelled(Text(RecordsNode(lines)), Kept)
                 = Standard(Respell(RecordsNode(lines), Kept), Names)
    BY MessagesAssumption, ListsReadTwice
  <2>2. ASSUME NEW cells \in Cells
        PROVE  (Respelled(DumpToJson(cells), Kept) = Standard(CubeMeant(cells), CubeOrder))
                 <=> Clear(CellWords(cells))
    <3>1. cells \in Seq([keys : Seq(Seq(Char)), records : Seq(Seq(Char))])
      BY MessagesAssumption
    <3> QED BY <3>1, CubesReadTwice
  <2> QED BY <2>1, <2>2 DEF Clear, CellWords
<1> QED BY <1>1, PTL DEF Spec

=============================================================================
