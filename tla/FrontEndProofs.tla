--------------------------- MODULE FrontEndProofs ---------------------------
(***************************************************************************)
(* Which answer a program shows, for any number of requests: the command   *)
(* line front end its own, the graphical one an earlier request's.         *)
(***************************************************************************)
EXTENDS FrontEnd, TLAPS

AnswerForm == {"welcome", "ok", "error", "list", "cube", "decimals"}

\* How many places an answer is behind the request that it will be taken for.
Lag == IF pc = "wait" THEN changes + 1 ELSE changes

\* The gui's connection: the answers not read are those to the latest requests, in
\* order, as many as there were changes, and one more while a GET waits.
GuiQueue ==
  program = "gui" /\ pc \in {"idle", "wait"} =>
    /\ \A k \in 1..Len(answers) : answers[k].to = asked - Lag + k
    /\ \A k \in 1..Len(requests) : requests[k].n = asked - Lag + Len(answers) + k
    /\ server = "up" => Len(answers) + Len(requests) = Lag
    /\ pc = "wait" => request.n = asked

\* The cli's connection: nothing is left when it asks.
CliQueue ==
  program = "cli" /\ Prompt =>
    /\ pc = "input" => answers = << >> /\ requests = << >>
    /\ pc = "wait" => /\ \A k \in 1..Len(answers) : answers[k].to = request.n
                      /\ \A k \in 1..Len(requests) : requests[k].n = request.n
    /\ shown.of = shown.for

Beginning ==
  /\ pc = "hello" => asked = 0 /\ changes = 0 /\ requests = << >> /\ Len(answers) <= 1
  /\ server = "gone" => requests = << >>

IInv == TypeOK /\ GuiQueue /\ CliQueue /\ Beginning

-----------------------------------------------------------------------------
(* Sequences *)

\* A sequence without its first item.
LEMMA TailFacts ==
  ASSUME NEW S, NEW s \in Seq(S), s # << >>
  PROVE  /\ Tail(s) \in Seq(S) /\ Len(Tail(s)) = Len(s) - 1 /\ Len(s) \in Nat
         /\ Head(s) = s[1] /\ s[1] \in S /\ Len(s) >= 1
         /\ \A k \in 1..(Len(s) - 1) : Tail(s)[k] = s[k + 1]
OBVIOUS

\* A sequence and one item more.
LEMMA AppendFacts ==
  ASSUME NEW S, NEW s \in Seq(S), NEW e \in S
  PROVE  /\ Append(s, e) \in Seq(S) /\ Len(Append(s, e)) = Len(s) + 1 /\ Len(s) \in Nat
         /\ \A k \in 1..Len(s) : Append(s, e)[k] = s[k]
         /\ Append(s, e)[Len(s) + 1] = e
OBVIOUS

\* A sequence of a set is one of any larger set.
LEMMA WiderSeq ==
  ASSUME NEW S, NEW T, S \subseteq T, NEW s \in Seq(S)
  PROVE  s \in Seq(T)
OBVIOUS

\* Every form an answer may have is one the programs know.
LEMMA FormsAreForms ==
  ASSUME NEW kind, NEW form \in Forms(kind)
  PROVE  form \in AnswerForm
BY DEF Forms, AnswerForm

-----------------------------------------------------------------------------
(* The programs *)

\* The invariant holds at the start.
LEMMA InitIInv == Init => IInv
<1> SUFFICES ASSUME Init PROVE IInv
  OBVIOUS
<1> PICK welcome : welcome = [to |-> 0, form |-> "welcome"]
  OBVIOUS
<1>1. answers = <<welcome>>
  BY DEF Init
<1>2. welcome \in [to : 0..asked, form : AnswerForm]
  BY DEF Init, AnswerForm
<1>3. answers \in Seq([to : 0..asked, form : AnswerForm]) /\ Len(answers) = 1
  BY <1>1, <1>2
<1>4. requests \in Seq([n : 1..asked, kind : Changes \cup Gets]) /\ requests = << >>
  BY DEF Init
<1>5. TypeOK
  BY <1>3, <1>4, FrontEndAssumption DEF Init, TypeOK, AnswerForm, FrontEndAssumption
<1> QED BY <1>3, <1>4, <1>5 DEF Init, IInv, GuiQueue, CliQueue, Beginning

\* A step that reads an answer, or none, and asks nothing.
LEMMA GreetIInv ==
  ASSUME IInv, Greet
  PROVE  IInv'
<1>1. /\ Tail(answers) \in Seq([to : 0..asked, form : AnswerForm])
      /\ Len(Tail(answers)) = Len(answers) - 1 /\ Len(answers) \in Nat /\ Len(answers) >= 1
  BY TailFacts DEF IInv, TypeOK, Greet, AnswerForm
<1>2. /\ asked = 0 /\ changes = 0 /\ requests = << >> /\ Len(answers) <= 1
      /\ answers' = Tail(answers) /\ pc' = Home /\ program \in {"cli", "gui", "chat"}
      /\ UNCHANGED <<program, asked, changes, requests, request, shown, claimed, server>>
  BY FrontEndAssumption DEF Greet, IInv, TypeOK, Beginning, FrontEndAssumption
<1>3. Len(answers') = 0 /\ Len(requests') = 0
  BY <1>1, <1>2
<1>4. TypeOK'
  BY <1>1, <1>2 DEF IInv, TypeOK, AnswerForm, Home
<1>5. GuiQueue'
  BY <1>2, <1>3 DEF GuiQueue, Lag, Home
<1>6. CliQueue' /\ Beginning'
  BY <1>2 DEF IInv, CliQueue, Beginning, Home
<1> QED BY <1>4, <1>5, <1>6 DEF IInv

\* To read an answer away keeps the invariant.
LEMMA DrainIInv ==
  ASSUME IInv, Drain
  PROVE  IInv'
<1>1. Tail(answers) \in Seq([to : 0..asked, form : AnswerForm])
  BY TailFacts DEF IInv, TypeOK, Drain, AnswerForm
<1> QED BY <1>1 DEF Drain, IInv, TypeOK, AnswerForm, GuiQueue, CliQueue, Beginning

\* The program moves on without its connection.
LEMMA MoveIInv ==
  ASSUME IInv, StopDraining \/ NoRequest \/ AskFails \/ ReceivePart \/ ReceiveEnd
  PROVE  IInv'
<1>1. UNCHANGED <<program, asked, changes, requests, answers, request, shown, claimed, server>>
  BY DEF StopDraining, NoRequest, AskFails, ReceivePart, ReceiveEnd
<1>2. TypeOK'
  BY <1>1, FrontEndAssumption
     DEF StopDraining, HasNoMessages, NoRequest, AskFails, ReceivePart, ReceiveEnd, Failed,
         IInv, TypeOK, FrontEndAssumption
<1>3. CliQueue'
  BY <1>1 DEF StopDraining, HasNoMessages, NoRequest, AskFails, ReceivePart, ReceiveEnd,
              Failed, IInv, CliQueue
<1>4. Beginning'
  BY <1>1 DEF StopDraining, HasNoMessages, NoRequest, AskFails, ReceivePart, ReceiveEnd,
              Failed, IInv, Beginning
<1>5. GuiQueue'
  <2>1. CASE program = "gui" /\ pc' \in {"idle", "wait"}
    <3>1. ReceiveEnd /\ pc = "wait" /\ answers = << >> /\ server = "gone" /\ requests = << >>
          /\ pc' = "idle"
      BY <2>1 DEF StopDraining, NoRequest, AskFails, ReceivePart, ReceiveEnd, Failed,
                  IInv, TypeOK, Beginning
    <3> QED BY <1>1, <3>1 DEF GuiQueue
  <2>2. CASE ~(program = "gui" /\ pc' \in {"idle", "wait"})
    BY <1>1, <2>2 DEF GuiQueue
  <2> QED BY <2>1, <2>2
<1> QED BY <1>2, <1>3, <1>4, <1>5 DEF IInv

\* Receive keeps the invariant.
LEMMA ReceiveIInv ==
  ASSUME IInv, Receive
  PROVE  /\ IInv'
         /\ program = "gui" => shown'.for - shown'.of = changes
<1> DEFINE A == [to : 0..asked, form : AnswerForm]
<1>1. /\ pc = "wait" /\ answers # << >> /\ answers' = Tail(answers)
      /\ UNCHANGED <<program, asked, changes, requests, request, claimed, server>>
  BY DEF Receive, Take
<1>2. PICK rendered \in Renders(Head(answers)) :
        /\ shown' = [for |-> request.n, of |-> Head(answers).to, failed |-> ~rendered]
        /\ pc' = IF rendered THEN Home ELSE Failed
  BY DEF Receive, Take
<1>3. /\ Tail(answers) \in Seq(A) /\ Len(Tail(answers)) = Len(answers) - 1
      /\ Len(answers) \in Nat /\ Len(answers) >= 1
      /\ Head(answers) = answers[1] /\ answers[1] \in A
      /\ \A k \in 1..(Len(answers) - 1) : Tail(answers)[k] = answers[k + 1]
  <2>1. answers \in Seq(A) /\ answers # << >> /\ answers' = Tail(answers)
    BY <1>1 DEF IInv, TypeOK, AnswerForm
  <2> HIDE DEF A
  <2> QED BY ONLY <2>1, TailFacts
<1>f. PICK failed : failed = ~rendered
  OBVIOUS
<1>4. failed \in BOOLEAN
  BY <1>f
<1>5. shown' = [for |-> request.n, of |-> answers[1].to, failed |-> failed]
  BY <1>2, <1>3, <1>f
<1>6. shown'.for = request.n /\ shown'.of = answers[1].to
  BY <1>5
<1>7. pc' = (IF program = "gui" THEN "idle" ELSE "drain") \/ pc' = (IF program = "gui" THEN "idle" ELSE "ended")
  BY <1>1, <1>2 DEF Home, Failed
<1>8. shown' \in [for : 0..asked, of : 0..asked, failed : BOOLEAN]
  <2>1. request.n \in 0..asked /\ answers[1].to \in 0..asked
    BY <1>3 DEF IInv, TypeOK
  <2> QED BY <1>4, <1>5, <2>1
<1>9. TypeOK'
  <2>1. answers' \in Seq([to : 0..asked, form : AnswerForm])
    BY <1>1, <1>3
  <2> HIDE DEF A
  <2> QED BY <1>1, <1>7, <1>8, <2>1 DEF IInv, TypeOK, AnswerForm
<1>10. CliQueue'
  BY <1>1, <1>3, <1>6, <1>7 DEF IInv, CliQueue
<1>11. Beginning'
  BY <1>1, <1>7 DEF IInv, Beginning
<1>12. asked \in Int /\ changes \in Int /\ Len(requests) \in Nat
  BY FrontEndAssumption DEF IInv, TypeOK, FrontEndAssumption
<1>13. ASSUME program = "gui"
       PROVE  /\ shown'.for - shown'.of = changes
              /\ \A k \in 1..Len(answers') : answers'[k].to = asked - changes + k
              /\ \A k \in 1..Len(requests) : requests[k].n = asked - changes + Len(answers') + k
              /\ server = "up" => Len(answers') + Len(requests) = changes
  <2>1. /\ \A k \in 1..Len(answers) : answers[k].to = asked - (changes + 1) + k
        /\ \A k \in 1..Len(requests) : requests[k].n = asked - (changes + 1) + Len(answers) + k
        /\ server = "up" => Len(answers) + Len(requests) = changes + 1
        /\ request.n = asked
    BY <1>1, <1>13 DEF IInv, GuiQueue, Lag
  <2>2. Len(answers') = Len(answers) - 1
    BY <1>1, <1>3
  <2>3. shown'.for - shown'.of = changes
    BY <1>3, <1>6, <1>12, <2>1
  <2>4. \A k \in 1..Len(answers') : answers'[k].to = asked - changes + k
    <3> TAKE k \in 1..Len(answers')
    <3>1. k + 1 \in 1..Len(answers) /\ answers'[k] = answers[k + 1]
      BY <1>1, <1>3, <2>2
    <3>2. answers[k + 1].to = asked - (changes + 1) + (k + 1)
      BY <2>1, <3>1
    <3> QED BY <1>12, <3>1, <3>2
  <2> QED BY <1>3, <1>12, <2>1, <2>2, <2>3, <2>4
<1>14. GuiQueue'
  BY <1>1, <1>7, <1>13 DEF GuiQueue, Lag
<1> QED BY <1>9, <1>10, <1>11, <1>13, <1>14 DEF IInv

\* Ask keeps the invariant.
LEMMA AskIInv ==
  ASSUME IInv, NEW kind \in Changes \cup Gets, Ask(kind)
  PROVE  IInv'
<1> DEFINE this == [n |-> asked + 1, kind |-> kind]
           R == [n : 1..(asked + 1), kind : Changes \cup Gets]
           A == [to : 0..(asked + 1), form : AnswerForm]
<1>1. /\ asked' = asked + 1 /\ asked < MaxAsked
      /\ changes' = (IF kind \in Changes THEN changes + 1 ELSE changes)
      /\ requests' = (IF server = "up" THEN Append(requests, this) ELSE requests)
      /\ claimed' = (IF program = "gui" /\ kind \in Changes
                       THEN claimed \cup {this} ELSE claimed)
      /\ pc' = (IF Waits(kind) THEN "wait" ELSE Home)
      /\ request' = (IF Waits(kind) THEN this ELSE request)
      /\ pc \in {"input", "idle"}
      /\ UNCHANGED <<program, answers, shown, server>>
  BY DEF Ask
<1>2. asked \in 0..MaxAsked /\ changes \in 0..asked /\ MaxAsked \in Nat
  BY FrontEndAssumption DEF IInv, TypeOK, FrontEndAssumption
<1>3. /\ asked' \in 0..MaxAsked /\ changes' \in 0..asked'
      /\ claimed' \subseteq [n : 1..asked', kind : Changes]
  <2>1. asked' \in 0..MaxAsked /\ changes' \in 0..asked'
    BY <1>1, <1>2 DEF IInv, TypeOK
  <2>2. [n : 1..asked, kind : Changes] \subseteq [n : 1..asked', kind : Changes]
    BY <1>1, <1>2
  <2>3. kind \in Changes => this \in [n : 1..asked', kind : Changes]
    BY <1>1, <1>2
  <2>4. claimed \subseteq [n : 1..asked, kind : Changes]
    BY DEF IInv, TypeOK
  <2> HIDE DEF this
  <2> QED BY <1>1, <2>1, <2>2, <2>3, <2>4
<1>4. requests \in Seq(R) /\ answers \in Seq(A) /\ this \in R
  <2>1. /\ [n : 1..asked, kind : Changes \cup Gets] \subseteq R
        /\ [to : 0..asked, form : AnswerForm] \subseteq A
    BY <1>2
  <2>2. /\ requests \in Seq([n : 1..asked, kind : Changes \cup Gets])
        /\ answers \in Seq([to : 0..asked, form : AnswerForm])
    BY DEF IInv, TypeOK, AnswerForm
  <2>3. this \in R
    BY <1>2
  <2> HIDE DEF R, A
  <2> QED BY <2>1, <2>2, <2>3, WiderSeq
<1>5. /\ Append(requests, this) \in Seq(R)
      /\ Len(Append(requests, this)) = Len(requests) + 1 /\ Len(requests) \in Nat
      /\ \A k \in 1..Len(requests) : Append(requests, this)[k] = requests[k]
      /\ Append(requests, this)[Len(requests) + 1] = this
  <2> HIDE DEF R, this
  <2> QED BY <1>4, AppendFacts
<1>6. Len(answers) \in Nat
  BY <1>4
<1>7. Waits(kind) => program # "chat" /\ kind \in Gets /\ kind \notin Changes
  BY DEF Waits, Gets, Changes
<1>8. TypeOK'
  <2>1. requests' \in Seq([n : 1..asked', kind : Changes \cup Gets])
    BY <1>1, <1>4, <1>5
  <2>2. answers' \in Seq([to : 0..asked', form : AnswerForm])
    BY <1>1, <1>4
  <2>3. request' \in [n : 0..asked', kind : Gets \cup {"none"}]
    <3>1. request \in [n : 0..asked, kind : Gets \cup {"none"}]
      BY DEF IInv, TypeOK
    <3>2. CASE Waits(kind)
      BY <1>1, <1>2, <1>7, <3>2
    <3>3. CASE ~Waits(kind)
      BY <1>1, <1>2, <3>1, <3>3
    <3> QED BY <3>2, <3>3
  <2>4. shown' \in [for : 0..asked', of : 0..asked', failed : BOOLEAN]
    <3>1. shown \in [for : 0..asked, of : 0..asked, failed : BOOLEAN]
      BY DEF IInv, TypeOK
    <3>2. 0..asked \subseteq 0..asked'
      BY <1>1, <1>2
    <3> QED BY <1>1, <3>1, <3>2
  <2>5. /\ program' \in Programs /\ server' \in {"up", "gone"}
        /\ program \in {"cli", "gui", "chat"}
    BY <1>1, FrontEndAssumption DEF IInv, TypeOK, FrontEndAssumption
  <2>6. pc' \in {"hello", "ended"}
          \cup (IF program' = "gui" THEN {"idle", "wait", "spin"}
                ELSE IF program' = "cli" THEN {"drain", "input", "wait", "spin"}
                ELSE {"drain", "input"})
    BY <1>1, <1>7, <2>5 DEF Home
  <2> HIDE DEF this, R, A
  <2> QED BY <1>3, <2>1, <2>2, <2>3, <2>4, <2>5, <2>6 DEF TypeOK, AnswerForm
<1>9. \A k \in 1..Len(requests') :
        \/ k \in 1..Len(requests) /\ requests'[k] = requests[k]
        \/ server = "up" /\ k = Len(requests) + 1 /\ requests'[k].n = asked + 1
  <2>1. CASE server = "up"
    <3> TAKE k \in 1..Len(requests')
    <3>1. requests' = Append(requests, this)
      BY <1>1, <2>1
    <3>2. k \in 1..(Len(requests) + 1)
      BY <1>5, <3>1
    <3>3. CASE k \in 1..Len(requests)
      BY <1>5, <3>1, <3>3
    <3>4. CASE k = Len(requests) + 1
      BY <1>5, <2>1, <3>1, <3>4
    <3> QED BY <1>5, <3>2, <3>3, <3>4
  <2>2. CASE server # "up"
    BY <1>1, <2>2
  <2> QED BY <2>1, <2>2
<1>10. pc' # "hello" /\ (program = "gui" => pc = "idle")
  <2>1. program = "gui" => pc # "input"
    BY DEF IInv, TypeOK
  <2> QED BY <1>1, <2>1 DEF Home
<1>11. Beginning'
  BY <1>1, <1>10 DEF IInv, Beginning
<1>12. CliQueue'
  <2>1. CASE program = "cli" /\ Prompt
    <3>1. pc = "input" /\ answers = << >> /\ requests = << >> /\ Len(requests) = 0
      BY <1>1, <2>1 DEF IInv, TypeOK, CliQueue
    <3>2. Waits(kind) => request'.n = asked + 1
      BY <1>1
    <3>3. \A k \in 1..Len(requests') : requests'[k].n = asked + 1
      BY <1>9, <3>1
    <3>4. \A k \in 1..Len(answers') : FALSE
      BY <1>1, <3>1
    <3>5. pc' # "input" /\ (pc' = "wait" => Waits(kind))
      BY <1>1 DEF Home
    <3> QED BY <1>1, <3>2, <3>3, <3>4, <3>5, <2>1 DEF IInv, CliQueue
  <2>2. CASE ~(program = "cli" /\ Prompt)
    BY <1>1, <2>2 DEF CliQueue
  <2> QED BY <2>1, <2>2
<1>13. GuiQueue'
  <2>1. CASE program = "gui"
    <3>1. /\ \A k \in 1..Len(answers) : answers[k].to = asked - changes + k
          /\ \A k \in 1..Len(requests) : requests[k].n = asked - changes + Len(answers) + k
          /\ server = "up" => Len(answers) + Len(requests) = changes
      BY <1>10, <2>1 DEF IInv, GuiQueue, Lag
    <3>2. asked' - Lag' = asked - changes /\ Lag' = changes + 1
      <4>1. CASE Waits(kind)
        BY <1>1, <1>2, <1>7, <4>1 DEF Lag
      <4>2. CASE ~Waits(kind)
        <5>1. kind \in Changes /\ pc' # "wait"
          BY <1>1, <2>1, <4>2 DEF Waits, Home
        <5> QED BY <1>1, <1>2, <5>1 DEF Lag
      <4> QED BY <4>1, <4>2
    <3>3. pc' = "wait" => request'.n = asked'
      BY <1>1, <2>1 DEF Home
    <3>4. server' = "up" => Len(answers') + Len(requests') = Lag'
      BY <1>1, <1>2, <1>5, <1>6, <3>1, <3>2
    <3>5. \A k \in 1..Len(requests') : requests'[k].n = asked' - Lag' + Len(answers') + k
      <4> TAKE k \in 1..Len(requests')
      <4>1. CASE k \in 1..Len(requests) /\ requests'[k] = requests[k]
        BY <1>1, <3>1, <3>2, <4>1
      <4>2. CASE server = "up" /\ k = Len(requests) + 1 /\ requests'[k].n = asked + 1
        <5>1. /\ asked' - Lag' = asked - changes /\ Len(answers') = Len(answers)
              /\ Len(answers) + Len(requests) = changes
              /\ k = Len(requests) + 1 /\ requests'[k].n = asked + 1
          BY <1>1, <3>1, <3>2, <4>2
        <5>2. /\ asked \in Int /\ changes \in Int
              /\ Len(answers) \in Int /\ Len(requests) \in Int
          BY <1>2, <1>5, <1>6
        <5>3. asked + 1 = asked - changes + Len(answers) + (Len(requests) + 1)
          BY ONLY <5>1, <5>2
        <5> QED BY <5>1, <5>3
      <4> QED BY <1>9, <4>1, <4>2
    <3>6. \A k \in 1..Len(answers') : answers'[k].to = asked' - Lag' + k
      BY <1>1, <3>1, <3>2
    <3> QED BY <3>3, <3>4, <3>5, <3>6 DEF GuiQueue
  <2>2. CASE program # "gui"
    BY <1>1, <2>2 DEF GuiQueue
  <2> QED BY <2>1, <2>2
<1> QED BY <1>8, <1>11, <1>12, <1>13 DEF IInv

-----------------------------------------------------------------------------
(* The server *)

\* An answer of the server keeps the invariant.
LEMMA AnswerIInv ==
  ASSUME IInv, Answer
  PROVE  IInv'
<1> DEFINE A == [to : 0..asked, form : AnswerForm]
           R == [n : 1..asked, kind : Changes \cup Gets]
<1>1. /\ server = "up" /\ requests # << >> /\ requests' = Tail(requests)
      /\ UNCHANGED <<program, pc, asked, changes, request, shown, claimed, server>>
  BY DEF Answer
<1>2. requests \in Seq(R) /\ answers \in Seq(A)
  BY DEF IInv, TypeOK, AnswerForm
<1>3. /\ Tail(requests) \in Seq(R) /\ Len(Tail(requests)) = Len(requests) - 1
      /\ Len(requests) \in Nat /\ Len(requests) >= 1
      /\ Head(requests) = requests[1] /\ requests[1] \in R
      /\ \A k \in 1..(Len(requests) - 1) : Tail(requests)[k] = requests[k + 1]
  <2> HIDE DEF R
  <2> QED BY <1>1, <1>2, TailFacts
<1> PICK form \in AnswerForm : answers' = Append(answers, [to |-> requests[1].n, form |-> form])
  BY <1>3, FormsAreForms DEF Answer
<1>e. PICK e : e = [to |-> requests[1].n, form |-> form]
  OBVIOUS
<1>4. e \in A /\ e.to = requests[1].n
  <2>1. requests[1].n \in 1..asked /\ asked \in Nat
    BY <1>3, FrontEndAssumption DEF IInv, TypeOK, FrontEndAssumption
  <2> QED BY <1>e, <2>1
<1>5. /\ answers' \in Seq(A) /\ Len(answers') = Len(answers) + 1 /\ Len(answers) \in Nat
      /\ \A k \in 1..Len(answers) : answers'[k] = answers[k]
      /\ answers'[Len(answers) + 1] = e
  <2>1. answers' = Append(answers, e)
    BY <1>e
  <2> HIDE DEF A
  <2> QED BY ONLY <1>2, <1>4, <2>1, AppendFacts
<1>6. TypeOK'
  <2>1. /\ requests' \in Seq([n : 1..asked', kind : Changes \cup Gets])
        /\ answers' \in Seq([to : 0..asked', form : AnswerForm])
    BY <1>1, <1>3, <1>5
  <2> HIDE DEF A, R
  <2> QED BY <1>1, <2>1 DEF IInv, TypeOK, AnswerForm
<1>7. \A k \in 1..Len(answers') : \/ k \in 1..Len(answers) /\ answers'[k] = answers[k]
                                  \/ k = Len(answers) + 1 /\ answers'[k].to = requests[1].n
  BY <1>4, <1>5
<1>8. \A k \in 1..Len(requests') : k + 1 \in 1..Len(requests) /\ requests'[k] = requests[k + 1]
  BY <1>1, <1>3
<1>9. 1 \in 1..Len(requests) /\ Len(requests') = Len(requests) - 1
  BY <1>1, <1>3
<1>10. Beginning'
  BY <1>1 DEF IInv, Beginning
<1>11. CliQueue'
  <2>1. CASE program = "cli" /\ Prompt
    BY <1>1, <1>7, <1>8, <1>9, <2>1 DEF IInv, CliQueue
  <2>2. CASE ~(program = "cli" /\ Prompt)
    BY <1>1, <2>2 DEF CliQueue
  <2> QED BY <2>1, <2>2
<1>12. GuiQueue'
  <2>1. CASE program = "gui" /\ pc \in {"idle", "wait"}
    <3>1. /\ \A k \in 1..Len(answers) : answers[k].to = asked - Lag + k
          /\ \A k \in 1..Len(requests) : requests[k].n = asked - Lag + Len(answers) + k
          /\ Len(answers) + Len(requests) = Lag
          /\ pc = "wait" => request.n = asked
      BY <1>1, <2>1 DEF IInv, GuiQueue
    <3>2. Lag' = Lag /\ Lag \in Int /\ asked \in Int
      BY <1>1, FrontEndAssumption DEF Lag, IInv, TypeOK, FrontEndAssumption
    <3>3. \A k \in 1..Len(answers') : answers'[k].to = asked' - Lag' + k
      <4> TAKE k \in 1..Len(answers')
      <4>1. CASE k \in 1..Len(answers) /\ answers'[k] = answers[k]
        BY <1>1, <3>1, <3>2, <4>1
      <4>2. CASE k = Len(answers) + 1 /\ answers'[k].to = requests[1].n
        BY <1>1, <1>5, <1>9, <3>1, <3>2, <4>2
      <4> QED BY <1>7, <4>1, <4>2
    <3>4. \A k \in 1..Len(requests') : requests'[k].n = asked' - Lag' + Len(answers') + k
      <4> TAKE k \in 1..Len(requests')
      <4>1. k + 1 \in 1..Len(requests) /\ requests'[k] = requests[k + 1] /\ k \in Int
        BY <1>8
      <4>2. requests[k + 1].n = asked - Lag + Len(answers) + (k + 1)
        BY <3>1, <4>1
      <4> QED BY <1>1, <1>5, <3>2, <4>1, <4>2
    <3>5. Len(answers') + Len(requests') = Lag'
      <4>1. /\ Len(answers') = Len(answers) + 1 /\ Len(answers) \in Nat
            /\ Len(requests') = Len(requests) - 1 /\ Len(requests) \in Nat
            /\ Len(answers) + Len(requests) = Lag /\ Lag' = Lag
        BY <1>3, <1>5, <1>9, <3>1, <3>2
      <4> QED BY ONLY <4>1
    <3> QED BY <1>1, <3>1, <3>3, <3>4, <3>5 DEF GuiQueue
  <2>2. CASE ~(program = "gui" /\ pc \in {"idle", "wait"})
    BY <1>1, <2>2 DEF GuiQueue
  <2> QED BY <2>1, <2>2
<1> QED BY <1>6, <1>10, <1>11, <1>12 DEF IInv

\* The end of the server keeps the invariant.
LEMMA ServerEndsIInv ==
  ASSUME IInv, ServerEnds
  PROVE  IInv'
<1>1. /\ server = "up" /\ server' = "gone" /\ requests' = << >>
      /\ answers' = answers \/ answers' = << >>
      /\ UNCHANGED <<program, pc, asked, changes, request, shown, claimed>>
  BY DEF ServerEnds
<1>2. << >> \in Seq([n : 1..asked, kind : Changes \cup Gets])
  OBVIOUS
<1>3. << >> \in Seq([to : 0..asked, form : AnswerForm]) /\ Len(<< >>) = 0
  OBVIOUS
<1>4. TypeOK'
  BY <1>1, <1>2, <1>3 DEF IInv, TypeOK, AnswerForm
<1>5. \A k \in 1..Len(requests') : FALSE
  BY <1>1
<1>6. answers' = answers \/ \A k \in 1..Len(answers') : FALSE
  BY <1>1
<1>7. GuiQueue'
  BY <1>1, <1>5, <1>6 DEF IInv, GuiQueue, Lag
<1>8. CliQueue' /\ Beginning'
  BY <1>1, <1>5, <1>6, <1>3 DEF IInv, CliQueue, Beginning
<1> QED BY <1>4, <1>7, <1>8 DEF IInv

-----------------------------------------------------------------------------
(* Theorems *)

\* Every step keeps the invariant.
LEMMA NextIInv == IInv /\ [Next]_vars => IInv'
<1> SUFFICES ASSUME IInv, [Next]_vars PROVE IInv'
  OBVIOUS
<1>1. CASE UNCHANGED vars
  BY <1>1 DEF vars, IInv, TypeOK, GuiQueue, Lag, CliQueue, Beginning
<1>2. CASE Run
  BY <1>2, GreetIInv, DrainIInv, MoveIInv, ReceiveIInv DEF Run
<1>3. CASE NoRequest \/ AskFails
  BY <1>3, MoveIInv
<1>4. ASSUME NEW kind \in Changes \cup Gets, Ask(kind)
      PROVE  IInv'
  BY <1>4, AskIInv
<1>5. CASE Answer \/ ServerEnds
  BY <1>5, AnswerIInv, ServerEndsIInv
<1> QED BY <1>1, <1>2, <1>3, <1>4, <1>5 DEF Next

\* It holds in every state.
LEMMA InvariantIInv == Spec => []IInv
<1> QED BY InitIInv, NextIInv, PTL DEF Spec

\* Each program is only where its code can be, and numbers are those of its requests.
THEOREM TypeCorrect == Spec => []TypeOK
<1>1. IInv => TypeOK
  BY DEF IInv
<1> QED BY <1>1, InvariantIInv, PTL

\* If answers come within its second, the command line front end shows its own, for any
\* number of requests (StartChatting drains, hasAnyMessages).
THEOREM OwnAnswerShown == Spec => []ShowsOwnAnswer
<1>1. IInv => ShowsOwnAnswer
  BY DEF IInv, CliQueue, ShowsOwnAnswer
<1> QED BY <1>1, InvariantIInv, PTL

\* The graphical front end falls one answer behind with every change, for any number of
\* requests (the callbacks of the four changes read none).
THEOREM LagExact == Spec => LagsByChanges
<1>1. IInv /\ [Next]_vars =>
        [program = "gui" /\ pc = "wait" /\ shown' # shown =>
           shown'.for - shown'.of = changes]_vars
  <2> SUFFICES ASSUME IInv, [Next]_vars, program = "gui", shown' # shown
               PROVE  shown'.for - shown'.of = changes
    OBVIOUS
  <2>1. Receive
    BY DEF Next, vars, Run, Greet, Drain, StopDraining, ReceivePart, ReceiveEnd, NoRequest,
           Ask, AskFails, Answer, ServerEnds
  <2> QED BY <2>1, ReceiveIInv
<1> QED BY <1>1, InvariantIInv, PTL DEF Spec, LagsByChanges

=============================================================================
