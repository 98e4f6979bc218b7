---------------------------- MODULE SystemProofs ----------------------------
(***************************************************************************)
(* The composition runs the service and the sessions as their modules say, *)
(* and its clients' answers are true, for any clients, requests and bounds.*)
(***************************************************************************)
EXTENDS System, OLAPServiceProofs

IsSeq(s) == \E S : s \in Seq(S)

\* One client's row: as many answers as the session has, each of them true; and a
\* request that waits for this process has seen the list as it is.
RowOK(s, a, in, isLost, list) ==
  /\ IsSeq(a) /\ IsSeq(in) /\ IsSeq(s.inbox)
  /\ Len(in) <= Len(a) /\ Len(s.inbox) = Len(in)
  /\ \A k \in 1..Len(a) : a[k] = [req |-> a[k].req, seen |-> a[k].seen]
  /\ \A k \in 1..Len(in) : \E l \in a[k].seen : Tells(a[k].req, in[k], l)
  /\ \A k \in 1..Len(a) : k > Len(in) => isLost \/ list \in a[k].seen
  /\ s.status = "open" => \A k \in 1..Len(a) : k > Len(in) => a[k].req \in Request
  /\ s.status \in {"open", "waiting", "gone"}
  /\ s.status = "waiting" =>
       Len(a) = 1 /\ Len(in) = 0 /\ a[1].req = NotAMap /\ s = Network!Awaiting
  /\ s.status = "gone" => Len(a) = 0 /\ s = Network!Gone

Rows ==
  /\ session = [c \in Client |-> session[c]]
  /\ asked = [c \in Client |-> asked[c]]
  /\ inbox = [c \in Client |-> inbox[c]]
  /\ \A c \in Client : RowOK(session[c], asked[c], inbox[c], c \in lost, records)

\* Nobody waits for a process that is not there without having lost it.
Lost == ~Running => \A c \in Client : c \in lost \/ session[c] = Network!Gone

Left == left \in Seq(Seq(Request)) /\ \A j \in 1..Len(left) : left[j] # << >>

\* The SAVE being written is the first of its client's requests that wait.
Serving ==
  serving # Nobody =>
    /\ serving \in Client /\ pc = "saving"
    /\ serving \notin lost /\ session[serving].status = "open"
    /\ Len(inbox[serving]) < Len(asked[serving])
    /\ OfType(asked[serving][Len(inbox[serving]) + 1].req, {"SAVE"})

SInv == IInv /\ Rows /\ Lost /\ Left /\ Serving

-----------------------------------------------------------------------------
(* Rows *)

\* A sequence and the one without its first item.
LEMMA SeqFacts ==
  ASSUME NEW s, IsSeq(s)
  PROVE  /\ Len(s) \in Nat
         /\ DOMAIN s = 1..Len(s)
         /\ Len(s) = 0 <=> s = << >>
         /\ s # << >> => /\ IsSeq(Tail(s)) /\ Len(Tail(s)) = Len(s) - 1
                         /\ \A k \in 1..Len(Tail(s)) : Tail(s)[k] = s[k + 1]
                         /\ Head(s) = s[1]
<1> PICK S : s \in Seq(S)
  BY DEF IsSeq
<1>1. s # << >> => Tail(s) \in Seq(S)
  OBVIOUS
<1> QED BY <1>1 DEF IsSeq

\* A sequence and one item more.
LEMMA SeqAppended ==
  ASSUME NEW s, IsSeq(s), NEW e
  PROVE  /\ IsSeq(Append(s, e)) /\ Len(Append(s, e)) = Len(s) + 1
         /\ \A k \in 1..Len(s) : Append(s, e)[k] = s[k]
         /\ Append(s, e)[Len(s) + 1] = e
<1> PICK S : s \in Seq(S)
  BY DEF IsSeq
<1> DEFINE T == S \cup {e}
<1>1. Len(s) \in Nat /\ s \in [1..Len(s) -> S]
  OBVIOUS
<1>2. s \in [1..Len(s) -> T]
  BY <1>1
<1>3. s \in Seq(T) /\ e \in T
  BY <1>1, <1>2
<1> HIDE DEF T
<1>4. Append(s, e) \in Seq(T)
  BY <1>3
<1> QED BY <1>3, <1>4 DEF IsSeq

\* A row of the list has a request and what was seen.
LEMMA EntryParts ==
  ASSUME NEW e, NEW q, NEW n, e = [req |-> q, seen |-> n]
  PROVE  e = [req |-> e.req, seen |-> e.seen]
OBVIOUS

\* A step of the list: what waits sees it.
LEMMA WitnessedRow ==
  ASSUME NEW s, NEW a, NEW in, NEW isLost, NEW list, NEW next, NEW a2,
         RowOK(s, a, in, isLost, list),
         a2 = [k \in DOMAIN a |-> IF k <= Len(in) THEN a[k]
                                  ELSE [a[k] EXCEPT !.seen = @ \cup {next}]]
  PROVE  /\ RowOK(s, a2, in, isLost, next)
         /\ Len(a2) = Len(a)
         /\ \A k \in 1..Len(a) : k > Len(in) => a2[k].req = a[k].req /\ next \in a2[k].seen
<1>1. /\ Len(a) \in Nat /\ Len(in) \in Nat /\ DOMAIN a = 1..Len(a)
      /\ \A k \in 1..Len(a) : a[k] = [req |-> a[k].req, seen |-> a[k].seen]
  BY SeqFacts DEF RowOK
<1>2. ASSUME NEW k \in 1..Len(a), k <= Len(in)
      PROVE  a2[k] = a[k]
  BY <1>1, <1>2
<1>3. ASSUME NEW k \in 1..Len(a), k > Len(in)
      PROVE  a2[k] = [req |-> a[k].req, seen |-> a[k].seen \cup {next}]
  <2>1. a[k] = [req |-> a[k].req, seen |-> a[k].seen]
    BY <1>1
  <2>2. a2[k] = [a[k] EXCEPT !.seen = @ \cup {next}]
    BY <1>1, <1>3
  <2> QED BY <2>1, <2>2
<1>4. IsSeq(a2) /\ Len(a2) = Len(a)
  <2> DEFINE T == {a2[k] : k \in 1..Len(a)}
  <2>1. a2 \in [1..Len(a) -> T]
    BY <1>1
  <2>2. Len(a) \in Nat
    BY <1>1
  <2> HIDE DEF T
  <2>3. a2 \in Seq(T) /\ Len(a2) = Len(a)
    BY ONLY <2>1, <2>2
  <2> QED BY <2>3 DEF IsSeq
<1>5. \A k \in 1..Len(a) : a2[k] = [req |-> a2[k].req, seen |-> a2[k].seen]
  <2> TAKE k \in 1..Len(a)
  <2>1. CASE k <= Len(in)
    BY <1>1, <1>2, <2>1
  <2>2. CASE k > Len(in)
    <3> PICK e : e = a2[k]
      OBVIOUS
    <3> PICK q, n : q = a[k].req /\ n = a[k].seen \cup {next}
      OBVIOUS
    <3>1. e = [req |-> q, seen |-> n]
      BY <1>3, <2>2
    <3>2. e = [req |-> e.req, seen |-> e.seen]
      BY ONLY <3>1, EntryParts
    <3> QED BY <3>2
  <2> QED BY <1>1, <2>1, <2>2
<1>6. \A k \in 1..Len(a) : k > Len(in) => a2[k].req = a[k].req /\ next \in a2[k].seen
  BY <1>3
<1>7. \A k \in 1..Len(in) : k \in 1..Len(a) /\ a2[k] = a[k]
  BY <1>1, <1>2 DEF RowOK
<1>8. \A k \in 1..Len(in) : \E l \in a2[k].seen : Tells(a2[k].req, in[k], l)
  BY <1>7 DEF RowOK
<1>9. s.status = "waiting" => Len(a2) = 1 /\ Len(in) = 0 /\ a2[1].req = NotAMap
  BY <1>1, <1>4, <1>6 DEF RowOK
<1> QED BY <1>1, <1>4, <1>5, <1>6, <1>8, <1>9 DEF RowOK

\* The first request that waits is answered, by something true of the list.
LEMMA AnsweredRow ==
  ASSUME NEW s, NEW a, NEW in, NEW isLost, NEW list, NEW answer, NEW t, NEW next,
         RowOK(s, a, in, isLost, list), ~isLost, Len(in) < Len(a),
         Tells(a[Len(in) + 1].req, answer, list),
         s.status = "open" \/ Len(a) = 1,
         t.status = "open", IsSeq(t.inbox), Len(t.inbox) = Len(s.inbox) + 1,
         IsSeq(next), Len(next) = Len(in) + 1, next[Len(in) + 1] = answer,
         \A k \in 1..Len(in) : next[k] = in[k]
  PROVE  RowOK(t, a, next, isLost, list)
<1>1. /\ IsSeq(a) /\ IsSeq(in) /\ IsSeq(s.inbox)
      /\ Len(a) \in Nat /\ Len(in) \in Nat /\ Len(s.inbox) = Len(in)
  BY SeqFacts DEF RowOK
<1>2. /\ IsSeq(next) /\ Len(next) = Len(in) + 1
      /\ \A k \in 1..Len(in) : next[k] = in[k]
      /\ next[Len(in) + 1] = answer
  OBVIOUS
<1>3. IsSeq(t.inbox) /\ Len(t.inbox) = Len(in) + 1
  BY <1>1
<1>4. \A k \in 1..(Len(in) + 1) : \E l \in a[k].seen : Tells(a[k].req, next[k], l)
  <2> TAKE k \in 1..(Len(in) + 1)
  <2>1. CASE k = Len(in) + 1
    <3>1. list \in a[k].seen
      BY <1>1, <2>1 DEF RowOK
    <3> QED BY <1>2, <2>1, <3>1
  <2>2. CASE k # Len(in) + 1
    <3>1. k \in 1..Len(in)
      BY <1>1, <2>2
    <3> QED BY <1>2, <3>1 DEF RowOK
  <2> QED BY <2>1, <2>2
<1>5. \A k \in 1..Len(a) : k > Len(in) + 1 => a[k].req \in Request /\ list \in a[k].seen
  BY <1>1 DEF RowOK
<1> QED BY <1>1, <1>2, <1>3, <1>4, <1>5 DEF RowOK

\* An answer is read: the rows move up together.
LEMMA ReadRow ==
  ASSUME NEW s, NEW a, NEW in, NEW isLost, NEW list, NEW t,
         RowOK(s, a, in, isLost, list), s.status = "open", s.inbox # << >>,
         t.status = "open", t.inbox = Tail(s.inbox)
  PROVE  RowOK(t, Tail(a), Tail(in), isLost, list)
<1>1. /\ IsSeq(a) /\ IsSeq(in) /\ IsSeq(s.inbox)
      /\ Len(a) \in Nat /\ Len(in) \in Nat /\ Len(s.inbox) = Len(in) /\ Len(in) <= Len(a)
  BY SeqFacts DEF RowOK
<1>2. Len(in) > 0 /\ in # << >> /\ a # << >>
  BY <1>1, SeqFacts
<1>3. /\ IsSeq(Tail(a)) /\ Len(Tail(a)) = Len(a) - 1
      /\ \A k \in 1..Len(Tail(a)) : Tail(a)[k] = a[k + 1]
  BY <1>1, <1>2, SeqFacts
<1>4. /\ IsSeq(Tail(in)) /\ Len(Tail(in)) = Len(in) - 1
      /\ \A k \in 1..Len(Tail(in)) : Tail(in)[k] = in[k + 1]
  BY <1>1, <1>2, SeqFacts
<1>5. IsSeq(t.inbox) /\ Len(t.inbox) = Len(in) - 1
  BY <1>1, SeqFacts
<1>6. \A k \in 1..Len(Tail(a)) :
        /\ k + 1 \in 1..Len(a) /\ Tail(a)[k] = a[k + 1]
        /\ k > Len(Tail(in)) => k + 1 > Len(in)
  BY <1>1, <1>3, <1>4
<1>7. \A k \in 1..Len(Tail(in)) :
        /\ k + 1 \in 1..Len(in) /\ Tail(in)[k] = in[k + 1]
        /\ k \in 1..Len(Tail(a)) /\ Tail(a)[k] = a[k + 1]
  BY <1>1, <1>3, <1>4
<1>8. \A k \in 1..Len(Tail(in)) :
        \E l \in Tail(a)[k].seen : Tells(Tail(a)[k].req, Tail(in)[k], l)
  BY <1>7 DEF RowOK
<1>9. \A k \in 1..Len(Tail(a)) : Tail(a)[k] = [req |-> Tail(a)[k].req, seen |-> Tail(a)[k].seen]
  BY <1>6 DEF RowOK
<1>10. \A k \in 1..Len(Tail(a)) : k > Len(Tail(in)) =>
         Tail(a)[k].req \in Request /\ (isLost \/ list \in Tail(a)[k].seen)
  BY <1>6 DEF RowOK
<1> QED BY <1>1, <1>3, <1>4, <1>5, <1>8, <1>9, <1>10 DEF RowOK

\* A request is made, which sees the list as it is.
LEMMA AskedRow ==
  ASSUME NEW s, NEW a, NEW in, NEW isLost, NEW list, NEW t, NEW req \in Request,
         RowOK(s, a, in, isLost, list), s.status = "open",
         t.status = "open", t.inbox = s.inbox
  PROVE  RowOK(t, Append(a, [req |-> req, seen |-> {list}]), in, isLost, list)
<1> PICK e : e = [req |-> req, seen |-> {list}]
  OBVIOUS
<1>1. /\ IsSeq(a) /\ IsSeq(in) /\ IsSeq(s.inbox) /\ IsSeq(t.inbox)
      /\ Len(a) \in Nat /\ Len(in) \in Nat /\ Len(t.inbox) = Len(in) /\ Len(in) <= Len(a)
  BY SeqFacts DEF RowOK
<1>2. /\ IsSeq(Append(a, e)) /\ Len(Append(a, e)) = Len(a) + 1
      /\ \A k \in 1..Len(a) : Append(a, e)[k] = a[k]
      /\ Append(a, e)[Len(a) + 1] = e
  BY <1>1, SeqAppended
<1>3. \A k \in 1..(Len(a) + 1) : \/ k \in 1..Len(a) /\ Append(a, e)[k] = a[k]
                                 \/ Append(a, e)[k] = e
  BY <1>1, <1>2
<1>4. e.req = req /\ e.seen = {list} /\ e = [req |-> e.req, seen |-> e.seen]
  OBVIOUS
<1>5. \A k \in 1..(Len(a) + 1) :
        Append(a, e)[k] = [req |-> Append(a, e)[k].req, seen |-> Append(a, e)[k].seen]
  <2> TAKE k \in 1..(Len(a) + 1)
  <2>1. CASE k \in 1..Len(a) /\ Append(a, e)[k] = a[k]
    <3>1. a[k] = [req |-> a[k].req, seen |-> a[k].seen]
      BY <2>1 DEF RowOK
    <3> QED BY ONLY <2>1, <3>1
  <2>2. CASE Append(a, e)[k] = e
    BY ONLY <1>4, <2>2
  <2> QED BY <1>3, <2>1, <2>2
<1>6. \A k \in 1..Len(in) :
        \E l \in Append(a, e)[k].seen : Tells(Append(a, e)[k].req, in[k], l)
  BY <1>1, <1>2 DEF RowOK
<1>7. \A k \in 1..(Len(a) + 1) : k > Len(in) =>
        Append(a, e)[k].req \in Request /\ (isLost \/ list \in Append(a, e)[k].seen)
  BY <1>3, <1>4 DEF RowOK
<1> QED BY <1>1, <1>2, <1>5, <1>6, <1>7 DEF RowOK

-----------------------------------------------------------------------------
(* Clients *)

\* A step that changes one client's row only.
LEMMA OneRow ==
  ASSUME Rows, NEW c \in Client, records' = records,
         NEW s, NEW a, NEW in,
         session' = [session EXCEPT ![c] = s],
         asked' = [asked EXCEPT ![c] = a],
         inbox' = [inbox EXCEPT ![c] = in],
         \A d \in Client : d # c => (d \in lost' <=> d \in lost),
         RowOK(s, a, in, c \in lost', records)
  PROVE  Rows'
<1>1. /\ session' = [d \in Client |-> session'[d]]
      /\ asked' = [d \in Client |-> asked'[d]]
      /\ inbox' = [d \in Client |-> inbox'[d]]
  BY DEF Rows
<1>2. ASSUME NEW d \in Client
      PROVE  RowOK(session'[d], asked'[d], inbox'[d], d \in lost', records')
  <2>1. CASE d = c
    <3>1. session'[d] = s /\ asked'[d] = a /\ inbox'[d] = in
      BY <2>1 DEF Rows
    <3> QED BY <2>1, <3>1
  <2>2. CASE d # c
    <3>1. session'[d] = session[d] /\ asked'[d] = asked[d] /\ inbox'[d] = inbox[d]
      BY <2>2 DEF Rows
    <3>2. (d \in lost') = (d \in lost)
      BY <2>2
    <3>3. RowOK(session[d], asked[d], inbox[d], d \in lost, records)
      BY DEF Rows
    <3> QED BY <3>1, <3>2, <3>3
  <2> QED BY <2>1, <2>2
<1> QED BY <1>1, <1>2 DEF Rows

\* To put in a value that is there changes nothing.
LEMMA Unchanged ==
  ASSUME NEW f, f = [d \in Client |-> f[d]], NEW c
  PROVE  f = [f EXCEPT ![c] = f[c]]
OBVIOUS

\* The status of a session that is gone, waiting or open.
LEMMA Statuses ==
  /\ Network!Gone.status = "gone" /\ Network!Gone.inbox = << >>
  /\ Network!Awaiting.status = "waiting" /\ Network!Awaiting.inbox = << >>
  /\ \A x, y, z : /\ Network!Opened(x, y, z).status = "open"
                  /\ Network!Opened(x, y, z).inbox = z
BY DEF Network!Gone, Network!Awaiting, Network!Opened

\* The empty sequence is one.
LEMMA NothingIsSeq ==
  ASSUME NEW s, s = << >>
  PROVE  IsSeq(s) /\ Len(s) = 0
<1>1. PICK S : S = Nat
  OBVIOUS
<1>2. s \in Seq(S)
  OBVIOUS
<1>3. \E T : s \in Seq(T)
  BY <1>2
<1>4. Len(s) = 0
  OBVIOUS
<1> QED BY <1>3, <1>4 DEF IsSeq

\* Connect keeps the rows.
LEMMA ConnectRows ==
  ASSUME SInv, NEW c \in Client, Connect(c)
  PROVE  (Rows /\ Lost /\ Left /\ Serving)'
<1> PICK e : e = Entry(NotAMap)
  OBVIOUS
<1>1. e.req = NotAMap /\ e.seen = {records} /\ e = [req |-> e.req, seen |-> e.seen]
  BY DEF Entry
<1>2. session[c] = Network!Gone /\ session[c].status = "gone"
  BY Statuses DEF Connect, Network!Connect
<1>3. IsSeq(inbox[c]) /\ Len(inbox[c]) = 0
  BY <1>2, Statuses, NothingIsSeq DEF SInv, Rows, RowOK
<1>4. IsSeq(<<e>>) /\ Len(<<e>>) = 1 /\ <<e>>[1] = e
  BY <<e>> \in Seq({e}) DEF IsSeq
<1>5. RowOK(Network!Awaiting, <<e>>, inbox[c], c \in lost, records)
  BY <1>1, <1>3, <1>4, Statuses, NothingIsSeq DEF RowOK
<1>6. /\ session' = [session EXCEPT ![c] = Network!Awaiting]
      /\ asked' = [asked EXCEPT ![c] = <<e>>]
      /\ inbox' = [inbox EXCEPT ![c] = inbox[c]]
      /\ UNCHANGED <<vars, lost, left, serving>> /\ Running
  BY Unchanged DEF Connect, Network!Connect, Network!Becomes, SInv, Rows, Entry
<1>7. Rows'
  BY <1>5, <1>6, OneRow DEF SInv, vars
<1>8. Running'
  BY <1>6 DEF Running, vars
<1>9. serving # c
  BY <1>2, SystemAssumption DEF SInv, Serving, SystemAssumption
<1>10. \A d \in Client : d # c => session'[d] = session[d] /\ asked'[d] = asked[d]
  BY <1>6 DEF SInv, Rows
<1>11. Serving'
  BY <1>6, <1>9, <1>10 DEF SInv, Serving, vars, Connect
<1> QED BY <1>6, <1>7, <1>8, <1>11 DEF Lost, SInv, Left, vars

\* Ask keeps the rows.
LEMMA AskRows ==
  ASSUME SInv, NEW c \in Client, NEW req \in Request, Ask(c, req)
  PROVE  (Rows /\ Lost /\ Left /\ Serving)'
<1> PICK t : t = Network!Opened(session[c].asked + 1, session[c].answered, session[c].inbox)
  OBVIOUS
<1>1. session[c].status = "open" /\ t.status = "open" /\ t.inbox = session[c].inbox
  BY Statuses DEF Ask, Network!Ask
<1>2. /\ session' = [session EXCEPT ![c] = t]
      /\ asked' = [asked EXCEPT ![c] = Append(asked[c], [req |-> req, seen |-> {records}])]
      /\ inbox' = [inbox EXCEPT ![c] = inbox[c]]
      /\ UNCHANGED <<vars, lost, left, serving>> /\ inbox' = inbox
  BY Unchanged DEF Ask, Network!Ask, Network!Becomes, SInv, Rows, Entry
<1>3. RowOK(t, Append(asked[c], [req |-> req, seen |-> {records}]), inbox[c],
            c \in lost, records)
  BY <1>1, AskedRow DEF SInv, Rows
<1>4. Rows'
  BY <1>2, <1>3, OneRow DEF SInv, vars
<1>5. \A d \in Client : d # c => session'[d] = session[d] /\ asked'[d] = asked[d]
  BY <1>2 DEF SInv, Rows
<1>6. session'[c] = t
  BY <1>2 DEF SInv, Rows
<1>7. Lost'
  <2>1. session[c] # Network!Gone
    BY <1>1, Statuses
  <2>2. ~Running => c \in lost
    BY <2>1 DEF SInv, Lost
  <2> QED BY <1>2, <1>5, <2>2 DEF SInv, Lost, Running, vars
<1>8. Serving'
  <2>1. CASE serving = c
    <3>1. IsSeq(asked[c]) /\ Len(asked[c]) \in Nat /\ Len(inbox[c]) \in Nat
      BY SeqFacts DEF SInv, Rows, RowOK
    <3> PICK e : e = [req |-> req, seen |-> {records}]
      OBVIOUS
    <3>2. asked'[c] = Append(asked[c], e)
      BY <1>2 DEF SInv, Rows
    <3>3. /\ Len(asked'[c]) = Len(asked[c]) + 1
          /\ \A k \in 1..Len(asked[c]) : asked'[c][k] = asked[c][k]
      BY <3>1, <3>2, SeqAppended
    <3>4. Len(inbox[c]) < Len(asked[c]) /\ OfType(asked[c][Len(inbox[c]) + 1].req, {"SAVE"})
      BY <2>1, SystemAssumption DEF SInv, Serving, SystemAssumption
    <3>5. asked'[c][Len(inbox[c]) + 1] = asked[c][Len(inbox[c]) + 1]
      <4>1. Len(inbox[c]) + 1 \in 1..Len(asked[c])
        BY <3>1, <3>4
      <4> QED BY <3>3, <4>1
    <3> QED BY <1>1, <1>2, <1>6, <2>1, <3>1, <3>3, <3>4, <3>5 DEF SInv, Serving, vars
  <2>2. CASE serving # c
    BY <1>2, <1>5, <2>2 DEF SInv, Serving, vars
  <2> QED BY <2>1, <2>2
<1> QED BY <1>2, <1>4, <1>7, <1>8 DEF SInv, Left, vars

\* Read keeps the rows.
LEMMA ReadRows ==
  ASSUME SInv, NEW c \in Client, Read(c)
  PROVE  (Rows /\ Lost /\ Left /\ Serving)'
<1> PICK t : t = Network!Opened(session[c].asked, session[c].answered, Tail(session[c].inbox))
  OBVIOUS
<1>1. /\ session[c].status = "open" /\ session[c].inbox # << >>
      /\ t.status = "open" /\ t.inbox = Tail(session[c].inbox)
  BY Statuses DEF Read, Network!Read
<1>2. /\ session' = [session EXCEPT ![c] = t]
      /\ asked' = [asked EXCEPT ![c] = Tail(asked[c])]
      /\ inbox' = [inbox EXCEPT ![c] = Tail(inbox[c])]
      /\ UNCHANGED <<vars, lost, left, serving>>
  BY DEF Read, Network!Read, Network!Becomes, SInv, Rows
<1>3. RowOK(t, Tail(asked[c]), Tail(inbox[c]), c \in lost, records)
  BY <1>1, ReadRow DEF SInv, Rows
<1>4. Rows'
  BY <1>2, <1>3, OneRow DEF SInv, vars
<1>5. \A d \in Client : d # c => /\ session'[d] = session[d] /\ asked'[d] = asked[d]
                                 /\ inbox'[d] = inbox[d]
  BY <1>2 DEF SInv, Rows
<1>6. session'[c] = t /\ asked'[c] = Tail(asked[c]) /\ inbox'[c] = Tail(inbox[c])
  BY <1>2 DEF SInv, Rows
<1>7. Lost'
  <2>1. session[c] # Network!Gone
    BY <1>1, Statuses
  <2>2. ~Running => c \in lost
    BY <2>1 DEF SInv, Lost
  <2> QED BY <1>2, <1>5, <2>2 DEF SInv, Lost, Running, vars
<1>8. Serving'
  <2>1. CASE serving = c
    <3>1. /\ IsSeq(asked[c]) /\ IsSeq(inbox[c]) /\ IsSeq(session[c].inbox)
          /\ Len(session[c].inbox) = Len(inbox[c]) /\ Len(inbox[c]) <= Len(asked[c])
      BY DEF SInv, Rows, RowOK
    <3>2. Len(asked[c]) \in Nat /\ Len(inbox[c]) \in Nat /\ Len(inbox[c]) > 0
      BY <1>1, <3>1, SeqFacts
    <3>3. asked[c] # << >> /\ inbox[c] # << >>
      BY <3>1, <3>2, SeqFacts
    <3>4. /\ Len(Tail(asked[c])) = Len(asked[c]) - 1 /\ Len(Tail(inbox[c])) = Len(inbox[c]) - 1
          /\ \A k \in 1..Len(Tail(asked[c])) : Tail(asked[c])[k] = asked[c][k + 1]
      BY <3>1, <3>3, SeqFacts
    <3>5. Len(inbox[c]) < Len(asked[c]) /\ OfType(asked[c][Len(inbox[c]) + 1].req, {"SAVE"})
      BY <2>1, SystemAssumption DEF SInv, Serving, SystemAssumption
    <3>6. /\ Len(Tail(inbox[c])) < Len(Tail(asked[c]))
          /\ Tail(asked[c])[Len(Tail(inbox[c])) + 1] = asked[c][Len(inbox[c]) + 1]
      BY <3>2, <3>4, <3>5
    <3> QED BY <1>1, <1>2, <1>6, <2>1, <3>5, <3>6 DEF SInv, Serving, vars
  <2>2. CASE serving # c
    BY <1>2, <1>5, <2>2 DEF SInv, Serving, vars
  <2> QED BY <2>1, <2>2
<1> QED BY <1>2, <1>4, <1>7, <1>8 DEF SInv, Left, vars

\* A sequence of one item.
LEMMA SingleSeq ==
  ASSUME NEW x, NEW s, s = <<x>>
  PROVE  IsSeq(s) /\ Len(s) = 1 /\ s[1] = x
<1>1. s \in Seq({x})
  OBVIOUS
<1> QED BY <1>1 DEF IsSeq

\* What is left of a sequence behind its first m items.
LEMMA RestOfSeq ==
  ASSUME NEW S, NEW a \in Seq(S), NEW m \in Nat, m <= Len(a),
         NEW w, w = SubSeq(a, m + 1, Len(a))
  PROVE  /\ Len(w) = Len(a) - m /\ DOMAIN w = 1..Len(w)
         /\ \A k \in 1..Len(w) : w[k] = a[m + k]
OBVIOUS

\* What a closed connection leaves are requests.
LEMMA LeftRequests ==
  ASSUME SInv, NEW c \in Client, session[c].status = "open", c \notin lost
  PROVE  /\ [k \in DOMAIN Waiting(c) |-> Waiting(c)[k].req] \in Seq(Request)
         /\ Len(Waiting(c)) = Len(asked[c]) - Len(inbox[c])
         /\ \A k \in 1..Len(Waiting(c)) : Waiting(c)[k] = asked[c][Len(inbox[c]) + k]
<1>1. /\ IsSeq(asked[c]) /\ Len(asked[c]) \in Nat /\ Len(inbox[c]) \in Nat
      /\ Len(inbox[c]) <= Len(asked[c])
  BY SeqFacts DEF SInv, Rows, RowOK
<1> PICK S : asked[c] \in Seq(S)
  BY <1>1 DEF IsSeq
<1> PICK w : w = Waiting(c)
  OBVIOUS
<1> PICK a, m : a = asked[c] /\ m = Len(inbox[c])
  OBVIOUS
<1> PICK n : n = Len(a) - m
  OBVIOUS
<1>2. Len(w) = n /\ DOMAIN w = 1..n /\ n \in Nat /\ \A k \in 1..n : w[k] = asked[c][m + k]
  <2>1. a \in Seq(S) /\ Len(a) \in Nat /\ m \in Nat /\ m <= Len(a)
    BY <1>1
  <2>2. w = SubSeq(a, m + 1, Len(a))
    BY DEF Waiting
  <2>3. n \in Nat
    BY <2>1
  <2>4. /\ Len(w) = Len(a) - m /\ DOMAIN w = 1..Len(w)
        /\ \A k \in 1..Len(w) : w[k] = a[m + k]
    BY ONLY <2>1, <2>2, RestOfSeq
  <2> QED BY <2>3, <2>4
<1>3. \A k \in 1..n : w[k].req \in Request
  <2> TAKE k \in 1..n
  <2>1. Len(inbox[c]) + k \in 1..Len(asked[c]) /\ Len(inbox[c]) + k > Len(inbox[c])
    BY <1>1
  <2> QED BY <1>2, <2>1 DEF SInv, Rows, RowOK
<1>4. [k \in 1..n |-> w[k].req] \in Seq(Request)
  BY <1>3
<1> QED BY <1>2, <1>4

\* Close keeps the rows.
LEMMA CloseRows ==
  ASSUME SInv, NEW c \in Client, Close(c)
  PROVE  (Rows /\ Lost /\ Left /\ Serving)'
<1>1. /\ session' = [session EXCEPT ![c] = Network!Gone]
      /\ asked' = [asked EXCEPT ![c] = << >>]
      /\ inbox' = [inbox EXCEPT ![c] = << >>]
      /\ UNCHANGED vars /\ lost' = lost \ {c}
      /\ serving' = IF serving = c THEN Nobody ELSE serving
  BY DEF Close, Network!Close, Network!Becomes
<1>2. RowOK(Network!Gone, << >>, << >>, c \in lost', records)
  BY Statuses, NothingIsSeq DEF RowOK
<1>3. Rows'
  BY <1>1, <1>2, OneRow DEF SInv, vars
<1>4. /\ session'[c] = Network!Gone
      /\ \A d \in Client : d # c => /\ session'[d] = session[d] /\ asked'[d] = asked[d]
                                    /\ inbox'[d] = inbox[d]
  BY <1>1 DEF SInv, Rows
<1>5. Lost'
  BY <1>1, <1>4 DEF SInv, Lost, Running, vars
<1>6. Serving'
  BY <1>1, <1>4 DEF SInv, Serving, vars
<1>7. Left'
  <2>1. CASE left' = left
    BY <2>1 DEF SInv, Left
  <2>2. CASE left' # left
    <3> PICK requests, rest :
          /\ requests = [k \in DOMAIN Waiting(c) |-> Waiting(c)[k].req]
          /\ rest = IF serving = c THEN Tail(requests) ELSE requests
          /\ c \notin lost /\ session[c] # Network!Awaiting /\ rest # << >>
          /\ left' = Append(left, rest)
      BY <2>2 DEF Close
    <3>1. session[c].status = "open"
      BY DEF Close, Network!Close, SInv, Rows, RowOK
    <3>2. requests \in Seq(Request) /\ Len(requests) = Len(Waiting(c))
      BY <3>1, LeftRequests
    <3>3. rest \in Seq(Request)
      <4>1. CASE serving = c
        <5>1. Len(inbox[c]) < Len(asked[c]) /\ Len(asked[c]) \in Nat /\ Len(inbox[c]) \in Nat
          BY <4>1, SystemAssumption, SeqFacts DEF SInv, Serving, Rows, RowOK, SystemAssumption
        <5>2. requests # << >>
          BY <3>1, <3>2, <5>1, LeftRequests
        <5> QED BY <3>2, <4>1, <5>2
      <4> QED BY <3>2, <4>1
    <3>4. left \in Seq(Seq(Request)) /\ \A j \in 1..Len(left) : left[j] # << >>
      BY DEF SInv, Left
    <3> PICK R : R = Seq(Request)
      OBVIOUS
    <3>5. left' \in Seq(R) /\ \A j \in 1..Len(left') : left'[j] # << >>
      BY <3>3, <3>4
    <3> QED BY <3>5 DEF Left
  <2> QED BY <2>1, <2>2
<1> QED BY <1>3, <1>5, <1>6, <1>7

\* Accept keeps the rows.
LEMMA AcceptRows ==
  ASSUME SInv, NEW c \in Client, Accept(c)
  PROVE  (Rows /\ Lost /\ Left /\ Serving)'
<1>m. PICK m : m = Network!Message(c, 0)
  OBVIOUS
<1>s. PICK ms : ms = <<m>>
  OBVIOUS
<1>t. PICK t : t = Network!Opened(0, 1, ms)
  OBVIOUS
<1>w. PICK w : w = [status |-> "OK", body |-> ""]
  OBVIOUS
<1>v. PICK ws : ws = <<w>>
  OBVIOUS
<1>1. /\ session[c] = Network!Awaiting /\ session[c].status = "waiting"
      /\ session[c].inbox = << >>
  BY Statuses DEF Accept, Network!Welcome
<1>2. /\ session' = [session EXCEPT ![c] = t]
      /\ asked' = [asked EXCEPT ![c] = asked[c]]
      /\ inbox' = [inbox EXCEPT ![c] = ws]
      /\ UNCHANGED <<vars, lost, left, serving>>
      /\ pc = "ready" /\ c \notin lost
  BY <1>m, <1>s, <1>t, <1>w, <1>v, Unchanged DEF Accept, Network!Welcome, Network!Becomes, SInv, Rows
<1>3. RowOK(session[c], asked[c], inbox[c], c \in lost, records)
  BY DEF SInv, Rows
<1>4. Len(asked[c]) = 1 /\ Len(inbox[c]) = 0 /\ asked[c][1].req = NotAMap
  BY <1>1, <1>3 DEF RowOK
<1>5. Tells(asked[c][1].req, w, records)
  BY <1>4 DEF Tells, OfType, Has, GivesRecord
<1>6. IsSeq(ws) /\ Len(ws) = 1 /\ ws[1] = w /\ IsSeq(ms) /\ Len(ms) = 1
  BY <1>s, <1>v, SingleSeq
<1>7. t.status = "open" /\ t.inbox = ms
  BY <1>t DEF Network!Opened
<1>8. Len(session[c].inbox) = 0
  BY <1>1, NothingIsSeq
<1>12. RowOK(t, asked[c], ws, c \in lost, records)
  <2>3. Len(inbox[c]) < Len(asked[c]) /\ \A k \in 1..Len(inbox[c]) : ws[k] = inbox[c][k]
    BY <1>4
  <2>4. Len(ws) = Len(inbox[c]) + 1 /\ Len(t.inbox) = Len(session[c].inbox) + 1
    BY <1>4, <1>6, <1>7, <1>8
  <2>5. IsSeq(t.inbox) /\ t.status = "open"
    BY <1>6, <1>7
  <2>2. Tells(asked[c][Len(inbox[c]) + 1].req, w, records) /\ ws[Len(inbox[c]) + 1] = w
    BY <1>4, <1>5, <1>6
  <2> QED BY <1>2, <1>3, <1>4, <1>6, <2>2, <2>3, <2>4, <2>5, AnsweredRow
<1>9. Rows'
  BY <1>2, <1>12, OneRow DEF SInv, vars
<1>10. \A d \in Client : d # c => /\ session'[d] = session[d] /\ asked'[d] = asked[d]
                                  /\ inbox'[d] = inbox[d]
  BY <1>2 DEF SInv, Rows
<1>11. Serving' /\ Lost'
  BY <1>2, <1>10 DEF SInv, Serving, Lost, Running, vars
<1> QED BY <1>2, <1>9, <1>11 DEF SInv, Left, vars

-----------------------------------------------------------------------------
(* The server *)

\* The handlers: an answer tells of the list that its request leaves.
LEMMA HandleTells ==
  ASSUME IInv, NEW req \in Request, HandleRequest(req), pc' = "ready",
         NEW answer, answer.status = reply'.status, answer.body = reply'.body,
         answer = [status |-> answer.status, body |-> answer.body]
  PROVE  Tells(req, answer, records')
<1>0. records \in Seq(Record)
  BY DEF IInv, TypeOK
<1>1. CASE Reject(req)
  <2> PICK why : Refuse(req, why)
    BY <1>1 DEF Reject, RefuseMessage
  <2>1. reply'.status = "ERROR" /\ records' = records
    BY DEF Refuse, ReplyWith
  <2>3. ~OfType(req, {"GET_RECORDS"})
    BY <1>1 DEF Reject, RefuseMessage, OfType, Has, RequestType
  <2>2. OfType(req, {"REMOVE_RECORD"}) /\ GivesRecord(req) =>
          ParseFromString(req.data) \notin Range(records)
    BY <1>1 DEF Reject, RefuseMessage, OfType, Has, GivesRecord, RequestType
  <2> QED BY <2>1, <2>2, <2>3 DEF Tells, OfType
<1>2. CASE Reload(req)
  BY <1>2 DEF Reload, ReplyWith, Tells, OfType
<1>3. CASE AddRecord(req)
  <2>1. /\ records' = Append(records, ParseFromString(req.data))
        /\ req.type = "ADD_RECORD" /\ ParseFromString(req.data) \in Record
    BY <1>3, ParsedIsRecord DEF AddRecord, OfType
  <2> PICK r : r = ParseFromString(req.data)
    OBVIOUS
  <2>2. records' # << >> /\ Last(records') = r
    BY <1>0, <2>1 DEF Last
  <2> QED BY <2>1, <2>2 DEF Tells, OfType
<1>4. CASE RemoveRecord(req)
  BY <1>4 DEF RemoveRecord, ReplyWith, Tells, OfType
<1>5. CASE GetRecords(req)
  <2>1. answer.status = "DATA" /\ answer.body = records' /\ req.type = "GET_RECORDS"
    BY <1>5 DEF GetRecords, ReplyWith, OfType
  <2> QED BY <2>1 DEF Tells, OfType
<1>6. CASE GetSlice(req)
  BY <1>6 DEF GetSlice, ReplyWith, Tells, OfType
<1>7. CASE GetDiagram(req)
  BY <1>7 DEF GetDiagram, ReplyWith, Tells, OfType
<1>8. CASE SaveOpenFails(req)
  BY <1>8 DEF SaveOpenFails, ReplyWith, Tells, OfType
<1>9. ~Abort(req) /\ ~SaveOpen(req)
  BY DEF Abort, SaveOpen
<1> QED BY <1>1, <1>2, <1>3, <1>4, <1>5, <1>6, <1>7, <1>8, <1>9 DEF HandleRequest

\* Only SAVE is left to be answered later.
LEMMA HandleEnds ==
  ASSUME NEW req \in Request, HandleRequest(req)
  PROVE  /\ pc = "ready" /\ pc' \in {"ready", "saving", "aborted"}
         /\ pc' = "saving" => OfType(req, {"SAVE"})
<1>1. CASE Reject(req)
  <2>1. PICK why : Refuse(req, why)
    BY <1>1 DEF Reject, RefuseMessage
  <2> QED BY <2>1 DEF Refuse, HandleRequest
<1>2. CASE SaveOpen(req)
  BY <1>2 DEF SaveOpen, HandleRequest
<1>3. CASE Abort(req)
  BY <1>3 DEF Abort, HandleRequest
<1> QED BY <1>1, <1>2, <1>3
        DEF HandleRequest, Reload, AddRecord, RemoveRecord, GetRecords, GetSlice,
            GetDiagram, SaveOpenFails

\* Every row after a step of the list: those that wait have seen it.
LEMMA WitnessedRows ==
  ASSUME Rows, Witness
  PROVE  /\ asked' = [c \in Client |-> asked'[c]]
         /\ \A c \in Client :
              /\ RowOK(session[c], asked'[c], inbox[c], c \in lost, records')
              /\ Len(asked'[c]) = Len(asked[c])
              /\ \A k \in 1..Len(asked[c]) : k > Len(inbox[c]) =>
                   asked'[c][k].req = asked[c][k].req
<1>1. asked' = [c \in Client |-> asked'[c]]
  BY DEF Witness
<1>2. ASSUME NEW c \in Client
      PROVE  asked'[c] = [k \in DOMAIN asked[c] |->
                            IF k <= Len(inbox[c]) THEN asked[c][k]
                            ELSE [asked[c][k] EXCEPT !.seen = @ \cup {records'}]]
  BY DEF Witness
<1>3. \A c \in Client : RowOK(session[c], asked[c], inbox[c], c \in lost, records)
  BY DEF Rows
<1>4. ASSUME NEW c \in Client
      PROVE  /\ RowOK(session[c], asked'[c], inbox[c], c \in lost, records')
             /\ Len(asked'[c]) = Len(asked[c])
             /\ \A k \in 1..Len(asked[c]) : k > Len(inbox[c]) =>
                  asked'[c][k].req = asked[c][k].req
  <2> PICK a2 : a2 = asked'[c]
    OBVIOUS
  <2> PICK next : next = records'
    OBVIOUS
  <2>1. a2 = [k \in DOMAIN asked[c] |->
                IF k <= Len(inbox[c]) THEN asked[c][k]
                ELSE [asked[c][k] EXCEPT !.seen = @ \cup {next}]]
    BY <1>2
  <2>2. RowOK(session[c], asked[c], inbox[c], c \in lost, records)
    BY <1>3
  <2>4. /\ RowOK(session[c], a2, inbox[c], c \in lost, next)
        /\ Len(a2) = Len(asked[c])
        /\ \A k \in 1..Len(asked[c]) : k > Len(inbox[c]) => a2[k].req = asked[c][k].req
    BY ONLY <2>1, <2>2, WitnessedRow
  <2> QED BY <2>4
<1> QED BY <1>1, <1>4

\* An answer goes to the first request that waits in an open session.
LEMMA DeliverRows ==
  ASSUME NEW c \in Client, Network!Answer(c), NEW answer, NEW list,
         session = [d \in Client |-> session[d]], inbox = [d \in Client |-> inbox[d]],
         asked' = [d \in Client |-> asked'[d]],
         inbox' = [inbox EXCEPT ![c] = Append(@, answer)],
         UNCHANGED lost, c \notin lost,
         list = records',
         \A d \in Client : RowOK(session[d], asked'[d], inbox[d], d \in lost, list),
         Len(inbox[c]) < Len(asked'[c]),
         Tells(asked'[c][Len(inbox[c]) + 1].req, answer, list)
  PROVE  Rows'
<1>m. PICK m : m = Network!Message(c, session[c].answered)
  OBVIOUS
<1>t. PICK t : t = Network!Opened(session[c].asked, session[c].answered + 1,
                                  Append(session[c].inbox, m))
  OBVIOUS
<1>1. session[c].status = "open"
  BY DEF Network!Answer
<1>2. session' = [session EXCEPT ![c] = t]
  BY <1>m, <1>t DEF Network!Answer, Network!Becomes
<1>n. PICK next : next = Append(inbox[c], answer)
  OBVIOUS
<1>3. session'[c] = t /\ inbox'[c] = next
  BY <1>2, <1>n
<1>4. /\ session' = [d \in Client |-> session'[d]] /\ inbox' = [d \in Client |-> inbox'[d]]
      /\ \A d \in Client : d # c => session'[d] = session[d] /\ inbox'[d] = inbox[d]
  BY <1>2
<1>5. t.status = "open" /\ t.inbox = Append(session[c].inbox, m)
  BY <1>t DEF Network!Opened
<1>6. RowOK(session[c], asked'[c], inbox[c], c \in lost, list)
  OBVIOUS
<1>7. IsSeq(session[c].inbox) /\ IsSeq(inbox[c])
  BY <1>6 DEF RowOK
<1>8. IsSeq(t.inbox) /\ Len(t.inbox) = Len(session[c].inbox) + 1
  BY <1>5, <1>7, SeqAppended
<1>9. /\ IsSeq(next) /\ Len(next) = Len(inbox[c]) + 1
      /\ next[Len(inbox[c]) + 1] = answer
      /\ \A k \in 1..Len(inbox[c]) : next[k] = inbox[c][k]
  BY <1>7, <1>n, SeqAppended
<1>10. RowOK(t, asked'[c], next, c \in lost, list)
  BY <1>1, <1>5, <1>6, <1>8, <1>9, AnsweredRow
<1>11. \A d \in Client : RowOK(session'[d], asked'[d], inbox'[d], d \in lost', records')
  BY <1>3, <1>4, <1>10
<1> QED BY <1>4, <1>11 DEF Rows

\* Once lost, what a session waits for is no concern of the list.
LEMMA LostRow ==
  ASSUME NEW s, NEW a, NEW in, NEW isLost, NEW list, NEW nowLost, NEW next,
         RowOK(s, a, in, isLost, list), nowLost \/ s = Network!Gone
  PROVE  RowOK(s, a, in, nowLost, next)
<1>1. CASE nowLost
  BY <1>1 DEF RowOK
<1>2. CASE s = Network!Gone
  <2>1. Len(a) = 0 /\ Len(in) \in Nat
    BY <1>2, Statuses, SeqFacts DEF RowOK
  <2>2. \A k \in 1..Len(a) : FALSE
    BY <2>1
  <2> QED BY <2>1, <2>2 DEF RowOK
<1> QED BY <1>1, <1>2

\* The process dies: whoever has a session has lost it.
LEMMA CrashRows ==
  ASSUME Crash, asked' = [c \in Client |-> asked'[c]],
         session = [c \in Client |-> session[c]], inbox = [c \in Client |-> inbox[c]],
         NEW list, list = records',
         \A c \in Client : RowOK(session[c], asked'[c], inbox[c], c \in lost, list)
  PROVE  (Rows /\ Lost /\ Left /\ Serving)'
<1>1. /\ lost' = {c \in Client : session[c] # Network!Gone}
      /\ left' = << >> /\ serving' = Nobody /\ UNCHANGED <<session, inbox>>
  BY DEF Crash
<1>2. ASSUME NEW c \in Client
      PROVE  RowOK(session[c], asked'[c], inbox[c], c \in lost', list)
  <2>1. c \in lost' \/ session[c] = Network!Gone
    BY <1>1
  <2> QED BY <2>1, LostRow
<1>3. Rows'
  BY <1>1, <1>2 DEF Rows
<1>4. Left'
  BY <1>1, NothingIsSeq DEF Left
<1>5. Lost' /\ Serving'
  BY <1>1 DEF Lost, Serving
<1> QED BY <1>3, <1>4, <1>5

\* A request that is handled, of a client or of one that has left, keeps the rows.
LEMMA HandleRows ==
  ASSUME SInv, NEW c \in Client \cup {Nobody}, NEW req \in Request, Handle(c, req),
         c # Nobody => /\ c \notin lost /\ session[c].status = "open"
                       /\ Len(inbox[c]) < Len(asked[c])
                       /\ req = asked[c][Len(inbox[c]) + 1].req
  PROVE  /\ (Rows /\ Lost /\ Serving)'
         /\ pc' = "aborted" => Left'
<1>1. HandleRequest(req) /\ Witness
  BY DEF Handle
<1>2. pc = "ready" /\ serving = Nobody
  BY <1>1, HandleEnds DEF SInv, Serving
<1>3. /\ asked' = [d \in Client |-> asked'[d]]
      /\ \A d \in Client :
           /\ RowOK(session[d], asked'[d], inbox[d], d \in lost, records')
           /\ Len(asked'[d]) = Len(asked[d])
           /\ \A k \in 1..Len(asked[d]) : k > Len(inbox[d]) =>
                asked'[d][k].req = asked[d][k].req
  BY <1>1, WitnessedRows DEF SInv
<1>4. session = [d \in Client |-> session[d]] /\ inbox = [d \in Client |-> inbox[d]]
  BY DEF SInv, Rows
<1>5. c # Nobody => /\ c \in Client /\ Len(inbox[c]) < Len(asked'[c])
                    /\ asked'[c][Len(inbox[c]) + 1].req = req
  <2> HAVE c # Nobody
  <2>1. c \in Client
    OBVIOUS
  <2>2. Len(asked[c]) \in Nat /\ Len(inbox[c]) \in Nat
    BY <2>1, SeqFacts DEF SInv, Rows, RowOK
  <2>3. Len(inbox[c]) + 1 \in 1..Len(asked[c]) /\ Len(inbox[c]) + 1 > Len(inbox[c])
    BY <2>2
  <2> QED BY <1>3, <2>1, <2>3
<1>6. CASE pc' = "ready"
  <2>1. Deliver(c) /\ UNCHANGED <<lost, serving>>
    BY <1>6 DEF Handle
  <2>2. Rows'
    <3>1. CASE c = Nobody
      BY <1>3, <1>4, <2>1, <3>1 DEF Deliver, Rows
    <3>2. CASE c # Nobody
      <4>a. PICK answer : answer = [status |-> reply'.status, body |-> reply'.body]
        OBVIOUS
      <4>1. /\ answer.status = reply'.status /\ answer.body = reply'.body
            /\ answer = [status |-> answer.status, body |-> answer.body]
        BY <4>a
      <4>2. Tells(req, answer, records')
        BY <1>1, <1>6, <4>1, HandleTells DEF SInv
      <4>3. Network!Answer(c) /\ inbox' = [inbox EXCEPT ![c] = Append(@, answer)]
        BY <2>1, <3>2, <4>a DEF Deliver
      <4> QED BY <1>3, <1>4, <1>5, <2>1, <3>2, <4>2, <4>3, DeliverRows
    <3> QED BY <3>1, <3>2
  <2> QED BY <1>2, <1>6, <2>1, <2>2 DEF Lost, Serving, Running
<1>7. CASE pc' = "saving"
  <2>1. serving' = c /\ UNCHANGED <<session, inbox, lost>> /\ OfType(req, {"SAVE"})
    BY <1>1, <1>7, HandleEnds DEF Handle
  <2>2. Rows'
    BY <1>3, <1>4, <2>1 DEF Rows
  <2> QED BY <1>5, <1>7, <2>1, <2>2 DEF Lost, Serving, Running
<1>8. CASE pc' = "aborted"
  <2>1. Crash
    BY <1>8 DEF Handle
  <2> QED BY <1>3, <1>4, <1>8, <2>1, CrashRows
<1> QED BY <1>1, <1>6, <1>7, <1>8, HandleEnds

\* The request that is served is the first that waits.
LEMMA FirstWaiting ==
  ASSUME SInv, NEW c \in Client, session[c].status = "open", Waiting(c) # << >>
  PROVE  /\ Len(inbox[c]) < Len(asked[c])
         /\ Head(Waiting(c)) = asked[c][Len(inbox[c]) + 1]
         /\ Head(Waiting(c)).req \in Request
<1>1. /\ IsSeq(asked[c]) /\ Len(asked[c]) \in Nat /\ Len(inbox[c]) \in Nat
      /\ Len(inbox[c]) <= Len(asked[c])
  BY SeqFacts DEF SInv, Rows, RowOK
<1> PICK S : asked[c] \in Seq(S)
  BY <1>1 DEF IsSeq
<1>a. PICK a, m, w : a = asked[c] /\ m = Len(inbox[c]) /\ w = Waiting(c)
  OBVIOUS
<1>2. a \in Seq(S) /\ m \in Nat /\ m <= Len(a) /\ w = SubSeq(a, m + 1, Len(a)) /\ Len(a) \in Nat
  BY <1>1, <1>a DEF Waiting
<1>3. /\ Len(w) = Len(a) - m /\ \A k \in 1..Len(w) : w[k] = a[m + k]
      /\ w \in Seq(S)
  BY ONLY <1>2, RestOfSeq
<1>4. w # << >>
  BY <1>a
<1>5. Len(w) > 0 /\ Head(w) = w[1]
  BY ONLY <1>3, <1>4
<1>6. m < Len(a) /\ Head(w) = a[m + 1]
  BY <1>2, <1>3, <1>5
<1>7. Len(inbox[c]) + 1 \in 1..Len(asked[c]) /\ Len(inbox[c]) + 1 > Len(inbox[c])
  BY <1>1, <1>6, <1>a
<1>8. asked[c][Len(inbox[c]) + 1].req \in Request
  BY <1>7 DEF SInv, Rows, RowOK
<1> QED BY <1>6, <1>8, <1>a

\* Serve keeps the rows.
LEMMA ServeRows ==
  ASSUME SInv, NEW c \in Client, Serve(c)
  PROVE  (Rows /\ Lost /\ Left /\ Serving)'
<1>1. /\ c \notin lost /\ session[c].status = "open" /\ Waiting(c) # << >>
      /\ Handle(c, Head(Waiting(c)).req)
      /\ pc' # "aborted" => UNCHANGED left
  BY DEF Serve
<1>2. /\ (Rows /\ Lost /\ Serving)'
      /\ pc' = "aborted" => Left'
  BY <1>1, FirstWaiting, HandleRows
<1> QED BY <1>1, <1>2 DEF SInv, Left

\* What a client that has left had written is a sequence of requests.
LEMMA LeftRequest ==
  ASSUME Left, NEW j \in DOMAIN left
  PROVE  /\ left[j] \in Seq(Request) /\ left[j] # << >>
         /\ Head(left[j]) \in Request
<1>1. j \in 1..Len(left) /\ left[j] \in Seq(Request) /\ left[j] # << >>
  BY DEF Left
<1> QED BY <1>1

\* ServeLeft keeps the rows.
LEMMA ServeLeftRows ==
  ASSUME SInv, NEW j \in DOMAIN left, ServeLeft(j)
  PROVE  (Rows /\ Lost /\ Left /\ Serving)'
<1>1. /\ left[j] \in Seq(Request) /\ left[j] # << >>
      /\ Head(left[j]) \in Request
  BY LeftRequest DEF SInv
<1>2. Handle(Nobody, Head(left[j]))
  BY DEF ServeLeft
<1>3. /\ (Rows /\ Lost /\ Serving)'
      /\ pc' = "aborted" => Left'
  BY <1>1, <1>2, HandleRows
<1>4. ASSUME pc' # "aborted"
      PROVE  Left'
  <2> PICK R : R = Seq(Request)
    OBVIOUS
  <2>1. left \in Seq(R) /\ \A i \in 1..Len(left) : left[i] # << >>
    BY DEF SInv, Left
  <2>2. CASE left' = RemoveAt(left, j)
    <3>1. left' \in Seq(R) /\ \A i \in DOMAIN left' : \E k \in DOMAIN left : left'[i] = left[k]
      BY <2>1, <2>2, RemovedType
    <3> QED BY <2>1, <3>1 DEF Left
  <2>3. CASE left' = [left EXCEPT ![j] = Tail(@)] /\ Len(left[j]) # 1
    <3>1. Tail(left[j]) \in R /\ Tail(left[j]) # << >>
      <4> PICK s : s = left[j]
        OBVIOUS
      <4>1. s \in Seq(Request) /\ s # << >> /\ Len(s) # 1
        BY <1>1, <2>3
      <4>2. Tail(s) \in Seq(Request) /\ Len(Tail(s)) = Len(s) - 1 /\ Len(Tail(s)) # 0
        BY ONLY <4>1
      <4>3. Tail(s) # << >>
        BY ONLY <4>2, NothingIsSeq
      <4> QED BY <4>2, <4>3
    <3> PICK rest : rest = Tail(left[j])
      OBVIOUS
    <3>2. left' = [left EXCEPT ![j] = rest] /\ rest \in R /\ rest # << >>
      BY <2>3, <3>1
    <3>3. left' \in Seq(R) /\ \A i \in 1..Len(left') : left'[i] # << >>
      BY <2>1, <3>2
    <3> QED BY <3>3 DEF Left
  <2> QED BY <1>4, <2>2, <2>3 DEF ServeLeft
<1> QED BY <1>3, <1>4

\* The end of a save, which is its answer, keeps the rows.
LEMMA EndSaveRows ==
  ASSUME SInv, EndSave
  PROVE  (Rows /\ Lost /\ Left /\ Serving)'
<1>1. /\ pc = "saving" /\ pc' = "ready" /\ records' = records
      /\ Deliver(serving) /\ serving' = Nobody
      /\ UNCHANGED <<asked, lost, left>>
  BY DEF EndSave, SaveClose, SaveWriteFails
<1>2. Lost' /\ Left' /\ Serving'
  BY <1>1 DEF Lost, Left, Serving, Running, SInv
<1>3. CASE serving = Nobody
  BY <1>1, <1>2, <1>3 DEF Deliver, SInv, Rows
<1>4. CASE serving # Nobody
  <2>c. PICK c : c = serving
    OBVIOUS
  <2>a. PICK answer : answer = [status |-> reply'.status, body |-> reply'.body]
    OBVIOUS
  <2>1. /\ c \in Client /\ c \notin lost /\ Len(inbox[c]) < Len(asked[c])
        /\ OfType(asked[c][Len(inbox[c]) + 1].req, {"SAVE"})
    BY <1>4, <2>c DEF SInv, Serving
  <2>2. Tells(asked[c][Len(inbox[c]) + 1].req, answer, records)
    BY <2>1 DEF Tells, OfType
  <2>3. Network!Answer(c) /\ inbox' = [inbox EXCEPT ![c] = Append(@, answer)]
    BY <1>1, <1>4, <2>c, <2>a DEF Deliver
  <2>4. /\ session = [d \in Client |-> session[d]] /\ inbox = [d \in Client |-> inbox[d]]
        /\ asked' = [d \in Client |-> asked'[d]] /\ asked' = asked
        /\ \A d \in Client : RowOK(session[d], asked'[d], inbox[d], d \in lost, records)
    BY <1>1 DEF SInv, Rows
  <2>5. Rows'
    BY <1>1, <2>1, <2>2, <2>3, <2>4, DeliverRows
  <2> QED BY <1>2, <2>5
<1> QED BY <1>3, <1>4

\* Die keeps the rows.
LEMMA DieRows ==
  ASSUME SInv, Die
  PROVE  (Rows /\ Lost /\ Left /\ Serving)'
<1>1. Crash /\ UNCHANGED asked /\ records' = records
  BY DEF Die, Kill
<1>2. /\ session = [c \in Client |-> session[c]] /\ inbox = [c \in Client |-> inbox[c]]
      /\ asked' = [c \in Client |-> asked'[c]]
      /\ \A c \in Client : RowOK(session[c], asked'[c], inbox[c], c \in lost, records)
  BY <1>1 DEF SInv, Rows
<1> QED BY <1>1, <1>2, CrashRows

\* A step of the service on its own keeps the rows.
LEMMA AloneRows ==
  ASSUME SInv, Alone
  PROVE  (Rows /\ Lost /\ Left /\ Serving)'
<1>1. UNCHANGED <<session, asked, inbox, lost, left, serving>>
  BY DEF Alone, netVars
<1>2. CASE Start
  <2>1. ~Running /\ Running' /\ serving = Nobody
    BY <1>2 DEF Start, Running, SInv, Serving
  <2>2. ASSUME NEW c \in Client
        PROVE  RowOK(session[c], asked[c], inbox[c], c \in lost, records')
    <3>1. RowOK(session[c], asked[c], inbox[c], c \in lost, records)
      BY DEF SInv, Rows
    <3>2. c \in lost \/ session[c] = Network!Gone
      BY <2>1 DEF SInv, Lost
    <3> QED BY <3>1, <3>2, LostRow
  <2>3. Rows'
    BY <1>1, <2>2 DEF SInv, Rows
  <2> QED BY <1>1, <2>1, <2>3 DEF SInv, Lost, Left, Serving
<1>3. CASE SaveFlush \/ StorageLost
  <2>1. UNCHANGED <<pc, records>>
    BY <1>3 DEF SaveFlush, StorageLost
  <2> QED BY <1>1, <2>1 DEF SInv, Rows, Lost, Left, Serving, Running
<1> QED BY <1>2, <1>3 DEF Alone

-----------------------------------------------------------------------------
(* The composition *)

\* Every step of the composition is one of the service, or none of it.
LEMMA StepOfService ==
  SInv /\ [SystemNext]_systemVars => [Next]_vars
<1> SUFFICES ASSUME SInv, [SystemNext]_systemVars
             PROVE  [Next]_vars
  OBVIOUS
<1>1. CASE UNCHANGED systemVars
  BY <1>1 DEF systemVars
<1>2. ASSUME NEW c \in Client, Connect(c) \/ Read(c) \/ Close(c) \/ Accept(c)
      PROVE  UNCHANGED vars
  BY <1>2 DEF Connect, Read, Close, Accept
<1>3. ASSUME NEW c \in Client, NEW req \in Asks[c], Ask(c, req)
      PROVE  UNCHANGED vars
  BY <1>3 DEF Ask
<1>4. ASSUME NEW c \in Client, Serve(c)
      PROVE  Next
  BY <1>4, FirstWaiting DEF Serve, Handle, Next
<1>5. ASSUME NEW j \in DOMAIN left, ServeLeft(j)
      PROVE  Next
  BY <1>5, LeftRequest DEF ServeLeft, Handle, Next, SInv
<1>6. CASE EndSave \/ Die \/ Alone
  BY <1>6 DEF EndSave, Die, Alone, Next
<1> QED BY <1>1, <1>2, <1>3, <1>4, <1>5, <1>6 DEF SystemNext

\* Every step of the system keeps the invariant.
LEMMA SystemNextInv ==
  SInv /\ [SystemNext]_systemVars => SInv'
<1> SUFFICES ASSUME SInv, [SystemNext]_systemVars
             PROVE  SInv'
  OBVIOUS
<1>1. IInv'
  BY StepOfService, NextIInv DEF SInv
<1>2. CASE UNCHANGED systemVars
  <2>1. UNCHANGED <<pc, records, session, asked, inbox, lost, left, serving>>
    BY <1>2 DEF systemVars, vars, netVars
  <2> QED BY <1>1, <2>1 DEF SInv, Rows, Lost, Left, Serving, Running
<1>3. ASSUME NEW c \in Client, Connect(c) \/ Read(c) \/ Close(c) \/ Accept(c) \/ Serve(c)
      PROVE  (Rows /\ Lost /\ Left /\ Serving)'
  BY <1>3, ConnectRows, ReadRows, CloseRows, AcceptRows, ServeRows
<1>4. ASSUME NEW c \in Client, NEW req \in Asks[c], Ask(c, req)
      PROVE  (Rows /\ Lost /\ Left /\ Serving)'
  BY <1>4, AskRows, SystemAssumption DEF SystemAssumption
<1>5. ASSUME NEW j \in DOMAIN left, ServeLeft(j)
      PROVE  (Rows /\ Lost /\ Left /\ Serving)'
  BY <1>5, ServeLeftRows
<1>6. ASSUME EndSave \/ Die \/ Alone
      PROVE  (Rows /\ Lost /\ Left /\ Serving)'
  BY <1>6, EndSaveRows, DieRows, AloneRows
<1> QED BY <1>1, <1>2, <1>3, <1>4, <1>5, <1>6 DEF SystemNext, SInv

\* The invariant holds at the start.
LEMMA InitSInv == SystemInit => SInv
<1> SUFFICES ASSUME SystemInit PROVE SInv
  OBVIOUS
<1>1. IInv
  BY InitIInv DEF SystemInit
<1>2. /\ session = [c \in Client |-> Network!Gone]
      /\ asked = [c \in Client |-> << >>] /\ inbox = [c \in Client |-> << >>]
      /\ left = << >> /\ serving = Nobody
  BY DEF SystemInit, Network!Init
<1>3. \A c \in Client : RowOK(session[c], asked[c], inbox[c], c \in lost, records)
  <2> TAKE c \in Client
  <2>1. session[c] = Network!Gone /\ asked[c] = << >> /\ inbox[c] = << >>
    BY <1>2
  <2> QED BY <2>1, Statuses, NothingIsSeq DEF RowOK
<1>4. Rows /\ Lost
  BY <1>2, <1>3 DEF Rows, Lost
<1>5. Left /\ Serving
  BY <1>2, NothingIsSeq DEF Left, Serving
<1> QED BY <1>1, <1>4, <1>5 DEF SInv

\* It holds in every state.
LEMMA InvariantSInv == SystemSpec => []SInv
<1> QED BY InitSInv, SystemNextInv, PTL DEF SystemSpec

\* The rows of the list say what AnswersWereTrue says.
LEMMA RowsTellTrue == SInv => AnswersWereTrue
<1> SUFFICES ASSUME SInv, NEW c \in Client, NEW k \in DOMAIN inbox[c]
             PROVE  \E list \in asked[c][k].seen : Tells(asked[c][k].req, inbox[c][k], list)
  BY DEF AnswersWereTrue
<1>1. k \in 1..Len(inbox[c])
  BY SeqFacts DEF SInv, Rows, RowOK
<1> QED BY <1>1 DEF SInv, Rows, RowOK

\* Whatever several clients ask, and however often the process dies, every answer that a
\* client reads tells the truth about a list that the service had while it waited
\* (OLAPService::handleRequest behind Server::tryHandleRequests).
THEOREM AnswersAreTrue == SystemSpec => []AnswersWereTrue
<1> QED BY InvariantSInv, RowsTellTrue, PTL

\* Behind its connections the service is still the one of OLAPService.tla, and keeps what
\* RecordStore promises: requests reach it one at a time (Server::run, handleRequest).
THEOREM SystemKeepsTheStore == SystemSpec => KeepsTheStore
<1>1. SystemInit => Init
  BY DEF SystemInit
<1>2. SystemSpec => Spec
  BY <1>1, InvariantSInv, StepOfService, PTL DEF SystemSpec, Spec
<1> QED BY <1>2, ImplementsStore

=============================================================================
