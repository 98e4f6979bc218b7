---------------------------- MODULE ServerProofs ----------------------------
(***************************************************************************)
(* What the server keeps, for any clients, descriptors and deliveries:     *)
(* every open descriptor is listed once, messages are taken whole, and     *)
(* what waits for a client are the answers to its own requests in order,   *)
(* and to each of its clients the server is a Session.  Which of the       *)
(* clients can end it, and which are dropped, comes last.                  *)
(***************************************************************************)
EXTENDS Server, FiniteSetTheorems, SequenceTheorems, TLAPS

\* Between the head of the loop and the answer there is a current client, and its
\* header has been taken when its body is awaited.
Engaged ==
  /\ pc \in {"body", "reply"} => i \in DOMAIN clients_
  /\ pc = "body" => sock[current].taken % Message = Header

\* A client that is connected is at the other end of its descriptor, and alive.
Linked ==
  /\ \A f \in Fd : sock[f].reset => sock[f].fin
  /\ \A c \in Client : link[c] # None =>
       sock[link[c]].peer = c /\ ~sock[link[c]].fin

\* A client that waits to be accepted waits once, is not connected and has read
\* nothing.
Waiting ==
  \A k \in DOMAIN backlog : ~backlog[k].fin =>
    /\ link[backlog[k].from] = None
    /\ got[backlog[k].from] = 0
    /\ \A j \in DOMAIN backlog :
         ~backlog[j].fin /\ backlog[j].from = backlog[k].from => j = k

\* A message that has been taken and not been answered yet.
Owed(f) == IF pc = "reply" /\ f = current THEN 1 ELSE 0

\* For every message taken, and for the connection itself, an answer has been read,
\* or waits, or is owed, as long as the server lives.
Counted ==
  pc # "dead" => \A c \in Client : link[c] # None =>
    got[c] + Len(sock[link[c]].out) + Owed(link[c])
      = sock[link[c]].taken \div Message + 1

IInv ==
  /\ TypeOK /\ DescriptorsTracked /\ StreamAligned /\ Engaged
  /\ Linked /\ Waiting /\ Counted /\ AnswersInOrder

-----------------------------------------------------------------------------
\* What the types say, by name.
Socket == [peer : Client \cup {None}, fin : BOOLEAN, reset : BOOLEAN,
           unread : Nat, taken : Nat, out : Seq([to : Client, re : Nat])]

\* The places of a sequence and what is there.
LEMMA SeqParts ==
  ASSUME NEW S, NEW s \in Seq(S)
  PROVE  DOMAIN s = 1..Len(s) /\ \A j \in DOMAIN s : s[j] \in S
OBVIOUS

\* The places in clients_ are numbers.
LEMMA PlacesAreNumbers ==
  ASSUME IInv
  PROVE  \A j \in DOMAIN clients_ : j \in Nat
<1>1. clients_ \in Seq(Fd)
  BY DEF IInv, TypeOK
<1>2. DOMAIN clients_ = 1..Len(clients_) /\ Len(clients_) \in Nat
  BY <1>1, LenProperties
<1>. QED BY <1>2

\* The descriptor the scan is at is open.
LEMMA CurrentIsOpen ==
  ASSUME IInv, i \in DOMAIN clients_
  PROVE  current \in Fd /\ current \in Open
<1>1. current \in Range(clients_)
  BY DEF current, Range
<1>. QED BY <1>1 DEF IInv, DescriptorsTracked, Open

\* A step that leaves descriptors, connections and clients alone, and is not between
\* the two parts of a message.
LEMMA QuietStep ==
  ASSUME IInv, pc \notin {"body", "reply"},
         pc' \in {"select", "accept", "scan", "dead"},
         read_fds' \subseteq Fd \cup {None}, checked' \subseteq Fd,
         i' \in 1..(Len(clients_) + 1), pc = "dead" => pc' = "dead" /\ i' = i,
         UNCHANGED <<clients_, sock, backlog, link, clientVars>>
  PROVE  IInv'
<1>1. /\ clients_' = clients_ /\ sock' = sock /\ backlog' = backlog /\ link' = link
      /\ asked' = asked /\ partial' = partial /\ got' = got /\ sessions' = sessions
  BY DEF clientVars
<1>2. TypeOK'
  BY <1>1 DEF IInv, TypeOK
<1>3. Open' = Open
  BY <1>1 DEF Open
<1>4. DescriptorsTracked'
  BY <1>1, <1>3 DEF IInv, DescriptorsTracked, Range
<1>5. StreamAligned'
  BY <1>1, <1>3 DEF IInv, StreamAligned, current
<1>6. Engaged' /\ Linked' /\ Waiting' /\ AnswersInOrder'
  BY <1>1 DEF IInv, Engaged, Linked, Waiting, AnswersInOrder
<1>7. Counted'
  BY <1>1 DEF IInv, Counted, Owed
<1>. QED BY <1>2, <1>4, <1>5, <1>6, <1>7 DEF IInv

\* The end of the process: nothing is owed any more.
LEMMA DieStep ==
  ASSUME IInv, Die, pc # "dead"
  PROVE  IInv'
<1>1. /\ clients_' = clients_ /\ sock' = sock /\ backlog' = backlog /\ link' = link
      /\ asked' = asked /\ partial' = partial /\ got' = got /\ sessions' = sessions
      /\ i' = i /\ read_fds' = read_fds /\ checked' = checked /\ pc' = "dead"
  BY DEF Die, clientVars
<1>2. TypeOK'
  BY <1>1 DEF IInv, TypeOK
<1>3. Open' = Open
  BY <1>1 DEF Open
<1>4. DescriptorsTracked'
  BY <1>1, <1>3 DEF IInv, DescriptorsTracked, Range
<1>5. StreamAligned'
  BY <1>1, <1>3 DEF IInv, StreamAligned, current
<1>6. Engaged' /\ Linked' /\ Waiting' /\ AnswersInOrder'
  BY <1>1 DEF IInv, Engaged, Linked, Waiting, AnswersInOrder
<1>7. Counted'
  BY <1>1 DEF Counted
<1>. QED BY <1>2, <1>4, <1>5, <1>6, <1>7 DEF IInv

\* The invariant holds at the start.
LEMMA InitIInv == Init => IInv
<1>. SUFFICES ASSUME Init PROVE IInv
  OBVIOUS
<1>. USE DEF Init
<1>1. TypeOK
  BY DEF TypeOK, Closed, Opened
<1>2. Open = {}
  BY DEF Open, Closed, Opened
<1>3. DescriptorsTracked /\ StreamAligned
  BY <1>2 DEF DescriptorsTracked, StreamAligned, Range
<1>4. Engaged /\ Linked /\ Waiting /\ Counted /\ AnswersInOrder
  BY DEF Engaged, Linked, Waiting, Counted, AnswersInOrder, Closed, Opened
<1>. QED BY <1>1, <1>3, <1>4 DEF IInv

-----------------------------------------------------------------------------
\* A header and a body make a message.
LEMMA Units ==
  ASSUME NEW t \in Nat
  PROVE  /\ t % Message = 0 => /\ (t + Header) % Message = Header
                              /\ (t + Header) \div Message = t \div Message
         /\ t % Message = Header =>
              /\ (t + (Message - Header)) % Message = 0
              /\ (t + (Message - Header)) \div Message = t \div Message + 1
BY DEF Message, Header

\* What RemoveAt leaves of a sequence without repetitions: the others, each once.
LEMMA RemovedOnce ==
  ASSUME NEW S, NEW s \in Seq(S), NEW k \in DOMAIN s,
         \A a, b \in DOMAIN s : s[a] = s[b] => a = b
  PROVE  /\ RemoveAt(s, k) \in Seq(S)
         /\ Len(RemoveAt(s, k)) = Len(s) - 1
         /\ Range(RemoveAt(s, k)) = Range(s) \ {s[k]}
         /\ \A a, b \in DOMAIN RemoveAt(s, k) :
              RemoveAt(s, k)[a] = RemoveAt(s, k)[b] => a = b
         /\ \A j \in DOMAIN RemoveAt(s, k) : LET p == IF j < k THEN j ELSE j + 1
              IN  RemoveAt(s, k)[j] = s[p] /\ p \in DOMAIN s \ {k}
<1> DEFINE before == SubSeq(s, 1, k - 1)
           after  == SubSeq(s, k + 1, Len(s))
           r      == before \o after
           at(j)  == IF j < k THEN j ELSE j + 1
<1>1. k \in 1..Len(s)
  OBVIOUS
<1>2. /\ before \in Seq(S) /\ Len(before) = k - 1
      /\ \A j \in 1..(k - 1) : before[j] = s[j]
  BY <1>1
<1>3. /\ after \in Seq(S) /\ Len(after) = Len(s) - k
      /\ \A j \in 1..(Len(s) - k) : after[j] = s[k + j]
  BY <1>1
<1> HIDE DEF before, after
<1>4. r \in Seq(S) /\ Len(r) = Len(s) - 1
  BY <1>1, <1>2, <1>3, ConcatProperties
<1>5. ASSUME NEW j \in DOMAIN r
      PROVE  r[j] = s[at(j)] /\ at(j) \in DOMAIN s \ {k}
  <2>1. j \in 1..(Len(s) - 1)
    BY <1>4
  <2>2. CASE j < k
    BY <1>1, <1>2, <1>3, <2>1, <2>2, ConcatProperties
  <2>3. CASE j >= k
    <3>1. j - (k - 1) \in 1..(Len(s) - k)
      BY <1>1, <2>1, <2>3
    <3>2. r[j] = after[j - (k - 1)]
      BY <1>1, <1>2, <1>3, <2>1, <2>3, ConcatProperties
    <3>3. after[j - (k - 1)] = s[k + (j - (k - 1))] /\ k + (j - (k - 1)) = j + 1
      BY <1>1, <1>3, <2>1, <3>1
    <3>. QED BY <1>1, <2>1, <2>3, <3>2, <3>3
  <2>. QED BY <1>1, <2>1, <2>2, <2>3
<1>6. ASSUME NEW j \in DOMAIN s \ {k}
      PROVE  \E a \in DOMAIN r : r[a] = s[j]
  <2>1. CASE j < k
    <3>1. j \in DOMAIN r /\ at(j) = j
      BY <1>1, <1>4, <2>1
    <3>. QED BY <1>5, <3>1
  <2>2. CASE j > k
    <3>1. j - 1 \in DOMAIN r /\ at(j - 1) = j
      BY <1>1, <1>4, <2>2
    <3>. QED BY <1>5, <3>1
  <2>. QED BY <1>1, <2>1, <2>2
<1>7. Range(r) = Range(s) \ {s[k]}
  <2>1. ASSUME NEW a \in DOMAIN r PROVE r[a] \in Range(s) \ {s[k]}
    BY <1>5, <2>1 DEF Range
  <2>2. ASSUME NEW v \in Range(s) \ {s[k]} PROVE v \in Range(r)
    <3>1. PICK j \in DOMAIN s : s[j] = v
      BY DEF Range
    <3>. QED BY <1>6, <3>1 DEF Range
  <2>. QED BY <2>1, <2>2 DEF Range
<1>8. ASSUME NEW a \in DOMAIN r, NEW b \in DOMAIN r, r[a] = r[b]
      PROVE  a = b
  <2>1. at(a) = at(b)
    BY <1>5, <1>8
  <2>. QED BY <1>1, <1>4, <2>1
<1>. QED BY <1>4, <1>5, <1>7, <1>8 DEF RemoveAt, before, after

-----------------------------------------------------------------------------
\* A step that changes one descriptor, and keeps its end of the connection.
LEMMA OneSocket ==
  ASSUME IInv, NEW f \in Fd, sock' \in [Fd -> Socket], clients_' = clients_,
         sock'[f].peer = sock[f].peer, \A g \in Fd \ {f} : sock'[g] = sock[g]
  PROVE  Open' = Open /\ DescriptorsTracked'
<1>1. Open' = Open
  BY DEF Open
<1>. QED BY <1>1 DEF IInv, DescriptorsTracked, Range

\* What recv of n units does to a descriptor.
LEMMA Taken ==
  ASSUME IInv, NEW f \in Fd, NEW n \in Nat, sock[f].unread >= n,
         sock' = [sock EXCEPT ![f].unread = @ - n, ![f].taken = @ + n]
  PROVE  /\ sock' \in [Fd -> Socket]
         /\ sock'[f].taken = sock[f].taken + n
         /\ sock'[f].unread = sock[f].unread - n
         /\ \A g \in Fd : /\ sock'[g].peer = sock[g].peer /\ sock'[g].fin = sock[g].fin
                         /\ sock'[g].reset = sock[g].reset /\ sock'[g].out = sock[g].out
         /\ \A g \in Fd \ {f} : sock'[g] = sock[g]
<1>1. sock \in [Fd -> Socket] /\ sock[f] \in Socket
  BY DEF IInv, TypeOK, Socket
<1>2. /\ sock'[f] \in Socket /\ sock'[f].taken = sock[f].taken + n
      /\ sock'[f].unread = sock[f].unread - n
      /\ sock'[f].peer = sock[f].peer /\ sock'[f].fin = sock[f].fin
      /\ sock'[f].reset = sock[f].reset /\ sock'[f].out = sock[f].out
  <2> DEFINE u == sock[f].unread - n
             t == sock[f].taken + n
  <2>1. u \in Nat /\ t \in Nat
    BY <1>1 DEF Socket
  <2>2. sock'[f] = [sock[f] EXCEPT !.unread = u, !.taken = t]
    BY <1>1
  <2> HIDE DEF u, t
  <2>3. [sock[f] EXCEPT !.unread = u, !.taken = t] \in Socket
    BY <1>1, <2>1 DEF Socket
  <2>4. /\ sock'[f].taken = t /\ sock'[f].unread = u
        /\ sock'[f].peer = sock[f].peer /\ sock'[f].fin = sock[f].fin
        /\ sock'[f].reset = sock[f].reset /\ sock'[f].out = sock[f].out
    BY <1>1, <2>2 DEF Socket
  <2>. QED BY <2>2, <2>3, <2>4 DEF t, u
<1>3. \A g \in Fd \ {f} : sock'[g] = sock[g]
  BY <1>1
<1>4. sock' \in [Fd -> Socket]
  BY <1>1, <1>2, <1>3
<1>. QED BY <1>2, <1>3, <1>4

\* An accepted connection is a socket.
LEMMA NewSocket ==
  ASSUME NEW c \in Client, NEW fin \in BOOLEAN
  PROVE  [peer |-> c, fin |-> fin, reset |-> FALSE, unread |-> 0, taken |-> 0,
          out |-> <<[to |-> c, re |-> 0]>>] \in Socket
<1>1. <<[to |-> c, re |-> 0]>> \in Seq([to : Client, re : Nat])
  OBVIOUS
<1>. QED BY <1>1 DEF Socket

\* Accept keeps the invariant.
LEMMA AcceptStep == IInv /\ Accept => IInv'
<1>. SUFFICES ASSUME IInv, Accept PROVE IInv'
  OBVIOUS
<1> DEFINE c == Head(backlog).from
<1>1. PICK f \in Lowest : Enter(f, <<Welcome(c)>>)
  BY DEF Accept
<1> DEFINE new == Opened(c, Head(backlog).fin, <<Welcome(c)>>)
<1>2. /\ sock' = [sock EXCEPT ![f] = new]
      /\ link' = IF Head(backlog).fin THEN link ELSE [link EXCEPT ![c] = f]
      /\ clients_' = Append(clients_, f) /\ backlog' = Tail(backlog)
      /\ pc' = "select" /\ pc = "accept"
      /\ read_fds' = read_fds /\ i' = i /\ checked' = checked
      /\ asked' = asked /\ partial' = partial /\ got' = got /\ sessions' = sessions
  BY <1>1 DEF Enter, Accept, clientVars
<1>3. f \in Fd /\ f \notin Open
  BY DEF Lowest
<1>4. /\ backlog # << >> /\ c \in Client /\ Head(backlog).fin \in BOOLEAN
      /\ Head(backlog) = backlog[1] /\ 1 \in DOMAIN backlog
      /\ Tail(backlog) \in Seq([from : Client, fin : BOOLEAN])
      /\ \A k \in DOMAIN Tail(backlog) :
           k + 1 \in DOMAIN backlog /\ Tail(backlog)[k] = backlog[k + 1]
  <2>1. backlog # << >> /\ backlog \in Seq([from : Client, fin : BOOLEAN])
    BY DEF Accept, Listening, IInv, TypeOK
  <2>2. Head(backlog) \in [from : Client, fin : BOOLEAN]
    BY <2>1, HeadTailProperties
  <2>. QED BY <2>1, <2>2, HeadTailProperties
<1>5. /\ new = [peer |-> c, fin |-> Head(backlog).fin, reset |-> FALSE, unread |-> 0,
                taken |-> 0, out |-> <<[to |-> c, re |-> 0]>>]
      /\ new \in Socket
  <2>1. new = [peer |-> c, fin |-> Head(backlog).fin, reset |-> FALSE, unread |-> 0,
               taken |-> 0, out |-> <<[to |-> c, re |-> 0]>>]
    BY DEF Opened, Welcome
  <2>. QED BY <1>4, <2>1, NewSocket
<1> HIDE DEF new
<1>6. /\ sock' \in [Fd -> Socket] /\ sock \in [Fd -> Socket]
      /\ sock'[f] = new /\ \A g \in Fd \ {f} : sock'[g] = sock[g]
  BY <1>2, <1>3, <1>5 DEF IInv, TypeOK, Socket
<1>7. Open' = Open \cup {f}
  BY <1>3, <1>4, <1>5, <1>6, ServerAssumption DEF Open, ServerAssumption
<1>8. /\ clients_' \in Seq(Fd) /\ Len(clients_') = Len(clients_) + 1
      /\ \A k \in DOMAIN clients_ : k \in DOMAIN clients_' /\ clients_'[k] = clients_[k]
      /\ clients_'[Len(clients_) + 1] = f
  <2>1. clients_ \in Seq(Fd)
    BY DEF IInv, TypeOK
  <2>. QED BY <1>2, <1>3, <2>1, AppendProperties
<1>9. TypeOK'
  <2>1. link' \in [Client -> Fd \cup {None}]
    BY <1>2, <1>3, <1>4 DEF IInv, TypeOK
  <2>2. backlog' \in Seq([from : Client, fin : BOOLEAN])
    BY <1>2, <1>4
  <2>3. i' \in 1..(Len(clients_') + 1)
    <3>1. clients_ \in Seq(Fd) /\ i \in 1..(Len(clients_) + 1)
      BY DEF IInv, TypeOK
    <3>. QED BY <1>2, <1>8, <3>1
  <2>. QED BY <1>6, <1>2, <1>8, <2>1, <2>2, <2>3 DEF IInv, TypeOK, Socket
<1>10. DescriptorsTracked'
  <2>1. Range(clients_) = Open /\ clients_ \in Seq(Fd)
    BY DEF IInv, DescriptorsTracked, TypeOK
  <2>2. DOMAIN clients_' = DOMAIN clients_ \cup {Len(clients_) + 1}
    BY <1>8, <2>1
  <2>3. Range(clients_') = Open'
    BY <1>7, <1>8, <2>1, <2>2 DEF Range
  <2>4. \A k \in DOMAIN clients_ : clients_[k] # f
    BY <1>3, <2>1 DEF Range
  <2>5. \A j, k \in DOMAIN clients_' : clients_'[j] = clients_'[k] => j = k
    BY <1>8, <2>2, <2>4 DEF IInv, DescriptorsTracked
  <2>. QED BY <2>3, <2>5 DEF DescriptorsTracked
<1>11. StreamAligned'
  <2>1. \A g \in Open : sock[g].taken % Message = 0
    BY <1>2 DEF IInv, StreamAligned
  <2>2. sock'[f].taken % Message = 0
    BY <1>5, <1>6 DEF Message
  <2>3. \A g \in Open : sock'[g] = sock[g]
    BY <1>3, <1>6 DEF Open
  <2>. QED BY <1>7, <2>1, <2>2, <2>3 DEF StreamAligned
<1>12. Engaged'
  BY <1>2 DEF Engaged
<1>13. \A d \in Client : link[d] # None => link[d] \in Fd /\ link[d] # f
  <2>1. ASSUME NEW d \in Client, link[d] # None PROVE link[d] \in Open
    BY <2>1, ServerAssumption DEF ServerAssumption, IInv, TypeOK, Linked, Open
  <2>. QED BY <1>3, <2>1 DEF Open
<1>14. ASSUME NEW d \in Client, link'[d] # None
       PROVE  \/ /\ d = c /\ link'[d] = f /\ ~Head(backlog).fin
              \/ /\ link'[d] = link[d] /\ link[d] # None /\ link[d] \in Fd /\ link[d] # f
                 /\ sock'[link'[d]] = sock[link[d]]
  <2>1. link \in [Client -> Fd \cup {None}]
    BY DEF IInv, TypeOK
  <2>. QED BY <1>2, <1>4, <1>6, <1>13, <1>14, <2>1
<1>15. Linked'
  <2>1. \A g \in Fd : sock'[g].reset => sock'[g].fin
    BY <1>5, <1>6 DEF IInv, Linked
  <2>2. ASSUME NEW d \in Client, link'[d] # None
        PROVE  sock'[link'[d]].peer = d /\ ~sock'[link'[d]].fin
    BY <1>5, <1>6, <1>14, <2>2 DEF IInv, Linked
  <2>. QED BY <2>1, <2>2 DEF Linked
<1>16. Waiting'
  <2>. SUFFICES ASSUME NEW k \in DOMAIN backlog', ~backlog'[k].fin
                PROVE  /\ link'[backlog'[k].from] = None
                       /\ got[backlog'[k].from] = 0
                       /\ \A j \in DOMAIN backlog' :
                            ~backlog'[j].fin /\ backlog'[j].from = backlog'[k].from => j = k
    BY <1>2 DEF Waiting
  <2>1. k + 1 \in DOMAIN backlog /\ backlog'[k] = backlog[k + 1]
    BY <1>2, <1>4
  <2>2. /\ link[backlog[k + 1].from] = None /\ got[backlog[k + 1].from] = 0
        /\ \A j \in DOMAIN backlog :
             ~backlog[j].fin /\ backlog[j].from = backlog[k + 1].from => j = k + 1
    BY <2>1 DEF IInv, Waiting
  <2>3. k \in Nat /\ k > 0 /\ \A j \in DOMAIN backlog' : j \in Nat
    BY <1>2, <1>4
  <2>4. ~Head(backlog).fin => c # backlog[k + 1].from
    BY <1>4, <2>2, <2>3
  <2>5. link'[backlog[k + 1].from] = None
    <3>1. CASE Head(backlog).fin
      BY <1>2, <2>2, <3>1
    <3>2. CASE ~Head(backlog).fin
      BY <1>2, <2>2, <2>4, <3>2
    <3>. QED BY <3>1, <3>2
  <2>6. ASSUME NEW j \in DOMAIN backlog', ~backlog'[j].fin,
               backlog'[j].from = backlog'[k].from
        PROVE  j = k
    <3>1. j + 1 \in DOMAIN backlog /\ backlog'[j] = backlog[j + 1]
      BY <1>2, <1>4
    <3>2. j + 1 = k + 1
      BY <2>1, <2>2, <2>6, <3>1
    <3>. QED BY <2>3, <3>2
  <2>. QED BY <2>1, <2>2, <2>5, <2>6
<1>17. ~Head(backlog).fin => got[c] = 0
  BY <1>4 DEF IInv, Waiting
<1>18. Counted'
  <2>. SUFFICES ASSUME NEW d \in Client, link'[d] # None
                PROVE  got[d] + Len(sock'[link'[d]].out) + Owed(link[d])'
                         = sock'[link'[d]].taken \div Message + 1
    BY <1>2 DEF Counted
  <2>1. Owed(link[d]) = 0 /\ Owed(link[d])' = 0
    BY <1>2 DEF Owed
  <2>2. CASE d = c /\ link'[d] = f /\ ~Head(backlog).fin
    <3>1. Len(sock'[f].out) = 1 /\ sock'[f].taken = 0
      BY <1>5, <1>6
    <3>2. got[d] = 0 /\ 0 \div Message = 0
      BY <1>17, <2>2 DEF Message
    <3>. QED BY <2>1, <2>2, <3>1, <3>2
  <2>3. CASE link'[d] = link[d] /\ link[d] # None /\ sock'[link'[d]] = sock[link[d]]
    BY <1>2, <2>1, <2>3 DEF IInv, Counted
  <2>. QED BY <1>14, <2>2, <2>3
<1>19. AnswersInOrder'
  <2>. SUFFICES ASSUME NEW d \in Client, link'[d] # None,
                       NEW k \in DOMAIN sock'[link'[d]].out
                PROVE  sock'[link'[d]].out[k] = [to |-> d, re |-> got[d] + k - 1]
    BY <1>2 DEF AnswersInOrder
  <2>1. CASE d = c /\ link'[d] = f /\ ~Head(backlog).fin
    <3>1. sock'[f].out = <<[to |-> c, re |-> 0]>>
      BY <1>5, <1>6
    <3>2. k = 1 /\ sock'[f].out[k] = [to |-> c, re |-> 0]
      BY <2>1, <3>1
    <3>3. got[d] + k - 1 = 0
      BY <1>17, <2>1, <3>2
    <3>. QED BY <2>1, <3>2, <3>3
  <2>2. CASE link'[d] = link[d] /\ link[d] # None /\ sock'[link'[d]] = sock[link[d]]
    BY <2>2 DEF IInv, AnswersInOrder
  <2>. QED BY <1>14, <2>1, <2>2
<1>. QED BY <1>9, <1>10, <1>11, <1>12, <1>15, <1>16, <1>18, <1>19 DEF IInv

-----------------------------------------------------------------------------
\* recv, of the header or of the body: all but the count of answers is as it was.
LEMMA TakingStep ==
  ASSUME IInv, i \in DOMAIN clients_, NEW n \in Nat, sock[current].unread >= n,
         sock' = [sock EXCEPT ![current].unread = @ - n, ![current].taken = @ + n],
         pc' \in {"body", "reply"}, checked' \subseteq Fd,
         UNCHANGED <<clients_, read_fds, i, backlog, link, clientVars>>
  PROVE  /\ TypeOK' /\ DescriptorsTracked' /\ Linked' /\ Waiting' /\ AnswersInOrder'
         /\ Open' = Open /\ current' = current
         /\ sock'[current].taken = sock[current].taken + n
         /\ \A g \in Fd \ {current} : sock'[g] = sock[g]
         /\ \A g \in Fd : sock'[g].out = sock[g].out
<1>1. /\ clients_' = clients_ /\ read_fds' = read_fds /\ i' = i /\ backlog' = backlog
      /\ link' = link /\ asked' = asked /\ partial' = partial /\ got' = got
      /\ sessions' = sessions
  BY DEF clientVars
<1>2. current \in Fd /\ current' = current
  BY <1>1, CurrentIsOpen DEF current
<1>3. /\ sock' \in [Fd -> Socket]
      /\ sock'[current].taken = sock[current].taken + n
      /\ \A g \in Fd : /\ sock'[g].peer = sock[g].peer /\ sock'[g].fin = sock[g].fin
                      /\ sock'[g].reset = sock[g].reset /\ sock'[g].out = sock[g].out
      /\ \A g \in Fd \ {current} : sock'[g] = sock[g]
  <2> HIDE DEF current
  <2>. QED BY <1>2, Taken
<1>4. Open' = Open /\ DescriptorsTracked'
  <2> HIDE DEF current
  <2>. QED BY <1>1, <1>2, <1>3, OneSocket
<1>5. TypeOK'
  BY <1>1, <1>3 DEF IInv, TypeOK, Socket
<1>6. \A c \in Client : link[c] # None => link[c] \in Fd
  BY DEF IInv, TypeOK
<1>7. Linked' /\ Waiting'
  BY <1>1, <1>3, <1>6 DEF IInv, Linked, Waiting
<1>8. AnswersInOrder'
  BY <1>1, <1>3, <1>6 DEF IInv, AnswersInOrder
<1>. QED BY <1>2, <1>3, <1>4, <1>5, <1>7, <1>8

\* ReceiveHeader keeps the invariant.
LEMMA HeaderStep == IInv /\ ReceiveHeader => IInv'
<1>. SUFFICES ASSUME IInv, ReceiveHeader PROVE IInv'
  OBVIOUS
<1>1. /\ pc = "scan" /\ pc' = "body" /\ i \in DOMAIN clients_
      /\ clients_' = clients_ /\ i' = i /\ link' = link /\ got' = got
  BY DEF ReceiveHeader, Checking, IInv, TypeOK, clientVars
<1>2. current \in Fd /\ current \in Open
  BY <1>1, CurrentIsOpen
<1>3. /\ TypeOK' /\ DescriptorsTracked' /\ Linked' /\ Waiting' /\ AnswersInOrder'
      /\ Open' = Open /\ current' = current
      /\ sock'[current].taken = sock[current].taken + Header
      /\ \A g \in Fd \ {current} : sock'[g] = sock[g]
      /\ \A g \in Fd : sock'[g].out = sock[g].out
  <2>1. checked' \subseteq Fd
    BY <1>2 DEF ReceiveHeader, IInv, TypeOK
  <2>2. Header \in Nat
    BY DEF Header
  <2>. QED BY <1>1, <2>1, <2>2, TakingStep DEF ReceiveHeader
<1>4. sock[current].taken \in Nat /\ sock[current].taken % Message = 0
  BY <1>1, <1>2 DEF IInv, TypeOK, StreamAligned
<1>5. /\ sock'[current].taken % Message = Header
      /\ sock'[current].taken \div Message = sock[current].taken \div Message
  BY <1>3, <1>4, Units
<1>6. StreamAligned'
  <2>1. \A g \in Open \ {current} : sock'[g].taken % Message = 0
    BY <1>1, <1>3 DEF IInv, StreamAligned, Open
  <2>. QED BY <1>1, <1>3, <2>1 DEF StreamAligned
<1>7. Engaged'
  BY <1>1, <1>3, <1>5 DEF Engaged
<1>8. Counted'
  <2>. SUFFICES ASSUME NEW c \in Client, link[c] # None
                PROVE  got[c] + Len(sock'[link[c]].out) + Owed(link[c])'
                         = sock'[link[c]].taken \div Message + 1
    BY <1>1 DEF Counted, Owed
  <2>1. Owed(link[c]) = 0 /\ Owed(link[c])' = 0
    BY <1>1 DEF Owed
  <2>2. link[c] \in Fd
    BY DEF IInv, TypeOK
  <2>3. /\ sock'[link[c]].out = sock[link[c]].out
        /\ sock'[link[c]].taken \div Message = sock[link[c]].taken \div Message
    BY <1>3, <1>5, <2>2
  <2>. QED BY <1>1, <2>1, <2>3 DEF IInv, Counted
<1>. QED BY <1>3, <1>6, <1>7, <1>8 DEF IInv

\* ReceiveBody keeps the invariant.
LEMMA BodyStep == IInv /\ ReceiveBody => IInv'
<1>. SUFFICES ASSUME IInv, ReceiveBody PROVE IInv'
  OBVIOUS
<1>1. /\ pc = "body" /\ pc' = "reply" /\ i \in DOMAIN clients_
      /\ clients_' = clients_ /\ i' = i /\ link' = link /\ got' = got
  BY DEF ReceiveBody, IInv, Engaged, clientVars
<1>2. current \in Fd /\ current \in Open
  BY <1>1, CurrentIsOpen
<1>3. /\ TypeOK' /\ DescriptorsTracked' /\ Linked' /\ Waiting' /\ AnswersInOrder'
      /\ Open' = Open /\ current' = current
      /\ sock'[current].taken = sock[current].taken + (Message - Header)
      /\ \A g \in Fd \ {current} : sock'[g] = sock[g]
      /\ \A g \in Fd : sock'[g].out = sock[g].out
  <2>1. checked' \subseteq Fd
    BY DEF ReceiveBody, IInv, TypeOK
  <2>2. Message - Header \in Nat
    BY DEF Message, Header
  <2>. QED BY <1>1, <2>1, <2>2, TakingStep DEF ReceiveBody
<1>4. sock[current].taken \in Nat /\ sock[current].taken % Message = Header
  BY <1>1, <1>2 DEF IInv, TypeOK, Engaged
<1>5. /\ sock'[current].taken % Message = 0
      /\ sock'[current].taken \div Message = sock[current].taken \div Message + 1
  BY <1>3, <1>4, Units
<1>6. StreamAligned'
  <2>1. \A g \in Open \ {current} : sock'[g].taken % Message = 0
    BY <1>1, <1>3 DEF IInv, StreamAligned, Open
  <2>. QED BY <1>1, <1>3, <1>5, <2>1 DEF StreamAligned
<1>7. Engaged'
  BY <1>1, <1>3 DEF Engaged
<1>8. Counted'
  <2>. SUFFICES ASSUME NEW c \in Client, link[c] # None
                PROVE  got[c] + Len(sock'[link[c]].out) + Owed(link[c])'
                         = sock'[link[c]].taken \div Message + 1
    BY <1>1 DEF Counted, Owed
  <2>1. link[c] \in Fd /\ sock[link[c]].taken \in Nat
    BY DEF IInv, TypeOK
  <2>2. sock[link[c]].out \in Seq([to : Client, re : Nat]) /\ got[c] \in Nat
    BY <2>1 DEF IInv, TypeOK
  <2>3. /\ sock'[link[c]].out = sock[link[c]].out /\ Owed(link[c]) = 0
        /\ got[c] + Len(sock[link[c]].out) + 0 = sock[link[c]].taken \div Message + 1
    BY <1>1, <1>3, <2>1 DEF IInv, Counted, Owed
  <2>4. CASE link[c] = current
    <3>1. Owed(link[c])' = 1
      BY <1>1, <1>3, <2>4 DEF Owed
    <3>2. sock'[link[c]].taken \div Message = sock[link[c]].taken \div Message + 1
      BY <1>5, <2>4
    <3>. QED BY <2>1, <2>2, <2>3, <3>1, <3>2 DEF Message
  <2>5. CASE link[c] # current
    <3>1. Owed(link[c])' = 0
      BY <1>1, <1>3, <2>5 DEF Owed
    <3>2. sock'[link[c]] = sock[link[c]]
      BY <1>3, <2>1, <2>5
    <3>. QED BY <2>3, <3>1, <3>2
  <2>. QED BY <2>4, <2>5
<1>. QED BY <1>3, <1>6, <1>7, <1>8 DEF IInv

-----------------------------------------------------------------------------
\* What send, or a client's reading, does to a descriptor.
LEMMA OutChanged ==
  ASSUME IInv, NEW f \in Fd, NEW o \in Seq([to : Client, re : Nat]),
         sock' = [sock EXCEPT ![f].out = o]
  PROVE  /\ sock' \in [Fd -> Socket]
         /\ sock'[f].out = o
         /\ \A g \in Fd : /\ sock'[g].peer = sock[g].peer /\ sock'[g].fin = sock[g].fin
                         /\ sock'[g].reset = sock[g].reset
                         /\ sock'[g].taken = sock[g].taken
                         /\ sock'[g].unread = sock[g].unread
         /\ \A g \in Fd \ {f} : sock'[g] = sock[g]
<1>1. sock \in [Fd -> Socket] /\ sock[f] \in Socket
  BY DEF IInv, TypeOK, Socket
<1>2. /\ sock'[f] \in Socket /\ sock'[f].out = o /\ sock'[f].unread = sock[f].unread
      /\ sock'[f].peer = sock[f].peer /\ sock'[f].fin = sock[f].fin
      /\ sock'[f].reset = sock[f].reset /\ sock'[f].taken = sock[f].taken
  <2>1. sock'[f] = [sock[f] EXCEPT !.out = o]
    BY <1>1
  <2>2. [sock[f] EXCEPT !.out = o] \in Socket
    BY <1>1 DEF Socket
  <2>3. /\ sock'[f].out = o /\ sock'[f].unread = sock[f].unread
        /\ sock'[f].peer = sock[f].peer /\ sock'[f].fin = sock[f].fin
        /\ sock'[f].reset = sock[f].reset /\ sock'[f].taken = sock[f].taken
    BY <1>1, <2>1 DEF Socket
  <2>. QED BY <2>1, <2>2, <2>3
<1>3. \A g \in Fd \ {f} : sock'[g] = sock[g]
  BY <1>1
<1>4. sock' \in [Fd -> Socket]
  BY <1>1, <1>2, <1>3
<1>. QED BY <1>2, <1>3, <1>4

\* Reply keeps the invariant.
LEMMA ReplyStep == IInv /\ Reply => IInv'
<1>. SUFFICES ASSUME IInv, Reply PROVE IInv'
  OBVIOUS
<1> DEFINE answer == [to |-> sock[current].peer, re |-> sock[current].taken \div Message]
           o == Append(sock[current].out, answer)
<1>1. /\ pc = "reply" /\ pc' = "scan" /\ i \in DOMAIN clients_ /\ i' = i + 1
      /\ clients_' = clients_ /\ read_fds' = read_fds /\ checked' = checked
      /\ backlog' = backlog /\ link' = link /\ asked' = asked /\ partial' = partial
      /\ got' = got /\ sessions' = sessions /\ ~sock[current].reset
  BY DEF Reply, Answer, IInv, Engaged, clientVars
<1>2. /\ current \in Fd /\ sock[current].peer \in Client
      /\ sock[current].taken \in Nat /\ sock[current].out \in Seq([to : Client, re : Nat])
      /\ Len(sock[current].out) \in Nat /\ sock[current].taken \div Message \in Nat
  <2>1. /\ current \in Fd /\ sock[current].peer \in Client
        /\ sock[current].taken \in Nat
        /\ sock[current].out \in Seq([to : Client, re : Nat])
    BY <1>1, CurrentIsOpen DEF Open, IInv, TypeOK
  <2>. QED BY <2>1 DEF Message
<1>3. /\ answer \in [to : Client, re : Nat]
      /\ o \in Seq([to : Client, re : Nat]) /\ Len(o) = Len(sock[current].out) + 1
      /\ \A k \in 1..Len(sock[current].out) : o[k] = sock[current].out[k]
      /\ o[Len(sock[current].out) + 1] = answer
  <2>2. answer \in [to : Client, re : Nat]
    BY <1>2
  <2> HIDE DEF answer
  <2>. QED BY <1>2, <2>2, AppendProperties
<1>4. /\ sock' \in [Fd -> Socket]
      /\ sock'[current].out = o
      /\ \A g \in Fd : /\ sock'[g].peer = sock[g].peer /\ sock'[g].fin = sock[g].fin
                      /\ sock'[g].reset = sock[g].reset /\ sock'[g].taken = sock[g].taken
      /\ \A g \in Fd \ {current} : sock'[g] = sock[g]
  <2>1. sock' = [sock EXCEPT ![current].out = o]
    BY DEF Reply, Answer
  <2> HIDE DEF current, o
  <2>. QED BY <1>2, <1>3, <2>1, OutChanged
<1>5. Open' = Open /\ DescriptorsTracked'
  <2> HIDE DEF current
  <2>. QED BY <1>1, <1>2, <1>4, OneSocket
<1> HIDE DEF o, answer
<1>6. TypeOK'
  <2>1. i' \in 1..(Len(clients_') + 1)
    <3>1. clients_ \in Seq(Fd)
      BY DEF IInv, TypeOK
    <3>. QED BY <1>1, <3>1
  <2>. QED BY <1>1, <1>4, <2>1 DEF IInv, TypeOK, Socket
<1>7. StreamAligned'
  <2>1. \A g \in Open : sock[g].taken % Message = 0
    BY <1>1 DEF IInv, StreamAligned
  <2>. QED BY <1>4, <1>5, <2>1 DEF StreamAligned, Open
<1>8. Engaged'
  BY <1>1 DEF Engaged
<1>9. \A c \in Client : link[c] # None => link[c] \in Fd
  BY DEF IInv, TypeOK
<1>10. Linked' /\ Waiting'
  BY <1>1, <1>4, <1>9 DEF IInv, Linked, Waiting
<1>11. ASSUME NEW c \in Client, link[c] = current
       PROVE  /\ got[c] + Len(sock[current].out) + 1 = sock[current].taken \div Message + 1
              /\ answer = [to |-> c, re |-> got[c] + Len(sock[current].out)]
              /\ got[c] \in Nat
  <2>1. link[c] # None
    BY <1>2, <1>11, ServerAssumption DEF ServerAssumption
  <2>2. sock[current].peer = c
    BY <1>11, <2>1 DEF IInv, Linked
  <2>3. got[c] + Len(sock[current].out) + 1 = sock[current].taken \div Message + 1
    BY <1>1, <1>11, <2>1 DEF IInv, Counted, Owed
  <2>4. got[c] \in Nat
    BY DEF IInv, TypeOK
  <2>5. sock[current].taken \div Message = got[c] + Len(sock[current].out)
    BY <1>2, <2>3, <2>4
  <2>. QED BY <2>2, <2>3, <2>4, <2>5 DEF answer
<1>12. Counted'
  <2>. SUFFICES ASSUME NEW c \in Client, link[c] # None
                PROVE  got[c] + Len(sock'[link[c]].out) + 0
                         = sock'[link[c]].taken \div Message + 1
    BY <1>1 DEF Counted, Owed
  <2>1. CASE link[c] = current
    <3>1. /\ sock'[link[c]].out = o /\ sock'[link[c]].taken = sock[current].taken
          /\ Len(o) = Len(sock[current].out) + 1
      BY <1>2, <1>3, <1>4, <2>1
    <3>2. /\ got[c] + Len(sock[current].out) + 1 = sock[current].taken \div Message + 1
          /\ got[c] \in Nat
      BY <1>11, <2>1
    <3>3. got[c] + (Len(sock[current].out) + 1) + 0 = sock[current].taken \div Message + 1
      BY <1>2, <3>2
    <3>. QED BY <3>1, <3>3
  <2>2. CASE link[c] # current
    <3>1. sock'[link[c]] = sock[link[c]]
      BY <1>4, <1>9, <2>2
    <3>2. Owed(link[c]) = 0
      BY <2>2 DEF Owed
    <3>. QED BY <1>1, <3>1, <3>2 DEF IInv, Counted
  <2>. QED BY <2>1, <2>2
<1>13. AnswersInOrder'
  <2>. SUFFICES ASSUME NEW c \in Client, link[c] # None,
                       NEW k \in DOMAIN sock'[link[c]].out
                PROVE  sock'[link[c]].out[k] = [to |-> c, re |-> got[c] + k - 1]
    BY <1>1 DEF AnswersInOrder
  <2>1. CASE link[c] = current
    <3>1. k \in 1..(Len(sock[current].out) + 1) /\ sock'[link[c]].out[k] = o[k]
      BY <1>3, <1>4, <2>1
    <3>2. CASE k \in 1..Len(sock[current].out)
      <4>1. k \in DOMAIN sock[current].out /\ o[k] = sock[current].out[k]
        BY <1>2, <1>3, <3>2, SeqParts
      <4>2. k \in DOMAIN sock[link[c]].out /\ o[k] = sock[link[c]].out[k]
        BY <2>1, <4>1
      <4>. QED BY <3>1, <4>2 DEF IInv, AnswersInOrder
    <3>3. CASE k = Len(sock[current].out) + 1
      <4>1. got[c] + k - 1 = got[c] + Len(sock[current].out)
        BY <1>2, <1>11, <2>1, <3>3
      <4>. QED BY <1>3, <1>11, <2>1, <3>1, <3>3, <4>1
    <3>4. k \in 1..Len(sock[current].out) \/ k = Len(sock[current].out) + 1
      BY <1>2, <3>1
    <3>. QED BY <3>2, <3>3, <3>4
  <2>2. CASE link[c] # current
    BY <1>4, <1>9, <2>2 DEF IInv, AnswersInOrder
  <2>. QED BY <2>1, <2>2
<1>. QED BY <1>5, <1>6, <1>7, <1>8, <1>10, <1>12, <1>13 DEF IInv

\* RemoveClient keeps the invariant.
LEMMA RemoveStep == IInv /\ RemoveClient => IInv'
<1>. SUFFICES ASSUME IInv, RemoveClient PROVE IInv'
  OBVIOUS
<1>1. PICK k \in Found : Drop(RemoveAt(clients_, k), i)
  BY DEF RemoveClient
<1>2. /\ pc = "scan" /\ pc' = "scan" /\ i \in DOMAIN clients_ /\ i' = i
      /\ sock' = [sock EXCEPT ![current] = Closed]
      /\ clients_' = RemoveAt(clients_, k) /\ k \in DOMAIN clients_
      /\ clients_[k] = current
      /\ link' = [c \in Client |-> IF link[c] = current THEN None ELSE link[c]]
      /\ checked' = checked \cup {current} /\ read_fds' = read_fds
      /\ backlog' = backlog /\ asked' = asked /\ partial' = partial
      /\ got' = got /\ sessions' = sessions
  BY <1>1 DEF RemoveClient, NoMessage, Checking, Drop, Found, IInv, TypeOK, clientVars
<1>3. current \in Fd /\ current \in Open
  BY <1>2, CurrentIsOpen
<1>4. /\ clients_' \in Seq(Fd) /\ Len(clients_') = Len(clients_) - 1
      /\ Range(clients_') = Range(clients_) \ {current}
      /\ \A a, b \in DOMAIN clients_' : clients_'[a] = clients_'[b] => a = b
  <2>1. /\ clients_ \in Seq(Fd)
        /\ \A a, b \in DOMAIN clients_ : clients_[a] = clients_[b] => a = b
    BY DEF IInv, TypeOK, DescriptorsTracked
  <2> HIDE DEF current
  <2>. QED BY <1>2, <2>1, RemovedOnce
<1>5. /\ sock' \in [Fd -> Socket] /\ sock'[current] = Closed
      /\ \A g \in Fd \ {current} : sock'[g] = sock[g]
  <2>1. << >> \in Seq([to : Client, re : Nat])
    OBVIOUS
  <2>2. Closed \in Socket
    BY <2>1 DEF Closed, Opened, Socket
  <2> HIDE DEF current, Closed
  <2>. QED BY <1>2, <1>3, <2>2 DEF IInv, TypeOK, Socket
<1>6. Open' = Open \ {current}
  BY <1>3, <1>5 DEF Open, Closed, Opened
<1>7. TypeOK'
  <2>1. i' \in 1..(Len(clients_') + 1)
    BY <1>2, <1>4 DEF IInv, TypeOK
  <2>2. link' \in [Client -> Fd \cup {None}]
    BY <1>2 DEF IInv, TypeOK
  <2>. QED BY <1>2, <1>3, <1>4, <1>5, <2>1, <2>2 DEF IInv, TypeOK, Socket
<1>8. DescriptorsTracked'
  BY <1>4, <1>6 DEF IInv, DescriptorsTracked
<1>9. StreamAligned'
  <2>1. \A g \in Open : sock[g].taken % Message = 0
    BY <1>2 DEF IInv, StreamAligned
  <2>2. \A g \in Open' : sock'[g] = sock[g]
    BY <1>5, <1>6 DEF Open
  <2>. QED BY <1>6, <2>1, <2>2 DEF StreamAligned
<1>10. Engaged'
  BY <1>2 DEF Engaged
<1>11. ASSUME NEW c \in Client, link'[c] # None
       PROVE  /\ link'[c] = link[c] /\ link[c] # None
              /\ sock'[link'[c]] = sock[link[c]]
  BY <1>2, <1>5, <1>11 DEF IInv, TypeOK
<1>12. Linked'
  <2>1. \A g \in Fd : sock'[g].reset => sock'[g].fin
    BY <1>5 DEF IInv, Linked, Closed, Opened
  <2>. QED BY <1>11, <2>1 DEF IInv, Linked
<1>13. Waiting'
  <2>1. \A c \in Client : link[c] = None => link'[c] = None
    BY <1>11
  <2>2. \A j \in DOMAIN backlog : backlog[j].from \in Client
    <3>1. backlog \in Seq([from : Client, fin : BOOLEAN])
      BY DEF IInv, TypeOK
    <3>2. \A j \in DOMAIN backlog : backlog[j] \in [from : Client, fin : BOOLEAN]
      BY <3>1, SeqParts
    <3>. QED BY <3>2
  <2>. QED BY <1>2, <2>1, <2>2 DEF IInv, Waiting
<1>14. Counted' /\ AnswersInOrder'
  BY <1>2, <1>11 DEF IInv, Counted, AnswersInOrder, Owed
<1>. QED BY <1>7, <1>8, <1>9, <1>10, <1>12, <1>13, <1>14 DEF IInv

-----------------------------------------------------------------------------
\* What no client can disturb: who is at the other end of a descriptor, and what
\* has been taken from it.
LEMMA ClientStep ==
  ASSUME IInv, sock' \in [Fd -> Socket], UNCHANGED serverVars,
         \A g \in Fd : sock'[g].peer = sock[g].peer /\ sock'[g].taken = sock[g].taken
  PROVE  /\ DescriptorsTracked' /\ StreamAligned' /\ Engaged'
         /\ pc' = pc /\ clients_' = clients_ /\ i' = i /\ read_fds' = read_fds
         /\ checked' = checked /\ current' = current
<1>1. /\ pc' = pc /\ clients_' = clients_ /\ i' = i /\ read_fds' = read_fds
      /\ checked' = checked /\ current' = current
  BY DEF serverVars, current
<1>2. Open' = Open
  BY DEF Open
<1>3. DescriptorsTracked'
  BY <1>1, <1>2 DEF IInv, DescriptorsTracked, Range
<1>4. StreamAligned'
  BY <1>1, <1>2 DEF IInv, StreamAligned, Open
<1>5. Engaged'
  BY <1>1, CurrentIsOpen DEF IInv, Engaged
<1>. QED BY <1>1, <1>3, <1>4, <1>5

\* Of two clients that are connected each has a descriptor of its own.
LEMMA OwnDescriptor ==
  ASSUME IInv, NEW c \in Client, NEW d \in Client, link[c] # None, link[d] = link[c]
  PROVE  c = d
BY DEF IInv, Linked

\* Connect keeps the invariant.
LEMMA ConnectStep ==
  ASSUME IInv, NEW c \in Client, Connect(c)
  PROVE  IInv'
<1> DEFINE new == [from |-> c, fin |-> FALSE]
<1>1. /\ link[c] = None /\ ~Connecting(c) /\ backlog' = Append(backlog, new)
      /\ sessions' = [sessions EXCEPT ![c] = @ + 1]
      /\ asked' = [asked EXCEPT ![c] = 0] /\ partial' = [partial EXCEPT ![c] = 0]
      /\ got' = [got EXCEPT ![c] = 0]
      /\ UNCHANGED serverVars /\ sock' = sock /\ link' = link
  BY DEF Connect, Unconnected
<1>2. backlog \in Seq([from : Client, fin : BOOLEAN])
  BY DEF IInv, TypeOK
<1>3. /\ backlog' \in Seq([from : Client, fin : BOOLEAN])
      /\ Len(backlog') = Len(backlog) + 1 /\ Len(backlog) \in Nat
      /\ \A k \in 1..Len(backlog) : backlog'[k] = backlog[k]
      /\ backlog'[Len(backlog) + 1] = new
  BY <1>1, <1>2, AppendProperties, LenProperties
<1>4. sock \in [Fd -> Socket]
  BY DEF IInv, TypeOK, Socket
<1>5. /\ DescriptorsTracked' /\ StreamAligned' /\ Engaged'
      /\ pc' = pc /\ clients_' = clients_ /\ i' = i /\ read_fds' = read_fds
      /\ checked' = checked /\ current' = current
  BY <1>1, <1>4, ClientStep
<1>6. /\ got' \in [Client -> Nat] /\ got'[c] = 0
      /\ \A d \in Client \ {c} : got'[d] = got[d]
  BY <1>1 DEF IInv, TypeOK
<1>7. TypeOK'
  <2>1. /\ asked' \in [Client -> Nat] /\ partial' \in [Client -> Nat]
        /\ sessions' \in [Client -> Nat]
    BY <1>1 DEF IInv, TypeOK
  <2>. QED BY <1>1, <1>3, <1>5, <1>6, <2>1 DEF IInv, TypeOK
<1>8. Linked'
  BY <1>1 DEF IInv, Linked
<1>9. ASSUME NEW k \in 1..Len(backlog), ~backlog[k].fin
      PROVE  backlog[k].from \in Client \ {c} /\ k \in DOMAIN backlog
  <2>1. backlog[k] \in [from : Client, fin : BOOLEAN] /\ k \in DOMAIN backlog
    BY <1>2, SeqParts
  <2>2. backlog[k] # new
    BY <1>1, <2>1 DEF Connecting
  <2>. QED BY <1>9, <2>1, <2>2
<1>10. Waiting'
  <2>. SUFFICES ASSUME NEW k \in 1..(Len(backlog) + 1), ~backlog'[k].fin
                PROVE  /\ link[backlog'[k].from] = None
                       /\ got'[backlog'[k].from] = 0
                       /\ \A j \in 1..(Len(backlog) + 1) :
                            ~backlog'[j].fin /\ backlog'[j].from = backlog'[k].from => j = k
    BY <1>1, <1>3, SeqParts DEF Waiting
  <2>1. CASE k = Len(backlog) + 1
    BY <1>1, <1>3, <1>6, <1>9, <2>1
  <2>2. CASE k \in 1..Len(backlog)
    <3>1. backlog'[k] = backlog[k] /\ ~backlog[k].fin
      BY <1>3, <2>2
    <3>2. backlog[k].from \in Client \ {c} /\ k \in DOMAIN backlog
      BY <1>9, <2>2, <3>1
    <3>3. /\ link[backlog[k].from] = None /\ got[backlog[k].from] = 0
          /\ \A j \in DOMAIN backlog :
               ~backlog[j].fin /\ backlog[j].from = backlog[k].from => j = k
      BY <3>1, <3>2 DEF IInv, Waiting
    <3>4. ASSUME NEW j \in 1..(Len(backlog) + 1), ~backlog'[j].fin,
                 backlog'[j].from = backlog'[k].from
          PROVE  j = k
      <4>1. j # Len(backlog) + 1
        BY <1>3, <3>1, <3>2, <3>4
      <4>2. j \in 1..Len(backlog) /\ j \in DOMAIN backlog
        BY <1>2, <1>3, <4>1, SeqParts
      <4>. QED BY <1>3, <3>1, <3>3, <3>4, <4>2
    <3>. QED BY <1>6, <3>1, <3>2, <3>3, <3>4
  <2>. QED BY <1>3, <2>1, <2>2
<1>11. Counted' /\ AnswersInOrder'
  <2>1. \A d \in Client : link[d] # None => got'[d] = got[d]
    BY <1>1, <1>6
  <2>. QED BY <1>1, <1>5, <2>1 DEF IInv, Counted, AnswersInOrder, Owed
<1>. QED BY <1>5, <1>7, <1>8, <1>10, <1>11 DEF IInv

\* Read keeps the invariant.
LEMMA ReadStep ==
  ASSUME IInv, NEW c \in Client, Read(c)
  PROVE  IInv'
<1> DEFINE f == link[c]
           o == Tail(sock[f].out)
<1>1. /\ f # None /\ sock[f].out # << >>
      /\ sock' = [sock EXCEPT ![f].out = o] /\ got' = [got EXCEPT ![c] = @ + 1]
      /\ UNCHANGED serverVars /\ backlog' = backlog /\ link' = link
      /\ asked' = asked /\ partial' = partial /\ sessions' = sessions
  BY DEF Read
<1>2. /\ f \in Fd /\ sock[f].out \in Seq([to : Client, re : Nat])
      /\ Len(sock[f].out) \in Nat
  <2>1. f \in Fd /\ sock[f].out \in Seq([to : Client, re : Nat])
    BY <1>1 DEF IInv, TypeOK
  <2>. QED BY <2>1, LenProperties
<1>3. /\ o \in Seq([to : Client, re : Nat]) /\ Len(o) = Len(sock[f].out) - 1
      /\ Len(o) \in Nat
      /\ \A k \in 1..Len(o) : o[k] = sock[f].out[k + 1] /\ k + 1 \in DOMAIN sock[f].out
  <2>1. /\ o \in Seq([to : Client, re : Nat]) /\ Len(o) = Len(sock[f].out) - 1
        /\ Len(o) \in Nat /\ \A k \in 1..Len(o) : o[k] = sock[f].out[k + 1]
    BY <1>1, <1>2, HeadTailProperties, LenProperties
  <2>2. DOMAIN sock[f].out = 1..Len(sock[f].out)
    BY <1>2, SeqParts
  <2>. QED BY <1>2, <2>1, <2>2
<1>4. /\ sock' \in [Fd -> Socket] /\ sock'[f].out = o
      /\ \A g \in Fd : /\ sock'[g].peer = sock[g].peer /\ sock'[g].fin = sock[g].fin
                      /\ sock'[g].reset = sock[g].reset /\ sock'[g].taken = sock[g].taken
      /\ \A g \in Fd \ {f} : sock'[g] = sock[g]
  <2> HIDE DEF o, f
  <2>. QED BY <1>1, <1>2, <1>3, OutChanged
<1>5. /\ DescriptorsTracked' /\ StreamAligned' /\ Engaged'
      /\ pc' = pc /\ clients_' = clients_ /\ i' = i /\ read_fds' = read_fds
      /\ checked' = checked /\ current' = current
  BY <1>1, <1>4, ClientStep
<1>6. /\ got' \in [Client -> Nat] /\ got'[c] = got[c] + 1 /\ got[c] \in Nat
      /\ \A d \in Client \ {c} : got'[d] = got[d]
  <2>1. got \in [Client -> Nat] /\ got' = [got EXCEPT ![c] = @ + 1]
    BY <1>1 DEF IInv, TypeOK
  <2>. QED BY <2>1
<1> HIDE DEF o
<1>7. TypeOK'
  <2>1. /\ backlog' = backlog /\ link' = link /\ asked' = asked /\ partial' = partial
        /\ sessions' = sessions
    BY <1>1
  <2> HIDE DEF f
  <2>. QED BY <1>4, <1>5, <1>6, <2>1 DEF IInv, TypeOK, Socket
<1>8. \A d \in Client : link[d] # None => link[d] \in Fd
  BY DEF IInv, TypeOK
<1>9. Linked'
  BY <1>1, <1>4, <1>8 DEF IInv, Linked
<1>10. Waiting'
  <2>1. \A k \in DOMAIN backlog : backlog[k] \in [from : Client, fin : BOOLEAN]
    <3>1. backlog \in Seq([from : Client, fin : BOOLEAN])
      BY DEF IInv, TypeOK
    <3>. QED BY <3>1, SeqParts
  <2>2. \A k \in DOMAIN backlog : ~backlog[k].fin => backlog[k].from \in Client \ {c}
    BY <1>1, <2>1 DEF IInv, Waiting
  <2>. QED BY <1>1, <1>6, <2>2 DEF IInv, Waiting
<1>11. ASSUME NEW d \in Client, link[d] # None, d # c
       PROVE  sock'[link[d]] = sock[link[d]] /\ got'[d] = got[d]
  BY <1>1, <1>4, <1>6, <1>8, <1>11, OwnDescriptor
<1>12. Counted'
  <2>. SUFFICES ASSUME pc # "dead", NEW d \in Client, link[d] # None
                PROVE  got'[d] + Len(sock'[link[d]].out) + Owed(link[d])
                         = sock'[link[d]].taken \div Message + 1
    BY <1>1, <1>5 DEF Counted, Owed
  <2>1. CASE d = c
    <3>1. Len(sock'[f].out) = Len(sock[f].out) - 1 /\ sock'[f].taken = sock[f].taken
      BY <1>2, <1>3, <1>4
    <3>2. \A g, n, owed \in Nat : g + 1 + (n - 1) + owed = g + n + owed
      OBVIOUS
    <3>3. got[c] + 1 + (Len(sock[f].out) - 1) + Owed(f)
            = got[c] + Len(sock[f].out) + Owed(f)
      <4>1. Owed(f) \in Nat
        BY DEF Owed
      <4>. QED BY <1>2, <1>6, <3>2, <4>1
    <3>. QED BY <1>1, <1>6, <2>1, <3>1, <3>3 DEF IInv, Counted
  <2>2. CASE d # c
    BY <1>11, <2>2 DEF IInv, Counted
  <2>. QED BY <2>1, <2>2
<1>13. AnswersInOrder'
  <2>. SUFFICES ASSUME NEW d \in Client, link[d] # None,
                       NEW k \in DOMAIN sock'[link[d]].out
                PROVE  sock'[link[d]].out[k] = [to |-> d, re |-> got'[d] + k - 1]
    BY <1>1 DEF AnswersInOrder
  <2>1. CASE d = c
    <3>1. k \in 1..Len(o) /\ sock'[link[d]].out[k] = o[k]
      BY <1>3, <1>4, <2>1, SeqParts
    <3>2. o[k] = sock[f].out[k + 1] /\ k + 1 \in DOMAIN sock[f].out
      BY <1>3, <3>1
    <3>3. sock[f].out[k + 1] = [to |-> c, re |-> got[c] + (k + 1) - 1]
      BY <1>1, <3>2 DEF IInv, AnswersInOrder
    <3>4. got[c] + (k + 1) - 1 = got'[c] + k - 1
      <4>1. k \in Nat
        BY <1>3, <3>1
      <4>2. \A g \in Nat : g + (k + 1) - 1 = g + 1 + k - 1
        BY <4>1
      <4>. QED BY <1>6, <4>2
    <3>. QED BY <2>1, <3>1, <3>2, <3>3, <3>4
  <2>2. CASE d # c
    BY <1>11, <2>2 DEF IInv, AnswersInOrder
  <2>. QED BY <2>1, <2>2
<1>. QED BY <1>5, <1>7, <1>9, <1>10, <1>12, <1>13 DEF IInv

\* Write keeps the invariant.
LEMMA WriteStep ==
  ASSUME IInv, NEW c \in Client, Write(c)
  PROVE  IInv'
<1> DEFINE f == link[c]
<1>1. PICK upto \in Boundaries \cup {Message} :
        /\ upto > partial[c]
        /\ sock' = [sock EXCEPT ![f].unread = @ + upto - partial[c]]
        /\ partial' = [partial EXCEPT ![c] = upto % Message]
        /\ asked' = [asked EXCEPT ![c] = IF upto = Message THEN @ + 1 ELSE @]
  BY DEF Write
<1>2. /\ f # None /\ UNCHANGED serverVars /\ backlog' = backlog /\ link' = link
      /\ got' = got /\ sessions' = sessions
  BY DEF Write
<1>3. /\ f \in Fd /\ sock \in [Fd -> Socket] /\ sock[f] \in Socket
      /\ partial \in [Client -> Nat] /\ asked \in [Client -> Nat]
  BY <1>2 DEF IInv, TypeOK, Socket
<1>4. upto \in Nat /\ upto % Message \in Nat
  <2>1. upto \in Nat
    BY ServerAssumption DEF ServerAssumption, Message
  <2>. QED BY <2>1 DEF Message
<1>5. /\ sock' \in [Fd -> Socket]
      /\ \A g \in Fd : /\ sock'[g].peer = sock[g].peer /\ sock'[g].fin = sock[g].fin
                      /\ sock'[g].reset = sock[g].reset /\ sock'[g].taken = sock[g].taken
                      /\ sock'[g].out = sock[g].out
  <2> DEFINE u == sock[f].unread + upto - partial[c]
  <2>1. u \in Nat
    BY <1>1, <1>3, <1>4 DEF Socket
  <2>2. sock' = [sock EXCEPT ![f].unread = u]
    BY <1>1
  <2> HIDE DEF u, f
  <2>3. sock'[f] = [sock[f] EXCEPT !.unread = u]
    BY <1>3, <2>2
  <2>4. [sock[f] EXCEPT !.unread = u] \in Socket
    BY <1>3, <2>1 DEF Socket
  <2>5. /\ sock'[f].peer = sock[f].peer /\ sock'[f].fin = sock[f].fin
        /\ sock'[f].reset = sock[f].reset /\ sock'[f].taken = sock[f].taken
        /\ sock'[f].out = sock[f].out
    BY <1>3, <2>3 DEF Socket
  <2>6. \A g \in Fd \ {f} : sock'[g] = sock[g]
    BY <1>3, <2>2
  <2>7. sock' \in [Fd -> Socket]
    BY <1>3, <2>2, <2>3, <2>4, <2>6
  <2>. QED BY <2>5, <2>6, <2>7
<1>6. /\ DescriptorsTracked' /\ StreamAligned' /\ Engaged'
      /\ pc' = pc /\ clients_' = clients_ /\ i' = i /\ read_fds' = read_fds
      /\ checked' = checked /\ current' = current
  BY <1>2, <1>5, ClientStep
<1>7. TypeOK'
  <2>1. partial' \in [Client -> Nat] /\ asked' \in [Client -> Nat]
    BY <1>1, <1>3, <1>4
  <2>2. backlog' = backlog /\ link' = link /\ got' = got /\ sessions' = sessions
    BY <1>2
  <2> HIDE DEF f
  <2>. QED BY <1>5, <1>6, <2>1, <2>2 DEF IInv, TypeOK, Socket
<1>8. \A d \in Client : link[d] # None => link[d] \in Fd
  BY DEF IInv, TypeOK
<1>9. Linked' /\ Waiting'
  BY <1>2, <1>5, <1>8 DEF IInv, Linked, Waiting
<1>10. Counted' /\ AnswersInOrder'
  BY <1>2, <1>5, <1>6, <1>8 DEF IInv, Counted, AnswersInOrder, Owed
<1>. QED BY <1>6, <1>7, <1>9, <1>10 DEF IInv

\* The end of a connection arrives, or is a reset: what counts for the server's
\* answers is as it was.
LEMMA EndStep ==
  ASSUME IInv, NEW f \in Fd, NEW x \in Socket, sock' = [sock EXCEPT ![f] = x],
         x.peer = sock[f].peer, x.taken = sock[f].taken, x.out = sock[f].out, x.fin,
         \A c \in Client : link'[c] # None => link'[c] = link[c] /\ link[c] # f,
         link' \in [Client -> Fd \cup {None}],
         UNCHANGED <<serverVars, backlog, clientVars>>
  PROVE  IInv'
<1>1. /\ backlog' = backlog /\ asked' = asked /\ partial' = partial /\ got' = got
      /\ sessions' = sessions /\ UNCHANGED serverVars
  BY DEF clientVars
<1>2. /\ sock' \in [Fd -> Socket] /\ sock'[f] = x
      /\ \A g \in Fd \ {f} : sock'[g] = sock[g]
  BY DEF IInv, TypeOK, Socket
<1>3. /\ DescriptorsTracked' /\ StreamAligned' /\ Engaged'
      /\ pc' = pc /\ clients_' = clients_ /\ i' = i /\ read_fds' = read_fds
      /\ checked' = checked /\ current' = current
  BY <1>1, <1>2, ClientStep
<1>4. TypeOK'
  BY <1>1, <1>2, <1>3 DEF IInv, TypeOK, Socket
<1>5. \A c \in Client : link'[c] # None =>
        link'[c] = link[c] /\ link'[c] \in Fd /\ sock'[link'[c]] = sock[link[c]]
  BY <1>2
<1>6. Linked'
  BY <1>2, <1>5 DEF IInv, Linked
<1>7. Waiting'
  <2>1. \A k \in DOMAIN backlog : backlog[k] \in [from : Client, fin : BOOLEAN]
    <3>1. backlog \in Seq([from : Client, fin : BOOLEAN])
      BY DEF IInv, TypeOK
    <3>. QED BY <3>1, SeqParts
  <2>2. \A c \in Client : link[c] = None => link'[c] = None
    OBVIOUS
  <2>. QED BY <1>1, <2>1, <2>2 DEF IInv, Waiting
<1>8. Counted' /\ AnswersInOrder'
  BY <1>1, <1>3, <1>5 DEF IInv, Counted, AnswersInOrder, Owed
<1>. QED BY <1>3, <1>4, <1>6, <1>7, <1>8 DEF IInv

\* Reset keeps the invariant.
LEMMA ResetStep ==
  ASSUME IInv, NEW f \in Fd, Reset(f)
  PROVE  IInv'
<1> DEFINE x == [sock[f] EXCEPT !.reset = TRUE, !.unread = 0]
<1>1. sock \in [Fd -> Socket] /\ sock[f] \in Socket
  BY DEF IInv, TypeOK, Socket
<1>2. sock' = [sock EXCEPT ![f] = x]
  BY <1>1 DEF Reset
<1>3. /\ x \in Socket /\ x.peer = sock[f].peer /\ x.taken = sock[f].taken
      /\ x.out = sock[f].out /\ x.fin = sock[f].fin
  BY <1>1 DEF Socket
<1>4. \A c \in Client : link[c] # None => link[c] # f
  BY DEF IInv, Linked, Reset
<1>5. link' = link /\ link \in [Client -> Fd \cup {None}] /\ sock[f].fin
      /\ UNCHANGED <<serverVars, backlog, clientVars>>
  BY DEF Reset, IInv, TypeOK
<1> HIDE DEF x
<1>. QED BY <1>2, <1>3, <1>4, <1>5, EndStep

\* Quit keeps the invariant.
LEMMA QuitStep ==
  ASSUME IInv, NEW c \in Client, Quit(c)
  PROVE  IInv'
<1>1. /\ link' = [link EXCEPT ![c] = None] /\ UNCHANGED <<serverVars, clientVars>>
      /\ link \in [Client -> Fd \cup {None}] /\ sock \in [Fd -> Socket]
  BY DEF Quit, IInv, TypeOK, Socket
<1>2. /\ link' \in [Client -> Fd \cup {None}] /\ link'[c] = None
      /\ \A d \in Client \ {c} : link'[d] = link[d]
  BY <1>1
<1>3. CASE /\ link[c] # None /\ sock' = [sock EXCEPT ![link[c]].fin = TRUE]
           /\ UNCHANGED backlog
  <2> DEFINE f == link[c]
             x == [sock[f] EXCEPT !.fin = TRUE]
  <2>1. f \in Fd /\ sock[f] \in Socket
    BY <1>1, <1>3
  <2>2. sock' = [sock EXCEPT ![f] = x]
    BY <1>1, <1>3, <2>1
  <2>3. /\ x \in Socket /\ x.peer = sock[f].peer /\ x.taken = sock[f].taken
        /\ x.out = sock[f].out /\ x.fin
    BY <2>1 DEF Socket
  <2>4. \A d \in Client : link'[d] # None => link'[d] = link[d] /\ link[d] # f
    BY <1>2, <1>3, OwnDescriptor
  <2> HIDE DEF f, x
  <2>. QED BY <1>1, <1>2, <1>3, <2>1, <2>2, <2>3, <2>4, EndStep
<1>4. CASE /\ Connecting(c)
           /\ backlog' = [k \in DOMAIN backlog |->
                            IF backlog[k].from = c THEN [backlog[k] EXCEPT !.fin = TRUE]
                                                   ELSE backlog[k]]
           /\ UNCHANGED sock
  <2> DEFINE E == [from : Client, fin : BOOLEAN]
  <2>1. backlog \in Seq(E) /\ DOMAIN backlog = 1..Len(backlog) /\ Len(backlog) \in Nat
    <3>1. backlog \in Seq(E)
      BY DEF IInv, TypeOK
    <3> HIDE DEF E
    <3>. QED BY <3>1, SeqParts, LenProperties
  <2>2. \A k \in DOMAIN backlog : backlog[k] \in E
    <3> HIDE DEF E
    <3>. QED BY <2>1, SeqParts
  <2>3. ASSUME NEW k \in DOMAIN backlog
        PROVE  /\ backlog'[k] \in E /\ backlog'[k].from = backlog[k].from
               /\ backlog[k].fin => backlog'[k].fin
               /\ backlog[k].from = c => backlog'[k].fin
    <3>1. backlog[k] \in E
      BY <2>2
    <3>2. CASE backlog[k].from = c
      <4>1. backlog'[k] = [backlog[k] EXCEPT !.fin = TRUE]
        BY <1>4, <3>2
      <4>. QED BY <3>1, <4>1
    <3>3. CASE backlog[k].from # c
      <4>1. backlog'[k] = backlog[k]
        BY <1>4, <3>3
      <4>. QED BY <3>1, <3>3, <4>1
    <3>. QED BY <3>2, <3>3
  <2>4. DOMAIN backlog' = DOMAIN backlog /\ backlog' \in Seq(E)
    <3>1. DOMAIN backlog' = 1..Len(backlog)
      BY <1>4, <2>1
    <3>2. backlog' \in [1..Len(backlog) -> E]
      <4> HIDE DEF E
      <4>. QED BY <1>4, <2>1, <2>3
    <3> HIDE DEF E
    <3>. QED BY <2>1, <3>1, <3>2, SeqDef
  <2>5. link[c] = None
    <3>1. PICK k \in DOMAIN backlog : backlog[k] = [from |-> c, fin |-> FALSE]
      BY <1>4 DEF Connecting
    <3>. QED BY <3>1 DEF IInv, Waiting
  <2>6. link' = link /\ sock' = sock /\ asked' = asked /\ partial' = partial
        /\ got' = got /\ sessions' = sessions
    BY <1>1, <1>4, <2>5 DEF clientVars
  <2>7. /\ DescriptorsTracked' /\ StreamAligned' /\ Engaged'
        /\ pc' = pc /\ clients_' = clients_ /\ i' = i /\ read_fds' = read_fds
        /\ checked' = checked /\ current' = current
    BY <1>1, <2>6, ClientStep
  <2>8. TypeOK'
    BY <2>4, <2>6, <2>7 DEF IInv, TypeOK
  <2>9. Waiting'
    BY <2>3, <2>4, <2>6 DEF IInv, Waiting
  <2>10. Linked' /\ Counted' /\ AnswersInOrder'
    BY <2>6, <2>7 DEF IInv, Linked, Counted, AnswersInOrder, Owed
  <2>. QED BY <2>7, <2>8, <2>9, <2>10 DEF IInv
<1>. QED BY <1>3, <1>4 DEF Quit

-----------------------------------------------------------------------------
\* Dispatch keeps the invariant.
LEMMA DispatchStep ==
  ASSUME IInv, NEW marked, marked \subseteq Fd \cup {None}, Dispatch(marked)
  PROVE  IInv'
<1>1. /\ pc = "select" /\ pc' \in {"accept", "scan"} /\ read_fds' = marked
      /\ checked' = {} /\ UNCHANGED <<clients_, sock, backlog, link, clientVars>>
      /\ i' = i \/ i' = 1
  BY DEF Dispatch
<1>2. i' \in 1..(Len(clients_) + 1)
  BY <1>1 DEF IInv, TypeOK
<1>. QED BY <1>1, <1>2, QuietStep

\* Every step keeps the invariant.
LEMMA NextIInv == IInv /\ [Next]_vars => IInv'
<1>. SUFFICES ASSUME IInv, [Next]_vars PROVE IInv'
  OBVIOUS
<1>1. Range(clients_) \subseteq Fd /\ clients_ \in Seq(Fd) /\ i \in 1..(Len(clients_) + 1)
  BY DEF IInv, TypeOK, DescriptorsTracked, Open
<1>2. CASE Select
  BY <1>1, <1>2, DispatchStep DEF Select
<1>3. CASE SelectInterrupted
  BY <1>1, <1>3, DispatchStep DEF SelectInterrupted
<1>4. CASE Accept
  BY <1>4, AcceptStep
<1>5. CASE AcceptFails \/ WelcomeFails
  BY <1>5, DieStep DEF AcceptFails, WelcomeFails
<1>6. CASE Skip
  <2>1. i' \in 1..(Len(clients_) + 1) /\ read_fds' \subseteq Fd \cup {None}
        /\ checked' \subseteq Fd
    BY <1>1, <1>6 DEF Skip, IInv, TypeOK
  <2>. QED BY <1>6, <2>1, QuietStep DEF Skip
<1>7. CASE EndScan
  <2>1. i' \in 1..(Len(clients_) + 1) /\ read_fds' \subseteq Fd \cup {None}
        /\ checked' \subseteq Fd
    BY <1>1, <1>7 DEF EndScan, IInv, TypeOK
  <2>. QED BY <1>7, <2>1, QuietStep DEF EndScan
<1>8. CASE ReceiveHeader
  BY <1>8, HeaderStep
<1>9. CASE RemoveClient
  BY <1>9, RemoveStep
<1>10. CASE ReceiveBody
  BY <1>10, BodyStep
<1>11. CASE ShortBody \/ BodyIsNoMap
  BY <1>11, DieStep DEF ShortBody, BodyIsNoMap
<1>12. CASE Reply
  BY <1>12, ReplyStep
<1>13. CASE ReplyFails \/ HandlerFails
  BY <1>13, DieStep DEF ReplyFails, HandlerFails
<1>14. ASSUME NEW c \in Client, Connect(c) \/ Read(c) \/ Write(c) \/ Quit(c)
       PROVE  IInv'
  BY <1>14, ConnectStep, ReadStep, WriteStep, QuitStep
<1>15. ASSUME NEW f \in Fd, Reset(f)
       PROVE  IInv'
  BY <1>15, ResetStep
<1>16. CASE UNCHANGED vars
  <2>1. /\ sock' = sock /\ backlog' = backlog /\ link' = link /\ asked' = asked
        /\ partial' = partial /\ got' = got /\ sessions' = sessions
        /\ UNCHANGED serverVars
    BY <1>16 DEF vars, clientVars
  <2>2. sock \in [Fd -> Socket]
    BY DEF IInv, TypeOK, Socket
  <2>3. /\ DescriptorsTracked' /\ StreamAligned' /\ Engaged'
        /\ pc' = pc /\ clients_' = clients_ /\ i' = i /\ read_fds' = read_fds
        /\ checked' = checked /\ current' = current
    BY <2>1, <2>2, ClientStep
  <2>. QED BY <2>1, <2>3 DEF IInv, TypeOK, Linked, Waiting, Counted, AnswersInOrder, Owed
<1>. QED BY <1>2, <1>3, <1>4, <1>5, <1>6, <1>7, <1>8, <1>9, <1>10, <1>11, <1>12,
            <1>13, <1>14, <1>15, <1>16 DEF Next, Serve

\* The invariant holds in every state.
LEMMA AlwaysIInv == Spec => []IInv
BY InitIInv, NextIInv, PTL DEF Spec

-----------------------------------------------------------------------------
(* The scan *)

\* The clients before place n that were marked have been come to, those from n on
\* have not.
Scanned(n) ==
  \A j \in DOMAIN clients_ :
    /\ j < n /\ clients_[j] \in read_fds => clients_[j] \in checked
    /\ j >= n => clients_[j] \notin checked

\* ... where n is the place of the next client.
ScanInv ==
  /\ pc = "scan" => Scanned(i)
  /\ pc \in {"body", "reply"} => Scanned(i + 1)

\* The descriptor the scan comes to was not served in this round.
LEMMA ComeTo ==
  ASSUME IInv, ScanInv, pc = "scan", i \in DOMAIN clients_
  PROVE  current \notin checked
BY DEF ScanInv, Scanned, current, IInv, TypeOK

\* A header that is received keeps the account of the round.
LEMMA HeaderScan ==
  ASSUME IInv, ScanInv, ReceiveHeader
  PROVE  ScanInv'
<1>1. /\ pc = "scan" /\ pc' = "body" /\ i \in DOMAIN clients_ /\ i' = i
      /\ clients_' = clients_ /\ read_fds' = read_fds
      /\ checked' = checked \cup {clients_[i]}
  BY DEF ReceiveHeader, Checking, current, IInv, TypeOK
<1>2. ASSUME NEW j \in DOMAIN clients_
      PROVE  /\ j < i + 1 /\ clients_[j] \in read_fds => clients_[j] \in checked'
             /\ j >= i + 1 => clients_[j] \notin checked'
  <2>1. j \in Nat /\ i \in Nat
    BY <1>1, PlacesAreNumbers
  <2>2. /\ j < i /\ clients_[j] \in read_fds => clients_[j] \in checked
        /\ j >= i => clients_[j] \notin checked
    BY <1>1 DEF ScanInv, Scanned
  <2>3. clients_[j] = clients_[i] => j = i
    BY <1>1 DEF IInv, DescriptorsTracked
  <2>4. j < i \/ j = i \/ j >= i + 1
    BY <2>1
  <2>. QED BY <1>1, <2>1, <2>2, <2>3, <2>4
<1>. QED BY <1>1, <1>2 DEF ScanInv, Scanned

\* The one that moves up into the place of a removed client has not been come to.
LEMMA RemoveScan ==
  ASSUME IInv, ScanInv, RemoveClient
  PROVE  ScanInv'
<1>1. PICK k \in Found : Drop(RemoveAt(clients_, k), i)
  BY DEF RemoveClient
<1>2. /\ pc = "scan" /\ pc' = "scan" /\ i \in DOMAIN clients_ /\ i' = i
      /\ clients_' = RemoveAt(clients_, k) /\ k \in DOMAIN clients_
      /\ clients_[k] = clients_[i]
      /\ checked' = checked \cup {clients_[i]} /\ read_fds' = read_fds
  BY <1>1 DEF RemoveClient, NoMessage, Checking, Drop, Found, current, IInv, TypeOK
<1>3. /\ clients_ \in Seq(Fd)
      /\ \A a, b \in DOMAIN clients_ : clients_[a] = clients_[b] => a = b
  BY DEF IInv, TypeOK, DescriptorsTracked
<1>4. k = i
  BY <1>2, <1>3
<1>5. \A j \in DOMAIN clients_' : LET p == IF j < i THEN j ELSE j + 1
        IN  clients_'[j] = clients_[p] /\ p \in DOMAIN clients_ \ {i}
  BY <1>2, <1>3, <1>4, RemovedOnce
<1>6. clients_' \in Seq(Fd)
  BY <1>2, <1>3, RemovedOnce
<1>7. ASSUME NEW j \in DOMAIN clients_'
      PROVE  /\ j < i /\ clients_'[j] \in read_fds => clients_'[j] \in checked'
             /\ j >= i => clients_'[j] \notin checked'
  <2>1. j \in Nat /\ i \in Nat
    <3>1. DOMAIN clients_' = 1..Len(clients_') /\ Len(clients_') \in Nat
      BY <1>6, SeqParts, LenProperties
    <3>. QED BY <1>2, <3>1 DEF IInv, TypeOK
  <2>2. CASE j < i
    <3>1. clients_'[j] = clients_[j] /\ j \in DOMAIN clients_
      BY <1>5, <2>2
    <3>. QED BY <1>2, <2>1, <2>2, <3>1 DEF ScanInv, Scanned
  <2>3. CASE ~(j < i)
    <3>1. /\ clients_'[j] = clients_[j + 1] /\ j + 1 \in DOMAIN clients_
          /\ j + 1 # i
      BY <1>5, <2>3
    <3>2. clients_[j + 1] \notin checked
      BY <1>2, <2>1, <2>3, <3>1 DEF ScanInv, Scanned
    <3>3. clients_[j + 1] # clients_[i]
      BY <1>2, <1>3, <3>1
    <3>. QED BY <1>2, <2>3, <3>1, <3>2, <3>3
  <2>. QED BY <2>2, <2>3
<1>. QED BY <1>2, <1>7 DEF ScanInv, Scanned

\* Every step keeps the account of the round.
LEMMA NextScanInv == IInv /\ ScanInv /\ [Next]_vars => ScanInv'
<1>. SUFFICES ASSUME IInv, ScanInv, [Next]_vars PROVE ScanInv'
  OBVIOUS
<1>1. ASSUME NEW marked, Dispatch(marked) PROVE ScanInv'
  <2>1. CASE pc' = "accept"
    BY <2>1 DEF ScanInv
  <2>2. CASE pc' = "scan" /\ i' = 1
    <3>1. clients_' = clients_ /\ checked' = {}
      BY <1>1 DEF Dispatch
    <3>2. \A j \in DOMAIN clients_ : ~(j < 1)
      BY DEF IInv, TypeOK
    <3>. QED BY <2>2, <3>1, <3>2 DEF ScanInv, Scanned
  <2>. QED BY <1>1, <2>1, <2>2 DEF Dispatch
<1>2. CASE Accept \/ EndScan \/ Die
  <2>1. pc' \in {"select", "dead"}
    BY <1>2 DEF Accept, Enter, EndScan, Die
  <2>. QED BY <2>1 DEF ScanInv
<1>3. CASE Skip
  <2>1. /\ pc = "scan" /\ pc' = "scan" /\ i' = i + 1 /\ i \in DOMAIN clients_
        /\ clients_[i] \notin read_fds
        /\ clients_' = clients_ /\ read_fds' = read_fds /\ checked' = checked
    BY <1>3 DEF Skip, current, IInv, TypeOK
  <2>2. ASSUME NEW j \in DOMAIN clients_
        PROVE  /\ j < i + 1 /\ clients_[j] \in read_fds => clients_[j] \in checked
               /\ j >= i + 1 => clients_[j] \notin checked
    <3>1. j \in Nat /\ i \in Nat
      BY <2>1, PlacesAreNumbers
    <3>2. j < i \/ j = i \/ j >= i + 1
      BY <3>1
    <3>. QED BY <2>1, <3>1, <3>2 DEF ScanInv, Scanned
  <2>. QED BY <2>1, <2>2 DEF ScanInv, Scanned
<1>4. CASE ReceiveHeader
  BY <1>4, HeaderScan
<1>5. CASE RemoveClient
  BY <1>5, RemoveScan
<1>6. CASE ReceiveBody
  BY <1>6 DEF ReceiveBody, ScanInv, Scanned
<1>7. CASE Reply
  BY <1>7 DEF Reply, Answer, ScanInv, Scanned
<1>8. CASE UNCHANGED serverVars
  BY <1>8 DEF serverVars, ScanInv, Scanned
<1>9. ASSUME NEW c \in Client, Connect(c) \/ Read(c) \/ Write(c) \/ Quit(c)
      PROVE  UNCHANGED serverVars
  BY <1>9 DEF Connect, Read, Write, Quit
<1>10. ASSUME NEW f \in Fd, Reset(f)
       PROVE  UNCHANGED serverVars
  BY <1>10 DEF Reset
<1>. QED BY <1>1, <1>2, <1>3, <1>4, <1>5, <1>6, <1>7, <1>8, <1>9, <1>10
         DEF Next, Serve, Select, SelectInterrupted, AcceptFails, WelcomeFails, ShortBody,
             BodyIsNoMap, ReplyFails, HandlerFails, vars

\* The two invariants hold in every state.
LEMMA AlwaysScanInv == Spec => [](IInv /\ ScanInv)
<1>1. Init => ScanInv
  BY DEF Init, ScanInv
<1>. QED BY <1>1, InitIInv, NextIInv, NextScanInv, PTL DEF Spec

-----------------------------------------------------------------------------
\* The server's variables have their types, i never leaves the vector by more than
\* the place behind its end, and select is given descriptors only (run).
THEOREM TypeCorrect == Spec => []TypeOK
BY AlwaysIInv, PTL DEF IInv

\* clients_ holds each open descriptor once and no other (addNewConnection,
\* removeClient).
THEOREM EveryDescriptorTracked == Spec => []DescriptorsTracked
BY AlwaysIInv, PTL DEF IInv

\* Between two messages every stream is at a message's beginning
\* (receiveMessageFrom).
THEOREM MessagesTakenWhole == Spec => []StreamAligned
BY AlwaysIInv, PTL DEF IInv

\* What waits for a client are the answers to its own requests, in order, none lost
\* and none doubled (processMessageFrom, accept's reuse of descriptors).
THEOREM AnswersKeepOrder == Spec => []AnswersInOrder
BY AlwaysIInv, PTL DEF IInv

\* A scan does not end before every marked client has been come to, whatever was
\* removed on the way (run's --i).
THEOREM ScanMissesNone == Spec => ScanComplete
<1>1. ASSUME IInv, ScanInv, [Next]_vars
      PROVE  [pc = "scan" /\ pc' = "select" => read_fds \cap Range(clients_) \subseteq checked]_vars
  <2>. SUFFICES ASSUME Next, pc = "scan", pc' = "select"
                PROVE  read_fds \cap Range(clients_) \subseteq checked
    BY <1>1
  <2>1. i > Len(clients_)
    <3>1. EndScan
      BY DEF Next, Serve, Select, SelectInterrupted, Dispatch, Accept, Enter, AcceptFails,
             WelcomeFails, Skip, ReceiveHeader, RemoveClient, NoMessage, Drop, ReceiveBody,
             ShortBody, BodyIsNoMap, Reply, Answer, ReplyFails, HandlerFails, Die,
             Connect, Read, Write, Quit, Reset, serverVars
    <3>. QED BY <3>1 DEF EndScan
  <2>2. \A j \in DOMAIN clients_ : j < i
    BY <1>1, <2>1 DEF IInv, TypeOK
  <2>. QED BY <1>1, <2>2 DEF ScanInv, Scanned, Range
<1>. QED BY <1>1, AlwaysScanInv, PTL DEF Spec, ScanComplete

\* A scan comes to no client twice: one mark of select is one recv, also for the
\* client that has moved up (run's --i).
THEOREM ScanRepeatsNone == Spec => OncePerScan
<1>1. ASSUME IInv, ScanInv, [Next]_vars
      PROVE  [ReceiveHeader \/ RemoveClient => current \notin checked]_vars
  <2>1. ReceiveHeader \/ RemoveClient => pc = "scan" /\ i \in DOMAIN clients_
    BY <1>1 DEF ReceiveHeader, RemoveClient, NoMessage, Checking, IInv, TypeOK
  <2>. QED BY <1>1, <2>1, ComeTo
<1>. QED BY <1>1, AlwaysScanInv, PTL DEF Spec, OncePerScan

-----------------------------------------------------------------------------
(* To each of its clients the server is a Session *)

\* What a client has sent of its requests is what the server has taken and what
\* waits to be taken; a client that waits has sent nothing.
Requested ==
  /\ \A c \in Client : partial[c] < Message
  /\ \A c \in Client : link[c] # None =>
       sock[link[c]].taken + sock[link[c]].unread = Message * asked[c] + partial[c]
  /\ \A c \in Client : Connecting(c) => asked[c] = 0 /\ partial[c] = 0

\* What Session calls session.
shown == [c \in Client |-> SessionOf(c)]

\* When the session of no client changes nothing is shown.
LEMMA Same ==
  ASSUME \A d \in Client : SessionOf(d)' = SessionOf(d)
  PROVE  shown' = shown
BY DEF shown

\* When the session of one client changes only that one is shown.
LEMMA OnlyOf ==
  ASSUME NEW c \in Client, NEW s, SessionOf(c)' = s,
         \A d \in Client \ {c} : SessionOf(d)' = SessionOf(d)
  PROVE  shown' = [shown EXCEPT ![c] = s]
BY DEF shown

\* A client that waits to be accepted has no descriptor and has read nothing.
LEMMA WaitsUnlinked ==
  ASSUME IInv, NEW c \in Client, Connecting(c)
  PROVE  link[c] = None /\ got[c] = 0
BY DEF Connecting, IInv, Waiting

\* A connected client has a descriptor, its two directions and its counters.
LEMMA LinkedParts ==
  ASSUME IInv, NEW c \in Client, link[c] # None
  PROVE  /\ link[c] \in Fd /\ sock[link[c]] \in Socket
         /\ Len(sock[link[c]].out) \in Nat
         /\ sock[link[c]].taken \in Nat /\ sock[link[c]].unread \in Nat
         /\ asked[c] \in Nat /\ partial[c] \in Nat /\ got[c] \in Nat
         /\ ~sock[link[c]].fin /\ ~sock[link[c]].reset
<1>1. /\ link[c] \in Fd /\ sock[link[c]] \in Socket
      /\ asked[c] \in Nat /\ partial[c] \in Nat /\ got[c] \in Nat
  BY DEF IInv, TypeOK, Socket
<1>2. sock[link[c]].out \in Seq([to : Client, re : Nat])
  BY <1>1 DEF Socket
<1>3. ~sock[link[c]].fin /\ ~sock[link[c]].reset
  BY <1>1 DEF IInv, Linked
<1>. QED BY <1>1, <1>2, <1>3, LenProperties DEF Socket

\* A step that only moves units of a connected client from unread to taken.
LEMMA Kept ==
  ASSUME IInv, Requested, backlog' = backlog, link' = link, UNCHANGED clientVars,
         \A c \in Client : link[c] # None =>
           /\ sock'[link[c]].out = sock[link[c]].out
           /\ sock'[link[c]].taken + sock'[link[c]].unread
                = sock[link[c]].taken + sock[link[c]].unread
  PROVE  Requested' /\ shown' = shown
<1>1. asked' = asked /\ partial' = partial /\ got' = got
  BY DEF clientVars
<1>2. Requested'
  BY <1>1 DEF Requested, Connecting
<1>3. \A d \in Client : SessionOf(d)' = SessionOf(d)
  BY <1>1 DEF SessionOf, Connecting
<1>. QED BY <1>2, <1>3, Same

\* A step that leaves sockets and clients alone shows nothing.
LEMMA QuietKept ==
  ASSUME IInv, Requested, UNCHANGED <<sock, backlog, link, clientVars>>
  PROVE  Requested' /\ shown' = shown
BY Kept

\* A recv of the server shows nothing to any client.
LEMMA TakeKept ==
  ASSUME IInv, Requested, ReceiveHeader \/ ReceiveBody
  PROVE  Requested' /\ shown' = shown
<1>1. /\ backlog' = backlog /\ link' = link /\ UNCHANGED clientVars
      /\ i \in DOMAIN clients_
  BY DEF ReceiveHeader, ReceiveBody, Checking, IInv, TypeOK, Engaged
<1>2. PICK n \in Nat : /\ sock[current].unread >= n
                       /\ sock' = [sock EXCEPT ![current].unread = @ - n,
                                               ![current].taken = @ + n]
  BY DEF ReceiveHeader, ReceiveBody, Header, Message
<1>3. current \in Fd
  BY <1>1, CurrentIsOpen
<1>4. ASSUME NEW c \in Client, link[c] # None
      PROVE  /\ sock'[link[c]].out = sock[link[c]].out
             /\ sock'[link[c]].taken + sock'[link[c]].unread
                  = sock[link[c]].taken + sock[link[c]].unread
  <2>1. /\ link[c] \in Fd /\ sock[link[c]] \in Socket /\ sock \in [Fd -> Socket]
        /\ sock[link[c]].taken \in Nat /\ sock[link[c]].unread \in Nat
    BY <1>4, LinkedParts DEF IInv, TypeOK, Socket
  <2>2. CASE link[c] = current
    <3> DEFINE u == sock[current].unread - n
               t == sock[current].taken + n
    <3>1. t + u = sock[current].taken + sock[current].unread
      BY <2>1, <2>2
    <3>2. sock'[current] = [sock[current] EXCEPT !.unread = u, !.taken = t]
      BY <1>2, <1>3, <2>1
    <3> HIDE DEF u, t, current
    <3>3. /\ sock'[current].out = sock[current].out
          /\ sock'[current].taken = t /\ sock'[current].unread = u
      BY <2>1, <2>2, <3>2 DEF Socket
    <3>. QED BY <2>2, <3>1, <3>3
  <2>3. CASE link[c] # current
    BY <1>2, <2>1, <2>3
  <2>. QED BY <2>2, <2>3
<1>. QED BY <1>1, <1>4, Kept

\* A reset of a client that has left shows nothing.
LEMMA ResetKept ==
  ASSUME IInv, Requested, NEW f \in Fd, Reset(f)
  PROVE  Requested' /\ shown' = shown
<1>1. /\ backlog' = backlog /\ link' = link /\ UNCHANGED clientVars /\ sock[f].fin
      /\ \A g \in Fd \ {f} : sock'[g] = sock[g]
  BY DEF Reset, IInv, TypeOK
<1>2. \A c \in Client : link[c] # None => link[c] \in Fd \ {f}
  BY <1>1, LinkedParts
<1>. QED BY <1>1, <1>2, Kept

-----------------------------------------------------------------------------
\* addNewConnection: the connection that waits is welcomed, or, when its client has
\* gone, nobody is.
LEMMA AcceptSession ==
  ASSUME IInv, Requested, Accept
  PROVE  Requested' /\ [Sessions!Next]_shown
<1>1. /\ backlog # << >> /\ backlog \in Seq([from : Client, fin : BOOLEAN])
      /\ Len(backlog) \in Nat
  BY LenProperties DEF Accept, Listening, IInv, TypeOK
<1>2. Head(backlog) \in [from : Client, fin : BOOLEAN]
  BY <1>1, HeadTailProperties
<1>3. PICK c \in Client, fin \in BOOLEAN : Head(backlog) = [from |-> c, fin |-> fin]
  BY <1>2
<1>4. PICK f \in Lowest : Enter(f, <<Welcome(c)>>)
  BY <1>3 DEF Accept
<1>5. /\ sock' = [sock EXCEPT ![f] = Opened(c, fin, <<Welcome(c)>>)]
      /\ link' = IF fin THEN link ELSE [link EXCEPT ![c] = f]
      /\ backlog' = Tail(backlog)
      /\ asked' = asked /\ partial' = partial /\ got' = got
  <2>1. Head(backlog).from = c /\ Head(backlog).fin = fin
    BY <1>3
  <2>. QED BY <1>4, <2>1 DEF Enter, clientVars
<1>6. f \in Fd /\ f \notin Open /\ f # None /\ sock \in [Fd -> Socket]
  BY ServerAssumption DEF Lowest, ServerAssumption, IInv, TypeOK, Socket
<1>7. /\ backlog[1] = [from |-> c, fin |-> fin]
      /\ DOMAIN backlog' = 1..(Len(backlog) - 1) /\ DOMAIN backlog = 1..Len(backlog)
      /\ \A k \in 1..(Len(backlog) - 1) : backlog'[k] = backlog[k + 1]
      /\ Len(backlog) > 0
  BY <1>1, <1>3, <1>5, HeadTailProperties, SeqParts
<1> DEFINE Later(d) == \E k \in 2..Len(backlog) : backlog[k] = [from |-> d, fin |-> FALSE]
<1>8. ASSUME NEW d \in Client PROVE Connecting(d)' <=> Later(d)
  <2>1. ASSUME NEW k \in 1..(Len(backlog) - 1)
        PROVE  k + 1 \in 2..Len(backlog) /\ backlog'[k] = backlog[k + 1]
    BY <1>1, <1>7
  <2>2. ASSUME NEW k \in 2..Len(backlog)
        PROVE  k - 1 \in DOMAIN backlog' /\ backlog'[k - 1] = backlog[k]
    <3>1. k - 1 \in 1..(Len(backlog) - 1) /\ (k - 1) + 1 = k
      BY <1>1
    <3>. QED BY <1>7, <3>1
  <2>. QED BY <1>7, <2>1, <2>2 DEF Connecting
<1>9. ASSUME NEW d \in Client, d # c \/ fin
      PROVE  Connecting(d) <=> Later(d)
  <2>1. backlog[1] # [from |-> d, fin |-> FALSE]
    BY <1>7, <1>9
  <2>2. \A k \in DOMAIN backlog : k = 1 \/ k \in 2..Len(backlog)
    BY <1>1, <1>7
  <2>3. \A k \in 2..Len(backlog) : k \in DOMAIN backlog
    BY <1>1, <1>7
  <2>. QED BY <2>1, <2>2, <2>3 DEF Connecting
<1> HIDE DEF Later
<1>10. ASSUME NEW d \in Client, link[d] # None
       PROVE  sock'[link[d]] = sock[link[d]] /\ link[d] \in Fd
  <2>1. link[d] \in Open
    BY <1>10, ServerAssumption DEF ServerAssumption, IInv, TypeOK, Linked, Open
  <2>. QED BY <1>5, <1>6, <2>1 DEF Open
<1>11. CASE fin
  <2>1. link' = link /\ \A d \in Client : Connecting(d)' <=> Connecting(d)
    BY <1>5, <1>8, <1>9, <1>11
  <2>2. Requested'
    BY <1>5, <1>10, <2>1 DEF Requested
  <2>3. \A d \in Client : SessionOf(d)' = SessionOf(d)
    BY <1>5, <1>10, <2>1 DEF SessionOf
  <2>. QED BY <2>2, <2>3, Same
<1>12. CASE ~fin
  <2>1. Connecting(c)
    <3>1. fin = FALSE
      BY <1>12
    <3>2. 1 \in DOMAIN backlog
      BY <1>1, <1>7
    <3>. QED BY <1>7, <3>1, <3>2 DEF Connecting
  <2>2. /\ link' = [link EXCEPT ![c] = f] /\ link[c] = None /\ got[c] = 0
        /\ asked[c] = 0 /\ partial[c] = 0
    BY <1>5, <1>12, <2>1, WaitsUnlinked DEF Requested
  <2>3. link'[c] = f /\ \A d \in Client \ {c} : link'[d] = link[d]
    BY <2>2 DEF IInv, TypeOK
  <2>4. /\ sock'[f].out = <<[to |-> c, re |-> 0]>> /\ Len(sock'[f].out) = 1
        /\ sock'[f].taken = 0 /\ sock'[f].unread = 0
    BY <1>5, <1>6 DEF Opened, Welcome
  <2>5. ~Connecting(c)'
    <3>1. ASSUME NEW k \in 2..Len(backlog), backlog[k] = [from |-> c, fin |-> FALSE]
          PROVE  FALSE
      <4>1. /\ k \in DOMAIN backlog /\ ~backlog[k].fin /\ backlog[k].from = c
            /\ 1 \in DOMAIN backlog /\ ~backlog[1].fin /\ backlog[1].from = c
        BY <1>1, <1>7, <1>12, <3>1
      <4>2. k = 1
        BY <4>1 DEF IInv, Waiting
      <4>. QED BY <4>2
    <3>. QED BY <1>8, <3>1 DEF Later
  <2>6. \A d \in Client \ {c} : Connecting(d)' <=> Connecting(d)
    BY <1>8, <1>9
  <2>7. Requested'
    <3>1. ASSUME NEW d \in Client, link'[d] # None
          PROVE  sock'[link'[d]].taken + sock'[link'[d]].unread
                   = Message * asked[d] + partial[d]
      <4>1. CASE d = c
        <5>1. 0 + 0 = Message * 0 + 0
          BY DEF Message
        <5>. QED BY <2>2, <2>3, <2>4, <4>1, <5>1
      <4>2. CASE d # c
        BY <1>10, <2>3, <3>1, <4>2 DEF Requested
      <4>. QED BY <4>1, <4>2
    <3>2. \A d \in Client : Connecting(d)' => asked[d] = 0 /\ partial[d] = 0
      BY <2>5, <2>6 DEF Requested
    <3>. QED BY <1>5, <3>1, <3>2 DEF Requested
  <2>8. SessionOf(c) = Sessions!Awaiting
    BY <2>1, <2>2 DEF SessionOf, Sessions!Awaiting
  <2>9. SessionOf(c)' = Sessions!Opened(0, 1, <<Sessions!Message(c, 0)>>)
    <3>1. asked'[c] = 0 /\ got'[c] = 0 /\ link'[c] # None
      BY <1>5, <1>6, <2>2, <2>3
    <3>2. SessionOf(c)' = [status |-> "open", asked |-> 0, answered |-> 0 + 1,
                           inbox |-> <<[to |-> c, re |-> 0]>>]
      BY <2>3, <2>4, <3>1 DEF SessionOf
    <3>. QED BY <3>2 DEF Sessions!Opened, Sessions!Message
  <2>10. \A d \in Client \ {c} : SessionOf(d)' = SessionOf(d)
    BY <1>5, <1>10, <2>3, <2>6 DEF SessionOf
  <2>11. shown' = [shown EXCEPT ![c] = Sessions!Opened(0, 1, <<Sessions!Message(c, 0)>>)]
    BY <2>9, <2>10, OnlyOf
  <2>12. Sessions!Welcome(c)
    BY <2>8, <2>11 DEF Sessions!Welcome, Sessions!Becomes, shown
  <2>. QED BY <2>7, <2>12 DEF Sessions!Next
<1>. QED BY <1>11, <1>12
-----------------------------------------------------------------------------
\* The ways in which the session of one client changes, and the others' do not.
LEMMA RemoveSession ==
  ASSUME IInv, Requested, RemoveClient
  PROVE  Requested' /\ [Sessions!Next]_shown
<1>1. PICK k \in Found : Drop(RemoveAt(clients_, k), i)
  BY DEF RemoveClient
<1>2. /\ sock' = [sock EXCEPT ![current] = Closed]
      /\ link' = [c \in Client |-> IF link[c] = current THEN None ELSE link[c]]
      /\ backlog' = backlog /\ asked' = asked /\ partial' = partial /\ got' = got
      /\ i \in DOMAIN clients_
  BY <1>1 DEF Drop, RemoveClient, NoMessage, Checking, IInv, TypeOK, clientVars
<1>3. current \in Fd /\ current # None /\ sock \in [Fd -> Socket]
  BY <1>2, CurrentIsOpen, ServerAssumption DEF ServerAssumption, IInv, TypeOK, Socket
<1>4. ASSUME NEW d \in Client, link[d] # current
      PROVE  /\ link'[d] = link[d]
             /\ link[d] # None => sock'[link[d]] = sock[link[d]]
  BY <1>2, <1>3, <1>4, LinkedParts
<1>5. \A d \in Client : link[d] = current => link'[d] = None
  BY <1>2
<1>6. Requested'
  BY <1>2, <1>4, <1>5 DEF Requested, Connecting
<1>7. \A d \in Client : link[d] # current => SessionOf(d)' = SessionOf(d)
  BY <1>2, <1>4 DEF SessionOf, Connecting
<1>8. ASSUME NEW c \in Client, link[c] = current
      PROVE  Sessions!Close(c)
  <2>1. link[c] # None /\ ~Connecting(c)
    BY <1>3, <1>8, WaitsUnlinked
  <2>2. SessionOf(c)' = Sessions!Gone
    BY <1>2, <1>5, <1>8, <2>1 DEF SessionOf, Connecting, Sessions!Gone
  <2>3. \A d \in Client \ {c} : SessionOf(d)' = SessionOf(d)
    BY <1>7, <1>8, <2>1, OwnDescriptor
  <2>4. shown' = [shown EXCEPT ![c] = Sessions!Gone]
    BY <2>2, <2>3, OnlyOf
  <2>5. SessionOf(c) # Sessions!Gone
    <3>1. SessionOf(c).status = "open"
      BY <2>1 DEF SessionOf
    <3>. QED BY <3>1 DEF Sessions!Gone
  <2>. QED BY <2>4, <2>5 DEF Sessions!Close, Sessions!Becomes, shown
<1>9. CASE \E c \in Client : link[c] = current
  BY <1>6, <1>8, <1>9 DEF Sessions!Next
<1>10. CASE ~\E c \in Client : link[c] = current
  BY <1>6, <1>7, <1>10, Same
<1>. QED BY <1>9, <1>10

\* No more answers than requests: the one that is being answered was asked.
LEMMA AnsweredAsked ==
  ASSUME IInv, Requested, NEW c \in Client, link[c] # None
  PROVE  sock[link[c]].taken \div Message <= asked[c]
<1> DEFINE t == sock[link[c]].taken
           a == asked[c]
<1>1. t \in Nat /\ a \in Nat /\ t < 4 * a + 4
  <2>1. /\ t \in Nat /\ sock[link[c]].unread \in Nat /\ a \in Nat /\ partial[c] \in Nat
        /\ partial[c] < 4 /\ t + sock[link[c]].unread = 4 * a + partial[c]
    BY LinkedParts DEF Requested, Message
  <2> HIDE DEF t, a
  <2>. QED BY <2>1
<1> HIDE DEF t, a
<1>2. t \div 4 <= a
  BY <1>1
<1>. QED BY <1>2 DEF t, a, Message

\* Reply is a step of one session or shows nothing.
LEMMA ReplySession ==
  ASSUME IInv, Requested, Reply
  PROVE  Requested' /\ [Sessions!Next]_shown
<1> DEFINE answer == [to |-> sock[current].peer, re |-> sock[current].taken \div Message]
           o == Append(sock[current].out, answer)
<1>1. /\ pc = "reply" /\ i \in DOMAIN clients_
      /\ backlog' = backlog /\ link' = link /\ asked' = asked /\ partial' = partial
      /\ got' = got
      /\ sock' = [sock EXCEPT ![current].out = o]
  BY DEF Reply, Answer, IInv, Engaged, clientVars
<1>2. current \in Fd /\ current # None /\ sock \in [Fd -> Socket]
  BY <1>1, CurrentIsOpen, ServerAssumption DEF ServerAssumption, IInv, TypeOK, Socket
<1>3. /\ \A g \in Fd \ {current} : sock'[g] = sock[g]
      /\ sock'[current] = [sock[current] EXCEPT !.out = o]
  <2> HIDE DEF o
  <2>. QED BY <1>1, <1>2
<1>4. /\ sock'[current].taken = sock[current].taken
      /\ sock'[current].unread = sock[current].unread /\ sock'[current].out = o
  <2>1. sock[current] \in Socket
    BY <1>2
  <2> HIDE DEF o, current
  <2>. QED BY <1>3, <2>1 DEF Socket
<1>5. \A d \in Client : link[d] # None => link[d] \in Fd
  BY LinkedParts
<1>6. Requested'
  <2> HIDE DEF o, current
  <2>. QED BY <1>1, <1>3, <1>4, <1>5 DEF Requested, Connecting
<1>7. \A d \in Client : link[d] # current => SessionOf(d)' = SessionOf(d)
  <2> HIDE DEF o, current
  <2>. QED BY <1>1, <1>3, <1>5 DEF SessionOf, Connecting
<1>8. ASSUME NEW c \in Client, link[c] = current
      PROVE  Sessions!Answer(c)
  <2> DEFINE n == Len(sock[current].out)
             s == Sessions!Opened(asked[c], got[c] + n + 1,
                    Append(sock[current].out, Sessions!Message(c, got[c] + n)))
  <2>1. link[c] # None /\ n \in Nat /\ asked[c] \in Nat /\ got[c] \in Nat
    BY <1>2, <1>8, LinkedParts
  <2>2. /\ sock[current].peer = c
        /\ sock[current].taken \div Message = got[c] + n
        /\ got[c] + n <= asked[c]
    <3>1. sock[current].peer = c /\ sock[current].taken \div Message <= asked[c]
      BY <1>8, <2>1, AnsweredAsked DEF IInv, Linked
    <3>2. got[c] + n + 1 = sock[current].taken \div Message + 1
      BY <1>1, <1>8, <2>1 DEF IInv, Counted, Owed
    <3>3. sock[current].taken \div Message \in Nat
      BY <1>8, <2>1, LinkedParts DEF Message
    <3> HIDE DEF n
    <3>4. sock[current].taken \div Message = got[c] + n
      BY <2>1, <3>2, <3>3
    <3>. QED BY <3>1, <3>4
  <2>3. o = Append(sock[current].out, [to |-> c, re |-> got[c] + n])
    BY <2>2
  <2>4. Len(o) = n + 1
    <3>1. sock[current].out \in Seq([to : Client, re : Nat])
      BY <1>2 DEF Socket
    <3>2. [to |-> c, re |-> got[c] + n] \in [to : Client, re : Nat]
      BY <2>1
    <3>. QED BY <2>3, <3>1, <3>2, AppendProperties
  <2> HIDE DEF o, n
  <2>5. SessionOf(c)' = s
    <3>1. got[c] + (n + 1) = got[c] + n + 1
      BY <2>1
    <3>. QED BY <1>1, <1>4, <1>8, <2>1, <2>3, <2>4, <3>1
             DEF SessionOf, Sessions!Opened, Sessions!Message
  <2>6. \A d \in Client \ {c} : SessionOf(d)' = SessionOf(d)
    BY <1>7, <1>8, <2>1, OwnDescriptor
  <2>7. shown' = [shown EXCEPT ![c] = s]
    BY <2>5, <2>6, OnlyOf
  <2>8. /\ SessionOf(c).status = "open" /\ SessionOf(c).asked = asked[c]
        /\ SessionOf(c).answered = got[c] + n
        /\ SessionOf(c).inbox = sock[current].out
    BY <1>8, <2>1 DEF SessionOf, n
  <2>9. [d \in Client |-> SessionOf(d)][c] = SessionOf(c)
    OBVIOUS
  <2>10. shown' = [shown EXCEPT ![c] =
           Sessions!Opened(SessionOf(c).asked, SessionOf(c).answered + 1,
             Append(SessionOf(c).inbox, Sessions!Message(c, SessionOf(c).answered)))]
    BY <2>7, <2>8
  <2> HIDE DEF s
  <2>. QED BY <2>2, <2>8, <2>9, <2>10 DEF Sessions!Answer, Sessions!Becomes, shown
<1>9. CASE \E c \in Client : link[c] = current
  BY <1>6, <1>8, <1>9 DEF Sessions!Next
<1>10. CASE ~\E c \in Client : link[c] = current
  BY <1>6, <1>7, <1>10, Same
<1>. QED BY <1>9, <1>10

\* Read is a step of one session or shows nothing.
LEMMA ReadSession ==
  ASSUME IInv, Requested, NEW c \in Client, Read(c)
  PROVE  Requested' /\ [Sessions!Next]_shown
<1> DEFINE f == link[c]
           o == Tail(sock[f].out)
<1>1. /\ f # None /\ sock[f].out # << >>
      /\ sock' = [sock EXCEPT ![f].out = o] /\ got' = [got EXCEPT ![c] = @ + 1]
      /\ backlog' = backlog /\ link' = link /\ asked' = asked /\ partial' = partial
  BY DEF Read
<1>2. /\ f \in Fd /\ sock \in [Fd -> Socket] /\ got \in [Client -> Nat]
      /\ sock[f].out \in Seq([to : Client, re : Nat])
      /\ Len(sock[f].out) \in Nat /\ Len(o) = Len(sock[f].out) - 1
  <2>1. /\ f \in Fd /\ sock \in [Fd -> Socket] /\ got \in [Client -> Nat]
        /\ sock[f].out \in Seq([to : Client, re : Nat])
    BY <1>1 DEF IInv, TypeOK, Socket
  <2>. QED BY <1>1, <2>1, LenProperties, HeadTailProperties
<1>3. /\ \A g \in Fd \ {f} : sock'[g] = sock[g]
      /\ sock'[f].taken = sock[f].taken /\ sock'[f].unread = sock[f].unread
      /\ sock'[f].out = o
  <2>1. sock[f] \in Socket
    BY <1>2
  <2> HIDE DEF o, f
  <2>2. sock'[f] = [sock[f] EXCEPT !.out = o] /\ \A g \in Fd \ {f} : sock'[g] = sock[g]
    BY <1>1, <1>2
  <2>. QED BY <2>1, <2>2 DEF Socket
<1>4. /\ got'[c] = got[c] + 1 /\ got[c] \in Nat
      /\ \A d \in Client \ {c} : got'[d] = got[d]
  BY <1>1, <1>2
<1> HIDE DEF o
<1>5. \A d \in Client \ {c} : link[d] # None => link[d] \in Fd \ {f}
  BY <1>1, LinkedParts, OwnDescriptor
<1>6. Requested'
  <2>1. \A d \in Client : link[d] # None =>
          sock'[link[d]].taken + sock'[link[d]].unread = Message * asked[d] + partial[d]
    BY <1>3, <1>5 DEF Requested
  <2>. QED BY <1>1, <2>1 DEF Requested, Connecting
<1>7. \A d \in Client \ {c} : SessionOf(d)' = SessionOf(d)
  BY <1>1, <1>3, <1>4, <1>5 DEF SessionOf, Connecting
<1> DEFINE s == Sessions!Opened(asked[c], got[c] + Len(sock[f].out), o)
<1>8. SessionOf(c)' = s
  <2>1. \A g, n \in Nat : g + 1 + (n - 1) = g + n
    OBVIOUS
  <2>2. got[c] + 1 + Len(o) = got[c] + Len(sock[f].out)
    BY <1>2, <1>4, <2>1
  <2>. QED BY <1>1, <1>3, <1>4, <2>2 DEF SessionOf, Sessions!Opened
<1>9. shown' = [shown EXCEPT ![c] = s]
  BY <1>7, <1>8, OnlyOf
<1>10. /\ SessionOf(c).status = "open" /\ SessionOf(c).asked = asked[c]
       /\ SessionOf(c).answered = got[c] + Len(sock[f].out)
       /\ SessionOf(c).inbox = sock[f].out
  BY <1>1 DEF SessionOf
<1>11. [d \in Client |-> SessionOf(d)][c] = SessionOf(c)
  OBVIOUS
<1>12. shown' = [shown EXCEPT ![c] =
         Sessions!Opened(SessionOf(c).asked, SessionOf(c).answered, Tail(SessionOf(c).inbox))]
  BY <1>9, <1>10 DEF o
<1> HIDE DEF s
<1>13. Sessions!Read(c)
  BY <1>1, <1>10, <1>11, <1>12 DEF Sessions!Read, Sessions!Becomes, shown
<1>. QED BY <1>6, <1>13 DEF Sessions!Next

\* Write is a step of one session or shows nothing.
LEMMA WriteSession ==
  ASSUME IInv, Requested, NEW c \in Client, Write(c)
  PROVE  Requested' /\ [Sessions!Next]_shown
<1> DEFINE f == link[c]
<1>1. PICK upto \in Boundaries \cup {Message} :
        /\ upto > partial[c]
        /\ sock' = [sock EXCEPT ![f].unread = @ + upto - partial[c]]
        /\ partial' = [partial EXCEPT ![c] = upto % Message]
        /\ asked' = [asked EXCEPT ![c] = IF upto = Message THEN @ + 1 ELSE @]
  BY DEF Write
<1>2. /\ f # None /\ got[c] > 0 /\ backlog' = backlog /\ link' = link /\ got' = got
  BY DEF Write
<1>3. /\ f \in Fd /\ sock \in [Fd -> Socket] /\ sock[f] \in Socket
      /\ sock[f].taken \in Nat /\ sock[f].unread \in Nat
      /\ partial \in [Client -> Nat] /\ asked \in [Client -> Nat]
      /\ partial[c] \in Nat /\ asked[c] \in Nat /\ Len(sock[f].out) \in Nat
      /\ got[c] \in Nat
  BY <1>2, LinkedParts DEF IInv, TypeOK, Socket
<1>4. /\ upto \in 1..4 /\ upto % Message = (IF upto = 4 THEN 0 ELSE upto)
  BY <1>1, <1>3, ServerAssumption DEF ServerAssumption, Message
<1>5. /\ sock'[f].taken = sock[f].taken /\ sock'[f].out = sock[f].out
      /\ sock'[f].unread = sock[f].unread + upto - partial[c]
      /\ \A g \in Fd \ {f} : sock'[g] = sock[g]
  <2> DEFINE u == sock[f].unread + upto - partial[c]
  <2>1. sock' = [sock EXCEPT ![f].unread = u]
    BY <1>1
  <2> HIDE DEF u, f
  <2>2. sock'[f] = [sock[f] EXCEPT !.unread = u] /\ \A g \in Fd \ {f} : sock'[g] = sock[g]
    BY <1>3, <2>1
  <2>3. sock'[f].taken = sock[f].taken /\ sock'[f].out = sock[f].out /\ sock'[f].unread = u
    BY <1>3, <2>2 DEF Socket
  <2>. QED BY <2>2, <2>3 DEF u
<1>6. \A d \in Client \ {c} : /\ link[d] # None => link[d] \in Fd \ {f}
                             /\ partial'[d] = partial[d] /\ asked'[d] = asked[d]
  BY <1>1, <1>2, <1>3, LinkedParts, OwnDescriptor
<1>7. /\ partial'[c] = (IF upto = 4 THEN 0 ELSE upto)
      /\ asked'[c] = (IF upto = 4 THEN asked[c] + 1 ELSE asked[c])
  BY <1>1, <1>3, <1>4 DEF Message
<1>8. Requested'
  <2>1. sock'[f].taken + sock'[f].unread = Message * asked'[c] + partial'[c]
    <3>1. sock[f].taken + sock[f].unread = 4 * asked[c] + partial[c]
      BY <1>2 DEF Requested, Message
    <3>2. \A t, u, a, p \in Nat : t + u = 4 * a + p =>
            /\ t + (u + upto - p) = 4 * a + upto
            /\ t + (u + 4 - p) = 4 * (a + 1) + 0
      BY <1>4
    <3> DEFINE t == sock[f].taken
               u == sock[f].unread
               a == asked[c]
               p == partial[c]
    <3>3. /\ t + (u + upto - p) = 4 * a + upto
          /\ t + (u + 4 - p) = 4 * (a + 1) + 0
      <4>1. t \in Nat /\ u \in Nat /\ a \in Nat /\ p \in Nat /\ t + u = 4 * a + p
        BY <1>3, <3>1
      <4> HIDE DEF t, u, a, p
      <4>. QED BY <3>2, <4>1
    <3> HIDE DEF f
    <3>4. CASE upto = 4
      BY <1>5, <1>7, <3>3, <3>4 DEF Message
    <3>5. CASE upto # 4
      BY <1>5, <1>7, <3>3, <3>5 DEF Message
    <3>. QED BY <3>4, <3>5
  <2>2. \A d \in Client : link[d] # None =>
          sock'[link[d]].taken + sock'[link[d]].unread = Message * asked'[d] + partial'[d]
    BY <1>5, <1>6, <2>1 DEF Requested
  <2>3. \A d \in Client : partial'[d] < Message
    <3>1. partial'[c] < Message
      BY <1>4, <1>7 DEF Message
    <3>. QED BY <1>6, <3>1 DEF Requested
  <2>4. ~Connecting(c)
    BY <1>2, WaitsUnlinked
  <2>5. \A d \in Client : Connecting(d)' <=> Connecting(d)
    BY <1>2 DEF Connecting
  <2>6. \A d \in Client : Connecting(d)' => asked'[d] = 0 /\ partial'[d] = 0
    BY <1>6, <2>4, <2>5 DEF Requested
  <2>. QED BY <1>2, <2>2, <2>3, <2>6 DEF Requested
<1>9. \A d \in Client \ {c} : SessionOf(d)' = SessionOf(d)
  BY <1>2, <1>5, <1>6 DEF SessionOf, Connecting
<1>10. SessionOf(c)' = [status |-> "open", asked |-> asked'[c],
                        answered |-> got[c] + Len(sock[f].out), inbox |-> sock[f].out]
  BY <1>2, <1>5 DEF SessionOf
<1>11. SessionOf(c) = [status |-> "open", asked |-> asked[c],
                       answered |-> got[c] + Len(sock[f].out), inbox |-> sock[f].out]
  BY <1>2 DEF SessionOf
<1>12. CASE upto = 4
  <2> DEFINE s == Sessions!Opened(asked[c] + 1, got[c] + Len(sock[f].out), sock[f].out)
  <2>1. shown' = [shown EXCEPT ![c] = s]
    <3>1. SessionOf(c)' = s
      BY <1>7, <1>10, <1>12 DEF Sessions!Opened
    <3>. QED BY <1>9, <3>1, OnlyOf
  <2>2. [d \in Client |-> SessionOf(d)][c] = SessionOf(c)
    OBVIOUS
  <2>3. /\ SessionOf(c).status = "open" /\ SessionOf(c).asked = asked[c]
        /\ SessionOf(c).answered = got[c] + Len(sock[f].out)
        /\ SessionOf(c).inbox = sock[f].out
    BY <1>11
  <2>4. Len(SessionOf(c).inbox) < SessionOf(c).answered
    <3>1. \A g, n \in Nat : g > 0 => n < g + n
      OBVIOUS
    <3>. QED BY <1>2, <1>3, <2>3, <3>1
  <2>5. shown' = [shown EXCEPT ![c] =
          Sessions!Opened(SessionOf(c).asked + 1, SessionOf(c).answered, SessionOf(c).inbox)]
    BY <2>1, <2>3
  <2> HIDE DEF s
  <2>6. Sessions!Ask(c)
    BY <2>2, <2>3, <2>4, <2>5 DEF Sessions!Ask, Sessions!Becomes, shown
  <2>. QED BY <1>8, <2>6 DEF Sessions!Next
<1>13. CASE upto # 4
  <2>1. SessionOf(c)' = SessionOf(c)
    BY <1>7, <1>10, <1>11, <1>13
  <2>. QED BY <1>8, <1>9, <2>1, Same
<1>. QED BY <1>12, <1>13

\* Connect is a step of one session or shows nothing.
LEMMA ConnectSession ==
  ASSUME IInv, Requested, NEW c \in Client, Connect(c)
  PROVE  Requested' /\ [Sessions!Next]_shown
<1> DEFINE new == [from |-> c, fin |-> FALSE]
<1>1. /\ link[c] = None /\ ~Connecting(c) /\ backlog' = Append(backlog, new)
      /\ asked' = [asked EXCEPT ![c] = 0] /\ partial' = [partial EXCEPT ![c] = 0]
      /\ got' = [got EXCEPT ![c] = 0] /\ sock' = sock /\ link' = link
  BY DEF Connect, Unconnected
<1>2. /\ backlog \in Seq([from : Client, fin : BOOLEAN])
      /\ asked \in [Client -> Nat] /\ partial \in [Client -> Nat] /\ got \in [Client -> Nat]
  BY DEF IInv, TypeOK
<1>3. /\ DOMAIN backlog' = DOMAIN backlog \cup {Len(backlog) + 1}
      /\ \A k \in DOMAIN backlog : backlog'[k] = backlog[k]
      /\ backlog'[Len(backlog) + 1] = new
  <2>1. /\ backlog' \in Seq([from : Client, fin : BOOLEAN])
        /\ Len(backlog') = Len(backlog) + 1 /\ Len(backlog) \in Nat
        /\ \A k \in 1..Len(backlog) : backlog'[k] = backlog[k]
        /\ backlog'[Len(backlog) + 1] = new
    BY <1>1, <1>2, AppendProperties, LenProperties
  <2>2. DOMAIN backlog = 1..Len(backlog) /\ DOMAIN backlog' = 1..Len(backlog')
    BY <1>2, <2>1, SeqParts
  <2>. QED BY <2>1, <2>2
<1>4. /\ asked'[c] = 0 /\ partial'[c] = 0
      /\ \A d \in Client \ {c} :
           asked'[d] = asked[d] /\ partial'[d] = partial[d] /\ got'[d] = got[d]
  BY <1>1, <1>2
<1>5. Connecting(c)'
  BY <1>3 DEF Connecting
<1>6. ASSUME NEW d \in Client \ {c} PROVE Connecting(d)' <=> Connecting(d)
  <2>1. new.from # d
    OBVIOUS
  <2>2. new # [from |-> d, fin |-> FALSE]
    BY <2>1
  <2> HIDE DEF new
  <2>. QED BY <1>3, <2>2 DEF Connecting
<1>7. Requested'
  <2>1. 0 < Message
    BY DEF Message
  <2>2. \A d \in Client : partial'[d] < Message
    BY <1>4, <2>1 DEF Requested
  <2>3. \A d \in Client : link[d] # None =>
          sock[link[d]].taken + sock[link[d]].unread = Message * asked'[d] + partial'[d]
    BY <1>1, <1>4 DEF Requested
  <2>4. \A d \in Client : Connecting(d)' => asked'[d] = 0 /\ partial'[d] = 0
    BY <1>4, <1>6 DEF Requested
  <2>. QED BY <1>1, <2>2, <2>3, <2>4 DEF Requested
<1>8. \A d \in Client \ {c} : SessionOf(d)' = SessionOf(d)
  BY <1>1, <1>4, <1>6 DEF SessionOf
<1>9. SessionOf(c) = Sessions!Gone /\ SessionOf(c)' = Sessions!Awaiting
  BY <1>1, <1>5 DEF SessionOf, Sessions!Gone, Sessions!Awaiting
<1>10. shown' = [shown EXCEPT ![c] = Sessions!Awaiting]
  BY <1>8, <1>9, OnlyOf
<1>11. Sessions!Connect(c)
  BY <1>9, <1>10 DEF Sessions!Connect, Sessions!Becomes, shown
<1>. QED BY <1>7, <1>11 DEF Sessions!Next

\* Quit is a step of one session or shows nothing.
LEMMA QuitSession ==
  ASSUME IInv, Requested, NEW c \in Client, Quit(c)
  PROVE  Requested' /\ [Sessions!Next]_shown
<1>1. /\ link' = [link EXCEPT ![c] = None] /\ link \in [Client -> Fd \cup {None}]
      /\ asked' = asked /\ partial' = partial /\ got' = got
  BY DEF Quit, clientVars, IInv, TypeOK
<1>2. link'[c] = None /\ \A d \in Client \ {c} : link'[d] = link[d]
  BY <1>1
<1>3. /\ \A d \in Client \ {c} : link[d] # None => sock'[link[d]] = sock[link[d]]
      /\ \A d \in Client \ {c} : Connecting(d)' <=> Connecting(d)
      /\ ~Connecting(c)'
      /\ link[c] # None \/ Connecting(c)
  <2>1. CASE /\ link[c] # None
             /\ sock' = [sock EXCEPT ![link[c]].fin = TRUE] /\ backlog' = backlog
    <3>1. \A d \in Client \ {c} : link[d] # None => link[d] \in Fd \ {link[c]}
      BY <2>1, LinkedParts, OwnDescriptor
    <3>2. sock \in [Fd -> Socket] /\ ~Connecting(c)
      BY <2>1, WaitsUnlinked DEF IInv, TypeOK, Socket
    <3>. QED BY <2>1, <3>1, <3>2 DEF Connecting
  <2>2. CASE /\ Connecting(c) /\ sock' = sock
             /\ backlog' = [k \in DOMAIN backlog |->
                              IF backlog[k].from = c THEN [backlog[k] EXCEPT !.fin = TRUE]
                                                     ELSE backlog[k]]
    <3>1. \A k \in DOMAIN backlog : backlog[k] \in [from : Client, fin : BOOLEAN]
      <4>1. backlog \in Seq([from : Client, fin : BOOLEAN])
        BY DEF IInv, TypeOK
      <4>. QED BY <4>1, SeqParts
    <3>2. DOMAIN backlog' = DOMAIN backlog
      BY <2>2
    <3>3. ASSUME NEW k \in DOMAIN backlog
          PROVE  /\ backlog[k].from # c => backlog'[k] = backlog[k]
                 /\ backlog[k].from = c => backlog'[k] = [from |-> c, fin |-> TRUE]
      <4>1. backlog[k] = [from |-> backlog[k].from, fin |-> backlog[k].fin]
        BY <3>1
      <4>. QED BY <2>2, <4>1
    <3>4. \A d \in Client \ {c} : Connecting(d)' <=> Connecting(d)
      <4>1. ASSUME NEW d \in Client \ {c}, NEW k \in DOMAIN backlog
            PROVE  backlog'[k] = [from |-> d, fin |-> FALSE]
                     <=> backlog[k] = [from |-> d, fin |-> FALSE]
        <5>1. CASE backlog[k].from = c
          <6>1. backlog'[k].from = c
            BY <3>3, <5>1
          <6>. QED BY <5>1, <6>1
        <5>2. CASE backlog[k].from # c
          BY <3>3, <5>2
        <5>. QED BY <5>1, <5>2
      <4>. QED BY <3>2, <4>1 DEF Connecting
    <3>5. ~Connecting(c)'
      <4>1. ASSUME NEW k \in DOMAIN backlog, backlog'[k] = [from |-> c, fin |-> FALSE]
            PROVE  FALSE
        <5>1. CASE backlog[k].from = c
          <6>1. backlog'[k].fin = TRUE
            BY <3>3, <5>1
          <6>. QED BY <4>1, <6>1
        <5>2. CASE backlog[k].from # c
          <6>1. backlog'[k].from = c
            BY <4>1
          <6>. QED BY <3>3, <5>2, <6>1
        <5>. QED BY <5>1, <5>2
      <4>. QED BY <3>2, <4>1 DEF Connecting
    <3>. QED BY <2>2, <3>4, <3>5
  <2>. QED BY <2>1, <2>2 DEF Quit
<1>4. Requested'
  BY <1>1, <1>2, <1>3 DEF Requested
<1>5. \A d \in Client \ {c} : SessionOf(d)' = SessionOf(d)
  BY <1>1, <1>2, <1>3 DEF SessionOf
<1>6. SessionOf(c)' = Sessions!Gone
  BY <1>2, <1>3 DEF SessionOf, Sessions!Gone
<1>7. SessionOf(c) # Sessions!Gone
  <2>1. SessionOf(c).status \in {"open", "waiting"}
    BY <1>3 DEF SessionOf
  <2>. QED BY <2>1 DEF Sessions!Gone
<1>8. shown' = [shown EXCEPT ![c] = Sessions!Gone]
  BY <1>5, <1>6, OnlyOf
<1>9. Sessions!Close(c)
  BY <1>7, <1>8 DEF Sessions!Close, Sessions!Becomes, shown
<1>. QED BY <1>4, <1>9 DEF Sessions!Next

-----------------------------------------------------------------------------
\* Every step of the server is a step of one session or none.
LEMMA NextSession ==
  ASSUME IInv, Requested, [Next]_vars
  PROVE  Requested' /\ [Sessions!Next]_shown
<1>1. ASSUME NEW marked, Dispatch(marked)
      PROVE  Requested' /\ shown' = shown
  BY <1>1, QuietKept DEF Dispatch
<1>2. CASE Skip \/ EndScan \/ Die \/ UNCHANGED vars
  BY <1>2, QuietKept DEF Skip, EndScan, Die, vars
<1>3. CASE ReceiveHeader \/ ReceiveBody
  BY <1>3, TakeKept
<1>4. CASE \E f \in Fd : Reset(f)
  BY <1>4, ResetKept
<1>5. CASE Accept
  BY <1>5, AcceptSession
<1>6. CASE RemoveClient
  BY <1>6, RemoveSession
<1>7. CASE Reply
  BY <1>7, ReplySession
<1>8. CASE \E c \in Client : Connect(c) \/ Read(c) \/ Write(c) \/ Quit(c)
  BY <1>8, ConnectSession, ReadSession, WriteSession, QuitSession
<1>. QED BY <1>1, <1>2, <1>3, <1>4, <1>5, <1>6, <1>7, <1>8
         DEF Next, Serve, Select, SelectInterrupted, AcceptFails, WelcomeFails, ShortBody,
             BodyIsNoMap, ReplyFails, HandlerFails

\* The invariant holds at the start.
LEMMA InitSession == Init => Requested /\ Sessions!Init
<1>. SUFFICES ASSUME Init PROVE Requested /\ Sessions!Init
  OBVIOUS
<1>1. \A c \in Client : link[c] = None /\ ~Connecting(c) /\ partial[c] = 0
  BY DEF Init, Connecting
<1>2. Requested
  BY <1>1 DEF Requested, Message
<1>3. \A c \in Client : SessionOf(c) = Sessions!Gone
  BY <1>1 DEF SessionOf, Sessions!Gone
<1>. QED BY <1>2, <1>3 DEF Sessions!Init

\* Whatever the others and the network do, the server is to each of its clients a
\* Session: it welcomes before it answers, it answers nothing that was not asked, and
\* every answer has its request's place (run, processMessageFrom, sendMessageTo).
THEOREM ServerKeepsSessions == Spec => KeepsSessions
<1>1. IInv /\ Requested /\ [Next]_vars => Requested' /\ [Sessions!Next]_shown
  BY NextSession
<1>. QED BY <1>1, AlwaysIInv, InitSession, PTL DEF Spec, KeepsSessions, Sessions!Spec, shown

-----------------------------------------------------------------------------
(* Clients that quit between messages with every answer read *)

\* The connection of such a client is never reset, and when its end comes all that it
\* has sent was read and answered.
Settled(f) ==
  sock[f].peer \in Polite =>
    /\ ~sock[f].reset
    /\ sock[f].fin => /\ sock[f].unread = 0 /\ sock[f].out = << >>
                      /\ sock[f].taken % Message = 0
                      /\ ~(pc = "reply" /\ f = current)

\* Such a client does not leave while it waits to be accepted.
Awaited ==
  \A k \in DOMAIN backlog : backlog[k].from \in Polite => ~backlog[k].fin

PInv == (\A f \in Fd : Settled(f)) /\ Awaited

\* The invariant of polite clients holds at the start.
LEMMA InitPInv == Init => PInv
BY ServerAssumption DEF Init, PInv, Settled, Awaited, Closed, Opened, ServerAssumption

\* A connected client's descriptor, a descriptor's client and a waiting client.
LEMMA Ends ==
  ASSUME IInv
  PROVE  /\ \A c \in Client : link[c] # None =>
              /\ link[c] \in Fd /\ sock[link[c]] \in Socket
              /\ sock[link[c]].peer = c /\ ~sock[link[c]].fin
         /\ sock \in [Fd -> Socket] /\ \A f \in Fd : sock[f] \in Socket
         /\ \A k \in DOMAIN backlog : backlog[k] \in [from : Client, fin : BOOLEAN]
<1>1. sock \in [Fd -> Socket] /\ link \in [Client -> Fd \cup {None}]
  BY DEF IInv, TypeOK, Socket
<1>2. \A k \in DOMAIN backlog : backlog[k] \in [from : Client, fin : BOOLEAN]
  <2>1. backlog \in Seq([from : Client, fin : BOOLEAN])
    BY DEF IInv, TypeOK
  <2>. QED BY <2>1, SeqParts
<1>. QED BY <1>1, <1>2 DEF IInv, Linked

\* A step that leaves descriptors, connections and clients alone.
LEMMA QuietPolite ==
  ASSUME PInv, UNCHANGED <<sock, backlog, link, clientVars>>, pc' # "reply"
  PROVE  PInv'
BY DEF PInv, Settled, Awaited

\* A new connection has nothing unread, nothing taken, and has not ended if its client
\* is polite.
LEMMA AcceptPolite ==
  ASSUME IInv, PInv, Accept
  PROVE  PInv'
<1> DEFINE c == Head(backlog).from
<1>1. PICK f \in Lowest : Enter(f, <<Welcome(c)>>)
  BY DEF Accept
<1> DEFINE new == Opened(c, Head(backlog).fin, <<Welcome(c)>>)
<1>2. /\ backlog # << >> /\ backlog \in Seq([from : Client, fin : BOOLEAN])
      /\ 1 \in DOMAIN backlog /\ Head(backlog) = backlog[1]
  BY DEF Accept, Listening, IInv, TypeOK
<1>3. /\ sock' = [sock EXCEPT ![f] = new] /\ backlog' = Tail(backlog) /\ pc' = "select"
      /\ f \in Fd
  BY <1>1 DEF Enter, Lowest
<1>4. new.peer = c /\ new.fin = Head(backlog).fin /\ new.reset = FALSE
  BY DEF Opened
<1>5. c \in Polite => ~new.fin
  BY <1>2, <1>4 DEF PInv, Awaited
<1> HIDE DEF new
<1>6. sock'[f] = new /\ \A g \in Fd \ {f} : sock'[g] = sock[g]
  BY <1>3, Ends
<1>7. ASSUME NEW g \in Fd PROVE Settled(g)'
  <2>1. CASE g = f
    BY <1>4, <1>5, <1>6, <2>1 DEF Settled
  <2>2. CASE g # f
    BY <1>3, <1>6, <2>2 DEF PInv, Settled
  <2>. QED BY <2>1, <2>2
<1>8. Awaited'
  <2>1. \A k \in DOMAIN Tail(backlog) :
          k + 1 \in DOMAIN backlog /\ Tail(backlog)[k] = backlog[k + 1]
    BY <1>2, HeadTailProperties
  <2>. QED BY <1>3, <2>1 DEF PInv, Awaited
<1>. QED BY <1>7, <1>8 DEF PInv

\* recv of n units from a polite client is from one that has not ended.
LEMMA TakingPolite ==
  ASSUME IInv, PInv, i \in DOMAIN clients_, NEW n \in Nat \ {0},
         sock[current].unread >= n,
         sock' = [sock EXCEPT ![current].unread = @ - n, ![current].taken = @ + n],
         UNCHANGED <<clients_, i, backlog>>
  PROVE  PInv'
<1>1. current \in Fd /\ current' = current /\ sock[current] \in Socket
  BY CurrentIsOpen, Ends DEF current
<1> HIDE DEF current
<1>2. /\ \A g \in Fd : /\ sock'[g].peer = sock[g].peer /\ sock'[g].fin = sock[g].fin
                      /\ sock'[g].reset = sock[g].reset
      /\ \A g \in Fd \ {current} : sock'[g] = sock[g]
  BY <1>1, Taken
<1>3. sock[current].peer \in Polite => ~sock[current].fin
  <2>1. sock[current].unread # 0
    BY <1>1 DEF Socket
  <2>. QED BY <1>1, <2>1 DEF PInv, Settled
<1>4. ASSUME NEW g \in Fd PROVE Settled(g)'
  <2>1. CASE g = current
    BY <1>1, <1>2, <1>3, <2>1 DEF PInv, Settled
  <2>2. CASE g # current
    BY <1>1, <1>2, <2>2 DEF PInv, Settled
  <2>. QED BY <2>1, <2>2
<1>. QED BY <1>4 DEF PInv, Awaited

\* A step that changes the answers of a descriptor whose client, if it is polite, has
\* not ended, and leaves all else of it.
LEMMA OutPolite ==
  ASSUME PInv, NEW f \in Fd, sock \in [Fd -> Socket], NEW o,
         sock' = [sock EXCEPT ![f].out = o],
         sock[f].peer \in Polite => ~sock[f].fin,
         UNCHANGED backlog, pc' # "reply" \/ (pc' = pc /\ current' = current)
  PROVE  PInv'
<1>1. /\ \A g \in Fd \ {f} : sock'[g] = sock[g]
      /\ sock'[f] = [sock[f] EXCEPT !.out = o] /\ sock[f] \in Socket
  OBVIOUS
<1>2. /\ sock'[f].fin = sock[f].fin /\ sock'[f].peer = sock[f].peer
      /\ sock'[f].reset = sock[f].reset
  BY <1>1 DEF Socket
<1>3. ASSUME NEW g \in Fd PROVE Settled(g)'
  BY <1>1, <1>2 DEF PInv, Settled
<1>. QED BY <1>3 DEF PInv, Awaited

\* send to the client whose message was taken.
LEMMA ReplyPolite ==
  ASSUME IInv, PInv, Reply
  PROVE  PInv'
<1> DEFINE o == Append(sock[current].out,
                       [to |-> sock[current].peer, re |-> sock[current].taken \div Message])
<1>1. /\ pc = "reply" /\ pc' = "scan" /\ i \in DOMAIN clients_
      /\ sock' = [sock EXCEPT ![current].out = o] /\ backlog' = backlog
  BY DEF Reply, Answer, IInv, Engaged
<1>2. current \in Fd /\ sock \in [Fd -> Socket]
  BY <1>1, CurrentIsOpen, Ends
<1>3. sock[current].peer \in Polite => ~sock[current].fin
  BY <1>1, <1>2 DEF PInv, Settled
<1>4. pc' # "reply"
  BY <1>1
<1> HIDE DEF current, o
<1>. QED BY <1>1, <1>2, <1>3, <1>4, OutPolite

\* The client reads an answer: it has not ended.
LEMMA ReadPolite ==
  ASSUME IInv, PInv, NEW c \in Client, Read(c)
  PROVE  PInv'
<1> DEFINE f == link[c]
           o == Tail(sock[f].out)
<1>1. /\ f # None /\ sock' = [sock EXCEPT ![f].out = o]
      /\ pc' = pc /\ current' = current /\ backlog' = backlog
  BY DEF Read, serverVars, current
<1>2. f \in Fd /\ sock \in [Fd -> Socket] /\ ~sock[f].fin
  BY <1>1, Ends
<1> HIDE DEF f, o, current
<1>. QED BY <1>1, <1>2, OutPolite

\* A removed client's descriptor is nobody's.
LEMMA RemovePolite ==
  ASSUME IInv, PInv, RemoveClient
  PROVE  PInv'
<1>1. /\ pc' = "scan" /\ i \in DOMAIN clients_
      /\ sock' = [sock EXCEPT ![current] = Closed] /\ backlog' = backlog
  BY DEF RemoveClient, NoMessage, Checking, Drop, IInv, TypeOK
<1>2. current \in Fd /\ sock \in [Fd -> Socket]
  BY <1>1, CurrentIsOpen, Ends
<1> HIDE DEF current
<1>3. /\ sock'[current] = Closed /\ \A g \in Fd \ {current} : sock'[g] = sock[g]
      /\ ~Closed.fin /\ ~Closed.reset
  BY <1>1, <1>2 DEF Closed, Opened
<1> HIDE DEF Closed
<1>. QED BY <1>1, <1>3 DEF PInv, Settled, Awaited

\* A new connection that waits has not ended.
LEMMA ConnectPolite ==
  ASSUME IInv, PInv, NEW c \in Client, Connect(c)
  PROVE  PInv'
<1> DEFINE new == [from |-> c, fin |-> FALSE]
<1>1. /\ backlog' = Append(backlog, new) /\ sock' = sock
      /\ pc' = pc /\ current' = current
  BY DEF Connect, serverVars, current
<1>2. Awaited'
  <2>1. backlog \in Seq([from : Client, fin : BOOLEAN])
    BY DEF IInv, TypeOK
  <2>2. /\ DOMAIN backlog' = DOMAIN backlog \cup {Len(backlog) + 1}
        /\ \A k \in DOMAIN backlog : backlog'[k] = backlog[k]
        /\ backlog'[Len(backlog) + 1] = new
    BY <1>1, <2>1, AppendProperties, LenProperties
  <2>. QED BY <2>2 DEF PInv, Awaited
<1> HIDE DEF current
<1>. QED BY <1>1, <1>2 DEF PInv, Settled

\* What arrives from a client arrives before its end.
LEMMA WritePolite ==
  ASSUME IInv, PInv, NEW c \in Client, Write(c)
  PROVE  PInv'
<1> DEFINE f == link[c]
<1>1. PICK u : sock' = [sock EXCEPT ![f].unread = u]
  BY DEF Write
<1>2. /\ f # None /\ pc' = pc /\ current' = current /\ backlog' = backlog
  BY DEF Write, serverVars, current
<1>3. f \in Fd /\ sock \in [Fd -> Socket] /\ sock[f] \in Socket /\ ~sock[f].fin
  BY <1>2, Ends
<1> HIDE DEF f, current
<1>4. /\ \A g \in Fd \ {f} : sock'[g] = sock[g]
      /\ sock'[f] = [sock[f] EXCEPT !.unread = u]
  BY <1>1, <1>3
<1>5. /\ sock'[f].fin = sock[f].fin /\ sock'[f].peer = sock[f].peer
      /\ sock'[f].reset = sock[f].reset
  BY <1>3, <1>4 DEF Socket
<1>6. ASSUME NEW g \in Fd PROVE Settled(g)'
  BY <1>2, <1>3, <1>4, <1>5 DEF PInv, Settled
<1>. QED BY <1>2, <1>6 DEF PInv, Awaited

\* Who has sent whole messages and has read an answer to each leaves nothing behind,
\* as long as the server lives.
LEMMA AllAnswered ==
  ASSUME IInv, Requested, NEW c \in Client, link[c] # None, partial[c] = 0,
         got[c] = asked[c] + 1, pc # "dead"
  PROVE  LET s == sock[link[c]]
         IN  s.unread = 0 /\ s.out = << >> /\ s.taken % Message = 0 /\ Owed(link[c]) = 0
<1> DEFINE s == sock[link[c]]
           o == Owed(link[c])
<1>1. /\ s \in Socket /\ s.out \in Seq([to : Client, re : Nat]) /\ Len(s.out) \in Nat
      /\ s.unread \in Nat /\ s.taken \in Nat /\ asked[c] \in Nat /\ o \in Nat
  <2>1. s \in Socket
    BY Ends
  <2>2. s.out \in Seq([to : Client, re : Nat]) /\ s.unread \in Nat /\ s.taken \in Nat
    BY <2>1 DEF Socket
  <2>. QED BY <2>1, <2>2, LenProperties DEF Owed, IInv, TypeOK
<1>2. s.taken + s.unread = 4 * asked[c] + 0
  BY DEF Requested, Message
<1>3. asked[c] + 1 + Len(s.out) + o = s.taken \div 4 + 1
  BY DEF IInv, Counted, Message
<1> HIDE DEF s, o
<1>4. PICK a \in Nat, t \in Nat, u \in Nat, n \in Nat, p \in Nat :
        a = asked[c] /\ t = s.taken /\ u = s.unread /\ n = Len(s.out) /\ p = o
  BY <1>1
<1>5. t + u = 4 * a + 0 /\ a + 1 + n + p = t \div 4 + 1
  BY <1>2, <1>3, <1>4
<1>6. t = 4 * a
  <2>1. t <= 4 * a /\ t \div 4 >= a
    BY <1>5
  <2>. QED BY <2>1
<1>7. u = 0 /\ n = 0 /\ p = 0 /\ t % 4 = 0
  <2>1. t \div 4 = a /\ t % 4 = 0
    BY <1>6
  <2>. QED BY <1>5, <1>6, <2>1
<1>8. s.out = << >>
  BY <1>1, <1>4, <1>7, EmptySeq
<1>. QED BY <1>4, <1>7, <1>8 DEF s, o, Message

\* A polite client that quits leaves a settled connection.
LEMMA QuitPolite ==
  ASSUME IInv, Requested, PInv, pc # "dead", NEW c \in Client, Quit(c)
  PROVE  PInv'
<1>1. pc' = pc /\ current' = current
  BY DEF Quit, serverVars, current
<1>2. CASE /\ link[c] # None
           /\ c \in Polite => partial[c] = 0 /\ got[c] = asked[c] + 1
           /\ sock' = [sock EXCEPT ![link[c]].fin = TRUE]
           /\ UNCHANGED backlog
  <2> DEFINE f == link[c]
  <2>1. /\ f \in Fd /\ sock \in [Fd -> Socket] /\ sock[f] \in Socket /\ sock[f].peer = c
    BY <1>2, Ends
  <2>2. c \in Polite => /\ sock[f].unread = 0 /\ sock[f].out = << >>
                        /\ sock[f].taken % Message = 0 /\ ~(pc = "reply" /\ f = current)
    BY <1>2, AllAnswered DEF Owed
  <2>3. sock' = [sock EXCEPT ![f].fin = TRUE] /\ backlog' = backlog
    BY <1>2
  <2> HIDE DEF f, current
  <2>4. /\ \A g \in Fd \ {f} : sock'[g] = sock[g]
        /\ sock'[f] = [sock[f] EXCEPT !.fin = TRUE]
    BY <2>1, <2>3
  <2>5. /\ sock'[f].peer = c /\ sock'[f].out = sock[f].out
        /\ sock'[f].reset = sock[f].reset
        /\ sock'[f].unread = sock[f].unread /\ sock'[f].taken = sock[f].taken
    BY <2>1, <2>4 DEF Socket
  <2>6. ASSUME NEW g \in Fd PROVE Settled(g)'
    <3>1. Settled(g)
      BY DEF PInv
    <3>2. CASE g = f
      BY <1>1, <2>1, <2>2, <2>5, <3>1, <3>2 DEF Settled
    <3>3. CASE g # f
      BY <1>1, <2>4, <3>1, <3>3 DEF Settled
    <3>. QED BY <3>2, <3>3
  <2>. QED BY <2>3, <2>6 DEF PInv, Awaited
<1>3. CASE /\ c \notin Polite
           /\ backlog' = [k \in DOMAIN backlog |->
                            IF backlog[k].from = c THEN [backlog[k] EXCEPT !.fin = TRUE]
                                                   ELSE backlog[k]]
           /\ UNCHANGED sock
  <2>1. \A k \in DOMAIN backlog : backlog'[k].from = backlog[k].from
    BY <1>3, Ends
  <2>2. Awaited'
    BY <1>3, <2>1 DEF PInv, Awaited
  <2> HIDE DEF current
  <2>. QED BY <1>1, <1>3, <2>2 DEF PInv, Settled
<1>. QED BY <1>2, <1>3 DEF Quit

\* The other end of a polite client's connection sends no reset.
LEMMA ResetPolite ==
  ASSUME IInv, PInv, NEW f \in Fd, Reset(f)
  PROVE  PInv'
<1>1. /\ sock[f].peer \notin Polite /\ sock[f] \in Socket /\ sock \in [Fd -> Socket]
      /\ sock' = [sock EXCEPT ![f].reset = TRUE, ![f].unread = 0]
      /\ backlog' = backlog /\ pc' = pc /\ current' = current
  BY Ends DEF Reset, PInv, Settled, serverVars, current
<1> HIDE DEF current
<1>2. \A g \in Fd \ {f} : sock'[g] = sock[g]
  BY <1>1
<1>3. sock'[f].peer = sock[f].peer
  <2>1. sock'[f] = [[sock[f] EXCEPT !.reset = TRUE] EXCEPT !.unread = 0]
    BY <1>1
  <2>. QED BY <1>1, <2>1 DEF Socket
<1>4. ASSUME NEW g \in Fd PROVE Settled(g)'
  BY <1>1, <1>2, <1>3 DEF PInv, Settled
<1>. QED BY <1>1, <1>4 DEF PInv, Awaited

\* A server that has ended does nothing.
LEMMA DeadStays ==
  ASSUME pc = "dead", [Next]_vars
  PROVE  pc' = "dead"
BY DEF Next, Serve, Select, SelectInterrupted, Dispatch, Accept, AcceptFails, WelcomeFails,
   Skip, EndScan, ReceiveHeader, RemoveClient, NoMessage, Checking, ReceiveBody, ShortBody,
   BodyIsNoMap, Reply, Answer, ReplyFails, HandlerFails, Connect, Read, Write, Quit, Reset,
   vars, serverVars

\* Every step of a server that lives keeps the invariant of polite clients.
LEMMA NextPInv ==
  ASSUME IInv, Requested, PInv, pc # "dead", [Next]_vars
  PROVE  PInv'
<1>1. CASE Select \/ SelectInterrupted
  <2>1. PICK marked : Dispatch(marked)
    BY <1>1 DEF Select, SelectInterrupted
  <2>2. pc' # "reply" /\ UNCHANGED <<sock, backlog, link, clientVars>>
    BY <2>1 DEF Dispatch
  <2>. QED BY <2>2, QuietPolite
<1>2. CASE Accept
  BY <1>2, AcceptPolite
<1>3. CASE Die \/ Skip \/ EndScan
  BY <1>3, QuietPolite DEF Die, Skip, EndScan
<1>4. CASE ReceiveHeader
  <2>1. i \in DOMAIN clients_ /\ Header \in Nat \ {0}
    BY <1>4 DEF ReceiveHeader, Checking, IInv, TypeOK, Header
  <2>. QED BY <1>4, <2>1, TakingPolite DEF ReceiveHeader
<1>5. CASE RemoveClient
  BY <1>5, RemovePolite
<1>6. CASE ReceiveBody
  <2>1. i \in DOMAIN clients_ /\ Message - Header \in Nat \ {0}
    BY <1>6 DEF ReceiveBody, IInv, Engaged, Header, Message
  <2>. QED BY <1>6, <2>1, TakingPolite DEF ReceiveBody
<1>7. CASE Reply
  BY <1>7, ReplyPolite
<1>8. ASSUME NEW c \in Client, Connect(c) \/ Read(c) \/ Write(c) \/ Quit(c)
      PROVE  PInv'
  BY <1>8, ConnectPolite, ReadPolite, WritePolite, QuitPolite
<1>9. ASSUME NEW f \in Fd, Reset(f)
      PROVE  PInv'
  BY <1>9, ResetPolite
<1>10. CASE UNCHANGED vars
  BY <1>10 DEF vars, serverVars, clientVars, PInv, Settled, Awaited, current
<1>. QED BY <1>1, <1>2, <1>3, <1>4, <1>5, <1>6, <1>7, <1>8, <1>9, <1>10
         DEF Next, Serve, AcceptFails, WelcomeFails, ShortBody, BodyIsNoMap, ReplyFails,
             HandlerFails

\* While the server lives its polite clients' connections are settled.
LEMMA AlwaysPInv == Spec => [](IInv /\ Requested /\ (pc = "dead" \/ PInv))
<1>1. IInv /\ Requested /\ (pc = "dead" \/ PInv) /\ [Next]_vars
        => Requested' /\ (pc = "dead" \/ PInv)'
  BY NextSession, NextPInv, DeadStays
<1>. QED BY <1>1, AlwaysIInv, InitSession, InitPInv, PTL DEF Spec

\* What ends the server over a body or an answer is not a polite client.
LEMMA PoliteEndsNothing ==
  ASSUME IInv, PInv
  PROVE  /\ ShortBody => \/ sock[current].peer \notin Polite
                         \/ sock[current].unread \in 1..(Message - Header - 1)
         /\ ReplyFails => sock[current].peer \notin Polite
<1>1. ShortBody \/ ReplyFails => i \in DOMAIN clients_
  BY DEF ShortBody, ReplyFails, IInv, Engaged
<1>2. i \in DOMAIN clients_ => Settled(current)
  BY CurrentIsOpen DEF PInv
<1>3. ASSUME ShortBody, sock[current].peer \in Polite
      PROVE  sock[current].unread \in 1..(Message - Header - 1)
  <2>1. sock[current].taken % Message = Header /\ Header # 0
    BY <1>3 DEF ShortBody, IInv, Engaged, Header
  <2>2. ~sock[current].reset /\ ~sock[current].fin
    BY <1>1, <1>2, <1>3, <2>1 DEF Settled
  <2>. QED BY <1>3, <2>2 DEF ShortBody
<1>4. ReplyFails => sock[current].peer \notin Polite
  BY <1>1, <1>2 DEF ReplyFails, Settled
<1>. QED BY <1>3, <1>4

\* A client that quits between messages with every answer read, and sends what the
\* service answers, never ends the server, whatever the others do beside it, also when
\* select fails, and on whatever descriptors: the process ends over others, for want of
\* a descriptor, or over a body that comes in pieces (receiveMessageFrom, sendMessageTo,
\* addNewConnection, removeClient).
THEOREM PoliteClientsSpared == Spec => SparesThePolite
<1> DEFINE Excused ==
      \/ pc = "accept" /\ (Fd \subseteq Open \/ Head(backlog).from \notin Polite)
      \/ pc \in {"body", "reply"} /\ sock[current].peer \notin Polite
      \/ pc = "body" /\ sock[current].unread \in 1..(Message - Header - 1)
<1>1. ASSUME IInv, pc = "dead" \/ PInv, [Next]_vars
      PROVE  [pc # "dead" /\ pc' = "dead" => Excused]_vars
  <2>. SUFFICES ASSUME Next, pc # "dead", pc' = "dead" PROVE Excused
    BY <1>1
  <2>1. \/ AcceptFails \/ WelcomeFails \/ ShortBody \/ BodyIsNoMap
        \/ ReplyFails \/ HandlerFails
    BY DEF Next, Serve, Select, SelectInterrupted, Dispatch, Accept, Enter, Skip, EndScan,
           ReceiveHeader, RemoveClient, NoMessage, Checking, Drop, ReceiveBody, Reply,
           Answer, Connect, Read, Write, Quit, Reset, serverVars
  <2>2. CASE AcceptFails
    BY <2>2 DEF AcceptFails
  <2>3. CASE WelcomeFails
    <3>1. backlog # << >> /\ backlog \in Seq([from : Client, fin : BOOLEAN])
      BY <1>1, <2>3 DEF WelcomeFails, Listening, IInv, TypeOK
    <3>2. 1 \in DOMAIN backlog /\ Head(backlog) = backlog[1] /\ backlog[1].fin
      BY <2>3, <3>1 DEF WelcomeFails
    <3>. QED BY <1>1, <2>3, <3>2 DEF WelcomeFails, PInv, Awaited
  <2>4. CASE ShortBody
    BY <1>1, <2>4, PoliteEndsNothing DEF ShortBody
  <2>5. CASE BodyIsNoMap \/ HandlerFails
    BY <2>5 DEF BodyIsNoMap, HandlerFails
  <2>6. CASE ReplyFails
    BY <1>1, <2>6, PoliteEndsNothing DEF ReplyFails
  <2>. QED BY <2>1, <2>2, <2>3, <2>4, <2>5, <2>6
<1>. QED BY <1>1, AlwaysPInv, PTL DEF Spec, SparesThePolite

-----------------------------------------------------------------------------
(* Clients that also send headers and bodies whole *)

Courteous == Client \subseteq Polite /\ Boundaries \subseteq {Header}

\* What has come on a connection is headers and bodies, no part of one.
Halves ==
  /\ \A c \in Client : partial[c] \in {0, Header}
  /\ \A f \in Open : (sock[f].unread + sock[f].taken) % Header = 0

\* The invariant of courteous clients holds at the start.
LEMMA InitHalves == Init => Halves
BY DEF Init, Halves, Open, Closed, Opened

\* A step with which nothing arrives and nobody begins to send.
LEMMA HalvesKept ==
  ASSUME Halves, partial' = partial,
         \A f \in Open' : /\ f \in Open
                          /\ sock'[f].unread + sock'[f].taken = sock[f].unread + sock[f].taken
  PROVE  Halves'
BY DEF Halves

\* Every step of a server that lives keeps the invariant of courteous clients.
LEMMA NextHalves ==
  ASSUME Courteous, IInv, PInv, Halves, [Next]_vars
  PROVE  Halves'
<1>1. CASE UNCHANGED <<sock, partial>>
  <2>1. Open' = Open
    BY <1>1 DEF Open
  <2>. QED BY <1>1, <2>1 DEF Halves
<1>2. CASE Accept
  <2>1. PICK f \in Lowest : Enter(f, <<Welcome(Head(backlog).from)>>)
    BY <1>2 DEF Accept
  <2> DEFINE new == Opened(Head(backlog).from, Head(backlog).fin,
                           <<Welcome(Head(backlog).from)>>)
  <2>2. sock' = [sock EXCEPT ![f] = new] /\ f \in Fd /\ partial' = partial
    BY <2>1 DEF Enter, Lowest, clientVars
  <2>3. (new.unread + new.taken) % Header = 0
    BY DEF Opened, Header
  <2> HIDE DEF new
  <2>4. sock'[f] = new /\ \A g \in Fd \ {f} : sock'[g] = sock[g]
    BY <2>2, Ends
  <2>. QED BY <2>2, <2>3, <2>4 DEF Halves, Open
<1>3. CASE RemoveClient
  <2>1. /\ sock' = [sock EXCEPT ![current] = Closed] /\ partial' = partial
        /\ i \in DOMAIN clients_
    BY <1>3 DEF RemoveClient, NoMessage, Checking, Drop, clientVars, IInv, TypeOK
  <2>2. current \in Fd /\ Closed.peer = None
    BY <2>1, CurrentIsOpen DEF Closed, Opened
  <2> HIDE DEF current, Closed
  <2>3. sock'[current] = Closed /\ \A g \in Fd \ {current} : sock'[g] = sock[g]
    BY <2>1, <2>2, Ends
  <2>. QED BY <2>1, <2>2, <2>3, HalvesKept DEF Open
<1>4. CASE ReceiveHeader \/ ReceiveBody
  <2>1. partial' = partial /\ i \in DOMAIN clients_
    BY <1>4 DEF ReceiveHeader, ReceiveBody, clientVars, Checking, IInv, TypeOK, Engaged
  <2>2. PICK n \in Nat : /\ sock[current].unread >= n
                         /\ sock' = [sock EXCEPT ![current].unread = @ - n,
                                                 ![current].taken = @ + n]
    BY <1>4 DEF ReceiveHeader, ReceiveBody, Header, Message
  <2>3. current \in Fd
    BY <2>1, CurrentIsOpen
  <2>4. /\ sock'[current].taken = sock[current].taken + n
        /\ sock'[current].unread = sock[current].unread - n
        /\ \A g \in Fd : sock'[g].peer = sock[g].peer
        /\ \A g \in Fd \ {current} : sock'[g] = sock[g]
    BY <2>2, <2>3, Taken
  <2>5. sock[current].taken \in Nat /\ sock[current].unread \in Nat
    BY <2>3, Ends DEF Socket
  <2> HIDE DEF current
  <2>6. sock'[current].unread + sock'[current].taken
          = sock[current].unread + sock[current].taken
    BY <2>4, <2>5
  <2>. QED BY <2>1, <2>3, <2>4, <2>6, HalvesKept DEF Open
<1>5. ASSUME NEW f \in Fd, NEW o, sock' = [sock EXCEPT ![f].out = o], partial' = partial
      PROVE  Halves'
  <2>1. /\ \A g \in Fd \ {f} : sock'[g] = sock[g]
        /\ sock'[f] = [sock[f] EXCEPT !.out = o] /\ sock[f] \in Socket
    BY <1>5, Ends
  <2>2. /\ sock'[f].peer = sock[f].peer /\ sock'[f].unread = sock[f].unread
        /\ sock'[f].taken = sock[f].taken
    BY <2>1 DEF Socket
  <2>. QED BY <1>5, <2>1, <2>2, HalvesKept DEF Open
<1>6. CASE Reply
  <2>1. current \in Fd
    BY <1>6, CurrentIsOpen DEF Reply, Answer, IInv, Engaged
  <2>. QED BY <1>5, <1>6, <2>1 DEF Reply, Answer, clientVars
<1>7. ASSUME NEW c \in Client, Read(c) PROVE Halves'
  BY <1>5, <1>7, Ends DEF Read
<1>8. ASSUME NEW c \in Client, Connect(c) PROVE Halves'
  <2>1. sock' = sock /\ partial' = [partial EXCEPT ![c] = 0]
    BY <1>8 DEF Connect
  <2>2. Open' = Open /\ \A d \in Client : partial'[d] \in {0, partial[d]}
    BY <2>1 DEF Open, IInv, TypeOK
  <2>. QED BY <2>1, <2>2 DEF Halves
<1>9. ASSUME NEW c \in Client, Write(c) PROVE Halves'
  <2> DEFINE f == link[c]
  <2>1. PICK upto \in Boundaries \cup {Message} :
          /\ sock' = [sock EXCEPT ![f].unread = @ + upto - partial[c]]
          /\ partial' = [partial EXCEPT ![c] = upto % Message]
    BY <1>9 DEF Write
  <2> DEFINE u == sock[f].unread + upto - partial[c]
  <2>2. /\ f \in Open /\ f \in Fd /\ sock \in [Fd -> Socket] /\ sock[f] \in Socket
        /\ sock[f].unread \in Nat /\ sock[f].taken \in Nat
        /\ partial \in [Client -> Nat]
    <3>1. f \in Fd /\ sock[f] \in Socket /\ sock[f].peer = c /\ sock \in [Fd -> Socket]
      BY <1>9, Ends DEF Write
    <3>2. f \in Open
      BY <3>1, ServerAssumption DEF Open, ServerAssumption
    <3>. QED BY <3>1, <3>2 DEF Socket, IInv, TypeOK
  <2>3. upto \in {Header, Message} /\ partial[c] \in {0, Header}
    BY DEF Courteous, Halves
  <2>4. \A d \in Client : partial'[d] \in {0, Header, partial[d]}
    BY <2>1, <2>2, <2>3 DEF Header, Message
  <2>5. (u + sock[f].taken) % Header = 0
    <3>1. (sock[f].unread + sock[f].taken) % Header = 0
      BY <2>2 DEF Halves
    <3>2. ASSUME NEW x \in Nat, NEW t \in Nat, NEW p \in {0, 2}, NEW n \in {2, 4},
                 (x + t) % 2 = 0
          PROVE  (x + n - p + t) % 2 = 0
      BY <3>2
    <3>. QED BY <2>2, <2>3, <3>1, <3>2 DEF Header, Message
  <2>6. sock' = [sock EXCEPT ![f].unread = u]
    BY <2>1
  <2> HIDE DEF f, u
  <2>7. /\ \A g \in Fd \ {f} : sock'[g] = sock[g]
        /\ sock'[f] = [sock[f] EXCEPT !.unread = u]
    BY <2>2, <2>6
  <2>8. /\ sock'[f].peer = sock[f].peer /\ sock'[f].unread = u
        /\ sock'[f].taken = sock[f].taken
    BY <2>2, <2>7 DEF Socket
  <2>. QED BY <2>4, <2>5, <2>7, <2>8 DEF Halves, Open
<1>10. ASSUME NEW c \in Client, Quit(c) PROVE Halves'
  <2>1. partial' = partial
    BY <1>10 DEF Quit, clientVars
  <2>2. CASE link[c] # None /\ sock' = [sock EXCEPT ![link[c]].fin = TRUE]
    <3> DEFINE f == link[c]
    <3>1. f \in Fd /\ sock[f] \in Socket /\ sock \in [Fd -> Socket]
      BY <2>2, Ends
    <3>2. sock' = [sock EXCEPT ![f].fin = TRUE]
      BY <2>2
    <3> HIDE DEF f
    <3>3. /\ \A g \in Fd \ {f} : sock'[g] = sock[g]
          /\ sock'[f] = [sock[f] EXCEPT !.fin = TRUE]
      BY <3>1, <3>2
    <3>4. /\ sock'[f].peer = sock[f].peer /\ sock'[f].unread = sock[f].unread
          /\ sock'[f].taken = sock[f].taken
      BY <3>1, <3>3 DEF Socket
    <3>. QED BY <2>1, <3>3, <3>4, HalvesKept DEF Open
  <2>3. CASE sock' = sock
    BY <1>1, <2>1, <2>3
  <2>. QED BY <1>10, <2>2, <2>3 DEF Quit
<1>11. ASSUME NEW f \in Fd, Reset(f) PROVE Halves'
  <2>1. /\ sock[f].peer \notin Polite /\ sock[f] \in Socket /\ sock \in [Fd -> Socket]
        /\ sock' = [sock EXCEPT ![f].reset = TRUE, ![f].unread = 0] /\ partial' = partial
    BY <1>11, Ends DEF Reset, PInv, Settled, clientVars
  <2>2. \A g \in Fd \ {f} : sock'[g] = sock[g]
    BY <2>1
  <2>3. sock'[f].peer = sock[f].peer
    <3>1. sock'[f] = [[sock[f] EXCEPT !.reset = TRUE] EXCEPT !.unread = 0]
      BY <2>1
    <3>. QED BY <2>1, <3>1 DEF Socket
  <2>4. sock[f].peer = None
    BY <2>1 DEF Courteous, Socket
  <2>. QED BY <2>1, <2>2, <2>3, <2>4, HalvesKept DEF Open
<1>12. CASE Select \/ SelectInterrupted \/ Die \/ Skip \/ EndScan \/ UNCHANGED vars
  BY <1>1, <1>12 DEF Select, SelectInterrupted, Dispatch, Die, Skip, EndScan, vars,
                     clientVars
<1>. QED BY <1>2, <1>3, <1>4, <1>6, <1>7, <1>8, <1>9, <1>10, <1>11, <1>12
         DEF Next, Serve, AcceptFails, WelcomeFails, ShortBody, BodyIsNoMap, ReplyFails,
             HandlerFails

\* Of a courteous client's connection the recv of a header finds a header or the end.
LEMMA WholeHeader ==
  ASSUME Courteous, IInv, PInv, Halves, NoMessage
  PROVE  sock[current].fin
<1>1. i \in DOMAIN clients_ /\ pc = "scan"
  BY DEF NoMessage, Checking, IInv, TypeOK
<1>2. current \in Open /\ current \in Fd /\ sock[current] \in Socket
  BY <1>1, CurrentIsOpen, Ends
<1>3. ~sock[current].reset
  <2>1. sock[current].peer \in Polite
    BY <1>2 DEF Courteous, Open, Socket
  <2>. QED BY <1>2, <2>1 DEF PInv, Settled
<1>4. /\ sock[current].taken % Message = 0 /\ sock[current].taken \in Nat
      /\ (sock[current].unread + sock[current].taken) % Header = 0
  BY <1>1, <1>2 DEF IInv, StreamAligned, Halves, Socket
<1> HIDE DEF current
<1>5. sock[current].unread # 1
  <2>. SUFFICES ASSUME sock[current].unread = 1 PROVE FALSE
    OBVIOUS
  <2>1. ASSUME NEW t \in Nat, t % 4 = 0 PROVE (1 + t) % 2 = 1
    BY <2>1
  <2>. QED BY <1>4, <2>1 DEF Header, Message
<1>. QED BY <1>3, <1>5 DEF NoMessage, Header, current

\* Of clients that quit between messages with every answer read, and send headers and
\* bodies whole, none is dropped before its end has come, whatever the server removes on
\* the way (checkConnection, removeClient).
THEOREM KeepsTheCourteous ==
  ASSUME Courteous
  PROVE  Spec => DropsOnlyTheGone
<1>1. ASSUME IInv, pc = "dead" \/ (PInv /\ Halves), [Next]_vars
      PROVE  [\A f \in Range(clients_) \ Range(clients_') : sock[f].fin]_vars
  <2>. SUFFICES ASSUME Next, NEW f \in Range(clients_) \ Range(clients_')
                PROVE  sock[f].fin
    BY <1>1
  <2>1. clients_ \in Seq(Fd)
    BY <1>1 DEF IInv, TypeOK
  <2>2. ~Accept
    <3>. SUFFICES ASSUME Accept PROVE FALSE
      OBVIOUS
    <3>1. PICK g \in Fd : clients_' = Append(clients_, g)
      BY DEF Accept, Enter, Lowest
    <3>2. Range(clients_) \subseteq Range(clients_')
      BY <2>1, <3>1, AppendProperties DEF Range
    <3>. QED BY <3>2
  <2>3. RemoveClient
    <3>1. clients_' # clients_
      BY DEF Range
    <3>. QED BY <2>2, <3>1
         DEF Next, Serve, Select, SelectInterrupted, Dispatch, AcceptFails, WelcomeFails,
             Skip, EndScan, ReceiveHeader, ReceiveBody, ShortBody, BodyIsNoMap, Reply,
             Answer, ReplyFails, HandlerFails, Die, Connect, Read, Write, Quit, Reset, serverVars
  <2>4. f = current
    <3>1. PICK k \in Found : Drop(RemoveAt(clients_, k), i)
      BY <2>3 DEF RemoveClient
    <3>2. k \in DOMAIN clients_ /\ clients_[k] = current /\ clients_' = RemoveAt(clients_, k)
      BY <3>1 DEF Found, Drop
    <3>3. Range(clients_') = Range(clients_) \ {clients_[k]}
      BY <1>1, <2>1, <3>2, RemovedOnce DEF IInv, DescriptorsTracked
    <3>. QED BY <3>2, <3>3
  <2>5. pc # "dead"
    BY <2>3 DEF RemoveClient, NoMessage, Checking
  <2>. QED BY <1>1, <2>3, <2>4, <2>5, WholeHeader DEF RemoveClient
<1>2. IInv /\ Requested /\ (pc = "dead" \/ (PInv /\ Halves)) /\ [Next]_vars
        => (pc = "dead" \/ (PInv /\ Halves))'
  BY NextPInv, NextHalves, DeadStays
<1>. QED BY <1>1, <1>2, AlwaysPInv, InitPInv, InitHalves, PTL DEF Spec, DropsOnlyTheGone

=============================================================================
