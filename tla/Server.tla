------------------------------- MODULE Server -------------------------------
(***************************************************************************)
(* server/Server: one thread that selects on the listening socket and on   *)
(* its clients', accepts one connection or answers one message of every    *)
(* ready client, and selects again.  Its sockets are blocking.             *)
(*                                                                         *)
(* A message is a header of six bytes and a body; each is two units here,  *)
(* so that either can arrive in two pieces.  The kernel, the network and   *)
(* the clients are external: they are modelled as far as recv, send,       *)
(* accept and select let the server see them.                              *)
(***************************************************************************)
EXTENDS Integers, FiniteSets, SequencesExt

CONSTANTS
  Client,       \* the client programs
  Fd,           \* the descriptors that accept can return
  Boundaries,   \* after how many units of a message a delivery may end
  Polite,       \* clients that quit only between messages with every answer read,
                \* and send only maps with requests that handleRequest answers
  SelectFails,  \* select may be interrupted or fail
  Backlog,      \* bound: connections that wait to be accepted
  Capacity,     \* bound: answers that fit a connection's send buffer
  MaxRequests,  \* bound: requests of a client in one connection
  MaxSessions,  \* bound: connections a client makes
  None          \* no client, no descriptor

Header  == 2
Message == 4

ASSUME ServerAssumption ==
  /\ Fd \subseteq Nat
  /\ Boundaries \subseteq 1..(Message - 1)
  /\ Polite \subseteq Client /\ SelectFails \in BOOLEAN
  /\ {Backlog, Capacity, MaxRequests, MaxSessions} \subseteq Nat \ {0}
  /\ None \notin Client \cup Fd

VARIABLES
  pc,        \* where the server is: "select", "accept", "scan", "body", "reply", "dead"
  clients_,  \* its clients' descriptors, in the order of the scan
  read_fds,  \* what select has marked; None stands for the listening socket
  i,         \* the index of the scan in clients_
  checked,   \* the marked clients this scan has come to (not in the code)
  sock,      \* the kernel's side of every descriptor
  backlog,   \* the connections that wait to be accepted
  link,      \* link[c]: the descriptor that c's connection has got, or None
  asked,     \* asked[c]: requests that c has completed in this connection
  partial,   \* partial[c]: units of c's next message that have arrived
  got,       \* got[c]: answers c has read in this connection, the welcome included
  sessions   \* sessions[c]: connections that c has made

serverVars == <<pc, clients_, read_fds, i, checked>>
clientVars == <<asked, partial, got, sessions>>
vars == <<serverVars, sock, backlog, link, clientVars>>

\* A descriptor as accept returns it, and one that is not open: who is at the other
\* end, whether its FIN or a reset has arrived, the units unread and those taken,
\* and the answers that wait to be read.
Opened(c, fin, out) == [peer |-> c, fin |-> fin, reset |-> FALSE,
                        unread |-> 0, taken |-> 0, out |-> out]
Closed == Opened(None, FALSE, << >>)

Open == {f \in Fd : sock[f].peer # None}

\* What select reports: something to read, or the end of the connection.
Readable(f) == sock[f].unread > 0 \/ sock[f].fin \/ sock[f].reset

current == clients_[i]

Init ==
  /\ pc = "select" /\ clients_ = << >> /\ read_fds = {} /\ i = 1 /\ checked = {}
  /\ sock = [f \in Fd |-> Closed]
  /\ backlog = << >>
  /\ link = [c \in Client |-> None]
  /\ asked = [c \in Client |-> 0] /\ partial = [c \in Client |-> 0]
  /\ got = [c \in Client |-> 0] /\ sessions = [c \in Client |-> 0]

-----------------------------------------------------------------------------
(* The server *)

Listening == backlog # << >>

\* initializeFDSet and select, then the branch on the listening socket: it has
\* precedence, and the clients that are ready too wait for the next select.
Dispatch(marked) ==
  /\ pc = "select"
  /\ read_fds' = marked
  /\ checked' = {}
  /\ IF None \in marked THEN pc' = "accept" /\ UNCHANGED i
                        ELSE pc' = "scan" /\ i' = 1
  /\ UNCHANGED <<clients_, sock, backlog, link, clientVars>>

Select ==
  LET marked == {f \in Range(clients_) : Readable(f)}
                  \cup (IF Listening THEN {None} ELSE {})
  IN  marked # {} /\ Dispatch(marked)

\* select fails, which is at most printed, and read_fds is as initializeFDSet left
\* it: everything counts as ready.
SelectInterrupted ==
  SelectFails /\ Dispatch(Range(clients_) \cup {None})

Die ==
  /\ pc' = "dead"
  /\ UNCHANGED <<clients_, read_fds, i, checked, sock, backlog, link, clientVars>>

\* The descriptor that accept returns, and the connection it is for.
Lowest == {f \in Fd \ Open : \A g \in Fd \ Open : f <= g}
Welcome(c) == [to |-> c, re |-> 0]

Enter(f, out) ==
  LET c == Head(backlog).from
  IN  /\ sock' = [sock EXCEPT ![f] = Opened(c, Head(backlog).fin, out)]
      /\ link' = IF Head(backlog).fin THEN link ELSE [link EXCEPT ![c] = f]
      /\ clients_' = Append(clients_, f)
      /\ backlog' = Tail(backlog)
      /\ pc' = "select"
      /\ UNCHANGED <<read_fds, i, checked, clientVars>>

\* A mutant: the welcome is forgotten.
Accept_Silent ==
  /\ pc = "accept" /\ Listening
  /\ \E f \in Lowest : Enter(f, << >>)

\* addNewConnection: accept takes the lowest free descriptor, the welcome is sent,
\* and the client is the last of the next scan.  accept blocks without a connection.
Accept ==
  /\ pc = "accept" /\ Listening
  /\ \E f \in Lowest : Enter(f, <<Welcome(Head(backlog).from)>>)

\* "Accepting error": no descriptor is free.
AcceptFails ==
  /\ pc = "accept" /\ Listening /\ Fd \subseteq Open
  /\ Die

\* The welcome's send to a client that has left before it was accepted may fail.
WelcomeFails ==
  /\ pc = "accept" /\ Listening /\ Head(backlog).fin /\ Lowest # {}
  /\ Die

\* The head of the loop over clients_, and checkConnection of one not marked.
Skip ==
  /\ pc = "scan"
  /\ i <= Len(clients_) /\ current \notin read_fds
  /\ i' = i + 1
  /\ UNCHANGED <<pc, clients_, read_fds, checked, sock, backlog, link, clientVars>>

EndScan ==
  /\ pc = "scan"
  /\ i > Len(clients_)
  /\ pc' = "select"
  /\ UNCHANGED <<clients_, read_fds, i, checked, sock, backlog, link, clientVars>>

Checking == pc = "scan" /\ i <= Len(clients_) /\ current \in read_fds

\* recv of the header, when all of it is there.
ReceiveHeader ==
  /\ Checking
  /\ ~sock[current].reset
  /\ sock[current].unread >= Header
  /\ sock' = [sock EXCEPT ![current].unread = @ - Header, ![current].taken = @ + Header]
  /\ checked' = checked \cup {current}
  /\ pc' = "body"
  /\ UNCHANGED <<clients_, read_fds, i, backlog, link, clientVars>>

\* recv of the header finds the end, an error, or less than six bytes.
NoMessage ==
  /\ Checking
  /\ \/ sock[current].reset
     \/ sock[current].unread = 0 /\ sock[current].fin
     \/ sock[current].unread \in 1..(Header - 1)

\* std::find: the first place of the descriptor in clients_.
Found == {k \in DOMAIN clients_ :
            clients_[k] = current /\ \A j \in 1..(k - 1) : clients_[j] # current}

\* removeClient, with what the vector holds after it and where the scan goes on.
Drop(rest, next) ==
  /\ sock' = [sock EXCEPT ![current] = Closed]
  /\ clients_' = rest
  /\ i' = next
  /\ link' = [c \in Client |-> IF link[c] = current THEN None ELSE link[c]]
  /\ checked' = checked \cup {current}
  /\ UNCHANGED <<pc, read_fds, backlog, clientVars>>

\* Mutants: the scan goes on behind the client that has moved up, or goes back too
\* far; the wrong client is erased; a failed read ends the server.
RemoveClient_Skips == NoMessage /\ \E k \in Found : Drop(RemoveAt(clients_, k), i + 1)
RemoveClient_Back  == NoMessage /\ \E k \in Found : Drop(RemoveAt(clients_, k), i - 1)
RemoveClient_Oldest == NoMessage /\ Drop(Tail(clients_), i)
RemoveClient_Exits == NoMessage /\ Die

\* "Host disconnected": the descriptor is closed and taken out of clients_, and the
\* scan's --i comes back to this index.
RemoveClient == NoMessage /\ \E k \in Found : Drop(RemoveAt(clients_, k), i)

\* A mutant: the body's last unit is left unread.
ReceiveBody_LeavesOne ==
  /\ pc = "body" /\ ~sock[current].reset
  /\ sock[current].unread >= Message - Header
  /\ sock' = [sock EXCEPT ![current].unread = @ - (Message - Header - 1),
                          ![current].taken = @ + (Message - Header - 1)]
  /\ pc' = "reply"
  /\ UNCHANGED <<clients_, read_fds, i, checked, backlog, link, clientVars>>

\* recv of the body, all of it, which is a map; it blocks while there is nothing and
\* no end.
ReceiveBody ==
  /\ pc = "body"
  /\ ~sock[current].reset
  /\ sock[current].unread >= Message - Header
  /\ sock' = [sock EXCEPT ![current].unread = @ - (Message - Header),
                          ![current].taken = @ + (Message - Header)]
  /\ pc' = "reply"
  /\ UNCHANGED <<clients_, read_fds, i, checked, backlog, link, clientVars>>

\* recv of the body gets less: ReceiveFrom ends the process.
ShortBody ==
  /\ pc = "body"
  /\ \/ sock[current].reset
     \/ sock[current].unread = 0 /\ sock[current].fin
     \/ sock[current].unread \in 1..(Message - Header - 1)
  /\ Die

\* The body is no map: ChatMessage's constructor throws, and nothing catches it.
BodyIsNoMap ==
  /\ pc = "body"
  /\ ~sock[current].reset
  /\ sock[current].unread >= Message - Header
  /\ sock[current].peer \notin Polite
  /\ Die

\* The answer to the message just read, handleRequest's or "ERROR: No request", is
\* sent on descriptor f; send blocks while the connection's buffer is full.
Answer(f, next) ==
  /\ pc = "reply"
  /\ ~sock[f].reset
  /\ Len(sock[f].out) < Capacity
  /\ sock' = [sock EXCEPT ![f].out =
                Append(@, [to |-> sock[current].peer,
                           re |-> sock[current].taken \div Message])]
  /\ pc' = "scan"
  /\ i' = next
  /\ UNCHANGED <<clients_, read_fds, checked, backlog, link, clientVars>>

\* Mutants: the answer goes to the oldest client; --i also after an answer; no answer.
Reply_ToOldest == Answer(Head(clients_), i + 1)
Reply_Again == Answer(current, i)
Reply_Nothing ==
  /\ pc = "reply" /\ pc' = "scan" /\ i' = i + 1
  /\ UNCHANGED <<clients_, read_fds, checked, sock, backlog, link, clientVars>>

\* processMessageFrom answers where the message came from, and the scan goes on.
Reply == Answer(current, i + 1)

\* send to a connection that was reset: EPIPE, or the signal that comes with it.
ReplyFails ==
  /\ pc = "reply"
  /\ sock[current].reset
  /\ Die

\* handleRequest does not return: an exception that nobody catches, getSlice's
\* assertion, or what is left of a service whose reload has failed.
HandlerFails ==
  /\ pc = "reply"
  /\ sock[current].peer \notin Polite
  /\ Die

Serve ==
  \/ Select \/ Accept \/ AcceptFails \/ WelcomeFails
  \/ Skip \/ EndScan \/ ReceiveHeader \/ RemoveClient
  \/ ReceiveBody \/ ShortBody \/ BodyIsNoMap
  \/ Reply \/ ReplyFails \/ HandlerFails

-----------------------------------------------------------------------------
(* The clients and the network *)

Connecting(c) == \E k \in DOMAIN backlog : backlog[k] = [from |-> c, fin |-> FALSE]
Unconnected(c) == link[c] = None /\ ~Connecting(c)

Connect(c) ==
  /\ pc # "dead"
  /\ Unconnected(c)
  /\ sessions[c] < MaxSessions
  /\ Len(backlog) < Backlog
  /\ backlog' = Append(backlog, [from |-> c, fin |-> FALSE])
  /\ sessions' = [sessions EXCEPT ![c] = @ + 1]
  /\ asked' = [asked EXCEPT ![c] = 0]
  /\ partial' = [partial EXCEPT ![c] = 0]
  /\ got' = [got EXCEPT ![c] = 0]
  /\ UNCHANGED <<serverVars, sock, link>>

\* The client reads the welcome or an answer.
Read(c) ==
  /\ link[c] # None
  /\ sock[link[c]].out # << >>
  /\ sock' = [sock EXCEPT ![link[c]].out = Tail(@)]
  /\ got' = [got EXCEPT ![c] = @ + 1]
  /\ UNCHANGED <<serverVars, backlog, link, asked, partial, sessions>>

\* Units of the client's next message arrive, up to a boundary or the end of it; a
\* client sends nothing before it has read the welcome.
Write(c) ==
  /\ link[c] # None /\ got[c] > 0
  /\ asked[c] < MaxRequests
  /\ \E upto \in Boundaries \cup {Message} :
       /\ upto > partial[c]
       /\ sock' = [sock EXCEPT ![link[c]].unread = @ + upto - partial[c]]
       /\ partial' = [partial EXCEPT ![c] = upto % Message]
       /\ asked' = [asked EXCEPT ![c] = IF upto = Message THEN @ + 1 ELSE @]
  /\ UNCHANGED <<serverVars, backlog, link, got, sessions>>

\* The client's process ends, or closes its socket.
Quit(c) ==
  /\ \/ /\ link[c] # None
        /\ c \in Polite => partial[c] = 0 /\ got[c] = asked[c] + 1
        /\ sock' = [sock EXCEPT ![link[c]].fin = TRUE]
        /\ UNCHANGED backlog
     \/ /\ Connecting(c) /\ c \notin Polite
        /\ backlog' = [k \in DOMAIN backlog |->
                         IF backlog[k].from = c THEN [backlog[k] EXCEPT !.fin = TRUE]
                                                ELSE backlog[k]]
        /\ UNCHANGED sock
  /\ link' = [link EXCEPT ![c] = None]
  /\ UNCHANGED <<serverVars, clientVars>>

\* Answers that nobody will read make the other end send a reset, and what was
\* unread is lost.
Reset(f) ==
  /\ sock[f].fin /\ sock[f].out # << >> /\ ~sock[f].reset
  /\ sock' = [sock EXCEPT ![f].reset = TRUE, ![f].unread = 0]
  /\ UNCHANGED <<serverVars, backlog, link, clientVars>>

Next ==
  \/ Serve
  \/ SelectInterrupted
  \/ \E c \in Client : Connect(c) \/ Read(c) \/ Write(c) \/ Quit(c)
  \/ \E f \in Fd : Reset(f)

Spec == Init /\ [][Next]_vars

\* The server keeps running; a client reads its answers, and one that has begun a
\* message sends the rest of it (sendMessage sends header and body in a row).
\* Nothing makes clients connect, ask or quit.
Fairness ==
  /\ WF_vars(Serve)
  /\ \A c \in Client : WF_vars(Read(c)) /\ WF_vars(partial[c] # 0 /\ Write(c))

FairSpec == Spec /\ Fairness

-----------------------------------------------------------------------------
TypeOK ==
  /\ pc \in {"select", "accept", "scan", "body", "reply", "dead"}
  /\ clients_ \in Seq(Fd)
  /\ read_fds \subseteq Fd \cup {None}
  /\ i \in 1..(Len(clients_) + 1)
  /\ checked \subseteq Fd
  /\ sock \in [Fd -> [peer : Client \cup {None}, fin : BOOLEAN, reset : BOOLEAN,
                      unread : Nat, taken : Nat,
                      out : Seq([to : Client, re : Nat])]]
  /\ backlog \in Seq([from : Client, fin : BOOLEAN])
  /\ link \in [Client -> Fd \cup {None}]
  /\ \A count \in {asked, partial, got, sessions} : count \in [Client -> Nat]

\* clients_ holds every open descriptor once and no other, whatever was removed and
\* reused meanwhile: none is leaked, none is closed twice or selected on after it
\* was closed (addNewConnection, removeClient, initializeFDSet).
DescriptorsTracked ==
  /\ Range(clients_) = Open
  /\ \A j, k \in DOMAIN clients_ : clients_[j] = clients_[k] => j = k

\* What waits for a client are the answers to its own requests of this connection,
\* in the order asked, from the first that it has not read on: the welcome, then
\* each once.  No answer is lost, doubled or sent to the next owner of a descriptor
\* (addNewConnection, processMessageFrom, accept's reuse of descriptors).
AnswersInOrder ==
  \A c \in Client : link[c] # None =>
    \A k \in DOMAIN sock[link[c]].out :
      sock[link[c]].out[k] = [to |-> c, re |-> got[c] + k - 1]

\* The server takes messages whole, and asks nobody twice: between two messages a
\* connection's stream is at a message's beginning (receiveMessageFrom).
StreamAligned ==
  \A f \in Open : sock[f].taken % Message # 0 => pc \in {"body", "dead"} /\ f = current

\* A scan comes to every client that select has marked, also to the one that moves
\* into the place of a client it has removed (run's --i).
ScanComplete ==
  [][pc = "scan" /\ pc' = "select" => read_fds \cap Range(clients_) \subseteq checked]_vars

\* ... and to none of them twice.
OncePerScan ==
  [][ReceiveHeader \/ RemoveClient => current \notin checked]_vars

\* Only a client whose end has come is dropped (checkConnection, removeClient).
DropsOnlyTheGone ==
  [][\A f \in Range(clients_) \ Range(clients_') : sock[f].fin]_vars

\* The connection of a client as Session has it: who is linked has read got answers,
\* and the rest of what it was sent waits in its descriptor.
SessionOf(c) ==
  IF link[c] # None
    THEN [status |-> "open", asked |-> asked[c],
          answered |-> got[c] + Len(sock[link[c]].out), inbox |-> sock[link[c]].out]
    ELSE [status |-> IF Connecting(c) THEN "waiting" ELSE "gone",
          asked |-> 0, answered |-> 0, inbox |-> << >>]

\* To each of its clients the server is a Session, whatever the others and the
\* network do: it welcomes before it answers, answers nothing that was not asked,
\* and every answer has its request's place (run, processMessageFrom, sendMessageTo).
Sessions == INSTANCE Session WITH session <- [c \in Client |-> SessionOf(c)]
KeepsSessions == Sessions!Spec

\* No polite client ends the server, whatever impolite ones do beside it and however
\* descriptors are reused: the process ends while it accepts, for want of a descriptor
\* or with an impolite client, or over a message of an impolite client, or over a body
\* that comes in pieces (every ExitWithError and every uncaught exception of
\* addNewConnection, receiveMessageFrom and processMessageFrom; removeClient, with
\* which a polite client's connection ends, is none of them).
SparesThePolite ==
  [][pc # "dead" /\ pc' = "dead" =>
       \/ pc = "accept" /\ (Fd \subseteq Open \/ Head(backlog).from \notin Polite)
       \/ pc \in {"body", "reply"} /\ sock[current].peer \notin Polite
       \/ pc = "body" /\ sock[current].unread \in 1..(Message - Header - 1)]_vars

\* A body that cannot be read costs its client the connection and no more: it is
\* reported and receiveMessageFrom returns nothing (its test after ReceiveFrom).
FailedReadIsSurvived ==
  [][pc = "body" /\ (sock[current].reset \/ sock[current].unread < Message - Header)
       => pc' # "dead"]_vars

\* Every client that connects is welcomed, and every request that a client has
\* sent is answered, unless it quits before.  Both are about requests that the service
\* answers: over one that it does not survive the server ends for everybody.
EveryConnectionWelcomed ==
  \A c \in Client : Connecting(c) ~> ~Connecting(c) /\ (got[c] > 0 \/ link[c] = None)
EveryRequestAnswered ==
  \A c \in Client : \A k \in 1..MaxRequests :
    link[c] # None /\ asked[c] = k ~> link[c] = None \/ got[c] > k

=============================================================================
