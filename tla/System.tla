------------------------------- MODULE System -------------------------------
(***************************************************************************)
(* The whole: OLAPService answers the requests of several clients over the *)
(* sessions that Server gives them (Session.tla, which Server.tla keeps).  *)
(* The process and its connections die together; a client comes back by    *)
(* itself, with a new connection.                                          *)
(*                                                                         *)
(* A message carries no number: an answer is the one to the request that   *)
(* is first in its client's row, the welcome that to the connection.       *)
(***************************************************************************)
EXTENDS OLAPService

CONSTANTS
  Client,     \* the client programs
  Asks,       \* Asks[c]: the requests that client c makes
  Nobody,     \* no client
  MaxAsked,   \* bound: MaxAsked[c] requests of c in one connection
  MaxLeft     \* bound: connections closed with requests that wait

ASSUME SystemAssumption ==
  /\ Asks \in [Client -> SUBSET Request]
  /\ Nobody \notin Client
  /\ MaxAsked \in [Client -> Nat] /\ MaxLeft \in Nat

VARIABLES
  session,   \* as in Session.tla
  asked,     \* asked[c]: c's requests whose answers it has not read, each with the
             \* lists that the service has had while it waited (not in the code)
  inbox,     \* inbox[c]: the answers to the first of them
  lost,      \* the clients whose connection is one to a process that has died
  left,      \* the requests that wait in each connection closed by its client
  serving    \* the client whose SAVE is being written

netVars == <<session, asked, inbox, lost, left, serving>>
systemVars == <<vars, netVars>>

Network == INSTANCE Session

Waiting(c) == SubSeq(asked[c], Len(inbox[c]) + 1, Len(asked[c]))
Entry(req) == [req |-> req, seen |-> {records}]

SystemInit ==
  /\ Init
  /\ Network!Init
  /\ asked = [c \in Client |-> << >>] /\ inbox = [c \in Client |-> << >>]
  /\ lost = {} /\ left = << >> /\ serving = Nobody

-----------------------------------------------------------------------------
(* The clients *)

Connect(c) ==
  /\ Running
  /\ Network!Connect(c)
  /\ asked' = [asked EXCEPT ![c] = <<Entry(NotAMap)>>]
  /\ UNCHANGED <<vars, inbox, lost, left, serving>>

Ask(c, req) ==
  /\ session[c].asked < MaxAsked[c]
  /\ Network!Ask(c)
  /\ asked' = [asked EXCEPT ![c] = Append(@, Entry(req))]
  /\ UNCHANGED <<vars, inbox, lost, left, serving>>

Read(c) ==
  /\ Network!Read(c)
  /\ asked' = [asked EXCEPT ![c] = Tail(@)]
  /\ inbox' = [inbox EXCEPT ![c] = Tail(@)]
  /\ UNCHANGED <<vars, lost, left, serving>>

\* The client ends, or sees the end of the connection.  What it has asked of a process
\* that runs is in the socket still, and will be carried out.
Close(c) ==
  /\ Network!Close(c)
  /\ LET requests == [k \in DOMAIN Waiting(c) |-> Waiting(c)[k].req]
         rest == IF serving = c THEN Tail(requests) ELSE requests
     IN  IF c \in lost \/ session[c] = Network!Awaiting \/ rest = << >>
         THEN UNCHANGED left
         ELSE Len(left) < MaxLeft /\ left' = Append(left, rest)
  /\ asked' = [asked EXCEPT ![c] = << >>] /\ inbox' = [inbox EXCEPT ![c] = << >>]
  /\ lost' = lost \ {c}
  /\ serving' = IF serving = c THEN Nobody ELSE serving
  /\ UNCHANGED vars

-----------------------------------------------------------------------------
(* The server, between two requests or in one *)

Accept(c) ==
  /\ pc = "ready" /\ c \notin lost
  /\ Network!Welcome(c)
  /\ inbox' = [inbox EXCEPT ![c] = <<[status |-> "OK", body |-> ""]>>]
  /\ UNCHANGED <<vars, asked, lost, left, serving>>

\* The answer that the handler has returned goes to c, if it is still there.
Deliver(c) ==
  IF c = Nobody THEN UNCHANGED <<session, inbox>>
  ELSE /\ Network!Answer(c)
       /\ inbox' = [inbox EXCEPT ![c] =
                      Append(@, [status |-> reply'.status, body |-> reply'.body])]

\* Every request that waits sees the list that this step makes.
Witness ==
  asked' = [c \in Client |-> [k \in DOMAIN asked[c] |->
              IF k <= Len(inbox[c]) THEN asked[c][k]
              ELSE [asked[c][k] EXCEPT !.seen = @ \cup {records'}]]]

Crash ==
  /\ lost' = {c \in Client : session[c] # Network!Gone}
  /\ left' = << >>
  /\ serving' = Nobody
  /\ UNCHANGED <<session, inbox>>

\* One request is handled: answered, a save begun, or the end of the process.
Handle(c, req) ==
  /\ HandleRequest(req)
  /\ Witness
  /\ \/ pc' = "ready" /\ Deliver(c) /\ UNCHANGED <<lost, serving>>
     \/ pc' = "saving" /\ serving' = c /\ UNCHANGED <<session, inbox, lost>>
     \/ pc' = "aborted" /\ Crash

Serve(c) ==
  /\ c \notin lost /\ session[c].status = "open" /\ Waiting(c) # << >>
  /\ Handle(c, Head(Waiting(c)).req)
  /\ pc' # "aborted" => UNCHANGED left

\* A request of a client that has gone; where its answer ends is not seen here.
ServeLeft(j) ==
  /\ Handle(Nobody, Head(left[j]))
  /\ pc' # "aborted" =>
       left' = IF Len(left[j]) = 1 THEN RemoveAt(left, j)
                                   ELSE [left EXCEPT ![j] = Tail(@)]

EndSave ==
  /\ SaveClose \/ SaveWriteFails
  /\ Deliver(serving)
  /\ serving' = Nobody
  /\ UNCHANGED <<asked, lost, left>>

Die == Kill /\ Crash /\ UNCHANGED asked

Alone == (Start \/ SaveFlush \/ StorageLost) /\ UNCHANGED netVars

SystemNext ==
  \/ \E c \in Client :
       \/ Connect(c) \/ Read(c) \/ Close(c)
       \/ \E req \in Asks[c] : Ask(c, req)
       \/ Accept(c) \/ Serve(c)
  \/ \E j \in DOMAIN left : ServeLeft(j)
  \/ EndSave
  \/ Die
  \/ Alone

SystemSpec == SystemInit /\ [][SystemNext]_systemVars

-----------------------------------------------------------------------------
(* Properties *)

\* What an answer says of the list.
Tells(req, answer, list) ==
  /\ OfType(req, {"GET_RECORDS"}) => answer = [status |-> "DATA", body |-> list]
  /\ OfType(req, {"ADD_RECORD"}) /\ answer.status = "OK" =>
       list # << >> /\ Last(list) = ParseFromString(req.data)
  /\ OfType(req, {"REMOVE_RECORD"}) /\ GivesRecord(req) /\ answer.status = "ERROR" =>
       ParseFromString(req.data) \notin Range(list)

\* Whatever the other clients ask meanwhile, and however often the process dies and
\* comes back, the answer in a request's place is one to this request, and true of a
\* list that the service had between the asking and the answering.
AnswersWereTrue ==
  \A c \in Client : \A k \in DOMAIN inbox[c] :
    \E list \in asked[c][k].seen : Tells(asked[c][k].req, inbox[c][k], list)

=============================================================================
