------------------------------ MODULE FrontEnd ------------------------------
(***************************************************************************)
(* The three programs a user talks to the service with: the command line   *)
(* front end ("cli"), the graphical one ("gui") and the C++ run_client     *)
(* ("chat").  Each has one connection and one thread, which writes a       *)
(* request and reads answers at the places its code has for it.            *)
(*                                                                         *)
(* The server and the service are external: requests are answered one at a *)
(* time, in the order in which they were sent (AnswersInOrder in Server),  *)
(* until the server ends.                                                  *)
(***************************************************************************)
EXTENDS Integers, Sequences

CONSTANTS
  Programs,   \* the programs that are started
  Prompt,     \* answers come within the second that the cli's select waits
  MaxAsked    \* bound: requests that the user makes

ASSUME FrontEndAssumption ==
  /\ Programs \subseteq {"cli", "gui", "chat"}
  /\ Prompt \in BOOLEAN
  /\ MaxAsked \in Nat

VARIABLES
  program,   \* which of the programs this is
  pc,        \* "hello", "drain", "input", "idle", "wait", "spin" or "ended"
  asked,     \* requests sent; a request's number is its place among them
  changes,   \* ... of which this many were no GET requests
  requests,  \* those sent and not answered yet
  answers,   \* those answered and not read yet
  request,   \* the GET request whose answer is waited for
  shown,     \* the answer that was taken for a GET request's last
  claimed,   \* requests that the gui has called a success
  server     \* "up" or "gone"

vars == <<program, pc, asked, changes, requests, answers, request, shown,
          claimed, server>>

\* A request type that the user of the cli or run_client makes up is for them as an
\* ADD_RECORD that is refused.
Changes == {"RELOAD", "SAVE", "ADD_RECORD", "REMOVE_RECORD"}
Gets    == {"GET_RECORDS", "GET_SLICE", "GET_DIAGRAM"}

\* What the service may answer: the words OK or ERROR and why, a list of records, a
\* cube, or a cube with a number that is no integer as it is written ("1e+06").
\* run_client sends no slice.
Forms(kind) ==
  CASE kind \in {"RELOAD", "SAVE"} -> {"ok"}
    [] kind = "GET_RECORDS"        -> {"list"}
    [] kind = "GET_SLICE"          -> IF program = "chat" THEN {"error"} ELSE {"cube"}
    [] kind = "GET_DIAGRAM"        -> {"cube", "decimals", "error"}
    [] OTHER                       -> {"ok", "error"}

Init ==
  /\ program \in Programs
  /\ pc = "hello"
  /\ asked = 0 /\ changes = 0
  /\ requests = << >>
  /\ answers = <<[to |-> 0, form |-> "welcome"]>>
  /\ request = [n |-> 0, kind |-> "none"]
  /\ shown = [for |-> 0, of |-> 0, failed |-> FALSE]
  /\ claimed = {}
  /\ server = "up"

-----------------------------------------------------------------------------
(* The programs *)

\* Mutant: the gui comes back to a loop that it does not have.
Home_Loop == "drain"

\* Where a program goes on after a request: StartChatting's loop or Tk's.
Home == IF program = "gui" THEN "idle" ELSE "drain"

\* Where an exception leads: out of the program, or back to Tk, which prints it.
Failed == IF program = "gui" /\ pc # "hello" THEN "idle" ELSE "ended"

\* Client.run reads the welcome.
Greet ==
  /\ pc = "hello" /\ answers # << >>
  /\ answers' = Tail(answers)
  /\ pc' = Home
  /\ UNCHANGED <<program, asked, changes, requests, request, shown, claimed, server>>

\* StartChatting prints whatever has come.
Drain ==
  /\ pc = "drain" /\ answers # << >>
  /\ answers' = Tail(answers)
  /\ UNCHANGED <<program, pc, asked, changes, requests, request, shown, claimed, server>>

\* Mutant: hasAnyMessages does not wait, as the one of run_client.
HasNoMessages_Polls == pc = "drain" /\ answers = << >> /\ server = "up"

\* hasAnyMessages returns False: after a second in the cli, at once in run_client.
HasNoMessages ==
  /\ pc = "drain" /\ answers = << >> /\ server = "up"
  /\ program = "cli" /\ Prompt => requests = << >>

StopDraining ==
  /\ HasNoMessages
  /\ pc' = "input"
  /\ UNCHANGED <<program, asked, changes, requests, answers, request, shown,
                 claimed, server>>

\* GetUserInput returns nothing, or the user stops.
NoRequest ==
  /\ \/ pc = "input" /\ pc' \in {"drain", "ended"}
     \/ pc = "idle" /\ pc' = "ended"
  /\ UNCHANGED <<program, asked, changes, requests, answers, request, shown,
                 claimed, server>>

Waits(kind) == program # "chat" /\ kind \in Gets

\* A request is sent.  The gui then calls a change a success; the two Python programs
\* wait for the answer to a GET; nobody waits for the answer to a change.
Ask(kind) ==
  LET this == [n |-> asked + 1, kind |-> kind]
  IN  /\ pc \in {"input", "idle"}
      /\ asked < MaxAsked
      /\ asked' = asked + 1
      /\ changes' = IF kind \in Changes THEN changes + 1 ELSE changes
      /\ requests' = IF server = "up" THEN Append(requests, this) ELSE requests
      /\ claimed' = IF program = "gui" /\ kind \in Changes
                      THEN claimed \cup {this} ELSE claimed
      /\ pc' = IF Waits(kind) THEN "wait" ELSE Home
      /\ request' = IF Waits(kind) THEN this ELSE request
  /\ UNCHANGED <<program, answers, shown, server>>

\* send fails: the server has gone.
AskFails ==
  /\ pc = "input" /\ server = "gone"
  /\ pc' = Failed
  /\ UNCHANGED <<program, asked, changes, requests, answers, request, shown,
                 claimed, server>>

\* What the program makes of an answer: the words are no JSON, a list has no "cube",
\* int() refuses decimals.  Another request's cube may have what the chart needs.
Renders(answer) ==
  CASE answer.form \in {"ok", "error"}   -> {FALSE}
    [] request.kind = "GET_RECORDS"      -> {TRUE}
    [] answer.form = "list"              -> {FALSE}
    [] answer.to # request.n             -> BOOLEAN
    [] request.kind = "GET_DIAGRAM"      -> {answer.form = "cube"}
    [] OTHER                             -> {TRUE}

\* The answer to a GET request: whatever comes first is taken for it.
Take(rest) ==
  /\ pc = "wait"
  /\ \E rendered \in Renders(Head(answers)) :
       /\ shown' = [for |-> request.n, of |-> Head(answers).to, failed |-> ~rendered]
       /\ pc' = IF rendered THEN Home ELSE Failed
  /\ answers' = rest
  /\ UNCHANGED <<program, asked, changes, requests, request, claimed, server>>

\* Mutants: the answer stays in the socket; the next one is read with it.
Receive_Peeks == answers # << >> /\ Take(answers)
Receive_Two == Len(answers) > 1 /\ Take(Tail(Tail(answers)))

Receive == answers # << >> /\ Take(Tail(answers))

\* run_client's single recv gets a part of the answer, and ends the program.
ReceivePart ==
  /\ program = "chat"
  /\ pc \in {"hello", "drain"} /\ answers # << >>
  /\ pc' = "ended"
  /\ UNCHANGED <<program, asked, changes, requests, answers, request, shown,
                 claimed, server>>

\* Nothing more will come.  run_client ends; ReadFromServer of the Python programs
\* repeats its empty recv for ever, unless the connection was reset.
ReceiveEnd ==
  /\ pc \in {"hello", "drain", "wait"}
  /\ answers = << >> /\ server = "gone"
  /\ \/ pc' = Failed
     \/ program # "chat" /\ pc' = "spin"
  /\ UNCHANGED <<program, asked, changes, requests, answers, request, shown,
                 claimed, server>>

-----------------------------------------------------------------------------
(* The server *)

Answer ==
  /\ server = "up" /\ requests # << >>
  /\ \E form \in Forms(Head(requests).kind) :
       answers' = Append(answers, [to |-> Head(requests).n, form |-> form])
  /\ requests' = Tail(requests)
  /\ UNCHANGED <<program, pc, asked, changes, request, shown, claimed, server>>

\* What was answered may be lost with the connection.
ServerEnds ==
  /\ server = "up"
  /\ server' = "gone"
  /\ requests' = << >>
  /\ answers' \in {answers, << >>}
  /\ UNCHANGED <<program, pc, asked, changes, request, shown, claimed>>

\* The steps that the user has no part in.
Run == Greet \/ Drain \/ StopDraining \/ Receive \/ ReceivePart \/ ReceiveEnd

Next ==
  \/ Run
  \/ NoRequest
  \/ \E kind \in Changes \cup Gets : Ask(kind)
  \/ AskFails
  \/ Answer
  \/ ServerEnds

\* The program runs and the server answers; users need not do anything.
Fairness == WF_vars(Run) /\ WF_vars(Answer)

Spec == Init /\ [][Next]_vars /\ Fairness

-----------------------------------------------------------------------------
\* The state has its types, and each program is only where its code can be.
TypeOK ==
  /\ program \in Programs
  /\ pc \in {"hello", "ended"}
       \cup (IF program = "gui" THEN {"idle", "wait", "spin"}
             ELSE IF program = "cli" THEN {"drain", "input", "wait", "spin"}
             ELSE {"drain", "input"})
  /\ asked \in 0..MaxAsked /\ changes \in 0..asked
  /\ claimed \subseteq [n : 1..asked, kind : Changes]
  /\ requests \in Seq([n : 1..asked, kind : Changes \cup Gets])
  /\ answers \in Seq([to : 0..asked, form : {"welcome", "ok", "error", "list",
                                              "cube", "decimals"}])
  /\ request \in [n : 0..asked, kind : Gets \cup {"none"}]
  /\ shown \in [for : 0..asked, of : 0..asked, failed : BOOLEAN]
  /\ server \in {"up", "gone"}

\* What the cli shows for a GET request is the answer to it, though nothing in an
\* answer says whose it is: the answers to changes have been drained before, if none
\* takes longer than the second hasAnyMessages waits (StartChatting, select's timeout).
ShowsOwnAnswer == program = "cli" /\ Prompt => shown.of = shown.for

\* What the gui shows for a GET request is the answer to the request as many places
\* before it as changes were asked: each of them leaves an answer in the connection,
\* and nothing ever catches up (reload_func, save_func, add_record_func,
\* remove_record_func, which read none).
LagsByChanges ==
  [][program = "gui" /\ pc = "wait" /\ shown' # shown =>
       shown'.for - shown'.of = changes]_vars

\* A program that waits for the answer to a GET request comes back to its user, or
\* has lost the server (ProcessRequestResults and its likes in the gui).
EveryGetReturns ==
  pc = "wait" ~> pc \in {"drain", "input", "idle", "ended"} \/ server = "gone"

\* An ADD_RECORD that the gui calls a success ("ADD_RECORD: SUCCESS", add_record_func)
\* is not refused by the service.
SuccessIsTrue ==
  \A r \in claimed : \A k \in DOMAIN answers :
    r.kind = "ADD_RECORD" /\ answers[k].to = r.n => answers[k].form # "error"

=============================================================================
