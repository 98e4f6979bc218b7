------------------------------ MODULE Session ------------------------------
(***************************************************************************)
(* What the server promises each of its clients, whatever the others do: a *)
(* connection that is taken is welcomed, and from then on carries one      *)
(* answer for every request, in the order of the requests, and none that   *)
(* was not asked for.                                                      *)
(***************************************************************************)
EXTENDS Integers, Sequences

CONSTANT Client

VARIABLE session   \* session[c]: the connection that client c has, if any

Gone     == [status |-> "gone", asked |-> 0, answered |-> 0, inbox |-> << >>]
Awaiting == [status |-> "waiting", asked |-> 0, answered |-> 0, inbox |-> << >>]

\* An open connection: the requests made, the answers given, the welcome included,
\* and those of them that have not been read.
Opened(asked, answered, inbox) ==
  [status |-> "open", asked |-> asked, answered |-> answered, inbox |-> inbox]

Init == session = [c \in Client |-> Gone]

Becomes(c, s) == session' = [session EXCEPT ![c] = s]

Connect(c) == session[c] = Gone /\ Becomes(c, Awaiting)

\* The answer to the request number re of client c; the welcome has number 0.
Message(c, re) == [to |-> c, re |-> re]

Welcome(c) ==
  /\ session[c] = Awaiting
  /\ Becomes(c, Opened(0, 1, <<Message(c, 0)>>))

\* Nobody asks before the welcome has been read.
Ask(c) ==
  LET s == session[c]
  IN  /\ s.status = "open" /\ Len(s.inbox) < s.answered
      /\ Becomes(c, Opened(s.asked + 1, s.answered, s.inbox))

Answer(c) ==
  LET s == session[c]
  IN  /\ s.status = "open" /\ s.answered <= s.asked
      /\ Becomes(c, Opened(s.asked, s.answered + 1,
                           Append(s.inbox, Message(c, s.answered))))

Read(c) ==
  LET s == session[c]
  IN  /\ s.status = "open" /\ s.inbox # << >>
      /\ Becomes(c, Opened(s.asked, s.answered, Tail(s.inbox)))

Close(c) == session[c] # Gone /\ Becomes(c, Gone)

Next ==
  \E c \in Client :
    Connect(c) \/ Welcome(c) \/ Ask(c) \/ Answer(c) \/ Read(c) \/ Close(c)

Spec == Init /\ [][Next]_session

=============================================================================
