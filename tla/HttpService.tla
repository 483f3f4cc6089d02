---------------------------- MODULE HttpService ----------------------------
(***************************************************************************)
(* What myon.http.serve and serve_static promise, without the socket table *)
(* and without the steps of a transfer: clients are let in in the order    *)
(* they came; whoever's header has been read is answered once, with the    *)
(* response to its own request, unless it hangs up; nobody is let down     *)
(* when the server ends; and an error of a handler harms nobody but those  *)
(* who are served along with others.  HttpServer implements this.          *)
(***************************************************************************)
EXTENDS Naturals, Sequences

CONSTANT Conns

VARIABLES
    inline,     \* one client is served at a time, by the accept loop itself
    detached,   \* the program does not wait for the accept loop
    queue,      \* the clients that wait to be let in
    hung,       \* hung[c]: c has hung up
    stage,      \* "out", "open", "read" (its header is known), "closed"
    reply,      \* reply[c]: whose responses c has been sent
    listening,  \* the accept loop lives
    guest,      \* other code of the script is running
    company,    \* who has been served along with another client or a guest
    status      \* "serving", "returned" or "exited"; an error of a handler, of
                \* the script has gone astray: "derailed", "crashed"

server == <<inline, detached>>
vars == <<server, queue, hung, stage, reply, listening, guest, company, status>>

Queued(c) == \E i \in DOMAIN queue : queue[i] = c
InService == {c \in Conns : stage[c] \in {"open", "read"}}
running == status = "serving"

Init ==
    /\ inline \in BOOLEAN
    /\ detached \in BOOLEAN
    /\ queue = <<>>
    /\ hung = [c \in Conns |-> FALSE]
    /\ stage = [c \in Conns |-> "out"]
    /\ reply = [c \in Conns |-> {}]
    /\ listening = TRUE
    /\ guest = FALSE
    /\ company = {}
    /\ status = "serving"

Connect(c) ==
    /\ running /\ listening
    /\ stage[c] = "out" /\ ~Queued(c)
    /\ queue' = Append(queue, c)
    /\ UNCHANGED <<server, hung, stage, reply, listening, guest, company, status>>

HangUp(c) ==
    /\ stage[c] # "out" \/ Queued(c)
    /\ hung' = [hung EXCEPT ![c] = TRUE]
    /\ UNCHANGED <<server, queue, stage, reply, listening, guest, company, status>>

LetIn(c) ==
    /\ running /\ listening
    /\ queue # <<>> /\ c = Head(queue)
    /\ stage[c] = "out"
    /\ inline => InService = {}
    /\ queue' = Tail(queue)
    /\ stage' = [stage EXCEPT ![c] = "open"]
    /\ company' = company \union
                     (IF guest \/ InService # {} THEN InService \union {c} ELSE {})
    /\ UNCHANGED <<server, hung, reply, listening, guest, status>>

\* The loop ends: nobody else gets in, who is in stays in, and a script that
\* was detached goes on.
StopListening ==
    /\ running /\ listening
    /\ inline => InService = {}
    /\ queue' = <<>>
    /\ listening' = FALSE
    /\ guest' = (guest \/ detached)
    /\ company' = IF detached THEN company \union InService ELSE company
    /\ UNCHANGED <<server, hung, stage, reply, status>>

Read(c) ==
    /\ running
    /\ stage[c] = "open"
    /\ stage' = [stage EXCEPT ![c] = "read"]
    /\ UNCHANGED <<server, queue, hung, reply, listening, guest, company, status>>

Answer(c) ==
    /\ running
    /\ stage[c] = "read"
    /\ reply[c] = {}
    /\ reply' = [reply EXCEPT ![c] = {c}]
    /\ stage' = [stage EXCEPT ![c] = "closed"]
    /\ UNCHANGED <<server, queue, hung, listening, guest, company, status>>

\* Without an answer
Drop(c) ==
    /\ running
    /\ stage[c] = "open" \/ (stage[c] = "read" /\ hung[c])
    /\ stage' = [stage EXCEPT ![c] = "closed"]
    /\ UNCHANGED <<server, queue, hung, reply, listening, guest, company, status>>

GuestComes ==
    /\ running
    /\ guest' = TRUE
    /\ company' = company \union InService
    /\ UNCHANGED <<server, queue, hung, stage, reply, listening, status>>

GuestGoes ==
    /\ running
    /\ guest' = FALSE
    /\ UNCHANGED <<server, queue, hung, stage, reply, listening, company, status>>

\* Clients being served by tasks of their own, and guests, keep the server
\* running; one being served by a detached accept loop does not.
Stop ==
    /\ running
    /\ listening \/ guest => detached
    /\ InService = {} \/ (inline /\ detached)
    /\ status' \in {"returned", "exited"}
    /\ UNCHANGED <<server, queue, hung, stage, reply, listening, guest, company>>

\* The error of a handler is not answered to its client: only for a client
\* that has had company.
Derail(c) ==
    /\ running
    /\ stage[c] = "read" /\ c \in company
    /\ status' = "derailed"
    /\ UNCHANGED <<server, queue, hung, stage, reply, listening, guest, company>>

\* So is the error of a guest.
Crash ==
    /\ running
    /\ guest
    /\ status' = "crashed"
    /\ UNCHANGED <<server, queue, hung, stage, reply, listening, guest, company>>

Next ==
    \/ \E c \in Conns :
          \/ Connect(c) \/ HangUp(c) \/ LetIn(c)
          \/ Read(c) \/ Answer(c) \/ Drop(c) \/ Derail(c)
    \/ StopListening
    \/ GuestComes
    \/ GuestGoes
    \/ Stop
    \/ Crash

Spec == Init /\ [][Next]_vars
=============================================================================
