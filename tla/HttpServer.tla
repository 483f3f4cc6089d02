----------------------------- MODULE HttpServer -----------------------------
(***************************************************************************)
(* myon.http.serve and serve_static (src/interpreter.c) on the socket      *)
(* table of src/net.c.                                                     *)
(*                                                                         *)
(* Sockets are named by their index in NetState.fds, and a freed index is  *)
(* reused at once; so a task that goes on with an index after a suspension *)
(* works on whatever is in that slot then.  A step is what a coroutine     *)
(* does between two waits; any coroutine whose descriptor is ready may be  *)
(* next (module EventLoop is the scheduler).                               *)
(*                                                                         *)
(* All bodies share it->current_task and it->on_error: each saves them     *)
(* when it begins and puts them back when it ends, in whatever order they  *)
(* end (module AsyncInterp).  A wait without a current task blocks the     *)
(* process, and an error goes to the barrier that was set last.            *)
(*                                                                         *)
(* How much of a request has been received is a level: 0 less than the     *)
(* header, 1 the header and perhaps a part of the body, 2 all.             *)
(*                                                                         *)
(* Bad... operators are plausible mistakes in the definition they precede. *)
(***************************************************************************)
EXTENDS Integers, Sequences, FiniteSets

CONSTANTS
    Conns,        \* the clients; each connects once
    Tasks,        \* other async bodies of the script
    MaxSockets,   \* NET_MAX_SOCKETS
    MaxScript,    \* bound: sockets of the script at once
    AcceptErrors  \* TRUE: accept() itself may fail

Slots == 0..(MaxSockets - 1)
Free == "free"          \* fds[i] = -1
Listener == "listener"
Script == "script"      \* a socket some other task has opened
NoSlot == -1
Main == "main"          \* the main program, and the barrier of interp_run
Nobody == "nobody"

ASSUME ServerAssumption ==
    /\ MaxSockets \in Nat \ {0}
    /\ MaxScript \in Nat
    /\ AcceptErrors \in BOOLEAN
    /\ {Free, Listener, Script, Main, Nobody} \intersect (Conns \union Tasks) = {}
    /\ Conns \intersect Tasks = {}

VARIABLES
    mode,     \* "handler": serve, "static": serve_static
    host,     \* who called it: the main program or a task
    backlog,  \* kernel: connections not yet accepted
    closed,   \* kernel: the client has hung up
    table,    \* NetState.fds
    acc,      \* the accept loop: "spawned", "accepting", "serving" (inline), "ended"
    pc,       \* where the task (or the inline service) of a connection is
    id,       \* its conn_id
    got,      \* how much of the request it has received
    task,     \* the bodies of the script: "unborn", "running", "ended"
    cur,      \* it->current_task is not NULL
    barrier,  \* it->on_error: the body that has set it
    prev,     \* what cur was when a body began
    saved,    \* what barrier was when a body began
    blocked,  \* the body that waits without letting others run, or Nobody
    from,     \* history: the connections it has received that from
    answer,   \* history: answer[c]: whose response c has been sent
    company,  \* history: who was in service while another body was
    up        \* "serving", "returned" (serve came back), "exited", "derailed",
              \* "crashed" (an error of a handler, of a task has gone astray)

config == <<mode, host>>
kernel == <<backlog, closed>>
service == <<pc, id, got, from, answer>>
interp == <<cur, barrier, prev, saved, blocked>>
script == <<task, company>>
vars == <<config, kernel, table, acc, service, interp, script, up>>

Bodies == Conns \union Tasks \union {Listener}

Levels == 0..2

TypeOK ==
    /\ mode \in {"handler", "static"}
    /\ host \in Tasks \union {Main}
    /\ backlog \in Seq(Conns)
    /\ closed \in [Conns -> BOOLEAN]
    /\ table \in [Slots -> Conns \union {Free, Listener, Script}]
    /\ acc \in {"spawned", "accepting", "serving", "ended"}
    /\ pc \in [Conns -> {"none", "spawned", "reading", "handling", "sending", "done"}]
    /\ id \in [Conns -> Slots \union {NoSlot}]
    /\ got \in [Conns -> Levels]
    /\ from \in [Conns -> SUBSET Conns]
    /\ answer \in [Conns -> SUBSET Conns]
    /\ task \in [Tasks -> {"unborn", "running", "ended"}]
    /\ cur \in BOOLEAN
    /\ barrier \in Conns \union Tasks \union {Main}
    /\ prev \in [Bodies -> BOOLEAN]
    /\ saved \in [Conns \union Tasks -> Conns \union Tasks \union {Main}]
    /\ blocked \in Bodies \union {Nobody}
    /\ company \subseteq Conns
    /\ up \in {"serving", "returned", "exited", "derailed", "crashed"}

InProgress(c) == pc[c] \in {"spawned", "reading", "handling", "sending"}

-----------------------------------------------------------------------------
\* The socket table

\* alloc_slot: the lowest free slot
AllocSlot(s) == table[s] = Free /\ \A r \in Slots : r < s => table[r] # Free

TableFull == \A s \in Slots : table[s] # Free

\* The socket that conn_id of c names now (valid_id)
SocketOf(c) == table[id[c]]
Valid(c) == SocketOf(c) # Free

-----------------------------------------------------------------------------
\* The interpreter that all bodies share

\* serve_static serves a connection in the accept loop's own body.
Body(c) == IF mode = "static" THEN Listener ELSE c

Runs(x) == up = "serving" /\ blocked \in {Nobody, x}

\* net_wait_fd, and a sleep: x is suspended, or blocks the process until it
\* can go on.
Waits(x) == blocked' = IF cur THEN Nobody ELSE x

\* What http_conn_task_entry and async_task_entry do first, and the accept
\* loop, which leaves on_error alone
Begins(x) ==
    /\ prev' = [prev EXCEPT ![x] = cur]
    /\ cur' = TRUE
    /\ saved' = IF x = Listener THEN saved ELSE [saved EXCEPT ![x] = barrier]
    /\ blocked' = Nobody

BadPutsBack(x) ==
    /\ cur' = FALSE
    /\ barrier' = IF x = Listener THEN barrier ELSE saved[x]
    /\ blocked' = Nobody

\* and last
PutsBack(x) ==
    /\ cur' = prev[x]
    /\ barrier' = IF x = Listener THEN barrier ELSE saved[x]
    /\ blocked' = Nobody

\* A task is on its way, but its host waits as long as the accept loop lives.
Active(t) == task[t] = "running" /\ (t = host => acc = "ended")

InService == {c \in Conns : InProgress(c)}

-----------------------------------------------------------------------------
\* http_run_server has bound and listened, and spawned the accept loop.
Init ==
    /\ mode \in {"handler", "static"}
    /\ host \in Tasks \union {Main}
    /\ backlog = <<>>
    /\ closed = [c \in Conns |-> FALSE]
    /\ table = [s \in Slots |-> IF s = 0 THEN Listener ELSE Free]
    /\ acc = "spawned"
    /\ pc = [c \in Conns |-> "none"]
    /\ id = [c \in Conns |-> NoSlot]
    /\ got = [c \in Conns |-> 0]
    /\ task = [t \in Tasks |-> IF t = host THEN "running" ELSE "unborn"]
    /\ cur = (host # Main)
    /\ barrier = host
    /\ prev = [x \in Bodies |-> FALSE]
    /\ saved = [x \in Conns \union Tasks |-> Main]
    /\ blocked = Nobody
    /\ from = [c \in Conns |-> {}]
    /\ answer = [c \in Conns |-> {}]
    /\ company = {}
    /\ up = "serving"

\* Clients connect and hang up; that they send is part of Receive.

Known(c) == pc[c] # "none" \/ \E i \in DOMAIN backlog : backlog[i] = c

Connect(c) ==
    /\ acc # "ended"
    /\ up = "serving"
    /\ ~Known(c)
    /\ backlog' = Append(backlog, c)
    /\ UNCHANGED <<config, closed, table, acc, service, interp, script, up>>

HangUp(c) ==
    /\ up = "serving"
    /\ Known(c) /\ pc[c] # "done"
    /\ ~closed[c]
    /\ closed' = [closed EXCEPT ![c] = TRUE]
    /\ UNCHANGED <<config, backlog, table, acc, service, interp, script, up>>

\* A handler or a task of the script opens or closes a socket of its own.
ScriptSocket(s) ==
    /\ up = "serving"
    /\ blocked \in {Nobody} \union Tasks \union {c \in Conns : pc[c] = "handling"}
    /\ \/ /\ AllocSlot(s) /\ Cardinality({q \in Slots : table[q] = Script}) < MaxScript
          /\ table' = [table EXCEPT ![s] = Script]
       \/ table[s] = Script /\ table' = [table EXCEPT ![s] = Free]
    /\ UNCHANGED <<config, kernel, acc, service, interp, script, up>>

-----------------------------------------------------------------------------
\* http_accept_loop_entry

LoopBegins ==
    /\ Runs(Listener)
    /\ acc = "spawned"
    /\ acc' = "accepting"
    /\ Begins(Listener)
    /\ UNCHANGED <<config, kernel, table, service, barrier, script, up>>

BadAccept(s) ==
    /\ Runs(Listener)
    /\ acc = "accepting"
    /\ backlog # <<>>
    /\ AllocSlot(s)
    /\ table' = [table EXCEPT ![s] = Head(backlog)]
    /\ backlog' = Tail(backlog)
    /\ pc' = [pc EXCEPT ![Head(backlog)] = "reading"]
    /\ id' = [id EXCEPT ![Head(backlog)] = s]
    /\ acc' = "serving"
    /\ Waits(Listener)
    /\ UNCHANGED <<config, closed, got, from, answer, cur, barrier, prev,
                   saved, script, up>>

\* A connection gets a slot and a task of its own, or is served inline.
Accept(s) ==
    /\ Runs(Listener)
    /\ acc = "accepting"
    /\ backlog # <<>>
    /\ AllocSlot(s)
    /\ LET c == Head(backlog)
           together == InService \union {t \in Tasks : Active(t)} # {}
       IN  /\ table' = [table EXCEPT ![s] = c]
           /\ pc' = [pc EXCEPT ![c] = IF mode = "static" THEN "reading" ELSE "spawned"]
           /\ id' = [id EXCEPT ![c] = s]
           /\ company' = company \union (IF together THEN InService \union {c} ELSE {})
    /\ backlog' = Tail(backlog)
    /\ acc' = IF mode = "static" THEN "serving" ELSE "accepting"
    /\ Waits(Listener)
    /\ UNCHANGED <<config, closed, got, from, answer, cur, barrier, prev,
                   saved, task, up>>

\* "fatal accept error": the table is full (the connection is closed), or
\* accept() failed.  The loop ends and closes its listener, and a task that
\* called serve goes on.
AcceptFails ==
    /\ Runs(Listener)
    /\ acc = "accepting"
    /\ AcceptErrors \/ (backlog # <<>> /\ TableFull)
    /\ acc' = "ended"
    /\ table' = [s \in Slots |-> IF table[s] = Listener THEN Free ELSE table[s]]
    /\ backlog' = <<>>
    /\ PutsBack(Listener)
    /\ company' = IF host = Main THEN company ELSE company \union InService
    /\ UNCHANGED <<config, closed, service, prev, saved, task, up>>

-----------------------------------------------------------------------------
\* http_conn_task_entry, http_serve_static_conn

ConnBegins(c) ==
    /\ Runs(c)
    /\ pc[c] = "spawned"
    /\ pc' = [pc EXCEPT ![c] = "reading"]
    /\ Begins(c)
    /\ UNCHANGED <<config, kernel, table, acc, id, got, from, answer, barrier,
                   script, up>>

BadEnd(c) ==
    /\ table' = table
    /\ pc' = [pc EXCEPT ![c] = "done"]
    /\ acc' = IF acc = "serving" THEN "accepting" ELSE acc
    /\ PutsBack(c)
    /\ UNCHANGED <<prev, saved>>

\* net_close, and the end of the task, whose locals are gone, or of the
\* inline service, after which the accept loop waits again
End(c) ==
    /\ table' = [table EXCEPT ![id[c]] = Free]
    /\ pc' = [pc EXCEPT ![c] = "done"]
    /\ IF mode = "static"
       THEN /\ acc' = "accepting"
            /\ Waits(Listener)
            /\ UNCHANGED <<cur, barrier, prev, saved>>
       ELSE /\ acc' = acc
            /\ PutsBack(c)
            /\ prev' = [prev EXCEPT ![c] = FALSE]
            /\ saved' = [saved EXCEPT ![c] = Main]

BadRequestRead(c) ==
    /\ pc' = [pc EXCEPT ![c] = IF mode = "static" THEN "sending" ELSE "handling"]
    /\ table' = [table EXCEPT ![id[c]] = Free]
    /\ barrier' = IF mode = "static" THEN barrier ELSE c
    /\ Waits(Body(c))
    /\ UNCHANGED <<acc, cur, prev, saved>>

\* http_read_request returns 0: look the file up, or set a barrier and call
\* the handler.
RequestRead(c) ==
    /\ pc' = [pc EXCEPT ![c] = IF mode = "static" THEN "sending" ELSE "handling"]
    /\ barrier' = IF mode = "static" THEN barrier ELSE c
    /\ Waits(Body(c))
    /\ UNCHANGED <<table, acc, cur, prev, saved>>

\* The client has sent more and net_recv has it: the loops of http_read_request
\* go on until level 2.
Receive(c, level) ==
    /\ Runs(Body(c))
    /\ pc[c] = "reading"
    /\ SocketOf(c) \in Conns
    /\ level > got[c]
    /\ got' = [got EXCEPT ![c] = level]
    /\ from' = [from EXCEPT ![c] = @ \union {SocketOf(c)}]
    /\ IF level = 2 THEN RequestRead(c)
       ELSE Waits(Body(c)) /\ UNCHANGED <<table, acc, pc, cur, barrier, prev, saved>>
    /\ UNCHANGED <<config, kernel, id, answer, script, up>>

\* The data received complete a malformed header, or one that announces too
\* long a body, or the header is getting too long: close without an answer.
Reject(c) ==
    /\ Runs(Body(c))
    /\ pc[c] = "reading"
    /\ got[c] = 0
    /\ SocketOf(c) \in Conns
    /\ End(c)
    /\ UNCHANGED <<config, kernel, id, got, from, answer, script, up>>

BadReceiveEnds(c) ==
    /\ Runs(Body(c))
    /\ pc[c] = "reading"
    /\ ~Valid(c) \/ (SocketOf(c) \in Conns /\ closed[SocketOf(c)])
    /\ got[c] = 1
    /\ RequestRead(c)
    /\ UNCHANGED <<config, kernel, id, got, from, answer, script, up>>

\* EOF or an error: before the end of the header close without an answer,
\* after it go on with the body there is.
ReceiveEnds(c) ==
    /\ Runs(Body(c))
    /\ pc[c] = "reading"
    /\ ~Valid(c) \/ (SocketOf(c) \in Conns /\ closed[SocketOf(c)])
    /\ IF got[c] = 1 THEN RequestRead(c) ELSE End(c)
    /\ UNCHANGED <<config, kernel, id, got, from, answer, script, up>>

\* The handler returns, or raises and its own barrier makes it a 500.
HandlerEnds(c) ==
    /\ Runs(c)
    /\ pc[c] = "handling"
    /\ pc' = [pc EXCEPT ![c] = "sending"]
    /\ Waits(c)
    /\ UNCHANGED <<config, kernel, table, acc, id, got, from, answer, cur,
                   barrier, prev, saved, script, up>>

\* Bodies besides c that have call frames of their own
Others(c) ==
    {d \in Conns \ {c} : pc[d] = "handling"} \union {t \in Tasks \ {c} : Active(t)}

\* The error of a handler goes to a barrier on another stack, or its own one
\* frees frames of others (cleanup_unwind).
Derails(c) ==
    /\ Runs(c)
    /\ pc[c] = "handling"
    /\ barrier # c \/ Others(c) # {}
    /\ up' = "derailed"
    /\ UNCHANGED <<config, kernel, table, acc, service, interp, script>>

\* http_send_all has sent everything.
SendAll(c) ==
    /\ Runs(Body(c))
    /\ pc[c] = "sending"
    /\ SocketOf(c) \in Conns
    /\ answer' = [answer EXCEPT ![SocketOf(c)] = @ \union from[c]]
    /\ End(c)
    /\ UNCHANGED <<config, kernel, id, got, from, script, up>>

\* net_send fails: stop sending.
SendFails(c) ==
    /\ Runs(Body(c))
    /\ pc[c] = "sending"
    /\ ~Valid(c) \/ (SocketOf(c) \in Conns /\ closed[SocketOf(c)])
    /\ End(c)
    /\ UNCHANGED <<config, kernel, id, got, from, answer, script, up>>

-----------------------------------------------------------------------------
\* Other bodies of the script: async_task_entry.  The handlers' and the tasks'
\* further waits, between which the current task may have been put back.

TaskBegins(t) ==
    /\ Runs(t)
    /\ task[t] = "unborn"
    /\ task' = [task EXCEPT ![t] = "running"]
    /\ Begins(t)
    /\ barrier' = t
    /\ company' = company \union InService
    /\ UNCHANGED <<config, kernel, table, acc, service, up>>

TaskEnds(t) ==
    /\ Runs(t)
    /\ Active(t)
    /\ task' = [task EXCEPT ![t] = "ended"]
    /\ PutsBack(t)
    /\ saved' = [saved EXCEPT ![t] = Main]
    /\ UNCHANGED <<config, kernel, table, acc, service, prev, company, up>>

TaskCrashes(t) ==
    /\ Runs(t)
    /\ Active(t)
    /\ barrier # t \/ Others(t) # {}
    /\ up' = "crashed"
    /\ UNCHANGED <<config, kernel, table, acc, service, interp, script>>

WaitsAgain(x) ==
    /\ Runs(x)
    /\ \/ x \in Tasks /\ Active(x)
       \/ \E c \in Conns : pc[c] \in {"handling", "sending"} /\ x = Body(c)
    /\ Waits(x)
    /\ UNCHANGED <<config, kernel, table, acc, service, cur, barrier, prev,
                   saved, script, up>>

-----------------------------------------------------------------------------
\* Connection tasks and tasks of the script are foreground tasks, the accept
\* loop and the task that called serve are not; an inline service is part of
\* the accept loop.
TasksPending ==
    \/ mode = "handler" /\ InService # {}
    \/ \E t \in Tasks \ {host} : task[t] = "running"

\* At top level the loop is driven until all tasks are done; then serve
\* returns and the script goes on.
ServeReturns ==
    /\ up = "serving" /\ blocked = Nobody
    /\ host = Main
    /\ acc = "ended"
    /\ ~TasksPending
    /\ up' = "returned"
    /\ UNCHANGED <<config, kernel, table, acc, service, interp, script>>

BadExit ==
    /\ up = "serving" /\ blocked = Nobody
    /\ host # Main
    /\ up' = "exited"
    /\ table' = [s \in Slots |-> Free]
    /\ UNCHANGED <<config, kernel, acc, service, interp, script>>

\* Served from a task: the program exits once the foreground tasks are done;
\* net_state_destroy closes what is left.
Exit ==
    /\ up = "serving" /\ blocked = Nobody
    /\ host # Main
    /\ ~TasksPending
    /\ up' = "exited"
    /\ table' = [s \in Slots |-> Free]
    /\ UNCHANGED <<config, kernel, acc, service, interp, script>>

Client(c) == Connect(c) \/ HangUp(c) \/ \E level \in Levels : Receive(c, level)

\* What the server does for c by itself, whatever the client does
Serve(c) ==
    \/ ConnBegins(c)
    \/ ReceiveEnds(c)
    \/ HandlerEnds(c)
    \/ SendFails(c)

AcceptLoop == LoopBegins \/ (\E s \in Slots : Accept(s)) \/ AcceptFails

Next ==
    \/ \E c \in Conns : Client(c) \/ Serve(c) \/ Reject(c) \/ SendAll(c) \/ Derails(c)
    \/ \E t \in Tasks : TaskBegins(t) \/ TaskEnds(t) \/ TaskCrashes(t)
    \/ \E x \in Bodies : WaitsAgain(x)
    \/ \E s \in Slots : ScriptSocket(s)
    \/ AcceptLoop
    \/ ServeReturns
    \/ Exit

Spec == Init /\ [][Next]_vars

\* A coroutine whose descriptor is ready is resumed (RunnableRuns of module
\* EventLoop) while none blocks the process, and handlers return.  Nothing is
\* assumed of the clients or of the script's tasks.
FairSpec ==
    /\ Spec
    /\ \A c \in Conns : WF_vars(Serve(c))
    /\ WF_vars(AcceptLoop)

-----------------------------------------------------------------------------
\* Properties

\* No slot leaks and none is shared: a connection occupies one slot exactly
\* as long as its task is in progress, and the listener as long as the accept
\* loop runs, whatever order slots are freed and reused in.
SlotsAccounted ==
    /\ TypeOK
    /\ up = "serving" =>
        /\ \A c \in Conns : {s \in Slots : table[s] = c} =
                            IF InProgress(c) THEN {id[c]} ELSE {}
        /\ {s \in Slots : table[s] = Listener} =
               IF acc = "ended" THEN {} ELSE {0}

\* A client is only ever sent the response to the request it sent itself,
\* although its task looks the socket up by a reusable index after each wait.
AnswersOwnRequest == \A c \in Conns : answer[c] \subseteq {c}

\* A connection that got its whole request through to a handler has been sent
\* a complete answer by the time the server returns or the program exits,
\* unless the client hung up - if no error has gone astray before.
AnsweredBeforeEnd ==
    up \in {"returned", "exited"} /\ mode = "handler" =>
        \A c \in Conns : got[c] = 2 => answer[c] = {c} \/ closed[c]

\* While the accept loop lives, connections and handlers that overlap in any
\* way cannot make a wait block the whole process: that takes another task of
\* the script which began without a current task and has put that back.
SuspendsWhileServing ==
    acc \in {"accepting", "serving"} /\ (~cur \/ blocked # Nobody) =>
        \E t \in Tasks : task[t] = "ended" /\ ~prev[t]

\* The connection of a client that has hung up is closed in the end; no task
\* and no slot is held for it (interpreter.c: EOF or a send error ends it) -
\* unless some body blocks the process for good.
HungUpIsClosed ==
    []<>(blocked = Nobody) =>
        \A c \in Conns :
            InProgress(c) /\ closed[c] ~> (~InProgress(c) \/ up # "serving")

Waiting(c) == \E i \in DOMAIN backlog : backlog[i] = c

\* With a handler, slow clients do not keep others out: a waiting connection
\* is accepted as long as the accept loop lives - unless some body blocks the
\* process for good.
WaitingIsAccepted ==
    []<>(blocked = Nobody) =>
        \A c \in Conns :
            (mode = "handler" /\ Waiting(c)) ~> (~Waiting(c) \/ up # "serving")
-----------------------------------------------------------------------------
\* Refinement: the service without slots, without the parts of a transfer and
\* without the fields of the interpreter

stage ==
    [c \in Conns |->
        IF pc[c] = "none" THEN "out"
        ELSE IF pc[c] = "done" THEN "closed"
        ELSE IF got[c] = 0 THEN "open" ELSE "read"]

inline == mode = "static"
detached == host # Main
listening == acc # "ended"
guest == \E t \in Tasks : Active(t)

Service == INSTANCE HttpService WITH
              queue <- backlog, hung <- closed, reply <- answer, status <- up

\* The server, which finds its sockets by numbers that are reused at once and
\* its barrier in a field that all bodies overwrite, does only what module
\* HttpService promises without either: clients get in in order, a client
\* whose header has been read gets the response to its own request, once,
\* unless it hangs up, an error of a handler is answered to its own client if
\* it has had no company, serve_static takes clients one by one, and the end
\* of the server comes only when no task serves one.
ImplementsService == Service!Spec
=============================================================================
