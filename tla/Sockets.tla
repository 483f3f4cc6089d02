------------------------------- MODULE Sockets -------------------------------
(***************************************************************************)
(* The myon.net built-ins and the HTTP client of src/src/interpreter.c on  *)
(* the socket table of src/src/net.c (POSIX), used by several coroutines   *)
(* and the main program at once.  A socket is named by its index in the    *)
(* table, an index and a descriptor are used again as soon as they are     *)
(* free, and a call that has to wait looks its index up again afterwards.  *)
(* A step of an actor is what it does between two waits.  How a wait is    *)
(* done depends on it->current_task and not on who waits: a coroutine that *)
(* waits while it is NULL blocks the process, and the main program does    *)
(* not wait at all while it is a task that is over.  The kernel, the peers *)
(* and select() are external.                                              *)
(*                                                                         *)
(* Bad... operators are plausible mistakes in the definition they precede. *)
(***************************************************************************)
EXTENDS Naturals, FiniteSets, FiniteSetsExt, Functions

CONSTANTS
  Tasks,       \* coroutines
  Main,        \* the main program
  MaxSockets,  \* NET_MAX_SOCKETS
  MaxFds,      \* descriptors the kernel will open for the process
  Does,        \* the built-ins that each actor calls, in any order
  NoFd         \* MYON_INVALID_FD

ASSUME SocketsAssumption ==
  /\ Main \notin Tasks /\ NoFd \notin Nat
  /\ {"none", "script"} \cap (Tasks \cup {Main}) = {}
  /\ MaxSockets \in Nat \ {0} /\ MaxFds \in Nat \ {0}

Actors == Tasks \cup {Main}
Ids    == 0..MaxSockets-1
Fds    == 0..MaxFds-1

VARIABLES
  fds,     \* NetState.fds: the descriptor in each slot
  kernel,  \* what each descriptor is
  call,    \* the built-in each actor is in
  wait,    \* where each actor is in a call: see TypeOK
  cur,     \* it->current_task is not NULL
  result,  \* the connect that has just returned, or NoResult
  owner    \* history: who opened the socket in each slot, the script or a request

NoResult == [id |-> 0, marks |-> {}, out |-> "none"]

vars == <<fds, kernel, call, wait, cur, result, owner>>

-----------------------------------------------------------------------------
(* The kernel: a descriptor is closed or a socket.  queue is what select() *)
(* sees to read: nothing, an item (data, or a connection to accept), or    *)
(* the end; full says that a send would block.                             *)

Sock(kind, mode) == [kind |-> kind, mode |-> mode, queue |-> "empty", full |-> FALSE]
Closed == Sock("none", "closed")
Kinds  == {"tcp", "udp"}
Modes  == {"fresh", "listening", "connecting", "connected", "failed", "dead"}
Open(f) == kernel[f] # Closed

Readable(f) ==
  CASE kernel[f].mode \in {"listening", "connected"} -> kernel[f].queue # "empty"
    [] kernel[f].mode = "connecting" -> FALSE
    [] kernel[f].mode = "fresh" /\ kernel[f].kind = "udp" -> kernel[f].queue # "empty"
    [] OTHER -> TRUE
Writable(f) ==
  CASE kernel[f].mode \in {"listening", "connecting"} -> FALSE
    [] OTHER -> ~kernel[f].full

FreeFds == {f \in Fds : ~Open(f)}

(* A peer connects, sends, takes what was sent or hangs up; a connection   *)
(* in progress succeeds or fails.                                          *)
Turns(f, sock) == kernel' = [kernel EXCEPT ![f] = sock]

Arrives(f) ==
  /\ \/ kernel[f].mode \in {"listening", "connected"}
     \/ kernel[f].kind = "udp"
  /\ kernel[f].queue = "empty"
  /\ Turns(f, [kernel[f] EXCEPT !.queue = "item"])
HangsUp(f) ==
  /\ kernel[f].mode = "connected" /\ kernel[f].kind = "tcp" /\ kernel[f].queue = "empty"
  /\ Turns(f, [kernel[f] EXCEPT !.queue = "end"])
Drains(f) == kernel[f].full /\ Turns(f, [kernel[f] EXCEPT !.full = FALSE])
Connects(f) ==
  /\ kernel[f].mode = "connecting"
  /\ \E mode \in {"connected", "failed"} : Turns(f, [kernel[f] EXCEPT !.mode = mode])

Network ==
  /\ \E f \in Fds : Arrives(f) \/ HangsUp(f) \/ Drains(f) \/ Connects(f)
  /\ result' = NoResult
  /\ UNCHANGED <<fds, call, wait, cur, owner>>

-----------------------------------------------------------------------------
(* The table.                                                              *)

ValidId(id) == id \in Ids /\ fds[id] # NoFd
RawFd(id)   == IF ValidId(id) THEN fds[id] ELSE NoFd
BadFreeSlots == {id \in Ids : fds[id] = NoFd \/ kernel[fds[id]].queue = "end"}
FreeSlots   == {id \in Ids : fds[id] = NoFd}

(* What one try of an operation may come to: "ok", "error" or "block" (the *)
(* -2 of net.c), and the tables after it.                                  *)
Leaves(out) == [out |-> out, fds |-> fds, kernel |-> kernel, owner |-> owner]
Puts(out, f, sock) == [Leaves(out) EXCEPT !.kernel[f] = sock]

BadAlloc(sock, by, from) ==
  LET made == [from EXCEPT !.kernel[Min(FreeFds)] = sock]
  IN IF FreeSlots = {} THEN [made EXCEPT !.out = "error"]
     ELSE [made EXCEPT !.fds[Min(FreeSlots)] = Min(FreeFds), !.owner[Min(FreeSlots)] = by]

(* A socket the kernel has just made goes into the table; when that is full*)
(* it is closed again (and the connection with it, if accept made it).     *)
Alloc(sock, by, from) ==
  IF FreeSlots = {} THEN [from EXCEPT !.out = "error"]
  ELSE [from EXCEPT !.kernel[Min(FreeFds)] = sock,
                    !.fds[Min(FreeSlots)] = Min(FreeFds),
                    !.owner[Min(FreeSlots)] = by]

Create(kind, by) ==
  IF FreeFds = {} THEN Leaves("error") ELSE Alloc(Sock(kind, "fresh"), by, Leaves("ok"))

TryListen(id) ==
  LET f == fds[id]
  IN CASE ~ValidId(id) -> {Leaves("error")}
       [] ValidId(id) /\ kernel[f] = Sock("tcp", "fresh") ->
            {Leaves("error"), Puts("ok", f, Sock("tcp", "listening"))}
       [] OTHER -> {Leaves("error")}

TryAccept(id) ==
  LET f == fds[id]
  IN CASE ~ValidId(id) -> {Leaves("error")}
       [] ValidId(id) /\ kernel[f].mode # "listening" -> {Leaves("error")}
       [] OTHER ->
            CASE kernel[f].queue = "empty" -> {Leaves("block")}
              [] kernel[f].queue # "empty" /\ FreeFds = {} -> {Leaves("error")}
              [] OTHER -> {Alloc(Sock("tcp", "connected"), "script",
                                 Puts("ok", f, Sock("tcp", "listening")))}

(* net_connect starts a connection; an error it hits is spent (SO_ERROR).  *)
TryConnect(id) ==
  LET f == fds[id]  kind == kernel[f].kind
  IN CASE ~ValidId(id) -> {Leaves("error")}
       [] ValidId(id) /\ kernel[f].mode = "connecting" -> {Leaves("block")}
       [] ValidId(id) /\ kernel[f].mode = "failed" -> {Puts("error", f, Sock(kind, "dead"))}
       [] ValidId(id) /\ kernel[f].mode \in {"fresh", "dead"} ->
            {Leaves("error"), Puts("ok", f, Sock(kind, "connected"))}
              \cup (IF kind = "tcp" THEN {Puts("block", f, Sock(kind, "connecting"))} ELSE {})
       [] OTHER -> {Leaves("error")}

BadCheckConnect(id) == {Leaves(IF ValidId(id) THEN "ok" ELSE "error")}

(* net_connect_check, after the wait: SO_ERROR is 0 unless an attempt has  *)
(* failed, also while it is in progress.                                   *)
CheckConnect(id) ==
  CASE ~ValidId(id) -> {Leaves("error")}
    [] ValidId(id) /\ kernel[fds[id]].mode = "failed" ->
         {Puts("error", fds[id], Sock(kernel[fds[id]].kind, "dead"))}
    [] OTHER -> {Leaves("ok")}

(* net_send and net_sendto.                                                *)
TrySend(id) ==
  LET f == fds[id]
  IN CASE ~ValidId(id) -> {Leaves("error")}
       [] ValidId(id) /\ kernel[f].mode = "connecting" -> {Leaves("block")}
       [] ValidId(id) /\ kernel[f].mode = "connected" ->
            IF kernel[f].full THEN {Leaves("block")}
            ELSE {Leaves("ok"), Leaves("error"), Puts("ok", f, [kernel[f] EXCEPT !.full = TRUE])}
       [] OTHER -> {Leaves(IF kernel[f].kind = "udp" THEN "ok" ELSE "error")}

(* net_recv and net_recvfrom.                                              *)
TryRecv(id) ==
  LET f == fds[id]
  IN CASE ~ValidId(id) -> {Leaves("error")}
       [] ValidId(id) /\ (kernel[f].mode = "connected" \/ kernel[f].kind = "udp") ->
            {CASE kernel[f].queue = "item" -> Puts("ok", f, [kernel[f] EXCEPT !.queue = "empty"])
               [] kernel[f].queue = "end"  -> Leaves("end")
               [] OTHER                    -> Leaves("block")}
       [] ValidId(id) /\ kernel[f].mode = "connecting" -> {Leaves("block")}
       [] ValidId(id) /\ kernel[f].mode = "failed" -> {Puts("error", f, Sock("tcp", "dead"))}
       [] OTHER -> {Leaves("error")}

CloseSlot(id) ==
  IF ~ValidId(id) THEN Leaves("ok")
  ELSE [Puts("ok", fds[id], Closed) EXCEPT !.fds[id] = NoFd, !.owner[id] = "none"]

-----------------------------------------------------------------------------
(* The built-ins.  A call remembers its index and the descriptor that the  *)
(* index meant when it began, which is what it waits for.  marks is        *)
(* history: "cut" when someone closed the index under it, "shared" when    *)
(* another call on the index began meanwhile, "failed" when its wait was   *)
(* over with nothing to wake it: a select() failed, or it did not wait.    *)

Waits == {"accept", "connect", "send", "recv"}
Idle  == [op |-> "none", phase |-> "none", id |-> 0, fd |-> NoFd, marks |-> {}]

LiveSocks == [kind : Kinds, mode : Modes, queue : {"empty", "item", "end"}, full : BOOLEAN]
Calls ==
  [op : Waits \cup {"none", "request"}, phase : Waits \cup {"none", "check", "close"},
   id : Ids, fd : Fds \cup {NoFd}, marks : SUBSET {"cut", "shared", "failed"}]
Results ==
  [id : Ids, marks : SUBSET {"cut", "shared", "failed"}, out : {"none", "ok", "error", "block"}]

(* A call waits in the select() of the loop, is blocking the process in    *)
(* one of its own, will retry without giving up control, is ready to be    *)
(* resumed, or runs on (a request, between two tries).                     *)
TypeOK ==
  /\ fds \in [Ids -> Fds \cup {NoFd}]
  /\ kernel \in [Fds -> LiveSocks \cup {Closed}]
  /\ call \in [Actors -> Calls]
  /\ wait \in [Actors -> {"no", "waiting", "blocking", "retry", "ready", "running"}]
  /\ cur \in BOOLEAN
  /\ result \in Results
  /\ owner \in [Ids -> Actors \cup {"none", "script"}]

(* Only one actor runs: not while another has control, also if that one is *)
(* blocking the process.                                                   *)
InControl == {a \in Actors : wait[a] \in {"running", "retry", "blocking"}}
MayRun(a) == InControl \subseteq {a}

Tables(r) == fds' = r.fds /\ kernel' = r.kernel /\ owner' = r.owner

Marked(c, mark) ==
  IF mark = "cut" \/ c.op = "connect" THEN [c EXCEPT !.marks = @ \cup {mark}] ELSE c
On(b, id) == call[b] # Idle /\ call[b].id = id
CutOff(a, id, c) ==
  [b \in Actors |-> IF b = a THEN c
                    ELSE IF On(b, id) /\ ValidId(id) THEN Marked(call[b], "cut") ELSE call[b]]

Returns(c, out) ==
  result' = IF c.op = "connect" THEN [id |-> c.id, marks |-> c.marks, out |-> out] ELSE NoResult

(* Calls that never wait.                                                  *)
Socket(a, kind) ==
  /\ Tables(Create(kind, "script"))
  /\ result' = NoResult
  /\ UNCHANGED <<call, wait>>

Listen(a, id) ==
  /\ \E r \in TryListen(id) : Tables(r)
  /\ result' = NoResult
  /\ UNCHANGED <<call, wait>>

Close(a, id) ==
  /\ Tables(CloseSlot(id))
  /\ call' = CutOff(a, id, Idle)
  /\ result' = NoResult
  /\ UNCHANGED wait

(* One try of c by a: it returns, or waits for the descriptor of c.        *)
Try(c) ==
  CASE c.phase = "accept"  -> TryAccept(c.id)
    [] c.phase = "connect" -> TryConnect(c.id)
    [] c.phase = "check"   -> CheckConnect(c.id)
    [] c.phase = "send"    -> TrySend(c.id)
    [] c.phase = "recv"    -> TryRecv(c.id)

(* net_wait_fd: without a current task in a select() on that descriptor    *)
(* only; with one in the loop, which the main program, no coroutine of the *)
(* loop, is refused at once (event_loop_wait_readable, ..._writable).      *)
WayToWait(a) ==
  CASE ~cur            -> "blocking"
    [] cur /\ a = Main -> "retry"
    [] OTHER           -> "waiting"

AfterBlock(a, c) ==
  LET d == IF c.phase = "connect" THEN [c EXCEPT !.phase = "check"] ELSE c
  IN IF WayToWait(a) = "retry" THEN Marked(d, "failed") ELSE d

Attempt(a, c) ==
  \E r \in Try(c) :
    /\ Tables(r)
    /\ IF r.out = "block"
       THEN /\ call' = [call EXCEPT ![a] = AfterBlock(a, c)]
            /\ wait' = [wait EXCEPT ![a] = WayToWait(a)]
            /\ result' = NoResult
       ELSE /\ call' = [call EXCEPT ![a] = Idle]
            /\ wait' = [wait EXCEPT ![a] = "no"]
            /\ Returns(c, r.out)

Begin(a, op, id) ==
  LET others == {b \in Actors \ {a} : On(b, id)}
      c      == [op |-> op, phase |-> op, id |-> id, fd |-> RawFd(id),
                 marks |-> IF op = "connect" /\ others # {} THEN {"shared"} ELSE {}]
  IN /\ \E r \in Try(c) :
          /\ Tables(r)
          /\ call' = [b \in Actors |->
               CASE b = a -> IF r.out = "block" THEN AfterBlock(a, c) ELSE Idle
                 [] b \in others -> Marked(call[b], "shared")
                 [] OTHER -> call[b]]
          /\ wait' = [wait EXCEPT ![a] = IF r.out = "block" THEN WayToWait(a) ELSE "no"]
          /\ IF r.out = "block" THEN result' = NoResult ELSE Returns(c, r.out)

(* The script: an actor outside any call makes one.                        *)
Script(a) ==
  /\ MayRun(a) /\ wait[a] = "no"
  /\ \/ \E kind \in Kinds \cap Does[a] : Socket(a, kind)
     \/ \E id \in Ids : \/ /\ "listen" \in Does[a]
                         /\ Listen(a, id)
                      \/ /\ "close" \in Does[a]
                         /\ Close(a, id)
                      \/ \E op \in Waits \cap Does[a] : Begin(a, op, id)
  /\ UNCHANGED cur

Resume(a) ==
  /\ MayRun(a) /\ wait[a] \in {"ready", "retry"} /\ call[a].op # "request"
  /\ Attempt(a, call[a])
  /\ UNCHANGED cur

-----------------------------------------------------------------------------
(* http_client_request: a socket of its own, connect, the handshake if it  *)
(* is https, the request, the response up to its end, an error or the size *)
(* limit, and the socket is closed.                                        *)

StartRequest(a) ==
  /\ MayRun(a) /\ wait[a] = "no" /\ "request" \in Does[a]
  /\ LET r == Create("tcp", a)
         c == [op |-> "request", phase |-> "connect", id |-> Min(FreeSlots),
               fd |-> Min(FreeFds), marks |-> {}]
     IN /\ Tables(r)
        /\ IF r.out = "ok"
           THEN /\ call' = [call EXCEPT ![a] = c]
                /\ wait' = [wait EXCEPT ![a] = "running"]
           ELSE UNCHANGED <<call, wait>>
  /\ result' = NoResult
  /\ UNCHANGED cur

(* Where a try leads: more may be left to send or to read.                 *)
NextPhases(phase, out) ==
  CASE phase \in {"connect", "check"} -> IF out = "ok" THEN {"send", "close"} ELSE {"close"}
    [] phase = "send" -> IF out = "ok" THEN {"send", "recv"} ELSE {"recv"}
    [] phase = "recv" -> IF out = "ok" THEN {"recv", "close"} ELSE {"close"}

RequestStep(a) ==
  LET c == call[a]
  IN /\ MayRun(a) /\ wait[a] \in {"running", "ready", "retry"}
     /\ c.op = "request" /\ c.phase # "close"
     /\ \E r \in Try(c) :
          /\ Tables(r)
          /\ \/ /\ r.out = "block"
                /\ call' = [call EXCEPT ![a] = AfterBlock(a, c)]
                /\ wait' = [wait EXCEPT ![a] = WayToWait(a)]
             \/ /\ r.out # "block"
                /\ \E phase \in NextPhases(c.phase, r.out) : call' = [call EXCEPT ![a].phase = phase]
                /\ wait' = [wait EXCEPT ![a] = "running"]
     /\ result' = NoResult
     /\ UNCHANGED cur

EndRequest(a) ==
  /\ wait[a] = "running" /\ call[a].phase = "close"
  /\ Tables(CloseSlot(call[a].id))
  /\ call' = CutOff(a, call[a].id, Idle)
  /\ wait' = [wait EXCEPT ![a] = "no"]
  /\ result' = NoResult
  /\ UNCHANGED cur

-----------------------------------------------------------------------------
(* The loop, which main drives while it awaits, enters select() when no    *)
(* task can run.                                                           *)

Watched == {t \in Tasks : wait[t] = "waiting"}
WantsWrite(c) == c.phase \in {"check", "send"}
Ready(c) == IF WantsWrite(c) THEN Writable(c.fd) ELSE Readable(c.fd)

LoopTurns ==
  /\ InControl = {} /\ \A a \in Actors : wait[a] # "ready"
  /\ Watched # {}

BadSelectReturns ==
  /\ LoopTurns /\ \A t \in Watched : Open(call[t].fd)
  /\ LET woken == {t \in Watched : ~WantsWrite(call[t]) /\ Ready(call[t])}
     IN /\ woken # {}
        /\ wait' = [a \in Actors |-> IF a \in woken THEN "ready" ELSE wait[a]]
  /\ result' = NoResult
  /\ UNCHANGED <<fds, kernel, call, cur, owner>>

SelectReturns ==
  /\ LoopTurns /\ \A t \in Watched : Open(call[t].fd)
  /\ LET woken == {t \in Watched : Ready(call[t])}
     IN /\ woken # {}
        /\ wait' = [a \in Actors |-> IF a \in woken THEN "ready" ELSE wait[a]]
  /\ result' = NoResult
  /\ UNCHANGED <<fds, kernel, call, cur, owner>>

BadSelectFails ==
  /\ LoopTurns /\ \E t \in Watched : ~Open(call[t].fd)
  /\ result' = NoResult
  /\ UNCHANGED <<fds, kernel, call, wait, cur, owner>>

(* A watched descriptor is not open: EBADF, and all waiters are woken.     *)
SelectFails ==
  /\ LoopTurns /\ \E t \in Watched : ~Open(call[t].fd)
  /\ wait' = [a \in Actors |-> IF a \in Watched THEN "ready" ELSE wait[a]]
  /\ call' = [a \in Actors |-> IF a \in Watched THEN Marked(call[a], "failed") ELSE call[a]]
  /\ result' = NoResult
  /\ UNCHANGED <<fds, kernel, cur, owner>>

(* The select() of one call returns, at once if the descriptor is closed;  *)
(* whatever it returns, the call is tried again.                           *)
BlockingReturns(a) ==
  /\ wait[a] = "blocking" /\ (Ready(call[a]) \/ ~Open(call[a].fd))
  /\ wait' = [wait EXCEPT ![a] = "retry"]
  /\ result' = NoResult
  /\ UNCHANGED <<fds, kernel, call, cur, owner>>

(* While nobody has control the bodies of other tasks begin and end.  One  *)
(* that begins is the current task, one that ends puts back what it found, *)
(* a task that is over or NULL (module AsyncInterp): whatever waits        *)
(* meanwhile, the field may be either.                                     *)
BodiesComeAndGo ==
  /\ InControl = {}
  /\ cur' = ~cur
  /\ result' = NoResult
  /\ UNCHANGED <<fds, kernel, call, wait, owner>>

-----------------------------------------------------------------------------

Init ==
  /\ fds = [id \in Ids |-> NoFd]
  /\ kernel = [f \in Fds |-> Closed]
  /\ call = [a \in Actors |-> Idle]
  /\ wait = [a \in Actors |-> "no"]
  /\ cur = FALSE
  /\ result = NoResult
  /\ owner = [id \in Ids |-> "none"]

Step(a) == Resume(a) \/ RequestStep(a) \/ EndRequest(a)

Next ==
  \/ \E a \in Actors : Script(a) \/ StartRequest(a) \/ Step(a) \/ BlockingReturns(a)
  \/ SelectReturns \/ SelectFails \/ BodiesComeAndGo \/ Network

Spec == Init /\ [][Next]_vars

(* A request has an end, and a response has a limit (64 MiB).              *)
GetsOn(a) == RequestStep(a) /\ wait'[a] = "running" /\ call'[a].phase # call[a].phase

(* A task that can go on is resumed (RunsWithoutTimers of EventLoop), the  *)
(* loop turns as long as the script lets it, and select() returns.         *)
FairSpec ==
  Spec /\ (\A a \in Actors : SF_vars(Step(a)) /\ WF_vars(BlockingReturns(a)))
       /\ (\A a \in {b \in Actors : "request" \in Does[b]} : SF_vars(GetsOn(a)))
       /\ SF_vars(SelectReturns) /\ SF_vars(SelectFails)

-----------------------------------------------------------------------------
(* Properties.                                                             *)

(* Every descriptor the kernel has open is in exactly one slot, also after *)
(* a full table or an accept without descriptors; and a request leaves no  *)
(* socket behind, however it ends (net_close on every path of              *)
(* http_client_request).                                                   *)
NothingLeaks ==
  /\ TypeOK
  /\ \A f \in Fds : Cardinality({id \in Ids : fds[id] = f}) = (IF Open(f) THEN 1 ELSE 0)
  /\ \A id \in Ids :
       /\ owner[id] = "none" <=> fds[id] = NoFd
       /\ owner[id] \in Actors => call[owner[id]].op = "request" /\ call[owner[id]].id = id

(* What a call waits for is what its index means, although it looks the    *)
(* index up again after every wait and indices are reused at once: unless  *)
(* a script has closed the index under it.                                 *)
CallKeepsItsSocket ==
  \A a \in Actors :
    call[a] # Idle /\ "cut" \notin call[a].marks => RawFd(call[a].id) = call[a].fd

(* connect reports success on a connected socket: if it was alone on its   *)
(* index, and it has waited until its own descriptor was ready - not if a  *)
(* select() of the loop failed, which wakes all waiters, nor if it did not *)
(* wait at all, as in a main program that finds a current task (SO_ERROR   *)
(* is 0 while the attempt is still going on).                              *)
ConnectMeansConnected ==
  result.out = "ok" /\ result.marks = {} => kernel[fds[result.id]].mode = "connected"

(* A call whose socket another script has closed is told so, by the select *)
(* that fails on its descriptor: it ends, unless index and descriptor have *)
(* become another socket or another call keeps the process: one that waits *)
(* while there is no current task, or tries again and again.               *)
Kept(a) == \E b \in Actors \ {a} : wait[b] \in {"blocking", "retry"}
CutCallEnds ==
  \A t \in Tasks :
    "cut" \in call[t].marks
      ~> call[t] = Idle \/ Open(call[t].fd) \/ ValidId(call[t].id) \/ Kept(t)

(* A call that waits for something that is there goes on, in the loop or   *)
(* in a select() of its own, unless another call keeps the process.        *)
Stuck(a) ==
  wait[a] \in {"waiting", "blocking"} /\ Open(call[a].fd) /\ Ready(call[a])
ReadyCallGoesOn == \A a \in Actors : Stuck(a) ~> ~Stuck(a) \/ Kept(a)
=============================================================================
