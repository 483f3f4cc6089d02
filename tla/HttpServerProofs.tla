-------------------------- MODULE HttpServerProofs --------------------------
(***************************************************************************)
(* Proofs about myon.http.serve and serve_static (module HttpServer) for   *)
(* any number of clients and of other tasks and any size of the socket     *)
(* table.                                                                  *)
(*                                                                         *)
(* A task finds its socket again by a slot number that is reused at once.  *)
(* What makes this safe is SlotOwner: a slot holds a connection exactly    *)
(* while the task of that connection is in progress and names that slot.   *)
(* The history variables and the queue of waiting connections follow.      *)
(*                                                                         *)
(* A handler finds its barrier, and a wait its current task, in a field    *)
(* that every body overwrites and puts back.  Alone bounds what this does  *)
(* to handlers, Traced what it does to waits.                              *)
(***************************************************************************)
EXTENDS HttpServer, TLAPS

\* While the server is up, slot s holds connection c if and only if the task
\* of c is in progress and s is its conn_id; the listener has slot 0.
SlotOwner ==
    up = "serving" =>
        /\ \A c \in Conns, s \in Slots :
               table[s] = c <=> InProgress(c) /\ id[c] = s
        /\ \A c \in Conns : InProgress(c) => id[c] \in Slots
        /\ \A s \in Slots : table[s] = Listener <=> acc # "ended" /\ s = 0

\* A connection waits in the backlog once, and before it has a task.
BacklogSound ==
    /\ \A i \in 1..Len(backlog) : pc[backlog[i]] = "none"
    /\ \A i, j \in 1..Len(backlog) : backlog[i] = backlog[j] => i = j

\* How far the service of a connection has come agrees with what has been
\* received from it; a whole request ends answered or hung up.
ServiceSound ==
    \A c \in Conns :
        /\ from[c] \subseteq {c}
        /\ got[c] > 0 => from[c] = {c}
        /\ pc[c] \in {"none", "spawned"} => got[c] = 0
        /\ pc[c] = "reading" => got[c] < 2
        /\ pc[c] = "done" /\ got[c] = 2 => answer[c] = {c} \/ closed[c]

\* A handler is called, and a file looked up, for a header that has been
\* read; nothing has been sent before the service is over.
AnswerLast ==
    \A c \in Conns :
        /\ pc[c] \in {"handling", "sending"} => got[c] \in {1, 2}
        /\ pc[c] # "done" => answer[c] = {}

\* serve_static has one connection at a time, and the accept loop is in it.
OneByOne ==
    mode = "static" =>
        \A c \in Conns : InProgress(c) =>
            acc = "serving" /\ \A d \in Conns : InProgress(d) => d = c

\* The server does not stop under a connection task.
NoTaskAtEnd ==
    up \in {"returned", "exited"} /\ mode = "handler" =>
        \A c \in Conns : ~InProgress(c)

Inv ==
    /\ TypeOK
    /\ SlotOwner
    /\ BacklogSound
    /\ ServiceSound
    /\ AnswersOwnRequest
    /\ AnswerLast
    /\ OneByOne
    /\ NoTaskAtEnd

\* What slots hold differs from the connections, and there is a slot 0.
LEMMA ConstantFacts ==
    /\ 0 \in Slots
    /\ Slots \subseteq Int
    /\ NoSlot \notin Slots
    /\ Free \notin Conns /\ Listener \notin Conns /\ Script \notin Conns
    /\ Free # Listener /\ Free # Script /\ Listener # Script
    /\ Listener \notin Tasks /\ Main \notin Tasks
    /\ \A c \in Conns : c \notin Tasks
  BY ServerAssumption DEF Slots, NoSlot, Free, Listener, Script, Main

\* While the server is up, what conn_id of a connection in progress names is
\* that connection's own socket.
LEMMA OwnSocket ==
    ASSUME Inv, up = "serving", NEW c \in Conns, InProgress(c)
    PROVE  id[c] \in Slots /\ SocketOf(c) = c /\ Valid(c)
  <1>1. id[c] \in Slots
    BY DEF Inv, SlotOwner
  <1>2. table[id[c]] = c
    BY <1>1 DEF Inv, SlotOwner
  <1> QED
    BY <1>1, <1>2, ConstantFacts DEF SocketOf, Valid

-----------------------------------------------------------------------------
\* The shared fields of the interpreter keep their types, whoever begins,
\* waits or ends.
InterpTyped ==
    /\ cur \in BOOLEAN
    /\ barrier \in Conns \union Tasks \union {Main}
    /\ prev \in [Bodies -> BOOLEAN]
    /\ saved \in [Conns \union Tasks -> Conns \union Tasks \union {Main}]
    /\ blocked \in Bodies \union {Nobody}

LEMMA WaitsTyped ==
    ASSUME InterpTyped, NEW x \in Bodies, Waits(x)
    PROVE  blocked' \in Bodies \union {Nobody}
  BY DEF InterpTyped, Waits

LEMMA BeginsTyped ==
    ASSUME InterpTyped, NEW x \in Bodies, Begins(x)
    PROVE  /\ cur' \in BOOLEAN
           /\ prev' \in [Bodies -> BOOLEAN]
           /\ saved' \in [Conns \union Tasks -> Conns \union Tasks \union {Main}]
           /\ blocked' \in Bodies \union {Nobody}
  BY ConstantFacts DEF InterpTyped, Begins, Bodies

LEMMA PutsBackTyped ==
    ASSUME InterpTyped, NEW x \in Bodies, PutsBack(x)
    PROVE  /\ cur' \in BOOLEAN
           /\ barrier' \in Conns \union Tasks \union {Main}
           /\ blocked' \in Bodies \union {Nobody}
  BY ConstantFacts DEF InterpTyped, PutsBack, Bodies

\* They do in every step.
LEMMA InterpTypedNext == TypeOK /\ [Next]_vars => InterpTyped'
  <1> SUFFICES ASSUME TypeOK, [Next]_vars PROVE InterpTyped'
    OBVIOUS
  <1> InterpTyped
    BY DEF TypeOK, InterpTyped
  <1>0. /\ Listener \in Bodies
        /\ \A c \in Conns : c \in Bodies /\ Body(c) \in Bodies
        /\ \A t \in Tasks : t \in Bodies
    BY DEF Bodies, Body
  <1>1. ASSUME UNCHANGED interp PROVE InterpTyped'
    BY <1>1 DEF interp, InterpTyped
  <1>2. ASSUME NEW x \in Bodies, Waits(x), UNCHANGED <<cur, barrier, prev, saved>>
        PROVE  InterpTyped'
    BY <1>2, WaitsTyped DEF InterpTyped
  <1>3. ASSUME NEW c \in Conns, End(c) PROVE InterpTyped'
    <2>1. CASE mode = "static"
      BY <2>1, <1>0, <1>2, <1>3 DEF End
    <2>2. CASE mode # "static"
      <3>1. /\ PutsBack(c)
            /\ prev' = [prev EXCEPT ![c] = FALSE]
            /\ saved' = [saved EXCEPT ![c] = Main]
        BY <1>3, <2>2 DEF End
      <3> QED
        BY <1>0, <3>1, PutsBackTyped DEF InterpTyped
    <2> QED
      BY <2>1, <2>2
  <1>4. ASSUME NEW c \in Conns, RequestRead(c) PROVE InterpTyped'
    <2>1. /\ Waits(Body(c)) /\ UNCHANGED <<cur, prev, saved>>
          /\ barrier' = IF mode = "static" THEN barrier ELSE c
      BY <1>4 DEF RequestRead
    <2> QED
      BY <1>0, <2>1, WaitsTyped DEF InterpTyped
  <1>5. ASSUME NEW c \in Conns, Client(c) PROVE InterpTyped'
    <2>1. CASE Connect(c) \/ HangUp(c)
      BY <1>1, <2>1 DEF Connect, HangUp
    <2>2. ASSUME NEW level \in Levels, Receive(c, level) PROVE InterpTyped'
      BY <1>0, <1>2, <1>4, <2>2 DEF Receive
    <2> QED
      BY <1>5, <2>1, <2>2 DEF Client
  <1>6. ASSUME NEW c \in Conns,
               Serve(c) \/ Reject(c) \/ SendAll(c) \/ Derails(c)
        PROVE  InterpTyped'
    <2>1. CASE ConnBegins(c)
      BY <1>0, <2>1, BeginsTyped DEF ConnBegins, InterpTyped
    <2>2. CASE ReceiveEnds(c) \/ SendFails(c) \/ Reject(c) \/ SendAll(c)
      BY <1>3, <1>4, <2>2 DEF ReceiveEnds, SendFails, Reject, SendAll
    <2>3. CASE HandlerEnds(c)
      BY <1>0, <1>2, <2>3 DEF HandlerEnds
    <2>4. CASE Derails(c)
      BY <1>1, <2>4 DEF Derails
    <2> QED
      BY <1>6, <2>1, <2>2, <2>3, <2>4 DEF Serve
  <1>7. ASSUME NEW t \in Tasks, TaskBegins(t) \/ TaskEnds(t) \/ TaskCrashes(t)
        PROVE  InterpTyped'
    <2>1. CASE TaskBegins(t)
      BY <1>0, <2>1, BeginsTyped DEF TaskBegins, InterpTyped
    <2>2. CASE TaskEnds(t)
      <3>1. /\ PutsBack(t) /\ prev' = prev
            /\ saved' = [saved EXCEPT ![t] = Main]
        BY <2>2 DEF TaskEnds
      <3> QED
        BY <1>0, <3>1, PutsBackTyped DEF InterpTyped
    <2>3. CASE TaskCrashes(t)
      BY <1>1, <2>3 DEF TaskCrashes
    <2> QED
      BY <1>7, <2>1, <2>2, <2>3
  <1>8. ASSUME NEW x \in Bodies, WaitsAgain(x) PROVE InterpTyped'
    BY <1>2, <1>8 DEF WaitsAgain
  <1>9. CASE AcceptLoop
    <2>1. CASE LoopBegins
      BY <1>0, <2>1, BeginsTyped DEF LoopBegins, InterpTyped
    <2>2. ASSUME NEW s \in Slots, Accept(s) PROVE InterpTyped'
      BY <1>0, <1>2, <2>2 DEF Accept
    <2>3. CASE AcceptFails
      BY <1>0, <2>3, PutsBackTyped DEF AcceptFails, InterpTyped
    <2> QED
      BY <1>9, <2>1, <2>2, <2>3 DEF AcceptLoop
  <1>10. ASSUME \/ \E s \in Slots : ScriptSocket(s)
                \/ ServeReturns \/ Exit \/ UNCHANGED vars
         PROVE  InterpTyped'
    BY <1>1, <1>10 DEF ScriptSocket, ServeReturns, Exit, vars
  <1> QED
    BY <1>5, <1>6, <1>7, <1>8, <1>9, <1>10 DEF Next

-----------------------------------------------------------------------------
\* The initial state satisfies the invariant.
LEMMA InitInv == Init => Inv
  <1> SUFFICES ASSUME Init PROVE Inv
    OBVIOUS
  <1> USE ConstantFacts
  <1>1. TypeOK
    BY DEF Init, TypeOK, Levels
  <1>2. SlotOwner
    BY DEF Init, SlotOwner, InProgress
  <1>3. BacklogSound /\ ServiceSound
    BY DEF Init, BacklogSound, ServiceSound
  <1>4. AnswersOwnRequest /\ AnswerLast /\ OneByOne /\ NoTaskAtEnd
    BY DEF Init, AnswersOwnRequest, AnswerLast, OneByOne, NoTaskAtEnd, InProgress
  <1> QED
    BY <1>1, <1>2, <1>3, <1>4 DEF Inv

\* A step that leaves the slots and the connections alone keeps the invariant
\* as long as the server does not stop under a connection task.
LEMMA ElsewhereInv ==
    ASSUME Inv, TypeOK',
           UNCHANGED <<mode, backlog, table, pc, id, got, from, answer>>,
           \A c \in Conns : closed[c] => closed'[c],
           acc' = acc \/ (acc = "spawned" /\ acc' = "accepting"),
           up = "serving",
           up' \in {"returned", "exited"} /\ mode = "handler" =>
               \A c \in Conns : ~InProgress(c)
    PROVE  Inv'
  <1> USE DEF Inv
  <1>1. SlotOwner'
    BY DEF SlotOwner, InProgress
  <1>2. BacklogSound' /\ ServiceSound'
    BY DEF BacklogSound, ServiceSound
  <1>3. AnswersOwnRequest' /\ AnswerLast' /\ OneByOne' /\ NoTaskAtEnd'
    BY DEF AnswersOwnRequest, AnswerLast, OneByOne, NoTaskAtEnd, InProgress
  <1> QED
    BY <1>1, <1>2, <1>3

\* What the clients do by themselves keeps the invariant.
LEMMA ConnectInv ==
    ASSUME Inv, NEW c \in Conns, Connect(c)
    PROVE  Inv'
  <1> USE ConstantFacts DEF Inv
  <1>1. TypeOK'
    BY DEF Connect, config, service, interp, script, TypeOK
  <1>2. /\ UNCHANGED <<mode, closed, table, acc, pc, id, got, from, answer, up>>
        /\ backlog' = Append(backlog, c)
    BY DEF Connect, config, service
  <1>3. /\ SlotOwner' /\ ServiceSound' /\ AnswersOwnRequest' /\ AnswerLast'
        /\ OneByOne' /\ NoTaskAtEnd'
    BY <1>2 DEF SlotOwner, InProgress, ServiceSound, AnswersOwnRequest,
                AnswerLast, OneByOne, NoTaskAtEnd
  <1>4. BacklogSound'
    <2>1. /\ Len(backlog') = Len(backlog) + 1
          /\ backlog'[Len(backlog) + 1] = c
          /\ \A i \in 1..Len(backlog) : backlog'[i] = backlog[i]
      BY <1>2 DEF TypeOK
    <2>2. pc[c] = "none" /\ \A i \in 1..Len(backlog) : backlog[i] # c
      BY DEF Connect, Known, TypeOK
    <2>3. Len(backlog) \in Nat /\ pc' = pc
      BY <1>2 DEF TypeOK
    <2> QED
      BY <2>1, <2>2, <2>3 DEF BacklogSound
  <1> QED
    BY <1>1, <1>3, <1>4

LEMMA HangUpInv ==
    ASSUME Inv, NEW c \in Conns, HangUp(c)
    PROVE  Inv'
  <1>1. TypeOK'
    BY DEF HangUp, config, service, interp, script, Inv, TypeOK
  <1>2. \A d \in Conns : closed[d] => closed'[d]
    BY DEF HangUp, Inv, TypeOK
  <1> QED
    BY <1>1, <1>2, ElsewhereInv DEF HangUp, config, service

\* Sockets other tasks open and close keep the invariant: they take free
\* slots and give back only their own.
LEMMA ScriptSocketInv ==
    ASSUME Inv, NEW s \in Slots, ScriptSocket(s)
    PROVE  Inv'
  <1> USE ConstantFacts DEF Inv
  <1>1. TypeOK'
    BY DEF ScriptSocket, config, kernel, service, interp, script, TypeOK
  <1>2. UNCHANGED <<mode, backlog, closed, acc, pc, id, got, from, answer, up>>
    BY DEF ScriptSocket, config, kernel, service
  <1>3. SlotOwner'
    BY <1>2 DEF ScriptSocket, AllocSlot, TypeOK, SlotOwner, InProgress
  <1>4. BacklogSound' /\ ServiceSound' /\ AnswersOwnRequest'
    BY <1>2 DEF BacklogSound, ServiceSound, AnswersOwnRequest
  <1>5. AnswerLast' /\ OneByOne' /\ NoTaskAtEnd'
    BY <1>2 DEF AnswerLast, OneByOne, NoTaskAtEnd, InProgress
  <1> QED
    BY <1>1, <1>3, <1>4, <1>5

-----------------------------------------------------------------------------
\* Accepting a connection keeps the invariant: the first in the backlog, which
\* has no task yet, gets a free slot.
LEMMA AcceptInv ==
    ASSUME Inv, InterpTyped', NEW s \in Slots, Accept(s)
    PROVE  Inv'
  <1> USE ConstantFacts DEF Inv
  <1> DEFINE c == Head(backlog)
  <1>1. /\ c \in Conns
        /\ pc[c] = "none"
        /\ Tail(backlog) \in Seq(Conns)
        /\ \A i \in 1..Len(Tail(backlog)) :
               i + 1 \in 1..Len(backlog) /\ Tail(backlog)[i] = backlog[i + 1]
        /\ \A i \in 1..Len(Tail(backlog)) : Tail(backlog)[i] # c
    <2>1. backlog \in Seq(Conns) /\ backlog # <<>>
      BY DEF Accept, TypeOK
    <2>2. 1 \in 1..Len(backlog) /\ c = backlog[1] /\ c \in Conns
      BY <2>1
    <2>3. Tail(backlog) \in Seq(Conns) /\ Len(Tail(backlog)) = Len(backlog) - 1
      BY <2>1
    <2>4. \A i \in 1..Len(Tail(backlog)) :
              i + 1 \in 1..Len(backlog) /\ Tail(backlog)[i] = backlog[i + 1]
      BY <2>1, <2>3
    <2> QED
      BY <2>2, <2>3, <2>4 DEF BacklogSound
  <1> HIDE DEF c
  <1>2. PICK p \in {"spawned", "reading"} : pc' = [pc EXCEPT ![c] = p]
    BY DEF Accept, c
  <1>3. /\ table' = [table EXCEPT ![s] = c]
        /\ id' = [id EXCEPT ![c] = s]
        /\ backlog' = Tail(backlog)
        /\ AllocSlot(s) /\ up = "serving" /\ acc = "accepting"
        /\ acc' = IF mode = "static" THEN "serving" ELSE "accepting"
        /\ UNCHANGED <<mode, host, closed, got, from, answer, task, up>>
    BY DEF Accept, Runs, config, c
  <1>4. company' \subseteq Conns
    BY <1>1 DEF Accept, InService, TypeOK, c
  <1>5. TypeOK'
    BY <1>1, <1>2, <1>3, <1>4 DEF TypeOK, InterpTyped
  <1>6. SlotOwner'
    BY <1>1, <1>2, <1>3 DEF AllocSlot, TypeOK, SlotOwner, InProgress
  <1>7. BacklogSound'
    BY <1>1, <1>2, <1>3 DEF BacklogSound, TypeOK
  <1>8. ServiceSound' /\ AnswerLast'
    BY <1>1, <1>2, <1>3 DEF ServiceSound, AnswerLast, TypeOK
  <1>9. OneByOne'
    BY <1>1, <1>2, <1>3 DEF OneByOne, InProgress, TypeOK
  <1>10. AnswersOwnRequest' /\ NoTaskAtEnd'
    BY <1>3 DEF AnswersOwnRequest, NoTaskAtEnd
  <1> QED
    BY <1>5, <1>6, <1>7, <1>8, <1>9, <1>10

\* The end of the accept loop keeps the invariant: only the listener's slot
\* is freed, and only waiting connections are dropped.
LEMMA AcceptFailsInv ==
    ASSUME Inv, InterpTyped', AcceptFails
    PROVE  Inv'
  <1> USE ConstantFacts DEF Inv
  <1>1. /\ acc = "accepting" /\ acc' = "ended" /\ up = "serving"
        /\ table' = [s \in Slots |-> IF table[s] = Listener THEN Free ELSE table[s]]
        /\ backlog' = <<>>
        /\ UNCHANGED <<mode, host, closed, pc, id, got, from, answer, task, up>>
    BY DEF AcceptFails, Runs, config, service
  <1>2. TypeOK'
    <2>1. company' \subseteq Conns
      BY DEF AcceptFails, InService, TypeOK
    <2> QED
      BY <1>1, <2>1 DEF TypeOK, InterpTyped
  <1>3. SlotOwner'
    BY <1>1 DEF TypeOK, SlotOwner, InProgress
  <1>4. BacklogSound' /\ ServiceSound' /\ AnswersOwnRequest'
    BY <1>1 DEF BacklogSound, ServiceSound, AnswersOwnRequest
  <1>5. AnswerLast' /\ OneByOne' /\ NoTaskAtEnd'
    BY <1>1 DEF AnswerLast, OneByOne, NoTaskAtEnd, InProgress
  <1> QED
    BY <1>2, <1>3, <1>4, <1>5

-----------------------------------------------------------------------------
\* What a step of the task of c leaves alone.
OfOne(c) ==
    /\ up = "serving"
    /\ InProgress(c)
    /\ UNCHANGED <<mode, host, backlog, closed, id, task, company, up>>

\* Ending the service of c keeps all that does not depend on what has been
\* received and answered: the slot that is closed is the one c holds.
LEMMA EndKeeps ==
    ASSUME Inv, InterpTyped', NEW c \in Conns, OfOne(c), End(c),
           got' \in [Conns -> Levels],
           from' \in [Conns -> SUBSET Conns],
           answer' \in [Conns -> SUBSET Conns]
    PROVE  TypeOK' /\ SlotOwner' /\ BacklogSound' /\ OneByOne' /\ NoTaskAtEnd'
  <1> USE ConstantFacts, OwnSocket DEF Inv, OfOne
  <1>1. /\ table' = [table EXCEPT ![id[c]] = Free]
        /\ pc' = [pc EXCEPT ![c] = "done"]
        /\ acc' = IF mode = "static" THEN "accepting" ELSE acc
    BY DEF End
  <1>2. \A d \in Conns : InProgress(d)' <=> InProgress(d) /\ d # c
    BY <1>1 DEF TypeOK, InProgress
  <1>3. TypeOK'
    BY <1>1 DEF TypeOK, InterpTyped
  <1>4. SlotOwner'
    <2>1. acc' # "ended" <=> acc # "ended"
      BY <1>1 DEF OneByOne
    <2>2. table[id[c]] = c /\ id[c] \in Slots
      BY DEF SocketOf
    <2>3. \A d \in Conns \ {c} : InProgress(d) => id[d] # id[c]
      BY <2>2 DEF SlotOwner
    <2>4. \A s \in Slots :
              table'[s] = IF s = id[c] THEN Free ELSE table[s]
      BY <1>1 DEF TypeOK
    <2>5. id' = id /\ c # Free
      OBVIOUS
    <2>6. ASSUME NEW d \in Conns, NEW s \in Slots
          PROVE  (table[s] = d <=> InProgress(d) /\ id[d] = s)'
      <3>1. table[s] = d <=> InProgress(d) /\ id[d] = s
        BY DEF SlotOwner
      <3>2. CASE s = id[c]
        BY <1>2, <2>2, <2>3, <2>4, <2>5, <3>1, <3>2
      <3>3. CASE s # id[c]
        BY <1>2, <2>4, <2>5, <3>1, <3>3
      <3> QED
        BY <3>2, <3>3
    <2>7. \A d \in Conns : (InProgress(d) => id[d] \in Slots)'
      BY <1>2, <2>5 DEF SlotOwner
    <2>8. \A s \in Slots : (table[s] = Listener <=> acc # "ended" /\ s = 0)'
      BY <2>1, <2>2, <2>4 DEF SlotOwner
    <2> QED
      BY <2>6, <2>7, <2>8 DEF SlotOwner
  <1>5. BacklogSound'
    <2>1. \A i \in 1..Len(backlog) : backlog[i] \in Conns \ {c}
      BY DEF TypeOK, BacklogSound, InProgress
    <2> QED
      BY <1>1, <2>1 DEF BacklogSound, TypeOK
  <1>6. OneByOne'
    BY <1>2 DEF OneByOne
  <1>7. NoTaskAtEnd'
    BY DEF NoTaskAtEnd
  <1> QED
    BY <1>3, <1>4, <1>5, <1>6, <1>7

\* Going on with a service keeps the same.
LEMMA GoOnKeeps ==
    ASSUME Inv, InterpTyped', NEW c \in Conns, OfOne(c),
           NEW p \in {"reading", "handling", "sending"},
           pc' = [pc EXCEPT ![c] = p],
           UNCHANGED <<table, acc>>,
           got' \in [Conns -> Levels],
           from' \in [Conns -> SUBSET Conns],
           answer' = answer
    PROVE  /\ TypeOK' /\ SlotOwner' /\ BacklogSound' /\ OneByOne' /\ NoTaskAtEnd'
           /\ AnswersOwnRequest'
  <1> USE ConstantFacts DEF Inv, OfOne
  <1>1. \A d \in Conns : InProgress(d)' <=> InProgress(d)
    BY DEF TypeOK, InProgress
  <1>2. TypeOK'
    BY DEF TypeOK, InterpTyped
  <1>3. SlotOwner' /\ OneByOne' /\ NoTaskAtEnd'
    BY <1>1 DEF TypeOK, SlotOwner, OneByOne, NoTaskAtEnd
  <1>4. BacklogSound'
    BY DEF TypeOK, BacklogSound, InProgress
  <1>5. AnswersOwnRequest'
    BY DEF AnswersOwnRequest
  <1> QED
    BY <1>2, <1>3, <1>4, <1>5

\* A connection task that begins keeps the invariant.
LEMMA ConnBeginsInv ==
    ASSUME Inv, InterpTyped', NEW c \in Conns, ConnBegins(c)
    PROVE  Inv'
  <1> USE DEF Inv
  <1>1. /\ OfOne(c) /\ pc[c] = "spawned"
        /\ pc' = [pc EXCEPT ![c] = "reading"]
        /\ UNCHANGED <<table, acc, got, from, answer>>
    BY DEF ConnBegins, Runs, config, kernel, script, OfOne, InProgress
  <1>2. got' \in [Conns -> Levels] /\ from' \in [Conns -> SUBSET Conns]
    BY <1>1 DEF TypeOK
  <1>3. /\ TypeOK' /\ SlotOwner' /\ BacklogSound' /\ OneByOne' /\ NoTaskAtEnd'
        /\ AnswersOwnRequest'
    BY <1>1, <1>2, GoOnKeeps
  <1>4. ServiceSound'
    BY <1>1 DEF OfOne, TypeOK, ServiceSound
  <1>5. AnswerLast'
    BY <1>1 DEF TypeOK, AnswerLast
  <1> QED
    BY <1>3, <1>4, <1>5

\* Going on with the request there is keeps the invariant.
LEMMA RequestReadInv ==
    ASSUME Inv, InterpTyped', NEW c \in Conns, OfOne(c), RequestRead(c),
           pc[c] = "reading",
           got' \in [Conns -> Levels], got'[c] \in {1, 2},
           from' \in [Conns -> SUBSET Conns], from'[c] = {c},
           \A d \in Conns \ {c} : got'[d] = got[d] /\ from'[d] = from[d],
           answer' = answer
    PROVE  Inv'
  <1> USE DEF Inv
  <1>1. PICK p \in {"handling", "sending"} : pc' = [pc EXCEPT ![c] = p]
    BY DEF RequestRead
  <1>2. UNCHANGED <<table, acc>>
    BY DEF RequestRead
  <1>3. /\ TypeOK' /\ SlotOwner' /\ BacklogSound' /\ OneByOne' /\ NoTaskAtEnd'
        /\ AnswersOwnRequest'
    BY <1>1, <1>2, GoOnKeeps
  <1>4. /\ pc'[c] \in {"handling", "sending"}
        /\ \A d \in Conns \ {c} : pc'[d] = pc[d]
    BY <1>1 DEF TypeOK
  <1>5. closed' = closed
    BY DEF OfOne
  <1>6. ServiceSound'
    <2> SUFFICES ASSUME NEW d \in Conns
                 PROVE  /\ from'[d] \subseteq {d}
                        /\ got'[d] > 0 => from'[d] = {d}
                        /\ pc'[d] \in {"none", "spawned"} => got'[d] = 0
                        /\ pc'[d] = "reading" => got'[d] < 2
                        /\ pc'[d] = "done" /\ got'[d] = 2 =>
                               answer'[d] = {d} \/ closed'[d]
      BY DEF ServiceSound
    <2>1. CASE d = c
      BY <1>4, <2>1
    <2>2. CASE d # c
      <3>1. /\ from'[d] = from[d] /\ got'[d] = got[d] /\ pc'[d] = pc[d]
            /\ answer'[d] = answer[d] /\ closed'[d] = closed[d]
        BY <1>4, <1>5, <2>2
      <3> QED
        BY <3>1 DEF ServiceSound
    <2> QED
      BY <2>1, <2>2
  <1>7. AnswerLast'
    <2> SUFFICES ASSUME NEW d \in Conns
                 PROVE  /\ pc'[d] \in {"handling", "sending"} => got'[d] \in {1, 2}
                        /\ pc'[d] # "done" => answer'[d] = {}
      BY DEF AnswerLast
    <2>1. CASE d = c
      BY <1>4, <2>1 DEF AnswerLast
    <2>2. CASE d # c
      BY <1>4, <2>2 DEF AnswerLast
    <2> QED
      BY <2>1, <2>2
  <1> QED
    BY <1>3, <1>6, <1>7

\* Receiving keeps the invariant: what arrives on the slot the task names was
\* sent by its own client.
LEMMA ReceiveInv ==
    ASSUME Inv, InterpTyped', NEW c \in Conns, NEW level \in Levels,
           Receive(c, level)
    PROVE  Inv'
  <1> USE DEF Inv
  <1>1. OfOne(c) /\ pc[c] = "reading" /\ UNCHANGED answer
    <2>1. /\ up = "serving" /\ pc[c] = "reading" /\ InProgress(c)
          /\ UNCHANGED <<config, kernel, id, answer, script, up>>
      BY DEF Receive, Runs, InProgress
    <2> QED
      BY <2>1 DEF config, kernel, script, OfOne
  <1>2. SocketOf(c) = c
    BY <1>1, OwnSocket DEF OfOne
  <1>3. /\ got' = [got EXCEPT ![c] = level]
        /\ from' = [from EXCEPT ![c] = @ \union {c}]
        /\ level \in {1, 2}
    BY <1>2 DEF Receive, TypeOK, Levels
  <1>4. /\ got' \in [Conns -> Levels] /\ got'[c] = level
        /\ \A d \in Conns \ {c} : got'[d] = got[d] /\ from'[d] = from[d]
        /\ from' \in [Conns -> SUBSET Conns] /\ from'[c] = {c}
    BY <1>3 DEF TypeOK, ServiceSound
  <1>5. CASE level = 2
    <2>1. RequestRead(c)
      BY <1>5 DEF Receive
    <2> QED
      BY <1>1, <1>3, <1>4, <2>1, RequestReadInv
  <1>6. CASE level = 1
    <2>1. UNCHANGED <<table, acc, pc>>
      BY <1>6 DEF Receive
    <2>2. pc' = [pc EXCEPT ![c] = "reading"]
      BY <1>1, <2>1 DEF TypeOK
    <2>3. /\ TypeOK' /\ SlotOwner' /\ BacklogSound' /\ OneByOne' /\ NoTaskAtEnd'
          /\ AnswersOwnRequest'
      BY <1>1, <1>4, <2>1, <2>2, GoOnKeeps
    <2>4. ServiceSound'
      BY <1>1, <1>3, <1>6, <2>1 DEF OfOne, TypeOK, ServiceSound
    <2>5. AnswerLast'
      BY <1>1, <1>4, <2>1 DEF AnswerLast
    <2> QED
      BY <2>3, <2>4, <2>5
  <1> QED
    BY <1>3, <1>5, <1>6

\* Rejecting, and a request or an answer cut short, keep the invariant.
LEMMA BreakOffInv ==
    ASSUME Inv, InterpTyped', NEW c \in Conns,
           Reject(c) \/ ReceiveEnds(c) \/ SendFails(c)
    PROVE  Inv'
  <1> USE DEF Inv
  <1>1. OfOne(c) /\ UNCHANGED <<got, from, answer>>
    <2>1. /\ up = "serving" /\ InProgress(c)
          /\ UNCHANGED <<config, kernel, id, got, from, answer, script, up>>
      BY DEF Reject, ReceiveEnds, SendFails, Runs, InProgress
    <2> QED
      BY <2>1 DEF config, kernel, script, OfOne
  <1>2. SocketOf(c) = c /\ Valid(c)
    BY <1>1, OwnSocket DEF OfOne
  <1>3. /\ got' \in [Conns -> Levels] /\ from' \in [Conns -> SUBSET Conns]
        /\ answer' \in [Conns -> SUBSET Conns]
    BY <1>1 DEF TypeOK
  <1>4. CASE ReceiveEnds(c) /\ got[c] = 1
    <2>1. RequestRead(c) /\ pc[c] = "reading"
      BY <1>4 DEF ReceiveEnds
    <2>2. from[c] = {c}
      BY <1>4 DEF ServiceSound
    <2> QED
      BY <1>1, <1>3, <1>4, <2>1, <2>2, RequestReadInv
  <1>5. CASE ~(ReceiveEnds(c) /\ got[c] = 1)
    <2>1. End(c)
      BY <1>5 DEF Reject, ReceiveEnds, SendFails
    <2>2. TypeOK' /\ SlotOwner' /\ BacklogSound' /\ OneByOne' /\ NoTaskAtEnd'
      BY <1>1, <1>3, <2>1, EndKeeps
    <2>3. got[c] = 2 => closed[c]
      BY <1>2 DEF Reject, ReceiveEnds, SendFails, ServiceSound, TypeOK
    <2>4. pc' = [pc EXCEPT ![c] = "done"]
      BY <2>1 DEF End
    <2>5. ServiceSound'
      BY <1>1, <2>3, <2>4 DEF OfOne, TypeOK, ServiceSound
    <2>6. AnswersOwnRequest' /\ AnswerLast'
      BY <1>1, <2>4 DEF TypeOK, AnswersOwnRequest, AnswerLast
    <2> QED
      BY <2>2, <2>5, <2>6
  <1> QED
    BY <1>4, <1>5

\* The end of a handler keeps the invariant.
LEMMA HandlerEndsInv ==
    ASSUME Inv, InterpTyped', NEW c \in Conns, HandlerEnds(c)
    PROVE  Inv'
  <1> USE DEF Inv
  <1>1. /\ OfOne(c) /\ pc[c] = "handling"
        /\ pc' = [pc EXCEPT ![c] = "sending"]
        /\ UNCHANGED <<table, acc, got, from, answer>>
    BY DEF HandlerEnds, Runs, config, kernel, script, OfOne, InProgress
  <1>2. got' \in [Conns -> Levels] /\ from' \in [Conns -> SUBSET Conns]
    BY <1>1 DEF TypeOK
  <1>3. /\ TypeOK' /\ SlotOwner' /\ BacklogSound' /\ OneByOne' /\ NoTaskAtEnd'
        /\ AnswersOwnRequest'
    BY <1>1, <1>2, GoOnKeeps
  <1>4. ServiceSound' /\ AnswerLast'
    BY <1>1 DEF OfOne, TypeOK, ServiceSound, AnswerLast
  <1> QED
    BY <1>3, <1>4

\* Sending an answer keeps the invariant: it goes out on the task's own
\* socket and answers what was received from that client only.
LEMMA SendAllInv ==
    ASSUME Inv, InterpTyped', NEW c \in Conns, SendAll(c)
    PROVE  Inv'
  <1> USE DEF Inv
  <1>1. OfOne(c) /\ End(c) /\ pc[c] = "sending" /\ UNCHANGED <<got, from>>
    <2>1. /\ up = "serving" /\ InProgress(c) /\ End(c) /\ pc[c] = "sending"
          /\ UNCHANGED <<config, kernel, id, got, from, script, up>>
      BY DEF SendAll, Runs, InProgress
    <2> QED
      BY <2>1 DEF config, kernel, script, OfOne
  <1>2. answer' = [answer EXCEPT ![c] = @ \union from[c]]
    BY <1>1, OwnSocket DEF SendAll, OfOne
  <1>3. /\ got' \in [Conns -> Levels] /\ from' \in [Conns -> SUBSET Conns]
        /\ answer' \in [Conns -> SUBSET Conns]
    BY <1>1, <1>2 DEF TypeOK
  <1>4. TypeOK' /\ SlotOwner' /\ BacklogSound' /\ OneByOne' /\ NoTaskAtEnd'
    BY <1>1, <1>3, EndKeeps
  <1>5. from[c] = {c} /\ answer[c] = {}
    BY <1>1 DEF AnswerLast, ServiceSound
  <1>6. answer'[c] = {c} /\ \A d \in Conns \ {c} : answer'[d] = answer[d]
    BY <1>2, <1>5 DEF TypeOK
  <1>7. AnswersOwnRequest'
    BY <1>6 DEF AnswersOwnRequest
  <1>8. pc' = [pc EXCEPT ![c] = "done"]
    BY <1>1 DEF End
  <1>9. ServiceSound' /\ AnswerLast'
    BY <1>1, <1>6, <1>8 DEF OfOne, TypeOK, ServiceSound, AnswerLast
  <1> QED
    BY <1>4, <1>7, <1>9

-----------------------------------------------------------------------------
\* Other tasks of the script, waits and errors gone astray keep the invariant.
LEMMA ScriptInv ==
    ASSUME Inv, InterpTyped',
           \/ \E t \in Tasks : TaskBegins(t) \/ TaskEnds(t) \/ TaskCrashes(t)
           \/ \E x \in Bodies : WaitsAgain(x)
           \/ \E c \in Conns : Derails(c)
           \/ LoopBegins
    PROVE  Inv'
  <1>1. /\ UNCHANGED <<mode, host, backlog, closed, table, pc, id, got, from,
                       answer>>
        /\ up = "serving" /\ up' \in {"serving", "derailed", "crashed"}
        /\ acc' = acc \/ (acc = "spawned" /\ acc' = "accepting")
    BY DEF TaskBegins, TaskEnds, TaskCrashes, WaitsAgain, Derails, LoopBegins,
           Runs, config, kernel, service
  <1>2. task' \in [Tasks -> {"unborn", "running", "ended"}]
    BY DEF TaskBegins, TaskEnds, TaskCrashes, WaitsAgain, Derails, LoopBegins,
           script, Inv, TypeOK
  <1>3. company' \subseteq Conns
    BY DEF TaskBegins, TaskEnds, TaskCrashes, WaitsAgain, Derails, LoopBegins,
           script, Inv, TypeOK, InService
  <1>4. TypeOK'
    BY <1>1, <1>2, <1>3 DEF Inv, TypeOK, InterpTyped
  <1> QED
    BY <1>1, <1>4, ElsewhereInv

\* The return of serve and the exit of the program keep the invariant: both
\* wait until no connection task is left.
LEMMA StopInv ==
    ASSUME Inv, InterpTyped', ServeReturns \/ Exit
    PROVE  Inv'
  <1> USE ConstantFacts DEF Inv
  <1>1. /\ up = "serving" /\ up' \in {"returned", "exited"} /\ ~TasksPending
        /\ UNCHANGED <<mode, host, backlog, closed, acc, pc, id, got, from,
                       answer, task, company>>
    BY DEF ServeReturns, Exit, config, kernel, service, script
  <1>2. TypeOK'
    <2>1. table' \in [Slots -> Conns \union {Free, Listener, Script}]
      BY DEF ServeReturns, Exit, TypeOK
    <2> QED
      BY <1>1, <2>1 DEF TypeOK, InterpTyped
  <1>3. SlotOwner'
    BY <1>1 DEF SlotOwner
  <1>4. BacklogSound' /\ ServiceSound' /\ AnswersOwnRequest' /\ AnswerLast'
    BY <1>1 DEF BacklogSound, ServiceSound, AnswersOwnRequest, AnswerLast
  <1>5. OneByOne'
    BY <1>1 DEF OneByOne, InProgress
  <1>6. NoTaskAtEnd'
    BY <1>1 DEF NoTaskAtEnd, TasksPending, InService, InProgress
  <1> QED
    BY <1>2, <1>3, <1>4, <1>5, <1>6

\* Every step keeps the invariant.
LEMMA NextInv == Inv /\ [Next]_vars => Inv'
  <1> SUFFICES ASSUME Inv, [Next]_vars PROVE Inv'
    OBVIOUS
  <1>0. InterpTyped'
    BY InterpTypedNext DEF Inv
  <1>1. ASSUME NEW c \in Conns, Client(c)
        PROVE  Inv'
    BY <1>0, <1>1, ConnectInv, HangUpInv, ReceiveInv DEF Client
  <1>2. ASSUME NEW c \in Conns, Serve(c) \/ Reject(c) \/ SendAll(c)
        PROVE  Inv'
    BY <1>0, <1>2, ConnBeginsInv, BreakOffInv, HandlerEndsInv, SendAllInv
       DEF Serve
  <1>3. ASSUME NEW s \in Slots, ScriptSocket(s)
        PROVE  Inv'
    BY <1>3, ScriptSocketInv
  <1>4. CASE AcceptLoop
    BY <1>0, <1>4, AcceptInv, AcceptFailsInv, ScriptInv DEF AcceptLoop
  <1>5. CASE \/ \E t \in Tasks : TaskBegins(t) \/ TaskEnds(t) \/ TaskCrashes(t)
             \/ \E x \in Bodies : WaitsAgain(x)
             \/ \E c \in Conns : Derails(c)
    BY <1>0, <1>5, ScriptInv
  <1>6. CASE ServeReturns \/ Exit
    BY <1>0, <1>6, StopInv
  <1>7. CASE UNCHANGED vars
    BY <1>7 DEF vars, config, kernel, service, interp, script, Inv, TypeOK,
                SlotOwner, BacklogSound, ServiceSound, AnswersOwnRequest,
                AnswerLast, OneByOne, NoTaskAtEnd, InProgress
  <1> QED
    BY <1>1, <1>2, <1>3, <1>4, <1>5, <1>6, <1>7 DEF Next

\* The inductive invariant holds in every reachable state.
THEOREM Invariance == Spec => []Inv
  <1>1. Init => Inv
    BY InitInv
  <1>2. Inv /\ [Next]_vars => Inv'
    BY NextInv
  <1> QED
    BY <1>1, <1>2, PTL DEF Spec

\* However slots are freed and reused, none leaks and none is shared: a
\* connection has exactly the slot its task names as long as that task is in
\* progress, and the listener has its own until the accept loop ends
\* (alloc_slot, net_close, http_conn_task_entry).
THEOREM Slots_Accounted == Spec => []SlotsAccounted
  <1>1. Inv => SlotsAccounted
    <2> SUFFICES ASSUME Inv PROVE SlotsAccounted
      OBVIOUS
    <2>1. TypeOK
      BY DEF Inv
    <2>2. ASSUME up = "serving", NEW c \in Conns
          PROVE  {s \in Slots : table[s] = c} =
                     IF InProgress(c) THEN {id[c]} ELSE {}
      BY <2>2 DEF Inv, SlotOwner
    <2>3. ASSUME up = "serving"
          PROVE  {s \in Slots : table[s] = Listener} =
                     IF acc = "ended" THEN {} ELSE {0}
      <3>1. \A s \in Slots : table[s] = Listener <=> acc # "ended" /\ s = 0
        BY <2>3 DEF Inv, SlotOwner
      <3>2. 0 \in Slots
        BY ConstantFacts
      <3> QED
        BY <3>1, <3>2
    <2> QED
      BY <2>1, <2>2, <2>3 DEF SlotsAccounted
  <1> QED
    BY <1>1, Invariance, PTL

\* A client is only ever sent the response to its own request, although its
\* task looks the socket up by a reusable slot number after every wait
\* (http_read_request, http_send_all).
THEOREM Answers_Own_Request == Spec => []AnswersOwnRequest
  <1>1. Inv => AnswersOwnRequest
    BY DEF Inv
  <1> QED
    BY <1>1, Invariance, PTL

\* When serve returns or the program exits, whoever got a whole request to a
\* handler has been answered or has hung up, if no error has gone astray:
\* connection tasks are foreground tasks (http_run_server,
\* event_loop_run_until_foreground_done).
THEOREM Answered_Before_End == Spec => []AnsweredBeforeEnd
  <1>1. Inv => AnsweredBeforeEnd
    BY DEF Inv, TypeOK, InProgress, ServiceSound, NoTaskAtEnd,
           AnsweredBeforeEnd
  <1> QED
    BY <1>1, Invariance, PTL
-----------------------------------------------------------------------------
(***************************************************************************)
(* The current task is lost only through a task that began without one.    *)
(***************************************************************************)

\* A task of the script began without a current task and has put that back.
Culprit == \E t \in Tasks : task[t] = "ended" /\ ~prev[t]

Begun(c) == pc[c] \in {"reading", "handling", "sending"}

\* Whoever found no current task while the accept loop lived, and will put
\* that back, found it so because of a culprit.
Traced ==
    /\ acc = "spawned" => \A c \in Conns : pc[c] = "none"
    /\ blocked # Nobody => ~cur
    /\ acc \in {"accepting", "serving"} =>
        /\ ~cur => Culprit
        /\ mode = "handler" =>
               \A c \in Conns : Begun(c) /\ ~prev[c] => Culprit

LEMMA InitTraced == Init => Traced
  BY DEF Init, Traced

\* What a task has found when it began stays what it puts back.
LEMMA CulpritStays ==
    ASSUME TypeOK, Culprit,
           \A t \in Tasks : task[t] = "ended" =>
               task'[t] = "ended" /\ prev'[t] = prev[t]
    PROVE  Culprit'
  BY DEF Culprit

\* Steps that neither begin nor end a body
LEMMA WaitTraced ==
    ASSUME Traced, TypeOK,
           UNCHANGED <<mode, cur, prev, task>>,
           blocked' # Nobody => ~cur,
           acc' = "spawned" => acc = "spawned" /\ pc' = pc,
           acc' \in {"accepting", "serving"} => acc \in {"accepting", "serving"},
           mode = "handler" => \A c \in Conns : Begun(c)' => Begun(c)
    PROVE  Traced'
  <1>1. Culprit' <=> Culprit
    BY DEF Culprit
  <1> QED
    BY <1>1 DEF Traced

\* The end of a service puts back what its task has found.
LEMMA EndTraced ==
    ASSUME Traced, Inv, NEW c \in Conns, Begun(c), End(c),
           UNCHANGED <<mode, task>>
    PROVE  Traced'
  <1>0. TypeOK
    BY DEF Inv
  <1>1. acc # "spawned"
    BY DEF Traced, Begun
  <1>2. pc' = [pc EXCEPT ![c] = "done"]
    BY DEF End
  <1>3. \A d \in Conns : Begun(d)' <=> Begun(d) /\ d # c
    BY <1>0, <1>2 DEF TypeOK, Begun
  <1>4. CASE mode = "static"
    <2>1. acc = "serving" /\ acc' = "accepting"
      BY <1>4 DEF Inv, OneByOne, End, Begun, InProgress
    <2>2. UNCHANGED <<cur, prev>> /\ (blocked' # Nobody => ~cur)
      BY <1>4 DEF End, Waits
    <2> QED
      BY <1>0, <1>3, <2>1, <2>2, WaitTraced
  <1>5. CASE mode # "static"
    <2>1. /\ cur' = prev[c] /\ blocked' = Nobody /\ acc' = acc
          /\ prev' = [prev EXCEPT ![c] = FALSE]
      BY <1>5 DEF End, PutsBack
    <2>2. \A x \in Bodies \ {c} : prev'[x] = prev[x]
      BY <1>0, <2>1 DEF TypeOK
    <2>3. Culprit' <=> Culprit
      BY <2>2, ConstantFacts DEF Culprit, Bodies
    <2>4. mode = "handler" /\ (acc \in {"accepting", "serving"} /\ ~prev[c] => Culprit)
      BY <1>0, <1>5 DEF Traced, TypeOK
    <2>5. \A d \in Conns : Begun(d)' => Begun(d) /\ prev'[d] = prev[d]
      BY <1>3, <2>2 DEF Bodies
    <2> QED
      BY <1>1, <2>1, <2>3, <2>4, <2>5 DEF Traced
  <1> QED
    BY <1>4, <1>5

\* Every step keeps this.
LEMMA NextTraced == Inv /\ Traced /\ [Next]_vars => Traced'
  <1> SUFFICES ASSUME Inv, Traced, [Next]_vars PROVE Traced'
    OBVIOUS
  <1>0. TypeOK
    BY DEF Inv
  <1>1. ASSUME UNCHANGED <<mode, acc, pc, task, interp>> PROVE Traced'
    BY <1>1 DEF interp, Traced, Culprit, Begun
  <1>2. ASSUME NEW c \in Conns, Client(c) PROVE Traced'
    <2>1. CASE Connect(c) \/ HangUp(c)
      BY <1>1, <2>1 DEF Connect, HangUp, config, service, script
    <2>2. ASSUME NEW level \in Levels, Receive(c, level) PROVE Traced'
      <3>1. /\ Begun(c) /\ acc' = acc
            /\ UNCHANGED <<mode, cur, prev, task>> /\ Waits(Body(c))
            /\ \A d \in Conns \ {c} : pc'[d] = pc[d]
        BY <1>0, <2>2 DEF Receive, RequestRead, config, script, Begun, TypeOK
      <3>2. acc # "spawned" /\ (blocked' # Nobody => ~cur)
        BY <3>1 DEF Traced, Begun, Waits
      <3>3. \A d \in Conns : Begun(d)' => Begun(d)
        BY <3>1 DEF Begun
      <3> QED
        BY <1>0, <3>1, <3>2, <3>3, WaitTraced
    <2> QED
      BY <1>2, <2>1, <2>2 DEF Client
  <1>3. ASSUME NEW c \in Conns,
               \/ Reject(c) \/ SendFails(c) \/ SendAll(c)
               \/ ReceiveEnds(c) /\ got[c] # 1
        PROVE  Traced'
    <2>1. Begun(c) /\ End(c) /\ UNCHANGED <<mode, task>>
      BY <1>3 DEF Reject, SendFails, SendAll, ReceiveEnds, Begun, config, script
    <2> QED
      BY <2>1, EndTraced
  <1>4. ASSUME NEW c \in Conns,
               HandlerEnds(c) \/ (ReceiveEnds(c) /\ got[c] = 1)
        PROVE  Traced'
    <2>1. /\ Begun(c) /\ acc' = acc
          /\ UNCHANGED <<mode, cur, prev, task>>
          /\ Waits(c) \/ Waits(Body(c))
          /\ \A d \in Conns \ {c} : pc'[d] = pc[d]
      BY <1>0, <1>4 DEF HandlerEnds, ReceiveEnds, RequestRead, config, script,
                        Begun, TypeOK
    <2>2. acc # "spawned" /\ (blocked' # Nobody => ~cur)
      BY <2>1 DEF Traced, Begun, Waits
    <2>3. \A d \in Conns : Begun(d)' => Begun(d)
      BY <2>1 DEF Begun
    <2> QED
      BY <1>0, <2>1, <2>2, <2>3, WaitTraced
  <1>5. ASSUME NEW c \in Conns, ConnBegins(c) PROVE Traced'
    <2>1. /\ prev' = [prev EXCEPT ![c] = cur] /\ cur' = TRUE
          /\ blocked' = Nobody /\ pc[c] = "spawned"
          /\ pc' = [pc EXCEPT ![c] = "reading"]
          /\ UNCHANGED <<mode, acc, task>>
      BY <1>5 DEF ConnBegins, Begins, config, script
    <2>2. /\ prev'[c] = cur /\ \A x \in Bodies \ {c} : prev'[x] = prev[x]
          /\ \A d \in Conns \ {c} : pc'[d] = pc[d]
      BY <1>0, <2>1 DEF TypeOK, Bodies
    <2>3. Culprit' <=> Culprit
      BY <2>1, <2>2, ConstantFacts DEF Culprit, Bodies
    <2>4. acc # "spawned"
      BY <2>1 DEF Traced
    <2>5. \A d \in Conns \ {c} : (Begun(d)' => Begun(d)) /\ prev'[d] = prev[d]
      BY <2>2 DEF Begun, Bodies
    <2> QED
      BY <2>1, <2>2, <2>3, <2>4, <2>5 DEF Traced
  <1>6. ASSUME NEW c \in Conns, Derails(c) PROVE Traced'
    BY <1>1, <1>6 DEF Derails, config, service, script
  <1>7. ASSUME NEW t \in Tasks, TaskBegins(t) PROVE Traced'
    <2>1. /\ prev' = [prev EXCEPT ![t] = cur] /\ cur' = TRUE
          /\ blocked' = Nobody /\ task[t] = "unborn"
          /\ task' = [task EXCEPT ![t] = "running"]
          /\ UNCHANGED <<mode, acc, pc>>
      BY <1>7 DEF TaskBegins, Begins, config, service
    <2>2. /\ \A x \in Bodies \ {t} : prev'[x] = prev[x]
          /\ \A u \in Tasks : task[u] = "ended" => u # t /\ task'[u] = "ended"
      BY <1>0, <2>1 DEF TypeOK, Bodies
    <2>3. Culprit => Culprit'
      BY <1>0, <2>2, CulpritStays DEF Bodies
    <2>4. \A d \in Conns : (Begun(d)' <=> Begun(d)) /\ prev'[d] = prev[d]
      BY <2>1, <2>2, ConstantFacts DEF Begun, Bodies
    <2> QED
      BY <2>1, <2>3, <2>4 DEF Traced
  <1>8. ASSUME NEW t \in Tasks, TaskEnds(t) PROVE Traced'
    <2>1. /\ cur' = prev[t] /\ blocked' = Nobody /\ prev' = prev
          /\ task' = [task EXCEPT ![t] = "ended"]
          /\ UNCHANGED <<mode, acc, pc>>
      BY <1>8 DEF TaskEnds, PutsBack, config, service
    <2>2. Culprit => Culprit'
      BY <1>0, <2>1, CulpritStays DEF TypeOK
    <2>3. ~prev[t] => Culprit'
      BY <1>0, <2>1 DEF Culprit, TypeOK
    <2>4. \A d \in Conns : Begun(d)' <=> Begun(d)
      BY <2>1 DEF Begun
    <2> QED
      BY <2>1, <2>2, <2>3, <2>4 DEF Traced
  <1>9. ASSUME \/ \E t \in Tasks : TaskCrashes(t)
               \/ \E s \in Slots : ScriptSocket(s)
               \/ ServeReturns \/ Exit \/ UNCHANGED vars
        PROVE  Traced'
    BY <1>1, <1>9 DEF TaskCrashes, ScriptSocket, ServeReturns, Exit, vars,
                      config, service, script
  <1>10. ASSUME NEW x \in Bodies, WaitsAgain(x) PROVE Traced'
    <2>1. /\ UNCHANGED <<mode, acc, pc, cur, prev, task>>
          /\ blocked' # Nobody => ~cur
      BY <1>10 DEF WaitsAgain, Waits, config, service, script
    <2> QED
      BY <1>0, <2>1, WaitTraced DEF Begun
  <1>11. CASE LoopBegins
    <2>1. /\ cur' = TRUE /\ blocked' = Nobody /\ acc = "spawned"
          /\ acc' = "accepting" /\ pc' = pc
      BY <1>11 DEF LoopBegins, Begins, service
    <2>2. \A c \in Conns : ~Begun(c)'
      BY <2>1 DEF Traced, Begun
    <2> QED
      BY <2>1, <2>2 DEF Traced
  <1>12. ASSUME NEW s \in Slots, Accept(s) PROVE Traced'
    <2>1. Head(backlog) \in Conns
      BY <1>0, <1>12 DEF Accept, TypeOK
    <2>2. /\ UNCHANGED <<mode, cur, prev, task>> /\ acc = "accepting"
          /\ acc' \in {"accepting", "serving"}
          /\ blocked' # Nobody => ~cur
          /\ pc' = [pc EXCEPT ![Head(backlog)] =
                       IF mode = "static" THEN "reading" ELSE "spawned"]
      BY <1>12 DEF Accept, Waits, config
    <2>3. mode = "handler" => \A c \in Conns : Begun(c)' => Begun(c)
      BY <1>0, <2>1, <2>2 DEF TypeOK, Begun
    <2> QED
      BY <1>0, <2>2, <2>3, WaitTraced
  <1>13. CASE AcceptFails
    <2>1. acc' = "ended" /\ blocked' = Nobody
      BY <1>13 DEF AcceptFails, PutsBack
    <2> QED
      BY <2>1 DEF Traced
  <1> QED
    BY <1>2, <1>3, <1>4, <1>5, <1>6, <1>7, <1>8, <1>9, <1>10, <1>11, <1>12,
       <1>13 DEF Next, Serve, AcceptLoop

\* Connections and handlers save the current task and put it back in whatever
\* order they end, and yet, while the accept loop lives, no wait of theirs
\* blocks the process unless another task of the script, which began without
\* a current task, has put that back (http_conn_task_entry, net_wait_fd).
THEOREM Suspends_While_Serving == Spec => []SuspendsWhileServing
  <1>1. Init => Inv /\ Traced
    BY InitInv, InitTraced
  <1>2. Inv /\ Traced /\ [Next]_vars => (Inv /\ Traced)'
    BY NextInv, NextTraced
  <1>3. Traced => SuspendsWhileServing
    BY DEF Traced, Culprit, SuspendsWhileServing
  <1> QED
    BY <1>1, <1>2, <1>3, PTL DEF Spec

-----------------------------------------------------------------------------
(***************************************************************************)
(* The server implements module HttpService.                               *)
(***************************************************************************)

\* The task that called serve waits for the accept loop.
HostWaits ==
    host \in Tasks =>
        /\ task[host] # "unborn"
        /\ acc # "ended" => task[host] = "running"

\* Who has never had company is alone now, and its handler's barrier is the
\* one that was set last.
Alone ==
    \A c \in Conns : InProgress(c) /\ c \notin company =>
        /\ \A d \in Conns : InProgress(d) => d = c
        /\ \A t \in Tasks : ~Active(t)
        /\ pc[c] = "handling" => barrier = c

LEMMA InitAlone == Init => HostWaits /\ Alone
  BY ConstantFacts DEF Init, HostWaits, Alone, InProgress

\* The steps of the task of c
ConnStep(c) ==
    (\E level \in Levels : Receive(c, level)) \/ Serve(c) \/ Reject(c) \/ SendAll(c)

\* What stays in any of them
LEMMA ConnStepKeeps ==
    ASSUME Inv, NEW c \in Conns, ConnStep(c)
    PROVE  /\ OfOne(c)
           /\ acc' = "ended" <=> acc = "ended"
           /\ \A d \in Conns \ {c} : pc'[d] = pc[d] /\ got'[d] = got[d]
           /\ pc'[c] = "handling" => barrier' = c
  <1>0. TypeOK
    BY DEF Inv
  <1>1. OfOne(c)
    <2>1. /\ up = "serving" /\ InProgress(c)
          /\ UNCHANGED <<config, kernel, id, script, up>>
      BY DEF ConnStep, Serve, ConnBegins, Receive, ReceiveEnds, HandlerEnds,
             SendFails, Reject, SendAll, Runs, InProgress
    <2> QED
      BY <2>1 DEF config, kernel, script, OfOne
  <1>2. acc' = "ended" <=> acc = "ended"
    <2>1. CASE End(c)
      BY <1>1, <2>1 DEF End, Inv, OneByOne, OfOne, TypeOK
    <2>2. CASE ~End(c)
      BY <2>2 DEF ConnStep, Serve, ConnBegins, Receive, ReceiveEnds,
                  HandlerEnds, SendFails, Reject, SendAll, RequestRead
    <2> QED
      BY <2>1, <2>2
  <1>3. \A d \in Conns \ {c} : pc'[d] = pc[d]
    BY <1>0 DEF TypeOK, ConnStep, Serve, ConnBegins, Receive, ReceiveEnds,
                HandlerEnds, SendFails, Reject, SendAll, RequestRead, End
  <1>4. \A d \in Conns \ {c} : got'[d] = got[d]
    BY <1>0 DEF TypeOK, ConnStep, Serve, ConnBegins, Receive, ReceiveEnds,
                HandlerEnds, SendFails, Reject, SendAll
  <1>5. pc'[c] = "handling" => barrier' = c
    <2>1. CASE End(c)
      BY <1>0, <2>1 DEF TypeOK, End
    <2>2. CASE RequestRead(c)
      BY <1>0, <2>2 DEF TypeOK, RequestRead
    <2>3. CASE ~End(c) /\ ~RequestRead(c)
      BY <1>0, <2>3 DEF TypeOK, ConnStep, Serve, ConnBegins, Receive,
                        ReceiveEnds, HandlerEnds, SendFails, Reject, SendAll
    <2> QED
      BY <2>1, <2>2, <2>3
  <1> QED
    BY <1>1, <1>2, <1>3, <1>4, <1>5

LEMMA NextHostWaits == Inv /\ HostWaits /\ [Next]_vars => HostWaits'
  <1> SUFFICES ASSUME Inv, HostWaits, [Next]_vars PROVE HostWaits'
    OBVIOUS
  <1>0. TypeOK
    BY DEF Inv
  <1>1. ASSUME NEW t \in Tasks, TaskBegins(t) \/ TaskEnds(t)
        PROVE  HostWaits'
    <2>1. /\ UNCHANGED <<host, acc>>
          /\ \/ task[t] = "unborn" /\ task' = [task EXCEPT ![t] = "running"]
             \/ Active(t) /\ task' = [task EXCEPT ![t] = "ended"]
      BY <1>1 DEF TaskBegins, TaskEnds, config
    <2> QED
      BY <1>0, <2>1 DEF TypeOK, HostWaits, Active
  <1>2. ASSUME UNCHANGED <<host, task>>, acc' # "ended" => acc # "ended"
        PROVE  HostWaits'
    BY <1>2 DEF HostWaits
  <1>3. ASSUME NEW c \in Conns, ConnStep(c)
        PROVE  HostWaits'
    BY <1>2, <1>3, ConnStepKeeps DEF OfOne
  <1>4. CASE \/ \E c \in Conns : Connect(c) \/ HangUp(c) \/ Derails(c)
             \/ \E t \in Tasks : TaskCrashes(t)
             \/ \E x \in Bodies : WaitsAgain(x)
             \/ \E s \in Slots : ScriptSocket(s)
             \/ AcceptLoop \/ ServeReturns \/ Exit \/ UNCHANGED vars
    <2>1. UNCHANGED <<host, task>>
      BY <1>4 DEF Connect, HangUp, Derails, TaskCrashes, WaitsAgain, ScriptSocket, AcceptLoop,
                  LoopBegins, Accept, AcceptFails, ServeReturns, Exit, vars,
                  config, script
    <2>2. acc' # "ended" => acc # "ended"
      BY <1>4 DEF Connect, HangUp, Derails, TaskCrashes, WaitsAgain, ScriptSocket, AcceptLoop,
                  LoopBegins, Accept, AcceptFails, ServeReturns, Exit, vars
    <2> QED
      BY <1>2, <2>1, <2>2
  <1> QED
    BY <1>1, <1>3, <1>4 DEF Next, Client, ConnStep

LEMMA NextAlone == Inv /\ HostWaits /\ Alone /\ [Next]_vars => Alone'
  <1> SUFFICES ASSUME Inv, HostWaits, Alone, [Next]_vars PROVE Alone'
    OBVIOUS
  <1>0. TypeOK
    BY DEF Inv
  <1>1. ASSUME NEW c \in Conns, ConnStep(c) PROVE Alone'
    <2>1. \A d \in Conns : InProgress(d)' => InProgress(d)
      BY <1>1, ConnStepKeeps DEF InProgress, OfOne
    <2>2. \A t \in Tasks : Active(t)' <=> Active(t)
      BY <1>1, ConnStepKeeps DEF Active, OfOne
    <2>3. InProgress(c) /\ company' = company /\ (pc'[c] = "handling" => barrier' = c)
      BY <1>1, ConnStepKeeps DEF OfOne
    <2> QED
      BY <2>1, <2>2, <2>3 DEF Alone
  <1>2. ASSUME UNCHANGED <<host, pc, task, company, barrier>>,
               acc' = "ended" <=> acc = "ended"
        PROVE  Alone'
    BY <1>2 DEF Alone, InProgress, Active
  <1>3. CASE \/ \E c \in Conns : Connect(c) \/ HangUp(c) \/ Derails(c)
             \/ \E t \in Tasks : TaskCrashes(t)
             \/ \E x \in Bodies : WaitsAgain(x)
             \/ \E s \in Slots : ScriptSocket(s)
             \/ LoopBegins \/ ServeReturns \/ Exit \/ UNCHANGED vars
    <2>1. UNCHANGED <<host, pc, task, company, barrier>>
      BY <1>3 DEF Connect, HangUp, Derails, TaskCrashes, WaitsAgain,
                  ScriptSocket, LoopBegins, ServeReturns, Exit, vars,
                  config, service, interp, script
    <2>2. acc' = "ended" <=> acc = "ended"
      BY <1>3 DEF Connect, HangUp, Derails, TaskCrashes, WaitsAgain,
                  ScriptSocket, LoopBegins, ServeReturns, Exit, vars
    <2> QED
      BY <1>2, <2>1, <2>2
  <1>4. ASSUME NEW t \in Tasks, TaskBegins(t) PROVE Alone'
    <2>1. pc' = pc /\ company' = company \union InService
      BY <1>4 DEF TaskBegins, service
    <2>2. \A c \in Conns : InProgress(c)' => c \in company'
      BY <2>1 DEF InProgress, InService
    <2> QED
      BY <2>2 DEF Alone
  <1>5. ASSUME NEW t \in Tasks, TaskEnds(t) PROVE Alone'
    <2>1. Active(t) /\ pc' = pc /\ company' = company
      BY <1>5 DEF TaskEnds, service
    <2>2. \A c \in Conns : InProgress(c)' => c \in company'
      BY <2>1 DEF InProgress, Alone
    <2> QED
      BY <2>2 DEF Alone
  <1>6. ASSUME NEW s \in Slots, Accept(s) PROVE Alone'
    <2>1. PICK c \in Conns : c = Head(backlog)
      BY <1>0, <1>6 DEF Accept, TypeOK
    <2>2. PICK p \in {"spawned", "reading"} : pc' = [pc EXCEPT ![c] = p]
      BY <1>6, <2>1 DEF Accept
    <2>3. /\ UNCHANGED <<host, task, barrier>>
          /\ acc' # "ended" /\ acc # "ended"
          /\ company' = company \union
                (IF InService \union {t \in Tasks : Active(t)} # {}
                 THEN InService \union {c} ELSE {})
      BY <1>6, <2>1 DEF Accept, config
    <2>4. \A d \in Conns : InProgress(d)' => d = c \/ InProgress(d)
      BY <1>0, <2>2 DEF TypeOK, InProgress
    <2>5. pc'[c] # "handling"
      BY <1>0, <2>2 DEF TypeOK
    <2>6. \A t \in Tasks : Active(t)' <=> Active(t)
      BY <2>3 DEF Active
    <2>7. CASE InService \union {t \in Tasks : Active(t)} # {}
      BY <2>3, <2>4, <2>7 DEF Alone, InService
    <2>8. CASE InService \union {t \in Tasks : Active(t)} = {}
      BY <2>4, <2>5, <2>6, <2>8 DEF Alone, InService
    <2> QED
      BY <2>7, <2>8
  <1>7. CASE AcceptFails
    <2>1. /\ UNCHANGED <<host, pc, task, barrier>>
          /\ company' = IF host = Main THEN company ELSE company \union InService
      BY <1>7 DEF AcceptFails, PutsBack, config, service
    <2>2. CASE host = Main
      <3>1. \A t \in Tasks : Active(t)' <=> Active(t)
        BY <2>1, <2>2, ConstantFacts DEF Active
      <3> QED
        BY <2>1, <2>2, <3>1 DEF Alone, InProgress
    <2>3. CASE host # Main
      <3>1. \A c \in Conns : InProgress(c)' => c \in company'
        BY <2>1, <2>3 DEF InProgress, InService
      <3> QED
        BY <3>1 DEF Alone
    <2> QED
      BY <2>2, <2>3
  <1> QED
    BY <1>1, <1>3, <1>4, <1>5, <1>6, <1>7 DEF Next, Client, ConnStep, AcceptLoop

\* The stages of the service mean what the promise needs them to.
LEMMA StageFacts ==
    ASSUME Inv, NEW c \in Conns
    PROVE  /\ stage[c] = "out" <=> pc[c] = "none"
           /\ stage[c] = "open" <=> InProgress(c) /\ got[c] = 0
           /\ stage[c] = "read" <=> InProgress(c) /\ got[c] \in {1, 2}
           /\ Service!Queued(c) <=> \E i \in DOMAIN backlog : backlog[i] = c
  <1>1. /\ pc[c] \in {"none", "spawned", "reading", "handling", "sending", "done"}
        /\ got[c] \in Levels
    BY DEF Inv, TypeOK
  <1> QED
    BY <1>1 DEF stage, Service!Queued, InProgress, Levels

LEMMA SameInService == Inv => Service!InService = InService
  BY StageFacts, Zenon DEF Service!InService, InService, InProgress, stage

\* A step of one task changes the stage of its client only.
LEMMA StageMoves ==
    ASSUME NEW c \in Conns, NEW v, stage'[c] = v,
           \A d \in Conns \ {c} : pc'[d] = pc[d] /\ got'[d] = got[d]
    PROVE  stage' = [stage EXCEPT ![c] = v]
  BY DEF stage

\* Steps that the service does not see.
LEMMA ServiceStutters ==
    ASSUME UNCHANGED <<mode, host, backlog, closed, answer, company, up>>,
           acc' = "ended" <=> acc = "ended",
           guest' = guest,
           stage' = stage
    PROVE  UNCHANGED Service!vars
  <1>1. inline' = inline /\ detached' = detached /\ listening' = listening
    BY DEF inline, detached, listening
  <1> QED
    BY <1>1 DEF Service!vars, Service!server

\* Clients connect and hang up.
LEMMA ClientRefines ==
    ASSUME Inv, NEW c \in Conns, Connect(c) \/ HangUp(c)
    PROVE  Service!Next
  <1>1. UNCHANGED <<mode, host, acc, pc, got, answer, task, company, up>>
    BY DEF Connect, HangUp, config, service, script
  <1>2. /\ stage' = stage /\ inline' = inline /\ detached' = detached
        /\ listening' = listening /\ guest' = guest
    BY <1>1 DEF stage, inline, detached, listening, guest, Active
  <1>3. stage[c] = "out" <=> pc[c] = "none"
    BY StageFacts
  <1>4. CASE Connect(c)
    <2>1. Service!Connect(c)
      BY <1>1, <1>2, <1>3, <1>4
         DEF Connect, Known, kernel, Service!Connect, Service!Queued,
             Service!server, Service!running, listening
    <2> QED
      BY <2>1 DEF Service!Next
  <1>5. CASE HangUp(c)
    <2>1. Service!HangUp(c)
      BY <1>1, <1>2, <1>3, <1>5
         DEF HangUp, Known, kernel, Service!HangUp, Service!Queued,
             Service!server
    <2> QED
      BY <2>1 DEF Service!Next
  <1> QED
    BY <1>4, <1>5

\* The first that waits gets in; serve_static lets nobody else in before.
LEMMA AcceptRefines ==
    ASSUME Inv, NEW s \in Slots, Accept(s)
    PROVE  Service!Next
  <1>0. TypeOK
    BY DEF Inv
  <1>1. PICK c \in Conns : c = Head(backlog)
    BY <1>0 DEF Accept, TypeOK
  <1>2. /\ backlog # <<>> /\ backlog' = Tail(backlog)
        /\ acc = "accepting" /\ acc' # "ended"
        /\ UNCHANGED <<mode, host, closed, got, answer, task, up>>
        /\ up = "serving"
        /\ company' = company \union
              (IF InService \union {t \in Tasks : Active(t)} # {}
               THEN InService \union {c} ELSE {})
    BY <1>1 DEF Accept, Runs, config
  <1>3. PICK p \in {"spawned", "reading"} : pc' = [pc EXCEPT ![c] = p]
    BY <1>1 DEF Accept
  <1>4. pc[c] = "none" /\ got[c] = 0
    BY <1>0, <1>1, <1>2 DEF TypeOK, Inv, BacklogSound, ServiceSound
  <1>5. pc'[c] = p /\ \A d \in Conns \ {c} : pc'[d] = pc[d]
    BY <1>0, <1>3 DEF TypeOK
  <1>6. stage' = [stage EXCEPT ![c] = "open"]
    <2>1. stage'[c] = "open"
      BY <1>2, <1>4, <1>5 DEF stage
    <2> QED
      BY <1>2, <1>5, <2>1, StageMoves
  <1>7. stage[c] = "out"
    BY <1>4, StageFacts
  <1>8. inline => Service!InService = {}
    BY <1>2, SameInService DEF inline, InService, Inv, OneByOne
  <1>9. /\ inline' = inline /\ detached' = detached /\ guest' = guest
        /\ listening /\ listening' = listening
    BY <1>2 DEF inline, detached, guest, Active, listening
  <1>10. company' = company \union
             (IF guest \/ Service!InService # {} THEN Service!InService \union {c} ELSE {})
    BY <1>2, SameInService DEF guest
  <1>11. Service!LetIn(c)
    BY <1>1, <1>2, <1>6, <1>7, <1>8, <1>9, <1>10
       DEF Service!LetIn, Service!server, Service!running
  <1> QED
    BY <1>11 DEF Service!Next

\* The accept loop ends only when it is not serving a client itself, and then
\* the task that called serve, if any, goes on.
LEMMA AcceptFailsRefines ==
    ASSUME Inv, HostWaits, AcceptFails
    PROVE  Service!Next
  <1>1. /\ acc = "accepting" /\ acc' = "ended" /\ up = "serving"
        /\ backlog' = <<>>
        /\ UNCHANGED <<mode, host, closed, pc, got, answer, task, up>>
        /\ company' = IF host = Main THEN company ELSE company \union InService
    BY DEF AcceptFails, Runs, config, service
  <1>2. inline => Service!InService = {}
    BY <1>1, SameInService DEF inline, InService, Inv, OneByOne
  <1>3. /\ inline' = inline /\ detached' = detached /\ stage' = stage
        /\ listening /\ listening' = FALSE
    BY <1>1 DEF inline, detached, stage, listening
  <1>4. guest' = (guest \/ detached)
    <2>1. CASE host = Main
      BY <1>1, <2>1, ConstantFacts DEF guest, Active, detached
    <2>2. CASE host # Main
      <3>1. host \in Tasks /\ task[host] = "running"
        BY <1>1, <2>2 DEF Inv, TypeOK, HostWaits
      <3>2. Active(host)'
        BY <1>1, <3>1 DEF Active
      <3> QED
        BY <1>1, <2>2, <3>1, <3>2 DEF guest, detached
    <2> QED
      BY <2>1, <2>2
  <1>5. company' = IF detached THEN company \union Service!InService ELSE company
    BY <1>1, SameInService DEF detached
  <1>6. Service!StopListening
    BY <1>1, <1>2, <1>3, <1>4, <1>5
       DEF Service!StopListening, Service!server, Service!running
  <1> QED
    BY <1>6 DEF Service!Next

\* What the service sees no change of in any step of a connection's task.
LEMMA ConnStepSeen ==
    ASSUME Inv, NEW c \in Conns, ConnStep(c)
    PROVE  /\ up = "serving" /\ InProgress(c)
           /\ UNCHANGED <<mode, host, backlog, closed, company, up>>
           /\ acc' = "ended" <=> acc = "ended"
           /\ inline' = inline /\ detached' = detached
           /\ listening' = listening /\ guest' = guest
           /\ \A d \in Conns \ {c} : pc'[d] = pc[d] /\ got'[d] = got[d]
  BY ConnStepKeeps DEF OfOne, inline, detached, listening, guest, Active

\* Receiving is seen when it completes the header.
LEMMA ReceiveRefines ==
    ASSUME Inv, NEW c \in Conns, NEW level \in Levels, Receive(c, level)
    PROVE  [Service!Next]_(Service!vars)
  <1>0. TypeOK
    BY DEF Inv
  <1>1. ConnStep(c) /\ answer' = answer
    BY DEF ConnStep, Receive
  <1>2. /\ got' = [got EXCEPT ![c] = level]
        /\ level \in {1, 2} /\ got[c] \in {0, 1}
    BY <1>0 DEF Receive, TypeOK, Inv, ServiceSound, Levels
  <1>3. got'[c] = level /\ pc'[c] \in {"reading", "handling", "sending"}
    BY <1>0, <1>2 DEF Receive, RequestRead, TypeOK
  <1>4. stage'[c] = "read"
    BY <1>2, <1>3 DEF stage
  <1>5. stage' = [stage EXCEPT ![c] = "read"]
    BY <1>1, <1>4, ConnStepSeen, StageMoves
  <1>6. CASE got[c] = 0
    <2>1. stage[c] = "open"
      BY <1>1, <1>6, ConnStepSeen, StageFacts
    <2>2. Service!Read(c)
      BY <1>1, <1>5, <2>1, ConnStepSeen
         DEF Service!Read, Service!server, Service!running
    <2> QED
      BY <2>2 DEF Service!Next
  <1>7. CASE got[c] = 1
    <2>1. stage[c] = "read"
      BY <1>1, <1>7, ConnStepSeen, StageFacts
    <2>2. stage' = stage
      BY <1>5, <2>1 DEF stage
    <2> QED
      BY <1>1, <2>2, ConnStepSeen, ServiceStutters
  <1> QED
    BY <1>2, <1>6, <1>7

\* A task that begins, and going on to the handler and back, are not seen.
LEMMA GoOnRefines ==
    ASSUME Inv, NEW c \in Conns,
           ConnBegins(c) \/ HandlerEnds(c) \/ (ReceiveEnds(c) /\ got[c] = 1)
    PROVE  UNCHANGED Service!vars
  <1>0. TypeOK
    BY DEF Inv
  <1>1. ConnStep(c) /\ answer' = answer /\ got' = got
    BY DEF ConnStep, Serve, ConnBegins, HandlerEnds, ReceiveEnds
  <1>2. /\ pc'[c] \in {"reading", "handling", "sending"}
        /\ pc[c] \in {"spawned", "reading", "handling", "sending"}
    BY <1>0 DEF ConnBegins, HandlerEnds, ReceiveEnds, RequestRead, TypeOK
  <1>3. stage' = stage
    BY <1>1, <1>2, ConnStepSeen DEF stage
  <1> QED
    BY <1>1, <1>3, ConnStepSeen, ServiceStutters

\* A service ends without an answer only before the header has been read, or
\* when the client has hung up.
LEMMA DropRefines ==
    ASSUME Inv, NEW c \in Conns,
           \/ Reject(c) \/ SendFails(c)
           \/ ReceiveEnds(c) /\ got[c] # 1
    PROVE  Service!Next
  <1>0. TypeOK
    BY DEF Inv
  <1>1. ConnStep(c)
    BY DEF ConnStep, Serve
  <1>2. /\ pc' = [pc EXCEPT ![c] = "done"] /\ answer' = answer
        /\ up = "serving" /\ InProgress(c)
    BY DEF Reject, SendFails, ReceiveEnds, End, Runs, InProgress
  <1>3. stage' = [stage EXCEPT ![c] = "closed"]
    <2>1. pc'[c] = "done"
      BY <1>0, <1>2 DEF TypeOK
    <2>2. stage'[c] = "closed"
      BY <2>1 DEF stage
    <2> QED
      BY <1>1, <2>2, ConnStepSeen, StageMoves
  <1>4. got[c] \in {1, 2} => closed[c]
    BY <1>0, <1>2, OwnSocket
       DEF Reject, SendFails, ReceiveEnds, Inv, ServiceSound
  <1>5. stage[c] = "open" \/ (stage[c] = "read" /\ closed[c])
    <2>1. got[c] = 0 \/ got[c] \in {1, 2}
      BY <1>0 DEF TypeOK, Levels
    <2> QED
      BY <1>2, <1>4, <2>1, StageFacts
  <1>6. Service!Drop(c)
    BY <1>1, <1>2, <1>3, <1>5, ConnStepSeen
       DEF Service!Drop, Service!server, Service!running
  <1> QED
    BY <1>6 DEF Service!Next

\* An answer goes to the client whose request was read, and is its only one.
LEMMA AnswerRefines ==
    ASSUME Inv, NEW c \in Conns, SendAll(c)
    PROVE  Service!Next
  <1>0. TypeOK
    BY DEF Inv
  <1>1. /\ ConnStep(c) /\ pc' = [pc EXCEPT ![c] = "done"] /\ pc[c] = "sending"
        /\ up = "serving" /\ InProgress(c)
    BY DEF ConnStep, SendAll, End, Runs, InProgress
  <1>2. got[c] \in {1, 2} /\ answer[c] = {} /\ from[c] = {c}
    BY <1>1 DEF Inv, AnswerLast, ServiceSound
  <1>3. answer' = [answer EXCEPT ![c] = {c}]
    <2>1. answer' = [answer EXCEPT ![c] = @ \union from[c]]
      BY <1>1, OwnSocket DEF SendAll
    <2> QED
      BY <1>2, <2>1
  <1>4. stage' = [stage EXCEPT ![c] = "closed"]
    <2>1. pc'[c] = "done"
      BY <1>0, <1>1 DEF TypeOK
    <2>2. stage'[c] = "closed"
      BY <2>1 DEF stage
    <2> QED
      BY <1>1, <2>2, ConnStepSeen, StageMoves
  <1>5. stage[c] = "read"
    BY <1>1, <1>2, StageFacts
  <1>6. Service!Answer(c)
    BY <1>1, <1>2, <1>3, <1>4, <1>5, ConnStepSeen
       DEF Service!Answer, Service!server, Service!running
  <1> QED
    BY <1>6 DEF Service!Next

\* Tasks of the script come and go; while one is there its errors may go
\* astray, and those of handlers that have had company.
LEMMA ScriptRefines ==
    ASSUME Inv, HostWaits, Alone,
           \/ \E t \in Tasks : TaskBegins(t) \/ TaskEnds(t) \/ TaskCrashes(t)
           \/ \E c \in Conns : Derails(c)
    PROVE  [Service!Next]_(Service!vars)
  <1>0. TypeOK
    BY DEF Inv
  <1>1. /\ UNCHANGED <<mode, host, backlog, closed, acc, pc, got, answer>>
        /\ up = "serving"
    BY DEF TaskBegins, TaskEnds, TaskCrashes, Derails, Runs, config, kernel,
           service
  <1>2. /\ inline' = inline /\ detached' = detached /\ stage' = stage
        /\ listening' = listening
    BY <1>1 DEF inline, detached, stage, listening
  <1>3. ASSUME NEW t \in Tasks, TaskBegins(t)
        PROVE  [Service!Next]_(Service!vars)
    <2>1. guest'
      <3>1. t # host /\ task' = [task EXCEPT ![t] = "running"]
        BY <1>3 DEF TaskBegins, HostWaits
      <3>2. Active(t)'
        BY <1>0, <1>1, <3>1 DEF Active, TypeOK
      <3> QED
        BY <3>2 DEF guest
    <2>2. company' = company \union Service!InService /\ up' = up
      BY <1>3, SameInService DEF TaskBegins
    <2>3. Service!GuestComes
      BY <1>1, <1>2, <2>1, <2>2
         DEF Service!GuestComes, Service!server, Service!running, guest
    <2> QED
      BY <2>3 DEF Service!Next
  <1>4. ASSUME NEW t \in Tasks, TaskEnds(t)
        PROVE  [Service!Next]_(Service!vars)
    <2>1. company' = company /\ up' = up /\ guest
      BY <1>4 DEF TaskEnds, guest
    <2>2. CASE guest'
      <3>1. guest' = guest
        BY <2>1, <2>2 DEF guest
      <3> QED
        BY <1>1, <1>2, <2>1, <3>1, ServiceStutters
    <2>3. CASE ~guest'
      <3>1. guest' = FALSE
        BY <2>3 DEF guest
      <3>2. Service!GuestGoes
        BY <1>1, <1>2, <2>1, <3>1
           DEF Service!GuestGoes, Service!server, Service!running
      <3> QED
        BY <3>2 DEF Service!Next
    <2> QED
      BY <2>2, <2>3
  <1>5. ASSUME NEW t \in Tasks, TaskCrashes(t)
        PROVE  [Service!Next]_(Service!vars)
    <2>1. /\ UNCHANGED <<task, company>> /\ up' = "crashed" /\ guest
      BY <1>5 DEF TaskCrashes, script, guest
    <2>2. guest' = guest
      BY <1>1, <2>1 DEF guest, Active
    <2>3. Service!Crash
      BY <1>1, <1>2, <2>1, <2>2
         DEF Service!Crash, Service!server, Service!running
    <2> QED
      BY <2>3 DEF Service!Next
  <1>6. ASSUME NEW c \in Conns, Derails(c)
        PROVE  [Service!Next]_(Service!vars)
    <2>1. /\ UNCHANGED <<task, company>> /\ up' = "derailed"
          /\ pc[c] = "handling" /\ InProgress(c)
          /\ barrier # c \/ Others(c) # {}
      BY <1>6 DEF Derails, script, InProgress
    <2>2. guest' = guest
      BY <1>1, <2>1 DEF guest, Active
    <2>3. c \in company
      BY <2>1, ConstantFacts DEF Alone, Others, InProgress
    <2>4. stage[c] = "read"
      BY <2>1, StageFacts DEF Inv, AnswerLast
    <2>5. Service!Derail(c)
      BY <1>1, <1>2, <2>1, <2>2, <2>3, <2>4
         DEF Service!Derail, Service!server, Service!running
    <2> QED
      BY <2>5 DEF Service!Next
  <1> QED
    BY <1>3, <1>4, <1>5, <1>6

\* The server stops under nobody it serves, unless its one client is served by
\* an accept loop for which the program does not wait.
LEMMA StopRefines ==
    ASSUME Inv, ServeReturns \/ Exit
    PROVE  Service!Next
  <1>1. /\ up = "serving" /\ up' \in {"returned", "exited"} /\ ~TasksPending
        /\ UNCHANGED <<mode, host, backlog, closed, acc, pc, got, answer, task,
                       company>>
    BY DEF ServeReturns, Exit, config, kernel, service, script
  <1>2. /\ inline' = inline /\ detached' = detached /\ stage' = stage
        /\ listening' = listening /\ guest' = guest
    BY <1>1 DEF inline, detached, stage, listening, guest, Active
  <1>3. listening \/ guest => detached
    <2>1. CASE host # Main
      BY <2>1 DEF detached
    <2>2. CASE host = Main
      <3>1. acc = "ended"
        BY <2>2 DEF ServeReturns, Exit
      <3>2. ~guest
        BY <1>1, <2>2, ConstantFacts DEF guest, Active, TasksPending
      <3> QED
        BY <3>1, <3>2 DEF listening
    <2> QED
      BY <2>1, <2>2
  <1>4. Service!InService = {} \/ (inline /\ detached)
    <2>1. CASE mode = "handler"
      BY <1>1, <2>1, SameInService DEF TasksPending
    <2>2. CASE mode = "static" /\ ServeReturns
      <3>1. InService = {}
        BY <2>2 DEF ServeReturns, InService, Inv, OneByOne
      <3> QED
        BY <3>1, SameInService
    <2>3. CASE mode = "static" /\ Exit
      BY <2>3 DEF Exit, inline, detached
    <2> QED
      BY <2>1, <2>2, <2>3 DEF Inv, TypeOK
  <1>5. Service!Stop
    BY <1>1, <1>2, <1>3, <1>4 DEF Service!Stop, Service!server, Service!running
  <1> QED
    BY <1>5 DEF Service!Next

\* Every step is one of the service, or changes nothing it sees.
LEMMA NextRefines ==
    Inv /\ HostWaits /\ Alone /\ [Next]_vars => [Service!Next]_(Service!vars)
  <1> SUFFICES ASSUME Inv, HostWaits, Alone, [Next]_vars
               PROVE  [Service!Next]_(Service!vars)
    OBVIOUS
  <1>1. ASSUME NEW c \in Conns, Client(c)
        PROVE  [Service!Next]_(Service!vars)
    BY <1>1, ClientRefines, ReceiveRefines DEF Client
  <1>2. ASSUME NEW c \in Conns, Serve(c) \/ Reject(c) \/ SendAll(c)
        PROVE  [Service!Next]_(Service!vars)
    BY <1>2, GoOnRefines, DropRefines, AnswerRefines DEF Serve
  <1>3. CASE \/ \E s \in Slots : Accept(s)
             \/ AcceptFails
    BY <1>3, AcceptRefines, AcceptFailsRefines
  <1>4. CASE ServeReturns \/ Exit
    BY <1>4, StopRefines
  <1>5. CASE \/ \E t \in Tasks : TaskBegins(t) \/ TaskEnds(t) \/ TaskCrashes(t)
             \/ \E c \in Conns : Derails(c)
    BY <1>5, ScriptRefines
  <1>6. CASE \/ \E x \in Bodies : WaitsAgain(x)
             \/ \E s \in Slots : ScriptSocket(s)
             \/ LoopBegins \/ UNCHANGED vars
    <2>1. /\ UNCHANGED <<mode, host, backlog, closed, pc, got, answer, task,
                         company, up>>
          /\ acc' = "ended" <=> acc = "ended"
      BY <1>6 DEF WaitsAgain, ScriptSocket, LoopBegins, vars, config, kernel,
                  service, script
    <2>2. stage' = stage /\ guest' = guest
      BY <2>1 DEF stage, guest, Active
    <2> QED
      BY <2>1, <2>2, ServiceStutters
  <1> QED
    BY <1>1, <1>2, <1>3, <1>4, <1>5, <1>6 DEF Next, AcceptLoop

\* myon.http.serve and serve_static implement the service of module
\* HttpService, for any number of clients and other tasks and any size of the
\* socket table: clients are let in in order, whoever's header was read gets
\* the one response to its own request unless it hangs up, the error of a
\* handler that has had no company is answered to its own client, although
\* all bodies share one barrier, and the server does not end under a
\* connection task (http_accept_loop_entry, http_conn_task_entry,
\* http_serve_static_conn, http_run_server).
THEOREM Implements_Service == Spec => ImplementsService
  <1>1. Init => Service!Init
    BY ConstantFacts DEF Init, Service!Init, inline, detached, stage,
                         listening, guest, Active
  <1>2. Init => Inv /\ HostWaits /\ Alone
    BY InitInv, InitAlone
  <1>3. Inv /\ HostWaits /\ Alone /\ [Next]_vars => (Inv /\ HostWaits /\ Alone)'
    BY NextInv, NextHostWaits, NextAlone
  <1>4. Inv /\ HostWaits /\ Alone /\ [Next]_vars => [Service!Next]_(Service!vars)
    BY NextRefines
  <1> QED
    BY <1>1, <1>2, <1>3, <1>4, PTL DEF Spec, ImplementsService, Service!Spec
=============================================================================
