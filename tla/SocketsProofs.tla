---------------------------- MODULE SocketsProofs ----------------------------
(***************************************************************************)
(* Proofs about the socket table under the built-ins (module Sockets), for *)
(* any number of coroutines, slots and descriptors, and whatever built-ins *)
(* each calls.                                                             *)
(*                                                                         *)
(* Slots and open descriptors correspond one to one (TablesSound).  What a *)
(* try of an operation does to the tables is summed up by Grows: it never  *)
(* frees a slot, and it touches the socket of its own index only.  So the  *)
(* socket a call waits for stays in its slot until someone closes that     *)
(* slot, and the call is marked when that happens.                         *)
(***************************************************************************)
EXTENDS Sockets, FiniteSetTheorems, WellFoundedInduction, TLAPS

-----------------------------------------------------------------------------
\* The invariant

\* A descriptor is open exactly when one slot holds it; a slot in use, and
\* only that, has an owner.
TablesSound(F, K, O) ==
  /\ F \in [Ids -> Fds \cup {NoFd}]
  /\ K \in [Fds -> LiveSocks \cup {Closed}]
  /\ O \in [Ids -> Actors \cup {"none", "script"}]
  /\ \A i, j \in Ids : F[i] = F[j] /\ F[i] # NoFd => i = j
  /\ \A f \in Fds : K[f] # Closed <=> \E i \in Ids : F[i] = f
  /\ \A i \in Ids : O[i] = "none" <=> F[i] = NoFd

\* Where an actor may be in a call (TypeOK)
WaitStates == {"no", "waiting", "blocking", "retry", "ready", "running"}

\* An actor is in a call exactly while it waits or has control in a request,
\* and in a phase of that call.
CallSound(a) ==
  /\ wait[a] = "no" <=> call[a] = Idle
  /\ call[a].op = "none" => call[a] = Idle
  /\ call[a].op \in Waits =>
       /\ wait[a] \in {"waiting", "blocking", "retry", "ready"}
       /\ call[a].phase = IF call[a].op = "connect" THEN "check" ELSE call[a].op
  /\ call[a].op = "request" =>
       call[a].phase \in {"connect", "check", "send", "recv", "close"}

\* The socket of a call stays in its slot until someone closes the slot.
KeepsSocket(a) ==
  call[a] # Idle /\ "cut" \notin call[a].marks =>
    ValidId(call[a].id) /\ fds[call[a].id] = call[a].fd

\* A connect that nothing has disturbed is alone on its index; its attempt
\* goes on or has ended, and has ended once it is woken, or its own select()
\* has returned.
Undisturbed(a) == call[a].op = "connect" /\ call[a].marks = {}
Alone(a) ==
  Undisturbed(a) =>
    /\ kernel[call[a].fd].mode \in {"connecting", "connected", "failed"}
    /\ wait[a] \in {"ready", "retry"} => kernel[call[a].fd].mode # "connecting"
    /\ \A b \in Actors \ {a} : ~On(b, call[a].id)

\* A slot that a request opened is the one that request names.
OwnersSound ==
  \A id \in Ids :
    owner[id] \in Actors => call[owner[id]].op = "request" /\ call[owner[id]].id = id

Inv ==
  /\ TypeOK
  /\ TablesSound(fds, kernel, owner)
  /\ \A a \in Actors : CallSound(a) /\ KeepsSocket(a) /\ Alone(a)
  /\ OwnersSound
  /\ ConnectMeansConnected

-----------------------------------------------------------------------------
\* Facts about the operators of the model

\* The constants are what SocketsAssumption says, and a live socket is open.
LEMMA ConstantFacts ==
  /\ 0 \in Ids /\ Ids \subseteq Nat /\ Fds \subseteq Nat
  /\ NoFd \notin Fds
  /\ "none" \notin Actors /\ "script" \notin Actors
  /\ Main \in Actors /\ Tasks \subseteq Actors /\ Main \notin Tasks
  /\ Closed \notin LiveSocks
  BY SocketsAssumption DEF Ids, Fds, Actors, Closed, Sock, LiveSocks, Kinds, Modes

\* A set of natural numbers that is not empty has a least element, Min.
LEMMA MinFacts ==
  ASSUME NEW S \in SUBSET Nat, S # {}
  PROVE  Min(S) \in S
  <1>1. PICK m \in S : \A k \in S : ~(<<k, m>> \in OpToRel(<, Nat))
    BY NatLessThanWellFounded, WFMin
  <1>2. \A k \in S : ~(k < m)
    BY <1>1 DEF OpToRel
  <1>3. \A k \in S : m <= k
    BY <1>2
  <1> QED
    BY <1>3 DEF Min

\* What a try may come to
Tries ==
  [out : {"ok", "error", "block", "end"}, fds : [Ids -> Fds \cup {NoFd}],
   kernel : [Fds -> LiveSocks \cup {Closed}], owner : [Ids -> Actors \cup {"none", "script"}]]

\* r is what a try on index id leaves: slots may be added for by, but none is
\* taken away, and only the socket in slot id has changed.
Grows(r, id, by) ==
  /\ r \in Tries
  /\ TablesSound(r.fds, r.kernel, r.owner)
  /\ \A i \in Ids : fds[i] # NoFd => r.fds[i] = fds[i] /\ r.owner[i] = owner[i]
  /\ \A i \in Ids : fds[i] = NoFd /\ r.fds[i] # NoFd => r.owner[i] = by
  /\ \A i \in Ids \ {id} : fds[i] # NoFd => r.kernel[fds[i]] = kernel[fds[i]]

\* A try that leaves the tables alone grows nothing.
LEMMA LeavesGrows ==
  ASSUME TypeOK, TablesSound(fds, kernel, owner),
         NEW out \in {"ok", "error", "block", "end"}, NEW id, NEW by
  PROVE  /\ Grows(Leaves(out), id, by)
         /\ Leaves(out).out = out
         /\ Leaves(out).fds = fds /\ Leaves(out).kernel = kernel
         /\ Leaves(out).owner = owner
  BY DEF Leaves, Grows, Tries, TypeOK

\* A try that puts a live socket into its own slot grows nothing.
LEMMA PutsGrows ==
  ASSUME TypeOK, TablesSound(fds, kernel, owner),
         NEW out \in {"ok", "error", "block", "end"}, NEW id, ValidId(id),
         NEW sock \in LiveSocks, NEW by
  PROVE  /\ Grows(Puts(out, fds[id], sock), id, by)
         /\ Puts(out, fds[id], sock).out = out
         /\ Puts(out, fds[id], sock).fds = fds
         /\ Puts(out, fds[id], sock).owner = owner
         /\ Puts(out, fds[id], sock).kernel = [kernel EXCEPT ![fds[id]] = sock]
  <1> DEFINE r == Puts(out, fds[id], sock)
  <1>1. fds[id] \in Fds /\ id \in Ids
    BY DEF ValidId, TypeOK
  <1>2. /\ r.out = out /\ r.fds = fds /\ r.owner = owner
        /\ r.kernel = [kernel EXCEPT ![fds[id]] = sock]
        /\ r \in Tries
    BY <1>1 DEF Puts, Leaves, TypeOK, Tries
  <1> HIDE DEF r
  <1>3. TablesSound(r.fds, r.kernel, r.owner)
    BY <1>1, <1>2, ConstantFacts DEF TablesSound
  <1>4. \A i \in Ids \ {id} : fds[i] # NoFd => r.kernel[fds[i]] = kernel[fds[i]]
    BY <1>1, <1>2 DEF TablesSound, TypeOK
  <1>5. Grows(r, id, by)
    BY <1>2, <1>3, <1>4 DEF Grows
  <1> QED
    BY <1>2, <1>5 DEF r

\* A socket that the kernel has just made gets a free slot, if there is one.
LEMMA AllocGrows ==
  ASSUME TypeOK, TablesSound(fds, kernel, owner), FreeFds # {},
         NEW sock \in LiveSocks, NEW by \in Actors \cup {"script"},
         NEW id, NEW from, Grows(from, id, by), from.fds = fds
  PROVE  /\ Grows(Alloc(sock, by, from), id, by)
         /\ Alloc(sock, by, from).out = IF FreeSlots = {} THEN "error" ELSE from.out
         /\ FreeSlots = {} =>
              /\ Alloc(sock, by, from).fds = fds
              /\ Alloc(sock, by, from).owner = from.owner
         /\ FreeSlots # {} =>
              /\ Min(FreeSlots) \in FreeSlots
              /\ Alloc(sock, by, from).fds[Min(FreeSlots)] = Min(FreeFds)
              /\ Alloc(sock, by, from).owner = [from.owner EXCEPT ![Min(FreeSlots)] = by]
  <1> DEFINE f == Min(FreeFds)
             s == Min(FreeSlots)
             r == Alloc(sock, by, from)
  <1>1. from \in Tries /\ TablesSound(from.fds, from.kernel, from.owner)
    BY DEF Grows
  <1>2. CASE FreeSlots = {}
    <2>1. /\ r.out = "error" /\ r.fds = from.fds
          /\ r.kernel = from.kernel /\ r.owner = from.owner /\ r \in Tries
      BY <1>1, <1>2 DEF Alloc, Tries
    <2>2. Grows(r, id, by)
      BY <2>1 DEF Grows
    <2> QED
      BY <1>2, <2>1, <2>2
  <1>3. CASE FreeSlots # {}
    <2>1. f \in FreeFds /\ f \in Fds
      BY MinFacts, ConstantFacts DEF FreeFds
    <2>2. s \in FreeSlots /\ s \in Ids /\ fds[s] = NoFd
      BY <1>3, MinFacts, ConstantFacts DEF FreeSlots
    <2>3. r = [from EXCEPT !.kernel[f] = sock, !.fds[s] = f, !.owner[s] = by]
      BY <1>3 DEF Alloc
    <2> HIDE DEF f, s, r
    <2>4. /\ r.out = from.out
          /\ r.fds = [from.fds EXCEPT ![s] = f]
          /\ r.kernel = [from.kernel EXCEPT ![f] = sock]
          /\ r.owner = [from.owner EXCEPT ![s] = by]
          /\ r \in Tries
      BY <1>1, <2>1, <2>2, <2>3 DEF Tries
    <2>5. from.kernel[f] = Closed /\ \A i \in Ids : fds[i] # f
      BY <1>1, <2>1 DEF FreeFds, Open, TablesSound
    <2>6. TablesSound(r.fds, r.kernel, r.owner)
      BY <1>1, <2>1, <2>2, <2>4, <2>5, ConstantFacts DEF TablesSound
    <2>7. Grows(r, id, by)
      BY <1>1, <2>1, <2>2, <2>4, <2>5, <2>6 DEF Grows, TablesSound
    <2> QED
      BY <1>1, <1>3, <2>1, <2>2, <2>4, <2>7 DEF f, s, r, Tries
  <1> QED
    BY <1>2, <1>3
\* socket() for a script or a request grows the tables by one slot or fails.
LEMMA CreateGrows ==
  ASSUME TypeOK, TablesSound(fds, kernel, owner),
         NEW kind \in Kinds, NEW by \in Actors \cup {"script"}, NEW id,
         NEW r, r = Create(kind, by)
  PROVE  /\ Grows(r, id, by)
         /\ r.out \in {"ok", "error"}
         /\ r.out = "error" => r.fds = fds /\ r.owner = owner
         /\ r.out = "ok" =>
              /\ Min(FreeSlots) \in FreeSlots /\ Min(FreeFds) \in Fds
              /\ r.fds[Min(FreeSlots)] = Min(FreeFds)
              /\ r.owner = [owner EXCEPT ![Min(FreeSlots)] = by]
  <1>1. CASE FreeFds = {}
    <2>1. Create(kind, by) = Leaves("error")
      BY <1>1 DEF Create
    <2> QED
      BY <2>1, LeavesGrows
  <1>2. CASE FreeFds # {}
    <2>1. Create(kind, by) = Alloc(Sock(kind, "fresh"), by, Leaves("ok"))
      BY <1>2 DEF Create
    <2>2. Sock(kind, "fresh") \in LiveSocks
      BY DEF Sock, LiveSocks, Modes
    <2>3. /\ Grows(Leaves("ok"), id, by)
          /\ Leaves("ok").out = "ok"
          /\ Leaves("ok").fds = fds /\ Leaves("ok").owner = owner
      BY LeavesGrows
    <2>4. Min(FreeFds) \in Fds
      BY <1>2, MinFacts, ConstantFacts DEF FreeFds
    <2> QED
      BY <1>2, <2>1, <2>2, <2>3, <2>4, AllocGrows
  <1> QED
    BY <1>1, <1>2

\* The socket of a valid index is live, and its descriptor is one.
LEMMA ValidFacts ==
  ASSUME TypeOK, TablesSound(fds, kernel, owner), NEW id, ValidId(id)
  PROVE  id \in Ids /\ fds[id] \in Fds /\ kernel[fds[id]] \in LiveSocks
  <1>1. id \in Ids /\ fds[id] \in Fds
    BY DEF ValidId, TypeOK
  <1> QED
    BY <1>1 DEF TypeOK, TablesSound

\* An accept that does not block takes a connection from its listener and
\* gives it a slot, if there is one.
LEMMA AcceptGrows ==
  ASSUME TypeOK, TablesSound(fds, kernel, owner), NEW id, NEW r \in TryAccept(id)
  PROVE  /\ Grows(r, id, "script")
         /\ r.out = "block" => ValidId(id) /\ r.fds = fds
  <1>1. CASE r \in {Leaves("error"), Leaves("block")}
    <2>1. Leaves("block") \in TryAccept(id) => ValidId(id)
      <3>1. CASE ~ValidId(id)
        <4>1. TryAccept(id) = {Leaves("error")}
          BY <3>1 DEF TryAccept
        <4>2. Leaves("error").out # Leaves("block").out
          BY LeavesGrows
        <4> QED
          BY <4>1, <4>2
      <3> QED
        BY <3>1
    <2> QED
      BY <1>1, <2>1, LeavesGrows
  <1>2. CASE r \notin {Leaves("error"), Leaves("block")}
    <2> DEFINE from == Puts("ok", fds[id], Sock("tcp", "listening"))
    <2>1. /\ ValidId(id) /\ FreeFds # {}
          /\ r = Alloc(Sock("tcp", "connected"), "script", from)
      BY <1>2 DEF TryAccept
    <2>2. /\ Sock("tcp", "listening") \in LiveSocks
          /\ Sock("tcp", "connected") \in LiveSocks
      BY DEF Sock, LiveSocks, Kinds, Modes
    <2>3. /\ Grows(from, id, "script") /\ from.fds = fds /\ from.out = "ok"
          /\ from.kernel = [kernel EXCEPT ![fds[id]] = Sock("tcp", "listening")]
      BY <2>1, <2>2, PutsGrows
    <2> HIDE DEF from
    <2>4. /\ Grows(r, id, "script")
          /\ r.out = IF FreeSlots = {} THEN "error" ELSE "ok"
          /\ FreeSlots # {} =>
               r.owner = [from.owner EXCEPT ![Min(FreeSlots)] = "script"]
      BY <2>1, <2>2, <2>3, AllocGrows
    <2> QED
      BY <2>4
  <1> QED
    BY <1>1, <1>2

\* An attempt to connect goes on, has ended well, or fails.
LEMMA ConnectGrows ==
  ASSUME TypeOK, TablesSound(fds, kernel, owner), NEW id, NEW r \in TryConnect(id)
  PROVE  /\ Grows(r, id, "script")
         /\ r.fds = fds /\ r.owner = owner
         /\ r.out \in {"ok", "error", "block"}
         /\ r.out = "block" =>
              ValidId(id) /\ r.kernel[fds[id]].mode = "connecting"
         /\ r.out = "ok" =>
              ValidId(id) /\ r.kernel[fds[id]].mode = "connected"
  <1> DEFINE f == fds[id]
             kind == kernel[f].kind
  <1>1. CASE r = Leaves("error")
    BY <1>1, LeavesGrows
  <1>2. CASE r # Leaves("error")
    <2>1. ValidId(id)
      BY <1>2 DEF TryConnect
    <2>2. f \in Fds /\ kernel[f] \in LiveSocks /\ kind \in Kinds
      BY <2>1, ValidFacts DEF LiveSocks
    <2>3. \/ r = Leaves("block") /\ kernel[f].mode = "connecting"
          \/ r = Puts("error", f, Sock(kind, "dead"))
          \/ r = Puts("ok", f, Sock(kind, "connected"))
          \/ r = Puts("block", f, Sock(kind, "connecting"))
      BY <1>2, <2>1 DEF TryConnect
    <2>4. \A mode \in Modes :
            Sock(kind, mode) \in LiveSocks /\ Sock(kind, mode).mode = mode
      BY <2>2 DEF Sock, LiveSocks
    <2>5. {"dead", "connected", "connecting"} \subseteq Modes
      BY DEF Modes
    <2> HIDE DEF kind
    <2>6. CASE r = Leaves("block") /\ kernel[f].mode = "connecting"
      BY <2>1, <2>6, LeavesGrows
    <2>7. CASE r = Puts("error", f, Sock(kind, "dead"))
      <3>1. /\ Grows(r, id, "script") /\ r.out = "error"
            /\ r.fds = fds /\ r.owner = owner
            /\ r.kernel = [kernel EXCEPT ![f] = Sock(kind, "dead")]
        BY <2>1, <2>4, <2>5, <2>7, PutsGrows
      <3> QED
        BY <3>1
    <2>8. CASE r = Puts("ok", f, Sock(kind, "connected"))
      <3>1. /\ Grows(r, id, "script") /\ r.out = "ok"
            /\ r.fds = fds /\ r.owner = owner
            /\ r.kernel = [kernel EXCEPT ![f] = Sock(kind, "connected")]
        BY <2>1, <2>4, <2>5, <2>8, PutsGrows
      <3> QED
        BY <2>1, <2>2, <2>4, <2>5, <3>1 DEF TypeOK
    <2>9. CASE r = Puts("block", f, Sock(kind, "connecting"))
      <3>1. /\ Grows(r, id, "script") /\ r.out = "block"
            /\ r.fds = fds /\ r.owner = owner
            /\ r.kernel = [kernel EXCEPT ![f] = Sock(kind, "connecting")]
        BY <2>1, <2>4, <2>5, <2>9, PutsGrows
      <3> QED
        BY <2>1, <2>2, <2>4, <2>5, <3>1 DEF TypeOK
    <2> QED
      BY <2>3, <2>6, <2>7, <2>8, <2>9
  <1> QED
    BY <1>1, <1>2

\* The check after the wait never blocks, and finds an attempt that has not
\* failed.
LEMMA CheckGrows ==
  ASSUME TypeOK, TablesSound(fds, kernel, owner), NEW id, NEW r \in CheckConnect(id)
  PROVE  /\ Grows(r, id, "script")
         /\ r.fds = fds /\ r.owner = owner
         /\ r.out \in {"ok", "error"}
         /\ r.out = "ok" =>
              /\ ValidId(id) /\ r.kernel = kernel
              /\ kernel[fds[id]].mode # "failed"
  <1>1. CASE ~ValidId(id)
    <2>1. r = Leaves("error")
      BY <1>1 DEF CheckConnect
    <2> QED
      BY <2>1, LeavesGrows
  <1>2. CASE ValidId(id) /\ kernel[fds[id]].mode = "failed"
    <2>1. r = Puts("error", fds[id], Sock(kernel[fds[id]].kind, "dead"))
      BY <1>2 DEF CheckConnect
    <2>2. kernel[fds[id]].kind \in Kinds
      BY <1>2, ValidFacts DEF LiveSocks
    <2>3. Sock(kernel[fds[id]].kind, "dead") \in LiveSocks
      BY <2>2 DEF Sock, LiveSocks, Modes
    <2> QED
      <3>1. /\ Grows(r, id, "script") /\ r.out = "error"
            /\ r.fds = fds /\ r.owner = owner
            /\ r.kernel = [kernel EXCEPT ![fds[id]] = Sock(kernel[fds[id]].kind, "dead")]
        BY <1>2, <2>1, <2>3, PutsGrows
      <3> QED
        BY <3>1
  <1>3. CASE ValidId(id) /\ kernel[fds[id]].mode # "failed"
    <2>1. r = Leaves("ok")
      BY <1>3 DEF CheckConnect
    <2> QED
      BY <1>3, <2>1, LeavesGrows
  <1> QED
    BY <1>1, <1>2, <1>3

\* Sending and receiving change no slot.
LEMMA TransferGrows ==
  ASSUME TypeOK, TablesSound(fds, kernel, owner), NEW id,
         NEW r \in TrySend(id) \cup TryRecv(id)
  PROVE  /\ Grows(r, id, "script")
         /\ r.fds = fds /\ r.owner = owner
         /\ r.out = "block" => ValidId(id)
  <1>1. \/ r \in {Leaves("ok"), Leaves("error"), Leaves("end")}
        \/ ValidId(id) /\ r = Leaves("block")
        \/ ValidId(id) /\ r = Puts("ok", fds[id], [kernel[fds[id]] EXCEPT !.full = TRUE])
        \/ ValidId(id) /\ r = Puts("ok", fds[id], [kernel[fds[id]] EXCEPT !.queue = "empty"])
        \/ ValidId(id) /\ r = Puts("error", fds[id], Sock("tcp", "dead"))
    <2>1. ASSUME r \in TrySend(id)
          PROVE  \/ r \in {Leaves("ok"), Leaves("error")}
                 \/ ValidId(id) /\ r = Leaves("block")
                 \/ ValidId(id) /\ r = Puts("ok", fds[id], [kernel[fds[id]] EXCEPT !.full = TRUE])
      BY <2>1 DEF TrySend
    <2>2. ASSUME r \in TryRecv(id)
          PROVE  \/ r \in {Leaves("error"), Leaves("end")}
                 \/ ValidId(id) /\ r = Leaves("block")
                 \/ ValidId(id) /\ r = Puts("ok", fds[id], [kernel[fds[id]] EXCEPT !.queue = "empty"])
                 \/ ValidId(id) /\ r = Puts("error", fds[id], Sock("tcp", "dead"))
      BY <2>2 DEF TryRecv
    <2> QED
      BY <2>1, <2>2
  <1>2. ASSUME ValidId(id)
        PROVE  /\ [kernel[fds[id]] EXCEPT !.full = TRUE] \in LiveSocks
               /\ [kernel[fds[id]] EXCEPT !.queue = "empty"] \in LiveSocks
               /\ Sock("tcp", "dead") \in LiveSocks
    BY <1>2, ValidFacts DEF LiveSocks, Sock, Kinds, Modes
  <1>3. CASE r \in {Leaves("ok"), Leaves("error"), Leaves("end"), Leaves("block")}
    BY <1>1, <1>3, LeavesGrows
  <1>4. CASE ValidId(id) /\ \E out \in {"ok", "error"}, sock \in LiveSocks :
                              r = Puts(out, fds[id], sock)
    <2>1. PICK out \in {"ok", "error"}, sock \in LiveSocks :
              r = Puts(out, fds[id], sock)
      BY <1>4
    <2>2. out \in {"ok", "error", "block", "end"}
      OBVIOUS
    <2>3. /\ Grows(r, id, "script") /\ r.out = out /\ r.fds = fds /\ r.owner = owner
          /\ r.kernel = [kernel EXCEPT ![fds[id]] = sock]
      BY <1>4, <2>1, <2>2, PutsGrows
    <2> QED
      BY <2>3
  <1> QED
    BY <1>1, <1>2, <1>3, <1>4

\* Whatever a call tries, the tables only grow, and it blocks on a valid
\* index only.
LEMMA TryGrows ==
  ASSUME TypeOK, TablesSound(fds, kernel, owner), NEW c,
         c.phase \in Waits \cup {"check"}, NEW r \in Try(c)
  PROVE  /\ Grows(r, c.id, "script")
         /\ r.out = "block" =>
              ValidId(c.id) /\ r.fds = fds /\ c.phase # "check"
  <1>1. \/ c.phase = "accept" /\ r \in TryAccept(c.id)
        \/ c.phase = "connect" /\ r \in TryConnect(c.id)
        \/ c.phase = "check" /\ r \in CheckConnect(c.id)
        \/ c.phase \in {"send", "recv"} /\ r \in TrySend(c.id) \cup TryRecv(c.id)
    BY DEF Try, Waits
  <1> QED
    BY <1>1, AcceptGrows, ConnectGrows, CheckGrows, TransferGrows

-----------------------------------------------------------------------------
\* The initial states and the steps

\* All slots are free and nobody is in a call.
LEMMA InitInv == Init => Inv
  <1> SUFFICES ASSUME Init PROVE Inv
    OBVIOUS
  <1>1. Idle \in Calls /\ NoResult \in Results
    BY ConstantFacts DEF Idle, Calls, NoResult, Results
  <1>2. TypeOK
    BY <1>1 DEF Init, TypeOK
  <1>3. TablesSound(fds, kernel, owner)
    BY <1>2, ConstantFacts DEF Init, TablesSound, TypeOK
  <1>4. ASSUME NEW a \in Actors PROVE CallSound(a) /\ KeepsSocket(a) /\ Alone(a)
    BY DEF Init, CallSound, KeepsSocket, Alone, Undisturbed, Idle, Waits
  <1>5. OwnersSound /\ ConnectMeansConnected
    BY ConstantFacts DEF Init, OwnersSound, ConnectMeansConnected, NoResult
  <1> QED
    BY <1>2, <1>3, <1>4, <1>5 DEF Inv

\* A mark changes nothing else of a call, and only a connect gets one that
\* is not "cut".
LEMMA MarkedFacts ==
  ASSUME NEW c \in Calls, NEW mark \in {"cut", "shared", "failed"}
  PROVE  /\ Marked(c, mark) \in Calls
         /\ Marked(c, mark).op = c.op /\ Marked(c, mark).phase = c.phase
         /\ Marked(c, mark).id = c.id /\ Marked(c, mark).fd = c.fd
         /\ c.marks \subseteq Marked(c, mark).marks
         /\ mark = "cut" \/ c.op = "connect" => mark \in Marked(c, mark).marks
         /\ mark # "cut" /\ c.op # "connect" => Marked(c, mark) = c
  BY DEF Marked, Calls

\* A call that gets such a mark stays the call it was.
LEMMA SameCall ==
  ASSUME NEW c \in Calls, c.op = "none" => c = Idle,
         NEW mark \in {"shared", "failed"}, NEW d \in {c, Marked(c, mark)}
  PROVE  /\ d \in Calls
         /\ d.op = c.op /\ d.phase = c.phase /\ d.id = c.id /\ d.fd = c.fd
         /\ c.marks \subseteq d.marks
         /\ d.op = "connect" /\ d.marks = {} => d = c
         /\ d = Idle <=> c = Idle
         /\ "cut" \in d.marks => "cut" \in c.marks
  <1>1. mark \in {"cut", "shared", "failed"} /\ mark # "cut"
    OBVIOUS
  <1>2. /\ Marked(c, mark) \in Calls
        /\ Marked(c, mark).op = c.op /\ Marked(c, mark).phase = c.phase
        /\ Marked(c, mark).id = c.id /\ Marked(c, mark).fd = c.fd
        /\ c.marks \subseteq Marked(c, mark).marks
        /\ c.op = "connect" => mark \in Marked(c, mark).marks
        /\ c.op # "connect" => Marked(c, mark) = c
    BY <1>1, MarkedFacts
  <1>3. Idle.op = "none" /\ "none" # "connect"
    BY DEF Idle
  <1>4. "cut" \in Marked(c, mark).marks => "cut" \in c.marks
    BY <1>1 DEF Marked, Calls
  <1> QED
    BY <1>2, <1>3, <1>4

\* Who does not move keeps what it has while the tables grow, if its call is
\* not the one that is used.
LEMMA Bystander ==
  ASSUME Inv, NEW a \in Actors, NEW b \in Actors \ {a},
         NEW id, NEW by, NEW r, Grows(r, id, by), Tables(r),
         \A d \in Actors \ {a} :
           wait'[d] = wait[d] /\ call'[d] \in {call[d], Marked(call[d], "shared")},
         Undisturbed(b)' =>
           /\ call[b].id # id \/ kernel' = kernel
           /\ call'[a] # Idle => call'[a].id # call[b].id
  PROVE  CallSound(b)' /\ KeepsSocket(b)' /\ Alone(b)'
  <1>1. TypeOK /\ TablesSound(fds, kernel, owner)
    BY DEF Inv
  <1>2. \A d \in Actors : call[d] \in Calls /\ CallSound(d) /\ KeepsSocket(d) /\ Alone(d)
    BY DEF Inv, TypeOK
  <1>3. ASSUME NEW d \in Actors \ {a}
        PROVE  /\ wait'[d] = wait[d]
               /\ call'[d].op = call[d].op /\ call'[d].phase = call[d].phase
               /\ call'[d].id = call[d].id /\ call'[d].fd = call[d].fd
               /\ call[d].marks \subseteq call'[d].marks
               /\ Undisturbed(d)' => call'[d] = call[d]
               /\ call'[d] = Idle <=> call[d] = Idle
    <2>1. /\ call[d] \in Calls
          /\ call[d].op = "none" => call[d] = Idle
          /\ call'[d] \in {call[d], Marked(call[d], "shared")}
          /\ "shared" \in {"shared", "failed"}
      BY <1>2 DEF CallSound
    <2> QED
      BY <2>1, SameCall DEF Undisturbed
  <1>5. CallSound(b)'
    BY <1>2, <1>3 DEF CallSound
  <1>6. \A i \in Ids : fds[i] # NoFd => fds'[i] = fds[i]
    BY DEF Grows, Tables
  <1>7. KeepsSocket(b)'
    BY <1>2, <1>3, <1>6 DEF KeepsSocket, ValidId
  <1>8. Alone(b)'
    <2> SUFFICES ASSUME Undisturbed(b)'
                 PROVE  /\ kernel'[call'[b].fd].mode \in {"connecting", "connected", "failed"}
                        /\ wait'[b] \in {"ready", "retry"} => kernel'[call'[b].fd].mode # "connecting"
                        /\ \A d \in Actors \ {b} : ~On(d, call[b].id)'
      BY <1>3 DEF Alone, On
    <2>1. call'[b] = call[b] /\ Undisturbed(b)
      BY <1>3 DEF Undisturbed
    <2>2. ValidId(call[b].id) /\ fds[call[b].id] = call[b].fd
      BY <1>2, <2>1 DEF KeepsSocket, Undisturbed, Idle
    <2>3. kernel'[call[b].fd] = kernel[call[b].fd]
      <3>1. CASE call[b].id # id
        BY <2>2, <3>1 DEF Grows, Tables, ValidId
      <3> QED
        BY <3>1
    <2>4. /\ kernel[call[b].fd].mode \in {"connecting", "connected", "failed"}
          /\ wait[b] \in {"ready", "retry"} => kernel[call[b].fd].mode # "connecting"
          /\ \A d \in Actors \ {b} : ~On(d, call[b].id)
      BY <1>2, <2>1 DEF Alone
    <2>5. \A d \in Actors \ {b} : ~On(d, call[b].id)'
      <3> SUFFICES ASSUME NEW d \in Actors \ {b}
                   PROVE  ~(call'[d] # Idle /\ call'[d].id = call[b].id)
        BY <2>1 DEF On
      <3>1. CASE d = a
        BY <3>1
      <3>2. CASE d # a
        BY <1>3, <2>4, <3>2 DEF On
      <3> QED
        BY <3>1, <3>2
    <2> QED
      BY <1>3, <2>1, <2>3, <2>4, <2>5
  <1> QED
    BY <1>5, <1>7, <1>8

\* A step of a that makes the tables grow keeps the invariant, if it leaves
\* the others' sockets alone and a with a sound call.
LEMMA GrowInv ==
  ASSUME Inv, NEW a \in Actors,
         NEW id, NEW by, by = a \/ by \notin Actors,
         NEW r, Grows(r, id, by), Tables(r),
         \A d \in Actors \ {a} :
           wait'[d] = wait[d] /\ call'[d] \in {call[d], Marked(call[d], "shared")},
         \A b \in Actors \ {a} : Undisturbed(b)' =>
           /\ call[b].id # id \/ kernel' = kernel
           /\ call'[a] # Idle => call'[a].id # call[b].id,
         call' \in [Actors -> Calls], wait' \in [Actors -> WaitStates],
         cur' \in BOOLEAN, result' \in Results, ConnectMeansConnected',
         CallSound(a)', KeepsSocket(a)', Alone(a)',
         \A i \in Ids : owner'[i] = a => call'[a].op = "request" /\ call'[a].id = i
  PROVE  Inv'
  <1>1. TablesSound(fds, kernel, owner)' /\ TypeOK'
    BY DEF Grows, Tables, TypeOK, Tries, WaitStates
  <1>2. \A b \in Actors : CallSound(b)' /\ KeepsSocket(b)' /\ Alone(b)'
    <2>1. ASSUME NEW b \in Actors \ {a} PROVE CallSound(b)' /\ KeepsSocket(b)' /\ Alone(b)'
      BY Bystander
    <2> QED
      BY <2>1
  <1>3. OwnersSound'
    <2> SUFFICES ASSUME NEW i \in Ids, owner'[i] \in Actors
                 PROVE  call'[owner'[i]].op = "request" /\ call'[owner'[i]].id = i
      BY DEF OwnersSound
    <2>1. CASE owner'[i] = a
      BY <2>1
    <2>2. CASE owner'[i] # a
      <3>1. fds[i] # NoFd /\ owner'[i] = owner[i]
        <4>1. fds'[i] # NoFd
          BY <1>1, ConstantFacts DEF TablesSound
        <4>2. fds[i] = NoFd => owner'[i] = by
          BY <4>1 DEF Grows, Tables
        <4>3. fds[i] # NoFd => owner'[i] = owner[i]
          BY DEF Grows, Tables
        <4> QED
          BY <2>2, <4>2, <4>3
      <3>2. /\ call[owner[i]].op = "request" /\ call[owner[i]].id = i
            /\ call[owner[i]] \in Calls
        BY <3>1 DEF Inv, OwnersSound, TypeOK
      <3>3. call'[owner[i]] \in {call[owner[i]], Marked(call[owner[i]], "shared")}
        BY <2>2, <3>1
      <3>4. "shared" \in {"shared", "failed"} /\ "request" # "none"
        OBVIOUS
      <3>5. call'[owner[i]].op = call[owner[i]].op /\ call'[owner[i]].id = call[owner[i]].id
        BY <3>2, <3>3, <3>4, SameCall
      <3> QED
        BY <3>1, <3>2, <3>5
    <2> QED
      BY <2>1, <2>2
  <1> QED
    BY <1>1, <1>2, <1>3 DEF Inv

\* What a step whose sockets belong to the script leaves of a's own slots is
\* what a owned before.
LEMMA OwnedBefore ==
  ASSUME Inv, NEW a \in Actors, NEW id, NEW r, Grows(r, id, "script"), Tables(r),
         NEW i \in Ids, owner'[i] = a
  PROVE  call[a].op = "request" /\ call[a].id = i
  <1>1. TablesSound(r.fds, r.kernel, r.owner)
    BY DEF Grows
  <1>2. r.fds[i] # NoFd /\ a # "script"
    BY <1>1, ConstantFacts DEF Tables, TablesSound
  <1>3. owner[i] = a
    BY <1>2 DEF Grows, Tables
  <1> QED
    BY <1>3 DEF Inv, OwnersSound

\* An actor outside any call is in none, and owns no slot.
LEMMA IdleFacts ==
  ASSUME Inv, NEW a \in Actors, wait[a] = "no"
  PROVE  /\ call[a] = Idle /\ Idle.op = "none" /\ Idle.id = 0
         /\ \A i \in Ids : owner[i] # a
  <1>1. call[a] = Idle /\ Idle.op = "none" /\ Idle.id = 0
    BY DEF Inv, CallSound, Idle
  <1>2. \A i \in Ids : owner[i] = a => call[a].op = "request"
    BY DEF Inv, OwnersSound
  <1> QED
    BY <1>1, <1>2

\* No call is on an index beyond the table, and NoResult is no connection.
LEMMA NothingFacts ==
  /\ MaxSockets \notin Ids
  /\ NoResult \in Results /\ NoResult.out = "none" /\ Idle \in Calls
  BY SocketsAssumption, ConstantFacts DEF Ids, NoResult, Results, Idle, Calls

\* listen() touches a fresh socket only.
LEMMA ListenGrows ==
  ASSUME TypeOK, TablesSound(fds, kernel, owner), NEW id, NEW r \in TryListen(id)
  PROVE  /\ Grows(r, id, "script")
         /\ r.fds = fds
         /\ r.kernel = kernel \/ (ValidId(id) /\ kernel[fds[id]].mode = "fresh")
  <1>1. CASE r = Leaves("error")
    BY <1>1, LeavesGrows
  <1>2. CASE r # Leaves("error")
    <2>1. /\ ValidId(id) /\ kernel[fds[id]] = Sock("tcp", "fresh")
          /\ r = Puts("ok", fds[id], Sock("tcp", "listening"))
      BY <1>2 DEF TryListen
    <2>2. Sock("tcp", "listening") \in LiveSocks /\ Sock("tcp", "fresh").mode = "fresh"
      BY DEF Sock, LiveSocks, Kinds, Modes
    <2>3. /\ Grows(r, id, "script") /\ r.fds = fds
          /\ r.kernel = [kernel EXCEPT ![fds[id]] = Sock("tcp", "listening")]
      BY <2>1, <2>2, PutsGrows
    <2> QED
      BY <2>1, <2>2, <2>3
  <1> QED
    BY <1>1, <1>2

\* A call that never waits, made by an actor outside any call.
LEMMA SimpleInv ==
  ASSUME Inv, NEW a \in Actors, wait[a] = "no",
         NEW id, NEW r, Grows(r, id, "script"), Tables(r),
         r.kernel = kernel \/ id \notin Ids \/ kernel[fds[id]].mode = "fresh",
         result' = NoResult, UNCHANGED <<call, wait, cur>>
  PROVE  Inv'
  <1>1. call[a] = Idle /\ Idle.op = "none"
    BY IdleFacts
  <1>2. TypeOK /\ CallSound(a) /\ "script" \notin Actors
    BY ConstantFacts DEF Inv
  <1>3. ASSUME NEW b \in Actors \ {a}, Undisturbed(b)'
        PROVE  call[b].id # id \/ kernel' = kernel
    <2>1. Undisturbed(b) /\ call[b] # Idle
      BY <1>1, <1>3 DEF Undisturbed
    <2>2. /\ ValidId(call[b].id) /\ fds[call[b].id] = call[b].fd
          /\ kernel[call[b].fd].mode \in {"connecting", "connected", "failed"}
      BY <2>1 DEF Inv, KeepsSocket, Alone, Undisturbed
    <2>3. call[b].id = id => id \in Ids /\ kernel[fds[id]].mode # "fresh"
      BY <2>2 DEF ValidId
    <2> QED
      BY <2>3 DEF Tables
  <1>4. /\ CallSound(a)' /\ KeepsSocket(a)' /\ Alone(a)'
        /\ call'[a] = Idle
    BY <1>1, <1>2 DEF CallSound, KeepsSocket, Alone, Undisturbed, On
  <1>5. \A i \in Ids : owner'[i] # a
    BY <1>1, OwnedBefore
  <1>6. result' \in Results /\ ConnectMeansConnected'
    BY NothingFacts DEF ConnectMeansConnected
  <1>7. /\ call' \in [Actors -> Calls] /\ wait' \in [Actors -> WaitStates]
        /\ \A d \in Actors \ {a} :
             wait'[d] = wait[d] /\ call'[d] \in {call[d], Marked(call[d], "shared")}
    BY <1>2 DEF TypeOK, WaitStates
  <1>8. cur' \in BOOLEAN
    BY <1>2 DEF TypeOK
  <1> QED
    BY <1>2, <1>3, <1>4, <1>5, <1>6, <1>7, <1>8, GrowInv

\* A closed slot is free, its descriptor is closed, and the calls on it are cut.
LEMMA CloseInv ==
  ASSUME Inv, NEW a \in Actors, NEW id \in Ids, Tables(CloseSlot(id)),
         call' = CutOff(a, id, Idle), wait' = [wait EXCEPT ![a] = "no"],
         result' = NoResult, UNCHANGED cur, \A i \in Ids : owner[i] = a => i = id
  PROVE  Inv'
  <1>1. TypeOK /\ TablesSound(fds, kernel, owner)
    BY DEF Inv
  <1>2. \A b \in Actors : call[b] \in Calls /\ CallSound(b) /\ KeepsSocket(b) /\ Alone(b)
    BY DEF Inv, TypeOK
  <1>3. result' \in Results /\ ConnectMeansConnected' /\ Idle \in Calls
    BY NothingFacts DEF ConnectMeansConnected
  <1>4. wait' \in [Actors -> WaitStates] /\ wait'[a] = "no" /\ cur' \in BOOLEAN
    BY <1>1 DEF TypeOK, WaitStates
  <1>5. call'[a] = Idle
    BY DEF CutOff
  <1>6. CASE ~ValidId(id)
    <2>1. Tables(Leaves("ok")) /\ fds[id] = NoFd
      BY <1>6 DEF CloseSlot, ValidId
    <2>2. Grows(Leaves("ok"), MaxSockets, "script") /\ Leaves("ok").owner = owner
      BY <1>1, LeavesGrows
    <2>3. \A d \in Actors \ {a} : wait'[d] = wait[d] /\ call'[d] = call[d]
      BY <1>1, <1>6 DEF CutOff, TypeOK
    <2>4. call' \in [Actors -> Calls]
      BY <1>1, <1>3, <1>5, <2>3 DEF CutOff, TypeOK
    <2>5. ASSUME NEW b \in Actors \ {a}, Undisturbed(b)'
          PROVE  call[b].id # MaxSockets
      BY <1>2, <2>3, NothingFacts DEF Calls
    <2>6. \A i \in Ids : owner'[i] # a
      <3>1. owner' = owner /\ owner[id] = "none"
        BY <1>1, <2>1, <2>2 DEF Tables, TablesSound
      <3> QED
        BY <3>1, ConstantFacts
    <2>7. CallSound(a)' /\ KeepsSocket(a)' /\ Alone(a)'
      BY <1>4, <1>5 DEF CallSound, KeepsSocket, Alone, Undisturbed, Idle, Waits
    <2>8. "script" \notin Actors
      BY ConstantFacts
    <2>9. /\ \A d \in Actors \ {a} :
               wait'[d] = wait[d] /\ call'[d] \in {call[d], Marked(call[d], "shared")}
          /\ \A b \in Actors \ {a} : Undisturbed(b)' =>
               /\ call[b].id # MaxSockets \/ kernel' = kernel
               /\ call'[a] # Idle => call'[a].id # call[b].id
          /\ \A i \in Ids : owner'[i] = a => call'[a].op = "request" /\ call'[a].id = i
      BY <1>5, <2>3, <2>5, <2>6
    <2> QED
      BY <1>3, <1>4, <2>1, <2>2, <2>4, <2>7, <2>8, <2>9, GrowInv
  <1>7. CASE ValidId(id)
    <2> DEFINE f == fds[id]
    <2>1. f \in Fds /\ f # NoFd
      BY <1>1, <1>7 DEF ValidId, TypeOK
    <2>2. /\ fds' = [fds EXCEPT ![id] = NoFd]
          /\ kernel' = [kernel EXCEPT ![f] = Closed]
          /\ owner' = [owner EXCEPT ![id] = "none"]
      BY <1>7 DEF CloseSlot, Tables, Puts, Leaves
    <2>3. TablesSound(fds, kernel, owner)'
      BY <1>1, <2>1, <2>2, ConstantFacts DEF TablesSound
    <2>4. ASSUME NEW b \in Actors \ {a}
          PROVE  /\ call'[b] \in Calls /\ wait'[b] = wait[b]
                 /\ call'[b].op = call[b].op /\ call'[b].phase = call[b].phase
                 /\ call'[b].id = call[b].id
                 /\ On(b, id) => "cut" \in call'[b].marks
                 /\ ~On(b, id) => call'[b] = call[b]
                 /\ call'[b] = Idle <=> call[b] = Idle
      <3>1. wait'[b] = wait[b]
        BY <1>1 DEF TypeOK
      <3>2. CASE ~On(b, id)
        BY <1>2, <3>1, <3>2 DEF CutOff
      <3>3. CASE On(b, id)
        <4>1. call'[b] = Marked(call[b], "cut")
          BY <1>7, <3>3 DEF CutOff
        <4>2. call[b] # Idle /\ call[b] \in Calls
          BY <1>2, <3>3 DEF On
        <4>3. /\ Marked(call[b], "cut") \in Calls
              /\ Marked(call[b], "cut").op = call[b].op
              /\ Marked(call[b], "cut").phase = call[b].phase
              /\ Marked(call[b], "cut").id = call[b].id
              /\ "cut" \in Marked(call[b], "cut").marks
          BY <4>2, MarkedFacts
        <4>4. "cut" \notin Idle.marks
          BY DEF Idle
        <4> QED
          BY <3>1, <3>3, <4>1, <4>2, <4>3, <4>4
      <3> QED
        BY <3>2, <3>3
    <2>5. TypeOK'
      <3>1. call' \in [Actors -> Calls]
        BY <1>3, <1>5, <2>4 DEF CutOff
      <3>2. fds' \in [Ids -> Fds \cup {NoFd}] /\ kernel' \in [Fds -> LiveSocks \cup {Closed}]
        BY <2>3 DEF TablesSound
      <3>3. owner' \in [Ids -> Actors \cup {"none", "script"}]
        BY <2>3 DEF TablesSound
      <3> QED
        BY <1>3, <1>4, <3>1, <3>2, <3>3 DEF TypeOK, WaitStates
    <2>6. ASSUME NEW b \in Actors PROVE CallSound(b)' /\ KeepsSocket(b)' /\ Alone(b)'
      <3>1. CASE b = a
        BY <1>4, <1>5, <3>1 DEF CallSound, KeepsSocket, Alone, Undisturbed, Idle, Waits
      <3>2. CASE b # a
        <4>1. CallSound(b)'
          BY <1>2, <2>4, <3>2 DEF CallSound
        <4>2. KeepsSocket(b)'
          BY <1>1, <1>2, <2>2, <2>4, <3>2 DEF KeepsSocket, ValidId, On, TypeOK
        <4>3. Alone(b)'
          <5> SUFFICES ASSUME Undisturbed(b)'
                       PROVE  /\ kernel'[call'[b].fd].mode \in {"connecting", "connected", "failed"}
                              /\ wait'[b] \in {"ready", "retry"} => kernel'[call'[b].fd].mode # "connecting"
                              /\ \A d \in Actors \ {b} : ~(call'[d] # Idle /\ call'[d].id = call'[b].id)
            BY DEF Alone, On
          <5>1. call'[b] = call[b] /\ ~On(b, id) /\ Undisturbed(b)
            BY <2>4, <3>2 DEF Undisturbed
          <5>2. /\ ValidId(call[b].id) /\ fds[call[b].id] = call[b].fd
                /\ kernel[call[b].fd].mode \in {"connecting", "connected", "failed"}
                /\ wait[b] \in {"ready", "retry"} => kernel[call[b].fd].mode # "connecting"
                /\ \A d \in Actors \ {b} : ~On(d, call[b].id)
                /\ call[b] # Idle
            BY <1>2, <5>1 DEF Alone, KeepsSocket, Undisturbed, Idle
          <5>3. call[b].fd \in Fds /\ call[b].fd # f
            BY <1>1, <1>7, <5>1, <5>2 DEF On, ValidId, TablesSound
          <5>4. kernel'[call[b].fd] = kernel[call[b].fd]
            BY <1>1, <2>2, <5>3 DEF TypeOK
          <5>5. \A d \in Actors \ {b} : ~(call'[d] # Idle /\ call'[d].id = call[b].id)
            BY <1>5, <2>4, <5>2 DEF On
          <5> QED
            BY <2>4, <3>2, <5>1, <5>2, <5>4, <5>5
        <4> QED
          BY <4>1, <4>2, <4>3
      <3> QED
        BY <3>1, <3>2
    <2>7. OwnersSound'
      <3> SUFFICES ASSUME NEW i \in Ids, owner'[i] \in Actors
                   PROVE  call'[owner'[i]].op = "request" /\ call'[owner'[i]].id = i
        BY DEF OwnersSound
      <3>1. i # id /\ owner'[i] = owner[i] /\ owner[i] # a
        BY <1>1, <2>2, ConstantFacts DEF TypeOK
      <3>2. call[owner[i]].op = "request" /\ call[owner[i]].id = i
        BY <3>1 DEF Inv, OwnersSound
      <3> QED
        BY <2>4, <3>1, <3>2
    <2> QED
      BY <1>3, <2>3, <2>5, <2>6, <2>7 DEF Inv
  <1> QED
    BY <1>6, <1>7

\* A call in the select() of the loop is woken, one in its own goes on.
Woken(d) ==
  \/ wait[d] = "waiting" /\ wait'[d] = "ready"
  \/ wait[d] = "blocking" /\ wait'[d] = "retry"

\* What select() does to the calls that wait: each is woken or not, and a
\* connect that no failure has woken is woken when its attempt has ended.
LEMMA WakeInv ==
  ASSUME Inv, UNCHANGED <<fds, kernel, cur, owner>>, result' = NoResult,
         call' \in [Actors -> Calls], wait' \in [Actors -> WaitStates],
         \A d \in Actors :
           /\ call'[d] \in {call[d], Marked(call[d], "failed")}
           /\ wait'[d] = wait[d] \/ Woken(d)
           /\ Undisturbed(d)' /\ wait'[d] # wait[d] => kernel[call[d].fd].mode # "connecting"
  PROVE  Inv'
  <1>1. TypeOK' /\ TablesSound(fds, kernel, owner)'
    BY NothingFacts DEF Inv, TypeOK, WaitStates
  <1>2. \A d \in Actors : call[d] \in Calls /\ CallSound(d) /\ KeepsSocket(d) /\ Alone(d)
    BY DEF Inv, TypeOK
  <1>3. ASSUME NEW d \in Actors
        PROVE  /\ call'[d].op = call[d].op /\ call'[d].phase = call[d].phase
               /\ call'[d].id = call[d].id /\ call'[d].fd = call[d].fd
               /\ Undisturbed(d)' => call'[d] = call[d]
               /\ call'[d] = Idle <=> call[d] = Idle
               /\ "cut" \in call[d].marks => "cut" \in call'[d].marks
    <2>1. /\ call[d] \in Calls
          /\ call[d].op = "none" => call[d] = Idle
          /\ call'[d] \in {call[d], Marked(call[d], "failed")}
          /\ "failed" \in {"shared", "failed"}
      BY <1>2 DEF CallSound
    <2> QED
      BY <2>1, SameCall DEF Undisturbed
  <1>4. ASSUME NEW b \in Actors PROVE CallSound(b)' /\ KeepsSocket(b)' /\ Alone(b)'
    <2>1. CallSound(b)'
      BY <1>2, <1>3 DEF CallSound, Woken, Waits
    <2>2. KeepsSocket(b)'
      BY <1>2, <1>3 DEF KeepsSocket, ValidId
    <2>3. Alone(b)'
      <3> SUFFICES ASSUME Undisturbed(b)'
                   PROVE  /\ kernel[call[b].fd].mode \in {"connecting", "connected", "failed"}
                          /\ wait'[b] \in {"ready", "retry"} => kernel[call[b].fd].mode # "connecting"
                          /\ \A d \in Actors \ {b} : ~(call'[d] # Idle /\ call'[d].id = call[b].id)
        BY <1>3 DEF Alone, On
      <3>1. Undisturbed(b)
        BY <1>3 DEF Undisturbed
      <3>2. /\ kernel[call[b].fd].mode \in {"connecting", "connected", "failed"}
            /\ wait[b] \in {"ready", "retry"} => kernel[call[b].fd].mode # "connecting"
            /\ \A d \in Actors \ {b} : ~(call[d] # Idle /\ call[d].id = call[b].id)
        BY <1>2, <3>1 DEF Alone, On
      <3>3. wait'[b] \in {"ready", "retry"} => kernel[call[b].fd].mode # "connecting"
        BY <3>2
      <3> QED
        BY <1>3, <3>2, <3>3
    <2> QED
      BY <2>1, <2>2, <2>3
  <1>5. OwnersSound'
    BY <1>3 DEF Inv, OwnersSound
  <1> QED
    BY <1>1, <1>4, <1>5, NothingFacts DEF Inv, ConnectMeansConnected

\* A turn of the network or a peer keeps a socket open, and ends an attempt
\* to connect if it changes the mode.
LEMMA TurnInv ==
  ASSUME Inv, NEW f \in Fds, kernel[f] # Closed, NEW sock \in LiveSocks, Turns(f, sock),
         \/ sock.mode = kernel[f].mode
         \/ kernel[f].mode = "connecting" /\ sock.mode \in {"connected", "failed"},
         result' = NoResult, UNCHANGED <<fds, call, wait, cur, owner>>
  PROVE  Inv'
  <1>1. TypeOK /\ TablesSound(fds, kernel, owner)
    BY DEF Inv
  <1>2. TypeOK' /\ TablesSound(fds, kernel, owner)'
    BY <1>1, NothingFacts, ConstantFacts DEF Turns, TypeOK, TablesSound
  <1>3. ASSUME NEW g \in Fds
        PROVE  \/ kernel'[g].mode = kernel[g].mode
               \/ kernel[g].mode = "connecting" /\ kernel'[g].mode \in {"connected", "failed"}
    BY <1>1 DEF Turns, TypeOK
  <1>4. ASSUME NEW b \in Actors PROVE CallSound(b)' /\ KeepsSocket(b)' /\ Alone(b)'
    <2>1. CallSound(b) /\ KeepsSocket(b) /\ Alone(b)
      BY DEF Inv
    <2>2. CallSound(b)' /\ KeepsSocket(b)'
      BY <2>1 DEF CallSound, KeepsSocket, ValidId
    <2>3. Undisturbed(b) => call[b].fd \in Fds
      BY <1>1, <2>1 DEF Undisturbed, KeepsSocket, ValidId, TypeOK, Idle
    <2>4. Alone(b)'
      BY <1>3, <2>1, <2>3 DEF Alone, Undisturbed, On
    <2> QED
      BY <2>2, <2>4
  <1>5. OwnersSound' /\ ConnectMeansConnected'
    BY NothingFacts DEF Inv, OwnersSound, ConnectMeansConnected
  <1> QED
    BY <1>2, <1>4, <1>5 DEF Inv

\* The network and the peers
LEMMA NetworkInv ==
  ASSUME Inv, Network PROVE Inv'
  <1>1. PICK f \in Fds : Arrives(f) \/ HangsUp(f) \/ Drains(f) \/ Connects(f)
    BY DEF Network
  <1>2. result' = NoResult /\ UNCHANGED <<fds, call, wait, cur, owner>>
    BY DEF Network
  <1>3. kernel[f] \in LiveSocks \cup {Closed}
    BY DEF Inv, TypeOK
  <1>4. /\ Closed.mode = "closed" /\ Closed.kind = "none" /\ Closed.full = FALSE
    BY DEF Closed, Sock
  <1>5. kernel[f] # Closed
    BY <1>1, <1>4 DEF Arrives, HangsUp, Drains, Connects
  <1>6. kernel[f] \in LiveSocks
    BY <1>3, <1>5
  <1>7. PICK sock \in LiveSocks :
          /\ Turns(f, sock)
          /\ \/ sock.mode = kernel[f].mode
             \/ kernel[f].mode = "connecting" /\ sock.mode \in {"connected", "failed"}
    <2>1. CASE Arrives(f)
      <3>1. [kernel[f] EXCEPT !.queue = "item"] \in LiveSocks
        BY <1>6 DEF LiveSocks
      <3> QED
        BY <1>6, <2>1, <3>1 DEF Arrives, LiveSocks
    <2>2. CASE HangsUp(f)
      <3>1. [kernel[f] EXCEPT !.queue = "end"] \in LiveSocks
        BY <1>6 DEF LiveSocks
      <3> QED
        BY <1>6, <2>2, <3>1 DEF HangsUp, LiveSocks
    <2>3. CASE Drains(f)
      <3>1. [kernel[f] EXCEPT !.full = FALSE] \in LiveSocks
        BY <1>6 DEF LiveSocks
      <3> QED
        BY <1>6, <2>3, <3>1 DEF Drains, LiveSocks
    <2>4. CASE Connects(f)
      <3>1. PICK mode \in {"connected", "failed"} : Turns(f, [kernel[f] EXCEPT !.mode = mode])
        BY <2>4 DEF Connects
      <3>2. /\ [kernel[f] EXCEPT !.mode = mode] \in LiveSocks
            /\ [kernel[f] EXCEPT !.mode = mode].mode = mode
        BY <1>6, <3>1 DEF LiveSocks, Modes
      <3> QED
        BY <2>4, <3>1, <3>2 DEF Connects
    <2> QED
      BY <1>1, <2>1, <2>2, <2>3, <2>4
  <1> QED
    BY <1>2, <1>5, <1>7, TurnInv

\* The loop's select(), and that of a call that blocks the process
LEMMA SelectInv ==
  ASSUME Inv, SelectReturns \/ SelectFails \/ \E a \in Actors : BlockingReturns(a)
  PROVE  Inv'
  <1>1. TypeOK /\ \A d \in Actors : call[d] \in Calls /\ CallSound(d) /\ KeepsSocket(d) /\ Alone(d)
    BY DEF Inv, TypeOK
  <1>2. ASSUME NEW d \in Actors, Undisturbed(d), Ready(call[d])
        PROVE  kernel[call[d].fd].mode # "connecting"
    <2>1. call[d].phase = "check"
      BY <1>1, <1>2 DEF CallSound, Undisturbed, Waits
    <2> QED
      BY <1>2, <2>1 DEF Ready, WantsWrite, Writable
  <1>3. CASE SelectReturns
    <2>1. /\ \A d \in Actors :
               wait'[d] = wait[d] \/ (wait[d] = "waiting" /\ wait'[d] = "ready" /\ Ready(call[d]))
          /\ wait' \in [Actors -> WaitStates]
          /\ result' = NoResult /\ UNCHANGED <<fds, kernel, call, cur, owner>>
      BY <1>1, <1>3 DEF SelectReturns, Watched, TypeOK, WaitStates
    <2>2. /\ call' \in [Actors -> Calls]
          /\ \A d \in Actors :
               /\ call'[d] \in {call[d], Marked(call[d], "failed")}
               /\ wait'[d] = wait[d] \/ Woken(d)
               /\ Undisturbed(d)' /\ wait'[d] # wait[d] => kernel[call[d].fd].mode # "connecting"
      BY <1>1, <1>2, <2>1 DEF Undisturbed, TypeOK, Woken
    <2> QED
      BY <2>1, <2>2, WakeInv
  <1>4. CASE SelectFails
    <2>1. /\ result' = NoResult /\ UNCHANGED <<fds, kernel, cur, owner>>
          /\ wait' \in [Actors -> WaitStates]
          /\ \A d \in Actors :
               \/ wait'[d] = wait[d] /\ call'[d] = call[d]
               \/ /\ wait[d] = "waiting" /\ wait'[d] = "ready"
                  /\ call'[d] = Marked(call[d], "failed")
      BY <1>1, <1>4 DEF SelectFails, Watched, TypeOK, WaitStates
    <2>2. ASSUME NEW d \in Actors
          PROVE  /\ Marked(call[d], "failed") \in Calls
                 /\ Marked(call[d], "failed").op = "connect" => Marked(call[d], "failed").marks # {}
      <3>1. call[d] \in Calls /\ "failed" \in {"cut", "shared", "failed"}
        BY <1>1
      <3> QED
        BY <3>1, MarkedFacts
    <2>3. call' \in [Actors -> Calls]
      <3>1. \A d \in Actors : call'[d] \in Calls
        BY <1>1, <2>1, <2>2
      <3> QED
        BY <1>4, <3>1 DEF SelectFails
    <2>4. \A d \in Actors :
            /\ call'[d] \in {call[d], Marked(call[d], "failed")}
            /\ wait'[d] = wait[d] \/ Woken(d)
            /\ Undisturbed(d)' /\ wait'[d] # wait[d] => kernel[call[d].fd].mode # "connecting"
      BY <2>1, <2>2 DEF Undisturbed, Woken
    <2> QED
      BY <2>1, <2>3, <2>4, WakeInv
  <1>5. CASE \E a \in Actors : BlockingReturns(a)
    <2>1. PICK a \in Actors : BlockingReturns(a)
      BY <1>5
    <2>2. /\ wait' \in [Actors -> WaitStates]
          /\ result' = NoResult /\ UNCHANGED <<fds, kernel, call, cur, owner>>
          /\ wait[a] = "blocking" /\ wait'[a] = "retry"
          /\ \A d \in Actors \ {a} : wait'[d] = wait[d]
          /\ Ready(call[a]) \/ ~Open(call[a].fd)
      BY <1>1, <2>1 DEF BlockingReturns, TypeOK, WaitStates
    <2>3. Undisturbed(a) => Ready(call[a])
      <3>1. Undisturbed(a) => ValidId(call[a].id) /\ fds[call[a].id] = call[a].fd
        BY <1>1 DEF Undisturbed, KeepsSocket, Idle
      <3>2. Undisturbed(a) => Open(call[a].fd)
        BY <3>1 DEF Inv, TablesSound, ValidId, Open, TypeOK
      <3> QED
        BY <2>2, <3>2
    <2>4. /\ call' \in [Actors -> Calls]
          /\ \A d \in Actors :
               /\ call'[d] \in {call[d], Marked(call[d], "failed")}
               /\ wait'[d] = wait[d] \/ Woken(d)
               /\ Undisturbed(d)' /\ wait'[d] # wait[d] => kernel[call[d].fd].mode # "connecting"
      BY <1>1, <1>2, <2>2, <2>3 DEF Undisturbed, TypeOK, Woken
    <2> QED
      BY <2>2, <2>4, WakeInv
  <1> QED
    BY <1>3, <1>4, <1>5

\* socket(), listen() and close()
LEMMA SimpleCallsInv ==
  ASSUME Inv, NEW a \in Actors, wait[a] = "no", NEW kind \in Kinds, NEW id \in Ids,
         Socket(a, kind) \/ Listen(a, id) \/ Close(a, id), UNCHANGED cur
  PROVE  Inv'
  <1>1. TypeOK /\ TablesSound(fds, kernel, owner) /\ MaxSockets \notin Ids
    BY NothingFacts DEF Inv
  <1>2. CASE Socket(a, kind)
    <2> DEFINE r == Create(kind, "script")
    <2>1. /\ Grows(r, MaxSockets, "script")
          /\ r.out = "ok" => r.owner = [owner EXCEPT ![Min(FreeSlots)] = "script"]
      BY <1>1, CreateGrows
    <2>2. Tables(r) /\ result' = NoResult /\ UNCHANGED <<call, wait>>
      BY <1>2 DEF Socket
    <2> HIDE DEF r
    <2> QED
      BY <1>1, <2>1, <2>2, SimpleInv
  <1>3. CASE Listen(a, id)
    <2>1. PICK r \in TryListen(id) : Tables(r)
      BY <1>3 DEF Listen
    <2>2. /\ Grows(r, id, "script")
          /\ r.kernel = kernel \/ kernel[fds[id]].mode = "fresh"
      BY <1>1, ListenGrows
    <2>3. result' = NoResult /\ UNCHANGED <<call, wait>>
      BY <1>3 DEF Listen
    <2> QED
      BY <2>1, <2>2, <2>3, SimpleInv
  <1>4. CASE Close(a, id)
    <2>1. /\ Tables(CloseSlot(id)) /\ call' = CutOff(a, id, Idle)
          /\ result' = NoResult /\ wait' = wait
      BY <1>4 DEF Close
    <2>2. wait' = [wait EXCEPT ![a] = "no"]
      BY <1>1, <2>1 DEF TypeOK
    <2>3. \A i \in Ids : owner[i] # a
      BY IdleFacts
    <2> QED
      BY <2>1, <2>2, <2>3, CloseInv
  <1> QED
    BY <1>2, <1>3, <1>4

\* A call that has to wait stays what it is, but a connect has its check
\* before it, and is marked if it does not wait.
LEMMA AfterBlockFacts ==
  ASSUME NEW c \in Calls, NEW a, c.op = "none" => c = Idle
  PROVE  /\ WayToWait(a) \in {"blocking", "retry", "waiting"}
         /\ AfterBlock(a, c) \in Calls
         /\ AfterBlock(a, c).op = c.op
         /\ AfterBlock(a, c).id = c.id /\ AfterBlock(a, c).fd = c.fd
         /\ AfterBlock(a, c).phase = IF c.phase = "connect" THEN "check" ELSE c.phase
         /\ c.marks \subseteq AfterBlock(a, c).marks
         /\ "cut" \in AfterBlock(a, c).marks => "cut" \in c.marks
         /\ c.op = "connect" /\ WayToWait(a) = "retry" => AfterBlock(a, c).marks # {}
         /\ c.op # "connect" => AfterBlock(a, c).marks = c.marks
  <1> DEFINE d == IF c.phase = "connect" THEN [c EXCEPT !.phase = "check"] ELSE c
  <1>1. /\ d \in Calls /\ d.op = c.op /\ d.id = c.id /\ d.fd = c.fd /\ d.marks = c.marks
        /\ d.phase = IF c.phase = "connect" THEN "check" ELSE c.phase
    BY DEF Calls
  <1>2. WayToWait(a) \in {"blocking", "retry", "waiting"}
    BY DEF WayToWait
  <1>3. AfterBlock(a, c) = IF WayToWait(a) = "retry" THEN Marked(d, "failed") ELSE d
    BY DEF AfterBlock
  <1> HIDE DEF d
  <1>4. /\ Marked(d, "failed") \in Calls
        /\ Marked(d, "failed").op = d.op /\ Marked(d, "failed").phase = d.phase
        /\ Marked(d, "failed").id = d.id /\ Marked(d, "failed").fd = d.fd
        /\ d.marks \subseteq Marked(d, "failed").marks
        /\ d.op = "connect" => "failed" \in Marked(d, "failed").marks
        /\ d.op # "connect" => Marked(d, "failed") = d
    <2>1. "failed" \in {"cut", "shared", "failed"} /\ "failed" # "cut"
      OBVIOUS
    <2> QED
      BY <1>1, <2>1, MarkedFacts
  <1>5. "cut" \in Marked(d, "failed").marks => "cut" \in d.marks
    BY <1>1 DEF Marked, Calls
  <1> QED
    BY <1>1, <1>2, <1>3, <1>4, <1>5

\* A built-in that may wait: the call it makes is on the socket its index
\* means, and a connect that has to wait is alone, or marked.
LEMMA BeginInv ==
  ASSUME Inv, NEW a \in Actors, wait[a] = "no",
         NEW op \in Waits, NEW id \in Ids, Begin(a, op, id), UNCHANGED cur
  PROVE  Inv'
  <1> DEFINE others == {b \in Actors \ {a} : On(b, id)}
             c == [op |-> op, phase |-> op, id |-> id, fd |-> RawFd(id),
                   marks |-> IF op = "connect" /\ others # {} THEN {"shared"} ELSE {}]
  <1>1. TypeOK /\ TablesSound(fds, kernel, owner)
    BY DEF Inv
  <1>2. call[a] = Idle /\ Idle.op = "none" /\ "script" \notin Actors
    BY IdleFacts, ConstantFacts
  <1>3. PICK r \in Try(c) :
          /\ Tables(r)
          /\ call' = [b \in Actors |->
               CASE b = a -> IF r.out = "block" THEN AfterBlock(a, c) ELSE Idle
                 [] b \in others -> Marked(call[b], "shared")
                 [] OTHER -> call[b]]
          /\ wait' = [wait EXCEPT ![a] = IF r.out = "block" THEN WayToWait(a) ELSE "no"]
          /\ IF r.out = "block" THEN result' = NoResult ELSE Returns(c, r.out)
    BY DEF Begin
  <1>4. /\ c.op = op /\ c.phase = op /\ c.id = id /\ c.fd = RawFd(id)
        /\ c.marks = IF op = "connect" /\ others # {} THEN {"shared"} ELSE {}
        /\ c \in Calls
    BY <1>1 DEF Calls, RawFd, ValidId, TypeOK, Waits
  <1> HIDE DEF c
  <1>5. /\ Grows(r, id, "script")
        /\ r.out = "block" => ValidId(id) /\ r.fds = fds
    BY <1>1, <1>3, <1>4, TryGrows
  <1>6. op = "connect" =>
          /\ r.out \in {"ok", "error", "block"} /\ r.fds = fds
          /\ r.out = "block" => r.kernel[fds[id]].mode = "connecting"
          /\ r.out = "ok" => r.kernel[fds[id]].mode = "connected"
    <2>1. op = "connect" => r \in TryConnect(id)
      BY <1>3, <1>4 DEF Try
    <2> QED
      BY <1>1, <2>1, ConnectGrows
  <1>7. /\ \A d \in Actors \ {a} :
             /\ wait'[d] = wait[d] /\ call'[d] \in {call[d], Marked(call[d], "shared")}
             /\ ~On(d, id) => call'[d] = call[d]
             /\ On(d, id) => call'[d] = Marked(call[d], "shared")
        /\ call'[a] = IF r.out = "block" THEN AfterBlock(a, c) ELSE Idle
        /\ wait'[a] = IF r.out = "block" THEN WayToWait(a) ELSE "no"
        /\ wait' \in [Actors -> WaitStates] /\ cur' \in BOOLEAN
    BY <1>1, <1>3 DEF TypeOK, WaitStates, WayToWait
  <1>8. /\ AfterBlock(a, c) \in Calls /\ AfterBlock(a, c) # Idle
        /\ AfterBlock(a, c).op = op /\ AfterBlock(a, c).id = id /\ AfterBlock(a, c).fd = RawFd(id)
        /\ AfterBlock(a, c).phase = IF op = "connect" THEN "check" ELSE op
        /\ c.marks \subseteq AfterBlock(a, c).marks
        /\ op = "connect" /\ WayToWait(a) = "retry" => AfterBlock(a, c).marks # {}
        /\ WayToWait(a) \in {"blocking", "retry", "waiting"}
    BY <1>2, <1>4, AfterBlockFacts DEF Waits
  <1>9. ASSUME NEW d \in Actors \ {a}
        PROVE  /\ call'[d] \in Calls
               /\ Undisturbed(d)' => ~On(d, id) /\ call[d] # Idle
    <2>1. call[d] \in Calls /\ "shared" \in {"cut", "shared", "failed"} /\ "shared" # "cut"
      BY <1>1 DEF TypeOK
    <2>2. /\ Marked(call[d], "shared") \in Calls
          /\ Marked(call[d], "shared").op = call[d].op
          /\ call[d].op = "connect" => "shared" \in Marked(call[d], "shared").marks
      BY <2>1, MarkedFacts
    <2>3. Undisturbed(d)' => call[d].op = "connect"
      BY <1>7, <2>2 DEF Undisturbed
    <2> QED
      BY <1>2, <1>7, <2>1, <2>2, <2>3 DEF Undisturbed
  <1>10. call' \in [Actors -> Calls]
    <2>1. Idle \in Calls
      BY NothingFacts
    <2>2. \A d \in Actors : call'[d] \in Calls
      BY <1>7, <1>8, <1>9, <2>1
    <2> QED
      BY <1>3, <2>2
  <1>11. CallSound(a)'
    BY <1>2, <1>7, <1>8 DEF CallSound, Waits
  <1>12. KeepsSocket(a)'
    BY <1>2, <1>3, <1>5, <1>7, <1>8 DEF KeepsSocket, ValidId, RawFd, Tables
  <1>13. Alone(a)'
    <2> SUFFICES ASSUME Undisturbed(a)'
                 PROVE  /\ kernel'[call'[a].fd].mode \in {"connecting", "connected", "failed"}
                        /\ wait'[a] \in {"ready", "retry"} => kernel'[call'[a].fd].mode # "connecting"
                        /\ \A b \in Actors \ {a} : ~(call'[b] # Idle /\ call'[b].id = call'[a].id)
      BY DEF Alone, On
    <2>1. /\ r.out = "block" /\ op = "connect" /\ others = {}
          /\ wait'[a] \in {"blocking", "waiting"}
      BY <1>2, <1>4, <1>7, <1>8 DEF Undisturbed
    <2>2. call'[a].id = id /\ call'[a].fd = fds[id]
      BY <1>5, <1>7, <1>8, <2>1 DEF RawFd
    <2>3. \A b \in Actors \ {a} : ~On(b, id) /\ call'[b] = call[b]
      BY <1>7, <2>1
    <2> QED
      BY <1>3, <1>6, <1>7, <2>1, <2>2, <2>3 DEF Tables, On
  <1>14. result' \in Results /\ ConnectMeansConnected'
    <2>1. CASE r.out = "block" \/ op # "connect"
      BY <1>3, <1>4, <2>1, NothingFacts DEF Returns, ConnectMeansConnected
    <2>2. CASE r.out # "block" /\ op = "connect"
      <3>1. result' = [id |-> id, marks |-> c.marks, out |-> r.out]
        BY <1>3, <1>4, <2>2 DEF Returns
      <3>2. result' \in Results
        BY <1>4, <1>6, <2>2, <3>1 DEF Results, Calls
      <3> QED
        BY <1>3, <1>6, <2>2, <3>1, <3>2 DEF ConnectMeansConnected, Tables
    <2> QED
      BY <2>1, <2>2
  <1>15. \A i \in Ids : owner'[i] # a
    BY <1>2, <1>3, <1>5, OwnedBefore
  <1>16. \A b \in Actors \ {a} : Undisturbed(b)' =>
           /\ call[b].id # id \/ kernel' = kernel
           /\ call'[a] # Idle => call'[a].id # call[b].id
    BY <1>7, <1>8, <1>9 DEF On
  <1>17. /\ \A d \in Actors \ {a} :
              wait'[d] = wait[d] /\ call'[d] \in {call[d], Marked(call[d], "shared")}
         /\ wait' \in [Actors -> WaitStates] /\ cur' \in BOOLEAN
    BY <1>7
  <1> QED
    BY <1>2, <1>3, <1>5, <1>10, <1>11, <1>12, <1>13, <1>14, <1>15, <1>16, <1>17, GrowInv

\* A step of a call that goes on uses the index of that call, where no
\* undisturbed connect of another actor is.
LEMMA GoesOn ==
  ASSUME Inv, NEW a \in Actors, call[a] # Idle,
         call' \in [Actors -> Calls], \A d \in Actors \ {a} : call'[d] = call[d],
         call'[a] # Idle => call'[a].id = call[a].id,
         NEW b \in Actors \ {a}, Undisturbed(b)'
  PROVE  /\ call[b].id # call[a].id
         /\ call'[a] # Idle => call'[a].id # call[b].id
  <1>1. Undisturbed(b)
    BY DEF Undisturbed
  <1>2. ~On(a, call[b].id)
    BY <1>1 DEF Inv, Alone
  <1> QED
    BY <1>2 DEF On

\* A call that has waited tries again, and waits again or returns.
LEMMA ResumeInv ==
  ASSUME Inv, NEW a \in Actors, Resume(a) PROVE Inv'
  <1> DEFINE c == call[a]
  <1>1. TypeOK /\ TablesSound(fds, kernel, owner) /\ c \in Calls
    BY DEF Inv, TypeOK
  <1>2. /\ wait[a] \in {"ready", "retry"} /\ c # Idle /\ c.op \in Waits
        /\ c.phase = IF c.op = "connect" THEN "check" ELSE c.op
        /\ KeepsSocket(a) /\ Alone(a) /\ CallSound(a)
    BY <1>1 DEF Resume, Inv, CallSound, Calls
  <1>3. PICK r \in Try(c) :
          /\ Tables(r)
          /\ IF r.out = "block"
             THEN /\ call' = [call EXCEPT ![a] = AfterBlock(a, c)]
                  /\ wait' = [wait EXCEPT ![a] = WayToWait(a)]
                  /\ result' = NoResult
             ELSE /\ call' = [call EXCEPT ![a] = Idle]
                  /\ wait' = [wait EXCEPT ![a] = "no"]
                  /\ Returns(c, r.out)
    BY DEF Resume, Attempt
  <1>4. c.phase \in Waits \cup {"check"} /\ (c.phase = "connect" => FALSE)
    BY <1>2 DEF Waits
  <1>5. /\ Grows(r, c.id, "script")
        /\ r.out = "block" => ValidId(c.id) /\ r.fds = fds /\ c.phase # "check"
    BY <1>1, <1>3, <1>4, TryGrows
  <1>6. c.op = "connect" =>
          /\ r.out \in {"ok", "error"} /\ r.fds = fds
          /\ r.out = "ok" => r.kernel = kernel /\ kernel[fds[c.id]].mode # "failed"
    <2>1. c.op = "connect" => r \in CheckConnect(c.id)
      BY <1>2, <1>3 DEF Try
    <2> QED
      BY <1>1, <2>1, CheckGrows
  <1>7. "script" \notin Actors /\ Idle \in Calls /\ Idle.op = "none"
    BY ConstantFacts, NothingFacts DEF Idle
  <1>8. /\ c.op # "connect" => AfterBlock(a, c) = c
        /\ c.op = "connect" => r.out # "block"
        /\ WayToWait(a) \in {"blocking", "retry", "waiting"}
    BY <1>2, <1>4, <1>5 DEF AfterBlock, Marked, WayToWait
  <1>9. /\ call' = [call EXCEPT ![a] = IF r.out = "block" THEN c ELSE Idle]
        /\ wait' = [wait EXCEPT ![a] = IF r.out = "block" THEN WayToWait(a) ELSE "no"]
        /\ UNCHANGED cur
    BY <1>3, <1>8 DEF Resume
  <1>10. /\ \A d \in Actors \ {a} : wait'[d] = wait[d] /\ call'[d] = call[d]
         /\ call'[a] = IF r.out = "block" THEN c ELSE Idle
         /\ wait'[a] = IF r.out = "block" THEN WayToWait(a) ELSE "no"
         /\ call' \in [Actors -> Calls]
         /\ wait' \in [Actors -> WaitStates] /\ cur' \in BOOLEAN
    BY <1>1, <1>7, <1>8, <1>9 DEF TypeOK, WaitStates
  <1>11. \A b \in Actors \ {a} : Undisturbed(b)' =>
           /\ call[b].id # c.id \/ kernel' = kernel
           /\ call'[a] # Idle => call'[a].id # call[b].id
    BY <1>2, <1>10, GoesOn
  <1>12. CallSound(a)'
    BY <1>2, <1>7, <1>8, <1>10 DEF CallSound, Waits
  <1>13. KeepsSocket(a)'
    BY <1>2, <1>3, <1>5, <1>10 DEF KeepsSocket, ValidId, Tables
  <1>14. Alone(a)'
    <2>1. ~Undisturbed(a)'
      BY <1>2, <1>5, <1>7, <1>10 DEF Undisturbed
    <2> QED
      BY <2>1 DEF Alone
  <1>15. result' \in Results /\ ConnectMeansConnected'
    <2>1. CASE r.out = "block" \/ c.op # "connect"
      BY <1>3, <2>1, NothingFacts DEF Returns, ConnectMeansConnected
    <2>2. CASE r.out # "block" /\ c.op = "connect"
      <3>1. result' = [id |-> c.id, marks |-> c.marks, out |-> r.out]
        BY <1>3, <2>2 DEF Returns
      <3>2. result' \in Results
        BY <1>1, <1>6, <2>2, <3>1 DEF Results, Calls
      <3>3. c.marks = {} => /\ fds[c.id] = c.fd
                            /\ kernel[c.fd].mode \in {"connected", "failed"}
        BY <1>2, <2>2 DEF Alone, Undisturbed, KeepsSocket
      <3> QED
        BY <1>3, <1>6, <2>2, <3>1, <3>2, <3>3 DEF ConnectMeansConnected, Tables
    <2> QED
      BY <2>1, <2>2
  <1>16. \A i \in Ids : owner'[i] # a
    <2>1. c.op # "request"
      BY <1>2 DEF Waits
    <2> QED
      BY <1>3, <1>5, <2>1, OwnedBefore
  <1>17. \A d \in Actors \ {a} :
           wait'[d] = wait[d] /\ call'[d] \in {call[d], Marked(call[d], "shared")}
    BY <1>10
  <1>18. Tables(r)
    BY <1>3
  <1> QED
    BY <1>5, <1>7, <1>10, <1>11, <1>12, <1>13, <1>14, <1>15, <1>16, <1>17, <1>18, GrowInv

\* A request goes on to its next phase, or waits in the one it is in.
LEMMA RequestStepInv ==
  ASSUME Inv, NEW a \in Actors, RequestStep(a) PROVE Inv'
  <1> DEFINE c == call[a]
  <1>1. TypeOK /\ TablesSound(fds, kernel, owner) /\ c \in Calls
    BY DEF Inv, TypeOK
  <1>2. /\ wait[a] \in {"running", "ready", "retry"} /\ c # Idle /\ c.op = "request"
        /\ c.phase \in {"connect", "check", "send", "recv"}
        /\ KeepsSocket(a) /\ CallSound(a)
    BY <1>1 DEF RequestStep, Inv, CallSound
  <1>3. PICK r \in Try(c) :
          /\ Tables(r)
          /\ \/ /\ r.out = "block"
                /\ call' = [call EXCEPT ![a] = AfterBlock(a, c)]
                /\ wait' = [wait EXCEPT ![a] = WayToWait(a)]
             \/ /\ r.out # "block"
                /\ \E phase \in NextPhases(c.phase, r.out) : call' = [call EXCEPT ![a].phase = phase]
                /\ wait' = [wait EXCEPT ![a] = "running"]
    BY DEF RequestStep
  <1>4. result' = NoResult /\ UNCHANGED cur
    BY DEF RequestStep
  <1>5. Grows(r, c.id, "script")
    <2>1. c.phase \in Waits \cup {"check"}
      BY <1>2 DEF Waits
    <2> QED
      BY <1>1, <1>3, <2>1, TryGrows
  <1>6. PICK phase \in {"connect", "check", "send", "recv", "close"} :
          call' = [call EXCEPT ![a].phase = phase]
    <2>1. CASE r.out = "block" /\ call' = [call EXCEPT ![a] = AfterBlock(a, c)]
      <3>1. AfterBlock(a, c) = [c EXCEPT !.phase = IF c.phase = "connect" THEN "check" ELSE c.phase]
        BY <1>1, <1>2 DEF AfterBlock, Marked, Calls
      <3>2. call' = [call EXCEPT ![a].phase = IF c.phase = "connect" THEN "check" ELSE c.phase]
        BY <2>1, <3>1
      <3> QED
        BY <1>2, <3>2
    <2>2. CASE \E phase \in NextPhases(c.phase, r.out) : call' = [call EXCEPT ![a].phase = phase]
      <3>1. NextPhases(c.phase, r.out) \subseteq {"connect", "check", "send", "recv", "close"}
        BY <1>2 DEF NextPhases
      <3> QED
        BY <2>2, <3>1
    <2> QED
      BY <1>3, <2>1, <2>2
  <1>7. /\ \A d \in Actors \ {a} : wait'[d] = wait[d] /\ call'[d] = call[d]
        /\ call'[a] \in Calls /\ call'[a].op = "request" /\ call'[a].phase = phase
        /\ call'[a].id = c.id /\ call'[a].fd = c.fd /\ call'[a].marks = c.marks
        /\ call' \in [Actors -> Calls]
        /\ wait'[a] \in {"waiting", "blocking", "retry", "running"}
        /\ wait' \in [Actors -> WaitStates] /\ cur' \in BOOLEAN
    <2>1. [c EXCEPT !.phase = phase] \in Calls
      BY <1>1 DEF Calls, Waits
    <2>2. call'[a] = [c EXCEPT !.phase = phase] /\ \A d \in Actors \ {a} : call'[d] = call[d]
      BY <1>1, <1>6 DEF TypeOK
    <2>3. call' \in [Actors -> Calls]
      BY <1>1, <1>6, <2>1, <2>2 DEF TypeOK
    <2>4. /\ wait'[a] \in {"waiting", "blocking", "retry", "running"}
          /\ \A d \in Actors \ {a} : wait'[d] = wait[d]
          /\ wait' \in [Actors -> WaitStates] /\ cur' \in BOOLEAN
      BY <1>1, <1>3, <1>4 DEF TypeOK, WaitStates, WayToWait
    <2>5. /\ call'[a].op = c.op /\ call'[a].phase = phase
          /\ call'[a].id = c.id /\ call'[a].fd = c.fd /\ call'[a].marks = c.marks
      BY <1>1, <2>2 DEF Calls
    <2> QED
      BY <1>2, <2>1, <2>2, <2>3, <2>4, <2>5
  <1>8. \A b \in Actors \ {a} : Undisturbed(b)' =>
          /\ call[b].id # c.id \/ kernel' = kernel
          /\ call'[a] # Idle => call'[a].id # call[b].id
    BY <1>2, <1>7, GoesOn
  <1>9. CallSound(a)' /\ Alone(a)'
    BY <1>7 DEF CallSound, Alone, Undisturbed, Waits, Idle
  <1>10. KeepsSocket(a)'
    BY <1>2, <1>3, <1>5, <1>7 DEF KeepsSocket, ValidId, Tables, Grows
  <1>11. result' \in Results /\ ConnectMeansConnected'
    BY <1>4, NothingFacts DEF ConnectMeansConnected
  <1>12. \A i \in Ids : owner'[i] = a => call'[a].op = "request" /\ call'[a].id = i
    BY <1>3, <1>5, <1>7, OwnedBefore
  <1>13. \A d \in Actors \ {a} :
           wait'[d] = wait[d] /\ call'[d] \in {call[d], Marked(call[d], "shared")}
    BY <1>7
  <1>14. Tables(r) /\ "script" \notin Actors
    BY <1>3, ConstantFacts
  <1> QED
    BY <1>5, <1>7, <1>8, <1>9, <1>10, <1>11, <1>12, <1>13, <1>14, GrowInv

\* A request starts with a socket of its own, or does not start.
LEMMA StartRequestInv ==
  ASSUME Inv, NEW a \in Actors, StartRequest(a) PROVE Inv'
  <1> DEFINE r == Create("tcp", a)
             c == [op |-> "request", phase |-> "connect", id |-> Min(FreeSlots),
                   fd |-> Min(FreeFds), marks |-> {}]
  <1>1. TypeOK /\ TablesSound(fds, kernel, owner) /\ "tcp" \in Kinds
    BY DEF Inv, Kinds
  <1>2. /\ wait[a] = "no" /\ Tables(r) /\ result' = NoResult /\ UNCHANGED cur
        /\ IF r.out = "ok"
           THEN /\ call' = [call EXCEPT ![a] = c]
                /\ wait' = [wait EXCEPT ![a] = "running"]
           ELSE UNCHANGED <<call, wait>>
    BY DEF StartRequest
  <1>3. call[a] = Idle /\ Idle.op = "none" /\ \A i \in Ids : owner[i] # a
    BY <1>2, IdleFacts
  <1>4. /\ Grows(r, MaxSockets, a)
        /\ r.out \in {"ok", "error"}
        /\ r.out = "error" => r.fds = fds /\ r.owner = owner
        /\ r.out = "ok" =>
             /\ Min(FreeSlots) \in FreeSlots /\ Min(FreeFds) \in Fds
             /\ r.fds[Min(FreeSlots)] = Min(FreeFds)
             /\ r.owner = [owner EXCEPT ![Min(FreeSlots)] = a]
    BY <1>1, CreateGrows
  <1>5. r.out = "ok" =>
          /\ c.op = "request" /\ c.phase = "connect" /\ c.id = Min(FreeSlots)
          /\ c.fd = Min(FreeFds) /\ c.marks = {} /\ c \in Calls
    BY <1>4 DEF Calls, FreeSlots, Waits
  <1> HIDE DEF r, c
  <1>6. /\ \A d \in Actors \ {a} : wait'[d] = wait[d] /\ call'[d] = call[d]
        /\ r.out = "ok" => call'[a] = c /\ wait'[a] = "running"
        /\ r.out # "ok" => call'[a] = Idle /\ wait'[a] = "no"
        /\ call' \in [Actors -> Calls]
        /\ wait' \in [Actors -> WaitStates] /\ cur' \in BOOLEAN
    BY <1>1, <1>2, <1>3, <1>5 DEF TypeOK, WaitStates
  <1>7. result' \in Results /\ ConnectMeansConnected'
    BY <1>2, NothingFacts DEF ConnectMeansConnected
  <1>8. CallSound(a)' /\ Alone(a)'
    BY <1>3, <1>5, <1>6 DEF CallSound, Alone, Undisturbed, Waits
  <1>9. KeepsSocket(a)'
    BY <1>2, <1>3, <1>4, <1>5, <1>6, ConstantFacts DEF KeepsSocket, ValidId, Tables, FreeSlots
  <1>10. \A i \in Ids : owner'[i] = a => call'[a].op = "request" /\ call'[a].id = i
    <2>1. owner' = r.owner
      BY <1>2 DEF Tables
    <2>2. CASE r.out = "ok"
      BY <1>1, <1>3, <1>4, <1>5, <1>6, <2>1, <2>2 DEF TypeOK
    <2>3. CASE r.out # "ok"
      BY <1>3, <1>4, <2>1, <2>3
    <2> QED
      BY <2>2, <2>3
  <1>11. ASSUME NEW b \in Actors \ {a}, Undisturbed(b)'
         PROVE  /\ call[b].id # MaxSockets
                /\ call'[a] # Idle => call'[a].id # call[b].id
    <2>1. Undisturbed(b) /\ call[b] # Idle
      BY <1>3, <1>6, <1>11 DEF Undisturbed
    <2>2. ValidId(call[b].id)
      BY <2>1 DEF Inv, KeepsSocket, Undisturbed
    <2>3. call[b].id \in Ids /\ call[b].id \notin FreeSlots
      BY <2>2 DEF ValidId, FreeSlots
    <2> QED
      BY <1>4, <1>5, <1>6, <2>3, NothingFacts
  <1>12. \A b \in Actors \ {a} : Undisturbed(b)' =>
           /\ call[b].id # MaxSockets \/ kernel' = kernel
           /\ call'[a] # Idle => call'[a].id # call[b].id
    BY <1>11
  <1>13. \A d \in Actors \ {a} :
           wait'[d] = wait[d] /\ call'[d] \in {call[d], Marked(call[d], "shared")}
    BY <1>6
  <1> QED
    BY <1>2, <1>4, <1>6, <1>7, <1>8, <1>9, <1>10, <1>12, <1>13, GrowInv

\* A request ends by closing its slot.
LEMMA EndRequestInv ==
  ASSUME Inv, NEW a \in Actors, EndRequest(a) PROVE Inv'
  <1>1. /\ Tables(CloseSlot(call[a].id)) /\ call' = CutOff(a, call[a].id, Idle)
        /\ wait' = [wait EXCEPT ![a] = "no"] /\ result' = NoResult /\ UNCHANGED cur
    BY DEF EndRequest
  <1>2. call[a].id \in Ids
    BY DEF Inv, TypeOK, Calls
  <1>3. \A i \in Ids : owner[i] = a => i = call[a].id
    BY DEF Inv, OwnersSound
  <1> QED
    BY <1>1, <1>2, <1>3, CloseInv

\* Every step keeps the invariant.
LEMMA NextInv == Inv /\ [Next]_vars => Inv'
  <1> SUFFICES ASSUME Inv, [Next]_vars PROVE Inv'
    OBVIOUS
  <1>1. ASSUME NEW a \in Actors, Script(a) PROVE Inv'
    <2>1. CASE \E kind \in Kinds : Socket(a, kind)
      <3>1. wait[a] = "no" /\ 0 \in Ids /\ UNCHANGED cur
        BY <1>1, ConstantFacts DEF Script
      <3> QED
        BY <2>1, <3>1, SimpleCallsInv
    <2>2. CASE \E id \in Ids : Listen(a, id) \/ Close(a, id)
      <3>1. wait[a] = "no" /\ "tcp" \in Kinds /\ UNCHANGED cur
        BY <1>1 DEF Script, Kinds
      <3> QED
        BY <2>2, <3>1, SimpleCallsInv
    <2>3. CASE \E id \in Ids, op \in Waits : Begin(a, op, id)
      <3>1. wait[a] = "no" /\ UNCHANGED cur
        BY <1>1 DEF Script
      <3> QED
        BY <2>3, <3>1, BeginInv
    <2> QED
      BY <1>1, <2>1, <2>2, <2>3 DEF Script
  <1>2. ASSUME NEW a \in Actors, Step(a) PROVE Inv'
    BY <1>2, ResumeInv, RequestStepInv, EndRequestInv DEF Step
  <1>3. CASE BodiesComeAndGo \/ UNCHANGED vars
    <2>1. /\ UNCHANGED <<fds, kernel, call, wait, owner>>
          /\ result' = NoResult \/ result' = result
          /\ cur' \in BOOLEAN
      BY <1>3 DEF vars, BodiesComeAndGo, Inv, TypeOK
    <2>2. TypeOK' /\ TablesSound(fds, kernel, owner)' /\ OwnersSound' /\ ConnectMeansConnected'
      BY <2>1, NothingFacts DEF Inv, TypeOK, OwnersSound, ConnectMeansConnected
    <2>3. \A b \in Actors : CallSound(b)' /\ KeepsSocket(b)' /\ Alone(b)'
      BY <2>1 DEF Inv, CallSound, KeepsSocket, ValidId, Alone, Undisturbed, On
    <2> QED
      BY <2>2, <2>3 DEF Inv
  <1> QED
    BY <1>1, <1>2, <1>3, StartRequestInv, SelectInv, NetworkInv DEF Next

-----------------------------------------------------------------------------
\* The theorems

\* The tables, the calls and what each call waits for stay in step.
THEOREM Invariance == Spec => []Inv
  BY InitInv, NextInv, PTL DEF Spec

\* Every open descriptor is in exactly one slot, and a request leaves no
\* socket behind, however it ends (net_alloc_slot, net_close and every way
\* out of http_client_request).
THEOREM Nothing_Leaks == Spec => []NothingLeaks
  <1>1. ASSUME Inv PROVE NothingLeaks
    <2>1. TypeOK /\ TablesSound(fds, kernel, owner) /\ OwnersSound
      BY <1>1 DEF Inv
    <2>2. ASSUME NEW f \in Fds
          PROVE  Cardinality({id \in Ids : fds[id] = f}) = IF Open(f) THEN 1 ELSE 0
      <3>1. CASE Open(f)
        <4>1. PICK i \in Ids : fds[i] = f
          BY <2>1, <3>1 DEF TablesSound, Open
        <4>2. {id \in Ids : fds[id] = f} = {i}
          BY <2>1, <4>1, ConstantFacts DEF TablesSound
        <4> QED
          BY <3>1, <4>2, FS_Singleton
      <3>2. CASE ~Open(f)
        <4>1. {id \in Ids : fds[id] = f} = {}
          BY <2>1, <3>2 DEF TablesSound, Open
        <4> QED
          BY <3>2, <4>1, FS_EmptySet
      <3> QED
        BY <3>1, <3>2
    <2>3. ASSUME NEW id \in Ids
          PROVE  /\ owner[id] = "none" <=> fds[id] = NoFd
                 /\ owner[id] \in Actors => call[owner[id]].op = "request" /\ call[owner[id]].id = id
      BY <2>1 DEF TablesSound, OwnersSound
    <2> QED
      BY <2>1, <2>2, <2>3 DEF NothingLeaks
  <1> QED
    BY <1>1, Invariance, PTL

\* What a call waits for is what its index means, unless a script has closed
\* the index under it (the built-ins look the index up after every wait).
THEOREM Call_Keeps_Its_Socket == Spec => []CallKeepsItsSocket
  <1>1. Inv => CallKeepsItsSocket
    BY DEF Inv, KeepsSocket, CallKeepsItsSocket, RawFd
  <1> QED
    BY <1>1, Invariance, PTL

\* connect reports success on a connected socket, if it was alone on its
\* index and waited until its own descriptor was ready (net_connect,
\* net_connect_check, net_wait_fd).
THEOREM Connect_Means_Connected == Spec => []ConnectMeansConnected
  <1>1. Inv => ConnectMeansConnected
    BY DEF Inv
  <1> QED
    BY <1>1, Invariance, PTL
=============================================================================
