--------------------------- MODULE EventLoopProofs ---------------------------
(***************************************************************************)
(* Proofs about the event loop (module EventLoop) for any number of tasks, *)
(* any descriptors, any sleep durations and any delay of the clock.        *)
(*                                                                         *)
(* The inductive invariant is Inv: types, the agreement between a task's   *)
(* state and the reasons it waits for, and what holds inside select().     *)
(***************************************************************************)
EXTENDS EventLoop, FiniteSetTheorems, TLAPS

\* What Block has seen to and nothing changes until select() returns: the ways
\* out of it do not repeat the wake pass for awaiters.
InSelect ==
    core = "select" =>
        /\ \A t \in Tasks : state[t] # "ready" /\ ~AwaitOver(t)
        /\ CanBlock

Inv == TypeOK /\ WaitsAccounted /\ InSelect

\* The constants range over what LoopAssumption says, and 0 is no task.
LEMMA ConstantFacts ==
    /\ Tasks \subseteq Int
    /\ NoTask \notin Tasks
    /\ NoFd \notin Fds
    /\ NoTimer \notin Int
    /\ Sleeps \subseteq Int
  BY LoopAssumption DEF LoopAssumption, Tasks, NoTask

-----------------------------------------------------------------------------
\* The initial state satisfies the invariant.
LEMMA InitInv == Init => Inv
  <1> SUFFICES ASSUME Init PROVE Inv
    OBVIOUS
  <1> USE ConstantFacts
  <1>1. TypeOK
    BY DEF Init, TypeOK, TaskStates, Cores, Drives, Idle
  <1>2. WaitsAccounted
    BY DEF Init, WaitsAccounted, OneRuns, TimerSound, AwaitSound, Wakeable
  <1>3. InSelect
    BY DEF Init, InSelect
  <1> QED
    BY <1>1, <1>2, <1>3 DEF Inv

\* event_loop_spawn keeps the invariant.
LEMMA SpawnInv ==
    ASSUME Inv, NEW t \in Tasks, Spawn(t)
    PROVE  Inv'
  <1> USE ConstantFacts DEF Inv
  <1>1. TypeOK'
    BY DEF TypeOK, Spawn, TaskStates
  <1>2. WaitsAccounted'
    BY DEF TypeOK, Spawn, WaitsAccounted, OneRuns, TimerSound, AwaitSound,
           Wakeable
  <1>3. InSelect'
    BY DEF Spawn, InSelect
  <1> QED
    BY <1>1, <1>2, <1>3

\* Every suspension primitive, and the end of a body, keeps the invariant.
LEMMA YieldInv ==
    ASSUME Inv, NEW t \in Tasks, TaskYields(t)
    PROVE  Inv'
  <1> USE ConstantFacts DEF Inv, Yield
  <1>1. ASSUME NEW fd \in Fds, NEW w \in BOOLEAN, WaitFd(t, fd, w)
        PROVE  Inv'
    <2>1. TypeOK'
      BY <1>1 DEF TypeOK, WaitFd, TaskStates, Cores
    <2>2. WaitsAccounted'
      BY <1>1 DEF TypeOK, WaitFd, WaitsAccounted, OneRuns, TimerSound,
                  AwaitSound, Wakeable
    <2>3. InSelect'
      BY <1>1 DEF WaitFd, InSelect
    <2> QED
      BY <2>1, <2>2, <2>3
  <1>2. ASSUME NEW ms \in Sleeps, Sleep(t, ms)
        PROVE  Inv'
    <2>1. TypeOK'
      BY <1>2 DEF TypeOK, Sleep, TaskStates, Cores
    <2>2. WaitsAccounted'
      BY <1>2 DEF TypeOK, Sleep, WaitsAccounted, OneRuns, TimerSound,
                  AwaitSound, Wakeable
    <2>3. InSelect'
      BY <1>2 DEF Sleep, InSelect
    <2> QED
      BY <2>1, <2>2, <2>3
  <1>3. ASSUME NEW u \in Tasks, WaitTask(t, u)
        PROVE  Inv'
    <2>1. TypeOK'
      BY <1>3 DEF TypeOK, WaitTask, TaskStates, Cores
    <2>2. WaitsAccounted'
      BY <1>3 DEF TypeOK, WaitTask, WaitsAccounted, OneRuns, TimerSound,
                  AwaitSound, Wakeable, Pending, Spawned
    <2>3. InSelect'
      BY <1>3 DEF WaitTask, InSelect
    <2> QED
      BY <2>1, <2>2, <2>3
  <1>4. ASSUME NEW err \in BOOLEAN, Finish(t, err)
        PROVE  Inv'
    <2>1. TypeOK'
      BY <1>4 DEF TypeOK, Finish, TaskStates, Cores
    <2>2. WaitsAccounted'
      BY <1>4 DEF TypeOK, Finish, WaitsAccounted, OneRuns, TimerSound,
                  AwaitSound, Wakeable
    <2>3. InSelect'
      BY <1>4 DEF Finish, InSelect
    <2> QED
      BY <2>1, <2>2, <2>3
  <1> QED
    BY <1>1, <1>2, <1>3, <1>4 DEF TaskYields

\* Marking a daemon, and starting or stopping a drive, keeps the invariant.
LEMMA ScriptInv ==
    ASSUME Inv,
           \/ \E t, u \in Tasks : SetDaemon(t, u)
           \/ Script
           \/ StopDrive
    PROVE  Inv'
  <1> USE ConstantFacts DEF Inv
  <1>1. ASSUME NEW t \in Tasks, NEW u \in Tasks, SetDaemon(t, u)
        PROVE  Inv'
    BY <1>1 DEF SetDaemon, TypeOK, WaitsAccounted, OneRuns, TimerSound,
                AwaitSound, Wakeable, InSelect
  <1>2. ASSUME NEW d \in Drives, StartDrive(d)
        PROVE  Inv'
    BY <1>2 DEF StartDrive, taskVars, TypeOK, Cores, WaitsAccounted, OneRuns,
                TimerSound, AwaitSound, Wakeable, InSelect
  <1>3. Script => \E d \in Drives : StartDrive(d)
    <2>1. \A t \in Tasks : [kind |-> "await", target |-> t] \in Drives
      BY DEF Drives
    <2>2. \A k \in {"all", "foreground"} :
             [kind |-> k, target |-> NoTask] \in Drives
      BY DEF Drives
    <2> QED
      BY <2>1, <2>2 DEF Script
  <1>4. ASSUME StopDrive
        PROVE  Inv'
    <2>1. Idle \in Drives
      BY DEF Idle, Drives
    <2> QED
      BY <1>4, <2>1 DEF StopDrive, taskVars, TypeOK, Cores, WaitsAccounted,
                        OneRuns, TimerSound, AwaitSound, Wakeable,
                        InSelect
  <1> QED
    BY <1>1, <1>2, <1>3, <1>4

\* What the wake passes of run_once leave: a woken task was sleeping past its
\* deadline, or awaited a task that is done; nobody else changes.
LEMMA WokenFacts ==
    ASSUME Inv, NEW t \in Tasks
    PROVE  /\ Woken[t] \in TaskStates
           /\ Woken[t] # state[t] =>
                 /\ Woken[t] = "ready"
                 /\ \/ state[t] = "wait_task" /\ state[waitOn[t]] = "done"
                    \/ state[t] = "wait_io" /\ due[t] # NoTimer /\ due[t] <= 0
           /\ Woken[t] \in {"running", "done", "unborn"}
                 <=> state[t] \in {"running", "done", "unborn"}
  BY DEF Inv, TypeOK, TaskStates, Woken, AwaitOver, SleepOver, Sleeping

\* Only a runnable task is picked.
LEMMA PickFacts ==
    ASSUME Inv, NEW t \in Tasks, Pick(t)
    PROVE  /\ Woken[t] = "ready"
           /\ state[t] \in {"ready", "wait_io", "wait_task"}
  BY WokenFacts DEF Pick, Runnable, RunnableTimers, Inv, TypeOK, TaskStates

\* Resuming the picked task keeps the invariant.
LEMMA ResumeInv ==
    ASSUME Inv, NEW t \in Tasks, Resume(t)
    PROVE  Inv'
  <1> USE ConstantFacts
  <1>1. TypeOK'
    BY WokenFacts DEF Resume, Inv, TypeOK, TaskStates, Cores, Woken
  <1>2. \A u \in Tasks : state'[u] = IF u = t THEN "running" ELSE Woken[u]
    BY DEF Resume, Woken
  <1>3. OneRuns'
    BY <1>2, WokenFacts DEF Resume, Inv, TypeOK, WaitsAccounted, OneRuns
  <1>4. ASSUME NEW u \in Tasks
        PROVE  (TimerSound(u) /\ AwaitSound(u) /\ Wakeable(u))'
    <2>1. TimerSound(u) /\ AwaitSound(u) /\ Wakeable(u)
      BY DEF Inv, WaitsAccounted
    <2>2. /\ Woken[t] = "ready"
          /\ state[t] \in {"ready", "wait_io", "wait_task"}
      BY PickFacts DEF Resume
    <2>3. /\ u # t => due'[u] = due[u] /\ waitOn'[u] = waitOn[u]
          /\ due'[t] = NoTimer /\ waitOn'[t] = NoTask /\ waitFd' = waitFd
      BY DEF Resume, Inv, TypeOK
    <2>4. TimerSound(u)'
      BY <1>2, <2>1, <2>3, WokenFacts DEF TimerSound, Inv, TypeOK
    <2>5. AwaitSound(u)'
      <3>1. CASE u = t
        BY <3>1, <2>3 DEF AwaitSound
      <3>2. CASE u # t /\ waitOn[u] # NoTask
        <4>1. waitOn[u] \in Tasks
          BY <3>2 DEF Inv, TypeOK
        <4>2. Woken[u] = "ready" => state[waitOn[u]] = "done"
          BY <3>2, <2>1, WokenFacts DEF AwaitSound
        <4>3. state[waitOn[u]] = "done" => state'[waitOn[u]] = "done"
          BY <4>1, <1>2, <2>2, WokenFacts DEF Woken, AwaitOver, SleepOver, Sleeping
        <4>4. state'[waitOn[u]] # "unborn"
          BY <4>1, <3>2, <2>1, <1>2, WokenFacts DEF AwaitSound
        <4> QED
          BY <4>2, <4>3, <4>4, <3>2, <2>1, <2>3, <1>2, WokenFacts DEF AwaitSound
      <3> QED
        BY <3>1, <3>2, <2>3 DEF AwaitSound
    <2>6. Wakeable(u)'
      BY <1>2, <2>1, <2>3, WokenFacts DEF Wakeable
    <2> QED
      BY <2>4, <2>5, <2>6
  <1>5. InSelect'
    BY DEF Resume, InSelect
  <1> QED
    BY <1>1, <1>3, <1>4, <1>5 DEF Inv, WaitsAccounted

\* Entering select() keeps the invariant: nothing is ready, no awaiter's
\* target is done, and something will end the call.
LEMMA BlockInv ==
    ASSUME Inv, Block
    PROVE  Inv'
  <1> USE ConstantFacts
  <1>1. TypeOK' /\ WaitsAccounted'
    BY DEF Block, taskVars, Inv, TypeOK, Cores, WaitsAccounted, OneRuns,
           TimerSound, AwaitSound, Wakeable
  <1>2. \A t \in Tasks : state[t] # "ready" /\ ~AwaitOver(t)
    BY DEF Block, Runnable, Woken
  <1>3. InSelect'
    BY <1>2 DEF Block, taskVars, InSelect, AwaitOver, CanBlock,
                Watched, OnFd, Sleeping
  <1> QED
    BY <1>1, <1>3 DEF Inv

\* When run_once gives up, every unfinished task waits for an unfinished one.
LEMMA GiveUpFacts ==
    ASSUME Inv, GiveUp
    PROVE  /\ \A t \in Pending :
                 state[t] = "wait_task" /\ waitOn[t] \in Pending
           /\ Pending # {}
  <1> USE ConstantFacts
  <1>1. Pending # {}
    BY DEF GiveUp, DriveOver
  <1>2. ASSUME NEW t \in Pending
        PROVE  state[t] = "wait_task" /\ waitOn[t] \in Pending
    <2>1. /\ t \in Tasks
          /\ state[t] \notin {"unborn", "done"}
          /\ Woken[t] # "ready"
      BY DEF GiveUp, Pending, Spawned, Runnable
    <2>2. state[t] # "running"
      BY <2>1 DEF GiveUp, Inv, WaitsAccounted, OneRuns
    <2>3. state[t] # "ready" /\ ~AwaitOver(t)
      BY <2>1 DEF Woken
    <2>4. ~OnFd(t) /\ ~Sleeping(t)
      BY <2>1 DEF GiveUp, CanBlock, Watched
    <2>5. state[t] # "wait_io"
      BY <2>1, <2>4 DEF OnFd, Sleeping, Inv, WaitsAccounted, Wakeable
    <2>6. state[t] = "wait_task" /\ waitOn[t] # NoTask
      BY <2>1, <2>2, <2>3, <2>5 DEF Inv, TypeOK, TaskStates, WaitsAccounted,
                                    Wakeable
    <2>7. waitOn[t] \in Tasks /\ state[waitOn[t]] \notin {"unborn", "done"}
      BY <2>1, <2>3, <2>6 DEF AwaitOver, Inv, TypeOK, WaitsAccounted,
                              AwaitSound
    <2> QED
      BY <2>6, <2>7 DEF Pending, Spawned
  <1> QED
    BY <1>1, <1>2

\* Giving up keeps the invariant.
LEMMA GiveUpInv ==
    ASSUME Inv, GiveUp
    PROVE  Inv'
  <1> USE ConstantFacts
  <1>1. TypeOK'
    BY DEF GiveUp, Inv, TypeOK, TaskStates
  <1>2. \A t \in Tasks :
           state'[t] = IF state[t] = "unborn" THEN "unborn" ELSE "done"
    BY DEF GiveUp, Pending, Spawned
  <1>3. WaitsAccounted'
    <2>1. \A t \in Tasks : state[t] # "running"
      BY DEF GiveUp, Inv, WaitsAccounted, OneRuns
    <2>2. OneRuns'
      BY <1>2, <2>1 DEF GiveUp, Inv, TypeOK, WaitsAccounted, OneRuns
    <2>3. \A t \in Tasks : due[t] = NoTimer
      BY GiveUpFacts DEF Inv, WaitsAccounted, TimerSound, Pending, Spawned
    <2>4. \A t \in Tasks : TimerSound(t)' /\ Wakeable(t)'
      BY <1>2, <2>3 DEF GiveUp, TimerSound, Wakeable
    <2>5. \A t \in Tasks : AwaitSound(t)'
      BY <1>2 DEF GiveUp, AwaitSound, Inv, TypeOK, WaitsAccounted
    <2> QED
      BY <2>2, <2>4, <2>5 DEF WaitsAccounted
  <1>4. InSelect'
    BY DEF GiveUp, InSelect
  <1> QED
    BY <1>1, <1>3, <1>4 DEF Inv

\* However select() ends, only tasks that wait for I/O or for a deadline that
\* has passed become ready.
LEMMA SelectFacts ==
    ASSUME Inv, SelectEnds, NEW t \in Tasks
    PROVE  /\ \/ state'[t] = state[t]
              \/ /\ state[t] = "wait_io"
                 /\ state'[t] = "ready"
                 /\ \/ waitFd[t] # NoFd
                    \/ due[t] # NoTimer /\ due[t] <= 0
           /\ core = "select"
           /\ core' = "turn"
           /\ UNCHANGED <<waitFd, forWrite, due, waitOn, daemon, hasError,
                          current, drive>>
  BY DEF SelectEnds, SelectReturns, SelectInterrupted, SelectFails, taskVars,
         OnFd, SleepOver, Sleeping

\* Returning from select() keeps the invariant.
LEMMA SelectInv ==
    ASSUME Inv, SelectEnds
    PROVE  Inv'
  <1> USE ConstantFacts
  <1>1. state' \in [Tasks -> TaskStates]
    <2>1. DOMAIN state' = Tasks /\ state' = [t \in Tasks |-> state'[t]]
      BY DEF SelectEnds, SelectReturns, SelectInterrupted, SelectFails,
             taskVars, Inv, TypeOK
    <2> QED
      BY <2>1, SelectFacts DEF Inv, TypeOK, TaskStates
  <1>2. /\ core' = "turn" /\ core = "select"
        /\ UNCHANGED <<waitFd, forWrite, due, waitOn, daemon, hasError,
                       current, drive>>
    BY DEF SelectEnds, SelectReturns, SelectInterrupted, SelectFails, taskVars
  <1>3. TypeOK'
    BY <1>1, <1>2 DEF Inv, TypeOK, Cores
  <1>4. WaitsAccounted'
    <2>1. OneRuns'
      BY <1>2, SelectFacts DEF Inv, TypeOK, WaitsAccounted, OneRuns
    <2>2. ASSUME NEW t \in Tasks
          PROVE  TimerSound(t)' /\ Wakeable(t)'
      BY <1>2, SelectFacts DEF Inv, WaitsAccounted, TimerSound, Wakeable
    <2>3. ASSUME NEW t \in Tasks, waitOn[t] # NoTask
          PROVE  AwaitSound(t)'
      <3>1. AwaitSound(t) /\ waitOn[t] \in Tasks
        BY <2>3 DEF Inv, TypeOK, WaitsAccounted
      <3> QED
        BY <1>2, <2>3, <3>1, SelectFacts DEF AwaitSound
    <2> QED
      BY <1>2, <2>1, <2>2, <2>3 DEF WaitsAccounted, AwaitSound
  <1>5. InSelect'
    BY <1>2 DEF InSelect
  <1> QED
    BY <1>3, <1>4, <1>5 DEF Inv

\* Ranking the deadlines that have passed gives integers.
LEMMA PassedFacts ==
    ASSUME NEW d
    PROVE  Cardinality(PassedAfter(d)) \in Nat
  <1>1. IsFiniteSet(Tasks)
    BY LoopAssumption, FS_Interval DEF LoopAssumption, Tasks
  <1>2. PassedAfter(d) \in SUBSET Tasks
    BY DEF PassedAfter
  <1> QED
    BY <1>1, <1>2, FS_Subset, FS_CardinalityType

\* The clock keeps the invariant.
LEMMA TickInv ==
    ASSUME Inv, Tick
    PROVE  Inv'
  <1> USE ConstantFacts
  <1>1. ASSUME NEW t \in Tasks
        PROVE  /\ due[t] = NoTimer <=> due'[t] = NoTimer
               /\ due[t] # NoTimer => due[t] \in Int /\ due'[t] \in Int
               /\ due[t] # NoTimer /\ due[t] <= 0 => due'[t] <= 0
    BY PassedFacts DEF Tick, Inv, TypeOK
  <1>2. TypeOK'
    BY <1>1 DEF Tick, Inv, TypeOK
  <1>3. WaitsAccounted'
    BY <1>1 DEF Tick, Inv, WaitsAccounted, OneRuns, TimerSound, AwaitSound,
                Wakeable
  <1>4. InSelect'
    BY <1>1 DEF Tick, Inv, InSelect, AwaitOver, CanBlock, Watched,
                OnFd, Sleeping
  <1> QED
    BY <1>2, <1>3, <1>4 DEF Inv

\* The invariant is inductive.
LEMMA NextInv == Inv /\ [Next]_vars => Inv'
  <1> SUFFICES ASSUME Inv, [Next]_vars PROVE Inv'
    OBVIOUS
  <1>1. CASE \E t \in Tasks : Spawn(t) \/ TaskYields(t)
    BY <1>1, SpawnInv, YieldInv
  <1>2. CASE (\E t, u \in Tasks : SetDaemon(t, u)) \/ Script \/ StopDrive
    BY <1>2, ScriptInv
  <1>3. CASE \E t \in Tasks : Resume(t)
    BY <1>3, ResumeInv
  <1>4. CASE Block \/ GiveUp
    BY <1>4, BlockInv, GiveUpInv
  <1>5. CASE SelectEnds
    BY <1>5, SelectInv
  <1>6. CASE Tick
    BY <1>6, TickInv
  <1>7. CASE UNCHANGED vars
    BY <1>7 DEF vars, Inv, TypeOK, WaitsAccounted, OneRuns, TimerSound,
                AwaitSound, Wakeable, InSelect, AwaitOver,
                CanBlock, Watched, OnFd, Sleeping
  <1> QED
    BY <1>1, <1>2, <1>3, <1>4, <1>5, <1>6, <1>7 DEF Next, Turn

\* Every reachable state satisfies the inductive invariant.
THEOREM Invariance == Spec => []Inv
  BY InitInv, NextInv, PTL DEF Spec

-----------------------------------------------------------------------------
\* The variables of the loop always have their types.
THEOREM Typing == Spec => []TypeOK
  BY Invariance, PTL DEF Inv

\* A task's state always agrees with the reasons it waits for: at most one
\* task runs, no wait inherits a field of an earlier one, and every suspended
\* task has something that can wake it.
THEOREM WaitsAreAccounted == Spec => []WaitsAccounted
  BY Invariance, PTL DEF Inv

\* What one step may do to the state of a task.
LEMMA StepFacts ==
    ASSUME Inv, [Next]_vars, NEW t \in Tasks
    PROVE  /\ state[t] = "done" => state'[t] = "done"
           /\ state[t] = "wait_io" /\ state'[t] # "wait_io" =>
                 \/ waitFd[t] # NoFd
                 \/ due[t] # NoTimer /\ due[t] <= 0
           /\ state[t] # "running" /\ state'[t] = "running" => Resume(t)
           /\ state[t] \in {"ready", "wait_io", "wait_task"}
              /\ state'[t] = "done" => GiveUp
  <1> USE ConstantFacts DEF Inv
  <1>1. CASE \E u \in Tasks : Spawn(u) \/ TaskYields(u)
    <2>1. PICK u \in Tasks : Spawn(u) \/ TaskYields(u)
      BY <1>1
    <2>2. CASE Spawn(u)
      BY <2>2 DEF Spawn, TypeOK
    <2>3. CASE TaskYields(u)
      <3>1. state[u] = "running" /\ (t # u => state'[t] = state[t])
            /\ state'[u] \in {"wait_io", "wait_task", "done"}
        BY <2>3 DEF TaskYields, WaitFd, Sleep, WaitTask, Finish, Yield, TypeOK,
                    WaitsAccounted, OneRuns
      <3> QED
        BY <3>1
    <2> QED
      BY <2>1, <2>2, <2>3
  <1>2. CASE (\E u, v \in Tasks : SetDaemon(u, v)) \/ Script \/ StopDrive
             \/ Block \/ Tick \/ UNCHANGED vars
    <2>1. state' = state
      BY <1>2 DEF SetDaemon, Script, StartDrive, StopDrive, Block, Tick, vars,
                  taskVars
    <2> QED
      BY <2>1
  <1>3. CASE \E u \in Tasks : Resume(u)
    <2>1. PICK u \in Tasks : Resume(u)
      BY <1>3
    <2>2. state'[t] = IF t = u THEN "running" ELSE Woken[t]
      BY <2>1 DEF Resume, Woken
    <2>3. Woken[u] = "ready"
      BY <2>1, PickFacts DEF Resume
    <2> QED
      BY <2>1, <2>2, <2>3, WokenFacts
  <1>4. CASE GiveUp
    <2>1. state'[t] = IF t \in Pending THEN "done" ELSE state[t]
      BY <1>4 DEF GiveUp
    <2> QED
      BY <1>4, <2>1, GiveUpFacts DEF Pending, Spawned
  <1>5. CASE SelectEnds
    BY <1>5, SelectFacts
  <1> QED
    BY <1>1, <1>2, <1>3, <1>4, <1>5 DEF Next, Turn

\* Neither an fd event, nor a failing select(), nor the deadlock exit ends a
\* myon.time.sleep_ms before its deadline.
THEOREM SleepsAreServed == Spec => NoEarlyWakeup
  <1>1. Inv /\ [Next]_vars =>
           [\A t \in Tasks :
               Sleeping(t) /\ state'[t] # "wait_io" => due[t] <= 0]_vars
    BY StepFacts DEF Sleeping
  <1> QED
    BY <1>1, Invariance, PTL DEF Spec, NoEarlyWakeup

\* The outcome that await reads from a finished task never changes.
THEOREM OutcomesAreFinal == Spec => OutcomeIsFinal
  <1>1. Inv /\ [Next]_vars =>
           [\A t \in Tasks : state[t] = "done"
               => state'[t] = "done" /\ hasError'[t] = hasError[t]]_vars
    <2> SUFFICES ASSUME Inv, [Next]_vars, NEW t \in Tasks, state[t] = "done"
                 PROVE  state'[t] = "done" /\ hasError'[t] = hasError[t]
      OBVIOUS
    <2>1. state'[t] = "done"
      BY StepFacts
    <2>2. CASE GiveUp
      <3>1. t \notin Pending
        BY DEF Pending
      <3>2. hasError'[t] = (t \in Pending \/ hasError[t])
        BY <2>2 DEF GiveUp
      <3>3. hasError[t] \in BOOLEAN
        BY DEF Inv, TypeOK
      <3> QED
        BY <2>1, <3>1, <3>2, <3>3
    <2>3. CASE \E u \in Tasks, err \in BOOLEAN : Finish(u, err)
      <3>1. PICK u \in Tasks, err \in BOOLEAN : Finish(u, err)
        BY <2>3
      <3>2. u # t
        BY <3>1 DEF Finish, Yield, Inv, WaitsAccounted, OneRuns
      <3> QED
        BY <2>1, <3>1, <3>2 DEF Finish, Inv, TypeOK
    <2>4. CASE UNCHANGED hasError
      BY <2>1, <2>4
    <2>5. UNCHANGED hasError \/ GiveUp
          \/ \E u \in Tasks, err \in BOOLEAN : Finish(u, err)
      BY DEF Next, Turn, Spawn, TaskYields, WaitFd, Sleep, WaitTask, SetDaemon,
             Script, StartDrive, StopDrive, Resume, Block, SelectEnds,
             SelectReturns, SelectInterrupted, SelectFails, Tick, vars,
             taskVars
    <2> QED
      BY <2>1, <2>2, <2>3, <2>4, <2>5
  <1> QED
    BY <1>1, Invariance, PTL DEF Spec, OutcomeIsFinal

\* Tasks are written off only when all the unfinished ones wait for each
\* other.
THEOREM GiveUpIsSound == Spec => GiveUpOnlyWhenStuck
  <1>1. Inv /\ [Next]_vars =>
           [(\E t \in Tasks : state[t] \in {"ready", "wait_io", "wait_task"}
                              /\ state'[t] = "done")
            => \A u \in Pending :
                  state[u] = "wait_task" /\ waitOn[u] \in Pending]_vars
    BY StepFacts, GiveUpFacts
  <1> QED
    BY <1>1, Invariance, PTL DEF Spec, GiveUpOnlyWhenStuck

\* A sleeper is resumed before every sleeper with a later deadline.
THEOREM SleepersInOrder == Spec => SleepersResumeInOrder
  <1>1. ASSUME Inv, NEW t \in Tasks, NEW u \in Tasks, Resume(t),
               due[t] # NoTimer, u # t, u \in Pending, due[u] # NoTimer
        PROVE  due[t] <= due[u]
    <2>1. due[t] \in Int /\ due[u] \in Int
      BY <1>1 DEF Inv, TypeOK
    <2>2. t \in RunnableTimers
      BY <1>1, PickFacts DEF Resume, RunnableTimers, Runnable
    <2>3. CASE u \in RunnableTimers
      BY <1>1, <2>1, <2>2, <2>3 DEF Resume, Pick
    <2>4. CASE u \notin RunnableTimers
      <3>1. Woken[u] # "ready"
        BY <1>1, <2>4 DEF RunnableTimers, Runnable
      <3>2. state[u] = "wait_io" /\ waitFd[u] = NoFd
        BY <1>1, <3>1 DEF Woken, Inv, WaitsAccounted, TimerSound
      <3>3. due[u] > 0
        BY <1>1, <2>1, <3>1, <3>2 DEF Woken, SleepOver, Sleeping
      <3>4. due[t] <= 0
        BY <1>1, <2>1, <2>2, WokenFacts
           DEF RunnableTimers, Runnable, Inv, WaitsAccounted, TimerSound
      <3> QED
        BY <2>1, <3>3, <3>4
    <2> QED
      BY <2>3, <2>4
  <1>2. Inv /\ [Next]_vars =>
           [\A t, u \in Tasks :
               /\ Resumed(t) /\ due[t] # NoTimer
               /\ u # t /\ u \in Pending /\ due[u] # NoTimer
               => due[t] <= due[u]]_vars
    BY <1>1, StepFacts DEF Resumed
  <1> QED
    BY <1>2, Invariance, PTL DEF Spec, SleepersResumeInOrder

-----------------------------------------------------------------------------
\* The scheduler implements the coroutines of module Coroutines.

\* The abstract phase of a task.
LEMMA PhaseFacts ==
    ASSUME Inv, NEW t \in Tasks
    PROVE  /\ phase[t] = "suspended"
                 <=> state[t] \in {"ready", "wait_io", "wait_task"}
           /\ phase[t] = "running" <=> state[t] = "running"
           /\ phase[t] = "done" <=> state[t] = "done"
           /\ phase[t] = "unborn" <=> state[t] = "unborn"
  BY DEF phase, Inv, TypeOK, TaskStates

\* A scheduler step that leaves every task in its phase is a stutter.
LEMMA Stutters ==
    ASSUME Inv, UNCHANGED <<waitOn, hasError>>,
           \A t \in Tasks :
              \/ state'[t] = state[t]
              \/ {state[t], state'[t]} \subseteq {"ready", "wait_io", "wait_task"}
    PROVE  UNCHANGED Abstract!vars
  BY DEF phase, Abstract!vars

\* A task that gives up control suspends, awaits or finishes.
LEMMA YieldRefines ==
    ASSUME Inv, NEW t \in Tasks, TaskYields(t)
    PROVE  Abstract!Next
  <1>1. /\ state[t] = "running"
        /\ \E s \in {"wait_io", "wait_task", "done"} :
              state' = [state EXCEPT ![t] = s]
    BY DEF TaskYields, WaitFd, Sleep, WaitTask, Finish, Yield, Inv,
           WaitsAccounted, OneRuns
  <1>2. ASSUME NEW fd \in Fds, NEW w \in BOOLEAN, WaitFd(t, fd, w)
        PROVE  Abstract!Suspend(t)
    BY <1>1, <1>2 DEF WaitFd, Yield, Abstract!Suspend, phase, Inv, TypeOK
  <1>3. ASSUME NEW ms \in Sleeps, Sleep(t, ms)
        PROVE  Abstract!Suspend(t)
    BY <1>1, <1>3 DEF Sleep, Yield, Abstract!Suspend, phase, Inv, TypeOK
  <1>4. ASSUME NEW u \in Tasks, WaitTask(t, u)
        PROVE  Abstract!Await(t, u)
    BY <1>1, <1>4, PhaseFacts
       DEF WaitTask, Yield, Pending, Spawned, Abstract!Await, phase, Inv, TypeOK
  <1>5. ASSUME NEW err \in BOOLEAN, Finish(t, err)
        PROVE  Abstract!Finish(t, err)
    BY <1>1, <1>5 DEF Finish, Yield, Abstract!Finish, phase, Inv, TypeOK
  <1> QED
    BY <1>2, <1>3, <1>4, <1>5 DEF TaskYields, Abstract!Next

\* Resuming the picked task is the abstract Run.
LEMMA ResumeRefines ==
    ASSUME Inv, NEW t \in Tasks, Resume(t)
    PROVE  Abstract!Run(t)
  <1> USE ConstantFacts
  <1>1. /\ Woken[t] = "ready"
        /\ state[t] \in {"ready", "wait_io", "wait_task"}
    BY PickFacts DEF Resume
  <1>2. phase[t] = "suspended"
    BY <1>1, PhaseFacts
  <1>3. \A u \in Tasks : phase[u] # "running"
    BY PhaseFacts DEF Resume, Inv, WaitsAccounted, OneRuns
  <1>4. waitOn[t] # NoTask => phase[waitOn[t]] = "done"
    <2> SUFFICES ASSUME waitOn[t] # NoTask PROVE phase[waitOn[t]] = "done"
      OBVIOUS
    <2>1. waitOn[t] \in Tasks /\ AwaitSound(t) /\ TimerSound(t)
      BY DEF Inv, TypeOK, WaitsAccounted
    <2>2. state[waitOn[t]] = "done"
      BY <1>1, <2>1, WokenFacts DEF AwaitSound
    <2> QED
      BY <2>1, <2>2, PhaseFacts
  <1>5. phase' = [phase EXCEPT ![t] = "running"]
    <2>1. \A u \in Tasks : state'[u] = IF u = t THEN "running" ELSE Woken[u]
      BY DEF Resume, Woken
    <2>2. \A u \in Tasks :
             phase'[u] = IF u = t THEN "running" ELSE phase[u]
      BY <2>1, WokenFacts DEF phase
    <2>3. phase' = [u \in Tasks |-> phase'[u]]
          /\ phase = [u \in Tasks |-> phase[u]]
      BY DEF phase
    <2> QED
      BY <2>2, <2>3
  <1>6. waitOn' = [waitOn EXCEPT ![t] = NoTask] /\ hasError' = hasError
    BY DEF Resume
  <1> QED
    BY <1>2, <1>3, <1>4, <1>5, <1>6 DEF Abstract!Run

\* The deadlock exit is the abstract Abandon.
LEMMA GiveUpRefines ==
    ASSUME Inv, GiveUp
    PROVE  Abstract!Abandon
  <1>1. PICK t \in Pending : TRUE
    BY GiveUpFacts
  <1>2. \A u \in Pending : Abstract!Stuck(u)
    <2> SUFFICES ASSUME NEW u \in Pending PROVE Abstract!Stuck(u)
      OBVIOUS
    <2>1. /\ u \in Tasks /\ state[u] = "wait_task"
          /\ waitOn[u] \in Pending /\ waitOn[u] \in Tasks
          /\ state[waitOn[u]] = "wait_task"
      BY GiveUpFacts DEF Pending, Spawned
    <2>2. waitOn[u] # NoTask
      BY <2>1, ConstantFacts
    <2> QED
      BY <2>1, <2>2, PhaseFacts DEF Abstract!Stuck
  <1>3. \A u \in Tasks :
           u \in Pending \/ phase[u] \in {"unborn", "done"}
    BY PhaseFacts DEF Pending, Spawned
  <1>4. phase' = [u \in Tasks |->
                     IF phase[u] = "suspended" THEN "done" ELSE phase[u]]
    <2>1. \A u \in Tasks :
             state'[u] = IF u \in Pending THEN "done" ELSE state[u]
      BY DEF GiveUp
    <2>2. \A u \in Tasks :
             phase'[u] = IF phase[u] = "suspended" THEN "done" ELSE phase[u]
      BY <2>1, PhaseFacts, GiveUpFacts DEF phase, Pending, Spawned
    <2> QED
      BY <2>2 DEF phase
  <1>5. hasError' = [u \in Tasks |-> phase[u] = "suspended" \/ hasError[u]]
    <2>1. \A u \in Tasks : phase[u] = "suspended" <=> u \in Pending
      BY PhaseFacts, GiveUpFacts DEF Pending, Spawned
    <2>2. hasError' = [u \in Tasks |-> u \in Pending \/ hasError[u]]
      BY DEF GiveUp
    <2> QED
      BY <2>1, <2>2
  <1> QED
    BY <1>1, <1>2, <1>3, <1>4, <1>5
       DEF GiveUp, Abstract!Abandon, Pending, Spawned

\* Every step of the loop is a step of the abstract coroutines, or a stutter.
LEMMA NextRefines == Inv /\ [Next]_vars => [Abstract!Next]_(Abstract!vars)
  <1> SUFFICES ASSUME Inv, [Next]_vars
               PROVE  Abstract!Next \/ UNCHANGED Abstract!vars
    OBVIOUS
  <1>1. CASE \E t \in Tasks : Spawn(t)
    <2>1. PICK t \in Tasks : Spawn(t)
      BY <1>1
    <2>2. Abstract!Spawn(t)
      BY <2>1 DEF Spawn, Abstract!Spawn, phase, Inv, TypeOK
    <2> QED
      BY <2>2 DEF Abstract!Next
  <1>2. CASE \E t \in Tasks : TaskYields(t)
    BY <1>2, YieldRefines
  <1>3. CASE \E t \in Tasks : Resume(t)
    BY <1>3, ResumeRefines DEF Abstract!Next
  <1>4. CASE GiveUp
    BY <1>4, GiveUpRefines DEF Abstract!Next
  <1>5. CASE SelectEnds
    <2>1. UNCHANGED <<waitOn, hasError>>
      BY <1>5 DEF SelectEnds, SelectReturns, SelectInterrupted, SelectFails,
                  taskVars
    <2> QED
      BY <1>5, <2>1, SelectFacts, Stutters
  <1>6. CASE (\E u, v \in Tasks : SetDaemon(u, v)) \/ Script \/ StopDrive
             \/ Block \/ Tick \/ UNCHANGED vars
    <2>1. UNCHANGED <<state, waitOn, hasError>>
      BY <1>6 DEF SetDaemon, Script, StartDrive, StopDrive, Block, Tick, vars,
                  taskVars
    <2> QED
      BY <2>1, Stutters
  <1> QED
    BY <1>1, <1>2, <1>3, <1>4, <1>5, <1>6 DEF Next, Turn

\* Timers, descriptors, list order and the select() error paths never show:
\* the scheduler does only what async and await promise.
THEOREM Implementation == Spec => Refines
  <1>1. Init => Abstract!Init
    BY DEF Init, Abstract!Init, phase
  <1> QED
    BY <1>1, NextRefines, Invariance, PTL DEF Spec, Refines, Abstract!Spec

=============================================================================
