------------------------------ MODULE EventLoop ------------------------------
(***************************************************************************)
(* The single-threaded cooperative event loop of src/event_loop.c (the     *)
(* ucontext build; the Win32 fiber build has the same scheduler).          *)
(*                                                                         *)
(* A task keeps its C stack across a suspension, so between two points     *)
(* where it gives up control nothing else runs: one action is one such     *)
(* stretch of C code.  Interleaving comes from the clock, from select()    *)
(* and from which task the core resumes next.                              *)
(*                                                                         *)
(* Absolute times are kept relative to now_ms(): due[t] is                 *)
(* wake_at_ms - now_ms(), NoTimer where the code stores 0.  Deadlines that *)
(* have passed are only ever compared with one another, so Tick keeps      *)
(* their order (0 for the latest, negative before) and not the distances.  *)
(*                                                                         *)
(* run_once is turned from the main stack only.  The interpreter has a     *)
(* path that breaks this rule; module AsyncInterp is about it.             *)
(*                                                                         *)
(* An operator named Bad... is a plausible mistake in the definition that  *)
(* follows it; PROJECT.json names the property that rules it out.          *)
(***************************************************************************)
EXTENDS Integers, FiniteSets

CONSTANTS
    MaxTasks,  \* bound: tasks spawned in one behaviour
    Fds,       \* file descriptors a task may wait on
    NoFd,      \* waiting_fd = -1
    Sleeps,    \* durations passed to event_loop_sleep_ms (0 is not passed on)
    NoTimer    \* wake_at_ms = 0

ASSUME LoopAssumption ==
    /\ MaxTasks \in Nat \ {0}
    /\ NoFd \notin Fds
    /\ Sleeps \subseteq Nat \ {0}
    /\ NoTimer \notin Int

Tasks == 1..MaxTasks       \* numbered in spawn order, the order of loop->tasks
NoTask == 0

VARIABLES
    state,     \* Task.state; "unborn" until spawned
    waitFd,    \* Task.waiting_fd
    forWrite,  \* Task.waiting_for_write
    due,       \* Task.wake_at_ms - now_ms()
    waitOn,    \* Task.waiting_on
    daemon,    \* Task.is_daemon
    hasError,  \* Task.has_error
    current,   \* EventLoop.current
    core,      \* what the main stack is doing
    drive      \* which caller turns the loop, and until when

taskVars == <<state, waitFd, forWrite, due, waitOn, daemon, hasError>>
vars == <<state, waitFd, forWrite, due, waitOn, daemon, hasError,
          current, core, drive>>

TaskStates == {"unborn", "ready", "running", "wait_io", "wait_task", "done"}
Cores == {"script", "turn", "task", "select", "exit"}
Drives == [kind : {"none", "all", "foreground"}, target : {NoTask}]
          \union [kind : {"await"}, target : Tasks]

Idle == [kind |-> "none", target |-> NoTask]

TypeOK ==
    /\ state \in [Tasks -> TaskStates]
    /\ waitFd \in [Tasks -> Fds \union {NoFd}]
    /\ forWrite \in [Tasks -> BOOLEAN]
    /\ due \in [Tasks -> Int \union {NoTimer}]
    /\ waitOn \in [Tasks -> Tasks \union {NoTask}]
    /\ daemon \in [Tasks -> BOOLEAN]
    /\ hasError \in [Tasks -> BOOLEAN]
    /\ current \in Tasks \union {NoTask}
    /\ core \in Cores
    /\ drive \in Drives

-----------------------------------------------------------------------------
\* Views of the task list

Spawned == {t \in Tasks : state[t] # "unborn"}
Pending == {t \in Spawned : state[t] # "done"}
ForegroundPending == {t \in Pending : ~daemon[t]}

OnFd(t) == state[t] = "wait_io" /\ waitFd[t] # NoFd
Sleeping(t) == state[t] = "wait_io" /\ waitFd[t] = NoFd /\ due[t] # NoTimer

Watched == {<<waitFd[t], forWrite[t]>> : t \in {u \in Tasks : OnFd(u)}}

BadAwaitOver(t) == state[t] = "wait_task" /\ waitOn[t] # NoTask

\* wake_task_waiters: the task that would be woken now
AwaitOver(t) ==
    /\ state[t] = "wait_task"
    /\ waitOn[t] # NoTask
    /\ state[waitOn[t]] = "done"

\* wake_sleepers
SleepOver(t) == Sleeping(t) /\ due[t] <= 0

\* The states after the two wake passes that open every run_once.
Woken ==
    [t \in Tasks |-> IF AwaitOver(t) \/ SleepOver(t) THEN "ready" ELSE state[t]]

Runnable == {t \in Tasks : Woken[t] = "ready"}
RunnableTimers == {t \in Runnable : due[t] # NoTimer}

BadPick(t) == t \in Runnable /\ \A u \in Runnable : t <= u

\* pick_ready: the earliest deadline among timers, the first in list order
\* among equals; without timers the first runnable task of the list.
Pick(t) ==
    IF RunnableTimers # {}
    THEN /\ t \in RunnableTimers
         /\ \A u \in RunnableTimers :
               due[t] < due[u] \/ (due[t] = due[u] /\ t <= u)
    ELSE /\ t \in Runnable
         /\ \A u \in Runnable : t <= u

-----------------------------------------------------------------------------
Init ==
    /\ state = [t \in Tasks |-> "unborn"]
    /\ waitFd = [t \in Tasks |-> NoFd]
    /\ forWrite = [t \in Tasks |-> FALSE]
    /\ due = [t \in Tasks |-> NoTimer]
    /\ waitOn = [t \in Tasks |-> NoTask]
    /\ daemon = [t \in Tasks |-> FALSE]
    /\ hasError = [t \in Tasks |-> FALSE]
    /\ current = NoTask
    /\ core = "script"
    /\ drive = Idle

\* event_loop_spawn, by the script or by the running task: a new READY task
\* at the end of the list.
Spawn(t) ==
    /\ core \in {"script", "task"}
    /\ state[t] = "unborn"
    /\ \A u \in Tasks : u < t => state[u] # "unborn"
    /\ state' = [state EXCEPT ![t] = "ready"]
    /\ UNCHANGED <<waitFd, forWrite, due, waitOn, daemon, hasError,
                   current, core, drive>>

\* The running task t calls a suspension primitive and the core goes on.
Yield(t, newState) ==
    /\ core = "task"
    /\ current = t
    /\ state' = [state EXCEPT ![t] = newState]
    /\ current' = NoTask
    /\ core' = "turn"
    /\ UNCHANGED <<daemon, drive>>

BadWaitFd(t, fd, w) ==
    /\ Yield(t, "ready")
    /\ waitFd' = [waitFd EXCEPT ![t] = fd]
    /\ forWrite' = [forWrite EXCEPT ![t] = w]
    /\ UNCHANGED <<due, waitOn, hasError>>

\* event_loop_wait_readable (w = FALSE) and event_loop_wait_writable
WaitFd(t, fd, w) ==
    /\ Yield(t, "wait_io")
    /\ waitFd' = [waitFd EXCEPT ![t] = fd]
    /\ forWrite' = [forWrite EXCEPT ![t] = w]
    /\ UNCHANGED <<due, waitOn, hasError>>

BadSleep(t, ms) ==
    /\ Yield(t, "wait_io")
    /\ due' = [due EXCEPT ![t] = ms]
    /\ UNCHANGED <<waitFd, forWrite, waitOn, hasError>>

\* event_loop_sleep_ms: no descriptor, a deadline
Sleep(t, ms) ==
    /\ Yield(t, "wait_io")
    /\ due' = [due EXCEPT ![t] = ms]
    /\ waitFd' = [waitFd EXCEPT ![t] = NoFd]
    /\ UNCHANGED <<forWrite, waitOn, hasError>>

\* event_loop_wait_task returns at once when the target is done.
WaitTask(t, u) ==
    /\ u \in Pending
    /\ Yield(t, "wait_task")
    /\ waitOn' = [waitOn EXCEPT ![t] = u]
    /\ UNCHANGED <<waitFd, forWrite, due, hasError>>

\* The entry records its outcome (event_loop_task_set_result) and returns.
Finish(t, err) ==
    /\ Yield(t, "done")
    /\ hasError' = [hasError EXCEPT ![t] = err]
    /\ UNCHANGED <<waitFd, forWrite, due, waitOn>>

\* http_run_server marks the accept loop it has just spawned, and itself.
SetDaemon(t, u) ==
    /\ core = "task"
    /\ current = t
    /\ \/ u = t
       \/ u \in Spawned /\ \A v \in Spawned : v <= u
    /\ daemon' = [daemon EXCEPT ![u] = TRUE]
    /\ UNCHANGED <<state, waitFd, forWrite, due, waitOn, hasError,
                   current, core, drive>>

-----------------------------------------------------------------------------
\* The main stack: the script, and the loops that turn the event loop.

\* await_task at top level, event_loop_run_until_all_done (a top-level
\* server) and event_loop_run_until_foreground_done (program exit).
StartDrive(d) ==
    /\ core = "script"
    /\ d.kind = "await" => d.target \in Spawned
    /\ drive' = d
    /\ core' = "turn"
    /\ UNCHANGED taskVars
    /\ UNCHANGED current

DriveOver ==
    \/ Pending = {}
    \/ drive.kind = "await" /\ state[drive.target] = "done"
    \/ drive.kind = "foreground" /\ ForegroundPending = {}

\* The while condition fails, or run_once returned 0.
StopDrive ==
    /\ core = "turn"
    /\ DriveOver
    /\ core' = IF drive.kind = "foreground" THEN "exit" ELSE "script"
    /\ drive' = Idle
    /\ UNCHANGED taskVars
    /\ UNCHANGED current

\* event_loop_run_once, a task is runnable: resume_task, and the first
\* statement after the swapcontext of the primitive that suspended it.
Resume(t) ==
    /\ core = "turn"
    /\ ~DriveOver
    /\ Pick(t)
    /\ state' = [Woken EXCEPT ![t] = "running"]
    /\ due' = [due EXCEPT ![t] = NoTimer]
    /\ waitOn' = [waitOn EXCEPT ![t] = NoTask]
    /\ current' = t
    /\ core' = "task"
    /\ UNCHANGED <<waitFd, forWrite, daemon, hasError, drive>>

BadCanBlock == Watched # {}

\* have_fd, or a timeout for select() (ptv # NULL)
CanBlock == Watched # {} \/ \E t \in Tasks : Sleeping(t)

\* event_loop_run_once, nothing runnable: enter select().
Block ==
    /\ core = "turn"
    /\ ~DriveOver
    /\ Runnable = {}
    /\ CanBlock
    /\ core' = "select"
    /\ UNCHANGED taskVars
    /\ UNCHANGED <<current, drive>>

\* event_loop_run_once, nothing runnable and nothing to wait for.
GiveUp ==
    /\ core = "turn"
    /\ ~DriveOver
    /\ Runnable = {}
    /\ ~CanBlock
    /\ state' = [t \in Tasks |-> IF t \in Pending THEN "done" ELSE state[t]]
    /\ hasError' = [t \in Tasks |-> t \in Pending \/ hasError[t]]
    /\ UNCHANGED <<waitFd, forWrite, due, waitOn, daemon, current, core, drive>>

-----------------------------------------------------------------------------
\* select() returns.

\* The descriptors of R are ready (none of them: the timeout elapsed).
SelectReturns(R) ==
    /\ core = "select"
    /\ R = {} => \E t \in Tasks : SleepOver(t)
    /\ state' = [t \in Tasks |->
                    IF \/ OnFd(t) /\ <<waitFd[t], forWrite[t]>> \in R
                       \/ SleepOver(t)
                    THEN "ready" ELSE state[t]]
    /\ core' = "turn"
    /\ UNCHANGED <<waitFd, forWrite, due, waitOn, daemon, hasError,
                   current, drive>>

\* rc < 0 with errno = EINTR
SelectInterrupted ==
    /\ core = "select"
    /\ core' = "turn"
    /\ UNCHANGED taskVars
    /\ UNCHANGED <<current, drive>>

BadSelectFails ==
    /\ core = "select"
    /\ Watched # {}
    /\ state' = [t \in Tasks |->
                    IF state[t] = "wait_io" THEN "ready" ELSE state[t]]
    /\ core' = "turn"
    /\ UNCHANGED <<waitFd, forWrite, due, waitOn, daemon, hasError,
                   current, drive>>

\* rc < 0 otherwise: every descriptor waiter is woken to see the error
SelectFails ==
    /\ core = "select"
    /\ Watched # {}
    /\ state' = [t \in Tasks |-> IF OnFd(t) THEN "ready" ELSE state[t]]
    /\ core' = "turn"
    /\ UNCHANGED <<waitFd, forWrite, due, waitOn, daemon, hasError,
                   current, drive>>

\* The tasks whose deadlines lie after d and will have passed in 1 ms
PassedAfter(d) == {t \in Tasks : due[t] # NoTimer /\ d < due[t] /\ due[t] <= 1}

\* now_ms() advances, whatever the process is doing.
Tick ==
    /\ core # "exit"
    /\ \E t \in Tasks : due[t] # NoTimer
    /\ due' = [t \in Tasks |->
                  IF due[t] = NoTimer THEN NoTimer
                  ELSE IF due[t] > 1 THEN due[t] - 1
                  ELSE -Cardinality(PassedAfter(due[t]))]
    /\ UNCHANGED <<state, waitFd, forWrite, waitOn, daemon, hasError,
                   current, core, drive>>

-----------------------------------------------------------------------------
TaskYields(t) ==
    \/ \E fd \in Fds, w \in BOOLEAN : WaitFd(t, fd, w)
    \/ \E ms \in Sleeps : Sleep(t, ms)
    \/ \E u \in Tasks : WaitTask(t, u)
    \/ \E err \in BOOLEAN : Finish(t, err)

Script ==
    \/ \E t \in Tasks : StartDrive([kind |-> "await", target |-> t])
    \/ \E k \in {"all", "foreground"} :
          StartDrive([kind |-> k, target |-> NoTask])

Turn == StopDrive \/ (\E t \in Tasks : Resume(t)) \/ Block \/ GiveUp

SelectEnds ==
    \/ \E R \in SUBSET Watched : SelectReturns(R)
    \/ SelectInterrupted
    \/ SelectFails

Next ==
    \/ \E t \in Tasks : Spawn(t) \/ TaskYields(t)
    \/ \E t, u \in Tasks : SetDaemon(t, u)
    \/ Script
    \/ Turn
    \/ SelectEnds
    \/ Tick

Spec == Init /\ [][Next]_vars

\* The loop is one thread that is never left runnable and idle, the clock
\* advances, and a task body reaches its next await, I/O call or end.
FairSpec ==
    /\ Spec
    /\ WF_vars(Turn)
    /\ WF_vars(Tick)
    /\ WF_vars(\E t \in Tasks : TaskYields(t))
    /\ WF_vars(SelectReturns({}))

-----------------------------------------------------------------------------
\* Properties

OneRuns ==
    /\ core = "task" <=> current # NoTask
    /\ \A t \in Tasks : state[t] = "running" <=> current = t

\* A deadline belongs to a sleeper or to a task that has just slept through.
TimerSound(t) ==
    due[t] # NoTimer =>
        /\ state[t] \in {"wait_io", "ready"}
        /\ waitFd[t] = NoFd
        /\ state[t] = "ready" => due[t] <= 0

AwaitSound(t) ==
    waitOn[t] # NoTask =>
        /\ state[t] \in {"wait_task", "ready", "done"}
        /\ state[waitOn[t]] # "unborn"
        /\ state[t] = "ready" => state[waitOn[t]] = "done"

\* A suspended task has something that can wake it.
Wakeable(t) ==
    /\ state[t] = "wait_io" => waitFd[t] # NoFd \/ due[t] # NoTimer
    /\ state[t] = "wait_task" => waitOn[t] # NoTask

\* Task.state and the fields that say why a task waits (waiting_fd,
\* wake_at_ms, waiting_on) agree whatever has happened to the task before:
\* no wait inherits a field from an earlier one, at most one task runs, and
\* no suspended task is without a wakeup.
WaitsAccounted ==
    /\ OneRuns
    /\ \A t \in Tasks : TimerSound(t) /\ AwaitSound(t) /\ Wakeable(t)

Resumed(t) == state[t] # "running" /\ state'[t] = "running"

\* p5_async_order: when several deadlines have passed, sleepers resume in
\* deadline order, whatever the order they were spawned in.
SleepersResumeInOrder ==
    [][\A t, u \in Tasks :
          /\ Resumed(t) /\ due[t] # NoTimer
          /\ u # t /\ u \in Pending /\ due[u] # NoTimer
          => due[t] <= due[u]]_vars

\* A sleeper leaves its sleep only once its deadline has passed: neither an
\* fd event, nor a failing select(), nor the deadlock exit cuts a sleep short.
NoEarlyWakeup ==
    [][\A t \in Tasks : Sleeping(t) /\ state'[t] # "wait_io" => due[t] <= 0]_vars

\* The deadlock exit writes tasks off only when every unfinished task waits
\* for another unfinished one, so that none of them could ever have run.
GiveUpOnlyWhenStuck ==
    [][(\E t \in Tasks : state[t] \in {"ready", "wait_io", "wait_task"}
                         /\ state'[t] = "done")
       => \A u \in Pending : state[u] = "wait_task" /\ waitOn[u] \in Pending]_vars

\* The outcome of a finished task is final: await reads has_error after any
\* number of later turns.
OutcomeIsFinal ==
    [][\A t \in Tasks : state[t] = "done"
          => state'[t] = "done" /\ hasError'[t] = hasError[t]]_vars

Driven == core \notin {"script", "exit"}

\* While someone turns the loop a sleeping task runs again, however many
\* other tasks sleep and wake around it (pick_ready's deadline order).
SleeperRuns ==
    \A t \in Tasks :
        Sleeping(t) ~> (state[t] \in {"running", "done"} \/ ~Driven)

\* docs/myon_spec.md 14.9: while someone turns the loop a runnable task runs: a
\* task whose target has finished or whose descriptor is ready is resumed.
RunnableRuns ==
    \A t \in Tasks : state[t] = "ready" ~> (state[t] # "ready" \/ ~Driven)

TimersStop == <>[](\A t \in Tasks : due[t] = NoTimer)

\* Only timers can make the loop unfair: once no task sleeps any more every
\* runnable task runs, busy descriptors and chains of awaits notwithstanding.
RunsWithoutTimers == TimersStop => RunnableRuns

-----------------------------------------------------------------------------
\* Refinement: forget why a task is suspended.
phase ==
    [t \in Tasks |->
        IF state[t] \in {"ready", "wait_io", "wait_task"} THEN "suspended"
        ELSE state[t]]

Abstract == INSTANCE Coroutines WITH awaits <- waitOn, failed <- hasError

\* Timers, descriptors, list order and the select() error paths never show:
\* the scheduler does only what async / await promises (module Coroutines).
Refines == Abstract!Spec
=============================================================================
