----------------------------- MODULE AsyncInterp -----------------------------
(***************************************************************************)
(* How coroutines share one Interp (src/interpreter.c, Phase5).            *)
(*                                                                         *)
(* current_task, on_error, call_depth and cleanup_stack are fields of the  *)
(* single Interp.  async_task_entry saves them in C locals when a body     *)
(* starts and restores them when it ends; a suspension in between saves    *)
(* nothing, so whoever runs next works with what the last body left there. *)
(* The scheduler is abstracted to its choices: with suitable deadlines any *)
(* sleeping task may be resumed next (module EventLoop is the scheduler).  *)
(*                                                                         *)
(* The main stack is actor 0: a REPL that runs one program (interp_run)    *)
(* after another.  The barrier an actor has installed with setjmp is       *)
(* named by the actor.                                                     *)
(*                                                                         *)
(* Bad... operators are plausible mistakes in the definition they precede. *)
(***************************************************************************)
EXTENDS Integers, SequencesExt, FiniteSetsExt

CONSTANTS
    MaxTasks,      \* bound: async calls in one behaviour
    MaxCallDepth,  \* myon_max_call_depth()
    MaxLive        \* bound: call frames explored for one actor

ASSUME InterpAssumption ==
    /\ MaxTasks \in Nat \ {0}
    /\ MaxCallDepth \in Nat \ {0}
    /\ MaxLive \in Nat /\ MaxLive > MaxCallDepth

Tasks == 1..MaxTasks
Main == 0
Actors == {Main} \union Tasks
NoTask == 0
Core == -1       \* who: the scheduler is choosing
Crossed == -2    \* who: a longjmp reached a barrier of another stack
Nested == -3     \* who: run_once was entered on a coroutine's stack

VARIABLES
    who,          \* the actor whose C stack is running
    st,           \* state of each task
    awaitOf,      \* awaitOf[a]: the task that await_task of a is blocked on
    currentTask,  \* Interp.current_task
    barrier,      \* Interp.on_error: the actor that setjmp'ed it
    depth,        \* Interp.call_depth
    cleanup,      \* Interp.cleanup_stack: the owner of each registered frame
    live,         \* live[a]: call_function frames on the stack of a
    saved,        \* locals of async_task_entry
    result,       \* Task.result
    hasError,     \* Task.has_error
    active,       \* history: bodies started and not ended, oldest first
    disciplined,  \* history: only the newest of them ever ran
    jumped,       \* history: a runtime_error was raised
    lastAwait     \* history: what the last await_task returned

loopVars == <<who, st, awaitOf>>
interpVars == <<currentTask, barrier, depth, cleanup>>
taskVars == <<live, saved, result, hasError>>
histVars == <<active, disciplined, jumped, lastAwait>>
vars == <<loopVars, interpVars, taskVars, histVars>>

NoSaved == [prev |-> NoTask, barrier |-> Main, depth |-> 0, mark |-> 0]
NoAwait == [of |-> NoTask, early |-> FALSE, out |-> "none"]

TypeOK ==
    /\ who \in Actors \union {Core, Crossed, Nested}
    /\ st \in [Tasks -> {"unborn", "ready", "asleep", "awaiting",
                         "running", "done"}]
    /\ awaitOf \in [Actors -> Tasks \union {NoTask}]
    /\ currentTask \in Tasks \union {NoTask}
    /\ barrier \in Actors
    /\ depth \in Int
    /\ cleanup \in Seq(Actors)
    /\ live \in [Actors -> 0..MaxLive]
    /\ saved \in [Tasks -> [prev : Tasks \union {NoTask}, barrier : Actors,
                            depth : Int, mark : Nat]]
    /\ result \in [Tasks -> {"none", "value", "error"}]
    /\ hasError \in [Tasks -> BOOLEAN]
    /\ active \in Seq(Tasks)
    /\ disciplined \in BOOLEAN
    /\ jumped \in BOOLEAN
    /\ lastAwait \in [of : Tasks \union {NoTask}, early : BOOLEAN,
                      out : {"none", "value", "void", "raised"}]

Spawned == {t \in Tasks : st[t] # "unborn"}
Done(t) == st[t] = "done"
Pending == {t \in Spawned : ~Done(t)}

\* a runs C code of its own and is not inside await_task.
Executing(a) == who = a /\ awaitOf[a] = NoTask

Newest == IF active = <<>> THEN Main ELSE Last(active)

-----------------------------------------------------------------------------
Init ==
    /\ who = Main
    /\ st = [t \in Tasks |-> "unborn"]
    /\ awaitOf = [a \in Actors |-> NoTask]
    /\ currentTask = NoTask
    /\ barrier = Main
    /\ depth = 0
    /\ cleanup = <<>>
    /\ live = [a \in Actors |-> 0]
    /\ saved = [t \in Tasks |-> NoSaved]
    /\ result = [t \in Tasks |-> "none"]
    /\ hasError = [t \in Tasks |-> FALSE]
    /\ active = <<>>
    /\ disciplined = TRUE
    /\ jumped = FALSE
    /\ lastAwait = NoAwait

BadPop(a) == IF cleanup # <<>> /\ Last(cleanup) = a THEN Front(cleanup) ELSE cleanup

FramesOf(a) == {i \in DOMAIN cleanup : cleanup[i] = a}

\* cleanup_pop: the newest registered frame of a, wherever it is.
Pop(a) ==
    IF FramesOf(a) # {} THEN RemoveAt(cleanup, Max(FramesOf(a))) ELSE cleanup

\* spawn_async_task
Spawn(a, t) ==
    /\ Executing(a)
    /\ st[t] = "unborn"
    /\ \A u \in Tasks : u < t => st[u] # "unborn"
    /\ st' = [st EXCEPT ![t] = "ready"]
    /\ UNCHANGED <<who, awaitOf, interpVars, taskVars, histVars>>

\* call_function, up to its body
Call(a) ==
    /\ Executing(a)
    /\ depth < MaxCallDepth
    /\ live[a] < MaxLive
    /\ depth' = depth + 1
    /\ cleanup' = Append(cleanup, a)
    /\ live' = [live EXCEPT ![a] = @ + 1]
    /\ UNCHANGED <<loopVars, currentTask, barrier, saved, result, hasError,
                   histVars>>

\* call_function returns to a caller on the same stack.
Return(a) ==
    /\ Executing(a)
    /\ live[a] > (IF a = Main THEN 0 ELSE 1)
    /\ depth' = depth - 1
    /\ cleanup' = Pop(a)
    /\ live' = [live EXCEPT ![a] = @ - 1]
    /\ UNCHANGED <<loopVars, currentTask, barrier, saved, result, hasError,
                   histVars>>

BadRestoreInterp(t) ==
    /\ depth' = saved[t].depth
    /\ barrier' = saved[t].barrier
    /\ currentTask' = NoTask

\* The end of async_task_entry puts back what it saved.
RestoreInterp(t) ==
    /\ depth' = saved[t].depth
    /\ barrier' = saved[t].barrier
    /\ currentTask' = saved[t].prev

\* The rest of async_task_entry, and the trampoline; rs is Task.result of
\* the other tasks.
EndBody(t, out, rs) ==
    /\ RestoreInterp(t)
    /\ result' = [rs EXCEPT ![t] = out]
    /\ hasError' = [hasError EXCEPT ![t] = (out = "error")]
    /\ st' = [st EXCEPT ![t] = "done"]
    /\ live' = [live EXCEPT ![t] = 0]
    /\ active' = RemoveAt(active, CHOOSE i \in DOMAIN active : active[i] = t)
    /\ who' = Core
    /\ UNCHANGED saved

\* The body's outermost call_function returns.
Finish(t) ==
    /\ Executing(t)
    /\ live[t] = 1
    /\ cleanup' = Pop(t)
    /\ EndBody(t, "value", result)
    /\ UNCHANGED <<awaitOf, disciplined, jumped, lastAwait>>

-----------------------------------------------------------------------------
\* runtime_error raised on the stack of a: longjmp(it->on_error).  The jump
\* is defined only when the barrier was set on the same stack and is live.

\* The barrier of async_task_entry: cleanup_unwind(cleanup_at), then the end.
CaughtByTask(t, rs) ==
    /\ t # Main
    /\ barrier = t
    /\ cleanup' = SubSeq(cleanup, 1, IF saved[t].mark < Len(cleanup)
                                     THEN saved[t].mark ELSE Len(cleanup))
    /\ EndBody(t, "error", rs)

\* The barrier of interp_run: cleanup_unwind(0); the REPL goes on.
CaughtByMain(a, rs) ==
    /\ a = Main
    /\ barrier = Main
    /\ depth' = 0
    /\ cleanup' = <<>>
    /\ live' = [live EXCEPT ![Main] = 0]
    /\ result' = rs
    /\ UNCHANGED <<who, st, currentTask, barrier, saved, hasError, active>>

CaughtElsewhere(a, rs) ==
    /\ barrier # a
    /\ who' = Crossed
    /\ result' = rs
    /\ UNCHANGED <<st, interpVars, live, saved, hasError, active>>

RaiseFrom(a, rs) ==
    /\ \/ CaughtByTask(a, rs)
       \/ CaughtByMain(a, rs)
       \/ CaughtElsewhere(a, rs)
    /\ jumped' = TRUE

\* Any expression may raise, a call beyond max_depth among them.
Raise(a) ==
    /\ Executing(a)
    /\ RaiseFrom(a, result)
    /\ UNCHANGED <<awaitOf, disciplined, lastAwait>>

-----------------------------------------------------------------------------
\* await_task

Outcome(u) ==
    IF hasError[u] THEN "raised"
    ELSE IF result[u] = "none" THEN "void" ELSE "value"

BadDeliver(a, u) ==
    /\ lastAwait' = [of |-> u, early |-> ~Done(u),
                     out |-> IF result[u] = "none" THEN "void"
                             ELSE IF hasError[u] THEN "raised" ELSE "value"]
    /\ awaitOf' = [awaitOf EXCEPT ![a] = NoTask]
    /\ \/ hasError[u] /\ result[u] # "none"
          /\ RaiseFrom(a, [result EXCEPT ![u] = "none"])
       \/ /\ ~hasError[u] \/ result[u] = "none"
          /\ result' = [result EXCEPT ![u] = "none"]
          /\ UNCHANGED <<who, st, interpVars, live, saved, hasError,
                         active, jumped>>
    /\ UNCHANGED disciplined

\* After the wait: the payload is moved out of the task, an error re-raised.
Deliver(a, u) ==
    /\ lastAwait' = [of |-> u, early |-> ~Done(u), out |-> Outcome(u)]
    /\ awaitOf' = [awaitOf EXCEPT ![a] = NoTask]
    /\ \/ hasError[u] /\ RaiseFrom(a, [result EXCEPT ![u] = "none"])
       \/ /\ ~hasError[u]
          /\ result' = [result EXCEPT ![u] = "none"]
          /\ UNCHANGED <<who, st, interpVars, live, saved, hasError,
                         active, jumped>>
    /\ UNCHANGED disciplined

\* No wait: the target is done, or event_loop_wait_task finds no current
\* task because the main stack called it.
AwaitReturns(a, u) ==
    /\ Executing(a)
    /\ u \in Spawned
    /\ Done(u) \/ (currentTask # NoTask /\ a = Main)
    /\ Deliver(a, u)

\* event_loop_wait_task on a coroutine, run_once on the main stack
AwaitBlocks(a, u) ==
    /\ Executing(a)
    /\ u \in Pending
    /\ (a = Main) = (currentTask = NoTask)
    /\ awaitOf' = [awaitOf EXCEPT ![a] = u]
    /\ st' = IF a = Main THEN st ELSE [st EXCEPT ![a] = "awaiting"]
    /\ who' = Core
    /\ UNCHANGED <<interpVars, taskVars, histVars>>

\* A coroutine that finds current_task NULL turns the loop on its own stack.
AwaitNests(t, u) ==
    /\ Executing(t)
    /\ t # Main
    /\ u \in Pending
    /\ currentTask = NoTask
    /\ who' = Nested
    /\ UNCHANGED <<st, awaitOf, interpVars, taskVars, histVars>>

\* The waiting actor is back on its stack.
AwaitContinues(a) ==
    /\ who = a
    /\ awaitOf[a] # NoTask
    /\ Deliver(a, awaitOf[a])

\* myon.time.sleep_ms and socket waits suspend a coroutine only when
\* current_task is set; otherwise they block the process.
Sleep(t) ==
    /\ Executing(t)
    /\ t # Main
    /\ currentTask # NoTask
    /\ st' = [st EXCEPT ![t] = "asleep"]
    /\ who' = Core
    /\ UNCHANGED <<awaitOf, interpVars, taskVars, histVars>>

-----------------------------------------------------------------------------
\* The event loop, turned by the main stack.

\* The script ends and drains the loop (run_until_foreground_done).
EndProgram ==
    /\ Executing(Main)
    /\ live[Main] = 0
    /\ who' = Core
    /\ UNCHANGED <<st, awaitOf, interpVars, taskVars, histVars>>

LoopOver ==
    IF awaitOf[Main] # NoTask THEN Done(awaitOf[Main]) ELSE Pending = {}

Turning == who = Core /\ ~LoopOver

\* await_task's loop ends.
MainAwaited ==
    /\ who = Core
    /\ LoopOver
    /\ awaitOf[Main] # NoTask
    /\ who' = Main
    /\ disciplined' = (disciplined /\ active = <<>>)
    /\ UNCHANGED <<st, awaitOf, interpVars, taskVars, active, jumped, lastAwait>>

\* The drain ends; the next interp_run installs its barrier.
NextProgram ==
    /\ who = Core
    /\ LoopOver
    /\ awaitOf[Main] = NoTask
    /\ who' = Main
    /\ barrier' = Main
    /\ UNCHANGED <<st, awaitOf, currentTask, depth, cleanup, taskVars, histVars>>

BadResumable(t) == st[t] \in {"asleep", "awaiting"}

Startable(t) == st[t] = "ready" /\ \A u \in Tasks : u < t => st[u] # "ready"
Resumable(t) ==
    st[t] = "asleep" \/ (st[t] = "awaiting" /\ Done(awaitOf[t]))

\* First resume: async_task_entry up to the body of its call_function.
Start(t) ==
    /\ Turning
    /\ Startable(t)
    /\ st' = [st EXCEPT ![t] = "running"]
    /\ who' = t
    /\ saved' = [saved EXCEPT ![t] =
                    [prev |-> currentTask, barrier |-> barrier,
                     depth |-> depth, mark |-> Len(cleanup)]]
    /\ currentTask' = t
    /\ barrier' = t
    /\ depth' = 1
    /\ cleanup' = Append(cleanup, t)
    /\ live' = [live EXCEPT ![t] = 1]
    /\ active' = Append(active, t)
    /\ UNCHANGED <<awaitOf, result, hasError, disciplined, jumped, lastAwait>>

Resume(t) ==
    /\ Turning
    /\ Resumable(t)
    /\ st' = [st EXCEPT ![t] = "running"]
    /\ who' = t
    /\ disciplined' = (disciplined /\ t = Newest)
    /\ UNCHANGED <<awaitOf, interpVars, taskVars, active, jumped, lastAwait>>

\* run_once finds nothing that could ever wake.
GiveUp ==
    /\ Turning
    /\ \A t \in Tasks : st[t] # "ready" /\ ~Resumable(t)
    /\ st' = [t \in Tasks |-> IF t \in Pending THEN "done" ELSE st[t]]
    /\ hasError' = [t \in Tasks |-> t \in Pending \/ hasError[t]]
    /\ disciplined' = FALSE
    /\ active' = <<>>
    /\ UNCHANGED <<who, awaitOf, interpVars, live, saved, result,
                   jumped, lastAwait>>

-----------------------------------------------------------------------------
Act(a) ==
    \/ \E t \in Tasks : Spawn(a, t) \/ AwaitReturns(a, t)
                        \/ AwaitBlocks(a, t) \/ AwaitNests(a, t)
    \/ AwaitContinues(a)
    \/ Call(a)
    \/ Return(a)
    \/ Raise(a)

Next ==
    \/ \E a \in Actors : Act(a)
    \/ \E t \in Tasks : Finish(t) \/ Sleep(t) \/ Start(t) \/ Resume(t)
    \/ EndProgram
    \/ MainAwaited
    \/ NextProgram
    \/ GiveUp

Spec == Init /\ [][Next]_vars

-----------------------------------------------------------------------------
\* Properties

\* While coroutines nest (a suspended body is never overtaken by an older
\* one or by the script), the shared fields belong to whoever runs: the
\* running actor's own barrier, task and depth, and its frames on top.
NestedUseIsSafe ==
    disciplined /\ who \in Actors =>
        /\ who = Newest
        /\ barrier = who
        /\ currentTask = who
        /\ depth = live[who]
        /\ \A i \in 1..live[who] : cleanup[Len(cleanup) + 1 - i] = who

\* As long as nothing raises, every live call frame is registered for cleanup
\* exactly once, in whatever order bodies suspend and end (cleanup_pop's
\* search below the top is what makes this true).
FramesAccounted ==
    /\ TypeOK
    /\ ~jumped => \A a \in Actors : Cardinality(FramesOf(a)) = live[a]

\* An await of a failed task raises, also when an earlier await has already
\* taken the error payload.
FailureReraised ==
    lastAwait.of # NoTask /\ ~lastAwait.early /\ lastAwait.out # "raised"
        => ~hasError[lastAwait.of]

\* interpreter.c:3573: a runtime error inside a body "must not longjmp across
\* the coroutine boundary".
NoCrossing == who # Crossed

-----------------------------------------------------------------------------
\* Refinement: forget the fields of Interp, the C stacks and the main program.
\* A task that has been resumed no longer awaits.
phase ==
    [t \in Tasks |->
        IF st[t] \in {"ready", "asleep", "awaiting"} THEN "suspended"
        ELSE st[t]]

awaits == [t \in Tasks |-> IF st[t] = "running" THEN NoTask ELSE awaitOf[t]]

Contract == INSTANCE Coroutines WITH failed <- hasError

\* However bodies interleave, and whatever they leave in the shared fields for
\* each other, up to the jump that NoCrossing is about: one task runs at a
\* time, an await is over when its target is, how a task has ended stays as it
\* was, and tasks are written off only when none of them can ever go on.
ImplementsCoroutines == Contract!Spec
=============================================================================
