----------------------------- MODULE Coroutines -----------------------------
(***************************************************************************)
(* What myon.async / myon.await promise, without the scheduler: tasks are  *)
(* created, at most one of them runs, a task gives up control only by      *)
(* suspending or finishing, and a task that awaits another one runs again  *)
(* only after that one has finished.  How a task ends is settled then, and *)
(* for good.  The event loop (module EventLoop) and the interpreter's      *)
(* coroutines (module AsyncInterp) implement this.                         *)
(***************************************************************************)

CONSTANTS
    Tasks,     \* every task that may be created
    NoTask     \* "awaits nobody"

VARIABLES
    phase,     \* phase[t]: "unborn", "suspended", "running" or "done"
    awaits,    \* awaits[t]: the task t is suspended on, or NoTask
    failed     \* failed[t]: t has ended with an error

vars == <<phase, awaits, failed>>

Phases == {"unborn", "suspended", "running", "done"}

TypeOK ==
    /\ phase \in [Tasks -> Phases]
    /\ awaits \in [Tasks -> Tasks \union {NoTask}]
    /\ failed \in [Tasks -> BOOLEAN]

Init ==
    /\ phase = [t \in Tasks |-> "unborn"]
    /\ awaits = [t \in Tasks |-> NoTask]
    /\ failed = [t \in Tasks |-> FALSE]

Spawn(t) ==
    /\ phase[t] = "unborn"
    /\ phase' = [phase EXCEPT ![t] = "suspended"]
    /\ UNCHANGED <<awaits, failed>>

Run(t) ==
    /\ phase[t] = "suspended"
    /\ \A u \in Tasks : phase[u] # "running"
    /\ awaits[t] # NoTask => phase[awaits[t]] = "done"
    /\ phase' = [phase EXCEPT ![t] = "running"]
    /\ awaits' = [awaits EXCEPT ![t] = NoTask]
    /\ UNCHANGED failed

Suspend(t) ==
    /\ phase[t] = "running"
    /\ phase' = [phase EXCEPT ![t] = "suspended"]
    /\ UNCHANGED <<awaits, failed>>

Await(t, u) ==
    /\ phase[t] = "running"
    /\ phase[u] \notin {"unborn", "done"}
    /\ phase' = [phase EXCEPT ![t] = "suspended"]
    /\ awaits' = [awaits EXCEPT ![t] = u]
    /\ UNCHANGED failed

Finish(t, err) ==
    /\ phase[t] = "running"
    /\ phase' = [phase EXCEPT ![t] = "done"]
    /\ failed' = [failed EXCEPT ![t] = err]
    /\ UNCHANGED awaits

Stuck(t) ==
    /\ phase[t] = "suspended"
    /\ awaits[t] # NoTask
    /\ phase[awaits[t]] = "suspended"

\* Tasks may be written off, as failed, only all together, and only when each
\* of them waits for another one that will never finish.
Abandon ==
    /\ \E t \in Tasks : Stuck(t)
    /\ \A t \in Tasks : phase[t] \in {"unborn", "done"} \/ Stuck(t)
    /\ phase' = [t \in Tasks |->
                    IF phase[t] = "suspended" THEN "done" ELSE phase[t]]
    /\ failed' = [t \in Tasks |-> phase[t] = "suspended" \/ failed[t]]
    /\ UNCHANGED awaits

Next ==
    \/ \E t \in Tasks : Spawn(t) \/ Run(t) \/ Suspend(t)
    \/ \E t \in Tasks, err \in BOOLEAN : Finish(t, err)
    \/ \E t, u \in Tasks : Await(t, u)
    \/ Abandon

Spec == Init /\ [][Next]_vars
=============================================================================
