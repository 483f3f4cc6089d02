# A TLA+ verification project for Myon

Myon is an interpreted language with a single-process runtime written in C: a
tree-walking interpreter and a bytecode VM, a cooperative event loop for
`async` / `await`, sockets, an HTTP server and client, an FFI, and a package
tool (`myon pkg`). This directory models the parts of it whose correctness
depends on the *order* in which things happen, checks the models with TLC and
proves, for every value of the constants, the safety properties of the event
loop, the coroutine runtime, the HTTP server, the sockets, module loading and
the package tool with TLAPS.

Paths below are relative to the repository; line numbers refer to it.

    tlc -config EventLoopTimers.cfg EventLoop.tla     one of the runs
    tlapm EventLoopProofs.tla                         the proofs of one module

## 1. Inventory

| component | state it keeps | operations | talks to |
|---|---|---|---|
| event loop, `event_loop.c` | the task list; per task its state, `waiting_fd`, `wake_at_ms`, `waiting_on`, daemon and error flags; the running task | spawn, wait for a descriptor / a deadline / a task, `run_once`, the three drives, the deadlock exit | `select()`, the clock; called by the interpreter and the servers |
| async runtime, `interpreter.c` 3560-3680, 360-405, 3440-3545 | `current_task`, `on_error`, `call_depth`, `cleanup_stack`: **one** copy in `Interp` for all coroutines | spawn a task, start and end a body, call, return, raise, await | event loop; every built-in that blocks |
| HTTP server, `interpreter.c` 3680-4055, `http.c` | a listener, one task per connection (or the accept loop itself for static files) | accept, read a request, call the handler, send, close | socket table, event loop |
| socket table, `net.c`; `myon.net.*`, `interpreter.c` 2000-2560 | 256 slots, descriptor and kind; an index is reused as soon as it is free | create, bind, listen, connect, accept, send, recv, close, by scripts and the HTTP client | kernel, event loop |
| package resolver, `pkg_ops.c` 230-415 | lock under construction, namespace owners, staged archives, the call stack | depth-first `resolve_dep` | network, `.staging` |
| package commands, `pkg_ops.c` 415-665, `pkg_fs.c` | `myon.toml`, `myon.lock`, `.myon/packages`, backups | lock, install, install URL, promote | the resolver, the file system |
| package formats, `package.c` | none (values) | reading and writing myon.toml, package.myon and myon.lock, sources and hashes, upsert, verify, tree | package commands |
| download and archives, `pkg_fetch.c`, `pkg_zip.c` | one transfer, one extraction | redirects, size limits, entry checks | package commands |
| module loading, `interpreter.c` 5160-5560 | module table with `loading` flags and aliases, one namespace per aliased module, the global scope | import of built-ins, files and packages, find, load, call through an alias | parser, file system, the lock of a project |
| interpreter core, `interpreter.c`, `env.c`, `value.c` | environments, reference-counted values | evaluation, assignment, calls | everything |
| bytecode: `mvm_compiler.c`, `mvm_chunk.c`, `mvm_vm.c` | chunks, operand stack, frames, upvalues | compile, write, read, run | event loop (task bodies) |
| FFI, `ffi*.c` | handles, callback slots | load, call, register callbacks | foreign code |
| TLS and HTTP client, `tls.c`, `interpreter.c` 4055- | a connection | connect, handshake with a deadline, read, write | kernel, event loop |
| lexer, parser, AST, `lexer.c`, `parser.c` | brackets that are open; the tokens and a position | scan, look ahead, try and take back, parse | interpreter, compiler |
| command line and REPL, `main.c` | an interpreter across inputs | run, compile, REPL | everything |

What makes each one correct, and what is hard about it:

- **Event loop.** No wakeup is lost and none comes early; tasks that sleep
  resume in deadline order; tasks are written off only when nothing can wake
  them; whoever can run does run. Hard because several wake conditions are
  decided in different passes over the same list, and because fields of an
  earlier wait survive into a later one.
- **Async runtime.** An error reaches the barrier of the body that raised it,
  an await returns after its target, frames are freed once. Hard because the
  shared fields are saved when a body starts and restored when it ends, but
  nothing is saved at the suspensions in between.
- **HTTP server and sockets.** A response goes to the connection whose request
  it answers although indices are reused; no slot leaks; a slow client harms
  nobody else; what was accepted is answered before the program ends. A script
  names a socket by an index that may be closed and given out again while
  another coroutine waits on it.
- **Resolver.** It accepts exactly the graphs that are acyclic, name one
  revision per package and one owner per namespace; a diamond is not a cycle.
- **Package commands.** After a failure or a kill at any point no installed
  package is lost; a successful install is what the lock says. What one command
  writes the next reads back, and a file edited by hand is never misunderstood.
- **Bytecode.** A program means the same to both engines. Hard because the
  compiler decides once, from the text, what the tree walker decides at each
  step from environments: which variable a name is, which slot it has, which
  variables outlive their function; and because both engines, the operators
  they share and the instructions must agree on who owns a reference. *Files:*
  what is read back is what was written, and half a file is refused.
- **Lexer and parser.** A text is read as what its grammar says it is, although
  statements are told apart by looking ahead, generic calls by trying, and
  newlines are dropped before anyone knows what they stand in.
- **Module loading.** A cycle is reported, a diamond is not; a module runs once;
  an alias means the module that was imported under it; names do not leak.
- *FFI callbacks.* A slot is not reused while foreign code may call it.

PROJECT.json lists the components with what is modelled of each, and the
hazards at the lines where they bite.

## 2. Modules

| module | what it is |
|---|---|
| `Coroutines` | abstract specification of `event_loop.h`: tasks that run one at a time, suspend, await and finish; an await is over when its target is, and how a task ended is final |
| `EventLoop` | `event_loop.c`, with the drives of the interpreter; refines `Coroutines` |
| `AsyncInterp` | how coroutine bodies share one `Interp`; the scheduler is reduced to its choices; refines `Coroutines` |
| `HttpService` | abstract specification of the server, without sockets: clients wait in order, are let in, read, answered once with their own response, or dropped |
| `HttpServer` | `serve` / `serve_static` on the socket table; refines `HttpService` |
| `Sockets`, `MCSockets` | `net.c` with `myon.net.*` and the HTTP client, by several coroutines and the main program |
| `ModuleLoad`, `MCModuleLoad` | module loading over sessions of programs; the sessions |
| `PkgGraph` | dependency graphs: closure, acyclicity, one revision per name |
| `PkgResolve`, `MCPkgResolve` | the resolver, over every dependency graph of the instance |
| `PackageStore` | abstract specification of the package commands: packages replaced whole, success only when all that is needed is there, loss only by an interrupted replacement |
| `PkgInstall`, `MCPkgInstall` | the commands and the install transaction, with failing calls and kills; refines `PackageStore` |
| `PkgFormats` | the reading and writing half of `package.c`, line by line |
| `PkgFiles` | the files of a `PkgInstall` project in those formats; what such a file means, stated apart from the parser |
| `Syntax` | the syntax tree of the language |
| `Lexer`, `Parser` | `lexer.c` and `parser.c`: from lexemes to that tree |
| `Grammar` | the grammar of `docs/myon_spec.md` section 16 read as a writer; the reference for `Parser`, not a model of code |
| `Values` | `value.c`: a heap of counted objects, operators, built-in methods |
| `Bytecode` | `mvm_bytecode.h` and the building half of `mvm_chunk.c`: instructions, chunks, byte offsets |
| `MycFile` | the other half of `mvm_chunk.c`: the .myc file |
| `Compiler` | `mvm_compiler.c`: a program to chunks |
| `TreeWalk` | `interpreter.c` and `env.c`: what a program prints, and whether it fails |
| `Vm`, `MCEngines` | `mvm_vm.c` as a state machine on what `Compiler` makes; the programs |

`HttpServer` takes from `EventLoop` that a ready coroutine is resumed;
`PkgInstall` takes from `PkgResolve` that a lock is the closure of the
manifest. In every module an operator named `Bad...` is a plausible mistake in
the definition after it; PROJECT.json says which property excludes it. The
theorems about a module and their proofs are in a module of its name followed
by `Proofs` (section 4).

### EventLoop

A coroutine has a C stack of its own and gives up control only by calling a
suspension primitive, so an action is one uninterrupted stretch of C between
two such points: `Spawn`, `WaitFd`, `Sleep`, `WaitTask`, `Finish`, `SetDaemon`
for the running task; `StartDrive` for the main stack; and for one call of
`event_loop_run_once` either `Resume` (the wake passes, `pick_ready`,
`resume_task`), `Block` (enter `select()`) or `GiveUp` (the deadlock exit).
`SelectReturns`, `SelectInterrupted` and `SelectFails` are the ways out of
`select()`, `Tick` is the clock.

`due[t]` is `wake_at_ms - now_ms()`; only differences are ever compared, so
relative times lose nothing. Of deadlines that have passed only the order
matters (`pick_ready` compares them with one another), so `Tick` keeps just
that: 0 for the latest, negative numbers for earlier ones. The clock may
therefore run arbitrarily far past a deadline with finitely many states, and no
bound on lateness hides a starvation. `select()` may wake for any subset of the
watched descriptors, be interrupted, or fail. The bounds are the number of
tasks and the set of sleep durations.

### AsyncInterp

`who` is the actor whose C stack runs (0 is the main stack). `barrier` is
`on_error`, named after the actor that called `setjmp`; `saved` holds the C
locals of `async_task_entry`. A `longjmp` to a barrier of another stack ends
the behaviour (`Crossed`), as does a turn of the loop on a coroutine's stack
(`Nested`): what the C program does afterwards is undefined. Any sleeping task
may be resumed next, which real deadlines can bring about. `active` and
`disciplined` are history: the order in which bodies were started, and whether
only the newest ever ran. `bridge_task_entry` uses the same protocol for
bytecode bodies.

### HttpServer

A connection's progress is a level (nothing, part of the header, the header
and part of the body, all). A step is what a coroutine does between two waits.
The connection is looked up by its index at each step, as the code does, so
that a wrong reuse would show. `Script` slots belong to other code of the
program. `mode` selects `serve` or `serve_static`; `host` is who called it: the
main program (which drives the loop until all tasks end) or a task (the accept
loop is a daemon then, and the task waits for it). What `http.c` makes of the
bytes is reduced to its outcomes: more needed, complete, rejected.

The accept loop, the connections and the other tasks of the script (`Tasks`) are
coroutine bodies of one `Interp`, and share its fields:

| model | code |
|---|---|
| `cur` | whether `it->current_task` is set; only that is asked by `net_wait_fd` (`interpreter.c:2173`) |
| `barrier` | `it->on_error`, named after the body whose `setjmp` it is; a body sets it when it begins (`:3577` and on), a connection when it calls its handler (`:3875`) |
| `prev`, `saved` | the C locals in which a body keeps what it found: `:3849-3853` (connection), `:3960` (accept loop), `async_task_entry` (tasks) |
| `Begins`, `PutsBack` | the first and the last thing a body does; `:3931-3932`, `:3984`, `:3604` put back what was found, in whatever order bodies end |
| `Waits`, `blocked` | a wait: it suspends its coroutine if there is a current task, and otherwise blocks the process until its own descriptor is ready (`:2176-2190`). Nobody else runs while `blocked` |

An error of a handler becomes the 500 of its own request if its own barrier is
the one set last and nobody else has frames on the shared cleanup stack.
Otherwise it is a jump to another stack, or unwinds frames of others
(`cleanup_unwind`, `:386`): what the C program does after that is undefined, so
the run of the model ends there (`Derails`, `up = "derailed"`; `TaskCrashes` for
a task). `company` is history: the connections that were in service while
another connection or a task was; `HttpService` allows an error to go astray
only for one of those. `HandlerEnds` covers a handler that returns and one whose
error its own barrier catches.

`HttpService` has no table, no barrier, no current task, and of a transfer only
whether the header has been read. Its `stage` of a client is computed from `pc`
and `got`, its `reply` is the history of what was sent on that client's own
connection. Whatever a slot number means after a wait, then, and whatever other
bodies leave in the shared fields, must amount to the service of one's own
client.

Left out: `serve` called by a caller whose own `current_task` is stale or
missing (`Init` has it right for the caller); an await inside a handler that
finds no current task and turns the loop on its own stack (`:3650`;
`AsyncInterp` ends there, too); `call_depth`.

### Sockets

An actor is a coroutine or the main program; a step is what it does between two
waits. `fds` is the table, `kernel` what the kernel has open, with the lowest
free descriptor given out first, as POSIX says; both indices and descriptors are
therefore reused at once. `call[a]` is the call `a` is in: it remembers the
index, as the C code does, looks it up again after each wait, and remembers as
history (`fd`, `marks`) the descriptor it began with and whether another script
closed the index under it (`cut`), another call on the index began (`shared`) or
its wait was over with nothing to wake it (`failed`).

How a call waits is decided by `it->current_task`, not by who waits
(`net_wait_fd`, `interpreter.c:2173`); `cur` says whether it is set. Without
one, a coroutine and the main program alike block the process in a `select()`
of their own (`blocking`). With one, a coroutine waits in the loop (`waiting`),
and the main program, which is no coroutine of the loop, is refused and goes on
at once (`retry`: it tries again, or, in `connect`, reads `SO_ERROR`).
`BodiesComeAndGo` lets `cur` change whenever nobody has control: the bodies of
other tasks begin and end then and put back what they found (`AsyncInterp`
shows that both values come about). While an actor is blocking or retrying no
other runs; the properties about progress name this case (`Kept`).

The `select()` of the loop returns for what is ready or fails with EBADF when a
watched descriptor has been closed; the network (`Network`) connects, refuses,
sends and hangs up as it likes. A request of the HTTP client goes through its
phases on the same table. `Alloc` may fail because the table or the process is
full.

### ModuleLoad

`stack` is the C recursion: a frame waits below the modules it loads. A body is
a sequence of the statements that touch modules and names; a path names a
built-in, a file or a package, resolved in that order. A session is what a REPL
sees: programs one after the other, also after one that failed, between which
the project on disk may change. A program is passed over twice, as in
`run_toplevel`: once for its imports and, after `prescan`, once for the rest;
what a pass leaves to the other is a `Skip`. `bindings`, `ran` and `use` are
history: which imports were reached by whom and whether they found or loaded
their module (`known`), which bodies were started, what an alias was last
resolved to. `AliasMeansImport` speaks of known imports only: one that is
refused, say because the project has no lock yet, makes no entry, and the alias
it named is free for a later import.

### PkgResolve, PkgInstall

`frames` is the recursion of `resolve_dep`, with the list of ancestors it hands
down, cut at `StackCap` (255 in the code). The manifests are chosen in `Init`,
so one run covers every graph of the instance. In `PkgInstall` an action is
what lies between two file-system calls a later run could notice; each call may
fail and the process may be killed anywhere. The network may answer the same
request with different bytes at different times, which is why archives carry a
hash. `backup` survives commands, so a stale one meets a later promote.

`PackageStore` is what is left when the steps of a command are taken away. Its
`store` is `installed`: the installed package, or its backup while a promote
has it aside, so that moving aside, putting back and dropping a backup change
nothing there. `broken` is `killed \/ stranded`. `Matches` compares names and
commits of the direct dependencies only, as `pkg_lock_check_matches_manifest`
does (`package.c:1485`), not the repositories they come from. So a success
reported there means that everything reachable from a manifest is installed
that asks for the same packages at the same commits as the present one
(`Agrees`), though perhaps from other repositories, and whatever manifest the
lock was written for.

### PkgFormats, PkgFiles

A file is a sequence of lines, a string a sequence of pieces: single characters
where an escape is concerned, otherwise a stretch that spells a name, a source,
a hash. Sorted lists without duplicates are functions. `ManifestParse` and
`LockParse` fold over the lines as the C loops do, with the section, the seen
flags and the pending fields of a lock entry carried along. Against them stands
`MeaningOfManifest` / `MeaningOfLock`, which say with quantifiers over the lines
what a good file has and means. They are compared on every file of the instance
with one line lost, doubled, moved, overwritten or added, on a lock with an
entry appended, and for strings on all raw texts of up to three characters, from
an alphabet with the quote, the backslash, the newline, `n` and `#`. The
renderers escape nothing (`package.c:1013`, `:1452`), so not every value
survives: `PlainFieldsReadBack` says which names and versions do, namely exactly
those without a quote, a backslash or a control character, on all texts of that
alphabet.

### Lexer, Parser, Grammar

A text is a sequence of lexemes. What the lexer decides is kept: which words are
keywords, which `myon.x` is one token, which newlines are dropped because a
bracket is open or a line goes on. How a number or a name is spelt is not. A
rule of the parser takes a state (tokens, position, result, no error yet) and
returns the next one; looking ahead and taking back a try are as in the code.
`Grammar` writes a tree in three layouts (newlines or semicolons, comments and
newlines wherever they mean nothing, parentheses that are not needed, `then`),
and `ParsesWhatIsWritten` says that the parser gives the tree back.

### Values, Bytecode, Compiler, TreeWalk, Vm, MycFile

The part of the language: integers, booleans, strings with holes, characters,
errors, casts; arrays, maps and structs with inheritance, methods and index and
member targets; typed parameters and variables; `and` / `or`; functions and
lambdas with any number of results; plain, multiple and compound assignment;
`if`, `while`, `for` over ranges and arrays, `break`, `continue`, blocks,
`expose`, `ret`, `println`. Floats, generics, modules and async are left out of
the engines; the first goes through functions both share, the others have models
of their own or none.

`Values` is used by both engines, as the C functions are (`myon_bridge_*`).
An operation tells which references it copied and dropped; `Vm` books them, so
that `RefsCounted` can compare every count with the references there are.
`Compiler` passes its state through the functions of the C file: the chain of
functions being compiled with their locals, depths, slots and captures, and the
chunks written so far. Code is bytes: operands have their width, and a jump
holds the offset that was patched in. `TreeWalk` is an evaluator over a table of
environments; an environment that `env_free` has released stays in the table,
marked, so that reading one through a function value shows
(`stop = "undefined"`). In `Vm` an instruction is a step; `stack` holds operands
and the slots of all frames, as in the code, captured variables are boxed in
cells of the heap. A slot that is read or written when the stack has shrunk
below the frame's locals makes the run `corrupt`. `SameMeaning` evaluates
`TreeWalk` once a run has ended. In both recursive evaluators the handlers of
the C file's switch come back to one operator that dispatches on the node
(`Compile`, `Walk`). A .myc file is a sequence of fields with their widths,
where the program has bytes; `LoadsWhatWasSaved` reads every compiled program
back, whole and cut short. These modules use recursive operators and are for TLC
only.

## 3. Runs

Passing runs, and why their bounds are enough:

| run | instance | what it shows |
|---|---|---|
| `loop_timers` | 3 tasks, sleeps of 1 and 2 ms; 79k states | deadline order, sound deadlock exit, sleepers are never starved. Three tasks: a cycle of awaits with a bystander, two sleepers and a third that spawns or awaits |
| `loop_io` | 2 tasks, 2 descriptors, both sleeps; 56k states | waits are accounted for, no sleep is cut short, `Coroutines` is implemented (an await outlasts its target, outcomes are final), tasks that do not sleep are treated fairly. Two tasks on equal or different descriptors, in equal or different directions |
| `async_nested` | 2 bodies, recursion cap 2; 28k states | the shared fields are right as long as bodies nest; frames are accounted for in any order until something raises; a failure is re-raised; `Coroutines` is implemented however bodies interleave, up to the jump of `async_crossing`, after which nothing moves |
| `http_server` | 2 clients, 1 other task, 3 slots, 1 socket of the script at a time, `accept()` may fail; called by the main program or by the task; 899k states | no leak, every step is one of `HttpService` (so no crossed response, and the error of a handler served alone reaches its own client), no cut-off request; connections alone cannot make a wait block the process; unless one does, hung-up clients are dropped and slow ones keep nobody out. With the listener and both clients the table is exactly full, so indices are reused and the table overflows. Three bodies (two connections and a task, the accept loop being a fourth) begin and end in every order, which is what it takes to put back a foreign barrier or a missing current task |
| `sockets` | a client (create, connect, request), a server (accept), a main program (listen, close, connect); 2 slots, 3 descriptors, the current task set or not; 83k states | no leak, also of a request that fails half-way or an accept into a full table; a call keeps its socket however indices are reused, unless it was closed; what success of `connect` means; a call whose socket is closed ends; a call with something to do goes on, unless another keeps the process. Two slots make every index change hands, three descriptors let the table be the tighter limit, the main program closes any index at any time, and every call meets every way to wait |
| `module_load` | 7,368 sessions of two programs: two files with 8 bodies each (missing, broken, failing, importing each other, with and without an alias), 6 first and 4 second programs; or two packages with nested namespaces and what the lock and the disk may say of them; 65k states | cycle errors are about cycles, a module runs once and to its end before its importer goes on, aliases and namespaces mean what was imported. Two files are a cycle and a self-import, the second program meets what a failed first one left |
| `pkg_resolve` | all graphs over 3 packages, one in 2 revisions, with a namespace clash; 2.2M states | accepted graphs are good, diagnoses are true, staging is cleaned up, resolution ends. Three packages give cycles of length 1 to 3 and diamonds; `StackCap` 2 is the least that keeps all ancestors there. No run cuts the list; the theorems hold for every limit and say what is lost with it (`CapFits`) |
| `pkg_install` | 2 packages, one in 2 revisions of which the second is in 2 repositories, 2 possible contents each; 2.0M states | installs match the lock, nothing is lost, failures keep installs, through any sequence of edits, commands, failures and kills, and every step is one of `PackageStore`; the files read back as written as long as their free texts need no escape, and only then, and hand-edited ones as their lines say. A package asked for from another place at the same commit is among the edits |
| `engines_agree` | 932 programs: one or two of 25 pieces in each of 8 contexts, and 10 failing pieces in each; 96k states | the VM prints what the tree walker prints and fails where it fails; operands never eat locals and counts match references; every run ends; each program is what its text parses to, in three layouts, and what its .myc file loads as, while one cut after any of its fields is refused. The pieces assign, branch, return, loop, capture, box and expose a variable, build and share arrays, maps, structs and texts, and put functions and cycles into containers; the contexts make the variable global, own, captured over one or two functions, rebound by a loop, or alive in three activations at once |

Runs that end in a violation record where the code does something else than
the repository says; each is in PROJECT.json with the line it contradicts.

| run | the code | the repository says |
|---|---|---|
| `async_crossing` | two bodies that interleave restore `on_error` in the wrong order; an error then jumps to another stack | "must not longjmp across the coroutine boundary" |
| `pkg_killed` | between the two renames of a promote the package is only in its backup, which nothing restores | the promotion is atomic, a failure keeps the working install |
| `engines_differ` | a loop whose body assigns to the loop variable skips rounds as bytecode, and not in the tree walker | the two executions "are behaviourally identical" |

The run is about one program, `StepsLoopVariable`. `MCEngines` names twenty
others the engines disagree on; each was put in its place in `LoopProgram`, gave
a violation of its own, and was seen on the built interpreter. What they show,
program by program: *Bound by text, not
by time:* a function that assigns a global declared further down gets a local
(`GlobalBornLater`); one that calls a function declared further down is refused
(`CallsForward`), although the tree walker hoists functions; a method that
assigns a global sets it, in the tree walker a local (`MethodSetsGlobal`).
*Compound assignment:* refused on globals and captures inside a function
(`AddsToGlobal`) and on elements (`AddsToElement`); the left side is read before
the right side runs, in the tree walker after (`AddsWhatChangesIt`). *Order:* in
`a[f()] = g()` one engine evaluates the value first, the other the index
(`ValueThenIndex`). *Scopes:* a block of a function stores to a global where the
tree walker refuses to shadow (`GlobalInBlock`); after `expose` the name is
refused in its own block (`ExposesThenSets`); the loop variable is the loop's
counter (`StepsLoopVariable`); a local of a top-level block that exposes another
name can still be read after the block (`KeepsBlockLocal`). *Types:* those of
parameters and variables are checked by the tree walker only (`WrongArgument`,
`WrongVariable`). *Objects:* a method with two results fails (`MethodOfTwo`),
and so does `map` with a function value (`MapsFunction`); a struct built by
position works, while the tree walker reads values it has released
(`ByPosition`; `interpreter.c:3400`). *Results:* multiple targets of the wrong
number pop the frame's locals instead of failing (`SplitsTooFew`); the result of
a function without one is nil, which must not be assigned, against void, which
may (`KeepsNothing`); of two results for one variable the last is kept, in the
tree walker an array of both (`KeepsBoth`). `ret` at top level ends the program
or only the statement (`ReturnsAtTop`); a number is a condition or an error
(`TestsNumber`). In the other direction, a function value of the tree walker
keeps a pointer to an environment that is freed with its call (`value.h:113`): a
returned closure reads freed memory there, while the VM's cells outlive the
frame. `docs/myon_spec.md:294` calls closures usual ones.

Further departures met while modelling, without a run of their own. With
`EventLoop` and sleeps of 1 ms, `RunnableRuns` fails: a due timer is preferred
on every turn (`event_loop.c:339`), so tasks that sleep in a loop can keep a
ready one from ever running, while `docs/myon_spec.md:1970` says that a
coroutine is resumed once its target has finished. With `PkgInstall`,
`cmd = "install" => {e.src : e \in lockFile} = Closure(Deps, toml)` fails: a
dependency taken out of `myon.toml` is still installed from the lock, which
"must still describe exactly the manifest's direct deps" (`pkg_ops.c:469`). With
`AsyncInterp`, `lastAwait.out # "void"` fails: a second await of a task gets
void, because `await_task` moves the result out (`interpreter.c:3659`).
`\A t : st[t] = "asleep" => Frames(t) = live[t]` fails: unwinding the shared
cleanup stack frees frames of suspended bodies (`:386`). `\A a : live[a] <=
MaxCallDepth` fails: the shared depth is put back to stale values (`:3464`,
`:3605`). With `HttpServer` under `FairSpec`, a waiting connection of
`serve_static` need not ever be accepted: the accept loop reads requests inline
and has no timeout (`:3979`). With `PkgResolve` and `StackCap` below the number
of packages less one, a cyclic graph can be accepted; in the code that takes a
chain of more than 255 packages. A failed promote of `install <url>` forgets
its staging directory before the clean-up can remove it (`pkg_ops.c:644`).

*Async and HTTP.* `current_task` is restored to a finished task, after which a
top-level `await` returns at once with nothing (`~lastAwait.early` of
`AsyncInterp` fails; `interpreter.c:3604` against `docs/myon_spec.md:1970`). A
full socket table counts as a fatal accept error: the listener is closed and
`serve` returns (`interpreter.c:3969`), although the comment at `:3993` says it
blocks the script forever.

`http_server` bounds what overlapping bodies do to one another; it does not say
they are safe. The error of a handler that has had company may go astray
(`Derail` of `HttpService`). A wait without a current task blocks the process,
so that a slow client does keep the others out: that takes a task of the script
which began without a current task and has put that back while the server runs
(`SuspendsWhileServing`), and the server's liveness is claimed only as long as
blocking waits keep coming to an end. If the accept loop itself blocks, the
connection tasks it has spawned are not begun before it returns to the loop.
The comment at `interpreter.c:2170` ("Inside a coroutine this suspends
cooperatively") and `docs/myon_spec.md:1530`, by which connections are served
concurrently, do not make that exception.

*Sockets.* A `connect` woken by a failed `select()` reads `SO_ERROR` while the
attempt is still going on and reports success; so can two tasks that connect
one index, and a main program whose `current_task` is a task that is over: its
wait returns at once, and an attempt still in progress is reported as a
success. A call whose index has been closed and given out again acts on the new
socket. A wait without a current task, of the main program or of a coroutine,
blocks every other one. `http_send_all` ignores errors. The property
`ConnectMeansConnected` and the marks `cut`, `shared` and `failed` name exactly
these cases.

*Module loading.* A load that failed leaves its `loading` flag set, so the next
import of the module in a REPL session is reported as circular. Inside a cycle
the half-loaded namespace can be called through its alias. The alias table is
one for all modules: an alias means what any module last imported under it, and
only the first import of a module makes an entry. A name that is missing in a
namespace is looked up in the global scope. A struct declared twice stops the
tree walker while it hoists; cyclic inheritance makes it loop.

*Bytecode files.* Hash and time of the source are taken after its text was read
(a change in between gives a file that looks fresh), the file is written in
place, struct declarations are not kept, and a `.myc` without a source falls
back on `<x>.myc.myon`. Jumps wrap beyond 32 KB; the 65th `break` or `continue`
of a loop and the 129th `elif` keep their placeholder jumps
(`mvm_compiler.c:1203`, `:1214`, `:1005`). Integers are compared as doubles. The
comment on the kinds of `MAKE_CLOSURE` in `mvm_bytecode.h:92` has them reversed.

*Lexer and parser.* Newlines between the statements of a lambda inside
parentheses are dropped, so such a body does not parse (`docs/myon_spec.md:73`).
`f(a < b, c > (d))` is read as a generic call (`parser.c:321`). `myon.not` binds
looser than comparisons, the table at `docs/myon_spec.md:174` puts it with the
unary minus, and `myon.await` takes the whole expression that follows. A newline
before `myon.elif` or `myon.else` is a syntax error. A hole in a string ends at
its first `}`.

*Package files.* Strings are written without escapes (`package.c:1013`,
`:1452`), so a version with a quote, which can be written in a manifest, gives
a lock that does not parse (`PlainFieldsReadBack` says for which texts it
does). `install <url>` writes `myon.toml` anew and loses its comments, which
`docs/package_manager.md:107` says are kept. Two lock entries of one name and
revision are accepted, the later counts, although `package.h:341` says names
are unique. The lock is compared with the manifest by name and commit, not by
owner and repository (`package.c:1485`), so a dependency moved in `myon.toml`
to another repository at the same commit is installed from the old one; that
the lock is out of date is not noticed.

Fairness. The loop is one thread: if `run_once` can do something it does
(`WF(Turn)`), the clock advances (`WF(Tick)`), a `select()` whose timeout has
elapsed returns, and a task body reaches its next suspension or its end.
Nothing is assumed about descriptors. In `HttpServer` a coroutine whose
descriptor is ready is resumed and a handler returns; the first is
`RunsWithoutTimers` of `EventLoop` (so the server's liveness is for programs
whose other tasks do not keep timers falling due). This is so only while no
body blocks the process, and nothing makes a blocking wait end:
`HungUpIsClosed` and `WaitingIsAccepted` have `[]<>(blocked = Nobody)` as their
premise. Nothing is assumed of clients or of the script's tasks. In `Sockets`
(`FairSpec`) a coroutine that can go on is resumed, a request gets from one
phase to the next and ends (a response has a limit), and a `select()` with
something to report returns; all of it strongly fair, since the waits that
block the process keep interrupting the loop. Such a wait ends when its
descriptor is ready or closed (`WF(BlockingReturns)`). The resolver's calls
return, and the VM runs on (`WF` of a step).

## 4. Proofs

Seven modules hold theorems about the components, and `PkgGraphProofs` the
lemmas two of them share. Each proves `Spec => []Inv` for an inductive `Inv`,
with one lemma per action (and one per conjunct where an action disturbs
several), and derives the properties the runs check from it. A TLC run has
confirmed each `Inv` on the instance of the component's run. Constants are
arbitrary within the named assumption of the component's module.

| module | theorems, each stating a property of section 3 unless marked |
|---|---|
| `EventLoopProofs` | `Typing` (not a run's property), `WaitsAreAccounted`, `SleepsAreServed`, `GiveUpIsSound`, `SleepersInOrder`, `OutcomesAreFinal` (not a run's property, `Refines` contains it), and `Implementation`: every step of the loop is a step of `Coroutines` or changes nothing it sees |
| `AsyncInterpProofs` | `Nested_Use_Is_Safe`, `Frames_Accounted`, `Failure_Reraised`, and `Implements_Coroutines`: the same of the interpreter's tasks |
| `HttpServerProofs` | `Slots_Accounted`, `Answered_Before_End`, `Suspends_While_Serving`, and `Implements_Service`: every step of the server is a step of `HttpService` or changes nothing it sees; `Answers_Own_Request` (not a run's property) |
| `SocketsProofs` | `Nothing_Leaks`, `Call_Keeps_Its_Socket`, `Connect_Means_Connected` |
| `ModuleLoadProofs` | `Imports_Finish_First`, `Alias_Means_Import`, `Namespaces_Apart`, `Cycles_Are_Real` |
| `PkgResolveProofs` | `Accepts_Only_Good_Graphs`, `Rejects_Only_Bad_Graphs`, `Staging_Accounted`, and, not properties of the run, `Lock_Is_Graph`: an accepted lock is the whole graph, and `Resolution_Ends`: only finitely many steps are possible |
| `PkgInstallProofs` | `Installed_Matches_Lock`, `None_Lost`, `Failure_Keeps_Installs`, and `Implements_Store`: every step of a command is a step of `PackageStore` or changes nothing it sees; `Commands_End` (not a run's property): a command takes finitely many steps |
| `PkgGraphProofs` | lemmas: `ClosureHolds` and `ClosureLeast`, the closure is the least set that holds the direct dependencies and what every member depends on; `BeforeIsWellFounded`, the order of triples of numbers that `Resolution_Ends` and `Commands_End` go down in |

The invariants, and why the properties are not inductive by themselves:

- **EventLoop** (any number of tasks, descriptors and durations,
  `LoopAssumption`). `Inv == TypeOK /\ WaitsAccounted /\ InSelect`. The code
  decides by fields that an earlier wait may have left behind. That a task in
  `pick_ready` with a deadline has indeed slept (`TimerSound`) is what makes
  the deadline order mean something; that a suspended task has a wakeup
  (`Wakeable`) is what makes the deadlock exit sound: with no descriptor
  watched and nobody asleep, the pending tasks can only be awaiters, and
  `AwaitSound` says of whom. `InSelect`, nobody waits in `select()` for a task
  that is over, is carried along because the ways out of `select()` do not
  repeat the wake pass for awaiters.
- **AsyncInterp** (any number of tasks and depth of calls, `InterpAssumption`).
  What a body will restore when it ends lies in its own C locals, so the
  property says nothing about the step that restores them. `Layered` does: the
  bodies that have started and not ended are layers, each with a stretch of
  `cleanup_stack` of its own, and each has saved in `saved` what the layer below
  was working with. It is claimed as long as bodies nest (`disciplined`);
  `Frames_Accounted` and `Failure_Reraised` do not need that, nor does the
  refinement. That needs `Scheduled` instead: whoever is marked as running is on
  the processor unless control has gone astray, which is why a jump into another
  body's barrier can end the wrong C stack but never a second task; and whoever
  is awaited was spawned.
- **HttpServer** (any number of clients and of other tasks, any size of the
  table, `ServerAssumption`). A task finds its socket by a number that is
  reused at once. `SlotOwner`: while the server is up, a slot holds a
  connection exactly while that connection's task is in progress and names that
  slot. From it a step of a task reads its own connection; `BacklogSound` and
  `ServiceSound` relate what was received to whom it was received from. The
  refinement needs in addition: `serve_static` has at most one connection, and
  while it has one the accept loop is in it (`OneByOne`, without which the
  server could stop or let another in meanwhile), and nothing is sent before
  the header has been read (`AnswerLast`). That an error goes astray only from
  a connection that has had company is `Alone`: who has had none is the only
  one in service, no task is on its way, and its barrier is the one set last -
  every body that could overwrite or put back the barrier is company;
  `HostWaits` says that the task that called `serve` is not on its
  way until the accept loop ends. `Suspends_While_Serving` rests on `Traced`: who found no current
  task and will put that back found it so because a task of the script, begun
  without one, had put that back (`Culprit`); what a connection found is the
  accept loop's or another connection's field.
- **Sockets** (any number of coroutines, slots and descriptors,
  `SocketsAssumption`). `TablesSound`: slots in use and open descriptors
  correspond one to one. `Grows` sums up what one try of an operation may do to
  the tables - it frees no slot, and touches the socket of its own index only -
  so that the proof goes once through the operations instead of once per actor
  and operation. `KeepsSocket` then says of every waiting call that its index
  still means its socket, or the mark says who closed it; `Alone` says of a
  connect nothing has disturbed that nobody else is on its index and that it is
  woken, in the loop or in a `select()` of its own, only once its attempt has
  ended.
- **ModuleLoad** (any set of sessions of any length and any call depth;
  `SessionAssumption` only says what a session is made of). The properties speak
  of the body on top of the stack, the invariant of all that wait below it:
  `Settled` says of every import a waiting body has passed that the module is
  loaded or its body is above that frame, which is why nothing half-loaded is
  left when control comes back; `AliasSound` says which import made each entry;
  `LoadingSound`, that a flag is still set because a body is on the stack or a
  program gave up below it; `FrameSound`, which names a body may still bind,
  which is what `ScopesSound` needs at every assignment.
- **PkgResolve** (any finite set of sources, any manifests, any limit on
  ancestors, `ResolveAssumption`). `NoneForgotten`: whatever a locked package
  depends on is locked or still to be visited by its own call. That an accepted
  graph has no cycle is true only while the ancestors fit into the array that
  `resolve_dep` hands down, so `Accepts_Only_Good_Graphs` has the hypothesis
  `CapFits` (at most `StackCap + 1` package names; 256 in the code), which the
  run's instance satisfies and the code does not enforce: section 3 says what
  happens beyond. Under it `DepthFirst` keeps the packages whose calls have
  returned closed and acyclic. `todo` is a set from which `First` takes one, so
  the proof holds for any order of the manifest. `Resolution_Ends` compares what
  is left to do (packages to lock, calls, dependencies of the innermost call) in
  the lexicographic order of three numbers, which the library's theorems show to
  be well-founded; it needs neither `CapFits` nor an acyclic graph.
- **PkgInstall** (any sources and dependencies, any bytes from the network, a
  failure at every call and a kill between any two, `InstallAssumption`).
  `Planned`: what is in the lock and no longer in the plan is installed;
  `Swapping` says what a promote has moved at each of its points; without the
  two, no step could be shown to leave a copy. The refinement needs `Covered`
  as well: the lock is closed under dependencies, and from the command's check
  to its report it has, for every direct dependency of the manifest that is
  there now, a package of that name and commit. Those packages are a manifest
  that agrees with the present one (`CoveredMeansNeeded`), and `ClosureLeast`
  gives the rest, since a lock that is closed and has them has all they need.
  What `PkgInstall` takes from the resolver is what `Lock_Is_Graph` proves
  there. `Commands_End` goes down in the part of the command, the names in the
  plan and the point in the promote; that the loop then has one name less is
  due to `Planned`: the item is in the plan.

Model-checked only:

- liveness under fairness (`SleeperRuns`, `RunsWithoutTimers`,
  `HungUpIsClosed`, `WaitingIsAccepted`, `CutCallEnds`, `ReadyCallGoesOn`,
  `Terminates`): beyond the prover. Of the resolver's `Terminates` all but the
  fairness is proved: that it has only finitely many steps to take
  (`Resolution_Ends`), not that it takes the next one;
- `SameMeaning`, `StackAccounted`, `ParsesWhatIsWritten` and
  `LoadsWhatWasSaved` of `Vm`: the engines, the parser and the reader of .myc
  files recurse over programs, and what a recursive definition computes for
  every input would be proved by induction over data, which these provers cannot
  do;
- `FilesReadBack` of `PkgFiles`, for the same reason: reading is a fold over
  lines.

For the proofs' sake a few definitions are written without recursion or without
operators the prover cannot expand, and mean the same: `Closure` as the least
fixed point, `With` for one binding more, positions instead of a fold in
`Prescan`.

## 5. Not modelled

The Win32 build (the same scheduler and table over other system calls); memory
exhaustion (the program exits); the contents of messages and archives; calls
into foreign code; TLS; downloads and the extraction of archives; diagnostics
and options. Two `myon pkg` processes at a time. Of the package formats the
spelling of names, URLs and hashes, and the verify and tree commands. Of the
language, in both engines: floats, generic functions, modules, async bodies and
the built-in modules. The limits of the engines (1,024 locals, 256 captures, 64
loops and jumps, call depth, nesting of prints), line tables and the
disassembler. How a lexeme is spelt, and the wording of every message.

## 6. Plan

Done: `Coroutines`, `EventLoop` with proofs, `AsyncInterp`, `HttpServer`,
`Sockets`, `ModuleLoad`, `PkgGraph`, `PkgResolve`, `PkgInstall` with its files,
and the language from its text to the bytecode file and both engines, apart from
what section 5 names.

Next: `Fetch` (redirect and size limits), `ZipExtract`, the TLS handshake
deadline, `CallbackSlots`; when a .myc counts as stale; a second process in
`PkgInstall` (fixed temporary names); task bodies in the engines.

Proved: the safety properties of every component outside the engines (section
4), that the event loop and the interpreter's tasks implement `Coroutines`, the
server `HttpService` and the package commands `PackageStore`, and that a
resolution and a command take finitely many steps. Proofs to come: the safety
part of the modules still to be written.
