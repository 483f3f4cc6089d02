------------------------------ MODULE PkgResolve ------------------------------
(***************************************************************************)
(* The dependency resolver of src/pkg_ops.c: resolve_all visits the root   *)
(* manifest's dependencies depth first and either builds a lock for the    *)
(* whole graph or fails and leaves nothing behind.                         *)
(*                                                                         *)
(* Names are numbered in the order deps_sort gives them.  The manifests on *)
(* the network are chosen once, in Init, by the value of deps.             *)
(*                                                                         *)
(* Bad... operators are plausible mistakes in the definition they precede. *)
(***************************************************************************)
EXTENDS PkgGraph, Sequences, SequencesExt

CONSTANTS
    Sources,   \* every source a manifest can name
    ModuleOf,  \* ModuleOf[s]: the module namespace package.myon declares
    StackCap   \* ancestors resolve_dep hands down besides the package itself

ASSUME ResolveAssumption ==
    /\ Sources \subseteq Nat \X Nat
    /\ IsFiniteSet(Sources)
    /\ DOMAIN ModuleOf = Sources
    /\ StackCap \in Nat

Names == {NameOf(s) : s \in Sources}
Manifests == ManifestsOver(Sources)

VARIABLES
    deps,     \* deps[s]: the dependencies in the package.myon of s
    root,     \* the dependencies in myon.toml
    keep,     \* keep_staging: resolving for an install
    frames,   \* the resolve_dep calls in progress: [path, todo]
    lock,     \* Resolver.lock
    owners,   \* Resolver.mod_ns / mod_owner: <<namespace, package name>>
    staging,  \* staged archives still on disk
    outcome

vars == <<deps, root, keep, frames, lock, owners, staging, outcome>>
world == <<deps, root, keep>>

Outcomes == {"running", "ok", "cycle", "conflict", "collision", "unusable"}
Frames == [path : Seq(Names), todo : Manifests]

TypeOK ==
    /\ deps \in [Sources -> Manifests]
    /\ root \in Manifests
    /\ keep \in BOOLEAN
    /\ frames \in Seq(Frames)
    /\ lock \subseteq Sources
    /\ owners \subseteq {<<ModuleOf[s], NameOf(s)>> : s \in Sources}
    /\ staging \subseteq Sources
    /\ outcome \in Outcomes

\* deps_sort: the dependencies are visited in the order of their names.
First(D) == CHOOSE s \in D : \A u \in D : NameOf(s) <= NameOf(u)

Top == Last(frames)
Edge == First(Top.todo)     \* the dependency resolve_dep looks at now

BadRest == frames

\* The loop over the caller's dependencies goes on behind the current one.
Rest == [frames EXCEPT ![Len(frames)].todo = @ \ {Edge}]

Visiting == outcome = "running" /\ frames # <<>> /\ Top.todo # {}

Locked == \E s \in lock : NameOf(s) = NameOf(Edge)

BadOnPath == Locked

OnPath == Contains(Top.path, NameOf(Edge))

-----------------------------------------------------------------------------
Init ==
    /\ deps \in [Sources -> Manifests]
    /\ root \in Manifests
    /\ keep \in BOOLEAN
    /\ frames = <<[path |-> <<>>, todo |-> root]>>
    /\ lock = {}
    /\ owners = {}
    /\ staging = {}
    /\ outcome = "running"

BadFail(reason) ==
    /\ outcome' = reason
    /\ frames' = <<>>
    /\ lock' = {}
    /\ owners' = {}
    /\ UNCHANGED <<world, staging>>

\* Every failure unwinds to resolve_all, which frees the lock and removes
\* all the staging directories kept so far.
Fail(reason) ==
    /\ outcome' = reason
    /\ frames' = <<>>
    /\ lock' = {}
    /\ owners' = {}
    /\ staging' = {}
    /\ UNCHANGED world

FindCycle ==
    /\ Visiting
    /\ OnPath
    /\ Fail("cycle")

BadShare ==
    /\ Visiting
    /\ ~OnPath
    /\ Locked
    /\ frames' = Rest
    /\ UNCHANGED <<world, lock, owners, staging, outcome>>

\* Already locked from the same source: nothing to do.
Share ==
    /\ Visiting
    /\ ~OnPath
    /\ Edge \in lock
    /\ frames' = Rest
    /\ UNCHANGED <<world, lock, owners, staging, outcome>>

FindConflict ==
    /\ Visiting
    /\ ~OnPath
    /\ Locked
    /\ Edge \notin lock
    /\ Fail("conflict")

\* fetch_archive, extract_to_staging or validate_staged fails; the last two
\* remove the staging directory they were given.
FetchFails ==
    /\ Visiting
    /\ ~OnPath
    /\ ~Locked
    /\ Fail("unusable")

\* ns_register: the namespace belongs to another package.
Taken == \E o \in owners : o[1] = ModuleOf[Edge] /\ o[2] # NameOf(Edge)

FindCollision ==
    /\ Visiting
    /\ ~OnPath
    /\ ~Locked
    /\ Taken
    /\ Fail("collision")

\* next[]: at most StackCap ancestors, then the package itself.
PathBelow(path, s) ==
    Append(SubSeq(path, 1, IF Len(path) < StackCap THEN Len(path) ELSE StackCap),
           NameOf(s))

\* A new package: record it, then resolve its own dependencies.
LockPackage ==
    /\ Visiting
    /\ ~OnPath
    /\ ~Locked
    /\ ~Taken
    /\ lock' = lock \union {Edge}
    /\ owners' = owners \union {<<ModuleOf[Edge], NameOf(Edge)>>}
    /\ staging' = IF keep THEN staging \union {Edge} ELSE staging
    /\ frames' = Append(Rest, [path |-> PathBelow(Top.path, Edge),
                               todo |-> deps[Edge]])
    /\ UNCHANGED <<world, outcome>>

\* A resolve_dep call has visited all dependencies of its package.
Return ==
    /\ outcome = "running"
    /\ Len(frames) > 1
    /\ Top.todo = {}
    /\ frames' = Front(frames)
    /\ UNCHANGED <<world, lock, owners, staging, outcome>>

\* resolve_all returns the lock.
Succeed ==
    /\ outcome = "running"
    /\ Len(frames) = 1
    /\ Top.todo = {}
    /\ outcome' = "ok"
    /\ frames' = <<>>
    /\ UNCHANGED <<world, lock, owners, staging>>

Visit ==
    \/ FindCycle \/ Share \/ FindConflict
    \/ FetchFails \/ FindCollision \/ LockPackage

Next == Visit \/ Return \/ Succeed

Spec == Init /\ [][Next]_vars
FairSpec == Spec /\ WF_vars(Next)

-----------------------------------------------------------------------------
\* What the answer should be, by definition

Graph == Closure(deps, root)

Cyclic == ~Acyclic(deps, root)

NameCycle ==
    \E s \in Graph : \E u \in Closure(deps, deps[s]) : NameOf(u) = NameOf(s)

Conflicting == ~OneRevisionEach(Graph)

Colliding ==
    \E s, u \in Graph : NameOf(s) # NameOf(u) /\ ModuleOf[s] = ModuleOf[u]

-----------------------------------------------------------------------------
\* Properties

\* A lock is produced only for a graph without a cycle, with one revision of
\* each package and one owner of each namespace, and it is the whole graph.
AcceptsOnlyGoodGraphs ==
    outcome = "ok" =>
        lock = Graph /\ ~Cyclic /\ ~Conflicting /\ ~Colliding

\* The diagnosis names a real defect of the graph: sharing a package between
\* two dependents (a diamond) is never taken for a cycle or a conflict.
RejectsOnlyBadGraphs ==
    /\ outcome = "cycle" => NameCycle
    /\ outcome = "conflict" => Conflicting
    /\ outcome = "collision" => Colliding

\* No staging directory is left behind by a failure or by pkg lock, and
\* an install gets one for each locked package.
StagingAccounted ==
    /\ TypeOK
    /\ outcome # "running" =>
        staging = IF outcome = "ok" /\ keep THEN lock ELSE {}

\* Resolution ends on every graph, cyclic ones included.
Terminates == <>(outcome # "running")
=============================================================================
