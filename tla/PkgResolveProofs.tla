-------------------------- MODULE PkgResolveProofs --------------------------
(***************************************************************************)
(* Proofs about the dependency resolver (module PkgResolve) for any set of *)
(* sources, any manifests on the network and any limit on the ancestors    *)
(* that resolve_dep hands down.                                            *)
(*                                                                         *)
(* Running is what a depth-first search keeps: whatever a locked package   *)
(* depends on is locked or still to be visited by its resolve_dep call.    *)
(* That a lock has no cycle holds only while the ancestors fit into the    *)
(* array that holds them (CapFits); DepthFirst is the invariant for it.    *)
(***************************************************************************)
EXTENDS PkgResolve, PkgGraphProofs

-----------------------------------------------------------------------------
\* The invariant

\* The outermost call is that of resolve_all; the others are for a package.
CallsSound ==
    /\ Len(frames) > 0
    /\ frames[1].path = <<>>
    /\ \A k \in 2..Len(frames) : frames[k].path # <<>>
    /\ \A k \in 1..Len(frames) : frames[k].todo \subseteq Graph

\* What has been locked is part of the graph and has neither two revisions of
\* a package nor two owners of a namespace.
LockSound ==
    /\ lock \subseteq Graph
    /\ OneRevisionEach(lock)
    /\ owners = {<<ModuleOf[s], NameOf(s)>> : s \in lock}
    /\ \A s, u \in lock : ModuleOf[s] = ModuleOf[u] => NameOf(s) = NameOf(u)

\* Nothing is forgotten: a dependency of the root or of a locked package is
\* locked, or the call for its dependent has still to visit it.
NoneForgotten ==
    /\ root \subseteq lock \union frames[1].todo
    /\ \A s \in lock :
        \/ deps[s] \subseteq lock
        \/ \E k \in 2..Len(frames) :
            /\ Last(frames[k].path) = NameOf(s)
            /\ deps[s] \subseteq lock \union frames[k].todo

\* A name on the path is the name of a package from which everything that
\* call has still to visit is reached.
PathSound ==
    \A k \in 1..Len(frames) : \A i \in 1..Len(frames[k].path) :
        \E s \in Graph :
            /\ NameOf(s) = frames[k].path[i]
            /\ frames[k].todo \subseteq Closure(deps, deps[s])

Staged == staging = IF keep THEN lock ELSE {}

Running == CallsSound /\ LockSound /\ NoneForgotten /\ PathSound /\ Staged

\* What the resolver answers is right, but for cycles it may have missed.
Answered ==
    /\ outcome = "ok" =>
        lock = Graph /\ ~Conflicting /\ ~Colliding /\ Staged
    /\ outcome \notin {"running", "ok"} => staging = {}
    /\ RejectsOnlyBadGraphs

Inv ==
    /\ TypeOK
    /\ outcome = "running" => Running
    /\ outcome # "running" => Answered

\* The ancestors fit into the array: no chain of packages with distinct names
\* is longer.
CapFits == Cardinality(Names) <= StackCap + 1

\* The locked packages whose calls have returned
Done ==
    {s \in lock : \A i \in 1..Len(Top.path) : Top.path[i] # NameOf(s)}

\* What the package on level k depends on is done, is still to be visited by
\* its call, or is the package on the next level.
Underway(k) ==
    \A s \in lock : NameOf(s) = Top.path[k - 1] =>
        \A t \in deps[s] :
            \/ t \in Done
            \/ t \in frames[k].todo
            \/ k < Len(frames) /\ t \in lock /\ NameOf(t) = Top.path[k]

\* The calls form one path of distinct packages, and what is done depends on
\* what is done, without a cycle.
DepthFirst ==
    /\ \A k \in 1..Len(frames) :
        /\ Len(frames[k].path) = k - 1
        /\ \A i \in 1..(k - 1) : frames[k].path[i] = Top.path[i]
    /\ \A i, j \in 1..Len(Top.path) : Top.path[i] = Top.path[j] => i = j
    /\ Closed(deps, Done)
    /\ \A s \in Done : s \notin Closure(deps, deps[s])
    /\ \A k \in 2..Len(frames) : Underway(k)

CycleInvariant ==
    /\ Inv
    /\ outcome = "running" => DepthFirst
    /\ outcome = "ok" => Acyclic(deps, root)

-----------------------------------------------------------------------------
\* Facts about the operators of the model

\* A set of natural numbers that is not empty has a least element.
LEMMA LeastNat ==
    ASSUME NEW S \in SUBSET Nat, S # {}
    PROVE  \E m \in S : \A k \in S : m <= k
  <1>1. PICK m \in S : \A k \in S : ~(<<k, m>> \in OpToRel(<, Nat))
    BY NatLessThanWellFounded, WFMin
  <1>2. \A k \in S : ~(k < m)
    BY <1>1 DEF OpToRel
  <1> QED
    BY <1>2

\* First chooses a member.
LEMMA FirstFacts ==
    ASSUME NEW D \in SUBSET Sources, D # {}
    PROVE  First(D) \in D
  <1> DEFINE S == {NameOf(s) : s \in D}
  <1>1. S \in SUBSET Nat /\ S # {}
    BY ResolveAssumption DEF NameOf
  <1>2. PICK m \in S : \A k \in S : m <= k
    BY <1>1, LeastNat
  <1>3. \E s \in D : \A u \in D : NameOf(s) <= NameOf(u)
    BY <1>2
  <1> QED
    BY <1>3 DEF First

\* A part of a manifest is a manifest, and a manifest is a set of sources.
LEMMA ManifestFacts ==
    /\ Manifests \subseteq SUBSET Sources
    /\ \A D \in Manifests : \A S \in SUBSET D : S \in Manifests
    /\ \A s \in Sources : NameOf(s) \in Names
  BY DEF Manifests, ManifestsOver, Names

\* The graph is made of sources, holds the root, and is closed; and so is
\* what a package of it reaches.
LEMMA GraphFacts ==
    ASSUME TypeOK
    PROVE  /\ deps \in [Sources -> SUBSET Sources]
           /\ Graph \in SUBSET Sources
           /\ root \subseteq Graph
           /\ Closed(deps, Graph)
           /\ \A s \in Sources :
                /\ deps[s] \subseteq Closure(deps, deps[s])
                /\ Closed(deps, Closure(deps, deps[s]))
  <1>1. /\ deps \in [Sources -> SUBSET Sources]
        /\ root \in SUBSET Sources
    BY ManifestFacts DEF TypeOK
  <1>2. \A s \in Sources : deps[s] \in SUBSET Sources
    BY <1>1
  <1> QED
    BY <1>1, <1>2, ClosureHolds DEF Graph

\* The path that is handed down ends in the package itself, and its other
\* names are names of the path so far; it is not cut while it fits.
LEMMA PathBelowFacts ==
    ASSUME NEW path \in Seq(Names), NEW s \in Sources
    PROVE  LET p == PathBelow(path, s)
           IN  /\ p \in Seq(Names)
               /\ p # <<>>
               /\ Last(p) = NameOf(s)
               /\ \A i \in 1..Len(p) :
                    p[i] = NameOf(s) \/ \E j \in 1..Len(path) : p[i] = path[j]
               /\ Len(path) <= StackCap =>
                    /\ Len(p) = Len(path) + 1
                    /\ \A i \in 1..Len(path) : p[i] = path[i]
  <1> DEFINE n == IF Len(path) < StackCap THEN Len(path) ELSE StackCap
             q == SubSeq(path, 1, n)
             p == PathBelow(path, s)
  <1>1. n \in Nat /\ n <= Len(path)
    BY ResolveAssumption
  <1>2. /\ q \in Seq(Names) /\ Len(q) = n
        /\ \A i \in 1..n : q[i] = path[i]
    BY <1>1
  <1>3. p = Append(q, NameOf(s))
    BY DEF PathBelow
  <1>4. NameOf(s) \in Names
    BY DEF Names
  <1>5. /\ p \in Seq(Names) /\ Len(p) = n + 1
        /\ p[n + 1] = NameOf(s)
        /\ \A i \in 1..n : p[i] = path[i]
    BY <1>2, <1>3, <1>4
  <1> HIDE DEF p
  <1>6. p # <<>> /\ Last(p) = NameOf(s)
    BY <1>1, <1>5 DEF Last
  <1>7. \A i \in 1..Len(p) :
            p[i] = NameOf(s) \/ \E j \in 1..Len(path) : p[i] = path[j]
    BY <1>1, <1>5
  <1>8. Len(path) <= StackCap => n = Len(path)
    BY ResolveAssumption
  <1> QED
    BY <1>5, <1>6, <1>7, <1>8 DEF p

\* The dependency that is looked at is one the top call has to visit, and
\* Rest takes it off that call's list only.
LEMMA VisitFacts ==
    ASSUME TypeOK, Visiting
    PROVE  /\ Len(frames) \in Nat \ {0}
           /\ Top = frames[Len(frames)] /\ Top \in Frames
           /\ Edge \in Top.todo /\ Edge \in Sources
           /\ Rest \in Seq(Frames) /\ Len(Rest) = Len(frames)
           /\ \A k \in 1..Len(frames) :
                /\ Rest[k].path = frames[k].path
                /\ Rest[k].todo = IF k = Len(frames)
                                  THEN frames[k].todo \ {Edge}
                                  ELSE frames[k].todo
  <1>1. frames \in Seq(Frames) /\ frames # <<>> /\ Top.todo # {}
    BY DEF TypeOK, Visiting
  <1>2. Len(frames) \in Nat \ {0}
    BY <1>1
  <1>3. Top = frames[Len(frames)] /\ Top \in Frames
    BY <1>1, <1>2 DEF Top, Last
  <1>4. Top.todo \in Manifests /\ Top.path \in Seq(Names)
    BY <1>3 DEF Frames
  <1>5. Edge \in Top.todo /\ Edge \in Sources
    BY <1>1, <1>4, FirstFacts, ManifestFacts DEF Edge
  <1> DEFINE f == [path |-> Top.path, todo |-> Top.todo \ {Edge}]
  <1>6. f \in Frames
    BY <1>4, ManifestFacts DEF Frames
  <1>7. [Top EXCEPT !.todo = @ \ {Edge}] = f
    <2>1. ASSUME NEW r \in Frames, NEW D
          PROVE  [r EXCEPT !.todo = D] = [path |-> r.path, todo |-> D]
      BY DEF Frames
    <2> QED
      BY <1>3, <2>1
  <1>8. Rest = [frames EXCEPT ![Len(frames)] = f]
    BY <1>3, <1>7 DEF Rest
  <1> HIDE DEF f
  <1>9. Rest \in Seq(Frames) /\ Len(Rest) = Len(frames)
    BY <1>1, <1>2, <1>6, <1>8
  <1>10. \A k \in 1..Len(frames) :
             Rest[k] = IF k = Len(frames) THEN f ELSE frames[k]
    BY <1>1, <1>2, <1>8
  <1>11. f.path = Top.path /\ f.todo = Top.todo \ {Edge}
    BY DEF f
  <1> QED
    BY <1>2, <1>3, <1>5, <1>9, <1>10, <1>11

\* What is asked of the graph does not change while it is resolved.
LEMMA WorldFacts ==
    ASSUME UNCHANGED world
    PROVE  /\ Graph' = Graph
           /\ Conflicting' = Conflicting
           /\ Colliding' = Colliding
           /\ NameCycle' = NameCycle
           /\ Acyclic(deps, root)' = Acyclic(deps, root)
           /\ deps' = deps /\ root' = root /\ keep' = keep
  <1>1. deps' = deps /\ root' = root /\ keep' = keep
    BY DEF world
  <1>2. Graph' = Graph
    BY <1>1 DEF Graph
  <1>3. Conflicting' = Conflicting /\ Colliding' = Colliding
    BY <1>2 DEF Conflicting, Colliding, OneRevisionEach
  <1>4. NameCycle' = NameCycle
    BY <1>1, <1>2 DEF NameCycle
  <1>5. Acyclic(deps, root)' = Acyclic(deps, root)
    BY <1>1 DEF Acyclic
  <1> QED
    BY <1>1, <1>2, <1>3, <1>4, <1>5

-----------------------------------------------------------------------------
\* Every step keeps the invariant.

\* The initial state satisfies the invariant.
LEMMA InitInv == Init => Inv
  <1> SUFFICES ASSUME Init PROVE Inv
    OBVIOUS
  <1>1. /\ frames \in Seq(Frames) /\ Len(frames) = 1
        /\ frames[1].path = <<>> /\ frames[1].todo = root
    BY DEF Init, Frames
  <1>2. TypeOK
    BY <1>1 DEF Init, TypeOK, Outcomes
  <1>3. CallsSound
    BY <1>1, <1>2, GraphFacts DEF CallsSound
  <1>4. LockSound /\ Staged
    BY DEF Init, LockSound, Staged, OneRevisionEach
  <1>5. NoneForgotten /\ PathSound
    BY <1>1 DEF Init, NoneForgotten, PathSound
  <1> QED
    BY <1>2, <1>3, <1>4, <1>5 DEF Init, Inv, Running

\* A failure keeps the invariant if its diagnosis is right: the staging
\* directories are removed.
LEMMA FailInv ==
    ASSUME Inv,
           NEW reason \in {"cycle", "conflict", "collision", "unusable"},
           reason = "cycle" => NameCycle,
           reason = "conflict" => Conflicting,
           reason = "collision" => Colliding,
           Fail(reason)
    PROVE  Inv'
  <1>1. TypeOK'
    BY DEF Inv, TypeOK, Fail, world, Outcomes
  <1>2. RejectsOnlyBadGraphs'
    BY WorldFacts DEF Fail, RejectsOnlyBadGraphs
  <1> QED
    BY <1>1, <1>2 DEF Inv, Fail, Answered

\* A name on the path that comes back is a cycle of the graph: it reaches
\* itself through what the top call has to visit.
LEMMA CycleInv ==
    ASSUME Inv, FindCycle
    PROVE  Inv'
  <1>1. TypeOK /\ Running /\ Visiting /\ Fail("cycle")
    BY DEF FindCycle, Visiting, Inv
  <1>2. PICK i \in 1..Len(Top.path) : Top.path[i] = NameOf(Edge)
    BY DEF FindCycle, OnPath, Contains
  <1>3. PICK s \in Graph : /\ NameOf(s) = NameOf(Edge)
                           /\ Top.todo \subseteq Closure(deps, deps[s])
    BY <1>1, <1>2, VisitFacts DEF Running, PathSound
  <1>4. NameCycle
    BY <1>1, <1>3, VisitFacts DEF NameCycle
  <1> QED
    BY <1>1, <1>4, FailInv

\* A second revision of a locked package, and a second owner of a namespace,
\* are in the graph; an archive may always be unusable.
LEMMA RefuseInv ==
    ASSUME Inv, FindConflict \/ FindCollision \/ FetchFails
    PROVE  Inv'
  <1>1. TypeOK /\ Running /\ Visiting
    BY DEF FindConflict, FindCollision, FetchFails, Visiting, Inv
  <1>2. Edge \in Graph /\ lock \subseteq Graph
    BY <1>1, VisitFacts DEF Running, CallsSound, LockSound
  <1>3. CASE FindConflict
    <2>1. Conflicting
      BY <1>2, <1>3 DEF FindConflict, Locked, Conflicting, OneRevisionEach
    <2> QED
      BY <1>3, <2>1, FailInv DEF FindConflict
  <1>4. CASE FindCollision
    <2>1. PICK s \in lock : /\ ModuleOf[s] = ModuleOf[Edge]
                            /\ NameOf(s) # NameOf(Edge)
      BY <1>1, <1>4 DEF FindCollision, Taken, Running, LockSound
    <2>2. Colliding
      BY <1>2, <2>1 DEF Colliding
    <2> QED
      BY <1>4, <2>2, FailInv DEF FindCollision
  <1>5. CASE FetchFails
    BY <1>5, FailInv DEF FetchFails
  <1> QED
    BY <1>3, <1>4, <1>5

\* Sharing a locked package keeps the invariant.
LEMMA ShareInv ==
    ASSUME Inv, Share
    PROVE  Inv'
  <1> DEFINE n == Len(frames)
  <1>1. /\ TypeOK /\ Running /\ Visiting
        /\ frames' = Rest /\ Edge \in lock
        /\ UNCHANGED <<world, lock, owners, staging, outcome>>
    BY DEF Share, Visiting, Inv
  <1>2. /\ n \in Nat \ {0} /\ Rest \in Seq(Frames) /\ Len(frames') = n
        /\ \A k \in 1..n :
             /\ frames'[k].path = frames[k].path
             /\ frames'[k].todo \subseteq frames[k].todo
             /\ frames[k].todo \subseteq frames'[k].todo \union {Edge}
    BY <1>1, VisitFacts
  <1>3. Graph' = Graph /\ deps' = deps /\ root' = root /\ keep' = keep
    BY <1>1, WorldFacts
  <1> HIDE DEF n
  <1>4. TypeOK'
    BY <1>1, <1>2 DEF TypeOK, world
  <1>5. CallsSound'
    BY <1>1, <1>2, <1>3 DEF Running, CallsSound, n
  <1>6. LockSound' /\ Staged'
    BY <1>1, <1>3 DEF Running, LockSound, OneRevisionEach, Staged
  <1>7. NoneForgotten'
    <2>1. /\ root \subseteq lock \union frames'[1].todo
          /\ \A k \in 2..n, s \in lock :
               deps[s] \subseteq lock \union frames[k].todo =>
                   deps[s] \subseteq lock \union frames'[k].todo
      BY <1>1, <1>2 DEF Running, NoneForgotten
    <2> QED
      BY <1>1, <1>2, <1>3, <2>1 DEF Running, NoneForgotten, n
  <1>8. PathSound'
    BY <1>1, <1>2, <1>3 DEF Running, PathSound, n
  <1> QED
    BY <1>1, <1>4, <1>5, <1>6, <1>7, <1>8 DEF Inv, Running, Visiting

\* Locking a package keeps the invariant: a call for it starts on all its
\* dependencies.
LEMMA LockPackageInv ==
    ASSUME Inv, LockPackage
    PROVE  Inv'
  <1> DEFINE n == Len(frames)
             p == PathBelow(Top.path, Edge)
             f == [path |-> p, todo |-> deps[Edge]]
  <1>1. /\ TypeOK /\ Running /\ Visiting
        /\ frames' = Append(Rest, f)
        /\ lock' = lock \union {Edge}
        /\ owners' = owners \union {<<ModuleOf[Edge], NameOf(Edge)>>}
        /\ staging' = IF keep THEN staging \union {Edge} ELSE staging
        /\ ~Locked /\ ~Taken
        /\ UNCHANGED <<world, outcome>>
    BY DEF LockPackage, Visiting, Inv
  <1>2. /\ n \in Nat \ {0}
        /\ Top = frames[n] /\ Top.path \in Seq(Names)
        /\ Edge \in Top.todo /\ Edge \in Sources
        /\ Rest \in Seq(Frames) /\ Len(Rest) = n
        /\ \A k \in 1..n : /\ Rest[k].path = frames[k].path
                           /\ Rest[k].todo \subseteq frames[k].todo
                           /\ frames[k].todo \subseteq Rest[k].todo \union {Edge}
    BY <1>1, VisitFacts DEF Frames
  <1>3. /\ p \in Seq(Names) /\ p # <<>> /\ Last(p) = NameOf(Edge)
        /\ \A i \in 1..Len(p) :
             p[i] = NameOf(Edge)
               \/ \E j \in 1..Len(Top.path) : p[i] = Top.path[j]
    BY <1>2, PathBelowFacts
  <1> HIDE DEF n, p
  <1>4. f \in Frames /\ f.path = p /\ f.todo = deps[Edge]
    BY <1>1, <1>2, <1>3 DEF Frames, TypeOK
  <1> HIDE DEF f
  <1>5. /\ frames' \in Seq(Frames) /\ Len(frames') = n + 1
        /\ frames'[n + 1] = f
        /\ \A k \in 1..n : frames'[k] = Rest[k]
    BY <1>1, <1>2, <1>4
  <1>6. Graph' = Graph /\ deps' = deps /\ root' = root /\ keep' = keep
    BY <1>1, WorldFacts
  <1>7. /\ Edge \in Graph
        /\ deps[Edge] \subseteq Graph
    BY <1>1, <1>2, GraphFacts DEF Running, CallsSound, Closed, n
  <1>8. TypeOK'
    BY <1>1, <1>2, <1>5 DEF TypeOK, world
  <1>9. CallsSound'
    <2>1. \A k \in 1..n : /\ frames'[k].path = frames[k].path
                          /\ frames'[k].todo \subseteq frames[k].todo
      BY <1>2, <1>5
    <2>2. \A k \in 1..n : frames'[k].todo \subseteq Graph
      BY <1>1, <2>1 DEF Running, CallsSound, n
    <2>3. frames'[1].path = <<>> /\ \A k \in 2..n : frames'[k].path # <<>>
      BY <1>1, <1>2, <2>1 DEF Running, CallsSound, n
    <2>4. frames'[n + 1].path # <<>> /\ frames'[n + 1].todo \subseteq Graph
      BY <1>3, <1>4, <1>5, <1>7
    <2> QED
      BY <1>2, <1>5, <1>6, <2>2, <2>3, <2>4 DEF CallsSound
  <1>10. LockSound'
    <2>1. \A s \in lock : NameOf(s) # NameOf(Edge)
      BY <1>1 DEF Locked
    <2>2. ASSUME NEW s \in lock
          PROVE  ModuleOf[s] # ModuleOf[Edge]
      <3>1. <<ModuleOf[s], NameOf(s)>> \in owners
        BY <1>1 DEF Running, LockSound
      <3> QED
        BY <1>1, <2>1, <3>1 DEF Taken
    <2> QED
      BY <1>1, <1>6, <1>7, <2>1, <2>2
         DEF Running, LockSound, OneRevisionEach
  <1>11. Staged'
    BY <1>1, <1>6 DEF Running, Staged
  <1>12. NoneForgotten'
    <2>1. \A k \in 1..n : /\ frames'[k].path = frames[k].path
                          /\ lock \union frames[k].todo
                               \subseteq lock' \union frames'[k].todo
      BY <1>1, <1>2, <1>5
    <2>2. root' \subseteq lock' \union frames'[1].todo
      BY <1>1, <1>2, <1>6, <2>1 DEF Running, NoneForgotten
    <2>3. ASSUME NEW s \in lock
          PROVE  \/ deps[s] \subseteq lock'
                 \/ \E k \in 2..n + 1 :
                      /\ Last(frames'[k].path) = NameOf(s)
                      /\ deps[s] \subseteq lock' \union frames'[k].todo
      <3>1. CASE deps[s] \subseteq lock
        BY <1>1, <3>1
      <3>2. CASE ~(deps[s] \subseteq lock)
        <4>1. PICK k \in 2..n : /\ Last(frames[k].path) = NameOf(s)
                                /\ deps[s] \subseteq lock \union frames[k].todo
          BY <1>1, <3>2 DEF Running, NoneForgotten, n
        <4> QED
          BY <1>2, <2>1, <4>1
      <3> QED
        BY <3>1, <3>2
    <2>4. /\ n + 1 \in 2..n + 1
          /\ Last(frames'[n + 1].path) = NameOf(Edge)
          /\ deps[Edge] \subseteq lock' \union frames'[n + 1].todo
      BY <1>2, <1>3, <1>4, <1>5
    <2> QED
      BY <1>1, <1>5, <1>6, <2>2, <2>3, <2>4 DEF NoneForgotten
  <1>13. PathSound'
    <2>1. ASSUME NEW k \in 1..n, NEW i \in 1..Len(frames'[k].path)
          PROVE  \E s \in Graph :
                     /\ NameOf(s) = frames'[k].path[i]
                     /\ frames'[k].todo \subseteq Closure(deps, deps[s])
      <3>1. /\ frames'[k].path = frames[k].path
            /\ frames'[k].todo \subseteq frames[k].todo
        BY <1>2, <1>5
      <3>2. PICK s \in Graph :
                /\ NameOf(s) = frames[k].path[i]
                /\ frames[k].todo \subseteq Closure(deps, deps[s])
        BY <1>1, <3>1 DEF Running, PathSound, n
      <3> QED
        BY <3>1, <3>2
    <2>2. ASSUME NEW i \in 1..Len(p)
          PROVE  \E s \in Graph :
                     /\ NameOf(s) = p[i]
                     /\ deps[Edge] \subseteq Closure(deps, deps[s])
      <3>1. CASE p[i] = NameOf(Edge)
        <4>1. deps[Edge] \subseteq Closure(deps, deps[Edge])
          BY <1>1, <1>2, GraphFacts
        <4> QED
          BY <1>7, <3>1, <4>1
      <3>2. CASE p[i] # NameOf(Edge)
        <4>1. PICK j \in 1..Len(Top.path) : p[i] = Top.path[j]
          BY <1>3, <3>2
        <4>2. PICK s \in Graph :
                  /\ NameOf(s) = p[i]
                  /\ Top.todo \subseteq Closure(deps, deps[s])
          BY <1>1, <1>2, <4>1 DEF Running, PathSound, n
        <4>3. deps[Edge] \subseteq Closure(deps, deps[s])
          BY <1>1, <1>2, <4>2, GraphFacts DEF Closed
        <4> QED
          BY <4>2, <4>3
      <3> QED
        BY <3>1, <3>2
    <2> QED
      BY <1>2, <1>4, <1>5, <1>6, <2>1, <2>2 DEF PathSound
  <1> QED
    BY <1>1, <1>8, <1>9, <1>10, <1>11, <1>12, <1>13
       DEF Inv, Running, Visiting

\* The return of a call that has visited everything keeps the invariant: all
\* its package depends on is locked.
LEMMA ReturnInv ==
    ASSUME Inv, Return
    PROVE  Inv'
  <1> DEFINE n == Len(frames)
  <1>1. /\ TypeOK /\ Running /\ n > 1
        /\ frames' = Front(frames)
        /\ Top.todo = {}
        /\ UNCHANGED <<world, lock, owners, staging, outcome>>
    BY DEF Return, Inv
  <1>2. /\ n \in Nat \ {0, 1} /\ Top = frames[n]
        /\ frames' \in Seq(Frames) /\ Len(frames') = n - 1
        /\ \A k \in 1..(n - 1) : frames'[k] = frames[k]
    BY <1>1 DEF TypeOK, Front, Top, Last
  <1>3. Graph' = Graph /\ deps' = deps /\ root' = root /\ keep' = keep
    BY <1>1, WorldFacts
  <1> HIDE DEF n
  <1>4. TypeOK'
    BY <1>1, <1>2 DEF TypeOK, world
  <1>5. CallsSound'
    BY <1>1, <1>2, <1>3 DEF Running, CallsSound, n
  <1>6. LockSound' /\ Staged'
    BY <1>1, <1>3 DEF Running, LockSound, OneRevisionEach, Staged
  <1>7. NoneForgotten'
    <2>1. frames[n].todo = {}
      BY <1>1, <1>2
    <2>2. ASSUME NEW s \in lock
          PROVE  \/ deps[s] \subseteq lock
                 \/ \E k \in 2..(n - 1) :
                      /\ Last(frames[k].path) = NameOf(s)
                      /\ deps[s] \subseteq lock \union frames[k].todo
      BY <1>1, <1>2, <2>1 DEF Running, NoneForgotten, n
    <2> QED
      BY <1>1, <1>2, <1>3, <2>2 DEF Running, NoneForgotten
  <1>8. PathSound'
    <2>1. ASSUME NEW k \in 1..(n - 1), NEW i \in 1..Len(frames[k].path)
          PROVE  \E s \in Graph : /\ NameOf(s) = frames[k].path[i]
                                 /\ frames[k].todo \subseteq Closure(deps, deps[s])
      <3>1. k \in 1..Len(frames)
        BY <1>2 DEF n
      <3> QED
        BY <1>1, <3>1 DEF Running, PathSound
    <2> QED
      BY <1>2, <1>3, <2>1 DEF PathSound
  <1> QED
    BY <1>1, <1>4, <1>5, <1>6, <1>7, <1>8 DEF Inv, Running, Return

\* The end of the root's dependencies: the lock is closed, so it is the graph.
LEMMA SucceedInv ==
    ASSUME Inv, Succeed
    PROVE  Inv'
  <1>1. /\ TypeOK /\ Running
        /\ Len(frames) = 1 /\ frames[1].todo = {}
        /\ outcome' = "ok" /\ frames' = <<>>
        /\ UNCHANGED <<world, lock, owners, staging>>
    BY DEF Succeed, Inv, Top, Last
  <1>2. /\ Graph' = Graph /\ deps' = deps /\ root' = root /\ keep' = keep
        /\ Conflicting' = Conflicting /\ Colliding' = Colliding
    BY <1>1, WorldFacts
  <1>3. TypeOK'
    BY <1>1 DEF TypeOK, world, Outcomes
  <1>4. lock = Graph
    <2>1. root \subseteq lock /\ Closed(deps, lock)
      BY <1>1 DEF Running, NoneForgotten, Closed
    <2>2. /\ deps \in [Sources -> SUBSET Sources]
          /\ root \in SUBSET Sources /\ lock \in SUBSET Sources
      BY <1>1, GraphFacts, ManifestFacts DEF TypeOK
    <2>3. Graph \subseteq lock
      BY <2>1, <2>2, ClosureLeast DEF Graph
    <2> QED
      BY <1>1, <2>3 DEF Running, LockSound
  <1>5. ~Conflicting /\ ~Colliding
    BY <1>1, <1>4 DEF Running, LockSound, Conflicting, Colliding
  <1>6. Answered'
    BY <1>1, <1>2, <1>4, <1>5
       DEF Answered, Running, Staged, RejectsOnlyBadGraphs
  <1> QED
    BY <1>1, <1>3, <1>6 DEF Inv

\* Every step keeps the invariant.
LEMMA NextInv == Inv /\ [Next]_vars => Inv'
  <1> SUFFICES ASSUME Inv, [Next]_vars PROVE Inv'
    OBVIOUS
  <1>1. CASE Next
    BY <1>1, CycleInv, RefuseInv, ShareInv, LockPackageInv, ReturnInv,
       SucceedInv DEF Next, Visit
  <1>2. CASE UNCHANGED vars
    <2>1. /\ UNCHANGED world
          /\ UNCHANGED <<frames, lock, owners, staging, outcome>>
      BY <1>2 DEF vars, world
    <2>2. TypeOK'
      BY <2>1 DEF Inv, TypeOK, world
    <2>3. Running' = Running /\ Answered' = Answered
      BY <2>1, WorldFacts DEF Running, CallsSound, LockSound, OneRevisionEach,
         NoneForgotten, PathSound, Staged, Answered, RejectsOnlyBadGraphs
    <2> QED
      BY <2>1, <2>2, <2>3 DEF Inv
  <1> QED
    BY <1>1, <1>2

-----------------------------------------------------------------------------
\* Every step keeps the search depth first, as long as the ancestors fit.

\* There are finitely many names.
LEMMA NamesFinite == IsFiniteSet(Names)
  BY ResolveAssumption, FinitelyManyNames DEF Names

\* A package that is not on the path has a path below it that is not cut.
LEMMA PathFits ==
    ASSUME CapFits, TypeOK, DepthFirst, Visiting, ~OnPath
    PROVE  Len(Top.path) <= StackCap
  <1> DEFINE m == Len(Top.path)
             g == [i \in 1..(m + 1) |->
                     IF i <= m THEN Top.path[i] ELSE NameOf(Edge)]
  <1>1. m \in Nat /\ Top.path \in Seq(Names) /\ NameOf(Edge) \in Names
    BY VisitFacts, ManifestFacts DEF Frames
  <1>2. \A i \in 1..m : Top.path[i] # NameOf(Edge)
    BY DEF OnPath, Contains
  <1>3. g \in [1..(m + 1) -> Names]
    BY <1>1
  <1>4. \A i, j \in 1..(m + 1) : g[i] = g[j] => i = j
    <2>1. \A i, j \in 1..m : Top.path[i] = Top.path[j] => i = j
      BY DEF DepthFirst
    <2> QED
      BY <1>1, <1>2, <2>1
  <1> HIDE DEF g, m
  <1>5. IsFiniteSet(1..(m + 1)) /\ Cardinality(1..(m + 1)) = m + 1
    BY <1>1, FS_Interval
  <1>6. ~(Cardinality(Names) < m + 1)
    <2>1. ASSUME Cardinality(Names) < Cardinality(1..(m + 1))
          PROVE  FALSE
      <3>1. \E i, j \in 1..(m + 1) : i # j /\ g[i] = g[j]
        BY <1>3, <1>5, <2>1, NamesFinite, FS_PigeonHole
      <3> QED
        BY <1>4, <3>1
    <2> QED
      BY <1>5, <2>1
  <1>7. Cardinality(Names) \in Nat
    BY NamesFinite, FS_CardinalityType
  <1> QED
    BY <1>1, <1>6, <1>7, ResolveAssumption DEF CapFits, m

\* Sharing keeps the search depth first: a locked package that is not on the
\* path is done.
LEMMA ShareDepthFirst ==
    ASSUME Inv, DepthFirst, Share
    PROVE  DepthFirst'
  <1> DEFINE n == Len(frames)
  <1>1. /\ TypeOK /\ Visiting
        /\ frames' = Rest /\ Edge \in lock /\ ~OnPath
        /\ UNCHANGED <<world, lock>>
    BY DEF Share, Visiting, Inv
  <1>2. /\ n \in Nat \ {0} /\ Len(frames') = n
        /\ Top = frames[n]
        /\ \A k \in 1..n :
             /\ frames'[k].path = frames[k].path
             /\ frames'[k].todo = IF k = n THEN frames[k].todo \ {Edge}
                                  ELSE frames[k].todo
    BY <1>1, VisitFacts
  <1>3. deps' = deps /\ lock' = lock
    BY <1>1 DEF world
  <1>4. Top' = frames'[n] /\ Top'.path = Top.path
    <2>1. Top' = frames'[n] /\ n \in 1..n
      BY <1>2 DEF Top, Last
    <2> QED
      BY <1>2, <2>1
  <1>5. Done' = Done /\ Edge \in Done
    BY <1>1, <1>3, <1>4 DEF Done, OnPath, Contains
  <1>6. ASSUME NEW k \in 2..n
        PROVE  Underway(k)'
    <2>1. Underway(k)
      BY <1>6 DEF DepthFirst, n
    <2>2. k \in 1..n
      BY <1>2, <1>6
    <2> QED
      BY <1>2, <1>3, <1>4, <1>5, <2>1, <2>2 DEF Underway, n
  <1> HIDE DEF n
  <1>7. \A k \in 1..n : /\ Len(frames'[k].path) = k - 1
                        /\ \A i \in 1..(k - 1) : frames'[k].path[i] = Top'.path[i]
    BY <1>2, <1>4 DEF DepthFirst, n
  <1>8. /\ \A i, j \in 1..Len(Top'.path) : Top'.path[i] = Top'.path[j] => i = j
        /\ Closed(deps', Done')
        /\ \A s \in Done' : s \notin Closure(deps', deps'[s])
    BY <1>3, <1>4, <1>5 DEF DepthFirst
  <1> QED
    BY <1>2, <1>6, <1>7, <1>8 DEF DepthFirst

\* Locking a package keeps the search depth first: it is on a path that is
\* not cut, one level below its dependent.
LEMMA LockPackageDepthFirst ==
    ASSUME CapFits, Inv, DepthFirst, LockPackage
    PROVE  DepthFirst'
  <1> DEFINE n == Len(frames)
             p == PathBelow(Top.path, Edge)
             f == [path |-> p, todo |-> deps[Edge]]
  <1>1. /\ TypeOK /\ Visiting
        /\ frames' = Append(Rest, f)
        /\ lock' = lock \union {Edge}
        /\ ~Locked /\ ~OnPath
        /\ deps' = deps
    BY DEF LockPackage, Visiting, Inv, world
  <1>2. /\ n \in Nat \ {0}
        /\ Top = frames[n] /\ Top.path \in Seq(Names)
        /\ Edge \in Sources
        /\ Rest \in Seq(Frames) /\ Len(Rest) = n
        /\ \A k \in 1..n :
             /\ Rest[k].path = frames[k].path
             /\ Rest[k].todo = IF k = n THEN frames[k].todo \ {Edge}
                               ELSE frames[k].todo
    BY <1>1, VisitFacts DEF Frames
  <1>3. Len(Top.path) = n - 1
    BY <1>2 DEF DepthFirst, n
  <1>4. /\ p \in Seq(Names) /\ Last(p) = NameOf(Edge)
        /\ Len(p) = n
        /\ \A i \in 1..(n - 1) : p[i] = Top.path[i]
    <2>1. Len(Top.path) <= StackCap
      BY <1>1, PathFits
    <2>2. n - 1 + 1 = n
      BY <1>2
    <2>3. /\ p \in Seq(Names) /\ Last(p) = NameOf(Edge)
          /\ Len(p) = Len(Top.path) + 1
          /\ \A i \in 1..Len(Top.path) : p[i] = Top.path[i]
      BY <1>2, <2>1, PathBelowFacts
    <2> HIDE DEF p
    <2> QED
      BY <1>3, <2>2, <2>3
  <1>5. p[n] = NameOf(Edge)
    BY <1>4 DEF Last
  <1>6. \A i \in 1..(n - 1) : Top.path[i] # NameOf(Edge)
    BY <1>1, <1>3 DEF OnPath, Contains
  <1>7. \A s \in lock : NameOf(s) # NameOf(Edge)
    BY <1>1 DEF Locked
  <1> HIDE DEF n, p
  <1>8. f \in Frames /\ f.path = p /\ f.todo = deps[Edge]
    BY <1>1, <1>2, <1>4 DEF Frames, TypeOK
  <1> HIDE DEF f
  <1>9. /\ frames' \in Seq(Frames) /\ Len(frames') = n + 1
        /\ frames'[n + 1] = f
        /\ \A k \in 1..n : frames'[k] = Rest[k]
    BY <1>1, <1>2, <1>8
  <1>10. Top' = f /\ Top'.path = p
    BY <1>8, <1>9 DEF Top, Last
  <1>11. Done' = Done
    <2>1. Edge \notin Done'
      BY <1>2, <1>4, <1>5, <1>10 DEF Done
    <2>2. ASSUME NEW s \in lock
          PROVE  s \in Done' <=> s \in Done
      <3>1. (\A i \in 1..n : p[i] # NameOf(s))
              <=> (\A i \in 1..(n - 1) : Top.path[i] # NameOf(s))
        BY <1>2, <1>4, <1>5, <1>7
      <3> QED
        BY <1>1, <1>3, <1>4, <1>10, <3>1 DEF Done
    <2> QED
      BY <1>1, <2>1, <2>2 DEF Done
  <1>12. \A k \in 1..(n + 1) :
             /\ Len(frames'[k].path) = k - 1
             /\ \A i \in 1..(k - 1) : frames'[k].path[i] = Top'.path[i]
    <2>1. ASSUME NEW k \in 1..n
          PROVE  /\ Len(frames'[k].path) = k - 1
                 /\ \A i \in 1..(k - 1) : frames'[k].path[i] = p[i]
      <3>1. /\ frames'[k].path = frames[k].path
            /\ Len(frames[k].path) = k - 1
            /\ \A i \in 1..(k - 1) : frames[k].path[i] = Top.path[i]
        BY <1>2, <1>9 DEF DepthFirst, n
      <3> QED
        BY <1>2, <1>4, <3>1
    <2> QED
      BY <1>2, <1>4, <1>8, <1>9, <1>10, <2>1
  <1>13. \A i, j \in 1..n : p[i] = p[j] => i = j
    <2>1. \A i, j \in 1..(n - 1) : Top.path[i] = Top.path[j] => i = j
      BY <1>3 DEF DepthFirst
    <2> QED
      BY <1>2, <1>4, <1>5, <1>6, <2>1
  <1>14. ASSUME NEW k \in 2..(n + 1)
         PROVE  Underway(k)'
    <2>1. ASSUME NEW s \in lock, k # n + 1, NameOf(s) = p[k - 1],
                 NEW t \in deps[s]
          PROVE  \/ t \in Done
                 \/ t \in frames'[k].todo
                 \/ t \in lock' /\ NameOf(t) = p[k]
      <3>1. k \in 1..n /\ k \in 2..n /\ k - 1 \in 1..(n - 1)
        BY <1>2, <1>14, <2>1
      <3>2. Underway(k)
        BY <3>1 DEF DepthFirst, n
      <3>3. \/ t \in Done
            \/ t \in frames[k].todo
            \/ k < n /\ t \in lock /\ NameOf(t) = Top.path[k]
        BY <1>4, <2>1, <3>1, <3>2 DEF Underway, n
      <3>4. CASE t \in frames[k].todo
        <4>1. t \in frames'[k].todo \/ (k = n /\ t = Edge)
          BY <1>2, <1>9, <3>1, <3>4
        <4> QED
          BY <1>1, <1>5, <4>1
      <3>5. CASE k < n /\ t \in lock /\ NameOf(t) = Top.path[k]
        <4>1. k \in 1..(n - 1)
          BY <1>2, <3>1, <3>5
        <4> QED
          BY <1>1, <1>4, <3>5, <4>1
      <3> QED
        BY <3>3, <3>4, <3>5
    <2>2. ASSUME k = n + 1, NEW s \in lock', NameOf(s) = p[k - 1]
          PROVE  deps[s] \subseteq frames'[k].todo
      <3>1. NameOf(s) = NameOf(Edge)
        BY <1>2, <1>5, <2>2
      <3>2. s = Edge
        BY <1>1, <1>7, <3>1
      <3> QED
        BY <1>8, <1>9, <2>2, <3>2
    <2>3. ASSUME k # n + 1, NameOf(Edge) = p[k - 1]
          PROVE  FALSE
      <3>1. k - 1 \in 1..(n - 1)
        BY <1>2, <1>14, <2>3
      <3> QED
        BY <1>4, <1>6, <2>3, <3>1
    <2> QED
      BY <1>1, <1>2, <1>9, <1>10, <1>11, <1>14, <2>1, <2>2, <2>3 DEF Underway
  <1> QED
    BY <1>1, <1>2, <1>4, <1>9, <1>10, <1>11, <1>12, <1>13, <1>14 DEF DepthFirst

\* A return keeps the search depth first: all that the package depends on is
\* done, so it is not reached from there, and it is done now.
LEMMA ReturnDepthFirst ==
    ASSUME Inv, DepthFirst, Return
    PROVE  DepthFirst'
  <1> DEFINE n == Len(frames)
  <1>1. /\ TypeOK /\ n > 1
        /\ frames' = Front(frames)
        /\ Top.todo = {}
        /\ deps' = deps /\ lock' = lock
    BY DEF Return, Inv, world
  <1>2. /\ n \in Nat \ {0, 1} /\ Top = frames[n]
        /\ frames' \in Seq(Frames) /\ Len(frames') = n - 1
        /\ \A k \in 1..(n - 1) : frames'[k] = frames[k]
    BY <1>1 DEF TypeOK, Front, Top, Last
  <1>3. Top' = frames[n - 1]
    BY <1>2 DEF Top, Last
  <1>4. /\ Len(Top.path) = n - 1
        /\ Len(Top'.path) = n - 2
        /\ \A i \in 1..(n - 2) : Top'.path[i] = Top.path[i]
    <2>1. n \in 1..n /\ n - 1 \in 1..n /\ n - 1 - 1 = n - 2
      BY <1>2
    <2>2. /\ Len(frames[n].path) = n - 1
          /\ Len(frames[n - 1].path) = n - 1 - 1
          /\ \A i \in 1..(n - 1 - 1) : frames[n - 1].path[i] = Top.path[i]
      BY <2>1 DEF DepthFirst, n
    <2> QED
      BY <1>2, <1>3, <2>1, <2>2
  <1> DEFINE Now == {s \in lock : NameOf(s) = Top.path[n - 1]}
  <1>5. \A i, j \in 1..(n - 1) : Top.path[i] = Top.path[j] => i = j
    BY <1>4 DEF DepthFirst
  <1>6. Done' = Done \union Now
    <2>1. ASSUME NEW s \in lock
          PROVE  (\A i \in 1..(n - 2) : Top'.path[i] # NameOf(s))
                   <=> \/ \A i \in 1..(n - 1) : Top.path[i] # NameOf(s)
                       \/ NameOf(s) = Top.path[n - 1]
      <3>1. /\ n - 1 \in 1..(n - 1) /\ n - 1 \notin 1..(n - 2)
            /\ 1..(n - 1) = 1..(n - 2) \union {n - 1}
        BY <1>2
      <3>2. \A i \in 1..(n - 2) : Top.path[i] # Top.path[n - 1]
        BY <1>5, <3>1
      <3> QED
        BY <1>4, <3>1, <3>2
    <2> QED
      BY <1>1, <1>4, <2>1 DEF Done
  <1>7. \A s \in Now : deps[s] \subseteq Done
    <2>1. Underway(n)
      BY <1>2 DEF DepthFirst, n
    <2> QED
      BY <1>1, <1>2, <2>1 DEF Underway, n
  <1>8. \A s \in Now : s \notin Done
    BY <1>2, <1>4 DEF Done
  <1>9. \A s \in Now : Closure(deps, deps[s]) \subseteq Done
    <2>1. /\ deps \in [Sources -> SUBSET Sources]
          /\ lock \in SUBSET Sources /\ Done \in SUBSET Sources
      BY <1>1, GraphFacts DEF TypeOK, Done
    <2>2. Closed(deps, Done)
      BY DEF DepthFirst
    <2>3. ASSUME NEW s \in Now
          PROVE  Closure(deps, deps[s]) \subseteq Done
      <3>1. deps[s] \in SUBSET Sources /\ deps[s] \subseteq Done
        BY <1>7, <2>1
      <3> QED
        BY <2>1, <2>2, <3>1, ClosureLeast
    <2> QED
      BY <2>3
  <1> HIDE DEF n, Now
  <1>10. /\ Closed(deps', Done')
         /\ \A s \in Done' : s \notin Closure(deps', deps'[s])
    BY <1>1, <1>6, <1>7, <1>8, <1>9 DEF DepthFirst, Closed
  <1>11. \A k \in 1..(n - 1) :
             /\ Len(frames'[k].path) = k - 1
             /\ \A i \in 1..(k - 1) : frames'[k].path[i] = Top'.path[i]
    <2>1. ASSUME NEW k \in 1..(n - 1)
          PROVE  /\ frames'[k] = frames[k]
                 /\ Len(frames[k].path) = k - 1
                 /\ \A i \in 1..(k - 1) : frames[k].path[i] = Top.path[i]
      BY <1>2 DEF DepthFirst, n
    <2>2. \A k \in 1..(n - 1) : 1..(k - 1) \subseteq 1..(n - 2)
      BY <1>2
    <2>3. ASSUME NEW k \in 1..(n - 1), NEW i \in 1..(k - 1)
          PROVE  frames'[k].path[i] = Top'.path[i]
      BY <1>4, <2>1, <2>2
    <2> QED
      BY <2>1, <2>3
  <1>12. \A i, j \in 1..(n - 2) : Top'.path[i] = Top'.path[j] => i = j
    BY <1>2, <1>4, <1>5
  <1>13. ASSUME NEW k \in 2..(n - 1), NEW s \in lock,
                NameOf(s) = Top'.path[k - 1], NEW t \in deps[s]
         PROVE  \/ t \in Done'
                \/ t \in frames'[k].todo
                \/ k < n - 1 /\ t \in lock /\ NameOf(t) = Top'.path[k]
    <2>1. /\ k \in 2..n /\ k \in 1..(n - 1) /\ k - 1 \in 1..(n - 2)
          /\ k < n
      BY <1>2, <1>13
    <2>2. Underway(k)
      BY <2>1 DEF DepthFirst, n
    <2>3. NameOf(s) = Top.path[k - 1]
      BY <1>4, <1>13, <2>1
    <2>4. \/ t \in Done
          \/ t \in frames[k].todo
          \/ t \in lock /\ NameOf(t) = Top.path[k]
      BY <1>13, <2>2, <2>3 DEF Underway
    <2>5. CASE t \in Done \/ t \in frames[k].todo
      BY <1>2, <1>6, <2>1, <2>5
    <2>6. CASE t \in lock /\ NameOf(t) = Top.path[k] /\ k = n - 1
      BY <1>6, <2>6 DEF Now
    <2>7. CASE t \in lock /\ NameOf(t) = Top.path[k] /\ k # n - 1
      <3>1. k \in 1..(n - 2) /\ k < n - 1
        BY <1>2, <2>1, <2>7
      <3> QED
        BY <1>4, <2>7, <3>1
    <2> QED
      BY <2>4, <2>5, <2>6, <2>7
  <1>14. \A k \in 2..(n - 1) : Underway(k)'
    BY <1>1, <1>2, <1>13 DEF Underway
  <1> QED
    BY <1>2, <1>4, <1>10, <1>11, <1>12, <1>14 DEF DepthFirst

\* Every step keeps the search depth first.
LEMMA NextCycleInvariant ==
    ASSUME CapFits
    PROVE  CycleInvariant /\ [Next]_vars => CycleInvariant'
  <1> SUFFICES ASSUME CycleInvariant, [Next]_vars PROVE CycleInvariant'
    OBVIOUS
  <1>1. Inv /\ Inv'
    BY NextInv DEF CycleInvariant
  <1>2. CASE Next
    <2>1. CASE FindCycle \/ FindConflict \/ FetchFails \/ FindCollision
      BY <1>1, <2>1 DEF FindCycle, FindConflict, FetchFails, FindCollision,
                        Fail, CycleInvariant
    <2>2. CASE Share \/ LockPackage \/ Return
      <3>1. outcome = "running" /\ outcome' = "running"
        BY <2>2 DEF Share, LockPackage, Return, Visiting
      <3>2. DepthFirst'
        BY <2>2, <3>1, ShareDepthFirst, LockPackageDepthFirst,
           ReturnDepthFirst DEF CycleInvariant
      <3> QED
        BY <1>1, <3>1, <3>2 DEF CycleInvariant
    <2>3. CASE Succeed
      <3>1. /\ TypeOK /\ DepthFirst
            /\ Len(frames) = 1 /\ UNCHANGED world
            /\ outcome' = "ok" /\ lock' = lock
        BY <1>1, <2>3 DEF Succeed, CycleInvariant, Inv
      <3>2. Len(Top.path) = 0
        BY <3>1 DEF DepthFirst, Top, Last
      <3>3. Done = lock
        BY <3>2 DEF Done
      <3>4. lock = Graph
        BY <1>1, <3>1, WorldFacts DEF Inv, Answered
      <3>5. Acyclic(deps, root)
        BY <3>1, <3>3, <3>4 DEF DepthFirst, Acyclic, Graph
      <3> QED
        BY <1>1, <3>1, <3>5, WorldFacts DEF CycleInvariant
    <2> QED
      BY <1>2, <2>1, <2>2, <2>3 DEF Next, Visit
  <1>3. CASE UNCHANGED vars
    BY <1>1, <1>3 DEF vars, CycleInvariant, DepthFirst, Underway, Done, Top,
                      Last, Closed, Acyclic
  <1> QED
    BY <1>2, <1>3

-----------------------------------------------------------------------------
\* The inductive invariant holds in every reachable state.
THEOREM Invariance == Spec => []Inv
  <1>1. Init => Inv
    BY InitInv
  <1>2. Inv /\ [Next]_vars => Inv'
    BY NextInv
  <1> QED
    BY <1>1, <1>2, PTL DEF Spec

\* The diagnosis of a failure names a real defect of the graph, whatever the
\* limit on ancestors: a diamond is never taken for a cycle or a conflict
\* (resolve_dep).
THEOREM Rejects_Only_Bad_Graphs == Spec => []RejectsOnlyBadGraphs
  <1>1. Inv => RejectsOnlyBadGraphs
    BY DEF Inv, Answered, RejectsOnlyBadGraphs
  <1> QED
    BY <1>1, Invariance, PTL

\* A failure and pkg lock leave no staging directory behind, and an install
\* gets one for each locked package (resolver_free).
THEOREM Staging_Accounted == Spec => []StagingAccounted
  <1>1. Inv => StagingAccounted
    BY DEF Inv, TypeOK, Outcomes, Answered, Staged, StagingAccounted
  <1> QED
    BY <1>1, Invariance, PTL

\* A lock is the whole graph, with one revision of each package and one owner
\* of each namespace, whatever the limit on ancestors.
THEOREM Lock_Is_Graph ==
    Spec => [](outcome = "ok" => lock = Graph /\ ~Conflicting /\ ~Colliding)
  <1>1. Inv => (outcome = "ok" => lock = Graph /\ ~Conflicting /\ ~Colliding)
    BY DEF Inv, Answered
  <1> QED
    BY <1>1, Invariance, PTL

\* And it has no cycle, as long as the ancestors of a package fit into the
\* array that holds them (next in resolve_dep).
THEOREM Accepts_Only_Good_Graphs ==
    ASSUME CapFits
    PROVE  Spec => []AcceptsOnlyGoodGraphs
  <1>1. Init => CycleInvariant
    <2> SUFFICES ASSUME Init PROVE CycleInvariant
      OBVIOUS
    <2>1. Len(frames) = 1 /\ frames[1].path = <<>> /\ lock = {}
      BY DEF Init
    <2>2. Top.path = <<>> /\ Done = {}
      BY <2>1 DEF Top, Last, Done
    <2>3. DepthFirst
      BY <2>1, <2>2 DEF DepthFirst, Closed
    <2> QED
      BY <2>3, InitInv DEF Init, CycleInvariant
  <1>2. CycleInvariant /\ [Next]_vars => CycleInvariant'
    BY NextCycleInvariant
  <1>3. CycleInvariant => AcceptsOnlyGoodGraphs
    BY DEF CycleInvariant, Inv, Answered, AcceptsOnlyGoodGraphs, Cyclic
  <1> QED
    BY <1>1, <1>2, <1>3, PTL DEF Spec
-----------------------------------------------------------------------------
(***************************************************************************)
(* Resolution ends: every step goes down in an order in which nothing goes *)
(* down forever.  A new package leaves fewer to lock, though its call may  *)
(* have any number of dependencies to visit; otherwise a call ends, or the *)
(* innermost one has fewer left.  Cycles need no argument of their own,    *)
(* and the limit on ancestors does not matter: what is locked is not       *)
(* visited again.                                                          *)
(***************************************************************************)

\* What is left to do: packages to lock, calls, dependencies of the last one
toLock == Cardinality(Sources \ lock)
calls == Len(frames)
toVisit == Cardinality(Top.todo)
remaining == <<toLock, <<calls, toVisit>>>>

GoesDown ==
    /\ outcome = "running"
    /\ outcome' # "running" \/ <<remaining', remaining>> \in Before

\* What is left is a matter of numbers.
LEMMA RemainingFacts ==
    TypeOK /\ frames # <<>> =>
        /\ toLock \in Nat /\ calls \in Nat /\ toVisit \in Nat
        /\ IsFiniteSet(Sources \ lock) /\ IsFiniteSet(Top.todo)
  <1> SUFFICES ASSUME TypeOK, frames # <<>>
               PROVE  /\ toLock \in Nat /\ calls \in Nat /\ toVisit \in Nat
                      /\ IsFiniteSet(Sources \ lock) /\ IsFiniteSet(Top.todo)
    OBVIOUS
  <1>1. IsFiniteSet(Sources) /\ IsFiniteSet(Sources \ lock)
    BY ResolveAssumption, FS_Subset
  <1>2. Top \in Frames /\ Len(frames) \in Nat
    BY DEF TypeOK, Top, Last
  <1>3. Top.todo \subseteq Sources
    BY <1>2, ManifestFacts DEF Frames
  <1>4. IsFiniteSet(Top.todo)
    BY <1>1, <1>3, FS_Subset
  <1> QED
    BY <1>1, <1>2, <1>4, FS_CardinalityType DEF toLock, calls, toVisit

LEMMA RemainingFactsNext ==
    (TypeOK /\ frames # <<>> =>
        /\ toLock \in Nat /\ calls \in Nat /\ toVisit \in Nat
        /\ IsFiniteSet(Sources \ lock) /\ IsFiniteSet(Top.todo))'
  BY RemainingFacts, PTL

\* A package is locked once, a call ends once, a dependency is visited once.
LEMMA NextGoesDown == Inv /\ Next => GoesDown
  <1> SUFFICES ASSUME Inv, Next PROVE GoesDown
    OBVIOUS
  <1>1. outcome = "running" /\ TypeOK /\ frames # <<>>
    <2>1. outcome = "running" /\ TypeOK
      BY DEF Next, Visit, FindCycle, Share, FindConflict, FetchFails,
             FindCollision, LockPackage, Visiting, Return, Succeed, Inv
    <2> QED
      BY <2>1 DEF Inv, Running, CallsSound
  <1>2. TypeOK'
    BY NextInv DEF Inv
  <1>3. toLock \in Nat /\ calls \in Nat /\ toVisit \in Nat
    BY <1>1, RemainingFacts
  <1>4. ASSUME frames' # <<>>,
               \/ toLock' < toLock
               \/ toLock' = toLock /\ calls' < calls
               \/ toLock' = toLock /\ calls' = calls /\ toVisit' < toVisit
        PROVE  GoesDown
    <2>1. toLock' \in Nat /\ calls' \in Nat /\ toVisit' \in Nat
      BY <1>2, <1>4, RemainingFactsNext
    <2>2. <<remaining', remaining>> \in Before
      BY <1>3, <1>4, <2>1, BeforeFacts DEF remaining
    <2> QED
      BY <1>1, <2>2 DEF GoesDown
  <1>5. CASE FindCycle \/ FindConflict \/ FetchFails \/ FindCollision
    <2>1. outcome' # "running"
      BY <1>5 DEF FindCycle, FindConflict, FetchFails, FindCollision, Fail
    <2> QED
      BY <1>1, <2>1 DEF GoesDown
  <1>6. CASE Succeed
    BY <1>1, <1>6 DEF Succeed, GoesDown
  <1>7. CASE Share
    <2>1. Visiting /\ frames' = Rest /\ toLock' = toLock
      BY <1>7 DEF Share, toLock
    <2>2. /\ Len(frames') = Len(frames) /\ Len(frames) \in Nat \ {0}
          /\ frames'[Len(frames)].todo = Top.todo \ {Edge}
          /\ Edge \in Top.todo
      <3>1. /\ Len(Rest) = Len(frames) /\ Len(frames) \in Nat \ {0}
            /\ Edge \in Top.todo /\ Top = frames[Len(frames)]
        BY <1>1, <2>1, VisitFacts
      <3>2. Len(frames) \in 1..Len(frames)
        BY <3>1
      <3>3. Rest[Len(frames)].todo = frames[Len(frames)].todo \ {Edge}
        BY <1>1, <2>1, <3>2, VisitFacts
      <3> QED
        BY <2>1, <3>1, <3>3
    <2>3. frames' # <<>> /\ Top'.todo = Top.todo \ {Edge}
      BY <1>2, <2>2 DEF TypeOK, Top, Last
    <2>4. IsFiniteSet(Top.todo)
      BY <1>1, RemainingFacts
    <2>5. toVisit' = toVisit - 1
      BY <2>2, <2>3, <2>4, FS_RemoveElement DEF toVisit
    <2> QED
      BY <1>3, <1>4, <2>1, <2>2, <2>3, <2>5 DEF calls
  <1>8. CASE LockPackage
    <2>1. Visiting /\ lock' = lock \union {Edge} /\ frames' = Append(Rest,
              [path |-> PathBelow(Top.path, Edge), todo |-> deps[Edge]])
      BY <1>8 DEF LockPackage
    <2>2. Edge \in Sources /\ Rest \in Seq(Frames)
      BY <1>1, <2>1, VisitFacts
    <2>3. Edge \notin lock
      BY <1>8 DEF LockPackage, Locked
    <2>4. Sources \ lock' = (Sources \ lock) \ {Edge} /\ Edge \in Sources \ lock
      BY <2>1, <2>2, <2>3
    <2>5. IsFiniteSet(Sources \ lock)
      BY <1>1, RemainingFacts
    <2>6. toLock' = toLock - 1
      BY <2>4, <2>5, FS_RemoveElement DEF toLock
    <2>7. frames' # <<>>
      BY <2>1, <2>2
    <2> QED
      BY <1>3, <1>4, <2>6, <2>7
  <1>9. CASE Return
    <2>1. /\ Len(frames) > 1 /\ frames' = Front(frames)
          /\ toLock' = toLock
      BY <1>9 DEF Return, toLock
    <2>2. frames \in Seq(Frames) /\ Len(frames) \in Nat
      BY <1>1 DEF TypeOK
    <2>3. Len(frames') = Len(frames) - 1
      BY <2>1, <2>2 DEF Front
    <2>4. frames' # <<>>
      BY <2>1, <2>2, <2>3
    <2> QED
      BY <1>3, <1>4, <2>1, <2>2, <2>3, <2>4 DEF calls
  <1> QED
    BY <1>5, <1>6, <1>7, <1>8, <1>9 DEF Next, Visit

\* A resolution takes only finitely many steps, on every graph, cyclic ones
\* included, and whatever the limit on ancestors: as long as it runs each step
\* goes down in a well-founded order, and it takes no step after its answer
\* (resolve_dep calls itself only for a package it has just locked).
THEOREM Resolution_Ends ==
    /\ IsWellFoundedOn(Before, Nat \X (Nat \X Nat))
    /\ Spec => [](outcome = "running" => remaining \in Nat \X (Nat \X Nat))
    /\ Spec => [][GoesDown]_vars
  <1>1. Inv /\ outcome = "running" => remaining \in Nat \X (Nat \X Nat)
    BY RemainingFacts DEF Inv, Running, CallsSound, remaining
  <1>2. Inv => (outcome = "running" => remaining \in Nat \X (Nat \X Nat))
    BY <1>1
  <1>3. Spec => [](outcome = "running" => remaining \in Nat \X (Nat \X Nat))
    BY <1>2, Invariance, PTL
  <1>4. Inv /\ [Next]_vars => [GoesDown]_vars
    BY NextGoesDown
  <1>5. Spec => [][GoesDown]_vars
    BY <1>4, Invariance, PTL DEF Spec
  <1> QED
    BY <1>3, <1>5, BeforeIsWellFounded
=============================================================================
