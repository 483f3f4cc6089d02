-------------------------- MODULE ModuleLoadProofs --------------------------
(***************************************************************************)
(* Proofs about module loading (module ModuleLoad) for any set of sessions *)
(* and any call depth.                                                     *)
(*                                                                         *)
(* The properties speak of the body on top of the stack, of the last alias *)
(* looked up and of the names in the scopes.  The invariant says of every  *)
(* waiting body what has become of the imports it has passed (ImportsSound)*)
(* and which scope it writes to (StackSound), of every entry of the table  *)
(* which import made it (AliasSound) and why it is still marked as loading *)
(* (LoadingSound), and of every name who bound it (ScopesSound).           *)
(***************************************************************************)
EXTENDS ModuleLoad, TLAPS, NaturalsInduction, WellFoundedInduction

-----------------------------------------------------------------------------
\* The invariant

Parsed   == Bodies(session) \ {Missing, Unparsable}
TopStmts == UNION {ToSet(b) : b \in Parsed}
Inner    == UNION {ToSet(t.body) : t \in {u \in TopStmts : u.op = "func"}}
Stmts    == TopStmts \cup Inner \cup {Hoist, Skip}
Paths    == {p \in Seq(STRING) : IsPath(session, p)}
Mains    == {<<"main", n>> : n \in 1..Len(session.entered)}
Names    == Paths \cup Mains

Frames ==
    [kind : {"main", "module", "call"}, by : Names, env : Paths \cup {Global},
     rest : Seq(Stmts)]

Entries == [path : Paths, alias : STRING, ns : BOOLEAN, loading : BOOLEAN]
Reached == [by : Names, run : Nat \ {0}, path : Paths, alias : STRING, known : BOOLEAN]

Failures == {"circular", "cannot load", "no alias", "no lock", "not locked",
             "not installed", "no file", "struct redefined", "redefined",
             "not callable", "too deep", "undefined", "failed"}

TypeOK ==
    /\ session \in Sessions
    /\ stack \in Seq(Frames)
    /\ modules \in Seq(Entries)
    /\ Global \in DOMAIN envs /\ DOMAIN envs \subseteq Paths \cup {Global}
    /\ result \in Seq(Failures \cup {"ok"})
    /\ ran \in Seq(Paths)
    /\ bindings \in Seq(Reached)

InTable(p) == \E k \in 1..Len(modules) : modules[k].path = p

\* A program of the session or a module imported without an alias writes x.
MayBeGlobal(x) ==
    \/ \E i \in DOMAIN session.entered : x \in Writes(session.entered[i])
    \/ \E m \in Flat : x \in Writes(Body(FileOf(m.path)))

\* A body runs in its own namespace or in the global scope; what it may still
\* bind there is what its program or module writes.
FrameSound(f) ==
    /\ f.env \in DOMAIN envs
    /\ f.env # Global => f.by = f.env
    /\ f.kind = "main" => f.by = <<"main", Len(result) + 1>> /\ f.env = Global
    /\ f.kind = "module" => InTable(f.by) /\ ~IsBuiltin(f.by)
    /\ f.kind = "call" => f.rest \in Seq(Inner)
    /\ f.kind # "call" /\ f.env = Global =>
           \A k \in 1..Len(f.rest) :
               f.rest[k].op \in {"func", "assign"} => MayBeGlobal(f.rest[k].name)

StackSound ==
    /\ \A i \in 1..Len(stack) : FrameSound(stack[i])
    /\ \A i \in 1..Len(stack) : stack[i].kind = "main" <=> i = Len(stack)
    /\ Len(result) <= Len(session.entered)
    /\ stack # <<>> => Len(result) < Len(session.entered)

\* A module has one entry; it has a namespace if it was imported with an alias.
TableSound ==
    /\ \A j, k \in 1..Len(modules) :
           modules[j].path = modules[k].path /\ ~IsBuiltin(modules[k].path) => j = k
    /\ \A k \in 1..Len(modules) :
           LET m == modules[k]
           IN  /\ m.ns <=> ~IsBuiltin(m.path) /\ m.alias # NoAlias
               /\ m.ns => m.path \in DOMAIN envs
               /\ m.alias = NoAlias /\ ~IsBuiltin(m.path) => IsExternal(m.path)

RanSound ==
    /\ IsInjective(ran)
    /\ \A i \in 1..Len(ran) : InTable(ran[i])

\* The module b.path has been loaded to its end, or its body is on the stack
\* above frame i.
Settled(p, i) ==
    /\ InTable(p)
    /\ \A k \in 1..Len(modules) :
           modules[k].path = p /\ modules[k].loading =>
               \E h \in 1..(i - 1) : stack[h].kind = "module" /\ stack[h].by = p

\* An import is by a program entered so far or by a module in the table.
ByWhom(p) == InTable(p) \/ \E n \in 1..Len(result) : p = <<"main", n>>

ImportsSound ==
    /\ \A j \in 1..Len(bindings) :
           \/ ByWhom(bindings[j].by)
           \/ stack # <<>> /\ bindings[j].by = <<"main", Len(result) + 1>>
    /\ \A i \in 1..Len(stack), j \in 1..Len(bindings) :
           stack[i].kind # "call" /\ bindings[j].by = stack[i].by
             /\ ~IsBuiltin(bindings[j].path) => Settled(bindings[j].path, i)

\* Import statement j is the first one of p that found or loaded it.
MadeEntry(j, p) ==
    /\ bindings[j].path = p /\ bindings[j].known
    /\ \A i \in 1..(j - 1) : ~(bindings[i].path = p /\ bindings[i].known)

AliasSound ==
    /\ \A k \in 1..Len(modules) :
           ~IsBuiltin(modules[k].path) =>
               \E j \in 1..Len(bindings) :
                   /\ MadeEntry(j, modules[k].path)
                   /\ bindings[j].alias = modules[k].alias
    /\ \A j \in 1..Len(bindings) : bindings[j].known => InTable(bindings[j].path)

\* A module is marked as loading while its body is on the stack or because a
\* program gave up below it.
LoadingSound ==
    /\ \A k \in 1..Len(modules) :
           modules[k].loading =>
               modules[k].path \in BeingLoaded \/ Abandoned(modules[k].path)
    /\ \A i \in 1..Len(stack) :
           stack[i].kind = "module" =>
               \E j \in 1..Len(bindings) :
                   bindings[j].path = stack[i].by /\ bindings[j].run = Len(result) + 1

\* What a name of scope e is bound to.
ValueSound(v, e) ==
    /\ v.by \in Names
    /\ e # Global => v.by = e
    /\ v.t = "func" => v.env = e /\ v.body \in Seq(Inner)

ScopesSound ==
    /\ \A e \in DOMAIN envs : \A x \in DOMAIN envs[e] : ValueSound(envs[e][x], e)
    /\ \A x \in DOMAIN envs[Global] : MayBeGlobal(x)

Inv ==
    /\ TypeOK
    /\ StackSound
    /\ TableSound
    /\ RanSound
    /\ ImportsSound
    /\ AliasSound
    /\ LoadingSound
    /\ ScopesSound
    /\ AliasMeansImport
-----------------------------------------------------------------------------
\* Facts about the operators of the model

\* ToSet gives the elements of a sequence.
LEMMA ElementOf ==
    ASSUME NEW S, NEW s \in Seq(S), NEW x
    PROVE  x \in ToSet(s) <=> \E i \in 1..Len(s) : s[i] = x
  BY DEF ToSet

\* The least element of a set of natural numbers is unique.
LEMMA LeastIsMin ==
    ASSUME NEW S \in SUBSET Nat, NEW i \in S, \A j \in S : i <= j
    PROVE  Min(S) = i
  <1>1. \A x \in S : (\A y \in S : x <= y) => x = i
    OBVIOUS
  <1> QED
    BY <1>1 DEF Min

\* A set of natural numbers that is not empty has a least element.
LEMMA MinIsLeast ==
    ASSUME NEW S \in SUBSET Nat, S # {}
    PROVE  Min(S) \in S /\ \A k \in S : Min(S) <= k
  <1>1. PICK m \in S : \A k \in S : ~(<<k, m>> \in OpToRel(<, Nat))
    BY NatLessThanWellFounded, WFMin
  <1>2. \A k \in S : ~(k < m)
    BY <1>1 DEF OpToRel
  <1>3. \A k \in S : m <= k
    BY <1>2
  <1>4. Min(S) = m
    BY <1>3, LeastIsMin
  <1> QED
    BY <1>3, <1>4

\* find_module finds an entry if there is one.
LEMMA FindModuleFacts ==
    ASSUME TypeOK, NEW p
    PROVE  /\ FindModule(p) # 0 <=> InTable(p)
           /\ FindModule(p) # 0 => /\ FindModule(p) \in 1..Len(modules)
                                   /\ modules[FindModule(p)].path = p
           /\ FindModule(p) \in Nat
  <1> DEFINE I == {k \in 1..Len(modules) : modules[k].path = p}
  <1>1. FindModule(p) = IF I # {} THEN Min(I) ELSE 0
    BY DEF FindModule, SelectInSeq
  <1>2. I \in SUBSET Nat
    OBVIOUS
  <1>3. I # {} => Min(I) \in I
    BY <1>2, MinIsLeast
  <1>4. I # {} <=> InTable(p)
    BY DEF InTable
  <1>5. Len(modules) \in Nat
    BY DEF TypeOK
  <1> QED
    BY <1>1, <1>3, <1>4, <1>5

\* find_module_by_alias finds the alias of a namespace if there is one.
LEMMA FindByAliasFacts ==
    ASSUME TypeOK, NEW a
    PROVE  /\ FindByAlias(a) \in Nat
           /\ FindByAlias(a) # 0 => /\ FindByAlias(a) \in 1..Len(modules)
                                    /\ modules[FindByAlias(a)].ns
                                    /\ modules[FindByAlias(a)].alias = a
           /\ (\E k \in 1..Len(modules) : modules[k].ns /\ modules[k].alias = a)
                => FindByAlias(a) # 0
  <1> DEFINE I == {k \in 1..Len(modules) : modules[k].ns /\ modules[k].alias = a}
  <1>1. FindByAlias(a) = IF I # {} THEN Min(I) ELSE 0
    BY DEF FindByAlias, SelectInSeq
  <1>2. I \in SUBSET Nat
    OBVIOUS
  <1>3. I # {} => Min(I) \in I
    BY <1>2, MinIsLeast
  <1>4. Len(modules) \in Nat
    BY DEF TypeOK
  <1> QED
    BY <1>1, <1>3, <1>4

\* The fields of an entry of the table and of an import recorded.
LEMMA EntryFacts ==
    ASSUME TypeOK
    PROVE  /\ Len(modules) \in Nat /\ Len(bindings) \in Nat
           /\ \A k \in 1..Len(modules) :
                  /\ modules[k].path \in Paths
                  /\ modules[k].ns \in BOOLEAN /\ modules[k].loading \in BOOLEAN
           /\ \A j \in 1..Len(bindings) :
                  /\ bindings[j].by \in Names /\ bindings[j].path \in Paths
                  /\ bindings[j].run \in Nat \ {0} /\ bindings[j].known \in BOOLEAN
  <1>1. modules \in Seq(Entries) /\ bindings \in Seq(Reached)
    BY DEF TypeOK
  <1>3. ASSUME NEW k \in 1..Len(modules)
        PROVE  /\ modules[k].path \in Paths
               /\ modules[k].ns \in BOOLEAN /\ modules[k].loading \in BOOLEAN
    <2>1. modules[k] \in Entries
      BY <1>1
    <2> QED
      BY <2>1 DEF Entries
  <1>4. ASSUME NEW j \in 1..Len(bindings)
        PROVE  /\ bindings[j].by \in Names /\ bindings[j].path \in Paths
               /\ bindings[j].run \in Nat \ {0} /\ bindings[j].known \in BOOLEAN
    <2>1. bindings[j] \in Reached
      BY <1>1
    <2> QED
      BY <2>1 DEF Reached
  <1> QED
    BY <1>1, <1>3, <1>4

\* The first import of a module that found or loaded it.
LEMMA FirstAliasFacts ==
    ASSUME TypeOK, NEW p, NEW j \in 1..Len(bindings), MadeEntry(j, p)
    PROVE  FirstAlias(p) = bindings[j].alias
  <1> DEFINE I == {i \in 1..Len(bindings) : bindings[i].path = p /\ bindings[i].known}
  <1>1. j \in I /\ I \in SUBSET Nat
    BY DEF MadeEntry
  <1>2. \A i \in I : j <= i
    <2> SUFFICES ASSUME NEW i \in I, i < j PROVE FALSE
      OBVIOUS
    <2> QED
      BY DEF MadeEntry
  <1>3. Min(I) = j
    BY <1>1, <1>2, LeastIsMin
  <1>4. SelectInSeq(bindings, LAMBDA b : b.path = p /\ b.known) = j
    BY <1>1, <1>3 DEF SelectInSeq
  <1> QED
    BY <1>4 DEF FirstAlias

\* What the statements of a session are.
LEMMA StmtFacts ==
    ASSUME session \in Sessions
    PROVE  /\ \A t \in Stmts : t.op = "import" => t.path \in Paths /\ t.alias \in STRING
           /\ \A t \in Stmts : t.op = "func" => t.body \in Seq(Inner)
           /\ \A t \in Inner : t.op \in {"import", "assign", "call", "fail"}
           /\ \A b \in Parsed : b \in Seq(Stmts)
           /\ session.entered \in Seq(ToSet(session.entered))
  <1>1. \A b \in Parsed :
          /\ b \in Seq(ToSet(b))
          /\ \A t \in ToSet(b) :
               \/ Simple(session, t)
               \/ t.op = "struct"
               \/ /\ t.op = "func" /\ t.body \in Seq(ToSet(t.body))
                  /\ \A u \in ToSet(t.body) : Simple(session, u)
    BY SessionAssumption DEF Parsed
  <1>2. \A t \in TopStmts :
          \/ Simple(session, t)
          \/ t.op = "struct"
          \/ /\ t.op = "func" /\ t.body \in Seq(ToSet(t.body))
             /\ \A u \in ToSet(t.body) : Simple(session, u)
    BY <1>1 DEF TopStmts
  <1>3. \A t \in Inner : Simple(session, t)
    <2> SUFFICES ASSUME NEW t \in Inner PROVE Simple(session, t)
      OBVIOUS
    <2>1. PICK u \in TopStmts : u.op = "func" /\ t \in ToSet(u.body)
      BY DEF Inner
    <2> QED
      BY <1>2, <2>1 DEF Simple
  <1>4. \A t \in Inner : t.op \in {"import", "assign", "call", "fail"}
    BY <1>3 DEF Simple
  <1>5. \A t \in Stmts : t.op = "import" => t.path \in Paths /\ t.alias \in STRING
    <2> SUFFICES ASSUME NEW t \in Stmts, t.op = "import"
                 PROVE  t.path \in Paths /\ t.alias \in STRING
      OBVIOUS
    <2>1. Simple(session, t)
      BY <1>2, <1>3 DEF Stmts, Hoist, Skip
    <2> QED
      BY <2>1 DEF Simple, Paths, IsPath
  <1>6. \A t \in Stmts : t.op = "func" => t.body \in Seq(Inner)
    <2> SUFFICES ASSUME NEW t \in Stmts, t.op = "func" PROVE t.body \in Seq(Inner)
      OBVIOUS
    <2>1. t \in TopStmts
      BY <1>4 DEF Stmts, Hoist, Skip
    <2>2. t.body \in Seq(ToSet(t.body))
      BY <1>2, <2>1 DEF Simple
    <2>3. ToSet(t.body) \subseteq Inner
      BY <2>1 DEF Inner
    <2> QED
      BY <2>2, <2>3
  <1>7. \A b \in Parsed : b \in Seq(Stmts)
    <2> SUFFICES ASSUME NEW b \in Parsed PROVE b \in Seq(Stmts)
      OBVIOUS
    <2>1. b \in Seq(ToSet(b)) /\ ToSet(b) \subseteq Stmts
      BY <1>1 DEF TopStmts, Stmts
    <2> QED
      BY <2>1
  <1> QED
    BY <1>4, <1>5, <1>6, <1>7, SessionAssumption

\* Modules, programs and the global scope have different names.
LEMMA NameFacts ==
    ASSUME session \in Sessions
    PROVE  /\ Global \notin Paths /\ <<>> \notin Names
           /\ \A n \in 1..Len(session.entered) :
                  <<"main", n>> \in Mains /\ <<"main", n>> \notin Paths
           /\ \A m, n \in Nat : <<"main", m>> = <<"main", n>> => m = n
           /\ Paths \subseteq Seq(STRING)
  <1>1. Global \notin Paths /\ <<>> \notin Paths /\ Paths \subseteq Seq(STRING)
    BY DEF Paths, IsPath
  <1>2. <<>> \notin Mains
    BY DEF Mains
  <1>3. \A n \in 1..Len(session.entered) : <<"main", n>> \in Mains
    BY DEF Mains
  <1>4. \A n \in 1..Len(session.entered) : <<"main", n>> \notin Paths
    BY StmtFacts DEF Paths, IsPath
  <1> QED
    BY <1>1, <1>2, <1>3, <1>4 DEF Names
-----------------------------------------------------------------------------
\* The forms of a step

\* The statement on top is done.
Advance ==
    /\ stack # <<>> /\ Top.rest # <<>>
    /\ stack' = Advanced
    /\ result' = result

\* The program is given up.
GiveUp ==
    /\ stack # <<>> /\ stack' = <<>>
    /\ \E w \in Failures : result' = Append(result, w)

\* It is given up for another reason than a cycle.
Crash == \E w \in Failures \ {"circular"} : result' = Append(result, w)

\* The statement on top calls a function.
CallBody ==
    /\ stack # <<>> /\ Top.rest # <<>>
    /\ result' = result
    /\ \E f \in Frames : /\ f.kind = "call" /\ FrameSound(f)
                         /\ stack' = <<f>> \o Advanced

\* The step has nothing to do with modules.
Quiet ==
    /\ session' = session /\ modules' = modules
    /\ ran' = ran /\ bindings' = bindings
    /\ DOMAIN envs' = DOMAIN envs

\* What the statement on top is.
LEMMA TopFacts ==
    ASSUME TypeOK, stack # <<>>
    PROVE  /\ Len(stack) \in Nat \ {0} /\ Top = stack[1] /\ Top \in Frames
           /\ Top.rest # <<>> => /\ Len(Top.rest) \in Nat \ {0}
                                 /\ Stmt = Top.rest[1] /\ Stmt \in Stmts
  <1>1. Len(stack) \in Nat \ {0} /\ Top = stack[1] /\ Top \in Frames
    BY DEF TypeOK, Top
  <1>2. Top.rest \in Seq(Stmts)
    BY <1>1 DEF Frames
  <1> QED
    BY <1>1, <1>2 DEF Stmt

\* The statement done leaves the frames as they were, the rest of the top one
\* shorter.
LEMMA AdvancedFacts ==
    ASSUME TypeOK, stack # <<>>, Top.rest # <<>>
    PROVE  /\ Advanced \in Seq(Frames) /\ Len(Advanced) = Len(stack)
           /\ \A i \in 1..Len(stack) :
                  /\ Advanced[i].kind = stack[i].kind
                  /\ Advanced[i].by = stack[i].by
                  /\ Advanced[i].env = stack[i].env
                  /\ stack[i].rest \in Seq(Inner) => Advanced[i].rest \in Seq(Inner)
                  /\ \A k \in 1..Len(Advanced[i].rest) :
                         \E l \in 1..Len(stack[i].rest) :
                             Advanced[i].rest[k] = stack[i].rest[l]
  <1> DEFINE f == [Top EXCEPT !.rest = Tail(@)]
  <1>1. Top = stack[1] /\ Top \in Frames /\ stack \in Seq(Frames) /\ Len(stack) >= 1
    BY TopFacts DEF TypeOK
  <1>2. Top.rest \in Seq(Stmts) /\ Tail(Top.rest) \in Seq(Stmts)
    BY <1>1 DEF Frames
  <1>3. /\ f \in Frames /\ f.kind = Top.kind /\ f.by = Top.by /\ f.env = Top.env
        /\ f.rest = Tail(Top.rest)
    BY <1>1, <1>2 DEF Frames
  <1> HIDE DEF f
  <1>4. Advanced = <<f>> \o Tail(stack)
    BY DEF Advanced, f
  <1>5. Tail(stack) \in Seq(Frames) /\ Len(Tail(stack)) = Len(stack) - 1
    BY <1>1
  <1>6. \A i \in 1..Len(Tail(stack)) : Tail(stack)[i] = stack[i + 1]
    BY <1>1
  <1>7. /\ Advanced \in Seq(Frames) /\ Len(Advanced) = Len(stack)
        /\ Advanced[1] = f
    BY <1>1, <1>3, <1>4, <1>5
  <1>8. \A i \in 2..Len(stack) : Advanced[i] = stack[i]
    BY <1>1, <1>4, <1>5, <1>6
  <1>9. /\ Len(f.rest) = Len(Top.rest) - 1
        /\ \A k \in 1..Len(f.rest) : f.rest[k] = Top.rest[k + 1]
        /\ Len(Top.rest) \in Nat \ {0}
    BY <1>2, <1>3
  <1>10. Top.rest \in Seq(Inner) => f.rest \in Seq(Inner)
    BY <1>3, <1>2
  <1>11. ASSUME NEW i \in 1..Len(stack)
         PROVE  \A k \in 1..Len(Advanced[i].rest) :
                    \E l \in 1..Len(stack[i].rest) :
                        Advanced[i].rest[k] = stack[i].rest[l]
    <2>1. CASE i = 1
      <3> SUFFICES ASSUME NEW k \in 1..Len(f.rest)
                   PROVE  \E l \in 1..Len(Top.rest) : f.rest[k] = Top.rest[l]
        BY <1>1, <1>7, <2>1
      <3>1. k + 1 \in 1..Len(Top.rest)
        BY <1>9
      <3> QED
        BY <1>9, <3>1
    <2>2. CASE i # 1
      BY <1>8, <2>2
    <2> QED
      BY <2>1, <2>2
  <1>12. ASSUME NEW i \in 1..Len(stack)
         PROVE  /\ Advanced[i].kind = stack[i].kind
                /\ Advanced[i].by = stack[i].by
                /\ Advanced[i].env = stack[i].env
                /\ stack[i].rest \in Seq(Inner) => Advanced[i].rest \in Seq(Inner)
    <2>1. CASE i = 1
      BY <1>1, <1>3, <1>7, <1>10, <2>1
    <2>2. CASE i # 1
      BY <1>8, <2>2
    <2> QED
      BY <2>1, <2>2
  <1> QED
    BY <1>7, <1>11, <1>12

\* A frame pushed on what is left.
LEMMA PushFacts ==
    ASSUME TypeOK, stack # <<>>, Top.rest # <<>>, NEW f \in Frames
    PROVE  /\ <<f>> \o Advanced \in Seq(Frames)
           /\ Len(<<f>> \o Advanced) = Len(stack) + 1
           /\ (<<f>> \o Advanced)[1] = f
           /\ \A i \in 1..Len(stack) : (<<f>> \o Advanced)[i + 1] = Advanced[i]
  BY AdvancedFacts, TopFacts

\* The table keeps its entries.
TableGrows ==
    \A k \in 1..Len(modules) :
        \E l \in 1..Len(modules') :
            modules'[l].path = modules[k].path /\ modules'[l].alias = modules[k].alias

LEMMA GrowsKeeps ==
    ASSUME TypeOK, TypeOK', TableSound, session' = session, TableGrows
    PROVE  /\ \A p : InTable(p) => InTable(p)'
           /\ \A x : MayBeGlobal(x) => MayBeGlobal(x)'
  <1>1. \A p : InTable(p) => InTable(p)'
    BY DEF InTable, TableGrows
  <1>2. ASSUME NEW x, NEW m \in Flat, x \in Writes(Body(FileOf(m.path)))
        PROVE  MayBeGlobal(x)'
    <2>1. PICK k \in 1..Len(modules) : modules[k] = m
      BY ElementOf DEF Flat, TypeOK
    <2>2. m.alias = NoAlias /\ ~IsBuiltin(m.path)
      BY DEF Flat
    <2>3. IsExternal(m.path)
      BY <2>1, <2>2 DEF TableSound
    <2>4. PICK l \in 1..Len(modules') :
            modules'[l].path = m.path /\ modules'[l].alias = m.alias
      BY <2>1 DEF TableGrows
    <2>5. \E n \in Flat' : n.path = m.path
      BY <2>2, <2>4, ElementOf DEF Flat, TypeOK
    <2>6. PICK n \in Flat' : n.path = m.path
      BY <2>5
    <2>7. Body(FileOf(n.path))' = Body(FileOf(m.path))
      BY <2>3, <2>6 DEF FileOf, Body
    <2> QED
      BY <1>2, <2>6, <2>7 DEF MayBeGlobal, Writes
  <1>3. ASSUME NEW x, MayBeGlobal(x) PROVE MayBeGlobal(x)'
    <2>1. CASE \E i \in DOMAIN session.entered : x \in Writes(session.entered[i])
      BY <2>1 DEF MayBeGlobal
    <2>2. CASE \E m \in Flat : x \in Writes(Body(FileOf(m.path)))
      BY <2>2, <1>2
    <2> QED
      BY <1>3, <2>1, <2>2 DEF MayBeGlobal
  <1> QED
    BY <1>1, <1>3

\* A frame stays sound while its program goes on.
LEMMA FrameStays ==
    ASSUME TypeOK, TypeOK', TableSound, session' = session, TableGrows,
           DOMAIN envs \subseteq DOMAIN envs', Len(result') = Len(result),
           NEW f, NEW g, FrameSound(f),
           g.kind = f.kind, g.by = f.by, g.env = f.env,
           f.rest \in Seq(Inner) => g.rest \in Seq(Inner),
           \A k \in 1..Len(g.rest) : \E l \in 1..Len(f.rest) : g.rest[k] = f.rest[l]
    PROVE  FrameSound(g)'
  <1>1. Inner' = Inner
    BY DEF Inner, TopStmts, Parsed, Bodies
  <1>2. /\ g.env \in DOMAIN envs'
        /\ g.env # Global => g.by = g.env
        /\ g.kind = "main" => g.by = <<"main", Len(result') + 1>> /\ g.env = Global
        /\ g.kind = "call" => g.rest \in Seq(Inner)
    BY DEF FrameSound
  <1>3. g.kind = "module" => InTable(g.by)' /\ ~IsBuiltin(g.by)
    BY GrowsKeeps DEF FrameSound
  <1>4. ASSUME g.kind # "call" /\ g.env = Global, NEW k \in 1..Len(g.rest),
               g.rest[k].op \in {"func", "assign"}
        PROVE  MayBeGlobal(g.rest[k].name)'
    <2>1. PICK l \in 1..Len(f.rest) : g.rest[k] = f.rest[l]
      OBVIOUS
    <2>2. MayBeGlobal(f.rest[l].name)
      BY <1>4, <2>1 DEF FrameSound
    <2> QED
      BY <2>1, <2>2, GrowsKeeps
  <1> QED
    BY <1>1, <1>2, <1>3, <1>4 DEF FrameSound, IsBuiltin, Builtins
\* A visible name is bound soundly in one of the two scopes.
LEMMA ScopeFacts ==
    ASSUME TypeOK, ScopesSound, NEW e \in DOMAIN envs, NEW x
    PROVE  /\ Scope(e, x) \in DOMAIN envs /\ Scope(e, x) \in {e, Global}
           /\ Visible(e, x) => /\ x \in DOMAIN envs[Scope(e, x)]
                               /\ ValueSound(Lookup(e, x), Scope(e, x))
  BY DEF TypeOK, ScopesSound, Scope, Visible, Bound, Lookup

\* A program that fails is given up.
LEMMA RaiseForm ==
    ASSUME stack # <<>>, NEW why \in Failures \ {"circular"}, Raise(why)
    PROVE  GiveUp /\ Crash
  BY DEF Raise, GiveUp, Crash

\* Calling a value pushes a frame for its body or gives up.
LEMMA CallForm ==
    ASSUME Inv, stack # <<>>, Top.rest # <<>>, NEW e \in DOMAIN envs, NEW v,
           ValueSound(v, e), CallValue(v)
    PROVE  (GiveUp /\ Crash) \/ CallBody
  <1>1. CASE v.t # "func" \/ Depth >= MaxCallDepth
    <2>1. Raise("not callable") \/ Raise("too deep")
      BY <1>1 DEF CallValue
    <2> QED
      BY <2>1, RaiseForm DEF Failures
  <1>2. CASE v.t = "func" /\ ~(Depth >= MaxCallDepth)
    <2> DEFINE f == Frame("call", v.by, v.env, v.body)
    <2>1. /\ f.kind = "call" /\ f.by = v.by /\ f.env = e /\ f.rest = v.body
          /\ v.body \in Seq(Inner) /\ v.by \in Names /\ (e # Global => v.by = e)
          /\ f = [kind |-> "call", by |-> v.by, env |-> e, rest |-> v.body]
      BY <1>2 DEF Frame, ValueSound
    <2>2. Inner \subseteq Stmts /\ e \in Paths \cup {Global}
      BY DEF Stmts, Inv, TypeOK
    <2>3. v.body \in Seq(Stmts)
      BY <2>1, <2>2
    <2>4. f \in Frames
      BY <2>1, <2>2, <2>3 DEF Frames
    <2>5. FrameSound(f)
      BY <2>1 DEF FrameSound
    <2>6. stack' = <<f>> \o Advanced /\ result' = result
      BY <1>2 DEF CallValue
    <2> QED
      BY <2>1, <2>4, <2>5, <2>6 DEF CallBody
  <1> QED
    BY <1>1, <1>2

\* The statements that are no import.
OtherStmt == Prescan \/ ExecNothing \/ ExecFunc \/ ExecAssign \/ ExecCall \/ ExecFail

LEMMA OtherForms ==
    ASSUME Inv, OtherStmt
    PROVE  Quiet /\ (Advance \/ (GiveUp /\ Crash) \/ CallBody)
  <1>1. CASE Prescan
    <2>1. Quiet
      BY <1>1 DEF Prescan, Quiet
    <2>2. Advance \/ (GiveUp /\ Crash)
      <3>1. CASE Clashes # {}
        <4>1. Raise("struct redefined") /\ stack # <<>>
          BY <1>1, <3>1 DEF Prescan, Doing
        <4> QED
          BY <4>1, RaiseForm DEF Failures
      <3>2. CASE ~(Clashes # {})
        BY <1>1, <3>2 DEF Prescan, Doing, Advance
      <3> QED
        BY <3>1, <3>2
    <2> QED
      BY <2>1, <2>2
  <1>2. CASE ExecNothing
    BY <1>2 DEF ExecNothing, Doing, Quiet, Advance
  <1>3. CASE ExecFunc
    <2>1. Quiet
      BY <1>3 DEF ExecFunc, Quiet
    <2>2. CASE Lookup(Top.env, Stmt.name) = FuncAt(1)
      BY <1>3, <2>1, <2>2 DEF ExecFunc, Doing, Advance
    <2>3. CASE Lookup(Top.env, Stmt.name) # FuncAt(1)
      <3>1. Raise("redefined") /\ stack # <<>>
        BY <1>3, <2>3 DEF ExecFunc, Doing
      <3> QED
        BY <2>1, <3>1, RaiseForm DEF Failures
    <2> QED
      BY <2>2, <2>3
  <1>4. CASE ExecAssign
    BY <1>4 DEF ExecAssign, Doing, Quiet, Advance, BindIn
  <1>5. CASE ExecFail
    <2>1. Raise("failed") /\ stack # <<>> /\ Quiet
      BY <1>5 DEF ExecFail, Doing, Quiet
    <2> QED
      BY <2>1, RaiseForm DEF Failures
  <1>6. CASE ExecCall
    <2> DEFINE a == Stmt.alias
               f == Stmt.name
               k == FindByAlias(a)
    <2>1. Quiet /\ stack # <<>> /\ Top.rest # <<>>
      BY <1>6 DEF ExecCall, Doing, Quiet
    <2>2. Top.env \in DOMAIN envs
      BY <2>1, TopFacts DEF Inv, StackSound, FrameSound
    <2>3. ASSUME Raise("undefined") \/ Raise("not callable") PROVE GiveUp /\ Crash
      BY <2>1, <2>3, RaiseForm DEF Failures
    <2>4. CASE a = NoAlias
      <3>1. CASE Visible(Top.env, f)
        <4>1. CallValue(Lookup(Top.env, f))
          BY <1>6, <2>4, <3>1 DEF ExecCall
        <4> QED
          BY <2>1, <2>2, <3>1, <4>1, ScopeFacts, CallForm DEF Inv
      <3>2. CASE ~Visible(Top.env, f)
        BY <1>6, <2>1, <2>3, <2>4, <3>2 DEF ExecCall
      <3> QED
        BY <3>1, <3>2
    <2>5. CASE a # NoAlias /\ Visible(Top.env, a)
      BY <1>6, <2>1, <2>3, <2>5 DEF ExecCall
    <2>6. CASE a # NoAlias /\ ~Visible(Top.env, a)
      <3>1. CASE k # 0 /\ Visible(modules[k].path, f)
        <4>1. CallValue(Lookup(modules[k].path, f))
          BY <1>6, <2>6, <3>1 DEF ExecCall
        <4>2. modules[k].path \in DOMAIN envs
          BY <3>1, FindByAliasFacts DEF Inv, TableSound
        <4> QED
          BY <2>1, <3>1, <4>1, <4>2, ScopeFacts, CallForm DEF Inv
      <3>2. CASE ~(k # 0 /\ Visible(modules[k].path, f))
        BY <1>6, <2>1, <2>3, <2>6, <3>2 DEF ExecCall
      <3> QED
        BY <3>1, <3>2
    <2> QED
      BY <2>1, <2>4, <2>5, <2>6
  <1> QED
    BY <1>1, <1>2, <1>3, <1>4, <1>5, <1>6 DEF OtherStmt

\* The sets of names and statements belong to the session.
LEMMA SessionFacts ==
    ASSUME session' = session
    PROVE  /\ Inner' = Inner /\ Stmts' = Stmts /\ Frames' = Frames
           /\ Paths' = Paths /\ Names' = Names
           /\ Entries' = Entries /\ Reached' = Reached
  BY DEF Frames, Entries, Reached, Names, Mains, Paths, Stmts, Inner, TopStmts, Parsed, Bodies

\* The stack and the results in each form.
LEMMA FormTypes ==
    ASSUME TypeOK, session' = session, Advance \/ GiveUp \/ CallBody
    PROVE  stack' \in Seq(Frames') /\ result' \in Seq(Failures \cup {"ok"})
  <1> USE SessionFacts
  <1>1. CASE Advance
    BY <1>1, AdvancedFacts DEF Advance, TypeOK
  <1>2. CASE GiveUp
    BY <1>2 DEF GiveUp, TypeOK
  <1>3. CASE CallBody
    BY <1>3, PushFacts DEF CallBody, TypeOK
  <1> QED
    BY <1>1, <1>2, <1>3

LEMMA OtherTypes ==
    ASSUME Inv, OtherStmt
    PROVE  TypeOK'
  <1>1. Quiet /\ (Advance \/ GiveUp \/ CallBody)
    BY OtherForms
  <1>2. stack' \in Seq(Frames') /\ result' \in Seq(Failures \cup {"ok"})
    BY <1>1, FormTypes DEF Quiet, Inv
  <1> QED
    BY <1>1, <1>2, SessionFacts DEF Quiet, TypeOK, Inv
-----------------------------------------------------------------------------
\* The stack stays sound

\* Nothing that the frames depend on is lost.
Keeps ==
    /\ TypeOK /\ TypeOK' /\ TableSound
    /\ session' = session
    /\ TableGrows
    /\ DOMAIN envs \subseteq DOMAIN envs'

LEMMA QuietKeeps ==
    ASSUME Inv, TypeOK', Quiet
    PROVE  Keeps
  BY DEF Inv, Quiet, Keeps, TableGrows

LEMMA StackAdvance ==
    ASSUME Keeps, StackSound, Advance
    PROVE  StackSound'
  <1>1. /\ stack # <<>> /\ Top.rest # <<>> /\ stack' = Advanced /\ result' = result
        /\ TypeOK /\ session' = session
    BY DEF Advance, Keeps
  <1>2. Len(stack') = Len(stack)
    BY <1>1, AdvancedFacts
  <1>3. ASSUME NEW i \in 1..Len(stack') PROVE FrameSound(stack[i])'
    <2>1. PICK f, g : f = stack[i] /\ g = stack'[i]
      OBVIOUS
    <2>2. FrameSound(f)
      BY <1>2, <2>1 DEF StackSound
    <2>3. /\ g.kind = f.kind /\ g.by = f.by /\ g.env = f.env
          /\ f.rest \in Seq(Inner) => g.rest \in Seq(Inner)
          /\ \A k \in 1..Len(g.rest) : \E l \in 1..Len(f.rest) : g.rest[k] = f.rest[l]
      BY <1>1, <1>2, <2>1, AdvancedFacts
    <2>4. FrameSound(g)'
      BY <1>1, <2>2, <2>3, FrameStays DEF Keeps
    <2> QED
      BY <2>1, <2>4
  <1>4. \A i \in 1..Len(stack') : stack'[i].kind = "main" <=> i = Len(stack')
    BY <1>1, <1>2, AdvancedFacts DEF StackSound
  <1> QED
    BY <1>1, <1>3, <1>4 DEF StackSound
LEMMA StackPush ==
    ASSUME Keeps, StackSound, stack # <<>>, Top.rest # <<>>,
           NEW f \in Frames, f.kind # "main", FrameSound(f)',
           stack' = <<f>> \o Advanced, result' = result
    PROVE  StackSound'
  <1>1. TypeOK /\ session' = session
    BY DEF Keeps
  <1>2. /\ Len(stack') = Len(stack) + 1 /\ stack'[1] = f /\ stack' # <<>>
        /\ Len(stack) \in Nat \ {0}
    BY <1>1, PushFacts, TopFacts
  <1>3. \A i \in 2..Len(stack') :
            i - 1 \in 1..Len(stack) /\ stack'[i] = Advanced[i - 1]
    BY <1>1, <1>2, PushFacts
  <1>4. ASSUME NEW i \in 1..Len(stack') PROVE FrameSound(stack[i])'
    <2>1. PICK g : g = stack'[i]
      OBVIOUS
    <2>2. CASE i = 1
      BY <1>2, <2>1, <2>2
    <2>3. CASE i # 1
      <3>1. PICK e : e = stack[i - 1]
        OBVIOUS
      <3>2. i - 1 \in 1..Len(stack) /\ g = Advanced[i - 1]
        BY <1>3, <2>1, <2>3
      <3>3. FrameSound(e)
        BY <3>1, <3>2 DEF StackSound
      <3>4. /\ g.kind = e.kind /\ g.by = e.by /\ g.env = e.env
            /\ e.rest \in Seq(Inner) => g.rest \in Seq(Inner)
            /\ \A k \in 1..Len(g.rest) : \E l \in 1..Len(e.rest) : g.rest[k] = e.rest[l]
        BY <1>1, <3>1, <3>2, AdvancedFacts
      <3>5. FrameSound(g)'
        BY <3>3, <3>4, FrameStays DEF Keeps
      <3> QED
        BY <2>1, <3>5
    <2> QED
      BY <2>2, <2>3
  <1>5. ASSUME NEW i \in 1..Len(stack')
        PROVE  stack'[i].kind = "main" <=> i = Len(stack')
    <2>1. CASE i = 1
      BY <1>2, <2>1
    <2>2. CASE i # 1
      <3>1. i - 1 \in 1..Len(stack) /\ stack'[i].kind = stack[i - 1].kind
        <4>1. i - 1 \in 1..Len(stack) /\ stack'[i] = Advanced[i - 1]
          BY <1>3, <2>2
        <4>2. Advanced[i - 1].kind = stack[i - 1].kind
          BY <1>1, <4>1, AdvancedFacts
        <4> QED
          BY <4>1, <4>2
      <3>2. stack[i - 1].kind = "main" <=> i - 1 = Len(stack)
        BY <3>1 DEF StackSound
      <3> QED
        BY <1>2, <3>1, <3>2
    <2> QED
      BY <2>1, <2>2
  <1>6. Len(result') <= Len(session.entered) /\ Len(result') < Len(session.entered)
    BY DEF StackSound, Keeps, TypeOK
  <1> QED
    BY <1>1, <1>4, <1>5, <1>6 DEF StackSound

LEMMA StackGiveUp ==
    ASSUME TypeOK, session' = session, StackSound, GiveUp
    PROVE  StackSound'
  <1>1. stack # <<>> /\ stack' = <<>> /\ Len(result') = Len(result) + 1
    BY DEF GiveUp, TypeOK
  <1>2. session.entered \in Seq(ToSet(session.entered)) /\ Len(result) \in Nat
    BY StmtFacts DEF TypeOK
  <1> QED
    BY <1>1, <1>2 DEF StackSound

\* A frame that is called stays sound.
LEMMA CalledFrame ==
    ASSUME Keeps, NEW f \in Frames, FrameSound(f), result' = result
    PROVE  FrameSound(f)'
  BY FrameStays DEF Keeps

LEMMA OtherStack ==
    ASSUME Inv, OtherStmt
    PROVE  StackSound'
  <1>1. Quiet /\ (Advance \/ GiveUp \/ CallBody) /\ TypeOK'
    BY OtherForms, OtherTypes
  <1>2. Keeps /\ StackSound /\ session' = session
    BY <1>1, QuietKeeps DEF Inv, Quiet
  <1>3. CASE Advance
    BY <1>2, <1>3, StackAdvance
  <1>4. CASE GiveUp
    BY <1>2, <1>4, StackGiveUp DEF Keeps
  <1>5. CASE CallBody
    BY <1>2, <1>5, CalledFrame, StackPush DEF CallBody
  <1> QED
    BY <1>1, <1>3, <1>4, <1>5
-----------------------------------------------------------------------------
\* The statements that are no import keep the rest of the invariant

LEMMA OtherTable ==
    ASSUME Inv, OtherStmt
    PROVE  TableSound' /\ RanSound'
  <1>1. Quiet
    BY OtherForms
  <1>2. TableSound'
    BY <1>1 DEF Inv, Quiet, TableSound, IsBuiltin, IsExternal, Builtins
  <1>3. RanSound'
    BY <1>1 DEF Inv, Quiet, RanSound, InTable
  <1> QED
    BY <1>2, <1>3

LEMMA OtherImports ==
    ASSUME Inv, OtherStmt
    PROVE  ImportsSound'
  <1>1. Quiet /\ (Advance \/ GiveUp \/ CallBody) /\ TypeOK
    BY OtherForms DEF Inv
  <1>2. /\ \A p : InTable(p)' <=> InTable(p)
        /\ \A p : IsBuiltin(p)' <=> IsBuiltin(p)
        /\ bindings' = bindings /\ modules' = modules
    BY <1>1 DEF Quiet, InTable, IsBuiltin, Builtins
  <1>3. Len(stack) \in Nat /\ Len(result) \in Nat
    BY <1>1 DEF TypeOK
  <1>4. ASSUME NEW j \in 1..Len(bindings')
        PROVE  \/ ByWhom(bindings[j].by)'
               \/ stack' # <<>> /\ bindings'[j].by = <<"main", Len(result') + 1>>
    <2>1. \/ ByWhom(bindings[j].by)
          \/ stack # <<>> /\ bindings[j].by = <<"main", Len(result) + 1>>
      BY <1>2 DEF Inv, ImportsSound
    <2>2. CASE Advance \/ CallBody
      <3>1. result' = result /\ stack # <<>>
        BY <2>2 DEF Advance, CallBody
      <3>2. stack' # <<>>
        <4>1. stack' \in Seq(Frames) /\ Len(stack') \in Nat \ {0}
          <5>1. CASE Advance
            BY <1>1, <5>1, AdvancedFacts, TopFacts DEF Advance
          <5>2. CASE CallBody
            BY <1>1, <5>2, PushFacts, TopFacts DEF CallBody
          <5> QED
            BY <2>2, <5>1, <5>2
        <4> QED
          BY <4>1
      <3> QED
        BY <1>2, <2>1, <3>1, <3>2 DEF ByWhom
    <2>3. CASE GiveUp
      <3>1. Len(result') = Len(result) + 1
        BY <1>1, <2>3 DEF GiveUp, TypeOK
      <3> QED
        BY <1>2, <1>3, <2>1, <3>1 DEF ByWhom
    <2> QED
      BY <1>1, <2>2, <2>3
  <1>5. ASSUME NEW i \in 1..Len(stack'), NEW j \in 1..Len(bindings'),
               stack'[i].kind # "call", bindings'[j].by = stack'[i].by,
               ~IsBuiltin(bindings'[j].path)
        PROVE  Settled(bindings[j].path, i)'
    <2> PICK p : p = bindings[j].path
      OBVIOUS
    <2> SUFFICES Settled(p, i)'
      BY <1>2
    <2>1. CASE Advance
      <3>1. /\ Len(stack') = Len(stack)
            /\ \A h \in 1..Len(stack) : /\ stack'[h].kind = stack[h].kind
                                        /\ stack'[h].by = stack[h].by
        BY <1>1, <2>1, AdvancedFacts DEF Advance
      <3>2. Settled(p, i)
        BY <1>2, <1>5, <3>1 DEF Inv, ImportsSound
      <3> QED
        BY <1>2, <1>3, <3>1, <3>2 DEF Settled
    <2>2. CASE CallBody
      <3>1. PICK f \in Frames : f.kind = "call" /\ stack' = <<f>> \o Advanced
        BY <2>2 DEF CallBody
      <3>2. /\ Len(stack') = Len(stack) + 1 /\ stack'[1] = f
            /\ \A h \in 1..Len(stack) : stack'[h + 1] = Advanced[h]
        BY <1>1, <2>2, <3>1, PushFacts DEF CallBody
      <3>3. \A h \in 1..Len(stack) : /\ stack'[h + 1].kind = stack[h].kind
                                     /\ stack'[h + 1].by = stack[h].by
        BY <1>1, <2>2, <3>2, AdvancedFacts DEF CallBody
      <3>4. i - 1 \in 1..Len(stack) /\ i = (i - 1) + 1
        BY <1>3, <1>5, <3>1, <3>2
      <3>5. stack[i - 1].kind # "call" /\ bindings[j].by = stack[i - 1].by
        BY <1>2, <1>5, <3>3, <3>4
      <3>6. Settled(p, i - 1)
        BY <1>2, <1>5, <3>4, <3>5 DEF Inv, ImportsSound
      <3>7. ASSUME NEW k \in 1..Len(modules), modules[k].path = p, modules[k].loading
            PROVE  \E h \in 1..(i - 1) : stack'[h].kind = "module" /\ stack'[h].by = p
        <4>1. PICK h \in 1..((i - 1) - 1) : stack[h].kind = "module" /\ stack[h].by = p
          BY <3>6, <3>7 DEF Settled
        <4>2. h \in 1..Len(stack) /\ h + 1 \in 1..(i - 1)
          BY <1>3, <3>4, <4>1
        <4> QED
          BY <3>3, <4>1, <4>2
      <3> QED
        BY <1>2, <3>6, <3>7 DEF Settled
    <2>3. CASE GiveUp
      BY <2>3, <1>5 DEF GiveUp
    <2> QED
      BY <1>1, <2>1, <2>2, <2>3
  <1> QED
    BY <1>2, <1>4, <1>5 DEF ImportsSound

LEMMA OtherLoading ==
    ASSUME Inv, OtherStmt
    PROVE  LoadingSound'
  <1>1. Quiet /\ (Advance \/ GiveUp \/ CallBody) /\ TypeOK
    BY OtherForms DEF Inv
  <1>2. bindings' = bindings /\ modules' = modules
    BY <1>1 DEF Quiet
  <1>3. Len(stack) \in Nat /\ Len(result) \in Nat
    BY <1>1 DEF TypeOK
  <1>4. CASE Advance
    <2>1. /\ Len(stack') = Len(stack) /\ result' = result
          /\ stack' \in Seq(Frames)
          /\ \A h \in 1..Len(stack) : /\ stack'[h].kind = stack[h].kind
                                      /\ stack'[h].by = stack[h].by
      BY <1>1, <1>4, AdvancedFacts DEF Advance
    <2>2. \A p : p \in BeingLoaded => p \in BeingLoaded'
      <3> SUFFICES ASSUME NEW p \in BeingLoaded PROVE p \in BeingLoaded'
        OBVIOUS
      <3>1. PICK h \in 1..Len(stack) : stack[h].kind = "module" /\ stack[h].by = p
        BY <1>1 DEF BeingLoaded, TypeOK
      <3>2. h \in DOMAIN stack' /\ stack'[h].kind = "module" /\ stack'[h].by = p
        BY <2>1, <3>1
      <3> QED
        BY <3>2 DEF BeingLoaded
    <2>3. \A p : Abandoned(p)' <=> Abandoned(p)
      BY <1>2, <2>1 DEF Abandoned
    <2> QED
      BY <1>2, <2>1, <2>2, <2>3 DEF Inv, LoadingSound
  <1>5. CASE CallBody
    <2>1. PICK f \in Frames : f.kind = "call" /\ stack' = <<f>> \o Advanced
      BY <1>5 DEF CallBody
    <2>2. /\ Len(stack') = Len(stack) + 1 /\ stack'[1] = f /\ result' = result
          /\ stack' \in Seq(Frames)
          /\ \A h \in 1..Len(stack) : stack'[h + 1] = Advanced[h]
      BY <1>1, <1>5, <2>1, PushFacts DEF CallBody
    <2>3. \A h \in 1..Len(stack) : /\ stack'[h + 1].kind = stack[h].kind
                                   /\ stack'[h + 1].by = stack[h].by
      BY <1>1, <1>5, <2>2, AdvancedFacts DEF CallBody
    <2>4. ASSUME NEW p \in BeingLoaded PROVE p \in BeingLoaded'
      <3>1. PICK h \in 1..Len(stack) : stack[h].kind = "module" /\ stack[h].by = p
        BY <1>1 DEF BeingLoaded, TypeOK
      <3>2. h + 1 \in 1..Len(stack')
        BY <1>3, <2>2
      <3> QED
        BY <2>2, <2>3, <3>1, <3>2 DEF BeingLoaded
    <2>5. \A p : Abandoned(p)' <=> Abandoned(p)
      BY <1>2, <2>2 DEF Abandoned
    <2>6. \A i \in 1..Len(stack') : stack'[i].kind = "module" =>
            i - 1 \in 1..Len(stack) /\ stack'[i].by = stack[i - 1].by
              /\ stack[i - 1].kind = "module"
      <3> SUFFICES ASSUME NEW i \in 1..Len(stack'), stack'[i].kind = "module"
                   PROVE  /\ i - 1 \in 1..Len(stack) /\ stack'[i].by = stack[i - 1].by
                          /\ stack[i - 1].kind = "module"
        OBVIOUS
      <3>1. i - 1 \in 1..Len(stack) /\ (i - 1) + 1 = i
        BY <1>3, <2>1, <2>2
      <3> QED
        BY <2>3, <3>1
    <2> QED
      BY <1>2, <2>2, <2>4, <2>5, <2>6 DEF Inv, LoadingSound
  <1>6. CASE GiveUp
    <2>1. PICK w \in Failures : result' = Append(result, w)
      BY <1>6 DEF GiveUp
    <2>2. /\ Len(result') = Len(result) + 1 /\ result'[Len(result) + 1] # "ok"
          /\ \A k \in 1..Len(result) : result'[k] = result[k]
      <3>1. w # "ok"
        BY <2>1 DEF Failures
      <3> QED
        BY <1>1, <2>1, <3>1 DEF TypeOK
    <2>3. ASSUME NEW p, Abandoned(p) PROVE Abandoned(p)'
      <3>1. PICK b \in ToSet(bindings) : b.path = p /\ b.run <= Len(result) /\ result[b.run] # "ok"
        BY <2>3 DEF Abandoned
      <3>2. PICK j \in 1..Len(bindings) : bindings[j] = b
        BY <1>1, ElementOf DEF TypeOK
      <3>3. b.run \in Nat \ {0}
        BY <1>1, <3>2, EntryFacts
      <3>4. b.run \in 1..Len(result)
        BY <1>3, <3>1, <3>3
      <3> QED
        BY <1>2, <1>3, <2>2, <3>1, <3>4 DEF Abandoned
    <2>4. ASSUME NEW p \in BeingLoaded PROVE Abandoned(p)'
      <3>1. PICK h \in 1..Len(stack) : stack[h].kind = "module" /\ stack[h].by = p
        BY <1>1 DEF BeingLoaded, TypeOK
      <3>2. PICK j \in 1..Len(bindings) :
              bindings[j].path = p /\ bindings[j].run = Len(result) + 1
        BY <3>1 DEF Inv, LoadingSound
      <3>3. bindings[j] \in ToSet(bindings)
        BY <1>1, ElementOf DEF TypeOK
      <3> QED
        BY <1>2, <1>3, <2>2, <3>2, <3>3 DEF Abandoned
    <2>5. stack' = <<>>
      BY <1>6 DEF GiveUp
    <2> QED
      BY <1>2, <2>3, <2>4, <2>5 DEF Inv, LoadingSound
  <1> QED
    BY <1>1, <1>4, <1>5, <1>6
\* Without a lookup of an alias there is nothing to agree with.
LEMMA NoUseAgrees ==
    ASSUME TypeOK', session' = session, use' = NoUse
    PROVE  AliasMeansImport'
  <1>1. \A b \in ToSet(bindings') : b.by # <<>>
    <2> SUFFICES ASSUME NEW b \in ToSet(bindings') PROVE b.by # <<>>
      OBVIOUS
    <2>1. bindings' \in Seq(Reached') /\ Reached' = Reached
      BY SessionFacts DEF TypeOK
    <2>2. PICK j \in 1..Len(bindings') : bindings'[j] = b
      BY <2>1, ElementOf
    <2>3. b \in Reached
      BY <2>1, <2>2
    <2>4. session \in Sessions
      BY DEF TypeOK
    <2> QED
      BY <2>3, <2>4, NameFacts DEF Reached
  <1>2. use'.by = <<>>
    BY DEF NoUse
  <1> QED
    BY <1>1, <1>2 DEF AliasMeansImport

\* The alias of a module that an import found or loaded is in the table.
LEMMA KnownAlias ==
    ASSUME Inv, NEW j \in 1..Len(bindings), bindings[j].known,
           ~IsBuiltin(bindings[j].path)
    PROVE  \E k \in 1..Len(modules) :
               /\ modules[k].path = bindings[j].path
               /\ modules[k].alias = FirstAlias(bindings[j].path)
  <1>1. PICK k \in 1..Len(modules) : modules[k].path = bindings[j].path
    BY DEF Inv, AliasSound, InTable
  <1>2. PICK i \in 1..Len(bindings) :
          MadeEntry(i, modules[k].path) /\ bindings[i].alias = modules[k].alias
    BY <1>1 DEF Inv, AliasSound
  <1>3. FirstAlias(modules[k].path) = bindings[i].alias
    BY <1>2, FirstAliasFacts DEF Inv
  <1> QED
    BY <1>1, <1>2, <1>3

LEMMA OtherAlias ==
    ASSUME Inv, OtherStmt
    PROVE  AliasSound' /\ AliasMeansImport'
  <1>1. Quiet /\ TypeOK /\ TypeOK' /\ session' = session
    BY OtherForms, OtherTypes DEF Inv, Quiet
  <1>2. AliasSound'
    BY <1>1 DEF Inv, Quiet, AliasSound, MadeEntry, InTable, IsBuiltin, Builtins
  <1>3. CASE use' = NoUse
    BY <1>1, <1>2, <1>3, NoUseAgrees
  <1>4. CASE use' # NoUse
    <2> DEFINE a == Stmt.alias
               k == FindByAlias(a)
    <2>1. ExecCall
      BY <1>4 DEF OtherStmt, Prescan, ExecNothing, ExecFunc, ExecAssign, ExecFail
    <2>2. a # NoAlias
      BY <1>4, <2>1 DEF ExecCall
    <2>3. use' = [by |-> Top.by, alias |-> a, name |-> Stmt.name,
                  path |-> IF k = 0 THEN <<>> ELSE modules[k].path]
      BY <1>4, <2>1, <2>2 DEF ExecCall
    <2>4. use'.alias = a /\ use'.path = IF k = 0 THEN <<>> ELSE modules[k].path
      BY <2>3
    <2>5. ASSUME NEW j \in 1..Len(bindings),
                 bindings[j].alias = a, bindings[j].known, ~IsBuiltin(bindings[j].path),
                 FirstAlias(bindings[j].path) = a,
                 \A i \in 1..Len(bindings) :
                     bindings[i].known /\ bindings[i].alias = a =>
                         bindings[i].path = bindings[j].path
          PROVE  use'.path = bindings[j].path
      <3>1. PICK l \in 1..Len(modules) :
              modules[l].path = bindings[j].path /\ modules[l].alias = a
        BY <2>5, KnownAlias
      <3>2. modules[l].ns
        BY <2>2, <2>5, <3>1 DEF Inv, TableSound
      <3>3. /\ k \in 1..Len(modules) /\ k # 0
            /\ modules[k].ns /\ modules[k].alias = a
        BY <1>1, <3>1, <3>2, FindByAliasFacts
      <3>4. ~IsBuiltin(modules[k].path)
        BY <3>3 DEF Inv, TableSound
      <3>5. PICK i \in 1..Len(bindings) :
              /\ MadeEntry(i, modules[k].path)
              /\ bindings[i].alias = modules[k].alias
        BY <3>3, <3>4 DEF Inv, AliasSound
      <3>6. bindings[i].path = modules[k].path /\ bindings[i].known
        BY <3>5 DEF MadeEntry
      <3> QED
        BY <2>4, <2>5, <3>3, <3>5, <3>6
    <2>6. bindings' = bindings
      BY <1>1 DEF Quiet
    <2>7. \A p : FirstAlias(p)' = FirstAlias(p)
      BY <2>6 DEF FirstAlias, SelectInSeq
    <2>8. \A p : IsBuiltin(p)' = IsBuiltin(p)
      BY DEF IsBuiltin, Builtins
    <2>9. \A b : b \in ToSet(bindings) <=> \E j \in 1..Len(bindings) : bindings[j] = b
      BY <1>1, ElementOf DEF TypeOK
    <2>10. ASSUME NEW b \in ToSet(bindings), b.alias = use'.alias, b.known,
                 ~IsBuiltin(b.path), FirstAlias(b.path) = b.alias,
                 \A c \in ToSet(bindings) : c.known /\ c.alias = b.alias => c.path = b.path
          PROVE  use'.path = b.path
      <3>1. PICK j \in 1..Len(bindings) : bindings[j] = b
        BY <2>9
      <3>2. \A i \in 1..Len(bindings) :
               bindings[i].known /\ bindings[i].alias = a => bindings[i].path = b.path
        BY <2>4, <2>9, <2>10
      <3> QED
        BY <2>4, <2>5, <2>10, <3>1, <3>2
    <2> QED
      BY <1>2, <2>6, <2>7, <2>8, <2>10 DEF AliasMeansImport
  <1> QED
    BY <1>2, <1>3, <1>4
\* The scopes stay sound if the names that are new or bound anew are.
LEMMA ScopesChange ==
    ASSUME Keeps, ScopesSound,
           \A e \in DOMAIN envs' : \A x \in DOMAIN envs'[e] :
               \/ e \in DOMAIN envs /\ x \in DOMAIN envs[e] /\ envs'[e][x] = envs[e][x]
               \/ ValueSound(envs'[e][x], e) /\ (e = Global => MayBeGlobal(x))
    PROVE  ScopesSound'
  <1>1. session' = session /\ Global \in DOMAIN envs'
    BY DEF Keeps, TypeOK
  <1>2. \A v, e : ValueSound(v, e) => ValueSound(v, e)'
    BY <1>1, SessionFacts DEF ValueSound
  <1>3. \A x : MayBeGlobal(x) => MayBeGlobal(x)'
    BY GrowsKeeps DEF Keeps
  <1>4. ASSUME NEW e \in DOMAIN envs', NEW x \in DOMAIN envs'[e]
        PROVE  ValueSound(envs[e][x], e)' /\ (e = Global => MayBeGlobal(x)')
    <2>1. PICK v : v = envs'[e][x]
      OBVIOUS
    <2>2. ValueSound(v, e) /\ (e = Global => MayBeGlobal(x))
      BY <1>4, <2>1 DEF ScopesSound
    <2>3. ValueSound(v, e)' /\ (e = Global => MayBeGlobal(x)')
      BY <1>2, <1>3, <2>2
    <2> QED
      BY <2>1, <2>3
  <1> QED
    BY <1>1, <1>4 DEF ScopesSound

\* What a frame is when its statement runs.
LEMMA RunningFrame ==
    ASSUME Inv, stack # <<>>, Top.rest # <<>>
    PROVE  /\ FrameSound(Top) /\ Top \in Frames /\ Top.env \in DOMAIN envs
           /\ Top.by \in Names /\ Top.rest \in Seq(Stmts)
           /\ Len(Top.rest) \in Nat \ {0} /\ Stmt = Top.rest[1] /\ Stmt \in Stmts
           /\ Top.kind = "call" => Stmt \in Inner
  <1>1. FrameSound(Top) /\ Top \in Frames
    BY TopFacts DEF Inv, StackSound
  <1> QED
    BY <1>1, TopFacts DEF FrameSound, Frames, Inv

LEMMA AssignScopes ==
    ASSUME Inv, Keeps, ExecAssign
    PROVE  ScopesSound'
  <1> DEFINE x == Stmt.name
             v == Number
  <1>1. stack # <<>> /\ Top.rest # <<>> /\ Stmt.op = "assign"
    BY DEF ExecAssign, Doing
  <1>2. /\ Top.env \in DOMAIN envs /\ Top.by \in Names
        /\ Top.env # Global => Top.by = Top.env
        /\ v.t = "int" /\ v.by = Top.by
    BY <1>1, RunningFrame DEF FrameSound, Number
  <1>3. ASSUME NEW s \in DOMAIN envs, s \in {Top.env, Global},
               s = Global => MayBeGlobal(x), envs' = BindIn(s, x, v)
        PROVE  ScopesSound'
    <2>1. ValueSound(v, s)
      BY <1>2, <1>3 DEF ValueSound
    <2>2. /\ DOMAIN envs' = DOMAIN envs
          /\ \A e \in DOMAIN envs : e # s => envs'[e] = envs[e]
          /\ DOMAIN envs'[s] = DOMAIN envs[s] \cup {x}
          /\ \A y \in DOMAIN envs[s] \cup {x} :
                 envs'[s][y] = IF y = x THEN v ELSE envs[s][y]
      BY <1>3 DEF BindIn, With
    <2> HIDE DEF v, x
    <2>3. ASSUME NEW e \in DOMAIN envs', NEW y \in DOMAIN envs'[e]
          PROVE  \/ e \in DOMAIN envs /\ y \in DOMAIN envs[e] /\ envs'[e][y] = envs[e][y]
                 \/ ValueSound(envs'[e][y], e) /\ (e = Global => MayBeGlobal(y))
      <3>1. CASE e # s
        BY <2>2, <3>1
      <3>2. CASE e = s /\ y # x
        BY <2>2, <3>2
      <3>3. CASE e = s /\ y = x
        <4>1. envs'[e][y] = v
          BY <2>2, <3>3
        <4> QED
          BY <1>3, <2>1, <3>3, <4>1
      <3> QED
        BY <3>1, <3>2, <3>3
    <2> QED
      BY <2>3, ScopesChange DEF Inv
  <1>4. CASE Visible(Top.env, x)
    <2>1. /\ Scope(Top.env, x) \in DOMAIN envs /\ Scope(Top.env, x) \in {Top.env, Global}
          /\ x \in DOMAIN envs[Scope(Top.env, x)]
      BY <1>2, <1>4, ScopeFacts DEF Inv
    <2>2. Scope(Top.env, x) = Global => MayBeGlobal(x)
      BY <2>1 DEF Inv, ScopesSound
    <2>3. envs' = BindIn(Scope(Top.env, x), x, v)
      BY <1>4 DEF ExecAssign
    <2> QED
      BY <1>3, <2>1, <2>2, <2>3
  <1>5. CASE ~Visible(Top.env, x) /\ Top.kind # "call"
    <2>1. Top.env = Global => MayBeGlobal(x)
      BY <1>1, <1>5, RunningFrame DEF FrameSound
    <2>2. envs' = BindIn(Top.env, x, v)
      BY <1>5 DEF ExecAssign
    <2> QED
      BY <1>2, <1>3, <2>1, <2>2
  <1>6. CASE ~Visible(Top.env, x) /\ Top.kind = "call"
    <2>1. envs' = envs
      BY <1>6 DEF ExecAssign
    <2> QED
      BY <2>1, ScopesChange DEF Inv
  <1> QED
    BY <1>4, <1>5, <1>6

LEMMA PrescanScopes ==
    ASSUME Inv, Keeps, Prescan
    PROVE  ScopesSound'
  <1>1. stack # <<>> /\ Top.rest # <<>> /\ Stmt.op = "prescan"
    BY DEF Prescan, Doing
  <1>2. /\ Top.env \in DOMAIN envs /\ Top.by \in Names /\ Top.rest \in Seq(Stmts)
        /\ Top.env # Global => Top.by = Top.env
        /\ session \in Sessions
    BY <1>1, RunningFrame DEF FrameSound, Inv, TypeOK
  <1>3. Top.kind # "call"
    BY <1>1, <1>2, RunningFrame, StmtFacts
  <1>4. ASSUME NEW x \in Hoisted
        PROVE  /\ ValueSound(FuncAt(DeclOf(x)), Top.env)
               /\ Top.env = Global => MayBeGlobal(x)
    <2> DEFINE D == {i \in Decls("func") : NameAt(i) = x}
    <2>1. D # {} /\ D \in SUBSET Nat
      BY DEF Hoisted, Decls
    <2>2. DeclOf(x) \in D
      BY <2>1, MinIsLeast DEF DeclOf
    <2>3. PICK i : i = DeclOf(x)
      OBVIOUS
    <2>4. i \in 1..Len(Top.rest) /\ Top.rest[i].op = "func" /\ Top.rest[i].name = x
      BY <2>2, <2>3 DEF Decls, NameAt
    <2>5. Top.rest[i] \in Stmts
      BY <1>2, <2>4
    <2>6. Top.rest[i].body \in Seq(Inner)
      BY <1>2, <2>4, <2>5, StmtFacts
    <2>7. ValueSound(FuncAt(i), Top.env)
      BY <1>2, <2>6 DEF ValueSound, FuncAt
    <2>8. Top.env = Global => MayBeGlobal(x)
      BY <1>1, <1>3, <2>4, RunningFrame DEF FrameSound
    <2> QED
      BY <2>3, <2>7, <2>8
  <1>5. CASE Clashes # {}
    <2>1. envs' = envs
      BY <1>5 DEF Prescan
    <2> QED
      BY <2>1, ScopesChange DEF Inv
  <1>6. CASE ~(Clashes # {})
    <2> DEFINE e == Top.env
    <2>1. envs' = [envs EXCEPT ![e] =
                     [f \in DOMAIN @ \cup Hoisted |->
                        IF f \in DOMAIN @ THEN @[f] ELSE FuncAt(DeclOf(f))]]
      BY <1>6 DEF Prescan
    <2>2. /\ DOMAIN envs' = DOMAIN envs
          /\ \A d \in DOMAIN envs : d # e => envs'[d] = envs[d]
          /\ DOMAIN envs'[e] = DOMAIN envs[e] \cup Hoisted
          /\ \A y \in DOMAIN envs[e] \cup Hoisted :
                 envs'[e][y] = IF y \in DOMAIN envs[e] THEN envs[e][y] ELSE FuncAt(DeclOf(y))
      BY <1>2, <2>1
    <2> HIDE DEF e
    <2>3. ASSUME NEW d \in DOMAIN envs', NEW y \in DOMAIN envs'[d]
          PROVE  \/ d \in DOMAIN envs /\ y \in DOMAIN envs[d] /\ envs'[d][y] = envs[d][y]
                 \/ ValueSound(envs'[d][y], d) /\ (d = Global => MayBeGlobal(y))
      <3>1. CASE d # e
        BY <2>2, <3>1
      <3>2. CASE d = e /\ y \in DOMAIN envs[e]
        BY <2>2, <3>2
      <3>3. CASE d = e /\ y \notin DOMAIN envs[e]
        <4>1. y \in Hoisted /\ envs'[d][y] = FuncAt(DeclOf(y))
          BY <2>2, <3>3
        <4> QED
          BY <1>4, <3>3, <4>1 DEF e
      <3> QED
        BY <3>1, <3>2, <3>3
    <2> QED
      BY <2>3, ScopesChange DEF Inv
  <1> QED
    BY <1>5, <1>6

LEMMA OtherScopes ==
    ASSUME Inv, OtherStmt
    PROVE  ScopesSound'
  <1>1. Keeps
    BY OtherForms, OtherTypes, QuietKeeps
  <1>2. CASE Prescan
    BY <1>1, <1>2, PrescanScopes
  <1>3. CASE ExecAssign
    BY <1>1, <1>3, AssignScopes
  <1>4. CASE ExecNothing \/ ExecFunc \/ ExecCall \/ ExecFail
    <2>1. envs' = envs
      BY <1>4 DEF ExecNothing, ExecFunc, ExecCall, ExecFail
    <2> QED
      BY <1>1, <2>1, ScopesChange DEF Inv
  <1> QED
    BY <1>2, <1>3, <1>4 DEF OtherStmt
-----------------------------------------------------------------------------
\* A program is entered

\* Two sequences with an element between them.
LEMMA BetweenFacts ==
    ASSUME NEW S, NEW a \in Seq(S), NEW m \in S, NEW b \in Seq(S), NEW r,
           r = a \o <<m>> \o b
    PROVE  /\ r \in Seq(S)
           /\ \A k \in 1..Len(r) :
                  \/ r[k] = m
                  \/ \E i \in 1..Len(a) : r[k] = a[i]
                  \/ \E i \in 1..Len(b) : r[k] = b[i]
  <1>1. a \o <<m>> \in Seq(S) /\ Len(a \o <<m>>) = Len(a) + 1
    OBVIOUS
  <1>2. PICK q \in Seq(S) : q = a \o <<m>>
    BY <1>1
  <1>3. Len(q) = Len(a) + 1 /\ r = q \o b
    BY <1>1, <1>2
  <1>4. r \in Seq(S) /\ Len(r) = Len(q) + Len(b)
    BY <1>3
  <1>5. ASSUME NEW k \in 1..Len(r)
        PROVE  \/ r[k] = m
               \/ \E i \in 1..Len(a) : r[k] = a[i]
               \/ \E i \in 1..Len(b) : r[k] = b[i]
    <2>1. CASE k \in 1..Len(q)
      <3>1. r[k] = q[k]
        BY <1>3, <2>1
      <3>2. q[k] = IF k <= Len(a) THEN a[k] ELSE m
        BY <1>2, <1>3, <2>1
      <3> QED
        BY <1>3, <2>1, <3>1, <3>2
    <2>2. CASE k \notin 1..Len(q)
      <3>1. k - Len(q) \in 1..Len(b) /\ r[k] = b[k - Len(q)]
        BY <1>3, <1>4, <2>2
      <3> QED
        BY <3>1
    <2> QED
      BY <2>1, <2>2
  <1> QED
    BY <1>4, <1>5

LEMMA RunTypes ==
    ASSUME Inv, InterpRun
    PROVE  /\ TypeOK'
           /\ \E f \in Frames :
                  /\ stack' = <<f>> /\ f.kind = "main" /\ f.env = Global
                  /\ f.by = <<"main", Len(result) + 1>>
                  /\ FrameSound(f)
           /\ Len(result) < Len(session.entered)
  <1> DEFINE n == Len(result) + 1
             program == session.entered[n]
             Pass(T) == [i \in DOMAIN program |-> IF program[i].op \in T THEN program[i] ELSE Skip]
             A == {"import"}
             B == {"assign", "call", "fail", "func", "struct"}
             rest == Pass(A) \o <<Hoist>> \o Pass(B)
             f == Frame("main", <<"main", n>>, Global, rest)
  <1>1. /\ stack = <<>> /\ Len(result) < Len(session.entered)
        /\ stack' = <<f>>
        /\ UNCHANGED <<session, modules, envs, structs, result, ran, bindings>>
    BY DEF InterpRun
  <1>2. /\ session.entered \in Seq(ToSet(session.entered)) /\ Len(result) \in Nat
        /\ session \in Sessions
    BY StmtFacts DEF Inv, TypeOK
  <1>3. n \in DOMAIN session.entered /\ n \in 1..Len(session.entered)
    BY <1>1, <1>2
  <1>4. program \in Bodies(session)
    BY <1>3 DEF Bodies, ToSet
  <1>5. /\ DOMAIN program = 1..Len(program) /\ Len(program) \in Nat
        /\ \A i \in DOMAIN program : program[i].op \in A \cup B => program[i] \in Stmts
    <2>1. CASE program \in Parsed
      <3>1. program \in Seq(Stmts)
        BY <1>2, <2>1, StmtFacts
      <3> HIDE DEF program
      <3> QED
        BY <3>1
    <2>2. CASE program \notin Parsed
      <3>1. program = Missing \/ program = Unparsable
        BY <1>4, <2>2 DEF Parsed
      <3>2. \A b \in {Missing, Unparsable} :
              Len(b) = 1 /\ DOMAIN b = 1..1 /\ b[1].op \in {"missing", "unparsable"}
        BY DEF Missing, Unparsable
      <3> HIDE DEF program
      <3> QED
        BY <3>1, <3>2
    <2> QED
      BY <2>1, <2>2
  <1>6. Skip \in Stmts /\ Hoist \in Stmts
    BY DEF Stmts
  <1> HIDE DEF program
  <1>7. /\ Pass(A) \in Seq(Stmts) /\ Len(Pass(A)) = Len(program)
        /\ Pass(B) \in Seq(Stmts) /\ Len(Pass(B)) = Len(program)
    BY <1>5, <1>6
  <1>8. \A i \in 1..Len(program) :
          /\ Pass(A)[i] \in {program[i], Skip}
          /\ Pass(B)[i] \in {program[i], Skip}
    BY <1>5
  <1> HIDE DEF Pass
  <1>9. PICK r : r = rest
    OBVIOUS
  <1>10. /\ r \in Seq(Stmts)
         /\ \A k \in 1..Len(r) :
                \/ r[k] = Skip \/ r[k] = Hoist
                \/ \E i \in 1..Len(program) : r[k] = program[i]
    <2>1. /\ r \in Seq(Stmts)
          /\ \A k \in 1..Len(r) :
                 \/ r[k] = Hoist
                 \/ \E i \in 1..Len(Pass(A)) : r[k] = Pass(A)[i]
                 \/ \E i \in 1..Len(Pass(B)) : r[k] = Pass(B)[i]
      <3>1. r = Pass(A) \o <<Hoist>> \o Pass(B)
        BY <1>9
      <3> HIDE DEF rest
      <3> QED
        BY ONLY <1>6, <1>7, <3>1, BetweenFacts
    <2> QED
      BY <1>7, <1>8, <2>1
  <1> HIDE DEF rest
  <1>11. /\ f.kind = "main" /\ f.by = <<"main", n>> /\ f.env = Global /\ f.rest = r
         /\ f = [kind |-> "main", by |-> <<"main", n>>, env |-> Global, rest |-> r]
    BY <1>9 DEF Frame
  <1>12. f \in Frames
    BY <1>2, <1>3, <1>10, <1>11, NameFacts DEF Frames, Names
  <1>13. ASSUME NEW k \in 1..Len(r), r[k].op \in {"func", "assign"}
         PROVE  MayBeGlobal(r[k].name)
    <2>1. PICK i \in 1..Len(program) : r[k] = program[i]
      BY <1>10, <1>13 DEF Skip, Hoist
    <2>2. program[i] \in ToSet(program)
      BY <1>5 DEF ToSet
    <2>3. r[k].name \in Writes(program)
      BY <1>13, <2>1, <2>2 DEF Writes
    <2> QED
      BY <1>3, <2>3 DEF MayBeGlobal, program
  <1>14. FrameSound(f)
    BY <1>11, <1>13 DEF FrameSound, Inv, TypeOK
  <1>15. TypeOK'
    <2>1. stack' \in Seq(Frames)
      BY <1>1, <1>12
    <2> QED
      BY <1>1, <2>1, SessionFacts DEF Inv, TypeOK
  <1> QED
    BY <1>1, <1>11, <1>12, <1>14, <1>15

LEMMA RunInv ==
    ASSUME Inv, InterpRun
    PROVE  Inv'
  <1>1. PICK f \in Frames : /\ stack' = <<f>> /\ f.kind = "main" /\ f.env = Global
                            /\ f.by = <<"main", Len(result) + 1>> /\ FrameSound(f)
    BY RunTypes
  <1>2. /\ stack = <<>> /\ use' = NoUse /\ result' = result
        /\ session' = session /\ modules' = modules /\ envs' = envs
        /\ ran' = ran /\ bindings' = bindings
        /\ Len(result) < Len(session.entered) /\ TypeOK' /\ TypeOK
    BY RunTypes DEF InterpRun, Inv
  <1>3. Keeps
    BY <1>2 DEF Inv, Keeps, TableGrows
  <1>4. /\ Len(stack') = 1 /\ stack'[1] = f /\ stack' # <<>>
        /\ Len(result) \in Nat
    BY <1>1, <1>2 DEF TypeOK
  <1>5. StackSound'
    <2>1. FrameSound(f)'
      BY <1>1, <1>2, <1>3, FrameStays DEF Keeps
    <2> QED
      BY <1>1, <1>2, <1>4, <2>1 DEF StackSound
  <1>6. TableSound' /\ RanSound'
    BY <1>2 DEF Inv, TableSound, RanSound, InTable, IsBuiltin, IsExternal, Builtins
  <1>7. ImportsSound'
    <2>1. \A j \in 1..Len(bindings) : ByWhom(bindings[j].by)
      BY <1>2 DEF Inv, ImportsSound
    <2>2. \A j \in 1..Len(bindings) : bindings[j].by # f.by
      <3> SUFFICES ASSUME NEW j \in 1..Len(bindings), bindings[j].by = f.by PROVE FALSE
        OBVIOUS
      <3>1. CASE InTable(f.by)
        <4>1. f.by \in Paths
          BY <1>2, <3>1, EntryFacts DEF InTable
        <4>2. Len(session.entered) \in Nat /\ session \in Sessions
          BY <1>2, StmtFacts DEF TypeOK
        <4> QED
          BY <1>1, <1>2, <1>4, <4>1, <4>2, NameFacts
      <3>2. CASE \E m \in 1..Len(result) : f.by = <<"main", m>>
        BY <1>1, <1>4, <3>2
      <3> QED
        BY <2>1, <3>1, <3>2 DEF ByWhom
    <2>3. \A p : ByWhom(p)' <=> ByWhom(p)
      BY <1>2 DEF ByWhom, InTable
    <2> QED
      BY <1>2, <1>4, <2>1, <2>2, <2>3 DEF ImportsSound
  <1>8. AliasSound' /\ AliasMeansImport'
    <2>1. AliasSound'
      BY <1>2 DEF Inv, AliasSound, MadeEntry, InTable, IsBuiltin, Builtins
    <2> QED
      BY <1>2, <2>1, NoUseAgrees
  <1>9. LoadingSound'
    <2>1. BeingLoaded = {}
      BY <1>2 DEF BeingLoaded
    <2>2. \A p : Abandoned(p)' <=> Abandoned(p)
      BY <1>2 DEF Abandoned
    <2> QED
      BY <1>1, <1>2, <1>4, <2>1, <2>2 DEF Inv, LoadingSound
  <1>10. ScopesSound'
    BY <1>2, <1>3, ScopesChange DEF Inv
  <1> QED
    BY <1>2, <1>5, <1>6, <1>7, <1>8, <1>9, <1>10 DEF Inv
-----------------------------------------------------------------------------
\* A body ends

\* What the end of a body changes: the frames move down, and the entry of a
\* module is no longer marked as loading.
LEMMA EndFacts ==
    ASSUME Inv, EndOfBody
    PROVE  /\ stack # <<>> /\ Len(stack) \in Nat \ {0}
           /\ stack' \in Seq(Frames) /\ Len(stack') = Len(stack) - 1
           /\ \A i \in 1..Len(stack') :
                  i + 1 \in 1..Len(stack) /\ stack'[i] = stack[i + 1]
           /\ stack[1].kind = "main" => /\ stack' = <<>>
                                        /\ result' = Append(result, "ok")
           /\ stack[1].kind # "main" => stack' # <<>> /\ result' = result
           /\ modules' \in Seq(Entries) /\ Len(modules') = Len(modules)
           /\ \A k \in 1..Len(modules) :
                  /\ modules'[k].path = modules[k].path
                  /\ modules'[k].alias = modules[k].alias
                  /\ modules'[k].ns = modules[k].ns
                  /\ modules'[k].loading => modules[k].loading
                  /\ stack[1].kind = "module" /\ modules[k].path = stack[1].by
                       => ~modules'[k].loading
           /\ session' = session /\ envs' = envs /\ ran' = ran
           /\ bindings' = bindings /\ use' = NoUse
  <1>1. /\ stack # <<>> /\ stack' = Tail(stack) /\ TypeOK
        /\ session' = session /\ envs' = envs /\ ran' = ran
        /\ bindings' = bindings /\ use' = NoUse
    BY DEF EndOfBody, Inv
  <1>2. stack \in Seq(Frames) /\ Len(stack) \in Nat \ {0} /\ Top = stack[1]
    BY <1>1, TopFacts DEF TypeOK
  <1>3. /\ stack' \in Seq(Frames) /\ Len(stack') = Len(stack) - 1
        /\ \A i \in 1..Len(stack') :
               i + 1 \in 1..Len(stack) /\ stack'[i] = stack[i + 1]
    BY <1>1, <1>2
  <1>4. stack[1].kind = "main" <=> 1 = Len(stack)
    <2>1. StackSound /\ 1 \in 1..Len(stack)
      BY <1>2 DEF Inv
    <2> QED
      BY ONLY <2>1 DEF StackSound
  <1>5. stack[1].kind = "main" => stack' = <<>> /\ result' = Append(result, "ok")
    BY <1>2, <1>3, <1>4 DEF EndOfBody
  <1>6. stack[1].kind # "main" => stack' # <<>> /\ result' = result
    <2> SUFFICES ASSUME stack[1].kind # "main" PROVE stack' # <<>> /\ result' = result
      OBVIOUS
    <2>1. Len(stack') > 0
      BY <1>2, <1>3, <1>4
    <2>2. stack' # <<>>
      BY <2>1
    <2>3. result' = result
      BY <1>2 DEF EndOfBody
    <2> QED
      BY <2>2, <2>3
  <1>7. /\ modules' \in Seq(Entries) /\ Len(modules') = Len(modules)
        /\ \A k \in 1..Len(modules) :
               /\ modules'[k].path = modules[k].path
               /\ modules'[k].alias = modules[k].alias
               /\ modules'[k].ns = modules[k].ns
               /\ modules'[k].loading => modules[k].loading
               /\ stack[1].kind = "module" /\ modules[k].path = stack[1].by
                    => ~modules'[k].loading
    <2>1. CASE stack[1].kind # "module"
      <3>1. modules' = modules
        BY <1>2, <2>1 DEF EndOfBody
      <3> QED
        BY <1>1, <2>1, <3>1 DEF TypeOK
    <2>2. CASE stack[1].kind = "module"
      <3> DEFINE p == stack[1].by
                 n == FindModule(p)
      <3>1. InTable(p) /\ ~IsBuiltin(p)
        BY <1>2, <2>2 DEF Inv, StackSound, FrameSound
      <3>2. n \in 1..Len(modules) /\ modules[n].path = p
        BY <1>1, <3>1, FindModuleFacts
      <3>3. modules' = [modules EXCEPT ![n].loading = FALSE]
        BY <1>2, <2>2 DEF EndOfBody
      <3>4. modules \in Seq(Entries)
        BY <1>1 DEF TypeOK
      <3> HIDE DEF n
      <3>5. modules[n] \in Entries
        BY <3>2, <3>4
      <3>6. /\ [modules[n] EXCEPT !.loading = FALSE] \in Entries
            /\ [modules[n] EXCEPT !.loading = FALSE].path = modules[n].path
            /\ [modules[n] EXCEPT !.loading = FALSE].alias = modules[n].alias
            /\ [modules[n] EXCEPT !.loading = FALSE].ns = modules[n].ns
            /\ ~[modules[n] EXCEPT !.loading = FALSE].loading
        BY <3>5 DEF Entries
      <3>7. /\ modules' \in Seq(Entries) /\ Len(modules') = Len(modules)
            /\ modules'[n] = [modules[n] EXCEPT !.loading = FALSE]
            /\ \A k \in 1..Len(modules) : k # n => modules'[k] = modules[k]
        <4>1. PICK v \in Entries : v = [modules[n] EXCEPT !.loading = FALSE]
          BY <3>6
        <4>2. modules' = [modules EXCEPT ![n] = v]
          BY <3>3, <4>1
        <4>3. v \in Entries
          OBVIOUS
        <4>4. /\ modules' \in Seq(Entries) /\ Len(modules') = Len(modules)
              /\ modules'[n] = v
              /\ \A k \in 1..Len(modules) : k # n => modules'[k] = modules[k]
          BY ONLY <3>2, <3>4, <4>2, <4>3
        <4> QED
          BY ONLY <4>1, <4>4
      <3>8. \A k \in 1..Len(modules) : modules[k].path = p => k = n
        BY <3>1, <3>2 DEF Inv, TableSound
      <3> QED
        BY <3>6, <3>7, <3>8
    <2> QED
      BY <2>1, <2>2
  <1> QED
    BY <1>1, <1>2, <1>3, <1>5, <1>6, <1>7

LEMMA EndKeeps ==
    ASSUME Inv, EndOfBody
    PROVE  Keeps
  <1>1. TypeOK'
    <2>1. result' \in Seq(Failures \cup {"ok"})
      <3>1. result \in Seq(Failures \cup {"ok"})
        BY DEF Inv, TypeOK
      <3>2. result' = result \/ result' = Append(result, "ok")
        BY EndFacts
      <3> QED
        BY <3>1, <3>2
    <2> QED
      BY EndFacts, <2>1, SessionFacts DEF Inv, TypeOK
  <1>2. TableGrows
    BY EndFacts DEF TableGrows
  <1> QED
    BY <1>1, <1>2, EndFacts DEF Inv, Keeps

LEMMA EndStack ==
    ASSUME Inv, EndOfBody
    PROVE  StackSound'
  <1>1. Keeps /\ session' = session /\ TypeOK
    BY EndKeeps, EndFacts DEF Keeps
  <1>2. Len(result) \in Nat /\ Len(session.entered) \in Nat
    BY <1>1, StmtFacts DEF TypeOK
  <1>3. CASE stack[1].kind = "main"
    <2>1. stack' = <<>> /\ Len(result') = Len(result) + 1 /\ stack # <<>>
      BY <1>1, <1>3, EndFacts DEF TypeOK
    <2> QED
      BY <1>1, <1>2, <2>1 DEF Inv, StackSound
  <1>4. CASE stack[1].kind # "main"
    <2>1. result' = result /\ stack # <<>>
      BY <1>4, EndFacts
    <2>2. ASSUME NEW i \in 1..Len(stack')
          PROVE  FrameSound(stack[i])' /\ (stack'[i].kind = "main" <=> i = Len(stack'))
      <3>1. PICK f : f = stack'[i]
        OBVIOUS
      <3>2. /\ i + 1 \in 1..Len(stack) /\ f = stack[i + 1]
            /\ Len(stack') = Len(stack) - 1 /\ Len(stack) \in Nat
        BY <3>1, EndFacts
      <3>3. FrameSound(f) /\ (f.kind = "main" <=> i + 1 = Len(stack))
        BY <3>2 DEF Inv, StackSound
      <3>4. FrameSound(f)'
        BY <1>1, <2>1, <3>3, FrameStays DEF Keeps
      <3> QED
        BY <3>1, <3>2, <3>3, <3>4
    <2>3. Len(result') < Len(session.entered)
      BY <2>1 DEF Inv, StackSound
    <2> QED
      BY <1>1, <1>2, <2>1, <2>2, <2>3 DEF StackSound
  <1> QED
    BY <1>3, <1>4

\* The same modules are in the table.
LEMMA EndInTable ==
    ASSUME Inv, EndOfBody
    PROVE  \A p : InTable(p)' <=> InTable(p)
  <1>1. Len(modules') = Len(modules)
    BY EndFacts
  <1>2. \A k \in 1..Len(modules) : modules'[k].path = modules[k].path
    BY EndFacts
  <1> QED
    BY <1>1, <1>2 DEF InTable

LEMMA EndImports ==
    ASSUME Inv, EndOfBody
    PROVE  ImportsSound'
  <1>1. /\ TypeOK /\ Len(result) \in Nat
        /\ \A p : InTable(p)' <=> InTable(p)
        /\ \A p : IsBuiltin(p)' <=> IsBuiltin(p)
        /\ bindings' = bindings
    <2>1. \A p : InTable(p)' <=> InTable(p)
      BY EndInTable
    <2> QED
      BY <2>1, EndFacts DEF Inv, TypeOK, IsBuiltin, Builtins
  <1>2. ASSUME NEW j \in 1..Len(bindings')
        PROVE  \/ ByWhom(bindings[j].by)'
               \/ stack' # <<>> /\ bindings'[j].by = <<"main", Len(result') + 1>>
    <2>1. \/ ByWhom(bindings[j].by)
          \/ stack # <<>> /\ bindings[j].by = <<"main", Len(result) + 1>>
      BY <1>1 DEF Inv, ImportsSound
    <2>2. CASE stack[1].kind = "main"
      <3>1. Len(result') = Len(result) + 1
        BY <1>1, <2>2, EndFacts DEF TypeOK
      <3> QED
        BY <1>1, <2>1, <3>1 DEF ByWhom
    <2>3. CASE stack[1].kind # "main"
      <3>1. result' = result /\ stack' # <<>>
        BY <2>3, EndFacts
      <3> QED
        BY <1>1, <2>1, <3>1 DEF ByWhom
    <2> QED
      BY <2>2, <2>3
  <1>3. ASSUME NEW i \in 1..Len(stack'), NEW j \in 1..Len(bindings'),
               stack'[i].kind # "call", bindings'[j].by = stack'[i].by,
               ~IsBuiltin(bindings'[j].path)
        PROVE  Settled(bindings[j].path, i)'
    <2>1. PICK p : p = bindings[j].path
      OBVIOUS
    <2>2. i + 1 \in 1..Len(stack) /\ stack'[i] = stack[i + 1]
      BY EndFacts
    <2>3. Settled(p, i + 1)
      BY <1>1, <1>3, <2>1, <2>2 DEF Inv, ImportsSound
    <2>4. ASSUME NEW k \in 1..Len(modules'), modules'[k].path = p, modules'[k].loading
          PROVE  \E h \in 1..(i - 1) : stack'[h].kind = "module" /\ stack'[h].by = p
      <3>1. modules[k].path = p /\ modules[k].loading /\ k \in 1..Len(modules)
        BY <2>4, EndFacts
      <3>2. PICK h \in 1..((i + 1) - 1) : stack[h].kind = "module" /\ stack[h].by = p
        BY <2>3, <3>1 DEF Settled
      <3>3. h # 1
        BY <2>4, <3>1, <3>2, EndFacts
      <3>4. h - 1 \in 1..(i - 1) /\ h - 1 \in 1..Len(stack') /\ (h - 1) + 1 = h
        BY <3>2, <3>3
      <3>5. stack'[h - 1] = stack[h]
        BY <3>4, EndFacts
      <3> QED
        BY <3>2, <3>4, <3>5
    <2> QED
      BY <1>1, <2>1, <2>3, <2>4 DEF Settled
  <1> QED
    BY <1>1, <1>2, <1>3 DEF ImportsSound

LEMMA EndLoading ==
    ASSUME Inv, EndOfBody
    PROVE  LoadingSound'
  <1>1. TypeOK /\ Len(result) \in Nat
    BY DEF Inv, TypeOK
  <1>2. ASSUME NEW p, Abandoned(p) PROVE Abandoned(p)'
    <2>1. PICK b \in ToSet(bindings) :
            b.path = p /\ b.run <= Len(result) /\ result[b.run] # "ok"
      BY <1>2 DEF Abandoned
    <2>2. PICK j \in 1..Len(bindings) : bindings[j] = b
      BY <1>1, ElementOf DEF TypeOK
    <2>3. b.run \in 1..Len(result)
      BY <1>1, <2>1, <2>2, EntryFacts
    <2>4. \/ result' = result
          \/ result' = Append(result, "ok")
      BY EndFacts
    <2>5. Len(result') >= Len(result) /\ result'[b.run] = result[b.run]
      BY <1>1, <2>3, <2>4 DEF TypeOK
    <2>6. b.run <= Len(result')
      BY <1>1, <2>3, <2>4 DEF TypeOK
    <2> QED
      BY <2>1, <2>5, <2>6, EndFacts DEF Abandoned
  <1>3. ASSUME NEW k \in 1..Len(modules'), modules'[k].loading,
               NEW p, p = modules'[k].path
        PROVE  p \in BeingLoaded' \/ Abandoned(p)'
    <2>1. k \in 1..Len(modules) /\ modules[k].loading /\ modules[k].path = p
      BY <1>3, EndFacts
    <2>2. CASE Abandoned(p)
      BY <1>2, <2>2
    <2>3. CASE p \in BeingLoaded
      <3>1. PICK h \in 1..Len(stack) : stack[h].kind = "module" /\ stack[h].by = p
        BY <1>1, <2>3 DEF BeingLoaded, TypeOK
      <3>2. h # 1
        BY <1>3, <2>1, <3>1, EndFacts
      <3>3. h - 1 \in 1..Len(stack') /\ (h - 1) + 1 = h
        BY <3>1, <3>2, EndFacts
      <3>4. stack'[h - 1] = stack[h]
        BY <3>3, EndFacts
      <3>5. h - 1 \in DOMAIN stack'
        BY <3>3, EndFacts
      <3> QED
        BY <3>1, <3>4, <3>5 DEF BeingLoaded
    <2> QED
      BY <2>1, <2>2, <2>3 DEF Inv, LoadingSound
  <1>4. ASSUME NEW i \in 1..Len(stack'), stack'[i].kind = "module"
        PROVE  \E j \in 1..Len(bindings') :
                   bindings'[j].path = stack'[i].by /\ bindings'[j].run = Len(result') + 1
    <2>1. i + 1 \in 1..Len(stack) /\ stack'[i] = stack[i + 1]
      BY EndFacts
    <2>2. result' = result /\ bindings' = bindings
      BY EndFacts
    <2> QED
      BY <1>4, <2>1, <2>2 DEF Inv, LoadingSound
  <1> QED
    BY <1>3, <1>4 DEF LoadingSound

LEMMA EndInv ==
    ASSUME Inv, EndOfBody
    PROVE  Inv'
  <1>1. Keeps /\ TypeOK' /\ session' = session
    BY EndKeeps DEF Keeps
  <1>2. /\ Len(modules') = Len(modules) /\ envs' = envs /\ ran' = ran
        /\ bindings' = bindings
        /\ \A k \in 1..Len(modules) :
               /\ modules'[k].path = modules[k].path
               /\ modules'[k].alias = modules[k].alias
               /\ modules'[k].ns = modules[k].ns
    BY EndFacts
  <1>3. /\ \A p : IsBuiltin(p)' <=> IsBuiltin(p)
        /\ \A p : IsExternal(p)' <=> IsExternal(p)
        /\ \A p : InTable(p)' <=> InTable(p)
        /\ \A j, p : MadeEntry(j, p)' <=> MadeEntry(j, p)
    <2>1. \A p : InTable(p)' <=> InTable(p)
      BY <1>2 DEF InTable
    <2>2. \A j, p : MadeEntry(j, p)' <=> MadeEntry(j, p)
      BY <1>2 DEF MadeEntry
    <2> QED
      BY <2>1, <2>2 DEF IsBuiltin, IsExternal, Builtins
  <1>4. TableSound' /\ RanSound' /\ AliasSound'
    <2>1. TableSound'
      BY <1>2, <1>3 DEF Inv, TableSound
    <2>2. RanSound'
      BY <1>2, <1>3 DEF Inv, RanSound
    <2>3. AliasSound'
      BY <1>2, <1>3 DEF Inv, AliasSound
    <2> QED
      BY <2>1, <2>2, <2>3
  <1>5. AliasMeansImport'
    BY <1>1, EndFacts, NoUseAgrees
  <1>6. ScopesSound'
    BY <1>1, EndFacts, ScopesChange DEF Inv
  <1> QED
    BY <1>1, <1>4, <1>5, <1>6, EndStack, EndImports, EndLoading DEF Inv
-----------------------------------------------------------------------------
\* An import statement

\* The import of p as a makes a new entry.
NewEntry(p, a) ==
    /\ ~IsBuiltin(p) /\ ~InTable(p)
    /\ a = NoAlias => IsExternal(p)
    /\ modules' = <<[path |-> p, alias |-> a, ns |-> a # NoAlias, loading |-> TRUE]>> \o modules
    /\ envs' = IF a # NoAlias THEN With(envs, p, <<>>) ELSE envs

\* There is nothing to load, ...
Passed(p, a) ==
    /\ Advance
    /\ envs' = envs /\ ran' = ran
    /\ \/ /\ IsBuiltin(p)
          /\ modules' = <<[path |-> p, alias |-> a, ns |-> FALSE, loading |-> FALSE]>> \o modules
       \/ /\ modules' = modules
          /\ FindModule(p) # 0 /\ ~modules[FindModule(p)].loading

\* ... the import is refused, ...
Refused(p) ==
    /\ GiveUp
    /\ modules' = modules /\ envs' = envs /\ ran' = ran
    /\ Crash \/ (FindModule(p) # 0 /\ modules[FindModule(p)].loading)

\* ... the file cannot be loaded, ...
Unloadable(p, a) ==
    /\ NewEntry(p, a)
    /\ GiveUp /\ Crash
    /\ ran' = ran

\* ... or its body is started.
Started(p, a) ==
    /\ NewEntry(p, a)
    /\ stack # <<>> /\ Top.rest # <<>> /\ result' = result
    /\ ran' = Append(ran, p)
    /\ \E f \in Frames :
           /\ stack' = <<f>> \o Advanced
           /\ f.kind = "module" /\ f.by = p
           /\ f.env = IF a # NoAlias THEN p ELSE Global
           /\ \A k \in 1..Len(f.rest) :
                  f.rest[k].op \in {"func", "assign"} =>
                      f.rest[k].name \in Writes(Body(FileOf(p)))

ImportForm(p, a) == Passed(p, a) \/ Refused(p) \/ Unloadable(p, a) \/ Started(p, a)

\* How an import changes the history of imports.
Recorded(p, a) ==
    /\ session' = session /\ use' = NoUse
    /\ stack # <<>> /\ Top.rest # <<>> /\ Top.kind # "call"
    /\ \E b \in Reached :
           /\ bindings' = Append(bindings, b)
           /\ b.by = Top.by /\ b.run = Len(result) + 1
           /\ b.path = p /\ b.alias = a
           /\ b.known <=> InTable(p)'

\* An element put in front.
LEMMA FrontFacts ==
    ASSUME NEW S, NEW s \in Seq(S), NEW e \in S, NEW r, r = <<e>> \o s
    PROVE  /\ r \in Seq(S) /\ Len(r) = Len(s) + 1 /\ r[1] = e
           /\ \A k \in 1..Len(s) : r[k + 1] = s[k]
           /\ \A k \in 2..Len(r) : k - 1 \in 1..Len(s) /\ r[k] = s[k - 1]
  <1>1. r \in Seq(S) /\ Len(r) = Len(s) + 1 /\ r[1] = e
    OBVIOUS
  <1>2. \A k \in 1..Len(s) : r[k + 1] = s[k]
    OBVIOUS
  <1>3. ASSUME NEW k \in 2..Len(r) PROVE k - 1 \in 1..Len(s) /\ r[k] = s[k - 1]
    <2>1. k - 1 \in 1..Len(s) /\ (k - 1) + 1 = k
      BY <1>1
    <2> QED
      BY <1>2, <2>1
  <1> QED
    BY <1>1, <1>2, <1>3

LEMMA LoadForm ==
    ASSUME Inv, stack # <<>>, Top.rest # <<>>, NEW p \in Paths, NEW a \in STRING,
           ~IsBuiltin(p), FindModule(p) = 0, a = NoAlias => IsExternal(p),
           LoadFile(p, a)
    PROVE  Unloadable(p, a) \/ Started(p, a)
  <1>1. NewEntry(p, a)
    <2>1. ~InTable(p)
      BY FindModuleFacts DEF Inv
    <2> QED
      BY <2>1 DEF LoadFile, NewEntry
  <1> DEFINE body == Body(FileOf(p))
             env == IF a # NoAlias THEN p ELSE Global
             f == Frame("module", p, env, <<Hoist>> \o body)
  <1>2. CASE body \in {Missing, Unparsable}
    <2>1. Raise("cannot load") /\ ran' = ran
      BY <1>2 DEF LoadFile
    <2>2. GiveUp /\ Crash
      BY <2>1, RaiseForm DEF Failures
    <2> QED
      BY <1>1, <2>1, <2>2 DEF Unloadable
  <1>3. CASE body \notin {Missing, Unparsable}
    <2>1. stack' = <<f>> \o Advanced /\ ran' = Append(ran, p) /\ result' = result
      BY <1>3 DEF LoadFile
    <2>2. body \in Parsed
      <3>1. FileOf(p) \in DOMAIN session.files /\ body = session.files[FileOf(p)]
        BY <1>3 DEF Body
      <3> QED
        BY <1>3, <3>1 DEF Parsed, Bodies
    <2>3. body \in Seq(Stmts) /\ Hoist \in Stmts /\ p \in Names
      BY <2>2, StmtFacts DEF Inv, TypeOK, Stmts, Names
    <2> PICK c \in Seq(Stmts) : c = body
      BY <2>3
    <2> PICK rest : rest = <<Hoist>> \o c
      OBVIOUS
    <2>4. /\ rest \in Seq(Stmts) /\ rest[1] = Hoist
          /\ \A k \in 2..Len(rest) : k - 1 \in 1..Len(c) /\ rest[k] = c[k - 1]
      BY <2>3, FrontFacts
    <2>5. /\ f.kind = "module" /\ f.by = p /\ f.env = env /\ f.rest = rest
          /\ f = [kind |-> "module", by |-> p, env |-> env, rest |-> rest]
      BY DEF Frame
    <2>6. f \in Frames
      BY <2>3, <2>4, <2>5 DEF Frames
    <2>7. ASSUME NEW k \in 1..Len(rest), rest[k].op \in {"func", "assign"}
          PROVE  rest[k].name \in Writes(c)
      <3>1. k # 1
        BY <2>4, <2>7 DEF Hoist
      <3>2. k \in 2..Len(rest)
        BY <2>4, <3>1
      <3>3. rest[k] \in ToSet(c)
        BY <2>4, <3>2, ElementOf
      <3> QED
        BY <2>7, <3>3 DEF Writes
    <2> QED
      BY <1>1, <2>1, <2>5, <2>6, <2>7 DEF Started
  <1> QED
    BY <1>2, <1>3

LEMMA ImportForms ==
    ASSUME Inv, HandleModuleDecl
    PROVE  \E p \in Paths, a \in STRING :
               /\ Stmt.path = p /\ Stmt.alias = a
               /\ ImportForm(p, a)
  <1> DEFINE p == Stmt.path
             a == Stmt.alias
  <1>1. /\ stack # <<>> /\ Top.rest # <<>> /\ Stmt.op = "import" /\ Top.kind # "call"
        /\ ImportBuiltin(p, a) \/ ImportKnown(p) \/ ImportExternal(p, a) \/ ImportPackage(p, a)
    BY DEF HandleModuleDecl, Doing
  <1>2. p \in Paths /\ a \in STRING
    BY <1>1, RunningFrame, StmtFacts DEF Inv, TypeOK
  <1> SUFFICES Passed(p, a) \/ Refused(p) \/ Unloadable(p, a) \/ Started(p, a)
    BY <1>2 DEF ImportForm
  <1> HIDE DEF p, a
  <1>3. CASE ImportBuiltin(p, a)
    BY <1>1, <1>3 DEF ImportBuiltin, Passed, Advance
  <1>4. CASE ImportKnown(p)
    <2>1. CASE modules[FindModule(p)].loading
      <3>1. Raise("circular") /\ UNCHANGED <<modules, envs, ran>> /\ FindModule(p) # 0
        BY <1>4, <2>1 DEF ImportKnown
      <3>2. GiveUp
        BY <1>1, <3>1 DEF Raise, GiveUp, Failures
      <3> QED
        BY <2>1, <3>1, <3>2 DEF Refused
    <2>2. CASE ~modules[FindModule(p)].loading
      BY <1>1, <1>4, <2>2 DEF ImportKnown, Passed, Advance
    <2> QED
      BY <2>1, <2>2
  <1>5. CASE ImportExternal(p, a)
    <2>1. IsExternal(p) /\ ~IsBuiltin(p) /\ FindModule(p) = 0 /\ LoadFile(p, a)
      BY <1>5 DEF ImportExternal, IsExternal
    <2> QED
      BY <1>1, <1>2, <2>1, LoadForm
  <1>6. CASE ImportPackage(p, a)
    <2>1. CASE PackageCheck(p, a) = "ok"
      <3>1. ~IsBuiltin(p) /\ FindModule(p) = 0 /\ LoadFile(p, a)
        BY <1>6, <2>1 DEF ImportPackage
      <3>2. a # NoAlias
        BY <2>1 DEF PackageCheck
      <3> QED
        BY <1>1, <1>2, <3>1, <3>2, LoadForm
    <2>2. CASE PackageCheck(p, a) # "ok"
      <3>1. Raise(PackageCheck(p, a)) /\ UNCHANGED <<modules, envs, ran>>
        BY <1>6, <2>2 DEF ImportPackage
      <3>2. PackageCheck(p, a) \in Failures \ {"circular"}
        <4>1. \/ a = NoAlias
              \/ a # NoAlias /\ ~Project.readable
              \/ a # NoAlias /\ Project.readable /\ Owners(p) = {}
              \/ a # NoAlias /\ Project.readable /\ Owners(p) # {}
          OBVIOUS
        <4> QED
          BY <2>2, <4>1 DEF PackageCheck, Failures
      <3>3. PICK why \in Failures \ {"circular"} : why = PackageCheck(p, a)
        BY <3>2
      <3>4. GiveUp /\ Crash
        BY <1>1, <3>1, <3>3, RaiseForm
      <3> QED
        BY <3>1, <3>4 DEF Refused
    <2> QED
      BY <2>1, <2>2
  <1> QED
    BY <1>1, <1>3, <1>4, <1>5, <1>6
\* The table after an import: as it was, or with one entry more in front.
FrontEntry(p, a) ==
    /\ Len(modules') = Len(modules) + 1
    /\ modules'[1].path = p /\ modules'[1].alias = a
    /\ \/ IsBuiltin(p) /\ ~modules'[1].ns /\ ~modules'[1].loading
       \/ /\ ~IsBuiltin(p) /\ ~InTable(p) /\ modules'[1].loading
          /\ modules'[1].ns <=> a # NoAlias
          /\ a = NoAlias => IsExternal(p)
    /\ \A k \in 1..Len(modules) : k + 1 \in 1..Len(modules') /\ modules'[k + 1] = modules[k]
    /\ \A k \in 2..Len(modules') : k - 1 \in 1..Len(modules) /\ modules'[k] = modules[k - 1]

LEMMA TableAfter ==
    ASSUME Inv, NEW p \in Paths, NEW a \in STRING, ImportForm(p, a)
    PROVE  /\ modules' \in Seq(Entries)
           /\ modules' = modules \/ FrontEntry(p, a)
           /\ NewEntry(p, a) => FrontEntry(p, a)
  <1>1. modules \in Seq(Entries) /\ Len(modules) \in Nat
    BY DEF Inv, TypeOK
  <1>2. ASSUME NEW e \in Entries, modules' = <<e>> \o modules
        PROVE  /\ modules' \in Seq(Entries)
               /\ Len(modules') = Len(modules) + 1 /\ modules'[1] = e
               /\ \A k \in 1..Len(modules) :
                      k + 1 \in 1..Len(modules') /\ modules'[k + 1] = modules[k]
               /\ \A k \in 2..Len(modules') :
                      k - 1 \in 1..Len(modules) /\ modules'[k] = modules[k - 1]
    <2>1. PICK r : r = modules'
      OBVIOUS
    <2>2. /\ r \in Seq(Entries) /\ Len(r) = Len(modules) + 1 /\ r[1] = e
          /\ \A k \in 1..Len(modules) : r[k + 1] = modules[k]
          /\ \A k \in 2..Len(r) : k - 1 \in 1..Len(modules) /\ r[k] = modules[k - 1]
      BY <1>1, <1>2, <2>1, FrontFacts
    <2>3. \A k \in 1..Len(modules) : k + 1 \in 1..Len(r)
      BY <1>1, <2>2
    <2> QED
      BY <2>1, <2>2, <2>3
  <1>3. CASE NewEntry(p, a)
    <2> DEFINE e == [path |-> p, alias |-> a, ns |-> a # NoAlias, loading |-> TRUE]
    <2>1. /\ e \in Entries /\ e.path = p /\ e.alias = a
          /\ (e.ns <=> a # NoAlias) /\ e.loading
      BY DEF Entries
    <2>2. modules' = <<e>> \o modules
      BY <1>3 DEF NewEntry
    <2> HIDE DEF e
    <2> QED
      BY <1>2, <1>3, <2>1, <2>2 DEF NewEntry, FrontEntry
  <1>4. CASE modules' = modules /\ ~NewEntry(p, a)
    BY <1>1, <1>4
  <1>5. CASE IsBuiltin(p) /\ Passed(p, a) /\ modules' # modules
    <2> DEFINE e == [path |-> p, alias |-> a, ns |-> FALSE, loading |-> FALSE]
    <2>1. e \in Entries /\ e.path = p /\ e.alias = a /\ ~e.ns /\ ~e.loading
      BY DEF Entries
    <2>2. modules' = <<e>> \o modules
      BY <1>5 DEF Passed
    <2> HIDE DEF e
    <2> QED
      BY <1>2, <1>5, <2>1, <2>2 DEF NewEntry, FrontEntry
  <1> QED
    BY <1>3, <1>4, <1>5 DEF ImportForm, Passed, Refused, Unloadable, Started

\* An import statement takes one of the forms, and is recorded.
LEMMA ImportStep ==
    ASSUME Inv, HandleModuleDecl
    PROVE  \E p \in Paths, a \in STRING :
               Stmt.path = p /\ ImportForm(p, a) /\ Recorded(p, a)
  <1>1. PICK p \in Paths, a \in STRING :
          Stmt.path = p /\ Stmt.alias = a /\ ImportForm(p, a)
    BY ImportForms
  <1>2. modules' \in Seq(Entries)
    BY <1>1, TableAfter
  <1>3. /\ stack # <<>> /\ Top.rest # <<>> /\ Top.kind # "call"
        /\ session' = session /\ use' = NoUse
    BY DEF HandleModuleDecl, Doing
  <1> DEFINE known == \E m \in ToSet(modules') : m.path = p
             b == [by |-> Top.by, run |-> Len(result) + 1, path |-> p, alias |-> a,
                   known |-> known]
  <1>4. known <=> InTable(p)'
    BY <1>2, ElementOf DEF InTable
  <1>5. known \in BOOLEAN
    OBVIOUS
  <1>6. bindings' = Append(bindings, b)
    BY <1>1 DEF HandleModuleDecl
  <1>7. Top.by \in Names /\ Len(result) + 1 \in Nat \ {0}
    BY <1>3, RunningFrame DEF Inv, TypeOK
  <1> HIDE DEF known
  <1>8. /\ b \in Reached
        /\ b.by = Top.by /\ b.run = Len(result) + 1
        /\ b.path = p /\ b.alias = a
    BY <1>5, <1>7 DEF Reached
  <1>9. b.known = known
    OBVIOUS
  <1> HIDE DEF b
  <1>10. Recorded(p, a)
    BY <1>3, <1>4, <1>6, <1>8, <1>9 DEF Recorded
  <1> QED
    BY <1>1, <1>10

\* Everything but the bindings: the statement is done, the program is given
\* up, or a body is pushed.
LEMMA ImportKeeps ==
    ASSUME Inv, NEW p \in Paths, NEW a \in STRING, ImportForm(p, a), Recorded(p, a)
    PROVE  Keeps
  <1>1. TypeOK /\ TableSound /\ session' = session
    BY DEF Inv, Recorded
  <1>2. modules' \in Seq(Entries) /\ TableGrows
    <2>1. modules' \in Seq(Entries) /\ (modules' = modules \/ FrontEntry(p, a))
      BY TableAfter
    <2> QED
      BY <2>1 DEF TableGrows, FrontEntry
  <1>3. /\ Global \in DOMAIN envs' /\ DOMAIN envs' \subseteq Paths \cup {Global}
        /\ DOMAIN envs \subseteq DOMAIN envs'
    <2>1. envs' = envs \/ envs' = With(envs, p, <<>>)
      BY DEF ImportForm, Passed, Refused, Unloadable, Started, NewEntry
    <2> QED
      BY <1>1, <2>1 DEF With, TypeOK
  <1>4. bindings' \in Seq(Reached)
    BY <1>1 DEF Recorded, TypeOK
  <1>5. ran' \in Seq(Paths)
    <2>1. ran' = ran \/ ran' = Append(ran, p)
      BY DEF ImportForm, Passed, Refused, Unloadable, Started
    <2>2. ran \in Seq(Paths)
      BY <1>1 DEF TypeOK
    <2>3. Append(ran, p) \in Seq(Paths)
      BY <2>2
    <2> QED
      BY <2>1, <2>2, <2>3
  <1>6. stack' \in Seq(Frames) /\ result' \in Seq(Failures \cup {"ok"})
    <2>1. CASE Started(p, a)
      BY <1>1, <2>1, PushFacts DEF Started, TypeOK
    <2>2. CASE Advance \/ GiveUp
      BY <1>1, <2>2, FormTypes, SessionFacts
    <2> QED
      BY <2>1, <2>2 DEF ImportForm, Passed, Refused, Unloadable
  <1>7. TypeOK'
    BY <1>1, <1>2, <1>3, <1>4, <1>5, <1>6, SessionFacts DEF TypeOK
  <1> QED
    BY <1>1, <1>2, <1>3, <1>7 DEF Keeps
LEMMA ImportStack ==
    ASSUME Inv, NEW p \in Paths, NEW a \in STRING, ImportForm(p, a), Recorded(p, a)
    PROVE  StackSound'
  <1>1. Keeps /\ TypeOK /\ StackSound /\ session' = session
    BY ImportKeeps DEF Keeps, Inv
  <1>2. CASE Advance
    BY <1>1, <1>2, StackAdvance
  <1>3. CASE GiveUp
    BY <1>1, <1>3, StackGiveUp
  <1>4. CASE Started(p, a)
    <2>1. PICK f \in Frames :
            /\ stack' = <<f>> \o Advanced
            /\ f.kind = "module" /\ f.by = p
            /\ f.env = IF a # NoAlias THEN p ELSE Global
            /\ \A k \in 1..Len(f.rest) :
                   f.rest[k].op \in {"func", "assign"} =>
                       f.rest[k].name \in Writes(Body(FileOf(p)))
      BY <1>4 DEF Started
    <2>2. /\ stack # <<>> /\ Top.rest # <<>> /\ result' = result /\ NewEntry(p, a)
          /\ FrontEntry(p, a)
      BY <1>4, TableAfter DEF Started
    <2>3. p # Global /\ Global \in DOMAIN envs'
      BY <1>1, NameFacts DEF TypeOK, Keeps
    <2>4. f.env \in DOMAIN envs'
      BY <2>1, <2>2, <2>3 DEF NewEntry, With
    <2>5. InTable(p)' /\ ~IsBuiltin(p)'
      <3>1. 1 \in 1..Len(modules') /\ modules'[1].path = p
        BY <1>1, <2>2 DEF FrontEntry, TypeOK
      <3> QED
        BY <2>2, <3>1 DEF InTable, NewEntry, IsBuiltin, Builtins
    <2>6. ASSUME f.env = Global, NEW x, x \in Writes(Body(FileOf(p)))
          PROVE  MayBeGlobal(x)'
      <3>1. a = NoAlias
        BY <2>1, <2>3, <2>6
      <3>2. IsExternal(p) /\ ~IsBuiltin(p)
        BY <2>2, <3>1 DEF NewEntry
      <3>3. PICK m : m = modules'[1]
        OBVIOUS
      <3>4. m.path = p /\ m.alias = NoAlias /\ 1 \in 1..Len(modules')
        BY <1>1, <2>2, <3>1, <3>3 DEF FrontEntry, TypeOK
      <3>5. m \in ToSet(modules')
        BY <1>1, <3>3, <3>4, ElementOf DEF Keeps, TypeOK
      <3>6. m \in Flat'
        BY <3>2, <3>4, <3>5 DEF Flat, IsBuiltin, Builtins
      <3>7. Body(FileOf(m.path))' = Body(FileOf(p))
        BY <1>1, <3>2, <3>4 DEF FileOf, Body, IsExternal, IsBuiltin, Builtins
      <3> QED
        BY <2>6, <3>6, <3>7 DEF MayBeGlobal, Writes
    <2>7. FrameSound(f)'
      BY <2>1, <2>3, <2>4, <2>5, <2>6 DEF FrameSound
    <2> QED
      BY <1>1, <2>1, <2>2, <2>7, StackPush
  <1> QED
    BY <1>2, <1>3, <1>4 DEF ImportForm, Passed, Refused, Unloadable

LEMMA ImportTable ==
    ASSUME Inv, NEW p \in Paths, NEW a \in STRING, ImportForm(p, a), Recorded(p, a)
    PROVE  TableSound' /\ RanSound'
  <1>1. Keeps /\ TypeOK
    BY ImportKeeps DEF Keeps
  <1>2. /\ \A q : IsBuiltin(q)' <=> IsBuiltin(q)
        /\ \A q : IsExternal(q)' <=> IsExternal(q)
    BY DEF IsBuiltin, IsExternal, Builtins
  <1>3. modules' = modules \/ FrontEntry(p, a)
    BY TableAfter
  <1>4. ASSUME NEW j \in 1..Len(modules'), NEW k \in 1..Len(modules'),
               modules'[j].path = modules'[k].path, ~IsBuiltin(modules'[k].path)
        PROVE  j = k
    <2>1. CASE modules' = modules
      BY <1>4, <2>1 DEF Inv, TableSound
    <2>2. CASE FrontEntry(p, a)
      <3>1. CASE j # 1 /\ k # 1
        <4>1. j \in 2..Len(modules') /\ k \in 2..Len(modules')
          BY <3>1
        <4>2. /\ j - 1 \in 1..Len(modules) /\ modules'[j] = modules[j - 1]
              /\ k - 1 \in 1..Len(modules) /\ modules'[k] = modules[k - 1]
          BY <2>2, <4>1 DEF FrontEntry
        <4>3. j - 1 = k - 1
          BY <1>4, <4>2 DEF Inv, TableSound
        <4> QED
          BY <4>3
      <3>2. CASE j = 1 /\ k # 1
        <4>1. k \in 2..Len(modules') /\ modules'[j].path = p
          BY <2>2, <3>2 DEF FrontEntry
        <4>2. k - 1 \in 1..Len(modules) /\ modules[k - 1].path = p
          BY <1>4, <2>2, <4>1 DEF FrontEntry
        <4>3. InTable(p) /\ ~IsBuiltin(p)
          BY <1>4, <4>1, <4>2 DEF InTable
        <4> QED
          BY <2>2, <4>3 DEF FrontEntry
      <3>3. CASE j # 1 /\ k = 1
        <4>1. j \in 2..Len(modules') /\ modules'[k].path = p
          BY <2>2, <3>3 DEF FrontEntry
        <4>2. j - 1 \in 1..Len(modules) /\ modules[j - 1].path = p
          BY <1>4, <2>2, <4>1 DEF FrontEntry
        <4>3. InTable(p) /\ ~IsBuiltin(p)
          BY <1>4, <4>1, <4>2 DEF InTable
        <4> QED
          BY <2>2, <4>3 DEF FrontEntry
      <3> QED
        BY <3>1, <3>2, <3>3
    <2> QED
      BY <1>3, <2>1, <2>2
  <1>5. ASSUME NEW k \in 1..Len(modules')
        PROVE  LET m == modules'[k]
               IN  /\ m.ns <=> ~IsBuiltin(m.path) /\ m.alias # NoAlias
                   /\ m.ns => m.path \in DOMAIN envs'
                   /\ m.alias = NoAlias /\ ~IsBuiltin(m.path) => IsExternal(m.path)
    <2>1. PICK m : m = modules'[k]
      OBVIOUS
    <2>2. CASE \E l \in 1..Len(modules) : m = modules[l]
      BY <1>1, <2>1, <2>2 DEF Inv, TableSound, Keeps
    <2>3. CASE k = 1 /\ FrontEntry(p, a)
      <3>1. /\ m.path = p /\ m.alias = a
            /\ \/ IsBuiltin(p) /\ ~m.ns
               \/ ~IsBuiltin(p) /\ (m.ns <=> a # NoAlias) /\ (a = NoAlias => IsExternal(p))
        BY <2>1, <2>3 DEF FrontEntry
      <3>2. m.ns => p \in DOMAIN envs'
        <4> SUFFICES ASSUME m.ns PROVE p \in DOMAIN envs'
          OBVIOUS
        <4>1. ~IsBuiltin(p) /\ a # NoAlias /\ modules' # modules
          <5>1. Len(modules') # Len(modules)
            BY <1>1, <2>3 DEF FrontEntry, TypeOK
          <5> QED
            BY <3>1, <5>1
        <4>2. NewEntry(p, a)
          BY <4>1 DEF ImportForm, Passed, Refused, Unloadable, Started
        <4> QED
          BY <4>1, <4>2 DEF NewEntry, With
      <3> QED
        BY <2>1, <3>1, <3>2
    <2>4. \/ \E l \in 1..Len(modules) : m = modules[l]
          \/ k = 1 /\ FrontEntry(p, a)
      <3>1. CASE modules' = modules
        BY <2>1, <3>1
      <3>2. CASE FrontEntry(p, a) /\ k # 1
        <4>1. k \in 2..Len(modules')
          BY <3>2
        <4> QED
          BY <2>1, <3>2, <4>1 DEF FrontEntry
      <3> QED
        BY <1>3, <3>1, <3>2
    <2> QED
      BY <2>2, <2>3, <2>4
  <1>6. TableSound'
    BY <1>2, <1>4, <1>5 DEF TableSound
  <1>7. RanSound'
    <2>1. \A q : InTable(q) => InTable(q)'
      BY <1>1, GrowsKeeps DEF Keeps
    <2>2. CASE ran' = ran
      BY <2>1, <2>2 DEF Inv, RanSound
    <2>3. CASE Started(p, a)
      <3>1. ran' = Append(ran, p) /\ ~InTable(p) /\ ran \in Seq(Paths)
        BY <1>1, <2>3 DEF Started, NewEntry, TypeOK
      <3>2. InTable(p)'
        <4>1. FrontEntry(p, a)
          BY <2>3, TableAfter DEF Started
        <4>2. 1 \in 1..Len(modules') /\ modules'[1].path = p
          BY <1>1, <4>1 DEF FrontEntry, TypeOK
        <4> QED
          BY <4>2 DEF InTable
      <3>3. /\ Len(ran') = Len(ran) + 1 /\ ran'[Len(ran) + 1] = p
            /\ \A i \in 1..Len(ran) : ran'[i] = ran[i]
            /\ DOMAIN ran' = 1..(Len(ran) + 1) /\ DOMAIN ran = 1..Len(ran)
            /\ Len(ran) \in Nat
        BY <3>1
      <3>4. \A i \in 1..Len(ran) : InTable(ran[i]) /\ ran[i] # p
        BY <3>1 DEF Inv, RanSound
      <3>5. \A i, j \in 1..Len(ran) : ran[i] = ran[j] => i = j
        BY <3>3 DEF Inv, RanSound, IsInjective
      <3>6. IsInjective(ran')
        BY <3>3, <3>4, <3>5 DEF IsInjective
      <3>7. ASSUME NEW i \in 1..Len(ran') PROVE InTable(ran[i])'
        <4>1. PICK q : q = ran'[i]
          OBVIOUS
        <4>2. q = p \/ InTable(q)
          BY <3>3, <3>4, <4>1
        <4> QED
          BY <2>1, <3>2, <4>1, <4>2
      <3> QED
        BY <3>6, <3>7 DEF RanSound
    <2> QED
      BY <2>2, <2>3 DEF ImportForm, Passed, Refused, Unloadable
  <1> QED
    BY <1>6, <1>7
\* An entry of the new table is an old one or the one in front.
LEMMA EntryAfter ==
    ASSUME Inv, NEW p \in Paths, NEW a \in STRING, ImportForm(p, a),
           NEW k \in 1..Len(modules')
    PROVE  \/ \E l \in 1..Len(modules) : modules'[k] = modules[l]
           \/ k = 1 /\ FrontEntry(p, a)
  <1>1. modules' = modules \/ FrontEntry(p, a)
    BY TableAfter
  <1>2. CASE modules' = modules
    BY <1>2
  <1>3. CASE FrontEntry(p, a) /\ k # 1
    <2>1. k \in 2..Len(modules')
      BY <1>3
    <2> QED
      BY <1>3, <2>1 DEF FrontEntry
  <1> QED
    BY <1>1, <1>2, <1>3

\* The imports recorded after an import.
LEMMA BindingsAfter ==
    ASSUME TypeOK, NEW p \in Paths, NEW a \in STRING, Recorded(p, a)
    PROVE  /\ Len(bindings) \in Nat /\ Len(bindings') = Len(bindings) + 1
           /\ \A j \in 1..Len(bindings) :
                  j \in 1..Len(bindings') /\ bindings'[j] = bindings[j]
           /\ Len(bindings) + 1 \in 1..Len(bindings')
           /\ LET b == bindings'[Len(bindings) + 1]
              IN  /\ b.by = Top.by /\ b.run = Len(result) + 1
                  /\ b.path = p /\ b.alias = a
                  /\ b.known <=> InTable(p)'
           /\ \A j \in 1..Len(bindings') : j \in 1..Len(bindings) \/ j = Len(bindings) + 1
  <1>1. PICK b \in Reached :
          /\ bindings' = Append(bindings, b)
          /\ b.by = Top.by /\ b.run = Len(result) + 1
          /\ b.path = p /\ b.alias = a
          /\ b.known <=> InTable(p)'
    BY DEF Recorded
  <1>2. bindings \in Seq(Reached) /\ Len(bindings) \in Nat
    BY DEF TypeOK
  <1>3. /\ Len(bindings') = Len(bindings) + 1
        /\ bindings'[Len(bindings) + 1] = b
        /\ \A j \in 1..Len(bindings) :
               j \in 1..Len(bindings') /\ bindings'[j] = bindings[j]
    BY <1>1, <1>2
  <1> QED
    BY <1>1, <1>2, <1>3

LEMMA ImportImports ==
    ASSUME Inv, NEW p \in Paths, NEW a \in STRING, ImportForm(p, a), Recorded(p, a)
    PROVE  ImportsSound'
  <1>1. Keeps /\ TypeOK /\ session' = session
    BY ImportKeeps DEF Keeps
  <1>2. /\ \A q : InTable(q) => InTable(q)'
        /\ \A q : IsBuiltin(q)' <=> IsBuiltin(q)
    BY <1>1, GrowsKeeps DEF Keeps, IsBuiltin, Builtins
  <1>3. stack # <<>> /\ Top.kind # "call" /\ Top.rest # <<>> /\ Top = stack[1]
        /\ Len(stack) \in Nat \ {0} /\ Len(result) \in Nat
    BY <1>1, TopFacts DEF Recorded, TypeOK
  <1>4. \/ InTable(Top.by)
        \/ Top.by = <<"main", Len(result) + 1>>
    BY <1>1, <1>3, TopFacts DEF Inv, StackSound, FrameSound, Frames
  <1>5. CASE GiveUp
    <2>1. stack' = <<>> /\ Len(result') = Len(result) + 1
      BY <1>1, <1>5 DEF GiveUp, TypeOK
    <2>2. ASSUME NEW j \in 1..Len(bindings') PROVE ByWhom(bindings[j].by)'
      <3>1. PICK q : q = bindings'[j].by
        OBVIOUS
      <3>2. InTable(q) \/ \E n \in 1..(Len(result) + 1) : q = <<"main", n>>
        <4>1. CASE j \in 1..Len(bindings)
          <5>1. q = bindings[j].by
            BY <1>1, <3>1, <4>1, BindingsAfter
          <5>2. ByWhom(q) \/ q = <<"main", Len(result) + 1>>
            BY <4>1, <5>1 DEF Inv, ImportsSound
          <5> QED
            BY <1>3, <5>2 DEF ByWhom
        <4>2. CASE j = Len(bindings) + 1
          BY <1>1, <1>3, <1>4, <3>1, <4>2, BindingsAfter
        <4> QED
          BY <1>1, <4>1, <4>2, BindingsAfter
      <3> QED
        BY <1>2, <2>1, <3>1, <3>2 DEF ByWhom
    <2> QED
      BY <2>1, <2>2 DEF ImportsSound
  <1>6. ASSUME stack' # <<>>, result' = result
        PROVE  \A j \in 1..Len(bindings') :
                   \/ ByWhom(bindings[j].by)'
                   \/ bindings'[j].by = <<"main", Len(result') + 1>>
    <2> SUFFICES ASSUME NEW j \in 1..Len(bindings')
                 PROVE  \/ ByWhom(bindings[j].by)'
                        \/ bindings'[j].by = <<"main", Len(result') + 1>>
      OBVIOUS
    <2>1. PICK q : q = bindings'[j].by
      OBVIOUS
    <2>2. ByWhom(q) \/ q = <<"main", Len(result) + 1>>
      <3>1. CASE j \in 1..Len(bindings)
        <4>1. q = bindings[j].by
          BY <1>1, <2>1, <3>1, BindingsAfter
        <4> QED
          BY <3>1, <4>1 DEF Inv, ImportsSound
      <3>2. CASE j = Len(bindings) + 1
        BY <1>1, <1>4, <2>1, <3>2, BindingsAfter DEF ByWhom
      <3> QED
        BY <1>1, <3>1, <3>2, BindingsAfter
    <2> QED
      BY <1>2, <1>6, <2>1, <2>2 DEF ByWhom
  <1>7. CASE Passed(p, a)
    <2>1. /\ Len(stack') = Len(stack) /\ result' = result /\ stack' # <<>>
          /\ \A h \in 1..Len(stack) : /\ stack'[h].kind = stack[h].kind
                                      /\ stack'[h].by = stack[h].by
      <3>1. Len(stack') = Len(stack) /\ stack' = Advanced /\ result' = result
        BY <1>1, <1>7, AdvancedFacts DEF Passed, Advance
      <3>2. \A h \in 1..Len(stack) : /\ stack'[h].kind = stack[h].kind
                                     /\ stack'[h].by = stack[h].by
        BY <1>1, <1>3, <1>7, <3>1, AdvancedFacts DEF Passed, Advance
      <3>3. stack' # <<>>
        BY <1>3, <3>1
      <3> QED
        BY <3>1, <3>2, <3>3
    <2>2. ASSUME NEW k \in 1..Len(modules'), modules'[k].loading
          PROVE  \E l \in 1..Len(modules) : modules'[k] = modules[l]
      <3>1. CASE modules' = modules
        BY <3>1
      <3>2. CASE modules' # modules
        <4>1. IsBuiltin(p)
          BY <1>7, <3>2 DEF Passed
        <4> QED
          BY <2>2, <4>1, EntryAfter DEF FrontEntry
      <3> QED
        BY <3>1, <3>2
    <2>3. ASSUME NEW i \in 1..Len(stack'), NEW j \in 1..Len(bindings'),
                 stack'[i].kind # "call", bindings'[j].by = stack'[i].by,
                 ~IsBuiltin(bindings'[j].path)
          PROVE  Settled(bindings[j].path, i)'
      <3>1. PICK q : q = bindings'[j].path
        OBVIOUS
      <3>2. Settled(q, i)
        <4>1. CASE j \in 1..Len(bindings)
          BY <1>1, <1>2, <2>1, <2>3, <3>1, <4>1, BindingsAfter DEF Inv, ImportsSound
        <4>2. CASE j = Len(bindings) + 1
          <5>1. q = p /\ ~IsBuiltin(p)
            BY <1>1, <2>3, <3>1, <4>2, BindingsAfter
          <5>2. FindModule(p) # 0 /\ ~modules[FindModule(p)].loading
            BY <1>7, <5>1 DEF Passed
          <5>3. /\ InTable(p) /\ FindModule(p) \in 1..Len(modules)
                /\ modules[FindModule(p)].path = p
            BY <1>1, <5>2, FindModuleFacts
          <5>4. \A k \in 1..Len(modules) : modules[k].path = p => k = FindModule(p)
            BY <5>1, <5>3 DEF Inv, TableSound
          <5> QED
            BY <5>1, <5>2, <5>3, <5>4 DEF Settled
        <4> QED
          BY <1>1, <4>1, <4>2, BindingsAfter
      <3>3. \A k \in 1..Len(modules') :
              modules'[k].path = q /\ modules'[k].loading =>
                \E h \in 1..(i - 1) : stack'[h].kind = "module" /\ stack'[h].by = q
        <4> SUFFICES ASSUME NEW k \in 1..Len(modules'),
                            modules'[k].path = q, modules'[k].loading
                     PROVE  \E h \in 1..(i - 1) : stack'[h].kind = "module" /\ stack'[h].by = q
          OBVIOUS
        <4>1. PICK l \in 1..Len(modules) : modules'[k] = modules[l]
          BY <2>2
        <4>2. PICK h \in 1..(i - 1) : stack[h].kind = "module" /\ stack[h].by = q
          BY <3>2, <4>1 DEF Settled
        <4>3. h \in 1..Len(stack)
          BY <1>3, <2>1, <4>2
        <4> QED
          BY <2>1, <4>2, <4>3
      <3> QED
        BY <1>2, <3>1, <3>2, <3>3 DEF Settled
    <2> QED
      BY <1>2, <1>6, <2>1, <2>3 DEF ImportsSound
  <1>8. CASE Started(p, a)
    <2>1. PICK f \in Frames :
            stack' = <<f>> \o Advanced /\ f.kind = "module" /\ f.by = p
      BY <1>8 DEF Started
    <2>2. /\ Len(stack') = Len(stack) + 1 /\ stack'[1] = f /\ result' = result
          /\ stack' # <<>>
          /\ \A h \in 1..Len(stack) : /\ stack'[h + 1].kind = stack[h].kind
                                      /\ stack'[h + 1].by = stack[h].by
      <3>1. /\ Len(stack') = Len(stack) + 1 /\ stack'[1] = f
            /\ \A h \in 1..Len(stack) : stack'[h + 1] = Advanced[h]
        BY <1>1, <1>3, <2>1, PushFacts
      <3>2. \A h \in 1..Len(stack) : /\ stack'[h + 1].kind = stack[h].kind
                                     /\ stack'[h + 1].by = stack[h].by
        BY <1>1, <1>3, <1>8, <3>1, AdvancedFacts DEF Started
      <3>3. stack' # <<>>
        BY <1>3, <3>1
      <3> QED
        BY <1>8, <3>1, <3>2, <3>3 DEF Started
    <2>3. FrontEntry(p, a) /\ ~InTable(p) /\ ~IsBuiltin(p)
      BY <1>8, TableAfter DEF Started, NewEntry
    <2>4. InTable(p)'
      <3>1. 1 \in 1..Len(modules') /\ modules'[1].path = p
        BY <1>1, <2>3 DEF FrontEntry, TypeOK
      <3> QED
        BY <3>1 DEF InTable
    <2>5. \A n \in 1..(Len(result) + 1) : <<"main", n>> # p
      <3>1. Len(result) + 1 <= Len(session.entered) /\ Len(session.entered) \in Nat
        BY <1>1, <1>3, StmtFacts DEF Inv, StackSound, TypeOK
      <3> QED
        BY <1>1, <1>3, <3>1, NameFacts DEF TypeOK
    <2>6. \A j \in 1..Len(bindings') : bindings'[j].by # p
      <3> SUFFICES ASSUME NEW j \in 1..Len(bindings'), bindings'[j].by = p PROVE FALSE
        OBVIOUS
      <3>1. CASE j \in 1..Len(bindings)
        <4>1. bindings[j].by = p
          BY <1>1, <3>1, BindingsAfter
        <4>2. ByWhom(p) \/ p = <<"main", Len(result) + 1>>
          BY <3>1, <4>1 DEF Inv, ImportsSound
        <4> QED
          BY <1>3, <2>3, <2>5, <4>2 DEF ByWhom
      <3>2. CASE j = Len(bindings) + 1
        <4>1. Top.by = p
          BY <1>1, <3>2, BindingsAfter
        <4> QED
          BY <1>3, <1>4, <2>3, <2>5, <4>1
      <3> QED
        BY <1>1, <3>1, <3>2, BindingsAfter
    <2>7. ASSUME NEW i \in 1..Len(stack'), NEW j \in 1..Len(bindings'),
                 stack'[i].kind # "call", bindings'[j].by = stack'[i].by,
                 ~IsBuiltin(bindings'[j].path)
          PROVE  Settled(bindings[j].path, i)'
      <3>1. PICK q : q = bindings'[j].path
        OBVIOUS
      <3>2. i # 1
        BY <2>1, <2>2, <2>6, <2>7
      <3>3. i - 1 \in 1..Len(stack) /\ (i - 1) + 1 = i
        BY <1>3, <2>2, <3>2
      <3>4. stack[i - 1].kind # "call" /\ bindings'[j].by = stack[i - 1].by
        BY <2>2, <2>7, <3>3
      <3>5. q = p \/ Settled(q, i - 1)
        <4>1. CASE j \in 1..Len(bindings)
          <5>1. bindings'[j] = bindings[j]
            BY <1>1, <4>1, BindingsAfter
          <5> QED
            BY <1>2, <2>7, <3>1, <3>3, <3>4, <4>1, <5>1 DEF Inv, ImportsSound
        <4>2. CASE j = Len(bindings) + 1
          BY <1>1, <3>1, <4>2, BindingsAfter
        <4> QED
          BY <1>1, <4>1, <4>2, BindingsAfter
      <3>6. ASSUME NEW k \in 1..Len(modules'), modules'[k].path = q, modules'[k].loading
            PROVE  \E h \in 1..(i - 1) : stack'[h].kind = "module" /\ stack'[h].by = q
        <4>1. CASE q = p
          <5>1. 1 \in 1..(i - 1)
            BY <3>3
          <5> QED
            BY <2>1, <2>2, <4>1, <5>1
        <4>2. CASE q # p
          <5>1. PICK l \in 1..Len(modules) : modules'[k] = modules[l]
            BY <3>6, <4>2, EntryAfter DEF FrontEntry
          <5>2. PICK h \in 1..((i - 1) - 1) : stack[h].kind = "module" /\ stack[h].by = q
            BY <3>5, <3>6, <4>2, <5>1 DEF Settled
          <5>3. h \in 1..Len(stack) /\ h + 1 \in 1..(i - 1)
            BY <1>3, <3>3, <5>2
          <5> QED
            BY <2>2, <5>2, <5>3
        <4> QED
          BY <4>1, <4>2
      <3>7. InTable(q)'
        BY <1>2, <2>4, <3>5 DEF Settled
      <3> QED
        BY <3>1, <3>6, <3>7 DEF Settled
    <2> QED
      BY <1>2, <1>6, <2>2, <2>7 DEF ImportsSound
  <1> QED
    BY <1>5, <1>7, <1>8 DEF ImportForm, Refused, Unloadable
LEMMA ImportAlias ==
    ASSUME Inv, NEW p \in Paths, NEW a \in STRING, ImportForm(p, a), Recorded(p, a)
    PROVE  AliasSound' /\ AliasMeansImport'
  <1>1. /\ Keeps /\ TypeOK /\ TypeOK' /\ session' = session /\ use' = NoUse
        /\ AliasSound
    BY ImportKeeps DEF Keeps, Recorded, Inv
  <1>2. /\ \A q : InTable(q) => InTable(q)'
        /\ \A q : IsBuiltin(q)' <=> IsBuiltin(q)
    BY <1>1, GrowsKeeps DEF Keeps, IsBuiltin, Builtins
  <1>3. ASSUME NEW q, NEW j \in 1..Len(bindings), MadeEntry(j, q)
        PROVE  /\ MadeEntry(j, q)' /\ j \in 1..Len(bindings')
               /\ bindings'[j].alias = bindings[j].alias
    <2>1. \A i \in 1..j : i \in 1..Len(bindings) /\ bindings'[i] = bindings[i]
      BY <1>1, BindingsAfter
    <2> QED
      BY <1>1, <1>3, <2>1, BindingsAfter DEF MadeEntry
  <1>4. ASSUME NEW k \in 1..Len(modules'), ~IsBuiltin(modules'[k].path)
        PROVE  \E j \in 1..Len(bindings') :
                   MadeEntry(j, modules[k].path)' /\ bindings'[j].alias = modules'[k].alias
    <2>1. PICK q : q = modules'[k].path
      OBVIOUS
    <2>2. CASE \E l \in 1..Len(modules) : modules'[k] = modules[l]
      <3>1. PICK l \in 1..Len(modules) : modules'[k] = modules[l]
        BY <2>2
      <3>2. PICK j \in 1..Len(bindings) :
              MadeEntry(j, q) /\ bindings[j].alias = modules[l].alias
        BY <1>1, <1>4, <2>1, <3>1 DEF AliasSound
      <3> QED
        BY <1>3, <2>1, <3>1, <3>2
    <2>3. CASE k = 1 /\ FrontEntry(p, a)
      <3>1. q = p /\ modules'[k].alias = a /\ ~InTable(p)
        BY <1>4, <2>1, <2>3 DEF FrontEntry
      <3>2. InTable(p)'
        BY <2>1, <3>1 DEF InTable
      <3> PICK j : j = Len(bindings) + 1
        OBVIOUS
      <3>3. /\ j \in 1..Len(bindings') /\ bindings'[j].path = p
            /\ bindings'[j].alias = a /\ bindings'[j].known
        BY <1>1, <3>2, BindingsAfter
      <3>4. ASSUME NEW i \in 1..(j - 1) PROVE ~(bindings'[i].path = p /\ bindings'[i].known)
        <4>1. i \in 1..Len(bindings) /\ bindings'[i] = bindings[i]
          BY <1>1, BindingsAfter
        <4>2. bindings[i].known => InTable(bindings[i].path)
          BY <1>1, <4>1 DEF AliasSound
        <4> QED
          BY <3>1, <4>1, <4>2
      <3>5. MadeEntry(j, p)'
        BY <3>3, <3>4 DEF MadeEntry
      <3> QED
        BY <2>1, <3>1, <3>3, <3>5
    <2> QED
      BY <2>2, <2>3, EntryAfter
  <1>5. ASSUME NEW j \in 1..Len(bindings'), bindings'[j].known
        PROVE  InTable(bindings[j].path)'
    <2>1. PICK q : q = bindings'[j].path
      OBVIOUS
    <2>2. InTable(q)'
      <3>1. CASE j \in 1..Len(bindings)
        <4>1. bindings'[j] = bindings[j]
          BY <1>1, <3>1, BindingsAfter
        <4> QED
          BY <1>1, <1>2, <1>5, <2>1, <3>1, <4>1 DEF AliasSound
      <3>2. CASE j = Len(bindings) + 1
        BY <1>1, <1>5, <2>1, <3>2, BindingsAfter
      <3> QED
        BY <1>1, <3>1, <3>2, BindingsAfter
    <2> QED
      BY <2>1, <2>2 DEF InTable
  <1>6. AliasSound'
    BY <1>2, <1>4, <1>5 DEF AliasSound
  <1> QED
    BY <1>1, <1>6, NoUseAgrees

LEMMA ImportLoading ==
    ASSUME Inv, NEW p \in Paths, NEW a \in STRING, ImportForm(p, a), Recorded(p, a)
    PROVE  LoadingSound'
  <1>1. /\ Keeps /\ TypeOK /\ TypeOK' /\ stack # <<>> /\ Top.rest # <<>>
        /\ Len(stack) \in Nat \ {0} /\ Len(result) \in Nat
    BY ImportKeeps, TopFacts DEF Keeps, Recorded, TypeOK
  <1>2. /\ \A b : b \in ToSet(bindings) <=> \E j \in 1..Len(bindings) : bindings[j] = b
        /\ \A b : b \in ToSet(bindings') <=> \E j \in 1..Len(bindings') : bindings'[j] = b
    <2>1. bindings \in Seq(Reached) /\ bindings' \in Seq(Reached')
      BY <1>1 DEF TypeOK
    <2> QED
      BY <2>1, ElementOf
  <1>3. \A b \in ToSet(bindings) : b \in ToSet(bindings')
    BY <1>1, <1>2, BindingsAfter
  <1>4. ASSUME NEW q
        PROVE  q \in BeingLoaded <=>
                   \E h \in 1..Len(stack) : stack[h].kind = "module" /\ stack[h].by = q
    BY <1>1 DEF BeingLoaded, TypeOK
  <1>5. ASSUME NEW q, stack' \in Seq(Frames)
        PROVE  q \in BeingLoaded' <=>
                   \E h \in 1..Len(stack') : stack'[h].kind = "module" /\ stack'[h].by = q
    BY <1>5 DEF BeingLoaded
  <1>6. ASSUME result' = result, NEW q, Abandoned(q) PROVE Abandoned(q)'
    BY <1>3, <1>6 DEF Abandoned
  <1>7. CASE Passed(p, a)
    <2>1. Advance
      BY <1>7 DEF Passed
    <2>2. /\ Len(stack') = Len(stack) /\ result' = result
          /\ stack' \in Seq(Frames)
          /\ \A h \in 1..Len(stack) : /\ stack'[h].kind = stack[h].kind
                                      /\ stack'[h].by = stack[h].by
      BY <1>1, <2>1, AdvancedFacts DEF Advance
    <2>3. ASSUME NEW k \in 1..Len(modules'), modules'[k].loading
          PROVE  modules'[k].path \in BeingLoaded' \/ Abandoned(modules[k].path)'
      <3>1. PICK q : q = modules'[k].path
        OBVIOUS
      <3>2. \E l \in 1..Len(modules) : modules'[k] = modules[l]
        <4>1. CASE modules' = modules
          BY <4>1
        <4>2. CASE modules' # modules
          <5>1. IsBuiltin(p)
            BY <1>7, <4>2 DEF Passed
          <5> QED
            BY <2>3, <5>1, EntryAfter DEF FrontEntry
        <4> QED
          BY <4>1, <4>2
      <3>3. q \in BeingLoaded \/ Abandoned(q)
        BY <2>3, <3>1, <3>2 DEF Inv, LoadingSound
      <3>4. q \in BeingLoaded' \/ Abandoned(q)'
        BY <1>4, <1>5, <1>6, <2>2, <3>3
      <3> QED
        BY <3>1, <3>4 DEF Abandoned
    <2>4. ASSUME NEW i \in 1..Len(stack'), stack'[i].kind = "module"
          PROVE  \E j \in 1..Len(bindings') :
                     bindings'[j].path = stack'[i].by /\ bindings'[j].run = Len(result') + 1
      <3>1. PICK j \in 1..Len(bindings) :
              bindings[j].path = stack[i].by /\ bindings[j].run = Len(result) + 1
        BY <2>2, <2>4 DEF Inv, LoadingSound
      <3> QED
        BY <1>1, <2>2, <3>1, BindingsAfter
    <2> QED
      BY <2>3, <2>4 DEF LoadingSound
  <1>8. CASE Started(p, a)
    <2>1. PICK f \in Frames :
            stack' = <<f>> \o Advanced /\ f.kind = "module" /\ f.by = p
      BY <1>8 DEF Started
    <2>2. /\ Len(stack') = Len(stack) + 1 /\ stack'[1] = f /\ result' = result
          /\ stack' \in Seq(Frames)
          /\ \A h \in 1..Len(stack) : stack'[h + 1] = Advanced[h]
      BY <1>1, <1>8, <2>1, PushFacts DEF Started
    <2>3. \A h \in 1..Len(stack) : /\ h + 1 \in 1..Len(stack')
                                   /\ stack'[h + 1].kind = stack[h].kind
                                   /\ stack'[h + 1].by = stack[h].by
      BY <1>1, <2>2, AdvancedFacts
    <2>4. p \in BeingLoaded'
      <3>1. 1 \in 1..Len(stack')
        BY <1>1, <2>2
      <3> QED
        BY <1>5, <2>1, <2>2, <3>1
    <2>5. ASSUME NEW k \in 1..Len(modules'), modules'[k].loading
          PROVE  modules'[k].path \in BeingLoaded' \/ Abandoned(modules[k].path)'
      <3>1. PICK q : q = modules'[k].path
        OBVIOUS
      <3>2. q = p \/ q \in BeingLoaded \/ Abandoned(q)
        <4>1. q = p \/ \E l \in 1..Len(modules) : modules'[k] = modules[l]
          BY <3>1, EntryAfter DEF FrontEntry
        <4> QED
          BY <2>5, <3>1, <4>1 DEF Inv, LoadingSound
      <3>3. q \in BeingLoaded => q \in BeingLoaded'
        BY <1>4, <1>5, <2>2, <2>3
      <3>4. q \in BeingLoaded' \/ Abandoned(q)'
        BY <1>6, <2>2, <2>4, <3>2, <3>3
      <3> QED
        BY <3>1, <3>4 DEF Abandoned
    <2>6. ASSUME NEW i \in 1..Len(stack'), stack'[i].kind = "module"
          PROVE  \E j \in 1..Len(bindings') :
                     bindings'[j].path = stack'[i].by /\ bindings'[j].run = Len(result') + 1
      <3>1. CASE i = 1
        <4>1. stack'[i].by = p
          BY <2>1, <2>2, <3>1
        <4> QED
          BY <1>1, <2>2, <4>1, BindingsAfter
      <3>2. CASE i # 1
        <4>1. i - 1 \in 1..Len(stack) /\ (i - 1) + 1 = i
          BY <1>1, <2>2, <3>2
        <4>2. stack[i - 1].kind = "module" /\ stack'[i].by = stack[i - 1].by
          BY <2>3, <2>6, <4>1
        <4>3. PICK j \in 1..Len(bindings) :
                bindings[j].path = stack[i - 1].by /\ bindings[j].run = Len(result) + 1
          BY <4>1, <4>2 DEF Inv, LoadingSound
        <4> QED
          BY <1>1, <2>2, <4>2, <4>3, BindingsAfter
      <3> QED
        BY <3>1, <3>2
    <2> QED
      BY <2>5, <2>6 DEF LoadingSound
  <1>9. CASE GiveUp
    <2>1. PICK w \in Failures : result' = Append(result, w)
      BY <1>9 DEF GiveUp
    <2>2. /\ Len(result') = Len(result) + 1 /\ result'[Len(result) + 1] # "ok"
          /\ \A k \in 1..Len(result) : result'[k] = result[k]
      <3>1. w # "ok"
        BY <2>1 DEF Failures
      <3> QED
        BY <1>1, <2>1, <3>1 DEF TypeOK
    <2>3. ASSUME NEW j \in 1..Len(bindings'), bindings'[j].run <= Len(result) + 1,
                 bindings'[j].run \in 1..Len(result) => result[bindings'[j].run] # "ok"
          PROVE  Abandoned(bindings[j].path)'
      <3>1. PICK b : b = bindings'[j]
        OBVIOUS
      <3>2. b.run \in Nat \ {0}
        <4>1. b \in Reached'
          BY <1>1, <3>1 DEF TypeOK
        <4> QED
          BY <4>1 DEF Reached
      <3>3. b \in ToSet(bindings')
        BY <1>2, <3>1
      <3>4. result'[b.run] # "ok"
        <4>1. b.run \in 1..Len(result) \/ b.run = Len(result) + 1
          BY <1>1, <2>3, <3>1, <3>2
        <4> QED
          BY <2>2, <2>3, <3>1, <4>1
      <3>5. b.run <= Len(result')
        BY <2>2, <2>3, <3>1
      <3> QED
        BY <3>1, <3>3, <3>4, <3>5 DEF Abandoned
    <2>4. ASSUME NEW q, q \in BeingLoaded \/ Abandoned(q) \/ q = p PROVE Abandoned(q)'
      <3>1. \E j \in 1..Len(bindings') :
              /\ bindings'[j].path = q /\ bindings'[j].run <= Len(result) + 1
              /\ bindings'[j].run \in 1..Len(result) => result[bindings'[j].run] # "ok"
        <4>1. CASE q \in BeingLoaded
          <5>1. PICK h \in 1..Len(stack) : stack[h].kind = "module" /\ stack[h].by = q
            BY <1>4, <4>1
          <5>2. PICK j \in 1..Len(bindings) :
                  bindings[j].path = q /\ bindings[j].run = Len(result) + 1
            BY <5>1 DEF Inv, LoadingSound
          <5> QED
            BY <1>1, <5>2, BindingsAfter
        <4>2. CASE Abandoned(q)
          <5>1. PICK b \in ToSet(bindings) :
                  b.path = q /\ b.run <= Len(result) /\ result[b.run] # "ok"
            BY <4>2 DEF Abandoned
          <5>2. PICK j \in 1..Len(bindings) : bindings[j] = b
            BY <1>2
          <5>3. b.run \in Nat
            BY <1>1, <5>2, EntryFacts
          <5> QED
            BY <1>1, <5>1, <5>2, <5>3, BindingsAfter
        <4>3. CASE q = p
          BY <1>1, <4>3, BindingsAfter
        <4> QED
          BY <2>4, <4>1, <4>2, <4>3
      <3>2. PICK j \in 1..Len(bindings') :
              /\ bindings'[j].path = q /\ bindings'[j].run <= Len(result) + 1
              /\ bindings'[j].run \in 1..Len(result) => result[bindings'[j].run] # "ok"
        BY <3>1
      <3> QED
        BY <2>3, <3>2 DEF Abandoned
    <2>5. ASSUME NEW k \in 1..Len(modules'), modules'[k].loading
          PROVE  Abandoned(modules[k].path)'
      <3>1. PICK q : q = modules'[k].path
        OBVIOUS
      <3>2. q = p \/ \E l \in 1..Len(modules) : modules'[k] = modules[l]
        BY <3>1, EntryAfter DEF FrontEntry
      <3>3. q \in BeingLoaded \/ Abandoned(q) \/ q = p
        BY <2>5, <3>1, <3>2 DEF Inv, LoadingSound
      <3>4. Abandoned(q)'
        BY <2>4, <3>3
      <3> QED
        BY <3>1, <3>4 DEF Abandoned
    <2>6. stack' = <<>>
      BY <1>9 DEF GiveUp
    <2> QED
      BY <2>5, <2>6 DEF LoadingSound
  <1> QED
    BY <1>7, <1>8, <1>9 DEF ImportForm, Refused, Unloadable

LEMMA ImportScopes ==
    ASSUME Inv, NEW p \in Paths, NEW a \in STRING, ImportForm(p, a), Recorded(p, a)
    PROVE  ScopesSound'
  <1>1. Keeps /\ ScopesSound
    BY ImportKeeps DEF Inv
  <1>2. envs' = envs \/ envs' = With(envs, p, <<>>)
    BY DEF ImportForm, Passed, Refused, Unloadable, Started, NewEntry
  <1>3. ASSUME NEW e \in DOMAIN envs', NEW x \in DOMAIN envs'[e]
        PROVE  e \in DOMAIN envs /\ x \in DOMAIN envs[e] /\ envs'[e][x] = envs[e][x]
    <2>1. CASE envs' = envs
      BY <1>3, <2>1
    <2>2. CASE envs' = With(envs, p, <<>>)
      <3>1. DOMAIN envs' = DOMAIN envs \cup {p}
        BY <2>2 DEF With
      <3>2. envs'[e] = IF e = p THEN <<>> ELSE envs[e]
        BY <2>2, <3>1 DEF With
      <3>3. e # p
        BY <1>3, <3>2
      <3> QED
        BY <1>3, <3>1, <3>2, <3>3
    <2> QED
      BY <1>2, <2>1, <2>2
  <1> QED
    BY <1>1, <1>3, ScopesChange

LEMMA ImportInv ==
    ASSUME Inv, HandleModuleDecl
    PROVE  Inv'
  <1>1. PICK p \in Paths, a \in STRING : ImportForm(p, a) /\ Recorded(p, a)
    BY ImportStep
  <1>2. TypeOK'
    BY <1>1, ImportKeeps DEF Keeps
  <1>3. StackSound' /\ TableSound' /\ RanSound'
    BY <1>1, ImportStack, ImportTable
  <1>4. ImportsSound' /\ AliasSound' /\ AliasMeansImport'
    BY <1>1, ImportImports, ImportAlias
  <1>5. LoadingSound' /\ ScopesSound'
    BY <1>1, ImportLoading, ImportScopes
  <1> QED
    BY <1>2, <1>3, <1>4, <1>5 DEF Inv-----------------------------------------------------------------------------
\* Every step

LEMMA OtherInv ==
    ASSUME Inv, OtherStmt
    PROVE  Inv'
  <1>1. TypeOK' /\ StackSound' /\ TableSound' /\ RanSound'
    BY OtherTypes, OtherStack, OtherTable
  <1>2. ImportsSound' /\ AliasSound' /\ AliasMeansImport'
    BY OtherImports, OtherAlias
  <1>3. LoadingSound' /\ ScopesSound'
    BY OtherLoading, OtherScopes
  <1> QED
    BY <1>1, <1>2, <1>3 DEF Inv

LEMMA InitInv ==
    ASSUME Init
    PROVE  Inv
  <1>1. /\ session \in Sessions /\ stack = <<>> /\ modules = <<>>
        /\ structs = {} /\ result = <<>> /\ ran = <<>> /\ bindings = <<>> /\ use = NoUse
        /\ DOMAIN envs = {Global} /\ envs[Global] = <<>>
    BY DEF Init
  <1>2. TypeOK
    BY <1>1 DEF TypeOK
  <1>3. StackSound
    <2>1. Len(session.entered) \in Nat
      BY <1>1, StmtFacts
    <2> QED
      BY <1>1, <2>1 DEF StackSound
  <1>4. TableSound /\ RanSound
    BY <1>1 DEF TableSound, RanSound, IsInjective
  <1>5. ImportsSound /\ AliasSound /\ LoadingSound
    BY <1>1 DEF ImportsSound, AliasSound, LoadingSound
  <1>6. ScopesSound
    BY <1>1 DEF ScopesSound
  <1>7. AliasMeansImport
    BY <1>1 DEF AliasMeansImport, ToSet
  <1> QED
    BY <1>2, <1>3, <1>4, <1>5, <1>6, <1>7 DEF Inv

LEMMA NextInv ==
    ASSUME Inv, [Next]_vars
    PROVE  Inv'
  <1>1. CASE UNCHANGED vars
    <2>1. /\ session' = session /\ stack' = stack /\ modules' = modules /\ envs' = envs
          /\ result' = result /\ ran' = ran /\ bindings' = bindings /\ use' = use
      BY <1>1 DEF vars
    <2>2. TypeOK'
      BY <2>1, SessionFacts DEF Inv, TypeOK
    <2>3. Keeps
      BY <2>1, <2>2 DEF Inv, Keeps, TableGrows
    <2>4. StackSound'
      <3>1. ASSUME NEW i \in 1..Len(stack) PROVE FrameSound(stack[i])'
        <4>1. PICK f : f = stack[i]
          OBVIOUS
        <4>2. FrameSound(f)
          BY <4>1 DEF Inv, StackSound
        <4>3. FrameSound(f)'
          BY <2>1, <2>3, <4>2, FrameStays DEF Keeps
        <4> QED
          BY <2>1, <4>1, <4>3
      <3> QED
        BY <2>1, <3>1 DEF Inv, StackSound
    <2>5. TableSound' /\ RanSound'
      BY <2>1 DEF Inv, TableSound, RanSound, InTable, IsBuiltin, IsExternal, Builtins
    <2>6. ImportsSound'
      BY <2>1 DEF Inv, ImportsSound, ByWhom, Settled, InTable, IsBuiltin, Builtins
    <2>7. AliasSound'
      BY <2>1 DEF Inv, AliasSound, MadeEntry, InTable, IsBuiltin, Builtins
    <2>8. LoadingSound'
      BY <2>1 DEF Inv, LoadingSound, BeingLoaded, Abandoned
    <2>9. ScopesSound'
      BY <2>1, <2>3, ScopesChange DEF Inv
    <2>10. AliasMeansImport'
      BY <2>1 DEF Inv, AliasMeansImport, FirstAlias, SelectInSeq, IsBuiltin, Builtins
    <2> QED
      BY <2>2, <2>4, <2>5, <2>6, <2>7, <2>8, <2>9, <2>10 DEF Inv
  <1>2. CASE OtherStmt
    BY <1>2, OtherInv
  <1> QED
    BY <1>1, <1>2, RunInv, ImportInv, EndInv DEF Next, OtherStmt

-----------------------------------------------------------------------------
\* The theorems

\* The frames, the table, the namespaces and the imports made so far stay in
\* step.
THEOREM Invariance == Spec => []Inv
  BY InitInv, NextInv, PTL DEF Spec

\* A module's body is started at most once, and what runs after an import
\* statement finds the module loaded to its end (exec_module_file,
\* find_module).
THEOREM Imports_Finish_First == Spec => []ImportsFinishFirst
  <1>1. ASSUME Inv PROVE ImportsFinishFirst
    <2>1. TypeOK /\ IsInjective(ran)
      BY <1>1 DEF Inv, RanSound
    <2>2. ASSUME stack # <<>>, Top.kind # "call", NEW b \in ToSet(bindings),
                 b.by = Top.by, ~IsBuiltin(b.path)
          PROVE  FindModule(b.path) # 0 /\ ~modules[FindModule(b.path)].loading
      <3>1. PICK j \in 1..Len(bindings) : bindings[j] = b
        BY <2>1, <2>2, ElementOf DEF TypeOK
      <3>2. 1 \in 1..Len(stack) /\ Top = stack[1]
        BY <2>1, <2>2, TopFacts
      <3>3. Settled(b.path, 1)
        BY <1>1, <2>2, <3>1, <3>2 DEF Inv, ImportsSound
      <3>4. /\ FindModule(b.path) \in 1..Len(modules) /\ FindModule(b.path) # 0
            /\ modules[FindModule(b.path)].path = b.path
        BY <2>1, <3>3, FindModuleFacts DEF Settled
      <3> QED
        BY <3>3, <3>4 DEF Settled
    <2> QED
      BY <2>1, <2>2 DEF ImportsFinishFirst
  <1> QED
    BY <1>1, Invariance, PTL

\* The alias in m.f() names the module that the code around it imported as m,
\* if the imports agree (find_module_by_alias).
THEOREM Alias_Means_Import == Spec => []AliasMeansImport
  <1>1. Inv => AliasMeansImport
    BY DEF Inv
  <1> QED
    BY <1>1, Invariance, PTL

\* Only a module's own code binds names in its namespace, and only programs
\* and modules imported without an alias bind names in the global scope
\* (module_exec_stmt, prescan, assign_or_define).
THEOREM Namespaces_Apart == Spec => []NamespacesApart
  <1>1. Inv => NamespacesApart
    BY DEF Inv, ScopesSound, ValueSound, MayBeGlobal, NamespacesApart
  <1> QED
    BY <1>1, Invariance, PTL

\* An import is refused as circular only while the module is being loaded, or
\* after a program has given up in the middle of it (handle_module_decl).
THEOREM Cycles_Are_Real == Spec => CyclesAreReal
  <1>1. ASSUME Inv, Next, Len(result') > Len(result), Last(result') = "circular"
        PROVE  Stmt.path \in BeingLoaded \/ Abandoned(Stmt.path)
    <2>1. TypeOK /\ result \in Seq(Failures \cup {"ok"}) /\ Len(result) \in Nat
      BY <1>1 DEF Inv, TypeOK
    <2>2. result' # result
      BY <1>1, <2>1
    <2>3. ASSUME NEW w \in Failures \cup {"ok"}, result' = Append(result, w)
          PROVE  w = "circular"
      BY <1>1, <2>1, <2>3 DEF Last
    <2>4. ~Crash
      BY <2>3 DEF Crash
    <2>5. ~InterpRun
      BY <2>2 DEF InterpRun
    <2>6. ~OtherStmt
      BY <1>1, <2>2, <2>4, OtherForms DEF Advance, CallBody
    <2>7. ~EndOfBody
      <3>1. EndOfBody => result' = result \/ result' = Append(result, "ok")
        BY DEF EndOfBody
      <3> QED
        BY <2>2, <2>3, <3>1
    <2>8. HandleModuleDecl
      BY <1>1, <2>5, <2>6, <2>7 DEF Next, OtherStmt
    <2>9. PICK p \in Paths, a \in STRING : Stmt.path = p /\ ImportForm(p, a)
      BY <1>1, <2>8, ImportStep
    <2>10. FindModule(p) # 0 /\ modules[FindModule(p)].loading
      BY <2>2, <2>4, <2>9 DEF ImportForm, Passed, Advance, Refused, Unloadable, Started
    <2> QED
      BY <1>1, <2>1, <2>9, <2>10, FindModuleFacts DEF Inv, LoadingSound
  <1>2. ASSUME Inv, [Next]_vars
        PROVE  [Len(result') > Len(result) /\ Last(result') = "circular"
                  => Stmt.path \in BeingLoaded \/ Abandoned(Stmt.path)]_vars
    BY <1>1, <1>2
  <1> QED
    BY <1>2, Invariance, PTL DEF Spec, CyclesAreReal
=============================================================================
