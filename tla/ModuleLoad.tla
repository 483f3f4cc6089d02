----------------------------- MODULE ModuleLoad -----------------------------
(***************************************************************************)
(* Module loading of src/src/interpreter.c: the three ways a dotted path   *)
(* is resolved, the module table with its loading flags, the namespaces,   *)
(* and a session (one program, or what a REPL user enters) that goes on    *)
(* after an error.  Code that runs is a stack of frames, newest first;     *)
(* exec_module_file recurses, so a frame waits below the modules it loads. *)
(*                                                                         *)
(* A path is the sequence of its components.  A body is a sequence of the  *)
(* statements that touch modules and names; a function's body is one too.  *)
(***************************************************************************)
EXTENDS Naturals, SequencesExt, FiniteSetsExt

CONSTANTS
  Sessions,      \* what may be on disk and what may be entered, see Session
  MaxCallDepth   \* myon_max_call_depth()

NoAlias == "no alias"
Global  == <<"global">>

(* The statements.                                                         *)
Import(p, a)  == [op |-> "import", path |-> p, alias |-> a]
Assign(x)     == [op |-> "assign", name |-> x]
Func(f, body) == [op |-> "func", name |-> f, body |-> body]
Call(a, f)    == [op |-> "call", alias |-> a, name |-> f]
Struct(n)     == [op |-> "struct", name |-> n]
Fail          == [op |-> "fail"]
Skip          == [op |-> "skip"]
Hoist         == [op |-> "prescan"]
Missing       == <<[op |-> "missing"]>>
Unparsable    == <<[op |-> "unparsable"]>>

(* A session is [files, entered, projects]: files maps each path to a body,*)
(* Missing or Unparsable, and is Missing for the rest; entered is the       *)
(* sequence of programs; projects is what the package tree is before       *)
(* each: [readable, lock, dirs], whether a project root with a lock that   *)
(* parses is found, the set of its entries [name, module], and the names   *)
(* installed.  The file of path p in package n is files[<<n>> \o p].       *)
(* A function's body neither declares nor hoists: nested declarations are  *)
(* not modelled.                                                           *)
Bodies(s) == {s.files[f] : f \in DOMAIN s.files} \cup ToSet(s.entered)

IsPath(s, p) == /\ p \in Seq(STRING) \ {<<>>, Global}
                /\ \A n \in DOMAIN s.entered : p # <<"main", n>>
Simple(s, t) == /\ t.op \in {"import", "assign", "call", "fail"}
                /\ t.op = "import" => IsPath(s, t.path) /\ t.alias \in STRING

ASSUME SessionAssumption ==
  \A s \in Sessions :
    /\ s.entered \in Seq(ToSet(s.entered)) /\ Len(s.projects) = Len(s.entered)
    /\ \A b \in Bodies(s) \ {Missing, Unparsable} :
         /\ b \in Seq(ToSet(b))
         /\ \A t \in ToSet(b) :
              \/ Simple(s, t)
              \/ t.op = "struct"
              \/ t.op = "func" /\ t.body \in Seq(ToSet(t.body)) /\ \A u \in ToSet(t.body) : Simple(s, u)

VARIABLES
  session,   \* the session chosen
  stack,     \* the frames, newest first
  modules,   \* it->modules, newest first
  envs,      \* the global scope and each ns: the names bound and to what
  structs,   \* it->structs
  result,    \* how each program entered so far ended
  ran,       \* history: the modules whose bodies were started
  bindings,  \* history: the import statements reached, oldest first
  use        \* history: the last alias looked up, or NoUse

vars == <<session, stack, modules, envs, structs, result, ran, bindings, use>>

NoUse == [by |-> <<>>, alias |-> NoAlias, path |-> <<>>, name |-> NoAlias]

-----------------------------------------------------------------------------
(* The table and the scopes.                                               *)

Builtins == {<<"myon", "math">>, <<"myon", "time">>}
IsBuiltin(p)  == p \in Builtins
IsExternal(p) == ~IsBuiltin(p) /\ Head(p) = "external"

FindModule(p) == SelectInSeq(modules, LAMBDA m : m.path = p)
BadFindByAlias(a) == SelectInSeq(modules, LAMBDA m : m.ns)
FindByAlias(a) == SelectInSeq(modules, LAMBDA m : m.ns /\ m.alias = a)

(* A scope is the global one or a namespace, whose parent is the global    *)
(* one; the scope of a call is a child of the scope its function is from.  *)
Bound(e, x) == x \in DOMAIN envs[e]
Scope(e, x) == IF Bound(e, x) THEN e ELSE Global
Visible(e, x) == Bound(Scope(e, x), x)
Lookup(e, x) == envs[Scope(e, x)][x]
With(f, x, v) == [y \in DOMAIN f \cup {x} |-> IF y = x THEN v ELSE f[y]]
BindIn(e, x, v) == [envs EXCEPT ![e] = With(@, x, v)]

Top  == Head(stack)
Stmt == Head(Top.rest)
Doing(op) == stack # <<>> /\ Top.rest # <<>> /\ Stmt.op = op
Advanced == <<[Top EXCEPT !.rest = Tail(@)]>> \o Tail(stack)

(* What the frame on top binds a name to.  A declaration is known by how   *)
(* many statements follow it in its body.                                  *)
Number    == [t |-> "int", by |-> Top.by]
FuncAt(i) == [t |-> "func", by |-> Top.by, env |-> Top.env,
              at |-> Len(Top.rest) - i, body |-> Top.rest[i].body]

(* runtime_error: longjmp to the barrier of interp_run, which forgets the  *)
(* frames and leaves the table, the scopes and the structs as they are.    *)
Raise(why) ==
  /\ stack' = <<>>
  /\ result' = Append(result, why)

Frame(kind, by, env, body) ==
  [kind |-> kind, by |-> by, env |-> env, rest |-> body]

-----------------------------------------------------------------------------
(* handle_module_decl.                                                     *)

Project == session.projects[Len(result) + 1]

Owners(p) == {k \in Project.lock : IsPrefix(k.module, p)}
Owner(p)  == CHOOSE k \in Owners(p) : \A l \in Owners(p) : Len(l.module) <= Len(k.module)
Body(file) == IF file \in DOMAIN session.files THEN session.files[file] ELSE Missing
FileOf(p) ==
  CASE IsExternal(p) /\ Len(p) = 1 -> <<"external", "external">>
    [] IsExternal(p) /\ Len(p) # 1 -> p
    [] OTHER -> <<Owner(p).name>> \o p

(* The checks of load_package_module, in its order.                        *)
PackageCheck(p, alias) ==
  CASE alias = NoAlias -> "no alias"
    [] alias # NoAlias /\ ~Project.readable -> "no lock"
    [] alias # NoAlias /\ Project.readable /\ Owners(p) = {} -> "not locked"
    [] OTHER -> IF Owner(p).name \notin Project.dirs THEN "not installed"
                ELSE IF Body(FileOf(p)) = Missing THEN "no file" ELSE "ok"

(* exec_module_file for a new entry, which is in the table before the file *)
(* is opened: a file that cannot be read leaves it there, still loading.   *)
LoadFile(p, alias) ==
  LET ns   == alias # NoAlias
      env  == IF ns THEN p ELSE Global
      body == Body(FileOf(p))
  IN /\ modules' = <<[path |-> p, alias |-> alias, ns |-> ns, loading |-> TRUE]>> \o modules
     /\ envs' = IF ns THEN With(envs, p, <<>>) ELSE envs
     /\ IF body \in {Missing, Unparsable}
        THEN Raise("cannot load") /\ UNCHANGED ran
        ELSE /\ stack' = <<Frame("module", p, env, <<Hoist>> \o body)>> \o Advanced
             /\ ran' = Append(ran, p)
             /\ UNCHANGED result

ImportBuiltin(p, alias) ==
  /\ IsBuiltin(p)
  /\ modules' = <<[path |-> p, alias |-> alias, ns |-> FALSE, loading |-> FALSE]>> \o modules
  /\ stack' = Advanced
  /\ UNCHANGED <<envs, result, ran>>

BadImportKnown(p) ==
  /\ ~IsBuiltin(p) /\ FindModule(p) # 0
  /\ stack' = Advanced
  /\ UNCHANGED <<modules, envs, result, ran>>

ImportKnown(p) ==
  /\ ~IsBuiltin(p) /\ FindModule(p) # 0
  /\ IF modules[FindModule(p)].loading THEN Raise("circular")
     ELSE stack' = Advanced /\ UNCHANGED result
  /\ UNCHANGED <<modules, envs, ran>>

ImportExternal(p, alias) ==
  /\ IsExternal(p) /\ FindModule(p) = 0
  /\ LoadFile(p, alias)

ImportPackage(p, alias) ==
  /\ ~IsBuiltin(p) /\ ~IsExternal(p) /\ FindModule(p) = 0
  /\ IF PackageCheck(p, alias) = "ok" THEN LoadFile(p, alias)
     ELSE Raise(PackageCheck(p, alias)) /\ UNCHANGED <<modules, envs, ran>>

HandleModuleDecl ==
  /\ Doing("import") /\ Top.kind # "call"
  /\ LET p == Stmt.path a == Stmt.alias
     IN /\ ImportBuiltin(p, a) \/ ImportKnown(p) \/ ImportExternal(p, a) \/ ImportPackage(p, a)
        /\ bindings' = Append(bindings,
             [by |-> Top.by, run |-> Len(result) + 1, path |-> p, alias |-> a,
              known |-> \E m \in ToSet(modules') : m.path = p])
  /\ use' = NoUse
  /\ UNCHANGED <<session, structs>>

-----------------------------------------------------------------------------
(* The bodies.                                                             *)

Decls(op) == {i \in 2..Len(Top.rest) : Top.rest[i].op = op}
NameAt(i) == Top.rest[i].name
Clashes   == {i \in Decls("struct") :
                \/ NameAt(i) \in structs
                \/ \E j \in Decls("struct") : j < i /\ NameAt(j) = NameAt(i)}
Hoisted   == {NameAt(i) : i \in Decls("func")}
DeclOf(f) == Min({i \in Decls("func") : NameAt(i) = f})

(* prescan: structs are registered one by one up to a name that is taken,  *)
(* then the first function of each name that its scope does not bind yet   *)
(* is hoisted.                                                             *)
Prescan ==
  /\ Doing("prescan")
  /\ structs' = structs \cup {NameAt(i) : i \in {j \in Decls("struct") : \A k \in Clashes : j < k}}
  /\ IF Clashes # {} THEN Raise("struct redefined") /\ UNCHANGED envs
     ELSE /\ envs' = [envs EXCEPT ![Top.env] =
                         [f \in DOMAIN @ \cup Hoisted |->
                            IF f \in DOMAIN @ THEN @[f] ELSE FuncAt(DeclOf(f))]]
          /\ stack' = Advanced
          /\ UNCHANGED result
  /\ use' = NoUse
  /\ UNCHANGED <<session, modules, ran, bindings>>

(* What exec_stmt leaves alone: structs, and imports in a function's body; *)
(* and what a pass of run_toplevel leaves to the other.                    *)
ExecNothing ==
  /\ Doing("skip") \/ Doing("struct") \/ (Doing("import") /\ Top.kind = "call")
  /\ stack' = Advanced
  /\ use' = NoUse
  /\ UNCHANGED <<session, modules, envs, structs, result, ran, bindings>>

(* STMT_FUNC at the top level: nothing to do, unless prescan found the     *)
(* name bound or a statement before this one has bound it to another value.*)
ExecFunc ==
  /\ Doing("func")
  /\ IF Lookup(Top.env, Stmt.name) = FuncAt(1)
     THEN stack' = Advanced /\ UNCHANGED result
     ELSE Raise("redefined")
  /\ use' = NoUse
  /\ UNCHANGED <<session, modules, envs, structs, ran, bindings>>

BadExecAssign ==
  /\ Doing("assign")
  /\ envs' = BindIn(Scope(Top.env, Stmt.name), Stmt.name, Number)
  /\ stack' = Advanced
  /\ use' = NoUse
  /\ UNCHANGED <<session, modules, structs, result, ran, bindings>>

(* assign_or_define: the nearest scope that binds the name, else this one, *)
(* which for a call ends with the call.                                    *)
ExecAssign ==
  /\ Doing("assign")
  /\ LET x == Stmt.name
     IN envs' = CASE Visible(Top.env, x) -> BindIn(Scope(Top.env, x), x, Number)
                  [] ~Visible(Top.env, x) /\ Top.kind # "call" -> BindIn(Top.env, x, Number)
                  [] OTHER -> envs
  /\ stack' = Advanced
  /\ use' = NoUse
  /\ UNCHANGED <<session, modules, structs, result, ran, bindings>>

Depth == Quantify(DOMAIN stack, LAMBDA i : stack[i].kind = "call")

CallValue(v) ==
  IF v.t # "func" THEN Raise("not callable")
  ELSE IF Depth >= MaxCallDepth THEN Raise("too deep")
  ELSE /\ stack' = <<Frame("call", v.by, v.env, v.body)>> \o Advanced
       /\ UNCHANGED result

(* f(), and m.f(): a variable m hides the alias m, then the newest module  *)
(* with that alias and a namespace is asked, whose scope falls back on the *)
(* global one.                                                             *)
ExecCall ==
  /\ Doing("call")
  /\ LET a == Stmt.alias  f == Stmt.name  k == FindByAlias(a)
     IN CASE a = NoAlias ->
               /\ IF Visible(Top.env, f) THEN CallValue(Lookup(Top.env, f)) ELSE Raise("undefined")
               /\ use' = NoUse
          [] a # NoAlias /\ Visible(Top.env, a) ->
               Raise("not callable") /\ use' = NoUse
          [] OTHER ->
               /\ use' = [by |-> Top.by, alias |-> a, name |-> f,
                          path |-> IF k = 0 THEN <<>> ELSE modules[k].path]
               /\ IF k # 0 /\ Visible(modules[k].path, f)
                  THEN CallValue(Lookup(modules[k].path, f)) ELSE Raise("undefined")
  /\ UNCHANGED <<session, modules, envs, structs, ran, bindings>>

ExecFail ==
  /\ Doing("fail")
  /\ Raise("failed")
  /\ use' = NoUse
  /\ UNCHANGED <<session, modules, envs, structs, ran, bindings>>

BadEndOfBody ==
  /\ stack # <<>> /\ Top.rest = <<>>
  /\ stack' = Tail(stack)
  /\ result' = IF Top.kind = "main" THEN Append(result, "ok") ELSE result
  /\ use' = NoUse
  /\ UNCHANGED <<session, modules, envs, structs, ran, bindings>>

(* The end of a body: a module is loaded, the program entered is done, a   *)
(* call returns.                                                           *)
EndOfBody ==
  /\ stack # <<>> /\ Top.rest = <<>>
  /\ stack' = Tail(stack)
  /\ modules' = IF Top.kind = "module"
                THEN [modules EXCEPT ![FindModule(Top.by)].loading = FALSE] ELSE modules
  /\ result' = IF Top.kind = "main" THEN Append(result, "ok") ELSE result
  /\ use' = NoUse
  /\ UNCHANGED <<session, envs, structs, ran, bindings>>

(* interp_run and run_toplevel: a pass over the program for its imports,   *)
(* prescan, and a pass for the rest.                                       *)
InterpRun ==
  /\ stack = <<>> /\ Len(result) < Len(session.entered)
  /\ LET n       == Len(result) + 1
         program == session.entered[n]
         Pass(T) == [i \in DOMAIN program |-> IF program[i].op \in T THEN program[i] ELSE Skip]
     IN stack' = <<Frame("main", <<"main", n>>, Global,
                         Pass({"import"}) \o <<Hoist>>
                           \o Pass({"assign", "call", "fail", "func", "struct"}))>>
  /\ use' = NoUse
  /\ UNCHANGED <<session, modules, envs, structs, result, ran, bindings>>

-----------------------------------------------------------------------------

Init ==
  /\ session \in Sessions
  /\ stack = <<>> /\ modules = <<>>
  /\ envs = [e \in {Global} |-> <<>>]
  /\ structs = {} /\ result = <<>>
  /\ ran = <<>> /\ bindings = <<>> /\ use = NoUse

Next ==
  \/ InterpRun \/ HandleModuleDecl \/ Prescan \/ ExecNothing \/ ExecFunc
  \/ ExecAssign \/ ExecCall \/ ExecFail \/ EndOfBody

Spec == Init /\ [][Next]_vars

-----------------------------------------------------------------------------
(* Properties.                                                             *)

(* "circular module import" (spec 14.5) is said of a module only while its *)
(* body is on the stack below, or after an earlier program of the session  *)
(* gave up in the middle of loading it: nothing resets its flag then.      *)
BeingLoaded == {stack[i].by : i \in {j \in DOMAIN stack : stack[j].kind = "module"}}
Abandoned(p) == \E b \in ToSet(bindings) :
                  b.path = p /\ b.run <= Len(result) /\ result[b.run] # "ok"
CyclesAreReal ==
  [][Len(result') > Len(result) /\ Last(result') = "circular"
       => Stmt.path \in BeingLoaded \/ Abandoned(Stmt.path)]_vars

(* However often and from however many places a module is imported, in one *)
(* program or in several of a session, and whatever cycles the imports     *)
(* make, its body is started at most once (find_module before every load), *)
(* and when the statement after an import runs, the module imported has    *)
(* been loaded to its end: no top level goes on with half a module below.  *)
ImportsFinishFirst ==
  /\ IsInjective(ran)
  /\ stack # <<>> /\ Top.kind # "call" =>
       \A b \in ToSet(bindings) :
         b.by = Top.by /\ ~IsBuiltin(b.path) =>
           FindModule(b.path) # 0 /\ ~modules[FindModule(b.path)].loading

(* The alias m of m.f() names the module that the code around it imported  *)
(* as m, if that import found or loaded it and every such import so far    *)
(* agrees: no other module was imported as m, and the first import of that *)
(* module called it m.  (The table is global, and only the first import    *)
(* that gets past the checks makes an entry.)                              *)
FirstAlias(p) == bindings[SelectInSeq(bindings, LAMBDA b : b.path = p /\ b.known)].alias
AliasMeansImport ==
  \A b \in ToSet(bindings) :
    /\ b.by = use.by /\ b.alias = use.alias /\ b.known /\ ~IsBuiltin(b.path)
    /\ FirstAlias(b.path) = b.alias
    /\ \A c \in ToSet(bindings) : c.known /\ c.alias = b.alias => c.path = b.path
    => use.path = b.path

(* Packages and aliased modules have a namespace of their own: only their  *)
(* own code binds names in it, and a name enters the global scope only by  *)
(* a program of the session or by a module imported without an alias.      *)
Writes(body) == {s.name : s \in {t \in ToSet(body) : t.op \in {"func", "assign"}}}
Flat == {m \in ToSet(modules) : m.alias = NoAlias /\ ~IsBuiltin(m.path)}
NamespacesApart ==
  /\ \A p \in DOMAIN envs \ {Global} : \A x \in DOMAIN envs[p] : envs[p][x].by = p
  /\ \A x \in DOMAIN envs[Global] :
       \/ \E i \in DOMAIN session.entered : x \in Writes(session.entered[i])
       \/ \E m \in Flat : x \in Writes(Body(FileOf(m.path)))
=============================================================================
