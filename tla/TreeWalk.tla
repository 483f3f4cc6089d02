------------------------------ MODULE TreeWalk ------------------------------
(***************************************************************************)
(* The tree-walking evaluator of src/src/interpreter.c and the             *)
(* environments of src/src/env.c, as operators: the meaning of a .myon     *)
(* program, which its .myc form must have too.  The state s is             *)
(*   s.envs  every Env ever made, with "live" until env_free;              *)
(*   s.h     the objects (their reference counts are the VM's business);   *)
(*   s.structs  the declared structs;                                      *)
(*   s.out   what was printed;                                             *)
(*   s.stop  "no", "error" (runtime_error longjmped to the top level) or   *)
(*           "undefined" (a freed Env was read: a function value keeps a   *)
(*           plain pointer to the Env it was made in).                     *)
(* Modules, async and the call depth limit are not part of it.             *)
(***************************************************************************)
EXTENDS Values

NoEnv  == 0
Global == 1

FuncV(decl, env) == [t |-> "func", params |-> decl.params, types |-> decl.types,
                     body |-> decl.body, env |-> env, self |-> NoValue]

Running(s)  == s.stop = "no"
Raise(s)    == IF Running(s) THEN [s EXCEPT !.stop = "error"] ELSE s

Gives(s, v) == [s |-> s, v |-> v]
Fails(s)    == [s |-> Raise(s), v |-> VoidV]

(* A value that may be missing, and a result of the operators of Values.   *)
GivesOr(s, v) == IF v = NoValue THEN Fails(s) ELSE Gives(s, v)
Done(s, r)    == IF r.v = NoValue THEN Fails(s) ELSE Gives([s EXCEPT !.h = r.h], r.v)

-----------------------------------------------------------------------------
(* Environments: of an explicit block, of a method, or neither.            *)

EnvNew(s, parent, kind) ==
  [s EXCEPT !.envs = Append(@, [vars |-> [x \in {} |-> VoidV], parent |-> parent,
                                block |-> kind = "block", boundary |-> kind = "method",
                                live |-> TRUE])]
EnvFree(s, e) == [s EXCEPT !.envs[e].live = FALSE]

DefinedLocal(s, e, x) == x \in DOMAIN s.envs[e].vars
Bind(s, e, x, v) == [s EXCEPT !.envs[e].vars = (x :> v) @@ @]

(* The nearest environment from e outwards that binds x: NoEnv if there is *)
(* none, and Dangling if the walk meets a freed one.                       *)
Dangling == -1
RECURSIVE Find(_, _, _)
Find(s, e, x) ==
  CASE e = NoEnv -> NoEnv
    [] e # NoEnv /\ ~s.envs[e].live -> Dangling
    [] e # NoEnv /\ s.envs[e].live /\ DefinedLocal(s, e, x) -> e
    [] OTHER -> Find(s, s.envs[e].parent, x)

EnvGet(s, e, x) ==
  LET b == Find(s, e, x)
  IN CASE b = Dangling -> Gives([s EXCEPT !.stop = "undefined"], VoidV)
       [] b = NoEnv    -> Fails(s)
       [] OTHER        -> Gives(s, s.envs[b].vars[x])

(* assignable_outer: the search among the enclosing environments does not  *)
(* leave a method.                                                         *)
RECURSIVE AssignableOuter(_, _, _)
AssignableOuter(s, e, x) ==
  LET p == s.envs[e].parent
  IN CASE s.envs[e].boundary \/ p = NoEnv -> NoEnv
       [] ~s.envs[e].boundary /\ p # NoEnv /\ ~s.envs[p].live -> Dangling
       [] OTHER -> IF DefinedLocal(s, p, x) THEN p ELSE AssignableOuter(s, p, x)

(* The rules of spec 9.2: update the binding of this scope, else refuse in *)
(* an explicit block, else assign through, else define.                    *)
AssignOrDefine(s, e, x, v) ==
  LET b == AssignableOuter(s, e, x)
  IN CASE DefinedLocal(s, e, x) -> Bind(s, e, x, v)
       [] ~DefinedLocal(s, e, x) /\ b = Dangling -> [s EXCEPT !.stop = "undefined"]
       [] ~DefinedLocal(s, e, x) /\ b = NoEnv -> Bind(s, e, x, v)
       [] OTHER -> IF s.envs[e].block THEN Raise(s) ELSE Bind(s, b, x, v)

-----------------------------------------------------------------------------
(* Expressions: the state afterwards and the value.                        *)

(* Every handler below comes back to Walk, which dispatches on the node:   *)
(* an expression yields [s, v], a statement [s, flow, rets].               *)
RECURSIVE Walk(_, _, _)

Normal(s) == [s |-> s, flow |-> "NORMAL", rets |-> <<>>]

(* The values of a list of expressions, from left to right.                *)
EvalAll(s, e, xs) == Walk(s, e, List(xs))

EvalList(s, e, x) ==
  LET r    == Walk(s, e, Head(x.items))
      rest == EvalAll(r.s, e, Tail(x.items))
  IN CASE x.items = <<>> -> Gives(s, <<>>)
       [] x.items # <<>> /\ ~Running(rest.s) -> Fails(rest.s)
       [] OTHER -> Gives(rest.s, <<r.v>> \o rest.v)

(* interpolate_string: the pieces that are left, after x.so.               *)
EvalParts(s, e, x) ==
  LET p == Head(x.parts)
      r == Walk(s, e, p.hole)
      with(q, t) == Walk(q, e, [x EXCEPT !.parts = Tail(@), !.so = @ \o t])
  IN CASE x.parts = <<>> -> Gives(s, StrV(x.so))
       [] x.parts # <<>> /\ "text" \in DOMAIN p -> with(s, Word(p.text))
       [] OTHER -> with(r.s, IF Running(r.s) THEN ToStr(r.s.h, r.v) ELSE <<>>)

EvalString(s, e, x) == Walk(s, e, [e |-> "parts", parts |-> x.parts, so |-> <<>>])

(* A body in an environment of its own, with some names bound in it.       *)
Binding(x, v) == [x |-> x, v |-> v]
Scope(kind, bound, body) == [s |-> "scope", kind |-> kind, bound |-> bound, body |-> body]

InScope(s, e, st) ==
  LET in == EnvNew(s, e, st.kind)
      k  == Len(s.envs) + 1
      b  == FoldLeft(LAMBDA a, v : Bind(a, k, v.x, v.v), in, st.bound)
      r  == Walk(b, k, Body(st.body))
  IN IF Running(r.s) THEN [r EXCEPT !.s = EnvFree(@, k)] ELSE r

(* The body of a function, in a scope inside the function's own; a method  *)
(* also has self.  Several return values become one untyped array.         *)
RunFunction(s, fn, args) ==
  LET self  == IF fn.self = NoValue THEN <<>> ELSE <<Binding("self", fn.self)>>
      bound == [i \in 1..Len(args) |-> Binding(fn.params[i], args[i])]
      r     == Walk(s, fn.env, Scope(IF self = <<>> THEN "plain" ELSE "method", self \o bound, fn.body))
      rets  == IF r.flow = "RETURN" THEN r.rets ELSE <<>>
  IN CASE Len(rets) = 0 -> Gives(r.s, VoidV)
       [] Len(rets) = 1 -> Gives(r.s, rets[1])
       [] OTHER -> Gives([r.s EXCEPT !.h = New(@, ArrayObj(rets, NoType))],
                         Ref("array", Len(r.s.h) + 1))

(* call_function: the callee must be a function and take these arguments.  *)
CallFunction(s, fn, args) ==
  CASE fn.t # "func" -> Fails(s)
    [] fn.t = "func" /\ Len(args) # Len(fn.params) -> Fails(s)
    [] fn.t = "func" /\ \E i \in 1..Len(args) : ~Matches(s.h, fn.types[i], args[i]) -> Fails(s)
    [] OTHER -> RunFunction(s, fn, args)

Apply(fn, args) == [e |-> "apply", fn |-> fn, args |-> args]

(* array.map, filter and reduce from element x.i on; x.acc is the result   *)
(* so far.  The array may grow or shrink under them.                       *)
EvalEach(s, e, x) ==
  LET items == s.h[x.o].items
      item  == items[x.i]
      r     == Walk(s, e, Apply(x.fn, IF x.how = "reduce" THEN <<x.acc, item>> ELSE <<item>>))
      into(v) == [r.s EXCEPT !.h[x.acc.o].items = Append(@, v)]
      typed(q) == IF x.i = 1 THEN [q EXCEPT !.h[x.acc.o].elem = Base(r.v.t)] ELSE q
      on(q) == Walk(q, e, [x EXCEPT !.i = @ + 1])
  IN CASE x.i > Len(items) -> Gives(s, x.acc)
       [] x.i <= Len(items) /\ ~Running(r.s) -> r
       [] OTHER -> CASE x.how = "map"    -> on(typed(into(r.v)))
                     [] x.how = "filter" -> on(IF Truthy(r.v) THEN into(item) ELSE r.s)
                     [] x.how = "reduce" -> Walk(r.s, e, [x EXCEPT !.i = @ + 1, !.acc = r.v])

CallEach(s, e, recv, how, args) ==
  LET new == [s EXCEPT !.h = New(@, ArrayObj(<<>>, IF how = "map" THEN NoType ELSE s.h[recv.o].elem))]
      from(q, acc) == Walk(q, e, [e |-> "each", how |-> how, o |-> recv.o, i |-> 1,
                                  fn |-> args[1], acc |-> acc])
  IN CASE how = "reduce" /\ Len(args) = 2 -> from(s, args[2])
       [] how # "reduce" /\ Len(args) = 1 -> from(new, Ref("array", Len(s.h) + 1))
       [] OTHER -> Fails(s)

(* A method of a struct is found along its ancestors, nearest first; it is *)
(* a function of the global environment that knows its receiver.           *)
StructMethods(s, x) == FlattenSeq([i \in 1..Len(Chain(s.structs, x)) |-> Chain(s.structs, x)[i].methods])

CallMethod(s, e, recv, name, args) ==
  LET methods == StructMethods(s, s.h[recv.o].x)
      at      == SelectInSeq(methods, LAMBDA m : m.x = name)
      bound   == [FuncV(methods[at], Global) EXCEPT !.self = recv]
  IN CASE recv.t = "array" /\ name \in {"map", "filter", "reduce"} -> CallEach(s, e, recv, name, args)
       [] recv.t = "struct" -> IF at = 0 THEN Fails(s) ELSE Walk(s, e, Apply(bound, args))
       [] OTHER -> Done(s, CallBuiltin(s.h, recv, name, args))

EvalMethod(s, e, x) ==
  LET recv == Walk(s, e, x.callee.target)
      args == EvalAll(recv.s, e, x.args)
  IN IF Running(args.s) THEN CallMethod(args.s, e, recv.v, x.callee.x, args.v) ELSE Fails(args.s)

(* construct_struct: every field, ancestors' first, from the argument that *)
(* names it, up to the first without one.                                  *)
RECURSIVE ArgsFor(_, _)
ArgsFor(fields, x) ==
  LET at == SelectInSeq(x.names, LAMBDA n : n = Head(fields))
  IN IF fields = <<>> THEN <<>>
     ELSE IF at = 0 THEN <<>> ELSE <<x.args[at]>> \o ArgsFor(Tail(fields), x)

ConstructStruct(s, e, x) ==
  LET fields == CollectFields(s.structs, x.callee.x)
      vals   == EvalAll(s, e, ArgsFor(fields, x))
      obj    == StructObj(x.callee.x, [f \in 1..Len(fields) |-> Field(fields[f], vals.v[f])])
  IN CASE ~Running(vals.s) -> vals
       [] Running(vals.s) /\ Len(vals.v) < Len(fields) -> Fails(vals.s)
       [] OTHER -> Gives([vals.s EXCEPT !.h = New(@, obj)], Ref("struct", Len(vals.s.h) + 1))

EvalNative(s, e, x) ==
  LET args == EvalAll(s, e, x.args)
      r    == CallNative(args.s.h, x.callee.x, args.v)
      said == [args.s EXCEPT !.out = @ \o Printed(args.s.h, x.callee.x, args.v)]
  IN IF Running(args.s) THEN Done(said, r) ELSE Fails(args.s)

EvalValueCall(s, e, x) ==
  LET fn   == Walk(s, e, x.callee)
      args == EvalAll(fn.s, e, x.args)
  IN CASE ~Running(fn.s) -> fn
       [] Running(fn.s) /\ fn.v.t # "func" -> Fails(fn.s)
       [] OTHER -> IF Running(args.s) THEN Walk(args.s, e, Apply(fn.v, args.v)) ELSE Fails(args.s)

EvalCall(s, e, x) ==
  CASE x.callee.e = "ident" /\ IsNative(x.callee.x) -> EvalNative(s, e, x)
    [] x.callee.e = "ident" /\ IsStruct(s.structs, x.callee.x) -> ConstructStruct(s, e, x)
    [] x.callee.e = "member" -> EvalMethod(s, e, x)
    [] OTHER -> EvalValueCall(s, e, x)

(* Both operands must be bool, the right one only if it is evaluated.      *)
EvalLogical(s, e, x) ==
  LET l == Walk(s, e, x.left)
      r == Walk(l.s, e, x.right)
      isBool(a) == a.v.t = "bool"
  IN CASE ~isBool(l) -> Fails(l.s)
       [] isBool(l) /\ l.v.b = (x.op = "or") -> l
       [] OTHER -> IF isBool(r) THEN r ELSE Fails(r.s)

EvalBin(s, e, x) ==
  LET l == Walk(s, e, x.left)
      r == Walk(l.s, e, x.right)
  IN GivesOr(r.s, EvalBinary(x.op, l.v, r.v))

EvalIndex(s, e, x) ==
  LET t == Walk(s, e, x.target)
      i == Walk(t.s, e, x.index)
  IN IF Running(i.s) THEN Done(i.s, IndexGet(i.s.h, t.v, i.v)) ELSE i

EvalMember(s, e, x) ==
  LET t == Walk(s, e, x.target)
  IN IF Running(t.s) THEN Done(t.s, FieldGet(t.s.h, t.v, x.x)) ELSE t

Eval(s, e, x) ==
  CASE x.e = "int"     -> Gives(s, IntV(x.n))
    [] x.e = "bool"    -> Gives(s, BoolV(x.b))
    [] x.e = "nil"     -> Gives(s, NilV)
    [] x.e = "string"  -> EvalString(s, e, x)
    [] x.e = "parts"   -> EvalParts(s, e, x)
    [] x.e = "ident"   -> EnvGet(s, e, x.x)
    [] x.e = "unary"   -> LET r == Walk(s, e, x.operand) IN GivesOr(r.s, EvalUnary(x.op, r.v))
    [] x.e = "cast"    -> LET r == Walk(s, e, x.operand) IN GivesOr(r.s, CastTo(x.to, r.s.h, r.v))
    [] x.e = "binary"  -> EvalBin(s, e, x)
    [] x.e = "list"    -> EvalList(s, e, x)
    [] x.e = "logical" -> EvalLogical(s, e, x)
    [] x.e = "call"    -> EvalCall(s, e, x)
    [] x.e = "apply"   -> CallFunction(s, x.fn, x.args)
    [] x.e = "each"    -> EvalEach(s, e, x)
    [] x.e = "index"   -> EvalIndex(s, e, x)
    [] x.e = "member"  -> EvalMember(s, e, x)
    [] x.e = "newarray" -> Gives([s EXCEPT !.h = New(@, ArrayObj(<<>>, x.type.elem))],
                                 Ref("array", Len(s.h) + 1))
    [] x.e = "newmap"  -> Gives([s EXCEPT !.h = New(@, MapObj(<<>>, x.type.key, x.type.elem))],
                                Ref("map", Len(s.h) + 1))
    [] x.e = "lambda"  -> Gives(s, FuncV(x, e))

-----------------------------------------------------------------------------
(* Statements: the state, how the statement ended, and the values of ret.  *)

MultiAssign(s, e, xs, v) ==
  LET items == s.h[v.o].items
  IN CASE v.t # "array" -> Raise(s)
       [] v.t = "array" /\ (s.h[v.o].elem # NoType \/ Len(items) # Len(xs)) -> Raise(s)
       [] OTHER -> FoldLeft(LAMBDA a, i : IF Running(a) THEN AssignOrDefine(a, e, xs[i], items[i])
                                                        ELSE a,
                            s, [i \in 1..Len(xs) |-> i])

(* nil is for the targets of several values only.                          *)
ExecAssign(s, e, st) ==
  LET r == Walk(s, e, st.value)
  IN Normal(CASE ~Running(r.s) -> r.s
              [] Running(r.s) /\ Len(st.xs) > 1 -> MultiAssign(r.s, e, st.xs, r.v)
              [] Running(r.s) /\ Len(st.xs) = 1 /\ (r.v = NilV \/ ~Matches(r.s.h, st.type, r.v)) ->
                   Raise(r.s)
              [] OTHER -> AssignOrDefine(r.s, e, st.xs[1], r.v))

(* assign_target: the value is there before the object and the index.      *)
AssignTarget(s, e, target, v) ==
  LET t == Walk(s, e, target.target)
      i == Walk(t.s, e, target.index)
  IN IF target.e = "member"
     THEN IF Running(t.s) THEN Done(t.s, FieldSet(t.s.h, t.v, target.x, v)).s ELSE t.s
     ELSE IF Running(i.s) THEN Done(i.s, IndexSet(i.s.h, t.v, i.v, v)).s ELSE i.s

ExecSet(s, e, st) ==
  LET r == Walk(s, e, st.value)
  IN Normal(IF Running(r.s) THEN AssignTarget(r.s, e, st.target, r.v) ELSE r.s)

ExecSetOp(s, e, st) ==
  LET cur == Walk(s, e, st.target)
      rhs == Walk(cur.s, e, st.value)
      res == GivesOr(rhs.s, EvalBinary(st.op, cur.v, rhs.v))
  IN Normal(IF Running(res.s) THEN AssignTarget(res.s, e, st.target, res.v) ELSE res.s)

(* The right side is evaluated before the variable is read; the variable   *)
(* may be one of any enclosing scope.                                      *)
ExecCompound(s, e, st) ==
  LET r   == Walk(s, e, st.value)
      cur == EnvGet(r.s, e, st.x)
      v   == EvalBinary(st.op, cur.v, r.v)
  IN Normal(CASE ~Running(r.s) -> r.s
              [] Running(r.s) /\ ~Running(cur.s) -> cur.s
              [] Running(r.s) /\ Running(cur.s) /\ v = NoValue -> Raise(cur.s)
              [] OTHER -> Bind(cur.s, Find(cur.s, e, st.x), st.x, v))

(* The first arm whose condition holds, else the else part.                *)
ExecIf(s, e, st) ==
  LET arm == Head(st.arms)
      c   == Walk(s, e, arm.cond)
  IN CASE st.arms = <<>> -> Walk(s, e, Scope("plain", <<>>, st.else))
       [] st.arms # <<>> /\ ~Running(c.s) -> Normal(c.s)
       [] st.arms # <<>> /\ Running(c.s) /\ c.v.t # "bool" -> Normal(Raise(c.s))
       [] OTHER -> IF c.v.b THEN Walk(c.s, e, Scope("plain", <<>>, arm.body))
                            ELSE Walk(c.s, e, [st EXCEPT !.arms = Tail(@)])

ExecWhile(s, e, st) ==
  LET c == Walk(s, e, st.cond)
      r == Walk(c.s, e, Scope("plain", <<>>, st.body))
  IN CASE ~Running(c.s) -> Normal(c.s)
       [] Running(c.s) /\ c.v.t # "bool" -> Normal(Raise(c.s))
       [] Running(c.s) /\ c.v.t = "bool" /\ ~c.v.b -> Normal(c.s)
       [] OTHER -> CASE ~Running(r.s) \/ r.flow = "RETURN" -> r
                     [] Running(r.s) /\ r.flow = "BREAK" -> Normal(r.s)
                     [] OTHER -> Walk(r.s, e, st)

(* A turn of a for loop with x bound to v, then the loop from "rest" on.   *)
Turn(s, e, x, v, body, rest) ==
  LET r == Walk(s, e, Scope("plain", <<Binding(x, v)>>, body))
  IN CASE ~Running(r.s) \/ r.flow = "RETURN" -> r
       [] Running(r.s) /\ r.flow = "BREAK" -> Normal(r.s)
       [] OTHER -> Walk(r.s, e, rest)

(* The counter belongs to the loop, not to the program.                    *)
ExecFrom(s, e, st) ==
  IF st.i >= st.end THEN Normal(s)
  ELSE Turn(s, e, st.x, IntV(st.i), st.body, [st EXCEPT !.i = @ + 1])

ExecForRange(s, e, st) ==
  LET lo == Walk(s, e, st.lo)
      hi == Walk(lo.s, e, st.hi)
  IN CASE ~Running(hi.s) -> Normal(hi.s)
       [] Running(hi.s) /\ (lo.v.t # "int" \/ hi.v.t # "int") -> Normal(Raise(hi.s))
       [] OTHER -> Walk(hi.s, e, [s |-> "from", x |-> st.x, i |-> lo.v.i,
                                  end |-> hi.v.i, body |-> st.body])

(* The elements of array st.o from st.i on, as long as it is at each turn. *)
ExecOver(s, e, st) ==
  IF st.i > Len(s.h[st.o].items) THEN Normal(s)
  ELSE Turn(s, e, st.x, s.h[st.o].items[st.i], st.body, [st EXCEPT !.i = @ + 1])

ExecForIn(s, e, st) ==
  LET r == Walk(s, e, st.iterable)
  IN CASE ~Running(r.s) -> Normal(r.s)
       [] Running(r.s) /\ r.v.t # "array" -> Normal(Raise(r.s))
       [] OTHER -> Walk(r.s, e, [s |-> "over", x |-> st.x, i |-> 1, o |-> r.v.o, body |-> st.body])

(* The value is copied into the enclosing environment as it is now.        *)
ExecExpose(s, e, x) ==
  LET r == EnvGet(s, e, x)
      p == s.envs[e].parent
  IN Normal(CASE ~Running(r.s) -> r.s
              [] Running(r.s) /\ p = NoEnv -> r.s
              [] OTHER -> Bind(r.s, p, x, r.v))

(* A top-level function was bound by the prescan already.                  *)
ExecFunc(s, e, st) ==
  LET old  == s.envs[e].vars[st.x]
      same == IF old.t = "func" THEN old.body = st.body ELSE FALSE
  IN Normal(CASE ~DefinedLocal(s, e, st.x) -> Bind(s, e, st.x, FuncV(st, e))
              [] DefinedLocal(s, e, st.x) /\ e = Global /\ same -> s
              [] OTHER -> Raise(s))

ExecReturn(s, e, st) ==
  LET r == EvalAll(s, e, st.values)
  IN [s |-> r.s, flow |-> "RETURN", rets |-> IF Running(r.s) THEN r.v ELSE <<>>]

(* The statements of a body, up to the first that does not end normally.   *)
ExecBlock(s, e, st) ==
  LET r == Walk(s, e, Head(st.items))
  IN CASE st.items = <<>> -> Normal(s)
       [] st.items # <<>> /\ (~Running(r.s) \/ r.flow # "NORMAL") -> r
       [] OTHER -> Walk(r.s, e, Body(Tail(st.items)))

ExecStmt(s, e, st) ==
  CASE st.s = "assign"   -> ExecAssign(s, e, st)
    [] st.s = "set"      -> ExecSet(s, e, st)
    [] st.s = "setop"    -> ExecSetOp(s, e, st)
    [] st.s = "compound" -> ExecCompound(s, e, st)
    [] st.s = "expr"     -> Normal(Walk(s, e, st.value).s)
    [] st.s = "if"       -> ExecIf(s, e, st)
    [] st.s = "while"    -> ExecWhile(s, e, st)
    [] st.s = "for"      -> ExecForRange(s, e, st)
    [] st.s = "from"     -> ExecFrom(s, e, st)
    [] st.s = "forin"    -> ExecForIn(s, e, st)
    [] st.s = "over"     -> ExecOver(s, e, st)
    [] st.s = "break"    -> [Normal(s) EXCEPT !.flow = "BREAK"]
    [] st.s = "continue" -> [Normal(s) EXCEPT !.flow = "CONTINUE"]
    [] st.s = "scope"    -> InScope(s, e, st)
    [] st.s = "block"    -> Walk(s, e, Scope("block", <<>>, st.body))
    [] st.s = "expose"   -> ExecExpose(s, e, st.x)
    [] st.s = "func"     -> ExecFunc(s, e, st)
    [] st.s = "struct"   -> Normal(s)
    [] st.s = "return"   -> ExecReturn(s, e, st)
    [] st.s = "seq"      -> ExecBlock(s, e, st)

(* Nothing is done once an error has left for the top level.               *)
Walk(s, e, x) ==
  CASE "s" \in DOMAIN x -> ExecStmt(s, e, x)
    [] "e" \in DOMAIN x /\ Running(s) -> Eval(s, e, x)
    [] "e" \in DOMAIN x /\ ~Running(s) -> Gives(s, VoidV)

-----------------------------------------------------------------------------
(* The prescan registers the structs, checks them, and binds the top-level *)
(* functions.                                                              *)
Prescan(s, p) ==
  LET bound == FoldLeft(LAMBDA a, st : IF st.s = "func" /\ ~DefinedLocal(a, Global, st.x)
                                       THEN Bind(a, Global, st.x, FuncV(st, Global)) ELSE a,
                        [s EXCEPT !.structs = StructsOf(p)], p)
  IN IF StructsOK(StructsOf(p)) THEN bound ELSE Raise(bound)

(* The top level goes on after a ret and refuses a stray break.            *)
RECURSIVE RunToplevel(_, _, _)
RunToplevel(s, p, i) ==
  IF i > Len(p) \/ ~Running(s) THEN s
  ELSE LET r == Walk(s, Global, p[i])
       IN RunToplevel(IF r.flow \in {"BREAK", "CONTINUE"} THEN Raise(r.s) ELSE r.s,
                      p, i + 1)

TreeRun(p) ==
  LET start == EnvNew([envs |-> <<>>, h |-> <<>>, structs |-> <<>>, out |-> <<>>, stop |-> "no"],
                      NoEnv, "plain")
  IN RunToplevel(Prescan(start, p), p, 1)
=============================================================================
