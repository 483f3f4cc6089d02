------------------------------ MODULE Compiler ------------------------------
(***************************************************************************)
(* The bytecode compiler of src/src/mvm_compiler.c.  Every operator takes  *)
(* the compiler's state c and returns the next one:                        *)
(*   c.fns     the FnComp chain, <main> first, the current function last;  *)
(*   c.chunks, c.consts, c.natives  the module being written;              *)
(*   c.structs the declarations of the pre-pass;                           *)
(*   c.err     a compile error was reported (compile_error longjmps out).  *)
(* The limits (1024 locals, 256 upvalues, 64 loops and jumps, 128 elifs)   *)
(* are left out: no program of the model comes near them.                  *)
(***************************************************************************)
EXTENDS Bytecode

NoSlot == -1

FnComp(chunk) ==
  [chunk |-> chunk, locals |-> <<>>, depth |-> 0, blocks |-> {},
   next |-> 0, max |-> 0, ups |-> <<>>, captured |-> {}, loops |-> <<>>]

Cur(c)       == Last(c.fns)
SetFn(c, f)  == [c EXCEPT !.fns[Len(c.fns)] = f]
IsMain(i)    == i = 1
Fail(c)      == [c EXCEPT !.err = TRUE]

-----------------------------------------------------------------------------
(* Emitting code: chunk_emit_*, module_add_const_*.                        *)

Code(c)      == c.chunks[Cur(c).chunk].code
Here(c)      == Len(Code(c))
Emit(c, bs)  == [c EXCEPT !.chunks[Cur(c).chunk].code = @ \o bs]
Op(c, o)     == Emit(c, <<O[o]>>)
OpU16(c, o, n) == Emit(c, <<O[o]>> \o U16(n))
OpU8(c, o, n)  == Emit(c, <<O[o]>> \o U8(n))
OpU16U8(c, o, n, k) == Emit(c, <<O[o]>> \o U16(n) \o U8(k))

(* A jump forward, whose operand is at Here(c) + 1 until it is patched.    *)
EmitJump(c, o)     == OpU16(c, o, 65535)
Patch(c, at)       == [c EXCEPT !.chunks[Cur(c).chunk].code = PatchJump(@, at)]
PatchAll(c, ats)   == FoldLeft(Patch, c, ats)
EmitLoop(c, target) == [c EXCEPT !.chunks[Cur(c).chunk].code = Loop(@, O.JUMP, target)]

OpConst(c, o, tag, v) == LET k == AddConst(c, tag, v) IN OpU16(k.m, o, k.i)
OpName(c, o, x)       == OpConst(c, o, "str", StrV(Word(x)))
PushConst(c, tag, v)  == OpConst(c, "PUSH_CONST", tag, v)
OpNative(c, name, argc) ==
  LET k == AddNative(c, name) IN OpU16U8(k.m, "CALL_NATIVE", k.i, argc)

-----------------------------------------------------------------------------
(* Scopes and names.                                                       *)

(* The slot of the newest local of f that satisfies Test.                  *)
SlotOf(f, Test(_)) ==
  LET i == SelectLastInSeq(f.locals, Test)
  IN IF i = 0 THEN NoSlot ELSE f.locals[i].slot

ResolveLocal(f, x) == SlotOf(f, LAMBDA l : l.name = x)

FindInOuterScope(f, x) ==
  SlotOf(f, LAMBDA l : l.name = x /\ l.depth < f.depth)

(* The search stops at the first local of an older scope it meets.         *)
FindInCurrentScope(f, x) ==
  LET older == SelectLastInSeq(f.locals, LAMBDA l : l.depth < f.depth)
      i     == SelectLastInSeq(f.locals, LAMBDA l : l.name = x)
  IN IF i > older THEN f.locals[i].slot ELSE NoSlot

DeclareLocal(c, x) ==
  LET f == Cur(c)
  IN SetFn(c, [f EXCEPT !.locals = Append(@, [name |-> x, depth |-> f.depth,
                                              slot |-> f.next]),
                        !.next = @ + 1,
                        !.max = IF f.next + 1 > @ THEN f.next + 1 ELSE @])

Declared(c) == Last(Cur(c).locals).slot

BeginScope(c, isBlock) ==
  LET d == Cur(c).depth + 1
      f == [Cur(c) EXCEPT !.depth = d, !.blocks = @ \ {d}]
  IN SetFn(c, IF isBlock THEN [f EXCEPT !.blocks = @ \cup {d}] ELSE f)

InBlock(f) == f.depth \in f.blocks

BadEndScope(c) ==    \* pops each local that goes out of scope
  LET f    == Cur(c)
      keep == SelectLastInSeq(f.locals, LAMBDA l : l.depth # f.depth)
      g    == [f EXCEPT !.locals = SubSeq(@, 1, keep),
                        !.next = @ - (Len(f.locals) - keep), !.depth = @ - 1]
  IN FoldLeft(LAMBDA d, i : Op(d, "POP"), SetFn(c, g), SubSeq(f.locals, keep + 1, Len(f.locals)))

(* end_scope drops the newest locals of this depth, and their slots with   *)
(* them; it stops at the first local of another depth.                     *)
EndScope(c) ==
  LET f    == Cur(c)
      keep == SelectLastInSeq(f.locals, LAMBDA l : l.depth # f.depth)
  IN SetFn(c, [f EXCEPT !.locals = SubSeq(@, 1, keep),
                        !.next = @ - (Len(f.locals) - keep),
                        !.depth = @ - 1])

ExposeLocal(c, x) ==
  LET f == Cur(c)
      i == SelectLastInSeq(f.locals, LAMBDA l : l.name = x /\ l.depth = f.depth)
  IN CASE i = 0 -> Fail(c)
       [] i # 0 /\ f.depth > 0 -> SetFn(c, [f EXCEPT !.locals[i].depth = @ - 1])
       [] OTHER -> c

(* Captures: the functions below return the state and the upvalue's index. *)
AddUpvalue(c, i, index, fromLocal) ==
  LET u == [index |-> index, local |-> fromLocal]
      k == SelectInSeq(c.fns[i].ups, LAMBDA w : w = u)
  IN IF k # 0 THEN [c |-> c, up |-> k - 1]
     ELSE [c |-> [c EXCEPT !.fns[i].ups = Append(@, u)],
           up |-> Len(c.fns[i].ups)]

RECURSIVE ResolveUpvalue(_, _, _)
ResolveUpvalue(c, i, x) ==
  IF IsMain(i) THEN [c |-> c, up |-> NoSlot]
  ELSE LET local == ResolveLocal(c.fns[i - 1], x)
           outer == ResolveUpvalue(c, i - 1, x)
       IN CASE local # NoSlot /\ ~IsMain(i - 1) ->
                 AddUpvalue([c EXCEPT !.fns[i - 1].captured = @ \cup {local}],
                            i, local, TRUE)
            [] local = NoSlot /\ outer.up # NoSlot ->
                 AddUpvalue(outer.c, i, outer.up, FALSE)
            [] OTHER -> [c |-> c, up |-> NoSlot]

(* Own local, then a captured one, then a global of <main>.                *)
ResolveName(c, x) ==
  LET n      == Len(c.fns)
      local  == ResolveLocal(Cur(c), x)
      uv     == ResolveUpvalue(c, n, x)
      global == IF IsMain(n) THEN NoSlot ELSE ResolveLocal(c.fns[1], x)
  IN CASE local # NoSlot -> [c |-> c, kind |-> "LOCAL", slot |-> local]
       [] local = NoSlot /\ uv.up # NoSlot ->
            [c |-> uv.c, kind |-> "UPVALUE", slot |-> uv.up]
       [] local = NoSlot /\ uv.up = NoSlot /\ global # NoSlot ->
            [c |-> c, kind |-> "GLOBAL", slot |-> global]
       [] OTHER -> [c |-> Fail(c), kind |-> "NONE", slot |-> NoSlot]

Load(c, kind, slot)  == OpU16(c, "LOAD_" \o kind, slot)
Store(c, kind, slot) == OpU16(c, "STORE_" \o kind, slot)

EmitVarLoad(c, x) ==
  LET r == ResolveName(c, x) IN IF r.kind = "NONE" THEN r.c ELSE Load(r.c, r.kind, r.slot)

-----------------------------------------------------------------------------
(* Assignment to a name: the state and the place the value is stored to.   *)

AssignTarget(c, x) ==
  LET f     == Cur(c)
      here  == FindInCurrentScope(f, x)
      outer == FindInOuterScope(f, x)
      far   == ResolveName(c, x)
      fresh == DeclareLocal(c, x)
  IN CASE here # NoSlot -> [c |-> c, kind |-> "LOCAL", slot |-> here]
       [] here = NoSlot /\ outer # NoSlot ->
            [c |-> IF InBlock(f) THEN Fail(c) ELSE c,
             kind |-> "LOCAL", slot |-> outer]
       [] here = NoSlot /\ outer = NoSlot /\ ~IsMain(Len(c.fns))
            /\ far.kind \in {"GLOBAL", "UPVALUE"} -> far
       [] OTHER -> [c |-> fresh, kind |-> "LOCAL", slot |-> Declared(fresh)]

RECURSIVE BadStoreTargets(_, _)
BadStoreTargets(c, xs) ==    \* stores in the order of the targets
  IF xs = <<>> THEN c
  ELSE LET t == AssignTarget(c, Head(xs))
       IN BadStoreTargets(Store(t.c, t.kind, t.slot), Tail(xs))

(* Targets are resolved from left to right, the stores emitted in reverse. *)
RECURSIVE StoreTargets(_, _)
StoreTargets(c, xs) ==
  IF xs = <<>> THEN c
  ELSE LET t == AssignTarget(c, Head(xs))
       IN Store(StoreTargets(t.c, Tail(xs)), t.kind, t.slot)

-----------------------------------------------------------------------------
(* Expressions.                                                            *)

(* Every handler below comes back to Compile, which dispatches on the node. *)
RECURSIVE Compile(_, _)

CompileArgs(c, es)   == Compile(c, List(es))
CompileBody(c, body) == Compile(c, Body(body))

CompileBlock(c, body, isBlock) ==
  EndScope(CompileBody(BeginScope(c, isBlock), body))

(* A piece of a string that is not the first is appended to what is there. *)
Glue(c, n) == IF n = 0 THEN c ELSE Op(c, "STR_CONCAT")

CompileParts(c, e) ==
  LET x     == Head(e.parts)
      piece == IF "text" \in DOMAIN x THEN PushConst(c, "str", StrV(Word(x.text)))
               ELSE Op(Compile(c, x.hole), "TO_STR")
  IN CASE e.parts = <<>> /\ e.n = 0 -> PushConst(c, "str", StrV(<<>>))
       [] e.parts = <<>> /\ e.n # 0 -> c
       [] OTHER -> Compile(Glue(piece, e.n), [e EXCEPT !.parts = Tail(@), !.n = @ + 1])

CompileString(c, e) == Compile(c, [e |-> "parts", parts |-> e.parts, n |-> 0])

CompileLogical(c, e) ==
  LET test == Op(Compile(c, e.left), "DUP")
      jump == IF e.op = "and" THEN "JUMP_IF_FALSE" ELSE "JUMP_IF_TRUE"
      rest == Op(EmitJump(test, jump), "POP")
  IN Patch(Compile(rest, e.right), Here(test) + 1)

CompileNative(c, e) ==
  IF \E i \in 1..Len(e.names) : e.names[i] # NoName THEN Fail(c)
  ELSE OpNative(CompileArgs(c, e.args), e.callee.x, Len(e.args))

(* The argument of a field: the first that names it, else the last one     *)
(* before that has no name and stands at the field's place.                *)
CtorArg(e, f, x) ==
  LET named == SelectInSeq(e.names, LAMBDA n : n = x)
  IN CASE named # 0 -> named
       [] named = 0 /\ f <= Len(e.names) -> IF e.names[f] = NoName THEN f ELSE 0
       [] OTHER -> 0

CompileCtor(c, e) ==
  LET fields == CollectFields(c.structs, e.callee.x)
      at     == [f \in 1..Len(fields) |-> CtorArg(e, f, fields[f])]
  IN IF \E f \in 1..Len(fields) : at[f] = 0 THEN Fail(c)
     ELSE OpName(CompileArgs(c, [f \in 1..Len(fields) |-> e.args[at[f]]]),
                 "NEW_STRUCT", e.callee.x)

CompileInvoke(c, e) ==
  LET args == CompileArgs(Compile(c, e.callee.target), e.args)
      k    == AddConst(args, "str", StrV(Word(e.callee.x)))
  IN OpU16U8(k.m, "INVOKE", k.i, Len(e.args))

CompileCall(c, e) ==
  CASE e.callee.e = "ident" /\ IsNative(e.callee.x) -> CompileNative(c, e)
    [] e.callee.e = "ident" /\ IsStruct(c.structs, e.callee.x) -> CompileCtor(c, e)
    [] e.callee.e = "member" -> CompileInvoke(c, e)
    [] OTHER -> OpU8(CompileArgs(Compile(c, e.callee), e.args), "CALL", Len(e.args))

(* Ends the current function: the implicit return, the chunk's header.     *)
Finish(c, params) ==
  LET f == Cur(c)
      d == OpU8(c, "RET", 0)
  IN [d EXCEPT !.chunks[f.chunk].params = params,
               !.chunks[f.chunk].locals = f.max,
               !.chunks[f.chunk].captured = f.captured]

(* A chunk of its own; a method has self before its parameters.            *)
CompileFunction(c, name, params, body) ==
  LET k    == Len(c.chunks) + 1
      in   == [c EXCEPT !.chunks = Append(@, NewChunk(name)), !.fns = Append(@, FnComp(k))]
      done == Finish(CompileBody(FoldLeft(DeclareLocal, in, params), body), Len(params))
  IN [c |-> [done EXCEPT !.fns = Front(@)], chunk |-> k, ups |-> Cur(done).ups]

(* Kind 1 captures a local of this function, kind 0 an upvalue of it.      *)
MakeClosure(r) ==
  LET pairs == [i \in 1..Len(r.ups) |->
                  <<IF r.ups[i].local THEN 1 ELSE 0>> \o U16(r.ups[i].index)]
  IN Emit(OpU16U8(r.c, "MAKE_CLOSURE", r.chunk - 1, Len(r.ups)), FlattenSeq(pairs))

CompileExpr(c, e) ==
  CASE e.e = "int"     -> PushConst(c, "int", IntV(e.n))
    [] e.e = "bool"    -> Op(c, IF e.b THEN "PUSH_TRUE" ELSE "PUSH_FALSE")
    [] e.e = "nil"     -> Op(c, "PUSH_NIL")
    [] e.e = "string"  -> CompileString(c, e)
    [] e.e = "parts"   -> CompileParts(c, e)
    [] e.e = "ident"   -> EmitVarLoad(c, e.x)
    [] e.e = "unary"   -> Op(Compile(c, e.operand), IF e.op = "not" THEN "NOT" ELSE "NEG")
    [] e.e = "binary"  -> Op(Compile(Compile(c, e.left), e.right), BinaryOpcode[e.op])
    [] e.e = "list"    -> IF e.items = <<>> THEN c
                          ELSE CompileArgs(Compile(c, Head(e.items)), Tail(e.items))
    [] e.e = "logical" -> CompileLogical(c, e)
    [] e.e = "cast"    -> Emit(Compile(c, e.operand), <<CastOpcode[e.to]>>)
    [] e.e = "call"    -> CompileCall(c, e)
    [] e.e = "member"  -> OpName(Compile(c, e.target), "GET_FIELD", e.x)
    [] e.e = "index"   -> Op(Compile(Compile(c, e.target), e.index), "INDEX_GET")
    [] e.e = "newarray" -> OpConst(c, "NEW_ARRAY", "type", e.type.elem)
    [] e.e = "newmap"  -> OpConst(c, "NEW_MAP", "type", e.type)
    [] e.e = "lambda"  -> MakeClosure(CompileFunction(c, "<lambda>", e.params, e.body))

-----------------------------------------------------------------------------
(* Statements.                                                             *)

IsCallTo(v, Test(_)) == IF v.e = "call" THEN Test(v.callee) ELSE FALSE

(* Natives and methods are taken to leave one tuple, functions to leave    *)
(* their values.                                                           *)
LeavesTuple(v) ==
  IsCallTo(v, LAMBDA f : f.e = "member" \/ (f.e = "ident" /\ IsNative(f.x)))

CompileAssign(c, s) ==
  LET v    == Compile(c, s.value)
      many == IF LeavesTuple(s.value) THEN OpU8(v, "UNPACK", Len(s.xs)) ELSE v
  IN StoreTargets(IF Len(s.xs) = 1 THEN Op(v, "CHECK_NOT_NIL") ELSE many, s.xs)

(* The object, the index, the value - in this order.                       *)
CompileSet(c, s) ==
  LET obj == Compile(c, s.target.target)
  IN IF s.target.e = "member"
     THEN OpName(Compile(obj, s.value), "SET_FIELD", s.target.x)
     ELSE Op(Compile(Compile(obj, s.target.index), s.value), "INDEX_SET")

(* Compound assignment looks only among the function's own locals.         *)
CompileCompound(c, s) ==
  LET slot == ResolveLocal(Cur(c), s.x)
      sum  == Op(Compile(Load(c, "LOCAL", slot), s.value), BinaryOpcode[s.op])
  IN IF slot = NoSlot THEN Fail(c) ELSE Store(sum, "LOCAL", slot)

(* The arms that are left; "ends" are the jumps to the end of the chain.   *)
CompileArms(c, s) ==
  LET arm  == Head(s.arms)
      cond == Compile(c, arm.cond)
      then == CompileBlock(EmitJump(cond, "JUMP_IF_FALSE"), arm.body, FALSE)
      next == Patch(EmitJump(then, "JUMP"), Here(cond) + 1)
  IN IF s.arms = <<>>
     THEN PatchAll(IF s.else = <<>> THEN c ELSE CompileBlock(c, s.else, FALSE), s.ends)
     ELSE Compile(next, [s EXCEPT !.arms = Tail(@), !.ends = Append(@, Here(then) + 1)])

CompileIf(c, s) ==
  Compile(c, [s |-> "arms", arms |-> s.arms, else |-> s.else, ends |-> <<>>])

(* The body of a loop; break and continue leave jumps to be patched, the   *)
(* latter here, where the loop's step is about to be emitted.              *)
CompileLoopBody(c, body) ==
  LET in == CompileBlock(
              SetFn(c, [Cur(c) EXCEPT
                          !.loops = Append(@, [breaks |-> <<>>, continues |-> <<>>])]),
              body, FALSE)
  IN PatchAll(in, Last(Cur(in).loops).continues)

LoopPop(c) ==
  LET f == Cur(c)
  IN SetFn(PatchAll(c, Last(f.loops).breaks), [f EXCEPT !.loops = Front(@)])

BadCompileWhile(c, s) ==    \* the exit lands on the jump back
  LET cond == Compile(c, s.cond)
      body == CompileLoopBody(EmitJump(cond, "JUMP_IF_FALSE"), s.body)
  IN LoopPop(EmitLoop(Patch(body, Here(cond) + 1), Here(c)))

CompileWhile(c, s) ==
  LET cond == Compile(c, s.cond)
      body == CompileLoopBody(EmitJump(cond, "JUMP_IF_FALSE"), s.body)
  IN LoopPop(Patch(EmitLoop(body, Here(c)), Here(cond) + 1))

(* A fresh local that takes the value on top of the stack.                 *)
StoreFresh(c, x) == LET d == DeclareLocal(c, x) IN Store(d, "LOCAL", Declared(d))
Incremented(c, slot) ==
  Store(Op(PushConst(Load(c, "LOCAL", slot), "int", IntV(1)), "ADD"), "LOCAL", slot)

(* The loop variable and the hidden end value are locals of a scope around *)
(* the body; the step increments the loop variable itself.                 *)
CompileFor(c, s) ==
  LET lo   == StoreFresh(Compile(BeginScope(c, FALSE), s.lo), s.x)
      var  == Declared(lo)
      init == StoreFresh(Compile(lo, s.hi), " __for_end")
      test == Op(Load(Load(init, "LOCAL", var), "LOCAL", Declared(init)), "LT")
      body == CompileLoopBody(EmitJump(test, "JUMP_IF_FALSE"), s.body)
      back == EmitLoop(Incremented(body, var), Here(init))
  IN EndScope(LoopPop(Patch(back, Here(test) + 1)))

(* Over an array: the array and the index are hidden locals, and the       *)
(* length is asked for before every turn.                                  *)
CompileForIn(c, s) ==
  LET it   == StoreFresh(Compile(BeginScope(c, FALSE), s.iterable), " __for_it")
      idx  == StoreFresh(PushConst(it, "int", IntV(0)), " __for_idx")
      var  == StoreFresh(Op(idx, "PUSH_NIL"), s.x)
      i    == Declared(idx)
      len  == OpNative(Load(Load(var, "LOCAL", i), "LOCAL", Declared(it)), "myon.len", 1)
      test == Op(len, "LT")
      item == Op(Load(Load(EmitJump(test, "JUMP_IF_FALSE"), "LOCAL", Declared(it)), "LOCAL", i),
                 "INDEX_GET")
      body == CompileLoopBody(Store(item, "LOCAL", Declared(var)), s.body)
      back == EmitLoop(Incremented(body, i), Here(var))
  IN EndScope(LoopPop(Patch(back, Here(test) + 1)))

CompileLoopExit(c, s) ==
  LET f == Cur(c)
      n == Len(f.loops)
      at == Here(c) + 1
      g == IF s.s = "break" THEN [f EXCEPT !.loops[n].breaks = Append(@, at)]
                            ELSE [f EXCEPT !.loops[n].continues = Append(@, at)]
  IN IF n = 0 THEN Fail(c) ELSE SetFn(EmitJump(c, "JUMP"), g)

CompileReturn(c, s) == OpU8(CompileArgs(c, s.values), "RET", Len(s.values))

(* The name is declared before the body is compiled: it may call itself.   *)
CompileFuncDecl(c, s) ==
  LET d == DeclareLocal(c, s.x)
  IN Store(MakeClosure(CompileFunction(d, s.x, s.params, s.body)), "LOCAL", Declared(d))

(* The methods that are left become chunks; no closure is made of them.    *)
MethodName(x, name) == x \o "." \o name
CompileStruct(c, s) ==
  LET m == Head(s.methods)
  IN IF s.methods = <<>> THEN c
     ELSE Compile(CompileFunction(c, MethodName(s.x, m.x), <<"self">> \o m.params, m.body).c,
                  [s EXCEPT !.methods = Tail(@)])

CompileStmt(c, s) ==
  CASE s.s = "assign"   -> CompileAssign(c, s)
    [] s.s = "set"      -> CompileSet(c, s)
    [] s.s = "setop"    -> Fail(c)
    [] s.s = "compound" -> CompileCompound(c, s)
    [] s.s = "expr"     -> Op(Compile(c, s.value), "POP")
    [] s.s = "if"       -> CompileIf(c, s)
    [] s.s = "arms"     -> CompileArms(c, s)
    [] s.s = "while"    -> CompileWhile(c, s)
    [] s.s = "for"      -> CompileFor(c, s)
    [] s.s = "forin"    -> CompileForIn(c, s)
    [] s.s \in {"break", "continue"} -> CompileLoopExit(c, s)
    [] s.s = "block"    -> CompileBlock(c, s.body, TRUE)
    [] s.s = "expose"   -> ExposeLocal(c, s.x)
    [] s.s = "func"     -> CompileFuncDecl(c, s)
    [] s.s = "return"   -> CompileReturn(c, s)
    [] s.s = "struct"   -> CompileStruct(c, s)
    [] s.s = "seq"      -> IF s.items = <<>> THEN c
                           ELSE CompileBody(Compile(c, Head(s.items)), Tail(s.items))

(* A compile error leaves everything at once.                              *)
Compile(c, x) ==
  CASE c.err -> c
    [] ~c.err /\ "e" \in DOMAIN x -> CompileExpr(c, x)
    [] ~c.err /\ "s" \in DOMAIN x -> CompileStmt(c, x)

(* The structs are registered and checked before anything is compiled.     *)
CompileProgram(p) ==
  LET ds == StructsOf(p)
      c  == [fns |-> <<FnComp(1)>>, chunks |-> <<NewChunk("<main>")>>, consts |-> <<>>,
             natives |-> <<>>, structs |-> ds, err |-> ~StructsOK(ds)]
  IN Finish(CompileBody(c, p), 0)
=============================================================================
