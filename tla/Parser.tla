------------------------------- MODULE Parser -------------------------------
(***************************************************************************)
(* The recursive descent of src/src/parser.c, from tokens to the trees of  *)
(* module Syntax.  The parser's state p has                                *)
(*   p.toks, p.pos  the tokens and the place among them;                   *)
(*   p.v            what the last rule made;                               *)
(*   p.ok           no syntax error yet (the first longjmps out).          *)
(* A rule takes a state and returns the next one.  Names of type           *)
(* parameters and types of results and fields are parsed and dropped: no   *)
(* engine looks at them.  So are the buffer limits on dotted names.        *)
(***************************************************************************)
EXTENDS Syntax, Lexer

Kind(p)     == p.toks[p.pos].k
Ahead(p, n) == p.toks[p.pos + n].k
Check(p, k) == p.ok /\ Kind(p) = k
AtOneOf(p, ks) == p.ok /\ Kind(p) \in ks

Advance(p)     == IF Check(p, "eof") THEN p ELSE [p EXCEPT !.pos = @ + 1]
Yield(p, v)    == IF p.ok THEN [p EXCEPT !.v = v] ELSE p
SyntaxError(p) == [p EXCEPT !.ok = FALSE]

Match(p, k)    == IF Check(p, k) THEN Advance(p) ELSE p
Expect(p, k)   == IF Check(p, k) THEN Advance(p) ELSE SyntaxError(p)
ExpectName(p)  == IF Check(p, "ident") THEN Yield(Advance(p), p.toks[p.pos].x)
                                       ELSE SyntaxError(p)

Terminators == {"newline", ";"}
RECURSIVE SkipTerminators(_)
SkipTerminators(p) == IF AtOneOf(p, Terminators) THEN SkipTerminators(Advance(p)) ELSE p

(* Every rule below comes back to Parse, which dispatches on its name.     *)
RECURSIVE Parse(_, _)

(* One rule after another, separated by commas: the values.                *)
RECURSIVE Commas(_, _, _)
Commas(p, rule, vs) ==
  LET q == Parse(p, rule)
  IN IF Check(q, ",") THEN Commas(Advance(q), rule, Append(vs, q.v))
                      ELSE Yield(q, Append(vs, q.v))

ParseList(p, rule) == Commas(p, rule, <<>>)

(* None or several, up to a closing parenthesis.                           *)
InParens(p, rule) ==
  LET q == Expect(p, "(")
  IN Expect(IF Check(q, ")") THEN Yield(q, <<>>) ELSE ParseList(q, rule), ")")

-----------------------------------------------------------------------------
(* Types.                                                                  *)

PrimTypes == {"int", "float", "str", "char", "bool", "void", "error"}

ParseArrayType(p) ==
  LET q == Expect(Parse(Expect(Advance(p), "("), "type"), ")") IN Yield(q, ArrayT(q.v))

ParseMapType(p) ==
  LET key == Parse(Expect(Advance(p), "("), "type")
      val == Expect(Parse(Expect(key, ","), "type"), ")")
  IN Yield(val, MapT(key.v, val.v))

(* The type arguments between < and >.                                     *)
ParseTypeArgs(p) == Expect(ParseList(Expect(p, "<"), "type"), ">")

ParseType(p) ==
  CASE AtOneOf(p, PrimTypes)   -> Yield(Advance(p), Base(Kind(p)))
    [] Check(p, "myon.array")  -> ParseArrayType(p)
    [] Check(p, "myon.map")    -> ParseMapType(p)
    [] Check(p, "ident")       -> LET q == ExpectName(p)
                                  IN Yield(IF Check(q, "<") THEN ParseTypeArgs(q) ELSE q, StructT(q.v))
    [] OTHER                   -> SyntaxError(p)

(* Parameters: pairs of a name and a type.                                 *)
ParseParam(p) ==
  LET name == ExpectName(p)
      type == Parse(Expect(name, ":"), "type")
  IN Yield(type, <<name.v, type.v>>)

Firsts(pairs)  == [i \in 1..Len(pairs) |-> pairs[i][1]]
Seconds(pairs) == [i \in 1..Len(pairs) |-> pairs[i][2]]

-----------------------------------------------------------------------------
(* Expressions.  Each level of binary operators has the level below it for *)
(* operands.                                                               *)

Below == [or |-> "and", and |-> "not", comparison |-> "additive",
          additive |-> "multiplicative", multiplicative |-> "unary"]
OperatorsOf ==
  [or |-> {"myon.or"}, and |-> {"myon.and"}, comparison |-> {"==", "!=", "<", ">", "<=", ">="},
   additive |-> {"+", "-"}, multiplicative |-> {"*", "/"}]

Join(o, l, r) ==
  CASE o = "myon.or"  -> Logical("or", l, r)
    [] o = "myon.and" -> Logical("and", l, r)
    [] OTHER          -> Binary(o, l, r)

Operand(p, level) ==
  LET q == Parse(Advance(p), Below[level]) IN Yield(q, Join(Kind(p), p.v, q.v))

(* Operators of one level associate to the left; of comparisons there is   *)
(* at most one.                                                            *)
RECURSIVE Chained(_, _)
Chained(p, level) ==
  IF AtOneOf(p, OperatorsOf[level]) THEN Chained(Operand(p, level), level) ELSE p

ParseLevel(p, level) == Chained(Parse(p, Below[level]), level)

ParseComparison(p) ==
  LET l == Parse(p, Below.comparison)
  IN IF AtOneOf(l, OperatorsOf.comparison) THEN Operand(l, "comparison") ELSE l

ParseNot(p) ==
  IF Check(p, "myon.not")
  THEN LET q == Parse(Advance(p), "not") IN Yield(q, Unary("not", q.v))
  ELSE Parse(p, "comparison")

ParseUnary(p) ==
  IF Check(p, "-")
  THEN LET q == Parse(Advance(p), "unary") IN Yield(q, Unary("-", q.v))
  ELSE Parse(Parse(p, "primary"), "postfix")

(* An argument: a name, if it has one, and an expression.                  *)
ParseArg(p) ==
  LET named == IF Check(p, "ident") THEN Ahead(p, 1) = "=" ELSE FALSE
      q     == Parse(IF named THEN Advance(Advance(p)) ELSE p, "expression")
  IN Yield(q, <<IF named THEN p.toks[p.pos].x ELSE NoName, q.v>>)

(* What follows a primary expression, p.v.                                 *)
ParsePostfix(p) ==
  LET name  == ExpectName(Advance(p))
      index == Expect(Parse(Advance(p), "expression"), "]")
      args  == InParens(p, "arg")
      on(q) == Parse(q, "postfix")
  IN CASE Check(p, ".") -> on(Yield(name, Member(p.v, name.v)))
       [] Check(p, "[") -> on(Yield(index, Index(p.v, index.v)))
       [] Check(p, "(") -> on(Yield(args, NamedCall(p.v, Firsts(args.v), Seconds(args.v))))
       [] OTHER         -> p

ParseCast(p) ==
  LET q == Expect(Parse(Expect(Advance(p), "("), "expression"), ")")
  IN Yield(q, Cast(Kind(p), q.v))

ParseNewArray(p) == LET q == ParseArrayType(p) IN Yield(q, NewArray(q.v.elem))
ParseNewMap(p)   == LET q == ParseMapType(p) IN Yield(q, NewMap(q.v.key, q.v.elem))

(* Parameters, result types and body of a function or a lambda.            *)
ParseSignature(p) ==
  LET params == InParens(p, "param")
      rets   == ParseList(Expect(params, "ret"), "type")
      body   == Parse(rets, "block")
  IN Yield(body, [params |-> Firsts(params.v), types |-> Seconds(params.v), body |-> body.v])

ParseLambda(p) ==
  LET q == ParseSignature(Advance(p))
  IN Yield(q, [e |-> "lambda", params |-> q.v.params, types |-> q.v.types, body |-> q.v.body])

(* myon.await takes all of the expression that follows.                    *)
AwaitOf(v)    == [e |-> "await", operand |-> v]
Generic(x, ts) == [e |-> "generic", x |-> x, types |-> ts]
ParseAwait(p) == LET q == Parse(Advance(p), "expression") IN Yield(q, AwaitOf(q.v))

(* A name before "<" is a generic one if type arguments and "(" follow:    *)
(* tried without commitment.                                               *)
ParseIdent(p) ==
  LET name  == ExpectName(p)
      types == ParseTypeArgs(name)
      plain == Yield(name, Ident(name.v))
  IN IF ~Check(name, "<") THEN plain
     ELSE IF Check(types, "(") THEN Yield(types, Generic(name.v, types.v)) ELSE plain

(* myon.a.b is one dotted identifier; type names may be part of it.        *)
SegmentKinds == {"ident", "int", "float", "str", "char", "bool"}
Segment(t)   == IF t.k = "ident" THEN t.x ELSE t.k
RECURSIVE Dotted(_, _)
Dotted(p, x) ==
  IF Check(p, ".") /\ Ahead(p, 1) \in SegmentKinds
  THEN Dotted(Advance(Advance(p)), x \o "." \o Segment(p.toks[p.pos + 1]))
  ELSE Yield(p, Ident(x))

(* What is in a hole of a literal must be one expression; otherwise the    *)
(* literal fails when it is evaluated, as a name nothing declares would.   *)
Start(src) == [toks |-> LexerTokenize(src), pos |-> 1, v |-> <<>>, ok |-> TRUE]
InvalidHole == Hole(Ident("invalid expression in string interpolation"))
ParsePart(part) ==
  LET q == Parse(Start(part.hole), "program")
  IN IF "text" \in DOMAIN part THEN part
     ELSE IF ~q.ok \/ Len(q.v) # 1 THEN InvalidHole
     ELSE IF q.v[1].s # "expr" THEN InvalidHole ELSE Hole(q.v[1].value)

ParseString(p) ==
  LET parts == p.toks[p.pos].parts
  IN Yield(Advance(p), StrLit([i \in 1..Len(parts) |-> ParsePart(parts[i])]))

ParsePrimary(p) ==
  CASE Check(p, "number")      -> Yield(Advance(p), IntLit(p.toks[p.pos].n))
    [] AtOneOf(p, {"true", "false"}) -> Yield(Advance(p), BoolLit(Kind(p) = "true"))
    [] Check(p, "string")      -> ParseString(p)
    [] Check(p, "myon.nil")    -> Yield(Advance(p), Nil)
    [] AtOneOf(p, {"str", "char", "int", "error"}) -> ParseCast(p)
    [] Check(p, "myon.array")  -> ParseNewArray(p)
    [] Check(p, "myon.map")    -> ParseNewMap(p)
    [] Check(p, "myon.lambda") -> ParseLambda(p)
    [] Check(p, "myon.await")  -> ParseAwait(p)
    [] Check(p, "ident")       -> ParseIdent(p)
    [] AtOneOf(p, {"self", "myon.print", "myon.input"}) -> Yield(Advance(p), Ident(Kind(p)))
    [] Check(p, "myon")        -> Dotted(Advance(p), "myon")
    [] Check(p, "(")           -> Expect(Parse(Advance(p), "expression"), ")")
    [] OTHER                   -> SyntaxError(p)

-----------------------------------------------------------------------------
(* Statements.                                                             *)

(* The statements up to the closing brace: terminators between them are    *)
(* skipped, and not required.                                              *)
RECURSIVE Statements(_, _)
Statements(p, sts) ==
  LET q == SkipTerminators(p)
      r == Parse(q, "statement")
  IN IF ~q.ok \/ AtOneOf(q, {"}", "eof"}) THEN Yield(q, sts) ELSE Statements(r, Append(sts, r.v))

ParseBlock(p) == Expect(Statements(Expect(p, "{"), <<>>), "}")

(* A program: here a terminator or the end must follow every statement.    *)
RECURSIVE Toplevel(_, _)
Toplevel(p, sts) ==
  LET q == SkipTerminators(p)
      r == Parse(q, "statement")
  IN IF ~q.ok \/ Check(q, "eof") THEN Yield(q, sts)
     ELSE IF AtOneOf(r, Terminators \cup {"eof"}) THEN Toplevel(r, Append(sts, r.v))
     ELSE SyntaxError(r)

(* Does an assignment to names begin here?  The list of targets must end   *)
(* in "=".                                                                 *)
CompoundOps == ("+=" :> "+") @@ ("-=" :> "-") @@ ("*=" :> "*") @@ ("/=" :> "/")
RECURSIVE TargetsEnd(_, _)
TargetsEnd(p, i) ==
  IF p.toks[i].k = "," THEN p.toks[i + 1].k = "ident" /\ TargetsEnd(p, i + 2)
                       ELSE p.toks[i].k = "="

BadLooksLikeAssignment(p) ==    \* forgets lists of targets
  IF Check(p, "ident") THEN Ahead(p, 1) \in {":", "="} \cup DOMAIN CompoundOps ELSE FALSE

LooksLikeAssignment(p) ==
  IF Check(p, "ident")
  THEN \/ Ahead(p, 1) \in {":", "="} \cup DOMAIN CompoundOps
       \/ Ahead(p, 1) = "," /\ TargetsEnd(p, p.pos + 1)
  ELSE FALSE

ParseAssignment(p) ==
  LET names == ParseList(p, "name")
      type  == IF Check(names, ":") THEN Parse(Advance(names), "type") ELSE Yield(names, NoType)
      value == Parse(Advance(type), "expression")
  IN CASE Check(type, "=") -> Yield(value, [Multi(names.v, value.v) EXCEPT !.type = type.v])
       [] AtOneOf(type, DOMAIN CompoundOps) ->
            Yield(value, Compound(names.v[1], CompoundOps[Kind(type)], value.v))
       [] OTHER -> SyntaxError(type)

(* Or an expression, which may turn out to be a target.                    *)
ParseExprOrTarget(p) ==
  LET t      == Parse(p, "expression")
      value  == Parse(Advance(t), "expression")
      target == t.ok /\ t.v.e \in {"member", "index"}
  IN CASE target /\ Check(t, "=") -> Yield(value, SetTarget(t.v, value.v))
       [] target /\ AtOneOf(t, DOMAIN CompoundOps) ->
            Yield(value, CompoundTarget(t.v, CompoundOps[Kind(t)], value.v))
       [] OTHER -> Yield(t, ExprStmt(t.v))

(* "then" may follow the condition of myon.if, and must that of myon.elif. *)
ParseArm(p) ==
  LET cond == Parse(Advance(p), "expression")
      body == Parse(IF Kind(p) = "myon.if" THEN Match(cond, "then") ELSE Expect(cond, "then"), "block")
  IN Yield(body, Arm(cond.v, body.v))

RECURSIVE Arms(_, _)
Arms(p, arms) ==
  LET q == ParseArm(p)
      all == Append(arms, q.v)
      last == Parse(Advance(q), "block")
  IN CASE Check(q, "myon.elif") -> Arms(q, all)
       [] Check(q, "myon.else") -> Yield(last, IfElse(all, last.v))
       [] OTHER                 -> Yield(q, IfElse(all, <<>>))

ParseWhile(p) ==
  LET cond == Parse(Advance(p), "expression")
      body == Parse(cond, "block")
  IN Yield(body, While(cond.v, body.v))

ParseForRange(p, x) ==
  LET lo   == Parse(Expect(Advance(p), "("), "expression")
      hi   == Parse(Expect(lo, ","), "expression")
      body == Parse(Expect(hi, ")"), "block")
  IN Yield(body, For(x, lo.v, hi.v, body.v))

ParseFor(p) ==
  LET var  == ExpectName(Advance(p))
      head == Expect(var, "myon.in")
      over == Parse(head, "expression")
      body == Parse(over, "block")
  IN IF Check(head, "range") THEN ParseForRange(head, var.v)
     ELSE Yield(body, ForIn(var.v, over.v, body.v))

ParseTparams(p) ==
  IF Check(p, "<") THEN Expect(ParseList(Advance(p), "name"), ">") ELSE p

ParseFunc(p) ==
  LET name == ExpectName(Advance(p))
      sig  == ParseSignature(ParseTparams(name))
  IN Yield(sig, TypedFunc(name.v, sig.v.params, sig.v.types, sig.v.body))

AsyncFunc(func) == [s |-> "async", func |-> func]
ParseAsync(p) ==
  LET q == ParseFunc(Advance(p))
  IN IF Check(Advance(p), "myon.func") THEN Yield(q, AsyncFunc(q.v)) ELSE SyntaxError(p)

(* The members of a struct, st so far.                                     *)
RECURSIVE Members(_, _)
Members(p, st) ==
  LET q      == SkipTerminators(p)
      method == ParseFunc(q)
      field  == ParseParam(q)
  IN CASE ~q.ok \/ AtOneOf(q, {"}", "eof"}) -> Yield(Expect(q, "}"), st)
       [] Check(q, "myon.func") -> IF method.ok THEN Members(method, [st EXCEPT !.methods = Append(@, method.v)])
                                   ELSE method
       [] OTHER                 -> IF field.ok THEN Members(field, [st EXCEPT !.fields = Append(@, field.v[1])])
                                   ELSE field

ParseStruct(p) ==
  LET name   == ExpectName(Advance(p))
      head   == ParseTparams(name)
      parent == IF Check(head, "myon.extends") THEN ExpectName(Advance(head)) ELSE Yield(head, NoParent)
  IN Members(Expect(parent, "{"), Struct(name.v, parent.v, <<>>, <<>>))

ParseReturn(p) ==
  LET q == Advance(p)
      values == ParseList(q, "expression")
  IN CASE Check(q, "void") -> Yield(Advance(q), Return(<<>>))
       [] AtOneOf(q, Terminators \cup {"}", "eof"}) -> Yield(q, Return(<<>>))
       [] OTHER -> Yield(values, Return(values.v))

(* module <path> [as <alias>], system myon.useversion = <n>.               *)
ModuleDecl(path, alias) == [s |-> "module", path |-> path, alias |-> alias]
RECURSIVE Path(_, _)
Path(p, xs) ==
  LET name == ExpectName(Advance(p))
  IN IF Check(p, ".") THEN Path(name, Append(xs, name.v)) ELSE Yield(p, xs)

ParseModule(p) ==
  LET q     == Advance(p)
      path  == Path(Advance(q), <<IF Check(q, "myon") THEN "myon" ELSE q.toks[q.pos].x>>)
      alias == ExpectName(Advance(path))
  IN CASE ~AtOneOf(q, {"myon", "ident"}) -> SyntaxError(q)
       [] AtOneOf(q, {"myon", "ident"}) /\ Check(path, "as") -> Yield(alias, ModuleDecl(path.v, alias.v))
       [] OTHER -> Yield(path, ModuleDecl(path.v, NoName))

SystemDecl(n) == [s |-> "system", version |-> n]
ParseSystem(p) ==
  LET field == ExpectName(Expect(Expect(Advance(p), "myon"), "."))
      head  == Expect(IF field.v = "useversion" THEN field ELSE SyntaxError(field), "=")
  IN IF Check(head, "number") THEN Yield(Advance(head), SystemDecl(head.toks[head.pos].n))
                              ELSE SyntaxError(head)

ParseExpose(p) == LET q == ExpectName(Advance(p)) IN Yield(q, Expose(q.v))

ParseStatement(p) ==
  CASE Check(p, "system")        -> ParseSystem(p)
    [] Check(p, "module")        -> ParseModule(p)
    [] Check(p, "myon.if")       -> Arms(p, <<>>)
    [] Check(p, "myon.while")    -> ParseWhile(p)
    [] Check(p, "myon.for")      -> ParseFor(p)
    [] Check(p, "myon.func")     -> ParseFunc(p)
    [] Check(p, "myon.struct")   -> ParseStruct(p)
    [] Check(p, "ret")           -> ParseReturn(p)
    [] Check(p, "myon.async")    -> ParseAsync(p)
    [] Check(p, "myon.break")    -> Yield(Advance(p), Break)
    [] Check(p, "myon.continue") -> Yield(Advance(p), Continue)
    [] Check(p, "myon.expose")   -> ParseExpose(p)
    [] Check(p, "{")             -> LET q == ParseBlock(p) IN Yield(q, Block(q.v))
    [] OTHER                     -> IF LooksLikeAssignment(p) THEN ParseAssignment(p)
                                                              ELSE ParseExprOrTarget(p)

Parse(p, rule) ==
  CASE ~p.ok -> p
    [] p.ok /\ rule = "program"    -> Toplevel(p, <<>>)
    [] p.ok /\ rule = "statement"  -> ParseStatement(p)
    [] p.ok /\ rule = "block"      -> ParseBlock(p)
    [] p.ok /\ rule = "type"       -> ParseType(p)
    [] p.ok /\ rule = "name"       -> ExpectName(p)
    [] p.ok /\ rule = "param"      -> ParseParam(p)
    [] p.ok /\ rule = "arg"        -> ParseArg(p)
    [] p.ok /\ rule = "expression" -> ParseLevel(p, "or")
    [] p.ok /\ rule = "and"        -> ParseLevel(p, "and")
    [] p.ok /\ rule = "not"        -> ParseNot(p)
    [] p.ok /\ rule = "comparison" -> ParseComparison(p)
    [] p.ok /\ rule = "additive"   -> ParseLevel(p, "additive")
    [] p.ok /\ rule = "multiplicative" -> ParseLevel(p, "multiplicative")
    [] p.ok /\ rule = "unary"      -> ParseUnary(p)
    [] p.ok /\ rule = "primary"    -> ParsePrimary(p)
    [] p.ok /\ rule = "postfix"    -> ParsePostfix(p)

(* The statements of a text; NoProgram after a syntax error.               *)
NoProgram == <<[s |-> "syntax error"]>>
ParserParse(src) ==
  LET q == Parse(Start(src), "program") IN IF q.ok THEN q.v ELSE NoProgram
=============================================================================
