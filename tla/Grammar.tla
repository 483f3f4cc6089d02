------------------------------- MODULE Grammar -------------------------------
(***************************************************************************)
(* How a tree is written down: the grammar of src/docs/myon_spec.md:1736   *)
(* read as a writer, against which Parser is checked.  A layout lay says   *)
(* what a writer may choose:                                               *)
(*   lay.sep     what separates statements, a newline or a semicolon;      *)
(*   lay.wide    newlines and comments wherever they mean nothing;         *)
(*   lay.parens  parentheses also around operands that need none;          *)
(*   lay.then    "then" also after the condition of myon.if.               *)
(***************************************************************************)
EXTENDS Parser

Layouts ==
  {[sep |-> <<LexNewline>>, wide |-> FALSE, parens |-> FALSE, then |-> FALSE],
   [sep |-> <<LexSymbol(";")>>, wide |-> FALSE, parens |-> TRUE, then |-> TRUE],
   [sep |-> <<LexComment, LexNewline>>, wide |-> TRUE, parens |-> FALSE, then |-> TRUE]}

Sym(x)  == <<LexSymbol(x)>>
W(x)    == <<LexWord(x)>>
My(x)   == <<LexWord("myon"), LexSymbol("."), LexWord(x)>>
Gap(lay) == IF lay.wide THEN <<LexComment, LexNewline>> ELSE <<>>

(* Parts that stand between commas; inside of parentheses a gap may follow *)
(* each of them.                                                           *)
ListText(texts, after) ==
  FlattenSeq([i \in 1..Len(texts) |-> (IF i = 1 THEN <<>> ELSE Sym(",") \o after) \o texts[i]])
Parens(texts, lay) == Sym("(") \o Gap(lay) \o ListText(texts, Gap(lay)) \o Gap(lay) \o Sym(")")
NamesText(xs)      == ListText([i \in 1..Len(xs) |-> W(xs[i])], <<>>)

RECURSIVE TypeText(_, _)
TypeText(t, lay) ==
  CASE t.base = "struct" -> W(t.name)
    [] t.base = "array"  -> My("array") \o Parens(<<TypeText(t.elem, lay)>>, lay)
    [] t.base = "map"    -> My("map") \o Parens(<<TypeText(t.key, lay), TypeText(t.elem, lay)>>, lay)
    [] OTHER             -> W(t.base)

(* A dotted path.                                                          *)
PathText(path) == W(path[1]) \o FlattenSeq([i \in 1..Len(path) - 1 |-> Sym(".") \o W(path[i + 1])])

ParamsText(xs, types, lay) ==
  Parens([i \in 1..Len(xs) |-> W(xs[i]) \o Sym(":") \o TypeText(types[i], lay)], lay)

LevelOf == [or |-> 1, and |-> 2] @@ [o \in {"==", "!=", "<", ">", "<=", ">="} |-> 4]
             @@ [o \in {"+", "-"} |-> 5] @@ [o \in {"*", "/"} |-> 6]

(* How tightly an expression holds together: the level of its grammar rule.*)
Level(v) ==
  CASE v.e \in {"logical", "binary"} ->
         LevelOf[v.op]
    [] v.e = "unary" -> IF v.op = "not" THEN 3 ELSE 7
    [] v.e = "await" -> 0
    [] OTHER         -> 8

OperatorText(v) == IF v.op \in {"or", "and"} THEN My(v.op) ELSE Sym(v.op)

(* The operands of a comparison are additive ones on both sides; all other *)
(* operators take one of their own level on the left.                      *)
LeftLevel(v) == IF Level(v) = 4 THEN 5 ELSE Level(v)

(* The built-in functions have dotted names.                               *)
IdentText(x) ==
  CASE x = "myon.println"       -> My("println")
    [] x = "myon.string.to_int" -> My("string") \o Sym(".") \o W("to_int")
    [] OTHER                    -> W(x)

(* The text of an expression or of a statement.                            *)
RECURSIVE Written(_, _)

(* Statements with a separator between them.                               *)
Separated(sts, lay) ==
  FlattenSeq([i \in 1..Len(sts) |-> (IF i = 1 THEN <<>> ELSE lay.sep) \o Written(sts[i], lay)])

(* An operand of a rule that asks for at least this level.                 *)
OperandText(v, level, lay) ==
  IF Level(v) < level \/ (lay.parens /\ v.e = "binary")
  THEN Parens(<<Written(v, lay)>>, lay) ELSE Written(v, lay)

ArgText(x, v, lay) == (IF x = NoName THEN <<>> ELSE W(x) \o Sym("=")) \o Written(v, lay)
Texts(vs, lay)     == [i \in 1..Len(vs) |-> Written(vs[i], lay)]
SignatureText(f, lay) ==
  ParamsText(f.params, f.types, lay) \o W("ret") \o TypeText(AnyType, lay)
    \o Written(Body(f.body), lay)

ExpressionText(v, lay) ==
  CASE v.e = "int"     -> <<LexInt(v.n)>>
    [] v.e = "bool"    -> W(IF v.b THEN "true" ELSE "false")
    [] v.e = "nil"     -> My("nil")
    [] v.e = "string"  ->
         <<LexString([i \in 1..Len(v.parts) |->
                        IF "hole" \in DOMAIN v.parts[i] THEN Hole(Written(v.parts[i].hole, lay))
                                                        ELSE v.parts[i]])>>
    [] v.e = "ident"   -> IdentText(v.x)
    [] v.e = "unary"   -> (IF v.op = "not" THEN My("not") ELSE Sym(v.op))
                            \o OperandText(v.operand, Level(v), lay)
    [] v.e \in {"binary", "logical"} ->
         OperandText(v.left, LeftLevel(v), lay) \o OperatorText(v)
           \o OperandText(v.right, Level(v) + 1, lay)
    [] v.e = "cast"    -> W(v.to) \o Parens(<<Written(v.operand, lay)>>, lay)
    [] v.e = "call"    -> OperandText(v.callee, 8, lay)
                            \o Parens([i \in 1..Len(v.args) |-> ArgText(v.names[i], v.args[i], lay)], lay)
    [] v.e = "member"  -> OperandText(v.target, 8, lay) \o Sym(".") \o W(v.x)
    [] v.e = "index"   -> OperandText(v.target, 8, lay) \o Sym("[") \o Gap(lay)
                            \o Written(v.index, lay) \o Gap(lay) \o Sym("]")
    [] v.e \in {"newarray", "newmap"} -> TypeText(v.type, lay)
    [] v.e = "lambda"  -> My("lambda") \o SignatureText(v, lay)
    [] v.e = "await"   -> My("await") \o Written(v.operand, lay)
    [] v.e = "generic" -> W(v.x) \o Sym("<")
                            \o ListText([i \in 1..Len(v.types) |-> TypeText(v.types[i], lay)], <<>>)
                            \o Sym(">")

ArmText(arm, i, lay) ==
  My(IF i = 1 THEN "if" ELSE "elif") \o Written(arm.cond, lay)
    \o (IF i > 1 \/ lay.then THEN W("then") ELSE <<>>) \o Written(Body(arm.body), lay)
IfText(st, lay) ==
  FlattenSeq([i \in 1..Len(st.arms) |-> ArmText(st.arms[i], i, lay)])
    \o (IF st.else = <<>> THEN <<>> ELSE My("else") \o Written(Body(st.else), lay))

FieldText(x, lay) == W(x) \o Sym(":") \o TypeText(AnyType, lay) \o lay.sep
StructText(st, lay) ==
  My("struct") \o W(st.x) \o (IF st.parent = NoParent THEN <<>> ELSE My("extends") \o W(st.parent))
    \o Sym("{") \o Gap(lay) \o FlattenSeq([i \in 1..Len(st.fields) |-> FieldText(st.fields[i], lay)])
    \o FlattenSeq([i \in 1..Len(st.methods) |-> Written(st.methods[i], lay) \o lay.sep]) \o Sym("}")

TypeNote(t, lay) == IF t = NoType THEN <<>> ELSE Sym(":") \o TypeText(t, lay)
StatementText(st, lay) ==
  CASE st.s = "assign"   -> NamesText(st.xs) \o TypeNote(st.type, lay) \o Sym("=") \o Written(st.value, lay)
    [] st.s = "compound" -> W(st.x) \o Sym(st.op \o "=") \o Written(st.value, lay)
    [] st.s = "set"      -> Written(st.target, lay) \o Sym("=") \o Written(st.value, lay)
    [] st.s = "setop"    -> Written(st.target, lay) \o Sym(st.op \o "=") \o Written(st.value, lay)
    [] st.s = "expr"     -> Written(st.value, lay)
    [] st.s = "if"       -> IfText(st, lay)
    [] st.s = "while"    -> My("while") \o Written(st.cond, lay) \o Written(Body(st.body), lay)
    [] st.s = "for"      -> My("for") \o W(st.x) \o My("in") \o W("range")
                              \o Parens(Texts(<<st.lo, st.hi>>, lay), lay) \o Written(Body(st.body), lay)
    [] st.s = "forin"    -> My("for") \o W(st.x) \o My("in") \o Written(st.iterable, lay)
                              \o Written(Body(st.body), lay)
    [] st.s = "break"    -> My("break")
    [] st.s = "continue" -> My("continue")
    [] st.s = "block"    -> Written(Body(st.body), lay)
    [] st.s = "expose"   -> My("expose") \o W(st.x)
    [] st.s = "func"     -> My("func") \o W(st.x) \o SignatureText(st, lay)
    [] st.s = "return"   -> W("ret") \o ListText(Texts(st.values, lay), <<>>)
    [] st.s = "struct"   -> StructText(st, lay)
    [] st.s = "async"    -> My("async") \o Written(st.func, lay)
    [] st.s = "module"   -> W("module") \o PathText(st.path) \o (IF st.alias = NoName THEN <<>> ELSE W("as") \o W(st.alias))
    [] st.s = "system"   -> W("system") \o My("useversion") \o Sym("=") \o <<LexInt(st.version)>>
    [] st.s = "seq"      -> Sym("{") \o Gap(lay) \o Separated(st.items, lay) \o Gap(lay) \o Sym("}")

Written(node, lay) ==
  IF "e" \in DOMAIN node THEN ExpressionText(node, lay) ELSE StatementText(node, lay)

(* The text of a program.                                                  *)
TextOf(program, lay) == Gap(lay) \o Separated(program, lay) \o Gap(lay)

(* Statements no run executes, to be written and read all the same: how    *)
(* operators combine, and the declarations the two engines of the model    *)
(* do not have.                                                            *)
Combined ==
  LET a == Ident("a")
      b == Ident("b")
      less == Binary("<", a, b)
      sum  == Binary("+", a, b)
  IN <<Binary("-", a, Binary("-", a, b)), Binary("-", Binary("-", a, b), a),
       Binary("*", sum, Unary("-", Unary("-", a))), Unary("-", Binary("/", a, b)),
       Unary("not", less), Binary("==", less, Unary("not", a)), Unary("not", Unary("not", less)),
       Logical("or", Logical("and", a, less), Logical("and", Logical("or", a, b), less)),
       Method(sum, "f", <<less, b>>), Index(CallOf(Index(a, sum), <<>>), less),
       Call("a", <<less, Binary(">", b, a)>>), Member(Unary("-", a), "f"),
       CallOf(Generic("a", <<ArrayT(Base("int")), StructT("b")>>), <<a>>),
       AwaitOf(Logical("or", a, b)), Logical("or", AwaitOf(a), b)>>

Unexecuted ==
  <<SystemDecl(1), ModuleDecl(<<"myon", "http">>, "h"), ModuleDecl(<<"a">>, NoName),
    AsyncFunc(Func("a", <<>>, <<Return(<<>>)>>)), AsyncFunc(Func("b", <<"a">>, <<>>))>>
  \o [i \in 1..Len(Combined) |-> ExprStmt(Combined[i])]
=============================================================================
