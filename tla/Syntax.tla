------------------------------- MODULE Syntax -------------------------------
(***************************************************************************)
(* Myon's syntax tree (src/src/ast.h), as the parser makes it and the two  *)
(* engines read it.  An expression is a record with a field "e", a         *)
(* statement one with a field "s".  Annotations are types; a parameter or  *)
(* a variable without a useful one has AnyType, which is what a type parameter *)
(* of a generic function means at run time.                                *)
(***************************************************************************)
EXTENDS Integers, SequencesExt

(* Types (TypeSpec): the base, and what an array or a map is made of.      *)
Base(b)         == [base |-> b]
StructT(x)      == [base |-> "struct", name |-> x]
ArrayT(elem)    == [base |-> "array", elem |-> elem]
MapT(key, elem) == [base |-> "map", key |-> key, elem |-> elem]
AnyType             == StructT("T")
NoType          == [base |-> "none"]

Anys(xs) == [i \in 1..Len(xs) |-> AnyType]

NoName == ""

(* Expressions.  The parts of a string literal are literal text or an      *)
(* expression in braces.                                                   *)
IntLit(n)       == [e |-> "int", n |-> n]
BoolLit(b)      == [e |-> "bool", b |-> b]
Nil             == [e |-> "nil"]
Text(x)         == [text |-> x]
Hole(v)         == [hole |-> v]
StrLit(parts)   == [e |-> "string", parts |-> parts]
Ident(x)        == [e |-> "ident", x |-> x]
Unary(o, v)     == [e |-> "unary", op |-> o, operand |-> v]
Binary(o, l, r) == [e |-> "binary", op |-> o, left |-> l, right |-> r]
Logical(o, l, r) == [e |-> "logical", op |-> o, left |-> l, right |-> r]
Cast(to, v)     == [e |-> "cast", to |-> to, operand |-> v]
NamedCall(f, names, args) == [e |-> "call", callee |-> f, names |-> names, args |-> args]
CallOf(f, args) == NamedCall(f, [i \in 1..Len(args) |-> NoName], args)
Call(x, args)   == CallOf(Ident(x), args)
Construct(x, names, args) == NamedCall(Ident(x), names, args)
Member(v, x)    == [e |-> "member", target |-> v, x |-> x]
Method(v, x, args) == CallOf(Member(v, x), args)
Index(v, i)     == [e |-> "index", target |-> v, index |-> i]
NewArray(elem)  == [e |-> "newarray", type |-> ArrayT(elem)]
NewMap(key, elem) == [e |-> "newmap", type |-> MapT(key, elem)]
Lambda(ps, b)   == [e |-> "lambda", params |-> ps, types |-> Anys(ps), body |-> b]

(* Statements.                                                             *)
Multi(xs, v)    == [s |-> "assign", xs |-> xs, type |-> NoType, value |-> v]
Assign(x, v)    == Multi(<<x>>, v)
Typed(x, t, v)  == [s |-> "assign", xs |-> <<x>>, type |-> t, value |-> v]
Compound(x, o, v) == [s |-> "compound", x |-> x, op |-> o, value |-> v]
SetTarget(t, v) == [s |-> "set", target |-> t, value |-> v]
CompoundTarget(t, o, v) == [s |-> "setop", target |-> t, op |-> o, value |-> v]
ExprStmt(v)     == [s |-> "expr", value |-> v]
IfElse(arms, f) == [s |-> "if", arms |-> arms, else |-> f]
Arm(c, b)       == [cond |-> c, body |-> b]
If(c, t, f)     == IfElse(<<Arm(c, t)>>, f)
While(c, b)     == [s |-> "while", cond |-> c, body |-> b]
For(x, lo, hi, b) == [s |-> "for", x |-> x, lo |-> lo, hi |-> hi, body |-> b]
ForIn(x, v, b)  == [s |-> "forin", x |-> x, iterable |-> v, body |-> b]
Break           == [s |-> "break"]
Continue        == [s |-> "continue"]
Block(b)        == [s |-> "block", body |-> b]
Expose(x)       == [s |-> "expose", x |-> x]
TypedFunc(x, ps, ts, b) == [s |-> "func", x |-> x, params |-> ps, types |-> ts, body |-> b]
Func(x, ps, b)  == TypedFunc(x, ps, Anys(ps), b)
Return(vs)      == [s |-> "return", values |-> vs]
Struct(x, parent, fields, methods) ==
  [s |-> "struct", x |-> x, parent |-> parent, fields |-> fields, methods |-> methods]
NoParent        == ""

(* The expressions of an argument list, the statements of a body.          *)
List(es)        == [e |-> "list", items |-> es]
Body(ss)        == [s |-> "seq", items |-> ss]

Println(v)      == ExprStmt(Call("myon.println", <<v>>))

(* The built-in functions of the model; the VM's compiler adds myon.len.   *)
IsNative(x)     == x \in {"myon.println", "myon.string.to_int"}

-----------------------------------------------------------------------------
(* The struct declarations of a program, in order.                         *)
StructsOf(p) == SelectSeq(p, LAMBDA st : st.s = "struct")

(* The place of a declaration, 0 for none: the first of its name.          *)
StructAt(ds, x) == SelectInSeq(ds, LAMBDA d : d.x = x)
IsStruct(ds, x) == StructAt(ds, x) # 0

(* A declaration and those it inherits from, nearest first.                *)
Chain(ds, x) ==
  LET from[i \in 0..Len(ds)] == IF i = 0 THEN <<>> ELSE <<ds[i]>> \o from[StructAt(ds, ds[i].parent)]
  IN from[StructAt(ds, x)]

(* collect_fields: the parent's fields come first.                         *)
CollectFields(ds, x) ==
  LET chain == Reverse(Chain(ds, x))
  IN FlattenSeq([i \in 1..Len(chain) |-> chain[i].fields])

(* The checks of prescan and of mvm_compile_program: parents exist, and no *)
(* field is declared again below its declaration.                          *)
StructsOK(ds) ==
  \A i \in 1..Len(ds) :
    LET up == CollectFields(ds, ds[i].parent)
    IN /\ ds[i].parent = NoParent \/ IsStruct(ds, ds[i].parent)
       /\ \A a \in 1..Len(ds[i].fields), b \in 1..Len(up) : ds[i].fields[a] # up[b]
=============================================================================
