------------------------------ MODULE MCEngines ------------------------------
(***************************************************************************)
(* The programs the two engines are compared on.  A program is a context   *)
(* around a body of one or two of the pieces below; each context puts the  *)
(* body, and the variable x it works on, into another relation: global,    *)
(* parameter, captured once or twice, rebound by a loop, alive in several  *)
(* frames of one function.                                                 *)
(***************************************************************************)
EXTENDS Vm

LOCAL INSTANCE Syntax

Num(n)     == IntLit(n)
Var(x)     == Ident(x)
X          == Var("x")
Plus(l, r) == Binary("+", l, r)
Minus(l, r) == Binary("-", l, r)
Less(l, r) == Binary("<", l, r)
Show(x)    == Println(Var(x))
Run(x)     == ExprStmt(Call(x, <<>>))

(* Declared by every program: a function of two results, and a struct with *)
(* a heir.                                                                 *)
Pair == Func("pair", <<"p">>, <<Return(<<Plus(Var("p"), Num(1)), Plus(Var("p"), Num(4))>>)>>)

Self(f) == Member(Var("self"), f)
Point == Struct("Point", NoParent, <<"v">>,
                <<Func("get", <<>>, <<Return(<<Self("v")>>)>>),
                  Func("bump", <<"n">>, <<SetTarget(Self("v"), Plus(Self("v"), Var("n")))>>)>>)
Pixel == Struct("Pixel", "Point", <<"w">>,
                <<Func("get", <<>>, <<Assign("k", Self("w")), Return(<<Plus(Self("v"), Var("k"))>>)>>)>>)
Prelude == <<Pair, Point, Pixel>>

-----------------------------------------------------------------------------
(* Pieces that fit everywhere.                                             *)
Count    == <<Assign("x", Plus(X, Num(1)))>>
NewLocal == <<Assign("y", X), Show("y")>>
Branch   == <<If(Less(X, Num(2)), <<Assign("x", Num(3))>>,
                   <<Assign("z", X), Show("z")>>)>>
InBlockP == <<Block(<<Assign("z", Plus(X, Num(1))), Show("z")>>)>>
TwoOf    == <<Multi(<<"x", "w">>, Call("pair", <<X>>)), Show("w")>>
Reader   == <<Assign("g", Lambda(<<>>, <<Return(<<X>>)>>)),
              Assign("x", Num(7)), Println(Call("g", <<>>))>>
Writer   == <<Assign("h", Lambda(<<"p">>, <<Assign("x", Plus(Var("p"), X)),
                                                 Return(<<X>>)>>)),
              Println(Call("h", <<Num(2)>>)), Show("x")>>
BoxedLocal == <<Block(<<Assign("z", X),
                          Assign("g2", Lambda(<<>>, <<Assign("z", Plus(Var("z"), Num(5))),
                                                           Return(<<Var("z")>>)>>)),
                          Println(Call("g2", <<>>)), Show("z")>>)>>
Exposed  == <<Block(<<Assign("e", X), Expose("e")>>), Show("e")>>
Guarded  == <<If(Logical("or", Less(X, Num(2)), Less(Num(5), X)),
                   <<Println(Num(9))>>, <<>>)>>
NestedFor == <<For("j", Num(0), Num(2), <<If(Logical("and", Less(Num(0), Var("j")), BoolLit(TRUE)),
                                                  <<Continue>>, <<>>),
                                             Show("j"), Assign("x", Plus(X, Var("j")))>>)>>

(* Pieces about objects.                                                   *)
IntArray  == Assign("a", NewArray(Base("int")))
Push(v)   == ExprStmt(Method(Var("a"), "push", <<v>>))
At0       == Index(Var("a"), Num(0))
Elements  == <<IntArray, Push(X), Push(Plus(X, Num(2))), Assign("b", Var("a")),
               SetTarget(At0, Index(Var("b"), Num(1))), Show("a"),
               Assign("x", Method(Var("b"), "pop", <<>>)), Show("b")>>
Growing   == <<IntArray, Push(X), Push(Num(2)),
               ForIn("i", Var("a"), <<If(Less(Var("i"), Num(4)), <<Push(Plus(Var("i"), Num(3)))>>, <<>>),
                                      If(Less(Num(4), Var("i")), <<Break>>, <<>>),
                                      Show("i")>>), Show("a")>>
Mapped    == <<Assign("m", NewMap(Base("int"), Base("int"))),
               SetTarget(Index(Var("m"), X), Plus(X, Num(1))),
               SetTarget(Index(Var("m"), Num(2)), Num(5)), Show("m"),
               Println(Method(Var("m"), "has", <<Num(2)>>)),
               ExprStmt(Method(Var("m"), "delete", <<X>>)), Println(Method(Var("m"), "keys", <<>>))>>
Objects   == <<Assign("s", Construct("Pixel", <<"w", "v">>, <<Num(2), X>>)), Assign("o", Var("s")),
               ExprStmt(Method(Var("s"), "bump", <<Num(3)>>)), Show("o"),
               Assign("x", Method(Var("o"), "get", <<>>))>>
Cyclic    == <<Assign("s", Construct("Point", <<"v">>, <<X>>)),
               SetTarget(Member(Var("s"), "v"), Var("s")), Show("s")>>
FunctionIn == <<Assign("m", NewMap(Base("int"), AnyType)),
               SetTarget(Index(Var("m"), Num(1)),
                         Lambda(<<"p">>, <<Assign("x", Plus(X, Var("p"))), Return(<<X>>)>>)),
               Println(CallOf(Index(Var("m"), Num(1)), <<Num(2)>>)), Show("x")>>
Texts     == <<Assign("t", StrLit(<<Text("a"), Hole(Plus(X, Num(1))), Text("b")>>)), Show("t"),
               Multi(<<"u", "err">>, Call("myon.string.to_int", <<StrLit(<<Hole(X)>>)>>)),
               Println(Binary("+", Cast("str", Var("u")), Var("t"))), Show("err"),
               Println(Cast("int", Cast("char", StrLit(<<Text("a")>>))))>>
Sliced    == <<IntArray, Push(Num(3)), Push(X), ExprStmt(Method(Var("a"), "sort", <<>>)), Show("a"),
               Multi(<<"t", "err">>, Method(Var("a"), "slice", <<Num(1), X>>)),
               Show("t"), Show("err")>>
Algebra   == <<Assign("y", Num(2)),
               Assign("x", Minus(Minus(X, Var("y")), Minus(Binary("*", Plus(X, Num(3)), Var("y")), Num(4)))),
               If(Logical("and", Unary("not", Less(X, Unary("-", Plus(Var("y"), Num(3))))),
                                 Logical("or", Binary("==", X, Num(0)), Less(Num(2), Var("y")))),
                  <<Show("y")>>, <<Show("x")>>)>>
Choice    == <<IfElse(<<Arm(Less(X, Num(2)), <<Assign("x", Num(4))>>),
                        Arm(Less(X, Num(4)), <<Assign("x", Num(0))>>)>>, <<Println(Unary("-", X))>>)>>

Pieces == {Count, NewLocal, Branch, InBlockP, TwoOf, Reader, Writer,
           BoxedLocal, Exposed, Guarded, NestedFor}
DataPieces == {Elements, Growing, Mapped, Objects, Cyclic, FunctionIn, Texts, Sliced, Algebra, Choice}

(* Pieces for the inside of a loop, of a function, for an own variable x.  *)
LoopPieces == {<<If(Less(X, Num(3)), <<Continue>>, <<>>)>>,
               <<If(Less(Num(2), X), <<Break>>, <<>>)>>}
FuncPieces == {<<If(Less(X, Num(3)), <<Return(<<X>>)>>, <<>>)>>}
OwnPieces  == {<<Compound("x", "+", Plus(X, Num(2)))>>}

(* Pieces that fail in both engines, wherever they stand.                  *)
Failures == {<<Assign("x", Nil)>>,
             <<Println(Plus(X, Nil))>>,
             <<ExprStmt(Call("pair", <<>>))>>,
             <<Assign("y", X), Run("y")>>,
             <<Show("nowhere")>>,
             <<IntArray, Show("a"), Println(At0)>>,
             <<IntArray, Push(BoolLit(TRUE))>>,
             <<Assign("s", Construct("Point", <<"v">>, <<X>>)), Println(Member(Var("s"), "w"))>>,
             <<Assign("s", Construct("Pixel", <<"v">>, <<X>>)), Show("s")>>,
             <<Assign("s", Construct("Point", <<"v">>, <<X>>)), ExprStmt(Method(Var("s"), "bump", <<>>))>>}

(* A piece alone, and before one that works on what it left.               *)
Followers == {Branch, Writer, BoxedLocal, NestedFor, TwoOf}
Bodies(pieces) == pieces \cup {a \o b : a \in pieces, b \in Followers}
Mixed == DataPieces \cup {a \o b : a \in DataPieces, b \in {Writer, Objects}}

-----------------------------------------------------------------------------
(* Contexts.                                                               *)
AtTop(b)     == Prelude \o <<Assign("x", Num(1))>> \o b \o <<Show("x")>>
InFunc(b)    == Prelude \o <<Func("f", <<"x">>, b \o <<Show("x"), Return(<<X>>)>>),
                  Println(Call("f", <<Num(1)>>)), Println(Call("f", <<Num(4)>>))>>
OnGlobal(b)  == Prelude \o <<Assign("x", Num(1)), Func("f", <<>>, b),
                  Run("f"), Run("f"), Show("x")>>
Captured(b)  == Prelude \o <<Func("f", <<"x">>, <<Func("r", <<>>, b), Run("r"), Run("r"), Show("x")>>),
                  ExprStmt(Call("f", <<Num(1)>>))>>
Captured2(b) == Prelude \o <<Func("f", <<"x">>,
                    <<Func("r", <<>>, <<Func("q", <<>>, b), Run("q"), Run("q")>>),
                      Run("r"), Show("x")>>),
                  ExprStmt(Call("f", <<Num(1)>>))>>
InFor(b)     == Prelude \o <<Assign("x", Num(0)),
                  For("i", Num(0), Num(3), <<Assign("x", Plus(X, Var("i")))>> \o b), Show("x")>>
InWhile(b)   == Prelude \o <<Func("f", <<"x">>,
                    <<Assign("n", Num(0)),
                      While(Less(Var("n"), Num(3)), <<Assign("n", Plus(Var("n"), Num(1)))>> \o b),
                      Show("x"), Show("n")>>),
                  ExprStmt(Call("f", <<Num(1)>>))>>
Recursive(b) == Prelude \o <<Func("f", <<"x", "d">>,
                    <<If(Less(Var("d"), Num(1)), <<Return(<<X>>)>>, <<>>)>> \o b \o
                    <<Return(<<Plus(X, Call("f", <<X, Minus(Var("d"), Num(1))>>))>>)>>),
                  Println(Call("f", <<Num(1), Num(2)>>))>>

PortablePrograms ==
  {AtTop(b) : b \in Bodies(Pieces \cup OwnPieces)}
  \cup {InFunc(b) : b \in Bodies(Pieces \cup OwnPieces \cup FuncPieces)}
  \cup {OnGlobal(b) : b \in Bodies(Pieces \cup FuncPieces)}
  \cup {Captured(b) : b \in Bodies(Pieces \cup FuncPieces)}
  \cup {Captured2(b) : b \in Bodies(Pieces \cup FuncPieces)}
  \cup {InFor(b) : b \in Bodies(Pieces \cup OwnPieces \cup LoopPieces)}
  \cup {InWhile(b) : b \in Bodies(Pieces \cup OwnPieces \cup LoopPieces)}
  \cup {Recursive(b) : b \in Bodies(Pieces \cup OwnPieces \cup FuncPieces)}
  \cup UNION {{AtTop(b), InFunc(b), OnGlobal(b), Captured(b), Captured2(b),
               InFor(b), InWhile(b), Recursive(b)} : b \in Mixed \cup Failures}

-----------------------------------------------------------------------------
(* Programs the two engines treat differently.  Each shows one place where *)
(* the compiler's static scopes, or the VM's order of work, is not that of *)
(* the environments.                                                       *)
StepsLoopVariable == <<For("i", Num(0), Num(3), <<Show("i"), Assign("i", Plus(Var("i"), Num(1)))>>)>>
ReturnsAtTop      == <<Assign("x", Num(1)), Return(<<>>), Show("x")>>
GlobalBornLater   == <<Func("f", <<>>, <<Assign("x", Num(5))>>),
                       Assign("x", Num(1)), Run("f"), Show("x")>>
CallsForward      == <<Func("f", <<>>, <<Run("g")>>),
                       Func("g", <<>>, <<Println(Num(1))>>), Run("f")>>
AddsToGlobal      == <<Assign("x", Num(1)), Func("f", <<>>, <<Compound("x", "+", Num(1))>>),
                       Run("f"), Show("x")>>
AddsWhatChangesIt == <<Assign("x", Num(1)),
                       Func("f", <<>>, <<Assign("x", Num(10)), Return(<<Num(5)>>)>>),
                       Compound("x", "+", Call("f", <<>>)), Show("x")>>
GlobalInBlock     == <<Assign("x", Num(1)),
                       Func("f", <<>>, <<Block(<<Assign("x", Num(2))>>)>>),
                       Run("f"), Show("x")>>
ExposesThenSets   == <<Block(<<Assign("e", Num(1)), Expose("e"), Assign("e", Num(2))>>), Show("e")>>
SplitsTooFew      == Prelude \o <<Func("f", <<"x">>, <<Multi(<<"a", "b", "c">>, Call("pair", <<X>>)), Show("a")>>),
                       ExprStmt(Call("f", <<Num(1)>>))>>
KeepsNothing      == <<Func("f", <<>>, <<>>), Assign("x", Call("f", <<>>)), Println(Num(1))>>
TestsNumber       == <<If(Num(1), <<Println(Num(1))>>, <<>>)>>

ValueThenIndex    == <<Func("f", <<"n">>, <<Println(Var("n")), Return(<<Var("n")>>)>>),
                       IntArray, Push(Num(1)),
                       SetTarget(Index(Var("a"), Call("f", <<Num(0)>>)), Call("f", <<Num(2)>>))>>
MethodSetsGlobal  == <<Assign("x", Num(1)),
                       Struct("S", NoParent, <<"v">>, <<Func("set", <<>>, <<Assign("x", Num(2))>>)>>),
                       Assign("s", Construct("S", <<"v">>, <<Num(0)>>)),
                       ExprStmt(Method(Var("s"), "set", <<>>)), Show("x")>>
WrongArgument     == <<TypedFunc("f", <<"p">>, <<Base("int")>>, <<Println(Var("p"))>>),
                       ExprStmt(Call("f", <<BoolLit(TRUE)>>))>>
WrongVariable     == <<Typed("x", Base("int"), BoolLit(TRUE)), Show("x")>>
MapsFunction      == <<IntArray, Push(Num(1)),
                       Println(Method(Var("a"), "map", <<Lambda(<<"p">>, <<Return(<<Plus(Var("p"), Num(1))>>)>>)>>))>>
MethodOfTwo       == <<Struct("S", NoParent, <<"v">>, <<Func("both", <<>>, <<Return(<<Num(1), Num(2)>>)>>)>>),
                       Assign("s", Construct("S", <<"v">>, <<Num(0)>>)),
                       Multi(<<"x", "y">>, Method(Var("s"), "both", <<>>)), Show("y")>>
KeepsBoth         == <<Pair, Assign("x", Call("pair", <<Num(1)>>)), Show("x")>>
ByPosition        == <<Point, Assign("s", Construct("Point", <<NoName>>, <<Num(1)>>)), Show("s")>>
AddsToElement     == <<IntArray, Push(Num(1)), CompoundTarget(At0, "+", Num(1)), Show("a")>>
KeepsBlockLocal   == <<Block(<<Assign("e", Num(1)), Assign("z", Num(2)), Expose("z")>>), Show("e")>>

(* Statements no program above has, read back like theirs.                 *)
ASSUME OthersParsed == ParsedBack(G!Unexecuted)

(* The program of the run; any other of these may stand in its place.      *)
LoopProgram == {StepsLoopVariable}
=============================================================================
