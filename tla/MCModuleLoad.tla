---------------------------- MODULE MCModuleLoad ----------------------------
(* Sessions of two programs over two external modules, which may import    *)
(* each other, or over two packages whose namespaces nest.                 *)
EXTENDS ModuleLoad, TLC

A == <<"external", "a">>
B == <<"external", "b">>
P == <<"pk">>
Q == <<"pk", "sub">>
M == <<"myon", "math">>
F == Func("f", <<>>)

Session(files, first, second, p1, p2) ==
  [files |-> files, entered |-> <<first, second>>, projects |-> <<p1, p2>>]

NoProject == [readable |-> FALSE, lock |-> {}, dirs |-> {}]

BodiesOfA ==
  {Missing, Unparsable, <<F, Assign("g")>>,
   <<Import(B, "y"), Func("f", <<Call("y", "f")>>), Call("y", "f")>>,
   <<Import(B, NoAlias), Struct("S"), Assign("g"), F>>,
   <<Import(B, "y"), F, Fail>>,
   <<Func("f", <<Import(B, "x"), Call("x", "f")>>)>>,
   <<Import(B, "x"), F, Assign("f"), Call("x", "f")>>}

BodiesOfB ==
  {Missing, <<Func("f", <<Assign("g")>>)>>, <<F, Import(A, "x"), Call("x", "f")>>,
   <<Import(A, NoAlias)>>, <<Struct("S"), Assign("g")>>, <<F, Assign("g"), Fail>>,
   <<Import(B, "y")>>, <<F, Assign("f"), F>>}

Firsts ==
  {<<Call("x", "f"), Import(A, "x")>>,
   <<Import(A, "x"), Import(B, "y"), Call("x", "f"), Call("y", "f")>>,
   <<Import(A, NoAlias), Import(A, "x"), Call(NoAlias, "f"), Call("x", "f")>>,
   <<Import(B, "x"), Import(A, "x"), Call("x", "f")>>,
   <<Import(M, "x"), Import(A, "x"), Struct("S"), Call("x", "f")>>,
   <<F, Assign("g"), Import(A, "x"), Call("x", "g")>>}

Seconds ==
  {<<Import(A, "x"), Call("x", "f")>>, <<Import(B, "y"), Call("y", "f")>>,
   <<F, Call(NoAlias, "f")>>, <<Assign("x"), Call("x", "f")>>}

Externals ==
  {Session((A :> a) @@ (B :> b), first, second, NoProject, NoProject) :
     a \in BodiesOfA, b \in BodiesOfB, first \in Firsts, second \in Seconds}

-----------------------------------------------------------------------------

LockP == [name |-> "n1", module |-> P]
LockQ == [name |-> "n2", module |-> Q]
Projects ==
  {NoProject} \cup
  {[readable |-> TRUE, lock |-> l, dirs |-> d] :
     l \in SUBSET {LockP, LockQ}, d \in {{"n1"}, {"n1", "n2"}}}

PackageFiles ==
  {(<<"n1">> \o P :> p) @@ (<<"n1">> \o Q :> q) @@ (<<"n2">> \o Q :> r) :
     p \in {Missing, <<Import(Q, "y"), Func("f", <<Call("y", "f")>>)>>},
     q \in {Missing, <<Import(P, "x"), F>>},
     r \in {<<F, Assign("g")>>, <<Import(P, "x"), F>>, Unparsable}}

Packaged ==
  {Session(files, first, second, p1, p2) :
     files \in PackageFiles,
     second \in {<<Import(P, "x"), Import(Q, "y"), Call("y", "f"), Call("x", "f")>>,
                 <<Call("x", "f")>>},
     first \in {<<Import(P, NoAlias)>>, <<Import(Q, "y"), Import(P, "x"), Call("y", "f")>>,
                <<Import(P, "x"), Call("x", "f")>>},
     p1 \in Projects, p2 \in Projects}

MCSessions == Externals \cup Packaged
=============================================================================
