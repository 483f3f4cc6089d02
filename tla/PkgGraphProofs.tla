--------------------------- MODULE PkgGraphProofs ---------------------------
(***************************************************************************)
(* Facts about dependency graphs (module PkgGraph): Closure is a least     *)
(* fixed point, so what is closed and holds the start holds the closure.   *)
(* And an order of triples of numbers in which nothing goes down forever.  *)
(***************************************************************************)
EXTENDS PkgGraph, TLAPS, FiniteSetTheorems, WellFoundedInduction

\* What depends on nothing outside S.
Closed(deps, S) == \A u \in S : deps[u] \subseteq S

\* The closure of D is a closed set of sources that holds D.
LEMMA ClosureHolds ==
    ASSUME NEW Srcs, NEW deps \in [Srcs -> SUBSET Srcs], NEW D \in SUBSET Srcs
    PROVE  /\ Closure(deps, D) \subseteq Srcs
           /\ D \subseteq Closure(deps, D)
           /\ Closed(deps, Closure(deps, D))
  <1>1. DOMAIN deps = Srcs
    OBVIOUS
  <1>2. Closure(deps, D) \subseteq Srcs /\ D \subseteq Closure(deps, D)
    BY <1>1 DEF Closure
  <1>3. ASSUME NEW u \in Closure(deps, D), NEW v \in deps[u]
        PROVE  v \in Closure(deps, D)
    <2>1. v \in Srcs
      BY <1>2
    <2>2. ASSUME NEW S \in SUBSET Srcs, D \subseteq S,
                 \A w \in S : deps[w] \subseteq S
          PROVE  v \in S
      BY <1>1, <2>2 DEF Closure
    <2> QED
      BY <1>1, <2>1, <2>2 DEF Closure
  <1> QED
    BY <1>2, <1>3 DEF Closed

\* It is the least such set.
LEMMA ClosureLeast ==
    ASSUME NEW Srcs, NEW deps \in [Srcs -> SUBSET Srcs], NEW D \in SUBSET Srcs,
           NEW S \in SUBSET Srcs, D \subseteq S, Closed(deps, S)
    PROVE  Closure(deps, D) \subseteq S
  BY DEF Closure, Closed

\* Finitely many sources have finitely many names.
LEMMA FinitelyManyNames ==
    ASSUME NEW S, IsFiniteSet(S)
    PROVE  IsFiniteSet({NameOf(s) : s \in S})
  <1> DEFINE N == {NameOf(s) : s \in S}
             f == [s \in S |-> NameOf(s)]
  <1>1. f \in Surjection(S, N)
    BY DEF Surjection
  <1> QED
    BY <1>1, FS_Surjection

-----------------------------------------------------------------------------
\* Triples of numbers, compared from the left

Less == OpToRel(<, Nat)
LessInCalls == LexPairOrdering(Less, Less, Nat, Nat)
Before == LexPairOrdering(Less, LessInCalls, Nat, Nat \X Nat)

\* Nothing goes down forever.
LEMMA BeforeIsWellFounded == IsWellFoundedOn(Before, Nat \X (Nat \X Nat))
  <1>1. IsWellFoundedOn(Less, Nat)
    BY NatLessThanWellFounded DEF Less
  <1>2. IsWellFoundedOn(LessInCalls, Nat \X Nat)
    BY <1>1, WFLexPairOrdering DEF LessInCalls
  <1> QED
    BY <1>1, <1>2, WFLexPairOrdering DEF Before

\* The order, spelled out
LEMMA BeforeFacts ==
    ASSUME NEW a \in Nat, NEW b \in Nat, NEW c \in Nat,
           NEW d \in Nat, NEW e \in Nat, NEW f \in Nat,
           a < d \/ (a = d /\ (b < e \/ (b = e /\ c < f)))
    PROVE  <<<<a, <<b, c>>>>, <<d, <<e, f>>>>>> \in Before
  <1>1. \A m, n \in Nat : m < n => <<m, n>> \in Less
    BY DEF Less, OpToRel
  <1>2. b < e \/ (b = e /\ c < f) => <<<<b, c>>, <<e, f>>>> \in LessInCalls
    BY <1>1 DEF LessInCalls, LexPairOrdering
  <1> QED
    BY <1>1, <1>2 DEF Before, LexPairOrdering
=============================================================================
