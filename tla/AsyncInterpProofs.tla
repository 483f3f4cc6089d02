-------------------------- MODULE AsyncInterpProofs --------------------------
(***************************************************************************)
(* Proofs about the fields of Interp that coroutines share (module         *)
(* AsyncInterp), for any number of tasks and any depth of calls.           *)
(*                                                                         *)
(* While coroutines nest, the bodies that have started and not ended are   *)
(* layers, one on top of the other, with the main stack at the bottom:     *)
(* each has the stretch of cleanup_stack above the one below it, and       *)
(* async_task_entry has saved in it what the layer below was working with  *)
(* (Layered).  Starting a body adds a layer, and its end uncovers the one  *)
(* below as it was, because only the top layer runs.                       *)
(***************************************************************************)
EXTENDS AsyncInterp, FiniteSetTheorems, SequenceTheorems,
        WellFoundedInduction, TLAPS

-----------------------------------------------------------------------------
\* The invariant

Alive(t) == st[t] \in {"running", "asleep", "awaiting"}

\* active lists the bodies that have started and not ended, each once; who
\* runs is one of them, and a task that has not started has no frames.
TasksSound ==
    /\ \A t \in Tasks : Alive(t) <=> \E i \in DOMAIN active : active[i] = t
    /\ \A i, j \in DOMAIN active : active[i] = active[j] => i = j
    /\ who \in Tasks => st[who] = "running"
    /\ \A t \in Tasks : st[t] \in {"unborn", "ready"} => live[t] = 0

\* Layer 0 is the main stack, layer i the i-th body of act.  Its frames are
\* those of the cleanup stack above Base(i).
Layer(act, i) == IF i = 0 THEN Main ELSE act[i]
Base(act, sav, i) == IF i = 0 THEN 0 ELSE sav[act[i]].mark
Top(act) == Layer(act, Len(act))

Layered(act, sav, liv, cl) ==
    /\ \A i \in 1..Len(act) :
         /\ sav[act[i]].prev = Layer(act, i-1)
         /\ sav[act[i]].barrier = Layer(act, i-1)
         /\ sav[act[i]].depth = liv[Layer(act, i-1)]
         /\ sav[act[i]].mark = Base(act, sav, i-1) + liv[Layer(act, i-1)]
    /\ \A i, j \in 0..Len(act) :
         i < j => Base(act, sav, i) + liv[Layer(act, i)] <= Base(act, sav, j)
    /\ Len(cl) = Base(act, sav, Len(act)) + liv[Top(act)]
    /\ \A i \in 0..Len(act) : \A k \in 1..liv[Layer(act, i)] :
         cl[Base(act, sav, i) + k] = Layer(act, i)

\* The shared fields are those of the top layer, and nobody else runs.
FieldsOfTop ==
    /\ barrier = Top(active) /\ currentTask = Top(active)
    /\ depth = live[Top(active)]
    /\ who \in Actors => who = Top(active)

Nesting == disciplined => FieldsOfTop /\ Layered(active, saved, live, cleanup)

\* As long as nothing raises, every live frame is registered once.
Accounted == ~jumped => \A a \in Actors : Cardinality(FramesOf(a)) = live[a]

\* The last await was of a task that is done, or returned early.
AwaitSound ==
    /\ lastAwait.of # NoTask /\ ~lastAwait.early => Done(lastAwait.of)
    /\ FailureReraised

Inv == TypeOK /\ TasksSound /\ Nesting /\ Accounted /\ AwaitSound

-----------------------------------------------------------------------------
\* Facts about sequences and layers

LEMMA ConstantFacts ==
    /\ Tasks \subseteq Nat /\ Main \notin Tasks /\ NoTask \notin Tasks
    /\ Main = 0 /\ NoTask = 0 /\ Actors = Tasks \union {Main}
    /\ Core \notin Actors /\ Crossed \notin Actors /\ Nested \notin Actors
    /\ MaxLive \in Nat /\ 1 \in 0..MaxLive
  BY InterpAssumption DEF Tasks, Main, NoTask, Actors, Core, Crossed, Nested

\* RemoveAt takes one element out and closes the gap.
LEMMA RemoveAtFacts ==
  ASSUME NEW S, NEW s \in Seq(S), NEW i \in 1..Len(s)
  PROVE  /\ RemoveAt(s, i) \in Seq(S)
         /\ Len(RemoveAt(s, i)) = Len(s) - 1
         /\ \A j \in 1..(Len(s)-1) : RemoveAt(s, i)[j] = IF j < i THEN s[j] ELSE s[j+1]
  <1> DEFINE p == SubSeq(s, 1, i-1)
             q == SubSeq(s, i+1, Len(s))
  <1>1. Len(s) \in Nat /\ i \in Nat /\ i-1 \in Nat /\ Len(s)-i \in Nat
    OBVIOUS
  <1>2. /\ p \in Seq(S) /\ Len(p) = i - 1
        /\ \A j \in 1..(i-1) : p[j] = s[j]
    BY <1>1, SubSeqProperties
  <1>3. /\ q \in Seq(S) /\ Len(q) = Len(s) - i
        /\ \A j \in 1..(Len(s)-i) : q[j] = s[i+j]
    BY <1>1, SubSeqProperties
  <1> HIDE DEF p, q
  <1>4. /\ p \o q \in Seq(S) /\ Len(p \o q) = Len(p) + Len(q)
        /\ \A j \in 1..(Len(p) + Len(q)) :
             (p \o q)[j] = IF j <= Len(p) THEN p[j] ELSE q[j - Len(p)]
    BY <1>2, <1>3, ConcatProperties
  <1>5. ASSUME NEW j \in 1..(Len(s)-1)
        PROVE  (p \o q)[j] = IF j < i THEN s[j] ELSE s[j+1]
    <2>1. CASE j < i
      BY <1>1, <1>2, <1>3, <1>4, <2>1
    <2>2. CASE ~(j < i)
      <3>1. j - (i-1) \in 1..(Len(s)-i) /\ i + (j - (i-1)) = j + 1
        BY <1>1, <2>2
      <3>2. (p \o q)[j] = q[j - (i-1)]
        BY <1>1, <1>2, <1>3, <1>4, <2>2
      <3> QED
        BY <1>3, <2>2, <3>1, <3>2
    <2> QED
      BY <2>1, <2>2
  <1>6. RemoveAt(s, i) = p \o q
    BY DEF RemoveAt, p, q
  <1>7. Len(p \o q) = Len(s) - 1
    BY <1>1, <1>2, <1>3, <1>4
  <1> QED
    BY <1>4, <1>5, <1>6, <1>7

\* A set of positions that is not empty has a greatest one.
LEMMA MaxFacts ==
  ASSUME NEW n \in Nat, NEW S \in SUBSET (1..n), S # {}
  PROVE  Max(S) \in S /\ \A k \in S : k <= Max(S)
  <1> DEFINE T == {n - k : k \in S}
  <1>1. \A k \in S : k \in Nat /\ n - k \in Nat
    OBVIOUS
  <1>2. T \in SUBSET Nat /\ T # {}
    BY <1>1
  <1> HIDE DEF T
  <1>3. PICK m \in T : \A k \in T : ~(<<k, m>> \in OpToRel(<, Nat))
    BY <1>2, NatLessThanWellFounded, WFMin
  <1>4. \A k \in T : ~(k < m)
    BY <1>2, <1>3 DEF OpToRel
  <1>5. \A k \in T : m <= k
    BY <1>2, <1>4
  <1>6. PICK x \in S : m = n - x
    BY DEF T
  <1>7. ASSUME NEW k \in S PROVE k <= x
    <2>1. n - k \in T
      BY DEF T
    <2> QED
      BY <1>1, <1>5, <1>6, <2>1
  <1> QED
    BY <1>7 DEF Max

\* What the operators on layers need to know of the state
Bodies(act) == act \in Seq(Tasks) /\ \A i, j \in DOMAIN act : act[i] = act[j] => i = j
Lives == [Actors -> 0..MaxLive]
Saves == [Tasks -> [prev : Tasks \union {NoTask}, barrier : Actors, depth : Int, mark : Nat]]

\* Different layers are different actors.
LEMMA LayerFacts ==
  ASSUME NEW act, Bodies(act), NEW sav \in Saves, NEW i \in 0..Len(act)
  PROVE  /\ Layer(act, i) \in Actors
         /\ Base(act, sav, i) \in Nat
         /\ \A j \in 0..Len(act) : Layer(act, i) = Layer(act, j) => i = j
         /\ \A j \in 1..Len(act) : act[j] \in Tasks /\ act[j] = Layer(act, j)
  <1>1. Len(act) \in Nat /\ \A j \in 1..Len(act) : act[j] \in Tasks
    BY DEF Bodies
  <1>2. \A j \in 1..Len(act) : act[j] = Layer(act, j) /\ act[j] # Main
    BY <1>1, ConstantFacts DEF Layer
  <1>3. Layer(act, i) \in Actors /\ Base(act, sav, i) \in Nat
    <2>1. CASE i = 0
      BY <2>1, ConstantFacts DEF Layer, Base
    <2>2. CASE i # 0
      <3>1. act[i] \in Tasks /\ Layer(act, i) = act[i] /\ Base(act, sav, i) = sav[act[i]].mark
        BY <1>1, <2>2 DEF Layer, Base
      <3> QED
        BY <3>1, ConstantFacts DEF Saves
    <2> QED
      BY <2>1, <2>2
  <1>4. ASSUME NEW j \in 0..Len(act), Layer(act, i) = Layer(act, j) PROVE i = j
    <2>1. CASE i = 0 \/ j = 0
      BY <1>1, <1>2, <1>4, <2>1 DEF Layer
    <2>2. CASE i # 0 /\ j # 0
      BY <1>1, <1>4, <2>2 DEF Layer, Bodies
    <2> QED
      BY <2>1, <2>2
  <1> QED
    BY <1>1, <1>2, <1>3, <1>4

\* The stretch of a layer ends where the next begins, or at the top.
LEMMA StretchFacts ==
  ASSUME NEW act, Bodies(act), NEW sav \in Saves, NEW liv \in Lives,
         NEW cl \in Seq(Actors), Layered(act, sav, liv, cl), NEW i \in 0..Len(act)
  PROVE  /\ Base(act, sav, i) \in Nat /\ liv[Layer(act, i)] \in Nat
         /\ Base(act, sav, i) + liv[Layer(act, i)] <= Len(cl)
         /\ i # Len(act) =>
              Base(act, sav, i) + liv[Layer(act, i)] <= Base(act, sav, Len(act))
  <1>1. Len(act) \in Nat /\ Len(act) \in 0..Len(act) /\ i \in Nat
    BY DEF Bodies
  <1>2. \A j \in 0..Len(act) : Base(act, sav, j) \in Nat /\ liv[Layer(act, j)] \in Nat
    BY LayerFacts DEF Lives
  <1>3. Len(cl) = Base(act, sav, Len(act)) + liv[Layer(act, Len(act))]
    BY DEF Layered, Top
  <1>4. i < Len(act) => Base(act, sav, i) + liv[Layer(act, i)] <= Base(act, sav, Len(act))
    BY <1>1 DEF Layered
  <1>5. i = Len(act) \/ i < Len(act)
    BY <1>1
  <1> QED
    BY <1>1, <1>2, <1>3, <1>4, <1>5

\* A call of the top layer registers its frame above the others.
LEMMA PushFrame ==
  ASSUME NEW act, Bodies(act), NEW sav \in Saves, NEW liv \in Lives,
         NEW cl \in Seq(Actors), Layered(act, sav, liv, cl),
         NEW a, a = Top(act), liv[a] < MaxLive
  PROVE  Layered(act, sav, [liv EXCEPT ![a] = @ + 1], Append(cl, a))
  <1> DEFINE n == Len(act)
             liv2 == [liv EXCEPT ![a] = @ + 1]
             cl2 == Append(cl, a)
  <1>1. n \in Nat /\ a = Layer(act, n) /\ a \in Actors
    BY LayerFacts DEF Top, Bodies
  <1>2. /\ \A i \in 0..n : Layer(act, i) \in Actors /\ Base(act, sav, i) \in Nat
        /\ \A i \in 0..n : Layer(act, i) = a => i = n
        /\ \A i \in 1..n : i-1 \in 0..n /\ i-1 # n
    BY <1>1, LayerFacts
  <1>3. \A i \in 0..n : i # n => liv2[Layer(act, i)] = liv[Layer(act, i)]
    BY <1>2 DEF Lives
  <1>4. liv2[a] = liv[a] + 1 /\ liv[a] \in Nat /\ \A i \in 0..n : liv[Layer(act, i)] \in Nat
    BY <1>1, <1>2 DEF Lives
  <1>5. Len(cl2) = Len(cl) + 1 /\ cl2[Len(cl) + 1] = a /\ \A k \in 1..Len(cl) : cl2[k] = cl[k]
    OBVIOUS
  <1>6. /\ \A i \in 1..n :
             /\ sav[act[i]].prev = Layer(act, i-1)
             /\ sav[act[i]].barrier = Layer(act, i-1)
             /\ sav[act[i]].depth = liv[Layer(act, i-1)]
             /\ sav[act[i]].mark = Base(act, sav, i-1) + liv[Layer(act, i-1)]
        /\ \A i, j \in 0..n :
             i < j => Base(act, sav, i) + liv[Layer(act, i)] <= Base(act, sav, j)
        /\ Len(cl) = Base(act, sav, n) + liv[a]
        /\ \A i \in 0..n : \A k \in 1..liv[Layer(act, i)] :
             cl[Base(act, sav, i) + k] = Layer(act, i)
    BY <1>1 DEF Layered, Top
  <1> HIDE DEF n, liv2, cl2
  <1>7. \A i \in 1..n :
          /\ sav[act[i]].prev = Layer(act, i-1)
          /\ sav[act[i]].barrier = Layer(act, i-1)
          /\ sav[act[i]].depth = liv2[Layer(act, i-1)]
          /\ sav[act[i]].mark = Base(act, sav, i-1) + liv2[Layer(act, i-1)]
    BY <1>2, <1>3, <1>6
  <1>8. \A i, j \in 0..n :
          i < j => Base(act, sav, i) + liv2[Layer(act, i)] <= Base(act, sav, j)
    BY <1>1, <1>3, <1>6
  <1>9. Len(cl2) = Base(act, sav, n) + liv2[a]
    BY <1>1, <1>2, <1>4, <1>5, <1>6
  <1>10. ASSUME NEW i \in 0..n, NEW k \in 1..liv2[Layer(act, i)]
         PROVE  cl2[Base(act, sav, i) + k] = Layer(act, i)
    <2> DEFINE b == Base(act, sav, i)
    <2>1. b \in Nat /\ k \in Nat \ {0} /\ liv[Layer(act, i)] \in Nat /\ Len(cl) \in Nat
      BY <1>2, <1>4
    <2>2. CASE i = n /\ k = liv[a] + 1
      <3>1. b + k = Len(cl) + 1
        BY <1>1, <1>2, <1>4, <1>6, <2>1, <2>2
      <3> QED
        BY <1>1, <1>5, <2>2, <3>1
    <2>3. CASE ~(i = n /\ k = liv[a] + 1)
      <3>1. k \in 1..liv[Layer(act, i)]
        BY <1>1, <1>3, <1>4, <1>10, <2>1, <2>3
      <3>2. b + liv[Layer(act, i)] <= Len(cl)
        BY StretchFacts DEF n
      <3>3. b + k \in 1..Len(cl)
        BY <2>1, <3>1, <3>2
      <3>4. cl2[b + k] = cl[b + k]
        BY <1>5, <3>3
      <3> QED
        BY <1>6, <3>1, <3>4
    <2> QED
      BY <2>2, <2>3
  <1> QED
    BY <1>1, <1>7, <1>8, <1>9, <1>10 DEF Layered, Top, n, liv2, cl2

\* A call that the top layer returns from takes the frame on top away.
LEMMA PopFrame ==
  ASSUME NEW act, Bodies(act), NEW sav \in Saves, NEW liv \in Lives,
         NEW cl \in Seq(Actors), Layered(act, sav, liv, cl),
         NEW a, a = Top(act), liv[a] > 0, NEW cl2,
         Len(cl2) = Len(cl) - 1, \A k \in 1..(Len(cl)-1) : cl2[k] = cl[k]
  PROVE  Layered(act, sav, [liv EXCEPT ![a] = @ - 1], cl2)
  <1> DEFINE n == Len(act)
             liv2 == [liv EXCEPT ![a] = @ - 1]
  <1>1. n \in Nat /\ a = Layer(act, n) /\ a \in Actors
    BY LayerFacts DEF Top, Bodies
  <1>2. /\ \A i \in 0..n : Layer(act, i) \in Actors /\ Base(act, sav, i) \in Nat
        /\ \A i \in 0..n : Layer(act, i) = a => i = n
        /\ \A i \in 1..n : i-1 \in 0..n /\ i-1 # n
    BY <1>1, LayerFacts
  <1>3. \A i \in 0..n : i # n => liv2[Layer(act, i)] = liv[Layer(act, i)]
    BY <1>2 DEF Lives
  <1>4. liv2[a] = liv[a] - 1 /\ liv[a] \in Nat /\ \A i \in 0..n : liv[Layer(act, i)] \in Nat
    BY <1>1, <1>2 DEF Lives
  <1>5. /\ \A i \in 1..n :
             /\ sav[act[i]].prev = Layer(act, i-1)
             /\ sav[act[i]].barrier = Layer(act, i-1)
             /\ sav[act[i]].depth = liv[Layer(act, i-1)]
             /\ sav[act[i]].mark = Base(act, sav, i-1) + liv[Layer(act, i-1)]
        /\ \A i, j \in 0..n :
             i < j => Base(act, sav, i) + liv[Layer(act, i)] <= Base(act, sav, j)
        /\ Len(cl) = Base(act, sav, n) + liv[a]
        /\ \A i \in 0..n : \A k \in 1..liv[Layer(act, i)] :
             cl[Base(act, sav, i) + k] = Layer(act, i)
    BY <1>1 DEF Layered, Top
  <1>6. \A i \in 0..n : i # n => Base(act, sav, i) + liv[Layer(act, i)] <= Base(act, sav, n)
    BY StretchFacts
  <1> HIDE DEF n, liv2
  <1>7. \A i \in 1..n :
          /\ sav[act[i]].prev = Layer(act, i-1)
          /\ sav[act[i]].barrier = Layer(act, i-1)
          /\ sav[act[i]].depth = liv2[Layer(act, i-1)]
          /\ sav[act[i]].mark = Base(act, sav, i-1) + liv2[Layer(act, i-1)]
    BY <1>2, <1>3, <1>5
  <1>8. \A i, j \in 0..n :
          i < j => Base(act, sav, i) + liv2[Layer(act, i)] <= Base(act, sav, j)
    BY <1>1, <1>3, <1>5
  <1>9. Len(cl2) = Base(act, sav, n) + liv2[a]
    BY <1>1, <1>2, <1>4, <1>5
  <1>10. ASSUME NEW i \in 0..n, NEW k \in 1..liv2[Layer(act, i)]
         PROVE  cl2[Base(act, sav, i) + k] = Layer(act, i)
    <2> DEFINE b == Base(act, sav, i)
    <2>1. b \in Nat /\ k \in Nat \ {0} /\ liv[Layer(act, i)] \in Nat
      BY <1>2, <1>4
    <2>2. k \in 1..liv[Layer(act, i)] /\ b + k \in 1..(Len(cl)-1)
      <3>1. CASE i = n
        BY <1>1, <1>4, <1>5, <1>10, <2>1, <3>1
      <3>2. CASE i # n
        <4>1. k \in 1..liv[Layer(act, i)] /\ n \in 0..n
          BY <1>1, <1>3, <1>10, <3>2
        <4>2. b + liv[Layer(act, i)] <= Base(act, sav, n) /\ Base(act, sav, n) \in Nat
          BY <1>2, <1>6, <3>2, <4>1
        <4>3. Base(act, sav, n) <= Len(cl) - 1 /\ Len(cl) \in Nat
          BY <1>4, <1>5, <4>2
        <4> QED
          BY <2>1, <4>1, <4>2, <4>3
      <3> QED
        BY <3>1, <3>2
    <2>3. cl2[b + k] = cl[b + k]
      BY <2>2
    <2> QED
      BY <1>5, <2>2, <2>3
  <1> QED
    BY <1>1, <1>7, <1>8, <1>9, <1>10 DEF Layered, Top, n, liv2

\* A body that starts is a new layer on top, and what it saves is what the
\* layer below works with.
LEMMA EnterLayer ==
  ASSUME NEW act, Bodies(act), NEW sav \in Saves, NEW liv \in Lives,
         NEW cl \in Seq(Actors), Layered(act, sav, liv, cl),
         NEW t \in Tasks, \A i \in DOMAIN act : act[i] # t,
         NEW s, s.prev = Top(act), s.barrier = Top(act),
         s.depth = liv[Top(act)], s.mark = Len(cl)
  PROVE  Layered(Append(act, t), [sav EXCEPT ![t] = s], [liv EXCEPT ![t] = 1], Append(cl, t))
  <1> DEFINE n == Len(act)
             act2 == Append(act, t)
             sav2 == [sav EXCEPT ![t] = s]
             liv2 == [liv EXCEPT ![t] = 1]
             cl2 == Append(cl, t)
  <1>1. n \in Nat /\ Len(act2) = n + 1 /\ act2[n+1] = t /\ \A i \in 1..n : act2[i] = act[i]
    BY DEF Bodies
  <1>2. t # Main /\ t \in Actors /\ \A i \in 1..n : act[i] # t /\ act[i] \in Tasks
    BY <1>1, ConstantFacts DEF Bodies
  <1>3. /\ Layer(act2, n+1) = t /\ Base(act2, sav2, n+1) = Len(cl)
        /\ \A i \in 0..n : /\ Layer(act2, i) = Layer(act, i)
                           /\ Base(act2, sav2, i) = Base(act, sav, i)
                           /\ Layer(act, i) # t /\ Layer(act, i) \in Actors
    <2>1. sav2[t] = s /\ \A i \in 1..n : sav2[act[i]] = sav[act[i]]
      BY <1>2 DEF Saves
    <2>2. Layer(act2, n+1) = t /\ Base(act2, sav2, n+1) = Len(cl)
      BY <1>1, <2>1 DEF Layer, Base
    <2>3. ASSUME NEW i \in 0..n
          PROVE  /\ Layer(act2, i) = Layer(act, i)
                 /\ Base(act2, sav2, i) = Base(act, sav, i)
                 /\ Layer(act, i) # t /\ Layer(act, i) \in Actors
      <3>1. CASE i = 0
        BY <1>2, <3>1, ConstantFacts DEF Layer, Base
      <3>2. CASE i # 0
        <4>1. i \in 1..n
          BY <1>1, <3>2
        <4> QED
          BY <1>1, <1>2, <2>1, <3>2, <4>1, ConstantFacts DEF Layer, Base
      <3> QED
        BY <3>1, <3>2
    <2> QED
      BY <2>2, <2>3
  <1>4. liv2[t] = 1 /\ \A i \in 0..n : liv2[Layer(act, i)] = liv[Layer(act, i)]
    BY <1>2, <1>3 DEF Lives
  <1>5. /\ \A i \in 1..n :
             /\ sav[act[i]].prev = Layer(act, i-1)
             /\ sav[act[i]].barrier = Layer(act, i-1)
             /\ sav[act[i]].depth = liv[Layer(act, i-1)]
             /\ sav[act[i]].mark = Base(act, sav, i-1) + liv[Layer(act, i-1)]
        /\ \A i, j \in 0..n :
             i < j => Base(act, sav, i) + liv[Layer(act, i)] <= Base(act, sav, j)
        /\ Len(cl) = Base(act, sav, n) + liv[Layer(act, n)]
        /\ \A i \in 0..n : \A k \in 1..liv[Layer(act, i)] :
             cl[Base(act, sav, i) + k] = Layer(act, i)
    BY DEF Layered, Top
  <1>6. \A i \in 0..n : /\ Base(act, sav, i) \in Nat /\ liv[Layer(act, i)] \in Nat
                        /\ Base(act, sav, i) + liv[Layer(act, i)] <= Len(cl)
    BY StretchFacts
  <1>7. /\ Len(cl2) = Len(cl) + 1 /\ cl2[Len(cl) + 1] = t /\ Len(cl) \in Nat
        /\ \A k \in 1..Len(cl) : cl2[k] = cl[k]
    OBVIOUS
  <1>8. s.prev = Layer(act, n) /\ s.barrier = Layer(act, n) /\ s.depth = liv[Layer(act, n)]
    BY DEF Top
  <1>9. sav2[t] = s /\ \A i \in 1..n : sav2[act[i]] = sav[act[i]]
    BY <1>2 DEF Saves
  <1> HIDE DEF n, act2, sav2, liv2, cl2
  <1>10. ASSUME NEW i \in 1..(n+1)
         PROVE  /\ sav2[act2[i]].prev = Layer(act2, i-1)
                /\ sav2[act2[i]].barrier = Layer(act2, i-1)
                /\ sav2[act2[i]].depth = liv2[Layer(act2, i-1)]
                /\ sav2[act2[i]].mark = Base(act2, sav2, i-1) + liv2[Layer(act2, i-1)]
    <2>1. CASE i = n + 1
      <3>1. i - 1 = n /\ n \in 0..n
        BY <1>1, <2>1
      <3> QED
        BY <1>1, <1>3, <1>4, <1>5, <1>8, <1>9, <2>1, <3>1
    <2>2. CASE i # n + 1
      <3>1. i \in 1..n /\ i-1 \in 0..n
        BY <1>1, <2>2
      <3> QED
        BY <1>1, <1>3, <1>4, <1>5, <1>9, <3>1
    <2> QED
      BY <2>1, <2>2
  <1>11. ASSUME NEW i \in 0..(n+1), NEW j \in 0..(n+1), i < j
         PROVE  Base(act2, sav2, i) + liv2[Layer(act2, i)] <= Base(act2, sav2, j)
    <2>1. i \in 0..n
      BY <1>1, <1>11
    <2>2. CASE j = n + 1
      BY <1>3, <1>4, <1>6, <2>1, <2>2
    <2>3. CASE j # n + 1
      <3>1. j \in 0..n
        BY <1>1, <2>3
      <3> QED
        BY <1>3, <1>4, <1>5, <1>11, <2>1, <3>1
    <2> QED
      BY <2>2, <2>3
  <1>12. Len(cl2) = Base(act2, sav2, n+1) + liv2[Layer(act2, n+1)]
    BY <1>3, <1>4, <1>7
  <1>13. ASSUME NEW i \in 0..(n+1), NEW k \in 1..liv2[Layer(act2, i)]
         PROVE  cl2[Base(act2, sav2, i) + k] = Layer(act2, i)
    <2>1. CASE i = n + 1
      BY <1>3, <1>4, <1>7, <1>13, <2>1
    <2>2. CASE i # n + 1
      <3>1. i \in 0..n
        BY <1>1, <2>2
      <3>2. k \in 1..liv[Layer(act, i)] /\ Base(act2, sav2, i) = Base(act, sav, i)
        BY <1>3, <1>4, <3>1
      <3>3. Base(act, sav, i) + k \in 1..Len(cl)
        BY <1>6, <1>7, <3>1, <3>2
      <3> QED
        BY <1>3, <1>5, <1>7, <3>1, <3>2, <3>3
    <2> QED
      BY <2>1, <2>2
  <1> QED
    BY <1>1, <1>10, <1>11, <1>12, <1>13 DEF Layered, Top, act2, sav2, liv2, cl2

\* The end of the top body uncovers the layer below as it was left, and what
\* the body had saved is what that layer works with.
LEMMA LeaveLayer ==
  ASSUME NEW act, Bodies(act), NEW sav \in Saves, NEW liv \in Lives,
         NEW cl \in Seq(Actors), Layered(act, sav, liv, cl), Len(act) > 0,
         NEW act2, Len(act2) = Len(act) - 1,
         \A i \in 1..(Len(act)-1) : act2[i] = act[i],
         NEW cl2, Len(cl2) = sav[Top(act)].mark,
         \A k \in 1..sav[Top(act)].mark : cl2[k] = cl[k]
  PROVE  /\ Layered(act2, sav, [liv EXCEPT ![Top(act)] = 0], cl2)
         /\ sav[Top(act)].prev = Top(act2) /\ sav[Top(act)].barrier = Top(act2)
         /\ sav[Top(act)].depth = [liv EXCEPT ![Top(act)] = 0][Top(act2)]
  <1> DEFINE n == Len(act)
             t == Top(act)
             liv2 == [liv EXCEPT ![t] = 0]
  <1>1. n \in Nat \ {0} /\ t = act[n] /\ t = Layer(act, n) /\ t \in Tasks /\ n-1 \in 0..n
    BY DEF Top, Layer, Bodies
  <1>2. \A i \in 0..(n-1) : /\ i \in 0..n /\ i # n
                            /\ Layer(act2, i) = Layer(act, i)
                            /\ Base(act2, sav, i) = Base(act, sav, i)
    <2>1. ASSUME NEW i \in 0..(n-1)
          PROVE  Layer(act2, i) = Layer(act, i) /\ Base(act2, sav, i) = Base(act, sav, i)
      <3>1. i = 0 \/ i \in 1..(n-1)
        BY <1>1
      <3> QED
        BY <3>1 DEF Layer, Base
    <2>2. \A i \in 0..(n-1) : i \in 0..n /\ i # n
      BY <1>1
    <2> QED
      BY <2>1, <2>2
  <1>3. \A i \in 0..(n-1) : /\ Layer(act, i) # t /\ Layer(act, i) \in Actors
                            /\ Base(act, sav, i) \in Nat
    <2>1. n \in 0..n
      BY <1>1
    <2> QED
      BY <1>1, <1>2, <2>1, LayerFacts
  <1>4. \A i \in 0..(n-1) : liv2[Layer(act, i)] = liv[Layer(act, i)] /\ liv[Layer(act, i)] \in Nat
    BY <1>3 DEF Lives
  <1>5. /\ \A i \in 1..n :
             /\ sav[act[i]].prev = Layer(act, i-1)
             /\ sav[act[i]].barrier = Layer(act, i-1)
             /\ sav[act[i]].depth = liv[Layer(act, i-1)]
             /\ sav[act[i]].mark = Base(act, sav, i-1) + liv[Layer(act, i-1)]
        /\ \A i, j \in 0..n :
             i < j => Base(act, sav, i) + liv[Layer(act, i)] <= Base(act, sav, j)
        /\ \A i \in 0..n : \A k \in 1..liv[Layer(act, i)] :
             cl[Base(act, sav, i) + k] = Layer(act, i)
    BY DEF Layered
  <1>6. sav[t].mark = Base(act, sav, n)
    BY <1>1 DEF Base
  <1>7. \A i \in 0..(n-1) : Base(act, sav, i) + liv[Layer(act, i)] <= sav[t].mark
    BY <1>2, <1>6, StretchFacts
  <1>8. \A i \in 1..(n-1) : act2[i] = act[i]
    OBVIOUS
  <1>9. Len(act2) = n - 1 /\ Len(cl2) = sav[t].mark /\ \A k \in 1..sav[t].mark : cl2[k] = cl[k]
    OBVIOUS
  <1>10. Top(act2) = Layer(act, n-1)
    BY <1>1, <1>2, <1>9 DEF Top
  <1>11. sav[t].mark \in Nat
    BY <1>1 DEF Saves
  <1> HIDE DEF n, t, liv2
  <1>12. ASSUME NEW i \in 1..(n-1)
         PROVE  /\ sav[act2[i]].prev = Layer(act2, i-1)
                /\ sav[act2[i]].barrier = Layer(act2, i-1)
                /\ sav[act2[i]].depth = liv2[Layer(act2, i-1)]
                /\ sav[act2[i]].mark = Base(act2, sav, i-1) + liv2[Layer(act2, i-1)]
    <2>1. i \in 1..n /\ i-1 \in 0..(n-1) /\ act2[i] = act[i]
      BY <1>1, <1>8
    <2> QED
      BY <1>2, <1>4, <1>5, <2>1
  <1>13. \A i, j \in 0..(n-1) :
           i < j => Base(act2, sav, i) + liv2[Layer(act2, i)] <= Base(act2, sav, j)
    BY <1>2, <1>4, <1>5
  <1>14. Len(cl2) = Base(act2, sav, n-1) + liv2[Layer(act2, n-1)]
    <2>1. n \in 1..n /\ n-1 \in 0..(n-1)
      BY <1>1
    <2> QED
      BY <1>1, <1>2, <1>4, <1>5, <1>9, <2>1
  <1>15. ASSUME NEW i \in 0..(n-1), NEW k \in 1..liv2[Layer(act2, i)]
         PROVE  cl2[Base(act2, sav, i) + k] = Layer(act2, i)
    <2>1. /\ k \in 1..liv[Layer(act, i)] /\ Base(act, sav, i) \in Nat
          /\ Layer(act2, i) = Layer(act, i) /\ Base(act2, sav, i) = Base(act, sav, i)
      BY <1>2, <1>3, <1>4
    <2>2. Base(act, sav, i) + k \in 1..sav[t].mark
      BY <1>4, <1>7, <1>11, <2>1
    <2> QED
      BY <1>2, <1>5, <1>9, <2>1, <2>2
  <1>16. Layered(act2, sav, liv2, cl2)
    BY <1>9, <1>12, <1>13, <1>14, <1>15 DEF Layered, Top
  <1>17. sav[t].prev = Layer(act, n-1) /\ sav[t].barrier = Layer(act, n-1)
         /\ sav[t].depth = liv[Layer(act, n-1)]
    <2>1. n \in 1..n
      BY <1>1
    <2> QED
      BY <1>1, <1>5, <2>1
  <1>18. liv2[Layer(act, n-1)] = liv[Layer(act, n-1)]
    BY <1>1, <1>4
  <1> QED
    BY <1>10, <1>16, <1>17, <1>18 DEF t, liv2

-----------------------------------------------------------------------------
\* The initial states and the steps

\* The last await of the next state was one of a task that is done by now.
AwaitNew ==
    lastAwait'.of # NoTask /\ ~lastAwait'.early =>
        /\ Done(lastAwait'.of)
        /\ lastAwait'.out # "raised" => ~hasError[lastAwait'.of]

\* What is kept as it is
LEMMA Facts ==
  ASSUME Inv
  PROVE  /\ TypeOK /\ TasksSound /\ Bodies(active) /\ saved \in Saves /\ live \in Lives
         /\ cleanup \in Seq(Actors) /\ Top(active) \in Actors
         /\ UNCHANGED lastAwait => AwaitNew
  <1>1. TypeOK /\ TasksSound /\ Bodies(active) /\ saved \in Saves /\ live \in Lives /\ cleanup \in Seq(Actors)
    BY DEF Inv, TypeOK, TasksSound, Bodies, Saves, Lives
  <1>2. Top(active) \in Actors
    <2>1. Len(active) \in 0..Len(active)
      BY <1>1 DEF Bodies
    <2> QED
      BY <1>1, <2>1, LayerFacts DEF Top
  <1> QED
    BY <1>1, <1>2 DEF Inv, AwaitSound, AwaitNew, FailureReraised

\* What is done stays done, and so does its outcome.
LEMMA AwaitKept ==
  ASSUME AwaitNew, TypeOK',
         \A t \in Tasks : Done(t) => Done(t)' /\ hasError'[t] = hasError[t]
  PROVE  AwaitSound'
  <1>1. lastAwait'.of \in Tasks \union {NoTask}
    BY DEF TypeOK
  <1> QED
    BY <1>1 DEF AwaitNew, AwaitSound, FailureReraised, Done

\* A step that touches no call, no frame and no body
LEMMA QuietInv ==
  ASSUME Inv, UNCHANGED <<currentTask, depth, cleanup, live, saved, hasError, active, jumped>>,
         barrier' \in Actors, disciplined' => barrier' = Top(active),
         who' \in Actors \union {Core, Crossed, Nested},
         st' \in [Tasks -> {"unborn", "ready", "asleep", "awaiting", "running", "done"}],
         awaitOf' \in [Actors -> Tasks \union {NoTask}],
         result' \in [Tasks -> {"none", "value", "error"}],
         disciplined' \in BOOLEAN, disciplined' => disciplined,
         lastAwait' \in [of : Tasks \union {NoTask}, early : BOOLEAN,
                         out : {"none", "value", "void", "raised"}],
         who' \in Tasks => st'[who'] = "running",
         disciplined' /\ who' \in Actors => who' = Top(active),
         \A t \in Tasks :
           /\ Alive(t)' <=> Alive(t)
           /\ st'[t] \in {"unborn", "ready"} => st[t] \in {"unborn", "ready"}
           /\ Done(t) => Done(t)',
         AwaitNew
  PROVE  Inv'
  <1>1. TypeOK'
    BY DEF Inv, TypeOK
  <1>2. TasksSound'
    BY DEF Inv, TasksSound
  <1>3. Nesting'
    BY DEF Inv, Nesting, FieldsOfTop
  <1>4. Accounted'
    BY DEF Inv, Accounted, FramesOf
  <1>5. AwaitSound'
    BY <1>1, AwaitKept
  <1> QED
    BY <1>1, <1>2, <1>3, <1>4, <1>5 DEF Inv

LEMMA InitInv == Init => Inv
  <1> SUFFICES ASSUME Init PROVE Inv
    OBVIOUS
  <1>1. Main \in Actors /\ NoTask \in Tasks \union {NoTask} /\ 0 \in 0..MaxLive
    BY ConstantFacts
  <1>2. TypeOK
    <2>1. NoSaved \in [prev : Tasks \union {NoTask}, barrier : Actors, depth : Int, mark : Nat]
      BY <1>1 DEF NoSaved
    <2>2. NoAwait \in [of : Tasks \union {NoTask}, early : BOOLEAN,
                       out : {"none", "value", "void", "raised"}]
      BY <1>1 DEF NoAwait
    <2>3. active \in Seq(Tasks) /\ cleanup \in Seq(Actors)
      BY DEF Init
    <2>4. /\ live \in [Actors -> 0..MaxLive] /\ saved \in [Tasks -> [prev : Tasks \union {NoTask},
                barrier : Actors, depth : Int, mark : Nat]]
          /\ awaitOf \in [Actors -> Tasks \union {NoTask}]
          /\ hasError \in [Tasks -> BOOLEAN]
      BY <1>1, <2>1 DEF Init
    <2>5. /\ st \in [Tasks -> {"unborn", "ready", "asleep", "awaiting", "running", "done"}]
          /\ result \in [Tasks -> {"none", "value", "error"}]
          /\ who \in Actors /\ barrier \in Actors /\ depth \in Int
          /\ currentTask \in Tasks \union {NoTask}
      BY <1>1 DEF Init
    <2>6. disciplined \in BOOLEAN /\ jumped \in BOOLEAN
      BY DEF Init
    <2> QED
      BY <2>2, <2>3, <2>4, <2>5, <2>6 DEF Init, TypeOK
  <1>3. TasksSound
    BY ConstantFacts DEF Init, TasksSound, Alive
  <1>4. active = <<>> /\ Len(active) = 0 /\ Top(active) = Main
    BY DEF Init, Top, Layer
  <1>5. live[Main] = 0 /\ cleanup = <<>>
    BY <1>1 DEF Init
  <1>6. Layered(active, saved, live, cleanup)
    BY <1>4, <1>5 DEF Layered, Base, Layer
  <1>7. FieldsOfTop
    BY <1>4, <1>5, ConstantFacts DEF FieldsOfTop, Init
  <1>8. Accounted
    <2>1. \A a \in Actors : FramesOf(a) = {}
      BY <1>5 DEF FramesOf
    <2>2. \A a \in Actors : live[a] = 0
      BY DEF Init
    <2> QED
      BY <2>1, <2>2, FS_EmptySet DEF Accounted
  <1>9. AwaitSound
    BY DEF Init, AwaitSound, FailureReraised, NoAwait
  <1> QED
    BY <1>2, <1>3, <1>6, <1>7, <1>8, <1>9 DEF Inv, Nesting

\* The frames of a when one is pushed for b
LEMMA FramesPushed ==
  ASSUME cleanup \in Seq(Actors), NEW a \in Actors, NEW b \in Actors,
         cleanup' = Append(cleanup, b)
  PROVE  /\ a = b => Cardinality(FramesOf(a)') = Cardinality(FramesOf(a)) + 1
         /\ a # b => FramesOf(a)' = FramesOf(a)
  <1> DEFINE n == Len(cleanup)
  <1>1. n \in Nat /\ Len(cleanup') = n + 1 /\ cleanup'[n+1] = b
        /\ \A i \in 1..n : cleanup'[i] = cleanup[i]
    OBVIOUS
  <1>2. DOMAIN cleanup = 1..n /\ DOMAIN cleanup' = 1..(n+1)
    OBVIOUS
  <1>3. FramesOf(a)' = IF a = b THEN FramesOf(a) \union {n+1} ELSE FramesOf(a)
    BY <1>1, <1>2 DEF FramesOf
  <1>4. IsFiniteSet(FramesOf(a)) /\ n + 1 \notin FramesOf(a)
    <2>1. FramesOf(a) \subseteq 1..n
      BY <1>2 DEF FramesOf
    <2>2. IsFiniteSet(1..n)
      BY <1>1, FS_Interval
    <2> QED
      BY <1>1, <2>1, <2>2, FS_Subset
  <1> QED
    BY <1>3, <1>4, FS_AddElement

\* cleanup_pop takes one frame of a away and none of the others'.
LEMMA FramesPopped ==
  ASSUME cleanup \in Seq(Actors), NEW a \in Actors, FramesOf(a) # {}, cleanup' = Pop(a)
  PROVE  /\ cleanup' \in Seq(Actors)
         /\ \A b \in Actors : Cardinality(FramesOf(b)') =
              IF b = a THEN Cardinality(FramesOf(b)) - 1 ELSE Cardinality(FramesOf(b))
  <1> DEFINE n == Len(cleanup)
             m == Max(FramesOf(a))
  <1>1. n \in Nat /\ DOMAIN cleanup = 1..n
    OBVIOUS
  <1>2. \A b \in Actors : FramesOf(b) \subseteq 1..n /\ IsFiniteSet(FramesOf(b))
    <2>1. \A b \in Actors : FramesOf(b) \subseteq 1..n
      BY <1>1 DEF FramesOf
    <2>2. IsFiniteSet(1..n)
      BY <1>1, FS_Interval
    <2> QED
      BY <2>1, <2>2, FS_Subset
  <1>3. m \in FramesOf(a)
    BY <1>1, <1>2, MaxFacts
  <1>4. m \in 1..n /\ cleanup[m] = a
    BY <1>2, <1>3 DEF FramesOf
  <1>5. cleanup' = RemoveAt(cleanup, m)
    BY DEF Pop
  <1> HIDE DEF m
  <1>6. /\ cleanup' \in Seq(Actors) /\ Len(cleanup') = n - 1
        /\ \A j \in 1..(n-1) : cleanup'[j] = IF j < m THEN cleanup[j] ELSE cleanup[j+1]
    BY <1>4, <1>5, RemoveAtFacts
  <1>7. DOMAIN cleanup' = 1..(n-1)
    BY <1>6
  <1>8. ASSUME NEW b \in Actors
        PROVE  Cardinality(FramesOf(b)') = Cardinality(FramesOf(b) \ {m})
    <2> DEFINE S == FramesOf(b) \ {m}
               T == FramesOf(b)'
               f == [i \in S |-> IF i < m THEN i ELSE i - 1]
    <2>1. S \subseteq 1..n /\ IsFiniteSet(S) /\ \A i \in S : i # m /\ cleanup[i] = b
      <3>1. IsFiniteSet(S)
        BY <1>2, FS_Subset
      <3> QED
        BY <1>2, <3>1 DEF FramesOf
    <2>2. \A j : j \in T <=> j \in 1..(n-1) /\ cleanup'[j] = b
      BY <1>7 DEF FramesOf
    <2>3. \A i \in 1..n : cleanup[i] = b /\ i # m => i \in S
      BY <1>1 DEF FramesOf
    <2> HIDE DEF S, T
    <2>4. ASSUME NEW i \in S PROVE f[i] \in T
      <3>1. CASE i < m
        BY <1>1, <1>4, <1>6, <2>1, <2>2, <3>1
      <3>2. CASE ~(i < m)
        <4>1. i > m /\ i - 1 \in 1..(n-1) /\ ~(i - 1 < m) /\ (i - 1) + 1 = i
          BY <1>1, <1>4, <2>1, <3>2
        <4>2. cleanup'[i - 1] = b
          BY <1>6, <2>1, <4>1
        <4> QED
          BY <2>2, <3>2, <4>1, <4>2
      <3> QED
        BY <3>1, <3>2
    <2>5. ASSUME NEW i \in S, NEW k \in S, f[i] = f[k] PROVE i = k
      BY <1>1, <1>4, <2>1, <2>5
    <2>6. ASSUME NEW j \in T PROVE \E i \in S : f[i] = j
      <3>1. j \in 1..(n-1) /\ cleanup'[j] = b
        BY <2>2
      <3>2. CASE j < m
        <4>1. j \in 1..n /\ cleanup[j] = b /\ j # m
          BY <1>1, <1>4, <1>6, <3>1, <3>2
        <4>2. j \in S
          BY <2>3, <4>1
        <4> QED
          BY <3>2, <4>2
      <3>3. CASE ~(j < m)
        <4>1. j + 1 \in 1..n /\ cleanup[j+1] = b /\ j + 1 # m /\ ~(j + 1 < m) /\ (j + 1) - 1 = j
          BY <1>1, <1>4, <1>6, <3>1, <3>3
        <4>2. j + 1 \in S
          BY <2>3, <4>1
        <4> QED
          BY <4>1, <4>2
      <3> QED
        BY <3>2, <3>3
    <2>7. f \in Bijection(S, T)
      <3>1. f \in [S -> T] /\ DOMAIN f = S
        BY <2>4
      <3>2. IsInjective(f)
        BY <2>5, <3>1 DEF IsInjective
      <3>3. f \in Surjection(S, T)
        BY <2>6, <3>1 DEF Surjection
      <3> QED
        BY <3>1, <3>2, <3>3 DEF Bijection, Injection
    <2>8. ExistsBijection(S, T)
      BY <2>7 DEF ExistsBijection
    <2>9. Cardinality(T) = Cardinality(S)
      BY <2>1, <2>8, FS_Bijection
    <2> QED
      BY <2>9 DEF S, T
  <1>9. \A b \in Actors : Cardinality(FramesOf(b) \ {m}) =
          IF m \in FramesOf(b) THEN Cardinality(FramesOf(b)) - 1 ELSE Cardinality(FramesOf(b))
    BY <1>2, FS_RemoveElement
  <1>10. \A b \in Actors : m \in FramesOf(b) <=> b = a
    BY <1>3, <1>4 DEF FramesOf
  <1> QED
    BY <1>6, <1>8, <1>9, <1>10

\* Where the newest frame is on top, that is the one it takes.
LEMMA PopsTop ==
  ASSUME cleanup \in Seq(Actors), NEW a \in Actors, Len(cleanup) > 0,
         cleanup[Len(cleanup)] = a, cleanup' = Pop(a)
  PROVE  /\ Len(cleanup') = Len(cleanup) - 1
         /\ \A k \in 1..(Len(cleanup)-1) : cleanup'[k] = cleanup[k]
  <1> DEFINE n == Len(cleanup)
             m == Max(FramesOf(a))
  <1>1. n \in Nat /\ n \in 1..n /\ FramesOf(a) \subseteq 1..n /\ n \in FramesOf(a)
    BY DEF FramesOf
  <1>2. m \in FramesOf(a) /\ n <= m
    BY <1>1, MaxFacts
  <1>3. m = n
    BY <1>1, <1>2
  <1>4. cleanup' = RemoveAt(cleanup, n)
    BY <1>1, <1>3 DEF Pop
  <1> HIDE DEF n, m
  <1>5. /\ Len(cleanup') = Len(cleanup) - 1
        /\ \A j \in 1..(Len(cleanup)-1) :
             cleanup'[j] = IF j < n THEN cleanup[j] ELSE cleanup[j+1]
    BY <1>1, <1>4, RemoveAtFacts DEF n
  <1> QED
    BY <1>1, <1>5 DEF n

\* The frame on top is one of the top layer, if that has any.
LEMMA TopFrame ==
  ASSUME Inv, disciplined, live[Top(active)] > 0
  PROVE  Len(cleanup) > 0 /\ cleanup[Len(cleanup)] = Top(active)
  <1> DEFINE n == Len(active)
  <1>1. /\ Bodies(active) /\ saved \in Saves /\ live \in Lives
        /\ cleanup \in Seq(Actors) /\ Layered(active, saved, live, cleanup)
    BY Facts DEF Inv, Nesting
  <1>2. n \in Nat /\ n \in 0..n /\ Top(active) = Layer(active, n)
    BY <1>1 DEF Bodies, Top
  <1>3. Base(active, saved, n) \in Nat /\ live[Top(active)] \in Nat
    BY <1>1, <1>2, StretchFacts
  <1>4. /\ Len(cleanup) = Base(active, saved, n) + live[Top(active)]
        /\ \A k \in 1..live[Top(active)] : cleanup[Base(active, saved, n) + k] = Top(active)
    BY <1>1, <1>2 DEF Layered
  <1>5. live[Top(active)] \in 1..live[Top(active)]
    BY <1>3
  <1> QED
    BY <1>3, <1>4, <1>5

\* A call of the running actor
LEMMA CallInv ==
  ASSUME Inv, NEW a \in Actors, Call(a) PROVE Inv'
  <1>1. /\ TypeOK /\ TasksSound /\ Bodies(active) /\ saved \in Saves /\ live \in Lives
        /\ cleanup \in Seq(Actors)
    BY Facts
  <1>2. /\ who = a /\ live[a] < MaxLive /\ depth' = depth + 1
        /\ cleanup' = Append(cleanup, a) /\ live' = [live EXCEPT ![a] = @ + 1]
        /\ UNCHANGED <<who, st, awaitOf, currentTask, barrier, saved, result, hasError,
                       active, disciplined, jumped, lastAwait>>
    BY DEF Call, Executing, loopVars, histVars
  <1>3. /\ live[a] \in Nat /\ live'[a] = live[a] + 1 /\ live' \in [Actors -> 0..MaxLive]
        /\ \A b \in Actors : b # a => live'[b] = live[b]
    BY <1>1, <1>2, ConstantFacts DEF Lives
  <1>4. TypeOK'
    <2>1. cleanup' \in Seq(Actors) /\ depth' \in Int
      BY <1>1, <1>2 DEF TypeOK
    <2> QED
      BY <1>1, <1>2, <1>3, <2>1 DEF TypeOK
  <1>5. TasksSound'
    <2>1. \A t \in Tasks : t = a => st[t] = "running"
      BY <1>1, <1>2 DEF TasksSound
    <2> QED
      BY <1>1, <1>2, <1>3, <2>1, ConstantFacts DEF TasksSound, Alive
  <1>6. Nesting'
    <2> SUFFICES ASSUME disciplined PROVE (FieldsOfTop /\ Layered(active, saved, live, cleanup))'
      BY <1>2 DEF Nesting
    <2>1. FieldsOfTop /\ Layered(active, saved, live, cleanup) /\ a = Top(active)
      BY <1>2 DEF Inv, Nesting, FieldsOfTop
    <2>2. Layered(active, saved, live', cleanup')
      BY <1>1, <1>2, <2>1, PushFrame
    <2> QED
      BY <1>2, <1>3, <2>1, <2>2 DEF FieldsOfTop
  <1>7. Accounted'
    <2>1. \A b \in Actors : Cardinality(FramesOf(b)') =
            IF b = a THEN Cardinality(FramesOf(b)) + 1 ELSE Cardinality(FramesOf(b))
      BY <1>1, <1>2, FramesPushed
    <2> QED
      BY <1>2, <1>3, <2>1 DEF Inv, Accounted
  <1>8. AwaitSound'
    BY <1>2, <1>4, AwaitKept, Facts DEF Done
  <1> QED
    BY <1>4, <1>5, <1>6, <1>7, <1>8 DEF Inv

\* A return to a caller on the same stack
LEMMA ReturnInv ==
  ASSUME Inv, NEW a \in Actors, Return(a) PROVE Inv'
  <1>1. /\ TypeOK /\ TasksSound /\ Bodies(active) /\ saved \in Saves /\ live \in Lives
        /\ cleanup \in Seq(Actors)
    BY Facts
  <1>2. /\ who = a /\ live[a] > 0 /\ depth' = depth - 1
        /\ cleanup' = Pop(a) /\ live' = [live EXCEPT ![a] = @ - 1]
        /\ UNCHANGED <<who, st, awaitOf, currentTask, barrier, saved, result, hasError,
                       active, disciplined, jumped, lastAwait>>
    <2>1. live[a] \in Nat
      BY <1>1 DEF Lives
    <2> QED
      BY <2>1 DEF Return, Executing, loopVars, histVars
  <1>3. /\ live[a] \in Nat /\ live'[a] = live[a] - 1 /\ live' \in [Actors -> 0..MaxLive]
        /\ \A b \in Actors : b # a => live'[b] = live[b]
    BY <1>1, <1>2, ConstantFacts DEF Lives
  <1>4. TypeOK'
    <2>1. cleanup' \in Seq(Actors)
      BY <1>1, <1>2, FramesPopped DEF Pop
    <2>2. depth' \in Int
      BY <1>1, <1>2 DEF TypeOK
    <2> QED
      BY <1>1, <1>2, <1>3, <2>1, <2>2 DEF TypeOK
  <1>5. TasksSound'
    <2>1. \A t \in Tasks : t = a => st[t] = "running"
      BY <1>1, <1>2 DEF TasksSound
    <2> QED
      BY <1>1, <1>2, <1>3, <2>1, ConstantFacts DEF TasksSound, Alive
  <1>6. Nesting'
    <2> SUFFICES ASSUME disciplined PROVE (FieldsOfTop /\ Layered(active, saved, live, cleanup))'
      BY <1>2 DEF Nesting
    <2>1. FieldsOfTop /\ Layered(active, saved, live, cleanup) /\ a = Top(active)
      BY <1>2 DEF Inv, Nesting, FieldsOfTop
    <2>2. Len(cleanup) > 0 /\ cleanup[Len(cleanup)] = a
      BY <1>2, <2>1, TopFrame
    <2>3. /\ Len(cleanup') = Len(cleanup) - 1
          /\ \A k \in 1..(Len(cleanup)-1) : cleanup'[k] = cleanup[k]
      BY <1>1, <1>2, <2>2, PopsTop
    <2>4. Layered(active, saved, live', cleanup')
      BY <1>1, <1>2, <2>1, <2>3, PopFrame
    <2> QED
      BY <1>2, <1>3, <2>1, <2>4 DEF FieldsOfTop
  <1>7. Accounted'
    <2> SUFFICES ASSUME ~jumped PROVE \A b \in Actors : Cardinality(FramesOf(b)') = live'[b]
      BY <1>2 DEF Accounted
    <2>1. \A b \in Actors : Cardinality(FramesOf(b)) = live[b]
      BY DEF Inv, Accounted
    <2>2. FramesOf(a) # {}
      BY <1>2, <2>1, FS_EmptySet
    <2>3. \A b \in Actors : Cardinality(FramesOf(b)') =
            IF b = a THEN Cardinality(FramesOf(b)) - 1 ELSE Cardinality(FramesOf(b))
      BY <1>1, <1>2, <2>2, FramesPopped
    <2> QED
      BY <1>3, <2>1, <2>3
  <1>8. AwaitSound'
    BY <1>2, <1>4, AwaitKept, Facts DEF Done
  <1> QED
    BY <1>4, <1>5, <1>6, <1>7, <1>8 DEF Inv

\* The body that runs is listed once; taking it out lists the others.
LEMMA ActiveWithout ==
  ASSUME Inv, NEW t \in Tasks, who = t,
         active' = RemoveAt(active, CHOOSE i \in DOMAIN active : active[i] = t)
  PROVE  /\ Bodies(active') /\ Len(active) > 0 /\ Len(active') = Len(active) - 1
         /\ \A u \in Tasks : (\E i \in DOMAIN active' : active'[i] = u)
                               <=> u # t /\ \E i \in DOMAIN active : active[i] = u
         /\ t = Top(active) => \A i \in 1..(Len(active)-1) : active'[i] = active[i]
  <1> DEFINE n == Len(active)
             k == CHOOSE i \in DOMAIN active : active[i] = t
  <1>1. Bodies(active) /\ n \in Nat /\ DOMAIN active = 1..n
    BY Facts DEF Bodies
  <1>2. \E i \in DOMAIN active : active[i] = t
    BY DEF Inv, TasksSound, Alive
  <1>3. k \in 1..n /\ active[k] = t
    BY <1>1, <1>2
  <1>12. active' = RemoveAt(active, k) /\ active \in Seq(Tasks)
    BY <1>1 DEF Bodies
  <1> HIDE DEF k
  <1>4. /\ active' \in Seq(Tasks) /\ Len(active') = n - 1
        /\ \A j \in 1..(n-1) : active'[j] = IF j < k THEN active[j] ELSE active[j+1]
    BY <1>3, <1>12, RemoveAtFacts
  <1> HIDE DEF n
  <1>5. DOMAIN active' = 1..(n-1)
    <2>1. DOMAIN active' = 1..Len(active')
      BY <1>4
    <2> QED
      BY <1>4, <2>1
  <1>6. \A i, j \in 1..n : active[i] = active[j] => i = j
    BY <1>1 DEF Bodies
  <1>7. \A i \in 1..(n-1) : /\ i \in 1..n /\ i + 1 \in 1..n
                            /\ active'[i] = IF i < k THEN active[i] ELSE active[i+1]
    BY <1>1, <1>4
  <1>8. Bodies(active')
    <2>1. ASSUME NEW i \in 1..(n-1), NEW j \in 1..(n-1), active'[i] = active'[j] PROVE i = j
      <3>1. CASE i < k /\ j < k
        BY <1>6, <1>7, <2>1, <3>1
      <3>2. CASE i < k /\ ~(j < k)
        <4>1. active[i] = active[j+1] /\ i \in 1..n /\ j + 1 \in 1..n
          BY <1>7, <2>1, <3>2
        <4>2. i = j + 1
          BY <1>6, <4>1
        <4> QED
          BY <1>1, <1>3, <3>2, <4>2
      <3>3. CASE ~(i < k) /\ j < k
        <4>1. active[i+1] = active[j] /\ i + 1 \in 1..n /\ j \in 1..n
          BY <1>7, <2>1, <3>3
        <4>2. i + 1 = j
          BY <1>6, <4>1
        <4> QED
          BY <1>1, <1>3, <3>3, <4>2
      <3>4. CASE ~(i < k) /\ ~(j < k)
        <4>1. i + 1 = j + 1
          BY <1>6, <1>7, <2>1, <3>4
        <4> QED
          BY <1>1, <4>1
      <3> QED
        BY <3>1, <3>2, <3>3, <3>4
    <2> QED
      BY <1>4, <1>5, <2>1 DEF Bodies
  <1>9. ASSUME NEW u \in Tasks
        PROVE  (\E i \in DOMAIN active' : active'[i] = u)
                 <=> u # t /\ \E i \in DOMAIN active : active[i] = u
    <2>1. ASSUME NEW i \in 1..(n-1), active'[i] = u
          PROVE  u # t /\ \E j \in DOMAIN active : active[j] = u
      <3>1. CASE i < k
        <4>1. active[i] = u /\ i \in 1..n /\ i # k
          BY <1>1, <1>3, <1>7, <2>1, <3>1
        <4> QED
          BY <1>1, <1>3, <1>6, <4>1
      <3>2. CASE ~(i < k)
        <4>1. active[i+1] = u /\ i + 1 \in 1..n /\ i + 1 # k
          BY <1>1, <1>3, <1>7, <2>1, <3>2
        <4> QED
          BY <1>1, <1>3, <1>6, <4>1
      <3> QED
        BY <3>1, <3>2
    <2>2. ASSUME NEW j \in 1..n, active[j] = u, u # t
          PROVE  \E i \in 1..(n-1) : active'[i] = u
      <3>1. CASE j < k
        <4>1. j \in 1..(n-1)
          BY <1>1, <1>3, <3>1
        <4> QED
          BY <1>7, <2>2, <3>1, <4>1
      <3>2. CASE ~(j < k)
        <4>1. j # k
          BY <1>3, <2>2
        <4>2. j - 1 \in 1..(n-1) /\ ~(j - 1 < k) /\ (j - 1) + 1 = j
          BY <1>1, <1>3, <3>2, <4>1
        <4>3. active'[j-1] = u
          BY <1>7, <2>2, <4>2
        <4> QED
          BY <4>2, <4>3
      <3> QED
        BY <3>1, <3>2
    <2> QED
      BY <1>1, <1>5, <2>1, <2>2
  <1>10. n > 0
    BY <1>1, <1>3
  <1>11. ASSUME t = Top(active) PROVE \A i \in 1..(n-1) : active'[i] = active[i]
    <2>1. active[n] = t /\ n \in 1..n
      BY <1>1, <1>10, <1>11 DEF Top, Layer, n
    <2>2. k = n
      BY <1>3, <1>6, <2>1
    <2> QED
      BY <1>1, <1>7, <2>2
  <1> QED
    BY <1>4, <1>8, <1>9, <1>10, <1>11 DEF n

\* The end of a body, by its last return or by an error
LEMMA EndBodyInv ==
  ASSUME Inv, NEW t \in Tasks, who = t,
         NEW out \in {"value", "error"}, NEW rs \in [Tasks -> {"none", "value", "error"}],
         EndBody(t, out, rs), cleanup' \in Seq(Actors),
         disciplined => /\ Len(cleanup') = saved[t].mark
                        /\ \A k \in 1..saved[t].mark : cleanup'[k] = cleanup[k],
         UNCHANGED disciplined,
         awaitOf' \in [Actors -> Tasks \union {NoTask}],
         lastAwait' \in [of : Tasks \union {NoTask}, early : BOOLEAN,
                         out : {"none", "value", "void", "raised"}],
         jumped' \in BOOLEAN,
         ~jumped' => /\ ~jumped
                     /\ \A b \in Actors : Cardinality(FramesOf(b)') = IF b = t THEN 0 ELSE live[b],
         AwaitNew
  PROVE  Inv'
  <1>1. /\ TypeOK /\ TasksSound /\ Bodies(active) /\ saved \in Saves /\ live \in Lives
        /\ cleanup \in Seq(Actors)
    BY Facts
  <1>2. /\ depth' = saved[t].depth /\ barrier' = saved[t].barrier /\ currentTask' = saved[t].prev
        /\ result' = [rs EXCEPT ![t] = out]
        /\ hasError' = [hasError EXCEPT ![t] = (out = "error")]
        /\ st' = [st EXCEPT ![t] = "done"] /\ live' = [live EXCEPT ![t] = 0]
        /\ active' = RemoveAt(active, CHOOSE i \in DOMAIN active : active[i] = t)
        /\ who' = Core /\ UNCHANGED saved
    BY DEF EndBody, RestoreInterp
  <1>3. /\ Bodies(active') /\ Len(active) > 0 /\ Len(active') = Len(active) - 1
        /\ \A u \in Tasks : (\E i \in DOMAIN active' : active'[i] = u)
                              <=> u # t /\ \E i \in DOMAIN active : active[i] = u
        /\ t = Top(active) => \A i \in 1..(Len(active)-1) : active'[i] = active[i]
    BY <1>2, ActiveWithout
  <1>4. st[t] = "running" /\ t \in Actors
    BY <1>1, ConstantFacts DEF TasksSound
  <1>5. /\ live' \in [Actors -> 0..MaxLive] /\ live'[t] = 0
        /\ \A b \in Actors : b # t => live'[b] = live[b]
    BY <1>1, <1>2, <1>4, ConstantFacts DEF Lives
  <1>6. TypeOK'
    <2>1. /\ depth' \in Int /\ barrier' \in Actors /\ currentTask' \in Tasks \union {NoTask}
      BY <1>1, <1>2 DEF Saves
    <2>2. /\ result' \in [Tasks -> {"none", "value", "error"}]
          /\ hasError' \in [Tasks -> BOOLEAN]
          /\ st' \in [Tasks -> {"unborn", "ready", "asleep", "awaiting", "running", "done"}]
      BY <1>1, <1>2 DEF TypeOK
    <2>3. active' \in Seq(Tasks)
      BY <1>3 DEF Bodies
    <2>4. disciplined' \in BOOLEAN /\ saved' = saved /\ who' = Core
      BY <1>1, <1>2 DEF TypeOK
    <2> QED
      BY <1>1, <1>5, <2>1, <2>2, <2>3, <2>4 DEF TypeOK
  <1>7. TasksSound'
    <2>1. \A u \in Tasks : Alive(u)' <=> u # t /\ Alive(u)
      BY <1>1, <1>2, <1>4 DEF TypeOK, Alive
    <2>2. \A u \in Tasks : Alive(u)' <=> \E i \in DOMAIN active' : active'[i] = u
      BY <1>1, <1>3, <2>1 DEF TasksSound
    <2>3. \A i, j \in DOMAIN active' : active'[i] = active'[j] => i = j
      BY <1>3 DEF Bodies
    <2>4. who' \notin Tasks
      BY <1>2, ConstantFacts
    <2>5. \A u \in Tasks : st'[u] \in {"unborn", "ready"} => live'[u] = 0
      BY <1>1, <1>2, <1>5, ConstantFacts DEF TasksSound, TypeOK
    <2> QED
      BY <2>2, <2>3, <2>4, <2>5 DEF TasksSound
  <1>8. Nesting'
    <2> SUFFICES ASSUME disciplined PROVE (FieldsOfTop /\ Layered(active, saved, live, cleanup))'
      BY DEF Nesting
    <2>1. Layered(active, saved, live, cleanup) /\ t = Top(active)
      BY <1>4 DEF Inv, Nesting, FieldsOfTop
    <2>2. /\ Len(cleanup') = saved[Top(active)].mark
          /\ \A k \in 1..saved[Top(active)].mark : cleanup'[k] = cleanup[k]
          /\ Len(active) > 0 /\ Len(active') = Len(active) - 1
          /\ \A i \in 1..(Len(active)-1) : active'[i] = active[i]
      BY <1>3, <2>1
    <2>3. /\ Layered(active', saved, [live EXCEPT ![Top(active)] = 0], cleanup')
          /\ saved[Top(active)].prev = Top(active') /\ saved[Top(active)].barrier = Top(active')
          /\ saved[Top(active)].depth = [live EXCEPT ![Top(active)] = 0][Top(active')]
      BY ONLY <1>1, <2>1, <2>2, LeaveLayer
    <2>4. live' = [live EXCEPT ![Top(active)] = 0]
      BY <1>2, <2>1
    <2>5. Core \notin Actors
      BY ConstantFacts
    <2> QED
      BY <1>2, <2>1, <2>3, <2>4, <2>5 DEF FieldsOfTop
  <1>9. Accounted'
    BY <1>5 DEF Accounted
  <1>10. AwaitSound'
    <2>1. \A u \in Tasks : Done(u) => Done(u)' /\ hasError'[u] = hasError[u]
      BY <1>1, <1>2, <1>4 DEF Done, TypeOK
    <2> QED
      BY <1>6, <2>1, AwaitKept
  <1> QED
    BY <1>6, <1>7, <1>8, <1>9, <1>10 DEF Inv

\* Above what the top body had saved there are only its own frames.
LEMMA MarkOfTop ==
  ASSUME Inv, disciplined, NEW t \in Tasks, t = Top(active)
  PROVE  /\ saved[t].mark \in Nat /\ live[t] \in Nat
         /\ Len(cleanup) = saved[t].mark + live[t]
  <1> DEFINE n == Len(active)
  <1>1. /\ Bodies(active) /\ saved \in Saves /\ live \in Lives
        /\ cleanup \in Seq(Actors) /\ Layered(active, saved, live, cleanup)
    BY Facts DEF Inv, Nesting
  <1>2. n \in Nat /\ n # 0 /\ t = active[n]
    BY <1>1, ConstantFacts DEF Bodies, Top, Layer
  <1>3. Base(active, saved, n) = saved[t].mark
    BY <1>2 DEF Base
  <1>4. Len(cleanup) = Base(active, saved, n) + live[t]
    BY <1>1 DEF Layered
  <1>5. saved[t].mark \in Nat /\ live[t] \in Nat
    BY <1>1, ConstantFacts DEF Saves, Lives
  <1> QED
    BY <1>3, <1>4, <1>5

\* The body's last return
LEMMA FinishInv ==
  ASSUME Inv, NEW t \in Tasks, Finish(t) PROVE Inv'
  <1>1. /\ TypeOK /\ TasksSound /\ live \in Lives /\ cleanup \in Seq(Actors)
        /\ UNCHANGED lastAwait => AwaitNew
    BY Facts
  <1>2. /\ who = t /\ live[t] = 1 /\ cleanup' = Pop(t) /\ EndBody(t, "value", result)
        /\ UNCHANGED <<awaitOf, disciplined, jumped, lastAwait>>
    BY DEF Finish, Executing
  <1>3. t \in Actors
    BY ConstantFacts
  <1>4. cleanup' \in Seq(Actors)
    BY <1>1, <1>2, <1>3, FramesPopped DEF Pop
  <1>5. ASSUME disciplined
        PROVE  /\ Len(cleanup') = saved[t].mark
               /\ \A k \in 1..saved[t].mark : cleanup'[k] = cleanup[k]
    <2>1. t = Top(active)
      BY <1>2, <1>3, <1>5 DEF Inv, Nesting, FieldsOfTop
    <2>2. saved[t].mark \in Nat /\ Len(cleanup) = saved[t].mark + 1
      BY <1>2, <1>5, <2>1, MarkOfTop
    <2>3. Len(cleanup) > 0 /\ cleanup[Len(cleanup)] = t
      BY <1>2, <1>5, <2>1, TopFrame
    <2>4. /\ Len(cleanup') = Len(cleanup) - 1
          /\ \A k \in 1..(Len(cleanup)-1) : cleanup'[k] = cleanup[k]
      BY <1>1, <1>2, <1>3, <2>3, PopsTop
    <2> QED
      BY <2>2, <2>4
  <1>6. ASSUME ~jumped
        PROVE  \A b \in Actors : Cardinality(FramesOf(b)') = IF b = t THEN 0 ELSE live[b]
    <2>1. \A b \in Actors : Cardinality(FramesOf(b)) = live[b]
      BY <1>6 DEF Inv, Accounted
    <2>2. FramesOf(t) # {}
      BY <1>2, <1>3, <2>1, FS_EmptySet
    <2>3. \A b \in Actors : Cardinality(FramesOf(b)') =
            IF b = t THEN Cardinality(FramesOf(b)) - 1 ELSE Cardinality(FramesOf(b))
      BY <1>1, <1>2, <1>3, <2>2, FramesPopped
    <2> QED
      BY <1>2, <2>1, <2>3
  <1>7. /\ result \in [Tasks -> {"none", "value", "error"}]
        /\ awaitOf' \in [Actors -> Tasks \union {NoTask}]
        /\ lastAwait' \in [of : Tasks \union {NoTask}, early : BOOLEAN,
                           out : {"none", "value", "void", "raised"}]
        /\ jumped' \in BOOLEAN
    BY <1>1, <1>2 DEF TypeOK
  <1> QED
    BY <1>1, <1>2, <1>4, <1>5, <1>6, <1>7, EndBodyInv

\* A runtime_error on the stack of the running actor
LEMMA RaiseInv ==
  ASSUME Inv, NEW a \in Actors, who = a,
         NEW rs \in [Tasks -> {"none", "value", "error"}], RaiseFrom(a, rs),
         UNCHANGED disciplined,
         awaitOf' \in [Actors -> Tasks \union {NoTask}],
         lastAwait' \in [of : Tasks \union {NoTask}, early : BOOLEAN,
                         out : {"none", "value", "void", "raised"}],
         AwaitNew
  PROVE  Inv'
  <1>1. /\ TypeOK /\ TasksSound /\ Bodies(active) /\ saved \in Saves /\ live \in Lives
        /\ cleanup \in Seq(Actors)
    BY Facts
  <1>2. jumped' = TRUE
    BY DEF RaiseFrom
  <1>3. ASSUME disciplined PROVE a = Top(active) /\ barrier = a
    BY <1>3 DEF Inv, Nesting, FieldsOfTop
  <1>4. CASE CaughtByTask(a, rs)
    <2>1. /\ a \in Tasks /\ EndBody(a, "error", rs)
          /\ cleanup' = SubSeq(cleanup, 1, IF saved[a].mark < Len(cleanup)
                                           THEN saved[a].mark ELSE Len(cleanup))
      BY <1>4, ConstantFacts DEF CaughtByTask
    <2>2. saved[a].mark \in Nat
      BY <1>1, <2>1 DEF Saves
    <2> DEFINE m == IF saved[a].mark < Len(cleanup) THEN saved[a].mark ELSE Len(cleanup)
    <2>3. m \in Nat /\ m <= Len(cleanup) /\ cleanup' = SubSeq(cleanup, 1, m)
      BY <1>1, <2>1, <2>2
    <2> HIDE DEF m
    <2>4. cleanup' \in Seq(Actors) /\ Len(cleanup') = m /\ \A k \in 1..m : cleanup'[k] = cleanup[k]
      BY <1>1, <2>3, SubSeqProperties
    <2>5. ASSUME disciplined
          PROVE  /\ Len(cleanup') = saved[a].mark
                 /\ \A k \in 1..saved[a].mark : cleanup'[k] = cleanup[k]
      <3>1. saved[a].mark \in Nat /\ live[a] \in Nat /\ Len(cleanup) = saved[a].mark + live[a]
        BY <1>3, <2>1, <2>5, MarkOfTop
      <3>2. m = saved[a].mark
        BY <3>1 DEF m
      <3> QED
        BY <2>4, <3>2
    <2> QED
      BY <1>2, <2>1, <2>4, <2>5, EndBodyInv
  <1>5. CASE CaughtByMain(a, rs)
    <2>1. /\ a = Main /\ barrier = Main /\ depth' = 0 /\ cleanup' = <<>>
          /\ live' = [live EXCEPT ![Main] = 0] /\ result' = rs
          /\ UNCHANGED <<who, st, currentTask, barrier, saved, hasError, active>>
      BY <1>5 DEF CaughtByMain
    <2>2. /\ live' \in [Actors -> 0..MaxLive] /\ live'[Main] = 0
          /\ \A t \in Tasks : live'[t] = live[t]
      BY <1>1, <2>1, ConstantFacts DEF Lives
    <2>3. TypeOK'
      <3>1. cleanup' \in Seq(Actors) /\ depth' \in Int
        BY <2>1
      <3>2. jumped' \in BOOLEAN /\ disciplined' \in BOOLEAN
        BY <1>1, <1>2 DEF TypeOK
      <3> QED
        BY <1>1, <2>1, <2>2, <3>1, <3>2 DEF TypeOK
    <2>4. TasksSound'
      BY <1>1, <2>1, <2>2 DEF TasksSound, Alive
    <2>5. Nesting'
      <3> SUFFICES ASSUME disciplined PROVE (FieldsOfTop /\ Layered(active, saved, live, cleanup))'
        BY DEF Nesting
      <3>1. Len(active) = 0
        <4>1. Layer(active, Len(active)) = Layer(active, 0) /\ Len(active) \in 0..Len(active) /\ 0 \in 0..Len(active)
          BY <1>1, <1>3, <2>1 DEF Layer, Top, Bodies
        <4> QED
          BY <1>1, <4>1, LayerFacts
      <3>2. Top(active) = Main
        BY <3>1 DEF Top, Layer
      <3>3. Layered(active, saved, live', cleanup')
        BY <2>1, <2>2, <3>1 DEF Layered, Base, Layer, Top
      <3> QED
        BY <2>1, <2>2, <3>2, <3>3 DEF Inv, Nesting, FieldsOfTop
    <2>6. Accounted'
      BY <1>2 DEF Accounted
    <2>7. AwaitSound'
      BY <2>1, <2>3, AwaitKept DEF Done
    <2> QED
      BY <2>3, <2>4, <2>5, <2>6, <2>7 DEF Inv
  <1>6. CASE CaughtElsewhere(a, rs)
    <2>1. /\ barrier # a /\ who' = Crossed /\ result' = rs
          /\ UNCHANGED <<st, currentTask, barrier, depth, cleanup, live, saved, hasError, active>>
      BY <1>6 DEF CaughtElsewhere, interpVars
    <2>2. TypeOK'
      <3>1. jumped' \in BOOLEAN /\ disciplined' \in BOOLEAN
        BY <1>1, <1>2 DEF TypeOK
      <3> QED
        BY <1>1, <2>1, <3>1 DEF TypeOK
    <2>3. TasksSound'
      BY <1>1, <2>1, ConstantFacts DEF TasksSound, Alive
    <2>4. Nesting'
      BY <1>3, <2>1 DEF Nesting
    <2>5. Accounted'
      BY <1>2 DEF Accounted
    <2>6. AwaitSound'
      BY <2>1, <2>2, AwaitKept DEF Done
    <2> QED
      BY <2>2, <2>3, <2>4, <2>5, <2>6 DEF Inv
  <1> QED
    BY <1>4, <1>5, <1>6 DEF RaiseFrom

\* The newest body is the top layer.
LEMMA NewestIsTop ==
  ASSUME active \in Seq(Tasks) PROVE Newest = Top(active)
  <1>1. CASE active = <<>>
    <2>1. Len(active) = 0
      BY <1>1
    <2> QED
      BY <1>1, <2>1 DEF Newest, Top, Layer
  <1>2. CASE active # <<>>
    <2>1. Len(active) # 0
      BY <1>2
    <2> QED
      BY <1>2, <2>1 DEF Newest, Top, Layer, Last
  <1> QED
    BY <1>1, <1>2

\* The end of an await that found u
LEMMA DeliverInv ==
  ASSUME Inv, NEW a \in Actors, who = a, NEW u \in Tasks, Deliver(a, u) PROVE Inv'
  <1>1. TypeOK /\ TasksSound
    BY Facts
  <1>2. /\ lastAwait' = [of |-> u, early |-> ~Done(u), out |-> Outcome(u)]
        /\ awaitOf' = [awaitOf EXCEPT ![a] = NoTask]
        /\ UNCHANGED disciplined
    BY DEF Deliver
  <1> DEFINE rs == [result EXCEPT ![u] = "none"]
  <1>3. /\ rs \in [Tasks -> {"none", "value", "error"}]
        /\ awaitOf' \in [Actors -> Tasks \union {NoTask}]
    BY <1>1, <1>2 DEF TypeOK
  <1>4. /\ lastAwait' \in [of : Tasks \union {NoTask}, early : BOOLEAN,
                           out : {"none", "value", "void", "raised"}]
        /\ lastAwait'.of = u /\ lastAwait'.early = ~Done(u) /\ lastAwait'.out = Outcome(u)
    <2>1. Outcome(u) \in {"none", "value", "void", "raised"} /\ (~Done(u)) \in BOOLEAN
      BY DEF Outcome
    <2> HIDE DEF Outcome, Done
    <2> QED
      BY <1>2, <2>1
  <1>5. AwaitNew
    BY <1>4 DEF AwaitNew, Outcome
  <1>6. CASE RaiseFrom(a, rs)
    BY <1>2, <1>3, <1>4, <1>5, <1>6, RaiseInv
  <1>7. CASE /\ result' = rs
             /\ UNCHANGED <<who, st, interpVars, live, saved, hasError, active, jumped>>
    <2>1. /\ UNCHANGED <<currentTask, depth, cleanup, live, saved, hasError, active, jumped>>
          /\ UNCHANGED <<barrier, who, st>>
      BY <1>7 DEF interpVars
    <2>2. /\ barrier \in Actors /\ who \in Actors \union {Core, Crossed, Nested}
          /\ st \in [Tasks -> {"unborn", "ready", "asleep", "awaiting", "running", "done"}]
          /\ disciplined \in BOOLEAN
          /\ who \in Tasks => st[who] = "running"
      BY <1>1 DEF TypeOK, TasksSound
    <2>3. disciplined => barrier = Top(active) /\ who = Top(active)
      BY DEF Inv, Nesting, FieldsOfTop
    <2>4. \A t \in Tasks : /\ Alive(t)' <=> Alive(t)
                           /\ st'[t] \in {"unborn", "ready"} => st[t] \in {"unborn", "ready"}
                           /\ Done(t) => Done(t)'
      BY <2>1 DEF Alive, Done
    <2> QED
      BY <1>2, <1>3, <1>4, <1>5, <1>7, <2>1, <2>2, <2>3, <2>4, QuietInv
  <1> QED
    BY <1>6, <1>7 DEF Deliver

\* A task changes its state and the loop or an actor runs on: spawning,
\* suspending, resuming, and the ends of awaits and programs.
LEMMA SwitchInv ==
  ASSUME Inv, UNCHANGED <<currentTask, depth, cleanup, taskVars, active, jumped, lastAwait>>,
         barrier' \in Actors, disciplined' => barrier' = Top(active),
         who' \in Actors \union {Core, Crossed, Nested},
         awaitOf' \in [Actors -> Tasks \union {NoTask}],
         disciplined' \in BOOLEAN, disciplined' => disciplined,
         st' \in [Tasks -> {"unborn", "ready", "asleep", "awaiting", "running", "done"}],
         who' \in Tasks => st'[who'] = "running",
         disciplined' /\ who' \in Actors => who' = Top(active),
         \A t \in Tasks :
           /\ Alive(t)' <=> Alive(t)
           /\ st'[t] \in {"unborn", "ready"} => st[t] \in {"unborn", "ready"}
           /\ Done(t) => Done(t)'
  PROVE  Inv'
  <1>1. TypeOK /\ AwaitNew
    BY Facts
  <1>2. /\ UNCHANGED <<currentTask, depth, cleanup, live, saved, hasError, active, jumped>>
        /\ result' \in [Tasks -> {"none", "value", "error"}]
        /\ lastAwait' \in [of : Tasks \union {NoTask}, early : BOOLEAN,
                           out : {"none", "value", "void", "raised"}]
    BY <1>1 DEF TypeOK, taskVars
  <1> QED
    BY <1>1, <1>2, QuietInv

LEMMA SpawnInv ==
  ASSUME Inv, NEW a \in Actors, NEW t \in Tasks, Spawn(a, t) PROVE Inv'
  <1>1. TypeOK /\ TasksSound /\ (disciplined => FieldsOfTop)
    BY Facts DEF Inv, Nesting
  <1>2. /\ who = a /\ st[t] = "unborn" /\ st' = [st EXCEPT ![t] = "ready"]
        /\ UNCHANGED <<currentTask, depth, cleanup, taskVars, active, jumped, lastAwait>>
        /\ UNCHANGED <<who, awaitOf, barrier, disciplined>>
    BY DEF Spawn, Executing, interpVars, histVars
  <1>3. /\ st' \in [Tasks -> {"unborn", "ready", "asleep", "awaiting", "running", "done"}]
        /\ who \in Tasks => st'[who] = "running"
        /\ \A u \in Tasks :
             /\ Alive(u)' <=> Alive(u)
             /\ st'[u] \in {"unborn", "ready"} => st[u] \in {"unborn", "ready"}
             /\ Done(u) => Done(u)'
    BY <1>1, <1>2 DEF TypeOK, TasksSound, Alive, Done
  <1>4. barrier \in Actors /\ who \in Actors \union {Core, Crossed, Nested}
        /\ awaitOf \in [Actors -> Tasks \union {NoTask}] /\ disciplined \in BOOLEAN
    BY <1>1 DEF TypeOK
  <1> QED
    BY <1>1, <1>2, <1>3, <1>4, SwitchInv DEF FieldsOfTop

\* Await and sleep hand the C stack over to the loop.
LEMMA SuspendInv ==
  ASSUME Inv, NEW a \in Actors, who = a, awaitOf' \in [Actors -> Tasks \union {NoTask}],
         who' \in {Core, Nested}, UNCHANGED <<interpVars, taskVars, histVars>>,
         NEW s \in {"asleep", "awaiting"},
         UNCHANGED st \/ (a \in Tasks /\ st' = [st EXCEPT ![a] = s])
  PROVE  Inv'
  <1>1. TypeOK /\ TasksSound /\ (disciplined => FieldsOfTop)
    BY Facts DEF Inv, Nesting
  <1>2. /\ UNCHANGED <<currentTask, depth, cleanup, taskVars, active, jumped, lastAwait>>
        /\ UNCHANGED <<barrier, disciplined>>
    BY DEF interpVars, histVars
  <1>3. a \in Tasks => st[a] = "running"
    BY <1>1 DEF TasksSound
  <1>4. /\ st' \in [Tasks -> {"unborn", "ready", "asleep", "awaiting", "running", "done"}]
        /\ \A u \in Tasks :
             /\ Alive(u)' <=> Alive(u)
             /\ st'[u] \in {"unborn", "ready"} => st[u] \in {"unborn", "ready"}
             /\ Done(u) => Done(u)'
    <2>1. CASE UNCHANGED st
      BY <1>1, <2>1 DEF TypeOK, Alive, Done
    <2>2. CASE a \in Tasks /\ st' = [st EXCEPT ![a] = s]
      BY <1>1, <1>3, <2>2 DEF TypeOK, Alive, Done
    <2> QED
      BY <2>1, <2>2
  <1>5. who' \notin Actors /\ who' \in Actors \union {Core, Crossed, Nested} /\ who' \notin Tasks
    BY ConstantFacts
  <1>6. barrier \in Actors /\ disciplined \in BOOLEAN
    BY <1>1 DEF TypeOK
  <1> QED
    BY <1>1, <1>2, <1>4, <1>5, <1>6, SwitchInv DEF FieldsOfTop

\* The waits of an actor
LEMMA WaitInv ==
  ASSUME Inv, NEW a \in Actors, NEW u \in Tasks,
         AwaitReturns(a, u) \/ AwaitBlocks(a, u) \/ AwaitNests(a, u) \/ AwaitContinues(a)
  PROVE  Inv'
  <1>1. awaitOf \in [Actors -> Tasks \union {NoTask}]
    BY Facts DEF TypeOK
  <1>2. CASE AwaitReturns(a, u)
    BY <1>2, DeliverInv DEF AwaitReturns, Executing
  <1>3. CASE AwaitBlocks(a, u)
    <2>1. /\ who = a /\ who' = Core /\ awaitOf' = [awaitOf EXCEPT ![a] = u]
          /\ st' = IF a = Main THEN st ELSE [st EXCEPT ![a] = "awaiting"]
          /\ UNCHANGED <<interpVars, taskVars, histVars>>
      BY <1>3 DEF AwaitBlocks, Executing
    <2>2. awaitOf' \in [Actors -> Tasks \union {NoTask}]
      BY <1>1, <2>1
    <2>3. UNCHANGED st \/ (a \in Tasks /\ st' = [st EXCEPT ![a] = "awaiting"])
      BY <2>1, ConstantFacts
    <2> QED
      BY <2>1, <2>2, <2>3, SuspendInv
  <1>4. CASE AwaitNests(a, u)
    <2>1. /\ who = a /\ who' = Nested /\ UNCHANGED <<st, awaitOf>>
          /\ UNCHANGED <<interpVars, taskVars, histVars>>
      BY <1>4 DEF AwaitNests, Executing
    <2> QED
      BY <1>1, <2>1, SuspendInv
  <1>5. CASE AwaitContinues(a)
    <2>1. who = a /\ awaitOf[a] \in Tasks /\ Deliver(a, awaitOf[a])
      BY <1>1, <1>5 DEF AwaitContinues
    <2> QED
      BY <2>1, DeliverInv
  <1> QED
    BY <1>2, <1>3, <1>4, <1>5

\* The main stack is back from an await, or begins the next program.
LEMMA MainInv ==
  ASSUME Inv, EndProgram \/ MainAwaited \/ NextProgram PROVE Inv'
  <1>1. /\ TypeOK /\ TasksSound /\ Bodies(active)
        /\ disciplined \in BOOLEAN /\ barrier \in Actors
        /\ awaitOf \in [Actors -> Tasks \union {NoTask}]
        /\ st \in [Tasks -> {"unborn", "ready", "asleep", "awaiting", "running", "done"}]
    BY Facts DEF TypeOK
  <1>2. Main \in Actors /\ Main \notin Tasks /\ 0 \notin Tasks
    BY ConstantFacts
  <1>3. active = <<>> => Top(active) = Main
    BY DEF Top, Layer
  <1>4. UNCHANGED st => \A u \in Tasks :
          /\ Alive(u)' <=> Alive(u)
          /\ st'[u] \in {"unborn", "ready"} => st[u] \in {"unborn", "ready"}
          /\ Done(u) => Done(u)'
    BY DEF Alive, Done
  <1>5. CASE EndProgram
    <2>1. /\ who = Main /\ who' = Core /\ UNCHANGED <<st, awaitOf>>
          /\ UNCHANGED <<interpVars, taskVars, histVars>>
      BY <1>5 DEF EndProgram, Executing
    <2> QED
      BY <1>1, <1>2, <2>1, SuspendInv
  <1>6. CASE MainAwaited
    <2>1. /\ who' = Main /\ disciplined' = (disciplined /\ active = <<>>)
          /\ UNCHANGED <<currentTask, depth, cleanup, taskVars, active, jumped, lastAwait>>
          /\ UNCHANGED <<barrier, st, awaitOf>>
      BY <1>6 DEF MainAwaited, interpVars
    <2>2. disciplined' \in BOOLEAN /\ (disciplined' => disciplined)
      BY <1>1, <2>1
    <2>3. disciplined' => barrier = Top(active) /\ who' = Top(active)
      BY <1>3, <2>1 DEF Inv, Nesting, FieldsOfTop
    <2> QED
      BY <1>1, <1>2, <1>4, <2>1, <2>2, <2>3, SwitchInv
  <1>7. CASE NextProgram
    <2>1. /\ who' = Main /\ barrier' = Main /\ Pending = {}
          /\ UNCHANGED <<currentTask, depth, cleanup, taskVars, active, jumped, lastAwait>>
          /\ UNCHANGED <<st, awaitOf, disciplined>>
      BY <1>7 DEF NextProgram, LoopOver, histVars
    <2>2. \A u \in Tasks : ~Alive(u)
      BY <2>1 DEF Pending, Spawned, Done, Alive
    <2>3. active = <<>>
      <3>1. \A i \in DOMAIN active : active[i] \in Tasks
        BY <1>1 DEF Bodies
      <3>2. DOMAIN active = {}
        BY <1>1, <2>2, <3>1 DEF TasksSound
      <3> QED
        BY <1>1, <3>2 DEF Bodies
    <2> QED
      BY <1>1, <1>2, <1>3, <1>4, <2>1, <2>3, SwitchInv
  <1> QED
    BY <1>5, <1>6, <1>7

\* A body is back on its stack.
LEMMA ResumeInv ==
  ASSUME Inv, NEW t \in Tasks, Resume(t) PROVE Inv'
  <1>1. /\ TypeOK /\ TasksSound /\ Bodies(active)
        /\ disciplined \in BOOLEAN /\ barrier \in Actors
        /\ awaitOf \in [Actors -> Tasks \union {NoTask}]
        /\ st \in [Tasks -> {"unborn", "ready", "asleep", "awaiting", "running", "done"}]
    BY Facts DEF TypeOK
  <1>2. /\ st[t] \in {"asleep", "awaiting"} /\ st' = [st EXCEPT ![t] = "running"] /\ who' = t
        /\ UNCHANGED <<currentTask, depth, cleanup, taskVars, active, jumped, lastAwait>>
        /\ UNCHANGED <<barrier, awaitOf>> /\ disciplined' = (disciplined /\ t = Newest)
    BY DEF Resume, Resumable, interpVars
  <1>3. t \in Actors
    BY ConstantFacts
  <1>4. /\ disciplined' \in BOOLEAN /\ (disciplined' => disciplined)
        /\ (disciplined' => barrier = Top(active) /\ t = Top(active))
    BY <1>1, <1>2, NewestIsTop DEF Bodies, Inv, Nesting, FieldsOfTop
  <1>5. /\ st' \in [Tasks -> {"unborn", "ready", "asleep", "awaiting", "running", "done"}]
        /\ st'[t] = "running"
        /\ \A u \in Tasks :
             /\ Alive(u)' <=> Alive(u)
             /\ st'[u] \in {"unborn", "ready"} => st[u] \in {"unborn", "ready"}
             /\ Done(u) => Done(u)'
    BY <1>1, <1>2 DEF Alive, Done
  <1> QED
    BY <1>1, <1>2, <1>3, <1>4, <1>5, SwitchInv

\* async_task_entry up to the body
LEMMA StartInv ==
  ASSUME Inv, NEW t \in Tasks, Start(t) PROVE Inv'
  <1>1. /\ TypeOK /\ TasksSound /\ Bodies(active) /\ saved \in Saves /\ live \in Lives
        /\ cleanup \in Seq(Actors) /\ Top(active) \in Actors
    BY Facts
  <1> DEFINE s == [prev |-> currentTask, barrier |-> barrier,
                   depth |-> depth, mark |-> Len(cleanup)]
  <1>2. /\ st[t] = "ready" /\ st' = [st EXCEPT ![t] = "running"] /\ who' = t
        /\ saved' = [saved EXCEPT ![t] = s]
        /\ currentTask' = t /\ barrier' = t /\ depth' = 1
        /\ cleanup' = Append(cleanup, t) /\ live' = [live EXCEPT ![t] = 1]
        /\ active' = Append(active, t)
        /\ UNCHANGED <<awaitOf, result, hasError, disciplined, jumped, lastAwait>>
    BY DEF Start, Startable
  <1>3. /\ s.prev = currentTask /\ s.barrier = barrier /\ s.depth = depth
        /\ s.mark = Len(cleanup)
        /\ s \in [prev : Tasks \union {NoTask}, barrier : Actors, depth : Int, mark : Nat]
    BY <1>1 DEF TypeOK
  <1> HIDE DEF s
  <1>4. t \in Actors /\ 1 \in 0..MaxLive /\ live[t] = 0 /\ ~Alive(t) /\ t # Main
    BY <1>1, <1>2, ConstantFacts DEF TasksSound, Alive
  <1>5. \A i \in DOMAIN active : active[i] # t
    BY <1>1, <1>4 DEF TasksSound
  <1>6. /\ live' \in [Actors -> 0..MaxLive] /\ live'[t] = 1
        /\ \A b \in Actors : b # t => live'[b] = live[b]
    BY <1>1, <1>2, <1>4 DEF Lives
  <1>7. /\ active' \in Seq(Tasks) /\ Len(active') = Len(active) + 1 /\ Len(active) \in Nat
        /\ active'[Len(active) + 1] = t
        /\ \A i \in DOMAIN active : i \in DOMAIN active' /\ active'[i] = active[i]
        /\ \A i \in DOMAIN active' : i \in DOMAIN active \/ i = Len(active) + 1
        /\ Len(active) + 1 \in DOMAIN active' /\ Len(active) + 1 \notin DOMAIN active
    BY <1>1, <1>2 DEF Bodies
  <1>8. TypeOK'
    <2>1. cleanup' \in Seq(Actors) /\ depth' \in Int
      BY <1>1, <1>2, <1>4
    <2>2. saved' \in [Tasks -> [prev : Tasks \union {NoTask}, barrier : Actors,
                                depth : Int, mark : Nat]]
      BY <1>1, <1>2, <1>3 DEF Saves
    <2>3. st' \in [Tasks -> {"unborn", "ready", "asleep", "awaiting", "running", "done"}]
      BY <1>1, <1>2 DEF TypeOK
    <2> QED
      BY <1>1, <1>2, <1>4, <1>6, <1>7, <2>1, <2>2, <2>3 DEF TypeOK
  <1>9. TasksSound'
    <2>1. \A u \in Tasks : Alive(u)' <=> Alive(u) \/ u = t
      BY <1>1, <1>2 DEF Alive, TypeOK
    <2>2. \A u \in Tasks : Alive(u)' <=> \E i \in DOMAIN active' : active'[i] = u
      BY <1>1, <1>7, <2>1 DEF TasksSound
    <2>3. \A i, j \in DOMAIN active' : active'[i] = active'[j] => i = j
      BY <1>1, <1>5, <1>7 DEF Bodies
    <2>4. st'[t] = "running" /\ \A u \in Tasks : u # t => st'[u] = st[u]
      BY <1>1, <1>2 DEF TypeOK
    <2>5. \A u \in Tasks : st'[u] \in {"unborn", "ready"} => live'[u] = 0
      BY <1>1, <1>6, <2>4, ConstantFacts DEF TasksSound
    <2> QED
      BY <1>2, <2>2, <2>3, <2>4, <2>5 DEF TasksSound
  <1>10. Nesting'
    <2> SUFFICES ASSUME disciplined PROVE (FieldsOfTop /\ Layered(active, saved, live, cleanup))'
      BY <1>2 DEF Nesting
    <2>1. FieldsOfTop /\ Layered(active, saved, live, cleanup)
      BY DEF Inv, Nesting
    <2>2. /\ s.prev = Top(active) /\ s.barrier = Top(active)
          /\ s.depth = live[Top(active)] /\ s.mark = Len(cleanup)
      BY <1>3, <2>1 DEF FieldsOfTop
    <2>3. Layered(Append(active, t), [saved EXCEPT ![t] = s], [live EXCEPT ![t] = 1], Append(cleanup, t))
      BY <1>1, <1>5, <2>1, <2>2, EnterLayer
    <2>4. Layered(active', saved', live', cleanup')
      BY <1>2, <2>3
    <2>5. Top(active') = t
      BY <1>7 DEF Top, Layer
    <2> QED
      BY <1>2, <1>6, <2>4, <2>5 DEF FieldsOfTop
  <1>11. Accounted'
    <2>1. \A b \in Actors : Cardinality(FramesOf(b)') =
            IF b = t THEN Cardinality(FramesOf(b)) + 1 ELSE Cardinality(FramesOf(b))
      BY <1>1, <1>2, <1>4, FramesPushed
    <2> QED
      BY <1>2, <1>4, <1>6, <2>1 DEF Inv, Accounted
  <1>12. AwaitSound'
    <2>1. AwaitNew
      BY <1>2, Facts
    <2>2. \A u \in Tasks : Done(u) => Done(u)' /\ hasError'[u] = hasError[u]
      BY <1>1, <1>2 DEF Done, TypeOK
    <2> QED
      BY <1>8, <2>1, <2>2, AwaitKept
  <1> QED
    BY <1>8, <1>9, <1>10, <1>11, <1>12 DEF Inv

\* The loop gives up what could never wake: no body is left.
LEMMA GiveUpInv ==
  ASSUME Inv, GiveUp PROVE Inv'
  <1>1. TypeOK /\ TasksSound
    BY Facts
  <1>2. /\ st' = [t \in Tasks |-> IF t \in Pending THEN "done" ELSE st[t]]
        /\ hasError' = [t \in Tasks |-> t \in Pending \/ hasError[t]]
        /\ disciplined' = FALSE /\ active' = <<>> /\ who = Core
        /\ UNCHANGED <<who, awaitOf, live, saved, result, jumped, lastAwait>>
        /\ UNCHANGED <<currentTask, barrier, depth, cleanup>>
    BY DEF GiveUp, Turning, interpVars
  <1>3. \A t \in Tasks : t \in Pending <=> st[t] \notin {"unborn", "done"}
    BY DEF Pending, Spawned, Done
  <1>4. \A t \in Tasks : st'[t] = IF st[t] = "unborn" THEN "unborn" ELSE "done"
    BY <1>2, <1>3
  <1>5. TypeOK'
    <2>1. /\ st' \in [Tasks -> {"unborn", "ready", "asleep", "awaiting", "running", "done"}]
          /\ active' \in Seq(Tasks)
      BY <1>1, <1>2 DEF TypeOK
    <2>2. hasError' \in [Tasks -> BOOLEAN]
      BY <1>2
    <2>3. disciplined' \in BOOLEAN
      BY <1>2
    <2> QED
      BY <1>1, <1>2, <2>1, <2>2, <2>3 DEF TypeOK
  <1>6. TasksSound'
    <2>1. \A t \in Tasks : ~Alive(t)'
      BY <1>4 DEF Alive
    <2>2. DOMAIN active' = {} /\ who' \notin Tasks
      BY <1>2, ConstantFacts
    <2>3. \A t \in Tasks : st'[t] \in {"unborn", "ready"} => live'[t] = 0
      BY <1>1, <1>2, <1>4 DEF TasksSound
    <2> QED
      BY <2>1, <2>2, <2>3 DEF TasksSound
  <1>7. Nesting'
    BY <1>2 DEF Nesting
  <1>8. Accounted'
    BY <1>2 DEF Inv, Accounted, FramesOf
  <1>9. AwaitSound'
    <2>1. AwaitNew
      BY <1>2, Facts
    <2>2. \A t \in Tasks : Done(t) => Done(t)' /\ hasError'[t] = hasError[t]
      <3>1. \A t \in Tasks : Done(t) => Done(t)' /\ t \notin Pending
        BY <1>4 DEF Done, Pending
      <3>2. \A t \in Tasks : hasError[t] \in BOOLEAN
        BY <1>1 DEF TypeOK
      <3>3. \A t \in Tasks : hasError'[t] = (t \in Pending \/ hasError[t])
        BY <1>2
      <3> QED
        BY <3>1, <3>2, <3>3
    <2> QED
      BY <1>5, <2>1, <2>2, AwaitKept
  <1> QED
    BY <1>5, <1>6, <1>7, <1>8, <1>9 DEF Inv

LEMMA NextInv ==
  ASSUME Inv, [Next]_vars PROVE Inv'
  <1>1. CASE UNCHANGED vars
    <2>1. /\ UNCHANGED <<who, st, awaitOf, currentTask, barrier, depth, cleanup>>
          /\ UNCHANGED <<live, saved, result, hasError>>
          /\ UNCHANGED <<active, disciplined, jumped, lastAwait>>
      BY <1>1 DEF vars, loopVars, interpVars, taskVars, histVars
    <2>2. TypeOK' /\ TasksSound'
      BY <2>1 DEF Inv, TypeOK, TasksSound, Alive
    <2>3. Nesting' /\ Accounted'
      BY <2>1 DEF Inv, Nesting, FieldsOfTop, Accounted, FramesOf
    <2>4. AwaitSound'
      BY <2>1 DEF Inv, AwaitSound, FailureReraised, Done
    <2> QED
      BY <2>2, <2>3, <2>4 DEF Inv
  <1>2. ASSUME NEW a \in Actors, Act(a) PROVE Inv'
    <2>1. ASSUME NEW t \in Tasks,
                 Spawn(a, t) \/ AwaitReturns(a, t) \/ AwaitBlocks(a, t) \/ AwaitNests(a, t)
          PROVE  Inv'
      BY <2>1, SpawnInv, WaitInv
    <2>2. CASE AwaitContinues(a)
      <3>1. 1 \in Tasks
        BY InterpAssumption DEF Tasks
      <3> QED
        BY <2>2, <3>1, WaitInv
    <2>3. CASE Raise(a)
      <3>1. /\ who = a /\ RaiseFrom(a, result) /\ UNCHANGED <<awaitOf, disciplined, lastAwait>>
        BY <2>3 DEF Raise, Executing
      <3>2. /\ TypeOK /\ AwaitNew
        BY <3>1, Facts
      <3>3. /\ result \in [Tasks -> {"none", "value", "error"}]
            /\ awaitOf' \in [Actors -> Tasks \union {NoTask}]
            /\ lastAwait' \in [of : Tasks \union {NoTask}, early : BOOLEAN,
                               out : {"none", "value", "void", "raised"}]
        BY <3>1, <3>2 DEF TypeOK
      <3> QED
        BY <3>1, <3>2, <3>3, RaiseInv
    <2> QED
      BY <1>2, <2>1, <2>2, <2>3, CallInv, ReturnInv DEF Act
  <1>3. ASSUME NEW t \in Tasks, Finish(t) \/ Sleep(t) \/ Start(t) \/ Resume(t) PROVE Inv'
    <2>1. CASE Sleep(t)
      <3>1. /\ who = t /\ st' = [st EXCEPT ![t] = "asleep"] /\ who' = Core
            /\ UNCHANGED <<interpVars, taskVars, histVars>> /\ UNCHANGED awaitOf
        BY <2>1 DEF Sleep, Executing
      <3>2. t \in Actors /\ awaitOf \in [Actors -> Tasks \union {NoTask}]
        BY Facts, ConstantFacts DEF TypeOK
      <3> QED
        BY <3>1, <3>2, SuspendInv
    <2> QED
      BY <1>3, <2>1, FinishInv, StartInv, ResumeInv
  <1>4. CASE EndProgram \/ MainAwaited \/ NextProgram \/ GiveUp
    BY <1>4, MainInv, GiveUpInv
  <1> QED
    BY <1>1, <1>2, <1>3, <1>4 DEF Next

-----------------------------------------------------------------------------
\* The theorems

\* The layers of the nested coroutines, the accounting of their call frames
\* and the outcome of the last await are invariants of the coroutines of
\* async_task_entry, call_function, runtime_error and await_task.
THEOREM Invariance == Spec => []Inv
  <1>1. Init => Inv
    BY InitInv
  <1>2. Inv /\ [Next]_vars => Inv'
    BY NextInv
  <1> QED
    BY <1>1, <1>2, PTL DEF Spec

\* While coroutines nest, the runtime_error barrier, the current task, the
\* call depth and the cleanup frames on top are those of the running actor:
\* async_task_entry need only save and restore at the ends of a body.
THEOREM Nested_Use_Is_Safe == Spec => []NestedUseIsSafe
  <1>1. ASSUME Inv PROVE NestedUseIsSafe
    <2> SUFFICES ASSUME disciplined, who \in Actors
                 PROVE  /\ who = Newest /\ barrier = who /\ currentTask = who
                        /\ depth = live[who]
                        /\ \A i \in 1..live[who] : cleanup[Len(cleanup) + 1 - i] = who
      BY DEF NestedUseIsSafe
    <2>1. /\ Bodies(active) /\ saved \in Saves /\ live \in Lives /\ cleanup \in Seq(Actors)
      BY <1>1, Facts
    <2>2. FieldsOfTop /\ Layered(active, saved, live, cleanup) /\ who = Top(active)
      BY <1>1 DEF Inv, Nesting, FieldsOfTop
    <2>3. Newest = Top(active)
      BY <2>1, NewestIsTop DEF Bodies
    <2> DEFINE n == Len(active)
               b == Base(active, saved, n)
    <2>4. n \in 0..n /\ who = Layer(active, n)
      BY <2>1, <2>2 DEF Bodies, Top
    <2>5. b \in Nat /\ live[who] \in Nat
      BY <2>1, <2>2, <2>4, StretchFacts
    <2>6. /\ Len(cleanup) = b + live[who]
          /\ \A k \in 1..live[who] : cleanup[b + k] = who
      BY <2>2, <2>4 DEF Layered
    <2> HIDE DEF b, n
    <2>7. ASSUME NEW i \in 1..live[who] PROVE cleanup[Len(cleanup) + 1 - i] = who
      <3> DEFINE l == live[who]
      <3>1. l \in Nat /\ i \in 1..l
        BY <2>5
      <3> HIDE DEF l
      <3>2. l + 1 - i \in 1..l
        BY <3>1
      <3>3. Len(cleanup) + 1 - i = b + (l + 1 - i)
        BY <2>5, <2>6, <3>1 DEF l
      <3> QED
        BY <2>6, <3>2, <3>3 DEF l
    <2> QED
      BY <2>2, <2>3, <2>7 DEF FieldsOfTop
  <1> QED
    BY <1>1, Invariance, PTL

\* As long as nothing raises, each live call_function frame is on
\* cleanup_stack exactly once, in whatever order bodies suspend and end.
THEOREM Frames_Accounted == Spec => []FramesAccounted
  <1>1. Inv => FramesAccounted
    BY DEF Inv, Accounted, FramesAccounted
  <1> QED
    BY <1>1, Invariance, PTL

\* await_task of a failed task raises, however often it is awaited.
THEOREM Failure_Reraised == Spec => []FailureReraised
  <1>1. Inv => FailureReraised
    BY DEF Inv, AwaitSound
  <1> QED
    BY <1>1, Invariance, PTL

-----------------------------------------------------------------------------
(***************************************************************************)
(* The coroutines of the interpreter keep to module Coroutines.            *)
(***************************************************************************)

States == {"unborn", "ready", "asleep", "awaiting", "running", "done"}

\* A task that is marked as running is the one on the processor, unless control
\* has been lost on the wrong stack; only who waits or is back from a wait has
\* a target, and that has been spawned.
Scheduled ==
    /\ \A t \in Tasks : st[t] = "running" => who \in {t, Crossed, Nested}
    /\ \A t \in Tasks :
        /\ st[t] \in {"unborn", "ready", "asleep"} => awaitOf[t] = NoTask
        /\ st[t] = "awaiting" => awaitOf[t] # NoTask
    /\ \A a \in Actors : awaitOf[a] # NoTask => st[awaitOf[a]] # "unborn"

\* What the refinement relies on
Sound == Inv /\ Scheduled

LEMMA SoundFacts ==
  ASSUME Sound
  PROVE  /\ st \in [Tasks -> States] /\ hasError \in [Tasks -> BOOLEAN]
         /\ awaitOf \in [Actors -> Tasks \union {NoTask}]
         /\ Tasks \subseteq Actors /\ NoTask \notin Tasks
         /\ Core \notin Tasks /\ Core # Crossed /\ Core # Nested
         /\ Main \in Actors /\ Main \notin Tasks
         /\ who \in Tasks => st[who] = "running"
  BY ConstantFacts DEF Sound, Inv, TypeOK, TasksSound, States, Core, Crossed, Nested

\* The phase of a task, and the target it waits for
LEMMA PhaseFacts ==
  ASSUME Sound, NEW t \in Tasks
  PROVE  /\ phase[t] = "unborn" <=> st[t] = "unborn"
         /\ phase[t] = "suspended" <=> st[t] \in {"ready", "asleep", "awaiting"}
         /\ phase[t] = "running" <=> st[t] = "running"
         /\ phase[t] = "done" <=> st[t] = "done"
         /\ awaits[t] = IF st[t] = "running" THEN NoTask ELSE awaitOf[t]
  <1>1. st[t] \in States
    BY SoundFacts
  <1> QED
    BY <1>1 DEF phase, awaits, States

\* When the main stack runs or the scheduler chooses, no task is running.
LEMMA NoneRuns ==
  ASSUME Sound, who \in {Main, Core}
  PROVE  \A t \in Tasks : st[t] # "running"
  BY SoundFacts, ConstantFacts DEF Sound, Scheduled, Main, Core, Crossed, Nested

\* Steps of the running actor that the contract does not see: what it awaits
\* is its own affair while it runs.
LEMMA StaysUnseen ==
  ASSUME Sound, UNCHANGED <<st, hasError>>,
         \A t \in Tasks : awaitOf'[t] = awaitOf[t]
                          \/ (st[t] = "running" /\ awaitOf'[t] = NoTask),
         awaitOf'[Main] # NoTask => st[awaitOf'[Main]] # "unborn",
         \A t \in Tasks : st[t] = "running" => who' \in {t, Crossed, Nested}
  PROVE  Scheduled' /\ UNCHANGED Contract!vars
  <1>1. phase' = phase
    BY DEF phase
  <1>2. awaits' = awaits
    BY DEF awaits
  <1>3. \A a \in Actors : a = Main \/ a \in Tasks
    BY ConstantFacts
  <1>4. Scheduled'
    BY <1>3, SoundFacts DEF Sound, Scheduled
  <1> QED
    BY <1>1, <1>2, <1>4 DEF Contract!vars

\* The running task ends, as a value or as an error, and awaits nobody.
LEMMA EndIsFinish ==
  ASSUME Sound, NEW t \in Tasks, who = t, NEW err \in BOOLEAN,
         st' = [st EXCEPT ![t] = "done"], who' = Core,
         hasError' = [hasError EXCEPT ![t] = err],
         awaitOf'[t] = NoTask,
         \A a \in Actors : a # t => awaitOf'[a] = awaitOf[a]
  PROVE  Scheduled' /\ Contract!Finish(t, err)
  <1>1. st \in [Tasks -> States] /\ Tasks \subseteq Actors
    BY SoundFacts
  <1>2. st'[t] = "done" /\ \A u \in Tasks : u # t => st'[u] = st[u]
    BY <1>1
  <1>3. Scheduled'
    <2>1. \A u \in Tasks : u # t => st[u] # "running"
      BY ConstantFacts DEF Sound, Scheduled
    <2>2. \A u \in Tasks : st'[u] = "running" => who' \in {u, Crossed, Nested}
      BY <1>2, <2>1
    <2>3. ASSUME NEW u \in Tasks
          PROVE  /\ st'[u] \in {"unborn", "ready", "asleep"} => awaitOf'[u] = NoTask
                 /\ st'[u] = "awaiting" => awaitOf'[u] # NoTask
      BY <1>1, <1>2 DEF Sound, Scheduled
    <2>4. ASSUME NEW a \in Actors, awaitOf'[a] # NoTask
          PROVE  st'[awaitOf'[a]] # "unborn"
      <3>1. a # t /\ awaitOf'[a] = awaitOf[a] /\ awaitOf[a] \in Tasks
        BY <2>4, SoundFacts
      <3>2. st[awaitOf[a]] # "unborn"
        BY <2>4, <3>1 DEF Sound, Scheduled
      <3> QED
        BY <1>2, <3>1, <3>2
    <2> QED
      BY <2>2, <2>3, <2>4 DEF Scheduled
  <1>4. phase' = [phase EXCEPT ![t] = "done"]
    BY <1>2 DEF phase
  <1>5. awaits' = awaits
    <2>1. st[t] = "running"
      BY SoundFacts
    <2>2. ASSUME NEW u \in Tasks
          PROVE  (IF st'[u] = "running" THEN NoTask ELSE awaitOf'[u])
                   = (IF st[u] = "running" THEN NoTask ELSE awaitOf[u])
      <3>1. CASE u = t
        BY <1>2, <2>1, <3>1
      <3>2. CASE u # t
        <4>1. awaitOf'[u] = awaitOf[u]
          BY <1>1, <3>2
        <4> QED
          BY <1>2, <3>2, <4>1
      <3> QED
        BY <3>1, <3>2
    <2> QED
      BY <2>2 DEF awaits
  <1>6. phase[t] = "running"
    BY SoundFacts, PhaseFacts
  <1> QED
    BY <1>3, <1>4, <1>5, <1>6 DEF Contract!Finish

\* A failure ends the task that raised it, or returns to the program, or loses
\* control; what a task has got from its target goes to waste with it.
LEMMA RaiseRefines ==
  ASSUME Sound, NEW a \in Actors, who = a, NEW rs, RaiseFrom(a, rs),
         awaitOf'[a] = NoTask,
         \A b \in Actors : b # a => awaitOf'[b] = awaitOf[b]
  PROVE  Scheduled' /\ [Contract!Next]_(Contract!vars)
  <1> USE SoundFacts
  <1>1. CASE CaughtByTask(a, rs)
    <2>1. /\ a \in Tasks /\ st' = [st EXCEPT ![a] = "done"] /\ who' = Core
          /\ hasError' = [hasError EXCEPT ![a] = TRUE]
      BY <1>1, ConstantFacts DEF CaughtByTask, EndBody
    <2>2. Scheduled' /\ Contract!Finish(a, TRUE)
      BY <2>1, EndIsFinish
    <2> QED
      BY <2>1, <2>2 DEF Contract!Next
  <1>2. CASE CaughtByMain(a, rs)
    <2>1. a = Main /\ UNCHANGED <<st, hasError, who>>
      BY <1>2 DEF CaughtByMain
    <2>2. \A t \in Tasks : st[t] # "running"
      BY <2>1, NoneRuns
    <2> QED
      BY <2>1, <2>2, StaysUnseen
  <1>3. CASE CaughtElsewhere(a, rs)
    <2>1. UNCHANGED <<st, hasError>> /\ who' = Crossed
      BY <1>3 DEF CaughtElsewhere
    <2>2. a \in Tasks => st[a] = "running"
      OBVIOUS
    <2>3. awaitOf'[Main] # NoTask => st[awaitOf'[Main]] # "unborn"
      BY DEF Sound, Scheduled
    <2> QED
      BY <2>1, <2>2, <2>3, StaysUnseen
  <1> QED
    BY <1>1, <1>2, <1>3 DEF RaiseFrom

\* An await that returns: the contract sees its failure only.
LEMMA DeliverRefines ==
  ASSUME Sound, NEW a \in Actors, NEW u, who = a, Deliver(a, u)
  PROVE  Scheduled' /\ [Contract!Next]_(Contract!vars)
  <1>1. /\ awaitOf'[a] = NoTask
        /\ \A b \in Actors : b # a => awaitOf'[b] = awaitOf[b]
    BY SoundFacts DEF Deliver
  <1>2. CASE hasError[u] /\ RaiseFrom(a, [result EXCEPT ![u] = "none"])
    BY <1>1, <1>2, RaiseRefines
  <1>3. CASE UNCHANGED <<who, st, hasError>>
    <2>1. a \in Tasks => st[a] = "running"
      BY SoundFacts
    <2>2. \A t \in Tasks : st[t] = "running" => who' \in {t, Crossed, Nested}
      BY <1>3 DEF Sound, Scheduled
    <2>3. awaitOf'[Main] # NoTask => st[awaitOf'[Main]] # "unborn"
      BY <1>1, SoundFacts DEF Sound, Scheduled
    <2> QED
      BY <1>1, <1>3, <2>1, <2>2, <2>3, SoundFacts, StaysUnseen
  <1> QED
    BY <1>2, <1>3 DEF Deliver

\* Spawning
LEMMA SpawnRefines ==
  ASSUME Sound, NEW a \in Actors, NEW t \in Tasks, Spawn(a, t)
  PROVE  Scheduled' /\ Contract!Spawn(t)
  <1>1. /\ st[t] = "unborn" /\ st' = [st EXCEPT ![t] = "ready"]
        /\ UNCHANGED <<who, awaitOf, hasError>>
    BY DEF Spawn, taskVars
  <1>2. st'[t] = "ready" /\ \A u \in Tasks : u # t => st'[u] = st[u]
    BY <1>1, SoundFacts
  <1>3. Scheduled'
    BY <1>1, <1>2, SoundFacts DEF Sound, Scheduled
  <1>4. phase' = [phase EXCEPT ![t] = "suspended"] /\ awaits' = awaits
    BY <1>1, <1>2 DEF phase, awaits
  <1>5. phase[t] = "unborn"
    BY <1>1, PhaseFacts
  <1> QED
    BY <1>1, <1>3, <1>4, <1>5 DEF Contract!Spawn

\* A task gives up control by sleeping, or by waiting for another one.
LEMMA YieldRefines ==
  ASSUME Sound, NEW t \in Tasks, who = t, awaitOf[t] = NoTask, who' = Core,
         hasError' = hasError,
         \/ st' = [st EXCEPT ![t] = "asleep"] /\ UNCHANGED awaitOf
         \/ /\ st' = [st EXCEPT ![t] = "awaiting"]
            /\ \E u \in Pending : awaitOf' = [awaitOf EXCEPT ![t] = u]
  PROVE  Scheduled' /\ Contract!Next
  <1> USE SoundFacts
  <1>1. st[t] = "running" /\ \A u \in Tasks : u # t => st[u] # "running"
    BY ConstantFacts DEF Sound, Scheduled
  <1>2. phase[t] = "running"
    BY <1>1, PhaseFacts
  <1>3. CASE st' = [st EXCEPT ![t] = "asleep"] /\ UNCHANGED awaitOf
    <2>1. st'[t] = "asleep" /\ \A u \in Tasks : u # t => st'[u] = st[u]
      BY <1>3
    <2>2. Scheduled'
      BY <1>1, <1>3, <2>1 DEF Sound, Scheduled
    <2>3. phase' = [phase EXCEPT ![t] = "suspended"]
      BY <2>1 DEF phase
    <2>4. awaits' = awaits
      BY <1>3, <2>1 DEF awaits
    <2>5. Contract!Suspend(t)
      BY <1>2, <2>3, <2>4 DEF Contract!Suspend
    <2> QED
      BY <2>2, <2>5 DEF Contract!Next
  <1>4. ASSUME NEW u \in Pending, st' = [st EXCEPT ![t] = "awaiting"],
               awaitOf' = [awaitOf EXCEPT ![t] = u]
        PROVE  Scheduled' /\ Contract!Next
    <2>1. st'[t] = "awaiting" /\ \A v \in Tasks : v # t => st'[v] = st[v]
      BY <1>4
    <2>2. u \in Tasks /\ st[u] \notin {"unborn", "done"} /\ t \in Actors
      BY DEF Pending, Spawned, Done
    <2>3. awaitOf'[t] = u /\ \A a \in Actors : a # t => awaitOf'[a] = awaitOf[a]
      BY <1>4, <2>2
    <2>4. Scheduled'
      BY <1>1, <1>4, <2>1, <2>2, <2>3 DEF Sound, Scheduled
    <2>5. phase' = [phase EXCEPT ![t] = "suspended"]
      BY <2>1 DEF phase
    <2>6. awaits' = [awaits EXCEPT ![t] = u]
      BY <2>1, <2>3 DEF awaits
    <2>7. phase[u] \notin {"unborn", "done"}
      BY <2>2, PhaseFacts
    <2>8. Contract!Await(t, u)
      BY <1>2, <2>5, <2>6, <2>7 DEF Contract!Await
    <2> QED
      BY <2>2, <2>4, <2>8 DEF Contract!Next
  <1> QED
    BY <1>3, <1>4

\* The ways in which await_task begins
LEMMA AwaitRefines ==
  ASSUME Sound, NEW a \in Actors, NEW u \in Tasks,
         AwaitReturns(a, u) \/ AwaitBlocks(a, u) \/ AwaitNests(a, u)
  PROVE  Scheduled' /\ [Contract!Next]_(Contract!vars)
  <1>1. who = a /\ awaitOf[a] = NoTask
    BY DEF AwaitReturns, AwaitBlocks, AwaitNests, Executing
  <1>2. CASE AwaitReturns(a, u)
    BY <1>1, <1>2, DeliverRefines DEF AwaitReturns
  <1>3. CASE AwaitBlocks(a, u) /\ a # Main
    <2>1. /\ a \in Tasks /\ u \in Pending /\ who' = Core
          /\ st' = [st EXCEPT ![a] = "awaiting"] /\ hasError' = hasError
          /\ awaitOf' = [awaitOf EXCEPT ![a] = u]
      BY <1>3, ConstantFacts DEF AwaitBlocks, taskVars
    <2> QED
      BY <1>1, <2>1, YieldRefines
  <1>4. CASE AwaitBlocks(a, u) /\ a = Main
    <2>1. /\ u \in Pending /\ UNCHANGED <<st, hasError>>
          /\ awaitOf' = [awaitOf EXCEPT ![Main] = u]
      BY <1>4 DEF AwaitBlocks, taskVars
    <2>2. \A t \in Tasks : st[t] # "running"
      BY <1>1, <1>4, NoneRuns
    <2>3. awaitOf'[Main] = u /\ \A t \in Tasks : awaitOf'[t] = awaitOf[t]
      BY <2>1, SoundFacts
    <2>4. st[u] # "unborn"
      BY <2>1 DEF Pending, Spawned
    <2> QED
      BY <2>1, <2>2, <2>3, <2>4, StaysUnseen
  <1>5. CASE AwaitNests(a, u)
    <2>1. UNCHANGED <<st, awaitOf, hasError>> /\ who' = Nested
      BY <1>5 DEF AwaitNests, taskVars
    <2>2. awaitOf'[Main] # NoTask => st[awaitOf'[Main]] # "unborn"
      BY <2>1, SoundFacts DEF Sound, Scheduled
    <2> QED
      BY <2>1, <2>2, StaysUnseen
  <1> QED
    BY <1>2, <1>3, <1>4, <1>5

\* Starting a body and resuming one are the same to the contract.
LEMMA RunRefines ==
  ASSUME Sound, NEW t \in Tasks, Start(t) \/ Resume(t)
  PROVE  Scheduled' /\ Contract!Run(t)
  <1> USE SoundFacts
  <1>1. /\ who = Core /\ who' = t /\ st' = [st EXCEPT ![t] = "running"]
        /\ UNCHANGED <<awaitOf, hasError>>
        /\ st[t] \in {"ready", "asleep"}
             \/ (st[t] = "awaiting" /\ Done(awaitOf[t]))
    BY DEF Start, Resume, Startable, Resumable, Turning, taskVars
  <1>2. \A u \in Tasks : st[u] # "running"
    BY <1>1, NoneRuns
  <1>3. st'[t] = "running" /\ \A u \in Tasks : u # t => st'[u] = st[u]
    BY <1>1
  <1>4. Scheduled'
    BY <1>1, <1>2, <1>3 DEF Sound, Scheduled
  <1>5. phase' = [phase EXCEPT ![t] = "running"]
    BY <1>3 DEF phase
  <1>6. awaits' = [awaits EXCEPT ![t] = NoTask]
    BY <1>1, <1>2, <1>3 DEF awaits
  <1>7. phase[t] = "suspended" /\ \A u \in Tasks : phase[u] # "running"
    BY <1>1, <1>2, PhaseFacts
  <1>8. awaits[t] # NoTask => phase[awaits[t]] = "done"
    <2> SUFFICES ASSUME awaits[t] # NoTask PROVE phase[awaits[t]] = "done"
      OBVIOUS
    <2>1. awaits[t] = awaitOf[t]
      BY PhaseFacts
    <2>2. awaitOf[t] \in Tasks /\ st[t] = "awaiting"
      BY <1>1, <2>1 DEF Sound, Scheduled
    <2>3. st[awaitOf[t]] = "done"
      BY <1>1, <2>2 DEF Done
    <2> QED
      BY <2>1, <2>2, <2>3, PhaseFacts
  <1> QED
    BY <1>1, <1>4, <1>5, <1>6, <1>7, <1>8 DEF Contract!Run

\* The deadlock exit is the contract's.
LEMMA GiveUpRefines ==
  ASSUME Sound, GiveUp
  PROVE  Scheduled' /\ Contract!Abandon
  <1> USE SoundFacts
  <1>1. /\ who = Core /\ who' = Core /\ ~LoopOver
        /\ \A t \in Tasks : st[t] # "ready" /\ ~Resumable(t)
        /\ st' = [t \in Tasks |-> IF t \in Pending THEN "done" ELSE st[t]]
        /\ hasError' = [t \in Tasks |-> t \in Pending \/ hasError[t]]
        /\ awaitOf' = awaitOf
    BY DEF GiveUp, Turning
  <1>2. \A u \in Tasks : st[u] # "running"
    BY <1>1, NoneRuns
  <1>3. \A u \in Tasks : u \in Pending <=> phase[u] = "suspended"
    BY <1>2, PhaseFacts DEF Pending, Spawned, Done, States
  <1>4. ASSUME NEW u \in Pending
        PROVE  u \in Tasks /\ Contract!Stuck(u)
    <2>1. u \in Tasks /\ st[u] = "awaiting"
      <3>1. u \in Tasks /\ st[u] \notin {"unborn", "done"}
        BY DEF Pending, Spawned, Done
      <3> QED
        BY <1>1, <1>2, <3>1 DEF States, Resumable
    <2>2. awaitOf[u] \in Tasks /\ st[awaitOf[u]] \notin {"unborn", "done"}
      BY <1>1, <2>1 DEF Sound, Scheduled, Resumable, Done
    <2>3. awaitOf[u] \in Pending
      BY <2>2 DEF Pending, Spawned, Done
    <2>4. awaits[u] = awaitOf[u]
      BY <2>1, PhaseFacts
    <2> QED
      BY <1>3, <2>1, <2>2, <2>3, <2>4 DEF Contract!Stuck
  <1>5. Pending # {}
    <2>1. CASE awaitOf[Main] = NoTask
      BY <1>1, <2>1 DEF LoopOver
    <2>2. CASE awaitOf[Main] # NoTask
      <3>1. awaitOf[Main] \in Tasks /\ st[awaitOf[Main]] \notin {"unborn", "done"}
        BY <1>1, <2>2 DEF LoopOver, Done, Sound, Scheduled
      <3> QED
        BY <3>1 DEF Pending, Spawned, Done
    <2> QED
      BY <2>1, <2>2
  <1>6. phase' = [u \in Tasks |->
                     IF phase[u] = "suspended" THEN "done" ELSE phase[u]]
    <2>1. \A u \in Tasks : st'[u] = IF u \in Pending THEN "done" ELSE st[u]
      BY <1>1
    <2>2. \A u \in Tasks :
             phase'[u] = IF phase[u] = "suspended" THEN "done" ELSE phase[u]
      BY <1>3, <2>1, PhaseFacts DEF phase
    <2> QED
      BY <2>2 DEF phase
  <1>7. hasError' = [u \in Tasks |-> phase[u] = "suspended" \/ hasError[u]]
    BY <1>1, <1>3
  <1>8. awaits' = awaits
    BY <1>1, <1>2 DEF awaits
  <1>9. Scheduled'
    BY <1>1, <1>2 DEF Sound, Scheduled
  <1>10. \A u \in Tasks : phase[u] \in {"unborn", "done"} \/ Contract!Stuck(u)
    BY <1>2, <1>3, <1>4, PhaseFacts DEF States
  <1>11. \E u \in Tasks : Contract!Stuck(u)
    BY <1>4, <1>5
  <1> QED
    BY <1>6, <1>7, <1>8, <1>9, <1>10, <1>11 DEF Contract!Abandon

\* Every step keeps to the contract, or changes nothing it sees.
LEMMA NextRefines ==
  Sound /\ [Next]_vars => Scheduled' /\ [Contract!Next]_(Contract!vars)
  <1> SUFFICES ASSUME Sound, [Next]_vars
               PROVE  Scheduled' /\ [Contract!Next]_(Contract!vars)
    OBVIOUS
  <1>1. ASSUME UNCHANGED <<st, awaitOf, hasError>>, who' = who
        PROVE  Scheduled' /\ UNCHANGED Contract!vars
    BY <1>1, SoundFacts, StaysUnseen DEF Sound, Scheduled
  <1>2. ASSUME NEW a \in Actors, Act(a)
        PROVE  Scheduled' /\ [Contract!Next]_(Contract!vars)
    <2>1. ASSUME NEW t \in Tasks, Spawn(a, t)
          PROVE  Scheduled' /\ [Contract!Next]_(Contract!vars)
      BY <2>1, SpawnRefines DEF Contract!Next
    <2>2. ASSUME NEW t \in Tasks,
                 AwaitReturns(a, t) \/ AwaitBlocks(a, t) \/ AwaitNests(a, t)
          PROVE  Scheduled' /\ [Contract!Next]_(Contract!vars)
      BY <2>2, AwaitRefines
    <2>3. CASE AwaitContinues(a)
      BY <2>3, DeliverRefines DEF AwaitContinues
    <2>4. CASE Call(a) \/ Return(a)
      BY <1>1, <2>4 DEF Call, Return, loopVars
    <2>5. CASE Raise(a)
      BY <2>5, RaiseRefines DEF Raise, Executing
    <2> QED
      BY <1>2, <2>1, <2>2, <2>3, <2>4, <2>5 DEF Act
  <1>3. ASSUME NEW t \in Tasks, Finish(t)
        PROVE  Scheduled' /\ [Contract!Next]_(Contract!vars)
    <2>1. /\ who = t /\ awaitOf[t] = NoTask /\ awaitOf' = awaitOf
          /\ st' = [st EXCEPT ![t] = "done"] /\ who' = Core
          /\ hasError' = [hasError EXCEPT ![t] = FALSE]
      BY <1>3 DEF Finish, Executing, EndBody
    <2>2. Scheduled' /\ Contract!Finish(t, FALSE)
      BY <2>1, EndIsFinish
    <2> QED
      BY <2>2 DEF Contract!Next
  <1>4. ASSUME NEW t \in Tasks, Sleep(t)
        PROVE  Scheduled' /\ [Contract!Next]_(Contract!vars)
    BY <1>4, YieldRefines DEF Sleep, Executing, taskVars
  <1>5. ASSUME NEW t \in Tasks, Start(t) \/ Resume(t)
        PROVE  Scheduled' /\ [Contract!Next]_(Contract!vars)
    BY <1>5, RunRefines DEF Contract!Next
  <1>6. CASE EndProgram \/ MainAwaited \/ NextProgram
    <2>1. who \in {Main, Core} /\ UNCHANGED <<st, awaitOf, hasError>>
      BY <1>6 DEF EndProgram, MainAwaited, NextProgram, Executing, taskVars
    <2>2. \A t \in Tasks : st[t] # "running"
      BY <2>1, NoneRuns
    <2>3. awaitOf'[Main] # NoTask => st[awaitOf'[Main]] # "unborn"
      BY <2>1, SoundFacts DEF Sound, Scheduled
    <2> QED
      BY <2>1, <2>2, <2>3, StaysUnseen
  <1>7. CASE GiveUp
    BY <1>7, GiveUpRefines DEF Contract!Next
  <1>8. CASE UNCHANGED vars
    BY <1>1, <1>8 DEF vars, loopVars, taskVars
  <1> QED
    BY <1>2, <1>3, <1>4, <1>5, <1>6, <1>7, <1>8 DEF Next

\* However async bodies interleave, the interpreter keeps to the contract of
\* module Coroutines until control is lost by a jump to another stack: one
\* body runs at a time, an await is over when its target has ended, how a task
\* has ended is final, and tasks are written off only when none can go on
\* (spawn_async_task, async_task_entry, await_task).
THEOREM Implements_Coroutines == Spec => ImplementsCoroutines
  <1>1. Init => Contract!Init /\ Scheduled
    BY ConstantFacts
       DEF Init, Contract!Init, phase, awaits, Scheduled
  <1>2. Init => Inv
    BY InitInv
  <1>3. Inv /\ [Next]_vars => Inv'
    BY NextInv
  <1>4. Inv /\ Scheduled /\ [Next]_vars
            => Scheduled' /\ [Contract!Next]_(Contract!vars)
    BY NextRefines DEF Sound
  <1> QED
    BY <1>1, <1>2, <1>3, <1>4, PTL
       DEF Spec, ImplementsCoroutines, Contract!Spec
=============================================================================
