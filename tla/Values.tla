------------------------------- MODULE Values -------------------------------
(***************************************************************************)
(* Myon's values (src/src/value.c) and what both engines do with them: the *)
(* VM calls the tree walker's own operators through myon_bridge_*.         *)
(*                                                                         *)
(* int, bool, nil and void are immediate.  A str, a char or an error is    *)
(* immutable, so it is its content: a sequence of words, a word being what *)
(* a literal wrote, [w |-> ..], or the digits of a number, [n |-> ..].     *)
(* Arrays, maps, structs and the VM's functions and cells live in a heap:  *)
(* a value names its object, an object counts its references.  An          *)
(* operation here changes the heap but no count of a value it was given;   *)
(* it says which values it copied ("kept") and which it freed ("dropped"), *)
(* and a new object is born with the one reference of its result.          *)
(* Floats, and the 64 bits of an int, are left out: MaxInt stands for the  *)
(* last int.  So are the limits on the depth of a print and the order of   *)
(* texts, which sort asks for.                                             *)
(***************************************************************************)
EXTENDS Syntax, FiniteSets, SequencesExt, TLC

MaxInt == 1000

IntV(n)   == [t |-> "int", i |-> n]
BoolV(b)  == [t |-> "bool", b |-> b]
NilV      == [t |-> "myon.nil"]
VoidV     == [t |-> "void"]
StrV(s)   == [t |-> "str", s |-> s]
CharV(s)  == [t |-> "char", s |-> s]
ErrorV(s) == [t |-> "error", s |-> s]
Ref(t, o) == [t |-> t, o |-> o]
NoValue   == [t |-> "no"]

Word(x)   == <<[w |-> x]>>
Digits(n) == <<[n |-> n]>>

-----------------------------------------------------------------------------
(* The heap.                                                               *)

ArrayObj(items, elem)     == [k |-> "array", items |-> items, elem |-> elem, rc |-> 1]
MapObj(entries, key, val) == [k |-> "map", entries |-> entries, key |-> key, elem |-> val, rc |-> 1]
StructObj(x, fields)      == [k |-> "struct", x |-> x, fields |-> fields, rc |-> 1]
Freed                     == [k |-> "freed", rc |-> 0]

Entry(key, val) == [key |-> key, val |-> val]
Field(x, v)     == [x |-> x, v |-> v]

New(h, obj) == Append(h, obj)
Newest(h, t) == Ref(t, Len(h))

IsRef(v) == "o" \in DOMAIN v

(* The values an object owns.                                              *)
Owned(obj) ==
  CASE obj.k = "array"  -> obj.items
    [] obj.k = "map"    -> [i \in 1..Len(obj.entries) |-> obj.entries[i].key]
                           \o [i \in 1..Len(obj.entries) |-> obj.entries[i].val]
    [] obj.k = "struct" -> [i \in 1..Len(obj.fields) |-> obj.fields[i].v]
    [] obj.k = "func"   -> [i \in 1..Len(obj.cells) |-> Ref("cell", obj.cells[i])]
    [] obj.k = "cell"   -> <<obj.v>>
    [] obj.k = "freed"  -> <<>>

(* The references to o among vs.                                           *)
Refs(vs)    == SelectSeq(vs, IsRef)
RefsTo(o, vs) == Len(SelectSeq(Refs(vs), LAMBDA v : v.o = o))

(* value_copy, upvalue_cell_ref.                                           *)
KeepAll(h, vs) ==
  IF Refs(vs) = <<>> THEN h
  ELSE [o \in 1..Len(h) |-> [h[o] EXCEPT !.rc = @ + RefsTo(o, vs)]]
Keep(h, v) == KeepAll(h, <<v>>)

(* value_free, upvalue_cell_unref: the last reference frees the object,    *)
(* and with it the references it holds.                                    *)
RECURSIVE DropAll(_, _)
DropAll(h, vs) ==
  LET rc(o) == h[o].rc - RefsTo(o, vs)
      dead  == SelectSeq([o \in 1..Len(h) |-> o], LAMBDA o : h[o].rc > 0 /\ rc(o) = 0)
  IN IF Refs(vs) = <<>> THEN h
     ELSE DropAll([o \in 1..Len(h) |-> IF rc(o) = 0 THEN Freed ELSE [h[o] EXCEPT !.rc = rc(o)]],
                  FlattenSeq([i \in 1..Len(dead) |-> Owned(h[dead[i]])]))
Drop(h, v) == DropAll(h, <<v>>)

-----------------------------------------------------------------------------
(* Printing: value_to_cstr.  A container met again on the way down to it   *)
(* is a cycle.  Commas and the names of fields are not part of it.         *)

RECURSIVE Render(_, _, _)
Render(h, vs, path) ==
  IF vs = <<>> THEN <<>>
  ELSE LET v     == Head(vs)
           name  == IF v.t = "struct" THEN h[v.o].x ELSE v.t
           inner == Render(h, Owned(h[v.o]), path \cup {v.o})
           one   == CASE v.t = "int" -> Digits(v.i)
                      [] v.t = "bool" -> Word(IF v.b THEN "true" ELSE "false")
                      [] v.t \in {"str", "char", "error"} -> v.s
                      [] v.t \in {"array", "map", "struct"} ->
                           IF v.o \in path THEN Word(name) \o Word("<cycle>")
                           ELSE Word(name) \o Word("(") \o inner \o Word(")")
                      [] OTHER -> Word(v.t)
       IN one \o Render(h, Tail(vs), path)

ToStr(h, v) == Render(h, <<v>>, {})

(* value_truthy, value_equal.  Objects are equal if they are the same.     *)
Truthy(v) ==
  CASE v.t = "bool" -> v.b
    [] v.t = "int"  -> v.i # 0
    [] OTHER        -> v # NilV

ValueEqual(a, b) == a = b

(* typespec_matches_value: the name of a struct accepts every value that   *)
(* is no struct, for it may be a type parameter.                           *)
Matches(h, type, v) ==
  CASE type.base = "none"   -> TRUE
    [] type.base = "error"  -> v.t \in {"error", "myon.nil"}
    [] type.base = "struct" -> v.t = "struct" => h[v.o].x = type.name
    [] OTHER                -> v.t = type.base

-----------------------------------------------------------------------------
(* Operators: the value, or NoValue for a runtime error.                   *)

Abs(n) == IF n < 0 THEN -n ELSE n

(* int_arith.  Division is that of C: it truncates towards zero.           *)
IntArith(o, a, b) ==
  LET r == CASE o = "+" -> a + b
             [] o = "-" -> a - b
             [] o = "*" -> a * b
             [] o = "/" -> IF (a < 0) = (b < 0) THEN Abs(a) \div Abs(b)
                                               ELSE -(Abs(a) \div Abs(b))
  IN IF (o = "/" /\ b = 0) \/ r > MaxInt \/ r < -MaxInt - 1 THEN NoValue ELSE IntV(r)

CompareOrdered(o, a, b) ==
  BoolV(CASE o = "<"  -> a < b
          [] o = ">"  -> a > b
          [] o = "<=" -> a <= b
          [] o = ">=" -> a >= b
          [] o = "==" -> a = b
          [] o = "!=" -> a # b)

Arithmetic == {"+", "-", "*", "/"}
Equality   == {"==", "!="}

(* eval_binary: nil may be compared with nil and with errors only, other   *)
(* operands must be of one type.                                           *)
EvalBinary(o, l, r) ==
  LET same  == BoolV(ValueEqual(l, r) = (o = "=="))
      nils  == l = NilV \/ r = NilV
      plain == {"str", "char", "bool", "error"}
  IN CASE o \in Equality /\ nils ->
            IF l.t \in {"myon.nil", "error"} /\ r.t \in {"myon.nil", "error"} THEN same ELSE NoValue
       [] l.t = "int" /\ r.t = "int" ->
            IF o \in Arithmetic THEN IntArith(o, l.i, r.i) ELSE CompareOrdered(o, l.i, r.i)
       [] l.t = "str" /\ r.t = "str" /\ o = "+" -> StrV(l.s \o r.s)
       [] l.t = r.t /\ l.t \in plain /\ o \in Equality -> same
       [] OTHER -> NoValue

EvalUnary(o, v) ==
  CASE o = "-" /\ v.t = "int"    -> IntV(-v.i)
    [] o = "not" /\ v.t = "bool" -> BoolV(~v.b)
    [] OTHER -> NoValue

(* The first byte of a text: of a char its code, of a number a digit or    *)
(* the minus sign, of a word its letter.                                   *)
Letters == ("a" :> 97) @@ ("b" :> 98)
RECURSIVE LeadingDigit(_)
LeadingDigit(n) == IF n < 10 THEN n ELSE LeadingDigit(n \div 10)
FirstCode(s) ==
  LET c == Head(s)
  IN CASE s = <<>> -> 0
       [] s # <<>> /\ "c" \in DOMAIN c -> c.c
       [] s # <<>> /\ "n" \in DOMAIN c -> IF c.n < 0 THEN 45 ELSE 48 + LeadingDigit(c.n)
       [] s # <<>> /\ "w" \in DOMAIN c -> Letters[c.w]

Char(code) == CharV(IF code = 0 THEN <<>> ELSE <<[c |-> code]>>)

(* cast_to_str, cast_to_int, cast_to_char, and error().                    *)
CastTo(to, h, v) ==
  CASE to = "str" -> StrV(ToStr(h, v))
    [] to = "int" -> CASE v.t = "int"  -> v
                       [] v.t = "bool" -> IntV(IF v.b THEN 1 ELSE 0)
                       [] v.t = "char" -> IntV(FirstCode(v.s))
                       [] v.t = "str"  -> IF Len(v.s) = 1 /\ "n" \in DOMAIN Head(v.s)
                                          THEN IntV(Head(v.s).n) ELSE NoValue
                       [] OTHER -> NoValue
    [] to = "char" -> CASE v.t = "char" -> v
                        [] v.t = "int"  -> Char(v.i % 256)
                        [] v.t = "str"  -> IF v.s = <<>> THEN NoValue ELSE Char(FirstCode(v.s))
                        [] OTHER -> NoValue
    [] to = "error" -> IF v.t = "str" THEN ErrorV(v.s) ELSE NoValue

-----------------------------------------------------------------------------
(* Elements, fields and methods of an object.  The answer has the heap,    *)
(* the value, the values of which a copy was made and those let go.        *)

Did(h, v, kept, dropped) == [h |-> h, v |-> v, kept |-> kept, dropped |-> dropped]
Refused(h)               == Did(h, NoValue, <<>>, <<>>)
Yields(h, v)             == Did(h, v, <<>>, <<>>)

PosOf(seq, Test(_)) == SelectInSeq(seq, Test)

(* map_set keeps the key only if it is new, and puts a new entry first.    *)
MapSet(h, o, key, val) ==
  LET at == PosOf(h[o].entries, LAMBDA en : ValueEqual(en.key, key))
  IN IF at # 0
     THEN Did([h EXCEPT ![o].entries[at].val = val], VoidV, <<val>>, <<h[o].entries[at].val>>)
     ELSE Did([h EXCEPT ![o].entries = <<Entry(key, val)>> \o @], VoidV, <<key, val>>, <<>>)

MapGet(h, o, key) ==
  LET at == PosOf(h[o].entries, LAMBDA en : ValueEqual(en.key, key))
      v  == IF at = 0 THEN NilV ELSE h[o].entries[at].val
  IN Did(h, v, <<v>>, <<>>)

InArray(h, o, i) == i.t = "int" /\ i.i >= 0 /\ i.i < Len(h[o].items)

IndexGet(h, v, i) ==
  CASE v.t = "array" /\ InArray(h, v.o, i) ->
         LET item == h[v.o].items[i.i + 1] IN Did(h, item, <<item>>, <<>>)
    [] v.t = "map" -> MapGet(h, v.o, i)
    [] OTHER -> Refused(h)

IndexSet(h, v, i, new) ==
  CASE v.t = "array" /\ InArray(h, v.o, i) ->
         Did([h EXCEPT ![v.o].items[i.i + 1] = new], VoidV, <<new>>, <<h[v.o].items[i.i + 1]>>)
    [] v.t = "map" -> MapSet(h, v.o, i, new)
    [] OTHER -> Refused(h)

FieldAt(h, v, x) ==
  IF v.t = "struct" THEN PosOf(h[v.o].fields, LAMBDA f : f.x = x) ELSE 0

FieldGet(h, v, x) ==
  LET at  == FieldAt(h, v, x)
      val == h[v.o].fields[at].v
  IN IF at = 0 THEN Refused(h) ELSE Did(h, val, <<val>>, <<>>)

FieldSet(h, v, x, new) ==
  LET at == FieldAt(h, v, x)
  IN IF at = 0 THEN Refused(h)
     ELSE Did([h EXCEPT ![v.o].fields[at].v = new], VoidV, <<new>>, <<h[v.o].fields[at].v>>)

(* A result and its error, as one untyped array.                           *)
ResultPair(h, v, err, kept) ==
  Did(New(h, ArrayObj(<<v, err>>, NoType)), Ref("array", Len(h) + 1), kept, <<>>)

Slice(h, a, start, len) ==
  LET part == SubSeq(a.items, start.i + 1, start.i + len.i)
      list(q) == New(h, ArrayObj(q, a.elem))
      made == Ref("array", Len(h) + 1)
      bad  == start.i < 0 \/ len.i < 0 \/ start.i > Len(a.items)
              \/ len.i > Len(a.items) - start.i
  IN CASE start.t # "int" \/ len.t # "int" -> Refused(h)
       [] start.t = "int" /\ len.t = "int" /\ bad ->
            ResultPair(list(<<>>), made, ErrorV(Word("slice: range out of bounds")), <<>>)
       [] OTHER -> ResultPair(list(part), made, NilV, part)

Sortable(items) == \A i \in 1..Len(items) : items[i].t = "int"

(* call_method on an array.                                                *)
ArrayMethod(h, o, name, args) ==
  LET a      == h[o]
      n      == Len(args)
      at     == PosOf(a.items, LAMBDA v : ValueEqual(v, args[1]))
      put(q) == [h EXCEPT ![o].items = q]
      sorted == SortSeq(a.items, LAMBDA u, v : u.i < v.i)
  IN CASE name = "push" /\ n = 1 /\ Matches(h, a.elem, args[1]) ->
            Did(put(Append(a.items, args[1])), VoidV, args, <<>>)
       [] name = "pop" /\ a.items # <<>> -> Yields(put(Front(a.items)), Last(a.items))
       [] name = "length" -> Yields(h, IntV(Len(a.items)))
       [] name = "sort" /\ n = 0 /\ Sortable(a.items) -> Yields(put(sorted), VoidV)
       [] name = "sort_desc" /\ n = 0 /\ Sortable(a.items) -> Yields(put(Reverse(sorted)), VoidV)
       [] name = "reverse" /\ n = 0 -> Yields(put(Reverse(a.items)), VoidV)
       [] name = "contains" /\ n = 1 -> Yields(h, BoolV(at # 0))
       [] name = "index_of" /\ n = 1 -> Yields(h, IntV(at - 1))
       [] name = "slice" /\ n = 2 -> Slice(h, a, args[1], args[2])
       [] OTHER -> Refused(h)

(* call_method on a map.                                                   *)
MapMethod(h, o, name, args) ==
  LET m       == h[o]
      n       == Len(args)
      at      == PosOf(m.entries, LAMBDA en : ValueEqual(en.key, args[1]))
      keys    == [i \in 1..Len(m.entries) |-> m.entries[i].key]
      vals    == [i \in 1..Len(m.entries) |-> m.entries[i].val]
      list(q, type) == Did(New(h, ArrayObj(q, type)), Ref("array", Len(h) + 1), q, <<>>)
  IN CASE name = "set" /\ n = 2 -> MapSet(h, o, args[1], args[2])
       [] name = "get" /\ n = 1 -> MapGet(h, o, args[1])
       [] name = "has" /\ n = 1 -> Yields(h, BoolV(at # 0))
       [] name = "delete" /\ n = 1 ->
            IF at = 0 THEN Yields(h, BoolV(FALSE))
            ELSE Did([h EXCEPT ![o].entries = RemoveAt(@, at)], BoolV(TRUE), <<>>,
                     <<m.entries[at].key, m.entries[at].val>>)
       [] name = "keys" /\ n = 0   -> list(keys, m.key)
       [] name = "values" /\ n = 0 -> list(vals, m.elem)
       [] name = "length" /\ n = 0 -> Yields(h, IntV(Len(m.entries)))
       [] OTHER -> Refused(h)

(* The methods of arrays and maps whose arguments are no functions.        *)
CallBuiltin(h, recv, name, args) ==
  CASE recv.t = "array" -> ArrayMethod(h, recv.o, name, args)
    [] recv.t = "map"   -> MapMethod(h, recv.o, name, args)
    [] OTHER            -> Refused(h)

(* The built-in functions: what is printed is the caller's to remember.    *)
CallNative(h, name, args) ==
  LET a == args[1]
  IN CASE name = "myon.println" -> Yields(h, VoidV)
       [] name = "myon.len" ->
            IF a.t = "array" THEN Yields(h, IntV(Len(h[a.o].items))) ELSE Refused(h)
       [] name = "myon.string.to_int" ->
            CASE a.t # "str" -> Refused(h)
              [] a.t = "str" /\ CastTo("int", h, a) = NoValue ->
                   ResultPair(h, IntV(0), ErrorV(Word("to_int: not an integer")), <<>>)
              [] OTHER -> ResultPair(h, CastTo("int", h, a), NilV, <<>>)

Printed(h, name, args) ==
  IF name = "myon.println" THEN <<ToStr(h, args[1])>> ELSE <<>>
=============================================================================
