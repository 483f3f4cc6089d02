------------------------------- MODULE MycFile -------------------------------
(***************************************************************************)
(* The file a compiled module is kept in (.myc, the second half of         *)
(* src/src/mvm_chunk.c): a header with the places of its three tables, the *)
(* description of the source, constants, natives, chunks.                  *)
(*                                                                         *)
(* A file is a sequence of fields [w, v], width and value; a place in it   *)
(* counts fields where the program counts bytes, and a text or the bytes   *)
(* of a code are one field.  The result count and the async flag of a      *)
(* chunk and its line table, which the model's modules do not have, are    *)
(* left out, and so are the arguments of a generic type.                   *)
(***************************************************************************)
EXTENDS Bytecode

U8Field(n)  == <<[w |-> "u8", v |-> n % 256]>>
U16Field(n) == <<[w |-> "u16", v |-> n % 65536]>>
U32Field(n) == <<[w |-> "u32", v |-> n]>>
U64Field(n) == <<[w |-> "u64", v |-> n]>>
BytesField(b) == <<[w |-> "bytes", v |-> b]>>
StrField(x) == U32Field(Len(x)) \o <<[w |-> "str", v |-> x]>>

Magic        == <<77, 89, 67, 49>>
VersionMajor == 1
VersionMinor == 1
EndianLittle == 1

(* Numbers of the types (enum Type) and of the constants' tags.            *)
TypeNumber == [int |-> 1, float |-> 2, str |-> 3, char |-> 4, bool |-> 5, void |-> 6,
               error |-> 7, array |-> 9, map |-> 10, struct |-> 11]
ConstTag   == [int |-> 1, str |-> 3, type |-> 16]

-----------------------------------------------------------------------------
(* Writing.                                                                *)
RECURSIVE SerTypespec(_)
SerTypespec(t) ==
  U8Field(TypeNumber[t.base])
    \o (IF t.base = "struct" THEN StrField(t.name) ELSE <<>>)
    \o (IF t.base \in {"array", "map"} THEN SerTypespec(t.elem) ELSE <<>>)
    \o (IF t.base = "map" THEN SerTypespec(t.key) ELSE <<>>)
    \o U16Field(0)

SerConst(k) ==
  U8Field(ConstTag[k.tag]) \o
    CASE k.tag = "int"  -> U64Field(k.v.i)
      [] k.tag = "str"  -> StrField(k.v.s)
      [] k.tag = "type" -> SerTypespec(k.v)

SerConstPool(m) ==
  U32Field(Len(m.consts)) \o FlattenSeq([i \in 1..Len(m.consts) |-> SerConst(m.consts[i])])
SerNativeTable(m) ==
  U16Field(Len(m.natives)) \o FlattenSeq([i \in 1..Len(m.natives) |-> StrField(m.natives[i])])

(* One byte for each local slot, unless none is captured.                  *)
CapturedFlags(c) ==
  IF c.captured = {} THEN <<>>
  ELSE [i \in 1..c.locals |-> IF i - 1 \in c.captured THEN 1 ELSE 0]

SerChunk(c) ==
  StrField(c.name) \o U16Field(c.params) \o U16Field(c.locals)
    \o U16Field(Len(CapturedFlags(c)))
    \o (IF c.captured = {} THEN <<>> ELSE BytesField(CapturedFlags(c)))
    \o U32Field(Len(c.code)) \o BytesField(c.code)

SerChunks(m) ==
  U32Field(Len(m.chunks)) \o FlattenSeq([i \in 1..Len(m.chunks) |-> SerChunk(m.chunks[i])])

SerSourceInfo(src) ==
  U64Field(src.mtime) \o U64Field(src.size) \o BytesField(src.hash) \o StrField(src.path)

(* The places in the header are patched when the tables have been laid out.*)
HeaderLen == 14
ModuleWriteFile(m, src) ==
  LET info     == SerSourceInfo(src)
      constOff == HeaderLen + Len(info)
      consts   == SerConstPool(m)
      natives  == SerNativeTable(m)
      chunkOff == constOff + Len(consts) + Len(natives)
  IN FlattenSeq([i \in 1..4 |-> U8Field(Magic[i])])
       \o U8Field(VersionMajor) \o U8Field(VersionMinor) \o U8Field(EndianLittle) \o U8Field(0)
       \o U32Field(constOff) \o U32Field(Len(consts)) \o U32Field(chunkOff)
       \o U32Field(Len(m.chunks)) \o U32Field(0) \o U32Field(HeaderLen)
       \o info \o consts \o natives \o SerChunks(m)

-----------------------------------------------------------------------------
(* Reading.  A reader r has the file, its place, the value read last, the  *)
(* module built so far, and err: set once, it stays.                       *)
Fails(r) == [r EXCEPT !.err = TRUE, !.v = 0]
Rd(r, w) ==
  IF r.err \/ r.pos >= Len(r.file) THEN Fails(r)
  ELSE IF r.file[r.pos + 1].w # w THEN Fails(r)
  ELSE [r EXCEPT !.pos = @ + 1, !.v = r.file[r.pos + 1].v]

Seek(r, pos)  == [r EXCEPT !.pos = pos]
WithV(r, v)   == IF r.err THEN r ELSE [r EXCEPT !.v = v]
RdStr(r)      == Rd(Rd(r, "u32"), "str")
RdBytes(r, n) ==
  LET q == Rd(r, "bytes") IN IF q.err THEN q ELSE IF Len(q.v) # n THEN Fails(q) ELSE q

(* A type; a rule leaves what it read in r.v.                              *)
RECURSIVE DeserTypespec(_)
BadDeserMap(r) ==    \* key first
  LET key  == DeserTypespec(r)
      elem == DeserTypespec(key)
  IN WithV(elem, MapT(key.v, elem.v))

DeserMap(r) ==
  LET elem == DeserTypespec(r)
      key  == DeserTypespec(elem)
  IN WithV(key, MapT(key.v, elem.v))

BaseOf(n) == CHOOSE b \in DOMAIN TypeNumber : TypeNumber[b] = n
DeserTypespec(r) ==
  LET q == Rd(r, "u8")
      b == BaseOf(q.v)
      t == CASE q.err -> q
             [] ~q.err /\ b = "struct" -> LET x == RdStr(q) IN WithV(x, StructT(x.v))
             [] ~q.err /\ b = "array"  -> LET e == DeserTypespec(q) IN WithV(e, ArrayT(e.v))
             [] ~q.err /\ b = "map"    -> DeserMap(q)
             [] OTHER                  -> WithV(q, Base(b))
  IN WithV(Rd(t, "u16"), t.v)

(* Constants and natives are added as the compiler adds them.              *)
WithConst(r, tag, v) == IF r.err THEN r ELSE [r EXCEPT !.m = AddConst(@, tag, v).m]
ReadConst(r) ==
  LET tag == Rd(r, "u8")
      int == Rd(tag, "u64")
      str == RdStr(tag)
      type == DeserTypespec(tag)
  IN CASE tag.err -> tag
       [] ~tag.err /\ tag.v = ConstTag.int  -> WithConst(int, "int", IntV(int.v))
       [] ~tag.err /\ tag.v = ConstTag.str  -> WithConst(str, "str", StrV(str.v))
       [] ~tag.err /\ tag.v = ConstTag.type -> WithConst(type, "type", type.v)
       [] OTHER -> Fails(tag)

ReadNative(r) ==
  LET x == RdStr(r) IN IF x.err THEN x ELSE [x EXCEPT !.m = AddNative(@, x.v).m]

ReadChunk(r) ==
  LET name   == RdStr(r)
      params == Rd(name, "u16")
      locals == Rd(params, "u16")
      n      == Rd(locals, "u16")
      flags  == IF n.v = 0 THEN WithV(n, <<>>) ELSE RdBytes(n, n.v)
      len    == Rd(flags, "u32")
      code   == RdBytes(len, len.v)
      chunk  == [name |-> name.v, code |-> code.v, params |-> params.v, locals |-> locals.v,
                 captured |-> {i - 1 : i \in {j \in 1..n.v : flags.v[j] = 1}}]
  IN IF code.err THEN code ELSE [code EXCEPT !.m.chunks = Append(@, chunk)]

(* As many of one kind as the count says.                                  *)
RECURSIVE ReadTable(_, _, _)
ReadTable(r, n, kind) ==
  IF n = 0 \/ r.err THEN r
  ELSE ReadTable(CASE kind = "const"  -> ReadConst(r)
                   [] kind = "native" -> ReadNative(r)
                   [] kind = "chunk"  -> ReadChunk(r), n - 1, kind)
Counted(r, w, kind) == LET n == Rd(r, w) IN ReadTable(n, n.v, kind)

(* The fields of these widths, one after another: their values.            *)
RdAll(r, ws) ==
  FoldLeft(LAMBDA q, w : LET next == Rd(q, w) IN [next EXCEPT !.v = Append(q.v, next.v)],
           [r EXCEPT !.v = <<>>], ws)

ReadHeader(r) ==
  RdAll(r, <<"u8", "u8", "u8", "u8", "u8", "u8", "u8", "u8",
             "u32", "u32", "u32", "u32", "u32", "u32">>)

(* The module, or NotLoaded.  A module read has no struct declarations: the  *)
(* file keeps none.                                                        *)
NoModule == [consts |-> <<>>, natives |-> <<>>, chunks |-> <<>>]
NotLoaded  == [refused |-> TRUE]
ModuleReadFile(file) ==
  LET head   == ReadHeader([file |-> file, pos |-> 0, err |-> FALSE, v |-> <<>>, m |-> NoModule])
      known  == /\ SubSeq(head.v, 1, 4) = Magic
                /\ head.v[5] = VersionMajor
                /\ head.v[7] = EndianLittle
      consts == Counted(Seek(head, head.v[9]), "u32", "const")
      natives == Counted(consts, "u16", "native")
      chunks == Counted(Seek(natives, head.v[11]), "u32", "chunk")
  IN IF head.err THEN NotLoaded
     ELSE IF ~known \/ chunks.err THEN NotLoaded ELSE chunks.m

(* What the file says of the source.                                       *)
ReadSourceInfo(file) ==
  LET head == ReadHeader([file |-> file, pos |-> 0, err |-> FALSE, v |-> <<>>, m |-> NoModule])
      info == RdAll(Seek(head, head.v[14]), <<"u64", "u64", "bytes", "u32", "str">>)
  IN [mtime |-> info.v[1], size |-> info.v[2], hash |-> info.v[3], path |-> info.v[5]]
=============================================================================
