------------------------------ MODULE Bytecode ------------------------------
(***************************************************************************)
(* The instruction set of the virtual machine (src/src/mvm_bytecode.h) and *)
(* the chunks it is written into (src/src/mvm_chunk.c).  A module has      *)
(*   consts   the constant pool, entries [tag, v], found again when added; *)
(*   natives  the names of the built-in functions that are called;         *)
(*   chunks   a chunk has a name, its code - bytes -, the numbers of its   *)
(*            parameters and locals, and the slots that are captured.      *)
(* Offsets and indices start at 0, as in the source.  Line tables and the  *)
(* disassembler are left out.                                              *)
(***************************************************************************)
EXTENDS Values

O == [NOP |-> 0, PUSH_CONST |-> 1, PUSH_TRUE |-> 2, PUSH_FALSE |-> 3, PUSH_NIL |-> 4,
      POP |-> 5, DUP |-> 6,
      ADD |-> 16, SUB |-> 17, MUL |-> 18, DIV |-> 19,
      EQ |-> 24, NEQ |-> 25, LT |-> 26, GT |-> 27, LE |-> 28, GE |-> 29,
      NEG |-> 40, NOT |-> 41,
      LOAD_LOCAL |-> 48, STORE_LOCAL |-> 49, LOAD_GLOBAL |-> 50, STORE_GLOBAL |-> 51,
      JUMP |-> 64, JUMP_IF_FALSE |-> 65, JUMP_IF_TRUE |-> 66,
      MAKE_CLOSURE |-> 80, CALL |-> 81, RET |-> 82, LOAD_UPVALUE |-> 83, STORE_UPVALUE |-> 84,
      NEW_ARRAY |-> 96, NEW_MAP |-> 97, INDEX_GET |-> 99, INDEX_SET |-> 100,
      NEW_STRUCT |-> 112, GET_FIELD |-> 113, SET_FIELD |-> 114, INVOKE |-> 115,
      STR_CONCAT |-> 128, TO_STR |-> 129,
      CAST_STR |-> 130, CAST_INT |-> 131, CAST_CHAR |-> 132, MAKE_ERROR |-> 133,
      CALL_NATIVE |-> 144, UNPACK |-> 160, CHECK_NOT_NIL |-> 161]

(* binary_opcode, and back: how the VM names the operator of an opcode.    *)
BinaryOpcode == ("+" :> "ADD") @@ ("-" :> "SUB") @@ ("*" :> "MUL") @@ ("/" :> "DIV")
             @@ ("==" :> "EQ") @@ ("!=" :> "NEQ") @@ ("<" :> "LT") @@ (">" :> "GT")
             @@ ("<=" :> "LE") @@ (">=" :> "GE")
OperatorOf == [op \in {O[BinaryOpcode[o]] : o \in DOMAIN BinaryOpcode} |->
                 CHOOSE o \in DOMAIN BinaryOpcode : O[BinaryOpcode[o]] = op]

CastTarget == (O.CAST_STR :> "str") @@ (O.CAST_INT :> "int") @@ (O.CAST_CHAR :> "char")
           @@ (O.MAKE_ERROR :> "error")
CastOpcode == [to \in {"str", "int", "char", "error"} |->
                 CHOOSE op \in DOMAIN CastTarget : CastTarget[op] = to]

(* The operands of an instruction.                                         *)
WithU16 == {O.PUSH_CONST, O.LOAD_LOCAL, O.STORE_LOCAL, O.LOAD_GLOBAL, O.STORE_GLOBAL,
            O.LOAD_UPVALUE, O.STORE_UPVALUE, O.JUMP, O.JUMP_IF_FALSE, O.JUMP_IF_TRUE,
            O.NEW_ARRAY, O.NEW_MAP, O.NEW_STRUCT, O.GET_FIELD, O.SET_FIELD}
WithU8  == {O.CALL, O.RET, O.UNPACK}
WithU16U8 == {O.INVOKE, O.CALL_NATIVE}

OperandBytes(op) ==
  CASE op \in WithU16   -> 2
    [] op \in WithU8    -> 1
    [] op \in WithU16U8 -> 3
    [] OTHER            -> 0

-----------------------------------------------------------------------------
(* Reading: unsigned and signed 16 bits, low byte first.                   *)
ByteAt(code, a) == code[a + 1]
U16At(code, a)  == code[a + 1] + 256 * code[a + 2]
S16At(code, a)  == LET u == U16At(code, a) IN IF u < 32768 THEN u ELSE u - 65536

InstructionLen(code, a) ==
  IF ByteAt(code, a) = O.MAKE_CLOSURE THEN 4 + 3 * ByteAt(code, a + 3)
  ELSE 1 + OperandBytes(ByteAt(code, a))

-----------------------------------------------------------------------------
(* Writing.                                                                *)
U16(n) == <<n % 256, (n \div 256) % 256>>
U8(n)  == <<n % 256>>

NewChunk(name) == [name |-> name, code |-> <<>>, params |-> 0, locals |-> 0, captured |-> {}]

(* chunk_patch_jump: from behind the operand to the end of the code, cut   *)
(* to 16 bits.                                                             *)
PatchJump(code, at) ==
  LET rel == U16(Len(code) - (at + 2))
  IN [code EXCEPT ![at + 1] = rel[1], ![at + 2] = rel[2]]

(* chunk_emit_loop: the way back.                                          *)
Loop(code, op, target) == code \o <<op>> \o U16(target - (Len(code) + 3))

(* module_add_const_*: types are not looked for, the others are.           *)
AddConst(m, tag, v) ==
  LET at == SelectInSeq(m.consts, LAMBDA k : k.tag = tag /\ k.v = v)
  IN IF at # 0 /\ tag # "type" THEN [m |-> m, i |-> at - 1]
     ELSE [m |-> [m EXCEPT !.consts = Append(@, [tag |-> tag, v |-> v])], i |-> Len(m.consts)]

AddNative(m, name) ==
  LET at == SelectInSeq(m.natives, LAMBDA x : x = name)
  IN IF at # 0 THEN [m |-> m, i |-> at - 1]
     ELSE [m |-> [m EXCEPT !.natives = Append(@, name)], i |-> Len(m.natives)]
=============================================================================
