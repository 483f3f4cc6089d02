--------------------------------- MODULE Vm ---------------------------------
(***************************************************************************)
(* The bytecode engine of src/src/mvm_vm.c running what Compiler makes of  *)
(* a program, one instruction a step: an operand stack that also holds the *)
(* locals of every frame, a stack of frames, the globals of <main>, and    *)
(* the heap - arrays, maps, structs, function values and the boxed cells   *)
(* captured variables live in, each with its reference count.  TreeWalk    *)
(* gives the answer the program must have.                                 *)
(*                                                                         *)
(* Operand stack, slots and offsets are numbered from 0, as in the source: *)
(* slot i of a frame is stack[base + i + 1].  The limits on frames and on  *)
(* the stack are left out; no program of the model comes near them.  So is *)
(* what an error leaves behind: nothing is asked of the heap after it.     *)
(***************************************************************************)
EXTENDS Integers, Sequences, SequencesExt, FiniteSets

CONSTANTS Programs    \* the programs that are compiled and run

VARIABLES
  program,    \* the syntax tree of the program that runs
  module,     \* its compiled form: chunks, constants, natives, structs
  status,     \* "running", "done", "error" or "corrupt"
  frames,     \* frames: chunk, ip, base, fn_slot, upvalues, cells
  stack,      \* operand stack
  globals,    \* slots of <main>, seen by every frame
  heap,       \* every object made; a cell is one, and so is a function
  out         \* what was printed

vars == <<program, module, status, frames, stack, globals, heap, out>>
world == <<program, module, status, out>>

LOCAL INSTANCE Bytecode
C == INSTANCE Compiler
T == INSTANCE TreeWalk
P == INSTANCE Parser
G == INSTANCE Grammar
M == INSTANCE MycFile

-----------------------------------------------------------------------------
F        == Last(frames)
Chunk(f) == module.chunks[f.chunk]
Code     == Chunk(F).code
Opcode   == ByteAt(Code, F.ip)
U16Arg   == U16At(Code, F.ip + 1)
U8Arg    == ByteAt(Code, F.ip + 1)
Argc     == ByteAt(Code, F.ip + 3)       \* of INVOKE and CALL_NATIVE
NextIp   == F.ip + InstructionLen(Code, F.ip)

Const(i)  == module.consts[i + 1].v
Name(i)   == Head(Const(i).s).w           \* of a field, a method or a struct

CellObj(v) == [k |-> "cell", v |-> v, rc |-> 1]
FuncObj(chunk, captured) == [k |-> "func", chunk |-> chunk, cells |-> captured, rc |-> 1]

GlobalsFrame == Len(frames) = 1          \* only <main> keeps its locals outside

Nils(n) == [i \in 1..n |-> NilV]

(* A frame for a chunk whose first locals are on top of stk from base on:  *)
(* the other slots are reserved, and the captured ones boxed: a fresh cell *)
(* each, which the slot's value moves into.                                *)
Enter(chunk, base, fn_slot, upvalues, stk) ==
  LET c     == module.chunks[chunk]
      slots == stk \o Nils(c.locals - (Len(stk) - base))
      boxed == SetToSortSeq(c.captured, <)
      at(k) == base + k + 1
  IN /\ frames' = Append([frames EXCEPT ![Len(frames)].ip = NextIp],
                         [chunk |-> chunk, ip |-> 0, base |-> base, fn_slot |-> fn_slot,
                          upvalues |-> upvalues,
                          cells |-> [k \in c.captured |->
                                       Len(heap) + CHOOSE i \in 1..Len(boxed) : boxed[i] = k]])
     /\ stack' = [j \in 1..Len(slots) |->
                    IF \E k \in c.captured : at(k) = j THEN NilV ELSE slots[j]]
     /\ heap' = heap \o [i \in 1..Len(boxed) |-> CellObj(slots[at(boxed[i])])]
     /\ UNCHANGED <<world, globals>>

Init ==
  /\ program \in Programs
  /\ module = C!CompileProgram(program)
  /\ status = IF module.err THEN "error" ELSE "running"
  /\ frames = <<[chunk |-> 1, ip |-> 0, base |-> 0, fn_slot |-> -1,
                 upvalues |-> <<>>, cells |-> [k \in {} |-> 0]]>>
  /\ stack = <<>>
  /\ globals = Nils(module.chunks[1].locals)
  /\ heap = <<>>
  /\ out = <<>>

-----------------------------------------------------------------------------
(* Steps.  Next instruction, or a jump; vm_error ends the run.             *)

At(ops) == status = "running" /\ Opcode \in ops
Goto(ip)  == frames' = [frames EXCEPT ![Len(frames)].ip = ip]
Advance   == Goto(NextIp)

Peek(back) == stack[Len(stack) - back]
TopN(n)    == SubSeq(stack, Len(stack) - n + 1, Len(stack))
Below(n)   == SubSeq(stack, 1, Len(stack) - n)

VmError ==
  /\ status' = "error"
  /\ UNCHANGED <<program, module, frames, stack, globals, heap, out>>

(* The slots reserved for the frame are no longer all below the top: the   *)
(* locals were popped with the operands, and a LOAD or STORE works on      *)
(* values that were freed.                                                 *)
Lost(stk) == Len(frames) > 1 /\ Len(stk) < F.base + Chunk(F).locals

Corrupt ==
  /\ status' = "corrupt"
  /\ UNCHANGED <<program, module, frames, stack, globals, heap, out>>

Becomes(stk, h) ==
  /\ stack' = stk
  /\ heap' = h
  /\ Advance
  /\ UNCHANGED <<world, globals>>

(* v takes the place of the top n operands, which are freed; h is the heap *)
(* with v already counted.                                                 *)
Replace(n, h, v) == Becomes(Append(Below(n), v), DropAll(h, TopN(n)))

(* A result of the operators of Values: what was copied and what was freed. *)
Settled(r) == DropAll(KeepAll(r.h, r.kept), r.dropped)

PushValue ==
  \/ /\ At({O.PUSH_CONST})
     /\ Becomes(Append(stack, Const(U16Arg)), heap)
  \/ /\ At({O.PUSH_TRUE, O.PUSH_FALSE})
     /\ Becomes(Append(stack, BoolV(Opcode = O.PUSH_TRUE)), heap)
  \/ /\ At({O.PUSH_NIL})
     /\ Becomes(Append(stack, NilV), heap)

Dup ==
  /\ At({O.DUP})
  /\ Becomes(Append(stack, Peek(0)), Keep(heap, Peek(0)))

Pop ==
  /\ At({O.POP})
  /\ IF stack = <<>> THEN VmError ELSE Becomes(Below(1), Drop(heap, Peek(0)))

(* Where a variable lives: a cell of the frame if its slot is captured, a  *)
(* global slot in <main>, a slot of the operand stack otherwise.           *)
Boxed(slot) == slot \in DOMAIN F.cells

LoadVar ==
  /\ At({O.LOAD_LOCAL, O.LOAD_GLOBAL, O.LOAD_UPVALUE})
  /\ LET slot  == U16Arg
         local == Opcode = O.LOAD_LOCAL
         v == CASE Opcode = O.LOAD_UPVALUE -> heap[F.upvalues[slot + 1]].v
                [] local /\ Boxed(slot) -> heap[F.cells[slot]].v
                [] local /\ ~Boxed(slot) /\ ~GlobalsFrame -> stack[F.base + slot + 1]
                [] OTHER -> globals[slot + 1]
     IN IF Lost(stack) THEN Corrupt ELSE Becomes(Append(stack, v), Keep(heap, v))

(* The old value is freed, the one on top moves in.                        *)
StoreCell(cell) ==
  /\ heap' = Drop([heap EXCEPT ![cell].v = Peek(0)], heap[cell].v)
  /\ stack' = Below(1)
  /\ UNCHANGED globals

StoreGlobal(slot) ==
  /\ globals' = [globals EXCEPT ![slot + 1] = Peek(0)]
  /\ heap' = Drop(heap, globals[slot + 1])
  /\ stack' = Below(1)

StoreSlot(slot) ==
  /\ stack' = [Below(1) EXCEPT ![F.base + slot + 1] = Peek(0)]
  /\ heap' = Drop(heap, stack[F.base + slot + 1])
  /\ UNCHANGED globals

StoreVar ==
  /\ At({O.STORE_LOCAL, O.STORE_GLOBAL, O.STORE_UPVALUE})
  /\ LET slot  == U16Arg
         local == Opcode = O.STORE_LOCAL
     IN IF stack = <<>> THEN VmError
        ELSE IF Lost(Below(1)) THEN Corrupt
        ELSE /\ \/ Opcode = O.STORE_UPVALUE /\ StoreCell(F.upvalues[slot + 1])
                \/ Opcode = O.STORE_GLOBAL /\ StoreGlobal(slot)
                \/ local /\ Boxed(slot) /\ StoreCell(F.cells[slot])
                \/ local /\ ~Boxed(slot) /\ GlobalsFrame /\ StoreGlobal(slot)
                \/ local /\ ~Boxed(slot) /\ ~GlobalsFrame /\ StoreSlot(slot)
             /\ Advance
             /\ UNCHANGED world

(* Operators work as in the tree walker; their operands are consumed.      *)
Operate(n, v) ==
  IF Len(stack) < n THEN VmError
  ELSE IF v = NoValue THEN VmError ELSE Replace(n, heap, v)

BinaryOp ==
  \/ /\ At(DOMAIN OperatorOf)
     /\ Operate(2, EvalBinary(OperatorOf[Opcode], Peek(1), Peek(0)))
  \/ /\ At({O.STR_CONCAT})
     /\ Operate(2, EvalBinary("+", Peek(1), Peek(0)))

UnaryOp ==
  \/ /\ At({O.NEG, O.NOT})
     /\ Operate(1, EvalUnary(IF Opcode = O.NEG THEN "-" ELSE "not", Peek(0)))
  \/ /\ At({O.TO_STR})
     /\ Operate(1, CastTo("str", heap, Peek(0)))
  \/ /\ At(DOMAIN CastTarget)
     /\ Operate(1, CastTo(CastTarget[Opcode], heap, Peek(0)))

Jump ==
  /\ At({O.JUMP})
  /\ Goto(NextIp + S16At(Code, F.ip + 1))
  /\ UNCHANGED <<world, stack, globals, heap>>

JumpIf ==
  /\ At({O.JUMP_IF_FALSE, O.JUMP_IF_TRUE})
  /\ Goto(IF Truthy(Peek(0)) = (Opcode = O.JUMP_IF_TRUE)
          THEN NextIp + S16At(Code, F.ip + 1) ELSE NextIp)
  /\ stack' = Below(1)
  /\ heap' = Drop(heap, Peek(0))
  /\ UNCHANGED <<world, globals>>

CheckNotNil ==
  /\ At({O.CHECK_NOT_NIL})
  /\ IF Peek(0) = NilV THEN VmError ELSE Becomes(stack, heap)

-----------------------------------------------------------------------------
(* Arrays, maps, structs.                                                  *)

NewContainer ==
  LET type   == Const(U16Arg)
      made(t, obj) == Becomes(Append(stack, Ref(t, Len(heap) + 1)), New(heap, obj))
  IN \/ /\ At({O.NEW_ARRAY})
        /\ made("array", ArrayObj(<<>>, type))
     \/ /\ At({O.NEW_MAP})
        /\ made("map", MapObj(<<>>, type.key, type.elem))

(* An access that yields a value in place of its n operands.               *)
Access(n, r) == IF r.v = NoValue THEN VmError ELSE Replace(n, Settled(r), r.v)

(* One that yields none.                                                   *)
Update(n, r) == IF r.v = NoValue THEN VmError ELSE Becomes(Below(n), DropAll(Settled(r), TopN(n)))

GetElement ==
  \/ /\ At({O.INDEX_GET})
     /\ Access(2, IndexGet(heap, Peek(1), Peek(0)))
  \/ /\ At({O.GET_FIELD})
     /\ Access(1, FieldGet(heap, Peek(0), Name(U16Arg)))

SetElement ==
  \/ /\ At({O.INDEX_SET})
     /\ Update(3, IndexSet(heap, Peek(2), Peek(1), Peek(0)))
  \/ /\ At({O.SET_FIELD})
     /\ Update(2, FieldSet(heap, Peek(1), Name(U16Arg), Peek(0)))

(* The values of the fields, ancestors' first, move into the struct.       *)
NewStruct ==
  /\ At({O.NEW_STRUCT})
  /\ LET x      == Name(U16Arg)
         fields == CollectFields(module.structs, x)
         n      == Len(fields)
         obj    == StructObj(x, [i \in 1..n |-> Field(fields[i], TopN(n)[i])])
     IN Becomes(Append(Below(n), Ref("struct", Len(heap) + 1)), New(heap, obj))

(* The elements of a tuple - an untyped array of as many - on the stack.   *)
Unpack ==
  /\ At({O.UNPACK})
  /\ LET t     == Peek(0)
         items == heap[t.o].items
     IN IF t.t # "array" THEN VmError
        ELSE IF heap[t.o].elem # NoType \/ Len(items) # U8Arg THEN VmError
        ELSE Becomes(Below(1) \o items, Drop(KeepAll(heap, items), t))

-----------------------------------------------------------------------------
(* Functions.                                                              *)

IsFunc(v) == v.t = "func"

(* Natives and built-in methods cannot call back into the VM: a function   *)
(* among the arguments is refused.                                         *)
AnyFunc(args) == \E i \in 1..Len(args) : IsFunc(args[i])

CallNativeOp ==
  /\ At({O.CALL_NATIVE})
  /\ LET name == module.natives[U16Arg + 1]
         args == TopN(Argc)
         r    == CallNative(heap, name, args)
     IN IF AnyFunc(args) THEN VmError
        ELSE IF r.v = NoValue THEN VmError
        ELSE /\ stack' = Append(Below(Argc), r.v)
             /\ heap' = DropAll(Settled(r), args)
             /\ out' = out \o Printed(heap, name, args)
             /\ Advance
             /\ UNCHANGED <<program, module, status, globals>>

(* The chunk of a method, if there is one: that of the nearest ancestor    *)
(* which has it.                                                           *)
MethodChunks(x, method) ==
  LET chain == Chain(module.structs, x)
      index(d) == SelectInSeq(module.chunks, LAMBDA c : c.name = C!MethodName(d.x, method))
      found == SelectSeq([i \in 1..Len(chain) |-> index(chain[i])], LAMBDA k : k # 0)
  IN IF found = <<>> THEN {} ELSE {Head(found)}

(* The receiver becomes slot 0, self, of the method's frame.               *)
InvokeMethod ==
  /\ At({O.INVOKE})
  /\ Peek(Argc).t = "struct"
  /\ LET chunks == MethodChunks(heap[Peek(Argc).o].x, Name(U16Arg))
     IN \/ /\ chunks = {}
           /\ VmError
        \/ \E chunk \in chunks :
             IF module.chunks[chunk].params # Argc + 1 THEN VmError
             ELSE Enter(chunk, Len(stack) - Argc - 1, -1, <<>>, stack)

InvokeBuiltin ==
  /\ At({O.INVOKE})
  /\ LET recv == Peek(Argc)
         args == TopN(Argc)
     IN /\ recv.t # "struct"
        /\ IF AnyFunc(args) THEN VmError
           ELSE Access(Argc + 1, CallBuiltin(heap, recv, Name(U16Arg), args))

(* Each capture is a cell of this frame, kind 1, or one that this frame's  *)
(* function captured itself, kind 0.                                       *)
MakeClosure ==
  /\ At({O.MAKE_CLOSURE})
  /\ LET n        == ByteAt(Code, F.ip + 3)
         local(i) == ByteAt(Code, F.ip + 1 + 3 * i) = 1
         index(i) == U16At(Code, F.ip + 2 + 3 * i)
         known(i) == IF local(i) THEN Boxed(index(i)) ELSE index(i) < Len(F.upvalues)
         cell(i)  == IF local(i) THEN F.cells[index(i)] ELSE F.upvalues[index(i) + 1]
         obj      == FuncObj(U16Arg + 1, [i \in 1..n |-> cell(i)])
     IN IF \E i \in 1..n : ~known(i) THEN VmError
        ELSE Becomes(Append(stack, Ref("func", Len(heap) + 1)),
                     New(KeepAll(heap, Owned(obj)), obj))

(* The callee lies below its arguments, which become slots 0.. of the new  *)
(* frame; the frame uses the callee's captured cells.                      *)
CallFn ==
  /\ At({O.CALL})
  /\ LET argc   == U8Arg
         callee == Peek(argc)
         fn     == heap[callee.o]
     IN IF ~IsFunc(callee) THEN VmError
        ELSE IF module.chunks[fn.chunk].params # argc THEN VmError
        ELSE Enter(fn.chunk, Len(stack) - argc, Len(stack) - argc - 1, fn.cells, stack)

CellRefs(f) == [i \in 1..Cardinality(DOMAIN f.cells) |->
                  Ref("cell", f.cells[SetToSortSeq(DOMAIN f.cells, <)[i]])]

Ret ==
  /\ At({O.RET})
  /\ LET n    == U8Arg
         rets == IF n = 0 THEN <<NilV>> ELSE TopN(n)
         from == IF F.fn_slot >= 0 THEN F.base - 1 ELSE F.base
         kept == IF Len(stack) - n < from THEN Below(n) ELSE SubSeq(stack, 1, from)
         gone == CellRefs(F) \o SubSeq(stack, Len(kept) + 1, Len(stack) - n)
     IN IF Len(stack) < n THEN VmError
        ELSE IF Len(frames) > 1
        THEN /\ frames' = Front(frames)
             /\ stack' = kept \o rets
             /\ heap' = DropAll(heap, gone)
             /\ UNCHANGED <<world, globals>>
        ELSE /\ frames' = <<>>
             /\ stack' = <<>>
             /\ globals' = <<>>
             /\ heap' = DropAll(heap, stack \o globals)
             /\ status' = "done"
             /\ UNCHANGED <<program, module, out>>

Next ==
  \/ PushValue \/ Dup \/ Pop \/ LoadVar \/ StoreVar \/ BinaryOp \/ UnaryOp
  \/ Jump \/ JumpIf \/ CheckNotNil
  \/ NewContainer \/ GetElement \/ SetElement \/ NewStruct \/ Unpack
  \/ CallNativeOp \/ InvokeMethod \/ InvokeBuiltin \/ MakeClosure \/ CallFn \/ Ret

(* The dispatch loop runs on until the program ends.                       *)
Spec == Init /\ [][Next]_vars /\ WF_vars(Next)

-----------------------------------------------------------------------------
(* The comment at src/src/mvm_vm.c:23-25 and the equality suite            *)
(* src/tests/run_mvm_tests.sh: a program run from bytecode prints what it  *)
(* prints when its tree is walked, and fails if and only if that does.     *)
(* Where the tree walker reads a freed environment nothing is asked.       *)
SameMeaning ==
  status # "running" =>
    LET tree == T!TreeRun(program)
    IN CASE tree.stop = "no"    -> status = "done" /\ out = tree.out
         [] tree.stop = "error" -> status = "error"
         [] OTHER               -> TRUE

(* Whoever writes a program by the grammar of docs/myon_spec.md:1736, in   *)
(* any of its layouts, gets the tree that was meant: operators hold their  *)
(* operands as the priorities say, newlines and comments end a statement   *)
(* where one may end and nowhere else, and what a name, a "<" or a "myon." *)
(* begins is told apart from what else begins so.  The statements of a     *)
(* program are taken two at a time.                                        *)
ParsedBack(sts) ==
  \A k \in 1..Len(sts) - 1, lay \in G!Layouts :
    LET two == SubSeq(sts, k, k + 1)
    IN P!ParserParse(G!TextOf(two, lay)) = two

AtStart == stack = <<>> /\ frames # <<>> /\ F.ip = 0
ParsesWhatIsWritten == AtStart => ParsedBack(program)

(* A module saved to a .myc file and loaded again is the module that was   *)
(* compiled - every index into its tables still means the same entry - and *)
(* the file still tells what source it is of (src/docs/mvm_spec.md 6).  A  *)
(* file whose writing was cut short after any of its fields is not loaded. *)
Source == [mtime |-> 7, size |-> 9, hash |-> <<1, 2>>, path |-> "main.myon"]

LoadsWhatWasSaved ==
  AtStart /\ ~module.err =>
    LET file == M!ModuleWriteFile(module, Source)
    IN /\ M!ModuleReadFile(file) = [k \in {"consts", "natives", "chunks"} |-> module[k]]
       /\ M!ReadSourceInfo(file) = Source
       /\ \A cut \in 0..Len(file) - 1 :
            M!ModuleReadFile(SubSeq(file, 1, cut)) = M!NotLoaded

(* Operands never eat the locals: between a frame's base and the top of    *)
(* the stack there is room for every slot of the frame (mvm_compiler.c:    *)
(* 327-337 tells of the underflow an earlier end_scope caused), and each   *)
(* frame keeps the slots of its callers.                                   *)
LocalsReserved ==
  status = "running" =>
    \A i \in 2..Len(frames) :
      LET f     == IF i = Len(frames) THEN F ELSE frames[i + 1]
          above == CASE i = Len(frames) -> Len(stack)
                     [] i < Len(frames) /\ f.fn_slot >= 0 -> f.fn_slot
                     [] OTHER -> f.base
      IN above >= frames[i].base + Chunk(frames[i]).locals

(* Every reference the machine holds.                                      *)
Held ==
  stack \o globals \o FlattenSeq([i \in 1..Len(frames) |-> CellRefs(frames[i])])
        \o FlattenSeq([o \in 1..Len(heap) |-> Owned(heap[o])])

(* Every value has as many references as value_copy and value_free say: no *)
(* copy is forgotten (a value freed while in use) and none is freed twice  *)
(* or never.  At the end of a run only cycles are left.                    *)
RefsCounted ==
  status \in {"running", "done"} =>
    /\ LET refs == Held
       IN \A o \in 1..Len(heap) :
            heap[o].rc = Cardinality({i \in 1..Len(refs) : IsRef(refs[i]) /\ refs[i].o = o})
    /\ \A i \in 1..Len(frames), k \in 1..255 :
         k <= Len(frames[i].upvalues) => heap[frames[i].upvalues[k]].k = "cell"

(* Locals, operands, cells and references stay accounted for whatever the  *)
(* instructions do to the stack.                                           *)
StackAccounted == LocalsReserved /\ RefsCounted

(* The run comes to an end: no jump of a loop skips the loop's step (the   *)
(* comment at mvm_compiler.c:43-49), no return misses its caller.          *)
Terminates == <>(status # "running")
=============================================================================
