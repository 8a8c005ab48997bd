---------------------------- MODULE NativeCompiler ----------------------------
(***************************************************************************)
(* The just in time compiler: a function of bytecode becomes a sequence of *)
(* machine instructions.  An instruction is an operation with the places   *)
(* it writes and reads; of its encoding only the size counts, for the      *)
(* displacements of jumps.  Places are a register, a field of the stack    *)
(* record of the function, one of its locals, an element of the vector     *)
(* where it puts the arguments of a call, a word at some distance in the   *)
(* object a register points to, and a value in the instruction.            *)
(***************************************************************************)
EXTENDS Syntax, Integers, SequencesExt

RAX == <<"register", "RAX">>
ARG(k) == <<"register", <<"ARG0", "ARG1", "ARG2", "ARG3", "ARG4", "ARG5">>[k + 1]>>
Field(name) == <<"field", name>>
Local(i) == <<"local", i>>
CallArgument(i) == <<"callArgument", i>>
In(register, distance) == <<"in", register[2], distance>>
Immediate(value) == <<"immediate", value>>
Address(value) == <<"address", value>>

WordSize == 8
HeaderSize == 16
CaptureVectorOffset == 40

(******************************* Instructions ******************************)

Instruct(op, to, from) == [op |-> op, to |-> to, from |-> from]

Mov(to, from) == Instruct("mov", to, from)
Xor(register) == Instruct("xor", register, register)
\* The address of the stack record, or of its vector of call arguments.
Lea(register, place) == Instruct("lea", register, Immediate(place))
\* The address of a called function is a constant of its own, after the code.
CallTo(function) == Instruct("call", RAX, Immediate(function))
JumpTo(op, pc) == Instruct(op, RAX, Immediate(pc))

MovSize(to, from) ==
  CASE from[1] = "address"                     -> 10
    [] to[1] = "register" /\ from[1] = "register" -> 3
    [] from[1] = "in" /\ from[3] = 0           -> 3
    [] to[1] # "register" /\ from[1] = "immediate" -> 11
    [] OTHER                                   -> 7

SizeOf(instruction) ==
  CASE instruction.op = "mov" -> MovSize(instruction.to, instruction.from)
    [] instruction.op \in {"mov8", "lea"} -> 7
    [] instruction.op \in {"call", "cmp", "jne"} -> 6
    [] instruction.op = "jmp" -> 5
    [] instruction.op \in {"shift", "leave", "endbr64"} -> 4
    [] instruction.op = "xor" -> 3
    [] instruction.op = "test" -> 2
    [] instruction.op = "ret" -> 1
    [] instruction.op = "enter" -> 11

(********************************* Operands ********************************)

\* The arguments of a function are a plain vector, its captures and literals
\* are elements of an object, after its header.
moveOperandToRegister(register, operand) ==
  CASE operand[1] = "missing" -> <<Xor(register)>>
    [] operand[1] = "local"   -> <<Mov(register, Local(operand[2]))>>
    [] operand[1] = "argument" ->
         <<Mov(register, Field("argument")),
           Mov(register, In(register, (operand[2] - 1) * WordSize))>>
    [] OTHER ->
         <<Mov(register, Field(operand[1])),
           Mov(register, In(register, HeaderSize + (operand[2] - 1) * WordSize))>>

moveRegisterToOperand(operand, register) ==
  IF operand[1] = "missing" THEN <<>> ELSE <<Mov(Local(operand[2]), register)>>

moveOperandToCallArgumentVector(operand, i) ==
  IF operand[1] = "missing" THEN <<Mov(CallArgument(i), Immediate(Null))>>
  ELSE moveOperandToRegister(RAX, operand) \o <<Mov(CallArgument(i), RAX)>>

MoveCallArguments(operands) ==
  FlattenSeq([i \in DOMAIN operands |-> moveOperandToCallArgumentVector(operands[i], i)])

moveOperandToOperand(destination, source) ==
  IF destination[1] = "missing" THEN <<>>
  ELSE moveOperandToRegister(RAX, source) \o moveRegisterToOperand(destination, RAX)

jitLoadContextInRegister(register) == <<Mov(register, Field("context"))>>

(********************************** Calls **********************************)

callWithContextNoResult(function, operands) ==
  jitLoadContextInRegister(ARG(0))
  \o FlattenSeq([i \in DOMAIN operands |-> moveOperandToRegister(ARG(i), operands[i])])
  \o <<CallTo(function)>>

callWithContext(function, result, operands) ==
  callWithContextNoResult(function, operands) \o moveRegisterToOperand(result, RAX)

\* The context, the function, and the vector of its arguments with their number.
ApplyRegisters(function, count) ==
  jitLoadContextInRegister(ARG(0)) \o moveOperandToRegister(ARG(1), function)
  \o <<Mov(ARG(2), Immediate(count)), Lea(ARG(3), "arguments")>>

functionApplyVia(result, function, operands, typecheck, target) ==
  MoveCallArguments(operands) \o ApplyRegisters(function, Len(operands))
  \o <<Mov(ARG(4), Immediate(typecheck)), CallTo(target)>>
  \o moveRegisterToOperand(result, RAX)

functionApplyDirectVia(result, function, operands, target) ==
  MoveCallArguments(operands) \o ApplyRegisters(function, Len(operands))
  \o <<CallTo(target)>> \o moveRegisterToOperand(result, RAX)

\* A primitive has no stack record that tells the collector of its arguments:
\* the one of the caller does for as long as the call lasts.
functionApplyDirectWithArgumentsRecord(result, function, operands, target) ==
  MoveCallArguments(operands)
  \o <<Mov(Field("callArgumentVectorSize"), Immediate(Len(operands)))>>
  \o ApplyRegisters(function, Len(operands)) \o <<CallTo(target)>>
  \o moveRegisterToOperand(result, RAX)
  \o <<Mov(Field("callArgumentVectorSize"), Immediate(0))>>

\* An unchecked call of a function that is known goes directly to its code.
functionApply(literals, result, function, operands, typecheck) ==
  LET known == IF function[1] = "literal" THEN literals[function[2]] ELSE Null
  IN IF ~typecheck /\ known[1] = "primitive"
     THEN functionApplyDirectWithArgumentsRecord(result, function, operands,
                                                 <<"primitive", known[2]>>)
     ELSE IF ~typecheck /\ known[1] = "closure"
     THEN functionApplyDirectVia(result, function, operands, <<"entry", known[2]>>)
     ELSE functionApplyVia(result, function, operands, typecheck, <<"apply">>)

jit_send(result, selector, receiverAndArguments) ==
  MoveCallArguments(receiverAndArguments) \o jitLoadContextInRegister(ARG(0))
  \o <<Mov(ARG(1), Address("inline cache"))>> \o moveOperandToRegister(ARG(2), selector)
  \o <<Mov(ARG(3), Immediate(Len(receiverAndArguments) - 1)), Lea(ARG(4), "arguments"),
       Mov(ARG(5), Immediate(TRUE)), CallTo(<<"send">>)>>
  \o moveRegisterToOperand(result, RAX)

(******************************* Collections *******************************)

makeArray(result, operands) ==
  IF result[1] = "missing" THEN <<>>
  ELSE jitLoadContextInRegister(ARG(0))
       \o <<Mov(ARG(1), Immediate(Len(operands))), CallTo(<<"array_create">>)>>
       \o FlattenSeq([i \in DOMAIN operands |->
            Append(moveOperandToRegister(ARG(2), operands[i]),
                   Mov(In(RAX, HeaderSize + (i - 1) * WordSize), ARG(2)))])
       \o moveRegisterToOperand(result, RAX)

makeByteArray(result, operands) ==
  IF result[1] = "missing" THEN <<>>
  ELSE jitLoadContextInRegister(ARG(0))
       \o <<Mov(ARG(1), Immediate(Len(operands))), CallTo(<<"byteArray_create">>)>>
       \o FlattenSeq([i \in DOMAIN operands |->
            moveOperandToRegister(ARG(2), operands[i])
            \o <<Instruct("shift", ARG(2), ARG(2)),
                 Instruct("mov8", In(RAX, HeaderSize + i - 1), ARG(2))>>])
       \o moveRegisterToOperand(result, RAX)

makeDictionary(result, operands) ==
  IF result[1] = "missing" THEN <<>>
  ELSE jitLoadContextInRegister(ARG(0))
       \o <<Mov(ARG(1), Immediate(Len(operands))), CallTo(<<"dictionary_createWithCapacity">>)>>
       \o moveRegisterToOperand(result, RAX)
       \o FlattenSeq([i \in DOMAIN operands |->
            callWithContextNoResult(<<"dictionary_add">>, <<result, operands[i]>>)])

\* Mutant: the vector of captures is kept where the elements pass.
makeClosureWithCaptures_vectorInARG1(result, definition, operands) ==
  IF result[1] = "missing" THEN <<>>
  ELSE callWithContextNoResult(<<"sequenceTuple_createForFunctionDefinition">>, <<definition>>)
       \o <<Mov(ARG(2), RAX)>>
       \o FlattenSeq([i \in DOMAIN operands |->
            Append(moveOperandToRegister(ARG(2), operands[i]),
                   Mov(In(RAX, HeaderSize + (i - 1) * WordSize), ARG(2)))])
       \o callWithContext(<<"function_createClosureWithCaptureVector">>, result, <<definition>>)

\* The vector of captures waits in the register of the argument it becomes.
makeClosureWithCaptures(result, definition, operands) ==
  IF result[1] = "missing" THEN <<>>
  ELSE callWithContextNoResult(<<"sequenceTuple_createForFunctionDefinition">>, <<definition>>)
       \o <<Mov(ARG(2), RAX)>>
       \o FlattenSeq([i \in DOMAIN operands |->
            Append(moveOperandToRegister(ARG(1), operands[i]),
                   Mov(In(ARG(2), HeaderSize + (i - 1) * WordSize), ARG(1)))])
       \o callWithContext(<<"function_createClosureWithCaptureVector">>, result, <<definition>>)

(****************************** Control flow *******************************)

\* A jump back is where the collector may run.
Safepoint(offset) ==
  IF offset < 0 THEN callWithContextNoResult(<<"gc_safepoint">>, <<>>) ELSE <<>>

jumpRelative(pc) == <<JumpTo("jmp", pc)>>

jumpRelativeIfFalse(condition, pc) ==
  moveOperandToRegister(RAX, condition)
  \o <<Instruct("cmp", RAX, Immediate(Boolean(TRUE))), JumpTo("jne", pc)>>

\* The labels follow the keys, the label of no case comes last.
jit_caseJump(value, keys, labels, pc) ==
  FlattenSeq([i \in DOMAIN keys |->
    callWithContextNoResult(<<"tuple_equals">>, <<value, keys[i]>>)
    \o <<Instruct("test", RAX, RAX), JumpTo("jne", pc + labels[i][2])>>])
  \o jumpRelative(pc + Last(labels)[2])

\* The fields of the stack record come from the arguments of the function, the
\* locals start as null, and the record joins the chain of the collector.
prologue(function) ==
  <<Instruct("endbr64", RAX, RAX), Instruct("enter", RAX, Immediate(function.locals)),
    Mov(Field("previous"), Immediate(0)), Mov(Field("type"), Immediate("jit activation")),
    Mov(Field("pc"), Immediate(0)), Mov(Field("context"), ARG(0)),
    Mov(RAX, Address(<<"root", function.literals>>)), Mov(RAX, In(RAX, 0)),
    Mov(Field("literal"), RAX),
    Mov(RAX, In(ARG(1), CaptureVectorOffset)), Mov(Field("capture"), RAX),
    Mov(Field("function"), ARG(1)), Mov(Field("argumentCount"), ARG(2)),
    Mov(Field("callArgumentVectorSize"), Immediate(0)), Mov(Field("argument"), ARG(3)),
    Mov(Field("inlineLocalVectorSize"), Immediate(function.locals))>>
  \o (IF function.locals = 0 THEN <<>> ELSE <<Xor(RAX)>>)
  \o [i \in 1 .. function.locals |-> Mov(Local(i), RAX)]
  \o <<Lea(ARG(0), "record"), CallTo(<<"stackFrame_pushRecord">>)>>

epilogue == <<Instruct("leave", RAX, RAX), Instruct("ret", RAX, RAX)>>

\* Mutant: the record stays in the chain.
jit_return_keepsRecord(operand) == moveOperandToRegister(RAX, operand) \o epilogue

jit_return(operand) ==
  <<Lea(ARG(0), "record"), CallTo(<<"stackFrame_popRecord">>)>>
  \o moveOperandToRegister(RAX, operand) \o epilogue

storePC(pc) == <<Mov(Field("pc"), Immediate(pc))>>

(******************************** Functions ********************************)

\* The opcodes that call a function with their operands.
CalledFunction ==
  [allocaWithValue |-> "pointerLikeType_withBoxForValue", load |-> "pointerLikeType_load",
   loadSymbolValueBinding |-> "symbolValueBinding_getValue", slotAt |-> "slotAt",
   slotReferenceAt |-> "slotReferenceAt", downCastValue |-> "type_downCastValue",
   makeAssociation |-> "association_create"]

Translated(function, pc) ==
  LET instruction == function.instructions[pc]
      opcode == instruction.opcode
      o == instruction.operands
      end == instruction.endPC
  IN CASE opcode = "return" -> jit_return(o[1])
       [] opcode = "jump" -> Safepoint(o[1][2]) \o jumpRelative(end + o[1][2])
       [] opcode = "jumpIfFalse" ->
            Safepoint(o[2][2]) \o jumpRelativeIfFalse(o[1], end + o[2][2])
       [] opcode = "caseJump" ->
            LET cases == (Len(o) - 2) \div 2
            IN jit_caseJump(o[1], SubSeq(o, 2, 1 + cases), SubSeq(o, 2 + cases, Len(o)), end)
       [] opcode = "move" -> moveOperandToOperand(o[1], o[2])
       [] opcode = "store" -> callWithContextNoResult(<<"pointerLikeType_store">>, o)
       [] opcode = "slotAtPut" -> callWithContextNoResult(<<"slotAtPut">>, o)
       [] opcode \in DOMAIN CalledFunction ->
            callWithContext(<<CalledFunction[opcode]>>, o[1], Tail(o))
       [] opcode \in {"call", "uncheckedCall"} ->
            functionApply(function.literals, o[1], o[2], SubSeq(o, 3, Len(o)), opcode = "call")
       [] opcode = "send" -> jit_send(o[1], o[2], SubSeq(o, 3, Len(o)))
       [] opcode = "makeArray" -> makeArray(o[1], Tail(o))
       [] opcode = "makeByteArray" -> makeByteArray(o[1], Tail(o))
       [] opcode = "makeDictionary" -> makeDictionary(o[1], Tail(o))
       [] opcode = "makeClosure" ->
            makeClosureWithCaptures(o[1], o[2], SubSeq(o, 3, Len(o)))
       [] opcode = "setDebugValue" -> <<>>

(********************************** Layout *********************************)

\* The code so far: its size, its instructions with the places where they start
\* and end, and where the code of each instruction of the bytecode starts.
NoCode == [pc |-> 0, size |-> 0, placed |-> <<>>, destinations |-> <<>>]

Emit(code, instruction) ==
  LET end == code.size + SizeOf(instruction)
  IN [code EXCEPT !.size = end,
        !.placed = Append(@, [at |-> code.size, end |-> end, instruction |-> instruction])]

\* The destination of an instruction that was not met stays -1.
DestinationOf(destinations, pc) == IF pc \in DOMAIN destinations THEN destinations[pc] ELSE -1

\* The displacement of a jump is counted from its end, four bytes after the
\* place of the displacement.
Displacement(placed, destinations) ==
  LET offset == placed.end - 4
      addend == -4
  IN DestinationOf(destinations, placed.instruction.from[2]) - offset + addend

Finished(placed, destinations) ==
  [op |-> placed.instruction.op, to |-> placed.instruction.to, end |-> placed.end,
   from |-> IF placed.instruction.op \in {"jmp", "jne"}
            THEN Immediate(Displacement(placed, destinations)) ELSE placed.instruction.from]

\* The instructions by their addresses, and the instruction of the bytecode that
\* starts at an address.
finish(code) ==
  LET Pairs == {<<p.at, Finished(p, code.destinations)>> : p \in Range(code.placed)}
      pcs == DOMAIN code.destinations
  IN [code |-> [a \in {pair[1] : pair \in Pairs} |->
                  (CHOOSE pair \in Pairs : pair[1] = a)[2]],
      pcAt |-> [a \in {code.destinations[pc] : pc \in pcs} |->
                  CHOOSE pc \in pcs : code.destinations[pc] = a]]

\* Each instruction of the bytecode adds its code.
RECURSIVE TranslateFrom(_, _)
TranslateFrom(function, code) ==
  IF code.pc = function.size THEN finish(code)
  ELSE LET reached == [code EXCEPT !.pc = function.instructions[@].endPC,
                                   !.destinations = (code.pc :> code.size) @@ @]
       IN TranslateFrom(function,
            FoldLeft(Emit, reached, storePC(code.pc) \o Translated(function, code.pc)))

jit(function) ==
  TranslateFrom(function, FoldLeft(Emit, NoCode, prologue(function)))
=============================================================================
