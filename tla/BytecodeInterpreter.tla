------------------------- MODULE BytecodeInterpreter -------------------------
(***************************************************************************)
(* The interpreter of bytecode, one instruction a step.  frames holds the  *)
(* activation records of the calls in progress, the innermost last; the    *)
(* record of a function that called stays at its call instruction, and     *)
(* goes on when the function it called returns.                            *)
(***************************************************************************)
EXTENDS Memory, Integers, SequencesExt

VARIABLES
  code,     \* the functions of the program: their instructions and sizes
  frames,   \* the activation records
  world,    \* the memory the program reads and writes, the messages it sent
  outcome   \* what became of the program: running, value or error

interpreterVars == <<code, frames, world, outcome>>

\* A local that no instruction has written.
Unwritten == <<"unwritten">>

ActivationRecord(function, arguments, captures) ==
  [function |-> function, pc |-> 0, arguments |-> arguments, captures |-> captures,
   locals |-> [i \in 1 .. code[function].locals |-> Unwritten]]

Running == outcome = <<"running">>

Top == frames[Len(frames)]

BytecodeOf(frame) == code[frame.function]

Instruction == BytecodeOf(Top).instructions[Top.pc]

\* The source operands of an instruction come after its destination, and the
\* offsets of a jump come last.
DestinationCount(instruction) ==
  IF instruction.opcode \in {"allocaWithValue", "load", "loadSymbolValueBinding", "move",
       "slotAt", "slotReferenceAt", "downCastValue", "makeAssociation", "makeArray",
       "makeByteArray", "makeDictionary", "makeClosure", "call", "uncheckedCall", "send"}
  THEN 1 ELSE 0

OffsetCount(instruction) ==
  CASE instruction.opcode \in {"jump", "jumpIfFalse"} -> 1
    [] instruction.opcode = "caseJump" -> Len(instruction.operands) \div 2
    [] OTHER -> 0

SourceOperands(instruction) ==
  SubSeq(instruction.operands, DestinationCount(instruction) + 1,
         Len(instruction.operands) - OffsetCount(instruction))

VectorOf(frame, operand) ==
  CASE operand[1] = "argument" -> frame.arguments
    [] operand[1] = "capture"  -> frame.captures
    [] operand[1] = "literal"  -> BytecodeOf(frame).literals
    [] operand[1] = "local"    -> frame.locals

Fetch(operand) == VectorOf(Top, operand)[operand[2]]

Sources == [i \in DOMAIN SourceOperands(Instruction) |-> Fetch(SourceOperands(Instruction)[i])]

Opcode(opcodes) == Running /\ Instruction.opcode \in opcodes

(************************** The end of a step ******************************)

RaiseError == outcome' = <<"error">> /\ UNCHANGED <<code, frames, world>>

GoTo(frame, pc) ==
  /\ frames' = Append(Front(frames), [frame EXCEPT !.pc = pc])
  /\ UNCHANGED <<code, outcome>>

\* A value goes to a destination in the local vector or, without one, nowhere.
WithDestination(frame, value) ==
  LET instruction == BytecodeOf(frame).instructions[frame.pc]
      destination == instruction.operands[1]
  IN IF DestinationCount(instruction) = 1 /\ destination[1] = "local"
     THEN [frame EXCEPT !.locals[destination[2]] = value, !.pc = instruction.endPC]
     ELSE [frame EXCEPT !.pc = instruction.endPC]

ValidDestination ==
  DestinationCount(Instruction) = 1 => Instruction.operands[1][1] \in {"local", "missing"}

Perform(done) ==
  IF ValidDestination /\ done.out = "value"
  THEN /\ frames' = Append(Front(frames), WithDestination(Top, done.value))
       /\ world' = done.world
       /\ UNCHANGED <<code, outcome>>
  ELSE RaiseError

Compute(value) == Perform(Done(world, value))

(****************************** Control flow *******************************)

InterpretSetDebugValue == Opcode({"setDebugValue"}) /\ Compute(Void)

InterpretJump ==
  /\ Opcode({"jump"})
  /\ GoTo(Top, Instruction.endPC + Instruction.operands[1][2])
  /\ UNCHANGED world

InterpretJumpIfFalse ==
  /\ Opcode({"jumpIfFalse"})
  /\ GoTo(Top, IF Sources[1] = Boolean(TRUE) THEN Instruction.endPC
                   ELSE Instruction.endPC + Instruction.operands[2][2])
  /\ UNCHANGED world

\* The first case whose key is equal, or the default after the last case.
InterpretCaseJump ==
  LET count == Len(Sources) - 1
      Equal(i) == Sources[i + 1] = Sources[1]
      case == SelectInSeq([i \in 1 .. count |-> i], Equal)
      taken == IF case = 0 THEN Last(Instruction.operands)
               ELSE Instruction.operands[1 + count + case]
  IN /\ Opcode({"caseJump"})
     /\ GoTo(Top, Instruction.endPC + taken[2])
     /\ UNCHANGED world

\* The caller gets the value and goes on after its call.
InterpretReturn ==
  /\ Opcode({"return"})
  /\ IF Len(frames) = 1
     THEN outcome' = <<"value", Sources[1]>> /\ frames' = <<>>
     ELSE /\ frames' = LET callers == Front(frames)
                       IN Append(Front(callers), WithDestination(Last(callers), Sources[1]))
          /\ UNCHANGED outcome
  /\ UNCHANGED <<code, world>>

(********************************* Memory **********************************)

InterpretMove == Opcode({"move"}) /\ Compute(Sources[1])

InterpretAlloca ==
  Opcode({"allocaWithValue"}) /\ Perform(withBoxForValue(world, Sources[1]))

InterpretLoad == Opcode({"load"}) /\ Perform(pointerLikeType_load(world, Sources[1]))

InterpretStore ==
  Opcode({"store"}) /\ Perform(pointerLikeType_store(world, Sources[1], Sources[2]))

InterpretLoadBinding == Opcode({"loadSymbolValueBinding"}) /\ Compute(Sources[1][2])

InterpretSlotAt ==
  Opcode({"slotAt"}) /\ Perform(SlotAt(world, Sources[1], Sources[2][2]))

InterpretSlotReferenceAt ==
  Opcode({"slotReferenceAt"}) /\ Compute(withTupleAndTypeSlot(Sources[1], Sources[2][2]))

InterpretSlotAtPut ==
  Opcode({"slotAtPut"}) /\ Perform(SlotAtPut(world, Sources[1], Sources[2][2], Sources[3]))

(************************** Casts and collections **************************)

InterpretDownCast ==
  /\ Opcode({"downCastValue"})
  /\ Perform(IF tuple_typecheckValue(Sources[2], Sources[1][2])
             THEN Done(world, Sources[2]) ELSE Failed(world))

InterpretMakeAssociation ==
  Opcode({"makeAssociation"}) /\ Compute(<<"assoc", Sources[1], Sources[2]>>)

InterpretMakeArray == Opcode({"makeArray"}) /\ Compute(<<"array", Sources>>)

InterpretMakeByteArray ==
  Opcode({"makeByteArray"}) /\ Compute(<<"bytes", [i \in DOMAIN Sources |-> Sources[i][2]]>>)

InterpretMakeDictionary == Opcode({"makeDictionary"}) /\ Compute(DictionaryOf(Sources))

InterpretMakeClosure ==
  /\ Opcode({"makeClosure"})
  /\ Compute(<<"closure", Sources[1][2], Tail(Sources), Sources[1][3]>>)

(**************************** Calls and messages ***************************)

\* An unchecked call takes its arguments as they are.
CallArguments ==
  IF Instruction.opcode = "call"
  THEN CoerceAll(world, Tail(Sources), TypeOfValue(Sources[1])[2])
  ELSE Done(world, Tail(Sources))

InterpretPrimitiveCall ==
  /\ Opcode({"call", "uncheckedCall"})
  /\ Sources[1][1] = "primitive"
  /\ Perform(IF CallArguments.out = "value"
             THEN ApplyPrimitive(CallArguments.world, Sources[1][2], CallArguments.value)
             ELSE CallArguments)

\* A closure is activated in a record of its own.
InterpretClosureCall ==
  /\ Opcode({"call", "uncheckedCall"})
  /\ Sources[1][1] = "closure"
  /\ IF ValidDestination /\ CallArguments.out = "value"
     THEN /\ frames' = Append(frames, ActivationRecord(Sources[1][2], CallArguments.value,
                                                       Sources[1][3]))
          /\ UNCHANGED <<code, world, outcome>>
     ELSE RaiseError

InterpretSend ==
  /\ Opcode({"send"})
  /\ Perform(Send(world, Sources[2], Sources[1][2], SubSeq(Sources, 3, Len(Sources))))

Step ==
  \/ InterpretSetDebugValue \/ InterpretJump \/ InterpretJumpIfFalse \/ InterpretCaseJump
  \/ InterpretReturn \/ InterpretMove \/ InterpretAlloca \/ InterpretLoad \/ InterpretStore
  \/ InterpretLoadBinding \/ InterpretSlotAt \/ InterpretSlotReferenceAt
  \/ InterpretSlotAtPut \/ InterpretDownCast \/ InterpretMakeAssociation
  \/ InterpretMakeArray \/ InterpretMakeByteArray \/ InterpretMakeDictionary
  \/ InterpretMakeClosure \/ InterpretPrimitiveCall \/ InterpretClosureCall
  \/ InterpretSend

(******************************** Properties *******************************)

\* The program counter is at an instruction of its function, and every operand
\* of it is within the vector it names (the checks of bytecode.c:194-291).
OperandsExist ==
  \A f \in DOMAIN frames :
    LET frame == frames[f]
        instructions == BytecodeOf(frame).instructions
        operands == instructions[frame.pc].operands
    IN /\ frame.pc \in DOMAIN instructions
       /\ \A i \in DOMAIN operands :
            operands[i][1] \in {"argument", "capture", "literal", "local"}
              => operands[i][2] \in DOMAIN VectorOf(frame, operands[i])

\* No instruction reads a local before an instruction has written it: the
\* compiler gives a value to every temporary on every way to its uses.
WrittenBeforeRead ==
  Running => \A i \in DOMAIN Sources : Sources[i] # Unwritten
=============================================================================
