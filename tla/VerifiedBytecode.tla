--------------------------- MODULE VerifiedBytecode ---------------------------
(***************************************************************************)
(* What the compiler owes the interpreter: code that can be verified,      *)
(* without running it, to fetch only operands that are there and locals    *)
(* that are written, on every path through every function.  The virtual    *)
(* machine has no verifier: it checks each operand when it fetches it, and *)
(* the native code checks none.                                            *)
(*                                                                         *)
(* A fact <<i, shape>> about a vector says that its element i is a value   *)
(* of that shape.  What is known of a program gives each function the      *)
(* facts about its captures, and those about its locals before each of its *)
(* instructions.                                                           *)
(***************************************************************************)
EXTENDS BytecodeInterpreter

AnyValue == <<"value">>
FunctionOf(count) == <<"function", count>>

ArgumentCount(value) == Len(TypeOfValue(value)[2])

Shapes(value) ==
  {AnyValue} \cup {FunctionOf(ArgumentCount(f)) : f \in {v \in {value} : v[1] \in {"closure", "primitive"}}}

IsSequence(s) == s \in Seq({s[i] : i \in DOMAIN s})

\* The opcodes of the interpreter, and how many operands they fetch at least.
SourceCount ==
  [return |-> 1, jump |-> 0, jumpIfFalse |-> 1, caseJump |-> 1, setDebugValue |-> 0,
   move |-> 1, allocaWithValue |-> 1, load |-> 1, store |-> 2,
   loadSymbolValueBinding |-> 1, slotAt |-> 2, slotReferenceAt |-> 2, slotAtPut |-> 3,
   downCastValue |-> 2, makeAssociation |-> 2, makeArray |-> 0, makeByteArray |-> 0,
   makeDictionary |-> 0, makeClosure |-> 1, call |-> 1, uncheckedCall |-> 1, send |-> 2]

Opcodes == DOMAIN SourceCount

LiteralAt(program, f, operand) == program[f].literals[operand[2]]

Knows(program, known, f, pc, operand, shape) ==
  \/ /\ operand[1] = "argument" /\ operand[2] \in 1 .. program[f].arguments
     /\ shape = AnyValue
  \/ operand[1] = "capture" /\ <<operand[2], shape>> \in known[f].capture
  \/ /\ operand[1] = "literal" /\ operand[2] \in DOMAIN program[f].literals
     /\ shape \in Shapes(LiteralAt(program, f, operand))
  \/ operand[1] = "local" /\ <<operand[2], shape>> \in known[f].local[pc]

(********************************* The flow ********************************)

Offsets(instruction) ==
  Len(instruction.operands) - OffsetCount(instruction) + 1 .. Len(instruction.operands)

Targets(instruction) ==
  {instruction.endPC + instruction.operands[i][2] : i \in Offsets(instruction)}

Successors(instruction) ==
  CASE instruction.opcode \in {"jump", "caseJump"} -> Targets(instruction)
    [] instruction.opcode = "jumpIfFalse" -> Targets(instruction) \cup {instruction.endPC}
    [] instruction.opcode \in Opcodes \ {"jump", "caseJump", "jumpIfFalse", "return"} ->
         {instruction.endPC}
    [] OTHER -> {}

\* The shapes of the result of an instruction.
Gives(program, known, f, pc, shape) ==
  LET instruction == program[f].instructions[pc]
      first == SourceOperands(instruction)[1]
  IN \/ shape = AnyValue
     \/ instruction.opcode = "move" /\ Knows(program, known, f, pc, first, shape)
     \/ /\ instruction.opcode = "makeClosure"
        /\ shape = FunctionOf(Len(LiteralAt(program, f, first)[3][2]))

\* What is known of the locals after an instruction.
KnowsAfter(program, known, f, pc, fact) ==
  LET instruction == program[f].instructions[pc]
      destination == instruction.operands[1]
  IN IF DestinationCount(instruction) = 1 /\ destination[1] = "local" /\ destination[2] = fact[1]
     THEN Gives(program, known, f, pc, fact[2])
     ELSE fact \in known[f].local[pc]

FlowVerified(program, known, f, pc) ==
  \A next \in Successors(program[f].instructions[pc]) :
    /\ next \in DOMAIN program[f].instructions
    /\ \A fact \in known[f].local[next] : KnowsAfter(program, known, f, pc, fact)

(****************************** The operands *******************************)

OperandsVerified(program, known, f, pc) ==
  LET instruction == program[f].instructions[pc]
      operands == instruction.operands
      sources == SourceOperands(instruction)
  IN /\ IsSequence(operands)
     /\ Len(operands) >= DestinationCount(instruction) + OffsetCount(instruction)
     /\ instruction.opcode \in Opcodes => Len(sources) >= SourceCount[instruction.opcode]
     /\ DestinationCount(instruction) = 1 =>
          \/ operands[1][1] = "missing"
          \/ operands[1][1] = "local" /\ operands[1][2] \in 1 .. program[f].locals
     /\ \A i \in DOMAIN sources : Knows(program, known, f, pc, sources[i], AnyValue)
     /\ \A i \in Offsets(instruction) : operands[i][1] = "offset"
     /\ instruction.opcode \in {"jump", "jumpIfFalse"} =>
          Len(sources) = SourceCount[instruction.opcode]
     /\ instruction.opcode = "caseJump" => Len(operands) = 2 * OffsetCount(instruction)

\* The operands of some opcodes are known to be more than values.
RolesVerified(program, known, f, pc) ==
  LET instruction == program[f].instructions[pc]
      sources == SourceOperands(instruction)
      literal == LiteralAt(program, f, sources[1])
  IN /\ instruction.opcode = "loadSymbolValueBinding" =>
          sources[1][1] = "literal" /\ literal[1] = "binding"
     /\ instruction.opcode = "makeClosure" =>
          /\ sources[1][1] = "literal" /\ literal[1] = "definition"
          /\ literal[2] \in DOMAIN program
          /\ program[literal[2]].arguments = Len(literal[3][2])
          /\ \A fact \in known[literal[2]].capture :
               /\ fact[1] \in 1 .. Len(sources) - 1
               /\ Knows(program, known, f, pc, sources[fact[1] + 1], fact[2])
     /\ instruction.opcode = "uncheckedCall" =>
          Knows(program, known, f, pc, sources[1], FunctionOf(Len(sources) - 1))

Verified(program, known) ==
  \A f \in DOMAIN program :
    /\ 0 \in DOMAIN program[f].instructions /\ known[f].local[0] = {}
    /\ program[f].arguments \in Nat
    /\ \A pc \in DOMAIN program[f].instructions :
         /\ OperandsVerified(program, known, f, pc)
         /\ RolesVerified(program, known, f, pc)
         /\ FlowVerified(program, known, f, pc)

(******************************* The values ********************************)

\* A vector has the elements its facts speak of, with their shapes.
Fits(values, vector, facts) ==
  \A fact \in facts :
    /\ fact[1] \in DOMAIN vector
    /\ vector[fact[1]] \in values
    /\ fact[2] \in Shapes(vector[fact[1]])

Primitives == DOMAIN PrimitiveArgumentCount \cup {"anyValueToVoid"}

\* A value refers to what there is in the world and to functions of the
\* program, and a closure has the captures of its function.
WellMade(values, program, known, w, value) ==
  /\ value # Unwritten
  /\ value[1] = "box" => value[2] \in DOMAIN w.boxes
  /\ value[1] = "object" => value[2] \in DOMAIN w.objects
  /\ value[1] = "binding" => value[2] \in values
  /\ value[1] = "primitive" => value[2] \in Primitives
  /\ value[1] = "closure" =>
       /\ value[2] \in DOMAIN program
       /\ program[value[2]].arguments = ArgumentCount(value)
       /\ Fits(values, value[3], known[value[2]].capture)

\* A set of well made values has what the program and the world hold.
ValuesFit(values, program, known, w) ==
  /\ \A value \in values : WellMade(values, program, known, w, value)
  /\ \A f \in DOMAIN program :
       \A i \in DOMAIN program[f].literals : program[f].literals[i] \in values
  /\ w = [boxes |-> w.boxes, objects |-> w.objects, answers |-> w.answers, sent |-> w.sent]
  /\ w.boxes \in Seq(values)
  /\ \A o \in DOMAIN w.objects : \A s \in DOMAIN w.objects[o] : w.objects[o][s] \in values

(***************************** The specification ***************************)

\* A program is started in a function that takes nothing.
Starts(known, values) ==
  /\ Verified(code, known)
  /\ ValuesFit(values, code, known, world)
  /\ Running
  /\ \E f \in DOMAIN code :
       /\ code[f].arguments = 0 /\ known[f].capture = {}
       /\ frames = <<ActivationRecord(f, <<>>, <<>>)>>

VerifiedSpec == (\E known, values : Starts(known, values)) /\ [][Step]_interpreterVars
=============================================================================
