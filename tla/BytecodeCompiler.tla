-------------------------- MODULE BytecodeCompiler --------------------------
(***************************************************************************)
(* The direct compiler from analyzed syntax trees to bytecode.             *)
(*                                                                         *)
(* A compiler c is a record: the instructions so far with the labels       *)
(* placed between them, the literals and temporaries of the function, the  *)
(* operand of each binding, the labels a break and a continue jump to.     *)
(* Compiling a node gives the compiler afterwards, c, and the operand that *)
(* holds the value of the node, r.                                         *)
(*                                                                         *)
(* An operand is <<vector, index>> for the vectors "argument", "capture",  *)
(* "literal" and "local", <<"label", n>>, or <<"missing">> for a result    *)
(* that nobody wants.                                                      *)
(***************************************************************************)
EXTENDS Syntax, Integers, SequencesExt

Missing == <<"missing">>

isLocalVectorOperand(operand) == operand[1] = "local"

(******************************* The assembler *****************************)

NewCompiler ==
  [instructions |-> <<>>, literals |-> <<>>, temporaryTypes |-> <<>>,
   bindings |-> <<>>, break |-> Missing, continue |-> Missing, labels |-> 0]

addInstruction(c, opcode, operands) ==
  [c EXCEPT !.instructions = Append(@, [opcode |-> opcode, operands |-> operands])]

createLabels(c, count) == [c EXCEPT !.labels = @ + count]

Place(c, label) == addInstruction(c, "label", <<label>>)

\* Equal literals share one element of the literal vector.
addLiteral(c, value) ==
  IF \E i \in DOMAIN c.literals : c.literals[i] = value
  THEN [c |-> c,
        r |-> <<"literal", CHOOSE i \in DOMAIN c.literals : c.literals[i] = value>>]
  ELSE [c |-> [c EXCEPT !.literals = Append(@, value)],
        r |-> <<"literal", Len(c.literals) + 1>>]

VoidResult(c) == addLiteral(c, Void)

\* An expression that never gives a value counts as one of type Void.
IsVoidType(type) == type \in {<<"Void">>, <<"Escape">>}

newTemporary(c, type) ==
  CASE IsVoidType(type)       -> addLiteral(c, Void)
    [] type = <<"Undefined">> -> addLiteral(c, Null)
    [] OTHER -> [c |-> [c EXCEPT !.temporaryTypes = Append(@, type)],
                 r |-> <<"local", Len(c.temporaryTypes) + 1>>]

move(c, destination, value) ==
  IF isLocalVectorOperand(destination)
  THEN addInstruction(c, "move", <<destination, value>>)
  ELSE c

jump(c, label) == addInstruction(c, "jump", <<label>>)

jumpIfFalse(c, condition, label) ==
  addInstruction(c, "jumpIfFalse", <<condition, label>>)

\* A new temporary with the result of an instruction.
Computed(c, type, opcode, operands) ==
  LET result == newTemporary(c, type)
  IN [c |-> addInstruction(result.c, opcode, <<result.r>> \o operands), r |-> result.r]

setBindingValue(c, binding, operand) ==
  [c EXCEPT !.bindings = Append(@, <<binding, operand>>)]

caseJump(c, value, keys, labels, default) ==
  addInstruction(c, "caseJump", <<value>> \o keys \o labels \o <<default>>)

(***************************** Names and literals **************************)

IsPointerLike(type) == type[1] = "Ref"

RECURSIVE getBindingValue(_, _)
getBindingValue(c, binding) ==
  CASE binding.kind = "tupleSlot" ->
         LET tuple == getBindingValue(c, binding.tuple)
             slot == addLiteral(tuple.c, <<"symbol", binding.slot>>)
         IN Computed(slot.c, binding.type,
                     IF IsPointerLike(binding.tuple.type) THEN "refSlotReferenceAt"
                                                          ELSE "slotReferenceAt",
                     <<tuple.r, slot.r>>)
    [] binding.kind = "value" ->
         LET literal == addLiteral(c, <<"binding", binding.value>>)
         IN Computed(literal.c, binding.type, "loadSymbolValueBinding", <<literal.r>>)
    [] OTHER -> [c |-> c,
                 r |-> c.bindings[SelectLastInSeq(c.bindings, LAMBDA b : b[1] = binding)][2]]

CompileLiteral(c, node) == addLiteral(c, node.value)

CompileIdentifier(c, node) == getBindingValue(c, node.binding)

getLiteralFunctionPrimitiveName(c, operand) ==
  IF operand[1] = "literal" /\ c.literals[operand[2]][1] = "primitive"
  THEN c.literals[operand[2]][2]
  ELSE "none"

(******************************** The nodes ********************************)

RECURSIVE Compile(_, _)

CompileAll(c, nodes) ==
  FoldLeft(LAMBDA done, node :
             LET one == Compile(done.c, node)
             IN [c |-> one.c, r |-> Append(done.r, one.r)],
           [c |-> c, r |-> <<>>], nodes)

\* Mutant: the labels of the loop around are not restored.
CompileWithBreakAndContinue_kept(c, node, break, continue) ==
  Compile([c EXCEPT !.break = break, !.continue = continue], node)

CompileWithBreakAndContinue(c, node, break, continue) ==
  LET body == Compile([c EXCEPT !.break = break, !.continue = continue], node)
  IN [body EXCEPT !.c.break = c.break, !.c.continue = c.continue]

CompileOr(c, node, value) ==
  IF node = None THEN addLiteral(c, value) ELSE Compile(c, node)

CompileSequence(c, node) ==
  IF node.expressions = <<>> THEN VoidResult(c)
  ELSE LET all == CompileAll(c, node.expressions) IN [c |-> all.c, r |-> Last(all.r)]

CompileBlock(c, node) == Compile(c, node.body)

\* Mutant: the value of the second branch is not moved to the result.
CompileIf_oneMove(c, node) ==
  LET falseLabel == <<"label", c.labels + 1>>
      mergeLabel == <<"label", c.labels + 2>>
      condition == Compile(createLabels(c, 2), node.condition)
      result == newTemporary(jumpIfFalse(condition.c, condition.r, falseLabel), node.type)
      true == CompileOr(result.c, node.true, Null)
      taken == jump(move(true.c, result.r, true.r), mergeLabel)
      false == CompileOr(Place(taken, falseLabel), node.false, Null)
  IN [c |-> Place(false.c, mergeLabel), r |-> result.r]

CompileIf(c, node) ==
  LET falseLabel == <<"label", c.labels + 1>>
      mergeLabel == <<"label", c.labels + 2>>
      condition == Compile(createLabels(c, 2), node.condition)
      result == newTemporary(jumpIfFalse(condition.c, condition.r, falseLabel), node.type)
      true == CompileOr(result.c, node.true, Null)
      taken == jump(move(true.c, result.r, true.r), mergeLabel)
      false == CompileOr(Place(taken, falseLabel), node.false, Null)
  IN [c |-> Place(move(false.c, result.r, false.r), mergeLabel), r |-> result.r]

CompileSwitch(c, node) ==
  LET count == Len(node.cases)
      labels == [i \in 1 .. count |-> <<"label", c.labels + i>>]
      defaultLabel == <<"label", c.labels + count + 1>>
      mergeLabel == <<"label", c.labels + count + 2>>
      value == Compile(createLabels(c, count + 2), node.expression)
      keys == CompileAll(value.c, [i \in 1 .. count |-> node.cases[i].key])
      result == newTemporary(caseJump(keys.c, value.r, keys.r, labels, defaultLabel), node.type)
      CompileCase(done, i) ==
        LET case == Compile(Place(done, labels[i]), node.cases[i].value)
        IN jump(move(case.c, result.r, case.r), mergeLabel)
      cases == FoldLeft(CompileCase, result.c, [i \in 1 .. count |-> i])
      default == CompileOr(Place(cases, defaultLabel), node.default, Null)
  IN [c |-> Place(move(default.c, result.r, default.r), mergeLabel), r |-> result.r]

\* Mutant: a continue goes to the condition, past what comes between.
CompileWhile_continueToEntry(c, node) ==
  LET entry == <<"label", c.labels + 1>>
      continue == <<"label", c.labels + 2>>
      merge == <<"label", c.labels + 3>>
      condition == Compile(Place(createLabels(c, 3), entry), node.condition)
      tested == jumpIfFalse(condition.c, condition.r, merge)
      once == CompileWithBreakAndContinue(tested, node.body, merge, entry)
      next == CompileOr(Place(once.c, continue), node.continue, Void)
  IN VoidResult(Place(jump(next.c, entry), merge))

\* Mutant: what comes between two runs of the body is left out.
CompileWhile_noContinue(c, node) ==
  LET entry == <<"label", c.labels + 1>>
      merge == <<"label", c.labels + 2>>
      condition == Compile(Place(createLabels(c, 2), entry), node.condition)
      tested == jumpIfFalse(condition.c, condition.r, merge)
      once == CompileWithBreakAndContinue(tested, node.body, merge, entry)
  IN VoidResult(Place(jump(once.c, entry), merge))

CompileWhile(c, node) ==
  LET entry == <<"label", c.labels + 1>>
      body == <<"label", c.labels + 2>>
      continue == <<"label", c.labels + 3>>
      merge == <<"label", c.labels + 4>>
      condition == Compile(Place(createLabels(c, 4), entry), node.condition)
      tested == jumpIfFalse(condition.c, condition.r, merge)
      once == CompileWithBreakAndContinue(Place(tested, body), node.body, merge, continue)
      next == CompileOr(Place(jump(once.c, continue), continue), node.continue, Void)
  IN VoidResult(Place(jump(next.c, entry), merge))

CompileDoWhile(c, node) ==
  LET entry == <<"label", c.labels + 1>>
      test == <<"label", c.labels + 2>>
      continue == <<"label", c.labels + 3>>
      merge == <<"label", c.labels + 4>>
      once == CompileWithBreakAndContinue(Place(createLabels(c, 4), entry),
                                          node.body, merge, test)
      condition == Compile(Place(jump(once.c, test), test), node.condition)
      tested == jumpIfFalse(condition.c, condition.r, merge)
      next == CompileOr(Place(tested, continue), node.continue, Void)
  IN VoidResult(Place(jump(next.c, entry), merge))

CompileBreak(c) == VoidResult(jump(c, c.break))

CompileContinue(c) == VoidResult(jump(c, c.continue))

CompileReturn(c, node) ==
  LET result == Compile(c, node.expression)
  IN [result EXCEPT !.c = addInstruction(@, "return", <<result.r>>)]

CompileVariableDefinition(c, node) ==
  LET value == CompileOr(c, node.value, Null)
      alloca == Computed(value.c, node.type, "allocaWithValue", <<value.r>>)
      variable == IF node.mutable THEN alloca ELSE value
      debugged == IF node.generated THEN variable.c
                  ELSE addInstruction(variable.c, "setDebugValue", <<variable.r>>)
  IN [c |-> setBindingValue(debugged, node.binding, variable.r), r |-> variable.r]

\* The captured operands are those the bindings have where the lambda stands.
CompileLambda(c, node) ==
  LET definition == addLiteral(c, <<"definition", node.name, node.type, Len(node.captures)>>)
      captures == FoldLeft(LAMBDA done, capture :
                             LET one == getBindingValue(done.c, capture.source)
                             IN [c |-> one.c, r |-> Append(done.r, one.r)],
                           [c |-> definition.c, r |-> <<>>], node.captures)
      closure == Computed(captures.c, node.type, "makeClosure", <<definition.r>> \o captures.r)
  IN IF node.binding = None THEN closure
     ELSE [closure EXCEPT !.c = setBindingValue(@, node.binding, closure.r)]

\* Calls and sends to nowhere when the type of the node is Void; nothing is
\* executed after one that never comes back.
Invocation(c, node, opcode, operands) ==
  LET result == newTemporary(c, node.type)
      destination == IF IsVoidType(node.type) THEN Missing ELSE result.r
      invoked == addInstruction(result.c, opcode, <<destination>> \o operands)
  IN [c |-> IF node.type = <<"Escape">> THEN addInstruction(invoked, "unreachable", <<>>)
                                        ELSE invoked,
      r |-> result.r]

CompileApplication(c, node) ==
  LET function == Compile(c, node.function)
      name == getLiteralFunctionPrimitiveName(function.c, function.r)
      arguments == CompileAll(function.c, node.arguments)
  IN CASE name = "anyValueToVoid" -> VoidResult(arguments.c)
       [] name = "load" -> Computed(arguments.c, node.type, "load", arguments.r)
       [] name = "store" -> [c |-> addInstruction(arguments.c, "store", arguments.r),
                             r |-> arguments.r[1]]
       [] OTHER -> Invocation(arguments.c, node,
                              IF node.checked THEN "call" ELSE "uncheckedCall",
                              <<function.r>> \o arguments.r)

CompileMessageSend(c, node) ==
  LET receiver == Compile(c, node.receiver)
      selector == addLiteral(receiver.c, <<"symbol", node.selector>>)
      arguments == CompileAll(selector.c, node.arguments)
  IN Invocation(arguments.c, node, "send", <<selector.r, receiver.r>> \o arguments.r)

CompileDownCast(c, node) ==
  LET type == Compile(c, node.target)
      value == Compile(type.c, node.value)
  IN Computed(value.c, node.type,
              IF node.unchecked THEN "uncheckedDownCastValue" ELSE "downCastValue",
              <<type.r, value.r>>)

CompileMakeAssociation(c, node) ==
  LET key == Compile(c, node.key)
      value == CompileOr(key.c, node.value, Null)
  IN Computed(value.c, node.type, "makeAssociation", <<key.r, value.r>>)

Elements(c, node, opcode) ==
  LET elements == CompileAll(c, node.elements)
  IN Computed(elements.c, node.type, opcode, elements.r)

CompileMakeArray(c, node) == Elements(c, node, "makeArray")

CompileMakeByteArray(c, node) == Elements(c, node, "makeByteArray")

CompileMakeDictionary(c, node) == Elements(c, node, "makeDictionary")

CompileSlotNamedAt(c, node) ==
  LET tuple == Compile(c, node.tuple)
      slot == addLiteral(tuple.c, <<"symbol", node.slot>>)
  IN Computed(slot.c, node.type,
              IF IsPointerLike(node.tuple.type) THEN "refSlotAt" ELSE "slotAt",
              <<tuple.r, slot.r>>)

CompileSlotReferenceAt(c, node) ==
  LET tuple == Compile(c, node.tuple)
      slot == addLiteral(tuple.c, <<"symbol", node.slot>>)
  IN Computed(slot.c, node.type,
              IF IsPointerLike(node.tuple.type) THEN "refSlotReferenceAt"
                                                ELSE "slotReferenceAt",
              <<tuple.r, slot.r>>)

CompileSlotNamedAtPut(c, node) ==
  LET tuple == Compile(c, node.tuple)
      slot == addLiteral(tuple.c, <<"symbol", node.slot>>)
      value == Compile(slot.c, node.value)
  IN VoidResult(addInstruction(value.c,
                  IF IsPointerLike(node.tuple.type) THEN "refSlotAtPut" ELSE "slotAtPut",
                  <<tuple.r, slot.r, value.r>>))

CompileUseNamedSlotsOf(c, node) ==
  LET tuple == Compile(c, node.tuple)
  IN VoidResult(setBindingValue(tuple.c, node.binding, tuple.r))

\* The compiler so far is looked at first: TLC would put it off otherwise.
Compile(c, node) ==
  CASE c.labels \in Nat /\ node.kind = "literal" -> CompileLiteral(c, node)
    [] node.kind = "identifier" -> CompileIdentifier(c, node)
    [] node.kind = "sequence" -> CompileSequence(c, node)
    [] node.kind = "block" -> CompileBlock(c, node)
    [] node.kind = "if" -> CompileIf(c, node)
    [] node.kind = "switch" -> CompileSwitch(c, node)
    [] node.kind = "while" -> CompileWhile(c, node)
    [] node.kind = "doWhile" -> CompileDoWhile(c, node)
    [] node.kind = "break" -> CompileBreak(c)
    [] node.kind = "continue" -> CompileContinue(c)
    [] node.kind = "return" -> CompileReturn(c, node)
    [] node.kind = "variable" -> CompileVariableDefinition(c, node)
    [] node.kind = "lambda" -> CompileLambda(c, node)
    [] node.kind = "application" -> CompileApplication(c, node)
    [] node.kind = "send" -> CompileMessageSend(c, node)
    [] node.kind = "downCast" -> CompileDownCast(c, node)
    [] node.kind = "association" -> CompileMakeAssociation(c, node)
    [] node.kind = "array" -> CompileMakeArray(c, node)
    [] node.kind = "byteArray" -> CompileMakeByteArray(c, node)
    [] node.kind = "dictionary" -> CompileMakeDictionary(c, node)
    [] node.kind = "slotAt" -> CompileSlotNamedAt(c, node)
    [] node.kind = "slotReferenceAt" -> CompileSlotReferenceAt(c, node)
    [] node.kind = "slotAtPut" -> CompileSlotNamedAtPut(c, node)
    [] node.kind = "useSlots" -> CompileUseNamedSlotsOf(c, node)

(****************************** Optimizations ******************************)

Jumps == {"jump", "jumpIfTrue", "jumpIfFalse"}

\* A jump to the label that comes right after it is removed.
IsUselessJump(code, i) ==
  /\ code[i].opcode \in Jumps
  /\ i < Len(code)
  /\ code[i + 1].opcode = "label"
  /\ code[i + 1].operands[1] = Last(code[i].operands)

optimizeJumps(code) ==
  LET kept == SelectSeq([i \in DOMAIN code |-> i], LAMBDA i : ~IsUselessJump(code, i))
  IN [k \in DOMAIN kept |-> code[kept[k]]]

HasDestination(opcode) ==
  opcode \in {"alloca", "move", "load", "loadSymbolValueBinding", "allocaWithValue",
    "coerceValue", "downCastValue", "uncheckedDownCastValue", "makeAssociation",
    "slotAt", "slotReferenceAt", "refSlotAt", "refSlotReferenceAt", "call",
    "uncheckedCall", "send",
    "makeArray", "makeByteArray", "makeClosure", "makeDictionary"}

\* The operands an instruction uses as the address of a load or a store, and
\* those it uses in any other way.
LoadStoreUsage(instruction) ==
  CASE instruction.opcode = "load"  -> {instruction.operands[2]}
    [] instruction.opcode = "store" -> {instruction.operands[1]}
    [] OTHER -> {}

NonLoadStoreUsage(instruction) ==
  LET first == IF HasDestination(instruction.opcode) \/ instruction.opcode = "store"
               THEN 2 ELSE 1
  IN IF instruction.opcode \in {"load", "label"} THEN {}
     ELSE {instruction.operands[i] : i \in first .. Len(instruction.operands)}

OnlyUsedAsAddress(code, operand) ==
  /\ \E i \in DOMAIN code : operand \in LoadStoreUsage(code[i])
  /\ \A i \in DOMAIN code : operand \notin NonLoadStoreUsage(code[i])

OnlyResultOf(code, operand, opcodes) ==
  LET Defines(i) == HasDestination(code[i].opcode) /\ code[i].operands[1] = operand
  IN /\ \E i \in DOMAIN code : Defines(i)
     /\ \A i \in DOMAIN code : Defines(i) => code[i].opcode \in opcodes

isLocalOnlyAlloca(code, operand) ==
  /\ OnlyResultOf(code, operand, {"alloca", "allocaWithValue"})
  /\ OnlyUsedAsAddress(code, operand)

isLocalOnlyReferenceAt(code, operand) ==
  /\ OnlyResultOf(code, operand, {"slotReferenceAt"})
  /\ OnlyUsedAsAddress(code, operand)

\* The tuple and the slot of the reference that an operand holds.
Referent(code, operand) ==
  LET i == CHOOSE i \in DOMAIN code : code[i].opcode = "slotReferenceAt"
                                      /\ code[i].operands[1] = operand
  IN Tail(code[i].operands)

Removed == [opcode |-> "nop", operands |-> <<>>]

\* A variable whose box is only read and written here becomes a temporary; a
\* reference to a slot that is only read and written here is not made.
optimizeLocalOnlyAllocaAndSlotReferences(code, instruction) ==
  LET opcode == instruction.opcode
      operands == instruction.operands
      With(o, s) == [opcode |-> o, operands |-> s]
  IN CASE opcode = "allocaWithValue" /\ isLocalOnlyAlloca(code, operands[1]) ->
            With("move", operands)
       [] opcode = "slotReferenceAt" /\ isLocalOnlyReferenceAt(code, operands[1]) -> Removed
       [] opcode = "load" /\ isLocalOnlyAlloca(code, operands[2]) -> With("move", operands)
       [] opcode = "load" /\ isLocalOnlyReferenceAt(code, operands[2]) ->
            With("slotAt", <<operands[1]>> \o Referent(code, operands[2]))
       [] opcode = "store" /\ isLocalOnlyAlloca(code, operands[1]) -> With("move", operands)
       [] opcode = "store" /\ isLocalOnlyReferenceAt(code, operands[1]) ->
            With("slotAtPut", Append(Referent(code, operands[1]), operands[2]))
       [] OTHER -> instruction

optimizeTemporaries(code) ==
  SelectSeq([i \in DOMAIN code |-> optimizeLocalOnlyAllocaAndSlotReferences(code, code[i])],
            LAMBDA instruction : instruction # Removed)

(******************************** Assembling *******************************)

computeAssembledSize(instruction) ==
  IF instruction.opcode = "label" THEN 0 ELSE 1 + 2 * Len(instruction.operands)

\* Where each instruction starts; the last position is where the code ends.
Positions(code) ==
  LET start[i \in 1 .. Len(code) + 1] ==
        IF i = 1 THEN 0 ELSE start[i - 1] + computeAssembledSize(code[i - 1])
  IN [i \in 1 .. Len(code) + 1 |-> start[i]]

\* Mutant: the distance is counted from the start of the instruction.
AssembledOperand_fromStart(code, positions, i, operand) ==
  IF operand[1] # "label" THEN operand
  ELSE LET place == CHOOSE k \in DOMAIN code :
                      code[k] = [opcode |-> "label", operands |-> <<operand>>]
       IN <<"offset", positions[place] - positions[i]>>

\* A label becomes the distance to it from the end of the instruction.
AssembledOperand(code, positions, i, operand) ==
  IF operand[1] # "label" THEN operand
  ELSE LET place == CHOOSE k \in DOMAIN code :
                      code[k] = [opcode |-> "label", operands |-> <<operand>>]
       IN <<"offset", positions[place] - positions[i + 1]>>

assembleInto(code, positions, i) ==
  LET operands == code[i].operands
  IN [opcode |-> code[i].opcode, endPC |-> positions[i + 1],
      operands |-> [k \in DOMAIN operands |->
                      AssembledOperand(code, positions, i, operands[k])]]

assemble(code, positions) ==
  LET places == {i \in DOMAIN code : code[i].opcode # "label"}
  IN [pc \in {positions[i] : i \in places} |->
        assembleInto(code, positions, CHOOSE i \in places : positions[i] = pc)]

Assembled(c, code, definition) ==
  LET positions == Positions(code)
  IN [instructions |-> assemble(code, positions), size |-> Last(positions),
      literals |-> c.literals, locals |-> Len(c.temporaryTypes),
      arguments |-> Len(definition.arguments)]

Optimized(code) == optimizeTemporaries(optimizeJumps(code))

FinishFunction(c, result, definition) ==
  Assembled(c, Optimized(addInstruction(c, "return", <<result>>).instructions), definition)

compileFunctionDefinition(definition) ==
  LET Bound(c, bindings, vector) ==
        FoldLeft(LAMBDA done, i : setBindingValue(done, bindings[i], <<vector, i>>),
                 c, [i \in 1 .. Len(bindings) |-> i])
      start == Bound(Bound(NewCompiler, definition.arguments, "argument"),
                     definition.captures, "capture")
      body == Compile(start, definition.body)
  IN FinishFunction(body.c, body.r, definition)
=============================================================================
