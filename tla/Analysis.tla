------------------------------ MODULE Analysis ------------------------------
(***************************************************************************)
(* The analysis that turns a syntax tree into a typed tree with its names  *)
(* resolved, and every lambda into a function definition.                  *)
(*                                                                         *)
(* The environment e is threaded through the analysis: the functions that  *)
(* enclose the node, the innermost last, each with its open blocks, its    *)
(* captures and its number of locals; the definitions analysed so far; the *)
(* expected type; whether an error was raised.  Analysing a node gives the *)
(* environment afterwards and the analysed node.                           *)
(***************************************************************************)
EXTENDS Memory, Integers, SequencesExt

CONSTANTS
  Globals,    \* the bindings of values outside every function, a sequence
  SlotTypes   \* the types of the slots of an object

(******************************** Environments *****************************)

\* What a node may be expected to be, besides a value of a type: anything, a
\* value that is no reference, a receiver of slots.
Direct == <<"direct">>
Decayed == <<"decayed">>
Receiver == <<"receiver">>

EmptyBlock == [names |-> <<>>, used |-> <<>>]

FunctionScope(name) ==
  [name |-> name, blocks |-> <<EmptyBlock>>, captures |-> <<>>, locals |-> 0,
   arguments |-> <<>>]

NewEnvironment ==
  [functions |-> <<>>, definitions |-> <<>>, expected |-> Decayed, failed |-> FALSE]

Fail(e) == [e EXCEPT !.failed = TRUE]

\* Block number b of function number f.
BlockOf(e, f, b) == e.functions[f].blocks[b]

\* A name is bound once in a block.
setNewBinding(e, binding) ==
  LET f == Len(e.functions)
      b == Len(e.functions[f].blocks)
      names == BlockOf(e, f, b).names
  IN IF \E i \in DOMAIN names : names[i].name = binding.name THEN Fail(e)
     ELSE [e EXCEPT !.functions[f].blocks[b].names = Append(@, binding)]

setNewValueBinding(e, name, value) ==
  setNewBinding(e, [kind |-> "value", name |-> name, mutable |-> FALSE,
                    type |-> TypeOfValue(value), value |-> value])

LocalBinding(e, name, type) ==
  [kind |-> "local", function |-> Last(e.functions).name, name |-> name, type |-> type,
   index |-> Last(e.functions).locals + 1]

CountLocal(e) == [e EXCEPT !.functions[Len(e.functions)].locals = @ + 1]

setNewSymbolLocalBinding(e, name, type) ==
  LET binding == LocalBinding(e, name, type)
  IN [e |-> CountLocal(setNewBinding(e, binding)), binding |-> binding]

setNewSymbolArgumentBinding(e, argument) ==
  LET f == Len(e.functions)
      binding == [kind |-> "argument", function |-> e.functions[f].name,
                  name |-> argument.name,
                  type |-> IF argument.type = NoType THEN <<"Any">> ELSE argument.type,
                  index |-> Len(e.functions[f].arguments) + 1]
  IN [setNewBinding(e, binding) EXCEPT !.functions[f].arguments = Append(@, binding)]

addUseTupleWithNamedSlotsBinding(e, binding) ==
  LET f == Len(e.functions)
  IN [e EXCEPT !.functions[f].blocks[Len(e.functions[f].blocks)].used = Append(@, binding)]

\* A tuple whose slots are used has no name and is captured by itself.
CaptureKey(binding) == IF binding.name = <<>> THEN binding ELSE [name |-> binding.name]

\* A function captures a binding of the functions around it once.
getOrCreateCaptureFor(e, f, source) ==
  LET captures == e.functions[f].captures
      Same(capture) == CaptureKey(capture.source) = CaptureKey(source)
      new == [kind |-> "capture", function |-> e.functions[f].name, name |-> source.name,
              type |-> source.type, index |-> Len(captures) + 1, source |-> source]
  IN IF \E i \in DOMAIN captures : Same(captures[i])
     THEN [e |-> e, binding |-> captures[SelectInSeq(captures, Same)]]
     ELSE [e |-> [e EXCEPT !.functions[f].captures = Append(@, new)], binding |-> new]

TupleSlot(tuple, slot) ==
  [kind |-> "tupleSlot", name |-> <<>>, tuple |-> tuple, slot |-> slot,
   type |-> <<"Ref", SlotTypes[slot]>>]

RECURSIVE LookInBlocks(_, _, _)

\* The innermost block that knows the name, by itself or by a used tuple.
LookInBlocks(blocks, b, name) ==
  LET names == SelectSeq(blocks[b].names, LAMBDA n : n.name = name)
      used == SelectSeq(blocks[b].used,
                        LAMBDA t : t.type = <<"Object">> /\ name[1] \in DOMAIN SlotTypes)
  IN CASE b = 0 -> None
       [] b > 0 /\ names # <<>> -> names[1]
       [] b > 0 /\ names = <<>> /\ used # <<>> -> TupleSlot(used[1], name[1])
       [] OTHER -> LookInBlocks(blocks, b - 1, name)

RECURSIVE lookSymbolRecursively(_, _, _)

\* What a name means in function number f; a binding of a function around it
\* becomes a capture, in every function in between.
lookSymbolRecursively(e, f, name) ==
  LET here == LookInBlocks(e.functions[f].blocks, Len(e.functions[f].blocks), name)
      captures == SelectSeq(e.functions[f].captures, LAMBDA c : c.name = name)
      global == SelectSeq(Globals, LAMBDA g : g.name = name)
      outer == lookSymbolRecursively(e, f - 1, name)
      source == outer.binding
      captured == getOrCreateCaptureFor(outer.e, f, source)
      tuple == getOrCreateCaptureFor(outer.e, f, source.tuple)
  IN CASE f = 0 -> [e |-> e, binding |-> IF global = <<>> THEN None ELSE global[1]]
       [] f > 0 /\ here # None -> [e |-> e, binding |-> here]
       [] f > 0 /\ here = None /\ captures # <<>> -> [e |-> e, binding |-> captures[1]]
       [] OTHER ->
            CASE source.kind \in {"none", "value"} -> outer
              [] source.kind = "tupleSlot" ->
                   [tuple EXCEPT !.binding = TupleSlot(tuple.binding, source.slot)]
              [] OTHER -> captured

(********************************** Types **********************************)

IsEscape(type) == type = <<"Escape">>

\* A reference is no value, not even one of any type.
isDirectSubtypeOf(type, other) ==
  \/ type = other
  \/ other = <<"Any">> /\ type[1] # "Ref"
  \/ IsEscape(type) /\ other = <<"Void">>

decay(type) == IF type[1] = "Ref" THEN type[2] ELSE type

computeLCA(type, other) ==
  CASE isDirectSubtypeOf(type, other) -> other
    [] isDirectSubtypeOf(other, type) -> type
    [] OTHER -> <<"Any">>

BothBranches(true, false) ==
  CASE true \in {<<"Escape">>, <<"Undefined">>}  -> false
    [] false \in {<<"Escape">>, <<"Undefined">>} -> true
    [] OTHER -> computeLCA(true, false)

Typed(node, type) == [node EXCEPT !.type = type]

\* The primitives that conversions call.
Load(type) == <<"primitive", "load", <<"Function", <<type>>, type[2]>>>>
Store(type) == <<"primitive", "store", <<"Function", <<type, type[2]>>, type>>>>
AnyValueToVoid ==
  <<"primitive", "anyValueToVoid", <<"Function", <<<<"Any">>>>, <<"Void">>>>>>

DownCastTo(node, target) == Typed(DownCast(node, target), target)

LoadApplication(node) ==
  Typed(FunctionApplication(Literal(Load(node.type)), <<node>>), node.type[2])

VoidApplication(node) ==
  Typed(FunctionApplication(Literal(AnyValueToVoid), <<node>>), <<"Void">>)

RECURSIVE coerceASTNode(_, _, _)

\* A node of another type where the target type is expected: a value that
\* nobody needs, a control flow that leaves, a reference to load, a value
\* whose type is only known when it is computed.
coerceASTNode(e, node, target) ==
  CASE target = <<"Void">> -> [e |-> e, n |-> VoidApplication(node)]
    [] target # <<"Void">> /\ (IsEscape(node.type) \/ isDirectSubtypeOf(node.type, target)) ->
         [e |-> e, n |-> node]
    [] target # <<"Void">> /\ node.type[1] = "Ref" ->
         coerceASTNode(e, LoadApplication(node), target)
    [] target # <<"Void">> /\ node.type = <<"Any">> ->
         [e |-> e, n |-> DownCastTo(node, target)]
    [] OTHER -> [e |-> Fail(e), n |-> node]

applyCoercion(e, node, target) ==
  LET type == CASE target = Decayed  -> decay(node.type)
                [] target = Receiver -> decay(node.type)
                [] OTHER -> target
  IN IF e.failed \/ target = Direct \/ isDirectSubtypeOf(node.type, type)
     THEN [e |-> e, n |-> node]
     ELSE coerceASTNode(e, node, type)

(******************************** The nodes ********************************)

RECURSIVE analyze(_, _), analyzeASTIfNeeded(_, _), analyzeExpecting(_, _, _)

\* An analysed node is not analysed again.
analyzeASTIfNeeded(e, node) ==
  IF node.type # NoType \/ e.failed THEN [e |-> e, n |-> node] ELSE analyze(e, node)

analyzeExpecting(e, node, type) ==
  LET one == analyzeASTIfNeeded([e EXCEPT !.expected = type], node)
  IN applyCoercion([one.e EXCEPT !.expected = e.expected], one.n, type)

analyzeWithCurrentExpectedType(e, node) == analyzeExpecting(e, node, e.expected)

\* A part that may be missing.
analyzePart(e, node, type) ==
  IF node = None THEN [e |-> e, n |-> None] ELSE analyzeExpecting(e, node, type)

analyzeAll(e, nodes, types) ==
  FoldLeft(LAMBDA done, i :
             LET one == analyzeExpecting(done.e, nodes[i], types[i])
             IN [e |-> one.e, n |-> Append(done.n, one.n)],
           [e |-> e, n |-> <<>>], [i \in 1 .. Len(nodes) |-> i])

AllOf(nodes, type) == [i \in DOMAIN nodes |-> type]

analyzeSequence(e, node) ==
  LET last == Len(node.expressions)
      all == FoldLeft(LAMBDA done, i :
               LET one == IF i < last
                          THEN analyzeExpecting(done.e, node.expressions[i], <<"Void">>)
                          ELSE analyzeWithCurrentExpectedType(done.e, node.expressions[i])
               IN [e |-> one.e, n |-> Append(done.n, one.n)],
               [e |-> e, n |-> <<>>], [i \in 1 .. last |-> i])
      type == IF last = 0 THEN <<"Void">> ELSE Last(all.n).type
  IN [e |-> all.e,
      n |-> IF last = 1 THEN all.n[1]
            ELSE [node EXCEPT !.type = type, !.expressions = all.n]]

analyzeBlock(e, node) ==
  LET f == Len(e.functions)
      inside == [e EXCEPT !.functions[f].blocks = Append(@, EmptyBlock)]
      body == analyzeWithCurrentExpectedType(inside, node.body)
  IN [e |-> [body.e EXCEPT !.functions[f].blocks = Front(@)],
      n |-> [node EXCEPT !.type = body.n.type, !.body = body.n]]

\* A name of an immutable value is the value.
analyzeIdentifier(e, node) ==
  LET found == lookSymbolRecursively(e, Len(e.functions), node.value)
      binding == found.binding
  IN CASE binding = None -> [e |-> Fail(e), n |-> node]
       [] binding.kind = "value" /\ ~binding.mutable ->
            [e |-> found.e, n |-> Literal(binding.value)]
       [] OTHER -> [e |-> found.e,
                    n |-> [node EXCEPT !.type = binding.type, !.binding = binding]]

analyzeVariableDefinition(e, node) ==
  LET value == analyzeExpecting(e, node.value, Decayed)
      type == IF node.mutable THEN <<"Ref", value.n.type>> ELSE value.n.type
      bound == setNewSymbolLocalBinding(value.e, node.name, type)
  IN IF ~node.mutable /\ IsLiteral(value.n)
     THEN [e |-> setNewValueBinding(value.e, node.name, value.n.value), n |-> value.n]
     ELSE [e |-> bound.e,
           n |-> [node EXCEPT !.type = type, !.value = value.n, !.binding = bound.binding]]

\* The branch of a condition that is known is the whole expression.
analyzeIf(e, node) ==
  LET condition == analyzeExpecting(e, node.condition, <<"Boolean">>)
      true == analyzePart(condition.e, node.true, e.expected)
      false == analyzePart(true.e, node.false, e.expected)
      taken == IF condition.n.value = Boolean(TRUE) THEN true.n ELSE false.n
      type == IF None \in {true.n, false.n} THEN <<"Void">>
              ELSE BothBranches(true.n.type, false.n.type)
  IN [e |-> false.e,
      n |-> IF IsLiteral(condition.n) THEN IF taken = None THEN Literal(Void) ELSE taken
            ELSE [node EXCEPT !.type = type, !.condition = condition.n,
                              !.true = true.n, !.false = false.n]]

analyzeWhile(e, node) ==
  LET condition == analyzeExpecting(e, node.condition, <<"Boolean">>)
      body == analyzePart(condition.e, node.body, <<"Void">>)
      continue == analyzePart(body.e, node.continue, <<"Void">>)
  IN [e |-> continue.e,
      n |-> IF IsLiteral(condition.n) /\ condition.n.value = Boolean(FALSE) THEN Literal(Void)
            ELSE [node EXCEPT !.type = <<"Void">>, !.condition = condition.n,
                              !.body = body.n, !.continue = continue.n]]

analyzeDoWhile(e, node) ==
  LET body == analyzePart(e, node.body, <<"Void">>)
      condition == analyzeExpecting(body.e, node.condition, <<"Boolean">>)
      continue == analyzePart(condition.e, node.continue, <<"Void">>)
  IN [e |-> continue.e,
      n |-> IF IsLiteral(condition.n) /\ condition.n.value = Boolean(FALSE) THEN body.n
            ELSE [node EXCEPT !.type = <<"Void">>, !.condition = condition.n,
                              !.body = body.n, !.continue = continue.n]]

analyzeReturn(e, node) ==
  LET expression == analyzeExpecting(e, node.expression, Decayed)
  IN [e |-> expression.e,
      n |-> [node EXCEPT !.type = <<"Escape">>, !.expression = expression.n]]

\* The values of the cases get a type that suits all of them.
CoerceCases(e, node, cases, default) ==
  LET types == [i \in DOMAIN cases |-> cases[i].value.type]
               \o (IF default = None THEN <<>> ELSE <<default.type>>)
      type == IF types = <<>> THEN <<"Undefined">>
              ELSE FoldLeft(BothBranches, Head(types), Tail(types))
      values == analyzeAll(e, [i \in DOMAIN cases |-> cases[i].value], AllOf(cases, type))
      other == analyzePart(values.e, default, type)
  IN [e |-> other.e,
      n |-> [node EXCEPT !.type = type, !.default = other.n,
               !.cases = [i \in DOMAIN cases |-> [cases[i] EXCEPT !.value = values.n[i]]]]]

analyzeSwitch(e, node) ==
  LET expression == analyzeExpecting(e, node.expression, Decayed)
      AddCase(done, case) ==
        LET key == analyzeExpecting(done.e, case.key, expression.n.type)
            value == analyzeWithCurrentExpectedType(key.e, case.value)
        IN [e |-> value.e, n |-> Append(done.n, [key |-> key.n, value |-> value.n])]
      cases == FoldLeft(AddCase, [e |-> expression.e, n |-> <<>>], node.cases)
      default == analyzePart(cases.e, node.default, e.expected)
  IN CoerceCases(default.e, [node EXCEPT !.expression = expression.n], cases.n, default.n)

(******************************** Functions ********************************)

\* What is left when the body of a lambda has been analysed: its arguments, the
\* captures its body made, the type of its closures.
DefinitionOf(scope, node, body) ==
  [name |-> node.name, arguments |-> scope.arguments, captures |-> scope.captures,
   locals |-> scope.locals, body |-> body,
   type |-> <<"Function", [i \in DOMAIN scope.arguments |-> scope.arguments[i].type],
              IF node.resultType = NoType THEN <<"Any">> ELSE node.resultType>>]

CloseDefinition(e, node, body) ==
  LET definition == DefinitionOf(Last(e.functions), node, body)
  IN [e |-> [e EXCEPT !.functions = Front(@), !.definitions = Append(@, definition)],
      definition |-> definition]

\* The arguments of a lambda are bound and its body is analysed where the
\* lambda stands.
analyzeDefinition(e, node) ==
  LET opened == [e EXCEPT !.functions = Append(@, FunctionScope(node.name))]
      bound == FoldLeft(setNewSymbolArgumentBinding, opened, node.arguments)
      body == analyzeExpecting(bound, node.body,
                               IF node.resultType = NoType THEN Decayed ELSE node.resultType)
  IN CloseDefinition(body.e, node, body.n)

\* A lambda that captures nothing is a closure already.
BindLambda(e, node, definition) ==
  LET closure == <<"closure", node.name, <<>>, definition.type>>
      bound == setNewSymbolLocalBinding(e, <<node.name>>, definition.type)
  IN IF definition.captures = <<>>
     THEN [e |-> setNewValueBinding(e, <<node.name>>, closure), n |-> Literal(closure)]
     ELSE [e |-> bound.e,
           n |-> [node EXCEPT !.type = definition.type, !.captures = definition.captures,
                              !.binding = bound.binding]]

analyzeLambda(e, node) ==
  LET analyzed == analyzeDefinition(e, node)
  IN BindLambda(analyzed.e, node, analyzed.definition)

Pure == {"add", "less"}

optimizePureApplication(node) ==
  IF /\ IsLiteral(node.function)
     /\ node.function.value[1] = "primitive" /\ node.function.value[2] \in Pure
     /\ \A i \in DOMAIN node.arguments : IsLiteral(node.arguments[i])
  THEN Literal(ApplyPrimitive(World(<<>>, <<>>), node.function.value[2],
                 [i \in DOMAIN node.arguments |-> node.arguments[i].value]).value)
  ELSE node

\* The arguments of a function of a known type are checked here, once and for
\* all.
simpleFunctionTypeCheck(e, node, type) ==
  LET arguments == analyzeAll(e, node.arguments, type[2])
  IN [e |-> arguments.e,
      n |-> optimizePureApplication([node EXCEPT !.type = type[3],
                                       !.arguments = arguments.n, !.checked = FALSE])]

defaultTypeCheck(e, node) ==
  LET arguments == analyzeAll(e, node.arguments, AllOf(node.arguments, Decayed))
  IN [e |-> arguments.e,
      n |-> optimizePureApplication([node EXCEPT !.type = <<"Any">>, !.arguments = arguments.n])]

analyzeApplication(e, node) ==
  LET function == analyzeExpecting(e, node.function, Decayed)
      called == [node EXCEPT !.function = function.n]
      type == function.n.type
  IN IF type[1] = "Function"
     THEN IF Len(type[2]) = Len(node.arguments)
          THEN simpleFunctionTypeCheck(function.e, called, type)
          ELSE [e |-> Fail(e), n |-> node]
     ELSE defaultTypeCheck(function.e, called)

analyzeUnexpandedApplication(e, node) ==
  LET function == analyzeExpecting(e, node.function, Direct)
  IN analyzeWithCurrentExpectedType(function.e,
       FunctionApplication(function.n, node.arguments))

\* The only method that the analysis finds is the assignment to a reference;
\* everything else is sent when the program runs.
analyzeMessageSend(e, node) ==
  LET receiver == analyzeExpecting(e, node.receiver, Direct)
      type == receiver.n.type
      value == analyzeExpecting(receiver.e, receiver.n, Decayed)
      arguments == analyzeAll(value.e, node.arguments, AllOf(node.arguments, Decayed))
  IN CASE node.selector = ":=" /\ type[1] = "Ref" ->
            analyzeWithCurrentExpectedType(receiver.e,
              UnexpandedApplication(Literal(Store(type)), <<receiver.n>> \o node.arguments))
       [] decay(type) = <<"Any">> /\ node.selector # ":=" ->
            [e |-> arguments.e,
             n |-> [node EXCEPT !.type = <<"Any">>, !.receiver = value.n,
                                !.arguments = arguments.n]]
       [] OTHER -> [e |-> Fail(e), n |-> node]

\* The messages of a chain go to one receiver: a literal, or a variable that
\* nobody else can name.  A chain of one message analyses its receiver alone.
analyzeMessageChain(e, node) ==
  LET receiver == analyzeExpecting(e, node.receiver, Direct)
      count == Len(node.messages)
      name == <<"receiver", Last(receiver.e.functions).locals>>
      bound == setNewSymbolLocalBinding(receiver.e, name, receiver.n.type)
      variable == [VariableDefinition(name, TRUE, FALSE, receiver.n)
                     EXCEPT !.type = receiver.n.type, !.binding = bound.binding]
      MessagesTo(expression) ==
        Sequence([i \in 1 .. count |->
                    MessageSend(expression, node.messages[i].selector,
                                node.messages[i].arguments)])
      sends == analyzeWithCurrentExpectedType(bound.e, MessagesTo(Identifier(name)))
  IN CASE count = 0 -> receiver
       [] count = 1 -> analyzeWithCurrentExpectedType(receiver.e, receiver.n)
       [] count > 1 /\ IsLiteral(receiver.n) ->
            analyzeWithCurrentExpectedType(receiver.e, MessagesTo(receiver.n))
       [] OTHER -> [e |-> sends.e,
                    n |-> Typed(Sequence(<<variable, sends.n>>), sends.n.type)]

(*************************** Casts and collections *************************)

analyzeDownCast(e, node) ==
  LET value == analyzeExpecting(e, node.value, Decayed)
      target == node.target.value[2]
  IN [e |-> value.e,
      n |-> IF isDirectSubtypeOf(value.n.type, target) THEN value.n
            ELSE [node EXCEPT !.type = target, !.value = value.n]]

analyzeCoerce(e, node) == analyzeExpecting(e, node.value, node.target)

analyzeMakeAssociation(e, node) ==
  LET key == analyzeExpecting(e, node.key, Decayed)
      value == analyzePart(key.e, node.value, Decayed)
  IN [e |-> value.e,
      n |-> [node EXCEPT !.type = <<"Association">>, !.key = key.n, !.value = value.n]]

analyzeElements(e, node, expected, type) ==
  LET elements == analyzeAll(e, node.elements, AllOf(node.elements, expected))
  IN [e |-> elements.e, n |-> [node EXCEPT !.type = type, !.elements = elements.n]]

analyzeMakeArray(e, node) == analyzeElements(e, node, Decayed, <<"Array">>)

analyzeMakeByteArray(e, node) == analyzeElements(e, node, Decayed, <<"ByteArray">>)

\* A dictionary that is made has the type of an array.
analyzeMakeDictionary(e, node) == analyzeElements(e, node, <<"Association">>, <<"Array">>)

(********************************** Slots **********************************)

analyzeSlot(e, node, type) ==
  LET tuple == analyzeExpecting(e, node.tuple, Receiver)
  IN IF tuple.n.type = <<"Object">> /\ node.slot \in DOMAIN SlotTypes
     THEN [e |-> tuple.e, n |-> [node EXCEPT !.type = type, !.tuple = tuple.n]]
     ELSE [e |-> Fail(e), n |-> node]

analyzeSlotNamedAt(e, node) == analyzeSlot(e, node, SlotTypes[node.slot])

analyzeSlotReferenceAt(e, node) == analyzeSlot(e, node, <<"Ref", SlotTypes[node.slot]>>)

analyzeSlotNamedAtPut(e, node) ==
  LET slot == analyzeSlot(e, node, SlotTypes[node.slot])
      value == analyzeExpecting(slot.e, node.value, SlotTypes[node.slot])
  IN [e |-> value.e, n |-> [slot.n EXCEPT !.value = value.n]]

analyzeUseNamedSlotsOf(e, node) ==
  LET tuple == analyzeExpecting(e, node.tuple, Receiver)
      binding == IF IsLiteral(tuple.n)
                 THEN [kind |-> "value", name |-> <<>>, mutable |-> FALSE,
                       type |-> tuple.n.type, value |-> tuple.n.value]
                 ELSE LocalBinding(tuple.e, <<>>, tuple.n.type)
      bound == IF IsLiteral(tuple.n) THEN tuple.e ELSE CountLocal(tuple.e)
  IN [e |-> addUseTupleWithNamedSlotsBinding(bound, binding),
      n |-> [node EXCEPT !.type = <<"Void">>, !.tuple = tuple.n,
                         !.binding = IF IsLiteral(tuple.n) THEN None ELSE binding]]

analyze(e, node) ==
  CASE node.kind = "identifier" -> analyzeIdentifier(e, node)
    [] node.kind = "sequence" -> analyzeSequence(e, node)
    [] node.kind = "block" -> analyzeBlock(e, node)
    [] node.kind = "variable" -> analyzeVariableDefinition(e, node)
    [] node.kind = "if" -> analyzeIf(e, node)
    [] node.kind = "switch" -> analyzeSwitch(e, node)
    [] node.kind = "while" -> analyzeWhile(e, node)
    [] node.kind = "doWhile" -> analyzeDoWhile(e, node)
    [] node.kind = "return" -> analyzeReturn(e, node)
    [] node.kind = "lambda" -> analyzeLambda(e, node)
    [] node.kind = "application" -> analyzeApplication(e, node)
    [] node.kind = "unexpandedApplication" -> analyzeUnexpandedApplication(e, node)
    [] node.kind = "send" -> analyzeMessageSend(e, node)
    [] node.kind = "messageChain" -> analyzeMessageChain(e, node)
    [] node.kind = "downCast" -> analyzeDownCast(e, node)
    [] node.kind = "coerce" -> analyzeCoerce(e, node)
    [] node.kind = "association" -> analyzeMakeAssociation(e, node)
    [] node.kind = "array" -> analyzeMakeArray(e, node)
    [] node.kind = "byteArray" -> analyzeMakeByteArray(e, node)
    [] node.kind = "dictionary" -> analyzeMakeDictionary(e, node)
    [] node.kind = "slotAt" -> analyzeSlotNamedAt(e, node)
    [] node.kind = "slotReferenceAt" -> analyzeSlotReferenceAt(e, node)
    [] node.kind = "slotAtPut" -> analyzeSlotNamedAtPut(e, node)
    [] node.kind = "useSlots" -> analyzeUseNamedSlotsOf(e, node)

\* A program is the body of a function without arguments.
analyzeProgram(body) ==
  analyzeDefinition(NewEnvironment, Lambda("main", <<>>, NoType, body))
=============================================================================
