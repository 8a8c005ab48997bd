------------------------------ MODULE Evaluation ------------------------------
(***************************************************************************)
(* The two ways of running a syntax tree without compiling it.  A script   *)
(* is analysed and evaluated at once, node by node, with names that are    *)
(* looked up in the blocks open at that moment.  A function that has been  *)
(* analysed is evaluated with a vector of its arguments, captures and      *)
(* locals.                                                                 *)
(*                                                                         *)
(* A state s is the world, the environment, the value of the last node and *)
(* how it ended: with its value, or by a break, a return or an error that  *)
(* leaves the nodes around it.                                             *)
(***************************************************************************)
EXTENDS Analysis, TLC

Start(world, environment, definitions) ==
  [world |-> world, env |-> environment, definitions |-> definitions,
   value |-> Void, values |-> <<>>, out |-> "value"]

Give(s, value) == [s EXCEPT !.value = value]

Leave(s, out) == [s EXCEPT !.out = out]

Result(s, done) ==
  [s EXCEPT !.world = done.world, !.value = done.value, !.out = done.out]

(******************** What both kinds of evaluation share ******************)

\* The nodes one after the other, and the values they had.
InOrder(Eval(_, _), s, nodes) ==
  FoldLeft(LAMBDA done, node :
             IF done.out # "value" THEN done
             ELSE LET one == Eval(done, node)
                  IN [one EXCEPT !.values = Append(done.values, one.value)],
           [s EXCEPT !.values = <<>>], nodes)

Made(Eval(_, _), s, nodes, Make(_)) ==
  LET all == InOrder(Eval, s, nodes)
  IN IF all.out = "value" THEN Give(all, Make(all.values)) ELSE all

LastOf(Eval(_, _), s, nodes) == InOrder(Eval, Give(s, Null), nodes)

Branch(Eval(_, _), s, node) == IF node = None THEN Give(s, Void) ELSE Eval(s, node)

Conditional(Eval(_, _), s, node) ==
  LET condition == Eval(s, node.condition)
  IN IF condition.out # "value" THEN condition
     ELSE Branch(Eval, condition,
                 IF condition.value = Boolean(TRUE) THEN node.true ELSE node.false)

\* Every case whose key is equal is evaluated, the default when there is none.
Cases(Eval(_, _), s, node) ==
  LET expression == Eval(s, node.expression)
      value == expression.value
      Case(done, case) ==
        LET key == Eval(done.s, case.key)
        IN CASE done.s.out # "value" -> done
             [] key.out # "value" \/ key.value # value -> [done EXCEPT !.s = key]
             [] OTHER -> LET result == Eval(key, case.value)
                         IN [s |-> result, result |-> result.value, found |-> TRUE]
      last == FoldLeft(Case, [s |-> expression, result |-> Null, found |-> FALSE], node.cases)
  IN CASE last.s.out # "value" -> last.s
       [] last.found -> Give(last.s, last.result)
       [] node.default = None -> Give(last.s, Null)
       [] OTHER -> Eval(last.s, node.default)

Association(values) ==
  <<"assoc", values[1], IF Len(values) = 2 THEN values[2] ELSE Null>>

KeyAndValue(node) == IF node.value = None THEN <<node.key>> ELSE <<node.key, node.value>>

Bytes(values) == <<"bytes", [i \in DOMAIN values |-> values[i][2]]>>

Decay(s, value) == type_coerceValue(s.world, value, <<"Any">>).value

\* A message to a reference goes to what it refers to, but for the assignment.
Dispatch(s, receiver, selector, arguments) ==
  LET values == [i \in DOMAIN arguments |-> Decay(s, arguments[i])]
  IN IF selector = ":=" /\ IsReference(receiver)
     THEN Result(s, pointerLikeType_store(s.world, receiver, values[1]))
     ELSE Result(s, Send(s.world, Decay(s, receiver), selector, values))

ChainMessageTo(Eval(_, _), s, receiver, message) ==
  LET arguments == InOrder(Eval, s, message.arguments)
  IN IF arguments.out # "value" THEN arguments
     ELSE Dispatch(arguments, receiver, message.selector, arguments.values)

\* The argument values of a checked call are converted to the types it wants.
ApplyTo(s, function, arguments, checked) ==
  LET coerced == IF checked THEN CoerceAll(s.world, arguments, TypeOfValue(function)[2])
                            ELSE Done(s.world, arguments)
  IN CASE function[1] # "primitive" -> Leave(s, "error")
       [] function[1] = "primitive" /\ coerced.out # "value" -> Leave(s, "error")
       [] OTHER -> Result(s, ApplyPrimitive(coerced.world, function[2], coerced.value))

Then(s, Access(_, _)) ==
  IF s.out # "value" THEN s ELSE Result(s, Access(s.world, s.value))

(************************* Analysed and evaluated **************************)

RECURSIVE analyzeAndEvaluate(_, _)

\* An open block: its names, and whether a loop made it.
OpenBlock(breaks) == [names |-> [n \in {} |-> Void], breaks |-> breaks]

RECURSIVE lookName(_, _)
lookName(blocks, name) ==
  CASE blocks = <<>> ->
         LET global == SelectSeq(Globals, LAMBDA g : g.name = name)
         IN IF global = <<>> THEN <<>> ELSE <<global[1].value>>
    [] blocks # <<>> /\ name \in DOMAIN Last(blocks).names -> <<Last(blocks).names[name]>>
    [] OTHER -> lookName(Front(blocks), name)

\* A name is bound once in a block.
bindName(s, name, value) ==
  IF name \in DOMAIN Last(s.env).names THEN Leave(s, "error")
  ELSE [s EXCEPT !.env[Len(s.env)].names = (name :> value) @@ @, !.value = value]

analyzeAndEvaluateSequence(s, node) == LastOf(analyzeAndEvaluate, s, node.expressions)

analyzeAndEvaluateIdentifier(s, node) ==
  LET found == lookName(s.env, node.value)
  IN IF found = <<>> THEN Leave(s, "error") ELSE Give(s, found[1])

analyzeAndEvaluateVariableDefinition(s, node) ==
  LET value == analyzeAndEvaluate(s, node.value)
      box == withBoxForValue(value.world, value.value)
  IN CASE value.out # "value" -> value
       [] value.out = "value" /\ node.mutable ->
            bindName([value EXCEPT !.world = box.world], node.name, box.value)
       [] OTHER -> bindName(value, node.name, value.value)

analyzeAndEvaluateBlock(s, node) ==
  LET body == analyzeAndEvaluate([s EXCEPT !.env = Append(@, OpenBlock(FALSE))], node.body)
  IN [body EXCEPT !.env = Front(@)]

analyzeAndEvaluateIf(s, node) == Conditional(analyzeAndEvaluate, s, node)

analyzeAndEvaluateSwitch(s, node) == Cases(analyzeAndEvaluate, s, node)

\* The block of the loop is the target of a break.
analyzeAndEvaluateWhile(s, node) ==
  LET RECURSIVE Loop(_)
      Loop(before) ==
        LET condition == analyzeAndEvaluate(before, node.condition)
            body == Branch(analyzeAndEvaluate, condition, node.body)
            next == Branch(analyzeAndEvaluate, body, node.continue)
        IN CASE condition.out # "value" -> condition
             [] condition.out = "value" /\ condition.value # Boolean(TRUE) -> condition
             [] body.out # "value" -> body
             [] next.out # "value" -> next
             [] OTHER -> Loop(next)
      end == Loop([s EXCEPT !.env = Append(@, OpenBlock(TRUE))])
  IN [end EXCEPT !.env = Front(@), !.value = Void,
                 !.out = IF @ = "break" THEN "value" ELSE @]

\* Only the innermost block is asked for its loop.
analyzeAndEvaluateBreak(s) ==
  Leave(s, IF Last(s.env).breaks THEN "break" ELSE "error")

analyzeAndEvaluateApplication(s, node) ==
  LET all == InOrder(analyzeAndEvaluate, s, <<node.function>> \o node.arguments)
  IN IF all.out # "value" THEN all
     ELSE ApplyTo(all, Decay(all, Head(all.values)), Tail(all.values), TRUE)

analyzeAndEvaluateUnexpandedApplication(s, node) ==
  analyzeAndEvaluateApplication(s, node)

analyzeAndEvaluateMessageSend(s, node) ==
  LET all == InOrder(analyzeAndEvaluate, s, <<node.receiver>> \o node.arguments)
  IN IF all.out # "value" THEN all
     ELSE Dispatch(all, Head(all.values), node.selector, Tail(all.values))

analyzeAndEvaluateChainMessage(s, receiver, message) ==
  ChainMessageTo(analyzeAndEvaluate, s, receiver, message)

analyzeAndEvaluateMessageChain(s, node) ==
  LET receiver == analyzeAndEvaluate(s, node.receiver)
  IN FoldLeft(LAMBDA done, message :
                IF done.out # "value" THEN done
                ELSE analyzeAndEvaluateChainMessage(done, receiver.value, message),
              receiver, node.messages)

analyzeAndEvaluateCoerce(s, node) ==
  LET value == analyzeAndEvaluate(s, node.value)
  IN Then(value, LAMBDA w, v : type_coerceValue(w, v, node.target))

analyzeAndEvaluateDownCast(s, node) ==
  LET value == analyzeAndEvaluate(s, node.value)
  IN IF value.out = "value" /\ ~tuple_typecheckValue(value.value, node.target.value[2])
     THEN Leave(value, "error") ELSE value

analyzeAndEvaluateMakeAssociation(s, node) ==
  Made(analyzeAndEvaluate, s, KeyAndValue(node), Association)

analyzeAndEvaluateMakeArray(s, node) ==
  Made(analyzeAndEvaluate, s, node.elements, LAMBDA values : <<"array", values>>)

analyzeAndEvaluateMakeByteArray(s, node) ==
  Made(analyzeAndEvaluate, s, node.elements, Bytes)

analyzeAndEvaluateMakeDictionary(s, node) ==
  Made(analyzeAndEvaluate, s, node.elements, DictionaryOf)

\* A slot is read and written as a value of its type.
analyzeAndEvaluateSlotNamedAt(s, node) ==
  LET tuple == analyzeAndEvaluate(s, node.tuple)
      slot == Then(tuple, LAMBDA w, v : SlotAt(w, v, node.slot))
  IN Then(slot, LAMBDA w, v : type_coerceValue(w, v, SlotTypes[node.slot]))

analyzeAndEvaluateSlotReferenceAt(s, node) ==
  LET tuple == analyzeAndEvaluate(s, node.tuple)
  IN Then(tuple, LAMBDA w, v : Done(w, withTupleAndTypeSlot(v, node.slot)))

analyzeAndEvaluateSlotNamedAtPut(s, node) ==
  LET both == InOrder(analyzeAndEvaluate, s, <<node.tuple, node.value>>)
      value == Then(both, LAMBDA w, v : type_coerceValue(w, v, SlotTypes[node.slot]))
  IN Then(value, LAMBDA w, v : SlotAtPut(w, both.values[1], node.slot, v))

analyzeAndEvaluate(s, node) ==
  CASE node.kind = "literal" -> Give(s, node.value)
    [] node.kind = "identifier" -> analyzeAndEvaluateIdentifier(s, node)
    [] node.kind = "sequence" -> analyzeAndEvaluateSequence(s, node)
    [] node.kind = "variable" -> analyzeAndEvaluateVariableDefinition(s, node)
    [] node.kind = "block" -> analyzeAndEvaluateBlock(s, node)
    [] node.kind = "if" -> analyzeAndEvaluateIf(s, node)
    [] node.kind = "switch" -> analyzeAndEvaluateSwitch(s, node)
    [] node.kind = "while" -> analyzeAndEvaluateWhile(s, node)
    [] node.kind = "break" -> analyzeAndEvaluateBreak(s)
    [] node.kind = "application" -> analyzeAndEvaluateApplication(s, node)
    [] node.kind = "unexpandedApplication" -> analyzeAndEvaluateUnexpandedApplication(s, node)
    [] node.kind = "send" -> analyzeAndEvaluateMessageSend(s, node)
    [] node.kind = "messageChain" -> analyzeAndEvaluateMessageChain(s, node)
    [] node.kind = "coerce" -> analyzeAndEvaluateCoerce(s, node)
    [] node.kind = "downCast" -> analyzeAndEvaluateDownCast(s, node)
    [] node.kind = "association" -> analyzeAndEvaluateMakeAssociation(s, node)
    [] node.kind = "array" -> analyzeAndEvaluateMakeArray(s, node)
    [] node.kind = "byteArray" -> analyzeAndEvaluateMakeByteArray(s, node)
    [] node.kind = "dictionary" -> analyzeAndEvaluateMakeDictionary(s, node)
    [] node.kind = "slotAt" -> analyzeAndEvaluateSlotNamedAt(s, node)
    [] node.kind = "slotReferenceAt" -> analyzeAndEvaluateSlotReferenceAt(s, node)
    [] node.kind = "slotAtPut" -> analyzeAndEvaluateSlotNamedAtPut(s, node)

(****************************** Evaluated **********************************)

RECURSIVE evaluate(_, _)

VectorPlace(binding) == <<binding.kind, binding.index>>

\* A binding of another function is looked up by its name, and not found.
evaluateSymbolBinding(s, binding) ==
  CASE binding.kind = "value" -> Give(s, binding.value)
    [] binding.kind = "tupleSlot" -> Leave(s, "error")
    [] OTHER -> IF VectorPlace(binding) \in DOMAIN s.env THEN Give(s, s.env[VectorPlace(binding)])
                                                   ELSE Leave(s, "error")

setBindingActivationValue(s, binding, value) ==
  [s EXCEPT !.env = (VectorPlace(binding) :> value) @@ @, !.value = value]

evaluateSequence(s, node) == LastOf(evaluate, s, node.expressions)

evaluateIdentifier(s, node) == evaluateSymbolBinding(s, node.binding)

evaluateVariableDefinition(s, node) ==
  LET value == evaluate(s, node.value)
      box == withBoxForValue(value.world, value.value)
  IN CASE value.out # "value" -> value
       [] value.out = "value" /\ node.mutable ->
            setBindingActivationValue([value EXCEPT !.world = box.world],
                                      node.binding, box.value)
       [] OTHER -> setBindingActivationValue(value, node.binding, value.value)

evaluateBlock(s, node) == evaluate(s, node.body)

evaluateIf(s, node) == Conditional(evaluate, s, node)

evaluateSwitch(s, node) == Cases(evaluate, s, node)

evaluateWhile(s, node) ==
  LET RECURSIVE Loop(_)
      Loop(before) ==
        LET condition == evaluate(before, node.condition)
            body == Branch(evaluate, condition, node.body)
            next == Branch(evaluate, body, node.continue)
        IN CASE condition.out # "value" \/ condition.value # Boolean(TRUE) -> condition
             [] body.out # "value" -> body
             [] next.out # "value" -> next
             [] OTHER -> Loop(next)
      end == Loop(s)
  IN IF end.out = "value" THEN Give(end, Void) ELSE end

evaluateDoWhile(s, node) ==
  LET RECURSIVE Loop(_)
      Loop(before) ==
        LET body == Branch(evaluate, before, node.body)
            condition == evaluate(body, node.condition)
            next == Branch(evaluate, condition, node.continue)
        IN CASE body.out # "value" -> body
             [] condition.out # "value" \/ condition.value # Boolean(TRUE) -> condition
             [] next.out # "value" -> next
             [] OTHER -> Loop(next)
      end == Loop(s)
  IN IF end.out = "value" THEN Give(end, Void) ELSE end

evaluateReturn(s, node) ==
  LET value == evaluate(s, node.expression)
  IN IF value.out = "value" THEN Leave(value, "return") ELSE value

\* The captures are the values the bindings have where the lambda stands.
evaluateLambda(s, node) ==
  LET Captured(state, i) == evaluateSymbolBinding(state, node.captures[i].source)
      captures == InOrder(Captured, s, [i \in DOMAIN node.captures |-> i])
      closure == <<"closure", node.name, captures.values, node.type>>
  IN IF captures.out # "value" THEN captures
     ELSE setBindingActivationValue(captures, node.binding, closure)

\* Mutant: the caller goes on in the environment of the function.
applyClosureASTFunction_sameEnvironment(s, closure, arguments, checked) ==
  LET definition == s.definitions[SelectInSeq(s.definitions, LAMBDA d : d.name = closure[2])]
      places == {<<"argument", i>> : i \in DOMAIN arguments}
                \union {<<"capture", i>> : i \in DOMAIN closure[3]}
      environment == [p \in places |-> IF p[1] = "argument" THEN arguments[p[2]]
                                                            ELSE closure[3][p[2]]]
      body == evaluate([s EXCEPT !.env = environment @@ @], definition.body)
  IN [body EXCEPT !.out = IF @ = "return" THEN "value" ELSE @]

\* A function is evaluated in an environment of its own; it is where a return
\* goes.
applyClosureASTFunction(s, closure, arguments, checked) ==
  LET definition == s.definitions[SelectInSeq(s.definitions, LAMBDA d : d.name = closure[2])]
      coerced == IF checked THEN CoerceAll(s.world, arguments, closure[4][2])
                            ELSE Done(s.world, arguments)
      places == {<<"argument", i>> : i \in DOMAIN arguments}
                \union {<<"capture", i>> : i \in DOMAIN closure[3]}
      environment == [p \in places |-> IF p[1] = "argument" THEN coerced.value[p[2]]
                                                            ELSE closure[3][p[2]]]
      body == evaluate([s EXCEPT !.world = coerced.world, !.env = environment], definition.body)
  IN IF coerced.out # "value" THEN Leave(s, "error")
     ELSE [body EXCEPT !.env = s.env, !.out = IF @ = "return" THEN "value" ELSE @]

evaluateApplication(s, node) ==
  LET all == InOrder(evaluate, s, <<node.function>> \o node.arguments)
      function == Head(all.values)
  IN CASE all.out # "value" -> all
       [] all.out = "value" /\ function[1] = "closure" ->
            applyClosureASTFunction(all, function, Tail(all.values), node.checked)
       [] OTHER -> ApplyTo(all, function, Tail(all.values), node.checked)

evaluateMessageSend(s, node) ==
  LET all == InOrder(evaluate, s, <<node.receiver>> \o node.arguments)
  IN IF all.out # "value" THEN all
     ELSE Dispatch(all, Head(all.values), node.selector, Tail(all.values))

evaluateDownCast(s, node) ==
  LET value == evaluate(s, node.value)
  IN IF value.out = "value" /\ ~tuple_typecheckValue(value.value, node.target.value[2])
     THEN Leave(value, "error") ELSE value

evaluateMakeAssociation(s, node) == Made(evaluate, s, KeyAndValue(node), Association)

evaluateMakeArray(s, node) ==
  Made(evaluate, s, node.elements, LAMBDA values : <<"array", values>>)

evaluateMakeByteArray(s, node) == Made(evaluate, s, node.elements, Bytes)

evaluateMakeDictionary(s, node) == Made(evaluate, s, node.elements, DictionaryOf)

evaluateSlotNamedAt(s, node) ==
  Then(evaluate(s, node.tuple), LAMBDA w, v : SlotAt(w, v, node.slot))

evaluateSlotReferenceAt(s, node) ==
  Then(evaluate(s, node.tuple), LAMBDA w, v : Done(w, withTupleAndTypeSlot(v, node.slot)))

evaluateSlotNamedAtPut(s, node) ==
  LET both == InOrder(evaluate, s, <<node.tuple, node.value>>)
  IN Then(both, LAMBDA w, v : SlotAtPut(w, both.values[1], node.slot, v))

\* The loops of a function that is evaluated are no target for a break or a
\* continue, and the slots that a node uses are not bound.
evaluate(s, node) ==
  CASE node.kind = "literal" -> Give(s, node.value)
    [] node.kind = "identifier" -> evaluateIdentifier(s, node)
    [] node.kind = "sequence" -> evaluateSequence(s, node)
    [] node.kind = "variable" -> evaluateVariableDefinition(s, node)
    [] node.kind = "block" -> evaluateBlock(s, node)
    [] node.kind = "if" -> evaluateIf(s, node)
    [] node.kind = "switch" -> evaluateSwitch(s, node)
    [] node.kind = "while" -> evaluateWhile(s, node)
    [] node.kind = "doWhile" -> evaluateDoWhile(s, node)
    [] node.kind = "return" -> evaluateReturn(s, node)
    [] node.kind = "lambda" -> evaluateLambda(s, node)
    [] node.kind = "application" -> evaluateApplication(s, node)
    [] node.kind = "send" -> evaluateMessageSend(s, node)
    [] node.kind = "downCast" -> evaluateDownCast(s, node)
    [] node.kind = "association" -> evaluateMakeAssociation(s, node)
    [] node.kind = "array" -> evaluateMakeArray(s, node)
    [] node.kind = "byteArray" -> evaluateMakeByteArray(s, node)
    [] node.kind = "dictionary" -> evaluateMakeDictionary(s, node)
    [] node.kind = "slotAt" -> evaluateSlotNamedAt(s, node)
    [] node.kind = "slotReferenceAt" -> evaluateSlotReferenceAt(s, node)
    [] node.kind = "slotAtPut" -> evaluateSlotNamedAtPut(s, node)
    [] node.kind \in {"break", "continue", "useSlots"} -> Leave(s, "error")
=============================================================================
