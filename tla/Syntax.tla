------------------------------- MODULE Syntax -------------------------------
(***************************************************************************)
(* The nodes of the syntax tree, as the parser and the macros create them. *)
(* A node is a record whose kind stands for its class.  The analysis fills *)
(* in the type of the node, NoType here, and the binding of a name and the *)
(* captures of a lambda, None here.  Source positions are left out.        *)
(* A name is a tuple with one string; those that macros make have two.     *)
(*                                                                         *)
(* Values are tagged tuples: <<"int", n>>, <<"bool", b>>, <<"void">>,      *)
(* <<"null">>, <<"symbol", s>>, <<"type", t>>, <<"object", o>>,            *)
(* <<"array", elements>>, <<"assoc", key, value>>, <<"dictionary", s>>,    *)
(* <<"bytes", s>>, <<"box", n>> and <<"slot", object, slot>> for the two   *)
(* kinds of references, <<"definition", f, type, number of captures>>,     *)
(* <<"closure", f, captures, type>>, <<"primitive", name, type>>.  Types   *)
(* are tuples too: <<"Integer">>, <<"Ref", type>> for a reference and      *)
(* <<"Function", types of arguments, type of result>>.                     *)
(***************************************************************************)
EXTENDS Naturals, Sequences

None == [kind |-> "none"]
NoType == <<>>

Integer(n) == <<"int", n>>
Boolean(b) == <<"bool", b>>
Void == <<"void">>
Null == <<"null">>

TypeOfValue(value) ==
  CASE value[1] = "int"  -> <<"Integer">>
    [] value[1] = "bool" -> <<"Boolean">>
    [] value[1] = "void" -> <<"Void">>
    [] value[1] = "null" -> <<"Undefined">>
    [] value[1] = "object" -> <<"Object">>
    [] value[1] = "array" -> <<"Array">>
    [] value[1] = "assoc" -> <<"Association">>
    [] value[1] = "closure" -> value[4]
    [] value[1] = "primitive" -> value[3]
    [] OTHER -> <<value[1]>>

IsLiteral(node) == node.kind = "literal"

(*************************** Nodes of expressions **************************)

Literal(value) ==
  [kind |-> "literal", type |-> TypeOfValue(value), value |-> value]

Identifier(name) ==
  [kind |-> "identifier", type |-> NoType, value |-> name, binding |-> None]

Sequence(expressions) ==
  [kind |-> "sequence", type |-> NoType, expressions |-> expressions]

LexicalBlock(body) == [kind |-> "block", type |-> NoType, body |-> body]

FunctionApplication(function, arguments) ==
  [kind |-> "application", type |-> NoType, function |-> function,
   arguments |-> arguments, checked |-> TRUE]

UnexpandedApplication(function, arguments) ==
  [kind |-> "unexpandedApplication", type |-> NoType, function |-> function,
   arguments |-> arguments]

MessageSend(receiver, selector, arguments) ==
  [kind |-> "send", type |-> NoType, receiver |-> receiver, selector |-> selector,
   arguments |-> arguments]

MessageChain(receiver, messages) ==
  [kind |-> "messageChain", type |-> NoType, receiver |-> receiver,
   messages |-> messages]

ChainMessage(selector, arguments) ==
  [selector |-> selector, arguments |-> arguments]

\* A name made by a macro is a generated symbol; the debugger is never told
\* of a variable of that name.
VariableDefinition(name, generated, mutable, value) ==
  [kind |-> "variable", type |-> NoType, name |-> name, generated |-> generated,
   mutable |-> mutable, value |-> value, binding |-> None]

(****************************** Control flow *******************************)

If(condition, onTrue, onFalse) ==
  [kind |-> "if", type |-> NoType, condition |-> condition, true |-> onTrue,
   false |-> onFalse]

While(condition, body, continue) ==
  [kind |-> "while", type |-> NoType, condition |-> condition, body |-> body,
   continue |-> continue]

DoWhile(body, condition, continue) ==
  [kind |-> "doWhile", type |-> NoType, condition |-> condition, body |-> body,
   continue |-> continue]

Switch(expression, cases, default) ==
  [kind |-> "switch", type |-> NoType, expression |-> expression,
   cases |-> cases, default |-> default]

Break == [kind |-> "break", type |-> <<"Escape">>]

Continue == [kind |-> "continue", type |-> <<"Escape">>]

Return(expression) ==
  [kind |-> "return", type |-> NoType, expression |-> expression]

(************************** Functions and casts ****************************)

Argument(name, type) == [name |-> name, type |-> type]

Lambda(name, arguments, resultType, body) ==
  [kind |-> "lambda", type |-> NoType, name |-> name, arguments |-> arguments,
   resultType |-> resultType, body |-> body, captures |-> <<>>, binding |-> None]

Coerce(target, value) ==
  [kind |-> "coerce", type |-> NoType, target |-> target, value |-> value]

\* The down cast of an expression that an implicit conversion adds around it.
DownCast(value, target) ==
  [kind |-> "downCast", type |-> NoType, target |-> Literal(<<"type", target>>),
   value |-> value, unchecked |-> FALSE]

(******************************* Collections *******************************)

MakeAssociation(key, value) ==
  [kind |-> "association", type |-> NoType, key |-> key, value |-> value]

MakeArray(elements) ==
  [kind |-> "array", type |-> NoType, elements |-> elements]

MakeByteArray(elements) ==
  [kind |-> "byteArray", type |-> NoType, elements |-> elements]

MakeDictionary(elements) ==
  [kind |-> "dictionary", type |-> NoType, elements |-> elements]

(********************************** Slots **********************************)

SlotNamedAt(tuple, slot) ==
  [kind |-> "slotAt", type |-> NoType, tuple |-> tuple, slot |-> slot]

SlotNamedReferenceAt(tuple, slot) ==
  [kind |-> "slotReferenceAt", type |-> NoType, tuple |-> tuple, slot |-> slot]

SlotNamedAtPut(tuple, slot, value) ==
  [kind |-> "slotAtPut", type |-> NoType, tuple |-> tuple, slot |-> slot,
   value |-> value]

UseNamedSlotsOf(tuple) ==
  [kind |-> "useSlots", type |-> NoType, tuple |-> tuple, binding |-> None]
=============================================================================
