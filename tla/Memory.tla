------------------------------- MODULE Memory -------------------------------
(***************************************************************************)
(* What an expression reads and writes: the boxes of mutable variables,    *)
(* the slots of objects, and the messages that leave the program.  A       *)
(* message runs a method of some other class; here it only answers the     *)
(* next element of a list of answers, FALSE when the list has ended, and   *)
(* the sends are kept in the order they were made.                         *)
(***************************************************************************)
EXTENDS Syntax

World(objects, answers) ==
  [boxes |-> <<>>, objects |-> objects, answers |-> answers, sent |-> <<>>]

Done(world, value) == [world |-> world, value |-> value, out |-> "value"]

Failed(world) == [world |-> world, value |-> Void, out |-> "error"]

IsReference(value) == value[1] \in {"box", "slot"}

withBoxForValue(world, value) ==
  Done([world EXCEPT !.boxes = Append(@, value)], <<"box", Len(world.boxes) + 1>>)

withTupleAndTypeSlot(tuple, slot) == <<"slot", tuple[2], slot>>

HasSlot(world, object, slot) ==
  object \in DOMAIN world.objects /\ slot \in DOMAIN world.objects[object]

SlotAt(world, tuple, slot) ==
  IF tuple[1] = "object" /\ HasSlot(world, tuple[2], slot)
  THEN Done(world, world.objects[tuple[2]][slot])
  ELSE Failed(world)

SlotAtPut(world, tuple, slot, value) ==
  IF tuple[1] = "object" /\ HasSlot(world, tuple[2], slot)
  THEN Done([world EXCEPT !.objects[tuple[2]][slot] = value], value)
  ELSE Failed(world)

pointerLikeType_load(world, reference) ==
  CASE reference[1] = "box"  -> Done(world, world.boxes[reference[2]])
    [] reference[1] = "slot" /\ HasSlot(world, reference[2], reference[3]) ->
         Done(world, world.objects[reference[2]][reference[3]])
    [] OTHER -> Failed(world)

pointerLikeType_store(world, reference, value) ==
  CASE reference[1] = "box" ->
         Done([world EXCEPT !.boxes[reference[2]] = value], reference)
    [] reference[1] = "slot" /\ HasSlot(world, reference[2], reference[3]) ->
         Done([world EXCEPT !.objects[reference[2]][reference[3]] = value], reference)
    [] OTHER -> Failed(world)

Send(world, receiver, selector, arguments) ==
  LET answer == IF world.answers = <<>> THEN FALSE ELSE Head(world.answers)
  IN Done([world EXCEPT !.sent = Append(@, <<receiver, selector, arguments>>),
                        !.answers = IF @ = <<>> THEN @ ELSE Tail(@)],
          Boolean(answer))

tuple_typecheckValue(value, type) ==
  type = <<"Any">> \/ TypeOfValue(value) = type

\* A value where a type is expected: a reference gives what it refers to.
type_coerceValue(world, value, type) ==
  LET loaded == IF IsReference(value) /\ type[1] # "Ref"
                THEN pointerLikeType_load(world, value) ELSE Done(world, value)
  IN IF type[1] = "Ref" \/ tuple_typecheckValue(loaded.value, type)
     THEN loaded ELSE Failed(world)

CoerceAll(world, values, types) ==
  LET coerced == [i \in DOMAIN values |-> type_coerceValue(world, values[i], types[i])]
  IN IF Len(values) = Len(types) /\ \A i \in DOMAIN values : coerced[i].out = "value"
     THEN Done(world, [i \in DOMAIN values |-> coerced[i].value])
     ELSE Failed(world)

\* A dictionary keeps the last of the associations that have equal keys.
DictionaryOf(associations) ==
  <<"dictionary", {associations[i] : i \in {i \in DOMAIN associations :
                     \A j \in i + 1 .. Len(associations) : associations[j][2] # associations[i][2]}}>>

\* The numbers of arguments that the primitives check.
PrimitiveArgumentCount == [add |-> 2, less |-> 2, note |-> 1, load |-> 1, store |-> 2]

\* The primitives of the programs: two pure functions of integers, and one
\* that other code can observe.
ApplyPrimitive(world, name, arguments) ==
  IF name \in DOMAIN PrimitiveArgumentCount /\ Len(arguments) # PrimitiveArgumentCount[name]
  THEN Failed(world)
  ELSE CASE name = "add"  -> Done(world, Integer(arguments[1][2] + arguments[2][2]))
         [] name = "less" -> Done(world, Boolean(arguments[1][2] < arguments[2][2]))
         [] name = "note" -> Done([world EXCEPT !.sent = Append(@, arguments)], Void)
         [] name = "load" -> pointerLikeType_load(world, arguments[1])
         [] name = "store" -> pointerLikeType_store(world, arguments[1], arguments[2])
         [] name = "anyValueToVoid" -> Done(world, Void)
=============================================================================
