----------------------------- MODULE NativeMachine -----------------------------
(***************************************************************************)
(* The processor and the functions of the virtual machine that the code of *)
(* the just in time compiler calls.  A machine has                         *)
(*   frames     the stack records of the native functions, innermost last, *)
(*              with the locals and the arguments of a call after them,    *)
(*   returns    the return addresses, of a called function and the one     *)
(*              where its caller goes on,                                  *)
(*   records    the chain of stack records that the collector follows,     *)
(*   registers, equal (the flag) and at (the function and its address),    *)
(*   fresh      the object that is being filled in, which <<"fresh">>      *)
(*              points to,                                                 *)
(*   world and out, as in the interpreter.                                 *)
(* Pointers are <<"arguments", frame>>, to the arguments of a call in that *)
(* frame, <<"record", frame>>, <<"vector", elements>> and <<"root", v>>.   *)
(***************************************************************************)
EXTENDS NativeCompiler, Memory

Context == <<"context">>
\* What a call leaves in the registers of its arguments.
Garbage == <<"garbage">>

Registers(rax, arg0, arg1, arg2, arg3) ==
  [RAX |-> rax, ARG0 |-> arg0, ARG1 |-> arg1, ARG2 |-> arg2, ARG3 |-> arg3,
   ARG4 |-> Garbage, ARG5 |-> Garbage]

MachineCalling(world, function, arguments) ==
  [frames |-> <<>>, returns |-> <<>>, records |-> <<>>, equal |-> FALSE, fresh |-> <<>>,
   registers |-> Registers(Garbage, Context, function, 0, arguments),
   at |-> <<function[2], 0>>, world |-> world, value |-> Void, out |-> "running"]

Crashed(m) == [m EXCEPT !.out = "crash"]

(********************************** Places *********************************)

TopFrame(m) == Last(m.frames)

\* The element that many bytes after the start of a vector or of an object.
ElementOf(elements, distance) ==
  LET i == distance \div WordSize + 1
  IN IF distance % WordSize = 0 /\ i \in DOMAIN elements THEN elements[i] ELSE Garbage

Pointed(m, pointer, distance) ==
  CASE pointer[1] = "arguments" -> ElementOf(m.frames[pointer[2]].callArguments, distance)
    [] pointer[1] = "vector"    -> ElementOf(pointer[2], distance - HeaderSize)
    [] pointer[1] = "root"      -> <<"vector", pointer[2]>>
    [] pointer[1] = "closure"   -> <<"vector", pointer[3]>>
    [] OTHER -> Garbage

Read(m, place) ==
  CASE place[1] = "register"  -> m.registers[place[2]]
    [] place[1] = "field"     -> TopFrame(m)[place[2]]
    [] place[1] = "local"     -> TopFrame(m).locals[place[2]]
    [] place[1] = "in"        -> Pointed(m, m.registers[place[2]], place[3])
    [] place[1] \in {"immediate", "address"} -> place[2]

\* Only the object that is being filled in is written through a register.
WriteFresh(m, place, size, value) ==
  LET i == (place[3] - HeaderSize) \div size + 1
  IN IF m.registers[place[2]] = <<"fresh">> /\ i \in DOMAIN m.fresh[2]
     THEN [m EXCEPT !.fresh[2][i] = value] ELSE Crashed(m)

Write(m, place, value) ==
  LET top == Len(m.frames)
  IN CASE place[1] = "register"     -> [m EXCEPT !.registers[place[2]] = value]
       [] place[1] = "field"        -> [m EXCEPT !.frames[top][place[2]] = value]
       [] place[1] = "local"        -> [m EXCEPT !.frames[top].locals[place[2]] = value]
       [] place[1] = "callArgument" ->
            [m EXCEPT !.frames[top].callArguments[place[2]] = value]
       [] place[1] = "in"           -> WriteFresh(m, place, WordSize, value)

(*********************************** Calls *********************************)

\* A function of the machine returns: the registers of its arguments are lost.
ReturnedFrom(m, done) ==
  IF done.out # "value" THEN [m EXCEPT !.out = "error", !.world = done.world]
  ELSE [m EXCEPT !.world = done.world,
          !.registers = Registers(done.value, Garbage, Garbage, Garbage, Garbage)]

Answering(m, value) == ReturnedFrom(m, Done(m.world, value))

\* A native function starts, with its arguments where they are.
EnterFunction(m, function, count, arguments) ==
  [m EXCEPT !.returns = Append(@, m.at), !.at = <<function[2], 0>>,
            !.registers = Registers(Garbage, Context, function, count, arguments)]

ArgumentsAt(m, pointer, count) == SubSeq(m.frames[pointer[2]].callArguments, 1, count)

\* A call with coercion writes the arguments it converted over the given ones.
ApplyConverted(m, function, count, pointer, coerced) ==
  IF coerced.out # "value" THEN [m EXCEPT !.out = "error"]
  ELSE IF function[1] = "primitive"
  THEN ReturnedFrom(m, ApplyPrimitive(coerced.world, function[2], coerced.value))
  ELSE EnterFunction([m EXCEPT !.frames[pointer[2]].callArguments =
                        coerced.value \o SubSeq(@, count + 1, Len(@))],
                     function, count, pointer)

function_apply(m, function, count, pointer, typecheck) ==
  LET arguments == ArgumentsAt(m, pointer, count)
  IN ApplyConverted(m, function, count, pointer,
                    IF typecheck THEN CoerceAll(m.world, arguments, TypeOfValue(function)[2])
                    ELSE Done(m.world, arguments))

interpretSendNoCopyArguments(m, selector, count, pointer) ==
  LET arguments == ArgumentsAt(m, pointer, count + 1)
  IN ReturnedFrom(m, Send(m.world, Head(arguments), selector[2], Tail(arguments)))

\* The functions that take the context and values and answer a value.
ContextCall(world, name, a, b, c) ==
  CASE name = "pointerLikeType_withBoxForValue" -> withBoxForValue(world, a)
    [] name = "pointerLikeType_load"       -> pointerLikeType_load(world, a)
    [] name = "pointerLikeType_store"      -> pointerLikeType_store(world, a, b)
    [] name = "symbolValueBinding_getValue" -> Done(world, a[2])
    [] name = "slotAt"                     -> SlotAt(world, a, b[2])
    [] name = "slotReferenceAt"            -> Done(world, withTupleAndTypeSlot(a, b[2]))
    [] name = "slotAtPut"                  -> SlotAtPut(world, a, b[2], c)
    [] name = "type_downCastValue"         ->
         IF tuple_typecheckValue(b, a[2]) THEN Done(world, b) ELSE Failed(world)
    [] name = "association_create"         -> Done(world, <<"assoc", a, b>>)
    [] name = "tuple_equals"               -> Done(world, Boolean(a = b))
    [] name = "gc_safepoint"               -> Done(world, Garbage)

\* The functions that make an object which the code after them fills in.
Creates(name, count, definition) ==
  CASE name = "array_create"      -> <<"array", [i \in 1 .. count |-> Null]>>
    [] name = "byteArray_create"  -> <<"bytes", [i \in 1 .. count |-> 0]>>
    [] name = "dictionary_createWithCapacity" -> <<"associations", <<>>>>
    [] name = "sequenceTuple_createForFunctionDefinition" ->
         <<"vector", [i \in 1 .. definition[4] |-> Null]>>

\* A call through its address, with the context in the first register.  The
\* collector must see the arguments of a primitive that is called directly.
Called(m, target) ==
  LET name == target[1]
      r == m.registers
  IN CASE name = "stackFrame_pushRecord" ->
            Answering([m EXCEPT !.records = Append(@, r.ARG0[2])], Garbage)
       [] name = "stackFrame_popRecord" ->
            IF m.records # <<>> /\ Last(m.records) = r.ARG0[2]
            THEN Answering([m EXCEPT !.records = Front(@)], Garbage) ELSE Crashed(m)
       [] r.ARG0 # Context -> Crashed(m)
       [] name = "apply" -> function_apply(m, r.ARG1, r.ARG2, r.ARG3, r.ARG4)
       [] name = "primitive" ->
            IF TopFrame(m).callArgumentVectorSize # r.ARG2 THEN Crashed(m)
            ELSE function_apply(m, r.ARG1, r.ARG2, r.ARG3, FALSE)
       [] name = "entry" -> EnterFunction(m, r.ARG1, r.ARG2, r.ARG3)
       [] name = "send" -> interpretSendNoCopyArguments(m, r.ARG2, r.ARG3, r.ARG4)
       [] name \in {"array_create", "byteArray_create", "dictionary_createWithCapacity",
                    "sequenceTuple_createForFunctionDefinition"} ->
            Answering([m EXCEPT !.fresh = Creates(name, r.ARG1, r.ARG1)], <<"fresh">>)
       [] name = "dictionary_add" ->
            Answering([m EXCEPT !.fresh[2] = Append(@, r.ARG2)], Garbage)
       [] name = "function_createClosureWithCaptureVector" ->
            IF r.ARG2 # <<"fresh">> THEN Crashed(m)
            ELSE Answering(m, <<"closure", r.ARG1[2], m.fresh[2], r.ARG1[3]>>)
       [] OTHER -> ReturnedFrom(m, ContextCall(m.world, name, r.ARG1, r.ARG2, r.ARG3))

(***************************** The instructions ****************************)

\* The bound on the arguments of a call: 16 in the code, more than a program
\* here passes.
MaxCallArguments == 4

NewFrame(locals) ==
  [f \in {"previous", "type", "pc", "context", "literal", "capture", "function",
          "argumentCount", "argument", "callArgumentVectorSize",
          "inlineLocalVectorSize"} |-> Garbage]
  @@ [locals |-> [i \in 1 .. locals |-> Garbage],
      callArguments |-> [i \in 1 .. MaxCallArguments |-> Garbage]]

Jumped(m, displacement) == [m EXCEPT !.at[2] = @ + displacement]

ReturnToCaller(m) ==
  IF m.returns = <<>> THEN [m EXCEPT !.out = "value", !.value = m.registers.RAX]
  ELSE [m EXCEPT !.at = Last(m.returns), !.returns = Front(@)]

\* The machine is past the instruction already, as displacements expect.
Executed(m, op, to, from) ==
  CASE op = "mov"   -> Write(m, to, Read(m, from))
    [] op = "mov8"  -> WriteFresh(m, to, 1, Read(m, from))
    [] op = "shift" -> Write(m, to, Read(m, to)[2])
    [] op = "xor"   -> Write(m, to, Null)
    [] op = "lea"   -> Write(m, to, <<from[2], Len(m.frames)>>)
    [] op = "cmp"   -> [m EXCEPT !.equal = Read(m, to) = from[2]]
    [] op = "test"  -> [m EXCEPT !.equal = Read(m, to) = Boolean(FALSE)]
    [] op = "jmp"   -> Jumped(m, from[2])
    [] op = "jne"   -> IF m.equal THEN m ELSE Jumped(m, from[2])
    [] op = "call"  -> Called(m, from[2])
    [] op = "enter" -> [m EXCEPT !.frames = Append(@, NewFrame(from[2]))]
    [] op = "leave" -> [m EXCEPT !.frames = Front(@)]
    [] op = "ret"   -> ReturnToCaller(m)
    [] op = "endbr64" -> m

StepNative(functions, m) ==
  IF m.at[2] \notin DOMAIN functions[m.at[1]].native.code THEN Crashed(m)
  ELSE LET instruction == functions[m.at[1]].native.code[m.at[2]]
       IN Executed([m EXCEPT !.at[2] = instruction.end],
                   instruction.op, instruction.to, instruction.from)

\* A local that points to the object that was filled in has it.
Settled(m) ==
  IF m.fresh = <<>> \/ m.frames = <<>> THEN m
  ELSE LET locals == TopFrame(m).locals
           object == IF m.fresh[1] = "associations" THEN DictionaryOf(m.fresh[2]) ELSE m.fresh
           destination == SelectInSeq(locals, LAMBDA value : value = <<"fresh">>)
       IN IF destination = 0 THEN [m EXCEPT !.fresh = <<>>]
          ELSE [m EXCEPT !.fresh = <<>>, !.frames[Len(m.frames)].locals[destination] = object]

\* The machine runs up to the code of the next instruction of the bytecode.
RECURSIVE RunNative(_, _)
RunNative(functions, m) ==
  LET next == StepNative(functions, m)
  IN IF next.out # "running" \/ next.at[2] \in DOMAIN functions[next.at[1]].native.pcAt
     THEN Settled(next) ELSE RunNative(functions, next)
=============================================================================
