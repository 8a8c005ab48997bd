----------------------------- MODULE MCCompiler -----------------------------
(***************************************************************************)
(* Small programs, analysed, compiled and interpreted.  A program declares *)
(* two variables and an object, runs two statements and answers what the   *)
(* variables, a global variable and the object hold at the end.  The       *)
(* messages it sends get their answers from a list.                        *)
(*                                                                         *)
(* A statement has a code and a meaning: what the code does, as a tree     *)
(* that a script can evaluate.  They differ where the evaluation of a      *)
(* script has no such thing, or gets it wrong: a continue, a return, a     *)
(* loop tested at its end, the slots of a used tuple, a call of a lambda.  *)
(***************************************************************************)
EXTENDS Evaluation, BytecodeCompiler, VerifiedBytecode, NativeMachine

Slots == [a |-> <<"Integer">>, b |-> <<"Integer">>]

TheObject == <<"object", "p">>

\* The global g is an integer variable, the global h a variable of anything.
GlobalBinding(name, type, box) ==
  [kind |-> "value", name |-> <<name>>, mutable |-> TRUE, type |-> <<"Ref", type>>,
   value |-> <<"box", box>>]

GlobalVariables ==
  <<GlobalBinding("g", <<"Integer">>, 1), GlobalBinding("h", <<"Any">>, 2)>>

Oracles == {<<>>, <<TRUE, TRUE, TRUE>>, <<TRUE, FALSE, TRUE, TRUE>>}

InitialWorld(answers) ==
  [World([p |-> [a |-> Integer(3), b |-> Integer(5)]], answers)
     EXCEPT !.boxes = <<Integer(0), TheObject>>]

(****************************** Expressions ********************************)

V(name) == Identifier(<<name>>)
N(n) == Literal(Integer(n))
Variable(name, generated, value) == VariableDefinition(<<name>>, generated, TRUE, value)
Primitive(name, arguments, result) ==
  Literal(<<"primitive", name, <<"Function", arguments, result>>>>)
Add(a, b) ==
  UnexpandedApplication(Primitive("add", <<<<"Integer">>, <<"Integer">>>>, <<"Integer">>), <<a, b>>)
Less(a, b) ==
  UnexpandedApplication(Primitive("less", <<<<"Integer">>, <<"Integer">>>>, <<"Boolean">>),
                        <<a, b>>)
Note(a) == UnexpandedApplication(Primitive("note", <<<<"Any">>>>, <<"Void">>), <<a>>)
Ask(a) == MessageSend(V("h"), "ask", <<a>>)
Set(variable, value) == MessageSend(variable, ":=", <<value>>)
Increment(variable) == Set(variable, Add(variable, N(1)))
Do(statements) == LexicalBlock(Sequence(statements))
When(condition, then) == If(condition, then, None)
Call(name, arguments) == UnexpandedApplication(V(name), arguments)

Same(tree) == [code |-> tree, meaning |-> tree]

(******************************* Statements ********************************)

\* A statement of a program; f is a name for the lambda it may have.
Statements(f) == <<
  \* Conditions, known and unknown, and their values.
  Same(If(Ask(V("x")), Increment(V("x")), Set(V("y"), Add(V("y"), N(2))))),
  Same(Set(V("x"), If(DownCast(Ask(V("y")), <<"Boolean">>), N(1), Add(V("y"), N(3))))),
  Same(Sequence(<<When(Less(N(1), N(2)), Increment(V("g"))),
                  Set(V("y"), If(Less(N(2), N(1)), V("x"), Add(N(2), N(2))))>>)),
  \* Loops.
  Same(While(Ask(N(1)), Note(V("x")), Increment(V("x")))),
  Same(While(Ask(N(1)), Sequence(<<When(Ask(N(2)), Break), Note(V("y"))>>), Increment(V("y")))),
  [code |-> While(Ask(N(1)), Sequence(<<When(Ask(N(2)), Continue), Note(V("x"))>>),
                  Increment(V("x"))),
   meaning |-> While(Ask(N(1)), If(Ask(N(2)), Literal(Void), Note(V("x"))),
                     Increment(V("x")))],
  [code |-> DoWhile(Sequence(<<If(Ask(N(1)), Continue, When(Ask(N(2)), Break)), Note(N(3))>>),
                    Ask(V("y")), Increment(V("y"))),
   meaning |-> While(Literal(Boolean(TRUE)),
                     Sequence(<<If(Ask(N(1)), Literal(Void),
                                   Sequence(<<When(Ask(N(2)), Break), Note(N(3))>>)),
                                If(Ask(V("y")), Increment(V("y")), Break)>>), None)],
  Same(While(Ask(N(1)),
             Sequence(<<While(Ask(N(2)), When(Ask(N(3)), Break), Note(N(4))),
                        When(Ask(V("x")), Break), Increment(V("x"))>>), Note(N(5)))),
  Same(Set(V("x"), Switch(Add(V("x"), V("y")),
                          <<[key |-> N(0), value |-> Add(V("y"), N(1))],
                            [key |-> N(1), value |-> N(7)]>>, V("y")))),
  Same(While(Less(V("x"), N(2)), Literal(Void), Increment(V("x")))),
  \* Slots.
  Same(Set(SlotNamedReferenceAt(V("p"), "a"), Add(SlotNamedAt(V("p"), "b"), V("x")))),
  Same(Sequence(<<SlotNamedAtPut(V("p"), "b", V("y")),
                  Set(V("x"), SlotNamedAt(V("p"), "b"))>>)),
  [code |-> Do(<<UseNamedSlotsOf(V("p")),
                 While(Ask(N(1)), Increment(V("a")), Set(V("b"), V("a")))>>),
   meaning |-> While(Ask(N(1)),
                     Set(SlotNamedReferenceAt(V("p"), "a"), Add(SlotNamedAt(V("p"), "a"), N(1))),
                     SlotNamedAtPut(V("p"), "b", SlotNamedAt(V("p"), "a")))],
  \* Lambdas.
  [code |-> Do(<<Lambda(f, <<Argument(<<"n">>, <<"Integer">>)>>, NoType,
                        Sequence(<<Variable("m", FALSE, Add(V("n"), N(0))),
                                   Set(V("x"), Add(V("x"), V("m")))>>)),
                 Call(f, <<V("y")>>), Call(f, <<N(2)>>)>>),
   meaning |-> Sequence(<<Set(V("x"), Add(V("x"), V("y"))), Set(V("x"), Add(V("x"), N(2)))>>)],
  [code |-> Do(<<Lambda(f, <<Argument(<<"n">>, NoType)>>, <<"Integer">>,
                        Sequence(<<While(Ask(N(1)), When(Ask(V("n")), Return(V("y"))), None),
                                   Add(V("x"), N(3))>>)),
                 Set(V("y"), Call(f, <<V("x")>>))>>),
   meaning |-> Do(<<Variable("z", TRUE, N(0)),
                    While(Ask(N(1)), When(Ask(V("x")), Sequence(<<Set(V("z"), N(1)), Break>>)),
                          None),
                    When(Less(V("z"), N(1)), Set(V("y"), Add(V("x"), N(3))))>>)],
  [code |-> Do(<<UseNamedSlotsOf(V("p")), Variable("k", TRUE, N(4)),
                 Lambda(f, <<>>, NoType,
                        Sequence(<<Lambda(f \o "inner", <<>>, NoType,
                                          Sequence(<<Increment(V("k")), Set(V("a"), V("k"))>>)),
                                   Call(f \o "inner", <<>>), Increment(V("k"))>>)),
                 Call(f, <<>>), Set(V("x"), V("k"))>>),
   meaning |-> Do(<<Variable("k", TRUE, N(5)), SlotNamedAtPut(V("p"), "a", V("k")),
                    Set(V("x"), Add(V("k"), N(1)))>>)],
  \* Messages, collections, and a name that hides another one.
  Same(MessageChain(Ask(N(1)), <<ChainMessage("one", <<Ask(V("x"))>>),
                                 ChainMessage("two", <<Set(V("x"), Add(V("y"), N(1)))>>)>>)),
  Same(Sequence(<<Note(MakeDictionary(
                    <<MakeAssociation(N(1), Add(V("x"), N(0))),
                      MakeAssociation(Add(V("x"), N(1)), Add(Set(V("y"), N(2)), V("y")))>>)),
                  Note(MakeByteArray(<<Add(V("y"), N(1)), Add(V("g"), N(0))>>))>>)),
  Same(Do(<<Variable("x", FALSE, Add(V("y"), N(8))), Increment(V("x")),
            Set(V("g"), V("x"))>>)) >>

Declarations ==
  <<Variable("x", FALSE, N(0)), Variable("y", TRUE, N(0)),
    VariableDefinition(<<"p">>, FALSE, FALSE, Coerce(<<"Object">>, V("h")))>>

Answer == MakeArray(<<V("x"), V("y"), V("g")>>)

Program(first, second) == Sequence(Declarations \o <<first, second, Answer>>)

\* Two statements, the second one not before the first one in their list and not
\* far from it.
Programs ==
  {p \in (DOMAIN Statements("f")) \X (DOMAIN Statements("f")) : p[2] \in p[1] .. p[1] + 8}

SourceOf(p) == Program(Statements("f")[p[1]].code, Statements("l")[p[2]].code)

MeaningOf(p) == Program(Statements("f")[p[1]].meaning, Statements("l")[p[2]].meaning)

Analyzed == [p \in Programs |-> analyzeProgram(SourceOf(p))]

\* The native code is a part of the bytecode of a function.
WithNativeCode(bytecode) == [native |-> jit(bytecode)] @@ bytecode

CompileAllDefinitions(definitions) ==
  [f \in {definitions[d].name : d \in DOMAIN definitions} |->
     WithNativeCode(compileFunctionDefinition(
       definitions[CHOOSE d \in DOMAIN definitions : definitions[d].name = f]))]

Compiled == [p \in Programs |-> CompileAllDefinitions(Analyzed[p].e.definitions)]

(***************************** What is observed ****************************)

DecayedIn(w, value) ==
  IF value[1] = "array"
  THEN <<"array", [i \in DOMAIN value[2] |-> type_coerceValue(w, value[2][i], <<"Any">>).value]>>
  ELSE type_coerceValue(w, value, <<"Any">>).value

Observed(s) ==
  [out |-> s.out, sent |-> s.world.sent, objects |-> s.world.objects,
   value |-> IF s.out = "value" THEN DecayedIn(s.world, s.value) ELSE Void]

\* What a program means: what the evaluation of its syntax tree gives.
Meaning(p, answers) ==
  Observed(analyzeAndEvaluate(Start(InitialWorld(answers), <<OpenBlock(FALSE)>>, <<>>),
                              MeaningOf(p)))

\* What the evaluation of the analysed function gives.
Evaluated(p, answers) ==
  Observed(applyClosureASTFunction(
    Start(InitialWorld(answers), <<>>, Analyzed[p].e.definitions),
    <<"closure", "main", <<>>, <<>>>>, <<>>, FALSE))

\* The statements with a break, a continue or used slots are not evaluated.
Evaluable == {1, 2, 3, 4, 9, 10, 11, 12, 14, 15, 17, 18, 19}

(***************************** The specification ***************************)

VARIABLES
  program,
  answers,
  meaning,   \* what the program means with these answers
  native     \* the machine that runs the code of the just in time compiler

vars == <<interpreterVars, program, answers, meaning, native>>

Main == <<"closure", "main", <<>>, <<"Function", <<>>, <<"Any">>>>>>

Init ==
  /\ program \in Programs
  /\ code = Compiled[program]
  /\ answers \in Oracles
  /\ meaning = Meaning(program, answers)
  /\ world = InitialWorld(answers)
  /\ frames = <<ActivationRecord("main", <<>>, <<>>)>>
  /\ outcome = <<"running">>
  /\ native = RunNative(code, MachineCalling(InitialWorld(answers), Main, <<"arguments", 0>>))

\* An instruction of the bytecode, and its code in the native function.
Next ==
  /\ Step
  /\ native' = IF native.out = "running" THEN RunNative(code, native) ELSE native
  /\ UNCHANGED <<program, answers, meaning>>

Spec == Init /\ [][Next]_vars /\ WF_interpreterVars(Step)

Outcome ==
  Observed([out |-> outcome[1], world |-> world,
            value |-> IF outcome[1] = "value" THEN outcome[2] ELSE Void])

(************************ The code is verified ******************************)

Writes(instruction, l) ==
  DestinationCount(instruction) = 1 /\ instruction.operands[1] = <<"local", l>>

\* The instructions that a path leads to on which nothing writes a local.
RECURSIVE ReachedUnwritten(_, _, _, _)
ReachedUnwritten(instructions, l, reached, last) ==
  LET next == UNION {Successors(instructions[pc]) :
                       pc \in {pc \in last : ~Writes(instructions[pc], l)}} \ reached
  IN IF next = {} THEN reached
     ELSE ReachedUnwritten(instructions, l, reached \cup next, next)

\* A local that only closures of so many arguments are written to is a function.
ShapesWritten(bytecode, l) ==
  LET writers == {i \in Range(bytecode.instructions) : Writes(i, l)}
      definition(i) == bytecode.literals[i.operands[2][2]]
  IN {AnyValue} \cup
     {FunctionOf(Len(definition(i)[3][2])) :
        i \in {i \in writers : \A w \in writers : w.opcode = "makeClosure"}}

\* A function that TLC computes once.
Tabled(f) == f @@ <<>>

FactsAbout(bytecode) ==
  LET unwritten == Tabled([l \in 1 .. bytecode.locals |->
                      ReachedUnwritten(bytecode.instructions, l, {0}, {0})])
      shapes == Tabled([l \in 1 .. bytecode.locals |-> ShapesWritten(bytecode, l)])
      captures == {operand \in UNION {Range(i.operands) : i \in Range(bytecode.instructions)} :
                     operand[1] = "capture"}
  IN [capture |-> {<<operand[2], AnyValue>> : operand \in captures},
      local |-> Tabled([pc \in DOMAIN bytecode.instructions |->
                   UNION {{l} \X shapes[l] : l \in {l \in 1 .. bytecode.locals :
                                                    pc \notin unwritten[l]}}])]

FactsAboutAll(functions) == Tabled([f \in DOMAIN functions |-> FactsAbout(functions[f])])

ValuesAtStart ==
  LET literals == UNION {Range(code[f].literals) : f \in DOMAIN code}
  IN literals \cup {l[2] : l \in {l \in literals : l[1] = "binding"}}
     \cup Range(world.boxes) \cup UNION {Range(world.objects[o]) : o \in DOMAIN world.objects}

\* The code of every program is verified when the program starts: the operands of
\* every instruction, on the paths that a run takes and on the others.
AtStart == Running /\ frames = <<ActivationRecord("main", <<>>, <<>>)>>

CodeIsVerified == AtStart => Starts(FactsAboutAll(code), ValuesAtStart)

(******************************** Properties *******************************)

\* A compiled program ends as its meaning does: with the same value, messages
\* and slots (jumps, labels, captures, lowered variables and conversions).
MeansTheSame == ~Running => Outcome = meaning

\* At every moment the messages sent are the first ones its meaning sends: no
\* effect comes early, twice or out of order.
EffectsInOrder == IsPrefix(world.sent, meaning.sent)

\* Evaluating the analysed tree ends as running its bytecode does.
EvaluatorAgrees ==
  (~Running /\ program[1] \in Evaluable /\ program[2] \in Evaluable)
    => Outcome = Evaluated(program, answers)

\* The native code does what the bytecode does, instruction by instruction: the
\* same functions are active, with the same arguments, captures and locals, at
\* the same instructions, and the world is the same.
SameActivation(frame, record) ==
  /\ record.function[2] = frame.function
  /\ record.capture = <<"vector", frame.captures>>
  /\ record.argumentCount = Len(frame.arguments)
  /\ frame.arguments # <<>> => ArgumentsAt(native, record.argument, record.argumentCount)
                                 = frame.arguments
  /\ \A i \in DOMAIN frame.locals :
       record.locals[i] = (IF frame.locals[i] = Unwritten THEN Null ELSE frame.locals[i])

NativeAgrees ==
  IF ~Running THEN Observed(native) = Outcome
  ELSE /\ native.out = "running"
       /\ native.world = world
       /\ Len(native.frames) = Len(frames)
       /\ \A f \in DOMAIN frames : SameActivation(frames[f], native.frames[f])
       /\ code[native.at[1]].native.pcAt[native.at[2]] = Top.pc

\* The chain of stack records, which the collector and the unwinding follow, has
\* the record of each active function once, and each is at its instruction.
RecordsFollowCalls ==
  Running =>
    /\ native.records = [f \in DOMAIN frames |-> f]
    /\ \A f \in 1 .. Len(frames) - 1 :
         /\ native.frames[f].pc = frames[f].pc
         /\ native.frames[f].inlineLocalVectorSize = Len(frames[f].locals)

\* Every program comes to its end.
ProgramEnds == <>(~Running)
=============================================================================
