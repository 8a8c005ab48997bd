# Sysmel in TLA+

Sysmel is a self-hosted, dynamically dispatched language. A virtual machine in C
(`lib/sysbvm`, 29,000 lines) interprets and just-in-time compiles it; a compiler
written in Sysmel itself (`package-sources`) produces native programs. The state
that makes both hard to get right is here modelled in TLA+, model-checked with
TLC on small instances, and proved about with TLAPS.

## Inventory

| Part | State | Operations | Hard about it | What makes it correct |
|---|---|---|---|---|
| Heap and collector (`gc.c`, `heap.c`) | list of malloc blocks, colours, mark stack, size account, threshold, request flag, lock count | allocate, shallow copy, safepoint, collect, lock, unlock, the cycle | effects show many allocations later; colours are swapped, not reset; weak slots; the sweep rebuilds the list it walks | only what is unreachable is freed, weak references to it become tombstones, nothing else changes; accounts stay right; cycles end |
| Tuples (`tuple.c`, `tuple.h`) | header (type, kind, colour), slots | new, store, copy, mark weak, enumerate instances | enumeration resurrects garbage | no slot names a freed block |
| Stack records (`stackFrame.c`, `exceptions.c`) | chain of records on the C stack, active handler record | push, pop, raise, unwind to a handler, loop or function | non-local exits over C frames; exceptions inside handlers | handlers nest, clean-ups run, targets are live |
| Loops and environments (`interpreter.c`, `environment.c`) | break, continue and return targets in environments | while, break, continue, return, lexical blocks | a target is the address of a C-stack record | a jump reaches the loop that encloses it |
| Compiled exceptions (`Core.Runtime/.../Exception.sysmel`) | thread-local chain and active handler | on:do:, ensure:, signal, unwindUntil: | clean-ups run in the middle of the walk and may signal themselves | each clean-up once, no dead record on the chain |
| Method lookup (`type.c`, `pic.c`, `bytecode.c`, `MethodDefinition.sysmel`) | method dictionaries, global lookup cache, inline caches | lookup, send (three kinds), define, flush | dictionary first, flush later; negative entries; shared entries | a send runs what the dictionaries say |
| Sets and dictionaries (`set.c`, `dictionary.c`) | open-addressing tables, tally, tombstones of weak values | find, add, at:put:, grow | collisions, growth inside an insertion, weak values | behave as a set or a map |
| Memoization (`function.c`) | memo tables with pending marks | memoized apply | recursion; an exception leaves the mark | one evaluation for each key |
| Analysis queue (`environment.c`, `programEntity.c`, `interpreter.c`, `function.c`) | queue of functions to analyse, capture environments | enqueue, drain, call, adopt | analyses enqueue analyses, call functions and drain the queue themselves; exceptions leave them | none is forgotten or waits for ever |
| Analysis and evaluation of trees (`interpreter.c`, `environment.c`, `type.c`) | symbol bindings, captures, used tuples, expected types | analyse, evaluate | two evaluators, one of them intertwined with the analysis; conversions inserted where types differ | both do what the program means |
| Bytecode compiler, interpreter, JIT (`bytecodeCompiler.c`, `bytecode.c`, `bytecodeJit*.c`) | vectors, labels, usage marks; activation records; machine code | compile, optimize, assemble, interpret, translate | lowered variables, offsets over removed instructions, registers, records on the stack | code means what its tree means, in the same order |
| Integers (`integer.c`) | none between calls | arithmetic, comparison, reading, printing | the border between immediates and objects of several words, carries, normalization | the integers of mathematics |
| Scanner and parser (`scanner.c`, `parser.c`) | position in the text, in the tokens | scan, parse | shared prefixes, errors in the middle of a text | no text is lost, and a tree written down is read back |
| Allocators and growable collections (`chunkedAllocator.c`, `dynarray.c`, `orderedCollection.c`, `orderedOffsetTable.c`) | chunks, capacity, size | allocate, add, search | boundaries, unsigned differences | no overlap, order kept |
| Sysmel compiler (HIR, MIR), assemblers | program graphs | passes | register allocation | programs keep their meaning |
| Debug information, files, platform layer, libraries (graphics, JSON, Morphic) | external | input and output | | not modelled |

The parts meet as follows. Everything allocates from the heap, and the collector
finds its roots in the chain of stack records, in the context, in the GC root
table and in the inline caches. Sends go through the lookup caches; the method
that is run pushes an activation record; exceptions and loop exits cut the chain
back, and so also change the roots. Definitions of methods are Sysmel code: they
send messages between their own steps. The interpreter is single-threaded: there
is one mutator, and the collector runs inside its safepoints. The interleavings
that matter are those of program code with the steps of the runtime that call
back into program code (handlers, clean-ups, definitions, macros in an analysis)
and those of a collection with whatever the program did before it. A text goes
through the scanner and the parser to a tree; the analysis turns the tree into a
typed one, with its names resolved, which is evaluated or compiled to bytecode;
bytecode is interpreted or translated to native code, and all of these have to
agree.

The hazards of each part, at the lines where they bite, and the properties that
cover them are in `PROJECT.json`.

## Modules

| Module | Models | Relation |
|---|---|---|
| `ReachabilityHeap` | what the heap promises: objects, stores, and the disappearance of the unreachable | abstract specification |
| `MarkSweep` | `gc.c`, `heap.c` and the primitives of `tuple.c` that touch the heap | implements `ReachabilityHeap` |
| `MarkSweepProofs` | safety of `MarkSweep`; `MarkSweep` implements `ReachabilityHeap` | theorems |
| `MCMarkSweep` | instances for TLC: `MCMarkSweep.cfg`, `MCHeapTriggers.cfg` | |
| `Unwinding` | stack records, exceptions and loops of the virtual machine | |
| `BoundedNumbers` | sets of numbers below a bound, induction up to one, remainders, sums over finite sets | lemmas |
| `LazyAnalysis` | the analysis of closures and its queue | |
| `InterpreterProofs` | safety of `Unwinding`; nothing on the queue of `LazyAnalysis` is forgotten | theorems |
| `MCUnwinding` | instances that refute one property each: `MCUnwindingCleanUps.cfg`, `MCUnwindingBreak.cfg`, `MCUnwindingContinue.cfg` | |
| `MCInterpreter` | instance of `Unwinding` and `LazyAnalysis`: `MCInterpreter.cfg` | |
| `NativeUnwinding` | exceptions of compiled programs | |
| `MCNativeUnwinding` | instance: `MCNativeUnwinding.cfg` | |
| `NativeUnwindingProofs` | safety of `NativeUnwinding` | theorems |
| `Dispatch` | what a message send promises, without caches | abstract specification |
| `MethodLookup` | lookup, global cache, inline caches, sends, definition and flush | implements `Dispatch` |
| `MethodLookupProofs` | `MethodLookup` implements `Dispatch` | theorems |
| `MCMethodLookup` | instance: `MCMethodLookup.cfg` | |
| `KeyedStore` | what a set or a dictionary promises | abstract specification |
| `HashTables` | the tables of `set.c` and `dictionary.c`: search, insertion, growth, weak values | operators |
| `Dictionaries` | the five classes of collections in use, with collections of garbage | implements `KeyedStore`, but for dropped associations |
| `Memoization` | memoized application (`function.c`) over a weak-value dictionary | uses `HashTables` |
| `TableProofs` | what `Dictionaries` keeps of `KeyedStore`; safety of `Memoization` | theorems |
| `MCTables` | instance: `MCTables.cfg` | |
| `Syntax`, `Memory` | syntax trees; types, conversions, boxes, slots and messages | operators |
| `Analysis` | the analysis of trees: bindings, captures, types, conversions | operators |
| `Evaluation` | the two evaluations, of scripts and of analysed functions | operators |
| `BytecodeCompiler` | compiler, optimizations, assembler | operators |
| `BytecodeInterpreter` | activation records and one action, an instruction | composes the above |
| `VerifiedBytecode` | code that can be verified without running it | what `BytecodeCompiler` owes `BytecodeInterpreter` |
| `BytecodeProofs` | verified code finds its operands, and writes locals before it reads them | theorems |
| `NativeCompiler`, `NativeMachine` | the JIT, and the processor and runtime functions its code needs | in step with `BytecodeInterpreter` |
| `MCCompiler` | programs and their meanings: `MCCompiler.cfg` | |
| `LargeIntegers` | arithmetic of immediates and large integers | |
| `LargeIntegersProofs` | `LargeIntegers` computes the numbers it should and reads back what it prints | theorems |
| `Scanner`, `Parser` | from text to tokens, from tokens to trees | operators |
| `Reading` | texts that are typed, and texts written from trees | uses `Scanner`, `Parser` |
| `MCLibrary` | instance of `LargeIntegers` and `Reading`: `MCLibrary.cfg` | |

An operator `X_y` marked *Mutant* in its comment is not part of a specification:
it is `X` with a plausible bug, used to confirm that a property can fail.

The modules with theorems, and those they rest on, have no `RECURSIVE` operator:
the growth of a table is a recursive function of the slots already moved, and
what is on the analysis queue is stated without recursion, as what no walk from
the first entry can leave out. `LargeIntegers` has functions that recur over the
positions of words and characters. `Memory`, `BytecodeInterpreter` and
`VerifiedBytecode` need none: the interpreter takes code as it is. The modules that
make code or trees (`Analysis`, `Evaluation`, the two compilers, `Scanner`, `Parser`,
`Reading`) recur over trees and are for TLC only.

### MarkSweep

An object is an address with a kind, a type (field 0), slots and a colour.
`heapList` is the list that starts at `firstMallocObject`; during the sweep
`sweepPosition` is what `performSweep` has still to visit. `root` stands for all
root cells together, in the order `sysbvm_gc_iterateRoots` visits them. The
program acts while `phase = "mutator"`; a safepoint that decides to collect
starts the cycle, which then runs in steps: a root, a pop of the mark stack, a
field, the blackening of an object, the weak pass, one swept block, the new
threshold, the swap. The steps are finer than what the program can observe, so
that the invariants of marking can be stated.

What the model assumes of the program, as guards: it stores only values that it
holds in a root (C code that keeps an unrooted pointer over a safepoint is a
hazard the model does not reach); a type is given only to an object with at
least the slots it declares; only pointer tuples are marked weak; an unlock has
its lock. Contents of freed blocks take one canonical value.

### Unwinding and NativeUnwinding

Both take the C stack as a sequence of frames, and the address of a record as
its depth. `Unwinding` has a frame for each record and for each C frame that
runs code without one: the action of a handler runs *on top of* the signal, and
the stack is cut when it returns. `break` and `continue` look for their target
where `environment.c` looks, in the environments of the loops; the body of a
loop runs in the loop's environment, and a lexical block in a new one. Function
activations are left out: a `return` goes to its own activation.

In `NativeUnwinding` the chain (`LastActive`, `previous`) and the stack part
while `unwindUntil:` runs clean-ups, each a piece of arbitrary program code that
may protect, signal and handle. A `signal` frame is in its handler's block, in
the walk, or in a clean-up of the walk.

### LazyAnalysis

There is one entry of the queue for each function, and `nextEntry` is its link.
`captureEnvironment` is what the code keeps there: the environment, `PENDING`
while the function is analysed, nothing afterwards. `analyses` is the stack of
what runs: analyses of functions, eager ones of lambdas whose closure is made
when they end, and drains. A script, or the macros of the innermost analysis,
may create lambdas, call functions, which analyses them before their turn,
drain the queue and raise exceptions; the body of a function that is called
does what its caller may do, and so has no frame. A function that the program
has let go of is the one created next, so that there may be ever more of them.
Primitives adopt definitions as the scripts make them do, while neither side is
being analysed. The analysis is the one in C. Its rewriting in Sysmel
(`Function.sysmel`, lines 76 to 103) restores the environment when an exception
leaves it; the one in C leaves the mark for good, and the model calls such a
function `abandoned`. A definition shared with an adopter may be analysed twice,
one inside the other.

### MethodLookup

`pic` and `globalMethodLookupCache` are the caches, entry by entry; the
hash that picks an entry of the global one is `CacheIndex`, a parameter, so that
two keys may share an entry in any way. `withSelector_addMethod` and `flushLookupSelector` are the two
ends of a definition, with sends allowed in between. `answer` records the method
that the send just made has run. A method object over a bootstrap primitive
changes in place (`adoptDefinitionOf:`), which no cache can notice, and so the
model leaves the dictionary alone. The inline cache's sequence lock is not
modelled as a lock: the machine has one thread and no operation on a cache calls
back; what remains of the sequence number is the index of the entry that the
next addition replaces. Types are born with methods that are not flushed, as
`sysbvm_type_setMethodWithSelector` gives them to derived types, and with their
supertypes: `supertype:` is sent to a type before it has an instance.
`withSelector:addOrReplaceMethod:` is `withSelector_addMethod` for a selector the
type does not define yet, and a change of the method object otherwise.

### HashTables, Dictionaries and Memoization

A table is its storage and its size; a slot is empty or an association, and the
value of an association may be the tombstone. What differs between the five
classes is a parameter: the hash (`sysbvm_tuple_hash` asks the object, the
identity hash is what fits in the header), how full a table may get, whether a
growth drops tombstones and recounts, and what is stored over an association that
has the key. A string is interned by a search with its whole hash and an
insertion with the header's: `KeepsAllButDropped` fails as soon as a capacity is
not a power of two. The return of `sysbvm_dictionary_scanFor` that leaves its GC
record on the chain (`dictionary.c:68`) is never reached, because
`RoomAndSize` holds.

`KeyedStore` promises that an association added to a dictionary, weak or not, is the
one its key has afterwards. The C `add:` of dictionaries, which weak ones inherit
together with its growth that keeps tombstones, drops it when the key is there
(Disagreements, 4). `ImplementsKeyedStore` is the whole promise, and
`KeepsAllButDropped` the promise but for that one case, `DropsAssociation`: every
other request, and every other key, is held to `KeyedStore`. The model is of the
primitives in C. Once `Core.Runtime` is loaded, `add:` sent to a dictionary runs the
Sysmel method of the same name, and the C function is left to dictionary literals.

In `Memoization`, `evaluations` is the stack of bodies being run for one memoized
function. A body may apply the function to other arguments, or to its own; a
template fills its association before it returns, as the constructor of pointer
types does (`type.c:501`). An exception cuts any number of evaluations and leaves
their marks, for good: a later call with the same arguments reports a cycle.
`MarksAccountedFor` says that this is the only way to such a report.

### Syntax to native code

A node is a record with the node's class as its `kind`. `Analysis` threads the
environments through the tree as the code does through its calls: blocks open,
captures, expected type, definitions made so far. An error is a part of the
environment. `Evaluation` has both evaluators: `analyzeAndEvaluate`, for scripts,
and the evaluation of an analysed function with its vectors. A state of an
evaluation carries how the last node ended: with a value, or by a break, a
return or an error that leaves the nodes around it.

`BytecodeCompiler` keeps the instructions with the labels between them, as the
code's list does, then marks uses, lowers boxes and references of slots, and
assembles. Instructions are records, not bytes, but they have the size of their
encoding, because jump offsets count bytes. In `BytecodeInterpreter` a step is an
instruction; the frames are the activation records.

`VerifiedBytecode` says which code is safe to run, as a verifier would: facts about
the captures of each function, and about its locals before each instruction, which
the instructions agree on wherever control can pass from one to the other. The
virtual machine has no verifier, and its native code no checks: the compiler has
to get it right. `CodeIsVerified` computes the facts for the code of each program, from
its text, and finds that they hold on every path, those not taken included.

`NativeCompiler` translates an instruction into machine instructions, whose
operands are *places*: registers, fields of the function's stack record, locals,
the argument vector, a word in an object. What the functions of the runtime do
with the registers and places given to them is in `NativeMachine`, which also has
the chain of stack records. The native code runs in step with the bytecode:
after each bytecode instruction the machine runs on to the next boundary between
the code of two instructions, and there both must agree on functions, arguments,
captures, locals, position and everything written.

A program in `MCCompiler` is two of 19 statements, each with a code and a
meaning. The meaning is a tree that the evaluation of scripts, the simplest of
the four ways to run a program, computes; it is the code itself unless that
evaluation has no such thing or is wrong about it. Messages go to methods outside
of the program, which answer the next element of a list; what is sent, in which
order, is observed.

### LargeIntegers, Scanner, Parser and Reading

`LargeIntegers` has the widths as parameters, so that a few bits meet every
carry, border and normalization that 32 and 64 bits meet. A behaviour reads two
numerals and applies primitives to the results; the number that each result
should be goes along. Operations that compute another number are named, one by
one, in `Faulty`, and not hidden: the behaviour goes on with the number that the
result stands for.

`Scanner` and `Parser` are functions of the text, with the look-ahead and the
retreats of the code. `Reading` either types a text, one fragment after another,
or writes a tree with the least parentheses that the levels of the parser call
for, grows the tree by a construct around it, and reads it back.

## What the runs check

| Run | Shows | Bounds |
|---|---|---|
| `heap` | types, no dangling pointer, tri-colour invariant with all white between cycles, refinement of `ReachabilityHeap` | 3 objects, 1 root, 1 slot and the type of each, addresses symmetric |
| `heap_triggers` | list, account; a collection asked for or due by the threshold is never lost, held back by a lock or not, and none starts that is not due; every cycle ends | 3 objects that refer only to their types, small or of size 4, 1 root, 2 nested locks, startup size 1 and factor 3 |
| `unwinding` | handlers nest; no lambda to be analysed is forgotten, and none waits for ever | 6 frames; two exception types, one under the other, and the null filter; 3 lambdas, 1 primitive, 4 nested analyses and drains, 1 action of the macros of each |
| `unwinding_clean_ups` | refutes: a clean-up record leaves the chain only to run | 6 frames, the same types |
| `unwinding_break` | refutes: break leaves the innermost loop | same |
| `unwinding_continue` | refutes: continue ends the iteration | same |
| `native_unwinding` | chain live, target on chain, each clean-up once | 8 frames, two unrelated types |
| `method_lookup` | caches agree with the dictionaries, one match per type, refinement of `Dispatch` | 3 types in a tree, 2 selectors, 2 methods (one a primitive), 1 inline cache of 2 entries, global cache of 2 shared entries |
| `tables` | collections keep what was stored (refinement of `KeyedStore`, but for associations dropped), have room and count right; one result for each key, marks found and accounted for | 4 keys whose hashes collide at once, later and over the end, two wider than a header's hash; 2 values; in the memo table 3 keys, 3 objects, 3 nested evaluations |
| `dictionary_add` | refutes: what was added last under a key is what the key has | the collections of `tables` |
| `compiler` | operands exist and are written before they are read, and the code can be verified to do so on every path; bytecode, native code and the evaluation of the analysed tree do what the program means, in order; records of native code follow its calls; programs end | programs of two of 19 statements, the second at most 8 after the first in their list; 3 lists of answers; 4 arguments in a native call's vector, 16 in the code |
| `library` | integers agree with mathematics, compare and read back; tokens leave no gap, none is lost in the tree, what is written is read back, positions spell the text | words of 4 bits, native integers of 8, immediates of 7; 11 numerals, 4 words, 3 operations, factorials up to 6; 8 alphabets with texts of 3 to 5 fragments; 16 seeds with one or two constructs around them |

Why they are enough: three objects give chains, cycles, a type with an instance,
a weak object with a dead referent and a live one beside a garbage one; every
action of the collector handles one or two objects at a time, and the safety
part is proved for any number. In `heap_triggers` two small survivors leave a threshold
of 6, and a large object after them a total of 7: thresholds that a cycle has
computed are crossed, as the startup one is. One root is enough for those graphs, because the
program builds a second reference by loads and stores through it. Six frames
hold a handler, a handler inside its action and a signal from there; eight hold
a clean-up that itself protects, handles and signals during an unwinding. Three
types are more than the two entries of the inline cache, and two of them share
an entry of the global one. Four keys in tables of capacity 1 to 8 meet every
kind of collision and two growths. Three lambdas are a queue with a first, a
middle and a last entry, of which one may be analysed by a call; four nested
analyses hold a drain inside an analysis inside a drain. Each statement of the
compiler's programs is one shape of code generation, and the second of two meets
the temporaries, captures and variables that the first has left: every statement
meets itself and its eight successors. Words of 4 bits have carries and borrows in
three operations that words of 32 have in as many, and four words hold the
product of two large operands. Texts of up to five fragments reach each failed
attempt of the scanner and each kind of error of the parser, in alphabets chosen
around one construct each. In `method_lookup` a constraint lets only `AnyValue`
define `doesNotUnderstand:`, and with one method; without it the space is many
times larger and differs only in which type answers.

`CHECK_DEADLOCK FALSE` in the unwinding runs: a program with no handler for its
exception aborts, in the code as in the model. In `compiler` programs end, and in
`library` numbers and texts stop at their bounds.

### Fairness

`WF_vars(performCycle)` in `MarkSweep`, for `CycleTerminates` alone. The cycle
is straight-line code of the only thread, called from a safepoint: nothing else
can run before it returns. Nothing is assumed of the program: it may never reach
a safepoint, and then never collects.

`WF_lvars(AnalysisEnds \/ DrainStep)` in `LazyAnalysis`, for `QueuedIsTaken`: the only
thread goes on, so a drain takes its next entry, and an analysis, whose text is
finite, ends. Calls, new lambdas and exceptions are up to the program; nothing is
assumed of them. Without the bound on what a text does, `MaxActions`, an analysis
might go on for ever, which in the code only an infinite text can.

`WF_interpreterVars(Step)` in `MCCompiler`, for `ProgramEnds`: the interpreter is a
loop that takes the next instruction. The programs end because the lists of
answers do.

### Disagreements met

1. An exception that leaves `ensure:` in the virtual machine skips the clean-up:
   `prepareUnwindingUntil` passes its target instead of its position
   (`stackFrame.c:279`). The Sysmel version of the same primitive runs it
   (`NativeUnwinding`, `CleanUpsRun` there holds).
2. `continue()` in a script's loop is given the address of the break record
   (`interpreter.c:4739`) and raises an error.
3. `break()` and `continue()` look past the first environment for the *return*
   target (`environment.c:508`, `520`), so a lexical block hides the loop.
4. `add:` of a dictionary, under a key that is there, assigns the association to a
   local variable instead of the slot (`dictionary.c:183`) and so drops it. The
   Sysmel version (`Dictionary.sysmel:66`) and identity dictionaries
   (`dictionary.c:561`) replace the one stored. A dictionary literal with a repeated
   key keeps the first, and a weak dictionary a value that has died.

`ContinueFindsItsLoop` is checked only for `continue()` directly in a loop's
body, and `BreakFindsItsLoop` for all of a body, so that each names one cause.

The other components disagree with what their names, comments or other versions
say in more places. No run is spent on these: the model does what the code does,
and the property that would fail says where it does not apply.

*Evaluation and compilation* (excluded from the programs, or met by a meaning of
its own):

- Bytecode sends of a message that is not understood look the same selector up again
  instead of `doesNotUnderstand:` (`bytecode.c:140`, `168`, under the comment "Attempt to
  send doesNotUnderstand:"), and report an error; the interpreter of trees looks up the
  right one (`interpreter.c:3275`). `bytecodeSend` and `compiledSend` of `MethodLookup` do
  what the code does, and `Dispatch` allows both answers.
- An analysed function that is evaluated sets no targets for `break` and
  `continue`; a loop tested at its end assigns an undecoded tuple to its condition
  (`interpreter.c:4571`).
- `UseNamedSlots` binds its tuple only when it is compiled (`interpreter.c:4830`,
  `4816`); a name is not looked up in used tuples by the evaluation of scripts.
- A script's `if` on a mutable variable decodes the reference, and arrays,
  associations and byte arrays keep references.
- A put into a slot is a value for the evaluation and nothing for the bytecode
  (`interpreter.c:1976`).
- A temporary of the undefined type is the literal nil, and a store into it fails at
  run time (`bytecodeCompiler.c:258`, `bytecode.c:251`).
- The analysis of a chain of one message drops the message (`interpreter.c:3191`);
  `do {break} while false` is folded to its body.
- A switch whose cases overlap takes the first in bytecode and the last in the
  Sysmel evaluator.
- The operand count extension never moves the program counter of the interpreter
  (`bytecode.c:205`), and the JIT handles it.
- A function left by an exception during its analysis stays pending for good
  (`interpreter.c:1229`), and the Sysmel version restores it.

*Scanner and parser*:

- A trailing comma swallows the token that closes its tuple (`parser.c:653`,
  `976`): `(a,) b`. `(a b); c` sends `c` to `a` (`parser.c:863`).
- `1.5+3` is one token, `1.5e-3` leaves its `e` (`scanner.c:441`, `454`); `3-1` is two
  integers; `x:=1` starts with the keyword `x:`.
- A radix may be `R` for the scanner and not for the integer (`integer.c:368`).
- What follows an expression without a dot is ignored (`parser.c:1021`, `1125`);
  a chain that ends in `;` and an empty block at the end of a text read out of
  bounds, which is an error (`parser.c:56`); `{.}` takes its brace for an error;
  arguments of a block without a bar are dropped (`parser.c:310`).
- The position of a pragma ends where its first keyword does (`parser.c:1048`).

*Integers* (the cases of `Faulty`):

- `normalize` has its loop the wrong way round and returns a count of words
  (`integer.c:147`, `181`); negative native integers of two words are encoded wrong
  (`integer.c:233`); a difference of two numbers of the same sign is wrong when
  the first is the smaller; zero may be negative, and is then not zero.
- Division of large integers answers null, and nothing looks for a zero divisor or
  for the least integer over -1.

## What is proved

All proofs are for every value of the constants that the named `ASSUME`s allow, which
TLC evaluates on each instance.

**`MarkSweepProofs`**: for every set of objects, number of roots, slots and nested
locks, every threshold, and any set of shapes.

- `TypeCorrect`: `Spec => []TypeOK`.
- `CollectorInvariant`: `Spec => []GCInv`, the inductive invariant.
- `NoDanglingPointerHolds`, `TriColourHolds`, `EveryBlockListedHolds`: the properties of the runs, from `GCInv`.
- `RequestsAreServedHolds`, from `TriggerInv`: `GCInv`, and
  in the program's phase a total above the threshold has been noticed; up to the end of
  the sweep of a cycle the request that started it still stands (`RequestInv`). A sweep
  leaves a total below the new threshold, which takes a growth factor that is not zero.
- `HeapAccountHolds`: the total is the sum over the heap. The sum is a fold, defined
  by recursion over sets in an order that is not specified; `BoundedNumbers` proves that
  the recursion has a value and that any element may be taken first
  (`TotalWithout`), by induction on the number of elements. That the heap is finite
  follows from its list (`Listed`), whatever the set of addresses.

`NoDanglingPointer` speaks of the program's phase alone and is not inductive:
that the sweep frees nothing still referred to follows from what marking has
established, and that from the state in which a cycle starts. `GCInv` says what
holds in each phase. `AllWhite` before a cycle; `GrayInv`, `BlackInv`, `RootInv`
while marking (gray objects are on the stack or being scanned, black ones refer
strongly to no white one, roots visited are not white); `SweepInv` afterwards
(what survivors refer to is black); `Listed` throughout, so that the sweep meets
every block once; `Padding`, because the weak pass and marking look only at the
slots an object has. There is a lemma for each action, and one for each group of
actions that leaves a part of the invariant alone.

The refinement, in the same module: `ImplementsReachabilityHeapHolds`, that `MarkSweep`
with any program implements `ReachabilityHeap`. The step that matters is the end of
marking, which is the abstract `Collect`: what is marked must be the least closed
set. It is closed, by `GCInv`, as nothing is gray any more (`MarkedIsClosed`), so
nothing reachable is lost. That it is the least, so that no garbage is kept,
`GCInv` does not say: a collector that marks everything satisfies it.
`OnlyReachableMarked` adds that, while marking, whatever is not white is in every
set that contains the roots and what its members keep alive. It is inductive
because marking changes no reference, and so no closed set
(`ClosedUnderMarkingUnchanged`), and marks only roots and strong fields of gray
objects. All other steps of the cycle are stutters: the abstract heap has the
tombstones, and lacks what the sweep has still to free, from the end of marking on.

**`InterpreterProofs`**, stack records: for every stack depth, exception hierarchy and set of filters,
`TypeCorrect` and `HandlersNestHolds`, from `UnwindingInvariant`. `HandlersNest` is not
inductive: an exit cuts the stack at a depth read from an environment or a
handler. `TargetsInv` and `BottomInv` say that such a depth is that of a frame of
the right kind, below everything it leaves; then a cut removes the action of a
handler with the handler, or neither.

**`BytecodeProofs`**: for any code that can be verified, of any functions, literals and
objects, and any answers to messages, `VerifiedCodeFindsItsOperands` and
`VerifiedCodeWritesBeforeItReads`: `VerifiedSpec` implies `[]OperandsExist` and
`[]WrittenBeforeRead`. `VerifiedSpec` starts in a state of which `Starts` holds and takes the
steps of the interpreter; `CodeIsVerified` is that each program of the run `compiler`
starts in such a state. Neither property is inductive. The invariant, `BytecodeInv`,
says that the facts verified for an instruction hold of every record that stands at
it, callers included: the result of a call is written when the callee has
returned, in the locals of the record below (`ReturnKeeps`), so a caller must still be
at its call, and knows about its locals what it will need then. What a call finds in a
closure (captures enough for its function, arguments as many as its type has) must have
been true when the closure was made and since, wherever the closure has been: in
a local, a box, a slot, an array, the captures of another closure. Such values nest to
any depth. The invariant avoids an induction over them: there is *some* set of well
made values that contains the captures of each closure in it, the literals, and
whatever boxes, slots and locals hold; a step enlarges the set by the value it makes
(`WellMadeMore`), and primitives and conversions only make values that may be added.

**`NativeUnwindingProofs`**: for every stack depth, set of exceptions and filters,
`TypeCorrect`, `ChainIsLiveHolds`, `TargetStaysOnChainHolds` and `CleanUpsRunHolds`,
from `NativeUnwindingInvariant`. The chain is a recursive function of the stack; the
induction that its lemmas need (`ChainStep`, `ChainIsBelow`, `ChainIsClosed`,
`ChainIsLocal`) is `InductionBelow`, on a set of numbers. That the handler of the
innermost signal is on the chain is not inductive: an exception that a clean-up
signals may leave the frames of the unwinding that runs the clean-up, and then the
signal below becomes the innermost. `Resumable` and `ResumableBelow` say that what
is true of the whole stack and its chain is true of the frames below each record of
the chain and what that record points to, which is where `on:do:`, `ensure:` and
the `longjmp` of `unwindUntil:` lead. No such state is touched meanwhile: a clean-up is
started on a record that leaves the chain, and what the frames below it promise
depends on them alone (`SoundIsLocal`).

**`MethodLookupProofs`**: for every tree of types, every hash, number of sites and
entries, `TypeCorrect`, `CachesAgreeHolds`, `OneMatchPerTypeHolds`, and
`ImplementsDispatchHolds`, the refinement of `Dispatch`. `CachesAgree` needs to be
told what is allowed during a definition: `CachesInv` lets an entry name the method
from before the definition or with it; the flush removes all entries for its
selector, and for others the two are the same. `TypesInv` says that every entry is for
a type that exists, whose supertypes exist, so that a type born with methods
contradicts none. `MatchesInv`, one entry of an inline cache for a type, makes the
first match the only one.

**`TableProofs`**: for every set of keys and values, every hash, every range of the
hashes kept in headers, and the five kinds of collections.

- `TableInvariant`: `DSpec => []CollectionInvariant`. Its heart is `StorageOK`: each
  association is *reached*, which is to say that on the probes from its hash no slot
  before its own is empty. An insertion fills an empty slot and so takes no
  association out of reach; a search stops at the first slot that is empty or
  matches, so it finds what is reached and, where there is room, always stops. Slots
  are never emptied: a value that dies leaves its association with a tombstone. A
  growth is a recursion over the old slots, with the invariant that the new table
  holds exactly what was kept so far (`RehashStep`, `IncreaseCapacityResult`).
- `RoomAndSizeHolds`: an empty slot always remains; the size counts the content.
- `KeepsAllButDroppedHolds`: `DSpec /\ []SymbolsFit => KeepsAllButDropped`, for all five
  collections. The hypothesis is about sets of symbols only: a string is looked up with
  its whole hash and kept where the header's hash, of 22 bits, leads, and both agree as
  long as the capacity divides 2^22. Capacities are 8 times a power of two, so this holds
  up to 2^22 slots in a symbol set; past that a string may be interned twice, and the
  statement without the hypothesis is false. All other kinds need none.
- `ImplementsKeyedStoreHolds`: the same with `kind \notin Dictionary` implies
  `ImplementsKeyedStore`. Sets of symbols, identity and method dictionaries implement the
  whole promise; for dictionaries and weak ones, the two in `Dictionary`, run
  `dictionary_add` refutes it.
- `MemoizationInvariantHolds`, and from it `OneResultPerKeyHolds`, `NoReentryHolds`
  and `MarksAccountedForHolds`, for every number of nested evaluations. None of the
  three is inductive: growths drop dead associations and move the others, so that
  the invariant also says that the association of every evaluation, early results
  included, and every result the program holds is still entered
  (`EvaluationsEntered`, `EarlyResults`, `HeldEntered`).

**`InterpreterProofs`**, lazy analysis: for every set of functions and any nesting of analyses and
drains, `NothingForgottenHolds`, from `LazyInvariantHolds`. A step links or unlinks one
entry, and to conclude that the others are still met one has to know that the links
are one chain that ends at `lastEntry`, without a cycle, and that no function is on it
twice. `Chain` says so through the sets a walk stays in: what is on the queue is in
each such set, and every member leads to the last entry. The rest of the invariant
tells where a function may be in each state of its environment: on the queue, under
analysis, or left by an exception.

**`LargeIntegersProofs`**: for all widths of words, native integers, immediates and
nibbles that `Widths` allows, numbers of any size and computations of any length.

- `IntegersAgreeHolds`: outside of `Faulty`, each result stands for the number that
  the operation should give. It follows from `AgreementHolds`, the inductive invariant:
  besides, every result has its form (an immediate in range, or words in range).
- `ComparesAndReadsBackHolds`: all integers compare as their numbers do, except the
  zero that is stored as a large negative; `parseString` reads the digits that
  `toHexString` prints, with the radix before them, as the magnitude of the number, and
  what `printString` prints as the immediate it was.

A magnitude is known by its tails, the numbers that the words from some position on
stand for. A sum, a difference or a row of a product is added up from its highest tail
down, with the carry or borrow into each word (`SumIs`, `DifferenceIs`, `ProductIs`);
the last carry finds a word because the result is one word longer. What is decoded
drops zeros only, and `normalize`, which stops at the first zero from the top, leaves
products alone because their top word is zero (`NormalizeIs`, `MultiplyIs`). Products of
immediates wrap around in a native integer, and dividing them again tells whether
they did: a wrong product differs from the true one by a multiple of `2^NativeBits`,
which is too much for a quotient that fits. The functions of `LargeIntegers` that recur
are taken from the definition of `CHOOSE`; what they compute is proved by induction
upwards or downwards on positions (`Upwards`, `Downwards`). In the cases of `Faulty`
only the form of the result is claimed, which is why those are kept as narrow as they
are: two words that `normalize` happens to put together rightly, the least native
integer, and a factorial of a large integer that is at most one are not among them.

Reading back is an induction on the digits: after each of them, the loop of the parser
holds a number that stands for what the digits so far spell (`Stands`, `DigitsRead`),
across the step from immediates to large integers. Decimal digits spell a number by
induction on its tenths (`DecimalDigitsSpell`), hexadecimal ones because what remains of
a magnitude above a digit is divided by the radix at each step, within a word and from
one word to the next (`RestStep`, `HexDigitsSpell`). The least immediate is the hard
case: its digits are read as a positive number which no immediate holds, and its
negative is right only because the lower word of that number is zero, an exception in
`LosesWords`; and that it is read with exactly two words takes that a power of two does
not end with the digit 0 (`PowerNotOfTens`, `LeastIsNegated`).

## What is only model-checked

- Liveness (`CycleTerminates`, `QueuedIsTaken`, `ProgramEnds`), with the fairness above:
  the prover has neither `ENABLED` nor well-founded arguments over traces.
- What rests on recursion over trees and texts: `MeansTheSame`, `EffectsInOrder`,
  `EvaluatorAgrees`, `NativeAgrees`, `RecordsFollowCalls`; that the recursive compiler
  makes code that can be verified (`CodeIsVerified`; what follows from it is proved);
  `TokensTile`, `NothingLost`, `ReadsWhatIsWritten`, `PositionsSpell`. What a recursive
  operator computes for every input takes an induction over data, which the prover's library states with operator parameters
  that none of the installed backends instantiates. Where the recursion is over numbers
  or finite sets and the value can be characterised beforehand, as for growths
  of tables, chains of records, words and digits of integers and the account of the heap, it
  has been proved by induction on a set of numbers (`InductionBelow`).
- `BreakFindsItsLoop`, `ContinueFindsItsLoop`, `CleanUpsRun` of the virtual machine and
  `ImplementsKeyedStore` of dictionaries, which the runs refute.

## Not modelled

The sources listed as `not_modelled` in `PROJECT.json`, each with its reason.
Within the modelled parts:

- Heap: identity hashes, the bytes of byte tuples, heap destruction, the 32-bit
  size field of a block (`internal/heap.h:17`). Context images are compiled out
  (`context.c:1703`).
- Stack: records that hold only roots or source positions, stack traces, function
  activations in `Unwinding`.
- Lookup: macro and fallback methods, virtual tables, the arguments of a message
  that is not understood (`interpreter.c:3285` stores them in the argument itself).
- Trees: types on the analysis queue, namespaces, pragmas, and macros, whose
  expansions the programs start from; lines and columns.
- Bytecode: its bytes; instructions that the direct compiler never emits
  (sends with an explicit lookup, references of slots by index, a jump if true).
- JIT: machine code bytes, the calling convention of Windows, inline caches in
  native sends, trampolines with their session tokens (which change only with an
  image), debug and unwind information, object files.
- Numbers: floating point, integers of fixed width, bitwise operations.
- Sysmel compiler and libraries: programs of the language, not of its machine.

## Plan

1. Done: `ReachabilityHeap`, `MarkSweep`, safety and refinement proved.
2. Done: `Unwinding`, `NativeUnwinding`, the safety of both proved.
3. Done: `Dispatch`, `MethodLookup`, caches and refinement proved.
4. Done: `KeyedStore`, `HashTables`, `Dictionaries`, `Memoization`, refinement and
   safety proved.
5. Done: `LazyAnalysis`, its safety proved.
6. Done: `LargeIntegers`, its arithmetic, comparison and reading proved; `Syntax` to
   `NativeMachine`; `Scanner`, `Parser`, `Reading`.
7. Done: `VerifiedBytecode`, the operands of `BytecodeInterpreter` proved.
8. Later: `RecordChain`, the records of GC roots that C functions push and pop, with the
   loops that leave one behind (`dictionary.c:29`, `interpreter.c:4711`); closures
   whose return target outlives the activation (`interpreter.c:5511`); the register
   allocator of the middle representation; the chunked allocator.
