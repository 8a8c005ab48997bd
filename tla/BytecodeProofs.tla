---------------------------- MODULE BytecodeProofs ----------------------------
(***************************************************************************)
(* Verified code runs on operands that exist and locals that are written,  *)
(* whatever the program, its objects and the answers to its messages.      *)
(*                                                                         *)
(* The invariant says of every activation record what was verified of its  *)
(* function: the facts known before the instruction it is at hold of its   *)
(* locals, and those of its captures and arguments.  The values a program  *)
(* holds nest, a closure in the captures of another, so the invariant      *)
(* speaks of some set of well made values that has the captures of every   *)
(* closure in it; a step adds the value that it makes to the set.          *)
(***************************************************************************)
EXTENDS VerifiedBytecode, BoundedNumbers

FrameFits(values, program, known, frame) ==
  /\ frame = [function |-> frame.function, pc |-> frame.pc, arguments |-> frame.arguments,
              captures |-> frame.captures, locals |-> frame.locals]
  /\ frame.function \in DOMAIN program
  /\ frame.pc \in DOMAIN program[frame.function].instructions
  /\ \A i \in 1 .. program[frame.function].arguments :
       i \in DOMAIN frame.arguments /\ frame.arguments[i] \in values
  /\ Fits(values, frame.captures, known[frame.function].capture)
  /\ DOMAIN frame.locals = 1 .. program[frame.function].locals
  /\ Fits(values, frame.locals, known[frame.function].local[frame.pc])

\* A caller is at its call.
Calls(program, frame) ==
  program[frame.function].instructions[frame.pc].opcode \in {"call", "uncheckedCall"}

FramesFit(values, program, known, records) ==
  /\ IsSequence(records)
  /\ \A i \in DOMAIN records : FrameFits(values, program, known, records[i])
  /\ \A i \in 1 .. Len(records) - 1 : Calls(program, records[i])

Machine(known, values) ==
  /\ Verified(code, known)
  /\ ValuesFit(values, code, known, world)
  /\ FramesFit(values, code, known, frames)
  /\ Running => frames # <<>>

BytecodeInv == \E known, values : Machine(known, values)

-----------------------------------------------------------------------------
(******************************* The operands ******************************)

\* The operands that an instruction fetches, among all its operands.
LEMMA SourcesAre ==
  ASSUME NEW instruction, IsSequence(instruction.operands),
         Len(instruction.operands) >= DestinationCount(instruction) + OffsetCount(instruction)
  PROVE  /\ Len(instruction.operands) \in Nat
         /\ DOMAIN instruction.operands = 1 .. Len(instruction.operands)
         /\ OffsetCount(instruction) \in Nat /\ DestinationCount(instruction) \in {0, 1}
         /\ Len(SourceOperands(instruction)) =
              Len(instruction.operands) - OffsetCount(instruction) - DestinationCount(instruction)
         /\ Len(SourceOperands(instruction)) \in Nat
         /\ DOMAIN SourceOperands(instruction) = 1 .. Len(SourceOperands(instruction))
         /\ \A i \in DOMAIN SourceOperands(instruction) :
              SourceOperands(instruction)[i] = instruction.operands[i + DestinationCount(instruction)]
<1> DEFINE operands == instruction.operands
           S == {operands[i] : i \in DOMAIN operands}
           from == DestinationCount(instruction)
           offsets == OffsetCount(instruction)
<1>1. operands \in Seq(S) /\ Len(operands) \in Nat /\ DOMAIN operands = 1 .. Len(operands)
  BY DEF IsSequence
<1>2. from \in {0, 1}
  BY DEF DestinationCount
<1>3. offsets \in Nat
  <2> DEFINE half == Len(operands) \div 2
  <2>1. half \in Nat
    <3> HIDE DEF operands
    <3>1. \A n \in Nat : n \div 2 \in Nat
      OBVIOUS
    <3> QED
      BY <1>1, <3>1
  <2>2. offsets \in {0, 1, half}
    BY Zenon DEF OffsetCount
  <2> HIDE DEF offsets, half
  <2> QED
    BY <2>1, <2>2
<1>4. SourceOperands(instruction) = SubSeq(operands, from + 1, Len(operands) - offsets)
  BY DEF SourceOperands
<1> HIDE DEF S, from, offsets, operands
<1>5. /\ SubSeq(operands, from + 1, Len(operands) - offsets)
           = [i \in 1 .. Len(operands) - offsets - from |-> operands[i + from]]
      /\ Len(operands) - offsets - from \in Nat
  BY <1>1, <1>2, <1>3 DEF from, offsets, operands
<1> DEFINE sources == SourceOperands(instruction)
<1>6. /\ Len(sources) = Len(operands) - offsets - from
      /\ DOMAIN sources = 1 .. Len(operands) - offsets - from
      /\ \A i \in DOMAIN sources : sources[i] = operands[i + from]
  <2> DEFINE n == Len(operands) - offsets - from
             s == [i \in 1 .. n |-> operands[i + from]]
  <2>1. sources = s
    BY <1>4, <1>5
  <2>2. n \in Nat
    BY <1>5
  <2> HIDE DEF n
  <2>3. DOMAIN s = 1 .. n /\ Len(s) = n /\ \A i \in DOMAIN s : s[i] = operands[i + from]
    BY <2>2
  <2> QED
    BY <2>1, <2>3, Zenon DEF n
<1> HIDE DEF sources
<1>7. /\ Len(operands) \in Nat /\ DOMAIN operands = 1 .. Len(operands)
      /\ offsets \in Nat /\ from \in {0, 1}
      /\ Len(sources) = Len(operands) - offsets - from
      /\ Len(sources) \in Nat
      /\ DOMAIN sources = 1 .. Len(sources)
      /\ \A i \in DOMAIN sources : sources[i] = operands[i + from]
  BY <1>1, <1>2, <1>3, <1>5, <1>6
<1> QED
  BY <1>7, Zenon DEF from, offsets, operands, sources

\* What is known of an operand is true of the element it names.
LEMMA KnownIsFetched ==
  ASSUME NEW known, NEW values, ValuesFit(values, code, known, world),
         NEW frame, FrameFits(values, code, known, frame),
         NEW operand, NEW shape,
         Knows(code, known, frame.function, frame.pc, operand, shape)
  PROVE  /\ operand[1] \in {"argument", "capture", "literal", "local"}
         /\ operand[2] \in DOMAIN VectorOf(frame, operand)
         /\ VectorOf(frame, operand)[operand[2]] \in values
         /\ shape \in Shapes(VectorOf(frame, operand)[operand[2]])
<1>1. CASE operand[1] = "argument"
  BY <1>1 DEF Knows, FrameFits, VectorOf, Shapes
<1>2. CASE operand[1] = "capture"
  BY <1>2 DEF Knows, FrameFits, VectorOf, Fits
<1>3. CASE operand[1] = "literal"
  BY <1>3 DEF Knows, FrameFits, VectorOf, LiteralAt, ValuesFit, BytecodeOf
<1>4. CASE operand[1] = "local"
  BY <1>4 DEF Knows, FrameFits, VectorOf, Fits
<1> QED
  BY <1>1, <1>2, <1>3, <1>4 DEF Knows
-----------------------------------------------------------------------------
(***************************** The next frame ******************************)

\* What was known of a larger set of values was known of a smaller one.
LEMMA FitsMore ==
  ASSUME NEW values, NEW more, values \subseteq more, NEW vector, NEW facts,
         Fits(values, vector, facts)
  PROVE  Fits(more, vector, facts)
BY DEF Fits

LEMMA FrameFitsMore ==
  ASSUME NEW values, NEW more, values \subseteq more, NEW program, NEW known, NEW frame,
         FrameFits(values, program, known, frame)
  PROVE  FrameFits(more, program, known, frame)
BY FitsMore DEF FrameFits

\* A frame, field by field.
Frame(f, pc, arguments, captures, locals) ==
  [function |-> f, pc |-> pc, arguments |-> arguments, captures |-> captures, locals |-> locals]

LEMMA FrameChanged ==
  ASSUME NEW f, NEW pc, NEW arguments, NEW captures, NEW locals, NEW frame,
         frame = Frame(f, pc, arguments, captures, locals),
         NEW next, NEW new
  PROVE  /\ [frame EXCEPT !.pc = next] = Frame(f, next, arguments, captures, locals)
         /\ [frame EXCEPT !.locals = new] = Frame(f, pc, arguments, captures, new)
<1>1. /\ frame \in [function : {f}, pc : {pc}, arguments : {arguments}, captures : {captures},
                    locals : {locals}]
      /\ frame.function = f /\ frame.pc = pc /\ frame.arguments = arguments
      /\ frame.captures = captures /\ frame.locals = locals
  BY DEF Frame
<1>2. [frame EXCEPT !.pc = next] = Frame(f, next, arguments, captures, locals)
  BY <1>1 DEF Frame
<1>3. [frame EXCEPT !.locals = new] = Frame(f, pc, arguments, captures, new)
  BY <1>1 DEF Frame
<1> QED
  BY <1>2, <1>3

LEMMA FrameOf ==
  ASSUME NEW values, NEW program, NEW known, NEW f \in DOMAIN program,
         NEW pc \in DOMAIN program[f].instructions, NEW arguments, NEW captures, NEW locals,
         \A i \in 1 .. program[f].arguments : i \in DOMAIN arguments /\ arguments[i] \in values,
         Fits(values, captures, known[f].capture),
         DOMAIN locals = 1 .. program[f].locals,
         Fits(values, locals, known[f].local[pc])
  PROVE  FrameFits(values, program, known, Frame(f, pc, arguments, captures, locals))
<1> DEFINE frame == Frame(f, pc, arguments, captures, locals)
<1>1. /\ frame.function = f /\ frame.pc = pc /\ frame.arguments = arguments
      /\ frame.captures = captures /\ frame.locals = locals
      /\ frame = [function |-> frame.function, pc |-> frame.pc, arguments |-> frame.arguments,
                  captures |-> frame.captures, locals |-> frame.locals]
  BY DEF Frame
<1> HIDE DEF frame
<1>2. FrameFits(values, program, known, frame)
  BY <1>1 DEF FrameFits
<1> QED
  BY <1>2 DEF frame

Moved(frame, pc) == [frame EXCEPT !.pc = pc]

\* The next instruction of a frame that writes no local.
LEMMA GoesOn ==
  ASSUME NEW program, NEW known, NEW values, NEW more, values \subseteq more,
         NEW frame, FrameFits(values, program, known, frame), Verified(program, known),
         NEW next \in Successors(program[frame.function].instructions[frame.pc]),
         LET instruction == program[frame.function].instructions[frame.pc]
         IN ~(DestinationCount(instruction) = 1 /\ instruction.operands[1][1] = "local")
  PROVE  FrameFits(more, program, known, Moved(frame, next))
<1> DEFINE f == frame.function
<1>1. f \in DOMAIN program /\ frame.pc \in DOMAIN program[f].instructions
  BY DEF FrameFits
<1>2. FlowVerified(program, known, f, frame.pc)
  BY <1>1 DEF Verified
<1>3. /\ next \in DOMAIN program[f].instructions
      /\ \A fact \in known[f].local[next] : fact \in known[f].local[frame.pc]
  BY <1>2 DEF FlowVerified, KnowsAfter
<1>4. Moved(frame, next) = Frame(f, next, frame.arguments, frame.captures, frame.locals)
  <2>1. frame = Frame(frame.function, frame.pc, frame.arguments, frame.captures, frame.locals)
    BY DEF FrameFits, Frame
  <2> QED
    BY <2>1, FrameChanged DEF Moved
<1>5. Fits(more, frame.captures, known[f].capture)
  BY FitsMore DEF FrameFits
<1>6. Fits(more, frame.locals, known[f].local[next])
  BY <1>3 DEF FrameFits, Fits
<1>7. /\ \A i \in 1 .. program[f].arguments : i \in DOMAIN frame.arguments /\ frame.arguments[i] \in more
      /\ DOMAIN frame.locals = 1 .. program[f].locals
  BY DEF FrameFits
<1> HIDE DEF f
<1> QED
  BY <1>1, <1>3, <1>4, <1>5, <1>6, <1>7, FrameOf

\* The next instruction of a frame that writes a local.
LEMMA GoesOnWith ==
  ASSUME NEW program, NEW known, NEW values, NEW more, values \subseteq more,
         NEW frame, FrameFits(values, program, known, frame), Verified(program, known),
         NEW next \in Successors(program[frame.function].instructions[frame.pc]),
         NEW local,
         LET instruction == program[frame.function].instructions[frame.pc]
         IN DestinationCount(instruction) = 1 /\ instruction.operands[1][1] = "local"
            /\ instruction.operands[1][2] = local,
         NEW value \in more,
         \A shape : Gives(program, known, frame.function, frame.pc, shape) => shape \in Shapes(value)
  PROVE  FrameFits(more, program, known, [frame EXCEPT !.locals[local] = value, !.pc = next])
<1> DEFINE f == frame.function
           locals == [frame.locals EXCEPT ![local] = value]
<1>1. f \in DOMAIN program /\ frame.pc \in DOMAIN program[f].instructions
  BY DEF FrameFits
<1>2. FlowVerified(program, known, f, frame.pc) /\ OperandsVerified(program, known, f, frame.pc)
  BY <1>1 DEF Verified
<1>3. /\ next \in DOMAIN program[f].instructions
      /\ \A fact \in known[f].local[next] : KnowsAfter(program, known, f, frame.pc, fact)
  BY <1>2 DEF FlowVerified
<1>4. [frame EXCEPT !.locals[local] = value, !.pc = next]
        = Frame(f, next, frame.arguments, frame.captures, locals)
  <2> DEFINE pc == frame.pc
             arguments == frame.arguments
             captures == frame.captures
             written == [frame EXCEPT !.locals[local] = value]
  <2>1. frame = Frame(f, pc, arguments, captures, frame.locals)
    BY DEF FrameFits, Frame
  <2>2. written = [frame EXCEPT !.locals = locals]
    OBVIOUS
  <2> HIDE DEF locals, f, pc, arguments, captures
  <2>3. [frame EXCEPT !.locals = locals] = Frame(f, pc, arguments, captures, locals)
    BY <2>1, FrameChanged
  <2> HIDE DEF written
  <2>4. written = Frame(f, pc, arguments, captures, locals)
    BY <2>2, <2>3
  <2>5. [written EXCEPT !.pc = next] = Frame(f, next, arguments, captures, locals)
    BY <2>4, FrameChanged
  <2> QED
    BY <2>5 DEF written, arguments, captures
<1>5. Fits(more, frame.captures, known[f].capture)
  BY FitsMore DEF FrameFits
<1>6. DOMAIN frame.locals = 1 .. program[f].locals /\ local \in 1 .. program[f].locals
  BY <1>2 DEF FrameFits, OperandsVerified
<1>7. Fits(more, locals, known[f].local[next])
  <2> SUFFICES ASSUME NEW fact \in known[f].local[next]
               PROVE  /\ fact[1] \in DOMAIN locals /\ locals[fact[1]] \in more
                      /\ fact[2] \in Shapes(locals[fact[1]])
    BY Zenon DEF Fits
  <2>1. KnowsAfter(program, known, f, frame.pc, fact)
    BY <1>3
  <2>2. CASE fact[1] = local
    <3>1. Gives(program, known, f, frame.pc, fact[2])
      BY <2>1, <2>2 DEF KnowsAfter
    <3>2. fact[2] \in Shapes(value)
      BY <3>1
    <3> QED
      BY <1>6, <2>2, <3>2
  <2>3. CASE fact[1] # local
    <3>1. fact \in known[f].local[frame.pc]
      BY <2>1, <2>3 DEF KnowsAfter
    <3>2. /\ fact[1] \in DOMAIN frame.locals /\ frame.locals[fact[1]] \in values
          /\ fact[2] \in Shapes(frame.locals[fact[1]])
      BY <3>1 DEF FrameFits, Fits
    <3> QED
      BY <2>3, <3>2
  <2> QED
    BY <2>2, <2>3
<1>8. \A i \in 1 .. program[f].arguments : i \in DOMAIN frame.arguments /\ frame.arguments[i] \in more
  BY DEF FrameFits
<1>9. DOMAIN locals = 1 .. program[f].locals
  BY <1>6
<1> HIDE DEF f, locals
<1> QED
  BY <1>1, <1>3, <1>4, <1>5, <1>7, <1>8, <1>9, FrameOf

\* The frame of a caller goes on with the result of its call.
LEMMA GoesOnWithResult ==
  ASSUME NEW known, NEW values, NEW more, values \subseteq more,
         NEW frame, FrameFits(values, code, known, frame), Verified(code, known),
         NEW value \in more,
         LET instruction == code[frame.function].instructions[frame.pc]
         IN Successors(instruction) = {instruction.endPC},
         \A shape : Gives(code, known, frame.function, frame.pc, shape) => shape \in Shapes(value)
  PROVE  FrameFits(more, code, known, WithDestination(frame, value))
<1> DEFINE instruction == code[frame.function].instructions[frame.pc]
<1>1. instruction.endPC \in Successors(instruction)
  OBVIOUS
<1>2. CASE DestinationCount(instruction) = 1 /\ instruction.operands[1][1] = "local"
  BY <1>1, <1>2, GoesOnWith DEF WithDestination, BytecodeOf
<1>3. CASE ~(DestinationCount(instruction) = 1 /\ instruction.operands[1][1] = "local")
  <2>1. WithDestination(frame, value) = Moved(frame, instruction.endPC)
    BY <1>3 DEF WithDestination, BytecodeOf, Moved
  <2> QED
    BY <1>1, <1>3, <2>1, GoesOn
<1> QED
  BY <1>2, <1>3

-----------------------------------------------------------------------------
(******************************** The frames *******************************)

LEMMA SequenceIs ==
  ASSUME NEW S, NEW s \in Seq(S)
  PROVE  IsSequence(s) /\ Len(s) \in Nat /\ DOMAIN s = 1 .. Len(s)
<1>1. Len(s) \in Nat /\ s \in [1 .. Len(s) -> S]
  OBVIOUS
<1>2. s \in [1 .. Len(s) -> {s[i] : i \in DOMAIN s}]
  BY <1>1
<1> QED
  BY <1>1, <1>2 DEF IsSequence

\* The innermost record is replaced.
LEMMA ReplacedFrame ==
  ASSUME NEW known, NEW values, NEW more, values \subseteq more, NEW program,
         NEW records, FramesFit(values, program, known, records), records # <<>>,
         NEW frame, FrameFits(more, program, known, frame)
  PROVE  /\ FramesFit(more, program, known, Append(Front(records), frame))
         /\ Append(Front(records), frame) # <<>>
<1> DEFINE S == {records[i] : i \in DOMAIN records} \cup {frame}
           n == Len(records)
           after == Append(Front(records), frame)
<1>1. records \in Seq(S) /\ n \in Nat /\ DOMAIN records = 1 .. n /\ n > 0
  <2>1. records \in Seq({records[i] : i \in DOMAIN records})
    BY DEF FramesFit, IsSequence
  <2> QED
    BY <2>1
<1>2. /\ Front(records) \in Seq(S) /\ Len(Front(records)) = n - 1
      /\ \A i \in 1 .. n - 1 : Front(records)[i] = records[i]
  BY <1>1 DEF Front
<1>3. /\ after \in Seq(S) /\ Len(after) = n /\ DOMAIN after = 1 .. n
      /\ \A i \in 1 .. n - 1 : after[i] = records[i]
      /\ after[n] = frame
  <2> DEFINE front == Front(records)
  <2>1. frame \in S
    OBVIOUS
  <2>2. front \in Seq(S) /\ Len(front) = n - 1 /\ n \in Nat \ {0}
    BY <1>1, <1>2
  <2> HIDE DEF S, front, n
  <2>3. /\ Append(front, frame) \in Seq(S) /\ Len(Append(front, frame)) = n
        /\ DOMAIN Append(front, frame) = 1 .. n
        /\ \A i \in 1 .. n - 1 : Append(front, frame)[i] = front[i]
        /\ Append(front, frame)[n] = frame
    BY <2>1, <2>2
  <2> QED
    BY <1>2, <2>3 DEF front
<1>4. \A i \in 1 .. n : FrameFits(more, program, known, after[i])
  <2> SUFFICES ASSUME NEW i \in 1 .. n
               PROVE  FrameFits(more, program, known, after[i])
    OBVIOUS
  <2>1. CASE i = n
    BY <1>3, <2>1
  <2>2. CASE i # n
    <3> HIDE DEF after, n
    <3>1. i \in 1 .. n - 1 /\ i \in 1 .. n
      BY <1>1, <2>2
    <3>2. FrameFits(values, program, known, records[i])
      BY <1>1, <3>1 DEF FramesFit
    <3> QED
      BY <1>3, <3>1, <3>2, FrameFitsMore
  <2> QED
    BY <2>1, <2>2
<1>5. \A i \in 1 .. n - 1 : Calls(program, after[i])
  BY <1>1, <1>3 DEF FramesFit
<1>6. IsSequence(after)
  BY <1>3, SequenceIs
<1> HIDE DEF after, n
<1>7. FramesFit(more, program, known, after) /\ after # <<>>
  BY <1>1, <1>3, <1>4, <1>5, <1>6 DEF FramesFit
<1> QED
  BY <1>7 DEF after

LEMMA PushedFrame ==
  ASSUME NEW known, NEW values, NEW program,
         NEW records, FramesFit(values, program, known, records), records # <<>>,
         Calls(program, records[Len(records)]),
         NEW frame, FrameFits(values, program, known, frame)
  PROVE  /\ FramesFit(values, program, known, Append(records, frame))
         /\ Append(records, frame) # <<>>
<1> DEFINE S == {records[i] : i \in DOMAIN records} \cup {frame}
           n == Len(records)
           after == Append(records, frame)
<1>1. records \in Seq(S) /\ n \in Nat /\ DOMAIN records = 1 .. n /\ n > 0 /\ frame \in S
  <2>1. records \in Seq({records[i] : i \in DOMAIN records})
    BY DEF FramesFit, IsSequence
  <2> QED
    BY <2>1
<1>2. /\ after \in Seq(S) /\ Len(after) = n + 1 /\ DOMAIN after = 1 .. n + 1
      /\ \A i \in 1 .. n : after[i] = records[i]
      /\ after[n + 1] = frame
  <2> HIDE DEF S
  <2> QED
    BY <1>1
<1>3. \A i \in 1 .. n + 1 : FrameFits(values, program, known, after[i])
  <2> SUFFICES ASSUME NEW i \in 1 .. n + 1
               PROVE  FrameFits(values, program, known, after[i])
    OBVIOUS
  <2> HIDE DEF after, n
  <2>1. CASE i = n + 1
    BY <1>2, <2>1
  <2>2. CASE i # n + 1
    <3>1. i \in 1 .. n
      BY <1>1, <2>2
    <3>2. FrameFits(values, program, known, records[i])
      BY <1>1, <3>1 DEF FramesFit
    <3> QED
      BY <1>2, <3>1, <3>2
  <2> QED
    BY <2>1, <2>2
<1>4. \A i \in 1 .. n : Calls(program, after[i])
  <2> SUFFICES ASSUME NEW i \in 1 .. n
               PROVE  Calls(program, after[i])
    OBVIOUS
  <2>1. after[i] = records[i]
    BY <1>2
  <2>2. Calls(program, records[n])
    OBVIOUS
  <2>3. \A j \in 1 .. n - 1 : Calls(program, records[j])
    BY DEF FramesFit
  <2> HIDE DEF after, n
  <2>4. i = n \/ i \in 1 .. n - 1
    BY <1>1
  <2> QED
    BY <2>1, <2>2, <2>3, <2>4
<1>5. IsSequence(after)
  BY <1>2, SequenceIs
<1> HIDE DEF after, n
<1>6. Len(after) - 1 = n /\ DOMAIN after = 1 .. n + 1 /\ after # <<>>
  BY <1>1, <1>2
<1>7. FramesFit(values, program, known, after)
  BY <1>3, <1>4, <1>5, <1>6 DEF FramesFit
<1> QED
  BY <1>6, <1>7 DEF after

\* The innermost record is left, and the caller's is at its call.
LEMMA PoppedFrame ==
  ASSUME NEW known, NEW values, NEW program,
         NEW records, FramesFit(values, program, known, records), records # <<>>, Len(records) # 1
  PROVE  /\ FramesFit(values, program, known, Front(records)) /\ Front(records) # <<>>
         /\ Calls(program, Last(Front(records)))
         /\ FrameFits(values, program, known, Last(Front(records)))
<1> DEFINE S == {records[i] : i \in DOMAIN records}
           n == Len(records)
           after == Front(records)
<1>1. records \in Seq(S) /\ n \in Nat /\ DOMAIN records = 1 .. n /\ n > 1
  <2>1. records \in Seq(S)
    BY DEF FramesFit, IsSequence
  <2> HIDE DEF S
  <2>2. n # 0
    BY <2>1
  <2>3. n \in Nat /\ DOMAIN records = 1 .. n
    BY <2>1
  <2> QED
    BY <2>1, <2>2, <2>3
<1>2. /\ after \in Seq(S) /\ Len(after) = n - 1 /\ DOMAIN after = 1 .. n - 1
      /\ \A i \in 1 .. n - 1 : after[i] = records[i]
  BY <1>1 DEF Front
<1>3. \A i \in 1 .. n - 1 : FrameFits(values, program, known, after[i]) /\ Calls(program, after[i])
  <2>1. \A i \in 1 .. n - 1 : FrameFits(values, program, known, records[i])
    BY <1>1 DEF FramesFit
  <2>2. \A i \in 1 .. n - 1 : Calls(program, records[i])
    BY DEF FramesFit
  <2> QED
    BY <1>2, <2>1, <2>2
<1>4. IsSequence(after)
  BY <1>2, SequenceIs
<1> HIDE DEF after, n, S
<1>5. FramesFit(values, program, known, after) /\ after # <<>>
  BY <1>1, <1>2, <1>3, <1>4 DEF FramesFit
<1>6. Last(after) = after[n - 1] /\ n - 1 \in 1 .. n - 1
  BY <1>1, <1>2 DEF Last
<1> QED
  BY <1>3, <1>5, <1>6 DEF after

-----------------------------------------------------------------------------
(******************************* The values ********************************)

\* A world, field by field.
WorldOf(boxes, objects, answers, sent) ==
  [boxes |-> boxes, objects |-> objects, answers |-> answers, sent |-> sent]

\* An operation gives a value, which a larger set of well made values has.
Gets(values, program, known, done) ==
  \E more : /\ values \subseteq more
            /\ ValuesFit(more, program, known, done.world)
            /\ done.value \in more

LEMMA WorldChanged ==
  ASSUME NEW boxes, NEW objects, NEW answers, NEW sent, NEW w,
         w = WorldOf(boxes, objects, answers, sent), NEW new
  PROVE  /\ [w EXCEPT !.boxes = new] = WorldOf(new, objects, answers, sent)
         /\ [w EXCEPT !.objects = new] = WorldOf(boxes, new, answers, sent)
         /\ [w EXCEPT !.answers = new] = WorldOf(boxes, objects, new, sent)
         /\ [w EXCEPT !.sent = new] = WorldOf(boxes, objects, answers, new)
<1>1. /\ w \in [boxes : {boxes}, objects : {objects}, answers : {answers}, sent : {sent}]
      /\ w.boxes = boxes /\ w.objects = objects /\ w.answers = answers /\ w.sent = sent
  BY DEF WorldOf
<1>2. [w EXCEPT !.boxes = new] = WorldOf(new, objects, answers, sent)
  BY <1>1 DEF WorldOf
<1>3. [w EXCEPT !.objects = new] = WorldOf(boxes, new, answers, sent)
  BY <1>1 DEF WorldOf
<1>4. [w EXCEPT !.answers = new] = WorldOf(boxes, objects, new, sent)
  BY <1>1 DEF WorldOf
<1>5. [w EXCEPT !.sent = new] = WorldOf(boxes, objects, answers, new)
  BY <1>1 DEF WorldOf
<1> QED
  BY <1>2, <1>3, <1>4, <1>5

\* A value stays well made while values, boxes and objects are added.
LEMMA WellMadeMore ==
  ASSUME NEW values, NEW more, values \subseteq more, NEW program, NEW known, NEW w, NEW v,
         DOMAIN w.boxes \subseteq DOMAIN v.boxes, DOMAIN w.objects \subseteq DOMAIN v.objects,
         NEW value, WellMade(values, program, known, w, value)
  PROVE  WellMade(more, program, known, v, value)
<1>1. value[1] = "closure" => Fits(more, value[3], known[value[2]].capture)
  BY FitsMore DEF WellMade
<1> QED
  BY <1>1 DEF WellMade

LEMMA WorldFits ==
  ASSUME NEW values, NEW more, values \subseteq more, NEW program, NEW known, NEW w,
         ValuesFit(values, program, known, w),
         NEW boxes \in Seq(more), NEW objects, NEW answers, NEW sent,
         DOMAIN w.boxes \subseteq DOMAIN boxes, DOMAIN w.objects \subseteq DOMAIN objects,
         \A o \in DOMAIN objects : \A s \in DOMAIN objects[o] : objects[o][s] \in more,
         \A value \in more \ values :
           WellMade(more, program, known, WorldOf(boxes, objects, answers, sent), value)
  PROVE  ValuesFit(more, program, known, WorldOf(boxes, objects, answers, sent))
<1> DEFINE v == WorldOf(boxes, objects, answers, sent)
<1>1. /\ v = [boxes |-> v.boxes, objects |-> v.objects, answers |-> v.answers, sent |-> v.sent]
      /\ v.boxes = boxes /\ v.objects = objects
  BY DEF WorldOf
<1> HIDE DEF v
<1>2. \A value \in more : WellMade(more, program, known, v, value)
  <2> SUFFICES ASSUME NEW value \in more
               PROVE  WellMade(more, program, known, v, value)
    OBVIOUS
  <2>1. CASE value \in values
    <3>1. WellMade(values, program, known, w, value)
      BY <2>1 DEF ValuesFit
    <3> QED
      BY <1>1, <3>1, WellMadeMore
  <2>2. CASE value \notin values
    BY <2>2 DEF v
  <2> QED
    BY <2>1, <2>2
<1>3. \A f \in DOMAIN program :
        \A i \in DOMAIN program[f].literals : program[f].literals[i] \in more
  BY DEF ValuesFit
<1>4. ValuesFit(more, program, known, v)
  BY <1>1, <1>2, <1>3 DEF ValuesFit
<1> QED
  BY <1>4 DEF v

LEMMA DoneIs ==
  ASSUME NEW w, NEW value
  PROVE  Done(w, value).world = w /\ Done(w, value).value = value /\ Done(w, value).out = "value"
BY DEF Done

LEMMA FailedIs ==
  ASSUME NEW w
  PROVE  Failed(w).out # "value"
BY DEF Failed

\* A value that was there.
LEMMA GetsHeld ==
  ASSUME NEW values, NEW program, NEW known, NEW w, ValuesFit(values, program, known, w),
         NEW value \in values
  PROVE  Gets(values, program, known, Done(w, value))
BY DoneIs DEF Gets

\* A value that is made, in a world that may change with it.
LEMMA GetsMade ==
  ASSUME NEW values, NEW program, NEW known, NEW w, ValuesFit(values, program, known, w),
         NEW value,
         NEW boxes \in Seq(values \cup {value}), NEW objects, NEW answers, NEW sent,
         DOMAIN w.boxes \subseteq DOMAIN boxes, DOMAIN w.objects \subseteq DOMAIN objects,
         \A o \in DOMAIN objects : \A s \in DOMAIN objects[o] : objects[o][s] \in values,
         WellMade(values, program, known, WorldOf(boxes, objects, answers, sent), value)
  PROVE  Gets(values, program, known, Done(WorldOf(boxes, objects, answers, sent), value))
<1> DEFINE more == values \cup {value}
           v == WorldOf(boxes, objects, answers, sent)
<1>1. \A new \in more \ values : WellMade(more, program, known, v, new)
  <2>1. WellMade(more, program, known, v, value)
    <3> HIDE DEF v
    <3>1. values \subseteq more /\ WellMade(values, program, known, v, value)
      BY DEF v
    <3> HIDE DEF more
    <3> QED
      BY <3>1, WellMadeMore
  <2> QED
    BY <2>1
<1>2. /\ values \subseteq more /\ boxes \in Seq(more) /\ value \in more
      /\ \A o \in DOMAIN objects : \A s \in DOMAIN objects[o] : objects[o][s] \in more
  OBVIOUS
<1>3. ValuesFit(more, program, known, v)
  <2> HIDE DEF more
  <2> QED
    BY <1>1, <1>2, WorldFits
<1> HIDE DEF more, v
<1>4. Gets(values, program, known, Done(v, value))
  BY <1>2, <1>3, DoneIs DEF Gets
<1> QED
  BY <1>4 DEF v

LEMMA WorldIs ==
  ASSUME NEW values, NEW program, NEW known, NEW w, ValuesFit(values, program, known, w)
  PROVE  /\ w = WorldOf(w.boxes, w.objects, w.answers, w.sent)
         /\ w.boxes \in Seq(values)
         /\ \A o \in DOMAIN w.objects : \A s \in DOMAIN w.objects[o] : w.objects[o][s] \in values
BY DEF ValuesFit, WorldOf

\* A value that is made, in the same world.
LEMMA GetsNew ==
  ASSUME NEW values, NEW program, NEW known, NEW w, ValuesFit(values, program, known, w),
         NEW value, WellMade(values, program, known, w, value)
  PROVE  Gets(values, program, known, Done(w, value))
<1>1. w.boxes \in Seq(values \cup {value})
  BY WorldIs
<1> QED
  BY <1>1, WorldIs, GetsMade

\* Values that refer to nothing.
LEMMA PlainValue ==
  ASSUME NEW values, NEW program, NEW known, NEW w, NEW value,
         value[1] \notin {"unwritten", "box", "object", "binding", "primitive", "closure"}
  PROVE  WellMade(values, program, known, w, value)
<1>1. value # Unwritten
  BY DEF Unwritten
<1> QED
  BY <1>1 DEF WellMade

LEMMA GetsPlain ==
  ASSUME NEW values, NEW program, NEW known, NEW w, ValuesFit(values, program, known, w),
         NEW value,
         value[1] \notin {"unwritten", "box", "object", "binding", "primitive", "closure"}
  PROVE  Gets(values, program, known, Done(w, value))
BY PlainValue, GetsNew

-----------------------------------------------------------------------------
(******************************* The memory ********************************)

LEMMA WorldHas ==
  ASSUME NEW values, NEW program, NEW known, NEW w, ValuesFit(values, program, known, w)
  PROVE  w \in [boxes : {w.boxes}, objects : {w.objects}, answers : {w.answers}, sent : {w.sent}]
BY WorldIs DEF WorldOf

LEMMA GetsBox ==
  ASSUME NEW values, NEW program, NEW known, NEW w, ValuesFit(values, program, known, w),
         NEW value \in values
  PROVE  Gets(values, program, known, withBoxForValue(w, value))
<1> DEFINE boxes == Append(w.boxes, value)
           box == <<"box", Len(w.boxes) + 1>>
           v == WorldOf(boxes, w.objects, w.answers, w.sent)
<1>1. [w EXCEPT !.boxes = boxes] = v
  <2> HIDE DEF boxes
  <2> QED
    BY WorldHas DEF WorldOf
<1>2. /\ w.boxes \in Seq(values) /\ boxes \in Seq(values \cup {box})
      /\ DOMAIN w.boxes = 1 .. Len(w.boxes) /\ DOMAIN boxes = 1 .. Len(w.boxes) + 1
      /\ Len(w.boxes) \in Nat
  <2>1. w.boxes \in Seq(values)
    BY WorldIs
  <2> QED
    BY <2>1
<1>3. DOMAIN w.boxes \subseteq DOMAIN boxes /\ Len(w.boxes) + 1 \in DOMAIN boxes
  <2> HIDE DEF boxes
  <2> QED
    BY <1>2
<1>4. WellMade(values, program, known, v, box)
  <2>1. v.boxes = boxes
    BY DEF WorldOf
  <2> HIDE DEF v, boxes
  <2> QED
    BY <1>3, <2>1 DEF WellMade, Unwritten
<1>5. Gets(values, program, known, Done(v, box))
  <2> HIDE DEF boxes, box
  <2> QED
    BY <1>2, <1>3, <1>4, WorldIs, GetsMade
<1>6. withBoxForValue(w, value) = Done([w EXCEPT !.boxes = boxes], box)
  BY DEF withBoxForValue
<1> HIDE DEF v, boxes, box
<1> QED
  BY <1>1, <1>5, <1>6

LEMMA Loaded ==
  ASSUME NEW values, NEW program, NEW known, NEW w, ValuesFit(values, program, known, w),
         NEW reference \in values, pointerLikeType_load(w, reference).out = "value"
  PROVE  /\ pointerLikeType_load(w, reference) = Done(w, pointerLikeType_load(w, reference).value)
         /\ pointerLikeType_load(w, reference).value \in values
<1> DEFINE inSlot == reference[1] = "slot" /\ HasSlot(w, reference[2], reference[3])
<1>1. CASE reference[1] = "box"
  <2>1. pointerLikeType_load(w, reference) = Done(w, w.boxes[reference[2]])
    BY <1>1 DEF pointerLikeType_load
  <2>2. reference[2] \in DOMAIN w.boxes
    BY <1>1 DEF ValuesFit, WellMade
  <2>3. w.boxes[reference[2]] \in values
    BY <2>2, WorldIs
  <2> QED
    BY <2>1, <2>3, DoneIs
<1>2. CASE inSlot
  <2>1. pointerLikeType_load(w, reference) = Done(w, w.objects[reference[2]][reference[3]])
    BY <1>2 DEF pointerLikeType_load
  <2>2. w.objects[reference[2]][reference[3]] \in values
    BY <1>2, WorldIs DEF HasSlot
  <2> QED
    BY <2>1, <2>2, DoneIs
<1>3. CASE reference[1] # "box" /\ ~inSlot
  <2>1. pointerLikeType_load(w, reference) = Failed(w)
    BY <1>3, Zenon DEF pointerLikeType_load
  <2> QED
    BY <2>1, FailedIs
<1> QED
  BY <1>1, <1>2, <1>3

LEMMA GetsLoaded ==
  ASSUME NEW values, NEW program, NEW known, NEW w, ValuesFit(values, program, known, w),
         NEW reference \in values, pointerLikeType_load(w, reference).out = "value"
  PROVE  Gets(values, program, known, pointerLikeType_load(w, reference))
<1>1. Gets(values, program, known, Done(w, pointerLikeType_load(w, reference).value))
  BY Loaded, GetsHeld
<1> QED
  BY <1>1, Loaded

\* The world with one slot changed.
LEMMA SlotChanged ==
  ASSUME NEW values, NEW program, NEW known, NEW w, ValuesFit(values, program, known, w),
         NEW object, NEW slot, HasSlot(w, object, slot), NEW value \in values,
         NEW result \in values
  PROVE  Gets(values, program, known, Done([w EXCEPT !.objects[object][slot] = value], result))
<1> DEFINE objects == [w.objects EXCEPT ![object][slot] = value]
           v == WorldOf(w.boxes, objects, w.answers, w.sent)
<1>1. [w EXCEPT !.objects[object][slot] = value] = [w EXCEPT !.objects = objects]
  OBVIOUS
<1>2. [w EXCEPT !.objects = objects] = v
  <2> HIDE DEF objects
  <2> QED
    BY WorldHas DEF WorldOf
<1>3. /\ DOMAIN objects = DOMAIN w.objects
      /\ \A o \in DOMAIN objects : \A s \in DOMAIN objects[o] : objects[o][s] \in values
  BY WorldIs DEF HasSlot
<1>4. WellMade(values, program, known, v, result)
  <2>1. WellMade(values, program, known, w, result)
    BY DEF ValuesFit
  <2>2. v.boxes = w.boxes /\ v.objects = objects
    BY DEF WorldOf
  <2> HIDE DEF v, objects
  <2> QED
    BY <1>3, <2>1, <2>2, WellMadeMore
<1>5. Gets(values, program, known, Done(v, result))
  <2>1. w.boxes \in Seq(values \cup {result})
    BY WorldIs
  <2> HIDE DEF objects
  <2> QED
    BY <1>3, <1>4, <2>1, GetsMade
<1> HIDE DEF v, objects
<1> QED
  BY <1>1, <1>2, <1>5

LEMMA GetsStored ==
  ASSUME NEW values, NEW program, NEW known, NEW w, ValuesFit(values, program, known, w),
         NEW reference \in values, NEW value \in values,
         pointerLikeType_store(w, reference, value).out = "value"
  PROVE  Gets(values, program, known, pointerLikeType_store(w, reference, value))
<1> DEFINE inSlot == reference[1] = "slot" /\ HasSlot(w, reference[2], reference[3])
<1>1. CASE reference[1] = "box"
  <2> DEFINE boxes == [w.boxes EXCEPT ![reference[2]] = value]
             v == WorldOf(boxes, w.objects, w.answers, w.sent)
  <2>1. pointerLikeType_store(w, reference, value)
          = Done([w EXCEPT !.boxes[reference[2]] = value], reference)
    BY <1>1 DEF pointerLikeType_store
  <2>2. [w EXCEPT !.boxes[reference[2]] = value] = [w EXCEPT !.boxes = boxes]
    OBVIOUS
  <2>3. [w EXCEPT !.boxes = boxes] = v
    <3> HIDE DEF boxes
    <3> QED
      BY WorldHas DEF WorldOf
  <2>4. /\ boxes \in Seq(values) /\ boxes \in Seq(values \cup {reference})
        /\ DOMAIN boxes = DOMAIN w.boxes
    <3>1. w.boxes \in Seq(values)
      BY WorldIs
    <3>2. boxes \in Seq(values) /\ DOMAIN boxes = DOMAIN w.boxes
      <4> DEFINE n == Len(w.boxes)
                 old == w.boxes
      <4>1. n \in Nat /\ old \in [1 .. n -> values]
        BY <3>1
      <4> HIDE DEF n, old
      <4>2. [old EXCEPT ![reference[2]] = value] \in [1 .. n -> values]
        BY <4>1
      <4>3. [old EXCEPT ![reference[2]] = value] \in Seq(values)
        BY <4>1, <4>2
      <4> QED
        BY <4>1, <4>2, <4>3 DEF old
    <3>3. values \cup {reference} = values
      OBVIOUS
    <3> HIDE DEF boxes
    <3> QED
      BY <3>2, <3>3
  <2>5. WellMade(values, program, known, v, reference)
    <3>1. WellMade(values, program, known, w, reference)
      BY DEF ValuesFit
    <3>2. v.boxes = boxes /\ v.objects = w.objects
      BY DEF WorldOf
    <3> HIDE DEF v, boxes
    <3> QED
      BY <2>4, <3>1, <3>2, WellMadeMore
  <2>6. Gets(values, program, known, Done(v, reference))
    <3> HIDE DEF boxes
    <3> QED
      BY <2>4, <2>5, WorldIs, GetsMade
  <2> HIDE DEF v, boxes
  <2> QED
    BY <2>1, <2>2, <2>3, <2>6
<1>2. CASE inSlot
  <2>1. pointerLikeType_store(w, reference, value)
          = Done([w EXCEPT !.objects[reference[2]][reference[3]] = value], reference)
    BY <1>2 DEF pointerLikeType_store
  <2> QED
    BY <1>2, <2>1, SlotChanged
<1>3. CASE reference[1] # "box" /\ ~inSlot
  <2>1. pointerLikeType_store(w, reference, value) = Failed(w)
    BY <1>3, Zenon DEF pointerLikeType_store
  <2> QED
    BY <2>1, FailedIs
<1> QED
  BY <1>1, <1>2, <1>3

LEMMA GetsSlot ==
  ASSUME NEW values, NEW program, NEW known, NEW w, ValuesFit(values, program, known, w),
         NEW tuple \in values, NEW slot, SlotAt(w, tuple, slot).out = "value"
  PROVE  Gets(values, program, known, SlotAt(w, tuple, slot))
<1>1. tuple[1] = "object" /\ HasSlot(w, tuple[2], slot)
  BY FailedIs DEF SlotAt
<1>2. SlotAt(w, tuple, slot) = Done(w, w.objects[tuple[2]][slot])
  BY <1>1 DEF SlotAt
<1>3. w.objects[tuple[2]][slot] \in values
  BY <1>1, WorldIs DEF HasSlot
<1> QED
  BY <1>2, <1>3, GetsHeld

LEMMA GetsSlotPut ==
  ASSUME NEW values, NEW program, NEW known, NEW w, ValuesFit(values, program, known, w),
         NEW tuple \in values, NEW slot, NEW value \in values,
         SlotAtPut(w, tuple, slot, value).out = "value"
  PROVE  Gets(values, program, known, SlotAtPut(w, tuple, slot, value))
<1>1. tuple[1] = "object" /\ HasSlot(w, tuple[2], slot)
  BY FailedIs DEF SlotAtPut
<1>2. SlotAtPut(w, tuple, slot, value)
        = Done([w EXCEPT !.objects[tuple[2]][slot] = value], value)
  BY <1>1 DEF SlotAtPut
<1> QED
  BY <1>1, <1>2, SlotChanged

\* What is sent and what is answered are not in the memory.
LEMMA GetsPlainOutside ==
  ASSUME NEW values, NEW program, NEW known, NEW w, ValuesFit(values, program, known, w),
         NEW answers, NEW sent, NEW value,
         value[1] \notin {"unwritten", "box", "object", "binding", "primitive", "closure"}
  PROVE  Gets(values, program, known, Done(WorldOf(w.boxes, w.objects, answers, sent), value))
<1> DEFINE v == WorldOf(w.boxes, w.objects, answers, sent)
<1>1. WellMade(values, program, known, v, value)
  <2> HIDE DEF v
  <2> QED
    BY PlainValue
<1>2. w.boxes \in Seq(values \cup {value})
  BY WorldIs
<1> QED
  BY <1>1, <1>2, WorldIs, GetsMade

LEMMA GetsAnswer ==
  ASSUME NEW values, NEW program, NEW known, NEW w, ValuesFit(values, program, known, w),
         NEW receiver, NEW selector, NEW arguments
  PROVE  Gets(values, program, known, Send(w, receiver, selector, arguments))
<1> DEFINE sent == Append(w.sent, <<receiver, selector, arguments>>)
           answers == IF w.answers = <<>> THEN w.answers ELSE Tail(w.answers)
           answer == IF w.answers = <<>> THEN FALSE ELSE Head(w.answers)
           asked == [w EXCEPT !.sent = sent]
           v == WorldOf(w.boxes, w.objects, answers, sent)
<1>1. asked = WorldOf(w.boxes, w.objects, w.answers, sent)
  <2> HIDE DEF sent
  <2> QED
    BY WorldHas DEF WorldOf
<1>2. asked.answers = w.answers
  BY <1>1 DEF WorldOf
<1>3. Send(w, receiver, selector, arguments) = Done([asked EXCEPT !.answers = answers], Boolean(answer))
  BY <1>2 DEF Send
<1>4. [asked EXCEPT !.answers = answers] = v
  <2> HIDE DEF asked, answers, sent
  <2> QED
    BY <1>1, WorldChanged
<1>5. Gets(values, program, known, Done(v, Boolean(answer)))
  <2>1. Boolean(answer)[1] = "bool"
    BY DEF Boolean
  <2> HIDE DEF answer, answers, sent
  <2> QED
    BY <2>1, GetsPlainOutside
<1> HIDE DEF v, asked, answers, answer
<1> QED
  BY <1>3, <1>4, <1>5

LEMMA Coerced ==
  ASSUME NEW values, NEW program, NEW known, NEW w, ValuesFit(values, program, known, w),
         NEW value \in values, NEW type, type_coerceValue(w, value, type).out = "value"
  PROVE  type_coerceValue(w, value, type).value \in values
<1> DEFINE loads == IsReference(value) /\ type[1] # "Ref"
           loaded == IF loads THEN pointerLikeType_load(w, value) ELSE Done(w, value)
           fits == type[1] = "Ref" \/ tuple_typecheckValue(loaded.value, type)
<1>1. type_coerceValue(w, value, type) = IF fits THEN loaded ELSE Failed(w)
  BY Zenon DEF type_coerceValue
<1> HIDE DEF fits
<1>2. fits
  <2> HIDE DEF loaded
  <2> QED
    BY <1>1, FailedIs
<1>3. type_coerceValue(w, value, type) = loaded
  <2> HIDE DEF loaded
  <2> QED
    BY <1>1, <1>2
<1>4. CASE loads
  <2>1. loaded = pointerLikeType_load(w, value)
    BY <1>4
  <2> HIDE DEF loaded
  <2> QED
    BY <1>3, <2>1, Loaded
<1>5. CASE ~loads
  <2>1. loaded = Done(w, value)
    BY <1>5
  <2> HIDE DEF loaded
  <2> QED
    BY <1>3, <2>1, DoneIs
<1> QED
  BY <1>4, <1>5

\* All the arguments of a call, and as many as there are types.
LEMMA AllCoerced ==
  ASSUME NEW values, NEW program, NEW known, NEW w, ValuesFit(values, program, known, w),
         NEW vector \in Seq(values), NEW types, CoerceAll(w, vector, types).out = "value"
  PROVE  /\ CoerceAll(w, vector, types).world = w
         /\ CoerceAll(w, vector, types).value \in Seq(values)
         /\ Len(CoerceAll(w, vector, types).value) = Len(vector)
         /\ Len(vector) = Len(types)
<1> DEFINE coerced == [i \in DOMAIN vector |-> type_coerceValue(w, vector[i], types[i])]
           all == Len(vector) = Len(types) /\ \A i \in DOMAIN vector : coerced[i].out = "value"
           n == Len(vector)
           given == [i \in DOMAIN vector |-> coerced[i].value]
<1>1. CoerceAll(w, vector, types) = IF all THEN Done(w, given) ELSE Failed(w)
  BY Zenon DEF CoerceAll
<1>2. all
  <2> HIDE DEF all, given
  <2> QED
    BY <1>1, FailedIs
<1>3. CoerceAll(w, vector, types) = Done(w, given)
  <2> HIDE DEF all, given
  <2> QED
    BY <1>1, <1>2
<1>4. n \in Nat /\ DOMAIN vector = 1 .. n /\ \A i \in 1 .. n : vector[i] \in values
  OBVIOUS
<1>5. \A i \in 1 .. n : coerced[i].value \in values
  <2> SUFFICES ASSUME NEW i \in 1 .. n
               PROVE  coerced[i].value \in values
    OBVIOUS
  <2>1. coerced[i] = type_coerceValue(w, vector[i], types[i]) /\ coerced[i].out = "value"
    BY <1>2, <1>4, Zenon
  <2> HIDE DEF coerced
  <2> QED
    BY <1>4, <2>1, Coerced
<1>6. given \in Seq(values) /\ Len(given) = n
  <2>1. given = [i \in 1 .. n |-> coerced[i].value]
    BY <1>4
  <2> HIDE DEF given, coerced, n
  <2>2. given \in [1 .. n -> values]
    BY <1>5, <2>1
  <2> QED
    BY <1>4, <2>1, <2>2
<1>7. Len(vector) = Len(types)
  BY <1>2
<1> HIDE DEF given, all
<1> QED
  BY <1>3, <1>6, <1>7, DoneIs DEF n

LEMMA GetsApplied ==
  ASSUME NEW values, NEW program, NEW known, NEW w, ValuesFit(values, program, known, w),
         NEW name \in Primitives, NEW arguments \in Seq(values),
         ApplyPrimitive(w, name, arguments).out = "value"
  PROVE  Gets(values, program, known, ApplyPrimitive(w, name, arguments))
<1>1. name \in {"add", "less", "note", "load", "store", "anyValueToVoid"}
  BY DEF Primitives, PrimitiveArgumentCount
<1>2. ~(name \in DOMAIN PrimitiveArgumentCount /\ Len(arguments) # PrimitiveArgumentCount[name])
  <2>1. CASE name \in DOMAIN PrimitiveArgumentCount /\ Len(arguments) # PrimitiveArgumentCount[name]
    <3>1. ApplyPrimitive(w, name, arguments) = Failed(w)
      BY <2>1, Zenon DEF ApplyPrimitive
    <3> QED
      BY <3>1, FailedIs
  <2> QED
    BY <2>1
<1>9. \A i \in 1 .. Len(arguments) : arguments[i] \in values
  OBVIOUS
<1>3. CASE name = "add"
  <2>1. ApplyPrimitive(w, name, arguments) = Done(w, Integer(arguments[1][2] + arguments[2][2]))
    BY <1>2, <1>3 DEF ApplyPrimitive
  <2>2. Integer(arguments[1][2] + arguments[2][2])[1] = "int"
    BY DEF Integer
  <2> QED
    BY <2>1, <2>2, GetsPlain
<1>4. CASE name = "less"
  <2>1. ApplyPrimitive(w, name, arguments) = Done(w, Boolean(arguments[1][2] < arguments[2][2]))
    BY <1>2, <1>4 DEF ApplyPrimitive
  <2>2. Boolean(arguments[1][2] < arguments[2][2])[1] = "bool"
    BY DEF Boolean
  <2> QED
    BY <2>1, <2>2, GetsPlain
<1>5. CASE name = "note"
  <2> DEFINE sent == Append(w.sent, arguments)
             v == WorldOf(w.boxes, w.objects, w.answers, sent)
  <2>1. ApplyPrimitive(w, name, arguments) = Done([w EXCEPT !.sent = sent], Void)
    BY <1>2, <1>5 DEF ApplyPrimitive
  <2>2. [w EXCEPT !.sent = sent] = v
    <3> HIDE DEF sent
    <3> QED
      BY WorldHas DEF WorldOf
  <2>3. Gets(values, program, known, Done(v, Void))
    <3>1. Void[1] = "void"
      BY DEF Void
    <3> HIDE DEF sent
    <3> QED
      BY <3>1, GetsPlainOutside
  <2> HIDE DEF v, sent
  <2> QED
    BY <2>1, <2>2, <2>3
<1>6. CASE name = "load"
  <2>1. ApplyPrimitive(w, name, arguments) = pointerLikeType_load(w, arguments[1])
    BY <1>2, <1>6 DEF ApplyPrimitive
  <2>2. Len(arguments) = 1
    BY <1>2, <1>6 DEF PrimitiveArgumentCount
  <2>3. arguments[1] \in values
    BY <2>2, <1>9
  <2> QED
    BY <2>1, <2>3, GetsLoaded
<1>7. CASE name = "store"
  <2>1. ApplyPrimitive(w, name, arguments) = pointerLikeType_store(w, arguments[1], arguments[2])
    BY <1>2, <1>7 DEF ApplyPrimitive
  <2>2. Len(arguments) = 2
    BY <1>2, <1>7 DEF PrimitiveArgumentCount
  <2>3. arguments[1] \in values /\ arguments[2] \in values
    BY <2>2, <1>9
  <2> QED
    BY <2>1, <2>3, GetsStored
<1>8. CASE name = "anyValueToVoid"
  <2>1. ApplyPrimitive(w, name, arguments) = Done(w, Void)
    BY <1>2, <1>8 DEF ApplyPrimitive
  <2>2. Void[1] = "void"
    BY DEF Void
  <2> QED
    BY <2>1, <2>2, GetsPlain
<1> QED
  BY <1>1, <1>3, <1>4, <1>5, <1>6, <1>7, <1>8

-----------------------------------------------------------------------------
(***************************** The running code ****************************)

LEMMA TopFits ==
  ASSUME NEW known, NEW values, Machine(known, values), Running
  PROVE  /\ frames # <<>> /\ FrameFits(values, code, known, Top)
         /\ Instruction = code[Top.function].instructions[Top.pc]
         /\ OperandsVerified(code, known, Top.function, Top.pc)
         /\ RolesVerified(code, known, Top.function, Top.pc)
<1>1. frames # <<>> /\ FramesFit(values, code, known, frames) /\ Verified(code, known)
  BY DEF Machine
<1>2. Len(frames) \in DOMAIN frames
  <2> DEFINE S == {frames[i] : i \in DOMAIN frames}
  <2>1. frames \in Seq(S)
    BY <1>1 DEF FramesFit, IsSequence
  <2> HIDE DEF S
  <2>2. Len(frames) \in Nat /\ DOMAIN frames = 1 .. Len(frames) /\ Len(frames) # 0
    BY <1>1, <2>1
  <2> QED
    BY <2>2
<1>3. FrameFits(values, code, known, Top)
  BY <1>1, <1>2 DEF FramesFit, Top
<1>4. Top.function \in DOMAIN code /\ Top.pc \in DOMAIN code[Top.function].instructions
  BY <1>3 DEF FrameFits
<1>5. Instruction = code[Top.function].instructions[Top.pc]
  BY DEF Instruction, BytecodeOf
<1> QED
  BY <1>1, <1>3, <1>4, <1>5 DEF Verified

\* The values that the instruction fetches.
LEMMA SourcesFit ==
  ASSUME NEW known, NEW values, Machine(known, values), Running
  PROVE  /\ Len(Sources) \in Nat /\ DOMAIN Sources = 1 .. Len(Sources)
         /\ Len(Sources) = Len(SourceOperands(Instruction))
         /\ Sources \in Seq(values)
         /\ \A i \in 1 .. Len(Sources) : Sources[i] \in values
         /\ \A i \in 1 .. Len(Sources) : \A shape :
              Knows(code, known, Top.function, Top.pc, SourceOperands(Instruction)[i], shape)
                => shape \in Shapes(Sources[i])
         /\ Instruction.opcode \in Opcodes => Len(Sources) >= SourceCount[Instruction.opcode]
<1> DEFINE operands == SourceOperands(Instruction)
           n == Len(operands)
<1>1. /\ n \in Nat /\ DOMAIN operands = 1 .. n
      /\ \A i \in 1 .. n : Knows(code, known, Top.function, Top.pc, operands[i], AnyValue)
      /\ Instruction.opcode \in Opcodes => n >= SourceCount[Instruction.opcode]
  BY TopFits, SourcesAre DEF OperandsVerified
<1>2. /\ DOMAIN Sources = 1 .. n
      /\ \A i \in 1 .. n : Sources[i] = VectorOf(Top, operands[i])[operands[i][2]]
  BY <1>1 DEF Sources, Fetch
<1>3. ValuesFit(values, code, known, world)
  BY DEF Machine
<1>4. ASSUME NEW i \in 1 .. n, NEW shape,
             Knows(code, known, Top.function, Top.pc, operands[i], shape)
      PROVE  Sources[i] \in values /\ shape \in Shapes(Sources[i])
  <2> DEFINE frame == Top
             operand == operands[i]
  <2>1. FrameFits(values, code, known, frame)
    BY TopFits
  <2>2. Knows(code, known, frame.function, frame.pc, operand, shape)
    BY <1>4
  <2>3. Sources[i] = VectorOf(frame, operand)[operand[2]]
    BY <1>2
  <2> HIDE DEF frame, operand
  <2> QED
    BY <1>3, <2>1, <2>2, <2>3, KnownIsFetched
<1>5. \A i \in 1 .. n : Sources[i] \in values
  BY <1>1, <1>4
<1>6. Sources = [i \in 1 .. n |-> Sources[i]]
  BY <1>1 DEF Sources
<1> HIDE DEF operands, n
<1>7. Sources \in Seq(values) /\ Len(Sources) = n
  <2>1. Sources \in [1 .. n -> values]
    BY <1>5, <1>6
  <2> QED
    BY <1>1, <1>6, <2>1
<1> QED
  BY <1>1, <1>2, <1>4, <1>5, <1>7 DEF operands, n

LEMMA MachineNext ==
  ASSUME NEW known, NEW more, Verified(code, known), code' = code,
         ValuesFit(more, code, known, world'), FramesFit(more, code, known, frames'),
         Running' => frames' # <<>>
  PROVE  BytecodeInv'
<1>1. Machine(known, more)'
  BY DEF Machine
<1> QED
  BY <1>1 DEF BytecodeInv

LEMMA Raised ==
  ASSUME NEW known, NEW values, Machine(known, values), RaiseError
  PROVE  BytecodeInv'
<1>1. ~Running'
  BY DEF RaiseError, Running
<1>2. code' = code /\ frames' = frames /\ world' = world
  BY DEF RaiseError
<1>3. /\ Verified(code, known) /\ ValuesFit(values, code, known, world')
      /\ FramesFit(values, code, known, frames')
  BY <1>2 DEF Machine
<1> QED
  BY <1>1, <1>2, <1>3, MachineNext

\* The innermost record goes on, with a value among its locals or without.
LEMMA Continued ==
  ASSUME NEW known, NEW values, Machine(known, values), Running,
         NEW more, values \subseteq more, ValuesFit(more, code, known, world'),
         NEW frame, FrameFits(more, code, known, frame),
         frames' = Append(Front(frames), frame), UNCHANGED <<code, outcome>>
  PROVE  BytecodeInv'
<1>1. frames # <<>>
  BY TopFits
<1>2. FramesFit(values, code, known, frames) /\ Verified(code, known)
  BY DEF Machine
<1>3. FramesFit(more, code, known, frames') /\ frames' # <<>>
  BY <1>1, <1>2, ReplacedFrame
<1> QED
  BY <1>2, <1>3, MachineNext

LEMMA Jumped ==
  ASSUME NEW known, NEW values, Machine(known, values), Running,
         DestinationCount(Instruction) = 0, NEW target \in Successors(Instruction),
         GoTo(Top, target), UNCHANGED world
  PROVE  BytecodeInv'
<1>1. FrameFits(values, code, known, [Top EXCEPT !.pc = target])
  <2> DEFINE frame == Top
  <2>1. /\ FrameFits(values, code, known, frame) /\ Verified(code, known)
        /\ Instruction = code[frame.function].instructions[frame.pc]
    BY TopFits DEF Machine
  <2> HIDE DEF frame
  <2>2. FrameFits(values, code, known, Moved(frame, target))
    BY <2>1, GoesOn
  <2> QED
    BY <2>2, Zenon DEF frame, Moved
<1>2. ValuesFit(values, code, known, world')
  BY DEF Machine
<1>3. frames' = Append(Front(frames), [Top EXCEPT !.pc = target]) /\ UNCHANGED <<code, outcome>>
  BY DEF GoTo
<1> QED
  BY <1>1, <1>2, <1>3, Continued

LEMMA Performed ==
  ASSUME NEW known, NEW values, Machine(known, values), Running,
         Successors(Instruction) = {Instruction.endPC},
         NEW done, Perform(done),
         done.out = "value" => Gets(values, code, known, done),
         done.out = "value" => \A shape :
           Gives(code, known, Top.function, Top.pc, shape) => shape \in Shapes(done.value)
  PROVE  BytecodeInv'
<1>1. CASE ValidDestination /\ done.out = "value"
  <2>1. /\ frames' = Append(Front(frames), WithDestination(Top, done.value))
        /\ world' = done.world /\ UNCHANGED <<code, outcome>>
    BY <1>1 DEF Perform
  <2>2. PICK more : /\ values \subseteq more /\ ValuesFit(more, code, known, done.world)
                    /\ done.value \in more
    BY <1>1 DEF Gets
  <2>3. FrameFits(more, code, known, WithDestination(Top, done.value))
    BY <1>1, <2>2, TopFits, GoesOnWithResult DEF Machine
  <2> QED
    BY <2>1, <2>2, <2>3, Continued
<1>2. CASE ~(ValidDestination /\ done.out = "value")
  BY <1>2, Raised DEF Perform
<1> QED
  BY <1>1, <1>2

-----------------------------------------------------------------------------
(***************************** The instructions ****************************)

LEMMA OpcodesAre ==
  /\ Opcodes = {"return", "jump", "jumpIfFalse", "caseJump", "setDebugValue", "move",
                "allocaWithValue", "load", "store", "loadSymbolValueBinding", "slotAt",
                "slotReferenceAt", "slotAtPut", "downCastValue", "makeAssociation", "makeArray",
                "makeByteArray", "makeDictionary", "makeClosure", "call", "uncheckedCall", "send"}
  /\ SourceCount["return"] = 1 /\ SourceCount["jumpIfFalse"] = 1 /\ SourceCount["caseJump"] = 1
  /\ SourceCount["move"] = 1 /\ SourceCount["allocaWithValue"] = 1 /\ SourceCount["load"] = 1
  /\ SourceCount["store"] = 2 /\ SourceCount["loadSymbolValueBinding"] = 1
  /\ SourceCount["slotAt"] = 2 /\ SourceCount["slotReferenceAt"] = 2
  /\ SourceCount["slotAtPut"] = 3 /\ SourceCount["downCastValue"] = 2
  /\ SourceCount["makeAssociation"] = 2 /\ SourceCount["makeClosure"] = 1
  /\ SourceCount["call"] = 1 /\ SourceCount["uncheckedCall"] = 1 /\ SourceCount["send"] = 2
BY DEF Opcodes, SourceCount

\* The instructions that go on at the next one with a value of any shape.
Ordinary == Opcodes \ {"return", "jump", "jumpIfFalse", "caseJump", "move", "makeClosure"}

LEMMA OrdinaryPerformed ==
  ASSUME NEW known, NEW values, Machine(known, values), Opcode(Ordinary),
         NEW done, Perform(done), done.out = "value" => Gets(values, code, known, done)
  PROVE  BytecodeInv'
<1>1. Running /\ Instruction.opcode \in Ordinary
  BY DEF Opcode
<1>2. Successors(Instruction) = {Instruction.endPC}
  <2>1. /\ Instruction.opcode \in Opcodes \ {"jump", "caseJump", "jumpIfFalse", "return"}
        /\ Instruction.opcode \notin {"jump", "caseJump"} /\ Instruction.opcode # "jumpIfFalse"
    BY <1>1 DEF Ordinary
  <2> QED
    BY <2>1, Zenon DEF Successors
<1>3. \A shape : Gives(code, known, Top.function, Top.pc, shape) => shape \in Shapes(done.value)
  <2>1. \A shape : Gives(code, known, Top.function, Top.pc, shape) => shape = AnyValue
    BY <1>1, TopFits DEF Gives, Ordinary
  <2> QED
    BY <2>1 DEF Shapes
<1> QED
  BY <1>1, <1>2, <1>3, Performed

\* The operands that an instruction is sure to have.
LEMMA FirstSources ==
  ASSUME NEW known, NEW values, Machine(known, values), Running, NEW n \in Nat,
         Instruction.opcode \in Opcodes, SourceCount[Instruction.opcode] = n
  PROVE  /\ Len(Sources) >= n
         /\ n >= 1 => Sources[1] \in values
         /\ n >= 2 => Sources[2] \in values
         /\ n >= 3 => Sources[3] \in values
<1> DEFINE sources == Sources
<1>1. /\ Len(sources) \in Nat /\ Len(sources) >= n
      /\ \A i \in 1 .. Len(sources) : sources[i] \in values
  BY SourcesFit
<1> HIDE DEF sources
<1>2. /\ Len(sources) >= n
      /\ n >= 1 => sources[1] \in values
      /\ n >= 2 => sources[2] \in values
      /\ n >= 3 => sources[3] \in values
  BY <1>1
<1> QED
  BY <1>2 DEF sources

LEMMA WorldFitsValues ==
  ASSUME NEW known, NEW values, Machine(known, values)
  PROVE  ValuesFit(values, code, known, world) /\ Verified(code, known)
BY DEF Machine

LEMMA SetDebugValueKeeps ==
  ASSUME NEW known, NEW values, Machine(known, values), InterpretSetDebugValue
  PROVE  BytecodeInv'
<1>1. Opcode(Ordinary) /\ Perform(Done(world, Void))
  BY OpcodesAre DEF InterpretSetDebugValue, Compute, Opcode, Ordinary
<1>2. Void[1] = "void"
  BY DEF Void
<1>3. Gets(values, code, known, Done(world, Void))
  BY <1>2, WorldFitsValues, GetsPlain
<1> QED
  BY <1>1, <1>3, OrdinaryPerformed

LEMMA AllocaKeeps ==
  ASSUME NEW known, NEW values, Machine(known, values), InterpretAlloca
  PROVE  BytecodeInv'
<1>1. Opcode(Ordinary) /\ Running /\ Perform(withBoxForValue(world, Sources[1]))
  BY OpcodesAre DEF InterpretAlloca, Opcode, Ordinary
<1>2. Sources[1] \in values
  BY OpcodesAre, FirstSources DEF InterpretAlloca, Opcode
<1>3. Gets(values, code, known, withBoxForValue(world, Sources[1]))
  BY <1>2, WorldFitsValues, GetsBox
<1> QED
  BY <1>1, <1>3, OrdinaryPerformed

LEMMA LoadKeeps ==
  ASSUME NEW known, NEW values, Machine(known, values), InterpretLoad
  PROVE  BytecodeInv'
<1>1. Opcode(Ordinary) /\ Running /\ Perform(pointerLikeType_load(world, Sources[1]))
  BY OpcodesAre DEF InterpretLoad, Opcode, Ordinary
<1>2. Sources[1] \in values
  BY OpcodesAre, FirstSources DEF InterpretLoad, Opcode
<1>3. pointerLikeType_load(world, Sources[1]).out = "value"
        => Gets(values, code, known, pointerLikeType_load(world, Sources[1]))
  BY <1>2, WorldFitsValues, GetsLoaded
<1> QED
  BY <1>1, <1>3, OrdinaryPerformed

LEMMA StoreKeeps ==
  ASSUME NEW known, NEW values, Machine(known, values), InterpretStore
  PROVE  BytecodeInv'
<1>1. Opcode(Ordinary) /\ Running /\ Perform(pointerLikeType_store(world, Sources[1], Sources[2]))
  BY OpcodesAre DEF InterpretStore, Opcode, Ordinary
<1>2. Sources[1] \in values /\ Sources[2] \in values
  BY OpcodesAre, FirstSources DEF InterpretStore, Opcode
<1>3. pointerLikeType_store(world, Sources[1], Sources[2]).out = "value"
        => Gets(values, code, known, pointerLikeType_store(world, Sources[1], Sources[2]))
  BY <1>2, WorldFitsValues, GetsStored
<1> QED
  BY <1>1, <1>3, OrdinaryPerformed

LEMMA SlotAtKeeps ==
  ASSUME NEW known, NEW values, Machine(known, values), InterpretSlotAt
  PROVE  BytecodeInv'
<1> DEFINE done == SlotAt(world, Sources[1], Sources[2][2])
<1>1. Opcode(Ordinary) /\ Running /\ Perform(done)
  BY OpcodesAre DEF InterpretSlotAt, Opcode, Ordinary
<1>2. Sources[1] \in values
  BY OpcodesAre, FirstSources DEF InterpretSlotAt, Opcode
<1>3. done.out = "value" => Gets(values, code, known, done)
  BY <1>2, WorldFitsValues, GetsSlot
<1> HIDE DEF done
<1> QED
  BY <1>1, <1>3, OrdinaryPerformed

LEMMA SlotReferenceAtKeeps ==
  ASSUME NEW known, NEW values, Machine(known, values), InterpretSlotReferenceAt
  PROVE  BytecodeInv'
<1> DEFINE reference == withTupleAndTypeSlot(Sources[1], Sources[2][2])
<1>1. Opcode(Ordinary) /\ Running /\ Perform(Done(world, reference))
  BY OpcodesAre DEF InterpretSlotReferenceAt, Compute, Opcode, Ordinary
<1>2. reference[1] = "slot"
  BY DEF withTupleAndTypeSlot
<1> HIDE DEF reference
<1>3. Gets(values, code, known, Done(world, reference))
  BY <1>2, WorldFitsValues, GetsPlain
<1> QED
  BY <1>1, <1>3, OrdinaryPerformed

LEMMA SlotAtPutKeeps ==
  ASSUME NEW known, NEW values, Machine(known, values), InterpretSlotAtPut
  PROVE  BytecodeInv'
<1> DEFINE done == SlotAtPut(world, Sources[1], Sources[2][2], Sources[3])
<1>1. Opcode(Ordinary) /\ Running /\ Perform(done)
  BY OpcodesAre DEF InterpretSlotAtPut, Opcode, Ordinary
<1>2. Sources[1] \in values /\ Sources[3] \in values
  BY OpcodesAre, FirstSources DEF InterpretSlotAtPut, Opcode
<1>3. done.out = "value" => Gets(values, code, known, done)
  BY <1>2, WorldFitsValues, GetsSlotPut
<1> HIDE DEF done
<1> QED
  BY <1>1, <1>3, OrdinaryPerformed

LEMMA DownCastKeeps ==
  ASSUME NEW known, NEW values, Machine(known, values), InterpretDownCast
  PROVE  BytecodeInv'
<1> DEFINE done == IF tuple_typecheckValue(Sources[2], Sources[1][2])
                   THEN Done(world, Sources[2]) ELSE Failed(world)
<1>1. Opcode(Ordinary) /\ Running /\ Perform(done)
  BY OpcodesAre DEF InterpretDownCast, Opcode, Ordinary
<1>2. Sources[2] \in values
  BY OpcodesAre, FirstSources DEF InterpretDownCast, Opcode
<1>3. done.out = "value" => Gets(values, code, known, done)
  BY <1>2, WorldFitsValues, GetsHeld, FailedIs
<1> HIDE DEF done
<1> QED
  BY <1>1, <1>3, OrdinaryPerformed

\* The collections refer to their elements, and the program never takes one out.
LEMMA CollectionKeeps ==
  ASSUME NEW known, NEW values, Machine(known, values),
         InterpretMakeAssociation \/ InterpretMakeArray \/ InterpretMakeByteArray
           \/ InterpretMakeDictionary
  PROVE  BytecodeInv'
<1>1. ASSUME NEW value, value[1] \in {"assoc", "array", "bytes", "dictionary"},
             Opcode(Ordinary), Compute(value)
      PROVE  BytecodeInv'
  <2>1. Gets(values, code, known, Done(world, value))
    BY <1>1, WorldFitsValues, GetsPlain
  <2>2. Perform(Done(world, value))
    BY <1>1 DEF Compute
  <2> QED
    BY <1>1, <2>1, <2>2, OrdinaryPerformed
<1>2. CASE InterpretMakeAssociation
  <2>1. Opcode(Ordinary) /\ Compute(<<"assoc", Sources[1], Sources[2]>>)
    BY <1>2, OpcodesAre DEF InterpretMakeAssociation, Opcode, Ordinary
  <2>2. <<"assoc", Sources[1], Sources[2]>>[1] = "assoc"
    OBVIOUS
  <2> QED
    BY <1>1, <2>1, <2>2
<1>3. CASE InterpretMakeArray
  <2>1. Opcode(Ordinary) /\ Compute(<<"array", Sources>>)
    BY <1>3, OpcodesAre DEF InterpretMakeArray, Opcode, Ordinary
  <2>2. <<"array", Sources>>[1] = "array"
    OBVIOUS
  <2> QED
    BY <1>1, <2>1, <2>2
<1>4. CASE InterpretMakeByteArray
  <2> DEFINE bytes == [i \in DOMAIN Sources |-> Sources[i][2]]
  <2>1. Opcode(Ordinary) /\ Compute(<<"bytes", bytes>>)
    BY <1>4, OpcodesAre DEF InterpretMakeByteArray, Opcode, Ordinary
  <2> HIDE DEF bytes
  <2>2. <<"bytes", bytes>>[1] = "bytes"
    OBVIOUS
  <2> QED
    BY <1>1, <2>1, <2>2
<1>5. CASE InterpretMakeDictionary
  <2>1. Opcode(Ordinary) /\ Compute(DictionaryOf(Sources))
    BY <1>5, OpcodesAre DEF InterpretMakeDictionary, Opcode, Ordinary
  <2>2. DictionaryOf(Sources)[1] = "dictionary"
    BY DEF DictionaryOf
  <2> QED
    BY <1>1, <2>1, <2>2
<1> QED
  BY <1>2, <1>3, <1>4, <1>5

LEMMA SendKeeps ==
  ASSUME NEW known, NEW values, Machine(known, values), InterpretSend
  PROVE  BytecodeInv'
<1> DEFINE done == Send(world, Sources[2], Sources[1][2], SubSeq(Sources, 3, Len(Sources)))
<1>1. Opcode(Ordinary) /\ Running /\ Perform(done)
  BY OpcodesAre DEF InterpretSend, Opcode, Ordinary
<1>2. Gets(values, code, known, done)
  BY WorldFitsValues, GetsAnswer
<1> HIDE DEF done
<1> QED
  BY <1>1, <1>2, OrdinaryPerformed

LEMMA LoadBindingKeeps ==
  ASSUME NEW known, NEW values, Machine(known, values), InterpretLoadBinding
  PROVE  BytecodeInv'
<1>1. /\ Opcode(Ordinary) /\ Running /\ Perform(Done(world, Sources[1][2]))
      /\ Instruction.opcode = "loadSymbolValueBinding"
  BY OpcodesAre DEF InterpretLoadBinding, Compute, Opcode, Ordinary
<1>2. Len(Sources) >= 1 /\ Sources[1] \in values
  BY <1>1, OpcodesAre, FirstSources
<1>3. Sources[1][1] = "binding"
  <2>1. /\ SourceOperands(Instruction)[1][1] = "literal"
        /\ LiteralAt(code, Top.function, SourceOperands(Instruction)[1])[1] = "binding"
    BY <1>1, TopFits DEF RolesVerified
  <2>2. Sources[1] = VectorOf(Top, SourceOperands(Instruction)[1])[SourceOperands(Instruction)[1][2]]
    BY <1>1, <1>2, SourcesFit DEF Sources, Fetch
  <2> QED
    BY <2>1, <2>2 DEF VectorOf, LiteralAt, BytecodeOf
<1>4. Sources[1][2] \in values
  BY <1>2, <1>3, WorldFitsValues DEF ValuesFit, WellMade
<1>5. Gets(values, code, known, Done(world, Sources[1][2]))
  BY <1>4, WorldFitsValues, GetsHeld
<1> QED
  BY <1>1, <1>5, OrdinaryPerformed

\* An instruction that is no jump goes on at the next one.
LEMMA GoesOnAtEnd ==
  ASSUME NEW instruction,
         instruction.opcode \in Opcodes \ {"return", "jump", "jumpIfFalse", "caseJump"}
  PROVE  Successors(instruction) = {instruction.endPC}
<1>1. /\ instruction.opcode \in Opcodes \ {"jump", "caseJump", "jumpIfFalse", "return"}
      /\ instruction.opcode \notin {"jump", "caseJump"} /\ instruction.opcode # "jumpIfFalse"
  OBVIOUS
<1> QED
  BY <1>1, Zenon DEF Successors

LEMMA MoveKeeps ==
  ASSUME NEW known, NEW values, Machine(known, values), InterpretMove
  PROVE  BytecodeInv'
<1>1. Running /\ Instruction.opcode = "move" /\ Perform(Done(world, Sources[1]))
  BY DEF InterpretMove, Compute, Opcode
<1>2. Len(Sources) >= 1 /\ Sources[1] \in values
  BY <1>1, OpcodesAre, FirstSources
<1>3. Gets(values, code, known, Done(world, Sources[1]))
  BY <1>2, WorldFitsValues, GetsHeld
<1>4. ASSUME NEW shape, Gives(code, known, Top.function, Top.pc, shape)
      PROVE  shape \in Shapes(Sources[1])
  <2>1. \/ shape = AnyValue
        \/ Knows(code, known, Top.function, Top.pc, SourceOperands(Instruction)[1], shape)
    BY <1>1, <1>4, TopFits DEF Gives
  <2>2. 1 \in 1 .. Len(Sources)
    BY <1>1, <1>2, SourcesFit
  <2>3. AnyValue \in Shapes(Sources[1])
    BY DEF Shapes
  <2> QED
    BY <1>1, <2>1, <2>2, <2>3, SourcesFit
<1>5. Done(world, Sources[1]).value = Sources[1]
  BY DoneIs
<1>6. Successors(Instruction) = {Instruction.endPC}
  BY <1>1, OpcodesAre, GoesOnAtEnd
<1> QED
  BY <1>1, <1>3, <1>4, <1>5, <1>6, Performed

\* A closure has the captures that its function was verified with.
LEMMA MakeClosureKeeps ==
  ASSUME NEW known, NEW values, Machine(known, values), InterpretMakeClosure
  PROVE  BytecodeInv'
<1> DEFINE definition == Sources[1]
           closure == <<"closure", definition[2], Tail(Sources), definition[3]>>
           operands == SourceOperands(Instruction)
<1>1. Running /\ Instruction.opcode = "makeClosure" /\ Perform(Done(world, closure))
  BY DEF InterpretMakeClosure, Compute, Opcode
<1>2. Len(Sources) >= 1
  BY <1>1, OpcodesAre, FirstSources
<1>3. /\ operands[1][1] = "literal" /\ definition = LiteralAt(code, Top.function, operands[1])
  <2>1. operands[1][1] = "literal"
    BY <1>1, TopFits DEF RolesVerified
  <2>2. Sources[1] = VectorOf(Top, operands[1])[operands[1][2]]
    BY <1>1, <1>2, SourcesFit DEF Sources, Fetch
  <2> QED
    BY <2>1, <2>2 DEF VectorOf, LiteralAt, BytecodeOf
<1>4. /\ definition[2] \in DOMAIN code
      /\ code[definition[2]].arguments = Len(definition[3][2])
      /\ \A fact \in known[definition[2]].capture :
           /\ fact[1] \in 1 .. Len(operands) - 1
           /\ Knows(code, known, Top.function, Top.pc, operands[fact[1] + 1], fact[2])
  BY <1>1, <1>3, TopFits DEF RolesVerified
<1>5. ArgumentCount(closure) = Len(definition[3][2])
  BY DEF ArgumentCount, TypeOfValue
<1>6. Fits(values, Tail(Sources), known[definition[2]].capture)
  <2> DEFINE sources == Sources
  <2>1. /\ sources \in Seq(values) /\ Len(sources) \in Nat /\ Len(sources) = Len(operands)
        /\ \A i \in 1 .. Len(sources) : sources[i] \in values
        /\ \A i \in 1 .. Len(sources) : \A shape :
             Knows(code, known, Top.function, Top.pc, operands[i], shape) => shape \in Shapes(sources[i])
    BY <1>1, SourcesFit
  <2> HIDE DEF sources, operands, definition
  <2>2. /\ DOMAIN Tail(sources) = 1 .. Len(sources) - 1
        /\ \A i \in 1 .. Len(sources) - 1 : Tail(sources)[i] = sources[i + 1]
    BY <1>2, <2>1 DEF sources
  <2>3. ASSUME NEW fact \in known[definition[2]].capture
        PROVE  /\ fact[1] \in DOMAIN Tail(sources) /\ Tail(sources)[fact[1]] \in values
               /\ fact[2] \in Shapes(Tail(sources)[fact[1]])
    <3> DEFINE i == fact[1]
    <3>1. i \in 1 .. Len(sources) - 1 /\ Knows(code, known, Top.function, Top.pc, operands[i + 1], fact[2])
      BY <1>4, <2>1
    <3> HIDE DEF i
    <3>2. i + 1 \in 1 .. Len(sources)
      BY <2>1, <3>1
    <3> QED
      BY <2>1, <2>2, <3>1, <3>2 DEF i
  <2> QED
    BY <2>3, Zenon DEF Fits, sources
<1>7. WellMade(values, code, known, world, closure)
  <2>1. closure # Unwritten /\ closure[1] = "closure" /\ closure[2] = definition[2]
        /\ closure[3] = Tail(Sources)
    BY DEF Unwritten
  <2> HIDE DEF closure, definition
  <2> QED
    BY <1>4, <1>5, <1>6, <2>1 DEF WellMade
<1>8. ASSUME NEW shape, Gives(code, known, Top.function, Top.pc, shape)
      PROVE  shape \in Shapes(closure)
  <2>1. \/ shape = AnyValue
        \/ shape = FunctionOf(Len(definition[3][2]))
    BY <1>1, <1>3, <1>8, TopFits DEF Gives
  <2>2. closure[1] = "closure"
    OBVIOUS
  <2> HIDE DEF closure, definition
  <2> QED
    BY <1>5, <2>1, <2>2 DEF Shapes
<1>9. Successors(Instruction) = {Instruction.endPC}
  BY <1>1, OpcodesAre, GoesOnAtEnd
<1> HIDE DEF closure
<1>10. Gets(values, code, known, Done(world, closure)) /\ Done(world, closure).value = closure
  BY <1>7, WorldFitsValues, GetsNew, DoneIs
<1> QED
  BY <1>1, <1>8, <1>9, <1>10, Performed

-----------------------------------------------------------------------------
(********************************** Jumps **********************************)

\* The operands of a jump, those it fetches before its offsets.
LEMMA OffsetsAre ==
  ASSUME NEW known, NEW values, Machine(known, values), Running,
         Instruction.opcode \in {"jump", "jumpIfFalse", "caseJump"}
  PROVE  /\ DestinationCount(Instruction) = 0
         /\ Len(Instruction.operands) = Len(Sources) + OffsetCount(Instruction)
         /\ OffsetCount(Instruction) \in Nat /\ Len(Sources) \in Nat
         /\ \A i \in Len(Sources) + 1 .. Len(Instruction.operands) :
              Instruction.endPC + Instruction.operands[i][2] \in Targets(Instruction)
<1> DEFINE operands == Instruction.operands
           offsets == OffsetCount(Instruction)
           n == Len(Sources)
<1>1. OperandsVerified(code, known, Top.function, Top.pc)
        /\ Instruction = code[Top.function].instructions[Top.pc]
  BY TopFits
<1>2. /\ IsSequence(operands)
      /\ Len(operands) >= DestinationCount(Instruction) + OffsetCount(Instruction)
  BY <1>1 DEF OperandsVerified
<1>3. DestinationCount(Instruction) = 0
  BY DEF DestinationCount
<1>4. /\ Len(operands) \in Nat /\ offsets \in Nat /\ n \in Nat
      /\ n = Len(operands) - offsets
  BY <1>2, <1>3, SourcesAre, SourcesFit
<1>5. Offsets(Instruction) = Len(operands) - offsets + 1 .. Len(operands)
  BY DEF Offsets
<1> HIDE DEF operands, offsets, n
<1>6. Len(operands) = n + offsets /\ Offsets(Instruction) = n + 1 .. Len(operands)
  BY <1>4, <1>5
<1>7. \A i \in n + 1 .. Len(operands) :
        Instruction.endPC + Instruction.operands[i][2] \in Targets(Instruction)
  BY <1>6 DEF Targets
<1> QED
  BY <1>3, <1>4, <1>6, <1>7, Zenon DEF operands, offsets, n

LEMMA JumpKeeps ==
  ASSUME NEW known, NEW values, Machine(known, values), InterpretJump
  PROVE  BytecodeInv'
<1> DEFINE target == Instruction.endPC + Instruction.operands[1][2]
<1>1. Running /\ Instruction.opcode = "jump" /\ GoTo(Top, target) /\ UNCHANGED world
  BY DEF InterpretJump, Opcode
<1>2. OffsetCount(Instruction) = 1
  BY <1>1 DEF OffsetCount
<1>3. Len(Sources) = 0
  <2>1. SourceCount["jump"] = 0 /\ Instruction.opcode \in {"jump", "jumpIfFalse"}
    BY <1>1 DEF SourceCount
  <2> QED
    BY <1>1, <2>1, TopFits, SourcesFit DEF OperandsVerified
<1>4. DestinationCount(Instruction) = 0 /\ target \in Targets(Instruction)
  BY <1>1, <1>2, <1>3, OffsetsAre
<1>5. Successors(Instruction) = Targets(Instruction)
  BY <1>1 DEF Successors
<1> HIDE DEF target
<1> QED
  BY <1>1, <1>4, <1>5, Jumped

LEMMA JumpIfFalseKeeps ==
  ASSUME NEW known, NEW values, Machine(known, values), InterpretJumpIfFalse
  PROVE  BytecodeInv'
<1> DEFINE target == Instruction.endPC + Instruction.operands[2][2]
           taken == IF Sources[1] = Boolean(TRUE) THEN Instruction.endPC ELSE target
<1>1. Running /\ Instruction.opcode = "jumpIfFalse" /\ GoTo(Top, taken) /\ UNCHANGED world
  BY DEF InterpretJumpIfFalse, Opcode
<1>2. OffsetCount(Instruction) = 1
  BY <1>1 DEF OffsetCount
<1>3. Len(Sources) = 1
  <2>1. Instruction.opcode \in {"jump", "jumpIfFalse"}
    BY <1>1
  <2> QED
    BY <1>1, <2>1, OpcodesAre, TopFits, SourcesFit DEF OperandsVerified
<1>4. DestinationCount(Instruction) = 0 /\ target \in Targets(Instruction)
  BY <1>1, <1>2, <1>3, OffsetsAre
<1>5. Successors(Instruction) = Targets(Instruction) \cup {Instruction.endPC}
  BY <1>1 DEF Successors
<1>6. taken \in Successors(Instruction)
  BY <1>4, <1>5
<1> HIDE DEF taken
<1> QED
  BY <1>1, <1>4, <1>6, Jumped

LEMMA CaseJumpKeeps ==
  ASSUME NEW known, NEW values, Machine(known, values), InterpretCaseJump
  PROVE  BytecodeInv'
<1> DEFINE operands == Instruction.operands
           count == Len(Sources) - 1
           keys == [i \in 1 .. count |-> i]
           equal == {i \in 1 .. Len(keys) : Sources[keys[i] + 1] = Sources[1]}
           case == IF equal # {} THEN Min(equal) ELSE 0
           taken == IF case = 0 THEN Last(operands) ELSE operands[1 + count + case]
           target == Instruction.endPC + taken[2]
<1>1. Running /\ Instruction.opcode = "caseJump" /\ GoTo(Top, target) /\ UNCHANGED world
  BY DEF InterpretCaseJump, SelectInSeq, Opcode
<1>2. /\ DestinationCount(Instruction) = 0
      /\ Len(operands) = Len(Sources) + OffsetCount(Instruction)
      /\ OffsetCount(Instruction) \in Nat /\ Len(Sources) \in Nat
      /\ \A i \in Len(Sources) + 1 .. Len(operands) :
           Instruction.endPC + operands[i][2] \in Targets(Instruction)
  BY <1>1, OffsetsAre
<1>3. Len(Sources) >= 1
  BY <1>1, OpcodesAre, FirstSources
<1>4. Len(operands) = 2 * OffsetCount(Instruction)
  BY <1>1, TopFits DEF OperandsVerified
<1> DEFINE m == Len(Sources)
<1>5. m \in Nat /\ m >= 1 /\ count = m - 1 /\ Len(operands) = 2 * m
  BY <1>2, <1>3, <1>4
<1>6. case \in 0 .. count
  <2>1. count \in Nat /\ Len(keys) = count
    <3> HIDE DEF m
    <3> QED
      BY <1>5
  <2>2. equal \subseteq 1 .. count
    BY <2>1
  <2> HIDE DEF equal, count, keys
  <2>3. CASE equal # {}
    <3>1. equal \subseteq Nat
      BY <2>1, <2>2
    <3>2. PICK least \in equal : \A y \in equal : least <= y
      BY <2>3, <3>1, LeastIsMember, Zenon
    <3>3. Min(equal) \in equal
      BY <3>2, Zenon DEF Min
    <3>4. case = Min(equal)
      BY <2>3
    <3>5. Min(equal) \in 1 .. count
      BY <2>2, <3>3, Zenon
    <3> HIDE DEF case
    <3>6. \A x \in 1 .. count : x \in 0 .. count
      BY <2>1
    <3> QED
      BY <3>4, <3>5, <3>6, Zenon
  <2>4. CASE equal = {}
    BY <2>1, <2>4
  <2> QED
    BY <2>3, <2>4
<1>7. \E i \in m + 1 .. 2 * m : taken = operands[i]
  <2> HIDE DEF case, operands
  <2>1. CASE case = 0
    <3>1. taken = operands[2 * m]
      BY <1>5, <2>1 DEF Last
    <3> HIDE DEF taken, m
    <3>2. 2 * m \in m + 1 .. 2 * m
      BY <1>5
    <3> QED
      BY <3>1, <3>2
  <2>2. CASE case # 0
    <3>1. taken = operands[1 + count + case]
      BY <2>2
    <3> HIDE DEF taken, m, count
    <3>2. 1 + count + case \in m + 1 .. 2 * m
      BY <1>5, <1>6, <2>2
    <3> QED
      BY <3>1, <3>2
  <2> QED
    BY <2>1, <2>2
<1>8. target \in Targets(Instruction)
  <2>1. PICK i \in m + 1 .. 2 * m : taken = operands[i]
    BY <1>7
  <2> HIDE DEF taken
  <2> QED
    BY <1>2, <1>5, <2>1
<1>9. Successors(Instruction) = Targets(Instruction)
  BY <1>1 DEF Successors
<1> HIDE DEF target
<1> QED
  BY <1>1, <1>2, <1>8, <1>9, Jumped

-----------------------------------------------------------------------------
(******************************* The calls *********************************)

LEMMA ReturnKeeps ==
  ASSUME NEW known, NEW values, Machine(known, values), InterpretReturn
  PROVE  BytecodeInv'
<1> DEFINE value == Sources[1]
<1>1. Running /\ Instruction.opcode = "return" /\ code' = code /\ world' = world
  BY DEF InterpretReturn, Opcode
<1>2. /\ Verified(code, known) /\ ValuesFit(values, code, known, world')
      /\ FramesFit(values, code, known, frames) /\ frames # <<>>
  BY <1>1, TopFits DEF Machine
<1>3. value \in values
  BY <1>1, OpcodesAre, FirstSources
<1>4. CASE Len(frames) = 1
  <2>1. outcome' = <<"value", value>> /\ frames' = <<>>
    BY <1>4 DEF InterpretReturn
  <2>2. ~Running'
    BY <2>1 DEF Running
  <2>3. FramesFit(values, code, known, frames')
    <3>1. IsSequence(<<>>) /\ DOMAIN <<>> = {} /\ Len(<<>>) = 0
      BY DEF IsSequence
    <3> QED
      BY <2>1, <3>1 DEF FramesFit
  <2> QED
    BY <1>1, <1>2, <2>2, <2>3, MachineNext
<1>5. CASE Len(frames) # 1
  <2> DEFINE callers == Front(frames)
             caller == Last(callers)
             after == WithDestination(caller, value)
  <2>1. frames' = Append(Front(callers), after)
    BY <1>5 DEF InterpretReturn
  <2>2. /\ FramesFit(values, code, known, callers) /\ callers # <<>>
        /\ Calls(code, caller) /\ FrameFits(values, code, known, caller)
    BY <1>2, <1>5, PoppedFrame
  <2> HIDE DEF value, caller, callers
  <2>3. code[caller.function].instructions[caller.pc].opcode \in {"call", "uncheckedCall"}
    BY <2>2 DEF Calls
  <2>4. LET instruction == code[caller.function].instructions[caller.pc]
        IN Successors(instruction) = {instruction.endPC}
    BY <2>3, OpcodesAre, GoesOnAtEnd
  <2>5. \A shape : Gives(code, known, caller.function, caller.pc, shape) => shape \in Shapes(value)
    BY <2>3 DEF Gives, Shapes
  <2>6. FrameFits(values, code, known, after)
    BY <1>2, <1>3, <2>2, <2>4, <2>5, GoesOnWithResult
  <2> HIDE DEF after
  <2>7. FramesFit(values, code, known, frames') /\ frames' # <<>>
    BY <2>1, <2>2, <2>6, ReplacedFrame
  <2> QED
    BY <1>1, <1>2, <2>7, MachineNext
<1> QED
  BY <1>4, <1>5

\* The arguments that are passed, and how many.
LEMMA ArgumentsPassed ==
  ASSUME NEW known, NEW values, Machine(known, values), Running,
         Instruction.opcode \in {"call", "uncheckedCall"}, CallArguments.out = "value"
  PROVE  /\ Sources[1] \in values
         /\ CallArguments.world = world /\ CallArguments.value \in Seq(values)
         /\ Sources[1][1] \in {"closure", "primitive"} =>
              Len(CallArguments.value) = ArgumentCount(Sources[1])
<1> DEFINE vector == Tail(Sources)
           function == Sources[1]
<1>1. Len(Sources) >= 1 /\ function \in values
  BY OpcodesAre, FirstSources
<1>2. vector \in Seq(values) /\ Len(vector) = Len(Sources) - 1
  <2> DEFINE sources == Sources
  <2>1. sources \in Seq(values) /\ Len(sources) \in Nat /\ Len(sources) >= 1
    BY <1>1, SourcesFit
  <2> HIDE DEF sources
  <2>2. Tail(sources) \in Seq(values) /\ Len(Tail(sources)) = Len(sources) - 1
    BY <2>1
  <2> QED
    BY <2>2 DEF sources
<1> HIDE DEF vector, function
<1>3. CASE Instruction.opcode = "call"
  <2> DEFINE types == TypeOfValue(function)[2]
  <2>1. CallArguments = CoerceAll(world, vector, types)
    BY <1>3 DEF CallArguments, vector, function
  <2>2. /\ CallArguments.world = world /\ CallArguments.value \in Seq(values)
        /\ Len(CallArguments.value) = Len(types)
    <3> HIDE DEF types
    <3> QED
      BY <1>2, <2>1, WorldFitsValues, AllCoerced
  <2> QED
    BY <1>1, <2>2 DEF ArgumentCount, function
<1>4. CASE Instruction.opcode = "uncheckedCall"
  <2>1. CallArguments = Done(world, vector)
    BY <1>4 DEF CallArguments, vector
  <2>2. FunctionOf(Len(Sources) - 1) \in Shapes(function)
    <3>1. Knows(code, known, Top.function, Top.pc, SourceOperands(Instruction)[1],
                FunctionOf(Len(SourceOperands(Instruction)) - 1))
      BY <1>4, TopFits DEF RolesVerified
    <3>2. /\ Len(Sources) = Len(SourceOperands(Instruction)) /\ 1 \in 1 .. Len(Sources)
          /\ \A i \in 1 .. Len(Sources) : \A shape :
               Knows(code, known, Top.function, Top.pc, SourceOperands(Instruction)[i], shape)
                 => shape \in Shapes(Sources[i])
      BY <1>1, SourcesFit
    <3> QED
      BY <3>1, <3>2 DEF function
  <2>3. Len(Sources) - 1 = ArgumentCount(function)
    BY <2>2 DEF Shapes, FunctionOf, AnyValue
  <2> QED
    BY <1>1, <1>2, <2>1, <2>3, DoneIs DEF function
<1> QED
  BY <1>3, <1>4

LEMMA PrimitiveCallKeeps ==
  ASSUME NEW known, NEW values, Machine(known, values), InterpretPrimitiveCall
  PROVE  BytecodeInv'
<1> DEFINE done == IF CallArguments.out = "value"
                   THEN ApplyPrimitive(CallArguments.world, Sources[1][2], CallArguments.value)
                   ELSE CallArguments
<1>1. /\ Opcode(Ordinary) /\ Running /\ Perform(done)
      /\ Instruction.opcode \in {"call", "uncheckedCall"} /\ Sources[1][1] = "primitive"
  BY OpcodesAre DEF InterpretPrimitiveCall, Opcode, Ordinary
<1>2. done.out = "value" => Gets(values, code, known, done)
  <2> SUFFICES ASSUME done.out = "value"
               PROVE  Gets(values, code, known, done)
    OBVIOUS
  <2>1. CallArguments.out = "value"
    OBVIOUS
  <2>2. done = ApplyPrimitive(CallArguments.world, Sources[1][2], CallArguments.value)
    BY <2>1
  <2> HIDE DEF done
  <2>3. /\ Sources[1] \in values /\ CallArguments.world = world
        /\ CallArguments.value \in Seq(values)
    BY <1>1, <2>1, ArgumentsPassed
  <2>4. Sources[1][2] \in Primitives
    BY <1>1, <2>3, WorldFitsValues DEF ValuesFit, WellMade
  <2> QED
    BY <2>2, <2>3, <2>4, WorldFitsValues, GetsApplied
<1> HIDE DEF done
<1> QED
  BY <1>1, <1>2, OrdinaryPerformed

LEMMA ClosureCallKeeps ==
  ASSUME NEW known, NEW values, Machine(known, values), InterpretClosureCall
  PROVE  BytecodeInv'
<1> DEFINE closure == Sources[1]
           f == closure[2]
           arguments == CallArguments.value
           captures == closure[3]
           locals == [i \in 1 .. code[f].locals |-> Unwritten]
           frame == ActivationRecord(f, arguments, captures)
<1>1. Running /\ Instruction.opcode \in {"call", "uncheckedCall"} /\ closure[1] = "closure"
  BY DEF InterpretClosureCall, Opcode
<1>2. CASE ValidDestination /\ CallArguments.out = "value"
  <2>1. frames' = Append(frames, frame) /\ UNCHANGED <<code, world, outcome>>
    BY <1>2 DEF InterpretClosureCall
  <2>2. /\ closure \in values /\ arguments \in Seq(values)
        /\ Len(arguments) = ArgumentCount(closure)
    BY <1>1, <1>2, ArgumentsPassed
  <2>3. WellMade(values, code, known, world, closure)
    BY <2>2, WorldFitsValues DEF ValuesFit
  <2>4. /\ f \in DOMAIN code /\ code[f].arguments = Len(arguments)
        /\ Fits(values, captures, known[f].capture)
    BY <1>1, <2>2, <2>3 DEF WellMade
  <2>5. 0 \in DOMAIN code[f].instructions /\ known[f].local[0] = {}
    BY <2>4, WorldFitsValues DEF Verified
  <2>6. FrameFits(values, code, known, frame)
    <3>1. frame = Frame(f, 0, arguments, captures, locals)
      BY DEF ActivationRecord, Frame
    <3>2. DOMAIN locals = 1 .. code[f].locals
      OBVIOUS
    <3>3. Fits(values, locals, known[f].local[0])
      BY <2>5 DEF Fits
    <3>4. \A i \in 1 .. code[f].arguments : i \in DOMAIN arguments /\ arguments[i] \in values
      <4> HIDE DEF arguments
      <4> QED
        BY <2>2, <2>4
    <3> HIDE DEF frame, f, arguments, captures, locals
    <3> QED
      BY <2>4, <2>5, <3>1, <3>2, <3>3, <3>4, FrameOf
  <2>7. Calls(code, Top)
    BY <1>1, TopFits DEF Calls
  <2>8. FramesFit(values, code, known, frames) /\ frames # <<>>
    BY <1>1, TopFits DEF Machine
  <2> HIDE DEF frame
  <2>9. FramesFit(values, code, known, frames') /\ frames' # <<>>
    BY <2>1, <2>6, <2>7, <2>8, PushedFrame DEF Top
  <2>10. ValuesFit(values, code, known, world')
    BY <2>1, WorldFitsValues
  <2> QED
    BY <2>1, <2>9, <2>10, WorldFitsValues, MachineNext
<1>3. CASE ~(ValidDestination /\ CallArguments.out = "value")
  <2>1. RaiseError
    BY <1>3 DEF InterpretClosureCall
  <2> QED
    BY <2>1, Raised
<1> QED
  BY <1>2, <1>3

-----------------------------------------------------------------------------
(******************************* The theorems ******************************)

LEMMA StartFits ==
  ASSUME NEW known, NEW values, Starts(known, values)
  PROVE  BytecodeInv
<1>1. PICK f \in DOMAIN code : /\ code[f].arguments = 0 /\ known[f].capture = {}
                               /\ frames = <<ActivationRecord(f, <<>>, <<>>)>>
  BY DEF Starts
<1> DEFINE frame == ActivationRecord(f, <<>>, <<>>)
           locals == [i \in 1 .. code[f].locals |-> Unwritten]
<1>2. Verified(code, known) /\ ValuesFit(values, code, known, world)
  BY DEF Starts
<1>3. 0 \in DOMAIN code[f].instructions /\ known[f].local[0] = {}
  BY <1>2 DEF Verified
<1>4. FrameFits(values, code, known, frame)
  <2>1. frame = Frame(f, 0, <<>>, <<>>, locals)
    BY DEF ActivationRecord, Frame
  <2>2. DOMAIN locals = 1 .. code[f].locals
    OBVIOUS
  <2>3. Fits(values, locals, known[f].local[0]) /\ Fits(values, <<>>, known[f].capture)
    BY <1>1, <1>3 DEF Fits
  <2>4. \A i \in 1 .. code[f].arguments : i \in DOMAIN <<>> /\ <<>>[i] \in values
    BY <1>1
  <2> HIDE DEF frame, locals
  <2> QED
    BY <1>3, <2>1, <2>2, <2>3, <2>4, FrameOf
<1>5. FramesFit(values, code, known, frames) /\ frames # <<>>
  <2> HIDE DEF frame
  <2>1. frames = <<frame>>
    BY <1>1 DEF frame
  <2>2. frames \in Seq({frame}) /\ Len(frames) = 1 /\ DOMAIN frames = {1} /\ frames[1] = frame
    BY <2>1
  <2>3. IsSequence(frames)
    BY <2>2, SequenceIs
  <2>4. 1 .. Len(frames) - 1 = {}
    BY <2>2
  <2> QED
    BY <1>4, <2>1, <2>2, <2>3, <2>4 DEF FramesFit
<1>6. Machine(known, values)
  BY <1>2, <1>5 DEF Machine
<1> QED
  BY <1>6 DEF BytecodeInv

LEMMA StepKeeps ==
  ASSUME BytecodeInv, [Step]_interpreterVars
  PROVE  BytecodeInv'
<1>1. PICK known, values : Machine(known, values)
  BY DEF BytecodeInv
<1>2. CASE UNCHANGED interpreterVars
  <2>1. /\ code' = code /\ frames' = frames /\ world' = world /\ outcome' = outcome
    BY <1>2 DEF interpreterVars
  <2>2. Machine(known, values)'
    BY <1>1, <2>1 DEF Machine, Running
  <2> QED
    BY <2>2 DEF BytecodeInv
<1>3. CASE Step
  BY <1>1, <1>3, SetDebugValueKeeps, JumpKeeps, JumpIfFalseKeeps, CaseJumpKeeps, ReturnKeeps,
     MoveKeeps, AllocaKeeps, LoadKeeps, StoreKeeps, LoadBindingKeeps, SlotAtKeeps,
     SlotReferenceAtKeeps, SlotAtPutKeeps, DownCastKeeps, CollectionKeeps, MakeClosureKeeps,
     PrimitiveCallKeeps, ClosureCallKeeps, SendKeeps DEF Step
<1> QED
  BY <1>2, <1>3

\* The operands that were verified are within their vectors, the destination too.
LEMMA OperandsAreThere ==
  ASSUME BytecodeInv
  PROVE  OperandsExist
<1>1. PICK known, values : Machine(known, values)
  BY DEF BytecodeInv
<1> SUFFICES ASSUME NEW r \in DOMAIN frames
             PROVE  LET frame == frames[r]
                        instructions == BytecodeOf(frame).instructions
                        operands == instructions[frame.pc].operands
                    IN /\ frame.pc \in DOMAIN instructions
                       /\ \A i \in DOMAIN operands :
                            operands[i][1] \in {"argument", "capture", "literal", "local"}
                              => operands[i][2] \in DOMAIN VectorOf(frame, operands[i])
  BY DEF OperandsExist
<1> DEFINE frame == frames[r]
           instruction == code[frame.function].instructions[frame.pc]
           operands == instruction.operands
           sources == SourceOperands(instruction)
           from == DestinationCount(instruction)
           offsets == OffsetCount(instruction)
           n == Len(sources)
<1>2. FrameFits(values, code, known, frame)
  BY <1>1 DEF Machine, FramesFit
<1>3. ValuesFit(values, code, known, world) /\ Verified(code, known)
  BY <1>1 DEF Machine
<1>4. frame.function \in DOMAIN code /\ frame.pc \in DOMAIN code[frame.function].instructions
  BY <1>2 DEF FrameFits
<1>5. OperandsVerified(code, known, frame.function, frame.pc)
  BY <1>3, <1>4 DEF Verified
<1>6. BytecodeOf(frame).instructions = code[frame.function].instructions
  BY DEF BytecodeOf
<1> HIDE DEF frame
<1>7. /\ IsSequence(operands) /\ Len(operands) >= from + offsets
      /\ from = 1 => \/ operands[1][1] = "missing"
                     \/ operands[1][1] = "local" /\ operands[1][2] \in 1 .. code[frame.function].locals
      /\ \A i \in DOMAIN sources : Knows(code, known, frame.function, frame.pc, sources[i], AnyValue)
      /\ \A i \in Offsets(instruction) : operands[i][1] = "offset"
  BY <1>5 DEF OperandsVerified
<1>8. Offsets(instruction) = Len(operands) - offsets + 1 .. Len(operands)
  BY DEF Offsets
<1> HIDE DEF instruction
<1>9. /\ Len(operands) \in Nat /\ DOMAIN operands = 1 .. Len(operands)
      /\ offsets \in Nat /\ from \in {0, 1}
      /\ n = Len(operands) - offsets - from /\ DOMAIN sources = 1 .. n
      /\ \A i \in 1 .. n : sources[i] = operands[i + from]
  BY <1>7, SourcesAre
<1>10. ASSUME NEW i \in DOMAIN operands,
              operands[i][1] \in {"argument", "capture", "literal", "local"}
       PROVE  operands[i][2] \in DOMAIN VectorOf(frame, operands[i])
  <2>1. CASE i \in Offsets(instruction)
    BY <1>7, <1>10, <2>1
  <2>2. CASE from = 1 /\ i = 1
    <3>1. operands[i][1] = "local" /\ operands[i][2] \in 1 .. code[frame.function].locals
      BY <1>7, <1>10, <2>2
    <3>2. DOMAIN frame.locals = 1 .. code[frame.function].locals
      BY <1>2 DEF FrameFits
    <3> QED
      BY <3>1, <3>2 DEF VectorOf
  <2>3. CASE i \notin Offsets(instruction) /\ ~(from = 1 /\ i = 1)
    <3>1. \E j \in 1 .. n : i = j + from
      <4> HIDE DEF operands, sources, from, offsets, n
      <4>1. i - from \in 1 .. n /\ i = (i - from) + from
        BY <1>8, <1>9, <2>3
      <4> QED
        BY <4>1
    <3>2. PICK j \in 1 .. n : operands[i] = sources[j]
      BY <1>9, <3>1
    <3>3. Knows(code, known, frame.function, frame.pc, operands[i], AnyValue)
      BY <1>7, <1>9, <3>2
    <3> HIDE DEF operands
    <3> QED
      BY <1>2, <1>3, <3>3, KnownIsFetched
  <2> QED
    BY <2>1, <2>2, <2>3
<1> QED
  BY <1>4, <1>6, <1>10 DEF frame, instruction

LEMMA SourcesAreWritten ==
  ASSUME BytecodeInv
  PROVE  WrittenBeforeRead
<1>1. PICK known, values : Machine(known, values)
  BY DEF BytecodeInv
<1>2. ASSUME Running, NEW i \in DOMAIN Sources
      PROVE  Sources[i] # Unwritten
  <2>1. Sources[i] \in values
    BY <1>1, <1>2, SourcesFit
  <2> QED
    BY <1>1, <2>1 DEF Machine, ValuesFit, WellMade
<1> QED
  BY <1>2 DEF WrittenBeforeRead

\* Whatever verified program runs, no activation record ever stands at an
\* instruction that is not there, or at one with an operand outside of the
\* vector it names: none of the checks of the interpreter's fetches fails
\* (bytecode.c:194-291), and the native code can do without them.
THEOREM VerifiedCodeFindsItsOperands == VerifiedSpec => []OperandsExist
<1>1. (\E known, values : Starts(known, values)) => BytecodeInv
  BY StartFits
<1>2. BytecodeInv /\ [Step]_interpreterVars => BytecodeInv'
  BY StepKeeps
<1>3. BytecodeInv => OperandsExist
  BY OperandsAreThere
<1> QED
  BY <1>1, <1>2, <1>3, PTL DEF VerifiedSpec

\* And it never reads a local that no instruction has written: the values that
\* it holds, stores and passes on are all values that something has made.
THEOREM VerifiedCodeWritesBeforeItReads == VerifiedSpec => []WrittenBeforeRead
<1>1. (\E known, values : Starts(known, values)) => BytecodeInv
  BY StartFits
<1>2. BytecodeInv /\ [Step]_interpreterVars => BytecodeInv'
  BY StepKeeps
<1>3. BytecodeInv => WrittenBeforeRead
  BY SourcesAreWritten
<1> QED
  BY <1>1, <1>2, <1>3, PTL DEF VerifiedSpec
=============================================================================
