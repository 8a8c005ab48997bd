------------------------------ MODULE Unwinding -----------------------------
(***************************************************************************)
(* Exceptions, clean-ups and loop exits in the virtual machine: the chain  *)
(* of stack records of lib/sysbvm/stackFrame.c as on:do:, ensure:, the     *)
(* loops of scripts, signal, break() and continue() build it and cut it.   *)
(*                                                                         *)
(* stack is the C stack, oldest frame first.  A frame is a stack record    *)
(* while the code below it runs, or one of the C frames that run code with *)
(* no record of their own: a script, a lexical block of a script, the      *)
(* clean-up of an ensure: whose body has ended (CLEANUP_ACTION), and       *)
(* raiseException while it applies the action of a handler (RAISE).  The   *)
(* address of a record is its depth in the stack, 0 is NULL.               *)
(*                                                                         *)
(* Abstracted: records that only hold GC roots or source positions, which  *)
(* unwinding skips, and functions: a function returns from its own         *)
(* activation, with no other record in between, and its environment has no *)
(* loop among its ancestors.  return: out of a script is an error, hence a *)
(* signal.                                                                 *)
(***************************************************************************)
EXTENDS Integers, Sequences, FiniteSetsExt

CONSTANTS
  ExceptionType,  \* what a program signals
  Filter,         \* exceptionFilter of a handler: a type, or NoFilter
  NoFilter,       \* the null filter, which handles everything
  Error,          \* what sysbvm_error signals
  isKindOf(_, _), \* sysbvm_tuple_isKindOf(exception, filter)
  MaxDepth        \* bound on the frames of the stack

ASSUME FilterAssumption ==
  /\ Error \in ExceptionType /\ NoFilter \in Filter
  /\ \A e \in ExceptionType, f \in Filter : isKindOf(e, f) \in BOOLEAN
ASSUME DepthAssumption == MaxDepth \in Nat \ {0}

VARIABLES
  stack,
  activeHandlerRecord,  \* sysbvm_stackFrame_activeHandlerRecord
  aborted               \* no handler was found: abort()

vars == <<stack, activeHandlerRecord, aborted>>

RecordType == {"LANDING_PAD", "CLEANUP", "BREAK_TARGET", "CONTINUE_TARGET"}
FrameType == RecordType \cup {"SCRIPT", "BLOCK", "CLEANUP_ACTION", "RAISE"}

\* breakTarget and continueTarget belong to the environment the frame creates,
\* pad is the handler whose action a RAISE frame runs.
Frame == [type : FrameType, exceptionFilter : Filter, action : BOOLEAN,
          breakTarget : Nat, continueTarget : Nat, pad : Nat]

NewFrame(type) == [type |-> type, exceptionFilter |-> NoFilter, action |-> FALSE,
                   breakTarget |-> 0, continueTarget |-> 0, pad |-> 0]

Top == Len(stack)
Running(types) == ~aborted /\ stack[Top].type \in types
Push(frame) == Top < MaxDepth /\ stack' = Append(stack, frame)
UnwindTo(n) == stack' = SubSeq(stack, 1, n)

\* Code of a script runs on top of these, and only there does a loop have records.
ScriptLevel == {"SCRIPT", "BLOCK", "BREAK_TARGET", "CONTINUE_TARGET"}

Init ==
  /\ stack = <<NewFrame("SCRIPT")>>
  /\ activeHandlerRecord = 0
  /\ aborted = FALSE

-----------------------------------------------------------------------------
(***************************************************************************)
(* Exceptions.                                                             *)
(***************************************************************************)
\* Mutant: the search starts at the top although a handler is running.
LandingPadsFor_fromTop(e) ==
  {p \in 1 .. Top :
     /\ stack[p].type = "LANDING_PAD"
     /\ stack[p].exceptionFilter = NoFilter \/ isKindOf(e, stack[p].exceptionFilter)}

\* While the action of a handler runs, only the handlers around that handler are
\* candidates: neither itself nor those its action has established.
LandingPadsFor(e) ==
  {p \in 1 .. (IF activeHandlerRecord # 0 THEN activeHandlerRecord - 1 ELSE Top) :
     /\ stack[p].type = "LANDING_PAD"
     /\ stack[p].exceptionFilter = NoFilter \/ isKindOf(e, stack[p].exceptionFilter)}

\* Mutant: the frame below the landing pad is popped with it.
UnwindIntoLandingPad_popsCaller(p) == activeHandlerRecord' = 0 /\ UnwindTo(p - 2)

\* prepareUnwindingUntil, longjmp and the popRecord that follows it, for a landing
\* pad: prepareUnwinding is given the target at every step of the walk over the
\* records in between, and does nothing for a record of that type.
UnwindIntoLandingPad(p) == activeHandlerRecord' = 0 /\ UnwindTo(p - 1)

raiseException(e) ==
  \/ /\ LandingPadsFor(e) = {}
     /\ aborted' = TRUE
     /\ UNCHANGED <<stack, activeHandlerRecord>>
  \/ /\ LandingPadsFor(e) # {}
     /\ LET p == Max(LandingPadsFor(e)) IN
          \/ /\ stack[p].action
             /\ activeHandlerRecord' = p
             /\ Push([NewFrame("RAISE") EXCEPT !.pad = p])
          \/ /\ ~stack[p].action
             /\ UnwindIntoLandingPad(p)
     /\ UNCHANGED aborted

signal(e) == Running(FrameType) /\ raiseException(e)

\* Mutant: the handler stays the active one after its action.
HandlerReturns_stillActive ==
  /\ Running({"RAISE"})
  /\ UnwindTo(stack[Top].pad - 1)
  /\ UNCHANGED <<activeHandlerRecord, aborted>>

HandlerReturns ==
  /\ Running({"RAISE"})
  /\ UnwindIntoLandingPad(stack[Top].pad)
  /\ UNCHANGED aborted

onDo(filter, action) ==
  /\ Running(FrameType)
  /\ Push([NewFrame("LANDING_PAD") EXCEPT !.exceptionFilter = filter, !.action = action])
  /\ UNCHANGED <<activeHandlerRecord, aborted>>

ensure ==
  /\ Running(FrameType)
  /\ Push(NewFrame("CLEANUP"))
  /\ UNCHANGED <<activeHandlerRecord, aborted>>

\* The record is popped first, then the clean-up is applied.
EnsureBodyEnds ==
  /\ Running({"CLEANUP"})
  /\ stack' = [stack EXCEPT ![Top] = NewFrame("CLEANUP_ACTION")]
  /\ UNCHANGED <<activeHandlerRecord, aborted>>

-----------------------------------------------------------------------------
(***************************************************************************)
(* Scripts, their blocks and their loops.                                  *)
(***************************************************************************)
evaluateScript ==
  /\ Running(FrameType)
  /\ Push(NewFrame("SCRIPT"))
  /\ UNCHANGED <<activeHandlerRecord, aborted>>

LexicalBlock ==
  /\ Running(ScriptLevel)
  /\ Push(NewFrame("BLOCK"))
  /\ UNCHANGED <<activeHandlerRecord, aborted>>

\* The condition and the continue expression run with the loop on top.
EnterWhile ==
  /\ Running(ScriptLevel)
  /\ Push([NewFrame("BREAK_TARGET") EXCEPT !.breakTarget = Top + 1])
  /\ UNCHANGED <<activeHandlerRecord, aborted>>

\* The address given as continue target is that of breakTargetRecord.
EnterBody ==
  /\ Running({"BREAK_TARGET"})
  /\ Top < MaxDepth
  /\ stack' = Append([stack EXCEPT ![Top].continueTarget = Top],
                     NewFrame("CONTINUE_TARGET"))
  /\ UNCHANGED <<activeHandlerRecord, aborted>>

BodyEnds ==
  /\ Running({"CONTINUE_TARGET"})
  /\ stack' = [SubSeq(stack, 1, Top - 1) EXCEPT ![Top - 1].continueTarget = 0]
  /\ UNCHANGED <<activeHandlerRecord, aborted>>

\* A body, block, loop, clean-up or script ends and its frame is popped.
Completes ==
  /\ Running({"LANDING_PAD", "CLEANUP_ACTION", "BLOCK", "BREAK_TARGET", "SCRIPT"})
  /\ Top > 1
  /\ UnwindTo(Top - 1)
  /\ UNCHANGED <<activeHandlerRecord, aborted>>

\* The environment script code on top of the stack runs in: that of the loop for
\* its body.
CurrentEnvironment ==
  stack[IF stack[Top].type = "CONTINUE_TARGET" THEN Top - 1 ELSE Top]

\* Past the first environment, both lookups go on with the return targets, and the
\* environments of scripts have none.
lookBreakTarget == CurrentEnvironment.breakTarget
lookContinueTarget == CurrentEnvironment.continueTarget

Unwind(target, type) ==
  IF target # 0 /\ stack[target].type = type
  THEN UnwindTo(target - 1) /\ UNCHANGED <<activeHandlerRecord, aborted>>
  ELSE raiseException(Error)

break == Running(ScriptLevel) /\ Unwind(lookBreakTarget, "BREAK_TARGET")

continue == Running(ScriptLevel) /\ Unwind(lookContinueTarget, "CONTINUE_TARGET")

-----------------------------------------------------------------------------
Next ==
  \/ \E e \in ExceptionType : signal(e)
  \/ HandlerReturns
  \/ \E f \in Filter, action \in BOOLEAN : onDo(f, action)
  \/ ensure \/ EnsureBodyEnds
  \/ evaluateScript \/ LexicalBlock
  \/ EnterWhile \/ EnterBody \/ BodyEnds
  \/ Completes
  \/ break \/ continue

Spec == Init /\ [][Next]_vars

-----------------------------------------------------------------------------
TypeOK ==
  /\ stack \in Seq(Frame) /\ Len(stack) \in 1 .. MaxDepth
  /\ activeHandlerRecord \in 0 .. MaxDepth
  /\ aborted \in BOOLEAN

Raises == {i \in DOMAIN stack : stack[i].type = "RAISE"}

\* An exception raised by the action of a handler goes to a handler around it,
\* however often that happens: the handlers whose actions are running form a chain
\* from the inside out, none of them runs twice, and the active handler record is
\* always the last of them, or null when no action runs.
HandlersNest ==
  /\ \A i \in Raises :
       /\ stack[i].pad \in 1 .. i - 1 /\ stack[stack[i].pad].type = "LANDING_PAD"
       /\ \A j \in Raises : i < j => stack[j].pad < stack[i].pad
  /\ activeHandlerRecord = IF Raises = {} THEN 0 ELSE stack[Max(Raises)].pad

\* prepareUnwinding has a case for clean-up records that applies their action: a
\* clean-up record leaves the chain only to have its clean-up run.
CleanUpsRun ==
  [][\A i \in DOMAIN stack : stack[i].type = "CLEANUP" =>
       i \in DOMAIN stack' /\ stack'[i].type \in {"CLEANUP", "CLEANUP_ACTION"}]_vars

\* Where a loop encloses script code, up to the script it belongs to.
InnermostLoop ==
  Max({0} \cup {i \in DOMAIN stack :
                  /\ stack[i].type = "BREAK_TARGET"
                  /\ \A j \in i .. Top : stack[j].type \in ScriptLevel \ {"SCRIPT"}})

\* break(), in the body of a loop and in the lexical blocks of that body alike,
\* leaves the innermost loop around it.
BreakFindsItsLoop ==
  [][break /\ InnermostLoop # 0 => Len(stack') = InnermostLoop - 1]_vars

\* continue() in the body of a loop ends the iteration and not the loop: the record
\* of the loop stays, the one of the iteration goes.
ContinueFindsItsLoop ==
  [][continue /\ stack[Top].type = "CONTINUE_TARGET" => Len(stack') = Top - 1]_vars
=============================================================================
