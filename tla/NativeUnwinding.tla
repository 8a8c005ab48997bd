--------------------------- MODULE NativeUnwinding --------------------------
(***************************************************************************)
(* Exceptions of natively compiled programs: on:do:, ensure: and signal as *)
(* Core.Runtime/BaseLibrary/Exception.sysmel defines them for the images   *)
(* that the compiler of the package sources produces.                      *)
(*                                                                         *)
(* stack is the C stack, oldest frame first; a stack record has its depth  *)
(* in it as its address, and 0 is nil.  The chain of records and the C     *)
(* stack part while unwindUntil: runs clean-ups: their records have left   *)
(* the chain, and the frames that made them are still on the stack.        *)
(***************************************************************************)
EXTENDS Integers, Sequences, FiniteSetsExt

CONSTANTS
  ExceptionType,           \* what a program signals
  Filter,                  \* exceptionFilter of a handler
  handlesException(_, _),  \* exceptionFilter handlesException: exception
  MaxDepth                 \* bound on the frames of the stack

ASSUME FilterAssumption ==
  \A f \in Filter, e \in ExceptionType : handlesException(f, e) \in BOOLEAN
ASSUME DepthAssumption == MaxDepth \in Nat

VARIABLES
  stack,
  LastActive,           \* ExceptionStackRecord::LastActive
  ActiveHandlerRecord,  \* ExceptionStackRecord::ActiveHandlerRecord
  aborted               \* sysmel_pal_abort()

vars == <<stack, LastActive, ActiveHandlerRecord, aborted>>

\* OnDo and CleanUp frames hold a stack record and run a body.  An Ensured frame
\* runs the clean-up of a body that has ended.  A frame of signal is a Block while
\* it runs the exception block of its handler, Walking inside unwindUntil:, and
\* CleaningUp while unwindUntil: runs the clean-up of the record it is at.
SignalFrames == {"Block", "Walking", "CleaningUp"}
FrameType == {"OnDo", "CleanUp", "Ensured"} \cup SignalFrames

\* started counts how often the clean-up of a record was started; handler and
\* position are locals of signal and unwindUntil:.
Frame == [type : FrameType, previous : 0 .. MaxDepth, exceptionFilter : SUBSET Filter,
          started : 0 .. 2, handler : 0 .. MaxDepth, position : 0 .. MaxDepth]

NewFrame(type) == [type |-> type, previous |-> 0, exceptionFilter |-> {},
                   started |-> 0, handler |-> 0, position |-> 0]

Top == Len(stack)
Running(types) == ~aborted /\ Top > 0 /\ stack[Top].type \in types
ProgramRuns == ~aborted /\ (Top > 0 => stack[Top].type # "Walking")

Init ==
  /\ stack = <<>>
  /\ LastActive = 0
  /\ ActiveHandlerRecord = 0
  /\ aborted = FALSE

\* The records of the chain that starts at address a.
Chain(a) ==
  LET From[r \in 0 .. Top] ==
        IF r = 0 THEN {}
        ELSE {r} \cup IF stack[r].previous < r THEN From[stack[r].previous] ELSE {}
  IN From[a]

-----------------------------------------------------------------------------
PushRecord(frame) ==
  /\ ProgramRuns
  /\ Top < MaxDepth
  /\ stack' = Append(stack, [frame EXCEPT !.previous = LastActive])
  /\ LastActive' = Top + 1
  /\ UNCHANGED <<ActiveHandlerRecord, aborted>>

onDo(filter) == PushRecord([NewFrame("OnDo") EXCEPT !.exceptionFilter = {filter}])
ensure == PushRecord(NewFrame("CleanUp"))

OnDoBodyEnds ==
  /\ Running({"OnDo"})
  /\ LastActive' = stack[Top].previous
  /\ stack' = SubSeq(stack, 1, Top - 1)
  /\ UNCHANGED <<ActiveHandlerRecord, aborted>>

\* Mutant: the record stays on the chain while its clean-up runs.
EnsureBodyEnds_stillActive ==
  /\ Running({"CleanUp"})
  /\ stack' = [stack EXCEPT ![Top].type = "Ensured", ![Top].started = @ + 1]
  /\ UNCHANGED <<LastActive, ActiveHandlerRecord, aborted>>

EnsureBodyEnds ==
  /\ Running({"CleanUp"})
  /\ LastActive' = stack[Top].previous
  /\ stack' = [stack EXCEPT ![Top].type = "Ensured", ![Top].started = @ + 1]
  /\ UNCHANGED <<ActiveHandlerRecord, aborted>>

EnsureEnds ==
  /\ Running({"Ensured"})
  /\ stack' = SubSeq(stack, 1, Top - 1)
  /\ UNCHANGED <<LastActive, ActiveHandlerRecord, aborted>>

-----------------------------------------------------------------------------
\* The handlers signal looks among: those around the active handler record when
\* there is one, those of the whole chain otherwise.
HandlersFor(e) ==
  {r \in Chain(IF ActiveHandlerRecord = 0 THEN LastActive
               ELSE stack[ActiveHandlerRecord].previous) :
     stack[r].type = "OnDo" /\ \E f \in stack[r].exceptionFilter : handlesException(f, e)}

findHandlerRecordFor(e) == Max({0} \cup HandlersFor(e))

signal(e) ==
  /\ ProgramRuns
  /\ LET handler == findHandlerRecordFor(e) IN
       \/ /\ handler = 0
          /\ aborted' = TRUE
          /\ UNCHANGED <<stack, LastActive, ActiveHandlerRecord>>
       \/ /\ handler # 0
          /\ Top < MaxDepth
          /\ ActiveHandlerRecord' = handler
          /\ stack' = Append(stack, [NewFrame("Block") EXCEPT !.handler = handler])
          /\ UNCHANGED <<LastActive, aborted>>

\* Mutant: the chain is cut down to the handler before the walk.
BlockEnds_cutFirst ==
  /\ Running({"Block"})
  /\ ActiveHandlerRecord' = 0
  /\ LastActive' = stack[stack[Top].handler].previous
  /\ stack' = [stack EXCEPT ![Top].type = "Walking", ![Top].position = LastActive']
  /\ UNCHANGED aborted

BlockEnds ==
  /\ Running({"Block"})
  /\ ActiveHandlerRecord' = 0
  /\ stack' = [stack EXCEPT ![Top].type = "Walking", ![Top].position = LastActive]
  /\ UNCHANGED <<LastActive, aborted>>

\* Mutant: the walk skips the record it starts from.
UnwindStep_skipFirst ==
  LET record == stack[Top].position IN
    /\ Running({"Walking"})
    /\ record \notin {0, stack[Top].handler}
    /\ LastActive' = stack[record].previous
    /\ stack' = [stack EXCEPT
         ![Top].position = LastActive',
         ![Top].type = IF stack[record].type = "CleanUp" /\ record # LastActive
                       THEN "CleaningUp" ELSE "Walking",
         ![record].started = IF stack[record].type = "CleanUp" /\ record # LastActive
                             THEN @ + 1 ELSE @]
    /\ UNCHANGED <<ActiveHandlerRecord, aborted>>

\* Mutant: the walk never leaves the record it starts from.
UnwindStep_stuck ==
  LET record == stack[Top].position IN
    /\ Running({"Walking"})
    /\ record \notin {0, stack[Top].handler}
    /\ stack' = [stack EXCEPT
         ![Top].type = IF stack[record].type = "CleanUp" THEN "CleaningUp" ELSE "Walking",
         ![record].started = IF stack[record].type = "CleanUp" THEN @ + 1 ELSE @]
    /\ UNCHANGED <<LastActive, ActiveHandlerRecord, aborted>>

\* The record leaves the chain before its clean-up runs.
UnwindStep ==
  LET record == stack[Top].position IN
    /\ Running({"Walking"})
    /\ record \notin {0, stack[Top].handler}
    /\ LastActive' = stack[record].previous
    /\ stack' = [stack EXCEPT
         ![Top].position = LastActive',
         ![Top].type = IF stack[record].type = "CleanUp" THEN "CleaningUp" ELSE "Walking",
         ![record].started = IF stack[record].type = "CleanUp" THEN @ + 1 ELSE @]
    /\ UNCHANGED <<ActiveHandlerRecord, aborted>>

CleanUpEnds ==
  /\ Running({"CleaningUp"})
  /\ stack' = [stack EXCEPT ![Top].type = "Walking"]
  /\ UNCHANGED <<LastActive, ActiveHandlerRecord, aborted>>

\* longjmp into on:do:, which returns.
UnwindEnds ==
  LET handler == stack[Top].handler IN
    /\ Running({"Walking"})
    /\ stack[Top].position \in {0, handler}
    /\ LastActive' = stack[handler].previous
    /\ stack' = SubSeq(stack, 1, handler - 1)
    /\ UNCHANGED <<ActiveHandlerRecord, aborted>>

-----------------------------------------------------------------------------
unwindUntil == UnwindStep \/ CleanUpEnds \/ UnwindEnds

Next ==
  \/ \E f \in Filter : onDo(f)
  \/ ensure \/ OnDoBodyEnds \/ EnsureBodyEnds \/ EnsureEnds
  \/ \E e \in ExceptionType : signal(e)
  \/ BlockEnds
  \/ unwindUntil

Spec == Init /\ [][Next]_vars

-----------------------------------------------------------------------------
TypeOK ==
  /\ stack \in Seq(Frame) /\ Len(stack) \in 0 .. MaxDepth
  /\ LastActive \in 0 .. MaxDepth /\ ActiveHandlerRecord \in 0 .. MaxDepth
  /\ aborted \in BOOLEAN

\* The chain of records runs down the stack, through records whose frames are still
\* there and whose clean-ups have not been started, whatever the clean-ups that an
\* unwinding runs protect, signal or unwind themselves.
ChainIsLive ==
  /\ LastActive <= Top
  /\ \A r \in Chain(LastActive) :
       /\ stack[r].type \in {"OnDo", "CleanUp"}
       /\ stack[r].started = 0
       /\ stack[r].previous < r

\* unwindUntil: finds the record it is to stop at, and never runs off the chain: the
\* handler of the innermost signal is on it, or just below where the walk stands.
TargetStaysOnChain ==
  \A i \in DOMAIN stack :
    /\ stack[i].type \in SignalFrames
    /\ \A j \in i + 1 .. Top : stack[j].type \notin SignalFrames
    => stack[i].handler \in Chain(LastActive)

\* However an ensure: is left, by its body's end, by an exception, or by an
\* exception that a clean-up signals during the unwinding for another, its clean-up
\* has been started, once.
CleanUpsRun ==
  [][\A i \in DOMAIN stack :
       /\ stack[i].type = "CleanUp" /\ i \notin DOMAIN stack' => stack[i].started = 1
       /\ stack[i].started < 2]_vars
=============================================================================
