---------------------------- MODULE LazyAnalysis ----------------------------
(***************************************************************************)
(* Lambdas are analysed late.  A closure over a lambda keeps the           *)
(* environment it was created in and goes to the end of the analysis       *)
(* queue; it is analysed when the queue is drained (environment.c), or     *)
(* before that when it is called (function.c, interpreter.c).  An analysis *)
(* runs macros: program code that creates lambdas, calls functions, drains *)
(* the queue, and may raise an exception that leaves analyses unfinished.  *)
(*                                                                         *)
(* A definition is named after the function it was created with.  The body *)
(* of a function that is called does what the code that calls it may do,   *)
(* and so has no frame of its own.  A function that the program has let go *)
(* is the one created next, so that there may be ever more of them.        *)
(***************************************************************************)
EXTENDS Integers, Sequences, SequencesExt

CONSTANTS
  Lambda,       \* the functions created by the evaluation of a lambda
  Primitive,    \* functions of the virtual machine, which adopt definitions
  NoFunction,
  MaxAnalyses,  \* bound on the nesting of analyses and drains
  MaxActions    \* bound on what the text of one analysis does

ASSUME FunctionAssumption == Lambda \cap Primitive = {} /\ NoFunction \notin Lambda \cup Primitive
ASSUME BoundAssumption == MaxAnalyses \in Nat /\ MaxActions \in Nat

VARIABLES
  captureEnvironment,  \* of each function: NULL, ENVIRONMENT or PENDING
  definition,          \* of each function
  analyzed,            \* the definitions that have captures
  firstEntry,          \* of the queue, an entry for each function
  lastEntry,
  nextEntry,
  analyses,            \* what runs: analyses of functions and drains of the queue
  abandoned            \* functions whose analysis an exception has left

lvars == <<captureEnvironment, definition, analyzed, firstEntry, lastEntry, nextEntry,
           analyses, abandoned>>

Function == Lambda \cup Primitive

qvars == <<firstEntry, lastEntry, nextEntry>>

\* A frame of an eager analysis has no function: the closure is created after it.
Analysis(f) == [kind |-> "analysis", function |-> f, actions |-> 0]
DrainFrame == [kind |-> "drain", function |-> NoFunction, actions |-> 0]

LInit ==
  /\ captureEnvironment = [f \in Function |-> "NULL"]
  /\ definition = [f \in Function |-> NoFunction]
  /\ analyzed = {}
  /\ firstEntry = NoFunction /\ lastEntry = NoFunction
  /\ nextEntry = [f \in Function |-> NoFunction]
  /\ analyses = <<>>
  /\ abandoned = {}

-----------------------------------------------------------------------------
\* A walk of the queue does not leave S.
Closed(S) ==
  /\ firstEntry # NoFunction => firstEntry \in S
  /\ \A f \in S : nextEntry[f] # NoFunction => nextEntry[f] \in S

\* The functions on the queue, which no walk from its first entry passes by.
Queued == {f \in Function : \A S \in SUBSET (Function \ {f}) : ~ Closed(S)}

\* Mutant: the newest entry goes to the front.
enqueueProgramEntity_atTheFront(f) ==
  /\ nextEntry' = [nextEntry EXCEPT ![f] = firstEntry]
  /\ firstEntry' = f
  /\ lastEntry' = IF lastEntry = NoFunction THEN f ELSE lastEntry

enqueueProgramEntity(f) ==
  /\ nextEntry' = [g \in Function |-> IF g = f THEN NoFunction
                                      ELSE IF g = lastEntry THEN f ELSE nextEntry[g]]
  /\ firstEntry' = IF lastEntry = NoFunction THEN f ELSE firstEntry
  /\ lastEntry' = f

\* Mutant: the queue keeps its last entry when that leaves.
dequeue_keepsLast ==
  /\ firstEntry' = nextEntry[firstEntry]
  /\ nextEntry' = [nextEntry EXCEPT ![firstEntry] = NoFunction]
  /\ UNCHANGED lastEntry

\* Nothing looks at the entry again: its link is dropped.
dequeue ==
  /\ firstEntry' = nextEntry[firstEntry]
  /\ lastEntry' = IF firstEntry' = NoFunction THEN NoFunction ELSE lastEntry
  /\ nextEntry' = [nextEntry EXCEPT ![firstEntry] = NoFunction]

-----------------------------------------------------------------------------
\* The code that runs: a script when nothing is analysed, the macros of an analysis,
\* but not the loop that drains the queue.
CodeRuns ==
  IF analyses = <<>> THEN TRUE
  ELSE Last(analyses).kind = "analysis" /\ Last(analyses).actions < MaxActions

\* The frames after the code that runs has done something.
Counted ==
  IF analyses = <<>> THEN <<>> ELSE [analyses EXCEPT ![Len(analyses)].actions = @ + 1]

Room(n) == Len(analyses) + n <= MaxAnalyses

\* An exception is handled by a script, or by the code of an analysis further out.
\* What it leaves stays as it is, a pending capture environment among it.
RaiseFrom(frames) ==
  \E depth \in {0} \cup {i \in 1..Len(frames) - 1 : frames[i].kind = "analysis"} :
    /\ analyses' = SubSeq(frames, 1, depth)
    /\ abandoned' = abandoned \cup
         {frames[i].function : i \in {j \in depth + 1..Len(frames) :
                                        frames[j].function # NoFunction}}

AnalysisSignals ==
  /\ CodeRuns /\ analyses # <<>>
  /\ RaiseFrom(analyses)
  /\ UNCHANGED <<captureEnvironment, definition, analyzed, qvars>>

\* The definition, maybe shared with another function, has its captures already.
Analyzed(f) == definition[f] \in analyzed

\* sysbvm_function_ensureAnalysis up to the analysis of the definition, or to its end
\* when the definition has been analysed.
ensureAnalysis(f, frames) ==
  \/ /\ captureEnvironment[f] = "NULL"
     /\ analyses' = frames
     /\ UNCHANGED <<captureEnvironment, abandoned>>
  \/ /\ captureEnvironment[f] = "PENDING"
     /\ RaiseFrom(frames)
     /\ UNCHANGED captureEnvironment
  \/ /\ captureEnvironment[f] = "ENVIRONMENT"
     /\ captureEnvironment' =
          [captureEnvironment EXCEPT ![f] = IF Analyzed(f) THEN "NULL" ELSE "PENDING"]
     /\ analyses' = IF Analyzed(f) THEN frames ELSE Append(frames, Analysis(f))
     /\ UNCHANGED abandoned

\* The rest of it, and of sysbvm_functionDefinition_analyze.
AnalysisEnds ==
  /\ analyses # <<>>
  /\ LET f == Last(analyses).function IN
     /\ Last(analyses).kind = "analysis"
     /\ IF f = NoFunction THEN UNCHANGED <<captureEnvironment, analyzed>>
        ELSE /\ analyzed' = analyzed \cup {definition[f]}
             /\ captureEnvironment' = [captureEnvironment EXCEPT ![f] = "NULL"]
  /\ analyses' = Front(analyses)
  /\ UNCHANGED <<definition, qvars, abandoned>>

-----------------------------------------------------------------------------
\* A function that nothing refers to but a variable of the program.
Free(f) ==
  /\ captureEnvironment[f] = "NULL" \/ f \in abandoned
  /\ \A g \in Function \ {f} : definition[g] # f
  /\ f \notin Queued

\* A closure with its environment, and its entry.
LazyLambda(f) ==
  /\ CodeRuns /\ Free(f)
  /\ captureEnvironment' = [captureEnvironment EXCEPT ![f] = "ENVIRONMENT"]
  /\ definition' = [definition EXCEPT ![f] = f]
  /\ analyzed' = analyzed \ {f}
  /\ abandoned' = abandoned \ {f}
  /\ enqueueProgramEntity(f)
  /\ analyses' = Counted

\* The definition is analysed at once; the closure has its captures when it is made.
EagerLambda ==
  /\ CodeRuns /\ Room(1)
  /\ analyses' = Append(Counted, Analysis(NoFunction))
  /\ UNCHANGED <<captureEnvironment, definition, analyzed, qvars, abandoned>>

apply(f) ==
  /\ CodeRuns /\ Room(1)
  /\ definition[f] # NoFunction
  /\ ensureAnalysis(f, Counted)
  /\ UNCHANGED <<definition, analyzed, qvars>>

\* Programs give a primitive the definition of a lambda in a script, when neither is
\* being analysed.
adoptDefinitionOf(p, f) ==
  /\ CodeRuns
  /\ definition[f] # NoFunction
  /\ captureEnvironment[f] # "PENDING" /\ captureEnvironment[p] # "PENDING"
  /\ definition' = [definition EXCEPT ![p] = definition[f]]
  /\ captureEnvironment' = [captureEnvironment EXCEPT ![p] = captureEnvironment[f]]
  /\ analyses' = Counted
  /\ UNCHANGED <<analyzed, qvars, abandoned>>

waitPendingAnalysis ==
  /\ CodeRuns /\ Room(2)
  /\ analyses' = Append(Counted, DrainFrame)
  /\ UNCHANGED <<captureEnvironment, definition, analyzed, qvars, abandoned>>

Draining == \E i \in DOMAIN analyses : analyses[i].kind = "drain"

DrainStep ==
  /\ analyses # <<>> /\ Last(analyses).kind = "drain"
  /\ \/ /\ firstEntry # NoFunction
        /\ dequeue
        /\ ensureAnalysis(firstEntry, analyses)
     \/ /\ firstEntry = NoFunction
        /\ analyses' = Front(analyses)
        /\ UNCHANGED <<captureEnvironment, qvars, abandoned>>
  /\ UNCHANGED <<definition, analyzed>>

LNext ==
  \/ EagerLambda \/ waitPendingAnalysis \/ AnalysisSignals \/ AnalysisEnds \/ DrainStep
  \/ \E f \in Lambda : LazyLambda(f)
  \/ \E f \in Function : apply(f)
  \/ \E p \in Primitive, f \in Lambda : adoptDefinitionOf(p, f)

\* The only thread goes on: a drain takes its next step, and an analysis, whose text
\* is finite, ends.
LFairness == WF_lvars(AnalysisEnds \/ DrainStep)

LSpec == LInit /\ [][LNext]_lvars /\ LFairness

-----------------------------------------------------------------------------
BeingAnalyzed == {analyses[i].function : i \in DOMAIN analyses}

(* No analysis is forgotten: a lambda that still has its environment is on the queue,
   and one that is pending is being analysed or was left by an exception.  The entries
   are linked by hand, drains nest, and calls analyse functions before their turn
   (environment.c:34-44 and 68-74, interpreter.c:1229). *)
NothingForgotten ==
  /\ \A f \in Lambda : captureEnvironment[f] = "ENVIRONMENT" => f \in Queued
  /\ \A f \in Function : captureEnvironment[f] = "PENDING" => f \in BeingAnalyzed \cup abandoned

(* A drain that is running takes every function that is on the queue, although the
   analyses it runs may enqueue more without end, and drain the queue themselves; only
   an exception, which leaves the drain, can keep it from that (environment.c:68). *)
QueuedIsTaken ==
  \A f \in Lambda : (Draining /\ f \in Queued) ~> (~Draining \/ f \notin Queued)
=============================================================================
