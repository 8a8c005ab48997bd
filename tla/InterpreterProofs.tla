--------------------------- MODULE InterpreterProofs ---------------------------
(***************************************************************************)
(* Proofs about the two machines beside the interpreter of the syntax      *)
(* tree.                                                                   *)
(*                                                                         *)
(* The stack of records: handlers and their actions nest, for any types of *)
(* exceptions, filters and depth.  HandlersNest lasts because whatever     *)
(* cuts the stack cuts it below all the actions that run, or above: an     *)
(* exception goes to a handler below the last of the chain, hence below    *)
(* all of the actions, and a loop that is left has no action above its     *)
(* record.                                                                 *)
(*                                                                         *)
(* The queue of pending analyses: the list linked by hand is always one    *)
(* chain from its first to its last entry, and no lambda is forgotten.     *)
(***************************************************************************)
EXTENDS Unwinding, LazyAnalysis, BoundedNumbers


\* The first frame is a script, which stays.
BottomInv == Len(stack) >= 1 /\ stack[1].type = "SCRIPT"

\* An environment is the target of its own frame, and the body of a loop is above it.
TargetsInv ==
  \A i \in DOMAIN stack :
    /\ stack[i].breakTarget \in {0, i}
    /\ stack[i].continueTarget \in {0, i}
    /\ stack[i].continueTarget = i => stack[i].type = "BREAK_TARGET"
    /\ stack[i].type = "CONTINUE_TARGET" => i > 1 /\ stack[i - 1].type = "BREAK_TARGET"

UnwindingInv == TypeOK /\ BottomInv /\ TargetsInv /\ HandlersNest

-----------------------------------------------------------------------------
LEMMA FrameIsTyped ==
  ASSUME NEW type \in FrameType, NEW f \in Filter, NEW action \in BOOLEAN, NEW n \in Nat
  PROVE  /\ NewFrame(type) \in Frame
         /\ [NewFrame(type) EXCEPT !.exceptionFilter = f, !.action = action] \in Frame
         /\ [NewFrame(type) EXCEPT !.breakTarget = n] \in Frame
         /\ [NewFrame(type) EXCEPT !.pad = n] \in Frame
BY FilterAssumption DEF NewFrame, Frame

\* A step that leaves the actions and their handlers where they are.
LEMMA HandlersKept ==
  ASSUME HandlersNest,
         Raises' = Raises, activeHandlerRecord' = activeHandlerRecord,
         \A i \in Raises : /\ stack'[i].pad = stack[i].pad
                           /\ stack'[stack[i].pad].type = stack[stack[i].pad].type,
         TypeOK
  PROVE  HandlersNest'
<1>1. \A i \in Raises' : stack'[i].pad = stack[i].pad
  OBVIOUS
<1>2. Raises # {} => Max(Raises) \in Raises
  <2>1. Raises \subseteq 0 .. Len(stack) /\ Len(stack) \in Nat
    BY DEF Raises, TypeOK
  <2> QED
    BY <2>1, MaxIsMember
<1> QED
  BY <1>1, <1>2 DEF HandlersNest

\* All the actions that run are above the handler of the last one.
LEMMA ActionsAreAbove ==
  ASSUME TypeOK, HandlersNest, Raises # {}
  PROVE  /\ activeHandlerRecord = stack[Max(Raises)].pad
         /\ activeHandlerRecord \in 1 .. Len(stack)
         /\ stack[activeHandlerRecord].type = "LANDING_PAD"
         /\ \A i \in Raises : i > activeHandlerRecord
<1>1. Raises \subseteq 0 .. Len(stack) /\ Len(stack) \in Nat
  BY DEF Raises, TypeOK
<1>2. PICK last \in Raises : last = Max(Raises) /\ \A i \in Raises : i <= last
  BY <1>1, MaxIsMember
<1>3. activeHandlerRecord = stack[last].pad
  BY <1>2 DEF HandlersNest
<1>4. stack[last].pad \in 1 .. last - 1 /\ stack[stack[last].pad].type = "LANDING_PAD"
  BY <1>2 DEF HandlersNest
<1>5. ASSUME NEW i \in Raises PROVE i > stack[last].pad
  <2>1. CASE i = last
    BY <2>1, <1>4, <1>1, <1>2
  <2>2. CASE i # last
    <3>1. i < last
      BY <2>2, <1>2, <1>1
    <3>2. stack[last].pad < stack[i].pad /\ stack[i].pad \in 1 .. i - 1
      BY <3>1, <1>2 DEF HandlersNest
    <3> QED
      BY <3>2, <1>1, <1>4, <1>2
  <2> QED
    BY <2>1, <2>2
<1> QED
  BY <1>1, <1>2, <1>3, <1>4, <1>5

-----------------------------------------------------------------------------
(* The three ways in which the stack changes. *)

LEMMA PushKeeps ==
  ASSUME UnwindingInv, NEW frame \in Frame, Push(frame),
         frame.type \notin {"CONTINUE_TARGET", "RAISE"},
         frame.breakTarget \in {0, Top + 1}, frame.continueTarget = 0,
         UNCHANGED <<activeHandlerRecord, aborted>>
  PROVE  UnwindingInv'
<1>1. /\ stack \in Seq(Frame) /\ Len(stack) \in Nat /\ Len(stack) + 1 <= MaxDepth
      /\ stack' = Append(stack, frame)
  BY DepthAssumption DEF UnwindingInv, TypeOK, Push, Top
<1>2. /\ stack' \in Seq(Frame) /\ Len(stack') = Len(stack) + 1
      /\ \A i \in 1 .. Len(stack) : stack'[i] = stack[i]
      /\ stack'[Len(stack) + 1] = frame
  BY <1>1
<1>3. TypeOK'
  BY <1>1, <1>2, DepthAssumption DEF UnwindingInv, TypeOK
<1>4. BottomInv'
  BY <1>1, <1>2 DEF UnwindingInv, BottomInv
<1>5. TargetsInv'
  BY <1>1, <1>2 DEF UnwindingInv, TargetsInv, Top
<1>6. Raises' = Raises
  BY <1>1, <1>2 DEF Raises
<1>7. \A i \in Raises : stack[i].pad \in 1 .. Len(stack) /\ i \in 1 .. Len(stack)
  BY <1>1 DEF UnwindingInv, HandlersNest, Raises
<1>8. HandlersNest'
  BY <1>2, <1>6, <1>7, HandlersKept DEF UnwindingInv
<1> QED
  BY <1>3, <1>4, <1>5, <1>8 DEF UnwindingInv

\* The frames that are cut hold no action: the rest is as before.
LEMMA CutAboveKeeps ==
  ASSUME UnwindingInv, NEW n \in 1 .. Len(stack), UnwindTo(n),
         \A i \in Raises : i <= n,
         UNCHANGED <<activeHandlerRecord, aborted>>
  PROVE  UnwindingInv'
<1>1. stack \in Seq(Frame) /\ Len(stack) \in Nat /\ stack' = SubSeq(stack, 1, n)
  BY DEF UnwindingInv, TypeOK, UnwindTo
<1>2. /\ stack' \in Seq(Frame) /\ Len(stack') = n
      /\ \A i \in 1 .. n : stack'[i] = stack[i]
  BY <1>1
<1>3. TypeOK'
  BY <1>1, <1>2, DepthAssumption DEF UnwindingInv, TypeOK
<1>4. BottomInv'
  BY <1>1, <1>2 DEF UnwindingInv, BottomInv
<1>5. TargetsInv'
  BY <1>1, <1>2 DEF UnwindingInv, TargetsInv
<1>6. Raises' = Raises
  BY <1>1, <1>2 DEF Raises
<1>7. \A i \in Raises : stack[i].pad \in 1 .. n /\ i \in 1 .. n
  BY <1>1 DEF UnwindingInv, HandlersNest, Raises
<1>8. HandlersNest'
  BY <1>2, <1>6, <1>7, HandlersKept DEF UnwindingInv
<1> QED
  BY <1>3, <1>4, <1>5, <1>8 DEF UnwindingInv

\* The stack is cut below all of the actions that run, and none is active any more.
LEMMA CutBelowKeeps ==
  ASSUME UnwindingInv, NEW p \in 1 .. Len(stack), stack[p].type = "LANDING_PAD",
         \A i \in Raises : i > p,
         UnwindIntoLandingPad(p), UNCHANGED aborted
  PROVE  UnwindingInv'
<1>1. /\ stack \in Seq(Frame) /\ Len(stack) \in Nat
      /\ stack' = SubSeq(stack, 1, p - 1) /\ activeHandlerRecord' = 0
  BY DEF UnwindingInv, TypeOK, UnwindTo, UnwindIntoLandingPad
<1>2. p > 1
  BY DEF UnwindingInv, BottomInv
<1>3. /\ stack' \in Seq(Frame) /\ Len(stack') = p - 1
      /\ \A i \in 1 .. p - 1 : stack'[i] = stack[i]
  BY <1>1, <1>2
<1>4. TypeOK'
  BY <1>1, <1>2, <1>3, DepthAssumption DEF UnwindingInv, TypeOK
<1>5. BottomInv'
  BY <1>1, <1>2, <1>3 DEF UnwindingInv, BottomInv
<1>6. TargetsInv'
  BY <1>1, <1>2, <1>3 DEF UnwindingInv, TargetsInv
<1>7. Raises' = {}
  BY <1>1, <1>2, <1>3 DEF Raises
<1>8. HandlersNest'
  BY <1>1, <1>7 DEF HandlersNest
<1> QED
  BY <1>4, <1>5, <1>6, <1>8 DEF UnwindingInv

-----------------------------------------------------------------------------
(* Exceptions. *)

\* The handler an exception is given to is below all of the actions that run.
LEMMA HandlerIsBelow ==
  ASSUME UnwindingInv, NEW e \in ExceptionType, LandingPadsFor(e) # {}
  PROVE  /\ Max(LandingPadsFor(e)) \in 1 .. Len(stack)
         /\ stack[Max(LandingPadsFor(e))].type = "LANDING_PAD"
         /\ \A i \in Raises : i > Max(LandingPadsFor(e))
         /\ activeHandlerRecord # 0 => Max(LandingPadsFor(e)) < activeHandlerRecord
<1>1. Len(stack) \in Nat /\ activeHandlerRecord \in Nat /\ Raises \subseteq 1 .. Len(stack)
  BY DepthAssumption DEF UnwindingInv, TypeOK, Raises
<1>0. activeHandlerRecord # 0 => activeHandlerRecord \in 1 .. Len(stack)
  BY ActionsAreAbove DEF UnwindingInv, HandlersNest
<1>2. LandingPadsFor(e) \subseteq 0 .. Len(stack)
      /\ \A p \in LandingPadsFor(e) : stack[p].type = "LANDING_PAD" /\ p \in 1 .. Len(stack)
  BY <1>1, <1>0 DEF LandingPadsFor, Top
<1>3. PICK p \in LandingPadsFor(e) : p = Max(LandingPadsFor(e))
  BY <1>1, <1>2, MaxIsMember
<1>4. activeHandlerRecord # 0 => p < activeHandlerRecord
  BY <1>1, <1>3 DEF LandingPadsFor
<1>5. ASSUME NEW i \in Raises PROVE i > p
  <2>1. /\ activeHandlerRecord \in 1 .. Len(stack)
        /\ i > activeHandlerRecord
    BY ActionsAreAbove DEF UnwindingInv
  <2> QED
    BY <2>1, <1>4, <1>1, <1>2
<1> QED
  BY <1>2, <1>3, <1>4, <1>5

\* The action of a handler starts on top of the stack.
LEMMA ActionStartsKeeps ==
  ASSUME UnwindingInv, NEW p \in 1 .. Len(stack), stack[p].type = "LANDING_PAD",
         \A i \in Raises : i > p,
         activeHandlerRecord # 0 => p < activeHandlerRecord,
         activeHandlerRecord' = p, Push([NewFrame("RAISE") EXCEPT !.pad = p]),
         UNCHANGED aborted
  PROVE  UnwindingInv'
<1> DEFINE n == Len(stack)
<1> DEFINE frame == [NewFrame("RAISE") EXCEPT !.pad = p]
<1>1. frame \in Frame
  <2>1. "RAISE" \in FrameType /\ NoFilter \in Filter /\ TRUE \in BOOLEAN
    BY FilterAssumption DEF FrameType
  <2>2. p \in Nat
    BY DEF UnwindingInv, TypeOK
  <2> QED
    BY <2>1, <2>2, FrameIsTyped, Zenon
<1>2. /\ frame.type = "RAISE" /\ frame.pad = p
      /\ frame.breakTarget = 0 /\ frame.continueTarget = 0
  BY DEF NewFrame
<1> HIDE DEF frame
<1>3. /\ stack \in Seq(Frame) /\ n \in Nat /\ n + 1 <= MaxDepth
      /\ stack' = Append(stack, frame)
  BY DepthAssumption DEF UnwindingInv, TypeOK, Push, Top, frame
<1>4. /\ stack' \in Seq(Frame) /\ Len(stack') = n + 1
      /\ \A i \in 1 .. n : stack'[i] = stack[i]
      /\ stack'[n + 1] = frame
  BY <1>1, <1>3
<1>5. TypeOK'
  BY <1>3, <1>4, DepthAssumption DEF UnwindingInv, TypeOK
<1>6. BottomInv'
  BY <1>3, <1>4 DEF UnwindingInv, BottomInv
<1>7. TargetsInv'
  BY <1>2, <1>3, <1>4 DEF UnwindingInv, TargetsInv
<1>8. Raises' = Raises \cup {n + 1} /\ Raises \subseteq 1 .. n
  BY <1>2, <1>3, <1>4 DEF Raises
<1>9. \A i \in Raises : stack[i].pad \in 1 .. i - 1 /\ stack[i].pad > p
  <2>1. SUFFICES ASSUME NEW i \in Raises PROVE stack[i].pad \in 1 .. i - 1 /\ stack[i].pad > p
    OBVIOUS
  <2>2. stack[i].pad \in 1 .. i - 1
    BY DEF UnwindingInv, HandlersNest
  <2>3. PICK last \in Raises : /\ last = Max(Raises) /\ i <= last
                               /\ activeHandlerRecord = stack[last].pad
    <3>1. Raises \subseteq 0 .. n /\ Raises # {}
      BY <1>3, <1>8
    <3>2. Max(Raises) \in Raises /\ i <= Max(Raises)
      BY <3>1, <1>3, MaxIsMember
    <3>3. activeHandlerRecord = stack[Max(Raises)].pad
      BY <3>1 DEF UnwindingInv, HandlersNest
    <3> QED
      BY <3>2, <3>3
  <2>4. stack[last].pad \in 1 .. last - 1 /\ (i < last => stack[last].pad < stack[i].pad)
    BY DEF UnwindingInv, HandlersNest
  <2>5. p < stack[last].pad
    BY <2>3, <2>4
  <2> QED
    BY <2>2, <2>3, <2>4, <2>5, <1>8, <1>3
<1>10. Max(Raises') = n + 1
  <2>1. Raises' \subseteq 0 .. n + 1 /\ Raises' # {} /\ n + 1 \in Nat /\ n + 1 \in Raises'
    BY <1>3, <1>8
  <2>2. Max(Raises') \in Raises' /\ \A i \in Raises' : i <= Max(Raises')
    BY <2>1, MaxIsMember
  <2> QED
    BY <2>1, <2>2
<1>11. stack'[n + 1].pad = p /\ \A i \in Raises : stack'[i].pad = stack[i].pad
  BY <1>2, <1>4, <1>8
<1>12. ASSUME NEW i \in Raises'
       PROVE  /\ stack'[i].pad \in 1 .. i - 1 /\ stack'[stack'[i].pad].type = "LANDING_PAD"
              /\ \A j \in Raises' : i < j => stack'[j].pad < stack'[i].pad
  <2>1. CASE i = n + 1
    BY <2>1, <1>3, <1>4, <1>8, <1>11
  <2>2. CASE i \in Raises
    <3>1. stack'[i].pad = stack[i].pad /\ stack[i].pad \in 1 .. i - 1 /\ i \in 1 .. n
      BY <2>2, <1>8, <1>9, <1>11
    <3>2. stack[stack[i].pad].type = "LANDING_PAD"
      BY <2>2 DEF UnwindingInv, HandlersNest
    <3>3. ASSUME NEW j \in Raises', i < j PROVE stack'[j].pad < stack'[i].pad
      <4>1. CASE j = n + 1
        BY <4>1, <2>2, <3>1, <1>9, <1>11
      <4>2. CASE j \in Raises
        BY <4>2, <2>2, <3>1, <3>3, <1>11 DEF UnwindingInv, HandlersNest
      <4> QED
        BY <4>1, <4>2, <1>8
    <3>4. stack'[stack[i].pad] = stack[stack[i].pad]
      BY <3>1, <1>3, <1>4
    <3> QED
      BY <3>1, <3>2, <3>3, <3>4, Zenon
  <2> QED
    BY <2>1, <2>2, <1>8
<1>13. activeHandlerRecord' = stack'[Max(Raises')].pad /\ Raises' # {}
  BY <1>8, <1>10, <1>11
<1>14. HandlersNest'
  BY <1>12, <1>13 DEF HandlersNest
<1> QED
  BY <1>5, <1>6, <1>7, <1>14 DEF UnwindingInv

LEMMA RaiseKeeps ==
  ASSUME UnwindingInv, NEW e \in ExceptionType, raiseException(e)
  PROVE  UnwindingInv'
<1>1. CASE LandingPadsFor(e) = {}
  <2>1. aborted' = TRUE /\ UNCHANGED <<stack, activeHandlerRecord>>
    BY <1>1 DEF raiseException
  <2> QED
    BY <2>1 DEF UnwindingInv, TypeOK, BottomInv, TargetsInv, HandlersNest, Raises
<1>2. CASE LandingPadsFor(e) # {}
  <2>1. PICK p \in 1 .. Len(stack) :
          /\ p = Max(LandingPadsFor(e)) /\ stack[p].type = "LANDING_PAD"
          /\ \A i \in Raises : i > p
          /\ activeHandlerRecord # 0 => p < activeHandlerRecord
    BY <1>2, HandlerIsBelow
  <2>2. CASE /\ activeHandlerRecord' = p
             /\ Push([NewFrame("RAISE") EXCEPT !.pad = p])
    <3>1. UNCHANGED aborted
      BY <1>2 DEF raiseException
    <3> QED
      BY <2>1, <2>2, <3>1, ActionStartsKeeps
  <2>3. CASE UnwindIntoLandingPad(p)
    <3>1. UNCHANGED aborted
      BY <1>2 DEF raiseException
    <3> QED
      BY <2>1, <2>3, <3>1, CutBelowKeeps
  <2> QED
    BY <1>2, <2>1, <2>2, <2>3 DEF raiseException
<1> QED
  BY <1>1, <1>2

\* An action that ends is the last of the chain: its handler is below all of them.
LEMMA HandlerReturnsKeeps ==
  ASSUME UnwindingInv, HandlerReturns
  PROVE  UnwindingInv'
<1>1. /\ Len(stack) \in Nat /\ Len(stack) >= 1
      /\ Raises \subseteq 1 .. Len(stack) /\ Len(stack) \in Raises
  BY DEF HandlerReturns, Running, Top, Raises, UnwindingInv, TypeOK, BottomInv
<1> DEFINE p == stack[Len(stack)].pad
<1>2. p \in 1 .. Len(stack) - 1 /\ stack[p].type = "LANDING_PAD"
  BY <1>1 DEF UnwindingInv, HandlersNest
<1>3. ASSUME NEW i \in Raises PROVE i > p
  <2>1. CASE i = Len(stack)
    BY <2>1, <1>1, <1>2
  <2>2. CASE i < Len(stack)
    <3>1. p < stack[i].pad /\ stack[i].pad \in 1 .. i - 1
      BY <2>2, <1>1 DEF UnwindingInv, HandlersNest
    <3> QED
      BY <3>1, <1>1, <1>2
  <2> QED
    BY <2>1, <2>2, <1>1
<1>4. UnwindIntoLandingPad(p) /\ UNCHANGED aborted
  BY DEF HandlerReturns, Top
<1> QED
  BY <1>1, <1>2, <1>3, <1>4, CutBelowKeeps

-----------------------------------------------------------------------------
(* Frames that change where they are. *)

\* A frame that becomes another one, neither an action nor a handler before or after,
\* with at most a continue target of its own.
LEMMA ReplaceKeeps ==
  ASSUME TypeOK, HandlersNest, NEW s \in Seq(Frame), NEW n \in 0 .. Len(s),
         n \in DOMAIN stack => stack[n].type \notin {"RAISE", "LANDING_PAD"},
         Len(s) >= 1, Len(s) <= MaxDepth,
         stack' = s,
         UNCHANGED <<activeHandlerRecord, aborted>>,
         Raises' = Raises,
         \A i \in Raises : i \in 1 .. Len(s),
         \A i \in 1 .. Len(s) : i # n /\ i \in DOMAIN stack => s[i] = stack[i]
  PROVE  TypeOK' /\ HandlersNest'
<1>1. TypeOK'
  BY DepthAssumption DEF TypeOK
<1>2. \A i \in Raises : /\ i \in DOMAIN stack /\ i # n
                        /\ stack[i].pad \in 1 .. i - 1
                        /\ stack[stack[i].pad].type = "LANDING_PAD"
  BY DEF Raises, HandlersNest
<1>3. \A i \in Raises : stack'[i] = stack[i] /\ stack'[stack[i].pad] = stack[stack[i].pad]
  <2>1. SUFFICES ASSUME NEW i \in Raises
                 PROVE  stack'[i] = stack[i] /\ stack'[stack[i].pad] = stack[stack[i].pad]
    OBVIOUS
  <2>2. stack \in Seq(Frame) /\ Len(stack) \in Nat /\ i \in 1 .. Len(stack)
    BY <1>2 DEF TypeOK
  <2>3. stack[i].pad \in 1 .. Len(s) /\ stack[i].pad \in 1 .. Len(stack)
    BY <1>2, <2>2
  <2>4. stack[i].pad # n
    BY <1>2, <2>2, <2>3
  <2> QED
    BY <1>2, <2>2, <2>3, <2>4
<1>4. HandlersNest'
  BY <1>3, HandlersKept
<1> QED
  BY <1>1, <1>4

LEMMA EnsureBodyEndsKeeps ==
  ASSUME UnwindingInv, EnsureBodyEnds
  PROVE  UnwindingInv'
<1> DEFINE s == [stack EXCEPT ![Top] = NewFrame("CLEANUP_ACTION")]
<1>1. /\ stack \in Seq(Frame) /\ Len(stack) \in Nat /\ Len(stack) >= 1
      /\ Len(stack) <= MaxDepth /\ MaxDepth \in Nat
      /\ stack[Len(stack)].type = "CLEANUP" /\ stack' = s
      /\ UNCHANGED <<activeHandlerRecord, aborted>>
  BY DepthAssumption DEF UnwindingInv, TypeOK, BottomInv, EnsureBodyEnds, Running, Top
<1>2. NewFrame("CLEANUP_ACTION") \in Frame
  <2>1. "CLEANUP_ACTION" \in FrameType /\ NoFilter \in Filter /\ TRUE \in BOOLEAN /\ 0 \in Nat
    BY FilterAssumption DEF FrameType
  <2> QED
    BY <2>1, FrameIsTyped, Zenon
<1>3. /\ s \in Seq(Frame) /\ Len(s) = Len(stack)
      /\ s[Len(stack)] = NewFrame("CLEANUP_ACTION")
      /\ \A i \in 1 .. Len(s) : i # Len(stack) => s[i] = stack[i]
  BY <1>1, <1>2 DEF Top
<1>4. NewFrame("CLEANUP_ACTION").type = "CLEANUP_ACTION"
      /\ NewFrame("CLEANUP_ACTION").breakTarget = 0
      /\ NewFrame("CLEANUP_ACTION").continueTarget = 0
  BY DEF NewFrame
<1> HIDE DEF s
<1>5. BottomInv'
  BY <1>1, <1>3 DEF UnwindingInv, BottomInv
<1>6. TargetsInv'
  BY <1>1, <1>3, <1>4 DEF UnwindingInv, TargetsInv
<1>7. Raises' = Raises
  BY <1>1, <1>3, <1>4 DEF Raises
<1>8. \A i \in Raises : i \in 1 .. Len(s)
  BY <1>1, <1>3 DEF Raises
<1>9. TypeOK' /\ HandlersNest'
  BY <1>1, <1>3, <1>7, <1>8, ReplaceKeeps DEF UnwindingInv
<1> QED
  BY <1>5, <1>6, <1>9 DEF UnwindingInv

LEMMA EnterBodyKeeps ==
  ASSUME UnwindingInv, EnterBody
  PROVE  UnwindingInv'
<1> DEFINE n == Len(stack)
<1> DEFINE loop == [stack[n] EXCEPT !.continueTarget = n]
<1> DEFINE body == NewFrame("CONTINUE_TARGET")
<1> DEFINE s == Append([stack EXCEPT ![n] = loop], body)
<1>1. /\ stack \in Seq(Frame) /\ n \in Nat /\ n >= 1 /\ n + 1 <= MaxDepth
      /\ stack[n].type = "BREAK_TARGET" /\ stack' = s
      /\ UNCHANGED <<activeHandlerRecord, aborted>>
  BY DepthAssumption DEF UnwindingInv, TypeOK, BottomInv, EnterBody, Running, Top
<1>2. loop \in Frame /\ loop.type = "BREAK_TARGET" /\ loop.continueTarget = n
      /\ loop.breakTarget = stack[n].breakTarget
  <2>1. stack[n] \in Frame
    BY <1>1
  <2> QED
    BY <1>1, <2>1 DEF Frame
<1>3. body \in Frame
  <2>1. "CONTINUE_TARGET" \in FrameType /\ NoFilter \in Filter /\ TRUE \in BOOLEAN /\ 0 \in Nat
    BY FilterAssumption DEF FrameType, RecordType
  <2> QED
    BY <2>1, FrameIsTyped, Zenon
<1>4. body.type = "CONTINUE_TARGET" /\ body.breakTarget = 0 /\ body.continueTarget = 0
  BY DEF NewFrame
<1> HIDE DEF loop, body
<1>5. /\ s \in Seq(Frame) /\ Len(s) = n + 1 /\ s[n] = loop /\ s[n + 1] = body
      /\ \A i \in 1 .. n : i # n => s[i] = stack[i]
  BY <1>1, <1>2, <1>3
<1> HIDE DEF s
<1>6. BottomInv'
  BY <1>1, <1>2, <1>5 DEF UnwindingInv, BottomInv
<1>7. TargetsInv'
  <2>1. SUFFICES ASSUME NEW i \in 1 .. n + 1
                 PROVE  /\ s[i].breakTarget \in {0, i} /\ s[i].continueTarget \in {0, i}
                        /\ s[i].continueTarget = i => s[i].type = "BREAK_TARGET"
                        /\ s[i].type = "CONTINUE_TARGET" =>
                             i > 1 /\ s[i - 1].type = "BREAK_TARGET"
    BY <1>1, <1>5 DEF TargetsInv
  <2>2. CASE i = n + 1
    BY <2>2, <1>1, <1>2, <1>4, <1>5
  <2>3. CASE i = n
    BY <2>3, <1>1, <1>2, <1>5 DEF UnwindingInv, TargetsInv
  <2>4. CASE i < n
    BY <2>4, <1>1, <1>5 DEF UnwindingInv, TargetsInv
  <2> QED
    BY <2>2, <2>3, <2>4, <1>1
<1>8. Raises' = Raises
  BY <1>1, <1>2, <1>4, <1>5 DEF Raises
<1>9. \A i \in Raises : i \in 1 .. Len(s)
  BY <1>1, <1>5 DEF Raises
<1>10. TypeOK' /\ HandlersNest'
  <2>1. n \in 0 .. Len(s) /\ Len(s) >= 1 /\ Len(s) <= MaxDepth
    BY <1>1, <1>5
  <2>2. \A i \in 1 .. Len(s) : i # n /\ i \in DOMAIN stack => s[i] = stack[i]
    BY <1>1, <1>5
  <2> QED
    BY <1>1, <1>5, <1>8, <1>9, <2>1, <2>2, ReplaceKeeps DEF UnwindingInv
<1> QED
  BY <1>6, <1>7, <1>10 DEF UnwindingInv

LEMMA BodyEndsKeeps ==
  ASSUME UnwindingInv, BodyEnds
  PROVE  UnwindingInv'
<1> DEFINE n == Len(stack)
<1> DEFINE loop == [stack[n - 1] EXCEPT !.continueTarget = 0]
<1> DEFINE t == SubSeq(stack, 1, n - 1)
<1> DEFINE s == [t EXCEPT ![n - 1].continueTarget = 0]
<1>1. /\ stack \in Seq(Frame) /\ n \in Nat /\ n >= 1 /\ n <= MaxDepth /\ MaxDepth \in Nat
      /\ stack[n].type = "CONTINUE_TARGET" /\ stack' = s
      /\ UNCHANGED <<activeHandlerRecord, aborted>>
  BY DepthAssumption DEF UnwindingInv, TypeOK, BottomInv, BodyEnds, Running, Top
<1>2. n > 1 /\ stack[n - 1].type = "BREAK_TARGET"
  BY <1>1 DEF UnwindingInv, TargetsInv
<1>3. /\ loop \in Frame /\ loop.type = "BREAK_TARGET" /\ loop.continueTarget = 0
      /\ loop.breakTarget = stack[n - 1].breakTarget
  <2>1. stack[n - 1] \in Frame
    BY <1>1, <1>2
  <2> QED
    BY <1>2, <2>1 DEF Frame
<1>4. /\ s \in Seq(Frame) /\ Len(s) = n - 1 /\ s[n - 1] = loop
      /\ \A i \in 1 .. n - 1 : i # n - 1 => s[i] = stack[i]
  <2>1. t \in Seq(Frame) /\ Len(t) = n - 1 /\ \A i \in 1 .. n - 1 : t[i] = stack[i]
    BY <1>1, <1>2
  <2> HIDE DEF t
  <2>2. n - 1 \in 1 .. Len(t) /\ t[n - 1] = stack[n - 1]
    BY <1>1, <1>2, <2>1
  <2>3. s = [t EXCEPT ![n - 1] = loop]
    BY <2>2
  <2> HIDE DEF s, loop
  <2> QED
    BY <1>1, <1>2, <1>3, <2>1, <2>2, <2>3
<1> HIDE DEF s, loop
<1>5. BottomInv'
  BY <1>1, <1>2, <1>4 DEF UnwindingInv, BottomInv
<1>6. TargetsInv'
  <2>1. SUFFICES ASSUME NEW i \in 1 .. n - 1
                 PROVE  /\ s[i].breakTarget \in {0, i} /\ s[i].continueTarget \in {0, i}
                        /\ s[i].continueTarget = i => s[i].type = "BREAK_TARGET"
                        /\ s[i].type = "CONTINUE_TARGET" =>
                             i > 1 /\ s[i - 1].type = "BREAK_TARGET"
    BY <1>1, <1>4 DEF TargetsInv
  <2>2. CASE i = n - 1
    BY <2>2, <1>1, <1>2, <1>3, <1>4 DEF UnwindingInv, TargetsInv
  <2>3. CASE i < n - 1
    BY <2>3, <1>1, <1>4 DEF UnwindingInv, TargetsInv
  <2> QED
    BY <2>2, <2>3, <1>1
<1>7. Raises' = Raises
  <2>1. \A i \in 1 .. n : i \in Raises <=> i \in 1 .. n - 1 /\ s[i].type = "RAISE"
    <3>1. SUFFICES ASSUME NEW i \in 1 .. n
                   PROVE  stack[i].type = "RAISE" <=> i \in 1 .. n - 1 /\ s[i].type = "RAISE"
      BY <1>1 DEF Raises
    <3>2. CASE i = n
      BY <3>2, <1>1
    <3>3. CASE i = n - 1
      BY <3>3, <1>1, <1>2, <1>3, <1>4
    <3>4. CASE i < n - 1
      BY <3>4, <1>1, <1>4
    <3> QED
      BY <3>2, <3>3, <3>4, <1>1
  <2>2. Raises \subseteq 1 .. n /\ Raises' = {i \in 1 .. n - 1 : s[i].type = "RAISE"}
    BY <1>1, <1>4 DEF Raises
  <2> QED
    BY <2>1, <2>2, <1>1
<1>8. \A i \in Raises : i \in 1 .. Len(s)
  BY <1>1, <1>4, <1>7 DEF Raises
<1>9. TypeOK' /\ HandlersNest'
  <2>1. n - 1 \in 0 .. Len(s) /\ Len(s) >= 1 /\ Len(s) <= MaxDepth
    BY <1>1, <1>2, <1>4
  <2>2. \A i \in 1 .. Len(s) : i # n - 1 /\ i \in DOMAIN stack => s[i] = stack[i]
    BY <1>1, <1>4
  <2> QED
    BY <1>1, <1>2, <1>4, <1>7, <1>8, <2>1, <2>2, ReplaceKeeps DEF UnwindingInv
<1> QED
  BY <1>5, <1>6, <1>9 DEF UnwindingInv

-----------------------------------------------------------------------------
(* Frames that come and go. *)

LEMMA OnDoKeeps ==
  ASSUME UnwindingInv, NEW f \in Filter, NEW action \in BOOLEAN, onDo(f, action)
  PROVE  UnwindingInv'
<1> DEFINE frame ==
      [NewFrame("LANDING_PAD") EXCEPT !.exceptionFilter = f, !.action = action]
<1>1. frame \in Frame
  <2>1. "LANDING_PAD" \in FrameType /\ 0 \in Nat
    BY DEF FrameType, RecordType
  <2> QED
    BY <2>1, FrameIsTyped, Zenon
<1>2. frame.type = "LANDING_PAD" /\ frame.breakTarget = 0 /\ frame.continueTarget = 0
  BY DEF NewFrame
<1>3. Push(frame) /\ UNCHANGED <<activeHandlerRecord, aborted>>
  BY DEF onDo
<1> HIDE DEF frame
<1> QED
  BY <1>1, <1>2, <1>3, PushKeeps

LEMMA NewFrameKeeps ==
  ASSUME UnwindingInv, NEW type \in FrameType \ {"CONTINUE_TARGET", "RAISE"},
         Push(NewFrame(type)), UNCHANGED <<activeHandlerRecord, aborted>>
  PROVE  UnwindingInv'
<1>1. NewFrame(type) \in Frame
  <2>1. type \in FrameType /\ NoFilter \in Filter /\ TRUE \in BOOLEAN /\ 0 \in Nat
    BY FilterAssumption
  <2> QED
    BY <2>1, FrameIsTyped, Zenon
<1>2. /\ NewFrame(type).type = type
      /\ NewFrame(type).breakTarget = 0 /\ NewFrame(type).continueTarget = 0
  BY DEF NewFrame
<1> QED
  BY <1>1, <1>2, PushKeeps

LEMMA EnterWhileKeeps ==
  ASSUME UnwindingInv, EnterWhile
  PROVE  UnwindingInv'
<1> DEFINE frame == [NewFrame("BREAK_TARGET") EXCEPT !.breakTarget = Top + 1]
<1>1. frame \in Frame
  <2>1. "BREAK_TARGET" \in FrameType /\ NoFilter \in Filter /\ TRUE \in BOOLEAN
    BY FilterAssumption DEF FrameType, RecordType
  <2>2. Top + 1 \in Nat
    BY DEF UnwindingInv, TypeOK, Top
  <2> QED
    BY <2>1, <2>2, FrameIsTyped, Zenon
<1>2. frame.type = "BREAK_TARGET" /\ frame.breakTarget = Top + 1 /\ frame.continueTarget = 0
  BY DEF NewFrame
<1>3. Push(frame) /\ UNCHANGED <<activeHandlerRecord, aborted>>
  BY DEF EnterWhile
<1> HIDE DEF frame
<1> QED
  BY <1>1, <1>2, <1>3, PushKeeps

LEMMA CompletesKeeps ==
  ASSUME UnwindingInv, Completes
  PROVE  UnwindingInv'
<1>1. /\ Len(stack) \in Nat /\ Len(stack) > 1 /\ stack[Len(stack)].type # "RAISE"
      /\ UnwindTo(Len(stack) - 1) /\ UNCHANGED <<activeHandlerRecord, aborted>>
  BY DEF Completes, Running, Top, UnwindingInv, TypeOK
<1>2. \A i \in Raises : i <= Len(stack) - 1
  BY <1>1 DEF Raises
<1> QED
  BY <1>1, <1>2, CutAboveKeeps

\* The loop that is left is at the top of the stack, or just below its body.
LEMMA BreakKeeps ==
  ASSUME UnwindingInv, break
  PROVE  UnwindingInv'
<1> DEFINE n == Len(stack)
<1> DEFINE at == IF stack[n].type = "CONTINUE_TARGET" THEN n - 1 ELSE n
<1> DEFINE target == stack[at].breakTarget
<1>1. n \in Nat /\ n >= 1 /\ stack[1].type = "SCRIPT" /\ stack[n].type \in ScriptLevel
  BY DEF UnwindingInv, TypeOK, BottomInv, break, Running, Top
<1>2. at \in 1 .. n /\ (at # n => at = n - 1 /\ stack[n].type = "CONTINUE_TARGET")
  BY <1>1 DEF UnwindingInv, TargetsInv
<1>3. target \in {0, at}
  BY <1>2 DEF UnwindingInv, TargetsInv
<1>4. lookBreakTarget = target
  BY DEF lookBreakTarget, CurrentEnvironment, Top
<1> HIDE DEF at, target
<1>5. CASE target # 0 /\ stack[target].type = "BREAK_TARGET"
  <2>1. UnwindTo(at - 1) /\ UNCHANGED <<activeHandlerRecord, aborted>>
    BY <1>3, <1>4, <1>5 DEF break, Unwind
  <2>2. at - 1 \in 1 .. n
    BY <1>1, <1>2, <1>3, <1>5
  <2>3. \A i \in Raises : i <= at - 1
    BY <1>1, <1>2, <1>3, <1>5 DEF Raises, ScriptLevel
  <2> QED
    BY <2>1, <2>2, <2>3, CutAboveKeeps
<1>6. CASE ~ (target # 0 /\ stack[target].type = "BREAK_TARGET")
  <2>1. raiseException(Error)
    BY <1>4, <1>6 DEF break, Unwind
  <2> QED
    BY <2>1, RaiseKeeps, FilterAssumption
<1> QED
  BY <1>5, <1>6

\* The target of continue() is the record of the loop, which is never of the type that
\* is asked for: an error.
LEMMA ContinueKeeps ==
  ASSUME UnwindingInv, continue
  PROVE  UnwindingInv'
<1> DEFINE n == Len(stack)
<1> DEFINE at == IF stack[n].type = "CONTINUE_TARGET" THEN n - 1 ELSE n
<1> DEFINE target == stack[at].continueTarget
<1>1. n \in Nat /\ n >= 1
  BY DEF UnwindingInv, TypeOK, BottomInv
<1>2. at \in 1 .. n
  BY <1>1 DEF UnwindingInv, TargetsInv
<1>3. target = 0 \/ stack[target].type = "BREAK_TARGET"
  BY <1>2 DEF UnwindingInv, TargetsInv
<1>4. lookContinueTarget = target
  BY DEF lookContinueTarget, CurrentEnvironment, Top
<1> HIDE DEF target
<1>5. raiseException(Error)
  BY <1>3, <1>4 DEF continue, Unwind
<1> QED
  BY <1>5, RaiseKeeps, FilterAssumption

-----------------------------------------------------------------------------
(* The handlers, the actions and the stack agree after every step of a program that
   handles exceptions, protects its code and leaves its loops
   (stackFrame.c:164-320, interpreter.c). *)
THEOREM UnwindingInvariant == Spec => []UnwindingInv
<1>1. Init => UnwindingInv
  <2> SUFFICES ASSUME Init PROVE UnwindingInv
    OBVIOUS
  <2>1. NewFrame("SCRIPT") \in Frame
    <3>1. "SCRIPT" \in FrameType /\ NoFilter \in Filter /\ TRUE \in BOOLEAN /\ 0 \in Nat
      BY FilterAssumption DEF FrameType
    <3> QED
      BY <3>1, FrameIsTyped, Zenon
  <2>2. /\ stack = <<NewFrame("SCRIPT")>> /\ Len(stack) = 1
        /\ activeHandlerRecord = 0 /\ aborted = FALSE
    BY DEF Init
  <2>3. /\ NewFrame("SCRIPT").type = "SCRIPT"
        /\ NewFrame("SCRIPT").breakTarget = 0 /\ NewFrame("SCRIPT").continueTarget = 0
    BY DEF NewFrame
  <2>4. TypeOK
    <3>1. stack \in Seq(Frame)
      BY <2>1, <2>2
    <3>2. Len(stack) \in 1 .. MaxDepth /\ activeHandlerRecord \in 0 .. MaxDepth
      BY <2>2, DepthAssumption
    <3> QED
      BY <2>2, <3>1, <3>2 DEF TypeOK
  <2>5. BottomInv /\ TargetsInv
    BY <2>2, <2>3 DEF BottomInv, TargetsInv
  <2>6. Raises = {}
    BY <2>2, <2>3 DEF Raises
  <2>7. HandlersNest
    BY <2>2, <2>6 DEF HandlersNest
  <2> QED
    BY <2>4, <2>5, <2>7 DEF UnwindingInv
<1>2. UnwindingInv /\ [Next]_vars => UnwindingInv'
  <2> SUFFICES ASSUME UnwindingInv, [Next]_vars PROVE UnwindingInv'
    OBVIOUS
  <2>1. ASSUME NEW e \in ExceptionType, signal(e) PROVE UnwindingInv'
    BY <2>1, RaiseKeeps DEF signal
  <2>2. CASE HandlerReturns
    BY <2>2, HandlerReturnsKeeps
  <2>3. ASSUME NEW f \in Filter, NEW action \in BOOLEAN, onDo(f, action) PROVE UnwindingInv'
    BY <2>3, OnDoKeeps
  <2>4. CASE ensure
    BY <2>4, NewFrameKeeps DEF ensure, FrameType, RecordType
  <2>5. CASE EnsureBodyEnds
    BY <2>5, EnsureBodyEndsKeeps
  <2>6. CASE evaluateScript
    BY <2>6, NewFrameKeeps DEF evaluateScript, FrameType
  <2>7. CASE LexicalBlock
    BY <2>7, NewFrameKeeps DEF LexicalBlock, FrameType
  <2>8. CASE EnterWhile
    BY <2>8, EnterWhileKeeps
  <2>9. CASE EnterBody
    BY <2>9, EnterBodyKeeps
  <2>10. CASE BodyEnds
    BY <2>10, BodyEndsKeeps
  <2>11. CASE Completes
    BY <2>11, CompletesKeeps
  <2>12. CASE break
    BY <2>12, BreakKeeps
  <2>13. CASE continue
    BY <2>13, ContinueKeeps
  <2>14. CASE UNCHANGED vars
    BY <2>14 DEF vars, UnwindingInv, TypeOK, BottomInv, TargetsInv, HandlersNest, Raises
  <2> QED
    BY <2>1, <2>2, <2>3, <2>4, <2>5, <2>6, <2>7, <2>8, <2>9, <2>10, <2>11, <2>12, <2>13, <2>14
    DEF Next
<1> QED
  BY <1>1, <1>2, PTL DEF Spec

(* The stack is a sequence of well-formed frames within its bound, and the active handler
   record an address in it or null (stackFrame.c:14-16). *)
THEOREM TypeCorrect == Spec => []TypeOK
<1>1. UnwindingInv => TypeOK
  BY DEF UnwindingInv
<1> QED
  BY <1>1, UnwindingInvariant, PTL

(* An exception raised by the action of a handler never reaches a handler whose action is
   running, however deep this goes (stackFrame.c:164-218). *)
THEOREM HandlersNestHolds == Spec => []HandlersNest
<1>1. UnwindingInv => HandlersNest
  BY DEF UnwindingInv
<1> QED
  BY <1>1, UnwindingInvariant, PTL

-----------------------------------------------------------------------------
(************************* The pending analyses ***************************)

Entry == Function \cup {NoFunction}

\* What a first entry leads to by the links.
Stays(S, first, next) ==
  /\ first # NoFunction => first \in S
  /\ \A f \in S : next[f] # NoFunction => next[f] \in S

Led(first, next) == {f \in Function : \A S \in SUBSET Function : Stays(S, first, next) => f \in S}

\* The links are one chain from the first to the last entry, and what is not on it has
\* no link.
Chain(first, last, next) ==
  /\ first \in Entry /\ last \in Entry /\ next \in [Function -> Entry]
  /\ first = NoFunction <=> last = NoFunction
  /\ last # NoFunction => last \in Led(first, next) /\ next[last] = NoFunction
  /\ \A f \in Function : next[f] # NoFunction => f \in Led(first, next) /\ next[f] # first
  /\ \A f, g \in Function : next[f] # NoFunction /\ next[f] = next[g] => f = g

-----------------------------------------------------------------------------
LEMMA LedStays ==
  ASSUME NEW first \in Entry, NEW next \in [Function -> Entry]
  PROVE  Led(first, next) \subseteq Function /\ Stays(Led(first, next), first, next)
<1>1. ASSUME first # NoFunction PROVE first \in Led(first, next)
  BY <1>1 DEF Led, Stays, Entry
<1>2. ASSUME NEW f \in Led(first, next), next[f] # NoFunction PROVE next[f] \in Led(first, next)
  <2>1. f \in Function /\ next[f] \in Function
    BY <1>2 DEF Led, Entry
  <2>2. ASSUME NEW S \in SUBSET Function, Stays(S, first, next) PROVE next[f] \in S
    <3>1. f \in S
      BY <2>2 DEF Led
    <3> QED
      BY <3>1, <2>2, <1>2 DEF Stays
  <2> QED
    BY <2>1, <2>2 DEF Led
<1> QED
  BY <1>1, <1>2 DEF Led, Stays

LEMMA LedIsLeast ==
  ASSUME NEW first, NEW next, NEW S \in SUBSET Function, Stays(S, first, next)
  PROVE  Led(first, next) \subseteq S
  BY DEF Led

\* An empty queue has no functions.
LEMMA EmptyChain ==
  ASSUME NEW next \in [Function -> Entry]
  PROVE  Led(NoFunction, next) = {}
<1>1. Stays({}, NoFunction, next)
  BY DEF Stays
<1> QED
  BY <1>1, LedIsLeast

\* An entry that is not on the queue goes to its end.
LEMMA Enqueued ==
  ASSUME NEW first, NEW last, NEW next, Chain(first, last, next),
         NEW f \in Function, f \notin Led(first, next),
         NEW first2, first2 = IF last = NoFunction THEN f ELSE first,
         NEW next2, next2 = [g \in Function |-> IF g = f THEN NoFunction
                                                ELSE IF g = last THEN f ELSE next[g]]
  PROVE  Chain(first2, f, next2) /\ Led(first2, next2) = Led(first, next) \cup {f}
<1> DEFINE Q == Led(first, next)
<1>1. /\ first \in Entry /\ last \in Entry /\ next \in [Function -> Entry]
      /\ first = NoFunction <=> last = NoFunction
      /\ last # NoFunction => last \in Q /\ next[last] = NoFunction
      /\ \A g \in Function : next[g] # NoFunction => g \in Q /\ next[g] # first
      /\ \A g, h \in Function : next[g] # NoFunction /\ next[g] = next[h] => g = h
  BY DEF Chain
<1>2. Q \subseteq Function /\ Stays(Q, first, next)
  BY <1>1, LedStays
<1>3. f # NoFunction /\ f \in Entry
  BY FunctionAssumption DEF Entry, Function
<1>4. /\ first2 \in Entry /\ next2 \in [Function -> Entry] /\ first2 # NoFunction
      /\ next2[f] = NoFunction
      /\ \A g \in Function : g # f /\ g # last => next2[g] = next[g]
      /\ \A g \in Function : g # f /\ g = last => next2[g] = f
  BY <1>1, <1>3 DEF Entry
<1>5. f \notin Q
  OBVIOUS
<1> HIDE DEF Q
<1>6. Led(first2, next2) \subseteq Q \cup {f}
  <2>1. Stays(Q \cup {f}, first2, next2)
    BY <1>1, <1>2, <1>3, <1>4 DEF Stays
  <2>2. Q \cup {f} \in SUBSET Function
    BY <1>2
  <2> QED
    BY <2>1, <2>2, LedIsLeast
<1>7. /\ Led(first2, next2) \subseteq Function /\ Stays(Led(first2, next2), first2, next2)
  BY <1>4, LedStays
<1>8. Q \subseteq Led(first2, next2)
  <2> DEFINE L == Led(first2, next2)
  <2>1. CASE last = NoFunction
    <3>1. Q = {}
      BY <2>1, <1>1, EmptyChain DEF Q
    <3> QED
      BY <3>1
  <2>2. CASE last # NoFunction
    <3>0. L \subseteq Function /\ Stays(L, first2, next2)
      BY <1>7
    <3> HIDE DEF L
    <3>1. first \in L
      BY <3>0, <2>2, <1>1, <1>4 DEF Stays
    <3>2. first # f
      BY <2>2, <1>1, <1>2, <1>5 DEF Stays
    <3>3. ASSUME NEW g \in L \ {f}, next[g] # NoFunction PROVE next[g] \in L \ {f}
      <4>1. g \in Function /\ g \in Q /\ g # last
        BY <3>0, <3>3, <2>2, <1>1
      <4>2. next2[g] = next[g]
        BY <4>1, <3>3, <1>4
      <4>3. next[g] \in L
        BY <4>2, <3>0, <3>3 DEF Stays
      <4>4. next[g] \in Q
        BY <4>1, <3>3, <1>2 DEF Stays
      <4> QED
        BY <4>3, <4>4, <1>5
    <3>4. Stays(L \ {f}, first, next)
      BY <3>1, <3>2, <3>3 DEF Stays
    <3>5. Q \subseteq L \ {f}
      BY <3>0, <3>4, LedIsLeast DEF Q
    <3> QED
      BY <3>5 DEF L
  <2> QED
    BY <2>1, <2>2
<1>9. f \in Led(first2, next2)
  <2>1. CASE last = NoFunction
    BY <2>1, <1>4, <1>7 DEF Stays
  <2>2. CASE last # NoFunction
    <3>1. last \in Led(first2, next2) /\ last \in Function /\ last # f
      BY <2>2, <1>1, <1>2, <1>5, <1>8
    <3>2. next2[last] = f
      BY <3>1, <1>4
    <3> QED
      BY <3>1, <3>2, <1>3, <1>7 DEF Stays
  <2> QED
    BY <2>1, <2>2
<1>10. Led(first2, next2) = Q \cup {f}
  BY <1>6, <1>8, <1>9
<1>11. ASSUME NEW g \in Function, next2[g] # NoFunction
       PROVE  g \in Led(first2, next2) /\ next2[g] # first2
  <2>1. g # f
    BY <1>4, <1>11
  <2>2. CASE g = last
    <3>1. last # NoFunction /\ last \in Q /\ next2[g] = f /\ first2 = first
      BY <2>1, <2>2, <1>1, <1>4, FunctionAssumption DEF Function
    <3>2. first \in Q
      BY <3>1, <1>1, <1>2 DEF Stays
    <3> QED
      BY <3>1, <3>2, <2>2, <1>5, <1>10
  <2>3. CASE g # last
    <3>1. next2[g] = next[g] /\ g \in Q /\ next[g] # first
      BY <2>1, <2>3, <1>1, <1>4, <1>11
    <3>2. next[g] \in Q
      BY <3>1, <1>2, <1>11 DEF Stays
    <3> QED
      BY <3>1, <3>2, <1>5, <1>10
  <2> QED
    BY <2>2, <2>3
<1>12. ASSUME NEW g \in Function, NEW h \in Function, next2[g] # NoFunction,
              next2[g] = next2[h]
       PROVE  g = h
  <2>1. g # f /\ h # f
    BY <1>4, <1>12
  <2>2. \A x \in Function : x # f /\ x # last /\ next2[x] # NoFunction => next2[x] # f
    BY <1>1, <1>2, <1>4, <1>5 DEF Stays
  <2> QED
    BY <2>1, <2>2, <1>1, <1>4, <1>12
<1>13. Chain(first2, f, next2)
  BY <1>3, <1>4, <1>9, <1>11, <1>12 DEF Chain
<1> QED
  BY <1>10, <1>13 DEF Q

\* The queue without its first entry.
Leaves(first, last, next, first2, last2, next2) ==
  /\ first2 = next[first]
  /\ last2 = IF first2 = NoFunction THEN NoFunction ELSE last
  /\ next2 = [next EXCEPT ![first] = NoFunction]

\* The first entry leaves the queue.
LEMMA Dequeued ==
  ASSUME NEW first, NEW last, NEW next, Chain(first, last, next), first # NoFunction,
         NEW first2, NEW last2, NEW next2,
         Leaves(first, last, next, first2, last2, next2)
  PROVE  Chain(first2, last2, next2) /\ Led(first2, next2) = Led(first, next) \ {first}
<1> DEFINE Q == Led(first, next)
<1>0. /\ first2 = next[first]
      /\ last2 = IF first2 = NoFunction THEN NoFunction ELSE last
      /\ next2 = [next EXCEPT ![first] = NoFunction]
  BY DEF Leaves
<1>1. /\ first \in Function /\ last \in Entry /\ next \in [Function -> Entry]
      /\ last # NoFunction /\ last \in Q /\ next[last] = NoFunction
      /\ \A g \in Function : next[g] # NoFunction => g \in Q /\ next[g] # first
      /\ \A g, h \in Function : next[g] # NoFunction /\ next[g] = next[h] => g = h
  BY DEF Chain, Entry
<1>2. Q \subseteq Function /\ Stays(Q, first, next)
  BY <1>1, LedStays DEF Entry
<1>3. /\ first2 \in Entry /\ next2 \in [Function -> Entry]
      /\ next2[first] = NoFunction
      /\ \A g \in Function : g # first => next2[g] = next[g]
  BY <1>0, <1>1 DEF Entry
<1>4. first \in Q
  BY <1>2 DEF Stays
<1> HIDE DEF Q
<1>5. Led(first2, next2) \subseteq Q \ {first}
  <2>1. ASSUME first2 # NoFunction PROVE first2 \in Q \ {first}
    BY <2>1, <1>0, <1>1, <1>2, <1>4 DEF Stays
  <2>2. ASSUME NEW g \in Q \ {first}, next2[g] # NoFunction PROVE next2[g] \in Q \ {first}
    BY <2>2, <1>1, <1>2, <1>3 DEF Stays
  <2>3. Stays(Q \ {first}, first2, next2)
    BY <2>1, <2>2 DEF Stays
  <2> QED
    BY <2>3, <1>2, LedIsLeast
<1>6. Led(first2, next2) \subseteq Function /\ Stays(Led(first2, next2), first2, next2)
  BY <1>3, LedStays
<1>7. Q \subseteq Led(first2, next2) \cup {first}
  <2> DEFINE L == Led(first2, next2)
  <2>1. L \subseteq Function /\ Stays(L, first2, next2)
    BY <1>6
  <2> HIDE DEF L
  <2>2. ASSUME NEW g \in L \cup {first}, next[g] # NoFunction PROVE next[g] \in L \cup {first}
    <3>1. CASE g = first
      BY <3>1, <2>1, <2>2, <1>0 DEF Stays
    <3>2. CASE g # first
      BY <3>2, <2>1, <2>2, <1>3 DEF Stays
    <3> QED
      BY <3>1, <3>2
  <2>3. Stays(L \cup {first}, first, next)
    BY <2>2 DEF Stays
  <2>4. Q \subseteq L \cup {first}
    BY <2>1, <2>3, <1>1, LedIsLeast DEF Q
  <2> QED
    BY <2>4 DEF L
<1>8. Led(first2, next2) = Q \ {first}
  BY <1>5, <1>7
<1>9. last2 # NoFunction => last2 \in Led(first2, next2) /\ next2[last2] = NoFunction
  BY <1>0, <1>1, <1>2, <1>3, <1>8
<1>10. ASSUME NEW g \in Function, next2[g] # NoFunction
       PROVE  g \in Led(first2, next2) /\ next2[g] # first2
  BY <1>0, <1>1, <1>3, <1>8, <1>10
<1>11. \A g, h \in Function : next2[g] # NoFunction /\ next2[g] = next2[h] => g = h
  BY <1>1, <1>3
<1>12. last2 \in Entry /\ (first2 = NoFunction <=> last2 = NoFunction)
  BY <1>0, <1>1
<1> QED
  BY <1>3, <1>8, <1>9, <1>10, <1>11, <1>12 DEF Chain, Q

-----------------------------------------------------------------------------
\* Frames of analyses and drains.  A drain is of no function.
AnalysisFrame == {frame \in [kind : {"analysis", "drain"}, function : Entry, actions : Nat] :
            frame.kind = "drain" => frame.function = NoFunction}

FunctionsOf(frames) == {frames[i].function : i \in DOMAIN frames}

\* A function that is pending is in one of the frames, or was left by an exception.
PendingSeen(environments, frames, left) ==
  \A f \in Function : environments[f] = "PENDING" => f \in FunctionsOf(frames) \cup left

LazyTypeOK ==
  /\ captureEnvironment \in [Function -> {"NULL", "ENVIRONMENT", "PENDING"}]
  /\ analyses \in Seq(AnalysisFrame)
  /\ abandoned \subseteq Function

\* The inductive invariant of the analysis of lambdas.
LazyInvariant ==
  /\ LazyTypeOK
  /\ Chain(firstEntry, lastEntry, nextEntry)
  /\ \A f \in Lambda : captureEnvironment[f] = "ENVIRONMENT" => f \in Led(firstEntry, nextEntry)
  /\ PendingSeen(captureEnvironment, analyses, abandoned)

LEMMA QueuedIsLed == Queued = Led(firstEntry, nextEntry)
<1>1. \A S : Closed(S) <=> Stays(S, firstEntry, nextEntry)
  BY DEF Closed, Stays
<1>2. ASSUME NEW f \in Function
      PROVE  (\A S \in SUBSET (Function \ {f}) : ~ Closed(S))
               <=> \A S \in SUBSET Function : Closed(S) => f \in S
  <2>1. ASSUME NEW S \in SUBSET Function, f \notin S PROVE S \in SUBSET (Function \ {f})
    BY <2>1
  <2>2. SUBSET (Function \ {f}) \subseteq SUBSET Function
    OBVIOUS
  <2>3. \A S \in SUBSET (Function \ {f}) : f \notin S
    OBVIOUS
  <2> QED
    BY <2>1, <2>2, <2>3
<1> QED
  BY <1>1, <1>2 DEF Queued, Led

LEMMA PrefixOfFrames ==
  ASSUME NEW frames \in Seq(AnalysisFrame), NEW d \in 0 .. Len(frames)
  PROVE  /\ SubSeq(frames, 1, d) \in Seq(AnalysisFrame)
         /\ DOMAIN SubSeq(frames, 1, d) = 1 .. d
         /\ \A i \in 1 .. d : SubSeq(frames, 1, d)[i] = frames[i]
         /\ DOMAIN frames = 1 .. Len(frames) /\ Len(frames) \in Nat
<1>1. Len(frames) \in Nat /\ DOMAIN frames = 1 .. Len(frames)
      /\ \A i \in 1 .. Len(frames) : frames[i] \in AnalysisFrame
  OBVIOUS
<1>2. SubSeq(frames, 1, d) = [i \in 1 .. d |-> frames[i]]
  BY <1>1
<1>3. SubSeq(frames, 1, d) \in Seq(AnalysisFrame)
  BY <1>1, <1>2
<1> QED
  BY <1>1, <1>2, <1>3

LEMMA AppendedFrame ==
  ASSUME NEW frames \in Seq(AnalysisFrame), NEW frame \in AnalysisFrame
  PROVE  /\ Append(frames, frame) \in Seq(AnalysisFrame)
         /\ FunctionsOf(Append(frames, frame)) = FunctionsOf(frames) \cup {frame.function}
<1>1. /\ Append(frames, frame) \in Seq(AnalysisFrame)
      /\ DOMAIN frames = 1 .. Len(frames) /\ Len(frames) \in Nat
      /\ DOMAIN Append(frames, frame) = 1 .. Len(frames) + 1
      /\ Append(frames, frame)[Len(frames) + 1] = frame
      /\ \A i \in 1 .. Len(frames) : Append(frames, frame)[i] = frames[i]
  OBVIOUS
<1>2. 1 .. Len(frames) + 1 = (1 .. Len(frames)) \cup {Len(frames) + 1}
  BY <1>1
<1> QED
  BY <1>1, <1>2 DEF FunctionsOf

\* The code that runs has done one more thing: the frames are of the same functions.
LEMMA CountedFrames ==
  ASSUME analyses \in Seq(AnalysisFrame)
  PROVE  Counted \in Seq(AnalysisFrame) /\ FunctionsOf(Counted) = FunctionsOf(analyses)
<1>1. CASE analyses = <<>>
  BY <1>1 DEF Counted
<1>2. CASE analyses # <<>>
  <2> DEFINE n == Len(analyses)
             top == [analyses[n] EXCEPT !.actions = @ + 1]
  <2>1. /\ n \in Nat /\ n \in DOMAIN analyses /\ DOMAIN analyses = 1 .. n
        /\ analyses[n] \in AnalysisFrame
    BY <1>2
  <2>2. top \in AnalysisFrame /\ top.function = analyses[n].function
    BY <2>1 DEF AnalysisFrame
  <2>3. Counted = [analyses EXCEPT ![n] = top]
    BY <1>2 DEF Counted
  <2> HIDE DEF top
  <2>4. /\ Counted \in Seq(AnalysisFrame) /\ DOMAIN Counted = DOMAIN analyses
        /\ \A i \in DOMAIN analyses : Counted[i] = IF i = n THEN top ELSE analyses[i]
    BY <2>1, <2>2, <2>3
  <2>5. \A i \in DOMAIN analyses : Counted[i].function = analyses[i].function
    BY <2>2, <2>4
  <2> QED
    BY <2>4, <2>5 DEF FunctionsOf
<1> QED
  BY <1>1, <1>2

\* What an exception leaves is remembered.
LEMMA RaisedFrom ==
  ASSUME NEW frames \in Seq(AnalysisFrame), abandoned \subseteq Function, RaiseFrom(frames)
  PROVE  /\ analyses' \in Seq(AnalysisFrame)
         /\ abandoned' \subseteq Function /\ abandoned \subseteq abandoned'
         /\ \A f \in FunctionsOf(frames) :
              f # NoFunction => f \in FunctionsOf(analyses') \cup abandoned'
<1>1. PICK depth \in {0} \cup {i \in 1..Len(frames) - 1 : frames[i].kind = "analysis"} :
        /\ analyses' = SubSeq(frames, 1, depth)
        /\ abandoned' = abandoned \cup
             {frames[i].function : i \in {j \in depth + 1..Len(frames) :
                                            frames[j].function # NoFunction}}
  BY DEF RaiseFrom
<1>2. Len(frames) \in Nat /\ DOMAIN frames = 1 .. Len(frames)
      /\ \A i \in DOMAIN frames : frames[i] \in AnalysisFrame
  OBVIOUS
<1>3. \A i \in DOMAIN frames : frames[i].function \in Entry
  BY <1>2 DEF AnalysisFrame
<1>4. depth \in 0 .. Len(frames)
  BY <1>1, <1>2
<1>5. /\ analyses' \in Seq(AnalysisFrame) /\ DOMAIN analyses' = 1 .. depth
      /\ \A i \in 1 .. depth : analyses'[i] = frames[i]
  BY <1>1, <1>4, PrefixOfFrames
<1>6. abandoned' \subseteq Function /\ abandoned \subseteq abandoned'
  BY <1>1, <1>2, <1>3, <1>4 DEF Entry
<1>7. ASSUME NEW i \in DOMAIN frames, frames[i].function # NoFunction
      PROVE  frames[i].function \in FunctionsOf(analyses') \cup abandoned'
  <2>1. CASE i \in 1 .. depth
    BY <2>1, <1>5 DEF FunctionsOf
  <2>2. CASE i \in depth + 1 .. Len(frames)
    BY <2>2, <1>1, <1>7
  <2> QED
    BY <2>1, <2>2, <1>2, <1>4
<1> QED
  BY <1>5, <1>6, <1>7 DEF FunctionsOf

\* A function that is analysed gives its environment up, and no other one gets one.
LEMMA EnsuredAnalysis ==
  ASSUME captureEnvironment \in [Function -> {"NULL", "ENVIRONMENT", "PENDING"}],
         abandoned \subseteq Function, NEW f \in Function, NEW frames \in Seq(AnalysisFrame),
         PendingSeen(captureEnvironment, frames, abandoned), ensureAnalysis(f, frames)
  PROVE  /\ captureEnvironment' \in [Function -> {"NULL", "ENVIRONMENT", "PENDING"}]
         /\ analyses' \in Seq(AnalysisFrame) /\ abandoned' \subseteq Function
         /\ PendingSeen(captureEnvironment', analyses', abandoned')
         /\ \A g \in Function : captureEnvironment'[g] = "ENVIRONMENT" =>
              captureEnvironment[g] = "ENVIRONMENT" /\ g # f
<1>1. CASE /\ captureEnvironment[f] = "NULL"
           /\ analyses' = frames
           /\ UNCHANGED <<captureEnvironment, abandoned>>
  BY <1>1
<1>2. CASE /\ captureEnvironment[f] = "PENDING"
           /\ RaiseFrom(frames)
           /\ UNCHANGED captureEnvironment
  <2>1. /\ analyses' \in Seq(AnalysisFrame)
        /\ abandoned' \subseteq Function /\ abandoned \subseteq abandoned'
        /\ \A g \in FunctionsOf(frames) :
             g # NoFunction => g \in FunctionsOf(analyses') \cup abandoned'
    BY <1>2, RaisedFrom
  <2>2. \A g \in Function : g # NoFunction
    BY FunctionAssumption DEF Function
  <2>3. PendingSeen(captureEnvironment', analyses', abandoned')
    BY <1>2, <2>1, <2>2 DEF PendingSeen
  <2> QED
    BY <1>2, <2>1, <2>3
<1>3. CASE /\ captureEnvironment[f] = "ENVIRONMENT"
           /\ captureEnvironment' =
                [captureEnvironment EXCEPT ![f] = IF Analyzed(f) THEN "NULL" ELSE "PENDING"]
           /\ analyses' = IF Analyzed(f) THEN frames ELSE Append(frames, Analysis(f))
           /\ UNCHANGED abandoned
  <2>1. Analysis(f) \in AnalysisFrame /\ Analysis(f).function = f
    BY DEF Analysis, AnalysisFrame, Entry
  <2>2. /\ Append(frames, Analysis(f)) \in Seq(AnalysisFrame)
        /\ FunctionsOf(Append(frames, Analysis(f))) = FunctionsOf(frames) \cup {f}
    BY <2>1, AppendedFrame
  <2>3. \A g \in Function : captureEnvironment'[g] =
          IF g = f THEN IF Analyzed(f) THEN "NULL" ELSE "PENDING" ELSE captureEnvironment[g]
    BY <1>3
  <2>4. captureEnvironment' \in [Function -> {"NULL", "ENVIRONMENT", "PENDING"}]
    BY <1>3
  <2>5. analyses' \in Seq(AnalysisFrame) /\ abandoned' \subseteq Function
    BY <1>3, <2>2
  <2>6. PendingSeen(captureEnvironment', analyses', abandoned')
    BY <1>3, <2>2, <2>3 DEF PendingSeen
  <2> QED
    BY <1>3, <2>3, <2>4, <2>5, <2>6
<1> QED
  BY <1>1, <1>2, <1>3 DEF ensureAnalysis

-----------------------------------------------------------------------------
LEMMA LazyInit == LInit => LazyInvariant
<1> SUFFICES ASSUME LInit PROVE LazyInvariant
  OBVIOUS
<1>1. /\ captureEnvironment = [f \in Function |-> "NULL"]
      /\ firstEntry = NoFunction /\ lastEntry = NoFunction
      /\ nextEntry = [f \in Function |-> NoFunction]
      /\ analyses = <<>> /\ abandoned = {}
  BY DEF LInit
<1>2. LazyTypeOK
  BY <1>1 DEF LazyTypeOK
<1>3. Chain(firstEntry, lastEntry, nextEntry)
  BY <1>1 DEF Chain, Entry
<1>4. \A f \in Function : captureEnvironment[f] = "NULL"
  BY <1>1
<1>5. Lambda \subseteq Function
  BY DEF Function
<1> QED
  BY <1>2, <1>3, <1>4, <1>5 DEF LazyInvariant, PendingSeen

\* The analysis of a function that is called, or that a drain has taken.
LEMMA ApplyStep ==
  ASSUME LazyInvariant, NEW f \in Function, apply(f)
  PROVE  LazyInvariant'
<1>1. /\ ensureAnalysis(f, Counted)
      /\ firstEntry' = firstEntry /\ lastEntry' = lastEntry /\ nextEntry' = nextEntry
  BY DEF apply, qvars
<1>2. LazyTypeOK /\ PendingSeen(captureEnvironment, analyses, abandoned)
  BY DEF LazyInvariant
<1>3. Counted \in Seq(AnalysisFrame) /\ PendingSeen(captureEnvironment, Counted, abandoned)
  BY <1>2, CountedFrames DEF LazyTypeOK, PendingSeen
<1>4. /\ captureEnvironment' \in [Function -> {"NULL", "ENVIRONMENT", "PENDING"}]
      /\ analyses' \in Seq(AnalysisFrame) /\ abandoned' \subseteq Function
      /\ PendingSeen(captureEnvironment', analyses', abandoned')
      /\ \A g \in Function : captureEnvironment'[g] = "ENVIRONMENT" =>
           captureEnvironment[g] = "ENVIRONMENT" /\ g # f
  BY <1>1, <1>2, <1>3, EnsuredAnalysis DEF LazyTypeOK
<1>5. Lambda \subseteq Function
  BY DEF Function
<1>6. \A g \in Lambda : captureEnvironment'[g] = "ENVIRONMENT" =>
        g \in Led(firstEntry', nextEntry')
  BY <1>1, <1>4, <1>5 DEF LazyInvariant
<1>7. Chain(firstEntry', lastEntry', nextEntry')
  BY <1>1 DEF LazyInvariant
<1> QED
  BY <1>4, <1>6, <1>7 DEF LazyInvariant, LazyTypeOK

LEMMA DrainStepStep ==
  ASSUME LazyInvariant, DrainStep
  PROVE  LazyInvariant'
<1>1. /\ LazyTypeOK /\ PendingSeen(captureEnvironment, analyses, abandoned)
      /\ Chain(firstEntry, lastEntry, nextEntry)
      /\ \A f \in Lambda : captureEnvironment[f] = "ENVIRONMENT"
                             => f \in Led(firstEntry, nextEntry)
  BY DEF LazyInvariant
<1>2. Lambda \subseteq Function
  BY DEF Function
<1>3. CASE firstEntry # NoFunction /\ dequeue /\ ensureAnalysis(firstEntry, analyses)
  <2>1. firstEntry \in Function
    BY <1>1, <1>3 DEF Chain, Entry
  <2>2. /\ captureEnvironment' \in [Function -> {"NULL", "ENVIRONMENT", "PENDING"}]
        /\ analyses' \in Seq(AnalysisFrame) /\ abandoned' \subseteq Function
        /\ PendingSeen(captureEnvironment', analyses', abandoned')
        /\ \A g \in Function : captureEnvironment'[g] = "ENVIRONMENT" =>
             captureEnvironment[g] = "ENVIRONMENT" /\ g # firstEntry
    BY <2>1, <1>1, <1>3, EnsuredAnalysis DEF LazyTypeOK
  <2>3. Leaves(firstEntry, lastEntry, nextEntry, firstEntry', lastEntry', nextEntry')
    BY <1>3 DEF dequeue, Leaves
  <2>4. /\ Chain(firstEntry', lastEntry', nextEntry')
        /\ Led(firstEntry', nextEntry') = Led(firstEntry, nextEntry) \ {firstEntry}
    BY <2>3, <1>1, <1>3, Dequeued
  <2>5. \A g \in Lambda : captureEnvironment'[g] = "ENVIRONMENT" =>
          g \in Led(firstEntry', nextEntry')
    BY <2>2, <2>4, <1>1, <1>2
  <2> QED
    BY <2>2, <2>4, <2>5 DEF LazyInvariant, LazyTypeOK
<1>4. CASE /\ analyses # <<>> /\ Last(analyses).kind = "drain"
           /\ analyses' = Front(analyses)
           /\ UNCHANGED <<captureEnvironment, qvars, abandoned>>
  <2> DEFINE n == Len(analyses)
  <2>1. /\ analyses \in Seq(AnalysisFrame) /\ n \in Nat \ {0} /\ DOMAIN analyses = 1 .. n
        /\ n - 1 \in 0 .. n
    BY <1>1, <1>4 DEF LazyTypeOK
  <2>2. analyses' = SubSeq(analyses, 1, n - 1)
    BY <1>4 DEF Front
  <2>3. /\ analyses' \in Seq(AnalysisFrame) /\ DOMAIN analyses' = 1 .. n - 1
        /\ \A i \in 1 .. n - 1 : analyses'[i] = analyses[i]
    BY <2>1, <2>2, PrefixOfFrames
  <2>4. analyses[n] \in AnalysisFrame /\ analyses[n].function = NoFunction
    BY <2>1, <1>4 DEF AnalysisFrame, Last
  <2>5. FunctionsOf(analyses) \subseteq FunctionsOf(analyses') \cup {NoFunction}
    <3>1. \A i \in DOMAIN analyses : i = n \/ i \in 1 .. n - 1
      BY <2>1
    <3> QED
      BY <3>1, <2>3, <2>4 DEF FunctionsOf
  <2>6. PendingSeen(captureEnvironment', analyses', abandoned')
    BY <2>5, <1>1, <1>4, FunctionAssumption DEF PendingSeen, Function
  <2> QED
    BY <2>3, <2>6, <1>1, <1>4 DEF LazyInvariant, LazyTypeOK, qvars
<1> QED
  BY <1>3, <1>4 DEF DrainStep

\* An analysis that ends leaves its function without an environment.
LEMMA AnalysisEndsStep ==
  ASSUME LazyInvariant, AnalysisEnds
  PROVE  LazyInvariant'
<1> DEFINE n == Len(analyses)
           f == Last(analyses).function
<1>1. /\ LazyTypeOK /\ PendingSeen(captureEnvironment, analyses, abandoned)
      /\ Chain(firstEntry, lastEntry, nextEntry)
      /\ \A g \in Lambda : captureEnvironment[g] = "ENVIRONMENT"
                             => g \in Led(firstEntry, nextEntry)
  BY DEF LazyInvariant
<1>2. /\ analyses # <<>> /\ analyses' = Front(analyses) /\ abandoned' = abandoned
      /\ firstEntry' = firstEntry /\ lastEntry' = lastEntry /\ nextEntry' = nextEntry
      /\ captureEnvironment' = IF f = NoFunction THEN captureEnvironment
                               ELSE [captureEnvironment EXCEPT ![f] = "NULL"]
  BY DEF AnalysisEnds, qvars
<1>3. /\ analyses \in Seq(AnalysisFrame) /\ n \in Nat \ {0} /\ DOMAIN analyses = 1 .. n
      /\ n - 1 \in 0 .. n
  BY <1>1, <1>2 DEF LazyTypeOK
<1>4. analyses' = SubSeq(analyses, 1, n - 1)
  BY <1>2 DEF Front
<1>5. /\ analyses' \in Seq(AnalysisFrame) /\ DOMAIN analyses' = 1 .. n - 1
      /\ \A i \in 1 .. n - 1 : analyses'[i] = analyses[i]
  BY <1>3, <1>4, PrefixOfFrames
<1>6. f = analyses[n].function
  BY DEF Last
<1>7. FunctionsOf(analyses) \subseteq FunctionsOf(analyses') \cup {f}
  <2>1. \A i \in DOMAIN analyses : i = n \/ i \in 1 .. n - 1
    BY <1>3
  <2> QED
    BY <2>1, <1>5, <1>6 DEF FunctionsOf
<1> HIDE DEF f, n
<1>8. /\ captureEnvironment' \in [Function -> {"NULL", "ENVIRONMENT", "PENDING"}]
      /\ \A g \in Function : captureEnvironment'[g] # "NULL" =>
           captureEnvironment'[g] = captureEnvironment[g] /\ g # f
  <2>1. captureEnvironment \in [Function -> {"NULL", "ENVIRONMENT", "PENDING"}]
    BY <1>1 DEF LazyTypeOK
  <2>2. \A g \in Function : g # NoFunction
    BY FunctionAssumption DEF Function
  <2> QED
    BY <2>1, <2>2, <1>2
<1>9. PendingSeen(captureEnvironment', analyses', abandoned')
  BY <1>1, <1>2, <1>7, <1>8 DEF PendingSeen
<1>10. Lambda \subseteq Function
  BY DEF Function
<1>11. \A g \in Lambda : captureEnvironment'[g] = "ENVIRONMENT" =>
         g \in Led(firstEntry', nextEntry')
  BY <1>1, <1>2, <1>8, <1>10
<1> QED
  BY <1>1, <1>2, <1>5, <1>8, <1>9, <1>11 DEF LazyInvariant, LazyTypeOK

\* A lambda gets its environment and its entry together.
LEMMA LazyLambdaStep ==
  ASSUME LazyInvariant, NEW f \in Lambda, LazyLambda(f)
  PROVE  LazyInvariant'
<1>1. /\ LazyTypeOK /\ PendingSeen(captureEnvironment, analyses, abandoned)
      /\ Chain(firstEntry, lastEntry, nextEntry)
      /\ \A g \in Lambda : captureEnvironment[g] = "ENVIRONMENT"
                             => g \in Led(firstEntry, nextEntry)
  BY DEF LazyInvariant
<1>2. /\ f \notin Queued
      /\ captureEnvironment' = [captureEnvironment EXCEPT ![f] = "ENVIRONMENT"]
      /\ abandoned' = abandoned \ {f} /\ analyses' = Counted
      /\ firstEntry' = IF lastEntry = NoFunction THEN f ELSE firstEntry
      /\ lastEntry' = f
      /\ nextEntry' = [g \in Function |-> IF g = f THEN NoFunction
                                          ELSE IF g = lastEntry THEN f ELSE nextEntry[g]]
  BY DEF LazyLambda, Free, enqueueProgramEntity
<1>3. f \in Function /\ Lambda \subseteq Function
  BY DEF Function
<1>4. f \notin Led(firstEntry, nextEntry)
  BY <1>2, QueuedIsLed
<1>5. /\ Chain(firstEntry', lastEntry', nextEntry')
      /\ Led(firstEntry', nextEntry') = Led(firstEntry, nextEntry) \cup {f}
  BY <1>1, <1>2, <1>3, <1>4, Enqueued
<1>6. analyses' \in Seq(AnalysisFrame) /\ FunctionsOf(analyses') = FunctionsOf(analyses)
  BY <1>1, <1>2, CountedFrames DEF LazyTypeOK
<1>7. /\ captureEnvironment' \in [Function -> {"NULL", "ENVIRONMENT", "PENDING"}]
      /\ \A g \in Function : captureEnvironment'[g] =
           IF g = f THEN "ENVIRONMENT" ELSE captureEnvironment[g]
  BY <1>1, <1>2 DEF LazyTypeOK
<1>8. LazyTypeOK'
  BY <1>1, <1>2, <1>6, <1>7 DEF LazyTypeOK
<1>9. PendingSeen(captureEnvironment', analyses', abandoned')
  BY <1>1, <1>2, <1>6, <1>7 DEF PendingSeen
<1>10. \A g \in Lambda : captureEnvironment'[g] = "ENVIRONMENT" =>
         g \in Led(firstEntry', nextEntry')
  BY <1>1, <1>3, <1>5, <1>7
<1> QED
  BY <1>5, <1>8, <1>9, <1>10 DEF LazyInvariant

\* A primitive that adopts a definition is not one of the lambdas.
LEMMA AdoptStep ==
  ASSUME LazyInvariant, NEW p \in Primitive, NEW f \in Lambda, adoptDefinitionOf(p, f)
  PROVE  LazyInvariant'
<1>1. /\ LazyTypeOK /\ PendingSeen(captureEnvironment, analyses, abandoned)
      /\ Chain(firstEntry, lastEntry, nextEntry)
      /\ \A g \in Lambda : captureEnvironment[g] = "ENVIRONMENT"
                             => g \in Led(firstEntry, nextEntry)
  BY DEF LazyInvariant
<1>2. /\ captureEnvironment[f] # "PENDING"
      /\ captureEnvironment' = [captureEnvironment EXCEPT ![p] = captureEnvironment[f]]
      /\ analyses' = Counted /\ abandoned' = abandoned
      /\ firstEntry' = firstEntry /\ lastEntry' = lastEntry /\ nextEntry' = nextEntry
  BY DEF adoptDefinitionOf, qvars
<1>3. f \in Function /\ p \in Function /\ Lambda \subseteq Function /\ p \notin Lambda
  BY FunctionAssumption DEF Function
<1>4. analyses' \in Seq(AnalysisFrame) /\ FunctionsOf(analyses') = FunctionsOf(analyses)
  BY <1>1, <1>2, CountedFrames DEF LazyTypeOK
<1>5. /\ captureEnvironment' \in [Function -> {"NULL", "ENVIRONMENT", "PENDING"}]
      /\ \A g \in Function : captureEnvironment'[g] =
           IF g = p THEN captureEnvironment[f] ELSE captureEnvironment[g]
  BY <1>1, <1>2, <1>3 DEF LazyTypeOK
<1>6. LazyTypeOK'
  BY <1>1, <1>2, <1>4, <1>5 DEF LazyTypeOK
<1>7. PendingSeen(captureEnvironment', analyses', abandoned')
  BY <1>1, <1>2, <1>4, <1>5 DEF PendingSeen
<1>8. \A g \in Lambda : captureEnvironment'[g] = "ENVIRONMENT" =>
        g \in Led(firstEntry', nextEntry')
  BY <1>1, <1>2, <1>3, <1>5
<1> QED
  BY <1>1, <1>2, <1>6, <1>7, <1>8 DEF LazyInvariant

\* Frames may come on top, and the frames that are there count what they do.
LEMMA FramesStep ==
  ASSUME LazyInvariant, analyses' \in Seq(AnalysisFrame), abandoned' \subseteq Function,
         \A g \in FunctionsOf(analyses) \cup abandoned :
           g # NoFunction => g \in FunctionsOf(analyses') \cup abandoned',
         captureEnvironment' = captureEnvironment, UNCHANGED qvars
  PROVE  LazyInvariant'
<1>1. \A g \in Function : g # NoFunction
  BY FunctionAssumption DEF Function
<1>2. PendingSeen(captureEnvironment', analyses', abandoned')
  BY <1>1 DEF LazyInvariant, PendingSeen
<1> QED
  BY <1>2 DEF LazyInvariant, LazyTypeOK, qvars

LEMMA LazyStep ==
  ASSUME LazyInvariant, [LNext]_lvars
  PROVE  LazyInvariant'
<1>1. LazyTypeOK /\ analyses \in Seq(AnalysisFrame) /\ abandoned \subseteq Function
  BY DEF LazyInvariant, LazyTypeOK
<1>2. Counted \in Seq(AnalysisFrame) /\ FunctionsOf(Counted) = FunctionsOf(analyses)
  BY <1>1, CountedFrames
<1>3. Analysis(NoFunction) \in AnalysisFrame /\ DrainFrame \in AnalysisFrame
  BY DEF Analysis, DrainFrame, AnalysisFrame, Entry
<1>4. CASE EagerLambda
  <2>1. /\ analyses' = Append(Counted, Analysis(NoFunction)) /\ abandoned' = abandoned
        /\ captureEnvironment' = captureEnvironment /\ UNCHANGED qvars
    BY <1>4 DEF EagerLambda
  <2>2. /\ analyses' \in Seq(AnalysisFrame)
        /\ FunctionsOf(analyses) \subseteq FunctionsOf(analyses')
    BY <2>1, <1>2, <1>3, AppendedFrame
  <2> QED
    BY <2>1, <2>2, <1>1, FramesStep
<1>5. CASE waitPendingAnalysis
  <2>1. /\ analyses' = Append(Counted, DrainFrame) /\ abandoned' = abandoned
        /\ captureEnvironment' = captureEnvironment /\ UNCHANGED qvars
    BY <1>5 DEF waitPendingAnalysis
  <2>2. /\ analyses' \in Seq(AnalysisFrame)
        /\ FunctionsOf(analyses) \subseteq FunctionsOf(analyses')
    BY <2>1, <1>2, <1>3, AppendedFrame
  <2> QED
    BY <2>1, <2>2, <1>1, FramesStep
<1>6. CASE AnalysisSignals
  <2>1. /\ RaiseFrom(analyses)
        /\ captureEnvironment' = captureEnvironment /\ UNCHANGED qvars
    BY <1>6 DEF AnalysisSignals
  <2>2. /\ analyses' \in Seq(AnalysisFrame)
        /\ abandoned' \subseteq Function /\ abandoned \subseteq abandoned'
        /\ \A f \in FunctionsOf(analyses) :
             f # NoFunction => f \in FunctionsOf(analyses') \cup abandoned'
    BY <2>1, <1>1, RaisedFrom
  <2> QED
    BY <2>1, <2>2, FramesStep
<1>7. CASE UNCHANGED lvars
  <2>1. /\ analyses' = analyses /\ abandoned' = abandoned
        /\ captureEnvironment' = captureEnvironment /\ UNCHANGED qvars
    BY <1>7 DEF lvars, qvars
  <2> QED
    BY <2>1, <1>1, FramesStep
<1> QED
  BY <1>4, <1>5, <1>6, <1>7, AnalysisEndsStep, DrainStepStep, LazyLambdaStep, ApplyStep,
     AdoptStep DEF LNext

\* The invariant of the analysis of lambdas: the queue is one chain, a lambda with an
\* environment is on it, and what is pending is being analysed or was left.
THEOREM LazyInvariantHolds == LSpec => []LazyInvariant
<1>1. LazyInvariant /\ [LNext]_lvars => LazyInvariant'
  BY LazyStep
<1> QED
  BY <1>1, LazyInit, PTL DEF LSpec

\* No analysis is forgotten, whatever analyses enqueue, call, drain and raise while the
\* queue is drained, for any number of functions and any nesting.
THEOREM NothingForgottenHolds == LSpec => []NothingForgotten
<1>1. LazyInvariant => NothingForgotten
  <2> SUFFICES ASSUME LazyInvariant PROVE NothingForgotten
    OBVIOUS
  <2>1. BeingAnalyzed = FunctionsOf(analyses)
    BY DEF BeingAnalyzed, FunctionsOf
  <2> QED
    BY <2>1, QueuedIsLed DEF LazyInvariant, PendingSeen, NothingForgotten
<1> QED
  BY <1>1, LazyInvariantHolds, PTL
=============================================================================
