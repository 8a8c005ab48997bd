-------------------------- MODULE MarkSweepProofs ---------------------------
(***************************************************************************)
(* Type correctness of the heap, the safety of its collector and its       *)
(* account, for any number of objects, roots, slots and nested locks; and  *)
(* that the collector implements ReachabilityHeap.                         *)
(*                                                                         *)
(* NoDanglingPointer is not inductive: that the sweep frees nothing still  *)
(* referred to follows from what marking has established, and that from    *)
(* the colour every object has when a cycle starts.  GCInv says what holds *)
(* in each phase.                                                          *)
(***************************************************************************)
EXTENDS MarkSweep, BoundedNumbers, FiniteSetTheorems, TLAPS

Marking == phase \in {"roots", "mark", "weak"}

\* A byte object, and the fields past the last slot, hold no reference.
Padding ==
  \A o \in Object, i \in FieldIndex :
    (i > size[o] \/ (kind[o] = "bytes" /\ i > 0)) => fields[o][i] \notin Object

\* The objects of the heap are those of the list and those still to be swept,
\* each there once.
Listed ==
  /\ \A o \in Object :
       kind[o] # "free" <=> o \in Range(heapList) \cup Range(sweepPosition)
  /\ Range(heapList) \cap Range(sweepPosition) = {}
  /\ IsInjective(heapList) /\ IsInjective(sweepPosition)

\* Outside the sweep, references only lead to objects of the heap.
NoDanglingGraph ==
  phase \in {"mutator", "roots", "mark", "weak"} =>
    /\ sweepPosition = <<>>
    /\ \A r \in Roots : root[r] \in Object => kind[root[r]] # "free"
    /\ \A o \in Object, i \in FieldIndex :
         kind[o] # "free" /\ fields[o][i] \in Object => kind[fields[o][i]] # "free"

AllWhite ==
  phase = "mutator" => \A o \in Object : kind[o] # "free" => color[o] = gcWhiteColor

\* The marking stack and the scanned object are the gray objects.
GrayInv ==
  Marking =>
    /\ \A o \in Object : kind[o] # "free" /\ color[o] = gcGrayColor =>
         o = scanning \/ o \in Range(markingStack)
    /\ \A n \in DOMAIN markingStack :
         /\ color[markingStack[n]] = gcGrayColor
         /\ kind[markingStack[n]] # "free"
         /\ markingStack[n] # scanning
    /\ IsInjective(markingStack)
    /\ scanning # Null => color[scanning] = gcGrayColor /\ kind[scanning] # "free"

IdleMarker ==
  /\ phase # "mark" => scanning = Null
  /\ phase \notin {"roots", "mark"} => markingStack = <<>>

\* Nothing a black object keeps alive is white, and the scan is on its way to
\* make that true of the object it will blacken.
BlackInv ==
  Marking =>
    /\ \A o \in Object : kind[o] # "free" /\ color[o] = gcBlackColor =>
         \A i \in 0 .. LastStrongField(o) :
           fields[o][i] \in Object => color[fields[o][i]] # gcWhiteColor
    /\ scanning # Null =>
         \A i \in 0 .. LastStrongField(scanning) :
           i < cursor /\ fields[scanning][i] \in Object =>
             color[fields[scanning][i]] # gcWhiteColor
    /\ phase = "mark" /\ scanning = Null => cursor = 0

RootInv ==
  Marking =>
    /\ phase = "roots" => cursor > 0
    /\ \A r \in Roots : (phase = "roots" => r < cursor) /\ root[r] \in Object =>
         color[root[r]] # gcWhiteColor

\* From the tombstone pass on, the black objects of the heap refer only to one
\* another, and so do the roots.
SweepInv ==
  phase \in {"sweep", "swap"} =>
    /\ \A r \in Roots : root[r] \in Object =>
         kind[root[r]] # "free" /\ color[root[r]] = gcBlackColor
    /\ \A o \in Object, i \in FieldIndex :
         kind[o] # "free" /\ color[o] = gcBlackColor /\ fields[o][i] \in Object =>
           kind[fields[o][i]] # "free" /\ color[fields[o][i]] = gcBlackColor
    /\ \A n \in DOMAIN heapList : color[heapList[n]] = gcBlackColor
    /\ phase = "swap" => sweepPosition = <<>>

GCInv ==
  /\ TypeOK /\ Padding /\ Listed /\ NoDanglingGraph /\ AllWhite
  /\ GrayInv /\ IdleMarker /\ BlackInv /\ RootInv /\ SweepInv
-----------------------------------------------------------------------------
(***************************************************************************)
(* Type correctness.                                                       *)
(***************************************************************************)
LEMMA LastStrongFieldType ==
  ASSUME TypeOK, NEW o \in Object
  PROVE  LastStrongField(o) \in FieldIndex
BY SizeAssumption DEF TypeOK, LastStrongField, FieldIndex

LEMMA NoFieldsType == NoFields \in [FieldIndex -> Value]
BY ValueAssumption DEF NoFields, Value

LEMMA ValueCases ==
  /\ Null \in Value /\ Null \notin Object
  /\ Tombstone \in Value /\ Tombstone \notin Object
BY ValueAssumption DEF Value

LEMMA InitTypeOK == Init => TypeOK
<1> SUFFICES ASSUME Init PROVE TypeOK
  OBVIOUS
<1> USE ValueCases, NoFieldsType, SizeAssumption DEF Init
<1>1. fields \in [Object -> [FieldIndex -> Value]]
  OBVIOUS
<1>2. size \in [Object -> FieldIndex] /\ declared \in [Object -> FieldIndex]
  BY DEF FieldIndex
<1>3. kind \in [Object -> Kind \cup {"free"}] /\ color \in [Object -> Color]
  BY DEF Kind, Color
<1>4. root \in [Roots -> Value]
  OBVIOUS
<1>5. lockCount \in 0 .. MaxLockDepth
  OBVIOUS
<1>6. <<>> \in Seq(Object)
  OBVIOUS
<1>7. 0 \in Int /\ 1 \in Nat /\ FALSE \in BOOLEAN
  OBVIOUS
<1>8. phase \in {"mutator", "roots", "mark", "weak", "sweep", "swap"}
  OBVIOUS
<1> QED BY <1>1, <1>2, <1>3, <1>4, <1>5, <1>6, <1>7, <1>8 DEF TypeOK

LEMMA AllocateTupleType ==
  ASSUME TypeOK, NEW o \in Object, NEW n \in FieldIndex, AllocateTuple(o, n)
  PROVE  /\ heapList' \in Seq(Object)
         /\ totalSize' \in Int
         /\ color' \in [Object -> Color]
         /\ shouldAttemptToCollect' \in BOOLEAN
<1>1. heapList' \in Seq(Object)
  BY DEF TypeOK, AllocateTuple
<1>2. totalSize' \in Int
  BY SizeAssumption DEF TypeOK, AllocateTuple, AllocationSize, HeaderSize, FieldIndex
<1>3. color' \in [Object -> Color]
  BY DEF TypeOK, AllocateTuple, Color
<1>4. shouldAttemptToCollect' \in BOOLEAN
  BY DEF TypeOK, AllocateTuple, checkForGCThreshold
<1> QED BY <1>1, <1>2, <1>3, <1>4

LEMMA AllocateTypeOK ==
  ASSUME TypeOK, NEW o \in Object, NEW sh \in Shape, NEW type \in Value, NEW r \in Roots,
         Allocate(o, sh, type, r)
  PROVE  TypeOK'
<1>1. sh.kind \in Kind /\ sh.size \in FieldIndex /\ sh.declared \in FieldIndex
  BY ShapeAssumption DEF Kind
<1>2. /\ heapList' \in Seq(Object)
      /\ totalSize' \in Int
      /\ color' \in [Object -> Color]
      /\ shouldAttemptToCollect' \in BOOLEAN
  BY <1>1, AllocateTupleType DEF Allocate
<1>3. fields' \in [Object -> [FieldIndex -> Value]]
  BY NoFieldsType DEF TypeOK, Allocate
<1>4. root' \in [Roots -> Value]
  BY DEF TypeOK, Allocate, Value
<1> QED BY <1>1, <1>2, <1>3, <1>4 DEF TypeOK, Allocate, paletteVars, markVars

LEMMA shallowCopyTypeOK ==
  ASSUME TypeOK, NEW q \in Roots, NEW r \in Roots, NEW o \in Object, shallowCopy(q, o, r)
  PROVE  TypeOK'
<1>1. root[q] \in Object /\ size[root[q]] \in FieldIndex
  BY DEF TypeOK, shallowCopy
<1>2. /\ heapList' \in Seq(Object)
      /\ totalSize' \in Int
      /\ color' \in [Object -> Color]
      /\ shouldAttemptToCollect' \in BOOLEAN
  BY <1>1, AllocateTupleType DEF shallowCopy
<1>3. root' \in [Roots -> Value]
  BY DEF TypeOK, shallowCopy, Value
<1> QED BY <1>1, <1>2, <1>3 DEF TypeOK, shallowCopy, paletteVars, markVars

LEMMA SetRootTypeOK ==
  ASSUME TypeOK, NEW r \in Roots, NEW v \in Value, SetRoot(r, v)
  PROVE  TypeOK'
BY DEF TypeOK, SetRoot, UnchangedByProgram, graphVars, listVars, paletteVars, markVars

LEMMA ProgramTypeOK ==
  ASSUME TypeOK, Program
  PROVE  TypeOK'
<1>1. ASSUME NEW q \in Roots, NEW i \in FieldIndex, NEW v \in Value, StoreField(q, i, v)
      PROVE  TypeOK'
  BY <1>1 DEF TypeOK, StoreField, UnchangedByProgram, listVars, paletteVars, markVars
<1>2. ASSUME NEW q \in Roots, NEW r \in Roots, NEW i \in FieldIndex, LoadField(q, i, r)
      PROVE  TypeOK'
  <2>1. fields[root[q]][i] \in Value
    BY <1>2 DEF TypeOK, LoadField
  <2> QED BY <2>1, <1>2, SetRootTypeOK DEF LoadField
<1>3. ASSUME NEW r \in Roots, ForgetRoot(r)
      PROVE  TypeOK'
  BY <1>3, SetRootTypeOK, ValueCases DEF ForgetRoot
<1>4. ASSUME NEW q \in Roots, markWeakObject(q)
      PROVE  TypeOK'
  BY <1>4 DEF TypeOK, markWeakObject, Kind, UnchangedByProgram, listVars, paletteVars,
     markVars
<1>5. ASSUME NEW r \in Roots, NEW types, FindFirstInstance(types, r)
      PROVE  TypeOK'
  BY <1>5, SetRootTypeOK DEF FindFirstInstance
<1>6. ASSUME NEW q \in Roots, NEW r \in Roots, NEW types, FindNextInstance(q, types, r)
      PROVE  TypeOK'
  BY <1>6, SetRootTypeOK DEF FindNextInstance
<1> QED BY <1>1, <1>2, <1>3, <1>4, <1>5, <1>6, AllocateTypeOK, shallowCopyTypeOK
     DEF Program, firstInstance, firstInstanceWithType, nextInstance,
         nextInstanceWithSameType

LEMMA TriggerTypeOK ==
  ASSUME TypeOK, Trigger
  PROVE  TypeOK'
<1> USE SizeAssumption
    DEF TypeOK, safepoint, UnchangedBySafepoint, graphVars, listVars, paletteVars
<1>1. CASE Safepoint
  BY <1>1 DEF Safepoint
<1>2. CASE collect
  BY <1>2 DEF collect
<1>3. CASE lock
  BY <1>3 DEF lock
<1>4. CASE unlock
  BY <1>4 DEF unlock
<1> QED BY <1>1, <1>2, <1>3, <1>4 DEF Trigger

LEMMA CycleTypeOK ==
  ASSUME TypeOK, performCycle
  PROVE  TypeOK'
<1> USE DEF UnchangedByMarking, graphVars, listVars, triggerVars, paletteVars, markVars
<1>1. ASSUME NEW p \in Value, markPointer(p)
      PROVE  color' \in [Object -> Color] /\ markingStack' \in Seq(Object)
  <2>1. CASE p \in Object /\ color[p] = gcWhiteColor
    <3>1. color' \in [Object -> Color]
      BY <1>1, <2>1 DEF TypeOK, markPointer, gcGrayColor, Color
    <3>2. markingStack' \in Seq(Object)
      <4>1. markingStack' = Append(markingStack, p)
        BY <1>1, <2>1 DEF markPointer
      <4>2. markingStack \in Seq(Object) /\ p \in Object
        BY <2>1 DEF TypeOK
      <4> QED BY <4>1, <4>2
    <3> QED BY <3>1, <3>2
  <2>2. CASE ~(p \in Object /\ color[p] = gcWhiteColor)
    BY <1>1, <2>2 DEF TypeOK, markPointer
  <2> QED BY <2>1, <2>2
<1>2. CASE MarkRoot
  <2>1. color' \in [Object -> Color] /\ markingStack' \in Seq(Object)
    BY <1>1, <1>2 DEF TypeOK, MarkRoot
  <2> QED BY <1>2, <2>1 DEF TypeOK, MarkRoot
<1>3. CASE RootsMarked
  BY <1>3 DEF TypeOK, RootsMarked
<1>4. CASE PopMarkingStack
  BY <1>4 DEF TypeOK, PopMarkingStack
<1>5. CASE MarkField
  <2>1. scanning \in Object /\ cursor \in FieldIndex
    BY <1>5, LastStrongFieldType, SizeAssumption DEF TypeOK, MarkField, FieldIndex
  <2>2. color' \in [Object -> Color] /\ markingStack' \in Seq(Object)
    BY <1>1, <1>5, <2>1 DEF TypeOK, MarkField
  <2> QED BY <1>5, <2>2 DEF TypeOK, MarkField
<1>6. CASE BlackenObject
  BY <1>6, ValueCases DEF TypeOK, BlackenObject, Color
<1>7. CASE MarkingStackEmpty
  BY <1>7 DEF TypeOK, MarkingStackEmpty
<1>8. CASE replaceWeakReferencesWithTombstones
  <2>1. \A o \in Object : FieldsAfterWeakPass(o) \in [FieldIndex -> Value]
    BY ValueCases DEF TypeOK, FieldsAfterWeakPass
  <2> QED BY <1>8, <2>1 DEF TypeOK, replaceWeakReferencesWithTombstones
<1>9. CASE SweepObject
  <2> DEFINE o == Head(sweepPosition)
  <2>1. o \in Object /\ sweepPosition' \in Seq(Object)
    BY <1>9 DEF TypeOK, SweepObject
  <2>2. CASE KeepObject(o)
    BY <1>9, <2>1, <2>2 DEF TypeOK, SweepObject, KeepObject
  <2>3. CASE FreeObject(o)
    <3>1. totalSize' \in Int
      BY <2>1, <2>3, SizeAssumption
         DEF TypeOK, FreeObject, AllocationSize, HeaderSize, FieldIndex
    <3>2. size' \in [Object -> FieldIndex] /\ declared' \in [Object -> FieldIndex]
      BY <2>1, <2>3, SizeAssumption DEF TypeOK, FreeObject, FieldIndex
    <3> QED BY <1>9, <2>1, <2>3, <3>1, <3>2, NoFieldsType
         DEF TypeOK, SweepObject, FreeObject, Kind, Color
  <2> QED BY <1>9, <2>2, <2>3 DEF SweepObject
<1>10. CASE SweepDone
  <2>1. nextGCSizeThreshold' \in Int /\ shouldAttemptToCollect' \in BOOLEAN
    <3> DEFINE liveDataSize == IF totalSize < StartupHeapSize THEN StartupHeapSize ELSE totalSize
    <3>1. liveDataSize \in Int /\ GammaFactor \in Int
      BY SizeAssumption DEF TypeOK
    <3>2. nextGCSizeThreshold' = liveDataSize * GammaFactor
      BY <1>10 DEF SweepDone, computeNextCollectionThreshold
    <3> HIDE DEF liveDataSize
    <3>3. liveDataSize * GammaFactor \in Int
      BY <3>1
    <3> QED BY <1>10, <3>2, <3>3 DEF SweepDone, computeNextCollectionThreshold
  <2> QED BY <1>10, <2>1 DEF TypeOK, SweepDone
<1>11. CASE swapGCColors
  BY <1>11 DEF TypeOK, swapGCColors
<1> QED BY <1>2, <1>3, <1>4, <1>5, <1>6, <1>7, <1>8, <1>9, <1>10, <1>11 DEF performCycle

LEMMA NextTypeOK ==
  ASSUME TypeOK, [Next]_vars
  PROVE  TypeOK'
<1>1. CASE UNCHANGED vars
  BY <1>1 DEF TypeOK, vars, graphVars, listVars, triggerVars, paletteVars, markVars
<1> QED BY <1>1, ProgramTypeOK, TriggerTypeOK, CycleTypeOK DEF Next

\* Every variable stays in its type in every run of the heap, whatever the number
\* of objects, roots, slots and nested locks.
THEOREM TypeCorrect == Spec => []TypeOK
<1>1. TypeOK /\ [Next]_vars => TypeOK'
  BY NextTypeOK
<1> QED BY InitTypeOK, <1>1, PTL DEF Spec

-----------------------------------------------------------------------------
(***************************************************************************)
(* Safety of the collector.                                                *)
(***************************************************************************)
LEMMA ElementsEmpty == Range(<<>>) = {}
BY DEF Range

LEMMA ElementsAppend ==
  ASSUME NEW s \in Seq(Object), NEW o \in Object
  PROVE  /\ Range(Append(s, o)) = Range(s) \cup {o}
         /\ Len(Append(s, o)) = Len(s) + 1
         /\ \A n \in 1 .. Len(s) : Append(s, o)[n] = s[n]
         /\ Append(s, o)[Len(s) + 1] = o
BY DEF Range

LEMMA DistinctAppend ==
  ASSUME NEW s \in Seq(Object), NEW o \in Object, IsInjective(s), o \notin Range(s)
  PROVE  IsInjective(Append(s, o))
<1> SUFFICES ASSUME NEW m \in 1 .. Len(s) + 1, NEW n \in 1 .. Len(s) + 1,
                    Append(s, o)[m] = Append(s, o)[n]
             PROVE  m = n
  BY DEF IsInjective
<1>1. \A i \in 1 .. Len(s) : s[i] # o
  BY DEF Range
<1>2. \A i, j \in 1 .. Len(s) : s[i] = s[j] => i = j
  BY DEF IsInjective
<1> QED BY <1>1, <1>2, ElementsAppend

LEMMA ElementsHeadTail ==
  ASSUME NEW s \in Seq(Object), s # <<>>
  PROVE  Range(s) = {Head(s)} \cup Range(Tail(s))
<1>1. ASSUME NEW n \in 1 .. Len(s)
      PROVE  s[n] \in {Head(s)} \cup Range(Tail(s))
  <2>1. CASE n = 1
    BY <2>1
  <2>2. CASE n > 1
    <3>1. n - 1 \in 1 .. Len(Tail(s)) /\ Tail(s)[n - 1] = s[n]
      BY <2>2
    <3>2. n - 1 \in DOMAIN Tail(s)
      BY <3>1
    <3> QED BY <3>1, <3>2 DEF Range
  <2> QED BY <2>1, <2>2
<1>2. ASSUME NEW n \in 1 .. Len(Tail(s))
      PROVE  Tail(s)[n] \in Range(s)
  <2>1. n + 1 \in DOMAIN s /\ Tail(s)[n] = s[n + 1]
    OBVIOUS
  <2> QED BY <2>1 DEF Range
<1>3. Head(s) \in Range(s)
  <2>1. 1 \in DOMAIN s /\ Head(s) = s[1]
    OBVIOUS
  <2> QED BY <2>1 DEF Range
<1> QED BY <1>1, <1>2, <1>3 DEF Range

LEMMA DistinctTail ==
  ASSUME NEW s \in Seq(Object), s # <<>>, IsInjective(s)
  PROVE  IsInjective(Tail(s)) /\ Head(s) \notin Range(Tail(s))
<1>1. \A n \in 1 .. Len(Tail(s)) : n + 1 \in 1 .. Len(s) /\ Tail(s)[n] = s[n + 1]
  OBVIOUS
<1>2. \A i, j \in 1 .. Len(s) : s[i] = s[j] => i = j
  BY DEF IsInjective
<1>3. IsInjective(Tail(s))
  BY <1>1, <1>2 DEF IsInjective
<1>4. Head(s) = s[1] /\ 1 \in 1 .. Len(s)
  OBVIOUS
<1>5. \A n \in 1 .. Len(Tail(s)) : Tail(s)[n] # Head(s)
  BY <1>1, <1>2, <1>4
<1> QED BY <1>3, <1>5 DEF Range

LEMMA InitGCInv == Init => GCInv
<1> SUFFICES ASSUME Init PROVE GCInv
  OBVIOUS
<1>1. TypeOK
  BY InitTypeOK
<1>2. Padding
  BY ValueCases DEF Init, Padding, NoFields
<1>3. Listed
  BY ElementsEmpty DEF Init, Listed, IsInjective
<1> QED BY <1>1, <1>2, <1>3, ValueCases
     DEF Init, GCInv, IsInjective, NoDanglingGraph, AllWhite, GrayInv, IdleMarker, BlackInv,
         RootInv, SweepInv, Marking

\* What the program has to preserve: it runs in phase "mutator" only, where the
\* parts of GCInv about the cycle say nothing.
ProgramInv == Padding /\ Listed /\ NoDanglingGraph /\ AllWhite

LEMMA ProgramKeepsCycleParts ==
  ASSUME GCInv, phase = "mutator", phase' = "mutator",
         UNCHANGED <<markingStack, scanning>>
  PROVE  GrayInv' /\ IdleMarker' /\ BlackInv' /\ RootInv' /\ SweepInv'
BY DEF GCInv, GrayInv, IdleMarker, BlackInv, RootInv, SweepInv, Marking

\* A new object, white, at the end of the list, that refers to what exists.
LEMMA NewObject ==
  ASSUME GCInv, phase = "mutator", phase' = "mutator", sweepPosition' = sweepPosition,
         NEW o \in Object, NEW n \in FieldIndex, NEW r \in Roots, NEW k \in Kind,
         NEW f \in [FieldIndex -> Value],
         AllocateTuple(o, n), gcWhiteColor' = gcWhiteColor,
         kind' = [kind EXCEPT ![o] = k],
         size' = [size EXCEPT ![o] = n],
         fields' = [fields EXCEPT ![o] = f],
         root' = [root EXCEPT ![r] = o],
         \A i \in FieldIndex : f[i] \in Object => kind[f[i]] # "free",
         \A i \in FieldIndex : (i > n \/ (k = "bytes" /\ i > 0)) => f[i] \notin Object
  PROVE  ProgramInv'
<1> USE DEF GCInv, TypeOK
<1>0. k # "free"
  BY DEF Kind
<1>1. Padding'
  BY DEF Padding
<1>2. Listed'
  <2>1. Range(heapList') = Range(heapList) \cup {o}
    BY ElementsAppend DEF AllocateTuple
  <2>2. o \notin Range(heapList) \cup Range(sweepPosition)
    BY DEF Listed, AllocateTuple
  <2>3. IsInjective(heapList')
    BY <2>2, DistinctAppend DEF Listed, AllocateTuple
  <2>4. \A p \in Object : kind'[p] # "free" <=> kind[p] # "free" \/ p = o
    BY <1>0
  <2> QED BY <2>1, <2>2, <2>3, <2>4 DEF Listed
<1>3. NoDanglingGraph'
  BY <1>0 DEF NoDanglingGraph
<1>4. AllWhite'
  BY DEF AllWhite, AllocateTuple
<1> QED BY <1>1, <1>2, <1>3, <1>4 DEF ProgramInv

LEMMA AllocateSafe ==
  ASSUME GCInv, NEW o \in Object, NEW sh \in Shape, NEW type \in Value, NEW r \in Roots,
         Allocate(o, sh, type, r)
  PROVE  ProgramInv'
<1> DEFINE f == [NoFields EXCEPT ![0] = type]
<1>1. sh.kind \in Kind /\ sh.size \in FieldIndex
  BY ShapeAssumption DEF Kind
<1>2. f \in [FieldIndex -> Value]
  BY NoFieldsType
<1>3. phase = "mutator" /\ (type \in Object => kind[type] # "free")
  BY ValueCases DEF Allocate, GCInv, NoDanglingGraph
<1>4. \A i \in FieldIndex : i # 0 => f[i] \notin Object
  BY ValueCases DEF NoFields
<1>5. f[0] = type
  BY SizeAssumption DEF NoFields, FieldIndex
<1>6. \A i \in FieldIndex : f[i] \in Object => kind[f[i]] # "free"
  BY <1>3, <1>4, <1>5
<1>7. \A i \in FieldIndex :
        (i > sh.size \/ (sh.kind = "bytes" /\ i > 0)) => f[i] \notin Object
  BY <1>1, <1>4, SizeAssumption DEF FieldIndex
<1> HIDE DEF f
<1>8. /\ kind' = [kind EXCEPT ![o] = sh.kind] /\ size' = [size EXCEPT ![o] = sh.size]
      /\ fields' = [fields EXCEPT ![o] = f] /\ root' = [root EXCEPT ![r] = o]
      /\ AllocateTuple(o, sh.size) /\ gcWhiteColor' = gcWhiteColor
      /\ phase' = "mutator" /\ sweepPosition' = sweepPosition
  BY <1>3 DEF Allocate, paletteVars, f
<1> QED BY <1>1, <1>2, <1>3, <1>6, <1>7, <1>8, NewObject

LEMMA shallowCopySafe ==
  ASSUME GCInv, NEW q \in Roots, NEW o \in Object, NEW r \in Roots, shallowCopy(q, o, r)
  PROVE  ProgramInv'
<1> DEFINE c == root[q]
<1>1. c \in Object /\ kind[c] # "free" /\ phase = "mutator"
  BY DEF shallowCopy, GCInv, NoDanglingGraph
<1>2. kind[c] \in Kind /\ size[c] \in FieldIndex /\ fields[c] \in [FieldIndex -> Value]
  BY <1>1 DEF GCInv, TypeOK
<1>3. \A i \in FieldIndex : fields[c][i] \in Object => kind[fields[c][i]] # "free"
  BY <1>1 DEF GCInv, NoDanglingGraph
<1>4. \A i \in FieldIndex :
        (i > size[c] \/ (kind[c] = "bytes" /\ i > 0)) => fields[c][i] \notin Object
  BY <1>1 DEF GCInv, Padding
<1>5. /\ kind' = [kind EXCEPT ![o] = kind[c]] /\ size' = [size EXCEPT ![o] = size[c]]
      /\ fields' = [fields EXCEPT ![o] = fields[c]] /\ root' = [root EXCEPT ![r] = o]
      /\ AllocateTuple(o, size[c]) /\ gcWhiteColor' = gcWhiteColor
      /\ phase' = "mutator" /\ sweepPosition' = sweepPosition
  BY <1>1 DEF shallowCopy, paletteVars
<1> HIDE DEF c
<1> QED BY <1>1, <1>2, <1>3, <1>4, <1>5, NewObject

LEMMA StoreFieldSafe ==
  ASSUME GCInv, NEW q \in Roots, NEW i \in FieldIndex, NEW v \in Value,
         StoreField(q, i, v)
  PROVE  ProgramInv'
<1> USE DEF GCInv, TypeOK, StoreField, UnchangedByProgram, listVars, paletteVars
<1>1. v \in Object => kind[v] # "free"
  BY ValueCases DEF NoDanglingGraph
<1>2. Padding'
  <2> SUFFICES ASSUME NEW o \in Object, NEW j \in FieldIndex,
                      j > size[o] \/ (kind[o] = "bytes" /\ j > 0)
               PROVE  fields'[o][j] \notin Object
    BY DEF Padding
  <2>1. fields[o][j] \notin Object
    BY DEF Padding
  <2>2. ~(o = root[q] /\ j = i)
    BY SizeAssumption DEF FieldIndex
  <2> QED BY <2>1, <2>2
<1>3. NoDanglingGraph'
  BY <1>1 DEF NoDanglingGraph
<1>4. Listed' /\ AllWhite'
  BY DEF Listed, AllWhite
<1> QED BY <1>2, <1>3, <1>4 DEF ProgramInv

LEMMA ListedAllocated ==
  ASSUME Listed, NEW v \in Object, v \in Range(heapList)
  PROVE  kind[v] # "free"
BY DEF Listed

LEMMA SetRootSafe ==
  ASSUME GCInv, NEW r \in Roots, NEW v \in Value, SetRoot(r, v),
         v \in Object => kind[v] # "free"
  PROVE  ProgramInv'
BY DEF GCInv, TypeOK, SetRoot, UnchangedByProgram, listVars, paletteVars, graphVars,
   ProgramInv, Padding, Listed, NoDanglingGraph, AllWhite

LEMMA markWeakObjectSafe ==
  ASSUME GCInv, NEW q \in Roots, markWeakObject(q)
  PROVE  ProgramInv'
BY DEF GCInv, TypeOK, markWeakObject, UnchangedByProgram, listVars, paletteVars,
   ProgramInv, Padding, Listed, NoDanglingGraph, AllWhite

LEMMA RootSafe ==
  ASSUME GCInv, phase = "mutator", NEW q \in Roots, root[q] \in Object
  PROVE  kind[root[q]] # "free"
BY DEF GCInv, NoDanglingGraph

LEMMA InstanceSafe ==
  ASSUME GCInv, NEW n \in Nat \ {0}, NEW types, NEW v \in Value, IsInstanceFrom(n, types, v),
         v \in Object
  PROVE  kind[v] # "free"
<1>1. PICK i \in n .. Len(heapList) : v = heapList[i]
  BY ValueCases DEF IsInstanceFrom
<1>2. heapList \in Seq(Object) /\ i \in DOMAIN heapList
  BY DEF GCInv, TypeOK
<1> QED BY <1>1, <1>2, ListedAllocated DEF GCInv, Range

LEMMA ProgramSafe ==
  ASSUME GCInv, Program
  PROVE  GCInv'
<1>1. ProgramInv'
  <2>1. ASSUME NEW q \in Roots, NEW r \in Roots, NEW i \in FieldIndex, LoadField(q, i, r)
        PROVE  ProgramInv'
    <3> DEFINE v == fields[root[q]][i]
    <3>1. root[q] \in Object /\ kind[root[q]] # "free" /\ phase = "mutator"
      BY <2>1, RootSafe DEF LoadField, SetRoot
    <3>2. v \in Value /\ (v \in Object => kind[v] # "free")
      BY <3>1 DEF GCInv, TypeOK, NoDanglingGraph
    <3> QED BY <2>1, <3>2, SetRootSafe DEF LoadField
  <2>2. ASSUME NEW r \in Roots, ForgetRoot(r)
        PROVE  ProgramInv'
    BY <2>2, SetRootSafe, ValueCases DEF ForgetRoot
  <2>3. ASSUME NEW r \in Roots, NEW types, FindFirstInstance(types, r)
        PROVE  ProgramInv'
    BY <2>3, SetRootSafe, InstanceSafe DEF FindFirstInstance
  <2>4. ASSUME NEW q \in Roots, NEW r \in Roots, NEW types, FindNextInstance(q, types, r)
        PROVE  ProgramInv'
    <3>1. PICK n \in DOMAIN heapList, v \in Value :
            IsInstanceFrom(n + 1, types, v) /\ SetRoot(r, v)
      BY <2>4 DEF FindNextInstance
    <3>2. n + 1 \in Nat \ {0}
      BY DEF GCInv, TypeOK
    <3> QED BY <3>1, <3>2, SetRootSafe, InstanceSafe
  <2> QED BY <2>1, <2>2, <2>3, <2>4, AllocateSafe, shallowCopySafe, StoreFieldSafe,
             markWeakObjectSafe
          DEF Program, firstInstance, firstInstanceWithType, nextInstance,
              nextInstanceWithSameType
<1>2. /\ phase = "mutator" /\ phase' = "mutator"
      /\ UNCHANGED <<markingStack, scanning>>
  BY DEF Program, Allocate, shallowCopy, StoreField, LoadField, ForgetRoot, SetRoot,
     markWeakObject, firstInstance, firstInstanceWithType, nextInstance,
     nextInstanceWithSameType, FindFirstInstance, FindNextInstance, UnchangedByProgram,
     markVars
<1>3. TypeOK'
  BY ProgramTypeOK DEF GCInv
<1>4. GrayInv' /\ IdleMarker' /\ BlackInv' /\ RootInv' /\ SweepInv'
  BY <1>2, ProgramKeepsCycleParts
<1> QED BY <1>1, <1>3, <1>4 DEF GCInv, ProgramInv

\* A cycle starts on a heap that is white all over.
LEMMA TriggerSafe ==
  ASSUME GCInv, Trigger
  PROVE  GCInv'
<1>1. TypeOK'
  BY TriggerTypeOK DEF GCInv
<1>2. /\ phase = "mutator"
      /\ phase' = "mutator" \/ (phase' = "roots" /\ cursor' = 1)
      /\ UNCHANGED <<graphVars, color, listVars, paletteVars, root, markingStack, scanning,
                     sweepPosition>>
  BY DEF Trigger, Safepoint, collect, lock, unlock, safepoint, UnchangedBySafepoint
<1> USE <1>2 DEF graphVars, listVars, paletteVars
<1>3. Padding' /\ Listed' /\ NoDanglingGraph' /\ AllWhite'
  BY DEF GCInv, Padding, Listed, NoDanglingGraph, AllWhite
<1>4. markingStack = <<>> /\ scanning = Null
  BY DEF GCInv, IdleMarker
<1>5. \A o \in Object : kind[o] # "free" => color[o] = gcWhiteColor
  BY DEF GCInv, AllWhite
<1>6. gcWhiteColor # gcGrayColor /\ gcWhiteColor # gcBlackColor
  BY DEF GCInv, TypeOK, gcGrayColor
<1>7. GrayInv' /\ IdleMarker' /\ BlackInv'
  BY <1>4, <1>5, <1>6 DEF GrayInv, IdleMarker, BlackInv, IsInjective, gcGrayColor, Marking
<1>8. RootInv' /\ SweepInv'
  BY DEF RootInv, SweepInv, Roots, Marking
<1> QED BY <1>1, <1>3, <1>7, <1>8 DEF GCInv

LEMMA Palette ==
  ASSUME TypeOK
  PROVE  /\ gcWhiteColor # gcGrayColor /\ gcBlackColor # gcGrayColor
         /\ gcWhiteColor # gcBlackColor
         /\ gcWhiteColor \in Color /\ gcBlackColor \in Color
         /\ \A o \in Object : color[o] \in {gcWhiteColor, gcGrayColor, gcBlackColor}
BY DEF TypeOK, gcGrayColor, Color

\* What marking a pointer does: the white become gray and are remembered, and no
\* other colour changes.
LEMMA MarkPointerSafe ==
  ASSUME GCInv, Marking, NEW p \in Value, p \in Object => kind[p] # "free",
         markPointer(p), UNCHANGED <<kind, gcWhiteColor, gcBlackColor, scanning>>,
         Marking'
  PROVE  /\ GrayInv'
         /\ \A o \in Object : color[o] # gcWhiteColor => color'[o] = color[o]
         /\ \A o \in Object : color'[o] = gcBlackColor => color[o] = gcBlackColor
         /\ p \in Object => color'[p] # gcWhiteColor
<1> USE Palette DEF GCInv
<1>1. CASE p \in Object /\ color[p] = gcWhiteColor
  <2>1. color' = [color EXCEPT ![p] = gcGrayColor]
    BY <1>1 DEF markPointer
  <2>2. markingStack' = Append(markingStack, p) /\ markingStack \in Seq(Object)
    BY <1>1 DEF markPointer, TypeOK
  <2>3. \A o \in Object : color'[o] = IF o = p THEN gcGrayColor ELSE color[o]
    BY <2>1 DEF TypeOK
  <2>4. Range(markingStack') = Range(markingStack) \cup {p}
    BY <1>1, <2>2, ElementsAppend
  <2>5. p \notin Range(markingStack) /\ p # scanning
    BY <1>1, ValueCases DEF GrayInv, Range
  <2>6. IsInjective(markingStack')
    BY <1>1, <2>2, <2>5, DistinctAppend DEF GrayInv
  <2>7. \A n \in DOMAIN markingStack' :
          markingStack'[n] = p \/ \E m \in DOMAIN markingStack : markingStack'[n] = markingStack[m]
    BY <1>1, <2>2, ElementsAppend
  <2>8. \A n \in DOMAIN markingStack : markingStack[n] \in Object
    BY <2>2
  <2>9. \A n \in DOMAIN markingStack' :
          /\ color'[markingStack'[n]] = gcGrayColor
          /\ kind'[markingStack'[n]] # "free"
          /\ markingStack'[n] # scanning'
    BY <1>1, <2>3, <2>5, <2>7, <2>8 DEF GrayInv
  <2>10. \A o \in Object : kind'[o] # "free" /\ color'[o] = gcGrayColor =>
           o = scanning' \/ o \in Range(markingStack')
    BY <2>3, <2>4 DEF GrayInv
  <2>11. scanning' # Null => color'[scanning'] = gcGrayColor /\ kind'[scanning'] # "free"
    BY <2>3 DEF GrayInv, TypeOK
  <2>12. GrayInv'
    BY <2>6, <2>9, <2>10, <2>11 DEF GrayInv, gcGrayColor
  <2> QED BY <1>1, <2>3, <2>12
<1>2. CASE ~(p \in Object /\ color[p] = gcWhiteColor)
  <2>1. UNCHANGED <<color, markingStack>>
    BY <1>2 DEF markPointer
  <2> QED BY <1>2, <2>1 DEF GrayInv, gcGrayColor
<1> QED BY <1>1, <1>2

\* The parts of GCInv that no step of marking touches.
LEMMA MarkingKeepsGraph ==
  ASSUME GCInv, Marking, Marking', UNCHANGED UnchangedByMarking
  PROVE  Padding' /\ Listed' /\ NoDanglingGraph' /\ AllWhite' /\ SweepInv'
<1> USE DEF UnchangedByMarking, graphVars, listVars, paletteVars
<1>1. Padding'
  BY DEF GCInv, Padding
<1>2. Listed'
  BY DEF GCInv, Listed, IsInjective, Range
<1>3. NoDanglingGraph'
  BY DEF GCInv, Marking, NoDanglingGraph
<1>4. AllWhite' /\ SweepInv'
  BY DEF Marking, AllWhite, SweepInv
<1> QED BY <1>1, <1>2, <1>3, <1>4

LEMMA UnchangedStrongFields ==
  ASSUME UNCHANGED graphVars, NEW o \in Object
  PROVE  LastStrongField(o)' = LastStrongField(o)
BY DEF LastStrongField, graphVars

LEMMA MarkRootSafe ==
  ASSUME GCInv, MarkRoot
  PROVE  GCInv'
<1>1. TypeOK'
  BY CycleTypeOK DEF GCInv, performCycle
<1>2. Marking /\ Marking' /\ UNCHANGED UnchangedByMarking /\ phase = "roots" /\ phase' = "roots"
      /\ scanning' = scanning
  BY DEF MarkRoot, Marking
<1>3. root[cursor] \in Value /\ (root[cursor] \in Object => kind[root[cursor]] # "free")
  BY DEF MarkRoot, GCInv, TypeOK, NoDanglingGraph
<1>4. /\ GrayInv'
      /\ \A o \in Object : color[o] # gcWhiteColor => color'[o] = color[o]
      /\ \A o \in Object : color'[o] = gcBlackColor => color[o] = gcBlackColor
      /\ root[cursor] \in Object => color'[root[cursor]] # gcWhiteColor
  BY <1>2, <1>3, MarkPointerSafe DEF MarkRoot, UnchangedByMarking, graphVars, paletteVars
<1>5. scanning = Null
  BY <1>2 DEF GCInv, IdleMarker
<1>6. BlackInv'
  BY <1>2, <1>4, <1>5, UnchangedStrongFields
     DEF BlackInv, GCInv, UnchangedByMarking, graphVars, paletteVars
<1>7. RootInv'
  <2> SUFFICES ASSUME NEW r \in Roots, r < cursor', root[r] \in Object
               PROVE  color'[root[r]] # gcWhiteColor
    <3>1. cursor' > 0
      BY DEF MarkRoot, GCInv, TypeOK
    <3> QED BY <1>2, <3>1 DEF RootInv, UnchangedByMarking, graphVars, paletteVars
  <2>1. r < cursor \/ r = cursor
    BY DEF MarkRoot, Roots, GCInv, TypeOK
  <2>2. CASE r < cursor
    <3>1. color[root[r]] # gcWhiteColor
      BY <1>2, <2>2 DEF GCInv, RootInv
    <3> QED BY <3>1, <1>4
  <2> QED BY <2>1, <2>2, <1>4
<1>8. IdleMarker'
  BY <1>2 DEF GCInv, IdleMarker
<1> QED BY <1>1, <1>2, <1>4, <1>6, <1>7, <1>8, MarkingKeepsGraph DEF GCInv

LEMMA MarkFieldSafe ==
  ASSUME GCInv, MarkField
  PROVE  GCInv'
<1>1. TypeOK'
  BY CycleTypeOK DEF GCInv, performCycle
<1>2. Marking /\ Marking' /\ UNCHANGED UnchangedByMarking /\ phase = "mark" /\ phase' = "mark"
      /\ scanning' = scanning
  BY DEF MarkField, Marking
<1> DEFINE p == fields[scanning][cursor]
<1>3. scanning \in Object /\ kind[scanning] # "free" /\ cursor \in FieldIndex
  BY <1>2, LastStrongFieldType, SizeAssumption
     DEF MarkField, GCInv, TypeOK, GrayInv, FieldIndex
<1>4. p \in Value /\ (p \in Object => kind[p] # "free")
  BY <1>2, <1>3 DEF GCInv, TypeOK, NoDanglingGraph
<1>5. /\ GrayInv'
      /\ \A o \in Object : color[o] # gcWhiteColor => color'[o] = color[o]
      /\ \A o \in Object : color'[o] = gcBlackColor => color[o] = gcBlackColor
      /\ p \in Object => color'[p] # gcWhiteColor
  BY <1>2, <1>4, MarkPointerSafe DEF MarkField, UnchangedByMarking, graphVars, paletteVars
<1>6. BlackInv'
  <2>1. ASSUME NEW o \in Object, kind[o] # "free", color'[o] = gcBlackColor,
               NEW i \in 0 .. LastStrongField(o), fields[o][i] \in Object
        PROVE  color'[fields[o][i]] # gcWhiteColor
    <3>1. color[o] = gcBlackColor
      BY <1>5, <2>1
    <3>2. color[fields[o][i]] # gcWhiteColor
      BY <1>2, <2>1, <3>1 DEF GCInv, BlackInv
    <3> QED BY <2>1, <3>2, <1>5
  <2>2. ASSUME NEW i \in 0 .. LastStrongField(scanning), i < cursor',
               fields[scanning][i] \in Object
        PROVE  color'[fields[scanning][i]] # gcWhiteColor
    <3>1. i < cursor \/ i = cursor
      BY <1>3, <2>2, SizeAssumption DEF MarkField, FieldIndex
    <3>2. CASE i < cursor
      <4>1. color[fields[scanning][i]] # gcWhiteColor
        BY <1>2, <1>3, <2>2, <3>2, ValueCases DEF GCInv, BlackInv
      <4> QED BY <2>2, <4>1, <1>5
    <3> QED BY <2>2, <3>1, <3>2, <1>5
  <2>3. UNCHANGED graphVars /\ gcWhiteColor' = gcWhiteColor /\ gcBlackColor' = gcBlackColor
    BY <1>2 DEF UnchangedByMarking, paletteVars
  <2>4. \A o \in Object : LastStrongField(o)' = LastStrongField(o)
    BY <2>3, UnchangedStrongFields
  <2>5. scanning' # Null
    BY <1>2, <1>3, ValueCases
  <2> QED BY <1>2, <1>3, <2>1, <2>2, <2>3, <2>4, <2>5 DEF BlackInv, graphVars
<1>7. RootInv'
  BY <1>2, <1>5 DEF GCInv, TypeOK, RootInv, UnchangedByMarking, paletteVars
<1>8. IdleMarker'
  BY <1>2 DEF GCInv, IdleMarker
<1> QED BY <1>1, <1>2, <1>5, <1>6, <1>7, <1>8, MarkingKeepsGraph DEF GCInv

LEMMA RootsMarkedSafe ==
  ASSUME GCInv, RootsMarked
  PROVE  GCInv'
<1>1. TypeOK'
  BY CycleTypeOK DEF GCInv, performCycle
<1>2. Marking /\ Marking' /\ UNCHANGED UnchangedByMarking /\ phase = "roots" /\ phase' = "mark"
      /\ UNCHANGED <<color, scanning, markingStack>>
  BY DEF RootsMarked, Marking
<1>3. scanning = Null
  BY <1>2 DEF GCInv, IdleMarker
<1>4. \A o \in Object : LastStrongField(o)' = LastStrongField(o)
  BY <1>2, UnchangedStrongFields DEF UnchangedByMarking
<1> USE <1>2 DEF UnchangedByMarking, graphVars, paletteVars
<1>5. GrayInv'
  BY <1>3 DEF GCInv, GrayInv, gcGrayColor, IsInjective, Range
<1>6. BlackInv'
  BY <1>3, <1>4 DEF GCInv, BlackInv, RootsMarked
<1>7. RootInv'
  <2>1. \A r \in Roots : r < cursor
    <3>1. cursor \in Nat /\ cursor \notin 1 .. NRoots /\ NRoots \in Nat
      BY SizeAssumption DEF RootsMarked, GCInv, TypeOK, Roots
    <3>2. cursor > NRoots
      BY <1>2, <3>1 DEF GCInv, RootInv
    <3> QED BY <3>1, <3>2 DEF Roots
  <2> QED BY <2>1 DEF GCInv, RootInv
<1>8. IdleMarker'
  BY <1>3 DEF GCInv, IdleMarker
<1> QED BY <1>1, <1>5, <1>6, <1>7, <1>8, MarkingKeepsGraph DEF GCInv

LEMMA PopMarkingStackSafe ==
  ASSUME GCInv, PopMarkingStack
  PROVE  GCInv'
<1>1. TypeOK'
  BY CycleTypeOK DEF GCInv, performCycle
<1>2. Marking /\ Marking' /\ UNCHANGED UnchangedByMarking /\ phase = "mark" /\ phase' = "mark"
      /\ UNCHANGED <<color, cursor>>
  BY DEF PopMarkingStack, Marking
<1> USE <1>2 DEF UnchangedByMarking, graphVars, paletteVars
<1>3. /\ markingStack \in Seq(Object) /\ Len(markingStack) \in Nat \ {0}
      /\ DOMAIN markingStack = 1 .. Len(markingStack)
  BY DEF PopMarkingStack, GCInv, TypeOK
<1>4. /\ DOMAIN markingStack' = 1 .. Len(markingStack) - 1
      /\ \A n \in 1 .. Len(markingStack) - 1 : markingStack'[n] = markingStack[n]
      /\ scanning' = markingStack[Len(markingStack)] /\ scanning' \in Object
      /\ scanning = Null
  BY <1>3 DEF PopMarkingStack
<1>5. /\ \A n \in DOMAIN markingStack :
           color[markingStack[n]] = gcGrayColor /\ kind[markingStack[n]] # "free"
      /\ IsInjective(markingStack)
  BY DEF GCInv, GrayInv
<1>6. GrayInv'
  <2>1. ASSUME NEW o \in Object, kind[o] # "free", color[o] = gcGrayColor
        PROVE  o = scanning' \/ o \in Range(markingStack')
    <3>1. o \in Range(markingStack)
      BY <1>4, <2>1, ValueCases DEF GCInv, GrayInv
    <3> QED BY <1>3, <1>4, <3>1 DEF Range
  <2>2. \A n \in DOMAIN markingStack' : markingStack'[n] # scanning'
    BY <1>3, <1>4, <1>5 DEF IsInjective
  <2>3. IsInjective(markingStack')
    BY <1>3, <1>4, <1>5 DEF IsInjective
  <2> QED BY <1>3, <1>4, <1>5, <2>1, <2>2, <2>3 DEF GrayInv, gcGrayColor
<1>7. BlackInv'
  <2>1. \A o \in Object : LastStrongField(o)' = LastStrongField(o)
    BY UnchangedStrongFields
  <2>2. cursor' = 0 /\ \A i \in 0 .. LastStrongField(scanning)' : ~(i < cursor')
    BY <1>4 DEF GCInv, BlackInv
  <2> QED BY <1>4, <2>1, <2>2, ValueCases DEF GCInv, BlackInv
<1>8. RootInv' /\ IdleMarker'
  BY DEF GCInv, RootInv, IdleMarker
<1> QED BY <1>1, <1>6, <1>7, <1>8, MarkingKeepsGraph DEF GCInv

LEMMA BlackenObjectSafe ==
  ASSUME GCInv, BlackenObject
  PROVE  GCInv'
<1>1. TypeOK'
  BY CycleTypeOK DEF GCInv, performCycle
<1>2. Marking /\ Marking' /\ UNCHANGED UnchangedByMarking /\ phase = "mark" /\ phase' = "mark"
      /\ UNCHANGED markingStack
  BY DEF BlackenObject, Marking
<1> USE <1>2 DEF UnchangedByMarking, graphVars, paletteVars
<1>3. /\ scanning \in Object /\ kind[scanning] # "free" /\ color[scanning] = gcGrayColor
      /\ scanning' = Null /\ cursor' = 0
  BY DEF BlackenObject, GCInv, TypeOK, GrayInv
<1>4. \A o \in Object : color'[o] = IF o = scanning THEN gcBlackColor ELSE color[o]
  BY <1>3 DEF BlackenObject, GCInv, TypeOK
<1>5. gcWhiteColor # gcGrayColor /\ gcBlackColor # gcGrayColor /\ gcWhiteColor # gcBlackColor
  BY Palette DEF GCInv
<1>6. GrayInv'
  <2>1. \A n \in DOMAIN markingStack :
          /\ markingStack[n] \in Object /\ markingStack[n] # scanning
          /\ color[markingStack[n]] = gcGrayColor /\ kind[markingStack[n]] # "free"
    BY DEF GCInv, TypeOK, GrayInv
  <2>2. \A n \in DOMAIN markingStack' :
          /\ color'[markingStack'[n]] = gcGrayColor
          /\ kind'[markingStack'[n]] # "free"
          /\ markingStack'[n] # scanning'
    BY <1>3, <1>4, <2>1, ValueCases
  <2>3. \A o \in Object : kind'[o] # "free" /\ color'[o] = gcGrayColor =>
          o \in Range(markingStack')
    BY <1>3, <1>4, <1>5 DEF GCInv, GrayInv, gcGrayColor
  <2>4. IsInjective(markingStack')
    BY DEF GCInv, GrayInv
  <2> QED BY <1>3, <2>2, <2>3, <2>4 DEF GrayInv, gcGrayColor
<1>7. BlackInv'
  <2>1. \A o \in Object : LastStrongField(o)' = LastStrongField(o)
    BY UnchangedStrongFields
  <2>2. \A o \in Object : color[o] # gcWhiteColor => color'[o] # gcWhiteColor
    BY <1>4, <1>5
  <2>3. ASSUME NEW o \in Object, kind[o] # "free", color'[o] = gcBlackColor,
               NEW i \in 0 .. LastStrongField(o), fields[o][i] \in Object
        PROVE  color[fields[o][i]] # gcWhiteColor
    <3>1. CASE o = scanning
      <4>1. i < cursor
        BY <3>1, <1>3, LastStrongFieldType, SizeAssumption
           DEF BlackenObject, GCInv, TypeOK, FieldIndex
      <4> QED BY <1>3, <2>3, <3>1, <4>1, ValueCases DEF GCInv, BlackInv
    <3>2. CASE o # scanning
      BY <1>4, <2>3, <3>2 DEF GCInv, BlackInv
    <3> QED BY <3>1, <3>2
  <2> QED BY <1>3, <2>1, <2>2, <2>3 DEF BlackInv
<1>8. RootInv'
  BY <1>4, <1>5 DEF GCInv, TypeOK, RootInv
<1>9. IdleMarker'
  BY DEF GCInv, IdleMarker
<1> QED BY <1>1, <1>6, <1>7, <1>8, <1>9, MarkingKeepsGraph DEF GCInv

LEMMA MarkingStackEmptySafe ==
  ASSUME GCInv, MarkingStackEmpty
  PROVE  GCInv'
<1>1. TypeOK'
  BY CycleTypeOK DEF GCInv, performCycle
<1>2. Marking /\ Marking' /\ UNCHANGED UnchangedByMarking /\ phase = "mark" /\ phase' = "weak"
      /\ UNCHANGED <<color, markingStack, scanning, cursor>>
      /\ scanning = Null /\ markingStack = <<>>
  BY DEF MarkingStackEmpty, Marking, markVars
<1> USE <1>2 DEF UnchangedByMarking, graphVars, paletteVars
<1>3. \A o \in Object : LastStrongField(o)' = LastStrongField(o)
  BY UnchangedStrongFields
<1>4. GrayInv'
  BY DEF GCInv, GrayInv, gcGrayColor, IsInjective, Range
<1>5. BlackInv'
  BY <1>3 DEF GCInv, BlackInv
<1>6. RootInv' /\ IdleMarker'
  BY DEF GCInv, RootInv, IdleMarker
<1> QED BY <1>1, <1>4, <1>5, <1>6, MarkingKeepsGraph DEF GCInv

\* At the end of marking, an object of the heap that is not white is black.
LEMMA NothingGray ==
  ASSUME GCInv, phase = "weak", NEW o \in Object, kind[o] # "free",
         color[o] # gcWhiteColor
  PROVE  color[o] = gcBlackColor
<1>1. scanning = Null /\ Range(markingStack) = {}
  BY ElementsEmpty DEF GCInv, IdleMarker
<1> QED BY <1>1, Palette, ValueCases DEF GCInv, GrayInv, Marking

LEMMA WeakPassSafe ==
  ASSUME GCInv, replaceWeakReferencesWithTombstones
  PROVE  GCInv'
<1>1. TypeOK'
  BY CycleTypeOK DEF GCInv, performCycle
<1>2. /\ phase = "weak" /\ phase' = "sweep" /\ Marking /\ sweepPosition = <<>>
      /\ UNCHANGED <<kind, size, color, root, gcBlackColor, gcWhiteColor, markingStack, scanning>>
      /\ heapList' = <<>> /\ sweepPosition' = heapList
      /\ fields' = [o \in Object |-> FieldsAfterWeakPass(o)]
  BY DEF replaceWeakReferencesWithTombstones, Marking, paletteVars, markVars, GCInv,
     NoDanglingGraph
<1> USE <1>2
<1>3. ASSUME NEW o \in Object, NEW i \in FieldIndex
      PROVE  /\ fields'[o][i] = fields[o][i] \/ fields'[o][i] = Tombstone
             /\ /\ color[o] = gcBlackColor /\ kind[o] = "weak" /\ i \in 1 .. size[o]
                /\ fields'[o][i] \in Object
                => color[fields'[o][i]] = gcBlackColor
  BY ValueCases DEF FieldsAfterWeakPass
<1>4. Padding'
  BY <1>3, ValueCases DEF GCInv, Padding
<1>5. Listed'
  BY ElementsEmpty DEF GCInv, Listed, IsInjective
<1>6. SweepInv'
  <2>1. ASSUME NEW r \in Roots, root[r] \in Object
        PROVE  kind[root[r]] # "free" /\ color[root[r]] = gcBlackColor
    <3>1. kind[root[r]] # "free"
      BY <2>1 DEF GCInv, NoDanglingGraph
    <3>2. color[root[r]] # gcWhiteColor
      BY <2>1 DEF GCInv, RootInv
    <3> QED BY <2>1, <3>1, <3>2, NothingGray
  <2>2. ASSUME NEW o \in Object, NEW i \in FieldIndex, kind[o] # "free",
               color[o] = gcBlackColor, fields'[o][i] \in Object
        PROVE  kind[fields'[o][i]] # "free" /\ color[fields'[o][i]] = gcBlackColor
    <3> DEFINE t == fields[o][i]
    <3>1. fields'[o][i] = t /\ t \in Object
      BY <1>3, <2>2, ValueCases
    <3>2. kind[t] # "free"
      BY <2>2, <3>1 DEF GCInv, NoDanglingGraph
    <3>3. size[o] \in Nat /\ i \in Nat
      BY SizeAssumption DEF GCInv, TypeOK, FieldIndex
    <3>4. i = 0 \/ (i \in 1 .. size[o] /\ kind[o] # "bytes")
      BY <2>2, <3>1, <3>3 DEF GCInv, Padding
    <3>5. CASE kind[o] = "weak" /\ i # 0
      BY <1>3, <2>2, <3>1, <3>2, <3>4, <3>5
    <3>6. CASE kind[o] # "weak" \/ i = 0
      <4>1. i \in 0 .. LastStrongField(o)
        <5>1. CASE i = 0
          BY <5>1, LastStrongFieldType, SizeAssumption DEF GCInv, FieldIndex
        <5>2. CASE i # 0
          <6>1. kind[o] = "pointers"
            BY <2>2, <3>4, <3>6, <5>2 DEF GCInv, TypeOK, Kind
          <6> QED BY <3>4, <5>2, <6>1, <3>3 DEF LastStrongField
        <5> QED BY <5>1, <5>2
      <4>2. color[t] # gcWhiteColor
        BY <2>2, <3>1, <4>1 DEF GCInv, BlackInv
      <4> QED BY <3>1, <3>2, <4>2, NothingGray
    <3> QED BY <3>5, <3>6
  <2>3. \A n \in DOMAIN heapList' : color'[heapList'[n]] = gcBlackColor
    OBVIOUS
  <2> QED BY <2>1, <2>2, <2>3 DEF SweepInv
<1>7. NoDanglingGraph' /\ AllWhite' /\ GrayInv' /\ BlackInv' /\ RootInv'
  BY DEF NoDanglingGraph, AllWhite, GrayInv, BlackInv, RootInv, Marking
<1>8. IdleMarker'
  BY DEF GCInv, IdleMarker
<1> QED BY <1>1, <1>4, <1>5, <1>6, <1>7, <1>8 DEF GCInv

LEMMA SweepObjectSafe ==
  ASSUME GCInv, SweepObject
  PROVE  GCInv'
<1> DEFINE o == Head(sweepPosition)
<1>1. TypeOK'
  BY CycleTypeOK DEF GCInv, performCycle
<1>2. /\ phase = "sweep" /\ phase' = "sweep" /\ sweepPosition # <<>>
      /\ sweepPosition' = Tail(sweepPosition)
      /\ UNCHANGED <<root, gcBlackColor, gcWhiteColor, markingStack, scanning>>
      /\ color[o] = gcBlackColor => KeepObject(o)
      /\ color[o] # gcBlackColor => FreeObject(o)
  BY DEF SweepObject, paletteVars, markVars
<1>3. /\ heapList \in Seq(Object) /\ sweepPosition \in Seq(Object)
      /\ o \in Object
      /\ Range(sweepPosition) = {o} \cup Range(Tail(sweepPosition))
      /\ o \notin Range(Tail(sweepPosition)) /\ IsInjective(Tail(sweepPosition))
      /\ o \notin Range(heapList)
  <2>1. heapList \in Seq(Object) /\ sweepPosition \in Seq(Object) /\ o \in Object
    BY <1>2 DEF GCInv, TypeOK
  <2>2. IsInjective(sweepPosition) /\ Range(heapList) \cap Range(sweepPosition) = {}
    BY DEF GCInv, Listed
  <2> QED BY <1>2, <2>1, <2>2, ElementsHeadTail, DistinctTail
<1>4. NoDanglingGraph' /\ AllWhite' /\ GrayInv' /\ BlackInv' /\ RootInv' /\ IdleMarker'
  BY <1>2 DEF GCInv, NoDanglingGraph, AllWhite, GrayInv, BlackInv, RootInv, IdleMarker,
     Marking
<1>5. CASE KeepObject(o) /\ color[o] = gcBlackColor
  <2>1. UNCHANGED <<kind, fields, size, color>> /\ heapList' = Append(heapList, o)
    BY <1>5 DEF KeepObject, graphVars
  <2>2. Padding'
    BY <2>1 DEF GCInv, Padding
  <2>3. Listed'
    <3>1. Range(heapList') = Range(heapList) \cup {o} /\ IsInjective(heapList')
      BY <1>3, <2>1, ElementsAppend, DistinctAppend DEF GCInv, Listed
    <3> QED BY <1>2, <1>3, <2>1, <3>1 DEF GCInv, Listed
  <2>4. SweepInv'
    <3>1. \A n \in DOMAIN heapList' : color[heapList'[n]] = gcBlackColor
      BY <1>2, <1>3, <1>5, <2>1, ElementsAppend DEF GCInv, SweepInv
    <3> QED BY <1>2, <2>1, <3>1 DEF GCInv, SweepInv
  <2> QED BY <1>1, <1>4, <2>2, <2>3, <2>4 DEF GCInv
<1>6. CASE FreeObject(o) /\ color[o] # gcBlackColor
  <2>1. /\ heapList' = heapList
        /\ \A p \in Object : kind'[p] = IF p = o THEN "free" ELSE kind[p]
        /\ \A p \in Object : fields'[p] = IF p = o THEN NoFields ELSE fields[p]
        /\ \A p \in Object : size'[p] = IF p = o THEN 0 ELSE size[p]
        /\ \A p \in Object \ {o} : color'[p] = color[p]
    BY <1>3, <1>6 DEF FreeObject, GCInv, TypeOK
  <2>2. Padding'
    BY <2>1, ValueCases DEF GCInv, Padding, NoFields
  <2>3. Listed'
    <3>1. \A p \in Object :
            kind'[p] # "free" <=> p \in Range(heapList) \cup Range(Tail(sweepPosition))
      BY <1>3, <2>1 DEF GCInv, Listed
    <3> QED BY <1>2, <1>3, <2>1, <3>1 DEF GCInv, Listed
  <2>4. SweepInv'
    <3>1. ASSUME NEW p \in Object, kind[p] # "free", color[p] = gcBlackColor
          PROVE  p # o /\ kind'[p] = kind[p] /\ color'[p] = color[p]
      BY <1>6, <2>1, <3>1
    <3>2. ASSUME NEW r \in Roots, root[r] \in Object
          PROVE  kind'[root[r]] # "free" /\ color'[root[r]] = gcBlackColor
      BY <1>2, <3>1, <3>2 DEF GCInv, SweepInv
    <3>3. ASSUME NEW p \in Object, NEW i \in FieldIndex, kind'[p] # "free",
                 color'[p] = gcBlackColor, fields'[p][i] \in Object
          PROVE  kind'[fields'[p][i]] # "free" /\ color'[fields'[p][i]] = gcBlackColor
      <4>1. p # o /\ kind[p] # "free" /\ color[p] = gcBlackColor /\ fields'[p] = fields[p]
        BY <2>1, <3>3
      <4>2. kind[fields[p][i]] # "free" /\ color[fields[p][i]] = gcBlackColor
        BY <1>2, <3>3, <4>1 DEF GCInv, SweepInv
      <4> QED BY <3>1, <3>3, <4>1, <4>2
    <3>4. ASSUME NEW n \in DOMAIN heapList
          PROVE  color'[heapList[n]] = gcBlackColor
      <4>1. heapList[n] \in Object /\ color[heapList[n]] = gcBlackColor
        BY <1>2, <1>3 DEF GCInv, SweepInv
      <4> QED BY <1>6, <2>1, <4>1
    <3> QED BY <1>2, <2>1, <3>2, <3>3, <3>4 DEF SweepInv
  <2> QED BY <1>1, <1>4, <2>2, <2>3, <2>4 DEF GCInv
<1> QED BY <1>2, <1>5, <1>6

LEMMA SweepDoneSafe ==
  ASSUME GCInv, SweepDone
  PROVE  GCInv'
<1>1. TypeOK'
  BY CycleTypeOK DEF GCInv, performCycle
<1>2. /\ phase = "sweep" /\ phase' = "swap" /\ sweepPosition = <<>>
      /\ UNCHANGED <<kind, fields, size, color, heapList, root, gcBlackColor, gcWhiteColor,
                     markingStack, scanning, sweepPosition>>
  BY DEF SweepDone, graphVars, listVars, paletteVars, markVars
<1> USE <1>2
<1>3. Padding' /\ Listed'
  BY DEF GCInv, Padding, Listed
<1>4. NoDanglingGraph' /\ AllWhite' /\ GrayInv' /\ BlackInv' /\ RootInv' /\ IdleMarker'
  BY DEF GCInv, NoDanglingGraph, AllWhite, GrayInv, BlackInv, RootInv, IdleMarker, Marking
<1>5. SweepInv'
  BY DEF GCInv, SweepInv
<1> QED BY <1>1, <1>3, <1>4, <1>5 DEF GCInv

\* What is left in the list is black, and all that is left is in the list.
LEMMA swapGCColorsSafe ==
  ASSUME GCInv, swapGCColors
  PROVE  GCInv'
<1>1. TypeOK'
  BY CycleTypeOK DEF GCInv, performCycle
<1>2. /\ phase = "swap" /\ phase' = "mutator" /\ sweepPosition = <<>>
      /\ gcWhiteColor' = gcBlackColor
      /\ UNCHANGED <<kind, fields, size, color, heapList, root, markingStack, scanning,
                     sweepPosition>>
  BY DEF swapGCColors, graphVars, listVars, GCInv, SweepInv
<1> USE <1>2
<1>3. Padding' /\ Listed'
  BY DEF GCInv, Padding, Listed
<1>4. \A o \in Object : kind[o] # "free" => color[o] = gcBlackColor
  BY ElementsEmpty DEF GCInv, Listed, SweepInv, Range
<1>5. AllWhite'
  BY <1>4 DEF AllWhite
<1>6. NoDanglingGraph'
  BY <1>4 DEF GCInv, SweepInv, NoDanglingGraph
<1>7. GrayInv' /\ BlackInv' /\ RootInv' /\ IdleMarker' /\ SweepInv'
  BY DEF GCInv, GrayInv, BlackInv, RootInv, IdleMarker, SweepInv, Marking
<1> QED BY <1>1, <1>3, <1>5, <1>6, <1>7 DEF GCInv

LEMMA CycleSafe ==
  ASSUME GCInv, performCycle
  PROVE  GCInv'
BY MarkRootSafe, RootsMarkedSafe, PopMarkingStackSafe, MarkFieldSafe, BlackenObjectSafe,
   MarkingStackEmptySafe, WeakPassSafe, SweepObjectSafe, SweepDoneSafe, swapGCColorsSafe
   DEF performCycle

LEMMA StutterSafe ==
  ASSUME GCInv, UNCHANGED vars
  PROVE  GCInv'
<1> USE DEF vars, graphVars, listVars, triggerVars, paletteVars, markVars
<1>1. TypeOK' /\ Padding' /\ Listed'
  BY DEF GCInv, TypeOK, Padding, Listed
<1>2. NoDanglingGraph' /\ AllWhite' /\ SweepInv' /\ IdleMarker'
  BY DEF GCInv, NoDanglingGraph, AllWhite, SweepInv, IdleMarker
<1>3. \A o \in Object : LastStrongField(o)' = LastStrongField(o)
  BY UnchangedStrongFields
<1>4. GrayInv' /\ RootInv'
  BY DEF GCInv, GrayInv, RootInv, Marking, gcGrayColor, IsInjective, Range
<1>5. LastStrongField(scanning)' = LastStrongField(scanning)
  BY DEF LastStrongField
<1>6. BlackInv'
  BY <1>3, <1>5 DEF GCInv, BlackInv, Marking
<1> QED BY <1>1, <1>2, <1>4, <1>6 DEF GCInv

\* GCInv, the conjunction of what holds in each phase, is an invariant.
THEOREM CollectorInvariant == Spec => []GCInv
<1>1. GCInv /\ [Next]_vars => GCInv'
  BY ProgramSafe, TriggerSafe, CycleSafe, StutterSafe DEF Next
<1> QED BY InitGCInv, <1>1, PTL DEF Spec

\* The program never reaches the address of an object that was freed, however
\* many objects, roots and slots there are, and whichever of them are weak.
THEOREM NoDanglingPointerHolds == Spec => []NoDanglingPointer
<1>1. GCInv => NoDanglingPointer
  <2> SUFFICES ASSUME GCInv, phase = "mutator" PROVE NoDanglingPointer
    BY DEF NoDanglingPointer
  <2>1. ASSUME NEW o \in Object, NEW i \in 0 .. size[o]
        PROVE  i \in FieldIndex
    BY <2>1, SizeAssumption DEF GCInv, TypeOK, FieldIndex
  <2> QED BY <2>1 DEF GCInv, NoDanglingGraph, NoDanglingPointer, Allocated
<1> QED BY CollectorInvariant, <1>1, PTL

\* A cycle starts with every object white and the marking stack empty, and marking
\* keeps the three-colour invariant of gc.c at every step.
THEOREM TriColourHolds == Spec => []TriColour
<1>1. GCInv => WhiteBetweenCycles
  BY DEF GCInv, AllWhite, IdleMarker, WhiteBetweenCycles, Allocated
<1>2. GCInv => TriColour
  <2> SUFFICES ASSUME GCInv, Marking PROVE TriColour
    BY <1>1 DEF TriColour, Marking
  <2>1. ASSUME NEW o \in Allocated, color[o] = gcBlackColor,
               NEW i \in 0 .. LastStrongField(o), fields[o][i] \in Object
        PROVE  color[fields[o][i]] # gcWhiteColor
    BY <2>1 DEF GCInv, BlackInv, Allocated
  <2>2. ASSUME NEW o \in Allocated
        PROVE  color[o] = gcGrayColor <=> o \in {scanning} \cup Range(markingStack)
    BY <2>2, ValueCases DEF GCInv, GrayInv, Allocated, Range
  <2>3. scanning \notin Range(markingStack) /\ IsInjective(markingStack)
    BY DEF GCInv, GrayInv, Range
  <2> QED BY <1>1, <2>1, <2>2, <2>3 DEF TriColour
<1> QED BY CollectorInvariant, <1>2, PTL

\* The sweep loses no object and links none twice.
THEOREM EveryBlockListedHolds == Spec => []EveryBlockListed
<1>1. GCInv => EveryBlockListed
  <2> SUFFICES ASSUME GCInv PROVE EveryBlockListed
    OBVIOUS
  <2>1. Range(heapList) \subseteq Object /\ Range(sweepPosition) \subseteq Object
    BY DEF GCInv, TypeOK, Range
  <2> QED BY <2>1 DEF GCInv, Listed, EveryBlockListed, Allocated
<1> QED BY CollectorInvariant, <1>1, PTL

-----------------------------------------------------------------------------
(***************************************************************************)
(* The threshold.                                                          *)
(***************************************************************************)
\* The end of a sweep leaves the total below the new threshold.
ThresholdInv ==
  phase \in {"mutator", "swap"} =>
    (totalSize > nextGCSizeThreshold => shouldAttemptToCollect)

LEMMA SweepDoneThreshold ==
  ASSUME GCInv, SweepDone
  PROVE  ThresholdInv'
<1> DEFINE liveDataSize == IF totalSize < StartupHeapSize THEN StartupHeapSize ELSE totalSize
<1>1. liveDataSize \in Nat /\ totalSize <= liveDataSize
  BY SizeAssumption DEF GCInv, TypeOK
<1>2. totalSize' = totalSize /\ nextGCSizeThreshold' = liveDataSize * GammaFactor
  BY DEF SweepDone, computeNextCollectionThreshold, listVars
<1> HIDE DEF liveDataSize
<1>3. liveDataSize <= liveDataSize * GammaFactor
  <2>1. \A a, b \in Nat : b > 0 => a <= a * b
    OBVIOUS
  <2> QED
    BY <1>1, <2>1, SizeAssumption
<1>4. totalSize \in Int /\ liveDataSize * GammaFactor \in Int
  BY <1>1, SizeAssumption DEF GCInv, TypeOK
<1>5. ~(totalSize' > nextGCSizeThreshold')
  BY <1>1, <1>2, <1>3, <1>4
<1> QED
  BY <1>5 DEF ThresholdInv

LEMMA ProgramThreshold ==
  ASSUME ThresholdInv, Program
  PROVE  ThresholdInv'
<1>1. ASSUME NEW o, NEW n, phase = "mutator", AllocateTuple(o, n),
             UNCHANGED nextGCSizeThreshold
      PROVE  ThresholdInv'
  BY <1>1 DEF ThresholdInv, AllocateTuple, checkForGCThreshold
<1>2. ASSUME phase = "mutator",
             UNCHANGED <<totalSize, nextGCSizeThreshold, shouldAttemptToCollect>>
      PROVE  ThresholdInv'
  BY <1>2 DEF ThresholdInv
<1>3. CASE \/ \E o \in Object, sh \in Shape, type \in Value, r \in Roots :
                Allocate(o, sh, type, r)
           \/ \E q, r \in Roots, o \in Object : shallowCopy(q, o, r)
  BY <1>1, <1>3 DEF Allocate, shallowCopy
<1>4. ASSUME NEW r, NEW v, SetRoot(r, v)
      PROVE  ThresholdInv'
  BY <1>2, <1>4 DEF SetRoot, UnchangedByProgram, listVars
<1>5. CASE \/ \E q \in Roots, i \in FieldIndex, v \in Value : StoreField(q, i, v)
           \/ \E q \in Roots : markWeakObject(q)
  BY <1>2, <1>5 DEF StoreField, markWeakObject, UnchangedByProgram, listVars
<1> QED
  BY <1>3, <1>4, <1>5
     DEF Program, LoadField, ForgetRoot, firstInstance, firstInstanceWithType, nextInstance,
         nextInstanceWithSameType, FindFirstInstance, FindNextInstance

\* A cycle runs with the request that started it in place, until the sweep has ended.
RequestInv == phase \notin {"mutator", "swap"} => shouldAttemptToCollect

TriggerInv == GCInv /\ ThresholdInv /\ RequestInv

\* The parts of a cycle that come before its sweep has ended, and the swap.
LEMMA CycleStep ==
  ASSUME GCInv, performCycle, ~ SweepDone
  PROVE  /\ phase # "mutator" /\ UNCHANGED triggerVars
         /\ \/ phase # "swap" /\ phase' \notin {"mutator", "swap"}
            \/ phase = "swap" /\ phase' = "mutator" /\ UNCHANGED totalSize
  BY DEF performCycle, MarkRoot, RootsMarked, PopMarkingStack, MarkField, BlackenObject,
     MarkingStackEmpty, replaceWeakReferencesWithTombstones, SweepObject, swapGCColors,
     UnchangedByMarking, listVars, triggerVars

\* Nothing in the program but the locks and the safepoints starts a cycle, and nothing at
\* all takes a request back.
LEMMA ProgramRequests ==
  ASSUME Program
  PROVE  /\ phase = "mutator" /\ phase' = "mutator" /\ lockCount' = lockCount
         /\ nextGCSizeThreshold' = nextGCSizeThreshold
         /\ \/ UNCHANGED <<totalSize, shouldAttemptToCollect>>
            \/ checkForGCThreshold
<1>1. ASSUME NEW r, NEW v, SetRoot(r, v)
      PROVE  /\ phase = "mutator"
             /\ UNCHANGED <<phase, lockCount, nextGCSizeThreshold, totalSize,
                            shouldAttemptToCollect>>
  BY <1>1 DEF SetRoot, UnchangedByProgram, listVars
<1>2. CASE \/ \E o \in Object, sh \in Shape, type \in Value, r \in Roots :
                Allocate(o, sh, type, r)
           \/ \E q, r \in Roots, o \in Object : shallowCopy(q, o, r)
  BY <1>2 DEF Allocate, shallowCopy, AllocateTuple
<1>3. CASE \/ \E q \in Roots, i \in FieldIndex, v \in Value : StoreField(q, i, v)
           \/ \E q \in Roots : markWeakObject(q)
  BY <1>3 DEF StoreField, markWeakObject, UnchangedByProgram, listVars
<1> QED
  BY <1>1, <1>2, <1>3
     DEF Program, LoadField, ForgetRoot, firstInstance, firstInstanceWithType, nextInstance,
         nextInstanceWithSameType, FindFirstInstance, FindNextInstance

LEMMA TriggerInvStep ==
  ASSUME TriggerInv, [Next]_vars
  PROVE  ThresholdInv' /\ RequestInv'
<1> USE DEF TriggerInv
<1>1. CASE Program
  <2>1. ThresholdInv'
    BY <1>1, ProgramThreshold
  <2>2. RequestInv'
    BY <1>1, ProgramRequests DEF RequestInv
  <2> QED
    BY <2>1, <2>2
<1>2. CASE Trigger
  BY <1>2 DEF Trigger, Safepoint, collect, lock, unlock, safepoint, UnchangedBySafepoint,
     listVars, ThresholdInv, RequestInv
<1>3. CASE performCycle /\ ~ SweepDone
  BY <1>3, CycleStep DEF triggerVars, ThresholdInv, RequestInv
<1>4. CASE SweepDone
  BY <1>4, SweepDoneThreshold DEF SweepDone, RequestInv
<1>5. CASE UNCHANGED vars
  BY <1>5 DEF vars, listVars, triggerVars, ThresholdInv, RequestInv
<1> QED
  BY <1>1, <1>2, <1>3, <1>4, <1>5 DEF Next

LEMMA TriggerInvHolds == Spec => []TriggerInv
<1>1. Init => ThresholdInv /\ RequestInv
  BY DEF Init, ThresholdInv, RequestInv
<1>2. GCInv /\ ThresholdInv /\ RequestInv /\ [Next]_vars => ThresholdInv' /\ RequestInv'
  BY TriggerInvStep DEF TriggerInv
<1> QED
  BY <1>1, <1>2, CollectorInvariant, PTL DEF Spec, TriggerInv

(* A request for a collection is served, whatever allocations, locks and unlocks come
   between the two (gc.c:93-124): it waits for the last unlock, which starts the cycle,
   and is gone only after a sweep; no cycle starts without one, or under a lock.  A heap
   above its threshold is such a request, whatever the startup size and the factor, as
   long as the latter is not zero (heap.c:14-20 and 126-132). *)
THEOREM RequestsAreServedHolds == Spec => RequestsAreServed
<1> DEFINE Served ==
      /\ CollectionDue => CollectionDue' \/ phase' = "swap"
      /\ CollectionDue /\ lockCount > 0 /\ lockCount' = 0 /\ ~GcDisabled => phase' = "roots"
      /\ phase = "mutator" /\ phase' # "mutator" => CollectionDue' /\ lockCount' = 0
<1>1. ASSUME TriggerInv, [Next]_vars PROVE [Served]_vars
  <2> SUFFICES ASSUME TriggerInv, Next PROVE Served
    BY <1>1
  <2> USE DEF TriggerInv
  <2>1. CASE Program
    <3>1. /\ phase' = "mutator" /\ lockCount' = lockCount
          /\ nextGCSizeThreshold' = nextGCSizeThreshold
          /\ \/ UNCHANGED <<totalSize, shouldAttemptToCollect>>
             \/ checkForGCThreshold
          /\ phase = "mutator"
      BY <2>1, ProgramRequests
    <3>2. CollectionDue => CollectionDue'
      BY <3>1 DEF CollectionDue, ThresholdInv, checkForGCThreshold
    <3>3. lockCount \in Nat
      BY SizeAssumption DEF GCInv, TypeOK
    <3> QED
      BY <3>1, <3>2, <3>3
  <2>2. CASE Trigger
    <3>1. phase = "mutator" /\ UNCHANGED <<totalSize, nextGCSizeThreshold>>
      BY <2>2 DEF Trigger, Safepoint, collect, lock, unlock, UnchangedBySafepoint, listVars
    <3>2. lockCount \in Nat /\ (CollectionDue => shouldAttemptToCollect)
      BY <3>1, SizeAssumption DEF GCInv, TypeOK, CollectionDue, ThresholdInv
    <3>3. CASE Safepoint \/ collect \/ lock
      BY <3>1, <3>2, <3>3 DEF Safepoint, collect, lock, safepoint, CollectionDue
    <3>4. CASE unlock
      BY <3>1, <3>2, <3>4 DEF unlock, safepoint, CollectionDue
    <3> QED
      BY <2>2, <3>3, <3>4 DEF Trigger
  <2>3. CASE performCycle /\ ~ SweepDone
    <3>1. /\ phase # "mutator" /\ UNCHANGED triggerVars
          /\ \/ phase # "swap" /\ phase' \notin {"mutator", "swap"}
             \/ phase = "swap" /\ phase' = "mutator" /\ UNCHANGED totalSize
      BY <2>3, CycleStep
    <3>2. lockCount \in Nat
      BY SizeAssumption DEF GCInv, TypeOK
    <3> QED
      BY <3>1, <3>2 DEF triggerVars, RequestInv, CollectionDue
  <2>4. CASE SweepDone
    <3>1. lockCount \in Nat
      BY SizeAssumption DEF GCInv, TypeOK
    <3> QED
      BY <2>4, <3>1 DEF SweepDone
  <2> QED
    BY <2>1, <2>2, <2>3, <2>4 DEF Next
<1> QED
  BY <1>1, TriggerInvHolds, PTL DEF Spec, RequestsAreServed

-----------------------------------------------------------------------------
(***************************************************************************)
(* The account of sizes.                                                   *)
(***************************************************************************)
\* The objects of the heap are finitely many, whatever Object is.
LEMMA ElementsFinite ==
  ASSUME NEW s \in Seq(Object)
  PROVE  IsFiniteSet(Range(s))
<1>1. IsFiniteSet(1 .. Len(s))
  BY FS_Interval
<1>2. s \in Surjection(1 .. Len(s), Range(s))
  BY DEF Surjection, Range
<1> QED
  BY <1>1, <1>2, FS_Surjection

LEMMA AllocatedFinite ==
  ASSUME GCInv
  PROVE  IsFiniteSet(Allocated)
<1>1. IsFiniteSet(Range(heapList)) /\ IsFiniteSet(Range(sweepPosition))
  BY ElementsFinite DEF GCInv, TypeOK
<1>2. Allocated \subseteq Range(heapList) \cup Range(sweepPosition)
  BY DEF GCInv, Listed, Allocated
<1>3. IsFiniteSet(Range(heapList) \cup Range(sweepPosition))
  BY <1>1, FS_Union
<1>4. IsFiniteSet(Allocated)
  BY <1>2, <1>3, FS_Subset
<1> QED
  BY <1>4

\* The sizes of the blocks of S, whose total the account should be.
SizesOver(S, sizes) == [o \in S |-> AllocationSize(sizes[o])]

\* A block more or less, the others as they were, and the total changes by its size.
SizesKept(S, before, after) == \A x \in S : before[x] \in FieldIndex /\ after[x] = before[x]

LEMMA TotalGrows ==
  ASSUME NEW S, IsFiniteSet(S), NEW o, o \notin S, NEW before, NEW after,
         SizesKept(S, before, after), after[o] \in FieldIndex
  PROVE  Total(SizesOver(S \cup {o}, after))
           = AllocationSize(after[o]) + Total(SizesOver(S, before))
<1> USE DEF SizesKept
<1> DEFINE f == SizesOver(S \cup {o}, after)
           h == SizesOver(S, before)
<1>1. \A n \in FieldIndex : AllocationSize(n) \in Int
  BY SizeAssumption DEF FieldIndex, AllocationSize, HeaderSize
<1>2. IsFiniteSet(S \cup {o}) /\ (S \cup {o}) \ {o} = S
  BY FS_AddElement
<1>3. f \in [S \cup {o} -> Int] /\ h \in [S -> Int] /\ f[o] = AllocationSize(after[o])
  BY <1>1 DEF SizesOver
<1>4. \A x \in S : h[x] = f[x]
  BY DEF SizesOver
<1> HIDE DEF f, h
<1>5. Total(f) = f[o] + Total(h)
  <2> DEFINE T == S \cup {o}
  <2>1. o \in T /\ IsFiniteSet(T) /\ Without(T, f, o, h)
    BY <1>2, <1>3, <1>4 DEF Without
  <2> HIDE DEF T
  <2> QED
    BY <2>1, TotalWithout
<1> QED
  BY <1>3, <1>5 DEF f, h

LEMMA TotalInt ==
  ASSUME NEW S, IsFiniteSet(S), NEW sizes, \A x \in S : sizes[x] \in FieldIndex
  PROVE  Total(SizesOver(S, sizes)) \in Int
<1> DEFINE f == SizesOver(S, sizes)
<1>1. f \in [S -> Int]
  BY SizeAssumption DEF FieldIndex, AllocationSize, HeaderSize, SizesOver
<1> HIDE DEF f
<1>2. PICK g \in [SUBSET S -> Int] : IsSums(f, S, g)
  BY <1>1, SumsExist
<1>3. Total(f) = g[S]
  BY <1>1, <1>2, TotalIs
<1>4. g[S] \in Int
  BY <1>2
<1> QED
  BY <1>3, <1>4 DEF f

LEMMA TotalSame ==
  ASSUME NEW S, NEW before, NEW after, \A x \in S : after[x] = before[x]
  PROVE  SizesOver(S, after) = SizesOver(S, before)
BY DEF SizesOver

\* HeapAccount, in these terms.
Account == totalSize = Total(SizesOver(Allocated, size))

\* Steps that allocate and free nothing.
LEMMA AccountStays ==
  ASSUME Account, UNCHANGED <<kind, size, totalSize>>
  PROVE  Account'
BY DEF Account, Allocated

LEMMA AllocateAccount ==
  ASSUME GCInv, Account, NEW o \in Object, NEW n \in FieldIndex, AllocateTuple(o, n),
         NEW k \in Kind, kind' = [kind EXCEPT ![o] = k], size' = [size EXCEPT ![o] = n]
  PROVE  Account'
<1>1. Allocated' = Allocated \cup {o} /\ o \notin Allocated
  BY DEF Allocated, AllocateTuple, GCInv, TypeOK, Kind
<1>2. SizesKept(Allocated, size, size') /\ size'[o] = n /\ size'[o] \in FieldIndex
  BY <1>1 DEF GCInv, TypeOK, Allocated, SizesKept
<1>3. Total(SizesOver(Allocated \cup {o}, size'))
        = AllocationSize(size'[o]) + Total(SizesOver(Allocated, size))
  BY <1>1, <1>2, AllocatedFinite, TotalGrows
<1>4. Total(SizesOver(Allocated, size)) \in Int /\ AllocationSize(n) \in Int
  BY <1>2, AllocatedFinite, TotalInt, SizeAssumption
     DEF SizesKept, FieldIndex, AllocationSize, HeaderSize
<1>5. totalSize' = totalSize + AllocationSize(n)
  BY DEF AllocateTuple
<1> QED
  BY <1>1, <1>2, <1>3, <1>4, <1>5 DEF Account

LEMMA SweepAccount ==
  ASSUME GCInv, Account, SweepObject
  PROVE  Account'
<1> DEFINE o == Head(sweepPosition)
<1>1. o \in Object /\ o \in Allocated /\ size[o] \in FieldIndex
  <2>1. sweepPosition \in Seq(Object) /\ sweepPosition # <<>>
    BY DEF GCInv, TypeOK, SweepObject
  <2>2. o \in Object /\ o \in Range(sweepPosition)
    BY <2>1, ElementsHeadTail
  <2> QED
    BY <2>2 DEF GCInv, TypeOK, Listed, Allocated
<1>2. CASE color[o] = gcBlackColor
  BY <1>2, AccountStays DEF SweepObject, KeepObject, graphVars
<1>3. CASE color[o] # gcBlackColor
  <2> DEFINE S == Allocated \ {o}
  <2>1. FreeObject(o)
    BY <1>3 DEF SweepObject
  <2>2. Allocated' = S /\ o \notin S /\ S \cup {o} = Allocated /\ S \subseteq Object
    BY <1>1, <2>1 DEF Allocated, FreeObject, GCInv, TypeOK
  <2>3. IsFiniteSet(S)
    BY AllocatedFinite, FS_RemoveElement
  <2>4. \A x \in S : size'[x] \in FieldIndex /\ size[x] = size'[x]
    BY <2>1, <2>2 DEF FreeObject, GCInv, TypeOK
  <2> HIDE DEF o, S
  <2>5. Total(SizesOver(Allocated, size))
          = AllocationSize(size[o]) + Total(SizesOver(S, size'))
    <3>1. Total(SizesOver(S \cup {o}, size))
            = AllocationSize(size[o]) + Total(SizesOver(S, size'))
      BY <1>1, <2>2, <2>3, <2>4, TotalGrows DEF SizesKept
    <3> QED
      BY <2>2, <3>1
  <2>6. Total(SizesOver(S, size')) \in Int /\ AllocationSize(size[o]) \in Int
    BY <1>1, <2>3, <2>4, TotalInt, SizeAssumption DEF FieldIndex, AllocationSize, HeaderSize
  <2>7. totalSize' = totalSize - AllocationSize(size[o])
    BY <2>1 DEF FreeObject
  <2>8. totalSize' = Total(SizesOver(S, size'))
    BY <2>5, <2>6, <2>7 DEF Account
  <2> QED
    BY <2>2, <2>8 DEF Account
<1> QED
  BY <1>2, <1>3

LEMMA ProgramAccount ==
  ASSUME GCInv, Account, Program
  PROVE  Account'
<1>1. ASSUME NEW o \in Object, NEW sh \in Shape, NEW type \in Value, NEW r \in Roots,
             Allocate(o, sh, type, r)
      PROVE  Account'
  <2>1. sh.size \in FieldIndex /\ sh.kind \in Kind
    BY ShapeAssumption DEF Kind
  <2> QED
    BY <1>1, <2>1, AllocateAccount DEF Allocate
<1>2. ASSUME NEW q \in Roots, NEW r \in Roots, NEW o \in Object, shallowCopy(q, o, r)
      PROVE  Account'
  <2>1. root[q] \in Object /\ root[q] \in Allocated
    BY <1>2 DEF shallowCopy, GCInv, NoDanglingGraph, Allocated
  <2>2. size[root[q]] \in FieldIndex /\ kind[root[q]] \in Kind
    BY <2>1 DEF GCInv, TypeOK, Allocated
  <2> QED
    BY <1>2, <2>2, AllocateAccount DEF shallowCopy
<1>3. ASSUME NEW r, NEW v, SetRoot(r, v)
      PROVE  Account'
  BY <1>3, AccountStays DEF SetRoot, UnchangedByProgram, listVars, graphVars
<1>4. ASSUME NEW q \in Roots, NEW i \in FieldIndex, NEW v \in Value, StoreField(q, i, v)
      PROVE  Account'
  BY <1>4, AccountStays DEF StoreField, UnchangedByProgram, listVars
<1>5. ASSUME NEW q \in Roots, markWeakObject(q)
      PROVE  Account'
  <2>1. Allocated' = Allocated
    BY <1>5 DEF markWeakObject, Allocated, GCInv, TypeOK
  <2> QED
    BY <1>5, <2>1 DEF Account, markWeakObject, UnchangedByProgram, listVars
<1> QED
  BY <1>1, <1>2, <1>3, <1>4, <1>5
     DEF Program, LoadField, ForgetRoot, firstInstance, firstInstanceWithType, nextInstance,
         nextInstanceWithSameType, FindFirstInstance, FindNextInstance

(* The heap's total, which the threshold is compared with, is the sum of the sizes of
   its objects at every moment, each sweep's steps included: what is allocated is added
   and what is freed is taken away once (heap.c:46 and 186). *)
THEOREM HeapAccountHolds == Spec => []HeapAccount
<1>1. Init => Account
  <2> SUFFICES ASSUME Init PROVE Account
    OBVIOUS
  <2>1. Allocated = {} /\ totalSize = 0
    BY DEF Init, Allocated
  <2>2. SizesOver({}, size) \in [{} -> Int]
    BY DEF SizesOver
  <2>3. Total(SizesOver({}, size)) = 0
    BY <2>2, TotalOfNone
  <2> QED
    BY <2>1, <2>3 DEF Account
<1>2. GCInv /\ Account /\ [Next]_vars => Account'
  <2> SUFFICES ASSUME GCInv, Account, [Next]_vars PROVE Account'
    OBVIOUS
  <2>1. CASE Trigger
    BY <2>1, AccountStays DEF Trigger, Safepoint, collect, lock, unlock, UnchangedBySafepoint,
       listVars, graphVars
  <2>2. CASE performCycle /\ ~SweepObject
    BY <2>2, AccountStays DEF performCycle, MarkRoot, RootsMarked, PopMarkingStack, MarkField,
       BlackenObject, MarkingStackEmpty, replaceWeakReferencesWithTombstones, SweepDone,
       swapGCColors, UnchangedByMarking, listVars, graphVars
  <2>3. CASE UNCHANGED vars
    BY <2>3, AccountStays DEF vars, listVars, graphVars
  <2> QED
    BY <2>1, <2>2, <2>3, ProgramAccount, SweepAccount DEF Next
<1>3. Account => HeapAccount
  BY DEF Account, HeapAccount, SizesOver, Total
<1> QED
  BY <1>1, <1>2, <1>3, CollectorInvariant, PTL DEF Spec

-----------------------------------------------------------------------------
(***************************************************************************)
(* The collector implements ReachabilityHeap, for any number of objects,   *)
(* roots and slots: what a cycle removes is what the roots do not reach.   *)
(*                                                                         *)
(* That all which is reachable is marked at the end follows from GCInv.    *)
(* That only what is reachable is marked takes an invariant of its own,    *)
(* OnlyReachableMarked: in every set of objects that contains the roots    *)
(* and what its members keep alive, whatever is not white is a member.     *)
(***************************************************************************)
\* A set that the marking of the heap as it is now cannot leave.
ClosedUnderMarking(S) ==
  /\ \A r \in Roots : root[r] \in Object => root[r] \in S
  /\ \A o \in S : kind[o] # "free" =>
       \A i \in 0 .. LastStrongField(o) : fields[o][i] \in Object => fields[o][i] \in S

OnlyReachableMarked ==
  phase \in {"roots", "mark"} =>
    \A o \in Object : kind[o] # "free" /\ color[o] # gcWhiteColor =>
      \A S \in SUBSET Object : ClosedUnderMarking(S) => o \in S

RefinementInv == GCInv /\ OnlyReachableMarked

-----------------------------------------------------------------------------
(***************************************************************************)
(* Only what is reachable is marked.                                       *)
(***************************************************************************)
\* Marking changes no reference, so it changes no closed set.
LEMMA ClosedUnderMarkingUnchanged ==
  ASSUME UNCHANGED <<graphVars, root>>, NEW S, S \subseteq Object
  PROVE  ClosedUnderMarking(S)' <=> ClosedUnderMarking(S)
<1>1. \A o \in S : LastStrongField(o)' = LastStrongField(o)
  BY UnchangedStrongFields
<1> QED
  BY <1>1 DEF ClosedUnderMarking, graphVars

\* The step of marking: a pointer that belongs to every closed set.
LEMMA MarkPointerReachable ==
  ASSUME GCInv, OnlyReachableMarked, phase \in {"roots", "mark"},
         UNCHANGED <<graphVars, root, gcWhiteColor>>,
         NEW p \in Value, markPointer(p),
         p \in Object => \A S \in SUBSET Object : ClosedUnderMarking(S) => p \in S
  PROVE  OnlyReachableMarked'
<1> SUFFICES ASSUME NEW o \in Object, kind'[o] # "free", color'[o] # gcWhiteColor',
                    NEW S \in SUBSET Object, ClosedUnderMarking(S)'
             PROVE  o \in S
  BY DEF OnlyReachableMarked
<1>1. ClosedUnderMarking(S)
  BY ClosedUnderMarkingUnchanged
<1>2. p = o \/ color'[o] = color[o]
  BY DEF markPointer, GCInv, TypeOK
<1>3. CASE p = o
  BY <1>1, <1>3
<1>4. CASE color'[o] = color[o]
  BY <1>1, <1>4 DEF OnlyReachableMarked, graphVars
<1> QED
  BY <1>2, <1>3, <1>4

LEMMA MarkRootReachable ==
  ASSUME RefinementInv, MarkRoot
  PROVE  OnlyReachableMarked'
<1>1. phase = "roots" /\ cursor \in Roots /\ markPointer(root[cursor])
      /\ UNCHANGED <<graphVars, root, gcWhiteColor>>
  BY DEF MarkRoot, UnchangedByMarking, paletteVars
<1>2. root[cursor] \in Value
  BY <1>1 DEF RefinementInv, GCInv, TypeOK
<1>3. root[cursor] \in Object =>
        \A S \in SUBSET Object : ClosedUnderMarking(S) => root[cursor] \in S
  BY <1>1 DEF ClosedUnderMarking
<1> QED
  BY <1>1, <1>2, <1>3, MarkPointerReachable DEF RefinementInv

LEMMA MarkFieldReachable ==
  ASSUME RefinementInv, MarkField
  PROVE  OnlyReachableMarked'
<1> DEFINE p == fields[scanning][cursor]
<1>1. phase = "mark" /\ scanning # Null /\ cursor <= LastStrongField(scanning)
      /\ markPointer(p) /\ UNCHANGED <<graphVars, root, gcWhiteColor>>
  BY DEF MarkField, UnchangedByMarking, paletteVars
<1>2. scanning \in Object /\ kind[scanning] # "free" /\ color[scanning] = gcGrayColor
  BY <1>1 DEF RefinementInv, GCInv, TypeOK, GrayInv, Marking
<1>3. cursor \in FieldIndex /\ cursor \in 0 .. LastStrongField(scanning)
  BY <1>1, <1>2, LastStrongFieldType, SizeAssumption
     DEF RefinementInv, GCInv, TypeOK, FieldIndex
<1>4. p \in Value
  BY <1>2, <1>3 DEF RefinementInv, GCInv, TypeOK
<1>5. ASSUME p \in Object, NEW S \in SUBSET Object, ClosedUnderMarking(S)
      PROVE  p \in S
  <2>1. scanning \in S
    BY <1>1, <1>2, <1>5, Palette DEF RefinementInv, GCInv, OnlyReachableMarked
  <2> QED
    BY <1>2, <1>3, <1>5, <2>1 DEF ClosedUnderMarking
<1> HIDE DEF p
<1> QED
  BY <1>1, <1>4, <1>5, MarkPointerReachable DEF RefinementInv

\* Blackening moves the gray that is reachable to black.
LEMMA BlackenReachable ==
  ASSUME RefinementInv, BlackenObject
  PROVE  OnlyReachableMarked'
<1>1. phase = "mark" /\ scanning # Null /\ UNCHANGED <<graphVars, root, gcWhiteColor>>
      /\ color' = [color EXCEPT ![scanning] = gcBlackColor]
  BY DEF BlackenObject, UnchangedByMarking, paletteVars
<1>2. scanning \in Object /\ kind[scanning] # "free" /\ color[scanning] = gcGrayColor
      /\ gcGrayColor # gcWhiteColor
  BY <1>1, Palette DEF RefinementInv, GCInv, TypeOK, GrayInv, Marking
<1> SUFFICES ASSUME NEW o \in Object, kind'[o] # "free", color'[o] # gcWhiteColor',
                    NEW S \in SUBSET Object, ClosedUnderMarking(S)'
             PROVE  o \in S
  BY DEF OnlyReachableMarked
<1>3. ClosedUnderMarking(S)
  BY <1>1, ClosedUnderMarkingUnchanged
<1>4. kind[o] # "free" /\ color[o] # gcWhiteColor
  BY <1>1, <1>2 DEF graphVars, RefinementInv, GCInv, TypeOK
<1> QED
  BY <1>1, <1>3, <1>4 DEF RefinementInv, OnlyReachableMarked

\* A step that changes neither the graph nor colours.
LEMMA SameMarks ==
  ASSUME RefinementInv, UNCHANGED <<graphVars, root, color, gcWhiteColor>>,
         phase \in {"roots", "mark"}
  PROVE  OnlyReachableMarked'
<1> SUFFICES ASSUME NEW o \in Object, kind'[o] # "free", color'[o] # gcWhiteColor',
                    NEW S \in SUBSET Object, ClosedUnderMarking(S)'
             PROVE  o \in S
  BY DEF OnlyReachableMarked
<1>1. ClosedUnderMarking(S)
  BY ClosedUnderMarkingUnchanged
<1> QED
  BY <1>1 DEF RefinementInv, OnlyReachableMarked, graphVars

\* A cycle starts with nothing marked.
LEMMA TriggerReachable ==
  ASSUME RefinementInv, Trigger
  PROVE  OnlyReachableMarked'
<1>1. phase = "mutator" /\ UNCHANGED <<kind, color, gcWhiteColor>>
  BY DEF Trigger, Safepoint, collect, lock, unlock, safepoint, UnchangedBySafepoint,
     graphVars, paletteVars
<1>2. \A o \in Object : kind[o] # "free" => color[o] = gcWhiteColor
  BY <1>1 DEF RefinementInv, GCInv, AllWhite
<1> QED
  BY <1>1, <1>2 DEF OnlyReachableMarked

LEMMA ProgramPhase ==
  ASSUME Program
  PROVE  phase = "mutator" /\ phase' = "mutator"
BY DEF Program, Allocate, shallowCopy, StoreField, LoadField, ForgetRoot, SetRoot,
   markWeakObject, firstInstance, firstInstanceWithType, nextInstance,
   nextInstanceWithSameType, FindFirstInstance, FindNextInstance

LEMMA CycleReachable ==
  ASSUME RefinementInv, performCycle
  PROVE  OnlyReachableMarked'
<1>1. CASE MarkRoot
  BY <1>1, MarkRootReachable
<1>2. CASE MarkField
  BY <1>2, MarkFieldReachable
<1>3. CASE BlackenObject
  BY <1>3, BlackenReachable
<1>4. CASE RootsMarked \/ PopMarkingStack
  <2>1. phase \in {"roots", "mark"} /\ UNCHANGED <<graphVars, root, color, gcWhiteColor>>
    BY <1>4 DEF RootsMarked, PopMarkingStack, UnchangedByMarking, paletteVars
  <2> QED
    BY <2>1, SameMarks
<1>5. CASE \/ MarkingStackEmpty \/ replaceWeakReferencesWithTombstones
           \/ SweepObject \/ SweepDone \/ swapGCColors
  <2>1. phase' \notin {"roots", "mark"}
    BY <1>5 DEF MarkingStackEmpty, replaceWeakReferencesWithTombstones, SweepObject,
       SweepDone, swapGCColors
  <2> QED
    BY <2>1 DEF OnlyReachableMarked
<1> QED
  BY <1>1, <1>2, <1>3, <1>4, <1>5 DEF performCycle

THEOREM MarkingInvariant == Spec => []RefinementInv
<1>1. Init => RefinementInv
  BY InitGCInv DEF RefinementInv, OnlyReachableMarked, Init
<1>2. RefinementInv /\ [Next]_vars => RefinementInv'
  <2> SUFFICES ASSUME RefinementInv, [Next]_vars PROVE RefinementInv'
    OBVIOUS
  <2>1. GCInv'
    BY ProgramSafe, TriggerSafe, CycleSafe, StutterSafe DEF Next, RefinementInv
  <2>2. CASE Program
    BY <2>1, <2>2, ProgramPhase DEF RefinementInv, OnlyReachableMarked
  <2>3. CASE UNCHANGED vars
    <3>1. UNCHANGED <<graphVars, root, color, gcWhiteColor, phase>>
      BY <2>3 DEF vars, paletteVars
    <3>2. CASE phase \in {"roots", "mark"}
      BY <2>1, <3>1, <3>2, SameMarks DEF RefinementInv
    <3>3. CASE phase \notin {"roots", "mark"}
      BY <2>1, <3>1, <3>3 DEF RefinementInv, OnlyReachableMarked
    <3> QED
      BY <3>2, <3>3
  <2> QED
    BY <2>1, <2>2, <2>3, TriggerReachable, CycleReachable DEF Next, RefinementInv
<1> QED
  BY <1>1, <1>2, PTL DEF Spec

-----------------------------------------------------------------------------
(***************************************************************************)
(* The abstract heap.                                                      *)
(***************************************************************************)
\* Until marking ends the abstract heap is the concrete one, but for what free
\* blocks hold.
LEMMA AbstractBeforeMarked ==
  ASSUME ~AfterMarking, NEW o \in Object
  PROVE  /\ AbsKind[o] = kind[o]
         /\ AbsSize[o] = IF kind[o] = "free" THEN 0 ELSE size[o]
         /\ AbsDeclared[o] = IF kind[o] = "free" THEN 0 ELSE declared[o]
         /\ AbsFields[o] = IF kind[o] = "free" THEN NoFields ELSE fields[o]
BY DEF AbsKind, AbsSize, AbsDeclared, AbsFields, Survives, AfterMarking

LEMMA AbstractBeforeMarkedPrimed ==
  ASSUME ~AfterMarking', NEW o \in Object
  PROVE  /\ AbsKind'[o] = kind'[o]
         /\ AbsSize'[o] = IF kind'[o] = "free" THEN 0 ELSE size'[o]
         /\ AbsDeclared'[o] = IF kind'[o] = "free" THEN 0 ELSE declared'[o]
         /\ AbsFields'[o] = IF kind'[o] = "free" THEN NoFields ELSE fields'[o]
BY DEF AbsKind, AbsSize, AbsDeclared, AbsFields, Survives, AfterMarking

AbsVars == <<AbsKind, AbsFields, AbsSize, AbsDeclared, root>>

\* What the program may store, concretely.
LEMMA StorableValues ==
  ASSUME ~AfterMarking, NEW v \in Value, v \in Object => kind[v] # "free"
  PROVE  v \in Abstract!StorableValue
BY AbstractBeforeMarked DEF Abstract!StorableValue, Abstract!Allocated, Value

\* An allocation, of either kind, is the creation of an object.
LEMMA CreateRefines ==
  ASSUME TypeOK, phase = "mutator", phase' = "mutator",
         NEW o \in Object, NEW n \in FieldIndex, NEW r \in Roots, NEW k \in Kind,
         NEW f \in [FieldIndex -> Value], NEW d, kind[o] = "free",
         kind' = [kind EXCEPT ![o] = k],
         size' = [size EXCEPT ![o] = n],
         declared' = [declared EXCEPT ![o] = d],
         fields' = [fields EXCEPT ![o] = f],
         root' = [root EXCEPT ![r] = o],
         \A i \in FieldIndex : f[i] \in Object => kind[f[i]] # "free"
  PROVE  Abstract!Create(o, r)
<1>1. ~AfterMarking /\ ~AfterMarking'
  BY DEF AfterMarking
<1>2. k # "free"
  BY DEF Kind
<1>3. AbsKind[o] = "free" /\ AbsKind'[o] \in Abstract!Kind
  BY <1>1, AbstractBeforeMarked, AbstractBeforeMarkedPrimed DEF TypeOK, Abstract!Kind, Kind
<1>4. ASSUME NEW i \in Abstract!FieldIndex
      PROVE  AbsFields'[o][i] \in Abstract!StorableValue
  <2>1. AbsFields'[o] = f /\ i \in FieldIndex
    BY <1>1, <1>2, AbstractBeforeMarkedPrimed DEF TypeOK, FieldIndex, Abstract!FieldIndex
  <2> QED
    BY <1>1, <2>1, StorableValues
<1>5. ASSUME NEW p \in Object \ {o}
      PROVE  /\ AbsKind'[p] = AbsKind[p] /\ AbsFields'[p] = AbsFields[p]
             /\ AbsSize'[p] = AbsSize[p] /\ AbsDeclared'[p] = AbsDeclared[p]
  <2>1. /\ kind'[p] = kind[p] /\ fields'[p] = fields[p]
        /\ size'[p] = size[p] /\ declared'[p] = declared[p]
    BY DEF TypeOK
  <2> QED
    BY <1>1, <2>1, AbstractBeforeMarked, AbstractBeforeMarkedPrimed
<1> QED
  BY <1>3, <1>4, <1>5 DEF Abstract!Create

\* Nothing but the heap itself counts: a step that leaves the objects, the roots and
\* what survives alone leaves the abstract heap alone.
LEMMA SameHeap ==
  ASSUME UNCHANGED <<graphVars, root>>, ~AfterMarking, ~AfterMarking'
  PROVE  UNCHANGED AbsVars
BY DEF AbsVars, AbsKind, AbsSize, AbsDeclared, AbsFields, Survives, AfterMarking, graphVars

LEMMA AllocateRefines ==
  ASSUME GCInv, NEW o \in Object, NEW sh \in Shape, NEW type \in Value, NEW r \in Roots,
         Allocate(o, sh, type, r)
  PROVE  Abstract!Create(o, r)
<1> DEFINE f == [NoFields EXCEPT ![0] = type]
<1>1. sh.kind \in Kind /\ sh.size \in FieldIndex
  BY ShapeAssumption DEF Kind
<1>2. f \in [FieldIndex -> Value]
  BY NoFieldsType
<1>3. phase = "mutator" /\ (type \in Object => kind[type] # "free")
  BY ValueCases DEF Allocate, GCInv, NoDanglingGraph
<1>4. \A i \in FieldIndex : f[i] \in Object => kind[f[i]] # "free"
  BY <1>3, ValueCases DEF NoFields
<1> HIDE DEF f
<1>5. /\ kind[o] = "free" /\ phase' = "mutator"
      /\ kind' = [kind EXCEPT ![o] = sh.kind] /\ size' = [size EXCEPT ![o] = sh.size]
      /\ declared' = [declared EXCEPT ![o] = sh.declared]
      /\ fields' = [fields EXCEPT ![o] = f] /\ root' = [root EXCEPT ![r] = o]
  BY <1>3 DEF Allocate, AllocateTuple, f
<1> QED
  BY <1>1, <1>2, <1>3, <1>4, <1>5, CreateRefines DEF GCInv

LEMMA shallowCopyRefines ==
  ASSUME GCInv, NEW q \in Roots, NEW o \in Object, NEW r \in Roots, shallowCopy(q, o, r)
  PROVE  Abstract!Create(o, r)
<1> DEFINE c == root[q]
<1>1. c \in Object /\ kind[c] # "free" /\ phase = "mutator"
  BY DEF shallowCopy, GCInv, NoDanglingGraph
<1>2. kind[c] \in Kind /\ size[c] \in FieldIndex /\ fields[c] \in [FieldIndex -> Value]
  BY <1>1 DEF GCInv, TypeOK
<1>3. \A i \in FieldIndex : fields[c][i] \in Object => kind[fields[c][i]] # "free"
  BY <1>1 DEF GCInv, NoDanglingGraph
<1>4. /\ kind[o] = "free" /\ phase' = "mutator"
      /\ kind' = [kind EXCEPT ![o] = kind[c]] /\ size' = [size EXCEPT ![o] = size[c]]
      /\ declared' = [declared EXCEPT ![o] = declared[c]]
      /\ fields' = [fields EXCEPT ![o] = fields[c]] /\ root' = [root EXCEPT ![r] = o]
  BY <1>1 DEF shallowCopy, AllocateTuple
<1> HIDE DEF c
<1> QED
  BY <1>1, <1>2, <1>3, <1>4, CreateRefines DEF GCInv

LEMMA StoreFieldRefines ==
  ASSUME GCInv, NEW q \in Roots, NEW i \in FieldIndex, NEW v \in Value, StoreField(q, i, v)
  PROVE  Abstract!Store(root[q], i)
<1> DEFINE c == root[q]
<1>1. /\ phase = "mutator" /\ ~AfterMarking /\ ~AfterMarking'
      /\ c \in Object /\ kind[c] # "free"
      /\ UNCHANGED <<kind, size, declared, root>>
      /\ fields' = [fields EXCEPT ![c][i] = v]
  BY DEF StoreField, AfterMarking, GCInv, NoDanglingGraph
<1>2. v \in Object => kind[v] # "free"
  BY ValueCases DEF StoreField, GCInv, NoDanglingGraph
<1> HIDE DEF c
<1>3. UNCHANGED <<AbsKind, AbsSize, AbsDeclared>>
  BY <1>1 DEF AbsKind, AbsSize, AbsDeclared, Survives, AfterMarking
<1>4. AbsFields' = [AbsFields EXCEPT ![c][i] = v]
  <2>1. AbsFields[c] = fields[c] /\ fields \in [Object -> [FieldIndex -> Value]]
    BY <1>1, AbstractBeforeMarked DEF GCInv, TypeOK
  <2>2. ASSUME NEW p \in Object
        PROVE  AbsFields'[p] = IF p = c THEN [fields[c] EXCEPT ![i] = v] ELSE AbsFields[p]
    <3>1. fields'[p] = IF p = c THEN [fields[c] EXCEPT ![i] = v] ELSE fields[p]
      BY <1>1, <2>1
    <3> QED
      BY <1>1, <3>1, AbstractBeforeMarked, AbstractBeforeMarkedPrimed
  <2> QED
    BY <1>1, <2>1, <2>2 DEF AbsFields
<1>5. c \in Abstract!Allocated /\ v \in Abstract!StorableValue
  BY <1>1, <1>2, AbstractBeforeMarked, StorableValues DEF Abstract!Allocated
<1> QED
  BY <1>1, <1>3, <1>4, <1>5 DEF Abstract!Store, c

LEMMA SetRootRefines ==
  ASSUME GCInv, NEW r \in Roots, NEW v \in Value, SetRoot(r, v),
         v \in Object => kind[v] # "free"
  PROVE  Abstract!SetRoot(r)
<1>1. ~AfterMarking /\ ~AfterMarking' /\ UNCHANGED graphVars
  BY DEF SetRoot, AfterMarking
<1>2. v \in Abstract!StorableValue
  BY <1>1, StorableValues
<1>3. UNCHANGED <<AbsKind, AbsFields, AbsSize, AbsDeclared>>
  BY <1>1 DEF AbsKind, AbsSize, AbsDeclared, AbsFields, Survives, AfterMarking, graphVars
<1> QED
  BY <1>2, <1>3 DEF SetRoot, Abstract!SetRoot

LEMMA markWeakObjectRefines ==
  ASSUME GCInv, NEW q \in Roots, markWeakObject(q)
  PROVE  Abstract!MarkWeak(root[q])
<1> DEFINE c == root[q]
<1>1. /\ ~AfterMarking /\ ~AfterMarking' /\ c \in Object /\ kind[c] # "free"
      /\ kind' = [kind EXCEPT ![c] = "weak"] /\ UNCHANGED <<fields, size, declared, root>>
  BY DEF markWeakObject, AfterMarking, GCInv, NoDanglingGraph
<1> HIDE DEF c
<1>2. \A p \in Object : kind'[p] = IF p = c THEN "weak" ELSE kind[p]
  BY <1>1 DEF GCInv, TypeOK
<1>3. UNCHANGED <<AbsFields, AbsSize, AbsDeclared>>
  BY <1>1, <1>2 DEF AbsSize, AbsDeclared, AbsFields, Survives, AfterMarking
<1>4. AbsKind' = [AbsKind EXCEPT ![c] = "weak"]
  BY <1>1, <1>2 DEF AbsKind, Survives, AfterMarking
<1>5. c \in Abstract!Allocated
  BY <1>1, AbstractBeforeMarked DEF Abstract!Allocated
<1> QED
  BY <1>1, <1>3, <1>4, <1>5 DEF Abstract!MarkWeak, c

LEMMA ProgramRefines ==
  ASSUME GCInv, Program
  PROVE  Abstract!Next
<1>0. Abstract!Roots = Roots /\ Abstract!FieldIndex = FieldIndex
  BY DEF Abstract!Roots, Roots, Abstract!FieldIndex, FieldIndex
<1>1. ASSUME NEW q \in Roots, NEW r \in Roots, NEW i \in FieldIndex, LoadField(q, i, r)
      PROVE  Abstract!SetRoot(r)
  <2> DEFINE v == fields[root[q]][i]
  <2>1. root[q] \in Object /\ kind[root[q]] # "free"
    BY <1>1, RootSafe DEF LoadField, SetRoot
  <2>2. v \in Value /\ (v \in Object => kind[v] # "free")
    BY <1>1, <2>1 DEF GCInv, TypeOK, NoDanglingGraph, LoadField, SetRoot
  <2> QED
    BY <1>1, <2>2, SetRootRefines DEF LoadField
<1>2. ASSUME NEW r \in Roots, ForgetRoot(r)
      PROVE  Abstract!SetRoot(r)
  BY <1>2, SetRootRefines, ValueCases DEF ForgetRoot
<1>3. ASSUME NEW r \in Roots, NEW types, FindFirstInstance(types, r)
      PROVE  Abstract!SetRoot(r)
  BY <1>3, SetRootRefines, InstanceSafe DEF FindFirstInstance
<1>4. ASSUME NEW q \in Roots, NEW r \in Roots, NEW types, FindNextInstance(q, types, r)
      PROVE  Abstract!SetRoot(r)
  <2>1. PICK n \in DOMAIN heapList, v \in Value :
          IsInstanceFrom(n + 1, types, v) /\ SetRoot(r, v)
    BY <1>4 DEF FindNextInstance
  <2>2. n + 1 \in Nat \ {0}
    BY DEF GCInv, TypeOK
  <2> QED
    BY <2>1, <2>2, SetRootRefines, InstanceSafe
<1>5. ASSUME NEW q \in Roots, NEW i \in FieldIndex, NEW v \in Value, StoreField(q, i, v)
      PROVE  Abstract!Next
  BY <1>0, <1>5, StoreFieldRefines DEF Abstract!Next, StoreField
<1>6. ASSUME NEW q \in Roots, markWeakObject(q)
      PROVE  Abstract!Next
  BY <1>6, markWeakObjectRefines DEF Abstract!Next, markWeakObject
<1> QED
  BY <1>0, <1>1, <1>2, <1>3, <1>4, <1>5, <1>6, AllocateRefines, shallowCopyRefines
     DEF Program, firstInstance, firstInstanceWithType, nextInstance,
         nextInstanceWithSameType, Abstract!Next

-----------------------------------------------------------------------------
(***************************************************************************)
(* The end of marking is the collection.                                   *)
(***************************************************************************)
\* The last strong field is the same seen from above: a type of an object of the
\* heap is in the heap, and so its declared size is there to see.
LEMMA SameStrongFields ==
  ASSUME GCInv, phase = "mark", NEW o \in Object, kind[o] # "free"
  PROVE  Abstract!LastStrongField(o) = LastStrongField(o)
<1>1. ~AfterMarking /\ 0 \in FieldIndex
  BY SizeAssumption DEF AfterMarking, FieldIndex
<1>2. AbsKind[o] = kind[o] /\ AbsSize[o] = size[o] /\ AbsFields[o] = fields[o]
  BY <1>1, AbstractBeforeMarked
<1>3. fields[o][0] \in Object => AbsDeclared[fields[o][0]] = declared[fields[o][0]]
  BY <1>1, AbstractBeforeMarked DEF GCInv, NoDanglingGraph
<1> QED
  BY <1>2, <1>3 DEF Abstract!LastStrongField, LastStrongField

\* A set that the abstract heap calls closed, marking cannot leave.
LEMMA ClosedMeansClosed ==
  ASSUME GCInv, phase = "mark", NEW S \in SUBSET Object, Abstract!Closed(S)
  PROVE  ClosedUnderMarking(S)
<1>1. ~AfterMarking
  BY DEF AfterMarking
<1>2. \A r \in Roots : root[r] \in Object => root[r] \in S
  BY DEF Abstract!Closed, Abstract!Roots, Roots
<1>3. ASSUME NEW o \in S, kind[o] # "free", NEW i \in 0 .. LastStrongField(o),
             fields[o][i] \in Object
      PROVE  fields[o][i] \in S
  <2>1. i \in 0 .. Abstract!LastStrongField(o) /\ AbsFields[o] = fields[o]
    BY <1>1, <1>3, SameStrongFields, AbstractBeforeMarked
  <2> QED
    BY <1>3, <2>1 DEF Abstract!Closed
<1> QED
  BY <1>2, <1>3 DEF ClosedUnderMarking

\* With nothing left to scan, what is marked is closed: it contains the roots, and no
\* black object keeps a white one alive.
LEMMA MarkedIsClosed ==
  ASSUME GCInv, MarkingStackEmpty
  PROVE  Abstract!Closed({o \in Object : kind[o] # "free" /\ color[o] = gcBlackColor})
<1> DEFINE Black == {o \in Object : kind[o] # "free" /\ color[o] = gcBlackColor}
<1>1. phase = "mark" /\ ~AfterMarking /\ scanning = Null /\ markingStack = <<>>
  BY DEF MarkingStackEmpty, AfterMarking
<1>2. ASSUME NEW o \in Object, kind[o] # "free", color[o] # gcWhiteColor
      PROVE  o \in Black
  <2>1. Range(markingStack) = {}
    BY <1>1, ElementsEmpty
  <2> QED
    BY <1>1, <1>2, <2>1, Palette, ValueCases DEF GCInv, GrayInv, Marking
<1>3. ASSUME NEW r \in Roots, root[r] \in Object
      PROVE  root[r] \in Black
  <2>1. kind[root[r]] # "free" /\ color[root[r]] # gcWhiteColor
    BY <1>1, <1>3 DEF GCInv, NoDanglingGraph, RootInv, Marking
  <2> QED
    BY <1>2, <1>3, <2>1
<1>4. ASSUME NEW o \in Black, NEW i \in 0 .. Abstract!LastStrongField(o),
             AbsFields[o][i] \in Object
      PROVE  AbsFields[o][i] \in Black
  <2>1. i \in 0 .. LastStrongField(o) /\ AbsFields[o] = fields[o]
    BY <1>1, <1>4, SameStrongFields, AbstractBeforeMarked
  <2>2. i \in FieldIndex
    BY <1>4, <2>1, LastStrongFieldType, SizeAssumption DEF GCInv, FieldIndex
  <2>3. kind[fields[o][i]] # "free" /\ color[fields[o][i]] # gcWhiteColor
    BY <1>1, <1>4, <2>1, <2>2 DEF GCInv, NoDanglingGraph, BlackInv, Marking
  <2> QED
    BY <1>2, <1>4, <2>1, <2>3
<1> QED
  BY <1>3, <1>4 DEF Abstract!Closed, Abstract!Roots, Roots

\* What is marked in the end is what the roots reach, no less and no more.
LEMMA MarkedIsReachable ==
  ASSUME RefinementInv, MarkingStackEmpty, NEW o \in Object
  PROVE  o \in Abstract!Reachable <=> kind[o] # "free" /\ color[o] = gcBlackColor
<1> DEFINE Black == {p \in Object : kind[p] # "free" /\ color[p] = gcBlackColor}
<1>1. phase = "mark" /\ GCInv
  BY DEF MarkingStackEmpty, RefinementInv
<1>2. ASSUME o \in Abstract!Reachable
      PROVE  o \in Black
  <2>1. Abstract!Closed(Black) /\ Black \in SUBSET Object
    BY <1>1, MarkedIsClosed
  <2> HIDE DEF Black
  <2> QED
    BY <1>2, <2>1 DEF Abstract!Reachable
<1>3. ASSUME o \in Black, NEW S \in SUBSET Object, Abstract!Closed(S)
      PROVE  o \in S
  <2>1. ClosedUnderMarking(S)
    BY <1>1, <1>3, ClosedMeansClosed
  <2>2. color[o] # gcWhiteColor
    BY <1>1, <1>3, Palette DEF GCInv
  <2> QED
    BY <1>1, <1>3, <2>1, <2>2 DEF RefinementInv, OnlyReachableMarked
<1> QED
  BY <1>2, <1>3 DEF Abstract!Reachable

LEMMA MarkingStackEmptyRefines ==
  ASSUME RefinementInv, MarkingStackEmpty
  PROVE  Abstract!Collect
<1> DEFINE Survivors == Abstract!Reachable
<1>1. GCInv /\ phase = "mark" /\ phase' = "weak" /\ ~AfterMarking /\ AfterMarking'
      /\ UNCHANGED <<kind, fields, size, declared, color, gcBlackColor, root>>
  BY DEF RefinementInv, MarkingStackEmpty, UnchangedByMarking, graphVars, paletteVars,
     AfterMarking
<1>2. \A o \in Object : o \in Survivors <=> kind[o] # "free" /\ color[o] = gcBlackColor
  BY MarkedIsReachable
<1> HIDE DEF Survivors
<1>3. ASSUME NEW o \in Object
      PROVE  Survives(o)' <=> o \in Survivors
  BY <1>1, <1>2 DEF Survives, Marked
<1>4. AbsKind' = [o \in Object |-> IF o \in Survivors THEN AbsKind[o] ELSE "free"]
  BY <1>1, <1>2, <1>3, AbstractBeforeMarked DEF AbsKind
<1>5. AbsSize' = [o \in Object |-> IF o \in Survivors THEN AbsSize[o] ELSE 0]
  BY <1>1, <1>2, <1>3, AbstractBeforeMarked DEF AbsSize
<1>6. AbsDeclared' = [o \in Object |-> IF o \in Survivors THEN AbsDeclared[o] ELSE 0]
  BY <1>1, <1>2, <1>3, AbstractBeforeMarked DEF AbsDeclared
<1>7. AbsFields' = [o \in Object |-> Abstract!CollectedFields(o, Survivors)]
  <2>1. ASSUME NEW o \in Object
        PROVE  AbsFields'[o] = Abstract!CollectedFields(o, Survivors)
    <3>1. CASE o \notin Survivors
      BY <1>3, <3>1 DEF AbsFields, Abstract!CollectedFields, NoFields, Abstract!NoFields,
         FieldIndex, Abstract!FieldIndex
    <3>2. CASE o \in Survivors
      <4>1. /\ AbsKind[o] = kind[o] /\ AbsSize[o] = size[o] /\ AbsFields[o] = fields[o]
            /\ kind[o] # "free" /\ color[o] = gcBlackColor
        BY <1>1, <1>2, <3>2, AbstractBeforeMarked
      <4>2. AbsFields'[o] = FieldsAfterWeakPass(o)'
        BY <1>1, <1>3, <3>2 DEF AbsFields
      <4>3. FieldsAfterWeakPass(o)' = FieldsAfterWeakPass(o)
        BY <1>1 DEF FieldsAfterWeakPass
      <4>4. ASSUME NEW i \in FieldIndex, fields[o][i] \in Object
            PROVE  fields[o][i] \in Survivors <=> color[fields[o][i]] = gcBlackColor
        BY <1>1, <1>2, <4>1, <4>4 DEF GCInv, NoDanglingGraph
      <4> QED
        BY <3>2, <4>1, <4>2, <4>3, <4>4 DEF FieldsAfterWeakPass, Abstract!CollectedFields,
           FieldIndex, Abstract!FieldIndex
    <3> QED
      BY <3>1, <3>2
  <2> QED
    BY <2>1 DEF AbsFields
<1> QED
  BY <1>1, <1>4, <1>5, <1>6, <1>7 DEF Abstract!Collect, Survivors

-----------------------------------------------------------------------------
(***************************************************************************)
(* Nothing else in a cycle can be seen.                                    *)
(***************************************************************************)
\* The abstract heap has the tombstones from the moment marking ends.
LEMMA WeakPassUnseen ==
  ASSUME replaceWeakReferencesWithTombstones
  PROVE  UNCHANGED AbsVars
<1>1. /\ phase = "weak" /\ phase' = "sweep"
      /\ fields' = [o \in Object |-> FieldsAfterWeakPass(o)]
      /\ UNCHANGED <<kind, size, declared, color, gcBlackColor, root>>
  BY DEF replaceWeakReferencesWithTombstones, paletteVars
<1>2. \A o \in Object : Survives(o)' <=> Survives(o)
  BY <1>1 DEF Survives, AfterMarking, Marked
<1>3. \A o \in Object : Survives(o) => AbsFields'[o] = AbsFields[o]
  BY <1>1, <1>2 DEF AbsFields
<1>4. UNCHANGED AbsFields
  BY <1>2, <1>3 DEF AbsFields
<1> QED
  BY <1>1, <1>2, <1>4 DEF AbsVars, AbsKind, AbsSize, AbsDeclared

\* A block that is freed had disappeared before.
LEMMA SweepObjectUnseen ==
  ASSUME GCInv, SweepObject
  PROVE  UNCHANGED AbsVars
<1> DEFINE o == Head(sweepPosition)
<1>1. /\ phase = "sweep" /\ phase' = "sweep" /\ o \in Object
      /\ UNCHANGED <<root, gcBlackColor>>
      /\ color[o] = gcBlackColor => KeepObject(o)
      /\ color[o] # gcBlackColor => FreeObject(o)
  BY DEF SweepObject, paletteVars, GCInv, TypeOK
<1> HIDE DEF o
<1>2. CASE color[o] = gcBlackColor
  BY <1>1, <1>2
     DEF KeepObject, graphVars, AbsVars, AbsKind, AbsSize, AbsDeclared, AbsFields, Survives,
         AfterMarking, Marked
<1>3. CASE color[o] # gcBlackColor
  <2>1. ASSUME NEW p \in Object
        PROVE  /\ Survives(p)' <=> Survives(p)
               /\ Survives(p) => /\ kind'[p] = kind[p] /\ fields'[p] = fields[p]
                                 /\ size'[p] = size[p] /\ declared'[p] = declared[p]
    <3>1. CASE p = o
      BY <1>1, <1>3, <3>1 DEF FreeObject, Survives, AfterMarking, Marked, GCInv, TypeOK
    <3>2. CASE p # o
      BY <1>1, <1>3, <3>2 DEF FreeObject, Survives, AfterMarking, Marked, GCInv, TypeOK
    <3> QED
      BY <3>1, <3>2
  <2>2. UNCHANGED AbsKind /\ UNCHANGED AbsSize /\ UNCHANGED AbsDeclared
    BY <2>1 DEF AbsKind, AbsSize, AbsDeclared
  <2>3. UNCHANGED AbsFields
    BY <1>1, <2>1 DEF AbsFields
  <2> QED
    BY <1>1, <2>2, <2>3 DEF AbsVars
<1> QED
  BY <1>2, <1>3

\* When the colours are swapped, all that is left survives.
LEMMA swapGCColorsUnseen ==
  ASSUME GCInv, swapGCColors
  PROVE  UNCHANGED AbsVars
<1>1. /\ phase = "swap" /\ phase' = "mutator"
      /\ UNCHANGED <<kind, fields, size, declared, root>>
  BY DEF swapGCColors, graphVars
<1>2. \A o \in Object : kind[o] # "free" => color[o] = gcBlackColor
  BY <1>1, ElementsEmpty DEF GCInv, Listed, SweepInv, Range
<1>3. \A o \in Object : (Survives(o)' <=> kind[o] # "free") /\ (Survives(o) <=> kind[o] # "free")
  BY <1>1, <1>2 DEF Survives, AfterMarking, Marked
<1>4. UNCHANGED AbsKind /\ UNCHANGED AbsSize /\ UNCHANGED AbsDeclared
  BY <1>1, <1>3 DEF AbsKind, AbsSize, AbsDeclared
<1>5. UNCHANGED AbsFields
  BY <1>1, <1>3 DEF AbsFields
<1> QED
  BY <1>1, <1>4, <1>5 DEF AbsVars

LEMMA CycleRefines ==
  ASSUME RefinementInv, performCycle
  PROVE  Abstract!Collect \/ UNCHANGED AbsVars
<1>1. CASE \/ MarkRoot \/ RootsMarked \/ PopMarkingStack \/ MarkField \/ BlackenObject
  <2>1. UNCHANGED <<graphVars, root>> /\ ~AfterMarking /\ ~AfterMarking'
    BY <1>1 DEF MarkRoot, RootsMarked, PopMarkingStack, MarkField, BlackenObject,
       UnchangedByMarking, AfterMarking
  <2> QED
    BY <2>1, SameHeap
<1>2. CASE MarkingStackEmpty
  BY <1>2, MarkingStackEmptyRefines
<1>3. CASE replaceWeakReferencesWithTombstones
  BY <1>3, WeakPassUnseen
<1>4. CASE SweepObject
  BY <1>4, SweepObjectUnseen DEF RefinementInv
<1>5. CASE SweepDone
  BY <1>5 DEF SweepDone, graphVars, paletteVars, AbsVars, AbsKind, AbsSize, AbsDeclared,
     AbsFields, Survives, AfterMarking, Marked
<1>6. CASE swapGCColors
  BY <1>6, swapGCColorsUnseen DEF RefinementInv
<1> QED
  BY <1>1, <1>2, <1>3, <1>4, <1>5, <1>6 DEF performCycle

LEMMA TriggerUnseen ==
  ASSUME Trigger
  PROVE  UNCHANGED AbsVars
<1>1. UNCHANGED <<graphVars, root>> /\ ~AfterMarking /\ ~AfterMarking'
  BY DEF Trigger, Safepoint, collect, lock, unlock, safepoint, UnchangedBySafepoint,
     AfterMarking
<1> QED
  BY <1>1, SameHeap

LEMMA InitRefines ==
  ASSUME Init
  PROVE  Abstract!Init
<1>1. \A o \in Object : ~Survives(o)
  BY DEF Init, Survives
<1> QED
  BY <1>1 DEF Init, Abstract!Init, AbsKind, AbsSize, AbsDeclared, AbsFields, NoFields,
     Abstract!NoFields, FieldIndex, Abstract!FieldIndex, Roots, Abstract!Roots

\* What a collection removes is exactly what the roots do not reach, what it changes is
\* exactly the weak references to it, and the program sees nothing else of a collector.
THEOREM ImplementsReachabilityHeapHolds == Spec => ImplementsReachabilityHeap
<1>1. Init => Abstract!Init
  BY InitRefines
<1>2. RefinementInv /\ [Next]_vars => [Abstract!Next]_AbsVars
  <2> SUFFICES ASSUME RefinementInv, [Next]_vars PROVE [Abstract!Next]_AbsVars
    OBVIOUS
  <2>1. CASE Program
    BY <2>1, ProgramRefines DEF RefinementInv
  <2>2. CASE Trigger
    BY <2>2, TriggerUnseen
  <2>3. CASE performCycle
    BY <2>3, CycleRefines DEF Abstract!Next
  <2>4. CASE UNCHANGED vars
    BY <2>4 DEF vars, graphVars, paletteVars, AbsVars, AbsKind, AbsSize, AbsDeclared,
       AbsFields, Survives, AfterMarking, Marked, FieldsAfterWeakPass
  <2> QED
    BY <2>1, <2>2, <2>3, <2>4 DEF Next
<1> QED
  BY <1>1, <1>2, MarkingInvariant, PTL
     DEF Spec, ImplementsReachabilityHeap, Abstract!Spec, Abstract!vars, AbsVars
=============================================================================
