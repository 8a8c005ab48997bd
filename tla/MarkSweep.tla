----------------------------- MODULE MarkSweep ------------------------------
(***************************************************************************)
(* The object heap of the virtual machine and its stop-the-world           *)
(* mark-and-sweep collector (lib/sysbvm/gc.c, lib/sysbvm/heap.c) under a   *)
(* program that allocates, copies, stores, loads, forgets, locks the       *)
(* collector and reaches safepoints.                                       *)
(*                                                                         *)
(* The program runs while phase = "mutator".  A cycle is one call of       *)
(* sysbvm_gc_performCycle, cut into the steps a reader of the code would   *)
(* count: a root marked, an object popped, a field marked, an object       *)
(* blackened, the tombstone pass, an object swept, the colours swapped.    *)
(*                                                                         *)
(* Abstracted: identity hashes, the bytes of byte objects, and which of    *)
(* the four tables a root cell belongs to (context roots, GC root table,   *)
(* PIC entries, GC roots of stack records): Roots numbers them all, in     *)
(* the order gc.c visits them.                                             *)
(***************************************************************************)
EXTENDS Integers, Sequences, FiniteSets, Functions

CONSTANTS
  Object,           \* addresses malloc can hand out
  Null,             \* the null tuple, and any other immediate value
  Tombstone,        \* SYSBVM_TOMBSTONE_TUPLE
  NRoots,           \* number of root cells
  MaxSize,          \* largest number of slots of an object
  Shape,            \* what the program allocates: [kind, size, declared]
  StartupHeapSize,  \* SYSBVM_HEAP_STARTUP_HEAP_SIZE
  GammaFactor,      \* SYSBVM_HEAP_COLLECTION_GAMMA_FACTOR
  GcDisabled,       \* context->gcDisabled
  MaxLockDepth      \* bound on nested sysbvm_gc_lock

Roots == 1 .. NRoots
FieldIndex == 0 .. MaxSize
Kind == {"bytes", "pointers", "weak"}
Value == Object \cup {Null, Tombstone}

ASSUME ValueAssumption == Null \notin Object /\ Tombstone \notin Object /\ Null # Tombstone
ASSUME SizeAssumption ==
  /\ NRoots \in Nat /\ MaxSize \in Nat /\ MaxLockDepth \in Nat
  /\ StartupHeapSize \in Nat /\ GammaFactor \in Nat \ {0}
  /\ GcDisabled \in BOOLEAN
ASSUME ShapeAssumption ==
  Shape \subseteq [kind : {"bytes", "pointers"}, size : FieldIndex, declared : FieldIndex]

VARIABLES
  kind,                   \* object kind, or "free" where nothing lives
  fields,                 \* fields[o][0] is the type, 1 .. size[o] the slots
  size,                   \* slots of the object, or words of the bytes
  declared,               \* totalSlotCount of an object used as a type
  color,                  \* GC colour bits of the header
  heapList,               \* the malloc list, first to last
  totalSize,              \* heap->totalSize
  nextGCSizeThreshold,    \* heap->nextGCSizeThreshold
  shouldAttemptToCollect, \* heap->shouldAttemptToCollect
  gcWhiteColor,           \* heap->gcWhiteColor
  gcBlackColor,           \* heap->gcBlackColor
  root,                   \* the root cells
  lockCount,              \* sysbvm_gc_perThreadLockCount
  phase,                  \* where performCycle is; "mutator" outside it
  markingStack,           \* context->markingStack
  scanning,               \* the object of markObjectContent, or Null
  cursor,                 \* next root, or next field of scanning, to mark
  sweepPosition           \* objects performSweep has still to visit

graphVars == <<kind, fields, size, declared>>
listVars == <<heapList, totalSize>>
triggerVars == <<nextGCSizeThreshold, shouldAttemptToCollect, lockCount>>
paletteVars == <<gcWhiteColor, gcBlackColor>>
markVars == <<markingStack, scanning, cursor>>
vars == <<graphVars, color, listVars, triggerVars, paletteVars, root, phase,
          markVars, sweepPosition>>

gcGrayColor == 1
Color == {0, 1, 2}
Allocated == {o \in Object : kind[o] # "free"}
NoFields == [i \in FieldIndex |-> Null]

\* The size malloc is asked for: the two headers and the slots.
HeaderSize == 1
AllocationSize(n) == HeaderSize + n

-----------------------------------------------------------------------------
(***************************************************************************)
(* The program, between collections.                                       *)
(***************************************************************************)
Init ==
  /\ kind = [o \in Object |-> "free"]
  /\ fields = [o \in Object |-> NoFields]
  /\ size = [o \in Object |-> 0]
  /\ declared = [o \in Object |-> 0]
  /\ color = [o \in Object |-> 0]
  /\ heapList = <<>>
  /\ totalSize = 0
  /\ nextGCSizeThreshold = 0
  /\ shouldAttemptToCollect = FALSE
  /\ gcWhiteColor = 0
  /\ gcBlackColor = 2
  /\ root = [r \in Roots |-> Null]
  /\ lockCount = 0
  /\ phase = "mutator"
  /\ markingStack = <<>>
  /\ scanning = Null
  /\ cursor = 1
  /\ sweepPosition = <<>>

\* Mutant: a request that waits is not looked at first.
checkForGCThreshold_forgets ==
  shouldAttemptToCollect' = (totalSize' > nextGCSizeThreshold)

checkForGCThreshold ==
  shouldAttemptToCollect' =
    (shouldAttemptToCollect \/ totalSize' > nextGCSizeThreshold)

\* Link a block at the end of the list, account for it, and let the threshold
\* ask for a collection: allocation itself never collects.
AllocateTuple(o, n) ==
  /\ kind[o] = "free"
  /\ heapList' = Append(heapList, o)
  /\ totalSize' = totalSize + AllocationSize(n)
  /\ color' = [color EXCEPT ![o] = gcWhiteColor]
  /\ checkForGCThreshold

\* A weak object is allocated as a pointer tuple and then marked weak.  The
\* program holds the type it allocates with, and keeps the result in r.
Allocate(o, sh, type, r) ==
  /\ phase = "mutator"
  /\ type \in {root[q] : q \in Roots} \cup {Null}
  /\ type \in Object => sh.size >= declared[type]
  /\ AllocateTuple(o, sh.size)
  /\ kind' = [kind EXCEPT ![o] = sh.kind]
  /\ size' = [size EXCEPT ![o] = sh.size]
  /\ declared' = [declared EXCEPT ![o] = sh.declared]
  /\ fields' = [fields EXCEPT ![o] = [NoFields EXCEPT ![0] = type]]
  /\ root' = [root EXCEPT ![r] = o]
  /\ UNCHANGED <<nextGCSizeThreshold, lockCount, paletteVars, phase, markVars,
                 sweepPosition>>

\* memcpy of the whole tuple, header included, then the colour is set.
shallowCopy(q, o, r) ==
  /\ phase = "mutator"
  /\ root[q] \in Object
  /\ AllocateTuple(o, size[root[q]])
  /\ kind' = [kind EXCEPT ![o] = kind[root[q]]]
  /\ size' = [size EXCEPT ![o] = size[root[q]]]
  /\ declared' = [declared EXCEPT ![o] = declared[root[q]]]
  /\ fields' = [fields EXCEPT ![o] = fields[root[q]]]
  /\ root' = [root EXCEPT ![r] = o]
  /\ UNCHANGED <<nextGCSizeThreshold, lockCount, paletteVars, phase, markVars,
                 sweepPosition>>

UnchangedByProgram == <<color, listVars, nextGCSizeThreshold, paletteVars,
                        markVars, sweepPosition>>

\* A slot of the object in root q, or its type through setType, takes value v.
StoreField(q, i, v) ==
  /\ phase = "mutator"
  /\ root[q] \in Object
  /\ i = 0 \/ (kind[root[q]] # "bytes" /\ i \in 1 .. size[root[q]])
  /\ v \in {root[p] : p \in Roots} \cup {Null}
  /\ (i = 0 /\ v \in Object) => size[root[q]] >= declared[v]
  /\ fields' = [fields EXCEPT ![root[q]][i] = v]
  /\ UNCHANGED <<kind, size, declared, root, shouldAttemptToCollect, lockCount,
                 phase, UnchangedByProgram>>

SetRoot(r, v) ==
  /\ phase = "mutator"
  /\ root' = [root EXCEPT ![r] = v]
  /\ UNCHANGED <<graphVars, shouldAttemptToCollect, lockCount, phase,
                 UnchangedByProgram>>

LoadField(q, i, r) ==
  /\ root[q] \in Object
  /\ i = 0 \/ (kind[root[q]] # "bytes" /\ i \in 1 .. size[root[q]])
  /\ SetRoot(r, fields[root[q]][i])

\* A stack record is popped, a table entry is overwritten: r forgets its value.
ForgetRoot(r) == SetRoot(r, Null)

markWeakObject(q) ==
  /\ phase = "mutator"
  /\ root[q] \in Object
  /\ kind[root[q]] = "pointers"
  /\ kind' = [kind EXCEPT ![root[q]] = "weak"]
  /\ UNCHANGED <<fields, size, declared, root, shouldAttemptToCollect, lockCount,
                 phase, UnchangedByProgram>>

\* v is the first object of one of the types given, from position n of the list on:
\* an object no root reaches any more is found like any other.
IsInstanceFrom(n, types, v) ==
  \/ \E i \in n .. Len(heapList) :
       /\ v = heapList[i]
       /\ fields[v][0] \in types
       /\ \A j \in n .. i - 1 : fields[heapList[j]][0] \notin types
  \/ /\ v = Null
     /\ \A i \in n .. Len(heapList) : fields[heapList[i]][0] \notin types

FindFirstInstance(types, r) ==
  \E v \in Value : IsInstanceFrom(1, types, v) /\ SetRoot(r, v)

FindNextInstance(q, types, r) ==
  \E n \in DOMAIN heapList, v \in Value :
    /\ heapList[n] = root[q]
    /\ IsInstanceFrom(n + 1, types, v)
    /\ SetRoot(r, v)

firstInstance(r) == FindFirstInstance(Value, r)
firstInstanceWithType(q, r) == FindFirstInstance({root[q]}, r)
nextInstance(q, r) == root[q] \in Object /\ FindNextInstance(q, Value, r)
nextInstanceWithSameType(q, r) ==
  root[q] \in Object /\ FindNextInstance(q, {fields[root[q]][0]}, r)

-----------------------------------------------------------------------------
(***************************************************************************)
(* What starts a cycle.                                                    *)
(***************************************************************************)
\* The calls of sysbvm_gc_safepoint, seen from the values the caller leaves in
\* the lock count and in the request flag: a cycle starts, or nothing happens.
safepoint(locks, request) ==
  IF locks = 0 /\ request /\ ~GcDisabled
  THEN phase' = "roots" /\ cursor' = 1
  ELSE UNCHANGED <<phase, cursor>>

UnchangedBySafepoint == <<graphVars, color, listVars, nextGCSizeThreshold,
                          paletteVars, root, markingStack, scanning, sweepPosition>>

Safepoint ==
  /\ phase = "mutator"
  /\ safepoint(lockCount, shouldAttemptToCollect)
  /\ UNCHANGED <<shouldAttemptToCollect, lockCount, UnchangedBySafepoint>>

collect ==
  /\ phase = "mutator"
  /\ shouldAttemptToCollect' = TRUE
  /\ safepoint(lockCount, TRUE)
  /\ UNCHANGED <<lockCount, UnchangedBySafepoint>>

lock ==
  /\ phase = "mutator"
  /\ lockCount < MaxLockDepth
  /\ lockCount' = lockCount + 1
  /\ UNCHANGED <<shouldAttemptToCollect, phase, cursor, UnchangedBySafepoint>>

unlock ==
  /\ phase = "mutator"
  /\ lockCount > 0
  /\ lockCount' = lockCount - 1
  /\ safepoint(lockCount', shouldAttemptToCollect)
  /\ UNCHANGED <<shouldAttemptToCollect, UnchangedBySafepoint>>

-----------------------------------------------------------------------------
(***************************************************************************)
(* One cycle: mark, replace weak references, sweep, swap colours.          *)
(***************************************************************************)
UnchangedByMarking == <<graphVars, listVars, triggerVars, paletteVars, root,
                        sweepPosition>>

markPointer(pointer) ==
  IF pointer \in Object /\ color[pointer] = gcWhiteColor
  THEN /\ color' = [color EXCEPT ![pointer] = gcGrayColor]
       /\ markingStack' = Append(markingStack, pointer)
  ELSE UNCHANGED <<color, markingStack>>

MarkRoot ==
  /\ phase = "roots"
  /\ cursor \in Roots
  /\ markPointer(root[cursor])
  /\ cursor' = cursor + 1
  /\ UNCHANGED <<scanning, phase, UnchangedByMarking>>

RootsMarked ==
  /\ phase = "roots"
  /\ cursor \notin Roots
  /\ phase' = "mark"
  /\ cursor' = 0
  /\ UNCHANGED <<color, markingStack, scanning, UnchangedByMarking>>

\* Mutant: the slots past the declared ones of a weak object are strong too.
LastStrongField_all(o) == IF kind[o] = "bytes" THEN 0 ELSE size[o]

\* markObjectContent marks fields 0 (the type) to LastStrongField: no slot of a
\* byte object, every slot of an ordinary one, the slots its type declares of a
\* weak one.
LastStrongField(o) ==
  CASE kind[o] = "pointers" -> size[o]
    [] kind[o] = "weak" /\ fields[o][0] \in Object -> declared[fields[o][0]]
    [] OTHER -> 0

\* Mutant: the object on top of the stack is read but left there.
PopMarkingStack_peek ==
  /\ phase = "mark"
  /\ scanning = Null
  /\ markingStack # <<>>
  /\ scanning' = markingStack[Len(markingStack)]
  /\ UNCHANGED <<color, markingStack, cursor, phase, UnchangedByMarking>>

PopMarkingStack ==
  /\ phase = "mark"
  /\ scanning = Null
  /\ markingStack # <<>>
  /\ scanning' = markingStack[Len(markingStack)]
  /\ markingStack' = SubSeq(markingStack, 1, Len(markingStack) - 1)
  /\ UNCHANGED <<color, cursor, phase, UnchangedByMarking>>

MarkField ==
  /\ phase = "mark"
  /\ scanning # Null
  /\ cursor <= LastStrongField(scanning)
  /\ markPointer(fields[scanning][cursor])
  /\ cursor' = cursor + 1
  /\ UNCHANGED <<scanning, phase, UnchangedByMarking>>

\* Mutant: the object is blackened with its last field still to mark.
BlackenObject_early ==
  /\ phase = "mark"
  /\ scanning # Null
  /\ cursor >= LastStrongField(scanning)
  /\ color' = [color EXCEPT ![scanning] = gcBlackColor]
  /\ scanning' = Null
  /\ cursor' = 0
  /\ UNCHANGED <<markingStack, phase, UnchangedByMarking>>

BlackenObject ==
  /\ phase = "mark"
  /\ scanning # Null
  /\ cursor > LastStrongField(scanning)
  /\ color' = [color EXCEPT ![scanning] = gcBlackColor]
  /\ scanning' = Null
  /\ cursor' = 0
  /\ UNCHANGED <<markingStack, phase, UnchangedByMarking>>

MarkingStackEmpty ==
  /\ phase = "mark"
  /\ scanning = Null
  /\ markingStack = <<>>
  /\ phase' = "weak"
  /\ UNCHANGED <<color, markVars, UnchangedByMarking>>

\* Mutant: only weak references to objects never marked at all are noticed in
\* the slots the type declares, and the others are left alone.
FieldsAfterWeakPass_declared(o) ==
  [i \in FieldIndex |->
     IF /\ color[o] = gcBlackColor /\ kind[o] = "weak" /\ i \in 1 .. LastStrongField(o)
        /\ fields[o][i] \in Object /\ color[fields[o][i]] # gcBlackColor
     THEN Tombstone
     ELSE fields[o][i]]

\* The tombstone pass visits every slot of the weak objects that are black.
FieldsAfterWeakPass(o) ==
  [i \in FieldIndex |->
     IF /\ color[o] = gcBlackColor /\ kind[o] = "weak" /\ i \in 1 .. size[o]
        /\ fields[o][i] \in Object /\ color[fields[o][i]] # gcBlackColor
     THEN Tombstone
     ELSE fields[o][i]]

\* Then performSweep takes the list over and starts a new one.
replaceWeakReferencesWithTombstones ==
  /\ phase = "weak"
  /\ fields' = [o \in Object |-> FieldsAfterWeakPass(o)]
  /\ sweepPosition' = heapList
  /\ heapList' = <<>>
  /\ phase' = "sweep"
  /\ UNCHANGED <<kind, size, declared, color, totalSize, triggerVars, paletteVars,
                 root, markVars>>

\* Mutant: the survivor is not linked into the new list.
KeepObject_unlinked(o) == UNCHANGED <<heapList, graphVars, color, totalSize>>

KeepObject(o) ==
  /\ heapList' = Append(heapList, o)
  /\ UNCHANGED <<graphVars, color, totalSize>>

\* Mutant: the block is returned to malloc without leaving the account.
FreeObject_unaccounted(o) ==
  /\ kind' = [kind EXCEPT ![o] = "free"]
  /\ fields' = [fields EXCEPT ![o] = NoFields]
  /\ size' = [size EXCEPT ![o] = 0]
  /\ declared' = [declared EXCEPT ![o] = 0]
  /\ color' = [color EXCEPT ![o] = 0]
  /\ UNCHANGED <<heapList, totalSize>>

\* The contents of a free block mean nothing: they take one canonical value.
FreeObject(o) ==
  /\ totalSize' = totalSize - AllocationSize(size[o])
  /\ kind' = [kind EXCEPT ![o] = "free"]
  /\ fields' = [fields EXCEPT ![o] = NoFields]
  /\ size' = [size EXCEPT ![o] = 0]
  /\ declared' = [declared EXCEPT ![o] = 0]
  /\ color' = [color EXCEPT ![o] = 0]
  /\ UNCHANGED heapList

SweepObject ==
  /\ phase = "sweep"
  /\ sweepPosition # <<>>
  /\ IF color[Head(sweepPosition)] = gcBlackColor
     THEN KeepObject(Head(sweepPosition))
     ELSE FreeObject(Head(sweepPosition))
  /\ sweepPosition' = Tail(sweepPosition)
  /\ UNCHANGED <<triggerVars, paletteVars, root, phase, markVars>>

\* Mutant: the smaller of the two sizes, instead of the larger.
computeNextCollectionThreshold_smaller ==
  LET liveDataSize == IF totalSize < StartupHeapSize THEN totalSize ELSE StartupHeapSize
  IN /\ shouldAttemptToCollect' = FALSE
     /\ nextGCSizeThreshold' = liveDataSize * GammaFactor

computeNextCollectionThreshold ==
  LET liveDataSize == IF totalSize < StartupHeapSize THEN StartupHeapSize ELSE totalSize
  IN /\ shouldAttemptToCollect' = FALSE
     /\ nextGCSizeThreshold' = liveDataSize * GammaFactor

SweepDone ==
  /\ phase = "sweep"
  /\ sweepPosition = <<>>
  /\ computeNextCollectionThreshold
  /\ phase' = "swap"
  /\ UNCHANGED <<graphVars, color, listVars, lockCount, paletteVars, root, markVars,
                 sweepPosition>>

\* Mutant: the swap without the temporary.
swapGCColors_no_temp ==
  /\ phase = "swap"
  /\ gcBlackColor' = gcWhiteColor
  /\ gcWhiteColor' = gcBlackColor'
  /\ phase' = "mutator"
  /\ cursor' = 1
  /\ UNCHANGED <<graphVars, color, listVars, triggerVars, root, markingStack,
                 scanning, sweepPosition>>

\* The survivors, black, are white for the next cycle without being touched.
swapGCColors ==
  /\ phase = "swap"
  /\ gcBlackColor' = gcWhiteColor
  /\ gcWhiteColor' = gcBlackColor
  /\ phase' = "mutator"
  /\ cursor' = 1
  /\ UNCHANGED <<graphVars, color, listVars, triggerVars, root, markingStack,
                 scanning, sweepPosition>>

-----------------------------------------------------------------------------
Program ==
  \/ \E o \in Object, sh \in Shape, type \in Value, r \in Roots :
       Allocate(o, sh, type, r)
  \/ \E q, r \in Roots, o \in Object : shallowCopy(q, o, r)
  \/ \E q \in Roots, i \in FieldIndex, v \in Value : StoreField(q, i, v)
  \/ \E q, r \in Roots, i \in FieldIndex : LoadField(q, i, r)
  \/ \E r \in Roots : ForgetRoot(r)
  \/ \E q \in Roots : markWeakObject(q)
  \/ \E r \in Roots : firstInstance(r)
  \/ \E q, r \in Roots : firstInstanceWithType(q, r)
  \/ \E q, r \in Roots : nextInstance(q, r)
  \/ \E q, r \in Roots : nextInstanceWithSameType(q, r)

Trigger == Safepoint \/ collect \/ lock \/ unlock

performCycle ==
  \/ MarkRoot \/ RootsMarked
  \/ PopMarkingStack \/ MarkField \/ BlackenObject \/ MarkingStackEmpty
  \/ replaceWeakReferencesWithTombstones
  \/ SweepObject \/ SweepDone
  \/ swapGCColors

Next == Program \/ Trigger \/ performCycle

\* The cycle is straight-line code of the one thread there is: once started it
\* runs on.  Nothing is assumed of the program.
Fairness == WF_vars(performCycle)

Spec == Init /\ [][Next]_vars /\ Fairness

-----------------------------------------------------------------------------
(***************************************************************************)
(* Properties.                                                             *)
(***************************************************************************)
\* Every variable stays in its type; black and white are always the two colours
\* that are not gray, whichever way round the last swap left them.
TypeOK ==
  /\ kind \in [Object -> Kind \cup {"free"}]
  /\ fields \in [Object -> [FieldIndex -> Value]]
  /\ size \in [Object -> FieldIndex]
  /\ declared \in [Object -> FieldIndex]
  /\ color \in [Object -> Color]
  /\ heapList \in Seq(Object) /\ sweepPosition \in Seq(Object)
  /\ totalSize \in Int /\ nextGCSizeThreshold \in Int
  /\ shouldAttemptToCollect \in BOOLEAN
  /\ \/ gcWhiteColor = 0 /\ gcBlackColor = 2
     \/ gcWhiteColor = 2 /\ gcBlackColor = 0
  /\ root \in [Roots -> Value]
  /\ lockCount \in 0 .. MaxLockDepth
  /\ phase \in {"mutator", "roots", "mark", "weak", "sweep", "swap"}
  /\ markingStack \in Seq(Object)
  /\ scanning \in Object \cup {Null}
  /\ cursor \in Nat

\* Whenever the program runs, no field of any object still in the heap, strong
\* or weak, reachable or garbage that an instance enumeration may resurrect, and
\* no root, holds the address of an object that was freed.
NoDanglingPointer ==
  phase = "mutator" =>
    /\ \A r \in Roots : root[r] \in Object => root[r] \in Allocated
    /\ \A o \in Allocated : \A i \in 0 .. size[o] :
         fields[o][i] \in Object => fields[o][i] \in Allocated

\* What the program allocates between cycles and what survived the last one have
\* the same colour, white, and the marking stack is empty: a cycle never starts
\* with an object it would take for marked.
WhiteBetweenCycles ==
  phase = "mutator" =>
    /\ \A o \in Allocated : color[o] = gcWhiteColor
    /\ markingStack = <<>> /\ scanning = Null

\* The marking invariant of gc.c: from all white, a black object refers to no
\* white one through a field that keeps its target alive, and what is gray is
\* being scanned or on the marking stack, once, so no gray object is forgotten or
\* scanned twice.
TriColour ==
  /\ WhiteBetweenCycles
  /\ phase \in {"roots", "mark", "weak"} =>
       /\ \A o \in Allocated : color[o] = gcBlackColor =>
            \A i \in 0 .. LastStrongField(o) :
              fields[o][i] \in Object => color[fields[o][i]] # gcWhiteColor
       /\ \A o \in Allocated :
            color[o] = gcGrayColor <=> o \in {scanning} \cup Range(markingStack)
       /\ scanning \notin Range(markingStack) /\ IsInjective(markingStack)

\* No object is lost between the list the sweep walks and the list it builds, nor
\* linked twice: at every step each object of the heap is in one of them, once.
EveryBlockListed ==
  /\ Allocated = Range(heapList) \cup Range(sweepPosition)
  /\ Range(heapList) \cap Range(sweepPosition) = {}
  /\ IsInjective(heapList) /\ IsInjective(sweepPosition)

\* totalSize, on which the next collection depends, is the sum of the sizes of the
\* objects of the heap, at every step of the sweep.
HeapAccount ==
  totalSize = FoldFunction(+, 0, [o \in Allocated |-> AllocationSize(size[o])])

\* A collection is due: it was asked for, or the heap is above its threshold.
CollectionDue == shouldAttemptToCollect \/ totalSize > nextGCSizeThreshold

\* No request is lost, whatever the program allocates, locks and unlocks after it: a
\* collection that is due stays due until the sweep of a cycle has ended; the unlock
\* that ends the last lock starts it at once, be it asked for or be the heap above the
\* threshold that the last cycle has left; and no cycle starts that is not due, or while
\* a lock is held.
RequestsAreServed ==
  [][/\ CollectionDue => CollectionDue' \/ phase' = "swap"
     /\ CollectionDue /\ lockCount > 0 /\ lockCount' = 0 /\ ~GcDisabled => phase' = "roots"
     /\ phase = "mutator" /\ phase' # "mutator" => CollectionDue' /\ lockCount' = 0
    ]_vars

\* Every cycle comes to an end, cyclic structures included.
CycleTerminates == phase # "mutator" ~> phase = "mutator"

-----------------------------------------------------------------------------
(***************************************************************************)
(* The collector implements ReachabilityHeap: up to the end of marking the *)
(* abstract heap is the concrete one, and from there on it is what the     *)
(* black objects will be once tombstones are in place.  The end of marking *)
(* is the abstract Collect, every other step of the cycle changes nothing. *)
(***************************************************************************)
Marked == {o \in Object : color[o] = gcBlackColor}
AfterMarking == phase \in {"weak", "sweep", "swap"}
Survives(o) == kind[o] # "free" /\ (AfterMarking => o \in Marked)

AbsKind == [o \in Object |-> IF Survives(o) THEN kind[o] ELSE "free"]
AbsSize == [o \in Object |-> IF Survives(o) THEN size[o] ELSE 0]
AbsDeclared == [o \in Object |-> IF Survives(o) THEN declared[o] ELSE 0]
AbsFields ==
  [o \in Object |->
     CASE ~Survives(o) -> NoFields
       [] Survives(o) /\ phase = "weak" -> FieldsAfterWeakPass(o)
       [] OTHER -> fields[o]]

Abstract == INSTANCE ReachabilityHeap WITH
  kind <- AbsKind, size <- AbsSize, declared <- AbsDeclared, fields <- AbsFields

\* What a collection removes is exactly what the roots do not reach, what it
\* changes is exactly the weak references to it, and nothing the program does
\* between collections sees anything else.
ImplementsReachabilityHeap == Abstract!Spec
=============================================================================
