-------------------------- MODULE ReachabilityHeap --------------------------
(***************************************************************************)
(* What the sysbvm heap promises the program that runs on it, with no      *)
(* collector in sight: objects are created, stored into and forgotten, and *)
(* from time to time everything that the roots cannot reach disappears, at *)
(* once, and nothing else changes but the weak references to what has      *)
(* disappeared, which become tombstones.                                   *)
(*                                                                         *)
(* An object is an address of Object.  fields[o][0] is its type, and       *)
(* fields[o][1 .. size[o]] its pointer slots.  declared[o] only matters    *)
(* when o is used as a type: it is the type's totalSlotCount.              *)
(***************************************************************************)
EXTENDS Integers

CONSTANTS
  Object,      \* addresses malloc can hand out
  Null,        \* the null tuple, and any other immediate
  Tombstone,   \* SYSBVM_TOMBSTONE_TUPLE
  NRoots,      \* number of root cells
  MaxSize      \* largest number of pointer slots of an object

VARIABLES kind, fields, size, declared, root

Value == Object \cup {Null, Tombstone}
Roots == 1 .. NRoots
FieldIndex == 0 .. MaxSize
Kind == {"bytes", "pointers", "weak"}

Allocated == {o \in Object : kind[o] # "free"}

\* Index of the last field that keeps its target alive: the type always does,
\* a byte object has no other, a weak object keeps those its type declares.
LastStrongField(o) ==
  CASE kind[o] = "pointers" -> size[o]
    [] kind[o] = "weak" /\ fields[o][0] \in Object -> declared[fields[o][0]]
    [] OTHER -> 0

Closed(S) ==
  /\ \A r \in Roots : root[r] \in Object => root[r] \in S
  /\ \A o \in S : \A i \in 0 .. LastStrongField(o) :
       fields[o][i] \in Object => fields[o][i] \in S

\* What a chain of strong references leads to: the least closed set.
Reachable == {o \in Object : \A S \in SUBSET Object : Closed(S) => o \in S}

NoFields == [i \in FieldIndex |-> Null]

Init ==
  /\ kind = [o \in Object |-> "free"]
  /\ fields = [o \in Object |-> NoFields]
  /\ size = [o \in Object |-> 0]
  /\ declared = [o \in Object |-> 0]
  /\ root = [r \in Roots |-> Null]

\* What a slot or a root may take: any object, one nothing reaches any more
\* included, because the instance enumeration primitives find it until a collection
\* removes it.
StorableValue == Allocated \cup {Null, Tombstone}

\* A new object, at an address nothing lives at, that refers to what exists.
Create(o, r) ==
  /\ kind[o] = "free"
  /\ kind'[o] \in Kind
  /\ \A i \in FieldIndex : fields'[o][i] \in StorableValue
  /\ \A p \in Object \ {o} :
       /\ kind'[p] = kind[p]
       /\ fields'[p] = fields[p]
       /\ size'[p] = size[p]
       /\ declared'[p] = declared[p]
  /\ root' = [root EXCEPT ![r] = o]

Store(o, i) ==
  /\ UNCHANGED <<kind, size, declared, root>>
  /\ o \in Allocated
  /\ \E v \in StorableValue : fields' = [fields EXCEPT ![o][i] = v]

SetRoot(r) ==
  /\ UNCHANGED <<kind, fields, size, declared>>
  /\ \E v \in StorableValue : root' = [root EXCEPT ![r] = v]

MarkWeak(o) ==
  /\ UNCHANGED <<fields, size, declared, root>>
  /\ o \in Allocated
  /\ kind' = [kind EXCEPT ![o] = "weak"]

CollectedFields(o, Survivors) ==
  IF o \notin Survivors
  THEN NoFields
  ELSE [i \in FieldIndex |->
          IF kind[o] = "weak" /\ i \in 1 .. size[o]
             /\ fields[o][i] \in Object \ Survivors
          THEN Tombstone
          ELSE fields[o][i]]

Collect ==
  LET Survivors == Reachable IN
    /\ kind' = [o \in Object |-> IF o \in Survivors THEN kind[o] ELSE "free"]
    /\ size' = [o \in Object |-> IF o \in Survivors THEN size[o] ELSE 0]
    /\ declared' = [o \in Object |-> IF o \in Survivors THEN declared[o] ELSE 0]
    /\ fields' = [o \in Object |-> CollectedFields(o, Survivors)]
    /\ UNCHANGED root

Next ==
  \/ \E o \in Object, r \in Roots : Create(o, r)
  \/ \E r \in Roots : SetRoot(r)
  \/ \E o \in Object, i \in FieldIndex : Store(o, i)
  \/ \E o \in Object : MarkWeak(o)
  \/ Collect

vars == <<kind, fields, size, declared, root>>
Spec == Init /\ [][Next]_vars
=============================================================================
