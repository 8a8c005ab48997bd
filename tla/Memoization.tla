----------------------------- MODULE Memoization -----------------------------
(***************************************************************************)
(* The application of a memoized function (function.c).  The results are   *)
(* the weak values of a dictionary, and a pending mark stands for a result *)
(* being computed.  Evaluations nest, over other keys and over growths of  *)
(* the table; an exception may cut them; garbage is collected in between.  *)
(***************************************************************************)
EXTENDS HashTables, FiniteSetsExt

CONSTANTS
  Argument,      \* the keys of the calls, some of Key
  Object,        \* what can be a result
  None,          \* no object
  Pending,       \* SYSBVM_PENDING_MEMOIZATION_VALUE
  MaxDepth       \* bound on nested evaluations

VARIABLES
  isTemplate,    \* the function is given the association, and fills it early
  memoizationTable,
  evaluations,   \* the evaluations that are running, innermost last
  held,          \* the results that the program holds, each with its key
  abandoned      \* the keys whose evaluation was left by an exception

mvars == <<isTemplate, memoizationTable, evaluations, held, abandoned>>

ASSUME MemoizationAssumption ==
  /\ Argument \subseteq Key
  /\ IsFiniteSet(Argument)
  /\ MaxDepth \in Nat
  /\ {None, Pending, Tombstone} \cap Object = {}
  /\ Pending # Tombstone
  /\ Empty \notin [key : Argument, value : Object \cup {Pending, Tombstone}, id : Nat]

weak == "weakValueDictionary"

Memoized(key) == findAssociation(weak, memoizationTable, key)

\* An association is an object, with an identity.
FreshAssociation ==
  Min((1..MaxDepth + Cardinality(Argument) + 1) \
        ({slot.id : slot \in Slots(memoizationTable)} \cup
         {evaluations[i].association : i \in DOMAIN evaluations}))

InUse == {h[2] : h \in held} \cup {evaluations[i].result : i \in DOMAIN evaluations}

Fresh == Object \ (InUse \cup {slot.value : slot \in Slots(memoizationTable)})

MInit ==
  /\ isTemplate \in BOOLEAN
  /\ memoizationTable = NewTable(0)
  /\ evaluations = << >>
  /\ held = {}
  /\ abandoned = {}

\* The innermost evaluation returns to the one around it, or to the program.
Top == evaluations[Len(evaluations)]

\* An exception is handled outside of the innermost evaluations.
Abandon(depth) ==
  /\ evaluations' = SubSeq(evaluations, 1, depth)
  /\ abandoned' = abandoned \cup {evaluations[i].key : i \in depth + 1..Len(evaluations)}

ApplyHit(key) ==
  /\ Memoized(key) # Empty
  /\ Memoized(key).value # Pending
  /\ held' = held \cup {<<key, Memoized(key).value>>}
  /\ UNCHANGED <<isTemplate, memoizationTable, evaluations, abandoned>>

ApplyCyclic(key) ==
  /\ Memoized(key) # Empty
  /\ Memoized(key).value = Pending
  /\ \E depth \in 0..Len(evaluations) : Abandon(depth)
  /\ UNCHANGED <<isTemplate, memoizationTable, held>>

\* The table after the pending mark.
Marked(key) ==
  atPut(weak, memoizationTable, [key |-> key, value |-> Pending, id |-> FreshAssociation])

\* Mutant: the association of the mark is not entered in the table.
ApplyMiss_unmarked(key) ==
  /\ Memoized(key) = Empty
  /\ Len(evaluations) < MaxDepth
  /\ evaluations' = Append(evaluations,
       [key |-> key, result |-> None, association |-> FreshAssociation])
  /\ UNCHANGED <<isTemplate, memoizationTable, held, abandoned>>

ApplyMiss(key) ==
  /\ Memoized(key) = Empty
  /\ Len(evaluations) < MaxDepth
  /\ memoizationTable' = Marked(key)
  /\ evaluations' = Append(evaluations,
       [key |-> key, result |-> None,
        association |-> findAssociation(weak, memoizationTable', key).id])
  /\ UNCHANGED <<isTemplate, held, abandoned>>

memoizedApply(key) == ApplyHit(key) \/ ApplyCyclic(key) \/ ApplyMiss(key)

\* The association is written to wherever it is, in the table or dropped from it.
setValue(id, value) ==
  memoizationTable' = [memoizationTable EXCEPT !.storage =
    [i \in DOMAIN @ |-> IF @[i] # Empty /\ @[i].id = id
                        THEN [@[i] EXCEPT !.value = value] ELSE @[i]]]

\* A template stores the type it builds before it completes it.
StoreEarly ==
  /\ isTemplate
  /\ evaluations # << >>
  /\ Top.result = None
  /\ \E object \in Fresh :
       /\ setValue(Top.association, object)
       /\ evaluations' = [evaluations EXCEPT ![Len(evaluations)].result = object]
  /\ UNCHANGED <<isTemplate, held, abandoned>>

\* The result is the object of the template, or a new one, or one of another call.
Results ==
  IF isTemplate THEN {Top.result} \ {None} ELSE Fresh \cup {h[2] : h \in held}

\* Mutant: only templates store their result.
Return_notStored ==
  /\ evaluations # << >>
  /\ \E result \in Results :
       /\ IF isTemplate THEN setValue(Top.association, result)
          ELSE UNCHANGED memoizationTable
       /\ held' = held \cup {<<Top.key, result>>}
  /\ evaluations' = Front(evaluations)
  /\ UNCHANGED <<isTemplate, abandoned>>

Return ==
  /\ evaluations # << >>
  /\ \E result \in Results :
       /\ setValue(Top.association, result)
       /\ held' = held \cup {<<Top.key, result>>}
  /\ evaluations' = Front(evaluations)
  /\ UNCHANGED <<isTemplate, abandoned>>

Raise ==
  /\ \E depth \in 0..Len(evaluations) - 1 : Abandon(depth)
  /\ UNCHANGED <<isTemplate, memoizationTable, held>>

Release ==
  /\ \E h \in held : held' = held \ {h}
  /\ UNCHANGED <<isTemplate, memoizationTable, evaluations, abandoned>>

\* Mutant: the pending mark is taken for a dead object.
Collected_marks(table) == Buried(table, (Object \cup {Pending}) \ InUse)

\* What neither the program nor an evaluation refers to dies.
Collected(table) == Buried(table, Object \ InUse)

CollectGarbage ==
  /\ memoizationTable' = Collected(memoizationTable)
  /\ UNCHANGED <<isTemplate, evaluations, held, abandoned>>

MNext ==
  \/ \E key \in Argument : memoizedApply(key)
  \/ StoreEarly
  \/ Return
  \/ Raise
  \/ Release
  \/ CollectGarbage

MSpec == MInit /\ [][MNext]_mvars
-----------------------------------------------------------------------------
\* All calls with the same arguments answer the same object for as long as the
\* program can compare: two live results of one key are one.  Types are compared by
\* identity, and those of pointers, references, tuples and functions come from here.
OneResultPerKey ==
  \A g, h \in held : g[1] = h[1] => g[2] = h[2]

\* No key is evaluated inside its own evaluation, and the mark of an evaluation that
\* has no result yet is found, whatever nested evaluations did to the table.
NoReentry ==
  /\ \A i, j \in DOMAIN evaluations : evaluations[i].key = evaluations[j].key => i = j
  /\ \A i \in DOMAIN evaluations :
       LET found == Memoized(evaluations[i].key)
       IN /\ found # Empty
          /\ found.id = evaluations[i].association
          /\ found.value = Pending <=> evaluations[i].result = None

\* "Computing cyclic memoized value" is reported of a key that is being evaluated, or
\* whose evaluation an exception has left.
MarksAccountedFor ==
  \A slot \in Slots(memoizationTable) :
    slot.value = Pending =>
      slot.key \in abandoned \cup {evaluations[i].key : i \in DOMAIN evaluations}
=============================================================================
