------------------------------ MODULE MCTables ------------------------------
(***************************************************************************)
(* In a behaviour either a collection is used or a memoized function is    *)
(* applied; the other one rests.  The hashes collide with the first slot   *)
(* tried, with the next ones and over the end of the table, and two are    *)
(* too large for the header of an object.                                  *)
(***************************************************************************)
EXTENDS Dictionaries, Memoization

VARIABLE component

Hashes == [k \in Key |-> <<7, 11, 6, 23>>[k]]

Objects == Permutations(Object)

Init ==
  \/ component = "collection" /\ DInit /\ MInit /\ ~isTemplate
  \/ component = "function" /\ MInit /\ DInit /\ kind = "identitySet"

Next ==
  /\ UNCHANGED component
  /\ \/ component = "collection" /\ DNext /\ UNCHANGED mvars
     \/ component = "function" /\ MNext /\ UNCHANGED dvars

Spec == Init /\ [][Next]_<<component, dvars, mvars>>
=============================================================================
