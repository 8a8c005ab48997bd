---------------------------- MODULE MCMarkSweep -----------------------------
(***************************************************************************)
(* Small heaps for TLC.  A tuple of one slot becomes, once marked weak, a  *)
(* weak array while its type is null (the slot is weak), and a tuple whose *)
(* slot is strong while its type, another tuple, declares one slot.        *)
(***************************************************************************)
EXTENDS MarkSweep, TLC

OneSlotShapes == {[kind |-> "pointers", size |-> 1, declared |-> 1]}

\* For the run about triggers and accounts: small and large objects of bytes, which
\* refer only to their types.  One or two small ones that survive leave a threshold
\* that a large one crosses.
TypedShapes == {[kind |-> "bytes", size |-> n, declared |-> 0] : n \in {0, MaxSize}}

\* Addresses are interchangeable: the code never compares two of them.
ObjectSymmetry == Permutations(Object)
=============================================================================
