--------------------------- MODULE MCMethodLookup ---------------------------
(***************************************************************************)
(* A type, AnyValue, and two subtypes, more types than an inline cache of  *)
(* two entries can hold.  The global cache has two entries: what is cached *)
(* for Integer is replaced by what is cached for the other two.            *)
(***************************************************************************)
EXTENDS MethodLookup, TLC

CONSTANTS AnyValue, Integer, String, printString, m1, m2

Types == {AnyValue, Integer, String}
Lineages == [t \in Types |-> IF t = AnyValue THEN <<t>> ELSE <<t, AnyValue>>]
Sites == {1}
siteSelector == [p \in Sites |-> printString]
SharedIndex(t, s) == IF s = printString /\ t # String THEN 0 ELSE 1

\* Bound: AnyValue alone defines what is done with a message nobody understands, and
\* only once.
OnlyAnyValueMisunderstands ==
  \A t \in Types :
    methodDictionary[t][doesNotUnderstand] \in IF t = AnyValue THEN {Null, m2} ELSE {Null}
=============================================================================
