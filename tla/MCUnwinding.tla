---------------------------- MODULE MCUnwinding -----------------------------
(***************************************************************************)
(* Two types of exceptions, one a subtype of the other as AssertionFailure *)
(* is of Error, and handlers for each and for everything.                  *)
(***************************************************************************)
EXTENDS Unwinding, TLC

CONSTANTS AssertionFailure

Types == {Error, AssertionFailure}
Filters == {Error, AssertionFailure, NoFilter}
isSubtypeOf(e, f) == f = Error \/ e = f
=============================================================================
