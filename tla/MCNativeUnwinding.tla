------------------------- MODULE MCNativeUnwinding --------------------------
(***************************************************************************)
(* Two unrelated types of exceptions, and a handler for each: an exception *)
(* passes by the handlers of the other type.                               *)
(***************************************************************************)
EXTENDS NativeUnwinding, TLC

CONSTANTS Error, Notification

Types == {Error, Notification}
isSameType(f, e) == f = e
=============================================================================
