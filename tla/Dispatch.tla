------------------------------ MODULE Dispatch ------------------------------
(***************************************************************************)
(* What a message send promises, with no cache in sight: it runs the       *)
(* method the receiver's type or the nearest of its supertypes defines     *)
(* now.  A definition takes effect when it returns.  Until then a send of  *)
(* the selector being defined may already see it, or not yet; a send of    *)
(* any other selector never notices.                                       *)
(***************************************************************************)
EXTENDS Integers, FiniteSetsExt

CONSTANTS
  Type,
  Lineage,            \* [Type -> a type and its supertypes, nearest first]
  Selector,
  doesNotUnderstand,  \* the selector doesNotUnderstand:
  Method,
  Null                \* no method

VARIABLES
  methodDictionary,   \* [Type -> [Selector -> Method or Null]]
  pending,            \* the definition under way: a dictionary, or Null
  answer              \* the send just made and the method it ran, or Null

Found(dictionary, t, s) ==
  LET Definers == {i \in DOMAIN Lineage[t] : dictionary[Lineage[t][i]][s] # Null}
  IN IF Definers = {} THEN Null ELSE dictionary[Lineage[t][Min(Definers)]][s]

Visible(t, s) ==
  {Found(methodDictionary, t, s)} \cup
  (IF pending = Null THEN {} ELSE {Found(pending, t, s)})

NoMethods == [s \in Selector |-> Null]

Init ==
  /\ methodDictionary = [t \in Type |-> NoMethods]
  /\ pending = Null
  /\ answer = Null

\* What is left out of the promise: whether a message nobody understands is
\* answered by doesNotUnderstand: or is an error.
Send ==
  /\ UNCHANGED <<methodDictionary, pending>>
  /\ \E t \in Type, s \in Selector, m \in Method \cup {Null} :
       /\ answer' = [type |-> t, selector |-> s, method |-> m]
       /\ \/ m \in Visible(t, s)
          \/ Null \in Visible(t, s) /\ m \in Visible(t, doesNotUnderstand)

\* The methods a new type is born with are there from the start, for a definition
\* under way too.
CreateType ==
  \E t \in Type, methods \in [Selector -> Method \cup {Null}] :
    /\ methodDictionary[t] = NoMethods
    /\ methodDictionary' = [methodDictionary EXCEPT ![t] = methods]
    /\ pending' = IF pending = Null THEN Null ELSE [pending EXCEPT ![t] = methods]
    /\ answer' = Null

BeginDefinition ==
  \E t \in Type, s \in Selector, m \in Method :
    /\ pending = Null
    /\ pending' = [methodDictionary EXCEPT ![t][s] = m]
    /\ answer' = Null
    /\ UNCHANGED methodDictionary

EndDefinition ==
  /\ pending # Null
  /\ methodDictionary' = pending
  /\ pending' = Null
  /\ answer' = Null

Next == Send \/ CreateType \/ BeginDefinition \/ EndDefinition

Spec == Init /\ [][Next]_<<methodDictionary, pending, answer>>
=============================================================================
