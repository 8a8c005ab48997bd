----------------------------- MODULE KeyedStore -----------------------------
(***************************************************************************)
(* What a set or a dictionary promises, whatever its representation: a     *)
(* request changes what is stored under its own key, as its kind of        *)
(* collection says, and nothing else; only a collection of garbage makes   *)
(* something else go away, and only from a weak dictionary.                *)
(***************************************************************************)
EXTENDS Functions

CONSTANTS Key, Value

VARIABLES
  kind,       \* the class of the collection
  content,    \* a function from the keys that are there to their values
  request     \* the request just served

Stored(key, value) ==
  [k \in DOMAIN content \cup {key} |-> IF k = key THEN value ELSE content[k]]

Init ==
  /\ content = << >>
  /\ request = <<"none">>

AtPut(key, value) ==
  /\ kind # "identitySet"
  /\ request' = <<"at:put:", key, value>>
  /\ content' = Stored(key, value)

\* An association that is added replaces the one under its key, if there is one.
Add(key, value) ==
  /\ kind \in {"dictionary", "weakValueDictionary", "identityDictionary"}
  /\ request' = <<"add:", key, value>>
  /\ content' = Stored(key, value)

\* There is one symbol for a string, from the first time that it is asked for.
Intern(key, value) ==
  /\ kind = "identitySet"
  /\ request' = <<"intern", key>>
  /\ content' = IF key \in DOMAIN content THEN content ELSE Stored(key, value)

Collect(dead) ==
  /\ kind = "weakValueDictionary"
  /\ request' = <<"collect">>
  /\ content' = Restrict(content, {k \in DOMAIN content : content[k] \notin dead})

Next ==
  /\ UNCHANGED kind
  /\ \/ \E key \in Key, value \in Value :
          AtPut(key, value) \/ Add(key, value) \/ Intern(key, value)
     \/ \E dead \in SUBSET Value : Collect(dead)

Spec == Init /\ [][Next]_<<kind, content, request>>
=============================================================================
