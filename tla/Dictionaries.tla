---------------------------- MODULE Dictionaries ----------------------------
(***************************************************************************)
(* A set or a dictionary in use: requests of the program, and collections  *)
(* of garbage between them.  It implements KeyedStore but for associations *)
(* that a dictionary drops.                                                *)
(***************************************************************************)
EXTENDS HashTables, TLC

CONSTANTS
  Value,
  ExpectedCapacities   \* arguments of createWithCapacity

VARIABLES
  kind,       \* the class of the collection
  table,
  request     \* the request just served

dvars == <<kind, table, request>>

Association(key, value) == [key |-> key, value |-> value]

ASSUME ValueAssumption ==
  /\ Tombstone \notin Value
  /\ Empty \notin [key : Key, value : Value \cup {Tombstone}]
  /\ ExpectedCapacities \subseteq Nat

Found(key) == findAssociation(kind, table, key)

DInit ==
  /\ kind \in Kinds
  /\ request = <<"none">>
  /\ \E expected \in {0} \cup
        IF kind \in {"dictionary", "methodDictionary"} THEN ExpectedCapacities ELSE {} :
       table = NewTable((expected * 130) \div 100)

AtPut(key, value) ==
  /\ kind # "identitySet"
  /\ table' = atPut(kind, table, Association(key, value))
  /\ request' = <<"at:put:", key, value>>
  /\ UNCHANGED kind

\* An association of a weak dictionary that keeps its value is one whose value does not
\* die.
Add(key, value) ==
  /\ kind \in {"dictionary", "weakValueDictionary", "identityDictionary"}
  /\ table' = add(kind, table, Association(key, value))
  /\ request' = <<"add:", key, value>>
  /\ UNCHANGED kind

\* The symbol of a string: the one found, or a new object, that is equal to no other.
internWithString(key) ==
  /\ kind = "identitySet"
  /\ \E symbol \in Value :
       /\ Association(key, symbol) \notin Slots(table)
       /\ table' = IF Found(key) # Empty THEN table
                   ELSE add(kind, table, Association(key, symbol))
  /\ request' = <<"intern", key>>
  /\ UNCHANGED kind

\* A symbol that is there is added to the set once more.
AddAgain(symbol) ==
  /\ kind = "identitySet"
  /\ table' = add(kind, table, symbol)
  /\ request' = <<"intern", symbol.key>>
  /\ UNCHANGED kind

\* A collection: any of the values may have died.
Collect(dead) ==
  /\ kind = "weakValueDictionary"
  /\ dead # {}
  /\ table' = Buried(table, dead)
  /\ request' = <<"collect">>
  /\ UNCHANGED kind

DNext ==
  \/ \E key \in Key, value \in Value : AtPut(key, value) \/ Add(key, value)
  \/ \E key \in Key : internWithString(key)
  \/ \E symbol \in Slots(table) : AddAgain(symbol)
  \/ \E dead \in SUBSET Value : Collect(dead)

DSpec == DInit /\ [][DNext]_dvars
-----------------------------------------------------------------------------
\* Whatever the program asks, no search runs through a full table and no insertion
\* ends in "out of memory": a table with storage always has an empty slot.
\* And the size a collection answers is the number of entries in its storage, over
\* collisions, growths and dead values.
RoomAndSize ==
  /\ table.storage # << >> => \E i \in DOMAIN table.storage : table.storage[i] = Empty
  /\ table.size = Cardinality({i \in DOMAIN table.storage : table.storage[i] # Empty})

\* What searches find.
Content ==
  [key \in {k \in Key : Found(k) # Empty} |-> Found(key).value]

Promise == INSTANCE KeyedStore WITH content <- Content

\* What the program finds is what it has stored, whatever its requests and the
\* collections in between: what was added last under a key is what the key has, as in
\* Dictionary.sysmel:59-69.
ImplementsKeyedStore == Promise!Spec

\* The add: of a dictionary under a key that is stored, be it with a value that has
\* died, does nothing (dictionary.c:181-184).
DropsAssociation ==
  \E key \in Key, value \in Value :
    /\ kind \in {"dictionary", "weakValueDictionary"}
    /\ WithKey(table.storage, key) # {}
    /\ request' = <<"add:", key, value>>
    /\ UNCHANGED <<kind, Content>>

\* But for the associations dropped, what the program finds is what it has stored: no
\* request touches another key, loses an association in a growth, or finds one that has
\* died or was stored elsewhere.
KeepsAllButDropped ==
  Promise!Init /\ [][DropsAssociation \/ Promise!Next]_<<kind, Content, request>>
=============================================================================
