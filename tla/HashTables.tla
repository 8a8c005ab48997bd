----------------------------- MODULE HashTables -----------------------------
(***************************************************************************)
(* The open-addressing tables of set.c and dictionary.c.  A table is a     *)
(* sequence of slots and a size; the five classes of collections share the *)
(* search, the insertion and the growth below, and differ in the hash they *)
(* take, in how full they may get and in what a growth keeps.              *)
(***************************************************************************)
EXTENDS Integers, FiniteSets, Sequences, SequencesExt

CONSTANTS
  Key,
  Hash,             \* [Key -> Nat], the hash an object answers
  StoredHashes,     \* how many hashes the header of an object has bits for (2^22)
  Empty,            \* an empty slot, distinct from every association
  Tombstone,        \* what the collector leaves in place of a dead weak value
  MinCapacity       \* 8

ASSUME HashAssumption ==
  /\ Hash \in [Key -> Nat]
  /\ StoredHashes \in Nat \ {0}
  /\ MinCapacity \in Nat \ {0, 1}

Kinds == {"identitySet", "dictionary", "weakValueDictionary", "identityDictionary",
          "methodDictionary"}

NewTable(capacity) == [storage |-> [i \in 1..capacity |-> Empty], size |-> 0]

Slots(table) == {table.storage[i] : i \in DOMAIN table.storage} \ {Empty}

identityHash(key) == Hash[key] % StoredHashes

HashOf(kind, key) ==
  IF kind \in {"dictionary", "weakValueDictionary"} THEN Hash[key] ELSE identityHash(key)

Probe(hash, capacity, i) == ((hash + i) % capacity) + 1

\* From the slot of the hash to the end, and from the start: the first slot that is
\* empty or holds one of sought, or 0.
ScanFor(storage, hash, sought) ==
  LET capacity == Len(storage)
      stop(i) == \/ storage[Probe(hash, capacity, i)] = Empty
                 \/ storage[Probe(hash, capacity, i)] \in sought
  IN IF \A i \in 0..capacity - 1 : ~stop(i) THEN 0
     ELSE Probe(hash, capacity,
                CHOOSE i \in 0..capacity - 1 : stop(i) /\ \A j \in 0..i - 1 : ~stop(j))

WithKey(storage, key) == {slot \in {storage[i] : i \in DOMAIN storage} \ {Empty} : slot.key = key}

\* The elements of a set are compared themselves, and associations by their keys.
Index(kind, storage, slot) ==
  ScanFor(storage, HashOf(kind, slot.key),
          IF kind = "identitySet" THEN {slot} ELSE WithKey(storage, slot.key))

At(storage, i) == IF i = 0 THEN Empty ELSE storage[i]

\* The association of a key, or Empty.  A string is looked up among the symbols with
\* the whole hash of its characters.
findAssociation(kind, table, key) ==
  LET hash == IF kind = "identitySet" THEN Hash[key] ELSE HashOf(kind, key)
      found == At(table.storage, ScanFor(table.storage, hash, WithKey(table.storage, key)))
  IN IF kind = "weakValueDictionary" /\ found # Empty /\ found.value = Tombstone
     THEN Empty ELSE found

insertNoCheck(kind, storage, slot) == [storage EXCEPT ![Index(kind, storage, slot)] = slot]

\* Mutant: a capacity that is not a power of two.
GrownCapacity_oneMore(capacity) ==
  IF 2 * capacity < MinCapacity THEN MinCapacity + 1 ELSE 2 * capacity

GrownCapacity(capacity) ==
  IF 2 * capacity < MinCapacity THEN MinCapacity ELSE 2 * capacity

Kept(kind, slot) ==
  /\ slot # Empty
  /\ kind = "weakValueDictionary" => slot.value # Tombstone

\* What is stored is put in a table of twice the capacity, without what has died.
increaseCapacity(kind, table) ==
  LET rehashed[i \in 0..Len(table.storage)] ==
        IF i = 0 THEN NewTable(GrownCapacity(Len(table.storage))).storage
        ELSE IF Kept(kind, table.storage[i])
        THEN insertNoCheck(kind, rehashed[i - 1], table.storage[i])
        ELSE rehashed[i - 1]
  IN [storage |-> rehashed[Len(table.storage)],
      size |-> IF kind \in {"dictionary", "weakValueDictionary"}
               THEN Cardinality({i \in DOMAIN table.storage : Kept(kind, table.storage[i])})
               ELSE table.size]

\* Mutant: grow when the table is full.
Threshold_full(kind, capacity) == capacity + 1

Threshold(kind, capacity) ==
  IF kind \in {"identitySet", "methodDictionary"} THEN (capacity * 3) \div 4
  ELSE (capacity * 4) \div 5

\* What is stored over an association that has the key already.  A new value goes into
\* the association, which keeps its identity; an association that is added replaces it,
\* but a dictionary assigns it to a variable of its own and keeps what it has.
Updated(kind, old, slot, isAdd) ==
  IF ~isAdd THEN [old EXCEPT !.value = slot.value]
  ELSE IF kind = "dictionary" THEN old ELSE slot

\* Stores slot where its key is or in the first free slot.
insert(kind, table, slot, isAdd) ==
  LET room == IF Index(kind, table.storage, slot) = 0
              THEN increaseCapacity(kind, table) ELSE table
      i == Index(kind, room.storage, slot)
      added == [storage |-> [room.storage EXCEPT ![i] = slot], size |-> room.size + 1]
  IN IF room.storage[i] # Empty
     THEN [room EXCEPT !.storage[i] = Updated(kind, @, slot, isAdd)]
     ELSE IF added.size >= Threshold(kind, Len(room.storage))
     THEN increaseCapacity(kind, added)
     ELSE added

atPut(kind, table, slot) == insert(kind, table, slot, FALSE)

\* A weak dictionary inherits the add: of dictionaries, which knows of no tombstones.
add(kind, table, slot) ==
  insert(IF kind = "weakValueDictionary" THEN "dictionary" ELSE kind, table, slot, TRUE)

\* The value of a dead object becomes the tombstone in every association.
Buried(table, dead) ==
  [table EXCEPT !.storage =
     [i \in DOMAIN @ |-> IF @[i] # Empty /\ @[i].value \in dead
                         THEN [@[i] EXCEPT !.value = Tombstone] ELSE @[i]]]
=============================================================================
