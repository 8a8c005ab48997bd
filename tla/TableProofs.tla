---------------------------- MODULE TableProofs ----------------------------
(***************************************************************************)
(* Proofs about the open-addressing tables: what a search finds, what an   *)
(* insertion and a growth do to the slots, that a table always has room,   *)
(* that collections keep what KeyedStore promises, but for associations    *)
(* that dictionaries drop, and that a memoized function has one result for *)
(* each key.                                                               *)
(***************************************************************************)
EXTENDS Dictionaries, Memoization, BoundedNumbers, FiniteSetTheorems, TLAPS

\* Where something is stored.
Positions(storage) == {p \in DOMAIN storage : storage[p] # Empty}

\* What tells the slots of a table apart: associations have a key, and the elements of
\* a set are compared themselves.
IdOf(k, slot) == IF k = "identitySet" THEN slot ELSE slot.key

\* A search that starts at the hash gets to the position p before an empty slot.
Reached(storage, hash, p) ==
  \E i \in 0 .. Len(storage) - 1 :
    /\ p = Probe(hash, Len(storage), i)
    /\ \A j \in 0 .. i - 1 : storage[Probe(hash, Len(storage), j)] # Empty

\* No two slots are the same to the searches.
Apart(k, storage) ==
  \A p, q \in Positions(storage) : IdOf(k, storage[p]) = IdOf(k, storage[q]) => p = q

\* A search for what is stored gets to it.
Placed(k, storage) ==
  \A p \in Positions(storage) : Reached(storage, HashOf(k, storage[p].key), p)

\* What S, the slots of a table, has to be.
SlotsOK(S) == Empty \notin S /\ \A slot \in S : slot.key \in Key

\* What a sequence of slots is between any two requests.
StorageOK(k, S, storage) ==
  /\ storage \in Seq(S \cup {Empty})
  /\ Apart(k, storage)
  /\ Placed(k, storage)

\* The invariant of a table: the size counts what is stored, and there is room.
TableOK(k, S, t) ==
  /\ t = [storage |-> t.storage, size |-> t.size]
  /\ StorageOK(k, S, t.storage)
  /\ t.size = Cardinality(Positions(t.storage))
  /\ t.storage # << >> => t.size < Len(t.storage)
-----------------------------------------------------------------------------
\* A probe is a position of the storage.
LEMMA ProbeIsPosition ==
  ASSUME NEW hash \in Nat, NEW c \in Nat, c > 0, NEW i \in Nat
  PROVE  Probe(hash, c, i) \in 1 .. c
<1>1. (hash + i) % c \in 0 .. c - 1
  BY Division
<1> QED
  BY <1>1 DEF Probe

\* The probes of any hash visit every position.
LEMMA EveryPositionProbed ==
  ASSUME NEW hash \in Nat, NEW c \in Nat, NEW p \in 1 .. c
  PROVE  \E i \in 0 .. c - 1 : p = Probe(hash, c, i)
<1>1. c > 0 /\ p - 1 \in 0 .. c - 1
  OBVIOUS
<1>2. PICK i \in 0 .. c - 1 : (hash + i) % c = p - 1
  BY <1>1, EveryRemainder
<1> QED
  BY <1>2 DEF Probe

\* A search ends at the first slot that is empty or holds what is sought, or there is
\* no such slot in the whole storage.
LEMMA ScanResult ==
  ASSUME NEW storage, NEW T, storage \in Seq(T), NEW hash \in Nat, NEW sought
  PROVE  LET c == Len(storage)
             stop(i) == \/ storage[Probe(hash, c, i)] = Empty
                        \/ storage[Probe(hash, c, i)] \in sought
         IN \/ /\ ScanFor(storage, hash, sought) = 0
               /\ \A p \in 1 .. c : storage[p] \notin {Empty} \cup sought
            \/ \E i \in 0 .. c - 1 :
                 /\ ScanFor(storage, hash, sought) = Probe(hash, c, i)
                 /\ stop(i)
                 /\ \A j \in 0 .. i - 1 : ~ stop(j)
<1> DEFINE c == Len(storage)
           stop(i) == \/ storage[Probe(hash, c, i)] = Empty
                      \/ storage[Probe(hash, c, i)] \in sought
           stops == {i \in 0 .. c - 1 : stop(i)}
           first == CHOOSE i \in 0 .. c - 1 : stop(i) /\ \A j \in 0 .. i - 1 : ~ stop(j)
<1>1. c \in Nat
  OBVIOUS
<1>2. ScanFor(storage, hash, sought)
        = IF \A i \in 0 .. c - 1 : ~ stop(i) THEN 0 ELSE Probe(hash, c, first)
  BY DEF ScanFor
<1>3. CASE stops = {}
  <2>1. ASSUME NEW p \in 1 .. c, storage[p] \in {Empty} \cup sought PROVE FALSE
    <3>1. PICK i \in 0 .. c - 1 : p = Probe(hash, c, i)
      BY <1>1, EveryPositionProbed
    <3> QED
      BY <3>1, <2>1, <1>3
  <2> QED
    BY <2>1, <1>2, <1>3
<1>4. CASE stops # {}
  <2>1. \E m \in stops : \A y \in stops : m <= y
    <3>1. stops \subseteq Nat
      BY <1>1
    <3> HIDE DEF stops
    <3> QED
      BY <3>1, <1>4, LeastIsMember
  <2>2. \E i \in 0 .. c - 1 : stop(i) /\ \A j \in 0 .. i - 1 : ~ stop(j)
    <3>1. PICK m \in stops : \A y \in stops : m <= y
      BY <2>1
    <3>2. m \in 0 .. c - 1 /\ stop(m)
      BY <3>1
    <3>3. ASSUME NEW j \in 0 .. m - 1 PROVE ~ stop(j)
      <4>1. j \in 0 .. c - 1 /\ ~ (m <= j)
        BY <3>2, <1>1
      <4> QED
        BY <4>1, <3>1
    <3> QED
      BY <3>2, <3>3
  <2>3. first \in 0 .. c - 1 /\ stop(first) /\ \A j \in 0 .. first - 1 : ~ stop(j)
    BY <2>2, Zenon
  <2> HIDE DEF first
  <2> QED
    BY <2>3, <1>2
<1> QED
  BY <1>3, <1>4

\* A search finds what it gets to, where that is all that is sought.
LEMMA ScanFinds ==
  ASSUME NEW storage, NEW T, storage \in Seq(T), NEW hash \in Nat, NEW sought,
         NEW p \in Positions(storage), storage[p] \in sought,
         \A q \in Positions(storage) : storage[q] \in sought => q = p,
         Reached(storage, hash, p)
  PROVE  ScanFor(storage, hash, sought) = p
<1> DEFINE c == Len(storage)
           stop(i) == \/ storage[Probe(hash, c, i)] = Empty
                      \/ storage[Probe(hash, c, i)] \in sought
<1>1. c \in Nat /\ DOMAIN storage = 1 .. c
  OBVIOUS
<1>2. PICK k \in 0 .. c - 1 :
        /\ p = Probe(hash, c, k)
        /\ \A j \in 0 .. k - 1 : storage[Probe(hash, c, j)] # Empty
  BY DEF Reached
<1>3. stop(k)
  BY <1>2
<1>4. p \in 1 .. c
  BY <1>1 DEF Positions
<1>5. PICK i \in 0 .. c - 1 :
        /\ ScanFor(storage, hash, sought) = Probe(hash, c, i)
        /\ stop(i)
        /\ \A j \in 0 .. i - 1 : ~ stop(j)
  BY <1>4, ScanResult
<1>6. i <= k
  BY <1>3, <1>5, <1>1
<1>7. Probe(hash, c, i) \in 1 .. c
  <2>1. c > 0 /\ i \in Nat
    BY <1>1
  <2> QED
    BY <2>1, <1>1, ProbeIsPosition
<1>8. CASE storage[Probe(hash, c, i)] = Empty
  <2>1. i = k
    BY <1>8, <1>2, <1>6, <1>1
  <2> QED
    BY <2>1, <1>8, <1>2 DEF Positions
<1>9. CASE storage[Probe(hash, c, i)] # Empty
  <2>1. Probe(hash, c, i) \in Positions(storage)
    BY <1>7, <1>1, <1>9 DEF Positions
  <2>2. storage[Probe(hash, c, i)] \in sought
    BY <1>5, <1>9
  <2> QED
    BY <2>1, <2>2, <1>5
<1> QED
  BY <1>8, <1>9

\* A search for what is not there ends at an empty slot that it gets to, or there is none.
LEMMA ScanMisses ==
  ASSUME NEW storage, NEW T, storage \in Seq(T), NEW hash \in Nat, NEW sought,
         \A q \in Positions(storage) : storage[q] \notin sought
  PROVE  LET p == ScanFor(storage, hash, sought)
         IN \/ p = 0 /\ Positions(storage) = DOMAIN storage
            \/ /\ p \in DOMAIN storage
               /\ storage[p] = Empty
               /\ Reached(storage, hash, p)
<1> DEFINE c == Len(storage)
           stop(i) == \/ storage[Probe(hash, c, i)] = Empty
                      \/ storage[Probe(hash, c, i)] \in sought
<1>1. c \in Nat /\ DOMAIN storage = 1 .. c
  OBVIOUS
<1>2. CASE /\ ScanFor(storage, hash, sought) = 0
           /\ \A p \in 1 .. c : storage[p] \notin {Empty} \cup sought
  BY <1>1, <1>2 DEF Positions
<1>3. ASSUME NEW i \in 0 .. c - 1,
             ScanFor(storage, hash, sought) = Probe(hash, c, i),
             stop(i),
             \A j \in 0 .. i - 1 : ~ stop(j)
      PROVE  LET p == ScanFor(storage, hash, sought)
             IN p \in DOMAIN storage /\ storage[p] = Empty /\ Reached(storage, hash, p)
  <2>1. Probe(hash, c, i) \in 1 .. c
    <3>1. c > 0 /\ i \in Nat
      BY <1>1
    <3> QED
      BY <3>1, <1>1, ProbeIsPosition
  <2>2. storage[Probe(hash, c, i)] = Empty
    BY <2>1, <1>1, <1>3 DEF Positions
  <2>3. Reached(storage, hash, Probe(hash, c, i))
    BY <1>3, Zenon DEF Reached
  <2> QED
    BY <2>1, <2>2, <2>3, <1>1, <1>3
<1> QED
  BY <1>2, <1>3, ScanResult

-----------------------------------------------------------------------------
\* The hash of a key is a number, whether it is all of it or what a header holds.
LEMMA HashIsNumber ==
  ASSUME NEW k, NEW key \in Key
  PROVE  /\ HashOf(k, key) \in Nat
         /\ Hash[key] \in Nat
         /\ identityHash(key) = Hash[key] % StoredHashes
<1>1. Hash[key] \in Nat /\ StoredHashes \in Nat /\ StoredHashes > 0
  BY HashAssumption
<1>2. Hash[key] % StoredHashes \in 0 .. StoredHashes - 1
  BY <1>1, Division
<1> QED
  BY <1>1, <1>2 DEF HashOf, identityHash

\* Filling slots never makes a search end earlier at an empty one.
LEMMA ReachedStays ==
  ASSUME NEW storage, NEW other, NEW T, storage \in Seq(T), other \in Seq(T),
         Len(other) = Len(storage),
         \A p \in DOMAIN storage : storage[p] # Empty => other[p] # Empty,
         NEW hash \in Nat, NEW p, Reached(storage, hash, p)
  PROVE  Reached(other, hash, p)
<1> DEFINE c == Len(storage)
<1>1. c \in Nat /\ DOMAIN storage = 1 .. c
  OBVIOUS
<1>2. PICK i \in 0 .. c - 1 :
        /\ p = Probe(hash, c, i)
        /\ \A j \in 0 .. i - 1 : storage[Probe(hash, c, j)] # Empty
  BY DEF Reached
<1>3. ASSUME NEW j \in 0 .. i - 1 PROVE other[Probe(hash, c, j)] # Empty
  <2>1. c > 0 /\ j \in Nat
    BY <1>1
  <2>2. Probe(hash, c, j) \in 1 .. c
    BY <2>1, <1>1, ProbeIsPosition
  <2> QED
    BY <2>2, <1>1, <1>2
<1> QED
  BY <1>2, <1>3, Zenon DEF Reached

\* The slots of a storage change, but neither their keys nor what tells them apart.
SameKeyed(k, storage, other) ==
  /\ Len(other) = Len(storage)
  /\ \A p \in DOMAIN storage :
       IF storage[p] = Empty THEN other[p] = Empty
       ELSE /\ other[p] # Empty
            /\ other[p].key = storage[p].key
            /\ IdOf(k, other[p]) = IdOf(k, storage[p])

LEMMA SameKeys ==
  ASSUME NEW k, NEW S, SlotsOK(S), NEW storage, StorageOK(k, S, storage),
         NEW other \in Seq(S \cup {Empty}), SameKeyed(k, storage, other)
  PROVE  StorageOK(k, S, other) /\ Positions(other) = Positions(storage)
<1>1. storage \in Seq(S \cup {Empty}) /\ Apart(k, storage) /\ Placed(k, storage)
  BY DEF StorageOK
<1>2. DOMAIN other = DOMAIN storage /\ Len(other) = Len(storage)
  BY <1>1 DEF SameKeyed
<1>3. Positions(other) = Positions(storage)
  BY <1>2 DEF Positions, SameKeyed
<1>4. Apart(k, other)
  BY <1>1, <1>3 DEF Apart, Positions, SameKeyed
<1>5. ASSUME NEW p \in Positions(other)
      PROVE  Reached(other, HashOf(k, other[p].key), p)
  <2>1. p \in Positions(storage) /\ other[p].key = storage[p].key
    BY <1>3 DEF Positions, SameKeyed
  <2>2. Reached(storage, HashOf(k, other[p].key), p)
    BY <2>1, <1>1 DEF Placed
  <2>3. other[p] \in S
    BY <1>5 DEF Positions
  <2>4. HashOf(k, other[p].key) \in Nat
    BY <2>3, HashIsNumber DEF SlotsOK
  <2>5. \A q \in DOMAIN storage : storage[q] # Empty => other[q] # Empty
    BY DEF SameKeyed
  <2> QED
    BY <2>2, <2>4, <2>5, <1>1, <1>2, ReachedStays
<1> QED
  BY <1>3, <1>4, <1>5 DEF StorageOK, Placed

\* Nothing that is stored is the same to the searches as the slot.
Absent(k, storage, slot) ==
  \A q \in Positions(storage) : IdOf(k, storage[q]) # IdOf(k, slot)

\* The slot is written at the position p, and nothing else changes.
Written(storage, p, slot, other) ==
  /\ Len(other) = Len(storage)
  /\ other[p] = slot
  /\ \A q \in DOMAIN storage : q # p => other[q] = storage[q]

\* Insertion and search look for what has the identity of the slot.
LEMMA IndexResult ==
  ASSUME NEW k, NEW S, SlotsOK(S), NEW storage, StorageOK(k, S, storage), NEW slot \in S
  PROVE  /\ \A q \in Positions(storage) :
              IdOf(k, storage[q]) = IdOf(k, slot) => Index(k, storage, slot) = q
         /\ Absent(k, storage, slot)
              => \/ /\ Index(k, storage, slot) = 0
                    /\ Positions(storage) = DOMAIN storage
                 \/ /\ Index(k, storage, slot) \in DOMAIN storage
                    /\ storage[Index(k, storage, slot)] = Empty
                    /\ Reached(storage, HashOf(k, slot.key), Index(k, storage, slot))
<1> DEFINE sought == IF k = "identitySet" THEN {slot} ELSE WithKey(storage, slot.key)
           hash == HashOf(k, slot.key)
<1>1. storage \in Seq(S \cup {Empty}) /\ Apart(k, storage) /\ Placed(k, storage)
  BY DEF StorageOK
<1>2. hash \in Nat
  BY HashIsNumber DEF SlotsOK
<1>3. ASSUME NEW q \in Positions(storage)
      PROVE  storage[q] \in sought <=> IdOf(k, storage[q]) = IdOf(k, slot)
  BY <1>1 DEF Positions, IdOf, WithKey
<1>4. Index(k, storage, slot) = ScanFor(storage, hash, sought)
  BY DEF Index
<1>5. ASSUME NEW q \in Positions(storage), IdOf(k, storage[q]) = IdOf(k, slot)
      PROVE  Index(k, storage, slot) = q
  <2>1. storage[q] \in sought
    BY <1>3, <1>5
  <2>2. \A r \in Positions(storage) : storage[r] \in sought => r = q
    BY <1>1, <1>3, <1>5 DEF Apart
  <2>3. Reached(storage, HashOf(k, storage[q].key), q)
    BY <1>1 DEF Placed
  <2>4. storage[q].key = slot.key
    BY <1>5 DEF IdOf
  <2>5. Reached(storage, hash, q)
    BY <2>3, <2>4
  <2> HIDE DEF hash, sought
  <2> QED
    BY <2>1, <2>2, <2>5, <1>1, <1>2, <1>4, ScanFinds
<1>6. ASSUME Absent(k, storage, slot)
      PROVE  \/ /\ Index(k, storage, slot) = 0
                /\ Positions(storage) = DOMAIN storage
             \/ /\ Index(k, storage, slot) \in DOMAIN storage
                /\ storage[Index(k, storage, slot)] = Empty
                /\ Reached(storage, hash, Index(k, storage, slot))
  <2>1. \A q \in Positions(storage) : storage[q] \notin sought
    BY <1>3, <1>6 DEF Absent
  <2> HIDE DEF hash, sought
  <2> QED
    BY <2>1, <1>1, <1>2, <1>4, ScanMisses
<1> QED
  BY <1>5, <1>6

SlotsOf(storage) == {storage[p] : p \in Positions(storage)}

\* What a slot that is written to an empty position adds.
Gains(storage, p, slot, other) ==
  /\ Positions(other) = Positions(storage) \cup {p}
  /\ SlotsOf(other) = SlotsOf(storage) \cup {slot}

\* A slot that is not there yet is written where its search ends.
LEMMA PutNew ==
  ASSUME NEW k, NEW S, SlotsOK(S), NEW storage, StorageOK(k, S, storage), NEW slot \in S,
         Absent(k, storage, slot),
         NEW p \in DOMAIN storage, storage[p] = Empty,
         Reached(storage, HashOf(k, slot.key), p),
         NEW other \in Seq(S \cup {Empty}), Written(storage, p, slot, other)
  PROVE  StorageOK(k, S, other) /\ Gains(storage, p, slot, other)
<1>1. storage \in Seq(S \cup {Empty}) /\ Apart(k, storage) /\ Placed(k, storage)
  BY DEF StorageOK
<1>2. /\ DOMAIN other = DOMAIN storage
      /\ Len(other) = Len(storage)
      /\ other[p] = slot
      /\ \A q \in DOMAIN storage : q # p => other[q] = storage[q]
  BY <1>1 DEF Written
<1>3. slot # Empty
  BY DEF SlotsOK
<1>4. Positions(other) = Positions(storage) \cup {p}
  BY <1>2, <1>3 DEF Positions
<1>5. p \notin Positions(storage)
  BY DEF Positions
<1>6. \A q \in Positions(storage) : q \in DOMAIN storage /\ other[q] = storage[q]
  BY <1>2, <1>5 DEF Positions
<1>7. SlotsOf(other) = SlotsOf(storage) \cup {slot}
  <2>1. SlotsOf(other) \subseteq SlotsOf(storage) \cup {slot}
    BY <1>2, <1>4, <1>6 DEF SlotsOf
  <2>2. SlotsOf(storage) \subseteq SlotsOf(other)
    BY <1>4, <1>6 DEF SlotsOf
  <2>3. slot \in SlotsOf(other)
    BY <1>2, <1>4 DEF SlotsOf
  <2> QED
    BY <2>1, <2>2, <2>3
<1>8. Apart(k, other)
  <2>1. \A q \in Positions(storage) : IdOf(k, other[q]) # IdOf(k, other[p])
    BY <1>2, <1>6 DEF Absent
  <2>2. \A q, r \in Positions(storage) : IdOf(k, other[q]) = IdOf(k, other[r]) => q = r
    BY <1>1, <1>6 DEF Apart
  <2> QED
    BY <2>1, <2>2, <1>4 DEF Apart
<1>9. ASSUME NEW q \in Positions(other)
      PROVE  Reached(other, HashOf(k, other[q].key), q)
  <2>1. other[q] \in S
    BY <1>2 DEF Positions
  <2>2. HashOf(k, other[q].key) \in Nat
    BY <2>1, HashIsNumber DEF SlotsOK
  <2>3. Reached(storage, HashOf(k, other[q].key), q)
    BY <1>1, <1>2, <1>4, <1>6 DEF Placed
  <2>4. \A r \in DOMAIN storage : storage[r] # Empty => other[r] # Empty
    BY <1>2, <1>3
  <2> QED
    BY <2>2, <2>3, <2>4, <1>1, <1>2, ReachedStays
<1> QED
  BY <1>2, <1>4, <1>7, <1>8, <1>9 DEF StorageOK, Placed, Gains

\* What a slot takes the place of.
Replaces(k, storage, slot, other) ==
  /\ Positions(other) = Positions(storage)
  /\ SlotsOf(other) = {s \in SlotsOf(storage) : IdOf(k, s) # IdOf(k, slot)} \cup {slot}

\* A slot is written over the one that is the same to the searches.
LEMMA PutOver ==
  ASSUME NEW k, NEW S, SlotsOK(S), NEW storage, StorageOK(k, S, storage), NEW slot \in S,
         NEW p \in Positions(storage), slot.key = storage[p].key,
         IdOf(k, slot) = IdOf(k, storage[p]),
         NEW other \in Seq(S \cup {Empty}), Written(storage, p, slot, other)
  PROVE  StorageOK(k, S, other) /\ Replaces(k, storage, slot, other)
<1>1. storage \in Seq(S \cup {Empty}) /\ Apart(k, storage) /\ Placed(k, storage)
  BY DEF StorageOK
<1>2. /\ DOMAIN other = DOMAIN storage
      /\ Len(other) = Len(storage)
      /\ other[p] = slot
      /\ \A q \in DOMAIN storage : q # p => other[q] = storage[q]
  BY <1>1 DEF Positions, Written
<1>3. slot # Empty /\ storage[p] # Empty
  BY DEF SlotsOK, Positions
<1>4. StorageOK(k, S, other) /\ Positions(other) = Positions(storage)
  <2>1. SameKeyed(k, storage, other)
    BY <1>2, <1>3 DEF SameKeyed
  <2> QED
    BY <2>1, SameKeys
<1>5. \A q \in Positions(storage) : q # p => IdOf(k, storage[q]) # IdOf(k, slot)
  BY <1>1 DEF Apart
<1>6. \A q \in Positions(storage) : q # p => other[q] = storage[q]
  BY <1>2 DEF Positions
<1>7. SlotsOf(other) = {s \in SlotsOf(storage) : IdOf(k, s) # IdOf(k, slot)} \cup {slot}
  <2>1. ASSUME NEW s \in SlotsOf(other)
        PROVE  s = slot \/ (s \in SlotsOf(storage) /\ IdOf(k, s) # IdOf(k, slot))
    <3>1. PICK q \in Positions(storage) : s = other[q]
      BY <1>4, Zenon DEF SlotsOf
    <3>2. CASE q # p
      BY <3>1, <3>2, <1>5, <1>6 DEF SlotsOf
    <3> QED
      BY <3>1, <3>2, <1>2
  <2>2. ASSUME NEW s \in SlotsOf(storage), IdOf(k, s) # IdOf(k, slot)
        PROVE  s \in SlotsOf(other)
    <3>1. PICK q \in Positions(storage) : s = storage[q]
      BY DEF SlotsOf
    <3>2. q # p
      BY <3>1, <2>2
    <3> QED
      BY <3>1, <3>2, <1>4, <1>6 DEF SlotsOf
  <2>3. slot \in SlotsOf(other)
    BY <1>2, <1>4 DEF SlotsOf
  <2> QED
    BY <2>1, <2>2, <2>3
<1> QED
  BY <1>4, <1>7 DEF Replaces

-----------------------------------------------------------------------------
\* What is stored is counted by positions.
LEMMA PositionsCount ==
  ASSUME NEW storage, NEW T, storage \in Seq(T)
  PROVE  /\ IsFiniteSet(Positions(storage))
         /\ Cardinality(Positions(storage)) \in 0 .. Len(storage)
         /\ Cardinality(Positions(storage)) = Len(storage)
              => Positions(storage) = DOMAIN storage
         /\ Cardinality(DOMAIN storage) = Len(storage)
<1>1. Len(storage) \in Nat /\ DOMAIN storage = 1 .. Len(storage)
  OBVIOUS
<1>2. IsFiniteSet(1 .. Len(storage)) /\ Cardinality(1 .. Len(storage)) = Len(storage)
  BY <1>1, FS_Interval
<1>3. Positions(storage) \in SUBSET (1 .. Len(storage))
  BY <1>1 DEF Positions
<1>4. /\ IsFiniteSet(Positions(storage))
      /\ Cardinality(Positions(storage)) <= Cardinality(1 .. Len(storage))
      /\ Cardinality(1 .. Len(storage)) = Cardinality(Positions(storage))
           => 1 .. Len(storage) = Positions(storage)
  BY <1>2, <1>3, FS_Subset
<1>5. Cardinality(Positions(storage)) \in Nat
  BY <1>4, FS_CardinalityType
<1> QED
  BY <1>1, <1>2, <1>4, <1>5

\* What a storage gets with a slot that is entered.
Enters(storage, slot, other) ==
  /\ Len(other) = Len(storage)
  /\ Cardinality(Positions(other)) = Cardinality(Positions(storage)) + 1
  /\ SlotsOf(other) = SlotsOf(storage) \cup {slot}

\* An insertion of what is not there, into a storage with room.
LEMMA InsertNoCheckNew ==
  ASSUME NEW k, NEW S, SlotsOK(S), NEW storage, StorageOK(k, S, storage), NEW slot \in S,
         Absent(k, storage, slot),
         Cardinality(Positions(storage)) < Len(storage)
  PROVE  LET other == insertNoCheck(k, storage, slot)
         IN StorageOK(k, S, other) /\ Enters(storage, slot, other)
<1> DEFINE p == Index(k, storage, slot)
           other == insertNoCheck(k, storage, slot)
<1>1. storage \in Seq(S \cup {Empty})
  BY DEF StorageOK
<1>2. Positions(storage) # DOMAIN storage
  <2>1. Len(storage) \in Nat /\ Cardinality(DOMAIN storage) = Len(storage)
    BY <1>1, PositionsCount
  <2>2. IsFiniteSet(Positions(storage)) /\ Cardinality(Positions(storage)) \in Nat
    BY <1>1, PositionsCount
  <2> DEFINE P == Positions(storage)
             D == DOMAIN storage
  <2>3. Cardinality(D) = Len(storage) /\ Cardinality(P) < Len(storage)
    BY <2>1, <2>2
  <2> HIDE DEF P, D
  <2>4. P # D
    BY <2>1, <2>3
  <2> QED
    BY <2>4 DEF P, D
<1>3. p \in DOMAIN storage /\ storage[p] = Empty /\ Reached(storage, HashOf(k, slot.key), p)
  BY <1>2, IndexResult
<1>4. other = [storage EXCEPT ![p] = slot]
  BY DEF insertNoCheck
<1> HIDE DEF p, other
<1>5. /\ other \in Seq(S \cup {Empty})
      /\ Len(other) = Len(storage)
      /\ Written(storage, p, slot, other)
  BY <1>1, <1>3, <1>4 DEF Written
<1>6. StorageOK(k, S, other) /\ Gains(storage, p, slot, other)
  BY <1>3, <1>5, PutNew
<1>7. p \notin Positions(storage)
  BY <1>3 DEF Positions
<1>8. IsFiniteSet(Positions(storage))
  BY <1>1, PositionsCount
<1>9. Cardinality(Positions(storage) \cup {p}) = Cardinality(Positions(storage)) + 1
  BY <1>7, <1>8, FS_AddElement
<1> QED
  BY <1>5, <1>6, <1>9 DEF other, Gains, Enters

\* A table of the grown capacity can hold what was stored, and one more.
LEMMA GrownCapacityIsLarger ==
  ASSUME NEW capacity \in Nat
  PROVE  /\ GrownCapacity(capacity) \in Nat
         /\ GrownCapacity(capacity) > capacity
         /\ GrownCapacity(capacity) > 1
  BY HashAssumption DEF GrownCapacity

\* A new table is empty.
LEMMA NewTableIsEmpty ==
  ASSUME NEW k, NEW S, NEW capacity \in Nat
  PROVE  LET t == NewTable(capacity)
         IN /\ TableOK(k, S, t)
            /\ Len(t.storage) = capacity
            /\ Positions(t.storage) = {}
<1> DEFINE t == NewTable(capacity)
<1>1. t.storage = [i \in 1 .. capacity |-> Empty] /\ t.size = 0
      /\ t = [storage |-> t.storage, size |-> t.size]
  BY DEF NewTable
<1> HIDE DEF t
<1>2. /\ t.storage \in Seq(S \cup {Empty})
      /\ Len(t.storage) = capacity
      /\ Positions(t.storage) = {}
  BY <1>1 DEF Positions
<1>3. StorageOK(k, S, t.storage)
  BY <1>2 DEF StorageOK, Apart, Placed
<1>4. Cardinality(Positions(t.storage)) = 0
  BY <1>2, FS_EmptySet
<1>5. t.storage # << >> => 0 < Len(t.storage)
  BY <1>2
<1>6. TableOK(k, S, t)
  BY <1>1, <1>3, <1>4, <1>5 DEF TableOK
<1> QED
  BY <1>2, <1>6 DEF t

-----------------------------------------------------------------------------
\* The function that a growth computes, one slot of the old storage after the other.
IsRehash(k, t, f) ==
  f = [i \in 0 .. Len(t.storage) |->
         IF i = 0 THEN NewTable(GrownCapacity(Len(t.storage))).storage
         ELSE IF Kept(k, t.storage[i])
         THEN insertNoCheck(k, f[i - 1], t.storage[i])
         ELSE f[i - 1]]

LEMMA RehashExists ==
  ASSUME NEW k, NEW t, Len(t.storage) \in Nat
  PROVE  \E f : IsRehash(k, t, f)
<1> DEFINE n == Len(t.storage)
           next(f, i) == IF i = 0 THEN NewTable(GrownCapacity(n)).storage
                         ELSE IF Kept(k, t.storage[i])
                         THEN insertNoCheck(k, f[i - 1], t.storage[i])
                         ELSE f[i - 1]
           S == {m \in 0 .. n : \E f : f = [i \in 0 .. m |-> next(f, i)]}
<1>1. n \in Nat
  OBVIOUS
<1>2. ASSUME NEW m \in 0 .. n, \A j \in 0 .. m - 1 : j \in S PROVE m \in S
  <2>1. CASE m = 0
    <3> DEFINE f == [i \in 0 .. m |-> NewTable(GrownCapacity(n)).storage]
    <3>1. f = [i \in 0 .. m |-> next(f, i)]
      BY <2>1
    <3> QED
      BY <3>1
  <2>2. CASE m > 0
    <3>1. m - 1 \in 0 .. m - 1
      BY <2>2
    <3>2. PICK g : g = [i \in 0 .. m - 1 |-> next(g, i)]
      BY <3>1, <1>2
    <3> DEFINE f == [i \in 0 .. m |-> IF i = m THEN next(g, m) ELSE g[i]]
    <3>3. f = [i \in 0 .. m |-> f[i]]
      OBVIOUS
    <3>4. f[m] = next(g, m)
      OBVIOUS
    <3>5. \A i \in 0 .. m - 1 : f[i] = g[i]
      OBVIOUS
    <3>6. \A i \in 0 .. m - 1 : g[i] = next(g, i)
      BY <3>2
    <3> HIDE DEF f
    <3>7. ASSUME NEW i \in 0 .. m PROVE f[i] = next(f, i)
      <4>1. i # 0 => f[i - 1] = g[i - 1]
        BY <3>5
      <4>2. next(f, i) = next(g, i)
        BY <4>1
      <4> HIDE DEF next
      <4>3. i = m \/ i \in 0 .. m - 1
        OBVIOUS
      <4> QED
        BY <4>2, <4>3, <3>4, <3>5, <3>6
    <3> HIDE DEF next
    <3>8. f = [i \in 0 .. m |-> next(f, i)]
      BY <3>3, <3>7
    <3> USE DEF next
    <3> QED
      BY <3>8
  <2> QED
    BY <2>1, <2>2
<1>3. n \in S
  <2> HIDE DEF S, n
  <2>1. \A m \in 0 .. n : m \in S
    BY <1>1, <1>2, InductionBelow
  <2> QED
    BY <2>1, <1>1
<1> QED
  BY <1>3 DEF IsRehash

\* The first slots of a storage that a growth keeps, by their positions.
KeptUpTo(k, storage, m) == {i \in 1 .. m : Kept(k, storage[i])}

\* What a growth has done with the first slots.
RehashedUpTo(k, S, storage, m, r) ==
  /\ StorageOK(k, S, r)
  /\ Len(r) = GrownCapacity(Len(storage))
  /\ Cardinality(Positions(r)) = Cardinality(KeptUpTo(k, storage, m))
  /\ SlotsOf(r) = {storage[i] : i \in KeptUpTo(k, storage, m)}

LEMMA KeptUpToCount ==
  ASSUME NEW k, NEW storage, NEW m \in Nat
  PROVE  /\ IsFiniteSet(KeptUpTo(k, storage, m))
         /\ Cardinality(KeptUpTo(k, storage, m)) \in 0 .. m
<1>1. IsFiniteSet(1 .. m) /\ Cardinality(1 .. m) = m
  BY FS_Interval
<1>2. KeptUpTo(k, storage, m) \in SUBSET (1 .. m)
  BY DEF KeptUpTo
<1>3. /\ IsFiniteSet(KeptUpTo(k, storage, m))
      /\ Cardinality(KeptUpTo(k, storage, m)) <= m
  BY <1>1, <1>2, FS_Subset
<1>4. Cardinality(KeptUpTo(k, storage, m)) \in Nat
  BY <1>3, FS_CardinalityType
<1> QED
  BY <1>3, <1>4

LEMMA RehashStep ==
  ASSUME NEW k, NEW S, SlotsOK(S), NEW storage \in Seq(S \cup {Empty}), Apart(k, storage),
         NEW m \in 1 .. Len(storage), NEW r, RehashedUpTo(k, S, storage, m - 1, r)
  PROVE  RehashedUpTo(k, S, storage, m,
           IF Kept(k, storage[m]) THEN insertNoCheck(k, r, storage[m]) ELSE r)
<1> DEFINE slot == storage[m]
           before == KeptUpTo(k, storage, m - 1)
           after == KeptUpTo(k, storage, m)
<1>1. Len(storage) \in Nat /\ DOMAIN storage = 1 .. Len(storage) /\ m - 1 \in Nat
  OBVIOUS
<1>2. /\ StorageOK(k, S, r)
      /\ Len(r) = GrownCapacity(Len(storage))
      /\ Cardinality(Positions(r)) = Cardinality(before)
      /\ SlotsOf(r) = {storage[i] : i \in before}
  BY DEF RehashedUpTo
<1>3. CASE ~ Kept(k, slot)
  <2>1. after = before
    BY <1>1, <1>3 DEF KeptUpTo
  <2> HIDE DEF after, before
  <2> QED
    BY <2>1, <1>2, <1>3 DEF RehashedUpTo, after
<1>4. CASE Kept(k, slot)
  <2> DEFINE other == insertNoCheck(k, r, slot)
  <2>1. after = before \cup {m} /\ m \notin before
    BY <1>1, <1>4 DEF KeptUpTo
  <2>2. IsFiniteSet(before) /\ Cardinality(before) \in 0 .. m - 1
    BY <1>1, KeptUpToCount
  <2>3. Cardinality(after) = Cardinality(before) + 1
    BY <2>1, <2>2, FS_AddElement
  <2>4. slot \in S /\ slot # Empty
    BY <1>4 DEF Kept
  <2>5. Absent(k, r, slot)
    <3>1. ASSUME NEW q \in Positions(r) PROVE IdOf(k, r[q]) # IdOf(k, slot)
      <4>1. r[q] \in SlotsOf(r)
        BY DEF SlotsOf
      <4>2. PICK i \in before : r[q] = storage[i]
        BY <4>1, <1>2
      <4>3. i \in Positions(storage) /\ m \in Positions(storage) /\ i # m
        BY <1>1, <1>4 DEF KeptUpTo, Positions, Kept
      <4> QED
        BY <4>2, <4>3 DEF Apart
    <3> QED
      BY <3>1 DEF Absent
  <2>6. Cardinality(Positions(r)) < Len(r)
    <3>1. GrownCapacity(Len(storage)) \in Nat /\ GrownCapacity(Len(storage)) > Len(storage)
      BY <1>1, GrownCapacityIsLarger
    <3> QED
      BY <3>1, <2>2, <1>1, <1>2
  <2>7. StorageOK(k, S, other) /\ Enters(r, slot, other)
    BY <2>4, <2>5, <2>6, <1>2, InsertNoCheckNew
  <2>8. SlotsOf(other) = {storage[i] : i \in after}
    BY <2>7, <2>1, <1>2 DEF Enters
  <2> HIDE DEF other, after, before
  <2> QED
    BY <2>3, <2>7, <2>8, <1>2, <1>4 DEF RehashedUpTo, Enters, after, other
<1> QED
  BY <1>3, <1>4

\* A growth: the same slots, without what has died, in a larger storage.
Grown(k, S, t, g) ==
  /\ g = [storage |-> g.storage, size |-> g.size]
  /\ RehashedUpTo(k, S, t.storage, Len(t.storage), g.storage)
  /\ g.size = IF k \in {"dictionary", "weakValueDictionary"}
              THEN Cardinality(KeptUpTo(k, t.storage, Len(t.storage)))
              ELSE t.size

LEMMA IncreaseCapacityResult ==
  ASSUME NEW k, NEW S, SlotsOK(S), NEW t, t.storage \in Seq(S \cup {Empty}),
         Apart(k, t.storage)
  PROVE  Grown(k, S, t, increaseCapacity(k, t))
<1> DEFINE n == Len(t.storage)
           f == CHOOSE f : IsRehash(k, t, f)
           size == IF k \in {"dictionary", "weakValueDictionary"}
                   THEN Cardinality({i \in DOMAIN t.storage : Kept(k, t.storage[i])})
                   ELSE t.size
           good == {m \in 0 .. n : RehashedUpTo(k, S, t.storage, m, f[m])}
<1>1. n \in Nat /\ DOMAIN t.storage = 1 .. n
  OBVIOUS
<1>2. IsRehash(k, t, f)
  BY <1>1, RehashExists, Zenon
<1>3. increaseCapacity(k, t) = [storage |-> f[n], size |-> size]
  BY DEF increaseCapacity, IsRehash
<1> HIDE DEF f
<1>4. /\ f[0] = NewTable(GrownCapacity(n)).storage
      /\ \A m \in 1 .. n : f[m] = IF Kept(k, t.storage[m])
                                 THEN insertNoCheck(k, f[m - 1], t.storage[m])
                                 ELSE f[m - 1]
  <2> DEFINE next(i) == IF i = 0 THEN NewTable(GrownCapacity(n)).storage
                        ELSE IF Kept(k, t.storage[i])
                        THEN insertNoCheck(k, f[i - 1], t.storage[i])
                        ELSE f[i - 1]
  <2>1. f = [i \in 0 .. n |-> next(i)]
    BY <1>2 DEF IsRehash
  <2> HIDE DEF next
  <2>2. \A i \in 0 .. n : f[i] = next(i)
    BY <2>1
  <2>3. 0 \in 0 .. n /\ \A m \in 1 .. n : m \in 0 .. n /\ m # 0
    BY <1>1
  <2>4. f[0] = next(0) /\ \A m \in 1 .. n : f[m] = next(m) /\ m # 0
    BY <2>2, <2>3
  <2> QED
    BY <2>4 DEF next
<1>5. ASSUME NEW m \in 0 .. n, \A j \in 0 .. m - 1 : j \in good PROVE m \in good
  <2>1. CASE m = 0
    <3>1. GrownCapacity(n) \in Nat
      BY <1>1, GrownCapacityIsLarger
    <3>2. /\ TableOK(k, S, NewTable(GrownCapacity(n)))
          /\ Len(f[0]) = GrownCapacity(n)
          /\ Positions(f[0]) = {}
      BY <3>1, <1>4, NewTableIsEmpty
    <3>3. StorageOK(k, S, f[0])
      BY <3>2, <1>4 DEF TableOK
    <3>4. KeptUpTo(k, t.storage, 0) = {}
      BY DEF KeptUpTo
    <3>5. SlotsOf(f[0]) = {t.storage[i] : i \in KeptUpTo(k, t.storage, 0)}
      BY <3>2, <3>4 DEF SlotsOf
    <3>6. RehashedUpTo(k, S, t.storage, 0, f[0])
      BY <3>2, <3>3, <3>4, <3>5 DEF RehashedUpTo
    <3> QED
      BY <3>6, <2>1
  <2>2. CASE m > 0
    <3>1. m - 1 \in 0 .. m - 1 /\ m \in 1 .. n
      BY <2>2, <1>1
    <3>2. RehashedUpTo(k, S, t.storage, m - 1, f[m - 1])
      BY <3>1, <1>5
    <3>3. RehashedUpTo(k, S, t.storage, m, f[m])
      BY <3>1, <3>2, <1>4, RehashStep
    <3> QED
      BY <3>3
  <2> QED
    BY <2>1, <2>2, <1>1
<1>6. RehashedUpTo(k, S, t.storage, n, f[n])
  <2>1. \A m \in 0 .. n : m \in good
    <3> HIDE DEF good, n
    <3> QED
      BY <1>1, <1>5, InductionBelow
  <2> QED
    BY <2>1, <1>1
<1>7. KeptUpTo(k, t.storage, n) = {i \in DOMAIN t.storage : Kept(k, t.storage[i])}
  BY <1>1 DEF KeptUpTo
<1> QED
  BY <1>3, <1>6, <1>7 DEF Grown

\* The slots that a growth keeps.
LEMMA GrownSlots ==
  ASSUME NEW k, NEW S, NEW t, t.storage \in Seq(S \cup {Empty}), NEW g, Grown(k, S, t, g)
  PROVE  SlotsOf(g.storage) = {s \in SlotsOf(t.storage) : Kept(k, s)}
<1>1. DOMAIN t.storage = 1 .. Len(t.storage)
  OBVIOUS
<1>2. SlotsOf(g.storage) = {t.storage[i] : i \in KeptUpTo(k, t.storage, Len(t.storage))}
  BY DEF Grown, RehashedUpTo
<1>3. KeptUpTo(k, t.storage, Len(t.storage))
        = {i \in Positions(t.storage) : Kept(k, t.storage[i])}
  BY <1>1 DEF KeptUpTo, Positions, Kept
<1> QED
  BY <1>2, <1>3 DEF SlotsOf

\* A growth of a table whose size counts what is stored, be it full.
LEMMA GrownIsOK ==
  ASSUME NEW k, NEW S, NEW t, t.storage \in Seq(S \cup {Empty}),
         t.size = Cardinality(Positions(t.storage)), NEW g, Grown(k, S, t, g)
  PROVE  /\ TableOK(k, S, g)
         /\ Cardinality(Positions(g.storage)) \in 0 .. Len(t.storage)
         /\ Len(g.storage) = GrownCapacity(Len(t.storage))
<1> DEFINE n == Len(t.storage)
           kept == KeptUpTo(k, t.storage, n)
<1>1. n \in Nat /\ DOMAIN t.storage = 1 .. n
  OBVIOUS
<1>2. /\ g = [storage |-> g.storage, size |-> g.size]
      /\ StorageOK(k, S, g.storage)
      /\ Len(g.storage) = GrownCapacity(n)
      /\ Cardinality(Positions(g.storage)) = Cardinality(kept)
      /\ g.size = IF k \in {"dictionary", "weakValueDictionary"}
                  THEN Cardinality(kept) ELSE t.size
  BY DEF Grown, RehashedUpTo
<1>3. Cardinality(kept) \in 0 .. n
  BY <1>1, KeptUpToCount
<1>4. k # "weakValueDictionary" => kept = Positions(t.storage)
  BY <1>1 DEF KeptUpTo, Positions, Kept
<1>5. g.size = Cardinality(kept)
  <2>1. CASE k \in {"dictionary", "weakValueDictionary"}
    BY <2>1, <1>2
  <2>2. CASE k \notin {"dictionary", "weakValueDictionary"}
    <3>1. kept = Positions(t.storage)
      BY <2>2, <1>4
    <3>2. Cardinality(kept) = Cardinality(Positions(t.storage))
      BY <3>1
    <3> HIDE DEF kept
    <3> QED
      BY <3>2, <2>2, <1>2
  <2> QED
    BY <2>1, <2>2
<1>6. GrownCapacity(n) > n /\ GrownCapacity(n) \in Nat
  BY <1>1, GrownCapacityIsLarger
<1> HIDE DEF n, kept
<1>7. g.size < Len(g.storage)
  BY <1>1, <1>2, <1>3, <1>5, <1>6
<1>8. TableOK(k, S, g)
  BY <1>2, <1>5, <1>7 DEF TableOK
<1> QED
  BY <1>2, <1>3, <1>8 DEF n

-----------------------------------------------------------------------------
\* The slots that are not the same to the searches as slot.
Others(k, storage, slot) == {s \in SlotsOf(storage) : IdOf(k, s) # IdOf(k, slot)}

\* What stands in other for a slot that is stored: the slot, or the one that it updates.
\* Nothing else comes, and only what has died goes.
StoresAs(k, storage, slot, new, other) ==
  /\ SlotsOf(other) \subseteq Others(k, storage, slot) \cup {new}
  /\ {s \in Others(k, storage, slot) : Kept(k, s)} \subseteq SlotsOf(other)
  /\ new \in SlotsOf(other)

Stores(k, storage, slot, isAdd, other) ==
  \/ Absent(k, storage, slot) /\ StoresAs(k, storage, slot, slot, other)
  \/ \E old \in SlotsOf(storage) :
       /\ IdOf(k, old) = IdOf(k, slot)
       /\ StoresAs(k, storage, slot, Updated(k, old, slot, isAdd), other)

\* An update stays among the slots, under its key, and lives.
UpdatesOK(k, S, slot, isAdd) ==
  \A old \in S : IdOf(k, old) = IdOf(k, slot) =>
    LET new == Updated(k, old, slot, isAdd)
    IN /\ new \in S /\ Kept(k, new)
       /\ new.key = slot.key /\ IdOf(k, new) = IdOf(k, slot)

\* The rest of an insertion, once there is room.
InsertedInto(k, room, slot, isAdd) ==
  LET i == Index(k, room.storage, slot)
      added == [storage |-> [room.storage EXCEPT ![i] = slot], size |-> room.size + 1]
  IN IF room.storage[i] # Empty
     THEN [room EXCEPT !.storage[i] = Updated(k, @, slot, isAdd)]
     ELSE IF added.size >= Threshold(k, Len(room.storage))
     THEN increaseCapacity(k, added)
     ELSE added

\* A table below its threshold is not full.
LEMMA ThresholdIsBelow ==
  ASSUME NEW k, NEW capacity \in Nat
  PROVE  Threshold(k, capacity) \in Nat /\ Threshold(k, capacity) <= capacity
  BY DEF Threshold

\* An update in a table with room.
LEMMA InsertedIntoFound ==
  ASSUME NEW k, NEW S, SlotsOK(S), NEW t, TableOK(k, S, t), NEW slot \in S, NEW isAdd,
         UpdatesOK(k, S, slot, isAdd), ~ Absent(k, t.storage, slot)
  PROVE  LET r == InsertedInto(k, t, slot, isAdd)
         IN TableOK(k, S, r) /\ Stores(k, t.storage, slot, isAdd, r.storage)
<1> DEFINE storage == t.storage
           i == Index(k, storage, slot)
           old == storage[i]
           new == Updated(k, old, slot, isAdd)
           r == InsertedInto(k, t, slot, isAdd)
<1>1. /\ t = [storage |-> t.storage, size |-> t.size]
      /\ StorageOK(k, S, storage) /\ storage \in Seq(S \cup {Empty})
      /\ t.size = Cardinality(Positions(storage))
      /\ storage # << >> => t.size < Len(storage)
  BY DEF TableOK, StorageOK
<1>2. i \in Positions(storage) /\ IdOf(k, old) = IdOf(k, slot)
  <2>1. PICK q \in Positions(storage) : IdOf(k, storage[q]) = IdOf(k, slot)
    BY DEF Absent
  <2>2. i = q
    BY <2>1, <1>1, IndexResult
  <2> QED
    BY <2>1, <2>2
<1>3. old \in S /\ old # Empty /\ i \in DOMAIN storage
  BY <1>1, <1>2 DEF Positions
<1>4. new \in S /\ new.key = slot.key /\ IdOf(k, new) = IdOf(k, slot)
  BY <1>2, <1>3 DEF UpdatesOK
<1>5. old.key = slot.key
  BY <1>2 DEF IdOf
<1>6. r = [storage |-> [storage EXCEPT ![i] = new], size |-> t.size]
  BY <1>1, <1>3 DEF InsertedInto
<1> DEFINE other == [storage EXCEPT ![i] = new]
<1> HIDE DEF i, old, new, r
<1>7. other \in Seq(S \cup {Empty}) /\ Len(other) = Len(storage) /\ Written(storage, i, new, other)
  BY <1>1, <1>3, <1>4 DEF Written
<1>8. r.storage = other /\ r.size = t.size
  BY <1>6
<1> HIDE DEF other
<1>9. StorageOK(k, S, other) /\ Replaces(k, storage, new, other)
  BY <1>1, <1>2, <1>4, <1>5, <1>7, PutOver DEF old
<1>10. SlotsOf(other) = Others(k, storage, slot) \cup {new}
  BY <1>4, <1>9 DEF Replaces, Others
<1>11. StoresAs(k, storage, slot, new, other)
  BY <1>10 DEF StoresAs
<1>12. old \in SlotsOf(storage)
  BY <1>2 DEF SlotsOf, old
<1>13. Stores(k, storage, slot, isAdd, other)
  BY <1>2, <1>11, <1>12 DEF Stores, new
<1>14. other # << >> => r.size < Len(other)
  BY <1>1, <1>3, <1>7, <1>8
<1>15. TableOK(k, S, r)
  BY <1>1, <1>6, <1>8, <1>9, <1>14 DEF TableOK, Replaces
<1> QED
  BY <1>13, <1>15, <1>8 DEF r

\* A new slot in a table with room, which may grow after it.
LEMMA InsertedIntoFree ==
  ASSUME NEW k, NEW S, SlotsOK(S), NEW t, TableOK(k, S, t), NEW slot \in S, NEW isAdd,
         Kept(k, slot), Absent(k, t.storage, slot), t.storage # << >>
  PROVE  LET r == InsertedInto(k, t, slot, isAdd)
         IN TableOK(k, S, r) /\ Stores(k, t.storage, slot, isAdd, r.storage)
<1> DEFINE storage == t.storage
           i == Index(k, storage, slot)
           other == [storage EXCEPT ![i] = slot]
           added == [storage |-> other, size |-> t.size + 1]
           r == InsertedInto(k, t, slot, isAdd)
<1>1. /\ StorageOK(k, S, storage) /\ storage \in Seq(S \cup {Empty})
      /\ t.size = Cardinality(Positions(storage))
      /\ t.size < Len(storage)
  BY DEF TableOK, StorageOK
<1>2. /\ Cardinality(Positions(storage)) \in 0 .. Len(storage)
      /\ Len(storage) \in Nat
      /\ Cardinality(DOMAIN storage) = Len(storage)
  BY <1>1, PositionsCount
<1>3. Positions(storage) # DOMAIN storage
  <2> DEFINE P == Positions(storage)
             D == DOMAIN storage
  <2>1. Cardinality(D) = Len(storage) /\ Cardinality(P) < Len(storage)
    BY <1>1, <1>2
  <2> HIDE DEF P, D
  <2>2. P # D
    BY <2>1, <1>2
  <2> QED
    BY <2>2 DEF P, D
<1>4. storage[i] = Empty
  BY <1>1, <1>3, IndexResult
<1>5. other = insertNoCheck(k, storage, slot)
  BY DEF insertNoCheck
<1>6. r = IF added.size >= Threshold(k, Len(storage)) THEN increaseCapacity(k, added)
          ELSE added
  BY <1>4 DEF InsertedInto
<1>7. /\ added.storage = other /\ added.size = t.size + 1
      /\ added = [storage |-> added.storage, size |-> added.size]
  OBVIOUS
<1> HIDE DEF i, other, added, r
<1>8. StorageOK(k, S, other) /\ Enters(storage, slot, other)
  BY <1>1, <1>5, InsertNoCheckNew
<1>9. other \in Seq(S \cup {Empty}) /\ Apart(k, other)
  BY <1>8 DEF StorageOK
<1>10. added.size = Cardinality(Positions(other)) /\ Len(other) = Len(storage)
  BY <1>1, <1>7, <1>8 DEF Enters
<1>11. SlotsOf(other) = Others(k, storage, slot) \cup {slot}
  <2>1. \A s \in SlotsOf(storage) : IdOf(k, s) # IdOf(k, slot)
    BY DEF Absent, SlotsOf
  <2>2. Others(k, storage, slot) = SlotsOf(storage)
    BY <2>1 DEF Others
  <2> QED
    BY <2>2, <1>8 DEF Enters
<1>12. CASE added.size >= Threshold(k, Len(storage))
  <2>1. r = increaseCapacity(k, added)
    BY <1>6, <1>12
  <2>2. Grown(k, S, added, r)
    BY <2>1, <1>7, <1>9, IncreaseCapacityResult
  <2>3. TableOK(k, S, r)
    BY <2>2, <1>7, <1>9, <1>10, GrownIsOK
  <2>4. SlotsOf(r.storage) = {s \in SlotsOf(added.storage) : Kept(k, s)}
    BY <2>2, <1>7, <1>9, GrownSlots
  <2>5. StoresAs(k, storage, slot, slot, r.storage)
    BY <2>4, <1>7, <1>11 DEF StoresAs
  <2> QED
    BY <2>3, <2>5 DEF Stores, r
<1>13. CASE ~ (added.size >= Threshold(k, Len(storage)))
  <2>1. r = added
    BY <1>6, <1>13
  <2>2. added.size < Len(other)
    <3>1. /\ Threshold(k, Len(storage)) \in Nat
          /\ Threshold(k, Len(storage)) <= Len(storage)
      BY <1>2, ThresholdIsBelow
    <3> QED
      BY <3>1, <1>1, <1>2, <1>7, <1>10, <1>13
  <2>3. TableOK(k, S, r)
    BY <2>1, <2>2, <1>7, <1>8, <1>10 DEF TableOK
  <2>4. StoresAs(k, storage, slot, slot, r.storage)
    BY <2>1, <1>7, <1>11 DEF StoresAs
  <2> QED
    BY <2>3, <2>4 DEF Stores, r
<1> QED
  BY <1>12, <1>13

\* An insertion keeps the invariant of the table, and stores the slot or updates the one
\* that is there.
LEMMA InsertResult ==
  ASSUME NEW k, NEW S, SlotsOK(S), NEW t, TableOK(k, S, t), NEW slot \in S, NEW isAdd,
         Kept(k, slot), UpdatesOK(k, S, slot, isAdd)
  PROVE  LET r == insert(k, t, slot, isAdd)
         IN TableOK(k, S, r) /\ Stores(k, t.storage, slot, isAdd, r.storage)
<1> DEFINE room == IF Index(k, t.storage, slot) = 0 THEN increaseCapacity(k, t) ELSE t
<1>1. insert(k, t, slot, isAdd) = InsertedInto(k, room, slot, isAdd)
  BY DEF insert, InsertedInto
<1>2. /\ StorageOK(k, S, t.storage) /\ t.storage \in Seq(S \cup {Empty})
      /\ Apart(k, t.storage)
      /\ t.size = Cardinality(Positions(t.storage))
      /\ t.storage # << >> => t.size < Len(t.storage)
  BY DEF TableOK, StorageOK
<1>3. CASE t.storage # << >>
  <2>1. Index(k, t.storage, slot) # 0
    <3>1. Positions(t.storage) # DOMAIN t.storage
      <4> DEFINE P == Positions(t.storage)
                 D == DOMAIN t.storage
      <4>1. /\ Cardinality(D) = Len(t.storage) /\ Cardinality(P) < Len(t.storage)
            /\ Len(t.storage) \in Nat /\ Cardinality(P) \in Nat
        BY <1>2, <1>3, PositionsCount
      <4> HIDE DEF P, D
      <4>2. P # D
        BY <4>1
      <4> QED
        BY <4>2 DEF P, D
    <3>2. CASE Absent(k, t.storage, slot)
      <4>1. Index(k, t.storage, slot) \in DOMAIN t.storage
        BY <3>1, <3>2, <1>2, IndexResult
      <4> QED
        BY <4>1, <1>2
    <3>3. CASE ~ Absent(k, t.storage, slot)
      <4>1. PICK q \in Positions(t.storage) : IdOf(k, t.storage[q]) = IdOf(k, slot)
        BY <3>3 DEF Absent
      <4>2. Index(k, t.storage, slot) = q
        BY <4>1, <1>2, IndexResult
      <4> QED
        BY <4>2, <1>2 DEF Positions
    <3> QED
      BY <3>2, <3>3
  <2>2. room = t
    BY <2>1
  <2> HIDE DEF room
  <2> QED
    BY <2>2, <1>1, <1>3, InsertedIntoFound, InsertedIntoFree
<1>4. CASE t.storage = << >>
  <2>1. Positions(t.storage) = {} /\ DOMAIN t.storage = {} /\ Len(t.storage) = 0
    BY <1>4 DEF Positions
  <2>2. Absent(k, t.storage, slot)
    BY <2>1 DEF Absent
  <2>3. Index(k, t.storage, slot) = 0
    BY <2>1, <2>2, <1>2, IndexResult
  <2>4. room = increaseCapacity(k, t)
    BY <2>3
  <2> HIDE DEF room
  <2>5. Grown(k, S, t, room)
    BY <2>4, <1>2, IncreaseCapacityResult
  <2>6. TableOK(k, S, room) /\ Len(room.storage) = GrownCapacity(Len(t.storage))
    BY <2>5, <1>2, GrownIsOK
  <2>7. SlotsOf(t.storage) = {}
    BY <2>1 DEF SlotsOf
  <2>8. SlotsOf(room.storage) = {}
    <3>1. SlotsOf(room.storage) = {s \in SlotsOf(t.storage) : Kept(k, s)}
      BY <2>5, <1>2, GrownSlots
    <3> QED
      BY <3>1, <2>7
  <2>9. Absent(k, room.storage, slot)
    BY <2>8 DEF Absent, SlotsOf
  <2>10. room.storage # << >>
    BY <2>1, <2>6, GrownCapacityIsLarger
  <2>11. /\ TableOK(k, S, insert(k, t, slot, isAdd))
         /\ Stores(k, room.storage, slot, isAdd, insert(k, t, slot, isAdd).storage)
    BY <2>6, <2>9, <2>10, <1>1, InsertedIntoFree
  <2>12. Others(k, room.storage, slot) = Others(k, t.storage, slot)
    BY <2>7, <2>8 DEF Others
  <2>13. StoresAs(k, room.storage, slot, slot, insert(k, t, slot, isAdd).storage)
    <3>1. ~ \E old \in SlotsOf(room.storage) : TRUE
      BY <2>8
    <3> QED
      BY <3>1, <2>11 DEF Stores
  <2>14. StoresAs(k, t.storage, slot, slot, insert(k, t, slot, isAdd).storage)
    BY <2>12, <2>13 DEF StoresAs
  <2> QED
    BY <2>2, <2>11, <2>14 DEF Stores
<1> QED
  BY <1>3, <1>4

-----------------------------------------------------------------------------
\* What a search can answer.
Live(k, t) == {s \in SlotsOf(t.storage) : Kept(k, s)}

\* No key is stored twice.
OneSlotPerKey(t) ==
  \A s, u \in SlotsOf(t.storage) : s.key = u.key => s = u

\* The hash that a key is looked up with starts where it was stored.
HashAgrees(k, t, key) ==
  k = "identitySet" /\ Len(t.storage) > 0
    => Hash[key] % Len(t.storage) = identityHash(key) % Len(t.storage)

\* Two hashes with one remainder probe alike.
LEMMA ReachedAlike ==
  ASSUME NEW storage, NEW T, storage \in Seq(T), NEW g \in Nat, NEW h \in Nat,
         Len(storage) > 0 => g % Len(storage) = h % Len(storage),
         NEW p, Reached(storage, g, p)
  PROVE  Reached(storage, h, p)
<1> DEFINE c == Len(storage)
<1>1. c \in Nat
  OBVIOUS
<1>2. PICK i \in 0 .. c - 1 :
        /\ p = Probe(g, c, i)
        /\ \A j \in 0 .. i - 1 : storage[Probe(g, c, j)] # Empty
  BY DEF Reached
<1>3. c > 0 /\ g % c = h % c
  BY <1>1, <1>2
<1> HIDE DEF c
<1>4. ASSUME NEW j \in 0 .. i PROVE Probe(g, c, j) = Probe(h, c, j)
  <2>1. j \in Nat
    BY <1>1
  <2>2. Congruent(g, h, c)
    BY <1>3 DEF Congruent
  <2>3. Congruent(g + j, h + j, c)
    BY <2>1, <2>2, <1>1, <1>3, SameRemainder
  <2> QED
    BY <2>3 DEF Probe, Congruent
<1>5. p = Probe(h, c, i)
  BY <1>1, <1>2, <1>4
<1>6. \A j \in 0 .. i - 1 : storage[Probe(h, c, j)] # Empty
  BY <1>1, <1>2, <1>4
<1> QED
  BY <1>5, <1>6 DEF Reached, c

\* A search answers what is stored under the key, unless it has died, and nothing else.
LEMMA FindResult ==
  ASSUME NEW k, NEW S, SlotsOK(S), NEW t, TableOK(k, S, t), OneSlotPerKey(t),
         NEW key \in Key, HashAgrees(k, t, key)
  PROVE  LET found == findAssociation(k, t, key)
         IN /\ \A s \in Live(k, t) : s.key = key => found = s
            /\ found # Empty => found \in Live(k, t) /\ found.key = key
<1> DEFINE storage == t.storage
           hash == IF k = "identitySet" THEN Hash[key] ELSE HashOf(k, key)
           sought == WithKey(storage, key)
           p == ScanFor(storage, hash, sought)
           at == At(storage, p)
           found == findAssociation(k, t, key)
<1>1. storage \in Seq(S \cup {Empty}) /\ Apart(k, storage) /\ Placed(k, storage)
  BY DEF TableOK, StorageOK
<1>2. hash \in Nat /\ HashOf(k, key) \in Nat
  BY HashIsNumber
<1>3. found = IF at # Empty /\ k = "weakValueDictionary" /\ at.value = Tombstone
              THEN Empty ELSE at
  BY DEF findAssociation
<1>4. \A q \in Positions(storage) : storage[q] \in sought <=> storage[q].key = key
  BY DEF Positions, WithKey
<1>5. Len(storage) > 0 => HashOf(k, key) % Len(storage) = hash % Len(storage)
  BY DEF HashAgrees, HashOf
<1> HIDE DEF hash, sought, found
<1>6. ASSUME NEW q \in Positions(storage), storage[q].key = key PROVE at = storage[q]
  <2>1. storage[q] \in sought
    BY <1>4, <1>6
  <2>2. \A r \in Positions(storage) : storage[r] \in sought => r = q
    <3> SUFFICES ASSUME NEW r \in Positions(storage), storage[r] \in sought PROVE r = q
      OBVIOUS
    <3>1. storage[r] \in SlotsOf(storage) /\ storage[q] \in SlotsOf(storage)
      BY DEF SlotsOf
    <3>2. storage[r].key = storage[q].key
      BY <1>4, <1>6
    <3>3. storage[r] = storage[q]
      BY <3>1, <3>2 DEF OneSlotPerKey
    <3> QED
      BY <3>3, <1>1 DEF Apart
  <2>3. Reached(storage, HashOf(k, key), q)
    BY <1>1, <1>6 DEF Placed
  <2>4. Reached(storage, hash, q)
    BY <2>3, <1>1, <1>2, <1>5, ReachedAlike
  <2>5. p = q
    BY <2>1, <2>2, <2>4, <1>1, <1>2, ScanFinds
  <2>6. q # 0
    BY <1>1 DEF Positions
  <2> QED
    BY <2>5, <2>6 DEF At
<1>7. ASSUME \A q \in Positions(storage) : storage[q].key # key PROVE at = Empty
  <2>1. \A q \in Positions(storage) : storage[q] \notin sought
    BY <1>4, <1>7
  <2>2. p = 0 \/ storage[p] = Empty
    BY <2>1, <1>1, <1>2, ScanMisses
  <2> QED
    BY <2>2 DEF At
<1>8. \A s \in Live(k, t) : s.key = key => found = s
  <2> SUFFICES ASSUME NEW s \in Live(k, t), s.key = key PROVE found = s
    OBVIOUS
  <2>1. PICK q \in Positions(storage) : s = storage[q]
    BY DEF Live, SlotsOf
  <2>2. at = s
    BY <2>1, <1>6
  <2> HIDE DEF at
  <2> QED
    BY <2>2, <1>3 DEF Live, Kept
<1>9. ASSUME found # Empty PROVE found \in Live(k, t) /\ found.key = key
  <2>1. at # Empty /\ found = at
    BY <1>3, <1>9
  <2>2. PICK q \in Positions(storage) : storage[q].key = key
    BY <2>1, <1>7
  <2>3. at = storage[q]
    BY <2>2, <1>6
  <2> HIDE DEF at
  <2>4. found \in SlotsOf(storage)
    BY <2>1, <2>3 DEF SlotsOf
  <2>5. Kept(k, found)
    BY <2>1, <1>3 DEF Kept
  <2> QED
    BY <2>1, <2>2, <2>3, <2>4, <2>5 DEF Live
<1> QED
  BY <1>8, <1>9 DEF found

-----------------------------------------------------------------------------
(***************************************************************************)
(* Collections in use.                                                     *)
(***************************************************************************)

\* The associations of a collection: only a weak one has tombstones for values.
AssociationsOf(k) ==
  [key : Key, value : IF k = "weakValueDictionary" THEN Value \cup {Tombstone} ELSE Value]

\* The inductive invariant of a collection.
CollectionInvariant == kind \in Kinds /\ TableOK(kind, AssociationsOf(kind), table)

LEMMA AssociationsAreSlots ==
  ASSUME NEW k
  PROVE  SlotsOK(AssociationsOf(k))
<1>1. AssociationsOf(k) \subseteq [key : Key, value : Value \cup {Tombstone}]
  BY DEF AssociationsOf
<1>2. Empty \notin AssociationsOf(k)
  BY <1>1, ValueAssumption
<1>3. \A slot \in AssociationsOf(k) : slot.key \in Key
  BY DEF AssociationsOf
<1> QED
  BY <1>2, <1>3 DEF SlotsOK

\* What a collection stores is an association of a value that lives.
LEMMA AssociationsAreStored ==
  ASSUME NEW k, NEW key \in Key, NEW value \in Value
  PROVE  Association(key, value) \in AssociationsOf(k) /\ Kept(k, Association(key, value))
<1> DEFINE slot == Association(key, value)
<1>1. slot \in AssociationsOf(k) /\ slot.value = value
  BY DEF Association, AssociationsOf
<1> HIDE DEF slot
<1>2. slot # Empty
  BY <1>1, AssociationsAreSlots DEF SlotsOK
<1>3. slot.value # Tombstone
  BY <1>1, ValueAssumption
<1> QED
  BY <1>1, <1>2, <1>3 DEF Kept, slot

\* atPut and add update one association of a collection, where they may.
LEMMA AssociationsAreUpdated ==
  ASSUME NEW k, NEW slot \in AssociationsOf(k), Kept(k, slot), NEW isAdd \in BOOLEAN,
         IF isAdd THEN k # "weakValueDictionary" ELSE k # "identitySet"
  PROVE  UpdatesOK(k, AssociationsOf(k), slot, isAdd)
<1> SUFFICES ASSUME NEW old \in AssociationsOf(k), IdOf(k, old) = IdOf(k, slot)
             PROVE  LET new == Updated(k, old, slot, isAdd)
                    IN /\ new \in AssociationsOf(k) /\ Kept(k, new)
                       /\ new.key = slot.key /\ IdOf(k, new) = IdOf(k, slot)
  BY DEF UpdatesOK
<1> DEFINE new == Updated(k, old, slot, isAdd)
<1>1. old.key = slot.key
  BY DEF IdOf
<1>2. new \in AssociationsOf(k) /\ new.key = slot.key
  BY <1>1 DEF Updated, AssociationsOf
<1>3. IdOf(k, new) = IdOf(k, slot)
  BY <1>2 DEF IdOf, Updated
<1>4. new # Empty
  BY <1>2, AssociationsAreSlots DEF SlotsOK
<1>5. k = "weakValueDictionary" => new.value = slot.value
  BY DEF Updated, AssociationsOf
<1>6. Kept(k, new)
  BY <1>4, <1>5 DEF Kept
<1> QED
  BY <1>2, <1>3, <1>6

LEMMA SlotsAreSlotsOf ==
  ASSUME NEW t
  PROVE  Slots(t) = SlotsOf(t.storage)
  BY DEF Slots, SlotsOf, Positions

\* A table in which the slots of changed get the value.
Revalued(t, changed, value) ==
  [t EXCEPT !.storage = [i \in DOMAIN @ |->
     IF @[i] # Empty /\ @[i] \in changed THEN [@[i] EXCEPT !.value = value] ELSE @[i]]]

\* The slots of r are those of t, with the value in those of changed.
RevaluedSlots(t, changed, value, r) ==
  SlotsOf(r.storage) = {IF s \in changed THEN [s EXCEPT !.value = value] ELSE s :
                          s \in SlotsOf(t.storage)}

\* The value can stand in every slot of changed.
CanHold(S, changed, value) ==
  \A s \in S \cap changed : /\ [s EXCEPT !.value = value] \in S
                            /\ [s EXCEPT !.value = value].key = s.key

\* Values change in their associations, and every search goes on as before.
LEMMA RevaluedIsOK ==
  ASSUME NEW k, k # "identitySet", NEW S, SlotsOK(S), NEW t, TableOK(k, S, t),
         NEW changed, NEW value, CanHold(S, changed, value)
  PROVE  /\ TableOK(k, S, Revalued(t, changed, value))
         /\ RevaluedSlots(t, changed, value, Revalued(t, changed, value))
<1> DEFINE revalued(s) == IF s \in changed THEN [s EXCEPT !.value = value] ELSE s
           storage == t.storage
           other == Revalued(t, changed, value).storage
<1>1. /\ t = [storage |-> t.storage, size |-> t.size]
      /\ StorageOK(k, S, storage) /\ storage \in Seq(S \cup {Empty})
      /\ t.size = Cardinality(Positions(storage))
      /\ storage # << >> => t.size < Len(storage)
  BY DEF TableOK, StorageOK
<1>2. /\ other = [i \in DOMAIN storage |-> IF storage[i] # Empty /\ storage[i] \in changed
                                           THEN [storage[i] EXCEPT !.value = value]
                                           ELSE storage[i]]
      /\ Revalued(t, changed, value) = [storage |-> other, size |-> t.size]
  <2> DEFINE f == [i \in DOMAIN storage |-> IF storage[i] # Empty /\ storage[i] \in changed
                                           THEN [storage[i] EXCEPT !.value = value]
                                           ELSE storage[i]]
  <2>1. Revalued(t, changed, value) = [t EXCEPT !.storage = f]
    BY DEF Revalued
  <2> HIDE DEF f
  <2>2. Revalued(t, changed, value) = [storage |-> f, size |-> t.size]
    BY <2>1, <1>1
  <2>3. other = f
    BY <2>2
  <2> QED
    BY <2>2, <2>3 DEF f
<1>3. \A s \in S : revalued(s) \in S /\ revalued(s).key = s.key
  BY DEF CanHold
<1>4. \A i \in DOMAIN storage :
        other[i] = IF storage[i] = Empty THEN Empty ELSE revalued(storage[i])
  BY <1>2
<1>5. /\ DOMAIN other = DOMAIN storage
      /\ DOMAIN storage = 1 .. Len(storage)
      /\ Len(storage) \in Nat
      /\ other = [i \in DOMAIN storage |-> other[i]]
  <2>1. DOMAIN storage = 1 .. Len(storage) /\ Len(storage) \in Nat
    BY <1>1
  <2>2. DOMAIN other = DOMAIN storage /\ other = [i \in DOMAIN storage |-> other[i]]
    BY <1>2
  <2> QED
    BY <2>1, <2>2
<1> HIDE DEF revalued, other
<1>6. \A i \in DOMAIN storage : other[i] \in S \cup {Empty}
  BY <1>1, <1>3, <1>4
<1>7. other \in Seq(S \cup {Empty}) /\ Len(other) = Len(storage)
  <2>1. other \in [1 .. Len(storage) -> S \cup {Empty}]
    BY <1>5, <1>6
  <2> QED
    BY <2>1, <1>5
<1>8. SameKeyed(k, storage, other)
  BY <1>1, <1>3, <1>4, <1>7 DEF SameKeyed, IdOf, SlotsOK
<1>9. StorageOK(k, S, other) /\ Positions(other) = Positions(storage)
  BY <1>1, <1>7, <1>8, SameKeys
<1>10. TableOK(k, S, Revalued(t, changed, value))
  <2>1. other # << >> => t.size < Len(other)
    BY <1>1, <1>7
  <2> QED
    BY <2>1, <1>1, <1>2, <1>9 DEF TableOK
<1>11. SlotsOf(other) = {revalued(s) : s \in SlotsOf(storage)}
  <2>1. \A p \in Positions(storage) : other[p] = revalued(storage[p])
    BY <1>4 DEF Positions
  <2> QED
    BY <2>1, <1>9 DEF SlotsOf
<1> QED
  BY <1>10, <1>11 DEF revalued, other, RevaluedSlots

\* A collection gives the tombstone to the slots of dead values.
LEMMA BuriedIsRevalued ==
  ASSUME NEW S, NEW t, t.storage \in Seq(S \cup {Empty}), NEW dead
  PROVE  Buried(t, dead) = Revalued(t, {s \in S : s.value \in dead}, Tombstone)
<1> DEFINE storage == t.storage
           f == [i \in DOMAIN storage |-> IF storage[i] # Empty /\ storage[i].value \in dead
                                         THEN [storage[i] EXCEPT !.value = Tombstone]
                                         ELSE storage[i]]
           g == [i \in DOMAIN storage |->
                   IF storage[i] # Empty /\ storage[i] \in {s \in S : s.value \in dead}
                   THEN [storage[i] EXCEPT !.value = Tombstone]
                   ELSE storage[i]]
<1>1. \A i \in DOMAIN storage : storage[i] # Empty => storage[i] \in S
  OBVIOUS
<1>2. f = g
  BY <1>1
<1>3. Buried(t, dead) = [t EXCEPT !.storage = f]
  BY DEF Buried
<1>4. Revalued(t, {s \in S : s.value \in dead}, Tombstone) = [t EXCEPT !.storage = g]
  BY DEF Revalued
<1> QED
  BY <1>2, <1>3, <1>4

\* Dead values leave tombstones, and every search goes on as before.
LEMMA BuriedIsOK ==
  ASSUME NEW S, SlotsOK(S), NEW t, TableOK("weakValueDictionary", S, t), NEW dead,
         \A s \in S : /\ [s EXCEPT !.value = Tombstone] \in S
                      /\ [s EXCEPT !.value = Tombstone].key = s.key
  PROVE  /\ TableOK("weakValueDictionary", S, Buried(t, dead))
         /\ SlotsOf(Buried(t, dead).storage)
              = {IF s.value \in dead THEN [s EXCEPT !.value = Tombstone] ELSE s :
                   s \in SlotsOf(t.storage)}
<1> DEFINE changed == {s \in S : s.value \in dead}
           r == Revalued(t, changed, Tombstone)
<1>1. t.storage \in Seq(S \cup {Empty})
  BY DEF TableOK, StorageOK
<1>2. Buried(t, dead) = r
  BY <1>1, BuriedIsRevalued
<1>3. \A s \in SlotsOf(t.storage) : s \in changed <=> s.value \in dead
  BY <1>1 DEF SlotsOf, Positions
<1> HIDE DEF changed
<1>4. /\ TableOK("weakValueDictionary", S, r)
      /\ RevaluedSlots(t, changed, Tombstone, r)
  <2>1. CanHold(S, changed, Tombstone)
    BY DEF CanHold
  <2>2. "weakValueDictionary" # "identitySet"
    OBVIOUS
  <2> QED
    BY <2>1, <2>2, RevaluedIsOK
<1> HIDE DEF r
<1>5. SlotsOf(r.storage) = {IF s.value \in dead THEN [s EXCEPT !.value = Tombstone] ELSE s :
                              s \in SlotsOf(t.storage)}
  BY <1>3, <1>4 DEF RevaluedSlots
<1> QED
  BY <1>2, <1>4, <1>5

\* What at:put: and add: do to a collection.
LEMMA CollectionInsert ==
  ASSUME NEW k, NEW t, TableOK(k, AssociationsOf(k), t),
         NEW slot \in AssociationsOf(k), Kept(k, slot), NEW isAdd \in BOOLEAN,
         IF isAdd THEN k # "weakValueDictionary" ELSE k # "identitySet"
  PROVE  LET r == insert(k, t, slot, isAdd)
         IN TableOK(k, AssociationsOf(k), r) /\ Stores(k, t.storage, slot, isAdd, r.storage)
<1>1. SlotsOK(AssociationsOf(k))
  BY AssociationsAreSlots
<1>2. UpdatesOK(k, AssociationsOf(k), slot, isAdd)
  BY AssociationsAreUpdated
<1> QED
  BY <1>1, <1>2, InsertResult

\* The two classes that share the add: of dictionaries.
Dictionary == {"dictionary", "weakValueDictionary"}

\* Weak dictionaries hash and search like the others: they have the same tables.
LEMMA DictionariesAlike ==
  ASSUME NEW k \in Dictionary, NEW S, NEW t
  PROVE  TableOK(k, S, t) <=> TableOK("dictionary", S, t)
<1>1. \A key : HashOf(k, key) = HashOf("dictionary", key)
  BY DEF HashOf, Dictionary
<1>2. \A slot : IdOf(k, slot) = slot.key /\ IdOf("dictionary", slot) = slot.key
  BY DEF IdOf, Dictionary
<1>3. Apart(k, t.storage) <=> Apart("dictionary", t.storage)
  BY <1>2 DEF Apart
<1>4. Placed(k, t.storage) <=> Placed("dictionary", t.storage)
  BY <1>1 DEF Placed
<1> QED
  BY <1>3, <1>4 DEF TableOK, StorageOK

\* The add: of a dictionary stores an association under a new key, and otherwise leaves
\* everything that is stored as it is.
LEMMA DictionaryAdd ==
  ASSUME NEW k \in Dictionary, NEW t, TableOK(k, AssociationsOf(k), t),
         NEW slot \in AssociationsOf(k), Kept(k, slot)
  PROVE  LET r == add(k, t, slot)
         IN /\ TableOK(k, AssociationsOf(k), r)
            /\ \/ /\ \A s \in SlotsOf(t.storage) : s.key # slot.key
                  /\ Stores(k, t.storage, slot, FALSE, r.storage)
               \/ /\ \E s \in SlotsOf(t.storage) : s.key = slot.key
                  /\ SlotsOf(r.storage) = SlotsOf(t.storage)
<1> DEFINE S == AssociationsOf(k)
           d == "dictionary"
           r == add(k, t, slot)
           others == {s \in SlotsOf(t.storage) : s.key # slot.key}
<1>1. r = insert(d, t, slot, TRUE)
  BY DEF add, Dictionary
<1>2. SlotsOK(S)
  BY AssociationsAreSlots
<1>3. TableOK(d, S, t) /\ OneSlotPerKey(t)
  <2>1. TableOK(d, S, t)
    BY DictionariesAlike
  <2>2. \A p, q \in Positions(t.storage) : t.storage[p].key = t.storage[q].key => p = q
    BY <2>1 DEF TableOK, StorageOK, Apart, IdOf
  <2> QED
    BY <2>1, <2>2 DEF OneSlotPerKey, SlotsOf
<1>4. Kept(d, slot)
  BY DEF Kept
<1>5. UpdatesOK(d, S, slot, TRUE)
  BY <1>2 DEF UpdatesOK, Updated, Kept, IdOf, SlotsOK
<1> HIDE DEF S, r
<1>6. TableOK(d, S, r) /\ Stores(d, t.storage, slot, TRUE, r.storage)
  BY <1>1, <1>2, <1>3, <1>4, <1>5, InsertResult DEF S
<1>7. TableOK(k, S, r)
  BY <1>6, DictionariesAlike
<1>8. Others(d, t.storage, slot) = others /\ Others(k, t.storage, slot) = others
  BY DEF Others, IdOf, Dictionary
<1>9. \A s \in SlotsOf(t.storage) : Kept(d, s)
  BY DEF Kept, SlotsOf, Positions
<1> HIDE DEF others
<1>10. ASSUME StoresAs(d, t.storage, slot, slot, r.storage), Absent(d, t.storage, slot)
       PROVE  /\ \A s \in SlotsOf(t.storage) : s.key # slot.key
              /\ Stores(k, t.storage, slot, FALSE, r.storage)
  <2>1. \A s \in SlotsOf(t.storage) : s.key # slot.key
    BY <1>10 DEF Absent, SlotsOf, IdOf
  <2>2. Absent(k, t.storage, slot)
    BY <1>10 DEF Absent, IdOf, Dictionary
  <2>3. {s \in others : Kept(k, s)} \subseteq others /\ others \subseteq SlotsOf(t.storage)
    BY DEF others
  <2>4. StoresAs(k, t.storage, slot, slot, r.storage)
    BY <1>8, <1>9, <1>10, <2>3 DEF StoresAs
  <2> QED
    BY <2>1, <2>2, <2>4 DEF Stores
<1>11. ASSUME NEW old \in SlotsOf(t.storage), IdOf(d, old) = IdOf(d, slot),
              StoresAs(d, t.storage, slot, Updated(d, old, slot, TRUE), r.storage)
       PROVE  /\ \E s \in SlotsOf(t.storage) : s.key = slot.key
              /\ SlotsOf(r.storage) = SlotsOf(t.storage)
  <2>1. old.key = slot.key /\ Updated(d, old, slot, TRUE) = old
    BY <1>11 DEF IdOf, Updated
  <2>2. /\ SlotsOf(r.storage) \subseteq others \cup {old}
        /\ {s \in others : Kept(d, s)} \subseteq SlotsOf(r.storage)
        /\ old \in SlotsOf(r.storage)
    BY <1>8, <1>11, <2>1 DEF StoresAs
  <2>3. SlotsOf(t.storage) = others \cup {old}
    BY <1>3, <2>1 DEF OneSlotPerKey, others
  <2> QED
    BY <1>9, <2>1, <2>2, <2>3
<1> QED
  BY <1>6, <1>7, <1>10, <1>11 DEF Stores, S, r

\* What a collection of garbage does to a weak dictionary.
LEMMA CollectionBuried ==
  ASSUME NEW t, TableOK("weakValueDictionary", AssociationsOf("weakValueDictionary"), t),
         NEW dead
  PROVE  /\ TableOK("weakValueDictionary", AssociationsOf("weakValueDictionary"),
                    Buried(t, dead))
         /\ SlotsOf(Buried(t, dead).storage)
              = {IF s.value \in dead THEN [s EXCEPT !.value = Tombstone] ELSE s :
                   s \in SlotsOf(t.storage)}
<1> DEFINE S == AssociationsOf("weakValueDictionary")
<1>1. SlotsOK(S)
  BY AssociationsAreSlots
<1>2. \A s \in S : /\ [s EXCEPT !.value = Tombstone] \in S
                   /\ [s EXCEPT !.value = Tombstone].key = s.key
  BY DEF AssociationsOf
<1> HIDE DEF S
<1>3. TableOK("weakValueDictionary", S, t)
  BY DEF S
<1>4. /\ TableOK("weakValueDictionary", S, Buried(t, dead))
      /\ SlotsOf(Buried(t, dead).storage)
           = {IF s.value \in dead THEN [s EXCEPT !.value = Tombstone] ELSE s :
                s \in SlotsOf(t.storage)}
  BY <1>1, <1>2, <1>3, BuriedIsOK
<1> QED
  BY <1>4 DEF S

\* The elements of a set are associations that it has.
LEMMA StoredIsAssociation ==
  ASSUME NEW k, NEW t, TableOK(k, AssociationsOf(k), t), NEW s \in SlotsOf(t.storage)
  PROVE  s \in AssociationsOf(k) /\ s # Empty
<1>1. t.storage \in Seq(AssociationsOf(k) \cup {Empty})
  BY DEF TableOK, StorageOK
<1> QED
  BY <1>1 DEF SlotsOf, Positions

LEMMA CollectionInit == DInit => CollectionInvariant
<1> SUFFICES ASSUME DInit PROVE CollectionInvariant
  OBVIOUS
<1>1. PICK expected \in Nat : table = NewTable((expected * 130) \div 100)
  BY ValueAssumption DEF DInit
<1>2. (expected * 130) \div 100 \in Nat
  OBVIOUS
<1>3. TableOK(kind, AssociationsOf(kind), table)
  BY <1>1, <1>2, NewTableIsEmpty
<1> QED
  BY <1>3 DEF DInit, CollectionInvariant

\* Every request and every collection keeps the invariant.
LEMMA CollectionStep ==
  ASSUME CollectionInvariant, [DNext]_dvars
  PROVE  CollectionInvariant'
<1> DEFINE S == AssociationsOf(kind)
           OK(t) == TableOK(kind, S, t)
<1>1. kind \in Kinds /\ OK(table)
  BY DEF CollectionInvariant
<1>2. SUFFICES kind' = kind /\ OK(table')
  BY <1>1 DEF CollectionInvariant
<1>3. ASSUME NEW key \in Key, NEW value \in Value, AtPut(key, value)
      PROVE  kind' = kind /\ OK(table')
  <2> DEFINE slot == Association(key, value)
  <2>1. slot \in S /\ Kept(kind, slot)
    BY AssociationsAreStored
  <2>2. kind # "identitySet" /\ kind' = kind /\ table' = insert(kind, table, slot, FALSE)
    BY <1>3 DEF AtPut, atPut
  <2> HIDE DEF slot
  <2> QED
    BY <2>1, <2>2, <1>1, CollectionInsert
<1>4. ASSUME NEW key \in Key, NEW value \in Value, Add(key, value)
      PROVE  kind' = kind /\ OK(table')
  <2> DEFINE slot == Association(key, value)
  <2>1. slot \in S /\ Kept(kind, slot)
    BY AssociationsAreStored
  <2>2. /\ kind \in {"dictionary", "weakValueDictionary", "identityDictionary"}
        /\ kind' = kind /\ table' = add(kind, table, slot)
    BY <1>4 DEF Add
  <2> HIDE DEF slot
  <2>3. CASE kind \in Dictionary
    BY <2>1, <2>2, <2>3, <1>1, DictionaryAdd
  <2>4. CASE kind \notin Dictionary
    BY <2>1, <2>2, <2>4, <1>1, CollectionInsert DEF Dictionary, add
  <2> QED
    BY <2>3, <2>4
<1>5. ASSUME NEW key \in Key, internWithString(key)
      PROVE  kind' = kind /\ OK(table')
  <2>1. PICK symbol \in Value : table' = IF Found(key) # Empty THEN table
                                         ELSE add(kind, table, Association(key, symbol))
    BY <1>5 DEF internWithString
  <2> DEFINE slot == Association(key, symbol)
  <2>2. slot \in S /\ Kept(kind, slot)
    BY AssociationsAreStored
  <2>3. kind # "weakValueDictionary" /\ kind' = kind
    BY <1>5 DEF internWithString
  <2>4. table' = table \/ table' = insert(kind, table, slot, TRUE)
    BY <2>1, <2>3 DEF add
  <2> HIDE DEF slot
  <2> QED
    BY <2>2, <2>3, <2>4, <1>1, CollectionInsert
<1>6. ASSUME NEW symbol \in Slots(table), AddAgain(symbol)
      PROVE  kind' = kind /\ OK(table')
  <2>1. symbol \in S /\ symbol # Empty
    BY <1>1, SlotsAreSlotsOf, StoredIsAssociation
  <2>2. /\ kind = "identitySet" /\ kind' = kind
        /\ table' = insert(kind, table, symbol, TRUE)
    BY <1>6 DEF AddAgain, add
  <2>3. Kept(kind, symbol)
    BY <2>1, <2>2 DEF Kept
  <2> QED
    BY <2>1, <2>2, <2>3, <1>1, CollectionInsert
<1>7. ASSUME NEW dead \in SUBSET Value, Collect(dead)
      PROVE  kind' = kind /\ OK(table')
  BY <1>1, <1>7, CollectionBuried DEF Collect
<1>8. CASE UNCHANGED dvars
  BY <1>1, <1>8 DEF dvars
<1> QED
  BY <1>3, <1>4, <1>5, <1>6, <1>7, <1>8 DEF DNext

\* The invariant of the collections: kinds, slots where searches get to them, sizes.
THEOREM TableInvariant == DSpec => []CollectionInvariant
<1>1. CollectionInvariant /\ [DNext]_dvars => CollectionInvariant'
  BY CollectionStep
<1> QED
  BY <1>1, CollectionInit, PTL DEF DSpec

\* A table that has storage has an empty slot, so that every search of dictionary.c and
\* set.c ends and every insertion finds its place; and the size is that of the content.
THEOREM RoomAndSizeHolds == DSpec => []RoomAndSize
<1>1. ASSUME CollectionInvariant PROVE RoomAndSize
  <2> DEFINE storage == table.storage
  <2>1. /\ storage \in Seq(AssociationsOf(kind) \cup {Empty})
        /\ table.size = Cardinality(Positions(storage))
        /\ storage # << >> => table.size < Len(storage)
    BY <1>1 DEF CollectionInvariant, TableOK, StorageOK
  <2>2. table.size = Cardinality({i \in DOMAIN storage : storage[i] # Empty})
    BY <2>1 DEF Positions
  <2>3. ASSUME storage # << >>, \A i \in DOMAIN storage : storage[i] # Empty PROVE FALSE
    <3>1. Positions(storage) = DOMAIN storage
      BY <2>3 DEF Positions
    <3>2. Cardinality(DOMAIN storage) = Len(storage) /\ Len(storage) \in Nat
      BY <2>1, PositionsCount
    <3> DEFINE P == Positions(storage)
               D == DOMAIN storage
    <3>3. P = D /\ Cardinality(D) = Len(storage) /\ Cardinality(P) < Len(storage)
      BY <3>1, <3>2, <2>1, <2>3
    <3> HIDE DEF P, D
    <3> QED
      BY <3>3, <3>2
  <2> QED
    BY <2>2, <2>3 DEF RoomAndSize
<1> QED
  BY <1>1, TableInvariant, PTL

-----------------------------------------------------------------------------
(***************************************************************************)
(* Collections implement KeyedStore.                                       *)
(***************************************************************************)

\* The capacity divides the number of hashes that the header of an object can hold: both
\* are powers of two, so this says that the table of symbols has 2^22 slots at most.
Fits(t) == Len(t.storage) > 0 => \E m \in Nat : StoredHashes = Len(t.storage) * m

\* A hash and what a header holds of it have one remainder, if that fits.
LEMMA FittingHashAgrees ==
  ASSUME NEW k, NEW t, Len(t.storage) \in Nat, Fits(t), NEW key \in Key
  PROVE  HashAgrees(k, t, key)
<1> DEFINE c == Len(t.storage)
           h == Hash[key]
<1> SUFFICES ASSUME c > 0 PROVE h % c = (h % StoredHashes) % c
  BY HashIsNumber DEF HashAgrees
<1>1. h \in Nat /\ StoredHashes \in Nat /\ StoredHashes > 0 /\ c \in Nat
  BY HashAssumption
<1>2. PICK m \in Nat : StoredHashes = c * m
  BY DEF Fits
<1> HIDE DEF c, h
<1> DEFINE r == h % StoredHashes
<1>3. r \in Nat
  BY <1>1, Division
<1>4. PICK q \in Nat : h = (StoredHashes * q) + r
  BY <1>1, Division
<1> HIDE DEF r
<1> DEFINE b == r % c
<1>5. b \in 0 .. c - 1
  BY <1>1, <1>3, Division
<1>6. PICK a \in Nat : r = (c * a) + b
  BY <1>1, <1>3, Division
<1> HIDE DEF b
<1>7. h = (c * ((m * q) + a)) + b
  <2>1. h = (((c * m) * q) + (c * a)) + b
    BY <1>1, <1>2, <1>4, <1>5, <1>6
  <2>2. (c * m) * q = c * (m * q)
    BY <1>1
  <2>3. (c * (m * q)) + (c * a) = c * ((m * q) + a)
    BY <1>1
  <2> QED
    BY <2>1, <2>2, <2>3
<1>8. (m * q) + a \in Nat
  OBVIOUS
<1>9. ((c * ((m * q) + a)) + b) % c = b
  BY <1>1, <1>5, <1>8, Remainder
<1>10. h % c = b
  BY <1>7, <1>9
<1> QED
  BY <1>10 DEF b, r

\* What searches find in a table.
ContentOf(k, t) ==
  [key \in {x \in Key : findAssociation(k, t, x) # Empty} |-> findAssociation(k, t, key).value]

\* A table in which searches find what is stored.
Searchable(k, t) ==
  /\ TableOK(k, AssociationsOf(k), t)
  /\ OneSlotPerKey(t)
  /\ \A key \in Key : HashAgrees(k, t, key)

LEMMA LiveIsAssociation ==
  ASSUME NEW k, NEW t, TableOK(k, AssociationsOf(k), t), NEW s \in Live(k, t)
  PROVE  s.key \in Key /\ s # Empty
<1>1. s \in AssociationsOf(k) /\ s # Empty
  BY StoredIsAssociation DEF Live
<1> QED
  BY <1>1 DEF AssociationsOf

\* The content of a table is what lives in it.
LEMMA ContentIsLive ==
  ASSUME NEW k, NEW t, Searchable(k, t)
  PROVE  /\ DOMAIN ContentOf(k, t) \subseteq Key
         /\ \A s \in Live(k, t) : s.key \in DOMAIN ContentOf(k, t)
                                  /\ ContentOf(k, t)[s.key] = s.value
         /\ \A x \in DOMAIN ContentOf(k, t) : \E s \in Live(k, t) : s.key = x
<1> DEFINE found(x) == findAssociation(k, t, x)
<1>1. /\ TableOK(k, AssociationsOf(k), t) /\ OneSlotPerKey(t)
      /\ \A key \in Key : HashAgrees(k, t, key)
      /\ SlotsOK(AssociationsOf(k))
  BY AssociationsAreSlots DEF Searchable
<1>2. ASSUME NEW x \in Key
      PROVE  /\ \A s \in Live(k, t) : s.key = x => found(x) = s
             /\ found(x) # Empty => found(x) \in Live(k, t) /\ found(x).key = x
  BY <1>1, FindResult
<1>3. \A s \in Live(k, t) : s.key \in Key /\ s # Empty
  BY <1>1, LiveIsAssociation
<1> HIDE DEF found
<1>4. ContentOf(k, t) = [x \in {y \in Key : found(y) # Empty} |-> found(x).value]
  BY DEF ContentOf, found
<1>5. DOMAIN ContentOf(k, t) = {y \in Key : found(y) # Empty}
  BY <1>4
<1>6. \A x \in DOMAIN ContentOf(k, t) : ContentOf(k, t)[x] = found(x).value
  BY <1>4
<1>7. ASSUME NEW s \in Live(k, t)
      PROVE  s.key \in DOMAIN ContentOf(k, t) /\ ContentOf(k, t)[s.key] = s.value
  <2>1. s.key \in Key /\ found(s.key) = s /\ s # Empty
    BY <1>2, <1>3
  <2>2. s.key \in DOMAIN ContentOf(k, t)
    BY <2>1, <1>5
  <2> QED
    BY <2>1, <2>2, <1>6
<1>8. ASSUME NEW x \in DOMAIN ContentOf(k, t) PROVE \E s \in Live(k, t) : s.key = x
  <2>1. x \in Key /\ found(x) # Empty
    BY <1>5
  <2> QED
    BY <2>1, <1>2
<1> QED
  BY <1>5, <1>7, <1>8

\* What an insertion does to what lives: new stands under the key.
Puts(k, t, key, new, r) ==
  /\ Live(k, r) = {s \in Live(k, t) : s.key # key} \cup {new}
  /\ new.key = key

\* A content with one value put into it.
PutInto(content, key, value) ==
  [x \in DOMAIN content \cup {key} |-> IF x = key THEN value ELSE content[x]]

\* The content after an insertion.
LEMMA ContentPut ==
  ASSUME NEW k, NEW t, Searchable(k, t), NEW r, Searchable(k, r), NEW key, NEW new,
         Puts(k, t, key, new, r)
  PROVE  ContentOf(k, r) = PutInto(ContentOf(k, t), key, new.value)
<1> DEFINE before == ContentOf(k, t)
           after == ContentOf(k, r)
           put == [x \in DOMAIN before \cup {key} |->
                     IF x = key THEN new.value ELSE before[x]]
<1>1. /\ \A s \in Live(k, t) : s.key \in DOMAIN before /\ before[s.key] = s.value
      /\ \A x \in DOMAIN before : \E s \in Live(k, t) : s.key = x
  BY ContentIsLive
<1>2. /\ \A s \in Live(k, r) : s.key \in DOMAIN after /\ after[s.key] = s.value
      /\ \A x \in DOMAIN after : \E s \in Live(k, r) : s.key = x
  BY ContentIsLive
<1>3. /\ Live(k, r) = {s \in Live(k, t) : s.key # key} \cup {new}
      /\ new.key = key
  BY DEF Puts
<1>4. after = [x \in DOMAIN after |-> after[x]]
  BY DEF ContentOf
<1>5. /\ put = [x \in DOMAIN put |-> put[x]]
      /\ DOMAIN put = {key} \cup DOMAIN before
      /\ put[key] = new.value
      /\ \A x \in DOMAIN before : x # key => put[x] = before[x]
  OBVIOUS
<1> HIDE DEF before, after, put
<1>6. new \in Live(k, r)
  BY <1>3
<1>7. key \in DOMAIN after /\ after[key] = new.value
  BY <1>2, <1>3, <1>6
<1>8. ASSUME NEW x \in DOMAIN after, x # key
      PROVE  x \in DOMAIN before /\ after[x] = before[x]
  <2>1. PICK s \in Live(k, r) : s.key = x
    BY <1>2
  <2>2. s \in Live(k, t)
    BY <2>1, <1>3, <1>8
  <2> QED
    BY <2>1, <2>2, <1>1, <1>2
<1>9. ASSUME NEW x \in DOMAIN before, x # key PROVE x \in DOMAIN after
  <2>1. PICK s \in Live(k, t) : s.key = x
    BY <1>1
  <2>2. s \in Live(k, r)
    BY <2>1, <1>3, <1>9
  <2> QED
    BY <2>1, <2>2, <1>2
<1>10. DOMAIN after = DOMAIN put
  BY <1>5, <1>7, <1>8, <1>9
<1>11. \A x \in DOMAIN after : after[x] = put[x]
  BY <1>5, <1>7, <1>8
<1>12. after = put
  BY <1>4, <1>5, <1>10, <1>11
<1> QED
  BY <1>12 DEF after, put, before, PutInto

\* What is stored under the key of the slot is the same to the searches as the slot.
KeyTells(k, t, slot) ==
  \A s \in SlotsOf(t.storage) : s.key = slot.key => IdOf(k, s) = IdOf(k, slot)

\* What an insertion puts under the key: the slot, or what was there updated with it.
IsPut(k, t, slot, isAdd, new) ==
  \/ new = slot /\ \A s \in SlotsOf(t.storage) : s.key # slot.key
  \/ \E old \in SlotsOf(t.storage) :
       old.key = slot.key /\ new = Updated(k, old, slot, isAdd)

LEMMA StoresPuts ==
  ASSUME NEW k, NEW t, TableOK(k, AssociationsOf(k), t), OneSlotPerKey(t),
         NEW slot \in AssociationsOf(k), Kept(k, slot), NEW isAdd \in BOOLEAN,
         IF isAdd THEN k # "weakValueDictionary" ELSE k # "identitySet",
         KeyTells(k, t, slot),
         NEW r, Stores(k, t.storage, slot, isAdd, r.storage)
  PROVE  /\ OneSlotPerKey(r)
         /\ \E new : Puts(k, t, slot.key, new, r) /\ IsPut(k, t, slot, isAdd, new)
<1> DEFINE storage == t.storage
           others == Others(k, storage, slot)
<1>1. others = {s \in SlotsOf(storage) : s.key # slot.key}
  BY DEF Others, KeyTells, IdOf
<1> HIDE DEF others
<1>2. ASSUME NEW new, StoresAs(k, storage, slot, new, r.storage), Kept(k, new),
             new.key = slot.key
      PROVE  OneSlotPerKey(r) /\ Puts(k, t, slot.key, new, r)
  <2>1. /\ SlotsOf(r.storage) \subseteq others \cup {new}
        /\ {s \in others : Kept(k, s)} \subseteq SlotsOf(r.storage)
        /\ new \in SlotsOf(r.storage)
    BY <1>2 DEF StoresAs, others
  <2>2. OneSlotPerKey(r)
    BY <2>1, <1>1, <1>2 DEF OneSlotPerKey
  <2>3. \A s : s \in Live(k, r)
                 <=> s \in {u \in Live(k, t) : u.key # slot.key} \cup {new}
    BY <2>1, <1>1, <1>2 DEF Live
  <2>4. Live(k, r) = {u \in Live(k, t) : u.key # slot.key} \cup {new}
    BY <2>3
  <2> QED
    BY <2>2, <2>4, <1>2 DEF Puts
<1>3. CASE Absent(k, storage, slot) /\ StoresAs(k, storage, slot, slot, r.storage)
  <2>1. OneSlotPerKey(r) /\ Puts(k, t, slot.key, slot, r)
    BY <1>2, <1>3
  <2>2. \A s \in SlotsOf(storage) : IdOf(k, s) # IdOf(k, slot)
    BY <1>3 DEF Absent, SlotsOf
  <2>3. IsPut(k, t, slot, isAdd, slot)
    BY <2>2 DEF IsPut, KeyTells
  <2> QED
    BY <2>1, <2>3
<1>4. ASSUME NEW old \in SlotsOf(storage), IdOf(k, old) = IdOf(k, slot),
             StoresAs(k, storage, slot, Updated(k, old, slot, isAdd), r.storage)
      PROVE  /\ OneSlotPerKey(r)
             /\ \E new : Puts(k, t, slot.key, new, r) /\ IsPut(k, t, slot, isAdd, new)
  <2> DEFINE new == Updated(k, old, slot, isAdd)
  <2>1. old \in AssociationsOf(k) /\ old.key = slot.key
    BY <1>4, StoredIsAssociation DEF IdOf
  <2>2. UpdatesOK(k, AssociationsOf(k), slot, isAdd)
    BY AssociationsAreUpdated
  <2>3. Kept(k, new) /\ new.key = slot.key
    BY <2>1, <2>2, <1>4 DEF UpdatesOK
  <2>4. IsPut(k, t, slot, isAdd, new)
    BY <2>1 DEF IsPut
  <2> HIDE DEF new
  <2>5. OneSlotPerKey(r) /\ Puts(k, t, slot.key, new, r)
    BY <2>3, <1>2, <1>4 DEF new
  <2> QED
    BY <2>4, <2>5
<1> QED
  BY <1>3, <1>4 DEF Stores

\* Every class of collections but the sets tells slots apart by their keys.
LEMMA KeyedIsOneSlotPerKey ==
  ASSUME NEW k, k # "identitySet", NEW t, Apart(k, t.storage)
  PROVE  OneSlotPerKey(t)
  BY DEF Apart, OneSlotPerKey, SlotsOf, IdOf

\* The invariant under which a collection implements KeyedStore.
StoreInvariant == CollectionInvariant /\ OneSlotPerKey(table)

\* The hypothesis of the refinement: a table of symbols fits the hashes of headers.
SymbolsFit == kind = "identitySet" => Fits(table)

LEMMA StoreIsSearchable ==
  ASSUME NEW k, NEW t, TableOK(k, AssociationsOf(k), t), OneSlotPerKey(t),
         k = "identitySet" => Fits(t)
  PROVE  Searchable(k, t)
<1>1. Len(t.storage) \in Nat
  BY DEF TableOK, StorageOK
<1>2. ASSUME NEW key \in Key PROVE HashAgrees(k, t, key)
  <2>1. CASE k = "identitySet"
    BY <2>1, <1>1, FittingHashAgrees
  <2>2. CASE k # "identitySet"
    BY <2>2 DEF HashAgrees
  <2> QED
    BY <2>1, <2>2
<1> QED
  BY <1>2 DEF Searchable

\* A collection of its own kind: what an insertion does to the content.
LEMMA InsertPuts ==
  ASSUME NEW k, NEW t, TableOK(k, AssociationsOf(k), t), OneSlotPerKey(t),
         NEW slot \in AssociationsOf(k), Kept(k, slot), NEW isAdd \in BOOLEAN,
         IF isAdd THEN k # "weakValueDictionary" ELSE k # "identitySet",
         KeyTells(k, t, slot),
         NEW r, r = insert(k, t, slot, isAdd)
  PROVE  /\ OneSlotPerKey(r)
         /\ \E new : Puts(k, t, slot.key, new, r) /\ IsPut(k, t, slot, isAdd, new)
<1>1. Stores(k, t.storage, slot, isAdd, r.storage)
  BY CollectionInsert
<1> QED
  BY <1>1, StoresPuts

\* A key under which nothing is found is stored nowhere.
LEMMA NotFoundIsNotStored ==
  ASSUME NEW k, k # "weakValueDictionary", NEW t, Searchable(k, t), NEW key \in Key,
         findAssociation(k, t, key) = Empty
  PROVE  \A s \in SlotsOf(t.storage) : s.key # key
<1> SUFFICES ASSUME NEW s \in SlotsOf(t.storage), s.key = key PROVE FALSE
  OBVIOUS
<1>1. s # Empty
  BY DEF SlotsOf, Positions
<1>2. s \in Live(k, t)
  BY <1>1 DEF Live, Kept
<1>3. SlotsOK(AssociationsOf(k))
  BY AssociationsAreSlots
<1>4. \A u \in Live(k, t) : u.key = key => findAssociation(k, t, key) = u
  BY <1>3, FindResult DEF Searchable
<1> QED
  BY <1>1, <1>2, <1>4

LEMMA ContentIsContentOf ==
  Content = ContentOf(kind, table) /\ Content' = ContentOf(kind', table')
  BY DEF Content, ContentOf, Found

\* at:put: implements that of KeyedStore.
LEMMA AtPutImplements ==
  ASSUME StoreInvariant, CollectionInvariant', SymbolsFit, SymbolsFit',
         NEW key \in Key, NEW value \in Value, AtPut(key, value)
  PROVE  StoreInvariant' /\ kind' = kind /\ Promise!AtPut(key, value)
<1> DEFINE slot == Association(key, value)
<1>1. /\ TableOK(kind, AssociationsOf(kind), table) /\ OneSlotPerKey(table)
      /\ Searchable(kind, table)
  BY StoreIsSearchable DEF StoreInvariant, CollectionInvariant, SymbolsFit
<1>2. /\ slot \in AssociationsOf(kind) /\ Kept(kind, slot)
      /\ slot.key = key /\ slot.value = value
  BY AssociationsAreStored DEF Association
<1>3. /\ kind # "identitySet" /\ kind' = kind /\ request' = <<"at:put:", key, value>>
      /\ table' = insert(kind, table, slot, FALSE)
  BY DEF AtPut, atPut
<1> HIDE DEF slot
<1>4. KeyTells(kind, table, slot)
  BY <1>3 DEF KeyTells, IdOf
<1>5. /\ OneSlotPerKey(table')
      /\ \E new : Puts(kind, table, slot.key, new, table') /\ IsPut(kind, table, slot, FALSE, new)
  BY <1>1, <1>2, <1>3, <1>4, InsertPuts
<1>6. StoreInvariant'
  BY <1>5 DEF StoreInvariant
<1>7. PICK new : Puts(kind, table, slot.key, new, table') /\ IsPut(kind, table, slot, FALSE, new)
  BY <1>5
<1>8. new.value = value
  <2>1. CASE new = slot
    BY <2>1, <1>2
  <2>2. ASSUME NEW old \in SlotsOf(table.storage), new = Updated(kind, old, slot, FALSE)
        PROVE  new.value = value
    <3>1. old \in AssociationsOf(kind)
      BY <1>1, StoredIsAssociation
    <3> QED
      BY <3>1, <2>2, <1>2 DEF Updated, AssociationsOf
  <2> QED
    BY <2>1, <2>2, <1>7 DEF IsPut
<1>9. Searchable(kind, table')
  BY <1>3, <1>5, StoreIsSearchable DEF CollectionInvariant, SymbolsFit
<1>10. ContentOf(kind, table') = PutInto(ContentOf(kind, table), key, value)
  BY <1>1, <1>2, <1>7, <1>8, <1>9, ContentPut
<1>11. Content' = PutInto(Content, key, value)
  BY <1>10, <1>3, ContentIsContentOf
<1> QED
  BY <1>3, <1>6, <1>11 DEF Promise!AtPut, Promise!Stored, PutInto

\* What is put under a key again changes nothing.
LEMMA PutAgain ==
  ASSUME NEW k, NEW t, Searchable(k, t), NEW old \in Live(k, t)
  PROVE  /\ old.key \in DOMAIN ContentOf(k, t)
         /\ PutInto(ContentOf(k, t), old.key, old.value) = ContentOf(k, t)
<1> DEFINE content == ContentOf(k, t)
<1>1. old.key \in DOMAIN content /\ content[old.key] = old.value
  BY ContentIsLive
<1>2. content = [x \in DOMAIN content |-> content[x]]
  BY DEF ContentOf
<1> HIDE DEF content
<1>3. DOMAIN content \cup {old.key} = DOMAIN content
  BY <1>1
<1>4. PutInto(content, old.key, old.value)
        = [x \in DOMAIN content |-> IF x = old.key THEN old.value ELSE content[x]]
  BY <1>3 DEF PutInto
<1>5. \A x \in DOMAIN content : (IF x = old.key THEN old.value ELSE content[x]) = content[x]
  BY <1>1
<1> QED
  BY <1>1, <1>2, <1>4, <1>5 DEF content

\* A key is in the content only if something is stored under it.
LEMMA NotStoredIsNotContent ==
  ASSUME NEW k, NEW t, Searchable(k, t), NEW key,
         \A s \in SlotsOf(t.storage) : s.key # key
  PROVE  key \notin DOMAIN ContentOf(k, t)
<1>1. \A x \in DOMAIN ContentOf(k, t) : \E s \in Live(k, t) : s.key = x
  BY ContentIsLive
<1> QED
  BY <1>1 DEF Live

\* The content depends on what lives, and on nothing else.
LEMMA SameSlotsSameContent ==
  ASSUME NEW k, NEW t, Searchable(k, t), NEW r, Searchable(k, r),
         SlotsOf(r.storage) = SlotsOf(t.storage)
  PROVE  ContentOf(k, r) = ContentOf(k, t)
<1> DEFINE before == ContentOf(k, t)
           after == ContentOf(k, r)
<1>1. Live(k, r) = Live(k, t)
  BY DEF Live
<1>2. /\ \A s \in Live(k, t) : s.key \in DOMAIN before /\ before[s.key] = s.value
      /\ \A x \in DOMAIN before : \E s \in Live(k, t) : s.key = x
  BY ContentIsLive
<1>3. /\ \A s \in Live(k, t) : s.key \in DOMAIN after /\ after[s.key] = s.value
      /\ \A x \in DOMAIN after : \E s \in Live(k, t) : s.key = x
  BY <1>1, ContentIsLive
<1>4. before = [x \in DOMAIN before |-> before[x]] /\ after = [x \in DOMAIN after |-> after[x]]
  BY DEF ContentOf
<1> HIDE DEF before, after
<1>5. ASSUME NEW x \in DOMAIN before PROVE x \in DOMAIN after /\ before[x] = after[x]
  <2>1. PICK s \in Live(k, t) : s.key = x
    BY <1>2
  <2> QED
    BY <2>1, <1>2, <1>3
<1>6. ASSUME NEW x \in DOMAIN after PROVE x \in DOMAIN before
  <2>1. PICK s \in Live(k, t) : s.key = x
    BY <1>3
  <2> QED
    BY <2>1, <1>2
<1>7. DOMAIN before = DOMAIN after /\ \A x \in DOMAIN before : before[x] = after[x]
  BY <1>5, <1>6
<1>8. before = after
  BY <1>4, <1>7
<1> QED
  BY <1>8 DEF before, after

\* What a step of a collection may be, for KeyedStore.
Keeps == Promise!Next \/ DropsAssociation

\* The add: of an identity dictionary implements that of KeyedStore.
LEMMA IdentityAddImplements ==
  ASSUME StoreInvariant, CollectionInvariant', SymbolsFit, SymbolsFit',
         NEW key \in Key, NEW value \in Value, Add(key, value), kind = "identityDictionary"
  PROVE  StoreInvariant' /\ kind' = kind /\ Promise!Add(key, value)
<1> DEFINE slot == Association(key, value)
<1>1. /\ TableOK(kind, AssociationsOf(kind), table) /\ OneSlotPerKey(table)
      /\ Searchable(kind, table)
  BY StoreIsSearchable DEF StoreInvariant, CollectionInvariant, SymbolsFit
<1>2. /\ slot \in AssociationsOf(kind) /\ Kept(kind, slot)
      /\ slot.key = key /\ slot.value = value
  BY AssociationsAreStored DEF Association
<1>3. /\ kind' = kind /\ request' = <<"add:", key, value>>
      /\ table' = insert(kind, table, slot, TRUE)
  BY DEF Add, add
<1> HIDE DEF slot
<1>4. KeyTells(kind, table, slot)
  BY DEF KeyTells, IdOf
<1>5. /\ OneSlotPerKey(table')
      /\ \E new : Puts(kind, table, slot.key, new, table') /\ IsPut(kind, table, slot, TRUE, new)
  BY <1>1, <1>2, <1>3, <1>4, InsertPuts
<1>6. Puts(kind, table, slot.key, slot, table')
  BY <1>5 DEF IsPut, Updated
<1>7. Searchable(kind, table')
  BY <1>3, <1>5, StoreIsSearchable DEF CollectionInvariant, SymbolsFit
<1>8. ContentOf(kind, table') = PutInto(ContentOf(kind, table), key, value)
  BY <1>1, <1>2, <1>6, <1>7, ContentPut
<1>9. Content' = PutInto(Content, key, value)
  BY <1>3, <1>8, ContentIsContentOf
<1> QED
  BY <1>3, <1>5, <1>9 DEF StoreInvariant, Promise!Add, Promise!Stored, PutInto

\* The add: of a dictionary implements that of KeyedStore under a new key, and drops the
\* association under another.
LEMMA DictionaryAddImplements ==
  ASSUME StoreInvariant, CollectionInvariant', SymbolsFit, SymbolsFit',
         NEW key \in Key, NEW value \in Value, Add(key, value), kind \in Dictionary
  PROVE  StoreInvariant' /\ kind' = kind /\ (Promise!Add(key, value) \/ DropsAssociation)
<1> DEFINE slot == Association(key, value)
<1>1. /\ TableOK(kind, AssociationsOf(kind), table) /\ OneSlotPerKey(table)
      /\ Searchable(kind, table)
  BY StoreIsSearchable DEF StoreInvariant, CollectionInvariant, SymbolsFit
<1>2. /\ slot \in AssociationsOf(kind) /\ Kept(kind, slot)
      /\ slot.key = key /\ slot.value = value
  BY AssociationsAreStored DEF Association
<1>3. /\ kind' = kind /\ request' = <<"add:", key, value>>
      /\ table' = add(kind, table, slot)
  BY DEF Add
<1> HIDE DEF slot
<1>4. Content = ContentOf(kind, table) /\ Content' = ContentOf(kind, table')
  BY <1>3, ContentIsContentOf
<1>5. TableOK(kind, AssociationsOf(kind), table')
  BY <1>3 DEF CollectionInvariant
<1>6. OneSlotPerKey(table') /\ StoreInvariant'
  <2>1. OneSlotPerKey(table')
    BY <1>5, KeyedIsOneSlotPerKey DEF TableOK, StorageOK, Dictionary
  <2> QED
    BY <2>1 DEF StoreInvariant
<1>7. Searchable(kind, table')
  BY <1>3, <1>5, <1>6, StoreIsSearchable DEF SymbolsFit
<1>8. CASE /\ \A s \in SlotsOf(table.storage) : s.key # slot.key
           /\ Stores(kind, table.storage, slot, FALSE, table'.storage)
  <2>1. KeyTells(kind, table, slot)
    BY <1>8 DEF KeyTells
  <2>2. \E new : /\ Puts(kind, table, slot.key, new, table')
                 /\ IsPut(kind, table, slot, FALSE, new)
    BY <2>1, <1>1, <1>2, <1>8, StoresPuts DEF Dictionary
  <2>3. Puts(kind, table, slot.key, slot, table')
    BY <2>2, <1>8 DEF IsPut
  <2>4. Content' = PutInto(Content, key, value)
    BY <2>3, <1>1, <1>2, <1>4, <1>7, ContentPut
  <2> QED
    BY <2>4, <1>3, <1>6 DEF Promise!Add, Promise!Stored, PutInto, Dictionary
<1>9. CASE /\ \E s \in SlotsOf(table.storage) : s.key = slot.key
           /\ SlotsOf(table'.storage) = SlotsOf(table.storage)
  <2>1. WithKey(table.storage, key) # {}
    BY <1>2, <1>9 DEF WithKey, SlotsOf, Positions
  <2>2. Content' = Content
    BY <1>1, <1>4, <1>7, <1>9, SameSlotsSameContent
  <2> QED
    BY <2>1, <2>2, <1>3, <1>6 DEF DropsAssociation, Dictionary
<1> QED
  BY <1>1, <1>2, <1>3, <1>8, <1>9, DictionaryAdd

\* The symbol of a string is found, or interned.
LEMMA InternImplements ==
  ASSUME StoreInvariant, CollectionInvariant', SymbolsFit, SymbolsFit',
         NEW key \in Key, internWithString(key)
  PROVE  /\ StoreInvariant' /\ kind' = kind
         /\ \E value \in Value : Promise!Intern(key, value)
<1>1. /\ TableOK(kind, AssociationsOf(kind), table) /\ OneSlotPerKey(table)
      /\ Searchable(kind, table)
  BY StoreIsSearchable DEF StoreInvariant, CollectionInvariant, SymbolsFit
<1>2. kind = "identitySet" /\ kind' = kind /\ request' = <<"intern", key>>
  BY DEF internWithString
<1>3. PICK symbol \in Value : table' = IF Found(key) # Empty THEN table
                                       ELSE add(kind, table, Association(key, symbol))
  BY DEF internWithString
<1>4. Content = ContentOf(kind, table) /\ Content' = ContentOf(kind, table')
  BY <1>2, ContentIsContentOf
<1>5. CASE Found(key) # Empty
  <2>1. table' = table
    BY <1>3, <1>5
  <2>2. StoreInvariant'
    BY <2>1 DEF StoreInvariant
  <2>3. key \in DOMAIN Content
    BY <1>5 DEF Content
  <2>4. Content' = Content
    BY <2>1, <1>4
  <2>5. Promise!Intern(key, symbol)
    BY <2>3, <2>4, <1>2 DEF Promise!Intern
  <2> QED
    BY <2>2, <2>5, <1>2
<1>6. CASE Found(key) = Empty
  <2> DEFINE slot == Association(key, symbol)
  <2>1. /\ slot \in AssociationsOf(kind) /\ Kept(kind, slot)
        /\ slot.key = key /\ slot.value = symbol
    BY AssociationsAreStored DEF Association
  <2>2. table' = insert(kind, table, slot, TRUE)
    BY <1>2, <1>3, <1>6 DEF add
  <2>3. \A s \in SlotsOf(table.storage) : s.key # key
    BY <1>1, <1>2, <1>6, NotFoundIsNotStored DEF Found
  <2> HIDE DEF slot
  <2>4. KeyTells(kind, table, slot)
    BY <2>1, <2>3 DEF KeyTells
  <2>5. kind # "weakValueDictionary"
    BY <1>2
  <2>6. /\ OneSlotPerKey(table')
        /\ \E new : /\ Puts(kind, table, slot.key, new, table')
                    /\ IsPut(kind, table, slot, TRUE, new)
    BY <2>1, <2>2, <2>4, <2>5, <1>1, InsertPuts
  <2>7. StoreInvariant'
    BY <2>6 DEF StoreInvariant
  <2>8. Puts(kind, table, key, slot, table')
    BY <2>1, <2>3, <2>6 DEF IsPut
  <2>9. Searchable(kind, table')
    BY <2>6, <1>2, StoreIsSearchable DEF CollectionInvariant, SymbolsFit
  <2>10. Content' = PutInto(Content, key, symbol)
    BY <2>1, <2>8, <2>9, <1>1, <1>4, ContentPut
  <2>11. key \notin DOMAIN Content
    BY <2>3, <1>1, <1>4, NotStoredIsNotContent
  <2>12. Promise!Intern(key, symbol)
    BY <2>10, <2>11, <1>2 DEF Promise!Intern, Promise!Stored, PutInto
  <2> QED
    BY <2>7, <2>12, <1>2
<1> QED
  BY <1>5, <1>6

\* A symbol that is added again stays as it is.
LEMMA AddAgainImplements ==
  ASSUME StoreInvariant, CollectionInvariant', SymbolsFit, SymbolsFit',
         NEW symbol \in Slots(table), AddAgain(symbol)
  PROVE  /\ StoreInvariant' /\ kind' = kind
         /\ \E key \in Key, value \in Value : Promise!Intern(key, value)
<1>1. /\ TableOK(kind, AssociationsOf(kind), table) /\ OneSlotPerKey(table)
      /\ Searchable(kind, table)
  BY StoreIsSearchable DEF StoreInvariant, CollectionInvariant, SymbolsFit
<1>2. /\ kind = "identitySet" /\ kind' = kind /\ request' = <<"intern", symbol.key>>
      /\ table' = insert(kind, table, symbol, TRUE)
  BY DEF AddAgain, add
<1>3. symbol \in SlotsOf(table.storage)
  BY SlotsAreSlotsOf
<1>4. symbol \in AssociationsOf(kind) /\ symbol # Empty
  BY <1>1, <1>3, StoredIsAssociation
<1>5. Kept(kind, symbol) /\ kind # "weakValueDictionary"
  BY <1>2, <1>4 DEF Kept
<1>6. KeyTells(kind, table, symbol)
  BY <1>1, <1>3 DEF KeyTells, OneSlotPerKey
<1>7. /\ OneSlotPerKey(table')
      /\ \E new : /\ Puts(kind, table, symbol.key, new, table')
                  /\ IsPut(kind, table, symbol, TRUE, new)
  BY <1>1, <1>2, <1>4, <1>5, <1>6, InsertPuts
<1>8. StoreInvariant'
  BY <1>7 DEF StoreInvariant
<1>9. Puts(kind, table, symbol.key, symbol, table')
  BY <1>2, <1>7 DEF IsPut, Updated
<1>10. Searchable(kind, table')
  BY <1>2, <1>7, StoreIsSearchable DEF CollectionInvariant, SymbolsFit
<1>11. Content = ContentOf(kind, table) /\ Content' = ContentOf(kind, table')
  BY <1>2, ContentIsContentOf
<1>12. Content' = PutInto(Content, symbol.key, symbol.value)
  BY <1>1, <1>9, <1>10, <1>11, ContentPut
<1>13. symbol \in Live(kind, table)
  BY <1>3, <1>5 DEF Live
<1>14. symbol.key \in DOMAIN Content /\ Content' = Content
  BY <1>1, <1>11, <1>12, <1>13, PutAgain
<1>15. symbol.key \in Key /\ symbol.value \in Value
  BY <1>2, <1>4 DEF AssociationsOf
<1>16. Promise!Intern(symbol.key, symbol.value)
  BY <1>2, <1>14 DEF Promise!Intern
<1> QED
  BY <1>2, <1>8, <1>15, <1>16

\* What lives after a collection.
LEMMA LiveAfterCollection ==
  ASSUME NEW t, TableOK("weakValueDictionary", AssociationsOf("weakValueDictionary"), t),
         NEW dead
  PROVE  Live("weakValueDictionary", Buried(t, dead))
           = {s \in Live("weakValueDictionary", t) : s.value \notin dead}
<1> DEFINE k == "weakValueDictionary"
           buried(s) == IF s.value \in dead THEN [s EXCEPT !.value = Tombstone] ELSE s
           slots == SlotsOf(Buried(t, dead).storage)
<1>1. slots = {buried(s) : s \in SlotsOf(t.storage)}
  BY CollectionBuried
<1>2. \A s \in SlotsOf(t.storage) : s \in AssociationsOf(k) /\ s # Empty
  BY StoredIsAssociation
<1>3. \A s \in SlotsOf(t.storage) : s.value \in dead => buried(s).value = Tombstone
  BY <1>2 DEF AssociationsOf
<1>4. \A s \in SlotsOf(t.storage) : s.value \notin dead => buried(s) = s
  OBVIOUS
<1> HIDE DEF slots, buried
<1>5. ASSUME NEW u \in slots, Kept(k, u)
      PROVE  u \in SlotsOf(t.storage) /\ u.value \notin dead
  <2>1. PICK s \in SlotsOf(t.storage) : u = buried(s)
    BY <1>1
  <2>2. s.value \notin dead
    BY <2>1, <1>3, <1>5 DEF Kept
  <2> QED
    BY <2>1, <2>2, <1>4
<1>6. ASSUME NEW s \in SlotsOf(t.storage), s.value \notin dead PROVE s \in slots
  BY <1>1, <1>4, <1>6
<1>7. {u \in slots : Kept(k, u)}
        = {s \in {u \in SlotsOf(t.storage) : Kept(k, u)} : s.value \notin dead}
  BY <1>5, <1>6
<1> QED
  BY <1>7 DEF Live, slots

\* A collection of garbage takes the dead values away, and nothing else.
LEMMA CollectImplements ==
  ASSUME StoreInvariant, CollectionInvariant', SymbolsFit, SymbolsFit',
         NEW dead \in SUBSET Value, Collect(dead)
  PROVE  StoreInvariant' /\ kind' = kind /\ Promise!Collect(dead)
<1>1. /\ TableOK(kind, AssociationsOf(kind), table) /\ OneSlotPerKey(table)
      /\ Searchable(kind, table)
  BY StoreIsSearchable DEF StoreInvariant, CollectionInvariant, SymbolsFit
<1>2. /\ kind = "weakValueDictionary" /\ kind' = kind /\ request' = <<"collect">>
      /\ table' = Buried(table, dead)
  BY DEF Collect
<1>3. TableOK(kind, AssociationsOf(kind), table')
  BY <1>2 DEF CollectionInvariant
<1>4. OneSlotPerKey(table')
  BY <1>2, <1>3, KeyedIsOneSlotPerKey DEF TableOK, StorageOK
<1>5. StoreInvariant'
  BY <1>4 DEF StoreInvariant
<1>6. Searchable(kind, table')
  BY <1>2, <1>3, <1>4, StoreIsSearchable
<1>7. Live(kind, table') = {s \in Live(kind, table) : s.value \notin dead}
  BY <1>1, <1>2, LiveAfterCollection
<1> DEFINE before == ContentOf(kind, table)
           after == ContentOf(kind, table')
           left == {x \in DOMAIN before : before[x] \notin dead}
<1>8. /\ \A s \in Live(kind, table) : s.key \in DOMAIN before /\ before[s.key] = s.value
      /\ \A x \in DOMAIN before : \E s \in Live(kind, table) : s.key = x
  BY <1>1, ContentIsLive
<1>9. /\ \A s \in Live(kind, table') : s.key \in DOMAIN after /\ after[s.key] = s.value
      /\ \A x \in DOMAIN after : \E s \in Live(kind, table') : s.key = x
  BY <1>6, ContentIsLive
<1>10. after = [x \in DOMAIN after |-> after[x]]
  BY DEF ContentOf
<1>11. Content = before /\ Content' = after
  BY <1>2, ContentIsContentOf
<1> HIDE DEF before, after
<1>12. ASSUME NEW x \in DOMAIN after PROVE x \in left /\ after[x] = before[x]
  <2>1. PICK s \in Live(kind, table') : s.key = x
    BY <1>9
  <2>2. s \in Live(kind, table) /\ s.value \notin dead
    BY <2>1, <1>7
  <2> QED
    BY <2>1, <2>2, <1>8, <1>9
<1>13. ASSUME NEW x \in left PROVE x \in DOMAIN after
  <2>1. PICK s \in Live(kind, table) : s.key = x
    BY <1>8
  <2>2. s \in Live(kind, table')
    BY <2>1, <1>7, <1>8
  <2> QED
    BY <2>1, <2>2, <1>9
<1>14. DOMAIN after = left /\ \A x \in left : after[x] = before[x]
  BY <1>12, <1>13
<1> HIDE DEF left
<1>15. after = [x \in left |-> before[x]]
  BY <1>10, <1>14
<1>16. Content' = Promise!Restrict(Content, {x \in DOMAIN Content : Content[x] \notin dead})
  <2>1. after = Promise!Restrict(before, left)
    BY <1>15 DEF Promise!Restrict
  <2>2. left = {x \in DOMAIN Content : Content[x] \notin dead}
    BY <1>11 DEF left
  <2> QED
    BY <2>1, <2>2, <1>11
<1>17. Promise!Collect(dead)
  BY <1>2, <1>16, Zenon DEF Promise!Collect
<1> QED
  BY <1>2, <1>5, <1>17

\* A new collection has no content.
LEMMA StoreInit == DInit => OneSlotPerKey(table) /\ Promise!Init
<1> SUFFICES ASSUME DInit PROVE OneSlotPerKey(table) /\ Promise!Init
  OBVIOUS
<1>1. PICK expected \in Nat : table = NewTable((expected * 130) \div 100)
  BY ValueAssumption DEF DInit
<1>2. (expected * 130) \div 100 \in Nat
  OBVIOUS
<1>3. Positions(table.storage) = {} /\ \A p \in DOMAIN table.storage : table.storage[p] = Empty
  BY <1>1, <1>2 DEF NewTable, Positions
<1>4. OneSlotPerKey(table)
  BY <1>3 DEF OneSlotPerKey, SlotsOf
<1>5. \A key \in Key : Found(key) = Empty
  <2> SUFFICES ASSUME NEW key \in Key PROVE Found(key) = Empty
    OBVIOUS
  <2> DEFINE storage == table.storage
             hash == IF kind = "identitySet" THEN Hash[key] ELSE HashOf(kind, key)
             found == At(storage, ScanFor(storage, hash, WithKey(storage, key)))
  <2>1. storage \in Seq({Empty})
    BY <1>1, <1>2 DEF NewTable
  <2>2. hash \in Nat
    BY HashIsNumber
  <2> HIDE DEF hash
  <2>3. \A q \in Positions(storage) : storage[q] \notin WithKey(storage, key)
    BY <1>3
  <2>4. \/ ScanFor(storage, hash, WithKey(storage, key)) = 0
        \/ storage[ScanFor(storage, hash, WithKey(storage, key))] = Empty
    BY <2>1, <2>2, <2>3, ScanMisses
  <2>5. found = Empty
    BY <2>4 DEF At
  <2> QED
    BY <2>5 DEF Found, findAssociation, hash
<1>6. Content = << >>
  <2>1. {x \in Key : Found(x) # Empty} = {}
    BY <1>5
  <2>2. Content = [x \in {} |-> Found(x).value]
    BY <2>1 DEF Content
  <2> QED
    BY <2>2
<1> QED
  BY <1>4, <1>6 DEF DInit, Promise!Init

\* Every step of a collection is one of KeyedStore, drops an association, or changes
\* nothing that KeyedStore sees.
LEMMA StoreStep ==
  ASSUME StoreInvariant, CollectionInvariant', SymbolsFit, SymbolsFit', [DNext]_dvars
  PROVE  StoreInvariant' /\ [Keeps]_<<kind, Content, request>>
<1>1. ASSUME NEW key \in Key, NEW value \in Value, AtPut(key, value)
      PROVE  StoreInvariant' /\ Keeps
  BY <1>1, AtPutImplements, Zenon DEF Keeps, Promise!Next
<1>2. ASSUME NEW key \in Key, NEW value \in Value, Add(key, value)
      PROVE  StoreInvariant' /\ Keeps
  <2>1. kind \in {"dictionary", "weakValueDictionary", "identityDictionary"}
    BY <1>2 DEF Add
  <2>2. CASE kind = "identityDictionary"
    BY <1>2, <2>2, IdentityAddImplements, Zenon DEF Keeps, Promise!Next
  <2>3. CASE kind \in Dictionary
    BY <1>2, <2>3, DictionaryAddImplements, Zenon DEF Keeps, Promise!Next
  <2> QED
    BY <2>1, <2>2, <2>3 DEF Dictionary
<1>3. ASSUME NEW key \in Key, internWithString(key)
      PROVE  StoreInvariant' /\ Keeps
  BY <1>3, InternImplements, Zenon DEF Keeps, Promise!Next
<1>4. ASSUME NEW symbol \in Slots(table), AddAgain(symbol)
      PROVE  StoreInvariant' /\ Keeps
  BY <1>4, AddAgainImplements, Zenon DEF Keeps, Promise!Next
<1>5. ASSUME NEW dead \in SUBSET Value, Collect(dead)
      PROVE  StoreInvariant' /\ Keeps
  BY <1>5, CollectImplements, Zenon DEF Keeps, Promise!Next
<1>6. CASE UNCHANGED dvars
  <2>1. kind' = kind /\ table' = table /\ request' = request
    BY <1>6 DEF dvars
  <2>2. Content' = Content
    BY <2>1, ContentIsContentOf
  <2>3. StoreInvariant'
    BY <2>1 DEF StoreInvariant
  <2> QED
    BY <2>1, <2>2, <2>3
<1> QED
  BY <1>1, <1>2, <1>3, <1>4, <1>5, <1>6 DEF DNext

LEMMA StoreSteps ==
  DSpec /\ []SymbolsFit => Promise!Init /\ [][Keeps]_<<kind, Content, request>>
<1>1. DInit => StoreInvariant /\ Promise!Init
  BY CollectionInit, StoreInit DEF StoreInvariant
<1>2. /\ StoreInvariant /\ CollectionInvariant' /\ SymbolsFit /\ SymbolsFit'
      /\ [DNext]_dvars
      => StoreInvariant' /\ [Keeps]_<<kind, Content, request>>
  BY StoreStep
<1> QED
  BY <1>1, <1>2, TableInvariant, PTL DEF DSpec

\* Whatever the hashes, the collisions, the growths and the collections in between, a
\* search answers what was last stored under its key, but for what the add: of
\* dictionaries drops: no request touches another key, and nothing is lost or comes back.
\* Of the sets, which look symbols up by the whole hash of a string and keep them by the
\* hash of the header, this is true up to the capacity that divides the latter.
THEOREM KeepsAllButDroppedHolds == DSpec /\ []SymbolsFit => KeepsAllButDropped
<1>1. [Keeps]_<<kind, Content, request>>
      <=> [Promise!Next \/ DropsAssociation]_<<kind, Content, request>>
  BY DEF Keeps
<1> QED
  BY <1>1, StoreSteps, PTL DEF KeepsAllButDropped

\* Symbol sets and the dictionaries by identity, those of methods included, drop nothing:
\* they implement KeyedStore.
THEOREM ImplementsKeyedStoreHolds ==
  DSpec /\ []SymbolsFit /\ kind \notin Dictionary => ImplementsKeyedStore
<1>1. kind \notin Dictionary /\ [DNext]_dvars => (kind \notin Dictionary)'
  <2> SUFFICES ASSUME kind \notin Dictionary, [DNext]_dvars PROVE kind' = kind
    OBVIOUS
  <2> QED
    BY DEF DNext, AtPut, Add, internWithString, AddAgain, Collect, dvars
<1>2. kind \notin Dictionary /\ [Keeps]_<<kind, Content, request>>
      => [Promise!Next]_<<kind, Content, request>>
  BY DEF Keeps, DropsAssociation, Dictionary
<1> QED
  BY <1>1, <1>2, StoreSteps, PTL DEF DSpec, ImplementsKeyedStore, Promise!Spec

-----------------------------------------------------------------------------
(***************************************************************************)
(* Memoized functions.                                                     *)
(***************************************************************************)

\* The associations of a memoization table.
Entries == [key : Argument, value : Object \cup {Pending, Tombstone}, id : Nat]

\* The evaluations that are running.
Evaluation == [key : Argument, result : Object \cup {None}, association : Nat]

Entered == SlotsOf(memoizationTable.storage)

\* An association is an object: no two have one identity.
OneSlotPerId(t) == \A s, u \in SlotsOf(t.storage) : s.id = u.id => s = u

\* The value of the entry of a key that is being evaluated.
Waiting(e) == IF e.result = None THEN Pending ELSE e.result

MemoizationTypeOK ==
  /\ isTemplate \in BOOLEAN
  /\ TableOK(weak, Entries, memoizationTable)
  /\ OneSlotPerId(memoizationTable)
  /\ evaluations \in Seq(Evaluation)
  /\ held \subseteq Argument \X Object
  /\ abandoned \subseteq Argument

\* Every evaluation that is running has its entry, with the mark or its early result.
EvaluationsEntered ==
  \A i \in DOMAIN evaluations :
    \E s \in Entered :
      /\ s.key = evaluations[i].key
      /\ s.id = evaluations[i].association
      /\ s.value = Waiting(evaluations[i])

\* The evaluations that are running are of different keys.
EvaluationsApart ==
  \A i, j \in DOMAIN evaluations : evaluations[i].key = evaluations[j].key => i = j

\* What the program holds of a key is what is entered for it.
HeldEntered == \A h \in held : \E s \in Entered : s.key = h[1] /\ s.value = h[2]

\* Only templates have results before they are done.
EarlyResults ==
  ~ isTemplate => \A i \in DOMAIN evaluations : evaluations[i].result = None

\* The inductive invariant of a memoized function.
MemoizationInvariant ==
  /\ MemoizationTypeOK
  /\ EvaluationsEntered
  /\ EvaluationsApart
  /\ HeldEntered
  /\ EarlyResults
  /\ MarksAccountedFor

LEMMA EntriesAreSlots == SlotsOK(Entries)
  BY MemoizationAssumption DEF SlotsOK, Entries

\* What a memoization table has entered: the only entry of its key.
LEMMA EntryFacts ==
  ASSUME NEW t, TableOK(weak, Entries, t)
  PROVE  /\ OneSlotPerKey(t)
         /\ \A s \in SlotsOf(t.storage) : s \in Entries /\ s # Empty
<1>1. t.storage \in Seq(Entries \cup {Empty}) /\ Apart(weak, t.storage)
  BY DEF TableOK, StorageOK
<1>2. OneSlotPerKey(t)
  BY <1>1, KeyedIsOneSlotPerKey DEF weak
<1>3. \A s \in SlotsOf(t.storage) : s \in Entries /\ s # Empty
  BY <1>1 DEF SlotsOf, Positions
<1> QED
  BY <1>2, <1>3

\* What a search of a memoization table answers.
LEMMA MemoizedResult ==
  ASSUME NEW t, TableOK(weak, Entries, t), NEW key \in Argument
  PROVE  LET found == findAssociation(weak, t, key)
         IN /\ \A s \in SlotsOf(t.storage) : s.key = key /\ s.value # Tombstone => found = s
            /\ found # Empty => /\ found \in SlotsOf(t.storage) /\ found.key = key
                                /\ found.value # Tombstone
<1>1. OneSlotPerKey(t) /\ \A s \in SlotsOf(t.storage) : s # Empty
  BY EntryFacts
<1>2. SlotsOK(Entries) /\ key \in Key /\ HashAgrees(weak, t, key)
  BY EntriesAreSlots, MemoizationAssumption DEF HashAgrees, weak
<1>3. /\ \A s \in Live(weak, t) : s.key = key => findAssociation(weak, t, key) = s
      /\ findAssociation(weak, t, key) # Empty
           => /\ findAssociation(weak, t, key) \in Live(weak, t)
              /\ findAssociation(weak, t, key).key = key
  BY <1>1, <1>2, FindResult
<1> QED
  BY <1>1, <1>3 DEF Live, Kept, weak

\* What is entered in r is what is entered in t, with the value in the entries of changed.
Turned(t, changed, value, r) ==
  /\ \A s \in SlotsOf(t.storage) : \E u \in SlotsOf(r.storage) :
       /\ u.key = s.key /\ u.id = s.id
       /\ u.value = IF s \in changed THEN value ELSE s.value
  /\ \A u \in SlotsOf(r.storage) : \E s \in SlotsOf(t.storage) :
       /\ u.key = s.key /\ u.id = s.id
       /\ u.value = IF s \in changed THEN value ELSE s.value

\* Entries keep their keys and identities when values change.
LEMMA TurnedEntries ==
  ASSUME NEW t, TableOK(weak, Entries, t), OneSlotPerId(t),
         NEW changed, NEW value \in Object \cup {Pending, Tombstone},
         NEW r, r = Revalued(t, changed, value)
  PROVE  TableOK(weak, Entries, r) /\ OneSlotPerId(r) /\ Turned(t, changed, value, r)
<1> DEFINE turned(s) == IF s \in changed THEN [s EXCEPT !.value = value] ELSE s
<1>1. CanHold(Entries, changed, value)
  BY DEF CanHold, Entries
<1>2. weak # "identitySet"
  BY DEF weak
<1>3. /\ TableOK(weak, Entries, Revalued(t, changed, value))
      /\ RevaluedSlots(t, changed, value, Revalued(t, changed, value))
  BY <1>1, <1>2, EntriesAreSlots, RevaluedIsOK
<1>4. TableOK(weak, Entries, r)
  BY <1>3
<1>5. SlotsOf(r.storage) = {turned(s) : s \in SlotsOf(t.storage)}
  BY <1>3 DEF RevaluedSlots
<1>6. \A s \in SlotsOf(t.storage) :
        /\ turned(s).key = s.key /\ turned(s).id = s.id
        /\ turned(s).value = IF s \in changed THEN value ELSE s.value
  <2>1. \A s \in SlotsOf(t.storage) : s \in Entries
    BY EntryFacts
  <2> QED
    BY <2>1 DEF Entries
<1> HIDE DEF turned
<1>7. Turned(t, changed, value, r)
  BY <1>5, <1>6 DEF Turned
<1>8. ASSUME NEW u \in SlotsOf(r.storage), NEW v \in SlotsOf(r.storage), u.id = v.id
      PROVE  u = v
  <2>1. PICK s \in SlotsOf(t.storage) : u.key = s.key /\ u.id = s.id
    BY <1>7 DEF Turned
  <2>2. PICK w \in SlotsOf(t.storage) : v.key = w.key /\ v.id = w.id
    BY <1>7 DEF Turned
  <2>3. u.key = v.key
    BY <2>1, <2>2, <1>8 DEF OneSlotPerId
  <2> QED
    BY <2>3, <1>4, EntryFacts DEF OneSlotPerKey
<1> QED
  BY <1>4, <1>7, <1>8 DEF OneSlotPerId

\* A result is written to the entry of the association, wherever it is.
LEMMA SetValueResult ==
  ASSUME MemoizationTypeOK, NEW id, NEW value \in Object, setValue(id, value)
  PROVE  /\ TableOK(weak, Entries, memoizationTable')
         /\ OneSlotPerId(memoizationTable')
         /\ Turned(memoizationTable, {s \in Entries : s.id = id}, value, memoizationTable')
<1> DEFINE storage == memoizationTable.storage
           changed == {s \in Entries : s.id = id}
           f == [i \in DOMAIN storage |-> IF storage[i] # Empty /\ storage[i].id = id
                                          THEN [storage[i] EXCEPT !.value = value]
                                          ELSE storage[i]]
           g == [i \in DOMAIN storage |->
                   IF storage[i] # Empty /\ storage[i] \in {s \in Entries : s.id = id}
                   THEN [storage[i] EXCEPT !.value = value] ELSE storage[i]]
<1>1. storage \in Seq(Entries \cup {Empty})
  BY DEF MemoizationTypeOK, TableOK, StorageOK
<1>2. \A i \in DOMAIN storage : storage[i] # Empty => storage[i] \in Entries
  BY <1>1
<1>3. f = g
  BY <1>2
<1>4. memoizationTable' = [memoizationTable EXCEPT !.storage = f]
  BY DEF setValue
<1>5. Revalued(memoizationTable, changed, value) = [memoizationTable EXCEPT !.storage = g]
  BY DEF Revalued
<1>6. memoizationTable' = Revalued(memoizationTable, changed, value)
  BY <1>3, <1>4, <1>5
<1> HIDE DEF changed
<1>7. /\ TableOK(weak, Entries, memoizationTable')
      /\ OneSlotPerId(memoizationTable')
      /\ Turned(memoizationTable, changed, value, memoizationTable')
  BY <1>6, TurnedEntries DEF MemoizationTypeOK
<1> QED
  BY <1>7 DEF changed

\* A collection of garbage leaves tombstones in entries that stay.
LEMMA CollectedResult ==
  ASSUME MemoizationTypeOK, CollectGarbage
  PROVE  /\ TableOK(weak, Entries, memoizationTable')
         /\ OneSlotPerId(memoizationTable')
         /\ Turned(memoizationTable, {s \in Entries : s.value \in Object \ InUse}, Tombstone,
                   memoizationTable')
<1> DEFINE dead == Object \ InUse
           changed == {s \in Entries : s.value \in dead}
<1>1. memoizationTable' = Buried(memoizationTable, dead)
  BY DEF CollectGarbage, Collected
<1>2. memoizationTable.storage \in Seq(Entries \cup {Empty})
  BY DEF MemoizationTypeOK, TableOK, StorageOK
<1> HIDE DEF dead
<1>3. memoizationTable' = Revalued(memoizationTable, changed, Tombstone)
  BY <1>1, <1>2, BuriedIsRevalued
<1> HIDE DEF changed
<1>4. /\ TableOK(weak, Entries, memoizationTable')
      /\ OneSlotPerId(memoizationTable')
      /\ Turned(memoizationTable, changed, Tombstone, memoizationTable')
  BY <1>3, TurnedEntries DEF MemoizationTypeOK
<1> QED
  BY <1>4 DEF changed, dead

\* The table r after the pending mark of the key, which is in the entry mark.
MarkedAs(t, key, r, mark) ==
  /\ mark \in SlotsOf(r.storage) /\ mark.key = key /\ mark.value = Pending
  /\ \A s \in SlotsOf(t.storage) : s.value # Tombstone => s \in SlotsOf(r.storage)
  /\ \A s \in SlotsOf(r.storage) : s = mark \/ (s \in SlotsOf(t.storage) /\ s.key # key)

\* Marking a key, with a new association or with that of a result that has died.
LEMMA MarkedResult ==
  ASSUME NEW t, TableOK(weak, Entries, t), OneSlotPerId(t), NEW key \in Argument,
         findAssociation(weak, t, key) = Empty,
         NEW id \in Nat, \A s \in SlotsOf(t.storage) : s.id # id,
         NEW r, r = atPut(weak, t, [key |-> key, value |-> Pending, id |-> id])
  PROVE  /\ TableOK(weak, Entries, r) /\ OneSlotPerId(r)
         /\ MarkedAs(t, key, r, findAssociation(weak, r, key))
<1> DEFINE slot == [key |-> key, value |-> Pending, id |-> id]
           storage == t.storage
<1>1. slot \in Entries /\ slot.key = key /\ slot.value = Pending /\ slot.id = id
  BY DEF Entries
<1>2. Pending # Tombstone /\ Pending \notin Object /\ Tombstone \notin Object
  BY MemoizationAssumption
<1>3. \A s \in SlotsOf(storage) : s \in Entries /\ s # Empty
  BY EntryFacts
<1>4. r = insert(weak, t, slot, FALSE)
  BY DEF atPut
<1> HIDE DEF slot
<1>5. slot # Empty /\ Kept(weak, slot)
  BY <1>1, <1>2, EntriesAreSlots DEF SlotsOK, Kept
<1>6. \A s : IdOf(weak, s) = s.key
  BY DEF IdOf, weak
<1>7. \A old \in Entries : /\ Updated(weak, old, slot, FALSE) \in Entries
                           /\ Updated(weak, old, slot, FALSE).key = old.key
                           /\ Updated(weak, old, slot, FALSE).value = Pending
                           /\ Updated(weak, old, slot, FALSE).id = old.id
  BY <1>1 DEF Updated, Entries
<1>8. UpdatesOK(weak, Entries, slot, FALSE)
  <2> SUFFICES ASSUME NEW old \in Entries, old.key = slot.key
               PROVE  LET new == Updated(weak, old, slot, FALSE)
                      IN /\ new \in Entries /\ Kept(weak, new)
                         /\ new.key = slot.key /\ IdOf(weak, new) = IdOf(weak, slot)
    BY <1>6 DEF UpdatesOK
  <2> DEFINE new == Updated(weak, old, slot, FALSE)
  <2>1. new \in Entries /\ new.key = slot.key /\ new.value = Pending
    BY <1>7
  <2> HIDE DEF new
  <2>2. new # Empty
    BY <2>1, EntriesAreSlots DEF SlotsOK
  <2>3. Kept(weak, new)
    BY <2>1, <2>2, <1>2 DEF Kept
  <2> QED
    BY <2>1, <2>3, <1>6 DEF new
<1>9. TableOK(weak, Entries, r) /\ Stores(weak, storage, slot, FALSE, r.storage)
  BY <1>1, <1>4, <1>5, <1>8, EntriesAreSlots, InsertResult
<1>10. \A s \in SlotsOf(storage) : s.key = key => s.value = Tombstone
  <2> SUFFICES ASSUME NEW s \in SlotsOf(storage), s.key = key, s.value # Tombstone
               PROVE  FALSE
    OBVIOUS
  <2>1. \A u \in SlotsOf(t.storage) :
          u.key = key /\ u.value # Tombstone => findAssociation(weak, t, key) = u
    BY MemoizedResult
  <2> QED
    BY <2>1, <1>3
<1>11. Others(weak, storage, slot) = {s \in SlotsOf(storage) : s.key # key}
  BY <1>1, <1>6 DEF Others
<1>12. ASSUME NEW new, StoresAs(weak, storage, slot, new, r.storage),
              new \in Entries, new.key = key, new.value = Pending,
              \A s \in SlotsOf(storage) : s.key # key => s.id # new.id
       PROVE  OneSlotPerId(r) /\ MarkedAs(t, key, r, findAssociation(weak, r, key))
  <2>1. /\ SlotsOf(r.storage) \subseteq Others(weak, storage, slot) \cup {new}
        /\ {s \in Others(weak, storage, slot) : Kept(weak, s)} \subseteq SlotsOf(r.storage)
        /\ new \in SlotsOf(r.storage)
    BY <1>12 DEF StoresAs
  <2>2. \A s \in SlotsOf(r.storage) : s = new \/ (s \in SlotsOf(storage) /\ s.key # key)
    BY <2>1, <1>11
  <2>3. \A s \in SlotsOf(storage) : s.value # Tombstone => s \in SlotsOf(r.storage)
    <3> SUFFICES ASSUME NEW s \in SlotsOf(storage), s.value # Tombstone
                 PROVE  s \in SlotsOf(r.storage)
      OBVIOUS
    <3>1. s.key # key /\ Kept(weak, s)
      BY <1>3, <1>10 DEF Kept
    <3> QED
      BY <3>1, <2>1, <1>11
  <2>4. findAssociation(weak, r, key) = new
    <3>1. \A u \in SlotsOf(r.storage) :
            u.key = key /\ u.value # Tombstone => findAssociation(weak, r, key) = u
      BY <1>9, MemoizedResult
    <3> QED
      BY <3>1, <2>1, <1>2, <1>12
  <2>5. OneSlotPerId(r)
    BY <2>2, <1>12 DEF OneSlotPerId
  <2>6. MarkedAs(t, key, r, new)
    BY <2>1, <2>2, <2>3, <1>12 DEF MarkedAs
  <2> QED
    BY <2>4, <2>5, <2>6
<1>13. CASE StoresAs(weak, storage, slot, slot, r.storage)
  BY <1>1, <1>9, <1>12, <1>13
<1>14. ASSUME NEW old \in SlotsOf(storage), old.key = key,
              StoresAs(weak, storage, slot, Updated(weak, old, slot, FALSE), r.storage)
       PROVE  OneSlotPerId(r) /\ MarkedAs(t, key, r, findAssociation(weak, r, key))
  <2> DEFINE new == Updated(weak, old, slot, FALSE)
  <2>1. new \in Entries /\ new.key = key /\ new.value = Pending /\ new.id = old.id
    BY <1>3, <1>7, <1>14
  <2>2. StoresAs(weak, storage, slot, new, r.storage)
    BY <1>14
  <2> HIDE DEF new
  <2>3. \A s \in SlotsOf(storage) : s.key # key => s.id # new.id
    BY <2>1, <1>14 DEF OneSlotPerId
  <2> QED
    BY <2>1, <2>2, <2>3, <1>12
<1> QED
  BY <1>1, <1>6, <1>9, <1>13, <1>14 DEF Stores

\* A new association is not one that the table or a running evaluation has.
LEMMA FreshAssociationResult ==
  ASSUME MemoizationTypeOK, EvaluationsEntered
  PROVE  FreshAssociation \in Nat /\ \A s \in Entered : s.id # FreshAssociation
<1> DEFINE D == {s.id : s \in Slots(memoizationTable)} \cup
                {evaluations[i].association : i \in DOMAIN evaluations}
           ids == {s.id : s \in Entered}
           keys == {s.key : s \in Entered}
           f == [key \in keys |-> (CHOOSE s \in Entered : s.key = key).id]
           N == 1 .. MaxDepth + Cardinality(Argument) + 1
<1>1. OneSlotPerKey(memoizationTable) /\ \A s \in Entered : s \in Entries /\ s # Empty
  BY EntryFacts DEF MemoizationTypeOK, Entered
<1>2. D = ids
  <2>1. Slots(memoizationTable) = Entered
    BY SlotsAreSlotsOf DEF Entered
  <2>2. \A i \in DOMAIN evaluations : \E s \in Entered : s.id = evaluations[i].association
    BY DEF EvaluationsEntered
  <2> QED
    BY <2>1, <2>2
<1>3. keys \subseteq Argument
  BY <1>1 DEF Entries
<1>4. IsFiniteSet(Argument) /\ Cardinality(Argument) \in Nat /\ MaxDepth \in Nat
  BY MemoizationAssumption, FS_CardinalityType
<1>5. IsFiniteSet(keys) /\ Cardinality(keys) <= Cardinality(Argument)
  BY <1>3, <1>4, FS_Subset, Zenon
<1>6. \A s \in Entered : s.key \in keys /\ f[s.key] = s.id
  BY <1>1 DEF OneSlotPerKey, Entered
<1>7. f \in Surjection(keys, ids)
  <2>1. \A key \in keys : f[key] \in ids
    BY <1>6
  <2>2. \A id \in ids : \E key \in keys : f[key] = id
    BY <1>6
  <2> QED
    BY <2>1, <2>2 DEF Surjection
<1> HIDE DEF f, keys, ids, D
<1>8. Cardinality(keys) \in Nat /\ Cardinality(ids) \in Nat
      /\ Cardinality(ids) <= Cardinality(keys) /\ IsFiniteSet(ids)
  BY <1>5, <1>7, FS_Surjection, FS_CardinalityType
<1>9. Cardinality(N) = MaxDepth + Cardinality(Argument) + 1
  BY <1>4, FS_Interval
<1>10. N \ ids # {}
  <2> SUFFICES ASSUME N \subseteq ids PROVE FALSE
    OBVIOUS
  <2> HIDE DEF N
  <2>1. Cardinality(N) <= Cardinality(ids)
    BY <1>8, FS_Subset
  <2> QED
    BY <2>1, <1>4, <1>5, <1>8, <1>9
<1>11. N \subseteq Nat
  OBVIOUS
<1> HIDE DEF N
<1> DEFINE free == N \ ids
<1>12. free \subseteq Nat /\ free # {}
  BY <1>10, <1>11
<1>13. FreshAssociation = CHOOSE x \in free : \A y \in free : x =< y
  BY <1>2 DEF FreshAssociation, Min, N, D
<1> HIDE DEF free
<1>14. \E x \in free : \A y \in free : x <= y
  BY <1>12, LeastIsMember
<1>15. FreshAssociation \in free
  BY <1>13, <1>14
<1> QED
  BY <1>12, <1>15 DEF free, ids

LEMMA MemoizationInit == MInit => MemoizationInvariant
<1> SUFFICES ASSUME MInit PROVE MemoizationInvariant
  OBVIOUS
<1>1. /\ isTemplate \in BOOLEAN /\ memoizationTable = NewTable(0)
      /\ evaluations = << >> /\ held = {} /\ abandoned = {}
  BY DEF MInit
<1>2. /\ TableOK(weak, Entries, memoizationTable)
      /\ Positions(memoizationTable.storage) = {}
  BY <1>1, NewTableIsEmpty
<1>3. Entered = {} /\ Slots(memoizationTable) = {}
  BY <1>2, SlotsAreSlotsOf DEF Entered, SlotsOf
<1>4. MemoizationTypeOK
  BY <1>1, <1>2, <1>3 DEF MemoizationTypeOK, OneSlotPerId, Entered
<1> QED
  BY <1>1, <1>3, <1>4 DEF MemoizationInvariant, EvaluationsEntered, EvaluationsApart,
                          HeldEntered, EarlyResults, MarksAccountedFor

\* A result that is there is one that is entered.
LEMMA ApplyHitStep ==
  ASSUME MemoizationInvariant, NEW key \in Argument, ApplyHit(key)
  PROVE  MemoizationInvariant'
<1>1. /\ Memoized(key) # Empty /\ Memoized(key).value # Pending
      /\ held' = held \cup {<<key, Memoized(key).value>>}
      /\ isTemplate' = isTemplate /\ memoizationTable' = memoizationTable
      /\ evaluations' = evaluations /\ abandoned' = abandoned
  BY DEF ApplyHit
<1>2. /\ MemoizationTypeOK /\ EvaluationsEntered /\ EvaluationsApart
      /\ HeldEntered /\ EarlyResults /\ MarksAccountedFor
  BY DEF MemoizationInvariant
<1> DEFINE s == Memoized(key)
<1>3. s \in Entered /\ s.key = key /\ s.value # Tombstone
  BY <1>1, <1>2, MemoizedResult DEF MemoizationTypeOK, Memoized, Entered
<1>4. s \in Entries
  BY <1>2, <1>3, EntryFacts DEF MemoizationTypeOK, Entered
<1> HIDE DEF s
<1>5. s.value \in Object /\ held' = held \cup {<<key, s.value>>}
  BY <1>1, <1>3, <1>4 DEF Entries, s
<1>6. Entered' = Entered
  BY <1>1 DEF Entered
<1>7. MemoizationTypeOK'
  BY <1>1, <1>2, <1>5 DEF MemoizationTypeOK
<1>8. HeldEntered'
  BY <1>2, <1>3, <1>5, <1>6 DEF HeldEntered
<1> QED
  BY <1>1, <1>2, <1>6, <1>7, <1>8 DEF MemoizationInvariant, EvaluationsEntered,
        EvaluationsApart, EarlyResults, MarksAccountedFor, Slots

LEMMA PrefixFacts ==
  ASSUME NEW S, NEW s \in Seq(S), NEW d \in 0 .. Len(s)
  PROVE  /\ SubSeq(s, 1, d) \in Seq(S)
         /\ Len(SubSeq(s, 1, d)) = d
         /\ DOMAIN SubSeq(s, 1, d) = 1 .. d
         /\ \A i \in 1 .. d : SubSeq(s, 1, d)[i] = s[i]
         /\ 1 .. d \subseteq DOMAIN s
<1>1. Len(s) \in Nat /\ DOMAIN s = 1 .. Len(s) /\ \A i \in 1 .. Len(s) : s[i] \in S
  OBVIOUS
<1>2. SubSeq(s, 1, d) = [i \in 1 .. d |-> s[i]]
  BY <1>1
<1>3. 1 .. d \subseteq DOMAIN s
  BY <1>1
<1>4. SubSeq(s, 1, d) \in Seq(S)
  BY <1>1, <1>2
<1> QED
  BY <1>2, <1>3, <1>4

LEMMA AppendFacts ==
  ASSUME NEW S, NEW s \in Seq(S), NEW e \in S
  PROVE  /\ Append(s, e) \in Seq(S)
         /\ DOMAIN Append(s, e) = 1 .. Len(s) + 1
         /\ Append(s, e)[Len(s) + 1] = e
         /\ \A i \in 1 .. Len(s) : Append(s, e)[i] = s[i]
  OBVIOUS

\* The entries of the evaluations that an exception leaves keep their marks.
LEMMA AbandonStep ==
  ASSUME MemoizationInvariant, NEW depth \in 0 .. Len(evaluations), Abandon(depth),
         UNCHANGED <<isTemplate, memoizationTable, held>>
  PROVE  MemoizationInvariant'
<1>1. /\ evaluations' = SubSeq(evaluations, 1, depth)
      /\ abandoned' = abandoned \cup {evaluations[i].key : i \in depth + 1..Len(evaluations)}
      /\ isTemplate' = isTemplate /\ memoizationTable' = memoizationTable /\ held' = held
  BY DEF Abandon
<1>2. /\ MemoizationTypeOK /\ EvaluationsEntered /\ EvaluationsApart
      /\ HeldEntered /\ EarlyResults /\ MarksAccountedFor
  BY DEF MemoizationInvariant
<1>3. /\ evaluations \in Seq(Evaluation)
      /\ Len(evaluations) \in Nat /\ DOMAIN evaluations = 1 .. Len(evaluations)
  BY <1>2 DEF MemoizationTypeOK
<1>4. /\ evaluations' \in Seq(Evaluation)
      /\ DOMAIN evaluations' = 1 .. depth
      /\ \A i \in 1 .. depth : evaluations'[i] = evaluations[i]
      /\ 1 .. depth \subseteq DOMAIN evaluations
  BY <1>1, <1>3, PrefixFacts
<1>5. \A i \in DOMAIN evaluations : evaluations[i].key \in Argument
  <2>1. \A i \in DOMAIN evaluations : evaluations[i] \in Evaluation
    BY <1>3
  <2> QED
    BY <2>1 DEF Evaluation
<1>6. abandoned' \subseteq Argument
  BY <1>1, <1>2, <1>3, <1>5 DEF MemoizationTypeOK
<1>7. MemoizationTypeOK'
  BY <1>1, <1>2, <1>4, <1>6 DEF MemoizationTypeOK
<1>8. Entered' = Entered /\ Slots(memoizationTable)' = Slots(memoizationTable)
  BY <1>1 DEF Entered, Slots
<1>9. EvaluationsEntered'
  BY <1>2, <1>4, <1>8 DEF EvaluationsEntered, Waiting
<1>10. EvaluationsApart' /\ HeldEntered' /\ EarlyResults'
  BY <1>1, <1>2, <1>4, <1>8 DEF EvaluationsApart, HeldEntered, EarlyResults
<1>11. ASSUME NEW slot \in Slots(memoizationTable), slot.value = Pending
       PROVE  slot.key \in abandoned' \cup {evaluations'[i].key : i \in DOMAIN evaluations'}
  <2>1. CASE slot.key \in abandoned
    BY <2>1, <1>1
  <2>2. ASSUME NEW i \in DOMAIN evaluations, slot.key = evaluations[i].key
        PROVE  slot.key \in abandoned' \cup {evaluations'[j].key : j \in DOMAIN evaluations'}
    <3>1. CASE i \in 1 .. depth
      BY <3>1, <2>2, <1>4
    <3>2. CASE i \in depth + 1 .. Len(evaluations)
      BY <3>2, <2>2, <1>1
    <3> QED
      BY <3>1, <3>2, <1>3
  <2> QED
    BY <2>1, <2>2, <1>2, <1>11 DEF MarksAccountedFor
<1>12. MarksAccountedFor'
  BY <1>8, <1>11 DEF MarksAccountedFor
<1> QED
  BY <1>7, <1>9, <1>10, <1>12 DEF MemoizationInvariant

\* An evaluation begins with its mark in the table, and takes no other entry away.
LEMMA ApplyMissStep ==
  ASSUME MemoizationInvariant, NEW key \in Argument, ApplyMiss(key)
  PROVE  MemoizationInvariant'
<1> DEFINE mark == findAssociation(weak, memoizationTable', key)
           e == [key |-> key, result |-> None, association |-> mark.id]
           n == Len(evaluations)
<1>1. /\ Memoized(key) = Empty
      /\ memoizationTable' = Marked(key)
      /\ evaluations' = Append(evaluations, e)
      /\ isTemplate' = isTemplate /\ held' = held /\ abandoned' = abandoned
  BY DEF ApplyMiss
<1>2. /\ MemoizationTypeOK /\ EvaluationsEntered /\ EvaluationsApart
      /\ HeldEntered /\ EarlyResults /\ MarksAccountedFor
  BY DEF MemoizationInvariant
<1>3. /\ Pending # Tombstone /\ None \notin Object /\ Pending \notin Object
      /\ Tombstone \notin Object
  BY MemoizationAssumption
<1>4. /\ evaluations \in Seq(Evaluation)
      /\ n \in Nat /\ DOMAIN evaluations = 1 .. n
      /\ held \subseteq Argument \X Object
  BY <1>2 DEF MemoizationTypeOK
<1>5. FreshAssociation \in Nat /\ \A s \in Entered : s.id # FreshAssociation
  BY <1>2, FreshAssociationResult
<1>6. /\ TableOK(weak, Entries, memoizationTable') /\ OneSlotPerId(memoizationTable')
      /\ MarkedAs(memoizationTable, key, memoizationTable', mark)
  <2>1. findAssociation(weak, memoizationTable, key) = Empty
    BY <1>1 DEF Memoized
  <2>2. memoizationTable' = atPut(weak, memoizationTable,
                                  [key |-> key, value |-> Pending, id |-> FreshAssociation])
    BY <1>1 DEF Marked
  <2> QED
    BY <2>1, <2>2, <1>2, <1>5, MarkedResult DEF MemoizationTypeOK, Entered
<1> HIDE DEF mark
<1>7. /\ mark \in Entered' /\ mark.key = key /\ mark.value = Pending
      /\ \A s \in Entered : s.value # Tombstone => s \in Entered'
      /\ \A s \in Entered' : s = mark \/ (s \in Entered /\ s.key # key)
  BY <1>6 DEF MarkedAs, Entered
<1>8. mark.id \in Nat
  BY <1>6, <1>7, EntryFacts DEF Entries, Entered
<1>9. e \in Evaluation /\ e.key = key /\ e.result = None /\ e.association = mark.id
  BY <1>8 DEF Evaluation
<1> HIDE DEF e
<1>10. /\ evaluations' \in Seq(Evaluation)
       /\ DOMAIN evaluations' = 1 .. n + 1
       /\ evaluations'[n + 1] = e
       /\ \A i \in 1 .. n : evaluations'[i] = evaluations[i]
  BY <1>1, <1>4, <1>9, AppendFacts
<1>11. MemoizationTypeOK'
  BY <1>1, <1>2, <1>6, <1>10 DEF MemoizationTypeOK
<1>12. \A i \in DOMAIN evaluations : Waiting(evaluations[i]) # Tombstone
  <2>1. \A i \in DOMAIN evaluations : evaluations[i] \in Evaluation
    BY <1>4
  <2> QED
    BY <2>1, <1>3 DEF Waiting, Evaluation
<1>13. \A i \in DOMAIN evaluations : evaluations[i].key # key
  <2> SUFFICES ASSUME NEW i \in DOMAIN evaluations, evaluations[i].key = key PROVE FALSE
    OBVIOUS
  <2>1. PICK s \in Entered : s.key = key /\ s.value = Waiting(evaluations[i])
    BY <1>2 DEF EvaluationsEntered
  <2>2. s # Empty
    BY <1>2, EntryFacts DEF MemoizationTypeOK, Entered
  <2>3. \A u \in Entered : u.key = key /\ u.value # Tombstone
                             => findAssociation(weak, memoizationTable, key) = u
    BY <1>2, MemoizedResult DEF MemoizationTypeOK, Entered
  <2> QED
    BY <2>1, <2>2, <2>3, <1>1, <1>12 DEF Memoized
<1>14. EvaluationsEntered'
  <2> SUFFICES ASSUME NEW i \in 1 .. n + 1
               PROVE  \E s \in Entered' : /\ s.key = evaluations'[i].key
                                          /\ s.id = evaluations'[i].association
                                          /\ s.value = Waiting(evaluations'[i])
    BY <1>10 DEF EvaluationsEntered, Waiting
  <2>1. CASE i = n + 1
    <3>1. Waiting(evaluations'[i]) = Pending
      BY <2>1, <1>9, <1>10 DEF Waiting
    <3> QED
      BY <3>1, <2>1, <1>7, <1>9, <1>10
  <2>2. CASE i \in 1 .. n
    <3>1. PICK s \in Entered : /\ s.key = evaluations[i].key
                               /\ s.id = evaluations[i].association
                               /\ s.value = Waiting(evaluations[i])
      BY <2>2, <1>2, <1>4 DEF EvaluationsEntered
    <3>2. s \in Entered'
      BY <3>1, <2>2, <1>4, <1>7, <1>12
    <3> QED
      BY <3>1, <3>2, <2>2, <1>10
  <2> QED
    BY <2>1, <2>2, <1>4
<1>15. EvaluationsApart'
  <2>1. \A i \in 1 .. n : evaluations'[i].key = evaluations[i].key /\ evaluations[i].key # key
    BY <1>4, <1>10, <1>13
  <2>2. evaluations'[n + 1].key = key
    BY <1>9, <1>10
  <2>3. \A i, j \in 1 .. n : evaluations[i].key = evaluations[j].key => i = j
    BY <1>2, <1>4 DEF EvaluationsApart
  <2>4. 1 .. n + 1 = (1 .. n) \cup {n + 1}
    BY <1>4
  <2> QED
    BY <2>1, <2>2, <2>3, <2>4, <1>10 DEF EvaluationsApart
<1>16. HeldEntered'
  <2> SUFFICES ASSUME NEW h \in held PROVE \E s \in Entered' : s.key = h[1] /\ s.value = h[2]
    BY <1>1 DEF HeldEntered
  <2>1. PICK s \in Entered : s.key = h[1] /\ s.value = h[2]
    BY <1>2 DEF HeldEntered
  <2>2. s.value # Tombstone
    BY <2>1, <1>3, <1>4
  <2> QED
    BY <2>1, <2>2, <1>7
<1>17. EarlyResults'
  <2>1. \A i \in 1 .. n + 1 : i = n + 1 \/ i \in 1 .. n
    BY <1>4
  <2> QED
    BY <2>1, <1>1, <1>2, <1>4, <1>9, <1>10 DEF EarlyResults
<1>18. MarksAccountedFor'
  <2> SUFFICES ASSUME NEW s \in Entered', s.value = Pending
               PROVE  s.key \in abandoned' \cup {evaluations'[i].key : i \in DOMAIN evaluations'}
    BY SlotsAreSlotsOf DEF MarksAccountedFor, Entered
  <2>1. CASE s = mark
    <3>1. n + 1 \in DOMAIN evaluations' /\ evaluations'[n + 1].key = s.key
      BY <2>1, <1>4, <1>7, <1>9, <1>10
    <3> QED
      BY <3>1
  <2>2. CASE s \in Entered
    <3>1. s.key \in abandoned \cup {evaluations[i].key : i \in DOMAIN evaluations}
      BY <2>2, <1>2, SlotsAreSlotsOf DEF MarksAccountedFor, Entered
    <3>2. \A i \in DOMAIN evaluations :
            i \in DOMAIN evaluations' /\ evaluations'[i].key = evaluations[i].key
      BY <1>4, <1>10
    <3> QED
      BY <3>1, <3>2, <1>1
  <2> QED
    BY <2>1, <2>2, <1>7
<1> QED
  BY <1>11, <1>14, <1>15, <1>16, <1>17, <1>18 DEF MemoizationInvariant

\* The entry of the innermost evaluation: the only one of its key, with its association.
LEMMA TopEntry ==
  ASSUME MemoizationInvariant, evaluations # << >>
  PROVE  /\ Len(evaluations) \in Nat /\ DOMAIN evaluations = 1 .. Len(evaluations)
         /\ Len(evaluations) \in DOMAIN evaluations
         /\ Top \in Evaluation
         /\ \E s \in Entered : /\ s.key = Top.key /\ s.id = Top.association
                               /\ s.value = Waiting(Top)
         /\ \A s \in Entered : s.key = Top.key <=> s.id = Top.association
<1>1. evaluations \in Seq(Evaluation)
  BY DEF MemoizationInvariant, MemoizationTypeOK
<1>2. /\ Len(evaluations) \in Nat /\ DOMAIN evaluations = 1 .. Len(evaluations)
      /\ Len(evaluations) \in DOMAIN evaluations /\ Top \in Evaluation
  BY <1>1 DEF Top
<1>3. PICK s \in Entered : s.key = Top.key /\ s.id = Top.association /\ s.value = Waiting(Top)
  BY <1>2 DEF MemoizationInvariant, EvaluationsEntered, Top
<1>4. OneSlotPerKey(memoizationTable) /\ OneSlotPerId(memoizationTable)
  BY EntryFacts DEF MemoizationInvariant, MemoizationTypeOK
<1>5. \A u \in Entered : u.key = Top.key <=> u.id = Top.association
  BY <1>3, <1>4 DEF OneSlotPerKey, OneSlotPerId, Entered
<1> QED
  BY <1>2, <1>3, <1>5

\* What setting the result of the innermost evaluation does to what is entered.
LEMMA TopResult ==
  ASSUME MemoizationInvariant, evaluations # << >>, NEW result \in Object,
         Top.result \in {None, result}, setValue(Top.association, result)
  PROVE  /\ TableOK(weak, Entries, memoizationTable') /\ OneSlotPerId(memoizationTable')
         /\ \E u \in Entered' : /\ u.key = Top.key /\ u.id = Top.association
                                /\ u.value = result
         /\ \A s \in Entered : s.key # Top.key =>
              \E u \in Entered' : u.key = s.key /\ u.id = s.id /\ u.value = s.value
         /\ \A u \in Entered' : u.key # Top.key =>
              \E s \in Entered : s.key = u.key /\ s.value = u.value
         /\ \A u \in Entered' : u.key = Top.key => u.value = result
         /\ \A h \in held : \E u \in Entered' : u.key = h[1] /\ u.value = h[2]
<1> DEFINE changed == {s \in Entries : s.id = Top.association}
<1>1. /\ TableOK(weak, Entries, memoizationTable') /\ OneSlotPerId(memoizationTable')
      /\ Turned(memoizationTable, changed, result, memoizationTable')
  BY SetValueResult DEF MemoizationInvariant
<1>2. \A s \in Entered : s \in Entries
  BY EntryFacts DEF MemoizationInvariant, MemoizationTypeOK, Entered
<1>3. /\ Top \in Evaluation
      /\ \E s \in Entered : /\ s.key = Top.key /\ s.id = Top.association
                            /\ s.value = Waiting(Top)
      /\ \A s \in Entered : s.key = Top.key <=> s.id = Top.association
  BY TopEntry
<1>4. \A s \in Entered : s \in changed <=> s.key = Top.key
  BY <1>2, <1>3
<1> HIDE DEF changed
<1>5. \A s \in Entered : \E u \in Entered' :
        u.key = s.key /\ u.id = s.id /\ u.value = IF s.key = Top.key THEN result ELSE s.value
  BY <1>1, <1>4 DEF Turned, Entered
<1>6. \A u \in Entered' : \E s \in Entered :
        u.key = s.key /\ u.id = s.id /\ u.value = IF s.key = Top.key THEN result ELSE s.value
  BY <1>1, <1>4 DEF Turned, Entered
<1>7. \E u \in Entered' : u.key = Top.key /\ u.id = Top.association /\ u.value = result
  BY <1>3, <1>5
<1>8. ASSUME NEW h \in held PROVE \E u \in Entered' : u.key = h[1] /\ u.value = h[2]
  <2>1. PICK s \in Entered : s.key = h[1] /\ s.value = h[2]
    BY DEF MemoizationInvariant, HeldEntered
  <2>2. h[2] \in Object
    BY DEF MemoizationInvariant, MemoizationTypeOK
  <2>3. CASE s.key = Top.key
    <3>1. s.value = Waiting(Top)
      <4>1. OneSlotPerKey(memoizationTable)
        BY EntryFacts DEF MemoizationInvariant, MemoizationTypeOK
      <4> QED
        BY <4>1, <2>3, <1>3 DEF OneSlotPerKey, Entered
    <3>2. s.value = result
      BY <3>1, <2>1, <2>2, MemoizationAssumption DEF Waiting
    <3> QED
      BY <3>2, <2>1, <2>3, <1>5
  <2>4. CASE s.key # Top.key
    BY <2>1, <2>4, <1>5
  <2> QED
    BY <2>3, <2>4
<1>9. /\ \A s \in Entered : s.key # Top.key =>
           \E u \in Entered' : u.key = s.key /\ u.id = s.id /\ u.value = s.value
      /\ \A u \in Entered' : u.key # Top.key =>
           \E s \in Entered : s.key = u.key /\ s.value = u.value
      /\ \A u \in Entered' : u.key = Top.key => u.value = result
  BY <1>5, <1>6
<1> QED
  BY <1>1, <1>7, <1>8, <1>9

\* The evaluations that are not the innermost have their entries as before.
LEMMA OthersEntered ==
  ASSUME MemoizationInvariant, evaluations # << >>,
         \A s \in Entered : s.key # Top.key =>
              \E u \in Entered' : u.key = s.key /\ u.id = s.id /\ u.value = s.value,
         NEW i \in DOMAIN evaluations, i # Len(evaluations)
  PROVE  \E u \in Entered' : /\ u.key = evaluations[i].key
                             /\ u.id = evaluations[i].association
                             /\ u.value = Waiting(evaluations[i])
<1>1. PICK s \in Entered : /\ s.key = evaluations[i].key
                           /\ s.id = evaluations[i].association
                           /\ s.value = Waiting(evaluations[i])
  BY DEF MemoizationInvariant, EvaluationsEntered
<1>2. Len(evaluations) \in DOMAIN evaluations
  BY TopEntry
<1>3. evaluations[i].key # Top.key
  BY <1>2 DEF MemoizationInvariant, EvaluationsApart, Top
<1> QED
  BY <1>1, <1>3

\* A template fills its association before it is done.
LEMMA StoreEarlyStep ==
  ASSUME MemoizationInvariant, StoreEarly
  PROVE  MemoizationInvariant'
<1> DEFINE n == Len(evaluations)
<1>1. /\ isTemplate /\ evaluations # << >> /\ Top.result = None
      /\ isTemplate' = isTemplate /\ held' = held /\ abandoned' = abandoned
  BY DEF StoreEarly
<1>2. PICK object \in Fresh :
        /\ setValue(Top.association, object)
        /\ evaluations' = [evaluations EXCEPT ![n].result = object]
  BY DEF StoreEarly
<1>3. /\ MemoizationTypeOK /\ EvaluationsEntered /\ EvaluationsApart
      /\ HeldEntered /\ EarlyResults /\ MarksAccountedFor
  BY DEF MemoizationInvariant
<1>4. object \in Object /\ None \notin Object /\ Pending \notin Object
  BY MemoizationAssumption DEF Fresh
<1>5. /\ n \in Nat /\ DOMAIN evaluations = 1 .. n /\ n \in DOMAIN evaluations
      /\ Top \in Evaluation
  BY <1>1, TopEntry
<1>6. /\ TableOK(weak, Entries, memoizationTable') /\ OneSlotPerId(memoizationTable')
      /\ \E u \in Entered' : /\ u.key = Top.key /\ u.id = Top.association
                             /\ u.value = object
      /\ \A s \in Entered : s.key # Top.key =>
           \E u \in Entered' : u.key = s.key /\ u.id = s.id /\ u.value = s.value
      /\ \A u \in Entered' : u.key # Top.key =>
           \E s \in Entered : s.key = u.key /\ s.value = u.value
      /\ \A u \in Entered' : u.key = Top.key => u.value = object
      /\ \A h \in held : \E u \in Entered' : u.key = h[1] /\ u.value = h[2]
  BY <1>1, <1>2, <1>4, TopResult
<1> DEFINE top == [Top EXCEPT !.result = object]
<1>7. /\ top \in Evaluation /\ top.key = Top.key /\ top.association = Top.association
      /\ top.result = object
  BY <1>4, <1>5 DEF Evaluation
<1>8. evaluations' = [evaluations EXCEPT ![n] = top]
  BY <1>2 DEF Top
<1> HIDE DEF top
<1>9. evaluations \in Seq(Evaluation)
  BY <1>3 DEF MemoizationTypeOK
<1>10. /\ evaluations' \in Seq(Evaluation) /\ DOMAIN evaluations' = DOMAIN evaluations
       /\ evaluations'[n] = top
       /\ \A i \in DOMAIN evaluations : i # n => evaluations'[i] = evaluations[i]
  BY <1>5, <1>7, <1>8, <1>9
<1>11. \A i \in DOMAIN evaluations : evaluations'[i].key = evaluations[i].key
  BY <1>7, <1>10 DEF Top
<1>12. MemoizationTypeOK'
  BY <1>1, <1>3, <1>6, <1>10 DEF MemoizationTypeOK
<1>13. EvaluationsEntered'
  <2> SUFFICES ASSUME NEW i \in DOMAIN evaluations
               PROVE  \E u \in Entered' : /\ u.key = evaluations'[i].key
                                          /\ u.id = evaluations'[i].association
                                          /\ u.value = Waiting(evaluations'[i])
    BY <1>10 DEF EvaluationsEntered, Waiting
  <2>1. CASE i = n
    <3>1. Waiting(evaluations'[i]) = object
      BY <2>1, <1>4, <1>7, <1>10 DEF Waiting
    <3> QED
      BY <3>1, <2>1, <1>6, <1>7, <1>10
  <2>2. CASE i # n
    <3>1. \E u \in Entered' : /\ u.key = evaluations[i].key
                              /\ u.id = evaluations[i].association
                              /\ u.value = Waiting(evaluations[i])
      BY <2>2, <1>1, <1>6, OthersEntered
    <3> QED
      BY <3>1, <2>2, <1>10
  <2> QED
    BY <2>1, <2>2
<1>14. EvaluationsApart' /\ EarlyResults'
  BY <1>1, <1>3, <1>10, <1>11 DEF EvaluationsApart, EarlyResults
<1>15. HeldEntered'
  BY <1>1, <1>6 DEF HeldEntered
<1>16. MarksAccountedFor'
  <2> SUFFICES ASSUME NEW u \in Entered', u.value = Pending
               PROVE  u.key \in abandoned' \cup {evaluations'[i].key : i \in DOMAIN evaluations'}
    BY SlotsAreSlotsOf DEF MarksAccountedFor, Entered
  <2>1. PICK s \in Entered : s.key = u.key /\ s.value = Pending
    BY <1>4, <1>6
  <2>2. s.key \in abandoned \cup {evaluations[i].key : i \in DOMAIN evaluations}
    BY <2>1, <1>3, SlotsAreSlotsOf DEF MarksAccountedFor, Entered
  <2> QED
    BY <2>1, <2>2, <1>1, <1>10, <1>11
<1> QED
  BY <1>12, <1>13, <1>14, <1>15, <1>16 DEF MemoizationInvariant

\* The innermost evaluation answers: its result is entered and held.
LEMMA ReturnStep ==
  ASSUME MemoizationInvariant, Return
  PROVE  MemoizationInvariant'
<1> DEFINE n == Len(evaluations)
<1>1. /\ evaluations # << >> /\ evaluations' = Front(evaluations)
      /\ isTemplate' = isTemplate /\ abandoned' = abandoned
  BY DEF Return
<1>2. PICK result \in Results :
        /\ setValue(Top.association, result)
        /\ held' = held \cup {<<Top.key, result>>}
  BY DEF Return
<1>3. /\ MemoizationTypeOK /\ EvaluationsEntered /\ EvaluationsApart
      /\ HeldEntered /\ EarlyResults /\ MarksAccountedFor
  BY DEF MemoizationInvariant
<1>4. /\ n \in Nat /\ DOMAIN evaluations = 1 .. n /\ n \in DOMAIN evaluations
      /\ Top \in Evaluation
  BY <1>1, TopEntry
<1>5. result \in Object /\ Top.result \in {None, result} /\ Pending \notin Object
  <2>1. Pending \notin Object
    BY MemoizationAssumption
  <2>2. CASE isTemplate
    BY <2>1, <2>2, <1>2, <1>4 DEF Results, Evaluation
  <2>3. CASE ~ isTemplate
    <3>1. Top.result = None
      BY <2>3, <1>3, <1>4 DEF EarlyResults, Top
    <3>2. \A h \in held : h[2] \in Object
      BY <1>3 DEF MemoizationTypeOK
    <3>3. result \in Object
      BY <3>2, <2>3, <1>2 DEF Results, Fresh
    <3> QED
      BY <3>1, <3>3, <2>1
  <2> QED
    BY <2>2, <2>3
<1>6. /\ TableOK(weak, Entries, memoizationTable') /\ OneSlotPerId(memoizationTable')
      /\ \E u \in Entered' : /\ u.key = Top.key /\ u.id = Top.association
                             /\ u.value = result
      /\ \A s \in Entered : s.key # Top.key =>
           \E u \in Entered' : u.key = s.key /\ u.id = s.id /\ u.value = s.value
      /\ \A u \in Entered' : u.key # Top.key =>
           \E s \in Entered : s.key = u.key /\ s.value = u.value
      /\ \A u \in Entered' : u.key = Top.key => u.value = result
      /\ \A h \in held : \E u \in Entered' : u.key = h[1] /\ u.value = h[2]
  BY <1>1, <1>2, <1>5, TopResult
<1>7. evaluations \in Seq(Evaluation)
  BY <1>3 DEF MemoizationTypeOK
<1>8. /\ evaluations' \in Seq(Evaluation) /\ DOMAIN evaluations' = 1 .. n - 1
      /\ \A i \in 1 .. n - 1 : evaluations'[i] = evaluations[i]
      /\ 1 .. n - 1 \subseteq DOMAIN evaluations
  <2>1. evaluations' = SubSeq(evaluations, 1, n - 1)
    BY <1>1 DEF Front
  <2>2. n - 1 \in 0 .. Len(evaluations)
    BY <1>4
  <2> QED
    BY <2>1, <2>2, <1>7, PrefixFacts
<1>9. Top.key \in Argument
  BY <1>4 DEF Evaluation
<1>10. held' \subseteq Argument \X Object
  BY <1>2, <1>3, <1>5, <1>9 DEF MemoizationTypeOK
<1>11. MemoizationTypeOK'
  BY <1>1, <1>3, <1>6, <1>8, <1>10 DEF MemoizationTypeOK
<1>12. EvaluationsEntered'
  <2> SUFFICES ASSUME NEW i \in DOMAIN evaluations'
               PROVE  \E u \in Entered' : /\ u.key = evaluations'[i].key
                                          /\ u.id = evaluations'[i].association
                                          /\ u.value = Waiting(evaluations'[i])
    BY DEF EvaluationsEntered, Waiting
  <2>1. i \in DOMAIN evaluations /\ i # n
    BY <1>4, <1>8
  <2>2. \E u \in Entered' : /\ u.key = evaluations[i].key
                            /\ u.id = evaluations[i].association
                            /\ u.value = Waiting(evaluations[i])
    BY <2>1, <1>1, <1>6, OthersEntered
  <2> QED
    BY <2>2, <1>8
<1>13. EvaluationsApart' /\ EarlyResults'
  BY <1>1, <1>3, <1>8 DEF EvaluationsApart, EarlyResults
<1>14. HeldEntered'
  BY <1>2, <1>6 DEF HeldEntered
<1>15. MarksAccountedFor'
  <2> SUFFICES ASSUME NEW u \in Entered', u.value = Pending
               PROVE  u.key \in abandoned' \cup {evaluations'[i].key : i \in DOMAIN evaluations'}
    BY SlotsAreSlotsOf DEF MarksAccountedFor, Entered
  <2>1. u.key # Top.key
    BY <1>5, <1>6
  <2>2. PICK s \in Entered : s.key = u.key /\ s.value = Pending
    BY <2>1, <1>6
  <2>3. s.key \in abandoned \cup {evaluations[i].key : i \in DOMAIN evaluations}
    BY <2>2, <1>3, SlotsAreSlotsOf DEF MarksAccountedFor, Entered
  <2>4. \A i \in DOMAIN evaluations : i = n \/ i \in 1 .. n - 1
    BY <1>4
  <2>5. evaluations[n].key = Top.key
    BY DEF Top
  <2> QED
    BY <2>1, <2>2, <2>3, <2>4, <2>5, <1>1, <1>8
<1> QED
  BY <1>11, <1>12, <1>13, <1>14, <1>15 DEF MemoizationInvariant

\* Neither what the program holds nor what is being evaluated dies.
LEMMA CollectGarbageStep ==
  ASSUME MemoizationInvariant, CollectGarbage
  PROVE  MemoizationInvariant'
<1> DEFINE changed == {s \in Entries : s.value \in Object \ InUse}
<1>1. /\ isTemplate' = isTemplate /\ evaluations' = evaluations /\ held' = held
      /\ abandoned' = abandoned
  BY DEF CollectGarbage
<1>2. /\ MemoizationTypeOK /\ EvaluationsEntered /\ EvaluationsApart
      /\ HeldEntered /\ EarlyResults /\ MarksAccountedFor
  BY DEF MemoizationInvariant
<1>3. /\ TableOK(weak, Entries, memoizationTable') /\ OneSlotPerId(memoizationTable')
      /\ Turned(memoizationTable, changed, Tombstone, memoizationTable')
  BY <1>2, CollectedResult
<1>4. \A s \in Entered : s \in Entries
  BY <1>2, EntryFacts DEF MemoizationTypeOK, Entered
<1>5. \A s \in Entered : s.value \in InUse \cup {Pending} => s \notin changed
  BY MemoizationAssumption
<1> HIDE DEF changed
<1>6. \A s \in Entered : s.value \in InUse \cup {Pending} =>
        \E u \in Entered' : u.key = s.key /\ u.id = s.id /\ u.value = s.value
  BY <1>3, <1>5 DEF Turned, Entered
<1>7. \A u \in Entered' : u.value = Pending =>
        \E s \in Entered : s.key = u.key /\ s.value = Pending
  BY <1>3, MemoizationAssumption DEF Turned, Entered
<1>8. MemoizationTypeOK'
  BY <1>1, <1>2, <1>3 DEF MemoizationTypeOK
<1>9. EvaluationsEntered'
  <2> SUFFICES ASSUME NEW i \in DOMAIN evaluations
               PROVE  \E u \in Entered' : /\ u.key = evaluations[i].key
                                          /\ u.id = evaluations[i].association
                                          /\ u.value = Waiting(evaluations[i])
    BY <1>1 DEF EvaluationsEntered, Waiting
  <2>1. PICK s \in Entered : /\ s.key = evaluations[i].key
                             /\ s.id = evaluations[i].association
                             /\ s.value = Waiting(evaluations[i])
    BY <1>2 DEF EvaluationsEntered
  <2>2. s.value \in InUse \cup {Pending}
    BY <2>1 DEF Waiting, InUse
  <2> QED
    BY <2>1, <2>2, <1>6
<1>10. HeldEntered'
  <2> SUFFICES ASSUME NEW h \in held PROVE \E u \in Entered' : u.key = h[1] /\ u.value = h[2]
    BY <1>1 DEF HeldEntered
  <2>1. PICK s \in Entered : s.key = h[1] /\ s.value = h[2]
    BY <1>2 DEF HeldEntered
  <2>2. s.value \in InUse
    BY <2>1 DEF InUse
  <2> QED
    BY <2>1, <2>2, <1>6
<1>11. MarksAccountedFor'
  <2> SUFFICES ASSUME NEW u \in Entered', u.value = Pending
               PROVE  u.key \in abandoned \cup {evaluations[i].key : i \in DOMAIN evaluations}
    BY <1>1, SlotsAreSlotsOf DEF MarksAccountedFor, Entered
  <2>1. PICK s \in Entered : s.key = u.key /\ s.value = Pending
    BY <1>7
  <2> QED
    BY <2>1, <1>2, SlotsAreSlotsOf DEF MarksAccountedFor, Entered
<1> QED
  BY <1>1, <1>2, <1>8, <1>9, <1>10, <1>11
     DEF MemoizationInvariant, EvaluationsApart, EarlyResults

LEMMA MemoizationStep ==
  ASSUME MemoizationInvariant, [MNext]_mvars
  PROVE  MemoizationInvariant'
<1>1. ASSUME NEW key \in Argument, memoizedApply(key) PROVE MemoizationInvariant'
  <2>1. CASE ApplyCyclic(key)
    <3>1. PICK depth \in 0 .. Len(evaluations) : Abandon(depth)
      BY <2>1 DEF ApplyCyclic
    <3> QED
      BY <3>1, <2>1, AbandonStep DEF ApplyCyclic
  <2> QED
    BY <2>1, <1>1, ApplyHitStep, ApplyMissStep DEF memoizedApply
<1>2. CASE Raise
  <2>1. PICK depth \in 0 .. Len(evaluations) - 1 : Abandon(depth)
    BY <1>2 DEF Raise
  <2>2. Len(evaluations) \in Nat
    BY DEF MemoizationInvariant, MemoizationTypeOK
  <2>3. depth \in 0 .. Len(evaluations)
    BY <2>2
  <2> QED
    BY <2>1, <2>3, <1>2, AbandonStep DEF Raise
<1>3. CASE Release
  <2>1. /\ held' \subseteq held /\ isTemplate' = isTemplate
        /\ memoizationTable' = memoizationTable /\ evaluations' = evaluations
        /\ abandoned' = abandoned
    BY <1>3 DEF Release
  <2> QED
    BY <2>1 DEF MemoizationInvariant, MemoizationTypeOK, EvaluationsEntered,
         EvaluationsApart, HeldEntered, EarlyResults, MarksAccountedFor, Entered, Slots
<1>4. CASE UNCHANGED mvars
  BY <1>4 DEF mvars, MemoizationInvariant, MemoizationTypeOK, EvaluationsEntered,
         EvaluationsApart, HeldEntered, EarlyResults, MarksAccountedFor, Entered, Slots
<1> QED
  BY <1>1, <1>2, <1>3, <1>4, StoreEarlyStep, ReturnStep, CollectGarbageStep DEF MNext

\* The invariant of memoized functions: what is being evaluated and what the program
\* holds is entered, each key once, and every mark is of a call that runs or was left.
THEOREM MemoizationInvariantHolds == MSpec => []MemoizationInvariant
<1>1. MemoizationInvariant /\ [MNext]_mvars => MemoizationInvariant'
  BY MemoizationStep
<1> QED
  BY <1>1, MemoizationInit, PTL DEF MSpec

\* Two live results of one key are one object, over growths of the table, nested
\* evaluations, exceptions and collections.
THEOREM OneResultPerKeyHolds == MSpec => []OneResultPerKey
<1>1. MemoizationInvariant => OneResultPerKey
  <2> SUFFICES ASSUME MemoizationInvariant PROVE OneResultPerKey
    OBVIOUS
  <2>1. OneSlotPerKey(memoizationTable)
    BY EntryFacts DEF MemoizationInvariant, MemoizationTypeOK
  <2>2. HeldEntered
    BY DEF MemoizationInvariant
  <2> QED
    BY <2>1, <2>2 DEF OneResultPerKey, HeldEntered, OneSlotPerKey, Entered
<1> QED
  BY <1>1, MemoizationInvariantHolds, PTL

\* No key is evaluated inside its own evaluation, and a search for a key that is being
\* evaluated finds the association of its evaluation, with the mark until there is a result.
THEOREM NoReentryHolds == MSpec => []NoReentry
<1>1. MemoizationInvariant => NoReentry
  <2> SUFFICES ASSUME MemoizationInvariant PROVE NoReentry
    OBVIOUS
  <2>1. /\ MemoizationTypeOK /\ EvaluationsEntered /\ EvaluationsApart
    BY DEF MemoizationInvariant
  <2>2. ASSUME NEW i \in DOMAIN evaluations
        PROVE  LET found == Memoized(evaluations[i].key)
               IN /\ found # Empty
                  /\ found.id = evaluations[i].association
                  /\ found.value = Pending <=> evaluations[i].result = None
    <3>1. evaluations[i] \in Evaluation
      BY <2>1 DEF MemoizationTypeOK
    <3>2. evaluations[i].key \in Argument /\ evaluations[i].result \in Object \cup {None}
      BY <3>1 DEF Evaluation
    <3>3. PICK s \in Entered : /\ s.key = evaluations[i].key
                               /\ s.id = evaluations[i].association
                               /\ s.value = Waiting(evaluations[i])
      BY <2>1 DEF EvaluationsEntered
    <3>4. s.value # Tombstone /\ (s.value = Pending <=> evaluations[i].result = None)
      BY <3>2, <3>3, MemoizationAssumption DEF Waiting
    <3>5. s # Empty
      BY <2>1, EntryFacts DEF MemoizationTypeOK, Entered
    <3>6. \A u \in Entered : u.key = evaluations[i].key /\ u.value # Tombstone
            => findAssociation(weak, memoizationTable, evaluations[i].key) = u
      BY <2>1, <3>2, MemoizedResult DEF MemoizationTypeOK, Entered
    <3>7. Memoized(evaluations[i].key) = s
      BY <3>3, <3>4, <3>6 DEF Memoized
    <3> QED
      BY <3>3, <3>4, <3>5, <3>7
  <2> QED
    BY <2>1, <2>2 DEF NoReentry, EvaluationsApart
<1> QED
  BY <1>1, MemoizationInvariantHolds, PTL

\* A cyclic memoized value is only reported of a key that is being evaluated, or whose
\* evaluation an exception has left.
THEOREM MarksAccountedForHolds == MSpec => []MarksAccountedFor
<1>1. MemoizationInvariant => MarksAccountedFor
  BY DEF MemoizationInvariant
<1> QED
  BY <1>1, MemoizationInvariantHolds, PTL
=============================================================================
