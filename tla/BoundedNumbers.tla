--------------------------- MODULE BoundedNumbers ---------------------------
(***************************************************************************)
(* Sets of natural numbers below a bound: the greatest element, and        *)
(* induction; the least element; remainders; and the sum of a function     *)
(* over a finite set.  The theorems about the two stacks of records, the   *)
(* tables, the queue and the heap's account rest on them.                  *)
(***************************************************************************)
EXTENDS Integers, FiniteSetsExt, Functions, FiniteSetTheorems, WellFoundedInduction, TLAPS

\* A set of natural numbers below a bound that is not empty has a greatest element.
LEMMA MaxIsMember ==
  ASSUME NEW n \in Nat, NEW S, S \subseteq 0 .. n, S # {}
  PROVE  Max(S) \in S /\ \A y \in S : y <= Max(S)
<1> DEFINE D == {n - x : x \in S}
<1>1. D \subseteq Nat /\ D # {}
  <2>1. PICK x \in S : TRUE
    OBVIOUS
  <2>2. n - x \in D
    BY <2>1
  <2>3. \A y \in S : n - y \in Nat
    OBVIOUS
  <2> QED
    BY <2>2, <2>3
<1>2. PICK d \in D : \A e \in D : ~ (<<e, d>> \in OpToRel(<, Nat))
  BY <1>1, NatLessThanWellFounded, WFMin, Zenon
<1>3. ASSUME NEW e \in D, e < d PROVE FALSE
  <2>1. <<e, d>> \in Nat \X Nat
    BY <1>1
  <2>2. <<e, d>>[1] < <<e, d>>[2]
    BY <1>3
  <2>3. <<e, d>> \in OpToRel(<, Nat)
    BY <2>1, <2>2, Zenon DEF OpToRel
  <2> QED
    BY <2>3, <1>2
<1>4. PICK x \in S : d = n - x
  BY <1>2
<1>5. \A y \in S : x >= y
  <2> SUFFICES ASSUME NEW y \in S PROVE x >= y
    OBVIOUS
  <2>1. n - y \in D
    OBVIOUS
  <2>2. ~ (n - y < d)
    BY <2>1, <1>3
  <2> QED
    BY <2>2, <1>4
<1>6. Max(S) \in S /\ \A y \in S : Max(S) >= y
  BY <1>5, Zenon DEF Max
<1> QED
  BY <1>6

\* A set of numbers that holds each number whose predecessors it holds, up to a
\* bound, holds them all.
LEMMA InductionBelow ==
  ASSUME NEW n \in Nat, NEW S,
         \A k \in 0 .. n : (\A j \in 0 .. k - 1 : j \in S) => k \in S
  PROVE  \A k \in 0 .. n : k \in S
<1> DEFINE D == {k \in 0 .. n : k \notin S}
<1> SUFFICES ASSUME D # {} PROVE FALSE
  OBVIOUS
<1>1. D \subseteq Nat
  OBVIOUS
<1>2. PICK d \in D : \A e \in D : ~ (<<e, d>> \in OpToRel(<, Nat))
  BY <1>1, NatLessThanWellFounded, WFMin, Zenon
<1>3. ASSUME NEW e \in D, e < d PROVE FALSE
  <2>1. <<e, d>> \in Nat \X Nat
    BY <1>1
  <2>2. <<e, d>>[1] < <<e, d>>[2]
    BY <1>3
  <2>3. <<e, d>> \in OpToRel(<, Nat)
    BY <2>1, <2>2, Zenon DEF OpToRel
  <2> QED
    BY <2>3, <1>2
<1>4. \A j \in 0 .. d - 1 : j \in S
  BY <1>3
<1> QED
  BY <1>4

\* A set of natural numbers that is not empty has a least element.
LEMMA LeastIsMember ==
  ASSUME NEW S, S \subseteq Nat, S # {}
  PROVE  \E m \in S : \A y \in S : m <= y
<1>1. PICK m \in S : \A e \in S : ~ (<<e, m>> \in OpToRel(<, Nat))
  BY NatLessThanWellFounded, WFMin, Zenon
<1>2. ASSUME NEW y \in S, y < m PROVE FALSE
  <2>1. <<y, m>> \in Nat \X Nat
    OBVIOUS
  <2>2. <<y, m>>[1] < <<y, m>>[2]
    BY <1>2
  <2>3. <<y, m>> \in OpToRel(<, Nat)
    BY <2>1, <2>2, Zenon DEF OpToRel
  <2> QED
    BY <2>3, <1>1
<1> QED
  BY <1>2

\* A number is a multiple of the capacity and its remainder.
LEMMA Division ==
  ASSUME NEW a \in Nat, NEW c \in Nat, c > 0
  PROVE  /\ a % c \in 0 .. c - 1
         /\ \E q \in Nat : a = (c * q) + (a % c)
<1>1. a = (c * (a \div c)) + (a % c) /\ (a \div c) \in Int
  OBVIOUS
<1>2. a % c \in 0 .. c - 1
  OBVIOUS
<1>3. (a \div c) \in Nat
  BY <1>1, <1>2
<1> QED
  BY <1>1, <1>2, <1>3

\* The remainder is the only such number below the capacity.
LEMMA Remainder ==
  ASSUME NEW q \in Nat, NEW c \in Nat, c > 0, NEW b \in 0 .. c - 1
  PROVE  ((c * q) + b) % c = b
OBVIOUS

\* Counting up from any number passes by every remainder.
LEMMA EveryRemainder ==
  ASSUME NEW a \in Nat, NEW c \in Nat, c > 0, NEW b \in 0 .. c - 1
  PROVE  \E i \in 0 .. c - 1 : (a + i) % c = b
<1>1. PICK q \in Nat : a = (c * q) + (a % c)
  BY Division
<1>2. a % c \in 0 .. c - 1
  BY Division
<1>3. CASE b >= a % c
  <2> DEFINE i == b - (a % c)
  <2>1. i \in 0 .. c - 1
    BY <1>2, <1>3
  <2>2. a + i = (c * q) + b
    BY <1>1, <1>2
  <2>3. (a + i) % c = b
    BY <2>2, Remainder
  <2> QED
    BY <2>1, <2>3
<1>4. CASE b < a % c
  <2> DEFINE i == (b + c) - (a % c)
  <2>1. i \in 0 .. c - 1
    BY <1>2, <1>4
  <2>2. a + i = (c * (q + 1)) + b
    <3>1. a + i = ((c * q) + c) + b
      BY <1>1, <1>2
    <3>2. (c * q) + c = c * (q + 1)
      OBVIOUS
    <3> QED
      BY <3>1, <3>2
  <2>3. ((c * (q + 1)) + b) % c = b
    BY Remainder
  <2>4. (a + i) % c = b
    BY <2>2, <2>3
  <2> QED
    BY <2>1, <2>4
<1> QED
  BY <1>2, <1>3, <1>4

Congruent(a, b, c) == a % c = b % c

\* Two numbers with one remainder keep having one while both are counted up.
LEMMA SameRemainder ==
  ASSUME NEW a \in Nat, NEW b \in Nat, NEW i \in Nat, NEW c \in Nat, c > 0,
         Congruent(a, b, c)
  PROVE  Congruent(a + i, b + i, c)
<1> DEFINE r == a % c
<1>1. r \in Nat
  BY Division
<1>2. PICK p \in Nat : a = (c * p) + r
  BY Division
<1>3. PICK q \in Nat : b = (c * q) + r
  BY Division DEF Congruent
<1> HIDE DEF r
<1> DEFINE s == (r + i) % c
<1>10. r + i \in Nat
  BY <1>1
<1>4. s \in 0 .. c - 1
  BY <1>10, Division
<1>5. PICK t \in Nat : r + i = (c * t) + s
  BY <1>10, Division
<1> HIDE DEF s
<1>6. a + i = (c * (p + t)) + s
  <2>1. a + i = ((c * p) + (c * t)) + s
    BY <1>1, <1>2, <1>4, <1>5
  <2>2. (c * p) + (c * t) = c * (p + t)
    OBVIOUS
  <2> QED
    BY <2>1, <2>2
<1>7. b + i = (c * (q + t)) + s
  <2>1. b + i = ((c * q) + (c * t)) + s
    BY <1>1, <1>3, <1>4, <1>5
  <2>2. (c * q) + (c * t) = c * (q + t)
    OBVIOUS
  <2> QED
    BY <2>1, <2>2
<1>8. ((c * (p + t)) + s) % c = s
  BY <1>4, Remainder
<1>9. ((c * (q + t)) + s) % c = s
  BY <1>4, Remainder
<1> QED
  BY <1>6, <1>7, <1>8, <1>9 DEF Congruent

-----------------------------------------------------------------------------
\* The sum of a function over its domain, as a fold computes it.
Total(f) == FoldFunction(+, 0, f)

\* The element that the fold takes next.
Some(s) == CHOOSE x \in s : TRUE

\* g is the fold's recursion over the subsets of S.
IsSums(f, S, g) ==
  g = [s \in SUBSET S |-> IF s = {} THEN 0 ELSE f[Some(s)] + g[s \ {Some(s)}]]

\* The recursion, up to sets of k elements.
Small(S, k) == {s \in SUBSET S : Cardinality(s) <= k}

SumsUpTo(f, S, k, g) ==
  /\ g \in [Small(S, k) -> Int]
  /\ \A s \in Small(S, k) : g[s] = IF s = {} THEN 0 ELSE f[Some(s)] + g[s \ {Some(s)}]

LEMMA SomeOf == ASSUME NEW s, s # {} PROVE Some(s) \in s
BY Zenon DEF Some

\* What is left when an element has been taken.
LEMMA SmallerByOne ==
  ASSUME NEW S, IsFiniteSet(S), NEW s \in SUBSET S, NEW y \in s
  PROVE  /\ s \ {y} \in SUBSET S
         /\ Cardinality(s) \in 1 .. Cardinality(S)
         /\ Cardinality(s \ {y}) = Cardinality(s) - 1
         /\ Cardinality(S) \in Nat
<1>1. IsFiniteSet(s) /\ Cardinality(s) <= Cardinality(S)
  BY FS_Subset
<1>2. Cardinality(s) \in Nat /\ Cardinality(S) \in Nat
  BY <1>1, FS_CardinalityType
<1>3. Cardinality(s) # 0
  BY <1>1, FS_EmptySet
<1>4. Cardinality(s \ {y}) = Cardinality(s) - 1
  BY <1>1, FS_RemoveElement
<1> QED
  BY <1>1, <1>2, <1>3, <1>4

\* The recursion is well-founded, so that there is such a function.
LEMMA SumsUpToStep ==
  ASSUME NEW S, IsFiniteSet(S), NEW f \in [S -> Int], NEW k \in Nat,
         NEW g, SumsUpTo(f, S, k, g)
  PROVE  \E h : SumsUpTo(f, S, k + 1, h)
<1> DEFINE sum(s) == IF s = {} THEN 0 ELSE f[Some(s)] + g[s \ {Some(s)}]
           h == [s \in Small(S, k + 1) |-> sum(s)]
<1>1. ASSUME NEW s \in Small(S, k + 1), s # {}
      PROVE  /\ f[Some(s)] \in Int
             /\ s \ {Some(s)} \in Small(S, k)
             /\ g[s \ {Some(s)}] \in Int
  <2>1. Some(s) \in s /\ s \in SUBSET S /\ Cardinality(s) <= k + 1
    BY <1>1, SomeOf DEF Small
  <2>2. /\ s \ {Some(s)} \in SUBSET S /\ Cardinality(s) \in Nat
        /\ Cardinality(s \ {Some(s)}) = Cardinality(s) - 1
    BY <2>1, SmallerByOne
  <2>3. s \ {Some(s)} \in Small(S, k)
    BY <2>1, <2>2 DEF Small
  <2> QED
    BY <2>1, <2>3 DEF SumsUpTo
<1>2. \A s \in Small(S, k + 1) : sum(s) \in Int
  BY <1>1
<1>3. \A s \in Small(S, k) : s \in Small(S, k + 1) /\ h[s] = g[s]
  <2> SUFFICES ASSUME NEW s \in Small(S, k)
               PROVE  s \in Small(S, k + 1) /\ h[s] = g[s]
    OBVIOUS
  <2>1. IsFiniteSet(s) /\ Cardinality(s) \in Nat
    BY FS_Subset, FS_CardinalityType DEF Small
  <2>2. s \in Small(S, k + 1)
    BY <2>1 DEF Small
  <2>3. g[s] = sum(s)
    BY DEF SumsUpTo
  <2> HIDE DEF sum
  <2> QED
    BY <2>2, <2>3
<1>4. \A s \in Small(S, k + 1) :
        h[s] = IF s = {} THEN 0 ELSE f[Some(s)] + h[s \ {Some(s)}]
  <2> SUFFICES ASSUME NEW s \in Small(S, k + 1)
               PROVE  h[s] = IF s = {} THEN 0 ELSE f[Some(s)] + h[s \ {Some(s)}]
    OBVIOUS
  <2>1. h[s] = sum(s)
    OBVIOUS
  <2>2. s # {} => h[s \ {Some(s)}] = g[s \ {Some(s)}]
    BY <1>1, <1>3
  <2> HIDE DEF h
  <2> QED
    BY <2>1, <2>2
<1>5. h \in [Small(S, k + 1) -> Int]
  <2> HIDE DEF sum
  <2> QED
    BY <1>2
<1>6. SumsUpTo(f, S, k + 1, h)
  <2> HIDE DEF h
  <2> QED
    BY <1>4, <1>5 DEF SumsUpTo
<1> QED
  BY <1>6

LEMMA SumsUpToZero ==
  ASSUME NEW S, IsFiniteSet(S), NEW f \in [S -> Int]
  PROVE  \E g : SumsUpTo(f, S, 0, g)
<1> DEFINE g == [s \in Small(S, 0) |-> 0]
<1>1. \A s \in Small(S, 0) : s = {}
  <2> SUFFICES ASSUME NEW s \in Small(S, 0) PROVE s = {}
    OBVIOUS
  <2>1. IsFiniteSet(s) /\ Cardinality(s) \in Nat /\ Cardinality(s) <= 0
    BY FS_Subset, FS_CardinalityType DEF Small
  <2> QED
    BY <2>1, FS_EmptySet
<1>2. SumsUpTo(f, S, 0, g)
  BY <1>1 DEF SumsUpTo
<1> QED
  BY <1>2

LEMMA SumsExist ==
  ASSUME NEW S, IsFiniteSet(S), NEW f \in [S -> Int]
  PROVE  \E g \in [SUBSET S -> Int] : IsSums(f, S, g)
<1> DEFINE n == Cardinality(S)
           good == {k \in 0 .. n : \E g : SumsUpTo(f, S, k, g)}
<1>1. n \in Nat
  BY FS_CardinalityType
<1>2. ASSUME NEW k \in 0 .. n, \A j \in 0 .. k - 1 : j \in good PROVE k \in good
  <2>1. CASE k = 0
    BY <2>1, SumsUpToZero
  <2>2. CASE k # 0
    <3>1. k - 1 \in 0 .. k - 1 /\ k - 1 \in Nat /\ (k - 1) + 1 = k
      BY <2>2
    <3>2. PICK g : SumsUpTo(f, S, k - 1, g)
      BY <1>2, <3>1
    <3>3. \E h : SumsUpTo(f, S, (k - 1) + 1, h)
      BY <3>1, <3>2, SumsUpToStep
    <3> QED
      BY <3>1, <3>3
  <2> QED
    BY <2>1, <2>2
<1>3. n \in good
  <2> HIDE DEF good
  <2>1. \A k \in 0 .. n : k \in good
    BY <1>1, <1>2, InductionBelow
  <2> QED
    BY <1>1, <2>1
<1>4. PICK g : SumsUpTo(f, S, n, g)
  BY <1>3
<1>5. Small(S, n) = SUBSET S
  BY FS_Subset DEF Small
<1>6. /\ g \in [SUBSET S -> Int]
      /\ \A s \in SUBSET S : g[s] = IF s = {} THEN 0 ELSE f[Some(s)] + g[s \ {Some(s)}]
  BY <1>4, <1>5 DEF SumsUpTo
<1>7. IsSums(f, S, g)
  <2> DEFINE sum(s) == IF s = {} THEN 0 ELSE f[Some(s)] + g[s \ {Some(s)}]
  <2>1. \A s \in SUBSET S : g[s] = sum(s)
    BY <1>6
  <2>2. g = [s \in SUBSET S |-> sum(s)]
    <3> HIDE DEF sum
    <3> QED
      BY <1>6, <2>1
  <2> QED
    BY <2>2, Zenon DEF IsSums
<1> QED
  BY <1>6, <1>7

\* What IsSums says of a set.
LEMMA SumsOf ==
  ASSUME NEW S, NEW f, NEW g, IsSums(f, S, g), NEW s \in SUBSET S
  PROVE  g[s] = IF s = {} THEN 0 ELSE f[Some(s)] + g[s \ {Some(s)}]
<1> DEFINE sum(t) == IF t = {} THEN 0 ELSE f[Some(t)] + g[t \ {Some(t)}]
<1>1. g = [t \in SUBSET S |-> sum(t)]
  BY DEF IsSums
<1>2. g[s] = sum(s)
  <2> HIDE DEF sum
  <2> QED
    BY <1>1
<1> QED
  BY <1>2

Summed(f, S, g) ==
  IsFiniteSet(S) /\ f \in [S -> Int] /\ g \in [SUBSET S -> Int] /\ IsSums(f, S, g)

\* The sum does not depend on the order: any element may be taken first.
LEMMA SumTakesAny ==
  ASSUME NEW S, NEW f, NEW g, Summed(f, S, g), NEW s \in SUBSET S, NEW y \in s
  PROVE  g[s] = f[y] + g[s \ {y}]
<1> USE DEF Summed
<1> DEFINE n == Cardinality(S)
           holds(t) == \A z \in t : g[t] = f[z] + g[t \ {z}]
           good == {k \in 0 .. n : \A t \in SUBSET S : Cardinality(t) = k => holds(t)}
<1>1. ASSUME NEW k \in 0 .. n, \A j \in 0 .. k - 1 : j \in good PROVE k \in good
  <2> SUFFICES ASSUME NEW t \in SUBSET S, Cardinality(t) = k, NEW z \in t
               PROVE  g[t] = f[z] + g[t \ {z}]
    OBVIOUS
  <2> DEFINE x == Some(t)
  <2>1. x \in t
    BY SomeOf
  <2> HIDE DEF x
  <2>2. g[t] = f[x] + g[t \ {x}]
    BY SumsOf DEF x
  <2>3. CASE z = x
    BY <2>2, <2>3
  <2>4. CASE z # x
    <3>1. /\ t \ {x} \in SUBSET S /\ t \ {z} \in SUBSET S
          /\ Cardinality(t \ {x}) = k - 1 /\ Cardinality(t \ {z}) = k - 1
          /\ k \in 1 .. n
      BY <2>1, SmallerByOne
    <3>2. k - 1 \in good
      BY <3>1, <1>1
    <3>3. holds(t \ {x}) /\ holds(t \ {z})
      BY <3>1, <3>2
    <3>4. z \in t \ {x} /\ x \in t \ {z} /\ (t \ {x}) \ {z} = (t \ {z}) \ {x}
      BY <2>1, <2>4
    <3>5. /\ g[t \ {x}] = f[z] + g[(t \ {x}) \ {z}]
          /\ g[t \ {z}] = f[x] + g[(t \ {z}) \ {x}]
      BY <3>3, <3>4
    <3> DEFINE rest == g[(t \ {x}) \ {z}]
    <3>6. f[x] \in Int /\ f[z] \in Int /\ rest \in Int
      BY <2>1, <3>1
    <3>7. g[t \ {z}] = f[x] + rest /\ g[t \ {x}] = f[z] + rest
      BY <3>4, <3>5
    <3> HIDE DEF rest
    <3> QED
      BY <2>2, <3>6, <3>7
  <2> QED
    BY <2>3, <2>4
<1>2. Cardinality(s) \in 0 .. n /\ n \in Nat
  <2>1. Cardinality(s) \in 1 .. Cardinality(S) /\ Cardinality(S) \in Nat
    BY SmallerByOne
  <2> QED
    BY <2>1
<1>3. \A k \in 0 .. n : k \in good
  <2> HIDE DEF good
  <2> QED
    BY <1>1, <1>2, InductionBelow
<1>4. Cardinality(s) \in good
  BY <1>2, <1>3
<1>5. holds(s)
  BY <1>4
<1> QED
  BY <1>5

\* Nor on what the function is elsewhere.
LEMMA SumsAgree ==
  ASSUME NEW S, IsFiniteSet(S), NEW T \in SUBSET S, NEW f, NEW h,
         \A x \in T : f[x] = h[x],
         NEW g, IsSums(f, S, g), NEW e, IsSums(h, T, e)
  PROVE  g[T] = e[T]
<1> DEFINE n == Cardinality(T)
           good == {k \in 0 .. n : \A t \in SUBSET T : Cardinality(t) = k => g[t] = e[t]}
<1>0. IsFiniteSet(T) /\ n \in Nat
  BY FS_Subset, FS_CardinalityType
<1>1. ASSUME NEW k \in 0 .. n, \A j \in 0 .. k - 1 : j \in good PROVE k \in good
  <2> SUFFICES ASSUME NEW t \in SUBSET T, Cardinality(t) = k
               PROVE  g[t] = e[t]
    OBVIOUS
  <2> DEFINE x == Some(t)
  <2>1. /\ g[t] = IF t = {} THEN 0 ELSE f[x] + g[t \ {x}]
        /\ e[t] = IF t = {} THEN 0 ELSE h[x] + e[t \ {x}]
    <3>1. t \in SUBSET S
      OBVIOUS
    <3>2. g[t] = IF t = {} THEN 0 ELSE f[x] + g[t \ {x}]
      BY <3>1, SumsOf
    <3>3. e[t] = IF t = {} THEN 0 ELSE h[x] + e[t \ {x}]
      BY SumsOf
    <3> QED
      BY <3>2, <3>3
  <2>2. CASE t = {}
    BY <2>1, <2>2
  <2>3. CASE t # {}
    <3>1. x \in t
      BY <2>3, SomeOf
    <3> HIDE DEF x
    <3>2. t \ {x} \in SUBSET T /\ Cardinality(t \ {x}) = k - 1 /\ k \in 1 .. n
      BY <1>0, <3>1, SmallerByOne
    <3>3. k - 1 \in good
      BY <3>2, <1>1
    <3>4. g[t \ {x}] = e[t \ {x}]
      BY <3>2, <3>3
    <3>5. f[x] = h[x]
      BY <3>1
    <3> QED
      BY <2>1, <2>3, <3>4, <3>5
  <2> QED
    BY <2>2, <2>3
<1>2. \A k \in 0 .. n : k \in good
  <2> HIDE DEF good
  <2> QED
    BY <1>0, <1>1, InductionBelow
<1>3. n \in good
  BY <1>0, <1>2
<1> QED
  BY <1>3

\* The total is the recursion's value for the whole domain.
LEMMA TotalIsSum ==
  ASSUME NEW f, NEW S, DOMAIN f = S
  PROVE  Total(f) = (CHOOSE g : IsSums(f, S, g))[S]
BY Zenon DEF Total, FoldFunction, FoldFunctionOnSet, MapThenFoldSet, IsSums, Some

LEMMA TotalIs ==
  ASSUME NEW S, IsFiniteSet(S), NEW f, DOMAIN f = S, NEW g, IsSums(f, S, g)
  PROVE  Total(f) = g[S]
<1> DEFINE a == CHOOSE g1 : IsSums(f, S, g1)
<1>1. IsSums(f, S, a)
  BY Zenon
<1>2. Total(f) = a[S]
  BY TotalIsSum
<1> HIDE DEF a
<1>3. S \in SUBSET S /\ \A x \in S : f[x] = f[x]
  OBVIOUS
<1>4. a[S] = g[S]
  BY <1>1, <1>3, SumsAgree
<1> QED
  BY <1>2, <1>4

LEMMA TotalOfNone ==
  ASSUME NEW f \in [{} -> Int]
  PROVE  Total(f) = 0
<1>1. IsFiniteSet({})
  BY FS_EmptySet
<1>2. DOMAIN f = {}
  OBVIOUS
<1>3. PICK g : IsSums(f, {}, g)
  BY <1>1, SumsExist
<1>4. g[{}] = 0
  BY <1>3, SumsOf
<1> QED
  BY <1>1, <1>3, <1>4, TotalIs

\* h is f, an integer function on S, without the element y.
Without(S, f, y, h) ==
  f \in [S -> Int] /\ h \in [S \ {y} -> Int] /\ \A x \in S \ {y} : h[x] = f[x]

\* Any element of the domain may be taken out of a total.
LEMMA TotalWithout ==
  ASSUME NEW S, IsFiniteSet(S), NEW y \in S, NEW f, NEW h, Without(S, f, y, h)
  PROVE  Total(f) = f[y] + Total(h)
<1> USE DEF Without
<1> DEFINE T == S \ {y}
<1>1. IsFiniteSet(T) /\ T \in SUBSET S
  BY FS_RemoveElement
<1>2. PICK g \in [SUBSET S -> Int] : IsSums(f, S, g)
  BY SumsExist
<1>3. PICK e \in [SUBSET T -> Int] : IsSums(h, T, e)
  BY <1>1, SumsExist
<1>4. DOMAIN f = S /\ DOMAIN h = T
  OBVIOUS
<1>5. Total(f) = g[S] /\ Total(h) = e[T]
  BY <1>1, <1>2, <1>3, <1>4, TotalIs
<1>6. \A x \in T : f[x] = h[x]
  OBVIOUS
<1>7. g[S] = f[y] + g[T]
  <2>1. S \in SUBSET S
    OBVIOUS
  <2>2. Summed(f, S, g)
    BY <1>2 DEF Summed
  <2>3. g[S] = f[y] + g[S \ {y}]
    BY <2>1, <2>2, SumTakesAny
  <2> QED
    BY <2>3
<1> HIDE DEF T
<1>8. g[T] = e[T]
  BY <1>1, <1>2, <1>3, <1>6, SumsAgree
<1> QED
  BY <1>5, <1>7, <1>8
=============================================================================
