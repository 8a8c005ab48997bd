------------------------ MODULE LargeIntegersProofs -------------------------
(***************************************************************************)
(* The integers of the virtual machine compute what they should outside    *)
(* the cases Faulty names, compare as numbers and are read back from their *)
(* digits, for words, immediates and native integers of any width, numbers *)
(* of any size and computations of any length.                             *)
(*                                                                         *)
(* The words of a magnitude are reasoned about by its tails: From(w)[i] is *)
(* the number the words from i on stand for.  Sums, differences and the    *)
(* rows of a product are added up from the top tail down, with the carry   *)
(* or the borrow into each word; nothing else is known of the words.       *)
(* The functions LargeIntegers defines by recursion are taken from their   *)
(* definitions as CHOOSE does: one that recurs as they do exists, and      *)
(* induction over the positions says what such a function computes.        *)
(***************************************************************************)
EXTENDS LargeIntegers, BoundedNumbers, FiniteSetTheorems, FunctionTheorems, TLAPS

-----------------------------------------------------------------------------
(***************************************************************************)
(* Induction over the positions of a number, and functions defined by      *)
(* recursion over them.                                                    *)
(***************************************************************************)
\* Up from m to n.
LEMMA Upwards ==
  ASSUME NEW m \in Int, NEW n \in Int, NEW S, m \in S,
         \A k \in m .. n - 1 : k \in S => k + 1 \in S
  PROVE  \A k \in m .. n : k \in S
<1> SUFFICES ASSUME m <= n PROVE \A k \in m .. n : k \in S
  OBVIOUS
<1> DEFINE D == {j \in 0 .. n - m : m + j \in S}
<1>1. n - m \in Nat
  OBVIOUS
<1>2. ASSUME NEW j \in 0 .. n - m, \A i \in 0 .. j - 1 : i \in D PROVE j \in D
  <2>1. CASE j = 0
    BY <2>1
  <2>2. CASE j # 0
    <3>1. j - 1 \in 0 .. j - 1 /\ m + (j - 1) \in m .. n - 1 /\ (m + (j - 1)) + 1 = m + j
      BY <2>2
    <3>2. m + (j - 1) \in S
      BY <1>2, <3>1
    <3>3. m + j \in S
      BY <3>1, <3>2
    <3> QED
      BY <3>3
  <2> QED
    BY <2>1, <2>2
<1>3. \A j \in 0 .. n - m : j \in D
  <2> HIDE DEF D
  <2> QED
    BY <1>1, <1>2, InductionBelow
<1> QED
  <2> TAKE k \in m .. n
  <2>1. k - m \in 0 .. n - m /\ m + (k - m) = k
    OBVIOUS
  <2>2. k - m \in D
    BY <2>1, <1>3
  <2> QED
    BY <2>1, <2>2

\* Down from n to m.
LEMMA Downwards ==
  ASSUME NEW m \in Int, NEW n \in Int, NEW S, n \in S,
         \A k \in m .. n - 1 : k + 1 \in S => k \in S
  PROVE  \A k \in m .. n : k \in S
<1> SUFFICES ASSUME m <= n PROVE \A k \in m .. n : k \in S
  OBVIOUS
<1> DEFINE D == {j \in 0 .. n - m : n - j \in S}
<1>1. n - m \in Nat
  OBVIOUS
<1>2. ASSUME NEW j \in 0 .. n - m, \A i \in 0 .. j - 1 : i \in D PROVE j \in D
  <2>1. CASE j = 0
    BY <2>1
  <2>2. CASE j # 0
    <3>1. j - 1 \in 0 .. j - 1 /\ n - j \in m .. n - 1 /\ (n - j) + 1 = n - (j - 1)
      BY <2>2
    <3>2. (n - j) + 1 \in S
      BY <1>2, <3>1
    <3>3. n - j \in S
      BY <3>1, <3>2
    <3> QED
      BY <3>3
  <2> QED
    BY <2>1, <2>2
<1>3. \A j \in 0 .. n - m : j \in D
  <2> HIDE DEF D
  <2> QED
    BY <1>1, <1>2, InductionBelow
<1> QED
  <2> TAKE k \in m .. n
  <2>1. n - k \in 0 .. n - m /\ n - (n - k) = k
    OBVIOUS
  <2>2. n - k \in D
    BY <2>1, <1>3
  <2> QED
    BY <2>1, <2>2

\* f starts with a and goes on as next says, as far as n.
Recurs(f, m, n, a, next) ==
  f[m] = a /\ \A i \in m + 1 .. n : f[i] = next[i][f[i - 1]]

Steps(V, m, n) == [m + 1 .. n -> [V -> V]]

\* There is such a function when next takes values of V to values of V.
LEMMA RecursionExists ==
  ASSUME NEW m \in Int, NEW n \in Int, m <= n, NEW V, NEW a \in V,
         NEW next, next \in Steps(V, m, n)
  PROVE  \E f \in [m .. n -> V] : Recurs(f, m, n, a, next)
<1> DEFINE S == {k \in m .. n : \E f \in [m .. k -> V] : Recurs(f, m, k, a, next)}
<1>1. m \in S
  <2> DEFINE f == [i \in m .. m |-> a]
  <2>1. f \in [m .. m -> V] /\ Recurs(f, m, m, a, next)
    BY DEF Recurs
  <2> HIDE DEF f
  <2> QED
    BY <2>1
<1>2. ASSUME NEW k \in m .. n - 1, k \in S PROVE k + 1 \in S
  <2>1. PICK f \in [m .. k -> V] : Recurs(f, m, k, a, next)
    BY <1>2
  <2> DEFINE last == next[k + 1][f[k]]
             g == [i \in m .. k + 1 |-> IF i = k + 1 THEN last ELSE f[i]]
  <2>2. last \in V
    <3>1. f[k] \in V
      OBVIOUS
    <3>2. k + 1 \in m + 1 .. n
      OBVIOUS
    <3>3. next[k + 1] \in [V -> V]
      BY <3>2 DEF Steps
    <3> QED
      BY <3>1, <3>3
  <2> HIDE DEF last
  <2>3. /\ \A i \in m .. k : g[i] = f[i] /\ i \in m .. k + 1
        /\ g[k + 1] = last
        /\ g \in [m .. k + 1 -> V]
    BY <2>2
  <2> HIDE DEF g
  <2>4. ASSUME NEW i \in m + 1 .. k + 1 PROVE g[i] = next[i][g[i - 1]]
    <3>1. i - 1 \in m .. k
      OBVIOUS
    <3>2. g[i - 1] = f[i - 1]
      BY <3>1, <2>3
    <3>3. CASE i = k + 1
      <4>1. i - 1 = k
        BY <3>3
      <4> QED
        BY <3>2, <3>3, <4>1, <2>3 DEF last
    <3>4. CASE i # k + 1
      <4>1. i \in m .. k /\ i \in m + 1 .. k
        BY <3>4
      <4> QED
        BY <4>1, <3>2, <2>1, <2>3 DEF Recurs
    <3> QED
      BY <3>3, <3>4
  <2>5. g[m] = a
    BY <2>1, <2>3 DEF Recurs
  <2>6. Recurs(g, m, k + 1, a, next)
    BY <2>4, <2>5 DEF Recurs
  <2>7. k + 1 \in m .. n
    OBVIOUS
  <2> QED
    BY <2>3, <2>6, <2>7
<1>3. n \in S
  <2> HIDE DEF S
  <2>1. \A k \in m .. n : k \in S
    BY <1>1, <1>2, Upwards
  <2> QED
    BY <2>1
<1> QED
  BY <1>3

-----------------------------------------------------------------------------
(***************************************************************************)
(* Powers of two, which count the subsets of a set.                        *)
(***************************************************************************)
\* A set of no members has one subset.
LEMMA PowerOfNone == 2 ^ 0 = 1
<1>1. IsFiniteSet({}) /\ Cardinality({}) = 0
  BY FS_EmptySet
<1>2. SUBSET {} = {{}}
  OBVIOUS
<1>3. Cardinality({{}}) = 1
  BY FS_Singleton
<1>4. Cardinality(SUBSET {}) = 2 ^ Cardinality({})
  BY <1>1, FS_SUBSET
<1> QED
  BY <1>1, <1>2, <1>3, <1>4

\* A power of two is twice the one before it.
LEMMA PowerDoubles ==
  ASSUME NEW n \in Nat
  PROVE  2 ^ n \in Nat /\ 2 ^ (n + 1) = (2 ^ n) + (2 ^ n)
<1> DEFINE A == 1 .. n
           x == n + 1
           without == SUBSET A
           with == {s \cup {x} : s \in without}
           f == [s \in without |-> s \cup {x}]
<1>1. IsFiniteSet(A) /\ Cardinality(A) = n
  BY FS_Interval
<1>2. IsFiniteSet(1 .. n + 1) /\ Cardinality(1 .. n + 1) = n + 1
  BY FS_Interval
<1>3. IsFiniteSet(without) /\ Cardinality(without) = 2 ^ n
  BY <1>1, FS_SUBSET
<1>4. Cardinality(SUBSET (1 .. n + 1)) = 2 ^ (n + 1)
  BY <1>2, FS_SUBSET
<1>5. x \notin A /\ 1 .. n + 1 = A \cup {x}
  OBVIOUS
<1> HIDE DEF A, x
<1>6. SUBSET (A \cup {x}) = without \cup with
  <2>1. ASSUME NEW s \in SUBSET (A \cup {x}) PROVE s \in without \cup with
    <3>1. CASE x \in s
      <4>1. s \ {x} \in without /\ s = (s \ {x}) \cup {x}
        BY <3>1
      <4> QED
        BY <4>1
    <3>2. CASE x \notin s
      BY <3>2
    <3> QED
      BY <3>1, <3>2
  <2>2. ASSUME NEW s \in without \cup with PROVE s \in SUBSET (A \cup {x})
    OBVIOUS
  <2> QED
    BY <2>1, <2>2
<1>7. without \cap with = {}
  BY <1>5
<1>8. f \in Bijection(without, with)
  <2>1. \A s \in without : f[s] = s \cup {x} /\ f[s] \in with
    OBVIOUS
  <2>2. ASSUME NEW s \in without, NEW t \in without, f[s] = f[t] PROVE s = t
    <3>1. s \cup {x} = t \cup {x} /\ x \notin s /\ x \notin t
      BY <2>2, <1>5
    <3> QED
      BY <3>1
  <2>3. f \in [without -> with]
    OBVIOUS
  <2>4. ASSUME NEW t \in with PROVE \E s \in without : f[s] = t
    <3>1. PICK s \in without : t = s \cup {x}
      OBVIOUS
    <3> QED
      BY <2>1, <3>1
  <2> HIDE DEF f, with, without
  <2> QED
    BY <2>2, <2>3, <2>4, Fun_IsBij
<1> HIDE DEF f, with, without
<1>9. IsFiniteSet(with) /\ Cardinality(with) = 2 ^ n
  BY <1>3, <1>8, FS_Bijection DEF ExistsBijection
<1>10. /\ IsFiniteSet(without \cup with)
       /\ Cardinality(without \cup with)
            = Cardinality(without) + Cardinality(with) - Cardinality(without \cap with)
  <2>1. IsFiniteSet(without) /\ IsFiniteSet(with)
    BY <1>3, <1>9
  <2> QED
    BY Zenon, <2>1, FS_Union
<1>11. 2 ^ n \in Nat
  <2>1. Cardinality(without) \in Nat
    BY <1>3, FS_CardinalityType
  <2> QED
    BY <2>1, <1>3
<1>12. Cardinality(without \cap with) = 0
  BY <1>7, FS_EmptySet
<1>13. 2 ^ (n + 1) = Cardinality(without \cup with)
  <2>1. SUBSET (1 .. n + 1) = without \cup with
    BY <1>5, <1>6
  <2> QED
    BY Zenon, <2>1, <1>4
<1>14. Cardinality(without \cup with) = (2 ^ n) + (2 ^ n) - 0
  BY Zenon, <1>10, <1>12, <1>3, <1>9
<1> QED
  BY <1>11, <1>13, <1>14

\* A power of two is at least one.
LEMMA PowerIsPositive ==
  ASSUME NEW n \in Nat
  PROVE  2 ^ n \in Nat /\ 2 ^ n >= 1
<1> DEFINE S == {k \in 0 .. n : 2 ^ k \in Nat /\ 2 ^ k >= 1}
<1>1. 0 \in S
  BY PowerOfNone
<1>2. ASSUME NEW k \in 0 .. n - 1, k \in S PROVE k + 1 \in S
  BY <1>2, PowerDoubles
<1>3. n \in S
  <2> HIDE DEF S
  <2>1. \A k \in 0 .. n : k \in S
    BY <1>1, <1>2, Upwards
  <2> QED
    BY <2>1
<1> QED
  BY <1>3

\* The power of a sum is the product of the powers.
LEMMA PowerOfSum ==
  ASSUME NEW m \in Nat, NEW n \in Nat
  PROVE  2 ^ (m + n) = (2 ^ m) * (2 ^ n)
<1> DEFINE S == {k \in 0 .. n : 2 ^ (m + k) = (2 ^ m) * (2 ^ k)}
<1>1. 0 \in S
  BY PowerOfNone, PowerIsPositive
<1>2. ASSUME NEW k \in 0 .. n - 1, k \in S PROVE k + 1 \in S
  <2>1. /\ 2 ^ (k + 1) = (2 ^ k) + (2 ^ k)
        /\ 2 ^ ((m + k) + 1) = (2 ^ (m + k)) + (2 ^ (m + k))
        /\ 2 ^ k \in Nat /\ 2 ^ m \in Nat
        /\ (m + k) + 1 = m + (k + 1)
    BY PowerDoubles
  <2>2. 2 ^ (m + k) = (2 ^ m) * (2 ^ k)
    BY <1>2
  <2>3. (2 ^ m) * ((2 ^ k) + (2 ^ k)) = (2 ^ m) * (2 ^ k) + (2 ^ m) * (2 ^ k)
    BY <2>1
  <2>4. 2 ^ (m + (k + 1)) = (2 ^ m) * (2 ^ (k + 1))
    BY <2>1, <2>2, <2>3
  <2> QED
    BY <2>4
<1>3. n \in S
  <2> HIDE DEF S
  <2>1. \A k \in 0 .. n : k \in S
    BY <1>1, <1>2, Upwards
  <2> QED
    BY <2>1
<1> QED
  BY <1>3

\* The powers of two are ordered as their exponents.
LEMMA PowerGrows ==
  ASSUME NEW m \in Nat, NEW n \in Nat, m <= n
  PROVE  2 ^ m <= 2 ^ n
<1>1. n - m \in Nat /\ m + (n - m) = n
  OBVIOUS
<1>2. 2 ^ (m + (n - m)) = (2 ^ m) * (2 ^ (n - m))
  BY <1>1, PowerOfSum
<1>3. 2 ^ m \in Nat /\ 2 ^ (n - m) \in Nat /\ 2 ^ (n - m) >= 1
  BY <1>1, PowerIsPositive
<1>4. \A a, b \in Nat : b >= 1 => a <= a * b
  OBVIOUS
<1>5. 2 ^ n = (2 ^ m) * (2 ^ (n - m))
  BY <1>1, <1>2
<1> QED
  BY <1>3, <1>4, <1>5

-----------------------------------------------------------------------------
(***************************************************************************)
(* The widths.                                                             *)
(***************************************************************************)
Half == 2 ^ (ImmediateBits - 1)
HalfNative == 2 ^ (NativeBits - 1)

\* What the proofs use of the widths: the immediates are those from -Half on and below
\* Half, more than a word has and not more than half of what a native integer has, and
\* a native integer has the bits of two words.
LEMMA WidthFacts ==
  /\ WordBase \in Nat /\ WordBase >= 2
  /\ Half \in Nat /\ WordBase <= Half /\ Half > 36
  /\ HalfNative \in Nat /\ 2 * Half <= HalfNative
  /\ 2 * HalfNative = WordBase * WordBase
  /\ 2 ^ ImmediateBits = 2 * Half
  /\ 2 ^ NativeBits = 2 * HalfNative
  /\ MinImmediate = - Half /\ MaxImmediate = Half - 1
<1>1. /\ WordBits \in Nat \ {0} /\ NativeBits \in Nat \ {0} /\ ImmediateBits \in Nat \ {0}
      /\ NativeBits = WordBits + WordBits
      /\ WordBits + 1 < ImmediateBits /\ ImmediateBits < NativeBits
      /\ 2 ^ (ImmediateBits - 1) > 36
  BY Widths
<1>2. /\ WordBits = (WordBits - 1) + 1 /\ WordBits - 1 \in Nat
      /\ ImmediateBits = (ImmediateBits - 1) + 1 /\ ImmediateBits - 1 \in Nat
      /\ NativeBits = (NativeBits - 1) + 1 /\ NativeBits - 1 \in Nat
  BY <1>1
<1>3. WordBase \in Nat /\ WordBase >= 2
  <2> DEFINE power == 2 ^ (WordBits - 1)
  <2>1. 2 ^ ((WordBits - 1) + 1) = power + power
    BY <1>2, PowerDoubles
  <2>2. power \in Nat /\ power >= 1
    BY <1>2, PowerIsPositive
  <2>3. WordBase = power + power
    BY <1>2, <2>1 DEF WordBase
  <2> HIDE DEF power
  <2> QED
    BY <2>2, <2>3
<1>4. Half \in Nat /\ HalfNative \in Nat
  BY <1>1, PowerIsPositive DEF Half, HalfNative
<1>5. WordBase <= Half
  BY <1>1, PowerGrows DEF WordBase, Half
<1>6. 2 ^ ImmediateBits = 2 * Half /\ 2 ^ NativeBits = 2 * HalfNative
  <2>1. 2 ^ ((ImmediateBits - 1) + 1) = Half + Half
    BY <1>2, PowerDoubles DEF Half
  <2>2. 2 ^ ((NativeBits - 1) + 1) = HalfNative + HalfNative
    BY <1>2, PowerDoubles DEF HalfNative
  <2> QED
    BY <1>2, <2>1, <2>2, <1>4
<1>7. 2 ^ ImmediateBits <= HalfNative
  BY <1>1, PowerGrows DEF HalfNative
<1>8. 2 ^ NativeBits = WordBase * WordBase
  BY <1>1, PowerOfSum DEF WordBase
<1>9. MinImmediate = - Half /\ MaxImmediate = Half - 1 /\ Half > 36
  BY <1>1 DEF Half, MinImmediate, MaxImmediate
<1> QED
  BY <1>3, <1>4, <1>5, <1>6, <1>7, <1>8, <1>9

\* The words a magnitude is made of.
Digit == 0 .. WordBase - 1
WordSeqs == Seq(Digit)

\* A word is a natural number below the base.
LEMMA DigitIs ==
  ASSUME NEW d \in Digit
  PROVE  d \in Nat /\ d < WordBase
BY WidthFacts DEF Digit

\* A natural number below the base is a word.
LEMMA IsDigit ==
  ASSUME NEW d \in Int, 0 <= d, d < WordBase
  PROVE  d \in Digit
BY WidthFacts DEF Digit

\* The words of a magnitude are numbered from 1.
LEMMA LengthIs ==
  ASSUME NEW w \in WordSeqs
  PROVE  Len(w) \in Nat /\ DOMAIN w = 1 .. Len(w)
BY DEF WordSeqs

\* Past its last word a magnitude has zero words.
LEMMA WordAtIs ==
  ASSUME NEW w \in WordSeqs, NEW i \in Int
  PROVE  /\ WordAt(w, i) \in Digit /\ WordAt(w, i) \in Nat /\ WordAt(w, i) < WordBase
         /\ i \in 1 .. Len(w) => WordAt(w, i) = w[i]
         /\ i \notin 1 .. Len(w) => WordAt(w, i) = 0
<1>1. 0 \in Digit
  BY WidthFacts DEF Digit
<1>2. DOMAIN w = 1 .. Len(w) /\ \A k \in 1 .. Len(w) : w[k] \in Digit
  BY DEF WordSeqs
<1>3. WordAt(w, i) \in Digit
  BY <1>1, <1>2 DEF WordAt
<1> QED
  BY <1>2, <1>3, DigitIs DEF WordAt

\* The number the words from a position on stand for, by the position.
IsTails(w, f) ==
  /\ f \in [Nat \ {0} -> Nat]
  /\ \A i \in Nat \ {0} : f[i] = WordAt(w, i) + WordBase * f[i + 1]
  /\ \A i \in Nat \ {0} : i > Len(w) => f[i] = 0

\* The function Magnitude is defined with.
IsFrom(w, f) ==
  f = [i \in 1 .. Len(w) + 1 |-> IF i > Len(w) THEN 0 ELSE w[i] + WordBase * f[i + 1]]

\* The number the words from a position on stand for: the tail of the magnitude.
From(w) ==
  [i \in Nat \ {0} |-> IF i > Len(w) THEN 0 ELSE (CHOOSE f : IsFrom(w, f))[i]]

\* Magnitude's function exists, and its values are natural numbers.
LEMMA FromExists ==
  ASSUME NEW w \in WordSeqs
  PROVE  \E f \in [1 .. Len(w) + 1 -> Nat] : IsFrom(w, f)
<1> DEFINE n == Len(w)
           next == [j \in 1 + 1 .. n + 1 |-> [v \in Nat |-> w[n + 2 - j] + WordBase * v]]
<1>1. n \in Nat /\ WordBase \in Nat /\ \A i \in 1 .. n : w[i] \in Nat
  <2>1. n \in Nat /\ WordBase \in Nat
    BY LengthIs, WidthFacts
  <2>2. ASSUME NEW i \in 1 .. n PROVE w[i] \in Nat
    <3>1. w[i] \in Digit
      BY DEF WordSeqs
    <3> QED
      BY <3>1, <2>1 DEF Digit
  <2> QED
    BY <2>1, <2>2
<1>2. next \in Steps(Nat, 1, n + 1)
  <2>1. ASSUME NEW j \in 1 + 1 .. n + 1, NEW v \in Nat PROVE w[n + 2 - j] + WordBase * v \in Nat
    <3>1. n + 2 - j \in 1 .. n
      BY <1>1
    <3>2. w[n + 2 - j] \in Nat
      BY <3>1, <1>1
    <3>3. WordBase * v \in Nat
      BY <1>1
    <3> QED
      BY <3>2, <3>3
  <2> QED
    BY <2>1 DEF Steps
<1>3. PICK g \in [1 .. n + 1 -> Nat] : Recurs(g, 1, n + 1, 0, next)
  <2> HIDE DEF next
  <2>1. 1 \in Int /\ n + 1 \in Int /\ 1 <= n + 1 /\ 0 \in Nat
    BY <1>1
  <2> QED
    BY <2>1, <1>2, RecursionExists, Zenon
<1> DEFINE f == [i \in 1 .. n + 1 |-> g[n + 2 - i]]
<1>4. g[1] = 0 /\ \A j \in 2 .. n + 1 : g[j] = w[n + 2 - j] + WordBase * g[j - 1]
  <2>1. g[1] = 0
    BY <1>3 DEF Recurs
  <2>2. ASSUME NEW j \in 2 .. n + 1 PROVE g[j] = w[n + 2 - j] + WordBase * g[j - 1]
    <3>1. j \in 1 + 1 .. n + 1
      OBVIOUS
    <3>2. g[j] = next[j][g[j - 1]]
      BY <3>1, <1>3 DEF Recurs
    <3>3. j - 1 \in 1 .. n + 1
      BY <1>1
    <3>4. g[j - 1] \in Nat
      BY <3>3
    <3> QED
      BY <3>2, <3>4
  <2> QED
    BY <2>1, <2>2
<1>5. f \in [1 .. n + 1 -> Nat]
  <2>1. \A i \in 1 .. n + 1 : n + 2 - i \in 1 .. n + 1
    BY <1>1
  <2> QED
    BY <2>1
<1>6. ASSUME NEW i \in 1 .. n + 1
      PROVE  f[i] = IF i > n THEN 0 ELSE w[i] + WordBase * f[i + 1]
  <2>1. f[i] = g[n + 2 - i]
    OBVIOUS
  <2>2. CASE i > n
    <3>1. n + 2 - i = 1
      BY <1>1, <2>2
    <3> QED
      BY <2>1, <2>2, <3>1, <1>4
  <2>3. CASE ~(i > n)
    <3>1. n + 2 - i \in 2 .. n + 1 /\ n + 2 - (n + 2 - i) = i /\ i + 1 \in 1 .. n + 1
          /\ (n + 2 - i) - 1 = n + 2 - (i + 1)
      BY <1>1, <2>3
    <3>2. f[i + 1] = g[n + 2 - (i + 1)]
      BY <3>1
    <3>3. g[n + 2 - i] = w[n + 2 - (n + 2 - i)] + WordBase * g[(n + 2 - i) - 1]
      BY <3>1, <1>4
    <3> QED
      BY <2>1, <2>3, <3>1, <3>2, <3>3
  <2> QED
    BY <2>2, <2>3
<1>7. f = [i \in 1 .. n + 1 |-> IF i > n THEN 0 ELSE w[i] + WordBase * f[i + 1]]
  <2>1. DOMAIN f = 1 .. n + 1
    OBVIOUS
  <2> HIDE DEF f
  <2> QED
    BY <1>5, <1>6
<1> QED
  BY <1>5, <1>7 DEF IsFrom

\* The tails are those of Magnitude's function, and the first is the magnitude.
LEMMA TailsOf ==
  ASSUME NEW w \in WordSeqs
  PROVE  IsTails(w, From(w)) /\ From(w)[1] = Magnitude(w)
<1> DEFINE n == Len(w)
           f == CHOOSE f : IsFrom(w, f)
           F == From(w)
<1>1. n \in Nat /\ WordBase \in Nat
  BY LengthIs, WidthFacts
<1>2. IsFrom(w, f)
  <2>1. \E g : IsFrom(w, g)
    BY FromExists
  <2> QED
    BY <2>1, Zenon
<1>3. Magnitude(w) = f[1]
  BY Zenon DEF Magnitude, IsFrom
<1> HIDE DEF f
<1>4. ASSUME NEW i \in 1 .. n + 1
      PROVE  f[i] = IF i > n THEN 0 ELSE w[i] + WordBase * f[i + 1]
  BY <1>2 DEF IsFrom
<1>5. ASSUME NEW i \in Nat \ {0} PROVE F[i] = IF i > n THEN 0 ELSE f[i]
  BY DEF From, f
<1>6. \A i \in 1 .. n + 1 : f[i] \in Nat
  <2> DEFINE S == {i \in 1 .. n + 1 : f[i] \in Nat}
  <2>1. n + 1 \in S
    BY <1>1, <1>4
  <2>2. ASSUME NEW i \in 1 .. (n + 1) - 1, i + 1 \in S PROVE i \in S
    <3>1. f[i] = w[i] + WordBase * f[i + 1] /\ i \in 1 .. n
      BY <1>1, <1>4
    <3>2. w[i] \in Nat
      BY <3>1, WordAtIs
    <3>3. WordBase * f[i + 1] \in Nat
      BY <2>2, <1>1
    <3> QED
      BY <3>1, <3>2, <3>3
  <2>3. \A i \in 1 .. n + 1 : i \in S
    <3> HIDE DEF S
    <3> QED
      BY <1>1, <2>1, <2>2, Downwards
  <2> QED
    BY <2>3
<1>7. F \in [Nat \ {0} -> Nat]
  <2>1. \A i \in Nat \ {0} : F[i] \in Nat
    BY <1>1, <1>5, <1>6
  <2>2. DOMAIN F = Nat \ {0} /\ F = [i \in Nat \ {0} |-> F[i]]
    BY DEF From
  <2> QED
    BY <2>1, <2>2
<1>8. ASSUME NEW i \in Nat \ {0} PROVE F[i] = WordAt(w, i) + WordBase * F[i + 1]
  <2>1. CASE i > n
    <3>1. F[i] = 0 /\ F[i + 1] = 0 /\ WordAt(w, i) = 0
      <4>1. i \in Int /\ i \notin 1 .. Len(w) /\ i + 1 \in Nat \ {0} /\ i + 1 > n
        BY <2>1, <1>1
      <4>2. F[i] = 0 /\ F[i + 1] = 0
        BY <4>1, <2>1, <1>5
      <4>3. WordAt(w, i) = 0
        BY <4>1, WordAtIs
      <4> QED
        BY <4>2, <4>3
    <3> QED
      BY <3>1, <1>1
  <2>2. CASE ~(i > n)
    <3>1. i \in 1 .. n /\ i + 1 \in 1 .. n + 1
      BY <2>2, <1>1
    <3>2. F[i] = w[i] + WordBase * f[i + 1]
      BY <3>1, <2>2, <1>4, <1>5
    <3>3. F[i + 1] = f[i + 1]
      BY <3>1, <1>1, <1>4, <1>5
    <3> QED
      BY <3>1, <3>2, <3>3, WordAtIs
  <2> QED
    BY <2>1, <2>2
<1>9. F[1] = f[1]
  BY <1>1, <1>4, <1>5
<1> QED
  BY <1>1, <1>3, <1>5, <1>7, <1>8, <1>9 DEF IsTails

\* The number the words from a position on stand for.
LEMMA FromAt ==
  ASSUME NEW w \in WordSeqs, NEW i \in Int, i >= 1
  PROVE  /\ From(w)[i] \in Nat /\ From(w)[i + 1] \in Nat
         /\ From(w)[i] = WordAt(w, i) + WordBase * From(w)[i + 1]
         /\ i > Len(w) => From(w)[i] = 0
<1>1. i \in Nat \ {0} /\ i + 1 \in Nat \ {0}
  OBVIOUS
<1> QED
  BY <1>1, TailsOf DEF IsTails

\* The magnitude is its first tail.
LEMMA FromFirst ==
  ASSUME NEW w \in WordSeqs
  PROVE  From(w)[1] = Magnitude(w)
BY TailsOf

\* Words that differ in zero words at the top only stand for one number.
LEMMA SameWordsSameMagnitude ==
  ASSUME NEW v \in WordSeqs, NEW w \in WordSeqs,
         \A i \in Nat \ {0} : WordAt(v, i) = WordAt(w, i)
  PROVE  Magnitude(v) = Magnitude(w)
<1> DEFINE n == Len(v) + Len(w) + 1
           V == From(v)
           W == From(w)
           S == {i \in 1 .. n : V[i] = W[i]}
<1>1. n \in Int /\ n >= 1 /\ n > Len(v) /\ n > Len(w)
  BY LengthIs
<1>2. ASSUME NEW i \in Int, i >= 1
      PROVE  /\ V[i] = WordAt(v, i) + WordBase * V[i + 1] /\ (i > Len(v) => V[i] = 0)
             /\ W[i] = WordAt(w, i) + WordBase * W[i + 1] /\ (i > Len(w) => W[i] = 0)
  BY <1>2, FromAt
<1>3. V[1] = Magnitude(v) /\ W[1] = Magnitude(w)
  BY FromFirst
<1> HIDE DEF V, W, n
<1>4. n \in S
  BY <1>1, <1>2
<1>5. ASSUME NEW i \in 1 .. n - 1, i + 1 \in S PROVE i \in S
  <2>1. i \in Nat \ {0} /\ i \in 1 .. n
    BY <1>1
  <2> QED
    BY <2>1, <1>2, <1>5
<1>6. 1 \in S
  <2> HIDE DEF S
  <2>1. n \in Int
    BY <1>1
  <2>2. \A i \in 1 .. n : i \in S
    BY <2>1, <1>4, <1>5, Downwards
  <2> QED
    BY <2>2, <1>1
<1> QED
  BY <1>3, <1>6

-----------------------------------------------------------------------------
(***************************************************************************)
(* Carries.                                                                *)
(***************************************************************************)
\* A number, the word that stays and what is carried.
LEMMA Divided ==
  ASSUME NEW a \in Int
  PROVE  /\ a \div WordBase \in Int /\ a % WordBase \in Int /\ a % WordBase \in Digit
         /\ 0 <= a % WordBase /\ a % WordBase < WordBase
         /\ a = (a % WordBase) + WordBase * (a \div WordBase)
<1>1. WordBase \in Nat /\ WordBase > 0
  BY WidthFacts
<1> QED
  BY <1>1 DEF Digit

\* What is carried is small when what is divided is.
LEMMA DividedBelow ==
  ASSUME NEW a \in Int, NEW k \in Int, a < WordBase * k
  PROVE  a \div WordBase < k
<1>1. WordBase \in Int /\ WordBase > 0
  BY WidthFacts
<1>2. \A q \in Int : q >= k => WordBase * q >= WordBase * k
  BY <1>1
<1>3. a \div WordBase \in Int /\ a >= WordBase * (a \div WordBase)
  BY <1>1, Divided
<1> QED
  BY <1>1, <1>2, <1>3

\* What is carried is not less than what is divided allows.
LEMMA DividedAbove ==
  ASSUME NEW a \in Int, NEW k \in Int, a >= WordBase * k
  PROVE  a \div WordBase >= k
<1>1. WordBase \in Int /\ WordBase > 0
  BY WidthFacts
<1>2. \A q \in Int : q < k => WordBase * q + WordBase <= WordBase * k
  BY <1>1
<1>3. a \div WordBase \in Int /\ a < WordBase * (a \div WordBase) + WordBase
  BY <1>1, Divided
<1> QED
  BY <1>1, <1>2, <1>3

\* The carries into the positions of any column of numbers.
LEMMA CarriesExist ==
  ASSUME NEW m \in Int, NEW n \in Int, m <= n, NEW x \in [Int -> Int]
  PROVE  \E c \in [m .. n -> Int] :
           c[m] = 0 /\ \A i \in m + 1 .. n : c[i] = (x[i - 1] + c[i - 1]) \div WordBase
<1> DEFINE next == [i \in m + 1 .. n |-> [v \in Int |-> (x[i - 1] + v) \div WordBase]]
<1>1. next \in Steps(Int, m, n)
  <2>1. ASSUME NEW i \in m + 1 .. n, NEW v \in Int PROVE (x[i - 1] + v) \div WordBase \in Int
    <3>1. x[i - 1] + v \in Int
      OBVIOUS
    <3> QED
      BY <3>1, Divided
  <2> QED
    BY <2>1 DEF Steps
<1>2. PICK c \in [m .. n -> Int] : Recurs(c, m, n, 0, next)
  <2> HIDE DEF next
  <2>1. 0 \in Int
    OBVIOUS
  <2> QED
    BY <2>1, <1>1, RecursionExists, Zenon
<1>3. c[m] = 0
  BY <1>2 DEF Recurs
<1>4. ASSUME NEW i \in m + 1 .. n PROVE c[i] = (x[i - 1] + c[i - 1]) \div WordBase
  <2>1. c[i] = next[i][c[i - 1]]
    BY <1>2 DEF Recurs
  <2>2. i - 1 \in m .. n
    OBVIOUS
  <2>3. c[i - 1] \in Int
    BY <2>2
  <2> QED
    BY <2>1, <2>3
<1> QED
  BY <1>3, <1>4

-----------------------------------------------------------------------------
(***************************************************************************)
(* The sum of two magnitudes.                                              *)
(***************************************************************************)
\* The words the sum of two magnitudes has, but for a carry.
Count(l, r) == MaxOf(Len(l), Len(r))

\* The function Carries is defined with.
IsCarries(l, r, c) ==
  c = [i \in 1 .. Count(l, r) + 1 |->
         IF i = 1 THEN 0
         ELSE (WordAt(l, i - 1) + WordAt(r, i - 1) + c[i - 1]) \div WordBase]

\* Carries is that function.
LEMMA CarriesIs ==
  ASSUME NEW l \in WordSeqs, NEW r \in WordSeqs
  PROVE  IsCarries(l, r, Carries(l, r))
<1> DEFINE n == Count(l, r)
           x == [i \in Int |-> WordAt(l, i) + WordAt(r, i)]
<1>1. n \in Nat
  BY LengthIs DEF Count, MaxOf
<1>2. \A i \in Int : WordAt(l, i) \in Int /\ WordAt(r, i) \in Int
  BY WordAtIs
<1>3. x \in [Int -> Int]
  BY <1>2
<1>4. PICK c \in [1 .. n + 1 -> Int] :
        c[1] = 0 /\ \A i \in 1 + 1 .. n + 1 : c[i] = (x[i - 1] + c[i - 1]) \div WordBase
  <2> HIDE DEF x
  <2>1. 1 \in Int /\ n + 1 \in Int /\ 1 <= n + 1
    BY <1>1
  <2> QED
    BY <2>1, <1>3, CarriesExist, Zenon
<1>5. ASSUME NEW i \in 1 .. n + 1
      PROVE  c[i] = IF i = 1 THEN 0
                    ELSE (WordAt(l, i - 1) + WordAt(r, i - 1) + c[i - 1]) \div WordBase
  <2>1. CASE i = 1
    BY <2>1, <1>4
  <2>2. CASE i # 1
    <3>1. i \in 1 + 1 .. n + 1 /\ i - 1 \in Int
      BY <2>2, <1>1
    <3>2. c[i] = (x[i - 1] + c[i - 1]) \div WordBase
      BY <3>1, <1>4
    <3>3. x[i - 1] = WordAt(l, i - 1) + WordAt(r, i - 1)
      BY <3>1
    <3> QED
      BY <3>2, <3>3, <2>2
  <2> QED
    BY <2>1, <2>2
<1>6. IsCarries(l, r, c)
  BY <1>5 DEF IsCarries
<1>7. \E e : IsCarries(l, r, e)
  BY <1>6
<1>8. IsCarries(l, r, CHOOSE e : IsCarries(l, r, e))
  BY <1>7, Zenon
<1>9. Carries(l, r) = CHOOSE e : IsCarries(l, r, e)
  BY Zenon DEF Carries, IsCarries, Count
<1> QED
  BY <1>8, <1>9

\* The carry into a word is that out of the word below.
LEMMA CarryOf ==
  ASSUME NEW l \in WordSeqs, NEW r \in WordSeqs
  PROVE  /\ Carries(l, r)[1] = 0
         /\ \A i \in 1 .. Count(l, r) :
              Carries(l, r)[i + 1]
                = (WordAt(l, i) + WordAt(r, i) + Carries(l, r)[i]) \div WordBase
<1> DEFINE n == Count(l, r)
           c == Carries(l, r)
<1>1. n \in Nat
  BY LengthIs DEF Count, MaxOf
<1>2. c = [i \in 1 .. n + 1 |->
             IF i = 1 THEN 0
             ELSE (WordAt(l, i - 1) + WordAt(r, i - 1) + c[i - 1]) \div WordBase]
  BY CarriesIs DEF IsCarries
<1> HIDE DEF c, n
<1>3. ASSUME NEW i \in 1 .. n
      PROVE  c[i + 1] = (WordAt(l, i) + WordAt(r, i) + c[i]) \div WordBase
  <2>1. i + 1 \in 1 .. n + 1 /\ i + 1 # 1 /\ (i + 1) - 1 = i
    BY <1>1
  <2> QED
    BY <1>2, <2>1
<1>4. c[1] = 0
  BY <1>1, <1>2
<1> QED
  BY <1>3, <1>4 DEF c, n

\* Never more than one is carried.
LEMMA CarryIsSmall ==
  ASSUME NEW l \in WordSeqs, NEW r \in WordSeqs, NEW k \in 1 .. Count(l, r) + 1
  PROVE  Carries(l, r)[k] \in {0, 1}
<1> DEFINE n == Count(l, r)
           c == Carries(l, r)
           S == {i \in 1 .. n + 1 : c[i] \in {0, 1}}
<1>1. n \in Nat /\ WordBase \in Nat
  BY LengthIs, WidthFacts DEF Count, MaxOf
<1>2. c[1] = 0 /\ \A i \in 1 .. n :
                    c[i + 1] = (WordAt(l, i) + WordAt(r, i) + c[i]) \div WordBase
  BY CarryOf
<1> HIDE DEF c, n
<1>3. 1 \in S
  BY <1>1, <1>2
<1>4. ASSUME NEW i \in 1 .. (n + 1) - 1, i \in S PROVE i + 1 \in S
  <2> DEFINE a == WordAt(l, i) + WordAt(r, i) + c[i]
  <2>1. i \in 1 .. n /\ i + 1 \in 1 .. n + 1 /\ c[i] \in 0 .. 1
    BY <1>1, <1>4
  <2>2. /\ WordAt(l, i) \in Int /\ 0 <= WordAt(l, i) /\ WordAt(l, i) < WordBase
        /\ WordAt(r, i) \in Int /\ 0 <= WordAt(r, i) /\ WordAt(r, i) < WordBase
    BY WordAtIs
  <2>3. a \in Int /\ a < WordBase * 2 /\ a >= WordBase * 0
    BY <1>1, <2>1, <2>2
  <2>4. c[i + 1] = a \div WordBase
    BY <2>1, <1>2
  <2> HIDE DEF a
  <2>5. a \div WordBase < 2 /\ a \div WordBase >= 0 /\ a \div WordBase \in Int
    BY <2>3, Divided, DividedBelow, DividedAbove
  <2> QED
    BY <2>1, <2>4, <2>5
<1>5. \A i \in 1 .. n + 1 : i \in S
  <2> HIDE DEF S
  <2>1. n + 1 \in Int
    BY <1>1
  <2> QED
    BY <2>1, <1>3, <1>4, Upwards
<1> QED
  BY <1>5 DEF c, n

\* One position of an addition, and of a subtraction with borrows that are negative.
LEMMA StepOfSum ==
  ASSUME NEW b \in Int, NEW lw \in Int, NEW rw \in Int, NEW sw \in Int,
         NEW l \in Int, NEW r \in Int, NEW s \in Int, NEW c \in Int, NEW d \in Int,
         lw + rw + c = sw + b * d, s = l + r + d
  PROVE  sw + b * s = (lw + b * l) + (rw + b * r) + c
<1>1. b * s = b * l + b * r + b * d
  OBVIOUS
<1>2. b * l \in Int /\ b * r \in Int /\ b * d \in Int
  OBVIOUS
<1> QED
  BY <1>1, <1>2

\* The sum of sumInto is made of words, as many as there are and the last carry.
LEMMA SumWords ==
  ASSUME NEW l \in WordSeqs, NEW r \in WordSeqs
  PROVE  /\ sumInto(l, r) \in WordSeqs
         /\ Len(sumInto(l, r)) = Count(l, r) + Carries(l, r)[Count(l, r) + 1]
         /\ \A i \in 1 .. Len(sumInto(l, r)) :
              sumInto(l, r)[i] = (WordAt(l, i) + WordAt(r, i) + Carries(l, r)[i]) % WordBase
<1> DEFINE n == Count(l, r)
           c == Carries(l, r)
           m == n + c[n + 1]
           s == sumInto(l, r)
<1>1. n \in Nat
  BY LengthIs DEF Count, MaxOf
<1>2. \A i \in 1 .. n + 1 : c[i] \in {0, 1}
  BY CarryIsSmall
<1>3. s = [i \in 1 .. m |-> (WordAt(l, i) + WordAt(r, i) + c[i]) % WordBase]
  BY DEF sumInto, Count
<1> HIDE DEF c, n, s
<1>4. m \in Nat /\ m <= n + 1
  BY <1>1, <1>2
<1>5. ASSUME NEW i \in 1 .. m
      PROVE  (WordAt(l, i) + WordAt(r, i) + c[i]) % WordBase \in Digit
  <2>1. i \in 1 .. n + 1
    BY <1>1, <1>4
  <2>2. c[i] \in Int
    BY <2>1, <1>2
  <2>3. WordAt(l, i) \in Int /\ WordAt(r, i) \in Int
    BY WordAtIs
  <2>4. WordAt(l, i) + WordAt(r, i) + c[i] \in Int
    BY <2>2, <2>3
  <2> QED
    BY <2>4, Divided
<1> HIDE DEF m
<1>6. s \in [1 .. m -> Digit]
  BY <1>3, <1>5
<1>7. s \in Seq(Digit) /\ Len(s) = m
  BY <1>4, <1>6
<1> QED
  BY <1>3, <1>7 DEF WordSeqs, s, m, c, n

\* sumInto adds: the magnitude of its words is the sum of the magnitudes. From the
\* top word down, the tail of the sum is the sum of the tails and the carry.
LEMMA SumIs ==
  ASSUME NEW l \in WordSeqs, NEW r \in WordSeqs
  PROVE  /\ sumInto(l, r) \in WordSeqs
         /\ Len(sumInto(l, r)) >= Len(l)
         /\ Magnitude(sumInto(l, r)) = Magnitude(l) + Magnitude(r)
<1> DEFINE n == Count(l, r)
           c == Carries(l, r)
           s == sumInto(l, r)
           L == From(l)
           R == From(r)
           F == From(s)
           S == {i \in 1 .. n + 1 : F[i] = L[i] + R[i] + c[i]}
<1>1. /\ n \in Nat /\ n >= Len(l) /\ n >= Len(r) /\ Len(l) \in Nat /\ Len(r) \in Nat
      /\ WordBase \in Nat /\ WordBase >= 2
  BY LengthIs, WidthFacts DEF Count, MaxOf
<1>2. s \in WordSeqs /\ Len(s) = n + c[n + 1]
  BY SumWords
<1>3. ASSUME NEW i \in 1 .. Len(s) PROVE s[i] = (WordAt(l, i) + WordAt(r, i) + c[i]) % WordBase
  BY SumWords
<1>4. c[1] = 0 /\ \A i \in 1 .. n :
                    c[i + 1] = (WordAt(l, i) + WordAt(r, i) + c[i]) \div WordBase
  BY CarryOf
<1>5. \A i \in 1 .. n + 1 : c[i] \in {0, 1}
  BY CarryIsSmall
<1> HIDE DEF c, s, n
<1>6. ASSUME NEW i \in Int, i >= 1
      PROVE  /\ L[i] = WordAt(l, i) + WordBase * L[i + 1] /\ (i > Len(l) => L[i] = 0)
             /\ R[i] = WordAt(r, i) + WordBase * R[i + 1] /\ (i > Len(r) => R[i] = 0)
             /\ F[i] = WordAt(s, i) + WordBase * F[i + 1] /\ (i > Len(s) => F[i] = 0)
             /\ L[i] \in Nat /\ R[i] \in Nat /\ F[i] \in Nat
             /\ L[i + 1] \in Nat /\ R[i + 1] \in Nat /\ F[i + 1] \in Nat
  BY <1>2, <1>6, FromAt
<1>7. L[1] = Magnitude(l) /\ R[1] = Magnitude(r) /\ F[1] = Magnitude(s)
  BY <1>2, FromFirst
<1> HIDE DEF L, R, F
<1>8. c[n + 1] \in {0, 1} /\ Len(s) \in Nat
  BY <1>1, <1>2, <1>5
<1>9. n + 1 \in S
  <2>1. L[n + 1] = 0 /\ R[n + 1] = 0
    BY <1>1, <1>6
  <2>2. CASE c[n + 1] = 0
    <3>1. F[n + 1] = 0
      BY <2>2, <1>1, <1>2, <1>6
    <3> QED
      BY <2>1, <2>2, <3>1, <1>1
  <2>3. CASE c[n + 1] = 1
    <3>1. WordAt(l, n + 1) = 0 /\ WordAt(r, n + 1) = 0
      <4>1. n + 1 \in Int /\ n + 1 \notin 1 .. Len(l) /\ n + 1 \notin 1 .. Len(r)
        BY <1>1
      <4> QED
        BY <4>1, WordAtIs
    <3>2. n + 1 \in 1 .. Len(s) /\ n + 1 \in Int
      BY <2>3, <1>1, <1>2
    <3>3. s[n + 1] = (0 + 0 + 1) % WordBase
      BY <3>1, <3>2, <2>3, <1>3
    <3>4. (0 + 0 + 1) % WordBase = 1
      BY <1>1
    <3>5. WordAt(s, n + 1) = 1
      BY <3>2, <3>3, <3>4, <1>2, WordAtIs
    <3>6. F[n + 1] = WordAt(s, n + 1) + WordBase * F[(n + 1) + 1]
      BY <1>1, <1>6
    <3>7. F[(n + 1) + 1] = 0
      <4>1. (n + 1) + 1 \in Int /\ (n + 1) + 1 >= 1 /\ (n + 1) + 1 > Len(s)
        BY <1>1, <1>2, <2>3
      <4> QED
        BY <4>1, <1>6
    <3>8. F[n + 1] = 1
      BY <3>5, <3>6, <3>7, <1>1
    <3> QED
      BY <2>1, <2>3, <3>8, <1>1
  <2> QED
    BY <2>2, <2>3, <1>8
<1>10. ASSUME NEW i \in 1 .. (n + 1) - 1, i + 1 \in S PROVE i \in S
  <2> DEFINE a == WordAt(l, i) + WordAt(r, i) + c[i]
  <2>1. /\ i \in Int /\ i >= 1 /\ i \in 1 .. n /\ i \in 1 .. n + 1 /\ i \in 1 .. Len(s)
        /\ i + 1 \in 1 .. n + 1
    BY <1>1, <1>2, <1>8
  <2>2. /\ L[i] = WordAt(l, i) + WordBase * L[i + 1]
        /\ R[i] = WordAt(r, i) + WordBase * R[i + 1]
        /\ F[i] = WordAt(s, i) + WordBase * F[i + 1]
        /\ L[i + 1] \in Int /\ R[i + 1] \in Int /\ F[i + 1] \in Int
    <3>1. i \in Int /\ i >= 1
      BY <2>1
    <3>2. /\ L[i] = WordAt(l, i) + WordBase * L[i + 1]
          /\ R[i] = WordAt(r, i) + WordBase * R[i + 1]
          /\ F[i] = WordAt(s, i) + WordBase * F[i + 1]
      BY <3>1, <1>6
    <3>3. L[i + 1] \in Nat /\ R[i + 1] \in Nat /\ F[i + 1] \in Nat
      BY <3>1, <1>6
    <3> QED
      BY <3>2, <3>3
  <2>3. F[i + 1] = L[i + 1] + R[i + 1] + c[i + 1]
    BY <1>10
  <2>4. WordAt(s, i) = a % WordBase /\ c[i + 1] = a \div WordBase
    BY <2>1, <1>2, <1>3, <1>4, WordAtIs
  <2>5. /\ WordAt(l, i) \in Int /\ WordAt(r, i) \in Int /\ WordAt(s, i) \in Int
        /\ c[i] \in Int /\ c[i + 1] \in Int
    <3>1. c[i] \in {0, 1} /\ c[i + 1] \in {0, 1}
      BY <2>1, <1>5
    <3>2. i \in Int
      BY <2>1
    <3>3. WordAt(l, i) \in Int /\ WordAt(r, i) \in Int
      BY <3>2, WordAtIs
    <3>4. WordAt(s, i) \in Int
      BY <3>2, <1>2, WordAtIs
    <3> QED
      BY <3>1, <3>3, <3>4
  <2>6. a = WordAt(s, i) + WordBase * c[i + 1]
    <3>1. a \in Int
      BY <2>5
    <3> HIDE DEF a
    <3>2. a = (a % WordBase) + WordBase * (a \div WordBase)
      BY <3>1, Divided
    <3> QED
      BY <2>4, <3>2
  <2>7. F[i] = L[i] + R[i] + c[i]
    <3>1. WordBase \in Int
      BY <1>1
    <3>2. WordAt(s, i) + WordBase * F[i + 1]
            = (WordAt(l, i) + WordBase * L[i + 1]) + (WordAt(r, i) + WordBase * R[i + 1]) + c[i]
      BY <3>1, <2>2, <2>3, <2>5, <2>6, StepOfSum
    <3> QED
      BY <3>2, <2>2
  <2> QED
    BY <2>1, <2>7
<1>11. 1 \in S
  <2> HIDE DEF S
  <2>1. n + 1 \in Int
    BY <1>1
  <2>2. \A i \in 1 .. n + 1 : i \in S
    BY <2>1, <1>9, <1>10, Downwards
  <2> QED
    BY <2>2, <1>1
<1>12. F[1] = L[1] + R[1]
  <2>1. F[1] = L[1] + R[1] + 0 /\ L[1] \in Nat /\ R[1] \in Nat
    BY <1>4, <1>6, <1>11
  <2> QED
    BY <2>1
<1>13. Len(s) >= Len(l)
  BY <1>1, <1>2, <1>8
<1> QED
  BY <1>2, <1>7, <1>12, <1>13 DEF s

-----------------------------------------------------------------------------
(***************************************************************************)
(* The difference of two magnitudes, and their order.                      *)
(***************************************************************************)
\* At k is the highest word in which l and r differ, and l has the larger one.
Exceeds(l, r, k) ==
  /\ k \in Nat \ {0} /\ WordAt(l, k) > WordAt(r, k)
  /\ \A i \in Nat \ {0} : i > k => WordAt(l, i) = WordAt(r, i)

\* The same words, but for zero words at the top.
Same(l, r) == \A i \in Nat \ {0} : WordAt(l, i) = WordAt(r, i)

\* compareMagnitudes finds the highest word in which two magnitudes differ.
LEMMA CompareIs ==
  ASSUME NEW l \in WordSeqs, NEW r \in WordSeqs
  PROVE  \/ compareMagnitudes(l, r) = 0 /\ Same(l, r)
         \/ compareMagnitudes(l, r) = 1 /\ \E k : Exceeds(l, r, k)
         \/ compareMagnitudes(l, r) = -1 /\ \E k : Exceeds(r, l, k)
<1> DEFINE n == Len(l) + Len(r)
           D == {i \in DOMAIN l \cup DOMAIN r : WordAt(l, i) # WordAt(r, i)}
           top == Max(D)
<1>1. /\ n \in Nat /\ Len(l) \in Nat /\ Len(r) \in Nat
      /\ DOMAIN l = 1 .. Len(l) /\ DOMAIN r = 1 .. Len(r)
  BY LengthIs
<1>2. ASSUME NEW i \in Nat \ {0}, i \notin D PROVE WordAt(l, i) = WordAt(r, i)
  <2>1. CASE i \in DOMAIN l \cup DOMAIN r
    BY <2>1, <1>2
  <2>2. CASE i \notin DOMAIN l \cup DOMAIN r
    <3>1. i \in Int /\ i \notin 1 .. Len(l) /\ i \notin 1 .. Len(r)
      BY <2>2, <1>1
    <3> QED
      BY <3>1, WordAtIs
  <2> QED
    BY <2>1, <2>2
<1>3. CASE D = {}
  <2>1. compareMagnitudes(l, r) = 0
    BY <1>3, Zenon DEF compareMagnitudes
  <2> QED
    BY <2>1, <1>2, <1>3 DEF Same
<1>4. CASE D # {}
  <2>1. top \in D /\ \A i \in D : i <= top
    <3>1. D \subseteq 0 .. n
      BY <1>1
    <3> HIDE DEF D, n
    <3> QED
      BY <3>1, <1>1, <1>4, MaxIsMember
  <2>2. compareMagnitudes(l, r)
          = CASE D = {} -> 0
              [] D # {} /\ WordAt(l, top) < WordAt(r, top) -> -1
              [] D # {} /\ WordAt(l, top) > WordAt(r, top) -> 1
    BY Zenon DEF compareMagnitudes
  <2>3. top \in Nat \ {0} /\ top \in Int /\ WordAt(l, top) # WordAt(r, top)
    BY <2>1, <1>1
  <2>4. WordAt(l, top) \in Int /\ WordAt(r, top) \in Int
    <3> HIDE DEF top
    <3> QED
      BY <2>3, WordAtIs
  <2>5. \A i \in Nat \ {0} : i > top => WordAt(l, i) = WordAt(r, i)
    <3> HIDE DEF D, top
    <3>1. ASSUME NEW i \in Nat \ {0}, i > top PROVE i \notin D
      BY <2>1, <2>3, <3>1
    <3> QED
      BY <1>2, <3>1
  <2> HIDE DEF D, top
  <2>6. CASE WordAt(l, top) < WordAt(r, top)
    <3>1. compareMagnitudes(l, r) = -1
      BY <2>2, <2>4, <2>6, <1>4
    <3>2. Exceeds(r, l, top)
      BY <2>3, <2>4, <2>5, <2>6 DEF Exceeds
    <3> QED
      BY <3>1, <3>2
  <2>7. CASE WordAt(l, top) > WordAt(r, top)
    <3>1. compareMagnitudes(l, r) = 1
      BY <2>2, <2>4, <2>7, <1>4
    <3>2. Exceeds(l, r, top)
      BY <2>3, <2>4, <2>5, <2>7 DEF Exceeds
    <3> QED
      BY <3>1, <3>2
  <2> QED
    BY <2>3, <2>4, <2>6, <2>7
<1> QED
  BY <1>3, <1>4

\* The same words are one number.
LEMMA SameMagnitude ==
  ASSUME NEW l \in WordSeqs, NEW r \in WordSeqs, Same(l, r)
  PROVE  Magnitude(l) = Magnitude(r)
BY SameWordsSameMagnitude DEF Same

\* A magnitude is a natural number.
LEMMA MagnitudeIsNat ==
  ASSUME NEW w \in WordSeqs
  PROVE  Magnitude(w) \in Nat
<1>1. From(w)[1] \in Nat
  BY FromAt
<1> QED
  BY <1>1, FromFirst

\* The words above the highest that differs stand for one number.
LEMMA SameAbove ==
  ASSUME NEW l \in WordSeqs, NEW r \in WordSeqs, NEW k, Exceeds(l, r, k),
         NEW j \in Int, j > k
  PROVE  From(l)[j] = From(r)[j]
<1> DEFINE n == Len(l) + Len(r) + j + 1
           L == From(l)
           R == From(r)
           A == {i \in k + 1 .. n : L[i] = R[i]}
<1>1. /\ k \in Int /\ k >= 1 /\ n \in Int /\ j \in k + 1 .. n /\ n > Len(l) /\ n > Len(r)
      /\ n \in k + 1 .. n
  BY LengthIs DEF Exceeds
<1>2. ASSUME NEW i \in Int, i >= 1
      PROVE  /\ L[i] = WordAt(l, i) + WordBase * L[i + 1] /\ (i > Len(l) => L[i] = 0)
             /\ R[i] = WordAt(r, i) + WordBase * R[i + 1] /\ (i > Len(r) => R[i] = 0)
  BY <1>2, FromAt
<1> HIDE DEF L, R, n
<1>3. n \in A
  <2>1. n \in Int /\ n >= 1
    BY <1>1
  <2>2. L[n] = 0 /\ R[n] = 0
    BY <2>1, <1>1, <1>2
  <2> QED
    BY <2>2, <1>1
<1>4. ASSUME NEW i \in k + 1 .. n - 1, i + 1 \in A PROVE i \in A
  <2>1. i \in Nat \ {0} /\ i \in k + 1 .. n /\ i > k /\ i \in Int /\ i >= 1
    BY <1>1
  <2>2. WordAt(l, i) = WordAt(r, i)
    BY <2>1 DEF Exceeds
  <2>3. L[i + 1] = R[i + 1]
    BY <1>4
  <2>4. L[i] = R[i]
    BY <2>1, <2>2, <2>3, <1>2
  <2> QED
    BY <2>1, <2>4
<1>5. \A i \in k + 1 .. n : i \in A
  <2> HIDE DEF A
  <2>1. n \in Int /\ k + 1 \in Int
    BY <1>1
  <2> QED
    BY <2>1, <1>3, <1>4, Downwards
<1>6. j \in A
  BY <1>1, <1>5
<1> QED
  BY <1>6 DEF L, R

\* What has the larger of the highest words that differ has the larger magnitude.
LEMMA ExceedsIsLarger ==
  ASSUME NEW l \in WordSeqs, NEW r \in WordSeqs, NEW k, Exceeds(l, r, k)
  PROVE  Magnitude(l) > Magnitude(r)
<1> DEFINE L == From(l)
           R == From(r)
           S == {i \in 1 .. k : L[i] > R[i]}
<1>1. k \in Int /\ k >= 1 /\ WordBase \in Nat
  BY WidthFacts DEF Exceeds
<1>2. ASSUME NEW i \in Int, i >= 1
      PROVE  /\ L[i] = WordAt(l, i) + WordBase * L[i + 1]
             /\ R[i] = WordAt(r, i) + WordBase * R[i + 1]
             /\ L[i] \in Nat /\ R[i] \in Nat /\ L[i + 1] \in Nat /\ R[i + 1] \in Nat
  BY <1>2, FromAt
<1>3. L[1] = Magnitude(l) /\ R[1] = Magnitude(r)
  BY FromFirst
<1>4. L[k + 1] = R[k + 1]
  <2>1. k + 1 \in Int /\ k + 1 > k
    BY <1>1
  <2> QED
    BY <2>1, SameAbove
<1> HIDE DEF L, R
<1>5. ASSUME NEW i \in Int, i >= 1
      PROVE  /\ WordAt(l, i) \in Int /\ 0 <= WordAt(l, i) /\ WordAt(l, i) < WordBase
             /\ WordAt(r, i) \in Int /\ 0 <= WordAt(r, i) /\ WordAt(r, i) < WordBase
  BY WordAtIs
<1>6. k \in S
  <2>1. /\ L[k] = WordAt(l, k) + WordBase * L[k + 1]
        /\ R[k] = WordAt(r, k) + WordBase * R[k + 1] /\ L[k + 1] \in Nat
    BY <1>1, <1>2
  <2>2. WordBase * L[k + 1] \in Int /\ WordBase * R[k + 1] = WordBase * L[k + 1]
    BY <2>1, <1>1, <1>4
  <2>3. WordAt(l, k) \in Int /\ WordAt(r, k) \in Int /\ WordAt(l, k) > WordAt(r, k)
    BY <1>1, <1>5 DEF Exceeds
  <2>4. L[k] > R[k]
    BY <2>1, <2>2, <2>3
  <2> QED
    BY <2>4, <1>1
<1>7. ASSUME NEW i \in 1 .. k - 1, i + 1 \in S PROVE i \in S
  <2>1. i \in Int /\ i >= 1 /\ i \in 1 .. k
    BY <1>1
  <2>2. L[i + 1] > R[i + 1]
    BY <1>7
  <2>3. /\ L[i] = WordAt(l, i) + WordBase * L[i + 1] /\ L[i + 1] \in Nat
        /\ R[i] = WordAt(r, i) + WordBase * R[i + 1] /\ R[i + 1] \in Nat
    BY <2>1, <1>2
  <2>4. \A x, y \in Nat : x > y => WordBase * x >= WordBase * y + WordBase
    BY <1>1
  <2>5. WordBase * L[i + 1] >= WordBase * R[i + 1] + WordBase
    BY <2>2, <2>3, <2>4
  <2>6. \A x \in Nat : WordBase * x \in Int
    BY <1>1
  <2>7. WordBase * L[i + 1] \in Int /\ WordBase * R[i + 1] \in Int
    BY <2>3, <2>6
  <2>8. WordAt(l, i) \in Int /\ WordAt(r, i) \in Int /\ 0 <= WordAt(l, i) /\ WordAt(r, i) < WordBase
    BY <2>1, <1>5
  <2>9. \A a, b, p, q, d \in Int :
          p >= q + d /\ 0 <= a /\ b < d => a + p > b + q
    OBVIOUS
  <2>10. WordAt(l, i) + WordBase * L[i + 1] > WordAt(r, i) + WordBase * R[i + 1]
    BY <2>5, <2>7, <2>8, <2>9, <1>1
  <2>11. L[i] > R[i]
    BY <2>3, <2>10
  <2> QED
    BY <2>1, <2>11
<1>8. 1 \in S
  <2> HIDE DEF S
  <2>1. \A i \in 1 .. k : i \in S
    BY <1>1, <1>6, <1>7, Downwards
  <2> QED
    BY <2>1, <1>1
<1> QED
  BY <1>3, <1>8

\* The function subtractFromInto is defined with.
IsBorrow(l, r, c) ==
  c = [i \in 1 .. Len(l) |->
         IF i = 1 THEN 0
         ELSE (WordAt(l, i - 1) - WordAt(r, i - 1) + c[i - 1]) \div WordBase]

Borrow(l, r) == CHOOSE c : IsBorrow(l, r, c)

\* It exists.
LEMMA BorrowExists ==
  ASSUME NEW l \in WordSeqs, NEW r \in WordSeqs, Len(l) >= 1
  PROVE  \E c : IsBorrow(l, r, c)
<1> DEFINE n == Len(l)
           x == [i \in Int |-> WordAt(l, i) - WordAt(r, i)]
<1>1. n \in Nat /\ n >= 1
  BY LengthIs
<1>2. ASSUME NEW i \in Int PROVE WordAt(l, i) \in Int /\ WordAt(r, i) \in Int
  <2>1. WordAt(l, i) \in Nat
    BY WordAtIs
  <2>2. WordAt(r, i) \in Nat
    BY WordAtIs
  <2> QED
    BY <2>1, <2>2
<1>3. x \in [Int -> Int]
  BY <1>2
<1>4. PICK c \in [1 .. n -> Int] :
        c[1] = 0 /\ \A i \in 1 + 1 .. n : c[i] = (x[i - 1] + c[i - 1]) \div WordBase
  <2> HIDE DEF x
  <2>1. 1 \in Int /\ n \in Int /\ 1 <= n
    BY <1>1
  <2> QED
    BY <2>1, <1>3, CarriesExist, Zenon
<1>5. ASSUME NEW i \in 1 .. n
      PROVE  c[i] = IF i = 1 THEN 0
                    ELSE (WordAt(l, i - 1) - WordAt(r, i - 1) + c[i - 1]) \div WordBase
  <2>1. CASE i = 1
    BY <2>1, <1>4
  <2>2. CASE i # 1
    <3>1. i \in 1 + 1 .. n /\ i - 1 \in Int
      BY <2>2, <1>1
    <3>2. c[i] = (x[i - 1] + c[i - 1]) \div WordBase
      BY <3>1, <1>4
    <3>3. x[i - 1] = WordAt(l, i - 1) - WordAt(r, i - 1)
      BY <3>1
    <3> QED
      BY <3>2, <3>3, <2>2
  <2> QED
    BY <2>1, <2>2
<1> QED
  BY <1>5 DEF IsBorrow

\* The borrow into a word is that out of the word below.
LEMMA BorrowOf ==
  ASSUME NEW l \in WordSeqs, NEW r \in WordSeqs, Len(l) >= 1
  PROVE  /\ subtractFromInto(l, r)
              = [i \in 1 .. Len(l) |-> (l[i] - WordAt(r, i) + Borrow(l, r)[i]) % WordBase]
         /\ Borrow(l, r)[1] = 0
         /\ \A i \in 1 .. Len(l) - 1 :
              Borrow(l, r)[i + 1]
                = (WordAt(l, i) - WordAt(r, i) + Borrow(l, r)[i]) \div WordBase
<1> DEFINE n == Len(l)
           c == Borrow(l, r)
<1>1. n \in Nat /\ n >= 1
  BY LengthIs
<1>2. IsBorrow(l, r, c)
  <2>1. \E e : IsBorrow(l, r, e)
    BY BorrowExists
  <2> QED
    BY <2>1, Zenon DEF Borrow
<1>3. subtractFromInto(l, r) = [i \in 1 .. Len(l) |-> (l[i] - WordAt(r, i) + c[i]) % WordBase]
  BY Zenon DEF subtractFromInto, Borrow, IsBorrow
<1>4. c = [i \in 1 .. n |->
             IF i = 1 THEN 0
             ELSE (WordAt(l, i - 1) - WordAt(r, i - 1) + c[i - 1]) \div WordBase]
  BY <1>2 DEF IsBorrow
<1> HIDE DEF c, n
<1>5. ASSUME NEW i \in 1 .. n - 1
      PROVE  c[i + 1] = (WordAt(l, i) - WordAt(r, i) + c[i]) \div WordBase
  <2>1. i + 1 \in 1 .. n /\ i + 1 # 1 /\ (i + 1) - 1 = i
    BY <1>1
  <2> QED
    BY <1>4, <2>1
<1>6. c[1] = 0
  BY <1>1, <1>4
<1> QED
  BY <1>3, <1>5, <1>6 DEF c, n

\* The borrows out of every word, those out of the last one included.
Borrows(l, r) ==
  [i \in 1 .. Len(l) + 1 |->
     IF i <= Len(l) THEN Borrow(l, r)[i]
     ELSE (WordAt(l, Len(l)) - WordAt(r, Len(l)) + Borrow(l, r)[Len(l)]) \div WordBase]

\* The words of subtractFromInto, and the borrows out of each.
LEMMA BorrowsOf ==
  ASSUME NEW l \in WordSeqs, NEW r \in WordSeqs, Len(l) >= 1
  PROVE  /\ subtractFromInto(l, r)
              = [i \in 1 .. Len(l) |->
                   (WordAt(l, i) - WordAt(r, i) + Borrows(l, r)[i]) % WordBase]
         /\ Borrows(l, r)[1] = 0
         /\ \A i \in 1 .. Len(l) :
              Borrows(l, r)[i + 1]
                = (WordAt(l, i) - WordAt(r, i) + Borrows(l, r)[i]) \div WordBase
<1> DEFINE n == Len(l)
           c == Borrow(l, r)
           e == Borrows(l, r)
<1>1. n \in Nat /\ n >= 1
  BY LengthIs
<1>2. /\ subtractFromInto(l, r) = [i \in 1 .. n |-> (l[i] - WordAt(r, i) + c[i]) % WordBase]
      /\ c[1] = 0
      /\ \A i \in 1 .. n - 1 : c[i + 1] = (WordAt(l, i) - WordAt(r, i) + c[i]) \div WordBase
  BY BorrowOf
<1>3. e = [i \in 1 .. n + 1 |->
             IF i <= n THEN c[i] ELSE (WordAt(l, n) - WordAt(r, n) + c[n]) \div WordBase]
  BY DEF Borrows
<1>4. \A i \in 1 .. n : WordAt(l, i) = l[i]
  BY WordAtIs
<1> HIDE DEF c, e, n
<1>5. \A i \in 1 .. n : e[i] = c[i]
  <2>1. \A i \in 1 .. n : i \in 1 .. n + 1 /\ i <= n
    BY <1>1
  <2> QED
    BY <2>1, <1>3
<1>6. e[n + 1] = (WordAt(l, n) - WordAt(r, n) + c[n]) \div WordBase
  BY <1>1, <1>3
<1>7. ASSUME NEW i \in 1 .. n
      PROVE  e[i + 1] = (WordAt(l, i) - WordAt(r, i) + e[i]) \div WordBase
  <2>1. CASE i = n
    BY <2>1, <1>5, <1>6
  <2>2. CASE i # n
    <3>1. i \in 1 .. n - 1 /\ i + 1 \in 1 .. n
      BY <2>2, <1>1
    <3> QED
      BY <3>1, <1>2, <1>5
  <2> QED
    BY <2>1, <2>2
<1>8. subtractFromInto(l, r)
        = [i \in 1 .. n |-> (WordAt(l, i) - WordAt(r, i) + e[i]) % WordBase]
  BY <1>2, <1>4, <1>5
<1>9. e[1] = 0
  BY <1>1, <1>2, <1>5
<1> QED
  BY <1>7, <1>8, <1>9 DEF e, n

\* Never more than one is borrowed.
LEMMA BorrowIsSmall ==
  ASSUME NEW l \in WordSeqs, NEW r \in WordSeqs, Len(l) >= 1, NEW k \in 1 .. Len(l) + 1
  PROVE  Borrows(l, r)[k] \in -1 .. 0
<1> DEFINE n == Len(l)
           c == Borrows(l, r)
           S == {i \in 1 .. n + 1 : c[i] \in -1 .. 0}
<1>1. n \in Nat /\ n >= 1 /\ WordBase \in Nat
  BY LengthIs, WidthFacts
<1>2. c[1] = 0 /\ \A i \in 1 .. n :
                    c[i + 1] = (WordAt(l, i) - WordAt(r, i) + c[i]) \div WordBase
  BY BorrowsOf
<1> HIDE DEF c, n
<1>3. 1 \in S
  BY <1>1, <1>2
<1>4. ASSUME NEW i \in 1 .. (n + 1) - 1, i \in S PROVE i + 1 \in S
  <2> DEFINE a == WordAt(l, i) - WordAt(r, i) + c[i]
  <2>1. i \in 1 .. n /\ i + 1 \in 1 .. n + 1 /\ c[i] \in -1 .. 0
    BY <1>1, <1>4
  <2>2. /\ WordAt(l, i) \in Int /\ 0 <= WordAt(l, i) /\ WordAt(l, i) < WordBase
        /\ WordAt(r, i) \in Int /\ 0 <= WordAt(r, i) /\ WordAt(r, i) < WordBase
    BY WordAtIs
  <2>3. a \in Int /\ a < WordBase * 1 /\ a >= WordBase * (-1)
    BY <1>1, <2>1, <2>2
  <2>4. c[i + 1] = a \div WordBase
    BY <2>1, <1>2
  <2> HIDE DEF a
  <2>5. a \div WordBase < 1 /\ a \div WordBase >= -1 /\ a \div WordBase \in Int
    BY <2>3, Divided, DividedBelow, DividedAbove
  <2> QED
    BY <2>1, <2>4, <2>5
<1>5. \A i \in 1 .. n + 1 : i \in S
  <2> HIDE DEF S
  <2>1. n + 1 \in Int /\ 1 \in Int
    BY <1>1
  <2>2. \A i \in 1 .. (n + 1) - 1 : i \in S => i + 1 \in S
    BY <1>4
  <2> QED
    BY <2>1, <2>2, <1>3, Upwards
<1> QED
  BY <1>5 DEF c, n

\* Nothing is borrowed from above the highest word that differs.
LEMMA NoBorrowAbove ==
  ASSUME NEW l \in WordSeqs, NEW r \in WordSeqs, Len(l) >= 1, NEW k, Exceeds(l, r, k),
         k <= Len(l)
  PROVE  Borrows(l, r)[Len(l) + 1] = 0
<1> DEFINE n == Len(l)
           c == Borrows(l, r)
           S == {i \in k + 1 .. n + 1 : c[i] = 0}
<1>1. n \in Nat /\ n >= 1 /\ WordBase \in Nat /\ WordBase >= 2 /\ k \in Int /\ k >= 1 /\ k <= n
  BY LengthIs, WidthFacts DEF Exceeds
<1>2. c[1] = 0 /\ \A i \in 1 .. n :
                    c[i + 1] = (WordAt(l, i) - WordAt(r, i) + c[i]) \div WordBase
  BY BorrowsOf
<1>3. \A i \in 1 .. n + 1 : c[i] \in -1 .. 0
  BY BorrowIsSmall
<1> HIDE DEF c, n
<1>4. ASSUME NEW i \in 1 .. n, WordAt(l, i) - WordAt(r, i) + c[i] >= 0 PROVE c[i + 1] = 0
  <2> DEFINE a == WordAt(l, i) - WordAt(r, i) + c[i]
  <2>1. i \in Int /\ i + 1 \in 1 .. n + 1 /\ i \in 1 .. n + 1
    BY <1>1
  <2>2. c[i] \in -1 .. 0 /\ c[i + 1] \in -1 .. 0
    BY <2>1, <1>3
  <2>3. WordAt(l, i) \in Int /\ WordAt(r, i) \in Int
    BY <2>1, WordAtIs
  <2>4. a \in Int /\ a >= WordBase * 0
    BY <2>2, <2>3, <1>1, <1>4
  <2>5. c[i + 1] = a \div WordBase
    BY <1>2
  <2> HIDE DEF a
  <2>6. a \div WordBase >= 0
    BY <2>4, DividedAbove
  <2> QED
    BY <2>2, <2>5, <2>6
<1>5. k + 1 \in S
  <2>1. k \in 1 .. n /\ k \in 1 .. n + 1 /\ k + 1 \in k + 1 .. n + 1
    BY <1>1
  <2>2. WordAt(l, k) \in Int /\ WordAt(r, k) \in Int /\ WordAt(l, k) > WordAt(r, k)
    BY <1>1, WordAtIs DEF Exceeds
  <2>3. c[k] \in -1 .. 0
    BY <2>1, <1>3
  <2>4. WordAt(l, k) - WordAt(r, k) + c[k] >= 0
    BY <2>2, <2>3
  <2> QED
    BY <2>1, <2>4, <1>4
<1>6. ASSUME NEW i \in k + 1 .. (n + 1) - 1, i \in S PROVE i + 1 \in S
  <2>1. i \in 1 .. n /\ i \in Nat \ {0} /\ i > k /\ i + 1 \in k + 1 .. n + 1
    BY <1>1
  <2>2. WordAt(l, i) = WordAt(r, i) /\ WordAt(l, i) \in Int
    BY <2>1, WordAtIs DEF Exceeds
  <2>3. c[i] = 0
    BY <1>6
  <2>4. WordAt(l, i) - WordAt(r, i) + c[i] >= 0
    BY <2>2, <2>3
  <2> QED
    BY <2>1, <2>4, <1>4
<1>7. n + 1 \in S
  <2> HIDE DEF S
  <2>1. n + 1 \in Int /\ k + 1 \in Int /\ n + 1 \in k + 1 .. n + 1
    BY <1>1
  <2>2. \A i \in k + 1 .. n + 1 : i \in S
    BY <2>1, <1>5, <1>6, Upwards
  <2> QED
    BY <2>1, <2>2
<1> QED
  BY <1>7 DEF c, n

\* The highest word that differs is one of the larger magnitude.
LEMMA ExceedsWithin ==
  ASSUME NEW l \in WordSeqs, NEW r \in WordSeqs, NEW k, Exceeds(l, r, k)
  PROVE  k \in Int /\ k >= 1 /\ k <= Len(l) /\ Len(l) \in Nat
<1>1. k \in Int /\ k >= 1 /\ WordAt(l, k) > WordAt(r, k)
  BY DEF Exceeds
<1>2. WordAt(r, k) \in Nat
  BY <1>1, WordAtIs
<1>3. WordAt(l, k) # 0
  BY <1>1, <1>2
<1>4. k \in 1 .. Len(l)
  BY <1>1, <1>3, WordAtIs
<1> QED
  BY <1>1, <1>4, LengthIs

\* The difference of subtractFromInto has as many words as its first magnitude.
LEMMA DifferenceWords ==
  ASSUME NEW l \in WordSeqs, NEW r \in WordSeqs, Len(l) >= 1
  PROVE  /\ subtractFromInto(l, r) \in WordSeqs
         /\ Len(subtractFromInto(l, r)) = Len(l)
         /\ \A i \in 1 .. Len(l) :
              WordAt(subtractFromInto(l, r), i)
                = (WordAt(l, i) - WordAt(r, i) + Borrows(l, r)[i]) % WordBase
<1> DEFINE n == Len(l)
           c == Borrows(l, r)
           s == subtractFromInto(l, r)
<1>1. n \in Nat
  BY LengthIs
<1>2. s = [i \in 1 .. n |-> (WordAt(l, i) - WordAt(r, i) + c[i]) % WordBase]
  BY BorrowsOf
<1>3. \A i \in 1 .. n + 1 : c[i] \in -1 .. 0
  BY BorrowIsSmall
<1> HIDE DEF c, n, s
<1>4. ASSUME NEW i \in 1 .. n
      PROVE  (WordAt(l, i) - WordAt(r, i) + c[i]) % WordBase \in Digit
  <2>1. i \in 1 .. n + 1 /\ i \in Int
    BY <1>1
  <2>2. c[i] \in Int
    <3>1. c[i] \in -1 .. 0
      BY <2>1, <1>3
    <3> QED
      BY <3>1
  <2>3. WordAt(l, i) \in Nat
    BY <2>1, WordAtIs
  <2>4. WordAt(r, i) \in Nat
    BY <2>1, WordAtIs
  <2>5. WordAt(l, i) - WordAt(r, i) + c[i] \in Int
    BY <2>2, <2>3, <2>4
  <2> QED
    BY <2>5, Divided
<1>5. s \in [1 .. n -> Digit]
  BY <1>2, <1>4
<1>6. s \in WordSeqs /\ Len(s) = n
  BY <1>1, <1>5 DEF WordSeqs
<1>7. ASSUME NEW i \in 1 .. n
      PROVE  WordAt(s, i) = (WordAt(l, i) - WordAt(r, i) + c[i]) % WordBase
  <2>1. i \in Int /\ i \in 1 .. Len(s)
    BY <1>6
  <2>2. WordAt(s, i) = s[i]
    BY <2>1, <1>6, WordAtIs
  <2> QED
    BY <2>2, <1>2
<1> QED
  BY <1>6, <1>7 DEF n, c, s

\* subtractFromInto subtracts: the magnitude of its words is the difference, whenever
\* the first magnitude is the larger.
LEMMA DifferenceIs ==
  ASSUME NEW l \in WordSeqs, NEW r \in WordSeqs, NEW k, Exceeds(l, r, k)
  PROVE  /\ subtractFromInto(l, r) \in WordSeqs
         /\ Len(subtractFromInto(l, r)) = Len(l) /\ Len(l) >= 1
         /\ Magnitude(subtractFromInto(l, r)) = Magnitude(l) - Magnitude(r)
<1> DEFINE n == Len(l)
           c == Borrows(l, r)
           s == subtractFromInto(l, r)
           L == From(l)
           R == From(r)
           F == From(s)
           S == {i \in 1 .. n + 1 : F[i] = L[i] - R[i] + c[i]}
<1>1. /\ n \in Nat /\ n >= 1 /\ k \in Int /\ k >= 1 /\ k <= n
      /\ WordBase \in Int /\ WordBase >= 2
  BY ExceedsWithin, WidthFacts
<1>2. s \in WordSeqs /\ Len(s) = n
  BY <1>1, DifferenceWords
<1>3. ASSUME NEW i \in 1 .. n
      PROVE  WordAt(s, i) = (WordAt(l, i) - WordAt(r, i) + c[i]) % WordBase
  BY <1>1, DifferenceWords
<1>4. c[1] = 0 /\ \A i \in 1 .. n :
                    c[i + 1] = (WordAt(l, i) - WordAt(r, i) + c[i]) \div WordBase
  BY <1>1, BorrowsOf
<1>5. \A i \in 1 .. n + 1 : c[i] \in -1 .. 0
  BY <1>1, BorrowIsSmall
<1>6. c[n + 1] = 0
  BY <1>1, NoBorrowAbove
<1>7. L[n + 1] = R[n + 1]
  <2>1. n + 1 \in Int /\ n + 1 > k
    BY <1>1
  <2> QED
    BY <2>1, SameAbove
<1> HIDE DEF c, s, n
<1>8. ASSUME NEW i \in Int, i >= 1
      PROVE  /\ L[i] = WordAt(l, i) + WordBase * L[i + 1]
             /\ R[i] = WordAt(r, i) + WordBase * R[i + 1]
             /\ F[i] = WordAt(s, i) + WordBase * F[i + 1] /\ (i > Len(s) => F[i] = 0)
             /\ L[i] \in Nat /\ R[i] \in Nat /\ F[i] \in Nat
             /\ L[i + 1] \in Nat /\ R[i + 1] \in Nat /\ F[i + 1] \in Nat
  BY <1>2, <1>8, FromAt
<1>9. L[1] = Magnitude(l) /\ R[1] = Magnitude(r) /\ F[1] = Magnitude(s)
  BY <1>2, FromFirst
<1> HIDE DEF L, R, F
<1>10. n + 1 \in S
  <2>1. n + 1 \in Int /\ n + 1 >= 1 /\ n + 1 > Len(s)
    BY <1>1, <1>2
  <2>2. F[n + 1] = 0 /\ L[n + 1] \in Nat
    BY <2>1, <1>8
  <2> QED
    BY <2>1, <2>2, <1>1, <1>6, <1>7
<1>11. ASSUME NEW i \in 1 .. (n + 1) - 1, i + 1 \in S PROVE i \in S
  <2> DEFINE a == WordAt(l, i) - WordAt(r, i) + c[i]
  <2>1. /\ i \in Int /\ i >= 1 /\ i \in 1 .. n /\ i \in 1 .. n + 1 /\ i + 1 \in 1 .. n + 1
    BY <1>1
  <2>2. /\ L[i] = WordAt(l, i) + WordBase * L[i + 1]
        /\ R[i] = WordAt(r, i) + WordBase * R[i + 1]
        /\ F[i] = WordAt(s, i) + WordBase * F[i + 1]
    BY <2>1, <1>8
  <2>3. L[i + 1] \in Int /\ R[i + 1] \in Int /\ F[i + 1] \in Int
    <3>1. L[i + 1] \in Nat /\ R[i + 1] \in Nat /\ F[i + 1] \in Nat
      BY <2>1, <1>8
    <3> QED
      BY <3>1
  <2>4. F[i + 1] = L[i + 1] - R[i + 1] + c[i + 1]
    BY <1>11
  <2>5. WordAt(s, i) = a % WordBase /\ c[i + 1] = a \div WordBase
    BY <2>1, <1>3, <1>4
  <2>6. /\ WordAt(l, i) \in Int /\ WordAt(r, i) \in Int /\ WordAt(s, i) \in Int
        /\ c[i] \in Int /\ c[i + 1] \in Int
    <3>1. c[i] \in -1 .. 0 /\ c[i + 1] \in -1 .. 0
      BY <2>1, <1>5
    <3>2. WordAt(l, i) \in Int /\ WordAt(r, i) \in Int
      BY <2>1, WordAtIs
    <3>3. WordAt(s, i) \in Int
      BY <2>1, <1>2, WordAtIs
    <3> QED
      BY <3>1, <3>2, <3>3
  <2>7. a = WordAt(s, i) + WordBase * c[i + 1]
    <3>1. a \in Int
      BY <2>6
    <3> HIDE DEF a
    <3>2. a = (a % WordBase) + WordBase * (a \div WordBase)
      BY <3>1, Divided
    <3> QED
      BY <2>5, <3>2
  <2>8. WordAt(s, i) + WordBase * F[i + 1]
          = (WordAt(l, i) + WordBase * L[i + 1]) - (WordAt(r, i) + WordBase * R[i + 1]) + c[i]
    <3>1. WordBase \in Int
      BY <1>1
    <3>2. WordAt(l, i) - WordAt(r, i) + c[i] = WordAt(s, i) + WordBase * c[i + 1]
      BY <2>7
    <3>3. \A w, x, y, z \in Int :
            w = x - y + z => WordBase * w = WordBase * x - WordBase * y + WordBase * z
      BY <3>1
    <3>4. WordBase * F[i + 1] = WordBase * L[i + 1] - WordBase * R[i + 1] + WordBase * c[i + 1]
      <4>1. PICK w \in Int : w = F[i + 1]
        BY <2>3
      <4>2. PICK x \in Int : x = L[i + 1]
        BY <2>3
      <4>3. PICK y \in Int : y = R[i + 1]
        BY <2>3
      <4>4. PICK z \in Int : z = c[i + 1]
        BY <2>6
      <4>5. w = x - y + z
        BY <2>4, <4>1, <4>2, <4>3, <4>4
      <4>6. WordBase * w = WordBase * x - WordBase * y + WordBase * z
        BY <4>5, <3>3
      <4> QED
        BY <4>1, <4>2, <4>3, <4>4, <4>6
    <3>5. WordBase * L[i + 1] \in Int /\ WordBase * R[i + 1] \in Int /\ WordBase * c[i + 1] \in Int
      BY <2>3, <2>6, <3>1
    <3> HIDE DEF a
    <3> QED
      BY <3>2, <3>4, <3>5, <2>6
  <2>9. F[i] = L[i] - R[i] + c[i]
    BY <2>2, <2>8
  <2> QED
    BY <2>1, <2>9
<1>12. 1 \in S
  <2> HIDE DEF S
  <2>1. n + 1 \in Int /\ 1 \in 1 .. n + 1
    BY <1>1
  <2>2. \A i \in 1 .. n + 1 : i \in S
    BY <2>1, <1>10, <1>11, Downwards
  <2> QED
    BY <2>1, <2>2
<1>13. F[1] = L[1] - R[1]
  <2>1. F[1] = L[1] - R[1] + 0
    BY <1>4, <1>12
  <2>2. L[1] \in Nat /\ R[1] \in Nat
    BY <1>8
  <2> QED
    BY <2>1, <2>2
<1> QED
  BY <1>1, <1>2, <1>9, <1>13 DEF s, n

-----------------------------------------------------------------------------
(***************************************************************************)
(* The product of two magnitudes: one row for each word of the second.     *)
(***************************************************************************)
\* The function multiplyByWordAddingInto is defined with.
IsRow(l, word, from, result, c) ==
  c = [i \in from .. Len(result) |->
         IF i = from THEN 0
         ELSE (WordAt(l, i - from) * word + result[i - 1] + c[i - 1]) \div WordBase]

Row(l, word, from, result) == CHOOSE c : IsRow(l, word, from, result, c)

\* It exists.
LEMMA RowExists ==
  ASSUME NEW l \in WordSeqs, NEW word \in Digit, NEW p \in WordSeqs, NEW from \in 1 .. Len(p)
  PROVE  \E c \in [from .. Len(p) -> Int] : IsRow(l, word, from, p, c)
<1> DEFINE n == Len(p)
           x == [i \in Int |-> WordAt(l, i + 1 - from) * word + WordAt(p, i)]
<1>1. n \in Nat /\ from \in Int /\ 1 <= from /\ from <= n
  BY LengthIs
<1>2. ASSUME NEW i \in Int PROVE WordAt(l, i + 1 - from) * word + WordAt(p, i) \in Int
  <2>1. i + 1 - from \in Int
    BY <1>1
  <2>2. WordAt(l, i + 1 - from) \in Int
    BY <2>1, WordAtIs
  <2>3. WordAt(p, i) \in Int
    BY WordAtIs
  <2>4. word \in Int
    BY DigitIs
  <2> QED
    BY <2>2, <2>3, <2>4
<1>3. x \in [Int -> Int]
  BY <1>2
<1>4. PICK c \in [from .. n -> Int] :
        c[from] = 0 /\ \A i \in from + 1 .. n : c[i] = (x[i - 1] + c[i - 1]) \div WordBase
  <2> HIDE DEF x
  <2>1. from \in Int /\ n \in Int /\ from <= n
    BY <1>1
  <2> QED
    BY <2>1, <1>3, CarriesExist, Zenon
<1>5. ASSUME NEW i \in from .. n
      PROVE  c[i] = IF i = from THEN 0
                    ELSE (WordAt(l, i - from) * word + p[i - 1] + c[i - 1]) \div WordBase
  <2>1. CASE i = from
    BY <2>1, <1>4
  <2>2. CASE i # from
    <3>1. i \in from + 1 .. n /\ i - 1 \in Int /\ i - 1 \in 1 .. n /\ (i - 1) + 1 - from = i - from
      BY <2>2, <1>1
    <3>2. c[i] = (x[i - 1] + c[i - 1]) \div WordBase
      BY <3>1, <1>4
    <3>3. x[i - 1] = WordAt(l, i - from) * word + WordAt(p, i - 1)
      BY <3>1
    <3>4. WordAt(p, i - 1) = p[i - 1]
      BY <3>1, WordAtIs
    <3> QED
      BY <3>2, <3>3, <3>4, <2>2
  <2> QED
    BY <2>1, <2>2
<1> QED
  BY <1>5 DEF IsRow

\* The carry into a word of the row is that out of the word below.
LEMMA RowOf ==
  ASSUME NEW l \in WordSeqs, NEW word \in Digit, NEW p \in WordSeqs, NEW from \in 1 .. Len(p)
  PROVE  /\ multiplyByWordAddingInto(l, word, from, p)
              = [i \in 1 .. Len(p) |->
                   IF i < from THEN p[i]
                   ELSE (WordAt(l, i - from + 1) * word + p[i] + Row(l, word, from, p)[i])
                          % WordBase]
         /\ Row(l, word, from, p)[from] = 0
         /\ \A i \in from .. Len(p) - 1 :
              Row(l, word, from, p)[i + 1]
                = (WordAt(l, i - from + 1) * word + p[i] + Row(l, word, from, p)[i])
                    \div WordBase
<1> DEFINE n == Len(p)
           c == Row(l, word, from, p)
<1>1. n \in Nat /\ from \in Int /\ 1 <= from /\ from <= n
  BY LengthIs
<1>2. IsRow(l, word, from, p, c)
  <2>1. \E e : IsRow(l, word, from, p, e)
    BY RowExists
  <2> QED
    BY <2>1, Zenon DEF Row
<1>3. multiplyByWordAddingInto(l, word, from, p)
        = [i \in 1 .. Len(p) |->
             IF i < from THEN p[i]
             ELSE (WordAt(l, i - from + 1) * word + p[i] + c[i]) % WordBase]
  BY Zenon DEF multiplyByWordAddingInto, Row, IsRow
<1>4. c = [i \in from .. n |->
             IF i = from THEN 0
             ELSE (WordAt(l, i - from) * word + p[i - 1] + c[i - 1]) \div WordBase]
  BY <1>2 DEF IsRow
<1> HIDE DEF c, n
<1>5. ASSUME NEW i \in from .. n - 1
      PROVE  c[i + 1] = (WordAt(l, i - from + 1) * word + p[i] + c[i]) \div WordBase
  <2>1. i + 1 \in from .. n /\ i + 1 # from /\ (i + 1) - 1 = i /\ (i + 1) - from = i - from + 1
    BY <1>1
  <2>2. c[i + 1] = (WordAt(l, (i + 1) - from) * word + p[(i + 1) - 1] + c[(i + 1) - 1])
                     \div WordBase
    BY <1>4, <2>1
  <2> QED
    BY <2>1, <2>2
<1>6. c[from] = 0
  BY <1>1, <1>4
<1> QED
  BY <1>3, <1>5, <1>6 DEF c, n

\* What is divided at a position of the row, and the carries into every position,
\* and out of the last one.
Column(l, word, from, p, c, i) == WordAt(l, i - from + 1) * word + WordAt(p, i) + c[i]

RowCarries(l, word, from, p) ==
  [i \in from .. Len(p) + 1 |->
     IF i <= Len(p) THEN Row(l, word, from, p)[i]
     ELSE Column(l, word, from, p, Row(l, word, from, p), Len(p)) \div WordBase]

\* The words of a row, and the carries out of each.
LEMMA RowCarriesOf ==
  ASSUME NEW l \in WordSeqs, NEW word \in Digit, NEW p \in WordSeqs, NEW from \in 1 .. Len(p)
  PROVE  /\ multiplyByWordAddingInto(l, word, from, p)
              = [i \in 1 .. Len(p) |->
                   IF i < from THEN p[i]
                   ELSE Column(l, word, from, p, RowCarries(l, word, from, p), i) % WordBase]
         /\ RowCarries(l, word, from, p)[from] = 0
         /\ \A i \in from .. Len(p) :
              RowCarries(l, word, from, p)[i + 1]
                = Column(l, word, from, p, RowCarries(l, word, from, p), i) \div WordBase
<1> DEFINE n == Len(p)
           c == Row(l, word, from, p)
           e == RowCarries(l, word, from, p)
<1>1. n \in Nat /\ from \in Int /\ 1 <= from /\ from <= n
  BY LengthIs
<1>2. ASSUME NEW i \in 1 .. n PROVE WordAt(p, i) = p[i]
  BY WordAtIs
<1>3. /\ multiplyByWordAddingInto(l, word, from, p)
           = [i \in 1 .. n |->
                IF i < from THEN p[i]
                ELSE (WordAt(l, i - from + 1) * word + p[i] + c[i]) % WordBase]
      /\ c[from] = 0
      /\ \A i \in from .. n - 1 :
           c[i + 1] = (WordAt(l, i - from + 1) * word + p[i] + c[i]) \div WordBase
  BY RowOf
<1>4. e = [i \in from .. n + 1 |->
             IF i <= n THEN c[i] ELSE Column(l, word, from, p, c, n) \div WordBase]
  BY DEF RowCarries
<1> HIDE DEF c, e, n
<1>5. ASSUME NEW i \in from .. n PROVE e[i] = c[i]
  <2>1. i \in from .. n + 1 /\ i <= n
    BY <1>1
  <2> QED
    BY <2>1, <1>4
<1>6. e[n + 1] = Column(l, word, from, p, c, n) \div WordBase
  BY <1>1, <1>4
<1>7. ASSUME NEW i \in from .. n
      PROVE  /\ Column(l, word, from, p, e, i) = Column(l, word, from, p, c, i)
             /\ Column(l, word, from, p, c, i) = WordAt(l, i - from + 1) * word + p[i] + c[i]
  <2>1. i \in 1 .. n
    BY <1>1
  <2> QED
    BY <2>1, <1>2, <1>5 DEF Column
<1>8. ASSUME NEW i \in from .. n
      PROVE  e[i + 1] = Column(l, word, from, p, e, i) \div WordBase
  <2>1. CASE i = n
    BY <2>1, <1>6, <1>7
  <2>2. CASE i # n
    <3>1. i \in from .. n - 1 /\ i + 1 \in from .. n
      BY <2>2, <1>1
    <3>2. e[i + 1] = c[i + 1]
      BY <3>1, <1>5
    <3>3. c[i + 1] = Column(l, word, from, p, c, i) \div WordBase
      BY <3>1, <1>3, <1>7
    <3> QED
      BY <3>2, <3>3, <1>7
  <2> QED
    BY <2>1, <2>2
<1>9. multiplyByWordAddingInto(l, word, from, p)
        = [i \in 1 .. n |-> IF i < from THEN p[i]
                            ELSE Column(l, word, from, p, e, i) % WordBase]
  <2>1. ASSUME NEW i \in 1 .. n, ~(i < from)
        PROVE  Column(l, word, from, p, e, i) = WordAt(l, i - from + 1) * word + p[i] + c[i]
    <3>1. i \in from .. n
      BY <1>1, <2>1
    <3> QED
      BY <3>1, <1>7
  <2> QED
    BY <2>1, <1>3
<1>10. e[from] = 0
  <2>1. from \in from .. n
    BY <1>1
  <2> QED
    BY <2>1, <1>3, <1>5
<1> QED
  BY <1>8, <1>9, <1>10 DEF e, n

\* A column is a number.
LEMMA ColumnIs ==
  ASSUME NEW l \in WordSeqs, NEW word \in Digit, NEW p \in WordSeqs, NEW from \in 1 .. Len(p),
         NEW c, NEW i \in Int, c[i] \in Int
  PROVE  Column(l, word, from, p, c, i) \in Int
<1>1. i - from + 1 \in Int
  OBVIOUS
<1>2. WordAt(l, i - from + 1) \in Nat
  BY <1>1, WordAtIs
<1>3. WordAt(p, i) \in Nat
  BY WordAtIs
<1>4. word \in Nat
  BY DigitIs
<1> QED
  BY <1>2, <1>3, <1>4 DEF Column

\* A product of two words and two words more have two words together.
LEMMA ProductOfDigits ==
  ASSUME NEW a \in Digit, NEW b \in Digit, NEW c \in Digit, NEW d \in Digit
  PROVE  /\ a * b + c + d \in Int
         /\ a * b + c + d >= WordBase * 0 /\ a * b + c + d < WordBase * WordBase
<1> DEFINE m == WordBase - 1
<1>1. /\ a \in Nat /\ b \in Nat /\ c \in Nat /\ d \in Nat /\ m \in Nat
      /\ a <= m /\ b <= m /\ c <= m /\ d <= m /\ WordBase = m + 1
  BY DigitIs, WidthFacts
<1> HIDE DEF m
<1>2. a * b <= m * m /\ a * b >= 0 /\ a * b \in Int
  <2>1. a * b <= a * m
    BY <1>1
  <2>2. a * m <= m * m
    BY <1>1
  <2>3. a * b \in Nat /\ a * m \in Nat /\ m * m \in Nat
    BY <1>1
  <2> QED
    BY <2>1, <2>2, <2>3
<1>3. WordBase * WordBase = m * m + m + m + 1 /\ WordBase * 0 = 0
  BY <1>1
<1>4. m * m \in Int
  BY <1>1
<1> QED
  BY <1>1, <1>2, <1>3, <1>4

\* What is carried in a row is a word.
LEMMA RowCarryIsDigit ==
  ASSUME NEW l \in WordSeqs, NEW word \in Digit, NEW p \in WordSeqs, NEW from \in 1 .. Len(p),
         NEW k \in from .. Len(p) + 1
  PROVE  RowCarries(l, word, from, p)[k] \in Digit
<1> DEFINE n == Len(p)
           c == RowCarries(l, word, from, p)
           S == {i \in from .. n + 1 : c[i] \in Digit}
<1>1. n \in Nat /\ from \in Int /\ 1 <= from /\ from <= n /\ WordBase \in Int
  BY LengthIs, WidthFacts
<1>2. c[from] = 0 /\ \A i \in from .. n :
                       c[i + 1] = Column(l, word, from, p, c, i) \div WordBase
  BY RowCarriesOf
<1> HIDE DEF c, n
<1>3. from \in S
  BY <1>1, <1>2, WidthFacts DEF Digit
<1>4. ASSUME NEW i \in from .. (n + 1) - 1, i \in S PROVE i + 1 \in S
  <2> DEFINE a == Column(l, word, from, p, c, i)
  <2>1. i \in from .. n /\ i + 1 \in from .. n + 1 /\ c[i] \in Digit
    BY <1>1, <1>4
  <2>2. i - from + 1 \in Int /\ i \in Int
    BY <1>1
  <2>3. WordAt(l, i - from + 1) \in Digit
    BY <2>2, WordAtIs
  <2>4. WordAt(p, i) \in Digit
    BY <2>2, WordAtIs
  <2>5. a \in Int /\ a >= WordBase * 0 /\ a < WordBase * WordBase
    BY <2>1, <2>3, <2>4, ProductOfDigits DEF Column
  <2>6. c[i + 1] = a \div WordBase
    BY <2>1, <1>2
  <2> HIDE DEF a
  <2>7. a \div WordBase < WordBase
    BY <2>5, <1>1, DividedBelow
  <2>8. a \div WordBase >= 0 /\ a \div WordBase \in Int
    BY <2>5, Divided, DividedAbove
  <2> QED
    BY <2>1, <2>6, <2>7, <2>8, IsDigit
<1>5. \A i \in from .. n + 1 : i \in S
  <2> HIDE DEF S
  <2>1. n + 1 \in Int /\ from \in Int
    BY <1>1
  <2>2. \A i \in from .. (n + 1) - 1 : i \in S => i + 1 \in S
    BY <1>4
  <2> QED
    BY <2>1, <2>2, <1>3, Upwards
<1> QED
  BY <1>5 DEF c, n

\* A row is made of words, as many as the product had before.
LEMMA RowWords ==
  ASSUME NEW l \in WordSeqs, NEW word \in Digit, NEW p \in WordSeqs, NEW from \in 1 .. Len(p)
  PROVE  LET q == multiplyByWordAddingInto(l, word, from, p)
             c == RowCarries(l, word, from, p)
         IN /\ q \in [1 .. Len(p) -> Digit] /\ q \in WordSeqs /\ Len(q) = Len(p)
            /\ \A i \in 1 .. Len(p) :
                 WordAt(q, i) = IF i < from THEN WordAt(p, i)
                                ELSE Column(l, word, from, p, c, i) % WordBase
<1> DEFINE n == Len(p)
           c == RowCarries(l, word, from, p)
           q == multiplyByWordAddingInto(l, word, from, p)
<1>1. n \in Nat /\ from \in Int /\ 1 <= from /\ from <= n
  BY LengthIs
<1>2. q = [i \in 1 .. n |-> IF i < from THEN p[i]
                            ELSE Column(l, word, from, p, c, i) % WordBase]
  BY RowCarriesOf
<1>3. \A i \in from .. n + 1 : c[i] \in Digit
  BY RowCarryIsDigit
<1>4. ASSUME NEW i \in 1 .. n PROVE WordAt(p, i) = p[i] /\ WordAt(p, i) \in Digit
  BY WordAtIs
<1> HIDE DEF c, n, q
<1>5. ASSUME NEW i \in 1 .. n, ~(i < from)
      PROVE  Column(l, word, from, p, c, i) % WordBase \in Digit
  <2>1. i \in from .. n + 1 /\ i \in Int
    BY <1>1, <1>5
  <2>2. c[i] \in Int
    BY <2>1, <1>3, DigitIs
  <2>3. Column(l, word, from, p, c, i) \in Int
    BY <2>1, <2>2, ColumnIs
  <2> QED
    BY <2>3, Divided
<1>6. q \in [1 .. n -> Digit]
  <2>1. \A i \in 1 .. n : p[i] \in Digit
    BY <1>4
  <2> QED
    BY <2>1, <1>2, <1>5
<1>7. q \in WordSeqs /\ Len(q) = n
  BY <1>1, <1>6 DEF WordSeqs
<1>8. ASSUME NEW i \in 1 .. n
      PROVE  WordAt(q, i) = IF i < from THEN WordAt(p, i)
                            ELSE Column(l, word, from, p, c, i) % WordBase
  <2>1. i \in Int /\ i \in 1 .. Len(q)
    BY <1>7
  <2>2. WordAt(q, i) = q[i]
    BY <2>1, <1>7, WordAtIs
  <2> QED
    BY <2>2, <1>2, <1>4
<1> QED
  BY <1>6, <1>7, <1>8 DEF n, c, q

\* There are only zero words from a position on.
ZeroFrom(w, k) == \A i \in Nat \ {0} : i >= k => WordAt(w, i) = 0

\* A row ends one word above the words it multiplies: nothing is carried out of the
\* product, and what is above stays zero.
LEMMA RowEnds ==
  ASSUME NEW l \in WordSeqs, NEW word \in Digit, NEW p \in WordSeqs, NEW from \in 1 .. Len(p),
         from + Len(l) <= Len(p), ZeroFrom(p, from + Len(l))
  PROVE  /\ ZeroFrom(multiplyByWordAddingInto(l, word, from, p), from + Len(l) + 1)
         /\ RowCarries(l, word, from, p)[Len(p) + 1] = 0
<1> DEFINE n == Len(p)
           c == RowCarries(l, word, from, p)
           q == multiplyByWordAddingInto(l, word, from, p)
           e == from + Len(l)
           S == {i \in e + 1 .. n + 1 : c[i] = 0}
<1>1. /\ n \in Nat /\ from \in Int /\ 1 <= from /\ e <= n /\ e >= from /\ e \in Int
      /\ WordBase \in Int /\ WordBase >= 2 /\ word \in Int
  BY LengthIs, WidthFacts, DigitIs
<1>2. \A i \in from .. n : c[i + 1] = Column(l, word, from, p, c, i) \div WordBase
  BY RowCarriesOf
<1>3. \A i \in from .. n + 1 : c[i] \in Digit
  BY RowCarryIsDigit
<1>4. /\ q \in WordSeqs /\ Len(q) = n
      /\ \A i \in 1 .. n : WordAt(q, i) = IF i < from THEN WordAt(p, i)
                                          ELSE Column(l, word, from, p, c, i) % WordBase
  BY RowWords
<1>5. ASSUME NEW i \in e .. n PROVE Column(l, word, from, p, c, i) = c[i]
  <2>1. /\ i - from + 1 \in Int /\ i - from + 1 \notin 1 .. Len(l) /\ i \in Nat \ {0} /\ i >= e
        /\ i \in from .. n + 1
    BY <1>1, LengthIs
  <2>2. WordAt(l, i - from + 1) = 0
    BY <2>1, WordAtIs
  <2>3. WordAt(p, i) = 0
    BY <2>1 DEF ZeroFrom
  <2>4. c[i] \in Int
    BY <2>1, <1>3, DigitIs
  <2>5. 0 * word = 0
    BY <1>1
  <2> QED
    BY <2>2, <2>3, <2>4, <2>5 DEF Column
<1> HIDE DEF c, n, q, e
<1>6. ASSUME NEW i \in e .. n PROVE c[i + 1] = 0
  <2>1. i \in from .. n /\ i \in from .. n + 1 /\ i + 1 \in from .. n + 1
    BY <1>1
  <2>2. c[i] \in Nat /\ c[i] < WordBase /\ c[i + 1] \in Nat
    BY <2>1, <1>3, DigitIs
  <2>3. c[i + 1] = c[i] \div WordBase
    BY <2>1, <1>2, <1>5
  <2>4. c[i] \in Int /\ c[i] < WordBase * 1
    BY <2>2, <1>1
  <2>5. c[i] \div WordBase < 1
    BY <2>4, DividedBelow
  <2> QED
    BY <2>2, <2>3, <2>5
<1>7. c[n + 1] = 0
  BY <1>1, <1>6
<1>8. ASSUME NEW i \in Nat \ {0}, i >= e + 1 PROVE WordAt(q, i) = 0
  <2>1. CASE i \in 1 .. n
    <3>1. i \in e .. n /\ i - 1 \in e .. n /\ (i - 1) + 1 = i /\ ~(i < from)
      BY <2>1, <1>1, <1>8
    <3>2. c[i] = 0
      BY <3>1, <1>6
    <3>3. WordAt(q, i) = c[i] % WordBase
      BY <2>1, <3>1, <1>4, <1>5
    <3> QED
      BY <3>2, <3>3, <1>1
  <2>2. CASE i \notin 1 .. n
    <3>1. i \in Int /\ i \notin 1 .. Len(q)
      BY <2>2, <1>4
    <3> QED
      BY <3>1, <1>4, WordAtIs
  <2> QED
    BY <2>1, <2>2
<1>9. ZeroFrom(q, e + 1)
  BY <1>8 DEF ZeroFrom
<1> QED
  BY <1>7, <1>9 DEF c, n, q, e

\* One position of a row: the column is its word and the carry, and the tails are those above.
LEMMA StepOfRow ==
  ASSUME NEW b \in Int, NEW lw \in Int, NEW word \in Int, NEW pw \in Int, NEW qw \in Int,
         NEW c \in Int, NEW d \in Int, NEW l \in Int, NEW p \in Int, NEW q \in Int,
         lw * word + pw + c = qw + b * d, q = p + word * l + d
  PROVE  qw + b * q = (pw + b * p) + word * (lw + b * l) + c
<1>1. b * q = b * p + b * (word * l) + b * d
  OBVIOUS
<1>2. word * (lw + b * l) = lw * word + b * (word * l)
  OBVIOUS
<1>3. b * p \in Int /\ b * (word * l) \in Int /\ b * d \in Int /\ lw * word \in Int
  OBVIOUS
<1> QED
  BY <1>1, <1>2, <1>3

\* multiplyByWordAddingInto multiplies and adds: what the words from its position on
\* stand for grows by the word times the magnitude.
LEMMA RowIs ==
  ASSUME NEW l \in WordSeqs, NEW word \in Digit, NEW p \in WordSeqs, NEW from \in 1 .. Len(p),
         from + Len(l) <= Len(p), ZeroFrom(p, from + Len(l))
  PROVE  From(multiplyByWordAddingInto(l, word, from, p))[from]
           = From(p)[from] + word * Magnitude(l)
<1> DEFINE n == Len(p)
           c == RowCarries(l, word, from, p)
           q == multiplyByWordAddingInto(l, word, from, p)
           L == From(l)
           P == From(p)
           Q == From(q)
           S == {i \in from .. n + 1 : Q[i] = P[i] + word * L[i - from + 1] + c[i]}
<1>1. /\ n \in Nat /\ from \in Int /\ 1 <= from /\ from + Len(l) <= n /\ Len(l) \in Nat
      /\ WordBase \in Int /\ word \in Int
  BY LengthIs, WidthFacts, DigitIs
<1>2. c[from] = 0 /\ \A i \in from .. n :
                       c[i + 1] = Column(l, word, from, p, c, i) \div WordBase
  BY RowCarriesOf
<1>3. \A i \in from .. n + 1 : c[i] \in Digit
  BY RowCarryIsDigit
<1>4. /\ q \in WordSeqs /\ Len(q) = n
      /\ \A i \in 1 .. n : WordAt(q, i) = IF i < from THEN WordAt(p, i)
                                          ELSE Column(l, word, from, p, c, i) % WordBase
  BY RowWords
<1>5. c[n + 1] = 0
  BY RowEnds
<1> HIDE DEF c, q, n
<1>6. ASSUME NEW i \in Int, i >= 1
      PROVE  /\ L[i] = WordAt(l, i) + WordBase * L[i + 1] /\ (i > Len(l) => L[i] = 0)
             /\ L[i] \in Nat /\ L[i + 1] \in Nat
  BY <1>6, FromAt
<1>7. ASSUME NEW i \in Int, i >= 1
      PROVE  /\ P[i] = WordAt(p, i) + WordBase * P[i + 1] /\ (i > n => P[i] = 0)
             /\ P[i] \in Nat /\ P[i + 1] \in Nat
  BY <1>7, FromAt DEF n
<1>8. ASSUME NEW i \in Int, i >= 1
      PROVE  /\ Q[i] = WordAt(q, i) + WordBase * Q[i + 1] /\ (i > n => Q[i] = 0)
             /\ Q[i] \in Nat /\ Q[i + 1] \in Nat
  BY <1>4, <1>8, FromAt
<1>9. L[1] = Magnitude(l)
  BY FromFirst
<1> HIDE DEF L, P, Q
<1>10. n + 1 \in S
  <2>1. n + 1 \in Int /\ n + 1 >= 1 /\ n + 1 > n /\ n + 1 \in from .. n + 1
    BY <1>1
  <2>2. (n + 1) - from + 1 \in Int /\ (n + 1) - from + 1 >= 1 /\ (n + 1) - from + 1 > Len(l)
    BY <1>1
  <2>3. Q[n + 1] = 0 /\ P[n + 1] = 0 /\ L[(n + 1) - from + 1] = 0
    BY <2>1, <2>2, <1>6, <1>7, <1>8
  <2>4. word * 0 = 0
    BY <1>1
  <2>5. Q[n + 1] = P[n + 1] + word * L[(n + 1) - from + 1] + c[n + 1]
    BY <2>3, <2>4, <1>5
  <2> QED
    BY <2>1, <2>5
<1>11. ASSUME NEW i \in from .. (n + 1) - 1, i + 1 \in S PROVE i \in S
  <2> DEFINE j == i - from + 1
             a == Column(l, word, from, p, c, i)
  <2>1. /\ i \in Int /\ i >= 1 /\ i \in 1 .. n /\ i \in from .. n /\ i \in from .. n + 1
        /\ i + 1 \in from .. n + 1 /\ ~(i < from)
        /\ j \in Int /\ j >= 1 /\ (i + 1) - from + 1 = j + 1
    BY <1>1
  <2>2. c[i] \in Int /\ c[i + 1] \in Int
    BY <2>1, <1>3, DigitIs
  <2>3. /\ a \in Int /\ a = WordAt(l, j) * word + WordAt(p, i) + c[i]
    BY <2>1, <2>2, ColumnIs DEF Column
  <2>4. WordAt(q, i) = a % WordBase /\ c[i + 1] = a \div WordBase
    BY <2>1, <1>2, <1>4
  <2>5. Q[i + 1] = P[i + 1] + word * L[j + 1] + c[i + 1]
    BY <2>1, <1>11
  <2>6. /\ L[j] = WordAt(l, j) + WordBase * L[j + 1] /\ L[j + 1] \in Nat
        /\ P[i] = WordAt(p, i) + WordBase * P[i + 1] /\ P[i + 1] \in Nat
        /\ Q[i] = WordAt(q, i) + WordBase * Q[i + 1] /\ Q[i + 1] \in Nat
    BY <2>1, <1>6, <1>7, <1>8
  <2>7. WordAt(l, j) \in Int
    BY <2>1, WordAtIs
  <2>8. WordAt(p, i) \in Int
    BY <2>1, WordAtIs
  <2>9. WordAt(q, i) \in Int
    BY <2>1, <1>4, WordAtIs
  <2> HIDE DEF a, j
  <2>10. a = WordAt(q, i) + WordBase * c[i + 1]
    <3>1. a = (a % WordBase) + WordBase * (a \div WordBase)
      BY <2>3, Divided
    <3> QED
      BY <3>1, <2>4
  <2>11. PICK x \in Int : x = L[j + 1]
    BY <2>6
  <2>12. PICK y \in Int : y = P[i + 1]
    BY <2>6
  <2>13. PICK z \in Int : z = Q[i + 1]
    BY <2>6
  <2>14. PICK d \in Int : d = c[i + 1]
    BY <2>2
  <2>15. PICK e \in Int : e = c[i]
    BY <2>2
  <2>16. PICK u \in Int : u = WordAt(l, j)
    BY <2>7
  <2>17. PICK v \in Int : v = WordAt(p, i)
    BY <2>8
  <2>18. PICK w \in Int : w = WordAt(q, i)
    BY <2>9
  <2>19. u * word + v + e = w + WordBase * d
    BY <2>3, <2>10, <2>14, <2>15, <2>16, <2>17, <2>18
  <2>20. z = y + word * x + d
    BY <2>5, <2>11, <2>12, <2>13, <2>14
  <2>21. w + WordBase * z = (v + WordBase * y) + word * (u + WordBase * x) + e
    <3>1. WordBase \in Int /\ word \in Int
      BY <1>1
    <3> QED
      BY <3>1, <2>19, <2>20, StepOfRow
  <2>22. Q[i] = P[i] + word * L[j] + c[i]
    BY <2>6, <2>11, <2>12, <2>13, <2>15, <2>16, <2>17, <2>18, <2>21
  <2> QED
    BY <2>1, <2>22 DEF j
<1>12. from \in S
  <2> HIDE DEF S
  <2>1. n + 1 \in Int /\ from \in Int /\ from \in from .. n + 1
    BY <1>1
  <2>2. \A i \in from .. (n + 1) - 1 : i + 1 \in S => i \in S
    BY <1>11
  <2>3. \A i \in from .. n + 1 : i \in S
    BY <2>1, <2>2, <1>10, Downwards
  <2> QED
    BY <2>1, <2>3
<1>13. Q[from] = P[from] + word * L[1] + 0
  <2>1. from - from + 1 = 1
    BY <1>1
  <2> QED
    BY <2>1, <1>2, <1>12
<1>14. Q[from] = P[from] + word * L[1]
  <2>1. P[from] \in Int /\ L[1] \in Int
    <3>1. P[from] \in Nat
      BY <1>1, <1>7
    <3>2. L[1] \in Nat
      BY <1>6
    <3> QED
      BY <3>1, <3>2
  <2>2. word * L[1] \in Int
    BY <2>1, <1>1
  <2> QED
    BY <2>1, <2>2, <1>13
<1> QED
  BY <1>9, <1>14 DEF P, Q, q

\* The words of a product, one more than the two magnitudes have.
Width(l, r) == Len(l) + Len(r) + 1

\* The function multiplyInto is defined with: the product after so many rows.
IsProducts(l, r, p) ==
  p = [i \in 0 .. Len(r) |->
         IF i = 0 THEN [k \in 1 .. Len(l) + Len(r) + 1 |-> 0]
         ELSE multiplyByWordAddingInto(l, r[i], i, p[i - 1])]

Products(l, r) == CHOOSE p : IsProducts(l, r, p)

\* It exists.
LEMMA ProductsExist ==
  ASSUME NEW l \in WordSeqs, NEW r \in WordSeqs
  PROVE  \E p \in [0 .. Len(r) -> [1 .. Width(l, r) -> Digit]] : IsProducts(l, r, p)
<1> DEFINE n == Len(r)
           w == Width(l, r)
           V == [1 .. w -> Digit]
           zero == [k \in 1 .. w |-> 0]
           next == [i \in 0 + 1 .. n |-> [q \in V |-> multiplyByWordAddingInto(l, r[i], i, q)]]
<1>1. n \in Nat /\ w \in Nat /\ w > n
  BY LengthIs DEF Width
<1>2. zero \in V
  BY WidthFacts DEF Digit
<1>3. next \in Steps(V, 0, n)
  <2>1. ASSUME NEW i \in 0 + 1 .. n, NEW q \in V
        PROVE  multiplyByWordAddingInto(l, r[i], i, q) \in V
    <3>1. q \in WordSeqs /\ Len(q) = w
      <4> HIDE DEF w
      <4> QED
        BY <1>1 DEF WordSeqs
    <3>2. i \in 1 .. Len(q) /\ i \in 1 .. n
      BY <1>1, <3>1
    <3>3. r[i] \in Digit
      BY <3>2 DEF WordSeqs
    <3> HIDE DEF w
    <3> QED
      BY <3>1, <3>2, <3>3, RowWords
  <2> HIDE DEF V
  <2> QED
    BY <2>1 DEF Steps
<1>4. PICK p \in [0 .. n -> V] : Recurs(p, 0, n, zero, next)
  <2> HIDE DEF next, V, zero
  <2>1. 0 \in Int /\ n \in Int /\ 0 <= n
    BY <1>1
  <2> QED
    BY <2>1, <1>2, <1>3, RecursionExists, Zenon
<1>5. ASSUME NEW i \in 0 .. n
      PROVE  p[i] = IF i = 0 THEN zero ELSE multiplyByWordAddingInto(l, r[i], i, p[i - 1])
  <2>1. CASE i = 0
    BY <2>1, <1>4 DEF Recurs
  <2>2. CASE i # 0
    <3>1. i \in 0 + 1 .. n /\ i - 1 \in 0 .. n
      BY <2>2, <1>1
    <3>2. p[i] = next[i][p[i - 1]]
      BY <3>1, <1>4 DEF Recurs
    <3>3. p[i - 1] \in V
      BY <3>1
    <3> HIDE DEF V
    <3> QED
      BY <3>1, <3>2, <3>3, <2>2
  <2> QED
    BY <2>1, <2>2
<1>6. IsProducts(l, r, p)
  BY <1>5 DEF IsProducts, Width
<1> QED
  BY <1>6

\* multiplyInto is the product after the last row.
LEMMA ProductsOf ==
  ASSUME NEW l \in WordSeqs, NEW r \in WordSeqs
  PROVE  /\ multiplyInto(l, r) = Products(l, r)[Len(r)]
         /\ Products(l, r)[0] = [k \in 1 .. Width(l, r) |-> 0]
         /\ \A i \in 1 .. Len(r) :
              Products(l, r)[i] = multiplyByWordAddingInto(l, r[i], i, Products(l, r)[i - 1])
<1> DEFINE n == Len(r)
           p == Products(l, r)
<1>1. n \in Nat
  BY LengthIs
<1>2. IsProducts(l, r, p)
  <2>1. \E e : IsProducts(l, r, e)
    BY ProductsExist
  <2> QED
    BY <2>1, Zenon DEF Products
<1>3. multiplyInto(l, r) = p[Len(r)]
  BY Zenon DEF multiplyInto, Products, IsProducts
<1>4. p = [i \in 0 .. n |-> IF i = 0 THEN [k \in 1 .. Width(l, r) |-> 0]
                            ELSE multiplyByWordAddingInto(l, r[i], i, p[i - 1])]
  BY <1>2 DEF IsProducts, Width
<1> HIDE DEF p, n
<1>5. p[0] = [k \in 1 .. Width(l, r) |-> 0]
  <2>1. 0 \in 0 .. n
    BY <1>1
  <2> QED
    BY <2>1, <1>4
<1>6. ASSUME NEW i \in 1 .. n PROVE p[i] = multiplyByWordAddingInto(l, r[i], i, p[i - 1])
  <2>1. i \in 0 .. n /\ i # 0
    BY <1>1
  <2> QED
    BY <2>1, <1>4
<1> QED
  BY <1>3, <1>5, <1>6 DEF p, n

\* After so many rows, the words are those of a product of the words so far.
LEMMA ProductWords ==
  ASSUME NEW l \in WordSeqs, NEW r \in WordSeqs, NEW k \in 0 .. Len(r)
  PROVE  /\ Products(l, r)[k] \in WordSeqs /\ Len(Products(l, r)[k]) = Width(l, r)
         /\ ZeroFrom(Products(l, r)[k], k + Len(l) + 1)
<1> DEFINE n == Len(r)
           w == Width(l, r)
           p == Products(l, r)
           S == {i \in 0 .. n : /\ p[i] \in WordSeqs /\ Len(p[i]) = w
                                /\ ZeroFrom(p[i], i + Len(l) + 1)}
<1>1. n \in Nat /\ w \in Nat /\ w = Len(l) + n + 1 /\ Len(l) \in Nat
  BY LengthIs DEF Width
<1>2. p[0] = [k_1 \in 1 .. w |-> 0]
  BY ProductsOf
<1>3. \A i \in 1 .. n : p[i] = multiplyByWordAddingInto(l, r[i], i, p[i - 1])
  BY ProductsOf
<1> HIDE DEF p, n, w
<1>4. 0 \in S
  <2> DEFINE z == [k_1 \in 1 .. w |-> 0]
  <2>1. z \in [1 .. w -> Digit] /\ p[0] = z /\ \A i \in 1 .. w : z[i] = 0
    BY <1>2, WidthFacts DEF Digit
  <2> HIDE DEF z
  <2>2. z \in WordSeqs /\ Len(z) = w
    BY <2>1, <1>1 DEF WordSeqs
  <2>3. ASSUME NEW i \in Nat \ {0} PROVE WordAt(z, i) = 0
    <3>1. i \in Int
      OBVIOUS
    <3>2. CASE i \in 1 .. w
      <4>1. i \in 1 .. Len(z)
        BY <3>2, <2>2
      <4>2. WordAt(z, i) = z[i]
        BY <3>1, <4>1, <2>2, WordAtIs
      <4> QED
        BY <4>2, <3>2, <2>1
    <3>3. CASE i \notin 1 .. w
      <4>1. i \notin 1 .. Len(z)
        BY <3>3, <2>2
      <4> QED
        BY <3>1, <4>1, <2>2, WordAtIs
    <3> QED
      BY <3>2, <3>3
  <2>4. ZeroFrom(p[0], 0 + Len(l) + 1)
    BY <2>1, <2>3 DEF ZeroFrom
  <2> QED
    BY <2>1, <2>2, <2>4, <1>1
<1>5. ASSUME NEW i \in 0 .. n - 1, i \in S PROVE i + 1 \in S
  <2>1. i + 1 \in 1 .. n /\ (i + 1) - 1 = i /\ i + 1 \in 0 .. n /\ i + 1 \in 1 .. w
        /\ (i + 1) + Len(l) <= w /\ i + Len(l) + 1 = (i + 1) + Len(l)
    BY <1>1
  <2>2. p[i] \in WordSeqs /\ Len(p[i]) = w /\ ZeroFrom(p[i], (i + 1) + Len(l))
    BY <2>1, <1>5
  <2>3. r[i + 1] \in Digit
    BY <2>1 DEF WordSeqs, n
  <2>4. p[i + 1] = multiplyByWordAddingInto(l, r[i + 1], i + 1, p[i])
    BY <2>1, <1>3
  <2>5. p[i + 1] \in WordSeqs /\ Len(p[i + 1]) = w
    BY <2>1, <2>2, <2>3, <2>4, RowWords
  <2>6. ZeroFrom(p[i + 1], (i + 1) + Len(l) + 1)
    BY <2>1, <2>2, <2>3, <2>4, RowEnds
  <2> QED
    BY <2>1, <2>5, <2>6
<1>6. \A i \in 0 .. n : i \in S
  <2> HIDE DEF S
  <2>1. 0 \in Int /\ n \in Int
    BY <1>1
  <2>2. \A i \in 0 .. n - 1 : i \in S => i + 1 \in S
    BY <1>5
  <2> QED
    BY <2>1, <2>2, <1>4, Upwards
<1> QED
  BY <1>6 DEF p, n, w

\* A row adds its word's multiple of the first magnitude, and keeps the words below.
LEMMA ProductRow ==
  ASSUME NEW l \in WordSeqs, NEW r \in WordSeqs, NEW k \in 1 .. Len(r)
  PROVE  /\ From(Products(l, r)[k])[k]
              = From(Products(l, r)[k - 1])[k] + WordAt(r, k) * Magnitude(l)
         /\ \A i \in 1 .. k - 1 :
              WordAt(Products(l, r)[k], i) = WordAt(Products(l, r)[k - 1], i)
<1> DEFINE w == Width(l, r)
           p == Products(l, r)[k - 1]
           q == Products(l, r)[k]
<1>1. /\ w \in Nat /\ w = Len(l) + Len(r) + 1 /\ Len(l) \in Nat /\ Len(r) \in Nat
      /\ k \in Int /\ k >= 1 /\ k <= Len(r) /\ k - 1 \in 0 .. Len(r)
      /\ (k - 1) + Len(l) + 1 = k + Len(l)
  BY LengthIs DEF Width
<1>2. p \in WordSeqs /\ Len(p) = w /\ ZeroFrom(p, (k - 1) + Len(l) + 1)
  BY <1>1, ProductWords
<1>3. q = multiplyByWordAddingInto(l, r[k], k, p)
  BY ProductsOf
<1>4. WordAt(r, k) = r[k] /\ r[k] \in Digit
  <2>1. WordAt(r, k) \in Digit /\ WordAt(r, k) = r[k]
    BY <1>1, WordAtIs
  <2> QED
    BY <2>1
<1> HIDE DEF p, q, w
<1>5. k \in 1 .. Len(p) /\ k + Len(l) <= Len(p) /\ ZeroFrom(p, k + Len(l))
  BY <1>1, <1>2
<1>6. From(q)[k] = From(p)[k] + r[k] * Magnitude(l)
  BY <1>2, <1>3, <1>4, <1>5, RowIs
<1>7. ASSUME NEW i \in 1 .. k - 1 PROVE WordAt(q, i) = WordAt(p, i)
  <2>1. i \in 1 .. Len(p) /\ i < k
    BY <1>1, <1>5
  <2> QED
    BY <2>1, <1>2, <1>3, <1>4, <1>5, RowWords
<1> QED
  BY <1>4, <1>6, <1>7 DEF p, q

\* A row does not change the words below it.
LEMMA ProductKeeps ==
  ASSUME NEW l \in WordSeqs, NEW r \in WordSeqs, NEW k \in 1 .. Len(r)
  PROVE  WordAt(Products(l, r)[Len(r)], k) = WordAt(Products(l, r)[k], k)
<1> DEFINE n == Len(r)
           p == Products(l, r)
           S == {i \in k .. n : WordAt(p[i], k) = WordAt(p[k], k)}
<1>1. n \in Int /\ k \in Int /\ 1 <= k /\ k <= n
  BY LengthIs
<1>2. ASSUME NEW i \in 1 .. n, NEW j \in 1 .. i - 1 PROVE WordAt(p[i], j) = WordAt(p[i - 1], j)
  BY ProductRow
<1> HIDE DEF p, n
<1>3. k \in S
  BY <1>1
<1>4. ASSUME NEW i \in k .. n - 1, i \in S PROVE i + 1 \in S
  <2>1. i + 1 \in 1 .. n /\ k \in 1 .. (i + 1) - 1 /\ (i + 1) - 1 = i /\ i + 1 \in k .. n
    BY <1>1
  <2>2. WordAt(p[i + 1], k) = WordAt(p[(i + 1) - 1], k)
    BY <2>1, <1>2
  <2> QED
    BY <2>1, <2>2, <1>4
<1>5. n \in S
  <2> HIDE DEF S
  <2>1. n \in k .. n
    BY <1>1
  <2>2. \A i \in k .. n - 1 : i \in S => i + 1 \in S
    BY <1>4
  <2>3. \A i \in k .. n : i \in S
    BY <1>1, <1>3, <2>2, Upwards
  <2> QED
    BY <2>1, <2>3
<1> QED
  BY <1>5 DEF p, n

\* The words of the product, its highest one zero.
LEMMA StepOfProduct ==
  ASSUME NEW b \in Int, NEW f \in Int, NEW fn \in Int, NEW pw \in Int, NEW pn \in Int,
         NEW q \in Int, NEW m \in Int, NEW rw \in Int, NEW rn \in Int,
         fn = pn + m * rn, f = pw + b * fn, pw + b * pn = q + rw * m
  PROVE  f = q + m * (rw + b * rn)
<1>1. b * fn = b * pn + b * (m * rn)
  OBVIOUS
<1>2. m * (rw + b * rn) = rw * m + b * (m * rn)
  OBVIOUS
<1>3. b * pn \in Int /\ b * (m * rn) \in Int /\ rw * m \in Int
  OBVIOUS
<1> QED
  BY <1>1, <1>2, <1>3

\* multiplyInto multiplies: the magnitude of its words is the product, and its highest
\* word is zero.
LEMMA ProductIs ==
  ASSUME NEW l \in WordSeqs, NEW r \in WordSeqs
  PROVE  /\ multiplyInto(l, r) \in WordSeqs
         /\ Len(multiplyInto(l, r)) = Width(l, r)
         /\ WordAt(multiplyInto(l, r), Width(l, r)) = 0
         /\ Magnitude(multiplyInto(l, r)) = Magnitude(l) * Magnitude(r)
<1> DEFINE n == Len(r)
           p == Products(l, r)
           f == p[n]
           M == Magnitude(l)
           R == From(r)
           F == From(f)
           S == {k \in 0 .. n : F[k + 1] = From(p[k])[k + 1] + M * R[k + 1]}
<1>1. n \in Nat /\ Len(l) \in Nat /\ WordBase \in Int /\ M \in Int
  BY LengthIs, WidthFacts, MagnitudeIsNat
<1>2. multiplyInto(l, r) = f
  BY ProductsOf
<1>3. ASSUME NEW k \in 0 .. n
      PROVE  p[k] \in WordSeqs /\ Len(p[k]) = Width(l, r) /\ ZeroFrom(p[k], k + Len(l) + 1)
  BY ProductWords
<1>4. ASSUME NEW k \in 1 .. n
      PROVE  /\ From(p[k])[k] = From(p[k - 1])[k] + WordAt(r, k) * M
             /\ WordAt(f, k) = WordAt(p[k], k)
  BY ProductRow, ProductKeeps
<1>5. ASSUME NEW i \in Int, i >= 1
      PROVE  /\ R[i] = WordAt(r, i) + WordBase * R[i + 1] /\ (i > n => R[i] = 0)
             /\ R[i] \in Nat /\ R[i + 1] \in Nat
  BY <1>5, FromAt
<1>6. f \in WordSeqs /\ Len(f) = Width(l, r) /\ ZeroFrom(f, n + Len(l) + 1)
  <2>1. n \in 0 .. n
    BY <1>1
  <2> QED
    BY <2>1, <1>3
<1>7. ASSUME NEW i \in Int, i >= 1
      PROVE  F[i] = WordAt(f, i) + WordBase * F[i + 1] /\ F[i] \in Nat /\ F[i + 1] \in Nat
  <2> HIDE DEF f
  <2> QED
    BY <1>6, <1>7, FromAt
<1>8. R[1] = Magnitude(r) /\ F[1] = Magnitude(f)
  <2> HIDE DEF f
  <2> QED
    BY <1>6, FromFirst
<1>9. WordAt(f, Width(l, r)) = 0
  <2>1. Width(l, r) \in Nat \ {0} /\ Width(l, r) >= n + Len(l) + 1
    BY <1>1 DEF Width
  <2> HIDE DEF f, n
  <2> QED
    BY <2>1, <1>6 DEF ZeroFrom
<1>10. From(p[0])[1] = 0
  <2>1. ASSUME NEW k \in Nat \ {0} PROVE WordAt(p[0], k) = 0
    <3>1. p[0] = [i \in 1 .. Width(l, r) |-> 0]
      BY ProductsOf
    <3> QED
      BY <3>1 DEF WordAt
  <2>2. 0 \in 0 .. n
    BY <1>1
  <2>3. p[0] \in WordSeqs
    BY <2>2, <1>3
  <2>4. <<>> \in WordSeqs /\ Len(<<>>) = 0
    BY DEF WordSeqs
  <2>5. ASSUME NEW k \in Nat \ {0} PROVE WordAt(<<>>, k) = 0
    BY DEF WordAt
  <2>6. Magnitude(p[0]) = Magnitude(<<>>)
    BY <2>1, <2>3, <2>4, <2>5, SameWordsSameMagnitude
  <2>7. From(<<>>)[1] = 0
    BY <2>4, FromAt
  <2>8. Magnitude(<<>>) = 0
    BY <2>4, <2>7, FromFirst
  <2> QED
    BY <2>3, <2>6, <2>8, FromFirst
<1> HIDE DEF f, p, n, R, F, M
<1>11. n \in S
  <2>1. n + 1 \in Int /\ n + 1 >= 1 /\ n + 1 > n /\ n \in 0 .. n
    BY <1>1
  <2>2. R[n + 1] = 0 /\ F[n + 1] \in Nat
    BY <2>1, <1>5, <1>7
  <2>3. M * 0 = 0
    BY <1>1
  <2>4. From(p[n])[n + 1] = F[n + 1]
    BY DEF F, f
  <2>5. F[n + 1] = From(p[n])[n + 1] + M * R[n + 1]
    BY <2>2, <2>3, <2>4
  <2> QED
    BY <2>1, <2>5
<1>12. ASSUME NEW j \in 0 .. n - 1, j + 1 \in S PROVE j \in S
  <2> DEFINE k == j + 1
  <2>1. k \in Int /\ k >= 1 /\ k \in 1 .. n /\ k \in 0 .. n /\ k - 1 = j /\ j \in 0 .. n
    BY <1>1
  <2>2. F[k + 1] = From(p[k])[k + 1] + M * R[k + 1]
    BY <1>12
  <2>3. F[k] = WordAt(f, k) + WordBase * F[k + 1] /\ F[k] \in Nat /\ F[k + 1] \in Nat
    BY <2>1, <1>7
  <2>4. R[k] = WordAt(r, k) + WordBase * R[k + 1] /\ R[k + 1] \in Nat
    BY <2>1, <1>5
  <2>5. p[k] \in WordSeqs /\ p[j] \in WordSeqs
    BY <2>1, <1>3
  <2>6. /\ From(p[k])[k] = WordAt(p[k], k) + WordBase * From(p[k])[k + 1]
        /\ From(p[k])[k + 1] \in Nat
    BY <2>1, <2>5, FromAt
  <2>7. From(p[j])[k] \in Nat
    BY <2>1, <2>5, FromAt
  <2>8. From(p[k])[k] = From(p[j])[k] + WordAt(r, k) * M /\ WordAt(f, k) = WordAt(p[k], k)
    BY <2>1, <1>4
  <2>9. WordAt(r, k) \in Nat
    BY <2>1, WordAtIs
  <2>10. WordAt(p[k], k) \in Nat
    BY <2>1, <2>5, WordAtIs
  <2> HIDE DEF k
  <2>11. PICK a \in Int : a = F[k]
    BY <2>3
  <2>12. PICK b \in Int : b = F[k + 1]
    BY <2>3
  <2>13. PICK c \in Int : c = WordAt(p[k], k)
    BY <2>10
  <2>14. PICK d \in Int : d = From(p[k])[k + 1]
    BY <2>6
  <2>15. PICK q \in Int : q = From(p[j])[k]
    BY <2>7
  <2>16. PICK u \in Int : u = WordAt(r, k)
    BY <2>9
  <2>17. PICK v \in Int : v = R[k + 1]
    BY <2>4
  <2>18. b = d + M * v
    BY <2>2, <2>12, <2>14, <2>17
  <2>19. a = c + WordBase * b
    BY <2>3, <2>8, <2>11, <2>12, <2>13
  <2>20. c + WordBase * d = q + u * M
    BY <2>6, <2>8, <2>13, <2>14, <2>15, <2>16
  <2>21. a = q + M * (u + WordBase * v)
    BY <1>1, <2>18, <2>19, <2>20, StepOfProduct
  <2>22. F[k] = From(p[j])[k] + M * R[k]
    BY <2>4, <2>11, <2>15, <2>16, <2>17, <2>21
  <2> QED
    BY <2>1, <2>22 DEF k
<1>13. 0 \in S
  <2> HIDE DEF S
  <2>1. 0 \in Int /\ n \in Int /\ 0 \in 0 .. n
    BY <1>1
  <2>2. \A j \in 0 .. n - 1 : j + 1 \in S => j \in S
    BY <1>12
  <2>3. \A j \in 0 .. n : j \in S
    BY <2>1, <2>2, <1>11, Downwards
  <2> QED
    BY <2>1, <2>3
<1>14. F[1] = M * R[1]
  <2>1. F[0 + 1] = From(p[0])[0 + 1] + M * R[0 + 1] /\ 0 + 1 = 1
    BY <1>13
  <2>2. R[1] \in Int
    BY <1>5
  <2>3. M * R[1] \in Int
    BY <2>2, <1>1
  <2> QED
    BY <2>1, <2>3, <1>10
<1> QED
  BY <1>2, <1>6, <1>8, <1>9, <1>14 DEF M

-----------------------------------------------------------------------------
(***************************************************************************)
(* The tuples that stand for numbers.                                      *)
(***************************************************************************)
\* A number from its sign and its magnitude.
WithSign(isNegative, magnitude) == IF isNegative THEN - magnitude ELSE magnitude

\* The tuples that stand for numbers: the immediates in range, and the large integers
\* of at least one word.
IsNumber(t) ==
  \/ \E v \in MinImmediate .. MaxImmediate : t = Immediate(v)
  \/ \E b \in BOOLEAN, w \in WordSeqs : Len(w) >= 1 /\ t = Large(b, w)

\* What an operation returns.
IsResult(t) == t = Other \/ IsNumber(t)

\* What an immediate is.
LEMMA ImmediateIs ==
  ASSUME NEW v
  PROVE  /\ isImmediate(Immediate(v)) /\ IsInteger(Immediate(v))
         /\ Immediate(v).value = v /\ Value(Immediate(v)) = v
         /\ Immediate(v).words = <<>>
BY DEF Immediate, isImmediate, IsInteger, Value

\* What a large integer is.
LEMMA LargeIs ==
  ASSUME NEW b \in BOOLEAN, NEW w
  PROVE  /\ ~isImmediate(Large(b, w)) /\ IsInteger(Large(b, w))
         /\ Large(b, w).words = w
         /\ (Large(b, w).kind = "largeNegative") = b
         /\ Value(Large(b, w)) = WithSign(b, Magnitude(w))
<1>1. CASE b = TRUE
  BY <1>1 DEF Large, isImmediate, IsInteger, Value, WithSign
<1>2. CASE b = FALSE
  BY <1>2 DEF Large, isImmediate, IsInteger, Value, WithSign
<1> QED
  BY <1>1, <1>2

\* An immediate in range stands for a number.
LEMMA ImmediateIsNumber ==
  ASSUME NEW v \in MinImmediate .. MaxImmediate
  PROVE  IsNumber(Immediate(v)) /\ IsResult(Immediate(v))
BY DEF IsNumber, IsResult

\* A large integer stands for a number.
LEMMA LargeIsNumber ==
  ASSUME NEW b \in BOOLEAN, NEW w \in WordSeqs, Len(w) >= 1
  PROVE  IsNumber(Large(b, w)) /\ IsResult(Large(b, w))
BY DEF IsNumber, IsResult

\* A tuple that is no integer is not taken for one.
LEMMA OtherIs == ~IsInteger(Other)
BY DEF IsInteger, Other

\* The number of one word.
LEMMA OfOneWord ==
  ASSUME NEW a \in Digit
  PROVE  <<a>> \in WordSeqs /\ Len(<<a>>) = 1 /\ Magnitude(<<a>>) = a
<1> DEFINE w == <<a>>
<1>1. w \in WordSeqs /\ Len(w) = 1 /\ w[1] = a
  BY DEF WordSeqs
<1> HIDE DEF w
<1>2. WordAt(w, 1) = a
  BY <1>1, WordAtIs
<1>3. From(w)[1] = WordAt(w, 1) + WordBase * From(w)[2] /\ From(w)[2] = 0
  <2>1. From(w)[1] = WordAt(w, 1) + WordBase * From(w)[1 + 1]
    BY <1>1, FromAt
  <2>2. From(w)[2] = 0
    <3>1. 2 \in Int /\ 2 >= 1 /\ 2 > Len(w)
      BY <1>1
    <3> QED
      BY <3>1, <1>1, FromAt
  <2> QED
    BY <2>1, <2>2
<1>4. a \in Int /\ WordBase \in Int
  BY DigitIs, WidthFacts
<1>5. From(w)[1] = a
  BY <1>2, <1>3, <1>4
<1> QED
  BY <1>1, <1>5, FromFirst DEF w

\* The number of two words.
LEMMA OfTwoWords ==
  ASSUME NEW a \in Digit, NEW b \in Digit
  PROVE  <<a, b>> \in WordSeqs /\ Len(<<a, b>>) = 2 /\ Magnitude(<<a, b>>) = a + WordBase * b
<1> DEFINE w == <<a, b>>
<1>1. w \in WordSeqs /\ Len(w) = 2 /\ w[1] = a /\ w[2] = b
  BY DEF WordSeqs
<1> HIDE DEF w
<1>2. WordAt(w, 1) = a /\ WordAt(w, 2) = b
  BY <1>1, WordAtIs
<1>3. a \in Int /\ b \in Int /\ WordBase \in Int
  BY DigitIs, WidthFacts
<1>4. From(w)[2] = b
  <2>1. From(w)[2] = WordAt(w, 2) + WordBase * From(w)[2 + 1]
    BY <1>1, FromAt
  <2>2. From(w)[3] = 0
    <3>1. 3 \in Int /\ 3 >= 1 /\ 3 > Len(w)
      BY <1>1
    <3> QED
      BY <3>1, <1>1, FromAt
  <2> QED
    BY <2>1, <2>2, <1>2, <1>3
<1>5. From(w)[1] = a + WordBase * b
  <2>1. From(w)[1] = WordAt(w, 1) + WordBase * From(w)[1 + 1]
    BY <1>1, FromAt
  <2> QED
    BY <2>1, <1>2, <1>4
<1> QED
  BY <1>1, <1>5, FromFirst DEF w

\* A number below the square of the base has two words.
LEMMA TwoWords ==
  ASSUME NEW m \in Nat, m < WordBase * WordBase
  PROVE  m % WordBase \in Digit /\ m \div WordBase \in Digit
         /\ m = (m % WordBase) + WordBase * (m \div WordBase)
<1>1. WordBase \in Int /\ m \in Int /\ m >= WordBase * 0
  BY WidthFacts
<1>2. m \div WordBase \in Int /\ m % WordBase \in Digit
      /\ m = (m % WordBase) + WordBase * (m \div WordBase)
  BY <1>1, Divided
<1>3. m \div WordBase < WordBase
  BY <1>1, DividedBelow
<1>4. m \div WordBase >= 0
  BY <1>1, DividedAbove
<1> QED
  BY <1>2, <1>3, <1>4, IsDigit

-----------------------------------------------------------------------------
\* decodeLargeOrImmediate gives the sign and the magnitude of an immediate.
LEMMA DecodeImmediate ==
  ASSUME NEW v \in MinImmediate .. MaxImmediate
  PROVE  LET d == decodeLargeOrImmediate(Immediate(v))
         IN /\ d.isNegative \in BOOLEAN /\ d.words \in WordSeqs /\ Len(d.words) >= 1
            /\ v = WithSign(d.isNegative, Magnitude(d.words))
<1> DEFINE t == Immediate(v)
           m == IF v < 0 THEN - v ELSE v
           words == IF m < WordBase THEN <<m>> ELSE <<m % WordBase, m \div WordBase>>
           d == decodeLargeOrImmediate(t)
<1>1. isImmediate(t) /\ t.value = v
  BY ImmediateIs
<1>2. d = [isNegative |-> v < 0, words |-> words]
  BY <1>1 DEF decodeLargeOrImmediate
<1>3. v \in Int /\ v >= - Half /\ v < Half
  BY WidthFacts
<1>4. m \in Nat /\ m <= Half
  BY <1>3, WidthFacts
<1>5. m < WordBase * WordBase
  BY <1>4, WidthFacts
<1> HIDE DEF m
<1>6. words \in WordSeqs /\ Len(words) >= 1 /\ Magnitude(words) = m
  <2>1. CASE m < WordBase
    <3>1. m \in Digit
      BY <2>1, <1>4, IsDigit
    <3> QED
      BY <2>1, <3>1, OfOneWord
  <2>2. CASE ~(m < WordBase)
    BY <2>2, <1>4, <1>5, TwoWords, OfTwoWords
  <2> QED
    BY <2>1, <2>2
<1> HIDE DEF words
<1>7. v = WithSign(v < 0, m)
  BY <1>3 DEF WithSign, m
<1>8. (v < 0) \in BOOLEAN
  OBVIOUS
<1>9. d.isNegative = (v < 0) /\ d.words = words
  BY <1>2
<1> HIDE DEF d
<1> QED
  BY <1>6, <1>7, <1>8, <1>9 DEF d, t

\* decodeLargeOrImmediate drops only zero words of a large integer.
LEMMA DecodeLarge ==
  ASSUME NEW b \in BOOLEAN, NEW w \in WordSeqs, Len(w) >= 1
  PROVE  LET d == decodeLargeOrImmediate(Large(b, w))
         IN /\ d.isNegative = b /\ d.words \in WordSeqs /\ Len(d.words) >= 1
            /\ Magnitude(d.words) = Magnitude(w)
<1> DEFINE t == Large(b, w)
           n == Len(w)
           D == {1} \cup {i \in DOMAIN w : w[i] # 0}
           size == Max(D)
           d == decodeLargeOrImmediate(t)
           words == SubSeq(w, 1, size)
<1>1. ~isImmediate(t) /\ t.words = w /\ (t.kind = "largeNegative") = b
  BY LargeIs
<1>2. d = [isNegative |-> t.kind = "largeNegative", words |-> words]
  BY <1>1 DEF decodeLargeOrImmediate
<1>3. n \in Nat /\ n >= 1 /\ DOMAIN w = 1 .. n
  BY LengthIs
<1>4. size \in D /\ \A i \in D : i <= size
  <2>1. D \subseteq 0 .. n /\ D # {}
    BY <1>3
  <2> HIDE DEF D
  <2> QED
    BY <2>1, <1>3, MaxIsMember
<1>5. size \in 1 .. n
  BY <1>3, <1>4
<1>6. \A i \in 1 .. n : i > size => w[i] = 0
  <2> HIDE DEF size
  <2>1. ASSUME NEW i \in 1 .. n, i > size PROVE i \notin D
    BY <2>1, <1>4, <1>5
  <2> QED
    BY <2>1, <1>3
<1> HIDE DEF size
<1>7. words \in WordSeqs /\ Len(words) = size /\ \A i \in 1 .. size : words[i] = w[i]
  <2>1. \A i \in 1 .. n : w[i] \in Digit
    BY DEF WordSeqs
  <2>2. words = [i \in 1 .. size |-> w[i]]
    BY <1>5 DEF WordSeqs
  <2>3. words \in [1 .. size -> Digit]
    <3>1. \A i \in 1 .. size : i \in 1 .. n
      BY <1>3, <1>5
    <3> HIDE DEF n, words
    <3> QED
      BY <3>1, <2>1, <2>2
  <2>4. words \in Seq(Digit) /\ Len(words) = size
    <3> HIDE DEF words
    <3> QED
      BY <2>3, <1>5
  <2> QED
    BY <2>2, <2>4 DEF WordSeqs
<1> HIDE DEF words, n
<1>8. ASSUME NEW i \in Nat \ {0} PROVE WordAt(words, i) = WordAt(w, i)
  <2>1. i \in Int
    OBVIOUS
  <2>2. CASE i <= size
    <3>1. i \in 1 .. Len(words) /\ i \in 1 .. Len(w) /\ i \in 1 .. size
      BY <2>2, <1>5, <1>7 DEF n
    <3>2. WordAt(words, i) = words[i]
      BY <3>1, <2>1, <1>7, WordAtIs
    <3>3. WordAt(w, i) = w[i]
      BY <3>1, <2>1, WordAtIs
    <3> QED
      BY <3>1, <3>2, <3>3, <1>7
  <2>3. CASE ~(i <= size)
    <3>1. i \notin 1 .. Len(words)
      BY <2>3, <1>5, <1>7
    <3>2. WordAt(words, i) = 0
      BY <3>1, <2>1, <1>7, WordAtIs
    <3>3. WordAt(w, i) = 0
      <4>1. CASE i \in 1 .. n
        <5>1. w[i] = 0
          BY <4>1, <2>3, <1>5, <1>6
        <5> QED
          BY <5>1, <4>1, <2>1, WordAtIs DEF n
      <4>2. CASE i \notin 1 .. n
        BY <4>2, <2>1, WordAtIs DEF n
      <4> QED
        BY <4>1, <4>2
    <3> QED
      BY <3>2, <3>3
  <2> QED
    BY <2>2, <2>3
<1>9. Magnitude(words) = Magnitude(w)
  BY <1>7, <1>8, SameWordsSameMagnitude
<1>10. d.isNegative = b /\ d.words = words
  BY <1>1, <1>2
<1> HIDE DEF d
<1>11. Len(words) >= 1
  BY <1>5, <1>7
<1> QED
  BY <1>7, <1>9, <1>10, <1>11 DEF d, t

\* The sign and the words an operation starts from are those of the number.
Decoded(d, v) ==
  /\ d.isNegative \in BOOLEAN /\ d.words \in WordSeqs /\ Len(d.words) >= 1
  /\ v = WithSign(d.isNegative, Magnitude(d.words))

\* decodeLargeOrImmediate decodes: the sign and the words are those of the number.
LEMMA DecodeIs ==
  ASSUME NEW t, IsNumber(t)
  PROVE  Decoded(decodeLargeOrImmediate(t), Value(t)) /\ Value(t) \in Int /\ IsInteger(t)
<1>1. ASSUME NEW v \in MinImmediate .. MaxImmediate, t = Immediate(v)
      PROVE  Decoded(decodeLargeOrImmediate(t), Value(t)) /\ Value(t) \in Int /\ IsInteger(t)
  <2>1. Value(t) = v /\ v \in Int /\ IsInteger(t)
    BY <1>1, ImmediateIs, WidthFacts
  <2>2. Decoded(decodeLargeOrImmediate(Immediate(v)), v)
    BY DecodeImmediate DEF Decoded
  <2> QED
    BY <1>1, <2>1, <2>2
<1>2. ASSUME NEW b \in BOOLEAN, NEW w \in WordSeqs, Len(w) >= 1, t = Large(b, w)
      PROVE  Decoded(decodeLargeOrImmediate(t), Value(t)) /\ Value(t) \in Int /\ IsInteger(t)
  <2>1. Value(Large(b, w)) = WithSign(b, Magnitude(w)) /\ IsInteger(Large(b, w))
    BY LargeIs
  <2>2. Decoded(decodeLargeOrImmediate(Large(b, w)), WithSign(b, Magnitude(w)))
    BY <1>2, DecodeLarge DEF Decoded
  <2>3. WithSign(b, Magnitude(w)) \in Int
    <3>1. Magnitude(w) \in Nat
      BY MagnitudeIsNat
    <3> QED
      BY <3>1 DEF WithSign
  <2> QED
    BY <1>2, <2>1, <2>2, <2>3
<1> QED
  BY <1>1, <1>2 DEF IsNumber

\* Division by any positive number.
LEMMA DividedBy ==
  ASSUME NEW a \in Int, NEW c \in Nat, c > 0
  PROVE  /\ a % c \in Int /\ 0 <= a % c /\ a % c < c
         /\ a \div c \in Int /\ a = (a % c) + c * (a \div c)
OBVIOUS

\* The number that is kept, with so many bits, is the only one in range that
\* differs by a multiple.
WrappedBy(v, h) == ((v + h) % (2 * h)) - h

\* Wrapping keeps what is in range, and otherwise differs by a multiple.
LEMMA WrappedIs ==
  ASSUME NEW v \in Int, NEW h \in Nat, h >= 1
  PROVE  /\ WrappedBy(v, h) \in Int /\ - h <= WrappedBy(v, h) /\ WrappedBy(v, h) < h
         /\ \E q \in Int : v = WrappedBy(v, h) + (2 * h) * q
         /\ - h <= v /\ v < h => WrappedBy(v, h) = v
<1> DEFINE c == 2 * h
           r == (v + h) % c
           q == (v + h) \div c
<1>1. c \in Nat /\ c > 0 /\ v + h \in Int /\ h \in Int /\ c = h + h
  OBVIOUS
<1> HIDE DEF c
<1>2. r \in Int /\ 0 <= r /\ r < c /\ q \in Int /\ v + h = r + c * q
  BY <1>1, DividedBy
<1> HIDE DEF r, q
<1>3. WrappedBy(v, h) = r - h
  BY DEF WrappedBy, r, c
<1>4. c * q \in Int
  BY <1>1, <1>2
<1>5. v = WrappedBy(v, h) + c * q
  BY <1>1, <1>2, <1>3, <1>4
<1>6. ASSUME - h <= v, v < h PROVE WrappedBy(v, h) = v
  <2>1. c * q > - c /\ c * q < c
    BY <1>1, <1>2, <1>4, <1>6
  <2>2. q = 0
    <3>1. CASE q >= 1
      <4>1. c * q >= c
        BY <3>1, <1>1, <1>2
      <4> QED
        BY <4>1, <2>1, <1>1, <1>4
    <3>2. CASE q <= -1
      <4>1. c * q <= - c
        BY <3>2, <1>1, <1>2
      <4> QED
        BY <4>1, <2>1, <1>1, <1>4
    <3> QED
      BY <3>1, <3>2, <1>2
  <2>3. c * 0 = 0
    BY <1>1
  <2> QED
    BY <2>2, <2>3, <1>1, <1>2, <1>3
<1>7. WrappedBy(v, h) \in Int /\ - h <= WrappedBy(v, h) /\ WrappedBy(v, h) < h
  BY <1>1, <1>2, <1>3
<1> QED
  BY <1>2, <1>5, <1>6, <1>7 DEF c

\* The two widths the code wraps at.
LEMMA WrappedWidths ==
  ASSUME NEW v \in Int
  PROVE  /\ Wrapped(v, ImmediateBits) = WrappedBy(v, Half)
         /\ Wrapped(v, NativeBits) = WrappedBy(v, HalfNative)
BY WidthFacts DEF Wrapped, WrappedBy, Half, HalfNative

\* encodeSmall returns an immediate, and keeps the number if it is in range.
LEMMA EncodeSmallIs ==
  ASSUME NEW v \in Int
  PROVE  /\ IsNumber(encodeSmall(v)) /\ isImmediate(encodeSmall(v))
         /\ v \in MinImmediate .. MaxImmediate => encodeSmall(v) = Immediate(v)
<1> DEFINE w == WrappedBy(v, Half)
<1>1. Half \in Nat /\ Half >= 1 /\ MinImmediate = - Half /\ MaxImmediate = Half - 1
  BY WidthFacts
<1>2. /\ w \in Int /\ - Half <= w /\ w < Half
      /\ - Half <= v /\ v < Half => w = v
  BY <1>1, WrappedIs
<1>3. encodeSmall(v) = Immediate(w)
  BY WrappedWidths DEF encodeSmall
<1> HIDE DEF w
<1>4. w \in MinImmediate .. MaxImmediate
  BY <1>1, <1>2
<1>5. v \in MinImmediate .. MaxImmediate => w = v
  BY <1>1, <1>2
<1> QED
  BY <1>3, <1>4, <1>5, ImmediateIs, ImmediateIsNumber

\* encodeInt64 keeps every number from the least immediate on that has two words, and
\* the least native integer, whose two's complement is its magnitude.
LEMMA EncodeIs ==
  ASSUME NEW v \in Int
  PROVE  /\ IsNumber(encodeInt64(v))
         /\ v \in MinImmediate .. MaxImmediate => encodeInt64(v) = Immediate(v)
         /\ v >= MinImmediate /\ v < WordBase * WordBase => Value(encodeInt64(v)) = v
         /\ v = - HalfNative => Value(encodeInt64(v)) = v
<1>1. Half \in Nat /\ Half >= 1 /\ MinImmediate = - Half /\ MaxImmediate = Half - 1
      /\ WordBase \in Int
  BY WidthFacts
<1>2. CASE v \in MinImmediate .. MaxImmediate
  <2>1. encodeInt64(v) = Immediate(v)
    BY <1>2, EncodeSmallIs DEF encodeInt64
  <2> QED
    BY <2>1, <1>2, ImmediateIs, ImmediateIsNumber
<1>3. CASE v \notin MinImmediate .. MaxImmediate
  <2> DEFINE m == IF v >= 0 THEN v ELSE - v
             w == <<v % WordBase, (v \div WordBase) % WordBase>>
             words == IF m < WordBase THEN <<w[1]>> ELSE w
  <2>1. encodeInt64(v) = Large(v < 0, words)
    BY <1>3 DEF encodeInt64, encodeBigInt64
  <2>2. v % WordBase \in Digit /\ v \div WordBase \in Int
    BY Divided
  <2>3. (v \div WordBase) % WordBase \in Digit
    BY <2>2, Divided
  <2>4. w \in WordSeqs /\ Len(w) = 2 /\ w[1] = v % WordBase
    BY <2>2, <2>3, OfTwoWords
  <2>5. <<w[1]>> \in WordSeqs /\ Len(<<w[1]>>) = 1
    BY <2>2, <2>4, OfOneWord
  <2>6. words \in WordSeqs /\ Len(words) >= 1
    BY <2>4, <2>5
  <2>7. (v < 0) \in BOOLEAN
    OBVIOUS
  <2>8. ASSUME v >= MinImmediate, v < WordBase * WordBase PROVE Value(encodeInt64(v)) = v
    <3>1. v >= Half /\ v \in Nat /\ v >= WordBase /\ ~(v < 0) /\ ~(m < WordBase)
      BY <2>8, <1>1, <1>3, WidthFacts
    <3>2. v % WordBase \in Digit /\ v \div WordBase \in Digit
          /\ v = (v % WordBase) + WordBase * (v \div WordBase)
      BY <2>8, <3>1, TwoWords
    <3>3. (v \div WordBase) % WordBase = v \div WordBase
      <4>1. \A d \in Int : 0 <= d /\ d < WordBase => d % WordBase = d
        BY <1>1
      <4>2. v \div WordBase \in Nat /\ v \div WordBase < WordBase
        BY <3>2, DigitIs
      <4> QED
        BY <4>1, <4>2
    <3>4. words = <<v % WordBase, v \div WordBase>>
      BY <3>1, <3>3
    <3>5. Magnitude(words) = v
      BY <3>2, <3>4, OfTwoWords
    <3>6. Value(Large(FALSE, words)) = WithSign(FALSE, Magnitude(words))
      BY LargeIs
    <3>7. encodeInt64(v) = Large(FALSE, words)
      <4>1. (v < 0) = FALSE
        BY <3>1
      <4> HIDE DEF words
      <4> QED
        BY Zenon, <2>1, <4>1
    <3> QED
      BY <3>5, <3>6, <3>7 DEF WithSign
  <2>9. ASSUME v = - HalfNative PROVE Value(encodeInt64(v)) = v
    <3> DEFINE q == v \div WordBase
    <3>1. /\ WordBase \in Nat /\ HalfNative \in Nat /\ 2 * HalfNative = WordBase * WordBase
          /\ WordBase <= HalfNative /\ HalfNative > 0
      BY WidthFacts
    <3>2. v < 0 /\ ~(m < WordBase)
      BY <3>1, <2>9
    <3>3. q \in Int /\ v % WordBase \in Int /\ v = (v % WordBase) + WordBase * q
      BY Divided
    <3>4. - WordBase <= q /\ q < 0
      <4>1. WordBase * (- WordBase) = - (WordBase * WordBase) /\ WordBase * 0 = 0
            /\ - WordBase \in Int
        BY <3>1
      <4>2. v >= WordBase * (- WordBase) /\ v < WordBase * 0
        BY <4>1, <3>1, <2>9
      <4> QED
        BY <4>1, <4>2, DividedAbove, DividedBelow
    <3> HIDE DEF q
    <3>5. q % WordBase = q + WordBase
      <4>1. WordBase * (- 1) = - WordBase /\ WordBase * 0 = 0
        BY <3>1
      <4>2. - 1 <= q \div WordBase /\ q \div WordBase < 0 /\ q \div WordBase \in Int
        BY <4>1, <3>3, <3>4, DividedAbove, DividedBelow, Divided
      <4>3. q \div WordBase = - 1
        BY <4>2
      <4>4. q = (q % WordBase) + WordBase * (- 1) /\ q % WordBase \in Int
        BY <4>3, <3>3, Divided
      <4> QED
        BY <4>1, <4>4, <3>1, <3>3
    <3>6. Magnitude(w) = (v % WordBase) + WordBase * (q % WordBase)
      BY <2>2, <2>3, OfTwoWords DEF q
    <3>7. WordBase * (q + WordBase) = WordBase * q + WordBase * WordBase
      BY <3>1, <3>3
    <3>8. Magnitude(w) = HalfNative
      <4>1. WordBase * q \in Int
        BY <3>1, <3>3
      <4>2. Magnitude(w) = (v % WordBase) + (WordBase * q + WordBase * WordBase)
        BY <3>5, <3>6, <3>7
      <4> QED
        BY <4>1, <4>2, <3>1, <3>3, <2>9
    <3>9. encodeInt64(v) = Large(TRUE, w)
      <4>1. (v < 0) = TRUE /\ words = w
        BY <3>2
      <4> HIDE DEF words, w
      <4> QED
        BY Zenon, <2>1, <4>1
    <3>10. Value(Large(TRUE, w)) = - Magnitude(w)
      BY LargeIs DEF WithSign
    <3> QED
      BY <3>8, <3>9, <3>10, <2>9
  <2> HIDE DEF words
  <2>10. IsNumber(encodeInt64(v))
    BY <2>1, <2>6, <2>7, LargeIsNumber
  <2> QED
    BY <2>8, <2>9, <2>10, <1>3
<1> QED
  BY <1>2, <1>3

-----------------------------------------------------------------------------
\* normalize returns a result, and leaves alone what has a zero word at the top. Of two
\* words, with a zero in the lower, it makes an immediate where the number fits.
LEMMA NormalizeIs ==
  ASSUME NEW b \in BOOLEAN, NEW w \in WordSeqs, Len(w) >= 1
  PROVE  /\ IsResult(normalize(Large(b, w)))
         /\ w[Len(w)] = 0 => normalize(Large(b, w)) = Large(b, w)
         /\ (w[Len(w)] # 0 /\ ~LosesWords(Large(b, w))) =>
               /\ IsNumber(normalize(Large(b, w)))
               /\ Value(normalize(Large(b, w))) = Value(Large(b, w))
<1> DEFINE t == Large(b, w)
           n == Len(w)
           D == {0} \cup {i \in DOMAIN w : w[i] = 0}
           kept == Max(D)
           value == w[1] + WordBase * w[2]
           bound == IF b THEN - MinImmediate ELSE MaxImmediate
<1>1. t.words = w /\ (t.kind = "largeNegative") = b
  BY LargeIs
<1>2. n \in Nat /\ n >= 1 /\ DOMAIN w = 1 .. n /\ \A i \in 1 .. n : w[i] \in Digit
  BY LengthIs DEF WordSeqs
<1>3. kept \in D /\ \A i \in D : i <= kept
  <2>1. D \subseteq 0 .. n /\ D # {}
    BY <1>2
  <2> HIDE DEF D
  <2> QED
    BY <2>1, <1>2, MaxIsMember
<1>4. kept \in 0 .. n
  BY <1>2, <1>3
<1>5. w[n] = 0 => kept = n
  <2> HIDE DEF kept
  <2>1. ASSUME w[n] = 0 PROVE n \in D
    BY <2>1, <1>2
  <2>2. ASSUME n \in D PROVE kept = n
    <3> HIDE DEF D
    <3> QED
      BY <2>2, <1>3, <1>4
  <2> QED
    BY <2>1, <2>2
<1>6. normalize(t)
        = CASE kept = n -> t
            [] kept # n /\ kept = 0 -> Immediate(0)
            [] kept # n /\ kept \in 1 .. 2 /\ value <= bound ->
                 Immediate(IF b THEN - value ELSE value)
            [] OTHER -> IF kept = 1 THEN Immediate(0) ELSE Other
  BY <1>1 DEF normalize
<1> HIDE DEF kept, n
<1>7. IsResult(t)
  BY LargeIsNumber
<1>8. IsResult(Immediate(0)) /\ IsResult(Other)
  <2>1. 0 \in MinImmediate .. MaxImmediate
    BY WidthFacts
  <2> QED
    BY <2>1, ImmediateIsNumber DEF IsResult
<1>9. ASSUME w[Len(w)] # 0, ~LosesWords(t)
      PROVE  IsNumber(normalize(t)) /\ Value(normalize(t)) = Value(t)
  <2>1. n = 2 /\ w[1] = 0 /\ w[2] # 0 /\ Value(t) \in MinImmediate .. MaxImmediate
    <3>1. ~isImmediate(t)
      BY LargeIs
    <3> HIDE DEF t
    <3> QED
      BY <3>1, <1>1, <1>9 DEF LosesWords, n
  <2>2. kept = 1
    <3>1. 1 \in D /\ 2 \notin D
      BY <2>1, <1>2
    <3> HIDE DEF D
    <3> QED
      BY <3>1, <2>1, <1>3, <1>4
  <2>3. w[1] \in Digit /\ w[2] \in Digit /\ w = <<w[1], w[2]>>
    BY <2>1, <1>2 DEF n, WordSeqs
  <2>4. Magnitude(w) = value
    BY <2>3, OfTwoWords
  <2>5. value \in Nat
    <3>1. w[1] \in Nat /\ w[2] \in Nat /\ WordBase \in Nat
      BY <2>3, DigitIs, WidthFacts
    <3> QED
      BY <3>1
  <2> HIDE DEF value
  <2>6. Value(t) = IF b THEN - value ELSE value
    BY <2>4, LargeIs DEF WithSign
  <2>7. value <= bound
    <3>1. Half \in Nat /\ MinImmediate = - Half /\ MaxImmediate = Half - 1
      BY WidthFacts
    <3> HIDE DEF t
    <3> QED
      BY <3>1, <2>1, <2>5, <2>6
  <2> HIDE DEF bound
  <2>8. normalize(t) = Immediate(Value(t))
    BY <2>1, <2>2, <2>6, <2>7, <1>6
  <2> HIDE DEF t
  <2> QED
    BY <2>1, <2>8, ImmediateIs, ImmediateIsNumber
<1>10. CASE kept = n
  <2>1. normalize(t) = t
    BY <1>6, <1>10
  <2> QED
    BY <2>1, <1>7, <1>9
<1>11. CASE kept # n /\ kept = 0
  <2>1. normalize(t) = Immediate(0)
    BY <1>6, <1>11
  <2> QED
    BY <2>1, <1>5, <1>8, <1>9, <1>11 DEF n
<1>12. CASE kept # n /\ kept # 0 /\ kept \in 1 .. 2 /\ value <= bound
  <2>1. normalize(t) = Immediate(IF b THEN - value ELSE value)
    BY <1>6, <1>12
  <2>2. w[1] \in Nat /\ w[2] \in Nat
    <3>1. 1 \in 1 .. n /\ 2 \in 1 .. n
      BY <1>4, <1>2, <1>12
    <3> QED
      BY <3>1, <1>2, DigitIs
  <2>3. value \in Nat
    BY <2>2, WidthFacts
  <2> HIDE DEF value
  <2>4. (IF b THEN - value ELSE value) \in MinImmediate .. MaxImmediate
    <3>1. Half \in Nat /\ Half >= 1 /\ MinImmediate = - Half /\ MaxImmediate = Half - 1
      BY WidthFacts
    <3> QED
      BY <3>1, <2>3, <1>12
  <2>5. IsResult(normalize(t))
    BY <2>1, <2>4, ImmediateIsNumber
  <2> QED
    BY <2>5, <1>5, <1>9, <1>12 DEF n
<1>13. CASE kept # n /\ kept # 0 /\ ~(kept \in 1 .. 2 /\ value <= bound)
  <2>1. normalize(t) = IF kept = 1 THEN Immediate(0) ELSE Other
    BY <1>6, <1>13
  <2>2. IsResult(normalize(t))
    BY <2>1, <1>8
  <2> QED
    BY <2>2, <1>5, <1>9, <1>13 DEF n
<1> QED
  BY <1>10, <1>11, <1>12, <1>13

\* The faulty cases of two immediates.
LEMMA FaultyImmediates ==
  ASSUME NEW l, NEW r, isImmediate(l), isImmediate(r)
  PROVE  /\ Faulty("+", l, r) <=> l.value + r.value \in 1 - HalfNative .. MinImmediate - 1
         /\ Faulty("-", l, r) <=> l.value - r.value \in 1 - HalfNative .. MinImmediate - 1
         /\ Faulty("*", l, r) <=> l.value * r.value \in 1 - HalfNative .. MinImmediate - 1
         /\ Faulty("//", l, r) <=> Quotient(l.value, r.value) > MaxImmediate
         /\ Faulty("%", l, r) <=> l.value - r.value * Quotient(l.value, r.value) > MaxImmediate
BY DEF Faulty, Exact, HalfNative

\* The faulty cases with a large integer.
LEMMA FaultyLarges ==
  ASSUME NEW l, NEW r, ~(isImmediate(l) /\ isImmediate(r))
  PROVE  LET dl == decodeLargeOrImmediate(l)
             dr == decodeLargeOrImmediate(r)
         IN /\ Faulty("+", l, r) <=> dl.isNegative # dr.isNegative /\ FaultyDifference(dl, dr)
            /\ Faulty("-", l, r)
                 <=> /\ dl.isNegative = dr.isNegative
                     /\ FaultyDifference(dl, dr) \/ compareMagnitudes(dl.words, dr.words) < 0
            /\ Faulty("//", l, r) /\ Faulty("%", l, r)
BY DEF Faulty

\* The faulty cases of a single number.
LEMMA FaultyNegated ==
  ASSUME NEW l, NEW r
  PROVE  /\ Faulty("negated", l, r) <=> ~isImmediate(l) /\ LosesWords(Negative(l))
         /\ Faulty("factorial", l, r) <=> ~isImmediate(l) /\ Value(l) > 1
BY DEF Faulty

\* A number that is an immediate is in range.
LEMMA AsImmediate ==
  ASSUME NEW t, IsNumber(t), isImmediate(t)
  PROVE  /\ t.value \in MinImmediate .. MaxImmediate /\ t.value \in Int
         /\ t = Immediate(t.value) /\ Value(t) = t.value
         /\ - Half <= t.value /\ t.value < Half
<1>1. PICK v \in MinImmediate .. MaxImmediate : t = Immediate(v)
  <2>1. ASSUME NEW b \in BOOLEAN, NEW w PROVE t # Large(b, w)
    <3>1. ~isImmediate(Large(b, w))
      BY LargeIs
    <3> QED
      BY <3>1
  <2> QED
    BY <2>1 DEF IsNumber
<1>2. t.value = v /\ Value(t) = v
  BY <1>1, ImmediateIs
<1>3. v \in Int /\ - Half <= v /\ v < Half
  BY WidthFacts
<1> QED
  BY <1>1, <1>2, <1>3

\* A number that is not an immediate has words.
LEMMA AsLarge ==
  ASSUME NEW t, IsNumber(t), ~isImmediate(t)
  PROVE  \E b \in BOOLEAN, w \in WordSeqs : Len(w) >= 1 /\ t = Large(b, w)
<1>1. ASSUME NEW v PROVE t # Immediate(v)
  BY ImmediateIs
<1> QED
  BY <1>1 DEF IsNumber

\* Sum and difference under one sign.
LEMMA SameSign ==
  ASSUME NEW m \in Int, NEW n \in Int, NEW b \in BOOLEAN
  PROVE  /\ WithSign(b, m) + WithSign(b, n) = WithSign(b, m + n)
         /\ WithSign(b, m) - WithSign(b, n) = WithSign(b, m - n)
<1>1. CASE b
  <2>1. WithSign(b, m) = - m /\ WithSign(b, n) = - n
    BY <1>1 DEF WithSign
  <2>2. WithSign(b, m + n) = - (m + n) /\ WithSign(b, m - n) = - (m - n)
    BY <1>1 DEF WithSign
  <2> QED
    BY <2>1, <2>2
<1>2. CASE ~b
  <2>1. WithSign(b, m) = m /\ WithSign(b, n) = n
    BY <1>2 DEF WithSign
  <2>2. WithSign(b, m + n) = m + n /\ WithSign(b, m - n) = m - n
    BY <1>2 DEF WithSign
  <2> QED
    BY <2>1, <2>2
<1> QED
  BY <1>1, <1>2

\* Sum and difference under two signs.
LEMMA OtherSign ==
  ASSUME NEW m \in Int, NEW n \in Int, NEW b \in BOOLEAN, NEW c \in BOOLEAN, b # c
  PROVE  /\ WithSign(b, m) + WithSign(c, n) = WithSign(b, m - n)
         /\ WithSign(b, m) + WithSign(c, n) = WithSign(c, n - m)
         /\ WithSign(b, m) - WithSign(c, n) = WithSign(b, m + n)
<1>1. CASE b
  <2>1. WithSign(b, m) = - m /\ WithSign(c, n) = n
    BY <1>1 DEF WithSign
  <2>2. WithSign(b, m + n) = - (m + n) /\ WithSign(b, m - n) = - (m - n)
        /\ WithSign(c, n - m) = n - m
    BY <1>1 DEF WithSign
  <2> QED
    BY <2>1, <2>2
<1>2. CASE ~b
  <2>1. WithSign(b, m) = m /\ WithSign(c, n) = - n
    BY <1>2 DEF WithSign
  <2>2. WithSign(b, m + n) = m + n /\ WithSign(b, m - n) = m - n
        /\ WithSign(c, n - m) = - (n - m)
    BY <1>2 DEF WithSign
  <2> QED
    BY <2>1, <2>2
<1> QED
  BY <1>1, <1>2

\* The opposite has the other sign.
LEMMA SignedOpposite ==
  ASSUME NEW m \in Int, NEW b \in BOOLEAN
  PROVE  - WithSign(b, m) = WithSign(~b, m)
<1>1. CASE b = TRUE
  <2>1. WithSign(b, m) = - m
    BY <1>1 DEF WithSign
  <2>2. WithSign(~b, m) = m
    BY <1>1 DEF WithSign
  <2> QED
    BY <2>1, <2>2
<1>2. CASE b = FALSE
  <2>1. WithSign(b, m) = m
    BY <1>2 DEF WithSign
  <2>2. WithSign(~b, m) = - m
    BY <1>2 DEF WithSign
  <2> QED
    BY <2>1, <2>2
<1> QED
  BY <1>1, <1>2

\* The sign of a product.
LEMMA SignedProduct ==
  ASSUME NEW m \in Int, NEW n \in Int, NEW b \in BOOLEAN, NEW c \in BOOLEAN
  PROVE  WithSign(b, m) * WithSign(c, n) = WithSign(b # c, m * n)
<1>1. CASE b = TRUE /\ c = TRUE
  <2>1. WithSign(b, m) = - m /\ WithSign(c, n) = - n
    BY <1>1 DEF WithSign
  <2>2. (b # c) = FALSE
    BY <1>1
  <2>3. WithSign(b # c, m * n) = m * n
    BY <2>2 DEF WithSign
  <2>4. (- m) * (- n) = m * n
    OBVIOUS
  <2> QED
    BY <2>1, <2>3, <2>4
<1>2. CASE b = TRUE /\ c = FALSE
  <2>1. WithSign(b, m) = - m /\ WithSign(c, n) = n
    BY <1>2 DEF WithSign
  <2>2. (b # c) = TRUE
    BY <1>2
  <2>3. WithSign(b # c, m * n) = - (m * n)
    BY <2>2 DEF WithSign
  <2>4. (- m) * (n) = - (m * n)
    OBVIOUS
  <2> QED
    BY <2>1, <2>3, <2>4
<1>3. CASE b = FALSE /\ c = TRUE
  <2>1. WithSign(b, m) = m /\ WithSign(c, n) = - n
    BY <1>3 DEF WithSign
  <2>2. (b # c) = TRUE
    BY <1>3
  <2>3. WithSign(b # c, m * n) = - (m * n)
    BY <2>2 DEF WithSign
  <2>4. (m) * (- n) = - (m * n)
    OBVIOUS
  <2> QED
    BY <2>1, <2>3, <2>4
<1>4. CASE b = FALSE /\ c = FALSE
  <2>1. WithSign(b, m) = m /\ WithSign(c, n) = n
    BY <1>4 DEF WithSign
  <2>2. (b # c) = FALSE
    BY <1>4
  <2>3. WithSign(b # c, m * n) = m * n
    BY <2>2 DEF WithSign
  <2>4. (m) * (n) = m * n
    OBVIOUS
  <2> QED
    BY <2>1, <2>3, <2>4
<1> QED
  BY <1>1, <1>2, <1>3, <1>4

-----------------------------------------------------------------------------
\* What decodeLargeOrImmediate returns.
IsMagnitude(d) ==
  d.isNegative \in BOOLEAN /\ d.words \in WordSeqs /\ Len(d.words) >= 1

\* A large integer that normalize leaves alone, and its number.
LEMMA NormalizedIs ==
  ASSUME NEW b \in BOOLEAN, NEW w \in WordSeqs, Len(w) >= 1
  PROVE  /\ IsResult(normalize(Large(b, w)))
         /\ ~LosesWords(Large(b, w)) =>
              /\ IsNumber(normalize(Large(b, w)))
              /\ Value(normalize(Large(b, w))) = WithSign(b, Magnitude(w))
<1>1. IsResult(normalize(Large(b, w)))
  BY NormalizeIs
<1>2. ASSUME ~LosesWords(Large(b, w))
      PROVE  /\ IsNumber(normalize(Large(b, w)))
             /\ Value(normalize(Large(b, w))) = WithSign(b, Magnitude(w))
  <2>1. CASE w[Len(w)] = 0
    <3>1. normalize(Large(b, w)) = Large(b, w)
      BY <2>1, NormalizeIs
    <3> QED
      BY <3>1, LargeIs, LargeIsNumber
  <2>2. CASE w[Len(w)] # 0
    BY <1>2, <2>2, NormalizeIs, LargeIs
  <2> QED
    BY <2>1, <2>2
<1> QED
  BY <1>1, <1>2

\* DifferenceOf subtracts the smaller magnitude from the larger, under the sign of the
\* larger, unless normalize loses words.
LEMMA DifferenceOfIs ==
  ASSUME NEW l, NEW r, IsMagnitude(l), IsMagnitude(r)
  PROVE  /\ IsResult(DifferenceOf(l, r))
         /\ ~FaultyDifference(l, r) =>
              /\ IsNumber(DifferenceOf(l, r))
              /\ \/ /\ compareMagnitudes(l.words, r.words) >= 0
                    /\ Value(DifferenceOf(l, r))
                         = WithSign(l.isNegative, Magnitude(l.words) - Magnitude(r.words))
                 \/ /\ compareMagnitudes(l.words, r.words) < 0
                    /\ Value(DifferenceOf(l, r))
                         = WithSign(r.isNegative, Magnitude(r.words) - Magnitude(l.words))
<1> DEFINE c == compareMagnitudes(l.words, r.words)
<1>1. /\ l.isNegative \in BOOLEAN /\ l.words \in WordSeqs /\ Len(l.words) >= 1
      /\ r.isNegative \in BOOLEAN /\ r.words \in WordSeqs /\ Len(r.words) >= 1
  BY DEF IsMagnitude
<1>2. Magnitude(l.words) \in Nat /\ Magnitude(r.words) \in Nat
  BY <1>1, MagnitudeIsNat
<1>3. CASE c = 0 /\ Same(l.words, r.words)
  <2>1. DifferenceOf(l, r) = Immediate(0)
    BY <1>3 DEF DifferenceOf
  <2>2. Magnitude(l.words) = Magnitude(r.words)
    BY <1>1, <1>3, SameMagnitude
  <2>3. WithSign(l.isNegative, Magnitude(l.words) - Magnitude(r.words)) = 0
    BY <1>1, <1>2, <2>2 DEF WithSign
  <2>4. IsNumber(Immediate(0)) /\ IsResult(Immediate(0)) /\ Value(Immediate(0)) = 0
    <3>1. 0 \in MinImmediate .. MaxImmediate
      BY WidthFacts
    <3> QED
      BY <3>1, ImmediateIsNumber, ImmediateIs
  <2> QED
    BY <2>1, <2>3, <2>4, <1>3
<1>4. CASE c = 1 /\ \E k : Exceeds(l.words, r.words, k)
  <2> DEFINE s == subtractFromInto(l.words, r.words)
  <2>1. PICK k : Exceeds(l.words, r.words, k)
    BY <1>4
  <2>2. /\ s \in WordSeqs /\ Len(s) >= 1
        /\ Magnitude(s) = Magnitude(l.words) - Magnitude(r.words)
    BY <1>1, <2>1, DifferenceIs
  <2>3. Difference(l, r) = Large(l.isNegative, s)
    BY <1>4 DEF Difference
  <2>4. DifferenceOf(l, r) = normalize(Large(l.isNegative, s))
    BY <1>4, <2>3 DEF DifferenceOf
  <2>5. FaultyDifference(l, r) <=> LosesWords(Large(l.isNegative, s))
    BY <1>4, <2>3 DEF FaultyDifference
  <2> HIDE DEF s, c
  <2>6. /\ IsResult(normalize(Large(l.isNegative, s)))
        /\ ~LosesWords(Large(l.isNegative, s)) =>
              /\ IsNumber(normalize(Large(l.isNegative, s)))
              /\ Value(normalize(Large(l.isNegative, s))) = WithSign(l.isNegative, Magnitude(s))
    BY <1>1, <2>2, NormalizedIs
  <2>7. c >= 0
    BY <1>4
  <2> QED
    BY <2>2, <2>4, <2>5, <2>6, <2>7 DEF c
<1>5. CASE c = -1 /\ \E k : Exceeds(r.words, l.words, k)
  <2> DEFINE s == subtractFromInto(r.words, l.words)
  <2>1. PICK k : Exceeds(r.words, l.words, k)
    BY <1>5
  <2>2. /\ s \in WordSeqs /\ Len(s) >= 1
        /\ Magnitude(s) = Magnitude(r.words) - Magnitude(l.words)
    BY <1>1, <2>1, DifferenceIs
  <2>3. Difference(l, r) = Large(r.isNegative, s)
    BY <1>5 DEF Difference
  <2>4. DifferenceOf(l, r) = normalize(Large(r.isNegative, s))
    BY <1>5, <2>3 DEF DifferenceOf
  <2>5. FaultyDifference(l, r) <=> LosesWords(Large(r.isNegative, s))
    BY <1>5, <2>3 DEF FaultyDifference
  <2> HIDE DEF s, c
  <2>6. /\ IsResult(normalize(Large(r.isNegative, s)))
        /\ ~LosesWords(Large(r.isNegative, s)) =>
              /\ IsNumber(normalize(Large(r.isNegative, s)))
              /\ Value(normalize(Large(r.isNegative, s))) = WithSign(r.isNegative, Magnitude(s))
    BY <1>1, <2>2, NormalizedIs
  <2>7. c < 0
    BY <1>5
  <2> QED
    BY <2>2, <2>4, <2>5, <2>6, <2>7 DEF c
<1> QED
  BY <1>1, <1>3, <1>4, <1>5, CompareIs

-----------------------------------------------------------------------------
(***************************************************************************)
(* The operations of integer.c: each returns a result, and outside the     *)
(* faulty cases one that stands for the number it is there to compute.     *)
(***************************************************************************)
\* What is to be shown of an operation.
Computes(result, faulty, v) ==
  IsResult(result) /\ (~faulty => IsNumber(result) /\ Value(result) = v)

\* The sign and the magnitude of a number, taken apart.
LEMMA DecodedIs ==
  ASSUME NEW t, IsNumber(t)
  PROVE  LET d == decodeLargeOrImmediate(t)
         IN /\ IsMagnitude(d) /\ d.isNegative \in BOOLEAN
            /\ d.words \in WordSeqs /\ Len(d.words) >= 1
            /\ Magnitude(d.words) \in Int /\ Magnitude(d.words) >= 0
            /\ Value(t) = WithSign(d.isNegative, Magnitude(d.words)) /\ Value(t) \in Int
<1> DEFINE d == decodeLargeOrImmediate(t)
<1>1. Decoded(d, Value(t)) /\ Value(t) \in Int
  BY DecodeIs
<1> HIDE DEF d
<1>2. IsMagnitude(d) /\ d.isNegative \in BOOLEAN /\ d.words \in WordSeqs /\ Len(d.words) >= 1
  BY <1>1 DEF Decoded, IsMagnitude
<1>3. Magnitude(d.words) \in Nat
  BY <1>2, MagnitudeIsNat
<1> QED
  BY <1>1, <1>2, <1>3 DEF Decoded, d

\* The sum of two magnitudes under the sign of the first.
LEMMA SignedSum ==
  ASSUME NEW dl, NEW dr, IsMagnitude(dl), IsMagnitude(dr)
  PROVE  LET t == Large(dl.isNegative, sumInto(dl.words, dr.words))
         IN /\ IsNumber(t) /\ IsResult(t)
            /\ Value(t) = WithSign(dl.isNegative, Magnitude(dl.words) + Magnitude(dr.words))
<1>1. /\ dl.isNegative \in BOOLEAN /\ dl.words \in WordSeqs /\ Len(dl.words) >= 1
      /\ dr.words \in WordSeqs
  BY DEF IsMagnitude
<1> DEFINE s == sumInto(dl.words, dr.words)
<1>2. s \in WordSeqs /\ Len(s) >= Len(dl.words)
      /\ Magnitude(s) = Magnitude(dl.words) + Magnitude(dr.words)
  BY <1>1, SumIs
<1>3. Len(s) >= 1
  <2> HIDE DEF s
  <2>1. Len(dl.words) \in Nat /\ Len(s) \in Nat
    BY <1>1, <1>2, LengthIs
  <2> QED
    BY <2>1, <1>1, <1>2
<1> HIDE DEF s
<1>4. IsNumber(Large(dl.isNegative, s)) /\ IsResult(Large(dl.isNegative, s))
  BY <1>1, <1>2, <1>3, LargeIsNumber
<1>5. Value(Large(dl.isNegative, s)) = WithSign(dl.isNegative, Magnitude(s))
  BY <1>1, LargeIs
<1> QED
  BY <1>2, <1>4, <1>5 DEF s

\* A number in the range of the sums and differences of immediates.
LEMMA EncodedIs ==
  ASSUME NEW v \in Int, - HalfNative <= v, v < HalfNative
  PROVE  Computes(encodeInt64(v), v \in 1 - HalfNative .. MinImmediate - 1, v)
<1>1. IsNumber(encodeInt64(v))
  BY EncodeIs
<1>2. v < WordBase * WordBase /\ MinImmediate \in Int /\ HalfNative \in Int
  BY WidthFacts
<1>3. v >= MinImmediate => Value(encodeInt64(v)) = v
  BY <1>2, EncodeIs
<1>4. v \notin 1 - HalfNative .. MinImmediate - 1 => v >= MinImmediate \/ v = - HalfNative
  BY <1>2
<1>5. v = - HalfNative => Value(encodeInt64(v)) = v
  BY EncodeIs
<1> QED
  BY <1>1, <1>3, <1>4, <1>5 DEF Computes, IsResult

\* add computes the sum.
LEMMA AddIs ==
  ASSUME NEW l, NEW r, IsNumber(l), IsNumber(r)
  PROVE  Computes(add(l, r), Faulty("+", l, r), Value(l) + Value(r))
<1> DEFINE dl == decodeLargeOrImmediate(l)
           dr == decodeLargeOrImmediate(r)
<1>1. CASE isImmediate(l) /\ isImmediate(r)
  <2>1. add(l, r) = encodeInt64(l.value + r.value)
    BY <1>1 DEF add
  <2>2. /\ l.value \in Int /\ - Half <= l.value /\ l.value < Half /\ Value(l) = l.value
        /\ r.value \in Int /\ - Half <= r.value /\ r.value < Half /\ Value(r) = r.value
    BY <1>1, AsImmediate
  <2>3. l.value + r.value \in Int /\ - HalfNative <= l.value + r.value
        /\ l.value + r.value < HalfNative
    BY <2>2, WidthFacts
  <2>4. Computes(encodeInt64(l.value + r.value),
                 l.value + r.value \in 1 - HalfNative .. MinImmediate - 1, l.value + r.value)
    BY <2>3, EncodedIs
  <2>5. Faulty("+", l, r) <=> l.value + r.value \in 1 - HalfNative .. MinImmediate - 1
    BY <1>1, FaultyImmediates
  <2> QED
    BY <2>1, <2>2, <2>4, <2>5 DEF Computes
<1>2. CASE ~(isImmediate(l) /\ isImmediate(r))
  <2>1. add(l, r) = IF dl.isNegative = dr.isNegative
                    THEN Large(dl.isNegative, sumInto(dl.words, dr.words))
                    ELSE DifferenceOf(dl, dr)
    BY <1>2 DEF add
  <2>2. Faulty("+", l, r) <=> dl.isNegative # dr.isNegative /\ FaultyDifference(dl, dr)
    BY <1>2, FaultyLarges
  <2>3. /\ IsMagnitude(dl) /\ dl.isNegative \in BOOLEAN /\ Magnitude(dl.words) \in Int
        /\ Value(l) = WithSign(dl.isNegative, Magnitude(dl.words))
    BY DecodedIs
  <2>4. /\ IsMagnitude(dr) /\ dr.isNegative \in BOOLEAN /\ Magnitude(dr.words) \in Int
        /\ Value(r) = WithSign(dr.isNegative, Magnitude(dr.words))
    BY DecodedIs
  <2> HIDE DEF dl, dr
  <2>5. CASE dl.isNegative = dr.isNegative
    <3>1. Value(l) + Value(r) = WithSign(dl.isNegative, Magnitude(dl.words) + Magnitude(dr.words))
      BY <2>3, <2>4, <2>5, SameSign
    <3> QED
      BY <3>1, <2>1, <2>3, <2>4, <2>5, SignedSum DEF Computes
  <2>6. CASE dl.isNegative # dr.isNegative
    <3>1. /\ Value(l) + Value(r)
               = WithSign(dl.isNegative, Magnitude(dl.words) - Magnitude(dr.words))
          /\ Value(l) + Value(r)
               = WithSign(dr.isNegative, Magnitude(dr.words) - Magnitude(dl.words))
      <4>1. \A m \in Int, n \in Int :
              /\ WithSign(dl.isNegative, m) + WithSign(dr.isNegative, n)
                   = WithSign(dl.isNegative, m - n)
              /\ WithSign(dl.isNegative, m) + WithSign(dr.isNegative, n)
                   = WithSign(dr.isNegative, n - m)
        <5>1. PICK b \in BOOLEAN : b = dl.isNegative
          BY <2>3
        <5>2. PICK c \in BOOLEAN : c = dr.isNegative
          BY <2>4
        <5>3. b # c
          BY <5>1, <5>2, <2>6
        <5>4. ASSUME NEW m \in Int, NEW n \in Int
              PROVE  /\ WithSign(b, m) + WithSign(c, n) = WithSign(b, m - n)
                     /\ WithSign(b, m) + WithSign(c, n) = WithSign(c, n - m)
          BY <5>3, OtherSign
        <5> QED
          BY <5>1, <5>2, <5>4
      <4> QED
        BY <4>1, <2>3, <2>4
    <3>2. add(l, r) = DifferenceOf(dl, dr)
      BY <2>1, <2>6
    <3>3. /\ IsResult(DifferenceOf(dl, dr))
          /\ ~FaultyDifference(dl, dr) => /\ IsNumber(DifferenceOf(dl, dr))
                                          /\ Value(DifferenceOf(dl, dr)) = Value(l) + Value(r)
      BY <3>1, <2>3, <2>4, DifferenceOfIs
    <3> QED
      BY <3>2, <3>3, <2>2, <2>6 DEF Computes
  <2> QED
    BY <2>5, <2>6
<1> QED
  BY <1>1, <1>2

\* subtract computes the difference.
LEMMA SubtractIs ==
  ASSUME NEW l, NEW r, IsNumber(l), IsNumber(r)
  PROVE  Computes(subtract(l, r), Faulty("-", l, r), Value(l) - Value(r))
<1> DEFINE dl == decodeLargeOrImmediate(l)
           dr == decodeLargeOrImmediate(r)
<1>1. CASE isImmediate(l) /\ isImmediate(r)
  <2>1. subtract(l, r) = encodeInt64(l.value - r.value)
    BY <1>1 DEF subtract
  <2>2. /\ l.value \in Int /\ - Half <= l.value /\ l.value < Half /\ Value(l) = l.value
        /\ r.value \in Int /\ - Half <= r.value /\ r.value < Half /\ Value(r) = r.value
    BY <1>1, AsImmediate
  <2>3. l.value - r.value \in Int /\ - HalfNative <= l.value - r.value
        /\ l.value - r.value < HalfNative
    BY <2>2, WidthFacts
  <2>4. Computes(encodeInt64(l.value - r.value),
                 l.value - r.value \in 1 - HalfNative .. MinImmediate - 1, l.value - r.value)
    BY <2>3, EncodedIs
  <2>5. Faulty("-", l, r) <=> l.value - r.value \in 1 - HalfNative .. MinImmediate - 1
    BY <1>1, FaultyImmediates
  <2> QED
    BY <2>1, <2>2, <2>4, <2>5 DEF Computes
<1>2. CASE ~(isImmediate(l) /\ isImmediate(r))
  <2>1. subtract(l, r) = IF dl.isNegative = dr.isNegative THEN DifferenceOf(dl, dr)
                         ELSE Large(dl.isNegative, sumInto(dl.words, dr.words))
    BY <1>2 DEF subtract
  <2>2. Faulty("-", l, r)
          <=> /\ dl.isNegative = dr.isNegative
              /\ FaultyDifference(dl, dr) \/ compareMagnitudes(dl.words, dr.words) < 0
    BY <1>2, FaultyLarges
  <2>3. /\ IsMagnitude(dl) /\ dl.isNegative \in BOOLEAN /\ Magnitude(dl.words) \in Int
        /\ Value(l) = WithSign(dl.isNegative, Magnitude(dl.words))
    BY DecodedIs
  <2>4. /\ IsMagnitude(dr) /\ dr.isNegative \in BOOLEAN /\ Magnitude(dr.words) \in Int
        /\ Value(r) = WithSign(dr.isNegative, Magnitude(dr.words))
    BY DecodedIs
  <2> HIDE DEF dl, dr
  <2>5. CASE dl.isNegative = dr.isNegative
    <3>1. Value(l) - Value(r) = WithSign(dl.isNegative, Magnitude(dl.words) - Magnitude(dr.words))
      BY <2>3, <2>4, <2>5, SameSign
    <3>2. subtract(l, r) = DifferenceOf(dl, dr)
      BY <2>1, <2>5
    <3>3. /\ IsResult(DifferenceOf(dl, dr))
          /\ ~FaultyDifference(dl, dr) /\ ~(compareMagnitudes(dl.words, dr.words) < 0)
                => /\ IsNumber(DifferenceOf(dl, dr))
                   /\ Value(DifferenceOf(dl, dr)) = Value(l) - Value(r)
      BY <3>1, <2>3, <2>4, DifferenceOfIs
    <3> QED
      BY <3>2, <3>3, <2>2, <2>5 DEF Computes
  <2>6. CASE dl.isNegative # dr.isNegative
    <3>1. Value(l) - Value(r) = WithSign(dl.isNegative, Magnitude(dl.words) + Magnitude(dr.words))
      BY <2>3, <2>4, <2>6, OtherSign
    <3>2. subtract(l, r) = Large(dl.isNegative, sumInto(dl.words, dr.words))
      BY <2>1, <2>6
    <3> QED
      BY <3>1, <3>2, <2>3, <2>4, SignedSum DEF Computes
  <2> QED
    BY <2>5, <2>6
<1> QED
  BY <1>1, <1>2

\* negated computes the opposite.
LEMMA NegatedIs ==
  ASSUME NEW t, NEW r, IsNumber(t)
  PROVE  Computes(negated(t), Faulty("negated", t, r), - Value(t))
<1>1. CASE isImmediate(t)
  <2>1. negated(t) = encodeInt64(- t.value)
    BY <1>1 DEF negated
  <2>2. t.value \in Int /\ - Half <= t.value /\ t.value < Half /\ Value(t) = t.value
    BY <1>1, AsImmediate
  <2>3. - t.value \in Int /\ MinImmediate <= - t.value /\ - t.value < WordBase * WordBase
    BY <2>2, WidthFacts
  <2>4. IsNumber(encodeInt64(- t.value)) /\ Value(encodeInt64(- t.value)) = - t.value
    BY <2>3, EncodeIs
  <2> QED
    BY <2>1, <2>2, <2>4 DEF IsResult, Computes
<1>2. CASE ~isImmediate(t)
  <2>1. PICK b \in BOOLEAN, w \in WordSeqs : Len(w) >= 1 /\ t = Large(b, w)
    BY <1>2, AsLarge
  <2>2. Negative(t) = Large(~b, w)
    <3>1. CASE b = TRUE
      BY <3>1, <2>1 DEF Negative, Large
    <3>2. CASE b = FALSE
      BY <3>2, <2>1 DEF Negative, Large
    <3> QED
      BY <3>1, <3>2
  <2>3. negated(t) = normalize(Large(~b, w))
    BY <1>2, <2>2 DEF negated
  <2>4. (~b) \in BOOLEAN /\ Magnitude(w) \in Int
    <3>1. Magnitude(w) \in Nat
      BY MagnitudeIsNat
    <3> QED
      BY <3>1
  <2>5. Faulty("negated", t, r) <=> LosesWords(Large(~b, w))
    BY <1>2, <2>2, FaultyNegated
  <2>6. - Value(t) = WithSign(~b, Magnitude(w))
    <3>1. Value(t) = WithSign(b, Magnitude(w))
      BY <2>1, LargeIs
    <3> QED
      BY <3>1, <2>4, SignedOpposite
  <2>7. /\ IsResult(normalize(Large(~b, w)))
        /\ ~LosesWords(Large(~b, w)) =>
              /\ IsNumber(normalize(Large(~b, w)))
              /\ Value(normalize(Large(~b, w))) = WithSign(~b, Magnitude(w))
    BY <2>1, <2>4, NormalizedIs
  <2> QED
    BY <2>3, <2>5, <2>6, <2>7 DEF Computes
<1> QED
  BY <1>1, <1>2

-----------------------------------------------------------------------------
(***************************************************************************)
(* Products, quotients and remainders.                                     *)
(***************************************************************************)
\* Divided without signs.
LEMMA QuotientOfMagnitudes ==
  ASSUME NEW a \in Nat, NEW b \in Nat, b > 0
  PROVE  /\ a \div b \in Nat /\ a \div b <= a
         /\ \E s \in Nat : s < b /\ a = b * (a \div b) + s
<1> DEFINE q == a \div b
           s == a % b
<1>1. s \in Int /\ 0 <= s /\ s < b /\ q \in Int /\ a = s + b * q
  BY DividedBy
<1> HIDE DEF q, s
<1>2. PICK p \in Int : p = b * q
  BY <1>1
<1>3. q >= 0
  <2>1. CASE q <= -1
    <3>1. b * q <= - b
      BY <2>1, <1>1
    <3> QED
      BY <3>1, <1>1, <1>2
  <2> QED
    BY <2>1, <1>1
<1>4. q <= b * q
  BY <1>1, <1>3
<1>5. q <= a /\ a = b * q + s
  BY <1>1, <1>2, <1>4
<1> QED
  BY <1>1, <1>3, <1>5 DEF q

\* What is left has the sign of the dividend and is less than the divisor.
LEMMA QuotientIs ==
  ASSUME NEW a \in Int, NEW b \in Int, b # 0
  PROVE  /\ Quotient(a, b) \in Int
         /\ a >= 0 => - a <= Quotient(a, b) /\ Quotient(a, b) <= a
         /\ a < 0 => a <= Quotient(a, b) /\ Quotient(a, b) <= - a
         /\ \E s \in Int : /\ a = b * Quotient(a, b) + s
                           /\ b > 0 => - b < s /\ s < b
                           /\ b < 0 => b < s /\ s < - b
                           /\ a >= 0 => 0 <= s /\ s <= a
                           /\ a < 0 => a <= s /\ s <= 0
<1> DEFINE m == IF a < 0 THEN - a ELSE a
           n == IF b < 0 THEN - b ELSE b
           q == m \div n
<1>1. m \in Nat /\ n \in Nat /\ n > 0
  OBVIOUS
<1>2. Quotient(a, b) = IF (a < 0) = (b < 0) THEN q ELSE - q
  BY DEF Quotient
<1>3. a = (IF a < 0 THEN - m ELSE m) /\ b = (IF b < 0 THEN - n ELSE n)
  OBVIOUS
<1> HIDE DEF m, n
<1>4. q \in Nat /\ q <= m
  BY <1>1, QuotientOfMagnitudes
<1>5. PICK s \in Nat : s < n /\ m = n * q + s
  BY <1>1, QuotientOfMagnitudes
<1> HIDE DEF q
<1>6. PICK p \in Int : p = n * q
  BY <1>1, <1>4
<1>7. p >= 0
  BY <1>1, <1>4, <1>6
<1>8. (- n) * q = - p /\ n * (- q) = - p /\ (- n) * (- q) = p
  BY <1>1, <1>4, <1>6
<1>9. CASE a >= 0 /\ b > 0
  <2>1. Quotient(a, b) = q
    BY <1>2, <1>9
  <2>2. a = m /\ b = n
    BY <1>3, <1>9
  <2>3. a = p + s /\ s <= a
    BY <2>2, <1>1, <1>5, <1>6, <1>7
  <2> QED
    BY <2>1, <2>2, <2>3, <1>1, <1>4, <1>5, <1>6, <1>9
<1>10. CASE a >= 0 /\ b < 0
  <2>1. Quotient(a, b) = - q
    BY <1>2, <1>10
  <2>2. a = m /\ b = - n
    BY <1>3, <1>10
  <2>3. a = p + s /\ s <= a
    BY <2>2, <1>1, <1>5, <1>6, <1>7
  <2>4. b * Quotient(a, b) = p
    BY <2>1, <2>2, <1>8
  <2> QED
    BY <2>1, <2>2, <2>3, <2>4, <1>1, <1>4, <1>5, <1>10
<1>11. CASE a < 0 /\ b > 0
  <2>1. Quotient(a, b) = - q
    BY <1>2, <1>11
  <2>2. a = - m /\ b = n
    BY <1>3, <1>11
  <2>3. a = (- p) + (- s) /\ a <= - s /\ - s \in Int /\ - s <= 0
    BY <2>2, <1>1, <1>5, <1>6, <1>7
  <2>4. b * Quotient(a, b) = - p
    BY <2>1, <2>2, <1>8
  <2>5. - b < - s /\ - s < b
    BY <2>2, <1>1, <1>5
  <2>6. Quotient(a, b) \in Int /\ a <= Quotient(a, b) /\ Quotient(a, b) <= - a
    BY <2>1, <2>2, <1>1, <1>4
  <2>7. PICK t \in Int : t = - s
    BY <2>3
  <2>8. a = b * Quotient(a, b) + t
    BY <2>3, <2>4, <2>7
  <2> QED
    BY <2>3, <2>5, <2>6, <2>7, <2>8, <1>11
<1>12. CASE a < 0 /\ b < 0
  <2>1. Quotient(a, b) = q
    BY <1>2, <1>12
  <2>2. a = - m /\ b = - n
    BY <1>3, <1>12
  <2>3. a = (- p) + (- s) /\ a <= - s /\ - s \in Int /\ - s <= 0
    BY <2>2, <1>1, <1>5, <1>6, <1>7
  <2>4. b * Quotient(a, b) = - p
    BY <2>1, <2>2, <1>8
  <2>5. b < - s /\ - s < - b
    BY <2>2, <1>1, <1>5
  <2> QED
    BY <2>1, <2>2, <2>3, <2>4, <2>5, <1>1, <1>4, <1>12
<1> QED
  BY <1>9, <1>10, <1>11, <1>12

-----------------------------------------------------------------------------
\* Large as it is, the highest word of a product is zero.
LEMMA LargeProduct ==
  ASSUME NEW l, NEW r, IsNumber(l), IsNumber(r)
  PROVE  LET dl == decodeLargeOrImmediate(l)
             dr == decodeLargeOrImmediate(r)
             t == normalize(Large(dl.isNegative # dr.isNegative, multiplyInto(dl.words, dr.words)))
         IN IsNumber(t) /\ Value(t) = Value(l) * Value(r)
<1> DEFINE dl == decodeLargeOrImmediate(l)
           dr == decodeLargeOrImmediate(r)
           w == multiplyInto(dl.words, dr.words)
           b == dl.isNegative # dr.isNegative
<1>1. /\ dl.isNegative \in BOOLEAN /\ dl.words \in WordSeqs /\ Len(dl.words) >= 1
      /\ Magnitude(dl.words) \in Int
      /\ Value(l) = WithSign(dl.isNegative, Magnitude(dl.words))
  BY DecodedIs
<1>2. /\ dr.isNegative \in BOOLEAN /\ dr.words \in WordSeqs /\ Len(dr.words) >= 1
      /\ Magnitude(dr.words) \in Int
      /\ Value(r) = WithSign(dr.isNegative, Magnitude(dr.words))
  BY DecodedIs
<1> HIDE DEF dl, dr
<1>3. /\ w \in WordSeqs /\ Len(w) = Width(dl.words, dr.words)
      /\ WordAt(w, Width(dl.words, dr.words)) = 0
      /\ Magnitude(w) = Magnitude(dl.words) * Magnitude(dr.words)
  BY <1>1, <1>2, ProductIs
<1>4. Len(w) \in Nat /\ Len(w) >= 1
  <2>1. Len(dl.words) \in Nat /\ Len(dr.words) \in Nat
    BY <1>1, <1>2, LengthIs
  <2>2. Width(dl.words, dr.words) \in Nat /\ Width(dl.words, dr.words) >= 1
    <3>1. PICK m \in Nat, n \in Nat : m = Len(dl.words) /\ n = Len(dr.words)
      BY <2>1
    <3>2. Width(dl.words, dr.words) = m + n + 1
      BY Zenon, <3>1 DEF Width
    <3> QED
      BY <3>2
  <2> HIDE DEF w
  <2> QED
    BY <2>2, <1>3
<1>5. Value(l) * Value(r) = WithSign(b, Magnitude(w))
  BY <1>1, <1>2, <1>3, SignedProduct
<1> HIDE DEF w
<1>6. w[Len(w)] = 0
  <2>1. Len(w) \in Int /\ Len(w) \in 1 .. Len(w)
    BY <1>4
  <2> QED
    BY <2>1, <1>3, WordAtIs
<1>7. b \in BOOLEAN
  BY <1>1, <1>2
<1> HIDE DEF b
<1>8. ~LosesWords(Large(b, w))
  <2>1. Large(b, w).words = w
    BY <1>7, LargeIs
  <2> QED
    BY <2>1, <1>6 DEF LosesWords
<1>9. IsNumber(normalize(Large(b, w))) /\ Value(normalize(Large(b, w))) = WithSign(b, Magnitude(w))
  BY <1>3, <1>4, <1>7, <1>8, NormalizedIs
<1> QED
  BY <1>5, <1>9 DEF b, w, dl, dr

\* The code's test for an overflow of the native product.
LEMMA NoOverflow ==
  ASSUME NEW a \in Int, NEW b \in Int, - Half <= b, b < Half,
         \/ a = 0 \/ b = 0 \/ a = Quotient(Wrapped(a * b, NativeBits), b)
  PROVE  /\ Wrapped(a * b, NativeBits) = a * b
         /\ - HalfNative <= a * b /\ a * b < HalfNative
<1> DEFINE h == HalfNative
           p == Wrapped(a * b, NativeBits)
<1>1. h \in Nat /\ h >= 1 /\ 2 * Half <= h /\ Half \in Nat /\ Half > 36
  BY WidthFacts
<1>2. PICK x \in Int : x = a * b
  OBVIOUS
<1>3. p = WrappedBy(x, h)
  BY <1>2, WrappedWidths
<1> HIDE DEF p, h
<1>4. p \in Int /\ - h <= p /\ p < h /\ (- h <= x /\ x < h => p = x)
  BY <1>1, <1>3, WrappedIs
<1>5. PICK q \in Int : x = p + (2 * h) * q
  BY <1>1, <1>3, WrappedIs
<1>6. CASE a = 0 \/ b = 0
  <2>1. x = 0
    BY <1>2, <1>6
  <2> QED
    BY <2>1, <1>1, <1>2, <1>4 DEF p, h
<1>7. CASE b # 0 /\ a = Quotient(p, b)
  <2>1. PICK s \in Int : /\ p = b * Quotient(p, b) + s
                         /\ b > 0 => - b < s /\ s < b
                         /\ b < 0 => b < s /\ s < - b
    BY <1>4, <1>7, QuotientIs
  <2>2. p = x + s
    <3>1. p = b * a + s
      BY <2>1, <1>7
    <3>2. b * a = a * b
      OBVIOUS
    <3> QED
      BY <3>1, <3>2, <1>2
  <2>3. - h < s /\ s < h
    <3>1. CASE b > 0
      <4>1. - b < s /\ s < b
        BY <2>1, <3>1
      <4> QED
        BY <4>1, <1>1
    <3>2. CASE b < 0
      <4>1. b < s /\ s < - b
        BY <2>1, <3>2
      <4> QED
        BY <4>1, <1>1
    <3> QED
      BY <3>1, <3>2, <1>7
  <2>4. PICK y \in Int : y = (2 * h) * q
    BY <1>1
  <2>5. - h < y /\ y < h
    BY <2>2, <2>3, <2>4, <1>1, <1>4, <1>5
  <2>6. q = 0
    <3>1. CASE q >= 1
      <4>1. (2 * h) * q >= 2 * h
        BY <3>1, <1>1
      <4> QED
        BY <4>1, <2>4, <2>5, <1>1
    <3>2. CASE q <= -1
      <4>1. (2 * h) * q <= - (2 * h)
        BY <3>2, <1>1
      <4> QED
        BY <4>1, <2>4, <2>5, <1>1
    <3> QED
      BY <3>1, <3>2
  <2>7. y = 0
    BY <2>4, <2>6, <1>1
  <2>8. p = x
    BY <2>4, <2>7, <1>4, <1>5
  <2> QED
    BY <2>8, <1>2, <1>4 DEF p, h
<1> QED
  BY <1>6, <1>7 DEF p

\* multiply computes the product, and never returns what is no integer.
LEMMA MultiplyIs ==
  ASSUME NEW l, NEW r, IsNumber(l), IsNumber(r)
  PROVE  /\ IsNumber(multiply(l, r))
         /\ Computes(multiply(l, r), Faulty("*", l, r), Value(l) * Value(r))
<1> DEFINE dl == decodeLargeOrImmediate(l)
           dr == decodeLargeOrImmediate(r)
           product == Wrapped(l.value * r.value, NativeBits)
           large == normalize(Large(dl.isNegative # dr.isNegative,
                                    multiplyInto(dl.words, dr.words)))
           native == /\ isImmediate(l) /\ isImmediate(r)
                     /\ l.value = 0 \/ r.value = 0 \/ l.value = Quotient(product, r.value)
<1>1. multiply(l, r) = IF native THEN encodeInt64(product) ELSE large
  BY DEF multiply
<1>2. IsNumber(large) /\ Value(large) = Value(l) * Value(r)
  BY LargeProduct
<1> HIDE DEF large
<1>3. CASE native
  <2>1. /\ l.value \in Int /\ Value(l) = l.value
        /\ r.value \in Int /\ - Half <= r.value /\ r.value < Half /\ Value(r) = r.value
    BY <1>3, AsImmediate
  <2>2. PICK a \in Int, b \in Int : a = l.value /\ b = r.value
    BY <2>1
  <2>3. - Half <= b /\ b < Half /\ (a = 0 \/ b = 0 \/ a = Quotient(Wrapped(a * b, NativeBits), b))
    BY <2>1, <2>2, <1>3
  <2>4. Wrapped(a * b, NativeBits) = a * b /\ - HalfNative <= a * b /\ a * b < HalfNative
    BY <2>3, NoOverflow
  <2>5. PICK x \in Int : x = a * b
    OBVIOUS
  <2>6. /\ IsNumber(encodeInt64(x))
        /\ Computes(encodeInt64(x), x \in 1 - HalfNative .. MinImmediate - 1, x)
    BY <2>4, <2>5, EncodeIs, EncodedIs
  <2>7. product = x /\ Value(l) * Value(r) = x /\ l.value * r.value = x
    BY <2>1, <2>2, <2>4, <2>5
  <2> HIDE DEF product
  <2>8. Faulty("*", l, r) <=> x \in 1 - HalfNative .. MinImmediate - 1
    BY <2>7, <1>3, FaultyImmediates
  <2> HIDE DEF native
  <2> QED
    BY <2>6, <2>7, <2>8, <1>1, <1>3 DEF Computes
<1>4. CASE ~native
  <2> HIDE DEF native
  <2> QED
    BY <1>1, <1>2, <1>4 DEF Computes, IsResult
<1> QED
  BY <1>3, <1>4

\* divide and remainder compute the quotient that is rounded towards zero and what is
\* left, of immediates.
LEMMA DivideIs ==
  ASSUME NEW l, NEW r, IsNumber(l), IsNumber(r), r # Immediate(0)
  PROVE  /\ Computes(divide(l, r), Faulty("//", l, r), Quotient(Value(l), Value(r)))
         /\ Computes(remainder(l, r), Faulty("%", l, r),
                     Value(l) - Value(r) * Quotient(Value(l), Value(r)))
<1>1. CASE ~(isImmediate(l) /\ isImmediate(r))
  <2>1. divide(l, r) = Other /\ remainder(l, r) = Other
    BY <1>1 DEF divide, remainder
  <2>2. Faulty("//", l, r) /\ Faulty("%", l, r)
    BY <1>1, FaultyLarges
  <2> QED
    BY <2>1, <2>2 DEF Computes, IsResult
<1>2. CASE isImmediate(l) /\ isImmediate(r)
  <2>1. /\ l.value \in Int /\ Value(l) = l.value /\ - Half <= l.value /\ l.value < Half
        /\ r.value \in Int /\ Value(r) = r.value /\ r = Immediate(r.value)
    BY <1>2, AsImmediate
  <2>2. PICK a \in Int, b \in Int : a = l.value /\ b = r.value
    BY <2>1
  <2>3. b # 0
    BY <2>1, <2>2
  <2> DEFINE q == Quotient(a, b)
             rest == a - b * q
  <2>4. /\ divide(l, r) = encodeSmall(q) /\ remainder(l, r) = encodeSmall(rest)
        /\ Quotient(Value(l), Value(r)) = q
        /\ Value(l) - Value(r) * Quotient(Value(l), Value(r)) = rest
    BY <2>1, <2>2, <1>2 DEF divide, remainder
  <2>5. /\ Faulty("//", l, r) <=> q > MaxImmediate
        /\ Faulty("%", l, r) <=> rest > MaxImmediate
    BY <2>2, <1>2, FaultyImmediates
  <2>6. - Half <= a /\ a < Half /\ MinImmediate = - Half /\ MaxImmediate = Half - 1 /\ Half \in Nat
    BY <2>1, <2>2, WidthFacts
  <2>7. /\ q \in Int
        /\ a >= 0 => - a <= q /\ q <= a
        /\ a < 0 => a <= q /\ q <= - a
    BY <2>3, QuotientIs
  <2>8. PICK s \in Int : /\ a = b * q + s
                         /\ a >= 0 => 0 <= s /\ s <= a
                         /\ a < 0 => a <= s /\ s <= 0
    BY <2>3, QuotientIs
  <2> HIDE DEF q
  <2>9. rest = s
    <3>1. PICK p \in Int : p = b * q
      BY <2>7
    <3> QED
      BY <3>1, <2>8
  <2>10. rest \in MinImmediate .. MaxImmediate
    <3>1. s \in - Half .. Half - 1
      BY <2>6, <2>8
    <3> QED
      BY <3>1, <2>6, <2>9
  <2>11. ~(q > MaxImmediate) => q \in MinImmediate .. MaxImmediate
    BY <2>6, <2>7
  <2>12. rest \in Int
    BY <2>9
  <2> HIDE DEF rest
  <2>13. /\ IsNumber(encodeSmall(rest)) /\ Value(encodeSmall(rest)) = rest
    BY <2>10, <2>12, EncodeSmallIs, ImmediateIs
  <2>14. /\ IsNumber(encodeSmall(q))
         /\ q \in MinImmediate .. MaxImmediate => Value(encodeSmall(q)) = q
    BY <2>7, EncodeSmallIs, ImmediateIs
  <2> QED
    BY <2>4, <2>5, <2>11, <2>13, <2>14 DEF Computes, IsResult
<1> QED
  BY <1>1, <1>2

-----------------------------------------------------------------------------
(***************************************************************************)
(* The factorial.                                                          *)
(***************************************************************************)
\* The results, and the numbers among them, as sets.
Results ==
  {Other} \cup {Immediate(v) : v \in MinImmediate .. MaxImmediate}
    \cup {Large(b, w) : b \in BOOLEAN, w \in {x \in WordSeqs : Len(x) >= 1}}
Numbers == {t \in Results : IsNumber(t)}

\* They are those sets.
LEMMA ResultsAre ==
  ASSUME NEW t
  PROVE  (t \in Results <=> IsResult(t)) /\ (t \in Numbers <=> IsNumber(t))
BY DEF Results, Numbers, IsResult, IsNumber

\* A result that is an integer stands for a number.
LEMMA ResultIs ==
  ASSUME NEW t, IsResult(t)
  PROVE  IsInteger(t) <=> IsNumber(t)
BY DecodeIs, OtherIs DEF IsResult

\* The small numbers the code starts from.
LEMMA OneIs ==
  /\ encodeSmall(1) = Immediate(1) /\ IsNumber(encodeSmall(1)) /\ Value(encodeSmall(1)) = 1
  /\ encodeSmall(0) = Immediate(0) /\ IsNumber(encodeSmall(0))
  /\ encodeSmall(10) = Immediate(10) /\ IsNumber(encodeSmall(10))
<1>1. 1 \in MinImmediate .. MaxImmediate /\ 0 \in MinImmediate .. MaxImmediate
      /\ 10 \in MinImmediate .. MaxImmediate
  BY WidthFacts
<1> QED
  BY <1>1, EncodeSmallIs, ImmediateIs

\* The sign of a comparison.
OrderOf(a, b) == IF a < b THEN -1 ELSE IF a > b THEN 1 ELSE 0

\* compareMagnitudes compares the magnitudes.
LEMMA CompareIsOrder ==
  ASSUME NEW l \in WordSeqs, NEW r \in WordSeqs
  PROVE  compareMagnitudes(l, r) = OrderOf(Magnitude(l), Magnitude(r))
<1>1. Magnitude(l) \in Nat /\ Magnitude(r) \in Nat
  BY MagnitudeIsNat
<1>2. CASE compareMagnitudes(l, r) = 0 /\ Same(l, r)
  <2>1. Magnitude(l) = Magnitude(r)
    BY <1>2, SameMagnitude
  <2> QED
    BY <2>1, <1>1, <1>2 DEF OrderOf
<1>3. CASE compareMagnitudes(l, r) = 1 /\ \E k : Exceeds(l, r, k)
  <2>1. Magnitude(l) > Magnitude(r)
    BY <1>3, ExceedsIsLarger
  <2> QED
    BY <2>1, <1>1, <1>3 DEF OrderOf
<1>4. CASE compareMagnitudes(l, r) = -1 /\ \E k : Exceeds(r, l, k)
  <2>1. Magnitude(r) > Magnitude(l)
    BY <1>4, ExceedsIsLarger
  <2> QED
    BY <2>1, <1>1, <1>4 DEF OrderOf
<1> QED
  BY <1>2, <1>3, <1>4, CompareIs

\* But for -0, the sign is that of the number.
LEMMA NegativeIs ==
  ASSUME NEW t, IsNumber(t), ~NegativeZero(t)
  PROVE  decodeLargeOrImmediate(t).isNegative <=> Value(t) < 0
<1>1. CASE isImmediate(t)
  <2>1. decodeLargeOrImmediate(t).isNegative = (t.value < 0)
    BY <1>1 DEF decodeLargeOrImmediate
  <2> QED
    BY <2>1, <1>1, AsImmediate
<1>2. CASE ~isImmediate(t)
  <2>1. PICK b \in BOOLEAN, w \in WordSeqs : Len(w) >= 1 /\ t = Large(b, w)
    BY <1>2, AsLarge
  <2>2. decodeLargeOrImmediate(t).isNegative = b
    BY <2>1, DecodeLarge
  <2>3. Value(t) = WithSign(b, Magnitude(w)) /\ (t.kind = "largeNegative") = b /\ t.words = w
    BY <2>1, LargeIs
  <2>4. Magnitude(w) \in Nat
    BY MagnitudeIsNat
  <2>5. CASE b
    <3>1. Magnitude(w) # 0
      BY <2>3, <2>5 DEF NegativeZero
    <3>2. Value(t) = - Magnitude(w)
      BY <2>3, <2>5 DEF WithSign
    <3> QED
      BY <3>1, <3>2, <2>2, <2>4, <2>5
  <2>6. CASE ~b
    <3>1. Value(t) = Magnitude(w)
      BY <2>3, <2>6 DEF WithSign
    <3> QED
      BY <3>1, <2>2, <2>4, <2>6
  <2> QED
    BY <2>5, <2>6
<1> QED
  BY <1>1, <1>2

\* compare compares the numbers.
LEMMA CompareOfNumbers ==
  ASSUME NEW l, NEW r, IsNumber(l), IsNumber(r), ~NegativeZero(l), ~NegativeZero(r)
  PROVE  compare(l, r) = OrderOf(Value(l), Value(r))
<1> DEFINE dl == decodeLargeOrImmediate(l)
           dr == decodeLargeOrImmediate(r)
           c == compareMagnitudes(dl.words, dr.words)
<1>1. CASE isImmediate(l) /\ isImmediate(r)
  <2>1. compare(l, r) = OrderOf(l.value, r.value)
    BY <1>1 DEF compare, OrderOf
  <2> QED
    BY <2>1, <1>1, AsImmediate
<1>2. CASE ~(isImmediate(l) /\ isImmediate(r))
  <2>1. compare(l, r) = IF dl.isNegative # dr.isNegative
                        THEN IF dl.isNegative THEN -1 ELSE 1
                        ELSE IF dl.isNegative THEN - c ELSE c
    BY <1>2 DEF compare
  <2>2. /\ dl.isNegative \in BOOLEAN /\ dl.words \in WordSeqs /\ Magnitude(dl.words) \in Int
        /\ Value(l) = WithSign(dl.isNegative, Magnitude(dl.words)) /\ Value(l) \in Int
    BY DecodedIs
  <2>3. /\ dr.isNegative \in BOOLEAN /\ dr.words \in WordSeqs /\ Magnitude(dr.words) \in Int
        /\ Value(r) = WithSign(dr.isNegative, Magnitude(dr.words)) /\ Value(r) \in Int
    BY DecodedIs
  <2>4. (dl.isNegative <=> Value(l) < 0) /\ (dr.isNegative <=> Value(r) < 0)
    BY NegativeIs
  <2>5. c = OrderOf(Magnitude(dl.words), Magnitude(dr.words))
    BY <2>2, <2>3, CompareIsOrder
  <2> HIDE DEF dl, dr, c
  <2>6. CASE dl.isNegative # dr.isNegative
    <3>1. CASE dl.isNegative = TRUE
      <4>1. compare(l, r) = -1 /\ dr.isNegative = FALSE
        BY <2>1, <2>3, <2>6, <3>1
      <4> QED
        BY <4>1, <2>2, <2>3, <2>4, <3>1 DEF OrderOf
    <3>2. CASE dl.isNegative = FALSE
      <4>1. compare(l, r) = 1 /\ dr.isNegative = TRUE
        BY <2>1, <2>3, <2>6, <3>2
      <4> QED
        BY <4>1, <2>2, <2>3, <2>4, <3>2 DEF OrderOf
    <3> QED
      BY <3>1, <3>2, <2>2
  <2>7. CASE dl.isNegative = dr.isNegative
    <3>1. CASE dl.isNegative
      <4>1. compare(l, r) = - c /\ dr.isNegative
        BY <2>1, <2>7, <3>1
      <4>2. Value(l) = - Magnitude(dl.words) /\ Value(r) = - Magnitude(dr.words)
        BY <4>1, <2>2, <2>3, <3>1 DEF WithSign
      <4> QED
        BY <4>1, <4>2, <2>2, <2>3, <2>5 DEF OrderOf
    <3>2. CASE ~dl.isNegative
      <4>1. compare(l, r) = c /\ ~dr.isNegative
        BY <2>1, <2>7, <3>2
      <4>2. Value(l) = Magnitude(dl.words) /\ Value(r) = Magnitude(dr.words)
        BY <4>1, <2>2, <2>3, <3>2 DEF WithSign
      <4> QED
        BY <4>1, <4>2, <2>5
    <3> QED
      BY <3>1, <3>2
  <2> QED
    BY <2>6, <2>7
<1> QED
  BY <1>1, <1>2

\* The nested calls of factorial, one by one.
LastArgument(t) == ~IsInteger(t) \/ lessEquals(t, encodeSmall(1))

NextArgument(t) == IF LastArgument(t) THEN t ELSE subtract(t, encodeSmall(1))

IsArguments(t, f) ==
  f = [k \in 0 .. MaxFactorial |->
         IF k = 0 THEN t
         ELSE IF LastArgument(f[k - 1]) THEN f[k - 1]
         ELSE subtract(f[k - 1], encodeSmall(1))]
Arguments(t) == CHOOSE f : IsArguments(t, f)
Ends(t) == {k \in 0 .. MaxFactorial : LastArgument(Arguments(t)[k])}

IsProductsOf(t, d, g) ==
  g = [k \in 0 .. d |->
         IF k = 0 THEN encodeSmall(1) ELSE multiply(g[k - 1], Arguments(t)[d - k])]
ProductOf(t, d) == CHOOSE g : IsProductsOf(t, d, g)

\* factorial, in terms of these.
LEMMA FactorialOf ==
  ASSUME NEW t
  PROVE  factorial(t) = IF Ends(t) = {} \/ ~IsInteger(Arguments(t)[Min(Ends(t))]) THEN Other
                        ELSE ProductOf(t, Min(Ends(t)))[Min(Ends(t))]
BY Zenon DEF factorial, LastArgument, IsArguments, Arguments, Ends, IsProductsOf, ProductOf

\* An argument leads to a result.
LEMMA NextArgumentIs ==
  ASSUME NEW t, IsResult(t)
  PROVE  IsResult(NextArgument(t))
<1>1. CASE LastArgument(t)
  BY <1>1 DEF NextArgument
<1>2. CASE ~LastArgument(t)
  <2>1. IsNumber(t)
    BY <1>2, ResultIs DEF LastArgument
  <2>2. IsResult(subtract(t, encodeSmall(1)))
    BY <2>1, OneIs, SubtractIs DEF Computes
  <2> QED
    BY <1>2, <2>2 DEF NextArgument
<1> QED
  BY <1>1, <1>2

\* The arguments of the nested calls follow one another.
LEMMA ArgumentsOf ==
  ASSUME NEW t, IsResult(t)
  PROVE  /\ Arguments(t)[0] = t
         /\ \A k \in 0 .. MaxFactorial : IsResult(Arguments(t)[k])
         /\ \A k \in 1 .. MaxFactorial : Arguments(t)[k] = NextArgument(Arguments(t)[k - 1])
<1> DEFINE n == MaxFactorial
           next == [i \in 0 + 1 .. n |-> [x \in Results |-> NextArgument(x)]]
<1>1. n \in Nat
  BY Widths
<1>2. next \in Steps(Results, 0, n)
  <2>1. ASSUME NEW x \in Results PROVE NextArgument(x) \in Results
    BY ResultsAre, NextArgumentIs
  <2> HIDE DEF n
  <2> QED
    BY <2>1 DEF Steps
<1>3. PICK f \in [0 .. n -> Results] : Recurs(f, 0, n, t, next)
  <2> HIDE DEF next, n
  <2>1. 0 \in Int /\ n \in Int /\ 0 <= n /\ t \in Results
    BY <1>1, ResultsAre
  <2> QED
    BY <2>1, <1>2, RecursionExists, Zenon
<1>4. ASSUME NEW i \in 0 .. n PROVE f[i] = IF i = 0 THEN t ELSE NextArgument(f[i - 1])
  <2>1. CASE i = 0
    BY <2>1, <1>3 DEF Recurs
  <2>2. CASE i # 0
    <3>1. i \in 0 + 1 .. n /\ i - 1 \in 0 .. n
      BY <2>2, <1>1
    <3>2. f[i - 1] \in Results /\ f[i] = next[i][f[i - 1]]
      <4> HIDE DEF next, n
      <4> QED
        BY <3>1, <1>3 DEF Recurs
    <3>3. next[i] = [x \in Results |-> NextArgument(x)]
      <4> HIDE DEF n
      <4> QED
        BY <3>1
    <3> QED
      BY <3>2, <3>3, <2>2
  <2> QED
    BY <2>1, <2>2
<1>5. IsArguments(t, f)
  <2>1. f = [i \in 0 .. n |-> f[i]]
    OBVIOUS
  <2> QED
    BY <2>1, <1>4 DEF IsArguments, NextArgument
<1>6. IsArguments(t, Arguments(t))
  BY <1>5 DEF Arguments
<1> DEFINE g == Arguments(t)
           S == {k \in 0 .. n : IsResult(g[k])}
<1>7. ASSUME NEW i \in 0 .. n PROVE g[i] = IF i = 0 THEN t ELSE NextArgument(g[i - 1])
  BY <1>6 DEF IsArguments, NextArgument
<1> HIDE DEF g, n
<1>8. g[0] = t /\ 0 \in S
  BY <1>1, <1>7
<1>9. ASSUME NEW k \in 1 .. n PROVE g[k] = NextArgument(g[k - 1])
  BY <1>1, <1>7
<1>10. ASSUME NEW k \in 0 .. n - 1, k \in S PROVE k + 1 \in S
  <2>1. k + 1 \in 0 .. n /\ k + 1 \in 1 .. n /\ (k + 1) - 1 = k
    BY <1>1
  <2>2. g[k + 1] = NextArgument(g[k])
    BY <2>1, <1>9
  <2> QED
    BY <2>1, <2>2, <1>10, NextArgumentIs
<1>11. \A k \in 0 .. n : k \in S
  <2> HIDE DEF S
  <2>1. 0 \in Int /\ n \in Int
    BY <1>1
  <2> QED
    BY <2>1, <1>8, <1>10, Upwards
<1> QED
  BY <1>8, <1>9, <1>11 DEF g, n

\* A set of natural numbers has its least member.
LEMMA LeastOf ==
  ASSUME NEW S, S \subseteq Nat, S # {}
  PROVE  Min(S) \in S /\ \A y \in S : Min(S) <= y
<1>1. \E m \in S : \A y \in S : m <= y
  BY LeastIsMember
<1> QED
  BY <1>1 DEF Min

\* The depth of the nested calls: before it no argument is the last.
LEMMA DepthIs ==
  ASSUME NEW t, IsResult(t), Ends(t) # {}
  PROVE  LET d == Min(Ends(t))
         IN /\ d \in 0 .. MaxFactorial /\ d \in Nat /\ LastArgument(Arguments(t)[d])
            /\ \A k \in 0 .. d - 1 : IsNumber(Arguments(t)[k]) /\ ~LastArgument(Arguments(t)[k])
<1> DEFINE d == Min(Ends(t))
<1>1. MaxFactorial \in Nat
  BY Widths
<1>2. Ends(t) \subseteq Nat
  BY <1>1 DEF Ends
<1>3. d \in Ends(t) /\ \A y \in Ends(t) : d <= y
  BY <1>2, LeastOf
<1> HIDE DEF d
<1>4. d \in 0 .. MaxFactorial /\ LastArgument(Arguments(t)[d]) /\ d \in Nat
  BY <1>1, <1>3 DEF Ends
<1>5. ASSUME NEW k \in 0 .. d - 1
      PROVE  IsNumber(Arguments(t)[k]) /\ ~LastArgument(Arguments(t)[k])
  <2>1. k \in 0 .. MaxFactorial /\ k \notin Ends(t)
    BY <1>1, <1>3, <1>4
  <2>2. ~LastArgument(Arguments(t)[k])
    BY <2>1 DEF Ends
  <2>3. IsResult(Arguments(t)[k])
    BY <2>1, ArgumentsOf
  <2> QED
    BY <2>2, <2>3, ResultIs DEF LastArgument
<1> QED
  BY <1>4, <1>5 DEF d

\* The products on the way back are numbers and follow one another.
LEMMA ProductOfIs ==
  ASSUME NEW t, NEW d \in Nat, \A k \in 0 .. d : IsNumber(Arguments(t)[k])
  PROVE  /\ ProductOf(t, d)[0] = encodeSmall(1)
         /\ \A k \in 0 .. d : IsNumber(ProductOf(t, d)[k])
         /\ \A k \in 1 .. d : ProductOf(t, d)[k]
                                = multiply(ProductOf(t, d)[k - 1], Arguments(t)[d - k])
<1> DEFINE one == encodeSmall(1)
           next == [i \in 0 + 1 .. d |-> [x \in Numbers |-> multiply(x, Arguments(t)[d - i])]]
<1>1. one \in Numbers
  BY OneIs, ResultsAre
<1>2. next \in Steps(Numbers, 0, d)
  <2>1. ASSUME NEW i \in 0 + 1 .. d, NEW x \in Numbers
        PROVE  multiply(x, Arguments(t)[d - i]) \in Numbers
    <3>1. IsNumber(Arguments(t)[d - i])
      <4>1. d - i \in 0 .. d
        OBVIOUS
      <4> QED
        BY <4>1
    <3>2. IsNumber(x)
      BY ResultsAre
    <3>3. IsNumber(multiply(x, Arguments(t)[d - i]))
      BY <3>1, <3>2, MultiplyIs
    <3> QED
      BY <3>3, ResultsAre
  <2> QED
    BY <2>1 DEF Steps
<1>3. PICK g \in [0 .. d -> Numbers] : Recurs(g, 0, d, one, next)
  <2> HIDE DEF next, one
  <2>1. 0 \in Int /\ d \in Int /\ 0 <= d
    OBVIOUS
  <2> QED
    BY <2>1, <1>1, <1>2, RecursionExists, Zenon
<1> HIDE DEF one
<1>4. ASSUME NEW i \in 0 .. d
      PROVE  g[i] = IF i = 0 THEN one ELSE multiply(g[i - 1], Arguments(t)[d - i])
  <2>1. CASE i = 0
    BY <2>1, <1>3 DEF Recurs
  <2>2. CASE i # 0
    <3>1. i \in 0 + 1 .. d /\ i - 1 \in 0 .. d
      BY <2>2
    <3>2. g[i - 1] \in Numbers /\ g[i] = next[i][g[i - 1]]
      <4> HIDE DEF next
      <4> QED
        BY <3>1, <1>3 DEF Recurs
    <3>3. next[i] = [x \in Numbers |-> multiply(x, Arguments(t)[d - i])]
      BY <3>1
    <3> QED
      BY <3>2, <3>3, <2>2
  <2> QED
    BY <2>1, <2>2
<1>5. IsProductsOf(t, d, g)
  <2>1. g = [i \in 0 .. d |-> g[i]]
    OBVIOUS
  <2> QED
    BY <2>1, <1>4 DEF IsProductsOf, one
<1>6. IsProductsOf(t, d, ProductOf(t, d))
  BY <1>5 DEF ProductOf
<1> DEFINE p == ProductOf(t, d)
           S == {k \in 0 .. d : IsNumber(p[k])}
<1>7. ASSUME NEW i \in 0 .. d
      PROVE  p[i] = IF i = 0 THEN one ELSE multiply(p[i - 1], Arguments(t)[d - i])
  BY <1>6 DEF IsProductsOf, one
<1> HIDE DEF p
<1>8. p[0] = one /\ 0 \in S
  BY <1>1, <1>7, OneIs DEF one
<1>9. ASSUME NEW k \in 1 .. d PROVE p[k] = multiply(p[k - 1], Arguments(t)[d - k])
  BY <1>7
<1>10. ASSUME NEW k \in 0 .. d - 1, k \in S PROVE k + 1 \in S
  <2>1. k + 1 \in 0 .. d /\ k + 1 \in 1 .. d /\ (k + 1) - 1 = k /\ d - (k + 1) \in 0 .. d
    OBVIOUS
  <2>2. p[k + 1] = multiply(p[k], Arguments(t)[d - (k + 1)])
    BY <2>1, <1>9
  <2>3. IsNumber(p[k]) /\ IsNumber(Arguments(t)[d - (k + 1)])
    BY <2>1, <1>10
  <2>4. IsNumber(multiply(p[k], Arguments(t)[d - (k + 1)]))
    BY <2>3, MultiplyIs
  <2> QED
    BY <2>1, <2>2, <2>4
<1>11. \A k \in 0 .. d : k \in S
  <2> HIDE DEF S
  <2>1. 0 \in Int /\ d \in Int
    OBVIOUS
  <2> QED
    BY <2>1, <1>8, <1>10, Upwards
<1> QED
  BY <1>8, <1>9, <1>11 DEF p, one

\* Whatever number the factorial is of, a result is returned.
LEMMA FactorialResult ==
  ASSUME NEW t, IsNumber(t)
  PROVE  IsResult(factorial(t))
<1> DEFINE d == Min(Ends(t))
<1>1. IsResult(t)
  BY DEF IsResult
<1>2. CASE Ends(t) = {} \/ ~IsInteger(Arguments(t)[d])
  BY <1>2, FactorialOf DEF IsResult
<1>3. CASE Ends(t) # {} /\ IsInteger(Arguments(t)[d])
  <2>1. factorial(t) = ProductOf(t, d)[d]
    BY <1>3, FactorialOf
  <2>2. /\ d \in 0 .. MaxFactorial /\ d \in Nat
        /\ \A k \in 0 .. d - 1 : IsNumber(Arguments(t)[k])
    BY <1>1, <1>3, DepthIs
  <2> HIDE DEF d
  <2>3. IsNumber(Arguments(t)[d])
    <3>1. IsResult(Arguments(t)[d])
      BY <1>1, <2>2, ArgumentsOf
    <3> QED
      BY <3>1, <1>3, ResultIs
  <2>4. ASSUME NEW k \in 0 .. d PROVE IsNumber(Arguments(t)[k])
    BY <2>2, <2>3
  <2>5. d \in 0 .. d
    BY <2>2
  <2>6. IsNumber(ProductOf(t, d)[d])
    BY <2>2, <2>4, <2>5, ProductOfIs
  <2> QED
    BY <2>1, <2>6 DEF IsResult
<1> QED
  BY <1>2, <1>3

-----------------------------------------------------------------------------
\* The factorial of a number that is at most one, in an immediate or not, is one.
LEMMA SmallFactorial ==
  ASSUME NEW t, IsNumber(t), Value(t) <= 1
  PROVE  factorial(t) = encodeSmall(1)
<1> DEFINE a == Arguments(t)
<1>1. MaxFactorial \in Nat /\ IsResult(t) /\ IsInteger(t)
  BY Widths, ResultIs DEF IsResult
<1>2. a[0] = t
  BY <1>1, ArgumentsOf
<1>3. lessEquals(t, Immediate(1))
  <2>1. IsNumber(Immediate(1)) /\ Value(Immediate(1)) = 1 /\ ~NegativeZero(Immediate(1))
    <3>1. 1 \in MinImmediate .. MaxImmediate
      BY WidthFacts
    <3> QED
      BY <3>1, ImmediateIs, ImmediateIsNumber DEF NegativeZero, Immediate
  <2>2. CASE ~NegativeZero(t)
    <3>1. compare(t, Immediate(1)) = OrderOf(Value(t), 1)
      BY <2>1, <2>2, CompareOfNumbers
    <3>2. Value(t) \in Int
      BY DecodedIs
    <3>3. OrderOf(Value(t), 1) <= 0
      BY <3>2 DEF OrderOf
    <3> QED
      BY <3>1, <3>3 DEF lessEquals
  <2>3. CASE NegativeZero(t)
    <3>1. ~isImmediate(t)
      BY <2>3 DEF NegativeZero, isImmediate
    <3>2. decodeLargeOrImmediate(t).isNegative = TRUE
      BY <2>3, <3>1 DEF decodeLargeOrImmediate, NegativeZero
    <3>3. decodeLargeOrImmediate(Immediate(1)).isNegative = FALSE
      <4>1. decodeLargeOrImmediate(Immediate(1)).isNegative = (Immediate(1).value < 0)
        BY ImmediateIs DEF decodeLargeOrImmediate
      <4>2. Immediate(1).value = 1
        BY ImmediateIs
      <4>3. (1 < 0) = FALSE
        OBVIOUS
      <4> QED
        BY <4>1, <4>2, <4>3
    <3>4. compare(t, Immediate(1)) = -1
      BY <3>1, <3>2, <3>3 DEF compare
    <3> QED
      BY <3>4 DEF lessEquals
  <2> QED
    BY <2>2, <2>3
<1>4. LastArgument(a[0]) /\ IsNumber(a[0]) /\ IsInteger(a[0])
  BY <1>1, <1>2, <1>3, OneIs DEF LastArgument
<1>5. 0 \in Ends(t) /\ Ends(t) \subseteq Nat
  BY <1>4, <1>1 DEF Ends
<1>6. Min(Ends(t)) = 0
  <2>1. Min(Ends(t)) \in Ends(t) /\ Min(Ends(t)) <= 0
    BY <1>5, LeastOf
  <2> QED
    BY <2>1, <1>5
<1>7. factorial(t) = ProductOf(t, 0)[0]
  BY <1>4, <1>5, <1>6, FactorialOf
<1>8. ProductOf(t, 0)[0] = encodeSmall(1)
  <2>1. \A k \in 0 .. 0 : IsNumber(a[k])
    BY <1>4
  <2>2. 0 \in Nat
    OBVIOUS
  <2> QED
    BY <2>1, <2>2, ProductOfIs
<1> QED
  BY <1>7, <1>8

\* The calls end at an immediate that is at most one.
LEMMA LastImmediate ==
  ASSUME NEW v \in Int, v \in MinImmediate .. MaxImmediate
  PROVE  LastArgument(Immediate(v)) <=> v <= 1
<1>1. encodeSmall(1) = Immediate(1)
  BY OneIs
<1>2. compare(Immediate(v), Immediate(1)) = IF v < 1 THEN -1 ELSE IF v > 1 THEN 1 ELSE 0
  <2>1. isImmediate(Immediate(v)) /\ Immediate(v).value = v
        /\ isImmediate(Immediate(1)) /\ Immediate(1).value = 1
    BY ImmediateIs
  <2> QED
    BY <2>1 DEF compare
<1>3. lessEquals(Immediate(v), Immediate(1)) <=> v <= 1
  BY <1>2 DEF lessEquals
<1> QED
  BY <1>1, <1>3, ImmediateIs DEF LastArgument

\* Above it, the next argument is one less.
LEMMA OneLess ==
  ASSUME NEW v \in Int, v \in MinImmediate .. MaxImmediate, v >= 2
  PROVE  subtract(Immediate(v), encodeSmall(1)) = Immediate(v - 1)
<1>1. subtract(Immediate(v), Immediate(1)) = encodeInt64(v - 1)
  BY ImmediateIs DEF subtract
<1>2. v - 1 \in MinImmediate .. MaxImmediate /\ v - 1 \in Int
  BY WidthFacts
<1>3. encodeInt64(v - 1) = Immediate(v - 1)
  BY <1>2, EncodeIs
<1> QED
  BY <1>1, <1>3, OneIs

\* The arguments of an immediate count down to one.
LEMMA ImmediateArguments ==
  ASSUME NEW n \in Nat, n \in MinImmediate .. MaxImmediate, n >= 1, n <= MaxFactorial
  PROVE  /\ \A k \in 0 .. n - 1 : Arguments(Immediate(n))[k] = Immediate(n - k)
         /\ Ends(Immediate(n)) # {} /\ Min(Ends(Immediate(n))) = n - 1
<1> DEFINE t == Immediate(n)
           a == Arguments(t)
           S == {k \in 0 .. n - 1 : a[k] = Immediate(n - k)}
<1>1. MaxFactorial \in Nat /\ IsResult(t)
  BY Widths, ImmediateIsNumber
<1>2. a[0] = t /\ \A k \in 1 .. MaxFactorial : a[k] = NextArgument(a[k - 1])
  BY <1>1, ArgumentsOf
<1> HIDE DEF a
<1>3. 0 \in S
  <2>1. n - 0 = n
    OBVIOUS
  <2> QED
    BY <2>1, <1>2
<1>4. ASSUME NEW k \in 0 .. (n - 1) - 1, k \in S PROVE k + 1 \in S
  <2>1. /\ k + 1 \in 1 .. MaxFactorial /\ (k + 1) - 1 = k /\ k + 1 \in 0 .. n - 1
        /\ (n - k) - 1 = n - (k + 1) /\ n - k >= 2 /\ n - k \in Int
    BY <1>1
  <2>2. n - k \in MinImmediate .. MaxImmediate
    BY <2>1, WidthFacts
  <2>3. a[k + 1] = NextArgument(Immediate(n - k))
    BY <2>1, <1>2, <1>4
  <2>4. ~LastArgument(Immediate(n - k))
    BY <2>1, <2>2, LastImmediate
  <2>5. subtract(Immediate(n - k), encodeSmall(1)) = Immediate((n - k) - 1)
    BY <2>1, <2>2, OneLess
  <2>6. a[k + 1] = Immediate(n - (k + 1))
    BY <2>1, <2>3, <2>4, <2>5 DEF NextArgument
  <2> QED
    BY <2>1, <2>6
<1>5. \A k \in 0 .. n - 1 : k \in S
  <2> HIDE DEF S
  <2>1. 0 \in Int /\ n - 1 \in Int
    OBVIOUS
  <2> QED
    BY <2>1, <1>3, <1>4, Upwards
<1>6. ASSUME NEW k \in 0 .. n - 1 PROVE LastArgument(a[k]) <=> k = n - 1
  <2>1. n - k \in MinImmediate .. MaxImmediate /\ n - k \in Int /\ (n - k <= 1 <=> k = n - 1)
    BY WidthFacts
  <2>2. a[k] = Immediate(n - k)
    BY <1>5
  <2> QED
    BY <2>1, <2>2, LastImmediate
<1>7. n - 1 \in Ends(t)
  <2>1. n - 1 \in 0 .. n - 1 /\ n - 1 \in 0 .. MaxFactorial
    BY <1>1
  <2>2. LastArgument(a[n - 1])
    BY <2>1, <1>6
  <2> QED
    BY <2>1, <2>2 DEF Ends, a
<1>8. Min(Ends(t)) = n - 1
  <2>1. Ends(t) \subseteq Nat
    BY <1>1 DEF Ends
  <2>2. Min(Ends(t)) \in Ends(t) /\ Min(Ends(t)) <= n - 1
    BY <2>1, <1>7, LeastOf
  <2>3. PICK m \in Nat : m = Min(Ends(t))
    BY <2>1, <2>2
  <2>4. m \in 0 .. n - 1 /\ LastArgument(a[m])
    BY <2>2, <2>3 DEF Ends, a
  <2> QED
    BY <2>3, <2>4, <1>6
<1> QED
  BY <1>5, <1>7, <1>8 DEF a

\* The function ExactFactorial is defined with.
IsFactorial(n, f) == f = [k \in 0 .. MaxOf(n, 0) |-> IF k = 0 THEN 1 ELSE k * f[k - 1]]
Factorials(n) == CHOOSE f : IsFactorial(n, f)

\* It exists, and its values are the factorials.
LEMMA FactorialsOf ==
  ASSUME NEW n \in Nat
  PROVE  /\ ExactFactorial(n) = Factorials(n)[n]
         /\ Factorials(n)[0] = 1
         /\ \A k \in 0 .. n : Factorials(n)[k] \in Nat /\ Factorials(n)[k] >= 1
         /\ \A k \in 1 .. n : Factorials(n)[k] = k * Factorials(n)[k - 1]
<1> DEFINE V == Nat \ {0}
           next == [i \in 0 + 1 .. n |-> [x \in V |-> i * x]]
<1>1. MaxOf(n, 0) = n
  BY DEF MaxOf
<1>2. next \in Steps(V, 0, n)
  <2>1. ASSUME NEW i \in 0 + 1 .. n, NEW x \in V PROVE i * x \in V
    <3>1. i \in Nat /\ i >= 1 /\ x \in Nat /\ x >= 1
      OBVIOUS
    <3>2. i * x \in Nat /\ i * x >= x
      BY <3>1
    <3> QED
      BY <3>1, <3>2
  <2> HIDE DEF V
  <2> QED
    BY <2>1 DEF Steps
<1>3. PICK f \in [0 .. n -> V] : Recurs(f, 0, n, 1, next)
  <2>1. 0 \in Int /\ n \in Int /\ 0 <= n /\ 1 \in V
    OBVIOUS
  <2> HIDE DEF next, V
  <2> QED
    BY <2>1, <1>2, RecursionExists, Zenon
<1>4. ASSUME NEW i \in 0 .. n PROVE f[i] = IF i = 0 THEN 1 ELSE i * f[i - 1]
  <2>1. CASE i = 0
    BY <2>1, <1>3 DEF Recurs
  <2>2. CASE i # 0
    <3>1. i \in 0 + 1 .. n /\ i - 1 \in 0 .. n
      BY <2>2
    <3>2. f[i - 1] \in V /\ f[i] = next[i][f[i - 1]]
      <4> HIDE DEF next
      <4> QED
        BY <3>1, <1>3 DEF Recurs
    <3>3. next[i] = [x \in V |-> i * x]
      BY <3>1
    <3> HIDE DEF next, V
    <3> QED
      BY <3>2, <3>3, <2>2
  <2> QED
    BY <2>1, <2>2
<1>5. IsFactorial(n, f)
  <2>1. f = [i \in 0 .. n |-> f[i]]
    OBVIOUS
  <2> QED
    BY <2>1, <1>1, <1>4 DEF IsFactorial
<1> DEFINE g == Factorials(n)
           S == {k \in 0 .. n : g[k] \in V}
<1>6. IsFactorial(n, g)
  BY <1>5 DEF Factorials
<1>7. ASSUME NEW i \in 0 .. n PROVE g[i] = IF i = 0 THEN 1 ELSE i * g[i - 1]
  BY <1>1, <1>6 DEF IsFactorial
<1>8. ExactFactorial(n) = g[MaxOf(n, 0)]
  BY Zenon DEF ExactFactorial, Factorials, IsFactorial
<1> HIDE DEF g, next
<1>9. g[0] = 1 /\ 0 \in S
  BY <1>7
<1>10. ASSUME NEW k \in 1 .. n PROVE g[k] = k * g[k - 1]
  BY <1>7
<1>11. ASSUME NEW k \in 0 .. n - 1, k \in S PROVE k + 1 \in S
  <2>1. k + 1 \in 1 .. n /\ (k + 1) - 1 = k /\ k + 1 \in 0 .. n
    OBVIOUS
  <2>2. g[k + 1] = (k + 1) * g[k]
    BY <2>1, <1>10
  <2>3. PICK x \in Nat : x = g[k] /\ x >= 1
    BY <1>11
  <2>4. (k + 1) * x \in Nat /\ (k + 1) * x >= x
    BY <2>3
  <2>5. g[k + 1] \in Nat /\ g[k + 1] >= 1
    BY <2>2, <2>3, <2>4
  <2> QED
    BY <2>1, <2>5
<1>12. \A k \in 0 .. n : k \in S
  <2> HIDE DEF S
  <2>1. 0 \in Int /\ n \in Int
    OBVIOUS
  <2> QED
    BY <2>1, <1>9, <1>11, Upwards
<1>13. \A k \in 0 .. n : g[k] \in Nat /\ g[k] >= 1
  BY <1>12
<1> QED
  BY <1>1, <1>8, <1>9, <1>10, <1>13 DEF g

\* The factorial of a number that is at most one should be one.
LEMMA SmallExactFactorial ==
  ASSUME NEW n \in Int, n <= 1
  PROVE  ExactFactorial(n) = 1
<1>1. ExactFactorial(0) = 1
  BY FactorialsOf
<1>2. CASE n < 1
  <2>1. MaxOf(n, 0) = 0 /\ MaxOf(0, 0) = 0
    BY <1>2 DEF MaxOf
  <2>2. ExactFactorial(n) = ExactFactorial(0)
    BY <2>1 DEF ExactFactorial
  <2> QED
    BY <1>1, <2>2
<1>3. CASE n = 1
  <2>1. 1 \in 1 .. 1 /\ 1 - 1 = 0 /\ 1 \in Nat
    OBVIOUS
  <2>2. /\ ExactFactorial(1) = Factorials(1)[1] /\ Factorials(1)[0] = 1
        /\ Factorials(1)[1] = 1 * Factorials(1)[1 - 1]
    BY <2>1, FactorialsOf
  <2> QED
    BY <1>3, <2>1, <2>2
<1> QED
  BY <1>2, <1>3

\* A product of numbers that are not negative is never faulty.
LEMMA PositiveProduct ==
  ASSUME NEW l, NEW r, IsNumber(l), IsNumber(r), Value(l) >= 0, Value(r) >= 0
  PROVE  IsNumber(multiply(l, r)) /\ Value(multiply(l, r)) = Value(l) * Value(r)
<1>1. IsNumber(multiply(l, r))
      /\ (~Faulty("*", l, r) => Value(multiply(l, r)) = Value(l) * Value(r))
  BY MultiplyIs DEF Computes
<1>2. CASE isImmediate(l) /\ isImmediate(r)
  <2>1. l.value \in Int /\ Value(l) = l.value /\ r.value \in Int /\ Value(r) = r.value
    BY <1>2, AsImmediate
  <2>2. PICK a \in Nat, b \in Nat : a = l.value /\ b = r.value
    BY <2>1
  <2>3. PICK x \in Nat : x = a * b
    OBVIOUS
  <2>4. x \notin 1 - HalfNative .. MinImmediate - 1
    BY WidthFacts
  <2>5. Faulty("*", l, r) <=> x \in 1 - HalfNative .. MinImmediate - 1
    BY <2>2, <2>3, <1>2, FaultyImmediates
  <2> QED
    BY <2>4, <2>5, <1>1
<1>3. CASE ~(isImmediate(l) /\ isImmediate(r))
  <2>1. ~Faulty("*", l, r)
    BY <1>3 DEF Faulty
  <2> QED
    BY <2>1, <1>1
<1> QED
  BY <1>2, <1>3

\* factorial computes the factorial of an immediate.
LEMMA FactorialIs ==
  ASSUME NEW n \in Int, n \in MinImmediate .. MaxImmediate, n <= MaxFactorial
  PROVE  /\ IsNumber(factorial(Immediate(n)))
         /\ Value(factorial(Immediate(n))) = ExactFactorial(n)
<1> DEFINE t == Immediate(n)
           a == Arguments(t)
<1>1. MaxFactorial \in Nat /\ IsResult(t) /\ IsNumber(t) /\ IsInteger(t)
  BY Widths, ImmediateIsNumber, ImmediateIs
<1>2. CASE n < 1
  <2>1. factorial(t) = encodeSmall(1)
    BY <1>1, <1>2, ImmediateIs, SmallFactorial
  <2>2. ExactFactorial(n) = 1
    BY <1>2, SmallExactFactorial
  <2> QED
    BY <2>1, <2>2, OneIs
<1>3. CASE n >= 1
  <2> DEFINE d == n - 1
             p == ProductOf(t, d)
             f == Factorials(n)
             S == {k \in 0 .. d : Value(p[k]) = f[k + 1]}
  <2>1. n \in Nat /\ d \in Nat
    BY <1>3
  <2>2. /\ \A k \in 0 .. d : a[k] = Immediate(n - k)
        /\ Ends(t) # {} /\ Min(Ends(t)) = d
    BY <2>1, <1>3, ImmediateArguments
  <2> HIDE DEF a
  <2>3. ASSUME NEW k \in 0 .. d
        PROVE  /\ IsNumber(a[k]) /\ IsInteger(a[k])
               /\ Value(a[d - k]) = k + 1 /\ IsNumber(a[d - k])
    <3>1. /\ n - k \in MinImmediate .. MaxImmediate /\ d - k \in 0 .. d
          /\ n - (d - k) = k + 1 /\ k + 1 \in MinImmediate .. MaxImmediate
      BY <2>1, WidthFacts
    <3>2. a[k] = Immediate(n - k) /\ a[d - k] = Immediate(k + 1)
      BY <3>1, <2>2
    <3> QED
      BY <3>1, <3>2, ImmediateIs, ImmediateIsNumber
  <2>4. factorial(t) = p[d]
    <3>1. d \in 0 .. d
      BY <2>1
    <3>2. IsInteger(a[d])
      BY <3>1, <2>3
    <3> HIDE DEF d
    <3> QED
      BY <3>2, <2>2, FactorialOf DEF a
  <2>5. /\ p[0] = encodeSmall(1)
        /\ \A k \in 0 .. d : IsNumber(p[k])
        /\ \A k \in 1 .. d : p[k] = multiply(p[k - 1], a[d - k])
    <3>1. \A k \in 0 .. d : IsNumber(Arguments(t)[k])
      BY <2>3 DEF a
    <3> HIDE DEF d
    <3> QED
      BY <3>1, <2>1, ProductOfIs DEF a
  <2>6. /\ ExactFactorial(n) = f[n] /\ f[0] = 1
        /\ \A k \in 0 .. n : f[k] \in Nat
        /\ \A k \in 1 .. n : f[k] = k * f[k - 1]
    BY <2>1, FactorialsOf
  <2> HIDE DEF p, f
  <2>7. 0 \in S
    <3>1. 1 \in 1 .. n /\ 0 \in 0 .. d
      BY <2>1, <1>3
    <3>2. f[1] = 1 * f[0]
      <4>1. 1 - 1 = 0
        OBVIOUS
      <4> QED
        BY <3>1, <4>1, <2>6
    <3>3. f[0 + 1] = 1
      BY <3>2, <2>6
    <3> QED
      BY <3>1, <3>3, <2>5, OneIs
  <2>8. ASSUME NEW k \in 0 .. d - 1, k \in S PROVE k + 1 \in S
    <3>1. /\ k + 1 \in 0 .. d /\ k + 1 \in 1 .. d /\ (k + 1) - 1 = k /\ k \in 0 .. d
          /\ (k + 1) + 1 \in 1 .. n /\ ((k + 1) + 1) - 1 = k + 1 /\ k + 1 \in 0 .. n
      BY <2>1
    <3>2. p[k + 1] = multiply(p[k], a[d - (k + 1)])
      BY <3>1, <2>5
    <3>3. IsNumber(p[k]) /\ Value(p[k]) = f[k + 1] /\ f[k + 1] \in Nat
      BY <3>1, <2>5, <2>6, <2>8
    <3>4. IsNumber(a[d - (k + 1)]) /\ Value(a[d - (k + 1)]) = (k + 1) + 1
      BY <3>1, <2>3
    <3>5. f[(k + 1) + 1] = ((k + 1) + 1) * f[k + 1]
      BY <3>1, <2>6
    <3>6. Value(p[k]) >= 0 /\ Value(a[d - (k + 1)]) >= 0
      BY <3>3, <3>4
    <3>7. Value(multiply(p[k], a[d - (k + 1)])) = Value(p[k]) * Value(a[d - (k + 1)])
      BY <3>3, <3>4, <3>6, PositiveProduct
    <3>8. f[k + 1] * ((k + 1) + 1) = ((k + 1) + 1) * f[k + 1]
      BY <3>3
    <3> QED
      BY <3>1, <3>2, <3>3, <3>4, <3>5, <3>7, <3>8
  <2>9. \A k \in 0 .. d : k \in S
    <3>1. 0 \in Int /\ d \in Int
      BY <2>1
    <3> HIDE DEF S, d
    <3> QED
      BY <3>1, <2>7, <2>8, Upwards
  <2>10. d \in 0 .. d /\ d + 1 = n
    BY <2>1
  <2> HIDE DEF d
  <2>11. Value(p[d]) = f[n] /\ IsNumber(p[d])
    BY <2>5, <2>9, <2>10
  <2> QED
    BY <2>4, <2>6, <2>11
<1> QED
  BY <1>2, <1>3

\* Every primitive computes its number outside the faulty cases.
LEMMA PrimitiveIs ==
  ASSUME NEW name \in Primitives, NEW l, NEW r, IsNumber(l), IsNumber(r),
         name \in {"//", "%"} => r # Immediate(0),
         name = "factorial" => Value(l) <= MaxFactorial
  PROVE  Computes(Primitive(name, l, r), Faulty(name, l, r), Exact(name, Value(l), Value(r)))
<1>1. CASE name = "+"
  BY <1>1, AddIs DEF Primitive, Exact
<1>2. CASE name = "-"
  BY <1>2, SubtractIs DEF Primitive, Exact
<1>3. CASE name = "*"
  BY <1>3, MultiplyIs DEF Primitive, Exact
<1>4. CASE name = "//"
  BY <1>4, DivideIs DEF Primitive, Exact
<1>5. CASE name = "%"
  BY <1>5, DivideIs DEF Primitive, Exact
<1>6. CASE name = "negated"
  BY <1>6, NegatedIs DEF Primitive, Exact
<1>7. CASE name = "factorial"
  <2>1. /\ Primitive(name, l, r) = factorial(l)
        /\ Exact(name, Value(l), Value(r)) = ExactFactorial(Value(l))
    BY <1>7 DEF Primitive, Exact
  <2>2. CASE ~isImmediate(l)
    <3>1. Value(l) \in Int
      BY DecodedIs
    <3>2. CASE Value(l) > 1
      <4>1. Faulty(name, l, r)
        BY <1>7, <2>2, <3>2, FaultyNegated
      <4> QED
        BY <4>1, <2>1, FactorialResult DEF Computes
    <3>3. CASE Value(l) <= 1
      <4>1. factorial(l) = encodeSmall(1) /\ ExactFactorial(Value(l)) = 1
        BY <3>1, <3>3, SmallFactorial, SmallExactFactorial
      <4> QED
        BY <4>1, <2>1, OneIs DEF Computes, IsResult
    <3> QED
      BY <3>1, <3>2, <3>3
  <2>3. CASE isImmediate(l)
    <3>1. /\ l.value \in Int /\ l.value \in MinImmediate .. MaxImmediate
          /\ l = Immediate(l.value) /\ Value(l) = l.value
      BY <2>3, AsImmediate
    <3>2. l.value <= MaxFactorial
      BY <1>7, <3>1
    <3>3. IsNumber(factorial(l)) /\ Value(factorial(l)) = ExactFactorial(l.value)
      <4>1. PICK n \in Int : n = l.value
        BY <3>1
      <4> QED
        BY <4>1, <3>1, <3>2, FactorialIs
    <3> QED
      BY <3>1, <3>3, <2>1 DEF Computes, IsResult
  <2> QED
    BY <2>2, <2>3
<1> QED
  BY <1>1, <1>2, <1>3, <1>4, <1>5, <1>6, <1>7 DEF Primitives

-----------------------------------------------------------------------------
(***************************************************************************)
(* What is parsed.                                                         *)
(***************************************************************************)
\* What the loop over the characters keeps.
Readings == [result : Results, radix : Numbers, canParseRadix : BOOLEAN]

\* A character that is there has a position.
LEMMA PositionIs ==
  ASSUME NEW c, NEW seq, DOMAIN seq \subseteq Int, c \in CharactersOf(seq)
  PROVE  PositionOf(c, seq) \in Int
<1>1. \E i \in DOMAIN seq : seq[i] = c
  BY DEF CharactersOf
<1> QED
  BY <1>1 DEF PositionOf

\* A digit has a value.
LEMMA DigitValueIs ==
  ASSUME NEW c, \/ IsDecimalDigit(c)
                \/ c \in CharactersOf(DigitCharacter) \cup CharactersOf(LowerCharacter)
  PROVE  DigitValue(c) \in Int
<1>1. DOMAIN DigitCharacter = 1 .. 16 /\ DOMAIN LowerCharacter = 1 .. 6
  BY DEF DigitCharacter, LowerCharacter
<1>2. IsDecimalDigit(c) => c \in CharactersOf(DigitCharacter)
  <2>1. SUFFICES ASSUME IsDecimalDigit(c) PROVE c \in CharactersOf(DigitCharacter)
    OBVIOUS
  <2> DEFINE s == SubSeq(DigitCharacter, 1, 10)
  <2>2. DOMAIN s = 1 .. 10 /\ \A i \in 1 .. 10 : s[i] = DigitCharacter[i]
    <3> DEFINE C == {DigitCharacter[i] : i \in 1 .. 16}
    <3>1. DigitCharacter \in Seq(C) /\ Len(DigitCharacter) = 16
      <4>1. DigitCharacter = [i \in 1 .. 16 |-> DigitCharacter[i]]
        BY DEF DigitCharacter
      <4>2. DigitCharacter \in [1 .. 16 -> C]
        BY <4>1
      <4>3. PICK n \in Nat : n = 16
        OBVIOUS
      <4>4. DigitCharacter \in [1 .. n -> C]
        BY <4>2, <4>3
      <4> HIDE DEF C
      <4>5. DigitCharacter \in Seq(C) /\ Len(DigitCharacter) = n
        BY <4>4
      <4> QED
        BY <4>3, <4>5
    <3>2. s = [i \in 1 .. 10 |-> DigitCharacter[i]]
      BY <3>1
    <3> HIDE DEF s
    <3> QED
      BY <3>2
  <2>3. PICK i \in DOMAIN s : s[i] = c
    BY <2>1 DEF IsDecimalDigit, CharactersOf
  <2> HIDE DEF s
  <2>4. i \in DOMAIN DigitCharacter /\ DigitCharacter[i] = c
    BY <1>1, <2>2, <2>3
  <2> QED
    BY <2>4 DEF CharactersOf
<1>3. CASE c \in CharactersOf(DigitCharacter)
  <2>1. PositionOf(c, DigitCharacter) \in Int
    BY <1>1, <1>3, PositionIs
  <2> QED
    BY <2>1, <1>3 DEF DigitValue
<1>4. CASE c \notin CharactersOf(DigitCharacter)
  <2>1. PositionOf(c, LowerCharacter) \in Int
    BY <1>1, <1>2, <1>4, PositionIs
  <2> QED
    BY <2>1, <1>4 DEF DigitValue
<1> QED
  BY <1>3, <1>4

\* A turn of the loop keeps a result, and a radix that is a number.
LEMMA AfterCharacterIs ==
  ASSUME NEW read \in Readings, NEW c
  PROVE  AfterCharacter(read, c) \in Readings
<1> DEFINE isDigit == \/ IsDecimalDigit(c)
                      \/ /\ ~read.canParseRadix
                         /\ c \in CharactersOf(DigitCharacter) \cup CharactersOf(LowerCharacter)
           digitValue == encodeSmall(DigitValue(c))
           raised == [read EXCEPT !.result = Raised]
           sum == add(multiply(read.result, read.radix), digitValue)
           longer == [read EXCEPT !.result = sum]
           start == [result |-> encodeSmall(0), radix |-> read.result, canParseRadix |-> FALSE]
           after == AfterCharacter(read, c)
<1>1. read.result \in Results /\ read.radix \in Numbers /\ read.canParseRadix \in BOOLEAN
  BY DEF Readings
<1>2. raised \in Readings
  <2>1. Other \in Results
    BY DEF Results
  <2> QED
    BY <2>1 DEF Readings, Raised
<1>3. ASSUME IsInteger(read.result) PROVE IsNumber(read.result) /\ read.result \in Numbers
  BY <1>1, <1>3, ResultsAre, ResultIs
<1>4. ASSUME IsInteger(read.result), isDigit PROVE longer \in Readings
  <2>1. DigitValue(c) \in Int
    BY <1>4, DigitValueIs
  <2> HIDE DEF isDigit
  <2>2. IsNumber(digitValue)
    BY <2>1, EncodeSmallIs
  <2>3. IsNumber(read.radix)
    BY <1>1, ResultsAre
  <2> HIDE DEF digitValue
  <2>4. IsNumber(multiply(read.result, read.radix))
    BY <2>3, <1>3, <1>4, MultiplyIs
  <2>5. IsResult(sum)
    BY <2>2, <2>4, AddIs DEF Computes
  <2> HIDE DEF sum
  <2>6. sum \in Results
    BY <2>5, ResultsAre
  <2> QED
    BY <2>6 DEF Readings
<1>5. ASSUME IsInteger(read.result) PROVE start \in Readings
  <2>1. encodeSmall(0) \in Results
    BY OneIs, ResultsAre DEF IsResult
  <2> QED
    BY <2>1, <1>3, <1>5 DEF Readings
<1>6. after = read \/ after = raised \/ after = start \/ after = longer
  BY DEF AfterCharacter
<1>7. ~IsInteger(read.result) => after = read
  BY DEF AfterCharacter
<1>8. IsInteger(read.result) /\ ~isDigit => after = read \/ after = raised \/ after = start
  BY DEF AfterCharacter
<1> HIDE DEF after, raised, longer, start, isDigit
<1>9. after \in Readings
  BY <1>2, <1>4, <1>5, <1>6, <1>7, <1>8
<1> QED
  BY <1>9 DEF after

\* The function ParsedFrom is defined with.
IsReading(string, first, f) ==
  f = [i \in first - 1 .. Len(string) |->
         IF i = first - 1
         THEN [result |-> encodeSmall(0), radix |-> encodeSmall(10), canParseRadix |-> TRUE]
         ELSE AfterCharacter(f[i - 1], string[i])]
ReadingOf(string, first) == CHOOSE f : IsReading(string, first, f)

\* The function of ParsedFrom is one that recurs.
LEMMA ReadingOfIs ==
  ASSUME NEW string, Len(string) \in Nat, NEW first \in Nat, first - 1 <= Len(string)
  PROVE  LET g == ReadingOf(string, first)
         IN /\ ParsedFrom(string, first) = g[Len(string)].result
            /\ g[first - 1] = [result |-> encodeSmall(0), radix |-> encodeSmall(10),
                               canParseRadix |-> TRUE]
            /\ \A i \in first .. Len(string) : g[i] = AfterCharacter(g[i - 1], string[i])
<1> DEFINE m == first - 1
           n == Len(string)
           a == [result |-> encodeSmall(0), radix |-> encodeSmall(10), canParseRadix |-> TRUE]
           next == [i \in m + 1 .. n |-> [x \in Readings |-> AfterCharacter(x, string[i])]]
<1>1. m \in Int /\ n \in Int /\ m <= n
  OBVIOUS
<1>2. a \in Readings
  <2>1. encodeSmall(0) \in Results /\ encodeSmall(10) \in Numbers
    BY OneIs, ResultsAre DEF IsResult
  <2> QED
    BY <2>1 DEF Readings
<1> HIDE DEF m, n, a
<1>3. next \in Steps(Readings, m, n)
  BY AfterCharacterIs DEF Steps
<1>4. PICK f \in [m .. n -> Readings] : Recurs(f, m, n, a, next)
  <2> HIDE DEF next
  <2> QED
    BY <1>1, <1>2, <1>3, RecursionExists, Zenon
<1>5. ASSUME NEW i \in m .. n
      PROVE  f[i] = IF i = m THEN a ELSE AfterCharacter(f[i - 1], string[i])
  <2>1. CASE i = m
    BY <2>1, <1>4 DEF Recurs
  <2>2. CASE i # m
    <3>1. i \in m + 1 .. n /\ i - 1 \in m .. n
      BY <2>2, <1>1
    <3>2. f[i - 1] \in Readings /\ f[i] = next[i][f[i - 1]]
      <4> HIDE DEF next
      <4> QED
        BY <3>1, <1>4 DEF Recurs
    <3>3. next[i] = [x \in Readings |-> AfterCharacter(x, string[i])]
      BY <3>1
    <3> QED
      BY <3>2, <3>3, <2>2
  <2> QED
    BY <2>1, <2>2
<1>6. IsReading(string, first, f)
  <2>1. f = [i \in m .. n |-> f[i]]
    OBVIOUS
  <2>2. f = [i \in m .. n |-> IF i = m THEN a ELSE AfterCharacter(f[i - 1], string[i])]
    BY <2>1, <1>5
  <2> QED
    BY <2>2 DEF IsReading, m, n, a
<1> DEFINE g == ReadingOf(string, first)
<1>7. ASSUME NEW j \in m .. n
      PROVE  g[j] = IF j = m THEN a ELSE AfterCharacter(g[j - 1], string[j])
  <2>1. IsReading(string, first, g)
    BY <1>6 DEF ReadingOf
  <2>2. g = [i \in m .. n |-> IF i = m THEN a ELSE AfterCharacter(g[i - 1], string[i])]
    BY <2>1 DEF IsReading, m, n, a
  <2> HIDE DEF g
  <2> QED
    BY <2>2
<1>8. ParsedFrom(string, first) = g[n].result
  BY Zenon DEF ParsedFrom, ReadingOf, IsReading, n
<1> HIDE DEF g
<1>9. g[m] = a
  BY <1>1, <1>7
<1>10. ASSUME NEW i \in first .. n PROVE g[i] = AfterCharacter(g[i - 1], string[i])
  <2>1. i \in m .. n /\ i # m
    BY <1>1 DEF m
  <2> QED
    BY <2>1, <1>7
<1> QED
  BY <1>8, <1>9, <1>10 DEF g, m, n, a

\* ParsedFrom returns a result.
LEMMA ParsedIs ==
  ASSUME NEW string, Len(string) \in Nat, NEW first \in Nat, first - 1 <= Len(string)
  PROVE  IsResult(ParsedFrom(string, first))
<1> DEFINE m == first - 1
           n == Len(string)
           g == ReadingOf(string, first)
           S == {k \in m .. n : g[k] \in Readings}
<1>1. m \in Int /\ n \in Int /\ m <= n
  OBVIOUS
<1>2. /\ ParsedFrom(string, first) = g[n].result
      /\ g[m] = [result |-> encodeSmall(0), radix |-> encodeSmall(10), canParseRadix |-> TRUE]
      /\ \A i \in first .. n : g[i] = AfterCharacter(g[i - 1], string[i])
  BY ReadingOfIs
<1>3. \A k \in m .. n - 1 : k + 1 \in first .. n /\ k + 1 \in m .. n /\ (k + 1) - 1 = k
  BY <1>1
<1>4. g[m] \in Readings
  <2>1. encodeSmall(0) \in Results /\ encodeSmall(10) \in Numbers
    BY OneIs, ResultsAre DEF IsResult
  <2> QED
    BY <1>2, <2>1 DEF Readings
<1> HIDE DEF m, n, g
<1>5. m \in S
  BY <1>1, <1>4
<1>6. ASSUME NEW k \in m .. n - 1, k \in S PROVE k + 1 \in S
  <2>1. g[k + 1] = AfterCharacter(g[k], string[k + 1])
    BY <1>2, <1>3
  <2> QED
    BY <2>1, <1>3, <1>6, AfterCharacterIs
<1>7. \A k \in m .. n : k \in S
  <2> HIDE DEF S
  <2> QED
    BY <1>1, <1>5, <1>6, Upwards
<1>8. g[n].result \in Results
  BY <1>1, <1>7 DEF Readings
<1> QED
  BY <1>2, <1>8, ResultsAre

\* parseString returns a result.
LEMMA ParseStringIs ==
  ASSUME NEW string \in Seq(STRING)
  PROVE  IsResult(parseString(string))
<1> DEFINE hasSign == string # <<>> /\ string[1] \in {"+", "-"}
           first == IF hasSign THEN 2 ELSE 1
           sign == IF hasSign THEN string[1] ELSE "+"
           result == ParsedFrom(string, first)
<1>1. Len(string) \in Nat /\ first \in Nat /\ first - 1 <= Len(string)
  OBVIOUS
<1>2. parseString(string) = Signed(result, sign)
  BY DEF parseString
<1> HIDE DEF first, sign
<1>3. IsResult(result)
  BY <1>1, ParsedIs
<1> HIDE DEF result
<1>4. CASE IsInteger(result)
  <2>1. IsNumber(result)
    BY <1>3, <1>4, ResultIs
  <2>2. IsResult(negated(result))
    BY <2>1, NegatedIs DEF Computes
  <2> QED
    BY <2>2, <1>2, <1>3 DEF Signed
<1>5. CASE ~IsInteger(result)
  BY <1>5, <1>2, <1>3 DEF Signed
<1> QED
  BY <1>4, <1>5

-----------------------------------------------------------------------------
(***************************************************************************)
(* Digits and their characters.                                            *)
(***************************************************************************)
\* Each digit has a character of its own, which is no sign and no mark.
LEMMA DigitCharacters ==
  /\ DOMAIN DigitCharacter = 1 .. 16
  /\ \A i, j \in 1 .. 16 : DigitCharacter[i] = DigitCharacter[j] => i = j
  /\ \A i \in 1 .. 16 : DigitCharacter[i] \notin {"+", "-", "_", "r"}
  /\ DigitCharacter \in Seq(CharactersOf(DigitCharacter)) /\ Len(DigitCharacter) = 16
<1>1. DOMAIN DigitCharacter = 1 .. 16
  BY DEF DigitCharacter
<1>2. \A i, j \in 1 .. 16 : DigitCharacter[i] = DigitCharacter[j] => i = j
  BY DEF DigitCharacter
<1>3. \A i \in 1 .. 16 : DigitCharacter[i] \notin {"+", "-", "_", "r"}
  <2> DEFINE C == {"0", "1", "2", "3", "4", "5", "6", "7", "8", "9", "A", "B", "C", "D", "E", "F"}
  <2>1. \A i \in 1 .. 16 : DigitCharacter[i] \in C
    BY DEF DigitCharacter
  <2>2. \A c \in C : c # "+" /\ c # "-" /\ c # "_" /\ c # "r"
    BY Zenon
  <2> HIDE DEF C
  <2>3. ASSUME NEW i \in 1 .. 16 PROVE DigitCharacter[i] \notin {"+", "-", "_", "r"}
    <3>1. DigitCharacter[i] \in C
      BY <2>1
    <3> QED
      BY <3>1, <2>2, Zenon
  <2> QED
    BY <2>3, Zenon
<1>4. DigitCharacter \in Seq(CharactersOf(DigitCharacter)) /\ Len(DigitCharacter) = 16
  <2> DEFINE C == CharactersOf(DigitCharacter)
  <2>1. DigitCharacter = [i \in 1 .. 16 |-> DigitCharacter[i]]
    BY DEF DigitCharacter
  <2>2. \A i \in 1 .. 16 : DigitCharacter[i] \in C
    BY <1>1 DEF CharactersOf
  <2>3. PICK n \in Nat : n = 16
    OBVIOUS
  <2> HIDE DEF C
  <2>4. DigitCharacter \in [1 .. n -> C]
    BY <2>1, <2>2, <2>3
  <2>5. DigitCharacter \in Seq(C) /\ Len(DigitCharacter) = n
    BY <2>4
  <2> QED
    BY <2>3, <2>5 DEF C
<1> QED
  BY <1>1, <1>2, <1>3, <1>4

\* The first ten are the decimal digits.
LEMMA DecimalDigitIs ==
  ASSUME NEW c
  PROVE  IsDecimalDigit(c) <=> \E k \in 0 .. 9 : c = DigitCharacter[k + 1]
<1> DEFINE s == SubSeq(DigitCharacter, 1, 10)
<1>1. s = [i \in 1 .. 10 |-> DigitCharacter[i]]
  <2> DEFINE C == CharactersOf(DigitCharacter)
  <2>1. DigitCharacter \in Seq(C) /\ Len(DigitCharacter) = 16
    BY DigitCharacters
  <2> HIDE DEF C
  <2> QED
    BY <2>1
<1> HIDE DEF s
<1>2. DOMAIN s = 1 .. 10 /\ \A i \in 1 .. 10 : s[i] = DigitCharacter[i]
  BY <1>1
<1>3. IsDecimalDigit(c) <=> \E i \in 1 .. 10 : c = DigitCharacter[i]
  BY <1>2 DEF IsDecimalDigit, CharactersOf, s
<1>4. ASSUME NEW i \in 1 .. 10, c = DigitCharacter[i]
      PROVE  \E k \in 0 .. 9 : c = DigitCharacter[k + 1]
  <2>1. i - 1 \in 0 .. 9 /\ (i - 1) + 1 = i
    OBVIOUS
  <2> QED
    BY <1>4, <2>1
<1>5. ASSUME NEW k \in 0 .. 9, c = DigitCharacter[k + 1]
      PROVE  \E i \in 1 .. 10 : c = DigitCharacter[i]
  <2>1. k + 1 \in 1 .. 10
    OBVIOUS
  <2> QED
    BY <1>5, <2>1
<1> QED
  BY <1>3, <1>4, <1>5

\* And the value of a digit is that of its character.
LEMMA CharacterOfDigit ==
  ASSUME NEW k \in 0 .. 15
  PROVE  /\ DigitValue(DigitCharacter[k + 1]) = k
         /\ DigitCharacter[k + 1] \in CharactersOf(DigitCharacter)
         /\ DigitCharacter[k + 1] \notin {"+", "-", "_", "r"}
<1>1. k + 1 \in 1 .. 16
  OBVIOUS
<1> DEFINE c == DigitCharacter[k + 1]
<1>2. c \in CharactersOf(DigitCharacter)
  BY <1>1, DigitCharacters DEF CharactersOf
<1>3. PositionOf(c, DigitCharacter) = k + 1
  <2>1. \A i \in DOMAIN DigitCharacter : DigitCharacter[i] = c => i = k + 1
    BY <1>1, DigitCharacters
  <2>2. k + 1 \in DOMAIN DigitCharacter /\ DigitCharacter[k + 1] = c
    BY <1>1, DigitCharacters
  <2> HIDE DEF c
  <2> QED
    BY <2>1, <2>2 DEF PositionOf
<1>4. c \notin {"+", "-", "_", "r"}
  BY <1>1, DigitCharacters
<1> HIDE DEF c
<1>5. DigitValue(c) = (k + 1) - 1
  BY <1>2, <1>3 DEF DigitValue
<1>6. (k + 1) - 1 = k
  OBVIOUS
<1>7. DigitValue(c) = k
  BY <1>5, <1>6
<1> QED
  BY <1>2, <1>4, <1>7 DEF c

-----------------------------------------------------------------------------
(***************************************************************************)
(* Reading digits.                                                         *)
(***************************************************************************)
\* t stands for the natural number a, as an immediate if that fits in one.
Stands(t, a) ==
  /\ IsNumber(t) /\ Value(t) = a
  /\ a <= MaxImmediate => t = Immediate(a)

\* Nothing that stands for a natural number is stored as a negative one.
LEMMA StandsIs ==
  ASSUME NEW t, NEW a \in Nat, Stands(t, a)
  PROVE  ~NegativeZero(t) /\ ~decodeLargeOrImmediate(t).isNegative
<1>1. ~NegativeZero(t)
  <2> SUFFICES ASSUME NegativeZero(t) PROVE FALSE
    OBVIOUS
  <2>1. t.kind = "largeNegative" /\ Magnitude(t.words) = 0
    BY DEF NegativeZero
  <2>2. Value(t) = 0
    <3>1. Value(t) = - Magnitude(t.words)
      BY <2>1 DEF Value
    <3>2. \A m \in Int : - m = 0 - m
      OBVIOUS
    <3>3. Magnitude(t.words) \in Int
      BY <2>1
    <3>4. Value(t) = 0 - Magnitude(t.words)
      BY <3>1, <3>2, <3>3, Zenon
    <3> QED
      BY <3>4, <2>1
  <2>3. t = Immediate(0)
    BY <2>2, WidthFacts DEF Stands
  <2> QED
    BY <2>1, <2>3 DEF Immediate
<1>2. decodeLargeOrImmediate(t).isNegative <=> a < 0
  BY <1>1, NegativeIs DEF Stands
<1> QED
  BY <1>1, <1>2

\* A small number is read as an immediate.
LEMMA SmallStands ==
  ASSUME NEW a \in 0 .. 36
  PROVE  encodeSmall(a) = Immediate(a) /\ Stands(Immediate(a), a)
<1>1. a \in MinImmediate .. MaxImmediate
  BY WidthFacts
<1> QED
  BY <1>1, EncodeSmallIs, ImmediateIs, ImmediateIsNumber DEF Stands

\* The number read so far times the radix.
LEMMA TimesStands ==
  ASSUME NEW t, NEW a \in Nat, Stands(t, a), NEW r \in 1 .. 36
  PROVE  Stands(multiply(t, Immediate(r)), a * r)
<1> DEFINE u == Immediate(r)
           p == a * r
<1>1. Value(t) = a /\ IsNumber(t) /\ Value(u) = r /\ IsNumber(u) /\ isImmediate(u) /\ u.value = r
  <2>1. r \in 0 .. 36
    OBVIOUS
  <2> QED
    BY <2>1, SmallStands, ImmediateIs DEF Stands
<1>2. p \in Nat /\ a <= p
  <2>1. \A x, y \in Nat : y >= 1 => x * y \in Nat /\ x <= x * y
    OBVIOUS
  <2> QED
    BY <2>1
<1>3. ~Faulty("*", t, u)
  <2>1. CASE isImmediate(t)
    <3>1. t.value = a
      BY <2>1, <1>1, AsImmediate
    <3>2. t.value * u.value = p
      BY <3>1, <1>1
    <3> HIDE DEF p
    <3> QED
      BY <3>2, <2>1, <1>1, <1>2, FaultyImmediates, WidthFacts
  <2>2. CASE ~isImmediate(t)
    BY <2>2 DEF Faulty
  <2> QED
    BY <2>1, <2>2
<1>4. IsNumber(multiply(t, u)) /\ Value(multiply(t, u)) = p
  BY <1>1, <1>3, MultiplyIs DEF Computes
<1>5. ASSUME p <= MaxImmediate PROVE multiply(t, u) = Immediate(p)
  <2>1. t = Immediate(a) /\ isImmediate(t) /\ t.value = a
    BY <1>2, <1>5, WidthFacts, ImmediateIs DEF Stands
  <2> DEFINE product == Wrapped(t.value * u.value, NativeBits)
  <2>2. product = p
    <3>1. t.value * u.value = p
      BY <2>1, <1>1
    <3> HIDE DEF p
    <3>2. - HalfNative <= p /\ p < HalfNative /\ HalfNative \in Nat /\ HalfNative >= 1
      BY <1>2, <1>5, WidthFacts
    <3>3. Wrapped(p, NativeBits) = p
      BY <3>2, <1>2, WrappedIs, WrappedWidths
    <3> QED
      BY <3>1, <3>3
  <2>3. a = Quotient(p, r)
    <3> DEFINE q == p \div r
    <3>1. Quotient(p, r) = q
      <4> HIDE DEF p
      <4> QED
        BY <1>2 DEF Quotient
    <3>2. p % r \in Int /\ 0 <= p % r /\ p % r < r /\ q \in Int /\ p = (p % r) + r * q
      <4> HIDE DEF p
      <4> QED
        BY <1>2, DividedBy
    <3> HIDE DEF q
    <3>3. r * (a - q) = p % r
      BY <3>2
    <3>4. \A x \in Int : 0 <= r * x /\ r * x < r => x = 0
      OBVIOUS
    <3>5. a - q = 0
      BY <3>2, <3>3, <3>4
    <3> QED
      BY <3>1, <3>2, <3>5
  <2>4. multiply(t, u) = encodeInt64(p)
    <3> HIDE DEF p, u
    <3> QED
      BY <2>1, <2>2, <2>3, <1>1 DEF multiply
  <2> HIDE DEF p
  <2> QED
    BY <2>4, <1>2, <1>5, EncodeIs, WidthFacts
<1> QED
  BY <1>4, <1>5 DEF Stands

\* And a digit is added to it.
LEMMA PlusStands ==
  ASSUME NEW t, NEW a \in Nat, Stands(t, a), NEW d \in 0 .. 36
  PROVE  /\ Stands(add(t, Immediate(d)), a + d)
         /\ a <= MaxImmediate => add(t, Immediate(d)) = encodeInt64(a + d)
<1> DEFINE u == Immediate(d)
<1>1. Value(t) = a /\ IsNumber(t) /\ Value(u) = d /\ IsNumber(u) /\ isImmediate(u) /\ u.value = d
  BY SmallStands, ImmediateIs DEF Stands
<1>2. Stands(u, d)
  BY SmallStands
<1> HIDE DEF u
<1>3. ~Faulty("+", t, u)
  <2>1. CASE isImmediate(t)
    <3>1. t.value = a
      BY <2>1, <1>1, AsImmediate
    <3> QED
      BY <3>1, <2>1, <1>1, FaultyImmediates, WidthFacts
  <2>2. CASE ~isImmediate(t)
    <3>1. ~decodeLargeOrImmediate(t).isNegative /\ ~decodeLargeOrImmediate(u).isNegative
      BY <1>2, StandsIs
    <3>2. /\ decodeLargeOrImmediate(t).isNegative \in BOOLEAN
          /\ decodeLargeOrImmediate(u).isNegative \in BOOLEAN
      BY <1>1, DecodedIs
    <3> QED
      BY <3>1, <3>2, <2>2, FaultyLarges
  <2> QED
    BY <2>1, <2>2
<1>4. IsNumber(add(t, u)) /\ Value(add(t, u)) = a + d
  BY <1>1, <1>3, AddIs DEF Computes
<1>5. ASSUME a <= MaxImmediate PROVE add(t, u) = encodeInt64(a + d)
  <2>1. isImmediate(t) /\ t.value = a
    BY <1>5, ImmediateIs DEF Stands
  <2> QED
    BY <2>1, <1>1 DEF add
<1>6. ASSUME a + d <= MaxImmediate PROVE add(t, u) = Immediate(a + d)
  <2>1. a + d \in MinImmediate .. MaxImmediate /\ a <= MaxImmediate
    BY <1>6, WidthFacts
  <2> QED
    BY <2>1, <1>5, EncodeIs
<1> QED
  BY <1>4, <1>5, <1>6 DEF Stands, u

\* The state of the loop after so many characters.
Reading(t, radix, canParseRadix) ==
  [result |-> t, radix |-> Immediate(radix), canParseRadix |-> canParseRadix]

\* A turn of the loop over a digit of the radix.
LEMMA AfterDigit ==
  ASSUME NEW t, NEW a \in Nat, Stands(t, a), NEW radix \in 1 .. 16, NEW b \in BOOLEAN,
         b => radix = 10, NEW d \in 0 .. radix - 1
  PROVE  AfterCharacter(Reading(t, radix, b), DigitCharacter[d + 1])
           = Reading(add(multiply(t, Immediate(radix)), Immediate(d)), radix, b)
<1> DEFINE c == DigitCharacter[d + 1]
           read == Reading(t, radix, b)
           isDigit == \/ IsDecimalDigit(c)
                      \/ /\ ~read.canParseRadix
                         /\ c \in CharactersOf(DigitCharacter) \cup CharactersOf(LowerCharacter)
           sum == add(multiply(read.result, read.radix), encodeSmall(DigitValue(c)))
<1>1. d \in 0 .. 15
  OBVIOUS
<1>2. DigitValue(c) = d /\ c \in CharactersOf(DigitCharacter)
  BY <1>1, CharacterOfDigit
<1>3. isDigit
  <2>1. CASE b
    <3>1. d \in 0 .. 9
      BY <2>1
    <3> QED
      BY <3>1, DecimalDigitIs
  <2>2. CASE ~b
    BY <2>2, <1>2 DEF Reading
  <2> QED
    BY <2>1, <2>2
<1>4. IsInteger(read.result)
  BY DecodeIs DEF Reading, Stands
<1>5. encodeSmall(DigitValue(c)) = Immediate(d)
  <2>1. d \in 0 .. 36
    OBVIOUS
  <2> QED
    BY <2>1, <1>2, SmallStands
<1>6. ~greaterEquals(encodeSmall(DigitValue(c)), read.radix)
  <2>1. read.radix = Immediate(radix)
    BY DEF Reading
  <2>2. compare(Immediate(d), Immediate(radix)) = -1
    <3>1. d < radix
      OBVIOUS
    <3> QED
      BY <3>1, ImmediateIs DEF compare
  <2> HIDE DEF c, read
  <2>3. compare(encodeSmall(DigitValue(c)), read.radix) = -1
    BY <2>1, <2>2, <1>5
  <2> QED
    BY <2>3 DEF greaterEquals
<1>7. AfterCharacter(read, c) = [read EXCEPT !.result = sum]
  <2> DEFINE tooLarge == greaterEquals(encodeSmall(DigitValue(c)), read.radix)
  <2>1. IsInteger(read.result) /\ isDigit /\ c # "_" /\ c # "r"
          => AfterCharacter(read, c) = IF tooLarge THEN [read EXCEPT !.result = Raised]
                                       ELSE [read EXCEPT !.result = sum]
    BY DEF AfterCharacter
  <2>2. c # "_" /\ c # "r"
    BY <1>1, CharacterOfDigit
  <2> QED
    BY <2>1, <2>2, <1>3, <1>4, <1>6, Zenon
<1> HIDE DEF c, isDigit
<1>8. sum = add(multiply(t, Immediate(radix)), Immediate(d))
  BY <1>5 DEF Reading
<1> HIDE DEF sum
<1>9. [read EXCEPT !.result = sum] = Reading(sum, radix, b)
  BY DEF Reading
<1> QED
  BY <1>7, <1>8, <1>9 DEF c

\* W[j] is what the first j digits of the string stand for.
Spelling(string, radix, W) ==
  /\ W \in [0 .. Len(string) -> Nat] /\ W[0] = 0
  /\ \A j \in 1 .. Len(string) : \E d \in 0 .. radix - 1 :
       string[j] = DigitCharacter[d + 1] /\ W[j] = W[j - 1] * radix + d

\* After p characters nothing has been read that counts, and the next are digits that
\* spell a number.
DigitsAt(string, first, p, digits, radix, b, W) ==
  /\ Len(string) \in Nat /\ first \in Nat /\ first - 1 <= Len(string)
  /\ p \in first - 1 .. Len(string)
  /\ Len(digits) \in Nat \ {0} /\ p + Len(digits) <= Len(string)
  /\ \A j \in 1 .. Len(digits) : string[p + j] = digits[j]
  /\ radix \in 1 .. 16 /\ b \in BOOLEAN /\ (b => radix = 10)
  /\ Spelling(digits, radix, W)
  /\ ReadingOf(string, first)[p] = Reading(Immediate(0), radix, b)

\* After the digits their number has been read, encoded if the last step did not need
\* a large integer.
DigitsMade(string, first, p, digits, radix, b, W) ==
  \E t : /\ ReadingOf(string, first)[p + Len(digits)] = Reading(t, radix, b)
         /\ Stands(t, W[Len(digits)])
         /\ W[Len(digits) - 1] * radix <= MaxImmediate => t = encodeInt64(W[Len(digits)])

\* They are read as that number.
LEMMA DigitsRead ==
  ASSUME NEW string, NEW first, NEW p, NEW digits, NEW radix, NEW b, NEW W,
         DigitsAt(string, first, p, digits, radix, b, W)
  PROVE  DigitsMade(string, first, p, digits, radix, b, W)
<1> DEFINE g == ReadingOf(string, first)
           n == Len(digits)
           Read(j, t) == g[p + j] = Reading(t, radix, b) /\ Stands(t, W[j])
           S == {j \in 0 .. n : \E t : Read(j, t)}
<1>1. \A i \in first .. Len(string) : g[i] = AfterCharacter(g[i - 1], string[i])
  BY ReadingOfIs DEF DigitsAt
<1>2. /\ n \in Nat /\ n >= 1 /\ p \in Int /\ p + n <= Len(string) /\ p >= first - 1
      /\ Len(string) \in Nat /\ first \in Nat
  BY DEF DigitsAt
<1>3. \A j \in 0 .. n : W[j] \in Nat
  BY DEF DigitsAt, Spelling
<1>4. \A j \in 1 .. n : string[p + j] = digits[j]
  BY DEF DigitsAt
<1>5. radix \in 1 .. 16 /\ b \in BOOLEAN /\ (b => radix = 10)
  BY DEF DigitsAt
<1>6. /\ W[0] = 0
      /\ \A j \in 1 .. n : \E d \in 0 .. radix - 1 :
           digits[j] = DigitCharacter[d + 1] /\ W[j] = W[j - 1] * radix + d
  BY DEF DigitsAt, Spelling
<1>7. g[p] = Reading(Immediate(0), radix, b)
  BY DEF DigitsAt
<1> HIDE DEF g
<1>8. ASSUME NEW k \in 0 .. n - 1, NEW t, Read(k, t)
      PROVE  \E u : /\ Read(k + 1, u)
                    /\ W[k] * radix <= MaxImmediate => u = encodeInt64(W[k + 1])
  <2>1. k + 1 \in 1 .. n /\ (k + 1) - 1 = k /\ k \in 0 .. n
    BY <1>2
  <2>2. PICK d \in 0 .. radix - 1 :
          digits[k + 1] = DigitCharacter[d + 1] /\ W[k + 1] = W[k] * radix + d
    BY <2>1, <1>6
  <2> DEFINE product == multiply(t, Immediate(radix))
             u == add(product, Immediate(d))
  <2>3. W[k] \in Nat /\ radix \in 1 .. 36 /\ d \in 0 .. 36
    <3>1. W[k] \in Nat
      BY <2>1, <1>3
    <3> QED
      BY <3>1, <1>5
  <2>4. Stands(product, W[k] * radix)
    BY <2>3, <1>8, TimesStands
  <2>5. W[k] * radix \in Nat
    BY <2>3
  <2> HIDE DEF product
  <2>6. /\ Stands(u, W[k + 1])
        /\ W[k] * radix <= MaxImmediate => u = encodeInt64(W[k + 1])
    <3>1. W[k + 1] = W[k] * radix + d
      BY <2>2
    <3> QED
      BY <3>1, <2>3, <2>4, <2>5, PlusStands
  <2>7. g[p + (k + 1)] = AfterCharacter(g[p + k], string[p + (k + 1)])
    <3>1. p + (k + 1) \in first .. Len(string) /\ (p + (k + 1)) - 1 = p + k
      BY <2>1, <1>2
    <3> QED
      BY <3>1, <1>1
  <2>8. string[p + (k + 1)] = DigitCharacter[d + 1]
    BY <2>1, <2>2, <1>4
  <2>9. AfterCharacter(Reading(t, radix, b), DigitCharacter[d + 1]) = Reading(u, radix, b)
    BY <2>3, <1>8, <1>5, AfterDigit DEF product
  <2> HIDE DEF u
  <2>10. Read(k + 1, u)
    BY <2>6, <2>7, <2>8, <2>9, <1>8
  <2> QED
    BY <2>6, <2>10
<1>9. 0 \in S
  <2>1. Read(0, Immediate(0))
    <3>1. W[0] = 0 /\ p + 0 = p /\ 0 \in 0 .. 36
      BY <1>2, <1>6
    <3>2. Stands(Immediate(0), 0)
      BY <3>1, SmallStands
    <3> QED
      BY <3>1, <3>2, <1>7
  <2> QED
    BY <2>1, <1>2
<1>10. ASSUME NEW k \in 0 .. n - 1, k \in S PROVE k + 1 \in S
  <2>1. PICK t : Read(k, t)
    BY <1>10
  <2>2. PICK u : Read(k + 1, u)
    BY <2>1, <1>8
  <2> QED
    BY <2>2, <1>2
<1>11. n - 1 \in S
  <2> HIDE DEF S, n
  <2>1. \A k \in 0 .. n - 1 : k \in S => k + 1 \in S
    BY <1>10
  <2>2. 0 \in Int /\ n \in Int
    BY <1>2
  <2>3. \A k \in 0 .. n : k \in S
    BY <2>1, <2>2, <1>9, Upwards, Zenon
  <2> QED
    BY <2>3, <1>2
<1>12. PICK t : Read(n - 1, t)
  BY <1>11
<1>13. n - 1 \in 0 .. n - 1 /\ (n - 1) + 1 = n
  BY <1>2
<1>14. PICK u : /\ Read((n - 1) + 1, u)
                /\ W[n - 1] * radix <= MaxImmediate => u = encodeInt64(W[(n - 1) + 1])
  BY <1>12, <1>13, <1>8
<1> QED
  BY <1>13, <1>14 DEF g, DigitsMade

\* Characters of digits, one after another.
Texts == Seq(CharactersOf(DigitCharacter))

\* A text that is one digit longer spells the number with that digit at its end.
LEMMA OneDigitMore ==
  ASSUME NEW s \in Texts, NEW radix \in 1 .. 16, NEW W, Spelling(s, radix, W),
         NEW d \in 0 .. radix - 1
  PROVE  LET u == s \o <<DigitCharacter[d + 1]>>
         IN /\ u \in Texts /\ Len(u) = Len(s) + 1
            /\ \E X : Spelling(u, radix, X) /\ X[Len(u)] = W[Len(s)] * radix + d
<1> DEFINE c == DigitCharacter[d + 1]
           n == Len(s)
           u == s \o <<c>>
           last == W[n] * radix + d
           X == [j \in 0 .. n + 1 |-> IF j = n + 1 THEN last ELSE W[j]]
<1>1. c \in CharactersOf(DigitCharacter)
  <2>1. d \in 0 .. 15
    OBVIOUS
  <2> QED
    BY <2>1, CharacterOfDigit
<1>2. n \in Nat
  BY DEF Texts
<1>3. u \in Texts /\ Len(u) = n + 1 /\ u[n + 1] = c /\ \A j \in 1 .. n : u[j] = s[j]
  <2> HIDE DEF c
  <2> QED
    BY <1>1 DEF Texts
<1>4. \A j \in 0 .. n : W[j] \in Nat
  BY DEF Spelling
<1>5. last \in Nat
  <2>1. W[n] \in Nat /\ radix \in Nat /\ d \in Nat
    BY <1>2, <1>4
  <2>2. W[n] * radix \in Nat
    BY <2>1
  <2> QED
    BY <2>1, <2>2
<1> HIDE DEF last
<1>6. /\ X \in [0 .. n + 1 -> Nat]
      /\ X[n + 1] = last /\ \A j \in 0 .. n : X[j] = W[j]
  BY <1>2, <1>4, <1>5
<1> HIDE DEF X, u
<1>7. ASSUME NEW j \in 1 .. n + 1
      PROVE  \E e \in 0 .. radix - 1 : u[j] = DigitCharacter[e + 1] /\ X[j] = X[j - 1] * radix + e
  <2>1. CASE j = n + 1
    <3>1. j - 1 = n /\ n \in 0 .. n
      BY <2>1, <1>2
    <3>2. u[j] = c /\ X[j] = last /\ X[j - 1] = W[n]
      BY <3>1, <2>1, <1>3, <1>6
    <3> QED
      BY <3>2 DEF last
  <2>2. CASE j # n + 1
    <3>1. j \in 1 .. n /\ j \in 0 .. n /\ j - 1 \in 0 .. n
      BY <2>2, <1>2
    <3>2. u[j] = s[j] /\ X[j] = W[j] /\ X[j - 1] = W[j - 1]
      BY <3>1, <1>3, <1>6
    <3> QED
      BY <3>1, <3>2 DEF Spelling
  <2> QED
    BY <2>1, <2>2
<1>8. X[0] = 0
  BY <1>2, <1>6 DEF Spelling
<1>9. Spelling(u, radix, X)
  BY <1>3, <1>6, <1>7, <1>8 DEF Spelling
<1> QED
  BY <1>3, <1>6, <1>9 DEF last, u

-----------------------------------------------------------------------------
(***************************************************************************)
(* What DecimalDigits prints.                                              *)
(***************************************************************************)
\* The digits of a number are those of its tenth and one more.
NextDecimal(f, n) ==
  (IF n < 10 THEN <<>> ELSE f[n \div 10]) \o <<DigitCharacter[(n % 10) + 1]>>
IsDecimals(v, f) == f = [n \in 0 .. v |-> NextDecimal(f, n)]
Decimals(v) == CHOOSE f : IsDecimals(v, f)

\* DecimalDigits, in terms of these.
LEMMA DecimalsIn ==
  ASSUME NEW v
  PROVE  DecimalDigits(v) = Decimals(v)[v]
BY Zenon DEF DecimalDigits, Decimals, IsDecimals, NextDecimal

\* The tenth of a number is below it, and has its digits before.
LEMMA TenthIs ==
  ASSUME NEW n \in Nat
  PROVE  /\ n \div 10 \in Nat /\ n % 10 \in 0 .. 9 /\ n = (n \div 10) * 10 + (n % 10)
         /\ n >= 10 => n \div 10 < n
         /\ n < 10 => n \div 10 = 0 /\ n % 10 = n
OBVIOUS

\* It is a text when the digits of the tenth are one.
LEMMA NextDecimalIs ==
  ASSUME NEW n \in Nat, NEW f, n >= 10 => f[n \div 10] \in Texts
  PROVE  NextDecimal(f, n) \in Texts
<1> DEFINE head == IF n < 10 THEN <<>> ELSE f[n \div 10]
           c == DigitCharacter[(n % 10) + 1]
<1>1. head \in Texts
  BY DEF Texts
<1>2. c \in CharactersOf(DigitCharacter)
  <2>1. n % 10 \in 0 .. 15
    OBVIOUS
  <2> QED
    BY <2>1, CharacterOfDigit
<1> HIDE DEF head, c
<1>3. head \o <<c>> \in Texts
  BY <1>1, <1>2 DEF Texts
<1> QED
  BY <1>3 DEF NextDecimal, head, c

\* There are such digits for the numbers up to v.
LEMMA DecimalsExist ==
  ASSUME NEW v \in Nat
  PROVE  \E f \in [0 .. v -> Texts] : IsDecimals(v, f)
<1> DEFINE Good(k) == \E f \in [0 .. k -> Texts] : \A n \in 0 .. k : f[n] = NextDecimal(f, n)
           S == {k \in 0 .. v : Good(k)}
<1>1. 0 \in S
  <2> DEFINE f == [n \in 0 .. 0 |-> NextDecimal(<<>>, 0)]
  <2>1. NextDecimal(<<>>, 0) \in Texts
    BY NextDecimalIs
  <2>2. f \in [0 .. 0 -> Texts] /\ f[0] = NextDecimal(<<>>, 0)
    BY <2>1
  <2> HIDE DEF f
  <2>3. NextDecimal(f, 0) = NextDecimal(<<>>, 0)
    BY DEF NextDecimal
  <2>4. \A n \in 0 .. 0 : f[n] = NextDecimal(f, n)
    BY <2>2, <2>3
  <2> QED
    BY <2>2, <2>4
<1>2. ASSUME NEW k \in 0 .. v - 1, k \in S PROVE k + 1 \in S
  <2>1. PICK f \in [0 .. k -> Texts] : \A n \in 0 .. k : f[n] = NextDecimal(f, n)
    BY <1>2
  <2> DEFINE last == NextDecimal(f, k + 1)
             g == [n \in 0 .. k + 1 |-> IF n = k + 1 THEN last ELSE f[n]]
  <2>2. last \in Texts
    <3>1. k + 1 >= 10 => (k + 1) \div 10 \in 0 .. k
      OBVIOUS
    <3> QED
      BY <3>1, NextDecimalIs
  <2> HIDE DEF last
  <2>3. /\ g \in [0 .. k + 1 -> Texts] /\ g[k + 1] = last
        /\ \A n \in 0 .. k : g[n] = f[n]
    BY <2>2
  <2> HIDE DEF g
  <2>4. ASSUME NEW n \in 0 .. k + 1 PROVE g[n] = NextDecimal(g, n)
    <3>1. NextDecimal(g, n) = NextDecimal(f, n)
      <4>1. CASE n < 10
        BY <4>1 DEF NextDecimal
      <4>2. CASE n >= 10
        <5>1. n \div 10 \in 0 .. k
          BY <4>2
        <5>2. g[n \div 10] = f[n \div 10]
          BY <5>1, <2>3
        <5> QED
          BY <5>2 DEF NextDecimal
      <4> QED
        BY <4>1, <4>2
    <3>2. CASE n = k + 1
      BY <3>1, <3>2, <2>3 DEF last
    <3>3. CASE n # k + 1
      <4>1. n \in 0 .. k
        BY <3>3
      <4> QED
        BY <4>1, <3>1, <2>1, <2>3
    <3> QED
      BY <3>2, <3>3
  <2>5. k + 1 \in 0 .. v
    OBVIOUS
  <2> QED
    BY <2>3, <2>4, <2>5
<1>3. v \in S
  <2> HIDE DEF S
  <2>1. \A k \in 0 .. v : k \in S
    BY <1>1, <1>2, Upwards
  <2> QED
    BY <2>1
<1>4. PICK f \in [0 .. v -> Texts] : \A n \in 0 .. v : f[n] = NextDecimal(f, n)
  BY <1>3
<1>5. f = [n \in 0 .. v |-> NextDecimal(f, n)]
  BY <1>4
<1> QED
  BY <1>5 DEF IsDecimals

\* DecimalDigits prints digits that spell the number.
LEMMA DecimalDigitsSpell ==
  ASSUME NEW v \in Nat
  PROVE  /\ DecimalDigits(v) \in Texts /\ Len(DecimalDigits(v)) >= 1
         /\ \E W : Spelling(DecimalDigits(v), 10, W) /\ W[Len(DecimalDigits(v))] = v
<1> DEFINE D == Decimals(v)
           Spells(s, n) == /\ s \in Texts /\ Len(s) >= 1
                           /\ \E W : Spelling(s, 10, W) /\ W[Len(s)] = n
           S == {n \in 0 .. v : Spells(D[n], n)}
<1>1. ASSUME NEW n \in 0 .. v PROVE D[n] = NextDecimal(D, n)
  <2>1. \E f : IsDecimals(v, f)
    BY DecimalsExist
  <2>2. IsDecimals(v, D)
    BY <2>1 DEF Decimals
  <2> HIDE DEF D
  <2> QED
    BY <2>2 DEF IsDecimals
<1> HIDE DEF D
<1>2. ASSUME NEW k \in 0 .. v, \A j \in 0 .. k - 1 : j \in S PROVE k \in S
  <2> DEFINE head == IF k < 10 THEN <<>> ELSE D[k \div 10]
             q == k \div 10
             d == k % 10
  <2>1. d \in 0 .. 9 /\ k = q * 10 + d /\ q \in Nat
        /\ (k >= 10 => q \in 0 .. k - 1) /\ (k < 10 => q = 0)
    BY TenthIs
  <2>2. head \in Texts /\ \E W : Spelling(head, 10, W) /\ W[Len(head)] = q
    <3>1. CASE k < 10
      <4> DEFINE W == [j \in 0 .. 0 |-> 0]
      <4>1. head = <<>> /\ Len(<<>>) = 0 /\ <<>> \in Texts
        BY <3>1 DEF Texts
      <4>2. Spelling(<<>>, 10, W) /\ W[0] = 0
        BY DEF Spelling
      <4> HIDE DEF W, head
      <4> QED
        BY <4>1, <4>2, <3>1, <2>1
    <3>2. CASE k >= 10
      <4>1. head = D[q] /\ q \in S
        BY <3>2, <2>1, <1>2
      <4> QED
        BY <4>1
    <3> QED
      BY <3>1, <3>2
  <2>3. D[k] = head \o <<DigitCharacter[d + 1]>>
    BY <1>1 DEF NextDecimal
  <2> HIDE DEF head, q, d
  <2>4. PICK W : Spelling(head, 10, W) /\ W[Len(head)] = q
    BY <2>2
  <2>5. /\ D[k] \in Texts /\ Len(D[k]) = Len(head) + 1
        /\ \E X : Spelling(D[k], 10, X) /\ X[Len(D[k])] = W[Len(head)] * 10 + d
    <3> DEFINE u == head \o <<DigitCharacter[d + 1]>>
    <3>1. 10 \in 1 .. 16 /\ d \in 0 .. 10 - 1
      BY <2>1
    <3>2. /\ u \in Texts /\ Len(u) = Len(head) + 1
          /\ \E X : Spelling(u, 10, X) /\ X[Len(u)] = W[Len(head)] * 10 + d
      BY <3>1, <2>2, <2>4, OneDigitMore, Zenon
    <3>3. D[k] = u
      BY <2>3
    <3> HIDE DEF u
    <3> QED
      BY <3>2, <3>3
  <2>6. Len(head) \in Nat
    BY <2>2 DEF Texts
  <2> QED
    BY <2>1, <2>4, <2>5, <2>6
<1>3. \A k \in 0 .. v : k \in S
  <2> HIDE DEF S
  <2> QED
    BY <1>2, InductionBelow
<1>4. Spells(D[v], v)
  BY <1>3
<1> QED
  BY <1>4, DecimalsIn DEF D

-----------------------------------------------------------------------------
(***************************************************************************)
(* What toHexString prints: the digits of a magnitude, from the last one   *)
(* that is not zero down.                                                  *)
(***************************************************************************)
Radix == 2 ^ NibbleBits
PerWord == WordBits \div NibbleBits
Power(r) == 2 ^ (NibbleBits * r)

\* The digits of a word make up the word.
LEMMA NibbleFacts ==
  /\ Radix \in 2 .. 16
  /\ PerWord \in Nat /\ PerWord >= 1 /\ NibbleBits \in Nat /\ NibbleBits * PerWord = WordBits
<1>1. WordBits \in Nat /\ WordBits >= 1 /\ NibbleBits \in 1 .. 4 /\ WordBits % NibbleBits = 0
  BY Widths
<1>2. NibbleBits * PerWord = WordBits /\ PerWord \in Int
  BY <1>1, DividedBy DEF PerWord
<1>3. PerWord >= 1
  <2>1. \A x \in Int : x <= 0 => NibbleBits * x <= 0
    BY <1>1
  <2> HIDE DEF PerWord
  <2> QED
    BY <2>1, <1>1, <1>2
<1>4. 2 ^ 1 = 2 /\ 2 ^ 2 = 4 /\ 2 ^ 3 = 8 /\ 2 ^ 4 = 16
  <2>1. 2 ^ (0 + 1) = (2 ^ 0) + (2 ^ 0)
    BY PowerDoubles
  <2>2. 2 ^ (1 + 1) = (2 ^ 1) + (2 ^ 1)
    BY PowerDoubles
  <2>3. 2 ^ (2 + 1) = (2 ^ 2) + (2 ^ 2)
    BY PowerDoubles
  <2>4. 2 ^ (3 + 1) = (2 ^ 3) + (2 ^ 3)
    BY PowerDoubles
  <2>5. 0 + 1 = 1 /\ 1 + 1 = 2 /\ 2 + 1 = 3 /\ 3 + 1 = 4
    OBVIOUS
  <2>6. 2 ^ 1 = 1 + 1
    BY <2>1, <2>5, PowerOfNone, Zenon
  <2>7. 2 ^ 2 = 2 + 2
    BY <2>2, <2>5, <2>6, Zenon
  <2>8. 2 ^ 3 = 4 + 4
    <3>1. 2 + 2 = 4
      OBVIOUS
    <3> QED
      BY <2>3, <2>5, <2>7, <3>1, Zenon
  <2>9. 2 ^ 4 = 8 + 8
    <3>1. 4 + 4 = 8
      OBVIOUS
    <3> QED
      BY <2>4, <2>5, <2>8, <3>1, Zenon
  <2> QED
    BY <2>6, <2>7, <2>8, <2>9
<1>5. Radix \in 2 .. 16
  <2>1. NibbleBits = 1 \/ NibbleBits = 2 \/ NibbleBits = 3 \/ NibbleBits = 4
    BY <1>1
  <2>2. Radix = 2 \/ Radix = 4 \/ Radix = 8 \/ Radix = 16
    BY <2>1, <1>4, Zenon DEF Radix
  <2> QED
    BY <2>2
<1> QED
  BY <1>1, <1>2, <1>3, <1>5

\* The weight of a digit in its word.
LEMMA PowerFacts ==
  /\ Power(0) = 1 /\ Power(1) = Radix /\ Power(PerWord) = WordBase
  /\ \A r \in Nat : /\ Power(r) \in Nat /\ Power(r) >= 1
                    /\ Power(r + 1) = Power(r) * Radix
<1>1. NibbleBits \in Nat /\ NibbleBits * 0 = 0 /\ NibbleBits * 1 = NibbleBits
  BY NibbleFacts
<1>2. Power(0) = 1
  BY <1>1, PowerOfNone DEF Power
<1>3. Power(1) = Radix
  BY <1>1 DEF Power, Radix
<1>4. Power(PerWord) = WordBase
  BY NibbleFacts DEF Power, WordBase
<1>5. ASSUME NEW r \in Nat
      PROVE  Power(r) \in Nat /\ Power(r) >= 1 /\ Power(r + 1) = Power(r) * Radix
  <2> DEFINE m == NibbleBits * r
  <2>1. m \in Nat /\ NibbleBits * (r + 1) = m + NibbleBits
    BY <1>1
  <2> HIDE DEF m
  <2>2. 2 ^ m \in Nat /\ 2 ^ m >= 1
    BY <2>1, PowerIsPositive
  <2>3. 2 ^ (m + NibbleBits) = (2 ^ m) * (2 ^ NibbleBits)
    BY <2>1, <1>1, PowerOfSum
  <2>4. Power(r) = 2 ^ m /\ Power(r + 1) = 2 ^ (m + NibbleBits)
    BY <2>1 DEF Power, m
  <2> QED
    BY <2>2, <2>3, <2>4 DEF Radix
<1> QED
  BY <1>2, <1>3, <1>4, <1>5

\* A quotient and a remainder below the divisor are those of what they make up.
LEMMA QuotientOf ==
  ASSUME NEW q \in Int, NEW c \in Nat, c > 0, NEW b \in 0 .. c - 1
  PROVE  (c * q + b) \div c = q /\ (c * q + b) % c = b
<1> DEFINE a == c * q + b
<1>1. a \in Int
  OBVIOUS
<1> HIDE DEF a
<1>2. a % c \in Int /\ 0 <= a % c /\ a % c < c /\ a \div c \in Int /\ a = (a % c) + c * (a \div c)
  BY <1>1, DividedBy
<1> DEFINE p == a \div c
           s == a % c
<1>3. p \in Int /\ s \in 0 .. c - 1 /\ a = s + c * p
  BY <1>2
<1> HIDE DEF p, s
<1>4. c * (q - p) = s - b /\ c * (p - q) = b - s
  BY <1>3 DEF a
<1>5. q - p = 0
  <2>1. \A x \in Int : x >= 1 => c * x >= c
    OBVIOUS
  <2>2. q - p \in Int /\ s - b < c /\ p - q \in Int /\ b - s < c
    BY <1>3
  <2>3. ~(q - p >= 1) /\ ~(p - q >= 1)
    BY <2>1, <2>2, <1>3, <1>4
  <2> QED
    BY <2>3, <1>3
<1> QED
  BY <1>3, <1>4, <1>5 DEF p, s, a

\* To divide twice is to divide by the product.
LEMMA DividedTwice ==
  ASSUME NEW x \in Nat, NEW m \in Nat, m >= 1, NEW b \in Nat, b >= 1
  PROVE  (x \div m) \div b = x \div (m * b)
<1> DEFINE y == x \div m
           s == x % m
           z == y \div b
           u == y % b
           c == m * b
           v == m * u + s
<1>1. y \in Int /\ s \in Int /\ 0 <= s /\ s < m /\ x = s + m * y
  BY DividedBy
<1> HIDE DEF y, s
<1>2. z \in Int /\ u \in Int /\ 0 <= u /\ u < b /\ y = u + b * z
  BY <1>1, DividedBy
<1> HIDE DEF z, u
<1>3. c \in Nat /\ c > 0
  <2>1. \A p, q \in Nat : p >= 1 /\ q >= 1 => p * q \in Nat /\ p * q >= 1
    OBVIOUS
  <2> QED
    BY <2>1
<1>4. v \in 0 .. c - 1
  <2>1. m * u \in Int /\ m * u >= 0
    BY <1>2
  <2>2. u + 1 <= b
    BY <1>2
  <2>3. m * (u + 1) <= m * b
    BY <2>2, <1>2
  <2>4. m * (u + 1) = m * u + m
    BY <1>2
  <2>5. v < c
    BY <2>1, <2>3, <2>4, <1>1, <1>3
  <2> QED
    BY <2>1, <2>5, <1>1, <1>3
<1>5. x = c * z + v
  <2>1. m * y = m * u + m * (b * z)
    BY <1>2
  <2>2. m * (b * z) = c * z
    BY <1>2
  <2> QED
    BY <2>1, <2>2, <1>1, <1>2
<1> HIDE DEF c, v
<1>6. x \div c = z
  BY <1>2, <1>3, <1>4, <1>5, QuotientOf
<1> QED
  BY <1>6 DEF y, z, c

\* The digits of toHexString, and how many it prints.
Nibble(w, i) == (w[(i \div PerWord) + 1] \div (2 ^ (NibbleBits * (i % PerWord)))) % (2 ^ NibbleBits)
NibbleCount(w) ==
  Max({1} \cup {i + 1 : i \in {j \in 0 .. Len(w) * PerWord - 1 : Nibble(w, j) # 0}})
HexDigits(w) ==
  [i \in 1 .. NibbleCount(w) |-> DigitCharacter[Nibble(w, NibbleCount(w) - i) + 1]]

\* toHexString, in terms of these.
LEMMA HexIs ==
  ASSUME NEW t
  PROVE  toHexString(t) = (IF decodeLargeOrImmediate(t).isNegative THEN <<"-">> ELSE <<>>)
                            \o HexDigits(decodeLargeOrImmediate(t).words)
BY Zenon DEF toHexString, HexDigits, NibbleCount, Nibble, PerWord

\* The number the digits from i on stand for.
Rest(w, i) ==
  (WordAt(w, (i \div PerWord) + 1) \div Power(i % PerWord))
    + Power(PerWord - (i % PerWord)) * From(w)[(i \div PerWord) + 2]

\* The digits of word q + 1 from its digit r on, and the words above it.
LEMMA RestAt ==
  ASSUME NEW w, NEW q \in Nat, NEW r \in 0 .. PerWord - 1
  PROVE  Rest(w, PerWord * q + r)
           = (WordAt(w, q + 1) \div Power(r)) + Power(PerWord - r) * From(w)[q + 2]
<1> DEFINE i == PerWord * q + r
<1>1. PerWord \in Nat /\ PerWord >= 1
  BY NibbleFacts
<1>2. i \div PerWord = q /\ i % PerWord = r
  BY <1>1, QuotientOf
<1> HIDE DEF i
<1> QED
  BY <1>2 DEF Rest, i

\* Every index is that of a digit of a word.
LEMMA IndexIs ==
  ASSUME NEW i \in Nat
  PROVE  \E q \in Nat : \E r \in 0 .. PerWord - 1 :
           i = PerWord * q + r /\ i \div PerWord = q /\ i % PerWord = r
<1>1. PerWord \in Nat /\ PerWord >= 1
  BY NibbleFacts
<1>2. i % PerWord \in 0 .. PerWord - 1 /\ i \div PerWord \in Int
      /\ i = PerWord * (i \div PerWord) + (i % PerWord)
  BY <1>1, DividedBy
<1> DEFINE q == i \div PerWord
<1>3. q >= 0
  <2>1. \A x \in Int : x <= -1 => PerWord * x + PerWord <= 0
    BY <1>1
  <2> HIDE DEF q
  <2>2. q \in Int /\ i = PerWord * q + (i % PerWord)
    BY <1>2 DEF q
  <2> QED
    BY <2>1, <2>2, <1>1, <1>2
<1> QED
  BY <1>2, <1>3

\* What a word stands for without its lowest digits.
LEMMA WordDivided ==
  ASSUME NEW x \in Nat, NEW r \in Nat
  PROVE  /\ x \div Power(r) \in Nat
         /\ (x \div Power(r)) % Radix \in 0 .. Radix - 1
         /\ x \div Power(r) = Radix * (x \div Power(r + 1)) + ((x \div Power(r)) % Radix)
<1> DEFINE p == Power(r)
           y == x \div p
<1>1. p \in Nat /\ p >= 1 /\ Power(r + 1) = p * Radix /\ Radix \in Nat /\ Radix >= 1
  BY PowerFacts, NibbleFacts
<1> HIDE DEF p
<1>2. y \in Nat
  BY <1>1, QuotientOfMagnitudes
<1>3. y \div Radix = x \div (p * Radix)
  BY <1>1, DividedTwice
<1> HIDE DEF y
<1>4. y % Radix \in 0 .. Radix - 1 /\ y = (y % Radix) + Radix * (y \div Radix)
      /\ y \div Radix \in Int
  BY <1>1, <1>2, DividedBy
<1> QED
  BY <1>1, <1>2, <1>3, <1>4 DEF y, p

\* It is a natural number.
LEMMA RestIsNat ==
  ASSUME NEW w \in WordSeqs, NEW i \in Nat
  PROVE  Rest(w, i) \in Nat
<1>1. PICK q \in Nat, r \in 0 .. PerWord - 1 : i = PerWord * q + r
  BY IndexIs
<1>2. PerWord \in Nat /\ r \in Nat /\ PerWord - r \in Nat
  BY NibbleFacts
<1>3. WordAt(w, q + 1) \in Nat
  BY WordAtIs
<1>4. WordAt(w, q + 1) \div Power(r) \in Nat
  BY <1>2, <1>3, WordDivided
<1>5. Power(PerWord - r) \in Nat
  BY <1>2, PowerFacts
<1>6. From(w)[q + 2] \in Nat
  <2>1. q + 2 \in Int /\ q + 2 >= 1
    OBVIOUS
  <2> QED
    BY <2>1, FromAt
<1>7. Rest(w, i) = (WordAt(w, q + 1) \div Power(r)) + Power(PerWord - r) * From(w)[q + 2]
  BY <1>1, RestAt
<1> DEFINE a == WordAt(w, q + 1) \div Power(r)
           b == Power(PerWord - r)
           c == From(w)[q + 2]
<1>8. a \in Nat /\ b \in Nat /\ c \in Nat /\ Rest(w, i) = a + b * c
  BY <1>4, <1>5, <1>6, <1>7
<1> HIDE DEF a, b, c
<1> QED
  BY <1>8

\* A digit more.
LEMMA RestStep ==
  ASSUME NEW w \in WordSeqs, NEW i \in 0 .. Len(w) * PerWord - 1
  PROVE  /\ Nibble(w, i) \in 0 .. Radix - 1
         /\ Rest(w, i) = Rest(w, i + 1) * Radix + Nibble(w, i)
<1>1. PerWord \in Nat /\ PerWord >= 1 /\ Radix \in Nat /\ Radix >= 2 /\ Len(w) \in Nat
  BY NibbleFacts, LengthIs
<1>2. i \in Nat
  BY <1>1
<1>3. PICK q \in Nat, r \in 0 .. PerWord - 1 :
        i = PerWord * q + r /\ i \div PerWord = q /\ i % PerWord = r
  BY <1>2, IndexIs
<1>4. r \in Nat /\ q + 1 \in Int /\ q + 2 \in Int /\ q + 2 >= 1
  BY <1>1
<1>5. q + 1 \in 1 .. Len(w)
  <2>1. \A x \in Int : x >= Len(w) => PerWord * x >= Len(w) * PerWord
    BY <1>1
  <2>2. i < Len(w) * PerWord
    <3>1. Len(w) * PerWord \in Int
      BY <1>1
    <3> QED
      BY <3>1
  <2>3. ~(q >= Len(w))
    <3>1. PerWord * q \in Int /\ Len(w) * PerWord \in Int
      BY <1>1
    <3> QED
      BY <3>1, <2>1, <2>2, <1>3
  <2> QED
    BY <2>3, <1>1
<1> DEFINE x == WordAt(w, q + 1)
           f == From(w)[q + 2]
           y == x \div Power(r)
           d == y % Radix
           z == x \div Power(r + 1)
<1>6. x \in Nat /\ x < WordBase /\ x = w[q + 1]
  BY <1>4, <1>5, WordAtIs
<1>7. f \in Nat
  BY <1>4, FromAt
<1>8. Nibble(w, i) = d
  BY <1>3, <1>6 DEF Nibble, Power, Radix
<1>9. y \in Nat /\ d \in 0 .. Radix - 1 /\ y = Radix * z + d /\ z \in Nat
  <2>1. x \in Nat /\ r \in Nat /\ r + 1 \in Nat
    BY <1>4, <1>6
  <2> HIDE DEF x
  <2>2. z \in Nat
    BY <2>1, WordDivided
  <2>3. y \in Nat /\ d \in 0 .. Radix - 1 /\ y = Radix * z + d
    BY <2>1, WordDivided
  <2> QED
    BY <2>2, <2>3
<1>10. Rest(w, i) = y + Power(PerWord - r) * f
  BY <1>3, RestAt
<1>11. CASE r < PerWord - 1
  <2> DEFINE s == PerWord - (r + 1)
  <2>1. i + 1 = PerWord * q + (r + 1) /\ r + 1 \in 0 .. PerWord - 1
    BY <1>1, <1>3, <1>11
  <2>2. Rest(w, i + 1) = z + Power(s) * f
    BY <2>1, RestAt
  <2>3. s \in Nat /\ PerWord - r = s + 1
    BY <1>1, <1>11
  <2>4. Power(s) \in Nat /\ Power(PerWord - r) = Power(s) * Radix
    BY <2>3, PowerFacts
  <2> DEFINE p == Power(s)
  <2>5. p \in Nat /\ Rest(w, i + 1) = z + p * f /\ Rest(w, i) = y + (p * Radix) * f
    BY <2>2, <2>4, <1>10
  <2> HIDE DEF s, p, x, f, y, d, z
  <2>6. (p * Radix) * f = (p * f) * Radix
    BY <2>5, <1>1, <1>7
  <2>7. (z + p * f) * Radix = Radix * z + (p * f) * Radix
    BY <2>5, <1>1, <1>7, <1>9
  <2>8. Radix * z \in Int /\ (p * f) * Radix \in Int /\ d \in Int
    BY <2>5, <1>1, <1>7, <1>9
  <2> QED
    BY <2>5, <2>6, <2>7, <2>8, <1>8, <1>9
<1>12. CASE r = PerWord - 1
  <2>1. i + 1 = PerWord * (q + 1) + 0 /\ q + 1 \in Nat /\ 0 \in 0 .. PerWord - 1
    BY <1>1, <1>3, <1>12
  <2>2. Rest(w, i + 1) = f
    <3>1. Rest(w, i + 1) = (WordAt(w, (q + 1) + 1) \div Power(0))
                             + Power(PerWord - 0) * From(w)[(q + 1) + 2]
      BY <2>1, RestAt
    <3>2. (q + 1) + 1 = q + 2 /\ (q + 1) + 2 = (q + 2) + 1 /\ PerWord - 0 = PerWord
      BY <1>1
    <3>3. f = WordAt(w, q + 2) + WordBase * From(w)[(q + 2) + 1]
      BY <1>4, FromAt
    <3>4. WordAt(w, q + 2) \div 1 = WordAt(w, q + 2)
      <4>1. WordAt(w, q + 2) \in Int
        BY <1>4, WordAtIs
      <4> QED
        BY <4>1
    <3> QED
      BY <3>1, <3>2, <3>3, <3>4, PowerFacts
  <2>3. Rest(w, i) = y + Radix * f
    <3>1. PerWord - r = 1
      BY <1>1, <1>12
    <3> QED
      BY <3>1, <1>10, PowerFacts
  <2>4. z = 0
    <3>1. r + 1 = PerWord
      BY <1>1, <1>12
    <3>2. z = x \div WordBase
      BY <3>1, PowerFacts
    <3>3. x \div WordBase < 1
      <4>1. x \in Int /\ x < WordBase * 1
        BY <1>6, WidthFacts
      <4> QED
        BY <4>1, DividedBelow
    <3> HIDE DEF x, z
    <3> QED
      BY <3>2, <3>3, <1>9
  <2> HIDE DEF x, f, y, d, z
  <2> QED
    BY <2>2, <2>3, <2>4, <1>1, <1>7, <1>8, <1>9
<1>13. Nibble(w, i) \in 0 .. Radix - 1
  BY <1>8, <1>9
<1> QED
  BY <1>1, <1>11, <1>12, <1>13

\* All the digits stand for the magnitude, and after the last there is nothing.
LEMMA RestEnds ==
  ASSUME NEW w \in WordSeqs
  PROVE  Rest(w, 0) = Magnitude(w) /\ Rest(w, Len(w) * PerWord) = 0
<1>1. PerWord \in Nat /\ PerWord >= 1 /\ Len(w) \in Nat /\ 0 \in 0 .. PerWord - 1
  BY NibbleFacts, LengthIs
<1>2. ASSUME NEW q \in Nat PROVE Rest(w, PerWord * q) = From(w)[q + 1]
  <2>1. PerWord * q + 0 = PerWord * q /\ PerWord - 0 = PerWord
    BY <1>1
  <2>2. Rest(w, PerWord * q + 0)
          = (WordAt(w, q + 1) \div Power(0)) + Power(PerWord - 0) * From(w)[q + 2]
    BY <1>1, RestAt
  <2>3. q + 1 \in Int /\ q + 1 >= 1 /\ (q + 1) + 1 = q + 2
    OBVIOUS
  <2>4. From(w)[q + 1] = WordAt(w, q + 1) + WordBase * From(w)[q + 2]
    BY <2>3, FromAt
  <2>5. WordAt(w, q + 1) \div 1 = WordAt(w, q + 1)
    <3>1. WordAt(w, q + 1) \in Int
      BY <2>3, WordAtIs
    <3> QED
      BY <3>1
  <2> QED
    BY <2>1, <2>2, <2>4, <2>5, PowerFacts
<1>3. Rest(w, 0) = Magnitude(w)
  <2>1. PerWord * 0 = 0 /\ 0 + 1 = 1
    BY <1>1
  <2> QED
    BY <2>1, <1>2, FromFirst
<1>4. Rest(w, Len(w) * PerWord) = 0
  <2>1. Len(w) * PerWord = PerWord * Len(w) /\ Len(w) + 1 \in Int /\ Len(w) + 1 >= 1
        /\ Len(w) + 1 > Len(w)
    BY <1>1
  <2>2. From(w)[Len(w) + 1] = 0
    BY <2>1, FromAt
  <2> QED
    BY <2>1, <2>2, <1>1, <1>2
<1> QED
  BY <1>3, <1>4

\* toHexString prints digits of the radix that spell the magnitude.
LEMMA HexDigitsSpell ==
  ASSUME NEW w \in WordSeqs, Len(w) >= 1
  PROVE  /\ HexDigits(w) \in Texts /\ Len(HexDigits(w)) >= 1
         /\ \E W : Spelling(HexDigits(w), Radix, W) /\ W[Len(HexDigits(w))] = Magnitude(w)
<1> DEFINE total == Len(w) * PerWord
           n == NibbleCount(w)
           D == {1} \cup {i + 1 : i \in {j \in 0 .. total - 1 : Nibble(w, j) # 0}}
           W == [j \in 0 .. n |-> Rest(w, n - j)]
           s == HexDigits(w)
<1>1. total \in Nat /\ total >= 1
  <2>1. PerWord \in Nat /\ PerWord >= 1 /\ Len(w) \in Nat
    BY NibbleFacts, LengthIs
  <2>2. \A p, q \in Nat : p >= 1 /\ q >= 1 => p * q \in Nat /\ p * q >= 1
    OBVIOUS
  <2> QED
    BY <2>1, <2>2
<1>2. n = Max(D)
  BY DEF NibbleCount
<1>3. /\ Rest(w, 0) = Magnitude(w) /\ Rest(w, total) = 0
      /\ \A i \in 0 .. total - 1 : /\ Nibble(w, i) \in 0 .. Radix - 1
                                   /\ Rest(w, i) = Rest(w, i + 1) * Radix + Nibble(w, i)
      /\ \A i \in Nat : Rest(w, i) \in Nat
  BY RestEnds, RestStep, RestIsNat
<1> HIDE DEF total
<1>4. n \in 1 .. total /\ \A i \in n .. total - 1 : Nibble(w, i) = 0
  <2>1. D \subseteq 0 .. total /\ D # {} /\ 1 \in D
    BY <1>1
  <2>2. \A i \in 0 .. total - 1 : Nibble(w, i) # 0 => i + 1 \in D
    OBVIOUS
  <2> HIDE DEF D, n
  <2>3. n \in D /\ \A y \in D : y <= n
    BY <2>1, <1>1, <1>2, MaxIsMember
  <2>4. n \in 1 .. total
    BY <2>1, <2>3, <1>1
  <2>5. ASSUME NEW i \in n .. total - 1, Nibble(w, i) # 0 PROVE FALSE
    <3>1. i \in 0 .. total - 1 /\ ~(i + 1 <= n)
      BY <2>4, <1>1
    <3> QED
      BY <3>1, <2>2, <2>3, <2>5
  <2> QED
    BY <2>4, <2>5
<1> HIDE DEF n
<1>5. Radix \in Nat /\ Radix >= 2 /\ Radix <= 16
  BY NibbleFacts
<1>6. Rest(w, n) = 0
  <2> DEFINE S == {i \in n .. total : Rest(w, i) = 0}
  <2>1. n \in Int /\ total \in Int /\ total \in S
    BY <1>1, <1>3, <1>4
  <2>2. ASSUME NEW k \in n .. total - 1, k + 1 \in S PROVE k \in S
    <3>1. k \in 0 .. total - 1 /\ k \in n .. total
      BY <1>1, <1>4
    <3>2. Rest(w, k) = 0 * Radix + 0
      BY <3>1, <2>2, <1>3, <1>4
    <3> QED
      BY <3>1, <3>2, <1>5
  <2> HIDE DEF S
  <2>3. \A k \in n .. total : k \in S
    BY <2>1, <2>2, Downwards
  <2>4. n \in S
    BY <2>3, <1>1, <1>4
  <2> QED
    BY <2>4 DEF S
<1>7. s = [i \in 1 .. n |-> DigitCharacter[Nibble(w, n - i) + 1]]
  BY DEF HexDigits, n
<1>8. ASSUME NEW j \in 1 .. n
      PROVE  /\ n - j \in 0 .. total - 1 /\ Nibble(w, n - j) \in 0 .. Radix - 1
             /\ DigitCharacter[Nibble(w, n - j) + 1] \in CharactersOf(DigitCharacter)
  <2>1. n - j \in 0 .. total - 1
    BY <1>1, <1>4
  <2>2. Nibble(w, n - j) \in 0 .. Radix - 1
    <3>1. \A i \in 0 .. total - 1 : Nibble(w, i) \in 0 .. Radix - 1
      BY <1>3, Zenon
    <3> QED
      BY <2>1, <3>1
  <2>3. Nibble(w, n - j) \in 0 .. 15
    <3>1. \A x \in 0 .. Radix - 1 : x \in 0 .. 15
      BY <1>5
    <3> QED
      BY <2>2, <3>1, Zenon
  <2> QED
    BY <2>1, <2>2, <2>3, CharacterOfDigit
<1> HIDE DEF s
<1>9. s \in Texts /\ Len(s) = n
  <2> DEFINE C == CharactersOf(DigitCharacter)
             c(i) == DigitCharacter[Nibble(w, n - i) + 1]
  <2>1. \A i \in 1 .. n : c(i) \in C
    BY <1>8
  <2>2. s = [i \in 1 .. n |-> c(i)] /\ n \in Nat
    BY <1>1, <1>4, <1>7
  <2> HIDE DEF C, c
  <2>3. s \in [1 .. n -> C]
    BY <2>1, <2>2
  <2>4. s \in Seq(C) /\ Len(s) = n
    BY <2>2, <2>3
  <2> QED
    BY <2>4 DEF C, Texts
<1>10. /\ W \in [0 .. n -> Nat] /\ W[0] = 0 /\ W[n] = Magnitude(w)
       /\ \A j \in 0 .. n : W[j] = Rest(w, n - j)
  <2>1. ASSUME NEW j \in 0 .. n PROVE n - j \in Nat /\ Rest(w, n - j) \in Nat
    <3>1. \A i \in Nat : Rest(w, i) \in Nat
      BY <1>3
    <3>2. n - j \in Nat
      BY <1>4
    <3> QED
      BY <3>1, <3>2
  <2>2. n - 0 = n /\ n - n = 0 /\ 0 \in 0 .. n /\ n \in 0 .. n
    BY <1>4
  <2> QED
    BY <2>1, <2>2, <1>3, <1>6
<1> HIDE DEF W
<1>11. ASSUME NEW j \in 1 .. n
       PROVE  \E d \in 0 .. Radix - 1 : s[j] = DigitCharacter[d + 1] /\ W[j] = W[j - 1] * Radix + d
  <2> DEFINE d == Nibble(w, n - j)
  <2>1. n - j \in 0 .. total - 1 /\ d \in 0 .. Radix - 1
    BY <1>8
  <2>2. s[j] = DigitCharacter[d + 1]
    BY <1>7
  <2>3. j \in 0 .. n /\ j - 1 \in 0 .. n /\ n - (j - 1) = (n - j) + 1
    BY <1>4
  <2>4. W[j] = Rest(w, n - j) /\ W[j - 1] = Rest(w, (n - j) + 1)
    BY <2>3, <1>10
  <2>5. Rest(w, n - j) = Rest(w, (n - j) + 1) * Radix + d
    BY <2>1, <1>3
  <2> HIDE DEF d
  <2> QED
    BY <2>1, <2>2, <2>4, <2>5
<1>12. Spelling(s, Radix, W)
  BY <1>9, <1>10, <1>11 DEF Spelling
<1>13. n >= 1
  BY <1>4
<1> QED
  BY <1>9, <1>10, <1>12, <1>13 DEF s

-----------------------------------------------------------------------------
(***************************************************************************)
(* What is printed is read back.                                           *)
(***************************************************************************)
\* No character of a text of digits is a sign.
LEMMA TextIs ==
  ASSUME NEW s \in Texts
  PROVE  /\ Len(s) \in Nat
         /\ \A i \in 1 .. Len(s) : s[i] \notin {"+", "-", "_", "r"}
<1> DEFINE C == CharactersOf(DigitCharacter)
<1>1. \A c \in C : c \notin {"+", "-", "_", "r"}
  <2> SUFFICES ASSUME NEW c \in C PROVE c \notin {"+", "-", "_", "r"}
    BY Zenon
  <2>1. PICK i \in DOMAIN DigitCharacter : c = DigitCharacter[i]
    BY DEF CharactersOf
  <2>2. i \in 1 .. 16
    BY DigitCharacters
  <2>3. DigitCharacter[i] \notin {"+", "-", "_", "r"}
    BY <2>2, DigitCharacters, Zenon
  <2> QED
    BY <2>1, <2>3, Zenon
<1>2. s \in Seq(C)
  BY DEF Texts
<1> HIDE DEF C
<1>3. Len(s) \in Nat /\ \A i \in 1 .. Len(s) : s[i] \in C
  BY <1>2
<1> QED
  BY <1>1, <1>3, Zenon

\* A string without a sign is read from its first character.
LEMMA ParsedUnsigned ==
  ASSUME NEW string, string # <<>>, string[1] \notin {"+", "-"}
  PROVE  parseString(string) = ParsedFrom(string, 1)
<1>1. "+" # "-"
  BY Zenon
<1> QED
  BY <1>1, Zenon DEF parseString, Signed

\* The minus sign negates what follows it.
LEMMA ParsedNegative ==
  ASSUME NEW string, string # <<>>, string[1] = "-", IsInteger(ParsedFrom(string, 2))
  PROVE  parseString(string) = negated(ParsedFrom(string, 2))
BY Zenon DEF parseString, Signed

\* Digits that spell a number with the radix 10, with a sign before them or without, are
\* read as that number.
LEMMA DecimalParsed ==
  ASSUME NEW s \in Texts, Len(s) >= 1, NEW W, Spelling(s, 10, W),
         NEW m \in 0 .. 1, NEW string, Len(string) = m + Len(s),
         \A j \in 1 .. Len(s) : string[m + j] = s[j]
  PROVE  \E t : /\ ParsedFrom(string, m + 1) = t
                /\ Stands(t, W[Len(s)])
                /\ W[Len(s) - 1] * 10 <= MaxImmediate => t = encodeInt64(W[Len(s)])
<1> DEFINE g == ReadingOf(string, m + 1)
<1>1. /\ Len(s) \in Nat \ {0} /\ Len(string) \in Nat /\ Len(string) = m + Len(s)
      /\ m + 1 \in Nat /\ (m + 1) - 1 = m /\ (m + 1) - 1 <= Len(string)
      /\ m \in (m + 1) - 1 .. Len(string) /\ m + Len(s) <= Len(string)
  <2>1. Len(s) \in Nat
    BY TextIs
  <2> QED
    BY <2>1
<1>2. /\ ParsedFrom(string, m + 1) = g[Len(string)].result
      /\ g[(m + 1) - 1] = [result |-> encodeSmall(0), radix |-> encodeSmall(10),
                           canParseRadix |-> TRUE]
  BY <1>1, ReadingOfIs
<1>3. g[m] = Reading(Immediate(0), 10, TRUE)
  BY <1>1, <1>2, OneIs DEF Reading
<1>4. 10 \in 1 .. 16 /\ TRUE \in BOOLEAN /\ Spelling(s, 10, W)
      /\ \A j \in 1 .. Len(s) : string[m + j] = s[j]
  OBVIOUS
<1>5. PICK t : /\ g[m + Len(s)] = Reading(t, 10, TRUE) /\ Stands(t, W[Len(s)])
               /\ W[Len(s) - 1] * 10 <= MaxImmediate => t = encodeInt64(W[Len(s)])
  <2> DEFINE b == TRUE
  <2> HIDE DEF b
  <2>1. g[m] = Reading(Immediate(0), 10, b) /\ b \in BOOLEAN
    BY <1>3 DEF b
  <2>2. DigitsAt(string, m + 1, m, s, 10, b, W)
    BY <1>1, <1>4, <2>1 DEF DigitsAt
  <2>3. DigitsMade(string, m + 1, m, s, 10, b, W)
    BY <2>2, DigitsRead
  <2> QED
    BY <2>3 DEF b, DigitsMade
<1>6. ParsedFrom(string, m + 1) = t
  BY <1>1, <1>2, <1>5 DEF Reading
<1> QED
  BY <1>5, <1>6

\* No power of two is a multiple of five.
LEMMA PowerNotOfTens ==
  ASSUME NEW n \in Nat, NEW x \in Nat
  PROVE  2 ^ n # x * 10
<1> DEFINE S == {k \in 0 .. n : 2 ^ k \in Nat /\ \A y \in Nat : 2 ^ k # 5 * y}
<1>1. 0 \in S
  <2>1. \A y \in Nat : 1 # 5 * y
    OBVIOUS
  <2> QED
    BY <2>1, PowerOfNone
<1>2. ASSUME NEW k \in 0 .. n - 1, k \in S PROVE k + 1 \in S
  <2> DEFINE p == 2 ^ k
  <2>1. p \in Nat /\ 2 ^ (k + 1) = p + p /\ \A y \in Nat : p # 5 * y
    BY <1>2, PowerDoubles
  <2> HIDE DEF p
  <2>2. ASSUME NEW y \in Nat, p + p = 5 * y PROVE FALSE
    <3>1. p - 2 * y \in Nat /\ p = 5 * (p - 2 * y)
      BY <2>1, <2>2
    <3> QED
      BY <3>1, <2>1
  <2>3. p + p \in Nat /\ k + 1 \in 0 .. n
    BY <2>1
  <2> QED
    BY <2>1, <2>2, <2>3
<1>3. n \in S
  <2> HIDE DEF S
  <2>1. 0 \in Int /\ n \in Int
    OBVIOUS
  <2>2. \A k \in 0 .. n : k \in S
    BY <2>1, <1>1, <1>2, Upwards
  <2> QED
    BY <2>2
<1>4. \A y \in Nat : 2 ^ n # 5 * y
  BY <1>3
<1>5. x * 10 = 5 * (2 * x) /\ 2 * x \in Nat
  OBVIOUS
<1> QED
  BY <1>4, <1>5

\* The magnitude of the least immediate, which is none itself, is a large integer whose
\* negative is the least immediate.
LEMMA LeastIsNegated ==
  Value(negated(encodeInt64(Half))) = MinImmediate
<1> DEFINE k == ImmediateBits - 1 - WordBits
           h == 2 ^ k
           w == <<0, h>>
<1>1. k \in Nat /\ WordBits \in Nat /\ WordBits + k = ImmediateBits - 1
  BY Widths
<1> HIDE DEF k
<1>2. h \in Nat /\ h >= 1 /\ Half = WordBase * h
  <2>1. 2 ^ (WordBits + k) = (2 ^ WordBits) * (2 ^ k)
    BY <1>1, PowerOfSum
  <2> QED
    BY <2>1, <1>1, PowerIsPositive DEF Half, WordBase
<1> HIDE DEF h
<1>3. /\ WordBase \in Nat /\ WordBase >= 2 /\ Half \in Nat /\ Half >= WordBase /\ Half > 36
      /\ MinImmediate = - Half /\ MaxImmediate = Half - 1 /\ Half < WordBase * WordBase
  BY WidthFacts
<1>4. Half % WordBase = 0 /\ Half \div WordBase = h
  <2>1. Half = WordBase * h + 0 /\ 0 \in 0 .. WordBase - 1 /\ h \in Int
    BY <1>2, <1>3
  <2> QED
    BY <2>1, <1>3, QuotientOf
<1>5. h < WordBase /\ h % WordBase = h
  <2>1. h < WordBase
    BY <1>3, <1>4, DividedBelow
  <2> QED
    BY <2>1, <1>2, <1>3
<1>6. encodeInt64(Half) = Large(FALSE, w)
  <2>1. ~(Half \in MinImmediate .. MaxImmediate) /\ Half >= 0 /\ ~(Half < 0) /\ ~(Half < WordBase)
    BY <1>3
  <2>2. encodeInt64(Half) = encodeBigInt64(Half)
    BY <2>1 DEF encodeInt64
  <2>3. encodeBigInt64(Half) = Large(FALSE, <<Half % WordBase, (Half \div WordBase) % WordBase>>)
    <3>1. (IF Half >= 0 THEN Half ELSE - Half) = Half
      BY <2>1
    <3>2. ~((IF Half >= 0 THEN Half ELSE - Half) < WordBase)
      BY <3>1, <2>1
    <3> QED
      BY <2>1, <3>2, Zenon DEF encodeBigInt64, Large
  <2> QED
    BY <2>2, <2>3, <1>4, <1>5
<1>7. 0 \in Digit /\ h \in Digit
  BY <1>2, <1>3, <1>5, IsDigit
<1>8. w \in WordSeqs /\ Len(w) = 2 /\ w[1] = 0 /\ w[2] = h /\ Magnitude(w) = Half
  BY <1>2, <1>3, <1>7, OfTwoWords
<1> HIDE DEF w
<1>9. /\ IsNumber(Large(FALSE, w)) /\ ~isImmediate(Large(FALSE, w))
      /\ Value(Large(FALSE, w)) = Half
      /\ Large(TRUE, w).words = w /\ ~isImmediate(Large(TRUE, w))
      /\ Value(Large(TRUE, w)) = - Half
  <2>1. FALSE \in BOOLEAN /\ TRUE \in BOOLEAN /\ Len(w) >= 1
    BY <1>8
  <2>2. IsNumber(Large(FALSE, w)) /\ ~isImmediate(Large(FALSE, w))
        /\ Value(Large(FALSE, w)) = WithSign(FALSE, Magnitude(w))
    BY <1>8, <2>1, LargeIs, LargeIsNumber
  <2>3. Large(TRUE, w).words = w /\ ~isImmediate(Large(TRUE, w))
        /\ Value(Large(TRUE, w)) = WithSign(TRUE, Magnitude(w))
    BY <2>1, LargeIs
  <2> QED
    BY <1>8, <2>2, <2>3, Zenon DEF WithSign
<1>10. Negative(Large(FALSE, w)) = Large(TRUE, w)
  BY DEF Negative, Large
<1>11. ~LosesWords(Large(TRUE, w))
  <2>1. - Half \in MinImmediate .. MaxImmediate
    BY <1>3
  <2> QED
    BY <2>1, <1>8, <1>9 DEF LosesWords
<1> DEFINE t == Large(FALSE, w)
<1>12. ~Faulty("negated", t, t)
  BY <1>10, <1>11, FaultyNegated
<1>13. Computes(negated(t), Faulty("negated", t, t), - Value(t))
  BY <1>9, NegatedIs
<1> HIDE DEF t
<1>14. Value(negated(t)) = - Half
  BY <1>9, <1>12, <1>13 DEF Computes, t
<1> QED
  BY <1>3, <1>6, <1>14 DEF t

\* An immediate is read back from what printString prints.
LEMMA PrintedReadsBack ==
  ASSUME NEW v \in Int, v \in MinImmediate .. MaxImmediate
  PROVE  Value(parseString(printString(Immediate(v)))) = v
<1>1. Half \in Nat /\ Half > 36 /\ MinImmediate = - Half /\ MaxImmediate = Half - 1
  BY WidthFacts
<1>2. isImmediate(Immediate(v)) /\ Immediate(v).value = v
  BY ImmediateIs
<1>3. CASE v >= 0
  <2> DEFINE s == DecimalDigits(v)
  <2>1. printString(Immediate(v)) = s
    <3>1. ~(v < 0)
      BY <1>3
    <3> QED
      BY <1>2, <1>3, <3>1 DEF printString
  <2>2. s \in Texts /\ Len(s) >= 1 /\ \E W : Spelling(s, 10, W) /\ W[Len(s)] = v
    BY <1>3, DecimalDigitsSpell
  <2> HIDE DEF s
  <2>3. PICK W : Spelling(s, 10, W) /\ W[Len(s)] = v
    BY <2>2
  <2>4. Len(s) \in Nat /\ s[1] \notin {"+", "-"} /\ s # <<>>
    <3>1. Len(s) \in Nat
      BY <2>2, TextIs
    <3>2. 1 \in 1 .. Len(s)
      BY <3>1, <2>2
    <3>3. s # <<>>
      <4>1. Len(<<>>) = 0
        OBVIOUS
      <4> QED
        BY <4>1, <2>2
    <3>4. s[1] \notin {"+", "-", "_", "r"}
      BY <2>2, <3>2, TextIs, Zenon
    <3> QED
      BY <3>1, <3>3, <3>4, Zenon
  <2>5. parseString(s) = ParsedFrom(s, 1)
    BY <2>4, ParsedUnsigned
  <2>6. PICK t : ParsedFrom(s, 0 + 1) = t /\ Stands(t, W[Len(s)])
    <3>1. 0 \in 0 .. 1 /\ Len(s) = 0 + Len(s) /\ \A j \in 1 .. Len(s) : s[0 + j] = s[j]
      <4>1. \A j \in 1 .. Len(s) : 0 + j = j
        BY <2>4
      <4> QED
        BY <4>1, <2>4
    <3> QED
      BY <3>1, <2>2, <2>3, DecimalParsed
  <2>7. 0 + 1 = 1
    OBVIOUS
  <2> QED
    BY <2>1, <2>3, <2>5, <2>6, <2>7 DEF Stands
<1>4. CASE v < 0
  <2> DEFINE n == 0 - v
             s == DecimalDigits(n)
             u == <<"-">> \o s
  <2>1. n \in Nat /\ n >= 1 /\ n <= Half /\ - v = n /\ v = - n /\ - n = v
    BY <1>1, <1>4
  <2>2. printString(Immediate(v)) = u
    BY <1>2, <1>4, <2>1 DEF printString
  <2> HIDE DEF n
  <2>3. s \in Texts /\ Len(s) >= 1 /\ \E W : Spelling(s, 10, W) /\ W[Len(s)] = n
    BY <2>1, DecimalDigitsSpell
  <2> HIDE DEF s
  <2>4. PICK W : Spelling(s, 10, W) /\ W[Len(s)] = n
    BY <2>3
  <2>5. Len(s) \in Nat
    BY <2>3, TextIs
  <2>6. /\ Len(u) = 1 + Len(s) /\ u[1] = "-" /\ u # <<>>
        /\ \A j \in 1 .. Len(s) : u[1 + j] = s[j]
    <3> DEFINE c == "-"
               C == CharactersOf(DigitCharacter)
    <3> HIDE DEF c, C
    <3>1. s \in Seq(C \cup {c}) /\ <<c>> \in Seq(C \cup {c}) /\ Len(<<c>>) = 1 /\ <<c>>[1] = c
      BY <2>3 DEF Texts, C
    <3>2. /\ Len(<<c>> \o s) = 1 + Len(s) /\ (<<c>> \o s)[1] = c /\ <<c>> \o s # <<>>
          /\ \A j \in 1 .. Len(s) : (<<c>> \o s)[1 + j] = s[j]
      BY <3>1, <2>5
    <3> QED
      BY <3>2 DEF c
  <2> HIDE DEF u
  <2>7. PICK t : /\ ParsedFrom(u, 1 + 1) = t /\ Stands(t, n)
                 /\ W[Len(s) - 1] * 10 <= MaxImmediate => t = encodeInt64(n)
    <3>1. 1 \in 0 .. 1
      OBVIOUS
    <3> QED
      BY <3>1, <2>3, <2>4, <2>6, DecimalParsed
  <2>8. parseString(u) = negated(t)
    <3>1. 1 + 1 = 2
      OBVIOUS
    <3>2. IsInteger(t)
      BY <2>7, DecodeIs DEF Stands
    <3> QED
      BY <3>1, <3>2, <2>6, <2>7, ParsedNegative
  <2>9. CASE n <= MaxImmediate
    <3>1. t = Immediate(n)
      BY <2>7, <2>9 DEF Stands
    <3>2. negated(t) = encodeInt64(v)
      BY <3>1, <2>1, ImmediateIs DEF negated
    <3>3. encodeInt64(v) = Immediate(v)
      BY EncodeIs
    <3> QED
      BY <2>2, <2>8, <3>2, <3>3, ImmediateIs
  <2>10. CASE ~(n <= MaxImmediate)
    <3>1. n = Half
      BY <1>1, <2>1, <2>10
    <3>2. W[Len(s) - 1] * 10 <= MaxImmediate
      <4>1. Len(s) \in 1 .. Len(s) /\ Len(s) - 1 \in 0 .. Len(s)
        BY <2>3, <2>5
      <4>2. PICK d \in 0 .. 9 : W[Len(s)] = W[Len(s) - 1] * 10 + d
        <5>1. \E d \in 0 .. 10 - 1 : W[Len(s)] = W[Len(s) - 1] * 10 + d
          BY <4>1, <2>4 DEF Spelling
        <5> QED
          BY <5>1
      <4> DEFINE x == W[Len(s) - 1]
      <4>3. x \in Nat
        BY <4>1, <2>4 DEF Spelling
      <4>4. n = x * 10 + d
        BY <4>2, <2>4
      <4> HIDE DEF x
      <4>5. n # x * 10
        <5>1. ImmediateBits - 1 \in Nat
          BY Widths
        <5> QED
          BY <5>1, <3>1, <4>3, PowerNotOfTens DEF Half
      <4>6. x * 10 <= MaxImmediate
        BY <4>3, <4>4, <4>5, <3>1, <1>1
      <4> QED
        BY <4>6 DEF x
    <3>3. t = encodeInt64(Half)
      BY <3>1, <3>2, <2>7
    <3> QED
      BY <3>1, <3>3, <2>1, <2>2, <2>8, <1>1, LeastIsNegated
  <2> QED
    BY <2>9, <2>10
<1> QED
  BY <1>3, <1>4

\* The radix before the letter, and the letter.
LEMMA RadixRead ==
  ASSUME NEW string, NEW n, Len(RadixPrefix) = n, Len(string) \in Nat, n <= Len(string),
         \A i \in 1 .. n : string[i] = RadixPrefix[i]
  PROVE  n \in Nat /\ ReadingOf(string, 1)[n] = Reading(Immediate(0), Radix, FALSE)
<1> DEFINE s == DecimalDigits(Radix)
           g == ReadingOf(string, 1)
<1>1. Radix \in Nat /\ Radix \in 1 .. 16 /\ Radix \in 0 .. 36
  BY NibbleFacts
<1>2. s \in Texts /\ Len(s) >= 1 /\ \E W : Spelling(s, 10, W) /\ W[Len(s)] = Radix
  BY <1>1, DecimalDigitsSpell
<1>3. RadixPrefix = s \o <<"r">>
  BY DEF RadixPrefix, Radix
<1> HIDE DEF s
<1>4. PICK W : Spelling(s, 10, W) /\ W[Len(s)] = Radix
  BY <1>2
<1>5. Len(s) \in Nat
  BY <1>2, TextIs
<1>6. /\ n = Len(s) + 1 /\ RadixPrefix[n] = "r"
      /\ \A j \in 1 .. Len(s) : RadixPrefix[j] = s[j]
  <2> DEFINE c == "r"
             C == CharactersOf(DigitCharacter)
  <2> HIDE DEF c, C
  <2>1. s \in Seq(C \cup {c}) /\ <<c>> \in Seq(C \cup {c}) /\ Len(<<c>>) = 1 /\ <<c>>[1] = c
    BY <1>2 DEF Texts, C
  <2>2. /\ Len(s \o <<c>>) = Len(s) + 1 /\ (s \o <<c>>)[Len(s) + 1] = c
        /\ \A j \in 1 .. Len(s) : (s \o <<c>>)[j] = s[j]
    BY <2>1, <1>5
  <2>3. RadixPrefix = s \o <<c>>
    BY <1>3 DEF c
  <2> QED
    BY <2>2, <2>3 DEF c
<1>7. /\ n \in Nat /\ n >= 1 /\ n - 1 = Len(s) /\ n \in 1 .. n /\ n \in 1 .. Len(string)
      /\ \A j \in 1 .. Len(s) : j \in 1 .. n
  BY <1>5, <1>6
<1>8. /\ g[0] = Reading(Immediate(0), 10, TRUE)
      /\ \A i \in 1 .. Len(string) : g[i] = AfterCharacter(g[i - 1], string[i])
  <2>1. 1 \in Nat /\ 1 - 1 = 0 /\ 0 <= Len(string)
    OBVIOUS
  <2>2. /\ g[1 - 1] = [result |-> encodeSmall(0), radix |-> encodeSmall(10),
                       canParseRadix |-> TRUE]
        /\ \A i \in 1 .. Len(string) : g[i] = AfterCharacter(g[i - 1], string[i])
    BY <2>1, ReadingOfIs
  <2> QED
    BY <2>1, <2>2, OneIs DEF Reading
<1>9. g[n - 1] = Reading(Immediate(Radix), 10, TRUE)
  <2> DEFINE b == TRUE
  <2> HIDE DEF b
  <2>1. g[0] = Reading(Immediate(0), 10, b) /\ b \in BOOLEAN
    BY <1>8 DEF b
  <2>2. \A j \in 1 .. Len(s) : string[0 + j] = s[j]
    <3>1. \A j \in 1 .. Len(s) : 0 + j = j
      BY <1>5
    <3> QED
      BY <3>1, <1>6, <1>7
  <2>3. DigitsAt(string, 1, 0, s, 10, b, W)
    <3>1. /\ Len(s) \in Nat \ {0} /\ 0 + Len(s) <= Len(string)
          /\ 0 \in 1 - 1 .. Len(string) /\ 1 - 1 <= Len(string)
      BY <1>2, <1>5, <1>7
    <3> QED
      BY <3>1, <2>1, <2>2, <1>4 DEF DigitsAt
  <2>4. DigitsMade(string, 1, 0, s, 10, b, W)
    BY <2>3, DigitsRead
  <2>5. PICK t : g[0 + Len(s)] = Reading(t, 10, b) /\ Stands(t, Radix)
    BY <2>4, <1>4 DEF DigitsMade
  <2>6. t = Immediate(Radix)
    BY <2>5, <1>1, WidthFacts DEF Stands
  <2>7. 0 + Len(s) = n - 1
    BY <1>5, <1>7
  <2> QED
    BY <2>5, <2>6, <2>7 DEF b
<1>10. g[n] = AfterCharacter(Reading(Immediate(Radix), 10, TRUE), "r")
  BY <1>6, <1>7, <1>8, <1>9
<1>11. AfterCharacter(Reading(Immediate(Radix), 10, TRUE), "r")
         = [result |-> encodeSmall(0), radix |-> Immediate(Radix), canParseRadix |-> FALSE]
  <2> DEFINE read == Reading(Immediate(Radix), 10, TRUE)
  <2>1. IsInteger(read.result) /\ read.canParseRadix /\ read.radix = Immediate(10)
        /\ read.result = Immediate(Radix)
    BY ImmediateIs DEF Reading
  <2>2. ~IsDecimalDigit("r")
    <3>1. \A k \in 0 .. 9 : k \in 0 .. 15
      OBVIOUS
    <3>2. \A k \in 0 .. 9 : DigitCharacter[k + 1] \notin {"+", "-", "_", "r"}
      BY <3>1, CharacterOfDigit
    <3>3. \A k \in 0 .. 9 : DigitCharacter[k + 1] # "r"
      BY <3>2, Zenon
    <3> QED
      BY <3>3, DecimalDigitIs, Zenon
  <2>3. "r" # "_"
    BY Zenon
  <2> HIDE DEF read
  <2>4. AfterCharacter(read, "r")
          = [result |-> encodeSmall(0), radix |-> read.result, canParseRadix |-> FALSE]
    BY <2>1, <2>2, <2>3, Zenon DEF AfterCharacter
  <2> QED
    BY <2>1, <2>4 DEF read
<1> QED
  BY <1>7, <1>10, <1>11, OneIs DEF Reading

\* A number of the radix that is read after the prefix.
LEMMA HexParsed ==
  ASSUME NEW h \in Texts, Len(h) >= 1, NEW W, Spelling(h, Radix, W)
  PROVE  Value(parseString(RadixPrefix \o h)) = W[Len(h)]
<1> DEFINE s == DecimalDigits(Radix)
           string == RadixPrefix \o h
           n == Len(RadixPrefix)
           g == ReadingOf(string, 1)
<1>1. Radix \in Nat /\ Radix \in 1 .. 16
  BY NibbleFacts
<1>2. s \in Texts /\ Len(s) >= 1
  BY <1>1, DecimalDigitsSpell
<1>3. RadixPrefix = s \o <<"r">>
  BY DEF RadixPrefix, Radix
<1> HIDE DEF s, string, n
<1>4. Len(h) \in Nat /\ Len(s) \in Nat
  BY <1>2, TextIs
<1>5. /\ n = Len(s) + 1 /\ Len(string) = n + Len(h)
      /\ \A i \in 1 .. n : string[i] = RadixPrefix[i]
      /\ \A j \in 1 .. Len(h) : string[n + j] = h[j]
      /\ RadixPrefix[1] = s[1]
  <2> DEFINE c == "r"
             C == CharactersOf(DigitCharacter)
             D == C \cup {c}
             p == s \o <<c>>
  <2> HIDE DEF c, C
  <2>1. s \in Seq(D) /\ <<c>> \in Seq(D) /\ Len(<<c>>) = 1
    BY <1>2 DEF Texts, C
  <2>2. h \in Seq(D)
    BY DEF Texts, C
  <2> HIDE DEF D
  <2>3. p \in Seq(D) /\ Len(p) = Len(s) + 1 /\ p[1] = s[1]
    BY <2>1, <1>2, <1>4
  <2> HIDE DEF p
  <2>4. /\ Len(p \o h) = Len(p) + Len(h)
        /\ \A i \in 1 .. Len(p) : (p \o h)[i] = p[i]
        /\ \A j \in 1 .. Len(h) : (p \o h)[Len(p) + j] = h[j]
    BY <2>2, <2>3, <1>4
  <2>5. RadixPrefix = p /\ string = p \o h /\ n = Len(p)
    BY <1>3 DEF c, p, string, n
  <2> QED
    BY <2>3, <2>4, <2>5
<1>6. n \in Nat /\ n >= 2 /\ Len(string) \in Nat /\ n <= Len(string)
      /\ 1 \in 1 .. n /\ 1 \in 1 .. Len(s)
  BY <1>2, <1>4, <1>5
<1>7. g[n] = Reading(Immediate(0), Radix, FALSE)
  <2>1. Len(RadixPrefix) = n
    BY DEF n
  <2> QED
    BY <2>1, <1>5, <1>6, RadixRead
<1>8. parseString(string) = ParsedFrom(string, 1)
  <2>1. string[1] = s[1]
    BY <1>5, <1>6
  <2>2. s[1] \notin {"+", "-", "_", "r"}
    BY <1>2, <1>6, TextIs, Zenon
  <2>3. string[1] \notin {"+", "-"}
    BY <2>1, <2>2, Zenon
  <2>4. string # <<>>
    <3>1. Len(<<>>) = 0
      OBVIOUS
    <3> QED
      BY <3>1, <1>6
  <2> QED
    BY <2>3, <2>4, ParsedUnsigned
<1>9. ParsedFrom(string, 1) = g[Len(string)].result
  <2>1. 1 \in Nat /\ 1 - 1 <= Len(string)
    BY <1>6
  <2> QED
    BY <2>1, <1>6, ReadingOfIs
<1>10. PICK t : g[n + Len(h)].result = t /\ Stands(t, W[Len(h)])
  <2> DEFINE b == FALSE
  <2> HIDE DEF b
  <2>1. g[n] = Reading(Immediate(0), Radix, b) /\ b \in BOOLEAN /\ ~b
    BY <1>7 DEF b
  <2>2. DigitsAt(string, 1, n, h, Radix, b, W)
    <3>1. /\ Len(h) \in Nat \ {0} /\ n + Len(h) <= Len(string)
          /\ n \in 1 - 1 .. Len(string) /\ 1 - 1 <= Len(string)
      BY <1>4, <1>5, <1>6
    <3> QED
      BY <3>1, <2>1, <1>1, <1>5, <1>6 DEF DigitsAt
  <2>3. DigitsMade(string, 1, n, h, Radix, b, W)
    BY <2>2, DigitsRead
  <2>4. PICK t : g[n + Len(h)] = Reading(t, Radix, b) /\ Stands(t, W[Len(h)])
    BY <2>3 DEF DigitsMade
  <2> QED
    BY <2>4 DEF Reading
<1> QED
  BY <1>5, <1>8, <1>9, <1>10 DEF Stands, string

\* The sign toHexString prints is that of the number, or of -0.
LEMMA HexSign ==
  ASSUME NEW t, IsNumber(t)
  PROVE  LET d == decodeLargeOrImmediate(t)
         IN /\ toHexString(t)[1] = "-" <=> d.isNegative
            /\ Digits(toHexString(t)) = HexDigits(d.words)
            /\ d.isNegative <=> Value(t) < 0 \/ NegativeZero(t)
<1> DEFINE d == decodeLargeOrImmediate(t)
           h == HexDigits(d.words)
           u == toHexString(t)
<1>1. d.isNegative \in BOOLEAN /\ d.words \in WordSeqs /\ Len(d.words) >= 1
  BY DecodedIs
<1>2. u = (IF d.isNegative THEN <<"-">> ELSE <<>>) \o h
  BY HexIs
<1>3. h \in Texts /\ Len(h) >= 1
  BY <1>1, HexDigitsSpell
<1>4. d.isNegative <=> Value(t) < 0 \/ NegativeZero(t)
  <2>1. CASE ~NegativeZero(t)
    BY <2>1, NegativeIs
  <2>2. CASE NegativeZero(t)
    <3>1. ~isImmediate(t)
      BY <2>2, Zenon DEF NegativeZero, isImmediate
    <3>2. PICK b \in BOOLEAN, w \in WordSeqs : Len(w) >= 1 /\ t = Large(b, w)
      BY <3>1, AsLarge
    <3>3. b
      BY <2>2, <3>2, LargeIs DEF NegativeZero
    <3>4. d.isNegative = b
      BY <3>2, DecodeLarge
    <3> QED
      BY <2>2, <3>3, <3>4
  <2> QED
    BY <2>1, <2>2
<1> HIDE DEF d, h, u
<1>5. Len(h) \in Nat /\ h[1] # "-"
  <2>1. Len(h) \in Nat
    BY <1>3, TextIs
  <2>2. 1 \in 1 .. Len(h)
    BY <2>1, <1>3
  <2>3. h[1] \notin {"+", "-", "_", "r"}
    BY <1>3, <2>2, TextIs, Zenon
  <2> QED
    BY <2>1, <2>3, Zenon
<1>6. CASE d.isNegative
  <2> DEFINE c == "-"
             C == CharactersOf(DigitCharacter) \cup {c}
  <2>1. u = <<c>> \o h
    BY <1>2, <1>6
  <2> HIDE DEF c
  <2>2. h \in Seq(C) /\ <<c>> \in Seq(C) /\ Len(<<c>>) = 1 /\ <<c>>[1] = c
    BY <1>3 DEF Texts
  <2> HIDE DEF C
  <2>3. u[1] = c /\ Tail(u) = h
    BY <2>1, <2>2
  <2> QED
    BY <1>4, <1>6, <2>3, Zenon DEF Digits, c, d, h, u
<1>7. CASE ~d.isNegative
  <2>1. u = <<>> \o h
    BY <1>2, <1>7
  <2>2. h \in Seq(CharactersOf(DigitCharacter))
    BY <1>3 DEF Texts
  <2>3. u = h
    BY <2>1, <2>2
  <2> QED
    BY <1>4, <1>5, <1>7, <2>3, Zenon DEF Digits, d, h, u
<1> QED
  BY <1>1, <1>6, <1>7

-----------------------------------------------------------------------------
(***************************************************************************)
(* The invariant.                                                          *)
(***************************************************************************)
\* The second number is always one; the first is, unless an operation has returned
\* what is no integer. This is inductive: Faulty names every case that breaks it.
Agreement ==
  /\ IsNumber(right) /\ Value(right) = rightValue
  /\ IsResult(left) /\ (IsInteger(left) => Value(left) = leftValue)

\* The numbers a program writes.
LEMMA InitAgrees == IInit => Agreement
<1> SUFFICES ASSUME IInit PROVE Agreement
  OBVIOUS
<1>1. PICK l \in Numerals, r \in Numerals :
        /\ left = parseString(l) /\ right = parseString(r)
        /\ IsInteger(left) /\ IsInteger(right)
        /\ leftValue = Value(left) /\ rightValue = Value(right)
  BY DEF IInit
<1>2. l \in Seq(STRING) /\ r \in Seq(STRING)
  BY Strings
<1>3. IsResult(left) /\ IsResult(right)
  BY <1>1, <1>2, ParseStringIs
<1> QED
  BY <1>1, <1>3, ResultIs DEF Agreement

\* A primitive.
LEMMA ComputeAgrees ==
  ASSUME Agreement, NEW name \in Primitives, Compute(name)
  PROVE  Agreement'
<1> DEFINE result == Primitive(name, left, right)
<1>1. IsNumber(left) /\ Value(left) = leftValue
  BY ResultIs DEF Agreement, Compute
<1>2. IsNumber(right) /\ Value(right) = rightValue
  BY DEF Agreement
<1>3. /\ name \in {"//", "%"} => right # Immediate(0)
      /\ name = "factorial" => Value(left) <= MaxFactorial
  BY <1>1 DEF Compute
<1>4. Computes(result, Faulty(name, left, right), Exact(name, leftValue, rightValue))
  BY <1>1, <1>2, <1>3, PrimitiveIs
<1> HIDE DEF result
<1>5. /\ left' = result /\ right' = right /\ rightValue' = rightValue
      /\ leftValue' = CASE ~IsInteger(result) -> 0
                        [] IsInteger(result) /\ Faulty(name, left, right) -> Value(result)
                        [] OTHER -> Exact(name, leftValue, rightValue)
  BY DEF Compute, result
<1>6. IsResult(result)
  BY <1>4 DEF Computes
<1>7. IsInteger(result) => Value(result) = leftValue'
  <2>1. CASE IsInteger(result) /\ Faulty(name, left, right)
    BY <2>1, <1>5
  <2>2. CASE IsInteger(result) /\ ~Faulty(name, left, right)
    <3>1. Value(result) = Exact(name, leftValue, rightValue)
      BY <2>2, <1>4 DEF Computes
    <3>2. leftValue' = Exact(name, leftValue, rightValue)
      BY <2>2, <1>5
    <3> QED
      BY <3>1, <3>2
  <2> QED
    BY <2>1, <2>2
<1>8. (IsNumber(right) /\ Value(right) = rightValue)'
  BY <1>2, <1>5
<1>9. (IsResult(left) /\ (IsInteger(left) => Value(left) = leftValue))'
  BY <1>5, <1>6, <1>7
<1> QED
  BY <1>8, <1>9 DEF Agreement

\* The two registers exchanged.
LEMMA SwapAgrees ==
  ASSUME Agreement, Swap
  PROVE  Agreement'
<1>1. IsNumber(left) /\ Value(left) = leftValue /\ IsNumber(right) /\ Value(right) = rightValue
  BY ResultIs DEF Agreement, Swap
<1>2. left' = right /\ right' = left /\ leftValue' = rightValue /\ rightValue' = leftValue
  BY DEF Swap
<1>3. (IsNumber(right) /\ Value(right) = rightValue)'
  BY <1>1, <1>2
<1>4. (IsResult(left) /\ (IsInteger(left) => Value(left) = leftValue))'
  BY <1>1, <1>2 DEF IsResult
<1> QED
  BY <1>3, <1>4 DEF Agreement

\* Agreement holds throughout a computation.
THEOREM AgreementHolds == ISpec => []Agreement
<1>1. ASSUME Agreement, [INext]_ivars PROVE Agreement'
  <2>1. CASE Swap
    BY <1>1, <2>1, SwapAgrees
  <2>2. CASE \E name \in Primitives : Compute(name)
    BY <1>1, <2>2, ComputeAgrees
  <2>3. CASE UNCHANGED ivars
    BY <1>1, <2>3 DEF ivars, Agreement
  <2> QED
    BY <1>1, <2>1, <2>2, <2>3 DEF INext
<1> QED
  BY <1>1, InitAgrees, PTL DEF ISpec

\* Outside the faulty cases, a computation of any length on integers of any size has
\* the number it should have.
THEOREM IntegersAgreeHolds == ISpec => []IntegersAgree
<1>1. Agreement => IntegersAgree
  BY DEF Agreement, IntegersAgree
<1> QED
  BY <1>1, AgreementHolds, PTL

\* The first part of ComparesAndReadsBack: two numbers of a computation compare as
\* the numbers they stand for, unless one is -0.
LEMMA ComparesAsNumbers ==
  ASSUME Agreement, IsInteger(left), ~NegativeZero(left), ~NegativeZero(right)
  PROVE  compare(left, right) = compare(Immediate(leftValue), Immediate(rightValue))
<1>1. /\ IsNumber(left) /\ Value(left) = leftValue
      /\ IsNumber(right) /\ Value(right) = rightValue
  BY ResultIs DEF Agreement
<1>2. compare(left, right) = OrderOf(leftValue, rightValue)
  BY <1>1, CompareOfNumbers
<1>3. compare(Immediate(leftValue), Immediate(rightValue)) = OrderOf(leftValue, rightValue)
  BY ImmediateIs DEF compare, OrderOf
<1> QED
  BY <1>2, <1>3

\* Any two numbers of a computation compare as the numbers they stand for, unless one is
\* -0, and the digits an integer is printed with are read back as its number: with the
\* radix before them, those of any integer, and without it those of an immediate.
THEOREM ComparesAndReadsBackHolds == ISpec => []ComparesAndReadsBack
<1>1. ASSUME Agreement, IsInteger(left)
      PROVE  /\ Value(parseString(RadixPrefix \o Digits(toHexString(left))))
                  = (IF leftValue < 0 THEN - leftValue ELSE leftValue)
             /\ toHexString(left)[1] = "-" <=> leftValue < 0 \/ NegativeZero(left)
             /\ isImmediate(left) => Value(parseString(printString(left))) = leftValue
  <2> DEFINE d == decodeLargeOrImmediate(left)
             h == HexDigits(d.words)
  <2>1. IsNumber(left) /\ Value(left) = leftValue
    BY <1>1, ResultIs DEF Agreement
  <2>2. /\ d.words \in WordSeqs /\ Len(d.words) >= 1 /\ Magnitude(d.words) \in Int
        /\ Magnitude(d.words) >= 0 /\ leftValue \in Int
        /\ leftValue = WithSign(d.isNegative, Magnitude(d.words))
    BY <2>1, DecodedIs
  <2>3. /\ toHexString(left)[1] = "-" <=> d.isNegative
        /\ Digits(toHexString(left)) = h
        /\ d.isNegative <=> leftValue < 0 \/ NegativeZero(left)
    BY <2>1, HexSign
  <2>4. /\ h \in Texts /\ Len(h) >= 1
        /\ \E W : Spelling(h, Radix, W) /\ W[Len(h)] = Magnitude(d.words)
    BY <2>2, HexDigitsSpell
  <2> HIDE DEF d, h
  <2>5. Value(parseString(RadixPrefix \o h)) = Magnitude(d.words)
    BY <2>4, HexParsed
  <2>6. Magnitude(d.words) = (IF leftValue < 0 THEN - leftValue ELSE leftValue)
    <3>1. CASE d.isNegative
      <4>1. leftValue = - Magnitude(d.words)
        BY <3>1, <2>2 DEF WithSign
      <4> QED
        BY <4>1, <2>2
    <3>2. CASE ~d.isNegative
      <4>1. leftValue = Magnitude(d.words)
        BY <3>2, <2>2 DEF WithSign
      <4> QED
        BY <4>1, <2>2
    <3> QED
      BY <3>1, <3>2
  <2>7. ASSUME isImmediate(left)
        PROVE  Value(parseString(printString(left))) = leftValue
    <3>1. PICK v \in MinImmediate .. MaxImmediate : left = Immediate(v)
      BY <2>7, <2>1, AsImmediate
    <3>2. v \in Int /\ leftValue = v
      BY <3>1, <2>1, ImmediateIs, WidthFacts
    <3> QED
      BY <3>1, <3>2, PrintedReadsBack
  <2>8. toHexString(left)[1] = "-" <=> leftValue < 0 \/ NegativeZero(left)
    BY <2>3
  <2>9. Value(parseString(RadixPrefix \o Digits(toHexString(left))))
          = (IF leftValue < 0 THEN - leftValue ELSE leftValue)
    BY <2>3, <2>5, <2>6
  <2> QED
    BY <2>7, <2>8, <2>9
<1>2. Agreement => ComparesAndReadsBack
  <2> SUFFICES ASSUME Agreement, IsInteger(left)
               PROVE  /\ ~NegativeZero(left) /\ ~NegativeZero(right) =>
                           compare(left, right)
                             = compare(Immediate(leftValue), Immediate(rightValue))
                      /\ Value(parseString(RadixPrefix \o Digits(toHexString(left))))
                           = (IF leftValue < 0 THEN - leftValue ELSE leftValue)
                      /\ toHexString(left)[1] = "-" <=> leftValue < 0 \/ NegativeZero(left)
                      /\ isImmediate(left) => Value(parseString(printString(left))) = leftValue
    BY Zenon DEF ComparesAndReadsBack
  <2>1. ~NegativeZero(left) /\ ~NegativeZero(right) =>
          compare(left, right) = compare(Immediate(leftValue), Immediate(rightValue))
    BY ComparesAsNumbers
  <2> QED
    BY <1>1, <2>1
<1> QED
  BY <1>2, AgreementHolds, PTL
=============================================================================
