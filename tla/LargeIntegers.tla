---------------------------- MODULE LargeIntegers ----------------------------
(***************************************************************************)
(* The integers of the virtual machine (integer.c): an immediate when the  *)
(* value fits in the bits a tuple leaves for it, otherwise an object with  *)
(* the words of the magnitude, the lowest first, whose type is the sign.   *)
(* The widths are parameters: the code has words of 32 bits, native        *)
(* integers of 64, immediates of 60 and nibbles of 4.                      *)
(*                                                                         *)
(* Some operations of the code do not compute the number their name says:  *)
(* Faulty names each of these cases.  The steps below make them like any   *)
(* other and go on with the number the result stands for.                  *)
(***************************************************************************)
EXTENDS Integers, Sequences, FiniteSetsExt

CONSTANTS
  WordBits, NativeBits, ImmediateBits, NibbleBits,
  Numerals,      \* the strings a program writes its first two numbers with
  MaxWords,      \* bound on the words of the numbers computed with
  MaxFactorial,  \* bound on the numbers whose factorial is computed
  MaxSteps       \* bound on the primitives applied

ASSUME Widths ==
  /\ {WordBits, NativeBits, ImmediateBits, NibbleBits, MaxWords, MaxFactorial, MaxSteps}
       \subseteq Nat \ {0}
  /\ NativeBits = 2 * WordBits
  /\ WordBits + 1 < ImmediateBits /\ ImmediateBits < NativeBits
  /\ WordBits % NibbleBits = 0 /\ NibbleBits <= 4   \* DigitCharacter has 16 digits
  /\ 2 ^ (ImmediateBits - 1) > 36   \* the values of digits are immediates
ASSUME Strings == \A string \in Numerals : string \in Seq(STRING)

VARIABLES left, right, leftValue, rightValue, steps

ivars == <<left, right, leftValue, rightValue, steps>>

----------------------------------------------------------------------------
WordBase == 2 ^ WordBits
MinImmediate == - (2 ^ (ImmediateBits - 1))
MaxImmediate == 2 ^ (ImmediateBits - 1) - 1

\* Two's complement: the number v stands for in so many bits.
Wrapped(v, bits) == ((v + 2 ^ (bits - 1)) % (2 ^ bits)) - 2 ^ (bits - 1)

Immediate(v) == [kind |-> "immediate", value |-> v, words |-> <<>>]
Large(isNegative, words) ==
  [kind |-> IF isNegative THEN "largeNegative" ELSE "largePositive",
   value |-> 0, words |-> words]
\* A tuple that is no integer: the null tuple, or a word count taken for one.
Other == [kind |-> "other", value |-> 0, words |-> <<>>]

isImmediate(t) == t.kind = "immediate"
IsInteger(t) == t.kind # "other"

encodeSmall(v) == Immediate(Wrapped(v, ImmediateBits))

WordAt(words, i) == IF i \in DOMAIN words THEN words[i] ELSE 0
MaxOf(a, b) == IF a > b THEN a ELSE b

\* The number a tuple stands for.
Magnitude(words) ==
  LET from[i \in 1 .. Len(words) + 1] ==
        IF i > Len(words) THEN 0 ELSE words[i] + WordBase * from[i + 1]
  IN from[1]
Value(t) ==
  CASE t.kind = "immediate" -> t.value
    [] t.kind = "largePositive" -> Magnitude(t.words)
    [] t.kind = "largeNegative" -> - Magnitude(t.words)

decodeLargeOrImmediate(t) ==
  LET magnitude == IF t.value < 0 THEN - t.value ELSE t.value
      size == Max({1} \cup {i \in DOMAIN t.words : t.words[i] # 0})
  IN IF isImmediate(t)
     THEN [isNegative |-> t.value < 0,
           words |-> IF magnitude < WordBase THEN <<magnitude>>
                     ELSE <<magnitude % WordBase, magnitude \div WordBase>>]
     ELSE [isNegative |-> t.kind = "largeNegative",
           words |-> SubSeq(t.words, 1, size)]

----------------------------------------------------------------------------
(* The magnitudes.                                                         *)

compareMagnitudes(l, r) ==
  LET differing == {i \in DOMAIN l \cup DOMAIN r : WordAt(l, i) # WordAt(r, i)}
      top == Max(differing)
  IN CASE differing = {} -> 0
       [] differing # {} /\ WordAt(l, top) < WordAt(r, top) -> -1
       [] differing # {} /\ WordAt(l, top) > WordAt(r, top) -> 1

\* The carry into each word of the sum, and out of the last one.
Carries(l, r) ==
  LET count == MaxOf(Len(l), Len(r))
      carry[i \in 1 .. count + 1] ==
        IF i = 1 THEN 0
        ELSE (WordAt(l, i - 1) + WordAt(r, i - 1) + carry[i - 1]) \div WordBase
  IN carry

\* A plausible error: no carry out of the words both numbers have.
sumInto_dropsCarry(l, r) ==
  LET carry == Carries(l, r)
      count == MaxOf(Len(l), Len(r))
  IN [i \in 1 .. count |-> (WordAt(l, i) + WordAt(r, i) + carry[i]) % WordBase]

\* One word more when there is a carry out of the last.
sumInto(l, r) ==
  LET carry == Carries(l, r)
      count == MaxOf(Len(l), Len(r))
  IN [i \in 1 .. count + carry[count + 1] |->
        (WordAt(l, i) + WordAt(r, i) + carry[i]) % WordBase]

\* The words of l - r, as many as l has; l is not less than r.
subtractFromInto(l, r) ==
  LET borrow[i \in 1 .. Len(l)] ==
        IF i = 1 THEN 0
        ELSE (WordAt(l, i - 1) - WordAt(r, i - 1) + borrow[i - 1]) \div WordBase
  IN [i \in 1 .. Len(l) |-> (l[i] - WordAt(r, i) + borrow[i]) % WordBase]

multiplyByWordAddingInto(l, word, from, result) ==
  LET carry[i \in from .. Len(result)] ==
        IF i = from THEN 0
        ELSE (WordAt(l, i - from) * word + result[i - 1] + carry[i - 1]) \div WordBase
  IN [i \in 1 .. Len(result) |->
        IF i < from THEN result[i]
        ELSE (WordAt(l, i - from + 1) * word + result[i] + carry[i]) % WordBase]

multiplyInto(l, r) ==
  LET product[i \in 0 .. Len(r)] ==
        IF i = 0 THEN [k \in 1 .. Len(l) + Len(r) + 1 |-> 0]
        ELSE multiplyByWordAddingInto(l, r[i], i, product[i - 1])
  IN product[Len(r)]

----------------------------------------------------------------------------
\* The loop that should drop the words that are zero drops those that are not.
normalize(t) ==
  LET kept == Max({0} \cup {i \in DOMAIN t.words : t.words[i] = 0})
      value == t.words[1] + WordBase * t.words[2]
      isNegative == t.kind = "largeNegative"
  IN CASE kept = Len(t.words) -> t
       [] kept # Len(t.words) /\ kept = 0 -> Immediate(0)
       [] kept # Len(t.words) /\ kept \in 1 .. 2
            /\ value <= (IF isNegative THEN - MinImmediate ELSE MaxImmediate) ->
            Immediate(IF isNegative THEN - value ELSE value)
       \* The word count is returned in place of the object: 1 is the immediate 0.
       [] OTHER -> IF kept = 1 THEN Immediate(0) ELSE Other

encodeBigInt64(v) ==
  LET magnitude == IF v >= 0 THEN v ELSE - v
      words == <<v % WordBase, (v \div WordBase) % WordBase>>
  IN IF v \in MinImmediate .. MaxImmediate THEN Immediate(v)
     ELSE Large(v < 0, IF magnitude < WordBase THEN <<words[1]>> ELSE words)

encodeInt64(v) ==
  IF v \in MinImmediate .. MaxImmediate THEN encodeSmall(v) ELSE encodeBigInt64(v)

\* The difference of two magnitudes that are not equal, before it is normalized.
Difference(l, r) ==
  IF compareMagnitudes(l.words, r.words) > 0
  THEN Large(l.isNegative, subtractFromInto(l.words, r.words))
  ELSE Large(r.isNegative, subtractFromInto(r.words, l.words))

DifferenceOf(l, r) ==
  IF compareMagnitudes(l.words, r.words) = 0 THEN Immediate(0)
  ELSE normalize(Difference(l, r))

add(l, r) ==
  LET dl == decodeLargeOrImmediate(l)
      dr == decodeLargeOrImmediate(r)
  IN CASE isImmediate(l) /\ isImmediate(r) -> encodeInt64(l.value + r.value)
       [] ~(isImmediate(l) /\ isImmediate(r)) /\ dl.isNegative = dr.isNegative ->
            Large(dl.isNegative, sumInto(dl.words, dr.words))
       [] OTHER -> DifferenceOf(dl, dr)

subtract(l, r) ==
  LET dl == decodeLargeOrImmediate(l)
      dr == decodeLargeOrImmediate(r)
  IN CASE isImmediate(l) /\ isImmediate(r) -> encodeInt64(l.value - r.value)
       [] ~(isImmediate(l) /\ isImmediate(r)) /\ dl.isNegative = dr.isNegative ->
            DifferenceOf(dl, dr)
       [] OTHER -> Large(dl.isNegative, sumInto(dl.words, dr.words))

Negative(t) == [t EXCEPT !.kind = IF @ = "largePositive" THEN "largeNegative"
                                  ELSE "largePositive"]

negated(t) ==
  IF isImmediate(t) THEN encodeInt64(- t.value) ELSE normalize(Negative(t))

\* C rounds the quotient towards zero.
Quotient(a, b) ==
  LET magnitude == (IF a < 0 THEN - a ELSE a) \div (IF b < 0 THEN - b ELSE b)
  IN IF (a < 0) = (b < 0) THEN magnitude ELSE - magnitude

multiply(l, r) ==
  LET dl == decodeLargeOrImmediate(l)
      dr == decodeLargeOrImmediate(r)
      product == Wrapped(l.value * r.value, NativeBits)
  IN IF /\ isImmediate(l) /\ isImmediate(r)
        /\ l.value = 0 \/ r.value = 0 \/ l.value = Quotient(product, r.value)
     THEN encodeInt64(product)
     ELSE normalize(Large(dl.isNegative # dr.isNegative, multiplyInto(dl.words, dr.words)))

\* Only immediates are divided.
divide(l, r) ==
  IF isImmediate(l) /\ isImmediate(r) THEN encodeSmall(Quotient(l.value, r.value)) ELSE Other

remainder(l, r) ==
  IF isImmediate(l) /\ isImmediate(r)
  THEN encodeSmall(l.value - r.value * Quotient(l.value, r.value))
  ELSE Other

----------------------------------------------------------------------------
\* A plausible error: the larger magnitude is the larger number.
compare_ofMagnitudes(l, r) ==
  LET dl == decodeLargeOrImmediate(l)
      dr == decodeLargeOrImmediate(r)
  IN IF isImmediate(l) /\ isImmediate(r)
     THEN IF l.value < r.value THEN -1 ELSE IF l.value > r.value THEN 1 ELSE 0
     ELSE compareMagnitudes(dl.words, dr.words)

compare(l, r) ==
  LET dl == decodeLargeOrImmediate(l)
      dr == decodeLargeOrImmediate(r)
      magnitudes == compareMagnitudes(dl.words, dr.words)
  IN CASE isImmediate(l) /\ isImmediate(r) ->
            IF l.value < r.value THEN -1 ELSE IF l.value > r.value THEN 1 ELSE 0
       [] ~(isImmediate(l) /\ isImmediate(r)) /\ dl.isNegative # dr.isNegative ->
            IF dl.isNegative THEN -1 ELSE 1
       [] OTHER -> IF dl.isNegative THEN - magnitudes ELSE magnitudes

lessEquals(l, r) == compare(l, r) <= 0
greaterEquals(l, r) == compare(l, r) >= 0

\* The arguments of the nested calls, down to one that is at most 1, and their
\* products on the way back. What is no integer has no factorial.
factorial(t) ==
  LET one == encodeSmall(1)
      Last(n) == ~IsInteger(n) \/ lessEquals(n, one)
      argument[k \in 0 .. MaxFactorial] ==
        IF k = 0 THEN t
        ELSE IF Last(argument[k - 1]) THEN argument[k - 1]
        ELSE subtract(argument[k - 1], one)
      ends == {k \in 0 .. MaxFactorial : Last(argument[k])}
      depth == Min(ends)
      product[k \in 0 .. depth] ==
        IF k = 0 THEN one ELSE multiply(product[k - 1], argument[depth - k])
  IN IF ends = {} \/ ~IsInteger(argument[depth]) THEN Other ELSE product[depth]

----------------------------------------------------------------------------
(* The strings: sequences of characters.                                   *)

DigitCharacter == <<"0", "1", "2", "3", "4", "5", "6", "7", "8", "9", "A", "B",
                    "C", "D", "E", "F">>
LowerCharacter == <<"a", "b", "c", "d", "e", "f">>
PositionOf(c, seq) == CHOOSE i \in DOMAIN seq : seq[i] = c
CharactersOf(seq) == {seq[i] : i \in DOMAIN seq}
IsDecimalDigit(c) == c \in CharactersOf(SubSeq(DigitCharacter, 1, 10))

DigitValue(c) ==
  IF c \in CharactersOf(DigitCharacter) THEN PositionOf(c, DigitCharacter) - 1
  ELSE PositionOf(c, LowerCharacter) + 9

Raised == Other   \* sysbvm_error: no number is returned

\* One turn of the loop over the characters: the number and the radix read so far.
\* Both tests of the code for the radix are for the small letter.
AfterCharacter(read, c) ==
  LET isDigit == \/ IsDecimalDigit(c)
                 \/ /\ ~read.canParseRadix
                    /\ c \in CharactersOf(DigitCharacter) \cup CharactersOf(LowerCharacter)
      digitValue == encodeSmall(DigitValue(c))
      raised == [read EXCEPT !.result = Raised]
  IN CASE ~IsInteger(read.result) -> read
       [] IsInteger(read.result) /\ isDigit ->
            IF greaterEquals(digitValue, read.radix) THEN raised
            ELSE [read EXCEPT !.result = add(multiply(read.result, read.radix), digitValue)]
       [] IsInteger(read.result) /\ c = "_" -> read
       [] IsInteger(read.result) /\ read.canParseRadix /\ c = "r" ->
            [result |-> encodeSmall(0), radix |-> read.result, canParseRadix |-> FALSE]
       [] OTHER -> raised

ParsedFrom(string, first) ==
  LET read[i \in first - 1 .. Len(string)] ==
        IF i = first - 1
        THEN [result |-> encodeSmall(0), radix |-> encodeSmall(10), canParseRadix |-> TRUE]
        ELSE AfterCharacter(read[i - 1], string[i])
  IN read[Len(string)].result

Signed(result, sign) ==
  IF IsInteger(result) /\ sign = "-" THEN negated(result) ELSE result

parseString(string) ==
  LET hasSign == string # <<>> /\ string[1] \in {"+", "-"}
  IN Signed(ParsedFrom(string, IF hasSign THEN 2 ELSE 1),
            IF hasSign THEN string[1] ELSE "+")

DecimalDigits(v) ==
  LET digits[n \in 0 .. v] ==
        (IF n < 10 THEN <<>> ELSE digits[n \div 10]) \o <<DigitCharacter[(n % 10) + 1]>>
  IN digits[v]

\* A large integer is printed as a text that says it cannot be printed.
printString(t) ==
  CASE isImmediate(t) /\ t.value < 0 -> <<"-">> \o DecimalDigits(- t.value)
    [] isImmediate(t) /\ t.value >= 0 -> DecimalDigits(t.value)
    [] OTHER -> <<"TODO">>

toHexString(t) ==
  LET d == decodeLargeOrImmediate(t)
      perWord == WordBits \div NibbleBits
      nibble(i) == (d.words[(i \div perWord) + 1] \div (2 ^ (NibbleBits * (i % perWord))))
                   % (2 ^ NibbleBits)
      indices == 0 .. Len(d.words) * perWord - 1
      nibbleCount == Max({1} \cup {i + 1 : i \in {j \in indices : nibble(j) # 0}})
      digits == [i \in 1 .. nibbleCount |-> DigitCharacter[nibble(nibbleCount - i) + 1]]
  IN (IF d.isNegative THEN <<"-">> ELSE <<>>) \o digits

----------------------------------------------------------------------------
(* The primitives of the type Integer: each takes the number in the first  *)
(* register, and the second when it has an argument.                       *)

Primitives == {"+", "-", "*", "//", "%", "negated", "factorial"}

Primitive(name, l, r) ==
  CASE name = "+" -> add(l, r)
    [] name = "-" -> subtract(l, r)
    [] name = "*" -> multiply(l, r)
    [] name = "//" -> divide(l, r)
    [] name = "%" -> remainder(l, r)
    [] name = "negated" -> negated(l)
    [] name = "factorial" -> factorial(l)

ExactFactorial(n) == LET f[k \in 0 .. MaxOf(n, 0)] == IF k = 0 THEN 1 ELSE k * f[k - 1]
                     IN f[MaxOf(n, 0)]

\* The number a primitive is there to compute.
Exact(name, l, r) ==
  CASE name = "+" -> l + r
    [] name = "-" -> l - r
    [] name = "*" -> l * r
    [] name = "//" -> Quotient(l, r)
    [] name = "%" -> l - r * Quotient(l, r)
    [] name = "negated" -> - l
    [] name = "factorial" -> ExactFactorial(l)

\* normalize loses the words from the top down to the first that is zero. It reads the
\* two lowest words nevertheless, if one of them is kept, to make an immediate.
LosesWords(t) ==
  /\ ~isImmediate(t) /\ t.words[Len(t.words)] # 0
  /\ ~(Len(t.words) = 2 /\ t.words[1] = 0 /\ Value(t) \in MinImmediate .. MaxImmediate)

FaultyDifference(dl, dr) ==
  compareMagnitudes(dl.words, dr.words) # 0 /\ LosesWords(Difference(dl, dr))

(***************************************************************************)
(* The cases in which the code computes another number:                    *)
(*  - a result of immediates below the least immediate is stored as the    *)
(*    words of its two's complement under a negative sign, which are those *)
(*    of the magnitude for the least native integer only;                  *)
(*  - a difference, or the negative of a large integer, loses its highest  *)
(*    words when the highest of all is not zero, unless there are two and  *)
(*    they fit in an immediate whose lower word is zero;                   *)
(*  - a difference of two numbers of one sign has the sign of the second   *)
(*    when that is the larger;                                             *)
(*  - a large integer is not divided, and the least immediate divided by   *)
(*    -1 does not fit;                                                     *)
(*  - the factorial of a small number in a large integer subtracts from it. *)
(***************************************************************************)
Faulty(name, l, r) ==
  LET dl == decodeLargeOrImmediate(l)
      dr == decodeLargeOrImmediate(r)
      immediates == isImmediate(l) /\ isImmediate(r)
      sameSign == dl.isNegative = dr.isNegative
  IN CASE name \in {"+", "-", "*"} /\ immediates ->
            Exact(name, l.value, r.value) \in 1 - 2 ^ (NativeBits - 1) .. MinImmediate - 1
       [] name = "+" /\ ~immediates -> ~sameSign /\ FaultyDifference(dl, dr)
       [] name = "-" /\ ~immediates ->
            sameSign /\ (FaultyDifference(dl, dr) \/ compareMagnitudes(dl.words, dr.words) < 0)
       [] name \in {"//", "%"} -> ~immediates \/ Exact(name, l.value, r.value) > MaxImmediate
       [] name = "negated" -> ~isImmediate(l) /\ LosesWords(Negative(l))
       [] name = "factorial" -> ~isImmediate(l) /\ Value(l) > 1
       [] OTHER -> FALSE

----------------------------------------------------------------------------
IInit ==
  /\ steps = 0
  /\ \E l, r \in Numerals :
       /\ left = parseString(l) /\ right = parseString(r)
       /\ IsInteger(left) /\ IsInteger(right)
       /\ leftValue = Value(left) /\ rightValue = Value(right)

\* A division by zero, which the code does not test for, ends the process.
Compute(name) ==
  LET result == Primitive(name, left, right)
  IN /\ IsInteger(left) /\ steps < MaxSteps
     /\ steps' = steps + 1
     /\ name \in {"//", "%"} => right # Immediate(0)
     /\ name = "factorial" => leftValue <= MaxFactorial
     /\ Len(result.words) <= MaxWords
     /\ left' = result
     /\ leftValue' = CASE ~IsInteger(result) -> 0
                       [] IsInteger(result) /\ Faulty(name, left, right) -> Value(result)
                       [] OTHER -> Exact(name, leftValue, rightValue)
     /\ UNCHANGED <<right, rightValue>>

Swap ==
  /\ IsInteger(left) /\ steps < MaxSteps
  /\ UNCHANGED steps
  /\ left' = right /\ right' = left
  /\ leftValue' = rightValue /\ rightValue' = leftValue

INext == Swap \/ \E name \in Primitives : Compute(name)

ISpec == IInit /\ [][INext]_ivars

----------------------------------------------------------------------------
\* Outside the faulty cases a primitive of Integer computes its number, from
\* immediates and from large integers, with or without zero words at the top
\* that earlier results have left there.
IntegersAgree == IsInteger(left) => Value(left) = leftValue

\* -0: a product of zero and a negative large integer.
NegativeZero(t) == t.kind = "largeNegative" /\ Magnitude(t.words) = 0

Digits(string) == IF string[1] = "-" THEN Tail(string) ELSE string
RadixPrefix == DecimalDigits(2 ^ NibbleBits) \o <<"r">>

\* Two integers compare as their numbers do, whatever their representations,
\* and the digits an integer is printed with are those it is read from.
ComparesAndReadsBack ==
  IsInteger(left) =>
    /\ ~NegativeZero(left) /\ ~NegativeZero(right) =>
         compare(left, right) = compare(Immediate(leftValue), Immediate(rightValue))
    /\ Value(parseString(RadixPrefix \o Digits(toHexString(left))))
         = (IF leftValue < 0 THEN - leftValue ELSE leftValue)
    /\ toHexString(left)[1] = "-" <=> leftValue < 0 \/ NegativeZero(left)
    /\ isImmediate(left) => Value(parseString(printString(left))) = leftValue
=============================================================================
