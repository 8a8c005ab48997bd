----------------------- MODULE NativeUnwindingProofs ------------------------
(***************************************************************************)
(* The chain of stack records stays live, an unwinding finds its target on *)
(* it, and every clean-up runs once, for any types of exceptions, filters  *)
(* and depth of the C stack.                                               *)
(*                                                                         *)
(* What makes it last is that leaving a record of the chain leads back to  *)
(* a stack that is as sound as when the record was made: an exception      *)
(* that a clean-up of an unwinding signals may leave the frames of that    *)
(* unwinding, and the unwinding below them still finds its own target.     *)
(***************************************************************************)
EXTENDS NativeUnwinding, BoundedNumbers

\* The equation of the chains of a stack s.
Chains(s, g) ==
  g = [r \in 0 .. Len(s) |->
         IF r = 0 THEN {}
         ELSE {r} \cup IF s[r].previous < r THEN g[s[r].previous] ELSE {}]

From(s) == CHOOSE g : Chains(s, g)

\* The stacks whose records point down.
Stack == {s \in Seq(Frame) : \A i \in DOMAIN s : s[i].previous < i}

-----------------------------------------------------------------------------
(* The chains of a stack. *)

LEMMA ChainIsFrom == ASSUME NEW a PROVE Chain(a) = From(stack)[a]
BY DEF Chain, From, Chains, Top

\* Records point to frames of the stack.
LEMMA PreviousIsBelow ==
  ASSUME NEW s \in Stack
  PROVE  /\ Len(s) \in Nat
         /\ \A i \in 1 .. Len(s) : s[i] \in Frame /\ s[i].previous \in 0 .. i - 1
<1>1. s \in Seq(Frame) /\ \A i \in DOMAIN s : s[i].previous < i
  BY DEF Stack
<1>2. Len(s) \in Nat /\ DOMAIN s = 1 .. Len(s) /\ \A i \in 1 .. Len(s) : s[i] \in Frame
  BY <1>1
<1>3. \A i \in 1 .. Len(s) : s[i].previous \in 0 .. MaxDepth
  BY <1>2 DEF Frame
<1> QED
  BY <1>1, <1>2, <1>3, DepthAssumption

\* Chains up to the depth n of a stack, one for each depth up to n.
PartialChains(s, n) ==
  {g \in [0 .. n -> SUBSET Nat] :
     \A r \in 0 .. n : g[r] = IF r = 0 THEN {} ELSE {r} \cup g[s[r].previous]}

LEMMA PartialChainsExist ==
  ASSUME NEW s \in Stack
  PROVE  PartialChains(s, Len(s)) # {}
<1> DEFINE S == {k \in 0 .. Len(s) : PartialChains(s, k) # {}}
<1>1. Len(s) \in Nat /\ \A i \in 1 .. Len(s) : s[i].previous \in 0 .. i - 1
  BY PreviousIsBelow
<1>2. ASSUME NEW k \in 0 .. Len(s), \A j \in 0 .. k - 1 : j \in S PROVE k \in S
  <2>1. CASE k = 0
    <3>1. [r \in 0 .. 0 |-> {}] \in PartialChains(s, 0)
      BY DEF PartialChains
    <3> QED
      BY <3>1, <2>1
  <2>2. CASE k > 0
    <3>1. k - 1 \in S
      BY <1>2, <2>2
    <3>2. PICK g : g \in PartialChains(s, k - 1)
      BY <3>1
    <3> DEFINE h == [r \in 0 .. k |-> IF r = k THEN {k} \cup g[s[k].previous] ELSE g[r]]
    <3>3. g \in [0 .. k - 1 -> SUBSET Nat]
      BY <3>2 DEF PartialChains
    <3>4. \A r \in 0 .. k - 1 : g[r] = IF r = 0 THEN {} ELSE {r} \cup g[s[r].previous]
      BY <3>2 DEF PartialChains
    <3>5. s[k].previous \in 0 .. k - 1 /\ \A r \in 1 .. k - 1 : s[r].previous \in 0 .. k - 1
      BY <1>1, <2>2
    <3>6. h \in [0 .. k -> SUBSET Nat]
      BY <3>3, <3>5, <2>2
    <3>7. ASSUME NEW r \in 0 .. k PROVE h[r] = IF r = 0 THEN {} ELSE {r} \cup h[s[r].previous]
      <4>1. CASE r = k
        <5>1. h[k] = {k} \cup g[s[k].previous]
          OBVIOUS
        <5>2. h[s[k].previous] = g[s[k].previous]
          BY <3>5
        <5> QED
          BY <5>1, <5>2, <4>1, <2>2
      <4>2. CASE r # k
        <5>1. r \in 0 .. k - 1 /\ h[r] = g[r]
          BY <4>2
        <5>2. r # 0 => h[s[r].previous] = g[s[r].previous]
          BY <5>1, <3>5
        <5> QED
          BY <5>1, <5>2, <3>4
      <4> QED
        BY <4>1, <4>2
    <3>8. h \in PartialChains(s, k)
      BY <3>6, <3>7 DEF PartialChains
    <3> QED
      BY <3>8
  <2> QED
    BY <2>1, <2>2
<1>3. \A k \in 0 .. Len(s) : k \in S
  <2> HIDE DEF S
  <2> QED
    BY <1>1, <1>2, InductionBelow
<1> QED
  BY <1>1, <1>3

\* The chain at a record is the record, and the chain at the one it points to.
LEMMA ChainStep ==
  ASSUME NEW s \in Stack
  PROVE  /\ From(s)[0] = {}
         /\ \A a \in 1 .. Len(s) : From(s)[a] = {a} \cup From(s)[s[a].previous]
<1>1. Len(s) \in Nat /\ \A i \in 1 .. Len(s) : s[i].previous \in 0 .. i - 1
  BY PreviousIsBelow
<1>2. PICK g : g \in PartialChains(s, Len(s))
  BY PartialChainsExist
<1>3. g = [r \in 0 .. Len(s) |-> g[r]]
  BY <1>2 DEF PartialChains
<1>4. \A r \in 0 .. Len(s) :
        g[r] = IF r = 0 THEN {}
               ELSE {r} \cup IF s[r].previous < r THEN g[s[r].previous] ELSE {}
  BY <1>1, <1>2 DEF PartialChains
<1>5. Chains(s, g)
  BY <1>3, <1>4 DEF Chains
<1>6. Chains(s, From(s))
  BY <1>5 DEF From
<1>7. From(s) = [r \in 0 .. Len(s) |->
         IF r = 0 THEN {}
         ELSE {r} \cup IF s[r].previous < r THEN From(s)[s[r].previous] ELSE {}]
  BY <1>6 DEF Chains
<1>8. From(s)[0] = {}
  BY <1>7, <1>1
<1>9. ASSUME NEW a \in 1 .. Len(s) PROVE From(s)[a] = {a} \cup From(s)[s[a].previous]
  <2>1. a \in 0 .. Len(s) /\ a # 0 /\ s[a].previous < a
    BY <1>1
  <2> QED
    BY <1>7, <2>1
<1> QED
  BY <1>8, <1>9

\* A chain runs down: its records are at or below the one it starts from.
LEMMA ChainIsBelow ==
  ASSUME NEW s \in Stack, NEW a \in 0 .. Len(s), NEW r \in From(s)[a]
  PROVE  r \in 1 .. a
<1> DEFINE S == {k \in 0 .. Len(s) : From(s)[k] \subseteq 1 .. k}
<1>1. Len(s) \in Nat /\ \A i \in 1 .. Len(s) : s[i].previous \in 0 .. i - 1
  BY PreviousIsBelow
<1>2. ASSUME NEW k \in 0 .. Len(s), \A j \in 0 .. k - 1 : j \in S PROVE k \in S
  <2>1. CASE k = 0
    BY <2>1, ChainStep
  <2>2. CASE k > 0
    <3>1. From(s)[k] = {k} \cup From(s)[s[k].previous]
      BY <2>2, ChainStep
    <3>2. s[k].previous \in 0 .. k - 1
      BY <2>2, <1>1
    <3>3. From(s)[s[k].previous] \subseteq 1 .. s[k].previous
      BY <3>2, <1>2
    <3> QED
      BY <3>1, <3>2, <3>3, <2>2
  <2> QED
    BY <2>1, <2>2
<1>3. \A k \in 0 .. Len(s) : k \in S
  <2> HIDE DEF S
  <2> QED
    BY <1>1, <1>2, InductionBelow
<1> QED
  BY <1>3

\* The chain at a record of a chain is part of it.
LEMMA ChainIsClosed ==
  ASSUME NEW s \in Stack, NEW a \in 0 .. Len(s), NEW r \in From(s)[a]
  PROVE  From(s)[r] \subseteq From(s)[a]
<1> DEFINE S == {k \in 0 .. Len(s) : \A q \in From(s)[k] : From(s)[q] \subseteq From(s)[k]}
<1>1. Len(s) \in Nat /\ \A i \in 1 .. Len(s) : s[i].previous \in 0 .. i - 1
  BY PreviousIsBelow
<1>2. ASSUME NEW k \in 0 .. Len(s), \A j \in 0 .. k - 1 : j \in S PROVE k \in S
  <2>1. CASE k = 0
    BY <2>1, ChainStep
  <2>2. CASE k > 0
    <3>1. From(s)[k] = {k} \cup From(s)[s[k].previous]
      BY <2>2, ChainStep
    <3>2. s[k].previous \in S
      BY <2>2, <1>1, <1>2
    <3> QED
      BY <3>1, <3>2
  <2> QED
    BY <2>1, <2>2
<1>3. \A k \in 0 .. Len(s) : k \in S
  <2> HIDE DEF S
  <2> QED
    BY <1>1, <1>2, InductionBelow
<1> QED
  BY <1>3

\* A chain depends on the frames below the record it starts from, and on no other.
LEMMA ChainIsLocal ==
  ASSUME NEW s \in Stack, NEW t \in Stack, NEW n \in 0 .. Len(s), n <= Len(t),
         \A i \in 1 .. n : t[i].previous = s[i].previous,
         NEW a \in 0 .. n
  PROVE  From(t)[a] = From(s)[a]
<1> DEFINE S == {k \in 0 .. n : From(t)[k] = From(s)[k]}
<1>1. Len(s) \in Nat /\ Len(t) \in Nat /\ \A i \in 1 .. Len(s) : s[i].previous \in 0 .. i - 1
  BY PreviousIsBelow
<1>2. ASSUME NEW k \in 0 .. n, \A j \in 0 .. k - 1 : j \in S PROVE k \in S
  <2>1. CASE k = 0
    BY <2>1, ChainStep
  <2>2. CASE k > 0
    <3>1. /\ From(s)[k] = {k} \cup From(s)[s[k].previous]
          /\ From(t)[k] = {k} \cup From(t)[t[k].previous]
      BY <2>2, <1>1, ChainStep
    <3>2. s[k].previous \in S /\ t[k].previous = s[k].previous
      BY <2>2, <1>1, <1>2
    <3> QED
      BY <3>1, <3>2
  <2> QED
    BY <2>1, <2>2
<1>3. \A k \in 0 .. n : k \in S
  <2> HIDE DEF S
  <2>1. n \in Nat
    BY <1>1
  <2> QED
    BY <2>1, <1>2, InductionBelow
<1> QED
  BY <1>3

-----------------------------------------------------------------------------
(* What the frames up to depth n of a stack s promise the chain that starts *)
(* at record a.                                                             *)

\* Its records stand in the stack, and their clean-ups have not been started.
Live(s, a) ==
  \A r \in From(s)[a] : s[r].type \in {"OnDo", "CleanUp"} /\ s[r].started = 0

\* A clean-up that has not been started is still on it.
Pending(s, n, a) ==
  \A i \in 1 .. n : s[i].type = "CleanUp" /\ s[i].started = 0 => i \in From(s)[a]

Innermost(s, n, i) ==
  /\ i \in 1 .. n
  /\ s[i].type \in SignalFrames
  /\ \A j \in i + 1 .. n : s[j].type \notin SignalFrames

\* The handler of the innermost signal is on it.
Target(s, n, a) ==
  \A i \in 1 .. n : Innermost(s, n, i) =>
    s[i].handler \in From(s)[a] /\ s[s[i].handler].type = "OnDo"

\* It starts at the frame that runs, or where this one left the chain.
Start(s, n, a) ==
  n > 0 => /\ s[n].type \in {"OnDo", "CleanUp"} => a = n
           /\ s[n].type = "Ensured" => a = s[n].previous
           /\ s[n].type \in {"Walking", "CleaningUp"} => a = s[n].position

\* The records that have left it above a were made above a.
Gone(s, n, a) ==
  \A r \in a + 1 .. n : s[r].type \notin SignalFrames => s[r].previous >= a

Sound(s, n, a) ==
  /\ a \in 0 .. n
  /\ Live(s, a) /\ Pending(s, n, a) /\ Target(s, n, a) /\ Start(s, n, a) /\ Gone(s, n, a)

\* The chain is sound, and is so again when a clean-up above it ends.
Resumable(s, n, a) ==
  /\ Sound(s, n, a)
  /\ \A r \in a + 1 .. n : s[r].type = "Ensured" /\ s[r].previous = a => Sound(s, r - 1, a)

\* The same holds of what lies below each record of the chain.
ResumableBelow(s, a) == \A q \in From(s)[a] : Resumable(s, q - 1, s[q].previous)

\* There is an active handler record only while its exception block runs.
BlockOf(s, h) ==
  h # 0 => \E i \in 1 .. Len(s) :
             Innermost(s, Len(s), i) /\ s[i].type = "Block" /\ s[i].handler = h

StartedOnce(s) == \A i \in 1 .. Len(s) : s[i].started <= 1

NativeUnwindingInv ==
  /\ TypeOK
  /\ stack \in Stack
  /\ StartedOnce(stack)
  /\ BlockOf(stack, ActiveHandlerRecord)
  /\ Resumable(stack, Len(stack), LastActive)
  /\ ResumableBelow(stack, LastActive)

-----------------------------------------------------------------------------
(* These facts depend on the frames up to n, and on no other. *)

LEMMA SoundIsLocal ==
  ASSUME NEW s \in Stack, NEW t \in Stack, NEW n \in 0 .. Len(s), n <= Len(t),
         \A i \in 1 .. n : t[i] = s[i], NEW a, Sound(s, n, a)
  PROVE  Sound(t, n, a)
<1>1. a \in 0 .. n /\ n \in Nat /\ Len(s) \in Nat /\ Len(t) \in Nat
  BY PreviousIsBelow DEF Sound
<1>2. From(t)[a] = From(s)[a]
  BY <1>1, ChainIsLocal
<1>3. \A r \in From(s)[a] : r \in 1 .. n /\ t[r] = s[r]
  BY <1>1, ChainIsBelow
<1>4. Live(t, a)
  BY <1>2, <1>3 DEF Sound, Live
<1>5. Pending(t, n, a)
  BY <1>2 DEF Sound, Pending
<1>6. Target(t, n, a)
  <2>1. ASSUME NEW i \in 1 .. n, Innermost(t, n, i) PROVE Innermost(s, n, i)
    BY <2>1, <1>1 DEF Innermost
  <2> QED
    BY <2>1, <1>2, <1>3 DEF Sound, Target
<1>7. Start(t, n, a)
  BY <1>1 DEF Sound, Start
<1>8. Gone(t, n, a)
  BY <1>1 DEF Sound, Gone
<1> QED
  BY <1>1, <1>4, <1>5, <1>6, <1>7, <1>8 DEF Sound

LEMMA ResumableIsLocal ==
  ASSUME NEW s \in Stack, NEW t \in Stack, NEW n \in 0 .. Len(s), n <= Len(t),
         \A i \in 1 .. n : t[i] = s[i], NEW a, Resumable(s, n, a)
  PROVE  Resumable(t, n, a)
<1>1. a \in 0 .. n /\ n \in Nat /\ Len(s) \in Nat /\ Len(t) \in Nat
  BY PreviousIsBelow DEF Resumable, Sound
<1>2. Sound(t, n, a)
  BY SoundIsLocal DEF Resumable
<1>3. ASSUME NEW r \in a + 1 .. n, t[r].type = "Ensured" /\ t[r].previous = a
      PROVE  Sound(t, r - 1, a)
  <2>1. t[r] = s[r] /\ r - 1 \in 0 .. Len(s) /\ r - 1 <= Len(t) /\ r - 1 <= n
    BY <1>1
  <2>2. Sound(s, r - 1, a)
    BY <2>1, <1>3 DEF Resumable
  <2>3. \A i \in 1 .. r - 1 : t[i] = s[i]
    BY <1>1
  <2> QED
    BY <2>1, <2>2, <2>3, SoundIsLocal
<1> QED
  BY <1>2, <1>3 DEF Resumable

LEMMA ResumableBelowIsLocal ==
  ASSUME NEW s \in Stack, NEW t \in Stack, NEW n \in 0 .. Len(s), n <= Len(t),
         \A i \in 1 .. n : t[i] = s[i], NEW a \in 0 .. n, ResumableBelow(s, a)
  PROVE  ResumableBelow(t, a)
<1>1. n \in Nat /\ Len(s) \in Nat /\ Len(t) \in Nat
  BY PreviousIsBelow
<1>2. From(t)[a] = From(s)[a]
  BY ChainIsLocal
<1>3. ASSUME NEW q \in From(t)[a] PROVE Resumable(t, q - 1, t[q].previous)
  <2>1. q \in From(s)[a] /\ q \in 1 .. n
    BY <1>1, <1>2, <1>3, ChainIsBelow
  <2>2. Resumable(s, q - 1, s[q].previous) /\ t[q] = s[q]
    BY <2>1 DEF ResumableBelow
  <2>3. q - 1 \in 0 .. Len(s) /\ q - 1 <= Len(t) /\ \A i \in 1 .. q - 1 : t[i] = s[i]
    BY <2>1, <1>1
  <2> QED
    BY <2>2, <2>3, ResumableIsLocal
<1> QED
  BY <1>3 DEF ResumableBelow

\* What holds below each record of a chain holds below the records of a part of it.
LEMMA ResumableBelowPart ==
  ASSUME NEW s \in Stack, NEW a \in 0 .. Len(s), ResumableBelow(s, a), NEW q \in From(s)[a]
  PROVE  /\ ResumableBelow(s, q)
         /\ s[q].previous \in 0 .. q - 1
         /\ From(s)[s[q].previous] \subseteq From(s)[a]
         /\ ResumableBelow(s, s[q].previous)
<1>1. Len(s) \in Nat /\ q \in 1 .. Len(s) /\ s[q].previous \in 0 .. q - 1
  BY PreviousIsBelow, ChainIsBelow
<1>2. From(s)[q] \subseteq From(s)[a]
  BY ChainIsClosed
<1>3. From(s)[q] = {q} \cup From(s)[s[q].previous]
  BY <1>1, ChainStep
<1> QED
  BY <1>1, <1>2, <1>3 DEF ResumableBelow

-----------------------------------------------------------------------------
(* The three ways in which the stack changes. *)

LEMMA Pushed ==
  ASSUME NEW s \in Stack, NEW f \in Frame, f.previous <= Len(s)
  PROVE  /\ Append(s, f) \in Stack /\ Len(Append(s, f)) = Len(s) + 1
         /\ \A i \in 1 .. Len(s) : Append(s, f)[i] = s[i]
         /\ Append(s, f)[Len(s) + 1] = f
<1> DEFINE t == Append(s, f)
<1>1. s \in Seq(Frame) /\ \A i \in 1 .. Len(s) : s[i].previous < i
  BY DEF Stack
<1>2. /\ t \in Seq(Frame) /\ Len(t) = Len(s) + 1 /\ DOMAIN t = 1 .. Len(s) + 1
      /\ \A i \in 1 .. Len(s) : t[i] = s[i]
      /\ t[Len(s) + 1] = f
  BY <1>1
<1>3. ASSUME NEW i \in DOMAIN t PROVE t[i].previous < i
  <2>1. f.previous \in 0 .. MaxDepth /\ Len(s) \in Nat
    BY <1>1 DEF Frame
  <2>2. CASE i = Len(s) + 1
    BY <2>1, <2>2, <1>2, DepthAssumption
  <2>3. CASE i # Len(s) + 1
    <3>1. i \in 1 .. Len(s)
      BY <2>1, <2>3, <1>2
    <3> QED
      BY <3>1, <1>1, <1>2
  <2> QED
    BY <2>2, <2>3
<1> HIDE DEF t
<1>4. t \in Stack
  BY <1>2, <1>3 DEF Stack
<1> QED
  BY <1>2, <1>4 DEF t

LEMMA CutBack ==
  ASSUME NEW s \in Stack, NEW q \in 1 .. Len(s)
  PROVE  /\ SubSeq(s, 1, q - 1) \in Stack /\ Len(SubSeq(s, 1, q - 1)) = q - 1
         /\ \A i \in 1 .. q - 1 : SubSeq(s, 1, q - 1)[i] = s[i]
<1> DEFINE t == SubSeq(s, 1, q - 1)
<1>1. s \in Seq(Frame) /\ Len(s) \in Nat /\ \A i \in 1 .. Len(s) : s[i].previous < i
  BY DEF Stack
<1>2. /\ t \in Seq(Frame) /\ Len(t) = q - 1 /\ DOMAIN t = 1 .. q - 1
      /\ \A i \in 1 .. q - 1 : t[i] = s[i]
  BY <1>1
<1> HIDE DEF t
<1>3. t \in Stack
  BY <1>1, <1>2 DEF Stack
<1> QED
  BY <1>2, <1>3 DEF t

LEMMA Changed ==
  ASSUME NEW s \in Stack, NEW t \in Seq(Frame), Len(t) = Len(s),
         \A i \in 1 .. Len(s) : t[i].previous = s[i].previous
  PROVE  t \in Stack /\ \A a \in 0 .. Len(s) : From(t)[a] = From(s)[a]
<1>1. s \in Seq(Frame) /\ Len(s) \in Nat /\ \A i \in 1 .. Len(s) : s[i].previous < i
  BY DEF Stack
<1>2. t \in Stack
  BY <1>1 DEF Stack
<1> QED
  BY <1>1, <1>2, ChainIsLocal

LEMMA Replaced ==
  ASSUME NEW s \in Stack, NEW n \in 1 .. Len(s), NEW f \in Frame, f.previous = s[n].previous,
         NEW t \in Seq(Frame), Len(t) = Len(s), t[n] = f,
         \A i \in 1 .. Len(s) : i # n => t[i] = s[i]
  PROVE  t \in Stack /\ \A a \in 0 .. Len(s) : From(t)[a] = From(s)[a]
<1>1. \A i \in 1 .. Len(s) : t[i].previous = s[i].previous
  OBVIOUS
<1> QED
  BY <1>1, Changed

\* Returning to the frame below a record of the chain.
LEMMA CutAtRecord ==
  ASSUME NEW s \in Stack, NEW a \in 0 .. Len(s), ResumableBelow(s, a),
         NEW q \in From(s)[a], NEW t, t = SubSeq(s, 1, q - 1)
  PROVE  /\ t \in Stack /\ Len(t) = q - 1
         /\ q \in 1 .. Len(s) /\ \A i \in 1 .. q - 1 : t[i] = s[i]
         /\ s[q].previous \in 0 .. q - 1
         /\ Resumable(t, Len(t), s[q].previous)
         /\ ResumableBelow(t, s[q].previous)
<1>1. Len(s) \in Nat /\ q \in 1 .. Len(s) /\ s[q].previous \in 0 .. q - 1
  BY PreviousIsBelow, ChainIsBelow
<1>2. t \in Stack /\ Len(t) = q - 1 /\ \A i \in 1 .. q - 1 : t[i] = s[i]
  BY <1>1, CutBack
<1>3. Resumable(s, q - 1, s[q].previous)
  BY DEF ResumableBelow
<1>4. q - 1 \in 0 .. Len(s) /\ q - 1 <= Len(t)
  BY <1>1, <1>2
<1>5. Resumable(t, q - 1, s[q].previous)
  BY <1>2, <1>3, <1>4, ResumableIsLocal
<1>6. ResumableBelow(s, s[q].previous)
  BY ResumableBelowPart
<1>7. ResumableBelow(t, s[q].previous)
  BY <1>1, <1>2, <1>4, <1>6, ResumableBelowIsLocal
<1> QED
  BY <1>1, <1>2, <1>5, <1>7

-----------------------------------------------------------------------------
(* One lemma for each action. *)

LEMMA InvFacts ==
  ASSUME NativeUnwindingInv
  PROVE  /\ stack \in Stack /\ stack \in Seq(Frame) /\ Len(stack) \in Nat
         /\ Len(stack) <= MaxDepth /\ MaxDepth \in Nat
         /\ LastActive \in 0 .. Len(stack)
         /\ Sound(stack, Len(stack), LastActive)
         /\ \A i \in 1 .. Len(stack) : stack[i] \in Frame /\ stack[i].previous \in 0 .. i - 1
BY PreviousIsBelow, DepthAssumption DEF NativeUnwindingInv, TypeOK, Resumable, Sound

LEMMA PushRecordKeeps ==
  ASSUME NativeUnwindingInv, NEW frame \in Frame, frame.type \in {"OnDo", "CleanUp"},
         frame.started = 0, PushRecord(frame)
  PROVE  NativeUnwindingInv'
<1> DEFINE n == Len(stack)
           f == [frame EXCEPT !.previous = LastActive]
<1>1. /\ n \in Nat /\ n + 1 <= MaxDepth /\ MaxDepth \in Nat /\ LastActive \in 0 .. n
      /\ stack \in Stack /\ LastActive' = n + 1 /\ stack' = Append(stack, f)
      /\ UNCHANGED <<ActiveHandlerRecord, aborted>>
  BY InvFacts DEF PushRecord, Top
<1>2. /\ f \in Frame /\ f.previous = LastActive /\ f.type \in {"OnDo", "CleanUp"}
      /\ f.started = 0
  BY <1>1 DEF Frame
<1>3. /\ stack' \in Stack /\ Len(stack') = n + 1
      /\ \A i \in 1 .. n : stack'[i] = stack[i]
      /\ stack'[n + 1] = f
  <2> HIDE DEF f
  <2> QED
    BY <1>1, <1>2, Pushed
<1> HIDE DEF f
<1>4. Resumable(stack, n, LastActive) /\ ResumableBelow(stack, LastActive)
  BY DEF NativeUnwindingInv
<1>5. Resumable(stack', n, LastActive) /\ ResumableBelow(stack', LastActive)
  <2>1. n \in 0 .. Len(stack) /\ n <= Len(stack') /\ LastActive \in 0 .. n
    BY <1>1, <1>3
  <2>2. \A i \in 1 .. n : stack'[i] = stack[i]
    BY <1>3
  <2>3. Resumable(stack', n, LastActive)
    <3> HIDE DEF n
    <3> QED
      BY <2>1, <2>2, <1>1, <1>3, <1>4, ResumableIsLocal
  <2>4. ResumableBelow(stack', LastActive)
    <3> HIDE DEF n
    <3> QED
      BY <2>1, <2>2, <1>1, <1>3, <1>4, ResumableBelowIsLocal
  <2> QED
    BY <2>3, <2>4
<1>6. From(stack')[n + 1] = {n + 1} \cup From(stack')[LastActive]
  <2>1. n + 1 \in 1 .. Len(stack') /\ stack'[n + 1].previous = LastActive
    BY <1>1, <1>2, <1>3
  <2> QED
    BY <2>1, <1>3, ChainStep
<1>7. TypeOK'
  BY <1>1, <1>3 DEF NativeUnwindingInv, TypeOK, Stack
<1>8. StartedOnce(stack')
  <2>1. ASSUME NEW i \in 1 .. n + 1 PROVE stack'[i].started <= 1
    <3>1. CASE i = n + 1
      BY <3>1, <1>2, <1>3
    <3>2. CASE i # n + 1
      <4>1. i \in 1 .. n
        BY <3>2, <1>1
      <4> QED
        BY <4>1, <1>3 DEF NativeUnwindingInv, StartedOnce
    <3> QED
      BY <3>1, <3>2
  <2> QED
    BY <2>1, <1>3 DEF StartedOnce
<1>9. \A i \in 1 .. n + 1 : Innermost(stack', n + 1, i) <=> i \in 1 .. n /\ Innermost(stack, n, i)
  BY <1>1, <1>2, <1>3 DEF Innermost, SignalFrames
<1>10. BlockOf(stack', ActiveHandlerRecord')
  <2>1. CASE ActiveHandlerRecord = 0
    BY <2>1, <1>1 DEF BlockOf
  <2>2. CASE ActiveHandlerRecord # 0
    <3>1. PICK i \in 1 .. n :
            Innermost(stack, n, i) /\ stack[i].type = "Block" /\ stack[i].handler = ActiveHandlerRecord
      BY <2>2 DEF NativeUnwindingInv, BlockOf
    <3> QED
      BY <3>1, <1>1, <1>3, <1>9 DEF BlockOf
  <2> QED
    BY <2>1, <2>2
<1>11. Sound(stack', n + 1, n + 1)
  <2>1. Sound(stack', n, LastActive)
    BY <1>5 DEF Resumable
  <2>2. Live(stack', n + 1)
    BY <2>1, <1>2, <1>3, <1>6 DEF Sound, Live
  <2>3. Pending(stack', n + 1, n + 1)
    BY <2>1, <1>1, <1>6 DEF Sound, Pending
  <2>4. Target(stack', n + 1, n + 1)
    <3>1. ASSUME NEW i \in 1 .. n + 1, Innermost(stack', n + 1, i)
          PROVE  i \in 1 .. n /\ Innermost(stack', n, i)
      BY <3>1, <1>1, <1>2, <1>3 DEF Innermost, SignalFrames
    <3> QED
      BY <2>1, <3>1, <1>6 DEF Sound, Target
  <2>5. Start(stack', n + 1, n + 1)
    BY <1>2, <1>3 DEF Start
  <2>6. Gone(stack', n + 1, n + 1)
    BY <1>1 DEF Gone
  <2> QED
    BY <1>1, <2>2, <2>3, <2>4, <2>5, <2>6 DEF Sound
<1>12. Resumable(stack', n + 1, n + 1)
  BY <1>1, <1>11 DEF Resumable
<1>13. ResumableBelow(stack', n + 1)
  <2>1. ASSUME NEW q \in From(stack')[n + 1] PROVE Resumable(stack', q - 1, stack'[q].previous)
    <3>1. CASE q = n + 1
      BY <3>1, <1>1, <1>2, <1>3, <1>5
    <3>2. CASE q \in From(stack')[LastActive]
      BY <3>2, <1>5 DEF ResumableBelow
    <3> QED
      BY <3>1, <3>2, <1>6
  <2> QED
    BY <2>1 DEF ResumableBelow
<1> QED
  BY <1>1, <1>3, <1>7, <1>8, <1>10, <1>12, <1>13 DEF NativeUnwindingInv

\* Leaving the frame on top, which is no signal, leaves the active handler record.
LEMMA BlockOfRest ==
  ASSUME NEW s \in Stack, NEW t \in Stack, Len(s) > 0, Len(t) = Len(s) - 1,
         \A i \in 1 .. Len(t) : t[i] = s[i],
         s[Len(s)].type \notin SignalFrames, NEW h, BlockOf(s, h)
  PROVE  BlockOf(t, h)
<1> DEFINE n == Len(s)
<1>1. n \in Nat
  BY PreviousIsBelow
<1> SUFFICES ASSUME h # 0
             PROVE  \E i \in 1 .. n - 1 :
                      Innermost(t, n - 1, i) /\ t[i].type = "Block" /\ t[i].handler = h
  BY DEF BlockOf
<1>2. PICK i \in 1 .. n : Innermost(s, n, i) /\ s[i].type = "Block" /\ s[i].handler = h
  BY DEF BlockOf
<1>3. i \in 1 .. n - 1
  BY <1>1, <1>2 DEF SignalFrames
<1>4. t[i] = s[i] /\ Innermost(t, n - 1, i)
  BY <1>1, <1>2, <1>3 DEF Innermost
<1> QED
  BY <1>2, <1>3, <1>4

LEMMA StartedOnceBelow ==
  ASSUME NEW s \in Stack, NEW t \in Stack, Len(t) <= Len(s), \A i \in 1 .. Len(t) : t[i] = s[i],
         StartedOnce(s)
  PROVE  StartedOnce(t)
BY PreviousIsBelow DEF StartedOnce

LEMMA OnDoBodyEndsKeeps ==
  ASSUME NativeUnwindingInv, OnDoBodyEnds
  PROVE  NativeUnwindingInv'
<1> DEFINE n == Len(stack)
<1>1. /\ n = Len(stack) /\ n \in Nat /\ n > 0 /\ n <= MaxDepth /\ MaxDepth \in Nat
      /\ stack \in Stack /\ stack[n].type = "OnDo"
      /\ stack' = SubSeq(stack, 1, n - 1) /\ LastActive' = stack[n].previous
      /\ UNCHANGED <<ActiveHandlerRecord, aborted>>
  BY InvFacts DEF OnDoBodyEnds, Running, Top
<1> HIDE DEF n
<1>2. LastActive = n
  BY <1>1, InvFacts DEF Sound, Start
<1>3. n \in From(stack)[LastActive]
  BY <1>1, <1>2, ChainStep
<1>4. ResumableBelow(stack, LastActive) /\ LastActive \in 0 .. Len(stack)
  BY <1>1, <1>2 DEF NativeUnwindingInv
<1>5. /\ stack' \in Stack /\ Len(stack') = n - 1 /\ \A i \in 1 .. n - 1 : stack'[i] = stack[i]
      /\ LastActive' \in 0 .. n - 1
      /\ Resumable(stack', Len(stack'), LastActive') /\ ResumableBelow(stack', LastActive')
  BY <1>1, <1>3, <1>4, CutAtRecord
<1>6. TypeOK'
  BY <1>1, <1>5 DEF NativeUnwindingInv, TypeOK, Stack
<1>7. BlockOf(stack', ActiveHandlerRecord')
  <2>1. BlockOf(stack, ActiveHandlerRecord) /\ stack[n].type \notin SignalFrames
    BY <1>1 DEF NativeUnwindingInv, SignalFrames
  <2> QED
    BY <2>1, <1>1, <1>5, BlockOfRest
<1>8. StartedOnce(stack')
  <2>1. StartedOnce(stack) /\ Len(stack') <= Len(stack)
    BY <1>1, <1>5 DEF NativeUnwindingInv
  <2> QED
    BY <2>1, <1>1, <1>5, StartedOnceBelow
<1> QED
  BY <1>5, <1>6, <1>7, <1>8 DEF NativeUnwindingInv

LEMMA EnsureEndsKeeps ==
  ASSUME NativeUnwindingInv, EnsureEnds
  PROVE  NativeUnwindingInv'
<1> DEFINE n == Len(stack)
<1>1. /\ n = Len(stack) /\ n \in Nat /\ n > 0 /\ n <= MaxDepth /\ MaxDepth \in Nat
      /\ stack \in Stack /\ stack[n].type = "Ensured"
      /\ stack' = SubSeq(stack, 1, n - 1)
      /\ UNCHANGED <<LastActive, ActiveHandlerRecord, aborted>>
  BY InvFacts DEF EnsureEnds, Running, Top
<1> HIDE DEF n
<1>2. LastActive = stack[n].previous /\ LastActive \in 0 .. n - 1
  BY <1>1, InvFacts DEF Sound, Start
<1>3. Resumable(stack, n, LastActive) /\ ResumableBelow(stack, LastActive)
  BY <1>1 DEF NativeUnwindingInv
<1>4. Sound(stack, n - 1, LastActive)
  BY <1>1, <1>2, <1>3 DEF Resumable
<1>5. Resumable(stack, n - 1, LastActive)
  BY <1>1, <1>2, <1>3, <1>4 DEF Resumable
<1>6. stack' \in Stack /\ Len(stack') = n - 1 /\ \A i \in 1 .. n - 1 : stack'[i] = stack[i]
  BY <1>1, CutBack
<1>7. n - 1 \in 0 .. Len(stack) /\ n - 1 <= Len(stack')
  BY <1>1, <1>6
<1>8. Resumable(stack', n - 1, LastActive)
  BY <1>1, <1>5, <1>6, <1>7, ResumableIsLocal
<1>9. ResumableBelow(stack', LastActive)
  <2>1. stack \in Stack
    BY <1>1
  <2> QED
    BY <2>1, <1>2, <1>3, <1>6, <1>7, ResumableBelowIsLocal
<1>10. TypeOK'
  BY <1>1, <1>6 DEF NativeUnwindingInv, TypeOK, Stack
<1>11. BlockOf(stack', ActiveHandlerRecord')
  <2>1. BlockOf(stack, ActiveHandlerRecord) /\ stack[n].type \notin SignalFrames
    BY <1>1 DEF NativeUnwindingInv, SignalFrames
  <2> QED
    BY <2>1, <1>1, <1>6, BlockOfRest
<1>12. StartedOnce(stack')
  <2>1. StartedOnce(stack) /\ Len(stack') <= Len(stack)
    BY <1>1, <1>6 DEF NativeUnwindingInv
  <2> QED
    BY <2>1, <1>1, <1>6, StartedOnceBelow
<1> QED
  BY <1>1, <1>6, <1>8, <1>9, <1>10, <1>11, <1>12 DEF NativeUnwindingInv

LEMMA FrameUpdates ==
  ASSUME NEW g \in Frame
  PROVE  /\ \A type \in FrameType : [g EXCEPT !.type = type] \in Frame
         /\ \A k \in 0 .. 2 : [g EXCEPT !.started = k] \in Frame
         /\ \A a \in 0 .. MaxDepth : [g EXCEPT !.position = a] \in Frame
BY DEF Frame

LEMMA EnsureBodyEndsKeeps ==
  ASSUME NativeUnwindingInv, EnsureBodyEnds
  PROVE  NativeUnwindingInv'
<1> DEFINE n == Len(stack)
           p == stack[n].previous
           e == [stack[n] EXCEPT !.type = "Ensured"]
           f == [e EXCEPT !.started = @ + 1]
<1>1. /\ n = Len(stack) /\ n \in Nat /\ n > 0 /\ n <= MaxDepth /\ MaxDepth \in Nat
      /\ stack \in Stack /\ stack[n] \in Frame /\ stack[n].type = "CleanUp"
      /\ LastActive' = p /\ p \in 0 .. n - 1
      /\ UNCHANGED <<ActiveHandlerRecord, aborted>>
  BY InvFacts DEF EnsureBodyEnds, Running, Top
<1>2. LastActive = n
  BY <1>1, InvFacts DEF Sound, Start
<1>3. From(stack)[n] = {n} \cup From(stack)[p]
  BY <1>1, ChainStep
<1>4. stack[n].started = 0
  BY <1>2, <1>3, InvFacts DEF Sound, Live
<1>5. stack' = [stack EXCEPT ![n] = f]
  BY <1>1, InvFacts DEF EnsureBodyEnds, Top
<1>6. f \in Frame /\ f.type = "Ensured" /\ f.started = 1 /\ f.previous = p
  <2>1. e \in Frame
    <3>1. stack[n] \in Frame /\ "Ensured" \in FrameType
      BY <1>1 DEF FrameType
    <3> QED
      BY <3>1, FrameUpdates
  <2>2. e.type = "Ensured" /\ e.started = 0 /\ e.previous = p
    BY <1>1, <1>4 DEF Frame
  <2> HIDE DEF e
  <2>3. f = [e EXCEPT !.started = 1]
    BY <2>2
  <2>4. [e EXCEPT !.started = 1] \in Frame
    <3>1. 1 \in 0 .. 2
      OBVIOUS
    <3> QED
      BY <2>1, <3>1, FrameUpdates
  <2>5. [e EXCEPT !.started = 1].previous = p /\ [e EXCEPT !.started = 1].type = "Ensured"
    BY <2>1, <2>2 DEF Frame
  <2>6. [e EXCEPT !.started = 1].started = 1
    BY <2>1 DEF Frame
  <2> HIDE DEF f
  <2> QED
    BY <2>3, <2>4, <2>5, <2>6
<1> HIDE DEF f, n
<1>7. /\ stack' \in Stack /\ Len(stack') = n /\ \A i \in 1 .. n - 1 : stack'[i] = stack[i]
      /\ stack'[n] = f
  <2>1. stack \in Stack /\ n \in 1 .. Len(stack) /\ f.previous = stack[n].previous
    BY <1>1, <1>6
  <2>2. /\ stack' \in Seq(Frame) /\ Len(stack') = Len(stack) /\ stack'[n] = f
        /\ \A i \in 1 .. Len(stack) : i # n => stack'[i] = stack[i]
    BY <2>1, <1>5, <1>6 DEF Stack
  <2>3. stack' \in Stack
    BY <2>1, <2>2, <1>6, Replaced
  <2> QED
    BY <2>1, <2>2, <2>3, <1>1
<1>8. ResumableBelow(stack, LastActive) /\ LastActive \in 0 .. Len(stack)
  BY InvFacts DEF NativeUnwindingInv
<1>9. Resumable(stack, n - 1, p) /\ ResumableBelow(stack, p)
  BY <1>1, <1>2, <1>3, <1>8, ResumableBelowPart DEF ResumableBelow
<1> HIDE DEF p
<1>10. n - 1 \in 0 .. Len(stack) /\ n - 1 <= Len(stack') /\ p \in 0 .. n - 1
  BY <1>1, <1>7
<1>11. Resumable(stack', n - 1, p)
  BY <1>1, <1>7, <1>9, <1>10, ResumableIsLocal
<1>12. ResumableBelow(stack', p)
  BY <1>1, <1>7, <1>9, <1>10, ResumableBelowIsLocal
<1>13. Sound(stack', n, p)
  <2>1. Sound(stack', n - 1, p)
    BY <1>11 DEF Resumable
  <2>2. Pending(stack', n, p)
    BY <2>1, <1>1, <1>6, <1>7 DEF Sound, Pending
  <2>3. Target(stack', n, p)
    <3>1. ASSUME NEW i \in 1 .. n, Innermost(stack', n, i)
          PROVE  i \in 1 .. n - 1 /\ Innermost(stack', n - 1, i)
      BY <3>1, <1>1, <1>6, <1>7 DEF Innermost, SignalFrames
    <3> QED
      BY <2>1, <3>1 DEF Sound, Target
  <2>4. Start(stack', n, p)
    BY <1>6, <1>7 DEF Start
  <2>5. Gone(stack', n, p)
    BY <2>1, <1>1, <1>6, <1>7 DEF Sound, Gone
  <2> QED
    BY <2>1, <2>2, <2>3, <2>4, <2>5, <1>1 DEF Sound
<1>14. Resumable(stack', n, p)
  BY <1>1, <1>6, <1>7, <1>11, <1>13 DEF Resumable
<1>15. TypeOK'
  BY <1>1, <1>7, <1>10 DEF NativeUnwindingInv, TypeOK, Stack
<1>16. StartedOnce(stack')
  BY <1>1, <1>6, <1>7 DEF NativeUnwindingInv, StartedOnce
<1>17. BlockOf(stack', ActiveHandlerRecord')
  <2>1. CASE ActiveHandlerRecord = 0
    BY <2>1, <1>1 DEF BlockOf
  <2>2. CASE ActiveHandlerRecord # 0
    <3>1. PICK i \in 1 .. n :
            Innermost(stack, n, i) /\ stack[i].type = "Block" /\ stack[i].handler = ActiveHandlerRecord
      BY <2>2, <1>1 DEF NativeUnwindingInv, BlockOf
    <3>2. i \in 1 .. n - 1
      BY <3>1, <1>1
    <3>3. Innermost(stack', n, i) /\ stack'[i] = stack[i]
      BY <3>1, <3>2, <1>1, <1>6, <1>7 DEF Innermost, SignalFrames
    <3> QED
      BY <3>1, <3>3, <1>1, <1>7 DEF BlockOf
  <2> QED
    BY <2>1, <2>2
<1> QED
  BY <1>1, <1>7, <1>12, <1>14, <1>15, <1>16, <1>17 DEF NativeUnwindingInv

\* signal looks for its handler on the chain.
LEMMA HandlerIsOnChain ==
  ASSUME NativeUnwindingInv, NEW e \in ExceptionType, findHandlerRecordFor(e) # 0
  PROVE  /\ findHandlerRecordFor(e) \in From(stack)[LastActive]
         /\ findHandlerRecordFor(e) \in 1 .. Len(stack)
         /\ stack[findHandlerRecordFor(e)].type = "OnDo"
<1> DEFINE n == Len(stack)
           start == IF ActiveHandlerRecord = 0 THEN LastActive
                    ELSE stack[ActiveHandlerRecord].previous
<1>1. /\ n \in Nat /\ stack \in Stack /\ LastActive \in 0 .. n
      /\ ResumableBelow(stack, LastActive) /\ BlockOf(stack, ActiveHandlerRecord)
      /\ Target(stack, n, LastActive)
  BY InvFacts DEF NativeUnwindingInv, Sound
<1>2. start \in 0 .. n /\ From(stack)[start] \subseteq From(stack)[LastActive]
  <2>1. CASE ActiveHandlerRecord = 0
    BY <2>1, <1>1
  <2>2. CASE ActiveHandlerRecord # 0
    <3>1. PICK i \in 1 .. n : Innermost(stack, n, i) /\ stack[i].handler = ActiveHandlerRecord
      BY <2>2, <1>1 DEF BlockOf
    <3>2. ActiveHandlerRecord \in From(stack)[LastActive]
      BY <3>1, <1>1 DEF Target
    <3>3. ActiveHandlerRecord \in 1 .. LastActive
      BY <3>2, <1>1, ChainIsBelow
    <3>4. /\ stack[ActiveHandlerRecord].previous \in 0 .. ActiveHandlerRecord - 1
          /\ From(stack)[stack[ActiveHandlerRecord].previous] \subseteq From(stack)[LastActive]
      BY <3>2, <1>1, ResumableBelowPart
    <3> QED
      BY <3>3, <3>4, <2>2, <1>1
  <2> QED
    BY <2>1, <2>2
<1>3. HandlersFor(e) = {r \in From(stack)[start] :
        stack[r].type = "OnDo" /\ \E f \in stack[r].exceptionFilter : handlesException(f, e)}
  BY ChainIsFrom DEF HandlersFor
<1> HIDE DEF start
<1>4. \A r \in From(stack)[start] : r \in 1 .. n
  BY <1>1, <1>2, ChainIsBelow
<1> DEFINE S == {0} \cup HandlersFor(e)
<1>5. S \subseteq 0 .. n /\ S # {}
  BY <1>1, <1>3, <1>4
<1>6. Max(S) \in S
  <2> HIDE DEF S, n
  <2> QED
    BY <1>1, <1>5, MaxIsMember
<1>7. findHandlerRecordFor(e) \in HandlersFor(e)
  BY <1>6 DEF findHandlerRecordFor
<1> QED
  BY <1>2, <1>3, <1>4, <1>7

LEMMA SignalKeeps ==
  ASSUME NativeUnwindingInv, NEW e \in ExceptionType, signal(e)
  PROVE  NativeUnwindingInv'
<1> DEFINE n == Len(stack)
           h == findHandlerRecordFor(e)
           f == [NewFrame("Block") EXCEPT !.handler = h]
<1>1. CASE h = 0
  <2>1. UNCHANGED <<stack, LastActive, ActiveHandlerRecord>> /\ aborted' = TRUE
    BY <1>1 DEF signal
  <2> QED
    BY <2>1 DEF NativeUnwindingInv, TypeOK
<1>2. CASE h # 0
  <2>1. /\ n = Len(stack) /\ n \in Nat /\ n + 1 <= MaxDepth /\ MaxDepth \in Nat
        /\ LastActive \in 0 .. n /\ stack \in Stack
        /\ ActiveHandlerRecord' = h /\ stack' = Append(stack, f)
        /\ UNCHANGED <<LastActive, aborted>>
    BY <1>2, InvFacts DEF signal, Top
  <2>2. h \in From(stack)[LastActive] /\ h \in 1 .. n /\ stack[h].type = "OnDo"
    BY <1>2, HandlerIsOnChain
  <2> HIDE DEF h
  <2>3. /\ f \in Frame /\ f.previous = 0 /\ f.type = "Block" /\ f.started = 0
        /\ f.handler = h
    BY <2>1, <2>2 DEF NewFrame, Frame, FrameType, SignalFrames
  <2> HIDE DEF f, n
  <2>4. /\ stack' \in Stack /\ Len(stack') = n + 1
        /\ \A i \in 1 .. n : stack'[i] = stack[i]
        /\ stack'[n + 1] = f
    BY <2>1, <2>3, Pushed
  <2>5. n \in 0 .. Len(stack) /\ n <= Len(stack') /\ LastActive \in 0 .. n
    BY <2>1, <2>4
  <2>6. Resumable(stack, n, LastActive) /\ ResumableBelow(stack, LastActive)
    BY <2>1 DEF NativeUnwindingInv
  <2>7. Resumable(stack', n, LastActive) /\ Sound(stack', n, LastActive)
    BY <2>1, <2>4, <2>5, <2>6, ResumableIsLocal DEF Resumable
  <2>8. ResumableBelow(stack', LastActive)
    BY <2>1, <2>4, <2>5, <2>6, ResumableBelowIsLocal
  <2>9. From(stack')[LastActive] = From(stack)[LastActive]
    BY <2>1, <2>4, <2>5, ChainIsLocal
  <2>10. Sound(stack', n + 1, LastActive)
    <3>1. Pending(stack', n + 1, LastActive)
      BY <2>1, <2>3, <2>4, <2>7 DEF Sound, Pending
    <3>2. Target(stack', n + 1, LastActive)
      <4>1. ASSUME NEW i \in 1 .. n + 1, Innermost(stack', n + 1, i) PROVE i = n + 1
        BY <4>1, <2>1, <2>3, <2>4 DEF Innermost, SignalFrames
      <4> QED
        BY <4>1, <2>2, <2>3, <2>4, <2>9 DEF Target
    <3>3. Start(stack', n + 1, LastActive)
      BY <2>3, <2>4 DEF Start
    <3>4. Gone(stack', n + 1, LastActive)
      BY <2>1, <2>3, <2>4, <2>7 DEF Sound, Gone, SignalFrames
    <3> QED
      BY <2>1, <2>7, <3>1, <3>2, <3>3, <3>4 DEF Sound
  <2>11. Resumable(stack', n + 1, LastActive)
    BY <2>1, <2>3, <2>4, <2>7, <2>10 DEF Resumable
  <2>12. TypeOK'
    BY <2>1, <2>2, <2>4 DEF NativeUnwindingInv, TypeOK, Stack
  <2>13. StartedOnce(stack')
    <3>1. StartedOnce(stack)
      BY DEF NativeUnwindingInv
    <3> QED
      BY <3>1, <2>1, <2>3, <2>4 DEF StartedOnce
  <2>14. BlockOf(stack', ActiveHandlerRecord')
    <3>1. Innermost(stack', n + 1, n + 1)
      BY <2>1, <2>3, <2>4 DEF Innermost, SignalFrames
    <3> QED
      BY <3>1, <2>1, <2>3, <2>4 DEF BlockOf
  <2> QED
    BY <2>1, <2>4, <2>8, <2>11, <2>12, <2>13, <2>14 DEF NativeUnwindingInv
<1> QED
  BY <1>1, <1>2

\* The innermost signal is on top of the stack; it walks on from where the chain starts.
LEMMA WalkKeeps ==
  ASSUME NativeUnwindingInv, Len(stack) > 0, stack[Len(stack)].type \in {"Block", "CleaningUp"},
         NEW f \in Frame, f.type = "Walking", f.position = LastActive,
         f.previous = stack[Len(stack)].previous, f.handler = stack[Len(stack)].handler,
         f.started = stack[Len(stack)].started,
         stack' = [stack EXCEPT ![Len(stack)] = f],
         ActiveHandlerRecord' = 0, UNCHANGED <<LastActive, aborted>>
  PROVE  NativeUnwindingInv'
<1> DEFINE n == Len(stack)
<1>1. /\ n = Len(stack) /\ n \in Nat /\ n > 0 /\ n <= MaxDepth /\ MaxDepth \in Nat
      /\ stack \in Stack /\ n \in 1 .. Len(stack) /\ LastActive \in 0 .. n
      /\ Sound(stack, n, LastActive)
  BY InvFacts
<1>2. /\ stack' \in Seq(Frame) /\ Len(stack') = Len(stack) /\ stack'[n] = f
      /\ \A i \in 1 .. Len(stack) : i # n => stack'[i] = stack[i]
  BY InvFacts
<1> HIDE DEF n
<1>3. stack' \in Stack /\ \A a \in 0 .. Len(stack) : From(stack')[a] = From(stack)[a]
  <2>1. f.previous = stack[n].previous
    BY <1>1
  <2> QED
    BY <2>1, <1>1, <1>2, Replaced
<1>4. From(stack')[LastActive] = From(stack)[LastActive]
  BY <1>1, <1>3
<1>5. \A i \in 1 .. n - 1 : stack'[i] = stack[i]
  BY <1>1, <1>2
<1>6. n \notin From(stack)[LastActive]
  BY <1>1 DEF Sound, Live
<1>7. LastActive \in 0 .. n - 1
  <2>1. LastActive = n => n \in From(stack)[LastActive]
    BY <1>1, ChainStep
  <2> QED
    BY <2>1, <1>1, <1>6
<1>8. n - 1 \in 0 .. Len(stack) /\ n - 1 <= Len(stack')
  BY <1>1, <1>2
<1>9. \A r \in From(stack)[LastActive] : r \in 1 .. n - 1 /\ stack'[r] = stack[r]
  <2>1. ASSUME NEW r \in From(stack)[LastActive] PROVE r \in 1 .. LastActive
    BY <1>1, ChainIsBelow
  <2> QED
    BY <2>1, <1>1, <1>5, <1>7
<1>10. ResumableBelow(stack', LastActive)
  <2>1. ResumableBelow(stack, LastActive)
    BY DEF NativeUnwindingInv
  <2> QED
    BY <2>1, <1>1, <1>3, <1>5, <1>7, <1>8, ResumableBelowIsLocal
<1>11. Sound(stack', n, LastActive)
  <2>1. Live(stack', LastActive)
    BY <1>1, <1>4, <1>9 DEF Sound, Live
  <2>2. Pending(stack', n, LastActive)
    BY <1>1, <1>2, <1>4 DEF Sound, Pending
  <2>3. Target(stack', n, LastActive)
    <3>1. ASSUME NEW i \in 1 .. n, Innermost(stack', n, i) PROVE i = n
      BY <3>1, <1>1, <1>2 DEF Innermost, SignalFrames
    <3>2. Innermost(stack, n, n)
      BY <1>1 DEF Innermost, SignalFrames
    <3>3. stack[n].handler \in From(stack)[LastActive] /\ stack[stack[n].handler].type = "OnDo"
      BY <3>2, <1>1 DEF Sound, Target
    <3>4. stack'[n].handler = stack[n].handler
      BY <1>1, <1>2
    <3> QED
      BY <3>1, <3>3, <3>4, <1>4, <1>9 DEF Target
  <2>4. Start(stack', n, LastActive)
    BY <1>2 DEF Start
  <2>5. Gone(stack', n, LastActive)
    BY <1>1, <1>2 DEF Sound, Gone, SignalFrames
  <2> QED
    BY <1>1, <2>1, <2>2, <2>3, <2>4, <2>5 DEF Sound
<1>12. Resumable(stack', n, LastActive)
  <2>1. ASSUME NEW r \in LastActive + 1 .. n,
               stack'[r].type = "Ensured" /\ stack'[r].previous = LastActive
        PROVE  Sound(stack', r - 1, LastActive)
    <3>1. r \in 1 .. n - 1 /\ stack'[r] = stack[r]
      BY <2>1, <1>1, <1>2, <1>5, <1>7
    <3>2. Sound(stack, r - 1, LastActive)
      BY <2>1, <3>1, <1>1 DEF NativeUnwindingInv, Resumable
    <3>3. r - 1 \in 0 .. Len(stack) /\ r - 1 <= Len(stack') /\ \A i \in 1 .. r - 1 : stack'[i] = stack[i]
      BY <3>1, <1>1, <1>2, <1>5
    <3> QED
      BY <3>2, <3>3, <1>1, <1>3, SoundIsLocal
  <2> QED
    BY <2>1, <1>11 DEF Resumable
<1>13. TypeOK'
  BY <1>1, <1>2 DEF NativeUnwindingInv, TypeOK
<1>14. StartedOnce(stack')
  BY <1>1, <1>2 DEF NativeUnwindingInv, StartedOnce
<1>15. BlockOf(stack', 0)
  BY DEF BlockOf
<1> QED
  BY <1>1, <1>2, <1>3, <1>10, <1>12, <1>13, <1>14, <1>15 DEF NativeUnwindingInv

LEMMA BlockEndsKeeps ==
  ASSUME NativeUnwindingInv, BlockEnds
  PROVE  NativeUnwindingInv'
<1> DEFINE n == Len(stack)
           w == [stack[n] EXCEPT !.type = "Walking"]
           f == [w EXCEPT !.position = LastActive]
<1>1. /\ n > 0 /\ stack[n].type = "Block" /\ ActiveHandlerRecord' = 0
      /\ UNCHANGED <<LastActive, aborted>>
  BY DEF BlockEnds, Running, Top
<1>2. stack[n] \in Frame /\ LastActive \in 0 .. MaxDepth
  BY <1>1, InvFacts
<1>3. stack' = [stack EXCEPT ![n] = f]
  BY <1>1, InvFacts DEF BlockEnds, Top
<1>4. w \in Frame
  <2>1. "Walking" \in FrameType
    BY DEF FrameType, SignalFrames
  <2> QED
    BY <2>1, <1>2, FrameUpdates
<1>5. /\ w.type = "Walking" /\ w.previous = stack[n].previous
      /\ w.handler = stack[n].handler /\ w.started = stack[n].started
  BY <1>2 DEF Frame
<1> HIDE DEF w
<1>6. f \in Frame
  BY <1>2, <1>4, FrameUpdates
<1>7. /\ f.type = w.type /\ f.position = LastActive /\ f.previous = w.previous
      /\ f.handler = w.handler /\ f.started = w.started
  BY <1>4 DEF Frame
<1> HIDE DEF f
<1> QED
  BY <1>1, <1>3, <1>5, <1>6, <1>7, WalkKeeps

LEMMA CleanUpEndsKeeps ==
  ASSUME NativeUnwindingInv, CleanUpEnds
  PROVE  NativeUnwindingInv'
<1> DEFINE n == Len(stack)
           w == [stack[n] EXCEPT !.type = "Walking"]
<1>1. /\ n \in Nat /\ n > 0 /\ stack[n].type = "CleaningUp"
      /\ UNCHANGED <<LastActive, ActiveHandlerRecord, aborted>>
  BY InvFacts DEF CleanUpEnds, Running, Top
<1>2. stack[n] \in Frame
  BY <1>1, InvFacts
<1>3. stack' = [stack EXCEPT ![n] = w]
  BY <1>1, InvFacts DEF CleanUpEnds, Top
<1>4. w \in Frame
  <2>1. "Walking" \in FrameType
    BY DEF FrameType, SignalFrames
  <2> QED
    BY <2>1, <1>2, FrameUpdates
<1>5. stack[n].position = LastActive
  BY <1>1, InvFacts DEF Sound, Start
<1>6. /\ w.type = "Walking" /\ w.position = LastActive /\ w.previous = stack[n].previous
      /\ w.handler = stack[n].handler /\ w.started = stack[n].started
  BY <1>2, <1>5 DEF Frame
<1>7. ActiveHandlerRecord = 0
  <2>1. \A i \in 1 .. n : Innermost(stack, n, i) => i = n
    BY <1>1 DEF Innermost, SignalFrames
  <2> QED
    BY <2>1, <1>1 DEF NativeUnwindingInv, BlockOf
<1> HIDE DEF w
<1> QED
  BY <1>1, <1>3, <1>4, <1>6, <1>7, WalkKeeps

LEMMA UnwindEndsKeeps ==
  ASSUME NativeUnwindingInv, UnwindEnds
  PROVE  /\ NativeUnwindingInv'
         /\ LastActive \in 1 .. Len(stack) /\ stack[LastActive].type = "OnDo"
         /\ Len(stack') = LastActive - 1
<1> DEFINE n == Len(stack)
<1>1. /\ n = Len(stack) /\ n \in Nat /\ n > 0 /\ n <= MaxDepth /\ MaxDepth \in Nat
      /\ stack \in Stack /\ stack[n].type = "Walking" /\ LastActive \in 0 .. n
      /\ Sound(stack, n, LastActive) /\ stack[n].position \in {0, stack[n].handler}
      /\ LastActive' = stack[stack[n].handler].previous
      /\ stack' = SubSeq(stack, 1, stack[n].handler - 1)
      /\ UNCHANGED <<ActiveHandlerRecord, aborted>>
  BY InvFacts DEF UnwindEnds, Running, Top
<1>2. stack[n].position = LastActive
  BY <1>1 DEF Sound, Start
<1>3. \A i \in 1 .. n : Innermost(stack, n, i) <=> i = n
  BY <1>1 DEF Innermost, SignalFrames
<1>4. stack[n].handler \in From(stack)[LastActive] /\ stack[stack[n].handler].type = "OnDo"
  BY <1>1, <1>3 DEF Sound, Target
<1>5. LastActive = stack[n].handler
  <2>1. LastActive # 0
    <3>1. From(stack)[0] = {}
      BY <1>1, ChainStep
    <3> QED
      BY <3>1, <1>4
  <2> QED
    BY <2>1, <1>1, <1>2
<1>6. ResumableBelow(stack, LastActive)
  BY DEF NativeUnwindingInv
<1>7. /\ stack' \in Stack /\ Len(stack') = LastActive - 1 /\ LastActive \in 1 .. n
      /\ \A i \in 1 .. LastActive - 1 : stack'[i] = stack[i]
      /\ LastActive' \in 0 .. LastActive - 1
      /\ Resumable(stack', Len(stack'), LastActive') /\ ResumableBelow(stack', LastActive')
  <2> HIDE DEF n
  <2>1. LastActive \in From(stack)[LastActive] /\ LastActive \in 0 .. Len(stack)
    BY <1>1, <1>4, <1>5
  <2>2. LastActive' = stack[LastActive].previous
    BY <1>1, <1>5
  <2>3. stack' = SubSeq(stack, 1, LastActive - 1)
    BY <1>1, <1>5
  <2>4. stack \in Stack
    BY <1>1
  <2>5. /\ stack' \in Stack /\ Len(stack') = LastActive - 1 /\ LastActive \in 1 .. Len(stack)
        /\ \A i \in 1 .. LastActive - 1 : stack'[i] = stack[i]
        /\ stack[LastActive].previous \in 0 .. LastActive - 1
        /\ Resumable(stack', Len(stack'), stack[LastActive].previous)
        /\ ResumableBelow(stack', stack[LastActive].previous)
    BY <2>1, <2>3, <2>4, <1>6, CutAtRecord
  <2>6. LastActive \in 1 .. n
    BY <2>5, <1>1
  <2> QED
    BY <2>2, <2>5, <2>6
<1>8. ActiveHandlerRecord' = 0
  BY <1>1, <1>3 DEF NativeUnwindingInv, BlockOf
<1>9. BlockOf(stack', ActiveHandlerRecord')
  BY <1>8 DEF BlockOf
<1>10. TypeOK'
  BY <1>1, <1>7 DEF NativeUnwindingInv, TypeOK, Stack
<1>11. StartedOnce(stack')
  <2>1. StartedOnce(stack) /\ stack \in Stack
    BY DEF NativeUnwindingInv
  <2>2. Len(stack') <= Len(stack)
    <3>1. Len(stack) \in Nat
      BY <1>1
    <3>2. LastActive \in 1 .. Len(stack) /\ Len(stack') = LastActive - 1
      BY <1>7
    <3> QED
      BY <3>1, <3>2
  <2>3. ASSUME NEW i \in 1 .. Len(stack') PROVE stack'[i] = stack[i]
    <3>1. i \in 1 .. LastActive - 1
      BY <1>7
    <3> QED
      BY <3>1, <1>7
  <2> QED
    BY <2>1, <2>2, <2>3, <1>7, StartedOnceBelow
<1> QED
  BY <1>4, <1>5, <1>7, <1>9, <1>10, <1>11 DEF NativeUnwindingInv

LEMMA UnwindStepKeeps ==
  ASSUME NativeUnwindingInv, UnwindStep
  PROVE  NativeUnwindingInv'
<1> DEFINE n == Len(stack)
           record == LastActive
           p == stack[record].previous
           type == IF stack[record].type = "CleanUp" THEN "CleaningUp" ELSE "Walking"
           w == [stack[n] EXCEPT !.position = p]
           f == [w EXCEPT !.type = type]
           k == IF stack[record].type = "CleanUp" THEN 1 ELSE 0
           g == [stack[record] EXCEPT !.started = k]
           middle == [stack EXCEPT ![n] = f]
<1>1. /\ n = Len(stack) /\ n \in Nat /\ n > 0 /\ n <= MaxDepth /\ MaxDepth \in Nat
      /\ stack \in Stack /\ stack[n].type = "Walking" /\ LastActive \in 0 .. n
      /\ Sound(stack, n, LastActive) /\ stack[n].position \notin {0, stack[n].handler}
      /\ UNCHANGED <<ActiveHandlerRecord, aborted>>
  BY InvFacts DEF UnwindStep, Running, Top
<1>2. stack[n].position = record
  BY <1>1 DEF Sound, Start
<1>3. /\ record \in 1 .. n /\ record # stack[n].handler
      /\ From(stack)[record] = {record} \cup From(stack)[p]
  <2>1. record \in 1 .. n /\ record # stack[n].handler
    BY <1>1, <1>2
  <2> QED
    BY <2>1, <1>1, ChainStep
<1>4. /\ stack[record].type \in {"OnDo", "CleanUp"} /\ stack[record].started = 0
      /\ record \in 1 .. n - 1
  <2>1. stack[record].type \in {"OnDo", "CleanUp"} /\ stack[record].started = 0
    BY <1>1, <1>3 DEF Sound, Live
  <2> QED
    BY <2>1, <1>1, <1>3
<1>5. p \in 0 .. record - 1 /\ stack[n] \in Frame /\ stack[record] \in Frame
  BY <1>1, <1>4, InvFacts
<1>6. LastActive' = p
  BY <1>2 DEF UnwindStep, Top
<1>8. /\ f \in Frame /\ f.type \in {"Walking", "CleaningUp"} /\ f.position = p
      /\ f.previous = stack[n].previous /\ f.handler = stack[n].handler
      /\ f.started = stack[n].started
  <2>1. w \in Frame
    <3>1. p \in 0 .. MaxDepth
      BY <1>1, <1>4, <1>5
    <3> QED
      BY <3>1, <1>5, FrameUpdates
  <2>2. /\ w.position = p /\ w.previous = stack[n].previous
        /\ w.handler = stack[n].handler /\ w.started = stack[n].started
    BY <1>5 DEF Frame
  <2> HIDE DEF w
  <2>3. type \in FrameType /\ type \in {"Walking", "CleaningUp"}
    BY DEF FrameType, SignalFrames
  <2> HIDE DEF type
  <2>4. f \in Frame
    BY <2>1, <2>3, FrameUpdates
  <2>5. /\ f.type = type /\ f.position = w.position /\ f.previous = w.previous
        /\ f.handler = w.handler /\ f.started = w.started
    BY <2>1 DEF Frame
  <2> HIDE DEF f
  <2> QED
    BY <2>2, <2>3, <2>4, <2>5
<1>9. /\ g \in Frame /\ g.type = stack[record].type /\ g.previous = p
      /\ g.started \in 0 .. 1 /\ (g.type = "CleanUp" => g.started = 1)
  <2>1. k \in 0 .. 2 /\ k \in 0 .. 1 /\ (stack[record].type = "CleanUp" => k = 1)
    OBVIOUS
  <2> HIDE DEF k
  <2>2. g \in Frame
    BY <2>1, <1>5, FrameUpdates
  <2>3. g.type = stack[record].type /\ g.previous = p /\ g.started = k
    BY <1>5 DEF Frame
  <2> HIDE DEF g
  <2> QED
    BY <2>1, <2>2, <2>3
<1>7. stack' = [middle EXCEPT ![record] = g]
  <2> DEFINE b == stack[record].type = "CleanUp"
             walked == [stack EXCEPT ![n].position = p, ![n].type = type]
  <2>1. stack \in Seq(Frame) /\ n \in 1 .. Len(stack) /\ record \in 1 .. Len(stack)
    BY <1>1, <1>4, InvFacts
  <2>2. stack' = [stack EXCEPT ![n].position = p, ![n].type = type,
                               ![record].started = IF b THEN @ + 1 ELSE @]
    BY <1>2, <1>6 DEF UnwindStep, Top
  <2>3. walked = middle
    BY <2>1
  <2>4. middle \in Seq(Frame) /\ Len(middle) = Len(stack) /\ middle[record] = stack[record]
    <3> HIDE DEF f
    <3> QED
      BY <2>1, <1>1, <1>4, <1>8
  <2>5. stack' = [walked EXCEPT ![record].started = IF b THEN @ + 1 ELSE @]
    BY <2>1, <2>2
  <2> HIDE DEF walked, middle
  <2>6. stack' = [middle EXCEPT ![record].started = IF b THEN @ + 1 ELSE @]
    BY <2>3, <2>5
  <2>7. middle[record].started = 0
    BY <2>4, <1>4
  <2> HIDE DEF b
  <2>8. stack' = [middle EXCEPT ![record] = [middle[record] EXCEPT !.started = IF b THEN 1 ELSE 0]]
    BY <2>1, <2>4, <2>6, <2>7
  <2> QED
    BY <2>4, <2>8 DEF b
<1> HIDE DEF f, g, n, type, k, w
<1>10. /\ stack' \in Seq(Frame) /\ Len(stack') = n
       /\ stack'[n] = f /\ stack'[record] = g
       /\ \A i \in 1 .. n : i \notin {n, record} => stack'[i] = stack[i]
  <2>1. /\ middle \in Seq(Frame) /\ Len(middle) = n /\ middle[n] = f
        /\ \A i \in 1 .. n : i # n => middle[i] = stack[i]
    BY <1>1, <1>8 DEF Stack
  <2> HIDE DEF middle
  <2> QED
    BY <2>1, <1>1, <1>4, <1>7, <1>9
<1> HIDE DEF middle, p
<1>11. stack' \in Stack
  <2>1. \A i \in 1 .. Len(stack) : stack'[i].previous = stack[i].previous
    BY <1>1, <1>8, <1>9, <1>10 DEF p
  <2> QED
    BY <2>1, <1>1, <1>10, Changed
<1>12. /\ \A i \in 1 .. record - 1 : stack'[i] = stack[i]
       /\ record - 1 \in 0 .. Len(stack) /\ record - 1 <= Len(stack') /\ p \in 0 .. record - 1
  BY <1>1, <1>4, <1>5, <1>10
<1>13. Resumable(stack, record - 1, p) /\ ResumableBelow(stack, p)
  <2>1. ResumableBelow(stack, LastActive) /\ record \in From(stack)[LastActive]
    BY <1>3 DEF NativeUnwindingInv
  <2> QED
    BY <2>1, <1>1, ResumableBelowPart DEF ResumableBelow, p
<1>14. Resumable(stack', record - 1, p)
  BY <1>1, <1>11, <1>12, <1>13, ResumableIsLocal
<1>15. ResumableBelow(stack', p)
  BY <1>1, <1>11, <1>12, <1>13, ResumableBelowIsLocal
<1>16. From(stack')[p] = From(stack)[p]
  <2>1. \A i \in 1 .. record - 1 : stack'[i].previous = stack[i].previous
    BY <1>12
  <2> QED
    BY <2>1, <1>1, <1>11, <1>12, ChainIsLocal
<1>17. \A r \in From(stack)[p] : r \in 1 .. record - 1
  <2>1. ASSUME NEW r \in From(stack)[p] PROVE r \in 1 .. p
    <3>1. p \in 0 .. Len(stack)
      BY <1>1, <1>4, <1>5
    <3> QED
      BY <3>1, <1>1, ChainIsBelow
  <2> QED
    BY <2>1, <1>4, <1>5
<1>18. Sound(stack', n, p)
  <2>1. Live(stack', p) /\ Gone(stack', record - 1, p)
    BY <1>14 DEF Resumable, Sound
  <2>2. Pending(stack', n, p)
    <3>1. ASSUME NEW i \in 1 .. n, stack'[i].type = "CleanUp", stack'[i].started = 0
          PROVE  i \in From(stack')[p]
      <4>1. i # n /\ i # record
        BY <3>1, <1>8, <1>9, <1>10
      <4>2. stack'[i] = stack[i]
        BY <4>1, <1>10
      <4>3. i \in From(stack)[record]
        BY <3>1, <4>2, <1>1 DEF Sound, Pending
      <4> QED
        BY <4>1, <4>3, <1>3, <1>16
    <3> QED
      BY <3>1 DEF Pending
  <2>3. Target(stack', n, p)
    <3>1. ASSUME NEW i \in 1 .. n, Innermost(stack', n, i) PROVE i = n
      BY <3>1, <1>1, <1>8, <1>10 DEF Innermost, SignalFrames
    <3>2. Innermost(stack, n, n)
      BY <1>1 DEF Innermost, SignalFrames
    <3>3. stack[n].handler \in From(stack)[record] /\ stack[stack[n].handler].type = "OnDo"
      BY <3>2, <1>1 DEF Sound, Target
    <3>4. stack[n].handler \in From(stack)[p]
      BY <3>3, <1>3
    <3>5. stack'[stack[n].handler] = stack[stack[n].handler]
      BY <3>4, <1>12, <1>17
    <3>6. stack'[n].handler = stack[n].handler
      BY <1>8, <1>10
    <3> QED
      BY <3>1, <3>3, <3>4, <3>5, <3>6, <1>16 DEF Target
  <2>4. Start(stack', n, p)
    BY <1>8, <1>10 DEF Start
  <2>5. Gone(stack', n, p)
    <3>1. ASSUME NEW r \in p + 1 .. n, stack'[r].type \notin SignalFrames
          PROVE  stack'[r].previous >= p
      <4>1. r \in Nat
        BY <1>1, <1>4, <1>5
      <4>2. CASE r < record
        BY <4>1, <4>2, <3>1, <2>1, <1>4, <1>5 DEF Gone
      <4>3. CASE r = record
        BY <4>3, <1>4, <1>5, <1>9, <1>10
      <4>4. CASE r > record
        <5>1. r # n
          BY <3>1, <1>8, <1>10 DEF SignalFrames
        <5>2. stack'[r] = stack[r] /\ r \in record + 1 .. n
          BY <4>1, <4>4, <5>1, <3>1, <1>1, <1>4, <1>10
        <5>3. stack[r].previous >= record
          BY <5>2, <3>1, <1>1 DEF Sound, Gone
        <5>4. stack[r].previous \in Nat
          BY <5>2, <1>1, <1>4, InvFacts
        <5> QED
          BY <5>2, <5>3, <5>4, <1>4, <1>5
      <4> QED
        BY <4>1, <4>2, <4>3, <4>4, <1>4
    <3> QED
      BY <3>1 DEF Gone
  <2>6. p \in 0 .. n
    BY <1>1, <1>4, <1>5
  <2> QED
    BY <2>1, <2>2, <2>3, <2>4, <2>5, <2>6 DEF Sound
<1>19. Resumable(stack', n, p)
  <2>1. ASSUME NEW r \in p + 1 .. n, stack'[r].type = "Ensured" /\ stack'[r].previous = p
        PROVE  Sound(stack', r - 1, p)
    <3>1. r \in Nat
      BY <1>1, <1>4, <1>5
    <3>2. CASE r < record
      BY <3>1, <3>2, <2>1, <1>4, <1>5, <1>14 DEF Resumable
    <3>3. CASE r = record
      BY <3>3, <2>1, <1>4, <1>9, <1>10
    <3>4. CASE r > record
      <4>1. r # n
        BY <2>1, <1>8, <1>10
      <4>2. stack'[r] = stack[r] /\ r \in record + 1 .. n
        BY <3>1, <3>4, <4>1, <2>1, <1>1, <1>4, <1>10
      <4>3. stack[r].previous >= record
        BY <4>2, <2>1, <1>1 DEF Sound, Gone, SignalFrames
      <4> QED
        BY <4>2, <4>3, <2>1, <1>4, <1>5
    <3> QED
      BY <3>1, <3>2, <3>3, <3>4, <1>4
  <2> QED
    BY <2>1, <1>18 DEF Resumable
<1>20. TypeOK'
  BY <1>1, <1>4, <1>5, <1>6, <1>10 DEF NativeUnwindingInv, TypeOK
<1>21. StartedOnce(stack')
  <2>1. StartedOnce(stack)
    BY DEF NativeUnwindingInv
  <2>2. ASSUME NEW i \in 1 .. n PROVE stack'[i].started <= 1
    <3>1. CASE i = record
      BY <3>1, <1>9, <1>10
    <3>2. CASE i = n
      BY <3>2, <2>1, <1>1, <1>8, <1>10 DEF StartedOnce
    <3>3. CASE i \notin {n, record}
      BY <3>3, <2>1, <1>1, <1>10 DEF StartedOnce
    <3> QED
      BY <3>1, <3>2, <3>3
  <2> QED
    BY <2>2, <1>10 DEF StartedOnce
<1>22. ActiveHandlerRecord = 0
  <2>1. \A i \in 1 .. n : Innermost(stack, n, i) => i = n
    BY <1>1 DEF Innermost, SignalFrames
  <2> QED
    BY <2>1, <1>1 DEF NativeUnwindingInv, BlockOf
<1>23. BlockOf(stack', ActiveHandlerRecord')
  BY <1>1, <1>22 DEF BlockOf
<1> QED
  BY <1>6, <1>10, <1>11, <1>15, <1>19, <1>20, <1>21, <1>23 DEF NativeUnwindingInv

-----------------------------------------------------------------------------
(* The invariant, and what follows from it. *)

LEMMA InitHolds == Init => NativeUnwindingInv
<1> SUFFICES ASSUME Init PROVE NativeUnwindingInv
  OBVIOUS
<1>1. stack = <<>> /\ LastActive = 0 /\ ActiveHandlerRecord = 0 /\ aborted = FALSE
  BY DEF Init
<1>2. stack \in Seq(Frame) /\ Len(stack) = 0 /\ DOMAIN stack = {}
  BY <1>1
<1>3. TypeOK
  <2>1. 0 \in 0 .. MaxDepth
    BY DepthAssumption
  <2> QED
    BY <2>1, <1>1, <1>2 DEF TypeOK
<1>4. stack \in Stack
  BY <1>2 DEF Stack
<1>5. From(stack)[LastActive] = {}
  BY <1>1, <1>4, ChainStep
<1>6. Resumable(stack, Len(stack), LastActive)
  BY <1>1, <1>2, <1>5 DEF Resumable, Sound, Live, Pending, Target, Start, Gone
<1> QED
  BY <1>1, <1>2, <1>3, <1>4, <1>5, <1>6
     DEF NativeUnwindingInv, StartedOnce, BlockOf, ResumableBelow

LEMMA NextKeeps == NativeUnwindingInv /\ [Next]_vars => NativeUnwindingInv'
<1> SUFFICES ASSUME NativeUnwindingInv, [Next]_vars PROVE NativeUnwindingInv'
  OBVIOUS
<1>1. ASSUME NEW f \in Filter, onDo(f) PROVE NativeUnwindingInv'
  <2> DEFINE frame == [NewFrame("OnDo") EXCEPT !.exceptionFilter = {f}]
  <2>1. frame \in Frame /\ frame.type = "OnDo" /\ frame.started = 0
    BY DepthAssumption DEF NewFrame, Frame, FrameType
  <2>2. PushRecord(frame)
    BY <1>1 DEF onDo
  <2> HIDE DEF frame
  <2> QED
    BY <2>1, <2>2, PushRecordKeeps
<1>2. CASE ensure
  <2> DEFINE frame == NewFrame("CleanUp")
  <2>1. frame \in Frame /\ frame.type = "CleanUp" /\ frame.started = 0
    BY DepthAssumption DEF NewFrame, Frame, FrameType
  <2>2. PushRecord(frame)
    BY <1>2 DEF ensure
  <2> HIDE DEF frame
  <2> QED
    BY <2>1, <2>2, PushRecordKeeps
<1>3. CASE UNCHANGED vars
  BY <1>3 DEF vars, NativeUnwindingInv, TypeOK
<1> QED
  BY <1>1, <1>2, <1>3, OnDoBodyEndsKeeps, EnsureBodyEndsKeeps, EnsureEndsKeeps, SignalKeeps,
     BlockEndsKeeps, CleanUpEndsKeeps, UnwindStepKeeps, UnwindEndsKeeps DEF Next, unwindUntil

\* The inductive invariant: below every record of the chain, the stack is as it was when
\* the record was made.
THEOREM NativeUnwindingInvariant == Spec => []NativeUnwindingInv
BY InitHolds, NextKeeps, PTL DEF Spec

\* The variables of on:do:, ensure: and signal have their types.
THEOREM TypeCorrect == Spec => []TypeOK
<1>1. NativeUnwindingInv => TypeOK
  BY DEF NativeUnwindingInv
<1> QED
  BY <1>1, NativeUnwindingInvariant, PTL

\* An exception handler or a clean-up that signal or unwindUntil: reaches through the
\* chain has a live frame, and no clean-up on it has run yet.
THEOREM ChainIsLiveHolds == Spec => []ChainIsLive
<1>1. NativeUnwindingInv => ChainIsLive
  <2> SUFFICES ASSUME NativeUnwindingInv PROVE ChainIsLive
    OBVIOUS
  <2>1. /\ stack \in Stack /\ LastActive \in 0 .. Len(stack) /\ Len(stack) \in Nat
        /\ Live(stack, LastActive)
        /\ \A i \in 1 .. Len(stack) : stack[i].previous \in 0 .. i - 1
    BY InvFacts DEF Sound
  <2>2. ASSUME NEW r \in From(stack)[LastActive]
        PROVE  stack[r].type \in {"OnDo", "CleanUp"} /\ stack[r].started = 0 /\ stack[r].previous < r
    <3>1. r \in 1 .. LastActive
      BY <2>1, ChainIsBelow
    <3>2. r \in 1 .. Len(stack)
      BY <2>1, <3>1
    <3>3. stack[r].previous < r
      BY <2>1, <3>2
    <3> QED
      BY <2>1, <3>3 DEF Live
  <2> QED
    BY <2>1, <2>2, ChainIsFrom DEF ChainIsLive, Top
<1> QED
  BY <1>1, NativeUnwindingInvariant, PTL

\* unwindUntil: finds the record it is to stop at.
THEOREM TargetStaysOnChainHolds == Spec => []TargetStaysOnChain
<1>1. NativeUnwindingInv => TargetStaysOnChain
  <2> SUFFICES ASSUME NativeUnwindingInv PROVE TargetStaysOnChain
    OBVIOUS
  <2>1. Target(stack, Len(stack), LastActive) /\ DOMAIN stack = 1 .. Len(stack)
    BY InvFacts DEF Sound
  <2>2. ASSUME NEW i \in DOMAIN stack, stack[i].type \in SignalFrames,
               \A j \in i + 1 .. Len(stack) : stack[j].type \notin SignalFrames
        PROVE  stack[i].handler \in From(stack)[LastActive]
    BY <2>1, <2>2 DEF Target, Innermost
  <2> QED
    BY <2>2, ChainIsFrom DEF TargetStaysOnChain, Top
<1> QED
  BY <1>1, NativeUnwindingInvariant, PTL

\* A clean-up whose frame leaves the stack has been started, and none is started twice.
THEOREM CleanUpsRunHolds == Spec => CleanUpsRun
<1> DEFINE Kept == \A i \in DOMAIN stack :
             /\ stack[i].type = "CleanUp" /\ i \notin DOMAIN stack' => stack[i].started = 1
             /\ stack[i].started < 2
<1>1. NativeUnwindingInv /\ [Next]_vars => [Kept]_vars
  <2> SUFFICES ASSUME NativeUnwindingInv, Next,
                      NEW i \in DOMAIN stack
               PROVE  /\ stack[i].type = "CleanUp" /\ i \notin DOMAIN stack' => stack[i].started = 1
                      /\ stack[i].started < 2
    BY DEF Kept
  <2>1. /\ DOMAIN stack = 1 .. Len(stack) /\ i \in 1 .. Len(stack) /\ Len(stack) \in Nat
        /\ stack[i] \in Frame /\ stack \in Stack /\ LastActive \in 0 .. Len(stack)
    BY InvFacts
  <2>2. NativeUnwindingInv' /\ stack' \in Seq(Frame)
    BY NextKeeps DEF NativeUnwindingInv, TypeOK
  <2>3. DOMAIN stack' = 1 .. Len(stack') /\ Len(stack') \in Nat
    BY <2>2
  <2>4. stack[i].started \in 0 .. 1
    <3>1. stack[i].started <= 1
      BY <2>1 DEF NativeUnwindingInv, StartedOnce
    <3> QED
      BY <3>1, <2>1 DEF Frame
  <2>5. ASSUME stack[i].type = "CleanUp", i \notin DOMAIN stack' PROVE stack[i].started = 1
    <3>1. Len(stack') < i
      BY <2>1, <2>3, <2>5
    <3>2. CASE OnDoBodyEnds \/ EnsureEnds
      <4>1. stack' = SubSeq(stack, 1, Len(stack) - 1) /\ Len(stack) > 0
        BY <3>2 DEF OnDoBodyEnds, EnsureEnds, Running, Top
      <4>2. stack[Len(stack)].type \in {"OnDo", "Ensured"}
        BY <3>2 DEF OnDoBodyEnds, EnsureEnds, Running, Top
      <4>3. Len(stack') = Len(stack) - 1
        BY <4>1, <2>1, CutBack
      <4>4. i = Len(stack)
        BY <4>3, <3>1, <2>1
      <4> QED
        BY <4>2, <4>4, <2>5
    <3>3. CASE UnwindEnds
      <4>1. /\ LastActive \in 1 .. Len(stack) /\ stack[LastActive].type = "OnDo"
            /\ Len(stack') = LastActive - 1
        BY <3>3, UnwindEndsKeeps
      <4>2. i > LastActive
        BY <4>1, <3>1, <2>1, <2>5
      <4>3. i \notin From(stack)[LastActive]
        BY <4>2, <2>1, ChainIsBelow
      <4>4. stack[i].started # 0
        BY <4>3, <2>1, <2>5, InvFacts DEF Sound, Pending
      <4> QED
        BY <4>4, <2>4
    <3>4. CASE ~ (OnDoBodyEnds \/ EnsureEnds \/ UnwindEnds)
      <4>1. Len(stack') >= Len(stack)
        <5>1. stack \in Seq(Frame)
          BY <2>1 DEF Stack
        <5>2. CASE ensure \/ \E f \in Filter : onDo(f)
          <6>1. ASSUME NEW frame, PushRecord(frame) PROVE Len(stack') >= Len(stack)
            <7> DEFINE f == [frame EXCEPT !.previous = LastActive]
            <7>1. stack' = Append(stack, f)
              BY <6>1 DEF PushRecord
            <7> HIDE DEF f
            <7>2. Len(stack') = Len(stack) + 1
              BY <7>1, <5>1
            <7> QED
              BY <7>2, <2>1
          <6> QED
            BY <5>2, <6>1 DEF ensure, onDo
        <5>3. CASE \E e \in ExceptionType : signal(e)
          BY <5>1, <5>3, <2>1 DEF signal
        <5>4. CASE EnsureBodyEnds
          BY <5>1, <5>4, <2>1 DEF EnsureBodyEnds
        <5>5. CASE BlockEnds \/ CleanUpEnds
          BY <5>1, <5>5, <2>1 DEF BlockEnds, CleanUpEnds
        <5>6. CASE UnwindStep
          <6>1. DOMAIN stack' = DOMAIN stack
            BY <5>6 DEF UnwindStep
          <6> QED
            BY <6>1, <2>1, <2>3
        <5> QED
          BY <3>4, <5>2, <5>3, <5>4, <5>5, <5>6 DEF Next, unwindUntil
      <4> QED
        BY <4>1, <3>1, <2>1, <2>3
    <3> QED
      BY <3>2, <3>3, <3>4
  <2> QED
    BY <2>4, <2>5
<1>2. Spec => [][Kept]_vars
  BY <1>1, NativeUnwindingInvariant, PTL DEF Spec
<1> QED
  BY <1>2 DEF CleanUpsRun
=============================================================================
