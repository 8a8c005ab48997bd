----------------------------- MODULE MCLibrary ------------------------------
(***************************************************************************)
(* Small instances of the integers, and of the scanner and the parser: a   *)
(* behaviour computes with two numbers, types a text, or grows a tree.     *)
(***************************************************************************)
EXTENDS Reading

\* Zero, immediates of both signs and the least of all, large integers of one to
\* four words with zero words in all places, and a radix in the strange case.
SomeNumerals ==
  {Characters(s) : s \in {"0", "1", "-1", "5", "63", "-64", "-65", "99", "256", "-96", "16rfF_F"}}

Spaced(words) == [i \in DOMAIN words |-> words[i] \o " "]

\* Characters in any order, for every kind of token; and then lexemes, for the
\* constructs of the parser that end in one of several ways.
SomeAlphabets ==
  << <<"a", "f", ":", "1", ".", "5", "-", "e", "+", "\"", "'", "#", "*", " ", "\n", "|", "(",
       "=", "\\", "[", "_">>,
     <<"a", ":", "+", "1", "#">>, <<"1", ".", "-", "e", "a", "r">>, <<"#", "*", "a", "\"", "\\">>,
     Spaced(<<"{ : a", "{", "}", "|", ":: a", "a", ".">>),
     Spaced(<<"a", ",", "(", ")", "1", ";", "g:">>),
     Spaced(<<"a", "#{", "}", ":", "::", "+", ".">>),
     Spaced(<<"f:", "<", ">", "a", "1", ";", "{", "|", "}">>) >>

SomeMaxTyped == <<3, 5, 4, 5, 4, 5, 4, 4>>

\* Every kind of term in every construct, and some in two constructs.
SomeMaxAround ==
  [seed \in {"a", "+", "f:", "f:g:", "a::b", "()", "{}", "1", "-5", "1.5", "'a'", "'\\n'",
             "\"a\\tb\"", "#\"a b\"", "#f:g:", "#+"} |->
     IF seed \in {"a", "+", "1", "()"} THEN 2 ELSE 1]

VARIABLE component

vars == <<component, ivars, rvars>>

integersRest ==
  /\ left = Immediate(0) /\ right = Immediate(0)
  /\ leftValue = 0 /\ rightValue = 0 /\ steps = 0
textsRest == text = <<>> /\ typed = <<>> /\ tree = NoTree /\ room = 0

Init ==
  \/ component = "integers" /\ IInit /\ textsRest
  \/ component = "texts" /\ RInit /\ integersRest

Next ==
  /\ UNCHANGED component
  /\ \/ component = "integers" /\ INext /\ UNCHANGED rvars
     \/ component = "texts" /\ RNext /\ UNCHANGED ivars

Spec == Init /\ [][Next]_vars
=============================================================================
