------------------------------- MODULE Reading -------------------------------
(***************************************************************************)
(* The scanner and the parser together.  A text is either typed, one       *)
(* fragment after another and with no sense, or it is what a syntax tree   *)
(* is written as, with the least parentheses the levels of the parser's    *)
(* functions call for.  The trees are those the parser makes, without the  *)
(* positions, and grow by one construct around them at a time.             *)
(***************************************************************************)
EXTENDS Parser, SequencesExt

CONSTANTS
  Alphabets,   \* sequences of fragments, of which a typed text uses one
  MaxTyped,    \* the most fragments of a text, for each alphabet
  MaxAround    \* the most constructs around a tree, for each name of a seed

ASSUME Bounds ==
  /\ MaxTyped \in [DOMAIN Alphabets -> Nat]
  /\ MaxAround \in [DOMAIN MaxAround -> Nat]

VARIABLES
  text,
  typed,   \* the alphabet of a typed text
  tree,    \* what the text was written from
  room     \* how often the text may still be typed on, the tree grow

rvars == <<text, typed, tree, room>>

----------------------------------------------------------------------------
(* Trees.                                                                  *)

Characters(string) == [i \in 1 .. Len(string) |-> SubSeq(string, i, i)]

Tree(kind, value, parts) == Node(kind, value, parts, <<>>)
RECURSIVE Shape(_)
Shape(node) == Tree(node.kind, node.value, [i \in DOMAIN node.parts |-> Shape(node.parts[i])])

Symbol(string) == <<"symbol", Characters(string)>>
Name(string) == Tree("Identifier", Symbol(string), <<>>)
Constant(value) == Tree("Literal", value, <<>>)
Selector(string) == Constant(Symbol(string))
NoTree == Tree("Nothing", <<>>, <<>>)

Send(receiver, selector, arguments) ==
  Tree("Send", <<>>, <<receiver, Selector(selector)>> \o arguments)
Application(selector, arguments) ==
  Tree("Application", <<>>, <<Name(selector)>> \o arguments)
Message(selector, arguments) == Tree("Message", <<>>, <<Selector(selector)>> \o arguments)
Chain(receiver, messages) == Tree("Chain", <<>>, <<receiver>> \o messages)
Sequence(pragmas, expressions) ==
  Tree("Sequence", <<"pragmas", Len(pragmas)>>, pragmas \o expressions)
Block(expressions) == Tree("LexicalBlock", <<>>, <<Sequence(<<>>, expressions)>>)
Lambda(flags, arguments, type, body) == Tree("Lambda", flags, arguments \o <<type, body>>)
Argument(forAll, type, name) == Tree("Argument", forAll, <<type, Selector(name)>>)
Array(elements) == Tree("MakeArray", <<>>, elements)
Bytes(elements) == Tree("MakeByteArray", <<>>, elements)
Dictionary(associations) == Tree("MakeDictionary", <<>>, associations)
Association(key, value) == Tree("Association", <<>>, <<key, value>>)
Quoted(kind, term) == Tree(kind, <<>>, <<term>>)
Pragma(selector, arguments) == Tree("Pragma", <<>>, <<Selector(selector)>> \o arguments)

\* Values, by the lexemes they are written with.
Lexemes ==
  [lexeme \in {"1", "-5", "1.5", "'a'", "'\\n'", "\"a\\tb\"", "#\"a b\"", "#f:g:", "#+"} |->
     CASE lexeme \in {"1", "-5"} -> <<"integer", parseString(Characters(lexeme))>>
       [] lexeme = "1.5" -> <<"float", Characters(lexeme)>>
       [] lexeme = "'a'" -> <<"character", "a">>
       [] lexeme = "'\\n'" -> <<"character", "\n">>
       [] lexeme = "\"a\\tb\"" -> <<"string", <<"a", "\t", "b">>>>
       [] lexeme = "#\"a b\"" -> <<"symbol", <<"a", " ", "b">>>>
       [] lexeme = "#f:g:" -> Symbol("f:g:")
       [] lexeme = "#+" -> Symbol("+")]

Seed(name) ==
  CASE name \in DOMAIN Lexemes -> Constant(Lexemes[name])
    [] name \in {"a", "+", "f:", "f:g:", "a::b"} -> Name(name)
    [] name = "()" -> Array(<<>>)
    [] name = "{}" -> Block(<<>>)

a == Name("a")
b == Name("b")
one == Constant(Lexemes["1"])
asBody(t) == Sequence(<<>>, <<t>>)

\* The constructs a tree may be in.
Around(t) ==
  { \* Messages, with the tree as the receiver and as an argument.
    Send(t, "c", <<>>), Send(t, "+", <<a>>), Send(a, "*", <<t>>), Send(t, "f:", <<a>>),
    Send(a, "f:g:", <<t, b>>), Send(a, "f:g:", <<b, t>>), Send(t, ":=", <<a>>),
    Send(a, ":=", <<t>>), Send(t, "[]", <<>>), Send(t, "[]:", <<a>>), Send(a, "[]:", <<t>>),
    Send(a, "{}:", <<Block(<<t>>)>>), Send(t, "#[]:", <<Bytes(<<one>>)>>),
    Send(t, "#{}:", <<Dictionary(<<>>)>>),
    Tree("Send", <<>>, <<t, Quoted("QuasiUnquote", a)>>),
    Tree("Send", <<>>, <<a, Quoted("QuasiUnquote", t)>>),
    Tree("BinarySequence", <<>>, <<t, Selector("+"), a, Selector("*"), b>>),
    Tree("BinarySequence", <<>>, <<a, Selector("<"), t, Selector("|"), b>>),
    Tree("BinarySequence", <<>>, <<a, Selector("+"), b, Selector(">"), t>>),
    \* Applications and chains.
    Application("f:", <<t>>), Application("f:g:", <<t, a>>),
    Sequence(<<>>, <<Application("f:", <<a>>), Application("g:", <<t>>)>>),
    Tree("SExpression", <<>>, <<t>>), Tree("SExpression", <<>>, <<t, a, b>>),
    Tree("SExpression", <<>>, <<a, b, t>>),
    Chain(t, <<Message("c", <<>>), Message("f:", <<a>>), Message("b", <<>>)>>),
    Chain(t, <<Message("f:g:", <<a, b>>), Message("+", <<a>>)>>),
    Chain(t, <<Message("+", <<a>>), Message("c", <<>>)>>),
    Chain(a, <<Message("f:", <<t>>), Message("g:", <<t>>)>>),
    Chain(a, <<Message("*", <<t>>), Message("+", <<t>>)>>),
    \* Collections.
    Array(<<t>>), Array(<<a, t>>), Array(<<t, a>>), Array(<<one, t>>), Bytes(<<one, t>>),
    Dictionary(<<Association(t, a), Association(Selector("b"), t)>>),
    Dictionary(<<Association(Selector("c"), NoTree), Association(t, NoTree)>>),
    \* Blocks.
    Block(<<t>>), Block(<<a, t, b>>),
    Lambda(<<>>, <<>>, NoTree, asBody(t)),
    Lambda(<<"variadic">>, <<Argument(<<>>, t, "a"), Argument(<<>>, NoTree, "b")>>, NoTree,
           asBody(b)),
    Lambda(<<>>, <<Argument(<<"forAll">>, a, "b")>>, t,
           Sequence(<<Pragma("c", <<>>), Pragma("f:g:", <<t, a>>)>>, <<b, t>>)),
    \* Quotes.
    Quoted("Quote", t), Quoted("QuasiQuote", t), Quoted("QuasiUnquote", t), Quoted("Splice", t) }

----------------------------------------------------------------------------
(* Written trees.                                                          *)

SelectorOfSend(n) == IF n.parts[2].kind = "Literal" THEN n.parts[2].value[2] ELSE <<>>
IsOperator(selector) == selector # <<>> /\ isOperatorCharacter(selector[1])
IsKeywords(selector) ==
  selector # <<>> /\ isIdentifierStart(selector[1]) /\ Last(selector) = ":"

RECURSIVE IsLiteralArray(_)
IsLiteralArray(n) ==
  /\ n.kind = "MakeArray" /\ n.parts # <<>>
  /\ \A i \in DOMAIN n.parts : n.parts[i].kind = "Literal" \/ IsLiteralArray(n.parts[i])

\* The function that reads a tree without parentheses: 0 parseCommaExpression,
\* then assignments, low precedence operators, chains, binary and unary
\* expressions, quotes and terms.
RECURSIVE Level(_)
SendLevel(n, selector) ==
  CASE selector = <<":", "=">> -> 1
    [] IsOperator(selector) /\ Len(n.parts) = 3 ->
         IF Level(n.parts[1]) >= 5 /\ Level(n.parts[3]) >= 5 THEN 4 ELSE 2
    [] IsKeywords(selector) -> 3
    [] OTHER -> 5
Level(n) ==
  CASE n.kind = "Send" -> SendLevel(n, SelectorOfSend(n))
    [] n.kind = "MakeArray" -> IF n.parts = <<>> \/ IsLiteralArray(n) THEN 7 ELSE 0
    [] n.kind \in {"Application", "Chain", "Sequence"} -> 3
    [] n.kind = "BinarySequence" -> 4
    [] n.kind = "SExpression" -> 5
    [] n.kind \in {"Quote", "QuasiQuote", "QuasiUnquote", "Splice"} -> 6
    [] OTHER -> 7

Word(string) == <<Characters(string)>>

RECURSIVE Written(_)
Operand(level, n) ==
  IF Level(n) >= level THEN Written(n) ELSE Word("(") \o Written(n) \o Word(")")
Separated(level, nodes, separator) ==
  FlattenSeq([i \in DOMAIN nodes |->
                (IF i = 1 THEN <<>> ELSE separator) \o Operand(level, nodes[i])])

\* The keywords of a selector, each before its argument.
RECURSIVE Keywords(_, _, _)
Keywords(level, selector, arguments) ==
  LET end == SelectInSeq(selector, LAMBDA c : c = ":")
  IN IF selector = <<>> THEN <<>>
     ELSE <<SubSeq(selector, 1, end)>> \o Operand(level, arguments[1])
            \o Keywords(level, SubSeq(selector, end + 1, Len(selector)), Tail(arguments))

\* A message after its receiver; the operand of a first operator is unary.
WrittenMessage(selector, arguments, level) ==
  CASE IsOperator(selector) -> <<selector>> \o Operand(level, arguments[1])
    [] IsKeywords(selector) -> Keywords(4, selector, arguments)
    [] OTHER -> <<selector>>
ReceiverLevel(selector) == IF IsKeywords(selector) THEN 4 ELSE 5

WrittenChain(receiver, first, others) ==
  Operand(ReceiverLevel(first.parts[1].value[2]), receiver)
    \o WrittenMessage(first.parts[1].value[2], Tail(first.parts), 5)
    \o Word(";") \o Separated(0, others, Word(";"))

WrittenSend(n, receiver, selector, arguments) ==
  CASE selector = <<>> -> Operand(5, receiver) \o Written(n.parts[2])
    [] selector = <<":", "=">> ->
         Operand(2, receiver) \o <<selector>> \o Operand(1, arguments[1])
    [] selector # <<>> /\ selector[1] = "[" ->
         Operand(5, receiver) \o Word("[") \o Separated(0, arguments, <<>>) \o Word("]")
    [] selector # <<>> /\ selector[1] \in {"{", "#"} ->
         Operand(5, receiver) \o Written(arguments[1])
    [] IsOperator(selector) /\ Level(n) = 2 ->
         Operand(2, receiver) \o Word("::") \o <<selector>> \o Operand(3, arguments[1])
    [] OTHER -> Operand(ReceiverLevel(selector), receiver)
                  \o WrittenMessage(selector, arguments, 5)

\* A key that is no constant is written as a keyword.
WrittenKey(key, isAlone) ==
  CASE key.kind = "Literal" /\ key.value \notin Range(Lexemes) -> <<Append(key.value[2], ":")>>
    [] isAlone -> Operand(4, key)
    [] OTHER -> Operand(4, key) \o Word(":")
WrittenAssociation(key, value) ==
  WrittenKey(key, value = NoTree) \o (IF value = NoTree THEN <<>> ELSE Operand(0, value))

WrittenArgument(forAll, type, name) ==
  Word(":") \o (IF forAll = <<>> THEN <<>> ELSE Word("*"))
    \o (IF type = NoTree THEN <<>> ELSE Word("(") \o Written(type) \o Word(")"))
    \o <<name.value[2]>>

WrittenBody(parts, pragmas) ==
  Separated(0, SubSeq(parts, 1, pragmas), <<>>)
    \o Separated(0, SubSeq(parts, pragmas + 1, Len(parts)), Word("."))

WrittenLambda(flags, arguments, type, body) ==
  Word("{") \o Separated(0, arguments, <<>>) \o (IF flags = <<>> THEN <<>> ELSE Word("..."))
    \o (IF type = NoTree THEN <<>> ELSE Word("::") \o Operand(5, type))
    \o Word("|") \o WrittenBody(body.parts, body.value[2]) \o Word("}")

QuoteMark == [Quote |-> "'", QuasiQuote |-> "backquote", QuasiUnquote |-> ",", Splice |-> "@"]

Written(n) ==
  LET count == Len(n.parts)
      first == n.parts[1]
  IN CASE n.kind = "Identifier" /\ n.value = Symbol("f:") ->
            Word("(") \o <<n.value[2]>> \o Word(")")
       [] n.kind = "Identifier" /\ n.value # Symbol("f:") -> <<n.value[2]>>
       [] n.kind = "Literal" -> Word(CHOOSE lexeme \in DOMAIN Lexemes : Lexemes[lexeme] = n.value)
       [] n.kind \in DOMAIN QuoteMark ->
            <<<<"backquote", QuoteMark[n.kind]>>>> \o Operand(7, first)
       [] n.kind = "Send" ->
            WrittenSend(n, first, SelectorOfSend(n), SubSeq(n.parts, 3, count))
       [] n.kind = "BinarySequence" ->
            FlattenSeq([i \in 1 .. count |->
                          IF i % 2 = 0 THEN <<n.parts[i].value[2]>> ELSE Operand(5, n.parts[i])])
       [] n.kind = "Application" -> Keywords(4, first.value[2], Tail(n.parts))
       [] n.kind = "Message" -> WrittenMessage(first.value[2], Tail(n.parts), 4)
       [] n.kind = "Chain" -> WrittenChain(first, n.parts[2], SubSeq(n.parts, 3, count))
       [] n.kind = "Sequence" -> Separated(0, n.parts, Word(";"))
       [] n.kind = "SExpression" ->
            Operand(5, first) \o Word("(") \o Separated(1, Tail(n.parts), Word(",")) \o Word(")")
       [] n.kind = "MakeArray" /\ Level(n) = 7 ->
            Word(IF count = 0 THEN "(" ELSE "#(") \o Separated(0, n.parts, <<>>) \o Word(")")
       [] n.kind = "MakeArray" /\ Level(n) = 0 ->
            Separated(1, n.parts, Word(",")) \o (IF count = 1 THEN Word(",") ELSE <<>>)
       [] n.kind = "MakeByteArray" ->
            Word("#[") \o Separated(0, n.parts, Word(".")) \o Word("]")
       [] n.kind = "MakeDictionary" ->
            Word("#{") \o Separated(0, n.parts, Word(".")) \o Word("}")
       [] n.kind = "Association" -> WrittenAssociation(first, n.parts[2])
       [] n.kind = "Argument" -> WrittenArgument(n.value, first, n.parts[2])
       [] n.kind = "Pragma" ->
            Word("<") \o (IF count = 1 THEN <<first.value[2]>>
                          ELSE Keywords(5, first.value[2], Tail(n.parts))) \o Word(">")
       [] n.kind = "LexicalBlock" ->
            Word("{") \o WrittenBody(first.parts, first.value[2]) \o Word("}")
       [] n.kind = "Lambda" ->
            WrittenLambda(n.value, SubSeq(n.parts, 1, count - 2), n.parts[count - 1], n.parts[count])

\* What may stand between two lexemes.
Separators == << <<" ">>, <<"\n", "\t">>, <<"#", "*", "a", "*", "#">>, <<"#", "#", "a", "\n">> >>

Spelled(lexemes) ==
  FlattenSeq([i \in DOMAIN lexemes |-> lexemes[i] \o Separators[1 + (i % Len(Separators))]])

----------------------------------------------------------------------------
RInit ==
  \/ \E k \in DOMAIN Alphabets :
       typed = <<k>> /\ text = <<>> /\ tree = NoTree /\ room = MaxTyped[k]
  \/ \E name \in DOMAIN MaxAround :
       /\ typed = <<>> /\ tree = Seed(name) /\ room = MaxAround[name]
       /\ text = Spelled(Written(tree))

Type ==
  /\ typed # <<>> /\ room > 0
  /\ \E k \in DOMAIN Alphabets[typed[1]] :
       text' = text \o Characters(Alphabets[typed[1]][k])
  /\ room' = room - 1
  /\ UNCHANGED <<typed, tree>>

Enclose ==
  /\ typed = <<>> /\ room > 0
  /\ tree' \in Around(tree)
  /\ text' = Spelled(Written(tree'))
  /\ room' = room - 1
  /\ UNCHANGED typed

RNext == Type \/ Enclose

----------------------------------------------------------------------------
\* After the comma of `(a,)' the closing token is read as an erroneous term, and
\* given back only when nothing goes on from there: `(a,) b' is not read as the
\* array it is in `(a,)'.
Closing == {"RPARENT", "RBRACKET", "RCBRACKET", "DOT"}
ClosingIsTaken(tokens) ==
  \E i \in 3 .. Len(tokens) :
    /\ tokens[i - 2].kind = "COMMA" /\ tokens[i - 1].kind \in Closing
    /\ tokens[i].kind \notin Closing \cup {"COMMA", "SEMICOLON", "COLON"}

\* What a tree is written as is read as that tree: which messages bind closer,
\* from which side they associate, and where every construct ends.
ReadAs(parsed, t) == Shape(parsed.node) = Sequence(<<>>, <<t>>)
ReadsWhatIsWritten ==
  tree # NoTree /\ ~ClosingIsTaken(scan(text).tokens) => ReadAs(parseSourceCode(text), tree)

\* All nodes below a node, in the order of the text.
RECURSIVE NodesOf(_)
NodesOf(node) ==
  <<node>> \o FlattenSeq([i \in DOMAIN node.parts |-> NodesOf(node.parts[i])])

Piece(characters, from, to) == SubSeq(characters, from + 1, to)

\* A text is cut into tokens and, between them, blanks and comments: every token
\* is what its own characters are read as, and the characters left are none.
Cut(pieces, tokens) ==
  /\ \A i \in DOMAIN tokens :
       scan(Piece(pieces, tokens[i].start, tokens[i].end)).tokens
         = << [tokens[i] EXCEPT !.start = 0, !.end = @ - tokens[i].start] >>
  /\ \A i \in 0 .. Len(tokens) :
       LET from == IF i = 0 THEN 0 ELSE tokens[i].end
           to == IF i = Len(tokens) THEN Len(pieces) ELSE tokens[i + 1].start
       IN from <= to /\ scan(Piece(pieces, from, to)).tokens = <<>>
TokensTile == Cut(text, scan(text).tokens)

ValueKinds == LiteralKinds \cup {"IDENTIFIER", "OPERATOR", "MULTI_KEYWORD"}

Inside(inner, outer) == outer[1] <= inner[1] /\ inner[2] <= outer[2]
InDroppedArguments(token, nodes) ==
  \E i \in DOMAIN nodes :
    nodes[i].kind = "LexicalBlock"
      /\ Inside(<<token.start, token.end>>, <<nodes[i].at[1], nodes[i].parts[1].at[1]>>)
LeavesOf(token, nodes) ==
  {i \in DOMAIN nodes : nodes[i].kind \in {"Identifier", "Literal"}
                          /\ nodes[i].at = <<token.start, token.end>>}

AllFound(tokens, nodes) ==
  (\A i \in DOMAIN nodes : ~IsError(nodes[i])) =>
    \A i \in DOMAIN tokens :
      tokens[i].kind \in ValueKinds /\ ~InDroppedArguments(tokens[i], nodes)
        => Cardinality(LeavesOf(tokens[i], nodes)) = 1
AllIn(scanned, parsed) ==
  parsed.next # Beyond =>
    AllFound(SubSeq(scanned.tokens, 1, parsed.next - 1), NodesOf(parsed.node))

\* A text that is read without an error has each name and each constant in the
\* tree, once, as far as it is read.  (The arguments of a block without a bar are
\* left out; keywords are put together to selectors.)
NothingLost == AllIn(scan(text), parseSourceCode(text))

\* The nodes that stand for themselves: no selectors, keys and names of arguments,
\* which are symbols, no messages of a chain, and nothing that was not written.  (A text that starts
\* with `<' starts with a pragma.)
IsExpression(node) ==
  CASE node.kind = "Literal" -> node.value[1] # "symbol"
    [] node.kind = "Identifier" -> Last(node.value[2]) # ":"
    [] node.kind = "Sequence" -> node.parts # <<>>
    [] OTHER -> node.kind \notin {"Nothing", "Message", "Association", "Argument", "Pragma"}
SpellsItself(node, parsed) ==
  \/ ReadAs(parsed, Shape(node))
  \/ node.kind = "Sequence" /\ Shape(parsed.node) = Shape(node)
SpellsThemselves(nodes) ==
  (\A i \in DOMAIN nodes : ~IsError(nodes[i])) =>
    \A i \in DOMAIN nodes :
      IsExpression(nodes[i]) /\ lookAt(text, nodes[i].at[1] + 1) # "<" =>
        SpellsItself(nodes[i], parseSourceCode(Piece(text, nodes[i].at[1], nodes[i].at[2])))

\* Of a text whose tokens do not touch, the part a node says it is from is read as
\* that node.
AreApart(tokens) == \A i \in 2 .. Len(tokens) : tokens[i - 1].end < tokens[i].start
PositionsSpell ==
  AreApart(scan(text).tokens) => SpellsThemselves(NodesOf(parseSourceCode(text).node))
=============================================================================
