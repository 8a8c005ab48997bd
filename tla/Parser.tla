------------------------------- MODULE Parser --------------------------------
(***************************************************************************)
(* The parser (parser.c): recursive descent over the tokens of a text.     *)
(* The source s has its tokens and the size of its text.  Every function   *)
(* below reads the tokens from a position on and gives the node it makes   *)
(* and the position it has come to.                                        *)
(*                                                                         *)
(* A node has its kind, its value, its parts in one sequence whatever the  *)
(* slots of the code are called, and the range of the text it was read     *)
(* from.  An index out of the bounds of the tokens raises an error, which  *)
(* ends the parse: Beyond is the position of such a parse, where there is  *)
(* no token and nothing is accepted any more.                              *)
(***************************************************************************)
EXTENDS Scanner

Node(kind, value, parts, at) == [kind |-> kind, value |-> value, parts |-> parts, at |-> at]
Nothing == Node("Nothing", <<>>, <<>>, <<0, 0>>)
Beyond == 0

Got(node, next) == [node |-> node, next |-> next]
Listed(nodes, next) == [nodes |-> nodes, next |-> next]
Prepended(node, list) == Listed(<<node>> \o list.nodes, list.next)

IsError(node) == node.kind = "Error"
IsMissing(node) == node.kind = "Nothing"

lookKindAt(s, i) == IF i \in DOMAIN s.tokens THEN s.tokens[i].kind ELSE "none"

PositionOfToken(s, i) == <<s.tokens[i].start, s.tokens[i].end>>

sourcePositionForParserState(s, i) ==
  IF i \in DOMAIN s.tokens THEN PositionOfToken(s, i) ELSE <<s.size, s.size>>

OutOfBounds == <<>>

\* The text of the tokens from start to the one before next; of start alone
\* when there is none.
sourcePositionForTokenRange(s, start, next) ==
  LET last == IF next = start THEN start ELSE next - 1
  IN CASE s.tokens = <<>> -> <<0, 0>>
       [] s.tokens # <<>> /\ {start, last} \subseteq DOMAIN s.tokens ->
            <<s.tokens[start].start, s.tokens[last].end>>
       [] OTHER -> OutOfBounds

\* A node of the given range with the position come to; nothing out of bounds.
Placed(at, next, kind, value, parts) ==
  IF at = OutOfBounds THEN Got(Nothing, Beyond) ELSE Got(Node(kind, value, parts, at), next)
Built(s, start, next, kind, value, parts) ==
  Placed(sourcePositionForTokenRange(s, start, next), next, kind, value, parts)

ErrorAt(s, i) == Got(Node("Error", <<>>, <<>>, sourcePositionForParserState(s, i)), i)

unexpectedTokenAt(s, i) ==
  IF i \in DOMAIN s.tokens THEN [ErrorAt(s, i) EXCEPT !.next = i + 1] ELSE ErrorAt(s, i)

IdentifierNode(s, i) == Node("Identifier", s.tokens[i].value, <<>>, PositionOfToken(s, i))
LiteralNode(s, i) == Node("Literal", s.tokens[i].value, <<>>, PositionOfToken(s, i))
SymbolNode(symbol, at) == Node("Literal", <<"symbol", symbol>>, <<>>, at)

\* The rule by name, which is how the functions below call each other.
RECURSIVE Parse(_, _, _)

RECURSIVE SkipDots(_, _)
SkipDots(s, i) == IF lookKindAt(s, i) = "DOT" THEN SkipDots(s, i + 1) ELSE i

Closed(s, r, close) ==
  IF lookKindAt(s, r.next) = close THEN Got(r.node, r.next + 1) ELSE ErrorAt(s, r.next)

Bracketed(s, start, list, close, kind) ==
  IF lookKindAt(s, list.next) = close
  THEN Built(s, start, list.next + 1, kind, <<>>, list.nodes)
  ELSE ErrorAt(s, list.next)

----------------------------------------------------------------------------
(* Expressions with a dot between them, up to a delimiter or the end.      *)

RECURSIVE ExpressionsUntil(_, _, _)
AfterExpression(s, r, delimiter) ==
  CASE IsMissing(r.node) -> Listed(<<>>, r.next)
    [] ~IsMissing(r.node) /\ lookKindAt(s, r.next) = "DOT" ->
         Prepended(r.node, ExpressionsUntil(s, SkipDots(s, r.next), delimiter))
    [] OTHER -> Listed(<<r.node>>, r.next)
ExpressionsUntil(s, i, delimiter) ==
  IF lookKindAt(s, i) \in {"none", delimiter} THEN Listed(<<>>, i)
  ELSE AfterExpression(s, Parse("expression", s, SkipDots(s, i)), delimiter)

parseExpressionList(s, i) == ExpressionsUntil(s, i, "none")

----------------------------------------------------------------------------
(* Keywords with their arguments: the selector put together, the position  *)
(* after the last keyword, the arguments.                                  *)

RECURSIVE KeywordParts(_, _, _)
KeywordAndRest(s, i, argument, rest) ==
  [selector |-> s.tokens[i].value[2] \o rest.selector,
   last |-> IF rest.arguments = <<>> THEN i + 1 ELSE rest.last,
   arguments |-> <<argument>> \o rest.arguments, next |-> rest.next]
WithArgument(s, i, r, rule) == KeywordAndRest(s, i, r.node, KeywordParts(s, r.next, rule))
KeywordParts(s, i, rule) ==
  IF lookKindAt(s, i) = "KEYWORD" THEN WithArgument(s, i, Parse(rule, s, i + 1), rule)
  ELSE [selector |-> <<>>, last |-> i, arguments |-> <<>>, next |-> i]

\* The position of a selector is that of its first to its last keyword.
SelectorOf(s, start, parts) ==
  SymbolNode(parts.selector, sourcePositionForTokenRange(s, start, parts.last))

----------------------------------------------------------------------------
(* Pragmas and sequences.                                                  *)

PragmaEnd(s, start, selector, arguments, next) ==
  IF lookKindAt(s, next) = "GREATER_THAN"
  THEN Built(s, start, next + 1, "Pragma", <<>>, <<selector>> \o arguments)
  ELSE ErrorAt(s, next)
\* The position of the selector is that of its first keyword.
KeywordPragma(s, start, parts) ==
  PragmaEnd(s, start, SymbolNode(parts.selector, PositionOfToken(s, start + 1)),
            parts.arguments, parts.next)
parsePragma(s, i) ==
  CASE lookKindAt(s, i + 1) = "IDENTIFIER" ->
         PragmaEnd(s, i, LiteralNode(s, i + 1), <<>>, i + 2)
    [] lookKindAt(s, i + 1) = "KEYWORD" ->
         KeywordPragma(s, i, KeywordParts(s, i + 1, "unary"))
    [] OTHER -> ErrorAt(s, i + 1)

RECURSIVE parsePragmaList(_, _)
PragmaAndRest(s, r) == Prepended(r.node, parsePragmaList(s, r.next))
parsePragmaList(s, i) ==
  IF lookKindAt(s, i) = "LESS_THAN" THEN PragmaAndRest(s, parsePragma(s, i))
  ELSE Listed(<<>>, i)

SequenceOf(s, start, pragmas, expressions) ==
  Built(s, start, expressions.next, "Sequence", <<"pragmas", Len(pragmas)>>,
        pragmas \o expressions.nodes)
SequenceAfter(s, start, pragmas, delimiter) ==
  SequenceOf(s, start, pragmas.nodes, ExpressionsUntil(s, pragmas.next, delimiter))
parseSequence(s, i) == SequenceAfter(s, i, parsePragmaList(s, i), "none")
parseSequenceUntil(s, i) == SequenceAfter(s, i, parsePragmaList(s, i), "RCBRACKET")

----------------------------------------------------------------------------
(* Terms.                                                                  *)

parseParenthesesExpression(s, i) ==
  CASE lookKindAt(s, i + 1) = "KEYWORD" /\ lookKindAt(s, i + 2) = "RPARENT" ->
         Got(IdentifierNode(s, i + 1), i + 3)
    [] lookKindAt(s, i + 1) = "RPARENT" -> Built(s, i, i + 2, "MakeArray", <<>>, <<>>)
    [] OTHER -> Closed(s, Parse("expression", s, i + 1), "RPARENT")

ArgumentNamed(s, start, forAll, type, i) ==
  IF lookKindAt(s, i) = "IDENTIFIER"
  THEN Built(s, start, i + 1, "Argument", forAll, <<type, LiteralNode(s, i)>>)
  ELSE ErrorAt(s, i)
ArgumentTyped(s, start, forAll, type) ==
  IF lookKindAt(s, type.next) = "RPARENT"
  THEN ArgumentNamed(s, start, forAll, type.node, type.next + 1)
  ELSE ErrorAt(s, type.next)
ArgumentAfter(s, start, forAll, i) ==
  IF lookKindAt(s, i) = "LPARENT"
  THEN ArgumentTyped(s, start, forAll, Parse("expression", s, i + 1))
  ELSE ArgumentNamed(s, start, forAll, Nothing, i)
parseBlockArgument(s, i) ==
  IF lookKindAt(s, i + 1) = "STAR" THEN ArgumentAfter(s, i, <<"forAll">>, i + 2)
  ELSE ArgumentAfter(s, i, <<>>, i + 1)

RECURSIVE BlockArguments(_, _)
ArgumentAndRest(s, r) == Prepended(r.node, BlockArguments(s, r.next))
BlockArguments(s, i) ==
  IF lookKindAt(s, i) = "COLON" THEN ArgumentAndRest(s, parseBlockArgument(s, i))
  ELSE Listed(<<>>, i)

\* Without the bar the arguments are dropped and the block is a lexical one.
BlockEnd(s, start, hasBar, flags, head, body) ==
  CASE lookKindAt(s, body.next) # "RCBRACKET" -> ErrorAt(s, body.next)
    [] lookKindAt(s, body.next) = "RCBRACKET" /\ hasBar ->
         Built(s, start, body.next + 1, "Lambda", flags, head \o <<body.node>>)
    [] OTHER -> Built(s, start, body.next + 1, "LexicalBlock", <<>>, <<body.node>>)
BlockBody(s, start, flags, arguments, type, hasResultType) ==
  LET hasBar == lookKindAt(s, type.next) = "BAR"
  IN IF hasResultType /\ ~hasBar THEN ErrorAt(s, type.next)
     ELSE BlockEnd(s, start, hasBar, flags, arguments \o <<type.node>>,
                   Parse("block sequence", s, IF hasBar THEN type.next + 1 ELSE type.next))
BlockResultType(s, start, flags, arguments, i) ==
  IF lookKindAt(s, i) = "COLON_COLON"
  THEN BlockBody(s, start, flags, arguments, Parse("unary", s, i + 1), TRUE)
  ELSE BlockBody(s, start, flags, arguments, Got(Nothing, i), FALSE)
BlockHead(s, start, arguments) ==
  IF arguments.nodes # <<>> /\ lookKindAt(s, arguments.next) = "ELLIPSIS"
  THEN BlockResultType(s, start, <<"variadic">>, arguments.nodes, arguments.next + 1)
  ELSE BlockResultType(s, start, <<>>, arguments.nodes, arguments.next)
parseBlockExpression(s, i) == BlockHead(s, i, BlockArguments(s, i + 1))

\* Between the brackets of a literal byte array there are integers and dots.
RECURSIVE LiteralBytes(_, _)
LiteralBytes(s, i) ==
  CASE lookKindAt(s, i) = "DOT" -> LiteralBytes(s, i + 1)
    [] lookKindAt(s, i) = "INTEGER" -> Prepended(LiteralNode(s, i), LiteralBytes(s, i + 1))
    [] OTHER -> Listed(<<>>, i)
parseLiteralByteArrayExpression(s, i) ==
  Bracketed(s, i, LiteralBytes(s, i + 1), "RBRACKET", "MakeByteArray")

LiteralKinds == {"CHARACTER", "INTEGER", "FLOAT", "STRING", "SYMBOL"}
OperatorKinds == {"OPERATOR", "STAR", "LESS_THAN", "GREATER_THAN", "BAR"}

parseLiteralArrayElement(s, i) ==
  LET kind == lookKindAt(s, i)
  IN CASE kind = "none" -> Got(Nothing, i)
       [] kind \in LiteralKinds \cup OperatorKinds
            \cup {"IDENTIFIER", "ELLIPSIS", "MULTI_KEYWORD", "KEYWORD", "COLON",
                  "COLON_COLON", "COMMA", "DOT"} -> Got(LiteralNode(s, i), i + 1)
       [] kind \in {"LPARENT", "LITERAL_ARRAY_START"} -> Parse("literal array", s, i)
       [] kind = "BYTE_ARRAY_START" -> parseLiteralByteArrayExpression(s, i)
       [] OTHER -> unexpectedTokenAt(s, i)

RECURSIVE LiteralElements(_, _)
ElementAndRest(s, r) == Prepended(r.node, LiteralElements(s, r.next))
LiteralElements(s, i) ==
  IF lookKindAt(s, i) \in {"none", "RPARENT"} THEN Listed(<<>>, i)
  ELSE ElementAndRest(s, parseLiteralArrayElement(s, i))
parseLiteralArrayExpression(s, i) ==
  Bracketed(s, i, LiteralElements(s, i + 1), "RPARENT", "MakeArray")

parseByteArrayExpression(s, i) ==
  Bracketed(s, i, ExpressionsUntil(s, i + 1, "RBRACKET"), "RBRACKET", "MakeByteArray")

AssociationOf(s, start, key, value) ==
  Built(s, start, value.next, "Association", <<>>, <<key, value.node>>)
AssociationValue(s, start, key, i) ==
  IF lookKindAt(s, i) \in {"DOT", "RCBRACKET"}
  THEN AssociationOf(s, start, key, Got(Nothing, i))
  ELSE AssociationOf(s, start, key, Parse("expression", s, i))
AssociationKey(s, start, key) ==
  CASE IsMissing(key.node) \/ IsError(key.node) -> key
    [] ~(IsMissing(key.node) \/ IsError(key.node)) /\ lookKindAt(s, key.next) = "COLON" ->
         AssociationValue(s, start, key.node, key.next + 1)
    [] OTHER -> AssociationOf(s, start, key.node, Got(Nothing, key.next))
\* The key of a keyword is its name without the colon.
KeywordKey(s, i) ==
  SymbolNode(Without(s.tokens[i].value[2], 0, 1), PositionOfToken(s, i))
parseDictionaryElement(s, i) ==
  IF lookKindAt(s, i) = "KEYWORD" THEN AssociationValue(s, i, KeywordKey(s, i), i + 1)
  ELSE AssociationKey(s, i, Parse("binary", s, i))

RECURSIVE DictionaryElements(_, _)
AfterAssociation(s, r) ==
  CASE IsMissing(r.node) -> Listed(<<>>, r.next)
    [] ~IsMissing(r.node) /\ lookKindAt(s, r.next) = "DOT" /\ ~IsError(r.node) ->
         Prepended(r.node, DictionaryElements(s, SkipDots(s, r.next)))
    [] OTHER -> Listed(<<r.node>>, r.next)
DictionaryElements(s, i) ==
  IF lookKindAt(s, i) = "RCBRACKET" THEN Listed(<<>>, i)
  ELSE AfterAssociation(s, parseDictionaryElement(s, i))
parseDictionaryElements(s, i) == DictionaryElements(s, SkipDots(s, i))
parseDictionaryExpression(s, i) ==
  Bracketed(s, i, parseDictionaryElements(s, i + 1), "RCBRACKET", "MakeDictionary")

parsePrimaryTerm(s, i) ==
  LET kind == lookKindAt(s, i)
  IN CASE kind = "none" -> Got(Nothing, i)
       [] kind \in OperatorKinds \cup {"IDENTIFIER", "ELLIPSIS", "MULTI_KEYWORD"} ->
            Got(IdentifierNode(s, i), i + 1)
       [] kind \in LiteralKinds -> Got(LiteralNode(s, i), i + 1)
       [] kind = "LPARENT" -> parseParenthesesExpression(s, i)
       [] kind = "LCBRACKET" -> Parse("block", s, i)
       [] kind = "LITERAL_ARRAY_START" -> Parse("literal array", s, i)
       [] kind = "BYTE_ARRAY_START" -> Parse("byte array", s, i)
       [] kind = "DICTIONARY_START" -> Parse("dictionary", s, i)
       [] OTHER -> unexpectedTokenAt(s, i)

----------------------------------------------------------------------------
(* Quotes apply to a term.                                                 *)

QuotedTerm(s, start, kind, term) == Built(s, start, term.next, kind, <<>>, <<term.node>>)
parseQuote(s, i) == QuotedTerm(s, i, "Quote", Parse("term", s, i + 1))
parseQuasiQuote(s, i) == QuotedTerm(s, i, "QuasiQuote", Parse("term", s, i + 1))
parseQuasiUnquote(s, i) == QuotedTerm(s, i, "QuasiUnquote", Parse("term", s, i + 1))
parseSplice(s, i) == QuotedTerm(s, i, "Splice", Parse("term", s, i + 1))

parsePrimaryExpression(s, i) ==
  CASE lookKindAt(s, i) = "QUOTE" -> parseQuote(s, i)
    [] lookKindAt(s, i) = "QUASI_QUOTE" -> parseQuasiQuote(s, i)
    [] lookKindAt(s, i) = "QUASI_UNQUOTE" -> parseQuasiUnquote(s, i)
    [] lookKindAt(s, i) = "SPLICE" -> parseSplice(s, i)
    [] OTHER -> Parse("term", s, i)

----------------------------------------------------------------------------
(* What may follow a receiver that started at `start'.                     *)

SendAt(at, next, receiver, selector, arguments) ==
  Placed(at, next, "Send", <<>>, <<receiver, SymbolNode(selector, at)>> \o arguments)
SendSymbol(s, start, next, receiver, selector, arguments) ==
  SendAt(sourcePositionForTokenRange(s, start, next), next, receiver, selector, arguments)

\* Elements with commas between them.
RECURSIVE CommaElements(_, _)
AfterElement(s, r) ==
  IF lookKindAt(s, r.next) = "COMMA" THEN Prepended(r.node, CommaElements(s, r.next + 1))
  ELSE Listed(<<r.node>>, r.next)
CommaElements(s, i) == AfterElement(s, Parse("assignment", s, i))

CallOf(s, start, receiver, arguments) ==
  IF lookKindAt(s, arguments.next) = "RPARENT"
  THEN Built(s, start, arguments.next + 1, "SExpression", <<>>, <<receiver>> \o arguments.nodes)
  ELSE ErrorAt(s, arguments.next)
parseCallExpressionWithReceiver(s, start, receiver, i) ==
  CallOf(s, start, receiver,
         IF lookKindAt(s, i + 1) \in {"none", "RPARENT"} THEN Listed(<<>>, i + 1)
         ELSE CommaElements(s, i + 1))

SubscriptOf(s, start, receiver, argument) ==
  CASE lookKindAt(s, argument.next) # "RBRACKET" -> ErrorAt(s, argument.next)
    [] lookKindAt(s, argument.next) = "RBRACKET" /\ IsMissing(argument.node) ->
         SendSymbol(s, start, argument.next + 1, receiver, <<"[", "]">>, <<>>)
    [] OTHER ->
         SendSymbol(s, start, argument.next + 1, receiver, <<"[", "]", ":">>, <<argument.node>>)
parseSubscriptExpressionWithReceiver(s, start, receiver, i) ==
  SubscriptOf(s, start, receiver,
              IF lookKindAt(s, i + 1) \in {"none", "RBRACKET"} THEN Got(Nothing, i + 1)
              ELSE Parse("expression", s, i + 1))

Applied(s, start, receiver, selector, r) ==
  SendSymbol(s, start, r.next, receiver, selector, <<r.node>>)
parseApplyBlockExpressionWithReceiver(s, start, receiver, i) ==
  Applied(s, start, receiver, <<"{", "}", ":">>, Parse("block", s, i))
parseApplyByteArrayExpressionWithReceiver(s, start, receiver, i) ==
  Applied(s, start, receiver, <<"#", "[", "]", ":">>, Parse("byte array", s, i))
parseApplyDictionaryWithReceiver(s, start, receiver, i) ==
  Applied(s, start, receiver, <<"#", "{", "}", ":">>, Parse("dictionary", s, i))

makeUnaryMessageSend(s, start, receiver, selector, next) ==
  Built(s, start, next, "Send", <<>>, <<receiver, selector>>)
UnquotedSend(s, start, receiver, selector) ==
  makeUnaryMessageSend(s, start, receiver, selector.node, selector.next)

RECURSIVE UnaryFrom(_, _, _)
UnaryFrom(s, start, r) ==
  CASE lookKindAt(s, r.next) = "IDENTIFIER" ->
         UnaryFrom(s, start, makeUnaryMessageSend(s, start, r.node, LiteralNode(s, r.next), r.next + 1))
    [] lookKindAt(s, r.next) = "QUASI_UNQUOTE" ->
         UnaryFrom(s, start, UnquotedSend(s, start, r.node, parseQuasiUnquote(s, r.next)))
    [] lookKindAt(s, r.next) = "LPARENT" ->
         UnaryFrom(s, start, parseCallExpressionWithReceiver(s, start, r.node, r.next))
    [] lookKindAt(s, r.next) = "LCBRACKET" ->
         UnaryFrom(s, start, parseApplyBlockExpressionWithReceiver(s, start, r.node, r.next))
    [] lookKindAt(s, r.next) = "LBRACKET" ->
         UnaryFrom(s, start, parseSubscriptExpressionWithReceiver(s, start, r.node, r.next))
    [] lookKindAt(s, r.next) = "BYTE_ARRAY_START" ->
         UnaryFrom(s, start, parseApplyByteArrayExpressionWithReceiver(s, start, r.node, r.next))
    [] lookKindAt(s, r.next) = "DICTIONARY_START" ->
         UnaryFrom(s, start, parseApplyDictionaryWithReceiver(s, start, r.node, r.next))
    [] OTHER -> r
parseUnaryExpression(s, i) == UnaryFrom(s, i, parsePrimaryExpression(s, i))

----------------------------------------------------------------------------
(* Binary expressions: the operators and operands after the first operand, *)
(* in the order of the text.                                               *)

isBinaryExpressionOperator(kind) == kind \in OperatorKinds

RECURSIVE OperatorsAndOperands(_, _)
OperandAndRest(s, operator, r) ==
  Prepended(operator, Prepended(r.node, OperatorsAndOperands(s, r.next)))
OperatorsAndOperands(s, i) ==
  IF isBinaryExpressionOperator(lookKindAt(s, i))
  THEN OperandAndRest(s, LiteralNode(s, i), Parse("unary", s, i + 1))
  ELSE Listed(<<>>, i)

\* One operation is a message, several are left to be ordered later.
BinaryOf(s, start, first, rest) ==
  Built(s, start, rest.next, IF Len(rest.nodes) = 2 THEN "Send" ELSE "BinarySequence",
        <<>>, <<first>> \o rest.nodes)
BinaryFrom(s, start, first) ==
  IF isBinaryExpressionOperator(lookKindAt(s, first.next))
  THEN BinaryOf(s, start, first.node, OperatorsAndOperands(s, first.next))
  ELSE first
parseBinaryExpression(s, i) == BinaryFrom(s, i, Parse("unary", s, i))

----------------------------------------------------------------------------
(* Keyword messages and chains of messages.                                *)

ApplicationOf(s, start, parts) ==
  Built(s, start, parts.next, "Application", <<>>,
        <<[SelectorOf(s, start, parts) EXCEPT !.kind = "Identifier"]>> \o parts.arguments)
parseMessageWithoutReceiver(s, i) ==
  IF lookKindAt(s, i) = "KEYWORD" THEN ApplicationOf(s, i, KeywordParts(s, i, "binary"))
  ELSE ErrorAt(s, i)

RECURSIVE MessagesWithoutReceiver(_, _)
MessagesWithoutReceiver(s, r) ==
  IF lookKindAt(s, r.next) = "SEMICOLON"
  THEN Prepended(r.node, MessagesWithoutReceiver(s, parseMessageWithoutReceiver(s, r.next + 1)))
  ELSE Listed(<<r.node>>, r.next)

MessageOf(s, start, selector, arguments, next) ==
  Built(s, start, next, "Message", <<>>, <<selector>> \o arguments)
KeywordMessage(s, start, parts) ==
  MessageOf(s, start, SelectorOf(s, start, parts), parts.arguments, parts.next)
OperatorMessage(s, start, r) == MessageOf(s, start, LiteralNode(s, start), <<r.node>>, r.next)

ChainedMessage(s, i) ==
  LET kind == lookKindAt(s, i)
  IN CASE kind = "KEYWORD" -> KeywordMessage(s, i, KeywordParts(s, i, "binary"))
       [] kind \in OperatorKinds -> OperatorMessage(s, i, Parse("binary", s, i + 1))
       [] kind = "IDENTIFIER" -> MessageOf(s, i, LiteralNode(s, i), <<>>, i + 1)
       [] OTHER -> [ErrorAt(s, i) EXCEPT !.next = i + 1]

RECURSIVE ChainedMessages(_, _)
MessageAndRest(s, r) == Prepended(r.node, ChainedMessages(s, r.next))
ChainedMessages(s, i) ==
  IF lookKindAt(s, i) = "SEMICOLON" THEN MessageAndRest(s, ChainedMessage(s, i + 1))
  ELSE Listed(<<>>, i)

ChainOf(s, start, receiver, messages) ==
  Built(s, start, messages.next, "Chain", <<>>, <<receiver>> \o messages.nodes)
parseMessageChainList(s, start, receiver, first) ==
  ChainOf(s, start, receiver, MessageAndRest(s, first))

KeywordSend(s, start, receiver, i, parts) ==
  IF lookKindAt(s, parts.next) = "SEMICOLON"
  THEN parseMessageChainList(s, start, receiver, KeywordMessage(s, i, parts))
  ELSE Built(s, start, parts.next, "Send", <<>>,
             <<receiver, SelectorOf(s, i, parts)>> \o parts.arguments)

Cascade(s, start, messages) ==
  Built(s, start, messages.next, "Sequence", <<"pragmas", 0>>, messages.nodes)
CascadeFrom(s, start, first) ==
  IF lookKindAt(s, first.next) = "SEMICOLON"
  THEN Cascade(s, start, MessagesWithoutReceiver(s, first)) ELSE first

\* The message of a chain that starts with a send has the send's position.
ChainFrom(s, start, r) ==
  CASE lookKindAt(s, r.next) = "KEYWORD" ->
         KeywordSend(s, start, r.node, r.next, KeywordParts(s, r.next, "binary"))
    [] lookKindAt(s, r.next) = "SEMICOLON" /\ r.node.kind = "Send" ->
         parseMessageChainList(s, start, r.node.parts[1],
           Got(Node("Message", <<>>, Tail(r.node.parts), r.node.at), r.next))
    [] lookKindAt(s, r.next) = "SEMICOLON" /\ r.node.kind # "Send" -> ErrorAt(s, r.next)
    [] OTHER -> r
parseChainExpression(s, i) ==
  IF lookKindAt(s, i) = "KEYWORD" THEN CascadeFrom(s, i, parseMessageWithoutReceiver(s, i))
  ELSE ChainFrom(s, i, Parse("binary", s, i))

----------------------------------------------------------------------------
\* A plausible error: the position starts with the message.
makeBinaryMessageSend_fromSelector(s, start, receiver, selector, argument) ==
  Placed(<<selector.at[1], argument.node.at[2]>>, argument.next, "Send", <<>>,
         <<receiver, selector, argument.node>>)
makeBinaryMessageSend(s, start, receiver, selector, argument) ==
  Built(s, start, argument.next, "Send", <<>>, <<receiver, selector, argument.node>>)

RECURSIVE LowPrecedenceFrom(_, _, _)
LowPrecedenceFrom(s, start, r) ==
  IF lookKindAt(s, r.next) = "COLON_COLON"
       /\ isBinaryExpressionOperator(lookKindAt(s, r.next + 1))
  THEN LowPrecedenceFrom(s, start,
         makeBinaryMessageSend(s, start, r.node, LiteralNode(s, r.next + 1),
                               Parse("chain", s, r.next + 2)))
  ELSE r
parseLowPrecedenceExpression(s, i) == LowPrecedenceFrom(s, i, Parse("chain", s, i))

\* A plausible error: assignments associate to the left.
AssignmentFrom_toTheLeft(s, start, r) ==
  IF lookKindAt(s, r.next) = "ASSIGNMENT"
  THEN makeBinaryMessageSend(s, start, r.node, LiteralNode(s, r.next),
                             Parse("chain", s, r.next + 1))
  ELSE r
AssignmentFrom(s, start, r) ==
  IF lookKindAt(s, r.next) = "ASSIGNMENT"
  THEN makeBinaryMessageSend(s, start, r.node, LiteralNode(s, r.next),
                             Parse("assignment", s, r.next + 1))
  ELSE r
parseAssignmentExpression(s, i) == AssignmentFrom(s, i, parseLowPrecedenceExpression(s, i))

\* What follows a comma and is no expression is given back.
RECURSIVE MoreElements(_, _)
\* A plausible error: it is not given back.
AfterComma_keepsPosition(s, saved, r) ==
  IF IsMissing(r.node) \/ IsError(r.node) THEN Listed(<<>>, r.next)
  ELSE Prepended(r.node, MoreElements(s, r.next))
AfterComma(s, saved, r) ==
  CASE r.next = Beyond -> Listed(<<>>, Beyond)
    [] r.next # Beyond /\ (IsMissing(r.node) \/ IsError(r.node)) -> Listed(<<>>, saved)
    [] OTHER -> Prepended(r.node, MoreElements(s, r.next))
MoreElements(s, i) ==
  IF lookKindAt(s, i) = "COMMA" THEN AfterComma(s, i + 1, Parse("assignment", s, i + 1))
  ELSE Listed(<<>>, i)

ArrayOf(s, start, first, rest) ==
  Built(s, start, rest.next, "MakeArray", <<>>, <<first>> \o rest.nodes)
CommaFrom(s, start, first) ==
  IF lookKindAt(s, first.next) = "COMMA"
  THEN ArrayOf(s, start, first.node, MoreElements(s, first.next)) ELSE first
parseCommaExpression(s, i) == CommaFrom(s, i, Parse("assignment", s, i))

----------------------------------------------------------------------------
Parse(rule, s, i) ==
  CASE rule = "term" -> parsePrimaryTerm(s, i)
    [] rule = "block" -> parseBlockExpression(s, i)
    [] rule = "block sequence" -> parseSequenceUntil(s, i)
    [] rule = "literal array" -> parseLiteralArrayExpression(s, i)
    [] rule = "byte array" -> parseByteArrayExpression(s, i)
    [] rule = "dictionary" -> parseDictionaryExpression(s, i)
    [] rule = "unary" -> parseUnaryExpression(s, i)
    [] rule = "binary" -> parseBinaryExpression(s, i)
    [] rule = "chain" -> parseChainExpression(s, i)
    [] rule = "assignment" -> parseAssignmentExpression(s, i)
    [] rule = "expression" -> parseCommaExpression(s, i)
    [] rule = "sequence" -> parseSequence(s, i)

\* Only some of the tokens may have been read: next says how far.
parseTokens(s) == Parse("sequence", s, 1)

ParsedTokens(scanned, size) ==
  IF scanned.raised THEN Got(Nothing, Beyond)
  ELSE parseTokens([tokens |-> scanned.tokens, size |-> size])
parseSourceCode(text) == ParsedTokens(scan(text), Len(text))
=============================================================================
