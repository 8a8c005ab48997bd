------------------------------- MODULE Scanner -------------------------------
(***************************************************************************)
(* The scanner (scanner.c): a text, a sequence of characters, is cut into  *)
(* tokens.  A token has its kind, the indices of its first character and   *)
(* of the one after its last, from 0 as in the code, and its value.  The   *)
(* positions below count from 1.                                           *)
(*                                                                         *)
(* The classes of characters are those of the code, of which the texts     *)
(* checked use some.  A value is tagged with the kind of object it is.     *)
(* The backquote, which a string of TLA+ cannot have, goes by its name.    *)
(***************************************************************************)
EXTENDS LargeIntegers

Letters == {"a", "b", "c", "e", "f", "g", "r", "t", "E", "F", "R"}
isDigit(c) == IsDecimalDigit(c)
isIdentifierStart(c) == c \in Letters \cup {"_"}
isIdentifierMiddle(c) == isIdentifierStart(c) \/ isDigit(c)
isDigitOrUnderscore(c) == isDigit(c) \/ c = "_"
isSign(c) == c \in {"+", "-"}
isOperatorCharacter(c) ==
  c \in {"+", "-", "/", "\\", "*", "~", "<", ">", "=", "@", "%", "|", "&", "?", "!", "^"}
isBlank(c) == c \in {" ", "\t", "\n", "\r"}

End == "end"   \* what is found past the last character
lookAt(text, i) == IF i \in DOMAIN text THEN text[i] ELSE End

\* The first position from i on whose character is not of the class.
RECURSIVE AfterAll(_, _, _)
AfterAll(text, i, class) ==
  LET c == lookAt(text, i)
  IN IF CASE class = "identifier" -> isIdentifierMiddle(c)
          [] class = "digits" -> isDigitOrUnderscore(c)
          [] class = "operator" -> isOperatorCharacter(c)
          [] class = "blank" -> isBlank(c)
          [] class = "line" -> c \notin {"\n", "\r", End}
     THEN AfterAll(text, i + 1, class) ELSE i

----------------------------------------------------------------------------
(* The values of tokens.                                                   *)

Escaped(c) == CASE c = "t" -> "\t" [] c = "r" -> "\r" [] c = "n" -> "\n" [] OTHER -> c

RECURSIVE Unescaped(_)
Unescaped(string) ==
  CASE string = <<>> -> <<>>
    [] string # <<>> /\ string[1] = "\\" ->
         <<Escaped(string[2])>> \o Unescaped(SubSeq(string, 3, Len(string)))
    [] OTHER -> <<string[1]>> \o Unescaped(Tail(string))

Without(string, prefix, suffix) == SubSeq(string, prefix + 1, Len(string) - suffix)

tokenAsSymbol(string) == <<"symbol", string>>
tokenAsSymbolWithoutPrefix(string) == <<"symbol", Tail(string)>>
tokenAsInteger(string) == <<"integer", parseString(string)>>
tokenAsString(string) == <<"string", Unescaped(Without(string, 1, 1))>>
tokenAsSymbolString(string) == <<"symbol", Unescaped(Without(string, 2, 1))>>
\* Of several characters between the quotes the first counts.
tokenAsCharacter(string) ==
  <<"character", CASE Len(string) = 2 -> "NUL"
                   [] Len(string) >= 4 /\ string[2] = "\\" -> Escaped(string[3])
                   [] OTHER -> string[2]>>
\* float64_parseString reads the digits of the token.
tokenAsFloat(string) == <<"float", string>>

Token(kind, text, start, end, value) ==
  [kind |-> kind, start |-> start - 1, end |-> end - 1, value |-> value]

Lexeme(text, start, end) == SubSeq(text, start, end - 1)

SymbolToken(kind, text, start, end) ==
  Token(kind, text, start, end, tokenAsSymbol(Lexeme(text, start, end)))
ErrorToken(text, start, end, what) == Token("ERROR", text, start, end, <<"error", what>>)

----------------------------------------------------------------------------
(* Blanks and comments.                                                    *)

skipSingleLineComment(text, i) ==
  LET end == AfterAll(text, i + 2, "line")
  IN IF lookAt(text, end) = End THEN end ELSE end + 1

\* A plausible error: the last character of the comment is left.
skipMultiLineComment_keepsHash(text, i) ==
  LET ends == {k \in i + 2 .. Len(text) - 1 : text[k] = "*" /\ text[k + 1] = "#"}
  IN IF ends = {} THEN Len(text) + 1 ELSE Min(ends) + 1
\* Past the end of the text when the comment is not closed.
skipMultiLineComment(text, i) ==
  LET ends == {k \in i + 2 .. Len(text) - 1 : text[k] = "*" /\ text[k + 1] = "#"}
  IN IF ends = {} THEN Len(text) + 1 ELSE Min(ends) + 2

IsUnclosed(text, i) == lookAt(text, i) = "#" /\ lookAt(text, i + 1) = "*"
                       /\ ~\E k \in i + 2 .. Len(text) - 1 : text[k] = "*" /\ text[k + 1] = "#"

\* The position of the next token, or of a comment that is not closed.
RECURSIVE skipWhiteAndComments(_, _)
skipWhiteAndComments(text, i) ==
  LET start == AfterAll(text, i, "blank")
      second == lookAt(text, start + 1)
  IN CASE lookAt(text, start) = "#" /\ second = "#" ->
            skipWhiteAndComments(text, skipSingleLineComment(text, start))
       [] lookAt(text, start) = "#" /\ second = "*" /\ ~IsUnclosed(text, start) ->
            skipWhiteAndComments(text, skipMultiLineComment(text, start))
       [] OTHER -> start

----------------------------------------------------------------------------
(* Tokens that start with a letter or `_'.                                 *)

\* i itself when no keyword starts there.
advanceKeyword(text, i) ==
  LET end == AfterAll(text, i, "identifier")
  IN IF isIdentifierStart(lookAt(text, i)) /\ lookAt(text, end) = ":" THEN end + 1 ELSE i

RECURSIVE AfterKeywords(_, _)
AfterKeywords(text, i) ==
  LET next == advanceKeyword(text, i)
  IN IF next = i THEN i ELSE AfterKeywords(text, next)

IsScope(text, i) == lookAt(text, i) = ":" /\ lookAt(text, i + 1) = ":"

\* The scopes a name goes on with.
RECURSIVE AfterScopes(_, _)
AfterScopes(text, i) ==
  IF IsScope(text, i) /\ isIdentifierStart(lookAt(text, i + 2))
  THEN AfterScopes(text, AfterAll(text, i + 2, "identifier"))
  ELSE i

scanName(text, start) ==
  LET name == AfterScopes(text, AfterAll(text, start, "identifier"))
      keywords == AfterKeywords(text, name + 1)
  IN CASE IsScope(text, name) /\ isOperatorCharacter(lookAt(text, name + 2)) ->
            SymbolToken("OPERATOR", text, start, AfterAll(text, name + 2, "operator"))
       [] ~(IsScope(text, name) /\ isOperatorCharacter(lookAt(text, name + 2)))
            /\ lookAt(text, name) = ":" ->
            SymbolToken(IF keywords = name + 1 THEN "KEYWORD" ELSE "MULTI_KEYWORD",
                        text, start, keywords)
       [] OTHER -> SymbolToken("IDENTIFIER", text, start, name)

----------------------------------------------------------------------------
(* Numbers.                                                                *)

\* A point belongs to the number when a digit follows it, or a sign and a digit.
StartsFraction(text, i) ==
  /\ lookAt(text, i) = "."
  /\ \/ isDigit(lookAt(text, i + 1))
     \/ isSign(lookAt(text, i + 1)) /\ isDigit(lookAt(text, i + 2))

\* The sign is looked for after the first decimal, and taken with it: `1.5+3'
\* is one token.  Of an exponent with a sign the scanner takes nothing.
AfterFraction(text, point) ==
  LET skipped == IF isSign(lookAt(text, point + 2)) THEN point + 3 ELSE point + 2
      decimals == AfterAll(text, skipped, "digits")
  IN IF lookAt(text, decimals) \in {"e", "E"}
     THEN IF isSign(lookAt(text, decimals + 1)) THEN AfterAll(text, decimals, "digits")
          ELSE AfterAll(text, decimals + 1, "digits")
     ELSE decimals

scanNumber(text, start) ==
  LET digits == AfterAll(text, start + 1, "digits")
      end == IF lookAt(text, digits) \in {"r", "R"}
             THEN AfterAll(text, digits + 1, "identifier") ELSE digits
  IN IF end = digits /\ StartsFraction(text, digits)
     THEN LET after == AfterFraction(text, digits)
          IN Token("FLOAT", text, start, after, tokenAsFloat(Lexeme(text, start, after)))
     ELSE Token("INTEGER", text, start, end, tokenAsInteger(Lexeme(text, start, end)))

----------------------------------------------------------------------------
(* Strings, characters and symbols.                                        *)

\* The position of the closing quote; past the text when there is none.
RECURSIVE ClosingQuote(_, _, _)
ClosingQuote(text, i, quote) ==
  CASE lookAt(text, i) \in {quote, End} -> i
    [] lookAt(text, i) = "\\" -> ClosingQuote(text, i + 2, quote)
    [] OTHER -> ClosingQuote(text, i + 1, quote)

scanQuoted(text, start, open, quote, kind, what) ==
  LET closing == ClosingQuote(text, open + 1, quote)
      string == Lexeme(text, start, closing + 1)
  IN IF lookAt(text, closing) = quote
     THEN Token(kind, text, start, closing + 1,
                CASE kind = "STRING" -> tokenAsString(string)
                  [] kind = "CHARACTER" -> tokenAsCharacter(string)
                  [] kind = "SYMBOL" -> tokenAsSymbolString(string))
     ELSE ErrorToken(text, start, Len(text) + 1, what)

\* The end of a symbol `#name', with scopes, an operator after the last of them,
\* or keywords.
RECURSIVE AfterSymbol(_, _)
AfterSymbol(text, i) ==
  CASE IsScope(text, i) /\ isIdentifierStart(lookAt(text, i + 2)) ->
         AfterSymbol(text, AfterAll(text, i + 2, "identifier"))
    [] IsScope(text, i) /\ isOperatorCharacter(lookAt(text, i + 2)) ->
         AfterAll(text, i + 2, "operator")
    [] OTHER -> IF lookAt(text, i) = ":" THEN AfterKeywords(text, i + 1) ELSE i

PrefixedSymbol(text, start, end) ==
  Token("SYMBOL", text, start, end, tokenAsSymbolWithoutPrefix(Lexeme(text, start, end)))

UnrecognizedToken(text, start) == ErrorToken(text, start, start + 1, "unrecognized token")

scanSymbol(text, start) ==
  LET c == lookAt(text, start + 1)
      kinds == [open \in {"[", "{", "("} |->
                  CASE open = "[" -> "BYTE_ARRAY_START"
                    [] open = "{" -> "DICTIONARY_START"
                    [] open = "(" -> "LITERAL_ARRAY_START"]
  IN CASE isIdentifierStart(c) ->
            PrefixedSymbol(text, start,
                           AfterSymbol(text, AfterAll(text, start + 1, "identifier")))
       [] isOperatorCharacter(c) ->
            PrefixedSymbol(text, start, AfterAll(text, start + 1, "operator"))
       [] c = "\"" -> scanQuoted(text, start, start + 1, "\"", "SYMBOL", "incomplete string")
       [] c \in {"[", "{", "("} -> SymbolToken(kinds[c], text, start, start + 2)
       [] OTHER -> UnrecognizedToken(text, start)

----------------------------------------------------------------------------
(* Punctuation and operators.                                              *)

Punctuation ==
  [c \in {"(", ")", "[", "]", "{", "}", ";", ","} |->
     CASE c = "(" -> "LPARENT" [] c = ")" -> "RPARENT"
       [] c = "[" -> "LBRACKET" [] c = "]" -> "RBRACKET"
       [] c = "{" -> "LCBRACKET" [] c = "}" -> "RCBRACKET"
       [] c = ";" -> "SEMICOLON" [] c = "," -> "COMMA"]

Quotes ==
  [c \in {"'", "backquote", ",", "@"} |->
     CASE c = "'" -> "QUOTE" [] c = "backquote" -> "QUASI_QUOTE"
       [] c = "," -> "QUASI_UNQUOTE" [] c = "@" -> "SPLICE"]

SingleOperators ==
  [c \in {"<", ">", "*", "|"} |->
     CASE c = "<" -> "LESS_THAN" [] c = ">" -> "GREATER_THAN"
       [] c = "*" -> "STAR" [] c = "|" -> "BAR"]

scanOperator(text, start) ==
  LET end == AfterAll(text, start, "operator")
      c == text[start]
  IN SymbolToken(IF end = start + 1 /\ c \in DOMAIN SingleOperators
                 THEN SingleOperators[c] ELSE "OPERATOR", text, start, end)

scanPunctuation(text, start) ==
  LET c == text[start]
      second == lookAt(text, start + 1)
      isEllipsis == second = "." /\ lookAt(text, start + 2) = "."
  IN CASE c \in DOMAIN Punctuation -> SymbolToken(Punctuation[c], text, start, start + 1)
       [] c = "." /\ isEllipsis -> SymbolToken("ELLIPSIS", text, start, start + 3)
       [] c = "." /\ ~isEllipsis -> SymbolToken("DOT", text, start, start + 1)
       [] c = ":" /\ second = ":" -> SymbolToken("COLON_COLON", text, start, start + 2)
       [] c = ":" /\ second = "=" -> SymbolToken("ASSIGNMENT", text, start, start + 2)
       [] c = ":" /\ second \notin {":", "="} -> SymbolToken("COLON", text, start, start + 1)
       [] c = "backquote" /\ second \in DOMAIN Quotes -> SymbolToken(Quotes[second], text, start, start + 2)
       [] isOperatorCharacter(c) -> scanOperator(text, start)
       [] OTHER -> UnrecognizedToken(text, start)

scanNextToken(text, start) ==
  LET c == text[start]
  IN CASE isIdentifierStart(c) -> scanName(text, start)
       [] isDigit(c) \/ (isSign(c) /\ isDigit(lookAt(text, start + 1))) -> scanNumber(text, start)
       [] c = "\"" -> scanQuoted(text, start, start, "\"", "STRING", "incomplete string")
       [] c = "'" -> scanQuoted(text, start, start, "'", "CHARACTER", "incomplete character")
       [] c = "#" /\ IsUnclosed(text, start) ->
            ErrorToken(text, start, Len(text) + 1, "incomplete multiline comment")
       [] c = "#" /\ ~IsUnclosed(text, start) -> scanSymbol(text, start)
       [] OTHER -> scanPunctuation(text, start)

\* An integer that cannot be read ends the scan with an error.
IsRaised(token) == token.kind = "INTEGER" /\ token.value = <<"integer", Raised>>

RECURSIVE ScannedFrom(_, _)
FirstAndRest(token, text) == <<token>> \o ScannedFrom(text, token.end + 1)
ScannedAt(text, start) ==
  IF lookAt(text, start) = End THEN <<>>
  ELSE FirstAndRest(scanNextToken(text, start), text)
ScannedFrom(text, i) == ScannedAt(text, skipWhiteAndComments(text, i))

Scanned(tokens) ==
  [tokens |-> tokens, raised |-> \E i \in DOMAIN tokens : IsRaised(tokens[i])]
scan(text) == Scanned(ScannedFrom(text, 1))
=============================================================================
