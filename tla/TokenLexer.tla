----------------------------- MODULE TokenLexer -----------------------------
(***************************************************************************)
(* The recognition of tokens (src/parser/lex): `Lexer::token` with the     *)
(* functions it awaits, for words, quotes, texts, parameter expansions,    *)
(* arithmetic expansions and command substitutions, on the characters of   *)
(* the lexer's core with line continuation.                                *)
(*                                                                         *)
(* As in Parser, a frame of the stack is a function with the place it has  *)
(* come to.  A step of a frame looks at the next character: it consumes    *)
(* it or not, and may call, return, rewind or fail.                        *)
(*                                                                         *)
(* The caller is the parser, as far as it reads the contents of            *)
(* here-documents (heredoc.rs), or `parse` of a string (from_str.rs).      *)
(*                                                                         *)
(* Abstracted: inside a command substitution the parser is as much of      *)
(* Parser as subshells and functions need: simple commands of words,       *)
(* `(...)`, `;` and newlines.                                              *)
(***************************************************************************)
EXTENDS Integers, WordUnits

CONSTANT Source \* inputs: [start : Start, starts, units : SUBSET Seq(Char), max : Nat]

EndOfInput == "EOF"
Newline == "NL"
Tab == "TAB"
SingleUnit == {"word unit", "text unit"}
Start == {"tokens", "word", "text", "operator"} \cup SingleUnit   \* what the source is read for

Digit == {"0", "1"}
NameChar == Digit \cup {"a", "_"}                         \* is_portable_name_char
SpecialParam == {"@", "*", "#", "?", "-", "$", "!", "0"}
SingleCharName == Digit \cup SpecialParam
Operators ==
  {<<Newline>>, <<"(">>, <<")">>, <<"&">>, <<"&", "&">>, <<";">>, <<";", ";">>, <<"|">>, <<"|", "|">>,
   <<"<">>, <<"<", "&">>, <<"<", "(">>, <<"<", ">">>, <<"<", "<">>, <<"<", "<", "-">>, <<"<", "<", "<">>,
   <<">">>, <<">", "&">>, <<">", "(">>, <<">", ">">>, <<">", ">", "|">>, <<">", "|">>}
OperatorChar == {Head(key) : key \in Operators}
Blank == {" ", Tab}
TokenDelimiter == OperatorChar \cup Blank
Char == NameChar \cup SpecialParam \cup TokenDelimiter
        \cup {"{", "}", "\"", "'", BQ, "\\", "%", "+", "=", ":", "~", "/"}

(* The keywords that are not spelled with letters                          *)
Keyword == {<<"!">>, <<"{">>, <<"}">>}

(* Every node of the trie has an operator, so that operator_tail never     *)
(* goes back.                                                              *)
ASSUME PrefixAssumption ==
  \A key \in Operators : \A i \in DOMAIN key : SubSeq(key, 1, i) \in Operators
ASSUME SourceAssumption ==
  \A s \in Source : s.start \in Start /\ s.starts \cup s.units \subseteq Seq(Char \cup {EndOfInput}) \ {<<>>} /\ s.max \in Nat

(* Input::next_line returns a line, up to and with its newline.            *)
ASSUME LineAssumption ==
  \A s \in Source : \A line \in s.starts \cup s.units : \A i \in DOMAIN line :
    line[i] \in {Newline, EndOfInput} => i = Len(line)

VARIABLES
  input,      \* the source of characters
  source,     \* LexerCore::source: the characters read, with EndOfInput at the end
  index,      \* LexerCore::index
  continuing, \* Lexer::line_continuation_enabled
  tokens,     \* the tokens that have been returned, and the here-documents
  stack,      \* the frames
  value,      \* what the function that has just returned returns
  outcome,    \* how it has ended
  again       \* has what was read as an arithmetic expansion been read again?
              \* (Not in the code: a property refers to it.)

vars == <<input, source, index, continuing, tokens, stack, value, outcome, again>>

Top == Last(stack)
NextChar == source[index + 1]   \* the character that a step looks at

NoValue == [kind |-> "none"]
NotFound == [kind |-> "not found"]
Text(units) == [kind |-> "text", units |-> units]

\* Mutant: the token begins where it ends
TokenOfRest(kind, key, word) ==
  [kind |-> kind, key |-> key, word |-> word, begin |-> index', end |-> Top.mark]

Token(kind, key, word) ==
  [kind |-> kind, key |-> key, word |-> word, begin |-> Top.mark, end |-> index']

-----------------------------------------------------------------------------
(* Frames                                                                  *)

(* A word or text: `context` is that of the WordLexer, and word says that  *)
(* it consists of word units (word_unit) rather than text units.           *)
UnitsFrame(context, word, delimiters, escapable) ==
  [at |-> "units", context |-> context, word |-> word, delimiters |-> delimiters,
   escapable |-> escapable, units |-> <<>>]

WordFrame(context, delimiters) ==
  UnitsFrame(context, TRUE, delimiters,
             IF context = "Word" THEN Char ELSE {"$", "\"", BQ, "\\"} \cup delimiters)
TextFrame(delimiters, escapable) == UnitsFrame("Text", FALSE, delimiters, escapable)

DollarFrame(l, mark) == [at |-> l, mark |-> mark, context |-> Top.context]
ParamFrame(l, length) ==
  [at |-> l, context |-> Top.context, length |-> length, name |-> <<>>, operator |-> <<>>]
BackquoteFrame == [at |-> "backquote", context |-> Top.context, units |-> <<>>]
BlanksFrame == [at |-> "blanks"]
OperatorFrame == [at |-> "operator", mark |-> index, key |-> <<>>]
ListFrame(group) == [at |-> "list", place |-> "start", some |-> FALSE, group |-> group]

(* Parser::unread_here_docs                                                *)
TokensFrame == [at |-> "tokens", unread |-> <<>>]

(* What a new lexer is given to                                            *)
StartFrames(start) ==
  CASE start = "tokens" -> <<TokensFrame, BlanksFrame>>
    [] start = "word" -> <<[at |-> "from_str"], WordFrame("Word", {})>>
    [] start = "text" -> <<[at |-> "from_str"], TextFrame({}, Char)>>
    [] start = "word unit" -> <<[at |-> "from_str"], WordFrame("Word", {})>>
    [] start = "text unit" -> <<[at |-> "from_str"], UnitsFrame("Word", FALSE, {}, Char)>>
    [] start = "operator" -> <<[at |-> "from_str"], OperatorFrame>>

Init == /\ input \in Source
        /\ source = <<>>
        /\ index = 0
        /\ continuing = TRUE
        /\ tokens = <<>>
        /\ stack = StartFrames(input.start)
        /\ value = NoValue
        /\ outcome = "none"
        /\ again = FALSE

Go(frame) == stack' = Append(Front(stack), frame) /\ value' = NoValue /\ UNCHANGED outcome
Call(frame, callees) ==
  stack' = Front(stack) \o <<frame>> \o callees /\ value' = NoValue /\ UNCHANGED outcome
Return(v) == stack' = Front(stack) /\ value' = v /\ UNCHANGED outcome
StringToken(units) ==
  [kind |-> input.start, key |-> <<>>, word |-> units, begin |-> 0, end |-> index]

(* A unit is returned to the word or text that it belongs to.              *)
ReturnUnit(unit) ==
  /\ stack' = LET word == Front(stack)
              IN [word EXCEPT ![Len(word)].units = Append(@, unit)]
  /\ value' = NoValue
  /\ UNCHANGED outcome
End(o) == outcome' = o /\ UNCHANGED <<stack, value>>
To(l) == [Top EXCEPT !.at = l]

Consume == index' = index + 1
Peek == UNCHANGED index
Rewind(i) == index' = i

(* Lexer::consume_char_if                                                  *)
ConsumeIf(chars) == NextChar \in chars /\ Consume
NoneOf(chars) == NextChar \notin chars /\ Peek

(* LexerCore::source_string, from a mark on                                *)
SourceString(begin) == SubSeq(source, begin + 1, index)

(* Lexer::enable_line_continuation, Lexer::disable_line_continuation       *)
EnableLineContinuation == continuing' = TRUE
DisableLineContinuation == continuing' = FALSE

(* Code that does not care about line continuation                         *)
Fail == Peek /\ End("error") /\ UNCHANGED <<continuing, tokens>>
Quiet == UNCHANGED <<continuing, tokens>>

-----------------------------------------------------------------------------
(* WordUnit::from_str and TextUnit::from_str read one unit of a word or a  *)
(* text.                                                                   *)
HasUnit == /\ input.start \in SingleUnit
           /\ Len(stack) = 2 /\ Top.at = "units" /\ Top.units # <<>>

(* Lexer::peek_char: a character is there unless more input is needed, or  *)
(* a line continuation is to be skipped first.                             *)

Peeks == outcome = "none" /\ Top.at \notin {"tokens", "list", "from_str"} /\ ~HasUnit

AtBackslash == continuing /\ index < Len(source) /\ NextChar = "\\"
NeedsInput == \/ index = Len(source)
              \/ AtBackslash /\ index + 1 = Len(source)
AtLineContinuation == AtBackslash /\ source[index + 2] = Newline

(* What the input goes on with: it may end, and it does after max          *)
(* characters.                                                             *)
Offer == IF source = <<>> THEN input.starts
         ELSE {<<EndOfInput>>} \cup (IF Len(source) < input.max THEN input.units ELSE {})

ReadMore == /\ Peeks
            /\ NeedsInput
            /\ \E unit \in Offer : source' = source \o unit
            /\ UNCHANGED <<input, index, continuing, tokens, stack, value, outcome>>

LineContinuation == /\ Peeks
                    /\ ~NeedsInput
                    /\ AtLineContinuation
                    /\ index' = index + 2
                    /\ UNCHANGED <<input, source, continuing, tokens, stack, value, outcome>>

(* The function at place l goes on, now that it has been told v.           *)
At(l, v) == /\ Peeks
            /\ Top.at = l
            /\ value.kind = v
            /\ ~NeedsInput
            /\ ~AtLineContinuation
            /\ UNCHANGED <<input, source>>

-----------------------------------------------------------------------------
(* Tokens                                                                  *)

IsKey(key) == \E op \in Operators : IsPrefix(key, op)

\* Mutant: looks for a longer operator after every one
IsLeafNever(key) == FALSE

IsLeaf(key) == \A op \in Operators : IsPrefix(key, op) => op = key

Blanks ==
  /\ At("blanks", "none")
  /\ \/ NextChar \in Blank /\ Consume /\ Go(Top) /\ Quiet
     \/ NextChar = "#" /\ Consume /\ Go(To("comment")) /\ DisableLineContinuation /\ UNCHANGED tokens
     \/ /\ NextChar \notin Blank \cup {"#"}
        /\ Peek
        /\ Go(OperatorFrame)
        /\ Quiet

Comment ==
  /\ At("comment", "none")
  /\ \/ NextChar \notin {Newline, EndOfInput} /\ Consume /\ Go(Top) /\ Quiet
     \/ /\ NextChar \in {Newline, EndOfInput}
        /\ Peek
        /\ Go(OperatorFrame)
        /\ EnableLineContinuation
        /\ UNCHANGED tokens

(* Lexer::operator, the longest one, and for Lexer::token then a word if   *)
(* there is none                                                           *)
Operator ==
  /\ At("operator", "none")
  /\ Quiet
  /\ LET key == Append(Top.key, NextChar)
     IN \/ IsKey(key) /\ ~IsLeaf(key) /\ Consume /\ Go([Top EXCEPT !.key = key])
        \/ IsKey(key) /\ IsLeaf(key) /\ Consume /\ Return(Token("operator", key, Literals(key)))
        \/ ~IsKey(key) /\ Top.key # <<>> /\ Peek /\ Return(Token("operator", Top.key, Literals(Top.key)))
        \/ ~IsKey(key) /\ Top.key = <<>> /\ Peek
           /\ IF input.start = "operator" THEN Return(NotFound)
              ELSE Call(To("word"), <<WordFrame("Word", TokenDelimiter)>>)

(* Lexer::token_id                                                         *)
TokenId(word) ==
  CASE word = <<>> -> "end"
    [] AllLiteral(word) /\ Plain(word) \in Keyword -> "keyword"
    [] /\ word # <<>> /\ AllLiteral(word) /\ Range(Plain(word)) \subseteq Digit
       /\ NextChar \in {"<", ">"} -> "io"
    [] OTHER -> "word"

WordToken == /\ At("word", "text")
             /\ Peek
             /\ LET word == ParseTildeFront(value.units)
                IN Return(Token(TokenId(word), <<>>, word))
             /\ Quiet

-----------------------------------------------------------------------------
(* Words, texts and quotes                                                 *)

With(unit) == [Top EXCEPT !.units = Append(@, unit)]

SpecialChar == {"\\", "$", BQ}
QuoteChar == (IF Top.word THEN {"\""} ELSE {})
             \cup (IF Top.word /\ Top.context = "Word" THEN {"'"} ELSE {})
DoubleQuoteEscapable == {"$", BQ, "\"", "\\"}

(* WordLexer::text_unit: a unit that begins with a special character, or a *)
(* literal one                                                             *)
TextUnit ==
  \/ /\ NextChar \in SpecialChar
     /\ Consume
     /\ CASE NextChar = "\\" -> Go(To("units.escape"))
          [] NextChar = "$" -> Call(Top, <<DollarFrame("dollar", index)>>)
          [] NextChar = BQ -> Call(Top, <<BackquoteFrame>>)
  \/ /\ NextChar \notin SpecialChar \cup Top.delimiters \cup {EndOfInput}
     /\ Consume
     /\ Go(With(Literal(NextChar)))

(* WordLexer::word_unit, until there is no more unit                       *)
Units ==
  /\ At("units", "none")
  /\ \/ /\ NextChar \in QuoteChar
        /\ Consume
        /\ IF NextChar = "'"
           THEN /\ Call(Top, <<[at |-> "single", content |-> <<>>]>>)
                /\ DisableLineContinuation
           ELSE /\ Call(Top, <<[at |-> "double"], TextFrame({"\""}, DoubleQuoteEscapable)>>)
                /\ UNCHANGED continuing
     \/ NextChar \notin QuoteChar /\ TextUnit /\ UNCHANGED continuing
     \/ /\ NextChar \in (Top.delimiters \cup {EndOfInput}) \ (SpecialChar \cup QuoteChar)
        /\ Peek
        /\ Return(Text(Top.units))
        /\ UNCHANGED continuing
  /\ UNCHANGED tokens

(* dollar_unit has found nothing: `$` is literal.                          *)
LiteralDollar == At("units", "not found") /\ Consume /\ Go(With(Literal("$"))) /\ Quiet

Resumed(l, unit) == [With(unit) EXCEPT !.at = l]
Escape == /\ At("units.escape", "none")
          /\ \/ ConsumeIf(Top.escapable) /\ Go(Resumed("units", Backslashed(NextChar)))
             \/ NoneOf(Top.escapable) /\ Go(Resumed("units", Literal("\\")))
          /\ Quiet

SingleQuote ==
  /\ At("single", "none")
  /\ \/ /\ NextChar = "'"
        /\ Consume
        /\ ReturnUnit(SingleQuoted(Top.content))
        /\ EnableLineContinuation
        /\ UNCHANGED tokens
     \/ /\ NextChar \notin {"'", EndOfInput}
        /\ Consume
        /\ Go([Top EXCEPT !.content = Append(@, NextChar)])
        /\ Quiet
     \/ NextChar = EndOfInput /\ Fail

DoubleQuote ==
  /\ At("double", "text")
  /\ \/ NextChar = "\"" /\ Consume /\ ReturnUnit(DoubleQuoted(value.units)) /\ Quiet
     \/ NextChar # "\"" /\ Fail

Backquote ==
  /\ At("backquote", "none")
  /\ \/ NextChar = "\\" /\ Consume /\ Go(To("backquote.escape")) /\ Quiet
     \/ NextChar = BQ /\ Consume /\ ReturnUnit(Backquoted(Top.units)) /\ Quiet
     \/ NextChar \notin {"\\", BQ, EndOfInput} /\ Consume /\ Go(With(Literal(NextChar))) /\ Quiet
     \/ NextChar = EndOfInput /\ Fail

BackquoteEscapable == {"$", BQ, "\\"} \cup (IF Top.context = "Text" THEN {"\""} ELSE {})

BackquoteEscape ==
  /\ At("backquote.escape", "none")
  /\ \/ ConsumeIf(BackquoteEscapable) /\ Go(Resumed("backquote", Backslashed(NextChar)))
     \/ NoneOf(BackquoteEscapable) /\ Go(Resumed("backquote", Literal("\\")))
  /\ Quiet

-----------------------------------------------------------------------------
(* Dollar units                                                            *)

(* WordLexer::dollar_unit and raw_param                                    *)
Dollar ==
  /\ At("dollar", "none")
  /\ Quiet
  /\ \/ ConsumeIf(SingleCharName) /\ ReturnUnit(RawParam(<<NextChar>>))
     \/ ConsumeIf(NameChar \ SingleCharName) /\ Go([at |-> "name", name |-> <<NextChar>>])
     \/ NextChar = "{" /\ Consume /\ Go(DollarFrame("prefix", index + 1))
     \/ NextChar = "(" /\ Consume /\ Go(DollarFrame("arith.open", index))
     \/ /\ NextChar \notin SingleCharName \cup NameChar \cup {"{", "("}
        /\ Rewind(Top.mark)
        /\ Return(NotFound)

Named(l) == [Top EXCEPT !.at = l, !.name = Append(@, NextChar)]
Name == /\ At("name", "none")
        /\ Quiet
        /\ \/ ConsumeIf(NameChar) /\ Go(Named(Top.at))
           \/ NoneOf(NameChar) /\ ReturnUnit(RawParam(Top.name))

\* Mutant: reads on where it has looked ahead to
NoPrefixUnread == Peek /\ Go(ParamFrame("param", FALSE))

(* WordLexer::length_prefix looks ahead and goes back.                     *)
NoPrefix == Rewind(Top.mark) /\ Go(ParamFrame("param", FALSE))
Prefix == Rewind(Top.mark) /\ Go(ParamFrame("prefix.consume", TRUE))

LengthPrefix ==
  /\ Quiet
  /\ \/ /\ At("prefix", "none")
        /\ \/ NextChar = "#" /\ Consume /\ Go(To("prefix.first"))
           \/ NextChar # "#" /\ NoPrefix
     \/ /\ At("prefix.first", "none")
        /\ \/ NextChar \in {"-", "?", "#"} /\ Consume /\ Go(To("prefix.second"))
           \/ NextChar \in {"}", "+", "=", ":", "%"} /\ NoPrefix
           \/ NextChar \notin {"-", "?", "#", "}", "+", "=", ":", "%"} /\ Prefix
     \/ /\ At("prefix.second", "none")
        /\ \/ NextChar \in {"}", EndOfInput} /\ Prefix
           \/ NextChar \notin {"}", EndOfInput} /\ NoPrefix
     \/ At("prefix.consume", "none") /\ Consume /\ Go(To("param"))

(* WordLexer::braced_param: `unwrap` panics at the end of the input.       *)
BracedParam ==
  \/ /\ At("param", "none")
     /\ \/ NextChar \in SpecialParam /\ Consume /\ Go(Named("suffix")) /\ Quiet
        \/ NextChar \in NameChar \ SpecialParam /\ Consume /\ Go(Named("param.name")) /\ Quiet
        \/ NextChar \notin NameChar \cup SpecialParam \cup {EndOfInput} /\ Fail
        \/ NextChar = EndOfInput /\ Peek /\ End("panic") /\ Quiet
  \/ /\ At("param.name", "none")
     /\ Quiet
     /\ \/ ConsumeIf(NameChar) /\ Go(Named("param.name"))
        \/ NoneOf(NameChar) /\ Go(To("suffix"))

(* The frame with another character of the modifier's operator             *)
Operated(l) == [Top EXCEPT !.at = l, !.operator = Append(@, NextChar)]

SwitchChar == {"+", "-", "=", "?"}
TrimChar == {"#", "%"}

(* Lexer::suffix_modifier_not_found: no modifier, or a colon alone         *)
SuffixNotFound ==
  \/ At("suffix", "none") /\ NoneOf({":"} \cup SwitchChar \cup TrimChar)
     /\ Go(To("brace.close")) /\ Quiet
  \/ At("suffix.colon", "none") /\ NextChar \notin SwitchChar /\ Fail

(* WordLexer::suffix_modifier with switch and Lexer::trim                  *)
Suffix ==
  \/ At("suffix", "none") /\ ConsumeIf({":"}) /\ Go(Operated("suffix.colon")) /\ Quiet
  \/ /\ \E l \in {"suffix", "suffix.colon"} : At(l, "none")
     /\ ConsumeIf(SwitchChar)
     /\ Call(Operated("switch"), <<WordFrame(Top.context, {"}"})>>)
     /\ Quiet
  \/ /\ At("suffix", "none")
     /\ ConsumeIf(TrimChar)
     /\ Go(Operated("trim.length"))
     /\ Quiet
  \/ SuffixNotFound

\* Mutant: the longest match is not told from the shortest
TrimShortest == /\ At("trim.length", "none")
                /\ \/ <<NextChar>> = Top.operator /\ Consume
                   \/ <<NextChar>> # Top.operator /\ Peek
                /\ Call(To("trim"), <<WordFrame("Word", {"}"})>>)
                /\ Quiet

Trim == /\ At("trim.length", "none")
        /\ \/ <<NextChar>> = Top.operator /\ Consume
              /\ Call(Operated("trim"), <<WordFrame("Word", {"}"})>>)
           \/ <<NextChar>> # Top.operator /\ Peek
              /\ Call(To("trim"), <<WordFrame("Word", {"}"})>>)
        /\ Quiet

(* The modifier of the parameter.  There are no tilde expansions in the    *)
(* word of a switch in a text.                                             *)
ModifierOf(frame) ==
  CASE frame.at = "trim" -> Modifier("trim", frame.operator, ParseTildeFront(value.units))
    [] frame.at = "switch" /\ frame.context = "Word" ->
         Modifier("switch", frame.operator, ParseTildeFront(value.units))
    [] frame.at = "switch" /\ frame.context = "Text" ->
         Modifier("switch", frame.operator, value.units)
    [] OTHER -> Modifier(IF frame.length THEN "length" ELSE "none", <<>>, <<>>)

(* A parameter cannot have both a prefix and a suffix.                     *)
BraceClose ==
  /\ At("brace.close", "none") \/ \E l \in {"switch", "trim"} : At(l, "text")
  /\ LET closed == NextChar = "}" /\ ~(Top.length /\ Top.operator # <<>>)
     IN \/ /\ closed
           /\ Consume
           /\ ReturnUnit(Param(Top.name, ModifierOf(Top)))
           /\ Quiet
        \/ ~closed /\ Fail

-----------------------------------------------------------------------------
(* Arithmetic expansions and command substitutions                         *)

\* Mutant: blanks, too, end an arithmetic text
ArithTextBlank == TextFrame({"(", ")", " "}, {"$", BQ, "\\"})

ArithText == TextFrame({"(", ")"}, {"$", BQ, "\\"})

ArithFrame(depth, units) ==
  [at |-> "arith", mark |-> Top.mark, context |-> Top.context, depth |-> depth, units |-> units]

\* Mutant: it is read again as an arithmetic expansion
FallbackAgain == DollarFrame("arith.open", Top.mark)

(* This is no arithmetic expansion, and it is read again.                  *)
Fallback == DollarFrame("command", Top.mark)

(* Lexer::arithmetic_expansion up to its content                           *)
ArithOpen ==
  /\ At("arith.open", "none")
  /\ Quiet
  /\ \/ NextChar = "(" /\ Consume /\ Call(ArithFrame(0, <<>>), <<ArithText>>)
     \/ NextChar # "(" /\ Rewind(Top.mark) /\ Go(Fallback)

(* Lexer::text_with_parentheses, and the first `)`                         *)
ArithContent ==
  /\ At("arith", "text")
  /\ LET units == Top.units \o value.units
         Nested(depth) ==
           Call(ArithFrame(depth, Append(units, Literal(NextChar))), <<ArithText>>)
     IN \/ NextChar = "(" /\ Consume /\ Nested(Top.depth + 1) /\ Quiet
        \/ NextChar = ")" /\ Top.depth > 0 /\ Consume /\ Nested(Top.depth - 1) /\ Quiet
        \/ /\ NextChar = ")" /\ Top.depth = 0
           /\ Consume
           /\ Go([Top EXCEPT !.at = "arith.close", !.units = units])
           /\ Quiet
        \/ NextChar \notin {"(", ")"} /\ (Top.depth > 0 \/ NextChar = EndOfInput) /\ Fail
        \/ /\ NextChar \notin {"(", ")", EndOfInput} /\ Top.depth = 0
           /\ Peek /\ End("unreachable") /\ Quiet

(* The second one: without it, this is a command substitution.             *)
ArithClose ==
  /\ At("arith.close", "none")
  /\ \/ NextChar = ")" /\ Consume /\ ReturnUnit(Arith(Top.units)) /\ Quiet
     \/ NextChar = EndOfInput /\ Fail
     \/ NextChar \notin {")", EndOfInput} /\ Rewind(Top.mark) /\ Go(Fallback) /\ Quiet

(* Lexer::command_substitution: its content is kept as a string.           *)
CommandSubstitution ==
  \/ /\ At("command", "none")
     /\ NextChar = "("
     /\ Consume
     /\ Call([at |-> "command.close", mark |-> index'], <<ListFrame(FALSE)>>)
     /\ Quiet
  \/ /\ At("command.close", "none")
     /\ \/ /\ NextChar = ")"
           /\ Consume
           /\ ReturnUnit(CommandSubst(SourceString(Top.mark)))
           /\ Quiet
        \/ NextChar # ")" /\ Fail

-----------------------------------------------------------------------------
(* The callers of Lexer::token                                             *)

Calls(at) == outcome = "none" /\ Top.at = at /\ UNCHANGED <<input, source, continuing>>
IsOperator(char) == value.kind = "operator" /\ value.key = <<char>>

After(kind) == tokens # <<>> /\ Last(tokens).kind = kind
AfterOperator(key) == After("operator") /\ Last(tokens).key = key
AfterHereDocOperator == AfterOperator(<<"<", "<">>) \/ AfterOperator(<<"<", "<", "-">>)

(* Contents of here-documents are to be read.                              *)
AtHereDoc == /\ Top.at = "tokens"
             /\ Top.unread # <<>>
             /\ AfterOperator(<<Newline>>) \/ After("here-doc")

(* Parser::require_token                                                   *)
RequireToken ==
  /\ \E at \in {"tokens", "list"} : Calls(at)
  /\ value = NoValue
  /\ ~AtHereDoc
  /\ Peek
  /\ Call(Top, <<BlanksFrame>>)
  /\ UNCHANGED tokens

(* The parser takes the token.  A here-document is remembered by its       *)
(* delimiter (Parser::here_doc_redirection_body).                          *)
TakeToken ==
  /\ Calls("tokens")
  /\ value # NoValue
  /\ Peek
  /\ tokens' = Append(tokens, value)
  /\ \/ ~AfterHereDocOperator /\ IF value.kind = "end" THEN End("done") ELSE Go(Top)
     \/ /\ AfterHereDocOperator /\ value.kind \in {"word", "keyword", "io"}
        /\ Go([Top EXCEPT !.unread = Append(@, [delimiter |-> value.word,
                                                remove_tabs |-> Len(Last(tokens).key) = 3])])
     \/ AfterHereDocOperator /\ value.kind \in {"operator", "end"} /\ End("syntax error")

-----------------------------------------------------------------------------
(* Here-documents                                                          *)

(* Lexer::line, which does not know about line continuation, or text       *)
LineFrame(delimiter) ==
  IF IsQuoted(delimiter) THEN [at |-> "line", content |-> <<>>]
  ELSE TextFrame({Newline}, {"$", BQ, "\\"})
ReadLine(frame) == /\ Call(frame, <<LineFrame(frame.delimiter)>>)
                   /\ continuing' = ~IsQuoted(frame.delimiter)

(* Parser::here_doc_contents and Lexer::here_doc_content                   *)
HereDocContents ==
  /\ outcome = "none" /\ AtHereDoc /\ value = NoValue
  /\ LET here_doc == Head(Top.unread)
         frame == [at |-> "heredoc", begin |-> index, mark |-> index, content |-> <<>>,
                   delimiter |-> here_doc.delimiter, remove_tabs |-> here_doc.remove_tabs]
     IN /\ stack' = Front(stack) \o <<[Top EXCEPT !.unread = Tail(@)], frame,
                                      LineFrame(frame.delimiter)>>
        /\ continuing' = ~IsQuoted(frame.delimiter)
  /\ Peek
  /\ UNCHANGED <<input, source, tokens, value, outcome>>

Line ==
  /\ At("line", "none")
  /\ UNCHANGED tokens
  /\ \/ /\ NextChar \notin {Newline, EndOfInput}
        /\ Consume
        /\ Go([Top EXCEPT !.content = Append(@, NextChar)])
        /\ UNCHANGED continuing
     \/ /\ NextChar \in {Newline, EndOfInput}
        /\ Peek
        /\ Return(Text(Literals(Top.content)))
        /\ EnableLineContinuation

LeadingTabs(units) ==
  Max({n \in 0 .. Len(units) : \A i \in 1 .. n : units[i] = Literal(Tab)})

\* Mutant: tabs are removed from the content, but not from the delimiter
IsDelimiterWithTabs(line, skip_count, delimiter) == line = Plain(delimiter)

IsDelimiter(line, skip_count, delimiter) == SubSeq(line, skip_count + 1, Len(line)) = Plain(delimiter)

(* A line of the content has been read: it is compared as it is in the     *)
(* source.                                                                 *)
HereDocLine ==
  /\ At("heredoc", "text")
  /\ LET line == SourceString(Top.mark)
         skip_count == IF Top.remove_tabs THEN LeadingTabs(value.units) ELSE 0
         units == SubSeq(value.units, skip_count + 1, Len(value.units))
     IN \/ NextChar # Newline /\ Fail
        \/ /\ NextChar = Newline /\ IsDelimiter(line, skip_count, Top.delimiter)
           /\ Consume
           /\ Return(NoValue)
           /\ tokens' = Append(tokens, [kind |-> "here-doc", key |-> <<>>, word |-> Top.content,
                                         begin |-> Top.begin, end |-> index'])
           /\ UNCHANGED continuing
        \/ /\ NextChar = Newline /\ ~IsDelimiter(line, skip_count, Top.delimiter)
           /\ Consume
           /\ ReadLine([Top EXCEPT !.mark = index',
                                   !.content = @ \o units \o <<Literal(Newline)>>])
           /\ UNCHANGED tokens

(* Word::from_str and Text::from_str                                       *)
FromStr ==
  /\ Calls("from_str")
  /\ value.kind = "text" /\ input.start \in {"word", "text"}
  /\ Peek
  /\ End("done")
  /\ tokens' = <<StringToken(value.units)>>

(* WordUnit::from_str and TextUnit::from_str: `unwrap` panics if there is  *)
(* no unit.                                                                *)
UnitFromStr ==
  \/ /\ outcome = "none" /\ HasUnit /\ value = NoValue
     /\ Peek
     /\ End("done")
     /\ tokens' = <<StringToken(Top.units)>>
     /\ UNCHANGED <<input, source, continuing>>
  \/ /\ Calls("from_str")
     /\ value.kind = "text" /\ input.start \in SingleUnit
     /\ Peek
     /\ End("panic")
     /\ UNCHANGED tokens

(* Operator::from_str                                                      *)
OperatorFromStr ==
  /\ Calls("from_str")
  /\ Peek
  /\ \/ value.kind = "operator" /\ End("done") /\ tokens' = <<value>>
     \/ value = NotFound /\ End("nothing") /\ UNCHANGED tokens

-----------------------------------------------------------------------------
(* The parser of command substitutions                                     *)

(* Lexer::inner_program, for simple commands, subshells and functions:     *)
(* the list ends before this token: a subshell takes its `)`, and a        *)
(* command substitution reads it again.                                    *)
EndOfList ==
  LET within == Top.place \in {"function", "body"}
  IN \/ ~within /\ Top.group /\ Top.some /\ IsOperator(")") /\ Peek /\ Return(NoValue)
     \/ ~within /\ ~Top.group /\ Rewind(value.begin) /\ Return(NoValue)
     \/ within /\ Peek /\ End("error")
     \/ Top.group /\ ~(Top.some /\ IsOperator(")")) /\ Peek /\ End("error")

NextPlace ==
  CASE Top.place = "start" /\ value.kind = "word" -> "word"
    [] Top.place \in {"word", "words"} /\ value.kind \in {"word", "keyword"} -> "words"
    [] Top.place = "word" /\ IsOperator("(") -> "function"
    [] Top.place = "function" /\ IsOperator(")") -> "body"
    [] Top.place = "body" /\ IsOperator(Newline) -> "body"
    [] Top.place \in {"start", "body"} /\ IsOperator("(") -> "done"
    [] Top.place \in {"word", "words", "done"} /\ IsOperator(";") -> "start"
    [] Top.place \in {"start", "word", "words", "done"} /\ IsOperator(Newline) -> "start"
    [] OTHER -> "end"

(* Tokens that only Parser knows what to do with                           *)
IsBeyond == \/ value.kind = "io"
            \/ value.kind = "keyword" /\ Top.place \in {"start", "body"}
            \/ value.kind = "operator" /\ value.key \notin {<<c>> : c \in {"(", ")", ";", Newline}}
               /\ value.key # <<";", ";">>

ListToken ==
  /\ Calls("list")
  /\ value # NoValue
  /\ UNCHANGED tokens
  /\ LET place == NextPlace
         next == [Top EXCEPT !.place = place, !.some = @ \/ place \in {"word", "done"}]
     IN \/ IsBeyond /\ Peek /\ End("beyond")
        \/ ~IsBeyond /\ place = "done" /\ Peek /\ Call(next, <<ListFrame(TRUE)>>)
        \/ ~IsBeyond /\ place \notin {"done", "end"} /\ Peek /\ Go(next)
        \/ ~IsBeyond /\ place = "end" /\ EndOfList

\* The code, with what it leaves alone
Step == \/ Blanks \/ Comment \/ Operator \/ WordToken
        \/ Units \/ LiteralDollar \/ Escape \/ SingleQuote \/ DoubleQuote
        \/ Backquote \/ BackquoteEscape
        \/ Dollar \/ Name \/ LengthPrefix \/ BracedParam \/ Suffix \/ Trim \/ BraceClose
        \/ ArithOpen \/ ArithContent \/ ArithClose \/ CommandSubstitution
        \/ RequireToken \/ TakeToken \/ HereDocContents \/ Line \/ HereDocLine
        \/ ListToken \/ FromStr \/ UnitFromStr \/ OperatorFromStr

Next == /\ ReadMore \/ LineContinuation \/ Step
        /\ again' = (again \/ (Top.at = "arith.close" /\ Last(stack').at = "command"))

Spec == Init /\ [][Next]_vars
FairSpec == Spec /\ WF_vars(Next)

-----------------------------------------------------------------------------
(* Properties                                                              *)

(* Types; a mark is a place to go back to, and tokens follow each other.   *)
TypeOK == /\ input \in Source
          /\ source \in Seq(Char \cup {EndOfInput})
          /\ index \in 0 .. Len(source)
          /\ continuing \in BOOLEAN
          /\ \A i \in DOMAIN stack : "mark" \in DOMAIN stack[i] => stack[i].mark \in 0 .. index
          /\ \A i \in DOMAIN tokens : tokens[i].begin <= tokens[i].end /\ tokens[i].end <= index
          /\ outcome \in {"none", "done", "error", "panic", "unreachable", "beyond", "syntax error",
                          "nothing"}

(* A newline operator is returned without another character having been    *)
(* read, so that an interactive shell executes a line before it prompts    *)
(* for the next one, whatever was looked at ahead earlier (op.rs,          *)
(* operator_tail, where it has got to a leaf of the trie).  Only what is   *)
(* no arithmetic expansion after all may have been read farther before: in *)
(* `$(('$(a' ) ) NL ')`, the quotes are quotes the second time only.       *)
NewlineEndsReading ==
  Len(stack) = 1 /\ value = NoValue /\ (AfterOperator(<<Newline>>) \/ After("here-doc")) /\ ~again
    => index = Len(source)

(* What text_with_parentheses leaves is `)` or the end of the input, as    *)
(* arithmetic_expansion relies on with `unreachable!()` (arith.rs).        *)
ContentEndsAtParenthesis == outcome # "unreachable"

(* However much is read twice, the lexer comes to the end of the input or  *)
(* an error (arith.rs, where an expansion turns out to be a command        *)
(* substitution).                                                          *)
Terminates == <>(outcome # "none")
=============================================================================
