---------------------------- MODULE TokenGrammar ----------------------------
(***************************************************************************)
(* The grammar of tokens, as productions over characters, with a           *)
(* recognizer that tries every production at every place.  TokenLexer,     *)
(* which looks ahead and goes back, is checked against it.                 *)
(*                                                                         *)
(* Where characters are expected, a line continuation is nothing.          *)
(***************************************************************************)
EXTENDS TokenLexer, FiniteSets

(* Characters of several kinds                                             *)
Class == [digit |-> SingleCharName,
          special |-> SpecialParam,
          switch_operator |-> {"+", "-", "=", "?"}]

(* Tokens of a command                                                     *)
OperatorToken == [LEFT |-> <<"(">>, RIGHT |-> <<")">>, SEMICOLON |-> <<";">>, NEWLINE |-> <<Newline>>]

(* Productions; other symbols stand for characters, words or tokens.       *)
Productions ==
  [expansion |-> {<<"digit">>, <<"name">>, <<"{", "braced", "}">>,
                  <<"(", "(", "arith", ")", ")">>, <<"(", "lists", "RIGHT">>},
   braced |-> {<<"#", "param">>, <<"param">>,
               <<"param", "switch_operator", "switch">>,
               <<"param", ":", "switch_operator", "switch">>,
               <<"param", "#", "pattern">>, <<"param", "#", "#", "pattern">>,
               <<"param", "%", "pattern">>, <<"param", "%", "%", "pattern">>},
   param |-> {<<"special">>, <<"number">>, <<"name">>},
   arith |-> {<<"expression">>, <<"expression", "(", "arith", ")", "arith">>},
   lists |-> {<<"list", "lines">>},
   lines |-> {<<>>, <<"NEWLINE", "lists">>},
   list |-> {<<>>, <<"command", "more">>},
   more |-> {<<>>, <<"SEMICOLON", "list">>},
   command |-> {<<"WORD", "words">>, <<"subshell">>,
                <<"WORD", "LEFT", "RIGHT", "newlines", "subshell">>},
   words |-> {<<>>, <<"WORD", "words">>},
   subshell |-> {<<"LEFT", "newlines", "command", "more", "lines", "RIGHT">>},
   newlines |-> {<<>>, <<"NEWLINE", "newlines">>}]

(* The four kinds of sequences of units: the characters they end before,   *)
(* those a backslash escapes, and the quotes that are special.             *)
Rule(stops, escaped, quotes, context) ==
  [stops |-> stops, escaped |-> escaped, quotes |-> quotes, context |-> context]
Rules(symbol, context) ==
  CASE symbol = "word" -> Rule(TokenDelimiter, Char, {"'", "\""}, "Word")
    [] symbol = "pattern" \/ (symbol = "switch" /\ context = "Word") ->
         Rule({"}"}, Char, {"'", "\""}, "Word")
    [] symbol = "switch" /\ context = "Text" -> Rule({"}"}, {"$", BQ, "\"", "\\", "}"}, {"\""}, "Text")
    [] symbol = "quoted" -> Rule({"\""}, {"$", BQ, "\"", "\\"}, {}, "Text")
    [] symbol = "expression" -> Rule({"(", ")"}, {"$", BQ, "\\"}, {}, "Text")
    [] symbol = "line" -> Rule({Newline}, {"$", BQ, "\\"}, {}, "Text")
UnitSequence == {"word", "pattern", "switch", "quoted", "expression"}

-----------------------------------------------------------------------------
(* Places in s are ends of prefixes; More(s) stands for the end of a part  *)
(* that s may be extended to contain.                                      *)

More(s) == Len(s) + 1
Cut(s, i) == i >= Len(s) \/ (i + 1 = Len(s) /\ s[i + 1] = "\\")
Complete(s) == s # <<>> /\ Last(s) = EndOfInput

Joined(s, i) ==
  LET after[j \in 0 .. Len(s) + 1] ==
        IF j + 2 <= Len(s) /\ s[j + 1] = "\\" /\ s[j + 2] = Newline THEN after[j + 2] ELSE j
  IN after[i]

(* After blanks and a comment                                              *)
RECURSIVE AfterBlanks(_, _)
AfterBlanks(s, i) ==
  LET j == Joined(s, i)
      ends == {k \in j .. Len(s) - 1 : s[k + 1] \in {Newline, EndOfInput}}
  IN CASE Cut(s, j) -> More(s)
       [] ~Cut(s, j) /\ s[j + 1] \in Blank -> AfterBlanks(s, j + 1)
       [] ~Cut(s, j) /\ s[j + 1] = "#" -> IF ends = {} THEN More(s) ELSE Min(ends)
       [] OTHER -> j

(* After as many characters of a name as there are                         *)
RECURSIVE AfterName(_, _)
AfterName(s, i) ==
  LET j == Joined(s, i)
  IN IF ~Cut(s, j) /\ s[j + 1] \in NameChar THEN AfterName(s, j + 1) ELSE i

(* After the backquote that ends a substitution                            *)
RECURSIVE AfterBackquoted(_, _, _)
AfterBackquoted(s, context, i) ==
  LET j == Joined(s, i)
      escaped == {"$", BQ, "\\"} \cup (IF context = "Text" THEN {"\""} ELSE {})
  IN CASE Cut(s, j) -> {More(s)}
       [] ~Cut(s, j) /\ s[j + 1] = EndOfInput -> {}
       [] ~Cut(s, j) /\ s[j + 1] = BQ -> {j + 1}
       [] ~Cut(s, j) /\ s[j + 1] = "\\" ->
            AfterBackquoted(s, context, IF s[j + 2] \in escaped THEN j + 2 ELSE j + 1)
       [] OTHER -> AfterBackquoted(s, context, j + 1)

AfterSingleQuote(s, i) ==
  LET ends == {k \in i + 1 .. Len(s) : s[k] = "'"}
  IN IF ends # {} THEN {Min(ends)} ELSE IF Complete(s) THEN {} ELSE {More(s)}

RECURSIVE Ends(_, _, _, _), EndsOfAll(_, _, _, _), EndsOfUnit(_, _, _), EndsOfUnits(_, _, _)

(* A unit that begins at i, which is not a place where the units stop      *)
EndsOfUnit(s, rule, i) ==
  LET c == s[i + 1]
      next == Joined(s, i + 1)
  IN CASE c = "\\" -> {IF s[i + 2] \in rule.escaped THEN i + 2 ELSE i + 1}
       [] c = "'" /\ "'" \in rule.quotes -> AfterSingleQuote(s, i + 1)
       [] c = "\"" /\ "\"" \in rule.quotes -> EndsOfAll(s, "Text", <<"quoted", "\"">>, {i + 1})
       [] c = BQ -> AfterBackquoted(s, rule.context, i + 1)
       [] c = "$" /\ Cut(s, next) -> {More(s)}
       [] c = "$" /\ ~Cut(s, next) /\ s[next + 1] \in SingleCharName \cup NameChar \cup {"{", "("} ->
            Ends(s, rule.context, "expansion", next)
       [] OTHER -> {i + 1}

EndsOfUnits(s, rule, i) ==
  LET j == Joined(s, i)
  IN CASE Cut(s, j) -> {More(s)}
       [] ~Cut(s, j) /\ s[j + 1] \in rule.stops \cup {EndOfInput} -> {i}
       [] OTHER -> UNION {EndsOfUnits(s, rule, k) : k \in EndsOfUnit(s, rule, j)}

(* The key of the longest operator at i                                    *)
OperatorsAt(s, i) == {key \in Operators : \E k \in EndsOfAll(s, "Word", key, {i}) : k <= Len(s)}
LongestAt(s, i) == CHOOSE key \in OperatorsAt(s, i) : \A k \in OperatorsAt(s, i) : Len(k) <= Len(key)

(* Where the parts of s that begin after i and are derived from a symbol   *)
(* end                                                                     *)
Ends(s, context, symbol, i) ==
  LET j == Joined(s, i)
      begin == AfterBlanks(s, i)
  IN CASE i > Len(s) \/ Cut(s, j) -> {More(s)}
       [] symbol \in DOMAIN Productions ->
            UNION {EndsOfAll(s, context, p, {i}) : p \in Productions[symbol]}
       [] symbol \in UnitSequence -> EndsOfUnits(s, Rules(symbol, context), i)
       [] symbol = "name" ->
            IF s[j + 1] \in NameChar \ SingleCharName THEN {AfterName(s, j)} ELSE {}
       [] symbol = "number" -> IF s[j + 1] \in Digit \ SpecialParam THEN {AfterName(s, j)} ELSE {}
       [] symbol \in DOMAIN OperatorToken ->
            CASE begin > Len(s) -> {More(s)}
              [] OperatorsAt(s, begin) = {} -> {}
              [] OTHER -> IF LongestAt(s, begin) = OperatorToken[symbol]
                          THEN EndsOfAll(s, context, OperatorToken[symbol], {begin}) ELSE {}
       [] symbol = "WORD" ->
            IF begin > Len(s) THEN {More(s)} ELSE Ends(s, "Word", "word", begin) \ {begin}
       [] OTHER ->
            IF s[j + 1] = symbol \/ (symbol \in DOMAIN Class /\ s[j + 1] \in Class[symbol])
            THEN {j + 1} ELSE {}

EndsOfAll(s, context, symbols, from) ==
  IF symbols = <<>> \/ from = {} THEN from
  ELSE EndsOfAll(s, context, Tail(symbols), UNION {Ends(s, context, Head(symbols), i) : i \in from})

-----------------------------------------------------------------------------
(* The characters of s from i to j without line continuations              *)
RECURSIVE Letters(_, _, _)
Letters(s, i, j) ==
  LET k == Joined(s, i) IN IF k >= j THEN <<>> ELSE <<s[k + 1]>> \o Letters(s, k + 1, j)

(* Is t the token that follows after i, and is there any?                  *)
IsToken(s, i, t) ==
  LET begin == AfterBlanks(s, i)
      key == LongestAt(s, begin)
      ends == IF t.kind = "operator" THEN EndsOfAll(s, "Word", key, {begin})
              ELSE Ends(s, "Word", "word", begin)
      number == t.begin < t.end /\ Range(Letters(s, t.begin, t.end)) \subseteq Digit
                /\ s[Joined(s, t.end) + 1] \in {"<", ">"}
  IN /\ t.begin = begin
     /\ Joined(s, t.end) \in {Joined(s, k) : k \in ends}
     /\ (t.kind = "operator") = (OperatorsAt(s, begin) # {})
     /\ t.kind = "operator" => t.key = key
     /\ (t.kind = "end") = (s[begin + 1] = EndOfInput)
     /\ (t.kind = "keyword") = (Letters(s, t.begin, t.end) \in Keyword)
     /\ (t.kind = "io") = number

(* Is the text of the units what is there from i to j?                     *)
IsText(s, units, i, j) ==
  LET text == Shown(units) IN Letters(text, 0, Len(text)) = Letters(s, i, j)

BeginsToken(s, i) == Ends(s, "Word", "word", AfterBlanks(s, i)) # {}

-----------------------------------------------------------------------------
(* Here-documents: the operator, its delimiter and the lines               *)

(* Quote removal, by characters: within double quotes a backslash escapes  *)
(* few of them.  The content is literal if there is any quote.             *)
RemoveQuote(done, c) ==
  LET Write == [done EXCEPT !.text = Append(@, c)]
      Into(quote) == [done EXCEPT !.quote = quote, !.literal = TRUE]
  IN CASE done.quote = "\\" -> [Write EXCEPT !.quote = "none"]
       [] done.quote = "\"\\" -> [done EXCEPT !.quote = "\"",
            !.text = @ \o (IF c \in {"$", BQ, "\"", "\\"} THEN <<c>> ELSE <<"\\", c>>)]
       [] done.quote \in {"'", "\""} /\ c = done.quote -> Into("none")
       [] done.quote = "\"" /\ c = "\\" -> Into("\"\\")
       [] done.quote = "none" /\ c \in {"\\", "'", "\""} -> Into(c)
       [] OTHER -> Write
QuoteRemoval(text) == FoldLeft(RemoveQuote, [text |-> <<>>, quote |-> "none", literal |-> FALSE], text)

RECURSIVE WithoutTabs(_)
WithoutTabs(text) == IF text # <<>> /\ Head(text) = Tab THEN WithoutTabs(Tail(text)) ELSE text

(* The lines after i up to the delimiter: where they end, and their text   *)
RECURSIVE HereDocsAt(_, _, _, _)
HereDocsAt(s, delimiter, tabs, i) ==
  LET ends == IF delimiter.literal
              THEN {Min({k \in i .. Len(s) : k = Len(s) \/ s[k + 1] \in {Newline, EndOfInput}})}
              ELSE {Joined(s, k) : k \in EndsOfUnits(s, Rules("line", "Text"), i)}
      Lines(j) ==
        LET raw == SubSeq(s, i + 1, j)
            text == IF delimiter.literal THEN raw ELSE Letters(s, i, j)
        IN IF (IF tabs THEN WithoutTabs(raw) ELSE raw) = delimiter.text
           THEN {[end |-> j + 1, text |-> <<>>, literal |-> delimiter.literal]}
           ELSE {[rest EXCEPT !.text = (IF tabs THEN WithoutTabs(text) ELSE text)
                                       \o <<Newline>> \o @] :
                   rest \in HereDocsAt(s, delimiter, tabs, j + 1)}
  IN UNION {Lines(j) : j \in {k \in ends : k < Len(s) /\ s[k + 1] = Newline}}

(* The operator and the delimiter, among tokens, of the n-th here-document *)
OperatorIndex(ts, n) ==
  LET IsOpener(k) == ts[k].key \in {<<"<", "<">>, <<"<", "<", "-">>}
  IN CHOOSE k \in DOMAIN ts : IsOpener(k) /\ n = Cardinality({l \in 1 .. k : IsOpener(l)})

(* The n-th here-document, if its content begins at i                      *)
HereDocs(s, ts, n, i) ==
  LET k == OperatorIndex(ts, n)
      word == ts[k + 1]
  IN HereDocsAt(s, QuoteRemoval(Letters(s, word.begin, word.end)), Len(ts[k].key) = 3, i)
=============================================================================
