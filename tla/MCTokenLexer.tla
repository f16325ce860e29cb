---------------------------- MODULE MCTokenLexer ----------------------------
(* Instances of TokenLexer for TLC, checked against TokenGrammar.  Each    *)
(* source is a vocabulary for some kinds of words.                         *)
EXTENDS TokenGrammar

Vocabulary(starts, units, max) ==
  [start |-> "tokens", starts |-> starts, units |-> units, max |-> max]

Chars(S) == {<<c>> : c \in S}
Escaped(S) == {<<"\\", c>> : c \in S}
Continuation == <<"\\", Newline>>

Anything(units, max) == Vocabulary(units \cup {<<EndOfInput>>}, units, max)

Quotes == Anything(Chars({"a", "'", "\"", "$", " "}) \cup {Continuation}, 5)
Escapes == Anything(Chars({"a", "'", "\"", BQ}) \cup Escaped({"a", "'", "\"", BQ}), 6)
Comments == Anything(Chars({"a", "#", " ", Newline, "'"}) \cup Escaped({"a"}) \cup {Continuation}, 5)
OperatorWords == Anything(Chars({"&", "(", ";", "<", ">", "|", "-"}) \cup {Continuation}, 4)
Numbers == Anything(Chars({"a", "1", "<", "$"}) \cup {Continuation}, 5)
Parameters == Vocabulary({<<"$", "{">>}, Chars({"}", "#", "-", ":", "%", "a"}) \cup {Continuation}, 7)
Modifiers == Vocabulary({<<"$", "{", "a", "-">>, <<"\"", "$", "{", "a", "-">>, <<"$", "{", "a", "#">>,
                         <<"\"", "$", "{", "a", "#">>, <<"$", "{", "a", "-", "~">>,
                         <<"\"", "$", "{", "a", "-", "~">>, <<"$", "{", "a", "#", "~">>},
                        Chars({"$", "{", "}", "a", "\"", "'"}) \cup Escaped({"}", "a"}), 8)
Commands == Vocabulary({<<"$", "(">>}, Chars({"(", ")", "a", ";", " ", Newline}), 7)
Subshells == Vocabulary({<<"$", "(", "(", "a", ")">>}, Chars({"(", ")", "a", ";", " ", Newline}), 9)
Functions == Vocabulary({<<"$", "(", "a", "(">>}, Chars({"(", ")", "a", Newline}), 10)
Expressions == Vocabulary({<<"$", "(", "(">>}, Chars({"$", "(", ")", "a", " "}), 9)
Continued == Vocabulary({<<"$", "\\", Newline>>, <<"$", "(", "\\", Newline>>, <<"$", "{", "\\", Newline>>},
                        Chars({"{", "}", "(", ")", "#", "a"}), 8)
Nested == Vocabulary({<<"$", "{", "a", "-">>, <<"$", "(", "(">>}, Chars({"$", "{", "}", "(", ")", "a"}), 8)
Tildes == Vocabulary({<<"~">>, <<"a", "=", "~">>, <<"a", "=", "a">>},
                     Chars({"~", "a", "/", ":", "'"}), 7)
HereDocLines == Vocabulary({<<"<", "<">> \o d \o <<Newline>> :
                              d \in {<<"a">>, <<"\\", "a">>, <<"'", "a", "'">>}},
                           Chars({"a", "$", Newline}) \cup {Continuation}, 10)
HereDocTabs == Vocabulary({<<"<", "<", "-", "a">>, <<"<", "<", "-", "'", "a", "'">>},
                          Chars({"a", Tab, Newline}), 12)
HereDocTabsContinued == Vocabulary({<<"<", "<", "-", "a", Newline>>},
                                   Chars({"a", Tab, Newline}) \cup {Continuation}, 12)
TwoHereDocs == Vocabulary({<<"<", "<", "a", "<", "<", "\\", "1", Newline>>},
                          Chars({"a", "1", Newline}), 14)
HereDocExpansions == Vocabulary({<<"<", "<", "a", Newline>>},
                                Chars({"a", ")", BQ, Newline}) \cup {<<"$", "(">>} \cup Escaped({BQ}), 9)
Strings == [Anything(Chars({"a", "'", "\"", "~", ";"}) \cup Escaped({"\""}), 5) EXCEPT !.start = "word"]
Texts == [Anything(Chars({"a", "'", "\"", "$", "{", "}"}) \cup Escaped({"a"}), 5) EXCEPT !.start = "text"]
StringUnits == [Strings EXCEPT !.start = "word unit"]
TextUnits == [Texts EXCEPT !.start = "text unit"]
OperatorStrings == [OperatorWords EXCEPT !.start = "operator"]
Backslashes == Vocabulary({<<"\\">>}, Chars({"\\", Newline, "a"}), 4)
QuotedDelimiter == Vocabulary({<<"<", "<", "\"", "a", "\"", Newline>>}, Chars({"a", "$", Newline}), 12)

(* The sources of the runs                                                 *)
MCWords == {Quotes, Escapes, Comments, OperatorWords, Numbers, Parameters, Modifiers,
            Commands, Subshells, Functions, Expressions, Continued, Nested, Tildes,
            HereDocLines, HereDocTabs, HereDocTabsContinued, TwoHereDocs, HereDocExpansions, Strings, Texts,
            StringUnits, TextUnits, OperatorStrings}
MCBackslashes == {Backslashes}
MCQuotedDelimiter == {QuotedDelimiter}

(* Where the k-th of tokens ends, and whether it is a here-document         *)
end(k) == IF k = 0 THEN 0 ELSE tokens[k].end
IsHereDoc(k) == tokens[k].kind = "here-doc"
InHereDoc == \E i \in DOMAIN stack : stack[i].at = "heredoc"

(* The tokens are those of the grammar, and an error means that there is   *)
(* none.  An operator made from a string is the longest one that is there. *)
TokensOfGrammar ==
  /\ outcome # "none" /\ input.start = "tokens" =>
       /\ \A k \in DOMAIN tokens : ~IsHereDoc(k) => IsToken(source, end(k - 1), tokens[k])
       /\ outcome = "error" /\ ~InHereDoc => ~BeginsToken(source, end(Len(tokens)))
  /\ outcome # "none" /\ input.start = "operator" =>
       IF tokens = <<>> THEN OperatorsAt(source, 0) = {} ELSE tokens[1].key = LongestAt(source, 0)

(* The content of a here-document is the lines up to the first one that is *)
(* the delimiter, with `<<-` less their tabs.  Nothing in it is expanded   *)
(* if the delimiter is quoted in any way, and an error means that there is *)
(* no such line (heredoc.rs, where the delimiter is compared with the      *)
(* source, and "If the delimiter is quoted, the content must be all        *)
(* literal.", syntax.rs:817).                                              *)
HereDocsOfLines ==
  LET number(k) == Cardinality({i \in 1 .. k : IsHereDoc(i)})
      lines(n, i) == HereDocs(source, tokens, n, i)
  IN outcome # "none" =>
       /\ \A k \in DOMAIN tokens : IsHereDoc(k) =>
            \E doc \in lines(number(k), end(k - 1)) :
              /\ doc.end = end(k)
              /\ doc.text = Shown(tokens[k].word)
              /\ doc.literal => AllLiteral(tokens[k].word)
       /\ outcome = "error" /\ InHereDoc =>
            lines(number(Len(tokens)) + 1, end(Len(tokens))) = {}

(* What is printed for a word, an assignment or a text is what it has been *)
(* read from: going back loses no unit and keeps none twice (syntax.rs,    *)
(* `Display`).                                                             *)
SourceShown ==
  outcome # "none" =>
    \A k \in DOMAIN tokens : ~IsHereDoc(k) =>
      LET t == tokens[k]
          assign == TryAssign(t.word)
      IN /\ IsText(source, t.word, t.begin, t.end)
         /\ assign # NoAssign => assign.name \o <<"=">> \o Shown(assign.value) = Shown(t.word)

(* A `~` is a tilde expansion if it is first, or after a `:` where that is *)
(* allowed, and its name ends at `/`, `:` or the end of the word.          *)
TildesInPlace(units, everywhere) ==
  LET begins(i) == i = 1 \/ (everywhere /\ units[i - 1] = Literal(":"))
      ends(i) == i > Len(units) \/ units[i] \in {Literal("/"), Literal(":")}
  IN \A i \in DOMAIN units :
       /\ units[i].unit = "tilde" =>
            begins(i) /\ ends(i + 1) /\ Range(units[i].text) \cap {"/", ":"} = {}
       /\ units[i] = Literal("~") /\ begins(i) =>
            \E j \in i + 1 .. Len(units) : ~IsLiteral(units[j]) /\ \A k \in i + 1 .. j : ~ends(k)

(* The words of the modifiers among the units                              *)
ModifierWords(units) ==
  {units[i].parts[1].parts : i \in {j \in DOMAIN units : units[j].unit = "braced param"}}

(* Tilde expansions are where they may be, in words, assignments and the   *)
(* words of modifiers, but not between double quotes (tilde.rs, where the  *)
(* end of the name is found by looking ahead).                             *)
TildeExpansions ==
  \A k \in DOMAIN tokens : ~IsHereDoc(k) /\ input.start = "tokens" =>
    LET word == tokens[k].word
        quoted == UNION {ModifierWords(word[i].parts) :
                           i \in {j \in DOMAIN word : word[j].unit = "double quote"}}
    IN /\ TildesInPlace(word, FALSE)
       /\ TildesInPlace(TryAssign(word).value, TRUE)
       /\ \A w \in ModifierWords(word) : TildesInPlace(w, FALSE)
       /\ \A w \in quoted : \A i \in DOMAIN w : w[i].unit # "tilde"
=============================================================================
