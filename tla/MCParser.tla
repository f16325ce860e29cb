------------------------------ MODULE MCParser ------------------------------
(* Instances of Parser for TLC, checked against ShellGrammar.  Each source *)
(* is a vocabulary for some constructs of the language.                    *)
EXTENDS ShellGrammar, FiniteSets

(* "not" is an alias for a keyword and a word and "loop" for itself; the   *)
(* global aliases stand for a separator, a redirection and nothing.        *)
MCAlias == [not |-> [replacement |-> <<"!", "word">>, global |-> FALSE],
            loop |-> [replacement |-> <<"loop">>, global |-> FALSE],
            end |-> [replacement |-> <<";">>, global |-> TRUE],
            g |-> [replacement |-> <<"<", "word">>, global |-> TRUE],
            nil |-> [replacement |-> <<>>, global |-> TRUE]]

(* A source is a vocabulary for some constructs: the tokens it offers, how *)
(* many of them at most, those it offers at most twice (`rare`) or once    *)
(* (`once`), and whether words may follow each other.                      *)
Vocabulary(kinds, max, rare, once, words) ==
  [kinds |-> kinds, max |-> max, rare |-> rare, once |-> once, words |-> words, again |-> FALSE]
Printed(src) == [src EXCEPT !.again = TRUE]

Count(s, kinds) == Cardinality({i \in DOMAIN s : s[i] \in kinds})

(* An IO_NUMBER is one because a redirection follows.  After a word other  *)
(* words are arguments: to keep their number down, most sources have none  *)
(* (a word after `for` or `case` is not the word of a command), nor empty  *)
(* lines.                                                                  *)
MCOffer(src, s) ==
  LET last == IF s = <<>> THEN "none" ELSE Last(s)
      spent == {k \in src.rare : Count(s, src.rare) >= 2}
               \cup {k \in src.once : Count(s, {k}) >= 1}
               \cup {k \in {IoNumber} : Len(s) >= src.max - 1}
  IN CASE last = IoNumber -> src.kinds \cap (RedirOp \cup {"<("})
       [] src.words -> src.kinds \ spent
       [] last = "word" /\ (Len(s) = 1 \/ s[Len(s) - 1] \notin {"for", "case"}) ->
            src.kinds \ (Token \cup spent)
       [] last = Newline -> src.kinds \ ({Newline} \cup spent)
       [] OTHER -> src.kinds \ spent

Lists == Vocabulary({"word", "!", ";", "&", "&&", "|", Newline}, 6, {}, {}, TRUE)
PrintedLists == Vocabulary({"word", "!", ";", "&", "&&", "|"}, 5, {}, {}, FALSE)
Redirections == Vocabulary({"word", "array", "assign", "fi", "<", "<(", "3", "(", ")", Newline},
                           6, {"array", "assign", "fi"}, {"3", "("}, TRUE)
Groups == Vocabulary({"word", "{", "}", "(", ")", ";", Newline}, 8, {"{", "("}, {}, FALSE)
Functions == Vocabulary({"word", "{", "}", "(", ")", "<", Newline}, 10,
                        {Newline}, {"{", "(", "<"}, FALSE)
Ifs == Vocabulary({"word", "if", "then", "elif", "else", "fi", ";"}, 17,
                  {}, {"if", "elif", "else"}, FALSE)
Whiles == Vocabulary({"word", "while", "until", "do", "done", "&", Newline}, 9,
                     {Newline}, {"while", "until"}, FALSE)
Fors == Vocabulary({"word", "for", "in", "do", "done", ";", Newline}, 10,
                   {Newline}, {"for", "do", "done"}, FALSE)
Cases == Vocabulary({"word", "case", "in", "esac", "(", ")", "|", ";;", Newline}, 10,
                    {Newline}, {"case", "in", "(", "|", ";;"}, FALSE)
Aliases == Vocabulary({"word", "not", "loop", "end", "g", "|", "<", Newline}, 4, {}, {}, TRUE)
CaseAliases == Vocabulary({"word", "case", "in", "esac", ")", "nil", "end", Newline}, 8,
                          {"nil", "end"}, {"case"}, FALSE)
HereDocAliases == Vocabulary({"word", "not", "g", "end", "<<", Newline}, 6,
                             {"not", "g", "end", "<<"}, {}, TRUE)
HereDocs == Vocabulary({"word", "<<", "|", "{", "}", Newline}, 10, {"<<"}, {"{", "|"}, FALSE)
HereDocsInIf == Vocabulary({"<<", "word", "if", "then", "fi", Newline}, 11,
                           {"<<", Newline}, {"if", "then", "fi"}, FALSE)
HereDocsInFor == Vocabulary({"word", "<<", ";", "for", "in", Newline}, 8,
                            {}, {"<<", "for", "in", Newline}, FALSE)
NoCommand == Vocabulary({"word", "nil", "|", Newline}, 6, {Newline}, {"|", "nil"}, FALSE)

(* The sources of the runs.  The lines of most of them, and their parts,   *)
(* are printed and parsed again.                                           *)
MCConstructs == {PrintedLists, Redirections, Groups, Functions, Ifs, Whiles, Fors, Cases}
MCSubstituted == {Aliases, CaseAliases, HereDocsInIf}
MCSources == {Lists, HereDocAliases, HereDocs}
             \cup {Printed(src) : src \in MCConstructs \cup MCSubstituted}
MCHereDocsInFor == {HereDocsInFor}
MCNoCommand == {NoCommand}

(* What has been taken, and the token that the parser has stopped at       *)
Seen == IF token = NoToken THEN taken ELSE Append(taken, token.kind)

(* The parser accepts exactly the lines of the grammar, of the tokens that *)
(* alias substitution leaves: it returns a list only for a line, and an    *)
(* error only at a token with which no line goes on.                       *)
AcceptsGrammar == printed = NoTree =>
                  /\ outcome \in {"list", "nothing", "missing here-doc"} => IsLine(Seen)
                  /\ outcome = "error" => ~BeginsLine(Seen)

(* An error says what is wrong where: the construct it is about begins at  *)
(* the opening location, or at the location, and is complete up to the     *)
(* token the parser has stopped at.  So of several constructs that are     *)
(* open the innermost is named, and of an `if` with several clauses the    *)
(* one that is concerned (if.rs:51, for_loop.rs:91).  An IO_NUMBER that    *)
(* no redirection follows, as in `3<(`, has been dropped before            *)
(* (redir.rs:103).                                                         *)
ErrorsExplained ==
  outcome = "error" =>
    LET stop == Len(Seen)
        ends == {stop - 1} \cup {i \in {stop - 2} : i >= 0 /\ Seen[i + 1] = IoNumber}
        fits(i) == Contexts(Seen, error.cause, i - 1) \cap ends # {}
    IN CASE error.opening # 0 -> error.location = stop /\ fits(error.opening)
         [] error.opening = 0 /\ error.location # stop -> fits(error.location)
         [] OTHER -> \E i \in 1 .. stop : fits(i)

(* The here-document that is said to have no content is the first one that *)
(* no newline comes after (core.rs:583).                                   *)
MissingContentLocated ==
  outcome = "missing here-doc" =>
    LET isDelimiter(i) == i > 1 /\ Seen[i - 1] = "<<"
        hasContent(i) == \E j \in i .. Len(Seen) : Seen[j] = Newline
    IN \A i \in 1 .. error.location :
         isDelimiter(i) => (hasContent(i) <=> i # error.location)
=============================================================================
