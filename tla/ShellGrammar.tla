---------------------------- MODULE ShellGrammar ----------------------------
(***************************************************************************)
(* The grammar that the parser of yash-syntax accepts, as productions, and *)
(* a recognizer for it that works by definition: it tries every production *)
(* at every place.  Parser is checked against it.                          *)
(***************************************************************************)
EXTENDS PrintedParser

(* Symbols that stand for one token of several kinds                       *)
Class == [redir_op |-> RedirOp,
          operand |-> Token \cup {IoNumber},
          token |-> Token,
          keyword |-> Keyword,
          name |-> Word \ {"assign", "array"},
          pattern |-> Token \ {"esac"}]

(* Productions; other symbols stand for tokens.                            *)
Productions ==
  [line |-> {<<"list", "NL">>, <<"list", "EOF">>},
   list |-> {<<>>, <<"and_or", "more">>},
   more |-> {<<>>, <<";", "list">>, <<"&", "list">>},
   newlines |-> {<<>>, <<"NL", "newlines">>},
   and_or |-> {<<"pipeline", "and_or_rest">>},
   and_or_rest |-> {<<>>, <<"&&", "newlines", "and_or">>, <<"||", "newlines", "and_or">>},
   pipeline |-> {<<"commands">>, <<"!", "commands">>},
   commands |-> {<<"command", "commands_rest">>},
   commands_rest |-> {<<>>, <<"|", "newlines", "commands">>},
   command |-> {<<"simple">>, <<"compound", "redirs">>,
                <<"name", "(", ")", "newlines", "compound", "redirs">>},
   \* a compound list that may be empty, and one that may not
   lists |-> {<<"list", "lines">>},
   lines |-> {<<>>, <<"NL", "lists">>},
   body |-> {<<"newlines", "and_or", "more", "lines">>},
   \* simple commands: assignments and redirections, then words and redirections
   simple |-> {<<"redir", "prefix">>, <<"assignment", "prefix">>, <<"name", "arguments">>},
   prefix |-> {<<>>, <<"redir", "prefix">>, <<"assignment", "prefix">>,
               <<"name", "arguments">>, <<"keyword", "arguments">>},
   arguments |-> {<<>>, <<"redir", "arguments">>, <<"token", "arguments">>},
   assignment |-> {<<"assign">>, <<"array">>, <<"array", "(", "elements", ")">>},
   elements |-> {<<>>, <<"NL", "elements">>, <<"token", "elements">>},
   redirs |-> {<<>>, <<"redir", "redirs">>},
   redir |-> {<<"redir_op", "operand">>, <<"3", "redir_op", "operand">>},
   compound |-> {<<"{", "body", "}">>, <<"(", "body", ")">>,
                 <<"while", "body", "do", "body", "done">>,
                 <<"until", "body", "do", "body", "done">>,
                 <<"if", "body", "then", "body", "elses", "fi">>,
                 <<"for", "operand", "values", "newlines", "do", "body", "done">>,
                 <<"case", "token", "newlines", "in", "items", "esac">>},
   elses |-> {<<>>, <<"elif", "body", "then", "body", "elses">>, <<"else", "body">>},
   values |-> {<<>>, <<";">>, <<"newlines", "in", "fields", ";">>, <<"newlines", "in", "fields", "NL">>},
   fields |-> {<<>>, <<"operand", "fields">>},
   items |-> {<<"newlines">>, <<"newlines", "item", "more_items">>},
   more_items |-> {<<>>, <<";;", "items">>},
   item |-> {<<"pattern", "patterns", "lists">>, <<"(", "pattern", "patterns", "lists">>},
   patterns |-> {<<")">>, <<"|", "token", "patterns">>},
   \* what a pattern, and more of the patterns, come after
   before_pattern |-> {<<"in", "newlines">>, <<"in", "newlines", "(">>,
                       <<";;", "newlines">>, <<";;", "newlines", "(">>},
   some_patterns |-> {<<"before_pattern", "pattern">>, <<"before_pattern", "pattern", "more_patterns">>},
   more_patterns |-> {<<"|", "token">>, <<"|", "token", "more_patterns">>},
   and_or_operator |-> {<<"&&">>, <<"||">>}]

Matches(symbol, kind) ==
  \/ kind = symbol
  \/ symbol \in DOMAIN Class /\ kind \in Class[symbol]

RECURSIVE Ends(_, _, _), EndsOfAll(_, _, _)

(* A simple command goes as far as there are words, whatever they are.     *)
Whole(s, symbol, ends) ==
  {i \in ends : symbol = "simple" /\ i < Len(s) => s[i + 1] \notin Token}

(* Where the parts of s that begin after i and are derived from a symbol   *)
(* end; Len(s) + 1 stands for the end of one that s may be extended to     *)
(* contain.                                                                *)
Ends(s, symbol, i) ==
  CASE i > Len(s) -> {i}
    [] symbol \in DOMAIN Productions ->
         Whole(s, symbol, UNION {EndsOfAll(s, p, {i}) : p \in Productions[symbol]})
    [] symbol \notin DOMAIN Productions ->
         IF i = Len(s) \/ Matches(symbol, s[i + 1]) THEN {i + 1} ELSE {}

EndsOfAll(s, symbols, from) ==
  IF symbols = <<>> \/ from = {} THEN from
  ELSE EndsOfAll(s, Tail(symbols), UNION {Ends(s, Head(symbols), i) : i \in from})

(* What comes before the token that an error of this cause is about, from  *)
(* the opening location or, if there is none, from the location on         *)
Context ==
  [UnexpectedToken |-> {<<"list">>},
   MissingPipeline |-> {<<"and_or_operator", "newlines">>},
   DoubleNegation |-> {<<"!">>}, MissingCommandAfterBang |-> {<<"!">>},
   BangAfterBar |-> {<<"|", "newlines">>}, MissingCommandAfterBar |-> {<<"|", "newlines">>},
   MissingRedirOperand |-> {<<"<">>}, MissingHereDocDelimiter |-> {<<"<<">>},
   UnclosedArrayValue |-> {<<"(", "elements">>},
   UnclosedGrouping |-> {<<"{", "lists">>}, EmptyGrouping |-> {<<"{", "newlines">>},
   UnclosedSubshell |-> {<<"(", "lists">>}, EmptySubshell |-> {<<"(", "newlines">>},
   UnclosedDoClause |-> {<<"do", "lists">>}, EmptyDoClause |-> {<<"do", "newlines">>},
   UnclosedWhileClause |-> {<<"while", "lists">>}, UnclosedUntilClause |-> {<<"until", "lists">>},
   EmptyWhileCondition |-> {<<"while", "newlines", "do", "body">>},
   EmptyUntilCondition |-> {<<"until", "newlines", "do", "body">>},
   EmptyIfCondition |-> {<<"if", "newlines">>}, EmptyElifCondition |-> {<<"elif", "newlines">>},
   EmptyIfBody |-> {<<"then", "newlines">>}, EmptyElifBody |-> {<<"then", "newlines">>},
   EmptyElse |-> {<<"else", "newlines">>},
   IfMissingThen |-> {<<"if", "body">>}, ElifMissingThen |-> {<<"elif", "body">>},
   UnclosedIf |-> {<<"if", "body", "then", "body", "elses">>},
   MissingForName |-> {<<"for">>}, InvalidForName |-> {<<"for">>},
   InvalidForValue |-> {<<"for", "operand", "newlines", "in", "fields">>},
   MissingForBody |-> {<<"for", "operand", "values", "newlines">>},
   MissingCaseSubject |-> {<<"case">>}, InvalidCaseSubject |-> {<<"case">>},
   MissingIn |-> {<<"case", "token", "newlines">>},
   MissingPattern |-> {<<"before_pattern">>, <<"some_patterns", "|">>},
   InvalidPattern |-> {<<"before_pattern">>, <<"some_patterns", "|">>},
   EsacAsPattern |-> {<<"before_pattern">>},
   UnclosedPatternList |-> {<<"some_patterns">>},
   UnclosedCase |-> {<<"case", "token", "newlines", "in", "items">>},
   UnmatchedParenthesis |-> {<<"name", "(">>},
   MissingFunctionBody |-> {<<"name", "(", ")", "newlines">>},
   InvalidFunctionBody |-> {<<"name", "(", ")", "newlines">>}]

(* The places where the context of the cause ends that begins after i      *)
Contexts(s, cause, i) == UNION {EndsOfAll(s, c, {i}) : c \in Context[cause]}

(* Is s a line of the language, and the beginning of one?                  *)
IsLine(s) == Len(s) \in Ends(s, "line", 0)
BeginsLine(s) == Ends(s, "line", 0) \cap {Len(s), Len(s) + 1} # {}
=============================================================================
