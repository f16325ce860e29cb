--------------------------- MODULE MCAliasLexer ----------------------------
(* Instances of AliasLexer for TLC: two aliases, `a` and `b`, which may    *)
(* refer to themselves and to each other, and an ordinary word `x`.        *)
EXTENDS AliasLexer, TLC

MCName == {"a", "b"}
MCLetter == {"a", "b", "x"}

(* Replacements of up to two words, with and without a final blank.        *)
Replacements == {<<>>, <<Blank>>, <<"x", Newline, "b">>}
                \cup {<<w>> : w \in MCLetter}
                \cup {<<w, Blank>> : w \in MCLetter}
                \cup {<<v, Blank, w>> : v, w \in MCLetter}
                \cup {<<v, Blank, w, Blank>> : v, w \in MCLetter}

MCAliasSets == {a :> [replacement |-> r, global |-> FALSE]
                  @@ b :> [replacement |-> s, global |-> g] :
                    a \in {"a"}, b \in {"b"}, r, s \in Replacements, g \in BOOLEAN}

(* Lines; the second is one that an end-of-file without a newline ends     *)
(* (from a terminal, further lines may follow even so).                    *)
MCLine == {<<"a", Blank, "a", Newline>>, <<"a", Blank, "b">>, <<"x", Blank, "a", Newline>>}
=============================================================================
