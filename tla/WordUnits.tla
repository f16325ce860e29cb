------------------------------ MODULE WordUnits ------------------------------
(***************************************************************************)
(* The units of words and texts (syntax.rs): what `Display` and `Unquote`  *)
(* make of them, and tilde expansions (tilde.rs).                          *)
(*                                                                         *)
(* A unit has its own characters, the units it consists of, and what is    *)
(* computed from them: the characters that `fmt` writes (shown) and that   *)
(* `write_unquoted` writes (plain), and whether that finds quotes.         *)
(***************************************************************************)
EXTENDS Naturals, Sequences, SequencesExt

BQ == "BQ"          \* a backquote

(* Slices: one unit after the other                                        *)
Shown(units) == FlattenSeq([i \in DOMAIN units |-> units[i].shown])
Plain(units) == FlattenSeq([i \in DOMAIN units |-> units[i].plain])
IsQuoted(units) == \E i \in DOMAIN units : units[i].quoted

(* MaybeLiteral                                                            *)
IsLiteral(unit) == unit.unit = "literal"
AllLiteral(units) == \A i \in DOMAIN units : IsLiteral(units[i])

(* Units with something before and after their parts                       *)
Enclosed(kind, text, before, parts, after) ==
  [unit |-> kind, text |-> text, parts |-> parts,
   shown |-> before \o Shown(parts) \o after,
   plain |-> before \o Plain(parts) \o after,
   quoted |-> IsQuoted(parts)]

Literal(c) == Enclosed("literal", <<c>>, <<c>>, <<>>, <<>>)
Backslashed(c) ==
  [Enclosed("backslashed", <<c>>, <<"\\", c>>, <<>>, <<>>) EXCEPT !.plain = <<c>>, !.quoted = TRUE]
RawParam(name) == Enclosed("raw param", name, <<"$">> \o name, <<>>, <<>>)
CommandSubst(content) == Enclosed("command subst", content, <<"$", "(">> \o content, <<>>, <<")">>)
Backquoted(units) == Enclosed("backquote", <<>>, <<BQ>>, units, <<BQ>>)
Arith(units) == Enclosed("arith", <<>>, <<"$", "(", "(">>, units, <<")", ")">>)
SingleQuoted(content) ==
  [Enclosed("single quote", content, <<"'">> \o content, <<>>, <<"'">>)
     EXCEPT !.plain = content, !.quoted = TRUE]
DoubleQuoted(units) ==
  [Enclosed("double quote", <<>>, <<"\"">>, units, <<"\"">>) EXCEPT !.plain = Plain(units)]
Tilde(name) == Enclosed("tilde", name, <<"~">> \o name, <<>>, <<>>)

(* Modifiers: a switch or trim has an operator and a word.                 *)
Modifier(kind, operator, word) == Enclosed(kind, operator, operator, word, <<>>)
Param(name, modifier) ==
  Enclosed("braced param", name,
           <<"$", "{">> \o (IF modifier.unit = "length" THEN <<"#">> ELSE <<>>) \o name,
           <<modifier>>, <<"}">>)

(* Text::from_literal_chars                                                *)
Literals(text) == [i \in DOMAIN text |-> Literal(text[i])]

-----------------------------------------------------------------------------
(* Word::parse_tilde                                                       *)

(* The name that begins after i ends at a literal `/` or `:` or another    *)
(* kind of unit.                                                           *)
NameEnd(units, i) ==
  Max({j \in i .. Len(units) :
         \A k \in i + 1 .. j : IsLiteral(units[k]) /\ units[k].text \notin {<<"/">>, <<":">>}})

\* Mutant: what follows the name is not looked at
IsApplicableAlways(units, end) == TRUE

(* It must not be followed by a quote or an expansion.                     *)
IsApplicable(units, end) == end = Len(units) \/ IsLiteral(units[end + 1])

ParseTilde(units, everywhere) ==
  LET parse[i \in 1 .. Len(units) + 1, isAfterColon \in BOOLEAN] ==
        LET end == NameEnd(units, i)
            name == SubSeq(units, i + 1, end)
        IN CASE i > Len(units) -> <<>>
             [] i <= Len(units) /\ units[i] = Literal("~") /\ isAfterColon ->
                  (IF IsApplicable(units, end) THEN <<Tilde(Plain(name))>> ELSE <<units[i]>> \o name)
                  \o parse[end + 1, FALSE]
             [] OTHER -> <<units[i]>> \o parse[i + 1, everywhere /\ units[i] = Literal(":")]
  IN parse[1, TRUE]

ParseTildeFront(units) == ParseTilde(units, FALSE)
ParseTildeEverywhere(units) == ParseTilde(units, TRUE)

(* Assign::try_from, on a word of the form `name=value`                    *)
NoAssign == [name |-> <<>>, value |-> <<>>]
TryAssign(word) ==
  LET equals == {i \in DOMAIN word : word[i] = Literal("=")}
      eq == Min(equals)
      name == SubSeq(word, 1, eq - 1)
  IN IF equals # {} /\ name # <<>> /\ AllLiteral(name)
     THEN [name |-> Plain(name),
           value |-> ParseTildeEverywhere(SubSeq(word, eq + 1, Len(word)))]
     ELSE NoAssign
=============================================================================
