------------------------------ MODULE TreeText ------------------------------
(***************************************************************************)
(* What `Display` prints of a tree (syntax.rs of yash-syntax), and the     *)
(* tokens that the lexer finds in it.                                      *)
(***************************************************************************)
EXTENDS SyntaxTree

(* The trees that a tree is made of                                        *)
RECURSIVE Subtrees(_)
Subtrees(t) == {t} \cup UNION {Subtrees(t.parts[i]) : i \in DOMAIN t.parts}

(* The tree of MissingHereDoc, before it is filled                         *)
RECURSIVE Unfilled(_)
Unfilled(t) == [t EXCEPT !.docs = <<>>, !.parts = [i \in DOMAIN @ |-> Unfilled(@[i])]]

-----------------------------------------------------------------------------
(* Display::fmt: a text is a sequence of tokens and blanks.                *)

Blank == <<" ">>
Added(text, separator, next) == IF text = <<>> THEN next ELSE text \o separator \o next

RECURSIVE Display(_, _)
Text(t) == Display(t, FALSE)
Terminated(t) == Display(t, TRUE)  \* {:#}, the alternate form

(* Parts with a separator between them                                     *)
Join(parts, separator) ==
  FoldLeft(LAMBDA text, part : Added(text, separator, Text(part)), <<>>, parts)
Spaced(parts) == Join(parts, Blank)

(* Mutant: the last item of a list is never terminated.                    *)
ItemTextBare(t, alternate) ==
  Text(t.parts[1]) \o IF t.node = "&" THEN <<"&">> ELSE <<>>

ItemText(t, alternate) == Text(t.parts[1]) \o IF t.node = "&" THEN <<"&">>
                                              ELSE IF alternate THEN <<";">> ELSE <<>>

ListText(t, alternate) ==
  FoldLeftDomain(LAMBDA text, i :
                   Added(text, Blank, ItemText(t.parts[i], alternate \/ i # Len(t.parts))),
                 <<>>, t.parts)

Bar == <<" ", "|", " ">>
PipelineText(t) == IF t.parts[1].node = "!" THEN <<"!", " ">> \o Join(Tail(t.parts), Bar)
                   ELSE Join(t.parts, Bar)

(* The operand is the last part; the descriptor, if any, is the first.     *)
RedirBodyText(t) == <<t.node>> \o Text(Last(t.parts))
RedirText(t) == Join(Front(t.parts), <<>>) \o RedirBodyText(t)

LoopText(t) == Text(t.parts[1]) \o Blank \o Terminated(t.parts[2]) \o <<" ", "do", " ">>
               \o Terminated(t.parts[3]) \o <<" ", "done">>

(* Conditions and bodies alternate; an `else` is left over.                *)
IfText(t) ==
  LET Introduction(i) == CASE i = 1 -> "if"
                           [] i % 2 = 0 -> "then"
                           [] i = Len(t.parts) -> "else"
                           [] OTHER -> "elif"
  IN FoldLeftDomain(LAMBDA text, i :
                      Added(text, Blank, <<Introduction(i), " ">> \o Terminated(t.parts[i])),
                    <<>>, t.parts) \o <<" ", "fi">>

(* The second part of a loop with values is "in".                          *)
ForText(t) == <<"for", " ">> \o Spaced(Front(t.parts))
              \o (IF Len(t.parts) = 2 THEN <<>> ELSE <<";">>)
              \o <<" ", "do", " ">> \o Terminated(Last(t.parts)) \o <<" ", "done">>

CaseText(t) == <<"case", " ">> \o Text(t.parts[1]) \o <<" ", "in", " ">>
               \o (IF Len(t.parts) = 1 THEN <<>> ELSE Spaced(Tail(t.parts)) \o Blank) \o <<"esac">>
CaseItemText(t) == <<"(">> \o Join(Front(t.parts), Bar) \o <<")", " ">>
                   \o Text(Last(t.parts)) \o <<";;">>

FullText(t) == Spaced(t.parts)
SimpleText(t) == Spaced(t.parts)
FunctionText(t) == Text(t.parts[1]) \o <<"(", ")", " ">> \o Text(t.parts[2])
ValueText(t) == IF t.node = "scalar" THEN <<"assign">>
                ELSE <<"array", "(">> \o Spaced(t.parts) \o <<")">>
AndOrText(t) == Spaced(t.parts)

Display(t, alternate) ==
  CASE t.node = "list" -> ListText(t, alternate)
    [] t.node \in {";", "&"} -> ItemText(t, alternate)
    [] t.node = "and_or" -> AndOrText(t)
    [] t.node = "pipeline" -> PipelineText(t)
    [] t.node = "simple" -> SimpleText(t)
    [] t.node = "full" -> FullText(t)
    [] t.node = "function" -> FunctionText(t)
    [] t.node \in RedirOp -> RedirText(t)
    [] t.node \in {"scalar", "values"} -> ValueText(t)
    [] t.node = "grouping" -> <<"{", " ">> \o Terminated(t.parts[1]) \o <<" ", "}">>
    [] t.node = "subshell" -> <<"(">> \o Text(t.parts[1]) \o <<")">>
    [] t.node = "while loop" -> LoopText(t)
    [] t.node = "if command" -> IfText(t)
    [] t.node = "for loop" -> ForText(t)
    [] t.node = "case command" -> CaseText(t)
    [] t.node = "item" -> CaseItemText(t)
    [] OTHER -> <<t.node>>

-----------------------------------------------------------------------------
(* The tokens that the lexer finds in a text                               *)

(* Operators that are written one after the other become longer ones.      *)
Glued == [o \in {";;"} |-> <<";", ";">>] @@ [o \in {"&&"} |-> <<"&", "&">>]
         @@ [o \in {"||"} |-> <<"|", "|">>] @@ [o \in {"<<"} |-> <<"<", "<">>]
         @@ [o \in {"<("} |-> <<"<", "(">>]
LongerOperators(first, second) == {o \in DOMAIN Glued : Glued[o] = <<first, second>>}

(* A digit is no IO_NUMBER, and `name=` no beginning of an array, if a     *)
(* blank follows; words without a blank between them are one.              *)
BeforeBlank == [k \in {IoNumber} |-> "word"] @@ [k \in {"array"} |-> "assign"]

Lexed(done, piece) ==
  LET last == Last(done.tokens)
      Replaced(token) == [tokens |-> Append(Front(done.tokens), token), glued |-> TRUE]
  IN CASE piece = " " -> IF done.glued /\ last \in DOMAIN BeforeBlank
                         THEN [Replaced(BeforeBlank[last]) EXCEPT !.glued = FALSE]
                         ELSE [done EXCEPT !.glued = FALSE]
       [] piece # " " /\ done.glued /\ LongerOperators(last, piece) # {} ->
            Replaced(CHOOSE o \in LongerOperators(last, piece) : TRUE)
       [] piece # " " /\ done.glued /\ {last, piece} \cap Operator = {} -> Replaced("word")
       [] OTHER -> [tokens |-> Append(done.tokens, piece), glued |-> TRUE]

TokensOf(text) == FoldLeft(Lexed, [tokens |-> <<>>, glued |-> FALSE], text).tokens
=============================================================================
