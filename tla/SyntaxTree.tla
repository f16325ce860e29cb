----------------------------- MODULE SyntaxTree -----------------------------
(***************************************************************************)
(* The tokens and the syntax trees of commands (syntax.rs of yash-syntax), *)
(* and the order in which `Fill` visits their here-documents (fill.rs).    *)
(*                                                                         *)
(* A tree is a node with its parts in the order of their printing.  A word *)
(* is what tells it from others for the parser; all redirections but       *)
(* here-documents are "<".  A here-document has the number of the content  *)
(* that belongs to it.                                                     *)
(***************************************************************************)
EXTENDS Naturals, Sequences, SequencesExt

Keyword == {"!", "{", "}", "case", "do", "done", "elif", "else", "esac", "fi", "for",
            "if", "in", "then", "until", "while"}
IoNumber == "3"
RedirOp == {"<", "<<"}
Newline == "NL"
EndOfInput == "EOF"
Operator == RedirOp \cup {"<(", ";", ";;", "&", "&&", "||", "|", "(", ")", Newline}

-----------------------------------------------------------------------------
(* Fill::fill                                                              *)

(* Mutant: redirections are filled before the command they redirect.       *)
FillOrderReversed(name, parts) == IF name = "full" THEN Reverse(parts) ELSE parts

(* The order in which the parts of a tree are visited                      *)
FillOrder(name, parts) == parts

(* The here-documents of several trees, one tree after the other           *)
DocsOf(parts) ==
  LET docs[n \in 0 .. Len(parts)] == IF n = 0 THEN <<>> ELSE docs[n - 1] \o parts[n].docs
  IN docs[Len(parts)]

(* The here-documents that are visited in a tree                           *)
Fill(t) == t.docs

-----------------------------------------------------------------------------
(* Trees                                                                   *)

Node(name, parts) == [node |-> name, parts |-> parts, docs |-> DocsOf(FillOrder(name, parts))]
HereDocNode(parts, number) == [Node("<<", parts) EXCEPT !.docs = <<number>>]
Leaf(name) == Node(name, <<>>)
NoTree == Leaf("none")

(* SimpleCommand: its assignments, words and redirections                  *)
IsAssign(t) == t.node \in {"scalar", "values"}
IsRedir(t) == t.node \in RedirOp
IsWord(t) == ~IsAssign(t) /\ ~IsRedir(t)
Selected(parts, those) ==
  LET selected[n \in 0 .. Len(parts)] ==
        IF n = 0 THEN <<>>
        ELSE IF parts[n] \in those THEN Append(selected[n - 1], parts[n]) ELSE selected[n - 1]
  IN selected[Len(parts)]
SimpleNode(parts) ==
  LET all == Range(parts)
  IN Node("simple", Selected(parts, {t \in all : IsAssign(t)})
                    \o Selected(parts, {t \in all : IsWord(t)})
                    \o Selected(parts, {t \in all : IsRedir(t)}))

(* SimpleCommand::is_empty and is_one_word                                 *)
IsEmpty(parts) == parts = <<>>
IsOneWord(t) == t.node = "simple" /\ Len(t.parts) = 1 /\ IsWord(t.parts[1])
=============================================================================
