---------------------------- MODULE PrintedParser ----------------------------
(***************************************************************************)
(* When a command line has been parsed, it, or a part of it, is printed    *)
(* and parsed again from the text, as by `parse` of a string: Display      *)
(* (syntax.rs), FromStr (from_str.rs) and the parser between them.         *)
(***************************************************************************)
EXTENDS Parser, TreeText

-----------------------------------------------------------------------------
(* What `parse` calls to make a part of a command from a string            *)
Compound == {"grouping", "subshell", "while loop", "if command", "for loop", "case command"}
PartEntryPoints(t) ==
  CASE t.node = "simple" -> {<<Frame("from_str"), Frame("simple")>>}
    [] t.node = "full" -> {<<Frame("from_str")>> \o FullCompound}
    [] t.node \in Compound -> {<<Frame("from_str"), Frame("compound_command")>>}
    [] t.node = "item" -> {<<Frame("from_str")>> \o Item}
    [] IsRedir(t) -> {<<Frame("from_str"), Frame("redir")>>}
    [] IsAssign(t) -> {<<Frame("from_str.assign"), Frame("simple")>>}
    [] OTHER -> {}

(* What `parse` calls to make a tree of a type from a string.  (That of    *)
(* List is maybe_compound_list, that of List<MissingHereDoc> is list.)     *)
EntryPoints(t) ==
  CASE t.node = "list" -> {<<Frame("from_str")>> \o List, <<Frame("from_str")>> \o CompoundList}
    [] t.node = "and_or" -> {<<Frame("from_str")>> \o AndOrList}
    [] t.node = "pipeline" -> {<<Frame("from_str")>> \o Pipeline}
    [] t.node \in {"simple", "full", "function"} ->
         {<<Frame("from_str")>> \o Command} \cup PartEntryPoints(t)
    [] OTHER -> PartEntryPoints(t)

(* The text is printed, and all of it is there for the lexer.              *)
PrintAndParse ==
  /\ outcome = "list"
  /\ source.again /\ printed = NoTree
  /\ \E t \in Subtrees(Result) : \E frames \in EntryPoints(t) :
       /\ printed' = t
       /\ ahead' = LET kinds == TokensOf(Text(t))
                   IN [i \in DOMAIN kinds |-> [kind |-> kinds[i], from |-> {}]]
       /\ stack' = frames
  /\ fed' = source.max
  /\ token' = NoToken /\ value' = NoValue /\ outcome' = "none" /\ error' = NoError
  /\ taken' = <<>> /\ line' = 1 /\ unread' = <<>> /\ read' = <<>>
  /\ UNCHANGED source

(* An assignment is the first one of a simple command.                     *)
AssignFromStr ==
  /\ Returned("from_str.assign", "Some")
  /\ IF IsAssign(value.tree.parts[1]) THEN Go(With("from_str.end", value.tree.parts[1]))
     ELSE End("nothing")
  /\ Peek

(* There is no line after the text.  A tree that is to have the contents   *)
(* of its here-documents fails where a tree of MissingHereDoc does not.    *)
FromStr ==
  \/ /\ Returned("from_str", "Some")
     /\ Go(Joined("from_str.end"))
     /\ Peek
  \/ AssignFromStr
  \/ /\ \E l \in {"from_str", "from_str.assign"} : Returned(l, "None")
     /\ End("nothing")
     /\ Peek
  \/ /\ Running /\ Top.at = "from_str.end"
     /\ End("list") \/ EnsureNoUnreadHereDoc
     /\ Peek

-----------------------------------------------------------------------------
Next == Poll \/ FromStr \/ PrintAndParse

(* The caller polls the future until it is ready; nobody has to print.     *)
PrintedSpec == Init /\ [][Next]_vars
FairSpec == PrintedSpec /\ WF_vars(Poll \/ FromStr)

-----------------------------------------------------------------------------
(* Properties                                                              *)

(* Display "allows you to convert an AST to a source code string ... with  *)
(* here-document contents omitted" (syntax.rs:77), and FromStr is the way  *)
(* back (syntax.rs:53): a tree that is printed and parsed is the same      *)
(* again, whichever part of a line it is.                                  *)
PrintedAgain == printed # NoTree /\ outcome # "none" =>
                  /\ outcome = "list" => Unfilled(Result) = Unfilled(printed)
                  /\ outcome # "list" => outcome = "missing here-doc" /\ Fill(printed) # <<>>

(* This is so if no command has a keyword for its first word, as it can    *)
(* after a redirection (`Display` prints the words first).                 *)
KeywordFirst(t) == t.node = "simple" /\ t.parts[1].node \in Keyword
RoundTrip == (\A t \in Subtrees(printed) : ~KeywordFirst(t)) => PrintedAgain

(* However aliases refer to each other, the parser comes to a result, and  *)
(* so it does with what has been printed.                                  *)
Terminates == []<>(outcome # "none")
=============================================================================
