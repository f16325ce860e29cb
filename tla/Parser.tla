------------------------------- MODULE Parser -------------------------------
(***************************************************************************)
(* The parser of yash-syntax (src/parser), from `command_line` down to     *)
(* redirections, as the machine its asynchronous functions make up: the    *)
(* stack of functions that await each other is the future that the caller  *)
(* of `command_line` polls, and the program can be suspended wherever the  *)
(* lexer needs more input.                                                 *)
(*                                                                         *)
(* A frame of the stack is a function with the place it has come to; a     *)
(* step of a frame handles one token, or the value that the function it    *)
(* has called returns.                                                     *)
(*                                                                         *)
(* Abstracted: a token is what the parser tells it by; all redirections    *)
(* but here-documents are "<".  The location of a token is its number      *)
(* among those taken.  That an alias replacement ends with a blank is the  *)
(* subject of AliasLexer: here aliases are global or for command names.    *)
(***************************************************************************)
EXTENDS SyntaxTree

CONSTANTS Alias,      \* from words to [replacement : Seq(Kind), global : BOOLEAN]
          Source,     \* inputs: [kinds : SUBSET Kind, max : Nat, again : BOOLEAN], max
                      \* bounds the tokens, again: is the line printed?
          Offer(_, _) \* what a source may offer of these after the tokens taken so far

(* Words other than keywords: an assignment has a value or is followed by  *)
(* a blank; "array" is `name=` and the next character is not a blank.      *)
Word == {"word", "assign", "array"} \cup (DOMAIN Alias \ Keyword)
Token == Keyword \cup Word           \* TokenId::Token(_)
Kind == Token \cup Operator \cup {IoNumber, EndOfInput}

(* An alias is of a word.  ("none" is no token, see NoToken.)              *)
ASSUME AliasAssumption ==
  /\ DOMAIN Alias \cap (Operator \cup {IoNumber, EndOfInput, "none"}) = {}
  /\ \A name \in DOMAIN Alias : /\ Alias[name].replacement \in Seq(Kind \ {EndOfInput})
                                /\ Alias[name].global \in BOOLEAN
ASSUME SourceAssumption ==
  \A s \in Source : /\ s.kinds \subseteq Kind \ {EndOfInput}
                     /\ s.max \in Nat
                     /\ s.again \in BOOLEAN

VARIABLES
  source,   \* the input
  fed,      \* the number of tokens it has given
  ahead,    \* tokens of alias replacements that the lexer is still to read
  token,    \* Parser::token
  taken,    \* the tokens that have been taken for good
  line,     \* the number of newlines taken
  unread,   \* Parser::unread_here_docs
  read,     \* Parser::read_here_docs
  stack,    \* the frames
  value,    \* what the function that has just returned returns
  printed,  \* the tree that has been printed and is parsed again, if any
  outcome,  \* what command_line, or from_str, returns
  error     \* the Error, if it is one

input == <<source, fed, ahead>>
vars == <<source, fed, ahead, token, taken, line, unread, read, stack, value, printed, outcome, error>>

NoToken == [kind |-> "none", from |-> {}]

(* struct Error: the cause, the location, and the opening_location of the  *)
(* construct that the cause names, if it has one                           *)
Error(cause, location, opening) == [cause |-> cause, location |-> location, opening |-> opening]
NoError == Error("none", 0, 0)

(* A frame has the parts of the tree that its function is making, and the  *)
(* locations of the token that the construct, and its latest clause, began *)
(* with.                                                                   *)
Frame(at) == [at |-> at, parts |-> <<>>, open |-> 0, clause |-> 0]
NoValue == [tag |-> "none", tree |-> NoTree]
AliasSubstituted == [tag |-> "AliasSubstituted", tree |-> NoTree]
None == [tag |-> "None", tree |-> NoTree]
Some(tree) == [tag |-> "Some", tree |-> tree]

(* Functions that begin by calling another                                 *)
Command == <<Frame("command"), Frame("simple")>>
Pipeline == <<Frame("pipeline")>> \o Command
AndOrList == <<Frame("and_or")>> \o Pipeline
List == <<Frame("list")>> \o AndOrList
CompoundList == <<Frame("compound_list")>> \o List
DoClause == <<Frame("do")>> \o CompoundList
FullCompound == <<Frame("full"), Frame("compound_command")>>

Init == /\ source \in Source
        /\ fed = 0
        /\ ahead = <<>>
        /\ token = NoToken
        /\ taken = <<>>
        /\ line = 1
        /\ unread = <<>>
        /\ read = <<>>
        /\ stack = <<Frame("command_line")>> \o List
        /\ value = NoValue
        /\ printed = NoTree
        /\ outcome = "none"
        /\ error = NoError

-----------------------------------------------------------------------------
(* Frames                                                                  *)

Top == Last(stack)
Returned(l, tag) == outcome = "none" /\ Top.at = l /\ value.tag = tag

(* The function leaves it to others, goes on, calls others, or returns.    *)
Become(frames) == /\ stack' = Front(stack) \o frames
                  /\ value' = NoValue
                  /\ UNCHANGED <<printed, outcome, error>>
Go(frame) == Become(<<frame>>)
Call(frame, callees) == Become(<<frame>> \o callees)
Return(v) == /\ stack' = Front(stack)
             /\ value' = v
             /\ UNCHANGED <<printed, outcome, error>>
EndWith(o, e) == /\ outcome' = o
                 /\ error' = e
                 /\ UNCHANGED <<stack, value, printed>>
End(o) == EndWith(o, NoError)

(* The location of the token that the function is at                       *)
Here == Len(taken) + 1

(* Errors at that token, at an earlier one, and about a construct that was *)
(* opened by one                                                           *)
Fail(cause) == EndWith("error", Error(cause, Here, 0))
FailAt(cause, location) == EndWith("error", Error(cause, location, 0))
FailIn(cause, opening) == EndWith("error", Error(cause, Here, opening))

To(l) == [Top EXCEPT !.at = l]

(* A construct begins with this token, or a clause of it does.  (Mutant:   *)
(* a clause is where the construct is.)                                    *)
Opened(frames) == <<[Head(frames) EXCEPT !.open = Here, !.clause = Here]>> \o Tail(frames)
ClauseOfConstruct(l) == [Top EXCEPT !.at = l]
Clause(l) == [Top EXCEPT !.at = l, !.clause = Here]

(* The tree gets another part, which has been returned or is the word that *)
(* the token is (`name=` is one whatever follows it).                      *)
With(l, tree) == [Top EXCEPT !.at = l, !.parts = Append(@, tree)]
Joined(l) == With(l, value.tree)
WordTree == Leaf(CASE token.kind = IoNumber -> "word"
                   [] token.kind = "array" -> "assign"
                   [] OTHER -> token.kind)

(* The function returns the tree of what it has parsed.                    *)
Made(name) == Some(Node(name, Top.parts))

-----------------------------------------------------------------------------
(* Tokens                                                                  *)

Running == outcome = "none" /\ value = NoValue

(* The tokens that the input may go on with                                *)
Offered == source.kinds \cap Offer(source, taken)

(* Parser::require_token: the next token is of an alias replacement or of  *)
(* the input,                                                              *)
RequireToken ==
  /\ Running
  /\ token = NoToken
  /\ \/ /\ ahead # <<>>
        /\ token' = Head(ahead)
        /\ ahead' = Tail(ahead)
        /\ UNCHANGED fed
     \/ /\ ahead = <<>>
        /\ \E kind \in IF fed < source.max THEN Offered ELSE {EndOfInput} :
             token' = [kind |-> kind, from |-> {}]
        /\ fed' = fed + 1
        /\ UNCHANGED ahead
  /\ UNCHANGED <<source, taken, line, unread, read, stack, value, printed, outcome, error>>

(* or the lexer fails.                                                     *)
LexerFails == /\ Running
              /\ token = NoToken
              /\ ahead = <<>>
              /\ printed = NoTree
              /\ End("lexer error")
              /\ UNCHANGED <<input, token, taken, line, unread, read>>

(* Parser::aliases: from_str makes a parser that has none.                 *)
aliases == IF printed = NoTree THEN DOMAIN Alias ELSE {}

(* Parser::substitute_alias: the conditions.  (AppliesAgain is a mutant    *)
(* that substitutes recursively.)                                          *)
AppliesAgain(t, isCommandName) == /\ t.kind \in aliases
                                  /\ isCommandName \/ Alias[t.kind].global
Applies(t, isCommandName) == /\ t.kind \in aliases
                             /\ t.kind \notin t.from
                             /\ isCommandName \/ Alias[t.kind].global

(* Parser::substitute_alias: the effect                                    *)
Substitute == LET replacement == Alias[token.kind].replacement
              IN /\ ahead' = [i \in DOMAIN replacement |->
                                [kind |-> replacement[i], from |-> token.from \cup {token.kind}]]
                             \o ahead
                 /\ token' = NoToken
                 /\ UNCHANGED <<source, fed, taken, line, unread, read>>

CompoundKeyword == {"{", "for", "while", "until", "if", "case"}
OpeningToken == CompoundKeyword \cup {"("}

(* The places where a token is taken by take_token_auto, or by             *)
(* take_token_manual in a loop that goes on after a substitution, and the  *)
(* keywords that are not substituted there.                                *)
AutoPlace == {"redir.operand", "redir.delimiter", "array", "function.close", "function.body",
              "for.name", "for.in", "for.in.next", "for.values", "for.body",
              "case.subject", "case.in", "case.in.auto", "case.item", "case.pattern",
              "case.separator", "case.next"}
Exempt(l) == CASE l = "function.body" -> CompoundKeyword
               [] l \in {"for.in", "for.in.next"} -> {"do", "in"}
               [] l = "for.body" -> {"do"}
               [] l \in {"case.in", "case.in.auto"} -> {"in"}
               [] l \in {"case.item", "case.pattern"} -> {"esac"}
               [] OTHER -> {}

SubstitutesHere == /\ Top.at \in AutoPlace
                   /\ token.kind \notin Exempt(Top.at)
                   /\ Applies(token, FALSE)

(* take_token_auto substitutes and takes the next token.                   *)
TakeTokenAuto == /\ Running
                 /\ SubstitutesHere
                 /\ Substitute
                 /\ Go(IF Top.at = "case.in" THEN To("case.in.auto") ELSE Top)

(* The token that the function peeks at or takes at place l                *)
At(l, kinds) == /\ Running
                /\ Top.at = l
                /\ token.kind \in kinds
                /\ ~SubstitutesHere

(* The token is taken; or it is only peeked at.                            *)
TakeRaw == /\ token' = NoToken
           /\ taken' = Append(taken, token.kind)
           /\ line' = IF token.kind = Newline THEN line + 1 ELSE line
           /\ UNCHANGED input
Take == TakeRaw /\ UNCHANGED <<unread, read>>
Peek == UNCHANGED <<input, token, taken, line, unread, read>>

-----------------------------------------------------------------------------
(* Here-documents                                                          *)

(* Mutant: the newline is taken and that is all.                           *)
HereDocContentsForgotten == UNCHANGED <<unread, read>>

(* Parser::here_doc_contents                                               *)
HereDocContents == /\ read' = read \o [i \in DOMAIN unread |-> unread[i].number]
                   /\ unread' = <<>>

(* Mutant: the last one is reported.                                       *)
EnsureNoUnreadHereDocLast ==
  /\ unread # <<>>
  /\ EndWith("missing here-doc", Error("MissingHereDocContent", Last(unread).location, 0))

(* Parser::ensure_no_unread_here_doc, when it fails                        *)
EnsureNoUnreadHereDoc ==
  /\ unread # <<>>
  /\ EndWith("missing here-doc", Error("MissingHereDocContent", Head(unread).location, 0))

(* newline_and_here_doc_contents on a newline                              *)
TakeNewline == TakeRaw /\ HereDocContents

(* The input ends within the content of a here-document.  The drained list *)
(* is empty then, whichever of the here-documents it is.                   *)
HereDocContentFails ==
  /\ TakeRaw
  /\ \E n \in 0..Len(unread) - 1 :
       read' = read \o [i \in 1..n |-> unread[i].number]
  /\ unread' = <<>>
  /\ End("lexer error")

(* Places where newlines are skipped and their here-documents read         *)
NewlinePlace == {"and_or.newlines", "pipeline.newlines", "function.body",
                 "for.in", "for.in.next", "for.body", "case.in", "case.item"}
(* Mutant: the end of the input counts as a newline.                       *)
SkipNewlineOrEnd == \E l \in NewlinePlace :
                      /\ At(l, {Newline, EndOfInput})
                      /\ TakeNewline
                      /\ Go(To(IF l = "for.in" THEN "for.in.next" ELSE l))

SkipNewline == \E l \in NewlinePlace :
                 /\ At(l, {Newline})
                 /\ TakeNewline
                 /\ Go(To(IF l = "for.in" THEN "for.in.next" ELSE l))

(* Wherever the parser reads here-documents                                *)
NewlineFails == /\ \E l \in NewlinePlace \cup {"compound_list.end", "command_line.end"} :
                     At(l, {Newline})
                /\ HereDocContentFails

-----------------------------------------------------------------------------
(* Lists (list.rs)                                                         *)

(* A caller that has already consumed something calls again if all that    *)
(* the callee has done is to substitute an alias;                          *)
RetryPlace == {"command_line", "compound_list", "list.next", "and_or.operand",
               "pipeline.bang", "pipeline.operand"}
Callee(l) == CASE l \in {"command_line", "compound_list"} -> List
               [] l = "list.next" -> AndOrList
               [] l = "and_or.operand" -> Pipeline
               [] l \in {"pipeline.bang", "pipeline.operand"} -> Command
Retry == \E l \in RetryPlace :
           /\ Returned(l, "AliasSubstituted")
           /\ Call(Top, Callee(l))
           /\ Peek

(* another passes this on to its own caller.                               *)
PassOn == \E l \in {"list", "and_or", "pipeline", "command"} :
            /\ Returned(l, "AliasSubstituted")
            /\ Return(AliasSubstituted)
            /\ Peek

(* Parser::command_line                                                    *)
CommandLine ==
  \/ /\ Returned("command_line", "Some")
     /\ Go(Joined("command_line.end"))
     /\ Peek
  \/ /\ At("command_line.end", {Newline})
     /\ TakeNewline
     /\ End("list")
  \/ /\ At("command_line.end", {EndOfInput})
     /\ IF Top.parts[1].parts = <<>> THEN End("nothing")
        ELSE EnsureNoUnreadHereDoc \/ (unread = <<>> /\ End("list"))
     /\ Peek
  \/ /\ At("command_line.end", Kind \ {Newline, EndOfInput})
     /\ Fail("UnexpectedToken")
     /\ Peek

(* Parser::maybe_compound_list                                             *)
MaybeCompoundList ==
  \/ /\ Returned("compound_list", "Some")
     /\ Go([Top EXCEPT !.at = "compound_list.end", !.parts = @ \o value.tree.parts])
     /\ Peek
  \/ /\ At("compound_list.end", {Newline})
     /\ TakeNewline
     /\ Call(To("compound_list"), List)
  \/ /\ At("compound_list.end", Kind \ {Newline})
     /\ Return(Made("list"))
     /\ Peek

(* Parser::list                                                            *)
ListItem ==
  \/ \E l \in {"list", "list.next"} :
       /\ \/ Returned(l, "Some") /\ Go(With("list.separator", Node(";", <<value.tree>>)))
          \/ Returned(l, "None") /\ Return(Made("list"))
       /\ Peek
  \/ /\ At("list.separator", {";", "&"})
     /\ Take
     /\ Call([Top EXCEPT !.at = "list.next", !.parts[Len(Top.parts)].node = token.kind],
             AndOrList)
  \/ /\ At("list.separator", Kind \ {";", "&"})
     /\ Return(Made("list"))
     /\ Peek

-----------------------------------------------------------------------------
(* And-or lists (and_or.rs) and pipelines (pipeline.rs)                    *)

AndOrOperator == {"&&", "||"}

AndOr ==
  \/ /\ Returned("and_or", "None")
     /\ Return(None)
     /\ Peek
  \/ /\ \/ Returned("and_or", "Some")
        \/ Returned("and_or.operand", "Some")
     /\ Go(Joined("and_or.operator"))
     /\ Peek
  \/ /\ At("and_or.operator", AndOrOperator)
     /\ Take
     /\ Go(With("and_or.newlines", Leaf(token.kind)))
  \/ /\ At("and_or.operator", Kind \ AndOrOperator)
     /\ Return(Made("and_or"))
     /\ Peek
  \/ /\ At("and_or.newlines", Kind \ {Newline})
     /\ Call(To("and_or.operand"), Pipeline)
     /\ Peek
  \/ /\ Returned("and_or.operand", "None")
     /\ Fail("MissingPipeline")
     /\ Peek

PipelineParts ==
  \/ /\ \/ Returned("pipeline", "Some")
        \/ Returned("pipeline.bang", "Some")
        \/ Returned("pipeline.operand", "Some")
     /\ Go(Joined("pipeline.bar"))
     /\ Peek
  \/ /\ Returned("pipeline", "None")
     /\ IF token.kind = "!"
        THEN Take /\ Call([With("pipeline.bang", Leaf("!")) EXCEPT !.open = Here], Command)
        ELSE Peek /\ Return(None)
  \/ /\ At("pipeline.bar", {"|"})
     /\ Take
     /\ Go([To("pipeline.newlines") EXCEPT !.open = Here])
  \/ /\ At("pipeline.bar", Kind \ {"|"})
     /\ Return(Made("pipeline"))
     /\ Peek
  \/ /\ At("pipeline.newlines", Kind \ {Newline})
     /\ Call(To("pipeline.operand"), Command)
     /\ Peek
  \/ /\ \/ /\ Returned("pipeline.bang", "None")
           /\ FailAt(IF token.kind = "!" THEN "DoubleNegation" ELSE "MissingCommandAfterBang",
                     Top.open)
        \/ /\ Returned("pipeline.operand", "None")
           /\ IF token.kind = "!" THEN Fail("BangAfterBar")
              ELSE FailAt("MissingCommandAfterBar", Top.open)
     /\ Peek

-----------------------------------------------------------------------------
(* Commands (command.rs, simple_command.rs, function.rs)                   *)

(* Parser::command: a simple command, or else a compound command.          *)
CommandKind ==
  \/ /\ Returned("command", "Some")
     /\ Go(Joined("function"))
     /\ Peek
  \/ /\ Returned("command", "None")
     /\ Become(FullCompound)
     /\ Peek

(* Parser::simple_command is at "simple" as long as it has no word, then   *)
(* at "arguments".                                                         *)
SimplePlace == {"simple", "arguments"}

StartsRedirection == RedirOp \cup {IoNumber}

(* Mutant: a keyword is one wherever it is.                                *)
EndsSimpleAtKeyword == \/ token.kind \in Kind \ Token
                       \/ token.kind \in Keyword /\ Top.at = "simple"

(* The token is not of the simple command: a reserved word is one in the   *)
(* first place only.                                                       *)
EndsSimple == \/ token.kind \in Kind \ Token
              \/ token.kind \in Keyword /\ IsEmpty(Top.parts)

SimpleCommand ==
  \E l \in SimplePlace :
    \/ /\ At(l, StartsRedirection)
       /\ Call(Top, <<Frame("redir")>>)
       /\ Peek
    \/ /\ Returned(l, "Some")
       /\ Go(IF IsAssign(value.tree)
             THEN [Top EXCEPT !.parts[Len(Top.parts)] = value.tree]
             ELSE Joined(l))
       /\ Peek
    \/ /\ Returned(l, "None")  \* no redirection after an IO_NUMBER, or no array
       /\ Go(Top)
       /\ Peek
    \/ /\ At(l, Kind \ StartsRedirection)
       /\ EndsSimple
       /\ Return(IF IsEmpty(Top.parts) THEN None ELSE Some(SimpleNode(Top.parts)))
       /\ Peek

SimpleCommandWord ==
  \E l \in SimplePlace :
    /\ At(l, Token)
    /\ ~EndsSimple
    /\ IF Applies(token, l = "simple")
       THEN Substitute /\ IF IsEmpty(Top.parts) THEN Return(AliasSubstituted) ELSE Go(Top)
       ELSE /\ Take
            /\ CASE l = "simple" /\ token.kind = "assign" -> Go(With(l, Leaf("scalar")))
                 [] l = "simple" /\ token.kind = "array" ->
                      Call(With(l, Leaf("scalar")), <<Frame("array.open")>>)
                 [] OTHER -> Go(With("arguments", WordTree))

(* Parser::array_values                                                    *)
ArrayValues ==
  \/ /\ At("array.open", {"("})
     /\ Take
     /\ Go([To("array") EXCEPT !.open = Here])
  \/ /\ At("array.open", Kind \ {"("})
     /\ Return(None)
     /\ Peek
  \/ /\ At("array", Token)
     /\ Take
     /\ Go(With("array", WordTree))
  \/ /\ At("array", {Newline})
     /\ Take
     /\ Go(Top)
  \/ /\ At("array", {")"})
     /\ Take
     /\ Return(Made("values"))
  \/ /\ At("array", Kind \ (Token \cup {Newline, ")"}))
     /\ Take
     /\ FailIn("UnclosedArrayValue", Top.open)

(* Parser::short_function_definition                                       *)
ShortFunctionDefinition ==
  \/ /\ Running
     /\ Top.at = "function"
     /\ IF IsOneWord(Top.parts[1]) /\ token.kind = "("
        THEN Take /\ Go([Top EXCEPT !.at = "function.close", !.parts = Top.parts[1].parts])
        ELSE Peek /\ Return(Some(Top.parts[1]))
  \/ /\ At("function.close", {")"})
     /\ Take
     /\ Go(To("function.body"))
  \/ /\ At("function.close", Kind \ {")"})
     /\ Take
     /\ Fail("UnmatchedParenthesis")
  \/ /\ At("function.body", OpeningToken)
     /\ Call(Top, FullCompound)
     /\ Peek
  \/ /\ Returned("function.body", "Some")
     /\ Return(Some(Node("function", Append(Top.parts, value.tree))))
     /\ Peek
  \/ /\ At("function.body", Kind \ (OpeningToken \cup {Newline}))
     /\ Take
     /\ Fail(IF token.kind \in Token THEN "InvalidFunctionBody" ELSE "MissingFunctionBody")

-----------------------------------------------------------------------------
(* Redirections (redir.rs)                                                 *)

(* Parser::memorize_unread_here_doc                                        *)
Memorized(number) ==
  unread' = Append(unread, [number |-> number, line |-> line, location |-> Here])

Redirection ==
  \/ /\ At("redir", {IoNumber})
     /\ Take
     /\ \/ Go(With("redir.body", Leaf(IoNumber)))
        \/ /\ printed = NoTree
           /\ EndWith("file descriptor out of range", Error("FdOutOfRange", Here, 0))
  \/ /\ At("redir", Kind \ {IoNumber})
     /\ Go(To("redir.body"))
     /\ Peek
  \/ /\ At("redir.body", {"<"})
     /\ Take
     /\ Go([To("redir.operand") EXCEPT !.open = Here])
  \/ /\ At("redir.body", {"<<"})
     /\ Take
     /\ Go([To("redir.delimiter") EXCEPT !.open = Here])
  \/ /\ At("redir.body", Kind \ RedirOp)
     /\ Return(None)
     /\ Peek

RedirectionOperand ==
  \/ /\ At("redir.operand", Token \cup {IoNumber})
     /\ Take
     /\ Return(Some(Node("<", Append(Top.parts, WordTree))))
  \/ /\ At("redir.delimiter", Token \cup {IoNumber})
     /\ TakeRaw
     /\ LET number == Len(read) + Len(unread) + 1
        IN /\ Memorized(number)
           /\ Return(Some(HereDocNode(Append(Top.parts, WordTree), number)))
     /\ UNCHANGED read
  \/ /\ \E l \in {"redir.operand", "redir.delimiter"} : At(l, Kind \ (Token \cup {IoNumber}))
     /\ Take
     /\ FailAt(IF Top.at = "redir.operand" THEN "MissingRedirOperand" ELSE "MissingHereDocDelimiter",
               Top.open)

-----------------------------------------------------------------------------
(* Compound commands (compound_command.rs, grouping.rs, while_loop.rs)     *)

(* Parser::compound_command: what a command begins with calls.             *)
Opening(k) == CASE k = "{" -> <<Frame("grouping")>> \o CompoundList
                [] k = "(" -> <<Frame("subshell")>> \o CompoundList
                [] k \in {"while", "until"} ->
                     <<[Frame("while") EXCEPT !.parts = <<Leaf(k)>>]>> \o CompoundList
                [] k = "if" -> <<Frame("if.condition")>> \o CompoundList
                [] k = "for" -> <<Frame("for.name")>>
                [] k = "case" -> <<Frame("case.subject")>>

CompoundCommand ==
  \/ /\ At("compound_command", OpeningToken)
     /\ Take
     /\ Become(Opened(Opening(token.kind)))
  \/ /\ At("compound_command", Kind \ OpeningToken)
     /\ Return(None)
     /\ Peek

(* Parser::full_compound_command, with Parser::redirections                *)
FullCompoundCommand ==
  \/ /\ Returned("full", "None")
     /\ Return(None)
     /\ Peek
  \/ /\ \E l \in {"full", "redirections"} : Returned(l, "Some")
     /\ Go(Joined("redirections"))
     /\ Peek
  \/ /\ Returned("redirections", "None")
     /\ Go(Top)
     /\ Peek
  \/ /\ At("redirections", StartsRedirection)
     /\ Call(Top, <<Frame("redir")>>)
     /\ Peek
  \/ /\ At("redirections", Kind \ StartsRedirection)
     /\ Return(Made("full"))
     /\ Peek

(* Parser::grouping, subshell and do_clause close what they have opened:   *)
(* the token that does, and the errors if there is another or nothing else *)
Closing(l) == CASE l = "grouping" -> <<"}", "UnclosedGrouping", "EmptyGrouping">>
                [] l = "subshell" -> <<")", "UnclosedSubshell", "EmptySubshell">>
                [] l = "do" -> <<"done", "UnclosedDoClause", "EmptyDoClause">>

Close == \E l \in {"grouping", "subshell", "do"} :
           \/ /\ Returned(l, "Some")
              /\ Go(Joined(l))
              /\ Peek
           \/ /\ At(l, Kind)
              /\ Take
              /\ CASE token.kind # Closing(l)[1] -> FailIn(Closing(l)[2], Top.open)
                   [] token.kind = Closing(l)[1] /\ Top.parts[1].parts = <<>> ->
                        FailAt(Closing(l)[3], Top.open)
                   [] OTHER -> Return(IF l = "do" THEN Some(Top.parts[1]) ELSE Made(l))

(* Parser::while_loop and until_loop                                       *)
LoopError(while, until) == IF Top.parts[1].node = "while" THEN while ELSE until

WhileLoop ==
  \/ /\ Returned("while", "Some")
     /\ Go(Joined("while.do"))
     /\ Peek
  \/ /\ At("while.do", {"do"})
     /\ Take
     /\ Call(To("while.body"), Opened(DoClause))
  \/ /\ At("while.do", Kind \ {"do"})
     /\ Take
     /\ FailIn(LoopError("UnclosedWhileClause", "UnclosedUntilClause"), Top.open)
  \/ /\ Returned("while.body", "Some")
     /\ IF Top.parts[2].parts = <<>>
        THEN FailAt(LoopError("EmptyWhileCondition", "EmptyUntilCondition"), Top.open)
        ELSE Return(Some(Node("while loop", Append(Top.parts, value.tree))))
     /\ Peek

-----------------------------------------------------------------------------
(* Parser::if_command and elif_then_clause (if.rs)                         *)

IfPart == {"if.condition", "if.body", "if.else"}
AfterIfPart(l) == CASE l = "if.condition" -> "if.then"
                    [] l = "if.body" -> "if.rest"
                    [] l = "if.else" -> "if.fi"

(* Is this clause after the `elif` of another one?                         *)
IsElif == Len(Top.parts) > 1
IfError(if, elif) == IF IsElif THEN elif ELSE if

(* The cause if a part is empty                                            *)
EmptyPart(l) == CASE l = "if.condition" -> IfError("EmptyIfCondition", "EmptyElifCondition")
                  [] l = "if.body" -> IfError("EmptyIfBody", "EmptyElifBody")
                  [] l = "if.else" -> "EmptyElse"

IfCommand ==
  \/ \E l \in IfPart :
       /\ Returned(l, "Some")
       /\ IF value.tree.parts = <<>> THEN FailAt(EmptyPart(l), Top.clause) ELSE Go(Joined(AfterIfPart(l)))
       /\ Peek
  \/ /\ At("if.then", {"then"})
     /\ Take
     /\ Call(Clause("if.body"), CompoundList)
  \/ /\ At("if.rest", {"elif"})
     /\ Take
     /\ Call(Clause("if.condition"), CompoundList)
  \/ /\ At("if.rest", {"else"})
     /\ Take
     /\ Call(Clause("if.else"), CompoundList)
  \/ /\ \/ At("if.rest", Kind \ {"elif", "else"})
        \/ At("if.fi", Kind)
     /\ Take
     /\ IF token.kind = "fi" THEN Return(Made("if command")) ELSE FailIn("UnclosedIf", Top.open)
  \/ /\ At("if.then", Kind \ {"then"})
     /\ Take
     /\ FailIn(IfError("IfMissingThen", "ElifMissingThen"), Top.clause)

-----------------------------------------------------------------------------
(* Parser::for_loop (for_loop.rs); a newline leads from "for.in" to        *)
(* "for.in.next".                                                          *)

ForLoop ==
  \/ /\ At("for.name", Token \cup {IoNumber})
     /\ Take
     /\ Go(With("for.in", WordTree))
  \/ /\ At("for.in", {";"})
     /\ Take
     /\ Go(To("for.body"))
  \/ \E l \in {"for.in", "for.in.next"} :
       \/ /\ At(l, {"do"})
          /\ Go(To("for.body"))
          /\ Peek
       \/ /\ At(l, {"in"})
          /\ Take
          /\ Go(With("for.values", Leaf("in")))
  \/ /\ At("for.values", Token \cup {IoNumber})
     /\ Take
     /\ Go(With("for.values", WordTree))
  \/ /\ At("for.values", {";", Newline})
     /\ Take
     /\ Go(To("for.body"))
  \/ /\ At("for.body", {"do"})
     /\ Take
     /\ Call(To("for.done"), Opened(DoClause))
  \/ /\ Returned("for.done", "Some")
     /\ Return(Some(Node("for loop", Append(Top.parts, value.tree))))
     /\ Peek
  \/ /\ \/ /\ At("for.name", Kind \ (Token \cup {IoNumber}))
           /\ Fail(IF token.kind \in {EndOfInput, Newline, ";"} THEN "MissingForName"
                   ELSE "InvalidForName")
        \/ /\ \/ At("for.in", Kind \ {";", "do", "in", Newline})
              \/ At("for.in.next", Kind \ {"do", "in", Newline})
              \/ At("for.body", Kind \ {"do", Newline})
           /\ FailIn("MissingForBody", Top.open)
        \/ /\ At("for.values", Kind \ (Token \cup {IoNumber, ";", Newline}))
           /\ Fail("InvalidForValue")
     /\ Take

-----------------------------------------------------------------------------
(* Parser::case_command and case_item (case.rs)                            *)

Item == <<Frame("case.item")>>

CaseCommand ==
  \/ /\ At("case.subject", Token)
     /\ Take
     /\ Go(With("case.in", WordTree))
  \/ /\ \E l \in {"case.in", "case.in.auto"} : At(l, {"in"})
     /\ Take
     /\ Call(To("case.items"), Item)
  \/ /\ At("case.in.auto", {Newline})
     /\ Take
     /\ Go(To("case.in"))
  \/ /\ Returned("case.items", "Some")
     /\ Go(Joined("case.end"))
     /\ Peek
  \/ /\ At("case.end", {";;"})
     /\ Take
     /\ Call(To("case.items"), Item)
  \/ /\ Returned("case.items", "None")
     /\ Go(To("case.close"))
     /\ Peek
  \/ /\ \E l \in {"case.end", "case.close"} : At(l, {"esac"})
     /\ Take
     /\ Return(Made("case command"))
  \/ /\ \/ /\ At("case.subject", Kind \ Token)
           /\ Fail(IF token.kind \in {EndOfInput, Newline} THEN "MissingCaseSubject"
                   ELSE "InvalidCaseSubject")
        \/ /\ \/ At("case.in", Kind \ {"in", Newline})
              \/ At("case.in.auto", Kind \ {"in", Newline})
           /\ FailIn("MissingIn", Top.open)
        \/ /\ \E l \in {"case.end", "case.close"} : At(l, Kind \ {";;", "esac"})
           /\ FailIn("UnclosedCase", Top.open)
     /\ Take

PatternErrorCause ==
  CASE token.kind = "esac" -> "EsacAsPattern"
    [] token.kind \in {")", "|", Newline, EndOfInput} -> "MissingPattern"
    [] OTHER -> "InvalidPattern"

CaseItem ==
  \/ /\ At("case.item", {"esac"})
     /\ Return(None)
     /\ Peek
  \/ /\ \/ \E l \in {"case.item", "case.pattern"} : At(l, Token \ {"esac"})
        \/ At("case.next", Token)
     /\ Take
     /\ Go(With("case.separator", WordTree))
  \/ /\ At("case.item", {"("})
     /\ Take
     /\ Go(To("case.pattern"))
  \/ /\ At("case.separator", {"|"})
     /\ Take
     /\ Go(To("case.next"))
  \/ /\ At("case.separator", {")"})
     /\ Take
     /\ Call(To("case.body"), CompoundList)
  \/ /\ Returned("case.body", "Some")
     /\ Return(Some(Node("item", Append(Top.parts, value.tree))))
     /\ Peek
  \/ /\ \/ /\ \/ At("case.item", Kind \ (Token \cup {"(", Newline}))
              \/ At("case.pattern", Kind \ (Token \ {"esac"}))
              \/ At("case.next", Kind \ Token)
           /\ Fail(PatternErrorCause)
        \/ /\ At("case.separator", Kind \ {"|", ")"})
           /\ Fail("UnclosedPatternList")
     /\ Take

-----------------------------------------------------------------------------
Poll == \/ RequireToken \/ LexerFails \/ TakeTokenAuto \/ SkipNewline \/ NewlineFails
        \/ Retry \/ PassOn \/ CommandLine \/ MaybeCompoundList \/ ListItem
        \/ AndOr \/ PipelineParts \/ CommandKind \/ SimpleCommand \/ SimpleCommandWord
        \/ ArrayValues \/ ShortFunctionDefinition \/ Redirection \/ RedirectionOperand
        \/ CompoundCommand \/ FullCompoundCommand \/ Close \/ WhileLoop \/ IfCommand \/ ForLoop
        \/ CaseCommand \/ CaseItem

(* The caller of command_line polls the future until it is ready.          *)
Spec == Init /\ [][Poll]_vars

(* The command line                                                        *)
Result == stack[1].parts[1]

-----------------------------------------------------------------------------
(* Properties                                                              *)

NodeName == Token \cup Operator
            \cup {IoNumber, "list", "and_or", "pipeline", "simple", "full", "function", "scalar",
                  "values", "grouping", "subshell", "while loop", "if command", "for loop",
                  "case command", "item"}
HereDoc == [number : Nat, line : Nat, location : Nat]
TypeOK == /\ source \in Source
          /\ fed \in 0..source.max + 1
          /\ \A t \in {token} \cup {ahead[i] : i \in DOMAIN ahead} :
               \/ t = NoToken
               \/ t.kind \in Kind /\ t.from \subseteq DOMAIN Alias
          /\ taken \in Seq(Kind)
          /\ line \in Nat
          /\ unread \in Seq(HereDoc)
          /\ read \in Seq(Nat)
          /\ stack # <<>>
          /\ \A i \in DOMAIN stack : \A j \in DOMAIN stack[i].parts :
               stack[i].parts[j].node \in NodeName
          /\ value.tag \in {"none", "AliasSubstituted", "None", "Some"}
          /\ outcome \in {"none", "list", "nothing", "error", "lexer error",
                          "missing here-doc", "file descriptor out of range"}

(* "The contents must be read just after a next newline token is parsed"   *)
(* (core.rs:387): as long as the parser goes on, a here-document that is   *)
(* still to be read is of the line the parser is in.                       *)
HereDocsOnTime == outcome = "none" => \A i \in DOMAIN unread : unread[i].line = line

(* `fill` puts every here-document's content at its operator: it visits    *)
(* the operators in the order of the source, the contents have been read   *)
(* in that order, and neither is left over, so that `expect("missing value *)
(* to fill")` (fill.rs:99) does not panic.                                 *)
FilledInOrder ==
  outcome = "list" /\ printed = NoTree =>
                      /\ Fill(Result) = read
                      /\ \A i \in DOMAIN read : read[i] = i
                      /\ unread = <<>>

=============================================================================
