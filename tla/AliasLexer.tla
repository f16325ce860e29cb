---------------------------- MODULE AliasLexer -----------------------------
(***************************************************************************)
(* The source buffer of yash-syntax's lexer (`LexerCore`,                  *)
(* parser/lex/core.rs) and the alias substitution the parser performs in   *)
(* it while it takes the words of simple commands (`Parser::               *)
(* substitute_alias`, parser/core.rs).                                     *)
(*                                                                         *)
(* The buffer holds all characters read so far, those of alias             *)
(* replacements included; each character has its location, which is in a   *)
(* line of the input or in a line of a replacement, together with the      *)
(* location of the word that was replaced.  Substituting an alias splices  *)
(* its replacement over the word that has just been read and moves the     *)
(* lexer back in front of it.                                              *)
(*                                                                         *)
(* Abstracted: a character is a letter, a blank or a newline, so a token   *)
(* is a word or a newline; quotes, line continuations, operators, comments *)
(* and assignments are left out.                                           *)
(***************************************************************************)
EXTENDS Naturals, Sequences, FiniteSets

CONSTANTS Name,       \* alias names; a word of that one letter may be substituted
          Letter,     \* the characters of words
          Line,       \* the lines the input may provide
          AliasSets,  \* the sets of aliases the parser may be given
          MaxLines    \* bound on the number of lines read

Blank == " "
Newline == "\n"
Char == Letter \cup {Blank, Newline}

(* struct Alias, in an AliasSet that maps names to aliases                 *)
Alias == [replacement : Seq(Char), global : BOOLEAN]

Input == "input"  \* Source::Unknown

ASSUME NameAssumption == Name \subseteq Letter /\ Input \notin Name
ASSUME CharAssumption == Blank \notin Letter /\ Newline \notin Letter
ASSUME LineAssumption == \A line \in Line : line \in Seq(Char) /\ line # <<>>
ASSUME BoundAssumption == MaxLines \in Nat
ASSUME AliasAssumption ==
  \A s \in AliasSets : DOMAIN s \subseteq Name /\ \A name \in DOMAIN s : s[name] \in Alias

(* enum InputState; the location at the end is the variable `eof`.         *)
InputState == {"Alive", "EndOfInput", "Error"}

VARIABLES
  aliases,  \* Parser::aliases
  state,    \* LexerCore::state
  source,   \* LexerCore::source
  index,    \* LexerCore::index, the number of characters before the next one
  begin,    \* index of the token that has been read, while it is being taken
  pc,       \* "next": before a token; "taken": the token is begin..index
  isFirst,  \* has the simple command no word yet?
  eof,      \* the location in InputState::EndOfInput
  lines     \* the lines the input has given

vars == <<aliases, state, source, index, begin, pc, isFirst, eof, lines>>

(* A line, the source it belongs to, and a position in it.  A Location is  *)
(* the sequence of such places that Source::Alias links: the first is in   *)
(* the input, and each of the others is in the replacement of the alias    *)
(* whose name stands at the place before.                                  *)
Place == [source : Name \cup {Input}, line : Seq(Char), number : Nat, column : Nat]
Location == Seq(Place)

(* A character, its location, and whether it is the blank that ends a      *)
(* replacement.  The last is not in the code: a property refers to it.     *)
SourceChar == [value : Char, location : Location, ending : BOOLEAN]

(* Source::is_alias_for                                                    *)
IsAliasFor(c, name) == \E i \in DOMAIN c.location : c.location[i].source = name

(* The source of the line a character is in                                *)
Innermost(location) == location[Len(location)]

EndsWithBlank(s) == s # <<>> /\ s[Len(s)] = Blank

(* The characters of a line of the input (Line::enumerate)                 *)
LineChars(line, number) ==
  [i \in DOMAIN line |->
     [value |-> line[i], ending |-> FALSE,
      location |-> <<[source |-> Input, line |-> line, number |-> number, column |-> i]>>]]

(* Where the line of the i-th character of a text begins and ends, and its *)
(* number                                                                  *)
LineBegin(text, i) ==
  CHOOSE b \in 0..i - 1 : /\ b = 0 \/ text[b] = Newline
                          /\ \A k \in b + 1..i - 1 : text[k] # Newline
LineEnd(text, i) ==
  CHOOSE e \in i..Len(text) : /\ e = Len(text) \/ text[e] = Newline
                              /\ \A k \in i..e - 1 : text[k] # Newline
LineNumber(text, i) == Cardinality({k \in 1..i - 1 : text[k] = Newline}) + 1

(* Mutant: the columns are counted on over the lines of a text.            *)
PlaceInText(src, text, i) ==
  [source |-> src, line |-> SubSeq(text, LineBegin(text, i) + 1, LineEnd(text, i)),
   number |-> LineNumber(text, i), column |-> i]

(* Iterator `Lines`, and Line::enumerate for each of them                  *)
PlaceIn(src, text, i) ==
  [source |-> src, line |-> SubSeq(text, LineBegin(text, i) + 1, LineEnd(text, i)),
   number |-> LineNumber(text, i), column |-> i - LineBegin(text, i)]

(* The replacement of an alias for a word that begins with the character   *)
(* `original`.  (ReplacementCharsUnmarked is a mutant that forgets where   *)
(* the characters come from.)                                              *)
ReplacementCharsUnmarked(name, original) == LineChars(aliases[name].replacement, 1)
ReplacementChars(name, original) ==
  LET text == aliases[name].replacement
  IN [i \in DOMAIN text |->
        [value |-> text[i], ending |-> i = Len(text) /\ EndsWithBlank(text),
         location |-> Append(original.location, PlaceIn(name, text, i))]]

(* Location::advance                                                       *)
Advance(location) == [location EXCEPT ![Len(location)].column = @ + 1]

Init == /\ aliases \in AliasSets
        /\ state = "Alive"
        /\ source = <<>>
        /\ index = 0
        /\ begin = 0
        /\ pc = "next"
        /\ isFirst = TRUE
        /\ eof = <<>>
        /\ lines = <<>>

-----------------------------------------------------------------------------
(* Reading characters                                                      *)

IsLetterAt(i) == i \in DOMAIN source /\ source[i].value \in Letter

(* The end of the word that starts after index i.                          *)
IsWordEnd(i, end) == /\ end \in i..Len(source)
                     /\ \A k \in i + 1..end : IsLetterAt(k)
                     /\ ~IsLetterAt(end + 1)

(* The lexer peeks beyond the characters it has: at the very end, or after *)
(* a word that extends to the end.                                         *)
NeedsInput == IsWordEnd(index, Len(source))

(* Memory numbers its lines, and the empty one after them as if all ended  *)
(* with newlines.                                                          *)
NextNumber == Len(lines) + 1

(* LexerCore::peek_char reads another line,                                *)
ReadLine == /\ pc = "next"
            /\ NeedsInput
            /\ state = "Alive"
            /\ Len(lines) < MaxLines
            /\ \E line \in Line : /\ source' = source \o LineChars(line, NextNumber)
                                  /\ lines' = Append(lines, line)
            /\ UNCHANGED <<aliases, state, index, begin, pc, isFirst, eof>>

(* or meets the end of the input, which is after the last character,       *)
ReadEnd == /\ pc = "next"
           /\ NeedsInput
           /\ state = "Alive"
           /\ state' = "EndOfInput"
           /\ eof' = IF source = <<>>
                     THEN <<[source |-> Input, line |-> <<>>, number |-> NextNumber, column |-> 1]>>
                     ELSE Advance(source[Len(source)].location)
           /\ UNCHANGED <<aliases, source, index, begin, pc, isFirst, lines>>

(* or an I/O error.                                                        *)
ReadError == /\ pc = "next"
             /\ NeedsInput
             /\ state = "Alive"
             /\ state' = "Error"
             /\ UNCHANGED <<aliases, source, index, begin, pc, isFirst, eof, lines>>

(* The error is the result of every peek from then on.                     *)
Fail == /\ pc = "next"
        /\ NeedsInput
        /\ state = "Error"
        /\ pc' = "failed"
        /\ UNCHANGED <<aliases, state, source, index, begin, isFirst, eof, lines>>

-----------------------------------------------------------------------------
(* Reading tokens                                                          *)

(* Lexer::skip_blanks                                                      *)
SkipBlank == /\ pc = "next"
             /\ index < Len(source)
             /\ source[index + 1].value = Blank
             /\ index' = index + 1
             /\ UNCHANGED <<aliases, state, source, begin, pc, isFirst, eof, lines>>

(* Lexer::token reads a word.                                              *)
ReadWord == /\ pc = "next"
            /\ IsLetterAt(index + 1)
            /\ NeedsInput => state = "EndOfInput"
            /\ IsWordEnd(index, index')
            /\ begin' = index
            /\ pc' = "taken"
            /\ UNCHANGED <<aliases, state, source, isFirst, eof, lines>>

(* Lexer::token reads the newline operator: the simple command ends, and a *)
(* word that follows is the first of another one.                          *)
ReadNewline == /\ pc = "next"
               /\ index < Len(source)
               /\ source[index + 1].value = Newline
               /\ index' = index + 1
               /\ isFirst' = TRUE
               /\ UNCHANGED <<aliases, state, source, begin, pc, eof, lines>>

EndOfInput == /\ pc = "next"
              /\ index = Len(source)
              /\ state = "EndOfInput"
              /\ pc' = "end"
              /\ UNCHANGED <<aliases, state, source, index, begin, isFirst, eof, lines>>

-----------------------------------------------------------------------------
(* Taking a word (Parser::take_token_manual)                               *)

(* Mutant: a blank inside the replacement counts as the one that ends it.  *)
IsAfterBlankOfAlias(i) ==
  \E k \in 1..i :
    /\ \A j \in k..i : source[j].value = Blank
    /\ Innermost(source[k].location).source # Input
    /\ EndsWithBlank(aliases[Innermost(source[k].location).source].replacement)

(* LexerCore::is_after_blank_ending_alias: going back from the word over   *)
(* blanks only, some blank is of a replacement that ends with a blank and  *)
(* the character after it is not.                                          *)
IsAfterBlankEndingAlias(i) ==
  \E k \in 1..i :
    /\ \A j \in k..i : source[j].value = Blank
    /\ Innermost(source[k].location).source # Input
    /\ LET name == Innermost(source[k].location).source
       IN /\ EndsWithBlank(aliases[name].replacement)
          /\ ~IsAliasFor(source[k + 1], name)

(* Parser::substitute_alias: the conditions.  (IsInnermost is a mutant:    *)
(* only the alias that the word comes from directly is not applied.)       *)
IsWord(name) == index = begin + 1 /\ source[index].value = name
IsInnermost(name) == Innermost(source[begin + 1].location).source = name
IsRecursion(name) == IsAliasFor(source[begin + 1], name)
Applies(name) == /\ name \in DOMAIN aliases
                 /\ IsWord(name)
                 /\ ~IsRecursion(name)
                 /\ isFirst \/ aliases[name].global \/ IsAfterBlankEndingAlias(begin)

(* Mutant: the end of the word is taken for inclusive.                     *)
SpliceInclusive(s, b, e, replacement) ==
  SubSeq(s, 1, b) \o replacement \o SubSeq(s, e + 2, Len(s))

(* Vec::splice of the characters b..e                                      *)
Splice(s, b, e, replacement) == SubSeq(s, 1, b) \o replacement \o SubSeq(s, e + 1, Len(s))

(* Mutant: the lexer is left behind the word it has substituted.           *)
SubstituteBehind(name) ==
  /\ pc = "taken"
  /\ Applies(name)
  /\ source' = Splice(source, begin, index, ReplacementChars(name, source[begin + 1]))
  /\ pc' = "next"
  /\ UNCHANGED <<aliases, state, index, begin, isFirst, eof, lines>>

(* LexerCore::substitute_alias                                             *)
Substitute(name) ==
  /\ pc = "taken"
  /\ Applies(name)
  /\ source' = Splice(source, begin, index, ReplacementChars(name, source[begin + 1]))
  /\ index' = begin
  /\ pc' = "next"
  /\ UNCHANGED <<aliases, state, begin, isFirst, eof, lines>>

(* The word is no alias name that applies: it is the command's next word.  *)
Accept == /\ pc = "taken"
          /\ \A name \in Name : ~Applies(name)
          /\ isFirst' = FALSE
          /\ pc' = "next"
          /\ UNCHANGED <<aliases, state, source, index, begin, eof, lines>>

-----------------------------------------------------------------------------
Next == \/ ReadLine \/ ReadEnd \/ ReadError \/ Fail
        \/ SkipBlank \/ ReadWord \/ ReadNewline \/ EndOfInput
        \/ \E name \in Name : Substitute(name)
        \/ Accept

(* The lexer and the parser run on.                                        *)
Spec == Init /\ [][Next]_vars
FairSpec == Spec /\ WF_vars(Next)

-----------------------------------------------------------------------------
(* Properties                                                              *)

TypeOK == /\ aliases \in AliasSets
          /\ state \in InputState
          /\ source \in Seq(SourceChar)
          /\ index \in 0..Len(source)
          /\ begin \in 0..index
          /\ pc \in {"next", "taken", "end", "failed"}
          /\ pc = "taken" => begin < index
          /\ isFirst \in BOOLEAN
          /\ eof \in Location
          /\ lines \in Seq(Line) /\ Len(lines) \in 0..MaxLines

(* No character comes from an alias within that same alias, however the    *)
(* aliases refer to each other (core.rs:455, source.rs:95).  Locations are *)
(* therefore never longer than there are alias names, and one more.        *)
Injective(location) ==
  \A i, j \in DOMAIN location : location[i].source = location[j].source => i = j
ChainsInjective == \A i \in DOMAIN source : Injective(source[i].location)

(* Locations are what messages are made of.  The location of a character   *)
(* is where that character is, and the location of a replacement is where  *)
(* the alias's name is; ...                                                *)
Shows(place, c) == place.column \in DOMAIN place.line /\ place.line[place.column] = c
Placed(c) == LET l == c.location
             IN /\ l # <<>> /\ l[1].source = Input
                /\ l[1].number \in DOMAIN lines /\ l[1].line = lines[l[1].number]
                /\ Shows(Innermost(l), c.value)
                /\ \A k \in 1..Len(l) - 1 : Shows(l[k], l[k + 1].source)

(* ... what comes first in the buffer came first in the input or, within a *)
(* replacement, in that (source.rs:128); ...                               *)
Precedes(l, m) ==
  \E k \in DOMAIN l \cap DOMAIN m :
    /\ \A j \in 1..k - 1 : l[j] = m[j]
    /\ l[k].source = m[k].source
    /\ \/ l[k].number < m[k].number
       \/ l[k].number = m[k].number /\ l[k].column < m[k].column
InOrder == \A i, j \in DOMAIN source : i < j => Precedes(source[i].location, source[j].location)

(* ... and the end of the input is after the last line that was read, never*)
(* in a replacement, although it is found by looking at the buffer         *)
(* (core.rs:156).                                                          *)
EndPlaced ==
  state = "EndOfInput" =>
    LET n == Len(lines)
    IN eof = <<IF n = 0 THEN [source |-> Input, line |-> <<>>, number |-> 1, column |-> 1]
               ELSE [source |-> Input, line |-> lines[n], number |-> n,
                     column |-> Len(lines[n]) + 1]>>

LocationsTruthful == (\A i \in DOMAIN source : Placed(source[i])) /\ InOrder /\ EndPlaced

(* "The token comes just after the replacement string of another alias     *)
(* substitution that ends with a blank character" (core.rs:486): looking   *)
(* at the aliases the characters come from, the lexer finds exactly the    *)
(* words that only blanks separate from the blank that ends a replacement, *)
(* whatever has been substituted inside that replacement since.            *)
BlankRuleExact ==
  pc = "taken" =>
    (IsAfterBlankEndingAlias(begin) <=>
       \E k \in 1..begin : /\ source[k].ending
                           /\ \A j \in k..begin : source[j].value = Blank)

(* Substitution takes away what the token was made of and nothing else:    *)
(* what has been read before the word and what comes after it stay.        *)
SubstitutionIsLocal ==
  [][\A name \in Name : Substitute(name) =>
       LET rest == Len(source) - index
       IN /\ index' = begin
          /\ Len(source') >= begin + rest
          /\ \A i \in 1..begin : source'[i] = source[i]
          /\ \A i \in 1..rest : source'[Len(source') - rest + i] = source[index + i]]_vars

(* Aliases that refer to each other or to themselves do not keep the       *)
(* parser from coming to the end of its input.                             *)
Terminates == <>(pc \in {"end", "failed"})
=============================================================================
