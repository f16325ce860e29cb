# Verification of yash3

TLA+ modules that model the core of yash3, TLC configurations that check them on small
instances, and TLAPS proofs for the parts whose properties hold for every size.
Paths below are relative to `src/`.

## 1. The system

yash3 is an early POSIX shell in five crates. `yash` is the program: a loop that reads a
command line from standard input, parses it and executes it. `yash-syntax` is the lexer and
parser, asynchronous functions that await a source of lines. `yash-semantics` executes the
syntax tree, `yash-builtin` has the built-ins, and `yash-env` has the environment `Env` and,
behind the trait `System`, either the real operating system or a virtual one made for tests.

| Component | State | Operations | Interacts with |
|---|---|---|---|
| Main loop (`yash/src/lib.rs`) | `Env`; a lexer and a parser per command line | read, parse, execute, report an error, end | parser, semantics |
| Lexer core (`yash-syntax/src/parser/lex/core.rs`) | buffer of characters with their sources, index, input state | peek, consume, substitute an alias, look back for a blank | input (await), parser |
| Token recognition (`yash-syntax/src/parser/lex/*.rs`) | none of its own | operators, words, quotes, expansions | lexer core; the parser, for command substitutions |
| Parser (`yash-syntax/src/parser/*.rs`) | the current token, unread and read here-documents, the stack of futures | one function per construct; `fill` | lexer, alias set |
| Syntax tree and its text (`syntax.rs`, `from_str.rs`) | none | print a tree, parse one of any type from a string | lexer, parser |
| Input (`yash-syntax/src/input.rs`) | lines left | `next_line` | lexer |
| Semantics (`yash-semantics/src`) | none of its own | execute lists, pipelines, simple commands; command search | `Env`, `System` |
| Built-ins (`yash-builtin/src`) | none of their own | `alias`, `return` | `Env` |
| Environment (`yash-env/src/lib.rs`, `variable.rs`, `function.rs`) | aliases, built-ins, functions, variables, exit status | `start_subshell`, `run_in_subshell` | `System` |
| Real system (`real_system.rs`) | that of the kernel | stat/access, fork, execve, waitpid, exit | kernel, other processes |
| Virtual system (`virtual_system.rs`) | table of processes with wakers, a file system | the same, as tasks of one executor | executor |

**What is hard.** Wakers in a table shared by tasks, where a child may change state at any
point of a wait. Two processes that both return from fork with the whole shell in memory.
`waitpid(-1)`, which reports any child. Two looks at a file and an execve, with other programs
changing files in between. Alias substitution, which rewrites the lexer's buffer under the
parser and makes every parsing function able to say "nothing parsed, try again". Here-documents,
which are read far from where they are written, and put into the tree by another traversal.
Going back: the lexer looks ahead past line continuations, expansions and nested
quotes, and then reads the same characters again as something else. What happens after a failure:
of an input, a fork, a wait, an execve. `PROJECT.json` lists each hazard at its line.

**What correctness means.** Waiting: no wakeup is lost, a change is reported once and to the
parent, a subshell's status comes back. Execution: every command at most once and in order, the
status tells what happened, the search follows its order of priority, the program ends. Lexer:
substitution is finite, local, and follows the rule about trailing blanks. Tokens: exactly those of
the grammar, however far the lexer looks ahead and goes back, and nothing read before it is
needed; the units of a word are what is printed for it, with tilde expansions where they may be. Parser:
exactly the language, with or without aliases, here-document contents at their operators, a
tree that is printed as a text of the same tree, and errors that name what is wrong and where
it began.

## 2. The modules

| Module | What it is |
|---|---|
| `Waitpid` | abstract: the contract of `System::wait_sync`, a thin wrapper of waitpid(-1) |
| `VirtualSystem` | the virtual system's processes, the executor and the subshells of `Env`; implements `Waitpid` |
| `VirtualSystem_proofs` | theorems about it |
| `VirtualShell` | simple commands on the virtual system: environments, variables, command search, files, execve; extends `VirtualSystem` |
| `VirtualShell_proofs` | theorems about it |
| `AliasLexer` | the lexer's buffer, the locations of its characters and alias substitution, character by character |
| `AliasLexer_proofs` | theorems about it |
| `WordUnits` | the units of words and texts: printing, quote removal, literal words, assignments, tilde expansions |
| `TokenLexer` | recognition of tokens, contents of here-documents, and words, texts, units and operators from strings, character by character with line continuation, as a machine with a stack of frames |
| `TokenLexer_proofs` | theorems about it |
| `TokenGrammar` | reference: the grammar of tokens, as productions and a recognizer that tries them all; extends `TokenLexer` |
| `SyntaxTree` | the trees of commands, and `fill`, which puts contents of here-documents into them |
| `SyntaxTree_proofs` | lemmas about here-documents in sequences of trees |
| `TreeText` | the text of a tree, and the tokens the lexer makes of it; extends `SyntaxTree` |
| `Parser` | all parsing functions, as a machine with a stack of frames; extends `SyntaxTree` |
| `Parser_proofs` | theorems about it |
| `PrintedParser` | `FromStr` of every type of tree, applied to what is printed; extends `Parser` and `TreeText` |
| `ShellGrammar` | reference: the grammar of a command line, as operators on sequences of tokens; extends `PrintedParser` |
| `Shell` | the program on the real system: main loop, execution, search, built-ins, processes |
| `Shell_proofs` | theorems about it |
| `RecursionTheorems` | induction and recursion on the numbers up to n, for proofs about recursive functions |
| `MC*` | constants for TLC |

An operator whose comment says *Mutant* is not part of a model: it is a definition with a
plausible bug, kept beside the one it would replace. `PROJECT.json` names the property that
catches each.

### VirtualSystem

`processes` is `SystemState::processes`. In the code `state_awaiters` of a process is `None`
when its state has changed and no wait has reported it, and otherwise a list of wakers; here
`changed` and `awaiters`. A process is a task of the executor: `pc` says whether it runs
ordinary code, is inside `wait_sync` or has panicked, `ready` is the executor's queue as a set,
`running` the task being polled. One step is what happens between two points at which
another task or the caller can act: `Poll`, `Yield`, `Spawn` (`new_child_process` and `run`),
`StartSubshell`, `RunInSubshell` up to its await, `WaitSync`, the outcomes of polling the wait
(`ReportChild`, `NoChild`, `Suspend`), `Finish` (the end of a child's task, with
`Process::set_state` and the wakes) and `SignalProcess` (whoever holds the state stops, resumes
or kills a process). `Api` chooses the entry points in use, so that one module serves a library
user, the shell's own use, and the question of what goes wrong when both are mixed.

### VirtualShell

What the unit tests of `yash-semantics` run: a task that executes simple commands on
the virtual system. `env` is the `Env` of each process, of which a child gets a copy, `task`
the utility a child is to execute, `lastExec` what `Process::last_exec` keeps, `fileSystem`
is shared. `Execute` is `SimpleCommand::execute` up to its await: the search, which is one step here
since nothing interferes between two awaits, and a built-in, a function or `RunInSubshell`. `ExecuteTask`
is the closure in the child, with the three errors of the stub of `execve`, `Wait` the
outcomes of polling the wait, with the exit status that is taken over, `Save` is
`FileSystem::save` by whoever holds the state. Every action contains one of `VirtualSystem`, so that
its theorems hold here. Strings are sequences of words, colons and words with a NUL, as far as
`$PATH`, `to_c_strings` and `env_c_strings` can tell them apart. What loops over a string is a recursive function on
its length: `Split`, `Joined`, `ToCStrings`.

### AliasLexer

`source`, `index` and `state` are those of `LexerCore`; a character carries the chain of aliases
it comes from (`Source::Alias` and its `original`). `begin` and `pc` are the local
variables of `take_token_manual`. Characters are letters, blanks and newlines, so words and
newlines are the only tokens.
The location of a character is a sequence of places, each in a line with its number and column: the first in the input,
the next in the replacement of the alias for the word there, and so on. `lines` is what the input has given, and
`eof` the location in `InputState::EndOfInput`.

### TokenLexer and TokenGrammar

`source` and `index` are the lexer core's, without alias substitution; `continuing` is
`line_continuation_enabled`. A frame of `stack` is a function with its place and what it
keeps across an await: an index to go back to (`mark`), the delimiters and escapable
characters of a text, the number of open parentheses. A step of a function looks at one character,
after `ReadMore` (the core has no more characters) and `LineContinuation` have made it
available, as `peek_char` does. The input appears piece by piece, so that what has been read when a
token is returned can be observed. A word has its units (`WordUnits`). After a newline operator the contents of
here-documents are read (`HereDocContents`, `Line`, `HereDocLine`). `input.start` says what the source is read for: tokens, or a
word, a text, a unit of either or an operator, as `FromStr` does it. The parser of a
command substitution (`ListToken`) is a small part of `Parser`: simple commands of words, subshells,
function definitions, `;` and newlines. A token that only the rest of the parser could deal
with ends the model with the outcome `beyond`, and the tokens before it are still checked.

`TokenGrammar` has the productions of POSIX for words, expansions and commands, and
computes all places at which a part derived from a symbol may end, from all alternatives. It has no lookahead,
no rewinding and no state, and treats a line continuation as nothing. For here-documents it says which lines belong to
a content, from the characters of the delimiter.

### Parser, PrintedParser and ShellGrammar

A frame of `stack` is an `async fn` and the place it has come to, in a string such as
`"for.values"`; `value` is what the function that has just returned returned: `None`, `Some`,
or `AliasSubstituted`. A step handles one token or one returned value. Tokens are supplied
one by one by the `source`, a vocabulary: TLC thus tries all sequences of its tokens up to a
length, and stops at the first error. `ahead` holds the tokens of alias replacements; each
knows the aliases it comes from. `tree` in a value and `parts` in a frame are what has been built of the syntax tree. `unread` and `read` are the parser's lists of here-documents,
numbered in the order of their operators; `docs` of a tree are the numbers that `fill` meets in it, in the order in which it visits
the parts. `error` is the cause of an error, the location it reports, and the location where the construct began
(`opening_location`), as numbers of tokens. In `PrintedParser`, when a command line is complete, `PrintAndParse` prints the tree or any part of it and starts again with
the tokens of that text, from the function that `FromStr` calls for that type; a part may be parsed in two
types, with and without contents of here-documents.

`ShellGrammar` says which sequences of tokens are command lines, and which can be completed
to one, with operators that are independent of the parser's control flow; `Contexts` finds the constructs
an error may be about.

### Shell

`kernel` is the process table of the operating system, `memory` what each process has in its
own address space: fork copies it. A line of input is what the parser makes of it; its
commands are numbered by their place in the input, and `log` records the numbers in the order
of execution. `files` is what lies at each path; `ChangeFile` and `Kill` are other programs.
`started` is what the process already has when it becomes the shell: children, and an
ignored SIGCHLD. The search is in separate steps for stat and access, since others may
act between two system calls; so are fork, execve and waitpid. A panic ends the process with
status 101. Definitions for the kernel and other programs are marked external in `PROJECT.json`.

## 3. The runs

| Run | Question | Properties |
|---|---|---|
| `VirtualSystemAnyApi` | Is waiting right whatever the tasks call and the executor polls, and is a wait answered? | `TypeOK` `NoLostWakeup` `WakersInPlace` `WaitpidSafety` `WaitAnswered` |
| `SubshellsOfCommands` | Do commands and their subshells work on the virtual system, in every interleaving, while variables and files change? | `SubshellFinished` `NoHopelessWait` `SubshellReturns` `ShellTypeOK` `FirstArgumentIsName` `PathPassedOn` `StatusOfUtility` |
| `AliasExpansion` | Is substitution right for all pairs of small aliases, and are the locations of characters those of the text they are from? | `TypeOK` `ChainsInjective` `BlankRuleExact` `LocationsTruthful` `SubstitutionIsLocal` `Terminates` |
| `ParserLanguage` | Does the parser accept the grammar, construct by construct, with aliases and here-documents anywhere; does it explain errors; is what is printed the same tree? | `TypeOK` `AcceptsGrammar` `HereDocsOnTime` `FilledInOrder` `RoundTrip` `ErrorsExplained` `MissingContentLocated` `Terminates` |
| `Tokens` | Are tokens and here-documents those of the grammar, construct by construct, with line continuations anywhere, and their units what was read? | `TypeOK` `TokensOfGrammar` `HereDocsOfLines` `SourceShown` `TildeExpansions` `NewlineEndsReading` `ContentEndsAtParenthesis` `Terminates` |
| `ShellSession` | Is a session executed right, whatever fails? | `TypeOK` `ExecutedOnce` `ChildrenAccounted` `StatusTellsResult` `SearchInOrder` `ProgramEnds` |

Where the properties need explaining:

* `RoundTrip` leaves out trees in which a simple command has a keyword for its first word, as it can after a
  redirection: `Display` prints words first, and says so in a TODO (`syntax.rs:928`).
* `ErrorsExplained` says that the construct an error is about begins where the error says and is complete up to the token
  the parser has stopped at. An IO_NUMBER that no redirection follows has been dropped before (`redir.rs:103`).
* `TypeOK` of `VirtualSystem` also says, with `ProcessTable`, what the indexes of the process table rely on: process IDs are
  given without a gap, a parent has the lesser one, and without an executor there is no process but the root.
* `SubshellFinished` and `SubshellReturns`: in `SubshellsOfCommands` only the root starts subshells and waits. A subshell that waits for
  its own child occurs in `VirtualSystemAnyApi`, and in the theorems for any number of processes.
* `NoHopelessWait` is about the shell's own use. A task that calls `wait_sync` once more after the last report stays pending for
  ever, since a process that has ended is never taken out of the table (`virtual_system.rs:219`); waitpid would fail with ECHILD. The shell
  never does this, and `WaitAnswered` has a child's change that is yet to be reported for its premise.
* `PathPassedOn` says exactly which directories get to a utility. `$PATH` may be an array, whose values are not split when the shell
  searches them (`variable.rs:59`), but are joined with colons in the environment (`variable.rs:144`). So the utility finds the
  directory it is in among the parts of its own `$PATH` if and only if that directory has no colon.
* `HereDocsOfLines` takes a content for literal if any part of the delimiter is quoted, as `syntax.rs:817` says. The delimiters in
  `Tokens` are quoted with `'` or a backslash; what the code does with double quotes is shown by `QuotedDelimiter`.
* `FromStr` of a unit unwraps what the lexer returns for an empty string: the outcome `panic`, as for `${` at the end of
  an input. No property forbids it, since no line of the repository says what should come of it.
* `LocationsTruthful` is about an input that numbers its lines as `Memory` does. Standard input gives every line the
  number 1 (`yash/src/lib.rs:46`, a TODO there), so there the number says nothing.
* `StatusOfUtility` allows 126 for a utility that was there and is not executable: `execve` of the virtual
  system never succeeds.

Six runs end with a violation; each is a disagreement of the code with its own text, described in
`PROJECT.json` under `findings`:

| Run | What happens |
|---|---|
| `StoppedSubshell` | a subshell is stopped; instead of going on waiting, `run_in_subshell` reaches `todo!()` |
| `InheritedChild` | the program that executed the shell has left it a child; the assertion in `run_in_subshell` fails when that child ends first |
| `EscapedBackslash` | two backslashes, a newline and the end of the input: the second backslash is not escaped but taken with the newline for a line continuation |
| `QuotedDelimiter` | `<<"a"`: double quotes in the delimiter are taken for no quotes (`syntax.rs:601`), so the content is not literal |
| `HereDocBeforeFor` | `<< word ; for word in` and a newline: the values' newline is taken without reading the content |
| `AliasForNothing` | `word \| nil`, a newline and `word`, `nil` a global alias for nothing: the newline after `\|` is not skipped again after the substitution |

### Bounds, and why they are enough

* `VirtualSystemAnyApi`: three processes (`MaxPid = 4` counts from 2): a root, a child and a
  sibling or grandchild, the least with two children to choose from and a waiter that is
  itself waited for. One exit status, one signal: what becomes of the number is the other run's question.
  `SubshellsOfCommands`: the shell and two utilities one after the other (a process stays in the table); six commands, for each kind of
  target and one with a NUL in its name; three values of `$PATH`, one of them an array with a colon in a value; two kinds of file,
  three paths where they can be, one of them in a directory with a colon in its name.
  For all sizes there are the theorems; only liveness rests on the bound.
* `AliasExpansion`: two aliases, the least that can refer to each other; replacements of up to
  two words with and without trailing blanks, one with a newline; two lines, so that
  a replacement can be followed by more input, and the lines of a replacement are told from those of the input.
* `ParserLanguage`: a vocabulary per construct and its own bound, at least what the
  construct needs with one optional part repeated or nested. A construct cannot look
  further back than its stack frame or the token before. Words of a command are bounded
  since they do not change a frame's place beyond the first two.
  Further vocabularies have aliases for a keyword and a word, for itself, for a
  separator, for a redirection and for nothing, and up to two here-documents. Trees are printed of
  every construct, not of all combinations: `PrintedLists` has separators, pipelines and and-or lists within a smaller bound.
* `Tokens`: a vocabulary of characters per construct. Some begin with given characters, to get to
  the modifiers of an expansion, or to the place where an arithmetic expansion may turn out to be a
  command substitution, within a bound that allows everything after it, nested once. A
  backslash comes together with the character it escapes: an input that can be cut between
  the two would only add the disagreement that `EscapedBackslash` shows, which has a vocabulary
  for that. Quotes, comments and backslashes do not occur together with `$((`: there POSIX leaves open which
  of two readings a shell takes. `Continued` begins with a line continuation after `$`, `$(` and `${`, where
  the lexer looks ahead before it decides what it has begun. Letters, digits, blanks and special parameters that the
  code treats alike are represented by one or two of them.
  Here-documents have one or two lines of contents, quoted and unquoted delimiters, and both operators, for `<<-` with tabs before and
  after a line continuation;
  strings for `FromStr` are as long as a unit and its neighbour.
* `ShellSession`: two lines, so that an alias definition has an effect, two commands on a line, so
  that a child has a rest of the command line to execute wrongly; three process IDs,
  so that a second fork follows the first and a third one fails (`MaxItems` is the greatest number of items on a line); one change of a file, which is
  what it takes to make search and execve disagree; two directories.

Deadlock is not checked where the modelled program ends (`CHECK_DEADLOCK FALSE` everywhere).

### Fairness

* `VirtualSystem`: the executor (`futures` `LocalPool`) polls woken tasks in a queue, so a task that is
  woken again and again is polled: strong fairness of `Poll`. A poll of a wait returns: weak
  fairness of `WaitPoll`. Code between two awaits ends, and is entered again and again: strong
  fairness of yielding or finishing. Nothing is assumed of spurious polls, forks or signals.
  `VirtualShell` has the same, for the actions that contain those of `VirtualSystem`.
  `WaitAnswered` has the premise that nobody panics: a panic ends the program, tasks and all.
* `AliasLexer`, `TokenLexer`, `Parser`: the caller polls the future until it is ready and input comes or ends; weak fairness of `Next`
  (in `PrintedParser`, of `Poll`: nobody has to print a tree).
  The number of lines or tokens is finite; what is shown is that the program adds no endless loop of its own.
* `Shell`: the kernel lets every process run, and utilities end. Killing, failing reads and
  changes of files are never required. `ProgramEnds` excludes an input that fails: the main
  loop then reads again, and nothing in the repository says that a later read succeeds.

## 4. The proofs

From the assumptions in `VirtualSystem` (`MaxPid` leaves room for the root process, exit
statuses are natural numbers, `Api` is a set of entry points), for any number of processes:

* `TypeCorrect`: type correctness and the shape of the process table; `TableStep` is the step for the latter, with one lemma for
  what leaves the processes' IDs and parents alone and one for fork.
* `WakersAlwaysInPlace`: `WakersInPlace` is inductive with `TypeOK`. It says that
  every waiter that sleeps and has not been woken has its waker in *every* child, and no child
  has an unreported change. `NoLostWakeup` alone is not inductive: it says nothing of the wakers
  that the next change will need.
* `WakeupNeverLost`: its consequence.
* `SubshellsFinish`, `NeverHopeless`: with the entry points of `SubshellsOfCommands`, a further
  invariant says that the only unreported or running child of a process is the one it waits for. The only error is ENOSYS,
  and then no process has been made.
* `ImplementsWaitpid`: the refinement. Every step is a step of `Waitpid`
  or leaves its variables unchanged, one case per action.

From the assumptions on names, letters and aliases in `AliasLexer`, for any
aliases and input, on lemmas about splicing a sequence:

* `LexerTypeCorrect`, `SubstitutionOnlyLocal`.
* `NoAliasWithinItself`: the invariant is that every character's chain is injective and that chain and value are well typed.
* `BlankRuleIsExact`: `BlankInv` says that what comes from an alias whose replacement ends with a blank goes on up to that
  blank (`EndingLast`), after which nothing of the same alias follows (`EndingAlone`).
* `LocationsAreTruthful`: `LocationInv` adds that as long as there may be more input, the buffer ends with the last character of
  the last line, so that the next line comes after everything in it. The lemmas are about the order of locations (`Precedes`).

From the assumptions on operators and sources in `TokenLexer`, for any source, whatever characters it has and in whatever pieces
it comes (`LineAssumption`, as `Input::next_line` promises: a newline or the end of the input is the last thing of its piece):

* `TokenLexerTypeCorrect`: `TypeOK` and `LexerInv` hold together; `TypeOK` is not inductive alone. `LexerInv` adds which functions may call which (`WellStacked`), that the
  place each goes back to is not before that of its caller nor before the last token given away (`MarksInOrder`,
  `TokensHavePlace`), and that a returned value is one that the function waiting for it can take (`ValueFits`).
* `UnreachableIsNotReached`: `ContentEndsAtParenthesis`, with `ArithTextEnds`, which says that the text of an arithmetic expansion
  stops only at a parenthesis or the end of the input.
* `LineIsExecutedFirst`: `NewlineEndsReading`. What must be known in between is how far ahead every function may have read when it
  is called, waits and returns, because a token's first function may give back what its last one has looked at. `ReadInv` says it for
  each place of the frame on top (`Looks`): what has been read and not consumed has no newline but one that is the last character of all
  (`Fresh`), perhaps after some line continuations (`Near`), or after one or two characters and line continuations more, which `length_prefix` looks at
  before it decides what `#` is (`NearNext`, `NearSecond`); and what a function goes back over is the characters it has looked at and line
  continuations between them (`SinceMark`), so that the same is true again of the place it goes back to. Of the frames
  below it says what they were called on (`BegunToken`, `ListCalled`), which is what a return needs. It holds until an arithmetic expansion is read
  again as a command substitution (`again`), and the claim fails after that for a good reason: the characters
  `$(('$(a' ) ) NL ') ` are first read as an arithmetic expansion, past the newline, and then as a command substitution,
  which gives the newline away as an operator although more has been read.

From the assumptions on aliases and sources in `Parser`, for any vocabulary, input and aliases, for the parsing of a command line
(`Spec`, whose steps are those of `Poll`; printing a tree and parsing it again, the other steps of the run, is in a module with
RECURSIVE operators):

* `FilledInSourceOrder`: `FilledInOrder`, with which `fill` cannot panic for want of a content. The parser memorizes a here-document in one function
  and has its redirection in a value, then in a part of a frame, then in a tree that is a part of another frame, until `fill` visits all of
  them after the last line. What stays true is about the whole stack: the here-documents of the parts of all frames, from the outermost to the
  innermost, followed by those of the value being returned (`AllDocs`), are those that have been read, then those to be read, and are numbered
  1, 2, 3... (`Numbered`). A call puts a frame without any on top; a return moves those at the end to the value, and joining a value to the frame below moves them
  back; only a simple command makes a tree that has its parts in another order, and it is here that one must know
  that words and assignments have none (`Good`).
* `ParserTypeCorrect`: `TypeOK` is not inductive. `IInv` adds which frames may lie on which (`StackOK`, with `Role` and `Calls`), and that the value is
  one the frame on top can take (`Delivers`).
* `LateHereDocsExplained`, `HereDocsReadOnTime`: `HereDocsOnTime` is false where a newline is taken with `take_token_auto` or `take_token_raw`,
  which read no contents, and `HereDocBeforeFor` shows one such place. The proof finds all: the values of a `for`, the values of an array, and the
  newline before the `in` of a `case` when it follows an alias. A here-document that is still to be read after its line was begun before a newline among such words,
  so in a command line without any `HereDocsOnTime` holds. Nothing on the stack but the last frame is needed, but where every step
  lands is: `Turn` says of each that it reads the contents at a newline or is in one of the three functions, and with which token these are entered
  and left. The invariant `LateInv` says that the last tokens taken are those with which they are (`Placed`), and that a here-document begins
  before the next token (`Located`). `NewlineInWords` looks at tokens alone, so it also has newlines after `in` and words in other commands.

Every step that does more than get a token is first shown to be of one of four kinds: it goes on with the same here-documents (`Proceeds`), memorizes one (`Memorizes`), ends with an error (`Stops`)
or completes the command line (`Completes`); that each kind keeps `IInv` is four lemmas. A piece of stack that a call adds is a `Segment`, so that no lemma
is about a particular depth. A tree is any record of a set that has the parts of its members (`Trees`), which spares an induction over trees.

From the assumptions on constants in `Shell` (process IDs are positive numbers, those of inherited children are not the shell's; exit
statuses fit 8 bits; a line has at most `MaxItems` items and every item a command), for any input, number of processes,
files, failures and kills:

* `ShellTypeCorrect`: type correctness. It needs to know where in the code a process has which memory.
* `ShellHasNoOtherChild`: `ChildrenAccounted`. `OneShell` says that every process but the shell is a child that has nothing left to do
  but its task, and `Accounted` that every child that is not reaped is the one the shell waits for;
  the assertion in `run_in_subshell` cannot be kept without the second, nor that without the first.
* `CommandsExecutedOnce`: `ExecutedOnce`, since the numbers of the commands still to be executed grow and are
  above all in the log (`Ordered`), and only the shell itself has any.
* `StatusTellsResultOfChild`: with `Reasons` (what a child's exit status and error number have to do with
  each other) and `Awaited` (the child that the shell waits for is not reaped, if SIGCHLD is not ignored).
* `SearchFindsFirst`: while no file changes, no directory that the search has passed has an executable file of that
  name (`Passed` and `Searched`).

From the assumptions in `VirtualShell` and that commands are the only users of the virtual system (`Api` is a subset of the
entry points "run", "yield" and "spurious"), for any commands, variables and files:

* `VirtualShellUsesVirtualSystem`: `VirtualShell` refines `VirtualSystem`, action by action, hence every theorem about the latter
  holds; `UtilitiesFinish` is the one about subshells.
* `VirtualShellTypeCorrect`, `UtilitiesReported` (`StatusOfUtility`): from `ShellInv`, which says of every child which
  utility it is to execute, that this was found, and what its exit status has to do with what execve saw.
* `NameComesFirst`, `PathIsPassedOn`: `TasksCaptured` says the same of the arguments and variables that a closure has captured as
  the properties say of those that execve got; it holds for each new child because of what the search finds (`SearchFindsName`).
  The rest is about strings: `FirstIsConverted` (conversion keeps the first field), `SplitFindsPart` (a part between colons is found by splitting),
  `JoinedHasParts` (a string without a colon is such a part of what an array is joined to) and, for the converse, `SplitHasNoColon`
  (splitting finds nothing else). Directories and values of arrays may have colons.

These lemmas are inductions on the length of a string. The library's induction theorems have an operator for a parameter, which the
provers cannot instantiate; `RecursionTheorems` states induction with a set, and the existence of a recursive
function with a sequence of functions for its steps. With them a recursive *function* can be reasoned about. A
RECURSIVE operator cannot, and `SelectSeq` is not known to the provers, which is why `ToCStrings` does without it.

Only model-checked:

* All liveness: TLAPS has no rules for fairness that its provers could use here.
* `RoundTrip`, and the properties that compare with a grammar: printing and the reference operators are RECURSIVE.
* `MissingContentLocated` holds for the sources of the run and not for all tokens, because of the newlines that
  `HereDocBeforeFor` is about.

## 5. Not modelled, and why

* In a command substitution, commands other than simple ones, subshells and functions, and redirections: `Parser` has
  them, on tokens. Here-documents in a command substitution end the model (outcome `beyond`).
* The two levels are checked separately: `Parser` takes any sequence of tokens, `TokenLexer` any
  sequence of characters, `AliasLexer` the buffer they share. What passes between them is the
  token's kind and its index. So the units of words are not in the trees of commands, aliases and line continuation do not
  meet in one buffer, and locations are those of characters (`AliasLexer`) and of tokens (`Parser`).
* `Executor::spawn` refusing a task, at which `run` panics (`virtual_system.rs:292`): it is outside the repository, and `LocalPool` does so only
  when it has been dropped. `Executor` is taken to accept every task.
* `Shell` substitutes an alias once, in a command name. `AliasLexer` and `Parser` go on substituting in the replacement, as the code does.
* Causes of the errors that are found below tokens; the messages of errors; the alternate flags of `Display`.
* Read-only variables and the locations in variables, which nothing looks at; the set of jobs, which nothing fills;
  `Divert`, which only `return` makes and the program ignores; `Env` built with `new_virtual`,
  accessors and other functions that only pass a call on.
* `HashSet::insert` keeps the old entry when an alias is defined again (`alias.rs:63`): `Shell` does what the code does,
  and no text in the repository says what should happen.
* A parser that is used again after an error: the program makes a new one for every command line.
* Standard input is buffered by the standard library; that a utility does not see what
  the shell has read ahead is outside the models, as is all output.
* Stopped children of the real system: the same code in `run_in_subshell` is covered by
  `StoppedSubshell`.

The map covers some 60% of the lines that are not unit tests. The rest is imports, documentation, error messages,
wrappers, and what this section lists.

## 6. What was built in which order, and what could come next

1. `Waitpid`, `VirtualSystem`: the only concurrent part of the library; proofs.
2. `AliasLexer`, `Parser`, `ShellGrammar`: substitution and backtracking.
3. `Shell`: the program; `TokenLexer`, `TokenGrammar`: words, quotes, expansions, operators.
4. `WordUnits`, contents of here-documents, tildes; `SyntaxTree` with printing and parsing again; causes and places of errors.
5. `Shell_proofs`: commands executed once, no child left over, the status, the search.
6. `VirtualShell` with its proofs: the virtual file system, variables and arguments.
7. Locations in `AliasLexer`; parsing of every type from strings.

8. Proofs about the rule for blanks and the locations in `AliasLexer`, about strings in `VirtualShell`, and about `TokenLexer`.
9. `Parser` apart from the RECURSIVE operators on trees, and proofs about its stack and the order of here-documents.
10. What `TokenLexer` has read ahead at every place, and the proof that a line is executed before the next one is read.
11. Where `Parser` takes newlines, and the proof that here-documents are read on time but for three kinds of them.

Next: causes of errors in `TokenLexer`; one buffer for aliases and line continuation; that every error is at a token of the command
line, from the stack invariant of `Parser_proofs`.
