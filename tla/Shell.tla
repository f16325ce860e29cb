------------------------------- MODULE Shell -------------------------------
(***************************************************************************)
(* The program yash on the real system: the main loop that reads and       *)
(* executes command lines (yash/src/lib.rs), the execution of simple       *)
(* commands with their command search (yash-semantics), the built-ins      *)
(* (yash-builtin), and the processes that `RealSystem` makes with fork,    *)
(* execve and waitpid (yash-env).                                          *)
(*                                                                         *)
(* Every process has a memory of its own: fork copies the whole shell, the *)
(* rest of the command line included, and the child goes on in the same    *)
(* program.  The kernel and the other programs, which change files, kill   *)
(* processes and may let fork or a read fail, are external.                *)
(*                                                                         *)
(* Abstracted: a line is what the parser makes of it (see Parser), with    *)
(* only the command names left for alias substitution (see AliasLexer);    *)
(* arguments other than those of the built-ins.                            *)
(***************************************************************************)
EXTENDS Integers, Sequences

CONSTANTS
  Name,         \* command names
  Slash,        \* those that contain a slash
  BuiltinType,  \* Env::builtins: names to "Special", "Intrinsic" or "NonIntrinsic"
  Function,     \* Env::functions: names
  Dir,          \* directories
  Path,         \* the directories of $PATH
  File,         \* where files may be: pairs of a directory and a name
  FileKind,     \* what they may be
  Line,         \* lines of input: [items : Seq(Item), end : LineEnd]
  MaxItems,     \* bound on the number of items of a line
  MaxLines,     \* bound on the number of lines read
  MaxChanges,   \* bound on the number of times a file is changed
  Pid,          \* process IDs; bounds the number of forks
  Root,         \* the process ID of the shell
  Inheritable,  \* children the process may already have when it becomes the shell
  Status        \* exit statuses of utilities and of built-ins not implemented here

Nobody == 0           \* no process ID
Here == "here"       \* instead of a directory in the path that a slash name is
Nothing == "nothing" \* name of a command that is not executed: compound, or without words

(* A word after the command name `return`, and one after `alias`           *)
Operand == [isNumber : BOOLEAN, value : Int]
Definition == [name : Name, replacement : Name]
Command == [name : Name \cup {Nothing}, operands : Seq(Operand), defines : Seq(Definition)]

(* An and-or list is a sequence of pipelines, a pipeline one of commands.  *)
Item == Seq(Seq(Command))

(* The line completes the command line, leaves it open, or is an error.    *)
LineEnd == {"complete", "open", "error"}

ASSUME NameAssumption == /\ Slash \subseteq Name
                         /\ Function \subseteq Name
                         /\ DOMAIN BuiltinType \subseteq Name
                         /\ \A n \in DOMAIN BuiltinType :
                              BuiltinType[n] \in {"Special", "Intrinsic", "NonIntrinsic"}
                         /\ Nothing \notin Name
ASSUME PathAssumption == /\ Path \in Seq(Dir) /\ Here \notin Dir
                         /\ File \subseteq (Dir \cup {Here}) \X Name
                         /\ FileKind \subseteq {"directory", "data", "script", "native", "missing"}
ASSUME LineAssumption ==
  \A l \in Line : /\ l.items \in Seq(Item)
                  /\ Len(l.items) <= MaxItems
                  /\ l.end \in LineEnd
                  /\ \A i \in DOMAIN l.items : l.items[i] # <<>> /\ l.items[i][1] # <<>>
ASSUME BoundAssumption == MaxItems \in Nat /\ MaxLines \in Nat /\ MaxChanges \in Nat
ASSUME PidAssumption == Pid \subseteq Nat \ {Nobody} /\ Root \in Pid
                        /\ Inheritable \subseteq Pid \ {Root}
ASSUME StatusAssumption == Status \subseteq 0..255

VARIABLES
  kernel,   \* the kernel's process table
  memory,   \* of each process
  files,    \* what is at each path
  started,  \* what the shell was started with: is SIGCHLD ignored, and which
            \* children has the process that became the shell?
  reads,    \* number of lines read
  changes,  \* number of times a file has been changed
  failed,   \* has a read failed?
  log       \* the numbers of the commands that have been executed, by whatever process

vars == <<kernel, memory, files, started, reads, changes, failed, log>>

(* What the kernel keeps of a process; a child that has been waited for is *)
(* "reaped".  A process exits with the lower 8 bits of a status.           *)
Unused == [tag |-> "unused", value |-> 0]
Alive == [tag |-> "alive", value |-> 0]
Killed == [tag |-> "killed", value |-> 0]

(* Mutant: the whole status is kept.                                       *)
ExitedWith(status) == [tag |-> "exited", value |-> status]

Exited(status) == [tag |-> "exited", value |-> status % 256]
Zombie(state) == state.tag \in {"killed", "exited"}

(* What is at a path                                                       *)
KindOf(f) == IF f \in File THEN files[f] ELSE "missing"

(* enum ExitStatus                                                         *)
SUCCESS == 0
NOEXEC == 126
NOT_FOUND == 127

(* An item of the input with its number, counted from the first line on    *)
NoCommand == [number |-> 0, name |-> Nothing, operands |-> <<>>, defines |-> <<>>]

InitialMemory(p) ==
  [pc |-> IF p = Root THEN "read" ELSE "utility", aliases |-> <<>>, status |-> SUCCESS,
   items |-> <<>>, open |-> FALSE, command |-> NoCommand, dir |-> 1,
   target |-> <<Here, Nothing>>, child |-> Nobody, errno |-> "none"]

Init ==
  /\ started \in [ignored : BOOLEAN, children : SUBSET Inheritable]
  /\ kernel = [p \in Pid |->
                 [parent |-> IF p \in started.children THEN Root ELSE Nobody,
                  state |-> IF p \in started.children \cup {Root} THEN Alive ELSE Unused,
                  reaped |-> FALSE]]
  /\ memory = [p \in Pid |-> InitialMemory(p)]
  /\ files \in [File -> FileKind]
  /\ reads = 0
  /\ changes = 0
  /\ failed = FALSE
  /\ log = <<>>

-----------------------------------------------------------------------------
(* A process is at a place of the program, and goes on elsewhere.          *)
At(p, place) == kernel[p].state = Alive /\ memory[p].pc = place
Becomes(p, m) == memory' = [memory EXCEPT ![p] = m]
Goes(p, place) == Becomes(p, [memory[p] EXCEPT !.pc = place])

(* The command is done, with an exit status.                               *)
Done(p, status) == Becomes(p, [memory[p] EXCEPT !.pc = "next", !.status = status])

-----------------------------------------------------------------------------
(* The main loop: a new lexer and a new parser for each command line       *)

(* Alias substitution of the command name (AliasLexer)                     *)
Substituted(name, aliases) == IF name \in DOMAIN aliases THEN aliases[name] ELSE name

(* The items of a line as they come out of the parser.  The command that   *)
(* an item executes is the first of its first pipeline.                    *)
Parsed(l, aliases) ==
  [i \in DOMAIN l.items |->
     LET command == l.items[i][1][1]
     IN [number |-> MaxItems * reads + i,
         name |-> Substituted(command.name, aliases),
         operands |-> command.operands, defines |-> command.defines]]

(* Mutant: the lexer and the parser are used again after an error.         *)
SameParser(m) == m

(* A new lexer and a new parser, after a syntax error or a read error      *)
NewParser(m) == [m EXCEPT !.items = <<>>, !.open = FALSE]

ReadLine(p) ==
  /\ At(p, "read")
  /\ reads < MaxLines
  /\ reads' = reads + 1
  /\ \E l \in Line :
       Becomes(p,
         LET m == [memory[p] EXCEPT !.items = @ \o Parsed(l, memory[p].aliases)]
         IN CASE l.end = "complete" -> [m EXCEPT !.pc = "next", !.open = FALSE]
              [] l.end = "open" -> [m EXCEPT !.open = TRUE]
              [] l.end = "error" -> NewParser(m))
  /\ UNCHANGED <<kernel, files, started, changes, failed, log>>

(* The end of the input is an error in the middle of a command line, or    *)
(* ends the program with the exit status of the last command.              *)
ReadEnd(p) == /\ At(p, "read")
              /\ Becomes(p, IF memory[p].open THEN NewParser(memory[p])
                            ELSE [memory[p] EXCEPT !.pc = "exit"])
              /\ UNCHANGED <<kernel, files, started, reads, changes, failed, log>>

(* The error is printed, and the next command line is read.                *)
ReadError(p) == /\ At(p, "read")
                /\ failed' = TRUE
                /\ Becomes(p, NewParser(memory[p]))
                /\ UNCHANGED <<kernel, files, started, reads, changes, log>>

(* List::execute, and again the main loop when it is done                  *)
NextCommand(p) ==
  /\ At(p, "next")
  /\ IF memory[p].items = <<>>
     THEN Goes(p, "read") /\ UNCHANGED log
     ELSE LET command == Head(memory[p].items)
          IN /\ Becomes(p, [memory[p] EXCEPT !.items = Tail(@), !.command = command,
                                             !.pc = "search"])
             /\ log' = Append(log, command.number)
  /\ UNCHANGED <<kernel, files, started, reads, changes, failed>>

-----------------------------------------------------------------------------
(* Command search                                                          *)

IsBuiltin(name, type) == name \in DOMAIN BuiltinType /\ BuiltinType[name] = type

(* `search` as far as it does not look at files                            *)
Search(p) ==
  /\ At(p, "search")
  /\ LET name == memory[p].command.name
     IN CASE name = Nothing -> Goes(p, "next")
          [] name \in Slash -> Becomes(p, [memory[p] EXCEPT !.pc = "fork",
                                                            !.target = <<Here, name>>])
          [] name \notin Slash /\ IsBuiltin(name, "Special") -> Goes(p, "builtin")
          \* TODO Call the function
          [] name \in Function \ Slash /\ ~IsBuiltin(name, "Special") -> Goes(p, "next")
          [] name \notin Slash \cup Function /\ IsBuiltin(name, "Intrinsic") -> Goes(p, "builtin")
          [] OTHER -> Becomes(p, [memory[p] EXCEPT !.pc = "stat", !.dir = 1])
  /\ UNCHANGED <<kernel, files, started, reads, changes, failed, log>>

Candidate(p) == <<Path[memory[p].dir], memory[p].command.name>>

IsRegularFile(kind) == kind \in {"data", "script", "native"}

(* Mutant: access with F_OK                                                *)
IsAccessible(kind) == kind # "missing"

IsExecutable(kind) == kind \in {"directory", "script", "native"}

NextDir(p) == Becomes(p, [memory[p] EXCEPT !.pc = "stat", !.dir = @ + 1])

(* search_path: RealSystem::is_executable_file makes two system calls.     *)
Stat(p) == /\ At(p, "stat")
           /\ memory[p].dir <= Len(Path)
           /\ IF IsRegularFile(KindOf(Candidate(p))) THEN Goes(p, "access") ELSE NextDir(p)
           /\ UNCHANGED <<kernel, files, started, reads, changes, failed, log>>

Access(p) ==
  /\ At(p, "access")
  /\ IF ~IsExecutable(KindOf(Candidate(p))) THEN NextDir(p)
     ELSE IF IsBuiltin(memory[p].command.name, "NonIntrinsic") THEN Goes(p, "builtin")
     ELSE Becomes(p, [memory[p] EXCEPT !.pc = "fork", !.target = Candidate(p)])
  /\ UNCHANGED <<kernel, files, started, reads, changes, failed, log>>

CommandNotFound(p) == /\ At(p, "stat")
                      /\ memory[p].dir > Len(Path)
                      /\ Done(p, NOT_FOUND)
                      /\ UNCHANGED <<kernel, files, started, reads, changes, failed, log>>

-----------------------------------------------------------------------------
(* Built-ins                                                               *)

(* HashSet::insert keeps the entry that is already there: the first        *)
(* definition of a name, in the whole session, is the one that counts.     *)
Defined(aliases, defines) ==
  LET first(n) == CHOOSE i \in DOMAIN defines :
                    defines[i].name = n /\ \A j \in 1..i - 1 : defines[j].name # n
  IN [n \in DOMAIN aliases \cup {defines[i].name : i \in DOMAIN defines} |->
        IF n \in DOMAIN aliases THEN aliases[n] ELSE defines[first(n)].replacement]

(* The second operand, whatever the first is                               *)
ReturnStatus(operands) == CASE Len(operands) < 2 -> SUCCESS
                            [] Len(operands) >= 2 /\ operands[2].isNumber -> operands[2].value
                            [] OTHER -> 2

(* No built-in diverts the execution.                                      *)
ExecuteBuiltin(p) ==
  /\ At(p, "builtin")
  /\ LET command == memory[p].command
     IN CASE command.name = "alias" ->
               Becomes(p, [memory[p] EXCEPT !.aliases = Defined(@, command.defines),
                                            !.pc = "next", !.status = SUCCESS])
          [] command.name = "return" -> Done(p, ReturnStatus(command.operands))
          [] OTHER -> \E status \in Status : Done(p, status)
  /\ UNCHANGED <<kernel, files, started, reads, changes, failed, log>>

-----------------------------------------------------------------------------
(* External utilities                                                      *)

Unreaped(p) == {c \in Pid : kernel[c].parent = p /\ kernel[c].state # Unused /\ ~kernel[c].reaped}

(* Mutant: the subshell is started, but not waited for.                    *)
GoesOn(m, c) == [m EXCEPT !.pc = "next", !.child = c]

(* start_subshell returns the process ID and run_in_subshell waits.        *)
Waits(m, c) == [m EXCEPT !.pc = "wait", !.child = c]

(* RealSystem::new_child_process: the child is a copy of the process.  In  *)
(* the parent run_in_subshell goes on to wait, in the child `run` executes *)
(* the task.                                                               *)
Fork(p) ==
  /\ At(p, "fork")
  /\ \E c \in Pid :
       /\ kernel[c].state = Unused
       /\ \A d \in Pid : kernel[d].state = Unused => c <= d
       /\ kernel' = [kernel EXCEPT ![c] = [parent |-> p, state |-> Alive, reaped |-> FALSE]]
       /\ memory' = [memory EXCEPT ![c] = [memory[p] EXCEPT !.pc = "execve"],
                                   ![p] = Waits(@, c)]
  /\ UNCHANGED <<files, started, reads, changes, failed, log>>

ForkFails(p) == /\ At(p, "fork")
                /\ Becomes(p, [memory[p] EXCEPT !.pc = "next", !.status = NOEXEC,
                                                !.child = Nobody])
                /\ UNCHANGED <<kernel, files, started, reads, changes, failed, log>>

(* The kernel's execve                                                     *)
ExecveErrors(kind) == CASE kind = "missing" -> {"ENOENT", "ENOTDIR"}
                        [] kind = "script" -> {"ENOEXEC"}
                        [] kind \in {"directory", "data"} -> {"EACCES"}

(* Mutant: a file that has vanished is one that cannot be executed.        *)
StatusOfAnyErrno(errno) == NOEXEC

(* The exit status that the task leaves when execve has failed             *)
StatusOfErrno(errno) == IF errno \in {"ENOENT", "ENOTDIR"} THEN NOT_FOUND ELSE NOEXEC

(* Mutant: the child returns from `run` like the parent and waits.         *)
AfterTaskReturn == "wait"

(* RealChildProcess::run exits when the task has returned.                 *)
AfterTask == "exit"

(* The task of the child: the program is replaced, or it exits.            *)
Execve(p) ==
  /\ At(p, "execve")
  /\ LET kind == KindOf(memory[p].target)
     IN IF kind = "native" THEN Goes(p, "utility")
        ELSE \E errno \in ExecveErrors(kind) :
               Becomes(p, [memory[p] EXCEPT !.errno = errno, !.status = StatusOfErrno(errno),
                                            !.pc = AfterTask])
  /\ UNCHANGED <<kernel, files, started, reads, changes, failed, log>>

(* The end of a process; with SIGCHLD ignored nobody needs to wait for it. *)
Ends(p, state) == kernel' = [kernel EXCEPT ![p].state = state, ![p].reaped = started.ignored]

Exit(p) == /\ At(p, "exit") \/ At(p, "panicked")
           /\ Ends(p, Exited(IF At(p, "panicked") THEN 101 ELSE memory[p].status))
           /\ UNCHANGED <<memory, files, started, reads, changes, failed, log>>

(* RealSystem::wait_sync blocks in waitpid.  run_in_subshell asserts that  *)
(* the child is the one it has started.                                    *)
WaitStatus(state) == IF state.tag = "exited" THEN state.value ELSE 128

Wait(p) ==
  /\ At(p, "wait")
  /\ \E c \in Unreaped(p) :
       /\ Zombie(kernel[c].state)
       /\ kernel' = [kernel EXCEPT ![c].reaped = TRUE]
       /\ IF memory[p].child = c THEN Done(p, WaitStatus(kernel[c].state))
          ELSE Goes(p, "panicked")
  /\ UNCHANGED <<files, started, reads, changes, failed, log>>

(* ECHILD                                                                  *)
WaitFails(p) == /\ At(p, "wait")
                /\ Unreaped(p) = {}
                /\ Done(p, NOEXEC)
                /\ UNCHANGED <<kernel, files, started, reads, changes, failed, log>>

-----------------------------------------------------------------------------
(* The rest of the world                                                   *)

(* A utility ends.                                                         *)
UtilityEnds(p) == /\ At(p, "utility")
                  /\ \E status \in Status : Ends(p, Exited(status))
                  /\ UNCHANGED <<memory, files, started, reads, changes, failed, log>>

(* A signal kills a process.                                               *)
Kill(p) == /\ kernel[p].state = Alive
           /\ Ends(p, Killed)
           /\ UNCHANGED <<memory, files, started, reads, changes, failed, log>>

(* Somebody installs, removes or changes a file.                           *)
ChangeFile == /\ changes < MaxChanges
              /\ \E f \in File, kind \in FileKind :
                   kind # files[f] /\ files' = [files EXCEPT ![f] = kind]
              /\ changes' = changes + 1
              /\ UNCHANGED <<kernel, memory, started, reads, failed, log>>

-----------------------------------------------------------------------------
(* What a process does of itself                                           *)
Step(p) == \/ ReadLine(p) \/ ReadEnd(p) \/ NextCommand(p)
           \/ Search(p) \/ Stat(p) \/ Access(p) \/ CommandNotFound(p)
           \/ ExecuteBuiltin(p)
           \/ Fork(p) \/ ForkFails(p) \/ Execve(p) \/ Exit(p)
           \/ Wait(p) \/ WaitFails(p)

Next == \/ \E p \in Pid : Step(p) \/ ReadError(p) \/ UtilityEnds(p) \/ Kill(p)
        \/ ChangeFile

(* The kernel lets every process run, and utilities end.  The input is not *)
(* endless (MaxLines), but nothing has to fail.                            *)
Fairness == \A p \in Pid : WF_vars(Step(p)) /\ WF_vars(UtilityEnds(p))

Spec == Init /\ [][Next]_vars
FairSpec == Spec /\ Fairness
-----------------------------------------------------------------------------
(* Properties                                                              *)

Searching == {"search", "stat", "access"}
Place == Searching \cup {"read", "next", "builtin", "fork", "execve", "utility", "wait",
                         "exit", "panicked"}

AliasSet == UNION {[N -> Name] : N \in SUBSET Name}
ParsedCommand == [number : Nat, name : Name \cup {Nothing}, operands : Seq(Operand),
                  defines : Seq(Definition)]
Errno == {"ENOENT", "ENOTDIR", "ENOEXEC", "EACCES"}
Memory == [pc : Place, aliases : AliasSet, status : Int, items : Seq(ParsedCommand),
           open : BOOLEAN, command : ParsedCommand, dir : 1..Len(Path) + 1,
           target : (Dir \cup {Here}) \X (Name \cup {Nothing}),
           child : Pid \cup {Nobody}, errno : {"none"} \cup Errno]
ProcessState == {Unused, Alive, Killed} \cup {Exited(s) : s \in 0..255}
Process == [parent : Pid \cup {Nobody}, state : ProcessState, reaped : BOOLEAN]

(* Types; what the kernel keeps of an exit status fits 8 bits, and a       *)
(* process that looks at a file has a directory of $PATH to look in.       *)
TypeOK ==
  /\ kernel \in [Pid -> Process]
  /\ \A p \in Pid : kernel[p].state.value \in 0..255
  /\ memory \in [Pid -> Memory]
  /\ \A p \in Pid : memory[p].pc = "access" => memory[p].dir \in DOMAIN Path
  /\ files \in [File -> FileKind]
  /\ reads \in 0..MaxLines /\ changes \in 0..MaxChanges
  /\ failed \in BOOLEAN
  /\ log \in Seq(Nat)

(* A forked child has a copy of the whole shell and of the rest of the     *)
(* command line (real_system.rs:66), and the original goes on at the same  *)
(* time: still every command is executed at most once, and in the order of *)
(* the input, whatever fails in the child or the parent.                   *)
ExecutedOnce == \A i, j \in DOMAIN log : i < j => log[i] < log[j]

(* Unless it was started with children, the shell never has a child that   *)
(* it is not waiting for, however forks, execs and waits fail or processes *)
(* are killed: hence the child that wait_sync reports is the one that      *)
(* run_in_subshell asserts it to be (lib.rs:296, 302).                     *)
ChildrenAccounted ==
  started.children = {} =>
    \A p \in Pid :
      /\ ~At(p, "panicked")
      /\ kernel[p].state = Alive =>
           Unreaped(p) \subseteq {c \in Pid : At(p, "wait") /\ c = memory[p].child}

(* The assertion in run_in_subshell (lib.rs:296): the child that has       *)
(* terminated is the subshell.                                             *)
AwaitedIsSubshell == \A p \in Pid : ~At(p, "panicked")

(* "the exit status is 127 for `ENOENT` and `ENOTDIR` and 126 for others"  *)
(* (simple_command.rs:45) when the child could not execute the utility,    *)
(* otherwise what the utility exited with, or 128 if it was killed.        *)
Result(c) == IF kernel[c].state = Killed THEN 128
             ELSE CASE memory[c].errno \in {"ENOENT", "ENOTDIR"} -> 127
                    [] memory[c].errno = "none" -> kernel[c].state.value
                    [] OTHER -> 126

(* The exit status tells in the parent what has become of the child, even  *)
(* if the file that the search found is changed before it is executed.     *)
StatusTellsResult ==
  [][\A p \in Pid :
       started = [ignored |-> FALSE, children |-> {}] /\ At(p, "wait") /\ At(p, "next")'
       => memory'[p].status = Result(memory[p].child)]_vars

(* The order of priority in command_search.rs:24, as the place where the   *)
(* execution of the command must go on                                     *)
FoundIn(name) == {d \in DOMAIN Path : KindOf(<<Path[d], name>>) \in {"script", "native"}}
IsFirst(d, name) == d \in FoundIn(name) /\ \A e \in FoundIn(name) : d <= e
Expected(name) ==
  IF name \in Slash THEN "fork"
  ELSE IF IsBuiltin(name, "Special") THEN "builtin"
  ELSE IF name \in Function THEN "next"
  ELSE IF IsBuiltin(name, "Intrinsic") THEN "builtin"
  ELSE IF FoundIn(name) = {} THEN "next"
  ELSE IF name \in DOMAIN BuiltinType THEN "builtin"
  ELSE "fork"

(* As long as nobody changes files, the search in several system calls     *)
(* comes to the first target in the order of priority, an external utility *)
(* in the first directory of $PATH that has it.                            *)
SearchInOrder ==
  [][\A p \in Pid :
       LET name == memory[p].command.name
       IN changes = 0 /\ memory[p].pc \in Searching /\ memory'[p].pc \notin Searching
          /\ name # Nothing
          => /\ memory'[p].pc = Expected(name)
             /\ Expected(name) = "fork" =>
                  \/ name \in Slash /\ memory'[p].target = <<Here, name>>
                  \/ \E d \in DOMAIN Path : /\ IsFirst(d, name)
                                             /\ memory'[p].target = <<Path[d], name>>]_vars

(* When the input ends the program ends, unless reading fails: whatever    *)
(* forks, execs and waits do, the shell comes back to its input.           *)
ProgramEnds == <>(Zombie(kernel[Root].state) \/ failed)
=============================================================================
