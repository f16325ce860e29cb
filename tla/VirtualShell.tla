---------------------------- MODULE VirtualShell ----------------------------
(***************************************************************************)
(* Simple commands executed on the virtual system, as the unit tests of    *)
(* yash-semantics do it: the environment of each process (yash-env), the   *)
(* command search and the arguments of external utilities (yash-semantics),*)
(* and the virtual file system with its stub of execve                     *)
(* (virtual_system.rs), composed with the processes of VirtualSystem.      *)
(*                                                                         *)
(* All processes share the file system; each has an environment, which is  *)
(* cloned when a child is made.  Between two awaits nothing interferes: a  *)
(* search is one step here, unlike in Shell.                               *)
(*                                                                         *)
(* Abstracted: a string is a sequence of words, colons and characters NUL; *)
(* what a built-in does is a status it returns and a variable it assigns.  *)
(***************************************************************************)
EXTENDS VirtualSystem, Sequences

CONSTANTS
  Word,         \* command names, arguments and parts of paths
  Slash,        \* words with a slash
  Nul,          \* words with a NUL
  BuiltinType,  \* Env::builtins: from words to builtin::Type
  BuiltinStatus, \* the exit statuses of built-ins
  Function,     \* Env::functions, by their names
  Command,      \* the fields of the commands to be executed: a subset of Seq(Word)
  VariableName, \* names of variables, "PATH" among them
  Variable,     \* what they may be: [value : Value, isExported : BOOLEAN]
  INode,        \* what files may be: [permissions : 0..511, isNativeExecutable : BOOLEAN]
  Path          \* where they may be: [dir : String, name : Word]

Colon == ":"
String == Seq(Word \cup {Colon})

(* enum ExitStatus                                                         *)
SUCCESS == 0
NOEXEC == 126
NOT_FOUND == 127

(* enum Value                                                              *)
Scalar(s) == [tag |-> "Scalar", value |-> s]
Array(values) == [tag |-> "Array", values |-> values]

ASSUME WordAssumption == /\ Slash \subseteq Word
                         /\ Nul \subseteq Word
                         /\ Function \subseteq Word
                         /\ DOMAIN BuiltinType \subseteq Word
                         /\ \A w \in DOMAIN BuiltinType :
                              BuiltinType[w] \in {"Special", "Intrinsic", "NonIntrinsic"}
                         /\ Colon \notin Word
ASSUME ExitStatusAssumption ==
  BuiltinStatus \cup {SUCCESS, NOEXEC, NOT_FOUND} \subseteq ExitStatus
ASSUME CommandAssumption == Command \subseteq Seq(Word) /\ <<>> \notin Command
ASSUME VariableAssumption ==
  /\ "PATH" \in VariableName
  /\ \A v \in Variable :
       /\ \/ v.value.tag = "Scalar" /\ v.value.value \in String
          \/ v.value.tag = "Array" /\ v.value.values \in Seq(String)
       /\ v.isExported \in BOOLEAN
ASSUME FileAssumption == /\ \A inode \in INode : /\ inode.permissions \in Nat
                                                 /\ inode.isNativeExecutable \in BOOLEAN
                         /\ \A f \in Path : f.dir \in String /\ f.name \in Word

VARIABLES
  env,         \* the Env of each process: its exit_status and its variables
  task,        \* what the task of each child is to execute
  lastExec,    \* Process::last_exec
  fileSystem   \* SystemState::file_system

shellVars == <<vars, env, task, lastExec, fileSystem>>

Nothing == [path |-> [dir |-> <<>>, name |-> "none"], args |-> <<>>, envs |-> {}]

ShellInit == /\ Init
             /\ env = [p \in Pid |-> [exitStatus |-> SUCCESS, variables |-> [n \in {} |-> 0]]]
             /\ task = [p \in Pid |-> Nothing]
             /\ lastExec = [p \in Pid |-> Nothing]
             /\ fileSystem = [path \in {} |-> 0]

-----------------------------------------------------------------------------
(* Strings                                                                 *)

(* str::split(':'), up to the n-th part of the string                      *)
Split(s) ==
  LET parts[n \in 0 .. Len(s)] ==
        IF n = 0 THEN <<<<>>>>
        ELSE LET before == parts[n - 1]
             IN IF s[n] = Colon THEN Append(before, <<>>)
                ELSE [before EXCEPT ![Len(before)] = Append(@, s[n])]
  IN parts[Len(s)]

(* Mutant: the parts are joined by nothing.                                *)
JoinedDirectly(strings) ==
  LET joined[n \in 0 .. Len(strings)] == IF n = 0 THEN <<>> ELSE joined[n - 1] \o strings[n]
  IN joined[Len(strings)]

(* Iterator::format(":")                                                   *)
Joined(strings) ==
  LET joined[n \in 0 .. Len(strings)] ==
        IF n = 0 THEN <<>>
        ELSE joined[n - 1] \o (IF n = 1 THEN <<>> ELSE <<Colon>>) \o strings[n]
  IN joined[Len(strings)]

(* CString::new                                                            *)
IsCString(s) == \A i \in DOMAIN s : s[i] \notin Nul

(* Mutant: the arguments without the name of the utility                   *)
OperandsToCStrings(fields) == SelectSeq(Tail(fields), LAMBDA w : w \notin Nul)

(* to_c_strings: what cannot be converted is left out.                     *)
ToCStrings(fields) ==
  LET strings[n \in 0 .. Len(fields)] ==
        IF n = 0 THEN <<>>
        ELSE IF fields[n] \in Nul THEN strings[n - 1] ELSE Append(strings[n - 1], fields[n])
  IN strings[Len(fields)]

(* Value::split                                                            *)
Directories(value) == IF value.tag = "Scalar" THEN Split(value.value) ELSE value.values

(* VariableSet::env_c_strings; the order is that of a HashMap.             *)
EnvString(value) == IF value.tag = "Scalar" THEN value.value ELSE Joined(value.values)
EnvCStrings(variables) ==
  {s \in {[name |-> n, value |-> EnvString(variables[n].value)] :
            n \in {n \in DOMAIN variables : variables[n].isExported}} : IsCString(s.value)}

-----------------------------------------------------------------------------
(* The file system                                                         *)

(* INode::permissions.0 & 0o111 != 0                                       *)
HasExecutableBit(mode) == \E bit \in {1, 8, 64} : (mode \div bit) % 2 = 1

(* Mutant: a file that does not exist has the default mode.                *)
IsExecutableFileOrMissing(files, path) ==
  path \in DOMAIN files => HasExecutableBit(files[path].permissions)

(* VirtualSystem::is_executable_file                                       *)
IsExecutableFile(files, path) ==
  path \in DOMAIN files /\ HasExecutableBit(files[path].permissions)

(* VirtualSystem::execve never succeeds.                                   *)
ExecveError(files, path) ==
  CASE path \notin DOMAIN files -> "ENOENT"
    [] path \in DOMAIN files /\ files[path].isNativeExecutable -> "ENOSYS"
    [] OTHER -> "ENOEXEC"

(* FileSystem::save, by anybody who has the state of the system            *)
Save == /\ running # Nobody => pc[running] \in Code
        /\ \E path \in Path, inode \in INode :
             fileSystem' = [f \in DOMAIN fileSystem \cup {path} |->
                              IF f = path THEN inode ELSE fileSystem[f]]
        /\ UNCHANGED <<vars, env, task, lastExec>>

-----------------------------------------------------------------------------
(* Command search                                                          *)

(* enum Target                                                             *)
Builtin == [tag |-> "Builtin"]
FunctionTarget == [tag |-> "Function"]
External(path) == [tag |-> "External", path |-> path]

(* search_path: the candidates, one for each directory of $PATH, and the   *)
(* first that is an executable file.  An Option<_> is a set that has one   *)
(* element or none.                                                        *)
Candidates(variables, name) ==
  IF "PATH" \notin DOMAIN variables THEN <<>>
  ELSE LET dirs == Directories(variables["PATH"].value)
       IN [i \in DOMAIN dirs |-> [dir |-> dirs[i], name |-> name]]

IsCandidate(files, path) ==
  IsCString(Append(path.dir, path.name)) /\ IsExecutableFile(files, path)

SearchPath(files, candidates) ==
  LET found == {i \in DOMAIN candidates : IsCandidate(files, candidates[i])}
  IN {candidates[i] : i \in {i \in found : \A j \in found : i <= j}}

IsBuiltin(name, type) == name \in DOMAIN BuiltinType /\ BuiltinType[name] = type

(* search                                                                  *)
Search(files, variables, name) ==
  IF name \in Slash
  THEN {External(path) : path \in {[dir |-> <<>>, name |-> n] : n \in {name} \ Nul}}
  ELSE IF IsBuiltin(name, "Special") THEN {Builtin}
  ELSE IF name \in Function THEN {FunctionTarget}
  ELSE IF IsBuiltin(name, "Intrinsic") THEN {Builtin}
  ELSE {IF IsBuiltin(name, "NonIntrinsic") THEN Builtin ELSE External(path) :
          path \in SearchPath(files, Candidates(variables, name))}

-----------------------------------------------------------------------------
(* SimpleCommand::execute                                                  *)

Status(p, status) == env' = [env EXCEPT ![p].exitStatus = status]

NotFound(p) == /\ running = p /\ pc[p] = "async"
               /\ Status(p, NOT_FOUND)
               /\ UNCHANGED <<vars, task, lastExec, fileSystem>>

(* TODO Call the function                                                  *)
CallFunction(p, target) == /\ running = p /\ pc[p] = "async"
                           /\ target = FunctionTarget
                           /\ UNCHANGED <<vars, env, task, lastExec, fileSystem>>

(* A built-in may assign a variable (VariableSet::assign).                 *)
Assigned(variables, n, v) ==
  [m \in DOMAIN variables \cup {n} |-> IF m = n THEN v ELSE variables[m]]

ExecuteBuiltin(p, target) ==
  /\ running = p /\ pc[p] = "async"
  /\ target = Builtin
  /\ \E status \in BuiltinStatus :
       \/ Status(p, status)
       \/ \E n \in VariableName, v \in Variable :
            env' = [env EXCEPT ![p] = [exitStatus |-> status,
                                       variables |-> Assigned(@.variables, n, v)]]
  /\ UNCHANGED <<vars, task, lastExec, fileSystem>>

(* What the closure given to run_in_subshell captures                      *)
Closure(p, path, fields) == [path |-> path, args |-> ToCStrings(fields),
                             envs |-> EnvCStrings(env[p].variables)]

(* The utility runs in a subshell whose environment is a clone             *)
(* (DummyChildProcess::run), or there is none.                             *)
RunUtility(p, target, fields) ==
  /\ target.tag = "External"
  /\ RunInSubshell(p)
  /\ LET c == child'[p]
     IN IF c = Nobody THEN Status(p, NOEXEC) /\ UNCHANGED task
        ELSE /\ env' = [env EXCEPT ![c] = env[p]]
             /\ task' = [task EXCEPT ![c] = Closure(p, target.path, fields)]
  /\ UNCHANGED <<lastExec, fileSystem>>

Execute(p) ==
  \E fields \in Command :
    LET found == Search(fileSystem, env[p].variables, fields[1])
    IN \/ found = {} /\ NotFound(p)
       \/ \E target \in found :
            CallFunction(p, target) \/ ExecuteBuiltin(p, target) \/ RunUtility(p, target, fields)

(* Mutant: the error number is the exit status.                            *)
ErrnoAsStatus(errno) == CASE errno = "ENOENT" -> 2 [] errno = "ENOEXEC" -> 8 [] OTHER -> 38

(* The closure, and the end of the task with the exit status it leaves     *)
StatusOfErrno(errno) == IF errno = "ENOENT" THEN NOT_FOUND ELSE NOEXEC

ExecuteTask(p) ==
  /\ pc[p] = "sync"
  /\ LET errno == ExecveError(fileSystem, task[p].path)
     IN /\ Finish(p, StatusOfErrno(errno))
        /\ Status(p, StatusOfErrno(errno))
        /\ lastExec' = IF errno = "ENOSYS" THEN [lastExec EXCEPT ![p] = task[p]] ELSE lastExec
  /\ UNCHANGED <<task, fileSystem>>

(* wait_sync; when run_in_subshell returns, the exit status is taken over. *)
Wait(p) ==
  /\ WaitPoll(p)
  /\ IF pc'[p] = "async"
     THEN Status(p, IF returned'[p].result = "Ok" THEN returned'[p].status ELSE NOEXEC)
     ELSE UNCHANGED env
  /\ UNCHANGED <<task, lastExec, fileSystem>>

(* The program under test ends.                                            *)
End(p) == /\ pc[p] = "async"
          /\ Finish(p, env[p].exitStatus)
          /\ UNCHANGED <<env, task, lastExec, fileSystem>>

-----------------------------------------------------------------------------
Kept == UNCHANGED <<env, task, lastExec, fileSystem>>

ShellNext == \/ \E p \in Pid : \/ (Poll(p) \/ SpuriousPoll(p) \/ Yield(p)) /\ Kept
                               \/ Execute(p) \/ ExecuteTask(p) \/ Wait(p) \/ End(p)
             \/ Save

(* Fairness as in VirtualSystem                                            *)
ShellFairness ==
  \A p \in Pid : /\ SF_shellVars(Poll(p) /\ Kept)
                 /\ WF_shellVars(Wait(p))
                 /\ SF_shellVars((Yield(p) /\ Kept) \/ ExecuteTask(p) \/ End(p))

ShellSpec == ShellInit /\ [][ShellNext]_shellVars
FairShellSpec == ShellSpec /\ ShellFairness

-----------------------------------------------------------------------------
(* Properties                                                              *)

VariableSet == UNION {[N -> Variable] : N \in SUBSET VariableName}
Env == [exitStatus : ExitStatus, variables : VariableSet]
FileSystem == UNION {[F -> INode] : F \in SUBSET Path}

(* Types.  The exit status of every environment is one a task may end with:*)
(* whatever goes wrong, no other value gets into a process state.          *)
ShellTypeOK == /\ env \in [Pid -> Env]
               /\ DOMAIN task = Pid /\ DOMAIN lastExec = Pid
               /\ \A p \in Pid : lastExec[p] \in {Nothing, task[p]}
               /\ fileSystem \in FileSystem

(* to_c_strings drops the fields that it cannot pass on, so that the ones  *)
(* after them move up (simple_command.rs:29): but the first argument is    *)
(* always the name of the utility, since the search finds no command with  *)
(* such a name.                                                            *)
FirstArgumentIsName ==
  \A p \in Pid : lastExec[p] # Nothing =>
    lastExec[p].args # <<>> /\ lastExec[p].args[1] = lastExec[p].path.name

(* The shell splits $PATH at colons or takes the values of an array as     *)
(* they are, "without further splitting", and passes it on as one string   *)
(* (variable.rs:57, 140).  A utility, which splits that again, has itself  *)
(* in its own $PATH unless the value that led to it has a colon in it: the *)
(* shell does find utilities in such a directory, but nobody else.         *)
HasColon(s) == \E i \in DOMAIN s : s[i] = Colon

PathPassedOn ==
  \A p \in Pid :
    LET e == lastExec[p]
        InPath(s) == \E i \in DOMAIN Split(s) : Split(s)[i] = e.path.dir
    IN \A s \in e.envs : s.name = "PATH" /\ e.path.name \notin Slash =>
         (InPath(s.value) <=> ~HasColon(e.path.dir))

(* Files come and change between the search, the execution in the child    *)
(* and the end of the wait.  Nevertheless a utility that was found is never*)
(* said not to be found, one that is not there is, and one that execve has *)
(* seen could not be executed (simple_command.rs:45).                      *)
UtilityReported(p, c, status) ==
  /\ status = NOT_FOUND => task[c].path.name \in Slash
  /\ task[c].path \notin DOMAIN fileSystem => status = NOT_FOUND
  /\ lastExec[c] # Nothing => status = NOEXEC
StatusOfUtility ==
  [][\A p \in Pid : pc[p] = "wait" /\ pc'[p] = "async" =>
       UtilityReported(p, child[p], env'[p].exitStatus)]_shellVars
=============================================================================
