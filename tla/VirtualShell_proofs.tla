------------------------ MODULE VirtualShell_proofs ------------------------
(***************************************************************************)
(* Proofs about VirtualShell for any commands, files and variables.  What  *)
(* VirtualSystem_proofs shows of the processes holds here as well, since   *)
(* every step is one of VirtualSystem.  What a utility gets for its        *)
(* arguments and its $PATH follows from lemmas about strings.              *)
(***************************************************************************)
EXTENDS VirtualShell, VirtualSystem_proofs, SequenceTheorems, RecursionTheorems

(* What the steps of a command do to the processes: nothing, or            *)
(* run_in_subshell                                                         *)
LEMMA ExecuteCases ==
  ASSUME NEW p \in Pid, Execute(p)
  PROVE  \/ /\ UNCHANGED <<vars, task, lastExec, fileSystem>>
            /\ pc[p] = "async"
            /\ \/ UNCHANGED env
               \/ \E status \in ExitStatus : Status(p, status)
               \/ \E status \in ExitStatus, n \in VariableName, v \in Variable :
                    env' = [env EXCEPT ![p] = [exitStatus |-> status,
                                               variables |-> Assigned(@.variables, n, v)]]
         \/ \E fields \in Command :
              \E target \in Search(fileSystem, env[p].variables, fields[1]) :
                RunUtility(p, target, fields)
<1>1. PICK fields \in Command :
        LET found == Search(fileSystem, env[p].variables, fields[1])
        IN \/ found = {} /\ NotFound(p)
           \/ \E target \in found : \/ CallFunction(p, target) \/ ExecuteBuiltin(p, target)
                                    \/ RunUtility(p, target, fields)
  BY DEF Execute
<1>2. CASE NotFound(p)
  BY <1>2, ExitStatusAssumption DEF NotFound
<1>3. ASSUME NEW target, CallFunction(p, target)
      PROVE  UNCHANGED <<vars, task, lastExec, fileSystem, env>> /\ pc[p] = "async"
  BY <1>3 DEF CallFunction
<1>4. ASSUME NEW target, ExecuteBuiltin(p, target)
      PROVE  /\ UNCHANGED <<vars, task, lastExec, fileSystem>>
             /\ pc[p] = "async"
             /\ \/ \E status \in ExitStatus : Status(p, status)
                \/ \E status \in ExitStatus, n \in VariableName, v \in Variable :
                     env' = [env EXCEPT ![p] = [exitStatus |-> status,
                                                variables |-> Assigned(@.variables, n, v)]]
  BY <1>4, ExitStatusAssumption DEF ExecuteBuiltin
<1>5. QED
  BY <1>1, <1>2, <1>3, <1>4

(* A child that run_in_subshell has made, and its environment and task     *)
LEMMA RunUtilityCases ==
  ASSUME TypeOK, NEW p \in Pid, NEW target, NEW fields, RunUtility(p, target, fields)
  PROVE  \/ child'[p] = Nobody /\ Status(p, NOEXEC) /\ UNCHANGED task
         \/ /\ child'[p] \in Pid \ DOMAIN processes
            /\ env' = [env EXCEPT ![child'[p]] = env[p]]
            /\ task' = [task EXCEPT ![child'[p]] = Closure(p, target.path, fields)]
<1>1. ASSUME NEW c \in Pid, Fork(p, c), child' = [child EXCEPT ![p] = c]
      PROVE  child'[p] \in Pid \ DOMAIN processes /\ child'[p] # Nobody
  <2>1. child'[p] = c
    BY <1>1 DEF TypeOK
  <2>2. c \notin DOMAIN processes
    BY <1>1, ForkType
  <2>3. QED
    BY <2>1, <2>2, NobodyNotPid
<1>2. ASSUME child' = [child EXCEPT ![p] = Nobody] PROVE child'[p] = Nobody
  BY <1>2 DEF TypeOK
<1>3. QED
  BY <1>1, <1>2 DEF RunUtility, RunInSubshell

LEMMA StatusOfErrnoType ==
  ASSUME NEW errno
  PROVE  StatusOfErrno(errno) \in ExitStatus
  BY ExitStatusAssumption DEF StatusOfErrno

(* Every step is one of VirtualSystem or leaves the processes alone.       *)
LEMMA StepOfVirtualSystem ==
  ASSUME ShellTypeOK, [ShellNext]_shellVars
  PROVE  [Next]_vars
<1>1. ASSUME NEW p \in Pid, Execute(p) PROVE [Next]_vars
  BY <1>1, ExecuteCases DEF RunUtility, Next
<1>2. ASSUME NEW p \in Pid, ExecuteTask(p) PROVE [Next]_vars
  <2>1. PICK s \in ExitStatus : Finish(p, s)
    BY <1>2, StatusOfErrnoType DEF ExecuteTask
  <2>2. QED
    BY <2>1 DEF Next
<1>3. ASSUME NEW p \in Pid, Wait(p) PROVE [Next]_vars
  BY <1>3 DEF Wait, Next
<1>4. ASSUME NEW p \in Pid, End(p) PROVE [Next]_vars
  <2>1. env[p].exitStatus \in ExitStatus
    BY DEF ShellTypeOK, Env
  <2>2. QED
    BY <1>4, <2>1 DEF End, Next
<1>5. ASSUME NEW p \in Pid, Poll(p) \/ SpuriousPoll(p) \/ Yield(p) PROVE [Next]_vars
  BY <1>5 DEF Next
<1>6. CASE Save \/ UNCHANGED shellVars
  BY <1>6 DEF Save, shellVars
<1>7. QED
  BY <1>1, <1>2, <1>3, <1>4, <1>5, <1>6 DEF ShellNext

-----------------------------------------------------------------------------
(* Types                                                                   *)

LEMMA StatusKeepsType ==
  ASSUME ShellTypeOK, NEW p \in Pid, NEW s \in ExitStatus, Status(p, s)
  PROVE  env' \in [Pid -> Env]
  BY DEF ShellTypeOK, Status, Env

LEMMA AssignedType ==
  ASSUME NEW variables \in VariableSet, NEW n \in VariableName, NEW v \in Variable
  PROVE  Assigned(variables, n, v) \in VariableSet
<1>1. PICK N \in SUBSET VariableName : variables \in [N -> Variable]
  BY DEF VariableSet
<1>2. Assigned(variables, n, v) \in [N \cup {n} -> Variable]
  BY <1>1 DEF Assigned
<1>3. QED
  BY <1>2 DEF VariableSet

LEMMA AssignmentKeepsType ==
  ASSUME ShellTypeOK, NEW p \in Pid, NEW s \in ExitStatus, NEW n \in VariableName,
         NEW v \in Variable,
         env' = [env EXCEPT ![p] = [exitStatus |-> s,
                                    variables |-> Assigned(@.variables, n, v)]]
  PROVE  env' \in [Pid -> Env]
<1>1. Assigned(env[p].variables, n, v) \in VariableSet
  BY AssignedType DEF ShellTypeOK, Env
<1>2. QED
  BY <1>1 DEF ShellTypeOK, Env

-----------------------------------------------------------------------------
(* The inductive invariant.  What the search has found is still there,     *)
(* since files are only saved; and the exit status of a child tells how    *)
(* its execve failed.                                                      *)

Found(c) == task[c].path.name \in Slash \/ task[c].path \in DOMAIN fileSystem

ExecFailed(c) ==
  \/ /\ processes[c].state = Exited(NOT_FOUND)
     /\ task[c].path.name \in Slash
     /\ lastExec[c] = Nothing
  \/ /\ processes[c].state = Exited(NOEXEC)
     /\ task[c].path \in DOMAIN fileSystem

TaskShape(c) == /\ pc[c] \in {"none", "sync", "done"}
                /\ pc[c] \in {"none", "sync"} => lastExec[c] = Nothing
                /\ pc[c] # "none" => Found(c)
                /\ pc[c] = "done" => ExecFailed(c)

RootTask == pc[Root] \notin {"none", "sync"} /\ lastExec[Root] = Nothing

ShellInv == ShellTypeOK /\ RootTask /\ \A c \in Pid \ {Root} : TaskShape(c)

LEMMA RootIsPid == Root \in Pid
  BY BoundsAssumption DEF Pid, Root

LEMMA ShellInvInit == ShellInit => ShellInv
<1> SUFFICES ASSUME ShellInit PROVE ShellInv
  OBVIOUS
<1>1. [n \in {} |-> 0] \in VariableSet /\ [path \in {} |-> 0] \in FileSystem
  BY DEF VariableSet, FileSystem
<1>2. ShellTypeOK
  BY <1>1, ExitStatusAssumption DEF ShellInit, ShellTypeOK, Env
<1>3. RootTask /\ \A c \in Pid \ {Root} : TaskShape(c)
  BY RootIsPid DEF ShellInit, Init, RootTask, TaskShape
<1>4. QED
  BY <1>2, <1>3 DEF ShellInv

(* Only the root executes commands and waits.                              *)
LEMMA OnlyRootExecutes ==
  ASSUME ShellInv, NEW p \in Pid, pc[p] \in {"async", "wait"}
  PROVE  p = Root
  BY DEF ShellInv, TaskShape

(* The search finds a file or takes a name with a slash as it is.          *)
LEMMA SearchFinds ==
  ASSUME NEW files, NEW variables, NEW name,
         NEW target \in Search(files, variables, name), target.tag = "External"
  PROVE  target.path.name \in Slash \/ target.path \in DOMAIN files
<1>1. CASE name \in Slash
  BY <1>1 DEF Search, External
<1>2. CASE name \notin Slash
  <2>1. PICK path \in SearchPath(files, Candidates(variables, name)) : target = External(path)
    BY <1>2 DEF Search, Builtin, FunctionTarget
  <2>2. path \in DOMAIN files
    BY DEF SearchPath, IsCandidate, IsExecutableFile
  <2>3. QED
    BY <2>1, <2>2 DEF External
<1>3. QED
  BY <1>1, <1>2

(* A command without an external utility                                   *)
LEMMA CommandKeepsInv ==
  ASSUME ShellInv, NEW p \in Pid, UNCHANGED <<vars, task, lastExec, fileSystem>>,
         \/ UNCHANGED env
         \/ \E status \in ExitStatus : Status(p, status)
         \/ \E status \in ExitStatus, n \in VariableName, v \in Variable :
              env' = [env EXCEPT ![p] = [exitStatus |-> status,
                                         variables |-> Assigned(@.variables, n, v)]]
  PROVE  ShellInv'
<1>1. env' \in [Pid -> Env]
  <2>1. CASE UNCHANGED env
    BY <2>1 DEF ShellInv, ShellTypeOK
  <2>2. CASE \E status \in ExitStatus : Status(p, status)
    BY <2>2, StatusKeepsType DEF ShellInv
  <2>3. CASE \E status \in ExitStatus, n \in VariableName, v \in Variable :
               env' = [env EXCEPT ![p] = [exitStatus |-> status,
                                          variables |-> Assigned(@.variables, n, v)]]
    BY <2>3, AssignmentKeepsType DEF ShellInv
  <2>4. QED
    BY <2>1, <2>2, <2>3
<1>2. ShellTypeOK'
  BY <1>1 DEF ShellInv, ShellTypeOK
<1>3. QED
  BY <1>2 DEF ShellInv, vars, RootTask, TaskShape, Found, ExecFailed

(* A utility that is started, or not                                       *)
LEMMA UtilityKeepsInv ==
  ASSUME ShellInv, TypeOK, NEW p \in Pid, NEW fields,
         NEW target \in Search(fileSystem, env[p].variables, fields[1]),
         RunUtility(p, target, fields)
  PROVE  ShellInv'
<1>1. p = Root /\ pc[Root] = "async"
  BY OnlyRootExecutes DEF RunUtility, RunInSubshell
<1>2. UNCHANGED <<lastExec, fileSystem>>
  BY DEF RunUtility
<1>3. CASE child'[p] = Nobody /\ Status(p, NOEXEC) /\ UNCHANGED task
  <2>1. env' \in [Pid -> Env]
    BY <1>3, StatusKeepsType, ExitStatusAssumption DEF ShellInv
  <2>2. UNCHANGED <<processes, pc>>
    <3>1. ASSUME NEW c \in Pid, child' = [child EXCEPT ![p] = c] PROVE FALSE
      BY <3>1, <1>3, NobodyNotPid DEF TypeOK
    <3>2. QED
      BY <3>1 DEF RunUtility, RunInSubshell
  <2>3. QED
    BY <1>2, <1>3, <2>1, <2>2
       DEF ShellInv, ShellTypeOK, RootTask, TaskShape, Found, ExecFailed
<1>4. ASSUME NEW c \in Pid \ DOMAIN processes, c = child'[p],
             env' = [env EXCEPT ![c] = env[p]],
             task' = [task EXCEPT ![c] = Closure(p, target.path, fields)]
      PROVE  ShellInv'
  <2>1. pc[c] = "none" /\ c # Root
    BY <1>4 DEF TypeOK
  <2>2. /\ Fork(p, c)
        /\ pc' = [pc EXCEPT ![c] = "sync", ![p] = "wait"]
    <3>1. ASSUME NEW d \in Pid, child' = [child EXCEPT ![p] = d] PROVE d = c
      BY <3>1, <1>4 DEF TypeOK
    <3>2. ASSUME child' = [child EXCEPT ![p] = Nobody] PROVE FALSE
      BY <3>2, <1>4, NobodyNotPid DEF TypeOK
    <3>3. QED
      BY <3>1, <3>2 DEF RunUtility, RunInSubshell
  <2>3. /\ pc'[c] = "sync" /\ pc'[Root] = "wait"
        /\ \A d \in Pid \ {c, Root} : pc'[d] = pc[d]
    BY <1>1, <2>1, <2>2, RootIsPid DEF TypeOK
  <2>4. \A d \in DOMAIN processes : processes'[d] = processes[d]
    BY <2>2, <1>4 DEF Fork, SpawnTask
  <2>5. lastExec[c] = Nothing
    BY <2>1 DEF ShellInv, TaskShape
  <2>6. ShellTypeOK'
    BY <1>2, <1>4, <2>5 DEF ShellInv, ShellTypeOK
  <2>7. task'[c].path = target.path /\ \A d \in Pid \ {c} : task'[d] = task[d]
    BY <1>4 DEF Closure, ShellInv, ShellTypeOK
  <2>8. TaskShape(c)'
    <3>1. target.path.name \in Slash \/ target.path \in DOMAIN fileSystem
      BY SearchFinds DEF RunUtility
    <3>2. QED
      BY <1>2, <2>3, <2>5, <2>7, <3>1 DEF TaskShape, Found
  <2>9. ASSUME NEW d \in Pid \ {c, Root} PROVE TaskShape(d)'
    <3>1. TaskShape(d)
      BY DEF ShellInv
    <3>2. pc[d] = "done" => processes'[d] = processes[d]
      BY <2>4 DEF TypeOK
    <3>3. QED
      BY <1>2, <2>3, <2>7, <3>1, <3>2 DEF TaskShape, Found, ExecFailed
  <2>10. RootTask'
    BY <1>2, <2>3 DEF ShellInv, RootTask
  <2>11. QED
    BY <2>6, <2>8, <2>9, <2>10 DEF ShellInv
<1>5. QED
  BY <1>3, <1>4, RunUtilityCases

(* The closure of a child fails to execute its utility.                    *)
LEMMA TaskKeepsInv ==
  ASSUME ShellInv, TypeOK, NEW p \in Pid, ExecuteTask(p)
  PROVE  ShellInv'
<1> DEFINE errno == ExecveError(fileSystem, task[p].path)
<1>1. p # Root /\ TaskShape(p) /\ pc[p] = "sync" /\ p \in DOMAIN processes
  BY DEF ExecuteTask, ShellInv, RootTask, TypeOK
<1>2. /\ Finish(p, StatusOfErrno(errno))
      /\ Status(p, StatusOfErrno(errno))
      /\ lastExec' = IF errno = "ENOSYS" THEN [lastExec EXCEPT ![p] = task[p]] ELSE lastExec
      /\ UNCHANGED <<task, fileSystem>>
  BY DEF ExecuteTask
<1>3. env' \in [Pid -> Env]
  BY <1>2, StatusOfErrnoType, StatusKeepsType DEF ShellInv
<1>4. ShellTypeOK'
  BY <1>1, <1>2, <1>3 DEF ShellInv, ShellTypeOK
<1>5. pc'[p] = "done" /\ \A d \in Pid \ {p} : pc'[d] = pc[d]
  BY <1>2 DEF Finish, TypeOK
<1>6. /\ processes'[p] = SetState(processes[p], Exited(StatusOfErrno(errno)))
      /\ \A d \in DOMAIN processes \ {p} : processes'[d] = processes[d]
  BY <1>1, <1>2 DEF Finish, TypeOK
<1>7. processes'[p].state = Exited(StatusOfErrno(errno))
  BY <1>1, <1>6 DEF SetState, TypeOK, Process
<1>8. \A d \in Pid \ {p} : lastExec'[d] = lastExec[d]
  BY <1>2 DEF ShellInv, ShellTypeOK
<1>9. TaskShape(p)'
  <2>1. Found(p)
    BY <1>1 DEF TaskShape
  <2>2. lastExec[p] = Nothing
    BY <1>1 DEF TaskShape
  <2>3. CASE task[p].path \notin DOMAIN fileSystem
    <3>1. errno = "ENOENT"
      BY <2>3 DEF ExecveError
    <3>2. ExecFailed(p)'
      BY <1>2, <1>7, <2>1, <2>2, <2>3, <3>1 DEF ExecFailed, Found, StatusOfErrno
    <3>3. QED
      BY <1>2, <1>5, <2>1, <3>2 DEF TaskShape, Found
  <2>4. CASE task[p].path \in DOMAIN fileSystem
    <3>1. errno # "ENOENT"
      BY <2>4 DEF ExecveError
    <3>2. ExecFailed(p)'
      BY <1>2, <1>7, <2>4, <3>1 DEF ExecFailed, StatusOfErrno
    <3>3. QED
      BY <1>2, <1>5, <2>1, <3>2 DEF TaskShape, Found
  <2>5. QED
    BY <2>3, <2>4
<1>10. ASSUME NEW d \in Pid \ {p, Root} PROVE TaskShape(d)'
  <2>1. TaskShape(d)
    BY DEF ShellInv
  <2>2. pc[d] = "done" => processes'[d] = processes[d]
    BY <1>6 DEF TypeOK
  <2>3. QED
    BY <1>2, <1>5, <1>8, <2>1, <2>2 DEF TaskShape, Found, ExecFailed
<1>11. RootTask'
  BY <1>1, <1>5, <1>8, RootIsPid DEF ShellInv, RootTask
<1>12. QED
  BY <1>4, <1>9, <1>10, <1>11 DEF ShellInv

(* A step that leaves the states of the processes alone, and at most moves *)
(* the root on.                                                            *)
LEMMA RootStepKeepsInv ==
  ASSUME ShellInv, TypeOK,
         env' \in [Pid -> Env],
         UNCHANGED <<task, lastExec, fileSystem>>,
         \A d \in Pid \ {Root} : pc'[d] = pc[d],
         pc'[Root] \notin {"none", "sync"},
         \A d \in DOMAIN processes : processes'[d].state = processes[d].state
  PROVE  ShellInv'
<1>1. ShellTypeOK'
  BY DEF ShellInv, ShellTypeOK
<1>2. ASSUME NEW d \in Pid \ {Root} PROVE TaskShape(d)'
  <2>1. TaskShape(d)
    BY DEF ShellInv
  <2>2. pc[d] = "done" => processes'[d].state = processes[d].state
    BY DEF TypeOK
  <2>3. QED
    BY <2>1, <2>2 DEF TaskShape, Found, ExecFailed
<1>3. QED
  BY <1>1, <1>2 DEF ShellInv, RootTask

(* What a wait of the root takes over: the exit status of its subshell     *)
LEMMA WaitReports ==
  ASSUME ShellInv, TypeOK, OneSubshellAtATime, NEW p \in Pid, ReportChild(p), Wait(p)
  PROVE  LET c == child[Root]
         IN /\ p = Root
            /\ c \in Pid \ {Root}
            /\ pc[c] = "done"
            /\ pc' = [pc EXCEPT ![Root] = "async"]
            /\ processes' = [processes EXCEPT ![c] = Reported(@)]
            /\ c \in DOMAIN processes
            /\ env' = [env EXCEPT ![Root].exitStatus = SubshellStatus(processes[c].state)]
<1>1. p = Root /\ pc[Root] = "wait"
  BY OnlyRootExecutes DEF ReportChild, ToWaitStatus
<1>2. PICK c \in ChangedChildren(Root) :
        /\ processes' = [processes EXCEPT ![c] = Reported(@)]
        /\ pc' = [pc EXCEPT ![Root] = AfterReport(Root, c)]
        /\ returned' = IF child[Root] # Nobody /\ AfterReport(Root, c) = "async"
                       THEN [returned EXCEPT ![Root] = Ok(SubshellStatus(processes[c].state))]
                       ELSE returned
  BY <1>1 DEF ReportChild, ToWaitStatus, FirstChanged
<1>3. /\ c = child[Root]
      /\ c \in Subshells
      /\ pc[c] = "done"
      /\ AfterReport(Root, c) = "async"
  BY <1>1, <1>2, ReportedIsSubshell
<1>4. c \in Pid \ {Root} /\ child[Root] # Nobody
  BY <1>3, NobodyNotPid DEF TypeOK, Subshells
<1>5. returned'[Root] = Ok(SubshellStatus(processes[c].state)) /\ pc'[Root] = "async"
  BY <1>2, <1>3, <1>4, RootIsPid DEF TypeOK
<1>6. env' = [env EXCEPT ![Root].exitStatus = SubshellStatus(processes[c].state)]
  BY <1>1, <1>5 DEF Wait, Status, Ok
<1>7. QED
  BY <1>1, <1>2, <1>3, <1>4, <1>6 DEF Subshells

(* How the subshell failed is what its exit status says.                   *)
LEMMA FailedStatus ==
  ASSUME NEW c, ExecFailed(c)
  PROVE  /\ SubshellStatus(processes[c].state) \in {NOT_FOUND, NOEXEC}
         /\ SubshellStatus(processes[c].state) = NOT_FOUND =>
              task[c].path.name \in Slash /\ lastExec[c] = Nothing
         /\ SubshellStatus(processes[c].state) = NOEXEC => task[c].path \in DOMAIN fileSystem
  BY DEF ExecFailed, SubshellStatus, Exited, NOT_FOUND, NOEXEC

LEMMA WaitKeepsInv ==
  ASSUME ShellInv, TypeOK, OneSubshellAtATime, NEW p \in Pid, Wait(p)
  PROVE  ShellInv'
<1>1. UNCHANGED <<task, lastExec, fileSystem>>
  BY DEF Wait
<1>2. CASE ReportChild(p)
  <2>1. PICK c \in Pid \ {Root} :
          /\ pc[c] = "done"
          /\ pc' = [pc EXCEPT ![Root] = "async"]
          /\ processes' = [processes EXCEPT ![c] = Reported(@)]
          /\ c \in DOMAIN processes
          /\ env' = [env EXCEPT ![Root].exitStatus = SubshellStatus(processes[c].state)]
    BY <1>2, WaitReports
  <2>2. ExecFailed(c)
    BY <2>1 DEF ShellInv, TaskShape
  <2>3. SubshellStatus(processes[c].state) \in ExitStatus
    BY <2>2, FailedStatus, ExitStatusAssumption
  <2>4. env' \in [Pid -> Env]
    BY <2>1, <2>3 DEF ShellInv, ShellTypeOK, Env
  <2>5. \A d \in DOMAIN processes : processes'[d].state = processes[d].state
    BY <2>1 DEF TypeOK, Process, Reported
  <2>6. /\ \A d \in Pid \ {Root} : pc'[d] = pc[d]
        /\ pc'[Root] = "async"
    BY <2>1, RootIsPid DEF TypeOK
  <2>7. QED
    BY <1>1, <2>4, <2>5, <2>6, RootStepKeepsInv
<1>3. CASE NoChild(p)
  <2>1. p = Root /\ pc[Root] = "wait"
    BY <1>3, OnlyRootExecutes DEF NoChild
  <2>2. child[Root] \in Children(Root)
    BY <2>1 DEF OneSubshellAtATime, Subshells, RootShape, SubshellShape, Children
  <2>3. QED
    BY <1>3, <2>1, <2>2 DEF NoChild
<1>4. CASE Suspend(p)
  <2>1. pc' = pc /\ pc[p] = "wait"
    BY <1>4 DEF Suspend
  <2>2. env' = env
    BY <2>1 DEF Wait
  <2>3. \A d \in DOMAIN processes : processes'[d].state = processes[d].state
    BY <1>4 DEF Suspend, TypeOK, Process
  <2>4. QED
    BY <1>1, <2>1, <2>2, <2>3, RootStepKeepsInv DEF ShellInv, ShellTypeOK, RootTask
<1>5. QED
  BY <1>2, <1>3, <1>4 DEF Wait, WaitPoll

LEMMA EndKeepsInv ==
  ASSUME ShellInv, TypeOK, NEW p \in Pid, End(p)
  PROVE  ShellInv'
<1>1. p = Root
  BY OnlyRootExecutes DEF End
<1>2. UNCHANGED <<processes, env, task, lastExec, fileSystem>> /\ pc' = [pc EXCEPT ![Root] = "done"]
  BY <1>1 DEF End, Finish
<1>3. pc'[Root] = "done" /\ \A d \in Pid \ {Root} : pc'[d] = pc[d]
  BY <1>2, RootIsPid DEF TypeOK
<1>4. QED
  BY <1>2, <1>3, RootStepKeepsInv DEF ShellInv, ShellTypeOK

LEMMA SaveKeepsInv ==
  ASSUME ShellInv, Save
  PROVE  ShellInv'
<1>1. PICK path \in Path, inode \in INode :
        fileSystem' = [f \in DOMAIN fileSystem \cup {path} |->
                         IF f = path THEN inode ELSE fileSystem[f]]
  BY DEF Save
<1>2. UNCHANGED <<processes, pc, env, task, lastExec>>
  BY DEF Save, vars
<1>3. DOMAIN fileSystem \subseteq DOMAIN fileSystem'
  BY <1>1
<1>4. fileSystem' \in FileSystem
  <2>1. PICK F \in SUBSET Path : fileSystem \in [F -> INode]
    BY DEF ShellInv, ShellTypeOK, FileSystem
  <2>2. fileSystem' \in [F \cup {path} -> INode]
    BY <1>1, <2>1
  <2>3. QED
    BY <2>2 DEF FileSystem
<1>5. ShellTypeOK' /\ RootTask'
  BY <1>2, <1>4 DEF ShellInv, ShellTypeOK, RootTask
<1>6. ASSUME NEW d \in Pid \ {Root} PROVE TaskShape(d)'
  <2>1. TaskShape(d)
    BY DEF ShellInv
  <2>2. QED
    BY <1>2, <1>3, <2>1 DEF TaskShape, Found, ExecFailed
<1>7. QED
  BY <1>5, <1>6 DEF ShellInv

LEMMA ShellInvStep ==
  ASSUME ShellInv, TypeOK, OneSubshellAtATime, [ShellNext]_shellVars
  PROVE  ShellInv'
<1>1. ASSUME NEW p \in Pid, (Poll(p) \/ SpuriousPoll(p) \/ Yield(p)) /\ Kept
      PROVE  ShellInv'
  <2>1. UNCHANGED <<processes, pc, env, task, lastExec, fileSystem>>
    BY <1>1 DEF Poll, SpuriousPoll, Yield, Kept
  <2>2. QED
    BY <2>1, RootStepKeepsInv DEF ShellInv, ShellTypeOK, RootTask
<1>2. ASSUME NEW p \in Pid, Execute(p) PROVE ShellInv'
  BY <1>2, ExecuteCases, CommandKeepsInv, UtilityKeepsInv
<1>3. ASSUME NEW p \in Pid, ExecuteTask(p) \/ Wait(p) \/ End(p) PROVE ShellInv'
  BY <1>3, TaskKeepsInv, WaitKeepsInv, EndKeepsInv
<1>4. CASE Save
  BY <1>4, SaveKeepsInv
<1>5. CASE UNCHANGED shellVars
  BY <1>5 DEF shellVars, vars, ShellInv, ShellTypeOK, RootTask, TaskShape, Found, ExecFailed
<1>6. QED
  BY <1>1, <1>2, <1>3, <1>4, <1>5 DEF ShellNext

-----------------------------------------------------------------------------
(* The shell uses nothing of the virtual system but what CommandApi names. *)
LEMMA ShellInvAlways ==
  ASSUME Api \subseteq CommandApi
  PROVE  ShellSpec => [](ShellInv /\ TypeOK /\ OneSubshellAtATime)
<1>1. ShellInit => ShellInv /\ TypeOK /\ OneSubshellAtATime
  BY ShellInvInit, TypeInit, OneSubshellInit DEF ShellInit
<1>2. ShellInv /\ TypeOK /\ OneSubshellAtATime /\ [ShellNext]_shellVars
        => ShellInv' /\ TypeOK' /\ OneSubshellAtATime'
  <2> SUFFICES ASSUME ShellInv, TypeOK, OneSubshellAtATime, [ShellNext]_shellVars
               PROVE  ShellInv' /\ TypeOK' /\ OneSubshellAtATime'
    OBVIOUS
  <2>1. [Next]_vars
    BY StepOfVirtualSystem DEF ShellInv
  <2>2. QED
    BY <2>1, ShellInvStep, TypeStep, OneSubshellStep
<1>3. QED
  BY <1>1, <1>2, PTL DEF ShellSpec

(* No exit status but those that tasks may end with gets into an           *)
(* environment, whatever commands are executed and however files change.   *)
THEOREM VirtualShellTypeCorrect ==
  ASSUME Api \subseteq CommandApi
  PROVE  ShellSpec => []ShellTypeOK
<1>1. ShellInv => ShellTypeOK
  BY DEF ShellInv
<1>2. QED
  BY <1>1, ShellInvAlways, PTL

(* Executing commands is one way to use the virtual system: every step of  *)
(* the shell is a step of its processes, or none.                          *)
THEOREM VirtualShellUsesVirtualSystem ==
  ASSUME Api \subseteq CommandApi
  PROVE  ShellSpec => Spec
<1>1. ShellInit => Init
  BY DEF ShellInit
<1>2. ShellInv /\ [ShellNext]_shellVars => [Next]_vars
  BY StepOfVirtualSystem DEF ShellInv
<1>3. QED
  BY <1>1, <1>2, ShellInvAlways, PTL DEF ShellSpec, Spec

(* So run_in_subshell never panics and returns the status of the subshell  *)
(* of the utility, and no wait of the shell is in vain.                    *)
THEOREM UtilitiesFinish ==
  ASSUME Api \subseteq CommandApi
  PROVE  ShellSpec => []SubshellFinished /\ []NoHopelessWait
  BY VirtualShellUsesVirtualSystem, SubshellsFinish, NeverHopeless, PTL

(* However files come and change between the search, the execution in the  *)
(* child and the end of the wait: a utility that was found is never said   *)
(* not to be found, one that is not there is, and one that execve has seen *)
(* could not be executed.                                                  *)
THEOREM UtilitiesReported ==
  ASSUME Api \subseteq CommandApi
  PROVE  ShellSpec => StatusOfUtility
<1>1. ShellInv /\ TypeOK /\ OneSubshellAtATime /\ [ShellNext]_shellVars
        => [\A p \in Pid : pc[p] = "wait" /\ pc'[p] = "async" =>
              UtilityReported(p, child[p], env'[p].exitStatus)]_shellVars
  <2> SUFFICES ASSUME ShellInv, TypeOK, OneSubshellAtATime, ShellNext,
                      NEW p \in Pid, pc[p] = "wait", pc'[p] = "async"
               PROVE  UtilityReported(p, child[p], env'[p].exitStatus)
    OBVIOUS
  <2>1. p = Root
    BY OnlyRootExecutes
  <2>2. ReportChild(p) /\ Wait(p)
    <3>1. ASSUME NEW q \in Pid, Poll(q) \/ SpuriousPoll(q) \/ Yield(q) PROVE FALSE
      BY <3>1 DEF Poll, SpuriousPoll, Yield
    <3>2. ASSUME NEW q \in Pid, Execute(q) PROVE FALSE
      <4>1. pc[q] = "async"
        BY <3>2, ExecuteCases DEF RunUtility, RunInSubshell
      <4>2. QED
        BY <2>1, <4>1, OnlyRootExecutes
    <3>3. ASSUME NEW q \in Pid, ExecuteTask(q) \/ End(q) PROVE FALSE
      <4>1. q # p /\ pc' = [pc EXCEPT ![q] = "done"]
        BY <2>1, <3>3, OnlyRootExecutes DEF ExecuteTask, End, Finish
      <4>2. QED
        BY <4>1 DEF TypeOK
    <3>4. ~Save
      BY DEF Save, vars
    <3>5. PICK q \in Pid : Wait(q)
      BY <3>1, <3>2, <3>3, <3>4 DEF ShellNext
    <3>6. q = p
      BY <2>1, <3>5, OnlyRootExecutes DEF Wait, WaitPoll, ReportChild, ToWaitStatus, NoChild, Suspend
    <3>7. ~NoChild(p) /\ ~Suspend(p)
      <4>1. child[Root] \in Children(Root)
        BY <2>1 DEF OneSubshellAtATime, Subshells, RootShape, SubshellShape, Children
      <4>2. QED
        BY <2>1, <4>1 DEF NoChild, Suspend
    <3>8. QED
      BY <3>5, <3>6, <3>7 DEF Wait, WaitPoll
  <2>3. LET c == child[Root]
        IN /\ c \in Pid \ {Root}
           /\ pc[c] = "done"
           /\ env' = [env EXCEPT ![Root].exitStatus = SubshellStatus(processes[c].state)]
    BY <2>2, WaitReports
  <2>4. ExecFailed(child[Root])
    BY <2>3 DEF ShellInv, TaskShape
  <2>5. env'[p].exitStatus = SubshellStatus(processes[child[Root]].state)
    BY <2>1, <2>3 DEF ShellInv, ShellTypeOK, Env
  <2>6. QED
    BY <2>1, <2>3, <2>4, <2>5, FailedStatus
       DEF UtilityReported, NOT_FOUND, NOEXEC, ExecFailed
<1>2. QED
  BY <1>1, ShellInvAlways, PTL DEF ShellSpec, StatusOfUtility

-----------------------------------------------------------------------------
(* Strings                                                                 *)

(* ToCStrings passes through these sequences, Split and Joined through     *)
(* those below.                                                            *)
Converted(fields) ==
  CHOOSE strings : strings = [n \in 0 .. Len(fields) |->
    IF n = 0 THEN <<>>
    ELSE IF fields[n] \in Nul THEN strings[n - 1] ELSE Append(strings[n - 1], fields[n])]

LEMMA ConvertedSteps ==
  ASSUME NEW S, NEW fields \in Seq(S)
  PROVE  LET f == Converted(fields)
         IN /\ ToCStrings(fields) = f[Len(fields)]
            /\ f[0] = <<>>
            /\ \A n \in 1 .. Len(fields) :
                 f[n] = IF fields[n] \in Nul THEN f[n - 1] ELSE Append(f[n - 1], fields[n])
            /\ \A n \in 0 .. Len(fields) : f[n] \in Seq(S)
<1> DEFINE l == Len(fields)
           V == Seq(S)
           step == [n \in 1 .. l |-> [before \in V |->
                      IF fields[n] \in Nul THEN before ELSE Append(before, fields[n])]]
           Steps(f) == [n \in 0 .. l |->
                          IF n = 0 THEN <<>>
                          ELSE IF fields[n] \in Nul THEN f[n - 1] ELSE Append(f[n - 1], fields[n])]
<1>1. l \in Nat /\ \A n \in 1 .. l : fields[n] \in S
  BY LenProperties, ElementOfSeq
<1>2. step \in [1 .. l -> [V -> V]]
  BY <1>1
<1>3. <<>> \in V
  OBVIOUS
<1>4. \E f \in [0 .. l -> V] : f[0] = <<>> /\ \A n \in 1 .. l : f[n] = step[n][f[n - 1]]
  <2> DEFINE first == <<>>
  <2>1. l \in Nat /\ first \in V /\ step \in [1 .. l -> [V -> V]]
    BY <1>1, <1>2, <1>3
  <2> HIDE DEF step, V, first, l
  <2>2. \E f \in [0 .. l -> V] : Recursive(f, l, first, step)
    BY <2>1, RecursionUpTo
  <2>3. QED
    BY <2>2 DEF first, Recursive
<1>5. PICK f \in [0 .. l -> V] : f[0] = <<>> /\ \A n \in 1 .. l : f[n] = step[n][f[n - 1]]
  BY <1>4
<1>6. \A n \in 1 .. l : n - 1 \in 0 .. l /\ n \in 0 .. l
  BY <1>1
<1>7. \A n \in 1 .. l : f[n] = IF fields[n] \in Nul THEN f[n - 1] ELSE Append(f[n - 1], fields[n])
  BY <1>5, <1>6
<1>8. f = Steps(f)
  <2>1. \A n \in 0 .. l : f[n] = Steps(f)[n]
    <3>1. \A n \in 0 .. l : n = 0 \/ n \in 1 .. l
      BY <1>1
    <3>2. QED
      BY <1>5, <1>7, <3>1
  <2>2. QED
    BY <2>1
<1> DEFINE g == Converted(fields)
<1>9. g = Steps(g)
  BY <1>8 DEF Converted
<1>10. /\ g[0] = <<>>
       /\ \A n \in 1 .. l : g[n] = IF fields[n] \in Nul THEN g[n - 1] ELSE Append(g[n - 1], fields[n])
  <2> HIDE DEF g
  <2>1. 0 \in 0 .. l /\ \A n \in 1 .. l : n \in 0 .. l /\ n # 0
    BY <1>1
  <2>2. \A n \in 0 .. l : g[n] = Steps(g)[n]
    BY <1>9
  <2>3. QED
    BY <2>1, <2>2
<1>11. \A n \in 0 .. l : g[n] \in V
  <2> DEFINE T == {n \in 0 .. l : g[n] \in V}
  <2> HIDE DEF g, V
  <2>1. 0 \in T
    BY <1>1, <1>3, <1>10
  <2>2. ASSUME NEW n \in 0 .. l - 1, n \in T PROVE n + 1 \in T
    <3>1. n + 1 \in 1 .. l /\ n + 1 - 1 = n /\ n + 1 \in 0 .. l
      BY <1>1
    <3>2. g[n + 1] = IF fields[n + 1] \in Nul THEN g[n] ELSE Append(g[n], fields[n + 1])
      BY <1>10, <3>1
    <3>3. g[n] \in V /\ fields[n + 1] \in S
      BY <1>1, <2>2, <3>1
    <3>4. g[n + 1] \in V
      <4> DEFINE before == g[n]
                 c == fields[n + 1]
      <4>1. before \in V /\ c \in S
        BY <3>3
      <4>2. g[n + 1] = before \/ g[n + 1] = Append(before, c)
        BY <3>2
      <4> HIDE DEF before, c
      <4>3. Append(before, c) \in V
        BY <4>1 DEF V
      <4>4. QED
        BY <4>1, <4>2, <4>3
    <3>5. QED
      BY <3>1, <3>4
  <2> HIDE DEF T
  <2>3. 0 .. l \subseteq T
    BY <1>1, <2>1, <2>2, InductionUpTo
  <2>4. QED
    BY <2>3 DEF T
<1>12. ToCStrings(fields) = g[l]
  BY DEF ToCStrings, Converted
<1>13. QED
  BY <1>10, <1>11, <1>12

(* The first field stays the first if it can be converted.                 *)
LEMMA FirstIsConverted ==
  ASSUME NEW S, NEW fields \in Seq(S), fields # <<>>, fields[1] \notin Nul
  PROVE  ToCStrings(fields) # <<>> /\ ToCStrings(fields)[1] = fields[1]
<1> DEFINE f == Converted(fields)
           l == Len(fields)
<1>1. /\ ToCStrings(fields) = f[l]
      /\ f[0] = <<>>
      /\ \A n \in 1 .. l :
           f[n] = IF fields[n] \in Nul THEN f[n - 1] ELSE Append(f[n - 1], fields[n])
      /\ \A n \in 0 .. l : f[n] \in Seq(S)
  BY ConvertedSteps
<1>2. l \in Nat \ {0} /\ \A n \in 1 .. l : fields[n] \in S
  BY LenProperties, ElementOfSeq, EmptySeq
<1> HIDE DEF f
<1> DEFINE T == {n \in 0 .. l - 1 : f[n + 1] # <<>> /\ f[n + 1][1] = fields[1]}
<1>3. 0 \in T
  <2>1. 1 \in 1 .. l /\ 1 - 1 = 0
    BY <1>2
  <2>2. f[1] = Append(<<>>, fields[1])
    BY <1>1, <2>1
  <2>3. f[1] = <<fields[1]>>
    BY <2>2
  <2>4. 0 \in 0 .. l - 1 /\ 0 + 1 = 1
    BY <1>2
  <2>5. QED
    BY <2>3, <2>4
<1>4. ASSUME NEW n \in 0 .. (l - 1) - 1, n \in T PROVE n + 1 \in T
  <2>1. n + 2 \in 1 .. l /\ n + 2 - 1 = n + 1 /\ n + 1 \in 0 .. l - 1 /\ n + 1 + 1 = n + 2 /\ n + 1 \in 0 .. l
    BY <1>2
  <2>2. f[n + 2] = IF fields[n + 2] \in Nul THEN f[n + 1] ELSE Append(f[n + 1], fields[n + 2])
    BY <1>1, <2>1
  <2>3. f[n + 1] \in Seq(S) /\ f[n + 1] # <<>> /\ f[n + 1][1] = fields[1] /\ fields[n + 2] \in S
    BY <1>1, <1>2, <1>4, <2>1
  <2> DEFINE before == f[n + 1]
  <2>4. Len(before) \in Nat \ {0}
    BY <2>3, LenProperties, EmptySeq
  <2>5. Append(before, fields[n + 2]) # <<>> /\ Append(before, fields[n + 2])[1] = before[1]
    <3>1. 1 \in 1 .. Len(before)
      BY <2>4
    <3>2. QED
      BY <2>3, <3>1, AppendProperties
  <2>6. f[n + 2] # <<>> /\ f[n + 2][1] = fields[1]
    BY <2>2, <2>3, <2>5
  <2>7. QED
    BY <2>1, <2>6
<1>5. l - 1 \in T
  <2> HIDE DEF T
  <2>1. l - 1 \in Nat
    BY <1>2
  <2>2. 0 .. l - 1 \subseteq T
    BY <1>3, <1>4, <2>1, InductionUpTo
  <2>3. QED
    BY <2>1, <2>2
<1>6. l - 1 + 1 = l
  BY <1>2
<1>7. QED
  BY <1>1, <1>5, <1>6

(* Splitting a string begins with one empty part; a colon begins another,  *)
(* anything else is added to the last part.                                *)
Extended(parts, w) ==
  IF w = Colon THEN Append(parts, <<>>)
  ELSE [parts EXCEPT ![Len(parts)] = Append(@, w)]

Parts(s) ==
  CHOOSE parts : parts = [n \in 0 .. Len(s) |->
    IF n = 0 THEN <<<<>>>>
    ELSE LET before == parts[n - 1]
         IN IF s[n] = Colon THEN Append(before, <<>>)
            ELSE [before EXCEPT ![Len(before)] = Append(@, s[n])]]

LEMMA ExtendedParts ==
  ASSUME NEW S, NEW parts \in Seq(Seq(S)), parts # <<>>, NEW w \in S
  PROVE  LET l == Len(parts)
             after == Extended(parts, w)
         IN /\ after \in Seq(Seq(S))
            /\ l \in Nat \ {0}
            /\ after # <<>>
            /\ w = Colon => Len(after) = l + 1 /\ after[l + 1] = <<>>
            /\ w # Colon => Len(after) = l /\ after[l] = Append(parts[l], w)
            /\ \A i \in 1 .. l : i # l \/ w = Colon => after[i] = parts[i]
<1> DEFINE l == Len(parts)
<1>1. l \in Nat \ {0} /\ \A i \in 1 .. l : parts[i] \in Seq(S)
  BY LenProperties, EmptySeq, ElementOfSeq
<1>2. CASE w = Colon
  <2>1. <<>> \in Seq(S)
    OBVIOUS
  <2> DEFINE after == Append(parts, <<>>)
             T == Seq(S)
  <2> HIDE DEF T
  <2>2. parts \in Seq(T) /\ <<>> \in T
    BY <2>1 DEF T
  <2>3. after \in Seq(T) /\ Len(after) = l + 1 /\ after[l + 1] = <<>>
    BY <1>1, <2>2, AppendProperties
  <2>4. \A i \in 1 .. l : after[i] = parts[i]
    BY <1>1, <2>2, AppendProperties
  <2>5. after # <<>>
    BY <1>1, <2>3, EmptySeq
  <2>6. QED
    BY <1>1, <1>2, <2>3, <2>4, <2>5 DEF Extended, T
<1>3. CASE w # Colon
  <2>1. Append(parts[l], w) \in Seq(S)
    BY <1>1, AppendProperties
  <2> DEFINE last == Append(parts[l], w)
             after == [parts EXCEPT ![l] = last]
             T == Seq(S)
  <2> HIDE DEF T, last
  <2>2. parts \in Seq(T) /\ last \in T /\ l \in 1 .. Len(parts)
    BY <1>1, <2>1 DEF T, last
  <2>3. /\ after \in Seq(T)
        /\ Len(after) = l
        /\ \A i \in 1 .. l : after[i] = IF i = l THEN last ELSE parts[i]
    BY <2>2, ExceptSeq
  <2>4. after # <<>>
    BY <1>1, <2>3, EmptySeq
  <2>5. Extended(parts, w) = after
    BY <1>3 DEF Extended, last
  <2>6. after[l] = last
    BY <2>2, <2>3
  <2> HIDE DEF after
  <2>7. QED
    BY <1>1, <1>3, <2>3, <2>4, <2>5, <2>6 DEF T, last
<1>4. QED
  BY <1>2, <1>3

LEMMA SplitSteps ==
  ASSUME NEW S, NEW s \in Seq(S)
  PROVE  LET f == Parts(s)
         IN /\ Split(s) = f[Len(s)]
            /\ f[0] = <<<<>>>>
            /\ \A n \in 1 .. Len(s) : f[n] = Extended(f[n - 1], s[n])
            /\ \A n \in 0 .. Len(s) : f[n] \in Seq(Seq(S)) /\ f[n] # <<>>
<1> DEFINE l == Len(s)
           V == Seq(Seq(S)) \ {<<>>}
           step == [n \in 1 .. l |-> [before \in V |-> Extended(before, s[n])]]
           Steps(f) == [n \in 0 .. l |->
                          IF n = 0 THEN <<<<>>>>
                          ELSE LET before == f[n - 1]
                               IN IF s[n] = Colon THEN Append(before, <<>>)
                                  ELSE [before EXCEPT ![Len(before)] = Append(@, s[n])]]
<1>1. l \in Nat /\ \A n \in 1 .. l : s[n] \in S /\ n - 1 \in 0 .. l /\ n \in 0 .. l /\ n # 0
  BY LenProperties, ElementOfSeq
<1>2. ASSUME NEW n \in 1 .. l, NEW before \in V
      PROVE  Extended(before, s[n]) \in V
  <2>1. before \in Seq(Seq(S)) /\ before # <<>> /\ s[n] \in S
    BY <1>1
  <2> DEFINE w == s[n]
  <2>2. w \in S
    BY <2>1
  <2> HIDE DEF w
  <2>3. Extended(before, w) \in Seq(Seq(S)) /\ Extended(before, w) # <<>>
    BY <2>1, <2>2, ExtendedParts
  <2>4. QED
    BY <2>3 DEF w
<1>3. step \in [1 .. l -> [V -> V]]
  BY <1>2
<1>4. <<<<>>>> \in V
  OBVIOUS
<1>5. \E f \in [0 .. l -> V] : Recursive(f, l, <<<<>>>>, step)
  <2> DEFINE first == <<<<>>>>
  <2>1. l \in Nat /\ first \in V /\ step \in [1 .. l -> [V -> V]]
    BY <1>1, <1>3, <1>4
  <2> HIDE DEF step, V, first, l
  <2>2. \E f \in [0 .. l -> V] : Recursive(f, l, first, step)
    BY <2>1, RecursionUpTo
  <2>3. QED
    BY <2>2 DEF first
<1>6. PICK f \in [0 .. l -> V] : f[0] = <<<<>>>> /\ \A n \in 1 .. l : f[n] = step[n][f[n - 1]]
  BY <1>5 DEF Recursive
<1>7. \A n \in 1 .. l : f[n] = Extended(f[n - 1], s[n])
  BY <1>1, <1>6
<1>8. \A g, n : n \in 1 .. l => Steps(g)[n] = Extended(g[n - 1], s[n])
  BY <1>1 DEF Extended
<1>9. \A g : Steps(g)[0] = <<<<>>>>
  BY <1>1
<1>10. f = Steps(f)
  <2>1. \A n \in 0 .. l : f[n] = Steps(f)[n]
    <3> HIDE DEF Steps
    <3>1. \A n \in 0 .. l : n = 0 \/ n \in 1 .. l
      BY <1>1
    <3>2. QED
      BY <1>6, <1>7, <1>8, <1>9, <3>1
  <2>2. QED
    BY <2>1
<1> DEFINE g == Parts(s)
<1>11. g = Steps(g)
  BY <1>10 DEF Parts
<1>12. g[0] = <<<<>>>> /\ \A n \in 1 .. l : g[n] = Extended(g[n - 1], s[n])
  <2> HIDE DEF g, Steps
  <2>1. QED
    BY <1>8, <1>9, <1>11
<1>13. \A n \in 0 .. l : g[n] \in V
  <2> DEFINE T == {n \in 0 .. l : g[n] \in V}
  <2> HIDE DEF g, V
  <2>1. 0 \in T
    BY <1>1, <1>4, <1>12
  <2>2. ASSUME NEW n \in 0 .. l - 1, n \in T PROVE n + 1 \in T
    <3>1. n + 1 \in 1 .. l /\ n + 1 - 1 = n /\ n + 1 \in 0 .. l
      BY <1>1
    <3>2. QED
      BY <1>2, <1>12, <2>2, <3>1
  <2> HIDE DEF T
  <2>3. 0 .. l \subseteq T
    BY <1>1, <2>1, <2>2, InductionUpTo
  <2>4. QED
    BY <2>3 DEF T
<1>14. Split(s) = g[l]
  BY DEF Split, Parts
<1>15. QED
  BY <1>12, <1>13, <1>14

LEMMA ExtendedHasNoColon ==
  ASSUME NEW S, NEW parts \in Seq(Seq(S)), parts # <<>>, NEW w \in S,
         \A j \in 1 .. Len(parts) : ~HasColon(parts[j])
  PROVE  LET after == Extended(parts, w)
         IN \A j \in 1 .. Len(after) : ~HasColon(after[j])
<1> DEFINE l == Len(parts)
           after == Extended(parts, w)
<1>1. /\ l \in Nat \ {0}
      /\ w = Colon => Len(after) = l + 1 /\ after[l + 1] = <<>>
      /\ w # Colon => Len(after) = l /\ after[l] = Append(parts[l], w)
      /\ \A i \in 1 .. l : i # l \/ w = Colon => after[i] = parts[i]
  BY ExtendedParts
<1> HIDE DEF after
<1>2. ~HasColon(<<>>)
  BY DEF HasColon
<1>3. ASSUME w # Colon PROVE ~HasColon(Append(parts[l], w))
  <2> DEFINE part == parts[l]
  <2>1. part \in Seq(S) /\ ~HasColon(part)
    BY <1>1, ElementOfSeq
  <2> HIDE DEF part
  <2>2. /\ Append(part, w) \in Seq(S)
        /\ Len(part) \in Nat
        /\ Len(Append(part, w)) = Len(part) + 1
        /\ Append(part, w)[Len(part) + 1] = w
        /\ \A k \in 1 .. Len(part) : Append(part, w)[k] = part[k]
    BY <2>1, AppendProperties, LenProperties
  <2>3. DOMAIN part = 1 .. Len(part) /\ DOMAIN Append(part, w) = 1 .. Len(part) + 1
    BY <2>1, <2>2, LenProperties
  <2>4. \A k \in 1 .. Len(part) + 1 : k = Len(part) + 1 \/ k \in 1 .. Len(part)
    BY <2>2
  <2>5. QED
    BY <1>3, <2>1, <2>2, <2>3, <2>4 DEF HasColon, part
<1>4. \A j \in 1 .. l + 1 : j = l + 1 \/ j = l \/ (j \in 1 .. l /\ j # l)
  BY <1>1
<1> SUFFICES ASSUME NEW j \in 1 .. Len(after) PROVE ~HasColon(after[j])
  BY DEF after
<1>5. CASE w = Colon
  BY <1>1, <1>2, <1>4, <1>5
<1>6. CASE w # Colon
  BY <1>1, <1>3, <1>6
<1>7. QED
  BY <1>5, <1>6

(* No part has a colon in it.                                              *)
LEMMA SplitHasNoColon ==
  ASSUME NEW S, NEW s \in Seq(S), NEW j \in DOMAIN Split(s)
  PROVE  ~HasColon(Split(s)[j])
<1> DEFINE f == Parts(s)
           l == Len(s)
           T == {n \in 0 .. l : \A i \in 1 .. Len(f[n]) : ~HasColon(f[n][i])}
<1>1. /\ Split(s) = f[l]
      /\ f[0] = <<<<>>>>
      /\ \A n \in 1 .. l : f[n] = Extended(f[n - 1], s[n])
      /\ \A n \in 0 .. l : f[n] \in Seq(Seq(S)) /\ f[n] # <<>>
  BY SplitSteps
<1>2. l \in Nat /\ \A n \in 1 .. l : s[n] \in S
  BY LenProperties, ElementOfSeq
<1> HIDE DEF f, l
<1>3. 0 \in T
  <2>1. Len(f[0]) = 1 /\ f[0][1] = <<>>
    BY <1>1
  <2>2. QED
    BY <1>2, <2>1 DEF HasColon
<1>4. ASSUME NEW n \in 0 .. l - 1, n \in T PROVE n + 1 \in T
  <2> DEFINE parts == f[n]
             w == s[n + 1]
  <2>1. /\ n \in 0 .. l /\ n + 1 \in 1 .. l /\ n + 1 \in 0 .. l
        /\ n + 1 - 1 = n
    BY <1>2
  <2>2. f[n + 1] = Extended(parts, w)
    BY <1>1, <2>1
  <2>3. /\ parts \in Seq(Seq(S)) /\ parts # <<>> /\ w \in S
        /\ \A i \in 1 .. Len(parts) : ~HasColon(parts[i])
    BY <1>1, <1>2, <1>4, <2>1
  <2> HIDE DEF parts, w
  <2>4. \A i \in 1 .. Len(Extended(parts, w)) : ~HasColon(Extended(parts, w)[i])
    BY <2>3, ExtendedHasNoColon
  <2>5. QED
    BY <2>1, <2>2, <2>4
<1>5. l \in T
  <2> HIDE DEF T
  <2>1. 0 .. l \subseteq T
    BY <1>2, <1>3, <1>4, InductionUpTo
  <2>2. QED
    BY <1>2, <2>1
<1>6. DOMAIN f[l] = 1 .. Len(f[l])
  BY <1>1, <1>2, LenProperties
<1>7. QED
  BY <1>1, <1>5, <1>6

(* The string w stands at a in s, between colons or the ends of s.         *)
IsPart(s, w, a) ==
  /\ a \in Nat /\ a + Len(w) <= Len(s)
  /\ a = 0 \/ s[a] = Colon
  /\ a + Len(w) = Len(s) \/ s[a + Len(w) + 1] = Colon
  /\ \A k \in 1 .. Len(w) : w[k] # Colon /\ s[a + k] = w[k]

(* Splitting finds it there.                                               *)
LEMMA SplitFindsPart ==
  ASSUME NEW S, NEW s \in Seq(S), NEW w \in Seq(S), NEW a, IsPart(s, w, a)
  PROVE  \E j \in DOMAIN Split(s) : Split(s)[j] = w
<1> DEFINE f == Parts(s)
           l == Len(s)
           m == Len(w)
           last(n) == f[n][Len(f[n])]
<1>1. /\ Split(s) = f[l]
      /\ f[0] = <<<<>>>>
      /\ \A n \in 1 .. l : f[n] = Extended(f[n - 1], s[n])
      /\ \A n \in 0 .. l : f[n] \in Seq(Seq(S)) /\ f[n] # <<>>
  BY SplitSteps
<1>2. /\ l \in Nat /\ m \in Nat /\ a \in Nat /\ a + m <= l
      /\ \A n \in 1 .. l : s[n] \in S
      /\ \A k \in 1 .. m : w[k] # Colon /\ s[a + k] = w[k]
      /\ a = 0 \/ s[a] = Colon
      /\ a + m = l \/ s[a + m + 1] = Colon
  BY LenProperties, ElementOfSeq DEF IsPart
<1> HIDE DEF f
<1>3. ASSUME NEW n \in 0 .. l - 1
      PROVE  LET k == Len(f[n])
             IN /\ k \in Nat \ {0}
                /\ s[n + 1] = Colon => Len(f[n + 1]) = k + 1 /\ f[n + 1][k + 1] = <<>>
                /\ s[n + 1] # Colon => Len(f[n + 1]) = k /\ f[n + 1][k] = Append(f[n][k], s[n + 1])
                /\ \A i \in 1 .. k : i # k \/ s[n + 1] = Colon => f[n + 1][i] = f[n][i]
  <2>1. n + 1 \in 1 .. l /\ n + 1 - 1 = n /\ n \in 0 .. l
    BY <1>2
  <2>2. f[n + 1] = Extended(f[n], s[n + 1])
    BY <1>1, <2>1
  <2> DEFINE before == f[n]
             c == s[n + 1]
  <2>3. before \in Seq(Seq(S)) /\ before # <<>> /\ c \in S
    BY <1>1, <1>2, <2>1
  <2>4. LET k == Len(before)
            after == Extended(before, c)
        IN /\ k \in Nat \ {0}
           /\ c = Colon => Len(after) = k + 1 /\ after[k + 1] = <<>>
           /\ c # Colon => Len(after) = k /\ after[k] = Append(before[k], c)
           /\ \A i \in 1 .. k : i # k \/ c = Colon => after[i] = before[i]
    <3> HIDE DEF before, c
    <3> DEFINE k == Len(before)
               after == Extended(before, c)
    <3>1. k \in Nat \ {0}
      BY <2>3, ExtendedParts
    <3>2. c = Colon => Len(after) = k + 1 /\ after[k + 1] = <<>>
      BY <2>3, ExtendedParts
    <3>3. c # Colon => Len(after) = k /\ after[k] = Append(before[k], c)
      BY <2>3, ExtendedParts
    <3>4. \A i \in 1 .. k : i # k \/ c = Colon => after[i] = before[i]
      BY <2>3, ExtendedParts
    <3>5. QED
      BY <3>1, <3>2, <3>3, <3>4
  <2>5. QED
    BY <2>2, <2>4
<1>4. \A n \in 0 .. l : Len(f[n]) \in Nat \ {0} /\ last(n) \in Seq(S)
  <2> SUFFICES ASSUME NEW n \in 0 .. l PROVE Len(f[n]) \in Nat \ {0} /\ last(n) \in Seq(S)
    OBVIOUS
  <2>1. f[n] \in Seq(Seq(S)) /\ f[n] # <<>>
    BY <1>1
  <2>2. Len(f[n]) \in Nat \ {0}
    BY <2>1, EmptySeq
  <2>3. Len(f[n]) \in 1 .. Len(f[n])
    BY <2>2
  <2>4. QED
    BY <2>1, <2>2, <2>3, ElementOfSeq
<1>5. last(a) = <<>>
  <2>1. CASE a = 0
    BY <1>1, <2>1
  <2>2. CASE a # 0
    <3>1. a - 1 \in 0 .. l - 1 /\ a - 1 + 1 = a /\ s[a] = Colon
      BY <1>2, <2>2
    <3>2. PICK n \in 0 .. l - 1 : n + 1 = a
      BY <3>1
    <3>3. Len(f[a]) = Len(f[n]) + 1 /\ f[a][Len(f[n]) + 1] = <<>>
      BY <1>3, <3>1, <3>2
    <3>4. QED
      BY <3>3
  <2>3. QED
    BY <2>1, <2>2
<1>6. last(a + m) = w
  <2> DEFINE T == {k \in 0 .. m : /\ Len(last(a + k)) = k
                                  /\ \A i \in 1 .. k : last(a + k)[i] = w[i]}
  <2>1. 0 \in T
    <3>1. a + 0 = a /\ 0 \in 0 .. m /\ 1 .. 0 = {}
      BY <1>2
    <3>2. QED
      BY <1>5, <3>1
  <2>2. ASSUME NEW k \in 0 .. m - 1, k \in T PROVE k + 1 \in T
    <3>1. /\ a + k \in 0 .. l - 1 /\ a + k + 1 = a + (k + 1) /\ k + 1 \in 1 .. m
          /\ k + 1 \in 0 .. m /\ a + k \in 0 .. l
      BY <1>2
    <3>2. s[a + k + 1] = w[k + 1] /\ w[k + 1] # Colon /\ w[k + 1] \in S
      BY <1>2, <3>1, ElementOfSeq
    <3>3. last(a + (k + 1)) = Append(last(a + k), w[k + 1])
      BY <1>3, <3>1, <3>2
    <3>4. last(a + k) \in Seq(S) /\ Len(last(a + k)) = k
      BY <1>4, <2>2, <3>1
    <3> DEFINE before == last(a + k)
               c == w[k + 1]
    <3> HIDE DEF last
    <3>5. /\ Len(Append(before, c)) = k + 1
          /\ Append(before, c)[k + 1] = c
          /\ \A i \in 1 .. k : Append(before, c)[i] = before[i]
      <4>1. before \in Seq(S) /\ c \in S /\ Len(before) = k
        BY <3>2, <3>4
      <4> HIDE DEF before, c
      <4>2. QED
        BY <4>1, AppendProperties
    <3>6. \A i \in 1 .. k + 1 : i = k + 1 \/ i \in 1 .. k
      OBVIOUS
    <3>7. QED
      BY <2>2, <3>1, <3>3, <3>5, <3>6
  <2>3. m \in T
    <3> HIDE DEF T
    <3>1. 0 .. m \subseteq T
      BY <1>2, <2>1, <2>2, InductionUpTo
    <3>2. QED
      BY <1>2, <3>1
  <2>4. a + m \in 0 .. l
    BY <1>2
  <2>5. last(a + m) \in Seq(S)
    BY <1>4, <2>4
  <2> HIDE DEF last
  <2>6. QED
    BY <2>3, <2>5, SeqEqual
<1> DEFINE j == Len(f[a + m])
<1>7. j \in Nat \ {0} /\ f[a + m][j] = w
  BY <1>2, <1>4, <1>6
<1> HIDE DEF last, j
<1>8. f[l][j] = w /\ Len(f[l]) >= j
  <2> DEFINE T == {n \in 0 .. l - (a + m) :
                     /\ f[a + m + n][j] = w
                     /\ Len(f[a + m + n]) >= j
                     /\ n # 0 => Len(f[a + m + n]) > j}
  <2>1. 0 \in T
    <3>1. a + m + 0 = a + m /\ 0 \in 0 .. l - (a + m)
      BY <1>2
    <3>2. Len(f[a + m]) = j
      BY DEF j
    <3>3. QED
      BY <1>7, <3>1, <3>2
  <2>2. ASSUME NEW n \in 0 .. l - (a + m) - 1, n \in T PROVE n + 1 \in T
    <3> DEFINE i == a + m + n
    <3>1. i \in 0 .. l - 1 /\ i + 1 = a + m + (n + 1) /\ n + 1 \in 0 .. l - (a + m)
      BY <1>2
    <3>2. s[i + 1] = Colon \/ n # 0
      <4>1. CASE n = 0
        BY <1>2, <4>1
      <4>2. QED
        BY <4>1
    <3>3. f[i][j] = w /\ Len(f[i]) >= j /\ (n # 0 => Len(f[i]) > j)
      BY <2>2
    <3> HIDE DEF i
    <3>4. /\ Len(f[i]) \in Nat \ {0}
          /\ Len(f[i + 1]) = IF s[i + 1] = Colon THEN Len(f[i]) + 1 ELSE Len(f[i])
          /\ \A h \in 1 .. Len(f[i]) : h # Len(f[i]) \/ s[i + 1] = Colon => f[i + 1][h] = f[i][h]
      BY <1>3, <3>1
    <3>5. f[i + 1][j] = w
      BY <1>7, <3>2, <3>3, <3>4
    <3>6. Len(f[i + 1]) > j
      BY <1>7, <3>2, <3>3, <3>4
    <3>7. QED
      BY <3>1, <3>5, <3>6, <1>7, <3>4
  <2>3. l - (a + m) \in T
    <3> HIDE DEF T
    <3>1. l - (a + m) \in Nat
      BY <1>2
    <3>2. 0 .. l - (a + m) \subseteq T
      BY <2>1, <2>2, <3>1, InductionUpTo
    <3>3. QED
      BY <3>1, <3>2
  <2>4. a + m + (l - (a + m)) = l
    BY <1>2
  <2>5. QED
    BY <2>3, <2>4
<1>9. j \in DOMAIN f[l]
  <2>1. f[l] \in Seq(Seq(S)) /\ Len(f[l]) \in Nat
    BY <1>1, <1>2, <1>4
  <2>2. DOMAIN f[l] = 1 .. Len(f[l])
    BY <2>1, LenProperties
  <2>3. QED
    BY <1>7, <1>8, <2>1, <2>2
<1>10. QED
  BY <1>1, <1>8, <1>9

(* A part that ends a string is one, and it stays a part of a longer string.*)
LEMMA PartAdded ==
  ASSUME NEW S, Colon \in S, NEW s \in Seq(S), NEW t \in Seq(S)
  PROVE  LET st == s \o <<Colon>> \o t
         IN /\ st \in Seq(S)
            /\ (\A k \in 1 .. Len(t) : t[k] # Colon) => IsPart(st, t, Len(s) + 1)
            /\ \A w \in Seq(S), a \in Nat : IsPart(s, w, a) => IsPart(st, w, a)
<1> DEFINE sc == s \o <<Colon>>
           st == sc \o t
<1>1. <<Colon>> \in Seq(S) /\ Len(<<Colon>>) = 1 /\ <<Colon>>[1] = Colon
  OBVIOUS
<1>2. Len(s) \in Nat /\ Len(t) \in Nat
  BY LenProperties
<1>3. sc \in Seq(S) /\ Len(sc) = Len(s) + 1 /\ sc[Len(s) + 1] = Colon
      /\ \A i \in 1 .. Len(s) : sc[i] = s[i]
  <2> DEFINE c == <<Colon>>
  <2>1. c \in Seq(S) /\ Len(c) = 1 /\ c[1] = Colon
    BY <1>1
  <2> HIDE DEF c
  <2>2. /\ s \o c \in Seq(S)
        /\ Len(s \o c) = Len(s) + 1
        /\ \A i \in 1 .. Len(s) + 1 : (s \o c)[i] = IF i <= Len(s) THEN s[i] ELSE c[i - Len(s)]
    BY <2>1, ConcatProperties
  <2>3. Len(s) + 1 \in 1 .. Len(s) + 1 /\ ~(Len(s) + 1 <= Len(s)) /\ Len(s) + 1 - Len(s) = 1
    BY <1>2
  <2>4. (s \o c)[Len(s) + 1] = Colon
    BY <2>1, <2>2, <2>3
  <2>5. \A i \in 1 .. Len(s) : (s \o c)[i] = s[i]
    BY <1>2, <2>2
  <2>6. QED
    BY <2>2, <2>4, <2>5 DEF c
<1> HIDE DEF sc
<1>4. /\ st \in Seq(S)
      /\ Len(st) = Len(s) + 1 + Len(t)
      /\ \A i \in 1 .. Len(s) + 1 + Len(t) :
           st[i] = IF i <= Len(s) + 1 THEN sc[i] ELSE t[i - (Len(s) + 1)]
  <2>1. /\ sc \o t \in Seq(S)
        /\ Len(sc \o t) = Len(sc) + Len(t)
        /\ \A i \in 1 .. Len(sc) + Len(t) :
             (sc \o t)[i] = IF i <= Len(sc) THEN sc[i] ELSE t[i - Len(sc)]
    <3>1. sc \in Seq(S) /\ t \in Seq(S)
      BY <1>3
    <3>2. QED
      BY <3>1, ConcatProperties
  <2>2. QED
    BY <1>3, <2>1
<1> HIDE DEF st
<1>5. /\ \A i \in 1 .. Len(s) : st[i] = s[i]
      /\ st[Len(s) + 1] = Colon
      /\ \A k \in 1 .. Len(t) : st[Len(s) + 1 + k] = t[k]
  <2>1. \A i \in 1 .. Len(s) : i \in 1 .. Len(s) + 1 + Len(t) /\ i <= Len(s) + 1
    BY <1>2
  <2>2. Len(s) + 1 \in 1 .. Len(s) + 1 + Len(t)
    BY <1>2
  <2>3. \A k \in 1 .. Len(t) : /\ Len(s) + 1 + k \in 1 .. Len(s) + 1 + Len(t)
                               /\ ~(Len(s) + 1 + k <= Len(s) + 1)
                               /\ Len(s) + 1 + k - (Len(s) + 1) = k
    BY <1>2
  <2>4. QED
    BY <1>2, <1>3, <1>4, <2>1, <2>2, <2>3
<1>6. ASSUME \A k \in 1 .. Len(t) : t[k] # Colon
      PROVE  IsPart(st, t, Len(s) + 1)
  BY <1>2, <1>4, <1>5, <1>6 DEF IsPart
<1>7. ASSUME NEW w \in Seq(S), NEW a \in Nat, IsPart(s, w, a)
      PROVE  IsPart(st, w, a)
  <2>1. Len(w) \in Nat /\ a + Len(w) <= Len(s) /\ a + Len(w) <= Len(st)
    BY <1>2, <1>4, <1>7, LenProperties DEF IsPart
  <2>2. a = 0 \/ st[a] = Colon
    <3>1. a = 0 \/ s[a] = Colon
      BY <1>7 DEF IsPart
    <3>2. a = 0 \/ a \in 1 .. Len(s)
      BY <1>2, <2>1
    <3>3. QED
      BY <1>5, <3>1, <3>2
  <2>3. st[a + Len(w) + 1] = Colon
    <3>1. CASE a + Len(w) = Len(s)
      BY <1>5, <3>1
    <3>2. CASE a + Len(w) # Len(s)
      <4>1. a + Len(w) + 1 \in 1 .. Len(s)
        BY <1>2, <2>1, <3>2
      <4>2. QED
        BY <1>5, <1>7, <3>2, <4>1 DEF IsPart
    <3>3. QED
      BY <3>1, <3>2
  <2>4. \A k \in 1 .. Len(w) : w[k] # Colon /\ st[a + k] = w[k]
    <3> SUFFICES ASSUME NEW k \in 1 .. Len(w) PROVE w[k] # Colon /\ st[a + k] = w[k]
      OBVIOUS
    <3>1. a + k \in 1 .. Len(s)
      BY <1>2, <2>1
    <3>2. QED
      BY <1>5, <1>7, <3>1 DEF IsPart
  <2>5. QED
    BY <2>1, <2>2, <2>3, <2>4 DEF IsPart
<1>8. QED
  BY <1>4, <1>6, <1>7 DEF st, sc

Prefixes(strings) ==
  CHOOSE joined : joined = [n \in 0 .. Len(strings) |->
    IF n = 0 THEN <<>>
    ELSE joined[n - 1] \o (IF n = 1 THEN <<>> ELSE <<Colon>>) \o strings[n]]

LEMMA JoinedSteps ==
  ASSUME NEW S, Colon \in S, NEW strings \in Seq(Seq(S))
  PROVE  LET f == Prefixes(strings)
         IN /\ Joined(strings) = f[Len(strings)]
            /\ strings # <<>> => f[1] = strings[1]
            /\ \A n \in 2 .. Len(strings) : f[n] = f[n - 1] \o <<Colon>> \o strings[n]
            /\ \A n \in 0 .. Len(strings) : f[n] \in Seq(S)
<1> DEFINE l == Len(strings)
           V == Seq(S)
           Added(n, before) == before \o (IF n = 1 THEN <<>> ELSE <<Colon>>) \o strings[n]
           step == [n \in 1 .. l |-> [before \in V |-> Added(n, before)]]
           Steps(f) == [n \in 0 .. l |->
                          IF n = 0 THEN <<>>
                          ELSE f[n - 1] \o (IF n = 1 THEN <<>> ELSE <<Colon>>) \o strings[n]]
<1>1. l \in Nat /\ \A n \in 1 .. l : strings[n] \in V /\ n - 1 \in 0 .. l /\ n \in 0 .. l /\ n # 0
  <2> HIDE DEF V
  <2>1. strings \in Seq(V)
    BY DEF V
  <2>2. QED
    BY <2>1, LenProperties, ElementOfSeq
<1>2. ASSUME NEW n \in 1 .. l, NEW before \in V
      PROVE  Added(n, before) \in V
  <2> DEFINE colon == IF n = 1 THEN <<>> ELSE <<Colon>>
  <2>1. colon \in V
    OBVIOUS
  <2> HIDE DEF colon
  <2>2. before \o colon \in V
    BY <2>1, ConcatProperties
  <2>3. (before \o colon) \o strings[n] \in V
    BY <1>1, <2>2, ConcatProperties
  <2>4. QED
    BY <2>3 DEF colon
<1>3. step \in [1 .. l -> [V -> V]]
  <2> HIDE DEF Added
  <2>1. QED
    BY <1>2
<1>4. <<>> \in V
  OBVIOUS
<1>5. \E f \in [0 .. l -> V] : Recursive(f, l, <<>>, step)
  <2> DEFINE first == <<>>
  <2>1. l \in Nat /\ first \in V /\ step \in [1 .. l -> [V -> V]]
    BY <1>1, <1>3, <1>4
  <2> HIDE DEF step, V, first, l
  <2>2. \E f \in [0 .. l -> V] : Recursive(f, l, first, step)
    BY <2>1, RecursionUpTo
  <2>3. QED
    BY <2>2 DEF first
<1>6. PICK f \in [0 .. l -> V] : f[0] = <<>> /\ \A n \in 1 .. l : f[n] = step[n][f[n - 1]]
  BY <1>5 DEF Recursive
<1>7. \A n \in 1 .. l : f[n] = Added(n, f[n - 1])
  <2> HIDE DEF Added
  <2>1. QED
    BY <1>1, <1>6
<1>8. \A g, n : n \in 1 .. l => Steps(g)[n] = Added(n, g[n - 1])
  BY <1>1
<1>9. \A g : Steps(g)[0] = <<>>
  BY <1>1
<1>10. f = Steps(f)
  <2>1. \A n \in 0 .. l : f[n] = Steps(f)[n]
    <3> HIDE DEF Steps, Added
    <3>1. \A n \in 0 .. l : n = 0 \/ n \in 1 .. l
      BY <1>1
    <3>2. QED
      BY <1>6, <1>7, <1>8, <1>9, <3>1
  <2>2. QED
    BY <2>1
<1> DEFINE g == Prefixes(strings)
<1>11. g = Steps(g)
  BY <1>10 DEF Prefixes
<1>12. g[0] = <<>> /\ \A n \in 1 .. l : g[n] = Added(n, g[n - 1])
  <2> HIDE DEF g, Steps, Added
  <2>1. QED
    BY <1>8, <1>9, <1>11
<1>13. \A n \in 0 .. l : g[n] \in V
  <2> DEFINE T == {n \in 0 .. l : g[n] \in V}
  <2> HIDE DEF g, V, Added
  <2>1. 0 \in T
    BY <1>1, <1>4, <1>12
  <2>2. ASSUME NEW n \in 0 .. l - 1, n \in T PROVE n + 1 \in T
    <3>1. n + 1 \in 1 .. l /\ n + 1 - 1 = n /\ n + 1 \in 0 .. l
      BY <1>1
    <3>2. QED
      BY <1>2, <1>12, <2>2, <3>1
  <2> HIDE DEF T
  <2>3. 0 .. l \subseteq T
    BY <1>1, <2>1, <2>2, InductionUpTo
  <2>4. QED
    BY <2>3 DEF T
<1>14. Joined(strings) = g[l]
  BY DEF Joined, Prefixes
<1>15. strings # <<>> => g[1] = strings[1]
  <2> SUFFICES ASSUME strings # <<>> PROVE g[1] = strings[1]
    OBVIOUS
  <2> HIDE DEF g
  <2>1. 1 \in 1 .. l /\ 1 - 1 = 0
    BY <1>1, EmptySeq
  <2>2. g[1] = <<>> \o <<>> \o strings[1]
    BY <1>12, <2>1
  <2>3. <<>> \o <<>> = <<>>
    OBVIOUS
  <2>4. QED
    BY <1>1, <2>1, <2>2, <2>3, ConcatEmptySeq
<1>16. \A n \in 2 .. l : g[n] = g[n - 1] \o <<Colon>> \o strings[n]
  <2> HIDE DEF g
  <2>1. \A n \in 2 .. l : n \in 1 .. l /\ n # 1
    OBVIOUS
  <2>2. QED
    BY <1>12, <2>1
<1>17. QED
  BY <1>13, <1>14, <1>15, <1>16

(* Each string without a colon is a part of what they are joined to.       *)
LEMMA JoinedHasParts ==
  ASSUME NEW S, Colon \in S, NEW strings \in Seq(Seq(S)), NEW i \in DOMAIN strings,
         \A k \in 1 .. Len(strings[i]) : strings[i][k] # Colon
  PROVE  /\ Joined(strings) \in Seq(S)
         /\ \E a \in Nat : IsPart(Joined(strings), strings[i], a)
<1> DEFINE f == Prefixes(strings)
           l == Len(strings)
           w == strings[i]
<1>1. /\ l \in Nat /\ i \in 1 .. l
      /\ \A n \in 1 .. l : strings[n] \in Seq(S)
  <2> DEFINE V == Seq(S)
  <2>1. strings \in Seq(V) /\ i \in DOMAIN strings
    OBVIOUS
  <2> HIDE DEF V
  <2>2. l \in Nat /\ DOMAIN strings = 1 .. l /\ \A n \in 1 .. l : strings[n] \in V
    BY <2>1, LenProperties, ElementOfSeq
  <2>3. QED
    BY <2>1, <2>2 DEF V
<1>2. strings # <<>>
  BY <1>1
<1>3. /\ Joined(strings) = f[l]
      /\ f[1] = strings[1]
      /\ \A n \in 2 .. l : f[n] = f[n - 1] \o <<Colon>> \o strings[n]
      /\ \A n \in 0 .. l : f[n] \in Seq(S)
  BY <1>2, JoinedSteps
<1> HIDE DEF f
<1>4. w \in Seq(S) /\ Len(w) \in Nat
  BY <1>1, LenProperties
<1>5. \E a \in Nat : IsPart(f[i], w, a)
  <2>1. CASE i = 1
    <3>1. IsPart(w, w, 0)
      BY <1>4 DEF IsPart
    <3>2. QED
      BY <1>3, <2>1, <3>1
  <2>2. CASE i # 1
    <3>1. i \in 2 .. l /\ i - 1 \in 0 .. l
      BY <1>1, <2>2
    <3> DEFINE s == f[i - 1]
    <3>2. s \in Seq(S) /\ f[i] = s \o <<Colon>> \o w
      BY <1>3, <3>1
    <3> HIDE DEF s, w
    <3>3. IsPart(s \o <<Colon>> \o w, w, Len(s) + 1)
      BY <1>4, <3>2, PartAdded DEF w
    <3>4. Len(s) + 1 \in Nat
      BY <3>2, LenProperties
    <3>5. QED
      BY <3>2, <3>3, <3>4
  <2>3. QED
    BY <2>1, <2>2
<1>6. PICK a \in Nat : IsPart(f[i], w, a)
  BY <1>5
<1>7. IsPart(f[l], w, a)
  <2> DEFINE T == {n \in 0 .. l - i : IsPart(f[i + n], w, a)}
  <2>1. 0 \in T
    <3>1. i + 0 = i /\ 0 \in 0 .. l - i
      BY <1>1
    <3>2. QED
      BY <1>6, <3>1
  <2>2. ASSUME NEW n \in 0 .. l - i - 1, n \in T PROVE n + 1 \in T
    <3> DEFINE m == i + n + 1
    <3>1. /\ m \in 2 .. l /\ m \in 1 .. l /\ m - 1 = i + n /\ m - 1 \in 0 .. l
          /\ m = i + (n + 1) /\ n + 1 \in 0 .. l - i
      <4>1. l \in Int /\ i \in Int /\ 1 <= i /\ i <= l /\ n \in Int /\ 0 <= n /\ n <= l - i - 1
        BY <1>1
      <4> HIDE DEF l
      <4>2. m \in Int /\ 2 <= m /\ m <= l
        BY <4>1
      <4>3. m - 1 = i + n /\ m = i + (n + 1)
        BY <4>1
      <4>4. n + 1 \in 0 .. l - i
        BY <4>1
      <4>5. QED
        BY <4>1, <4>2, <4>3, <4>4
    <3> HIDE DEF m
    <3> DEFINE s == f[m - 1]
               t == strings[m]
    <3>2. f[m] = s \o <<Colon>> \o t /\ s \in Seq(S) /\ t \in Seq(S)
      BY <1>1, <1>3, <3>1
    <3>3. IsPart(s, w, a)
      BY <2>2, <3>1
    <3> HIDE DEF s, t, w
    <3>4. IsPart(s \o <<Colon>> \o t, w, a)
      BY <1>4, <3>2, <3>3, PartAdded
    <3>5. IsPart(f[i + (n + 1)], w, a)
      <4>1. f[m] = f[i + (n + 1)]
        BY <3>1
      <4>2. QED
        BY <3>2, <3>4, <4>1
    <3>6. QED
      BY <3>1, <3>5
  <2>3. l - i \in T
    <3> HIDE DEF T
    <3>1. l - i \in Nat
      BY <1>1
    <3>2. 0 .. l - i \subseteq T
      BY <2>1, <2>2, <3>1, InductionUpTo
    <3>3. QED
      BY <3>1, <3>2
  <2>4. i + (l - i) = l
    BY <1>1
  <2>5. QED
    BY <2>3, <2>4
<1>8. l \in 0 .. l
  BY <1>1
<1>9. QED
  BY <1>3, <1>7, <1>8

-----------------------------------------------------------------------------
(* What a utility is executed with                                         *)

(* The path is that of the command's name, which can be converted, as it is*)
(* or in a directory of $PATH.                                             *)
LEMMA SearchFindsName ==
  ASSUME NEW files \in FileSystem, NEW variables, NEW name,
         NEW target \in Search(files, variables, name), target.tag = "External"
  PROVE  /\ target.path.name = name
         /\ name \notin Nul
         /\ name \notin Slash =>
              /\ "PATH" \in DOMAIN variables
              /\ target.path.dir \in String
              /\ LET dirs == Directories(variables["PATH"].value)
                 IN \E i \in DOMAIN dirs : target.path.dir = dirs[i]
<1>1. CASE name \in Slash
  <2>1. PICK n \in {name} \ Nul : target = External([dir |-> <<>>, name |-> n])
    BY <1>1 DEF Search
  <2>2. QED
    BY <1>1, <2>1 DEF External
<1>2. CASE name \notin Slash
  <2> DEFINE candidates == Candidates(variables, name)
  <2>1. PICK path \in SearchPath(files, candidates) : target = External(path)
    BY <1>2 DEF Search, Builtin, FunctionTarget
  <2>2. target.path = path
    BY <2>1 DEF External
  <2>3. PICK i \in DOMAIN candidates : path = candidates[i] /\ IsCandidate(files, path)
    BY <2>1 DEF SearchPath
  <2>4. "PATH" \in DOMAIN variables
    <3>1. DOMAIN <<>> = {}
      OBVIOUS
    <3>2. QED
      BY <2>3, <3>1 DEF Candidates
  <2> DEFINE dirs == Directories(variables["PATH"].value)
  <2>5. i \in DOMAIN dirs /\ path = [dir |-> dirs[i], name |-> name]
    BY <2>3, <2>4 DEF Candidates
  <2>6. path.dir = dirs[i] /\ path.name = name
    BY <2>5
  <2>7. path \in Path
    BY <2>3 DEF IsCandidate, IsExecutableFile, FileSystem
  <2>8. path.dir \in String
    BY <2>7, FileAssumption
  <2>9. name \notin Nul
    <3>1. IsCString(Append(path.dir, name))
      BY <2>3, <2>6 DEF IsCandidate
    <3>2. LET s == Append(path.dir, name)
          IN Len(path.dir) + 1 \in DOMAIN s /\ s[Len(path.dir) + 1] = name
      <4> DEFINE d == path.dir
                 S == Word \cup {Colon}
                 T == S \cup {name}
      <4>0. d \in Seq(S)
        BY <2>8 DEF String
      <4>1. d \in Seq(T) /\ name \in T
        <5> HIDE DEF d, S
        <5> QED
          BY <4>0, SeqMonotonic
      <4> HIDE DEF d, T
      <4>2. Append(d, name) \in Seq(T) /\ Len(Append(d, name)) = Len(d) + 1
            /\ Append(d, name)[Len(d) + 1] = name
        BY <4>1, AppendProperties
      <4>3. Len(d) \in Nat /\ DOMAIN Append(d, name) = 1 .. Len(d) + 1
        BY <4>1, <4>2, LenProperties
      <4>4. Len(d) + 1 \in DOMAIN Append(d, name)
        BY <4>3
      <4>5. QED
        BY <4>2, <4>4 DEF d
    <3>3. QED
      BY <3>1, <3>2 DEF IsCString
  <2>10. QED
    BY <1>2, <2>2, <2>4, <2>5, <2>6, <2>8, <2>9
<1>3. QED
  BY <1>1, <1>2

(* Splitting the string of $PATH that a utility gets finds a directory that*)
(* splitting the value has found exactly if there is no colon in it.       *)
LEMMA PathIsSplitAgain ==
  ASSUME NEW v \in Variable, NEW i \in DOMAIN Directories(v.value),
         ~HasColon(Directories(v.value)[i])
  PROVE  LET s == EnvString(v.value)
         IN \E j \in DOMAIN Split(s) : Split(s)[j] = Directories(v.value)[i]
<1>1. CASE v.value.tag = "Scalar"
  BY <1>1 DEF Directories, EnvString
<1>2. CASE v.value.tag # "Scalar"
  <2> DEFINE S == Word \cup {Colon}
             strings == v.value.values
             w == strings[i]
  <2>1. strings \in Seq(Seq(S))
    BY <1>2, VariableAssumption DEF String
  <2>2. i \in DOMAIN strings /\ ~HasColon(w)
    BY <1>2 DEF Directories
  <2>3. w \in Seq(S)
    <3> DEFINE V == Seq(S)
    <3>1. strings \in Seq(V)
      BY <2>1
    <3> HIDE DEF V, strings
    <3>2. strings[i] \in V
      BY <2>2, <3>1, LenProperties, ElementOfSeq
    <3>3. QED
      BY <3>2 DEF V
  <2>4. Colon \in S
    OBVIOUS
  <2>5. \A k \in 1 .. Len(w) : w[k] # Colon
    <3> HIDE DEF w, S
    <3>1. DOMAIN w = 1 .. Len(w)
      BY <2>3, LenProperties
    <3>2. QED
      BY <2>2, <3>1 DEF HasColon
  <2>6. Joined(strings) \in Seq(S) /\ \E a \in Nat : IsPart(Joined(strings), w, a)
    <3> HIDE DEF S, strings
    <3>1. QED
      BY <2>1, <2>2, <2>4, <2>5, JoinedHasParts
  <2>7. \E j \in DOMAIN Split(Joined(strings)) : Split(Joined(strings))[j] = w
    <3> DEFINE s == Joined(strings)
    <3>1. s \in Seq(S) /\ \E a \in Nat : IsPart(s, w, a)
      BY <2>6
    <3> HIDE DEF S, strings, w, s
    <3>2. \E j \in DOMAIN Split(s) : Split(s)[j] = w
      BY <2>3, <3>1, SplitFindsPart
    <3>3. QED
      BY <3>2 DEF s
  <2>8. QED
    BY <1>2, <2>7 DEF Directories, EnvString
<1>3. QED
  BY <1>1, <1>2

LEMMA EnvStringType ==
  ASSUME NEW v \in Variable
  PROVE  EnvString(v.value) \in String
<1>1. CASE v.value.tag = "Scalar"
  BY <1>1, VariableAssumption DEF EnvString
<1>2. CASE v.value.tag # "Scalar"
  <2> DEFINE S == Word \cup {Colon}
             strings == v.value.values
             f == Prefixes(strings)
  <2>1. strings \in Seq(Seq(S)) /\ Colon \in S
    BY <1>2, VariableAssumption DEF String
  <2>2. Len(strings) \in 0 .. Len(strings)
    BY <2>1, LenProperties
  <2> HIDE DEF S, strings
  <2>3. Joined(strings) \in Seq(S)
    BY <2>1, <2>2, JoinedSteps
  <2>4. QED
    BY <1>2, <2>3 DEF EnvString, String, S, strings
<1>3. QED
  BY <1>1, <1>2

(* What the closure of a child has captured                                *)
NameFirst(t) == t.args # <<>> /\ t.args[1] = t.path.name

OnItsPath(t) ==
  \A s \in t.envs : s.name = "PATH" /\ t.path.name \notin Slash =>
    ((\E i \in DOMAIN Split(s.value) : Split(s.value)[i] = t.path.dir)
       <=> ~HasColon(t.path.dir))

TasksCaptured ==
  \A c \in Pid : task[c] = Nothing \/ (NameFirst(task[c]) /\ OnItsPath(task[c]))

LEMMA ClosureIsCaptured ==
  ASSUME ShellTypeOK, NEW p \in Pid, NEW fields \in Command,
         NEW target \in Search(fileSystem, env[p].variables, fields[1]),
         target.tag = "External"
  PROVE  LET t == Closure(p, target.path, fields) IN NameFirst(t) /\ OnItsPath(t)
<1> DEFINE t == Closure(p, target.path, fields)
           name == fields[1]
           variables == env[p].variables
           path == target.path
<1>1. fields \in Seq(Word) /\ fields # <<>>
  BY CommandAssumption
<1>2. fileSystem \in FileSystem /\ variables \in VariableSet
  BY DEF ShellTypeOK, Env
<1>3. /\ path.name = name
      /\ name \notin Nul
      /\ name \notin Slash =>
           /\ "PATH" \in DOMAIN variables
           /\ \E i \in DOMAIN Directories(variables["PATH"].value) :
                path.dir = Directories(variables["PATH"].value)[i]
  BY <1>2, SearchFindsName
<1>4. /\ t.path = path
      /\ t.args = ToCStrings(fields)
      /\ t.envs = EnvCStrings(variables)
  BY DEF Closure
<1>5. ToCStrings(fields) # <<>> /\ ToCStrings(fields)[1] = name
  BY <1>1, <1>3, FirstIsConverted
<1> HIDE DEF t, variables, name, path
<1>6. NameFirst(t)
  BY <1>3, <1>4, <1>5 DEF NameFirst
<1>7. OnItsPath(t)
  <2> SUFFICES ASSUME NEW s \in EnvCStrings(variables), s.name = "PATH", name \notin Slash
               PROVE  (\E i \in DOMAIN Split(s.value) : Split(s.value)[i] = path.dir)
                        <=> ~HasColon(path.dir)
    BY <1>3, <1>4 DEF OnItsPath
  <2>1. s.value = EnvString(variables["PATH"].value)
    BY DEF EnvCStrings
  <2>2. variables["PATH"] \in Variable
    BY <1>2, <1>3 DEF VariableSet
  <2>3. PICK i \in DOMAIN Directories(variables["PATH"].value) :
          path.dir = Directories(variables["PATH"].value)[i]
    BY <1>3
  <2> DEFINE v == variables["PATH"]
  <2>4. v \in Variable /\ i \in DOMAIN Directories(v.value)
    BY <2>2, <2>3
  <2>5. ASSUME ~HasColon(Directories(v.value)[i])
        PROVE  \E j \in DOMAIN Split(EnvString(v.value)) :
          Split(EnvString(v.value))[j] = Directories(v.value)[i]
    <3> HIDE DEF v
    <3>1. QED
      BY <2>4, <2>5, PathIsSplitAgain
  <2>6. EnvString(v.value) \in String
    <3> HIDE DEF v
    <3>1. QED
      BY <2>4, EnvStringType
  <2>7. ASSUME NEW j \in DOMAIN Split(EnvString(v.value))
        PROVE  ~HasColon(Split(EnvString(v.value))[j])
    <3> DEFINE S == Word \cup {Colon}
               e == EnvString(v.value)
    <3>1. e \in Seq(S) /\ j \in DOMAIN Split(e)
      BY <2>6, <2>7 DEF String
    <3> HIDE DEF S, e
    <3>2. ~HasColon(Split(e)[j])
      BY <3>1, SplitHasNoColon
    <3>3. QED
      BY <3>2 DEF e
  <2>8. QED
    BY <2>1, <2>3, <2>5, <2>7
<1>8. QED
  BY <1>6, <1>7 DEF t, path

LEMMA TasksCapturedStep ==
  ASSUME TasksCaptured, ShellInv, TypeOK, [ShellNext]_shellVars
  PROVE  TasksCaptured'
<1>1. ASSUME UNCHANGED task PROVE TasksCaptured'
  BY <1>1 DEF TasksCaptured
<1>2. ASSUME NEW p \in Pid, NEW fields \in Command,
             NEW target \in Search(fileSystem, env[p].variables, fields[1]),
             RunUtility(p, target, fields)
      PROVE  TasksCaptured'
  <2>1. target.tag = "External"
    BY <1>2 DEF RunUtility
  <2> DEFINE t == Closure(p, target.path, fields)
  <2>2. NameFirst(t) /\ OnItsPath(t)
    BY <2>1, ClosureIsCaptured DEF ShellInv
  <2>3. UNCHANGED task \/ \E c \in Pid : task' = [task EXCEPT ![c] = t]
    BY <1>2, RunUtilityCases
  <2>4. ASSUME NEW c \in Pid, task' = [task EXCEPT ![c] = t]
        PROVE  TasksCaptured'
    <3> HIDE DEF t
    <3>1. task'[c] = t /\ \A d \in Pid \ {c} : task'[d] = task[d]
      BY <2>4 DEF ShellInv, ShellTypeOK
    <3> SUFFICES ASSUME NEW d \in Pid
                 PROVE  task'[d] = Nothing \/ (NameFirst(task'[d]) /\ OnItsPath(task'[d]))
      BY DEF TasksCaptured
    <3>2. CASE d = c
      BY <2>2, <3>1, <3>2
    <3>3. CASE d # c
      BY <3>1, <3>3 DEF TasksCaptured
    <3>4. QED
      BY <3>2, <3>3
  <2>5. QED
    BY <1>1, <2>3, <2>4
<1>3. ASSUME NEW p \in Pid, Execute(p) PROVE TasksCaptured'
  BY <1>1, <1>2, <1>3, ExecuteCases
<1>4. ASSUME NEW p \in Pid, ExecuteTask(p) \/ Wait(p) \/ End(p) \/ Kept PROVE UNCHANGED task
  BY <1>4 DEF ExecuteTask, Wait, End, Kept
<1>5. CASE Save \/ UNCHANGED shellVars
  BY <1>1, <1>5 DEF Save, shellVars
<1>6. QED
  BY <1>1, <1>3, <1>4, <1>5 DEF ShellNext

LEMMA TasksCapturedAlways ==
  ASSUME Api \subseteq CommandApi
  PROVE  ShellSpec => [](TasksCaptured /\ ShellInv)
<1>1. ShellInit => TasksCaptured
  <2> SUFFICES ASSUME ShellInit, NEW c \in Pid PROVE task[c] = Nothing
    BY DEF TasksCaptured
  <2> QED
    BY DEF ShellInit
<1>2. TasksCaptured /\ ShellInv /\ TypeOK /\ [ShellNext]_shellVars => TasksCaptured'
  BY TasksCapturedStep
<1>3. QED
  BY <1>1, <1>2, ShellInvAlways, PTL DEF ShellSpec

LEMMA LastExecIsTask ==
  ASSUME ShellInv, TasksCaptured, NEW p \in Pid, lastExec[p] # Nothing
  PROVE  NameFirst(lastExec[p]) /\ OnItsPath(lastExec[p])
<1>1. lastExec[p] = task[p]
  BY DEF ShellInv, ShellTypeOK
<1>2. QED
  BY <1>1 DEF TasksCaptured

(* Whatever fields of a command cannot be passed to a utility and are left *)
(* out, so that others move up (simple_command.rs:29): the first argument  *)
(* that execve gets is the name the utility was searched for.              *)
THEOREM NameComesFirst ==
  ASSUME Api \subseteq CommandApi
  PROVE  ShellSpec => []FirstArgumentIsName
<1>1. TasksCaptured /\ ShellInv => FirstArgumentIsName
  BY LastExecIsTask DEF FirstArgumentIsName, NameFirst
<1>2. QED
  BY <1>1, TasksCapturedAlways, PTL

(* Whether $PATH is a string or an array (variable.rs:57, 140), and        *)
(* whatever is in it: among the directories that a utility finds in the    *)
(* $PATH it gets is the one where the shell has found the utility, unless  *)
(* that is a value of an array with a colon in it; then it never is.       *)
THEOREM PathIsPassedOn ==
  ASSUME Api \subseteq CommandApi
  PROVE  ShellSpec => []PathPassedOn
<1>1. Nothing.envs = {}
  BY DEF Nothing
<1>2. TasksCaptured /\ ShellInv => PathPassedOn
  BY <1>1, LastExecIsTask DEF PathPassedOn, OnItsPath
<1>3. QED
  BY <1>2, TasksCapturedAlways, PTL
=============================================================================
