--------------------------- MODULE VirtualSystem ---------------------------
(***************************************************************************)
(* The process model of yash-env: `SystemState::processes` and the tasks   *)
(* that run the shell and its subshells on one single-threaded executor    *)
(* (virtual_system.rs), with the functions of `Env` that create a child    *)
(* and wait for one (lib.rs).                                              *)
(*                                                                         *)
(* A process that runs on the virtual system is a task of the executor.    *)
(* One task is polled at a time and keeps the thread until it finishes or  *)
(* awaits something that is not ready; the one suspension point of the     *)
(* modelled code is the future of `wait_sync`.                             *)
(*                                                                         *)
(* Abstracted: memory (`env` is cloned into the child and its exit status  *)
(* is whatever the task leaves there), the file system, `last_exec`.       *)
(***************************************************************************)
EXTENDS Naturals

CONSTANTS MaxPid,      \* bound on process IDs, hence on the number of forks
          ExitStatus,  \* the exit statuses tasks may end with
          Signal,      \* the signals that stop or kill processes
          Api          \* which entry points the program under study uses

(* "run": run_in_subshell; "start": start_subshell; "spawn":               *)
(* new_child_process with an asynchronous task; "wait": wait_sync itself;  *)
(* "yield": tasks await other things as well; "signal": set_state from     *)
(* outside; "spurious": an executor that also polls tasks nobody woke.     *)
EntryPoint == {"run", "start", "spawn", "wait", "yield", "signal", "spurious"}

Root == 2         \* VirtualSystem::new
RootParent == 1
Pid == Root..MaxPid
Nobody == 0       \* no process ID

ASSUME BoundsAssumption == MaxPid \in Nat /\ MaxPid >= Root
ASSUME StatusAssumption == ExitStatus \subseteq Nat
ASSUME ApiAssumption == Api \subseteq EntryPoint

(* enum ProcessState.  A signal or a status is the state's value.          *)
Running == [tag |-> "Running", value |-> Nobody]
Exited(s) == [tag |-> "Exited", value |-> s]
Stopped(sig) == [tag |-> "Stopped", value |-> sig]
Signaled(sig) == [tag |-> "Signaled", value |-> sig]

ProcessState == {Running} \cup {Exited(s) : s \in ExitStatus}
                \cup {Stopped(sig) : sig \in Signal}
                \cup {Signaled(sig) : sig \in Signal}

Terminated(state) == state.tag \in {"Exited", "Signaled"}

NotReturned == [result |-> "none", status |-> 0]
Ok(s) == [result |-> "Ok", status |-> s]
Error(errno) == [result |-> errno, status |-> 0]

NoReport == <<Nobody, Running>>

VARIABLES
  executor,   \* is there an executor that runs the tasks of child processes?
  processes,  \* SystemState::processes
  pc,         \* where the task of each process is
  child,      \* the subshell that run_in_subshell waits for; Nobody for wait_sync
  report,     \* what wait_sync reported last to each process
  returned,   \* what the last call of run_in_subshell returned in each process
  ready,      \* tasks the executor has been told to poll
  running     \* the process whose task is being polled, or Nobody

vars == <<executor, processes, pc, child, report, returned, ready, running>>

(* struct Process.  `changed` stands for `state_awaiters` being None: the  *)
(* state has changed and no wait has reported it; otherwise `awaiters` is  *)
(* the set of processes whose tasks left a waker there.                    *)
WithParent(ppid) == [ppid |-> ppid, state |-> Running,
                     changed |-> FALSE, awaiters |-> {}]

(* Process::set_state                                                      *)
SetState(process, s) ==
  IF s = process.state THEN process
  ELSE [process EXCEPT !.state = s, !.changed = TRUE, !.awaiters = {}]

(* Mutant: the report does not reset state_awaiters.                       *)
ReportedForgotten(process) == process

(* A wait that reports the state takes note of it.                         *)
Reported(process) == [process EXCEPT !.changed = FALSE]

(* Mutant: set_state drops the wakers.                                     *)
WakersDropped(process, s) == {}

(* The wakers set_state returns, which its caller must wake.               *)
Wakers(process, s) == IF s = process.state THEN {} ELSE process.awaiters

Children(p) == {c \in DOMAIN processes : processes[c].ppid = p}
ChangedChildren(p) == {c \in Children(p) : processes[c].changed}

(* "sync": the closure of start_subshell, which cannot await; "async": any *)
(* other code of a task; the two panics end the program.                   *)
Code == {"sync", "async"}
Panicked == {"assertion failed", "not yet implemented"}
ProgramCounter == {"none", "wait", "done"} \cup Code \cup Panicked

Init == /\ executor \in BOOLEAN
        /\ processes = [p \in {Root} |-> WithParent(RootParent)]
        /\ pc = [p \in Pid |-> IF p = Root THEN "async" ELSE "none"]
        /\ child = [p \in Pid |-> Nobody]
        /\ report = [p \in Pid |-> NoReport]
        /\ returned = [p \in Pid |-> NotReturned]
        /\ ready = {Root}
        /\ running = Nobody

-----------------------------------------------------------------------------
(* The executor                                                            *)

Pollable(p) == pc[p] \in Code \cup {"wait"}

(* The executor polls a task that has been woken ...                       *)
Poll(p) == /\ running = Nobody
           /\ p \in ready
           /\ Pollable(p)
           /\ running' = p
           /\ ready' = ready \ {p}
           /\ UNCHANGED <<executor, processes, pc, child, report, returned>>

(* ... or one that has not: nothing forbids it.                            *)
SpuriousPoll(p) == /\ "spurious" \in Api
                   /\ running = Nobody
                   /\ p \notin ready
                   /\ Pollable(p)
                   /\ running' = p
                   /\ UNCHANGED <<executor, processes, pc, child, report, returned, ready>>

(* The task awaits something else, which will wake it.                     *)
Yield(p) == /\ "yield" \in Api
            /\ running = p
            /\ pc[p] = "async"
            /\ running' = Nobody
            /\ ready' = ready \cup {p}
            /\ UNCHANGED <<executor, processes, pc, child, report, returned>>

-----------------------------------------------------------------------------
(* Creating a child process                                                *)

(* Mutant: a process ID greater than all others.                           *)
IsGreaterPid(c) == \A p \in DOMAIN processes : p < c

(* One more than the greatest process ID.                                  *)
IsNextPid(c) == /\ c - 1 \in DOMAIN processes
                /\ \A p \in DOMAIN processes : p < c

(* Executor::spawn: LocalPool takes and polls any new task.  (`run` panics *)
(* if an executor refuses one.)                                            *)
SpawnTask(c) == ready' = ready \cup {c}

(* VirtualSystem::new_child_process, followed by ChildProcess::run: the    *)
(* new process is in the table and its task is with the executor.          *)
Fork(p, c) ==
  /\ executor
  /\ IsNextPid(c)
  /\ processes' = [q \in DOMAIN processes \cup {c} |->
                     IF q = c THEN WithParent(p) ELSE processes[q]]
  /\ SpawnTask(c)

(* new_child_process without an executor                                   *)
ForkFails == ~executor

(* `new_child_process` and `run` with an asynchronous task                 *)
Spawn(p) == /\ "spawn" \in Api
            /\ running = p
            /\ pc[p] = "async"
            /\ \E c \in Pid : /\ Fork(p, c)
                              /\ pc' = [pc EXCEPT ![c] = "async"]
            /\ UNCHANGED <<executor, child, report, returned, running>>

(* Env::start_subshell                                                     *)
StartSubshell(p) == /\ "start" \in Api
                    /\ running = p
                    /\ pc[p] = "async"
                    /\ \E c \in Pid : /\ Fork(p, c)
                                      /\ pc' = [pc EXCEPT ![c] = "sync"]
                    /\ UNCHANGED <<executor, child, report, returned, running>>

(* Env::run_in_subshell up to its await: start_subshell never suspends.    *)
RunInSubshell(p) ==
  /\ "run" \in Api
  /\ running = p
  /\ pc[p] = "async"
  /\ \/ \E c \in Pid : /\ Fork(p, c)
                       /\ pc' = [pc EXCEPT ![c] = "sync", ![p] = "wait"]
                       /\ child' = [child EXCEPT ![p] = c]
                       /\ returned' = [returned EXCEPT ![p] = NotReturned]
     \/ /\ ForkFails
        /\ child' = [child EXCEPT ![p] = Nobody]
        /\ returned' = [returned EXCEPT ![p] = Error("ENOSYS")]
        /\ UNCHANGED <<processes, pc, ready>>
  /\ UNCHANGED <<executor, report, running>>

-----------------------------------------------------------------------------
(* Waiting for a child process                                             *)

(* A task awaits wait_sync itself.                                         *)
WaitSync(p) == /\ "wait" \in Api
               /\ running = p
               /\ pc[p] = "async"
               /\ pc' = [pc EXCEPT ![p] = "wait"]
               /\ child' = [child EXCEPT ![p] = Nobody]
               /\ UNCHANGED <<executor, processes, report, returned, ready, running>>

(* What becomes of a status that wait_sync reports about c: run_in_subshell*)
(* asserts that it is about its subshell and has code only for termination.*)
AfterReport(p, c) == CASE child[p] = Nobody -> "async"
                       [] ~Terminated(processes[c].state) -> "not yet implemented"
                       [] child[p] # c -> "assertion failed"
                       [] OTHER -> "async"

(* The exit status of the subshell that run_in_subshell returns            *)
SubshellStatus(state) == IF state.tag = "Exited" THEN state.value ELSE 128

(* Mutant: the loop takes the first child, changed or not.                 *)
FirstChild(p, c) == c \in Children(p) /\ \A d \in Children(p) : c <= d

(* The loop of wait_sync takes the first child, in the order of process    *)
(* IDs, whose state has changed.                                           *)
FirstChanged(p, c) == /\ c \in ChangedChildren(p)
                      /\ \A d \in ChangedChildren(p) : c <= d

(* ProcessState::to_wait_status                                            *)
ToWaitStatus(c) == <<c, processes[c].state>>

ReportChild(p) ==
  /\ running = p
  /\ pc[p] = "wait"
  /\ \E c \in DOMAIN processes :
       /\ FirstChanged(p, c)
       /\ processes' = [processes EXCEPT ![c] = Reported(@)]
       /\ report' = [report EXCEPT ![p] = ToWaitStatus(c)]
       /\ pc' = [pc EXCEPT ![p] = AfterReport(p, c)]
       /\ returned' = IF child[p] # Nobody /\ AfterReport(p, c) = "async"
                      THEN [returned EXCEPT ![p] = Ok(SubshellStatus(processes[c].state))]
                      ELSE returned
  /\ UNCHANGED <<executor, child, ready, running>>

(* ECHILD: the caller has no child at all.                                 *)
NoChild(p) ==
  /\ running = p
  /\ pc[p] = "wait"
  /\ Children(p) = {}
  /\ report' = [report EXCEPT ![p] = NoReport]
  /\ pc' = [pc EXCEPT ![p] = "async"]
  /\ returned' = IF child[p] # Nobody
                 THEN [returned EXCEPT ![p] = Error("ECHILD")] ELSE returned
  /\ UNCHANGED <<executor, processes, child, ready, running>>

(* Mutant: the waker is left in the first child only.                      *)
RegistersInFirst(p, c) == FirstChild(p, c) /\ ~processes[c].changed

(* The children where a pending wait of p leaves its waker                 *)
Registers(p, c) == processes[c].ppid = p /\ ~processes[c].changed

Suspend(p) ==
  /\ running = p
  /\ pc[p] = "wait"
  /\ Children(p) # {}
  /\ ChangedChildren(p) = {}
  /\ processes' = [c \in DOMAIN processes |->
                     IF Registers(p, c)
                     THEN [processes[c] EXCEPT !.awaiters = @ \cup {p}]
                     ELSE processes[c]]
  /\ running' = Nobody
  /\ UNCHANGED <<executor, pc, child, report, returned, ready>>

-----------------------------------------------------------------------------
(* State changes                                                           *)

(* The end of the task of a child (DummyChildProcess::run).  The task of   *)
(* the root process belongs to the program that made the system: when it   *)
(* ends, no state is set.                                                  *)
Finish(p, s) ==
  /\ running = p
  /\ pc[p] \in Code
  /\ pc' = [pc EXCEPT ![p] = "done"]
  /\ IF p = Root THEN UNCHANGED <<processes, ready>>
     ELSE /\ processes' = [processes EXCEPT ![p] = SetState(@, Exited(s))]
          /\ ready' = ready \cup Wakers(processes[p], Exited(s))
  /\ running' = Nobody
  /\ UNCHANGED <<executor, child, report, returned>>

(* Anybody who holds the system state stops, resumes or kills a process    *)
(* that has not terminated, and wakes the wakers.                          *)
SignalProcess(c, s) ==
  /\ "signal" \in Api
  /\ running # Nobody => pc[running] \in Code
  /\ c \in DOMAIN processes
  /\ ~Terminated(processes[c].state)
  /\ s.tag # "Exited"
  /\ s # processes[c].state
  /\ processes' = [processes EXCEPT ![c] = SetState(@, s)]
  /\ ready' = ready \cup Wakers(processes[c], s)
  /\ UNCHANGED <<executor, pc, child, report, returned, running>>

-----------------------------------------------------------------------------
WaitPoll(p) == ReportChild(p) \/ NoChild(p) \/ Suspend(p)

Next == \/ \E p \in Pid : \/ Poll(p) \/ SpuriousPoll(p) \/ Yield(p)
                          \/ Spawn(p) \/ StartSubshell(p) \/ RunInSubshell(p)
                          \/ WaitSync(p) \/ WaitPoll(p)
                          \/ \E s \in ExitStatus : Finish(p, s)
        \/ \E c \in Pid, s \in ProcessState : SignalProcess(c, s)

(* The executor polls every task that stays woken, however often others    *)
(* are polled before it; a poll of wait_sync returns; and the code of a    *)
(* task between two awaits ends.                                           *)
Fairness == \A p \in Pid : /\ SF_vars(Poll(p))
                           /\ WF_vars(WaitPoll(p))
                           /\ SF_vars(Yield(p) \/ \E s \in ExitStatus : Finish(p, s))

Spec == Init /\ [][Next]_vars
FairSpec == Spec /\ Fairness
-----------------------------------------------------------------------------
(* Properties                                                              *)

Process == [ppid : Pid \cup {RootParent}, state : ProcessState,
            changed : BOOLEAN, awaiters : SUBSET Pid]

(* new_child_process, and nothing else, adds to the table: process IDs are *)
(* given without a gap, every process but the root is the child of an      *)
(* earlier one, and a fork that fails with ENOSYS leaves no process behind.*)
ProcessTable ==
  /\ \A p \in DOMAIN processes : Root..p \subseteq DOMAIN processes
  /\ \A p \in DOMAIN processes \ {Root} : processes[p].ppid \in Root..(p - 1)
  /\ processes[Root].ppid = RootParent
  /\ ~executor => DOMAIN processes = {Root}

(* Types; a process is in the table exactly if it has a task, and the table*)
(* is as the forks have made it.                                           *)
TypeOK == /\ executor \in BOOLEAN
          /\ DOMAIN processes \subseteq Pid
          /\ processes \in [DOMAIN processes -> Process]
          /\ Root \in DOMAIN processes
          /\ \A p \in Pid : p \in DOMAIN processes <=> pc[p] # "none"
          /\ pc \in [Pid -> ProgramCounter]
          /\ child \in [Pid -> Pid \cup {Nobody}]
          /\ report \in [Pid -> (Pid \cup {Nobody}) \X ProcessState]
          /\ returned \in [Pid -> [result : {"none", "Ok", "ENOSYS", "ECHILD"},
                                  status : ExitStatus \cup {0, 128}]]
          /\ ready \subseteq Pid
          /\ running \in Pid \cup {Nobody}
          /\ ProcessTable

(* A task suspended in wait_sync while a status change of a child of its   *)
(* process is waiting to be reported has been woken: the wakers left in    *)
(* each child (virtual_system.rs:212-218) and set_state taking those of    *)
(* the child that changes (458) leave no window for a lost wakeup.         *)
NoLostWakeup ==
  \A p \in Pid : pc[p] = "wait" /\ running # p /\ ChangedChildren(p) # {} => p \in ready

(* The inductive strengthening: a suspended waiter that has not been woken *)
(* has its waker in every child, and no child's change is unreported.      *)
SuspendedWaiter(p) == pc[p] = "wait" /\ running # p /\ p \notin ready
WakersInPlace ==
  \A p \in Pid : SuspendedWaiter(p) =>
     \A c \in Children(p) : ~processes[c].changed /\ p \in processes[c].awaiters

(* "If the subshell suspends, the current shell continues waiting for the  *)
(* subshell to finish" (lib.rs:273): run_in_subshell has an answer to every*)
(* status wait_sync may report.                                            *)
ContinuesWaiting == \A p \in Pid : pc[p] # "not yet implemented"

(* Used as the shell's commands use it, run_in_subshell never panics, and  *)
(* returns only when its subshell has terminated, with the exit status the *)
(* subshell ended with.  The one error it returns is ENOSYS, from a system *)
(* that has no executor and makes no process; it never finds its subshell  *)
(* missing.                                                                *)
SubshellFinished ==
  \A p \in Pid :
    /\ pc[p] \notin Panicked
    /\ returned[p].result = "Ok" =>
         /\ child[p] \in DOMAIN processes
         /\ Terminated(processes[child[p]].state)
         /\ returned[p].status = SubshellStatus(processes[child[p]].state)
    /\ returned[p].result = "ENOSYS" => ~executor /\ child[p] = Nobody
    /\ returned[p].result # "ECHILD"

(* A task is suspended in a wait only while some child of its process can  *)
(* still change: waitpid(-1), whose thin wrapper wait_sync is said to be   *)
(* (lib.rs:144), fails with ECHILD when no child is left to wait for.      *)
NoHopelessWait ==
  \A p \in Pid : SuspendedWaiter(p) =>
     \E c \in Children(p) : ~Terminated(processes[c].state)

(* wait_sync implements its contract.                                      *)
W == INSTANCE Waitpid WITH
       Status <- ProcessState, Started <- Running,
       status <- [p \in DOMAIN processes |-> processes[p].state],
       parent <- [p \in DOMAIN processes |-> processes[p].ppid],
       due <- {p \in DOMAIN processes : processes[p].changed},
       waiting <- {p \in Pid : pc[p] = "wait"}

(* Every step of the virtual system is a step of waitpid's contract: a     *)
(* status change is reported at most once, to the parent, with the present *)
(* state, whatever other children do meanwhile.                            *)
WaitpidSafety == W!Init /\ [][W!Next]_W!vars

(* And a wait that has something to report reports it, unless a panic ends *)
(* the program.                                                            *)
NeverPanics == [](\A p \in Pid : pc[p] \notin Panicked)
WaitAnswered == NeverPanics => W!Fairness

(* A subshell that the shell runs and waits for does finish, and the shell *)
(* goes on.                                                                *)
SubshellReturns == \A p \in Pid : pc[p] = "wait" ~> pc[p] # "wait"
=============================================================================
