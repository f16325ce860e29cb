----------------------- MODULE VirtualSystem_proofs ------------------------
(***************************************************************************)
(* Proofs about VirtualSystem for any number of processes, any exit        *)
(* statuses and signals and any use of its entry points.                   *)
(***************************************************************************)
EXTENDS VirtualSystem, TLAPS

(* What the type of a process gives.                                       *)
LEMMA WithParentType ==
  ASSUME NEW p \in Pid
  PROVE  WithParent(p) \in Process
  BY DEF WithParent, Process, ProcessState, Running

LEMMA NobodyNotPid == Nobody \notin Pid
  BY BoundsAssumption DEF Nobody, Pid, Root

LEMMA RunningType == Running \in ProcessState
  BY DEF ProcessState

LEMMA ExitedType ==
  ASSUME NEW s \in ExitStatus
  PROVE  Exited(s) \in ProcessState
  BY DEF ProcessState

(* set_state keeps the parent, and returns the wakers of the process.      *)
LEMMA SetStateType ==
  ASSUME NEW process \in Process, NEW s \in ProcessState
  PROVE  /\ SetState(process, s) \in Process
         /\ SetState(process, s).ppid = process.ppid
         /\ Wakers(process, s) \subseteq Pid
  BY DEF SetState, Wakers, Process

LEMMA SubshellStatusType ==
  ASSUME NEW s \in ProcessState
  PROVE  SubshellStatus(s) \in ExitStatus \cup {128}
  BY DEF SubshellStatus, ProcessState, Running, Exited, Stopped, Signaled

-----------------------------------------------------------------------------
(* A fork adds one well-typed process.                                     *)
LEMMA ForkType ==
  ASSUME TypeOK, NEW p \in Pid, NEW c \in Pid, Fork(p, c)
  PROVE  /\ DOMAIN processes' = DOMAIN processes \cup {c}
         /\ processes' \in [DOMAIN processes' -> Process]
         /\ c \notin DOMAIN processes
         /\ ready' \subseteq Pid
<1>1. WithParent(p) \in Process
  BY WithParentType
<1>2. c \notin DOMAIN processes
  BY BoundsAssumption DEF TypeOK, Fork, SpawnTask, IsNextPid, Pid, Root
<1>3. QED
  BY <1>1, <1>2 DEF TypeOK, Fork, SpawnTask

LEMMA TypeInit == Init => TypeOK
BY BoundsAssumption DEF Init, TypeOK, WithParent, Process, ProcessState, Running, Pid, Root,
   RootParent, Nobody, NoReport, NotReturned, ProgramCounter, Code, ProcessTable

(* A step that adds no process and changes no parent keeps the table.      *)
LEMMA TableKept ==
  ASSUME ProcessTable, executor' = executor, Root \in DOMAIN processes,
         DOMAIN processes' = DOMAIN processes,
         \A p \in DOMAIN processes : processes'[p].ppid = processes[p].ppid
  PROVE  ProcessTable'
  BY DEF ProcessTable

(* A fork takes the next process ID for the child of a process that has one.*)
LEMMA TableForked ==
  ASSUME TypeOK, executor' = executor,
         NEW p \in DOMAIN processes, NEW c \in Pid, Fork(p, c)
  PROVE  ProcessTable'
<1>1. /\ DOMAIN processes' = DOMAIN processes \cup {c}
      /\ c \notin DOMAIN processes
      /\ DOMAIN processes \subseteq Pid
      /\ p \in Pid
      /\ Root \in DOMAIN processes
  BY ForkType DEF TypeOK
<1>2. /\ executor
      /\ c - 1 \in DOMAIN processes
      /\ \A q \in DOMAIN processes : q < c
      /\ processes'[c].ppid = p
      /\ \A q \in DOMAIN processes : processes'[q] = processes[q]
  BY <1>1 DEF Fork, IsNextPid, WithParent
<1>3. ProcessTable
  BY DEF TypeOK
<1>4. Pid \subseteq Nat
  BY BoundsAssumption DEF Pid, Root
<1>5. Root..c \subseteq DOMAIN processes'
  <2>1. Root..(c - 1) \subseteq DOMAIN processes
    BY <1>2, <1>3 DEF ProcessTable
  <2>2. Root..c \subseteq Root..(c - 1) \cup {c}
    BY <1>4 DEF Root
  <2>3. QED
    BY <1>1, <2>1, <2>2
<1>6. p \in Root..(c - 1)
  BY <1>1, <1>2, <1>4 DEF Pid, Root
<1>7. QED
  BY <1>1, <1>2, <1>3, <1>5, <1>6 DEF ProcessTable

LEMMA TableStep ==
  ASSUME TypeOK, [Next]_vars
  PROVE  ProcessTable'
<1>0. /\ ProcessTable
      /\ Root \in DOMAIN processes
      /\ \A p \in DOMAIN processes : p \in Pid /\ processes[p] \in Process
      /\ \A p \in Pid : pc[p] \in Code => p \in DOMAIN processes
  BY DEF TypeOK, Code
<1>1. CASE UNCHANGED <<executor, processes>>
  BY <1>0, <1>1, TableKept
<1>2. ASSUME NEW p \in Pid, Spawn(p) \/ StartSubshell(p)
      PROVE  ProcessTable'
  <2>1. p \in DOMAIN processes /\ executor' = executor
    BY <1>0, <1>2 DEF Spawn, StartSubshell, Code
  <2>2. PICK c \in Pid : Fork(p, c)
    BY <1>2 DEF Spawn, StartSubshell
  <2>3. QED
    BY <2>1, <2>2, TableForked
<1>3. ASSUME NEW p \in Pid, RunInSubshell(p)
      PROVE  ProcessTable'
  <2>1. p \in DOMAIN processes /\ executor' = executor
    BY <1>0, <1>3 DEF RunInSubshell, Code
  <2>2. CASE \E c \in Pid : Fork(p, c)
    <3>1. PICK c \in Pid : Fork(p, c)
      BY <2>2
    <3>2. QED
      BY <2>1, <3>1, TableForked
  <2>3. QED
    BY <1>1, <1>3, <2>1, <2>2 DEF RunInSubshell
<1>4. ASSUME NEW p \in Pid, ReportChild(p)
      PROVE  ProcessTable'
  BY <1>0, <1>4, TableKept DEF ReportChild, Reported, Process
<1>5. ASSUME NEW p \in Pid, Suspend(p)
      PROVE  ProcessTable'
  <2>1. /\ DOMAIN processes' = DOMAIN processes
        /\ \A d \in DOMAIN processes : processes'[d].ppid = processes[d].ppid
    BY <1>0, <1>5 DEF Suspend, Process
  <2>2. QED
    BY <1>0, <1>5, <2>1, TableKept DEF Suspend
<1>6. ASSUME NEW p \in DOMAIN processes, NEW s \in ProcessState, executor' = executor,
             processes' = [processes EXCEPT ![p] = SetState(@, s)]
      PROVE  ProcessTable'
  BY <1>0, <1>6, SetStateType, TableKept
<1>7. ASSUME NEW p \in Pid, NEW s \in ExitStatus, Finish(p, s)
      PROVE  ProcessTable'
  BY <1>0, <1>1, <1>6, <1>7, ExitedType DEF Finish
<1>8. ASSUME NEW c \in Pid, NEW s \in ProcessState, SignalProcess(c, s)
      PROVE  ProcessTable'
  BY <1>6, <1>8 DEF SignalProcess
<1>9. QED
  BY <1>1, <1>2, <1>3, <1>4, <1>5, <1>7, <1>8
     DEF Next, WaitPoll, vars, Poll, SpuriousPoll, Yield, WaitSync, NoChild

LEMMA TypeStep ==
  ASSUME TypeOK, [Next]_vars
  PROVE  TypeOK'
<1>0. ProcessTable'
  BY TableStep
<1> USE <1>0
<1>1. ASSUME NEW p \in Pid, Poll(p) PROVE TypeOK'
  BY <1>1 DEF TypeOK, Poll
<1>2. ASSUME NEW p \in Pid, SpuriousPoll(p) PROVE TypeOK'
  BY <1>2 DEF TypeOK, SpuriousPoll
<1>3. ASSUME NEW p \in Pid, Yield(p) PROVE TypeOK'
  BY <1>3 DEF TypeOK, Yield
<1>4. ASSUME NEW p \in Pid, Spawn(p) PROVE TypeOK'
  <2>1. PICK c \in Pid : Fork(p, c) /\ pc' = [pc EXCEPT ![c] = "async"]
    BY <1>4 DEF Spawn
  <2>2. /\ DOMAIN processes' = DOMAIN processes \cup {c}
        /\ processes' \in [DOMAIN processes' -> Process]
        /\ ready' \subseteq Pid
    BY <2>1, ForkType
  <2>3. QED
    BY <1>4, <2>1, <2>2 DEF TypeOK, Spawn, ProgramCounter, Code
<1>5. ASSUME NEW p \in Pid, StartSubshell(p) PROVE TypeOK'
  <2>1. PICK c \in Pid : Fork(p, c) /\ pc' = [pc EXCEPT ![c] = "sync"]
    BY <1>5 DEF StartSubshell
  <2>2. /\ DOMAIN processes' = DOMAIN processes \cup {c}
        /\ processes' \in [DOMAIN processes' -> Process]
        /\ ready' \subseteq Pid
    BY <2>1, ForkType
  <2>3. QED
    BY <1>5, <2>1, <2>2 DEF TypeOK, StartSubshell, ProgramCounter, Code
<1>6. ASSUME NEW p \in Pid, RunInSubshell(p) PROVE TypeOK'
  <2>1. CASE /\ child' = [child EXCEPT ![p] = Nobody]
             /\ returned' = [returned EXCEPT ![p] = Error("ENOSYS")]
             /\ UNCHANGED <<processes, pc, ready>>
    <3>1. UNCHANGED <<executor, report, running>>
      BY <1>6 DEF RunInSubshell
    <3>2. QED
      BY <2>1, <3>1 DEF TypeOK, Error, Nobody
  <2>2. CASE \E c \in Pid : /\ Fork(p, c)
                            /\ pc' = [pc EXCEPT ![c] = "sync", ![p] = "wait"]
                            /\ child' = [child EXCEPT ![p] = c]
                            /\ returned' = [returned EXCEPT ![p] = NotReturned]
    <3>1. PICK c \in Pid : /\ Fork(p, c)
                            /\ pc' = [pc EXCEPT ![c] = "sync", ![p] = "wait"]
                            /\ child' = [child EXCEPT ![p] = c]
                            /\ returned' = [returned EXCEPT ![p] = NotReturned]
      BY <2>2
    <3>2. p \in DOMAIN processes
      BY <1>6 DEF TypeOK, RunInSubshell
    <3>3. /\ DOMAIN processes' = DOMAIN processes \cup {c}
          /\ processes' \in [DOMAIN processes' -> Process]
          /\ ready' \subseteq Pid
      BY <3>1, ForkType
    <3>4. QED
      BY <1>6, <3>1, <3>2, <3>3
         DEF TypeOK, RunInSubshell, ProgramCounter, Code, NotReturned
  <2>3. QED
    BY <1>6, <2>1, <2>2 DEF RunInSubshell
<1>7. ASSUME NEW p \in Pid, WaitSync(p) PROVE TypeOK'
  BY <1>7 DEF TypeOK, WaitSync, ProgramCounter, Nobody
<1>8. ASSUME NEW p \in Pid, ReportChild(p) PROVE TypeOK'
  <2>1. PICK c \in DOMAIN processes :
          /\ processes' = [processes EXCEPT ![c] = Reported(@)]
          /\ report' = [report EXCEPT ![p] = <<c, processes[c].state>>]
          /\ pc' = [pc EXCEPT ![p] = AfterReport(p, c)]
          /\ \/ returned' = [returned EXCEPT ![p] = Ok(SubshellStatus(processes[c].state))]
             \/ returned' = returned
    BY <1>8 DEF ReportChild, ToWaitStatus
  <2>2. AfterReport(p, c) \in ProgramCounter \ {"none"}
    BY DEF AfterReport, ProgramCounter, Code, Panicked
  <2>3. c \in Pid /\ processes[c] \in Process
    BY DEF TypeOK
  <2>4. Ok(SubshellStatus(processes[c].state))
          \in [result : {"none", "Ok", "ENOSYS", "ECHILD"}, status : ExitStatus \cup {0, 128}]
    BY <2>3, SubshellStatusType DEF Ok, Process
  <2>5. returned' \in [Pid -> [result : {"none", "Ok", "ENOSYS", "ECHILD"},
                               status : ExitStatus \cup {0, 128}]]
    BY <2>1, <2>4 DEF TypeOK
  <2>6. processes' \in [DOMAIN processes' -> Process] /\ DOMAIN processes' = DOMAIN processes
    BY <2>1, <2>3 DEF Reported, TypeOK, Process
  <2>7. report' \in [Pid -> (Pid \cup {Nobody}) \X ProcessState]
    BY <2>1, <2>3 DEF TypeOK, Process
  <2>8. pc' \in [Pid -> ProgramCounter] /\ \A q \in Pid : pc'[q] = "none" <=> pc[q] = "none"
    BY <1>8, <2>1, <2>2 DEF TypeOK, ReportChild, ToWaitStatus
  <2>9. QED
    BY <1>8, <2>5, <2>6, <2>7, <2>8 DEF TypeOK, ReportChild, ToWaitStatus
<1>9. ASSUME NEW p \in Pid, NoChild(p) PROVE TypeOK'
  <2>1. NoReport \in (Pid \cup {Nobody}) \X ProcessState
    BY RunningType DEF NoReport
  <2>2. QED
    BY <1>9, <2>1 DEF TypeOK, NoChild, ProgramCounter, Code, Error
<1>10. ASSUME NEW p \in Pid, Suspend(p) PROVE TypeOK'
  <2>1. processes' \in [DOMAIN processes' -> Process] /\ DOMAIN processes' = DOMAIN processes
    <3>1. \A c \in DOMAIN processes :
            (IF Registers(p, c) THEN [processes[c] EXCEPT !.awaiters = @ \cup {p}]
             ELSE processes[c]) \in Process
      BY DEF TypeOK, Process
    <3>2. QED
      BY <1>10, <3>1 DEF Suspend
  <2>2. QED
    BY <1>10, <2>1 DEF TypeOK, Suspend, Nobody
<1>11. ASSUME NEW p \in Pid, NEW s \in ExitStatus, Finish(p, s) PROVE TypeOK'
  <2>1. pc' \in [Pid -> ProgramCounter] /\ \A q \in Pid : pc'[q] = "none" <=> pc[q] = "none"
    BY <1>11 DEF TypeOK, Finish, ProgramCounter, Code
  <2>2. /\ processes' \in [DOMAIN processes' -> Process]
        /\ DOMAIN processes' = DOMAIN processes
        /\ ready' \subseteq Pid
    <3>1. p \in DOMAIN processes /\ processes[p] \in Process
      BY <1>11 DEF TypeOK, Finish, Code
    <3>2. SetState(processes[p], Exited(s)) \in Process /\ Wakers(processes[p], Exited(s)) \subseteq Pid
      BY <3>1, SetStateType, ExitedType
    <3>3. QED
      BY <1>11, <3>1, <3>2 DEF TypeOK, Finish
  <2>3. QED
    BY <1>11, <2>1, <2>2 DEF TypeOK, Finish, Nobody
<1>12. ASSUME NEW c \in Pid, NEW s \in ProcessState, SignalProcess(c, s) PROVE TypeOK'
  <2>1. c \in DOMAIN processes /\ processes[c] \in Process
    BY <1>12 DEF TypeOK, SignalProcess
  <2>2. SetState(processes[c], s) \in Process /\ Wakers(processes[c], s) \subseteq Pid
    BY <2>1, SetStateType
  <2>3. QED
    BY <1>12, <2>1, <2>2 DEF TypeOK, SignalProcess
<1>13. CASE UNCHANGED vars
  BY <1>13 DEF TypeOK, vars
<1>14. QED
  BY <1>1, <1>2, <1>3, <1>4, <1>5, <1>6, <1>7, <1>8, <1>9, <1>10, <1>11, <1>12, <1>13
     DEF Next, WaitPoll

(* States, wakers, waiters and reports stay what they are said to be; IDs  *)
(* are given without a gap to children of earlier processes, and without an*)
(* executor there is never any process but the root.                       *)
THEOREM TypeCorrect == Spec => []TypeOK
<1>1. TypeOK /\ [Next]_vars => TypeOK'
  BY TypeStep
<1>2. QED
  BY <1>1, TypeInit, PTL DEF Spec

-----------------------------------------------------------------------------
(* set_state either leaves the process alone or hands out all its wakers.  *)
LEMMA SetStateWakes ==
  ASSUME NEW process, NEW s, NEW q \in process.awaiters
  PROVE  q \in Wakers(process, s) \/ SetState(process, s) = process
  BY DEF Wakers, SetState

(* Changing the state of one process keeps the wakers in place, provided   *)
(* that the wakers of that process are woken.                              *)
LEMMA ChangeKeepsWakers ==
  ASSUME TypeOK, WakersInPlace,
         NEW c \in DOMAIN processes, NEW s \in ProcessState,
         processes' = [processes EXCEPT ![c] = SetState(@, s)],
         ready' = ready \cup Wakers(processes[c], s),
         NEW q \in Pid, SuspendedWaiter(q), q \notin ready',
         NEW d \in DOMAIN processes, processes'[d].ppid = q
  PROVE  ~processes'[d].changed /\ q \in processes'[d].awaiters
<1>1. processes[c] \in Process
  BY DEF TypeOK
<1>2. processes[d].ppid = q
  BY <1>1, SetStateType DEF TypeOK
<1>3. ~processes[d].changed /\ q \in processes[d].awaiters
  BY <1>2 DEF WakersInPlace, Children
<1>4. CASE d # c
  BY <1>3, <1>4 DEF TypeOK
<1>5. CASE d = c
  <2>1. q \notin Wakers(processes[c], s)
    OBVIOUS
  <2>2. SetState(processes[c], s) = processes[c]
    BY <1>3, <1>5, <2>1, SetStateWakes
  <2>3. QED
    BY <1>3, <1>5, <2>2 DEF TypeOK
<1>6. QED
  BY <1>4, <1>5

(* A fork by a process that does not become a suspended waiter keeps the   *)
(* wakers in place.                                                        *)
LEMMA ForkKeepsWakers ==
  ASSUME TypeOK, WakersInPlace, NEW p \in Pid, NEW c \in Pid, Fork(p, c),
         NEW q \in Pid, q # p, SuspendedWaiter(q), NEW d \in Children(q)'
  PROVE  ~processes'[d].changed /\ q \in processes'[d].awaiters
<1>1. d # c
  BY DEF Fork, SpawnTask, WithParent, Children
<1>2. d \in Children(q) /\ processes'[d] = processes[d]
  BY <1>1 DEF Fork, SpawnTask, Children
<1>3. QED
  BY <1>2 DEF WakersInPlace

LEMMA WakersStep == TypeOK /\ WakersInPlace /\ [Next]_vars => WakersInPlace'
<1> SUFFICES ASSUME TypeOK, WakersInPlace, [Next]_vars,
                    NEW q \in Pid, SuspendedWaiter(q)',
                    NEW d \in Children(q)'
             PROVE  ~processes'[d].changed /\ q \in processes'[d].awaiters
  BY DEF WakersInPlace
<1>1. ASSUME NEW p \in Pid, Poll(p) \/ SpuriousPoll(p) \/ Yield(p)
      PROVE  ~processes'[d].changed /\ q \in processes'[d].awaiters
  <2>1. q # p /\ SuspendedWaiter(q) /\ d \in Children(q)
    BY <1>1, NobodyNotPid DEF Poll, SpuriousPoll, Yield, SuspendedWaiter, Children
  <2>2. processes' = processes
    BY <1>1 DEF Poll, SpuriousPoll, Yield
  <2>3. QED
    BY <2>1, <2>2 DEF WakersInPlace
<1>2. ASSUME NEW p \in Pid, Spawn(p) \/ StartSubshell(p)
      PROVE  ~processes'[d].changed /\ q \in processes'[d].awaiters
  <2>1. PICK c \in Pid : Fork(p, c) /\ pc' = [pc EXCEPT ![c] = IF Spawn(p) THEN "async" ELSE "sync"]
    BY <1>2 DEF Spawn, StartSubshell
  <2>2. running' = running /\ running = p /\ ready' = ready \cup {c}
    BY <1>2, <2>1 DEF Spawn, StartSubshell, Fork, SpawnTask
  <2>3. q # p /\ q # c /\ q \notin ready /\ running # q /\ pc'[q] = "wait"
    BY <2>2 DEF SuspendedWaiter
  <2>4. pc[q] = "wait"
    BY <2>1, <2>3 DEF TypeOK
  <2>5. SuspendedWaiter(q)
    BY <2>3, <2>4 DEF SuspendedWaiter
  <2>6. QED
    BY <2>1, <2>3, <2>5, ForkKeepsWakers
<1>3. ASSUME NEW p \in Pid, RunInSubshell(p)
      PROVE  ~processes'[d].changed /\ q \in processes'[d].awaiters
  <2>1. q # p
    BY <1>3 DEF RunInSubshell, SuspendedWaiter
  <2>2. CASE processes' = processes /\ pc' = pc /\ ready' = ready
    BY <1>3, <2>1, <2>2 DEF RunInSubshell, SuspendedWaiter, WakersInPlace, Children
  <2>3. CASE \E c \in Pid : Fork(p, c) /\ pc' = [pc EXCEPT ![c] = "sync", ![p] = "wait"]
    <3>1. PICK c \in Pid : Fork(p, c) /\ pc' = [pc EXCEPT ![c] = "sync", ![p] = "wait"]
      BY <2>3
    <3>2. SuspendedWaiter(q)
      BY <1>3, <2>1, <3>1 DEF TypeOK, RunInSubshell, Fork, SpawnTask, SuspendedWaiter
    <3>3. QED
      BY <2>1, <3>1, <3>2, ForkKeepsWakers
  <2>4. QED
    BY <1>3, <2>2, <2>3 DEF RunInSubshell
<1>4. ASSUME NEW p \in Pid, WaitSync(p) \/ NoChild(p)
      PROVE  ~processes'[d].changed /\ q \in processes'[d].awaiters
  BY <1>4 DEF TypeOK, WaitSync, NoChild, SuspendedWaiter, WakersInPlace, Children
<1>5. ASSUME NEW p \in Pid, ReportChild(p)
      PROVE  ~processes'[d].changed /\ q \in processes'[d].awaiters
  <2>1. PICK c \in Children(p) : /\ processes' = [processes EXCEPT ![c] = Reported(@)]
                                 /\ pc' = [pc EXCEPT ![p] = AfterReport(p, c)]
    BY <1>5 DEF ReportChild, ToWaitStatus, FirstChanged, ChangedChildren
  <2>2. q # p
    BY <1>5 DEF ReportChild, ToWaitStatus, SuspendedWaiter
  <2>3. SuspendedWaiter(q) /\ d \in Children(q) /\ processes'[d] = processes[d]
    BY <1>5, <2>1, <2>2 DEF Reported, TypeOK, ReportChild, ToWaitStatus, SuspendedWaiter, Children, Process
  <2>4. QED
    BY <2>3 DEF WakersInPlace
<1>6. ASSUME NEW p \in Pid, Suspend(p)
      PROVE  ~processes'[d].changed /\ q \in processes'[d].awaiters
  <2>1. d \in DOMAIN processes /\ processes[d] \in Process
    BY <1>6 DEF TypeOK, Suspend, Children
  <2>2. /\ processes'[d].ppid = processes[d].ppid
        /\ processes'[d].changed = processes[d].changed
    BY <1>6, <2>1 DEF Suspend, Process
  <2>3. d \in Children(q)
    BY <2>1, <2>2 DEF Children
  <2>4. CASE q = p
    BY <1>6, <2>1, <2>3, <2>4 DEF Suspend, ChangedChildren, Registers, Children, Process
  <2>5. CASE q # p
    <3>1. SuspendedWaiter(q) /\ processes'[d] = processes[d]
      BY <1>6, <2>1, <2>3, <2>5 DEF Suspend, SuspendedWaiter, Registers, Children
    <3>2. QED
      BY <2>3, <3>1 DEF WakersInPlace
  <2>6. QED
    BY <2>4, <2>5
<1>7. ASSUME NEW p \in Pid, NEW s \in ExitStatus, Finish(p, s)
      PROVE  ~processes'[d].changed /\ q \in processes'[d].awaiters
  <2>1. SuspendedWaiter(q)
    BY <1>7 DEF TypeOK, Finish, SuspendedWaiter, Code
  <2>2. CASE p = Root
    BY <1>7, <2>1, <2>2 DEF Finish, WakersInPlace, Children
  <2>3. CASE p # Root
    <3>1. p \in DOMAIN processes
      BY <1>7 DEF TypeOK, Finish, Code
    <3>2. d \in DOMAIN processes /\ processes'[d].ppid = q
      BY <1>7, <2>3 DEF Finish, Children
    <3>3. /\ processes' = [processes EXCEPT ![p] = SetState(@, Exited(s))]
          /\ ready' = ready \cup Wakers(processes[p], Exited(s))
      BY <1>7, <2>3 DEF Finish
    <3>4. q \notin ready'
      BY DEF SuspendedWaiter
    <3>5. QED
      BY <2>1, <3>1, <3>2, <3>3, <3>4, ExitedType, ChangeKeepsWakers
  <2>4. QED
    BY <2>2, <2>3
<1>8. ASSUME NEW c \in Pid, NEW s \in ProcessState, SignalProcess(c, s)
      PROVE  ~processes'[d].changed /\ q \in processes'[d].awaiters
  <2>1. SuspendedWaiter(q) /\ q \notin ready'
    BY <1>8 DEF SignalProcess, SuspendedWaiter
  <2>2. c \in DOMAIN processes /\ d \in DOMAIN processes /\ processes'[d].ppid = q
    BY <1>8 DEF SignalProcess, Children
  <2>3. QED
    BY <1>8, <2>1, <2>2, ChangeKeepsWakers DEF SignalProcess
<1>9. CASE UNCHANGED vars
  BY <1>9 DEF vars, SuspendedWaiter, WakersInPlace, Children
<1>10. QED
  BY <1>1, <1>2, <1>3, <1>4, <1>5, <1>6, <1>7, <1>8, <1>9 DEF Next, WaitPoll

(* The wakers of suspended waiters are in place in every reachable state,  *)
(* whatever the interleaving of forks, waits, exits and signals.           *)
THEOREM WakersAlwaysInPlace == Spec => []WakersInPlace
<1>1. Init => WakersInPlace
  BY DEF Init, WakersInPlace, SuspendedWaiter
<1>2. QED
  BY <1>1, TypeCorrect, WakersStep, PTL DEF Spec

(* No wakeup is lost: a waiter with something to report has been woken.    *)
THEOREM WakeupNeverLost == Spec => []NoLostWakeup
<1>1. WakersInPlace => NoLostWakeup
  BY DEF WakersInPlace, NoLostWakeup, SuspendedWaiter, ChangedChildren
<1>2. QED
  BY <1>1, WakersAlwaysInPlace, PTL

-----------------------------------------------------------------------------
(* What the shell's commands use of all this: one process that runs its    *)
(* subshells one after another.                                            *)
CommandApi == {"run", "yield", "spurious"}

Subshells == DOMAIN processes \ {Root}

(* Every other process is a subshell of the root.  It runs, unreported, or *)
(* has exited; and all have exited and been reported but the one that the  *)
(* root is waiting for.                                                    *)
SubshellShape(c) ==
  /\ processes[c].ppid = Root
  /\ pc[c] \in {"sync", "done"}
  /\ pc[c] = "sync" => processes[c].state = Running /\ ~processes[c].changed
  /\ pc[c] = "done" => processes[c].state.tag = "Exited"

RootShape ==
  /\ pc[Root] \in {"async", "wait", "done"}
  /\ pc[Root] = "wait" => /\ child[Root] \in Subshells
                          /\ returned[Root] = NotReturned
                          /\ pc[child[Root]] = "done" => processes[child[Root]].changed
  /\ \A c \in Subshells : (pc[Root] = "wait" => c # child[Root]) =>
                            pc[c] = "done" /\ ~processes[c].changed

ReturnedShape ==
  /\ returned[Root].result = "Ok" => /\ child[Root] \in Subshells
                                     /\ returned[Root].status
                                          = SubshellStatus(processes[child[Root]].state)
  /\ returned[Root].result = "ENOSYS" => ~executor /\ child[Root] = Nobody
  /\ returned[Root].result # "ECHILD"
  /\ \A p \in Pid \ {Root} : returned[p] = NotReturned

OneSubshellAtATime == /\ Root \in DOMAIN processes
                      /\ processes[Root].ppid = RootParent
                      /\ \A c \in Subshells : SubshellShape(c)
                      /\ RootShape
                      /\ ReturnedShape

LEMMA OneSubshellInit == Init => OneSubshellAtATime
<1> SUFFICES ASSUME Init PROVE OneSubshellAtATime
  OBVIOUS
<1>1. Root \in Pid
  BY BoundsAssumption DEF Pid, Root
<1>2. Subshells = {} /\ Root \in DOMAIN processes /\ processes[Root].ppid = RootParent
  BY DEF Init, Subshells, WithParent
<1>3. pc[Root] = "async" /\ \A p \in Pid : returned[p] = NotReturned
  BY <1>1 DEF Init
<1>4. QED
  BY <1>1, <1>2, <1>3 DEF OneSubshellAtATime, RootShape, ReturnedShape, NotReturned

(* Only the root waits, so only the root gets a status.                    *)
LEMMA OnlyRootWaits ==
  ASSUME TypeOK, OneSubshellAtATime, NEW p \in Pid, pc[p] \in {"async", "wait"}
  PROVE  p = Root
  BY DEF TypeOK, OneSubshellAtATime, Subshells, SubshellShape

(* The child whose change the root's wait reports is its subshell, which   *)
(* has exited.                                                             *)
LEMMA ReportedIsSubshell ==
  ASSUME TypeOK, OneSubshellAtATime, pc[Root] = "wait", NEW c \in ChangedChildren(Root)
  PROVE  /\ c = child[Root]
         /\ c \in Subshells
         /\ pc[c] = "done"
         /\ processes[c].state.tag = "Exited"
         /\ AfterReport(Root, c) = "async"
<1>1. c \in Subshells
  BY DEF ChangedChildren, Children, OneSubshellAtATime, Subshells, Root, RootParent
<1>2. c = child[Root] /\ pc[c] = "done" /\ processes[c].state.tag = "Exited"
  BY <1>1 DEF ChangedChildren, OneSubshellAtATime, RootShape, SubshellShape
<1>3. child[Root] # Nobody
  BY <1>1, <1>2, NobodyNotPid DEF Subshells, TypeOK
<1>4. QED
  BY <1>1, <1>2, <1>3 DEF AfterReport, Terminated

LEMMA OneSubshellStep ==
  ASSUME Api \subseteq CommandApi, TypeOK, OneSubshellAtATime, [Next]_vars
  PROVE  OneSubshellAtATime'
<1> USE DEF OneSubshellAtATime, Subshells
<1>1. ASSUME NEW p \in Pid, Poll(p) \/ SpuriousPoll(p) \/ Yield(p)
      PROVE  OneSubshellAtATime'
  BY <1>1 DEF Poll, SpuriousPoll, Yield, SubshellShape, RootShape, ReturnedShape
<1>2. ASSUME NEW p \in Pid, Spawn(p) \/ StartSubshell(p) \/ WaitSync(p)
      PROVE  OneSubshellAtATime'
  BY <1>2 DEF CommandApi, Spawn, StartSubshell, WaitSync
<1>3. ASSUME NEW p \in Pid, RunInSubshell(p)
      PROVE  OneSubshellAtATime'
  <2>1. p = Root
    BY <1>3, OnlyRootWaits DEF RunInSubshell
  <2>2. CASE ForkFails /\ child' = [child EXCEPT ![p] = Nobody]
                       /\ returned' = [returned EXCEPT ![p] = Error("ENOSYS")]
                       /\ UNCHANGED <<processes, pc, ready>>
    <3>1. RootShape' /\ \A c \in Subshells' : SubshellShape(c)'
      BY <1>3, <2>1, <2>2 DEF RunInSubshell, RootShape, SubshellShape
    <3>2. ReturnedShape'
      BY <1>3, <2>1, <2>2 DEF TypeOK, RunInSubshell, ForkFails, ReturnedShape, Error
    <3>3. QED
      BY <2>2, <3>1, <3>2
  <2>3. CASE \E c \in Pid : /\ Fork(p, c)
                            /\ pc' = [pc EXCEPT ![c] = "sync", ![p] = "wait"]
                            /\ child' = [child EXCEPT ![p] = c]
                            /\ returned' = [returned EXCEPT ![p] = NotReturned]
    <3>1. PICK c \in Pid : /\ Fork(p, c)
                            /\ pc' = [pc EXCEPT ![c] = "sync", ![p] = "wait"]
                            /\ child' = [child EXCEPT ![p] = c]
                            /\ returned' = [returned EXCEPT ![p] = NotReturned]
      BY <2>3
    <3>2. c \notin DOMAIN processes /\ c # Root /\ DOMAIN processes' = DOMAIN processes \cup {c}
      BY <3>1, ForkType DEF TypeOK
    <3>3. /\ processes'[c] = WithParent(Root)
          /\ \A d \in DOMAIN processes : processes'[d] = processes[d]
      BY <2>1, <3>1, <3>2 DEF Fork, SpawnTask
    <3>4. /\ pc'[c] = "sync" /\ pc'[Root] = "wait"
          /\ \A d \in Subshells : pc'[d] = pc[d]
      BY <2>1, <3>1, <3>2 DEF TypeOK
    <3>5. child'[Root] = c /\ returned'[Root] = NotReturned
      BY <2>1, <3>1 DEF TypeOK
    <3>6. pc[Root] = "async"
      BY <1>3, <2>1 DEF RunInSubshell
    <3>7. \A d \in Subshells' : SubshellShape(d)'
      BY <3>2, <3>3, <3>4 DEF SubshellShape, WithParent
    <3>8. RootShape'
      BY <3>2, <3>3, <3>4, <3>5, <3>6 DEF RootShape, WithParent
    <3>9. ReturnedShape'
      BY <2>1, <3>1, <3>5 DEF ReturnedShape, NotReturned
    <3>10. QED
      BY <3>2, <3>3, <3>7, <3>8, <3>9
  <2>4. QED
    BY <1>3, <2>2, <2>3 DEF RunInSubshell
<1>4. ASSUME NEW p \in Pid, ReportChild(p)
      PROVE  OneSubshellAtATime'
  <2>1. p = Root /\ pc[Root] = "wait"
    BY <1>4, OnlyRootWaits DEF ReportChild, ToWaitStatus
  <2>2. PICK c \in ChangedChildren(Root) :
          /\ processes' = [processes EXCEPT ![c] = Reported(@)]
          /\ pc' = [pc EXCEPT ![Root] = AfterReport(Root, c)]
          /\ returned' = IF child[Root] # Nobody /\ AfterReport(Root, c) = "async"
                         THEN [returned EXCEPT ![Root] = Ok(SubshellStatus(processes[c].state))]
                         ELSE returned
    BY <1>4, <2>1 DEF ReportChild, ToWaitStatus, FirstChanged
  <2>3. /\ c = child[Root]
        /\ c \in Subshells
        /\ pc[c] = "done"
        /\ AfterReport(Root, c) = "async"
    BY <2>1, <2>2, ReportedIsSubshell
  <2>4. /\ DOMAIN processes' = DOMAIN processes
        /\ ~processes'[c].changed
        /\ \A d \in DOMAIN processes : /\ processes'[d].ppid = processes[d].ppid
                                       /\ processes'[d].state = processes[d].state
                                       /\ d # c => processes'[d].changed = processes[d].changed
    <3>1. \A d \in DOMAIN processes : processes[d] \in Process
      BY DEF TypeOK
    <3>2. QED
      BY <2>2, <2>3, <3>1 DEF Reported, Process
  <2>5. pc'[Root] = "async" /\ \A d \in Subshells : pc'[d] = pc[d]
    BY <2>2, <2>3 DEF TypeOK
  <2>6. child' = child
    BY <1>4 DEF ReportChild, ToWaitStatus
  <2>7. \A d \in Subshells' : SubshellShape(d)'
    BY <2>3, <2>4, <2>5 DEF SubshellShape
  <2>8. RootShape'
    BY <2>1, <2>3, <2>4, <2>5 DEF RootShape
  <2>9. ReturnedShape'
    <3>1. child[Root] # Nobody
      BY <2>3, NobodyNotPid DEF TypeOK
    <3>2. returned' = [returned EXCEPT ![Root] = Ok(SubshellStatus(processes[c].state))]
      BY <2>2, <2>3, <3>1
    <3>3. returned'[Root] = Ok(SubshellStatus(processes'[c].state))
      BY <2>3, <2>4, <3>2 DEF TypeOK
    <3>4. \A q \in Pid \ {Root} : returned'[q] = NotReturned
      BY <3>2 DEF TypeOK, ReturnedShape
    <3>5. QED
      BY <2>3, <2>4, <2>6, <3>3, <3>4 DEF ReturnedShape, Ok
  <2>10. QED
    BY <2>4, <2>7, <2>8, <2>9
<1>5. ASSUME NEW p \in Pid, NoChild(p)
      PROVE  OneSubshellAtATime'
  <2>1. p = Root /\ pc[Root] = "wait"
    BY <1>5, OnlyRootWaits DEF NoChild
  <2>2. child[Root] \in Children(Root)
    BY <2>1 DEF RootShape, SubshellShape, Children
  <2>3. QED
    BY <1>5, <2>1, <2>2 DEF NoChild
<1>6. ASSUME NEW p \in Pid, Suspend(p)
      PROVE  OneSubshellAtATime'
  <2>1. \A d \in DOMAIN processes : processes[d] \in Process
    BY DEF TypeOK
  <2>2. /\ DOMAIN processes' = DOMAIN processes
        /\ \A d \in DOMAIN processes : /\ processes'[d].ppid = processes[d].ppid
                                       /\ processes'[d].state = processes[d].state
                                       /\ processes'[d].changed = processes[d].changed
    BY <1>6, <2>1 DEF Suspend, Process
  <2>3. UNCHANGED <<executor, pc, child, returned>>
    BY <1>6 DEF Suspend
  <2>4. QED
    BY <2>2, <2>3 DEF SubshellShape, RootShape, ReturnedShape
<1>7. ASSUME NEW p \in Pid, NEW s \in ExitStatus, Finish(p, s)
      PROVE  OneSubshellAtATime'
  <2>1. child' = child /\ returned' = returned /\ pc' = [pc EXCEPT ![p] = "done"]
    BY <1>7 DEF Finish
  <2>2. CASE p = Root
    BY <1>7, <2>1, <2>2 DEF TypeOK, Finish, Code, SubshellShape, RootShape, ReturnedShape
  <2>3. CASE p # Root
    <3>1. p \in Subshells /\ pc[p] = "sync"
      BY <1>7, <2>3 DEF TypeOK, Finish, Code, SubshellShape
    <3>2. p = child[Root] /\ pc[Root] = "wait"
      BY <3>1 DEF RootShape
    <3>3. processes[p].state = Running /\ processes[p] \in Process
      BY <3>1 DEF SubshellShape, TypeOK
    <3>4. /\ DOMAIN processes' = DOMAIN processes
          /\ processes'[p] = SetState(processes[p], Exited(s))
          /\ \A d \in DOMAIN processes \ {p} : processes'[d] = processes[d]
      BY <1>7, <2>3, <3>1 DEF Finish, TypeOK
    <3>5. /\ processes'[p].ppid = processes[p].ppid
          /\ processes'[p].state = Exited(s)
          /\ processes'[p].changed
      BY <3>3, <3>4 DEF SetState, Process, Exited, Running
    <3>6. /\ pc'[p] = "done"
          /\ \A d \in DOMAIN processes \ {p} : pc'[d] = pc[d]
      BY <2>1, <3>1 DEF TypeOK
    <3>7. \A d \in Subshells' : SubshellShape(d)'
      BY <3>1, <3>4, <3>5, <3>6 DEF SubshellShape, Exited
    <3>8. RootShape'
      BY <2>1, <2>3, <3>1, <3>2, <3>4, <3>5, <3>6 DEF RootShape
    <3>9. ReturnedShape'
      BY <2>1, <3>2 DEF RootShape, ReturnedShape, NotReturned
    <3>10. QED
      BY <2>3, <3>4, <3>7, <3>8, <3>9
  <2>4. QED
    BY <2>2, <2>3
<1>8. ASSUME NEW c \in Pid, NEW s \in ProcessState, SignalProcess(c, s)
      PROVE  OneSubshellAtATime'
  BY <1>8 DEF CommandApi, SignalProcess
<1>9. CASE UNCHANGED vars
  BY <1>9 DEF vars, SubshellShape, RootShape, ReturnedShape
<1>10. QED
  BY <1>1, <1>2, <1>3, <1>4, <1>5, <1>6, <1>7, <1>8, <1>9 DEF Next, WaitPoll

LEMMA AlwaysOneSubshell ==
  ASSUME Api \subseteq CommandApi
  PROVE  Spec => []OneSubshellAtATime
<1>1. TypeOK /\ OneSubshellAtATime /\ [Next]_vars => OneSubshellAtATime'
  BY OneSubshellStep
<1>2. QED
  BY <1>1, OneSubshellInit, TypeCorrect, PTL DEF Spec

(* A shell that runs its commands one after another never meets a panic of *)
(* run_in_subshell, and gets the exit status of the very subshell it ran,  *)
(* however many commands it runs; and gets no error but for want of an     *)
(* executor.                                                               *)
THEOREM SubshellsFinish ==
  ASSUME Api \subseteq CommandApi
  PROVE  Spec => []SubshellFinished
<1>1. TypeOK /\ OneSubshellAtATime => SubshellFinished
  <2> SUFFICES ASSUME TypeOK, OneSubshellAtATime, NEW p \in Pid
               PROVE  /\ pc[p] \notin Panicked
                      /\ returned[p].result = "Ok" =>
                           /\ child[p] \in DOMAIN processes
                           /\ Terminated(processes[child[p]].state)
                           /\ returned[p].status = SubshellStatus(processes[child[p]].state)
                      /\ returned[p].result = "ENOSYS" => ~executor /\ child[p] = Nobody
                      /\ returned[p].result # "ECHILD"
    BY DEF SubshellFinished
  <2>1. pc[p] \notin Panicked
    BY DEF TypeOK, OneSubshellAtATime, Subshells, SubshellShape, RootShape, Panicked
  <2>2. ASSUME returned[p].result = "Ok"
        PROVE  /\ child[p] \in DOMAIN processes
               /\ Terminated(processes[child[p]].state)
               /\ returned[p].status = SubshellStatus(processes[child[p]].state)
    <3>1. p = Root
      BY <2>2 DEF OneSubshellAtATime, ReturnedShape, NotReturned
    <3>2. child[Root] \in Subshells
      BY <2>2, <3>1 DEF OneSubshellAtATime, ReturnedShape
    <3>3. pc[child[Root]] = "done"
      BY <2>2, <3>1, <3>2 DEF OneSubshellAtATime, RootShape, NotReturned
    <3>4. QED
      BY <2>2, <3>1, <3>2, <3>3
         DEF OneSubshellAtATime, Subshells, SubshellShape, ReturnedShape, Terminated
  <2>3. /\ returned[p].result = "ENOSYS" => ~executor /\ child[p] = Nobody
        /\ returned[p].result # "ECHILD"
    BY DEF OneSubshellAtATime, ReturnedShape, NotReturned
  <2>4. QED
    BY <2>1, <2>2, <2>3
<1>2. QED
  BY <1>1, TypeCorrect, AlwaysOneSubshell, PTL

(* Such a shell never waits in vain: while it is suspended its subshell    *)
(* still runs.                                                             *)
THEOREM NeverHopeless ==
  ASSUME Api \subseteq CommandApi
  PROVE  Spec => []NoHopelessWait
<1>1. TypeOK /\ OneSubshellAtATime /\ WakersInPlace => NoHopelessWait
  <2> SUFFICES ASSUME TypeOK, OneSubshellAtATime, WakersInPlace,
                      NEW p \in Pid, SuspendedWaiter(p)
               PROVE  \E c \in Children(p) : ~Terminated(processes[c].state)
    BY DEF NoHopelessWait
  <2>1. p = Root /\ pc[Root] = "wait"
    BY OnlyRootWaits DEF SuspendedWaiter
  <2>2. child[Root] \in Children(Root)
    BY <2>1 DEF OneSubshellAtATime, RootShape, SubshellShape, Subshells, Children
  <2>3. ~processes[child[Root]].changed
    BY <2>1, <2>2 DEF WakersInPlace
  <2>4. processes[child[Root]].state = Running
    BY <2>1, <2>3 DEF OneSubshellAtATime, RootShape, SubshellShape
  <2>5. QED
    BY <2>1, <2>2, <2>4 DEF Terminated, Running
<1>2. QED
  BY <1>1, TypeCorrect, AlwaysOneSubshell, WakersAlwaysInPlace, PTL

-----------------------------------------------------------------------------
(* The virtual system implements the contract of waitpid: what the         *)
(* refinement mapping makes of the process table.                          *)
StatusView == [p \in DOMAIN processes |-> processes[p].state]
ParentView == [p \in DOMAIN processes |-> processes[p].ppid]
DueView == {p \in DOMAIN processes : processes[p].changed}
WaitingView == {p \in Pid : pc[p] = "wait"}

(* A step that touches neither the states, the parents and the reported    *)
(* changes nor the waiters is a stutter of the contract.                   *)
LEMMA UnchangedTable ==
  ASSUME DOMAIN processes' = DOMAIN processes,
         \A p \in DOMAIN processes : /\ processes'[p].ppid = processes[p].ppid
                                     /\ processes'[p].state = processes[p].state
                                     /\ processes'[p].changed = processes[p].changed
  PROVE  UNCHANGED <<StatusView, ParentView, DueView>>
  BY DEF StatusView, ParentView, DueView

LEMMA StutterStep ==
  ASSUME UNCHANGED <<StatusView, ParentView, DueView, WaitingView, report>>
  PROVE  UNCHANGED W!vars
  BY DEF W!vars, StatusView, ParentView, DueView, WaitingView

(* A fork adds a running process with no change due.                       *)
LEMMA ForkStep ==
  ASSUME TypeOK, NEW p \in Pid, NEW c \in Pid, Fork(p, c), pc[p] = "async",
         WaitingView' \in {WaitingView, WaitingView \cup {p}}, report' = report
  PROVE  W!Next
<1>1. DOMAIN processes' = DOMAIN processes \cup {c} /\ c \notin DOMAIN processes
  BY ForkType
<1>2. /\ processes'[c] = WithParent(p)
      /\ \A q \in DOMAIN processes : processes'[q] = processes[q]
  BY <1>1 DEF Fork, SpawnTask
<1>3. p \in DOMAIN processes \ WaitingView
  BY DEF TypeOK, WaitingView
<1>4. StatusView' = [q \in DOMAIN StatusView \cup {c} |->
                       IF q = c THEN Running ELSE StatusView[q]]
  BY <1>1, <1>2 DEF StatusView, WithParent
<1>5. ParentView' = [q \in DOMAIN ParentView \cup {c} |->
                       IF q = c THEN p ELSE ParentView[q]]
  BY <1>1, <1>2 DEF ParentView, WithParent
<1>6. DueView' = DueView
  BY <1>1, <1>2 DEF DueView, WithParent
<1>7. W!Fork(p, c)
  BY <1>1, <1>3, <1>4, <1>5, <1>6
     DEF W!Fork, StatusView, ParentView, DueView, WaitingView
<1>8. QED
  BY <1>7 DEF W!Next

(* Setting another state of a process makes its change due.                *)
LEMMA ChangeStep ==
  ASSUME TypeOK, NEW c \in DOMAIN processes, NEW s \in ProcessState,
         processes' = [processes EXCEPT ![c] = SetState(@, s)],
         WaitingView' = WaitingView, report' = report
  PROVE  [W!Next]_W!vars
<1>1. processes[c] \in Process
  BY DEF TypeOK
<1>2. /\ DOMAIN processes' = DOMAIN processes
      /\ processes'[c] = SetState(processes[c], s)
      /\ \A q \in DOMAIN processes \ {c} : processes'[q] = processes[q]
  BY DEF TypeOK
<1>3. CASE s = processes[c].state
  <2>1. processes'[c] = processes[c]
    BY <1>2, <1>3 DEF SetState
  <2>2. QED
    BY <1>2, <2>1, UnchangedTable, StutterStep
<1>4. CASE s # processes[c].state
  <2>1. processes'[c].state = s /\ processes'[c].ppid = processes[c].ppid /\ processes'[c].changed
    BY <1>1, <1>2, <1>4 DEF SetState, Process
  <2>2. StatusView' = [StatusView EXCEPT ![c] = s]
    BY <1>2, <2>1 DEF StatusView
  <2>3. ParentView' = ParentView
    BY <1>2, <2>1 DEF ParentView
  <2>4. DueView' = DueView \cup {c}
    BY <1>2, <2>1 DEF DueView
  <2>5. W!Change(c, s)
    BY <1>4, <2>2, <2>3, <2>4 DEF W!Change, StatusView, ParentView, DueView, WaitingView
  <2>6. QED
    BY <2>5 DEF W!Next, TypeOK
<1>5. QED
  BY <1>3, <1>4

(* Every step of the virtual system is one of the contract or a stutter.   *)
LEMMA WaitpidStep ==
  ASSUME TypeOK, [Next]_vars
  PROVE  [W!Next]_W!vars
<1>1. ASSUME NEW p \in Pid, Poll(p) \/ SpuriousPoll(p) \/ Yield(p)
      PROVE  [W!Next]_W!vars
  <2>1. UNCHANGED <<StatusView, ParentView, DueView, WaitingView, report>>
    BY <1>1 DEF Poll, SpuriousPoll, Yield, StatusView, ParentView, DueView, WaitingView
  <2>2. QED
    BY <2>1, StutterStep
<1>2. ASSUME NEW p \in Pid, Spawn(p) \/ StartSubshell(p)
      PROVE  [W!Next]_W!vars
  <2>1. PICK c \in Pid : Fork(p, c) /\ pc' = [pc EXCEPT ![c] = IF Spawn(p) THEN "async" ELSE "sync"]
    BY <1>2 DEF Spawn, StartSubshell
  <2>2. c \notin DOMAIN processes
    BY <2>1, ForkType
  <2>3. WaitingView' = WaitingView
    BY <2>1, <2>2 DEF WaitingView, TypeOK
  <2>4. pc[p] = "async" /\ report' = report
    BY <1>2 DEF Spawn, StartSubshell
  <2>5. QED
    BY <2>1, <2>3, <2>4, ForkStep
<1>3. ASSUME NEW p \in Pid, RunInSubshell(p)
      PROVE  [W!Next]_W!vars
  <2>1. pc[p] = "async" /\ report' = report
    BY <1>3 DEF RunInSubshell
  <2>2. CASE UNCHANGED <<processes, pc, ready>>
    <3>1. UNCHANGED <<StatusView, ParentView, DueView, WaitingView, report>>
      BY <2>1, <2>2 DEF StatusView, ParentView, DueView, WaitingView
    <3>2. QED
      BY <3>1, StutterStep
  <2>3. CASE \E c \in Pid : Fork(p, c) /\ pc' = [pc EXCEPT ![c] = "sync", ![p] = "wait"]
    <3>1. PICK c \in Pid : Fork(p, c) /\ pc' = [pc EXCEPT ![c] = "sync", ![p] = "wait"]
      BY <2>3
    <3>2. c \notin DOMAIN processes /\ p \in DOMAIN processes
      BY <2>1, <3>1, ForkType DEF TypeOK
    <3>3. WaitingView' = WaitingView \cup {p}
      BY <3>1, <3>2 DEF WaitingView, TypeOK
    <3>4. QED
      BY <2>1, <3>1, <3>3, ForkStep
  <2>4. QED
    BY <1>3, <2>2, <2>3 DEF RunInSubshell
<1>4. ASSUME NEW p \in Pid, WaitSync(p)
      PROVE  [W!Next]_W!vars
  <2>1. p \in DOMAIN processes \ WaitingView
    BY <1>4 DEF WaitSync, TypeOK, WaitingView
  <2>2. WaitingView' = WaitingView \cup {p}
    BY <1>4 DEF WaitSync, TypeOK, WaitingView
  <2>3. UNCHANGED <<StatusView, ParentView, DueView, report>>
    BY <1>4 DEF WaitSync, StatusView, ParentView, DueView
  <2>4. W!BeginWait(p)
    BY <2>1, <2>2, <2>3 DEF W!BeginWait, StatusView, ParentView, DueView, WaitingView
  <2>5. QED
    BY <2>4 DEF W!Next
<1>5. ASSUME NEW p \in Pid, ReportChild(p)
      PROVE  [W!Next]_W!vars
  <2>1. PICK c \in ChangedChildren(p) :
          /\ processes' = [processes EXCEPT ![c] = Reported(@)]
          /\ report' = [report EXCEPT ![p] = <<c, processes[c].state>>]
          /\ pc' = [pc EXCEPT ![p] = AfterReport(p, c)]
    BY <1>5 DEF ReportChild, ToWaitStatus, FirstChanged
  <2>2. c \in DOMAIN processes /\ processes[c].ppid = p /\ processes[c].changed
    BY <2>1 DEF ChangedChildren, Children
  <2>3. /\ DOMAIN processes' = DOMAIN processes
        /\ ~processes'[c].changed
        /\ \A d \in DOMAIN processes : /\ processes'[d].ppid = processes[d].ppid
                                       /\ processes'[d].state = processes[d].state
                                       /\ d # c => processes'[d].changed = processes[d].changed
    <3>1. \A d \in DOMAIN processes : processes[d] \in Process
      BY DEF TypeOK
    <3>2. QED
      BY <2>1, <2>2, <3>1 DEF Reported, Process
  <2>4. StatusView' = StatusView /\ ParentView' = ParentView /\ DueView' = DueView \ {c}
    BY <2>3 DEF StatusView, ParentView, DueView
  <2>5. p \in WaitingView /\ WaitingView' = WaitingView \ {p}
    <3>1. AfterReport(p, c) # "wait"
      BY DEF AfterReport
    <3>2. QED
      BY <1>5, <2>1, <3>1 DEF ReportChild, ToWaitStatus, WaitingView, TypeOK
  <2>6. /\ c \in DueView /\ ParentView[c] = p
        /\ report' = [report EXCEPT ![p] = <<c, StatusView[c]>>]
    BY <2>1, <2>2 DEF DueView, ParentView, StatusView
  <2>7. W!Report(p)
    BY <2>4, <2>5, <2>6 DEF W!Report, StatusView, ParentView, DueView, WaitingView
  <2>8. QED
    BY <2>7 DEF W!Next
<1>6. ASSUME NEW p \in Pid, NoChild(p)
      PROVE  [W!Next]_W!vars
  <2>1. UNCHANGED <<StatusView, ParentView, DueView>>
    BY <1>6 DEF NoChild, StatusView, ParentView, DueView
  <2>2. p \in WaitingView /\ WaitingView' = WaitingView \ {p}
    BY <1>6 DEF NoChild, WaitingView, TypeOK
  <2>3. \A c \in DOMAIN ParentView : ParentView[c] # p
    BY <1>6 DEF NoChild, Children, ParentView
  <2>4. W!Fail(p)
    BY <1>6, <2>1, <2>2, <2>3 DEF NoChild, W!Fail, StatusView, ParentView, DueView, WaitingView
  <2>5. QED
    BY <2>4 DEF W!Next
<1>7. ASSUME NEW p \in Pid, Suspend(p)
      PROVE  [W!Next]_W!vars
  <2>1. \A d \in DOMAIN processes : processes[d] \in Process
    BY DEF TypeOK
  <2>2. /\ DOMAIN processes' = DOMAIN processes
        /\ \A d \in DOMAIN processes : /\ processes'[d].ppid = processes[d].ppid
                                       /\ processes'[d].state = processes[d].state
                                       /\ processes'[d].changed = processes[d].changed
    BY <1>7, <2>1 DEF Suspend, Process
  <2>3. WaitingView' = WaitingView /\ report' = report
    BY <1>7 DEF Suspend, WaitingView
  <2>4. QED
    BY <2>2, <2>3, UnchangedTable, StutterStep
<1>8. ASSUME NEW p \in Pid, NEW s \in ExitStatus, Finish(p, s)
      PROVE  [W!Next]_W!vars
  <2>1. WaitingView' = WaitingView /\ report' = report
    BY <1>8 DEF Finish, WaitingView, TypeOK, Code
  <2>2. CASE p = Root
    <3>1. processes' = processes
      BY <1>8, <2>2 DEF Finish
    <3>2. UNCHANGED <<StatusView, ParentView, DueView>>
      BY <3>1 DEF StatusView, ParentView, DueView
    <3>3. QED
      BY <2>1, <3>2, StutterStep
  <2>3. CASE p # Root
    <3>1. p \in DOMAIN processes
      BY <1>8 DEF TypeOK, Finish, Code
    <3>2. processes' = [processes EXCEPT ![p] = SetState(@, Exited(s))]
      BY <1>8, <2>3 DEF Finish
    <3>3. QED
      BY <2>1, <3>1, <3>2, ExitedType, ChangeStep
  <2>4. QED
    BY <2>2, <2>3
<1>9. ASSUME NEW c \in Pid, NEW s \in ProcessState, SignalProcess(c, s)
      PROVE  [W!Next]_W!vars
  <2>1. WaitingView' = WaitingView /\ report' = report
    BY <1>9 DEF SignalProcess, WaitingView
  <2>2. QED
    BY <1>9, <2>1, ChangeStep DEF SignalProcess
<1>10. CASE UNCHANGED vars
  <2>1. UNCHANGED <<StatusView, ParentView, DueView, WaitingView, report>>
    BY <1>10 DEF vars, StatusView, ParentView, DueView, WaitingView
  <2>2. QED
    BY <2>1, StutterStep
<1>11. QED
  BY <1>1, <1>2, <1>3, <1>4, <1>5, <1>6, <1>7, <1>8, <1>9, <1>10 DEF Next, WaitPoll

(* wait_sync of the virtual system keeps waitpid's safety contract for any *)
(* number of processes, signals and interleavings.                         *)
THEOREM ImplementsWaitpid == Spec => WaitpidSafety
<1>1. Init => W!Init
  <2> SUFFICES ASSUME Init PROVE W!Init
    OBVIOUS
  <2>1. StatusView = [p \in {Root} |-> Running] /\ ParentView = [p \in {Root} |-> RootParent]
    BY DEF Init, WithParent, StatusView, ParentView
  <2>2. DueView = {} /\ WaitingView = {}
    BY DEF Init, WithParent, DueView, WaitingView
  <2>3. QED
    BY <2>1, <2>2 DEF Init, W!Init, StatusView, ParentView, DueView, WaitingView
<1>2. TypeOK /\ [Next]_vars => [W!Next]_W!vars
  BY WaitpidStep
<1>3. QED
  BY <1>1, <1>2, TypeCorrect, PTL DEF Spec, WaitpidSafety
=============================================================================
