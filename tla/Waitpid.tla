------------------------------ MODULE Waitpid ------------------------------
(***************************************************************************)
(* What `System::wait_sync` promises its caller, whatever implements it:   *)
(* the contract of a thin wrapper around waitpid(-1).  A status change of  *)
(* a child stays due until a wait of its parent reports it; a report names *)
(* one child and its present status, and uses up the change; a wait fails  *)
(* only when the caller has no child; and a parent that waits while a      *)
(* report is due gets one.                                                 *)
(***************************************************************************)
CONSTANTS Pid,      \* process IDs
          Status,   \* values of a process status
          Root, RootParent, \* the first process and its parent
          Started,  \* the status of a process that has just been created
          NoReport  \* result of a wait that has not reported anything

VARIABLES status,   \* status of each existing process
          parent,   \* parent of each existing process
          due,      \* processes whose last change has not been reported
          waiting,  \* processes that are inside a wait
          report    \* what the last wait of each process reported

vars == <<status, parent, due, waiting, report>>

Init == /\ status = [p \in {Root} |-> Started]
        /\ parent = [p \in {Root} |-> RootParent]
        /\ due = {}
        /\ waiting = {}
        /\ report = [p \in Pid |-> NoReport]

(* A process outside a wait creates a child; nothing is due for it yet.    *)
(* It may go on to wait in the same step.                                  *)
Fork(p, c) == /\ p \in DOMAIN status \ waiting
              /\ c \notin DOMAIN status
              /\ status' = [q \in DOMAIN status \cup {c} |->
                              IF q = c THEN Started ELSE status[q]]
              /\ parent' = [q \in DOMAIN parent \cup {c} |->
                              IF q = c THEN p ELSE parent[q]]
              /\ waiting' \in {waiting, waiting \cup {p}}
              /\ UNCHANGED <<due, report>>

Change(c, s) == /\ c \in DOMAIN status
                /\ s # status[c]
                /\ status' = [status EXCEPT ![c] = s]
                /\ due' = due \cup {c}
                /\ UNCHANGED <<parent, waiting, report>>

BeginWait(p) == /\ p \in DOMAIN status \ waiting
                /\ waiting' = waiting \cup {p}
                /\ UNCHANGED <<status, parent, due, report>>

(* The wait of p returns the present status of one of its due children.    *)
Report(p) == /\ p \in waiting
             /\ \E c \in due : /\ parent[c] = p
                               /\ report' = [report EXCEPT ![p] = <<c, status[c]>>]
                               /\ due' = due \ {c}
             /\ waiting' = waiting \ {p}
             /\ UNCHANGED <<status, parent>>

(* ECHILD: the caller has no child.                                        *)
Fail(p) == /\ p \in waiting
           /\ \A c \in DOMAIN parent : parent[c] # p
           /\ waiting' = waiting \ {p}
           /\ report' = [report EXCEPT ![p] = NoReport]
           /\ UNCHANGED <<status, parent, due>>

Next == \/ \E p, c \in Pid : Fork(p, c)
        \/ \E c \in Pid, s \in Status : Change(c, s)
        \/ \E p \in Pid : BeginWait(p) \/ Report(p) \/ Fail(p)

Fairness == \A p \in Pid : WF_vars(Report(p))

Spec == Init /\ [][Next]_vars /\ Fairness
=============================================================================
