---------------------------- MODULE Shell_proofs ----------------------------
(***************************************************************************)
(* Proofs about Shell, for any number of processes, any input, commands,   *)
(* files and $PATH: types, the order in which commands are executed, the   *)
(* children of the shell, the exit status of utilities and the command     *)
(* search.                                                                 *)
(***************************************************************************)
EXTENDS Shell, SequenceTheorems, WellFoundedInduction, TLAPS

-----------------------------------------------------------------------------
(* Types                                                                   *)

(* What a process remembers, when it goes on elsewhere                     *)
MemoryAt(l) == {m \in Memory : m.pc = l}

LEMMA Statuses == NOEXEC \in Int /\ NOT_FOUND \in Int /\ SUCCESS \in Int
  BY DEF NOEXEC, NOT_FOUND, SUCCESS

LEMMA MemoryChanges ==
  ASSUME NEW m \in Memory, NEW l \in Place
  PROVE  /\ [m EXCEPT !.pc = l] \in MemoryAt(l)
         /\ [m EXCEPT !.pc = l].dir = m.dir
         /\ \A s \in Int : [m EXCEPT !.pc = l, !.status = s] \in MemoryAt(l)
         /\ \A c \in Pid \cup {Nobody} : [m EXCEPT !.pc = l, !.child = c] \in MemoryAt(l)
         /\ \A s \in Int, c \in Pid \cup {Nobody} :
              [m EXCEPT !.pc = l, !.status = s, !.child = c] \in MemoryAt(l)
         /\ \A t \in (Dir \cup {Here}) \X (Name \cup {Nothing}) :
              [m EXCEPT !.pc = l, !.target = t] \in MemoryAt(l)
         /\ \A d \in 1..Len(Path) + 1 : [m EXCEPT !.pc = l, !.dir = d] \in MemoryAt(l)
         /\ \A e \in Errno, s \in Int :
              [m EXCEPT !.errno = e, !.status = s, !.pc = l] \in MemoryAt(l)
         /\ \A items \in Seq(ParsedCommand), command \in ParsedCommand :
              [m EXCEPT !.items = items, !.command = command, !.pc = l] \in MemoryAt(l)
         /\ \A aliases \in AliasSet, s \in Int :
              [m EXCEPT !.aliases = aliases, !.pc = l, !.status = s] \in MemoryAt(l)
         /\ [m EXCEPT !.pc = l, !.open = FALSE] \in MemoryAt(l)
  BY DEF Memory, MemoryAt

LEMMA ReadingChanges ==
  ASSUME NEW m \in Memory
  PROVE  /\ \A items \in Seq(ParsedCommand) : [m EXCEPT !.items = items] \in MemoryAt(m.pc)
         /\ [m EXCEPT !.open = TRUE] \in MemoryAt(m.pc)
         /\ NewParser(m) \in MemoryAt(m.pc)
<1>1. <<>> \in Seq(ParsedCommand)
  OBVIOUS
<1>2. QED
  BY <1>1 DEF Memory, MemoryAt, NewParser

LEMMA AliasType ==
  ASSUME NEW aliases \in AliasSet, NEW name \in Name \cup {Nothing}
  PROVE  Substituted(name, aliases) \in Name \cup {Nothing}
  BY DEF AliasSet, Substituted

LEMMA ParsedType ==
  ASSUME NEW l \in Line, NEW aliases \in AliasSet, reads \in Nat
  PROVE  Parsed(l, aliases) \in Seq(ParsedCommand)
<1>1. l.items \in Seq(Item) /\ \A i \in DOMAIN l.items : l.items[i] # <<>> /\ l.items[i][1] # <<>>
  BY LineAssumption
<1>2. Len(l.items) \in Nat /\ DOMAIN l.items = 1..Len(l.items)
  BY <1>1
<1>3. ASSUME NEW i \in 1..Len(l.items)
      PROVE  Parsed(l, aliases)[i] \in ParsedCommand
  <2>1. l.items[i] \in Seq(Seq(Command)) /\ l.items[i] # <<>>
    BY <1>1, <1>2, ElementOfSeq DEF Item
  <2>2. l.items[i][1] \in Seq(Command) /\ l.items[i][1] # <<>>
    <3> DEFINE list == l.items[i]
               S == Seq(Command)
    <3>1. list \in Seq(S) /\ list # <<>> /\ list[1] # <<>>
      BY <1>1, <1>2, <2>1
    <3> HIDE DEF list, S
    <3>2. 1 \in 1..Len(list)
      BY <3>1, EmptySeq, LenProperties
    <3>3. list[1] \in S
      BY <3>1, <3>2, ElementOfSeq
    <3>4. QED
      BY <3>1, <3>3 DEF list, S
  <2>3. l.items[i][1][1] \in Command
    BY <2>2
  <2>4. MaxItems * reads + i \in Nat
    <3>1. MaxItems * reads \in Nat
      BY BoundAssumption
    <3>2. QED
      BY <3>1, <1>2
  <2>5. Substituted(l.items[i][1][1].name, aliases) \in Name \cup {Nothing}
    BY <2>3, AliasType DEF Command
  <2>6. QED
    BY <1>2, <2>3, <2>4, <2>5 DEF Parsed, ParsedCommand, Command
<1>4. Parsed(l, aliases) = [i \in 1..Len(l.items) |-> Parsed(l, aliases)[i]]
  BY <1>2 DEF Parsed
<1>5. QED
  BY <1>2, <1>3, <1>4

(* Aliases that have been defined stay, and the new ones have names too.   *)
LEMMA DefinedType ==
  ASSUME NEW aliases \in AliasSet, NEW defines \in Seq(Definition)
  PROVE  Defined(aliases, defines) \in AliasSet
<1> DEFINE names == {defines[i].name : i \in DOMAIN defines}
           domain == DOMAIN aliases \cup names
           first(n) == CHOOSE i \in DOMAIN defines :
                         defines[i].name = n /\ \A j \in 1..i - 1 : defines[j].name # n
<1>1. \A i \in DOMAIN defines : defines[i] \in Definition
  OBVIOUS
<1>2. PICK N \in SUBSET Name : aliases \in [N -> Name]
  BY DEF AliasSet
<1>3. domain \in SUBSET Name
  BY <1>1, <1>2 DEF Definition
<1>4. ASSUME NEW n \in names
      PROVE  first(n) \in DOMAIN defines
  <2> DEFINE before == {ij \in Nat \X Nat : ij[1] < ij[2]}
             places == {i \in DOMAIN defines : defines[i].name = n}
  <2>1. Len(defines) \in Nat /\ DOMAIN defines = 1..Len(defines)
    OBVIOUS
  <2>2. IsWellFoundedOn(before, Nat)
    BY NatLessThanWellFounded DEF OpToRel
  <2>3. places # {} /\ places \subseteq Nat
    BY <1>4, <2>1
  <2>4. PICK i \in places : \A j \in places : <<j, i>> \notin before
    <3> HIDE DEF before, places
    <3>1. QED
      BY <2>2, <2>3, WFMin
  <2>5. defines[i].name = n /\ \A j \in 1..i - 1 : defines[j].name # n
    <3>1. ASSUME NEW j \in 1..i - 1
          PROVE  defines[j].name # n
      <4>1. i \in Nat /\ j \in Nat /\ j < i /\ j \in DOMAIN defines
        BY <2>1
      <4>2. <<j, i>> \in before
        BY <4>1
      <4>3. QED
        BY <2>4, <4>1, <4>2
    <3>2. QED
      BY <3>1
  <2>6. QED
    BY <2>4, <2>5
<1>5. \A n \in domain : (IF n \in DOMAIN aliases THEN aliases[n] ELSE defines[first(n)].replacement) \in Name
  BY <1>1, <1>2, <1>4 DEF Definition
<1>6. Defined(aliases, defines) \in [domain -> Name]
  BY <1>5 DEF Defined
<1>7. QED
  BY <1>3, <1>6 DEF AliasSet

(* A process goes on with another memory, or ends.                         *)
LEMMA BecomesType ==
  ASSUME TypeOK, NEW p \in Pid, NEW m, Becomes(p, m),
         \/ \E l \in Place \ {"access"} : m \in MemoryAt(l)
         \/ m \in Memory /\ m.dir \in DOMAIN Path
  PROVE  /\ memory' \in [Pid -> Memory]
         /\ \A q \in Pid : memory'[q].pc = "access" => memory'[q].dir \in DOMAIN Path
<1>1. m \in Memory /\ (m.pc = "access" => m.dir \in DOMAIN Path)
  BY DEF MemoryAt
<1>2. QED
  BY <1>1 DEF TypeOK, Becomes

LEMMA ExitedProperties ==
  ASSUME NEW s \in Int
  PROVE  /\ Exited(s) \in {Exited(t) : t \in 0..255}
         /\ Exited(s).value \in 0..255
<1>1. s % 256 \in 0..255 /\ (s % 256) % 256 = s % 256
  OBVIOUS
<1>2. QED
  BY <1>1 DEF Exited

LEMMA EndsType ==
  ASSUME TypeOK, NEW p \in Pid, NEW state \in {Killed} \cup {Exited(s) : s \in Int},
         Ends(p, state), started.ignored \in BOOLEAN
  PROVE  /\ kernel' \in [Pid -> Process]
         /\ \A q \in Pid : kernel'[q].state.value \in 0..255
<1>1. state \in ProcessState /\ state.value \in 0..255
  BY ExitedProperties DEF ProcessState, Killed
<1>2. kernel \in [Pid -> Process] /\ kernel[p] \in Process
  BY DEF TypeOK
<1>3. [kernel[p] EXCEPT !.state = state, !.reaped = started.ignored] \in Process
  BY <1>1, <1>2 DEF Process
<1>4. kernel' = [kernel EXCEPT ![p] = [kernel[p] EXCEPT !.state = state, !.reaped = started.ignored]]
  BY <1>2 DEF Ends, Process
<1>5. [kernel[p] EXCEPT !.state = state, !.reaped = started.ignored].state = state
  BY <1>2 DEF Process
<1>6. QED
  BY <1>1, <1>2, <1>3, <1>4, <1>5 DEF TypeOK

StartedOK == started \in [ignored : BOOLEAN, children : SUBSET Inheritable]

LEMMA InitTyped == Init => TypeOK
<1> SUFFICES ASSUME Init PROVE TypeOK
  OBVIOUS
<1>1. kernel \in [Pid -> Process] /\ \A p \in Pid : kernel[p].state.value \in 0..255
  <2>1. Root \in Pid /\ Unused.value \in 0..255 /\ Alive.value \in 0..255
    BY PidAssumption DEF Unused, Alive
  <2>2. QED
    BY <2>1 DEF Init, Process, ProcessState
<1>2. \A p \in Pid : InitialMemory(p) \in Memory /\ InitialMemory(p).pc # "access"
  <2>1. <<>> \in AliasSet
    <3>1. <<>> \in [{} -> Name]
      OBVIOUS
    <3>2. QED
      BY <3>1 DEF AliasSet
  <2>2. NoCommand \in ParsedCommand
    BY DEF NoCommand, ParsedCommand
  <2>3. Len(Path) \in Nat
    BY PathAssumption
  <2>4. <<>> \in Seq(ParsedCommand)
    OBVIOUS
  <2>5. QED
    BY <2>1, <2>2, <2>3, <2>4 DEF InitialMemory, Memory, Place, Searching, SUCCESS
<1>3. files \in [File -> FileKind] /\ reads \in 0..MaxLines /\ changes \in 0..MaxChanges
  BY BoundAssumption DEF Init
<1>4. memory \in [Pid -> Memory] /\ \A p \in Pid : memory[p].pc # "access"
  BY <1>2 DEF Init
<1>5. failed \in BOOLEAN /\ log \in Seq(Nat)
  <2>1. <<>> \in Seq(Nat)
    OBVIOUS
  <2>2. QED
    BY <2>1 DEF Init
<1>6. QED
  BY <1>1, <1>3, <1>4, <1>5 DEF TypeOK

LEMMA StepTyped == TypeOK /\ StartedOK /\ [Next]_vars => TypeOK'
<1> SUFFICES ASSUME TypeOK, StartedOK, [Next]_vars
             PROVE  TypeOK'
  OBVIOUS
<1> DEFINE MemoryOK == /\ memory \in [Pid -> Memory]
                       /\ \A p \in Pid : memory[p].pc = "access" => memory[p].dir \in DOMAIN Path
           KernelOK == /\ kernel \in [Pid -> Process]
                       /\ \A p \in Pid : kernel[p].state.value \in 0..255
<1>0. /\ MemoryOK /\ KernelOK
      /\ \A p \in Pid : memory[p] \in Memory
      /\ \A p \in Pid : memory[p].items \in Seq(ParsedCommand) /\ memory[p].aliases \in AliasSet
      /\ \A p \in Pid : memory[p].command \in ParsedCommand /\ memory[p].status \in Int
      /\ \A p \in Pid : memory[p].dir \in 1..Len(Path) + 1
      /\ reads \in 0..MaxLines /\ changes \in 0..MaxChanges /\ failed \in BOOLEAN
      /\ files \in [File -> FileKind] /\ log \in Seq(Nat)
      /\ reads \in Nat /\ Len(Path) \in Nat /\ DOMAIN Path = 1..Len(Path)
  BY BoundAssumption, PathAssumption DEF TypeOK, Memory
<1>1. ASSUME NEW p \in Pid, ReadLine(p) PROVE TypeOK'
  <2>1. PICK l \in Line :
          Becomes(p, LET m == [memory[p] EXCEPT !.items = @ \o Parsed(l, memory[p].aliases)]
                     IN CASE l.end = "complete" -> [m EXCEPT !.pc = "next", !.open = FALSE]
                          [] l.end = "open" -> [m EXCEPT !.open = TRUE]
                          [] l.end = "error" -> NewParser(m))
    BY <1>1 DEF ReadLine
  <2> DEFINE m == [memory[p] EXCEPT !.items = @ \o Parsed(l, memory[p].aliases)]
             n == CASE l.end = "complete" -> [m EXCEPT !.pc = "next", !.open = FALSE]
                    [] l.end = "open" -> [m EXCEPT !.open = TRUE]
                    [] l.end = "error" -> NewParser(m)
  <2>2. m \in MemoryAt("read")
    <3>1. Parsed(l, memory[p].aliases) \in Seq(ParsedCommand)
      BY <1>0, ParsedType
    <3>2. memory[p].items \o Parsed(l, memory[p].aliases) \in Seq(ParsedCommand)
      BY <1>0, <3>1
    <3>3. QED
      BY <1>0, <1>1, <3>2, ReadingChanges DEF ReadLine, At
  <2>3. \E k \in {"next", "read"} : n \in MemoryAt(k)
    <3>1. m \in Memory /\ m.pc = "read"
      BY <2>2 DEF MemoryAt
    <3> HIDE DEF m
    <3>2. QED
      BY <3>1, MemoryChanges, ReadingChanges, LineAssumption DEF LineEnd, Place, Searching
  <2>4. Becomes(p, n)
    BY <2>1
  <2> HIDE DEF n, m
  <2>5. MemoryOK'
    BY <2>3, <2>4, BecomesType DEF Place, Searching
  <2>6. reads' \in 0..MaxLines
    BY <1>0, <1>1, BoundAssumption DEF ReadLine
  <2>7. QED
    BY <1>0, <1>1, <2>5, <2>6 DEF ReadLine, TypeOK
<1>2. ASSUME NEW p \in Pid, ReadEnd(p) \/ ReadError(p) PROVE TypeOK'
  <2>1. \E l \in {"read", "exit"} : \E m \in MemoryAt(l) : Becomes(p, m)
    BY <1>0, <1>2, MemoryChanges, ReadingChanges DEF ReadEnd, ReadError, At, Place
  <2>2. MemoryOK'
    BY <2>1, BecomesType DEF Place, Searching
  <2>3. QED
    BY <1>0, <1>2, <2>2 DEF ReadEnd, ReadError, TypeOK
<1>3. ASSUME NEW p \in Pid, NextCommand(p) PROVE TypeOK'
  <2>1. CASE memory[p].items = <<>>
    <3>1. [memory[p] EXCEPT !.pc = "read"] \in MemoryAt("read")
      BY <1>0, MemoryChanges DEF Place
    <3>2. MemoryOK'
      BY <1>3, <2>1, <3>1, BecomesType DEF NextCommand, Goes, Place, Searching
    <3>3. QED
      BY <1>0, <1>3, <2>1, <3>2 DEF NextCommand, TypeOK
  <2>2. CASE memory[p].items # <<>>
    <3> DEFINE command == Head(memory[p].items)
               items == Tail(memory[p].items)
               m == [memory[p] EXCEPT !.items = items, !.command = command, !.pc = "search"]
    <3>1. command \in ParsedCommand /\ items \in Seq(ParsedCommand)
      BY <1>0, <2>2
    <3> HIDE DEF command, items
    <3>2. m \in MemoryAt("search")
      BY <1>0, <3>1, MemoryChanges DEF Place, Searching
    <3>3. Becomes(p, m) /\ log' = Append(log, command.number)
      BY <1>3, <2>2 DEF NextCommand, command, items
    <3>4. log' \in Seq(Nat)
      BY <1>0, <3>1, <3>3 DEF ParsedCommand
    <3>5. MemoryOK'
      BY <3>2, <3>3, BecomesType DEF Place, Searching
    <3>6. QED
      BY <1>0, <1>3, <3>4, <3>5 DEF NextCommand, TypeOK
  <2>3. QED
    BY <2>1, <2>2
<1>4. ASSUME NEW p \in Pid, Search(p) PROVE TypeOK'
  <2> DEFINE name == memory[p].command.name
  <2>1. name \in Slash => <<Here, name>> \in (Dir \cup {Here}) \X (Name \cup {Nothing})
    BY NameAssumption
  <2>2. \E l \in {"next", "builtin", "fork", "stat"} : \E m \in MemoryAt(l) : Becomes(p, m)
    <3>1. 1 \in 1..Len(Path) + 1
      BY <1>0
    <3>2. QED
      BY <1>0, <1>4, <2>1, <3>1, MemoryChanges DEF Search, Goes, Place, Searching
  <2>3. MemoryOK'
    BY <2>2, BecomesType DEF Place, Searching
  <2>4. QED
    BY <1>0, <1>4, <2>3 DEF Search, TypeOK
<1>5. ASSUME NEW p \in Pid, Stat(p) \/ Access(p) \/ CommandNotFound(p) PROVE TypeOK'
  <2>1. MemoryOK'
    <3>1. CASE Stat(p)
      <4>1. memory[p].dir \in DOMAIN Path /\ memory[p].dir + 1 \in 1..Len(Path) + 1
        BY <1>0, <3>1 DEF Stat
      <4>2. /\ [memory[p] EXCEPT !.pc = "stat", !.dir = memory[p].dir + 1] \in MemoryAt("stat")
            /\ [memory[p] EXCEPT !.pc = "access"] \in MemoryAt("access")
            /\ [memory[p] EXCEPT !.pc = "access"].dir = memory[p].dir
        BY <1>0, <4>1, MemoryChanges DEF Place, Searching
      <4>3. QED
        BY <3>1, <4>1, <4>2, BecomesType DEF Stat, NextDir, Goes, Place, Searching, MemoryAt
    <3>2. CASE Access(p)
      <4>1. memory[p].dir \in DOMAIN Path /\ memory[p].dir + 1 \in 1..Len(Path) + 1
        BY <1>0, <3>2 DEF Access, At
      <4>2. Candidate(p) \in (Dir \cup {Here}) \X (Name \cup {Nothing})
        BY <1>0, <4>1, PathAssumption DEF Candidate, ParsedCommand
      <4>3. /\ [memory[p] EXCEPT !.pc = "stat", !.dir = memory[p].dir + 1] \in MemoryAt("stat")
            /\ [memory[p] EXCEPT !.pc = "builtin"] \in MemoryAt("builtin")
            /\ [memory[p] EXCEPT !.pc = "fork", !.target = Candidate(p)] \in MemoryAt("fork")
        BY <1>0, <4>1, <4>2, MemoryChanges DEF Place, Searching
      <4>4. QED
        BY <3>2, <4>3, BecomesType DEF Access, NextDir, Goes, Place, Searching
    <3>3. CASE CommandNotFound(p)
      <4>1. [memory[p] EXCEPT !.pc = "next", !.status = NOT_FOUND] \in MemoryAt("next")
        BY <1>0, MemoryChanges, Statuses DEF Place
      <4>2. QED
        BY <3>3, <4>1, BecomesType DEF CommandNotFound, Done, Place, Searching
    <3>4. QED
      BY <1>5, <3>1, <3>2, <3>3
  <2>2. QED
    BY <1>0, <1>5, <2>1 DEF Stat, Access, CommandNotFound, TypeOK
<1>6. ASSUME NEW p \in Pid, ExecuteBuiltin(p) PROVE TypeOK'
  <2> DEFINE command == memory[p].command
  <2>1. command.defines \in Seq(Definition) /\ command.operands \in Seq(Operand)
    BY <1>0 DEF ParsedCommand
  <2>2. Defined(memory[p].aliases, command.defines) \in AliasSet
    BY <1>0, <2>1, DefinedType
  <2>3. ReturnStatus(command.operands) \in Int
    <3>1. Len(command.operands) >= 2 => command.operands[2] \in Operand
      BY <2>1, ElementOfSeq
    <3>2. Len(command.operands) \in Nat
      BY <2>1
    <3>3. CASE Len(command.operands) < 2
      BY <3>3, Statuses DEF ReturnStatus
    <3>4. CASE Len(command.operands) >= 2
      BY <3>1, <3>2, <3>4 DEF ReturnStatus, Operand
    <3>5. QED
      BY <3>2, <3>3, <3>4
  <2>4. \E m \in MemoryAt("next") : Becomes(p, m)
    <3>1. \A s \in Int : [memory[p] EXCEPT !.pc = "next", !.status = s] \in MemoryAt("next")
      BY <1>0, MemoryChanges DEF Place
    <3>2. [memory[p] EXCEPT !.aliases = Defined(memory[p].aliases, command.defines),
                            !.pc = "next", !.status = SUCCESS] \in MemoryAt("next")
      BY <1>0, <2>2, MemoryChanges, Statuses DEF Place
    <3>3. Status \subseteq Int
      BY StatusAssumption
    <3>4. QED
      BY <1>6, <2>3, <3>1, <3>2, <3>3 DEF ExecuteBuiltin, Done
  <2>5. MemoryOK'
    BY <2>4, BecomesType DEF Place, Searching
  <2>6. QED
    BY <1>0, <1>6, <2>5 DEF ExecuteBuiltin, TypeOK
<1>7. ASSUME NEW p \in Pid, Fork(p) PROVE TypeOK'
  <2>1. PICK c \in Pid :
          /\ kernel[c].state = Unused
          /\ kernel' = [kernel EXCEPT ![c] = [parent |-> p, state |-> Alive, reaped |-> FALSE]]
          /\ memory' = [memory EXCEPT ![c] = [memory[p] EXCEPT !.pc = "execve"],
                                      ![p] = Waits(@, c)]
    BY <1>7 DEF Fork
  <2>2. c # p
    BY <1>7, <2>1 DEF Fork, At, Unused, Alive
  <2>3. /\ [memory[p] EXCEPT !.pc = "execve"] \in MemoryAt("execve")
        /\ Waits(memory[p], c) \in MemoryAt("wait")
    BY <1>0, MemoryChanges DEF Place, Waits
  <2>4. KernelOK'
    BY <1>0, <2>1 DEF Process, ProcessState, Alive
  <2>5. MemoryOK'
    BY <1>0, <2>1, <2>2, <2>3 DEF MemoryAt
  <2>6. QED
    BY <1>0, <1>7, <2>4, <2>5 DEF Fork, TypeOK
<1>8. ASSUME NEW p \in Pid, ForkFails(p) \/ Execve(p) PROVE TypeOK'
  <2>1. CASE ForkFails(p)
    <3>1. \E m \in MemoryAt("next") : Becomes(p, m)
      BY <1>0, <2>1, MemoryChanges, Statuses DEF ForkFails, Place
    <3>2. MemoryOK'
      BY <3>1, BecomesType DEF Place, Searching
    <3>3. QED
      BY <1>0, <2>1, <3>2 DEF ForkFails, TypeOK
  <2>2. CASE Execve(p)
    <3>1. KindOf(memory[p].target) \in {"directory", "data", "script", "native", "missing"}
      BY <1>0, PathAssumption DEF KindOf
    <3>2. \A kind \in {"directory", "data", "script", "missing"} : ExecveErrors(kind) \subseteq Errno
      BY DEF ExecveErrors, Errno
    <3>3. \A e \in Errno : StatusOfErrno(e) \in Int
      BY DEF StatusOfErrno, NOT_FOUND, NOEXEC
    <3>4. \E l \in {"utility", "exit"} : \E m \in MemoryAt(l) : Becomes(p, m)
      <4>1. [memory[p] EXCEPT !.pc = "utility"] \in MemoryAt("utility")
        BY <1>0, MemoryChanges DEF Place
      <4>2. \A e \in Errno : [memory[p] EXCEPT !.errno = e, !.status = StatusOfErrno(e),
                                               !.pc = AfterTask] \in MemoryAt("exit")
        BY <1>0, <3>3, MemoryChanges DEF Place, AfterTask
      <4>3. QED
        BY <2>2, <3>1, <3>2, <4>1, <4>2 DEF Execve, Goes
    <3>5. MemoryOK'
      BY <3>4, BecomesType DEF Place, Searching
    <3>6. QED
      BY <1>0, <2>2, <3>5 DEF Execve, TypeOK
  <2>3. QED
    BY <1>8, <2>1, <2>2
<1>9. ASSUME NEW p \in Pid, Exit(p) \/ UtilityEnds(p) \/ Kill(p) PROVE TypeOK'
  <2>1. memory[p].status \in Int /\ Status \subseteq Int
    BY <1>0, StatusAssumption
  <2>2. \E state \in {Killed} \cup {Exited(s) : s \in Int} : Ends(p, state)
    BY <1>9, <2>1 DEF Exit, UtilityEnds, Kill
  <2>3. KernelOK'
    BY <2>2, EndsType DEF StartedOK
  <2>4. QED
    BY <1>0, <1>9, <2>3 DEF Exit, UtilityEnds, Kill, TypeOK
<1>10. ASSUME NEW p \in Pid, Wait(p) \/ WaitFails(p) PROVE TypeOK'
  <2>1. /\ \A s \in Int : [memory[p] EXCEPT !.pc = "next", !.status = s] \in MemoryAt("next")
        /\ [memory[p] EXCEPT !.pc = "panicked"] \in MemoryAt("panicked")
    BY <1>0, MemoryChanges DEF Place
  <2>2. CASE Wait(p)
    <3>1. PICK c \in Pid :
            /\ kernel' = [kernel EXCEPT ![c].reaped = TRUE]
            /\ Done(p, WaitStatus(kernel[c].state)) \/ Goes(p, "panicked")
      BY <2>2 DEF Wait, Unreaped
    <3>2. KernelOK'
      <4>1. [kernel[c] EXCEPT !.reaped = TRUE] \in Process
        BY <1>0 DEF Process
      <4>2. kernel' = [kernel EXCEPT ![c] = [kernel[c] EXCEPT !.reaped = TRUE]]
        BY <1>0, <3>1 DEF Process
      <4>3. [kernel[c] EXCEPT !.reaped = TRUE].state = kernel[c].state
        BY <1>0 DEF Process
      <4>4. QED
        BY <1>0, <4>1, <4>2, <4>3
    <3>3. WaitStatus(kernel[c].state) \in Int
      <4>1. kernel[c].state.value \in 0..255
        BY <1>0
      <4>2. QED
        BY <4>1 DEF WaitStatus
    <3>4. \E l \in {"next", "panicked"} : \E m \in MemoryAt(l) : Becomes(p, m)
      BY <2>1, <3>1, <3>3 DEF Done, Goes
    <3>5. MemoryOK'
      BY <3>4, BecomesType DEF Place, Searching
    <3>6. QED
      BY <1>0, <2>2, <3>2, <3>5 DEF Wait, TypeOK
  <2>3. CASE WaitFails(p)
    <3>1. \E m \in MemoryAt("next") : Becomes(p, m)
      BY <2>1, <2>3, Statuses DEF WaitFails, Done
    <3>2. MemoryOK'
      BY <3>1, BecomesType DEF Place, Searching
    <3>3. QED
      BY <1>0, <2>3, <3>2 DEF WaitFails, TypeOK
  <2>4. QED
    BY <1>10, <2>2, <2>3
<1>11. CASE ChangeFile
  <2>1. files' \in [File -> FileKind] /\ changes' \in 0..MaxChanges
    BY <1>0, <1>11, BoundAssumption DEF ChangeFile
  <2>2. QED
    BY <1>0, <1>11, <2>1 DEF ChangeFile, TypeOK
<1>12. CASE UNCHANGED vars
  BY <1>12 DEF vars, TypeOK
<1>13. QED
  BY <1>1, <1>2, <1>3, <1>4, <1>5, <1>6, <1>7, <1>8, <1>9, <1>10, <1>11, <1>12 DEF Next, Step

(* What the shell was started with stays.                                  *)
LEMMA StartedStays == [Next]_vars => started' = started
  BY DEF Next, Step, vars, ReadLine, ReadEnd, ReadError, NextCommand, Search, Stat,
         Access, CommandNotFound, ExecuteBuiltin, Fork, ForkFails, Execve, Exit, Wait, WaitFails,
         UtilityEnds, Kill, ChangeFile

LEMMA StartedAlways == Spec => []StartedOK
<1>1. Init => StartedOK
  BY DEF Init, StartedOK
<1>2. StartedOK /\ [Next]_vars => StartedOK'
  BY StartedStays DEF StartedOK
<1>3. QED
  BY <1>1, <1>2, PTL DEF Spec

(* Types, for any number of processes: exit statuses fit 8 bits, and a     *)
(* search that looks at a file has a directory of $PATH.                   *)
THEOREM ShellTypeCorrect == Spec => []TypeOK
  BY InitTyped, StepTyped, StartedAlways, PTL DEF Spec
-----------------------------------------------------------------------------
(* What the shell does of itself, without another process                  *)

ShellStep(p) == \/ ReadLine(p) \/ ReadEnd(p) \/ ReadError(p) \/ NextCommand(p)
                \/ Search(p) \/ Stat(p) \/ Access(p) \/ CommandNotFound(p)
                \/ ExecuteBuiltin(p) \/ ForkFails(p) \/ WaitFails(p)

(* The places of the shell at which it neither has nor makes a child       *)
ShellPlace == Searching \cup {"read", "next", "builtin", "fork", "exit"}

LEMMA BecomesIs ==
  ASSUME TypeOK, NEW p \in Pid, NEW m, Becomes(p, m)
  PROVE  /\ memory'[p] = m
         /\ \A q \in Pid : q # p => memory'[q] = memory[q]
  BY DEF TypeOK, Becomes

LEMMA ShellSteps ==
  ASSUME TypeOK, NEW p \in Pid, ShellStep(p)
  PROVE  /\ kernel[p].state = Alive
         /\ memory[p].pc \in (ShellPlace \ {"exit"}) \cup {"wait"}
         /\ kernel' = kernel /\ started' = started /\ files' = files /\ changes' = changes
         /\ memory'[p].pc \in ShellPlace
         /\ memory'[p].errno = memory[p].errno
         /\ \A q \in Pid : q # p => memory'[q] = memory[q]
<1> DEFINE Effect == /\ memory'[p].pc \in ShellPlace
                     /\ memory'[p].errno = memory[p].errno
                     /\ \A q \in Pid : q # p => memory'[q] = memory[q]
<1>1. memory[p] \in Memory
  BY DEF TypeOK
<1>2. \A m : Becomes(p, m) /\ m.pc \in ShellPlace /\ m.errno = memory[p].errno => Effect
  BY BecomesIs
<1> HIDE DEF Effect
<1>3. CASE ReadLine(p)
  <2>1. PICK l \in Line :
          Becomes(p, LET m == [memory[p] EXCEPT !.items = @ \o Parsed(l, memory[p].aliases)]
                     IN CASE l.end = "complete" -> [m EXCEPT !.pc = "next", !.open = FALSE]
                          [] l.end = "open" -> [m EXCEPT !.open = TRUE]
                          [] l.end = "error" -> NewParser(m))
    BY <1>3 DEF ReadLine
  <2> DEFINE m == [memory[p] EXCEPT !.items = @ \o Parsed(l, memory[p].aliases)]
             n == CASE l.end = "complete" -> [m EXCEPT !.pc = "next", !.open = FALSE]
                    [] l.end = "open" -> [m EXCEPT !.open = TRUE]
                    [] l.end = "error" -> NewParser(m)
  <2>2. n.pc \in {"read", "next"} /\ n.errno = memory[p].errno
    <3>1. memory[p].pc = "read"
      BY <1>3 DEF ReadLine, At
    <3>2. l.end \in LineEnd
      BY LineAssumption
    <3>3. QED
      BY <1>1, <3>1, <3>2 DEF Memory, LineEnd, NewParser
  <2>3. Effect
    BY <1>2, <2>1, <2>2 DEF ShellPlace
  <2>4. QED
    BY <1>3, <2>3 DEF ReadLine, At, ShellPlace, Effect
<1>4. CASE ReadEnd(p) \/ ReadError(p)
  <2>1. /\ NewParser(memory[p]).pc = memory[p].pc
        /\ NewParser(memory[p]).errno = memory[p].errno
        /\ [memory[p] EXCEPT !.pc = "exit"].pc = "exit"
        /\ [memory[p] EXCEPT !.pc = "exit"].errno = memory[p].errno
    BY <1>1 DEF NewParser, Memory
  <2>2. Effect
    BY <1>2, <1>4, <2>1 DEF ReadEnd, ReadError, At, ShellPlace
  <2>3. QED
    BY <1>4, <2>2 DEF ReadEnd, ReadError, At, ShellPlace, Effect
<1>5. memory \in [Pid -> Memory] /\ DOMAIN memory[p] = {"pc", "aliases", "status", "items", "open",
                                     "command", "dir", "target", "child", "errno"}
  BY <1>1 DEF TypeOK, Memory
<1>6. {"read", "next", "builtin", "fork", "exit", "search", "stat", "access"} = ShellPlace
  BY DEF ShellPlace, Searching
<1>7. CASE NextCommand(p)
  <2>1. Effect
    BY <1>5, <1>6, <1>7 DEF NextCommand, Goes, Becomes, Effect
  <2>2. QED
    BY <1>6, <1>7, <2>1 DEF NextCommand, At, Effect
<1>8. CASE Search(p)
  <2>1. Effect
    BY <1>5, <1>6, <1>8 DEF Search, Goes, Becomes, Effect
  <2>2. QED
    BY <1>6, <1>8, <2>1 DEF Search, At, Effect
<1>9. CASE Stat(p) \/ Access(p) \/ CommandNotFound(p)
  <2>1. Effect
    BY <1>5, <1>6, <1>9 DEF Stat, Access, CommandNotFound, NextDir, Done, Goes, Becomes, Effect
  <2>2. QED
    BY <1>6, <1>9, <2>1 DEF Stat, Access, CommandNotFound, At, Effect
<1>10. CASE ExecuteBuiltin(p)
  <2>1. Effect
    BY <1>5, <1>6, <1>10 DEF ExecuteBuiltin, Done, Becomes, Effect
  <2>2. QED
    BY <1>6, <1>10, <2>1 DEF ExecuteBuiltin, At, Effect
<1>11. CASE ForkFails(p) \/ WaitFails(p)
  <2>1. Effect
    BY <1>5, <1>6, <1>11 DEF ForkFails, WaitFails, Done, Becomes, Effect
  <2>2. QED
    BY <1>6, <1>11, <2>1 DEF ForkFails, WaitFails, At, Effect
<1>12. QED
  BY <1>3, <1>4, <1>7, <1>8, <1>9, <1>10, <1>11 DEF ShellStep

(* A fork makes a process ID a process.                                    *)
LEMMA Forks ==
  ASSUME TypeOK, NEW p \in Pid, Fork(p)
  PROVE  \E c \in Pid \ {p} :
           /\ kernel[p].state = Alive /\ memory[p].pc = "fork"
           /\ kernel[c].state = Unused
           /\ kernel' = [kernel EXCEPT ![c] = [parent |-> p, state |-> Alive, reaped |-> FALSE]]
           /\ memory'[c].pc = "execve" /\ memory'[c].errno = memory[p].errno
           /\ memory'[p].pc = "wait" /\ memory'[p].errno = memory[p].errno
           /\ memory'[p].child = c /\ memory'[p].items = memory[p].items
           /\ \A q \in Pid \ {p, c} : memory'[q] = memory[q]
<1>1. PICK c \in Pid :
        /\ kernel[c].state = Unused
        /\ kernel' = [kernel EXCEPT ![c] = [parent |-> p, state |-> Alive, reaped |-> FALSE]]
        /\ memory' = [memory EXCEPT ![c] = [memory[p] EXCEPT !.pc = "execve"],
                                    ![p] = Waits(@, c)]
  BY DEF Fork
<1>2. kernel[p].state = Alive /\ memory[p].pc = "fork" /\ c # p
  BY <1>1 DEF Fork, At, Unused, Alive
<1>3. /\ memory'[c] = [memory[p] EXCEPT !.pc = "execve"]
      /\ memory'[p] = Waits(memory[p], c)
      /\ \A q \in Pid \ {p, c} : memory'[q] = memory[q]
  BY <1>1, <1>2 DEF TypeOK
<1>4. memory[p] \in Memory
  BY DEF TypeOK
<1>5. /\ [memory[p] EXCEPT !.pc = "execve"].pc = "execve"
      /\ [memory[p] EXCEPT !.pc = "execve"].errno = memory[p].errno
      /\ Waits(memory[p], c).pc = "wait" /\ Waits(memory[p], c).errno = memory[p].errno
      /\ Waits(memory[p], c).child = c /\ Waits(memory[p], c).items = memory[p].items
  BY <1>4 DEF Memory, Waits
<1>6. QED
  BY <1>1, <1>2, <1>3, <1>5

(* What a process does that is not the shell, and what ends a process      *)
LEMMA Executes ==
  ASSUME TypeOK, NEW p \in Pid, Execve(p)
  PROVE  /\ kernel[p].state = Alive /\ memory[p].pc = "execve"
         /\ kernel' = kernel
         /\ \A q \in Pid : q # p => memory'[q] = memory[q]
         /\ \/ memory'[p].pc = "utility" /\ memory'[p].errno = memory[p].errno
            \/ /\ memory'[p].pc = "exit" /\ memory'[p].errno \in Errno
               /\ memory'[p].status = StatusOfErrno(memory'[p].errno)
<1>1. memory[p] \in Memory
  BY DEF TypeOK
<1>2. KindOf(memory[p].target) \in {"directory", "data", "script", "native", "missing"}
  BY PathAssumption DEF KindOf, TypeOK
<1>3. \E m : /\ Becomes(p, m)
             /\ \/ m.pc = "utility" /\ m.errno = memory[p].errno
                \/ m.pc = "exit" /\ m.errno \in Errno /\ m.status = StatusOfErrno(m.errno)
  <2>1. CASE KindOf(memory[p].target) = "native"
    BY <1>1, <2>1 DEF Execve, Goes, Memory
  <2>2. CASE KindOf(memory[p].target) # "native"
    <3>1. PICK errno \in ExecveErrors(KindOf(memory[p].target)) :
            Becomes(p, [memory[p] EXCEPT !.errno = errno, !.status = StatusOfErrno(errno),
                                         !.pc = AfterTask])
      BY <2>2 DEF Execve
    <3>2. errno \in Errno
      BY <1>2, <2>2 DEF ExecveErrors, Errno
    <3> DEFINE m == [memory[p] EXCEPT !.errno = errno, !.status = StatusOfErrno(errno),
                                      !.pc = AfterTask]
    <3>3. m.pc = "exit" /\ m.errno = errno /\ m.status = StatusOfErrno(errno)
      BY <1>1 DEF AfterTask, Memory
    <3> HIDE DEF m
    <3>4. QED
      BY <3>1, <3>2, <3>3 DEF m
  <2>3. QED
    BY <2>1, <2>2
<1>4. QED
  BY <1>3, BecomesIs DEF Execve, At

LEMMA EndsIs ==
  ASSUME TypeOK, NEW p \in Pid, NEW state, Ends(p, state)
  PROVE  /\ kernel'[p].parent = kernel[p].parent
         /\ kernel'[p].state = state
         /\ kernel'[p].reaped = started.ignored
         /\ \A q \in Pid : q # p => kernel'[q] = kernel[q]
<1>1. kernel \in [Pid -> Process] /\ kernel[p] \in Process
  BY DEF TypeOK
<1>2. kernel' = [kernel EXCEPT ![p] = [kernel[p] EXCEPT !.state = state, !.reaped = started.ignored]]
  BY <1>1 DEF Ends, Process
<1>3. QED
  BY <1>1, <1>2 DEF Process

Reaps(p, c) ==
  /\ kernel[p].state = Alive /\ memory[p].pc = "wait"
  /\ Zombie(kernel[c].state)
  /\ kernel'[c].reaped = TRUE /\ kernel'[c].state = kernel[c].state
  /\ kernel'[c].parent = kernel[c].parent
  /\ \A q \in Pid : q # c => kernel'[q] = kernel[q]
  /\ \A q \in Pid : q # p => memory'[q] = memory[q]
  /\ memory'[p].errno = memory[p].errno /\ memory'[p].items = memory[p].items
  /\ IF memory[p].child = c
     THEN memory'[p].pc = "next" /\ memory'[p].status = WaitStatus(kernel[c].state)
     ELSE memory'[p].pc = "panicked"

LEMMA Waiting ==
  ASSUME TypeOK, NEW p \in Pid, Wait(p)
  PROVE  \E c \in Unreaped(p) : Reaps(p, c)
<1>1. PICK c \in Unreaped(p) :
        /\ Zombie(kernel[c].state)
        /\ kernel' = [kernel EXCEPT ![c].reaped = TRUE]
        /\ IF memory[p].child = c THEN Done(p, WaitStatus(kernel[c].state))
           ELSE Goes(p, "panicked")
  BY DEF Wait
<1>2. memory[p] \in Memory /\ kernel[c] \in Process /\ kernel \in [Pid -> Process] /\ c \in Pid
  BY DEF TypeOK, Unreaped
<1>3. /\ kernel'[c].reaped = TRUE /\ kernel'[c].state = kernel[c].state
      /\ kernel'[c].parent = kernel[c].parent
      /\ \A q \in Pid : q # c => kernel'[q] = kernel[q]
  <2>1. kernel' = [kernel EXCEPT ![c] = [kernel[c] EXCEPT !.reaped = TRUE]]
    BY <1>1, <1>2 DEF Process
  <2>2. QED
    BY <1>2, <2>1 DEF Process
<1>4. \E m : /\ Becomes(p, m)
             /\ m.errno = memory[p].errno /\ m.items = memory[p].items
             /\ IF memory[p].child = c
                THEN m.pc = "next" /\ m.status = WaitStatus(kernel[c].state)
                ELSE m.pc = "panicked"
  <2> DEFINE done == [memory[p] EXCEPT !.pc = "next", !.status = WaitStatus(kernel[c].state)]
             panic == [memory[p] EXCEPT !.pc = "panicked"]
  <2>1. /\ done.errno = memory[p].errno /\ done.items = memory[p].items
        /\ done.pc = "next" /\ done.status = WaitStatus(kernel[c].state)
        /\ panic.errno = memory[p].errno /\ panic.items = memory[p].items
        /\ panic.pc = "panicked"
    BY <1>2 DEF Memory
  <2>2. IF memory[p].child = c THEN Becomes(p, done) ELSE Becomes(p, panic)
    BY <1>1 DEF Done, Goes
  <2> HIDE DEF done, panic
  <2>3. QED
    BY <2>1, <2>2
<1>5. kernel[p].state = Alive /\ memory[p].pc = "wait"
  BY DEF Wait, At
<1>6. QED
  BY <1>1, <1>3, <1>4, <1>5, BecomesIs DEF Reaps

(* A process ends: by itself, as a utility or by a signal.                 *)
ProcessEnds(p) == Exit(p) \/ UtilityEnds(p) \/ Kill(p)

LEMMA StateTags ==
  /\ Alive # Unused /\ Killed # Unused /\ Killed # Alive
  /\ ~Zombie(Alive) /\ ~Zombie(Unused) /\ Zombie(Killed)
  /\ \A s : Zombie(Exited(s)) /\ Exited(s) # Unused /\ Exited(s) # Alive /\ Exited(s) # Killed
  BY DEF Alive, Unused, Killed, Exited, Zombie

LEMMA Endings ==
  ASSUME TypeOK, NEW p \in Pid, ProcessEnds(p)
  PROVE  /\ kernel[p].state = Alive
         /\ memory' = memory /\ started' = started /\ files' = files /\ reads' = reads
         /\ changes' = changes /\ log' = log
         /\ \A q \in Pid : q # p => kernel'[q] = kernel[q]
         /\ kernel'[p].parent = kernel[p].parent
         /\ kernel'[p].reaped = started.ignored
         /\ kernel'[p].state \notin {Unused, Alive}
         /\ \/ kernel'[p].state = Killed
            \/ memory[p].pc = "exit" /\ kernel'[p].state = Exited(memory[p].status)
            \/ memory[p].pc \in {"utility", "panicked"}
<1>1. CASE Exit(p)
  <2> DEFINE status == IF At(p, "panicked") THEN 101 ELSE memory[p].status
  <2>1. Ends(p, Exited(status))
    BY <1>1 DEF Exit
  <2>2. kernel'[p].state = Exited(status)
    BY <2>1, EndsIs
  <2>3. Exited(status) \notin {Unused, Alive}
    BY StateTags
  <2>4. At(p, "panicked") \/ (At(p, "exit") /\ status = memory[p].status)
    BY <1>1 DEF Exit
  <2> HIDE DEF status
  <2>5. QED
    BY <1>1, <2>1, <2>2, <2>3, <2>4, EndsIs DEF Exit, At
<1>2. CASE UtilityEnds(p)
  <2>1. PICK s \in Status : Ends(p, Exited(s))
    BY <1>2 DEF UtilityEnds
  <2>2. kernel'[p].state = Exited(s) /\ Exited(s) \notin {Unused, Alive}
    BY <2>1, StateTags, EndsIs
  <2>3. QED
    BY <1>2, <2>1, <2>2, EndsIs DEF UtilityEnds, At
<1>3. CASE Kill(p)
  BY <1>3, StateTags, EndsIs DEF Kill
<1>4. QED
  BY <1>1, <1>2, <1>3 DEF ProcessEnds

LEMMA NextCases ==
  ASSUME [Next]_vars
  PROVE  \/ \E p \in Pid : ShellStep(p) \/ Fork(p) \/ Execve(p) \/ Wait(p) \/ ProcessEnds(p)
         \/ ChangeFile
         \/ UNCHANGED vars
  BY DEF Next, Step, ShellStep, ProcessEnds

-----------------------------------------------------------------------------
(* Only the process that was started as the shell ever executes commands:  *)
(* a child executes a utility or exits.  It is the parent of all children. *)

OneShell ==
  /\ kernel[Root].state # Unused
  /\ memory[Root].pc \in ShellPlace \cup {"wait", "panicked"}
  /\ \A p \in Pid \ {Root} : memory[p].pc \in {"execve", "exit", "utility"}
  /\ \A p \in Pid : /\ kernel[p].parent \in {Nobody, Root}
                    /\ kernel[p].state = Alive => ~kernel[p].reaped

LEMMA Places ==
  /\ ShellPlace = {"read", "next", "builtin", "fork", "exit", "search", "stat", "access"}
  /\ Root \in Pid
  BY PidAssumption DEF ShellPlace, Searching

LEMMA OneShellStep == TypeOK /\ OneShell /\ [Next]_vars => OneShell'
<1> SUFFICES ASSUME TypeOK, OneShell, [Next]_vars
             PROVE  OneShell'
  OBVIOUS
<1>0. /\ kernel[Root].state # Unused
      /\ memory[Root].pc \in ShellPlace \cup {"wait", "panicked"}
      /\ \A p \in Pid \ {Root} : memory[p].pc \in {"execve", "exit", "utility"}
      /\ \A p \in Pid : /\ kernel[p].parent \in {Nobody, Root}
                        /\ kernel[p].state = Alive => ~kernel[p].reaped
  BY DEF OneShell
<1>1. ASSUME NEW p \in Pid, ShellStep(p) PROVE OneShell'
  <2>1. p \notin Pid \ {Root} \/ memory[p].pc = "exit"
    BY <1>0, <1>1, ShellSteps, Places
  <2>2. p = Root
    BY <1>1, <2>1, ShellSteps, Places
  <2>3. QED
    BY <1>0, <1>1, <2>2, ShellSteps, Places DEF OneShell
<1>2. ASSUME NEW p \in Pid, Fork(p) PROVE OneShell'
  <2>1. PICK c \in Pid \ {p} :
           /\ kernel[p].state = Alive /\ memory[p].pc = "fork"
           /\ kernel[c].state = Unused
           /\ kernel' = [kernel EXCEPT ![c] = [parent |-> p, state |-> Alive, reaped |-> FALSE]]
           /\ memory'[c].pc = "execve"
           /\ memory'[p].pc = "wait"
           /\ \A q \in Pid \ {p, c} : memory'[q] = memory[q]
    BY <1>2, Forks
  <2>2. p = Root /\ c # Root
    BY <1>0, <2>1
  <2>3. /\ kernel'[c] = [parent |-> Root, state |-> Alive, reaped |-> FALSE]
        /\ \A q \in Pid \ {c} : kernel'[q] = kernel[q]
    BY <2>1, <2>2 DEF TypeOK
  <2>4. QED
    BY <1>0, <2>1, <2>2, <2>3, Places DEF OneShell
<1>3. ASSUME NEW p \in Pid, Execve(p) PROVE OneShell'
  <2>1. p # Root
    BY <1>0, <1>3, Executes, Places
  <2>2. QED
    BY <1>0, <1>3, <2>1, Executes, Places DEF OneShell
<1>4. ASSUME NEW p \in Pid, Wait(p) PROVE OneShell'
  <2>1. p = Root
    BY <1>0, <1>4, Waiting DEF Reaps
  <2>2. PICK c \in Unreaped(p) : Reaps(p, c)
    BY <1>4, Waiting
  <2>3. c \in Pid /\ kernel[c].state # Alive
    BY <2>2, StateTags DEF Unreaped, Reaps
  <2>4. QED
    BY <1>0, <2>1, <2>2, <2>3, Places DEF OneShell, Reaps
<1>5. ASSUME NEW p \in Pid, ProcessEnds(p) PROVE OneShell'
  BY <1>0, <1>5, Endings, Places DEF OneShell
<1>6. CASE ChangeFile \/ UNCHANGED vars
  BY <1>0, <1>6 DEF ChangeFile, vars, OneShell
<1>7. QED
  BY <1>1, <1>2, <1>3, <1>4, <1>5, <1>6, NextCases

LEMMA OneShellAlways == Spec => []OneShell
<1>1. Init => OneShell
  BY PidAssumption, StateTags, Places DEF Init, OneShell, InitialMemory
<1>2. QED
  BY <1>1, OneShellStep, ShellTypeCorrect, PTL DEF Spec

-----------------------------------------------------------------------------
(* The children of the shell                                               *)

(* A shell that was started without children has none but the one it waits *)
(* for.                                                                    *)
Accounted ==
  started.children = {} =>
    /\ memory[Root].pc # "panicked"
    /\ \A c \in Pid :
         /\ kernel[c].parent = Root
         /\ kernel[c].state # Unused
         /\ ~kernel[c].reaped
         /\ kernel[Root].state = Alive
         => memory[Root].pc = "wait" /\ memory[Root].child = c

LEMMA AccountedStep == TypeOK /\ OneShell /\ Accounted /\ [Next]_vars => Accounted'
<1> SUFFICES ASSUME TypeOK, OneShell, Accounted, [Next]_vars, started'.children = {}
             PROVE  Accounted'
  BY DEF Accounted
<1>0. /\ memory[Root].pc \in ShellPlace \cup {"wait", "panicked"}
      /\ \A p \in Pid \ {Root} : memory[p].pc \in {"execve", "exit", "utility"}
  BY DEF OneShell
<1>s. started' = started
  BY StartedStays
<1>a. /\ memory[Root].pc # "panicked"
      /\ \A c \in Unreaped(Root) :
           kernel[Root].state = Alive => memory[Root].pc = "wait" /\ memory[Root].child = c
  BY <1>s DEF Accounted, Unreaped
<1>b. SUFFICES /\ memory'[Root].pc # "panicked"
               /\ \A c \in Unreaped(Root)' :
                    kernel'[Root].state = Alive => memory'[Root].pc = "wait" /\ memory'[Root].child = c
  BY DEF Accounted, Unreaped
<1>1. ASSUME NEW p \in Pid, ShellStep(p)
      PROVE  /\ memory'[Root].pc # "panicked"
             /\ \A c \in Unreaped(Root)' :
                  kernel'[Root].state = Alive => memory'[Root].pc = "wait" /\ memory'[Root].child = c
  <2>1. p = Root
    BY <1>0, <1>1, ShellSteps, Places
  <2>2. Unreaped(Root)' = Unreaped(Root) /\ memory'[Root].pc # "panicked"
    BY <1>1, <2>1, ShellSteps, Places DEF Unreaped
  <2>3. kernel[Root].state = Alive
    BY <1>1, <2>1, ShellSteps
  <2>4. Unreaped(Root) = {}
    <3>1. CASE memory[Root].pc # "wait"
      BY <1>a, <2>3, <3>1
    <3>2. CASE memory[Root].pc = "wait"
      BY <1>1, <2>1, <3>2 DEF ShellStep, ReadLine, ReadEnd, ReadError, NextCommand, Search, Stat,
         Access, CommandNotFound, ExecuteBuiltin, ForkFails, WaitFails, At
    <3>3. QED
      BY <3>1, <3>2
  <2>5. QED
    BY <2>2, <2>4
<1>2. ASSUME NEW p \in Pid, Fork(p)
      PROVE  /\ memory'[Root].pc # "panicked"
             /\ \A c \in Unreaped(Root)' :
                  kernel'[Root].state = Alive => memory'[Root].pc = "wait" /\ memory'[Root].child = c
  <2>1. PICK c \in Pid \ {p} :
           /\ kernel[p].state = Alive /\ memory[p].pc = "fork"
           /\ kernel[c].state = Unused
           /\ kernel' = [kernel EXCEPT ![c] = [parent |-> p, state |-> Alive, reaped |-> FALSE]]
           /\ memory'[p].pc = "wait" /\ memory'[p].child = c
    BY <1>2, Forks
  <2>2. p = Root
    BY <1>0, <2>1
  <2>3. \A q \in Pid \ {c} : kernel'[q] = kernel[q]
    BY <2>1 DEF TypeOK
  <2>4. Unreaped(Root)' \subseteq Unreaped(Root) \cup {c}
    BY <2>3 DEF Unreaped
  <2>5. Unreaped(Root) = {}
    BY <1>a, <2>1, <2>2
  <2>6. QED
    BY <2>1, <2>2, <2>4, <2>5
<1>3. ASSUME NEW p \in Pid, Execve(p)
      PROVE  /\ memory'[Root].pc # "panicked"
             /\ \A c \in Unreaped(Root)' :
                  kernel'[Root].state = Alive => memory'[Root].pc = "wait" /\ memory'[Root].child = c
  <2>1. p # Root
    BY <1>0, <1>3, Executes, Places
  <2>2. memory'[Root] = memory[Root] /\ kernel' = kernel
    BY <1>3, <2>1, Executes, Places
  <2>3. Unreaped(Root)' = Unreaped(Root)
    BY <2>2 DEF Unreaped
  <2>4. QED
    BY <1>a, <2>2, <2>3
<1>4. ASSUME NEW p \in Pid, Wait(p)
      PROVE  /\ memory'[Root].pc # "panicked"
             /\ \A c \in Unreaped(Root)' :
                  kernel'[Root].state = Alive => memory'[Root].pc = "wait" /\ memory'[Root].child = c
  <2>1. p = Root
    BY <1>0, <1>4, Waiting DEF Reaps
  <2>2. PICK c \in Unreaped(Root) :
          /\ kernel[Root].state = Alive
          /\ kernel'[c].reaped = TRUE
          /\ \A q \in Pid : q # c => kernel'[q] = kernel[q]
          /\ memory[Root].child = c => memory'[Root].pc = "next"
    BY <1>4, <2>1, Waiting DEF Reaps
  <2>3. Unreaped(Root) = {c} /\ memory[Root].child = c
    BY <1>a, <2>2
  <2>4. Unreaped(Root)' \subseteq Unreaped(Root) \ {c}
    BY <2>2 DEF Unreaped
  <2>5. QED
    BY <2>2, <2>3, <2>4
<1>5. ASSUME NEW p \in Pid, ProcessEnds(p)
      PROVE  /\ memory'[Root].pc # "panicked"
             /\ \A c \in Unreaped(Root)' :
                  kernel'[Root].state = Alive => memory'[Root].pc = "wait" /\ memory'[Root].child = c
  <2>1. memory' = memory /\ \A q \in Pid : q # p => kernel'[q] = kernel[q]
    BY <1>5, Endings
  <2>2. CASE p = Root
    <3>1. kernel'[Root].state # Alive
      BY <1>5, <2>2, Endings
    <3>2. QED
      BY <1>a, <2>1, <3>1
  <2>3. CASE p # Root
    <3>1. kernel'[Root] = kernel[Root]
      BY <2>1, <2>3, Places
    <3>2. Unreaped(Root)' \subseteq Unreaped(Root)
      <4>1. kernel[p].state = Alive /\ kernel'[p].parent = kernel[p].parent
        BY <1>5, Endings
      <4>2. ~kernel[p].reaped /\ kernel[p].state # Unused
        BY <4>1, StateTags DEF OneShell
      <4>3. QED
        BY <2>1, <4>1, <4>2 DEF Unreaped
    <3>3. QED
      BY <1>a, <2>1, <3>1, <3>2
  <2>4. QED
    BY <2>2, <2>3
<1>6. CASE ChangeFile \/ UNCHANGED vars
  BY <1>a, <1>6 DEF ChangeFile, vars, Unreaped
<1>7. QED
  BY <1>1, <1>2, <1>3, <1>4, <1>5, <1>6, NextCases

LEMMA AccountedAlways == Spec => []Accounted
<1>1. Init => Accounted
  BY PidAssumption, StateTags DEF Init, Accounted, InitialMemory, Nobody
<1>2. QED
  BY <1>1, AccountedStep, OneShellAlways, ShellTypeCorrect, PTL DEF Spec

(* Unless it was started with children, the shell never has a child that   *)
(* it is not waiting for, whatever fails and whoever is killed, and the    *)
(* assertion of run_in_subshell about the child holds.                     *)
THEOREM ShellHasNoOtherChild == Spec => []ChildrenAccounted
<1>1. OneShell /\ Accounted => ChildrenAccounted
  <2> SUFFICES ASSUME OneShell, Accounted, started.children = {}, NEW p \in Pid
               PROVE  /\ ~At(p, "panicked")
                      /\ kernel[p].state = Alive =>
                           Unreaped(p) \subseteq {c \in Pid : At(p, "wait") /\ c = memory[p].child}
    BY DEF ChildrenAccounted
  <2>1. CASE p = Root
    BY <2>1 DEF Accounted, At, Unreaped
  <2>2. CASE p # Root
    <3>1. ~At(p, "panicked")
      BY <2>2 DEF OneShell, At
    <3>2. Unreaped(p) = {}
      <4>1. p # Nobody
        BY PidAssumption
      <4>2. QED
        BY <2>2, <4>1 DEF OneShell, Unreaped
    <3>3. QED
      BY <3>1, <3>2
  <2>3. QED
    BY <2>1, <2>2
<1>2. QED
  BY <1>1, OneShellAlways, AccountedAlways, PTL
-----------------------------------------------------------------------------
(* The order of the commands                                               *)

(* What has been executed, and what the shell has still to execute, in the *)
(* order of the input, as far as it has been read                          *)
Items == memory[Root].items
Ordered ==
  /\ \A i, j \in DOMAIN log : i < j => log[i] < log[j]
  /\ \A i, j \in DOMAIN Items : i < j => Items[i].number < Items[j].number
  /\ \A i \in DOMAIN log, j \in DOMAIN Items : log[i] < Items[j].number
  /\ \A i \in DOMAIN log : log[i] <= MaxItems * reads
  /\ \A j \in DOMAIN Items : Items[j].number <= MaxItems * reads

LEMMA Reading ==
  ASSUME TypeOK, ReadLine(Root)
  PROVE  /\ \E l \in Line : \/ Items' = Items \o Parsed(l, memory[Root].aliases)
                            \/ Items' = <<>>
         /\ reads' = reads + 1 /\ log' = log
<1>1. PICK l \in Line :
        Becomes(Root, LET m == [memory[Root] EXCEPT !.items = @ \o Parsed(l, memory[Root].aliases)]
                      IN CASE l.end = "complete" -> [m EXCEPT !.pc = "next", !.open = FALSE]
                           [] l.end = "open" -> [m EXCEPT !.open = TRUE]
                           [] l.end = "error" -> NewParser(m))
  BY DEF ReadLine
<1> DEFINE m == [memory[Root] EXCEPT !.items = @ \o Parsed(l, memory[Root].aliases)]
           n == CASE l.end = "complete" -> [m EXCEPT !.pc = "next", !.open = FALSE]
                  [] l.end = "open" -> [m EXCEPT !.open = TRUE]
                  [] l.end = "error" -> NewParser(m)
<1>2. memory'[Root] = n
  BY <1>1, BecomesIs, Places
<1>3. memory[Root] \in Memory /\ l.end \in LineEnd
  BY Places, LineAssumption DEF TypeOK
<1>4. n.items \in {Items \o Parsed(l, memory[Root].aliases), <<>>}
  BY <1>3 DEF Memory, LineEnd, NewParser, Items
<1> HIDE DEF n
<1>5. QED
  BY <1>2, <1>4 DEF ReadLine, Items

LEMMA NotReading ==
  ASSUME TypeOK, ShellStep(Root), ~ReadLine(Root), ~NextCommand(Root)
  PROVE  Items' \in {Items, <<>>} /\ log' = log /\ reads' = reads
<1>1. memory \in [Pid -> Memory] /\ DOMAIN memory[Root] = {"pc", "aliases", "status", "items",
                                     "open", "command", "dir", "target", "child", "errno"}
  BY Places DEF TypeOK, Memory
<1>2. CASE ReadEnd(Root) \/ ReadError(Root)
  BY <1>1, <1>2, Places DEF ReadEnd, ReadError, NewParser, Becomes, Items
<1>3. CASE Search(Root)
  BY <1>1, <1>3, Places DEF Search, Goes, Becomes, Items
<1>4. CASE Stat(Root) \/ Access(Root) \/ CommandNotFound(Root)
  BY <1>1, <1>4, Places DEF Stat, Access, CommandNotFound, NextDir, Goes, Done, Becomes, Items
<1>5. CASE ExecuteBuiltin(Root)
  BY <1>1, <1>5, Places DEF ExecuteBuiltin, Done, Becomes, Items
<1>6. CASE ForkFails(Root) \/ WaitFails(Root)
  BY <1>1, <1>6, Places DEF ForkFails, WaitFails, Done, Becomes, Items
<1>7. QED
  BY <1>2, <1>3, <1>4, <1>5, <1>6 DEF ShellStep

LEMMA ItemsType == TypeOK => /\ Items \in Seq(ParsedCommand) /\ log \in Seq(Nat)
                             /\ \A j \in DOMAIN Items : Items[j].number \in Nat
                             /\ reads \in Nat /\ MaxItems * reads \in Nat
<1> SUFFICES ASSUME TypeOK PROVE /\ Items \in Seq(ParsedCommand) /\ log \in Seq(Nat)
                                 /\ \A j \in DOMAIN Items : Items[j].number \in Nat
                                 /\ reads \in Nat /\ MaxItems * reads \in Nat
  OBVIOUS
<1>1. Items \in Seq(ParsedCommand) /\ log \in Seq(Nat)
  BY Places DEF TypeOK, Memory, Items
<1>2. \A j \in DOMAIN Items : Items[j].number \in Nat
  <2>1. \A j \in DOMAIN Items : Items[j] \in ParsedCommand
    BY <1>1, ElementOfSeq
  <2>2. QED
    BY <2>1 DEF ParsedCommand
<1>3. reads \in Nat
  BY BoundAssumption DEF TypeOK
<1>4. QED
  BY <1>1, <1>2, <1>3, BoundAssumption

LEMMA OrderedStep == TypeOK /\ OneShell /\ Ordered /\ [Next]_vars => Ordered'
<1> SUFFICES ASSUME TypeOK, OneShell, Ordered, [Next]_vars
             PROVE  Ordered'
  OBVIOUS
<1>0. /\ Items \in Seq(ParsedCommand) /\ log \in Seq(Nat)
      /\ \A j \in DOMAIN Items : Items[j].number \in Nat
      /\ reads \in Nat /\ MaxItems * reads \in Nat /\ MaxItems \in Nat
  BY ItemsType, BoundAssumption
<1>a. ASSUME Items' \in {Items, <<>>}, log' = log, reads' = reads
      PROVE  Ordered'
  BY <1>a DEF Ordered
<1>b. ASSUME memory'[Root] = memory[Root], log' = log, reads' = reads
      PROVE  Ordered'
  BY <1>a, <1>b DEF Items
<1>1. ASSUME NEW p \in Pid, ShellStep(p) PROVE Ordered'
  <2>1. p = Root
    BY <1>1, ShellSteps, Places DEF OneShell
  <2>2. CASE ReadLine(Root)
    <3> DEFINE last == MaxItems * reads
    <3>1. PICK l \in Line : \/ Items' = Items \o Parsed(l, memory[Root].aliases)
                            \/ Items' = <<>>
      BY <2>2, Reading
    <3>2. reads' = reads + 1 /\ log' = log
      BY <2>2, Reading
    <3>3. MaxItems * reads' = last + MaxItems /\ last \in Nat
      BY <1>0, <3>2
    <3> HIDE DEF last
    <3>4. CASE Items' = <<>>
      BY <1>0, <3>2, <3>3, <3>4 DEF Ordered, last
    <3>5. CASE Items' = Items \o Parsed(l, memory[Root].aliases)
      <4> DEFINE new == Parsed(l, memory[Root].aliases)
      <4>1. /\ l.items \in Seq(Item) /\ Len(l.items) <= MaxItems
            /\ Len(l.items) \in Nat
        BY LineAssumption
      <4>2. /\ DOMAIN new = 1..Len(l.items)
            /\ \A i \in 1..Len(l.items) : new[i].number = last + i
        BY <4>1 DEF Parsed, last
      <4>3. new \in Seq(ParsedCommand) /\ Len(new) = Len(l.items)
        <5>1. memory[Root].aliases \in AliasSet
          BY Places DEF TypeOK, Memory
        <5>2. new \in Seq(ParsedCommand)
          BY <1>0, <5>1, ParsedType
        <5>3. QED
          BY <4>1, <4>2, <5>2
      <4>n. Items' = Items \o new
        BY <3>5
      <4> HIDE DEF new
      <4>4. /\ DOMAIN Items' = 1..Len(Items) + Len(new)
            /\ \A j \in 1..Len(Items) + Len(new) :
                 Items'[j] = IF j <= Len(Items) THEN Items[j] ELSE new[j - Len(Items)]
            /\ Len(Items) \in Nat /\ DOMAIN Items = 1..Len(Items)
        <5>1. /\ Items \o new \in Seq(ParsedCommand)
              /\ Len(Items \o new) = Len(Items) + Len(new)
              /\ \A j \in 1..Len(Items) + Len(new) :
                   (Items \o new)[j] = IF j <= Len(Items) THEN Items[j] ELSE new[j - Len(Items)]
          BY <1>0, <4>3, ConcatProperties
        <5>2. DOMAIN (Items \o new) = 1..Len(Items) + Len(new)
          BY <5>1
        <5>3. QED
          BY <1>0, <4>n, <5>1, <5>2
      <4>5. ASSUME NEW j \in DOMAIN Items', j > Len(Items)
            PROVE  /\ Items'[j].number = last + (j - Len(Items))
                   /\ j - Len(Items) \in 1..MaxItems
        <5>1. j - Len(Items) \in 1..Len(new) /\ j = Len(Items) + (j - Len(Items))
          BY <1>0, <4>3, <4>4, <4>5
        <5>2. Items'[j] = new[j - Len(Items)]
          BY <4>4, <5>1
        <5>3. QED
          BY <1>0, <4>1, <4>2, <4>3, <5>1, <5>2
      <4>6. ASSUME NEW j \in DOMAIN Items', ~(j > Len(Items))
            PROVE  j \in DOMAIN Items /\ Items'[j] = Items[j] /\ Items[j].number <= last
        <5>1. j \in 1..Len(Items)
          BY <1>0, <4>3, <4>4, <4>6
        <5>2. QED
          BY <1>0, <4>4, <5>1 DEF Ordered, last
      <4>7. \A i, j \in DOMAIN Items' : i < j => Items'[i].number < Items'[j].number
        <5> SUFFICES ASSUME NEW i \in DOMAIN Items', NEW j \in DOMAIN Items', i < j
                     PROVE  Items'[i].number < Items'[j].number
          OBVIOUS
        <5>0. i \in Nat /\ j \in Nat /\ Len(Items) \in Nat
          BY <1>0, <4>3, <4>4
        <5>1. CASE j > Len(Items) /\ i > Len(Items)
          BY <3>3, <4>5, <5>0, <5>1
        <5>2. CASE j > Len(Items) /\ ~(i > Len(Items))
          BY <1>0, <3>3, <4>5, <4>6, <5>0, <5>2
        <5>3. CASE ~(j > Len(Items))
          <6>1. ~(i > Len(Items))
            BY <5>0, <5>3
          <6>2. QED
            BY <4>6, <5>3, <6>1 DEF Ordered
        <5>4. QED
          BY <5>1, <5>2, <5>3
      <4>8. \A i \in DOMAIN log', j \in DOMAIN Items' : log'[i] < Items'[j].number
        <5> SUFFICES ASSUME NEW i \in DOMAIN log, NEW j \in DOMAIN Items'
                     PROVE  log[i] < Items'[j].number
          BY <3>2
        <5>1. CASE j > Len(Items)
          <6>1. log[i] \in Nat /\ log[i] <= last
            BY <1>0 DEF Ordered, last
          <6>2. QED
            BY <3>3, <4>5, <5>1, <6>1
        <5>2. CASE ~(j > Len(Items))
          BY <4>6, <5>2 DEF Ordered
        <5>3. QED
          BY <5>1, <5>2
      <4>9. \A j \in DOMAIN Items' : Items'[j].number <= MaxItems * reads'
        <5> SUFFICES ASSUME NEW j \in DOMAIN Items'
                     PROVE  Items'[j].number <= last + MaxItems
          BY <3>3
        <5>1. CASE j > Len(Items)
          BY <1>0, <3>3, <4>5, <5>1
        <5>2. CASE ~(j > Len(Items))
          BY <1>0, <3>3, <4>6, <5>2
        <5>3. QED
          BY <5>1, <5>2
      <4>10. \A i \in DOMAIN log' : log'[i] <= MaxItems * reads'
        <5> SUFFICES ASSUME NEW i \in DOMAIN log
                     PROVE  log[i] <= last + MaxItems
          BY <3>2, <3>3
        <5>1. log[i] \in Nat /\ log[i] <= last
          BY <1>0 DEF Ordered, last
        <5>2. QED
          BY <1>0, <3>3, <5>1
      <4>11. QED
        BY <3>2, <4>7, <4>8, <4>9, <4>10 DEF Ordered
    <3>6. QED
      BY <3>1, <3>4, <3>5
  <2>3. CASE NextCommand(Root)
    <3>1. CASE Items = <<>>
      <4>1. Items' = Items
        <5>1. memory[Root] \in Memory
          BY Places DEF TypeOK
        <5>2. [memory[Root] EXCEPT !.pc = "read"].items = memory[Root].items
          BY <5>1 DEF Memory
        <5>3. QED
          BY <2>3, <3>1, <5>2, BecomesIs, Places DEF NextCommand, Goes, Items
      <4>2. QED
        BY <1>a, <2>3, <3>1, <4>1 DEF NextCommand, Items
    <3>2. CASE Items # <<>>
      <4> DEFINE number == Head(Items).number
      <4>1. log' = Append(log, number) /\ reads' = reads
        BY <2>3, <3>2 DEF NextCommand, Items
      <4>2. Items' = Tail(Items)
        <5> DEFINE m == [memory[Root] EXCEPT !.items = Tail(@), !.command = Head(memory[Root].items),
                                             !.pc = "search"]
        <5>1. memory[Root] \in Memory
          BY Places DEF TypeOK
        <5>2. m.items = Tail(Items)
          BY <5>1 DEF Memory, Items
        <5>3. Becomes(Root, m)
          BY <2>3, <3>2 DEF NextCommand, Items
        <5>4. QED
          BY <5>2, <5>3, BecomesIs, Places DEF Items
      <4>3. number = Items[1].number /\ 1 \in DOMAIN Items /\ number \in Nat
        BY <1>0, <3>2
      <4> HIDE DEF number
      <4>4. /\ DOMAIN Items' = 1..Len(Items) - 1
            /\ \A j \in 1..Len(Items) - 1 : Items'[j] = Items[j + 1] /\ j + 1 \in DOMAIN Items
            /\ Len(Items) \in Nat
        BY <1>0, <3>2, <4>2
      <4>5. /\ DOMAIN log' = 1..Len(log) + 1
            /\ \A i \in 1..Len(log) : log'[i] = log[i] /\ i \in DOMAIN log
            /\ log'[Len(log) + 1] = number
            /\ Len(log) \in Nat
        BY <1>0, <4>1, <4>3
      <4>6. \A i, j \in DOMAIN log' : i < j => log'[i] < log'[j]
        <5> SUFFICES ASSUME NEW i \in DOMAIN log', NEW j \in DOMAIN log', i < j
                     PROVE  log'[i] < log'[j]
          OBVIOUS
        <5>1. i \in 1..Len(log)
          BY <4>5
        <5>2. CASE j = Len(log) + 1
          BY <4>3, <4>5, <5>1, <5>2 DEF Ordered
        <5>3. CASE j # Len(log) + 1
          <6>1. j \in 1..Len(log)
            BY <4>5, <5>3
          <6>2. QED
            BY <4>5, <5>1, <6>1 DEF Ordered
        <5>4. QED
          BY <5>2, <5>3
      <4>7. \A i, j \in DOMAIN Items' : i < j => Items'[i].number < Items'[j].number
        BY <4>4 DEF Ordered
      <4>8. \A i \in DOMAIN log', j \in DOMAIN Items' : log'[i] < Items'[j].number
        <5> SUFFICES ASSUME NEW i \in DOMAIN log', NEW j \in DOMAIN Items'
                     PROVE  log'[i] < Items[j + 1].number
          BY <4>4
        <5>1. CASE i = Len(log) + 1
          BY <4>3, <4>4, <4>5, <5>1 DEF Ordered
        <5>2. CASE i # Len(log) + 1
          <6>1. i \in 1..Len(log)
            BY <4>5, <5>2
          <6>2. QED
            BY <4>4, <4>5, <6>1 DEF Ordered
        <5>3. QED
          BY <5>1, <5>2
      <4>9. \A i \in DOMAIN log' : log'[i] <= MaxItems * reads'
        <5> SUFFICES ASSUME NEW i \in DOMAIN log' PROVE log'[i] <= MaxItems * reads
          BY <4>1
        <5>1. CASE i = Len(log) + 1
          BY <4>3, <4>5, <5>1 DEF Ordered
        <5>2. CASE i # Len(log) + 1
          <6>1. i \in 1..Len(log)
            BY <4>5, <5>2
          <6>2. QED
            BY <4>5, <6>1 DEF Ordered
        <5>3. QED
          BY <5>1, <5>2
      <4>10. \A j \in DOMAIN Items' : Items'[j].number <= MaxItems * reads'
        BY <4>1, <4>4 DEF Ordered
      <4>11. QED
        BY <4>6, <4>7, <4>8, <4>9, <4>10 DEF Ordered
    <3>3. QED
      BY <3>1, <3>2
  <2>4. CASE ~ReadLine(Root) /\ ~NextCommand(Root)
    BY <1>a, <1>1, <2>1, <2>4, NotReading
  <2>5. QED
    BY <2>2, <2>3, <2>4
<1>2. ASSUME NEW p \in Pid, Fork(p) PROVE Ordered'
  <2>1. p = Root
    BY <1>2 DEF OneShell, Fork, At
  <2>2. QED
    BY <1>a, <1>2, <2>1, Forks DEF Fork, Items
<1>3. ASSUME NEW p \in Pid, Execve(p) PROVE Ordered'
  <2>1. p # Root
    BY <1>3, Executes, Places DEF OneShell
  <2>2. QED
    BY <1>b, <1>3, <2>1, Executes, Places DEF Execve
<1>4. ASSUME NEW p \in Pid, Wait(p) PROVE Ordered'
  <2>1. p = Root
    BY <1>4, Waiting DEF OneShell, Reaps
  <2>2. QED
    BY <1>a, <1>4, <2>1, Waiting DEF Wait, Items, Reaps
<1>5. ASSUME NEW p \in Pid, ProcessEnds(p) PROVE Ordered'
  BY <1>b, <1>5, Endings
<1>6. CASE ChangeFile \/ UNCHANGED vars
  BY <1>b, <1>6 DEF ChangeFile, vars
<1>7. QED
  BY <1>1, <1>2, <1>3, <1>4, <1>5, <1>6, NextCases

(* Every command is executed at most once and in the order of the input,   *)
(* although every child starts with a copy of the rest of the input.       *)
THEOREM CommandsExecutedOnce == Spec => []ExecutedOnce
<1>1. Init => Ordered
  BY Places DEF Init, Ordered, Items, InitialMemory
<1>2. Ordered => ExecutedOnce
  BY DEF Ordered, ExecutedOnce
<1>3. QED
  BY <1>1, <1>2, OrderedStep, OneShellAlways, ShellTypeCorrect, PTL DEF Spec
-----------------------------------------------------------------------------
(* Exit statuses                                                           *)

(* A child that could not execute the utility exits with the status for    *)
(* the reason, and only such a child has one.                              *)
Reasons ==
  /\ memory[Root].errno = "none"
  /\ \A p \in Pid \ {Root} :
       /\ memory[p].pc \in {"execve", "utility"} => memory[p].errno = "none"
       /\ memory[p].pc = "exit" => /\ memory[p].errno \in Errno
                                   /\ memory[p].status = StatusOfErrno(memory[p].errno)
       /\ \/ kernel[p].state \in {Unused, Alive, Killed}
          \/ memory[p].pc = "utility"
          \/ memory[p].pc = "exit" /\ kernel[p].state = Exited(memory[p].status)

(* The child that the shell waits for can be waited for.                   *)
Awaited == At(Root, "wait") /\ ~started.ignored => memory[Root].child \in Unreaped(Root)

LEMMA ReasonsStep == TypeOK /\ OneShell /\ Reasons /\ [Next]_vars => Reasons'
<1> SUFFICES ASSUME TypeOK, OneShell, Reasons, [Next]_vars
             PROVE  Reasons'
  OBVIOUS
<1> DEFINE Reason(p) ==
      /\ memory[p].pc \in {"execve", "utility"} => memory[p].errno = "none"
      /\ memory[p].pc = "exit" => /\ memory[p].errno \in Errno
                                  /\ memory[p].status = StatusOfErrno(memory[p].errno)
      /\ \/ kernel[p].state \in {Unused, Alive, Killed}
         \/ memory[p].pc = "utility"
         \/ memory[p].pc = "exit" /\ kernel[p].state = Exited(memory[p].status)
<1>0. /\ memory[Root].errno = "none"
      /\ memory[Root].pc \in ShellPlace \cup {"wait", "panicked"}
      /\ \A p \in Pid \ {Root} : Reason(p)
      /\ \A p \in Pid \ {Root} : memory[p].pc \in {"execve", "exit", "utility"}
  BY DEF OneShell, Reasons
<1>a. ASSUME memory'[Root].errno = "none", \A p \in Pid \ {Root} : Reason(p)'
      PROVE  Reasons'
  BY <1>a DEF Reasons
<1>b. ASSUME NEW p \in Pid \ {Root}, memory'[p] = memory[p], kernel'[p].state = kernel[p].state
      PROVE  Reason(p)'
  BY <1>0, <1>b
<1> HIDE DEF Reason
<1>1. ASSUME NEW p \in Pid, ShellStep(p) PROVE Reasons'
  <2>1. p = Root
    BY <1>0, <1>1, ShellSteps, Places
  <2>2. QED
    BY <1>0, <1>1, <1>a, <1>b, <2>1, ShellSteps
<1>2. ASSUME NEW p \in Pid, Fork(p) PROVE Reasons'
  <2>1. PICK c \in Pid \ {p} :
           /\ kernel[p].state = Alive /\ memory[p].pc = "fork"
           /\ kernel[c].state = Unused
           /\ kernel' = [kernel EXCEPT ![c] = [parent |-> p, state |-> Alive, reaped |-> FALSE]]
           /\ memory'[c].pc = "execve" /\ memory'[c].errno = memory[p].errno
           /\ memory'[p].errno = memory[p].errno
           /\ \A q \in Pid \ {p, c} : memory'[q] = memory[q]
    BY <1>2, Forks
  <2>2. p = Root /\ c # Root
    BY <1>0, <2>1
  <2>3. /\ kernel'[c].state = Alive
        /\ \A q \in Pid \ {c} : kernel'[q] = kernel[q]
    BY <2>1 DEF TypeOK
  <2>4. Reason(c)'
    BY <1>0, <2>1, <2>2, <2>3 DEF Reason
  <2>5. \A q \in Pid \ {Root, c} : Reason(q)'
    BY <1>b, <2>1, <2>2, <2>3
  <2>6. QED
    BY <1>0, <1>a, <2>1, <2>2, <2>4, <2>5
<1>3. ASSUME NEW p \in Pid, Execve(p) PROVE Reasons'
  <2>1. p # Root /\ memory[p].errno = "none"
    BY <1>0, <1>3, Executes, Places DEF Reason
  <2>2. Reason(p)'
    BY <1>3, <2>1, Executes DEF Reason
  <2>3. \A q \in Pid \ {Root, p} : Reason(q)'
    BY <1>3, <1>b, Executes
  <2>4. QED
    BY <1>0, <1>3, <1>a, <2>1, <2>2, <2>3, Executes, Places
<1>4. ASSUME NEW p \in Pid, Wait(p) PROVE Reasons'
  <2>1. p = Root
    BY <1>0, <1>4, Waiting DEF Reaps
  <2>2. \A q \in Pid : kernel'[q].state = kernel[q].state
    BY <1>4, Waiting DEF Reaps
  <2>3. QED
    BY <1>0, <1>4, <1>a, <1>b, <2>1, <2>2, Waiting DEF Reaps
<1>5. ASSUME NEW p \in Pid, ProcessEnds(p) PROVE Reasons'
  <2>1. memory' = memory /\ \A q \in Pid : q # p => kernel'[q] = kernel[q]
    BY <1>5, Endings
  <2>2. p # Root => Reason(p)'
    <3> SUFFICES ASSUME p # Root PROVE Reason(p)'
      OBVIOUS
    <3>1. memory[p].pc # "panicked"
      BY <1>0
    <3>2. QED
      BY <1>0, <1>5, <2>1, <3>1, Endings DEF Reason
  <2>3. \A q \in Pid \ {Root, p} : Reason(q)'
    BY <1>b, <2>1
  <2>4. QED
    BY <1>0, <1>a, <2>1, <2>2, <2>3
<1>6. CASE ChangeFile \/ UNCHANGED vars
  BY <1>0, <1>6, <1>a, <1>b DEF ChangeFile, vars
<1>7. QED
  BY <1>1, <1>2, <1>3, <1>4, <1>5, <1>6, NextCases

LEMMA AwaitedStep == TypeOK /\ OneShell /\ Awaited /\ [Next]_vars => Awaited'
<1> SUFFICES ASSUME TypeOK, OneShell, Awaited, [Next]_vars, ~started.ignored,
                    kernel'[Root].state = Alive, memory'[Root].pc = "wait"
             PROVE  /\ kernel'[memory'[Root].child].parent = Root
                    /\ kernel'[memory'[Root].child].state # Unused
                    /\ ~kernel'[memory'[Root].child].reaped
                    /\ memory'[Root].child \in Pid
  BY StartedStays DEF Awaited, Unreaped, At
<1>0. /\ memory[Root].pc \in ShellPlace \cup {"wait", "panicked"}
      /\ \A p \in Pid \ {Root} : memory[p].pc \in {"execve", "exit", "utility"}
  BY DEF OneShell
<1> DEFINE child == memory[Root].child
<1>a. ASSUME kernel[Root].state = Alive, memory[Root].pc = "wait"
      PROVE  child \in Pid /\ kernel[child].parent = Root /\ kernel[child].state # Unused
             /\ ~kernel[child].reaped
  BY <1>a DEF Awaited, At, Unreaped
<1>1. ASSUME NEW p \in Pid, ShellStep(p) PROVE FALSE
  BY <1>0, <1>1, ShellSteps, Places
<1>2. ASSUME NEW p \in Pid, Fork(p)
      PROVE  /\ kernel'[memory'[Root].child].parent = Root
             /\ kernel'[memory'[Root].child].state # Unused
             /\ ~kernel'[memory'[Root].child].reaped
             /\ memory'[Root].child \in Pid
  <2>1. PICK c \in Pid \ {p} :
           /\ memory[p].pc = "fork"
           /\ kernel' = [kernel EXCEPT ![c] = [parent |-> p, state |-> Alive, reaped |-> FALSE]]
           /\ memory'[p].child = c
    BY <1>2, Forks
  <2>2. p = Root
    BY <1>0, <2>1
  <2>3. kernel'[c] = [parent |-> p, state |-> Alive, reaped |-> FALSE]
    BY <2>1 DEF TypeOK
  <2>4. QED
    BY <2>1, <2>2, <2>3, StateTags
<1>3. ASSUME NEW p \in Pid, Execve(p)
      PROVE  memory'[Root] = memory[Root] /\ kernel' = kernel
  BY <1>0, <1>3, Executes, Places
<1>4. ASSUME NEW p \in Pid, Wait(p) PROVE FALSE
  BY <1>0, <1>4, Waiting DEF Reaps
<1>5. ASSUME NEW p \in Pid, ProcessEnds(p)
      PROVE  /\ kernel'[memory'[Root].child].parent = Root
             /\ kernel'[memory'[Root].child].state # Unused
             /\ ~kernel'[memory'[Root].child].reaped
             /\ memory'[Root].child \in Pid
  <2>1. /\ memory' = memory /\ kernel'[p].state \notin {Unused, Alive} /\ ~kernel'[p].reaped
        /\ kernel'[p].parent = kernel[p].parent
        /\ \A q \in Pid : q # p => kernel'[q] = kernel[q]
    BY <1>5, Endings
  <2>2. p # Root
    BY <2>1
  <2>3. kernel[Root].state = Alive /\ memory[Root].pc = "wait"
    BY <2>1, <2>2, Places
  <2>4. CASE p = child
    BY <1>a, <2>1, <2>3, <2>4
  <2>5. CASE p # child
    BY <1>a, <2>1, <2>3, <2>5
  <2>6. QED
    BY <2>4, <2>5
<1>6. CASE ChangeFile \/ UNCHANGED vars
  BY <1>6, <1>a DEF ChangeFile, vars
<1>7. QED
  BY <1>1, <1>2, <1>3, <1>4, <1>5, <1>6, <1>a, NextCases

(* The exit status in the shell tells what has become of the child,        *)
(* whatever happens to the file between the search and the execution.      *)
THEOREM StatusTellsResultOfChild == Spec => StatusTellsResult
<1>1. Init => Reasons /\ Awaited
  BY Places DEF Init, Reasons, Awaited, InitialMemory, At
<1>2. ASSUME TypeOK, OneShell, Accounted, Reasons, Awaited, [Next]_vars, NEW p \in Pid,
             started = [ignored |-> FALSE, children |-> {}], At(p, "wait"), At(p, "next")'
      PROVE  memory'[p].status = Result(memory[p].child)
  <2>0. /\ \A q \in Pid \ {Root} : memory[q].pc \in {"execve", "exit", "utility"}
        /\ kernel[p].state = Alive /\ memory[p].pc = "wait" /\ memory'[p].pc = "next"
    BY <1>2 DEF OneShell, At
  <2>1. p = Root
    BY <2>0
  <2>2. memory[Root].child \in Unreaped(Root)
    BY <1>2, <2>1 DEF Awaited
  <2>3. Wait(Root)
    <3>1. \A q \in Pid : ShellStep(q) => q = Root
      BY <1>2, <2>0, ShellSteps, Places
    <3>2. ~ShellStep(Root)
      BY <2>0, <2>1, <2>2 DEF ShellStep, ReadLine, ReadEnd, ReadError, NextCommand, Search, Stat,
         Access, CommandNotFound, ExecuteBuiltin, ForkFails, WaitFails, At
    <3>3. \A q \in Pid : ~Fork(q)
      <4>1. \A q \in Pid : Fork(q) => memory'[p].pc # "next"
        <5> SUFFICES ASSUME NEW q \in Pid, Fork(q) PROVE memory[q].pc = "fork" /\ q = p
          BY <2>0
        <5>1. memory[q].pc = "fork"
          BY DEF Fork, At
        <5>2. QED
          BY <2>0, <2>1, <5>1
      <4>2. QED
        BY <2>0, <4>1
    <3>4. \A q \in Pid : ~Execve(q)
      BY <1>2, <2>0, Executes
    <3>5. \A q \in Pid : ~ProcessEnds(q)
      BY <1>2, <2>0, Endings
    <3>6. ~ChangeFile /\ ~UNCHANGED vars
      BY <2>0 DEF ChangeFile, vars
    <3>7. \A q \in Pid : Wait(q) => q = Root
      BY <1>2, <2>0, Waiting DEF Reaps
    <3>8. QED
      BY <1>2, <3>1, <3>2, <3>3, <3>4, <3>5, <3>6, <3>7, NextCases
  <2>4. PICK c \in Unreaped(Root) :
          /\ Zombie(kernel[c].state)
          /\ memory[Root].child = c => memory'[Root].status = WaitStatus(kernel[c].state)
    BY <1>2, <2>1, <2>3, Waiting DEF Reaps
  <2>5. memory[Root].child = c /\ memory'[Root].status = WaitStatus(kernel[c].state)
    BY <1>2, <2>0, <2>1, <2>4 DEF Accounted, Unreaped
  <2>6. WaitStatus(kernel[c].state) = Result(c)
    <3>1. c \in Pid /\ kernel[c].state \in ProcessState /\ kernel[c].state \notin {Unused, Alive}
      BY <1>2, <2>4, StateTags DEF Unreaped, TypeOK, Process
    <3>2. c # Root
      <4>1. kernel[c].state # kernel[Root].state
        BY <2>0, <2>1, <3>1
      <4>2. QED
        BY <4>1
    <3>3. CASE kernel[c].state = Killed
      BY <3>3 DEF WaitStatus, Result, Killed
    <3>4. CASE kernel[c].state # Killed
      <4>1. kernel[c].state.tag = "exited"
        BY <3>1, <3>4 DEF ProcessState, Exited
      <4>2. CASE memory[c].pc = "utility"
        <5>1. memory[c].errno = "none"
          BY <1>2, <3>1, <3>2, <4>2 DEF Reasons
        <5>2. QED
          BY <3>4, <4>1, <5>1 DEF WaitStatus, Result
      <4>3. CASE memory[c].pc # "utility"
        <5>1. /\ kernel[c].state = Exited(memory[c].status)
              /\ memory[c].errno \in Errno
              /\ memory[c].status = StatusOfErrno(memory[c].errno)
          BY <1>2, <3>1, <3>2, <3>4, <4>3 DEF Reasons
        <5>2. kernel[c].state.value = StatusOfErrno(memory[c].errno)
          BY <5>1 DEF Exited, StatusOfErrno, NOT_FOUND, NOEXEC
        <5>3. QED
          BY <3>4, <4>1, <5>1, <5>2 DEF WaitStatus, Result, StatusOfErrno, NOT_FOUND, NOEXEC, Errno
      <4>4. QED
        BY <4>2, <4>3
    <3>5. QED
      BY <3>3, <3>4
  <2>7. QED
    BY <2>1, <2>5, <2>6
<1>3. TypeOK /\ OneShell /\ Accounted /\ Reasons /\ Awaited /\ [Next]_vars
      => \A p \in Pid :
           started = [ignored |-> FALSE, children |-> {}] /\ At(p, "wait") /\ At(p, "next")'
           => memory'[p].status = Result(memory[p].child)
  BY <1>2
<1>4. Spec => [](TypeOK /\ OneShell /\ Accounted /\ Reasons /\ Awaited)
  BY <1>1, ReasonsStep, AwaitedStep, ShellTypeCorrect, OneShellAlways, AccountedAlways, PTL DEF Spec
<1>5. QED
  BY <1>3, <1>4, PTL DEF Spec, StatusTellsResult
-----------------------------------------------------------------------------
(* The command search                                                      *)

(* A name that is looked for in $PATH is none of those that come first in  *)
(* the order of priority, and is not in any directory before; files that   *)
(* nobody has changed are still what they were.                            *)
Passed(p) ==
  LET name == memory[p].command.name
  IN /\ name \in Name \ (Slash \cup Function)
     /\ ~IsBuiltin(name, "Special") /\ ~IsBuiltin(name, "Intrinsic")
     /\ \A d \in DOMAIN Path : d < memory[p].dir => d \notin FoundIn(name)
     /\ memory[p].pc = "access" => IsRegularFile(KindOf(Candidate(p)))
Searched == changes = 0 => \A p \in Pid : memory[p].pc \in {"stat", "access"} => Passed(p)

(* The steps of the search in the fields that it uses                      *)
LEMMA SearchSteps ==
  ASSUME TypeOK, NEW p \in Pid
  PROVE  LET name == memory[p].command.name
             Same == memory'[p].command = memory[p].command
         IN /\ Search(p) =>
                 /\ memory[p].pc = "search" /\ Same
                 /\ IF name = Nothing THEN memory'[p].pc = "next"
                    ELSE IF name \in Slash
                    THEN memory'[p].pc = "fork" /\ memory'[p].target = <<Here, name>>
                    ELSE IF IsBuiltin(name, "Special") THEN memory'[p].pc = "builtin"
                    ELSE IF name \in Function THEN memory'[p].pc = "next"
                    ELSE IF IsBuiltin(name, "Intrinsic") THEN memory'[p].pc = "builtin"
                    ELSE memory'[p].pc = "stat" /\ memory'[p].dir = 1
            /\ Stat(p) =>
                 /\ memory[p].pc = "stat" /\ Same
                 /\ IF IsRegularFile(KindOf(Candidate(p)))
                    THEN memory'[p].pc = "access" /\ memory'[p].dir = memory[p].dir
                    ELSE memory'[p].pc = "stat" /\ memory'[p].dir = memory[p].dir + 1
            /\ Access(p) =>
                 /\ memory[p].pc = "access" /\ Same
                 /\ IF ~IsExecutable(KindOf(Candidate(p)))
                    THEN memory'[p].pc = "stat" /\ memory'[p].dir = memory[p].dir + 1
                    ELSE IF IsBuiltin(name, "NonIntrinsic") THEN memory'[p].pc = "builtin"
                    ELSE memory'[p].pc = "fork" /\ memory'[p].target = Candidate(p)
            /\ CommandNotFound(p) =>
                 /\ memory[p].pc = "stat" /\ memory[p].dir > Len(Path)
                 /\ memory'[p].pc = "next"
<1> DEFINE name == memory[p].command.name
<1>1. memory \in [Pid -> Memory] /\ DOMAIN memory[p] = {"pc", "aliases", "status", "items", "open",
                                     "command", "dir", "target", "child", "errno"}
  BY DEF TypeOK, Memory
<1>2. /\ name = Nothing => ~IsBuiltin(name, "Special") /\ ~IsBuiltin(name, "Intrinsic")
                           /\ name \notin Slash /\ name \notin Function
      /\ ~(IsBuiltin(name, "Special") /\ IsBuiltin(name, "Intrinsic"))
  BY NameAssumption DEF IsBuiltin
<1>3. Stat(p) \/ Access(p) \/ CommandNotFound(p) =>
        /\ Stat(p) =>
             /\ memory[p].pc = "stat" /\ memory'[p].command = memory[p].command
             /\ IF IsRegularFile(KindOf(Candidate(p)))
                THEN memory'[p].pc = "access" /\ memory'[p].dir = memory[p].dir
                ELSE memory'[p].pc = "stat" /\ memory'[p].dir = memory[p].dir + 1
        /\ Access(p) =>
             /\ memory[p].pc = "access" /\ memory'[p].command = memory[p].command
             /\ IF ~IsExecutable(KindOf(Candidate(p)))
                THEN memory'[p].pc = "stat" /\ memory'[p].dir = memory[p].dir + 1
                ELSE IF IsBuiltin(name, "NonIntrinsic") THEN memory'[p].pc = "builtin"
                ELSE memory'[p].pc = "fork" /\ memory'[p].target = Candidate(p)
        /\ CommandNotFound(p) =>
             /\ memory[p].pc = "stat" /\ memory[p].dir > Len(Path)
             /\ memory'[p].pc = "next"
  BY <1>1 DEF Stat, Access, CommandNotFound, NextDir, Goes, Done, Becomes, At
<1>4. Search(p) =>
        /\ memory[p].pc = "search" /\ memory'[p].command = memory[p].command
        /\ IF name = Nothing THEN memory'[p].pc = "next"
           ELSE IF name \in Slash
           THEN memory'[p].pc = "fork" /\ memory'[p].target = <<Here, name>>
           ELSE IF IsBuiltin(name, "Special") THEN memory'[p].pc = "builtin"
           ELSE IF name \in Function THEN memory'[p].pc = "next"
           ELSE IF IsBuiltin(name, "Intrinsic") THEN memory'[p].pc = "builtin"
           ELSE memory'[p].pc = "stat" /\ memory'[p].dir = 1
  BY <1>1, <1>2 DEF Search, Goes, Becomes, At
<1>5. QED
  BY <1>3, <1>4

(* No other step of the shell comes into the middle of the search.         *)
LEMMA OutsideSearch ==
  ASSUME TypeOK, NEW p \in Pid, ShellStep(p), ~Search(p), ~Stat(p), ~Access(p)
  PROVE  memory'[p].pc \notin {"stat", "access"}
<1>1. memory \in [Pid -> Memory] /\ DOMAIN memory[p] = {"pc", "aliases", "status", "items", "open",
                                     "command", "dir", "target", "child", "errno"}
  BY DEF TypeOK, Memory
<1>2. CASE ReadLine(p)
  <2>1. PICK l \in Line :
          Becomes(p, LET m == [memory[p] EXCEPT !.items = @ \o Parsed(l, memory[p].aliases)]
                     IN CASE l.end = "complete" -> [m EXCEPT !.pc = "next", !.open = FALSE]
                          [] l.end = "open" -> [m EXCEPT !.open = TRUE]
                          [] l.end = "error" -> NewParser(m))
    BY <1>2 DEF ReadLine
  <2>2. memory[p].pc = "read" /\ l.end \in LineEnd
    BY <1>2, LineAssumption DEF ReadLine, At
  <2>3. QED
    BY <1>1, <2>1, <2>2 DEF LineEnd, NewParser, Becomes
<1>3. CASE ReadEnd(p) \/ ReadError(p)
  BY <1>1, <1>3 DEF ReadEnd, ReadError, NewParser, Becomes, At
<1>4. CASE NextCommand(p)
  BY <1>1, <1>4 DEF NextCommand, Goes, Becomes
<1>5. CASE CommandNotFound(p)
  BY <1>1, <1>5 DEF CommandNotFound, Done, Becomes
<1>6. CASE ExecuteBuiltin(p)
  BY <1>1, <1>6 DEF ExecuteBuiltin, Done, Becomes
<1>7. CASE ForkFails(p) \/ WaitFails(p)
  BY <1>1, <1>7 DEF ForkFails, WaitFails, Done, Becomes
<1>8. QED
  BY <1>2, <1>3, <1>4, <1>5, <1>6, <1>7 DEF ShellStep

LEMMA FoundKinds ==
  ASSUME NEW p \in Pid, memory[p].dir \in DOMAIN Path
  PROVE  memory[p].dir \in FoundIn(memory[p].command.name)
           <=> IsRegularFile(KindOf(Candidate(p))) /\ IsExecutable(KindOf(Candidate(p)))
  BY DEF FoundIn, Candidate, IsRegularFile, IsExecutable

LEMMA SearchedStep == TypeOK /\ Searched /\ [Next]_vars => Searched'
<1> SUFFICES ASSUME TypeOK, Searched, [Next]_vars, changes' = 0,
                    NEW q \in Pid, memory'[q].pc \in {"stat", "access"}
             PROVE  Passed(q)'
  BY DEF Searched
<1>0. changes \in Nat /\ Len(Path) \in Nat /\ DOMAIN Path = 1..Len(Path)
      /\ memory[q].dir \in 1..Len(Path) + 1
      /\ (memory[q].pc = "access" => memory[q].dir \in DOMAIN Path)
  BY BoundAssumption, PathAssumption DEF TypeOK, Memory
<1>a. ASSUME changes' = changes, files' = files, memory'[q] = memory[q]
      PROVE  Passed(q)'
  <2>1. Passed(q)
    BY <1>a DEF Searched
  <2>2. QED
    BY <1>a, <2>1 DEF Passed, FoundIn, KindOf, Candidate
<1>1. ASSUME NEW p \in Pid, ShellStep(p) PROVE Passed(q)'
  <2>1. files' = files /\ changes' = changes
    BY <1>1, ShellSteps
  <2>2. CASE p # q
    BY <1>1, <1>a, <2>1, <2>2, ShellSteps
  <2>3. CASE p = q
    <3> DEFINE name == memory[q].command.name
    <3>1. changes = 0
      BY <2>1
    <3>2. CASE Search(q)
      <4>1. /\ memory'[q].command = memory[q].command /\ memory'[q].pc = "stat"
            /\ name # Nothing /\ name \notin Slash \cup Function
            /\ ~IsBuiltin(name, "Special") /\ ~IsBuiltin(name, "Intrinsic")
            /\ memory'[q].dir = 1
        BY <3>2, SearchSteps
      <4>2. name \in Name
        BY <4>1 DEF TypeOK, Memory, ParsedCommand
      <4>3. QED
        BY <1>0, <4>1, <4>2 DEF Passed
    <3>3. CASE Stat(q) \/ Access(q)
      <4>1. Passed(q)
        BY <3>1, <3>3 DEF Searched, Stat, Access, At
      <4>2. memory[q].dir \in DOMAIN Path
        BY <1>0, <3>3 DEF Stat, Access, At
      <4>3. CASE memory'[q].dir = memory[q].dir
        <5>1. /\ Stat(q) /\ IsRegularFile(KindOf(Candidate(q)))
              /\ memory'[q].command = memory[q].command
          BY <1>0, <3>3, <4>2, <4>3, SearchSteps
        <5>2. KindOf(Candidate(q))' = KindOf(Candidate(q))
          BY <2>1, <4>3, <5>1 DEF Candidate, KindOf
        <5>3. QED
          BY <2>1, <4>1, <4>3, <5>1, <5>2 DEF Passed, FoundIn, KindOf
      <4>4. CASE memory'[q].dir # memory[q].dir
        <5>1. /\ memory'[q].command = memory[q].command
              /\ memory'[q].pc = "stat" /\ memory'[q].dir = memory[q].dir + 1
              /\ ~(IsRegularFile(KindOf(Candidate(q))) /\ IsExecutable(KindOf(Candidate(q))))
          BY <3>3, <4>4, SearchSteps
        <5>2. memory[q].dir \notin FoundIn(name)
          BY <4>2, <5>1, FoundKinds
        <5>3. \A d \in DOMAIN Path : d < memory[q].dir + 1 => d \notin FoundIn(name)
          BY <1>0, <4>1, <4>2, <5>2 DEF Passed
        <5>4. QED
          BY <2>1, <4>1, <5>1, <5>3 DEF Passed, FoundIn, KindOf
      <4>5. QED
        BY <4>3, <4>4
    <3>4. QED
      BY <1>1, <2>3, <3>2, <3>3, OutsideSearch
  <2>4. QED
    BY <2>2, <2>3
<1>2. ASSUME NEW p \in Pid, Fork(p) PROVE Passed(q)'
  <2>1. memory'[q] = memory[q]
    BY <1>2, Forks
  <2>2. QED
    BY <1>2, <1>a, <2>1 DEF Fork
<1>3. ASSUME NEW p \in Pid, Execve(p) PROVE Passed(q)'
  <2>1. memory'[q] = memory[q]
    BY <1>3, Executes
  <2>2. QED
    BY <1>3, <1>a, <2>1 DEF Execve
<1>4. ASSUME NEW p \in Pid, Wait(p) PROVE Passed(q)'
  <2>1. memory'[q] = memory[q]
    BY <1>4, Waiting DEF Reaps
  <2>2. QED
    BY <1>4, <1>a, <2>1 DEF Wait
<1>5. ASSUME NEW p \in Pid, ProcessEnds(p) PROVE Passed(q)'
  BY <1>5, <1>a, Endings
<1>6. CASE ChangeFile
  BY <1>0, <1>6 DEF ChangeFile
<1>7. CASE UNCHANGED vars
  BY <1>7, <1>a DEF vars
<1>8. QED
  BY <1>1, <1>2, <1>3, <1>4, <1>5, <1>6, <1>7, NextCases

(* The search in several system calls comes to the first target in the     *)
(* order of priority, for any $PATH, files, functions and built-ins.       *)
THEOREM SearchFindsFirst == Spec => SearchInOrder
<1> DEFINE Leaves(p) ==
             LET name == memory[p].command.name
             IN changes = 0 /\ memory[p].pc \in Searching /\ memory'[p].pc \notin Searching
                /\ name # Nothing
                => /\ memory'[p].pc = Expected(name)
                   /\ Expected(name) = "fork" =>
                        \/ name \in Slash /\ memory'[p].target = <<Here, name>>
                        \/ \E d \in DOMAIN Path : /\ IsFirst(d, name)
                                                   /\ memory'[p].target = <<Path[d], name>>
<1>1. Init => Searched
  BY DEF Init, Searched, InitialMemory
<1>2. ASSUME TypeOK, OneShell, Searched, [Next]_vars, NEW p \in Pid
      PROVE  Leaves(p)
  <2> DEFINE name == memory[p].command.name
  <2> SUFFICES ASSUME changes = 0, memory[p].pc \in Searching, memory'[p].pc \notin Searching,
                      name # Nothing
               PROVE  /\ memory'[p].pc = Expected(name)
                      /\ Expected(name) = "fork" =>
                           \/ name \in Slash /\ memory'[p].target = <<Here, name>>
                           \/ \E d \in DOMAIN Path : /\ IsFirst(d, name)
                                                      /\ memory'[p].target = <<Path[d], name>>
    OBVIOUS
  <2>1. memory'[p] # memory[p]
    OBVIOUS
  <2>2. Search(p) \/ Stat(p) \/ Access(p) \/ CommandNotFound(p)
    <3>1. PICK q \in Pid : ShellStep(q) \/ Fork(q) \/ Execve(q) \/ Wait(q) \/ ProcessEnds(q)
      BY <1>2, <2>1, NextCases DEF ChangeFile, vars
    <3>2. ~ProcessEnds(q)
      BY <1>2, <2>1, Endings
    <3>3. ~Execve(q)
      BY <1>2, <2>1, Executes DEF Searching
    <3>4. ~Wait(q)
      BY <1>2, <2>1, Waiting DEF Searching, Reaps
    <3>5. ASSUME Fork(q) PROVE FALSE
      <4>1. memory'[q].pc = "wait" /\ memory[q].pc = "fork"
        BY <1>2, <3>5, Forks
      <4>2. p = Root /\ q = Root
        BY <1>2, <4>1 DEF OneShell, Searching
      <4>3. QED
        BY <4>1, <4>2 DEF Searching
    <3>6. ShellStep(p)
      BY <1>2, <2>1, <3>1, <3>2, <3>3, <3>4, <3>5, ShellSteps
    <3>7. QED
      BY <3>6 DEF ShellStep, ReadLine, ReadEnd, ReadError, NextCommand, ExecuteBuiltin, ForkFails,
                  WaitFails, At, Searching
  <2>3. /\ Len(Path) \in Nat /\ DOMAIN Path = 1..Len(Path) /\ memory[p].dir \in 1..Len(Path) + 1
        /\ (memory[p].pc = "access" => memory[p].dir \in DOMAIN Path)
    BY <1>2, PathAssumption DEF TypeOK, Memory
  <2>4. CASE Search(p)
    BY <1>2, <2>4, SearchSteps DEF Expected, Searching
  <2>5. CASE Access(p)
    <3>1. Passed(p) /\ memory[p].dir \in DOMAIN Path
      BY <1>2, <2>3, <2>5 DEF Searched, Access, At
    <3>2. IsExecutable(KindOf(Candidate(p)))
      BY <1>2, <2>5, SearchSteps DEF Searching
    <3>3. memory[p].dir \in FoundIn(name)
      BY <2>5, <3>1, <3>2, FoundKinds DEF Passed, Access, At
    <3>4. IsFirst(memory[p].dir, name)
      <4>1. \A e \in FoundIn(name) : e \in 1..Len(Path) /\ ~(e < memory[p].dir)
        BY <2>3, <3>1 DEF Passed, FoundIn
      <4>2. QED
        BY <2>3, <3>3, <4>1 DEF IsFirst
    <3>5. name \in DOMAIN BuiltinType => IsBuiltin(name, "NonIntrinsic")
      BY <3>1, NameAssumption DEF Passed, IsBuiltin
    <3>6. Expected(name) = IF IsBuiltin(name, "NonIntrinsic") THEN "builtin" ELSE "fork"
      BY <3>1, <3>3, <3>5 DEF Passed, Expected, IsBuiltin
    <3>7. QED
      BY <1>2, <2>5, <3>1, <3>2, <3>4, <3>6, SearchSteps DEF Candidate
  <2>6. CASE CommandNotFound(p)
    <3>1. Passed(p) /\ memory[p].dir > Len(Path) /\ memory'[p].pc = "next"
      BY <1>2, <2>6, SearchSteps DEF Searched
    <3>2. FoundIn(name) = {}
      BY <2>3, <3>1 DEF Passed, FoundIn
    <3>3. Expected(name) = "next"
      BY <3>1, <3>2 DEF Passed, Expected
    <3>4. QED
      BY <3>1, <3>3
  <2>7. ~Stat(p)
    BY <1>2, SearchSteps DEF Searching
  <2>8. QED
    BY <2>2, <2>4, <2>5, <2>6, <2>7
<1>3. TypeOK /\ OneShell /\ Searched /\ [Next]_vars => \A p \in Pid : Leaves(p)
  BY <1>2
<1>4. Spec => [](TypeOK /\ OneShell /\ Searched)
  BY <1>1, SearchedStep, OneShellAlways, ShellTypeCorrect, PTL DEF Spec
<1>5. QED
  BY <1>3, <1>4, PTL DEF Spec, SearchInOrder
=============================================================================
