\* Every entry point, three processes, on a fair executor.
SPECIFICATION FairSpec
CONSTANTS
  MaxPid = 4
  ExitStatus = {0}
  Signal = {sig}
  sig = sig
  Api = {"run", "start", "spawn", "wait", "yield", "signal", "spurious"}
CHECK_DEADLOCK FALSE
INVARIANTS TypeOK NoLostWakeup WakersInPlace
PROPERTIES WaitpidSafety WaitAnswered
