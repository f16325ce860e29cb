\* The subshell is stopped while the shell waits.
SPECIFICATION FairSpec
CONSTANTS
  MaxPid = 4
  ExitStatus = {0, 1}
  Signal = {sig}
  sig = sig
  Api = {"run", "signal", "yield"}
CHECK_DEADLOCK FALSE
INVARIANT ContinuesWaiting
