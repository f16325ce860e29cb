\* Simple commands executed one after another, while files are saved.
SPECIFICATION FairShellSpec
CONSTANTS
  MaxPid = 4
  ExitStatus = {0, 126, 127}
  Signal = {}
  Api = {"run", "yield", "spurious"}
  Word = {"ls", "./a", "nul", "set", "test", "fun", "bin", "usr"}
  Slash = {"./a"}
  Nul = {"nul"}
  BuiltinType <- MCBuiltinType
  BuiltinStatus = {0}
  Function = {"fun"}
  Command <- MCCommand
  VariableName = {"PATH"}
  Variable <- MCVariable
  INode <- MCINode
  Path <- MCPath
CHECK_DEADLOCK FALSE
INVARIANTS SubshellFinished NoHopelessWait ShellTypeOK FirstArgumentIsName PathPassedOn
PROPERTIES SubshellReturns StatusOfUtility
