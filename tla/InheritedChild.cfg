\* The process had a child before it became the shell.
SPECIFICATION Spec
CONSTANTS
  Name <- MCName
  Slash = {"./a"}
  BuiltinType <- MCBuiltinType
  Function = {"fun"}
  Dir = {"bin", "usr"}
  Path <- MCPath
  File <- MCFile
  FileKind = {"missing", "data", "native"}
  Line <- MCLine
  MaxItems = 2
  MaxLines = 1
  MaxChanges = 1
  Pid = {1, 2, 3}
  Root = 1
  Inheritable = {3}
  Status = {1}
CHECK_DEADLOCK FALSE
INVARIANT AwaitedIsSubshell
