\* Two lines of input; the child can be killed and the file be changed at any time.
SPECIFICATION FairSpec
CONSTANTS
  Name <- MCName
  Slash = {"./a"}
  BuiltinType <- MCBuiltinType
  Function = {"fun"}
  Dir = {"bin", "usr"}
  Path <- MCPath
  File <- MCFile
  FileKind = {"missing", "data", "native"}
  Line <- MCLine
  MaxItems = 2
  MaxLines = 2
  MaxChanges = 1
  Pid = {1, 2, 3}
  Root = 1
  Inheritable = {}
  Status = {1}
CHECK_DEADLOCK FALSE
INVARIANTS TypeOK ExecutedOnce ChildrenAccounted
PROPERTIES StatusTellsResult SearchInOrder ProgramEnds
