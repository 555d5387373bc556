\* ltrace -f of a command which waits for its sub-process.
CONSTANTS
  Pids = {p1, p2}
  TopPid = p1
  G_topProcessId = p1
  SysFunctions = {"read"}
  LibFunctions = {}
  Nothing = Nothing
  Junk = Junk
  Damages = {}
  MaxLines = 5
  TracerName = "ltrace"
  G_batchModels <- MCModels
SPECIFICATION Spec
INVARIANT NoHalfIsMissed
CHECK_DEADLOCK FALSE
