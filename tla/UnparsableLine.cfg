\* A line that cannot be parsed follows a call.
CONSTANTS
  Pids = {p1, p2}
  G_topProcessId = p1
  SysFunctions = {"read"}
  LibFunctions = {}
  Nothing = Nothing
  Junk = Junk
  Damages = {"text", "open"}
  MaxLines = 5
  TracerName = "strace"
  G_batchModels <- MCModels
SPECIFICATION ReaderSpec
INVARIANT CallsYieldedOnce
CHECK_DEADLOCK FALSE
