\* ltrace -f: system calls nested in library calls.
CONSTANTS
  Pids = {p1, p2}
  TopPid = p1
  G_topProcessId = p1
  SysFunctions = {"read"}
  LibFunctions = {"getenv"}
  Nothing = Nothing
  Junk = Junk
  Damages = {"text"}
  MaxLines = 5
  TracerName = "ltrace"
  G_batchModels <- MCModels
SPECIFICATION Spec
INVARIANT MergedIsOneCall
INVARIANT ResumedFindsItsHalf
CHECK_DEADLOCK FALSE
