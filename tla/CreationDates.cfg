\* A command and one sub-process.
CONSTANTS
  Pids = {p1, p2}
  TopPid = p1
  NoPid = NoPid
  ErrorPid = ErrorPid
  None = None
  MaxCalls = 6
SPECIFICATION Spec
INVARIANT CreatedBeforeItsCalls
CHECK_DEADLOCK FALSE
