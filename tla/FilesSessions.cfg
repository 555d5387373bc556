\* ltrace of one process, without duplicated descriptors and failures.
CONSTANTS
  Pids = {p1}
  Files = {f1, f2}
  Fds = {3, 4}
  Nothing = Nothing
  TracerName = "ltrace"
  MaxCalls = 9
  Aliases = FALSE
  Failures = FALSE
SPECIFICATION Spec
INVARIANT LiveAccessIsOpenFile
PROPERTY AccessesAreSessions
CHECK_DEADLOCK FALSE
