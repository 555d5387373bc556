\* ltrace of two processes, whose descriptors have the same numbers.
CONSTANTS
  Pids = {p1, p2}
  Files = {f1, f2}
  Fds = {3, 4}
  Nothing = Nothing
  TracerName = "ltrace"
  MaxCalls = 7
  Aliases = FALSE
  Failures = FALSE
SPECIFICATION Spec
INVARIANT EveryTransferCounted
CHECK_DEADLOCK FALSE
