\* strace -y, descriptors are duplicated and inherited; calls may fail.
CONSTANTS
  Pids = {p1, p2}
  Files = {f1, f2}
  Fds = {3, 4}
  Nothing = Nothing
  TracerName = "strace"
  MaxCalls = 7
  Aliases = TRUE
  Failures = TRUE
SPECIFICATION Spec
INVARIANT TypeOK
INVARIANT LiveAccessesAreCached
INVARIANT AccessesDoNotOverlap
INVARIANT EveryTransferCounted
PROPERTY ClosedAccessIsFinal
SYMMETRY Symmetry
CHECK_DEADLOCK FALSE
