\* A command and two sub-processes.
CONSTANTS
  Pids = {p1, p2, p3}
  TopPid = p1
  NoPid = NoPid
  ErrorPid = ErrorPid
  None = None
  MaxCalls = 5
SPECIFICATION Spec
INVARIANT TypeOK
INVARIANT NoCycle
 
INVARIANT PrintedUnderItsParent
INVARIANT DatesAgree
SYMMETRY Symmetry
CHECK_DEADLOCK FALSE
