SPECIFICATION Spec
CONSTANTS
  read = read
  wait4 = wait4
  getenv = getenv
  clone = clone
  file = file
  None = None
  Functions = {read, wait4, clone, getenv}
  Unaggregated = {clone}
  Unyielded = {getenv}
  Args = {file}
  ArgLists <- MCArgLists
  Calls <- MCCalls
  Frequent = 1
  MaxBatches = 6
INVARIANTS TypeOK NothingLost NeverInconsistent HalvesFiltered CountsAreExact RunsAreGrouped
PROPERTIES OnlyFirstHalfRemoved PairsAreRare LessRemains Terminates
CHECK_DEADLOCK FALSE
