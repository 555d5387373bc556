\* Any sequence of lines, of two processes, with unparsable and glued ones.
CONSTANTS
  Pids = {p1, p2}
  G_topProcessId = p1
  SysFunctions = {"read", "futex"}
  LibFunctions = {"__libc_start_main"}
  Nothing = Nothing
  Junk = Junk
  Damages = {"text", "open"}
  MaxLines = 4
  TracerName = "ltrace"
  G_batchModels <- MCModels
SPECIFICATION ReaderSpec
INVARIANT TypeOK
INVARIANT MatchedHalvesAgree
INVARIANT StacksHoldAwaited
INVARIANT NeverRaises
INVARIANT ParsableYieldedOnce
PROPERTY LinksAreFinal
CHECK_DEADLOCK FALSE
