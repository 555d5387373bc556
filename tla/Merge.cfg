SPECIFICATION Spec
CONSTANTS
  local = local
  distant = distant
  missing = missing
  html = html
  None = None
  Scripts <- MCScripts
  NotFound <- MCNotFound
  NotPython <- MCNotPython
  Remote <- MCRemote
  Silent <- MCSilent
  MaxUrls = 2
  MaxMerges = 2
  MaxRequests = 3
INVARIANTS
  TypeOK
  PageIsOfItsRequest
  EveryUrlAccounted
  FreshRequestAnswered
CHECK_DEADLOCK FALSE
