SPECIFICATION FairSpec
CONSTANTS
  MaxTriples = 2
  Main = Main
  Thread = Thread
  None = None
  Events = {1, 2}
  Unconvertible = {2}
  f1 = f1
  f2 = f2
  Files <- MCFiles
  FilesOf <- MCFilesOf
  Readers = {r1, r2}
  Broken = Broken
  NoFile = NoFile
  MaxTry = 2
  MaxFailures = 1
INVARIANTS
  TypeOK
  AddedInOrder
  KeptUnlessMissed
  ShownAgainOnlyIfUnreadable
PROPERTIES
  AddedIsStored
  ReadersEnd
CHECK_DEADLOCK FALSE
