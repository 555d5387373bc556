------------------------- MODULE DockitFilesProofs --------------------------
(***************************************************************************)
(* What is proved of the FileAccess objects for any sequence of calls      *)
(* holds for the calls of traced processes; and if the log shows which     *)
(* file each call is about, the objects implement FileSessions.            *)
(***************************************************************************)
EXTENDS DockitFiles, FileAccessProofs, FiniteSetTheorems

FdsOK == fds \in [Pids -> [Fds -> Files \cup {Nothing}]]

LEMMA ShownType ==
  ASSUME FdsOK, NEW p \in Pids, NEW d \in Fds
  PROVE  Shown(p, d) \in PathNames
BY DEF Shown, IsOpen, FdsOK, PathNames, Returned

LEMMA FilesInit == Init => FdsOK /\ AccessInit
BY DEF Init, FdsOK

(* Each call of a process is a call in the sense of FileAccess.            *)
LEMMA FilesNext == FdsOK /\ Next => FdsOK' /\ AccessNext
<1>. SUFFICES ASSUME FdsOK, Next PROVE FdsOK' /\ AccessNext
  OBVIOUS
<1>1. Tick
  BY DEF Next
<1>2. ASSUME NEW p \in Pids, NEW f \in Files, NEW call \in {"open", "openat"}, OpenFile(p, call, f)
      PROVE  FdsOK' /\ AccessNext
  <2>1. PICK d \in Fds : fds' = [fds EXCEPT ![p][d] = f] /\ Open(p, call, d, f, FALSE)
    BY <1>2 DEF OpenFile, Free
  <2>2. FdsOK'
    BY <2>1 DEF FdsOK
  <2>. QED
    BY <1>1, <2>1, <2>2 DEF AccessNext
<1>3. ASSUME NEW p \in Pids, NEW f \in Files, NEW call \in {"open", "openat"},
             NEW missing \in BOOLEAN, OpenFails(p, call, f, missing)
      PROVE  FdsOK' /\ AccessNext
  BY <1>1, <1>3 DEF OpenFails, AccessNext, FdsOK
<1>4. ASSUME NEW p \in Pids, NEW d \in Fds, CloseFile(p, d)
      PROVE  FdsOK' /\ AccessNext
  <2>1. IsOpen(p, d) \in BOOLEAN /\ Shown(p, d) \in PathNames
    BY ShownType DEF IsOpen
  <2>2. FdsOK'
    BY <1>4 DEF CloseFile, FdsOK
  <2>. QED
    BY <1>1, <1>4, <2>1, <2>2 DEF CloseFile, AccessNext
<1>5. ASSUME NEW p \in Pids, NEW d \in Fds, NEW valid \in BOOLEAN,
             ReadFile(p, d, valid) \/ WriteFile(p, d, valid)
      PROVE  FdsOK' /\ AccessNext
  <2>1. Shown(p, d) \in PathNames
    BY ShownType
  <2>2. FdsOK' /\ (Read(p, d, Shown(p, d), valid) \/ Write(p, d, Shown(p, d), valid))
    BY <1>5 DEF ReadFile, WriteFile, FdsOK
  <2>. QED
    BY <1>1, <2>1, <2>2 DEF AccessNext
<1>6. ASSUME NEW p \in Pids, NEW d \in Fds, NEW e \in Fds, Dup(p, d, e)
      PROVE  FdsOK' /\ AccessNext
  BY <1>1, <1>6 DEF Dup, FdsOK, AccessNext
<1>7. ASSUME NEW p \in Pids, NEW q \in Pids, Fork(p, q)
      PROVE  FdsOK' /\ AccessNext
  BY <1>1, <1>7 DEF Fork, FdsOK, AccessNext
<1>. QED
  BY <1>2, <1>3, <1>4, <1>5, <1>6, <1>7 DEF Next

(* The system's descriptor tables only choose which calls are made.        *)
THEOREM FilesRefineAccesses == Spec => AccessSpec
<1>1. FdsOK /\ [Next]_vars => FdsOK' /\ [AccessNext]_accessVars
  <2>1. FdsOK /\ UNCHANGED vars => FdsOK' /\ UNCHANGED accessVars
    BY DEF FdsOK, vars
  <2>. QED  BY <2>1, FilesNext
<1>. QED
  BY <1>1, FilesInit, PTL DEF Spec, AccessSpec

(* A closed access of a traced process never changes: with descriptors     *)
(* duplicated, inherited or reused, and calls that fail.                   *)
THEOREM TracedClosedIsFinal == Spec => ClosedAccessIsFinal
BY FilesRefineAccesses, ClosedIsFinal

-----------------------------------------------------------------------------
(* A process has one descriptor to a file, its accesses that are in the    *)
(* cache are those of its open files, and the table of ltrace has the path *)
(* names of the descriptors that are open.  What the table keeps of the    *)
(* others is stale.                                                        *)
CachedIsOpen ==
  \A p \in Pids, f \in Files : Cached(p, f) # 0 <=> \E d \in Fds : fds[p][d] = f

OneDescriptor ==
  \A p \in Pids, d, e \in Fds : IsOpen(p, d) /\ fds[p][d] = fds[p][e] => d = e

MapIsRight ==
  TracerName = "ltrace" =>
    \A p \in Pids, d \in Fds : IsOpen(p, d) => G_mapFilDesToPathName[d] = fds[p][d]

SessionInv == FdsOK /\ CachedIsOpen /\ OneDescriptor /\ MapIsRight

(* What is enough for the log to show which file each call is about: no    *)
(* aliases, and either the option -y, or one process whose calls succeed.  *)
FilesAreKnown ==
  /\ Aliases = FALSE
  /\ \/ TracerName = "strace"
     \/ Failures = FALSE /\ \A p, q \in Pids : p = q

(* The accesses that are live are those of the cache.                      *)
LEMMA LiveIsCached ==
  ASSUME LiveAccessesAreCached, NEW p \in Pids, NEW f \in PathNames
  PROVE  (\E a \in 1..Len(accesses) : /\ accesses[a].proc = p /\ accesses[a].file = f
                                      /\ accesses[a].CloseTime = 0)
           <=> Cached(p, f) # 0
<1>1. ASSUME NEW a \in 1..Len(accesses),
             accesses[a].proc = p, accesses[a].file = f, accesses[a].CloseTime = 0
      PROVE  Cached(p, f) # 0
  <2>1. Cached(p, f) = a
    BY <1>1 DEF LiveAccessesAreCached
  <2>2. a # 0
    OBVIOUS
  <2>. QED  BY <2>1, <2>2
<1>2. ASSUME Cached(p, f) # 0
      PROVE  \E a \in 1..Len(accesses) : /\ accesses[a].proc = p /\ accesses[a].file = f
                                         /\ accesses[a].CloseTime = 0
  <2>. DEFINE c == Cached(p, f)
  <2>1. c \in 1..Len(accesses) /\ accesses[c].proc = p /\ accesses[c].file = f
    BY <1>2 DEF LiveAccessesAreCached
  <2>2. accesses[c].CloseTime = 0
    BY <2>1 DEF LiveAccessesAreCached
  <2>. HIDE DEF c
  <2>. QED  BY <2>1, <2>2
<1>. QED
  BY <1>1, <1>2

(* Update changes the place of one access in the cache.                    *)
LEMMA UpdateCaches ==
  ASSUME TypeOK, NEW p \in Pids, NEW g \in PathNames, NEW acc, NEW kept \in BOOLEAN,
         Update(p, g, acc, kept)
  PROVE  /\ Cached(p, g)' # 0 <=> kept
         /\ \A q \in Pids, f \in PathNames :
              q # p \/ f # g => Cached(q, f)' = Cached(q, f)
<1>1. G_cacheFileAccesses \in [Pids -> [PathNames -> Nat]] /\ Len(accesses) \in Nat
  BY DEF TypeOK
<1>2. Lookup(p, g) # 0
  BY <1>1 DEF Lookup, Cached
<1>3. G_cacheFileAccesses' =
        [G_cacheFileAccesses EXCEPT ![p][g] = IF kept THEN Lookup(p, g) ELSE 0]
  BY DEF Update
<1>. QED
  BY <1>1, <1>2, <1>3 DEF Cached

(* The operations other than SetCloseTime leave the access in the cache.   *)
LEMMA OperationsCache ==
  ASSUME TypeOK, NEW p \in Pids, NEW g \in PathNames
  PROVE  /\ SetOpenTime(p, g) \/ SetRead(p, g) \/ SetWritten(p, g) \/ JustLookup(p, g) =>
              /\ Cached(p, g)' # 0
              /\ \A q \in Pids, f \in PathNames :
                   q # p \/ f # g => Cached(q, f)' = Cached(q, f)
         /\ SetCloseTime(p, g) =>
              /\ Cached(p, g)' = 0
              /\ \A q \in Pids, f \in PathNames :
                   q # p \/ f # g => Cached(q, f)' = Cached(q, f)
<1>1. ASSUME SetOpenTime(p, g) \/ SetRead(p, g) \/ SetWritten(p, g) \/ JustLookup(p, g)
      PROVE  \E acc : Update(p, g, acc, TRUE)
  BY <1>1 DEF SetOpenTime, SetRead, SetWritten, JustLookup
<1>2. ASSUME SetCloseTime(p, g)
      PROVE  \E acc : Update(p, g, acc, FALSE)
  BY <1>2 DEF SetCloseTime
<1>. QED
  BY <1>1, <1>2, UpdateCaches

(* A path name that dockit makes up is none of a file.                     *)
LEMMA UnknownIsNoFile ==
  ASSUME NEW d \in Returned
  PROVE  UnknownFileDescr(d) \in PathNames \ Files
BY FileAccessAssumption DEF PathNames

(* The log shows the file of a descriptor that is open.                    *)
LEMMA OpenIsShown ==
  ASSUME SessionInv, NEW p \in Pids, NEW d \in Fds, IsOpen(p, d)
  PROVE  /\ fds[p][d] \in Files /\ fds[p][d] \in PathNames
         /\ PathName(d, Shown(p, d)) = fds[p][d]
         /\ Cached(p, fds[p][d]) # 0
<1>1. fds[p][d] \in Files /\ fds[p][d] \in PathNames
  BY DEF SessionInv, FdsOK, IsOpen, PathNames
<1>2. d # -1 /\ TracerName \in {"strace", "ltrace"}
  BY FileAccessAssumption
<1>3. PathName(d, Shown(p, d)) = fds[p][d]
  BY <1>2 DEF PathName, Shown, SessionInv, MapIsRight
<1>. QED
  BY <1>1, <1>3 DEF SessionInv, CachedIsOpen

(* A step that leaves the descriptors and their table alone, and the place *)
(* in the cache of what is an access to a file.                            *)
LEMMA CacheKept ==
  ASSUME SessionInv, UNCHANGED <<fds, G_mapFilDesToPathName>>,
         \A q \in Pids, f \in Files : Cached(q, f)' # 0 <=> Cached(q, f) # 0
  PROVE  SessionInv'
<1>1. FdsOK' /\ OneDescriptor' /\ MapIsRight'
  BY DEF SessionInv, FdsOK, OneDescriptor, MapIsRight, IsOpen
<1>2. CachedIsOpen'
  BY DEF SessionInv, CachedIsOpen
<1>. QED
  BY <1>1, <1>2 DEF SessionInv

(* A call that touches no access, as the cache and the sessions see it.    *)
LEMMA NoAccessCaches ==
  ASSUME NoAccess
  PROVE  \A q \in Pids, f \in Files : Cached(q, f)' = Cached(q, f)
BY DEF NoAccess, Cached

-----------------------------------------------------------------------------
(* What the handlers make of the calls.  A file that is opened had no      *)
(* descriptor and has no live access.                                      *)
LEMMA OpenIsLogged ==
  ASSUME FilesAreKnown, SessionInv, NEW p \in Pids, NEW f \in Files,
         NEW call \in {"open", "openat"}, OpenFile(p, call, f)
  PROVE  SetOpenTime(p, f) /\ Cached(p, f) = 0
<1>1. PICK d \in Fds : Open(p, call, d, f, FALSE)
  BY DEF OpenFile, Free
<1>2. \A e \in Fds : fds[p][e] # f
  BY DEF OpenFile, FilesAreKnown
<1>3. d # -1
  BY FileAccessAssumption
<1>4. SetOpenTime(p, f)
  BY <1>1, <1>3 DEF Open, PathName
<1>. QED
  BY <1>2, <1>4 DEF SessionInv, CachedIsOpen

(* With strace, the path name of an open that fails is made up.            *)
LEMMA FailureIsLogged ==
  ASSUME FilesAreKnown, NEW p \in Pids, NEW f \in Files,
         NEW call \in {"open", "openat"}, NEW missing \in BOOLEAN, OpenFails(p, call, f, missing)
  PROVE  /\ UNCHANGED <<fds, G_mapFilDesToPathName>>
         /\ NoAccess \/ SetOpenTime(p, UnknownFileDescr(-1))
<1>1. TracerName = "strace"
  BY DEF OpenFails, FilesAreKnown
<1>. QED
  BY <1>1 DEF OpenFails, Open, PathName

(* With strace, the error of a close is seen.                              *)
LEMMA CloseIsLogged ==
  ASSUME FilesAreKnown, SessionInv, NEW p \in Pids, NEW d \in Fds, CloseFile(p, d)
  PROVE  IF IsOpen(p, d) THEN SetCloseTime(p, fds[p][d]) ELSE NoAccess
<1>1. CASE IsOpen(p, d)
  BY <1>1, OpenIsShown DEF CloseFile, Close
<1>2. CASE ~IsOpen(p, d)
  BY <1>2, FileAccessAssumption DEF Close, CloseFile, FilesAreKnown
<1>. QED
  BY <1>1, <1>2

(* A transfer is about a file whose access is in the cache, or about a     *)
(* path name that is made up.                                              *)
LEMMA TransferIsLogged ==
  ASSUME FilesAreKnown, SessionInv, NEW p \in Pids, NEW d \in Fds,
         NEW valid \in BOOLEAN, ReadFile(p, d, valid) \/ WriteFile(p, d, valid)
  PROVE  /\ UNCHANGED <<fds, G_mapFilDesToPathName>>
         /\ \E g \in PathNames :
              /\ g \in Files => Cached(p, g) # 0
              /\ NoAccess \/ SetRead(p, g) \/ SetWritten(p, g) \/ JustLookup(p, g)
<1>1. UNCHANGED <<fds, G_mapFilDesToPathName>>
  BY DEF ReadFile, WriteFile, Read, Write
<1>2. PICK g : /\ g = PathName(d, Shown(p, d))
               /\ NoAccess \/ SetRead(p, g) \/ SetWritten(p, g) \/ JustLookup(p, g)
  BY DEF ReadFile, WriteFile, Read, Write
<1>3. CASE IsOpen(p, d)
  BY <1>1, <1>2, <1>3, OpenIsShown
<1>4. CASE ~IsOpen(p, d)
  <2>1. TracerName # "ltrace"
    BY <1>4 DEF ReadFile, WriteFile, FilesAreKnown
  <2>2. d # -1 /\ d \in Returned
    BY FileAccessAssumption DEF Returned
  <2>3. g = UnknownFileDescr(d)
    BY <1>2, <1>4, <2>1 DEF PathName, Shown
  <2>. QED
    BY <1>1, <1>2, <2>2, <2>3, UnknownIsNoFile
<1>. QED
  BY <1>3, <1>4

-----------------------------------------------------------------------------
(* open: the file had no descriptor, and gets a free one.                  *)
LEMMA OpenKeepsSessions ==
  ASSUME FilesAreKnown, SessionInv, TypeOK, NEW p \in Pids, NEW f \in Files,
         NEW call \in {"open", "openat"}, OpenFile(p, call, f)
  PROVE  SessionInv'
<1>1. PICK d \in Fds : /\ fds[p][d] = Nothing
                       /\ fds' = [fds EXCEPT ![p][d] = f]
                       /\ Open(p, call, d, f, FALSE)
  BY DEF OpenFile, Free
<1>2. \A e \in Fds : fds[p][e] # f
  BY DEF OpenFile, FilesAreKnown
<1>3. f \in PathNames /\ f # Nothing /\ d # -1 /\ d \in Returned
  BY FileAccessAssumption, DockitFilesAssumption DEF PathNames, Returned
<1>4. SetOpenTime(p, f)
  BY OpenIsLogged
<1>5. /\ Cached(p, f)' # 0
      /\ \A q \in Pids, g \in PathNames : q # p \/ g # f => Cached(q, g)' = Cached(q, g)
  BY <1>3, <1>4, OperationsCache
<1>6. /\ fds'[p][d] = f
      /\ \A q \in Pids, e \in Fds : q # p \/ e # d => fds'[q][e] = fds[q][e]
      /\ fds' \in [Pids -> [Fds -> Files \cup {Nothing}]]
  BY <1>1 DEF SessionInv, FdsOK
<1>7. FdsOK'
  BY <1>6 DEF FdsOK
<1>8. CachedIsOpen'
  <2>. SUFFICES ASSUME NEW q \in Pids, NEW g \in Files
                PROVE  Cached(q, g)' # 0 <=> \E e \in Fds : fds'[q][e] = g
    BY DEF CachedIsOpen
  <2>1. CASE q = p /\ g = f
    BY <1>5, <1>6, <2>1
  <2>2. CASE q # p \/ g # f
    <3>1. Cached(q, g)' = Cached(q, g)
      BY <1>5, <2>2 DEF PathNames
    <3>2. \A e \in Fds : fds'[q][e] = g <=> fds[q][e] = g
      BY <1>1, <1>3, <1>6, <2>2, DockitFilesAssumption DEF PathNames
    <3>. QED
      BY <3>1, <3>2 DEF SessionInv, CachedIsOpen
  <2>. QED  BY <2>1, <2>2
<1>9. OneDescriptor'
  BY <1>2, <1>6 DEF SessionInv, OneDescriptor, IsOpen
<1>10. MapIsRight'
  <2>. SUFFICES ASSUME TracerName = "ltrace", NEW q \in Pids, NEW e \in Fds, fds'[q][e] # Nothing
                PROVE  G_mapFilDesToPathName'[e] = fds'[q][e]
    BY DEF MapIsRight, IsOpen
  <2>1. q = p
    BY DEF FilesAreKnown
  <2>2. G_mapFilDesToPathName' = [G_mapFilDesToPathName EXCEPT ![d] = f]
    BY <1>1 DEF Open
  <2>3. G_mapFilDesToPathName \in [Returned -> PathNames] /\ e \in Returned
    BY DEF TypeOK, Returned
  <2>4. e # d => G_mapFilDesToPathName[e] = fds[q][e]
    BY <1>6, <2>1 DEF SessionInv, MapIsRight, IsOpen
  <2>. QED
    BY <1>3, <1>6, <2>1, <2>2, <2>3, <2>4
<1>. QED
  BY <1>7, <1>8, <1>9, <1>10 DEF SessionInv

(* open that fails: dockit only makes up a path name.                      *)
LEMMA OpenFailsKeepsSessions ==
  ASSUME FilesAreKnown, SessionInv, TypeOK, NEW p \in Pids, NEW f \in Files,
         NEW call \in {"open", "openat"}, NEW missing \in BOOLEAN, OpenFails(p, call, f, missing)
  PROVE  SessionInv'
<1>2. /\ UNCHANGED <<fds, G_mapFilDesToPathName>>
      /\ NoAccess \/ SetOpenTime(p, UnknownFileDescr(-1))
  BY FailureIsLogged
<1>3. CASE NoAccess
  BY <1>2, <1>3, NoAccessCaches, CacheKept
<1>4. CASE SetOpenTime(p, UnknownFileDescr(-1))
  <2>1. UnknownFileDescr(-1) \in PathNames \ Files
    BY UnknownIsNoFile DEF Returned
  <2>2. \A q \in Pids, g \in PathNames : g # UnknownFileDescr(-1) => Cached(q, g)' = Cached(q, g)
    BY <1>4, <2>1, OperationsCache
  <2>3. \A q \in Pids, g \in Files : Cached(q, g)' = Cached(q, g)
    BY <2>1, <2>2 DEF PathNames
  <2>. QED  BY <1>2, <2>3, CacheKept
<1>. QED
  BY <1>2, <1>3, <1>4

(* close: the file had no other descriptor.                                *)
LEMMA CloseKeepsSessions ==
  ASSUME FilesAreKnown, SessionInv, TypeOK, NEW p \in Pids, NEW d \in Fds, CloseFile(p, d)
  PROVE  SessionInv'
<1>1. /\ fds' = [fds EXCEPT ![p][d] = Nothing]
      /\ Close(p, d, Shown(p, d), IsOpen(p, d))
      /\ UNCHANGED G_mapFilDesToPathName
  BY DEF CloseFile, Close
<1>2. /\ fds'[p][d] = Nothing
      /\ \A q \in Pids, e \in Fds : q # p \/ e # d => fds'[q][e] = fds[q][e]
      /\ fds' \in [Pids -> [Fds -> Files \cup {Nothing}]]
  BY <1>1 DEF SessionInv, FdsOK
<1>3. CASE ~IsOpen(p, d)
  <2>1. NoAccess
    BY <1>3, CloseIsLogged
  <2>2. fds' = fds
    BY <1>1, <1>3 DEF IsOpen, SessionInv, FdsOK
  <2>. QED
    BY <1>1, <2>1, <2>2, NoAccessCaches, CacheKept
<1>4. CASE IsOpen(p, d)
  <2>1. PICK f \in Files : f \in PathNames /\ f = fds[p][d] /\ SetCloseTime(p, f)
    BY <1>4, OpenIsShown, CloseIsLogged
  <2>2. f # Nothing /\ Nothing \notin Files
    BY <2>1, DockitFilesAssumption DEF PathNames
  <2>3. \A e \in Fds : fds[p][e] = f => e = d
    BY <1>4, <2>1 DEF SessionInv, OneDescriptor
  <2>4. /\ Cached(p, f)' = 0
        /\ \A q \in Pids, g \in PathNames : q # p \/ g # f => Cached(q, g)' = Cached(q, g)
    BY <2>1, OperationsCache
  <2>5. FdsOK'
    BY <1>2 DEF FdsOK
  <2>6. CachedIsOpen'
    <3>. SUFFICES ASSUME NEW q \in Pids, NEW g \in Files
                  PROVE  Cached(q, g)' # 0 <=> \E e \in Fds : fds'[q][e] = g
      BY DEF CachedIsOpen
    <3>1. CASE q = p /\ g = f
      BY <1>2, <2>2, <2>3, <2>4, <3>1
    <3>2. CASE q # p \/ g # f
      <4>1. Cached(q, g)' = Cached(q, g)
        BY <2>4, <3>2 DEF PathNames
      <4>2. \A e \in Fds : fds'[q][e] = g <=> fds[q][e] = g
        BY <1>2, <2>1, <2>2, <3>2
      <4>. QED
        BY <4>1, <4>2 DEF SessionInv, CachedIsOpen
    <3>. QED  BY <3>1, <3>2
  <2>7. OneDescriptor' /\ MapIsRight'
    BY <1>1, <1>2 DEF SessionInv, OneDescriptor, MapIsRight, IsOpen
  <2>. QED
    BY <2>5, <2>6, <2>7 DEF SessionInv
<1>. QED
  BY <1>3, <1>4

(* read and write, of an open file or not: the access to an open file is   *)
(* already in the cache.                                                   *)
LEMMA TransferKeepsSessions ==
  ASSUME FilesAreKnown, SessionInv, TypeOK, NEW p \in Pids, NEW d \in Fds,
         NEW valid \in BOOLEAN, ReadFile(p, d, valid) \/ WriteFile(p, d, valid)
  PROVE  SessionInv'
<1>1. UNCHANGED <<fds, G_mapFilDesToPathName>>
  BY TransferIsLogged
<1>2. PICK g \in PathNames :
         /\ g \in Files => Cached(p, g) # 0
         /\ NoAccess \/ SetRead(p, g) \/ SetWritten(p, g) \/ JustLookup(p, g)
  BY TransferIsLogged
<1>4. CASE NoAccess
  BY <1>1, <1>4, NoAccessCaches, CacheKept
<1>5. CASE SetRead(p, g) \/ SetWritten(p, g) \/ JustLookup(p, g)
  <2>1. /\ Cached(p, g)' # 0
        /\ \A q \in Pids, f \in PathNames : q # p \/ f # g => Cached(q, f)' = Cached(q, f)
    BY <1>5, OperationsCache
  <2>2. \A q \in Pids, f \in Files : Cached(q, f)' # 0 <=> Cached(q, f) # 0
    BY <1>2, <2>1 DEF PathNames
  <2>. QED  BY <1>1, <2>2, CacheKept
<1>. QED
  BY <1>2, <1>4, <1>5

(* SessionInv is inductive.                                                *)
LEMMA SessionsInit == Init => SessionInv
<1>. SUFFICES ASSUME Init PROVE SessionInv
  OBVIOUS
<1>1. \A p \in Pids, d \in Fds : fds[p][d] = Nothing
  BY DEF Init
<1>2. \A p \in Pids, f \in Files : Cached(p, f) = 0
  BY DEF Init, AccessInit, Cached, PathNames
<1>3. Nothing \notin Files
  BY DockitFilesAssumption DEF PathNames
<1>. QED
  BY <1>1, <1>2, <1>3, FilesInit
     DEF SessionInv, CachedIsOpen, OneDescriptor, MapIsRight, IsOpen

LEMMA SessionsNext ==
  ASSUME FilesAreKnown, SessionInv, TypeOK, [Next]_vars
  PROVE  SessionInv'
<1>1. ASSUME UNCHANGED vars PROVE SessionInv'
  BY <1>1, CacheKept DEF vars, accessVars, Cached
<1>2. ASSUME NEW p \in Pids, NEW d \in Fds, NEW e \in Fds, Dup(p, d, e) PROVE SessionInv'
  BY <1>2 DEF Dup, FilesAreKnown
<1>3. ASSUME NEW p \in Pids, NEW q \in Pids, Fork(p, q) PROVE SessionInv'
  BY <1>3 DEF Fork, FilesAreKnown
<1>. QED
  BY <1>1, <1>2, <1>3, OpenKeepsSessions, OpenFailsKeepsSessions, CloseKeepsSessions,
     TransferKeepsSessions
     DEF Next

-----------------------------------------------------------------------------
(* A call makes one access at most.                                        *)
FewAccesses == Len(accesses) < now

(* The access that was looked up is changed, closed unless it is kept.     *)
Becomes(p, g, kept, read, written) ==
  \E acc \in Accesses :
     /\ Update(p, g, acc, kept)
     /\ acc.proc = p /\ acc.file = g
     /\ acc.CloseTime = 0 <=> kept
     /\ acc.NumReads = Access(p, g).NumReads + read
     /\ acc.NumWrites = Access(p, g).NumWrites + written

(* What each operation makes of the access that it looks up.               *)
LEMMA OperationsUpdate ==
  ASSUME IInv, NEW p \in Pids, NEW g \in PathNames
  PROVE  /\ SetOpenTime(p, g) \/ JustLookup(p, g) => Becomes(p, g, TRUE, 0, 0)
         /\ SetCloseTime(p, g) => Becomes(p, g, FALSE, 0, 0)
         /\ SetRead(p, g) => Becomes(p, g, TRUE, 1, 0)
         /\ SetWritten(p, g) => Becomes(p, g, TRUE, 0, 1)
<1>1. PICK old \in Accesses : /\ old = Access(p, g)
                              /\ old.proc = p /\ old.file = g /\ old.CloseTime = 0
  BY LookupFinds
<1>2. now \in Nat \ {0}
  BY DEF IInv, TypeOK
<1>3. /\ old.OpenTime \in Nat /\ old.NumOpen \in Nat
      /\ old.NumReads \in Nat /\ old.NumWrites \in Nat
  BY AccessFields
<1>4. ASSUME SetOpenTime(p, g) PROVE Becomes(p, g, TRUE, 0, 0)
  <2>1. PICK t \in Nat, n \in Nat : Update(p, g, [old EXCEPT !.NumOpen = n, !.OpenTime = t], TRUE)
    <3>. DEFINE t == IF old.OpenTime = 0 \/ now < old.OpenTime THEN now ELSE old.OpenTime
                n == old.NumOpen + 1
    <3>1. t \in Nat /\ n \in Nat
      BY <1>2, <1>3
    <3>2. Update(p, g, [old EXCEPT !.NumOpen = n, !.OpenTime = t], TRUE)
      BY <1>1, <1>4 DEF SetOpenTime, Accesses
    <3>. QED  BY <3>1, <3>2, Zenon
  <2>. DEFINE acc == [old EXCEPT !.NumOpen = n, !.OpenTime = t]
  <2>2. /\ acc \in Accesses
        /\ acc.proc = p /\ acc.file = g /\ acc.CloseTime = 0
        /\ acc.NumReads = old.NumReads /\ acc.NumWrites = old.NumWrites
    BY <1>1 DEF Accesses
  <2>. HIDE DEF acc
  <2>3. acc.NumReads = old.NumReads + 0 /\ acc.NumWrites = old.NumWrites + 0
    BY <1>3, <2>2
  <2>4. Update(p, g, acc, TRUE)
    BY <2>1 DEF acc
  <2>. QED  BY <1>1, <2>2, <2>3, <2>4, Zenon DEF Becomes
<1>5. ASSUME SetCloseTime(p, g) PROVE Becomes(p, g, FALSE, 0, 0)
  <2>. DEFINE acc == [old EXCEPT !.CloseTime = IF @ = 0 \/ now < @ THEN now ELSE @]
  <2>1. /\ acc \in Accesses
        /\ acc.proc = p /\ acc.file = g /\ acc.CloseTime # 0
        /\ acc.NumReads = old.NumReads + 0 /\ acc.NumWrites = old.NumWrites + 0
    BY <1>1, <1>2, <1>3 DEF Accesses
  <2>2. Update(p, g, acc, FALSE)
    BY <1>1, <1>5 DEF SetCloseTime
  <2>. HIDE DEF acc
  <2>. QED  BY <1>1, <2>1, <2>2, Zenon DEF Becomes
<1>6. ASSUME SetRead(p, g) PROVE Becomes(p, g, TRUE, 1, 0)
  <2>. DEFINE acc == [old EXCEPT !.NumReads = @ + 1]
  <2>1. /\ acc \in Accesses
        /\ acc.proc = p /\ acc.file = g /\ acc.CloseTime = 0
        /\ acc.NumReads = old.NumReads + 1 /\ acc.NumWrites = old.NumWrites + 0
    BY <1>1, <1>3 DEF Accesses
  <2>2. Update(p, g, acc, TRUE)
    BY <1>1, <1>6 DEF SetRead
  <2>. HIDE DEF acc
  <2>. QED  BY <1>1, <2>1, <2>2, Zenon DEF Becomes
<1>7. ASSUME SetWritten(p, g) PROVE Becomes(p, g, TRUE, 0, 1)
  <2>. DEFINE acc == [old EXCEPT !.NumWrites = @ + 1]
  <2>1. /\ acc \in Accesses
        /\ acc.proc = p /\ acc.file = g /\ acc.CloseTime = 0
        /\ acc.NumReads = old.NumReads + 0 /\ acc.NumWrites = old.NumWrites + 1
    BY <1>1, <1>3 DEF Accesses
  <2>2. Update(p, g, acc, TRUE)
    BY <1>1, <1>7 DEF SetWritten
  <2>. HIDE DEF acc
  <2>. QED  BY <1>1, <2>1, <2>2, Zenon DEF Becomes
<1>8. ASSUME JustLookup(p, g) PROVE Becomes(p, g, TRUE, 0, 0)
  <2>1. old.NumReads = old.NumReads + 0 /\ old.NumWrites = old.NumWrites + 0
    BY <1>3
  <2>2. Update(p, g, old, TRUE)
    BY <1>1, <1>8 DEF JustLookup
  <2>. QED  BY <1>1, <2>1, <2>2, Zenon DEF Becomes
<1>. QED
  BY <1>4, <1>5, <1>6, <1>7, <1>8

-----------------------------------------------------------------------------
(* The recorded accesses and a new one, the last in order.                 *)
OneMore(session) == [a \in Named \cup {Len(accesses) + 1} |->
                       IF a # Len(accesses) + 1 THEN Recorded[a] ELSE session]

(* What Update does to the accesses that are recorded: nothing if the path *)
(* name is made up; else the session of the access is changed, or begins.  *)
LEMMA UpdateRecords ==
  ASSUME IInv, NEW p \in Pids, NEW g \in PathNames, NEW kept \in BOOLEAN, NEW acc \in Accesses,
         acc.file = g, Update(p, g, acc, kept)
  PROVE  /\ Len(accesses') \in {Len(accesses), Len(accesses) + 1}
         /\ g \notin Files => Recorded' = Recorded
         /\ g \in Files /\ Cached(p, g) # 0 =>
              /\ Cached(p, g) \in Named
              /\ accesses[Cached(p, g)] = Access(p, g)
              /\ Recorded' = [Recorded EXCEPT ![Cached(p, g)] = Session(acc)]
         /\ g \in Files /\ Cached(p, g) = 0 => Recorded' = OneMore(Session(acc))
<1>1. accesses \in Seq(Accesses) /\ Len(accesses) \in Nat
  BY DEF IInv, TypeOK
<1>2. CASE Cached(p, g) # 0
  <2>1. PICK c \in 1..Len(accesses) : c = Cached(p, g) /\ accesses[c].file = g
    BY <1>2 DEF IInv, LiveAccessesAreCached
  <2>2. accesses' = [accesses EXCEPT ![c] = acc] /\ Access(p, g) = accesses[c]
    BY <1>2, <2>1 DEF Update, LookedUp, Lookup, Access
  <2>3. /\ Len(accesses') = Len(accesses)
        /\ \A a \in 1..Len(accesses) : accesses'[a] = IF a = c THEN acc ELSE accesses[a]
    BY <1>1, <2>1, <2>2
  <2>4. Named' = Named
    BY <2>1, <2>3 DEF Named
  <2>5. \A a \in Named : Recorded'[a] = IF a = c THEN Session(acc) ELSE Recorded[a]
    BY <2>3, <2>4 DEF Recorded, Named
  <2>6. Recorded' = [a \in Named |-> Recorded'[a]] /\ Recorded = [a \in Named |-> Recorded[a]]
    BY <2>4 DEF Recorded
  <2>7. g \in Files => c \in Named
    BY <2>1 DEF Named
  <2>8. g \notin Files => c \notin Named
    BY <2>1 DEF Named
  <2>9. g \notin Files => Recorded' = Recorded
    BY <2>5, <2>6, <2>8
  <2>10. g \in Files => Recorded' = [Recorded EXCEPT ![c] = Session(acc)]
    BY <2>5, <2>6, <2>7
  <2>. QED
    BY <1>1, <1>2, <2>1, <2>2, <2>3, <2>7, <2>9, <2>10
<1>3. CASE Cached(p, g) = 0
  <2>. DEFINE k == Len(accesses) + 1
  <2>1. accesses' = [Append(accesses, NewAccess(p, g)) EXCEPT ![k] = acc]
    BY <1>3 DEF Update, LookedUp, Lookup
  <2>2. PICK L \in Seq(Accesses) :
             /\ L = Append(accesses, NewAccess(p, g))
             /\ Len(L) = k /\ \A a \in 1..Len(accesses) : L[a] = accesses[a]
    <3>1. PICK new \in Accesses : new = NewAccess(p, g)
      BY NewAccessType
    <3>2. /\ Append(accesses, new) \in Seq(Accesses)
          /\ Len(Append(accesses, new)) = Len(accesses) + 1
          /\ \A a \in 1..Len(accesses) : Append(accesses, new)[a] = accesses[a]
      BY <1>1
    <3>. HIDE DEF k
    <3>. QED  BY <3>1, <3>2 DEF k
  <2>3. /\ Len(accesses') = k
        /\ accesses'[k] = acc
        /\ \A a \in 1..Len(accesses) : accesses'[a] = accesses[a]
    <3>1. accesses' = [L EXCEPT ![k] = acc] /\ k \in 1..Len(L)
      BY <1>1, <2>1, <2>2
    <3>2. 1..Len(accesses) \subseteq 1..Len(L) /\ k \notin 1..Len(accesses)
      BY <1>1, <2>2
    <3>. HIDE DEF k
    <3>3. Len(accesses') = Len(L) /\ \A a \in 1..Len(L) : accesses'[a] = IF a = k THEN acc ELSE L[a]
      BY <3>1
    <3>. QED  BY <2>2, <3>1, <3>2, <3>3
  <2>4. Named' = Named \cup IF g \in Files THEN {k} ELSE {}
    BY <1>1, <2>3 DEF Named
  <2>5. k \notin Named
    BY <1>1 DEF Named
  <2>6. \A a \in Named : Recorded'[a] = Recorded[a]
    BY <2>3, <2>4 DEF Recorded, Named
  <2>7. g \in Files => Recorded'[k] = Session(acc)
    BY <2>3, <2>4 DEF Recorded
  <2>8. /\ Recorded' = [a \in Named' |-> Recorded'[a]]
        /\ Recorded = [a \in Named |-> Recorded[a]]
    BY DEF Recorded
  <2>9. g \notin Files => Recorded' = Recorded
    <3>. SUFFICES ASSUME g \notin Files PROVE Recorded' = Recorded
      OBVIOUS
    <3>1. Named' = Named
      BY <2>4
    <3>. QED  BY <2>6, <2>8, <3>1
  <2>10. g \in Files => Recorded' = OneMore(Session(acc))
    <3>. SUFFICES ASSUME g \in Files PROVE Recorded' = OneMore(Session(acc))
      OBVIOUS
    <3>1. Named' = Named \cup {k}
      BY <2>4
    <3>2. \A a \in Named \cup {k} :
             Recorded'[a] = IF a # k THEN Recorded[a] ELSE Session(acc)
      BY <2>5, <2>6, <2>7
    <3>. QED  BY <2>8, <3>1, <3>2 DEF OneMore
  <2>. QED
    BY <1>1, <1>3, <2>3, <2>9, <2>10
<1>. QED
  BY <1>2, <1>3

LEMMA NoAccessRecords ==
  ASSUME NoAccess
  PROVE  Recorded' = Recorded /\ Len(accesses') = Len(accesses)
BY DEF NoAccess, Recorded, Named

(* A session that is open changes as its access does.                      *)
SessionOf(p, g, state, m, n) ==
  [proc |-> p, file |-> g, state |-> state, reads |-> m, writes |-> n]

SessionBecomes(p, g, state, read, written) ==
  \E c \in Named, m \in Nat, n \in Nat :
     /\ Recorded[c] = SessionOf(p, g, "open", m, n)
     /\ Recorded' = [Recorded EXCEPT ![c] = SessionOf(p, g, state, m + read, n + written)]

(* A change of an access that is in the cache is one of its session.       *)
LEMMA BecomesRecords ==
  ASSUME IInv, NEW p \in Pids, NEW g \in Files, Cached(p, g) # 0,
         NEW kept \in BOOLEAN, NEW read \in Nat, NEW written \in Nat,
         Becomes(p, g, kept, read, written)
  PROVE  SessionBecomes(p, g, IF kept THEN "open" ELSE "closed", read, written)
<1>1. g \in PathNames
  BY DEF PathNames
<1>2. PICK old \in Accesses : /\ old = Access(p, g)
                              /\ old.proc = p /\ old.file = g /\ old.CloseTime = 0
  BY <1>1, LookupFinds
<1>3. old.NumReads \in Nat /\ old.NumWrites \in Nat
  BY AccessFields
<1>4. PICK acc \in Accesses :
         /\ Update(p, g, acc, kept)
         /\ acc.proc = p /\ acc.file = g
         /\ acc.CloseTime = 0 <=> kept
         /\ acc.NumReads = old.NumReads + read /\ acc.NumWrites = old.NumWrites + written
  BY <1>2, Zenon DEF Becomes
<1>5. PICK c \in Named : accesses[c] = old /\ Recorded' = [Recorded EXCEPT ![c] = Session(acc)]
  BY <1>1, <1>2, <1>4, UpdateRecords
<1>6. Recorded[c] = Session(old)
  BY <1>5 DEF Recorded
<1>7. Session(old) = SessionOf(p, g, "open", old.NumReads, old.NumWrites)
  BY <1>2 DEF Session, SessionOf
<1>8. Session(acc) = SessionOf(p, g, IF kept THEN "open" ELSE "closed",
                               old.NumReads + read, old.NumWrites + written)
  BY <1>4 DEF Session, SessionOf
<1>9. /\ Recorded[c] = SessionOf(p, g, "open", old.NumReads, old.NumWrites)
      /\ Recorded' = [Recorded EXCEPT ![c] = SessionOf(p, g, IF kept THEN "open" ELSE "closed",
                                               old.NumReads + read, old.NumWrites + written)]
  BY <1>5, <1>6, <1>7, <1>8, Zenon
<1>. QED
  BY <1>3, <1>9, ZenonT(40) DEF SessionBecomes

(* The operations but SetOpenTime are steps of the session.                *)
LEMMA SessionChanges ==
  ASSUME IInv, NEW p \in Pids, NEW g \in Files, Cached(p, g) # 0
  PROVE  /\ SetCloseTime(p, g) => \E c \in Named : Promised!Close(c)
         /\ SetRead(p, g) => \E c \in Named : Promised!Read(c)
         /\ SetWritten(p, g) => \E c \in Named : Promised!Write(c)
         /\ JustLookup(p, g) => Recorded' = Recorded
<1>1. g \in PathNames
  BY DEF PathNames
<1>2. DOMAIN Recorded = Named /\ Recorded = [c \in Named |-> Recorded[c]]
  BY DEF Recorded
<1>3. ASSUME SetCloseTime(p, g) PROVE \E c \in Named : Promised!Close(c)
  <2>1. SessionBecomes(p, g, "closed", 0, 0)
    <3>1. Becomes(p, g, FALSE, 0, 0)
      BY <1>1, <1>3, OperationsUpdate
    <3>. QED  BY <3>1, BecomesRecords
  <2>2. PICK c \in Named, m \in Nat, n \in Nat :
           /\ Recorded[c] = SessionOf(p, g, "open", m, n)
           /\ Recorded' = [Recorded EXCEPT ![c] = SessionOf(p, g, "closed", m + 0, n + 0)]
    BY <2>1 DEF SessionBecomes
  <2>3. /\ Recorded[c].state = "open"
        /\ SessionOf(p, g, "closed", m + 0, n + 0) = [Recorded[c] EXCEPT !.state = "closed"]
    BY <2>2 DEF SessionOf
  <2>. QED  BY <2>2, <2>3 DEF Promised!Close
<1>4. ASSUME SetRead(p, g) PROVE \E c \in Named : Promised!Read(c)
  <2>1. SessionBecomes(p, g, "open", 1, 0)
    <3>1. Becomes(p, g, TRUE, 1, 0)
      BY <1>1, <1>4, OperationsUpdate
    <3>. QED  BY <3>1, BecomesRecords
  <2>2. PICK c \in Named, m \in Nat, n \in Nat :
           /\ Recorded[c] = SessionOf(p, g, "open", m, n)
           /\ Recorded' = [Recorded EXCEPT ![c] = SessionOf(p, g, "open", m + 1, n + 0)]
    BY <2>1 DEF SessionBecomes
  <2>3. /\ Recorded[c].state = "open"
        /\ SessionOf(p, g, "open", m + 1, n + 0) = [Recorded[c] EXCEPT !.reads = @ + 1]
    BY <2>2 DEF SessionOf
  <2>. QED  BY <2>2, <2>3 DEF Promised!Read
<1>5. ASSUME SetWritten(p, g) PROVE \E c \in Named : Promised!Write(c)
  <2>1. SessionBecomes(p, g, "open", 0, 1)
    <3>1. Becomes(p, g, TRUE, 0, 1)
      BY <1>1, <1>5, OperationsUpdate
    <3>. QED  BY <3>1, BecomesRecords
  <2>2. PICK c \in Named, m \in Nat, n \in Nat :
           /\ Recorded[c] = SessionOf(p, g, "open", m, n)
           /\ Recorded' = [Recorded EXCEPT ![c] = SessionOf(p, g, "open", m + 0, n + 1)]
    BY <2>1 DEF SessionBecomes
  <2>3. /\ Recorded[c].state = "open"
        /\ SessionOf(p, g, "open", m + 0, n + 1) = [Recorded[c] EXCEPT !.writes = @ + 1]
    BY <2>2 DEF SessionOf
  <2>. QED  BY <2>2, <2>3 DEF Promised!Write
<1>6. ASSUME JustLookup(p, g) PROVE Recorded' = Recorded
  <2>1. SessionBecomes(p, g, "open", 0, 0)
    <3>1. Becomes(p, g, TRUE, 0, 0)
      BY <1>1, <1>6, OperationsUpdate
    <3>. QED  BY <3>1, BecomesRecords
  <2>2. PICK c \in Named, m \in Nat, n \in Nat :
           /\ Recorded[c] = SessionOf(p, g, "open", m, n)
           /\ Recorded' = [Recorded EXCEPT ![c] = SessionOf(p, g, "open", m + 0, n + 0)]
    BY <2>1 DEF SessionBecomes
  <2>3. m + 0 = m /\ n + 0 = n
    BY <2>2
  <2>. QED  BY <1>2, <2>2, <2>3
<1>. QED
  BY <1>3, <1>4, <1>5, <1>6

(* SetOpenTime on a file that has no access in the cache begins a session. *)
LEMMA SessionBegins ==
  ASSUME IInv, NEW p \in Pids, NEW f \in Files, Cached(p, f) = 0, SetOpenTime(p, f)
  PROVE  Promised!Open(Len(accesses) + 1, p, f)
<1>1. f \in PathNames /\ accesses \in Seq(Accesses) /\ Len(accesses) \in Nat
  BY DEF PathNames, IInv, TypeOK
<1>2. Access(p, f).NumReads = 0 /\ Access(p, f).NumWrites = 0
  <2>1. PICK new \in Accesses : new = NewAccess(p, f) /\ new.NumReads = 0 /\ new.NumWrites = 0
    <3>1. NewAccess(p, f).NumReads = 0 /\ NewAccess(p, f).NumWrites = 0
      BY DEF NewAccess
    <3>. QED  BY <1>1, <3>1, NewAccessType, Zenon
  <2>2. Access(p, f) = Append(accesses, new)[Len(accesses) + 1]
    BY <2>1 DEF Access, LookedUp, Lookup
  <2>. QED  BY <1>1, <2>1, <2>2
<1>3. PICK acc \in Accesses : /\ Update(p, f, acc, TRUE)
                              /\ acc.proc = p /\ acc.file = f /\ acc.CloseTime = 0
                              /\ acc.NumReads = 0 /\ acc.NumWrites = 0
  <2>1. Becomes(p, f, TRUE, 0, 0)
    BY <1>1, OperationsUpdate
  <2>2. PICK acc \in Accesses :
           /\ Update(p, f, acc, TRUE)
           /\ acc.proc = p /\ acc.file = f
           /\ acc.CloseTime = 0
           /\ acc.NumReads = Access(p, f).NumReads + 0
           /\ acc.NumWrites = Access(p, f).NumWrites + 0
    BY <2>1, Zenon DEF Becomes
  <2>3. acc.NumReads = 0 /\ acc.NumWrites = 0
    BY <1>2, <2>2
  <2>. QED  BY <2>2, <2>3, ZenonT(40)
<1>4. Recorded' = OneMore(Session(acc))
  BY <1>1, <1>3, UpdateRecords, ZenonT(60)
<1>5. Session(acc) = [proc |-> p, file |-> f, state |-> "open", reads |-> 0, writes |-> 0]
  BY <1>3 DEF Session
<1>6. DOMAIN Recorded = Named
  BY DEF Recorded
<1>7. ASSUME NEW t \in Named
      PROVE  t < Len(accesses) + 1 /\ ~Promised!IsOpen(t, p, f)
  <2>1. t \in 1..Len(accesses) /\ Recorded[t] = Session(accesses[t])
    BY DEF Named, Recorded
  <2>2. /\ Session(accesses[t]).proc = accesses[t].proc
        /\ Session(accesses[t]).file = accesses[t].file
        /\ Session(accesses[t]).state = "open" => accesses[t].CloseTime = 0
    BY DEF Session
  <2>3. Promised!IsOpen(t, p, f) =>
           accesses[t].proc = p /\ accesses[t].file = f /\ accesses[t].CloseTime = 0
    BY <2>1, <2>2 DEF Promised!IsOpen
  <2>. QED
    BY <1>1, <2>1, <2>3, LiveIsCached DEF IInv
<1>8. Recorded' = [t \in DOMAIN Recorded \cup {Len(accesses) + 1} |->
                     IF t # Len(accesses) + 1 THEN Recorded[t]
                     ELSE [proc |-> p, file |-> f, state |-> "open", reads |-> 0, writes |-> 0]]
  BY <1>4, <1>5, <1>6, Zenon DEF OneMore
<1>. QED
  BY <1>6, <1>7, <1>8, Zenon DEF Promised!Open

-----------------------------------------------------------------------------
(* No call makes more than one access.                                     *)
LEMMA FewAccessesKept ==
  ASSUME IInv, FewAccesses, [AccessNext]_accessVars
  PROVE  FewAccesses'
<1>1. Len(accesses) \in Nat /\ now \in Nat
  BY DEF IInv, TypeOK
<1>2. CASE UNCHANGED accessVars
  BY <1>2 DEF accessVars, FewAccesses
<1>3. CASE AccessNext
  <2>1. now' = now + 1
    BY <1>3 DEF AccessNext, Tick
  <2>2. NoAccess \/ \E p \in Pids, g \in PathNames :
           SetOpenTime(p, g) \/ SetCloseTime(p, g) \/ SetRead(p, g)
             \/ SetWritten(p, g) \/ JustLookup(p, g)
    <3>1. \A d \in Returned, shown \in PathNames : PathName(d, shown) \in PathNames
      BY PathNameType DEF IInv
    <3>. QED
      BY <1>3, <3>1 DEF AccessNext, Open, Close, Read, Write, OtherCall, Returned, PathNames
  <2>3. Len(accesses') \in {Len(accesses), Len(accesses) + 1}
    <3>1. CASE NoAccess
      BY <3>1, NoAccessRecords
    <3>2. ASSUME NEW p \in Pids, NEW g \in PathNames,
                 SetOpenTime(p, g) \/ SetCloseTime(p, g) \/ SetRead(p, g)
                   \/ SetWritten(p, g) \/ JustLookup(p, g)
          PROVE  Len(accesses') \in {Len(accesses), Len(accesses) + 1}
      <4>1. PICK kept \in BOOLEAN, acc \in Accesses : acc.file = g /\ Update(p, g, acc, kept)
        BY <3>2, OperationsUpdate DEF Becomes
      <4>. QED  BY <4>1, UpdateRecords
    <3>. QED  BY <2>2, <3>1, <3>2
  <2>. QED  BY <1>1, <2>1, <2>3 DEF FewAccesses
<1>. QED
  BY <1>2, <1>3

LEMMA AccessesAreFew == AccessSpec => [](IInv /\ FewAccesses)
<1>1. AccessInit => FewAccesses
  BY DEF AccessInit, FewAccesses
<1>. QED
  BY <1>1, InitInv, StepInv, FewAccessesKept, PTL DEF AccessSpec

-----------------------------------------------------------------------------
(* Each call is a step of FileSessions, or none of its business.           *)
LEMMA CallsAreSessionSteps ==
  ASSUME FilesAreKnown, SessionInv, IInv, FewAccesses, [Next]_vars
  PROVE  [Promised!Next]_Recorded
<1>1. now \in Nat /\ Len(accesses) \in Nat /\ MaxCalls \in Nat
  BY FileAccessAssumption DEF IInv, TypeOK
<1>2. DOMAIN Recorded = Named
  BY DEF Recorded
<1>3. ASSUME NEW p \in Pids, NEW f \in Files, NEW call \in {"open", "openat"},
             Tick, OpenFile(p, call, f)
      PROVE  Promised!Next
  <2>1. Promised!Open(Len(accesses) + 1, p, f)
    BY <1>3, OpenIsLogged, SessionBegins
  <2>2. Len(accesses) + 1 \in 1..MaxCalls
    BY <1>1, <1>3 DEF FewAccesses, Tick
  <2>. QED  BY <2>1, <2>2 DEF Promised!Next
<1>4. ASSUME NEW p \in Pids, NEW f \in Files, NEW call \in {"open", "openat"},
             NEW missing \in BOOLEAN, OpenFails(p, call, f, missing)
      PROVE  Recorded' = Recorded
  <2>1. CASE NoAccess
    BY <2>1, NoAccessRecords
  <2>2. CASE SetOpenTime(p, UnknownFileDescr(-1))
    <3>1. UnknownFileDescr(-1) \in PathNames \ Files
      BY UnknownIsNoFile DEF Returned
    <3>2. PICK acc \in Accesses : /\ acc.file = UnknownFileDescr(-1)
                                  /\ Update(p, UnknownFileDescr(-1), acc, TRUE)
      BY <2>2, <3>1, OperationsUpdate DEF Becomes
    <3>. QED  BY <3>1, <3>2, UpdateRecords
  <2>. QED  BY <1>4, <2>1, <2>2, FailureIsLogged
<1>5. ASSUME NEW p \in Pids, NEW d \in Fds, CloseFile(p, d)
      PROVE  Promised!Next \/ Recorded' = Recorded
  <2>1. CASE ~IsOpen(p, d)
    BY <1>5, <2>1, CloseIsLogged, NoAccessRecords
  <2>2. CASE IsOpen(p, d)
    <3>1. PICK f \in Files : SetCloseTime(p, f) /\ Cached(p, f) # 0
      BY <1>5, <2>2, CloseIsLogged, OpenIsShown
    <3>2. \E c \in Named : Promised!Close(c)
      BY <3>1, SessionChanges
    <3>. QED  BY <1>2, <3>2 DEF Promised!Next
  <2>. QED  BY <2>1, <2>2
<1>6. ASSUME NEW p \in Pids, NEW d \in Fds, NEW valid \in BOOLEAN,
             ReadFile(p, d, valid) \/ WriteFile(p, d, valid)
      PROVE  Promised!Next \/ Recorded' = Recorded
  <2>1. PICK g \in PathNames :
           /\ g \in Files => Cached(p, g) # 0
           /\ NoAccess \/ SetRead(p, g) \/ SetWritten(p, g) \/ JustLookup(p, g)
    BY <1>6, TransferIsLogged
  <2>2. CASE NoAccess
    BY <2>2, NoAccessRecords
  <2>3. CASE g \in Files /\ ~NoAccess
    <3>1. Recorded' = Recorded \/ \E c \in Named : Promised!Read(c) \/ Promised!Write(c)
      BY <2>1, <2>3, SessionChanges
    <3>. QED  BY <1>2, <3>1 DEF Promised!Next
  <2>4. CASE g \notin Files /\ ~NoAccess
    <3>1. PICK acc \in Accesses : acc.file = g /\ Update(p, g, acc, TRUE)
      BY <2>1, <2>4, OperationsUpdate DEF Becomes
    <3>. QED  BY <2>4, <3>1, UpdateRecords
  <2>. QED  BY <2>2, <2>3, <2>4
<1>7. ASSUME NEW p \in Pids, NEW d \in Fds, NEW e \in Fds, Dup(p, d, e) PROVE FALSE
  BY <1>7 DEF Dup, FilesAreKnown
<1>8. ASSUME NEW p \in Pids, NEW q \in Pids, Fork(p, q) PROVE FALSE
  BY <1>8 DEF Fork, FilesAreKnown
<1>9. ASSUME UNCHANGED vars PROVE Recorded' = Recorded
  BY <1>9, NoAccessRecords DEF vars, accessVars, NoAccess
<1>. QED
  BY <1>3, <1>4, <1>5, <1>6, <1>7, <1>8, <1>9 DEF Next

LEMMA SessionsHold == ASSUME FilesAreKnown PROVE Spec => []SessionInv
<1>1. SessionInv /\ TypeOK /\ [Next]_vars => SessionInv'
  BY SessionsNext
<1>2. Spec => []TypeOK
  BY FilesRefineAccesses, TypeCorrect, PTL
<1>. QED
  BY <1>1, <1>2, SessionsInit, PTL DEF Spec

(* GetFileAccess has a live access of a process to a file exactly as long  *)
(* as the file is open: strace prints the path names, so that even calls   *)
(* that fail do no harm; with ltrace, the names that are left in           *)
(* G_mapFilDesToPathName by closed descriptors are never used.             *)
THEOREM LiveIsOpen == ASSUME FilesAreKnown PROVE Spec => []LiveAccessIsOpenFile
<1>1. Spec => []LiveAccessesAreCached
  BY FilesRefineAccesses, CacheExact, PTL
<1>2. SessionInv /\ LiveAccessesAreCached => LiveAccessIsOpenFile
  BY LiveIsCached DEF SessionInv, CachedIsOpen, LiveAccessIsOpenFile, PathNames
<1>. QED
  BY <1>1, <1>2, SessionsHold, PTL

(* The FileAccess objects are what the comments promise: one for each time *)
(* that a process opens a file, which counts what is done until the file   *)
(* is closed, and is final then.                                           *)
THEOREM SessionsAreImplemented == ASSUME FilesAreKnown PROVE Spec => AccessesAreSessions
<1>1. Init => Promised!Init
  BY DEF Init, AccessInit, Promised!Init, Recorded, Named
<1>2. SessionInv /\ IInv /\ FewAccesses /\ [Next]_vars => [Promised!Next]_Recorded
  BY CallsAreSessionSteps
<1>3. Spec => [](IInv /\ FewAccesses)
  BY FilesRefineAccesses, AccessesAreFew, PTL
<1>. QED
  BY <1>1, <1>2, <1>3, SessionsHold, PTL DEF Spec, Promised!Spec, AccessesAreSessions

-----------------------------------------------------------------------------
(* The sum of the values of phi over a finite set, in the order in which   *)
(* MapThenSumSet takes them.                                               *)
Total(phi, S) == MapThenSumSet(LAMBDA a : phi[a], S)

Chosen(s) == CHOOSE x \in s : TRUE

(* h has the sums over all the subsets of S.                               *)
Adds(h, phi, S) ==
  h = [s \in SUBSET S |-> IF s = {} THEN 0 ELSE phi[Chosen(s)] + h[s \ {Chosen(s)}]]

LEMMA ChosenIn ==
  ASSUME NEW s, s # {}
  PROVE  Chosen(s) \in s
BY DEF Chosen

LEMMA SmallestSet ==
  ASSUME NEW S, IsFiniteSet(S), NEW T, T \subseteq SUBSET S, T # {}
  PROVE  \E m \in T : \A u \in T : u \subseteq m => u = m
<1>1. IsWellFoundedOn(StrictSubsetOrdering(S), FiniteSubsetsOf(S))
  BY FS_StrictSubsetOrderingWellFounded
<1>2. FiniteSubsetsOf(S) = SUBSET S
  BY FS_FiniteSubsetsOfFinite
<1>3. PICK m \in T : \A u \in T : <<u, m>> \notin StrictSubsetOrdering(S)
  BY <1>1, <1>2, WFMin
<1> QED  BY <1>3 DEF StrictSubsetOrdering

(* Two such functions agree where both are defined.                        *)
LEMMA AddsAgree ==
  ASSUME NEW S, IsFiniteSet(S), NEW phi, NEW A \in SUBSET S, NEW B \in SUBSET S,
         NEW g, Adds(g, phi, A), NEW h, Adds(h, phi, B), NEW u \in SUBSET (A \cap B)
  PROVE  g[u] = h[u]
<1> DEFINE T == {v \in SUBSET (A \cap B) : g[v] # h[v]}
<1>1. SUFFICES ASSUME T # {} PROVE FALSE
  OBVIOUS
<1>2. PICK m \in T : \A v \in T : v \subseteq m => v = m
  <2>1. T \subseteq SUBSET S
    OBVIOUS
  <2> HIDE DEF T
  <2> QED  BY <1>1, <2>1, SmallestSet
<1>3. m \in SUBSET A /\ m \in SUBSET B
  OBVIOUS
<1>4. /\ g[m] = IF m = {} THEN 0 ELSE phi[Chosen(m)] + g[m \ {Chosen(m)}]
      /\ h[m] = IF m = {} THEN 0 ELSE phi[Chosen(m)] + h[m \ {Chosen(m)}]
  BY <1>3 DEF Adds
<1>5. m # {} => m \ {Chosen(m)} \in SUBSET (A \cap B) /\ m \ {Chosen(m)} # m
  BY <1>3, ChosenIn
<1>6. m # {} => g[m \ {Chosen(m)}] = h[m \ {Chosen(m)}]
  BY <1>2, <1>5
<1> QED  BY <1>2, <1>4, <1>6

LEMMA AddsExists ==
  ASSUME NEW S, IsFiniteSet(S), NEW phi
  PROVE  \E h : Adds(h, phi, S)
<1> DEFINE T == {s \in SUBSET S : ~ \E h : Adds(h, phi, s)}
           best(s) == CHOOSE h : Adds(h, phi, s)
           rest(s) == s \ {Chosen(s)}
<1>1. SUFFICES ASSUME T # {} PROVE FALSE
  OBVIOUS
<1>2. PICK m \in T : \A v \in T : v \subseteq m => v = m
  <2>1. T \subseteq SUBSET S
    OBVIOUS
  <2> HIDE DEF T
  <2> QED  BY <1>1, <2>1, SmallestSet
<1>3. ASSUME NEW v \in SUBSET m, v # m PROVE Adds(best(v), phi, v)
  <2>1. v \notin T /\ v \in SUBSET S
    BY <1>2, <1>3
  <2>2. \E h : Adds(h, phi, v)
    BY <2>1
  <2> QED  BY <2>2
<1> DEFINE new == [s \in SUBSET m |-> IF s = {} THEN 0 ELSE phi[Chosen(s)] + best(rest(s))[rest(s)]]
<1>4. ASSUME NEW s \in SUBSET m, s # {} PROVE new[rest(s)] = best(rest(s))[rest(s)]
  <2> DEFINE v == rest(s)
  <2>1. v \in SUBSET m /\ v # m /\ v \in SUBSET v
    BY <1>4, ChosenIn
  <2>2. best(v)[v] = IF v = {} THEN 0 ELSE phi[Chosen(v)] + best(v)[rest(v)]
    <3>1. Adds(best(v), phi, v)
      BY <1>3, <2>1
    <3> HIDE DEF best, v
    <3> QED  BY <2>1, <3>1 DEF Adds
  <2>3. new[v] = IF v = {} THEN 0 ELSE phi[Chosen(v)] + best(rest(v))[rest(v)]
    <3> HIDE DEF best, v
    <3> QED  BY <2>1
  <2>4. v # {} => best(v)[rest(v)] = best(rest(v))[rest(v)]
    <3> SUFFICES ASSUME v # {} PROVE best(v)[rest(v)] = best(rest(v))[rest(v)]
      OBVIOUS
    <3>1. rest(v) \in SUBSET m /\ rest(v) # m /\ rest(v) \in SUBSET v
      BY <2>1, ChosenIn
    <3>2. Adds(best(v), phi, v) /\ Adds(best(rest(v)), phi, rest(v))
      BY <1>3, <2>1, <3>1
    <3>3. v \in SUBSET S /\ rest(v) \in SUBSET S /\ rest(v) \in SUBSET (v \cap rest(v))
      BY <2>1, <3>1
    <3> HIDE DEF best, v, rest
    <3> QED  BY <3>2, <3>3, AddsAgree
  <2>5. new[v] = best(v)[v]
    <3> HIDE DEF best, v, new, rest
    <3> QED  BY <2>2, <2>3, <2>4
  <2> QED  BY <2>5
<1>5. Adds(new, phi, m)
  <2>1. \A s \in SUBSET m : s # {} => best(rest(s))[rest(s)] = new[rest(s)]
    BY <1>4
  <2>2. [s \in SUBSET m |-> IF s = {} THEN 0 ELSE phi[Chosen(s)] + best(rest(s))[rest(s)]]
        = [s \in SUBSET m |-> IF s = {} THEN 0 ELSE phi[Chosen(s)] + new[rest(s)]]
    <3> HIDE DEF best, new, rest
    <3> QED  BY <2>1
  <2>3. new = [s \in SUBSET m |-> IF s = {} THEN 0 ELSE phi[Chosen(s)] + new[rest(s)]]
    BY <2>2
  <2> HIDE DEF new
  <2> QED  BY <2>3 DEF Adds
<1> HIDE DEF new
<1> QED  BY <1>2, <1>5

LEMMA TotalChoice ==
  ASSUME NEW phi, NEW S
  PROVE  Total(phi, S) = (CHOOSE h : Adds(h, phi, S))[S]
BY DEF Total, MapThenSumSet, MapThenFoldSet, Adds, Chosen

(* The recursion that defines a sum.                                       *)
LEMMA TotalStep ==
  ASSUME NEW S, IsFiniteSet(S), NEW phi
  PROVE  Total(phi, S) = IF S = {} THEN 0 ELSE phi[Chosen(S)] + Total(phi, S \ {Chosen(S)})
<1> DEFINE R == S \ {Chosen(S)}
           h == CHOOSE f : Adds(f, phi, S)
           g == CHOOSE f : Adds(f, phi, R)
<1>1. IsFiniteSet(R) /\ R \in SUBSET S
  BY FS_Subset
<1>2. Adds(h, phi, S) /\ Adds(g, phi, R)
  BY <1>1, AddsExists
<1>3. h[R] = g[R]
  <2>1. R \in SUBSET (S \cap R) /\ S \in SUBSET S
    OBVIOUS
  <2> HIDE DEF h, g, R
  <2> QED  BY <1>1, <1>2, <2>1, AddsAgree
<1>4. h[S] = IF S = {} THEN 0 ELSE phi[Chosen(S)] + h[R]
  <2>1. S \in SUBSET S
    OBVIOUS
  <2> HIDE DEF h, g
  <2> QED  BY <1>2, <2>1 DEF Adds
<1>5. Total(phi, S) = h[S] /\ Total(phi, R) = g[R]
  BY TotalChoice
<1> HIDE DEF h, g, R
<1>6. Total(phi, S) = IF S = {} THEN 0 ELSE phi[Chosen(S)] + Total(phi, R)
  BY <1>3, <1>4, <1>5
<1> QED  BY <1>6 DEF R

LEMMA TotalNat ==
  ASSUME NEW S, IsFiniteSet(S), NEW phi, \A x \in S : phi[x] \in Nat
  PROVE  Total(phi, S) \in Nat
<1> DEFINE T == {s \in SUBSET S : Total(phi, s) \notin Nat}
<1>1. SUFFICES ASSUME T # {} PROVE FALSE
  OBVIOUS
<1>2. PICK m \in T : \A v \in T : v \subseteq m => v = m
  <2>1. T \subseteq SUBSET S
    OBVIOUS
  <2> HIDE DEF T
  <2> QED  BY <1>1, <2>1, SmallestSet
<1>3. m \in SUBSET S /\ IsFiniteSet(m) /\ Total(phi, m) \notin Nat
  BY FS_Subset
<1>4. m # {}
  BY <1>3, TotalStep
<1>5. /\ Chosen(m) \in m /\ phi[Chosen(m)] \in Nat
      /\ m \ {Chosen(m)} \in SUBSET S /\ m \ {Chosen(m)} # m /\ m \ {Chosen(m)} \subseteq m
  BY <1>3, <1>4, ChosenIn
<1>6. Total(phi, m \ {Chosen(m)}) \in Nat
  BY <1>2, <1>5
<1>7. Total(phi, m) = phi[Chosen(m)] + Total(phi, m \ {Chosen(m)})
  BY <1>3, <1>4, TotalStep
<1> HIDE DEF T
<1> QED  BY <1>3, <1>5, <1>6, <1>7

LEMMA TotalSame ==
  ASSUME NEW S, IsFiniteSet(S), NEW phi, NEW psi, \A x \in S : phi[x] = psi[x]
  PROVE  Total(phi, S) = Total(psi, S)
<1> DEFINE T == {s \in SUBSET S : Total(phi, s) # Total(psi, s)}
<1>1. SUFFICES ASSUME T # {} PROVE FALSE
  OBVIOUS
<1>2. PICK m \in T : \A v \in T : v \subseteq m => v = m
  <2>1. T \subseteq SUBSET S
    OBVIOUS
  <2> HIDE DEF T
  <2> QED  BY <1>1, <2>1, SmallestSet
<1>3. m \in SUBSET S /\ IsFiniteSet(m) /\ Total(phi, m) # Total(psi, m)
  BY FS_Subset
<1>4. m # {}
  BY <1>3, TotalStep
<1>5. /\ Chosen(m) \in m /\ phi[Chosen(m)] = psi[Chosen(m)]
      /\ m \ {Chosen(m)} \in SUBSET S /\ m \ {Chosen(m)} # m /\ m \ {Chosen(m)} \subseteq m
  BY <1>3, <1>4, ChosenIn
<1>6. Total(phi, m \ {Chosen(m)}) = Total(psi, m \ {Chosen(m)})
  BY <1>2, <1>5
<1> QED  BY <1>3, <1>4, <1>5, <1>6, TotalStep

(* The order of the elements does not matter: any of them may be the first.*)
LEMMA TotalWithout ==
  ASSUME NEW S, IsFiniteSet(S), NEW phi, \A x \in S : phi[x] \in Nat, NEW e \in S
  PROVE  Total(phi, S) = phi[e] + Total(phi, S \ {e})
<1> DEFINE Splits(s) == \A x \in s : Total(phi, s) = phi[x] + Total(phi, s \ {x})
           T == {s \in SUBSET S : ~Splits(s)}
<1>1. SUFFICES ASSUME T # {} PROVE FALSE
  OBVIOUS
<1>2. PICK m \in T : \A v \in T : v \subseteq m => v = m
  <2>1. T \subseteq SUBSET S
    OBVIOUS
  <2> HIDE DEF T
  <2> QED  BY <1>1, <2>1, SmallestSet
<1>3. PICK x \in m : Total(phi, m) # phi[x] + Total(phi, m \ {x})
  OBVIOUS
<1> DEFINE c == Chosen(m)
<1>4. m \in SUBSET S /\ IsFiniteSet(m) /\ c \in m /\ x \in S /\ c \in S
  BY <1>3, FS_Subset, ChosenIn
<1>5. Total(phi, m) = phi[c] + Total(phi, m \ {c})
  BY <1>3, <1>4, TotalStep
<1>6. x # c
  BY <1>3, <1>5
<1>7. Splits(m \ {c}) /\ Splits(m \ {x})
  <2>1. /\ m \ {c} \in SUBSET S /\ m \ {c} \subseteq m /\ m \ {c} # m
        /\ m \ {x} \in SUBSET S /\ m \ {x} \subseteq m /\ m \ {x} # m
    BY <1>4
  <2>2. m \ {c} \notin T /\ m \ {x} \notin T
    BY <1>2, <2>1
  <2> HIDE DEF Splits
  <2> QED  BY <2>1, <2>2
<1>8. (m \ {c}) \ {x} = (m \ {x}) \ {c}
  OBVIOUS
<1>9. /\ Total(phi, m \ {c}) = phi[x] + Total(phi, (m \ {x}) \ {c})
      /\ Total(phi, m \ {x}) = phi[c] + Total(phi, (m \ {x}) \ {c})
  BY <1>3, <1>4, <1>6, <1>7, <1>8
<1>10. phi[x] \in Nat /\ phi[c] \in Nat /\ Total(phi, (m \ {x}) \ {c}) \in Nat
  <2>1. IsFiniteSet((m \ {x}) \ {c}) /\ \A y \in (m \ {x}) \ {c} : phi[y] \in Nat
    BY <1>4, FS_Subset
  <2> QED  BY <1>4, <2>1, TotalNat
<1> HIDE DEF c
<1> QED  BY <1>3, <1>5, <1>9, <1>10

(* psi is phi with n more at k, which may be a new element of S.           *)
Increased(psi, phi, S, k, n) ==
  /\ \A x \in S : phi[x] \in Nat
  /\ \A x \in S \ {k} : psi[x] = phi[x]
  /\ psi[k] = IF k \in S THEN phi[k] + n ELSE n

LEMMA TotalGrows ==
  ASSUME NEW S, IsFiniteSet(S), NEW k, NEW n \in Nat, NEW phi, NEW psi,
         Increased(psi, phi, S, k, n)
  PROVE  Total(psi, S \cup {k}) = Total(phi, S) + n
<1> USE DEF Increased
<1> DEFINE T == S \cup {k}
           R == S \ {k}
<1>1. IsFiniteSet(T) /\ IsFiniteSet(R) /\ T \ {k} = R /\ k \in T
  BY FS_AddElement, FS_Subset
<1>2. \A x \in T : psi[x] \in Nat
  OBVIOUS
<1>3. Total(psi, T) = psi[k] + Total(psi, R)
  <2> HIDE DEF T, R
  <2> QED  BY <1>1, <1>2, TotalWithout
<1>4. Total(psi, R) = Total(phi, R)
  <2>1. \A x \in R : psi[x] = phi[x]
    OBVIOUS
  <2> HIDE DEF R
  <2> QED  BY <1>1, <2>1, TotalSame
<1>5. Total(phi, R) \in Nat
  <2>1. \A x \in R : phi[x] \in Nat
    OBVIOUS
  <2> HIDE DEF R
  <2> QED  BY <1>1, <2>1, TotalNat
<1>6. CASE k \in S
  <2>1. Total(phi, S) = phi[k] + Total(phi, R)
    BY <1>6, TotalWithout
  <2>2. psi[k] = phi[k] + n /\ phi[k] \in Nat
    BY <1>6
  <2> HIDE DEF T, R
  <2>3. Total(psi, T) = Total(phi, S) + n
    BY <1>3, <1>4, <1>5, <2>1, <2>2
  <2> QED  BY <2>3 DEF T
<1>7. CASE k \notin S
  <2>1. R = S /\ psi[k] = n
    BY <1>7
  <2> HIDE DEF T, R
  <2>2. Total(psi, T) = Total(phi, S) + n
    BY <1>3, <1>4, <1>5, <2>1
  <2> QED  BY <2>2 DEF T
<1> QED  BY <1>6, <1>7

-----------------------------------------------------------------------------
(* The accesses of a process to a file, and what they count.               *)
Of(list, p, f) == {a \in 1..Len(list) : list[a].proc = p /\ list[a].file = f}

ReadsOf(list) == [a \in 1..Len(list) |-> list[a].NumReads]
WritesOf(list) == [a \in 1..Len(list) |-> list[a].NumWrites]

TotalReads(list, p, f) == Total(ReadsOf(list), Of(list, p, f))
TotalWrites(list, p, f) == Total(WritesOf(list), Of(list, p, f))

CountInv ==
  /\ KernelTypeOK
  /\ \A p \in Pids, f \in Files :
       TotalReads(accesses, p, f) = reads[p][f] /\ TotalWrites(accesses, p, f) = writes[p][f]

(* The sums of EveryTransferCounted are these.                             *)
LEMMA SumsAreTotals ==
  ASSUME NEW p, NEW f
  PROVE  LET of == {a \in 1..Len(accesses) : accesses[a].proc = p /\ accesses[a].file = f}
         IN  /\ MapThenSumSet(LAMBDA a : accesses[a].NumReads, of) = TotalReads(accesses, p, f)
             /\ MapThenSumSet(LAMBDA a : accesses[a].NumWrites, of) = TotalWrites(accesses, p, f)
<1> DEFINE T == Of(accesses, p, f)
           R(h) == h = [s \in SUBSET T |-> IF s = {} THEN 0
                                           ELSE accesses[Chosen(s)].NumReads + h[s \ {Chosen(s)}]]
           W(h) == h = [s \in SUBSET T |-> IF s = {} THEN 0
                                           ELSE accesses[Chosen(s)].NumWrites + h[s \ {Chosen(s)}]]
<1>1. /\ MapThenSumSet(LAMBDA a : accesses[a].NumReads, T) = (CHOOSE h : R(h))[T]
      /\ MapThenSumSet(LAMBDA a : accesses[a].NumWrites, T) = (CHOOSE h : W(h))[T]
  BY DEF MapThenSumSet, MapThenFoldSet, Chosen
<1>2. ASSUME NEW s \in SUBSET T, s # {}
      PROVE  /\ accesses[Chosen(s)].NumReads = ReadsOf(accesses)[Chosen(s)]
             /\ accesses[Chosen(s)].NumWrites = WritesOf(accesses)[Chosen(s)]
  <2>1. Chosen(s) \in 1..Len(accesses)
    BY <1>2, ChosenIn DEF Of
  <2> QED  BY <2>1 DEF ReadsOf, WritesOf
<1> HIDE DEF T
<1>3. \A h : R(h) <=> Adds(h, ReadsOf(accesses), T)
  <2> SUFFICES ASSUME NEW h PROVE R(h) <=> Adds(h, ReadsOf(accesses), T)
    OBVIOUS
  <2>1. [s \in SUBSET T |-> IF s = {} THEN 0
                            ELSE accesses[Chosen(s)].NumReads + h[s \ {Chosen(s)}]]
        = [s \in SUBSET T |-> IF s = {} THEN 0
                              ELSE ReadsOf(accesses)[Chosen(s)] + h[s \ {Chosen(s)}]]
    BY <1>2
  <2> QED  BY <2>1 DEF Adds
<1>4. \A h : W(h) <=> Adds(h, WritesOf(accesses), T)
  <2> SUFFICES ASSUME NEW h PROVE W(h) <=> Adds(h, WritesOf(accesses), T)
    OBVIOUS
  <2>1. [s \in SUBSET T |-> IF s = {} THEN 0
                            ELSE accesses[Chosen(s)].NumWrites + h[s \ {Chosen(s)}]]
        = [s \in SUBSET T |-> IF s = {} THEN 0
                              ELSE WritesOf(accesses)[Chosen(s)] + h[s \ {Chosen(s)}]]
    BY <1>2
  <2> QED  BY <2>1 DEF Adds
<1>5. /\ (CHOOSE h : R(h)) = (CHOOSE h : Adds(h, ReadsOf(accesses), T))
      /\ (CHOOSE h : W(h)) = (CHOOSE h : Adds(h, WritesOf(accesses), T))
  <2> HIDE DEF R, W
  <2> QED  BY <1>3, <1>4, Zenon
<1>6. /\ MapThenSumSet(LAMBDA a : accesses[a].NumReads, T) = TotalReads(accesses, p, f)
      /\ MapThenSumSet(LAMBDA a : accesses[a].NumWrites, T) = TotalWrites(accesses, p, f)
  BY <1>1, <1>5, TotalChoice DEF TotalReads, TotalWrites, T
<1> QED  BY <1>6 DEF T, Of

(* A list of accesses in which the one at k is changed, or new: it counts  *)
(* n more reads and m more writes than what the access had before.         *)
CountsMore(new, old, k, p, g, n, m) ==
  /\ 1..Len(new) = 1..Len(old) \cup {k}
  /\ \A a \in 1..Len(old) : a # k => new[a] = old[a]
  /\ new[k].proc = p /\ new[k].file = g
  /\ k \in 1..Len(old) => /\ old[k].proc = p /\ old[k].file = g
                          /\ new[k].NumReads = old[k].NumReads + n
                          /\ new[k].NumWrites = old[k].NumWrites + m
  /\ k \notin 1..Len(old) => new[k].NumReads = n /\ new[k].NumWrites = m

LEMMA TotalsGrow ==
  ASSUME NEW old \in Seq(Accesses), NEW new \in Seq(Accesses), NEW k \in 1..Len(new),
         NEW n \in Nat, NEW m \in Nat, NEW p \in Pids, NEW g \in PathNames,
         CountsMore(new, old, k, p, g, n, m),
         NEW q \in Pids, NEW f \in PathNames
  PROVE  /\ TotalReads(new, q, f)
              = TotalReads(old, q, f) + (IF q = p /\ f = g THEN n ELSE 0)
         /\ TotalWrites(new, q, f)
              = TotalWrites(old, q, f) + (IF q = p /\ f = g THEN m ELSE 0)
<1> USE DEF CountsMore
<1> DEFINE S == Of(old, q, f)
           r == ReadsOf(old)
           w == WritesOf(old)
           rr == ReadsOf(new)
           ww == WritesOf(new)
<1>1. Len(old) \in Nat /\ Len(new) \in Nat
  OBVIOUS
<1>2. IsFiniteSet(S)
  <2>1. IsFiniteSet(1..Len(old))
    BY <1>1, FS_Interval
  <2> QED  BY <2>1, FS_Subset DEF Of
<1>3. \A x \in S : x \in 1..Len(old) /\ r[x] \in Nat /\ w[x] \in Nat
  <2> SUFFICES ASSUME NEW x \in 1..Len(old)
               PROVE  old[x].NumReads \in Nat /\ old[x].NumWrites \in Nat
    BY DEF Of, ReadsOf, WritesOf
  <2>1. old[x] \in Accesses
    OBVIOUS
  <2> QED  BY <2>1, AccessFields
<1>4. \A x \in S \ {k} : rr[x] = r[x] /\ ww[x] = w[x]
  BY <1>3 DEF ReadsOf, WritesOf
<1>5. CASE q = p /\ f = g
  <2>1. Of(new, q, f) = S \cup {k} /\ (k \in 1..Len(old) => k \in S)
    BY <1>5 DEF Of
  <2>2. rr[k] = (IF k \in S THEN r[k] + n ELSE n) /\ ww[k] = (IF k \in S THEN w[k] + m ELSE m)
    BY <1>3, <2>1 DEF ReadsOf, WritesOf
  <2> HIDE DEF S, r, w, rr, ww
  <2>3. Total(rr, S \cup {k}) = Total(r, S) + n
    <3>1. Increased(rr, r, S, k, n)
      BY <1>3, <1>4, <2>2 DEF Increased
    <3> QED  BY <1>2, <3>1, TotalGrows
  <2>4. Total(ww, S \cup {k}) = Total(w, S) + m
    <3>1. Increased(ww, w, S, k, m)
      BY <1>3, <1>4, <2>2 DEF Increased
    <3> QED  BY <1>2, <3>1, TotalGrows
  <2> QED  BY <1>5, <2>1, <2>3, <2>4 DEF TotalReads, TotalWrites, S, r, w, rr, ww
<1>6. CASE ~(q = p /\ f = g)
  <2>1. Of(new, q, f) = S /\ k \notin S
    BY <1>6 DEF Of
  <2> HIDE DEF S, r, w, rr, ww
  <2>2. \A x \in S : rr[x] = r[x] /\ ww[x] = w[x]
    BY <1>4, <2>1
  <2>3. Total(rr, S) = Total(r, S) /\ Total(ww, S) = Total(w, S)
    BY <1>2, <2>2, TotalSame
  <2>4. Total(r, S) \in Nat /\ Total(w, S) \in Nat
    BY <1>2, <1>3, TotalNat
  <2>5. Total(rr, S) = Total(r, S) + 0 /\ Total(ww, S) = Total(w, S) + 0
    BY <2>3, <2>4
  <2> QED  BY <1>6, <2>1, <2>5 DEF TotalReads, TotalWrites, S, r, w, rr, ww
<1> QED  BY <1>5, <1>6

LEMMA BecomesCounts ==
  ASSUME IInv, NEW p \in Pids, NEW g \in PathNames, NEW kept \in BOOLEAN,
         NEW n \in Nat, NEW m \in Nat, Becomes(p, g, kept, n, m),
         NEW q \in Pids, NEW f \in PathNames
  PROVE  /\ TotalReads(accesses', q, f)
              = TotalReads(accesses, q, f) + (IF q = p /\ f = g THEN n ELSE 0)
         /\ TotalWrites(accesses', q, f)
              = TotalWrites(accesses, q, f) + (IF q = p /\ f = g THEN m ELSE 0)
<1> DEFINE L == LookedUp(p, g)
           k == Lookup(p, g)
           old == Access(p, g)
<1>1. PICK acc \in Accesses : /\ Update(p, g, acc, kept)
                              /\ acc.proc = p /\ acc.file = g
                              /\ acc.NumReads = old.NumReads + n
                              /\ acc.NumWrites = old.NumWrites + m
  BY DEF Becomes
<1>2. /\ L \in Seq(Accesses) /\ k \in 1..Len(L)
      /\ 1..Len(accesses) \subseteq 1..Len(L)
      /\ \A a \in 1..Len(accesses) : L[a] = accesses[a]
      /\ \A a \in 1..Len(L) : a # k => a \in 1..Len(accesses)
      /\ old.proc = p /\ old.file = g
  BY LookupFinds
<1>3. accesses \in Seq(Accesses) /\ old = L[k]
  BY DEF IInv, TypeOK, Access
<1>4. k \notin 1..Len(accesses) => old.NumReads = 0 /\ old.NumWrites = 0
  <2> SUFFICES ASSUME k \notin 1..Len(accesses)
               PROVE  old.NumReads = 0 /\ old.NumWrites = 0
    OBVIOUS
  <2>1. Cached(p, g) = 0
    BY LookupFinds DEF IInv, LiveAccessesAreCached
  <2>2. PICK new \in Accesses : new = NewAccess(p, g)
    BY NewAccessType
  <2>3. new.NumReads = 0 /\ new.NumWrites = 0
    BY <2>2 DEF NewAccess
  <2>4. L = Append(accesses, new) /\ k = Len(accesses) + 1
    BY <2>1, <2>2 DEF LookedUp, Lookup
  <2>5. old = new
    <3>1. Append(accesses, new)[Len(accesses) + 1] = new
      BY <1>3
    <3> QED  BY <1>3, <2>4, <3>1
  <2> QED  BY <2>5, <2>3
<1>5. accesses' = [L EXCEPT ![k] = acc]
  BY <1>1 DEF Update
<1> HIDE DEF L, k, old
<1>6. /\ accesses' \in Seq(Accesses) /\ Len(accesses') = Len(L) /\ accesses'[k] = acc
      /\ \A a \in 1..Len(L) : a # k => accesses'[a] = L[a]
  BY <1>2, <1>5
<1>7. 1..Len(accesses') = 1..Len(accesses) \cup {k}
  BY <1>2, <1>6
<1>8. \A a \in 1..Len(accesses) : a # k => accesses'[a] = accesses[a]
  BY <1>2, <1>6
<1>9. k \in 1..Len(accesses) => accesses[k] = old
  BY <1>2, <1>3
<1> DEFINE new == accesses'
<1>10. CountsMore(new, accesses, k, p, g, n, m)
  BY <1>1, <1>2, <1>4, <1>6, <1>7, <1>8, <1>9 DEF CountsMore
<1>11. new \in Seq(Accesses) /\ k \in 1..Len(new)
  BY <1>2, <1>6
<1> HIDE DEF new
<1>12. /\ TotalReads(new, q, f)
            = TotalReads(accesses, q, f) + (IF q = p /\ f = g THEN n ELSE 0)
       /\ TotalWrites(new, q, f)
            = TotalWrites(accesses, q, f) + (IF q = p /\ f = g THEN m ELSE 0)
  BY <1>3, <1>10, <1>11, TotalsGrow
<1> QED  BY <1>12 DEF new

(* What is enough for a successful transfer to be shown with its file; a   *)
(* transfer that fails is only seen as such by strace.                     *)
TransfersAreKnown == TracerName = "strace" \/ FilesAreKnown

FilesAreShown ==
  \A p \in Pids, d \in Fds : IsOpen(p, d) => PathName(d, Shown(p, d)) = fds[p][d]

LEMMA KernelNext == KernelTypeOK /\ Next => KernelTypeOK'
<1> SUFFICES ASSUME KernelTypeOK, Next PROVE KernelTypeOK'
  OBVIOUS
<1>1. fds' \in [Pids -> [Fds -> Files \cup {Nothing}]]
  BY FilesNext DEF KernelTypeOK, FdsOK
<1>2. ASSUME NEW p \in Pids, NEW d \in Fds, NEW valid \in BOOLEAN,
             ReadFile(p, d, valid) \/ WriteFile(p, d, valid)
      PROVE  reads' \in [Pids -> [Files -> Nat]] /\ writes' \in [Pids -> [Files -> Nat]]
  <2>1. CASE ReadFile(p, d, valid)
    <3>1. writes' = writes
      BY <2>1 DEF ReadFile
    <3>2. CASE valid
      <4>1. fds[p][d] \in Files /\ reads' = [reads EXCEPT ![p][fds[p][d]] = @ + 1]
        BY <2>1, <3>2 DEF ReadFile, IsOpen, KernelTypeOK
      <4> QED  BY <3>1, <4>1 DEF KernelTypeOK
    <3>3. CASE ~valid
      BY <2>1, <3>1, <3>3 DEF ReadFile, KernelTypeOK
    <3> QED  BY <3>2, <3>3
  <2>2. CASE WriteFile(p, d, valid)
    <3>1. reads' = reads
      BY <2>2 DEF WriteFile
    <3>2. CASE valid
      <4>1. fds[p][d] \in Files /\ writes' = [writes EXCEPT ![p][fds[p][d]] = @ + 1]
        BY <2>2, <3>2 DEF WriteFile, IsOpen, KernelTypeOK
      <4> QED  BY <3>1, <4>1 DEF KernelTypeOK
    <3>3. CASE ~valid
      BY <2>2, <3>1, <3>3 DEF WriteFile, KernelTypeOK
    <3> QED  BY <3>2, <3>3
  <2> QED  BY <1>2, <2>1, <2>2
<1>3. \/ reads' = reads /\ writes' = writes
      \/ \E p \in Pids, d \in Fds, valid \in BOOLEAN : ReadFile(p, d, valid) \/ WriteFile(p, d, valid)
  BY DEF Next, OpenFile, OpenFails, CloseFile, Dup, Fork
<1> QED  BY <1>1, <1>2, <1>3 DEF KernelTypeOK

(* A call that transfers nothing.                                          *)
LEMMA QuietKeepsCounts ==
  ASSUME IInv, CountInv, KernelTypeOK', UNCHANGED <<reads, writes>>,
         \/ NoAccess
         \/ \E p \in Pids, g \in PathNames, kept \in BOOLEAN : Becomes(p, g, kept, 0, 0)
  PROVE  CountInv'
<1>1. CASE NoAccess
  BY <1>1 DEF NoAccess, CountInv
<1>2. CASE ~NoAccess
  <2>1. PICK p \in Pids, g \in PathNames, kept \in BOOLEAN : Becomes(p, g, kept, 0, 0)
    BY <1>2
  <2>2. ASSUME NEW q \in Pids, NEW f \in Files
        PROVE  /\ TotalReads(accesses', q, f) = reads[q][f]
               /\ TotalWrites(accesses', q, f) = writes[q][f]
    <3>1. /\ TotalReads(accesses', q, f) = TotalReads(accesses, q, f) + 0
          /\ TotalWrites(accesses', q, f) = TotalWrites(accesses, q, f) + 0
      BY <2>1, BecomesCounts DEF PathNames
    <3>2. /\ TotalReads(accesses, q, f) = reads[q][f] /\ reads[q][f] \in Nat
          /\ TotalWrites(accesses, q, f) = writes[q][f] /\ writes[q][f] \in Nat
      BY DEF CountInv, KernelTypeOK
    <3> QED  BY <3>1, <3>2
  <2> QED  BY <2>2 DEF CountInv
<1> QED  BY <1>1, <1>2

LEMMA ReadIsCounted ==
  ASSUME IInv, CountInv, KernelTypeOK', TransfersAreKnown, FilesAreShown,
         NEW p \in Pids, NEW d \in Fds, NEW valid \in BOOLEAN, ReadFile(p, d, valid)
  PROVE  CountInv'
<1>1. CASE ~valid
  <2>1. TracerName # "ltrace"
    BY <1>1 DEF ReadFile, TransfersAreKnown, FilesAreKnown
  <2>2. NoAccess /\ UNCHANGED <<reads, writes>>
    BY <1>1, <2>1 DEF ReadFile, Read
  <2> QED  BY <2>2, QuietKeepsCounts
<1>2. CASE valid
  <2>1. PICK g \in Files : g = fds[p][d] /\ PathName(d, Shown(p, d)) = g /\ g \in PathNames
    BY <1>2 DEF ReadFile, IsOpen, FilesAreShown, CountInv, KernelTypeOK, PathNames
  <2>2. SetRead(p, g) /\ reads' = [reads EXCEPT ![p][g] = @ + 1] /\ writes' = writes
    BY <1>2, <2>1 DEF ReadFile, Read
  <2>3. PICK kept \in BOOLEAN, n \in Nat, m \in Nat :
           n = 1 /\ m = 0 /\ Becomes(p, g, kept, n, m)
    <3>1. Becomes(p, g, TRUE, 1, 0)
      BY <2>1, <2>2, OperationsUpdate
    <3> QED  BY <3>1, Zenon
  <2>4. ASSUME NEW q \in Pids, NEW f \in Files
        PROVE  /\ TotalReads(accesses', q, f) = reads'[q][f]
               /\ TotalWrites(accesses', q, f) = writes'[q][f]
    <3>1. /\ TotalReads(accesses', q, f)
               = TotalReads(accesses, q, f) + (IF q = p /\ f = g THEN n ELSE 0)
          /\ TotalWrites(accesses', q, f)
               = TotalWrites(accesses, q, f) + (IF q = p /\ f = g THEN m ELSE 0)
      BY <2>1, <2>3, BecomesCounts DEF PathNames
    <3>2. /\ TotalReads(accesses, q, f) = reads[q][f] /\ reads[q][f] \in Nat
          /\ TotalWrites(accesses, q, f) = writes[q][f] /\ writes[q][f] \in Nat
          /\ reads'[q][f] = reads[q][f] + (IF q = p /\ f = g THEN 1 ELSE 0)
      BY <2>2 DEF CountInv, KernelTypeOK
    <3> QED  BY <2>2, <2>3, <3>1, <3>2
  <2> QED  BY <2>4 DEF CountInv
<1> QED  BY <1>1, <1>2

LEMMA WriteIsCounted ==
  ASSUME IInv, CountInv, KernelTypeOK', TransfersAreKnown, FilesAreShown,
         NEW p \in Pids, NEW d \in Fds, NEW valid \in BOOLEAN, WriteFile(p, d, valid)
  PROVE  CountInv'
<1>1. CASE ~valid
  <2>1. TracerName # "ltrace"
    BY <1>1 DEF WriteFile, TransfersAreKnown, FilesAreKnown
  <2>2. JustLookup(p, PathName(d, Shown(p, d))) /\ UNCHANGED <<reads, writes>>
    BY <1>1, <2>1 DEF WriteFile, Write
  <2>3. PathName(d, Shown(p, d)) \in PathNames
    BY ShownType, PathNameType DEF CountInv, KernelTypeOK, FdsOK, IInv, Returned
  <2> QED  BY <2>2, <2>3, OperationsUpdate, QuietKeepsCounts
<1>2. CASE valid
  <2>1. PICK g \in Files : g = fds[p][d] /\ PathName(d, Shown(p, d)) = g /\ g \in PathNames
    BY <1>2 DEF WriteFile, IsOpen, FilesAreShown, CountInv, KernelTypeOK, PathNames
  <2>2. SetWritten(p, g) /\ writes' = [writes EXCEPT ![p][g] = @ + 1] /\ reads' = reads
    BY <1>2, <2>1 DEF WriteFile, Write
  <2>3. PICK kept \in BOOLEAN, n \in Nat, m \in Nat :
           n = 0 /\ m = 1 /\ Becomes(p, g, kept, n, m)
    <3>1. Becomes(p, g, TRUE, 0, 1)
      BY <2>1, <2>2, OperationsUpdate
    <3> QED  BY <3>1, Zenon
  <2>4. ASSUME NEW q \in Pids, NEW f \in Files
        PROVE  /\ TotalReads(accesses', q, f) = reads'[q][f]
               /\ TotalWrites(accesses', q, f) = writes'[q][f]
    <3>1. /\ TotalReads(accesses', q, f)
               = TotalReads(accesses, q, f) + (IF q = p /\ f = g THEN n ELSE 0)
          /\ TotalWrites(accesses', q, f)
               = TotalWrites(accesses, q, f) + (IF q = p /\ f = g THEN m ELSE 0)
      BY <2>1, <2>3, BecomesCounts DEF PathNames
    <3>2. /\ TotalReads(accesses, q, f) = reads[q][f] /\ reads[q][f] \in Nat
          /\ TotalWrites(accesses, q, f) = writes[q][f] /\ writes[q][f] \in Nat
          /\ writes'[q][f] = writes[q][f] + (IF q = p /\ f = g THEN 1 ELSE 0)
      BY <2>2 DEF CountInv, KernelTypeOK
    <3> QED  BY <2>2, <2>3, <3>1, <3>2
  <2> QED  BY <2>4 DEF CountInv
<1> QED  BY <1>1, <1>2

LEMMA CountsInit == Init => CountInv
<1> SUFFICES ASSUME Init PROVE CountInv
  OBVIOUS
<1>1. KernelTypeOK
  BY DEF Init, KernelTypeOK
<1>2. ASSUME NEW p \in Pids, NEW f \in Files
      PROVE  /\ TotalReads(accesses, p, f) = reads[p][f]
             /\ TotalWrites(accesses, p, f) = writes[p][f]
  <2>1. Of(accesses, p, f) = {}
    BY DEF Init, AccessInit, Of
  <2>2. TotalReads(accesses, p, f) = 0 /\ TotalWrites(accesses, p, f) = 0
    BY <2>1, TotalStep, FS_EmptySet DEF TotalReads, TotalWrites
  <2>3. reads[p][f] = 0 /\ writes[p][f] = 0
    BY DEF Init
  <2> QED  BY <2>2, <2>3
<1> QED  BY <1>1, <1>2 DEF CountInv

LEMMA CountsNext ==
  ASSUME TransfersAreKnown, IInv, FilesAreShown, CountInv, [Next]_vars
  PROVE  CountInv'
<1>1. CASE UNCHANGED vars
  BY <1>1 DEF vars, accessVars, CountInv, KernelTypeOK
<1>2. CASE Next
  <2>1. KernelTypeOK'
    BY <1>2, KernelNext DEF CountInv
  <2>2. ASSUME NEW p \in Pids, NEW f \in Files, NEW call \in {"open", "openat"}, NEW d \in Returned,
               NEW missing \in BOOLEAN, Open(p, call, d, f, missing), UNCHANGED <<reads, writes>>
        PROVE  CountInv'
    <3>1. NoAccess \/ \E g \in PathNames : SetOpenTime(p, g)
      <4>1. f \in PathNames /\ PathName(d, f) \in PathNames
        BY PathNameType DEF PathNames, IInv
      <4> QED  BY <2>2, <4>1 DEF Open
    <3> QED  BY <2>1, <2>2, <3>1, OperationsUpdate, QuietKeepsCounts
  <2>3. ASSUME NEW p \in Pids, NEW d \in Fds, CloseFile(p, d)
        PROVE  CountInv'
    <3>1. PathName(d, Shown(p, d)) \in PathNames
      BY ShownType, PathNameType DEF CountInv, KernelTypeOK, FdsOK, IInv, Returned
    <3>2. UNCHANGED <<reads, writes>> /\ (NoAccess \/ SetCloseTime(p, PathName(d, Shown(p, d))))
      BY <2>3 DEF CloseFile, Close
    <3> QED  BY <2>1, <3>1, <3>2, OperationsUpdate, QuietKeepsCounts
  <2>4. ASSUME NEW p \in Pids, NEW d \in Fds, NEW e \in Fds, Dup(p, d, e)
        PROVE  CountInv'
    BY <2>1, <2>4, QuietKeepsCounts DEF Dup, OtherCall
  <2>5. ASSUME NEW p \in Pids, NEW q \in Pids, Fork(p, q)
        PROVE  CountInv'
    BY <2>1, <2>5, QuietKeepsCounts DEF Fork, OtherCall
  <2>6. ASSUME NEW p \in Pids, NEW f \in Files, NEW call \in {"open", "openat"}, OpenFile(p, call, f)
        PROVE  CountInv'
    <3>1. PICK d \in Fds : Open(p, call, d, f, FALSE)
      BY <2>6 DEF OpenFile, Free
    <3>2. d \in Returned /\ UNCHANGED <<reads, writes>>
      BY <2>6 DEF OpenFile, Returned
    <3> QED  BY <2>2, <3>1, <3>2
  <2>7. ASSUME NEW p \in Pids, NEW f \in Files, NEW call \in {"open", "openat"},
               NEW missing \in BOOLEAN, OpenFails(p, call, f, missing)
        PROVE  CountInv'
    BY <2>2, <2>7 DEF OpenFails, Returned
  <2> QED  BY <1>2, <2>1, <2>3, <2>4, <2>5, <2>6, <2>7, ReadIsCounted, WriteIsCounted DEF Next
<1> QED  BY <1>1, <1>2

(* Each successful read and write of a traced process is counted once, by  *)
(* an access of that process to that file: with strace whatever is         *)
(* duplicated, inherited or fails in between; with ltrace if its table of  *)
(* path names is that of one process.                                      *)
THEOREM TransfersAreCounted ==
  ASSUME TransfersAreKnown
  PROVE  Spec => []EveryTransferCounted
<1>1. Spec => [](IInv /\ FewAccesses)
  BY FilesRefineAccesses, AccessesAreFew, PTL
<1>2. Spec => []FilesAreShown
  <2>1. CASE TracerName = "strace"
    <3>1. FilesAreShown
      BY <2>1, FileAccessAssumption DEF FilesAreShown, PathName, Shown
    <3> QED  BY <3>1, PTL
  <2>2. CASE FilesAreKnown
    <3>1. SessionInv => FilesAreShown
      BY OpenIsShown DEF FilesAreShown
    <3> QED  BY <2>2, <3>1, SessionsHold, PTL
  <2> QED  BY <2>1, <2>2 DEF TransfersAreKnown
<1>3. IInv /\ FilesAreShown /\ CountInv /\ [Next]_vars => CountInv'
  BY CountsNext
<1>4. CountInv => EveryTransferCounted
  <2> SUFFICES ASSUME CountInv, NEW p \in Pids, NEW f \in Files
               PROVE  LET of == {a \in 1..Len(accesses) : accesses[a].proc = p /\ accesses[a].file = f}
                      IN  /\ MapThenSumSet(LAMBDA a : accesses[a].NumReads, of) = reads[p][f]
                          /\ MapThenSumSet(LAMBDA a : accesses[a].NumWrites, of) = writes[p][f]
    BY Zenon DEF EveryTransferCounted
  <2> DEFINE of == {a \in 1..Len(accesses) : accesses[a].proc = p /\ accesses[a].file = f}
  <2>1. /\ MapThenSumSet(LAMBDA a : accesses[a].NumReads, of) = TotalReads(accesses, p, f)
        /\ MapThenSumSet(LAMBDA a : accesses[a].NumWrites, of) = TotalWrites(accesses, p, f)
    BY SumsAreTotals, Zenon
  <2>2. TotalReads(accesses, p, f) = reads[p][f] /\ TotalWrites(accesses, p, f) = writes[p][f]
    BY DEF CountInv
  <2> QED  BY <2>1, <2>2, Zenon
<1> QED  BY <1>1, <1>2, <1>3, <1>4, CountsInit, PTL DEF Spec

=============================================================================
