----------------------------- MODULE FileAccess -----------------------------
(***************************************************************************)
(* The FileAccess objects of survol/scripts/dockit.py: what a process did  *)
(* to a file between open() and close(), as far as the log of strace or    *)
(* ltrace shows it.  A FileAccess is known by its position in "accesses",  *)
(* the order in which the objects are created.                             *)
(***************************************************************************)
EXTENDS Integers, Sequences

CONSTANTS
  Pids,        \* processes
  Files,       \* path names
  Fds,         \* file descriptors but 0, 1 and 2, which have a predefined name
  TracerName,  \* "strace", run with "-y", or "ltrace"
  MaxCalls     \* bound on the number of calls

(* A call that fails returns -1.                                           *)
Returned == Fds \cup {-1}

(* The path name made up for a descriptor that is not known.               *)
UnknownFileDescr(d) == <<"UnknownFileDescr", d>>

PathNames == Files \cup {UnknownFileDescr(d) : d \in Returned}

ASSUME FileAccessAssumption ==
  /\ Fds \subseteq Nat
  /\ TracerName \in {"strace", "ltrace"}
  /\ MaxCalls \in Nat
  /\ Files \cap {UnknownFileDescr(d) : d \in Returned} = {}

VARIABLES
  now,                    \* the timestamp of the line, which counts the calls
  accesses,               \* every FileAccess made, in order
  G_cacheFileAccesses,    \* process -> file -> position in accesses, or 0
  G_mapFilDesToPathName   \* descriptor -> path name, for ltrace

accessVars == <<now, accesses, G_cacheFileAccesses, G_mapFilDesToPathName>>

(* A time which is not set is 0.                                           *)
Accesses == [proc : Pids, file : PathNames, OpenTime : Nat, CloseTime : Nat,
             NumOpen : Nat, NumReads : Nat, NumWrites : Nat]

TypeOK ==
  /\ now \in Nat \ {0}
  /\ accesses \in Seq(Accesses)
  /\ G_cacheFileAccesses \in [Pids -> [PathNames -> Nat]]
  /\ G_mapFilDesToPathName \in [Returned -> PathNames]

AccessInit ==
  /\ now = 1
  /\ accesses = <<>>
  /\ G_cacheFileAccesses = [p \in Pids |-> [f \in PathNames |-> 0]]
  /\ G_mapFilDesToPathName = [d \in Returned |-> UnknownFileDescr(d)]

-----------------------------------------------------------------------------
(* Variant: the constructor is called with its arguments swapped.          *)
NewAccessSwapped(p, f) == [proc |-> f, file |-> p, OpenTime |-> 0, CloseTime |-> 0,
                           NumOpen |-> 0, NumReads |-> 0, NumWrites |-> 0]

NewAccess(p, f) == [proc |-> p, file |-> f, OpenTime |-> 0, CloseTime |-> 0,
                    NumOpen |-> 0, NumReads |-> 0, NumWrites |-> 0]

(* LookupFileAccess: the access in the cache, or a new one.                *)
Cached(p, f) == G_cacheFileAccesses[p][f]

Lookup(p, f) == IF Cached(p, f) # 0 THEN Cached(p, f) ELSE Len(accesses) + 1

(* The accesses after LookupFileAccess.                                    *)
LookedUp(p, f) == IF Cached(p, f) # 0 THEN accesses
                  ELSE Append(accesses, NewAccess(p, f))

(* The access becomes acc and is in the cache, or is no longer.            *)
Update(p, f, acc, kept) ==
  /\ accesses' = [LookedUp(p, f) EXCEPT ![Lookup(p, f)] = acc]
  /\ G_cacheFileAccesses' = [G_cacheFileAccesses EXCEPT ![p][f] = IF kept THEN Lookup(p, f) ELSE 0]

Access(p, f) == LookedUp(p, f)[Lookup(p, f)]

(* Variants: the closed access stays in the cache; it gets no time; open   *)
(* makes an access in all cases.                                           *)
SetCloseTimeCached(p, f) ==
  Update(p, f, [Access(p, f) EXCEPT !.CloseTime = IF @ = 0 \/ now < @ THEN now ELSE @], TRUE)

SetCloseTimeUnset(p, f) == Update(p, f, Access(p, f), FALSE)

SetOpenTimeAlwaysNew(p, f) ==
  /\ accesses' = Append(accesses, [NewAccess(p, f) EXCEPT !.NumOpen = 1, !.OpenTime = now])
  /\ G_cacheFileAccesses' = [G_cacheFileAccesses EXCEPT ![p][f] = Len(accesses) + 1]

SetOpenTime(p, f) ==
  LET acc == Access(p, f)
  IN  Update(p, f, [acc EXCEPT !.NumOpen = @ + 1,
                               !.OpenTime = IF @ = 0 \/ now < @ THEN now ELSE @], TRUE)

SetCloseTime(p, f) ==
  LET acc == Access(p, f)
  IN  Update(p, f, [acc EXCEPT !.CloseTime = IF @ = 0 \/ now < @ THEN now ELSE @], FALSE)

SetRead(p, f)    == Update(p, f, [Access(p, f) EXCEPT !.NumReads = @ + 1], TRUE)
SetWritten(p, f) == Update(p, f, [Access(p, f) EXCEPT !.NumWrites = @ + 1], TRUE)

(* GetFileAccess, without anything done to the access.                     *)
JustLookup(p, f) == Update(p, f, Access(p, f), TRUE)

NoAccess == UNCHANGED <<accesses, G_cacheFileAccesses>>

-----------------------------------------------------------------------------
(* The handlers of the system calls.  "shown" is the path name that the    *)
(* option -y of strace prints after the descriptor.                        *)

(* STraceStreamToPathname.                                                 *)
PathName(d, shown) ==
  IF TracerName = "ltrace" THEN G_mapFilDesToPathName[d]
  ELSE IF d = -1 THEN UnknownFileDescr(d) ELSE shown

(* Variant: the path name of the descriptor is not remembered.             *)
OpenUnmapped(p, call, d, f, missing) ==
  SetOpenTime(p, f) /\ UNCHANGED G_mapFilDesToPathName

(* BatchLetSys_open and BatchLetSys_openat: only the former rejects the    *)
(* call when the file is missing; no other error is looked at.             *)
Open(p, call, d, f, missing) ==
  IF call = "open" /\ missing THEN NoAccess /\ UNCHANGED G_mapFilDesToPathName
  ELSE IF TracerName = "strace"
       THEN SetOpenTime(p, PathName(d, f)) /\ UNCHANGED G_mapFilDesToPathName
       ELSE /\ G_mapFilDesToPathName' = [G_mapFilDesToPathName EXCEPT ![d] = f]
            /\ SetOpenTime(p, f)

(* BatchLetSys_close: strace prints EBADF, ltrace prints -9.               *)
Close(p, d, shown, valid) ==
  /\ IF valid \/ TracerName = "ltrace" THEN SetCloseTime(p, PathName(d, shown)) ELSE NoAccess
  /\ UNCHANGED G_mapFilDesToPathName

(* Variant: the result is not looked at.                                   *)
ReadAnyResult(p, d, shown, valid) ==
  SetRead(p, PathName(d, shown)) /\ UNCHANGED G_mapFilDesToPathName

(* BatchLetSys_read: an error printed by strace is not an integer.         *)
Read(p, d, shown, valid) ==
  /\ IF valid \/ TracerName = "ltrace" THEN SetRead(p, PathName(d, shown)) ELSE NoAccess
  /\ UNCHANGED G_mapFilDesToPathName

(* BatchLetSys_write, writev: the access is looked up in all cases.        *)
Write(p, d, shown, valid) ==
  /\ IF valid \/ TracerName = "ltrace" THEN SetWritten(p, PathName(d, shown))
     ELSE JustLookup(p, PathName(d, shown))
  /\ UNCHANGED G_mapFilDesToPathName

Tick == now < MaxCalls /\ now' = now + 1

(* dup, dup2, clone and the calls which have no descriptor.                *)
OtherCall == NoAccess /\ UNCHANGED G_mapFilDesToPathName

(* Any call, with any result.                                              *)
AccessNext ==
  /\ Tick
  /\ \/ \E p \in Pids, f \in Files, call \in {"open", "openat"} :
          \/ \E d \in Fds : Open(p, call, d, f, FALSE)
          \/ \E missing \in BOOLEAN : Open(p, call, -1, f, missing)
     \/ \E p \in Pids, d \in Fds, shown \in PathNames, valid \in BOOLEAN :
          \/ Close(p, d, shown, valid)
          \/ Read(p, d, shown, valid)
          \/ Write(p, d, shown, valid)
     \/ OtherCall

AccessSpec == AccessInit /\ [][AccessNext]_accessVars

-----------------------------------------------------------------------------
(* "Once a file has been closed, the associated file access cannot be      *)
(* returned again": an access that is closed never changes, even if the    *)
(* process opens the file again, or still has another descriptor to it.    *)
ClosedAccessIsFinal ==
  [][ \A a \in 1..Len(accesses) :
        accesses[a].CloseTime # 0 => accesses'[a] = accesses[a] ]_accessVars

(* The cache holds the accesses that are not closed, under their process   *)
(* and file, and nothing else: so none is lost, and a process has one      *)
(* access to a file at most.                                               *)
LiveAccessesAreCached ==
  /\ \A a \in 1..Len(accesses) :
       accesses[a].CloseTime = 0 <=> Cached(accesses[a].proc, accesses[a].file) = a
  /\ \A p \in Pids, f \in PathNames :
       Cached(p, f) # 0 => /\ Cached(p, f) \in 1..Len(accesses)
                           /\ accesses[Cached(p, f)].proc = p
                           /\ accesses[Cached(p, f)].file = f

(* The accesses of a process to a file follow each other: the next one is  *)
(* only opened after the one before is closed.                             *)
AccessesDoNotOverlap ==
  \A a, b \in 1..Len(accesses) :
    a < b /\ accesses[a].proc = accesses[b].proc /\ accesses[a].file = accesses[b].file =>
      /\ accesses[a].CloseTime # 0
      /\ accesses[b].OpenTime # 0 => accesses[a].CloseTime < accesses[b].OpenTime

=============================================================================
