---------------------------- MODULE DockitFiles -----------------------------
(***************************************************************************)
(* The descriptor tables of the traced processes, which are kept by the    *)
(* system, and the FileAccess objects that dockit makes from their calls.  *)
(* The calls are in the order in which they return, which is the order of  *)
(* the handlers: an interrupted call is handled on its second half.        *)
(***************************************************************************)
EXTENDS FileAccess, FiniteSetsExt

CONSTANTS
  Nothing,   \* a descriptor that is not open
  Aliases,   \* whether a process may have several descriptors to one file, or inherit one
  Failures   \* whether calls may fail

ASSUME DockitFilesAssumption ==
  /\ Nothing \notin PathNames
  /\ Aliases \in BOOLEAN /\ Failures \in BOOLEAN

VARIABLES
  fds,     \* each process: descriptor -> file
  reads,   \* each process: file -> successful calls to read
  writes   \* the same for write

vars == <<accessVars, fds, reads, writes>>

KernelTypeOK ==
  /\ fds \in [Pids -> [Fds -> Files \cup {Nothing}]]
  /\ reads \in [Pids -> [Files -> Nat]]
  /\ writes \in [Pids -> [Files -> Nat]]

Init ==
  /\ AccessInit
  /\ fds = [p \in Pids |-> [d \in Fds |-> Nothing]]
  /\ reads = [p \in Pids |-> [f \in Files |-> 0]]
  /\ writes = reads

Free(p) == {d \in Fds : fds[p][d] = Nothing}
IsOpen(p, d) == fds[p][d] # Nothing

(* strace prints no path name after a descriptor that is not open.         *)
Shown(p, d) == IF IsOpen(p, d) THEN fds[p][d] ELSE UnknownFileDescr(d)

-----------------------------------------------------------------------------
(* The system chooses the lowest descriptor that is free.                  *)
OpenFile(p, call, f) ==
  /\ Aliases \/ \A d \in Fds : fds[p][d] # f
  /\ \E d \in Free(p) :
       /\ \A e \in Free(p) : d <= e
       /\ fds' = [fds EXCEPT ![p][d] = f]
       /\ Open(p, call, d, f, FALSE)
  /\ UNCHANGED <<reads, writes>>

OpenFails(p, call, f, missing) ==
  /\ Failures
  /\ Open(p, call, -1, f, missing)
  /\ UNCHANGED <<fds, reads, writes>>

CloseFile(p, d) ==
  /\ IsOpen(p, d) \/ Failures
  /\ fds' = [fds EXCEPT ![p][d] = Nothing]
  /\ Close(p, d, Shown(p, d), IsOpen(p, d))
  /\ UNCHANGED <<reads, writes>>

ReadFile(p, d, valid) ==
  /\ valid => IsOpen(p, d)
  /\ ~valid => Failures
  /\ reads' = IF valid THEN [reads EXCEPT ![p][fds[p][d]] = @ + 1] ELSE reads
  /\ Read(p, d, Shown(p, d), valid)
  /\ UNCHANGED <<fds, writes>>

WriteFile(p, d, valid) ==
  /\ valid => IsOpen(p, d)
  /\ ~valid => Failures
  /\ writes' = IF valid THEN [writes EXCEPT ![p][fds[p][d]] = @ + 1] ELSE writes
  /\ Write(p, d, Shown(p, d), valid)
  /\ UNCHANGED <<fds, reads>>

(* dup and dup2, the latter closes its second argument silently.  Their    *)
(* handlers touch no FileAccess and no path name.                          *)
Dup(p, d, e) ==
  /\ Aliases
  /\ IsOpen(p, d) /\ e # d
  /\ fds' = [fds EXCEPT ![p][e] = fds[p][d]]
  /\ OtherCall
  /\ UNCHANGED <<reads, writes>>

(* A process that has made no call yet inherits the descriptors of p.      *)
Fork(p, q) ==
  /\ Aliases
  /\ p # q /\ Free(q) = Fds
  /\ \A a \in 1..Len(accesses) : accesses[a].proc # q
  /\ fds' = [fds EXCEPT ![q] = fds[p]]
  /\ OtherCall
  /\ UNCHANGED <<reads, writes>>

Next ==
  /\ Tick
  /\ \/ \E p \in Pids, f \in Files, call \in {"open", "openat"} :
          \/ OpenFile(p, call, f)
          \/ \E missing \in BOOLEAN : OpenFails(p, call, f, missing)
     \/ \E p \in Pids, d \in Fds :
          \/ CloseFile(p, d)
          \/ \E valid \in BOOLEAN : ReadFile(p, d, valid) \/ WriteFile(p, d, valid)
          \/ \E e \in Fds : Dup(p, d, e)
     \/ \E p, q \in Pids : Fork(p, q)

Spec == Init /\ [][Next]_vars

-----------------------------------------------------------------------------
(* With strace -y each successful read and write is counted once, in an    *)
(* access of its process to its file, whatever was opened, closed,         *)
(* duplicated or inherited in between.                                     *)
EveryTransferCounted ==
  \A p \in Pids, f \in Files :
    LET of == {a \in 1..Len(accesses) : accesses[a].proc = p /\ accesses[a].file = f}
    IN  /\ MapThenSumSet(LAMBDA a : accesses[a].NumReads, of) = reads[p][f]
        /\ MapThenSumSet(LAMBDA a : accesses[a].NumWrites, of) = writes[p][f]

(* If no process has two descriptors to one file, the accesses are what    *)
(* FileSessions promises.  Path names made up by dockit are left aside.    *)
Session(acc) == [proc |-> acc.proc, file |-> acc.file,
                 state |-> IF acc.CloseTime = 0 THEN "open" ELSE "closed",
                 reads |-> acc.NumReads, writes |-> acc.NumWrites]

Named == {a \in 1..Len(accesses) : accesses[a].file \in Files}

Recorded == [a \in Named |-> Session(accesses[a])]

Promised == INSTANCE FileSessions WITH sessions <- Recorded, Ids <- 1..MaxCalls

AccessesAreSessions == Promised!Spec

(* An access is live exactly as long as its file is open.                  *)
LiveAccessIsOpenFile ==
  \A p \in Pids, f \in Files :
    (\E a \in 1..Len(accesses) : /\ accesses[a].proc = p /\ accesses[a].file = f
                                 /\ accesses[a].CloseTime = 0)
      <=> (\E d \in Fds : fds[p][d] = f)

=============================================================================
