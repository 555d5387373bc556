---------------------------- MODULE ProcessTree -----------------------------
(***************************************************************************)
(* The CIM_Process objects of survol/scripts/dockit.py: who created whom   *)
(* and when each process began and ended, rebuilt from the calls clone,    *)
(* vfork and wait4 of a traced command.                                    *)
(*                                                                         *)
(* The module has the traced processes too, as the system runs them.  A    *)
(* call to clone is logged on one line, or, when its new process is seen   *)
(* first, on two lines between which the new process makes calls; wait4    *)
(* stands on its second line.  strace logs a process traced alone without  *)
(* its pid, and its top process is the last one to exit.                   *)
(*                                                                         *)
(* A line such as "+++ exited (status 0) +++" does not look like the end   *)
(* of a line to the reader, which joins the next line to it and leaves     *)
(* both aside.  ltrace logs one for each process, strace, run with -qq,    *)
(* at most for one that is killed.  Pids are not used again.               *)
(***************************************************************************)
EXTENDS Naturals, FiniteSets

CONSTANTS
  Pids,        \* processes
  TopPid,      \* the process that the tracer starts
  NoPid,       \* -1, the pid of the top process in a replay that does not know it
  ErrorPid,    \* another number below 0, which ltrace gives for a call that fails
  None,
  MaxCalls     \* bound on the number of calls

Handles == Pids \cup {NoPid, ErrorPid}

PendingCalls == [child : Pids, call : {"clone", "vfork"}]

ASSUME ProcessTreeAssumption ==
  /\ TopPid \in Pids /\ NoPid \notin Pids /\ ErrorPid \notin Pids \cup {NoPid}
  /\ None \notin Handles /\ None \notin PendingCalls
  /\ MaxCalls \in Nat

VARIABLES
  G_topProcessId,    \* from the tracer, or from the ini file beside the log
  G_mapCacheObjects, \* the CIM_Process objects: handle -> object
  tracer,            \* "strace" or "ltrace"
  held,              \* the line of an exit waits to be joined to the next one
  unfinished,        \* for each handle, the calls to clone on its stack
  lastTimeStamp,     \* of the last line that was read, or 0
  analysis,          \* "reading" the log, "done", or "raised" by an exception
  now,               \* the timestamp of the last call, which counts the calls
  life,              \* each process: "new", "running", "exited" or "waited"
  creator,           \* the process that created it
  pending,           \* its call to clone or vfork which has not returned
  begun,             \* the processes whose creation was read before any call of theirs
  told,              \* the processes whose pid was read as the result of that call
  stopped,           \* the running processes which wait4 has reported
  calls              \* each process: when its first and last calls that were read were made

readerVars  == <<G_topProcessId, G_mapCacheObjects, tracer, held, unfinished,
                 lastTimeStamp, analysis>>
historyVars == <<begun, told, stopped, calls>>
vars == <<readerVars, now, life, creator, pending, historyVars>>

(* A date which is not set is 0.                                           *)
Objects == [m_parentProcess : Handles \cup {None}, m_subProcesses : SUBSET Handles,
            CreationDate : Nat, TerminationDate : Nat]

Known == DOMAIN G_mapCacheObjects

TypeOK ==
  /\ G_topProcessId \in {TopPid, NoPid}
  /\ Known \subseteq Handles
  /\ G_mapCacheObjects \in [Known -> Objects]
  /\ tracer \in {"strace", "ltrace"} /\ held \in BOOLEAN
  /\ unfinished \in [Handles -> Nat]
  /\ lastTimeStamp \in Nat /\ now \in Nat
  /\ analysis \in {"reading", "done", "raised"}
  /\ life \in [Pids -> {"new", "running", "exited", "waited"}]
  /\ creator \in [Pids -> Pids \cup {None}]
  /\ pending \in [Pids -> PendingCalls \cup {None}]
  /\ begun \subseteq Pids /\ told \subseteq Pids /\ stopped \subseteq Pids
  /\ calls \in [Pids -> [first : Nat, last : Nat]]

Init ==
  /\ G_topProcessId \in {TopPid, NoPid}
  /\ G_mapCacheObjects = [h \in {} |-> None]
  /\ tracer \in {"strace", "ltrace"}
  /\ held = FALSE
  /\ unfinished = [h \in Handles |-> 0]
  /\ lastTimeStamp = 0 /\ now = 0
  /\ analysis = "reading"
  /\ life = [p \in Pids |-> IF p = TopPid THEN "running" ELSE "new"]
  /\ creator = [p \in Pids |-> None]
  /\ pending = [p \in Pids |-> None]
  /\ begun = {TopPid} /\ told = {} /\ stopped = {}
  /\ calls = [p \in Pids |-> [first |-> 0, last |-> 0]]

-----------------------------------------------------------------------------
(* The methods of CIM_Process, on the map of the objects.                  *)

NewProcess == [m_parentProcess |-> None, m_subProcesses |-> {},
               CreationDate |-> 0, TerminationDate |-> 0]

(* Variant: the sub-process is not added to its parent.                    *)
SetParentProcessOneWay(objs, h, parent) == [objs EXCEPT ![h].m_parentProcess = parent]

SetParentProcess(objs, h, parent) ==
  [objs EXCEPT ![h].m_parentProcess = parent, ![parent].m_subProcesses = @ \cup {h}]

(* Variant: every new process but the first gets a parent.                 *)
ToObjectPathAnyParent(objs, h) ==
  LET created == [g \in DOMAIN objs \cup {h} |-> IF g \in DOMAIN objs THEN objs[g] ELSE NewProcess]
  IN  IF h \notin DOMAIN objs /\ DOMAIN objs # {}
      THEN SetParentProcess(created, h, CHOOSE g \in DOMAIN objs : TRUE) ELSE created

(* ToObjectPath_CIM_Process and the constructor: the second process to be  *)
(* created is taken for a child of the first one.                          *)
ToObjectPath(objs, h) ==
  LET created == [g \in DOMAIN objs \cup {h} |-> IF g \in DOMAIN objs THEN objs[g] ELSE NewProcess]
      first   == CHOOSE g \in DOMAIN objs : TRUE
  IN  IF h \notin DOMAIN objs /\ DOMAIN objs # {} /\ \A g \in DOMAIN objs : g = first
      THEN SetParentProcess(created, h, first) ELSE created

(* The end of ParseLine: the process of the line, created now if need be.  *)
ParsedBy(objs, h) ==
  LET found == ToObjectPath(objs, h)
  IN  [found EXCEPT ![h].CreationDate = IF @ = 0 THEN now + 1 ELSE @]

AddParentProcess(objs, h, parent) ==
  [SetParentProcess(ToObjectPath(objs, h), h, parent) EXCEPT ![h].CreationDate = now + 1]

(* Variants: the process that waits becomes the child, or is the one that  *)
(* has ended.                                                              *)
WaitProcessEndSwapped(objs, h, parent) ==
  LET ended == [ToObjectPath(objs, h) EXCEPT ![h].TerminationDate = now + 1]
  IN  IF ended[parent].m_parentProcess = None THEN SetParentProcess(ended, parent, h) ELSE ended

WaitProcessEndWaiter(objs, h, parent) ==
  LET ended == [ToObjectPath(objs, h) EXCEPT ![parent].TerminationDate = now + 1]
  IN  IF ended[h].m_parentProcess = None THEN SetParentProcess(ended, h, parent) ELSE ended

WaitProcessEnd(objs, h, parent) ==
  LET ended == [ToObjectPath(objs, h) EXCEPT ![h].TerminationDate = now + 1]
  IN  IF ended[h].m_parentProcess = None /\ h # parent
      THEN SetParentProcess(ended, h, parent) ELSE ended

(* SetParentProcess raises "Self-parent".                                  *)
IsSelfParent(objs, h, parent) == h = parent /\ objs[h].m_parentProcess = None

(* Variant: the last timestamp is not known.                               *)
GlobalTerminationDateNone(objs) ==
  [h \in DOMAIN objs |-> [objs[h] EXCEPT !.TerminationDate = IF @ = 0 THEN None ELSE @]]

GlobalTerminationDate(objs) ==
  [h \in DOMAIN objs |-> [objs[h] EXCEPT !.TerminationDate = IF @ = 0 THEN lastTimeStamp ELSE @]]

-----------------------------------------------------------------------------
Running == {p \in Pids : life[p] = "running"}

(* The process that a line of p is attributed to.                          *)
LinePid(p) == IF tracer = "strace" /\ Running = {p} THEN G_topProcessId ELSE p

(* A line of p, of which objs are the objects when it is handled.          *)
LogCall(p, objs) ==
  /\ analysis = "reading" /\ now < MaxCalls
  /\ life[p] = "running"
  /\ now' = now + 1
  /\ held' = FALSE
  /\ IF held THEN UNCHANGED <<G_mapCacheObjects, lastTimeStamp, calls>>
     ELSE /\ G_mapCacheObjects' = objs
          /\ lastTimeStamp' = now + 1
          /\ calls' = [calls EXCEPT ![p].first = IF @ = 0 THEN now + 1 ELSE @, ![p].last = now + 1]
  /\ UNCHANGED <<G_topProcessId, tracer>>

Parsed(p) == ParsedBy(G_mapCacheObjects, LinePid(p))

(* A call which is not about processes.                                    *)
OtherCall(p) ==
  /\ pending[p] = None
  /\ LogCall(p, Parsed(p))
  /\ UNCHANGED <<unfinished, analysis, life, creator, pending, begun, told, stopped>>

(* "--- SIGCHLD {...} ---": it only matters behind the line of an exit.    *)
Signal(p) ==
  /\ analysis = "reading"
  /\ life[p] = "running"
  /\ held /\ held' = FALSE
  /\ UNCHANGED <<G_topProcessId, G_mapCacheObjects, tracer, unfinished, lastTimeStamp, analysis>>
  /\ UNCHANGED <<now, life, creator, pending, historyVars>>

Create(p, q) ==
  /\ pending[p] = None
  /\ life[q] = "new"
  /\ life' = [life EXCEPT ![q] = "running"]
  /\ creator' = [creator EXCEPT ![q] = p]
  /\ begun' = IF held THEN begun ELSE begun \cup {q}

(* BatchLetSys_clone and BatchLetSys_vfork.                                *)
Clone(p, q) ==
  /\ Create(p, q)
  /\ LogCall(p, AddParentProcess(Parsed(p), q, LinePid(p)))
  /\ told' = IF held THEN told ELSE told \cup {q}
  /\ UNCHANGED <<unfinished, analysis, pending, stopped>>

(* The first half of a call, which is only put on a stack.                 *)
CloneBegin(p, q, call) ==
  /\ Create(p, q)
  /\ LogCall(p, Parsed(p))
  /\ unfinished' = IF held \/ call = "vfork" THEN unfinished
                   ELSE [unfinished EXCEPT ![LinePid(p)] = @ + 1]
  /\ pending' = [pending EXCEPT ![p] = [child |-> q, call |-> call]]
  /\ UNCHANGED <<analysis, told, stopped>>

(* The second half.  If there is a first one on the stack of the process   *)
(* the call is handled; vfork is handled without it.                       *)
CloneEnd(p) ==
  /\ pending[p] # None
  /\ LET child   == pending[p].child
         isVfork == pending[p].call = "vfork"
         found   == ~isVfork /\ unfinished[LinePid(p)] > 0
     IN  /\ LogCall(p, IF isVfork \/ found
                       THEN AddParentProcess(Parsed(p), child, LinePid(p)) ELSE Parsed(p))
         /\ unfinished' = IF found /\ ~held THEN [unfinished EXCEPT ![LinePid(p)] = @ - 1]
                          ELSE unfinished
         /\ told' = IF ~held /\ (isVfork \/ child \in begun) THEN told \cup {child} ELSE told
  /\ pending' = [pending EXCEPT ![p] = None]
  /\ UNCHANGED <<analysis, life, creator, begun, stopped>>

(* clone or vfork returns no pid.  strace logs "-1 EAGAIN (...)", of which *)
(* int() raises; ltrace logs a number, which makes a process.              *)
CloneFails(p) ==
  /\ pending[p] = None
  /\ LogCall(p, IF tracer = "strace" THEN Parsed(p)
                ELSE AddParentProcess(Parsed(p), ErrorPid, LinePid(p)))
  /\ analysis' = IF tracer = "strace" /\ ~held THEN "raised" ELSE analysis
  /\ UNCHANGED <<unfinished, life, creator, pending, begun, told, stopped>>

(* BatchLetSys_wait4, when it returns the pid of a child, which may have   *)
(* stopped only: the status is not looked at.                              *)
Wait(p, q) ==
  /\ pending[p] = None
  /\ creator[q] = p
  /\ \/ /\ life[q] = "exited" /\ life' = [life EXCEPT ![q] = "waited"]
        /\ stopped' = IF held THEN stopped ELSE stopped \ {q}
     \/ /\ life[q] = "running" /\ UNCHANGED life
        /\ stopped' = IF held THEN stopped ELSE stopped \cup {q}
  /\ LogCall(p, WaitProcessEnd(Parsed(p), q, LinePid(p)))
  /\ UNCHANGED <<unfinished, analysis, creator, pending, begun, told>>

(* wait4 fails, but not with ECHILD.  strace logs "-1 EINTR (...)", of     *)
(* which the first word is a number too.                                   *)
WaitFails(p) ==
  /\ pending[p] = None
  /\ LET handle == IF tracer = "strace" THEN NoPid ELSE ErrorPid
     IN  /\ LogCall(p, WaitProcessEnd(Parsed(p), handle, LinePid(p)))
         /\ analysis' = IF ~held /\ IsSelfParent(Parsed(p), handle, LinePid(p))
                        THEN "raised" ELSE analysis
  /\ UNCHANGED <<unfinished, life, creator, pending, begun, told, stopped>>

(* "+++ exited (status 0) +++", or killed, in a call too.                  *)
Exit(p) ==
  /\ analysis = "reading"
  /\ life[p] = "running"
  /\ tracer = "strace" /\ p = TopPid => Running = {p}
  /\ held' = TRUE \/ (tracer = "strace" /\ held' = held)
  /\ life' = [life EXCEPT ![p] = "exited"]
  /\ pending' = [pending EXCEPT ![p] = None]
  /\ UNCHANGED <<G_topProcessId, G_mapCacheObjects, tracer, unfinished, lastTimeStamp, analysis>>
  /\ UNCHANGED <<now, creator, historyVars>>

(* The log may end before the processes do.                                *)
EndOfLog ==
  /\ analysis = "reading"
  /\ analysis' = "done"
  /\ G_mapCacheObjects' = IF lastTimeStamp = 0 THEN G_mapCacheObjects
                          ELSE GlobalTerminationDate(G_mapCacheObjects)
  /\ UNCHANGED <<G_topProcessId, tracer, held, unfinished, lastTimeStamp>>
  /\ UNCHANGED <<now, life, creator, pending, historyVars>>

Next ==
  \/ \E p \in Pids :
       \/ OtherCall(p)
       \/ Signal(p)
       \/ CloneEnd(p)
       \/ CloneFails(p)
       \/ WaitFails(p)
       \/ Exit(p)
       \/ \E q \in Pids :
            \/ Clone(p, q)
            \/ Wait(p, q)
            \/ \E call \in {"clone", "vfork"} : CloneBegin(p, q, call)
  \/ EndOfLog

Spec == Init /\ [][Next]_vars

-----------------------------------------------------------------------------
Parent(h) == G_mapCacheObjects[h].m_parentProcess

(* ltrace shows the pid of each line.                                      *)
TopIsKnown == tracer = "ltrace" \/ G_topProcessId = TopPid

(* In a replay which does not know the top process, the process -1 stands  *)
(* for it, and is also what a wait4 that fails is taken to wait for.       *)
TopHasParent == ~TopIsKnown /\ NoPid \in Known /\ Parent(NoPid) # None

(* TopProcessFromProc follows the parents until there is none: it returns  *)
(* if no group of processes have all their parents in the group.           *)
NoCycle ==
  ~TopHasParent =>
    \A group \in SUBSET Known : group # {} => \E h \in group : Parent(h) \notin group

(* The parent found is the process that made the creating call, though the *)
(* sub-process may be seen before this call returns, or the line of its    *)
(* return be lost, in which case there may be no parent, but never a wrong *)
(* one.  If no line of that call was read before those of the sub-process, *)
(* the parent may be wrong until it returns.                               *)
ParentIsCreator ==
  TopIsKnown =>
    \A q \in Known \cap Pids :
      /\ q \in begun => Parent(q) \in {None, creator[q]}
      /\ q \in told => Parent(q) = creator[q]

(* XMLOneLevelSummary prints a process below each process that has it as a *)
(* sub-process: below its parent, and only there unless it was seen before *)
(* any line about its creation.                                            *)
PrintedUnderItsParent ==
  /\ \A h \in Known : Parent(h) # None =>
       Parent(h) \in Known /\ h \in G_mapCacheObjects[Parent(h)].m_subProcesses
  /\ TopIsKnown =>
       \A h \in Known \cap begun, g \in Known :
         h \in G_mapCacheObjects[g].m_subProcesses => Parent(h) = g

(* A process makes no call after its termination date, and is not created  *)
(* after it, unless wait4 has only reported that it stopped.  It has a     *)
(* creation date if it made a call or its creation was read, and, once the *)
(* log is read, a termination date.                                        *)
DatesAgree ==
  TopIsKnown =>
    \A p \in Known \cap Pids :
      LET object == G_mapCacheObjects[p]
      IN  /\ object.TerminationDate # 0 /\ p \notin stopped =>
               /\ calls[p].last <= object.TerminationDate
               /\ object.CreationDate <= object.TerminationDate
          /\ object.CreationDate = 0 => calls[p].last = 0 /\ p \notin told
          /\ analysis = "done" => object.TerminationDate # 0

(* "If the creation date is unknown, it is at least equal to the current   *)
(* call time": a process makes no call before its creation date.           *)
CreatedBeforeItsCalls ==
  TopIsKnown =>
    \A p \in Known \cap Pids :
      calls[p].first # 0 => G_mapCacheObjects[p].CreationDate <= calls[p].first

=============================================================================
