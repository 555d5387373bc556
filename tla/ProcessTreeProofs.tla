------------------------- MODULE ProcessTreeProofs --------------------------
(***************************************************************************)
(* Proofs about ProcessTree.  The invariant relates the objects to the     *)
(* processes: an object only has a parent that could be right.  It is kept *)
(* by each method of CIM_Process, then by the calls, which combine them.   *)
(* A second invariant, DatesInv, relates the dates of the objects to the   *)
(* lives of the processes, in the same way.                                *)
(***************************************************************************)
EXTENDS ProcessTree, TLAPS

(* The handle of the lines that show no pid, which is the first one seen.  *)
FirstPid == IF TopIsKnown THEN TopPid ELSE NoPid

(* The parents that an object may be given, if cr is who created whom and  *)
(* bg the processes whose creation was read before their calls.            *)
MayBeParent(h, g, cr, bg) ==
  /\ g \in Pids \ {h} \/ (g = NoPid /\ ~TopIsKnown /\ h # NoPid)
  /\ h \in Pids => g \in {cr[h], NoPid} \/ (g = TopPid /\ h \notin bg)

ObjectsTyped(objs) == DOMAIN objs \subseteq Handles /\ objs \in [DOMAIN objs -> Objects]

TopIsFirst(objs) == DOMAIN objs # {} => FirstPid \in DOMAIN objs

ParentsRight(objs, cr, bg) ==
  \A h \in DOMAIN objs :
    objs[h].m_parentProcess # None => MayBeParent(h, objs[h].m_parentProcess, cr, bg)

LinkedDown(objs) ==
  \A h \in DOMAIN objs :
    objs[h].m_parentProcess # None =>
      /\ objs[h].m_parentProcess \in DOMAIN objs
      /\ h \in objs[objs[h].m_parentProcess].m_subProcesses

LinkedUp(objs, bg) ==
  \A g \in DOMAIN objs, h \in Handles :
    h \in objs[g].m_subProcesses =>
      h \in DOMAIN objs /\ (TopIsKnown /\ h \in Pids \cap bg => objs[h].m_parentProcess = g)

ObjectsOK(objs, cr, bg) ==
  /\ ObjectsTyped(objs) /\ TopIsFirst(objs)
  /\ ParentsRight(objs, cr, bg) /\ LinkedDown(objs) /\ LinkedUp(objs, bg)

(* What is true of the processes and of what was logged about them.        *)
ProcessesOK ==
  /\ tracer = "strace" => \A p \in Pids : life[p] = "running" => life[TopPid] = "running"
  /\ life[TopPid] # "new" /\ creator[TopPid] = None
  /\ \A q \in Pids : q # TopPid => (life[q] = "new" <=> creator[q] = None)
  /\ \A q \in Pids : creator[q] # None => creator[q] \in Pids /\ life[creator[q]] # "new"
  /\ \A q \in Pids : life[q] = "new" => q \notin Known /\ q \notin begun
  /\ \A p \in Pids : pending[p] # None => creator[pending[p].child] = p /\ life[p] = "running"

(* The first line of the log is not lost.                                  *)
FirstIsRead ==
  Known = {} => /\ \A q \in Pids : creator[q] = None
                /\ held => life[TopPid] # "running"

CreatorsAcyclic(cr) ==
  \A group \in SUBSET Pids : group # {} => \E q \in group : cr[q] \notin group

CreatorsKnown ==
  TopIsKnown =>
    /\ \A q \in begun : creator[q] # None => creator[q] \in Known
    /\ \A q \in told : q \in Known /\ Parent(q) = creator[q] /\ creator[q] # None
    /\ \A p \in Pids :
         pending[p] # None /\ pending[p].call = "clone" /\ pending[p].child \in begun =>
           unfinished[p] # 0

IInv ==
  /\ TypeOK
  /\ ObjectsOK(G_mapCacheObjects, creator, begun)
  /\ ProcessesOK /\ FirstIsRead /\ CreatorsAcyclic(creator) /\ CreatorsKnown

SameParents(objs, new) ==
  \A g \in DOMAIN objs : new[g].m_parentProcess = objs[g].m_parentProcess

(* new are right objects, those of objs and h; h is given this parent,     *)
(* or any parent if it had none.                                           *)
ChildGiven(objs, new, h, parent, cr, bg) ==
  /\ ObjectsOK(new, cr, bg) /\ DOMAIN new = DOMAIN objs \cup {h}
  /\ new[h].m_parentProcess = parent
  /\ \A g \in DOMAIN objs : g # h => new[g].m_parentProcess = objs[g].m_parentProcess

ChildEnded(objs, new, h, cr, bg) ==
  /\ ObjectsOK(new, cr, bg) /\ DOMAIN new = DOMAIN objs \cup {h}
  /\ \A g \in DOMAIN objs : \/ new[g].m_parentProcess = objs[g].m_parentProcess
                             \/ objs[g].m_parentProcess = None

-----------------------------------------------------------------------------
(* The methods.                                                            *)

LEMMA NewIsObject == NewProcess \in Objects
BY DEF NewProcess, Objects

(* Dates do not matter to the tree.                                        *)
LEMMA SameTree ==
  ASSUME NEW cr, NEW bg, NEW objs, NEW new, ObjectsOK(objs, cr, bg),
         DOMAIN new = DOMAIN objs, ObjectsTyped(new),
         \A g \in DOMAIN objs : /\ new[g].m_parentProcess = objs[g].m_parentProcess
                                /\ new[g].m_subProcesses = objs[g].m_subProcesses
  PROVE  ObjectsOK(new, cr, bg)
<1>1. TopIsFirst(new)
  BY DEF ObjectsOK, TopIsFirst
<1>2. ParentsRight(new, cr, bg)
  BY DEF ObjectsOK, ParentsRight
<1>3. LinkedDown(new)
  BY DEF ObjectsOK, LinkedDown
<1>4. LinkedUp(new, bg)
  BY DEF ObjectsOK, LinkedUp
<1>. QED  BY <1>1, <1>2, <1>3, <1>4 DEF ObjectsOK

(* A process without a parent, or whose parent is set again, is linked to  *)
(* a parent that may be right.                                             *)
LEMMA SetParentKeeps ==
  ASSUME NEW cr, NEW bg, NEW objs, ObjectsOK(objs, cr, bg),
         NEW h \in DOMAIN objs, NEW parent \in DOMAIN objs, h # parent,
         MayBeParent(h, parent, cr, bg)
  PROVE  LET new == SetParentProcess(objs, h, parent)
         IN  /\ ObjectsOK(new, cr, bg) /\ DOMAIN new = DOMAIN objs
             /\ new[h].m_parentProcess = parent
             /\ \A g \in DOMAIN objs : g # h => new[g].m_parentProcess = objs[g].m_parentProcess
<1>. DEFINE new == SetParentProcess(objs, h, parent)
<1>1. /\ DOMAIN new = DOMAIN objs /\ ObjectsTyped(new)
      /\ new[h].m_parentProcess = parent
      /\ \A g \in DOMAIN objs : g # h => new[g].m_parentProcess = objs[g].m_parentProcess
      /\ new[parent].m_subProcesses = objs[parent].m_subProcesses \cup {h}
      /\ \A g \in DOMAIN objs : g # parent => new[g].m_subProcesses = objs[g].m_subProcesses
  <2>. DEFINE child  == [objs[h] EXCEPT !.m_parentProcess = parent]
              father == [objs[parent] EXCEPT !.m_subProcesses = @ \cup {h}]
  <2>1. /\ objs[h] \in Objects /\ objs[parent] \in Objects
        /\ h \in Handles /\ parent \in Handles /\ objs = [g \in DOMAIN objs |-> objs[g]]
        /\ \A g \in DOMAIN objs : objs[g] \in Objects
    BY DEF ObjectsOK, ObjectsTyped
  <2>2. /\ child \in Objects /\ child.m_parentProcess = parent
        /\ child.m_subProcesses = objs[h].m_subProcesses
    BY <2>1 DEF Objects
  <2>3. /\ father \in Objects /\ father.m_parentProcess = objs[parent].m_parentProcess
        /\ father.m_subProcesses = objs[parent].m_subProcesses \cup {h}
    BY <2>1 DEF Objects
  <2>4. new = [objs EXCEPT ![h] = child, ![parent] = father]
    BY DEF SetParentProcess
  <2>. HIDE DEF child, father, new
  <2>5. /\ DOMAIN new = DOMAIN objs
        /\ new[h] = child /\ new[parent] = father
        /\ \A g \in DOMAIN objs : g # h /\ g # parent => new[g] = objs[g]
        /\ new = [g \in DOMAIN objs |-> new[g]]
    BY <2>1, <2>4
  <2>6. \A g \in DOMAIN objs : new[g] \in Objects
    BY <2>1, <2>2, <2>3, <2>5
  <2>7. ObjectsTyped(new)
    BY <2>5, <2>6 DEF ObjectsOK, ObjectsTyped
  <2>8. \A g \in DOMAIN objs : g # h => new[g].m_parentProcess = objs[g].m_parentProcess
    BY <2>3, <2>5
  <2>9. \A g \in DOMAIN objs : g # parent => new[g].m_subProcesses = objs[g].m_subProcesses
    BY <2>2, <2>5
  <2>. QED  BY <2>2, <2>3, <2>5, <2>7, <2>8, <2>9
<1>. HIDE DEF new
<1>2. TopIsFirst(new)
  BY <1>1 DEF ObjectsOK, TopIsFirst
<1>3. ParentsRight(new, cr, bg)
  BY <1>1 DEF ObjectsOK, ParentsRight
<1>4. LinkedDown(new)
  BY <1>1 DEF ObjectsOK, LinkedDown
<1>5. LinkedUp(new, bg)
  <2>. SUFFICES ASSUME NEW g \in DOMAIN new, NEW k \in Handles, k \in new[g].m_subProcesses
                PROVE  /\ k \in DOMAIN new
                       /\ TopIsKnown /\ k \in Pids \cap bg => new[k].m_parentProcess = g
    BY DEF LinkedUp
  <2>1. (g = parent /\ k = h) \/ k \in objs[g].m_subProcesses
    BY <1>1
  <2>2. k \in objs[g].m_subProcesses =>
          /\ k \in DOMAIN objs
          /\ TopIsKnown /\ k \in Pids \cap bg => objs[k].m_parentProcess = g
    BY <1>1 DEF ObjectsOK, LinkedUp
  <2>3. TopIsKnown /\ h \in Pids \cap bg /\ objs[h].m_parentProcess # None =>
          objs[h].m_parentProcess = parent
    <3>1. objs[h].m_parentProcess # None => MayBeParent(h, objs[h].m_parentProcess, cr, bg)
      BY DEF ObjectsOK, ParentsRight
    <3>. QED  BY <3>1, ProcessTreeAssumption DEF MayBeParent
  <2>4. g # None
    BY <1>1, ProcessTreeAssumption DEF ObjectsTyped
  <2>5. CASE k = h
    BY <1>1, <2>1, <2>2, <2>3, <2>4, <2>5
  <2>6. CASE k # h
    BY <1>1, <2>1, <2>2, <2>6
  <2>. QED  BY <2>5, <2>6
<1>6. ObjectsOK(new, cr, bg)
  BY <1>1, <1>2, <1>3, <1>4, <1>5 DEF ObjectsOK
<1>7. new[h].m_parentProcess = parent
  BY <1>1
<1>8. \A g \in DOMAIN objs : g # h => new[g].m_parentProcess = objs[g].m_parentProcess
  BY <1>1
<1>. QED  BY <1>1, <1>6, <1>7, <1>8 DEF new

(* The process of a handle is found or made.  If it is the second one, it  *)
(* is a child of the first one, which is the top process.                  *)
LEMMA ToObjectPathKeeps ==
  ASSUME NEW cr, NEW bg, NEW objs, ObjectsOK(objs, cr, bg), NEW h \in Handles,
         DOMAIN objs = {} => h = FirstPid,
         DOMAIN objs = {FirstPid} /\ h # FirstPid => MayBeParent(h, FirstPid, cr, bg)
  PROVE  LET new == ToObjectPath(objs, h)
         IN  ObjectsOK(new, cr, bg) /\ DOMAIN new = DOMAIN objs \cup {h} /\ SameParents(objs, new)
<1>. DEFINE created == [g \in DOMAIN objs \cup {h} |-> IF g \in DOMAIN objs THEN objs[g] ELSE NewProcess]
            first   == CHOOSE g \in DOMAIN objs : TRUE
<1>1. CASE h \in DOMAIN objs
  <2>1. created = objs
    BY <1>1 DEF ObjectsOK, ObjectsTyped
  <2>2. ToObjectPath(objs, h) = created
    BY <1>1 DEF ToObjectPath
  <2>3. DOMAIN objs = DOMAIN objs \cup {h}
    BY <1>1
  <2>. HIDE DEF created
  <2>. QED  BY <2>1, <2>2, <2>3 DEF SameParents
<1>2. CASE h \notin DOMAIN objs
  <2>1. /\ DOMAIN created = DOMAIN objs \cup {h}
        /\ \A g \in DOMAIN objs : created[g] = objs[g]
        /\ created[h].m_parentProcess = None /\ created[h].m_subProcesses = {}
    BY <1>2 DEF NewProcess
  <2>2. ObjectsTyped(created)
    BY NewIsObject DEF ObjectsOK, ObjectsTyped
  <2>. HIDE DEF created
  <2>3. TopIsFirst(created)
    BY <2>1, ProcessTreeAssumption DEF ObjectsOK, TopIsFirst
  <2>4. ParentsRight(created, cr, bg)
    BY <2>1 DEF ObjectsOK, ParentsRight
  <2>5. LinkedDown(created)
    BY <1>2, <2>1 DEF ObjectsOK, LinkedDown
  <2>6. LinkedUp(created, bg)
    BY <1>2, <2>1 DEF ObjectsOK, LinkedUp
  <2>7. ObjectsOK(created, cr, bg) /\ SameParents(objs, created)
    BY <2>1, <2>2, <2>3, <2>4, <2>5, <2>6 DEF ObjectsOK, SameParents
  <2>8. CASE DOMAIN objs # {} /\ \A g \in DOMAIN objs : g = first
    <3>1. first \in DOMAIN objs /\ FirstPid \in DOMAIN objs
      BY <2>8 DEF ObjectsOK, TopIsFirst
    <3>2. DOMAIN objs = {FirstPid} /\ first = FirstPid /\ h # FirstPid
      BY <1>2, <2>8, <3>1
    <3>3. MayBeParent(h, first, cr, bg) /\ h # first /\ h \in DOMAIN created /\ first \in DOMAIN created
      BY <2>1, <3>1, <3>2
    <3>4. ToObjectPath(objs, h) = SetParentProcess(created, h, first)
      BY <1>2, <2>8 DEF ToObjectPath, created
    <3>. HIDE DEF first
    <3>5. LET new == SetParentProcess(created, h, first)
          IN  /\ ObjectsOK(new, cr, bg) /\ DOMAIN new = DOMAIN created
              /\ \A g \in DOMAIN created : g # h => new[g].m_parentProcess = created[g].m_parentProcess
      BY <2>7, <3>3, SetParentKeeps
    <3>. QED  BY <1>2, <2>1, <3>4, <3>5 DEF SameParents
  <2>9. CASE ~(DOMAIN objs # {} /\ \A g \in DOMAIN objs : g = first)
    <3>1. ToObjectPath(objs, h) = created
      BY <1>2, <2>9 DEF ToObjectPath, created
    <3>. QED  BY <2>1, <2>7, <3>1
  <2>. QED  BY <2>8, <2>9
<1>. QED  BY <1>1, <1>2

(* Setting a date of an object.                                            *)
LEMMA CreationKeeps ==
  ASSUME NEW cr, NEW bg, NEW objs, ObjectsOK(objs, cr, bg), NEW h \in DOMAIN objs, NEW date \in Nat
  PROVE  LET new == [objs EXCEPT ![h].CreationDate = date]
         IN  ObjectsOK(new, cr, bg) /\ DOMAIN new = DOMAIN objs /\ SameParents(objs, new)
<1>. DEFINE dated == [objs[h] EXCEPT !.CreationDate = date]
            new   == [objs EXCEPT ![h].CreationDate = date]
<1>1. objs[h] \in Objects
  BY DEF ObjectsOK, ObjectsTyped
<1>2. /\ dated \in Objects /\ dated.m_parentProcess = objs[h].m_parentProcess
      /\ dated.m_subProcesses = objs[h].m_subProcesses
  BY <1>1 DEF Objects
<1>3. new = [objs EXCEPT ![h] = dated]
  OBVIOUS
<1>. HIDE DEF dated, new
<1>4. DOMAIN new = DOMAIN objs /\ ObjectsTyped(new)
  BY <1>2, <1>3 DEF ObjectsOK, ObjectsTyped
<1>5. \A g \in DOMAIN objs : /\ new[g].m_parentProcess = objs[g].m_parentProcess
                             /\ new[g].m_subProcesses = objs[g].m_subProcesses
  BY <1>2, <1>3 DEF ObjectsOK, ObjectsTyped
<1>6. ObjectsOK(new, cr, bg)
  BY <1>4, <1>5, SameTree
<1>. QED  BY <1>4, <1>5, <1>6 DEF new, SameParents

LEMMA TerminationKeeps ==
  ASSUME NEW cr, NEW bg, NEW objs, ObjectsOK(objs, cr, bg), NEW h \in DOMAIN objs, NEW date \in Nat
  PROVE  LET new == [objs EXCEPT ![h].TerminationDate = date]
         IN  ObjectsOK(new, cr, bg) /\ DOMAIN new = DOMAIN objs /\ SameParents(objs, new)
<1>. DEFINE dated == [objs[h] EXCEPT !.TerminationDate = date]
            new   == [objs EXCEPT ![h].TerminationDate = date]
<1>1. objs[h] \in Objects
  BY DEF ObjectsOK, ObjectsTyped
<1>2. /\ dated \in Objects /\ dated.m_parentProcess = objs[h].m_parentProcess
      /\ dated.m_subProcesses = objs[h].m_subProcesses
  BY <1>1 DEF Objects
<1>3. new = [objs EXCEPT ![h] = dated]
  OBVIOUS
<1>. HIDE DEF dated, new
<1>4. DOMAIN new = DOMAIN objs /\ ObjectsTyped(new)
  BY <1>2, <1>3 DEF ObjectsOK, ObjectsTyped
<1>5. \A g \in DOMAIN objs : /\ new[g].m_parentProcess = objs[g].m_parentProcess
                             /\ new[g].m_subProcesses = objs[g].m_subProcesses
  BY <1>2, <1>3 DEF ObjectsOK, ObjectsTyped
<1>6. ObjectsOK(new, cr, bg)
  BY <1>4, <1>5, SameTree
<1>. QED  BY <1>4, <1>5, <1>6 DEF new, SameParents

LEMMA GlobalKeeps ==
  ASSUME NEW cr, NEW bg, NEW objs, ObjectsOK(objs, cr, bg), lastTimeStamp \in Nat
  PROVE  LET new == GlobalTerminationDate(objs)
         IN  ObjectsOK(new, cr, bg) /\ DOMAIN new = DOMAIN objs /\ SameParents(objs, new)
<1>. DEFINE new == GlobalTerminationDate(objs)
<1>1. \A g \in DOMAIN objs : /\ new[g] \in Objects
                             /\ new[g].m_parentProcess = objs[g].m_parentProcess
                             /\ new[g].m_subProcesses = objs[g].m_subProcesses
  <2>. SUFFICES ASSUME NEW g \in DOMAIN objs
                PROVE  /\ new[g] \in Objects
                       /\ new[g].m_parentProcess = objs[g].m_parentProcess
                       /\ new[g].m_subProcesses = objs[g].m_subProcesses
    OBVIOUS
  <2>1. objs[g] \in Objects
    BY DEF ObjectsOK, ObjectsTyped
  <2>2. new[g] = [objs[g] EXCEPT !.TerminationDate =
                    IF objs[g].TerminationDate = 0 THEN lastTimeStamp ELSE objs[g].TerminationDate]
    BY DEF GlobalTerminationDate
  <2>. HIDE DEF new
  <2>. QED  BY <2>1, <2>2 DEF Objects
<1>2. DOMAIN new = DOMAIN objs /\ new = [g \in DOMAIN objs |-> new[g]]
  BY DEF GlobalTerminationDate
<1>. HIDE DEF new
<1>3. ObjectsTyped(new)
  BY <1>1, <1>2 DEF ObjectsOK, ObjectsTyped
<1>4. ObjectsOK(new, cr, bg)
  BY <1>1, <1>2, <1>3, SameTree
<1>. QED  BY <1>1, <1>2, <1>4 DEF new, SameParents

LEMMA ParsedByKeeps ==
  ASSUME NEW cr, NEW bg, NEW objs, ObjectsOK(objs, cr, bg), NEW h \in Handles, now \in Nat,
         DOMAIN objs = {} => h = FirstPid,
         DOMAIN objs = {FirstPid} /\ h # FirstPid => MayBeParent(h, FirstPid, cr, bg)
  PROVE  LET new == ParsedBy(objs, h)
         IN  ObjectsOK(new, cr, bg) /\ DOMAIN new = DOMAIN objs \cup {h} /\ SameParents(objs, new)
<1>. DEFINE found == ToObjectPath(objs, h)
            date  == IF found[h].CreationDate = 0 THEN now + 1 ELSE found[h].CreationDate
<1>1. ObjectsOK(found, cr, bg) /\ DOMAIN found = DOMAIN objs \cup {h} /\ SameParents(objs, found)
  BY ToObjectPathKeeps
<1>2. h \in DOMAIN found /\ ParsedBy(objs, h) = [found EXCEPT ![h].CreationDate = date]
  BY <1>1 DEF ParsedBy
<1>. HIDE DEF found
<1>3. date \in Nat
  <2>1. found[h] \in Objects
    BY <1>1, <1>2 DEF ObjectsOK, ObjectsTyped
  <2>. QED  BY <2>1 DEF Objects
<1>. HIDE DEF date
<1>4. LET new == [found EXCEPT ![h].CreationDate = date]
      IN  ObjectsOK(new, cr, bg) /\ DOMAIN new = DOMAIN found /\ SameParents(found, new)
  BY <1>1, <1>2, <1>3, CreationKeeps
<1>. QED  BY <1>1, <1>2, <1>4 DEF SameParents

(* The two methods are called with the process of the line, which exists,  *)
(* and one of its sub-processes.                                           *)
LEMMA AddParentKeeps ==
  ASSUME NEW cr, NEW bg, NEW objs, ObjectsOK(objs, cr, bg),
         NEW h \in Handles, NEW parent \in DOMAIN objs,
         h # parent, now \in Nat, MayBeParent(h, parent, cr, bg),
         DOMAIN objs = {FirstPid} /\ h # FirstPid => MayBeParent(h, FirstPid, cr, bg)
  PROVE  ChildGiven(objs, AddParentProcess(objs, h, parent), h, parent, cr, bg)
<1>. DEFINE found  == ToObjectPath(objs, h)
            linked == SetParentProcess(found, h, parent)
<1>1. ObjectsOK(found, cr, bg) /\ DOMAIN found = DOMAIN objs \cup {h} /\ SameParents(objs, found)
  BY ToObjectPathKeeps
<1>2. AddParentProcess(objs, h, parent) = [linked EXCEPT ![h].CreationDate = now + 1]
  BY DEF AddParentProcess
<1>. HIDE DEF found
<1>3. /\ ObjectsOK(linked, cr, bg) /\ DOMAIN linked = DOMAIN found
      /\ linked[h].m_parentProcess = parent
      /\ \A g \in DOMAIN found : g # h => linked[g].m_parentProcess = found[g].m_parentProcess
  <2>1. h \in DOMAIN found /\ parent \in DOMAIN found
    BY <1>1
  <2>. QED  BY <1>1, <2>1, SetParentKeeps
<1>. HIDE DEF linked
<1>4. h \in DOMAIN linked /\ now + 1 \in Nat
  BY <1>1, <1>3
<1>5. LET new == [linked EXCEPT ![h].CreationDate = now + 1]
      IN  ObjectsOK(new, cr, bg) /\ DOMAIN new = DOMAIN linked /\ SameParents(linked, new)
  BY <1>3, <1>4, CreationKeeps
<1>. QED  BY <1>1, <1>2, <1>3, <1>4, <1>5 DEF SameParents, ChildGiven

LEMMA WaitKeeps ==
  ASSUME NEW cr, NEW bg, NEW objs, ObjectsOK(objs, cr, bg),
         NEW h \in Handles, NEW parent \in DOMAIN objs,
         now \in Nat, h # parent => MayBeParent(h, parent, cr, bg),
         DOMAIN objs = {FirstPid} /\ h # FirstPid => MayBeParent(h, FirstPid, cr, bg)
  PROVE  ChildEnded(objs, WaitProcessEnd(objs, h, parent), h, cr, bg)
<1>. DEFINE found == ToObjectPath(objs, h)
            ended == [found EXCEPT ![h].TerminationDate = now + 1]
            new   == SetParentProcess(ended, h, parent)
<1>1. ObjectsOK(found, cr, bg) /\ DOMAIN found = DOMAIN objs \cup {h} /\ SameParents(objs, found)
  BY ToObjectPathKeeps
<1>2. WaitProcessEnd(objs, h, parent) =
        IF ended[h].m_parentProcess = None /\ h # parent THEN new ELSE ended
  BY DEF WaitProcessEnd
<1>. HIDE DEF found
<1>3. h \in DOMAIN found /\ parent \in DOMAIN found /\ now + 1 \in Nat
  BY <1>1
<1>4. ObjectsOK(ended, cr, bg) /\ DOMAIN ended = DOMAIN found /\ SameParents(found, ended)
  BY <1>1, <1>3, TerminationKeeps
<1>. HIDE DEF ended
<1>5. h # parent =>
        /\ ObjectsOK(new, cr, bg) /\ DOMAIN new = DOMAIN ended
        /\ \A g \in DOMAIN ended : g # h => new[g].m_parentProcess = ended[g].m_parentProcess
  BY <1>3, <1>4, SetParentKeeps
<1>. HIDE DEF new
<1>6. CASE ended[h].m_parentProcess = None /\ h # parent
  BY <1>1, <1>2, <1>3, <1>4, <1>5, <1>6 DEF SameParents, ChildEnded
<1>7. CASE ~(ended[h].m_parentProcess = None /\ h # parent)
  BY <1>1, <1>2, <1>3, <1>4, <1>7 DEF SameParents, ChildEnded
<1>. QED  BY <1>6, <1>7

-----------------------------------------------------------------------------
(* The lines of the log.                                                   *)

Lives == [Pids -> {"new", "running", "exited", "waited"}]

LEMMA NextObjects ==
  ASSUME NEW objs, NEW cr, NEW bg, ObjectsOK(objs, cr, bg),
         G_topProcessId' = G_topProcessId, tracer' = tracer,
         G_mapCacheObjects' = objs, creator' = cr, begun' = bg
  PROVE  ObjectsOK(G_mapCacheObjects, creator, begun)'
BY DEF ObjectsOK, ObjectsTyped, TopIsFirst, ParentsRight, MayBeParent, LinkedDown, LinkedUp,
       FirstPid, TopIsKnown

LEMMA LineFacts ==
  ASSUME IInv, NEW p \in Pids, life[p] = "running"
  PROVE  /\ LinePid(p) \in Handles
         /\ LinePid(p) = p \/ (LinePid(p) = NoPid /\ ~TopIsKnown)
         /\ Known = {} /\ ~held => LinePid(p) = FirstPid
         /\ Known = {FirstPid} /\ LinePid(p) # FirstPid =>
              MayBeParent(LinePid(p), FirstPid, creator, begun)
<1>1. /\ G_topProcessId \in {TopPid, NoPid} /\ tracer \in {"strace", "ltrace"}
      /\ TopPid \in Pids /\ NoPid \notin Pids
  BY ProcessTreeAssumption DEF IInv, TypeOK
<1>2. tracer = "strace" /\ Running = {p} => p = TopPid
  BY <1>1 DEF Running, IInv, ProcessesOK
<1>3. Known = {} /\ ~held => p = TopPid /\ Running = {p}
  <2>. SUFFICES ASSUME Known = {} PROVE \A q \in Pids : life[q] = "running" => q = TopPid
    BY DEF Running
  <2>1. \A q \in Pids : q # TopPid => life[q] = "new"
    BY DEF IInv, ProcessesOK, FirstIsRead
  <2>. QED  BY <2>1
<1>4. LinePid(p) = p \/ (LinePid(p) = NoPid /\ ~TopIsKnown)
  BY <1>1, <1>2 DEF LinePid, TopIsKnown
<1>5. Known = {} /\ ~held => LinePid(p) = FirstPid
  BY <1>1, <1>3 DEF LinePid, FirstPid, TopIsKnown
<1>6. ASSUME Known = {FirstPid}, LinePid(p) # FirstPid
      PROVE  MayBeParent(LinePid(p), FirstPid, creator, begun)
  <2>1. CASE ~TopIsKnown
    <3>1. FirstPid = NoPid /\ LinePid(p) = p
      BY <1>4, <1>6, <2>1 DEF FirstPid
    <3>. QED  BY <1>1, <2>1, <3>1 DEF MayBeParent
  <2>2. CASE TopIsKnown
    <3>1. FirstPid = TopPid /\ LinePid(p) = p
      BY <1>4, <2>2 DEF FirstPid
    <3>2. creator[p] # None
      BY <1>6, <3>1 DEF IInv, ProcessesOK
    <3>3. p \in begun => creator[p] = TopPid
      BY <1>6, <2>2, <3>1, <3>2 DEF IInv, CreatorsKnown
    <3>4. p # TopPid
      BY <1>6, <3>1
    <3>5. TopPid \in Pids \ {p} /\ (TopPid \in {creator[p], NoPid} \/ p \notin begun)
      BY <1>1, <3>3, <3>4
    <3>. QED  BY <3>1, <3>5 DEF MayBeParent
  <2>. QED  BY <2>1, <2>2
<1>. QED  BY <1>4, <1>5, <1>6 DEF Handles

(* ParseLine finds or makes the process of the line.                       *)
LEMMA ParsedFacts ==
  ASSUME IInv, NEW p \in Pids, life[p] = "running", ~held, NEW cr, NEW bg,
         ObjectsOK(G_mapCacheObjects, cr, bg), cr[p] = creator[p], p \in bg => p \in begun
  PROVE  /\ ObjectsOK(Parsed(p), cr, bg)
         /\ DOMAIN Parsed(p) = Known \cup {LinePid(p)}
         /\ SameParents(G_mapCacheObjects, Parsed(p))
<1>1. /\ LinePid(p) \in Handles
      /\ LinePid(p) = p \/ (LinePid(p) = NoPid /\ ~TopIsKnown)
      /\ Known = {} => LinePid(p) = FirstPid
      /\ Known = {FirstPid} /\ LinePid(p) # FirstPid =>
           MayBeParent(LinePid(p), FirstPid, creator, begun)
  BY LineFacts
<1>2. Known = {FirstPid} /\ LinePid(p) # FirstPid => MayBeParent(LinePid(p), FirstPid, cr, bg)
  BY <1>1, ProcessTreeAssumption DEF MayBeParent
<1>3. now \in Nat
  BY DEF IInv, TypeOK
<1>4. /\ DOMAIN G_mapCacheObjects = {} => LinePid(p) = FirstPid
      /\ DOMAIN G_mapCacheObjects = {FirstPid} /\ LinePid(p) # FirstPid =>
           MayBeParent(LinePid(p), FirstPid, cr, bg)
  BY <1>1, <1>2 DEF Known
<1>5. LET new == ParsedBy(G_mapCacheObjects, LinePid(p))
      IN  /\ ObjectsOK(new, cr, bg) /\ DOMAIN new = DOMAIN G_mapCacheObjects \cup {LinePid(p)}
          /\ SameParents(G_mapCacheObjects, new)
  BY <1>1, <1>3, <1>4, ParsedByKeeps
<1>. QED  BY <1>5 DEF Parsed, Known

(* The process created by p may be linked to the process of p's line.      *)
LEMMA ChildFacts ==
  ASSUME IInv, NEW p \in Pids, life[p] = "running", ~held, NEW cr, NEW bg,
         ObjectsOK(G_mapCacheObjects, cr, bg), cr[p] = creator[p], p \in bg => p \in begun,
         NEW q \in Pids, q # p, cr[q] = p
  PROVE  /\ ObjectsOK(Parsed(p), cr, bg) /\ LinePid(p) \in DOMAIN Parsed(p)
         /\ q \in Handles /\ q # LinePid(p) /\ now \in Nat
         /\ MayBeParent(q, LinePid(p), cr, bg)
         /\ DOMAIN Parsed(p) = {FirstPid} /\ q # FirstPid => MayBeParent(q, FirstPid, cr, bg)
<1>1. ObjectsOK(Parsed(p), cr, bg) /\ LinePid(p) \in DOMAIN Parsed(p)
  BY ParsedFacts
<1>2. LinePid(p) = p \/ (LinePid(p) = NoPid /\ ~TopIsKnown)
  BY LineFacts
<1>3. MayBeParent(q, LinePid(p), cr, bg) /\ q # LinePid(p) /\ q \in Handles
  BY <1>2, ProcessTreeAssumption DEF MayBeParent, Handles
<1>4. now \in Nat
  BY DEF IInv, TypeOK
<1>5. DOMAIN Parsed(p) = {FirstPid} => LinePid(p) = FirstPid
  BY <1>1
<1>. QED  BY <1>1, <1>3, <1>4, <1>5

(* So may the process that a call which fails is taken to return.          *)
LEMMA ErrorFacts ==
  ASSUME IInv, NEW p \in Pids, life[p] = "running", NEW h \in {NoPid, ErrorPid}, NEW objs
  PROVE  /\ h \in Handles
         /\ h # LinePid(p) => MayBeParent(h, LinePid(p), creator, begun)
         /\ DOMAIN objs = {FirstPid} /\ h # FirstPid => MayBeParent(h, FirstPid, creator, begun)
<1>1. LinePid(p) = p \/ (LinePid(p) = NoPid /\ ~TopIsKnown)
  BY LineFacts
<1>. QED  BY <1>1, ProcessTreeAssumption DEF MayBeParent, Handles, FirstPid

-----------------------------------------------------------------------------
(* The invariant at the start, and after each action.                      *)

LEMMA InitIInv == Init => IInv
<1>. SUFFICES ASSUME Init PROVE IInv
  OBVIOUS
<1>1. Known = {} /\ told = {} /\ begun = {TopPid}
  BY DEF Init, Known
<1>2. TypeOK
  BY <1>1, ProcessTreeAssumption DEF Init, TypeOK
<1>3. ObjectsOK(G_mapCacheObjects, creator, begun)
  BY <1>1, ProcessTreeAssumption
     DEF ObjectsOK, ObjectsTyped, TopIsFirst, ParentsRight, LinkedDown, LinkedUp, Init, Known
<1>4. ProcessesOK
  BY <1>1, ProcessTreeAssumption DEF Init, ProcessesOK
<1>5. FirstIsRead
  BY DEF Init, FirstIsRead
<1>6. CreatorsAcyclic(creator)
  BY ProcessTreeAssumption DEF Init, CreatorsAcyclic, Handles
<1>7. CreatorsKnown
  BY <1>1, ProcessTreeAssumption DEF Init, CreatorsKnown
<1>. QED  BY <1>2, <1>3, <1>4, <1>5, <1>6, <1>7 DEF IInv

(* A line of p, whose handling leads to objs.                              *)
LEMMA LogFacts ==
  ASSUME IInv, NEW p \in Pids, NEW objs, LogCall(p, objs),
         ~held => ObjectsOK(objs, creator', begun'),
         held => ObjectsOK(G_mapCacheObjects, creator', begun')
  PROVE  /\ ObjectsOK(G_mapCacheObjects, creator, begun)'
         /\ UNCHANGED <<G_topProcessId, tracer>> /\ held' = FALSE
         /\ G_topProcessId' \in {TopPid, NoPid} /\ tracer' \in {"strace", "ltrace"}
         /\ G_mapCacheObjects' = IF held THEN G_mapCacheObjects ELSE objs
         /\ Known' = IF held THEN Known ELSE DOMAIN objs
         /\ Known' \subseteq Handles /\ G_mapCacheObjects' \in [Known' -> Objects]
         /\ lastTimeStamp' \in Nat /\ now' \in Nat
         /\ calls' \in [Pids -> [first : Nat, last : Nat]]
<1>1. /\ UNCHANGED <<G_topProcessId, tracer>> /\ held' = FALSE
      /\ G_mapCacheObjects' = IF held THEN G_mapCacheObjects ELSE objs
      /\ Known' = IF held THEN Known ELSE DOMAIN objs
  BY DEF LogCall, Known
<1>2. ObjectsOK(G_mapCacheObjects, creator, begun)'
  BY <1>1, NextObjects
<1>3. Known' \subseteq Handles /\ G_mapCacheObjects' \in [Known' -> Objects]
  BY <1>2 DEF ObjectsOK, ObjectsTyped, Known
<1>4. /\ lastTimeStamp' \in Nat /\ now' \in Nat
      /\ calls' \in [Pids -> [first : Nat, last : Nat]]
  <2>. DEFINE opened == [calls[p] EXCEPT !.first = IF @ = 0 THEN now + 1 ELSE @]
              made   == [opened EXCEPT !.last = now + 1]
  <2>1. /\ now \in Nat /\ now + 1 \in Nat /\ lastTimeStamp \in Nat
        /\ calls \in [Pids -> [first : Nat, last : Nat]]
    BY DEF IInv, TypeOK
  <2>2. opened \in [first : Nat, last : Nat]
    BY <2>1
  <2>3. calls' = IF held THEN calls ELSE [calls EXCEPT ![p] = made]
    BY <2>1 DEF LogCall
  <2>. HIDE DEF opened
  <2>4. made \in [first : Nat, last : Nat]
    BY <2>1, <2>2
  <2>. HIDE DEF made
  <2>5. now' = now + 1 /\ lastTimeStamp' \in {lastTimeStamp, now + 1}
    BY DEF LogCall
  <2>. QED  BY <2>1, <2>3, <2>4, <2>5
<1>5. G_topProcessId' \in {TopPid, NoPid} /\ tracer' \in {"strace", "ltrace"}
  BY <1>1 DEF IInv, TypeOK
<1>. QED  BY <1>1, <1>2, <1>3, <1>4, <1>5

(* A line adds objects, of processes that are not new, and gives parents   *)
(* to processes that had none.                                             *)
LineAdds(objs) ==
  /\ ObjectsOK(objs, creator, begun)
  /\ Known \subseteq DOMAIN objs
  /\ \A g \in Known \cap Pids : objs[g].m_parentProcess = Parent(g) \/ Parent(g) = None
  /\ \A q \in Pids : q \in DOMAIN objs => q \in Known \/ life[q] # "new"

LEMMA LineKeeps ==
  ASSUME IInv, NEW p \in Pids, NEW objs, LogCall(p, objs), ~held => LineAdds(objs),
         analysis' \in {"reading", "done", "raised"}, life' \in Lives, stopped' \subseteq Pids,
         \A r \in Pids : /\ life'[r] = "running" <=> life[r] = "running"
                         /\ life'[r] = "new" <=> life[r] = "new",
         UNCHANGED <<unfinished, creator, pending, begun, told>>
  PROVE  IInv'
<1>1. /\ ObjectsOK(G_mapCacheObjects, creator, begun)'
      /\ UNCHANGED <<G_topProcessId, tracer>> /\ held' = FALSE
      /\ G_topProcessId' \in {TopPid, NoPid} /\ tracer' \in {"strace", "ltrace"}
      /\ G_mapCacheObjects' = IF held THEN G_mapCacheObjects ELSE objs
      /\ Known' = IF held THEN Known ELSE DOMAIN objs
      /\ Known' \subseteq Handles /\ G_mapCacheObjects' \in [Known' -> Objects]
      /\ lastTimeStamp' \in Nat /\ now' \in Nat
      /\ calls' \in [Pids -> [first : Nat, last : Nat]]
  <2>1. ObjectsOK(G_mapCacheObjects, creator, begun)
    BY DEF IInv
  <2>2. /\ ~held => ObjectsOK(objs, creator', begun')
        /\ held => ObjectsOK(G_mapCacheObjects, creator', begun')
    BY <2>1 DEF LineAdds
  <2>. QED  BY <2>2, LogFacts
<1>2. /\ Known \subseteq Known'
      /\ \A g \in Known \cap Pids : Parent(g)' = Parent(g) \/ Parent(g) = None
      /\ \A q \in Pids : q \in Known' => q \in Known \/ life[q] # "new"
  BY <1>1 DEF LineAdds, Parent
<1>3. TypeOK'
  BY <1>1 DEF IInv, TypeOK, Lives
<1>4. ProcessesOK'
  BY <1>1, <1>2, ProcessTreeAssumption DEF IInv, ProcessesOK, TypeOK, PendingCalls
<1>5. FirstIsRead'
  BY <1>1, <1>2 DEF IInv, FirstIsRead
<1>6. CreatorsAcyclic(creator)'
  BY DEF IInv, CreatorsAcyclic
<1>7. CreatorsKnown'
  <2>1. TopIsKnown' <=> TopIsKnown
    BY <1>1 DEF TopIsKnown
  <2>. SUFFICES ASSUME TopIsKnown
                PROVE  /\ \A q \in begun : creator[q] # None => creator[q] \in Known'
                       /\ \A q \in told : /\ q \in Known' /\ Parent(q)' = creator[q]
                                          /\ creator[q] # None
                       /\ \A r \in Pids :
                            pending[r] # None /\ pending[r].call = "clone"
                              /\ pending[r].child \in begun => unfinished[r] # 0
    BY <2>1 DEF CreatorsKnown
  <2>2. /\ \A q \in begun : creator[q] # None => creator[q] \in Known
        /\ \A q \in told : q \in Known /\ Parent(q) = creator[q] /\ creator[q] # None
    BY DEF IInv, CreatorsKnown
  <2>3. \A q \in told : q \in Known' /\ Parent(q)' = creator[q] /\ creator[q] # None
    BY <1>2, <2>2 DEF IInv, TypeOK
  <2>4. \A r \in Pids :
          pending[r] # None /\ pending[r].call = "clone" /\ pending[r].child \in begun =>
            unfinished[r] # 0
    BY DEF IInv, CreatorsKnown
  <2>. QED  BY <1>2, <2>2, <2>3, <2>4
<1>. QED  BY <1>1, <1>3, <1>4, <1>5, <1>6, <1>7 DEF IInv

LEMMA ParsedAdds ==
  ASSUME IInv, NEW p \in Pids, life[p] = "running", ~held
  PROVE  LineAdds(Parsed(p))
<1>1. /\ ObjectsOK(Parsed(p), creator, begun)
      /\ DOMAIN Parsed(p) = Known \cup {LinePid(p)}
      /\ SameParents(G_mapCacheObjects, Parsed(p))
  BY ParsedFacts DEF IInv
<1>2. LinePid(p) = p \/ LinePid(p) = NoPid
  BY LineFacts
<1>3. NoPid \notin Pids
  BY ProcessTreeAssumption
<1>4. \A g \in Known : Parsed(p)[g].m_parentProcess = Parent(g)
  BY <1>1 DEF SameParents, Parent, Known
<1>. QED  BY <1>1, <1>2, <1>3, <1>4 DEF LineAdds

LEMMA ParsedIsOf ==
  ASSUME IInv, NEW p \in Pids, life[p] = "running", ~held
  PROVE  LinePid(p) \in DOMAIN Parsed(p)
BY ParsedFacts DEF IInv

(* A process, which is not new, is waited for, or created, in this line.   *)
LEMMA EndedAdds ==
  ASSUME IInv, NEW objs, LineAdds(objs), NEW h, h \in Pids => life[h] # "new",
         NEW new, ChildEnded(objs, new, h, creator, begun)
  PROVE  LineAdds(new)
BY DEF LineAdds, ChildEnded

LEMMA OtherCallKeeps == ASSUME IInv, NEW p \in Pids, OtherCall(p) PROVE IInv'
<1>1. /\ life[p] = "running" /\ LogCall(p, Parsed(p))
      /\ UNCHANGED <<unfinished, analysis, life, creator, pending, begun, told, stopped>>
  BY DEF OtherCall, LogCall
<1>2. /\ analysis' \in {"reading", "done", "raised"} /\ life' \in Lives
      /\ stopped' \subseteq Pids
  BY <1>1 DEF IInv, TypeOK, Lives
<1>. QED  BY <1>1, <1>2, ParsedAdds, LineKeeps

LEMMA CloneFailsKeeps == ASSUME IInv, NEW p \in Pids, CloneFails(p) PROVE IInv'
<1>. DEFINE parsed == Parsed(p)
            given  == AddParentProcess(parsed, ErrorPid, LinePid(p))
            objs   == IF tracer = "strace" THEN parsed ELSE given
<1>1. /\ life[p] = "running" /\ LogCall(p, objs) /\ analysis' \in {analysis, "raised"}
      /\ UNCHANGED <<unfinished, life, creator, pending, begun, told, stopped>>
  BY DEF CloneFails, LogCall
<1>2. /\ analysis' \in {"reading", "done", "raised"} /\ life' \in Lives
      /\ stopped' \subseteq Pids
  BY <1>1 DEF IInv, TypeOK, Lives
<1>3. ASSUME ~held
      PROVE  LineAdds(objs)
  <2>1. LineAdds(parsed)
    BY <1>1, <1>3, ParsedAdds
  <2>2. LinePid(p) \in DOMAIN parsed /\ LinePid(p) # ErrorPid /\ now \in Nat
    <3>1. LinePid(p) \in DOMAIN parsed
      BY <1>1, <1>3, ParsedIsOf
    <3>2. LinePid(p) \in Pids \cup {NoPid}
      BY <1>1, LineFacts
    <3>. QED  BY <3>1, <3>2, ProcessTreeAssumption DEF IInv, TypeOK
  <2>. HIDE DEF parsed
  <2>3. /\ ErrorPid \in Handles /\ MayBeParent(ErrorPid, LinePid(p), creator, begun)
        /\ DOMAIN parsed = {FirstPid} /\ ErrorPid # FirstPid =>
             MayBeParent(ErrorPid, FirstPid, creator, begun)
    BY <1>1, <2>2, ErrorFacts
  <2>4. ObjectsOK(parsed, creator, begun)
    BY <2>1 DEF LineAdds
  <2>5. ChildGiven(parsed, given, ErrorPid, LinePid(p), creator, begun)
    BY <2>2, <2>3, <2>4, AddParentKeeps
  <2>6. ASSUME tracer # "strace"
        PROVE  LineAdds(given)
    <3>1. ErrorPid \notin Pids /\ Known \subseteq Handles
      BY ProcessTreeAssumption DEF IInv, TypeOK
    <3>. QED  BY <2>1, <2>5, <3>1 DEF LineAdds, ChildGiven
  <2>. QED  BY <2>1, <2>6
<1>. HIDE DEF objs
<1>. QED  BY <1>1, <1>2, <1>3, LineKeeps

(* Nobody is its own creator.                                              *)
LEMMA ChildIsOther ==
  ASSUME IInv, NEW p \in Pids, NEW q \in Pids, creator[q] = p
  PROVE  q # p
<1>1. \E r \in {p} : creator[r] \notin {p}
  BY DEF IInv, CreatorsAcyclic
<1>. QED  BY <1>1

LEMMA WaitKeepsIInv == ASSUME IInv, NEW p \in Pids, NEW q \in Pids, Wait(p, q) PROVE IInv'
<1>. DEFINE parsed == Parsed(p)
            objs   == WaitProcessEnd(parsed, q, LinePid(p))
<1>1. /\ life[p] = "running" /\ creator[q] = p /\ LogCall(p, objs)
      /\ UNCHANGED <<unfinished, analysis, creator, pending, begun, told>>
  BY DEF Wait, LogCall
<1>2. life[q] # "new"
  BY DEF Wait
<1>3. ASSUME ~held
      PROVE  LineAdds(objs)
  <2>1. LineAdds(parsed)
    BY <1>1, <1>3, ParsedAdds
  <2>2. /\ LinePid(p) \in DOMAIN parsed
        /\ q \in Handles /\ q # LinePid(p) /\ now \in Nat
        /\ MayBeParent(q, LinePid(p), creator, begun)
        /\ DOMAIN parsed = {FirstPid} /\ q # FirstPid => MayBeParent(q, FirstPid, creator, begun)
    <3>1. ObjectsOK(G_mapCacheObjects, creator, begun) /\ q # p
      BY <1>1, ChildIsOther DEF IInv
    <3>. QED  BY <1>1, <1>3, <3>1, ChildFacts
  <2>. HIDE DEF parsed
  <2>3. ObjectsOK(parsed, creator, begun)
    BY <2>1 DEF LineAdds
  <2>4. ChildEnded(parsed, objs, q, creator, begun)
    BY <2>2, <2>3, WaitKeeps
  <2>. HIDE DEF objs
  <2>. QED  BY <1>2, <2>1, <2>4, EndedAdds
<1>. HIDE DEF objs
<1>4. analysis' \in {"reading", "done", "raised"}
  BY <1>1 DEF IInv, TypeOK
<1>5. /\ life' \in Lives /\ stopped' \subseteq Pids
      /\ \A r \in Pids : /\ life'[r] = "running" <=> life[r] = "running"
                         /\ life'[r] = "new" <=> life[r] = "new"
  <2>1. life \in Lives /\ stopped \subseteq Pids
    BY DEF IInv, TypeOK, Lives
  <2>2. (life[q] = "exited" /\ life' = [life EXCEPT ![q] = "waited"]) \/ life' = life
    BY DEF Wait
  <2>3. stopped' \subseteq Pids
    BY <2>1 DEF Wait
  <2>. QED  BY <2>1, <2>2, <2>3 DEF Lives
<1>. QED  BY <1>1, <1>3, <1>4, <1>5, LineKeeps

LEMMA WaitFailsKeeps == ASSUME IInv, NEW p \in Pids, WaitFails(p) PROVE IInv'
<1>. DEFINE parsed == Parsed(p)
            handle == IF tracer = "strace" THEN NoPid ELSE ErrorPid
            objs   == WaitProcessEnd(parsed, handle, LinePid(p))
<1>1. /\ life[p] = "running" /\ LogCall(p, objs) /\ analysis' \in {analysis, "raised"}
      /\ UNCHANGED <<unfinished, life, creator, pending, begun, told, stopped>>
  BY DEF WaitFails, LogCall
<1>2. /\ analysis' \in {"reading", "done", "raised"} /\ life' \in Lives
      /\ stopped' \subseteq Pids
  BY <1>1 DEF IInv, TypeOK, Lives
<1>3. ASSUME ~held
      PROVE  LineAdds(objs)
  <2>1. LineAdds(parsed) /\ LinePid(p) \in DOMAIN parsed /\ now \in Nat
    BY <1>1, <1>3, ParsedAdds, ParsedIsOf DEF IInv, TypeOK
  <2>2. handle \in {NoPid, ErrorPid} /\ handle \notin Pids
    BY ProcessTreeAssumption
  <2>. HIDE DEF parsed, handle
  <2>3. /\ handle \in Handles
        /\ handle # LinePid(p) => MayBeParent(handle, LinePid(p), creator, begun)
        /\ DOMAIN parsed = {FirstPid} /\ handle # FirstPid =>
             MayBeParent(handle, FirstPid, creator, begun)
    BY <1>1, <2>2, ErrorFacts
  <2>4. ObjectsOK(parsed, creator, begun)
    BY <2>1 DEF LineAdds
  <2>5. ChildEnded(parsed, objs, handle, creator, begun)
    BY <2>1, <2>3, <2>4, WaitKeeps
  <2>. HIDE DEF objs
  <2>. QED  BY <2>1, <2>2, <2>5, EndedAdds
<1>. HIDE DEF objs
<1>. QED  BY <1>1, <1>2, <1>3, LineKeeps

LEMMA SignalKeeps == ASSUME IInv, NEW p \in Pids, Signal(p) PROVE IInv'
<1>1. /\ held' = FALSE
      /\ UNCHANGED <<G_topProcessId, G_mapCacheObjects, tracer, unfinished, lastTimeStamp, analysis,
                     now, life, creator, pending, begun, told, stopped, calls>>
  BY DEF Signal, historyVars
<1>2. Known' = Known /\ (TopIsKnown' <=> TopIsKnown) /\ \A h \in Known : Parent(h)' = Parent(h)
  BY <1>1 DEF Known, TopIsKnown, Parent
<1>3. TypeOK'
  BY <1>1, <1>2 DEF IInv, TypeOK
<1>4. ObjectsOK(G_mapCacheObjects, creator, begun)'
  BY <1>1, NextObjects DEF IInv
<1>5. ProcessesOK' /\ FirstIsRead'
  BY <1>1, <1>2 DEF IInv, ProcessesOK, FirstIsRead
<1>6. CreatorsAcyclic(creator)'
  BY <1>1 DEF IInv, CreatorsAcyclic
<1>7. CreatorsKnown'
  BY <1>1, <1>2 DEF IInv, CreatorsKnown
<1>. QED  BY <1>3, <1>4, <1>5, <1>6, <1>7 DEF IInv

(* A process that exits has no call left.                                  *)
LEMMA ExitKeeps == ASSUME IInv, NEW p \in Pids, Exit(p) PROVE IInv'
<1>1. /\ life[p] = "running" /\ life' = [life EXCEPT ![p] = "exited"]
      /\ pending' = [pending EXCEPT ![p] = None]
      /\ held' \in BOOLEAN
      /\ tracer = "strace" /\ p = TopPid => Running = {p}
      /\ UNCHANGED <<G_topProcessId, G_mapCacheObjects, tracer, unfinished, lastTimeStamp, analysis,
                     now, creator, begun, told, stopped, calls>>
  BY DEF Exit, historyVars, IInv, TypeOK
<1>2. Known' = Known /\ (TopIsKnown' <=> TopIsKnown) /\ \A h \in Known : Parent(h)' = Parent(h)
  BY <1>1 DEF Known, TopIsKnown, Parent
<1>3. TypeOK'
  BY <1>1, <1>2 DEF IInv, TypeOK
<1>4. ObjectsOK(G_mapCacheObjects, creator, begun)'
  BY <1>1, NextObjects DEF IInv
<1>5. /\ \A r \in Pids : life'[r] = IF r = p THEN "exited" ELSE life[r]
      /\ \A r \in Pids : pending'[r] = IF r = p THEN None ELSE pending[r]
      /\ TopPid \in Pids
  BY <1>1, ProcessTreeAssumption DEF IInv, TypeOK
<1>6. ProcessesOK'
  <2>1. tracer = "strace" => \A r \in Pids : life[r] = "running" /\ r # p => p # TopPid
    BY <1>1 DEF Running
  <2>2. /\ tracer = "strace" => \A r \in Pids : life'[r] = "running" => life'[TopPid] = "running"
        /\ life'[TopPid] # "new"
        /\ \A r \in Pids : life'[r] = "new" <=> life[r] = "new"
    BY <1>1, <1>5, <2>1 DEF IInv, ProcessesOK
  <2>3. \A r \in Pids : pending'[r] # None => creator[pending'[r].child] = r /\ life'[r] = "running"
    BY <1>5 DEF IInv, ProcessesOK
  <2>4. /\ creator[TopPid] = None
        /\ \A r \in Pids : r # TopPid => (life[r] = "new" <=> creator[r] = None)
        /\ \A r \in Pids : creator[r] # None => creator[r] \in Pids /\ life[creator[r]] # "new"
        /\ \A r \in Pids : life[r] = "new" => r \notin Known /\ r \notin begun
    BY DEF IInv, ProcessesOK
  <2>. QED  BY <1>1, <1>2, <2>2, <2>3, <2>4 DEF ProcessesOK
<1>7. FirstIsRead'
  <2>. SUFFICES ASSUME Known = {}
                PROVE  (\A q \in Pids : creator[q] = None) /\ life'[TopPid] # "running"
    BY <1>1, <1>2 DEF FirstIsRead
  <2>1. \A q \in Pids : creator[q] = None
    BY DEF IInv, FirstIsRead
  <2>2. p = TopPid
    BY <1>1, <2>1 DEF IInv, ProcessesOK
  <2>. QED  BY <1>5, <2>1, <2>2
<1>8. CreatorsAcyclic(creator)'
  BY <1>1 DEF IInv, CreatorsAcyclic
<1>9. CreatorsKnown'
  BY <1>1, <1>2, <1>5 DEF IInv, TypeOK, CreatorsKnown
<1>. QED  BY <1>3, <1>4, <1>6, <1>7, <1>8, <1>9 DEF IInv

LEMMA EndOfLogKeeps == ASSUME IInv, EndOfLog PROVE IInv'
<1>. DEFINE objs == IF lastTimeStamp = 0 THEN G_mapCacheObjects
                    ELSE GlobalTerminationDate(G_mapCacheObjects)
<1>1. /\ analysis' = "done" /\ G_mapCacheObjects' = objs
      /\ UNCHANGED <<G_topProcessId, tracer, held, unfinished, lastTimeStamp,
                     now, life, creator, pending, begun, told, stopped, calls>>
  BY DEF EndOfLog, historyVars
<1>2. ObjectsOK(objs, creator, begun) /\ DOMAIN objs = Known
      /\ \A g \in Known : objs[g].m_parentProcess = Parent(g)
  <2>1. ObjectsOK(G_mapCacheObjects, creator, begun) /\ lastTimeStamp \in Nat
    BY DEF IInv, TypeOK
  <2>2. LET new == GlobalTerminationDate(G_mapCacheObjects)
        IN  /\ ObjectsOK(new, creator, begun) /\ DOMAIN new = Known
            /\ SameParents(G_mapCacheObjects, new)
    BY <2>1, GlobalKeeps DEF Known
  <2>. QED  BY <2>1, <2>2 DEF SameParents, Known, Parent
<1>. HIDE DEF objs
<1>3. ObjectsOK(G_mapCacheObjects, creator, begun)'
  BY <1>1, <1>2, NextObjects
<1>4. Known' = Known /\ (TopIsKnown' <=> TopIsKnown) /\ \A g \in Known : Parent(g)' = Parent(g)
  BY <1>1, <1>2 DEF Known, TopIsKnown, Parent
<1>5. TypeOK'
  <2>1. Known' \subseteq Handles /\ G_mapCacheObjects' \in [Known' -> Objects]
    BY <1>1, <1>2 DEF ObjectsOK, ObjectsTyped, Known
  <2>. QED  BY <1>1, <2>1 DEF IInv, TypeOK
<1>6. ProcessesOK' /\ FirstIsRead'
  BY <1>1, <1>4 DEF IInv, ProcessesOK, FirstIsRead
<1>7. CreatorsAcyclic(creator)'
  BY <1>1 DEF IInv, CreatorsAcyclic
<1>8. CreatorsKnown'
  BY <1>1, <1>4 DEF IInv, CreatorsKnown
<1>. QED  BY <1>3, <1>5, <1>6, <1>7, <1>8 DEF IInv

(* The second half of the call that creates a process.                     *)
LEMMA CloneEndKeeps == ASSUME IInv, NEW p \in Pids, CloneEnd(p) PROVE IInv'
<1>1. /\ pending[p] # None /\ life[p] = "running"
      /\ pending' = [pending EXCEPT ![p] = None] /\ UNCHANGED <<analysis, life, creator, begun, stopped>>
  BY DEF CloneEnd, LogCall
<1>2. PICK q \in Pids : q = pending[p].child /\ creator[q] = p /\ q # p
  <2>1. pending[p] \in PendingCalls
    BY <1>1 DEF IInv, TypeOK
  <2>2. pending[p].child \in Pids
    BY <2>1 DEF PendingCalls
  <2>3. creator[pending[p].child] = p
    BY <1>1 DEF IInv, ProcessesOK
  <2>. QED  BY <2>2, <2>3, ChildIsOther
<1>. DEFINE isVfork == pending[p].call = "vfork"
            found   == ~isVfork /\ unfinished[LinePid(p)] > 0
            parsed  == Parsed(p)
            linked  == AddParentProcess(parsed, q, LinePid(p))
            objs    == IF isVfork \/ found THEN linked ELSE parsed
<1>3. /\ LogCall(p, objs)
      /\ unfinished' = IF found /\ ~held THEN [unfinished EXCEPT ![LinePid(p)] = @ - 1] ELSE unfinished
      /\ told' = IF ~held /\ (isVfork \/ q \in begun) THEN told \cup {q} ELSE told
  BY <1>2 DEF CloneEnd
<1>4. /\ LinePid(p) \in Handles /\ (TopIsKnown => LinePid(p) = p)
      /\ unfinished \in [Handles -> Nat]
  BY <1>1, LineFacts DEF IInv, TypeOK
<1>5. /\ unfinished' \in [Handles -> Nat]
      /\ \A h \in Handles : h # LinePid(p) => unfinished'[h] = unfinished[h]
  BY <1>3, <1>4
<1>6. \A r \in Pids : pending'[r] = IF r = p THEN None ELSE pending[r]
  BY <1>1 DEF IInv, TypeOK
<1>7. TopIsKnown /\ (isVfork \/ q \in begun) => isVfork \/ found
  <2>1. pending[p] \in PendingCalls
    BY <1>1 DEF IInv, TypeOK
  <2>2. ~isVfork => pending[p].call = "clone"
    BY <2>1 DEF PendingCalls
  <2>3. TopIsKnown /\ pending[p].call = "clone" /\ q \in begun => unfinished[p] # 0
    BY <1>1, <1>2 DEF IInv, CreatorsKnown
  <2>. QED  BY <1>4, <2>2, <2>3 DEF Handles
<1>. HIDE DEF isVfork
<1>8. ASSUME ~held
      PROVE  /\ LineAdds(parsed)
             /\ \A g \in Known : parsed[g].m_parentProcess = Parent(g)
             /\ ChildGiven(parsed, linked, q, LinePid(p), creator, begun)
  <2>1. LineAdds(parsed)
    BY <1>1, <1>8, ParsedAdds
  <2>2. \A g \in Known : parsed[g].m_parentProcess = Parent(g)
    BY <1>1, <1>8, ParsedFacts DEF IInv, SameParents, Known, Parent
  <2>3. /\ LinePid(p) \in DOMAIN parsed
        /\ q \in Handles /\ q # LinePid(p) /\ now \in Nat
        /\ MayBeParent(q, LinePid(p), creator, begun)
        /\ DOMAIN parsed = {FirstPid} /\ q # FirstPid => MayBeParent(q, FirstPid, creator, begun)
    <3>1. ObjectsOK(G_mapCacheObjects, creator, begun)
      BY DEF IInv
    <3>. QED  BY <1>1, <1>2, <1>8, <3>1, ChildFacts
  <2>. HIDE DEF parsed
  <2>4. ObjectsOK(parsed, creator, begun)
    BY <2>1 DEF LineAdds
  <2>5. ChildGiven(parsed, linked, q, LinePid(p), creator, begun)
    BY <2>3, <2>4, AddParentKeeps
  <2>. QED  BY <2>1, <2>2, <2>5
<1>. HIDE DEF parsed, linked, found
<1>9. ASSUME ~held
      PROVE  /\ ObjectsOK(objs, creator, begun) /\ Known \subseteq DOMAIN objs
             /\ \A g \in Known : g # q => objs[g].m_parentProcess = Parent(g)
             /\ isVfork \/ found => q \in DOMAIN objs /\ objs[q].m_parentProcess = LinePid(p)
             /\ ~(isVfork \/ found) /\ q \in Known => objs[q].m_parentProcess = Parent(q)
             /\ \A r \in Pids : r \in DOMAIN objs => r \in Known \/ life[r] # "new"
  <2>1. CASE isVfork \/ found
    <3>1. life[q] # "new"
      BY <1>2, ProcessTreeAssumption DEF IInv, ProcessesOK, Handles
    <3>2. objs = linked
      BY <2>1
    <3>. HIDE DEF objs
    <3>. QED  BY <1>8, <1>9, <2>1, <3>1, <3>2 DEF ChildGiven, LineAdds
  <2>2. CASE ~(isVfork \/ found)
    <3>1. objs = parsed
      BY <2>2
    <3>. HIDE DEF objs
    <3>. QED  BY <1>8, <1>9, <2>2, <3>1 DEF LineAdds
  <2>. QED  BY <2>1, <2>2
<1>. HIDE DEF objs
<1>10. /\ ObjectsOK(G_mapCacheObjects, creator, begun)'
       /\ UNCHANGED <<G_topProcessId, tracer>> /\ held' = FALSE
       /\ G_topProcessId' \in {TopPid, NoPid} /\ tracer' \in {"strace", "ltrace"}
       /\ G_mapCacheObjects' = IF held THEN G_mapCacheObjects ELSE objs
       /\ Known' = IF held THEN Known ELSE DOMAIN objs
       /\ Known' \subseteq Handles /\ G_mapCacheObjects' \in [Known' -> Objects]
       /\ lastTimeStamp' \in Nat /\ now' \in Nat
       /\ calls' \in [Pids -> [first : Nat, last : Nat]]
  <2>1. /\ ~held => ObjectsOK(objs, creator', begun')
        /\ held => ObjectsOK(G_mapCacheObjects, creator', begun')
    BY <1>1, <1>9 DEF IInv
  <2>. QED  BY <1>3, <2>1, LogFacts
<1>11. /\ Known \subseteq Known'
       /\ \A g \in Known : g # q => Parent(g)' = Parent(g)
       /\ \A r \in Pids : r \in Known' => r \in Known \/ life[r] # "new"
       /\ TopIsKnown' <=> TopIsKnown
  BY <1>9, <1>10 DEF Parent, TopIsKnown
<1>12. TypeOK'
  <2>1. pending' \in [Pids -> PendingCalls \cup {None}] /\ told' \subseteq Pids
    BY <1>1, <1>3 DEF IInv, TypeOK
  <2>. QED  BY <1>1, <1>5, <1>10, <2>1 DEF IInv, TypeOK
<1>13. ProcessesOK'
  <2>1. \A r \in Pids : pending'[r] # None => creator[pending'[r].child] = r /\ life[r] = "running"
    BY <1>6 DEF IInv, ProcessesOK
  <2>. QED  BY <1>1, <1>10, <1>11, <2>1 DEF IInv, ProcessesOK
<1>14. FirstIsRead'
  BY <1>1, <1>10, <1>11 DEF IInv, FirstIsRead
<1>15. CreatorsAcyclic(creator)'
  BY <1>1 DEF IInv, CreatorsAcyclic
<1>16. CreatorsKnown'
  <2>. SUFFICES ASSUME TopIsKnown
                PROVE  /\ \A r \in begun : creator[r] # None => creator[r] \in Known'
                       /\ \A r \in told' : /\ r \in Known' /\ Parent(r)' = creator[r]
                                           /\ creator[r] # None
                       /\ \A r \in Pids :
                            pending'[r] # None /\ pending'[r].call = "clone"
                              /\ pending'[r].child \in begun => unfinished'[r] # 0
    BY <1>1, <1>11 DEF CreatorsKnown
  <2>1. \A r \in begun : creator[r] # None => creator[r] \in Known'
    BY <1>11 DEF IInv, CreatorsKnown
  <2>2. \A r \in told : r \in Known /\ Parent(r) = creator[r] /\ creator[r] # None
    BY DEF IInv, CreatorsKnown
  <2>3. q \in told' => q \in Known' /\ Parent(q)' = creator[q] /\ creator[q] # None
    <3>1. CASE held
      BY <1>3, <1>10, <2>2, <3>1 DEF Parent
    <3>2. CASE ~held /\ (isVfork \/ found)
      <4>1. p # None
        BY ProcessTreeAssumption DEF Handles
      <4>2. q \in DOMAIN objs /\ objs[q].m_parentProcess = p
        BY <1>4, <1>9, <3>2
      <4>. QED  BY <1>2, <1>10, <3>2, <4>1, <4>2 DEF Parent
    <3>3. CASE ~held /\ ~(isVfork \/ found)
      <4>1. told' = told
        BY <1>3, <1>7, <3>3
      <4>2. q \in Known => q \in Known' /\ Parent(q)' = Parent(q)
        BY <1>9, <1>10, <3>3 DEF Parent
      <4>. QED  BY <2>2, <4>1, <4>2
    <3>. QED  BY <3>1, <3>2, <3>3
  <2>4. \A r \in told' : r \in Known' /\ Parent(r)' = creator[r] /\ creator[r] # None
    BY <1>3, <1>11, <2>2, <2>3
  <2>5. \A r \in Pids :
          pending'[r] # None /\ pending'[r].call = "clone" /\ pending'[r].child \in begun =>
            unfinished'[r] # 0
    <3>1. \A r \in Pids : r # p => unfinished'[r] = unfinished[r]
      BY <1>4, <1>5 DEF Handles
    <3>. QED  BY <1>6, <3>1 DEF IInv, CreatorsKnown
  <2>. QED  BY <2>1, <2>4, <2>5
<1>. QED  BY <1>10, <1>12, <1>13, <1>14, <1>15, <1>16 DEF IInv

(* A new process is nobody's creator, and the reader does not know it.     *)
LEMMA CreateFacts ==
  ASSUME IInv, NEW p \in Pids, NEW q \in Pids, life[p] = "running", Create(p, q)
  PROVE  /\ q # p /\ creator[q] = None /\ creator'[q] = p /\ creator'[p] = creator[p]
         /\ \A r \in Pids : r # q => creator'[r] = creator[r]
         /\ creator' \in [Pids -> Pids \cup {None}] /\ life' \in Lives
         /\ \A r \in Pids : life[r] = "running" => life'[r] = "running"
         /\ life'[q] = "running" /\ \A r \in Pids : r # q => life'[r] = life[r]
         /\ ObjectsOK(G_mapCacheObjects, creator', begun') /\ CreatorsAcyclic(creator)'
         /\ tracer = "strace" => \A r \in Pids : life'[r] = "running" => life'[TopPid] = "running"
         /\ life'[TopPid] # "new" /\ creator'[TopPid] = None
         /\ \A r \in Pids : r # TopPid => (life'[r] = "new" <=> creator'[r] = None)
         /\ \A r \in Pids : creator'[r] # None => creator'[r] \in Pids /\ life'[creator'[r]] # "new"
         /\ begun' = (IF held THEN begun ELSE begun \cup {q}) /\ begun' \subseteq Pids
         /\ q \notin Known /\ q \notin begun
         /\ held => Known # {}
<1>1. /\ life[q] = "new" /\ life' = [life EXCEPT ![q] = "running"]
      /\ creator' = [creator EXCEPT ![q] = p]
      /\ begun' = IF held THEN begun ELSE begun \cup {q}
  BY DEF Create
<1>2. /\ life \in Lives /\ begun \subseteq Pids
      /\ creator \in [Pids -> Pids \cup {None}] /\ TopPid \in Pids /\ None \notin Pids
  BY ProcessTreeAssumption DEF IInv, TypeOK, Handles, Lives
<1>3. /\ tracer = "strace" => \A r \in Pids : life[r] = "running" => life[TopPid] = "running"
      /\ life[TopPid] # "new" /\ creator[TopPid] = None
      /\ \A r \in Pids : r # TopPid => (life[r] = "new" <=> creator[r] = None)
      /\ \A r \in Pids : creator[r] # None => creator[r] \in Pids /\ life[creator[r]] # "new"
      /\ q \notin Known /\ q \notin begun
  BY <1>1 DEF IInv, ProcessesOK
<1>4. q # p /\ q # TopPid /\ creator[q] = None
  BY <1>1, <1>3
<1>5. /\ creator'[q] = p /\ \A r \in Pids : r # q => creator'[r] = creator[r]
      /\ life'[q] = "running" /\ \A r \in Pids : r # q => life'[r] = life[r]
      /\ creator' \in [Pids -> Pids \cup {None}] /\ life' \in Lives
  BY <1>1, <1>2 DEF Lives
<1>6. ObjectsOK(G_mapCacheObjects, creator', begun')
  <2>1. ObjectsOK(G_mapCacheObjects, creator, begun) /\ DOMAIN G_mapCacheObjects = Known
    BY DEF IInv, Known
  <2>2. ParentsRight(G_mapCacheObjects, creator', begun')
    <3>. SUFFICES ASSUME NEW h \in Known, Parent(h) # None
                  PROVE  MayBeParent(h, Parent(h), creator', begun')
      BY DEF ParentsRight, Parent, Known
    <3>1. MayBeParent(h, Parent(h), creator, begun) /\ h # q
      BY <1>3, <2>1 DEF ObjectsOK, ParentsRight, Parent, Known
    <3>. QED  BY <1>1, <1>5, <3>1 DEF MayBeParent
  <2>3. LinkedUp(G_mapCacheObjects, begun')
    <3>. SUFFICES ASSUME NEW g \in Known, NEW h \in Handles,
                         h \in G_mapCacheObjects[g].m_subProcesses
                  PROVE  /\ h \in Known
                         /\ TopIsKnown /\ h \in Pids \cap begun' =>
                              G_mapCacheObjects[h].m_parentProcess = g
      BY <2>1 DEF LinkedUp
    <3>1. /\ h \in Known
          /\ TopIsKnown /\ h \in Pids \cap begun => G_mapCacheObjects[h].m_parentProcess = g
      BY <2>1 DEF ObjectsOK, LinkedUp
    <3>. QED  BY <1>1, <1>3, <3>1
  <2>. QED  BY <2>1, <2>2, <2>3 DEF ObjectsOK
<1>7. CreatorsAcyclic(creator)'
  <2>. SUFFICES ASSUME NEW group \in SUBSET Pids, group # {}
                PROVE  \E r \in group : creator'[r] \notin group
    BY DEF CreatorsAcyclic
  <2>1. CASE group \ {q} = {}
    <3>1. group = {q}
      BY <2>1
    <3>. QED  BY <1>4, <1>5, <3>1
  <2>2. CASE group \ {q} # {}
    <3>1. PICK r \in group \ {q} : creator[r] \notin group \ {q}
      BY <2>2 DEF IInv, CreatorsAcyclic
    <3>2. creator[r] # q
      BY <1>1, <1>2, <1>3, <3>1
    <3>. QED  BY <1>5, <3>1, <3>2
  <2>. QED  BY <2>1, <2>2
<1>8. /\ \A r \in Pids : life[r] = "running" => life'[r] = "running"
      /\ tracer = "strace" => life'[TopPid] = "running"
      /\ life'[TopPid] # "new" /\ creator'[TopPid] = None
  BY <1>2, <1>3, <1>4, <1>5
<1>9. \A r \in Pids : r # TopPid => (life'[r] = "new" <=> creator'[r] = None)
  BY <1>2, <1>3, <1>5
<1>10. \A r \in Pids : creator'[r] # None => creator'[r] \in Pids /\ life'[creator'[r]] # "new"
  <2>. SUFFICES ASSUME NEW r \in Pids, creator'[r] # None
                PROVE  creator'[r] \in Pids /\ life'[creator'[r]] # "new"
    OBVIOUS
  <2>1. CASE r = q
    BY <1>4, <1>5, <2>1
  <2>2. CASE r # q
    BY <1>1, <1>3, <1>5, <2>2
  <2>. QED  BY <2>1, <2>2
<1>11. held => Known # {}
  <2>. SUFFICES ASSUME held, Known = {} PROVE FALSE
    OBVIOUS
  <2>1. (\A r \in Pids : creator[r] = None) /\ life[TopPid] # "running"
    BY DEF IInv, FirstIsRead
  <2>. QED  BY <1>3, <2>1
<1>12. begun' \subseteq Pids
  BY <1>1, <1>2
<1>13. tracer = "strace" => \A r \in Pids : life'[r] = "running" => life'[TopPid] = "running"
  BY <1>8
<1>. QED  BY <1>1, <1>3, <1>4, <1>5, <1>6, <1>7, <1>8, <1>9, <1>10, <1>11, <1>12, <1>13

(* What a line in which q is created by p leaves, whatever it does to the  *)
(* objects, if it keeps what is known of them.                             *)
LEMMA CreateKeeps ==
  ASSUME IInv, NEW p \in Pids, NEW q \in Pids, Create(p, q), NEW objs, LogCall(p, objs),
         UNCHANGED <<analysis, stopped>>,
         ~held => /\ ObjectsOK(objs, creator', begun') /\ Known \cup {LinePid(p)} \subseteq DOMAIN objs
                  /\ DOMAIN objs \subseteq Known \cup {LinePid(p), q}
                  /\ \A g \in Known : objs[g].m_parentProcess = Parent(g),
         unfinished' \in [Handles -> Nat], pending' \in [Pids -> PendingCalls \cup {None}],
         \A r \in Pids : pending'[r] = pending[r] \/ (r = p /\ pending'[r].child = q),
         TopIsKnown => \A r \in Pids : unfinished'[r] # unfinished[r] => unfinished'[r] # 0,
         TopIsKnown /\ ~held /\ pending'[p] # pending[p] /\ pending'[p].call = "clone" =>
           unfinished'[p] # 0,
         told' = told \/ (~held /\ told' = told \cup {q} /\ q \in DOMAIN objs
                                /\ objs[q].m_parentProcess = LinePid(p))
  PROVE  IInv'
<1>1. life[p] = "running"
  BY DEF LogCall
<1>2. /\ q # p /\ creator[q] = None /\ creator'[q] = p /\ creator'[p] = creator[p]
      /\ \A r \in Pids : r # q => creator'[r] = creator[r]
      /\ creator' \in [Pids -> Pids \cup {None}] /\ life' \in Lives
      /\ \A r \in Pids : life[r] = "running" => life'[r] = "running"
      /\ life'[q] = "running" /\ \A r \in Pids : r # q => life'[r] = life[r]
      /\ ObjectsOK(G_mapCacheObjects, creator', begun') /\ CreatorsAcyclic(creator)'
      /\ begun' = (IF held THEN begun ELSE begun \cup {q}) /\ begun' \subseteq Pids
      /\ q \notin Known /\ q \notin begun
      /\ held => Known # {}
  BY <1>1, CreateFacts
<1>3. LinePid(p) \in Handles /\ (LinePid(p) = p \/ (LinePid(p) = NoPid /\ ~TopIsKnown))
  BY <1>1, LineFacts
<1>4. /\ ObjectsOK(G_mapCacheObjects, creator, begun)'
      /\ UNCHANGED <<G_topProcessId, tracer>> /\ held' = FALSE
      /\ G_topProcessId' \in {TopPid, NoPid} /\ tracer' \in {"strace", "ltrace"}
      /\ G_mapCacheObjects' = IF held THEN G_mapCacheObjects ELSE objs
      /\ Known' = IF held THEN Known ELSE DOMAIN objs
      /\ Known' \subseteq Handles /\ G_mapCacheObjects' \in [Known' -> Objects]
      /\ lastTimeStamp' \in Nat /\ now' \in Nat
      /\ calls' \in [Pids -> [first : Nat, last : Nat]]
  BY <1>2, LogFacts
<1>5. TypeOK'
  <2>1. told' \subseteq Pids /\ stopped' \subseteq Pids /\ analysis' \in {"reading", "done", "raised"}
    BY DEF IInv, TypeOK
  <2>. QED  BY <1>2, <1>4, <2>1 DEF TypeOK, Lives
<1>6. /\ Known \subseteq Known' /\ Known' # {}
      /\ Known' \subseteq Known \cup {LinePid(p), q}
      /\ ~held => LinePid(p) \in Known'
      /\ \A g \in Known : Parent(g)' = Parent(g)
      /\ TopIsKnown' <=> TopIsKnown
  <2>1. CASE held
    BY <1>2, <1>4, <2>1 DEF Parent, TopIsKnown
  <2>2. CASE ~held
    BY <1>4, <2>2 DEF Parent, TopIsKnown
  <2>. QED  BY <2>1, <2>2
<1>7. ProcessesOK'
  <2>1. \A r \in Pids : pending'[r] # None => creator'[pending'[r].child] = r /\ life'[r] = "running"
    <3>. SUFFICES ASSUME NEW r \in Pids, pending'[r] # None
                  PROVE  creator'[pending'[r].child] = r /\ life'[r] = "running"
      OBVIOUS
    <3>1. CASE r = p /\ pending'[r].child = q
      BY <1>1, <1>2, <3>1
    <3>2. CASE pending'[r] = pending[r]
      <4>1. creator[pending[r].child] = r /\ life[r] = "running" /\ r # None
        BY <3>2, ProcessTreeAssumption DEF IInv, ProcessesOK, Handles
      <4>2. pending[r].child \in Pids
        BY <3>2 DEF IInv, TypeOK, PendingCalls
      <4>. QED  BY <1>2, <3>2, <4>1, <4>2
    <3>. QED  BY <3>1, <3>2
  <2>2. \A r \in Pids : life'[r] = "new" => r \notin Known' /\ r \notin begun'
    <3>. SUFFICES ASSUME NEW r \in Pids, life'[r] = "new" PROVE r \notin Known' /\ r \notin begun'
      OBVIOUS
    <3>1. r # q /\ life[r] = "new" /\ r # LinePid(p)
      BY <1>1, <1>2, <1>3, ProcessTreeAssumption
    <3>2. r \notin Known /\ r \notin begun
      BY <3>1 DEF IInv, ProcessesOK
    <3>. QED  BY <1>2, <1>6, <3>1, <3>2
  <2>3. /\ tracer = "strace" => \A r \in Pids : life'[r] = "running" => life'[TopPid] = "running"
        /\ life'[TopPid] # "new" /\ creator'[TopPid] = None
        /\ \A r \in Pids : r # TopPid => (life'[r] = "new" <=> creator'[r] = None)
        /\ \A r \in Pids : creator'[r] # None => creator'[r] \in Pids /\ life'[creator'[r]] # "new"
    BY <1>1, CreateFacts
  <2>. QED  BY <1>4, <2>1, <2>2, <2>3 DEF ProcessesOK
<1>8. FirstIsRead'
  BY <1>6 DEF FirstIsRead
<1>9. CreatorsKnown'
  <2>. SUFFICES ASSUME TopIsKnown
                PROVE  /\ \A r \in begun' : creator'[r] # None => creator'[r] \in Known'
                       /\ \A r \in told' : /\ r \in Known' /\ Parent(r)' = creator'[r]
                                           /\ creator'[r] # None
                       /\ \A r \in Pids :
                            pending'[r] # None /\ pending'[r].call = "clone"
                              /\ pending'[r].child \in begun' => unfinished'[r] # 0
    BY <1>6 DEF CreatorsKnown
  <2>1. LinePid(p) = p /\ p # None
    BY <1>3, ProcessTreeAssumption DEF Handles
  <2>2. /\ \A r \in begun : creator[r] # None => creator[r] \in Known
        /\ \A r \in told : r \in Known /\ Parent(r) = creator[r] /\ creator[r] # None
        /\ \A r \in Pids :
             pending[r] # None /\ pending[r].call = "clone" /\ pending[r].child \in begun =>
               unfinished[r] # 0
        /\ begun \subseteq Pids /\ told \subseteq Pids
    BY DEF IInv, CreatorsKnown, TypeOK
  <2>3. \A r \in begun' : creator'[r] # None => creator'[r] \in Known'
    <3>1. \A r \in begun : r # q /\ creator'[r] = creator[r]
      BY <1>2, <2>2
    <3>2. q \in begun' => creator'[q] \in Known'
      BY <1>2, <1>6, <2>1
    <3>. QED  BY <1>2, <1>6, <2>2, <3>1, <3>2
  <2>4. \A r \in told : /\ r \in Known' /\ Parent(r)' = creator'[r] /\ creator'[r] # None
    BY <1>2, <1>6, <2>2
  <2>5. q \in told' => q \in Known' /\ Parent(q)' = creator'[q] /\ creator'[q] # None
    <3>1. q \notin told
      BY <1>2, <2>2
    <3>2. q \in told' => ~held /\ q \in DOMAIN objs /\ objs[q].m_parentProcess = p
      BY <2>1, <3>1
    <3>. QED  BY <1>2, <1>4, <2>1, <3>2 DEF Parent
  <2>6. \A r \in told' : r \in Known' /\ Parent(r)' = creator'[r] /\ creator'[r] # None
    BY <2>4, <2>5
  <2>7. ASSUME NEW r \in Pids, pending'[r] # None, pending'[r].call = "clone",
               pending'[r].child \in begun'
        PROVE  unfinished'[r] # 0
    <3>1. CASE pending'[r] = pending[r]
      <4>1. pending[r].child # q
        <5>1. creator[pending[r].child] = r /\ r # None
          BY <2>7, <3>1, ProcessTreeAssumption DEF IInv, ProcessesOK, Handles
        <5>. QED  BY <1>2, <5>1
      <4>2. pending[r].child \in begun
        BY <1>2, <2>7, <3>1, <4>1
      <4>. QED  BY <2>2, <2>7, <3>1, <4>2
    <3>2. CASE pending'[r] # pending[r]
      <4>1. r = p /\ pending'[r].child = q
        BY <3>2
      <4>2. ~held
        BY <1>2, <2>7, <4>1
      <4>. QED  BY <2>7, <3>2, <4>1, <4>2
    <3>. QED  BY <3>1, <3>2
  <2>. QED  BY <2>3, <2>6, <2>7
<1>. QED  BY <1>2, <1>4, <1>5, <1>7, <1>8, <1>9 DEF IInv

(* The call that creates a process returns at once.                        *)
LEMMA CloneKeeps == ASSUME IInv, NEW p \in Pids, NEW q \in Pids, Clone(p, q) PROVE IInv'
<1>. DEFINE parsed == Parsed(p)
            objs   == AddParentProcess(parsed, q, LinePid(p))
<1>1. /\ life[p] = "running" /\ Create(p, q) /\ LogCall(p, objs)
      /\ told' = (IF held THEN told ELSE told \cup {q})
      /\ UNCHANGED <<unfinished, analysis, pending, stopped>>
  BY DEF Clone, LogCall
<1>2. /\ q # p /\ creator'[q] = p /\ creator'[p] = creator[p]
      /\ ObjectsOK(G_mapCacheObjects, creator', begun')
      /\ begun' = (IF held THEN begun ELSE begun \cup {q}) /\ q \notin Known
  BY <1>1, CreateFacts
<1>3. ASSUME ~held
      PROVE  /\ ObjectsOK(objs, creator', begun') /\ Known \cup {LinePid(p)} \subseteq DOMAIN objs
             /\ DOMAIN objs = Known \cup {LinePid(p), q}
             /\ \A g \in Known : objs[g].m_parentProcess = Parent(g)
             /\ objs[q].m_parentProcess = LinePid(p)
  <2>1. p \in begun' => p \in begun
    BY <1>2, <1>3
  <2>2. /\ ObjectsOK(parsed, creator', begun') /\ LinePid(p) \in DOMAIN parsed
        /\ q \in Handles /\ q # LinePid(p) /\ now \in Nat
        /\ MayBeParent(q, LinePid(p), creator', begun')
        /\ DOMAIN parsed = {FirstPid} /\ q # FirstPid => MayBeParent(q, FirstPid, creator', begun')
    BY <1>1, <1>2, <1>3, <2>1, ChildFacts
  <2>3. DOMAIN parsed = Known \cup {LinePid(p)}
        /\ \A g \in Known : parsed[g].m_parentProcess = Parent(g)
    BY <1>1, <1>2, <1>3, <2>1, ParsedFacts DEF SameParents, Parent, Known
  <2>. HIDE DEF parsed
  <2>4. ChildGiven(parsed, objs, q, LinePid(p), creator', begun')
    BY <2>2, AddParentKeeps
  <2>. HIDE DEF objs
  <2>. QED  BY <1>2, <2>3, <2>4 DEF ChildGiven
<1>. HIDE DEF objs
<1>4. unfinished' \in [Handles -> Nat] /\ pending' \in [Pids -> PendingCalls \cup {None}]
  BY <1>1 DEF IInv, TypeOK
<1>5. told' = told \/ (~held /\ told' = told \cup {q} /\ q \in DOMAIN objs
                               /\ objs[q].m_parentProcess = LinePid(p))
  BY <1>1, <1>3
<1>. QED  BY <1>1, <1>3, <1>4, <1>5, CreateKeeps

(* The call that creates a process has not returned yet.                   *)
LEMMA CloneBeginKeeps ==
  ASSUME IInv, NEW p \in Pids, NEW q \in Pids, NEW call \in {"clone", "vfork"}, CloneBegin(p, q, call)
  PROVE  IInv'
<1>. DEFINE objs == Parsed(p)
<1>1. /\ life[p] = "running" /\ Create(p, q) /\ LogCall(p, objs)
      /\ pending' = [pending EXCEPT ![p] = [child |-> q, call |-> call]]
      /\ unfinished' = IF held \/ call = "vfork" THEN unfinished
                       ELSE [unfinished EXCEPT ![LinePid(p)] = @ + 1]
      /\ UNCHANGED <<analysis, told, stopped>>
  BY DEF CloneBegin, LogCall
<1>2. /\ creator'[p] = creator[p] /\ q # p
      /\ ObjectsOK(G_mapCacheObjects, creator', begun')
      /\ begun' = (IF held THEN begun ELSE begun \cup {q}) /\ q \notin Known
  BY <1>1, CreateFacts
<1>3. ASSUME ~held
      PROVE  /\ ObjectsOK(objs, creator', begun') /\ Known \cup {LinePid(p)} \subseteq DOMAIN objs
             /\ DOMAIN objs \subseteq Known \cup {LinePid(p), q}
             /\ \A g \in Known : objs[g].m_parentProcess = Parent(g)
  <2>1. p \in begun' => p \in begun
    BY <1>2, <1>3
  <2>2. /\ ObjectsOK(objs, creator', begun') /\ DOMAIN objs = Known \cup {LinePid(p)}
        /\ \A g \in Known : objs[g].m_parentProcess = Parent(g)
    BY <1>1, <1>2, <1>3, <2>1, ParsedFacts DEF SameParents, Parent, Known
  <2>. QED  BY <2>2
<1>. HIDE DEF objs
<1>4. pending' \in [Pids -> PendingCalls \cup {None}]
      /\ \A r \in Pids : pending'[r] = IF r = p THEN [child |-> q, call |-> call] ELSE pending[r]
  BY <1>1 DEF IInv, TypeOK, PendingCalls
<1>5. LinePid(p) \in Handles /\ (TopIsKnown => LinePid(p) = p) /\ unfinished \in [Handles -> Nat]
  BY <1>1, LineFacts DEF IInv, TypeOK
<1>6. /\ unfinished' \in [Handles -> Nat]
      /\ \A h \in Handles : unfinished'[h] # unfinished[h] => unfinished'[h] # 0
      /\ ~held /\ call = "clone" => unfinished'[LinePid(p)] # 0
  BY <1>1, <1>5
<1>7. /\ TopIsKnown => \A r \in Pids : unfinished'[r] # unfinished[r] => unfinished'[r] # 0
      /\ TopIsKnown /\ ~held /\ pending'[p] # pending[p] /\ pending'[p].call = "clone" =>
           unfinished'[p] # 0
  BY <1>4, <1>5, <1>6 DEF Handles
<1>8. \A r \in Pids : pending'[r] = pending[r] \/ (r = p /\ pending'[r].child = q)
  BY <1>4
<1>. QED  BY <1>1, <1>3, <1>4, <1>6, <1>7, <1>8, CreateKeeps

LEMMA NextIInv == IInv /\ [Next]_vars => IInv'
<1>. SUFFICES ASSUME IInv, [Next]_vars PROVE IInv'
  OBVIOUS
<1>1. ASSUME NEW p \in Pids, OtherCall(p) PROVE IInv'
  BY <1>1, OtherCallKeeps
<1>2. ASSUME NEW p \in Pids, Signal(p) PROVE IInv'
  BY <1>2, SignalKeeps
<1>3. ASSUME NEW p \in Pids, CloneEnd(p) PROVE IInv'
  BY <1>3, CloneEndKeeps
<1>4. ASSUME NEW p \in Pids, CloneFails(p) PROVE IInv'
  BY <1>4, CloneFailsKeeps
<1>5. ASSUME NEW p \in Pids, WaitFails(p) PROVE IInv'
  BY <1>5, WaitFailsKeeps
<1>6. ASSUME NEW p \in Pids, Exit(p) PROVE IInv'
  BY <1>6, ExitKeeps
<1>7. ASSUME NEW p \in Pids, NEW q \in Pids, Clone(p, q) PROVE IInv'
  BY <1>7, CloneKeeps
<1>8. ASSUME NEW p \in Pids, NEW q \in Pids, Wait(p, q) PROVE IInv'
  BY <1>8, WaitKeepsIInv
<1>9. ASSUME NEW p \in Pids, NEW q \in Pids, NEW call \in {"clone", "vfork"}, CloneBegin(p, q, call)
      PROVE  IInv'
  BY <1>9, CloneBeginKeeps
<1>10. ASSUME EndOfLog PROVE IInv'
  BY <1>10, EndOfLogKeeps
<1>11. ASSUME UNCHANGED vars PROVE IInv'
  <2>1. UNCHANGED <<G_topProcessId, G_mapCacheObjects, tracer, held, unfinished, lastTimeStamp,
                    analysis, now, life, creator, pending, begun, told, stopped, calls>>
    BY <1>11 DEF vars, readerVars, historyVars
  <2>2. Known' = Known /\ (TopIsKnown' <=> TopIsKnown) /\ \A h \in Known : Parent(h)' = Parent(h)
    BY <2>1 DEF Known, TopIsKnown, Parent
  <2>3. TypeOK'
    BY <2>1, <2>2 DEF IInv, TypeOK
  <2>4. ObjectsOK(G_mapCacheObjects, creator, begun)'
    BY <2>1, NextObjects DEF IInv
  <2>5. ProcessesOK' /\ FirstIsRead' /\ CreatorsAcyclic(creator)'
    BY <2>1, <2>2 DEF IInv, ProcessesOK, FirstIsRead, CreatorsAcyclic
  <2>6. CreatorsKnown'
    BY <2>1, <2>2 DEF IInv, CreatorsKnown
  <2>. QED  BY <2>3, <2>4, <2>5, <2>6 DEF IInv
<1>. QED  BY <1>1, <1>2, <1>3, <1>4, <1>5, <1>6, <1>7, <1>8, <1>9, <1>10, <1>11 DEF Next

(* The inductive invariant holds in every state of the analysis.           *)
THEOREM InvariantHolds == Spec => []IInv
<1>. QED  BY InitIInv, NextIInv, PTL DEF Spec

(* The objects have the handles and the fields that the code expects.      *)
THEOREM TypeCorrect == Spec => []TypeOK
<1>1. IInv => TypeOK
  BY DEF IInv
<1>. QED  BY InvariantHolds, <1>1, PTL

(* TopProcessFromProc ends: following the parents of any process leads to  *)
(* one that has none, whichever lines were lost, as long as a replay that  *)
(* does not know its top process has not given it a parent.                *)
THEOREM ParentsHaveNoCycle == Spec => []NoCycle
<1>1. IInv => NoCycle
  <2>. SUFFICES ASSUME IInv, ~TopHasParent, NEW group \in SUBSET Known, group # {},
                       \A h \in group : Parent(h) \in group
                PROVE  FALSE
    BY DEF NoCycle
  <2>. DEFINE real == group \cap Pids
  <2>1. group \subseteq Handles /\ None \notin group
    BY ProcessTreeAssumption DEF IInv, TypeOK, Handles
  <2>2. \A h \in group : Parent(h) # None /\ MayBeParent(h, Parent(h), creator, begun)
    BY <2>1 DEF IInv, ObjectsOK, ParentsRight, Known, Parent
  <2>3. ~TopIsKnown => NoPid \notin group
    BY <2>2 DEF TopHasParent
  <2>4. \A h \in group : Parent(h) \in real /\ Parent(h) # h
    BY <2>2, <2>3 DEF MayBeParent
  <2>5. real \subseteq Pids /\ real # {}
    BY <2>4
  <2>6. \A h \in real : Parent(h) \in {creator[h], TopPid}
    BY <2>2, <2>4, ProcessTreeAssumption DEF MayBeParent
  <2>7. TopPid \notin real
    <3>1. creator[TopPid] = None
      BY DEF IInv, ProcessesOK
    <3>. QED  BY <2>1, <2>4, <2>6, <3>1
  <2>. HIDE DEF real
  <2>8. PICK q \in real : creator[q] \notin real
    BY <2>5 DEF IInv, CreatorsAcyclic
  <2>9. q \in group
    BY DEF real
  <2>. QED  BY <2>4, <2>6, <2>7, <2>8, <2>9
<1>. QED  BY InvariantHolds, <1>1, PTL

(* BatchLetSys_clone, BatchLetSys_vfork and BatchLetSys_wait4 never give a *)
(* process another parent than its creator, whichever lines the lines of   *)
(* exits make the reader lose, once a line of its creation is read.        *)
THEOREM ParentsAreCreators == Spec => []ParentIsCreator
<1>1. IInv => ParentIsCreator
  <2>. SUFFICES ASSUME IInv, TopIsKnown, NEW q \in Known \cap Pids
                PROVE  /\ q \in begun => Parent(q) \in {None, creator[q]}
                       /\ q \in told => Parent(q) = creator[q]
    BY DEF ParentIsCreator
  <2>1. Parent(q) # None => MayBeParent(q, Parent(q), creator, begun)
    BY DEF IInv, ObjectsOK, ParentsRight, Known, Parent
  <2>2. NoPid \notin Pids
    BY ProcessTreeAssumption
  <2>3. q \in told => Parent(q) = creator[q]
    BY DEF IInv, CreatorsKnown
  <2>. QED  BY <2>1, <2>2, <2>3 DEF MayBeParent
<1>. QED  BY InvariantHolds, <1>1, PTL

(* XMLOneLevelSummary prints each process once, below its parent.          *)
THEOREM EachPrintedUnderItsParent == Spec => []PrintedUnderItsParent
<1>1. IInv => PrintedUnderItsParent
  <2>. SUFFICES ASSUME IInv PROVE PrintedUnderItsParent
    OBVIOUS
  <2>1. /\ LinkedDown(G_mapCacheObjects) /\ LinkedUp(G_mapCacheObjects, begun)
        /\ Known \subseteq Handles /\ begun \subseteq Pids
    BY DEF IInv, ObjectsOK, TypeOK
  <2>. QED  BY <2>1 DEF PrintedUnderItsParent, LinkedDown, LinkedUp, Known, Parent
<1>. QED  BY InvariantHolds, <1>1, PTL

-----------------------------------------------------------------------------
(* The dates.                                                              *)

Born(objs, h) == IF h \in DOMAIN objs THEN objs[h].CreationDate ELSE 0
Died(objs, h) == IF h \in DOMAIN objs THEN objs[h].TerminationDate ELSE 0

(* new are the objects of objs and the one of h, with this creation, or    *)
(* termination, date.                                                      *)
BornAt(objs, new, h, date) ==
  /\ ObjectsTyped(new) /\ DOMAIN new = DOMAIN objs \cup {h}
  /\ \A g \in Handles : /\ Born(new, g) = IF g = h THEN date ELSE Born(objs, g)
                        /\ Died(new, g) = Died(objs, g)

DiedAt(objs, new, h, date) ==
  /\ ObjectsTyped(new) /\ DOMAIN new = DOMAIN objs \cup {h}
  /\ \A g \in Handles : /\ Born(new, g) = Born(objs, g)
                        /\ Died(new, g) = IF g = h THEN date ELSE Died(objs, g)

(* The times of the lines, and of the end of a process.                    *)
TimesOK ==
  /\ lastTimeStamp <= now
  /\ Known # {} => lastTimeStamp # 0
  /\ \A p \in Pids : calls[p].last <= lastTimeStamp
  /\ \A p \in Pids : pending[p] # None => life[pending[p].child] # "waited"

(* A process that has a termination date will make no call, unless it has  *)
(* only stopped, and the call that created it has returned.                *)
DatesOK ==
  \A h \in Pids :
    /\ Born(G_mapCacheObjects, h) <= lastTimeStamp
    /\ Born(G_mapCacheObjects, h) = 0 => calls[h].last = 0 /\ h \notin told
    /\ Died(G_mapCacheObjects, h) # 0 /\ h \notin stopped =>
         /\ life[h] = "waited"
         /\ Born(G_mapCacheObjects, h) <= Died(G_mapCacheObjects, h)
         /\ calls[h].last <= Died(G_mapCacheObjects, h)

DatesInv ==
  /\ TimesOK
  /\ TopIsKnown /\ analysis # "done" => DatesOK
  /\ analysis = "done" => DatesAgree

LEMMA SetParentDates ==
  ASSUME NEW objs, ObjectsTyped(objs), NEW h \in DOMAIN objs, NEW parent \in DOMAIN objs, h # parent
  PROVE  LET new == SetParentProcess(objs, h, parent)
         IN  /\ ObjectsTyped(new) /\ DOMAIN new = DOMAIN objs
             /\ \A g \in Handles : Born(new, g) = Born(objs, g) /\ Died(new, g) = Died(objs, g)
<1>. DEFINE child  == [objs[h] EXCEPT !.m_parentProcess = parent]
            father == [objs[parent] EXCEPT !.m_subProcesses = @ \cup {h}]
            new    == SetParentProcess(objs, h, parent)
<1>1. /\ objs[h] \in Objects /\ objs[parent] \in Objects
      /\ h \in Handles /\ parent \in Handles /\ DOMAIN objs \subseteq Handles
      /\ objs = [g \in DOMAIN objs |-> objs[g]]
      /\ \A g \in DOMAIN objs : objs[g] \in Objects
  BY DEF ObjectsTyped
<1>2. /\ child \in Objects /\ child.CreationDate = objs[h].CreationDate
      /\ child.TerminationDate = objs[h].TerminationDate
  BY <1>1 DEF Objects
<1>3. /\ father \in Objects /\ father.CreationDate = objs[parent].CreationDate
      /\ father.TerminationDate = objs[parent].TerminationDate
  BY <1>1 DEF Objects
<1>4. new = [objs EXCEPT ![h] = child, ![parent] = father]
  BY DEF SetParentProcess
<1>. HIDE DEF child, father, new
<1>5. /\ DOMAIN new = DOMAIN objs /\ new[h] = child /\ new[parent] = father
      /\ \A g \in DOMAIN objs : g # h /\ g # parent => new[g] = objs[g]
      /\ new = [g \in DOMAIN objs |-> new[g]]
  BY <1>1, <1>4
<1>6. \A g \in DOMAIN objs : /\ new[g] \in Objects
                             /\ new[g].CreationDate = objs[g].CreationDate
                             /\ new[g].TerminationDate = objs[g].TerminationDate
  BY <1>1, <1>2, <1>3, <1>5
<1>7. ObjectsTyped(new)
  BY <1>1, <1>5, <1>6 DEF ObjectsTyped
<1>8. \A g \in Handles : Born(new, g) = Born(objs, g) /\ Died(new, g) = Died(objs, g)
  BY <1>5, <1>6 DEF Born, Died
<1>. QED  BY <1>5, <1>7, <1>8 DEF new

(* A new process has no date.                                              *)
LEMMA ToObjectPathDates ==
  ASSUME NEW objs, ObjectsTyped(objs), NEW h \in Handles
  PROVE  LET new == ToObjectPath(objs, h)
         IN  /\ ObjectsTyped(new) /\ DOMAIN new = DOMAIN objs \cup {h}
             /\ \A g \in Handles : Born(new, g) = Born(objs, g) /\ Died(new, g) = Died(objs, g)
<1>. DEFINE created == [g \in DOMAIN objs \cup {h} |-> IF g \in DOMAIN objs THEN objs[g] ELSE NewProcess]
            first   == CHOOSE g \in DOMAIN objs : TRUE
<1>1. /\ DOMAIN created = DOMAIN objs \cup {h}
      /\ \A g \in DOMAIN objs : created[g] = objs[g]
      /\ h \notin DOMAIN objs => created[h].CreationDate = 0 /\ created[h].TerminationDate = 0
  BY DEF NewProcess
<1>2. ObjectsTyped(created)
  BY NewIsObject DEF ObjectsTyped
<1>3. ToObjectPath(objs, h) =
        IF h \notin DOMAIN objs /\ DOMAIN objs # {} /\ \A g \in DOMAIN objs : g = first
        THEN SetParentProcess(created, h, first) ELSE created
  BY DEF ToObjectPath
<1>. HIDE DEF created
<1>4. \A g \in Handles : Born(created, g) = Born(objs, g) /\ Died(created, g) = Died(objs, g)
  BY <1>1 DEF Born, Died
<1>5. CASE h \notin DOMAIN objs /\ DOMAIN objs # {} /\ \A g \in DOMAIN objs : g = first
  <2>1. first \in DOMAIN created /\ h \in DOMAIN created /\ h # first
    BY <1>1, <1>5
  <2>. HIDE DEF first
  <2>2. LET new == SetParentProcess(created, h, first)
        IN  /\ ObjectsTyped(new) /\ DOMAIN new = DOMAIN created
            /\ \A g \in Handles : Born(new, g) = Born(created, g) /\ Died(new, g) = Died(created, g)
    BY <1>2, <2>1, SetParentDates
  <2>. QED  BY <1>1, <1>3, <1>4, <1>5, <2>2
<1>6. CASE ~(h \notin DOMAIN objs /\ DOMAIN objs # {} /\ \A g \in DOMAIN objs : g = first)
  BY <1>1, <1>2, <1>3, <1>4, <1>6
<1>. QED  BY <1>5, <1>6

LEMMA SetBorn ==
  ASSUME NEW objs, ObjectsTyped(objs), NEW h \in DOMAIN objs, NEW date \in Nat
  PROVE  BornAt(objs, [objs EXCEPT ![h].CreationDate = date], h, date)
<1>. DEFINE dated == [objs[h] EXCEPT !.CreationDate = date]
            new   == [objs EXCEPT ![h].CreationDate = date]
<1>1. objs[h] \in Objects
  BY DEF ObjectsTyped
<1>2. /\ dated \in Objects /\ dated.CreationDate = date
      /\ dated.TerminationDate = objs[h].TerminationDate
  BY <1>1 DEF Objects
<1>3. new = [objs EXCEPT ![h] = dated]
  OBVIOUS
<1>. HIDE DEF dated, new
<1>4. DOMAIN new = DOMAIN objs /\ ObjectsTyped(new)
  BY <1>2, <1>3 DEF ObjectsTyped
<1>5. /\ new[h].CreationDate = date /\ new[h].TerminationDate = objs[h].TerminationDate
      /\ \A g \in DOMAIN objs : g # h => new[g] = objs[g]
  BY <1>2, <1>3 DEF ObjectsTyped
<1>6. \A g \in Handles : /\ Born(new, g) = IF g = h THEN date ELSE Born(objs, g)
                         /\ Died(new, g) = Died(objs, g)
  BY <1>4, <1>5 DEF Born, Died
<1>. QED  BY <1>4, <1>6 DEF BornAt, new

LEMMA SetDied ==
  ASSUME NEW objs, ObjectsTyped(objs), NEW h \in DOMAIN objs, NEW date \in Nat
  PROVE  DiedAt(objs, [objs EXCEPT ![h].TerminationDate = date], h, date)
<1>. DEFINE dated == [objs[h] EXCEPT !.TerminationDate = date]
            new   == [objs EXCEPT ![h].TerminationDate = date]
<1>1. objs[h] \in Objects
  BY DEF ObjectsTyped
<1>2. /\ dated \in Objects /\ dated.TerminationDate = date
      /\ dated.CreationDate = objs[h].CreationDate
  BY <1>1 DEF Objects
<1>3. new = [objs EXCEPT ![h] = dated]
  OBVIOUS
<1>. HIDE DEF dated, new
<1>4. DOMAIN new = DOMAIN objs /\ ObjectsTyped(new)
  BY <1>2, <1>3 DEF ObjectsTyped
<1>5. /\ new[h].TerminationDate = date /\ new[h].CreationDate = objs[h].CreationDate
      /\ \A g \in DOMAIN objs : g # h => new[g] = objs[g]
  BY <1>2, <1>3 DEF ObjectsTyped
<1>6. \A g \in Handles : /\ Born(new, g) = Born(objs, g)
                         /\ Died(new, g) = IF g = h THEN date ELSE Died(objs, g)
  BY <1>4, <1>5 DEF Born, Died
<1>. QED  BY <1>4, <1>6 DEF DiedAt, new

LEMMA ParsedDates ==
  ASSUME NEW objs, ObjectsTyped(objs), NEW h \in Handles, now \in Nat
  PROVE  BornAt(objs, ParsedBy(objs, h), h, IF Born(objs, h) = 0 THEN now + 1 ELSE Born(objs, h))
<1>. DEFINE found == ToObjectPath(objs, h)
            date  == IF found[h].CreationDate = 0 THEN now + 1 ELSE found[h].CreationDate
<1>1. /\ ObjectsTyped(found) /\ DOMAIN found = DOMAIN objs \cup {h}
      /\ \A g \in Handles : Born(found, g) = Born(objs, g) /\ Died(found, g) = Died(objs, g)
  BY ToObjectPathDates
<1>2. ParsedBy(objs, h) = [found EXCEPT ![h].CreationDate = date]
  BY DEF ParsedBy
<1>. HIDE DEF found
<1>3. h \in DOMAIN found /\ found[h] \in Objects
  BY <1>1 DEF ObjectsTyped
<1>4. date \in Nat
  BY <1>3 DEF Objects
<1>5. date = IF Born(objs, h) = 0 THEN now + 1 ELSE Born(objs, h)
  BY <1>1, <1>3 DEF Born
<1>. HIDE DEF date
<1>6. BornAt(found, [found EXCEPT ![h].CreationDate = date], h, date)
  BY <1>1, <1>3, <1>4, SetBorn
<1>7. BornAt(objs, ParsedBy(objs, h), h, date)
  BY <1>1, <1>2, <1>6 DEF BornAt
<1>. QED  BY <1>5, <1>7

LEMMA AddParentDates ==
  ASSUME NEW objs, ObjectsTyped(objs), NEW h \in Handles, NEW parent \in DOMAIN objs, h # parent,
         now \in Nat
  PROVE  BornAt(objs, AddParentProcess(objs, h, parent), h, now + 1)
<1>. DEFINE found  == ToObjectPath(objs, h)
            linked == SetParentProcess(found, h, parent)
<1>1. /\ ObjectsTyped(found) /\ DOMAIN found = DOMAIN objs \cup {h}
      /\ \A g \in Handles : Born(found, g) = Born(objs, g) /\ Died(found, g) = Died(objs, g)
  BY ToObjectPathDates
<1>2. AddParentProcess(objs, h, parent) = [linked EXCEPT ![h].CreationDate = now + 1]
  BY DEF AddParentProcess
<1>. HIDE DEF found
<1>3. h \in DOMAIN found /\ parent \in DOMAIN found /\ now + 1 \in Nat
  BY <1>1
<1>4. /\ ObjectsTyped(linked) /\ DOMAIN linked = DOMAIN found
      /\ \A g \in Handles : Born(linked, g) = Born(found, g) /\ Died(linked, g) = Died(found, g)
  BY <1>1, <1>3, SetParentDates
<1>. HIDE DEF linked
<1>5. BornAt(linked, [linked EXCEPT ![h].CreationDate = now + 1], h, now + 1)
  BY <1>3, <1>4, SetBorn
<1>. QED  BY <1>1, <1>2, <1>4, <1>5 DEF BornAt

LEMMA WaitDates ==
  ASSUME NEW objs, ObjectsTyped(objs), NEW h \in Handles, NEW parent \in DOMAIN objs, h # parent,
         now \in Nat
  PROVE  DiedAt(objs, WaitProcessEnd(objs, h, parent), h, now + 1)
<1>. DEFINE found == ToObjectPath(objs, h)
            ended == [found EXCEPT ![h].TerminationDate = now + 1]
            new   == SetParentProcess(ended, h, parent)
<1>1. /\ ObjectsTyped(found) /\ DOMAIN found = DOMAIN objs \cup {h}
      /\ \A g \in Handles : Born(found, g) = Born(objs, g) /\ Died(found, g) = Died(objs, g)
  BY ToObjectPathDates
<1>2. WaitProcessEnd(objs, h, parent) =
        IF ended[h].m_parentProcess = None /\ h # parent THEN new ELSE ended
  BY DEF WaitProcessEnd
<1>. HIDE DEF found
<1>3. h \in DOMAIN found /\ parent \in DOMAIN found /\ now + 1 \in Nat
  BY <1>1
<1>4. DiedAt(found, ended, h, now + 1)
  BY <1>1, <1>3, SetDied
<1>. HIDE DEF ended
<1>5. /\ ObjectsTyped(ended) /\ DOMAIN ended = DOMAIN found
      /\ h \in DOMAIN ended /\ parent \in DOMAIN ended
  BY <1>3, <1>4 DEF DiedAt
<1>6. /\ ObjectsTyped(new) /\ DOMAIN new = DOMAIN ended
      /\ \A g \in Handles : Born(new, g) = Born(ended, g) /\ Died(new, g) = Died(ended, g)
  BY <1>5, SetParentDates
<1>. HIDE DEF new
<1>7. DiedAt(objs, ended, h, now + 1)
  BY <1>1, <1>4 DEF DiedAt
<1>8. DiedAt(objs, new, h, now + 1)
  BY <1>5, <1>6, <1>7 DEF DiedAt
<1>. QED  BY <1>2, <1>7, <1>8
(* What is said of a line that is read.                                    *)
LEMMA CallsFacts ==
  ASSUME IInv, NEW p \in Pids, NEW objs, LogCall(p, objs), ~held
  PROVE  /\ calls'[p].last = now + 1 /\ \A r \in Pids : r # p => calls'[r].last = calls[r].last
         /\ \A r \in Pids : calls[r].last \in Nat
         /\ now \in Nat /\ now' = now + 1 /\ lastTimeStamp' = now + 1 /\ lastTimeStamp \in Nat
         /\ G_mapCacheObjects' = objs
<1>. DEFINE opened == [calls[p] EXCEPT !.first = IF @ = 0 THEN now + 1 ELSE @]
            made   == [opened EXCEPT !.last = now + 1]
<1>1. /\ now \in Nat /\ calls \in [Pids -> [first : Nat, last : Nat]] /\ now' = now + 1
      /\ lastTimeStamp' = now + 1 /\ lastTimeStamp \in Nat /\ G_mapCacheObjects' = objs
  BY DEF IInv, TypeOK, LogCall
<1>2. opened \in [first : Nat, last : Nat]
  BY <1>1
<1>3. calls' = [calls EXCEPT ![p] = made]
  BY <1>1 DEF LogCall
<1>. HIDE DEF opened
<1>4. made.last = now + 1
  BY <1>2
<1>. HIDE DEF made
<1>. QED  BY <1>1, <1>3, <1>4

LEMMA LostFacts ==
  ASSUME NEW p \in Pids, NEW objs, LogCall(p, objs), held
  PROVE  UNCHANGED <<G_mapCacheObjects, lastTimeStamp, calls>> /\ now' = now + 1
BY DEF LogCall

LEMMA CallsOK ==
  ASSUME IInv, TimesOK, NEW p \in Pids, NEW objs, LogCall(p, objs)
  PROVE  /\ lastTimeStamp' <= now' /\ (Known' # {} => lastTimeStamp' # 0)
         /\ \A r \in Pids : calls'[r].last <= lastTimeStamp'
<1>1. CASE held
  <2>1. UNCHANGED <<G_mapCacheObjects, lastTimeStamp, calls>> /\ now' = now + 1
    BY <1>1, LostFacts
  <2>2. lastTimeStamp \in Nat /\ now \in Nat /\ lastTimeStamp <= now
    BY DEF IInv, TypeOK, TimesOK
  <2>3. lastTimeStamp <= now + 1
    BY <2>2
  <2>. QED  BY <2>1, <2>3 DEF TimesOK, Known
<1>2. CASE ~held
  <2>1. /\ calls'[p].last = now + 1 /\ \A r \in Pids : r # p => calls'[r].last = calls[r].last
        /\ \A r \in Pids : calls[r].last \in Nat
        /\ now \in Nat /\ now' = now + 1 /\ lastTimeStamp' = now + 1 /\ lastTimeStamp \in Nat
    BY <1>2, CallsFacts
  <2>2. \A r \in Pids : calls'[r].last <= lastTimeStamp'
    <3>. SUFFICES ASSUME NEW r \in Pids PROVE calls'[r].last <= lastTimeStamp'
      OBVIOUS
    <3>1. calls[r].last <= lastTimeStamp /\ lastTimeStamp <= now
      BY DEF TimesOK
    <3>2. CASE r = p
      BY <2>1, <3>2
    <3>3. CASE r # p
      BY <2>1, <3>1, <3>3
    <3>. QED  BY <3>2, <3>3
  <2>. QED  BY <2>1, <2>2
<1>. QED  BY <1>1, <1>2

LEMMA LogIsReading ==
  ASSUME DatesInv, NEW p \in Pids, NEW objs, LogCall(p, objs)
  PROVE  /\ analysis = "reading" /\ life[p] = "running" /\ TimesOK
         /\ UNCHANGED <<G_topProcessId, tracer>>
         /\ TopIsKnown => DatesOK
BY DEF LogCall, DatesInv

LEMMA ReadDates ==
  ASSUME TimesOK', analysis' # "done", UNCHANGED <<G_topProcessId, tracer>>,
         TopIsKnown => DatesOK'
  PROVE  DatesInv'
BY DEF DatesInv, TopIsKnown

(* What a line may do to the dates of the objects.                         *)
DateMoves(objs, h) ==
  /\ Died(objs, h) = Died(G_mapCacheObjects, h)
  /\ Born(objs, h) = Born(G_mapCacheObjects, h)
       \/ (Born(objs, h) = now + 1 /\ life[h] # "waited")

(* A line of p about processes that are alive, or about one that ended.    *)
LEMMA LineDates ==
  ASSUME IInv, TimesOK, DatesOK, NEW p \in Pids, NEW objs, LogCall(p, objs),
         NEW ended \in Pids \cup {None},
         ~held => /\ \A h \in Pids : h # ended => DateMoves(objs, h)
                  /\ Born(objs, p) # 0
                  /\ ended # None => /\ ended # p /\ Died(objs, ended) = now + 1
                                     /\ Born(objs, ended) = Born(G_mapCacheObjects, ended)
                                     /\ ended \notin stopped' => life'[ended] = "waited"
                  /\ \A h \in Pids : h \in told' => h \in told \/ Born(objs, h) # 0
                  /\ \A h \in Pids : h # ended /\ h \in stopped => h \in stopped',
         held => told' = told /\ stopped' = stopped,
         \A h \in Pids : life[h] = "waited" => life'[h] = "waited"
  PROVE  DatesOK'
<1>1. CASE held
  <2>1. UNCHANGED <<G_mapCacheObjects, lastTimeStamp, calls, told, stopped>>
    BY <1>1, LostFacts
  <2>. QED  BY <2>1 DEF DatesOK, Born, Died
<1>2. CASE ~held
  <2>. DEFINE old == G_mapCacheObjects
  <2>1. /\ calls'[p].last = now + 1 /\ \A r \in Pids : r # p => calls'[r].last = calls[r].last
        /\ \A r \in Pids : calls[r].last \in Nat
        /\ now \in Nat /\ lastTimeStamp' = now + 1 /\ lastTimeStamp \in Nat
        /\ G_mapCacheObjects' = objs
    BY <1>2, CallsFacts
  <2>2. life[p] = "running" /\ lastTimeStamp <= now
    BY DEF LogCall, TimesOK
  <2>3. ASSUME NEW h \in Pids
        PROVE  /\ Born(objs, h) <= lastTimeStamp'
               /\ Born(objs, h) = 0 => calls'[h].last = 0 /\ h \notin told'
               /\ Died(objs, h) # 0 /\ h \notin stopped' =>
                    /\ life'[h] = "waited" /\ Born(objs, h) <= Died(objs, h)
                    /\ calls'[h].last <= Died(objs, h)
    <3>1. /\ Born(old, h) <= lastTimeStamp
          /\ Born(old, h) = 0 => calls[h].last = 0 /\ h \notin told
          /\ Died(old, h) # 0 /\ h \notin stopped =>
               /\ life[h] = "waited" /\ Born(old, h) <= Died(old, h)
               /\ calls[h].last <= Died(old, h)
      BY DEF DatesOK
    <3>2. Born(old, h) \in Nat
      <4>1. h \in Known => old[h] \in Objects
        BY DEF IInv, TypeOK, Known
      <4>. QED  BY <4>1 DEF Born, Objects, Known
    <3>3. calls[h].last <= lastTimeStamp
      BY DEF TimesOK
    <3>4. Born(old, h) <= now + 1 /\ calls[h].last <= now + 1 /\ now + 1 <= now + 1
      BY <2>1, <2>2, <3>1, <3>2, <3>3
    <3>. HIDE DEF old
    <3>5. CASE h = ended
      <4>1. h # None
        BY ProcessTreeAssumption DEF Handles
      <4>2. /\ h # p /\ Died(objs, h) = now + 1 /\ Born(objs, h) = Born(old, h)
            /\ h \notin stopped' => life'[h] = "waited"
            /\ h \in told' => h \in told \/ Born(objs, h) # 0
        BY <1>2, <3>5, <4>1 DEF old
      <4>3. calls'[h].last = calls[h].last
        BY <2>1, <4>2
      <4>. QED  BY <2>1, <3>1, <3>4, <4>2, <4>3
    <3>6. CASE h # ended
      <4>1. /\ Died(objs, h) = Died(old, h)
            /\ Born(objs, h) = Born(old, h) \/ (Born(objs, h) = now + 1 /\ life[h] # "waited")
            /\ h \in told' => h \in told \/ Born(objs, h) # 0
            /\ h \in stopped => h \in stopped'
            /\ Born(objs, p) # 0
        BY <1>2, <3>6 DEF DateMoves, old
      <4>2. Born(objs, h) <= lastTimeStamp'
        BY <2>1, <3>4, <4>1
      <4>3. Born(objs, h) = 0 => calls'[h].last = 0 /\ h \notin told'
        <5>. SUFFICES ASSUME Born(objs, h) = 0 PROVE calls'[h].last = 0 /\ h \notin told'
          OBVIOUS
        <5>1. now + 1 # 0
          BY <2>1
        <5>2. Born(old, h) = 0 /\ h # p
          BY <4>1, <5>1
        <5>. QED  BY <2>1, <3>1, <4>1, <5>2
      <4>4. ASSUME Died(objs, h) # 0, h \notin stopped'
            PROVE  /\ life'[h] = "waited" /\ Born(objs, h) <= Died(objs, h)
                   /\ calls'[h].last <= Died(objs, h)
        <5>1. Died(old, h) # 0 /\ h \notin stopped
          BY <4>1, <4>4
        <5>2. life[h] = "waited" /\ h # p /\ Born(objs, h) = Born(old, h)
          BY <2>2, <3>1, <4>1, <5>1
        <5>. QED  BY <2>1, <3>1, <4>1, <5>1, <5>2
      <4>. QED  BY <4>2, <4>3, <4>4
    <3>. QED  BY <3>5, <3>6
  <2>. QED  BY <2>1, <2>3 DEF DatesOK
<1>. QED  BY <1>1, <1>2

(* A process which makes a call, or was just created, has not ended.       *)
LEMMA ParsedMoves ==
  ASSUME IInv, TopIsKnown, NEW p \in Pids, life[p] = "running"
  PROVE  /\ LinePid(p) = p /\ now \in Nat
         /\ ObjectsTyped(Parsed(p)) /\ DOMAIN Parsed(p) = Known \cup {p}
         /\ \A h \in Pids : DateMoves(Parsed(p), h)
         /\ \A h \in Pids : h # p => Born(Parsed(p), h) = Born(G_mapCacheObjects, h)
         /\ Born(Parsed(p), p) # 0
<1>. DEFINE old  == G_mapCacheObjects
            date == IF Born(old, p) = 0 THEN now + 1 ELSE Born(old, p)
            new  == Parsed(p)
<1>1. LinePid(p) = p /\ p \in Handles /\ now \in Nat
  BY LineFacts DEF IInv, TypeOK, Handles
<1>2. ObjectsTyped(old)
  BY DEF IInv, ObjectsOK
<1>3. BornAt(old, new, p, date)
  BY <1>1, <1>2, ParsedDates DEF Parsed
<1>. HIDE DEF new
<1>4. /\ DOMAIN new = Known \cup {p} /\ ObjectsTyped(new)
      /\ \A h \in Pids : /\ Born(new, h) = IF h = p THEN date ELSE Born(old, h)
                         /\ Died(new, h) = Died(old, h)
  BY <1>3 DEF BornAt, Known, Handles
<1>5. date # 0 /\ (date = now + 1 \/ date = Born(old, p))
  BY <1>1
<1>6. \A h \in Pids : DateMoves(new, h)
  BY <1>4, <1>5 DEF DateMoves
<1>. QED  BY <1>1, <1>4, <1>5, <1>6 DEF new

LEMMA CreatedMoves ==
  ASSUME IInv, TopIsKnown, NEW p \in Pids, life[p] = "running",
         NEW q \in Handles, q # p, q \in Pids => life[q] # "waited"
  PROVE  LET new == AddParentProcess(Parsed(p), q, LinePid(p))
         IN  /\ \A h \in Pids : DateMoves(new, h)
             /\ Born(new, p) # 0 /\ Born(new, q) # 0
<1>. DEFINE old    == G_mapCacheObjects
            parsed == Parsed(p)
            new    == AddParentProcess(parsed, q, p)
<1>1. /\ LinePid(p) = p /\ now \in Nat /\ p \in DOMAIN parsed
      /\ ObjectsTyped(parsed) /\ \A h \in Pids : DateMoves(parsed, h)
      /\ Born(parsed, p) # 0
  BY ParsedMoves
<1>. HIDE DEF parsed
<1>2. BornAt(parsed, new, q, now + 1)
  BY <1>1, AddParentDates
<1>. HIDE DEF new
<1>3. \A h \in Handles : /\ Born(new, h) = IF h = q THEN now + 1 ELSE Born(parsed, h)
                         /\ Died(new, h) = Died(parsed, h)
  BY <1>2 DEF BornAt
<1>4. now + 1 # 0
  BY <1>1
<1>5. \A h \in Pids : DateMoves(new, h)
  BY <1>1, <1>3 DEF DateMoves, Handles
<1>. QED  BY <1>1, <1>3, <1>4, <1>5 DEF new, parsed, Handles

LEMMA EndedMoves ==
  ASSUME IInv, TopIsKnown, NEW p \in Pids, life[p] = "running", NEW q \in Handles, q # p
  PROVE  LET new == WaitProcessEnd(Parsed(p), q, LinePid(p))
         IN  /\ \A h \in Pids : h # q => DateMoves(new, h)
             /\ Born(new, p) # 0
             /\ q \in Pids => Died(new, q) = now + 1 /\ Born(new, q) = Born(G_mapCacheObjects, q)
<1>. DEFINE parsed == Parsed(p)
            new    == WaitProcessEnd(parsed, q, p)
<1>1. /\ LinePid(p) = p /\ now \in Nat /\ p \in DOMAIN parsed
      /\ ObjectsTyped(parsed) /\ \A h \in Pids : DateMoves(parsed, h)
      /\ \A h \in Pids : h # p => Born(parsed, h) = Born(G_mapCacheObjects, h)
      /\ Born(parsed, p) # 0
  BY ParsedMoves
<1>. HIDE DEF parsed
<1>2. DiedAt(parsed, new, q, now + 1)
  BY <1>1, WaitDates
<1>. HIDE DEF new
<1>3. \A h \in Handles : /\ Born(new, h) = Born(parsed, h)
                         /\ Died(new, h) = IF h = q THEN now + 1 ELSE Died(parsed, h)
  BY <1>2 DEF DiedAt
<1>4. \A h \in Pids : h # q => DateMoves(new, h)
  BY <1>1, <1>3 DEF DateMoves, Handles
<1>. QED  BY <1>1, <1>3, <1>4 DEF new, parsed, Handles

(* A line during which nobody is created or ends.                          *)
LEMMA SteadyTimes ==
  ASSUME IInv, TimesOK, NEW p \in Pids, NEW objs, LogCall(p, objs), UNCHANGED <<life, pending>>
  PROVE  TimesOK'
<1>1. /\ lastTimeStamp' <= now' /\ (Known' # {} => lastTimeStamp' # 0)
      /\ \A r \in Pids : calls'[r].last <= lastTimeStamp'
  BY CallsOK
<1>. QED  BY <1>1 DEF TimesOK

LEMMA OtherCallDates ==
  ASSUME IInv, DatesInv, NEW p \in Pids, OtherCall(p)
  PROVE  DatesInv'
<1>. DEFINE objs == Parsed(p)
<1>1. LogCall(p, objs) /\ UNCHANGED <<analysis, life, pending, told, stopped>>
  BY DEF OtherCall
<1>2. /\ analysis = "reading" /\ life[p] = "running" /\ TimesOK
      /\ UNCHANGED <<G_topProcessId, tracer>> /\ (TopIsKnown => DatesOK)
  BY <1>1, LogIsReading
<1>3. TopIsKnown => Born(objs, p) # 0 /\ \A h \in Pids : DateMoves(objs, h)
  BY <1>2, ParsedMoves
<1>. HIDE DEF objs
<1>4. TopIsKnown => DatesOK'
  BY <1>1, <1>2, <1>3, LineDates
<1>5. TimesOK'
  BY <1>1, <1>2, SteadyTimes
<1>. QED  BY <1>1, <1>2, <1>4, <1>5, ReadDates

LEMMA CloneFailsDates ==
  ASSUME IInv, DatesInv, NEW p \in Pids, CloneFails(p)
  PROVE  DatesInv'
<1>. DEFINE given == AddParentProcess(Parsed(p), ErrorPid, LinePid(p))
            objs  == IF tracer = "strace" THEN Parsed(p) ELSE given
<1>1. /\ LogCall(p, objs) /\ UNCHANGED <<life, pending, told, stopped>>
      /\ analysis' \in {analysis, "raised"}
  BY DEF CloneFails
<1>2. /\ analysis = "reading" /\ life[p] = "running" /\ TimesOK
      /\ UNCHANGED <<G_topProcessId, tracer>> /\ (TopIsKnown => DatesOK)
  BY <1>1, LogIsReading
<1>3. ErrorPid \in Handles /\ ErrorPid \notin Pids /\ ErrorPid # p
  BY ProcessTreeAssumption DEF Handles
<1>4. ASSUME TopIsKnown
      PROVE  Born(objs, p) # 0 /\ \A h \in Pids : DateMoves(objs, h)
  <2>1. Born(Parsed(p), p) # 0 /\ \A h \in Pids : DateMoves(Parsed(p), h)
    BY <1>2, <1>4, ParsedMoves
  <2>2. Born(given, p) # 0 /\ \A h \in Pids : DateMoves(given, h)
    BY <1>2, <1>3, <1>4, CreatedMoves
  <2>. HIDE DEF given
  <2>. QED  BY <2>1, <2>2
<1>. HIDE DEF objs
<1>5. TopIsKnown => DatesOK'
  BY <1>1, <1>2, <1>4, LineDates
<1>6. TimesOK'
  BY <1>1, <1>2, SteadyTimes
<1>. QED  BY <1>1, <1>2, <1>5, <1>6, ReadDates

LEMMA WaitFailsDates ==
  ASSUME IInv, DatesInv, NEW p \in Pids, WaitFails(p)
  PROVE  DatesInv'
<1>. DEFINE handle == IF tracer = "strace" THEN NoPid ELSE ErrorPid
            objs   == WaitProcessEnd(Parsed(p), handle, LinePid(p))
<1>1. /\ LogCall(p, objs) /\ UNCHANGED <<life, pending, told, stopped>>
      /\ analysis' \in {analysis, "raised"}
  BY DEF WaitFails
<1>2. /\ analysis = "reading" /\ life[p] = "running" /\ TimesOK
      /\ UNCHANGED <<G_topProcessId, tracer>> /\ (TopIsKnown => DatesOK)
  BY <1>1, LogIsReading
<1>3. handle \in Handles /\ handle \notin Pids /\ handle # p
  BY ProcessTreeAssumption DEF Handles
<1>. HIDE DEF handle
<1>4. ASSUME TopIsKnown
      PROVE  Born(objs, p) # 0 /\ \A h \in Pids : DateMoves(objs, h)
  <2>1. Born(objs, p) # 0 /\ \A h \in Pids : h # handle => DateMoves(objs, h)
    BY <1>2, <1>3, <1>4, EndedMoves
  <2>. QED  BY <1>3, <2>1
<1>. HIDE DEF objs
<1>5. TopIsKnown => DatesOK'
  BY <1>1, <1>2, <1>4, LineDates
<1>6. TimesOK'
  BY <1>1, <1>2, SteadyTimes
<1>. QED  BY <1>1, <1>2, <1>5, <1>6, ReadDates

(* A process is waited for once the call that created it has returned.     *)
LEMMA WaitDatesOK ==
  ASSUME IInv, DatesInv, NEW p \in Pids, NEW q \in Pids, Wait(p, q)
  PROVE  DatesInv'
<1>. DEFINE objs == WaitProcessEnd(Parsed(p), q, LinePid(p))
<1>1. /\ pending[p] = None /\ creator[q] = p /\ LogCall(p, objs)
      /\ UNCHANGED <<analysis, pending, told>>
  BY DEF Wait
<1>2. /\ analysis = "reading" /\ life[p] = "running" /\ TimesOK
      /\ UNCHANGED <<G_topProcessId, tracer>> /\ (TopIsKnown => DatesOK)
  BY <1>1, LogIsReading
<1>3. q # p /\ q \in Handles
  BY <1>1, ChildIsOther DEF Handles
<1>4. \/ /\ life[q] = "exited" /\ life'[q] = "waited"
         /\ \A r \in Pids : r # q => life'[r] = life[r]
         /\ stopped' = IF held THEN stopped ELSE stopped \ {q}
      \/ /\ life' = life
         /\ stopped' = IF held THEN stopped ELSE stopped \cup {q}
  BY DEF Wait, IInv, TypeOK
<1>5. TopIsKnown => /\ \A h \in Pids : h # q => DateMoves(objs, h)
                    /\ Born(objs, p) # 0
                    /\ Died(objs, q) = now + 1 /\ Born(objs, q) = Born(G_mapCacheObjects, q)
  BY <1>2, <1>3, EndedMoves
<1>. HIDE DEF objs
<1>6. ASSUME ~held
      PROVE  /\ q \notin stopped' => life'[q] = "waited"
             /\ \A h \in Pids : h # q /\ h \in stopped => h \in stopped'
  BY <1>4, <1>6
<1>7. held => stopped' = stopped
  BY <1>4
<1>8. \A h \in Pids : life[h] = "waited" => life'[h] = "waited"
  BY <1>4
<1>9. TopIsKnown => DatesOK'
  BY <1>1, <1>2, <1>3, <1>5, <1>6, <1>7, <1>8, LineDates
<1>10. TimesOK'
  <2>1. /\ lastTimeStamp' <= now' /\ (Known' # {} => lastTimeStamp' # 0)
        /\ \A r \in Pids : calls'[r].last <= lastTimeStamp'
    BY <1>1, <1>2, CallsOK
  <2>2. ASSUME NEW r \in Pids, pending[r] # None
        PROVE  life'[pending[r].child] # "waited"
    <3>1. pending[r].child \in Pids /\ creator[pending[r].child] = r /\ r # p
      BY <1>1, <2>2 DEF IInv, TypeOK, PendingCalls, ProcessesOK
    <3>2. pending[r].child # q
      BY <1>1, <3>1
    <3>. QED  BY <1>2, <1>4, <2>2, <3>1, <3>2 DEF TimesOK
  <2>. QED  BY <1>1, <2>1, <2>2 DEF TimesOK
<1>. QED  BY <1>1, <1>2, <1>9, <1>10, ReadDates

LEMMA SignalDates ==
  ASSUME IInv, DatesInv, NEW p \in Pids, Signal(p)
  PROVE  DatesInv'
<1>1. UNCHANGED <<G_topProcessId, G_mapCacheObjects, tracer, lastTimeStamp, analysis, now, life,
                  pending, told, stopped, calls>>
  BY DEF Signal, historyVars
<1>. QED  BY <1>1 DEF DatesInv, TimesOK, DatesOK, DatesAgree, TopIsKnown, Born, Died, Known

LEMMA ExitDates ==
  ASSUME IInv, DatesInv, NEW p \in Pids, Exit(p)
  PROVE  DatesInv'
<1>1. /\ analysis = "reading" /\ life[p] = "running" /\ life' = [life EXCEPT ![p] = "exited"]
      /\ pending' = [pending EXCEPT ![p] = None]
      /\ UNCHANGED <<G_topProcessId, G_mapCacheObjects, tracer, lastTimeStamp, analysis, now,
                     told, stopped, calls>>
  BY DEF Exit, historyVars
<1>2. \A r \in Pids : /\ life'[r] = IF r = p THEN "exited" ELSE life[r]
                      /\ pending'[r] = IF r = p THEN None ELSE pending[r]
  BY <1>1 DEF IInv, TypeOK
<1>3. TimesOK
  BY DEF DatesInv
<1>4. ASSUME NEW r \in Pids, pending'[r] # None
      PROVE  life'[pending'[r].child] # "waited"
  <2>1. pending'[r] = pending[r] /\ pending[r].child \in Pids
    BY <1>2, <1>4 DEF IInv, TypeOK, PendingCalls
  <2>. QED  BY <1>2, <1>3, <1>4, <2>1 DEF TimesOK
<1>5. TimesOK'
  BY <1>1, <1>3, <1>4 DEF TimesOK, Known
<1>6. ASSUME TopIsKnown
      PROVE  DatesOK'
  <2>1. DatesOK
    BY <1>1, <1>6 DEF DatesInv
  <2>. QED  BY <1>1, <1>2, <2>1 DEF DatesOK, Born, Died
<1>. QED  BY <1>1, <1>5, <1>6, ReadDates

LEMMA EndOfLogDates ==
  ASSUME IInv, DatesInv, EndOfLog
  PROVE  DatesInv'
<1>. DEFINE old == G_mapCacheObjects
            new == IF lastTimeStamp = 0 THEN old ELSE GlobalTerminationDate(old)
<1>1. /\ analysis = "reading" /\ analysis' = "done" /\ G_mapCacheObjects' = new
      /\ UNCHANGED <<G_topProcessId, tracer, lastTimeStamp, now, life, pending, told, stopped, calls>>
  BY DEF EndOfLog, historyVars
<1>2. DOMAIN new = Known
  BY DEF Known, GlobalTerminationDate
<1>3. TimesOK /\ TimesOK'
  BY <1>1, <1>2 DEF DatesInv, TimesOK, Known
<1>4. ASSUME TopIsKnown, NEW p \in Known \cap Pids
      PROVE  /\ new[p].TerminationDate # 0
             /\ p \notin stopped => /\ calls[p].last <= new[p].TerminationDate
                                    /\ new[p].CreationDate <= new[p].TerminationDate
             /\ new[p].CreationDate = 0 => calls[p].last = 0 /\ p \notin told
  <2>1. /\ old[p] \in Objects /\ lastTimeStamp \in Nat /\ lastTimeStamp # 0
        /\ calls[p].last <= lastTimeStamp
    BY <1>3 DEF IInv, TypeOK, Known, TimesOK
  <2>2. /\ old[p].CreationDate <= lastTimeStamp
        /\ old[p].CreationDate = 0 => calls[p].last = 0 /\ p \notin told
        /\ old[p].TerminationDate # 0 /\ p \notin stopped =>
             /\ old[p].CreationDate <= old[p].TerminationDate
             /\ calls[p].last <= old[p].TerminationDate
    <3>1. DatesOK
      BY <1>1, <1>4 DEF DatesInv
    <3>. QED  BY <3>1 DEF DatesOK, Born, Died, Known
  <2>3. new[p] = [old[p] EXCEPT !.TerminationDate = IF @ = 0 THEN lastTimeStamp ELSE @]
    BY <2>1 DEF GlobalTerminationDate, Known
  <2>4. /\ new[p].CreationDate = old[p].CreationDate
        /\ new[p].TerminationDate = IF old[p].TerminationDate = 0 THEN lastTimeStamp
                                    ELSE old[p].TerminationDate
    <3>. HIDE DEF new
    <3>. QED  BY <2>1, <2>3 DEF Objects
  <2>. HIDE DEF new, old
  <2>. QED  BY <2>1, <2>2, <2>4
<1>. HIDE DEF new
<1>5. DatesAgree'
  BY <1>1, <1>2, <1>4 DEF DatesAgree, TopIsKnown, Known
<1>. QED  BY <1>1, <1>3, <1>5 DEF DatesInv

LEMMA CreatedTimes ==
  ASSUME IInv, TimesOK, NEW p \in Pids, NEW q \in Pids, Create(p, q), NEW objs, LogCall(p, objs),
         \A r \in Pids : pending'[r] = pending[r] \/ pending'[r].child = q
  PROVE  /\ q # p /\ life[q] = "new"
         /\ \A r \in Pids : life[r] = "waited" => life'[r] = "waited"
         /\ TimesOK'
<1>1. /\ q # p /\ life[q] = "new" /\ life'[q] = "running"
      /\ \A r \in Pids : r # q => life'[r] = life[r]
  <2>1. life[p] = "running"
    BY DEF LogCall
  <2>2. life[q] = "new"
    BY DEF Create
  <2>3. /\ q # p /\ life'[q] = "running" /\ \A r \in Pids : r # q => life'[r] = life[r]
    BY <2>1, CreateFacts
  <2>. QED  BY <2>2, <2>3
<1>2. ASSUME NEW r \in Pids, pending'[r] # None
      PROVE  life'[pending'[r].child] # "waited"
  <2>1. CASE pending'[r].child = q
    BY <1>1, <2>1
  <2>2. CASE pending'[r] = pending[r]
    <3>1. pending[r].child \in Pids /\ life[pending[r].child] # "waited"
      BY <1>2, <2>2 DEF IInv, TypeOK, PendingCalls, TimesOK
    <3>. QED  BY <1>1, <2>2, <3>1
  <2>. QED  BY <1>2, <2>1, <2>2
<1>3. /\ lastTimeStamp' <= now' /\ (Known' # {} => lastTimeStamp' # 0)
      /\ \A r \in Pids : calls'[r].last <= lastTimeStamp'
  BY CallsOK
<1>4. TimesOK'
  BY <1>2, <1>3 DEF TimesOK
<1>. QED  BY <1>1, <1>4

LEMMA CloneDates ==
  ASSUME IInv, DatesInv, NEW p \in Pids, NEW q \in Pids, Clone(p, q)
  PROVE  DatesInv'
<1>. DEFINE objs == AddParentProcess(Parsed(p), q, LinePid(p))
<1>1. /\ Create(p, q) /\ LogCall(p, objs) /\ UNCHANGED <<analysis, pending, stopped>>
      /\ told' = IF held THEN told ELSE told \cup {q}
  BY DEF Clone
<1>2. /\ analysis = "reading" /\ life[p] = "running" /\ TimesOK
      /\ UNCHANGED <<G_topProcessId, tracer>> /\ (TopIsKnown => DatesOK)
  BY <1>1, LogIsReading
<1>. HIDE DEF objs
<1>3. /\ q # p /\ life[q] = "new" /\ TimesOK'
      /\ \A r \in Pids : life[r] = "waited" => life'[r] = "waited"
  BY <1>1, <1>2, CreatedTimes
<1>4. TopIsKnown => /\ \A h \in Pids : DateMoves(objs, h)
                    /\ Born(objs, p) # 0 /\ Born(objs, q) # 0
  BY <1>2, <1>3, CreatedMoves DEF objs, Handles
<1>5. TopIsKnown => DatesOK'
  BY <1>1, <1>2, <1>3, <1>4, LineDates
<1>. QED  BY <1>1, <1>2, <1>3, <1>5, ReadDates

LEMMA CloneBeginDates ==
  ASSUME IInv, DatesInv, NEW p \in Pids, NEW q \in Pids, NEW call \in {"clone", "vfork"},
         CloneBegin(p, q, call)
  PROVE  DatesInv'
<1>. DEFINE objs == Parsed(p)
<1>1. /\ Create(p, q) /\ LogCall(p, objs) /\ UNCHANGED <<analysis, told, stopped>>
      /\ pending' = [pending EXCEPT ![p] = [child |-> q, call |-> call]]
  BY DEF CloneBegin
<1>2. /\ analysis = "reading" /\ life[p] = "running" /\ TimesOK
      /\ UNCHANGED <<G_topProcessId, tracer>> /\ (TopIsKnown => DatesOK)
  BY <1>1, LogIsReading
<1>3. \A r \in Pids : pending'[r] = pending[r] \/ pending'[r].child = q
  BY <1>1 DEF IInv, TypeOK
<1>4. TopIsKnown => Born(objs, p) # 0 /\ \A h \in Pids : DateMoves(objs, h)
  BY <1>2, ParsedMoves
<1>. HIDE DEF objs
<1>5. TimesOK' /\ \A r \in Pids : life[r] = "waited" => life'[r] = "waited"
  BY <1>1, <1>2, <1>3, CreatedTimes
<1>6. TopIsKnown => DatesOK'
  BY <1>1, <1>2, <1>4, <1>5, LineDates
<1>. QED  BY <1>1, <1>2, <1>5, <1>6, ReadDates

LEMMA CloneEndDates ==
  ASSUME IInv, DatesInv, NEW p \in Pids, CloneEnd(p)
  PROVE  DatesInv'
<1>. DEFINE q       == pending[p].child
            isVfork == pending[p].call = "vfork"
            found   == ~isVfork /\ unfinished[LinePid(p)] > 0
            linked  == AddParentProcess(Parsed(p), q, LinePid(p))
            objs    == IF isVfork \/ found THEN linked ELSE Parsed(p)
<1>1. /\ pending[p] # None /\ LogCall(p, objs)
      /\ told' = IF ~held /\ (isVfork \/ q \in begun) THEN told \cup {q} ELSE told
      /\ pending' = [pending EXCEPT ![p] = None] /\ UNCHANGED <<analysis, life, stopped>>
  BY DEF CloneEnd
<1>2. /\ analysis = "reading" /\ life[p] = "running" /\ TimesOK
      /\ UNCHANGED <<G_topProcessId, tracer>> /\ (TopIsKnown => DatesOK)
  BY <1>1, LogIsReading
<1>3. q \in Pids /\ creator[q] = p /\ q # p /\ life[q] # "waited"
  <2>1. q \in Pids /\ creator[q] = p /\ life[q] # "waited"
    BY <1>1, <1>2 DEF IInv, TypeOK, PendingCalls, ProcessesOK, TimesOK
  <2>. QED  BY <2>1, ChildIsOther
<1>4. TopIsKnown /\ (isVfork \/ q \in begun) => isVfork \/ found
  <2>1. pending[p] \in PendingCalls /\ unfinished \in [Handles -> Nat] /\ p \in Handles
    BY <1>1 DEF IInv, TypeOK, Handles
  <2>2. ~isVfork => pending[p].call = "clone"
    BY <2>1 DEF PendingCalls
  <2>3. TopIsKnown /\ pending[p].call = "clone" /\ q \in begun => unfinished[p] # 0
    BY <1>1 DEF IInv, CreatorsKnown
  <2>4. TopIsKnown => LinePid(p) = p
    BY <1>2, LineFacts
  <2>. QED  BY <2>1, <2>2, <2>3, <2>4
<1>5. ASSUME TopIsKnown
      PROVE  /\ Born(objs, p) # 0 /\ \A h \in Pids : DateMoves(objs, h)
             /\ isVfork \/ found => Born(objs, q) # 0
  <2>1. Born(Parsed(p), p) # 0 /\ \A h \in Pids : DateMoves(Parsed(p), h)
    BY <1>2, <1>5, ParsedMoves
  <2>2. Born(linked, p) # 0 /\ Born(linked, q) # 0 /\ \A h \in Pids : DateMoves(linked, h)
    <3>1. q \in Handles
      BY <1>3 DEF Handles
    <3>. QED  BY <1>2, <1>3, <1>5, <3>1, CreatedMoves
  <2>. HIDE DEF linked, isVfork, found
  <2>. QED  BY <2>1, <2>2
<1>. HIDE DEF objs, isVfork, found
<1>6. ASSUME TopIsKnown, ~held
      PROVE  \A h \in Pids : h \in told' => h \in told \/ Born(objs, h) # 0
  BY <1>1, <1>4, <1>5, <1>6
<1>7. held => told' = told
  BY <1>1
<1>8. TopIsKnown => DatesOK'
  BY <1>1, <1>2, <1>5, <1>6, <1>7, LineDates
<1>9. TimesOK'
  <2>1. \A r \in Pids : pending'[r] = IF r = p THEN None ELSE pending[r]
    BY <1>1 DEF IInv, TypeOK
  <2>2. \A r \in Pids : pending'[r] # None => life[pending'[r].child] # "waited"
    BY <1>2, <2>1 DEF TimesOK
  <2>3. /\ lastTimeStamp' <= now' /\ (Known' # {} => lastTimeStamp' # 0)
        /\ \A r \in Pids : calls'[r].last <= lastTimeStamp'
    BY <1>1, <1>2, CallsOK
  <2>. QED  BY <1>1, <2>2, <2>3 DEF TimesOK
<1>. QED  BY <1>1, <1>2, <1>8, <1>9, ReadDates

LEMMA NextDates == IInv /\ DatesInv /\ [Next]_vars => DatesInv'
<1>. SUFFICES ASSUME IInv, DatesInv, [Next]_vars
              PROVE  DatesInv'
  OBVIOUS
<1>1. CASE UNCHANGED vars
  BY <1>1 DEF vars, readerVars, historyVars, DatesInv, TimesOK, DatesOK, DatesAgree, TopIsKnown,
              Born, Died, Known
<1>2. ASSUME NEW p \in Pids, OtherCall(p) PROVE DatesInv'
  BY <1>2, OtherCallDates
<1>3. ASSUME NEW p \in Pids, Signal(p) PROVE DatesInv'
  BY <1>3, SignalDates
<1>4. ASSUME NEW p \in Pids, CloneEnd(p) PROVE DatesInv'
  BY <1>4, CloneEndDates
<1>5. ASSUME NEW p \in Pids, CloneFails(p) PROVE DatesInv'
  BY <1>5, CloneFailsDates
<1>6. ASSUME NEW p \in Pids, WaitFails(p) PROVE DatesInv'
  BY <1>6, WaitFailsDates
<1>7. ASSUME NEW p \in Pids, Exit(p) PROVE DatesInv'
  BY <1>7, ExitDates
<1>8. ASSUME NEW p \in Pids, NEW q \in Pids, Clone(p, q) PROVE DatesInv'
  BY <1>8, CloneDates
<1>9. ASSUME NEW p \in Pids, NEW q \in Pids, Wait(p, q) PROVE DatesInv'
  BY <1>9, WaitDatesOK
<1>10. ASSUME NEW p \in Pids, NEW q \in Pids, NEW call \in {"clone", "vfork"}, CloneBegin(p, q, call)
       PROVE  DatesInv'
  BY <1>10, CloneBeginDates
<1>11. CASE EndOfLog
  BY <1>11, EndOfLogDates
<1>. QED  BY <1>1, <1>2, <1>3, <1>4, <1>5, <1>6, <1>7, <1>8, <1>9, <1>10, <1>11 DEF Next

(* The dates of a process agree with those of its lines that are read,     *)
(* whatever the order of the lines of the processes, whichever of them the *)
(* lines of exits make the reader lose, and though wait4 may report a      *)
(* process that has only stopped.                                          *)
THEOREM DatesAreConsistent == Spec => []DatesAgree
<1>1. Init => IInv /\ DatesInv
  <2>. SUFFICES ASSUME Init
                PROVE  DatesInv
    BY InitIInv
  <2>1. /\ Known = {} /\ now = 0 /\ lastTimeStamp = 0 /\ analysis = "reading" /\ told = {}
        /\ \A p \in Pids : calls[p].last = 0 /\ pending[p] = None
    BY DEF Init, Known
  <2>2. TimesOK
    BY <2>1 DEF TimesOK
  <2>3. DatesOK
    BY <2>1 DEF DatesOK, Born, Died, Known
  <2>. QED  BY <2>1, <2>2, <2>3 DEF DatesInv
<1>2. IInv /\ DatesInv /\ [Next]_vars => (IInv /\ DatesInv)'
  BY NextIInv, NextDates
<1>3. IInv /\ DatesInv => DatesAgree
  <2>. SUFFICES ASSUME IInv, DatesInv, analysis # "done", TopIsKnown, NEW p \in Known \cap Pids
                PROVE  LET object == G_mapCacheObjects[p]
                       IN  /\ object.TerminationDate # 0 /\ p \notin stopped =>
                                /\ calls[p].last <= object.TerminationDate
                                /\ object.CreationDate <= object.TerminationDate
                           /\ object.CreationDate = 0 => calls[p].last = 0 /\ p \notin told
    BY DEF DatesInv, DatesAgree
  <2>. QED  BY DEF DatesInv, DatesOK, Born, Died, Known
<1>. QED  BY <1>1, <1>2, <1>3, PTL DEF Spec

=============================================================================
