-------------------------- MODULE DockitTraceProofs --------------------------
(***************************************************************************)
(* Proofs about DockitTrace.  What CallMatchingProofs shows of any log is  *)
(* true of the log of a tracer; what is proved here needs the tracer's own *)
(* rules: of a process and function whose lines are intact, the calls that *)
(* wait on the stacks of the reader are those which the process has not    *)
(* finished, whatever happens to the other lines.                          *)
(***************************************************************************)
EXTENDS DockitTrace, CallMatchingProofs

(* What the tracer knows is written in the log.                            *)
LinesOK == \A i \in 1..Len(log) : WellFormed(log[i])

PendingOK ==
  \A p \in Pids : \A x : Member(pending[p], x) =>
    x \in 1..Len(log) /\ log[x].kind = "unfinished" /\ log[x].pid = p

(* The reader waits for more text when the last line is not closed, and    *)
(* has kept a line which was not.                                          *)
WaitsForEnd ==
  /\ oneLine # <<>> => \E j \in 1..Len(log) : Head(oneLine) = Seen(log[j]) /\ ~log[j].closed
  /\ oneLine = <<>> \/ ended \/ (Len(log) > 0 /\ ~log[Len(log)].closed)

TracerInv ==
  /\ TracerTypeOK /\ LinesOK /\ PendingOK /\ WaitsForEnd
  /\ ended \/ numLine = Len(log)

PendingInOrder == \A p \in Pids : Increasing(pending[p])

(* The cores are in the order of the log.                                  *)
CoresInOrder(cs) ==
  \A c, d \in 1..Len(cs) : c < d => cs[c].numLine < cs[d].numLine

OrderInv == CoresInOrder(cores) /\ \A c \in 1..Len(cores) : cores[c].numLine <= numLine

-----------------------------------------------------------------------------
(* Of one process and one function.                                        *)

Named(core, p, f) == core.pid = p /\ core.funcNam \in {<<f, "@SYS">>, <<f, "">>}

(* A core has the process and the function of its line in the log l.       *)
CoresOK(cs, l, p, f) ==
  \A c \in 1..Len(cs) : Named(cs[c], p, f) =>
    /\ cs[c].numLine \in 1..Len(l)
    /\ LET line == l[cs[c].numLine]
       IN  /\ line.pid = p /\ line.func = f /\ cs[c].funcNam = SetFunction(line)
           /\ cs[c].status = "unfinished" => line.kind = "unfinished"

SysNamed(core, p, f) == core.pid = p /\ core.funcNam = <<f, "@SYS">>

OneCall(cs, l, p, f) ==
  \A c \in 1..Len(cs) : SysNamed(cs[c], p, f) /\ cs[c].status = "merged" =>
    l[cs[c].numLine].begin = cs[cs[c].half].numLine

(* If the process still runs, its call that waits is pending.  This is not *)
(* true of the library calls that ltrace logs, whose second half has the   *)
(* name of a system call.                                                  *)
AwaitedArePending(p, f) ==
  life[p] # "gone" =>
    \A c \in 1..Len(cores) :
      Awaited(cores[c]) /\ SysNamed(cores[c], p, f) => Member(pending[p], cores[c].numLine)

PendingHaveCores(p, f) ==
  \A x : Member(pending[p], x) /\ log[x].func = f =>
    \E c \in 1..Len(cores) :
      cores[c].numLine = x /\ cores[c].status = "unfinished" /\ Named(cores[c], p, f)

PairOK(p, f) ==
  /\ CoresOK(cores, log, p, f) /\ OneCall(cores, log, p, f)
  /\ AwaitedArePending(p, f) /\ PendingHaveCores(p, f)

MatchInv == allParsed => \A p \in Pids, f \in Functions : Intact(p, f) => PairOK(p, f)

-----------------------------------------------------------------------------
(* The lines of the tracer.                                                *)

(* The line was added to the log.                                          *)
Wrote(line) ==
  /\ line \in Lines /\ WellFormed(line) /\ Len(log) \in Nat /\ Len(log) < MaxLines
  /\ log' \in Seq(Lines) /\ Len(log') = Len(log) + 1 /\ log'[Len(log')] = line
  /\ \A i \in 1..Len(log) : log'[i] = log[i]

LEMMA Written ==
  ASSUME TracerInv, NEW line \in Lines, Write(line)
  PROVE  Wrote(line)
<1>1. log \in Seq(Lines) /\ log' = Append(log, line) /\ Len(log) < MaxLines /\ WellFormed(line)
  BY DEF TracerInv, TracerTypeOK, Write
<1>2. /\ Len(log) \in Nat /\ log' \in Seq(Lines) /\ Len(log') = Len(log) + 1
      /\ log'[Len(log) + 1] = line /\ \A i \in 1..Len(log) : log'[i] = log[i]
  BY <1>1
<1>. QED  BY <1>1, <1>2 DEF Wrote

LEMMA LineType ==
  ASSUME NEW kind \in CallKinds \cup {"signal", "exit", "text"}, NEW p \in Pids,
         NEW f \in Functions \cup {Nothing}, NEW begin \in Nat, NEW closed \in BOOLEAN
  PROVE  LET line == Line(kind, p, f, begin, closed)
         IN  /\ line \in Lines /\ line.kind = kind /\ line.pid = p /\ line.func = f
             /\ line.begin = begin /\ line.closed = closed /\ line.shown = Shown(p)
<1>. DEFINE shown == Shown(p)
            line  == Line(kind, p, f, begin, closed)
<1>1. shown \in Pids \cup {Nothing}
  BY DEF Shown
<1>2. line = [kind |-> kind, pid |-> p, shown |-> shown, func |-> f, begin |-> begin,
              closed |-> closed]
  BY DEF Line
<1>. HIDE DEF shown, line
<1>3. /\ line.kind = kind /\ line.pid = p /\ line.func = f
      /\ line.begin = begin /\ line.closed = closed /\ line.shown = shown
  BY <1>2
<1>4. line \in Lines
  BY <1>1, <1>2 DEF Lines
<1>. QED  BY <1>3, <1>4 DEF line, shown

LEMMA OtherType ==
  ASSUME NEW kind \in {"signal", "exit", "text"}, NEW p \in Pids, NEW closed \in BOOLEAN
  PROVE  /\ Line(kind, p, Nothing, 0, closed) \in Lines
         /\ Line(kind, p, Nothing, 0, closed).kind = kind
<1>1. kind \in CallKinds \cup {"signal", "exit", "text"} /\ Nothing \in Functions \cup {Nothing}
  OBVIOUS
<1>2. \A f \in Functions \cup {Nothing}, b \in Nat :
        LET line == Line(kind, p, f, b, closed) IN line \in Lines /\ line.kind = kind
  BY <1>1, LineType
<1>3. 0 \in Nat
  OBVIOUS
<1>. QED  BY <1>1, <1>2, <1>3, Zenon

(* What each action of the tracer writes, and about whom.                  *)
LEMMA CallSays ==
  ASSUME TracerInv, NEW p \in Pids, NEW f \in Functions, NEW closed \in BOOLEAN,
         Call(p, f, closed)
  PROVE  /\ UNCHANGED <<life, pending>>
         /\ \E line : Wrote(line) /\ line.kind = "plain" /\ line.pid = p /\ line.func = f
<1>. DEFINE line == Line("plain", p, f, 0, closed)
<1>1. Write(line) /\ UNCHANGED <<life, pending>>
  BY DEF Call
<1>2. line \in Lines /\ line.kind = "plain" /\ line.pid = p /\ line.func = f
  BY LineType DEF CallKinds
<1>. HIDE DEF line
<1>. QED  BY <1>1, <1>2, Written

LEMMA BeginSays ==
  ASSUME TracerInv, NEW p \in Pids, NEW f \in Functions, Begin(p, f)
  PROVE  /\ UNCHANGED life
         /\ \E line : Wrote(line) /\ line.kind = "unfinished" /\ line.pid = p /\ line.func = f
         /\ pending' \in [Pids -> Seq(Nat)]
         /\ \A q \in Pids : q # p => pending'[q] = pending[q]
         /\ \A x : Member(pending'[p], x) <=> Member(pending[p], x) \/ x = Len(log) + 1
         /\ Increasing(pending[p]) => Increasing(pending'[p])
<1>. DEFINE line == Line("unfinished", p, f, 0, TRUE)
<1>1. /\ Write(line) /\ UNCHANGED life
      /\ pending' = [pending EXCEPT ![p] = Append(@, Len(log) + 1)]
  BY DEF Begin
<1>2. line \in Lines /\ line.kind = "unfinished" /\ line.pid = p /\ line.func = f
  <2>1. \A closed \in BOOLEAN :
          LET l == Line("unfinished", p, f, 0, closed)
          IN  l \in Lines /\ l.kind = "unfinished" /\ l.pid = p /\ l.func = f
    BY LineType DEF CallKinds
  <2>. QED  BY <2>1, Zenon
<1>. HIDE DEF line
<1>3. Wrote(line)
  BY <1>1, <1>2, Written
<1>5. pending \in [Pids -> Seq(Nat)] /\ pending[p] \in Seq(Nat) /\ Len(log) + 1 \in Nat
  BY <1>3 DEF TracerInv, TracerTypeOK, Wrote
<1>. DEFINE t == Append(pending[p], Len(log) + 1)
<1>6. \A x : Member(pending[p], x) => x < Len(log) + 1
  BY <1>5 DEF TracerInv, PendingOK
<1>7. /\ t \in Seq(Nat)
      /\ \A x : Member(t, x) <=> Member(pending[p], x) \/ x = Len(log) + 1
      /\ Increasing(pending[p]) => Increasing(t)
  BY <1>5, <1>6, Pushed
<1>8. pending' = [pending EXCEPT ![p] = t]
  BY <1>1
<1>. HIDE DEF t
<1>9. /\ pending' \in [Pids -> Seq(Nat)] /\ pending'[p] = t
      /\ \A q \in Pids : q # p => pending'[q] = pending[q]
  BY <1>5, <1>7, <1>8
<1>. QED  BY <1>1, <1>2, <1>3, <1>7, <1>9

(* The line named in the second half of a call is the innermost pending    *)
(* one, which no longer is.                                                *)
EndOf(line, b, p) ==
  /\ Wrote(line) /\ line.kind = "resumed" /\ line.pid = p /\ line.begin = b
  /\ b \in 1..Len(log) /\ line.func = log[b].func /\ line.func \in Functions
  /\ Member(pending[p], b)
  /\ Increasing(pending[p]) =>
       /\ Increasing(pending'[p])
       /\ \A x : Member(pending'[p], x) <=> Member(pending[p], x) /\ x # b
       /\ \A x : Member(pending[p], x) => x <= b

LEMMA EndSays ==
  ASSUME TracerInv, NEW p \in Pids, NEW closed \in BOOLEAN, End(p, closed)
  PROVE  /\ UNCHANGED life /\ life[p] = "running"
         /\ \E line, b : EndOf(line, b, p)
         /\ pending' \in [Pids -> Seq(Nat)]
         /\ \A q \in Pids : q # p => pending'[q] = pending[q]
         /\ \A x : Member(pending'[p], x) => Member(pending[p], x)
<1>. DEFINE s     == pending[p]
            begin == s[Len(s)]
            f     == log[begin].func
            front == SubSeq(s, 1, Len(s) - 1)
            line  == Line("resumed", p, f, begin, closed)
<1>1. /\ life[p] = "running" /\ s # <<>> /\ Write(line) /\ UNCHANGED life
      /\ pending' = [pending EXCEPT ![p] = front]
  BY DEF End
<1>2. pending \in [Pids -> Seq(Nat)] /\ s \in Seq(Nat) /\ log \in Seq(Lines)
  BY DEF TracerInv, TracerTypeOK
<1>. HIDE DEF s, f
<1>3. /\ front \in Seq(Nat) /\ Member(s, begin)
      /\ \A x : Member(front, x) => Member(s, x)
      /\ Increasing(s) => /\ Increasing(front)
                          /\ \A x : Member(front, x) <=> Member(s, x) /\ x # begin
  BY <1>1, <1>2, Popped
<1>4. ASSUME Increasing(s), NEW x, Member(s, x)
      PROVE  x <= begin
  BY <1>2, <1>4 DEF Increasing, Member
<1>. HIDE DEF begin, front
<1>5. begin \in 1..Len(log) /\ log[begin].kind = "unfinished"
  BY <1>3 DEF TracerInv, PendingOK, s
<1>7. f \in Functions /\ begin \in Nat
  <2>1. log[begin] \in Lines /\ WellFormed(log[begin])
    BY <1>2, <1>5 DEF TracerInv, LinesOK
  <2>. QED  BY <1>5, <2>1 DEF Lines, WellFormed, CallKinds, f
<1>8. /\ line \in Lines /\ line.kind = "resumed" /\ line.pid = p /\ line.func = f
      /\ line.begin = begin
  BY <1>7, LineType DEF CallKinds
<1>. HIDE DEF line
<1>9. Wrote(line)
  BY <1>1, <1>8, Written
<1>10. /\ pending' \in [Pids -> Seq(Nat)] /\ pending'[p] = front
       /\ \A q \in Pids : q # p => pending'[q] = pending[q]
  BY <1>1, <1>2, <1>3
<1>11. /\ Member(pending[p], begin)
       /\ Increasing(pending[p]) =>
            /\ Increasing(pending'[p])
            /\ \A x : Member(pending'[p], x) <=> Member(pending[p], x) /\ x # begin
            /\ \A x : Member(pending[p], x) => x <= begin
  BY <1>3, <1>4, <1>10, Zenon DEF s
<1>12. \A x : Member(pending'[p], x) => Member(pending[p], x)
  BY <1>3, <1>10, Zenon DEF s
<1>13. line.func = log[begin].func
  BY <1>8 DEF f
<1>14. EndOf(line, begin, p)
  BY <1>5, <1>7, <1>8, <1>9, <1>11, <1>13 DEF EndOf
<1>. QED  BY <1>1, <1>10, <1>12, <1>14

LEMMA SignalSays ==
  ASSUME TracerInv, NEW p \in Pids, Signal(p)
  PROVE  UNCHANGED <<life, pending>> /\ \E line : Wrote(line) /\ line.kind = "signal"
<1>. DEFINE line == Line("signal", p, Nothing, 0, TRUE)
<1>1. Write(line) /\ UNCHANGED <<life, pending>>
  BY DEF Signal
<1>2. line \in Lines /\ line.kind = "signal"
  BY OtherType
<1>. HIDE DEF line
<1>. QED  BY <1>1, <1>2, Written

LEMMA TextSays ==
  ASSUME TracerInv, NEW closed \in BOOLEAN, Text(closed)
  PROVE  UNCHANGED <<life, pending>> /\ \E line : Wrote(line) /\ line.kind = "text"
<1>. DEFINE line == [Line("text", TopPid, Nothing, 0, closed) EXCEPT !.shown = Nothing]
<1>1. Write(line) /\ UNCHANGED <<life, pending>>
  BY DEF Text
<1>2. line \in Lines /\ line.kind = "text"
  <2>. DEFINE l == Line("text", TopPid, Nothing, 0, closed)
  <2>1. l \in Lines /\ l.kind = "text"
    BY OtherType, TracerAssumption
  <2>. HIDE DEF l
  <2>2. [l EXCEPT !.shown = Nothing] \in Lines /\ [l EXCEPT !.shown = Nothing].kind = "text"
    BY <2>1 DEF Lines
  <2>. QED  BY <2>2 DEF l
<1>. HIDE DEF line
<1>. QED  BY <1>1, <1>2, Written

(* The exit of a process is seldom written by strace.                      *)
LEMMA ExitSays ==
  ASSUME TracerInv, NEW p \in Pids, Exit(p)
  PROVE  /\ log' = log \/ \E line : Wrote(line) /\ line.kind = "exit"
         /\ \A q \in Pids : /\ life'[q] = IF q = p THEN "gone" ELSE life[q]
                            /\ pending'[q] = IF q = p THEN <<>> ELSE pending[q]
         /\ life' \in [Pids -> {"new", "running", "gone"}]
         /\ pending' \in [Pids -> Seq(Nat)]
<1>. DEFINE line == Line("exit", p, Nothing, 0, FALSE)
<1>1. log' = log \/ Write(line)
  BY DEF Exit
<1>2. line \in Lines /\ line.kind = "exit"
  BY OtherType
<1>. HIDE DEF line
<1>3. /\ \A q \in Pids : /\ life'[q] = IF q = p THEN "gone" ELSE life[q]
                         /\ pending'[q] = IF q = p THEN <<>> ELSE pending[q]
      /\ life' \in [Pids -> {"new", "running", "gone"}]
      /\ pending' \in [Pids -> Seq(Nat)]
  BY DEF Exit, TracerInv, TracerTypeOK
<1>. QED  BY <1>1, <1>2, <1>3, Written

-----------------------------------------------------------------------------
(* The reader takes the log of a tracer for one log among others.          *)

LEMMA SameForReader ==
  ASSUME NEW line \in Lines
  PROVE  LET seen == Seen(line)
         IN  /\ seen \in Lines /\ seen.pid = G_topProcessId /\ seen.begin = 0
             /\ seen.kind = line.kind /\ seen.shown = line.shown
             /\ seen.func = line.func /\ seen.closed = line.closed
             /\ Seen(seen) = seen
             /\ WellFormed(line) => WellFormed(seen)
             /\ IsLogEnding(seen) <=> IsLogEnding(line)
             /\ LinePid(seen) = LinePid(line) /\ SetFunction(seen) = SetFunction(line)
<1>. DEFINE seen == Seen(line)
<1>1. /\ seen \in Lines /\ seen.pid = G_topProcessId /\ seen.begin = 0
      /\ seen.kind = line.kind /\ seen.shown = line.shown
      /\ seen.func = line.func /\ seen.closed = line.closed
      /\ Seen(seen) = seen
  BY CallMatchingAssumption DEF Lines, Seen
<1>. HIDE DEF seen
<1>2. LinePid(seen) = LinePid(line) /\ SetFunction(seen) = SetFunction(line)
  BY <1>1 DEF LinePid, SetFunction
<1>3. IsLogEnding(seen) <=> IsLogEnding(line)
  BY <1>1, Zenon DEF IsLogEnding
<1>4. WellFormed(line) => WellFormed(seen)
  BY <1>1, Zenon DEF WellFormed
<1>. QED  BY <1>1, <1>2, <1>3, <1>4 DEF seen

LEMMA EndIsClosed ==
  ASSUME NEW line \in Lines, WellFormed(line)
  PROVE  IsLogEnding(line) <=> line.closed
BY DEF Lines, WellFormed, IsLogEnding, CallKinds

LEMMA LineIsRead ==
  ASSUME NEW line, Wrote(line), NEW kept \in BOOLEAN, ReadLine(line, kept)
  PROVE  Seen(line) \in AnyLine /\ ReadLine(Seen(line), kept)
<1>1. line \in Lines /\ WellFormed(line)
  BY DEF Wrote
<1>2. /\ Seen(line) \in Lines /\ Seen(line).pid = G_topProcessId /\ Seen(line).begin = 0
      /\ WellFormed(Seen(line)) /\ Seen(Seen(line)) = Seen(line)
      /\ IsLogEnding(Seen(line)) <=> IsLogEnding(line)
  BY <1>1, SameForReader
<1>3. Seen(line) \in AnyLine
  BY <1>2 DEF Lines, AnyLine
<1>4. First(Seen(line)) = First(line)
  BY <1>2, Zenon DEF First
<1>5. ReadLine(Seen(line), kept)
  BY <1>2, <1>4, Zenon DEF ReadLine
<1>. QED  BY <1>3, <1>5

-----------------------------------------------------------------------------
(* The pending calls are lines of the log, and the reader waits for the    *)
(* end of a line when there is one to wait for.                            *)

LEMMA ReadingWaits ==
  ASSUME TracerInv, NEW line, Wrote(line), NEW kept \in BOOLEAN, ReadLine(line, kept)
  PROVE  WaitsForEnd' /\ numLine' = Len(log') /\ ~ended'
<1>1. /\ line \in Lines /\ WellFormed(line)
      /\ Len(log) \in Nat /\ Len(log') = Len(log) + 1 /\ log'[Len(log')] = line
      /\ \A i \in 1..Len(log) : log'[i] = log[i]
  BY DEF Wrote
<1>2. numLine' = Len(log') /\ ~ended'
  BY <1>1 DEF ReadLine, TracerInv
<1>3. CASE oneLine' = <<>>
  <2>1. WaitsForEnd'
    BY <1>3 DEF WaitsForEnd
  <2>. QED  BY <1>2, <2>1
<1>4. CASE ~IsLogEnding(line) /\ oneLine' = <<First(line)>>
  <2>1. ~line.closed
    BY <1>1, <1>4, EndIsClosed
  <2>2. Head(oneLine') = First(line) /\ oneLine' # <<>>
    BY <1>4
  <2>3. Len(log') > 0 /\ ~log'[Len(log')].closed /\ Len(log') \in 1..Len(log')
    BY <1>1, <2>1
  <2>4. \E j \in 1..Len(log') : First(line) = Seen(log'[j]) /\ ~log'[j].closed
    <3>1. CASE oneLine = <<>>
      <4>1. First(line) = Seen(log'[Len(log')])
        BY <1>1, <3>1, Zenon DEF First
      <4>. QED  BY <2>3, <4>1, Zenon
    <3>2. CASE oneLine # <<>>
      <4>1. PICK j \in 1..Len(log) : Head(oneLine) = Seen(log[j]) /\ ~log[j].closed
        BY <3>2 DEF TracerInv, WaitsForEnd
      <4>2. j \in 1..Len(log') /\ log'[j] = log[j]
        BY <1>1
      <4>. QED  BY <3>2, <4>1, <4>2, Zenon DEF First
    <3>. QED  BY <3>1, <3>2
  <2>5. WaitsForEnd'
    BY <2>2, <2>3, <2>4, Zenon DEF WaitsForEnd
  <2>. QED  BY <1>2, <2>5
<1>5. oneLine' = <<>> \/ (~IsLogEnding(line) /\ oneLine' = <<First(line)>>)
  BY DEF ReadLine
<1>. QED  BY <1>2, <1>3, <1>4, <1>5

LEMMA TracerKeeps ==
  ASSUME TracerInv, NEW line, Wrote(line), NEW kept \in BOOLEAN, ReadLine(line, kept),
         life' \in [Pids -> {"new", "running", "gone"}], pending' \in [Pids -> Seq(Nat)],
         \A q \in Pids : \A x : Member(pending'[q], x) =>
           \/ Member(pending[q], x)
           \/ x = Len(log) + 1 /\ q = line.pid /\ line.kind = "unfinished"
  PROVE  TracerInv'
<1>1. /\ Len(log) \in Nat /\ Len(log') = Len(log) + 1 /\ log'[Len(log')] = line
      /\ \A i \in 1..Len(log) : log'[i] = log[i]
      /\ WellFormed(line) /\ TracerTypeOK'
  BY DEF TracerTypeOK, Wrote
<1>2. ASSUME NEW i \in 1..Len(log')
      PROVE  i \in 1..Len(log) \/ i = Len(log')
  BY <1>1
<1>3. ASSUME NEW i \in 1..Len(log')
      PROVE  WellFormed(log'[i])
  BY <1>1, <1>2 DEF TracerInv, LinesOK
<1>4. ASSUME NEW q \in Pids, NEW x, Member(pending'[q], x)
      PROVE  x \in 1..Len(log') /\ log'[x].kind = "unfinished" /\ log'[x].pid = q
  <2>1. CASE Member(pending[q], x)
    <3>1. x \in 1..Len(log) /\ log[x].kind = "unfinished" /\ log[x].pid = q
      BY <2>1 DEF TracerInv, PendingOK
    <3>2. x \in 1..Len(log') /\ log'[x] = log[x]
      BY <1>1, <3>1
    <3>. QED  BY <3>1, <3>2
  <2>2. CASE x = Len(log) + 1 /\ q = line.pid /\ line.kind = "unfinished"
    BY <1>1, <2>2
  <2>. QED  BY <1>4, <2>1, <2>2
<1>5. PendingOK'
  BY <1>4 DEF PendingOK
<1>6. LinesOK'
  BY <1>3 DEF LinesOK
<1>7. WaitsForEnd' /\ numLine' = Len(log')
  BY ReadingWaits
<1>. QED  BY <1>1, <1>5, <1>6, <1>7 DEF TracerInv

LEMMA LastLineRead ==
  ASSUME NEW line, Wrote(line), ReadLastLine
  PROVE  \E kept \in BOOLEAN : ReadLine(line, kept)
BY DEF ReadLastLine, Wrote

(* In each step the tracer writes a line, which is read, or the reader     *)
(* reaches the end of the log, or only the processes change.               *)
ReaderStep ==
  \/ UNCHANGED readerVars
  \/ \E line : Wrote(line) /\ \E kept \in BOOLEAN : ReadLine(line, kept)
  \/ UNCHANGED log /\ \E kept \in BOOLEAN : EndOfLog(kept)

LEMMA LineOfStep ==
  ASSUME TracerInv, Next
  PROVE  TracerInv' /\ ReaderStep
<1>0. life \in [Pids -> {"new", "running", "gone"}] /\ pending \in [Pids -> Seq(Nat)]
  BY DEF TracerInv, TracerTypeOK
<1>1. ASSUME NEW line, Wrote(line), ReadLastLine, UNCHANGED <<life, pending>>
      PROVE  TracerInv' /\ ReaderStep
  <2>1. PICK kept \in BOOLEAN : ReadLine(line, kept)
    BY <1>1, LastLineRead
  <2>2. TracerInv'
    BY <1>0, <1>1, <2>1, TracerKeeps
  <2>. QED  BY <1>1, <2>1, <2>2 DEF ReaderStep
<1>2. ASSUME NEW p \in Pids, NEW f \in Functions, Begin(p, f), ReadLastLine
      PROVE  TracerInv' /\ ReaderStep
  <2>1. PICK line : Wrote(line) /\ line.kind = "unfinished" /\ line.pid = p
    BY <1>2, BeginSays
  <2>2. /\ UNCHANGED life /\ pending' \in [Pids -> Seq(Nat)]
        /\ \A q \in Pids : q # p => pending'[q] = pending[q]
        /\ \A x : Member(pending'[p], x) <=> Member(pending[p], x) \/ x = Len(log) + 1
    BY <1>2, BeginSays
  <2>3. PICK kept \in BOOLEAN : ReadLine(line, kept)
    BY <1>2, <2>1, LastLineRead
  <2>4. TracerInv'
    BY <1>0, <2>1, <2>2, <2>3, TracerKeeps
  <2>. QED  BY <2>1, <2>3, <2>4 DEF ReaderStep
<1>3. ASSUME NEW p \in Pids, NEW closed \in BOOLEAN, End(p, closed), ReadLastLine
      PROVE  TracerInv' /\ ReaderStep
  <2>1. PICK line : Wrote(line)
    <3>1. PICK line, b : EndOf(line, b, p)
      BY <1>3, EndSays
    <3>. QED  BY <3>1, Zenon DEF EndOf
  <2>2. /\ UNCHANGED life /\ pending' \in [Pids -> Seq(Nat)]
        /\ \A q \in Pids : q # p => pending'[q] = pending[q]
        /\ \A x : Member(pending'[p], x) => Member(pending[p], x)
    BY <1>3, EndSays
  <2>3. PICK kept \in BOOLEAN : ReadLine(line, kept)
    BY <1>3, <2>1, LastLineRead
  <2>4. TracerInv'
    BY <1>0, <2>1, <2>2, <2>3, TracerKeeps
  <2>. QED  BY <2>1, <2>3, <2>4 DEF ReaderStep
<1>4. ASSUME NEW p \in Pids, Exit(p), ReadLastLine
      PROVE  TracerInv' /\ ReaderStep
  <2>1. /\ life' \in [Pids -> {"new", "running", "gone"}] /\ pending' \in [Pids -> Seq(Nat)]
        /\ \A q \in Pids : \A x : Member(pending'[q], x) => Member(pending[q], x)
    <3>1. \A x : ~Member(<<>>, x)
      BY DEF Member
    <3>. QED  BY <1>4, <3>1, ExitSays
  <2>2. CASE log' = log
    <3>1. UNCHANGED readerVars
      BY <1>4, <2>2 DEF ReadLastLine
    <3>2. UNCHANGED <<numLine, oneLine, ended>>
      BY <3>1 DEF readerVars
    <3>3. TracerTypeOK' /\ LinesOK' /\ WaitsForEnd' /\ (ended' \/ numLine' = Len(log'))
      BY <2>1, <2>2, <3>2 DEF TracerInv, TracerTypeOK, LinesOK, WaitsForEnd
    <3>4. PendingOK'
      BY <2>1, <2>2, Zenon DEF TracerInv, PendingOK
    <3>. QED  BY <3>1, <3>3, <3>4 DEF TracerInv, ReaderStep
  <2>3. CASE \E line : Wrote(line)
    <3>1. PICK line : Wrote(line)
      BY <2>3
    <3>2. PICK kept \in BOOLEAN : ReadLine(line, kept)
      BY <1>4, <3>1, LastLineRead
    <3>3. TracerInv'
      BY <2>1, <3>1, <3>2, TracerKeeps
    <3>. QED  BY <3>1, <3>2, <3>3 DEF ReaderStep
  <2>. QED  BY <1>4, <2>2, <2>3, ExitSays
<1>5. ASSUME NEW p \in Pids, Attach(p), UNCHANGED readerVars
      PROVE  TracerInv' /\ ReaderStep
  BY <1>5 DEF Attach, readerVars, TracerInv, TracerTypeOK, LinesOK, PendingOK, WaitsForEnd,
              ReaderStep
<1>6. ASSUME NEW kept \in BOOLEAN, EndOfLog(kept), UNCHANGED tracerVars
      PROVE  TracerInv' /\ ReaderStep
  <2>1. ended' /\ oneLine' = <<>> /\ UNCHANGED <<life, pending, log>>
    BY <1>6 DEF EndOfLog, tracerVars
  <2>2. TracerInv'
    BY <2>1 DEF TracerInv, TracerTypeOK, LinesOK, PendingOK, WaitsForEnd
  <2>. QED  BY <1>6, <2>1, <2>2 DEF ReaderStep
<1>7. ASSUME NEW p \in Pids, NEW f \in Functions, NEW closed \in BOOLEAN,
             Call(p, f, closed), ReadLastLine
      PROVE  TracerInv' /\ ReaderStep
  BY <1>1, <1>7, CallSays
<1>8. ASSUME NEW p \in Pids, Signal(p), ReadLastLine
      PROVE  TracerInv' /\ ReaderStep
  BY <1>1, <1>8, SignalSays
<1>9. ASSUME NEW closed \in BOOLEAN, Text(closed), ReadLastLine
      PROVE  TracerInv' /\ ReaderStep
  BY <1>1, <1>9, TextSays
<1>. QED  BY <1>2, <1>3, <1>4, <1>5, <1>6, <1>7, <1>8, <1>9 DEF Next

LEMMA StepIsRead ==
  ASSUME TracerInv, Next
  PROVE  [ReaderNext]_readerVars
<1>1. ASSUME NEW line, Wrote(line), NEW kept \in BOOLEAN, ReadLine(line, kept)
      PROVE  ReaderNext
  <2>1. numLine < MaxLines
    BY <1>1 DEF TracerInv, Wrote, ReadLine
  <2>. QED  BY <1>1, <2>1, LineIsRead DEF ReaderNext
<1>2. \A kept \in BOOLEAN : EndOfLog(kept) => ReaderNext
  BY DEF ReaderNext
<1>. QED  BY <1>1, <1>2, LineOfStep DEF ReaderStep

LEMMA InitTracerInv == Init => TracerInv
<1>. SUFFICES ASSUME Init PROVE TracerInv
  OBVIOUS
<1>1. \A p \in Pids : \A x : ~Member(pending[p], x)
  BY DEF Init, TracerInit, Member
<1>2. TracerTypeOK /\ Len(log) = 0
  BY DEF Init, TracerInit, TracerTypeOK
<1>. QED
  BY <1>1, <1>2 DEF Init, ReaderInit, TracerInv, LinesOK, PendingOK, WaitsForEnd

LEMMA NextTracerInv == TracerInv /\ [Next]_vars => TracerInv'
<1>1. CASE UNCHANGED vars
  BY <1>1 DEF vars, tracerVars, readerVars, TracerInv, TracerTypeOK, LinesOK, PendingOK, WaitsForEnd
<1>. QED  BY <1>1, LineOfStep

(* The log that a tracer writes about its processes is a log that the loop *)
(* of CreateFlowsFromGenericLinuxLog can be given: all that CallMatching   *)
(* promises of the matching holds when dockit traces a command.            *)
THEOREM TraceIsRead == Spec => ReaderSpec
<1>1. Init => ReaderInit
  BY DEF Init
<1>2. TracerInv /\ [Next]_vars => [ReaderNext]_readerVars
  <2>1. UNCHANGED vars => UNCHANGED readerVars
    BY DEF vars
  <2>. QED  BY <2>1, StepIsRead
<1>. QED  BY <1>1, <1>2, InitTracerInv, NextTracerInv, PTL DEF Spec, ReaderSpec

-----------------------------------------------------------------------------
(* The cores are made in the order of the log.                             *)

LEMMA FactoryCores ==
  ASSUME NEW cs, NEW c, NEW kept, BatchLetFactory(cs, c, kept)
  PROVE  cores' = cs \/ MergePopBatch(cs, c, kept)
BY DEF BatchLetFactory, UnknownFunction, IgnoredFunction, UnfinishedIsOk, PushBatch,
       MergeRaises, ResumedAlone, WholeCall

LEMMA FactoryKeepsLines ==
  ASSUME RestOK, NEW cs \in Seq(Cores), NEW c \in 1..Len(cs), c = Len(cs),
         NEW kept \in BOOLEAN, StacksRefer(cs), BatchLetFactory(cs, c, kept)
  PROVE  Len(cores') = Len(cs) /\ \A d \in 1..Len(cs) : cores'[d].numLine = cs[d].numLine
<1>1. CASE cores' = cs
  BY <1>1
<1>2. CASE MergePopBatch(cs, c, kept)
  BY <1>2, MergeCores
<1>. QED  BY <1>1, <1>2, FactoryCores

LEMMA LineKeepsOrder ==
  ASSUME IInv, OrderInv, ReaderNext
  PROVE  OrderInv'
<1>0. Turn
  BY TurnOfLoop
<1>1. /\ RestOK /\ cores \in Seq(Cores) /\ Len(cores) \in Nat /\ StacksRefer(cores)
      /\ numLine \in Nat
  BY DEF IInv, TypeOK, RestOK
<1>2. numLine' = numLine + 1
  BY DEF ReaderNext, ReadLine, EndOfLog
<1>3. \A d \in 1..Len(cores) : cores[d].numLine \in Nat
  <2>1. \A core \in Cores : core.numLine \in Nat
    BY DEF Cores
  <2>2. \A d \in 1..Len(cores) : cores[d] \in Cores
    BY <1>1
  <2>. QED  BY <2>1, <2>2
<1>4. ASSUME Len(cores') = Len(cores),
             \A d \in 1..Len(cores) : cores'[d].numLine = cores[d].numLine
      PROVE  OrderInv'
  <2>1. \A d \in 1..Len(cores) : cores[d].numLine <= numLine + 1
    BY <1>1, <1>3 DEF OrderInv
  <2>2. \A d \in 1..Len(cores') : cores'[d].numLine <= numLine'
    BY <1>2, <1>4, <2>1
  <2>3. CoresInOrder(cores')
    BY <1>4 DEF OrderInv, CoresInOrder
  <2>. QED  BY <2>2, <2>3 DEF OrderInv, CoresInOrder
<1>5. ASSUME NEW first \in Lines, NEW last \in Lines, NEW kept \in BOOLEAN, WellFormed(first),
             ReadCall(first, last, kept)
      PROVE  OrderInv'
  <2>. DEFINE core == ParseLine(first, last)
              cs == Append(cores, core)
              c  == Len(cores) + 1
  <2>1. BatchLetFactory(cs, c, kept) /\ first.kind \notin {"signal", "exit"}
    BY <1>5 DEF ReadCall
  <2>2. core \in Cores /\ core.half = 0 /\ core.status \notin {"matched", "merged"}
    BY <1>5, <2>1, ParsedCore DEF IInv
  <2>3. core.numLine = numLine + 1
    BY DEF ParseLine
  <2>. HIDE DEF core
  <2>4. /\ cs \in Seq(Cores) /\ Len(cs) = c /\ StacksRefer(cs) /\ cs[c] = core
        /\ \A d \in 1..Len(cores) : cs[d] = cores[d]
    BY <2>2, NewCoreKeeps
  <2>5. c \in 1..Len(cs)
    BY <1>1, <2>4
  <2>. HIDE DEF cs
  <2>6. Len(cores') = c /\ \A d \in 1..Len(cs) : cores'[d].numLine = cs[d].numLine
    BY <1>1, <2>1, <2>4, <2>5, FactoryKeepsLines
  <2>7. /\ cores'[c].numLine = numLine + 1
        /\ \A d \in 1..Len(cores) : cores'[d].numLine = cores[d].numLine
    BY <1>1, <2>3, <2>4, <2>5, <2>6
  <2>8. \A d \in 1..Len(cores') : d \in 1..Len(cores) \/ d = c
    BY <1>1, <2>6
  <2>9. \A d \in 1..Len(cores) : cores[d].numLine < numLine + 1
    BY <1>1, <1>3 DEF OrderInv
  <2>10. \A d, e \in 1..Len(cores) : d < e => cores[d].numLine < cores[e].numLine
    BY DEF OrderInv, CoresInOrder
  <2>11. CoresInOrder(cores')
    <3>1. ASSUME NEW d \in 1..Len(cores'), NEW e \in 1..Len(cores'), d < e
          PROVE  cores'[d].numLine < cores'[e].numLine
      <4>1. d \in 1..Len(cores)
        BY <1>1, <2>6, <3>1
      <4>2. CASE e = c
        BY <2>7, <2>9, <4>1, <4>2
      <4>3. CASE e \in 1..Len(cores)
        BY <2>7, <2>10, <3>1, <4>1, <4>3
      <4>. QED  BY <2>8, <4>2, <4>3
    <3>. QED  BY <3>1, Zenon DEF CoresInOrder
  <2>12. ASSUME NEW d \in 1..Len(cores')
         PROVE  cores'[d].numLine <= numLine'
    <3>1. CASE d = c
      BY <1>1, <1>2, <2>7, <3>1
    <3>2. CASE d \in 1..Len(cores)
      BY <1>1, <1>2, <1>3, <2>7, <2>9, <3>2
    <3>. QED  BY <2>8, <3>1, <3>2
  <2>. QED  BY <2>11, <2>12 DEF OrderInv, CoresInOrder
<1>6. ASSUME NEW first, NEW kept \in BOOLEAN, ReadUnparsable(first, kept), batchCore # 0
      PROVE  OrderInv'
  <2>1. batchCore = Len(cores) /\ batchCore \in 1..Len(cores)
    BY <1>1, <1>6 DEF IInv, TypeOK
  <2>2. BatchLetFactory(cores, batchCore, kept)
    BY <1>6 DEF ReadUnparsable
  <2>. QED  BY <1>1, <1>4, <2>1, <2>2, FactoryKeepsLines
<1>7. ASSUME UNCHANGED cores
      PROVE  OrderInv'
  BY <1>4, <1>7
<1>8. \A first : ReadEvent(first) => UNCHANGED cores
  BY DEF ReadEvent
<1>9. \A first, kept : ReadUnparsable(first, kept) => batchCore # 0 \/ UNCHANGED cores
  BY DEF ReadUnparsable
<1>10. UNCHANGED coreVars => UNCHANGED cores
  BY DEF coreVars
<1>. QED  BY <1>0, <1>5, <1>6, <1>7, <1>8, <1>9, <1>10 DEF Turn, CreateBatchCore

LEMMA InitOrderInv == ReaderInit => OrderInv
BY DEF ReaderInit, OrderInv, CoresInOrder

LEMMA NextOrderInv == IInv /\ OrderInv /\ [ReaderNext]_readerVars => OrderInv'
<1>1. CASE UNCHANGED readerVars
  BY <1>1 DEF readerVars, coreVars, OrderInv, CoresInOrder
<1>. QED  BY <1>1, LineKeepsOrder

(* So are the pending calls.                                               *)
LEMMA StepKeepsPending ==
  ASSUME TracerInv, PendingInOrder, Next
  PROVE  PendingInOrder'
<1>1. UNCHANGED pending => PendingInOrder'
  BY DEF PendingInOrder
<1>2. ASSUME NEW p \in Pids, NEW f \in Functions, Begin(p, f)
      PROVE  PendingInOrder'
  <2>1. /\ \A q \in Pids : q # p => pending'[q] = pending[q]
        /\ Increasing(pending[p]) => Increasing(pending'[p])
    BY <1>2, BeginSays
  <2>. QED  BY <2>1, Zenon DEF PendingInOrder
<1>3. ASSUME NEW p \in Pids, NEW closed \in BOOLEAN, End(p, closed)
      PROVE  PendingInOrder'
  <2>1. /\ \A q \in Pids : q # p => pending'[q] = pending[q]
        /\ Increasing(pending[p]) => Increasing(pending'[p])
    BY <1>3, EndSays DEF EndOf
  <2>. QED  BY <2>1, Zenon DEF PendingInOrder
<1>4. ASSUME NEW p \in Pids, Exit(p)
      PROVE  PendingInOrder'
  <2>1. \A q \in Pids : pending'[q] = IF q = p THEN <<>> ELSE pending[q]
    BY <1>4, ExitSays
  <2>2. Increasing(<<>>)
    BY DEF Increasing
  <2>. QED  BY <2>1, <2>2 DEF PendingInOrder
<1>. QED
  BY <1>1, <1>2, <1>3, <1>4 DEF Next, Call, Signal, Text, Attach, tracerVars

LEMMA NextPendingInOrder == TracerInv /\ PendingInOrder /\ [Next]_vars => PendingInOrder'
<1>1. UNCHANGED vars /\ PendingInOrder => PendingInOrder'
  BY DEF vars, tracerVars, PendingInOrder
<1>. QED  BY <1>1, StepKeepsPending

-----------------------------------------------------------------------------
(* A step that is not about the function f of p.                           *)

(* The log may have more lines.                                            *)
Grows == \A i \in 1..Len(log) : i \in 1..Len(log') /\ log'[i] = log[i]

LEMMA IntactBefore ==
  ASSUME TracerInv, Grows, NEW p, NEW f, Intact(p, f)'
  PROVE  Intact(p, f)
<1>. SUFFICES ASSUME NEW i \in 1..Len(log), log[i].func = f, p \in {log[i].pid, ShownAs(log[i])}
              PROVE  /\ log[i].closed
                     /\ ShownAs(log[i]) = log[i].pid
                     /\ log[i].kind # "plain" => ~Behind(i)
  BY DEF Intact
<1>1. i \in 1..Len(log') /\ log'[i] = log[i]
  BY DEF Grows
<1>2. /\ log'[i].closed /\ ShownAs(log'[i]) = log'[i].pid
      /\ log'[i].kind # "plain" => ~(i > 1 /\ ~log'[i - 1].closed)
  BY <1>1, Zenon DEF Intact, Behind, ShownAs
<1>3. i > 1 => log'[i - 1] = log[i - 1]
  <2>1. i > 1 => i - 1 \in 1..Len(log)
    BY DEF TracerInv, TracerTypeOK
  <2>. QED  BY <2>1 DEF Grows
<1>. QED  BY <1>1, <1>2, <1>3 DEF Behind

(* The cores about f of p remain, and no other comes.                      *)
SameCores(p, f) ==
  /\ Len(cores) \in Nat /\ Len(cores') \in Nat /\ Len(cores) <= Len(cores')
  /\ \A d \in 1..Len(cores') : Named(cores'[d], p, f) => d \in 1..Len(cores)
  /\ \A d \in 1..Len(cores) :
       Named(cores[d], p, f) \/ Named(cores'[d], p, f) => cores'[d] = cores[d]

LEMMA ForeignCore ==
  ASSUME IInv, NEW p, NEW f, NEW core \in Cores, core.half = 0,
         core.status \notin {"matched", "merged"}, ~Named(core, p, f), NEW kept \in BOOLEAN,
         BatchLetFactory(Append(cores, core), Len(cores) + 1, kept)
  PROVE  SameCores(p, f)
<1>. DEFINE cs == Append(cores, core)
            c  == Len(cores) + 1
            u  == Unfinished(cs, c)
<1>1. RestOK /\ cores \in Seq(Cores) /\ Len(cores) \in Nat
  BY DEF IInv, TypeOK, RestOK
<1>2. /\ cs \in Seq(Cores) /\ Len(cs) = c /\ StacksRefer(cs) /\ cs[c] = core
      /\ \A d \in 1..Len(cores) : cs[d] = cores[d]
  BY NewCoreKeeps
<1>3. c \in 1..Len(cs) /\ \A d \in 1..Len(cs) : d \in 1..Len(cores) \/ d = c
  BY <1>1, <1>2
<1>4. \A d \in 1..Len(cores) : d \in 1..Len(cs) /\ d # c
  BY <1>1, <1>2
<1>5. BatchLetFactory(cs, c, kept) /\ Len(cores) <= c /\ c \in Nat
  BY <1>1
<1>. HIDE DEF cs, c
<1>6. CASE cores' = cs
  BY <1>1, <1>2, <1>3, <1>4, <1>5, <1>6 DEF SameCores
<1>7. CASE MergePopBatch(cs, c, kept)
  <2>1. /\ u \in 1..Len(cs) /\ cs[u].pid = cs[c].pid /\ cs[u].funcNam = cs[c].funcNam
        /\ Len(cores') = Len(cs)
        /\ \A d \in 1..Len(cs) : d \notin {u, c} => cores'[d] = cs[d]
        /\ cores'[u].pid = cs[c].pid /\ cores'[u].funcNam = cs[c].funcNam
        /\ cores'[c].pid = cs[c].pid /\ cores'[c].funcNam = cs[c].funcNam
    <3>1. cs \in Seq(Cores) /\ c \in 1..Len(cs) /\ c = Len(cs) /\ StacksRefer(cs)
      BY <1>2, <1>3
    <3>2. RestOK /\ MergePopBatch(cs, c, kept)
      BY <1>1, <1>7
    <3>. QED  BY <3>1, <3>2, MergeCores, SMTT(30)
  <2>. HIDE DEF u
  <2>2. ~Named(cs[u], p, f) /\ ~Named(cores'[u], p, f) /\ ~Named(cores'[c], p, f)
    BY <1>2, <2>1, Zenon DEF Named
  <2>3. ASSUME NEW d \in 1..Len(cores'), Named(cores'[d], p, f)
        PROVE  d \in 1..Len(cores)
    BY <1>2, <1>3, <2>1, <2>2, <2>3
  <2>4. ASSUME NEW d \in 1..Len(cores), Named(cores[d], p, f) \/ Named(cores'[d], p, f)
        PROVE  cores'[d] = cores[d]
    <3>1. cs[d] = cores[d] /\ d # c /\ d \in 1..Len(cs)
      BY <1>2, <1>4
    <3>2. d # u
      BY <2>2, <2>4, <3>1
    <3>. QED  BY <2>1, <3>1, <3>2
  <2>. QED  BY <1>1, <1>2, <1>5, <2>1, <2>3, <2>4 DEF SameCores
<1>. QED  BY <1>5, <1>6, <1>7, FactoryCores

(* What is pending of f in p does not change, but by the exit of p.        *)
KeepsPending(p, f) ==
  /\ life'[p] # "gone" =>
       /\ life[p] # "gone"
       /\ \A x : Member(pending[p], x) /\ log[x].func = f => Member(pending'[p], x)
  /\ \A x : Member(pending'[p], x) /\ log'[x].func = f => Member(pending[p], x)

LEMMA OthersKeep ==
  ASSUME IInv, TracerInv, NEW p \in Pids, NEW f \in Functions, PairOK(p, f), Grows,
         SameCores(p, f), KeepsPending(p, f)
  PROVE  PairOK(p, f)'
<1>1. /\ CoresOK(cores, log, p, f) /\ OneCall(cores, log, p, f)
      /\ AwaitedArePending(p, f) /\ PendingHaveCores(p, f)
  BY DEF PairOK
<1>2. ASSUME NEW d \in 1..Len(cores'), Named(cores'[d], p, f)
      PROVE  /\ d \in 1..Len(cores) /\ cores'[d] = cores[d] /\ Named(cores[d], p, f)
             /\ cores[d].numLine \in 1..Len(log) /\ cores[d].numLine \in 1..Len(log')
             /\ log'[cores[d].numLine] = log[cores[d].numLine]
  <2>1. d \in 1..Len(cores) /\ cores'[d] = cores[d] /\ Named(cores[d], p, f)
    BY <1>2 DEF SameCores
  <2>2. cores[d].numLine \in 1..Len(log)
    BY <1>1, <2>1 DEF CoresOK
  <2>. QED  BY <2>1, <2>2 DEF Grows
<1>3. \A core : SysNamed(core, p, f) => Named(core, p, f)
  BY DEF SysNamed, Named
<1>4. CoresOK(cores, log, p, f)'
  <2>1. ASSUME NEW d \in 1..Len(cores'), Named(cores'[d], p, f)
        PROVE  /\ cores'[d].numLine \in 1..Len(log')
               /\ LET line == log'[cores'[d].numLine]
                  IN  /\ line.pid = p /\ line.func = f /\ cores'[d].funcNam = SetFunction(line)
                      /\ cores'[d].status = "unfinished" => line.kind = "unfinished"
    <3>1. LET line == log[cores[d].numLine]
          IN  /\ line.pid = p /\ line.func = f /\ cores[d].funcNam = SetFunction(line)
              /\ cores[d].status = "unfinished" => line.kind = "unfinished"
      BY <1>1, <1>2, <2>1, Zenon DEF CoresOK
    <3>2. d \in 1..Len(cores) /\ cores'[d] = cores[d]
      BY <1>2, <2>1
    <3>3. /\ cores[d].numLine \in 1..Len(log')
          /\ log'[cores[d].numLine] = log[cores[d].numLine]
      BY <1>2, <2>1
    <3>. QED  BY <3>1, <3>2, <3>3, Zenon
  <2>. QED  BY <2>1, Zenon DEF CoresOK, Named, SetFunction
<1>5. OneCall(cores, log, p, f)'
  <2>1. ASSUME NEW d \in 1..Len(cores'), SysNamed(cores'[d], p, f), cores'[d].status = "merged"
        PROVE  log'[cores'[d].numLine].begin = cores'[cores'[d].half].numLine
    <3>1. Named(cores'[d], p, f)
      BY <1>3, <2>1
    <3>2. /\ d \in 1..Len(cores) /\ cores'[d] = cores[d]
          /\ log'[cores[d].numLine] = log[cores[d].numLine]
      BY <1>2, <3>1
    <3>. DEFINE h == cores[d].half
    <3>3. h \in 1..Len(cores) /\ cores[h].pid = cores[d].pid /\ cores[h].funcNam = cores[d].funcNam
      BY <2>1, <3>2 DEF IInv, HalvesAgree
    <3>4. cores'[h] = cores[h]
      <4>1. Named(cores[h], p, f)
        BY <3>1, <3>2, <3>3, Zenon DEF Named
      <4>. QED  BY <3>3, <4>1 DEF SameCores
    <3>5. log[cores[d].numLine].begin = cores[h].numLine
      BY <1>1, <2>1, <3>2 DEF OneCall
    <3>. QED  BY <3>2, <3>4, <3>5
  <2>. QED  BY <2>1, Zenon DEF OneCall, SysNamed
<1>6. AwaitedArePending(p, f)'
  <2>1. ASSUME life'[p] # "gone", NEW d \in 1..Len(cores'), Awaited(cores'[d]),
               SysNamed(cores'[d], p, f)
        PROVE  Member(pending'[p], cores'[d].numLine)
    <3>1. d \in 1..Len(cores) /\ cores'[d] = cores[d] /\ Named(cores[d], p, f)
      BY <1>2, <1>3, <2>1
    <3>2. life[p] # "gone"
      BY <2>1 DEF KeepsPending
    <3>3. Member(pending[p], cores[d].numLine)
      BY <1>1, <2>1, <3>1, <3>2 DEF AwaitedArePending
    <3>4. log[cores[d].numLine].func = f
      BY <1>1, <3>1 DEF CoresOK
    <3>. QED  BY <2>1, <3>1, <3>3, <3>4 DEF KeepsPending
  <2>. QED  BY <2>1, Zenon DEF AwaitedArePending, Awaited, SysNamed
<1>7. PendingHaveCores(p, f)'
  <2>1. ASSUME NEW x, Member(pending'[p], x), log'[x].func = f
        PROVE  \E d \in 1..Len(cores') : /\ cores'[d].numLine = x /\ cores'[d].status = "unfinished"
                                         /\ Named(cores'[d], p, f)
    <3>1. Member(pending[p], x)
      BY <2>1 DEF KeepsPending
    <3>2. log[x].func = f
      BY <2>1, <3>1 DEF TracerInv, PendingOK, Grows
    <3>3. PICK d \in 1..Len(cores) :
            cores[d].numLine = x /\ cores[d].status = "unfinished" /\ Named(cores[d], p, f)
      BY <1>1, <3>1, <3>2 DEF PendingHaveCores
    <3>4. d \in 1..Len(cores') /\ cores'[d] = cores[d]
      BY <3>3 DEF SameCores
    <3>. QED  BY <3>3, <3>4
  <2>. QED  BY <2>1, Zenon DEF PendingHaveCores, Named
<1>. QED  BY <1>4, <1>5, <1>6, <1>7 DEF PairOK

-----------------------------------------------------------------------------
(* What is parsed when a line is read: this line, or a text which begins   *)
(* with an older one that had no end.                                      *)

Stale(first) == \E j \in 1..Len(log) : first = Seen(log[j]) /\ ~log[j].closed

Parsed(first, last, kept) == ReadCall(first, last, kept) /\ ~raised

LEMMA HeldIsStale ==
  ASSUME TracerInv, oneLine # <<>>
  PROVE  Stale(Head(oneLine))
BY DEF TracerInv, WaitsForEnd, Stale

LEMMA OutcomeOfLine ==
  ASSUME TracerInv, NEW line, Wrote(line), NEW kept \in BOOLEAN, ReadLine(line, kept), allParsed'
  PROVE  \/ /\ UNCHANGED <<cores, allParsed>>
            /\ oneLine = <<>> => line.kind \notin CallKinds \/ ~line.closed
         \/ /\ UNCHANGED allParsed
            /\ oneLine = <<>> /\ line.closed /\ Parsed(Seen(line), Seen(line), kept)
         \/ /\ UNCHANGED allParsed /\ oneLine # <<>>
            /\ \E first : Stale(first) /\ Parsed(first, Seen(line), kept)
<1>1. line \in Lines /\ WellFormed(line)
  BY DEF Wrote
<1>2. Seen(line).kind = line.kind
  BY <1>1, SameForReader
<1>3. CASE ~IsLogEnding(line) /\ UNCHANGED coreVars
  BY <1>1, <1>3, EndIsClosed DEF coreVars
<1>4. ASSUME IsLogEnding(line), NEW first, CreateBatchCore(first, Seen(line), kept),
             first = First(line)
      PROVE  \/ /\ UNCHANGED <<cores, allParsed>>
                /\ oneLine = <<>> => line.kind \notin CallKinds \/ ~line.closed
             \/ /\ UNCHANGED allParsed
                /\ oneLine = <<>> /\ line.closed /\ Parsed(Seen(line), Seen(line), kept)
             \/ /\ UNCHANGED allParsed /\ oneLine # <<>>
                /\ \E head : Stale(head) /\ Parsed(head, Seen(line), kept)
  <2>1. line.closed /\ ~raised
    BY <1>1, <1>4, EndIsClosed DEF ReadLine
  <2>2. ReadCall(first, Seen(line), kept) \/ ReadEvent(first)
    BY <1>4 DEF CreateBatchCore, ReadUnparsable
  <2>3. CASE oneLine = <<>>
    <3>1. first = Seen(line)
      BY <1>4, <2>3, Zenon DEF First
    <3>2. CASE ReadCall(first, Seen(line), kept)
      <4>1. UNCHANGED allParsed
        BY <3>2 DEF ReadCall
      <4>. QED  BY <2>1, <2>3, <3>1, <3>2, <4>1, Zenon DEF Parsed
    <3>3. CASE ReadEvent(first)
      BY <1>2, <3>1, <3>3 DEF ReadEvent, CallKinds
    <3>. QED  BY <2>2, <3>2, <3>3
  <2>4. CASE oneLine # <<>>
    <3>1. first = Head(oneLine)
      BY <1>4, <2>4, Zenon DEF First
    <3>2. Stale(first)
      BY <2>4, <3>1, HeldIsStale
    <3>3. CASE ReadCall(first, Seen(line), kept)
      <4>1. UNCHANGED allParsed
        BY <3>3 DEF ReadCall
      <4>. QED  BY <2>1, <2>4, <3>2, <3>3, <4>1, Zenon DEF Parsed
    <3>4. CASE ReadEvent(first)
      BY <2>4, <3>4 DEF ReadEvent
    <3>. QED  BY <2>2, <3>3, <3>4
  <2>. QED  BY <2>3, <2>4
<1>5. \/ ~IsLogEnding(line) /\ UNCHANGED coreVars
      \/ IsLogEnding(line) /\ CreateBatchCore(First(line), Seen(line), kept)
  BY DEF ReadLine
<1>. QED  BY <1>3, <1>4, <1>5

(* A line is read as being about f of p only if it says so.                *)
LEMMA NamedAsShown ==
  ASSUME NEW line \in Lines, NEW p \in Pids, NEW f \in Functions, NEW last,
         Named(ParseLine(Seen(line), last), p, f)
  PROVE  line.func = f /\ ShownAs(line) = p
<1>. DEFINE name == SetFunction(line)
            n1   == <<f, "@SYS">>
            n2   == <<f, "">>
<1>1. LinePid(Seen(line)) = LinePid(line) /\ SetFunction(Seen(line)) = name
  BY SameForReader
<1>2. LinePid(line) = p /\ name \in {n1, n2}
  BY <1>1, Zenon DEF Named, ParseLine
<1>3. ShownAs(line) = p
  BY <1>2, DockitTraceAssumption, Zenon DEF LinePid, ShownAs
<1>4. Junk # n1 /\ Junk # n2
  <2>1. n1 \in Functions \X {"@SYS", ""} /\ n2 \in Functions \X {"@SYS", ""}
    BY Zenon
  <2>. QED  BY <2>1, CallMatchingAssumption, Zenon
<1>5. name \in {Junk, <<line.func, "@SYS">>, <<line.func, "">>}
  BY Zenon DEF SetFunction
<1>6. \A g : <<g, "@SYS">> \in {n1, n2} \/ <<g, "">> \in {n1, n2} => g = f
  OBVIOUS
<1>. HIDE DEF name, n1, n2
<1>7. <<line.func, "@SYS">> \in {n1, n2} \/ <<line.func, "">> \in {n1, n2}
  BY <1>2, <1>4, <1>5, Zenon
<1>. QED  BY <1>3, <1>6, <1>7, Zenon

LEMMA StaleIsForeign ==
  ASSUME TracerInv, NEW p \in Pids, NEW f \in Functions, Intact(p, f),
         NEW first, Stale(first), NEW last
  PROVE  ~Named(ParseLine(first, last), p, f)
<1>. SUFFICES ASSUME Named(ParseLine(first, last), p, f)
              PROVE  FALSE
  OBVIOUS
<1>1. PICK j \in 1..Len(log) : first = Seen(log[j]) /\ ~log[j].closed
  BY DEF Stale
<1>2. log[j] \in Lines
  BY DEF TracerInv, TracerTypeOK
<1>3. log[j].func = f /\ ShownAs(log[j]) = p
  BY <1>1, <1>2, NamedAsShown
<1>. QED  BY <1>1, <1>3 DEF Intact

(* Parsing makes a core that can be added to the others.                   *)
LEMMA NewCore ==
  ASSUME IInv, NEW first \in Lines, WellFormed(first), NEW last, NEW kept,
         Parsed(Seen(first), last, kept) 
  PROVE  LET core == ParseLine(Seen(first), last)
         IN  /\ core \in Cores /\ core.half = 0 /\ core.status \notin {"matched", "merged"}
             /\ BatchLetFactory(Append(cores, core), Len(cores) + 1, kept)
<1>1. Seen(first) \in Lines /\ WellFormed(Seen(first))
  BY SameForReader
<1>2. /\ Seen(first).kind \notin {"signal", "exit"}
      /\ BatchLetFactory(Append(cores, ParseLine(Seen(first), last)), Len(cores) + 1, kept)
  BY DEF Parsed, ReadCall
<1>. QED  BY <1>1, <1>2, ParsedCore DEF IInv

LEMMA StaleKeeps ==
  ASSUME IInv, TracerInv, NEW p \in Pids, NEW f \in Functions, Intact(p, f),
         NEW first, Stale(first), NEW last, NEW kept \in BOOLEAN, Parsed(first, last, kept)
  PROVE  SameCores(p, f)
<1>1. PICK j \in 1..Len(log) : first = Seen(log[j])
  BY DEF Stale
<1>2. log[j] \in Lines /\ WellFormed(log[j])
  BY DEF TracerInv, TracerTypeOK, LinesOK
<1>. DEFINE core == ParseLine(first, last)
<1>3. /\ core \in Cores /\ core.half = 0 /\ core.status \notin {"matched", "merged"}
      /\ BatchLetFactory(Append(cores, core), Len(cores) + 1, kept)
  BY <1>1, <1>2, NewCore
<1>4. ~Named(core, p, f)
  BY StaleIsForeign
<1>. HIDE DEF core
<1>. QED  BY <1>3, <1>4, ForeignCore

LEMMA NothingRead ==
  ASSUME IInv, NEW p, NEW f, UNCHANGED cores
  PROVE  SameCores(p, f)
<1>1. Len(cores) \in Nat
  BY DEF IInv, TypeOK
<1>. QED  BY <1>1 DEF SameCores

(* The core of a line which is about the function f of p.                  *)
OwnCore(core, line, p, kept) ==
  /\ core \in Cores /\ core.half = 0 /\ core.status = line.kind
  /\ core.pid = p /\ core.funcNam = SetFunction(line) /\ core.numLine = Len(log')
  /\ BatchLetFactory(Append(cores, core), Len(cores) + 1, kept)

AboutIt(line, p, f) == line.kind \in CallKinds /\ line.pid = p /\ line.func = f

(* Of an intact function, each half is read, as it was written.            *)
LEMMA LineRead ==
  ASSUME IInv, TracerInv, NEW p \in Pids, NEW f \in Functions, Intact(p, f)',
         NEW line, Wrote(line), NEW kept \in BOOLEAN, ReadLine(line, kept), allParsed'
  PROVE  /\ allParsed /\ Intact(p, f) /\ Grows
         /\ \/ SameCores(p, f) /\ (AboutIt(line, p, f) => line.kind = "plain")
            \/ AboutIt(line, p, f) /\ ~raised /\ \E core : OwnCore(core, line, p, kept)
<1>1. /\ line \in Lines /\ WellFormed(line) /\ Len(log) \in Nat /\ Len(log') = Len(log) + 1
      /\ log'[Len(log')] = line /\ \A i \in 1..Len(log) : log'[i] = log[i]
  BY DEF Wrote
<1>2. Grows
  BY <1>1 DEF Grows
<1>3. Intact(p, f)
  BY <1>2, IntactBefore
<1>4. ASSUME line.func = f, p \in {line.pid, ShownAs(line)}
      PROVE  /\ AboutIt(line, p, f) /\ line.closed /\ ShownAs(line) = p
             /\ line.kind # "plain" => oneLine = <<>>
  <2>1. Len(log') \in 1..Len(log')
    BY <1>1
  <2>2. /\ line.closed /\ ShownAs(line) = line.pid
        /\ line.kind # "plain" => ~(Len(log') > 1 /\ ~log'[Len(log') - 1].closed)
    BY <1>1, <1>4, <2>1, Zenon DEF Intact, Behind, ShownAs
  <2>3. line.kind \in CallKinds
    BY <1>1, <1>4, LogLineAssumption DEF WellFormed
  <2>4. line.kind # "plain" => oneLine = <<>>
    <3>1. ~ended
      BY DEF ReadLine
    <3>2. Len(log) > 0 /\ ~log[Len(log)].closed => Len(log') > 1 /\ ~log'[Len(log') - 1].closed
      BY <1>1
    <3>. QED  BY <2>2, <3>1, <3>2 DEF TracerInv, WaitsForEnd
  <2>. QED  BY <1>4, <2>2, <2>3, <2>4 DEF AboutIt
<1>5. CASE UNCHANGED <<cores, allParsed>> /\
           (oneLine = <<>> => line.kind \notin CallKinds \/ ~line.closed)
  <2>1. SameCores(p, f)
    BY <1>5, NothingRead
  <2>2. AboutIt(line, p, f) => line.kind = "plain"
    BY <1>4, <1>5 DEF AboutIt
  <2>. QED  BY <1>2, <1>3, <1>5, <2>1, <2>2
<1>6. ASSUME UNCHANGED allParsed, oneLine = <<>>, line.closed, Parsed(Seen(line), Seen(line), kept)
      PROVE  /\ allParsed
             /\ \/ SameCores(p, f) /\ (AboutIt(line, p, f) => line.kind = "plain")
                \/ AboutIt(line, p, f) /\ ~raised /\ \E core : OwnCore(core, line, p, kept)
  <2>. DEFINE core == ParseLine(Seen(line), Seen(line))
  <2>1. /\ core \in Cores /\ core.half = 0 /\ core.status \notin {"matched", "merged"}
        /\ BatchLetFactory(Append(cores, core), Len(cores) + 1, kept)
    BY <1>1, <1>6, NewCore
  <2>2. allParsed /\ ~raised
    BY <1>6 DEF Parsed
  <2>3. CASE ~Named(core, p, f) /\ ~AboutIt(line, p, f)
    <3>. HIDE DEF core
    <3>1. SameCores(p, f)
      BY <2>1, <2>3, ForeignCore
    <3>. QED  BY <2>2, <2>3, <3>1
  <2>4. CASE Named(core, p, f) \/ AboutIt(line, p, f)
    <3>1. line.func = f /\ p \in {line.pid, ShownAs(line)}
      BY <1>1, <2>4, NamedAsShown DEF AboutIt
    <3>2. AboutIt(line, p, f) /\ ShownAs(line) = p
      BY <1>4, <3>1
    <3>3. /\ Seen(line).kind = line.kind /\ LinePid(Seen(line)) = LinePid(line)
          /\ SetFunction(Seen(line)) = SetFunction(line)
      BY <1>1, SameForReader
    <3>4. LinePid(line) = p
      BY <3>2, DockitTraceAssumption DEF LinePid, ShownAs
    <3>5. numLine + 1 = Len(log')
      BY <1>1 DEF TracerInv, ReadLine
    <3>6. core.status = line.kind
      BY <3>2, <3>3 DEF ParseLine, AboutIt, CallKinds
    <3>7. core.pid = p /\ core.funcNam = SetFunction(line) /\ core.numLine = Len(log')
      BY <3>3, <3>4, <3>5 DEF ParseLine
    <3>. HIDE DEF core
    <3>8. OwnCore(core, line, p, kept)
      BY <2>1, <3>6, <3>7 DEF OwnCore
    <3>. QED  BY <2>2, <3>2, <3>8
  <2>. QED  BY <2>3, <2>4
<1>7. ASSUME UNCHANGED allParsed, oneLine # <<>>, NEW first, Stale(first), Parsed(first, Seen(line), kept)
      PROVE  allParsed /\ SameCores(p, f) /\ (AboutIt(line, p, f) => line.kind = "plain")
  <2>1. SameCores(p, f) /\ allParsed
    BY <1>3, <1>7, StaleKeeps
  <2>2. AboutIt(line, p, f) => line.kind = "plain"
    BY <1>4, <1>7 DEF AboutIt
  <2>. QED  BY <2>1, <2>2
<1>. QED  BY <1>2, <1>3, <1>5, <1>6, <1>7, OutcomeOfLine

-----------------------------------------------------------------------------
(* A line about the function f of p, which is read.                        *)

LEMMA OwnCoreIn ==
  ASSUME IInv, TracerInv, NEW p \in Pids, NEW f \in Functions, PairOK(p, f),
         NEW line, Wrote(line), AboutIt(line, p, f), NEW kept \in BOOLEAN,
         NEW core, OwnCore(core, line, p, kept)
  PROVE  LET cs == Append(cores, core)
             c  == Len(cores) + 1
         IN  /\ cs \in Seq(Cores) /\ Len(cs) = c /\ c \in 1..Len(cs) /\ Len(cores) \in Nat
             /\ Len(cs) - 1 = Len(cores)
             /\ \A d \in 1..Len(cores) : cs[d] = cores[d] /\ d \in 1..Len(cs) /\ d # c
             /\ \A d \in 1..Len(cs) : d \in 1..Len(cores) \/ d = c
             /\ cs[c] = core /\ HalvesAgree(cs) /\ StacksRefer(cs)
             /\ CoresOK(cs, log', p, f) /\ OneCall(cs, log', p, f)
             /\ RestOK /\ BatchLetFactory(cs, c, kept)
             /\ cores' = cs \/ MergePopBatch(cs, c, kept)
<1>. DEFINE cs == Append(cores, core)
            c  == Len(cores) + 1
<1>0. CoresOK(cores, log, p, f) /\ OneCall(cores, log, p, f)
  BY DEF PairOK
<1>1. /\ core \in Cores /\ core.half = 0 /\ core.status = line.kind
      /\ core.pid = p /\ core.funcNam = SetFunction(line) /\ core.numLine = Len(log')
      /\ BatchLetFactory(cs, c, kept)
  BY DEF OwnCore
<1>2. /\ Len(log') \in 1..Len(log') /\ log'[Len(log')] = line
      /\ \A i \in 1..Len(log) : i \in 1..Len(log') /\ log'[i] = log[i]
  BY DEF Wrote
<1>3. line.kind \in {"plain", "unfinished", "resumed"} /\ line.pid = p /\ line.func = f
  BY DEF AboutIt, CallKinds
<1>4. RestOK /\ cores \in Seq(Cores) /\ Len(cores) \in Nat
  BY DEF IInv, TypeOK, RestOK
<1>5. /\ cs \in Seq(Cores) /\ Len(cs) = c /\ cs[c] = core
      /\ \A d \in 1..Len(cores) : cs[d] = cores[d]
      /\ HalvesAgree(cs) /\ StacksRefer(cs)
  BY <1>1, <1>3, NewCoreKeeps
<1>6. /\ c \in 1..Len(cs) /\ Len(cs) - 1 = Len(cores)
      /\ \A d \in 1..Len(cores) : d \in 1..Len(cs) /\ d # c
      /\ \A d \in 1..Len(cs) : d \in 1..Len(cores) \/ d = c
  BY <1>4, <1>5
<1>7. cores' = cs \/ MergePopBatch(cs, c, kept)
  BY <1>1, FactoryCores
<1>. HIDE DEF cs, c
<1>8. CoresOK(cs, log', p, f)
  <2>1. ASSUME NEW d \in 1..Len(cs), Named(cs[d], p, f)
        PROVE  /\ cs[d].numLine \in 1..Len(log')
               /\ LET l == log'[cs[d].numLine]
                  IN  /\ l.pid = p /\ l.func = f /\ cs[d].funcNam = SetFunction(l)
                      /\ cs[d].status = "unfinished" => l.kind = "unfinished"
    <3>1. CASE d \in 1..Len(cores)
      <4>. DEFINE n == cores[d].numLine
      <4>1. /\ n \in 1..Len(log) /\ log[n].pid = p /\ log[n].func = f
            /\ cores[d].funcNam = SetFunction(log[n])
            /\ cores[d].status = "unfinished" => log[n].kind = "unfinished"
        BY <1>0, <1>5, <2>1, <3>1, Zenon DEF CoresOK
      <4>2. cs[d] = cores[d] /\ n \in 1..Len(log') /\ log'[n] = log[n]
        BY <1>2, <1>5, <3>1, <4>1
      <4>. QED  BY <4>1, <4>2, Zenon
    <3>2. CASE d = c
      <4>1. log'[cs[d].numLine] = line /\ cs[d].numLine \in 1..Len(log') /\ cs[d] = core
        BY <1>1, <1>2, <1>5, <3>2
      <4>. QED  BY <1>1, <1>3, <4>1, Zenon
    <3>. QED  BY <1>6, <3>1, <3>2
  <2>. QED  BY <2>1, Zenon DEF CoresOK
<1>9. OneCall(cs, log', p, f)
  <2>1. ASSUME NEW d \in 1..Len(cs), SysNamed(cs[d], p, f), cs[d].status = "merged"
        PROVE  log'[cs[d].numLine].begin = cs[cs[d].half].numLine
    <3>1. d \in 1..Len(cores) /\ cs[d] = cores[d]
      BY <1>1, <1>3, <1>5, <1>6, <2>1
    <3>2. cores[d].half \in 1..Len(cores)
      BY <2>1, <3>1 DEF IInv, HalvesAgree
    <3>3. log[cores[d].numLine].begin = cores[cores[d].half].numLine
      BY <1>0, <2>1, <3>1 DEF OneCall
    <3>4. log'[cores[d].numLine] = log[cores[d].numLine]
      <4>1. Named(cores[d], p, f)
        BY <2>1, <3>1, Zenon DEF SysNamed, Named
      <4>2. cores[d].numLine \in 1..Len(log)
        BY <1>0, <3>1, <4>1 DEF CoresOK
      <4>. QED  BY <1>2, <4>2
    <3>. QED  BY <1>5, <3>1, <3>2, <3>3, <3>4
  <2>. QED  BY <2>1, Zenon DEF OneCall
<1>. QED  BY <1>1, <1>4, <1>5, <1>6, <1>7, <1>8, <1>9 DEF cs, c

(* The four parts of PairOK in the next state.                             *)
LEMMA PairNext ==
  ASSUME NEW p, NEW f, CoresOK(cores', log', p, f), OneCall(cores', log', p, f),
         life'[p] # "gone" =>
           \A c \in 1..Len(cores') : Awaited(cores'[c]) /\ SysNamed(cores'[c], p, f)
             => Member(pending'[p], cores'[c].numLine),
         \A x : Member(pending'[p], x) /\ log'[x].func = f =>
           \E c \in 1..Len(cores') :
             cores'[c].numLine = x /\ cores'[c].status = "unfinished" /\ Named(cores'[c], p, f)
  PROVE  PairOK(p, f)'
<1>1. CoresOK(cores, log, p, f)' /\ OneCall(cores, log, p, f)'
  BY Zenon DEF CoresOK, OneCall, Named, SysNamed, SetFunction
<1>2. AwaitedArePending(p, f)' /\ PendingHaveCores(p, f)'
  BY Zenon DEF AwaitedArePending, PendingHaveCores, Awaited, Named, SysNamed
<1>. QED  BY <1>1, <1>2 DEF PairOK

(* A call, or its first half: when it has to wait, it is pending.          *)
LEMMA NewCallKeeps ==
  ASSUME IInv, TracerInv, NEW p \in Pids, NEW f \in Functions, PairOK(p, f), UNCHANGED life,
         NEW line, Wrote(line), AboutIt(line, p, f), line.kind \in {"plain", "unfinished"},
         NEW kept \in BOOLEAN, NEW core, OwnCore(core, line, p, kept),
         \A x : Member(pending'[p], x) <=>
           Member(pending[p], x) \/ (x = Len(log) + 1 /\ line.kind = "unfinished")
  PROVE  PairOK(p, f)'
<1>. DEFINE cs == Append(cores, core)
            c  == Len(cores) + 1
<1>0. AwaitedArePending(p, f) /\ PendingHaveCores(p, f)
  BY DEF PairOK
<1>1. /\ \A d \in 1..Len(cores) : cs[d] = cores[d] /\ d \in 1..Len(cs)
      /\ \A d \in 1..Len(cs) : d \in 1..Len(cores) \/ d = c
      /\ cs[c] = core /\ c \in 1..Len(cs)
      /\ CoresOK(cs, log', p, f) /\ OneCall(cs, log', p, f)
      /\ cores' = cs \/ MergePopBatch(cs, c, kept)
  BY OwnCoreIn
<1>2. /\ core.status = line.kind /\ core.pid = p /\ core.numLine = Len(log')
      /\ core.funcNam = SetFunction(line)
  BY DEF OwnCore
<1>. HIDE DEF cs, c
<1>3. cores' = cs
  BY <1>1, <1>2 DEF MergePopBatch
<1>4. Len(log') = Len(log) + 1 /\ \A x \in 1..Len(log) : log'[x] = log[x]
  BY DEF Wrote
<1>5. ASSUME life'[p] # "gone", NEW d \in 1..Len(cs), Awaited(cs[d]), SysNamed(cs[d], p, f)
      PROVE  Member(pending'[p], cs[d].numLine)
  <2>1. CASE d \in 1..Len(cores)
    <3>1. Member(pending[p], cores[d].numLine)
      BY <1>0, <1>1, <1>5, <2>1 DEF AwaitedArePending
    <3>. QED  BY <1>1, <2>1, <3>1
  <2>2. CASE d = c
    <3>1. line.kind = "unfinished" /\ cs[d].numLine = Len(log) + 1
      BY <1>1, <1>2, <1>4, <1>5, <2>2 DEF Awaited
    <3>. QED  BY <3>1
  <2>. QED  BY <1>1, <2>1, <2>2
<1>6. ASSUME NEW x, Member(pending'[p], x), log'[x].func = f
      PROVE  \E d \in 1..Len(cs) :
               cs[d].numLine = x /\ cs[d].status = "unfinished" /\ Named(cs[d], p, f)
  <2>1. CASE Member(pending[p], x)
    <3>1. log[x].func = f
      BY <1>4, <1>6, <2>1 DEF TracerInv, PendingOK
    <3>2. PICK d \in 1..Len(cores) :
            cores[d].numLine = x /\ cores[d].status = "unfinished" /\ Named(cores[d], p, f)
      BY <1>0, <2>1, <3>1 DEF PendingHaveCores
    <3>. QED  BY <1>1, <3>2
  <2>2. CASE x = Len(log) + 1 /\ line.kind = "unfinished"
    <3>1. Named(core, p, f)
      BY <1>2, <2>2, Zenon DEF Named, SetFunction, AboutIt
    <3>. QED  BY <1>1, <1>2, <1>4, <2>2, <3>1
  <2>. QED  BY <1>6, <2>1, <2>2
<1>. QED  BY <1>1, <1>3, <1>5, <1>6, PairNext

(* The second half of the call whose first half is on line b: whoever      *)
(* waits under its name at the top of the stack is that first half.        *)
LEMMA TopIsItsHalf ==
  ASSUME IInv, OrderInv, NEW p \in Pids, NEW f \in Functions, PairOK(p, f), life[p] = "running",
         NEW b \in 1..Len(log), log[b].func = f, Member(pending[p], b),
         \A x : Member(pending[p], x) => x <= b,
         NEW u \in 1..Len(cores), Awaited(cores[u]), SysNamed(cores[u], p, f),
         \A d \in 1..Len(cores) : Awaited(cores[d]) /\ SysNamed(cores[d], p, f) => d <= u
  PROVE  cores[u].numLine = b /\ \A d \in 1..Len(cores) : cores[d].numLine = b => d = u
<1>0. /\ CoresOK(cores, log, p, f) /\ AwaitedArePending(p, f) /\ PendingHaveCores(p, f)
      /\ cores \in Seq(Cores) /\ Len(cores) \in Nat
  BY DEF PairOK, IInv, TypeOK
<1>1. PICK c \in 1..Len(cores) :
        cores[c].numLine = b /\ cores[c].status = "unfinished" /\ Named(cores[c], p, f)
  BY <1>0 DEF PendingHaveCores
<1>2. cores[u].status = "unfinished" /\ Named(cores[u], p, f) /\ cores[u].funcNam = <<f, "@SYS">>
  BY Zenon DEF Awaited, SysNamed, Named
<1>3. /\ cores[c].funcNam = SetFunction(log[b]) /\ log[b].kind = "unfinished"
      /\ LET l == log[cores[u].numLine]
         IN  cores[u].funcNam = SetFunction(l) /\ l.kind = "unfinished" /\ l.func = f
  BY <1>0, <1>1, <1>2, Zenon DEF CoresOK
<1>4. cores[c].funcNam = cores[u].funcNam
  BY <1>3, Zenon DEF SetFunction
<1>5. Awaited(cores[c]) /\ SysNamed(cores[c], p, f)
  BY <1>1, <1>2, <1>4, Zenon DEF Awaited, SysNamed, Named
<1>6. c <= u
  BY <1>5
<1>7. cores[u].numLine <= b
  BY <1>0 DEF AwaitedArePending
<1>8. /\ \A d \in 1..Len(cores) : cores[d].numLine \in Nat
      /\ \A d, e \in 1..Len(cores) : d < e => cores[d].numLine < cores[e].numLine
  <2>1. \A core \in Cores : core.numLine \in Nat
    BY DEF Cores
  <2>2. \A d \in 1..Len(cores) : cores[d] \in Cores
    BY <1>0
  <2>. QED  BY <2>1, <2>2 DEF OrderInv, CoresInOrder
<1>9. c \in Nat /\ u \in Nat
  BY <1>0
<1>10. c = u
  BY <1>1, <1>6, <1>7, <1>8, <1>9
<1>11. ASSUME NEW d \in 1..Len(cores), cores[d].numLine = b
       PROVE  d = u
  BY <1>1, <1>8, <1>9, <1>10, <1>11
<1>. QED  BY <1>1, <1>10, <1>11

LEMMA TopIsLast ==
  ASSUME NEW s \in Seq(Nat), Increasing(s), NEW x, Member(s, x)
  PROVE  x <= s[Len(s)]
BY DEF Increasing, Member

(* What ends in p is the innermost of its pending calls, on line b.        *)
Ends(line, p, f, b) ==
  /\ Wrote(line) /\ AboutIt(line, p, f) /\ line.kind = "resumed" /\ line.begin = b
  /\ b \in 1..Len(log) /\ log[b].func = f /\ Member(pending[p], b)
  /\ \A x : Member(pending[p], x) => x <= b
  /\ \A x : Member(pending'[p], x) <=> Member(pending[p], x) /\ x # b
  /\ life[p] = "running" /\ UNCHANGED life

(* The second half of a call, when it is merged.                           *)
LEMMA MergedKeeps ==
  ASSUME IInv, PInv, TracerInv, OrderInv, NEW p \in Pids, NEW f \in Functions, PairOK(p, f),
         allParsed, NEW line, NEW b, Ends(line, p, f, b), NEW kept \in BOOLEAN,
         NEW core, OwnCore(core, line, p, kept),
         MergePopBatch(Append(cores, core), Len(cores) + 1, kept)
  PROVE  PairOK(p, f)'
<1>. DEFINE cs == Append(cores, core)
            c  == Len(cores) + 1
            u  == Unfinished(cs, c)
            n  == <<f, "@SYS">>
<1>0. /\ Wrote(line) /\ AboutIt(line, p, f) /\ line.kind = "resumed" /\ line.begin = b
      /\ b \in 1..Len(log) /\ log[b].func = f /\ Member(pending[p], b)
      /\ \A x : Member(pending[p], x) => x <= b
      /\ \A x : Member(pending'[p], x) <=> Member(pending[p], x) /\ x # b
      /\ life[p] = "running" /\ UNCHANGED life
  BY DEF Ends
<1>1. /\ cs \in Seq(Cores) /\ Len(cs) = c /\ c \in 1..Len(cs) /\ Len(cores) \in Nat
      /\ Len(cs) - 1 = Len(cores)
      /\ \A d \in 1..Len(cores) : cs[d] = cores[d] /\ d \in 1..Len(cs) /\ d # c
      /\ \A d \in 1..Len(cs) : d \in 1..Len(cores) \/ d = c
      /\ cs[c] = core /\ HalvesAgree(cs) /\ StacksRefer(cs)
      /\ CoresOK(cs, log', p, f) /\ OneCall(cs, log', p, f) /\ RestOK
  BY <1>0, OwnCoreIn
<1>2. HoldAwaited(cores, Len(cores)) /\ MergePopBatch(cs, c, kept)
  BY DEF PInv
<1>3. /\ core.pid = p /\ core.numLine = Len(log') /\ core.funcNam = n
      /\ log'[Len(log')] = line
  BY <1>0, Zenon DEF OwnCore, SetFunction, AboutIt, Wrote
<1>4. HoldAwaited(cs, Len(cs) - 1)
  <2>1. \A d \in 1..Len(cores) : cs[d] = cores[d]
    BY <1>1
  <2>2. Len(cs) = Len(cores) + 1
    BY <1>1
  <2>. HIDE DEF cs
  <2>. QED  BY <1>2, <2>1, <2>2, NewCoreHold
<1>5. c = Len(cs)
  BY <1>1
<1>6. n \in Names
  BY Zenon DEF Names
<1>. HIDE DEF cs, c, n
<1>7. /\ Stack(cs, c) # <<>> /\ u \in 1..Len(cs) /\ u < c
      /\ cs[u].pid = p /\ cs[u].funcNam = n
      /\ Len(cores') = Len(cs)
      /\ \A d \in 1..Len(cs) : d \notin {u, c} => cores'[d] = cs[d]
      /\ \A d \in 1..Len(cs) : cores'[d].numLine = cs[d].numLine
      /\ cores'[u].status = "matched" /\ cores'[u].pid = p /\ cores'[u].funcNam = n
      /\ cores'[c].status = "merged" /\ cores'[c].half = u
      /\ cores'[c].pid = p /\ cores'[c].funcNam = n
  <2>1. cs \in Seq(Cores) /\ c \in 1..Len(cs) /\ StacksRefer(cs)
    BY <1>1
  <2>2. RestOK /\ MergePopBatch(cs, c, kept)
    BY <1>1, <1>2
  <2>3. cs[c].pid = p /\ cs[c].funcNam = n
    BY <1>1, <1>3
  <2>. QED  BY <1>5, <2>1, <2>2, <2>3, MergeCores, SMTT(30)
<1>8. m_mapStacks[p][n] \in Seq(Nat) /\ Stack(cs, c) = m_mapStacks[p][n]
  BY <1>1, <1>3, <1>6 DEF RestOK, Stack
<1>9. u = m_mapStacks[p][n][Len(m_mapStacks[p][n])] /\ Member(m_mapStacks[p][n], u)
  BY <1>7, <1>8, Popped DEF Unfinished
<1>. HIDE DEF u
<1>10. /\ u \in 1..Len(cores) /\ cs[u] = cores[u] /\ Awaited(cores[u])
       /\ SysNamed(cores[u], p, f)
  <2>1. u \in 1..Len(cores) /\ cs[u] = cores[u]
    BY <1>1, <1>7
  <2>2. Awaited(cs[u])
    BY <1>4, <1>6, <1>7, <1>9, Zenon DEF HoldAwaited, AwaitedIn
  <2>. QED  BY <1>7, <2>1, <2>2 DEF SysNamed, n
<1>11. ASSUME NEW d \in 1..Len(cores), Awaited(cores[d]), SysNamed(cores[d], p, f)
       PROVE  d <= u
  <2>1. Member(m_mapStacks[p][n], d) /\ Increasing(m_mapStacks[p][n])
    <3>1. d <= Len(cores)
      BY <1>1
    <3>2. AwaitedIn(cores, Len(cores), d, p, n)
      BY <1>11, <3>1, Zenon DEF AwaitedIn, SysNamed, n
    <3>. QED  BY <1>2, <1>6, <3>2, Zenon DEF HoldAwaited
  <2>. QED  BY <1>8, <1>9, <2>1, TopIsLast
<1>12. cores[u].numLine = b /\ \A d \in 1..Len(cores) : cores[d].numLine = b => d = u
  BY <1>0, <1>10, <1>11, TopIsItsHalf
<1>13. ASSUME NEW d \in 1..Len(cs)
       PROVE  d = c \/ d = u \/ (d \in 1..Len(cores) /\ d # u /\ cores'[d] = cores[d])
  BY <1>1, <1>7
<1>14. CoresOK(cores', log', p, f)
  <2>1. ASSUME NEW d \in 1..Len(cs), Named(cores'[d], p, f)
        PROVE  /\ cores'[d].numLine \in 1..Len(log')
               /\ LET l == log'[cores'[d].numLine]
                  IN  /\ l.pid = p /\ l.func = f /\ cores'[d].funcNam = SetFunction(l)
                      /\ cores'[d].status = "unfinished" => l.kind = "unfinished"
    <3>1. /\ cores'[d].pid = cs[d].pid /\ cores'[d].funcNam = cs[d].funcNam
          /\ cores'[d].numLine = cs[d].numLine
          /\ cores'[d].status = "unfinished" => cs[d].status = "unfinished"
      <4>1. CASE d \notin {u, c}
        BY <1>7, <4>1
      <4>2. CASE d = u
        BY <1>7, <4>2
      <4>3. CASE d = c
        BY <1>1, <1>3, <1>7, <4>3
      <4>. QED  BY <4>1, <4>2, <4>3
    <3>2. Named(cs[d], p, f)
      BY <2>1, <3>1, Zenon DEF Named
    <3>3. /\ cs[d].numLine \in 1..Len(log')
          /\ LET l == log'[cs[d].numLine]
             IN  /\ l.pid = p /\ l.func = f /\ cs[d].funcNam = SetFunction(l)
                 /\ cs[d].status = "unfinished" => l.kind = "unfinished"
      BY <1>1, <3>2, Zenon DEF CoresOK
    <3>. QED  BY <3>1, <3>3
  <2>. QED  BY <1>7, <2>1, Zenon DEF CoresOK
<1>15. OneCall(cores', log', p, f)
  <2>1. ASSUME NEW d \in 1..Len(cs), SysNamed(cores'[d], p, f), cores'[d].status = "merged"
        PROVE  log'[cores'[d].numLine].begin = cores'[cores'[d].half].numLine
    <3>1. CASE d = c
      <4>1. log'[cs[c].numLine] = line /\ cs[u].numLine = b
        BY <1>1, <1>3, <1>10, <1>12
      <4>2. /\ cores'[c].numLine = cs[c].numLine /\ cores'[u].numLine = cs[u].numLine
            /\ cores'[c].half = u
        BY <1>1, <1>7
      <4>. QED  BY <1>0, <3>1, <4>1, <4>2
    <3>2. CASE d # c
      <4>1. cores'[d] = cs[d]
        BY <1>7, <2>1, <3>2
      <4>2. cs[d].half \in 1..Len(cs)
        BY <1>1, <2>1, <4>1 DEF HalvesAgree
      <4>3. log'[cs[d].numLine].begin = cs[cs[d].half].numLine
        BY <1>1, <2>1, <4>1 DEF OneCall
      <4>. QED  BY <1>7, <4>1, <4>2, <4>3
    <3>. QED  BY <3>1, <3>2
  <2>. QED  BY <1>7, <2>1, Zenon DEF OneCall
<1>16. AwaitedArePending(p, f) /\ PendingHaveCores(p, f)
  BY DEF PairOK
<1>17. ASSUME NEW d \in 1..Len(cs), Awaited(cores'[d]), SysNamed(cores'[d], p, f)
       PROVE  Member(pending'[p], cores'[d].numLine)
  <2>1. d \in 1..Len(cores) /\ d # u /\ cores'[d] = cores[d]
    BY <1>7, <1>13, <1>17 DEF Awaited
  <2>2. Member(pending[p], cores[d].numLine)
    BY <1>0, <1>16, <1>17, <2>1 DEF AwaitedArePending
  <2>3. cores[d].numLine # b
    BY <1>12, <2>1
  <2>. QED  BY <1>0, <2>1, <2>2, <2>3
<1>18. ASSUME NEW x, Member(pending'[p], x), log'[x].func = f
       PROVE  \E d \in 1..Len(cs) :
                cores'[d].numLine = x /\ cores'[d].status = "unfinished" /\ Named(cores'[d], p, f)
  <2>1. Member(pending[p], x) /\ x # b
    BY <1>0, <1>18
  <2>2. log[x].func = f
    BY <1>0, <1>18, <2>1 DEF TracerInv, PendingOK, Wrote
  <2>3. PICK d \in 1..Len(cores) :
          cores[d].numLine = x /\ cores[d].status = "unfinished" /\ Named(cores[d], p, f)
    BY <1>16, <2>1, <2>2 DEF PendingHaveCores
  <2>4. d # u
    BY <1>12, <2>1, <2>3
  <2>5. d \in 1..Len(cs) /\ cores'[d] = cores[d]
    BY <1>1, <1>7, <2>4
  <2>. QED  BY <2>3, <2>5
<1>. QED  BY <1>7, <1>14, <1>15, <1>17, <1>18, PairNext

(* When it is not merged, the first half does not wait: its function has   *)
(* no class, or not the name that the second half has.                     *)
LEMMA NothingWaits ==
  ASSUME IInv, PInv, TracerInv, NEW p \in Pids, NEW f \in Functions, PairOK(p, f),
         allParsed, ~raised, NEW line, Wrote(line), AboutIt(line, p, f), line.kind = "resumed",
         NEW kept \in BOOLEAN, NEW core, OwnCore(core, line, p, kept),
         ~MergePopBatch(Append(cores, core), Len(cores) + 1, kept),
         NEW d \in 1..Len(cores), Awaited(cores[d]), SysNamed(cores[d], p, f)
  PROVE  FALSE
<1>. DEFINE cs == Append(cores, core)
            c  == Len(cores) + 1
            n  == <<f, "@SYS">>
<1>1. /\ cs \in Seq(Cores) /\ Len(cs) = c /\ c \in 1..Len(cs) /\ Len(cores) \in Nat
      /\ \A e \in 1..Len(cores) : cs[e] = cores[e]
      /\ cs[c] = core /\ StacksRefer(cs) /\ RestOK /\ BatchLetFactory(cs, c, kept)
  BY OwnCoreIn
<1>2. ~MergePopBatch(cs, c, kept)
  OBVIOUS
<1>3. core.pid = p /\ core.status = "resumed" /\ core.funcNam = n
  BY Zenon DEF OwnCore, SetFunction, AboutIt
<1>4. HoldAwaited(cores, Len(cores)) /\ Len(cs) = Len(cores) + 1
  BY <1>1 DEF PInv
<1>5. n \in Names /\ d <= Len(cores) /\ cores[d].pid = p /\ cores[d].funcNam = n
  <2>1. n \in Names
    BY Zenon DEF Names
  <2>2. cores[d].pid = p /\ cores[d].funcNam = n
    BY Zenon DEF SysNamed
  <2>. QED  BY <1>1, <2>1, <2>2
<1>. HIDE DEF cs, c, n
<1>6. HoldAwaited(cs, Len(cs) - 1)
  BY <1>1, <1>4, NewCoreHold
<1>7. Member(m_mapStacks[p][n], d)
  <2>1. AwaitedIn(cores, Len(cores), d, p, n)
    BY <1>5, Zenon DEF AwaitedIn
  <2>. QED  BY <1>4, <1>5, <2>1, Zenon DEF HoldAwaited
<1>8. Stack(cs, c) # <<>>
  BY <1>1, <1>3, <1>7 DEF Stack, Member
<1>9. Model(cs, c) \in {"whole", "resumedOk"}
  BY <1>1, <1>3, <1>5 DEF Model, Awaited
<1>10. MergeRaises(cs, c)
  BY <1>1, <1>2, <1>3, <1>8, <1>9 DEF BatchLetFactory, UnknownFunction, IgnoredFunction,
     UnfinishedIsOk, PushBatch, ResumedAlone, WholeCall
<1>11. cs[Unfinished(cs, c)].status = "unfinished"
  BY <1>1, <1>6, <1>8, TopIsAwaited
<1>. QED  BY <1>10, <1>11 DEF MergeRaises

LEMMA AloneKeeps ==
  ASSUME IInv, PInv, TracerInv, NEW p \in Pids, NEW f \in Functions, PairOK(p, f),
         allParsed, ~raised, NEW line, NEW b, Ends(line, p, f, b), NEW kept \in BOOLEAN,
         NEW core, OwnCore(core, line, p, kept),
         ~MergePopBatch(Append(cores, core), Len(cores) + 1, kept)
  PROVE  PairOK(p, f)'
<1>. DEFINE cs == Append(cores, core)
            c  == Len(cores) + 1
<1>0. /\ Wrote(line) /\ AboutIt(line, p, f) /\ line.kind = "resumed"
      /\ \A x : Member(pending'[p], x) => Member(pending[p], x)
  BY DEF Ends
<1>1. /\ \A d \in 1..Len(cores) : cs[d] = cores[d] /\ d \in 1..Len(cs)
      /\ \A d \in 1..Len(cs) : d \in 1..Len(cores) \/ d = c
      /\ cs[c] = core /\ CoresOK(cs, log', p, f) /\ OneCall(cs, log', p, f)
      /\ cores' = cs \/ MergePopBatch(cs, c, kept)
  BY <1>0, OwnCoreIn
<1>2. cores' = cs
  BY <1>1
<1>3. core.status = "resumed"
  BY <1>0 DEF OwnCore
<1>4. \A d \in 1..Len(cores) : ~(Awaited(cores[d]) /\ SysNamed(cores[d], p, f))
  BY <1>0, NothingWaits
<1>. HIDE DEF cs, c
<1>5. ASSUME NEW d \in 1..Len(cs), Awaited(cs[d]), SysNamed(cs[d], p, f)
      PROVE  FALSE
  BY <1>1, <1>3, <1>4, <1>5 DEF Awaited
<1>6. ASSUME NEW x, Member(pending'[p], x), log'[x].func = f
      PROVE  \E d \in 1..Len(cs) :
               cs[d].numLine = x /\ cs[d].status = "unfinished" /\ Named(cs[d], p, f)
  <2>1. Member(pending[p], x)
    BY <1>0, <1>6
  <2>2. log[x].func = f
    BY <1>0, <1>6, <2>1 DEF TracerInv, PendingOK, Wrote
  <2>3. PICK d \in 1..Len(cores) :
          cores[d].numLine = x /\ cores[d].status = "unfinished" /\ Named(cores[d], p, f)
    BY <2>1, <2>2 DEF PairOK, PendingHaveCores
  <2>. QED  BY <1>1, <2>3
<1>. QED  BY <1>1, <1>2, <1>5, <1>6, PairNext


-----------------------------------------------------------------------------
(* What a step does to the function f of p, when it is intact.             *)

(* A call begins in p, or is made at once.                                 *)
Begins(line, p, f) ==
  /\ Wrote(line) /\ AboutIt(line, p, f) /\ line.kind \in {"plain", "unfinished"}
  /\ \A x : Member(pending'[p], x) <=>
              Member(pending[p], x) \/ (x = Len(log) + 1 /\ line.kind = "unfinished")
  /\ UNCHANGED life

Before(p, f) == allParsed /\ Intact(p, f) /\ Grows

Others(p, f) == SameCores(p, f) /\ KeepsPending(p, f)

Own(p, f) ==
  /\ ~raised
  /\ \E line, kept, core :
       /\ kept \in BOOLEAN /\ OwnCore(core, line, p, kept)
       /\ Begins(line, p, f) \/ \E b : Ends(line, p, f, b)

LEMMA PendingStays ==
  ASSUME UNCHANGED <<life, pending>>, NEW p, NEW f
  PROVE  KeepsPending(p, f)
BY DEF KeepsPending

(* Lines which begin or end nothing.                                       *)
LEMMA QuietStep ==
  ASSUME IInv, TracerInv, NEW p \in Pids, NEW f \in Functions, Intact(p, f)', allParsed',
         NEW line, Wrote(line), line.kind \notin {"unfinished", "resumed"}, ReadLastLine,
         UNCHANGED <<life, pending>>
  PROVE  Before(p, f) /\ (Others(p, f) \/ Own(p, f))
<1>1. PICK kept \in BOOLEAN : ReadLine(line, kept)
  BY LastLineRead
<1>2. /\ allParsed /\ Intact(p, f) /\ Grows
      /\ \/ SameCores(p, f)
         \/ AboutIt(line, p, f) /\ ~raised /\ \E core : OwnCore(core, line, p, kept)
  BY <1>1, LineRead
<1>3. KeepsPending(p, f)
  BY PendingStays
<1>4. ASSUME AboutIt(line, p, f)
      PROVE  Begins(line, p, f)
  BY <1>4 DEF Begins, AboutIt, CallKinds
<1>. QED  BY <1>2, <1>3, <1>4, Zenon DEF Before, Others, Own

LEMMA BeginStep ==
  ASSUME IInv, TracerInv, NEW p \in Pids, NEW f \in Functions, Intact(p, f)', allParsed',
         NEW q \in Pids, NEW g \in Functions, Begin(q, g), ReadLastLine
  PROVE  Before(p, f) /\ (Others(p, f) \/ Own(p, f))
<1>1. PICK line : Wrote(line) /\ line.kind = "unfinished" /\ line.pid = q /\ line.func = g
  BY BeginSays
<1>2. /\ UNCHANGED life
      /\ \A o \in Pids : o # q => pending'[o] = pending[o]
      /\ \A x : Member(pending'[q], x) <=> Member(pending[q], x) \/ x = Len(log) + 1
  BY BeginSays
<1>3. PICK kept \in BOOLEAN : ReadLine(line, kept)
  BY <1>1, LastLineRead
<1>4. /\ allParsed /\ Intact(p, f) /\ Grows
      /\ \/ SameCores(p, f) /\ ~AboutIt(line, p, f)
         \/ AboutIt(line, p, f) /\ ~raised /\ \E core : OwnCore(core, line, p, kept)
  BY <1>1, <1>3, LineRead
<1>5. ASSUME ~AboutIt(line, p, f)
      PROVE  KeepsPending(p, f)
  <2>1. p # q \/ f # g
    BY <1>1, <1>5 DEF AboutIt, CallKinds
  <2>2. log'[Len(log) + 1].func = g
    BY <1>1 DEF Wrote
  <2>3. CASE p # q
    <3>1. pending'[p] = pending[p]
      BY <1>2, <2>3
    <3>. QED  BY <1>2, <3>1, Zenon DEF KeepsPending
  <2>4. CASE p = q /\ f # g
    BY <1>2, <2>2, <2>4, Zenon DEF KeepsPending
  <2>. QED  BY <2>1, <2>3, <2>4
<1>6. ASSUME AboutIt(line, p, f)
      PROVE  Begins(line, p, f)
  <2>1. p = q
    BY <1>1, <1>6 DEF AboutIt
  <2>. QED  BY <1>1, <1>2, <1>6, <2>1, Zenon DEF Begins
<1>. QED  BY <1>4, <1>5, <1>6, Zenon DEF Before, Others, Own

LEMMA EndStep ==
  ASSUME IInv, TracerInv, PendingInOrder,
         NEW p \in Pids, NEW f \in Functions, Intact(p, f)', allParsed',
         NEW q \in Pids, NEW closed \in BOOLEAN, End(q, closed), ReadLastLine
  PROVE  Before(p, f) /\ (Others(p, f) \/ Own(p, f))
<1>1. Increasing(pending[q])
  BY DEF PendingInOrder
<1>2. PICK line, b : EndOf(line, b, q)
  BY EndSays
<1>3. /\ UNCHANGED life /\ life[q] = "running"
      /\ \A o \in Pids : o # q => pending'[o] = pending[o]
  BY EndSays
<1>4. /\ Wrote(line) /\ line.kind = "resumed" /\ line.pid = q /\ line.begin = b
      /\ b \in 1..Len(log) /\ line.func = log[b].func /\ Member(pending[q], b)
      /\ \A x : Member(pending'[q], x) <=> Member(pending[q], x) /\ x # b
      /\ \A x : Member(pending[q], x) => x <= b
  BY <1>1, <1>2 DEF EndOf
<1>5. PICK kept \in BOOLEAN : ReadLine(line, kept)
  BY <1>4, LastLineRead
<1>6. /\ allParsed /\ Intact(p, f) /\ Grows
      /\ \/ SameCores(p, f) /\ ~AboutIt(line, p, f)
         \/ AboutIt(line, p, f) /\ ~raised /\ \E core : OwnCore(core, line, p, kept)
  BY <1>4, <1>5, LineRead
<1>7. ASSUME ~AboutIt(line, p, f)
      PROVE  KeepsPending(p, f)
  <2>1. p # q \/ f # log[b].func
    BY <1>4, <1>7 DEF AboutIt, CallKinds
  <2>2. CASE p # q
    <3>1. pending'[p] = pending[p]
      BY <1>3, <2>2
    <3>. QED  BY <1>3, <3>1, Zenon DEF KeepsPending
  <2>3. CASE p = q /\ f # log[b].func
    BY <1>3, <1>4, <2>3, Zenon DEF KeepsPending
  <2>. QED  BY <2>1, <2>2, <2>3
<1>8. ASSUME AboutIt(line, p, f)
      PROVE  Ends(line, p, f, b)
  <2>1. p = q /\ log[b].func = f
    BY <1>4, <1>8 DEF AboutIt
  <2>. QED  BY <1>3, <1>4, <1>8, <2>1, Zenon DEF Ends
<1>. QED  BY <1>6, <1>7, <1>8, Zenon DEF Before, Others, Own

LEMMA ExitStep ==
  ASSUME IInv, TracerInv, NEW p \in Pids, NEW f \in Functions, Intact(p, f)', allParsed',
         NEW q \in Pids, Exit(q), ReadLastLine
  PROVE  Before(p, f) /\ Others(p, f)
<1>1. KeepsPending(p, f)
  <2>1. /\ life'[p] = IF p = q THEN "gone" ELSE life[p]
        /\ pending'[p] = IF p = q THEN <<>> ELSE pending[p]
    BY ExitSays
  <2>2. \A x : ~Member(<<>>, x)
    BY DEF Member
  <2>3. CASE p = q
    <3>1. life'[p] = "gone" /\ pending'[p] = <<>>
      BY <2>1, <2>3
    <3>. QED  BY <2>2, <3>1, Zenon DEF KeepsPending
  <2>4. CASE p # q
    <3>1. life'[p] = life[p] /\ pending'[p] = pending[p]
      BY <2>1, <2>4
    <3>. QED  BY <3>1, Zenon DEF KeepsPending
  <2>. QED  BY <2>3, <2>4
<1>2. CASE log' = log
  <2>1. UNCHANGED <<cores, allParsed>>
    BY <1>2 DEF ReadLastLine, readerVars, coreVars
  <2>2. Grows
    BY <1>2 DEF Grows
  <2>3. Intact(p, f)
    BY <2>2, IntactBefore
  <2>4. SameCores(p, f)
    BY <2>1, NothingRead
  <2>. QED  BY <1>1, <2>1, <2>2, <2>3, <2>4 DEF Before, Others
<1>3. ASSUME NEW line, Wrote(line), line.kind = "exit"
      PROVE  Before(p, f) /\ Others(p, f)
  <2>1. PICK kept \in BOOLEAN : ReadLine(line, kept)
    BY <1>3, LastLineRead
  <2>2. ~AboutIt(line, p, f)
    BY <1>3 DEF AboutIt, CallKinds
  <2>3. allParsed /\ Intact(p, f) /\ Grows /\ SameCores(p, f)
    BY <1>3, <2>1, <2>2, LineRead
  <2>. QED  BY <1>1, <2>3 DEF Before, Others
<1>. QED  BY <1>2, <1>3, ExitSays

LEMMA AttachStep ==
  ASSUME IInv, TracerInv, NEW p \in Pids, NEW f \in Functions, Intact(p, f)', allParsed',
         NEW q \in Pids, Attach(q), UNCHANGED readerVars
  PROVE  Before(p, f) /\ Others(p, f)
<1>1. /\ life[q] = "new" /\ UNCHANGED <<pending, log>>
      /\ life' = [life EXCEPT ![q] = "running"] /\ life \in [Pids -> {"new", "running", "gone"}]
  BY DEF Attach, TracerInv, TracerTypeOK
<1>2. life'[p] # "gone" => life[p] # "gone"
  BY <1>1
<1>3. KeepsPending(p, f)
  BY <1>1, <1>2, Zenon DEF KeepsPending
<1>4. UNCHANGED <<cores, allParsed>>
  BY DEF readerVars, coreVars
<1>5. Grows
  BY <1>1 DEF Grows
<1>6. Intact(p, f)
  BY <1>5, IntactBefore
<1>7. SameCores(p, f)
  BY <1>4, NothingRead
<1>. QED  BY <1>3, <1>4, <1>5, <1>6, <1>7 DEF Before, Others

(* The text that still waits at the end of the log is not about it.        *)
LEMMA EndOfLogStep ==
  ASSUME IInv, TracerInv, NEW p \in Pids, NEW f \in Functions, Intact(p, f)', allParsed',
         NEW kept \in BOOLEAN, EndOfLog(kept), UNCHANGED tracerVars
  PROVE  Before(p, f) /\ Others(p, f)
<1>1. UNCHANGED <<life, pending, log>>
  BY DEF tracerVars
<1>2. KeepsPending(p, f)
  BY <1>1, PendingStays
<1>3. Grows
  BY <1>1 DEF Grows
<1>4. Intact(p, f)
  BY <1>3, IntactBefore
<1>5. CASE UNCHANGED <<cores, allParsed>>
  BY <1>2, <1>3, <1>4, <1>5, NothingRead DEF Before, Others
<1>6. CASE oneLine # <<>> /\ ReadCall(Head(oneLine), Head(oneLine), kept)
  <2>1. Stale(Head(oneLine))
    BY <1>6, HeldIsStale
  <2>2. Parsed(Head(oneLine), Head(oneLine), kept)
    BY <1>6 DEF Parsed, EndOfLog
  <2>3. SameCores(p, f)
    BY <1>4, <2>1, <2>2, StaleKeeps
  <2>4. allParsed
    BY <1>6 DEF ReadCall
  <2>. QED  BY <1>2, <1>3, <1>4, <2>3, <2>4 DEF Before, Others
<1>7. \/ UNCHANGED coreVars
      \/ oneLine # <<>> /\ CreateBatchCore(Head(oneLine), Head(oneLine), kept)
  BY DEF EndOfLog
<1>8. UNCHANGED coreVars => UNCHANGED <<cores, allParsed>>
  BY DEF coreVars
<1>9. \A first : ReadEvent(first) => UNCHANGED <<cores, allParsed>>
  BY DEF ReadEvent
<1>10. \A first : ~ReadUnparsable(first, kept)
  BY DEF ReadUnparsable
<1>. QED  BY <1>5, <1>6, <1>7, <1>8, <1>9, <1>10 DEF CreateBatchCore

LEMMA EachStep ==
  ASSUME IInv, TracerInv, PendingInOrder, Next,
         NEW p \in Pids, NEW f \in Functions, Intact(p, f)', allParsed'
  PROVE  Before(p, f) /\ (Others(p, f) \/ Own(p, f))
<1>1. ASSUME NEW q \in Pids, NEW g \in Functions, NEW closed \in BOOLEAN,
             Call(q, g, closed), ReadLastLine
      PROVE  Before(p, f) /\ (Others(p, f) \/ Own(p, f))
  <2>1. PICK line : Wrote(line) /\ line.kind = "plain"
    BY <1>1, CallSays
  <2>2. UNCHANGED <<life, pending>>
    BY <1>1, CallSays
  <2>. QED  BY <1>1, <2>1, <2>2, QuietStep
<1>2. ASSUME NEW q \in Pids, Signal(q), ReadLastLine
      PROVE  Before(p, f) /\ (Others(p, f) \/ Own(p, f))
  <2>1. PICK line : Wrote(line) /\ line.kind = "signal"
    BY <1>2, SignalSays
  <2>2. UNCHANGED <<life, pending>>
    BY <1>2, SignalSays
  <2>. QED  BY <1>2, <2>1, <2>2, QuietStep
<1>3. ASSUME NEW closed \in BOOLEAN, Text(closed), ReadLastLine
      PROVE  Before(p, f) /\ (Others(p, f) \/ Own(p, f))
  <2>1. PICK line : Wrote(line) /\ line.kind = "text"
    BY <1>3, TextSays
  <2>2. UNCHANGED <<life, pending>>
    BY <1>3, TextSays
  <2>. QED  BY <1>3, <2>1, <2>2, QuietStep
<1>. QED
  BY <1>1, <1>2, <1>3, BeginStep, EndStep, ExitStep, AttachStep, EndOfLogStep DEF Next

LEMMA MatchStep ==
  ASSUME IInv, PInv, TracerInv, OrderInv, PendingInOrder, MatchInv, Next
  PROVE  MatchInv'
<1>1. ASSUME allParsed', NEW p \in Pids, NEW f \in Functions, Intact(p, f)'
      PROVE  PairOK(p, f)'
  <2>1. Before(p, f) /\ (Others(p, f) \/ Own(p, f))
    BY <1>1, EachStep
  <2>2. PairOK(p, f) /\ allParsed /\ Grows
    BY <2>1 DEF MatchInv, Before
  <2>3. CASE Others(p, f)
    BY <2>2, <2>3, OthersKeep DEF Others
  <2>4. CASE Own(p, f)
    <3>1. PICK line, kept, core :
            /\ kept \in BOOLEAN /\ OwnCore(core, line, p, kept)
            /\ Begins(line, p, f) \/ \E b : Ends(line, p, f, b)
      BY <2>4 DEF Own
    <3>2. ~raised
      BY <2>4 DEF Own
    <3>3. CASE Begins(line, p, f)
      BY <2>2, <3>1, <3>3, NewCallKeeps DEF Begins
    <3>4. ASSUME NEW b, Ends(line, p, f, b)
          PROVE  PairOK(p, f)'
      <4>1. CASE MergePopBatch(Append(cores, core), Len(cores) + 1, kept)
        BY <2>2, <3>1, <3>4, <4>1, MergedKeeps
      <4>2. CASE ~MergePopBatch(Append(cores, core), Len(cores) + 1, kept)
        BY <2>2, <3>1, <3>2, <3>4, <4>2, AloneKeeps
      <4>. QED  BY <4>1, <4>2
    <3>. QED  BY <3>1, <3>3, <3>4
  <2>. QED  BY <2>1, <2>3, <2>4
<1>. QED  BY <1>1, Zenon DEF MatchInv, Intact, ShownAs, Behind, PairOK, CoresOK, OneCall,
          AwaitedArePending, PendingHaveCores, Awaited, Named, SysNamed, SetFunction

LEMMA InitMatchInv == Init => MatchInv
<1>. SUFFICES ASSUME Init, NEW p \in Pids, NEW f \in Functions PROVE PairOK(p, f)
  BY DEF MatchInv
<1>1. Len(cores) = 0 /\ \A x : ~Member(pending[p], x)
  BY DEF Init, ReaderInit, TracerInit, Member
<1>. QED
  BY <1>1 DEF PairOK, CoresOK, OneCall, AwaitedArePending, PendingHaveCores

LEMMA SameMatch ==
  ASSUME IInv, TracerInv, MatchInv, UNCHANGED vars
  PROVE  MatchInv'
<1>1. UNCHANGED <<life, pending, log, cores, allParsed>>
  BY DEF vars, tracerVars, readerVars, coreVars
<1>2. Grows
  BY <1>1 DEF Grows
<1>3. ASSUME allParsed', NEW p \in Pids, NEW f \in Functions, Intact(p, f)'
      PROVE  PairOK(p, f)'
  <2>1. PairOK(p, f)
    BY <1>1, <1>2, <1>3, IntactBefore DEF MatchInv
  <2>2. SameCores(p, f) /\ KeepsPending(p, f)
    BY <1>1, NothingRead, PendingStays
  <2>. QED  BY <1>2, <2>1, <2>2, OthersKeep
<1>. QED  BY <1>3, Zenon DEF MatchInv, Intact, ShownAs, Behind, PairOK, CoresOK, OneCall,
          AwaitedArePending, PendingHaveCores, Awaited, Named, SysNamed, SetFunction

LEMMA NextMatchInv ==
  IInv /\ PInv /\ TracerInv /\ OrderInv /\ PendingInOrder /\ MatchInv /\ [Next]_vars => MatchInv'
BY SameMatch, MatchStep

LEMMA InitPendingInOrder == Init => PendingInOrder
BY DEF Init, TracerInit, PendingInOrder, Increasing

(* All that is needed of the reader and of the tracer.                     *)
AllInv == IInv /\ PInv /\ TracerInv /\ OrderInv /\ PendingInOrder /\ MatchInv

LEMMA AlwaysAllInv == Spec => []AllInv
<1>1. Init => AllInv
  BY InitIInv, InitPInv, InitTracerInv, InitOrderInv, InitPendingInOrder, InitMatchInv
     DEF Init, AllInv
<1>2. AllInv /\ [Next]_vars => AllInv'
  <2>. SUFFICES ASSUME AllInv, [Next]_vars PROVE AllInv'
    OBVIOUS
  <2>1. IInv /\ PInv /\ TracerInv /\ OrderInv /\ PendingInOrder /\ MatchInv
    BY DEF AllInv
  <2>2. [ReaderNext]_readerVars
    <3>1. UNCHANGED vars => UNCHANGED readerVars
      BY DEF vars
    <3>. QED  BY <2>1, <3>1, StepIsRead
  <2>3. IInv' /\ PInv' /\ OrderInv'
    BY <2>1, <2>2, NextIInv, NextPInv, NextOrderInv
  <2>4. TracerInv' /\ PendingInOrder' /\ MatchInv'
    BY <2>1, NextTracerInv, NextPendingInOrder, NextMatchInv
  <2>. QED  BY <2>3, <2>4 DEF AllInv
<1>. QED  BY <1>1, <1>2, PTL DEF Spec

(* dockit puts two halves together only if they are the halves of one call *)
(* of the traced processes, as long as every line can be parsed, for each  *)
(* process and function whose own lines are intact: whatever the other     *)
(* processes do, whatever texts, signals and exits come between the lines. *)
THEOREM MergesAreRight == Spec => []MergedIsOneCall
<1>1. AllInv => MergedIsOneCall
  BY Zenon DEF AllInv, MatchInv, PairOK, OneCall, SysNamed, MergedIsOneCall, IsMerged
<1>. QED  BY <1>1, AlwaysAllInv, PTL

-----------------------------------------------------------------------------
(* "We should have the unfinished part somewhere".                         *)

(* The classes of system calls are registered with "@SYS", those of        *)
(* library functions without.  A first half is enough for one of the       *)
(* latter only, BatchLetLib___libc_start_main.                             *)
SysModels ==
  /\ \A f \in Functions : G_batchModels[<<f, "@SYS">>] # "unfinishedOk"
  /\ \A f \in LibFunctions : G_batchModels[<<f, "@SYS">>] \in {"unknown", "ignored"}

(* The function f of p, when it is intact.                                 *)
Found(p, f) == \A c \in 1..Len(cores) : SysNamed(cores[c], p, f) => ~Missed(c)

LEMMA SameFound ==
  ASSUME NEW p, NEW f, SameCores(p, f), Found(p, f)
  PROVE  Found(p, f)'
<1>1. ASSUME NEW c \in 1..Len(cores'), SysNamed(cores'[c], p, f)
      PROVE  ~Missed(c)'
  <2>1. Named(cores'[c], p, f)
    BY <1>1 DEF SysNamed, Named
  <2>2. c \in 1..Len(cores) /\ cores'[c] = cores[c]
    BY <2>1 DEF SameCores
  <2>. QED  BY <1>1, <2>2 DEF Found, Missed
<1>. QED  BY <1>1, Zenon DEF Found, SysNamed

(* The line that ends the call on line b is merged, or has no class.       *)
LEMMA OwnFound ==
  ASSUME SysModels, IInv, PInv, TracerInv, NEW p \in Pids, NEW f \in Functions, PairOK(p, f),
         Found(p, f), allParsed, ~raised, NEW line, NEW kept \in BOOLEAN, NEW core,
         OwnCore(core, line, p, kept), Begins(line, p, f) \/ \E b : Ends(line, p, f, b)
  PROVE  Found(p, f)'
<1>. DEFINE cs == Append(cores, core)
            c  == Len(cores) + 1
            n  == <<f, "@SYS">>
<1>1. Wrote(line) /\ AboutIt(line, p, f)
  BY DEF Begins, Ends
<1>2. /\ cs \in Seq(Cores) /\ Len(cs) = c /\ c \in 1..Len(cs) /\ RestOK
      /\ \A d \in 1..Len(cores) : cs[d] = cores[d]
      /\ \A d \in 1..Len(cs) : d \in 1..Len(cores) \/ d = c
      /\ cs[c] = core /\ StacksRefer(cs)
      /\ cores' = cs \/ MergePopBatch(cs, c, kept)
  BY <1>1, OwnCoreIn
<1>3. core.status = line.kind /\ core.funcNam = SetFunction(line)
  BY DEF OwnCore
<1>4. ~MergePopBatch(cs, c, kept) /\ core.status = "resumed" =>
        G_batchModels[core.funcNam] \in {"unknown", "ignored"}
  <2>. SUFFICES ASSUME ~MergePopBatch(cs, c, kept), core.status = "resumed",
                       G_batchModels[core.funcNam] \notin {"unknown", "ignored"}
                PROVE  FALSE
    OBVIOUS
  <2>1. line.kind = "resumed" /\ core.funcNam = n
    BY <1>1, <1>3, Zenon DEF SetFunction, AboutIt
  <2>2. PICK b : Ends(line, p, f, b)
    BY <2>1 DEF Begins
  <2>3. b \in 1..Len(log) /\ log[b].func = f /\ Member(pending[p], b)
    BY <2>2 DEF Ends
  <2>4. PICK d \in 1..Len(cores) :
          cores[d].numLine = b /\ cores[d].status = "unfinished" /\ Named(cores[d], p, f)
    BY <2>3 DEF PairOK, PendingHaveCores
  <2>5. n \in Names /\ f \in SysFunctions /\ G_batchModels[n] \in {"whole", "resumedOk"}
    <3>1. f \notin LibFunctions /\ G_batchModels[n] # "unfinishedOk"
      BY <2>1 DEF SysModels
    <3>2. n \in Names
      BY Zenon DEF Names
    <3>3. G_batchModels[n] \in Models
      BY <3>2, CallMatchingAssumption, Zenon
    <3>. HIDE DEF n
    <3>. QED  BY <2>1, <3>1, <3>2, <3>3 DEF Models, Functions
  <2>6. cores[d].pid = p /\ cores[d].funcNam = n
    <3>1. cores[d].funcNam = SetFunction(log[b]) /\ log[b].kind = "unfinished"
      BY <2>4, Zenon DEF PairOK, CoresOK
    <3>2. SetFunction(log[b]) = n
      BY <2>3, <2>5, <3>1, Zenon DEF SetFunction
    <3>3. cores[d].pid = p
      BY <2>4, Zenon DEF Named
    <3>. QED  BY <3>1, <3>2, <3>3
  <2>. HIDE DEF n
  <2>7. Awaited(cores[d])
    BY <2>4, <2>5, <2>6 DEF Awaited
  <2>8. SysNamed(cores[d], p, f)
    BY <2>6 DEF SysNamed, n
  <2>. QED  BY <1>1, <2>1, <2>7, <2>8, NothingWaits
<1>. HIDE DEF cs, c
<1>5. CASE MergePopBatch(cs, c, kept)
  <2>. DEFINE u == Unfinished(cs, c)
  <2>1. /\ Len(cores') = Len(cs) /\ cores'[u].status = "matched" /\ cores'[c].status = "merged"
        /\ \A d \in 1..Len(cs) : d \notin {u, c} => cores'[d] = cs[d]
    BY <1>2, <1>5, MergeCores
  <2>. HIDE DEF u
  <2>2. ASSUME NEW d \in 1..Len(cs), SysNamed(cores'[d], p, f)
        PROVE  ~Missed(d)'
    <3>1. CASE d \in {u, c}
      BY <2>1, <3>1 DEF Missed
    <3>2. CASE d \notin {u, c}
      <4>1. d \in 1..Len(cores) /\ cores'[d] = cores[d]
        BY <1>2, <2>1, <3>2
      <4>. QED  BY <2>2, <4>1 DEF Found, Missed
    <3>. QED  BY <3>1, <3>2
  <2>. QED  BY <2>1, <2>2, Zenon DEF Found, SysNamed
<1>6. CASE cores' = cs /\ ~MergePopBatch(cs, c, kept)
  <2>1. ASSUME NEW d \in 1..Len(cs), SysNamed(cs[d], p, f)
        PROVE  ~Missed(d)'
    <3>1. CASE d = c
      BY <1>2, <1>4, <1>6, <3>1 DEF Missed
    <3>2. CASE d \in 1..Len(cores)
      BY <1>2, <1>6, <2>1, <3>2 DEF Found, Missed
    <3>. QED  BY <1>2, <3>1, <3>2
  <2>. QED  BY <1>6, <2>1, Zenon DEF Found, SysNamed
<1>. QED  BY <1>2, <1>5, <1>6

FoundInv == allParsed => \A p \in Pids, f \in Functions : Intact(p, f) => Found(p, f)

LEMMA ResumedStep ==
  ASSUME SysModels, AllInv, FoundInv, Next
  PROVE  FoundInv'
<1>0. IInv /\ PInv /\ TracerInv /\ PendingInOrder /\ MatchInv
  BY DEF AllInv
<1>1. ASSUME allParsed', NEW p \in Pids, NEW f \in Functions, Intact(p, f)'
      PROVE  Found(p, f)'
  <2>1. Before(p, f) /\ (Others(p, f) \/ Own(p, f))
    BY <1>0, <1>1, EachStep
  <2>2. PairOK(p, f) /\ Found(p, f) /\ allParsed
    BY <1>0, <2>1 DEF MatchInv, FoundInv, Before
  <2>3. CASE Others(p, f)
    BY <2>2, <2>3, SameFound DEF Others
  <2>4. CASE Own(p, f)
    <3>1. PICK line, kept, core :
            /\ kept \in BOOLEAN /\ OwnCore(core, line, p, kept)
            /\ Begins(line, p, f) \/ \E b : Ends(line, p, f, b)
      BY <2>4 DEF Own
    <3>2. ~raised
      BY <2>4 DEF Own
    <3>. QED  BY <1>0, <2>2, <3>1, <3>2, OwnFound
  <2>. QED  BY <2>1, <2>3, <2>4
<1>. QED  BY <1>1, Zenon DEF FoundInv, Found, Missed, Intact, ShownAs, Behind, SysNamed

(* The second half of a call whose function has a class is merged with its *)
(* first half, under the same conditions.                                  *)
THEOREM ResumedAreMerged ==
  ASSUME SysModels
  PROVE  Spec => []ResumedFindsItsHalf
<1>1. Init => FoundInv
  BY DEF Init, ReaderInit, FoundInv, Found
<1>2. AllInv /\ FoundInv /\ [Next]_vars => FoundInv'
  <2>1. ASSUME FoundInv, UNCHANGED vars
        PROVE  FoundInv'
    <3>1. UNCHANGED <<log, cores, allParsed>>
      BY <2>1 DEF vars, tracerVars, readerVars, coreVars
    <3>2. ASSUME allParsed', NEW p \in Pids, NEW f \in Functions, Intact(p, f)'
          PROVE  Found(p, f)'
      <4>1. Intact(p, f)
        BY <3>1, <3>2, Zenon DEF Intact, ShownAs, Behind
      <4>2. Found(p, f)
        BY <2>1, <3>1, <3>2, <4>1 DEF FoundInv
      <4>. QED  BY <3>1, <4>2, Zenon DEF Found, Missed, SysNamed
    <3>. QED
      BY <3>2, Zenon DEF FoundInv, Found, Missed, Intact, ShownAs, Behind, SysNamed
  <2>. QED  BY <2>1, ResumedStep
<1>3. FoundInv => ResumedFindsItsHalf
  BY Zenon DEF FoundInv, Found, SysNamed, ResumedFindsItsHalf
<1>. QED  BY <1>1, <1>2, <1>3, AlwaysAllInv, PTL DEF Spec

=============================================================================
