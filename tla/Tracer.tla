------------------------------- MODULE Tracer -------------------------------
(***************************************************************************)
(* The log that strace -f or ltrace -f writes about a command and its      *)
(* sub-processes, as survol/scripts/dockit.py receives it.  The tracers    *)
(* are external programs: this module says what dockit relies on, taken    *)
(* from the log extracts quoted in its comments (lines 2343-2347 and       *)
(* 2449-2488).                                                             *)
(*                                                                         *)
(*  - A call is logged on one line, or, when another event must be printed *)
(*    before it returns, on an "unfinished" and a "resumed" line.          *)
(*  - strace sees system calls only: a thread has one pending call.        *)
(*    ltrace also sees library calls, which may nest.                      *)
(*  - ltrace always starts a line with "[pid N]".  strace does not when it *)
(*    traces one process only (4229-4232).                                 *)
(*  - ltrace logs "+++ exited (status 0) +++".  strace, which dockit runs  *)
(*    with -qq (4470), logs at most a process that is killed.              *)
(*  - A process that exits leaves its pending calls without a second half. *)
(*  - Text of another origin ("strace: Process 7 attached", the error      *)
(*    output of the command) may appear between two lines.                 *)
(***************************************************************************)
EXTENDS LogLine

CONSTANT TopPid   \* the process the tracer starts or attaches to

ASSUME TracerAssumption == TopPid \in Pids

VARIABLES
  life,     \* each process: "new", "running" or "gone"
  pending,  \* each process: the line numbers of its unfinished calls, innermost last
  log       \* the lines written so far

tracerVars == <<life, pending, log>>

TracerTypeOK ==
  /\ life \in [Pids -> {"new", "running", "gone"}]
  /\ pending \in [Pids -> Seq(Nat)]
  /\ log \in Seq(Lines)

Running == {p \in Pids : life[p] = "running"}

TracerInit ==
  /\ life = [p \in Pids |-> IF p = TopPid THEN "running" ELSE "new"]
  /\ pending = [p \in Pids |-> <<>>]
  /\ log = <<>>

-----------------------------------------------------------------------------
Write(line) ==
  /\ Len(log) < MaxLines
  /\ WellFormed(line)
  /\ log' = Append(log, line)

Shown(p) == IF TracerName = "strace" /\ Running = {p} THEN Nothing ELSE p

Line(kind, p, f, begin, closed) ==
  [kind |-> kind, pid |-> p, shown |-> Shown(p), func |-> f, begin |-> begin, closed |-> closed]

(* A system call never has another call below it; a library call may. *)
MayCall(p) ==
  /\ life[p] = "running"
  /\ \A i \in 1..Len(pending[p]) : log[pending[p][i]].func \in LibFunctions

(* A call that is logged on one line. *)
Call(p, f, closed) ==
  /\ MayCall(p)
  /\ Write(Line("plain", p, f, 0, closed))
  /\ UNCHANGED <<life, pending>>

(* The first half of a call. *)
Begin(p, f) ==
  /\ MayCall(p)
  /\ Write(Line("unfinished", p, f, 0, TRUE))
  /\ pending' = [pending EXCEPT ![p] = Append(@, Len(log) + 1)]
  /\ UNCHANGED life

(* The second half of the innermost pending call. *)
End(p, closed) ==
  /\ life[p] = "running"
  /\ pending[p] # <<>>
  /\ LET begin == pending[p][Len(pending[p])]
     IN  Write(Line("resumed", p, log[begin].func, begin, closed))
  /\ pending' = [pending EXCEPT ![p] = SubSeq(@, 1, Len(@) - 1)]
  /\ UNCHANGED life

(* "--- SIGCHLD {...} ---" *)
Signal(p) ==
  /\ life[p] = "running"
  /\ Write(Line("signal", p, Nothing, 0, TRUE))
  /\ UNCHANGED <<life, pending>>

(* A text that the tracer did not write, or not about a call. *)
Text(closed) ==
  /\ Running # {}
  /\ Write([Line("text", TopPid, Nothing, 0, closed) EXCEPT !.shown = Nothing])
  /\ UNCHANGED <<life, pending>>

(* "+++ exited (status 0) +++", or killed: the pending calls are never resumed. *)
Exit(p) ==
  /\ life[p] = "running"
  /\ \/ Write(Line("exit", p, Nothing, 0, FALSE))
     \/ TracerName = "strace" /\ UNCHANGED log
  /\ life' = [life EXCEPT ![p] = "gone"]
  /\ pending' = [pending EXCEPT ![p] = <<>>]

(* A running process has created another one, which is traced from now on. *)
Attach(p) ==
  /\ life[p] = "new"
  /\ Running # {}
  /\ life' = [life EXCEPT ![p] = "running"]
  /\ UNCHANGED <<pending, log>>

=============================================================================
