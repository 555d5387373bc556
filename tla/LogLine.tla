------------------------------ MODULE LogLine ------------------------------
(***************************************************************************)
(* One line of a strace or ltrace log, as far as survol/scripts/dockit.py  *)
(* looks at it: who it is about, which function, which part of the call,   *)
(* and whether it ends as the lines of a tracer do.                        *)
(***************************************************************************)
EXTENDS Naturals, Sequences, FiniteSets

CONSTANTS
  Pids,         \* processes that may be traced
  SysFunctions, \* system calls
  LibFunctions, \* library functions, which only ltrace can see
  TracerName,   \* "strace" or "ltrace"
  Nothing,      \* no process, no function
  Damages,      \* what may disturb the log: see DamageKinds
  MaxLines      \* bound on the length of the log

(* "text": lines that no tracer wrote.  "open": calls whose line does not  *)
(* end as a call does, "exit_group(0) = ?" without a pid, or a string of   *)
(* several lines.                                                          *)
DamageKinds == {"text", "open"}
Functions == SysFunctions \cup LibFunctions

ASSUME LogLineAssumption ==
  /\ Nothing \notin Pids \cup Functions
  /\ SysFunctions \cap LibFunctions = {}
  /\ TracerName \in {"strace", "ltrace"}
  /\ Damages \subseteq DamageKinds
  /\ MaxLines \in Nat

CallKinds == {"plain", "unfinished", "resumed"}

\* A signal, the exit of a process and a foreign text have no function.
Lines ==
  [ kind   : CallKinds \cup {"signal", "exit", "text"},
    pid    : Pids,                  \* the process the line is about
    shown  : Pids \cup {Nothing},   \* the pid printed in front of it
    func   : Functions \cup {Nothing},
    begin  : Nat,                   \* of a resumed call, the line of its first half
    closed : BOOLEAN ]              \* it ends as the line of a tracer should

(* "<unfinished ...>" and " ---" always end their line.  What comes with   *)
(* an exit, "+++ exited (status 0) +++", never looks like the end of one.  *)
WellFormed(line) ==
  /\ line.func = Nothing <=> line.kind \notin CallKinds
  /\ line.kind \in {"unfinished", "signal"} => line.closed
  /\ line.kind = "exit" => ~line.closed
  /\ line.kind = "text" => line.shown = Nothing /\ "text" \in Damages
  /\ line.kind \in {"plain", "resumed"} /\ ~line.closed => "open" \in Damages

=============================================================================
