---------------------------- MODULE DockitTrace -----------------------------
(***************************************************************************)
(* dockit reading the log of a traced command.  The tracer does not depend *)
(* on its reader, and the reader takes the lines in order, so each line is *)
(* read in the step that writes it.                                        *)
(***************************************************************************)
EXTENDS Tracer, CallMatching

ASSUME DockitTraceAssumption == G_topProcessId = TopPid

vars == <<tracerVars, readerVars>>

Init == TracerInit /\ ReaderInit

ReadLastLine ==
  IF log' = log THEN UNCHANGED readerVars
                ELSE \E kept \in BOOLEAN : ReadLine(log'[Len(log')], kept)

Next ==
  \/ \E p \in Pids, f \in Functions, closed \in BOOLEAN : Call(p, f, closed) /\ ReadLastLine
  \/ \E p \in Pids, f \in Functions : Begin(p, f) /\ ReadLastLine
  \/ \E p \in Pids, closed \in BOOLEAN : End(p, closed) /\ ReadLastLine
  \/ \E p \in Pids : Signal(p) /\ ReadLastLine
  \/ \E closed \in BOOLEAN : Text(closed) /\ ReadLastLine
  \/ \E p \in Pids : Exit(p) /\ ReadLastLine
  \/ \E p \in Pids : Attach(p) /\ UNCHANGED readerVars
  \/ \E kept \in BOOLEAN : EndOfLog(kept) /\ UNCHANGED tracerVars

Spec == Init /\ [][Next]_vars

-----------------------------------------------------------------------------
(* Correctness of the matching with respect to what the processes did.     *)

(* The line comes after one which does not end as it should.               *)
Behind(i) == i > 1 /\ ~log[i - 1].closed

(* The lines about function f of process p can be told from the others:    *)
(* each one ends as it should, and shows its pid unless it is of the top   *)
(* process; no half of a call comes behind the exit of a process, a text,  *)
(* or a call without end.                                                  *)
ShownAs(line) == IF line.shown = Nothing THEN TopPid ELSE line.shown

Intact(p, f) ==
  \A i \in 1..Len(log) :
    log[i].func = f /\ p \in {log[i].pid, ShownAs(log[i])} =>
      /\ log[i].closed
      /\ ShownAs(log[i]) = log[i].pid
      /\ log[i].kind # "plain" => ~Behind(i)

IsMerged(c) == cores[c].status = "merged"

(* Two halves are put together only if they are the halves of one call.    *)
MergedIsOneCall ==
  allParsed =>
    \A p \in Pids, f \in Functions : Intact(p, f) =>
      \A c \in 1..Len(cores) :
        cores[c].pid = p /\ cores[c].funcNam = <<f, "@SYS">> /\ IsMerged(c)
          => log[cores[c].numLine].begin = cores[cores[c].half].numLine

Missed(c) ==
  cores[c].status = "resumed" /\ G_batchModels[cores[c].funcNam] \notin {"unknown", "ignored"}

(* A resumed call whose function has a class is merged with its first half.*)
ResumedFindsItsHalf ==
  allParsed =>
    \A p \in Pids, f \in Functions : Intact(p, f) =>
      \A c \in 1..Len(cores) :
        cores[c].pid = p /\ cores[c].funcNam = <<f, "@SYS">> => ~Missed(c)

(* "We should have the unfinished part somewhere", whatever was read before. *)
NoHalfIsMissed == \A c \in 1..Len(cores) : ~Missed(c)

=============================================================================
