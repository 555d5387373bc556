---------------------------- MODULE FileSessions ----------------------------
(***************************************************************************)
(* What the comments of dockit.py promise about a FileAccess (lines 383    *)
(* and 387-389): it is "what happens to a file between its opening and     *)
(* closing by a process", and a process that accesses the same file        *)
(* several times produces several of them.                                 *)
(***************************************************************************)
EXTENDS Naturals

CONSTANTS
  Pids,   \* processes
  Files,  \* path names
  Ids     \* the numbers that sessions may have

VARIABLE sessions  \* number -> what is recorded, for each time a process has opened a file

Sessions == [proc : Pids, file : Files, state : {"open", "closed"}, reads : Nat, writes : Nat]

TypeOK ==
  /\ DOMAIN sessions \subseteq Ids
  /\ \A s \in DOMAIN sessions : sessions[s] \in Sessions

IsOpen(s, p, f) == sessions[s].proc = p /\ sessions[s].file = f /\ sessions[s].state = "open"

Init == sessions = [s \in {} |-> {}]

(* A process has one session of a file at a time.                          *)
Open(s, p, f) ==
  /\ \A t \in DOMAIN sessions : t < s /\ ~IsOpen(t, p, f)
  /\ sessions' = [t \in DOMAIN sessions \cup {s} |->
                    IF t # s THEN sessions[t]
                    ELSE [proc |-> p, file |-> f, state |-> "open", reads |-> 0, writes |-> 0]]

Read(s) ==
  /\ sessions[s].state = "open"
  /\ sessions' = [sessions EXCEPT ![s].reads = @ + 1]

Write(s) ==
  /\ sessions[s].state = "open"
  /\ sessions' = [sessions EXCEPT ![s].writes = @ + 1]

Close(s) ==
  /\ sessions[s].state = "open"
  /\ sessions' = [sessions EXCEPT ![s].state = "closed"]

Next ==
  \/ \E s \in Ids, p \in Pids, f \in Files : Open(s, p, f)
  \/ \E s \in DOMAIN sessions : Read(s) \/ Write(s) \/ Close(s)

Spec == Init /\ [][Next]_sessions

=============================================================================
