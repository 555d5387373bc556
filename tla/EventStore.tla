----------------------------- MODULE EventStore -----------------------------
(***************************************************************************)
(* The files of events of survol/lib_event.py.  event_put.py appends each  *)
(* triple it received to the file of its subject and, if its object is an  *)
(* object too, to the file of that object; event_get_all.py reads all the  *)
(* files, empties them, and shows what it read.  They are scripts of a Web *)
(* server, which may run several at once, and nothing locks the files.     *)
(*                                                                         *)
(* A line is written by one system call when the file is closed.  When     *)
(* this fails a part of the line may be written, without its end of line:  *)
(* it spoils the next line too, which the reader cannot decode.            *)
(*                                                                         *)
(* A line may also be complete and yet mean nothing to the reader: the     *)
(* subject's line is written before the object is looked at, and an object *)
(* without the properties of its class, as the empty dictionary that       *)
(* dockit.py:920 sends, names no file and has no URL either.               *)
(***************************************************************************)
EXTENDS Naturals, Sequences, SequencesExt

CONSTANTS
  Events,      \* the triples that are received
  Files,       \* the files of events
  FilesOf,     \* the files of a triple: of its subject, then of its object
  Unconvertible, \* the triples that TripleJsonToRdf cannot convert
  Readers,     \* the executions of event_get_all.py
  Broken,      \* a part of a line
  NoFile,      \* what names no file
  MaxTry,      \* the number of tries of readers and writers (3)
  MaxFailures  \* bound on the failures of a try

ASSUME EventStoreAssumption ==
  /\ FilesOf \in [Events -> Seq(Files \cup {NoFile}) \ {<<>>}]
  /\ Unconvertible \subseteq Events
  /\ \A e \in Events : NoFile \in ToSet(FilesOf[e]) => e \in Unconvertible
  /\ Broken \notin Events /\ NoFile \notin Files
  /\ MaxTry \in Nat \ {0} /\ MaxFailures \in Nat

VARIABLES
  content,  \* the lines of each file
  created,  \* the files that exist
  arrived,  \* the triples of the request, from the one being stored
  targets,  \* the files where that one must still be appended
  triesLeft, \* maxTry of AddEventToObject
  failures, \* the number of failed tries so far
  stored,   \* for each file, the triples that were appended to it
  givenUp,  \* for each file, those for which all tries failed
  missed,   \* those that were appended while a reader was about to empty it
  reader    \* the state of each reader

writerVars == <<arrived, targets, triesLeft, stored, givenUp, missed>>
storeVars == <<content, created, writerVars, failures, reader>>

(* A reader: what it does, the files it has not opened yet, the file it    *)
(* reads, the tries it has left, and the triples of its graph, each with   *)
(* the file where it was read.                                             *)
ReaderStates ==
  [pc : {"idle", "walking", "reading", "emptying", "answered", "killed"},
   todo : SUBSET Files, at : Files \cup {NoFile}, maxTry : 0..MaxTry,
   graph : SUBSET (Files \X Events)]

StoreTypeOK ==
  /\ content \in [Files -> Seq(Events \cup {Broken})]
  /\ created \subseteq Files
  /\ arrived \in Seq(Events) /\ targets \in Seq(Files \cup {NoFile})
  /\ arrived = <<>> <=> targets = <<>>
  /\ triesLeft \in 0..MaxTry /\ failures \in 0..MaxFailures
  /\ stored \in [Files -> SUBSET Events]
  /\ givenUp \in [Files -> SUBSET Events]
  /\ missed \in [Files -> SUBSET Events]
  /\ reader \in [Readers -> ReaderStates]

(* A reader between two files.                                             *)
Between(todo, graph) ==
  [pc |-> "walking", todo |-> todo, at |-> NoFile, maxTry |-> 0, graph |-> graph]

Ended(pc, graph) ==
  [pc |-> pc, todo |-> {}, at |-> NoFile, maxTry |-> 0, graph |-> graph]

StoreInit ==
  /\ content = [f \in Files |-> <<>>]
  /\ created = {}
  /\ arrived = <<>> /\ targets = <<>> /\ triesLeft = 0
  /\ failures = 0
  /\ stored = [f \in Files |-> {}]
  /\ givenUp = [f \in Files |-> {}]
  /\ missed = [f \in Files |-> {}]
  /\ reader = [r \in Readers |-> Ended("idle", {})]

-----------------------------------------------------------------------------
(* event_put.py: data_store_list, and for each triple data_store.          *)
Receive(events) ==
  /\ arrived = <<>>
  /\ arrived' = events
  /\ targets' = FilesOf[Head(events)]
  /\ triesLeft' = MaxTry
  /\ UNCHANGED <<content, created, stored, givenUp, missed, failures, reader>>

NextTargetSameTriple ==
  /\ arrived' = IF Len(targets) = 1 THEN Tail(arrived) ELSE arrived
  /\ targets' = Tail(targets)
  /\ triesLeft' = MaxTry

NextTriple ==
  LET rest == Tail(arrived) IN
  /\ arrived' = rest
  /\ targets' = IF rest = <<>> THEN <<>> ELSE FilesOf[Head(rest)]
  /\ triesLeft' = MaxTry

(* The next file of the triple, or the first one of the next triple.       *)
NextTarget ==
  IF Len(targets) = 1 THEN NextTriple
  ELSE /\ targets' = Tail(targets)
       /\ triesLeft' = MaxTry
       /\ UNCHANGED arrived

(* The readers that are about to empty a file, whatever is in it now.      *)
Emptying(f) == {r \in Readers : reader[r].pc = "emptying" /\ reader[r].at = f}

(* A try of AddEventToObject that succeeds.                                *)
AddEventToObject ==
  /\ targets # <<>> /\ Head(targets) # NoFile
  /\ LET f == Head(targets)
         e == Head(arrived) IN
     /\ content' = [content EXCEPT ![f] = Append(@, e)]
     /\ created' = created \cup {f}
     /\ stored' = [stored EXCEPT ![f] = @ \cup {e}]
     /\ missed' = [missed EXCEPT ![f] = IF Emptying(f) = {} THEN @ ELSE @ \cup {e}]
  /\ NextTarget
  /\ UNCHANGED <<givenUp, failures, reader>>

(* One that fails: the file cannot be opened or created, or the line is    *)
(* not written, or a part of it.  After the last one the triple is given   *)
(* up for this file, which only a message tells.                           *)
AddEventFails ==
  /\ targets # <<>> /\ Head(targets) # NoFile /\ failures < MaxFailures
  /\ LET f == Head(targets) IN
     /\ \/ UNCHANGED <<content, created>>
        \/ UNCHANGED content /\ created' = created \cup {f}
        \/ /\ content' = [content EXCEPT ![f] = Append(@, Broken)]
           /\ created' = created \cup {f}
     /\ IF triesLeft > 1
        THEN triesLeft' = triesLeft - 1 /\ UNCHANGED <<arrived, targets, givenUp>>
        ELSE NextTarget /\ givenUp' = [givenUp EXCEPT ![f] = @ \cup {Head(arrived)}]
  /\ failures' = failures + 1
  /\ UNCHANGED <<stored, missed, reader>>

(* data_store raises, and data_store_list goes on with the next triple.    *)
DataStoreRaises ==
  /\ givenUp' = [f \in Files |->
       IF f \in ToSet(targets) THEN givenUp[f] \cup {Head(arrived)} ELSE givenUp[f]]
  /\ NextTriple
  /\ UNCHANGED <<content, created, stored, missed, reader>>

(* The directory of the file cannot be made.                               *)
DataStoreFails ==
  /\ targets # <<>> /\ triesLeft = MaxTry /\ failures < MaxFailures
  /\ DataStoreRaises
  /\ failures' = failures + 1

(* The object has no entity_type, or lacks a property of its class: no     *)
(* file can be named, and the subject's line is already written.           *)
MonikerRaises ==
  /\ targets # <<>> /\ Head(targets) = NoFile
  /\ DataStoreRaises
  /\ UNCHANGED failures

-----------------------------------------------------------------------------
(* event_get_all.py: data_retrieve_all lists the files, and                *)
(* get_data_from_file is called for each.                                  *)
Walk(r) ==
  /\ reader[r].pc = "idle"
  /\ reader' = [reader EXCEPT ![r].pc = "walking", ![r].todo = created]
  /\ UNCHANGED <<content, created, writerVars, failures>>

NextFile(r, f) ==
  /\ reader[r].pc = "walking" /\ f \in reader[r].todo
  /\ reader' = [reader EXCEPT ![r] = [pc |-> "reading", todo |-> @.todo \ {f}, at |-> f,
                                      maxTry |-> MaxTry, graph |-> @.graph]]
  /\ UNCHANGED <<content, created, writerVars, failures>>

Holds(f, e) == \E i \in 1..Len(content[f]) : content[f][i] = e

(* The line raises an exception: json.loads, or TripleJsonToRdf.           *)
Raises(line) == line = Broken \/ line \in Unconvertible

IsUnreadable(f) == \E i \in 1..Len(content[f]) : Raises(content[f][i])

(* The triples of the lines before the first one that raises.              *)
Decoded(f) ==
  {<<f, e>> : e \in {d \in Events : \E i \in 1..Len(content[f]) :
     content[f][i] = d /\ \A j \in 1..i : ~Raises(content[f][j])}}

TryAgainForever(r, graph) ==
  reader' = [reader EXCEPT ![r].graph = graph]

(* An exception: the same file again, from its beginning, 100 seconds      *)
(* later, or the next one after the last try.                              *)
TryAgain(r, graph) ==
  LET left == reader[r].maxTry - 1 IN
  reader' = [reader EXCEPT ![r] =
               IF left > 0 THEN [@ EXCEPT !.maxTry = left, !.graph = graph]
                           ELSE Between(@.todo, graph)]

ReadLinesSkipBroken(r) ==
  /\ reader[r].pc = "reading"
  /\ reader' = [reader EXCEPT ![r].pc = "emptying", ![r].maxTry = 0,
                              ![r].graph = @ \cup Decoded(reader[r].at)]
  /\ UNCHANGED <<content, created, writerVars, failures>>

(* The lines are read at once, then decoded and converted one by one.      *)
ReadLines(r) ==
  /\ reader[r].pc = "reading"
  /\ LET f == reader[r].at
         graph == reader[r].graph \cup Decoded(f) IN
     IF IsUnreadable(f)
     THEN TryAgain(r, graph)
     ELSE reader' = [reader EXCEPT ![r].pc = "emptying", ![r].maxTry = 0, ![r].graph = graph]
  /\ UNCHANGED <<content, created, writerVars, failures>>

OpenFails(r) ==
  /\ reader[r].pc = "reading" /\ failures < MaxFailures
  /\ TryAgain(r, reader[r].graph)
  /\ failures' = failures + 1
  /\ UNCHANGED <<content, created, writerVars>>

TruncateNothing(r) ==
  /\ reader[r].pc = "emptying"
  /\ reader' = [reader EXCEPT ![r] = Between(@.todo, @.graph)]
  /\ UNCHANGED <<content, created, writerVars, failures>>

Truncate(r) ==
  /\ reader[r].pc = "emptying"
  /\ content' = [content EXCEPT ![reader[r].at] = <<>>]
  /\ reader' = [reader EXCEPT ![r] = Between(@.todo, @.graph)]
  /\ UNCHANGED <<created, writerVars, failures>>

(* The answer is written when all the files have been read.                *)
Answer(r) ==
  /\ reader[r].pc = "walking" /\ reader[r].todo = {}
  /\ reader' = [reader EXCEPT ![r] = Ended("answered", @.graph)]
  /\ UNCHANGED <<content, created, writerVars, failures>>

(* The Web server ends a script that takes too long.                       *)
Kill(r) ==
  /\ reader[r].pc \in {"walking", "reading", "emptying"}
  /\ reader' = [reader EXCEPT ![r] = Ended("killed", @.graph)]
  /\ UNCHANGED <<content, created, writerVars, failures>>

Write == AddEventToObject \/ AddEventFails \/ DataStoreFails \/ MonikerRaises

GoOn(r) ==
  ReadLines(r) \/ Truncate(r) \/ Answer(r) \/ \E f \in Files : NextFile(r, f)

Read(r) == Walk(r) \/ GoOn(r) \/ OpenFails(r) \/ Kill(r)

-----------------------------------------------------------------------------
(* A triple that was appended to a file is still there, or a reader has it *)
(* in its graph, unless it came between the lines that a reader read       *)
(* (lib_event.py:226) and the emptying of the file (lib_event.py:235).  If *)
(* that reader is killed before its answer the triple is lost too: the     *)
(* files are emptied one by one and shown together.                        *)
KeptUnlessMissed ==
  \A f \in Files : \A e \in stored[f] \ missed[f] :
    \/ Holds(f, e)
    \/ \E r \in Readers : <<f, e>> \in reader[r].graph

(* The file gets one line of the triple: its subject and its object are    *)
(* not the same.                                                           *)
WrittenOnce(e, f) ==
  \A j, k \in 1..Len(FilesOf[e]) : FilesOf[e][j] = f /\ FilesOf[e][k] = f => j = k

(* A triple that was shown is no longer in the file where it was read, and *)
(* is not shown again from it, unless a line of the file cannot be decoded *)
(* or converted (lib_event.py:227-229): the file then stays as it is for   *)
(* ever, and every reader tries it three times and shows its beginning.    *)
ShownAgainOnlyIfUnreadable ==
  \A r \in Readers : \A f \in Files : \A e \in Events :
    /\ reader[r].pc = "answered" /\ <<f, e>> \in reader[r].graph
    /\ WrittenOnce(e, f) /\ Holds(f, e)
    => IsUnreadable(f)

(* A reader ends, whatever the files hold and however often they cannot be *)
(* opened: it gives each of them a limited number of tries.                *)
ReadersEnd ==
  \A r \in Readers :
    reader[r].pc = "walking" ~> reader[r].pc \in {"answered", "killed"}
=============================================================================
