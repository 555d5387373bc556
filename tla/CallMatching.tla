---------------------------- MODULE CallMatching ----------------------------
(***************************************************************************)
(* The reading loop of survol/scripts/dockit.py: the lines of the log are  *)
(* glued together until one that looks like the end of a call; what they   *)
(* make together is parsed into a BatchLetCore, the two halves of an       *)
(* interrupted call are put together by UnfinishedBatches, and             *)
(* BatchLetFactory yields a batch to the flow of the process.              *)
(*                                                                         *)
(* A BatchLetCore is known by its position in "cores", the order in which  *)
(* the objects are created.  What a handler (a class BatchLetSys_xxx) does *)
(* with its arguments is left out but for its verdict: it keeps the call   *)
(* or it drops it, by not setting m_core.                                  *)
(***************************************************************************)
EXTENDS LogLine

CONSTANTS
  G_topProcessId, \* pid of the lines that show none
  Junk,           \* the function name read in a text that is not a call
  G_batchModels   \* each function name: what its class can process

(* Function names as SetFunction stores them: with or without "@SYS". *)
Names == (Functions \X {"@SYS", ""}) \cup {Junk}

(* "unknown": not registered, goes to BatchLetBase.  "ignored": registered *)
(* as None.  The others have a class, which needs the whole call, or is    *)
(* content with the unfinished half, or with the resumed half.             *)
Models == {"unknown", "ignored", "whole", "unfinishedOk", "resumedOk"}

ASSUME CallMatchingAssumption ==
  /\ G_topProcessId \in Pids
  /\ G_batchModels \in [Names -> Models]
  /\ G_batchModels[Junk] = "unknown"
  /\ Junk \notin Functions \X {"@SYS", ""}

VARIABLES
  numLine,      \* lines read
  oneLine,      \* the lines glued so far: the first one, which is all that counts
  cores,        \* every BatchLetCore made, in order
  batchCore,    \* the local variable of the loop: a position in cores, 0 for None
  m_mapStacks,  \* UnfinishedBatches: pid -> function -> stack of cores
  yielded,      \* the cores of the batches yielded, in order
  raised,       \* an exception has ended the analysis
  ended,        \* the end of the log was read
  allParsed     \* not in the code: CreateBatchCore has not raised so far

coreVars   == <<cores, batchCore, m_mapStacks, yielded, raised, allParsed>>
readerVars == <<numLine, oneLine, ended, coreVars>>

BatchStatus == {"plain", "unfinished", "resumed", "matched", "merged"}

(* half: m_resumedBatch of a matched core, m_unfinishedBatch of a merged   *)
(* one.  numLine is not in the code: it remembers the (last) line of the   *)
(* call.                                                                   *)
Cores == [pid : Pids, funcNam : Names, status : BatchStatus, half : Nat, numLine : Nat]

TypeOK ==
  /\ numLine \in Nat
  /\ oneLine \in Seq(Lines) /\ Len(oneLine) <= 1
  /\ cores \in Seq(Cores)
  /\ batchCore \in {0, Len(cores)}
  /\ m_mapStacks \in [Pids -> [Names -> Seq(Nat)]]
  /\ yielded \in Seq(Nat)
  /\ raised \in BOOLEAN
  /\ ended \in BOOLEAN
  /\ allParsed \in BOOLEAN

ReaderInit ==
  /\ numLine = 0
  /\ oneLine = <<>>
  /\ cores = <<>>
  /\ batchCore = 0
  /\ m_mapStacks = [p \in Pids |-> [n \in Names |-> <<>>]]
  /\ yielded = <<>>
  /\ raised = FALSE
  /\ ended = FALSE
  /\ allParsed = TRUE

(* Variant: the "[pid N]" in front of a line is not looked at.             *)
LinePidUnread(line) == G_topProcessId

-----------------------------------------------------------------------------
(* ParseLine: a line without "[pid" is about the top process.              *)
LinePid(line) == IF line.shown = Nothing THEN G_topProcessId ELSE line.shown

(* SetFunction: strace only logs system calls.  ltrace appends "@SYS" to   *)
(* them except on a resumed line, where dockit appends it in all cases.    *)
SetFunction(line) ==
  IF line.kind = "text" THEN Junk
  ELSE IF TracerName = "strace" \/ line.kind = "resumed" \/ line.func \in SysFunctions
       THEN <<line.func, "@SYS">> ELSE <<line.func, "">>

(* InitAfterPid, given lines glued together: "<... f resumed>" is looked   *)
(* for where the first one begins, "<unfinished ...>" where the last ends. *)
ParseLine(first, last) ==
  [ pid     |-> LinePid(first),
    funcNam |-> SetFunction(first),
    status  |-> IF first.kind = "resumed" THEN "resumed"
                ELSE IF last.kind = "unfinished" THEN "unfinished" ELSE "plain",
    half    |-> 0,
    numLine |-> numLine + 1 ]

-----------------------------------------------------------------------------
(* The outcomes of BatchLetFactory(cs[c]), where cs are the cores after    *)
(* the line is parsed.                                                     *)
Model(cs, c) == G_batchModels[cs[c].funcNam]

(* Variant: one stack per function, shared by all processes.               *)
StackShared(cs, c) == m_mapStacks[G_topProcessId][cs[c].funcNam]

Stack(cs, c) == m_mapStacks[cs[c].pid][cs[c].funcNam]

Keep(c, kept) == yielded' = IF kept THEN Append(yielded, c) ELSE yielded

UnknownFunction(cs, c) ==
  /\ Model(cs, c) = "unknown"
  /\ cores' = cs
  /\ Keep(c, TRUE)
  /\ UNCHANGED <<m_mapStacks, raised>>

IgnoredFunction(cs, c) ==
  /\ Model(cs, c) = "ignored"
  /\ cores' = cs
  /\ UNCHANGED <<m_mapStacks, yielded, raised>>

HasClass(cs, c) == Model(cs, c) \notin {"unknown", "ignored"}

(* Incomplete_UnfinishedIsOk: the derived class takes the first half.      *)
UnfinishedIsOk(cs, c, kept) ==
  /\ Model(cs, c) = "unfinishedOk"
  /\ cs[c].status = "unfinished"
  /\ cores' = cs
  /\ Keep(c, kept)
  /\ UNCHANGED <<m_mapStacks, raised>>

(* Variant: the call is kept under the main process.                       *)
PushBatchTop(cs, c) ==
  /\ G_batchModels[cs[c].funcNam] \in {"whole", "resumedOk"}
  /\ cs[c].status = "unfinished"
  /\ cores' = cs
  /\ m_mapStacks' = [m_mapStacks EXCEPT ![G_topProcessId][cs[c].funcNam] = Append(@, c)]
  /\ yielded' = Append(yielded, c)
  /\ UNCHANGED raised

PushBatch(cs, c) ==
  /\ HasClass(cs, c) /\ Model(cs, c) # "unfinishedOk"
  /\ cs[c].status = "unfinished"
  /\ cores' = cs
  /\ m_mapStacks' = [m_mapStacks EXCEPT ![cs[c].pid][cs[c].funcNam] = Append(@, c)]
  /\ Keep(c, TRUE)
  /\ UNCHANGED raised

(* Variants: the call stays on the stack; the oldest call is removed.      *)
PopNothing(cs, c) == UNCHANGED m_mapStacks

PopOldest(cs, c) ==
  m_mapStacks' = [m_mapStacks EXCEPT ![cs[c].pid][cs[c].funcNam] = Tail(@)]

Pop(cs, c) ==
  m_mapStacks' = [m_mapStacks EXCEPT ![cs[c].pid][cs[c].funcNam] = SubSeq(@, 1, Len(@) - 1)]

(* The core that MergePopBatch takes from the stack.                       *)
Unfinished(cs, c) == Stack(cs, c)[Len(Stack(cs, c))]

(* Variant: without the sanity check on the status of the first half.      *)
MergePopUnchecked(cs, c, kept) ==
  /\ HasClass(cs, c)
  /\ cs[c].status = "resumed"
  /\ Stack(cs, c) # <<>>
  /\ cores' = [cs EXCEPT ![Unfinished(cs, c)].status = "matched", ![Unfinished(cs, c)].half = c,
                         ![c].status = "merged", ![c].half = Unfinished(cs, c)]
  /\ Pop(cs, c)
  /\ Keep(c, kept)
  /\ UNCHANGED raised

MergePopBatch(cs, c, kept) ==
  /\ HasClass(cs, c)
  /\ cs[c].status = "resumed"
  /\ Stack(cs, c) # <<>>
  /\ LET u == Unfinished(cs, c)
     IN  /\ cs[u].status = "unfinished"
         /\ cores' = [cs EXCEPT ![u].status = "matched", ![u].half = c,
                                ![c].status = "merged",  ![c].half = u]
  /\ Pop(cs, c)
  /\ Keep(c, kept)
  /\ UNCHANGED raised

(* "Unfinished status is not plain": the exception leaves the loop.        *)
MergeRaises(cs, c) ==
  /\ HasClass(cs, c)
  /\ cs[c].status = "resumed"
  /\ Stack(cs, c) # <<>>
  /\ cs[Unfinished(cs, c)].status # "unfinished"
  /\ cores' = cs
  /\ Pop(cs, c)
  /\ raised' = TRUE
  /\ UNCHANGED yielded

(* The first half is not found.  Incomplete_ResumedWithoutUnfinishedIsOk   *)
(* runs the handler, but the batch it makes is replaced by a BatchLetBase. *)
ResumedAlone(cs, c) ==
  /\ HasClass(cs, c)
  /\ cs[c].status = "resumed"
  /\ Stack(cs, c) = <<>>
  /\ cores' = cs
  /\ Keep(c, TRUE)
  /\ UNCHANGED <<m_mapStacks, raised>>

WholeCall(cs, c, kept) ==
  /\ HasClass(cs, c)
  /\ cs[c].status \notin {"unfinished", "resumed"}
  /\ cores' = cs
  /\ Keep(c, kept)
  /\ UNCHANGED <<m_mapStacks, raised>>

BatchLetFactory(cs, c, kept) ==
  \/ UnknownFunction(cs, c)
  \/ IgnoredFunction(cs, c)
  \/ UnfinishedIsOk(cs, c, kept)
  \/ PushBatch(cs, c)
  \/ MergePopBatch(cs, c, kept)
  \/ MergeRaises(cs, c)
  \/ ResumedAlone(cs, c)
  \/ WholeCall(cs, c, kept)

-----------------------------------------------------------------------------
(* One turn of the loop of CreateFlowsFromGenericLinuxLog: the lines from  *)
(* first to last are glued together.                                       *)

(* "<0.000053>", "<unfinished ...>", " ---"...                             *)
IsLogEnding(line) ==
  \/ line.kind \in {"unfinished", "signal"}
  \/ line.kind \in {"plain", "resumed", "text"} /\ line.closed

ReadCall(first, last, kept) ==
  /\ first.kind \notin {"signal", "exit"}
  /\ batchCore' = Len(cores) + 1
  /\ BatchLetFactory(Append(cores, ParseLine(first, last)), batchCore', kept)
  /\ UNCHANGED allParsed

(* Variant: a signal line leaves the previous core in batchCore.           *)
ReadEventStale(first) ==
  /\ first.kind \in {"signal", "exit"}
  /\ UNCHANGED <<batchCore, allParsed>>
  /\ IF batchCore = 0 THEN UNCHANGED <<cores, m_mapStacks, yielded, raised>>
                      ELSE BatchLetFactory(cores, batchCore, TRUE)

(* CreateBatchCore returns None: what is glued to the exit is lost.        *)
ReadEvent(first) ==
  /\ first.kind \in {"signal", "exit"}
  /\ batchCore' = 0
  /\ UNCHANGED <<cores, m_mapStacks, yielded, raised, allParsed>>

(* A text may look like a call or not; two lines may not make one call.    *)
MayRaise(first) ==
  \/ first.kind = "text"
  \/ first.kind \in CallKinds /\ ~IsLogEnding(first)

(* Variant: the core whose line cannot be parsed is left in batchCore.     *)
ReadUnparsableKept(first, kept) ==
  /\ MayRaise(first)
  /\ batchCore' = Len(cores) + 1
  /\ allParsed' = FALSE
  /\ UNCHANGED <<cores, m_mapStacks, yielded, raised>>

(* CreateBatchCore raises.  The exception is caught, but batchCore still   *)
(* is the core of an earlier line: "if batchCore:" processes it again.     *)
ReadUnparsable(first, kept) ==
  /\ MayRaise(first)
  /\ UNCHANGED batchCore
  /\ allParsed' = FALSE
  /\ IF batchCore = 0 THEN UNCHANGED <<cores, m_mapStacks, yielded, raised>>
                      ELSE BatchLetFactory(cores, batchCore, kept)

CreateBatchCore(first, last, kept) ==
  \/ ReadCall(first, last, kept)
  \/ ReadEvent(first)
  \/ ReadUnparsable(first, kept)

(* What can be read in a line: neither who wrote it nor where it began.    *)
Seen(line) == [line EXCEPT !.pid = G_topProcessId, !.begin = 0]

First(line) == IF oneLine = <<>> THEN Seen(line) ELSE Head(oneLine)

ReadLine(line, kept) ==
  /\ ~raised /\ ~ended
  /\ numLine' = numLine + 1
  /\ UNCHANGED ended
  /\ \/ /\ IsLogEnding(line)
        /\ oneLine' = <<>>
        /\ CreateBatchCore(First(line), Seen(line), kept)
     \/ /\ ~IsLogEnding(line)
        /\ oneLine' = <<First(line)>>
        /\ UNCHANGED coreVars

(* The last lines are parsed as they are.                                  *)
EndOfLog(kept) ==
  /\ ~raised /\ ~ended
  /\ numLine' = numLine + 1
  /\ ended' = TRUE
  /\ oneLine' = <<>>
  /\ \/ oneLine = <<>> /\ UNCHANGED coreVars
     \/ oneLine # <<>> /\ CreateBatchCore(Head(oneLine), Head(oneLine), kept)

(* Any text can be given to dockit as a log: the lines of the loop's own   *)
(* specification follow no rule.  Module DockitTrace adds the tracer's.    *)
AnyLine ==
  { line \in [kind : CallKinds \cup {"signal", "exit", "text"}, pid : {G_topProcessId},
              shown : Pids \cup {Nothing}, func : Functions \cup {Nothing},
              begin : {0}, closed : BOOLEAN] : WellFormed(line) }

ReaderNext ==
  \E kept \in BOOLEAN :
    \/ numLine < MaxLines /\ \E line \in AnyLine : ReadLine(line, kept)
    \/ EndOfLog(kept)

ReaderSpec == ReaderInit /\ [][ReaderNext]_readerVars

-----------------------------------------------------------------------------
(* Properties of the matching, whatever the log contains.                  *)

(* The two halves that MergePopBatch puts together point to each other,    *)
(* are of the same process and function, and no half serves two calls.     *)
HalvesAgree(cs) ==
  \A c \in 1..Len(cs) :
    LET core == cs[c]
        half == cs[core.half]
    IN  /\ core.status \in {"matched", "merged"} =>
             /\ core.half \in 1..Len(cs)
             /\ half.half = c
             /\ half.pid = core.pid /\ half.funcNam = core.funcNam
        /\ core.status = "merged"  => core.half < c /\ half.status = "matched"
        /\ core.status = "matched" => c < core.half /\ half.status = "merged"

MatchedHalvesAgree == HalvesAgree(cores)

(* MergePopBatch is the only one that changes a core: once matched or      *)
(* merged, the core keeps its status and its other half, and the only ways *)
(* to get there are unfinished -> matched and resumed -> merged.           *)
LinksAreFinal ==
  [][ \A c \in 1..Len(cores) :
        \/ cores'[c] = cores[c]
        \/ cores[c].status = "unfinished" /\ cores'[c].status = "matched"
        \/ cores[c].status = "resumed"    /\ cores'[c].status = "merged" ]_readerVars

-----------------------------------------------------------------------------
(* Properties that hold until a line cannot be parsed.                     *)

(* A core that PushBatch has to keep until its second half is read.        *)
Awaited(core) ==
  /\ core.status = "unfinished"
  /\ G_batchModels[core.funcNam] \in {"whole", "resumedOk"}

(* The stacks hold the awaited calls: all of them, nothing else, each one  *)
(* once, under its process and function, in the order of the log.  So the  *)
(* call that is resumed is always the latest one that was interrupted.     *)
StacksHoldAwaited ==
  allParsed =>
    \A p \in Pids, n \in Names :
      LET stack == m_mapStacks[p][n]
      IN  /\ \A i, j \in 1..Len(stack) : i < j => stack[i] < stack[j]
          /\ \A c \in 1..Len(cores) :
               (\E i \in 1..Len(stack) : stack[i] = c)
                 <=> Awaited(cores[c]) /\ cores[c].pid = p /\ cores[c].funcNam = n

(* The sanity check of MergePopBatch never ends the analysis.              *)
NeverRaises == allParsed => ~raised

(* A line of the log yields one batch at most, in the order of the log.    *)
CallsYieldedOnce ==
  \A i, j \in 1..Len(yielded) : i < j => yielded[i] < yielded[j]

(* No call is processed twice, as long as every line can be parsed: an     *)
(* event, or a call that the handler drops, leaves no core behind.         *)
ParsableYieldedOnce == allParsed => CallsYieldedOnce

=============================================================================
