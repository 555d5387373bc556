----------------------------- MODULE BatchFlow ------------------------------
(***************************************************************************)
(* The flow of one process in survol/scripts/dockit.py: the sequence of    *)
(* its calls, in which equal successive calls are counted instead of       *)
(* stored, and which is then rewritten by three passes: the first half of  *)
(* a call is removed if the second half is next to it, pairs of calls that *)
(* occur often are replaced by one batch, then runs of calls that have the *)
(* same arguments.                                                         *)
(*                                                                         *)
(* Each pass is a loop that edits the list it walks; here one step is one  *)
(* iteration.  Index 1 is the first batch (0 in the code).                 *)
(***************************************************************************)
EXTENDS Naturals, FiniteSets, Sequences, SequencesExt

CONSTANTS
  Functions,  \* names of functions
  Calls,      \* the calls that a process makes: a function and its arguments
  Unaggregated, \* those whose calls are never the same: clone, vfork, execve
  Unyielded,  \* those whose class makes no batch: getenv
  Args,       \* significant arguments
  ArgLists,   \* the lists of them that a call may have
  Frequent,   \* a pair of calls is replaced if it occurs more often (5)
  MaxBatches, \* bound on the number of batches sent to the flow
  None

ASSUME BatchFlowAssumption ==
  /\ Unyielded \subseteq Functions /\ Unaggregated \subseteq Functions
  /\ None \notin Functions \cup Nat
  /\ ArgLists \subseteq Seq(Args) /\ Calls \subseteq Functions \X ArgLists
  /\ Frequent \in Nat \ {0} /\ MaxBatches \in Nat

VARIABLES
  m_listBatchLets, \* the flow
  sent,            \* the number of batches sent to the flow
  pending,         \* the call whose second half is awaited
  stage,           \* "reading", "filter", "bigrams", "args", "done" or "raised"
  idxBatch,        \* the index of the loop
  idxLast,         \* "args": the first batch of the run
  mapOccurences,   \* "bigrams": the pairs found often when the pass began
  batchSeqPrev,    \* "bigrams": whether the batch before idxBatch was just made
  numSubst         \* "bigrams": the number of substitutions of the pass

flow == m_listBatchLets
loopVars == <<idxBatch, idxLast, mapOccurences, batchSeqPrev, numSubst>>
vars == <<m_listBatchLets, sent, pending, stage, loopVars>>

(* A batch stands for the batches sent from number from to number to, core *)
(* is the number of the call it was made for and mate that of the call's   *)
(* other half.                                                             *)
NewBatchUncounted(name, args, status) ==
  [name |-> name, args |-> args, status |-> status, m_occurrences |-> 0,
   core |-> sent + 1, mate |-> None, from |-> sent + 1, to |-> sent + 1]

NewBatch(name, args, status) ==
  [name |-> name, args |-> args, status |-> status, m_occurrences |-> 1,
   core |-> sent + 1, mate |-> None, from |-> sent + 1, to |-> sent + 1]

Statuses == {"plain", "unfinished", "matched", "merged", "sequence"}

(* Names and arguments are those of the constants, or lists of them.       *)
TypeOK ==
  /\ flow \in Seq([name : {b.name : b \in ToSet(flow)}, args : {b.args : b \in ToSet(flow)},
                   status : Statuses, m_occurrences : Nat \ {0}, core : 1..sent,
                   mate : 1..(sent + 1) \cup {None}, from : 1..sent, to : 1..sent])
  /\ sent \in Nat
  /\ pending \in [name : Functions, core : 1..sent, at : 0..sent] \cup {None}
  /\ stage \in {"reading", "filter", "bigrams", "args", "done", "raised"}
  /\ idxBatch \in 1..(Len(flow) + 2) /\ idxLast \in Nat \ {0}
  /\ batchSeqPrev \in BOOLEAN /\ numSubst \in Nat

Init ==
  /\ m_listBatchLets = <<>>
  /\ sent = 0
  /\ pending = None
  /\ stage = "reading"
  /\ idxBatch = 1 /\ idxLast = 1
  /\ mapOccurences = {} /\ batchSeqPrev = FALSE /\ numSubst = 0

-----------------------------------------------------------------------------
(* Building the flow.                                                      *)

(* Variant: the names are not compared.                                    *)
SameArguments(b, c) == b.args = c.args

SameCall(b, c) == b.name \notin Unaggregated /\ b.name = c.name /\ b.args = c.args

(* Variant: an equal call is dropped.                                      *)
SentOnce(list, b) ==
  IF list # <<>> /\ SameCall(Last(list), b)
  THEN ReplaceAt(list, Len(list), [Last(list) EXCEPT !.to = b.to])
  ELSE Append(list, b)

(* AddingCoroutine: the call is counted in the last batch if it is equal.  *)
Sent(list, b) ==
  IF list # <<>> /\ SameCall(Last(list), b)
  THEN ReplaceAt(list, Len(list), [Last(list) EXCEPT !.m_occurrences = @ + 1, !.to = b.to])
  ELSE Append(list, b)

Reading ==
  /\ stage = "reading" /\ sent < MaxBatches
  /\ UNCHANGED <<stage, loopVars>>

Call(f, args) ==
  /\ Reading
  /\ pending = None /\ f \notin Unyielded
  /\ m_listBatchLets' = Sent(flow, NewBatch(f, args, "plain"))
  /\ sent' = sent + 1
  /\ UNCHANGED pending

(* A call that is not finished: its batch is in the flow, at the index at, *)
(* or it is only counted, and at is 0.                                     *)
FirstHalf(f, args) ==
  /\ Reading
  /\ pending = None
  /\ m_listBatchLets' = Sent(flow, NewBatch(f, args, "unfinished"))
  /\ sent' = sent + 1
  /\ pending' = [name |-> f, core |-> sent + 1,
                 at |-> IF Len(m_listBatchLets') = Len(flow) THEN 0 ELSE Len(m_listBatchLets')]

(* MergePopBatch makes the two halves point to each other, then the second *)
(* half is sent, unless its class makes no batch.  Its arguments are those *)
(* of the whole call, which may be those of the first half.                *)
SecondHalf(args) ==
  /\ Reading
  /\ pending # None
  /\ LET f       == pending.name
         mate    == IF f \in Unyielded THEN None ELSE sent + 1
         matched == IF pending.at = 0 THEN flow
                    ELSE ReplaceAt(flow, pending.at,
                                   [flow[pending.at] EXCEPT !.status = "matched", !.mate = mate])
     IN  IF f \in Unyielded
         THEN m_listBatchLets' = matched /\ UNCHANGED sent
         ELSE /\ m_listBatchLets' =
                   Sent(matched, [NewBatch(f, args, "merged") EXCEPT !.mate = pending.core])
              /\ sent' = sent + 1
  /\ pending' = None

(* Variant: the walk begins one batch too far.                             *)
EndOfLogLate ==
  /\ stage = "reading" /\ flow # <<>>
  /\ stage' = "filter" /\ idxBatch' = 3
  /\ UNCHANGED <<m_listBatchLets, sent, pending, idxLast, mapOccurences, batchSeqPrev, numSubst>>

(* The calls that are pending stay so.                                     *)
EndOfLog ==
  /\ stage = "reading" /\ flow # <<>>
  /\ stage' = "filter" /\ idxBatch' = 2
  /\ UNCHANGED <<m_listBatchLets, sent, pending, idxLast, mapOccurences, batchSeqPrev, numSubst>>

-----------------------------------------------------------------------------
(* Rewriting the flow.                                                     *)

(* The batches from i to j are replaced by the batch b.                    *)
Spliced(list, i, j, b) == SubSeq(list, 1, i - 1) \o <<b>> \o SubSeq(list, j + 1, Len(list))

(* Variant: any second half will do.                                       *)
HalvesOfTwoCalls(b, c) == b.status = "matched" /\ c.status = "merged"

(* The halves of one call.                                                 *)
OwnHalves(b, c) ==
  /\ b.status = "matched" /\ c.status = "merged"
  /\ b.mate = c.core /\ c.mate = b.core

(* INCONSISTENCY1 and 3.  INCONSISTENCY2 would need a second half that     *)
(* points to nothing while its first half is there.                        *)
Inconsistent(b, c) ==
  /\ b.status = "matched" /\ c.status = "merged"
  /\ b.name # c.name \/ c.mate = None

SignatureForRepetitions(list, i) ==
  <<list[i].name, list[i].args, list[i + 1].name, list[i + 1].args>>

StatisticsBigrams(list) ==
  {SignatureForRepetitions(list, i) : i \in
     {k \in 1..(Len(list) - 1) :
        Cardinality({m \in 1..(Len(list) - 1) :
          SignatureForRepetitions(list, m) = SignatureForRepetitions(list, k)}) > Frequent}}

(* A pass of ClusterizeBigrams begins.                                     *)
BeginBigrams ==
  /\ stage' = "bigrams" /\ idxBatch' = 1
  /\ mapOccurences' = StatisticsBigrams(flow)
  /\ batchSeqPrev' = FALSE /\ numSubst' = 0
  /\ UNCHANGED <<m_listBatchLets, idxLast>>

Filter ==
  /\ stage = "filter" /\ idxBatch <= Len(flow)
  /\ LET prev == flow[idxBatch - 1]
         seq  == flow[idxBatch]
     IN  IF Inconsistent(prev, seq)
         THEN stage' = "raised" /\ UNCHANGED <<m_listBatchLets, idxBatch>>
         ELSE /\ m_listBatchLets' =
                   IF OwnHalves(prev, seq)
                   THEN Spliced(flow, idxBatch - 1, idxBatch,
                                [seq EXCEPT !.mate = None, !.from = prev.from])
                   ELSE flow
              /\ idxBatch' = idxBatch + 1
              /\ UNCHANGED stage
  /\ UNCHANGED <<sent, pending, idxLast, mapOccurences, batchSeqPrev, numSubst>>

EndOfFilter ==
  /\ stage = "filter" /\ idxBatch > Len(flow)
  /\ BeginBigrams
  /\ UNCHANGED <<sent, pending>>

(* The arguments of several batches, without their repetitions.            *)
argsArray(arrBatch) ==
  FoldLeft(LAMBDA found, arg : IF Contains(found, arg) THEN found ELSE Append(found, arg),
           <<>>, FlattenSeq([k \in DOMAIN arrBatch |-> arrBatch[k].args]))

(* How many times each of the batches occurred is not kept.                *)
BatchLetSequence(arrBatch) ==
  [name |-> [k \in DOMAIN arrBatch |-> arrBatch[k].name],
   args |-> argsArray(arrBatch),
   status |-> "sequence", m_occurrences |-> 1, core |-> arrBatch[1].core, mate |-> None,
   from |-> arrBatch[1].from, to |-> Last(arrBatch).to]

(* ClusterizeBigrams: a pair that occurs often is replaced by one batch,   *)
(* or counted in the one just made before it.                              *)
Bigram ==
  /\ stage = "bigrams" /\ idxBatch < Len(flow)
  /\ IF SignatureForRepetitions(flow, idxBatch) \in mapOccurences
     THEN LET batchSequence == BatchLetSequence(SubSeq(flow, idxBatch, idxBatch + 1))
              prev          == flow[idxBatch - 1]
              periodic      == batchSeqPrev /\ SameCall(prev, batchSequence)
          IN  /\ m_listBatchLets' =
                   IF periodic
                   THEN Spliced(flow, idxBatch - 1, idxBatch + 1,
                          [prev EXCEPT !.m_occurrences = @ + 1, !.to = batchSequence.to])
                   ELSE Spliced(flow, idxBatch, idxBatch + 1, batchSequence)
              /\ idxBatch' = IF periodic THEN idxBatch ELSE idxBatch + 1
              /\ batchSeqPrev' = TRUE
              /\ numSubst' = numSubst + 1
     ELSE /\ idxBatch' = idxBatch + 1
          /\ batchSeqPrev' = FALSE
          /\ UNCHANGED <<m_listBatchLets, numSubst>>
  /\ UNCHANGED <<sent, pending, stage, idxLast, mapOccurences>>

BeginArgs ==
  /\ stage' = "args" /\ idxLast' = 1 /\ idxBatch' = 2
  /\ UNCHANGED <<m_listBatchLets, mapOccurences, batchSeqPrev, numSubst>>

(* Variants: one pass only; substitutions are counted from the beginning.  *)
EndOfBigramsOnce ==
  /\ stage = "bigrams" /\ idxBatch >= Len(flow)
  /\ BeginArgs
  /\ UNCHANGED <<sent, pending>>

EndOfBigramsNoReset ==
  /\ stage = "bigrams" /\ idxBatch >= Len(flow)
  /\ IF numSubst = 0 THEN BeginArgs
     ELSE /\ idxBatch' = 1 /\ mapOccurences' = StatisticsBigrams(flow) /\ batchSeqPrev' = FALSE
          /\ UNCHANGED <<m_listBatchLets, stage, idxLast, numSubst>>
  /\ UNCHANGED <<sent, pending>>

(* The passes end with one that substitutes nothing.                       *)
EndOfBigrams ==
  /\ stage = "bigrams" /\ idxBatch >= Len(flow)
  /\ IF numSubst = 0 THEN BeginArgs ELSE BeginBigrams
  /\ UNCHANGED <<sent, pending>>

(* ClusterizeBatchesByArguments: the run that began at idxLast goes on.    *)
SameRun == flow[idxBatch].args = flow[idxLast].args

Grows ==
  /\ stage = "args" /\ idxBatch <= Len(flow)
  /\ \/ flow[idxLast].args = <<>> /\ idxLast' = idxLast + 1
     \/ flow[idxLast].args # <<>> /\ SameRun /\ UNCHANGED idxLast
  /\ idxBatch' = idxBatch + 1
  /\ UNCHANGED <<m_listBatchLets, sent, pending, stage, mapOccurences, batchSeqPrev, numSubst>>

(* Variants: the batch after the run is replaced too; a run of two is not  *)
(* replaced.                                                               *)
ClusterizedTooMuch(list, i, j) ==
  IF j > i + 1 THEN Spliced(list, i, j, BatchLetSequence(SubSeq(list, i, j - 1))) ELSE list

ClusterizedIfLong(list, i, j) ==
  IF j > i + 2 THEN Spliced(list, i, j - 1, BatchLetSequence(SubSeq(list, i, j - 1))) ELSE list

Clusterized(list, i, j) ==
  IF j > i + 1 THEN Spliced(list, i, j - 1, BatchLetSequence(SubSeq(list, i, j - 1))) ELSE list

(* The run has ended, or the flow.                                         *)
Clusterize ==
  /\ stage = "args" /\ idxBatch <= Len(flow) + 1
  /\ idxBatch <= Len(flow) => flow[idxLast].args # <<>> /\ ~SameRun
  /\ m_listBatchLets' = Clusterized(flow, idxLast, idxBatch)
  /\ idxLast' = idxLast + 1
  /\ idxBatch' = idxLast + 2
  /\ UNCHANGED <<sent, pending, stage, mapOccurences, batchSeqPrev, numSubst>>

EndOfArgs ==
  /\ stage = "args" /\ idxBatch > Len(flow) + 1
  /\ stage' = "done"
  /\ UNCHANGED <<m_listBatchLets, sent, pending, loopVars>>

FactorizeOneFlow ==
  \/ Filter \/ EndOfFilter
  \/ Bigram \/ EndOfBigrams
  \/ Grows \/ Clusterize \/ EndOfArgs

Next ==
  \/ \E call \in Calls : Call(call[1], call[2]) \/ FirstHalf(call[1], call[2])
  \/ \E args \in ArgLists : SecondHalf(args)
  \/ EndOfLog
  \/ FactorizeOneFlow

(* One thread rewrites the flow once the log has been read.                *)
Spec == Init /\ [][Next]_vars /\ WF_vars(FactorizeOneFlow)

-----------------------------------------------------------------------------
(* Whatever the rewriting, the batches stand for all that was sent to the  *)
(* flow, in order.                                                         *)
NothingLost ==
  /\ (flow = <<>>) = (sent = 0)
  /\ flow # <<>> => flow[1].from = 1 /\ Last(flow).to = sent
  /\ \A k \in 1..(Len(flow) - 1) : flow[k].to + 1 = flow[k + 1].from

(* A batch that FilterMatchedBatches removes stands for nothing else than  *)
(* the first half of the call of the next batch.                           *)
OnlyFirstHalfRemoved ==
  [][stage = "filter" /\ Len(flow') < Len(flow) =>
       LET prev == flow[idxBatch - 1]
       IN  prev.from = prev.core /\ prev.to = prev.core /\ prev.m_occurrences = 1]_vars

(* The sanity checks of FilterMatchedBatches hold for the flow of a        *)
(* process whose calls do not overlap: the analysis does not stop.         *)
NeverInconsistent == stage # "raised"

(* Behind the walk of FilterMatchedBatches, no first half is left right    *)
(* before its own second half.                                             *)
HalvesFiltered ==
  stage = "filter" =>
    \A k \in 1..(Len(flow) - 1) :
      k + 1 < idxBatch /\ flow[k].status = "matched" => flow[k].mate # flow[k + 1].core

(* A call that was not grouped with others is counted as many times as it  *)
(* was sent, its removed first half apart.                                 *)
CountsAreExact ==
  \A k \in 1..Len(flow) :
    LET b == flow[k]
    IN  b.status # "sequence" =>
          b.to - b.from + 1 = b.m_occurrences + (IF b.from < b.core THEN 1 ELSE 0)

(* When ClusterizeBigrams is left, no pair of calls occurs often.          *)
PairsAreRare ==
  [][stage = "bigrams" /\ stage' = "args" =>
       \A i \in 1..(Len(flow) - 1) :
         Cardinality({m \in 1..(Len(flow) - 1) : /\ flow[m].name = flow[i].name
                                                 /\ flow[m].args = flow[i].args
                                                 /\ flow[m + 1].name = flow[i + 1].name
                                                 /\ flow[m + 1].args = flow[i + 1].args}) <= Frequent]_vars

(* At the end, no call is left beside another with the same arguments.     *)
RunsAreGrouped ==
  stage = "done" =>
    \A k \in 1..(Len(flow) - 1) :
      /\ flow[k].status # "sequence" /\ flow[k + 1].status # "sequence"
      /\ flow[k].args # <<>>
      => flow[k].args # flow[k + 1].args

(* What is left of the rewriting, the weightiest number first: the passes  *)
(* to come; the substitutions that the pairs still allow, or the runs; the *)
(* batches that the loop has not reached.                                  *)
Remaining ==
  CASE stage = "filter"  -> <<3, 0, Len(flow) + 2 - idxBatch>>
    [] stage = "bigrams" -> <<2, 2 * Len(flow) + (IF numSubst = 0 THEN 0 ELSE 1),
                              Len(flow) + 2 - idxBatch>>
    [] stage = "args"    -> <<1, Len(flow) + 2 - idxLast, Len(flow) + 2 - idxBatch>>
    [] OTHER             -> <<0, 0, 0>>

Smaller(new, old) ==
  \E i \in 1..3 : new[i] < old[i] /\ \A j \in 1..(i - 1) : new[j] = old[j]

(* However the loops of FactorizeOneFlow edit the list they walk and begin *)
(* again, each iteration leaves less to do; nothing follows the last one.  *)
LessRemains ==
  [][stage # "reading" => Smaller(Remaining', Remaining)]_vars

(* The rewriting ends: no pass substitutes for ever.                       *)
Terminates == stage = "filter" ~> stage = "done"

=============================================================================
