-------------------------- MODULE BatchFlowProofs ---------------------------
(***************************************************************************)
(* Proofs about BatchFlow.  What is true of the list of batches is kept by *)
(* the two ways in which it is edited: a batch is sent to its end, and     *)
(* some batches are replaced by one that stands for them.                  *)
(*                                                                         *)
(* IInv is the invariant of the whole rewriting.  Three more say how far   *)
(* each walk has come: GroupInv for the runs of the same arguments,        *)
(* RareInv for the frequent pairs, HalfInv for the halves of a call.       *)
(***************************************************************************)
EXTENDS BatchFlow, FiniteSetTheorems, SequenceTheorems, WellFoundedInduction, TLAPS

Batches(N, A, n) ==
  [name : N, args : A, status : Statuses, m_occurrences : Nat \ {0}, core : 1..n,
   mate : 1..(n + 1) \cup {None}, from : 1..n, to : 1..n]

(* A batch of a flow to which n batches were sent.                         *)
Batch(b, n) == \E N, A : b \in Batches(N, A, n)

ListOK(list, n) ==
  /\ list \in Seq(ToSet(list))
  /\ Len(list) <= n
  /\ \A k \in 1..Len(list) : Batch(list[k], n)

Contiguous(list, n) ==
  /\ Len(list) = 0 => n = 0
  /\ Len(list) # 0 => list[1].from = 1 /\ list[Len(list)].to = n
  /\ \A k \in 1..(Len(list) - 1) : list[k].to + 1 = list[k + 1].from

Counted(b) ==
  b.status # "sequence" =>
    b.to - b.from + 1 = b.m_occurrences + (IF b.from < b.core THEN 1 ELSE 0)

Counts(list) == \A k \in 1..Len(list) : Counted(list[k])

(* The batches that FilterMatchedBatches has not changed.                  *)
Fresh(list, idx) == \A k \in 1..Len(list) : k >= idx => list[k].from = list[k].core

Single(b) == b.from = b.core /\ b.to = b.core /\ b.m_occurrences = 1

(* A second half is next to a batch of the same function; if that one is   *)
(* its first half, it stands for nothing else.                             *)
MergedAfter(b, c) ==
  c.status = "merged" =>
    b.name = c.name /\ c.mate # None /\ (OwnHalves(b, c) => Single(b))

Paired(list, idx) ==
  \A k \in 1..(Len(list) - 1) : k + 1 >= idx => MergedAfter(list[k], list[k + 1])

FlowOK(list, n) == ListOK(list, n) /\ Contiguous(list, n) /\ Counts(list)

(* While the log is read, the call that is not finished is the last one.   *)
PendingOK ==
  pending # None =>
    /\ Len(flow) # 0
    /\ flow[Len(flow)].name = pending.name
    /\ pending.core = sent
    /\ pending.at = 0 => flow[Len(flow)].core # sent
    /\ pending.at # 0 => pending.at = Len(flow) /\ Single(flow[Len(flow)])
                           /\ flow[Len(flow)].status = "unfinished"

Scalars ==
  /\ sent \in Nat
  /\ pending \in [name : Functions, core : 1..sent, at : 0..sent] \cup {None}
  /\ stage \in {"reading", "filter", "bigrams", "args", "done", "raised"}
  /\ idxBatch \in 1..(Len(flow) + 2) /\ idxLast \in Nat \ {0}
  /\ batchSeqPrev \in BOOLEAN /\ numSubst \in Nat

LoopOK ==
  /\ stage = "filter" => idxBatch >= 2
  /\ stage = "bigrams" /\ batchSeqPrev =>
       idxBatch \in 2..(Len(flow) + 1) /\ flow[idxBatch - 1].status = "sequence"
  /\ stage = "args" => idxLast < idxBatch

IInv ==
  /\ Scalars
  /\ FlowOK(flow, sent)
  /\ stage \in {"reading", "filter"} => Fresh(flow, idxBatch) /\ Paired(flow, idxBatch)
  /\ stage = "reading" => idxBatch = 1 /\ PendingOK
  /\ LoopOK
  /\ stage # "raised"

(* What Spliced gives.                                                     *)
SplicedTo(new, list, i, j, b) ==
  /\ new \in Seq(ToSet(new))
  /\ Len(new) = Len(list) - (j - i)
  /\ \A k \in 1..Len(new) :
       /\ k < i => new[k] = list[k]
       /\ k = i => new[k] = b
       /\ k > i => new[k] = list[k + (j - i)]

(* A batch c that counts one more call, or pair of calls, than b and ends  *)
(* at x; a first half c whose second half has been found; a second half c  *)
(* that stands for its first half too.                                     *)
CountedAs(c, b, x, n) ==
  /\ Batch(c, n) /\ c.m_occurrences = b.m_occurrences + 1 /\ c.to = x
  /\ c.name = b.name /\ c.args = b.args /\ c.status = b.status
  /\ c.core = b.core /\ c.mate = b.mate /\ c.from = b.from

MatchedAs(c, b, m, n) ==
  /\ Batch(c, n) /\ c.status = "matched" /\ c.mate = m
  /\ c.name = b.name /\ c.m_occurrences = b.m_occurrences
  /\ c.core = b.core /\ c.from = b.from /\ c.to = b.to

FilteredAs(c, b, x, n) ==
  /\ Batch(c, n) /\ c.mate = None /\ c.from = x
  /\ c.name = b.name /\ c.status = b.status /\ c.m_occurrences = b.m_occurrences
  /\ c.core = b.core /\ c.to = b.to

(* The batches from i to j of a list replaced by one sequence.             *)
SequencedTo(new, list, i, j, n) ==
  FlowOK(new, n) /\ Len(new) = Len(list) - (j - i) /\ new[i].status = "sequence"

(* The (n + 1)-th batch that is sent.                                      *)
NewAs(b, name, status, mate, n) ==
  /\ Batch(b, n + 1) /\ Single(b) /\ b.from = n + 1 /\ b.core = n + 1
  /\ b.name = name /\ b.status = status /\ b.mate = mate

(* What Sent gives.                                                        *)
SentTo(new, list, b, n) ==
  /\ FlowOK(new, n + 1) /\ Fresh(new, 1) /\ Paired(new, 1)
  /\ Len(new) # 0 /\ new[Len(new)].name = b.name
  /\ \/ Len(new) = Len(list) /\ Len(list) # 0 /\ new[Len(new)].core = list[Len(list)].core
     \/ Len(new) = Len(list) + 1 /\ new[Len(new)] = b

-----------------------------------------------------------------------------
(* Lists and records.                                                      *)

LEMMA SeqOfItsOwn ==
  ASSUME NEW S, NEW s \in Seq(S)
  PROVE  s \in Seq(ToSet(s))
<1>1. Len(s) \in Nat /\ s \in [1..Len(s) -> S] /\ DOMAIN s = 1..Len(s)
  BY LenProperties
<1>2. s \in [1..Len(s) -> ToSet(s)]
  BY <1>1 DEF ToSet
<1> QED  BY <1>1, <1>2, SeqDef

LEMMA SplicedFacts ==
  ASSUME NEW list, list \in Seq(ToSet(list)), NEW i \in 1..Len(list), NEW j \in i..Len(list), NEW b
  PROVE  SplicedTo(Spliced(list, i, j, b), list, i, j, b)
<1> DEFINE S == ToSet(list) \cup {b}
           left == SubSeq(list, 1, i - 1)
           right == SubSeq(list, j + 1, Len(list))
           new == (left \o <<b>>) \o right
<1>1. Len(list) \in Nat /\ DOMAIN list = 1..Len(list)
  BY LenProperties
<1>2. \A k \in 1..Len(list) : list[k] \in S
  BY <1>1 DEF ToSet
<1>3. /\ left \in Seq(S) /\ Len(left) = i - 1
      /\ \A k \in 1..(i - 1) : left[k] = list[k]
  <2>1. \A k \in 1..(i - 1) : list[k] \in S
    BY <1>1, <1>2
  <2> HIDE DEF S
  <2>2. /\ left \in Seq(S) /\ Len(left) = IF 1 <= i - 1 THEN (i - 1) - 1 + 1 ELSE 0
        /\ \A k \in 1..((i - 1) - 1 + 1) : left[k] = list[1 + k - 1]
    BY <1>1, <2>1, SubSeqProperties
  <2> HIDE DEF left
  <2> QED  BY <1>1, <2>2
<1>4. /\ right \in Seq(S) /\ Len(right) = Len(list) - j
      /\ \A k \in 1..(Len(list) - j) : right[k] = list[j + k]
  <2>1. \A k \in (j + 1)..Len(list) : list[k] \in S
    BY <1>1, <1>2
  <2> HIDE DEF S
  <2>2. /\ right \in Seq(S)
        /\ Len(right) = IF j + 1 <= Len(list) THEN Len(list) - (j + 1) + 1 ELSE 0
        /\ \A k \in 1..(Len(list) - (j + 1) + 1) : right[k] = list[(j + 1) + k - 1]
    BY <1>1, <2>1, SubSeqProperties
  <2> HIDE DEF right
  <2>3. \A k \in 1..(Len(list) - j) : k \in 1..(Len(list) - (j + 1) + 1) /\ (j + 1) + k - 1 = j + k
    BY <1>1
  <2>4. ASSUME NEW k \in 1..(Len(list) - j)
        PROVE  right[k] = list[j + k]
    <3>1. right[k] = list[(j + 1) + k - 1]
      BY <2>2, <2>3, Zenon
    <3> QED  BY <2>3, <3>1, Zenon
  <2>5. Len(right) = Len(list) - j
    <3>1. Len(right) = IF j + 1 <= Len(list) THEN Len(list) - (j + 1) + 1 ELSE 0
      BY <2>2
    <3>2. j \in Int /\ j <= Len(list)
      BY <1>1
    <3>3. CASE j = Len(list)
      BY <1>1, <3>1, <3>2, <3>3
    <3>4. CASE j + 1 <= Len(list)
      BY <1>1, <3>1, <3>2, <3>4
    <3>5. \A m \in Nat, q \in Int : q <= m => q = m \/ q + 1 <= m
      OBVIOUS
    <3> QED  BY <1>1, <3>2, <3>3, <3>4, <3>5, Zenon
  <2> QED  BY <2>2, <2>4, <2>5
<1>5. <<b>> \in Seq(S) /\ Len(<<b>>) = 1 /\ <<b>>[1] = b
  OBVIOUS
<1> HIDE DEF S, left, right
<1>6. /\ left \o <<b>> \in Seq(S) /\ Len(left \o <<b>>) = i
      /\ \A k \in 1..i : (left \o <<b>>)[k] = IF k <= i - 1 THEN left[k] ELSE b
  <2>1. /\ left \o <<b>> \in Seq(S) /\ Len(left \o <<b>>) = Len(left) + Len(<<b>>)
        /\ \A k \in 1..(Len(left) + Len(<<b>>)) :
             (left \o <<b>>)[k] = IF k <= Len(left) THEN left[k] ELSE <<b>>[k - Len(left)]
    BY <1>3, <1>5, ConcatProperties
  <2> QED  BY <1>1, <1>3, <1>5, <2>1
<1>7. /\ new \in Seq(S) /\ Len(new) = i + (Len(list) - j)
      /\ \A k \in 1..(i + (Len(list) - j)) :
           new[k] = IF k <= i THEN (left \o <<b>>)[k] ELSE right[k - i]
  <2> DEFINE head == left \o <<b>>
  <2>1. head \in Seq(S) /\ Len(head) = i
    BY <1>6
  <2> HIDE DEF head
  <2>2. /\ head \o right \in Seq(S) /\ Len(head \o right) = Len(head) + Len(right)
        /\ \A k \in 1..(Len(head) + Len(right)) :
             (head \o right)[k] = IF k <= Len(head) THEN head[k] ELSE right[k - Len(head)]
    BY <1>4, <2>1, ConcatProperties
  <2> QED  BY <1>1, <1>4, <2>1, <2>2 DEF head
<1>8. Spliced(list, i, j, b) = new
  BY DEF Spliced, left, right
<1> HIDE DEF new
<1>9. new \in Seq(ToSet(new))
  BY <1>7, SeqOfItsOwn
<1>10. ASSUME NEW k \in 1..Len(new)
       PROVE  /\ k < i => new[k] = list[k]
              /\ k = i => new[k] = b
              /\ k > i => new[k] = list[k + (j - i)]
  <2>1. new[k] = IF k <= i THEN (left \o <<b>>)[k] ELSE right[k - i]
    BY <1>1, <1>7
  <2>2. k <= i => (left \o <<b>>)[k] = IF k <= i - 1 THEN left[k] ELSE b
    BY <1>1, <1>6, <1>7
  <2>3. k < i => left[k] = list[k]
    <3>1. k < i => k \in 1..(i - 1)
      BY <1>1, <1>7
    <3> QED  BY <1>3, <3>1
  <2>4. k > i => k - i \in 1..(Len(list) - j) /\ j + (k - i) = k + (j - i)
    BY <1>1, <1>7
  <2>5. k > i => right[k - i] = list[k + (j - i)]
    BY <1>4, <2>4
  <2>6. k \in Nat /\ i \in Nat
    BY <1>1, <1>7
  <2>7. k < i => k <= i /\ k <= i - 1
    BY <2>6
  <2>8. k = i => k <= i /\ ~(k <= i - 1)
    BY <2>6
  <2>9. k > i => ~(k <= i)
    BY <2>6
  <2> QED  BY <2>1, <2>2, <2>3, <2>5, <2>7, <2>8, <2>9
<1>11. Len(new) = Len(list) - (j - i)
  BY <1>1, <1>7
<1> QED  BY <1>8, <1>9, <1>10, <1>11 DEF SplicedTo

LEMMA ReplacedFacts ==
  ASSUME NEW list, list \in Seq(ToSet(list)), NEW i \in 1..Len(list), NEW b
  PROVE  SplicedTo(ReplaceAt(list, i, b), list, i, i, b)
<1> DEFINE S == ToSet(list) \cup {b}
           new == [list EXCEPT ![i] = b]
<1>1. Len(list) \in Nat /\ DOMAIN list = 1..Len(list) /\ list \in [1..Len(list) -> ToSet(list)]
  BY LenProperties
<1>2. list \in Seq(S)
  BY SeqMonotonic
<1>3. /\ new \in Seq(S) /\ Len(new) = Len(list)
      /\ \A k \in 1..Len(list) : new[k] = IF k = i THEN b ELSE list[k]
  BY <1>1, <1>2, ExceptSeq
<1>4. ReplaceAt(list, i, b) = new
  BY DEF ReplaceAt
<1> HIDE DEF new, S
<1>5. new \in Seq(ToSet(new))
  BY <1>3, SeqOfItsOwn
<1>6. ASSUME NEW k \in 1..Len(new)
      PROVE  /\ k < i => new[k] = list[k]
             /\ k = i => new[k] = b
             /\ k > i => new[k] = list[k + (i - i)]
  BY <1>1, <1>3
<1>7. Len(new) = Len(list) - (i - i)
  BY <1>1, <1>3
<1> QED  BY <1>4, <1>5, <1>6, <1>7 DEF SplicedTo

LEMMA AppendedFacts ==
  ASSUME NEW list, list \in Seq(ToSet(list)), NEW b
  PROVE  /\ Append(list, b) \in Seq(ToSet(Append(list, b)))
         /\ Len(Append(list, b)) = Len(list) + 1
         /\ \A k \in 1..Len(list) : Append(list, b)[k] = list[k]
         /\ Append(list, b)[Len(list) + 1] = b
<1> DEFINE S == ToSet(list) \cup {b}
<1>1. list \in Seq(S) /\ b \in S
  BY SeqMonotonic
<1> HIDE DEF S
<1>2. Append(list, b) \in Seq(S)
  BY <1>1, AppendProperties
<1>3. /\ Len(Append(list, b)) = Len(list) + 1
      /\ \A k \in 1..Len(list) : Append(list, b)[k] = list[k]
      /\ Append(list, b)[Len(list) + 1] = b
  BY <1>1, AppendProperties
<1>4. Append(list, b) \in Seq(ToSet(Append(list, b)))
  BY <1>2, SeqOfItsOwn
<1> QED  BY <1>3, <1>4

LEMMA BatchFields ==
  ASSUME NEW n \in Nat, NEW b, Batch(b, n)
  PROVE  /\ b.status \in Statuses /\ b.m_occurrences \in Nat \ {0} /\ b.core \in 1..n
         /\ b.mate \in 1..(n + 1) \cup {None} /\ b.from \in 1..n /\ b.to \in 1..n
<1>1. PICK N, A : b \in Batches(N, A, n)
  BY DEF Batch
<1> QED  BY <1>1 DEF Batches

LEMMA BatchGrows ==
  ASSUME NEW n \in Nat, NEW b, Batch(b, n)
  PROVE  Batch(b, n + 1)
<1>1. PICK N, A : b \in Batches(N, A, n)
  BY DEF Batch
<1>2. 1..n \subseteq 1..(n + 1) /\ 1..(n + 1) \subseteq 1..((n + 1) + 1)
  OBVIOUS
<1>3. b \in Batches(N, A, n + 1)
  BY <1>1, <1>2 DEF Batches
<1> QED  BY <1>3 DEF Batch

LEMMA CountedFacts ==
  ASSUME NEW n \in Nat, NEW b, Batch(b, n), NEW x \in 1..n
  PROVE  CountedAs([b EXCEPT !.m_occurrences = @ + 1, !.to = x], b, x, n)
<1>1. PICK N, A : b \in Batches(N, A, n)
  BY DEF Batch
<1> DEFINE o == b.m_occurrences + 1
           c == [b EXCEPT !.m_occurrences = o, !.to = x]
<1>2. o \in Nat \ {0}
  BY <1>1 DEF Batches
<1>3. c = [b EXCEPT !.m_occurrences = @ + 1, !.to = x]
  BY <1>1 DEF Batches
<1> HIDE DEF o
<1>4. /\ c \in Batches(N, A, n) /\ c.m_occurrences = o /\ c.to = x
      /\ c.name = b.name /\ c.args = b.args /\ c.status = b.status
      /\ c.core = b.core /\ c.mate = b.mate /\ c.from = b.from
  BY <1>1, <1>2 DEF Batches
<1> HIDE DEF c
<1> QED  BY <1>3, <1>4 DEF o, Batch, CountedAs

LEMMA MatchedFacts ==
  ASSUME NEW n \in Nat, NEW b, Batch(b, n), NEW m \in 1..(n + 1) \cup {None}
  PROVE  MatchedAs([b EXCEPT !.status = "matched", !.mate = m], b, m, n)
<1>1. PICK N, A : b \in Batches(N, A, n)
  BY DEF Batch
<1> DEFINE c == [b EXCEPT !.status = "matched", !.mate = m]
<1>2. /\ c \in Batches(N, A, n) /\ c.status = "matched" /\ c.mate = m
      /\ c.name = b.name /\ c.m_occurrences = b.m_occurrences
      /\ c.core = b.core /\ c.from = b.from /\ c.to = b.to
  BY <1>1 DEF Batches, Statuses
<1> HIDE DEF c
<1>3. Batch(c, n)
  BY <1>2 DEF Batch
<1> QED  BY <1>2, <1>3 DEF c, MatchedAs

LEMMA FilteredFacts ==
  ASSUME NEW n \in Nat, NEW b, Batch(b, n), NEW x \in 1..n
  PROVE  FilteredAs([b EXCEPT !.mate = None, !.from = x], b, x, n)
<1>1. PICK N, A : b \in Batches(N, A, n)
  BY DEF Batch
<1> DEFINE c == [b EXCEPT !.mate = None, !.from = x]
<1>2. /\ c \in Batches(N, A, n) /\ c.mate = None /\ c.from = x
      /\ c.name = b.name /\ c.status = b.status /\ c.m_occurrences = b.m_occurrences
      /\ c.core = b.core /\ c.to = b.to
  BY <1>1 DEF Batches
<1> HIDE DEF c
<1>3. Batch(c, n)
  BY <1>2 DEF Batch
<1> QED  BY <1>2, <1>3 DEF c, FilteredAs

-----------------------------------------------------------------------------
(* The two edits.                                                          *)

(* A batch stands for those from i to j.                                   *)
LEMMA SplicedKeeps ==
  ASSUME NEW n \in Nat, NEW list, FlowOK(list, n),
         NEW i \in 1..Len(list), NEW j \in i..Len(list), NEW b,
         Batch(b, n), Counted(b), b.from = list[i].from, b.to = list[j].to,
         NEW new, SplicedTo(new, list, i, j, b)
  PROVE  FlowOK(new, n)
<1> DEFINE L == Len(list)
           d == j - i
<1>1. L \in Nat /\ L <= n /\ list \in Seq(ToSet(list)) /\ \A k \in 1..L : Batch(list[k], n)
  BY LenProperties DEF FlowOK, ListOK
<1>2. i \in Nat /\ j \in Nat /\ 1 <= i /\ i <= j /\ j <= L /\ d \in Nat /\ d < L
  BY <1>1
<1>3. new \in Seq(ToSet(new)) /\ Len(new) = L - d
  BY DEF SplicedTo
<1>4. \A k \in 1..(L - d) :
        /\ k < i => new[k] = list[k]
        /\ k = i => new[k] = b
        /\ k > i => new[k] = list[k + d]
  BY <1>3 DEF SplicedTo
<1>5. \A k \in 1..L : Counted(list[k])
  BY DEF FlowOK, Counts
<1>6. /\ list[1].from = 1 /\ list[L].to = n
      /\ \A k \in 1..(L - 1) : list[k].to + 1 = list[k + 1].from
  BY <1>1, <1>2 DEF FlowOK, Contiguous
<1> HIDE DEF L, d
<1>7. \A k \in 1..(L - d) : Batch(new[k], n) /\ Counted(new[k])
  <2> TAKE k \in 1..(L - d)
  <2>1. CASE k < i
    BY <1>1, <1>2, <1>4, <1>5, <2>1
  <2>2. CASE k = i
    BY <1>4, <2>2
  <2>3. CASE k > i
    <3>1. k + d \in 1..L
      BY <1>1, <1>2
    <3> QED  BY <1>1, <1>4, <1>5, <2>3, <3>1
  <2> QED  BY <1>1, <1>2, <2>1, <2>2, <2>3
<1>8. new[1].from = 1
  BY <1>1, <1>2, <1>4, <1>6
<1>9. new[L - d].to = n
  <2>1. L - d \in 1..(L - d) /\ L - d >= i /\ (L - d = i => j = L) /\ (L - d) + d = L
    BY <1>1, <1>2 DEF d
  <2>2. CASE L - d = i
    BY <1>4, <1>6, <2>1, <2>2
  <2>3. CASE L - d > i
    BY <1>4, <1>6, <2>1, <2>3
  <2> QED  BY <1>1, <1>2, <2>1, <2>2, <2>3
<1>10. \A k \in 1..((L - d) - 1) : new[k].to + 1 = new[k + 1].from
  <2> TAKE k \in 1..((L - d) - 1)
  <2>0. k \in 1..(L - d) /\ k + 1 \in 1..(L - d) /\ k \in Nat
    BY <1>1, <1>2
  <2>1. CASE k + 1 < i
    <3>1. k \in 1..(L - 1) /\ k < i
      BY <1>1, <1>2, <2>1
    <3> QED  BY <1>4, <1>6, <2>0, <2>1, <3>1
  <2>2. CASE k + 1 = i
    <3>1. k \in 1..(L - 1) /\ k < i
      BY <1>1, <1>2, <2>2
    <3> QED  BY <1>4, <1>6, <2>0, <2>2, <3>1
  <2>3. CASE k = i
    <3>1. /\ j \in 1..(L - 1) /\ k + 1 > i /\ (k + 1) + d = j + 1
      BY <1>1, <1>2, <2>0, <2>3 DEF d
    <3>2. new[k] = b /\ new[k + 1] = list[j + 1]
      BY <1>4, <2>0, <2>3, <3>1
    <3> QED  BY <1>6, <3>1, <3>2
  <2>4. CASE k > i
    <3>1. k + d \in 1..(L - 1) /\ k + 1 > i /\ (k + 1) + d = (k + d) + 1
      BY <1>1, <1>2, <2>0, <2>4
    <3>2. new[k] = list[k + d] /\ new[k + 1] = list[(k + d) + 1]
      BY <1>4, <2>0, <2>4, <3>1
    <3>3. list[k + d].to + 1 = list[(k + d) + 1].from
      BY <1>6, <3>1, Zenon
    <3> QED  BY <3>2, <3>3, Zenon
  <2> QED  BY <1>2, <2>0, <2>1, <2>2, <2>3, <2>4
<1>11. L - d \in Nat /\ L - d <= n /\ L - d # 0
  BY <1>1, <1>2
<1> QED  BY <1>3, <1>7, <1>8, <1>9, <1>10, <1>11 DEF FlowOK, ListOK, Contiguous, Counts

LEMMA OneMore ==
  ASSUME NEW n \in Nat, NEW f \in Nat, NEW m \in Nat, NEW q \in Nat
  PROVE  n - f + 1 = m + q => (n + 1) - f + 1 = (m + 1) + q
OBVIOUS

(* A batch is sent to the end of the list.                                 *)
LEMMA SentKeeps ==
  ASSUME NEW n \in Nat, NEW list, FlowOK(list, n), Fresh(list, 1), Paired(list, 1),
         NEW b, Batch(b, n + 1), Single(b), b.from = n + 1,
         Len(list) # 0 => MergedAfter(list[Len(list)], b)
  PROVE  SentTo(Sent(list, b), list, b, n)
<1> DEFINE L == Len(list)
           last == list[L]
           new == Sent(list, b)
<1>1. L \in Nat /\ L <= n /\ list \in Seq(ToSet(list)) /\ (list = <<>> <=> L = 0)
  BY LenProperties, EmptySeq DEF FlowOK, ListOK
<1>2. \A k \in 1..L : Batch(list[k], n + 1) /\ Counted(list[k]) /\ list[k].from = list[k].core
  <2>1. \A k \in 1..L : Batch(list[k], n) /\ Counted(list[k])
    BY DEF FlowOK, ListOK, Counts
  <2>2. \A k \in 1..L : list[k].from = list[k].core
    BY <1>1 DEF Fresh
  <2> QED  BY <2>1, <2>2, BatchGrows
<1>3. /\ L = 0 => n = 0
      /\ L # 0 => list[1].from = 1 /\ last.to = n
      /\ \A k \in 1..(L - 1) : list[k].to + 1 = list[k + 1].from
  BY DEF FlowOK, Contiguous
<1>4. \A k \in 1..(L - 1) : MergedAfter(list[k], list[k + 1])
  BY <1>1 DEF Paired
<1>5. b.to = n + 1 /\ b.core = n + 1 /\ b.m_occurrences = 1 /\ Counted(b)
  BY DEF Single, Counted
<1>6. CASE L # 0 /\ SameCall(last, b)
  <2> DEFINE c == [last EXCEPT !.m_occurrences = @ + 1, !.to = b.to]
  <2>1. L \in 1..L /\ n + 1 \in Nat /\ b.to \in 1..(n + 1)
    BY <1>1, <1>5, <1>6
  <2>2. new = ReplaceAt(list, L, c)
    BY <1>1, <1>6 DEF Sent, Last
  <2>3. /\ Batch(c, n + 1) /\ c.m_occurrences = last.m_occurrences + 1 /\ c.to = n + 1
        /\ c.name = last.name /\ c.status = last.status
        /\ c.core = last.core /\ c.mate = last.mate /\ c.from = last.from
    <3> HIDE DEF last
    <3>1. Batch(last, n + 1)
      BY <1>2, <2>1 DEF last
    <3>2. CountedAs(c, last, b.to, n + 1)
      BY <2>1, <3>1, CountedFacts
    <3> HIDE DEF c
    <3> QED  BY <1>5, <3>2 DEF CountedAs
  <2> HIDE DEF c
  <2>4. SplicedTo(new, list, L, L, c)
    BY <1>1, <2>1, <2>2, ReplacedFacts
  <2> HIDE DEF new
  <2>5. /\ new \in Seq(ToSet(new)) /\ Len(new) = L /\ new[L] = c
        /\ \A k \in 1..L : k < L => new[k] = list[k]
    BY <1>1, <2>1, <2>4 DEF SplicedTo
  <2> HIDE DEF L
  <2>6. Counted(c)
    <3>1. Counted(last) /\ Batch(last, n + 1) /\ last.to = n
      BY <1>2, <1>3, <1>6, <2>1
    <3>2. last.m_occurrences \in Nat /\ last.from \in Nat /\ last.core \in Nat
      BY <2>1, <3>1, BatchFields
    <3>3. /\ c.m_occurrences = last.m_occurrences + 1 /\ c.to = n + 1
          /\ c.status = last.status /\ c.core = last.core /\ c.from = last.from
      BY <2>3, Zenon
    <3> HIDE DEF last
    <3> DEFINE left == IF last.from < last.core THEN 1 ELSE 0
    <3>4. last.status # "sequence" => n - last.from + 1 = last.m_occurrences + left
      BY <3>1 DEF Counted
    <3>5. left \in Nat
      OBVIOUS
    <3> HIDE DEF left
    <3>6. PICK f \in Nat : f = last.from
      BY <3>2, Zenon
    <3>7. PICK m \in Nat : m = last.m_occurrences
      BY <3>2, Zenon
    <3>8. PICK q \in Nat : q = left
      BY <3>5, Zenon
    <3>9. n - f + 1 = m + q => (n + 1) - f + 1 = (m + 1) + q
      BY OneMore
    <3>10. n - last.from + 1 = last.m_occurrences + left
            => (n + 1) - last.from + 1 = (last.m_occurrences + 1) + left
      BY <3>6, <3>7, <3>8, <3>9
    <3> QED  BY <3>3, <3>4, <3>10, Zenon DEF Counted, left
  <2>7. \A k \in 1..L : Batch(new[k], n + 1) /\ Counted(new[k]) /\ new[k].from = new[k].core
    <3> TAKE k \in 1..L
    <3>1. CASE k < L
      BY <1>2, <2>5, <3>1
    <3>2. CASE k = L
      BY <1>2, <2>1, <2>3, <2>5, <2>6, <3>2
    <3> QED  BY <1>1, <3>1, <3>2
  <2>8. new[1].from = 1 /\ new[L].to = n + 1
    BY <1>1, <1>3, <1>6, <2>1, <2>3, <2>5
  <2>9. \A k \in 1..(L - 1) : new[k].to + 1 = new[k + 1].from /\ MergedAfter(new[k], new[k + 1])
    <3> TAKE k \in 1..(L - 1)
    <3>1. k \in 1..L /\ k < L /\ k + 1 \in 1..L /\ new[k] = list[k]
      BY <1>1, <2>5
    <3>2. CASE k + 1 < L
      BY <1>3, <1>4, <2>5, <3>1, <3>2
    <3>3. CASE k + 1 = L
      <4>1. new[k + 1] = c /\ list[k + 1] = last
        BY <2>5, <3>3
      <4>2. MergedAfter(list[k], last) /\ list[k].to + 1 = last.from
        BY <1>3, <1>4, <4>1
      <4> HIDE DEF last
      <4>3. MergedAfter(list[k], c)
        BY <2>3, <4>2 DEF MergedAfter, OwnHalves
      <4> QED  BY <2>3, <3>1, <4>1, <4>2, <4>3
    <3> QED  BY <1>1, <3>1, <3>2, <3>3
  <2>10. new[L].name = b.name /\ new[L].core = last.core
    BY <1>6, <2>3, <2>5 DEF SameCall
  <2>11. FlowOK(new, n + 1)
    BY <1>1, <1>6, <2>5, <2>7, <2>8, <2>9 DEF FlowOK, ListOK, Contiguous, Counts
  <2>12. Fresh(new, 1) /\ Paired(new, 1)
    BY <2>5, <2>7, <2>9 DEF Fresh, Paired
  <2> QED  BY <1>6, <2>5, <2>10, <2>11, <2>12 DEF SentTo, L, new
<1>7. CASE ~(L # 0 /\ SameCall(last, b))
  <2>1. new = Append(list, b)
    BY <1>1, <1>7 DEF Sent, Last
  <2>2. /\ new \in Seq(ToSet(new)) /\ Len(new) = L + 1 /\ new[L + 1] = b
        /\ \A k \in 1..L : new[k] = list[k]
    BY <1>1, <2>1, AppendedFacts
  <2> HIDE DEF new, L
  <2>3. \A k \in 1..(L + 1) : Batch(new[k], n + 1) /\ Counted(new[k]) /\ new[k].from = new[k].core
    <3> TAKE k \in 1..(L + 1)
    <3>1. CASE k \in 1..L
      BY <1>2, <2>2, <3>1
    <3>2. CASE k = L + 1
      BY <1>5, <2>2, <3>2
    <3> QED  BY <1>1, <3>1, <3>2
  <2>4. new[1].from = 1
    <3>1. CASE L = 0
      BY <1>3, <2>2, <3>1
    <3>2. CASE L # 0
      BY <1>1, <1>3, <2>2, <3>2
    <3> QED  BY <3>1, <3>2
  <2>5. \A k \in 1..L : new[k].to + 1 = new[k + 1].from /\ MergedAfter(new[k], new[k + 1])
    <3> TAKE k \in 1..L
    <3>1. CASE k = L
      <4>1. new[k] = last /\ new[k + 1] = b /\ L # 0
        BY <1>1, <2>2, <3>1
      <4> QED  BY <1>3, <1>5, <4>1 DEF L
    <3>2. CASE k \in 1..(L - 1)
      <4>1. k + 1 \in 1..L
        BY <1>1, <3>2
      <4> QED  BY <1>3, <1>4, <2>2, <3>2, <4>1
    <3> QED  BY <1>1, <3>1, <3>2
  <2>6. L + 1 \in Nat /\ L + 1 # 0 /\ L + 1 <= n + 1 /\ (L + 1) - 1 = L
    BY <1>1
  <2>7. FlowOK(new, n + 1)
    BY <1>5, <2>2, <2>3, <2>4, <2>5, <2>6 DEF FlowOK, ListOK, Contiguous, Counts
  <2>8. Fresh(new, 1) /\ Paired(new, 1)
    BY <2>2, <2>3, <2>5, <2>6 DEF Fresh, Paired
  <2> QED  BY <2>2, <2>6, <2>7, <2>8 DEF SentTo, L, new
<1> QED  BY <1>6, <1>7

-----------------------------------------------------------------------------
(* Building the flow.                                                      *)

LEMMA InitIInv == Init => IInv
<1> SUFFICES ASSUME Init PROVE IInv
  OBVIOUS
<1>1. /\ flow = <<>> /\ sent = 0 /\ pending = None /\ stage = "reading"
      /\ idxBatch = 1 /\ idxLast = 1 /\ batchSeqPrev = FALSE /\ numSubst = 0
  BY DEF Init, flow
<1>2. Len(flow) = 0 /\ flow \in Seq(ToSet(flow))
  BY <1>1, EmptySeq
<1>3. FlowOK(flow, sent)
  BY <1>1, <1>2 DEF FlowOK, ListOK, Contiguous, Counts
<1>4. Fresh(flow, idxBatch) /\ Paired(flow, idxBatch)
  BY <1>2 DEF Fresh, Paired
<1>5. idxBatch \in 1..(Len(flow) + 2)
  <2> HIDE DEF flow
  <2> QED  BY <1>1, <1>2
<1>6. Scalars
  <2>1. batchSeqPrev \in BOOLEAN
    BY <1>1, Zenon
  <2>2. /\ sent \in Nat /\ idxLast \in Nat \ {0} /\ numSubst \in Nat
        /\ pending \in [name : Functions, core : 1..sent, at : 0..sent] \cup {None}
        /\ stage \in {"reading", "filter", "bigrams", "args", "done", "raised"}
    BY <1>1
  <2> QED  BY <1>5, <2>1, <2>2 DEF Scalars
<1> QED  BY <1>1, <1>3, <1>4, <1>6 DEF IInv, PendingOK, LoopOK

LEMMA NewBatchFacts ==
  ASSUME sent \in Nat, NEW name, NEW args, NEW status \in Statuses
  PROVE  /\ NewAs(NewBatch(name, args, status), name, status, None, sent)
         /\ \A m \in 1..sent :
              NewAs([NewBatch(name, args, status) EXCEPT !.mate = m], name, status, m, sent)
<1> DEFINE b == NewBatch(name, args, status)
           n == sent + 1
<1>1. b \in Batches({name}, {args}, n)
  BY DEF NewBatch, Batches
<1>2. /\ b.name = name /\ b.status = status /\ b.m_occurrences = 1 /\ b.core = n
      /\ b.mate = None /\ b.from = n /\ b.to = n
  BY DEF NewBatch
<1> HIDE DEF b
<1>3. ASSUME NEW m \in 1..sent
      PROVE  NewAs([b EXCEPT !.mate = m], name, status, m, sent)
  <2> DEFINE c == [b EXCEPT !.mate = m]
  <2>1. m \in 1..(n + 1)
    OBVIOUS
  <2> HIDE DEF n
  <2>2. /\ c \in Batches({name}, {args}, n) /\ c.mate = m
        /\ c.name = b.name /\ c.status = b.status /\ c.m_occurrences = b.m_occurrences
        /\ c.core = b.core /\ c.from = b.from /\ c.to = b.to
    BY <1>1, <2>1 DEF Batches
  <2> HIDE DEF c
  <2>3. NewAs(c, name, status, m, sent)
    BY <1>2, <2>2 DEF NewAs, Batch, Single, n
  <2> QED  BY <2>3 DEF c
<1>4. NewAs(b, name, status, None, sent)
  BY <1>1, <1>2 DEF NewAs, Batch, Single
<1> QED  BY <1>3, <1>4 DEF b

(* While the log is read, the loops have not begun.                        *)
LEMMA ReadingKeeps ==
  ASSUME IInv, stage = "reading", stage' = stage, UNCHANGED loopVars,
         sent' \in Nat, FlowOK(flow', sent'), Fresh(flow', 1), Paired(flow', 1),
         pending' \in [name : Functions, core : 1..sent', at : 0..sent'] \cup {None},
         PendingOK'
  PROVE  IInv'
<1>1. idxBatch' = 1 /\ idxBatch = 1 /\ Scalars
  BY DEF IInv, loopVars
<1>2. Len(flow') \in Nat
  BY LenProperties DEF FlowOK, ListOK
<1>3. Scalars'
  BY <1>1, <1>2 DEF Scalars, loopVars
<1>4. LoopOK'
  BY DEF LoopOK
<1>5. stage' = "reading" /\ Fresh(flow', idxBatch') /\ Paired(flow', idxBatch')
  BY <1>1
<1> QED  BY <1>1, <1>3, <1>4, <1>5 DEF IInv

LEMMA CallKeeps ==
  ASSUME IInv, NEW f, NEW args, Call(f, args)
  PROVE  IInv'
<1> DEFINE b == NewBatch(f, args, "plain")
<1>1. /\ stage = "reading" /\ stage' = stage /\ UNCHANGED loopVars
      /\ flow' = Sent(flow, b) /\ sent' = sent + 1 /\ pending' = None
  BY DEF Call, Reading, flow
<1>2. /\ sent \in Nat /\ FlowOK(flow, sent) /\ Fresh(flow, 1) /\ Paired(flow, 1)
  BY <1>1 DEF IInv, Scalars
<1>3. NewAs(b, f, "plain", None, sent)
  BY <1>2, NewBatchFacts DEF Statuses
<1> HIDE DEF b
<1>4. SentTo(flow', flow, b, sent)
  BY <1>1, <1>2, <1>3, SentKeeps DEF NewAs, MergedAfter
<1> QED  BY <1>1, <1>2, <1>4, ReadingKeeps DEF SentTo, PendingOK

LEMMA FirstHalfKeeps ==
  ASSUME IInv, NEW f \in Functions, NEW args, FirstHalf(f, args)
  PROVE  IInv'
<1> DEFINE b == NewBatch(f, args, "unfinished")
           at == IF Len(flow') = Len(flow) THEN 0 ELSE Len(flow')
<1>1. /\ stage = "reading" /\ stage' = stage /\ UNCHANGED loopVars
      /\ flow' = Sent(flow, b) /\ sent' = sent + 1
      /\ pending' = [name |-> f, core |-> sent + 1, at |-> at]
  BY DEF FirstHalf, Reading, flow
<1>2. /\ sent \in Nat /\ FlowOK(flow, sent) /\ Fresh(flow, 1) /\ Paired(flow, 1)
  BY <1>1 DEF IInv, Scalars
<1>3. NewAs(b, f, "unfinished", None, sent)
  BY <1>2, NewBatchFacts DEF Statuses
<1> HIDE DEF b, at
<1>4. SentTo(flow', flow, b, sent)
  BY <1>1, <1>2, <1>3, SentKeeps DEF NewAs, MergedAfter
<1>5. /\ Len(flow') \in Nat /\ Len(flow') <= sent + 1 /\ Len(flow) \in Nat
  BY <1>2, <1>4, LenProperties DEF SentTo, FlowOK, ListOK
<1>6. at \in 0..(sent + 1)
  BY <1>2, <1>5 DEF at
<1>7. pending' \in [name : Functions, core : 1..sent', at : 0..sent']
  BY <1>1, <1>2, <1>6
<1>8. /\ Len(flow') # 0 /\ flow'[Len(flow')].name = f
  BY <1>3, <1>4 DEF SentTo, NewAs
<1>9. at = 0 => flow'[Len(flow')].core # sent + 1
  <2>1. Len(flow) # 0 => flow[Len(flow)].core \in 1..sent
    <3>1. Len(flow) # 0 => Batch(flow[Len(flow)], sent)
      BY <1>2, <1>5 DEF FlowOK, ListOK
    <3> QED  BY <1>2, <3>1, BatchFields
  <2>2. at = 0 => Len(flow') = Len(flow)
    BY <1>8 DEF at
  <2>3. at = 0 => Len(flow) # 0 /\ flow'[Len(flow')].core = flow[Len(flow)].core
    BY <1>4, <1>5, <2>2 DEF SentTo
  <2> QED  BY <1>2, <2>1, <2>3
<1>10. at # 0 => at = Len(flow') /\ Single(flow'[Len(flow')])
                  /\ flow'[Len(flow')].status = "unfinished"
  <2>1. at # 0 => at = Len(flow') /\ Len(flow') # Len(flow)
    BY DEF at
  <2>2. at # 0 => flow'[Len(flow')] = b
    BY <1>4, <2>1 DEF SentTo
  <2> QED  BY <1>3, <2>1, <2>2 DEF NewAs
<1>11. pending'.name = f /\ pending'.core = sent' /\ pending'.at = at
  BY <1>1
<1>12. PendingOK'
  BY <1>1, <1>8, <1>9, <1>10, <1>11 DEF PendingOK
<1> QED  BY <1>1, <1>2, <1>4, <1>7, <1>12, ReadingKeeps DEF SentTo

(* MergePopBatch marks the first half, if it is in the flow.               *)
LEMMA MatchedKeeps ==
  ASSUME IInv, stage = "reading", pending # None, NEW mate \in 1..(sent + 1) \cup {None}
  PROVE  LET new == IF pending.at = 0 THEN flow
                    ELSE ReplaceAt(flow, pending.at,
                                   [flow[pending.at] EXCEPT !.status = "matched", !.mate = mate])
         IN  /\ FlowOK(new, sent) /\ Fresh(new, 1) /\ Paired(new, 1) /\ Len(new) # 0
             /\ new[Len(new)].name = pending.name
             /\ new[Len(new)].core = sent => Single(new[Len(new)])
<1> DEFINE L == Len(flow)
           last == flow[L]
           c == [last EXCEPT !.status = "matched", !.mate = mate]
           new == ReplaceAt(flow, L, c)
<1>1. /\ sent \in Nat /\ FlowOK(flow, sent) /\ Fresh(flow, 1) /\ Paired(flow, 1)
      /\ L # 0 /\ last.name = pending.name
      /\ pending.at = 0 => last.core # sent
      /\ pending.at # 0 => pending.at = L /\ Single(last) /\ last.status = "unfinished"
  BY DEF IInv, Scalars, PendingOK
<1>2. CASE pending.at = 0
  BY <1>1, <1>2
<1>3. CASE pending.at # 0
  <2>1. L \in Nat /\ flow \in Seq(ToSet(flow)) /\ L \in 1..L
    BY <1>1, LenProperties DEF FlowOK, ListOK
  <2>2. Batch(last, sent) /\ Counted(last) /\ last.from = last.core
    BY <1>1, <2>1 DEF FlowOK, ListOK, Counts, Fresh
  <2>3. MatchedAs(c, last, mate, sent)
    <3> HIDE DEF last
    <3> QED  BY <1>1, <2>2, MatchedFacts
  <2> HIDE DEF c
  <2>4. SplicedTo(new, flow, L, L, c)
    BY <2>1, ReplacedFacts
  <2> HIDE DEF new
  <2>5. Batch(c, sent) /\ Counted(c) /\ c.from = last.from /\ c.to = last.to
    <3> HIDE DEF last
    <3> QED  BY <1>1, <1>3, <2>2, <2>3 DEF MatchedAs, Counted
  <2>6. FlowOK(new, sent)
    <3>1. L \in L..L
      BY <2>1
    <3> QED  BY <1>1, <2>1, <2>4, <2>5, <3>1, SplicedKeeps
  <2>7. Len(new) = L /\ new[L] = c /\ \A k \in 1..L : k < L => new[k] = flow[k]
    BY <2>1, <2>4 DEF SplicedTo
  <2> HIDE DEF L
  <2>8. Fresh(new, 1)
    <3> SUFFICES ASSUME NEW k \in 1..L
                 PROVE  new[k].from = new[k].core
      BY <2>7 DEF Fresh
    <3>1. CASE k < L
      <4>1. flow[k].from = flow[k].core
        BY <1>1, <2>1 DEF Fresh, L
      <4> QED  BY <2>7, <3>1, <4>1
    <3>2. CASE k = L
      BY <2>2, <2>3, <2>7, <3>2 DEF MatchedAs
    <3> QED  BY <2>1, <3>1, <3>2
  <2>9. Paired(new, 1)
    <3> SUFFICES ASSUME NEW k \in 1..(L - 1)
                 PROVE  MergedAfter(new[k], new[k + 1])
      BY <2>7 DEF Paired
    <3>0. k \in 1..L /\ k < L /\ k + 1 \in 1..L
      BY <2>1
    <3>1. CASE k + 1 < L
      <4>1. MergedAfter(flow[k], flow[k + 1])
        BY <1>1, <2>1, <3>0 DEF Paired, L
      <4> QED  BY <2>7, <3>0, <3>1, <4>1
    <3>2. CASE k + 1 = L
      <4>1. new[k + 1].status = "matched"
        BY <2>3, <2>7, <3>2 DEF MatchedAs
      <4> QED  BY <4>1 DEF MergedAfter
    <3> QED  BY <2>1, <3>1, <3>2
  <2>10. c.name = pending.name /\ Single(c)
    BY <1>1, <1>3, <2>3 DEF MatchedAs, Single
  <2>11. pending.at = L
    BY <1>1, <1>3
  <2> QED  BY <1>1, <1>3, <2>6, <2>7, <2>8, <2>9, <2>10, <2>11 DEF new, c
<1> QED  BY <1>2, <1>3

LEMMA SecondHalfKeeps ==
  ASSUME IInv, NEW args, SecondHalf(args)
  PROVE  IInv'
<1> DEFINE f == pending.name
           mate == IF f \in Unyielded THEN None ELSE sent + 1
           matched == IF pending.at = 0 THEN flow
                      ELSE ReplaceAt(flow, pending.at,
                                     [flow[pending.at] EXCEPT !.status = "matched", !.mate = mate])
           b == [NewBatch(f, args, "merged") EXCEPT !.mate = pending.core]
<1>1. /\ stage = "reading" /\ stage' = stage /\ UNCHANGED loopVars
      /\ pending # None /\ pending' = None
      /\ f \in Unyielded => flow' = matched /\ sent' = sent
      /\ f \notin Unyielded => flow' = Sent(matched, b) /\ sent' = sent + 1
  BY DEF SecondHalf, Reading, flow
<1>2. /\ sent \in Nat /\ pending.core = sent /\ pending.core \in 1..sent
  BY <1>1 DEF IInv, Scalars, PendingOK
<1>3. mate \in 1..(sent + 1) \cup {None}
  BY <1>2
<1>4. /\ FlowOK(matched, sent) /\ Fresh(matched, 1) /\ Paired(matched, 1) /\ Len(matched) # 0
      /\ matched[Len(matched)].name = f
      /\ matched[Len(matched)].core = sent => Single(matched[Len(matched)])
  <2> HIDE DEF mate
  <2> QED  BY <1>1, <1>3, MatchedKeeps
<1>5. NewAs(b, f, "merged", sent, sent)
  BY <1>2, NewBatchFacts DEF Statuses
<1> HIDE DEF matched, b, f
<1>6. sent # None
  BY <1>2, BatchFlowAssumption
<1>7. PendingOK'
  BY <1>1 DEF PendingOK
<1>8. CASE f \in Unyielded
  BY <1>1, <1>2, <1>4, <1>7, <1>8, ReadingKeeps
<1>9. CASE f \notin Unyielded
  <2>1. MergedAfter(matched[Len(matched)], b)
    BY <1>4, <1>5, <1>6 DEF NewAs, MergedAfter, OwnHalves
  <2>2. SentTo(Sent(matched, b), matched, b, sent)
    BY <1>2, <1>4, <1>5, <2>1, SentKeeps DEF NewAs
  <2> QED  BY <1>1, <1>2, <1>7, <1>9, <2>2, ReadingKeeps DEF SentTo
<1> QED  BY <1>8, <1>9

LEMMA EndOfLogKeeps ==
  ASSUME IInv, EndOfLog
  PROVE  IInv'
<1>1. /\ stage = "reading" /\ stage' = "filter" /\ idxBatch' = 2 /\ idxBatch = 1
      /\ flow' = flow /\ UNCHANGED <<sent, pending, idxLast, batchSeqPrev, numSubst>>
  BY DEF EndOfLog, flow, IInv
<1>2. FlowOK(flow, sent) /\ Fresh(flow, 1) /\ Paired(flow, 1) /\ Scalars
  BY <1>1 DEF IInv
<1>3. Len(flow) \in Nat
  BY <1>2, LenProperties DEF FlowOK, ListOK
<1>4. Fresh(flow, 2) /\ Paired(flow, 2)
  BY <1>2, <1>3 DEF Fresh, Paired
<1>5. Scalars'
  <2> HIDE DEF flow
  <2> QED  BY <1>1, <1>2, <1>3 DEF Scalars
<1>6. LoopOK'
  BY <1>1 DEF LoopOK
<1>7. FlowOK(flow', sent') /\ Fresh(flow', idxBatch') /\ Paired(flow', idxBatch')
  BY <1>1, <1>2, <1>4
<1>8. stage' # "reading" /\ stage' # "raised"
  BY <1>1
<1> QED  BY <1>5, <1>6, <1>7, <1>8 DEF IInv

-----------------------------------------------------------------------------
(* Rewriting the flow.                                                     *)

(* Once the log is read, an action that changes neither what was sent nor  *)
(* the call that is pending has only its list and its indices to justify.  *)
LEMMA RewritingKeeps ==
  ASSUME IInv, stage' \in {"filter", "bigrams", "args", "done"}, UNCHANGED <<sent, pending>>,
         FlowOK(flow', sent), LoopOK',
         stage' = "filter" => Fresh(flow', idxBatch') /\ Paired(flow', idxBatch'),
         idxBatch' \in 1..(Len(flow') + 2), idxLast' \in Nat \ {0},
         batchSeqPrev' \in BOOLEAN, numSubst' \in Nat
  PROVE  IInv'
<1>1. Scalars'
  <2> HIDE DEF flow
  <2>1. /\ sent \in Nat /\ sent' = sent /\ pending' = pending
        /\ pending \in [name : Functions, core : 1..sent, at : 0..sent] \cup {None}
    BY DEF IInv, Scalars
  <2>2. /\ sent' \in Nat
        /\ pending' \in [name : Functions, core : 1..sent', at : 0..sent'] \cup {None}
    BY <2>1
  <2> QED  BY <2>2 DEF Scalars
<1>2. FlowOK(flow', sent')
  OBVIOUS
<1> QED  BY <1>1, <1>2 DEF IInv

LEMMA FilterFacts ==
  ASSUME IInv, Filter
  PROVE  LET prev == flow[idxBatch - 1]
             seq  == flow[idxBatch]
             c    == [seq EXCEPT !.mate = None, !.from = prev.from]
         IN  /\ stage' = "filter" /\ idxBatch \in 2..Len(flow) /\ idxBatch' = idxBatch + 1
             /\ flow' = IF OwnHalves(prev, seq) THEN Spliced(flow, idxBatch - 1, idxBatch, c)
                        ELSE flow
             /\ OwnHalves(prev, seq) => Single(prev)
<1> DEFINE L == Len(flow)
           prev == flow[idxBatch - 1]
           seq == flow[idxBatch]
<1>1. /\ stage = "filter" /\ idxBatch <= L /\ idxBatch >= 2 /\ idxBatch \in 1..(L + 2)
      /\ FlowOK(flow, sent) /\ Paired(flow, idxBatch)
  BY DEF Filter, IInv, LoopOK, Scalars
<1>2. L \in Nat
  BY <1>1, LenProperties DEF FlowOK, ListOK
<1>3. /\ idxBatch \in 2..L /\ idxBatch - 1 \in 1..(L - 1) /\ (idxBatch - 1) + 1 = idxBatch
      /\ (idxBatch - 1) + 1 >= idxBatch
  <2> HIDE DEF L
  <2> QED  BY <1>1, <1>2
<1>4. MergedAfter(prev, seq)
  BY <1>1, <1>3 DEF Paired
<1>5. ~Inconsistent(prev, seq)
  BY <1>4 DEF Inconsistent, MergedAfter
<1>6. OwnHalves(prev, seq) => Single(prev)
  BY <1>4 DEF MergedAfter, OwnHalves
<1> QED  BY <1>1, <1>3, <1>5, <1>6 DEF Filter, flow

LEMMA FilterKeeps ==
  ASSUME IInv, Filter
  PROVE  IInv'
<1> DEFINE L == Len(flow)
           x == idxBatch
           prev == flow[x - 1]
           seq == flow[x]
           c == [seq EXCEPT !.mate = None, !.from = prev.from]
           new == Spliced(flow, x - 1, x, c)
<1>1. /\ stage = "filter" /\ FlowOK(flow, sent) /\ Fresh(flow, x) /\ Paired(flow, x)
      /\ sent \in Nat /\ idxLast \in Nat \ {0} /\ batchSeqPrev \in BOOLEAN /\ numSubst \in Nat
      /\ UNCHANGED <<sent, pending, idxLast, batchSeqPrev, numSubst>>
  BY DEF Filter, IInv, Scalars
<1>2. /\ stage' = "filter" /\ x \in 2..L /\ x' = x + 1
      /\ flow' = IF OwnHalves(prev, seq) THEN new ELSE flow
      /\ OwnHalves(prev, seq) => Single(prev)
  BY FilterFacts
<1>3. L \in Nat /\ flow \in Seq(ToSet(flow)) /\ x \in Nat /\ x >= 2 /\ x <= L
  BY <1>1, <1>2, LenProperties DEF FlowOK, ListOK
<1>4. LoopOK'
  BY <1>2, <1>3 DEF LoopOK
<1>5. idxLast' \in Nat \ {0} /\ batchSeqPrev' \in BOOLEAN /\ numSubst' \in Nat
  BY <1>1
<1>6. CASE ~OwnHalves(prev, seq)
  <2>1. flow' = flow
    BY <1>2, <1>6
  <2>2. x' \in 1..(L + 2)
    <3> HIDE DEF L, x
    <3> QED  BY <1>2, <1>3
  <2>3. Fresh(flow, x + 1) /\ Paired(flow, x + 1)
    BY <1>1, <1>3 DEF Fresh, Paired
  <2> HIDE DEF flow
  <2> QED  BY <1>1, <1>2, <1>4, <1>5, <2>1, <2>2, <2>3, RewritingKeeps
<1>7. CASE OwnHalves(prev, seq)
  <2>1. flow' = new /\ Single(prev)
    BY <1>2, <1>7
  <2>2. x - 1 \in 1..L /\ x \in 1..L /\ x \in (x - 1)..L /\ x - (x - 1) = 1 /\ (x - 1) + 1 = x
        /\ x - 1 \in 1..(L - 1)
    <3> HIDE DEF L, x
    <3> QED  BY <1>3
  <2>3. /\ Batch(prev, sent) /\ Batch(seq, sent) /\ Counted(seq) /\ prev.to + 1 = seq.from
        /\ seq.from = seq.core
    BY <1>1, <1>3, <2>2 DEF FlowOK, ListOK, Counts, Contiguous, Fresh
  <2>4. FilteredAs(c, seq, prev.from, sent)
    <3> HIDE DEF seq, prev
    <3> QED  BY <1>1, <2>3, BatchFields, FilteredFacts
  <2>5. Counted(c)
    <3> HIDE DEF c, seq, prev
    <3>1. /\ prev.from \in Nat /\ prev.core \in Nat /\ prev.to \in Nat
          /\ seq.from \in Nat /\ seq.to \in Nat /\ seq.core \in Nat /\ seq.m_occurrences \in Nat
      BY <1>1, <2>3, BatchFields
    <3>2. seq.status = "merged" /\ prev.from = prev.to
      BY <1>7, <2>1 DEF OwnHalves, Single
    <3>3. seq.to - seq.from + 1 = seq.m_occurrences
      BY <2>3, <3>1, <3>2 DEF Counted
    <3>4. c.from = prev.from /\ c.to = seq.to /\ c.core = seq.core /\ c.m_occurrences = seq.m_occurrences
      BY <2>4 DEF FilteredAs
    <3>5. prev.from + 1 = seq.from /\ prev.from < seq.core
      BY <2>3, <3>1, <3>2
    <3>6. seq.to - prev.from + 1 = seq.m_occurrences + 1
      BY <3>1, <3>3, <3>5
    <3> QED  BY <3>4, <3>5, <3>6 DEF Counted
  <2> HIDE DEF c
  <2>6. SplicedTo(new, flow, x - 1, x, c)
    BY <1>3, <2>2, SplicedFacts
  <2>7. FlowOK(new, sent)
    BY <1>1, <2>2, <2>4, <2>5, <2>6, SplicedKeeps DEF FilteredAs
  <2> HIDE DEF new
  <2>8. Len(new) = L - 1 /\ \A k \in 1..(L - 1) : k > x - 1 => new[k] = flow[k + 1]
    BY <2>2, <2>6 DEF SplicedTo
  <2> HIDE DEF L, x
  <2>9. Fresh(new, x + 1)
    <3> SUFFICES ASSUME NEW k \in 1..(L - 1), k >= x + 1
                 PROVE  new[k].from = new[k].core
      BY <2>8 DEF Fresh
    <3>1. k + 1 \in 1..L /\ k + 1 >= x /\ k > x - 1
      BY <1>3
    <3>2. flow[k + 1].from = flow[k + 1].core
      BY <1>1, <3>1 DEF Fresh, L
    <3> QED  BY <2>8, <3>1, <3>2
  <2>10. Paired(new, x + 1)
    <3> SUFFICES ASSUME NEW k \in 1..((L - 1) - 1), k + 1 >= x + 1
                 PROVE  MergedAfter(new[k], new[k + 1])
      BY <2>8 DEF Paired
    <3>1. /\ k + 1 \in 1..(L - 1) /\ k \in 1..(L - 1) /\ (k + 1) + 1 >= x
          /\ k > x - 1 /\ k + 1 > x - 1
      BY <1>3
    <3>2. MergedAfter(flow[k + 1], flow[(k + 1) + 1])
      BY <1>1, <3>1 DEF Paired, L
    <3> QED  BY <2>8, <3>1, <3>2
  <2>11. x' \in 1..(Len(new) + 2)
    BY <1>2, <1>3, <2>8
  <2>12. /\ FlowOK(flow', sent) /\ Fresh(flow', x') /\ Paired(flow', x')
         /\ x' \in 1..(Len(flow') + 2)
    BY <1>2, <2>1, <2>7, <2>9, <2>10, <2>11
  <2> QED  BY <1>1, <1>2, <1>4, <1>5, <2>12, RewritingKeeps DEF x
<1> QED  BY <1>6, <1>7

LEMMA SequenceFacts ==
  ASSUME NEW n \in Nat, NEW list, FlowOK(list, n), NEW i \in 1..Len(list), NEW j \in i..Len(list)
  PROVE  LET b == BatchLetSequence(SubSeq(list, i, j))
         IN  /\ Batch(b, n) /\ Counted(b) /\ b.status = "sequence"
             /\ b.from = list[i].from /\ b.to = list[j].to
<1> DEFINE arr == SubSeq(list, i, j)
           b == BatchLetSequence(arr)
           S == ToSet(list)
<1>1. /\ Len(list) \in Nat /\ \A k \in 1..Len(list) : list[k] \in S
      /\ Batch(list[i], n) /\ Batch(list[j], n)
  <2>1. Len(list) \in Nat /\ DOMAIN list = 1..Len(list)
    BY LenProperties DEF FlowOK, ListOK
  <2> QED  BY <2>1 DEF FlowOK, ListOK, ToSet
<1>2. i \in Int /\ j \in Int /\ i <= j
  BY <1>1
<1>3. Len(arr) = (j - i) + 1 /\ arr[1] = list[i] /\ arr[Len(arr)] = list[j]
  <2> HIDE DEF S
  <2>1. \A k \in i..j : list[k] \in S
    BY <1>1
  <2>2. /\ Len(arr) = IF i <= j THEN j - i + 1 ELSE 0
        /\ \A k \in 1..(j - i + 1) : arr[k] = list[i + k - 1]
    BY <1>2, <2>1, SubSeqProperties
  <2> HIDE DEF arr
  <2>3. 1 \in 1..(j - i + 1) /\ i + 1 - 1 = i
    BY <1>2
  <2>4. j - i + 1 \in 1..(j - i + 1) /\ i + (j - i + 1) - 1 = j
    BY <1>2
  <2>5. Len(arr) = j - i + 1
    BY <1>2, <2>2
  <2> QED  BY <2>2, <2>3, <2>4, <2>5
<1> HIDE DEF arr
<1>4. /\ b.status = "sequence" /\ b.from = list[i].from /\ b.to = list[j].to
      /\ b.m_occurrences = 1 /\ b.core = list[i].core /\ b.mate = None
  BY <1>3 DEF BatchLetSequence, Last
<1>5. list[i].from \in 1..n /\ list[j].to \in 1..n /\ list[i].core \in 1..n
  BY <1>1, BatchFields
<1>6. Batch(b, n)
  <2> DEFINE names == [k \in DOMAIN arr |-> arr[k].name]
             args == argsArray(arr)
             from == list[i].from
             to == list[j].to
             core == list[i].core
  <2>1. b = [name |-> names, args |-> args, status |-> "sequence", m_occurrences |-> 1,
             core |-> core, mate |-> None, from |-> from, to |-> to]
    BY <1>3 DEF BatchLetSequence, Last
  <2>2. from \in 1..n /\ to \in 1..n /\ core \in 1..n
    BY <1>5
  <2> HIDE DEF b, names, args, from, to, core
  <2>3. b \in Batches({names}, {args}, n)
    BY <2>1, <2>2 DEF Batches, Statuses
  <2> QED  BY <2>3 DEF Batch
<1> QED  BY <1>4, <1>6 DEF Counted, b, arr

LEMMA ReplacedBySequence ==
  ASSUME NEW n \in Nat, NEW list, FlowOK(list, n), NEW i \in 1..Len(list), NEW j \in i..Len(list)
  PROVE  SequencedTo(Spliced(list, i, j, BatchLetSequence(SubSeq(list, i, j))), list, i, j, n)
<1> DEFINE b == BatchLetSequence(SubSeq(list, i, j))
           new == Spliced(list, i, j, b)
<1>1. /\ Batch(b, n) /\ Counted(b) /\ b.status = "sequence"
      /\ b.from = list[i].from /\ b.to = list[j].to
  BY SequenceFacts
<1>2. Len(list) \in Nat /\ list \in Seq(ToSet(list))
  BY LenProperties DEF FlowOK, ListOK
<1> HIDE DEF b
<1>3. SplicedTo(new, list, i, j, b)
  BY <1>2, SplicedFacts
<1> HIDE DEF new
<1>4. FlowOK(new, n)
  BY <1>1, <1>3, SplicedKeeps
<1>5. Len(new) = Len(list) - (j - i)
  BY <1>3 DEF SplicedTo
<1>6. i \in 1..Len(new)
  BY <1>2, <1>5
<1>7. new[i] = b
  BY <1>3, <1>6 DEF SplicedTo
<1> QED  BY <1>1, <1>4, <1>5, <1>7 DEF new, b, SequencedTo

LEMMA EndOfFilterKeeps ==
  ASSUME IInv, EndOfFilter
  PROVE  IInv'
<1>1. /\ stage' = "bigrams" /\ idxBatch' = 1 /\ batchSeqPrev' = FALSE /\ numSubst' = 0
      /\ flow' = flow /\ UNCHANGED <<sent, pending, idxLast>>
  BY DEF EndOfFilter, BeginBigrams, flow
<1>2. FlowOK(flow, sent) /\ idxLast \in Nat \ {0} /\ Len(flow) \in Nat
  BY LenProperties DEF IInv, Scalars, FlowOK, ListOK
<1>3. batchSeqPrev' \in BOOLEAN
  BY <1>1, Zenon
<1>4. LoopOK'
  BY <1>1 DEF LoopOK
<1> HIDE DEF flow
<1>5. idxBatch' \in 1..(Len(flow') + 2) /\ numSubst' \in Nat
  BY <1>1, <1>2
<1> QED  BY <1>1, <1>2, <1>3, <1>4, <1>5, RewritingKeeps

LEMMA EndOfBigramsKeeps ==
  ASSUME IInv, EndOfBigrams
  PROVE  IInv'
<1>1. flow' = flow /\ UNCHANGED <<sent, pending>>
  BY DEF EndOfBigrams, BeginArgs, BeginBigrams, flow
<1>2. /\ FlowOK(flow, sent) /\ idxLast \in Nat \ {0} /\ Len(flow) \in Nat
      /\ batchSeqPrev \in BOOLEAN /\ numSubst \in Nat
  BY LenProperties DEF IInv, Scalars, FlowOK, ListOK
<1>3. CASE numSubst = 0
  <2>1. /\ stage' = "args" /\ idxBatch' = 2 /\ idxLast' = 1
        /\ UNCHANGED <<batchSeqPrev, numSubst>>
    BY <1>3 DEF EndOfBigrams, BeginArgs
  <2>2. LoopOK'
    BY <2>1 DEF LoopOK
  <2> HIDE DEF flow
  <2>3. idxBatch' \in 1..(Len(flow') + 2) /\ idxLast' \in Nat \ {0}
    BY <1>1, <1>2, <2>1
  <2> QED  BY <1>1, <1>2, <2>1, <2>2, <2>3, RewritingKeeps
<1>4. CASE numSubst # 0
  <2>1. /\ stage' = "bigrams" /\ idxBatch' = 1 /\ batchSeqPrev' = FALSE /\ numSubst' = 0
        /\ UNCHANGED idxLast
    BY <1>4 DEF EndOfBigrams, BeginBigrams
  <2>2. LoopOK'
    BY <2>1 DEF LoopOK
  <2>3. batchSeqPrev' \in BOOLEAN
    BY <2>1, Zenon
  <2> HIDE DEF flow
  <2>4. idxBatch' \in 1..(Len(flow') + 2) /\ numSubst' \in Nat
    BY <1>1, <1>2, <2>1
  <2> QED  BY <1>1, <1>2, <2>1, <2>2, <2>3, <2>4, RewritingKeeps
<1> QED  BY <1>3, <1>4

LEMMA BigramKeeps ==
  ASSUME IInv, Bigram
  PROVE  IInv'
<1> DEFINE L == Len(flow)
           x == idxBatch
           b == BatchLetSequence(SubSeq(flow, x, x + 1))
           prev == flow[x - 1]
           periodic == batchSeqPrev /\ SameCall(prev, b)
           c == [prev EXCEPT !.m_occurrences = @ + 1, !.to = b.to]
<1>1. /\ stage = "bigrams" /\ stage' = "bigrams" /\ x < L /\ x \in 1..(L + 2)
      /\ UNCHANGED <<sent, pending, idxLast>>
      /\ FlowOK(flow, sent) /\ sent \in Nat /\ numSubst \in Nat /\ idxLast \in Nat \ {0}
      /\ batchSeqPrev => x \in 2..(L + 1) /\ prev.status = "sequence"
  BY DEF Bigram, IInv, Scalars, LoopOK
<1>2. L \in Nat /\ flow \in Seq(ToSet(flow))
  BY <1>1, LenProperties DEF FlowOK, ListOK
<1>3. x \in 1..L /\ x + 1 \in x..L /\ x \in Nat /\ (x + 1) - x = 1
  <2> HIDE DEF L, x
  <2> QED  BY <1>1, <1>2
<1>4. \/ numSubst' = numSubst + 1
      \/ numSubst' = numSubst
  BY DEF Bigram
<1>5. numSubst' \in Nat /\ idxLast' \in Nat \ {0}
  BY <1>1, <1>4
<1>6. CASE SignatureForRepetitions(flow, x) \notin mapOccurences
  <2>1. flow' = flow /\ x' = x + 1 /\ batchSeqPrev' = FALSE
    BY <1>6 DEF Bigram, flow
  <2>2. LoopOK'
    BY <1>1, <2>1 DEF LoopOK
  <2>3. batchSeqPrev' \in BOOLEAN
    BY <2>1, Zenon
  <2>4. x' \in 1..(Len(flow') + 2)
    <3> HIDE DEF x, flow
    <3> QED  BY <1>1, <1>2, <1>3, <2>1
  <2>5. FlowOK(flow', sent)
    BY <1>1, <2>1
  <2> QED  BY <1>1, <1>5, <2>2, <2>3, <2>4, <2>5, RewritingKeeps DEF x
<1>7. CASE SignatureForRepetitions(flow, x) \in mapOccurences /\ ~periodic
  <2> DEFINE new == Spliced(flow, x, x + 1, b)
  <2>1. flow' = new /\ x' = x + 1 /\ batchSeqPrev' = TRUE
    BY <1>7 DEF Bigram, flow
  <2>2. FlowOK(new, sent) /\ Len(new) = L - ((x + 1) - x) /\ new[x].status = "sequence"
    <3>1. SequencedTo(new, flow, x, x + 1, sent)
      BY <1>1, <1>3, ReplacedBySequence
    <3> QED  BY <3>1 DEF SequencedTo
  <2> HIDE DEF new, L, x
  <2>3. x + 1 \in 2..(Len(new) + 1) /\ (x + 1) - 1 = x
    BY <1>1, <1>2, <1>3, <2>2
  <2>4. LoopOK'
    BY <1>1, <2>1, <2>2, <2>3 DEF LoopOK, x
  <2>5. batchSeqPrev' \in BOOLEAN
    BY <2>1, Zenon
  <2>6. x' \in 1..(Len(flow') + 2)
    BY <1>2, <1>3, <2>1, <2>2, <2>3
  <2>7. FlowOK(flow', sent)
    BY <2>1, <2>2
  <2> QED  BY <1>1, <1>5, <2>4, <2>5, <2>6, <2>7, RewritingKeeps DEF x
<1>8. CASE SignatureForRepetitions(flow, x) \in mapOccurences /\ periodic
  <2> DEFINE new == Spliced(flow, x - 1, x + 1, c)
  <2>1. flow' = new /\ x' = x /\ batchSeqPrev' = TRUE
    BY <1>8 DEF Bigram, flow
  <2>2. Batch(b, sent) /\ b.to = flow[x + 1].to
    BY <1>1, <1>3, SequenceFacts
  <2>3. x >= 2 /\ prev.status = "sequence"
    BY <1>1, <1>8
  <2>4. x - 1 \in 1..L /\ x + 1 \in (x - 1)..L /\ (x + 1) - (x - 1) = 2
    <3> HIDE DEF L, x
    <3> QED  BY <1>2, <1>3, <2>3
  <2>5. Batch(prev, sent)
    BY <1>1, <2>4 DEF FlowOK, ListOK
  <2>6. CountedAs(c, prev, b.to, sent)
    <3>1. b.to \in 1..sent
      BY <1>1, <2>2, BatchFields
    <3> HIDE DEF b, prev
    <3> QED  BY <1>1, <2>5, <3>1, CountedFacts
  <2>7. Batch(c, sent) /\ Counted(c) /\ c.from = prev.from /\ c.to = flow[x + 1].to
        /\ c.status = "sequence"
    <3> HIDE DEF c, b
    <3> QED  BY <2>2, <2>3, <2>6 DEF CountedAs, Counted
  <2> HIDE DEF c
  <2>8. SplicedTo(new, flow, x - 1, x + 1, c)
    BY <1>2, <2>4, SplicedFacts
  <2> HIDE DEF new
  <2>9. FlowOK(new, sent)
    BY <1>1, <2>4, <2>7, <2>8, SplicedKeeps
  <2>10. Len(new) = L - 2 /\ (x - 1 \in 1..Len(new) => new[x - 1] = c)
    BY <2>4, <2>8 DEF SplicedTo
  <2> HIDE DEF L, x
  <2>11. x \in 2..(Len(new) + 1) /\ x - 1 \in 1..Len(new)
    BY <1>1, <1>2, <1>3, <2>3, <2>10
  <2>12. LoopOK'
    BY <1>1, <2>1, <2>7, <2>10, <2>11 DEF LoopOK, x
  <2>13. batchSeqPrev' \in BOOLEAN
    BY <2>1, Zenon
  <2>14. x' \in 1..(Len(flow') + 2)
    BY <1>2, <2>1, <2>10, <2>11
  <2>15. FlowOK(flow', sent)
    BY <2>1, <2>9
  <2> QED  BY <1>1, <1>5, <2>12, <2>13, <2>14, <2>15, RewritingKeeps DEF x
<1> QED  BY <1>6, <1>7, <1>8

LEMMA GrowsKeeps ==
  ASSUME IInv, Grows
  PROVE  IInv'
<1>1. /\ stage = "args" /\ stage' = "args" /\ flow' = flow /\ idxBatch' = idxBatch + 1
      /\ idxLast' = idxLast \/ idxLast' = idxLast + 1
      /\ UNCHANGED <<sent, pending, batchSeqPrev, numSubst>> /\ idxBatch <= Len(flow)
  BY DEF Grows, flow
<1>2. /\ FlowOK(flow, sent) /\ idxLast \in Nat \ {0} /\ Len(flow) \in Nat /\ idxLast < idxBatch
      /\ batchSeqPrev \in BOOLEAN /\ numSubst \in Nat /\ idxBatch \in 1..(Len(flow) + 2)
  BY <1>1, LenProperties DEF IInv, Scalars, LoopOK, FlowOK, ListOK
<1> HIDE DEF flow
<1>3. /\ idxBatch' \in 1..(Len(flow') + 2) /\ idxLast' \in Nat \ {0} /\ idxLast' < idxBatch'
  BY <1>1, <1>2
<1>4. LoopOK'
  BY <1>1, <1>3 DEF LoopOK
<1>5. FlowOK(flow', sent) /\ batchSeqPrev' \in BOOLEAN /\ numSubst' \in Nat
  BY <1>1, <1>2
<1> QED  BY <1>1, <1>3, <1>4, <1>5, RewritingKeeps

LEMMA ClusterizeKeeps ==
  ASSUME IInv, Clusterize
  PROVE  IInv'
<1> DEFINE L == Len(flow)
           x == idxBatch
           i == idxLast
           new == Spliced(flow, i, x - 1, BatchLetSequence(SubSeq(flow, i, x - 1)))
<1>1. /\ stage = "args" /\ stage' = "args" /\ idxLast' = i + 1 /\ x' = i + 2
      /\ flow' = IF x > i + 1 THEN new ELSE flow
      /\ UNCHANGED <<sent, pending, batchSeqPrev, numSubst>> /\ x <= L + 1
  BY DEF Clusterize, Clusterized, flow
<1>2. /\ FlowOK(flow, sent) /\ i \in Nat \ {0} /\ L \in Nat /\ i < x /\ sent \in Nat
      /\ batchSeqPrev \in BOOLEAN /\ numSubst \in Nat /\ x \in 1..(L + 2)
  BY <1>1, LenProperties DEF IInv, Scalars, LoopOK, FlowOK, ListOK
<1>3. FlowOK(flow', sent) /\ i + 2 \in 1..(Len(flow') + 2)
  <2>1. CASE x > i + 1
    <3>1. i \in 1..L /\ x - 1 \in i..L
      <4> HIDE DEF L, x, i
      <4> QED  BY <1>1, <1>2, <2>1
    <3>2. SequencedTo(new, flow, i, x - 1, sent)
      BY <1>2, <3>1, ReplacedBySequence
    <3>3. flow' = new
      BY <1>1, <2>1
    <3>4. FlowOK(flow', sent) /\ Len(flow') = L - ((x - 1) - i)
      BY <3>2, <3>3 DEF SequencedTo
    <3> HIDE DEF flow, L, x, i
    <3> QED  BY <1>1, <1>2, <3>4
  <2>2. CASE ~(x > i + 1)
    <3>1. flow' = flow
      BY <1>1, <2>2
    <3> HIDE DEF flow, x, i
    <3> QED  BY <1>1, <1>2, <2>2, <3>1
  <2> QED  BY <2>1, <2>2
<1>4. idxBatch' \in 1..(Len(flow') + 2) /\ idxLast' \in Nat \ {0} /\ idxLast' < idxBatch'
  BY <1>1, <1>2, <1>3
<1>5. LoopOK'
  BY <1>1, <1>4 DEF LoopOK
<1>6. batchSeqPrev' \in BOOLEAN /\ numSubst' \in Nat
  BY <1>1, <1>2
<1> QED  BY <1>1, <1>3, <1>4, <1>5, <1>6, RewritingKeeps

LEMMA EndOfArgsKeeps ==
  ASSUME IInv, EndOfArgs
  PROVE  IInv'
<1>1. stage' = "done" /\ flow' = flow /\ UNCHANGED <<sent, pending, loopVars>>
  BY DEF EndOfArgs, flow
<1>2. FlowOK(flow, sent) /\ Scalars
  BY DEF IInv
<1>3. LoopOK'
  BY <1>1 DEF LoopOK
<1>4. /\ FlowOK(flow', sent) /\ idxBatch' \in 1..(Len(flow') + 2) /\ idxLast' \in Nat \ {0}
      /\ batchSeqPrev' \in BOOLEAN /\ numSubst' \in Nat
  BY <1>1, <1>2 DEF Scalars, loopVars
<1> QED  BY <1>1, <1>3, <1>4, RewritingKeeps

-----------------------------------------------------------------------------
(* The theorems.                                                           *)

LEMMA NextIInv == IInv /\ [Next]_vars => IInv'
<1> SUFFICES ASSUME IInv, [Next]_vars
             PROVE  IInv'
  OBVIOUS
<1>1. CASE UNCHANGED vars
  <2>1. /\ flow' = flow /\ UNCHANGED <<sent, pending, stage, idxBatch, idxLast, batchSeqPrev, numSubst>>
    BY <1>1 DEF vars, loopVars, flow
  <2> QED  BY <2>1 DEF IInv, Scalars, LoopOK, PendingOK
<1>2. ASSUME NEW call \in Calls, Call(call[1], call[2])
      PROVE  IInv'
  BY <1>2, CallKeeps
<1>3. ASSUME NEW call \in Calls, FirstHalf(call[1], call[2])
      PROVE  IInv'
  <2>1. call[1] \in Functions
    BY BatchFlowAssumption
  <2> QED  BY <1>3, <2>1, FirstHalfKeeps
<1>4. ASSUME NEW args \in ArgLists, SecondHalf(args)
      PROVE  IInv'
  BY <1>4, SecondHalfKeeps
<1>5. CASE EndOfLog
  BY <1>5, EndOfLogKeeps
<1>6. CASE Filter
  BY <1>6, FilterKeeps
<1>7. CASE EndOfFilter
  BY <1>7, EndOfFilterKeeps
<1>8. CASE Bigram
  BY <1>8, BigramKeeps
<1>9. CASE EndOfBigrams
  BY <1>9, EndOfBigramsKeeps
<1>10. CASE Grows
  BY <1>10, GrowsKeeps
<1>11. CASE Clusterize
  BY <1>11, ClusterizeKeeps
<1>12. CASE EndOfArgs
  BY <1>12, EndOfArgsKeeps
<1> QED  BY <1>1, <1>2, <1>3, <1>4, <1>5, <1>6, <1>7, <1>8, <1>9, <1>10, <1>11, <1>12
         DEF Next, FactorizeOneFlow

(* The invariant holds in every reachable state, whatever the calls of the *)
(* process and the number of them.                                         *)
THEOREM InvariantHolds == Spec => []IInv
BY InitIInv, NextIInv, PTL DEF Spec

(* A batch of the flow is a record as BatchLetBase makes them, and the     *)
(* indices of the loops stay within the list that is edited.               *)
THEOREM TypeCorrect == Spec => []TypeOK
<1>1. IInv => TypeOK
  <2> SUFFICES ASSUME IInv PROVE TypeOK
    OBVIOUS
  <2> DEFINE T == [name : {b.name : b \in ToSet(flow)}, args : {b.args : b \in ToSet(flow)},
                   status : Statuses, m_occurrences : Nat \ {0}, core : 1..sent,
                   mate : 1..(sent + 1) \cup {None}, from : 1..sent, to : 1..sent]
  <2>1. /\ flow \in Seq(ToSet(flow)) /\ Len(flow) \in Nat /\ DOMAIN flow = 1..Len(flow)
        /\ \A k \in 1..Len(flow) : Batch(flow[k], sent)
        /\ Scalars
    BY LenProperties DEF IInv, FlowOK, ListOK
  <2>2. ASSUME NEW b \in ToSet(flow)
        PROVE  b \in T
    <3>1. PICK k \in 1..Len(flow) : b = flow[k]
      BY <2>1 DEF ToSet
    <3>2. PICK N, A : b \in Batches(N, A, sent)
      BY <2>1, <3>1 DEF Batch
    <3>3. b.name \in {c.name : c \in ToSet(flow)} /\ b.args \in {c.args : c \in ToSet(flow)}
      OBVIOUS
    <3> DEFINE N1 == {c.name : c \in ToSet(flow)}
               A1 == {c.args : c \in ToSet(flow)}
    <3> HIDE DEF N1, A1
    <3>4. b \in Batches(N1, A1, sent)
      BY <3>2, <3>3 DEF Batches, N1, A1
    <3> QED  BY <3>4 DEF Batches, N1, A1
  <2> HIDE DEF T
  <2>3. flow \in Seq(T)
    BY <2>1, <2>2, SeqMonotonic
  <2> QED  BY <2>1, <2>3 DEF TypeOK, Scalars, T
<1> QED  BY <1>1, InvariantHolds, PTL

(* The batches stand for all the calls sent to the flow, in order,         *)
(* whatever FilterMatchedBatches and the two factorisations replaced.      *)
THEOREM NoCallIsLost == Spec => []NothingLost
<1>1. IInv => NothingLost
  <2> SUFFICES ASSUME IInv PROVE NothingLost
    OBVIOUS
  <2>1. /\ Contiguous(flow, sent) /\ Len(flow) \in Nat /\ Len(flow) <= sent /\ sent \in Nat
        /\ flow = <<>> <=> Len(flow) = 0
    BY LenProperties, EmptySeq DEF IInv, Scalars, FlowOK, ListOK
  <2> QED  BY <2>1 DEF NothingLost, Contiguous, Last
<1> QED  BY <1>1, InvariantHolds, PTL

(* The sanity checks of FilterMatchedBatches never raise.                  *)
THEOREM SanityChecksHold == Spec => []NeverInconsistent
<1>1. IInv => NeverInconsistent
  BY DEF IInv, NeverInconsistent
<1> QED  BY <1>1, InvariantHolds, PTL

(* A batch that was not made by a factorisation is counted as many times   *)
(* as its call was sent, whatever first half was removed.                  *)
THEOREM OccurrencesAreExact == Spec => []CountsAreExact
<1>1. IInv => CountsAreExact
  BY DEF IInv, FlowOK, Counts, Counted, CountsAreExact
<1> QED  BY <1>1, InvariantHolds, PTL

(* FilterMatchedBatches only removes the first half of the next batch.     *)
THEOREM FirstHalvesOnly == Spec => OnlyFirstHalfRemoved
<1> DEFINE prev == flow[idxBatch - 1]
           Removed == stage = "filter" /\ Len(flow') < Len(flow) =>
                        prev.from = prev.core /\ prev.to = prev.core /\ prev.m_occurrences = 1
<1>1. IInv /\ [Next]_vars => [Removed]_vars
  <2> SUFFICES ASSUME IInv, Next, stage = "filter", Len(flow') < Len(flow)
               PROVE  prev.from = prev.core /\ prev.to = prev.core /\ prev.m_occurrences = 1
    OBVIOUS
  <2>0. Len(flow) \in Nat
    BY LenProperties DEF IInv, FlowOK, ListOK
  <2>1. flow' # flow
    BY <2>0
  <2>2. Filter
    BY <2>1 DEF Next, FactorizeOneFlow, Call, FirstHalf, SecondHalf, Reading, EndOfLog, EndOfFilter,
                BeginBigrams, Bigram, EndOfBigrams, Grows, Clusterize, EndOfArgs, flow
  <2>3. OwnHalves(prev, flow[idxBatch])
    BY <2>1, <2>2, FilterFacts
  <2>4. Single(prev)
    BY <2>2, <2>3, FilterFacts
  <2> QED  BY <2>4 DEF Single
<1>2. [][Removed]_vars => OnlyFirstHalfRemoved
  BY PTL DEF OnlyFirstHalfRemoved
<1> QED  BY <1>1, <1>2, InvariantHolds, PTL DEF Spec

-----------------------------------------------------------------------------
(* The runs of calls with the same arguments.                              *)

Different(b, c) ==
  b.status # "sequence" /\ c.status # "sequence" /\ b.args # <<>> => b.args # c.args

(* No batch before m is left beside another with the same arguments.       *)
Grouped(list, m) ==
  \A k \in 1..(Len(list) - 1) : k < m => Different(list[k], list[k + 1])

(* Behind idxLast the runs are grouped.  Either the run at idxLast has just *)
(* begun, or the walk is within the list: it cannot end before the run.    *)
GroupInv ==
  /\ stage = "args" => /\ Grouped(flow, idxLast)
                       /\ idxBatch = idxLast + 1 \/ idxBatch <= Len(flow) + 1
  /\ stage = "done" => Grouped(flow, Len(flow))

LEMMA FlowLength ==
  ASSUME IInv
  PROVE  /\ Len(flow) \in Nat /\ flow \in Seq(ToSet(flow)) /\ sent \in Nat
         /\ idxBatch \in Nat /\ idxLast \in Nat \ {0} /\ numSubst \in Nat
<1>1. Len(flow) \in Nat /\ flow \in Seq(ToSet(flow))
  BY LenProperties DEF IInv, FlowOK, ListOK
<1>2. /\ sent \in Nat /\ idxBatch \in 1..(Len(flow) + 2) /\ idxLast \in Nat \ {0}
      /\ numSubst \in Nat
  BY DEF IInv, Scalars
<1> HIDE DEF flow
<1> QED  BY <1>1, <1>2

LEMMA GroupedSpliced ==
  ASSUME NEW list, Len(list) \in Nat, NEW i \in 1..Len(list), NEW j \in i..Len(list),
         NEW b, b.status = "sequence", NEW new, SplicedTo(new, list, i, j, b), Grouped(list, i)
  PROVE  Grouped(new, i + 1)
<1>1. /\ Len(new) = Len(list) - (j - i)
      /\ \A k \in 1..Len(new) : (k < i => new[k] = list[k]) /\ (k = i => new[k] = b)
  BY DEF SplicedTo
<1> SUFFICES ASSUME NEW k \in 1..(Len(new) - 1), k < i + 1
             PROVE  Different(new[k], new[k + 1])
  BY DEF Grouped
<1>2. k \in 1..Len(new) /\ k + 1 \in 1..Len(new) /\ k \in 1..(Len(list) - 1)
  BY <1>1
<1>3. CASE k = i
  BY <1>1, <1>2, <1>3 DEF Different
<1>4. CASE k + 1 = i
  BY <1>1, <1>2, <1>4 DEF Different
<1>5. CASE k + 1 < i
  <2>1. new[k] = list[k] /\ new[k + 1] = list[k + 1] /\ k < i
    BY <1>1, <1>2, <1>5
  <2> QED  BY <1>2, <2>1 DEF Grouped
<1> QED  BY <1>2, <1>3, <1>4, <1>5

LEMMA GroupClusterize ==
  ASSUME IInv, GroupInv, Clusterize
  PROVE  GroupInv'
<1> DEFINE L == Len(flow)
           x == idxBatch
           i == idxLast
           b == BatchLetSequence(SubSeq(flow, i, x - 1))
           new == Spliced(flow, i, x - 1, b)
<1>1. /\ stage = "args" /\ stage' = "args" /\ idxLast' = i + 1 /\ x' = i + 2 /\ x <= L + 1
      /\ flow' = IF x > i + 1 THEN new ELSE flow
      /\ x <= L => flow[i].args # <<>> /\ flow[x].args # flow[i].args
  BY DEF Clusterize, Clusterized, SameRun, flow
<1>2. /\ L \in Nat /\ flow \in Seq(ToSet(flow)) /\ sent \in Nat /\ x \in Nat /\ i \in Nat \ {0}
      /\ FlowOK(flow, sent) /\ i < x /\ Grouped(flow, i)
  BY <1>1, FlowLength DEF IInv, LoopOK, GroupInv
<1>3. Grouped(flow', i + 1)
  <2>1. CASE x > i + 1
    <3>1. i \in 1..L /\ x - 1 \in i..L
      <4> HIDE DEF L, x, i
      <4> QED  BY <1>1, <1>2, <2>1
    <3>2. b.status = "sequence"
      BY <1>2, <3>1, SequenceFacts
    <3> HIDE DEF b
    <3>3. SplicedTo(new, flow, i, x - 1, b)
      BY <1>2, <3>1, SplicedFacts
    <3>4. Grouped(new, i + 1)
      <4> HIDE DEF new
      <4> QED  BY <1>2, <3>1, <3>2, <3>3, GroupedSpliced
    <3> QED  BY <1>1, <2>1, <3>4
  <2>2. CASE ~(x > i + 1)
    <3>1. flow' = flow
      BY <1>1, <2>2
    <3>2. x = i + 1
      <4> HIDE DEF x, i
      <4> QED  BY <1>2, <2>2
    <3>3. ASSUME NEW k \in 1..(L - 1), k < i + 1
          PROVE  Different(flow[k], flow[k + 1])
      <4>1. CASE k < i
        BY <1>2, <3>3, <4>1 DEF Grouped
      <4>2. CASE k = i
        <5>1. x <= L /\ x = k + 1
          <6> HIDE DEF L, x, i
          <6> QED  BY <1>2, <3>2, <3>3, <4>2
        <5> QED  BY <1>1, <4>2, <5>1 DEF Different
      <4> HIDE DEF L, i
      <4> QED  BY <1>2, <3>3, <4>1, <4>2
    <3>4. Grouped(flow, i + 1)
      BY <3>3 DEF Grouped
    <3> QED  BY <3>1, <3>4
  <2> QED  BY <2>1, <2>2
<1>4. idxBatch' = idxLast' + 1
  <2> HIDE DEF i
  <2> QED  BY <1>1, <1>2
<1> QED  BY <1>1, <1>3, <1>4 DEF GroupInv

LEMMA GroupGrows ==
  ASSUME IInv, GroupInv, Grows
  PROVE  GroupInv'
<1> DEFINE L == Len(flow)
           i == idxLast
<1>1. /\ stage = "args" /\ stage' = "args" /\ flow' = flow /\ idxBatch' = idxBatch + 1
      /\ idxBatch <= L
      /\ \/ flow[i].args = <<>> /\ idxLast' = i + 1
         \/ idxLast' = i
  BY DEF Grows, flow
<1>2. L \in Nat /\ idxBatch \in Nat /\ i \in Nat \ {0} /\ Grouped(flow, i)
  BY <1>1, FlowLength DEF GroupInv
<1>3. idxBatch' <= Len(flow') + 1
  <2> HIDE DEF flow
  <2> QED  BY <1>1, <1>2
<1>4. Grouped(flow, idxLast')
  <2>1. CASE flow[i].args = <<>> /\ idxLast' = i + 1
    <3> SUFFICES ASSUME NEW k \in 1..(L - 1), k < i + 1
                 PROVE  Different(flow[k], flow[k + 1])
      BY <2>1 DEF Grouped
    <3>1. CASE k = i
      BY <2>1, <3>1 DEF Different
    <3>2. CASE k < i
      BY <1>2, <3>2 DEF Grouped
    <3> HIDE DEF L, i
    <3> QED  BY <1>2, <3>1, <3>2
  <2>2. CASE idxLast' = i
    BY <1>2, <2>2
  <2> QED  BY <1>1, <2>1, <2>2
<1> QED  BY <1>1, <1>3, <1>4 DEF GroupInv

LEMMA GroupNext == IInv /\ GroupInv /\ [Next]_vars => GroupInv'
<1> SUFFICES ASSUME IInv, GroupInv, [Next]_vars
             PROVE  GroupInv'
  OBVIOUS
<1>1. ASSUME stage' \in {"reading", "filter", "bigrams", "raised"}
      PROVE  GroupInv'
  BY <1>1 DEF GroupInv
<1>2. CASE UNCHANGED vars
  <2>1. flow' = flow /\ UNCHANGED <<stage, idxBatch, idxLast>>
    BY <1>2 DEF vars, loopVars, flow
  <2> QED  BY <2>1 DEF GroupInv
<1>3. ASSUME NEW f, NEW args, Call(f, args) \/ FirstHalf(f, args) \/ SecondHalf(args)
      PROVE  GroupInv'
  BY <1>1, <1>3 DEF Call, FirstHalf, SecondHalf, Reading
<1>4. CASE EndOfLog \/ Filter \/ EndOfFilter \/ Bigram
  BY <1>1, <1>4 DEF EndOfLog, Filter, EndOfFilter, BeginBigrams, Bigram
<1>5. CASE EndOfBigrams
  <2>1. CASE numSubst = 0
    <3>1. stage' = "args" /\ idxBatch' = 2 /\ idxLast' = 1
      BY <1>5, <2>1 DEF EndOfBigrams, BeginArgs
    <3>2. Grouped(flow, 1)'
      BY DEF Grouped
    <3> QED  BY <3>1, <3>2 DEF GroupInv
  <2>2. CASE numSubst # 0
    BY <1>1, <1>5, <2>2 DEF EndOfBigrams, BeginBigrams
  <2> QED  BY <2>1, <2>2
<1>6. CASE Grows
  BY <1>6, GroupGrows
<1>7. CASE Clusterize
  BY <1>7, GroupClusterize
<1>8. CASE EndOfArgs
  <2>1. /\ stage = "args" /\ stage' = "done" /\ flow' = flow /\ idxBatch > Len(flow) + 1
    BY <1>8 DEF EndOfArgs, flow
  <2>2. Len(flow) \in Nat /\ idxBatch \in Nat /\ idxLast \in Nat \ {0}
    BY FlowLength
  <2>3. Grouped(flow, idxLast) /\ idxLast >= Len(flow)
    BY <2>1, <2>2 DEF GroupInv
  <2>4. Grouped(flow, Len(flow))
    BY <2>2, <2>3 DEF Grouped
  <2> QED  BY <2>1, <2>4 DEF GroupInv
<1> QED  BY <1>2, <1>3, <1>4, <1>5, <1>6, <1>7, <1>8 DEF Next, FactorizeOneFlow

(* ClusterizeBatchesByArguments leaves no call beside another with the     *)
(* same arguments, whatever the runs and where they end.                   *)
THEOREM RunsGrouped == Spec => []RunsAreGrouped
<1>1. Init => IInv /\ GroupInv
  BY InitIInv DEF Init, GroupInv
<1>2. IInv /\ GroupInv /\ [Next]_vars => (IInv /\ GroupInv)'
  BY NextIInv, GroupNext
<1>3. IInv /\ GroupInv => RunsAreGrouped
  <2> SUFFICES ASSUME IInv, GroupInv, stage = "done", NEW k \in 1..(Len(flow) - 1)
               PROVE  Different(flow[k], flow[k + 1])
    BY DEF RunsAreGrouped, Different
  <2> QED  BY FlowLength DEF GroupInv, Grouped
<1> QED  BY <1>1, <1>2, <1>3, PTL DEF Spec

-----------------------------------------------------------------------------
(* The pairs of calls that occur often.                                    *)

(* As long as a pass has substituted nothing, the list is the one whose    *)
(* statistics it has, and no pair behind the walk is often in it.          *)
RareInv ==
  stage = "bigrams" /\ numSubst = 0 =>
    /\ mapOccurences = StatisticsBigrams(flow)
    /\ \A k \in 1..(Len(flow) - 1) :
         k < idxBatch => SignatureForRepetitions(flow, k) \notin mapOccurences

LEMMA RareNext == IInv /\ RareInv /\ [Next]_vars => RareInv'
<1> SUFFICES ASSUME IInv, RareInv, [Next]_vars, stage' = "bigrams", numSubst' = 0
             PROVE  RareInv'
  BY DEF RareInv
<1>0. Len(flow) \in Nat /\ idxBatch \in Nat /\ numSubst \in Nat
  BY FlowLength
<1>1. CASE UNCHANGED vars
  <2>1. flow' = flow /\ UNCHANGED <<stage, idxBatch, numSubst, mapOccurences>>
    BY <1>1 DEF vars, loopVars, flow
  <2>2. StatisticsBigrams(flow)' = StatisticsBigrams(flow)
    BY <2>1 DEF StatisticsBigrams, SignatureForRepetitions
  <2>3. \A k : SignatureForRepetitions(flow, k)' = SignatureForRepetitions(flow, k)
    BY <2>1 DEF SignatureForRepetitions
  <2> QED  BY <2>1, <2>2, <2>3 DEF RareInv
<1>2. CASE stage # "bigrams" \/ numSubst # 0
  <2>1. CASE BeginBigrams
    <3>1. flow' = flow /\ mapOccurences' = StatisticsBigrams(flow) /\ idxBatch' = 1
      BY <2>1 DEF BeginBigrams, flow
    <3>2. mapOccurences' = StatisticsBigrams(flow)'
      BY <3>1 DEF StatisticsBigrams, SignatureForRepetitions
    <3> QED  BY <3>1, <3>2 DEF RareInv
  <2>2. CASE Bigram
    BY <1>0, <1>2, <2>2 DEF Bigram
  <2> QED
    BY <1>1, <1>2, <2>1, <2>2
    DEF Next, FactorizeOneFlow, Call, FirstHalf, SecondHalf, Reading, EndOfLog, Filter,
        EndOfFilter, EndOfBigrams, BeginArgs, Grows, Clusterize, EndOfArgs
<1>3. CASE Next /\ stage = "bigrams" /\ numSubst = 0
  <2>1. Bigram
    BY <1>3
    DEF Next, FactorizeOneFlow, Call, FirstHalf, SecondHalf, Reading, EndOfLog, Filter,
        EndOfFilter, EndOfBigrams, BeginArgs, Grows, Clusterize, EndOfArgs
  <2>2. /\ SignatureForRepetitions(flow, idxBatch) \notin mapOccurences
        /\ flow' = flow /\ idxBatch' = idxBatch + 1 /\ mapOccurences' = mapOccurences
    BY <1>3, <2>1 DEF Bigram, flow
  <2>3. /\ mapOccurences = StatisticsBigrams(flow)
        /\ \A k \in 1..(Len(flow) - 1) :
             k < idxBatch => SignatureForRepetitions(flow, k) \notin mapOccurences
    BY <1>3 DEF RareInv
  <2>4. \A k \in 1..(Len(flow) - 1) :
          k < idxBatch + 1 => SignatureForRepetitions(flow, k) \notin mapOccurences
    <3> TAKE k \in 1..(Len(flow) - 1)
    <3>1. k < idxBatch + 1 => k < idxBatch \/ k = idxBatch
      BY <1>0
    <3> QED  BY <2>2, <2>3, <3>1, Zenon
  <2>5. StatisticsBigrams(flow)' = StatisticsBigrams(flow)
    BY <2>2 DEF StatisticsBigrams, SignatureForRepetitions
  <2>6. \A k : SignatureForRepetitions(flow, k)' = SignatureForRepetitions(flow, k)
    BY <2>2 DEF SignatureForRepetitions
  <2> QED  BY <2>2, <2>3, <2>4, <2>5, <2>6 DEF RareInv
<1> QED  BY <1>1, <1>2, <1>3

LEMMA InfrequentPair ==
  ASSUME NEW list, Len(list) \in Nat, NEW i \in 1..(Len(list) - 1),
         SignatureForRepetitions(list, i) \notin StatisticsBigrams(list)
  PROVE  Cardinality({m \in 1..(Len(list) - 1) : /\ list[m].name = list[i].name
                                                 /\ list[m].args = list[i].args
                                                 /\ list[m + 1].name = list[i + 1].name
                                                 /\ list[m + 1].args = list[i + 1].args})
           <= Frequent
<1> DEFINE alike == {m \in 1..(Len(list) - 1) :
                       SignatureForRepetitions(list, m) = SignatureForRepetitions(list, i)}
<1>1. alike = {m \in 1..(Len(list) - 1) : /\ list[m].name = list[i].name
                                          /\ list[m].args = list[i].args
                                          /\ list[m + 1].name = list[i + 1].name
                                          /\ list[m + 1].args = list[i + 1].args}
  BY DEF SignatureForRepetitions
<1>2. ~(Cardinality(alike) > Frequent)
  BY DEF StatisticsBigrams
<1>3. IsFiniteSet(alike)
  <2>1. IsFiniteSet(1..(Len(list) - 1))
    BY FS_Interval
  <2> QED  BY <2>1, FS_Subset
<1> HIDE DEF alike
<1>4. Cardinality(alike) \in Nat /\ Frequent \in Nat
  BY <1>3, FS_CardinalityType, BatchFlowAssumption
<1>5. Cardinality(alike) <= Frequent
  BY <1>2, <1>4
<1> QED  BY <1>1, <1>5

(* ClusterizeBigrams is only left when no pair of calls occurs often, for  *)
(* any threshold and however many passes that took.                        *)
THEOREM PairsRare == Spec => PairsAreRare
<1> DEFINE Rare == \A i \in 1..(Len(flow) - 1) :
                     Cardinality({m \in 1..(Len(flow) - 1) :
                        /\ flow[m].name = flow[i].name
                        /\ flow[m].args = flow[i].args
                        /\ flow[m + 1].name = flow[i + 1].name
                        /\ flow[m + 1].args = flow[i + 1].args}) <= Frequent
           Left == stage = "bigrams" /\ stage' = "args" => Rare
<1>1. Init => IInv /\ RareInv
  BY InitIInv DEF Init, RareInv
<1>2. IInv /\ RareInv /\ [Next]_vars => (IInv /\ RareInv)'
  BY NextIInv, RareNext
<1>3. IInv /\ RareInv /\ [Next]_vars => [Left]_vars
  <2> SUFFICES ASSUME IInv, RareInv, Next, stage = "bigrams", stage' = "args"
               PROVE  Rare
    BY Zenon
  <2>1. EndOfBigrams
    BY DEF Next, FactorizeOneFlow, Call, FirstHalf, SecondHalf, Reading, EndOfLog, Filter,
           EndOfFilter, Bigram, Grows, Clusterize, EndOfArgs
  <2>2. numSubst = 0 /\ idxBatch >= Len(flow)
    BY <2>1 DEF EndOfBigrams, BeginBigrams
  <2>3. Len(flow) \in Nat /\ idxBatch \in Nat
    BY FlowLength
  <2>4. \A i \in 1..(Len(flow) - 1) :
          SignatureForRepetitions(flow, i) \notin StatisticsBigrams(flow)
    BY <2>2, <2>3 DEF RareInv
  <2> QED  BY <2>3, <2>4, InfrequentPair
<1>4. [][Left]_vars => PairsAreRare
  BY PTL DEF PairsAreRare
<1> QED  BY <1>1, <1>2, <1>3, <1>4, PTL DEF Spec

-----------------------------------------------------------------------------
(* The halves of a call that are next to each other.                       *)

(* While the log is read one call at most is not finished, thus the second *)
(* half of a call is sent right after the first half.                      *)
MateOK(b, n) ==
  /\ b.from <= b.core /\ b.core <= b.to
  /\ b.status = "matched" /\ b.mate # None => b.mate = b.core + 1 /\ b.mate <= n

MatesOK(list, n) == \A k \in 1..Len(list) : MateOK(list[k], n)

(* The batch that a first half points to points to it.                     *)
Answered(b, c) == b.status = "matched" /\ b.mate = c.core => OwnHalves(b, c)

AllAnswered(list, idx) ==
  \A k \in 1..(Len(list) - 1) : k + 1 >= idx => Answered(list[k], list[k + 1])

Apart(b, c) == b.status = "matched" => b.mate # c.core

AllApart(list, idx) ==
  \A k \in 1..(Len(list) - 1) : k + 1 < idx => Apart(list[k], list[k + 1])

HalfInv ==
  /\ stage \in {"reading", "filter"} => MatesOK(flow, sent) /\ AllAnswered(flow, idxBatch)
  /\ stage = "filter" => AllApart(flow, idxBatch)

(* The last batch of a list is replaced by one of the same call.           *)
LEMMA MatesReplaced ==
  ASSUME NEW n \in Nat, NEW list, Len(list) \in Nat \ {0}, MatesOK(list, n), AllAnswered(list, 1),
         NEW c, MateOK(c, n), NEW new, SplicedTo(new, list, Len(list), Len(list), c),
         Len(list) # 1 => Answered(list[Len(list) - 1], c)
  PROVE  MatesOK(new, n) /\ AllAnswered(new, 1) /\ Len(new) = Len(list) /\ new[Len(new)] = c
<1> DEFINE L == Len(list)
<1>1. /\ Len(new) = L /\ L \in Nat \ {0} /\ L \in 1..L
      /\ \A k \in 1..L : (k < L => new[k] = list[k]) /\ (k = L => new[k] = c)
  BY DEF SplicedTo
<1>2. \A k \in 1..L : MateOK(list[k], n)
  BY DEF MatesOK
<1>3. ASSUME NEW k \in 1..(L - 1)
      PROVE  Answered(list[k], list[k + 1])
  <2>1. k + 1 >= 1
    BY <1>1
  <2> QED  BY <2>1 DEF AllAnswered
<1>4. L # 1 => Answered(list[L - 1], c)
  OBVIOUS
<1> HIDE DEF L
<1>5. ASSUME NEW k \in 1..L
      PROVE  MateOK(new[k], n)
  <2>1. CASE k < L
    BY <1>1, <1>2, <2>1
  <2>2. CASE k = L
    BY <1>1, <2>2
  <2> QED  BY <1>1, <2>1, <2>2
<1>6. ASSUME NEW k \in 1..(L - 1)
      PROVE  Answered(new[k], new[k + 1])
  <2>1. k \in 1..L /\ k < L /\ k + 1 \in 1..L /\ new[k] = list[k]
    BY <1>1
  <2>2. CASE k + 1 < L
    BY <1>1, <1>3, <2>1, <2>2
  <2>3. CASE k + 1 = L
    <3>1. L # 1 /\ k = L - 1 /\ new[k + 1] = c
      BY <1>1, <2>1, <2>3
    <3> QED  BY <1>4, <2>1, <3>1
  <2> QED  BY <1>1, <2>1, <2>2, <2>3
<1>7. Len(new) = L /\ new[L] = c
  BY <1>1
<1> QED  BY <1>5, <1>6, <1>7 DEF MatesOK, AllAnswered, L

LEMMA MatesAppended ==
  ASSUME NEW n \in Nat, NEW list, list \in Seq(ToSet(list)), MatesOK(list, n),
         AllAnswered(list, 1), NEW b, MateOK(b, n),
         Len(list) # 0 => Answered(list[Len(list)], b)
  PROVE  MatesOK(Append(list, b), n) /\ AllAnswered(Append(list, b), 1)
<1> DEFINE L == Len(list)
           new == Append(list, b)
<1>1. /\ L \in Nat /\ Len(new) = L + 1 /\ new[L + 1] = b
      /\ \A k \in 1..L : new[k] = list[k]
  BY LenProperties, AppendedFacts
<1>2. \A k \in 1..L : MateOK(list[k], n)
  BY DEF MatesOK
<1>3. ASSUME NEW k \in 1..(L - 1)
      PROVE  Answered(list[k], list[k + 1])
  <2>1. k + 1 >= 1
    BY <1>1
  <2> QED  BY <2>1 DEF AllAnswered
<1>4. L # 0 => Answered(list[L], b)
  OBVIOUS
<1> HIDE DEF L, new
<1>5. ASSUME NEW k \in 1..(L + 1)
      PROVE  MateOK(new[k], n)
  <2>1. CASE k \in 1..L
    BY <1>1, <1>2, <2>1
  <2>2. CASE k = L + 1
    BY <1>1, <2>2
  <2> QED  BY <1>1, <2>1, <2>2
<1>6. ASSUME NEW k \in 1..((L + 1) - 1)
      PROVE  Answered(new[k], new[k + 1])
  <2>1. k \in 1..L /\ new[k] = list[k]
    BY <1>1
  <2>2. CASE k \in 1..(L - 1)
    <3>1. k + 1 \in 1..L
      BY <1>1, <2>2
    <3> QED  BY <1>1, <1>3, <2>1, <2>2, <3>1
  <2>3. CASE k = L
    <3>1. L # 0 /\ new[k + 1] = b
      BY <1>1, <2>1, <2>3
    <3> QED  BY <1>4, <2>1, <2>3, <3>1
  <2> QED  BY <1>1, <2>1, <2>2, <2>3
<1> QED  BY <1>1, <1>5, <1>6 DEF MatesOK, AllAnswered, new

LEMMA MatesSent ==
  ASSUME NEW n \in Nat, NEW list, FlowOK(list, n), MatesOK(list, n + 1), AllAnswered(list, 1),
         NEW b, Single(b), b.from = n + 1, b.status # "matched",
         Len(list) # 0 => Answered(list[Len(list)], b)
  PROVE  MatesOK(Sent(list, b), n + 1) /\ AllAnswered(Sent(list, b), 1)
<1> DEFINE L == Len(list)
           last == list[L]
           c == [last EXCEPT !.m_occurrences = @ + 1, !.to = b.to]
<1>1. L \in Nat /\ list \in Seq(ToSet(list)) /\ (list = <<>> <=> L = 0) /\ n + 1 \in Nat
  BY LenProperties, EmptySeq DEF FlowOK, ListOK
<1>2. b.core = n + 1 /\ b.to = n + 1
  BY DEF Single
<1>3. CASE L # 0 /\ SameCall(last, b)
  <2>1. Sent(list, b) = ReplaceAt(list, L, c) /\ L \in 1..L
    BY <1>1, <1>3 DEF Sent, Last
  <2>2. SplicedTo(ReplaceAt(list, L, c), list, L, L, c)
    <3> HIDE DEF c
    <3> QED  BY <1>1, <2>1, ReplacedFacts
  <2>3. Batch(last, n) /\ MateOK(last, n + 1)
    BY <2>1 DEF FlowOK, ListOK, MatesOK
  <2>4. CountedAs(c, last, n + 1, n + 1)
    <3>1. Batch(last, n + 1) /\ n + 1 \in 1..(n + 1) /\ b.to = n + 1
      BY <1>1, <1>2, <2>3, BatchGrows
    <3> HIDE DEF last
    <3> QED  BY <1>1, <3>1, CountedFacts, Zenon
  <2>5. last.core \in Nat /\ last.core <= n + 1
    BY <2>3, BatchFields
  <2> HIDE DEF c
  <2>6. MateOK(c, n + 1)
    BY <2>3, <2>4, <2>5 DEF MateOK, CountedAs
  <2>7. L # 1 => Answered(list[L - 1], c)
    <3> SUFFICES ASSUME L # 1
                 PROVE  Answered(list[L - 1], c)
      OBVIOUS
    <3>1. L - 1 \in 1..(L - 1) /\ (L - 1) + 1 = L /\ (L - 1) + 1 >= 1
      <4>1. L \in Nat /\ L # 0 /\ L # 1
        BY <1>1, <1>3
      <4> HIDE DEF L
      <4> QED  BY <4>1
    <3>2. Answered(list[L - 1], last)
      BY <3>1 DEF AllAnswered
    <3> HIDE DEF last, L
    <3> QED  BY <2>4, <3>2 DEF Answered, OwnHalves, CountedAs
  <2> HIDE DEF last
  <2> QED  BY <1>1, <1>3, <2>1, <2>2, <2>6, <2>7, MatesReplaced
<1>4. CASE ~(L # 0 /\ SameCall(last, b))
  <2>1. Sent(list, b) = Append(list, b)
    BY <1>1, <1>4 DEF Sent, Last
  <2>2. MateOK(b, n + 1)
    BY <1>1, <1>2 DEF MateOK
  <2> QED  BY <1>1, <2>1, <2>2, MatesAppended
<1> QED  BY <1>3, <1>4

LEMMA MateGrows ==
  ASSUME NEW n \in Nat, NEW b, MateOK(b, n), b.mate # None => b.mate \in Nat
  PROVE  MateOK(b, n + 1)
BY DEF MateOK

LEMMA MatesGrow ==
  ASSUME NEW n \in Nat, NEW list, FlowOK(list, n), MatesOK(list, n)
  PROVE  MatesOK(list, n + 1)
<1> SUFFICES ASSUME NEW k \in 1..Len(list)
             PROVE  MateOK(list[k], n + 1)
  BY DEF MatesOK
<1>1. MateOK(list[k], n) /\ Batch(list[k], n)
  BY DEF MatesOK, FlowOK, ListOK
<1>2. list[k].mate \in 1..(n + 1) \cup {None}
  BY <1>1, BatchFields
<1>3. list[k].mate # None => list[k].mate \in Nat
  BY <1>2
<1> QED  BY <1>1, <1>3, MateGrows

(* A call, or its first half, is the mate of no batch.                     *)
LEMMA NewIsAnswered ==
  ASSUME NEW n \in Nat, NEW list, FlowOK(list, n), MatesOK(list, n), Len(list) # 0,
         NEW b, b.core = n + 1
  PROVE  Answered(list[Len(list)], b)
<1> DEFINE last == list[Len(list)]
<1>1. Len(list) \in 1..Len(list)
  BY LenProperties DEF FlowOK, ListOK
<1>2. MateOK(last, n) /\ None # n + 1
  BY <1>1, BatchFlowAssumption DEF MatesOK
<1> HIDE DEF last
<1>3. last.status = "matched" => last.mate # n + 1
  BY <1>2 DEF MateOK
<1> QED  BY <1>3 DEF Answered, last

(* A call, or the first half of one, is sent.                              *)
LEMMA HalfSent ==
  ASSUME IInv, HalfInv, stage = "reading", NEW b, NewAs(b, b.name, b.status, None, sent),
         b.status # "matched"
  PROVE  MatesOK(Sent(flow, b), sent + 1) /\ AllAnswered(Sent(flow, b), 1)
<1>1. /\ FlowOK(flow, sent) /\ sent \in Nat /\ idxBatch = 1
      /\ MatesOK(flow, sent) /\ AllAnswered(flow, 1)
  BY DEF IInv, Scalars, HalfInv
<1>2. Single(b) /\ b.from = sent + 1 /\ b.core = sent + 1
  BY DEF NewAs
<1>3. Len(flow) # 0 => Answered(flow[Len(flow)], b)
  BY <1>1, <1>2, NewIsAnswered
<1>4. MatesOK(flow, sent + 1)
  BY <1>1, MatesGrow
<1> HIDE DEF flow
<1> QED  BY <1>1, <1>2, <1>3, <1>4, MatesSent

LEMMA HalfReading ==
  ASSUME IInv, stage = "reading", stage' = stage, idxBatch' = idxBatch,
         MatesOK(flow', sent'), AllAnswered(flow', 1)
  PROVE  HalfInv'
BY DEF HalfInv, IInv

LEMMA HalfCall ==
  ASSUME IInv, HalfInv, NEW f, NEW args, Call(f, args) \/ FirstHalf(f, args)
  PROVE  HalfInv'
<1>1. PICK s \in {"plain", "unfinished"} :
        /\ stage = "reading" /\ stage' = stage /\ idxBatch' = idxBatch
        /\ flow' = Sent(flow, NewBatch(f, args, s)) /\ sent' = sent + 1
  BY DEF Call, FirstHalf, Reading, loopVars, flow
<1> DEFINE b == NewBatch(f, args, s)
<1>2. NewAs(b, f, s, None, sent)
  BY NewBatchFacts DEF Statuses, IInv, Scalars
<1> HIDE DEF b
<1>3. NewAs(b, b.name, b.status, None, sent) /\ b.status # "matched"
  BY <1>2 DEF NewAs
<1>4. MatesOK(flow', sent') /\ AllAnswered(flow', 1)
  BY <1>1, <1>3, HalfSent DEF b
<1> QED  BY <1>1, <1>4, HalfReading

(* The first half that is awaited is marked.                               *)
LEMMA HalfMatched ==
  ASSUME IInv, HalfInv, stage = "reading", pending # None, NEW mate \in {None, sent + 1}
  PROVE  LET new == IF pending.at = 0 THEN flow
                    ELSE ReplaceAt(flow, pending.at,
                                   [flow[pending.at] EXCEPT !.status = "matched", !.mate = mate])
             last == new[Len(new)]
         IN  /\ MatesOK(new, IF mate = None THEN sent ELSE sent + 1) /\ AllAnswered(new, 1)
             /\ \/ last.status = "matched" /\ last.core = sent /\ last.mate = mate
                \/ last.status = "matched" => last.mate # sent + 1
<1> DEFINE L == Len(flow)
           last == flow[L]
           m == IF mate = None THEN sent ELSE sent + 1
           c == [last EXCEPT !.status = "matched", !.mate = mate]
           new == ReplaceAt(flow, L, c)
<1>1. /\ FlowOK(flow, sent) /\ sent \in Nat /\ L \in Nat \ {0} /\ flow \in Seq(ToSet(flow))
      /\ MatesOK(flow, sent) /\ AllAnswered(flow, 1)
      /\ pending.at # 0 => pending.at = L /\ Single(last) /\ last.status = "unfinished"
  BY FlowLength DEF IInv, HalfInv, PendingOK
<1>2. L \in 1..L /\ last.to = sent /\ Batch(last, sent) /\ MateOK(last, sent)
  BY <1>1 DEF FlowOK, Contiguous, ListOK, MatesOK
<1>3. MatesOK(flow, m) /\ m \in Nat /\ None # sent + 1
  BY <1>1, MatesGrow, BatchFlowAssumption
<1>4. CASE pending.at = 0
  <2>1. last.status = "matched" => last.mate # sent + 1
    <3> HIDE DEF last
    <3> QED  BY <1>1, <1>2, <1>3 DEF MateOK
  <2> QED  BY <1>1, <1>3, <1>4, <2>1
<1>5. CASE pending.at # 0
  <2>1. Single(last) /\ last.status = "unfinished" /\ last.core = sent /\ last.from = sent
    BY <1>1, <1>2, <1>5 DEF Single
  <2>2. MatchedAs(c, last, mate, sent)
    <3>1. mate \in 1..(sent + 1) \cup {None}
      BY <1>1
    <3> HIDE DEF last
    <3> QED  BY <1>1, <1>2, <3>1, MatchedFacts, Zenon
  <2> HIDE DEF c
  <2>3. /\ c.status = "matched" /\ c.mate = mate /\ c.core = sent /\ c.from = sent /\ c.to = sent
    BY <1>2, <2>1, <2>2 DEF MatchedAs
  <2>4. MateOK(c, m)
    BY <1>1, <2>3 DEF MateOK
  <2>5. SplicedTo(new, flow, L, L, c)
    BY <1>1, <1>2, ReplacedFacts
  <2>6. L # 1 => Answered(flow[L - 1], c)
    <3> SUFFICES ASSUME L # 1
                 PROVE  Answered(flow[L - 1], c)
      OBVIOUS
    <3>1. L - 1 \in 1..(L - 1) /\ (L - 1) + 1 = L /\ (L - 1) + 1 >= 1
      <4> HIDE DEF L
      <4> QED  BY <1>1
    <3>2. Answered(flow[L - 1], last)
      BY <1>1, <3>1 DEF AllAnswered
    <3> HIDE DEF last, L
    <3> QED  BY <2>1, <2>3, <3>2 DEF Answered, OwnHalves
  <2> HIDE DEF new, m
  <2>7. MatesOK(new, m) /\ AllAnswered(new, 1) /\ new[Len(new)] = c
    <3> HIDE DEF flow
    <3> QED  BY <1>1, <1>3, <2>4, <2>5, <2>6, MatesReplaced
  <2> QED  BY <1>1, <1>5, <2>3, <2>7 DEF new, m, c
<1> QED  BY <1>4, <1>5

LEMMA HalfSecond ==
  ASSUME IInv, HalfInv, NEW args, SecondHalf(args)
  PROVE  HalfInv'
<1> DEFINE f == pending.name
           mate == IF f \in Unyielded THEN None ELSE sent + 1
           matched == IF pending.at = 0 THEN flow
                      ELSE ReplaceAt(flow, pending.at,
                                     [flow[pending.at] EXCEPT !.status = "matched", !.mate = mate])
           b == [NewBatch(f, args, "merged") EXCEPT !.mate = pending.core]
           last == matched[Len(matched)]
<1>1. /\ stage = "reading" /\ stage' = stage /\ idxBatch' = idxBatch /\ pending # None
      /\ f \in Unyielded => flow' = matched /\ sent' = sent
      /\ f \notin Unyielded => flow' = Sent(matched, b) /\ sent' = sent + 1
  BY DEF SecondHalf, Reading, loopVars, flow
<1>2. /\ sent \in Nat /\ pending.core = sent /\ pending.core \in 1..sent /\ None # sent + 1
  BY <1>1, BatchFlowAssumption DEF IInv, Scalars, PendingOK
<1>3. mate \in {None, sent + 1} /\ mate \in 1..(sent + 1) \cup {None}
  BY <1>2
<1>4. NewAs(b, f, "merged", sent, sent)
  <2>1. sent \in 1..sent /\ "merged" \in Statuses
    BY <1>2 DEF Statuses
  <2> QED  BY <1>2, <2>1, NewBatchFacts
<1>5. FlowOK(matched, sent)
  <2> HIDE DEF mate
  <2> QED  BY <1>1, <1>3, MatchedKeeps, Zenon
<1>6. /\ MatesOK(matched, IF mate = None THEN sent ELSE sent + 1) /\ AllAnswered(matched, 1)
      /\ \/ last.status = "matched" /\ last.core = sent /\ last.mate = mate
         \/ last.status = "matched" => last.mate # sent + 1
  <2> HIDE DEF mate
  <2> QED  BY <1>1, <1>3, HalfMatched
<1> HIDE DEF matched, b, f
<1>7. CASE f \in Unyielded
  <2>1. MatesOK(flow', sent') /\ AllAnswered(flow', 1)
    BY <1>1, <1>6, <1>7
  <2> QED  BY <1>1, <2>1, HalfReading
<1>8. CASE f \notin Unyielded
  <2>1. MatesOK(matched, sent + 1) /\ mate = sent + 1
    BY <1>2, <1>6, <1>8, Zenon
  <2>2. Single(b) /\ b.from = sent + 1 /\ b.core = sent + 1 /\ b.status = "merged" /\ b.mate = sent
    BY <1>4 DEF NewAs
  <2>3. Answered(last, b)
    <3> HIDE DEF last, mate
    <3> QED  BY <1>6, <2>1, <2>2 DEF Answered, OwnHalves
  <2>4. MatesOK(Sent(matched, b), sent + 1) /\ AllAnswered(Sent(matched, b), 1)
    BY <1>2, <1>5, <1>6, <2>1, <2>2, <2>3, MatesSent
  <2> QED  BY <1>1, <1>8, <2>4, HalfReading
<1> QED  BY <1>7, <1>8

LEMMA HalfFilter ==
  ASSUME IInv, HalfInv, Filter
  PROVE  HalfInv'
<1> DEFINE L == Len(flow)
           x == idxBatch
           prev == flow[x - 1]
           seq == flow[x]
           c == [seq EXCEPT !.mate = None, !.from = prev.from]
           new == Spliced(flow, x - 1, x, c)
<1>1. /\ stage = "filter" /\ FlowOK(flow, sent) /\ Fresh(flow, x)
      /\ MatesOK(flow, sent) /\ AllAnswered(flow, x) /\ AllApart(flow, x)
      /\ sent' = sent
  BY DEF Filter, IInv, HalfInv
<1>2. /\ stage' = "filter" /\ x \in 2..L /\ x' = x + 1
      /\ flow' = IF OwnHalves(prev, seq) THEN new ELSE flow
      /\ OwnHalves(prev, seq) => Single(prev)
  BY FilterFacts
<1>3. L \in Nat /\ flow \in Seq(ToSet(flow)) /\ x \in Nat /\ x >= 2 /\ x <= L /\ sent \in Nat
  BY <1>2, FlowLength
<1>4. x - 1 \in 1..L /\ x \in 1..L /\ x \in (x - 1)..L /\ x - (x - 1) = 1 /\ (x - 1) + 1 = x
      /\ x - 1 \in 1..(L - 1)
  <2> HIDE DEF L, x
  <2> QED  BY <1>3
<1>5. Answered(prev, seq)
  BY <1>1, <1>3, <1>4 DEF AllAnswered
<1>6. CASE ~OwnHalves(prev, seq)
  <2>1. Apart(prev, seq)
    <3> HIDE DEF prev, seq
    <3> QED  BY <1>5, <1>6 DEF Answered, Apart
  <2>2. AllAnswered(flow, x + 1)
    BY <1>1, <1>3 DEF AllAnswered
  <2>3. AllApart(flow, x + 1)
    <3> SUFFICES ASSUME NEW k \in 1..(L - 1), k + 1 < x + 1
                 PROVE  Apart(flow[k], flow[k + 1])
      BY DEF AllApart
    <3>1. k = x - 1 \/ k + 1 < x
      <4> HIDE DEF L, x
      <4> QED  BY <1>3
    <3> QED  BY <1>1, <1>4, <2>1, <3>1 DEF AllApart
  <2>4. flow' = flow
    BY <1>2, <1>6
  <2> QED  BY <1>1, <1>2, <2>2, <2>3, <2>4 DEF HalfInv
<1>7. CASE OwnHalves(prev, seq)
  <2>1. /\ flow' = new /\ Single(prev) /\ prev.to + 1 = seq.from /\ seq.from = seq.core
        /\ Batch(prev, sent) /\ Batch(seq, sent) /\ MateOK(seq, sent) /\ seq.status = "merged"
    <3>1. flow' = new /\ Single(prev)
      BY <1>2, <1>7
    <3>2. Batch(prev, sent) /\ Batch(seq, sent) /\ MateOK(seq, sent)
      BY <1>1, <1>4 DEF FlowOK, ListOK, MatesOK
    <3>3. prev.to + 1 = seq.from
      <4>1. flow[x - 1].to + 1 = flow[(x - 1) + 1].from
        BY <1>1, <1>4, Zenon DEF FlowOK, Contiguous
      <4> QED  BY <1>4, <4>1, Zenon
    <3>4. seq.status = "merged"
      BY <1>7 DEF OwnHalves
    <3>5. seq.from = seq.core
      BY <1>1, <1>3, <1>4, <3>4 DEF Fresh
    <3> QED  BY <3>1, <3>2, <3>3, <3>4, <3>5
  <2>2. FilteredAs(c, seq, prev.from, sent)
    <3> HIDE DEF seq, prev
    <3> QED  BY <1>3, <2>1, BatchFields, FilteredFacts, Zenon
  <2> HIDE DEF c
  <2>3. SplicedTo(new, flow, x - 1, x, c)
    BY <1>3, <1>4, SplicedFacts
  <2> HIDE DEF new
  <2>4. /\ Len(new) = L - 1
        /\ \A k \in 1..(L - 1) :
             /\ k < x - 1 => new[k] = flow[k]
             /\ k = x - 1 => new[k] = c
             /\ k > x - 1 => new[k] = flow[k + 1]
    <3>1. /\ Len(new) = L - (x - (x - 1))
          /\ \A k \in 1..Len(new) :
               /\ k < x - 1 => new[k] = flow[k]
               /\ k = x - 1 => new[k] = c
               /\ k > x - 1 => new[k] = flow[k + (x - (x - 1))]
      BY <2>3 DEF SplicedTo
    <3> HIDE DEF L, x
    <3>2. Len(new) = L - 1
      BY <1>4, <3>1, Zenon
    <3> QED  BY <1>4, <3>1, <3>2, Zenon
  <2>5. c.status = "merged" /\ c.core = seq.core
    BY <2>1, <2>2 DEF FilteredAs
  <2>6. MateOK(c, sent)
    <3>1. /\ prev.from \in Nat /\ prev.to \in Nat /\ prev.core \in Nat
          /\ seq.from \in Nat /\ seq.core \in Nat
      <4>1. /\ prev.from \in 1..sent /\ prev.to \in 1..sent /\ prev.core \in 1..sent
            /\ seq.from \in 1..sent /\ seq.core \in 1..sent
        BY <1>3, <2>1, BatchFields, Zenon
      <4> QED  BY <4>1
    <3> HIDE DEF seq, prev
    <3>2. prev.from <= seq.core
      BY <2>1, <3>1 DEF Single
    <3> QED  BY <2>1, <2>2, <2>5, <3>2 DEF MateOK, FilteredAs
  <2>7. ASSUME NEW k \in 1..(L - 1), k + 1 = x - 1
        PROVE  Apart(flow[k], c)
    <3> DEFINE b == flow[k]
    <3>1. k \in 1..L /\ k \in 1..(L - 1)
      <4> HIDE DEF L
      <4> QED  BY <1>3
    <3>2. Batch(b, sent) /\ MateOK(b, sent) /\ b.to + 1 = prev.from
      BY <1>1, <2>7, <3>1 DEF FlowOK, ListOK, Contiguous, MatesOK
    <3> HIDE DEF b, seq, prev
    <3>3. /\ b.core \in 1..sent /\ b.to \in 1..sent /\ prev.from \in 1..sent
          /\ prev.core \in 1..sent /\ prev.to \in 1..sent /\ seq.core \in 1..sent
      BY <1>3, <2>1, <3>2, BatchFields, Zenon
    <3>4. b.core <= b.to
      BY <3>2 DEF MateOK
    <3>5. b.core + 1 # seq.core
      <4>1. PICK p \in Nat, q \in Nat, r \in Nat, s \in Nat :
              p = b.core /\ q = b.to /\ r = prev.core /\ s = seq.core
        BY <3>3
      <4>2. p <= q /\ q + 1 = r /\ r + 1 = s
        BY <2>1, <3>2, <3>4, <4>1 DEF Single
      <4>3. p + 1 # s
        BY <4>2
      <4> QED  BY <4>1, <4>3
    <3>6. seq.core # None
      BY <1>3, <3>3, BatchFlowAssumption
    <3>7. Apart(b, c)
      BY <2>5, <3>2, <3>5, <3>6 DEF Apart, MateOK
    <3> QED  BY <3>7 DEF b
  <2>8. MatesOK(new, sent)
    <3> SUFFICES ASSUME NEW k \in 1..(L - 1)
                 PROVE  MateOK(new[k], sent)
      BY <2>4 DEF MatesOK
    <3>1. \A i \in 1..L : MateOK(flow[i], sent)
      BY <1>1 DEF MatesOK
    <3> HIDE DEF L, x
    <3>2. k \in 1..L /\ k + 1 \in 1..L
      BY <1>3
    <3>3. k < x - 1 \/ k = x - 1 \/ k > x - 1
      BY <1>3
    <3> QED  BY <2>4, <2>6, <3>1, <3>2, <3>3
  <2>9. AllAnswered(new, x + 1)
    <3> SUFFICES ASSUME NEW k \in 1..((L - 1) - 1), k + 1 >= x + 1
                 PROVE  Answered(new[k], new[k + 1])
      BY <2>4 DEF AllAnswered
    <3> HIDE DEF L, x
    <3>1. /\ k + 1 \in 1..(L - 1) /\ k \in 1..(L - 1) /\ (k + 1) + 1 >= x
          /\ k > x - 1 /\ k + 1 > x - 1
      BY <1>3
    <3>2. Answered(flow[k + 1], flow[(k + 1) + 1])
      BY <1>1, <3>1 DEF AllAnswered, L
    <3> QED  BY <2>4, <3>1, <3>2
  <2>10. AllApart(new, x + 1)
    <3> SUFFICES ASSUME NEW k \in 1..((L - 1) - 1), k + 1 < x + 1
                 PROVE  Apart(new[k], new[k + 1])
      BY <2>4 DEF AllApart
    <3> HIDE DEF L, x
    <3>1. k \in 1..(L - 1) /\ k + 1 \in 1..(L - 1)
      BY <1>3
    <3>2. CASE k = x - 1
      BY <2>4, <2>5, <3>1, <3>2 DEF Apart
    <3>3. CASE k + 1 = x - 1
      <4>1. k < x - 1 /\ Apart(flow[k], c)
        BY <1>3, <2>7, <3>1, <3>3
      <4> QED  BY <2>4, <3>1, <3>3, <4>1
    <3>4. CASE k + 1 < x - 1
      <4>1. k < x - 1 /\ k + 1 < x
        BY <1>3, <3>4
      <4>2. Apart(flow[k], flow[k + 1])
        BY <1>1, <3>1, <4>1 DEF AllApart, L
      <4> QED  BY <2>4, <3>1, <3>4, <4>1, <4>2
    <3> QED  BY <1>3, <3>2, <3>3, <3>4
  <2> QED  BY <1>1, <1>2, <2>1, <2>8, <2>9, <2>10 DEF HalfInv
<1> QED  BY <1>6, <1>7

LEMMA HalfNext == IInv /\ HalfInv /\ [Next]_vars => HalfInv'
<1> SUFFICES ASSUME IInv, HalfInv, [Next]_vars
             PROVE  HalfInv'
  OBVIOUS
<1>1. CASE UNCHANGED vars
  <2>1. flow' = flow /\ UNCHANGED <<sent, stage, idxBatch>>
    BY <1>1 DEF vars, loopVars, flow
  <2> QED  BY <2>1 DEF HalfInv
<1>2. ASSUME NEW call \in Calls, Call(call[1], call[2]) \/ FirstHalf(call[1], call[2])
      PROVE  HalfInv'
  BY <1>2, HalfCall
<1>3. ASSUME NEW args \in ArgLists, SecondHalf(args)
      PROVE  HalfInv'
  BY <1>3, HalfSecond
<1>4. CASE EndOfLog
  <2>1. /\ stage = "reading" /\ stage' = "filter" /\ idxBatch' = 2 /\ idxBatch = 1
        /\ flow' = flow /\ sent' = sent
    BY <1>4 DEF EndOfLog, flow, IInv
  <2>2. MatesOK(flow, sent) /\ AllAnswered(flow, 1) /\ Len(flow) \in Nat
    BY <2>1, FlowLength DEF HalfInv
  <2>3. AllAnswered(flow, 2) /\ AllApart(flow, 2)
    BY <2>2 DEF AllAnswered, AllApart
  <2> QED  BY <2>1, <2>2, <2>3 DEF HalfInv
<1>5. CASE Filter
  BY <1>5, HalfFilter
<1>6. ASSUME stage' \in {"bigrams", "args", "done"}
      PROVE  HalfInv'
  BY <1>6 DEF HalfInv
<1>7. CASE EndOfFilter \/ Bigram \/ EndOfBigrams \/ Grows \/ Clusterize \/ EndOfArgs
  BY <1>6, <1>7 DEF EndOfFilter, BeginBigrams, Bigram, EndOfBigrams, BeginArgs, Grows,
                    Clusterize, EndOfArgs
<1> QED  BY <1>1, <1>2, <1>3, <1>4, <1>5, <1>7 DEF Next, FactorizeOneFlow

(* FilterMatchedBatches misses no call whose halves are next to each       *)
(* other, although it edits the list that it walks.                        *)
THEOREM HalvesAreFiltered == Spec => []HalvesFiltered
<1>1. Init => IInv /\ HalfInv
  <2> SUFFICES ASSUME Init
               PROVE  HalfInv
    BY InitIInv
  <2>1. Len(flow) = 0 /\ stage = "reading"
    BY EmptySeq DEF Init, flow
  <2> QED  BY <2>1 DEF HalfInv, MatesOK, AllAnswered
<1>2. IInv /\ HalfInv /\ [Next]_vars => (IInv /\ HalfInv)'
  BY NextIInv, HalfNext
<1>3. HalfInv => HalvesFiltered
  BY DEF HalfInv, AllApart, Apart, HalvesFiltered
<1> QED  BY <1>1, <1>2, <1>3, PTL DEF Spec

-----------------------------------------------------------------------------
(* The rewriting ends.                                                     *)

(* What an iteration does to the numbers that Remaining is made of.        *)
Iteration ==
  \/ /\ stage = "filter" /\ stage' = "filter" /\ idxBatch' = idxBatch + 1
     /\ Len(flow') <= Len(flow)
  \/ stage = "filter" /\ stage' = "bigrams"
  \/ /\ stage = "bigrams" /\ stage' = "bigrams" /\ numSubst' = numSubst + 1
     /\ Len(flow') < Len(flow)
  \/ /\ stage = "bigrams" /\ stage' = "bigrams" /\ numSubst' = numSubst
     /\ Len(flow') = Len(flow) /\ idxBatch' = idxBatch + 1
  \/ /\ stage = "bigrams" /\ stage' = "bigrams" /\ numSubst # 0 /\ numSubst' = 0
     /\ Len(flow') = Len(flow)
  \/ stage = "bigrams" /\ stage' = "args"
  \/ /\ stage = "args" /\ stage' = "args" /\ idxLast' = idxLast + 1 /\ idxLast < Len(flow) + 2
     /\ Len(flow') <= Len(flow)
  \/ /\ stage = "args" /\ stage' = "args" /\ idxLast' = idxLast
     /\ Len(flow') = Len(flow) /\ idxBatch' = idxBatch + 1
  \/ stage = "args" /\ stage' = "done"

LEMMA FilterIterates ==
  ASSUME IInv, Filter
  PROVE  Iteration
<1> DEFINE L == Len(flow)
           prev == flow[idxBatch - 1]
           seq == flow[idxBatch]
           c == [seq EXCEPT !.mate = None, !.from = prev.from]
<1>1. /\ stage' = "filter" /\ idxBatch \in 2..L /\ idxBatch' = idxBatch + 1
      /\ flow' = IF OwnHalves(prev, seq) THEN Spliced(flow, idxBatch - 1, idxBatch, c) ELSE flow
      /\ stage = "filter"
  BY FilterFacts DEF Filter
<1>2. L \in Nat /\ flow \in Seq(ToSet(flow)) /\ idxBatch \in Nat
  BY FlowLength
<1>3. Len(flow') <= L
  <2>1. CASE OwnHalves(prev, seq)
    <3>1. idxBatch - 1 \in 1..L /\ idxBatch \in (idxBatch - 1)..L /\ L - (idxBatch - (idxBatch - 1)) <= L
      <4> HIDE DEF L
      <4> QED  BY <1>1, <1>2
    <3>2. Len(Spliced(flow, idxBatch - 1, idxBatch, c)) = L - (idxBatch - (idxBatch - 1))
      BY <1>2, <3>1, SplicedFacts DEF SplicedTo
    <3> QED  BY <1>1, <2>1, <3>1, <3>2
  <2>2. CASE ~OwnHalves(prev, seq)
    BY <1>1, <1>2, <2>2
  <2> QED  BY <2>1, <2>2
<1> QED  BY <1>1, <1>3 DEF Iteration

LEMMA BigramIterates ==
  ASSUME IInv, Bigram
  PROVE  Iteration
<1> DEFINE L == Len(flow)
           x == idxBatch
           b == BatchLetSequence(SubSeq(flow, x, x + 1))
           prev == flow[x - 1]
           periodic == batchSeqPrev /\ SameCall(prev, b)
           c == [prev EXCEPT !.m_occurrences = @ + 1, !.to = b.to]
<1>1. /\ stage = "bigrams" /\ stage' = "bigrams" /\ x < L /\ x \in 1..(L + 2)
      /\ batchSeqPrev => x \in 2..(L + 1)
  BY DEF Bigram, IInv, Scalars, LoopOK
<1>2. L \in Nat /\ flow \in Seq(ToSet(flow)) /\ x \in Nat
  BY FlowLength
<1>3. CASE SignatureForRepetitions(flow, x) \notin mapOccurences
  <2>1. flow' = flow /\ numSubst' = numSubst /\ idxBatch' = idxBatch + 1
    BY <1>3 DEF Bigram, flow
  <2> QED  BY <1>1, <2>1 DEF Iteration
<1>4. CASE SignatureForRepetitions(flow, x) \in mapOccurences
  <2>1. /\ numSubst' = numSubst + 1
        /\ flow' = IF periodic THEN Spliced(flow, x - 1, x + 1, c) ELSE Spliced(flow, x, x + 1, b)
    BY <1>4 DEF Bigram, flow
  <2>2. CASE periodic
    <3>1. x - 1 \in 1..L /\ x + 1 \in (x - 1)..L /\ L - ((x + 1) - (x - 1)) < L
      <4> HIDE DEF L, x
      <4> QED  BY <1>1, <1>2, <2>2
    <3>2. Len(Spliced(flow, x - 1, x + 1, c)) = L - ((x + 1) - (x - 1))
      BY <1>2, <3>1, SplicedFacts DEF SplicedTo
    <3>3. Len(flow') < L
      BY <2>1, <2>2, <3>1, <3>2
    <3> QED  BY <1>1, <2>1, <3>3 DEF Iteration
  <2>3. CASE ~periodic
    <3>1. x \in 1..L /\ x + 1 \in x..L /\ L - ((x + 1) - x) < L
      <4> HIDE DEF L, x
      <4> QED  BY <1>1, <1>2
    <3>2. Len(Spliced(flow, x, x + 1, b)) = L - ((x + 1) - x)
      BY <1>2, <3>1, SplicedFacts DEF SplicedTo
    <3>3. Len(flow') < L
      BY <2>1, <2>3, <3>1, <3>2
    <3> QED  BY <1>1, <2>1, <3>3 DEF Iteration
  <2> QED  BY <2>2, <2>3
<1> QED  BY <1>3, <1>4

LEMMA GrowsIterates ==
  ASSUME IInv, Grows
  PROVE  Iteration
<1>1. /\ stage = "args" /\ stage' = "args" /\ idxBatch' = idxBatch + 1 /\ flow' = flow
      /\ idxBatch <= Len(flow) /\ idxLast < idxBatch
      /\ idxLast' = idxLast + 1 \/ idxLast' = idxLast
  BY DEF Grows, IInv, LoopOK, flow
<1>2. Len(flow) \in Nat /\ idxBatch \in Nat /\ idxLast \in Nat
  BY FlowLength
<1>3. idxLast < Len(flow) + 2 /\ Len(flow) <= Len(flow)
  <2> HIDE DEF flow
  <2> QED  BY <1>1, <1>2
<1> QED  BY <1>1, <1>3 DEF Iteration

LEMMA ClusterizeIterates ==
  ASSUME IInv, Clusterize
  PROVE  Iteration
<1> DEFINE L == Len(flow)
           x == idxBatch
           i == idxLast
           b == BatchLetSequence(SubSeq(flow, i, x - 1))
<1>1. /\ stage = "args" /\ stage' = "args" /\ idxLast' = i + 1 /\ x <= L + 1 /\ i < x
      /\ flow' = IF x > i + 1 THEN Spliced(flow, i, x - 1, b) ELSE flow
  BY DEF Clusterize, Clusterized, IInv, LoopOK, flow
<1>2. L \in Nat /\ flow \in Seq(ToSet(flow)) /\ x \in Nat /\ i \in Nat \ {0}
  BY FlowLength
<1>3. i < L + 2 /\ L <= L
  <2> HIDE DEF L, x, i
  <2> QED  BY <1>1, <1>2
<1>4. Len(flow') <= L
  <2>1. CASE x > i + 1
    <3>1. i \in 1..L /\ x - 1 \in i..L /\ L - ((x - 1) - i) <= L
      <4> HIDE DEF L, x, i
      <4> QED  BY <1>1, <1>2, <2>1
    <3>2. Len(Spliced(flow, i, x - 1, b)) = L - ((x - 1) - i)
      <4> HIDE DEF x, i, b
      <4>1. SplicedTo(Spliced(flow, i, x - 1, b), flow, i, x - 1, b)
        BY <1>2, <3>1, SplicedFacts
      <4> QED  BY <4>1 DEF SplicedTo
    <3> QED  BY <1>1, <2>1, <3>1, <3>2
  <2>2. CASE ~(x > i + 1)
    BY <1>1, <1>3, <2>2
  <2> QED  BY <2>1, <2>2
<1> QED  BY <1>1, <1>3, <1>4 DEF Iteration

(* Once the log is read, whatever changes is an iteration.                 *)
LEMMA NextIterates ==
  ASSUME IInv, Next, stage # "reading"
  PROVE  Iteration
<1>1. FactorizeOneFlow
  BY DEF Next, Call, FirstHalf, SecondHalf, Reading, EndOfLog
<1>2. CASE EndOfFilter
  BY <1>2 DEF EndOfFilter, BeginBigrams, Iteration
<1>3. CASE EndOfBigrams
  <2>1. CASE numSubst = 0
    BY <1>3, <2>1 DEF EndOfBigrams, BeginArgs, Iteration
  <2>2. CASE numSubst # 0
    BY <1>3, <2>2 DEF EndOfBigrams, BeginBigrams, Iteration, flow
  <2> QED  BY <2>1, <2>2
<1>4. CASE EndOfArgs
  BY <1>4 DEF EndOfArgs, Iteration
<1> QED  BY <1>1, <1>2, <1>3, <1>4, FilterIterates, BigramIterates, GrowsIterates,
            ClusterizeIterates DEF FactorizeOneFlow

LEMMA SmallerAt ==
  ASSUME NEW a1, NEW a2, NEW a3, NEW b1, NEW b2, NEW b3,
         \/ b1 < a1
         \/ b1 = a1 /\ b2 < a2
         \/ b1 = a1 /\ b2 = a2 /\ b3 < a3
  PROVE  Smaller(<<b1, b2, b3>>, <<a1, a2, a3>>)
<1> DEFINE a == <<a1, a2, a3>>
           b == <<b1, b2, b3>>
<1>1. /\ a[1] = a1 /\ a[2] = a2 /\ a[3] = a3
      /\ b[1] = b1 /\ b[2] = b2 /\ b[3] = b3
  OBVIOUS
<1> HIDE DEF a, b
<1>2. \A j \in 1..(1 - 1) : b[j] = a[j]
  OBVIOUS
<1>3. b1 = a1 => \A j \in 1..(2 - 1) : b[j] = a[j]
  BY <1>1
<1>4. b1 = a1 /\ b2 = a2 => \A j \in 1..(3 - 1) : b[j] = a[j]
  BY <1>1
<1>5. 1 \in 1..3 /\ 2 \in 1..3 /\ 3 \in 1..3
  OBVIOUS
<1>6. Smaller(b, a)
  BY <1>1, <1>2, <1>3, <1>4, <1>5 DEF Smaller
<1> QED  BY <1>6 DEF a, b

Sizes ==
  /\ Len(flow) \in Nat /\ idxBatch \in Nat /\ idxLast \in Nat /\ numSubst \in Nat
  /\ idxBatch <= Len(flow) + 2

LEMMA SizesHold == IInv => Sizes
<1> SUFFICES ASSUME IInv PROVE Sizes
  OBVIOUS
<1>1. Len(flow) \in Nat /\ idxBatch \in Nat /\ idxLast \in Nat /\ numSubst \in Nat
  BY FlowLength
<1>2. idxBatch \in 1..(Len(flow) + 2)
  BY DEF IInv, Scalars
<1>3. idxBatch <= Len(flow) + 2
  <2> HIDE DEF flow
  <2> QED  BY <1>1, <1>2
<1> QED  BY <1>1, <1>3 DEF Sizes

LEMMA IterationLeavesLess ==
  ASSUME Sizes, Sizes', Iteration
  PROVE  Smaller(Remaining', Remaining)
<1>1. CASE stage = "filter" /\ stage' = "filter" /\ idxBatch' = idxBatch + 1 /\ Len(flow') <= Len(flow)
  <2>1. Len(flow') + 2 - idxBatch' < Len(flow) + 2 - idxBatch
    BY <1>1 DEF Sizes
  <2> QED  BY <1>1, <2>1, SmallerAt DEF Remaining
<1>2. CASE stage = "filter" /\ stage' = "bigrams"
  BY <1>2, SmallerAt, 2 < 3 DEF Remaining
<1>3. CASE /\ stage = "bigrams" /\ stage' = "bigrams" /\ numSubst' = numSubst + 1
           /\ Len(flow') < Len(flow)
  <2>1. 2 * Len(flow') + (IF numSubst' = 0 THEN 0 ELSE 1)
          < 2 * Len(flow) + (IF numSubst = 0 THEN 0 ELSE 1)
    BY <1>3 DEF Sizes
  <2> QED  BY <1>3, <2>1, SmallerAt DEF Remaining
<1>4. CASE /\ stage = "bigrams" /\ stage' = "bigrams" /\ numSubst' = numSubst
           /\ Len(flow') = Len(flow) /\ idxBatch' = idxBatch + 1
  <2>1. Len(flow') + 2 - idxBatch' < Len(flow) + 2 - idxBatch
    BY <1>4 DEF Sizes
  <2> QED  BY <1>4, <2>1, SmallerAt DEF Remaining
<1>5. CASE /\ stage = "bigrams" /\ stage' = "bigrams" /\ numSubst # 0 /\ numSubst' = 0
           /\ Len(flow') = Len(flow)
  <2>1. 2 * Len(flow') + (IF numSubst' = 0 THEN 0 ELSE 1)
          < 2 * Len(flow) + (IF numSubst = 0 THEN 0 ELSE 1)
    BY <1>5 DEF Sizes
  <2> QED  BY <1>5, <2>1, SmallerAt DEF Remaining
<1>6. CASE stage = "bigrams" /\ stage' = "args"
  BY <1>6, SmallerAt, 1 < 2 DEF Remaining
<1>7. CASE /\ stage = "args" /\ stage' = "args" /\ idxLast' = idxLast + 1
           /\ idxLast < Len(flow) + 2 /\ Len(flow') <= Len(flow)
  <2>1. Len(flow') + 2 - idxLast' < Len(flow) + 2 - idxLast
    BY <1>7 DEF Sizes
  <2> QED  BY <1>7, <2>1, SmallerAt DEF Remaining
<1>8. CASE /\ stage = "args" /\ stage' = "args" /\ idxLast' = idxLast
           /\ Len(flow') = Len(flow) /\ idxBatch' = idxBatch + 1
  <2>1. Len(flow') + 2 - idxBatch' < Len(flow) + 2 - idxBatch
    BY <1>8 DEF Sizes
  <2> QED  BY <1>8, <2>1, SmallerAt DEF Remaining
<1>9. CASE stage = "args" /\ stage' = "done"
  BY <1>9, SmallerAt, 0 < 1 DEF Remaining
<1> QED  BY <1>1, <1>2, <1>3, <1>4, <1>5, <1>6, <1>7, <1>8, <1>9 DEF Iteration

(* Each iteration of FactorizeOneFlow, in whatever loop and whatever it    *)
(* does to the list, leaves less to do than before it.                     *)
THEOREM IterationsLeaveLess == Spec => LessRemains
<1> DEFINE Lessens == stage # "reading" => Smaller(Remaining', Remaining)
<1>1. Sizes /\ Sizes' /\ IInv /\ [Next]_vars => [Lessens]_vars
  BY NextIterates, IterationLeavesLess
<1>2. Spec => []Sizes
  BY SizesHold, InvariantHolds, PTL
<1>3. [][Lessens]_vars => LessRemains
  BY PTL DEF LessRemains
<1> QED  BY <1>1, <1>2, <1>3, InvariantHolds, PTL DEF Spec

Work == [1..3 -> Nat]

(* Triples of numbers, in the order in which Smaller compares them.        *)
Descent == LexProductOrdering(OpToRel(<, Nat), Nat, 3)

LEMMA RemainingIsWork == IInv /\ Sizes => Remaining \in Work
<1> SUFFICES ASSUME IInv, Sizes PROVE Remaining \in Work
  OBVIOUS
<1>1. ASSUME NEW a \in Nat, NEW b \in Nat, NEW c \in Nat
      PROVE  <<a, b, c>> \in Work
  BY <1>1 DEF Work
<1>2. /\ Len(flow) + 2 - idxBatch \in Nat
      /\ 2 * Len(flow) + (IF numSubst = 0 THEN 0 ELSE 1) \in Nat
  BY DEF Sizes
<1>3. stage = "args" => Len(flow) + 2 - idxLast \in Nat
  BY DEF Sizes, IInv, LoopOK
<1> QED  BY <1>1, <1>2, <1>3 DEF Remaining

LEMMA SmallerDescends ==
  ASSUME NEW a \in Work, NEW b \in Work, Smaller(b, a)
  PROVE  <<b, a>> \in Descent
<1>1. PICK i \in 1..3 : b[i] < a[i] /\ \A j \in 1..(i - 1) : b[j] = a[j]
  BY DEF Smaller
<1>2. <<b[i], a[i]>> \in OpToRel(<, Nat)
  BY <1>1 DEF OpToRel, Work
<1> QED  BY <1>1, <1>2 DEF LexProductOrdering, Work, Descent

(* The loops of FactorizeOneFlow make a finite number of iterations on any *)
(* flow: each of them leads from what remains to do to something below it, *)
(* in an order that has no endless descent.                                *)
THEOREM IterationsDescend ==
  /\ IsWellFoundedOn(Descent, Work)
  /\ Spec => [](Remaining \in Work)
  /\ Spec => [][stage # "reading" => <<Remaining', Remaining>> \in Descent]_vars
<1> DEFINE InWork   == Remaining \in Work
           Lessens  == stage # "reading" => Smaller(Remaining', Remaining)
           Descends == stage # "reading" => <<Remaining', Remaining>> \in Descent
<1>1. IsWellFoundedOn(Descent, Work)
  BY NatLessThanWellFounded, WFLexProductOrdering DEF Work, Descent
<1>2. Spec => []InWork
  <2>1. IInv /\ Sizes => InWork
    BY RemainingIsWork
  <2>2. Spec => []Sizes
    BY SizesHold, InvariantHolds, PTL
  <2> QED  BY <2>1, <2>2, InvariantHolds, PTL
<1>3. InWork /\ InWork' /\ [Lessens]_vars => [Descends]_vars
  BY SmallerDescends
<1>4. LessRemains => [][Lessens]_vars
  BY PTL DEF LessRemains
<1>5. Spec => [][Descends]_vars
  BY <1>2, <1>3, <1>4, IterationsLeaveLess, PTL
<1> QED  BY <1>1, <1>2, <1>5

=============================================================================
