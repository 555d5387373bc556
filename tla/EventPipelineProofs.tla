------------------------- MODULE EventPipelineProofs ------------------------
(***************************************************************************)
(* Proofs about EventPipeline.  The invariant gives the numbers of the     *)
(* triples on each stage of their way; from them each triple is appended   *)
(* once to each of its files, so that the graph of a reader and what is    *)
(* left in a file can be compared.  Then the safety halves of the two      *)
(* liveness properties: nothing is left undone by a client at rest, and a  *)
(* reader cannot go on for ever.                                           *)
(***************************************************************************)
EXTENDS EventPipeline, SequenceTheorems, FiniteSetTheorems, TLAPS

(* The numbers that follow k, in order.                                    *)
InOrderFrom(s, k) == \A i \in 1..Len(s) : s[i] = k + i

NumAdded == Len(sent) + Len(batch) + Len(m_listTriples)

ListsInOrder ==
  /\ InOrderFrom(sent, 0)
  /\ InOrderFrom(batch, Len(sent))
  /\ InOrderFrom(m_listTriples, Len(sent) + Len(batch))
  /\ NumAdded <= last
  /\ m_valid \/ adding => NumAdded = last

ThreadOK ==
  /\ adding => last < MaxTriples
  /\ m_sharedLock = Main => adding
  /\ run \in {"asleep", "holding", "waiting"} => batch = <<>>
  /\ run = "sending" => batch # <<>>

ClientInv == ListsInOrder /\ ThreadOK

(* The number of triples that event_put.py has finished with.              *)
NumDone == Len(sent) - Len(arrived)

InFiles(e, f) == \E k \in 1..Len(FilesOf[e]) : FilesOf[e][k] = f

(* The file comes before those where the triple must still be appended.    *)
Passed(e, f) == \E k \in 1..(Len(FilesOf[e]) - Len(targets)) : FilesOf[e][k] = f

ArrivedInOrder ==
  /\ NumDone >= 0 /\ InOrderFrom(arrived, NumDone)
  /\ arrived # <<>> =>
       /\ Len(targets) <= Len(FilesOf[Head(arrived)])
       /\ \A k \in 1..Len(targets) :
            targets[k] = FilesOf[Head(arrived)][Len(FilesOf[Head(arrived)]) - Len(targets) + k]

StoredInOrder ==
  \A f \in Files : \A e \in stored[f] :
    /\ InFiles(e, f)
    /\ \/ e <= NumDone
       \/ arrived # <<>> /\ e = Head(arrived) /\ Passed(e, f)

ContentStored == \A f \in Files, e \in Events : Holds(f, e) => e \in stored[f]

GraphsStored ==
  \A r \in Readers, f \in Files, e \in Events : <<f, e>> \in reader[r].graph => e \in stored[f]

WriterInv == ArrivedInOrder /\ StoredInOrder /\ ContentStored /\ GraphsStored

ReadingFile ==
  \A r \in Readers : reader[r].pc \in {"reading", "emptying"} => reader[r].at \in Files

(* A reader that is about to empty a file has read what it holds, but for  *)
(* what it missed.                                                         *)
EmptyingRead ==
  \A r \in Readers, f \in Files : reader[r].pc = "emptying" /\ reader[r].at = f =>
    \A e \in Events : Holds(f, e) => <<f, e>> \in reader[r].graph \/ e \in missed[f]

ShownOnce ==
  \A r \in Readers, f \in Files, e \in Events :
    reader[r].pc # "killed" /\ <<f, e>> \in reader[r].graph /\ WrittenOnce(e, f) /\ Holds(f, e) =>
      IsUnreadable(f) \/ (reader[r].pc = "emptying" /\ reader[r].at = f)

ReaderInv == ReadingFile /\ EmptyingRead /\ KeptUnlessMissed /\ ShownOnce

IInv == TypeOK /\ ClientInv /\ WriterInv /\ ReaderInv

-----------------------------------------------------------------------------
(* How the actions change what a file holds.                               *)
LEMMA HoldsAppended ==
  ASSUME StoreTypeOK, NEW f \in Files, NEW x \in Events \cup {Broken},
         content' = [content EXCEPT ![f] = Append(@, x)]
  PROVE  \A g \in Files : \A e : Holds(g, e)' <=> Holds(g, e) \/ (g = f /\ e = x)
<1> DEFINE s == content[f]
<1>1. s \in Seq(Events \cup {Broken}) BY DEF StoreTypeOK
<1>2. /\ Len(Append(s, x)) = Len(s) + 1
      /\ \A i \in 1..Len(s) : Append(s, x)[i] = s[i]
      /\ Append(s, x)[Len(s) + 1] = x
  BY <1>1, AppendProperties
<1>3. content'[f] = Append(s, x) BY DEF StoreTypeOK
<1>4. \A g \in Files : g # f => content'[g] = content[g] BY DEF StoreTypeOK
<1>5. Len(s) \in Nat BY <1>1, LenProperties
<1> HIDE DEF s
<1>6. \A e : (\E i \in 1..Len(content'[f]) : content'[f][i] = e)
              <=> (\E i \in 1..Len(s) : s[i] = e) \/ e = x
  <2> TAKE e
  <2>1. ASSUME NEW i \in 1..Len(content'[f]), content'[f][i] = e
        PROVE  (\E j \in 1..Len(s) : s[j] = e) \/ e = x
    <3>1. i \in 1..Len(s) \/ i = Len(s) + 1 BY <2>1, <1>2, <1>3, <1>5
    <3> QED BY <3>1, <2>1, <1>2, <1>3
  <2>2. ASSUME NEW j \in 1..Len(s), s[j] = e
        PROVE  \E i \in 1..Len(content'[f]) : content'[f][i] = e
    <3>1. j \in 1..Len(content'[f]) BY <1>2, <1>3, <1>5
    <3> QED BY <3>1, <2>2, <1>2, <1>3
  <2>3. Len(s) + 1 \in 1..Len(content'[f]) BY <1>2, <1>3, <1>5
  <2> QED BY <2>1, <2>2, <2>3, <1>2, <1>3
<1>7. \A e : Holds(f, e)' <=> Holds(f, e) \/ e = x BY <1>6 DEF Holds, s
<1>8. \A g \in Files : \A e : g # f => (Holds(g, e)' <=> Holds(g, e)) BY <1>4 DEF Holds
<1> QED BY <1>7, <1>8

LEMMA HoldsEmptied ==
  ASSUME StoreTypeOK, NEW f \in Files, content' = [content EXCEPT ![f] = <<>>]
  PROVE  \A g \in Files : \A e : Holds(g, e)' <=> Holds(g, e) /\ g # f
<1>1. content'[f] = <<>> /\ \A g \in Files : g # f => content'[g] = content[g]
  BY DEF StoreTypeOK
<1>2. \A e : ~Holds(f, e)' BY <1>1 DEF Holds
<1>3. \A g \in Files : \A e : g # f => (Holds(g, e)' <=> Holds(g, e)) BY <1>1 DEF Holds
<1> QED BY <1>2, <1>3

(* A file is unreadable if it holds a line that raises.                    *)
LEMMA UnreadableHolds ==
  \A f : IsUnreadable(f) <=> \E line : Holds(f, line) /\ Raises(line)
BY DEF IsUnreadable, Holds

LEMMA StaysUnreadable ==
  ASSUME NEW f, \A line : Holds(f, line) => Holds(f, line)'
  PROVE  IsUnreadable(f) => IsUnreadable(f)'
<1>1. SUFFICES ASSUME IsUnreadable(f) PROVE IsUnreadable(f)'
  OBVIOUS
<1>2. PICK line : Holds(f, line) /\ Raises(line) BY <1>1, UnreadableHolds
<1>3. Holds(f, line)' BY <1>2
<1> QED BY <1>2, <1>3 DEF Holds, IsUnreadable, Raises

(* The triples that a reader decodes, if no line raises: all of them.      *)
LEMMA DecodedHeld ==
  ASSUME StoreTypeOK, NEW f \in Files
  PROVE  /\ Decoded(f) \subseteq {f} \X Events
         /\ \A e : <<f, e>> \in Decoded(f) => Holds(f, e)
         /\ ~IsUnreadable(f) => \A e \in Events : Holds(f, e) => <<f, e>> \in Decoded(f)
<1>1. Len(content[f]) \in Nat BY LenProperties DEF StoreTypeOK
<1>2. ASSUME ~IsUnreadable(f), NEW e \in Events, Holds(f, e) PROVE <<f, e>> \in Decoded(f)
  <2>1. PICK i \in 1..Len(content[f]) : content[f][i] = e BY <1>2 DEF Holds
  <2>2. \A j \in 1..i : j \in 1..Len(content[f]) BY <1>1
  <2>3. \A j \in 1..i : ~Raises(content[f][j]) BY <2>2, <1>2 DEF IsUnreadable
  <2> QED BY <2>1, <2>3 DEF Decoded
<1> QED BY <1>2 DEF Decoded, Holds

LEMMA OneOrMore == \A n \in Nat : n > 0 => n = 1 \/ (n > 1 /\ n - 1 # 0)
OBVIOUS

(* The way of event_put.py through the triples and their files.            *)
LEMMA WriterFacts ==
  ASSUME TypeOK, ArrivedInOrder, targets # <<>>
  PROVE  /\ FilesOf \in [Events -> Seq(Files \cup {NoFile}) \ {<<>>}] /\ Events = Triples /\ MaxTry \in Nat
         /\ arrived # <<>> /\ arrived \in Seq(Events) /\ targets \in Seq(Files \cup {NoFile})
         /\ Head(arrived) \in Events /\ Head(targets) \in Files \cup {NoFile}
         /\ Len(targets) \in Nat \ {0} /\ Len(arrived) \in Nat \ {0} /\ Len(sent) \in Nat
         /\ NumDone \in Nat /\ Head(arrived) = NumDone + 1
         /\ FilesOf[Head(arrived)] \in Seq(Files \cup {NoFile})
         /\ Len(FilesOf[Head(arrived)]) \in Nat
<1>0. FilesOf \in [Events -> Seq(Files \cup {NoFile}) \ {<<>>}] /\ Events = Triples /\ MaxTry \in Nat
  BY EventStoreAssumption, EventPipelineAssumption
<1>1. arrived \in Seq(Events) /\ targets \in Seq(Files \cup {NoFile}) /\ arrived # <<>> /\ sent \in Seq(Triples)
  BY DEF TypeOK, StoreTypeOK, ClientTypeOK
<1>2. /\ Head(arrived) \in Events /\ Head(arrived) = arrived[1]
      /\ Head(targets) \in Files \cup {NoFile}
      /\ Len(arrived) \in Nat \ {0} /\ Len(targets) \in Nat \ {0} /\ Len(sent) \in Nat
  BY <1>1, HeadTailProperties, EmptySeq, LenProperties
<1>3. NumDone \in Nat /\ Head(arrived) = NumDone + 1
  BY <1>2 DEF ArrivedInOrder, InOrderFrom, NumDone
<1>4. /\ FilesOf[Head(arrived)] \in Seq(Files \cup {NoFile})
      /\ Len(FilesOf[Head(arrived)]) \in Nat
  BY <1>0, <1>2, LenProperties
<1> QED BY <1>0, <1>1, <1>2, <1>3, <1>4

LEMMA NextTripleInOrder ==
  ASSUME TypeOK, ArrivedInOrder, targets # <<>>, NextTriple, sent' = sent
  PROVE  /\ arrived' \in Seq(Events) /\ targets' \in Seq(Files \cup {NoFile}) /\ triesLeft' \in 0..MaxTry
         /\ arrived' = <<>> <=> targets' = <<>>
         /\ ArrivedInOrder'
         /\ \A e \in Events : e <= NumDone \/ e = Head(arrived) => e <= NumDone'
<1>1. /\ FilesOf \in [Events -> Seq(Files \cup {NoFile}) \ {<<>>}] /\ Events = Triples /\ MaxTry \in Nat
      /\ arrived \in Seq(Events) /\ arrived # <<>>
      /\ Len(arrived) \in Nat \ {0} /\ Len(sent) \in Nat
      /\ NumDone \in Nat /\ Head(arrived) = NumDone + 1
  BY WriterFacts
<1>2. /\ Tail(arrived) \in Seq(Events) /\ Len(Tail(arrived)) = Len(arrived) - 1
      /\ \A i \in 1..Len(Tail(arrived)) : Tail(arrived)[i] = arrived[i + 1]
  BY <1>1, HeadTailProperties
<1>3. arrived' = Tail(arrived) /\ triesLeft' \in 0..MaxTry BY <1>1 DEF NextTriple
<1>4. NumDone' = NumDone + 1 BY <1>1, <1>2, <1>3 DEF NumDone
<1>5. InOrderFrom(arrived, NumDone) BY DEF ArrivedInOrder
<1>6. InOrderFrom(arrived, NumDone)' BY <1>1, <1>2, <1>3, <1>4, <1>5 DEF InOrderFrom
<1>7. \A e \in Events : e <= NumDone \/ e = Head(arrived) => e <= NumDone'
  BY <1>1, <1>4, TriplesClientAssumption DEF Triples
<1>8. CASE arrived' = <<>>
  <2>1. targets' = <<>> BY <1>3, <1>8 DEF NextTriple
  <2>2. ArrivedInOrder' BY <1>1, <1>4, <1>6, <1>8 DEF ArrivedInOrder
  <2> QED BY <2>1, <2>2, <1>2, <1>3, <1>7, <1>8
<1>9. CASE arrived' # <<>>
  <2> DEFINE h == Head(arrived')
  <2>1. targets' = FilesOf[h] BY <1>3, <1>9 DEF NextTriple
  <2>2. h \in Events BY <1>2, <1>3, <1>9, HeadTailProperties
  <2>3. targets' \in Seq(Files \cup {NoFile}) /\ targets' # <<>> BY <1>1, <2>1, <2>2
  <2>4. Len(targets') <= Len(FilesOf[h]) BY <2>1, <2>3, LenProperties
  <2>5. \A k \in 1..Len(targets') : targets'[k] = FilesOf[h][Len(FilesOf[h]) - Len(targets') + k]
    <3>1. Len(FilesOf[h]) \in Nat BY <2>1, <2>3, LenProperties
    <3> QED BY <2>1, <3>1
  <2>6. ArrivedInOrder' BY <1>1, <1>4, <1>6, <2>4, <2>5 DEF ArrivedInOrder
  <2> QED BY <2>3, <2>6, <1>2, <1>3, <1>7, <1>9
<1> QED BY <1>8, <1>9

LEMMA NextTargetInOrder ==
  ASSUME TypeOK, ArrivedInOrder, targets # <<>>, NextTarget, sent' = sent
  PROVE  /\ arrived' \in Seq(Events) /\ targets' \in Seq(Files \cup {NoFile}) /\ triesLeft' \in 0..MaxTry
         /\ arrived' = <<>> <=> targets' = <<>>
         /\ ArrivedInOrder'
         /\ \A e \in Events : \A f :
              \/ e <= NumDone
              \/ e = Head(arrived) /\ (Passed(e, f) \/ f = Head(targets))
              => \/ e <= NumDone'
                 \/ arrived' # <<>> /\ e = Head(arrived') /\ Passed(e, f)'
<1>1. /\ FilesOf \in [Events -> Seq(Files \cup {NoFile}) \ {<<>>}] /\ MaxTry \in Nat
      /\ arrived \in Seq(Events) /\ arrived # <<>> /\ Head(arrived) \in Events
      /\ targets \in Seq(Files \cup {NoFile}) /\ NumDone \in Nat
      /\ Len(FilesOf[Head(arrived)]) \in Nat
  BY WriterFacts
<1>2. Len(targets) \in Nat /\ Len(targets) > 0 BY WriterFacts
<1>3. CASE Len(targets) = 1
  <2>1. NextTriple BY <1>3 DEF NextTarget
  <2> QED BY <2>1, NextTripleInOrder
<1>4. CASE Len(targets) > 1
  <2>1. arrived' = arrived /\ targets' = Tail(targets) /\ triesLeft' = MaxTry
    BY <1>2, <1>4 DEF NextTarget
  <2>2. /\ Tail(targets) \in Seq(Files \cup {NoFile}) /\ Len(Tail(targets)) = Len(targets) - 1
        /\ \A i \in 1..Len(Tail(targets)) : Tail(targets)[i] = targets[i + 1]
    BY <1>1, HeadTailProperties
  <2>3. targets' # <<>>
    <3>1. Len(targets') # 0
      <4> DEFINE n == Len(targets)
      <4>1. n \in Nat /\ n > 1 /\ Len(targets') = n - 1 BY <1>2, <1>4, <2>1, <2>2
      <4> HIDE DEF n
      <4> QED BY <4>1
    <3> QED BY <2>1, <3>1, EmptySeq
  <2>4. NumDone' = NumDone BY <2>1 DEF NumDone
  <2> DEFINE h == Head(arrived)
             n == Len(FilesOf[h])
             m == Len(targets)
  <2>5. n \in Nat /\ m \in Nat /\ m > 1 /\ m <= n /\ Len(targets') = m - 1
    BY <1>1, <1>2, <1>4, <2>1, <2>2 DEF ArrivedInOrder
  <2>6. \A k \in 1..m : targets[k] = FilesOf[h][n - m + k] BY <1>1 DEF ArrivedInOrder
  <2> HIDE DEF n, m
  <2>7. \A k \in 1..Len(targets') : targets'[k] = FilesOf[h][n - Len(targets') + k]
    <3> SUFFICES ASSUME NEW k \in 1..Len(targets')
                 PROVE  targets'[k] = FilesOf[h][n - Len(targets') + k]
      OBVIOUS
    <3>1. targets'[k] = targets[k + 1] BY <2>1, <2>2
    <3>2. k + 1 \in 1..m /\ n - m + (k + 1) = n - Len(targets') + k BY <2>5
    <3> QED BY <2>6, <3>1, <3>2
  <2>8. Len(targets') <= n BY <2>5
  <2>9. ArrivedInOrder'
    BY <2>1, <2>4, <2>7, <2>8, <1>1 DEF ArrivedInOrder, InOrderFrom, n
  <2>10. triesLeft' \in 0..MaxTry BY <1>1, <2>1
  <2>11. ASSUME NEW f, Passed(h, f) \/ f = Head(targets) PROVE Passed(h, f)'
    <3>1. PICK k \in 1..(n - m + 1) : FilesOf[h][k] = f
      <4>1. CASE Passed(h, f)
        <5>1. PICK k \in 1..(n - m) : FilesOf[h][k] = f BY <4>1 DEF Passed, n, m
        <5> QED BY <2>5, <5>1
      <4>2. CASE f = Head(targets)
        <5>1. f = targets[1] BY <1>1, <4>2, HeadTailProperties
        <5>2. n - m + 1 \in 1..(n - m + 1) /\ 1 \in 1..m BY <2>5
        <5> QED BY <2>6, <5>1, <5>2
      <4> QED BY <2>11, <4>1, <4>2
    <3>2. k \in 1..(n - Len(targets')) BY <2>5
    <3> QED BY <2>1, <3>1, <3>2 DEF Passed, n
  <2> QED BY <2>1, <2>2, <2>3, <2>4, <2>9, <2>10, <2>11, <1>1
<1>5. Len(targets) > 1 \/ Len(targets) = 1 BY <1>2, OneOrMore
<1> QED BY <1>3, <1>4, <1>5

-----------------------------------------------------------------------------
LEMMA InitOK == Init => IInv
<1> SUFFICES ASSUME Init PROVE IInv OBVIOUS
<1> USE DEF Init, ClientInit, StoreInit, Ended
<1>14. 0 \in 0..MaxTriples BY TriplesClientAssumption
<1>1. ClientTypeOK BY <1>14, EmptySeq DEF ClientTypeOK
<1>2. StoreTypeOK BY EventStoreAssumption DEF StoreTypeOK, ReaderStates
<1>3. Len(sent) = 0 /\ Len(batch) = 0 /\ Len(m_listTriples) = 0 /\ Len(arrived) = 0
  BY EmptySeq
<1>11. NumAdded = 0 /\ last = 0 BY <1>3 DEF NumAdded
<1>12. ListsInOrder BY <1>3, <1>11 DEF ListsInOrder, InOrderFrom
<1>13. ThreadOK BY TriplesClientAssumption DEF ThreadOK
<1>4. ClientInv BY <1>12, <1>13 DEF ClientInv
<1>5. \A f \in Files : \A e : ~Holds(f, e)
  <2> SUFFICES ASSUME NEW f \in Files, NEW e PROVE ~Holds(f, e) OBVIOUS
  <2>1. content[f] = <<>> OBVIOUS
  <2> QED BY <2>1 DEF Holds
<1>6. \A f \in Files : stored[f] = {} OBVIOUS
<1>7. \A r \in Readers : reader[r].graph = {} /\ reader[r].pc = "idle" OBVIOUS
<1>8. ArrivedInOrder BY <1>3 DEF ArrivedInOrder, NumDone, InOrderFrom
<1>9. WriterInv BY <1>5, <1>6, <1>7, <1>8 DEF WriterInv, StoredInOrder, ContentStored, GraphsStored
<1>10. ReaderInv
  BY <1>6, <1>7 DEF ReaderInv, ReadingFile, EmptyingRead, KeptUnlessMissed, ShownOnce
<1> QED BY <1>1, <1>2, <1>4, <1>9, <1>10 DEF IInv, TypeOK

(* What the store relies on does not depend on the thread.                 *)
LEMMA StoreUnchanged ==
  ASSUME IInv, UNCHANGED storeVars, sent' = sent
  PROVE  StoreTypeOK' /\ WriterInv' /\ ReaderInv'
<1> USE DEF storeVars, writerVars
<1>1. StoreTypeOK' BY DEF IInv, TypeOK, StoreTypeOK
<1>2. WriterInv'
  BY DEF IInv, WriterInv, ArrivedInOrder, StoredInOrder, ContentStored, GraphsStored,
         NumDone, InOrderFrom, InFiles, Passed, Holds
<1>3. ReaderInv'
  BY DEF IInv, ReaderInv, ReadingFile, EmptyingRead, KeptUnlessMissed, ShownOnce, IsUnreadable,
         Holds, WrittenOnce, Raises
<1> QED BY <1>1, <1>2, <1>3

LEMMA ListLengths ==
  ASSUME ClientTypeOK
  PROVE  Len(sent) \in Nat /\ Len(batch) \in Nat /\ Len(m_listTriples) \in Nat /\ last \in Nat
BY LenProperties, TriplesClientAssumption DEF ClientTypeOK

LEMMA AnalysisStep ==
  ASSUME ClientTypeOK, ClientInv, AddDataToSend \/ LockToAdd \/ Add \/ EndOfProgram
  PROVE  ClientTypeOK' /\ ClientInv' /\ sent' = sent
<1>0. /\ Len(sent) \in Nat /\ Len(batch) \in Nat /\ Len(m_listTriples) \in Nat
      /\ last \in Nat /\ MaxTriples \in Nat
  BY ListLengths, TriplesClientAssumption
<1>1. CASE AddDataToSend
  <2>0. last' = last \/ (last < MaxTriples /\ last' = last + 1) BY <1>1 DEF AddDataToSend
  <2>1. last' \in 0..MaxTriples BY <1>0, <2>0 DEF ClientTypeOK
  <2>2. adding' \in BOOLEAN BY <1>1 DEF AddDataToSend
  <2>3. ClientTypeOK' BY <1>1, <2>1, <2>2 DEF ClientTypeOK, AddDataToSend
  <2>4. NumAdded' = NumAdded BY <1>1 DEF AddDataToSend, NumAdded
  <2>5. ~m_valid => ~m_valid' /\ ~adding' BY <1>1 DEF AddDataToSend
  <2>6. m_valid => last' = last /\ NumAdded = last
    BY <1>1 DEF AddDataToSend, ClientInv, ListsInOrder
  <2>7. NumAdded \in Nat /\ NumAdded <= last BY <1>0 DEF ClientInv, ListsInOrder, NumAdded
  <2>8. NumAdded' <= last' BY <1>0, <2>0, <2>4, <2>7
  <2>9. m_valid' \/ adding' => NumAdded' = last' BY <2>4, <2>5, <2>6
  <2>10. ListsInOrder'
    BY <1>1, <2>8, <2>9 DEF ClientInv, ListsInOrder, AddDataToSend, InOrderFrom
  <2>11. ThreadOK' BY <1>1 DEF ClientInv, ThreadOK, AddDataToSend
  <2> QED BY <1>1, <2>3, <2>10, <2>11 DEF ClientInv, AddDataToSend
<1>2. CASE LockToAdd
  BY <1>2 DEF LockToAdd, ClientTypeOK, ClientInv, ListsInOrder, ThreadOK, InOrderFrom, NumAdded
<1>3. CASE Add
  <2>1. adding /\ last < MaxTriples /\ NumAdded = last
    BY <1>3 DEF Add, ClientInv, ThreadOK, ListsInOrder
  <2>2. last + 1 \in Triples BY <2>1, <1>0 DEF Triples
  <2>3. m_listTriples \in Seq(Triples) BY DEF ClientTypeOK
  <2>4. /\ m_listTriples' \in Seq(Triples) /\ Len(m_listTriples') = Len(m_listTriples) + 1
        /\ \A i \in 1..Len(m_listTriples) : m_listTriples'[i] = m_listTriples[i]
        /\ m_listTriples'[Len(m_listTriples) + 1] = last + 1
    BY <1>3, <2>2, <2>3, AppendProperties DEF Add
  <2>10. last' \in 0..MaxTriples BY <1>0, <1>3, <2>1 DEF Add
  <2>5. ClientTypeOK' BY <1>3, <2>4, <2>10 DEF ClientTypeOK, Add
  <2>6. InOrderFrom(m_listTriples, Len(sent) + Len(batch))'
    <3> SUFFICES ASSUME NEW i \in 1..Len(m_listTriples')
                 PROVE  m_listTriples'[i] = Len(sent) + Len(batch) + i
      BY <1>3 DEF InOrderFrom, Add
    <3>1. CASE i = Len(m_listTriples) + 1 BY <3>1, <2>1, <2>4, <1>0 DEF NumAdded
    <3>2. CASE i # Len(m_listTriples) + 1
      <4>1. i \in 1..Len(m_listTriples) BY <3>2, <2>4, <1>0
      <4> QED BY <4>1, <2>4 DEF ClientInv, ListsInOrder, InOrderFrom
    <3> QED BY <3>1, <3>2
  <2>7. NumAdded' = last' BY <1>0, <1>3, <2>1, <2>4 DEF Add, NumAdded
  <2>8. ListsInOrder'
    BY <1>0, <1>3, <2>6, <2>7 DEF ClientInv, ListsInOrder, InOrderFrom, Add
  <2>9. ThreadOK' BY <1>3, TriplesClientAssumption DEF ClientInv, ThreadOK, Add
  <2> QED BY <1>3, <2>5, <2>8, <2>9 DEF ClientInv, Add
<1>4. CASE EndOfProgram
  BY <1>4 DEF EndOfProgram, ClientTypeOK, ClientInv, ListsInOrder, ThreadOK, InOrderFrom, NumAdded
<1> QED BY <1>1, <1>2, <1>3, <1>4

LEMMA ThreadStep ==
  ASSUME ClientTypeOK, ClientInv,
         Wake \/ TakeList \/ EncodingFails \/ Response \/ RequestFails
  PROVE  ClientTypeOK' /\ ClientInv' /\ sent' = sent
<1>0. /\ Len(sent) \in Nat /\ Len(batch) \in Nat /\ Len(m_listTriples) \in Nat /\ last \in Nat
  BY ListLengths
<1>1. CASE Wake \/ EncodingFails \/ Response \/ RequestFails
  <2> USE <1>1 DEF Wake, EncodingFails, Response, RequestFails
  <2>1. ClientTypeOK' BY DEF ClientTypeOK
  <2>4. UNCHANGED <<sent, batch, m_listTriples, adding, last>> /\ (m_valid' => m_valid) OBVIOUS
  <2>5. NumAdded' = NumAdded BY <2>4 DEF NumAdded
  <2>2. ListsInOrder' BY <2>4, <2>5 DEF ClientInv, ListsInOrder, InOrderFrom
  <2>3. ThreadOK' BY TriplesClientAssumption DEF ClientInv, ThreadOK
  <2> QED BY <2>1, <2>2, <2>3 DEF ClientInv
<1>2. CASE TakeList
  <2>1. ClientTypeOK' BY <1>2, EmptySeq DEF ClientTypeOK, TakeList
  <2>2. batch = <<>> /\ Len(batch) = 0 BY <1>2, EmptySeq DEF ClientInv, ThreadOK, TakeList
  <2>3. batch' = m_listTriples /\ Len(m_listTriples') = 0 /\ sent' = sent
    BY <1>2, EmptySeq DEF TakeList
  <2>4. NumAdded' = NumAdded BY <1>0, <2>2, <2>3 DEF NumAdded
  <2>5. InOrderFrom(batch, Len(sent))'
    BY <1>0, <2>2, <2>3 DEF ClientInv, ListsInOrder, InOrderFrom
  <2>6. InOrderFrom(m_listTriples, Len(sent) + Len(batch))' BY <2>3 DEF InOrderFrom
  <2>7. ListsInOrder'
    BY <1>2, <2>3, <2>4, <2>5, <2>6 DEF ClientInv, ListsInOrder, InOrderFrom, TakeList
  <2>8. run' = IF m_listTriples = <<>> THEN "asleep" ELSE "sending" BY <1>2 DEF TakeList
  <2>9. m_sharedLock' = None /\ adding' = adding /\ last' = last BY <1>2 DEF TakeList
  <2>10. ThreadOK' BY <2>3, <2>8, <2>9, TriplesClientAssumption DEF ClientInv, ThreadOK
  <2> QED BY <2>1, <2>3, <2>7, <2>10 DEF ClientInv
<1> QED BY <1>1, <1>2

LEMMA ClientStep ==
  ASSUME IInv, Client, UNCHANGED storeVars
  PROVE  IInv'
<1>1. ClientTypeOK /\ ClientInv BY DEF IInv, TypeOK
<1>2. CASE Analysis
  BY <1>1, <1>2, AnalysisStep, StoreUnchanged DEF Analysis, IInv, TypeOK
<1>3. CASE Wake \/ TakeList \/ EncodingFails \/ Answered \/ RequestFails
  BY <1>1, <1>3, ThreadStep, StoreUnchanged DEF Answered, IInv, TypeOK
<1> QED BY <1>2, <1>3 DEF Client

-----------------------------------------------------------------------------
LEMMA RequestStep ==
  ASSUME IInv, Request
  PROVE  IInv'
<1> USE DEF Request, Send, Receive
<1>0. FilesOf \in [Events -> Seq(Files \cup {NoFile}) \ {<<>>}] /\ Events = Triples /\ MaxTry \in Nat
  BY EventStoreAssumption, EventPipelineAssumption
<1>1. ClientTypeOK /\ StoreTypeOK /\ ListsInOrder /\ ThreadOK /\ WriterInv /\ ReaderInv
  BY DEF IInv, TypeOK, ClientInv
<1>2. /\ batch # <<>> /\ arrived = <<>> /\ batch \in Seq(Triples) /\ sent \in Seq(Triples)
      /\ batch' = <<>> /\ arrived' = batch
  BY <1>1 DEF ThreadOK, ClientTypeOK
<1>3. /\ Len(sent) \in Nat /\ Len(batch) \in Nat /\ Len(m_listTriples) \in Nat /\ last \in Nat
      /\ Len(arrived) = 0 /\ Len(batch') = 0
  BY <1>1, <1>2, ListLengths, EmptySeq
<1>4. /\ sent' \in Seq(Triples) /\ Len(sent') = Len(sent) + Len(batch)
      /\ \A i \in 1..(Len(sent) + Len(batch)) :
           sent'[i] = IF i <= Len(sent) THEN sent[i] ELSE batch[i - Len(sent)]
  BY <1>2, ConcatProperties
<1>5. InOrderFrom(sent, 0)'
  <2> SUFFICES ASSUME NEW i \in 1..Len(sent') PROVE sent'[i] = 0 + i BY DEF InOrderFrom
  <2>1. CASE i <= Len(sent)
    <3>1. i \in 1..Len(sent) BY <2>1, <1>3, <1>4
    <3> QED BY <2>1, <3>1, <1>1, <1>4 DEF ListsInOrder, InOrderFrom
  <2>2. CASE i > Len(sent)
    <3>1. i - Len(sent) \in 1..Len(batch) BY <2>2, <1>3, <1>4
    <3>2. sent'[i] = batch[i - Len(sent)] BY <2>2, <1>3, <1>4
    <3>3. batch[i - Len(sent)] = Len(sent) + (i - Len(sent))
      BY <3>1, <1>1 DEF ListsInOrder, InOrderFrom
    <3> QED BY <3>2, <3>3, <1>3
  <2> QED BY <2>1, <2>2, <1>3
<1>6. InOrderFrom(batch, Len(sent))' BY <1>3 DEF InOrderFrom
<1>7. Len(sent') + Len(batch') = Len(sent) + Len(batch) BY <1>3, <1>4
<1>8. InOrderFrom(m_listTriples, Len(sent) + Len(batch))'
  BY <1>1, <1>7 DEF ListsInOrder, InOrderFrom
<1>9. NumAdded' = NumAdded BY <1>7 DEF NumAdded
<1>10. ClientInv'
  BY <1>1, <1>2, <1>5, <1>6, <1>8, <1>9 DEF ClientInv, ListsInOrder, ThreadOK
<1>11. ClientTypeOK' BY <1>1, <1>2, <1>4, EmptySeq DEF ClientTypeOK
<1>12. Head(batch) \in Events BY <1>0, <1>2, HeadTailProperties
<1>13. targets' \in Seq(Files \cup {NoFile}) /\ targets' # <<>> BY <1>0, <1>12
<1>20. /\ UNCHANGED <<content, created, stored, givenUp, missed, failures, reader>>
       /\ triesLeft' = MaxTry
  OBVIOUS
<1>14. StoreTypeOK'
  <2> HIDE DEF Request, Send, Receive
  <2>1. MaxTry \in 0..MaxTry BY <1>0
  <2>2. arrived' \in Seq(Events) /\ arrived' # <<>> BY <1>0, <1>2
  <2> QED BY <1>1, <1>13, <1>20, <2>1, <2>2 DEF StoreTypeOK
<1>15. NumDone' = Len(sent) /\ NumDone = Len(sent) BY <1>2, <1>3, <1>4 DEF NumDone
<1>16. ArrivedInOrder'
  <2>1. InOrderFrom(arrived, NumDone)' BY <1>1, <1>2, <1>15 DEF ListsInOrder, InOrderFrom
  <2>2. Len(targets') <= Len(FilesOf[Head(batch)]) BY <1>0, <1>12, LenProperties
  <2>3. /\ targets' = FilesOf[Head(batch)] /\ Len(targets') \in Nat
        /\ \A k \in 1..Len(targets') : Len(targets') - Len(targets') + k = k
    BY <1>13, LenProperties
  <2> QED BY <1>2, <1>3, <1>15, <2>1, <2>2, <2>3 DEF ArrivedInOrder
<1>17. StoredInOrder' BY <1>1, <1>2, <1>15 DEF WriterInv, StoredInOrder, InFiles, Passed
<1>18. ContentStored' /\ GraphsStored' BY <1>1 DEF WriterInv, ContentStored, GraphsStored, Holds
<1>19. ReaderInv'
  <2> HIDE DEF Request, Send, Receive
  <2>1. ReadingFile' /\ EmptyingRead'
    BY <1>1, <1>20 DEF ReaderInv, ReadingFile, EmptyingRead, Holds
  <2>2. KeptUnlessMissed' BY <1>1, <1>20 DEF ReaderInv, KeptUnlessMissed, Holds
  <2>3. ShownOnce'
    BY <1>1, <1>20 DEF ReaderInv, ShownOnce, IsUnreadable, Holds, WrittenOnce, Raises
  <2> QED BY <2>1, <2>2, <2>3 DEF ReaderInv
<1> QED BY <1>10, <1>11, <1>14, <1>16, <1>17, <1>18, <1>19 DEF IInv, TypeOK, WriterInv

-----------------------------------------------------------------------------
(* event_put.py appends to a file.                                         *)
LEMMA ClientUnchanged ==
  ASSUME ClientTypeOK, ClientInv, UNCHANGED clientVars
  PROVE  ClientTypeOK' /\ ClientInv'
BY DEF clientVars, ClientTypeOK, ClientInv, ListsInOrder, ThreadOK, InOrderFrom, NumAdded

LEMMA AppendStep ==
  ASSUME IInv, AddEventToObject, UNCHANGED clientVars
  PROVE  IInv'
<1> DEFINE f == Head(targets)
           e0 == Head(arrived)
<1>0. FilesOf \in [Events -> Seq(Files \cup {NoFile}) \ {<<>>}] BY EventStoreAssumption
<1>1. TypeOK /\ ClientTypeOK /\ StoreTypeOK /\ ClientInv /\ WriterInv /\ ReaderInv
  BY DEF IInv, TypeOK
<1>2. /\ targets # <<>> /\ arrived # <<>> /\ targets \in Seq(Files \cup {NoFile}) /\ arrived \in Seq(Events)
  BY <1>1 DEF AddEventToObject, StoreTypeOK
<1>3. f \in Files /\ e0 \in Events /\ f = targets[1] /\ e0 = arrived[1]
  BY <1>2, HeadTailProperties DEF AddEventToObject
<1>4. /\ content' = [content EXCEPT ![f] = Append(@, e0)]
      /\ created' = created \cup {f}
      /\ stored' = [stored EXCEPT ![f] = @ \cup {e0}]
      /\ missed' = [missed EXCEPT ![f] = IF Emptying(f) = {} THEN @ ELSE @ \cup {e0}]
      /\ NextTarget /\ UNCHANGED <<givenUp, failures, reader>> /\ sent' = sent
  BY DEF AddEventToObject, clientVars
<1>5. Len(targets) \in Nat /\ Len(targets) > 0 /\ Len(arrived) \in Nat /\ Len(arrived) > 0
  BY <1>2, EmptySeq, LenProperties
<1>6. /\ e0 = NumDone + 1 /\ NumDone \in Nat
      /\ Len(targets) <= Len(FilesOf[e0]) /\ Len(FilesOf[e0]) \in Nat
      /\ f = FilesOf[e0][Len(FilesOf[e0]) - Len(targets) + 1]
  <2>1. 1 \in 1..Len(arrived) BY <1>5
  <2>2. Len(sent) \in Nat BY <1>1, ListLengths
  <2>3. Len(FilesOf[e0]) \in Nat BY <1>0, <1>3, LenProperties
  <2>4. 1 \in 1..Len(targets) BY <1>5
  <2>5. f = FilesOf[e0][Len(FilesOf[e0]) - Len(targets) + 1]
    BY <2>4, <1>1, <1>2, <1>3 DEF WriterInv, ArrivedInOrder
  <2>6. e0 = NumDone + 1 /\ NumDone \in Nat
    BY <2>1, <2>2, <1>1, <1>2, <1>3, <1>5 DEF WriterInv, ArrivedInOrder, InOrderFrom, NumDone
  <2> QED BY <2>3, <2>5, <2>6, <1>1, <1>2 DEF WriterInv, ArrivedInOrder
<1>7. InFiles(e0, f)
  <2>1. Len(FilesOf[e0]) - Len(targets) + 1 \in 1..Len(FilesOf[e0]) BY <1>5, <1>6
  <2> QED BY <2>1, <1>6 DEF InFiles
<1>8. /\ arrived' \in Seq(Events) /\ targets' \in Seq(Files \cup {NoFile}) /\ triesLeft' \in 0..MaxTry
      /\ arrived' = <<>> <=> targets' = <<>>
      /\ ArrivedInOrder'
      /\ \A e \in Events : \A g :
           \/ e <= NumDone
           \/ e = e0 /\ (Passed(e, g) \/ g = f)
           => \/ e <= NumDone'
              \/ arrived' # <<>> /\ e = Head(arrived') /\ Passed(e, g)'
  BY <1>1, <1>2, <1>4, NextTargetInOrder DEF WriterInv
<1> HIDE DEF f, e0
<1>9. \A g \in Files : \A e : Holds(g, e)' <=> Holds(g, e) \/ (g = f /\ e = e0)
  <2>1. StoreTypeOK /\ f \in Files /\ e0 \in Events \cup {Broken} BY <1>1, <1>3
  <2>2. content' = [content EXCEPT ![f] = Append(@, e0)] BY <1>4
  <2> QED BY <2>1, <2>2, HoldsAppended
<1>10. /\ stored'[f] = stored[f] \cup {e0}
       /\ missed'[f] = missed[f] \/ missed'[f] = missed[f] \cup {e0}
       /\ Emptying(f) # {} => missed'[f] = missed[f] \cup {e0}
       /\ \A g \in Files : g # f => stored'[g] = stored[g] /\ missed'[g] = missed[g]
  BY <1>1, <1>3, <1>4 DEF StoreTypeOK
<1>11. StoreTypeOK'
  <2>1. content[f] \in Seq(Events \cup {Broken}) BY <1>1, <1>3 DEF StoreTypeOK
  <2>2. Append(content[f], e0) \in Seq(Events \cup {Broken}) BY <2>1, <1>3, AppendProperties
  <2>3. content' \in [Files -> Seq(Events \cup {Broken})] BY <2>2, <1>1, <1>4 DEF StoreTypeOK
  <2>4. stored' \in [Files -> SUBSET Events] /\ missed' \in [Files -> SUBSET Events]
    BY <1>1, <1>3, <1>4 DEF StoreTypeOK
  <2>5. created' \subseteq Files BY <1>1, <1>3, <1>4 DEF StoreTypeOK
  <2> QED BY <2>3, <2>4, <2>5, <1>1, <1>4, <1>8 DEF StoreTypeOK
<1>12. StoredInOrder'
  <2> SUFFICES ASSUME NEW g \in Files, NEW e \in stored'[g]
               PROVE  /\ InFiles(e, g)
                      /\ \/ e <= NumDone'
                         \/ arrived' # <<>> /\ e = Head(arrived') /\ Passed(e, g)'
    BY DEF StoredInOrder, InFiles
  <2>1. e \in stored[g] \/ (g = f /\ e = e0) BY <1>10
  <2>2. CASE e \in stored[g]
    <3>1. e \in Events BY <2>2, <1>1 DEF StoreTypeOK
    <3>2. InFiles(e, g) BY <2>2, <1>1 DEF WriterInv, StoredInOrder
    <3>3. e <= NumDone \/ (e = e0 /\ Passed(e, g))
      BY <2>2, <1>1 DEF WriterInv, StoredInOrder, e0
    <3> QED BY <3>1, <3>2, <3>3, <1>8
  <2>3. CASE g = f /\ e = e0 BY <2>3, <1>3, <1>6, <1>7, <1>8
  <2> QED BY <2>1, <2>2, <2>3
<1>13. ContentStored' BY <1>1, <1>9, <1>10 DEF WriterInv, ContentStored
<1>14. GraphsStored' BY <1>1, <1>4, <1>10 DEF WriterInv, GraphsStored
<1>15. ReadingFile' BY <1>1, <1>4 DEF ReaderInv, ReadingFile
<1>16. EmptyingRead'
  <2> SUFFICES ASSUME NEW r \in Readers, NEW g \in Files, NEW e \in Events,
                      reader[r].pc = "emptying", reader[r].at = g, Holds(g, e)'
               PROVE  <<g, e>> \in reader[r].graph \/ e \in missed'[g]
    BY <1>4 DEF EmptyingRead
  <2>1. Holds(g, e) \/ (g = f /\ e = e0) BY <1>9
  <2>2. Holds(g, e) => <<g, e>> \in reader[r].graph \/ e \in missed[g]
    BY <1>1 DEF ReaderInv, EmptyingRead
  <2>3. missed[g] \subseteq missed'[g] BY <1>10
  <2>4. g = f => Emptying(f) # {} BY DEF Emptying
  <2> QED BY <2>1, <2>2, <2>3, <2>4, <1>10
<1>17. KeptUnlessMissed' BY <1>1, <1>4, <1>9, <1>10 DEF ReaderInv, KeptUnlessMissed
<1>18. ShownOnce'
  <2> SUFFICES ASSUME NEW r \in Readers, NEW g \in Files, NEW e \in Events,
                      reader[r].pc # "killed", <<g, e>> \in reader[r].graph,
                      WrittenOnce(e, g), Holds(g, e)'
               PROVE  IsUnreadable(g)' \/ (reader[r].pc = "emptying" /\ reader[r].at = g)
    BY <1>4 DEF ShownOnce, WrittenOnce
  <2>1. IsUnreadable(g) => IsUnreadable(g)' BY <1>9, StaysUnreadable
  <2>2. CASE Holds(g, e) BY <2>1, <2>2, <1>1 DEF ReaderInv, ShownOnce
  <2>3. CASE ~Holds(g, e)
    <3>1. g = f /\ e = e0 BY <2>3, <1>9
    <3> DEFINE m == Len(FilesOf[e]) - Len(targets)
    <3>2. e \in stored[g] BY <1>1 DEF WriterInv, GraphsStored
    <3>3. e <= NumDone \/ Passed(e, g) BY <3>2, <1>1 DEF WriterInv, StoredInOrder
    <3>4. Passed(e, g) BY <3>1, <3>3, <1>6
    <3>5. PICK k \in 1..m : FilesOf[e][k] = g BY <3>4 DEF Passed
    <3>6. /\ k \in 1..Len(FilesOf[e]) /\ m + 1 \in 1..Len(FilesOf[e]) /\ k # m + 1
      BY <3>1, <1>5, <1>6
    <3>7. FilesOf[e][m + 1] = g BY <3>1, <1>6
    <3> QED BY <3>5, <3>6, <3>7 DEF WrittenOnce
  <2> QED BY <2>2, <2>3
<1>19. ClientTypeOK' /\ ClientInv' BY <1>1, ClientUnchanged
<1> QED
  BY <1>8, <1>11, <1>12, <1>13, <1>14, <1>15, <1>16, <1>17, <1>18, <1>19
  DEF IInv, TypeOK, WriterInv, ReaderInv

(* A try that fails: a part of a line is not a triple, and nothing else of *)
(* it matters.                                                             *)
LEMMA FailureStep ==
  ASSUME IInv, UNCHANGED <<clientVars, stored, missed, reader>>,
         \A g \in Files, e \in Events : Holds(g, e)' <=> Holds(g, e),
         \A g \in Files : IsUnreadable(g) => IsUnreadable(g)',
         content' \in [Files -> Seq(Events \cup {Broken})],
         created' \subseteq Files,
         failures' = failures \/ (failures < MaxFailures /\ failures' = failures + 1),
         givenUp' \in [Files -> SUBSET Events],
         arrived' \in Seq(Events), targets' \in Seq(Files \cup {NoFile}), triesLeft' \in 0..MaxTry,
         arrived' = <<>> <=> targets' = <<>>,
         ArrivedInOrder', StoredInOrder'
  PROVE  IInv'
<1>1. TypeOK /\ ClientTypeOK /\ StoreTypeOK /\ ClientInv /\ WriterInv /\ ReaderInv
  BY DEF IInv, TypeOK
<1>2. failures' \in 0..MaxFailures
  BY <1>1, EventStoreAssumption DEF StoreTypeOK
<1>3. StoreTypeOK' BY <1>1, <1>2 DEF StoreTypeOK
<1>4. ContentStored' /\ GraphsStored' BY <1>1 DEF WriterInv, ContentStored, GraphsStored
<1>5. \A g \in Files : stored[g] \subseteq Events BY <1>1 DEF StoreTypeOK
<1>6. ReadingFile' /\ EmptyingRead' BY <1>1 DEF ReaderInv, ReadingFile, EmptyingRead
<1>7. KeptUnlessMissed' BY <1>1, <1>5 DEF ReaderInv, KeptUnlessMissed
<1>9. ShownOnce' BY <1>1 DEF ReaderInv, ShownOnce, WrittenOnce
<1>10. ClientTypeOK' /\ ClientInv' BY <1>1, ClientUnchanged
<1> QED
  BY <1>3, <1>4, <1>6, <1>7, <1>9, <1>10 DEF IInv, TypeOK, WriterInv, ReaderInv

LEMMA AppendFailsStep ==
  ASSUME IInv, AddEventFails, UNCHANGED clientVars
  PROVE  IInv'
<1> DEFINE f == Head(targets)
           e0 == Head(arrived)
<1>0. Broken \notin Events BY EventStoreAssumption
<1>1. TypeOK /\ StoreTypeOK /\ WriterInv /\ ArrivedInOrder /\ StoredInOrder /\ targets # <<>>
  BY DEF IInv, TypeOK, WriterInv, AddEventFails
<1>2. f \in Files /\ e0 \in Events /\ MaxTry \in Nat /\ arrived # <<>>
  BY <1>1, WriterFacts DEF AddEventFails
<1>3. /\ content' = content \/ content' = [content EXCEPT ![f] = Append(@, Broken)]
      /\ created' = created \/ created' = created \cup {f}
      /\ \/ triesLeft > 1 /\ triesLeft' = triesLeft - 1 /\ UNCHANGED <<arrived, targets, givenUp>>
         \/ NextTarget
      /\ failures < MaxFailures /\ failures' = failures + 1
      /\ givenUp' = givenUp \/ givenUp' = [givenUp EXCEPT ![f] = @ \cup {e0}]
      /\ UNCHANGED <<stored, missed, reader>> /\ sent' = sent
  BY DEF AddEventFails, clientVars
<1> HIDE DEF f, e0
<1>4. /\ \A g \in Files, e \in Events : Holds(g, e)' <=> Holds(g, e)
      /\ \A g \in Files : IsUnreadable(g) => IsUnreadable(g)'
  <2>1. CASE content' = content
    <3>1. \A g \in Files : \A e : Holds(g, e)' <=> Holds(g, e) BY <2>1 DEF Holds
    <3> QED BY <3>1, StaysUnreadable
  <2>2. CASE content' = [content EXCEPT ![f] = Append(@, Broken)]
    <3>1. Broken \in Events \cup {Broken} OBVIOUS
    <3>2. \A g \in Files : \A e : Holds(g, e)' <=> Holds(g, e) \/ (g = f /\ e = Broken)
      BY <2>2, <3>1, <1>1, <1>2, HoldsAppended
    <3> QED BY <3>2, <1>0, StaysUnreadable
  <2> QED BY <2>1, <2>2, <1>3
<1>5. /\ arrived' \in Seq(Events) /\ targets' \in Seq(Files \cup {NoFile}) /\ triesLeft' \in 0..MaxTry
      /\ arrived' = <<>> <=> targets' = <<>>
      /\ ArrivedInOrder' /\ StoredInOrder'
  <2>1. CASE triesLeft > 1 /\ triesLeft' = triesLeft - 1 /\ UNCHANGED <<arrived, targets, givenUp>>
    <3>1. triesLeft' \in 0..MaxTry BY <2>1, <1>1, <1>2 DEF StoreTypeOK
    <3>2. ArrivedInOrder' /\ StoredInOrder'
      BY <2>1, <1>1, <1>3
      DEF ArrivedInOrder, StoredInOrder, NumDone, InOrderFrom, InFiles, Passed
    <3> QED BY <2>1, <3>1, <3>2, <1>1 DEF StoreTypeOK
  <2>2. CASE NextTarget
    <3>1. /\ arrived' \in Seq(Events) /\ targets' \in Seq(Files \cup {NoFile}) /\ triesLeft' \in 0..MaxTry
          /\ arrived' = <<>> <=> targets' = <<>>
          /\ ArrivedInOrder'
          /\ \A e \in Events : \A g :
               \/ e <= NumDone
               \/ e = Head(arrived) /\ (Passed(e, g) \/ g = Head(targets))
               => \/ e <= NumDone'
                  \/ arrived' # <<>> /\ e = Head(arrived') /\ Passed(e, g)'
      BY <2>2, <1>1, <1>3, NextTargetInOrder
    <3>3. ASSUME NEW g \in Files, NEW e \in stored[g]
          PROVE  InFiles(e, g) /\ (e <= NumDone \/ (e = Head(arrived) /\ Passed(e, g)))
      BY <1>1 DEF StoredInOrder
    <3>4. \A g \in Files : stored[g] \subseteq Events BY <1>1 DEF StoreTypeOK
    <3>5. StoredInOrder' BY <3>1, <3>3, <3>4, <1>3 DEF StoredInOrder, InFiles
    <3> QED BY <3>1, <3>5
  <2> QED BY <2>1, <2>2, <1>3
<1>6. content' \in [Files -> Seq(Events \cup {Broken})]
  <2>1. content[f] \in Seq(Events \cup {Broken}) BY <1>1, <1>2 DEF StoreTypeOK
  <2>2. Append(content[f], Broken) \in Seq(Events \cup {Broken}) BY <2>1, AppendProperties
  <2> QED BY <2>2, <1>1, <1>3 DEF StoreTypeOK
<1>7. givenUp' \in [Files -> SUBSET Events]
  <2>1. givenUp \in [Files -> SUBSET Events] BY <1>1 DEF StoreTypeOK
  <2>2. givenUp' = givenUp \/ givenUp' = [givenUp EXCEPT ![f] = @ \cup {e0}] BY <1>3
  <2> QED BY <2>1, <2>2, <1>2
<1>8. created' \subseteq Files BY <1>1, <1>2, <1>3 DEF StoreTypeOK
<1> QED BY <1>3, <1>4, <1>5, <1>6, <1>7, <1>8, FailureStep

(* data_store raises, whether a directory cannot be made or no file can be *)
(* named.                                                                  *)
LEMMA DataStoreRaisesStep ==
  ASSUME IInv, DataStoreFails \/ MonikerRaises, UNCHANGED clientVars
  PROVE  IInv'
<1>1. TypeOK /\ StoreTypeOK /\ WriterInv /\ ArrivedInOrder /\ StoredInOrder /\ targets # <<>>
  BY DEF IInv, TypeOK, WriterInv, DataStoreFails, MonikerRaises
<1>2. Head(arrived) \in Events BY <1>1, WriterFacts
<1>3. /\ NextTriple /\ sent' = sent /\ DataStoreRaises
      /\ failures' = failures \/ (failures < MaxFailures /\ failures' = failures + 1)
      /\ UNCHANGED <<content, created, stored, missed, reader>>
  BY DEF DataStoreFails, MonikerRaises, DataStoreRaises, clientVars
<1>4. /\ \A g \in Files, e \in Events : Holds(g, e)' <=> Holds(g, e)
      /\ \A g \in Files : IsUnreadable(g) => IsUnreadable(g)'
  <2>1. \A g \in Files : \A e : Holds(g, e)' <=> Holds(g, e) BY <1>3 DEF Holds
  <2> QED BY <2>1, StaysUnreadable
<1>5. /\ arrived' \in Seq(Events) /\ targets' \in Seq(Files \cup {NoFile}) /\ triesLeft' \in 0..MaxTry
      /\ arrived' = <<>> <=> targets' = <<>>
      /\ ArrivedInOrder'
      /\ \A e \in Events : e <= NumDone \/ e = Head(arrived) => e <= NumDone'
  BY <1>1, <1>3, NextTripleInOrder
<1>6. StoredInOrder'
  <2>1. \A g \in Files : stored[g] \subseteq Events BY <1>1 DEF StoreTypeOK
  <2>2. \A g \in Files : \A e \in stored[g] :
          InFiles(e, g) /\ (e <= NumDone \/ e = Head(arrived))
    BY <1>1 DEF StoredInOrder
  <2> QED BY <2>1, <2>2, <1>3, <1>5 DEF StoredInOrder, InFiles
<1>7. givenUp' \in [Files -> SUBSET Events] BY <1>1, <1>2, <1>3 DEF DataStoreRaises, StoreTypeOK
<1>8. content' \in [Files -> Seq(Events \cup {Broken})] /\ created' \subseteq Files
  BY <1>1, <1>3 DEF StoreTypeOK
<1> QED BY <1>3, <1>4, <1>5, <1>6, <1>7, <1>8, FailureStep

-----------------------------------------------------------------------------
(* A step of a reader that leaves the files as they are.                   *)
LEMMA ReaderMoves ==
  ASSUME IInv, UNCHANGED <<clientVars, content, created, writerVars>>,
         failures' \in 0..MaxFailures,
         NEW r \in Readers,
         reader' \in [Readers -> ReaderStates],
         \A q \in Readers : q # r => reader'[q] = reader[q],
         reader'[r].pc \in {"reading", "emptying"} => reader'[r].at \in Files,
         reader[r].graph \subseteq reader'[r].graph,
         \A f \in Files, e \in Events :
           <<f, e>> \in reader'[r].graph => <<f, e>> \in reader[r].graph \/ e \in stored[f],
         \A f \in Files : reader'[r].pc = "emptying" /\ reader'[r].at = f =>
           \A e \in Events : Holds(f, e) => <<f, e>> \in reader'[r].graph \/ e \in missed[f],
         reader'[r].pc # "killed" =>
           \A f \in Files, e \in Events :
             <<f, e>> \in reader'[r].graph /\ WrittenOnce(e, f) /\ Holds(f, e) =>
               IsUnreadable(f) \/ (reader'[r].pc = "emptying" /\ reader'[r].at = f)
  PROVE  IInv'
<1>1. ClientTypeOK /\ StoreTypeOK /\ ClientInv /\ WriterInv /\ ReaderInv BY DEF IInv, TypeOK
<1>2. UNCHANGED <<content, created, arrived, targets, triesLeft, stored, givenUp, missed, sent>>
  BY DEF writerVars, clientVars
<1>3. ClientTypeOK' /\ ClientInv' BY <1>1, ClientUnchanged
<1>4. StoreTypeOK' BY <1>1, <1>2 DEF StoreTypeOK
<1>5. ArrivedInOrder' /\ StoredInOrder' /\ ContentStored'
  <2>1. NumDone' = NumDone BY <1>2 DEF NumDone
  <2>2. ArrivedInOrder' BY <1>1, <1>2, <2>1 DEF WriterInv, ArrivedInOrder, InOrderFrom, InFiles
  <2>3. StoredInOrder' BY <1>1, <1>2, <2>1 DEF WriterInv, StoredInOrder, InFiles, Passed
  <2>4. ContentStored' BY <1>1, <1>2 DEF WriterInv, ContentStored, Holds
  <2> QED BY <2>2, <2>3, <2>4
<1>6. GraphsStored'
  <2> SUFFICES ASSUME NEW q \in Readers, NEW f \in Files, NEW e \in Events,
                      <<f, e>> \in reader'[q].graph
               PROVE  e \in stored[f]
    BY <1>2 DEF GraphsStored
  <2>1. <<f, e>> \in reader[q].graph \/ e \in stored[f]
    <3>1. CASE q = r BY <3>1
    <3>2. CASE q # r BY <3>2
    <3> QED BY <3>1, <3>2
  <2> QED BY <2>1, <1>1 DEF WriterInv, GraphsStored
<1>7. ReadingFile' BY <1>1 DEF ReaderInv, ReadingFile
<1>8. \A f \in Files : \A e : (Holds(f, e)' <=> Holds(f, e)) BY <1>2 DEF Holds
<1>9. \A f \in Files : (IsUnreadable(f)' <=> IsUnreadable(f))
  BY <1>2 DEF IsUnreadable, Raises
<1>10. EmptyingRead' BY <1>1, <1>2, <1>8 DEF ReaderInv, EmptyingRead
<1>11. \A q \in Readers : reader[q].graph \subseteq reader'[q].graph OBVIOUS
<1>12. KeptUnlessMissed' BY <1>1, <1>2, <1>8, <1>11 DEF ReaderInv, KeptUnlessMissed
<1>13. ShownOnce'
  <2> SUFFICES ASSUME NEW q \in Readers, NEW f \in Files, NEW e \in Events,
                      reader'[q].pc # "killed", <<f, e>> \in reader'[q].graph,
                      WrittenOnce(e, f), Holds(f, e)
               PROVE  IsUnreadable(f) \/ (reader'[q].pc = "emptying" /\ reader'[q].at = f)
    BY <1>8, <1>9 DEF ShownOnce, WrittenOnce
  <2>1. CASE q = r BY <2>1
  <2>2. CASE q # r BY <2>2, <1>1 DEF ReaderInv, ShownOnce
  <2> QED BY <2>1, <2>2
<1> QED BY <1>3, <1>4, <1>5, <1>6, <1>7, <1>10, <1>12, <1>13 DEF IInv, TypeOK, WriterInv, ReaderInv

LEMMA ReaderFields ==
  ASSUME NEW x \in ReaderStates, NEW pc \in {"reading", "emptying"},
         NEW maxTry \in 0..MaxTry, NEW graph \in SUBSET (Files \X Events)
  PROVE  /\ [x EXCEPT !.pc = pc, !.maxTry = maxTry, !.graph = graph] \in ReaderStates
         /\ [x EXCEPT !.maxTry = maxTry, !.graph = graph] \in ReaderStates
BY DEF ReaderStates

LEMMA TryAgainReader ==
  ASSUME reader \in [Readers -> ReaderStates], NEW r \in Readers, NEW graph, TryAgain(r, graph)
  PROVE  /\ reader'[r] = IF reader[r].maxTry - 1 > 0
                         THEN [reader[r] EXCEPT !.maxTry = reader[r].maxTry - 1, !.graph = graph]
                         ELSE Between(reader[r].todo, graph)
         /\ \A q \in Readers : q # r => reader'[q] = reader[q]
         /\ reader' = [reader EXCEPT ![r] = reader'[r]]
<1> DEFINE y == IF reader[r].maxTry - 1 > 0
                THEN [reader[r] EXCEPT !.maxTry = reader[r].maxTry - 1, !.graph = graph]
                ELSE Between(reader[r].todo, graph)
<1>1. reader' = [reader EXCEPT ![r] = y] BY DEF TryAgain
<1> HIDE DEF y
<1>2. reader'[r] = y BY <1>1
<1>3. /\ \A q \in Readers : q # r => reader'[q] = reader[q]
      /\ reader' = [reader EXCEPT ![r] = reader'[r]]
  BY <1>1
<1> QED BY <1>2, <1>3 DEF y

LEMMA ReaderStep ==
  ASSUME IInv, NEW r \in Readers, UNCHANGED clientVars,
         Walk(r) \/ (\E f \in Files : NextFile(r, f)) \/ ReadLines(r) \/ OpenFails(r)
         \/ Answer(r) \/ Kill(r)
  PROVE  IInv'
<1> DEFINE x == reader[r]
           x1 == reader'[r]
<1>0. NoFile \notin Files /\ MaxTry \in Nat \ {0} /\ MaxFailures \in Nat BY EventStoreAssumption
<1>1. ClientTypeOK /\ StoreTypeOK /\ WriterInv /\ ReaderInv BY DEF IInv, TypeOK
<1>2. x \in ReaderStates /\ reader \in [Readers -> ReaderStates] /\ failures \in 0..MaxFailures
  BY <1>1 DEF StoreTypeOK
<1>3. \A f \in Files :
        /\ Decoded(f) \subseteq {f} \X Events
        /\ \A e \in Events : <<f, e>> \in Decoded(f) => e \in stored[f]
  BY <1>1, DecodedHeld DEF WriterInv, ContentStored
<1>4. /\ \A f \in Files, e \in Events : <<f, e>> \in x.graph => e \in stored[f]
      /\ x.pc \notin {"killed", "emptying"} =>
           \A f \in Files, e \in Events :
             <<f, e>> \in x.graph /\ WrittenOnce(e, f) /\ Holds(f, e) => IsUnreadable(f)
  BY <1>1 DEF WriterInv, GraphsStored, ReaderInv, ShownOnce
<1>5. CASE Walk(r)
  <2>1. x1 = [x EXCEPT !.pc = "walking", !.todo = created] BY <1>2, <1>5 DEF Walk
  <2>2. \A q \in Readers : q # r => reader'[q] = reader[q] BY <1>5, <1>2 DEF Walk
  <2>3. created \subseteq Files BY <1>1 DEF StoreTypeOK
  <2>4. reader' \in [Readers -> ReaderStates] BY <1>2, <1>5, <2>3 DEF Walk, ReaderStates
  <2>5. x1.pc = "walking" /\ x1.graph = x.graph BY <1>2, <2>1 DEF ReaderStates
  <2>6. x.pc = "idle" /\ failures' = failures /\ UNCHANGED <<content, created, writerVars>>
    BY <1>5 DEF Walk
  <2> HIDE DEF x, x1
  <2> QED BY <1>2, <1>4, <2>2, <2>4, <2>5, <2>6, ReaderMoves DEF x, x1
<1>6. CASE \E f \in Files : NextFile(r, f)
  <2>1. PICK f \in Files : NextFile(r, f) BY <1>6
  <2> DEFINE y == [pc |-> "reading", todo |-> x.todo \ {f}, at |-> f,
                   maxTry |-> MaxTry, graph |-> x.graph]
  <2>2. y \in ReaderStates BY <1>0, <1>2 DEF ReaderStates
  <2>3. reader' = [reader EXCEPT ![r] = y] BY <2>1 DEF NextFile
  <2> HIDE DEF y
  <2>4. x1 = y /\ \A q \in Readers : q # r => reader'[q] = reader[q] BY <1>2, <2>3
  <2>5. reader' \in [Readers -> ReaderStates] BY <1>2, <2>2, <2>3
  <2>6. x1.pc = "reading" /\ x1.graph = x.graph /\ x1.at = f BY <2>4 DEF y
  <2>7. x.pc = "walking" /\ failures' = failures /\ UNCHANGED <<content, created, writerVars>>
    BY <2>1 DEF NextFile
  <2> HIDE DEF x, x1
  <2> QED BY <1>2, <1>4, <2>4, <2>5, <2>6, <2>7, ReaderMoves DEF x, x1
<1>7. CASE ReadLines(r) \/ OpenFails(r)
  <2> DEFINE f == x.at
             read == IF ReadLines(r) THEN Decoded(f) ELSE {}
  <2>1. x.pc = "reading" /\ f \in Files
    BY <1>1, <1>7 DEF ReadLines, OpenFails, ReaderInv, ReadingFile
  <2>2. x.graph \cup Decoded(f) \subseteq Files \X Events BY <1>2, <1>3, <2>1 DEF ReaderStates
  <2>3. /\ \/ ~IsUnreadable(f) /\ ReadLines(r)
              /\ x1 = [x EXCEPT !.pc = "emptying", !.maxTry = 0, !.graph = @ \cup Decoded(f)]
           \/ /\ IsUnreadable(f) \/ read = {}
              /\ x1 = IF x.maxTry - 1 > 0
                      THEN [x EXCEPT !.maxTry = x.maxTry - 1, !.graph = @ \cup read]
                      ELSE Between(x.todo, x.graph \cup read)
        /\ \A q \in Readers : q # r => reader'[q] = reader[q]
        /\ reader' = [reader EXCEPT ![r] = x1]
    <3>1. CASE ReadLines(r) /\ ~IsUnreadable(f) BY <1>2, <3>1 DEF ReadLines
    <3>2. CASE ReadLines(r) /\ IsUnreadable(f)
      <4>1. TryAgain(r, x.graph \cup read) /\ IsUnreadable(f) BY <3>2 DEF ReadLines
      <4> QED BY <4>1, <1>2, TryAgainReader
    <3>3. CASE OpenFails(r) /\ ~ReadLines(r)
      <4>1. TryAgain(r, x.graph \cup read) /\ read = {} BY <3>3 DEF OpenFails
      <4> QED BY <4>1, <1>2, TryAgainReader
    <3> QED BY <1>7, <3>1, <3>2, <3>3
  <2>15. read \subseteq Decoded(f) OBVIOUS
  <2>4. read \subseteq Decoded(f) /\ UNCHANGED <<content, created, writerVars>>
    BY <2>15, <1>7 DEF ReadLines, OpenFails
  <2>5. failures' \in 0..MaxFailures
    <3>1. failures' = failures \/ (failures < MaxFailures /\ failures' = failures + 1)
      BY <1>7 DEF ReadLines, OpenFails
    <3> QED BY <3>1, <1>0, <1>2
  <2> HIDE DEF f, read
  <2>6. x1 \in ReaderStates
    <3> DEFINE all  == [x EXCEPT !.pc = "emptying", !.maxTry = 0, !.graph = @ \cup Decoded(f)]
               again == [x EXCEPT !.maxTry = x.maxTry - 1, !.graph = @ \cup read]
               next == Between(x.todo, x.graph \cup read)
    <3>1. x.graph \cup read \subseteq Files \X Events
      <4> HIDE DEF x, x1
      <4> QED BY <2>2, <2>15, Zenon
    <3>2. CASE x1 = all
      <4> HIDE DEF x, x1
      <4>1. 0 \in 0..MaxTry BY <1>0
      <4>2. x.graph \cup Decoded(f) \in SUBSET (Files \X Events) BY <2>2
      <4>3. x1 = [x EXCEPT !.pc = "emptying", !.maxTry = 0, !.graph = x.graph \cup Decoded(f)]
        BY <3>2, Zenon
      <4> QED BY <1>2, <4>1, <4>2, <4>3 DEF ReaderStates
    <3>3. CASE x.maxTry - 1 > 0 /\ x1 = again
      <4>1. x.maxTry - 1 \in 0..MaxTry BY <1>0, <1>2, <3>3 DEF ReaderStates
      <4> HIDE DEF x, x1
      <4> QED BY <1>2, <2>1, <3>1, <3>3, <4>1, ReaderFields
    <3>4. CASE x1 = next
      BY <1>0, <1>2, <3>1, <3>4 DEF ReaderStates, Between
    <3> HIDE DEF x, x1
    <3>5. x1 = all \/ x1 = IF x.maxTry - 1 > 0 THEN again ELSE next
      BY <2>3, Zenon
    <3> HIDE DEF all, again, next
    <3> QED BY <3>2, <3>3, <3>4, <3>5
  <2>7. /\ x1.graph = x.graph \cup Decoded(f) \/ x1.graph = x.graph \cup read
        /\ x1.pc = "emptying" => ~IsUnreadable(f) /\ x1.at = f /\ x1.graph = x.graph \cup Decoded(f)
        /\ x1.pc # "emptying" => (IsUnreadable(f) \/ read = {}) /\ x1.graph = x.graph \cup read
        /\ x1.pc \in {"reading", "emptying"} => x1.at = f
    <3> USE <1>2 DEF ReaderStates
    <3>1. x.at = f BY DEF f
    <3> HIDE DEF x, x1
    <3>2. CASE x1 = [x EXCEPT !.pc = "emptying", !.maxTry = 0, !.graph = @ \cup Decoded(f)]
               /\ ~IsUnreadable(f)
      <4>1. x1.graph = x.graph \cup Decoded(f) /\ x1.pc = "emptying" /\ x1.at = x.at BY <3>2
      <4> QED BY <3>1, <3>2, <4>1
    <3>3. CASE x1 = [x EXCEPT !.maxTry = x.maxTry - 1, !.graph = @ \cup read]
               /\ (IsUnreadable(f) \/ read = {})
      <4>1. x1.graph = x.graph \cup read /\ x1.pc = x.pc /\ x1.at = x.at BY <3>3
      <4> QED BY <2>1, <3>1, <3>3, <4>1
    <3>4. CASE x1 = Between(x.todo, x.graph \cup read) /\ (IsUnreadable(f) \/ read = {})
      BY <3>4 DEF Between
    <3> QED BY <2>3, <3>2, <3>3, <3>4, Zenon
  <2>8. reader' \in [Readers -> ReaderStates] BY <1>2, <2>3, <2>6
  <2>9. \A g, e : <<g, e>> \in Decoded(f) => g = f BY <1>3, <2>1
  <2>10. \A g \in Files, e \in Events :
           <<g, e>> \in x1.graph => <<g, e>> \in x.graph \/ e \in stored[g]
    BY <1>3, <2>1, <2>4, <2>7, <2>9
  <2>11. \A g \in Files : x1.pc = "emptying" /\ x1.at = g =>
           \A e \in Events : Holds(g, e) => <<g, e>> \in x1.graph \/ e \in missed[g]
    BY <1>1, <2>1, <2>7, DecodedHeld
  <2>12. \A g \in Files, e \in Events :
           <<g, e>> \in x1.graph /\ WrittenOnce(e, g) /\ Holds(g, e) =>
             IsUnreadable(g) \/ (x1.pc = "emptying" /\ x1.at = g)
    BY <1>4, <2>1, <2>4, <2>7, <2>9
  <2>13. x.graph \subseteq x1.graph BY <2>7
  <2>14. x1.pc \in {"reading", "emptying"} => x1.at \in Files BY <2>1, <2>7
  <2> HIDE DEF x, x1
  <2> QED
    BY <2>3, <2>4, <2>5, <2>8, <2>10, <2>11, <2>12, <2>13, <2>14, ReaderMoves DEF x, x1
<1>8. CASE Answer(r) \/ Kill(r)
  <2>1. x1 = Ended("answered", x.graph) \/ x1 = Ended("killed", x.graph)
    BY <1>2, <1>8 DEF Answer, Kill
  <2>2. x1 = Ended("answered", x.graph) => x.pc = "walking" BY <1>2, <1>8 DEF Answer, Kill, Ended
  <2>3. \A q \in Readers : q # r => reader'[q] = reader[q] BY <1>8, <1>2 DEF Answer, Kill
  <2>4. x1 \in ReaderStates BY <1>0, <1>2, <2>1 DEF ReaderStates, Ended
  <2>5. reader' \in [Readers -> ReaderStates] BY <1>2, <1>8, <2>4 DEF Answer, Kill
  <2>6. x1.graph = x.graph /\ x1.pc \in {"answered", "killed"} /\ (x1.pc # "killed" => x.pc = "walking")
    BY <2>1, <2>2 DEF Ended
  <2>7. failures' = failures /\ UNCHANGED <<content, created, writerVars>>
    BY <1>8 DEF Answer, Kill
  <2> HIDE DEF x, x1
  <2> QED BY <1>2, <1>4, <2>3, <2>5, <2>6, <2>7, ReaderMoves DEF x, x1
<1> QED BY <1>5, <1>6, <1>7, <1>8

(* What the reader did not miss of the file that it empties is in its      *)
(* graph, and nothing of it is left there.                                 *)
LEMMA TruncateStep ==
  ASSUME IInv, NEW r \in Readers, UNCHANGED clientVars, Truncate(r)
  PROVE  IInv'
<1> DEFINE f == reader[r].at
<1>0. NoFile \notin Files /\ MaxTry \in Nat BY EventStoreAssumption
<1>1. ClientTypeOK /\ StoreTypeOK /\ ClientInv /\ WriterInv /\ ReaderInv BY DEF IInv, TypeOK
<1>2. /\ reader[r].pc = "emptying" /\ f \in Files
      /\ content' = [content EXCEPT ![f] = <<>>]
      /\ UNCHANGED <<created, arrived, targets, triesLeft, stored, givenUp, missed, failures, sent>>
  BY <1>1 DEF Truncate, ReaderInv, ReadingFile, writerVars, clientVars
<1>3. reader \in [Readers -> ReaderStates] BY <1>1 DEF StoreTypeOK
<1>4. /\ reader' = [reader EXCEPT ![r] = Between(reader[r].todo, reader[r].graph)]
      /\ reader'[r] = Between(reader[r].todo, reader[r].graph)
      /\ \A q \in Readers : q # r => reader'[q] = reader[q]
  BY <1>3 DEF Truncate
<1>5. Between(reader[r].todo, reader[r].graph) \in ReaderStates
  BY <1>0, <1>3 DEF Between, ReaderStates
<1>6. /\ reader'[r].pc = "walking"
      /\ \A q \in Readers : reader'[q].graph = reader[q].graph
      /\ reader' \in [Readers -> ReaderStates]
  BY <1>3, <1>4, <1>5 DEF Between
<1> HIDE DEF f
<1>7. \A g \in Files : \A e : Holds(g, e)' <=> Holds(g, e) /\ g # f BY <1>1, <1>2, HoldsEmptied
<1>8. \A g \in Files : g # f /\ IsUnreadable(g) => IsUnreadable(g)' BY <1>7, StaysUnreadable
<1>9. StoreTypeOK'
  <2>1. content' \in [Files -> Seq(Events \cup {Broken})] BY <1>1, <1>2 DEF StoreTypeOK
  <2> QED BY <2>1, <1>1, <1>2, <1>6 DEF StoreTypeOK
<1>10. ArrivedInOrder' /\ StoredInOrder'
  <2>1. NumDone' = NumDone BY <1>2 DEF NumDone
  <2>2. ArrivedInOrder' BY <1>1, <1>2, <2>1 DEF WriterInv, ArrivedInOrder, InOrderFrom, InFiles
  <2>3. StoredInOrder' BY <1>1, <1>2, <2>1 DEF WriterInv, StoredInOrder, InFiles, Passed
  <2> QED BY <2>2, <2>3
<1>11. ContentStored' BY <1>1, <1>2, <1>7 DEF WriterInv, ContentStored
<1>12. GraphsStored' BY <1>1, <1>2, <1>6 DEF WriterInv, GraphsStored
<1>13. ReadingFile' BY <1>1, <1>4, <1>6 DEF ReaderInv, ReadingFile
<1>14. EmptyingRead'
  <2> SUFFICES ASSUME NEW q \in Readers, NEW g \in Files, NEW e \in Events,
                      reader'[q].pc = "emptying", reader'[q].at = g, Holds(g, e)'
               PROVE  <<g, e>> \in reader'[q].graph \/ e \in missed'[g]
    BY DEF EmptyingRead
  <2>1. q # r /\ reader'[q] = reader[q] BY <1>4, <1>6
  <2> QED BY <2>1, <1>1, <1>2, <1>7 DEF ReaderInv, EmptyingRead
<1>15. KeptUnlessMissed'
  <2> SUFFICES ASSUME NEW g \in Files, NEW e \in stored[g] \ missed[g]
               PROVE  Holds(g, e)' \/ \E q \in Readers : <<g, e>> \in reader[q].graph
    BY <1>2, <1>6 DEF KeptUnlessMissed
  <2>1. e \in Events BY <1>1 DEF StoreTypeOK
  <2>2. Holds(g, e) \/ \E q \in Readers : <<g, e>> \in reader[q].graph
    BY <1>1 DEF ReaderInv, KeptUnlessMissed
  <2>3. g = f /\ Holds(g, e) => <<g, e>> \in reader[r].graph
    BY <2>1, <1>1, <1>2 DEF ReaderInv, EmptyingRead, f
  <2> QED BY <2>2, <2>3, <1>7
<1>16. ShownOnce'
  <2> SUFFICES ASSUME NEW q \in Readers, NEW g \in Files, NEW e \in Events,
                      reader'[q].pc # "killed", <<g, e>> \in reader[q].graph,
                      WrittenOnce(e, g), Holds(g, e), g # f
               PROVE  IsUnreadable(g) \/ (reader'[q].pc = "emptying" /\ reader'[q].at = g)
    BY <1>6, <1>7, <1>8 DEF ShownOnce, WrittenOnce
  <2>1. CASE q = r BY <2>1, <1>1, <1>2 DEF ReaderInv, ShownOnce, f
  <2>2. CASE q # r BY <2>2, <1>1, <1>4 DEF ReaderInv, ShownOnce
  <2> QED BY <2>1, <2>2
<1>17. ClientTypeOK' /\ ClientInv' BY <1>1, ClientUnchanged
<1> QED
  BY <1>9, <1>10, <1>11, <1>12, <1>13, <1>14, <1>15, <1>16, <1>17
  DEF IInv, TypeOK, WriterInv, ReaderInv

-----------------------------------------------------------------------------
LEMMA NextOK == IInv /\ [Next]_vars => IInv'
<1> SUFFICES ASSUME IInv, [Next]_vars PROVE IInv' OBVIOUS
<1>1. CASE Request BY <1>1, RequestStep
<1>2. CASE Client /\ UNCHANGED storeVars BY <1>2, ClientStep
<1>3. CASE Write /\ UNCHANGED clientVars
  BY <1>3, AppendStep, AppendFailsStep, DataStoreRaisesStep DEF Write
<1>4. CASE \E r \in Readers : Read(r) /\ UNCHANGED clientVars
  BY <1>4, ReaderStep, TruncateStep DEF Read, GoOn
<1>5. CASE UNCHANGED vars
  <2>1. ClientTypeOK' /\ ClientInv' BY <1>5, ClientUnchanged DEF vars, IInv, TypeOK
  <2>2. StoreTypeOK' /\ WriterInv' /\ ReaderInv'
    BY <1>5, StoreUnchanged DEF vars, clientVars
  <2> QED BY <2>1, <2>2 DEF IInv, TypeOK
<1> QED BY <1>1, <1>2, <1>3, <1>4, <1>5 DEF Next

LEMMA Invariant == Spec => []IInv
<1>1. Init => IInv BY InitOK
<1>2. IInv /\ [Next]_vars => IInv' BY NextOK
<1> QED BY <1>1, <1>2, PTL DEF Spec

(* The variables of the client, the store and the readers keep their types *)
(* whatever fails.                                                         *)
THEOREM TypeCorrect == Spec => []TypeOK
<1>1. IInv => TypeOK BY DEF IInv
<1> QED BY <1>1, Invariant, PTL

(* The triples that were sent, those of the request and those of the list  *)
(* are together the first ones of the analysis, in its order, although the *)
(* thread replaces the list while the analysis appends to it.              *)
THEOREM ClientKeepsOrder == Spec => []AddedInOrder
<1>1. IInv => AddedInOrder
  <2> SUFFICES ASSUME IInv PROVE AddedInOrder OBVIOUS
  <2>1. ClientTypeOK /\ ListsInOrder BY DEF IInv, TypeOK, ClientInv
  <2>2. /\ sent \in Seq(Triples) /\ batch \in Seq(Triples) /\ m_listTriples \in Seq(Triples)
        /\ Len(sent) \in Nat /\ Len(batch) \in Nat /\ Len(m_listTriples) \in Nat
    BY <2>1, ListLengths DEF ClientTypeOK
  <2> DEFINE front == sent \o batch
  <2>3. /\ front \in Seq(Triples) /\ Len(front) = Len(sent) + Len(batch)
        /\ \A i \in 1..(Len(sent) + Len(batch)) :
             front[i] = IF i <= Len(sent) THEN sent[i] ELSE batch[i - Len(sent)]
    BY <2>2, ConcatProperties
  <2>4. InOrderFrom(front, 0)
    <3> SUFFICES ASSUME NEW i \in 1..Len(front) PROVE front[i] = i BY DEF InOrderFrom
    <3>1. CASE i <= Len(sent)
      <4>1. i \in 1..Len(sent) BY <3>1, <2>2, <2>3
      <4> QED BY <3>1, <4>1, <2>1, <2>3 DEF ListsInOrder, InOrderFrom
    <3>2. CASE i > Len(sent)
      <4>1. i - Len(sent) \in 1..Len(batch) BY <3>2, <2>2, <2>3
      <4>2. front[i] = batch[i - Len(sent)] BY <3>2, <2>2, <2>3
      <4>3. batch[i - Len(sent)] = Len(sent) + (i - Len(sent))
        BY <4>1, <2>1 DEF ListsInOrder, InOrderFrom
      <4> QED BY <4>2, <4>3, <2>2
    <3> QED BY <3>1, <3>2, <2>2
  <2> HIDE DEF front
  <2>5. /\ added = front \o m_listTriples
        /\ added \in Seq(Triples) /\ Len(added) = Len(front) + Len(m_listTriples)
        /\ \A i \in 1..(Len(front) + Len(m_listTriples)) :
             added[i] = IF i <= Len(front) THEN front[i] ELSE m_listTriples[i - Len(front)]
    BY <2>2, <2>3, ConcatProperties DEF added, front
  <2>6. ASSUME NEW i \in 1..Len(added) PROVE added[i] = i
    <3>1. CASE i <= Len(front)
      <4>1. i \in 1..Len(front) BY <3>1, <2>2, <2>3, <2>5
      <4> QED BY <3>1, <4>1, <2>4, <2>5 DEF InOrderFrom
    <3>2. CASE i > Len(front)
      <4>1. i - Len(front) \in 1..Len(m_listTriples) BY <3>2, <2>2, <2>3, <2>5
      <4>2. added[i] = m_listTriples[i - Len(front)] BY <3>2, <2>2, <2>3, <2>5
      <4>3. m_listTriples[i - Len(front)] = Len(front) + (i - Len(front))
        BY <4>1, <2>1, <2>3 DEF ListsInOrder, InOrderFrom
      <4> QED BY <4>2, <4>3, <2>2, <2>3
    <3> QED BY <3>1, <3>2, <2>2, <2>3
  <2> DEFINE s == added
  <2>7. s \in Seq(Triples) BY <2>5
  <2> HIDE DEF s
  <2>8. s = [i \in 1..Len(s) |-> s[i]] BY <2>7
  <2>9. added = [i \in 1..Len(added) |-> i] BY <2>6, <2>8 DEF s
  <2>10. m_valid => Len(added) = last
    BY <2>1, <2>3, <2>5 DEF ListsInOrder, NumAdded
  <2> QED BY <2>9, <2>10 DEF AddedInOrder
<1> QED BY <1>1, Invariant, PTL

(* A triple that was appended to a file of events is still there, or a     *)
(* reader has it, unless it came between a reading and the emptying.       *)
THEOREM EventsKept == Spec => []KeptUnlessMissed
<1>1. IInv => KeptUnlessMissed BY DEF IInv, ReaderInv
<1> QED BY <1>1, Invariant, PTL

(* A triple that was shown has left the file where it was read, unless a   *)
(* line of the file cannot be decoded or converted.                        *)
THEOREM EventsShownOnce == Spec => []ShownAgainOnlyIfUnreadable
<1>1. IInv => ShownAgainOnlyIfUnreadable
  BY DEF IInv, ReaderInv, ShownOnce, ShownAgainOnlyIfUnreadable
<1> QED BY <1>1, Invariant, PTL
-----------------------------------------------------------------------------
(* The safety half of AddedIsStored: what the thread has nothing left to   *)
(* do about is in the files, or was given up.                              *)
Settled(e, f) == e \in stored[f] \cup givenUp[f]

WillBeSettled(e, f) == e \in stored'[f] \cup givenUp'[f]

Left(f) == \E k \in 1..Len(targets) : targets[k] = f

FilesSettled ==
  /\ \A e \in Events, f \in Files : e <= NumDone /\ InFiles(e, f) => Settled(e, f)
  /\ arrived # <<>> =>
       \A f \in Files : InFiles(Head(arrived), f) => Settled(Head(arrived), f) \/ Left(f)

(* The thread waits for event_put.py, or is dead.                          *)
ThreadWaits == arrived # <<>> => run \in {"waiting", "dead"}

SettledInv == FilesSettled /\ ThreadWaits

MoreSettled == \A f \in Files : stored[f] \subseteq stored'[f] /\ givenUp[f] \subseteq givenUp'[f]

LEMMA TripleSettled ==
  ASSUME TypeOK, ArrivedInOrder, FilesSettled, targets # <<>>, NextTriple, sent' = sent,
         MoreSettled, \A f \in Files : Left(f) => WillBeSettled(Head(arrived), f)
  PROVE  FilesSettled'
<1>1. /\ arrived \in Seq(Events) /\ arrived # <<>> /\ Len(arrived) \in Nat \ {0}
      /\ Len(sent) \in Nat /\ NumDone \in Nat /\ Head(arrived) = NumDone + 1
      /\ FilesOf \in [Events -> Seq(Files \cup {NoFile}) \ {<<>>}] /\ Events = Triples
  BY WriterFacts
<1>2. arrived' = Tail(arrived) /\ Len(Tail(arrived)) = Len(arrived) - 1
  BY <1>1, HeadTailProperties DEF NextTriple
<1>3. NumDone' = NumDone + 1
  BY <1>1, <1>2 DEF NumDone
<1>4. ASSUME NEW e \in Events, NEW f \in Files, e <= NumDone + 1, InFiles(e, f)
      PROVE  WillBeSettled(e, f)
  <2>1. CASE e = Head(arrived)
    BY <1>1, <1>4, <2>1 DEF FilesSettled, MoreSettled, Settled, WillBeSettled
  <2>2. CASE e # Head(arrived)
    <3>1. e <= NumDone
      BY <1>1, <1>4, <2>2, TriplesClientAssumption DEF Triples
    <3> QED  BY <1>4, <3>1 DEF FilesSettled, MoreSettled, Settled, WillBeSettled
  <2> QED  BY <2>1, <2>2
<1>5. arrived' # <<>> => \A f \in Files : InFiles(Head(arrived'), f) => Left(f)'
  BY <1>2 DEF NextTriple, InFiles, Left
<1> QED  BY <1>3, <1>4, <1>5 DEF FilesSettled, InFiles, Settled, WillBeSettled

LEMMA TargetSettled ==
  ASSUME TypeOK, ArrivedInOrder, FilesSettled, targets # <<>>, NextTarget, sent' = sent,
         MoreSettled, WillBeSettled(Head(arrived), Head(targets))
  PROVE  FilesSettled'
<1>1. /\ targets \in Seq(Files \cup {NoFile}) /\ Len(targets) \in Nat \ {0} /\ Len(sent) \in Nat
      /\ arrived # <<>> /\ Head(targets) = targets[1]
  BY WriterFacts
<1>2. CASE Len(targets) = 1
  <2>1. \A f \in Files : Left(f) => WillBeSettled(Head(arrived), f)
    BY <1>1, <1>2 DEF Left
  <2> QED  BY <1>2, <2>1, TripleSettled DEF NextTarget
<1>3. CASE Len(targets) # 1
  <2>1. arrived' = arrived /\ targets' = Tail(targets) /\ NumDone' = NumDone
    BY <1>3 DEF NextTarget, NumDone
  <2>2. Len(targets') = Len(targets) - 1 /\ \A i \in 1..Len(targets') : targets'[i] = targets[i + 1]
    BY <1>1, <2>1, HeadTailProperties
  <2>3. ASSUME NEW f \in Files, Left(f), f # Head(targets) PROVE Left(f)'
    <3>1. PICK k \in 1..Len(targets) : targets[k] = f
      BY <2>3 DEF Left
    <3>2. k - 1 \in 1..Len(targets') /\ targets'[k - 1] = f
      BY <1>1, <2>2, <2>3, <3>1
    <3> QED  BY <3>2 DEF Left
  <2>4. \A e \in Events, f \in Files : Settled(e, f) => WillBeSettled(e, f)
    BY DEF MoreSettled, Settled, WillBeSettled
  <2>5. Head(arrived) \in Events
    BY WriterFacts
  <2>6. \A f \in Files : InFiles(Head(arrived), f) => WillBeSettled(Head(arrived), f) \/ Left(f)'
    BY <1>1, <2>3, <2>4, <2>5 DEF FilesSettled
  <2>7. \A e \in Events, f \in Files : e <= NumDone /\ InFiles(e, f) => WillBeSettled(e, f)
    BY <2>4 DEF FilesSettled
  <2> QED  BY <2>1, <2>6, <2>7 DEF FilesSettled, InFiles, Settled, WillBeSettled
<1> QED  BY <1>2, <1>3

LEMMA WriteSettles ==
  ASSUME IInv, SettledInv, Write, UNCHANGED clientVars
  PROVE  SettledInv'
<1>1. TypeOK /\ ArrivedInOrder /\ FilesSettled /\ ThreadWaits /\ sent' = sent
  BY DEF IInv, WriterInv, SettledInv, clientVars
<1>2. stored \in [Files -> SUBSET Events] /\ givenUp \in [Files -> SUBSET Events]
  BY <1>1 DEF TypeOK, StoreTypeOK
<1>3. targets # <<>>
  BY DEF Write, AddEventToObject, AddEventFails, DataStoreFails, MonikerRaises
<1>4. /\ arrived # <<>> /\ Head(arrived) \in Events
      /\ targets \in Seq(Files \cup {NoFile})
  BY <1>1, <1>3, WriterFacts
<1>5. ThreadWaits'
  BY <1>1, <1>4 DEF ThreadWaits, clientVars
<1>6. CASE AddEventToObject
  <2>1. /\ stored' = [stored EXCEPT ![Head(targets)] = @ \cup {Head(arrived)}]
        /\ givenUp' = givenUp /\ NextTarget /\ Head(targets) \in Files
    BY <1>1, <1>3, <1>6, WriterFacts DEF AddEventToObject
  <2>2. MoreSettled /\ WillBeSettled(Head(arrived), Head(targets))
    BY <1>2, <1>4, <2>1 DEF MoreSettled, Settled, WillBeSettled
  <2> QED  BY <1>1, <1>3, <1>5, <2>1, <2>2, TargetSettled DEF SettledInv
<1>7. CASE AddEventFails
  <2>1. CASE triesLeft > 1
    BY <1>1, <1>5, <1>7, <2>1
    DEF AddEventFails, SettledInv, FilesSettled, Settled, Left, InFiles, NumDone
  <2>2. CASE ~(triesLeft > 1)
    <3>1. /\ givenUp' = [givenUp EXCEPT ![Head(targets)] = @ \cup {Head(arrived)}]
          /\ stored' = stored /\ NextTarget /\ Head(targets) \in Files
      BY <1>1, <1>3, <1>7, <2>2, WriterFacts DEF AddEventFails
    <3>2. MoreSettled /\ WillBeSettled(Head(arrived), Head(targets))
      BY <1>2, <1>4, <3>1 DEF MoreSettled, Settled, WillBeSettled
    <3> QED  BY <1>1, <1>3, <1>5, <3>1, <3>2, TargetSettled DEF SettledInv
  <2> QED  BY <2>1, <2>2
<1>8. CASE DataStoreFails \/ MonikerRaises
  <2>1. /\ givenUp' = [f \in Files |->
             IF f \in ToSet(targets) THEN givenUp[f] \cup {Head(arrived)} ELSE givenUp[f]]
        /\ stored' = stored /\ NextTriple
    BY <1>8 DEF DataStoreFails, MonikerRaises, DataStoreRaises
  <2>2. MoreSettled
    BY <1>2, <2>1 DEF MoreSettled
  <2>3. \A f \in Files : Left(f) => f \in ToSet(targets)
    BY <1>4 DEF Left, ToSet
  <2>4. \A f \in Files : Left(f) => WillBeSettled(Head(arrived), f)
    BY <2>1, <2>3 DEF WillBeSettled
  <2> QED  BY <1>1, <1>3, <1>5, <2>1, <2>2, <2>4, TripleSettled DEF SettledInv
<1> QED  BY <1>6, <1>7, <1>8 DEF Write

LEMMA RequestSettles ==
  ASSUME IInv, SettledInv, Request
  PROVE  SettledInv'
<1>1. /\ ClientTypeOK /\ StoreTypeOK /\ ThreadOK /\ FilesSettled
      /\ FilesOf \in [Events -> Seq(Files \cup {NoFile}) \ {<<>>}]
  BY EventStoreAssumption DEF IInv, TypeOK, ClientInv, SettledInv
<1>2. /\ arrived = <<>> /\ run = "sending" /\ run' = "waiting"
      /\ arrived' = batch /\ targets' = FilesOf[Head(batch)] /\ sent' = sent \o batch
      /\ UNCHANGED <<stored, givenUp, m_valid>>
  BY DEF Request, Send, Receive
<1>3. batch \in Seq(Triples) /\ sent \in Seq(Triples)
  BY <1>1 DEF ClientTypeOK
<1>4. NumDone' = NumDone
  <2>1. Len(sent') = Len(sent) + Len(batch) /\ Len(sent) \in Nat /\ Len(batch) \in Nat
    BY <1>2, <1>3, ConcatProperties, LenProperties
  <2>2. Len(arrived) = 0 /\ Len(arrived') = Len(batch)
    BY <1>2, EmptySeq
  <2> QED  BY <2>1, <2>2 DEF NumDone
<1>5. \A f \in Files : InFiles(Head(arrived'), f) => Left(f)'
  BY <1>2 DEF InFiles, Left
<1>6. FilesSettled'
  BY <1>1, <1>2, <1>4, <1>5 DEF FilesSettled, Settled, InFiles
<1> QED  BY <1>2, <1>6 DEF SettledInv, ThreadWaits

LEMMA ClientSettles ==
  ASSUME IInv, SettledInv, Client, UNCHANGED storeVars
  PROVE  SettledInv'
<1>1. UNCHANGED <<arrived, targets, stored, givenUp>> /\ ClientTypeOK /\ ClientInv
  BY DEF storeVars, writerVars, IInv, TypeOK
<1>2. sent' = sent
  BY <1>1, AnalysisStep, ThreadStep DEF Client, Analysis, Answered
<1>3. FilesSettled'
  BY <1>1, <1>2 DEF SettledInv, FilesSettled, Settled, Left, InFiles, NumDone
<1>4. ThreadWaits'
  BY <1>1 DEF SettledInv, ThreadWaits, Client, Analysis, AddDataToSend, LockToAdd, Add,
              EndOfProgram, Wake, TakeList, EncodingFails, Answered, Response, RequestFails
<1> QED  BY <1>3, <1>4 DEF SettledInv

LEMMA SettledNext == IInv /\ SettledInv /\ [Next]_vars => SettledInv'
<1> SUFFICES ASSUME IInv, SettledInv, [Next]_vars PROVE SettledInv'
  OBVIOUS
<1>1. CASE UNCHANGED <<clientVars, arrived, targets, stored, givenUp>>
  BY <1>1
  DEF clientVars, SettledInv, FilesSettled, ThreadWaits, Settled, Left, InFiles, NumDone
<1>2. UNCHANGED vars => UNCHANGED <<clientVars, arrived, targets, stored, givenUp>>
  BY DEF vars, storeVars, writerVars
<1>3. ASSUME NEW r \in Readers, Read(r), UNCHANGED clientVars
      PROVE  UNCHANGED <<clientVars, arrived, targets, stored, givenUp>>
  BY <1>3 DEF Read, GoOn, Walk, ReadLines, Truncate, Answer, NextFile, OpenFails, Kill, writerVars
<1> QED  BY <1>1, <1>2, <1>3, WriteSettles, RequestSettles, ClientSettles DEF Next

(* While no request has failed, when the thread sleeps and the list is     *)
(* empty.                                                                  *)
QuietIsStored ==
  m_valid /\ run = "asleep" /\ m_listTriples = <<>> =>
    \A t \in 1..last : \A f \in ToSet(FilesOf[t]) \ {NoFile} : Settled(t, f)

(* Whenever a client whose requests succeed has nothing to send, all that  *)
(* the analysis has added is in all the files that can be named for it, or *)
(* was given up: what AddedIsStored says will be so.                       *)
THEOREM QuietStored == Spec => []QuietIsStored
<1>1. Init => SettledInv
  <2> SUFFICES ASSUME Init PROVE SettledInv
    OBVIOUS
  <2>1. arrived = <<>> /\ run = "asleep" /\ NumDone = 0
    BY EmptySeq DEF Init, ClientInit, StoreInit, NumDone
  <2>2. \A e \in Events : ~(e <= 0)
    BY EventPipelineAssumption, TriplesClientAssumption DEF Triples
  <2> QED  BY <2>1, <2>2 DEF SettledInv, FilesSettled, ThreadWaits
<1>2. IInv /\ SettledInv => QuietIsStored
  <2> SUFFICES ASSUME IInv, SettledInv, m_valid, run = "asleep", m_listTriples = <<>>,
                      NEW t \in 1..last, NEW f \in ToSet(FilesOf[t]) \ {NoFile}
               PROVE  Settled(t, f)
    BY DEF QuietIsStored
  <2>1. ClientTypeOK /\ ListsInOrder /\ ThreadOK /\ FilesSettled /\ ThreadWaits
    BY DEF IInv, TypeOK, ClientInv, SettledInv
  <2>2. arrived = <<>> /\ batch = <<>>
    BY <2>1 DEF ThreadWaits, ThreadOK
  <2>3. NumDone = last
    BY <2>1, <2>2, EmptySeq, ListLengths DEF ListsInOrder, NumAdded, NumDone
  <2>4. t \in Events /\ t <= NumDone
    BY <2>1, <2>3, EventPipelineAssumption, TriplesClientAssumption DEF ClientTypeOK, Triples
  <2>5. FilesOf[t] \in Seq(Files \cup {NoFile})
    BY <2>4, EventStoreAssumption
  <2>6. f \in Files /\ InFiles(t, f)
    BY <2>5 DEF ToSet, InFiles
  <2> QED  BY <2>1, <2>4, <2>6 DEF FilesSettled
<1> QED  BY <1>1, <1>2, SettledNext, Invariant, PTL DEF Spec
-----------------------------------------------------------------------------
(* The safety half of ReadersEnd: what a reader has still to do.  First    *)
(* whether it has to begin or to end, then the files it has not opened,    *)
(* then what it may do with the file it reads.                             *)
ReaderWork(x) ==
  CASE x.pc = "idle"     -> <<2, 0, 0>>
    [] x.pc = "walking"  -> <<1, Cardinality(x.todo), 0>>
    [] x.pc = "emptying" -> <<1, Cardinality(x.todo), 1>>
    [] x.pc = "reading"  -> <<1, Cardinality(x.todo), 1 + x.maxTry>>
    [] OTHER             -> <<0, 0, 0>>

Smaller(new, old) ==
  \E i \in 1..3 : new[i] < old[i] /\ \A j \in 1..(i - 1) : new[j] = old[j]

LessToRead ==
  [][\A r \in Readers : reader'[r] # reader[r] =>
       Smaller(ReaderWork(reader'[r]), ReaderWork(reader[r]))]_vars

(* The files are made one by one, and a reader has a try left.             *)
ReadingInv ==
  /\ IsFiniteSet(created)
  /\ \A r \in Readers :
       IsFiniteSet(reader[r].todo) /\ (reader[r].pc = "reading" => reader[r].maxTry > 0)

LEMMA SmallerAt ==
  ASSUME NEW a1, NEW a2, NEW a3, NEW b1, NEW b2, NEW b3,
         \/ b1 < a1
         \/ b1 = a1 /\ b2 < a2
         \/ b1 = a1 /\ b2 = a2 /\ b3 < a3
  PROVE  Smaller(<<b1, b2, b3>>, <<a1, a2, a3>>)
<1> DEFINE a == <<a1, a2, a3>>
           b == <<b1, b2, b3>>
<1>1. /\ a[1] = a1 /\ a[2] = a2 /\ a[3] = a3
      /\ b[1] = b1 /\ b[2] = b2 /\ b[3] = b3
  OBVIOUS
<1> HIDE DEF a, b
<1>2. \A j \in 1..(1 - 1) : b[j] = a[j]
  OBVIOUS
<1>3. b1 = a1 => \A j \in 1..(2 - 1) : b[j] = a[j]
  BY <1>1
<1>4. b1 = a1 /\ b2 = a2 => \A j \in 1..(3 - 1) : b[j] = a[j]
  BY <1>1
<1>5. 1 \in 1..3 /\ 2 \in 1..3 /\ 3 \in 1..3
  OBVIOUS
<1>6. Smaller(b, a)
  BY <1>1, <1>2, <1>3, <1>4, <1>5 DEF Smaller
<1> QED  BY <1>6 DEF a, b

(* A reader begins, ends, opens a file, tries it again, or leaves it.      *)
LessWork(y, x) ==
  \/ x.pc = "idle" /\ y.pc = "walking"
  \/ x.pc \in {"walking", "reading", "emptying"} /\ y.pc \in {"answered", "killed"}
  \/ x.pc = "walking" /\ y.pc = "reading" /\ Cardinality(y.todo) < Cardinality(x.todo)
  \/ x.pc = "emptying" /\ y.pc = "walking" /\ y.todo = x.todo
  \/ /\ x.pc = "reading" /\ x.maxTry > 0 /\ y.todo = x.todo
     /\ y.pc \in {"walking", "emptying"} \/ (y.pc = "reading" /\ y.maxTry = x.maxTry - 1)

LEMMA WorkLessens ==
  ASSUME NEW x \in ReaderStates, NEW y, LessWork(y, x)
  PROVE  Smaller(ReaderWork(y), ReaderWork(x))
<1>1. x.maxTry \in Nat
  BY EventStoreAssumption DEF ReaderStates
<1> DEFINE a2 == Cardinality(x.todo)
           b2 == Cardinality(y.todo)
<1>2. CASE x.pc = "idle" /\ y.pc = "walking"
  <2>1. ReaderWork(x) = <<2, 0, 0>> /\ ReaderWork(y) = <<1, b2, 0>>
    BY <1>2 DEF ReaderWork
  <2> QED  BY <2>1, SmallerAt
<1>3. CASE x.pc \in {"walking", "reading", "emptying"} /\ y.pc \in {"answered", "killed"}
  <2>1. PICK n : ReaderWork(x) = <<1, a2, n>>
    BY <1>3 DEF ReaderWork
  <2>2. ReaderWork(y) = <<0, 0, 0>>
    BY <1>3 DEF ReaderWork
  <2> QED  BY <2>1, <2>2, SmallerAt
<1>4. CASE x.pc = "walking" /\ y.pc = "reading" /\ Cardinality(y.todo) < Cardinality(x.todo)
  <2>1. ReaderWork(x) = <<1, a2, 0>> /\ ReaderWork(y) = <<1, b2, 1 + y.maxTry>>
    BY <1>4 DEF ReaderWork
  <2> QED  BY <1>4, <2>1, SmallerAt
<1>5. CASE x.pc = "emptying" /\ y.pc = "walking" /\ y.todo = x.todo
  <2>1. ReaderWork(x) = <<1, a2, 1>> /\ ReaderWork(y) = <<1, a2, 0>>
    BY <1>5 DEF ReaderWork
  <2> QED  BY <2>1, SmallerAt
<1>6. CASE /\ x.pc = "reading" /\ x.maxTry > 0 /\ y.todo = x.todo
           /\ y.pc \in {"walking", "emptying"} \/ (y.pc = "reading" /\ y.maxTry = x.maxTry - 1)
  <2>1. ReaderWork(x) = <<1, a2, 1 + x.maxTry>>
    BY <1>6 DEF ReaderWork
  <2>2. PICK n \in Nat : ReaderWork(y) = <<1, a2, n>> /\ n < 1 + x.maxTry
    BY <1>1, <1>6 DEF ReaderWork
  <2> QED  BY <2>1, <2>2, SmallerAt
<1> QED  BY <1>2, <1>3, <1>4, <1>5, <1>6 DEF LessWork

(* TryAgain takes a try.                                                   *)
LEMMA TryTaken ==
  ASSUME StoreTypeOK, NEW r \in Readers, NEW graph, TryAgain(r, graph),
         reader[r].pc = "reading", reader[r].maxTry > 0
  PROVE  /\ LessWork(reader'[r], reader[r]) /\ reader'[r].todo = reader[r].todo
         /\ reader'[r].pc = "reading" => reader'[r].maxTry > 0
         /\ \A q \in Readers : q # r => reader'[q] = reader[q]
<1> DEFINE x == reader[r]
           y == [x EXCEPT !.maxTry = x.maxTry - 1, !.graph = graph]
<1>1. reader \in [Readers -> ReaderStates] /\ x \in ReaderStates
  BY DEF StoreTypeOK
<1>2. /\ y.pc = x.pc /\ y.todo = x.todo /\ y.maxTry = x.maxTry - 1
      /\ Between(x.todo, graph).pc = "walking" /\ Between(x.todo, graph).todo = x.todo
  BY <1>1 DEF ReaderStates, Between
<1>3. /\ \/ x.maxTry - 1 > 0 /\ reader'[r] = y
         \/ reader'[r] = Between(x.todo, graph)
      /\ \A q \in Readers : q # r => reader'[q] = reader[q]
  BY <1>1, TryAgainReader
<1> HIDE DEF y
<1> QED  BY <1>2, <1>3 DEF LessWork

LEMMA ReaderGoesOn ==
  ASSUME StoreTypeOK, ReadingInv, NEW r \in Readers, Read(r)
  PROVE  /\ LessWork(reader'[r], reader[r]) /\ IsFiniteSet(reader'[r].todo)
         /\ reader'[r].pc = "reading" => reader'[r].maxTry > 0
         /\ \A q \in Readers : q # r => reader'[q] = reader[q]
<1> DEFINE x == reader[r]
<1>1. /\ reader \in [Readers -> ReaderStates] /\ x \in ReaderStates /\ IsFiniteSet(x.todo)
      /\ x.pc = "reading" => x.maxTry > 0
      /\ MaxTry \in Nat \ {0}
  BY EventStoreAssumption DEF StoreTypeOK, ReadingInv
<1>2. CASE Walk(r)
  <2>1. reader'[r] = [x EXCEPT !.pc = "walking", !.todo = created] /\ x.pc = "idle"
    BY <1>1, <1>2 DEF Walk
  <2>2. reader'[r].pc = "walking" /\ reader'[r].todo = created
    BY <1>1, <2>1 DEF ReaderStates
  <2>3. \A q \in Readers : q # r => reader'[q] = reader[q]
    BY <1>1, <1>2 DEF Walk
  <2> QED  BY <2>1, <2>2, <2>3 DEF LessWork, ReadingInv
<1>3. ASSUME NEW f \in Files, NextFile(r, f)
      PROVE  /\ LessWork(reader'[r], reader[r]) /\ IsFiniteSet(reader'[r].todo)
             /\ reader'[r].pc = "reading" => reader'[r].maxTry > 0
             /\ \A q \in Readers : q # r => reader'[q] = reader[q]
  <2>1. /\ reader'[r] = [pc |-> "reading", todo |-> x.todo \ {f}, at |-> f,
                         maxTry |-> MaxTry, graph |-> x.graph]
        /\ x.pc = "walking" /\ f \in x.todo
        /\ \A q \in Readers : q # r => reader'[q] = reader[q]
    BY <1>1, <1>3 DEF NextFile
  <2>2. /\ IsFiniteSet(x.todo \ {f}) /\ Cardinality(x.todo \ {f}) = Cardinality(x.todo) - 1
        /\ Cardinality(x.todo) \in Nat
    BY <1>1, <2>1, FS_RemoveElement, FS_CardinalityType
  <2>3. /\ reader'[r].pc = "reading" /\ reader'[r].todo = x.todo \ {f}
        /\ reader'[r].maxTry = MaxTry
    BY <2>1
  <2>4. MaxTry > 0
    BY <1>1
  <2> QED  BY <2>1, <2>2, <2>3, <2>4 DEF LessWork
<1>4. CASE OpenFails(r) \/ (ReadLines(r) /\ IsUnreadable(x.at))
  <2>1. PICK graph : TryAgain(r, graph)
    BY <1>4 DEF OpenFails, ReadLines
  <2>2. x.pc = "reading"
    BY <1>4 DEF OpenFails, ReadLines
  <2> QED  BY <1>1, <2>1, <2>2, TryTaken
<1>5. CASE ReadLines(r) /\ ~IsUnreadable(x.at)
  <2>1. PICK graph : /\ reader' = [reader EXCEPT ![r].pc = "emptying", ![r].maxTry = 0, ![r].graph = graph]
                     /\ x.pc = "reading"
    BY <1>5 DEF ReadLines
  <2>2. reader'[r] = [x EXCEPT !.pc = "emptying", !.maxTry = 0, !.graph = graph]
        /\ \A q \in Readers : q # r => reader'[q] = reader[q]
    BY <1>1, <2>1
  <2>3. reader'[r].pc = "emptying" /\ reader'[r].todo = x.todo
    BY <1>1, <2>2 DEF ReaderStates
  <2> QED  BY <1>1, <2>1, <2>2, <2>3 DEF LessWork
<1>6. CASE Truncate(r)
  <2>1. /\ reader'[r] = Between(x.todo, x.graph) /\ x.pc = "emptying"
        /\ \A q \in Readers : q # r => reader'[q] = reader[q]
    BY <1>1, <1>6 DEF Truncate
  <2> QED  BY <1>1, <2>1 DEF LessWork, Between
<1>7. CASE Answer(r) \/ Kill(r)
  <2>1. /\ reader'[r] = Ended("answered", x.graph) \/ reader'[r] = Ended("killed", x.graph)
        /\ x.pc \in {"walking", "reading", "emptying"}
        /\ \A q \in Readers : q # r => reader'[q] = reader[q]
    BY <1>1, <1>7 DEF Answer, Kill
  <2> QED  BY <2>1, FS_EmptySet DEF LessWork, Ended
<1> QED  BY <1>2, <1>3, <1>4, <1>5, <1>6, <1>7 DEF Read, GoOn

LEMMA ReadingInit == Init => ReadingInv
<1> SUFFICES ASSUME Init PROVE ReadingInv
  OBVIOUS
<1>1. created = {} /\ \A r \in Readers : reader[r].todo = {} /\ reader[r].pc = "idle"
  BY DEF Init, StoreInit, Ended
<1> QED  BY <1>1, FS_EmptySet DEF ReadingInv

(* The writer makes at most one file, and no reader moves.                 *)
LEMMA OthersLeaveReaders ==
  ASSUME StoreTypeOK, [Next]_vars, \A r \in Readers : ~Read(r)
  PROVE  /\ reader' = reader
         /\ created' = created \/ \E f \in Files : created' = created \cup {f}
<1>1. CASE UNCHANGED storeVars
  BY <1>1 DEF storeVars
<1>2. CASE Request
  BY <1>2 DEF Request, Receive
<1>3. CASE Write
  <2>1. targets # <<>> => Head(targets) \in Files \cup {NoFile}
    BY HeadTailProperties DEF StoreTypeOK
  <2> QED
    BY <1>3, <2>1
    DEF Write, AddEventToObject, AddEventFails, DataStoreFails, MonikerRaises, DataStoreRaises
<1> QED  BY <1>1, <1>2, <1>3 DEF Next, vars

LEMMA ReadingNext ==
  ASSUME StoreTypeOK, ReadingInv, [Next]_vars
  PROVE  /\ ReadingInv'
         /\ \A r \in Readers : reader'[r] # reader[r] => LessWork(reader'[r], reader[r])
<1>1. CASE \A r \in Readers : ~Read(r)
  <2>1. /\ reader' = reader
        /\ created' = created \/ \E f \in Files : created' = created \cup {f}
    BY <1>1, OthersLeaveReaders
  <2>2. IsFiniteSet(created')
    BY <2>1, FS_AddElement DEF ReadingInv
  <2> QED  BY <2>1, <2>2 DEF ReadingInv
<1>2. ASSUME NEW r \in Readers, Read(r)
      PROVE  /\ ReadingInv'
             /\ \A q \in Readers : reader'[q] # reader[q] => LessWork(reader'[q], reader[q])
  <2>1. created' = created
    BY <1>2 DEF Read, GoOn, Walk, ReadLines, Truncate, Answer, NextFile, OpenFails, Kill
  <2> QED  BY <1>2, <2>1, ReaderGoesOn DEF ReadingInv
<1> QED  BY <1>1, <1>2

LEMMA ReadingHolds == Spec => []ReadingInv
<1>1. ReadingInv /\ IInv /\ [Next]_vars => ReadingInv'
  BY ReadingNext DEF IInv, TypeOK
<1> QED  BY <1>1, ReadingInit, Invariant, PTL DEF Spec

(* Each step of a reader leaves it less to do, whatever the writer appends *)
(* to the files meanwhile, however often they cannot be opened or decoded, *)
(* and whoever else reads them.                                            *)
THEOREM ReadersMoveOn == Spec => LessToRead
<1>1. ReadingInv /\ IInv /\ [Next]_vars =>
        [\A r \in Readers : reader'[r] # reader[r] =>
           Smaller(ReaderWork(reader'[r]), ReaderWork(reader[r]))]_vars
  <2> SUFFICES ASSUME ReadingInv, IInv, [Next]_vars, NEW r \in Readers, reader'[r] # reader[r]
               PROVE  Smaller(ReaderWork(reader'[r]), ReaderWork(reader[r]))
    OBVIOUS
  <2>1. StoreTypeOK /\ reader[r] \in ReaderStates
    BY DEF IInv, TypeOK, StoreTypeOK
  <2>2. LessWork(reader'[r], reader[r])
    BY <2>1, ReadingNext
  <2> QED  BY <2>1, <2>2, WorkLessens
<1> QED  BY <1>1, ReadingHolds, Invariant, PTL DEF Spec, LessToRead

(* And what is left is always three natural numbers, which cannot lessen   *)
(* for ever in this order: a reader makes a finite number of steps.        *)
THEOREM ReaderWorkIsNatural ==
  Spec => [](\A r \in Readers : ReaderWork(reader[r]) \in [1..3 -> Nat])
<1>1. ReadingInv /\ IInv => \A r \in Readers : ReaderWork(reader[r]) \in [1..3 -> Nat]
  <2> SUFFICES ASSUME ReadingInv, IInv, NEW r \in Readers
               PROVE  ReaderWork(reader[r]) \in [1..3 -> Nat]
    OBVIOUS
  <2>1. reader[r].maxTry \in Nat
    BY EventStoreAssumption DEF IInv, TypeOK, StoreTypeOK, ReaderStates
  <2>2. Cardinality(reader[r].todo) \in Nat
    BY FS_CardinalityType DEF ReadingInv
  <2>3. PICK a \in Nat, b \in Nat, c \in Nat : ReaderWork(reader[r]) = <<a, b, c>>
    BY <2>1, <2>2 DEF ReaderWork
  <2> QED  BY <2>3
<1> QED  BY <1>1, ReadingHolds, Invariant, PTL

=============================================================================
