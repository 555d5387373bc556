--------------------------- MODULE TriplesClient ----------------------------
(***************************************************************************)
(* HttpTriplesClient of survol/scripts/dockit.py: the analysis adds        *)
(* triples to a list, and a daemon thread empties the list every two       *)
(* seconds and sends what it held to the update server.  The lock protects *)
(* the list only; m_valid is read without it.                              *)
(*                                                                         *)
(* The triples are numbered in the order of the analysis.  What the server *)
(* does with a request is in EventStore.                                   *)
(***************************************************************************)
EXTENDS Naturals, Sequences

CONSTANTS
  MaxTriples, \* bound on the triples that the analysis has to send
  Main,       \* the main thread, which runs the analysis
  Thread,     \* the thread of the client
  None

ASSUME TriplesClientAssumption ==
  /\ MaxTriples \in Nat
  /\ Main # Thread /\ Main # None /\ Thread # None

Triples == 1..MaxTriples

VARIABLES
  m_valid,       \* whether requests have succeeded so far
  m_listTriples, \* the triples to send
  m_sharedLock,  \* who holds the lock
  adding,        \* whether the main thread is inside AddDataToSend
  last,          \* the number of calls to AddDataToSend that are over
  run,           \* the thread: "asleep", "holding", "sending", "waiting", "dead"
  batch,         \* the triples of the request to send, or that could not be sent
  sent,          \* the triples of the requests that the server received
  over           \* whether the program has ended

clientVars ==
  <<m_valid, m_listTriples, m_sharedLock, adding, last, run, batch, sent, over>>

(* All the triples that were ever in the list.                             *)
added == sent \o batch \o m_listTriples

ClientTypeOK ==
  /\ m_valid \in BOOLEAN /\ adding \in BOOLEAN /\ over \in BOOLEAN
  /\ m_listTriples \in Seq(Triples) /\ batch \in Seq(Triples) /\ sent \in Seq(Triples)
  /\ m_sharedLock \in {Main, Thread, None}
  /\ last \in 0..MaxTriples
  /\ run \in {"asleep", "holding", "sending", "waiting", "dead"}

ClientInit ==
  /\ m_valid = TRUE /\ adding = FALSE /\ over = FALSE
  /\ m_listTriples = <<>> /\ batch = <<>> /\ sent = <<>>
  /\ m_sharedLock = None
  /\ last = 0
  /\ run = "asleep"

-----------------------------------------------------------------------------
(* AddDataToSend: the test, the lock, then the list.                       *)
AddDataToSend ==
  /\ ~over /\ ~adding /\ last < MaxTriples
  /\ IF m_valid THEN adding' = TRUE /\ last' = last
                ELSE adding' = FALSE /\ last' = last + 1
  /\ UNCHANGED <<m_valid, m_listTriples, m_sharedLock, run, batch, sent, over>>

LockToAdd ==
  /\ adding /\ m_sharedLock = None
  /\ m_sharedLock' = Main
  /\ UNCHANGED <<m_valid, m_listTriples, adding, last, run, batch, sent, over>>

Add ==
  /\ m_sharedLock = Main
  /\ m_listTriples' = Append(m_listTriples, last + 1)
  /\ last' = last + 1 /\ adding' = FALSE
  /\ m_sharedLock' = None
  /\ UNCHANGED <<m_valid, run, batch, sent, over>>

(* The program ends at the end of the analysis, or before it.              *)
EndOfProgram ==
  /\ ~over /\ ~adding
  /\ over' = TRUE
  /\ UNCHANGED <<m_valid, m_listTriples, m_sharedLock, adding, last, run, batch, sent>>

-----------------------------------------------------------------------------
(* The thread, which stops with the program.                               *)
Wake ==
  /\ ~over /\ run = "asleep" /\ m_sharedLock = None
  /\ m_sharedLock' = Thread
  /\ run' = "holding"
  /\ UNCHANGED <<m_valid, m_listTriples, adding, last, batch, sent, over>>

TakeListUnemptied ==
  /\ ~over /\ run = "holding"
  /\ batch' = m_listTriples
  /\ m_listTriples' = m_listTriples
  /\ run' = IF m_listTriples = <<>> THEN "asleep" ELSE "sending"
  /\ m_sharedLock' = None
  /\ UNCHANGED <<m_valid, adding, last, sent, over>>

TakeListUnlocked ==
  /\ ~over /\ run = "holding"
  /\ batch' = m_listTriples
  /\ m_listTriples' = <<>>
  /\ run' = IF m_listTriples = <<>> THEN "asleep" ELSE "sending"
  /\ UNCHANGED <<m_sharedLock, m_valid, adding, last, sent, over>>

TakeList ==
  /\ ~over /\ run = "holding"
  /\ batch' = m_listTriples
  /\ m_listTriples' = <<>>
  /\ run' = IF m_listTriples = <<>> THEN "asleep" ELSE "sending"
  /\ m_sharedLock' = None
  /\ UNCHANGED <<m_valid, adding, last, sent, over>>

(* json.dumps cannot encode the list (a name of file that is not UTF-8):   *)
(* the exception ends the thread, which still holds the lock.              *)
EncodingFails ==
  /\ ~over /\ run = "holding" /\ m_listTriples # <<>>
  /\ run' = "dead"
  /\ UNCHANGED <<m_sharedLock, m_valid, m_listTriples, adding, last, batch, sent, over>>

(* The request arrives at the server.                                      *)
Send ==
  /\ ~over /\ run = "sending"
  /\ sent' = sent \o batch
  /\ batch' = <<>>
  /\ run' = "waiting"
  /\ UNCHANGED <<m_valid, m_listTriples, m_sharedLock, adding, last, over>>

Response ==
  /\ ~over /\ run = "waiting"
  /\ run' = "asleep"
  /\ UNCHANGED <<m_valid, m_listTriples, m_sharedLock, adding, last, batch, sent, over>>

(* Either the request does not arrive or its response does not: the        *)
(* exception ends the thread.                                              *)
RequestFails ==
  /\ ~over /\ run \in {"sending", "waiting"}
  /\ m_valid' = FALSE
  /\ run' = "dead"
  /\ UNCHANGED <<m_listTriples, m_sharedLock, adding, last, batch, sent, over>>

-----------------------------------------------------------------------------
(* Whatever fails, the triples that were sent, those of the request and    *)
(* those of the list are, in this order, the first ones of the analysis:   *)
(* none is overtaken, sent twice or forgotten; and as long as no request   *)
(* has failed they are all those that were added.  The list is replaced by *)
(* the thread (dockit.py:581) while the analysis appends to it.            *)
AddedInOrder ==
  /\ added = [i \in 1..Len(added) |-> i]
  /\ m_valid => Len(added) = last
=============================================================================
