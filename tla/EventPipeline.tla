---------------------------- MODULE EventPipeline ---------------------------
(***************************************************************************)
(* The way of a triple from the analysis of dockit.py to a page of         *)
(* event_get_all.py: the thread of HttpTriplesClient sends a request, the  *)
(* server starts event_put.py for it, and answers when it is over.         *)
(***************************************************************************)
EXTENDS TriplesClient, EventStore

vars == <<clientVars, storeVars>>

ASSUME EventPipelineAssumption == Events = Triples

Init == ClientInit /\ StoreInit

Analysis == AddDataToSend \/ LockToAdd \/ Add \/ EndOfProgram

(* urlopen: event_put.py reads the whole request when it starts.           *)
Request == Send /\ Receive(batch)

Answered == arrived = <<>> /\ Response

Client ==
  Analysis \/ Wake \/ TakeList \/ EncodingFails \/ Answered \/ RequestFails

Next ==
  \/ Request
  \/ Client /\ UNCHANGED storeVars
  \/ Write /\ UNCHANGED clientVars
  \/ \E r \in Readers : Read(r) /\ UNCHANGED clientVars

Spec == Init /\ [][Next]_vars

(* The thread and the scripts are scheduled.  Between two turns of the     *)
(* thread the lock is free for two seconds, so that an analysis that waits *)
(* for it gets it: this needs strong fairness, for the lock is taken again *)
(* and again.                                                              *)
Fairness ==
  /\ SF_vars(LockToAdd /\ UNCHANGED storeVars)
  /\ WF_vars((AddDataToSend \/ Add) /\ UNCHANGED storeVars)
  /\ WF_vars((Wake \/ TakeList \/ Answered) /\ UNCHANGED storeVars)
  /\ WF_vars(Request)
  /\ WF_vars((AddEventToObject \/ MonikerRaises) /\ UNCHANGED clientVars)
  /\ \A r \in Readers : WF_vars(GoOn(r) /\ UNCHANGED clientVars)

FairSpec == Spec /\ Fairness

TypeOK == ClientTypeOK /\ StoreTypeOK

-----------------------------------------------------------------------------
(* Every triple of the analysis is stored in all the files that can be     *)
(* named for it, or given up for a file, unless the program ends first or  *)
(* the thread dies: a request fails (dockit.py:599), or the list cannot be *)
(* encoded (dockit.py:580).  In the latter case m_valid stays true and the *)
(* lock is never released: the next AddDataToSend (dockit.py:605) waits    *)
(* for ever, and the program does not end either.                          *)
AddedIsStored ==
  \A t \in Triples :
    <>(\/ over \/ run = "dead"
       \/ \A f \in ToSet(FilesOf[t]) \ {NoFile} : t \in stored[f] \cup givenUp[f])
=============================================================================
