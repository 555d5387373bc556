------------------------- MODULE MergeScriptsProofs -------------------------
(***************************************************************************)
(* The pages of MergeScripts, for any scripts and any number of requests   *)
(* and of URLs.  What a page of the WSGI server displays does not depend   *)
(* on the requests before it, because a merge begins with a new graph and  *)
(* a new list, and because a request out of a merge that still runs in     *)
(* merge mode displays nothing.  MergeInv says so of the request that is   *)
(* served; it is inductive together with TypeOK.  FreshInv is about the    *)
(* process until its first merge, and AccountInv counts the URLs that the  *)
(* current merge has done.                                                 *)
(***************************************************************************)
EXTENDS MergeScripts, FiniteSetTheorems, TLAPS

USE MergeAssumption

(* A list of URLs is a sequence.                                           *)
LEMMA ListsAreSequences ==
  ASSUME NEW list \in SeqOf(Scripts, MaxUrls)
  PROVE  list \in Seq(Scripts)
<1>1. PICK m \in 0..MaxUrls : list \in [1..m -> Scripts]
  BY DEF SeqOf
<1> QED
  BY <1>1

LEMMA ShortSequences ==
  /\ <<>> \in Seq(Scripts)
  /\ \A s \in Scripts : <<s>> \in Seq(Scripts)
  /\ \A s \in Scripts, seq \in Seq(Scripts) : Append(seq, s) \in Seq(Scripts)
OBVIOUS

LEMMA OutputTypes ==
  /\ Nothing \in Outputs /\ Message \in Outputs /\ Form \in Outputs /\ File \in Outputs
  /\ \A graph \in SUBSET Triples, scripts \in Seq(Scripts), errors \in Seq(Scripts),
        uri \in Uris \cup {None} : Page(graph, scripts, errors, uri) \in Outputs
<1>1. Nothing \in Outputs
  BY ShortSequences DEF Nothing, Outputs
<1>2. Message \in Outputs /\ Form \in Outputs /\ File \in Outputs
  BY <1>1 DEF Message, Form, File, Nothing, Outputs
<1>3. ASSUME NEW graph \in SUBSET Triples, NEW scripts \in Seq(Scripts),
             NEW errors \in Seq(Scripts), NEW uri \in Uris \cup {None}
      PROVE  Page(graph, scripts, errors, uri) \in Outputs
  BY DEF Page, Outputs
<1> QED
  BY <1>1, <1>2, <1>3

LEMMA HistoryTypes ==
  \A kind \in {"none", "script", "merge"}, asked \in Seq(Scripts) :
    Request(kind, asked) \in Histories
BY DEF Request, Histories

LEMMA TypeInit == Init => TypeOK
<1> SUFFICES ASSUME Init PROVE TypeOK
  OBVIOUS
<1>1. output \in [Requests -> Outputs]
  BY OutputTypes DEF Init
<1>2. Request("none", <<>>) \in Histories
  BY HistoryTypes, ShortSequences
<1>3. history \in [Requests -> Histories]
  BY <1>2 DEF Init
<1>4. /\ globalCgiEnvList \in Seq(Scripts) /\ urls \in Seq(Scripts)
      /\ cumulatedError \in Seq(Scripts)
  BY ShortSequences DEF Init
<1>5. request \in 0..MaxRequests /\ globalGraph \subseteq Triples /\ m_graph \subseteq Triples
  BY DEF Init
<1> QED
  BY <1>1, <1>3, <1>4, <1>5 DEF Init, TypeOK

(* The answer of the current request is written once it has begun.         *)
LEMMA EndTypes ==
  ASSUME TypeOK, End, request \in Requests,
         output' \in [Requests -> Outputs], history' \in [Requests -> Histories],
         globalMergeMode' \in BOOLEAN, globalErrorMessageEnabled' \in BOOLEAN,
         globalCgiEnvList' \in Seq(Scripts), globalGraph' \in SUBSET Triples,
         requestUri' \in Uris \cup {None}
  PROVE  TypeOK'
BY DEF TypeOK, End, Triples

LEMMA AnswerTypes ==
  ASSUME TypeOK, request \in Requests, NEW answer \in Outputs, Answer(answer)
  PROVE  output' \in [Requests -> Outputs]
BY OutputTypes DEF Answer, TypeOK

LEMMA TypeNext == TypeOK /\ [Next]_vars => TypeOK'
<1> SUFFICES ASSUME TypeOK, [Next]_vars PROVE TypeOK'
  OBVIOUS
<1>0. serving # "nothing" => request \in Requests
  BY DEF TypeOK, Requests
<1>1. ASSUME NEW s \in Scripts, BeginScript(s) PROVE TypeOK'
  <2>1. request + 1 \in Requests
    BY <1>1 DEF BeginScript, Begin, TypeOK, Requests
  <2>2. history' = [history EXCEPT ![request + 1] = Request("script", <<s>>)]
    BY <1>1 DEF BeginScript, Begin
  <2>3. Request("script", <<s>>) \in Histories
    BY HistoryTypes, ShortSequences
  <2>4. history' \in [Requests -> Histories]
    BY <2>1, <2>2, <2>3 DEF TypeOK
  <2>5. history'[request'].kind = "script"
    BY <1>1, <2>1, <2>2 DEF BeginScript, Begin, TypeOK, Request
  <2>6. /\ globalMergeMode' \in BOOLEAN /\ globalErrorMessageEnabled' \in BOOLEAN
        /\ globalCgiEnvList' \in Seq(Scripts) /\ globalGraph' \subseteq Triples
        /\ requestUri' \in Uris \cup {None}
    BY <1>1, ShortSequences DEF BeginScript, TypeOK, globalVars
  <2>7. /\ request' \in 0..MaxRequests /\ request' > 0
        /\ server' = server /\ m_graph' = m_graph /\ output' = output
        /\ serving' = "script" /\ script' = s /\ query' = s
        /\ urls' = urls /\ origReqUri' = origReqUri /\ cumulatedError' = cumulatedError
    BY <1>1, <2>1 DEF BeginScript, Begin, Requests
  <2> QED
    BY <2>4, <2>5, <2>6, <2>7 DEF TypeOK
<1>2. ASSUME NEW list \in SeqOf(Scripts, MaxUrls), BeginMerge(list) PROVE TypeOK'
  <2>1. request + 1 \in Requests
    BY <1>2 DEF BeginMerge, Begin, TypeOK, Requests
  <2>2. history' = [history EXCEPT ![request + 1] = Request("merge", list)]
    BY <1>2 DEF BeginMerge, Begin
  <2>3. list \in Seq(Scripts) /\ Request("merge", list) \in Histories
    BY ListsAreSequences, HistoryTypes
  <2>4. history' \in [Requests -> Histories]
    BY <2>1, <2>2, <2>3 DEF TypeOK
  <2>5. history'[request'].kind = "merge"
    BY <1>2, <2>1, <2>2 DEF BeginMerge, Begin, TypeOK, Request
  <2>6. <<request + 1, None>> \in Uris
    BY <2>1 DEF Uris
  <2>7. requestUri' \in Uris \cup {None} /\ origReqUri' \in Uris \cup {None}
    BY <1>2, <2>6 DEF BeginMerge, RequestUri, TypeOK
  <2>8. globalMergeMode' \in BOOLEAN /\ globalErrorMessageEnabled' \in BOOLEAN
    BY <1>2 DEF BeginMerge, CgiEnvMergeMode, TypeOK
  <2> QED
    BY <1>2, <2>1, <2>3, <2>4, <2>5, <2>7, <2>8, ShortSequences
    DEF BeginMerge, Begin, CgiEnvMergeMode, TypeOK, Requests
<1>3. CASE SkipUrl
  <2>1. Tail(urls) \in Seq(Scripts) /\ Head(urls) \in Scripts
    BY <1>3 DEF SkipUrl, TypeOK
  <2>2. cumulatedError' \in Seq(Scripts)
    BY <1>3, <2>1 DEF SkipUrl, TypeOK
  <2> QED
    BY <1>3, <2>1, <2>2 DEF SkipUrl, TypeOK, globalVars
<1>4. CASE RunUrl
  <2>1. Tail(urls) \in Seq(Scripts) /\ Head(urls) \in Scripts
    BY <1>4 DEF RunUrl, TypeOK
  <2>2. request \in Requests /\ serving = "merge"
    BY <1>0, <1>4 DEF RunUrl, Merging
  <2>3. <<request, Head(urls)>> \in Uris
    BY <2>1, <2>2 DEF Uris
  <2> QED
    BY <1>4, <2>1, <2>2, <2>3 DEF RunUrl, TypeOK
<1>5. CASE MergeOutCgiRdf
  <2>1. request \in Requests
    BY <1>0, <1>5 DEF MergeOutCgiRdf, Merging
  <2>2. Page(globalGraph, globalCgiEnvList, cumulatedError, requestUri') \in Outputs
    BY <1>5, OutputTypes DEF MergeOutCgiRdf, RestoreUri, TypeOK
  <2>3. output' \in [Requests -> Outputs]
    BY <1>5, <2>1, <2>2, OutputTypes, AnswerTypes DEF MergeOutCgiRdf
  <2> QED
    BY <1>5, <2>1, <2>3, EndTypes DEF MergeOutCgiRdf, RestoreUri, TypeOK
<1>6. CASE AddTriples
  <2>1. request \in Requests /\ script \in Scripts
    BY <1>0, <1>6 DEF AddTriples, TypeOK
  <2>2. <<request, script>> \in Triples
    BY <2>1 DEF Triples
  <2>3. globalGraph' \subseteq Triples /\ m_graph' \subseteq Triples
    BY <1>6, <2>2 DEF AddTriples, GetGraph, TypeOK
  <2>4. /\ history' \in [Requests -> Histories]
        /\ history'[request].kind = history[request].kind
    <3> DEFINE new == [history[request] EXCEPT !.added = history[request].added \cup {script}]
    <3>1. history[request] \in Histories
      BY <2>1 DEF TypeOK
    <3>2. new \in Histories /\ new.kind = history[request].kind
      BY <2>1, <3>1 DEF Histories
    <3>3. history' = [history EXCEPT ![request] = new]
      BY <1>6 DEF AddTriples
    <3> HIDE DEF new
    <3> QED
      BY <2>1, <3>2, <3>3 DEF TypeOK
  <2>6. UNCHANGED <<server, request, serving, script, query, output, requestUri,
                    globalMergeMode, globalErrorMessageEnabled, globalCgiEnvList,
                    urls, origReqUri, cumulatedError>>
    BY <1>6 DEF AddTriples, mergeVars
  <2> QED
    BY <2>3, <2>4, <2>6 DEF TypeOK
<1>7. CASE OutCgiRdf
  <2>1. request \in Requests /\ script \in Scripts
    BY <1>0, <1>7 DEF OutCgiRdf, TypeOK
  <2>2. RequestUri(<<request, script>>) \in Uris \cup {None}
    BY <2>1 DEF RequestUri, Uris, TypeOK
  <2>3. Page(m_graph, <<script>>, <<>>, RequestUri(<<request, script>>)) \in Outputs
    BY <2>1, <2>2, OutputTypes, ShortSequences DEF TypeOK
  <2>4. output' \in [Requests -> Outputs]
    BY <1>7, <2>3 DEF OutCgiRdf, TypeOK
  <2>5. /\ history' \in [Requests -> Histories]
        /\ history'[request].kind = history[request].kind
    <3> DEFINE calls == Append(history[request].displayed, script)
    <3>1. history[request] \in Histories /\ history[request].displayed \in Seq(Scripts)
      BY <2>1 DEF TypeOK, Histories
    <3>2. calls \in Seq(Scripts)
      BY <2>1, <3>1, ShortSequences
    <3>3. history' = [history EXCEPT ![request].displayed = calls]
      BY <1>7 DEF OutCgiRdf
    <3> HIDE DEF calls
    <3> DEFINE new == [history[request] EXCEPT !.displayed = calls]
    <3>4. new \in Histories /\ new.kind = history[request].kind
      BY <3>1, <3>2 DEF Histories
    <3>5. history' = [history EXCEPT ![request] = new]
      BY <3>3
    <3> HIDE DEF new
    <3> QED
      BY <2>1, <3>4, <3>5 DEF TypeOK
  <2>7. globalCgiEnvList' \in Seq(Scripts)
    <3>1. Append(globalCgiEnvList, script) \in Seq(Scripts)
      BY <2>1 DEF TypeOK
    <3> QED
      BY <1>7, <3>1 DEF OutCgiRdf, TypeOK
  <2>8. CASE serving = "script"
    BY <1>7, <2>1, <2>4, <2>5, <2>7, <2>8, EndTypes DEF OutCgiRdf, Returns, TypeOK
  <2>9. CASE serving # "script"
    BY <1>7, <2>1, <2>4, <2>5, <2>7, <2>9 DEF OutCgiRdf, Returns, TypeOK, mergeVars
  <2> QED
    BY <2>8, <2>9
<1>8. ASSUME script # None, Raises, UNCHANGED globalVars,
             output' \in [Requests -> Outputs], history' \in [Requests -> Histories],
             history'[request].kind = history[request].kind
      PROVE  TypeOK'
  <2>1. request \in Requests /\ script \in Scripts
    BY <1>0, <1>8 DEF TypeOK
  <2>2. Append(cumulatedError, script) \in Seq(Scripts)
    BY <2>1 DEF TypeOK
  <2>3. CASE serving = "script"
    BY <1>8, <2>1, <2>3, EndTypes DEF Raises, TypeOK, globalVars
  <2>4. CASE serving # "script"
    BY <1>8, <2>1, <2>2, <2>4 DEF Raises, TypeOK, globalVars
  <2> QED
    BY <2>3, <2>4
<1>9. CASE ErrorMessageHtml
  <2>1. request \in Requests /\ script # None
    BY <1>0, <1>9 DEF ErrorMessageHtml, TypeOK
  <2>2. output' \in [Requests -> Outputs]
    BY <1>9, OutputTypes DEF ErrorMessageHtml, TypeOK
  <2>3. /\ history' \in [Requests -> Histories]
        /\ history'[request].kind = history[request].kind
    <3> DEFINE new == [history[request] EXCEPT !.told = (serving = "script")]
    <3>1. history[request] \in Histories
      BY <2>1 DEF TypeOK
    <3>2. new \in Histories /\ new.kind = history[request].kind
      BY <3>1 DEF Histories
    <3>3. history' = [history EXCEPT ![request] = new]
      BY <1>9 DEF ErrorMessageHtml
    <3> HIDE DEF new
    <3> QED
      BY <2>1, <3>2, <3>3 DEF TypeOK
  <2>5. CASE globalErrorMessageEnabled
    BY <1>9, <2>1, <2>2, <2>3, <2>5, EndTypes DEF ErrorMessageHtml, TypeOK, globalVars
  <2>6. CASE ~globalErrorMessageEnabled
    BY <1>8, <1>9, <2>1, <2>2, <2>3, <2>6 DEF ErrorMessageHtml
  <2> QED
    BY <2>5, <2>6
<1>10. CASE Fails
  BY <1>8, <1>10 DEF Fails, TypeOK
<1>11. CASE EditionMode
  <2>1. request \in Requests
    BY <1>0, <1>11 DEF EditionMode, TypeOK
  <2>2. output' \in [Requests -> Outputs]
    BY <1>11, <2>1, OutputTypes, AnswerTypes DEF EditionMode
  <2> QED
    BY <1>11, <2>1, <2>2, EndTypes DEF EditionMode, TypeOK, globalVars
<1>12. CASE ReturnsSilently
  <2>1. request \in Requests /\ script \in Scripts
    BY <1>0, <1>12 DEF ReturnsSilently, TypeOK, MergeAssumption
  <2>2. output' \in [Requests -> Outputs]
    BY <1>12, <2>1, OutputTypes, AnswerTypes DEF ReturnsSilently, TypeOK
  <2>3. /\ history' \in [Requests -> Histories]
        /\ history'[request].kind = history[request].kind
    <3> DEFINE calls == Append(history[request].silent, script)
    <3>1. history[request] \in Histories /\ history[request].silent \in Seq(Scripts)
      BY <2>1 DEF TypeOK, Histories
    <3>2. calls \in Seq(Scripts)
      BY <2>1, <3>1, ShortSequences
    <3>3. history' = [history EXCEPT ![request].silent = calls]
      BY <1>12 DEF ReturnsSilently
    <3> HIDE DEF calls
    <3> DEFINE new == [history[request] EXCEPT !.silent = calls]
    <3>4. new \in Histories /\ new.kind = history[request].kind
      BY <3>1, <3>2 DEF Histories
    <3>5. history' = [history EXCEPT ![request] = new]
      BY <3>3
    <3> HIDE DEF new
    <3> QED
      BY <2>1, <3>4, <3>5 DEF TypeOK
  <2>4. CASE serving = "script"
    BY <1>12, <2>1, <2>2, <2>3, <2>4, EndTypes DEF ReturnsSilently, Returns, TypeOK
  <2>5. CASE serving # "script"
    BY <1>12, <2>1, <2>2, <2>3, <2>5 DEF ReturnsSilently, Returns, TypeOK, mergeVars
  <2> QED
    BY <2>4, <2>5
<1>13. CASE UNCHANGED vars
  BY <1>13 DEF vars, globalVars, mergeVars, TypeOK
<1> QED
  BY <1>1, <1>2, <1>3, <1>4, <1>5, <1>6, <1>7, <1>9, <1>10, <1>11, <1>12, <1>13
  DEF Next, Merge, Main

(* TypeOK holds in every state: the request that is served is one of the   *)
(* requests, and it is what its history says, whatever server and scripts. *)
THEOREM TypeCorrect == Spec => []TypeOK
BY TypeInit, TypeNext, PTL DEF Spec

-----------------------------------------------------------------------------
(* What a request has made so far is its own: the graph and the list of    *)
(* the current merge, or the graph of the current script.                  *)
MergeInv ==
  /\ \A n \in Requests : n > request => output[n].kind # "page"
  /\ serving # "nothing" => output[request].kind # "page"
  /\ serving = "nothing" => m_graph = {}
  /\ serving = "merge" =>
       /\ globalMergeMode
       /\ globalGraph = {request} \X history[request].added
       /\ globalCgiEnvList = history[request].displayed
  /\ serving = "script" =>
       /\ script # None /\ history[request].displayed = <<>>
       /\ ~globalMergeMode => m_graph = {request} \X history[request].added

(* Until a merge, the process is as a new one.                             *)
FreshInv ==
  /\ \A n \in Requests : n > request =>
       history[n].displayed = <<>> /\ ~history[n].told /\ output[n].kind # "page"
  /\ serving # "nothing" => ~history[request].told /\ output[request].kind # "page"
  /\ serving = "nothing" /\ server = "wsgi" /\ Fresh(request + 1) =>
       ~globalMergeMode /\ globalErrorMessageEnabled /\ requestUri = None
  /\ serving = "script" =>
       script = history[request].asked[1] /\ history[request].displayed = <<>>
  /\ serving = "script" /\ Fresh(request) =>
       ~globalMergeMode /\ globalErrorMessageEnabled /\ requestUri = None
  /\ serving = "merge" /\ Fresh(request) => origReqUri = <<request, None>>

-----------------------------------------------------------------------------
(* What each action does to the history and to the outputs.                *)
LEMMA ServedIsRequest ==
  ASSUME TypeOK
  PROVE  /\ serving # "nothing" => request \in Requests
         /\ script # None => request \in Requests /\ script \in Scripts
                             /\ serving \in {"script", "merge"}
         /\ request \in Nat
BY DEF TypeOK, Requests

LEMMA BeginHistory ==
  ASSUME TypeOK, NEW kind, NEW asked, Begin(kind, asked)
  PROVE  /\ request' = request + 1 /\ request + 1 \in Requests
         /\ \A n \in Requests : n # request + 1 => history'[n] = history[n]
         /\ history'[request'].kind = kind /\ history'[request'].asked = asked
         /\ history'[request'].added = {} /\ history'[request'].displayed = <<>>
         /\ history'[request'].silent = <<>> /\ ~history'[request'].told
<1>1. request + 1 \in Requests
  BY DEF Begin, TypeOK, Requests
<1>2. history' = [history EXCEPT ![request + 1] = Request(kind, asked)] /\ request' = request + 1
  BY DEF Begin
<1>3. \A n \in Requests : n # request + 1 => history'[n] = history[n]
  BY <1>2 DEF TypeOK
<1>4. history'[request'] = Request(kind, asked)
  BY <1>1, <1>2 DEF TypeOK
<1> QED
  BY <1>1, <1>2, <1>3, <1>4 DEF Request

LEMMA AddTriplesHistory ==
  ASSUME TypeOK, AddTriples
  PROVE  /\ \A n \in Requests : n # request => history'[n] = history[n]
         /\ history'[request].added = history[request].added \cup {script}
         /\ history'[request].displayed = history[request].displayed
         /\ history'[request].kind = history[request].kind
         /\ history'[request].silent = history[request].silent
         /\ history'[request].asked = history[request].asked
         /\ history'[request].told = history[request].told
<1>1. request \in Requests
  BY ServedIsRequest DEF AddTriples
<1>2. history[request] \in Histories
  BY <1>1 DEF TypeOK
<1>3. history' = [history EXCEPT ![request].added = history[request].added \cup {script}]
  BY DEF AddTriples
<1> QED
  BY <1>1, <1>2, <1>3 DEF TypeOK, Histories

LEMMA OutCgiRdfHistory ==
  ASSUME TypeOK, OutCgiRdf
  PROVE  /\ \A n \in Requests : n # request =>
              history'[n] = history[n] /\ output'[n] = output[n]
         /\ history'[request].displayed = Append(history[request].displayed, script)
         /\ history'[request].added = history[request].added
         /\ history'[request].kind = history[request].kind
         /\ history'[request].silent = history[request].silent
         /\ history'[request].asked = history[request].asked
         /\ history'[request].told = history[request].told
<1> DEFINE calls == Append(history[request].displayed, script)
<1>1. request \in Requests
  BY ServedIsRequest DEF OutCgiRdf
<1>2. history[request] \in Histories
  BY <1>1 DEF TypeOK
<1>3. history' = [history EXCEPT ![request].displayed = calls]
  BY DEF OutCgiRdf
<1>4. \A n \in Requests : n # request => output'[n] = output[n]
  BY DEF OutCgiRdf, TypeOK
<1> HIDE DEF calls
<1>5. /\ \A n \in Requests : n # request => history'[n] = history[n]
      /\ history'[request].displayed = calls
      /\ history'[request].added = history[request].added
      /\ history'[request].kind = history[request].kind
      /\ history'[request].silent = history[request].silent
      /\ history'[request].asked = history[request].asked
      /\ history'[request].told = history[request].told
  BY <1>1, <1>2, <1>3 DEF TypeOK, Histories
<1> QED
  BY <1>4, <1>5 DEF calls

LEMMA ErrorMessageHistory ==
  ASSUME TypeOK, ErrorMessageHtml
  PROVE  /\ \A n \in Requests : n # request =>
              history'[n] = history[n] /\ output'[n] = output[n]
         /\ history'[request].told = (serving = "script")
         /\ history'[request].displayed = history[request].displayed
         /\ history'[request].added = history[request].added
         /\ history'[request].kind = history[request].kind
         /\ history'[request].silent = history[request].silent
         /\ history'[request].asked = history[request].asked
         /\ output'[request] = IF globalErrorMessageEnabled THEN Message ELSE output[request]
<1>1. request \in Requests
  BY ServedIsRequest DEF ErrorMessageHtml
<1>2. history[request] \in Histories
  BY <1>1 DEF TypeOK
<1>3. history' = [history EXCEPT ![request].told = (serving = "script")]
  BY DEF ErrorMessageHtml
<1>4. \A n \in Requests : n # request => output'[n] = output[n]
  BY DEF ErrorMessageHtml, TypeOK
<1>5. output'[request] = IF globalErrorMessageEnabled THEN Message ELSE output[request]
  BY <1>1 DEF ErrorMessageHtml, TypeOK
<1>6. /\ \A n \in Requests : n # request => history'[n] = history[n]
      /\ history'[request].told = (serving = "script")
      /\ history'[request].displayed = history[request].displayed
      /\ history'[request].added = history[request].added
      /\ history'[request].kind = history[request].kind
      /\ history'[request].silent = history[request].silent
      /\ history'[request].asked = history[request].asked
  BY <1>1, <1>2, <1>3 DEF TypeOK, Histories
<1> QED
  BY <1>4, <1>5, <1>6

LEMMA ReturnsSilentlyHistory ==
  ASSUME TypeOK, ReturnsSilently
  PROVE  /\ \A n \in Requests : n # request =>
              history'[n] = history[n] /\ output'[n] = output[n]
         /\ history'[request].silent = Append(history[request].silent, script)
         /\ history'[request].displayed = history[request].displayed
         /\ history'[request].added = history[request].added
         /\ history'[request].kind = history[request].kind
         /\ history'[request].asked = history[request].asked
         /\ history'[request].told = history[request].told
         /\ output'[request] \in {output[request], File}
<1> DEFINE calls == Append(history[request].silent, script)
<1>1. request \in Requests
  BY ServedIsRequest DEF ReturnsSilently, MergeAssumption
<1>2. history[request] \in Histories
  BY <1>1 DEF TypeOK
<1>3. history' = [history EXCEPT ![request].silent = calls]
  BY DEF ReturnsSilently
<1>4. /\ \A n \in Requests : n # request => output'[n] = output[n]
      /\ output'[request] \in {output[request], File}
  BY <1>1 DEF ReturnsSilently, Answer, TypeOK
<1> HIDE DEF calls
<1>5. /\ \A n \in Requests : n # request => history'[n] = history[n]
      /\ history'[request].silent = calls
      /\ history'[request].displayed = history[request].displayed
      /\ history'[request].added = history[request].added
      /\ history'[request].kind = history[request].kind
      /\ history'[request].asked = history[request].asked
      /\ history'[request].told = history[request].told
  BY <1>1, <1>2, <1>3 DEF TypeOK, Histories
<1> QED
  BY <1>4, <1>5 DEF calls

(* A request that ends leaves nothing of its own but its output.           *)
LEMMA NotPages ==
  /\ Nothing.kind # "page" /\ Message.kind # "page" /\ Form.kind # "page"
  /\ File.kind # "page" /\ Message.kind = "message"
BY DEF Nothing, Message, Form, File

-----------------------------------------------------------------------------
LEMMA PagesInit == Init => MergeInv /\ PageIsOfItsRequest
<1> SUFFICES ASSUME Init PROVE MergeInv /\ PageIsOfItsRequest
  OBVIOUS
<1>1. \A n \in Requests : output[n].kind # "page"
  BY NotPages DEF Init
<1> QED
  BY <1>1 DEF Init, MergeInv, PageIsOfItsRequest

(* A request that ends without a page.                                     *)
LEMMA EndWithoutPage ==
  ASSUME TypeOK, MergeInv, PageIsOfItsRequest, End, serving # "nothing",
         \A n \in Requests : n # request => output'[n] = output[n] /\ history'[n] = history[n],
         output'[request].kind # "page"
  PROVE  MergeInv' /\ PageIsOfItsRequest'
<1>1. request' = request /\ serving' = "nothing" /\ m_graph' = {} /\ request \in Nat
  BY ServedIsRequest DEF End
<1>2. PageIsOfItsRequest'
  BY DEF PageIsOfItsRequest
<1>3. \A n \in Requests : n > request' => output'[n].kind # "page"
  BY <1>1 DEF MergeInv, Requests
<1> QED
  BY <1>1, <1>2, <1>3 DEF MergeInv

LEMMA PagesNext ==
  TypeOK /\ MergeInv /\ PageIsOfItsRequest /\ [Next]_vars => MergeInv' /\ PageIsOfItsRequest'
<1> SUFFICES ASSUME TypeOK, MergeInv, PageIsOfItsRequest, [Next]_vars
             PROVE  MergeInv' /\ PageIsOfItsRequest'
  OBVIOUS
<1>1. ASSUME NEW kind, NEW asked, Begin(kind, asked)
      PROVE  /\ PageIsOfItsRequest'
             /\ \A n \in Requests : n > request' => output'[n].kind # "page"
             /\ output'[request'].kind # "page"
  <2>1. /\ request' = request + 1 /\ request + 1 \in Requests
        /\ \A n \in Requests : n # request + 1 => history'[n] = history[n]
    BY <1>1, BeginHistory
  <2>2. output' = output
    BY <1>1 DEF Begin
  <2>3. \A n \in Requests : n >= request + 1 => output[n].kind # "page"
    BY <2>1, ServedIsRequest DEF MergeInv, Requests
  <2>4. PageIsOfItsRequest'
    BY <2>1, <2>2, <2>3, ServedIsRequest DEF PageIsOfItsRequest, Requests
  <2> QED
    BY <2>1, <2>2, <2>3, <2>4, ServedIsRequest DEF Requests
<1>2. ASSUME NEW s \in Scripts, BeginScript(s) PROVE MergeInv' /\ PageIsOfItsRequest'
  <2>1. Begin("script", <<s>>) /\ serving = "nothing" /\ serving' = "script" /\ script' = s
        /\ m_graph' = m_graph
    BY <1>2 DEF BeginScript, Begin
  <2>2. history'[request'].added = {} /\ history'[request'].displayed = <<>>
    BY <2>1, BeginHistory
  <2>3. m_graph' = {request'} \X history'[request'].added
    BY <2>1, <2>2 DEF MergeInv
  <2> QED
    BY <1>1, <2>1, <2>2, <2>3, MergeAssumption DEF MergeInv
<1>3. ASSUME NEW list \in SeqOf(Scripts, MaxUrls), BeginMerge(list)
      PROVE  MergeInv' /\ PageIsOfItsRequest'
  <2>1. Begin("merge", list) /\ serving' = "merge" /\ CgiEnvMergeMode
    BY <1>3 DEF BeginMerge, Begin
  <2>2. history'[request'].added = {} /\ history'[request'].displayed = <<>>
    BY <2>1, BeginHistory
  <2>3. /\ globalMergeMode' /\ globalCgiEnvList' = history'[request'].displayed
        /\ globalGraph' = {request'} \X history'[request'].added
    BY <2>1, <2>2 DEF CgiEnvMergeMode
  <2> QED
    BY <1>1, <2>1, <2>3 DEF MergeInv
<1>4. CASE SkipUrl
  BY <1>4 DEF SkipUrl, globalVars, MergeInv, PageIsOfItsRequest
<1>5. CASE RunUrl
  BY <1>5 DEF RunUrl, Merging, MergeInv, PageIsOfItsRequest
<1>6. CASE MergeOutCgiRdf
  <2>1. request \in Requests /\ serving = "merge" /\ End /\ history' = history
    BY <1>6, ServedIsRequest DEF MergeOutCgiRdf, Merging
  <2>2. \A n \in Requests : n # request => output'[n] = output[n]
    BY <1>6 DEF MergeOutCgiRdf, Answer, TypeOK
  <2>3. output'[request] \in {Page(globalGraph, globalCgiEnvList, cumulatedError, requestUri'),
                              Message, Nothing, File}
    BY <1>6, <2>1 DEF MergeOutCgiRdf, Answer, TypeOK
  <2>4. CASE output'[request].kind # "page"
    BY <2>1, <2>2, <2>4, EndWithoutPage
  <2>5. CASE output'[request] = Page(globalGraph, globalCgiEnvList, cumulatedError, requestUri')
    <3>1. /\ output'[request].graph = {request} \X history[request].added
          /\ output'[request].scripts = history[request].displayed
      BY <2>1, <2>5 DEF Page, MergeInv
    <3>2. PageIsOfItsRequest'
      BY <2>1, <2>2, <3>1 DEF PageIsOfItsRequest
    <3>3. \A n \in Requests : n > request => output'[n].kind # "page"
      BY <2>2, ServedIsRequest DEF MergeInv, Requests
    <3> QED
      BY <2>1, <3>2, <3>3 DEF MergeInv, End
  <2> QED
    BY <2>3, <2>4, <2>5, NotPages
<1>7. CASE AddTriples
  <2>1. /\ request \in Requests /\ script \in Scripts /\ output' = output
        /\ request' = request /\ serving' = serving /\ script' = script
        /\ globalMergeMode' = globalMergeMode /\ globalCgiEnvList' = globalCgiEnvList
        /\ serving # "nothing"
    BY <1>7, ServedIsRequest DEF AddTriples, TypeOK
  <2>2. /\ \A n \in Requests : n # request => history'[n] = history[n]
        /\ history'[request].added = history[request].added \cup {script}
        /\ history'[request].displayed = history[request].displayed
    BY <1>7, AddTriplesHistory
  <2>3. PageIsOfItsRequest'
    BY <2>1, <2>2 DEF PageIsOfItsRequest, MergeInv
  <2>4. CASE globalMergeMode
    <3>1. globalGraph' = globalGraph \cup {<<request, script>>} /\ m_graph' = m_graph
      BY <1>7, <2>4 DEF AddTriples, GetGraph
    <3>2. serving = "merge" => globalGraph' = {request} \X history'[request].added
      BY <2>2, <3>1 DEF MergeInv
    <3> QED
      BY <2>1, <2>2, <2>3, <2>4, <3>1, <3>2 DEF MergeInv
  <2>5. CASE ~globalMergeMode
    <3>1. m_graph' = m_graph \cup {<<request, script>>}
      BY <1>7, <2>5 DEF AddTriples, GetGraph
    <3>2. serving = "script" => m_graph' = {request} \X history'[request].added
      BY <2>2, <2>5, <3>1 DEF MergeInv
    <3> QED
      BY <2>1, <2>2, <2>3, <2>5, <3>1, <3>2 DEF MergeInv
  <2> QED
    BY <2>4, <2>5
<1>8. CASE OutCgiRdf
  <2>1. request \in Requests /\ script \in Scripts /\ serving \in {"script", "merge"}
    BY <1>8, ServedIsRequest DEF OutCgiRdf
  <2>2. /\ \A n \in Requests : n # request => history'[n] = history[n] /\ output'[n] = output[n]
        /\ history'[request].displayed = Append(history[request].displayed, script)
        /\ history'[request].added = history[request].added
    BY <1>8, OutCgiRdfHistory
  <2>3. CASE serving = "script"
    <3>1. End
      BY <1>8, <2>3 DEF OutCgiRdf, Returns
    <3>2. CASE globalMergeMode
      <4>1. output'[request].kind # "page"
        BY <1>8, <2>3, <3>2 DEF OutCgiRdf, MergeInv
      <4> QED
        BY <2>2, <2>3, <3>1, <4>1, EndWithoutPage
    <3>3. CASE ~globalMergeMode
      <4>1. output'[request] = Page(m_graph, <<script>>, <<>>, RequestUri(<<request, script>>))
        BY <1>8, <2>1, <3>3 DEF OutCgiRdf, TypeOK
      <4>2. output'[request].graph = m_graph /\ output'[request].scripts = <<script>>
        BY <4>1 DEF Page
      <4>3. Append(<<>>, script) = <<script>>
        OBVIOUS
      <4>4. /\ output'[request].graph = {request} \X history'[request].added
            /\ output'[request].scripts = history'[request].displayed
        BY <2>2, <2>3, <3>3, <4>2, <4>3 DEF MergeInv
      <4>5. PageIsOfItsRequest'
        BY <2>2, <4>4 DEF PageIsOfItsRequest
      <4>6. \A n \in Requests : n > request => output'[n].kind # "page"
        BY <2>2, ServedIsRequest DEF MergeInv, Requests
      <4> QED
        BY <3>1, <4>5, <4>6 DEF MergeInv, End
    <3> QED
      BY <3>2, <3>3
  <2>4. CASE serving = "merge"
    <3>1. /\ request' = request /\ serving' = serving /\ m_graph' = m_graph
          /\ globalMergeMode' = globalMergeMode /\ globalGraph' = globalGraph
      BY <1>8, <2>4 DEF OutCgiRdf, Returns
    <3>2. globalCgiEnvList' = Append(globalCgiEnvList, script) /\ output' = output
      BY <1>8, <2>4 DEF OutCgiRdf, MergeInv
    <3>3. PageIsOfItsRequest'
      BY <2>2, <2>4, <3>2 DEF PageIsOfItsRequest, MergeInv
    <3> QED
      BY <2>2, <2>4, <3>1, <3>2, <3>3 DEF MergeInv
  <2> QED
    BY <2>1, <2>3, <2>4
<1>9. ASSUME script # None, Raises, UNCHANGED globalVars, output'[request].kind # "page",
             \A n \in Requests : n # request =>
               history'[n] = history[n] /\ output'[n] = output[n],
             history'[request].added = history[request].added,
             history'[request].displayed = history[request].displayed
      PROVE  MergeInv' /\ PageIsOfItsRequest'
  <2>1. request \in Requests /\ serving \in {"script", "merge"}
    BY <1>9, ServedIsRequest
  <2>2. CASE serving = "script"
    BY <1>9, <2>2, EndWithoutPage DEF Raises
  <2>3. CASE serving = "merge"
    <3>1. request' = request /\ serving' = "merge" /\ m_graph' = m_graph
      BY <1>9, <2>3 DEF Raises
    <3>2. PageIsOfItsRequest'
      BY <1>9 DEF PageIsOfItsRequest
    <3>3. \A n \in Requests : n > request => output'[n].kind # "page"
      BY <1>9, ServedIsRequest DEF MergeInv, Requests
    <3> QED
      BY <1>9, <2>3, <3>1, <3>2, <3>3 DEF MergeInv, globalVars
  <2> QED
    BY <2>1, <2>2, <2>3
<1>10. CASE ErrorMessageHtml
  <2>1. script # None /\ UNCHANGED globalVars /\ serving # "nothing"
    BY <1>10, ServedIsRequest DEF ErrorMessageHtml
  <2>2. output'[request].kind # "page"
    BY <1>10, <2>1, ErrorMessageHistory, NotPages DEF MergeInv
  <2>3. CASE globalErrorMessageEnabled
    BY <1>10, <2>1, <2>2, <2>3, ErrorMessageHistory, EndWithoutPage DEF ErrorMessageHtml
  <2>4. CASE ~globalErrorMessageEnabled
    BY <1>9, <1>10, <2>1, <2>2, <2>4, ErrorMessageHistory DEF ErrorMessageHtml
  <2> QED
    BY <2>3, <2>4
<1>11. CASE Fails
  <2>1. output'[request].kind # "page" /\ script # None
    BY <1>11, ServedIsRequest DEF Fails, MergeInv
  <2> QED
    BY <1>9, <1>11, <2>1 DEF Fails
<1>12. CASE EditionMode
  <2>1. request \in Requests /\ serving # "nothing" /\ End /\ history' = history
    BY <1>12, ServedIsRequest DEF EditionMode
  <2>2. /\ \A n \in Requests : n # request => output'[n] = output[n]
        /\ output'[request] \in {Form, File}
    BY <1>12, <2>1 DEF EditionMode, Answer, TypeOK
  <2> QED
    BY <2>1, <2>2, EndWithoutPage, NotPages
<1>13. CASE ReturnsSilently
  <2>1. request \in Requests /\ serving \in {"script", "merge"}
    BY <1>13, ServedIsRequest DEF ReturnsSilently, MergeAssumption
  <2>2. /\ \A n \in Requests : n # request => history'[n] = history[n] /\ output'[n] = output[n]
        /\ history'[request].displayed = history[request].displayed
        /\ history'[request].added = history[request].added
    BY <1>13, ReturnsSilentlyHistory
  <2>3. output'[request].kind # "page"
    BY <1>13, <2>1, ReturnsSilentlyHistory, NotPages DEF MergeInv
  <2>4. CASE serving = "script"
    BY <1>13, <2>2, <2>3, <2>4, EndWithoutPage DEF ReturnsSilently, Returns
  <2>5. CASE serving = "merge"
    <3>1. /\ request' = request /\ serving' = serving /\ m_graph' = m_graph
          /\ UNCHANGED <<globalMergeMode, globalCgiEnvList, globalGraph>>
      BY <1>13, <2>5 DEF ReturnsSilently, Returns
    <3>2. PageIsOfItsRequest'
      BY <2>2, <2>3 DEF PageIsOfItsRequest
    <3>3. \A n \in Requests : n > request => output'[n].kind # "page"
      BY <2>2, ServedIsRequest DEF MergeInv, Requests
    <3> QED
      BY <2>2, <2>3, <2>5, <3>1, <3>2, <3>3 DEF MergeInv
  <2> QED
    BY <2>1, <2>4, <2>5
<1>14. CASE UNCHANGED vars
  BY <1>14 DEF vars, globalVars, mergeVars, MergeInv, PageIsOfItsRequest
<1> QED
  BY <1>2, <1>3, <1>4, <1>5, <1>6, <1>7, <1>8, <1>10, <1>11, <1>12, <1>13, <1>14
  DEF Next, Merge, Main

(* A page displays the triples of its own request and names its scripts,   *)
(* whatever the same process served before it.                             *)
THEOREM PagesAreOwn == Spec => []PageIsOfItsRequest
<1>1. Init => TypeOK /\ MergeInv /\ PageIsOfItsRequest
  BY TypeInit, PagesInit
<1>2. TypeOK /\ MergeInv /\ PageIsOfItsRequest /\ [Next]_vars
        => (TypeOK /\ MergeInv /\ PageIsOfItsRequest)'
  BY TypeNext, PagesNext
<1> QED
  BY <1>1, <1>2, PTL DEF Spec

-----------------------------------------------------------------------------
LEMMA FreshInit == Init => FreshInv /\ FreshRequestAnswered
<1> SUFFICES ASSUME Init PROVE FreshInv /\ FreshRequestAnswered
  OBVIOUS
<1>1. \A n \in Requests : output[n].kind # "page"
  BY NotPages DEF Init
<1>2. \A n \in Requests : history[n].displayed = <<>> /\ ~history[n].told
  BY DEF Init, Request
<1> QED
  BY <1>1, <1>2 DEF Init, FreshInv, FreshRequestAnswered

(* The kind of a request does not change after it has begun.               *)
LEMMA FreshKept ==
  ASSUME TypeOK, server' = server,
         \A n \in Requests : n <= request => history'[n].kind = history[n].kind
  PROVE  /\ \A n \in 1..(request + 1) : Fresh(n)' <=> Fresh(n)
         /\ request' = request + 1 => (Fresh(request)' <=> Fresh(request + 1))
         /\ request' = request =>
              /\ Fresh(request)' <=> Fresh(request)
              /\ Fresh(request + 1)' <=> Fresh(request + 1)
<1>1. request \in 0..MaxRequests
  BY DEF TypeOK
<1>2. \A m \in 1..request : m \in Requests /\ m <= request
  BY <1>1 DEF Requests
<1>3. \A m \in 1..request : history'[m].kind = history[m].kind
  BY <1>2
<1>4. ASSUME NEW n \in 1..(request + 1) PROVE Fresh(n)' <=> Fresh(n)
  <2>1. \A m \in 1..(n - 1) : m \in 1..request
    BY <1>1
  <2> QED
    BY <1>3, <2>1 DEF Fresh
<1>5. ASSUME request' = request + 1 PROVE Fresh(request)' <=> Fresh(request + 1)
  <2>1. 1..(request' - 1) = 1..request /\ 1..((request + 1) - 1) = 1..request
    BY <1>1, <1>5
  <2> QED
    BY <1>3, <2>1 DEF Fresh
<1>6. ASSUME request' = request PROVE Fresh(request)' <=> Fresh(request)
  <2>1. \A m \in 1..(request - 1) : m \in 1..request
    BY <1>1
  <2> QED
    BY <1>3, <1>6, <2>1 DEF Fresh
<1>7. ASSUME request' = request PROVE Fresh(request + 1)' <=> Fresh(request + 1)
  <2>1. 1..((request' + 1) - 1) = 1..request /\ 1..((request + 1) - 1) = 1..request
    BY <1>1, <1>7
  <2> QED
    BY <1>3, <2>1 DEF Fresh
<1> QED
  BY <1>4, <1>5, <1>6, <1>7

(* The answer of the current request is all that FreshRequestAnswered can  *)
(* lose in a step.                                                         *)
LEMMA AnsweredStep ==
  ASSUME TypeOK, FreshRequestAnswered, server' = server,
         \A n \in Requests : n <= request => history'[n].kind = history[n].kind,
         NEW r \in Requests,
         \A n \in Requests : n # r => history'[n] = history[n] /\ output'[n] = output[n],
         \A n \in Requests : n > request =>
           history'[n].displayed = <<>> /\ ~history'[n].told /\ output'[n].kind # "page",
         r <= request /\ Fresh(r) =>
           /\ history'[r].displayed # <<>> /\ history'[r].kind # "merge"
                => output'[r].kind = "page"
           /\ history'[r].told => output'[r].kind = "message"
           /\ output'[r].kind = "page" => output'[r].uri =
                <<r, IF history'[r].kind = "merge" THEN None ELSE history'[r].asked[1]>>
  PROVE  FreshRequestAnswered'
<1> SUFFICES ASSUME NEW n \in Requests, Fresh(n)'
             PROVE  /\ history'[n].displayed # <<>> /\ history'[n].kind # "merge"
                         => output'[n].kind = "page"
                    /\ history'[n].told => output'[n].kind = "message"
                    /\ output'[n].kind = "page" => output'[n].uri =
                         <<n, IF history'[n].kind = "merge" THEN None
                              ELSE history'[n].asked[1]>>
  BY DEF FreshRequestAnswered
<1>1. CASE n > request
  BY <1>1
<1>2. CASE n <= request
  <2>1. Fresh(n)
    BY <1>2, FreshKept, ServedIsRequest DEF Requests
  <2> QED
    BY <1>2, <2>1 DEF FreshRequestAnswered
<1> QED
  BY <1>1, <1>2, ServedIsRequest DEF Requests

LEMMA FreshNext ==
  TypeOK /\ MergeInv /\ FreshInv /\ FreshRequestAnswered /\ [Next]_vars
    => FreshInv' /\ FreshRequestAnswered'
<1> SUFFICES ASSUME TypeOK, MergeInv, FreshInv, FreshRequestAnswered, [Next]_vars
             PROVE  FreshInv' /\ FreshRequestAnswered'
  OBVIOUS
<1>0. request \in Nat /\ (serving # "nothing" => request \in Requests)
  BY ServedIsRequest
<1>1. ASSUME NEW kind, NEW asked, Begin(kind, asked)
      PROVE  /\ FreshRequestAnswered'
             /\ Fresh(request)' <=> Fresh(request + 1)
             /\ \A n \in Requests : n > request' =>
                  history'[n].displayed = <<>> /\ ~history'[n].told /\ output'[n].kind # "page"
             /\ request' = request + 1 /\ request + 1 \in Requests
             /\ output'[request'].kind # "page" /\ ~history'[request'].told
             /\ history'[request'].asked = asked /\ history'[request'].displayed = <<>>
  <2>1. /\ request' = request + 1 /\ request + 1 \in Requests
        /\ \A n \in Requests : n # request + 1 => history'[n] = history[n]
        /\ history'[request'].displayed = <<>> /\ ~history'[request'].told
        /\ history'[request'].asked = asked
    BY <1>1, BeginHistory
  <2>2. output' = output /\ server' = server
    BY <1>1 DEF Begin
  <2>3. \A n \in Requests : n > request =>
          history'[n].displayed = <<>> /\ ~history'[n].told /\ output'[n].kind # "page"
    BY <2>1, <2>2 DEF FreshInv
  <2>4. \A n \in Requests : n <= request => history'[n].kind = history[n].kind
    BY <1>0, <2>1
  <2>5. FreshRequestAnswered'
    BY <1>0, <2>1, <2>2, <2>3, <2>4, AnsweredStep
  <2>6. Fresh(request)' <=> Fresh(request + 1)
    BY <2>1, <2>2, <2>4, FreshKept
  <2>7. \A n \in Requests : n > request' => n > request
    BY <1>0, <2>1 DEF Requests
  <2>8. request + 1 > request
    BY <1>0
  <2> QED
    BY <2>1, <2>2, <2>3, <2>5, <2>6, <2>7, <2>8
<1>2. ASSUME NEW s \in Scripts, BeginScript(s) PROVE FreshInv' /\ FreshRequestAnswered'
  <2>1. /\ Begin("script", <<s>>) /\ serving = "nothing" /\ serving' = "script" /\ script' = s
        /\ server' = server
    BY <1>2 DEF BeginScript, Begin
  <2>2. Fresh(request + 1) =>
          ~globalMergeMode' /\ globalErrorMessageEnabled' /\ requestUri' = None
    BY <1>2, <2>1 DEF BeginScript, globalVars, FreshInv, TypeOK
  <2>3. script' = history'[request'].asked[1]
    BY <1>1, <2>1
  <2>4. Fresh(request)' =>
          ~globalMergeMode' /\ globalErrorMessageEnabled' /\ requestUri' = None
    BY <1>1, <2>1, <2>2
  <2> QED
    BY <1>1, <2>1, <2>3, <2>4 DEF FreshInv
<1>3. ASSUME NEW list \in SeqOf(Scripts, MaxUrls), BeginMerge(list)
      PROVE  FreshInv' /\ FreshRequestAnswered'
  <2>1. Begin("merge", list) /\ serving = "nothing" /\ serving' = "merge" /\ server' = server
    BY <1>3 DEF BeginMerge, Begin
  <2>2. Fresh(request + 1) => origReqUri' = <<request + 1, None>>
    BY <1>3, <2>1 DEF BeginMerge, RequestUri, FreshInv, TypeOK
  <2>3. Fresh(request)' => origReqUri' = <<request', None>>
    BY <1>1, <2>1, <2>2
  <2> QED
    BY <1>1, <2>1, <2>3 DEF FreshInv
<1>4. ASSUME End, serving # "nothing",
             \A n \in Requests : n # request =>
               history'[n] = history[n] /\ output'[n] = output[n],
             history'[request].kind = history[request].kind,
             serving = "script" /\ Fresh(request) => UNCHANGED globalVars,
             Fresh(request) =>
               /\ history'[request].displayed # <<>> /\ history'[request].kind # "merge"
                    => output'[request].kind = "page"
               /\ history'[request].told => output'[request].kind = "message"
               /\ output'[request].kind = "page" => output'[request].uri =
                    <<request, IF history'[request].kind = "merge" THEN None
                               ELSE history'[request].asked[1]>>
      PROVE  FreshInv' /\ FreshRequestAnswered'
  <2>1. /\ request \in Requests /\ request' = request /\ server' = server
        /\ serving' = "nothing" /\ history[request].kind = serving
    BY <1>0, <1>4 DEF End, TypeOK
  <2>2. \A n \in Requests : n > request =>
          history'[n].displayed = <<>> /\ ~history'[n].told /\ output'[n].kind # "page"
    BY <1>0, <1>4 DEF FreshInv, Requests
  <2>3. \A n \in Requests : n <= request => history'[n].kind = history[n].kind
    BY <1>4
  <2>4. FreshRequestAnswered'
    BY <1>4, <2>1, <2>2, <2>3, AnsweredStep
  <2>5. ASSUME server = "wsgi", Fresh(request + 1)
        PROVE  serving = "script" /\ Fresh(request)
    <3>1. \A m \in 1..request : history[m].kind # "merge"
      BY <1>0, <2>5 DEF Fresh
    <3>2. request \in 1..request
      BY <2>1 DEF Requests
    <3>3. \A m \in 1..(request - 1) : m \in 1..request
      BY <1>0
    <3> QED
      BY <1>4, <2>1, <3>1, <3>2, <3>3 DEF Fresh, TypeOK
  <2>6. server' = "wsgi" /\ Fresh(request + 1)' =>
          ~globalMergeMode' /\ globalErrorMessageEnabled' /\ requestUri' = None
    <3>1. Fresh(request + 1)' <=> Fresh(request + 1)
      BY <2>1, <2>3, FreshKept
    <3> QED
      BY <1>4, <2>1, <2>5, <3>1 DEF FreshInv, globalVars
  <2> QED
    BY <2>1, <2>2, <2>4, <2>6 DEF FreshInv
<1>5. ASSUME serving # "nothing", serving' = serving, request' = request, server' = server,
             UNCHANGED origReqUri,
             \A n \in Requests : n # request =>
               history'[n] = history[n] /\ output'[n] = output[n],
             history'[request].kind = history[request].kind,
             history'[request].told = history[request].told,
             output'[request] = output[request] \/ output'[request].kind # "page",
             history'[request].displayed # <<>> => serving = "merge",
             serving = "script" =>
               /\ UNCHANGED <<script, globalMergeMode, globalErrorMessageEnabled, requestUri>>
               /\ history'[request].asked = history[request].asked
      PROVE  FreshInv' /\ FreshRequestAnswered'
  <2>1. request \in Requests /\ history[request].kind = serving
    BY <1>0, <1>5 DEF TypeOK
  <2>2. \A n \in Requests : n > request =>
          history'[n].displayed = <<>> /\ ~history'[n].told /\ output'[n].kind # "page"
    BY <1>0, <1>5 DEF FreshInv, Requests
  <2>3. \A n \in Requests : n <= request => history'[n].kind = history[n].kind
    BY <1>5
  <2>4. FreshRequestAnswered'
    BY <1>5, <2>1, <2>2, <2>3, AnsweredStep DEF FreshInv
  <2>5. Fresh(request)' <=> Fresh(request)
    BY <1>5, <2>3, FreshKept
  <2> QED
    BY <1>5, <2>2, <2>4, <2>5 DEF FreshInv
<1>6. CASE SkipUrl
  BY <1>5, <1>6 DEF SkipUrl, Merging
<1>7. CASE RunUrl
  BY <1>5, <1>7 DEF RunUrl, Merging
<1>8. CASE MergeOutCgiRdf
  <2>1. /\ request \in Requests /\ serving = "merge" /\ End /\ history' = history
        /\ requestUri' = origReqUri
    BY <1>0, <1>8 DEF MergeOutCgiRdf, Merging, RestoreUri
  <2>2. \A n \in Requests : n # request => output'[n] = output[n]
    BY <1>8 DEF MergeOutCgiRdf, Answer, TypeOK
  <2>3. output'[request] \in {Page(globalGraph, globalCgiEnvList, cumulatedError, requestUri'),
                              Message, Nothing, File}
    BY <1>8, <2>1 DEF MergeOutCgiRdf, Answer, TypeOK
  <2>4. output'[request].kind = "page" => output'[request].uri = origReqUri
    BY <2>1, <2>3, NotPages DEF Page
  <2>5. history[request].kind = "merge" /\ ~history[request].told
    BY <2>1 DEF TypeOK, FreshInv
  <2>6. Fresh(request) => origReqUri = <<request, None>>
    BY <2>1 DEF FreshInv
  <2> QED
    BY <1>4, <2>1, <2>2, <2>4, <2>5, <2>6
<1>9. CASE AddTriples
  <2>1. /\ serving # "nothing" /\ output' = output
        /\ UNCHANGED <<serving, request, server, origReqUri, script, globalMergeMode,
                       globalErrorMessageEnabled, requestUri>>
    BY <1>9, ServedIsRequest DEF AddTriples, mergeVars
  <2>2. history[request].displayed # <<>> => serving = "merge"
    BY <2>1 DEF FreshInv, TypeOK
  <2> QED
    BY <1>5, <1>9, <2>1, <2>2, AddTriplesHistory
<1>10. CASE OutCgiRdf
  <2>1. /\ request \in Requests /\ script \in Scripts /\ serving \in {"script", "merge"}
        /\ UNCHANGED <<globalMergeMode, globalGraph, requestUri>>
    BY <1>10, ServedIsRequest DEF OutCgiRdf
  <2>2. CASE serving = "script"
    <3>1. End /\ UNCHANGED globalErrorMessageEnabled
      BY <1>10, <2>2 DEF OutCgiRdf, Returns
    <3>2. ASSUME Fresh(request)
          PROVE  /\ UNCHANGED globalVars
                 /\ output'[request].kind = "page"
                 /\ output'[request].uri = <<request, history'[request].asked[1]>>
                 /\ ~history'[request].told /\ history'[request].kind # "merge"
      <4>1. /\ ~globalMergeMode /\ requestUri = None
            /\ script = history[request].asked[1] /\ ~history[request].told
        BY <2>2, <3>2 DEF FreshInv
      <4>2. /\ UNCHANGED globalCgiEnvList
            /\ output'[request] = Page(m_graph, <<script>>, <<>>, RequestUri(<<request, script>>))
        BY <1>10, <2>1, <4>1 DEF OutCgiRdf, TypeOK
      <4>3. output'[request].kind = "page" /\ output'[request].uri = <<request, script>>
        BY <4>1, <4>2 DEF Page, RequestUri
      <4>4. history[request].kind = "script"
        BY <2>2 DEF TypeOK
      <4> QED
        BY <1>10, <2>1, <3>1, <4>1, <4>2, <4>3, <4>4, OutCgiRdfHistory DEF globalVars
    <3> QED
      BY <1>4, <1>10, <2>2, <3>1, <3>2, OutCgiRdfHistory
  <2>3. CASE serving = "merge"
    <3>1. UNCHANGED <<request, serving, server, origReqUri>>
      BY <1>10, <2>3 DEF OutCgiRdf, Returns, mergeVars
    <3>2. output' = output
      BY <1>10, <2>3 DEF OutCgiRdf, MergeInv
    <3> QED
      BY <1>5, <1>10, <2>3, <3>1, <3>2, OutCgiRdfHistory
  <2> QED
    BY <2>1, <2>2, <2>3
<1>11. CASE ErrorMessageHtml
  <2>1. /\ serving \in {"script", "merge"} /\ script # None /\ UNCHANGED globalVars
        /\ request \in Requests
    BY <1>11, ServedIsRequest DEF ErrorMessageHtml
  <2>2. history[request].kind = serving /\ output[request].kind # "page"
    BY <2>1 DEF TypeOK, FreshInv
  <2>3. CASE globalErrorMessageEnabled
    <3>1. End /\ output'[request] = Message
      BY <1>11, <2>3, ErrorMessageHistory DEF ErrorMessageHtml
    <3>2. history'[request].displayed # <<>> => history'[request].kind = "merge"
      BY <1>11, <2>1, <2>2, ErrorMessageHistory DEF FreshInv
    <3> QED
      BY <1>4, <1>11, <2>1, <3>1, <3>2, ErrorMessageHistory, NotPages
  <2>4. CASE ~globalErrorMessageEnabled
    <3>1. Raises /\ output'[request] = output[request]
      BY <1>11, <2>4, ErrorMessageHistory DEF ErrorMessageHtml
    <3>2. CASE serving = "script"
      <4>1. ~Fresh(request) /\ End
        BY <2>4, <3>1, <3>2 DEF FreshInv, Raises
      <4> QED
        BY <1>4, <1>11, <2>1, <4>1, ErrorMessageHistory
    <3>3. CASE serving = "merge"
      <4>1. UNCHANGED <<request, serving, server, origReqUri>>
        BY <3>1, <3>3 DEF Raises
      <4>2. history[request].told = FALSE
        BY <2>1 DEF FreshInv, TypeOK, Histories
      <4>3. history'[request].told = history[request].told
        BY <1>11, <3>3, <4>2, ErrorMessageHistory
      <4> QED
        BY <1>5, <1>11, <2>1, <3>1, <3>3, <4>1, <4>3, ErrorMessageHistory
    <3> QED
      BY <2>1, <3>2, <3>3
  <2> QED
    BY <2>3, <2>4
<1>12. CASE Fails
  <2>1. /\ serving \in {"script", "merge"} /\ Raises
        /\ UNCHANGED <<globalVars, output, history>> /\ request \in Requests
    BY <1>12, ServedIsRequest DEF Fails
  <2>2. output[request].kind # "page" /\ ~history[request].told
    BY <2>1 DEF FreshInv
  <2>3. CASE serving = "script"
    BY <1>4, <2>1, <2>2, <2>3 DEF Raises, FreshInv
  <2>4. CASE serving = "merge"
    BY <1>5, <2>1, <2>2, <2>4 DEF Raises
  <2> QED
    BY <2>1, <2>3, <2>4
<1>13. CASE EditionMode
  <2>1. /\ serving \in {"script", "merge"} /\ End /\ history' = history
        /\ UNCHANGED globalVars /\ request \in Requests
    BY <1>13, ServedIsRequest DEF EditionMode
  <2>2. /\ \A n \in Requests : n # request => output'[n] = output[n]
        /\ output'[request] \in {Form, File}
    BY <1>13, <2>1 DEF EditionMode, Answer, TypeOK
  <2>3. history[request].displayed # <<>> => history[request].kind = "merge"
    BY <2>1 DEF FreshInv, TypeOK
  <2>4. ~history[request].told
    BY <2>1 DEF FreshInv
  <2> QED
    BY <1>4, <2>1, <2>2, <2>3, <2>4, NotPages
<1>14. CASE ReturnsSilently
  <2>1. /\ serving \in {"script", "merge"} /\ request \in Requests
        /\ UNCHANGED <<globalMergeMode, globalCgiEnvList, globalGraph, requestUri>>
    BY <1>14, ServedIsRequest DEF ReturnsSilently, MergeAssumption
  <2>2. output'[request].kind # "page" /\ ~history'[request].told
    BY <1>14, <2>1, ReturnsSilentlyHistory, NotPages DEF FreshInv
  <2>3. CASE serving = "script"
    <3>1. End /\ UNCHANGED globalErrorMessageEnabled
      BY <1>14, <2>3 DEF ReturnsSilently, Returns
    <3>2. history'[request].displayed = <<>>
      BY <1>14, <2>3, ReturnsSilentlyHistory DEF FreshInv
    <3>3. UNCHANGED globalVars
      BY <2>1, <3>1 DEF globalVars
    <3> QED
      BY <1>4, <1>14, <2>2, <2>3, <3>1, <3>2, <3>3, ReturnsSilentlyHistory
  <2>4. CASE serving = "merge"
    <3>1. UNCHANGED <<request, serving, server, origReqUri>>
      BY <1>14, <2>4 DEF ReturnsSilently, Returns, mergeVars
    <3> QED
      BY <1>5, <1>14, <2>2, <2>4, <3>1, ReturnsSilentlyHistory
  <2> QED
    BY <2>1, <2>3, <2>4
<1>15. CASE UNCHANGED vars
  BY <1>15 DEF vars, globalVars, mergeVars, FreshInv, FreshRequestAnswered, Fresh
<1> QED
  BY <1>2, <1>3, <1>6, <1>7, <1>8, <1>9, <1>10, <1>11, <1>12, <1>13, <1>14, <1>15
  DEF Next, Merge, Main

(* As long as its process has merged nothing, a request is answered as if  *)
(* it were the only one: with the page of its script, its message, and its *)
(* own URI.                                                                *)
THEOREM FreshAnswered == Spec => []FreshRequestAnswered
<1>1. Init => TypeOK /\ MergeInv /\ PageIsOfItsRequest /\ FreshInv /\ FreshRequestAnswered
  BY TypeInit, PagesInit, FreshInit
<1>2. TypeOK /\ MergeInv /\ PageIsOfItsRequest /\ FreshInv /\ FreshRequestAnswered /\ [Next]_vars
        => (TypeOK /\ MergeInv /\ PageIsOfItsRequest /\ FreshInv /\ FreshRequestAnswered)'
  BY TypeNext, PagesNext, FreshNext
<1> QED
  BY <1>1, <1>2, PTL DEF Spec

-----------------------------------------------------------------------------
(* Counting: how many of the first k URLs are s.                           *)
CountTo(s, seq, k) == Cardinality({i \in 1..k : seq[i] = s})

Same(x, s) == IF x = s THEN 1 ELSE 0

LEMMA SameFacts ==
  /\ \A x, s : Same(x, s) \in {0, 1}
  /\ \A x, s : x # s => Same(x, s) = 0
  /\ \A s \in Scripts : Same(None, s) = 0
BY DEF Same

LEMMA CountFacts ==
  ASSUME NEW s, NEW seq, NEW k \in Nat
  PROVE  /\ CountTo(s, seq, k) \in Nat
         /\ CountTo(s, seq, 0) = 0
         /\ CountTo(s, seq, k + 1) = CountTo(s, seq, k) + Same(seq[k + 1], s)
         /\ CountTo(s, seq, k) # 0 => \E i \in 1..k : seq[i] = s
<1> DEFINE S(m) == {i \in 1..m : seq[i] = s}
<1>1. IsFiniteSet(S(k))
  <2>1. IsFiniteSet(1..k)
    BY FS_Interval
  <2> QED
    BY <2>1, FS_Subset
<1>2. S(0) = {}
  OBVIOUS
<1>3. S(k + 1) = IF seq[k + 1] = s THEN S(k) \cup {k + 1} ELSE S(k)
  OBVIOUS
<1>4. k + 1 \notin S(k)
  OBVIOUS
<1> HIDE DEF S
<1>5. /\ Cardinality(S(k)) \in Nat /\ Cardinality(S(0)) = 0
      /\ Cardinality(S(k)) # 0 => S(k) # {}
  BY <1>1, <1>2, FS_CardinalityType, FS_EmptySet
<1>6. Cardinality(S(k) \cup {k + 1}) = Cardinality(S(k)) + 1
  BY <1>1, <1>4, FS_AddElement
<1>7. Cardinality(S(k + 1)) = Cardinality(S(k)) + Same(seq[k + 1], s)
  BY <1>3, <1>5, <1>6 DEF Same
<1>8. S(k) # {} => \E i \in 1..k : seq[i] = s
  BY DEF S
<1> QED
  BY <1>5, <1>7, <1>8 DEF S, CountTo

LEMMA OccurrencesTo ==
  ASSUME NEW s, NEW seq \in Seq(Scripts)
  PROVE  Occurrences(s, seq) = CountTo(s, seq, Len(seq)) /\ Occurrences(s, seq) \in Nat
<1>1. DOMAIN seq = 1..Len(seq)
  OBVIOUS
<1>2. Occurrences(s, seq) = CountTo(s, seq, Len(seq))
  BY <1>1 DEF Occurrences, CountTo
<1>3. Len(seq) \in Nat
  OBVIOUS
<1> QED
  BY <1>2, <1>3, CountFacts

LEMMA OccurrencesAppend ==
  ASSUME NEW s, NEW seq \in Seq(Scripts), NEW x \in Scripts
  PROVE  Occurrences(s, Append(seq, x)) = Occurrences(s, seq) + Same(x, s)
<1> DEFINE longer == Append(seq, x)
<1>1. /\ longer \in Seq(Scripts) /\ Len(longer) = Len(seq) + 1 /\ Len(seq) \in Nat
      /\ longer[Len(seq) + 1] = x /\ \A i \in 1..Len(seq) : longer[i] = seq[i]
  OBVIOUS
<1> HIDE DEF longer
<1>2. CountTo(s, longer, Len(seq)) = CountTo(s, seq, Len(seq))
  BY <1>1 DEF CountTo
<1>3. CountTo(s, longer, Len(seq) + 1)
        = CountTo(s, longer, Len(seq)) + Same(longer[Len(seq) + 1], s)
  BY <1>1, CountFacts, Zenon
<1>4. Occurrences(s, longer) = Occurrences(s, seq) + Same(x, s)
  <2>1. /\ Occurrences(s, longer) = CountTo(s, longer, Len(longer))
        /\ Occurrences(s, seq) = CountTo(s, seq, Len(seq))
    BY <1>1, OccurrencesTo
  <2> QED
    BY <1>1, <1>2, <1>3, <2>1
<1> QED
  BY <1>4 DEF longer

LEMMA OccurrencesShort ==
  ASSUME NEW s
  PROVE  /\ Occurrences(s, <<>>) = 0
         /\ \A x \in Scripts : Occurrences(s, <<x>>) = Same(x, s)
<1>1. <<>> \in Seq(Scripts) /\ Len(<<>>) = 0
  OBVIOUS
<1>2. Occurrences(s, <<>>) = 0
  <2>1. Occurrences(s, <<>>) = CountTo(s, <<>>, Len(<<>>))
    BY <1>1, OccurrencesTo
  <2>2. 0 \in Nat
    OBVIOUS
  <2>3. CountTo(s, <<>>, 0) = 0
    BY <2>2, CountFacts
  <2> QED
    BY <1>1, <2>1, <2>3
<1>3. ASSUME NEW x \in Scripts PROVE Occurrences(s, <<x>>) = Same(x, s)
  <2>1. Append(<<>>, x) = <<x>>
    OBVIOUS
  <2>2. Occurrences(s, Append(<<>>, x)) = Occurrences(s, <<>>) + Same(x, s)
    BY <1>1, OccurrencesAppend
  <2> QED
    BY <1>2, <2>1, <2>2, SameFacts
<1> QED
  BY <1>2, <1>3

-----------------------------------------------------------------------------
(* Of the first k URLs of a merge, each occurrence is displayed, is in the *)
(* error, returned silently or is the script that runs, or else a URL that *)
(* is not Python came after one of them.                                   *)
Counted == Scripts \ (NotFound \ NotPython)

Overwritten(s, asked, k) ==
  \E i, j \in 1..k : i < j /\ asked[i] = s /\ asked[j] \in NotPython

Settled(asked, k, shown, errors, silent, x) ==
  \A s \in Counted :
    \/ Overwritten(s, asked, k)
    \/ CountTo(s, asked, k) = Occurrences(s, shown) + Occurrences(s, errors)
                              + Occurrences(s, silent) + Same(x, s)

LEMMA CountedScripts == \A s \in Counted : s \in Scripts /\ s # None
BY DEF Counted

LEMMA SettledStart == ASSUME NEW asked PROVE Settled(asked, 0, <<>>, <<>>, <<>>, None)
<1> SUFFICES ASSUME NEW s \in Counted
             PROVE  CountTo(s, asked, 0) = Occurrences(s, <<>>) + Occurrences(s, <<>>)
                                             + Occurrences(s, <<>>) + Same(None, s)
  BY DEF Settled
<1>1. CountTo(s, asked, 0) = 0
  <2>1. 0 \in Nat
    OBVIOUS
  <2> QED
    BY <2>1, CountFacts
<1>2. Occurrences(s, <<>>) = 0 /\ Same(None, s) = 0
  BY OccurrencesShort, CountedScripts, SameFacts
<1> QED
  BY <1>1, <1>2

(* The next URL is run.                                                    *)
LEMMA SettledRun ==
  ASSUME NEW asked, NEW k \in Nat, NEW shown \in Seq(Scripts), NEW errors \in Seq(Scripts),
         NEW silent \in Seq(Scripts),
         Settled(asked, k, shown, errors, silent, None)
  PROVE  Settled(asked, k + 1, shown, errors, silent, asked[k + 1])
<1> SUFFICES ASSUME NEW s \in Counted, ~Overwritten(s, asked, k + 1)
             PROVE  CountTo(s, asked, k + 1) = Occurrences(s, shown) + Occurrences(s, errors)
                                               + Occurrences(s, silent)
                                               + Same(asked[k + 1], s)
  BY DEF Settled
<1>1. ~Overwritten(s, asked, k)
  BY DEF Overwritten
<1>2. /\ Same(None, s) = 0 /\ Occurrences(s, shown) \in Nat /\ Occurrences(s, errors) \in Nat
      /\ Occurrences(s, silent) \in Nat
  BY CountedScripts, SameFacts, OccurrencesTo
<1>3. CountTo(s, asked, k) = Occurrences(s, shown) + Occurrences(s, errors)
                             + Occurrences(s, silent) + Same(None, s)
  BY <1>1 DEF Settled
<1>4. CountTo(s, asked, k + 1) = CountTo(s, asked, k) + Same(asked[k + 1], s)
  BY CountFacts
<1> QED
  BY <1>2, <1>3, <1>4

(* The next URL cannot be imported.                                        *)
LEMMA SettledNotFound ==
  ASSUME NEW asked, NEW k \in Nat, NEW shown, NEW errors, NEW silent,
         asked[k + 1] \in NotFound \ NotPython,
         Settled(asked, k, shown, errors, silent, None)
  PROVE  Settled(asked, k + 1, shown, errors, silent, None)
<1> SUFFICES ASSUME NEW s \in Counted, ~Overwritten(s, asked, k + 1)
             PROVE  CountTo(s, asked, k + 1) = Occurrences(s, shown) + Occurrences(s, errors)
                                               + Occurrences(s, silent)
                                               + Same(None, s)
  BY DEF Settled
<1>1. ~Overwritten(s, asked, k) /\ asked[k + 1] # s
  BY DEF Overwritten, Counted
<1>2. CountTo(s, asked, k + 1) = CountTo(s, asked, k)
  <2>1. /\ CountTo(s, asked, k + 1) = CountTo(s, asked, k) + Same(asked[k + 1], s)
        /\ CountTo(s, asked, k) \in Nat
    BY CountFacts
  <2>2. Same(asked[k + 1], s) = 0
    BY <1>1, SameFacts
  <2> QED
    BY <2>1, <2>2
<1> QED
  BY <1>1, <1>2 DEF Settled

(* The next URL is not Python: the error that it leaves names it alone.    *)
LEMMA SettledNotPython ==
  ASSUME NEW asked, NEW k \in Nat, NEW shown \in Seq(Scripts), NEW errors \in Seq(Scripts),
         NEW silent \in Seq(Scripts),
         asked[k + 1] \in NotPython,
         Settled(asked, k, shown, errors, silent, None)
  PROVE  Settled(asked, k + 1, shown, <<asked[k + 1]>>, silent, None)
<1> DEFINE x == asked[k + 1]
<1> SUFFICES ASSUME NEW s \in Counted, ~Overwritten(s, asked, k + 1)
             PROVE  CountTo(s, asked, k + 1) = Occurrences(s, shown) + Occurrences(s, <<x>>)
                                               + Occurrences(s, silent)
                                               + Same(None, s)
  BY DEF Settled
<1>1. ~Overwritten(s, asked, k)
  BY DEF Overwritten
<1>2. /\ Occurrences(s, shown) \in Nat /\ Occurrences(s, errors) \in Nat
      /\ Occurrences(s, silent) \in Nat
      /\ Same(None, s) = 0
  BY CountedScripts, SameFacts, OccurrencesTo
<1>3. CountTo(s, asked, k) = 0
  <2>1. ~\E i \in 1..k : asked[i] = s
    BY DEF Overwritten
  <2> QED
    BY <2>1, CountFacts
<1>4. Occurrences(s, shown) = 0 /\ Occurrences(s, silent) = 0
  <2>1. CountTo(s, asked, k) = Occurrences(s, shown) + Occurrences(s, errors)
                               + Occurrences(s, silent) + Same(None, s)
    BY <1>1 DEF Settled
  <2> QED
    BY <1>2, <1>3, <2>1
<1>5. x \in Scripts /\ Same(x, s) \in {0, 1}
  BY SameFacts
<1> HIDE DEF x
<1>6. Occurrences(s, <<x>>) = Same(x, s)
  BY <1>5, OccurrencesShort
<1>7. CountTo(s, asked, k + 1) = CountTo(s, asked, k) + Same(x, s)
  BY CountFacts DEF x
<1> QED
  BY <1>2, <1>3, <1>4, <1>5, <1>6, <1>7

(* The script that runs calls OutCgiRdf, or raises.                        *)
LEMMA SettledReturns ==
  ASSUME NEW asked, NEW k \in Nat, NEW shown \in Seq(Scripts), NEW errors \in Seq(Scripts),
         NEW silent \in Seq(Scripts),
         NEW x \in Scripts, Settled(asked, k, shown, errors, silent, x)
  PROVE  /\ Settled(asked, k, Append(shown, x), errors, silent, None)
         /\ Settled(asked, k, shown, Append(errors, x), silent, None)
         /\ Settled(asked, k, shown, errors, Append(silent, x), None)
<1> SUFFICES ASSUME NEW s \in Counted, ~Overwritten(s, asked, k)
             PROVE  /\ CountTo(s, asked, k) = Occurrences(s, Append(shown, x))
                         + Occurrences(s, errors) + Occurrences(s, silent) + Same(None, s)
                    /\ CountTo(s, asked, k) = Occurrences(s, shown)
                         + Occurrences(s, Append(errors, x)) + Occurrences(s, silent)
                         + Same(None, s)
                    /\ CountTo(s, asked, k) = Occurrences(s, shown) + Occurrences(s, errors)
                         + Occurrences(s, Append(silent, x)) + Same(None, s)
  BY DEF Settled
<1>1. CountTo(s, asked, k) = Occurrences(s, shown) + Occurrences(s, errors) + Occurrences(s, silent)
                                 + Same(x, s)
  BY DEF Settled
<1>2. /\ Occurrences(s, shown) \in Nat /\ Occurrences(s, errors) \in Nat
      /\ Occurrences(s, silent) \in Nat
  BY OccurrencesTo
<1>3. Same(None, s) = 0 /\ Same(x, s) \in {0, 1}
  BY CountedScripts, SameFacts
<1>4. /\ Occurrences(s, Append(shown, x)) = Occurrences(s, shown) + Same(x, s)
      /\ Occurrences(s, Append(errors, x)) = Occurrences(s, errors) + Same(x, s)
      /\ Occurrences(s, Append(silent, x)) = Occurrences(s, silent) + Same(x, s)
  BY OccurrencesAppend
<1> QED
  BY <1>1, <1>2, <1>3, <1>4

(* An output is right about what was asked, as EveryUrlAccounted says.     *)
UrlsAccounted(asked, silent, out) ==
  out.kind = "page" =>
    \A s \in Scripts \ (NotFound \ NotPython) :
      \/ Occurrences(s, asked) = Occurrences(s, out.scripts) + Occurrences(s, out.errors)
                                  + Occurrences(s, silent)
      \/ \E i, j \in DOMAIN asked : i < j /\ asked[i] = s /\ asked[j] \in NotPython

LEMMA SettledEnd ==
  ASSUME NEW asked \in Seq(Scripts), NEW shown \in Seq(Scripts), NEW errors \in Seq(Scripts),
         NEW silent \in Seq(Scripts),
         NEW graph, NEW uri, Settled(asked, Len(asked), shown, errors, silent, None)
  PROVE  UrlsAccounted(asked, silent, Page(graph, shown, errors, uri))
<1>1. /\ Page(graph, shown, errors, uri).scripts = shown
      /\ Page(graph, shown, errors, uri).errors = errors
  BY DEF Page
<1>2. ASSUME NEW s \in Counted
      PROVE  \/ Occurrences(s, asked) = Occurrences(s, shown) + Occurrences(s, errors)
                                           + Occurrences(s, silent)
             \/ Overwritten(s, asked, Len(asked))
  <2>1. /\ Occurrences(s, asked) = CountTo(s, asked, Len(asked)) /\ Same(None, s) = 0
        /\ Occurrences(s, shown) \in Nat /\ Occurrences(s, errors) \in Nat
        /\ Occurrences(s, silent) \in Nat
    BY CountedScripts, OccurrencesTo, SameFacts
  <2>2. \/ Overwritten(s, asked, Len(asked))
        \/ CountTo(s, asked, Len(asked))
             = Occurrences(s, shown) + Occurrences(s, errors)
               + Occurrences(s, silent) + Same(None, s)
    BY DEF Settled
  <2> QED
    BY <2>1, <2>2
<1>3. DOMAIN asked = 1..Len(asked)
  OBVIOUS
<1> QED
  BY <1>1, <1>2, <1>3 DEF UrlsAccounted, Counted, Overwritten

(* The page of one script is that of the merge of its URL alone.           *)
LEMMA OneScriptAccounted ==
  ASSUME NEW s \in Scripts, NEW graph, NEW uri
  PROVE  UrlsAccounted(<<s>>, <<>>, Page(graph, <<s>>, <<>>, uri))
<1>1. <<s>> \in Seq(Scripts) /\ <<>> \in Seq(Scripts) /\ Len(<<s>>) = 1 /\ <<s>>[1] = s
      /\ Append(<<>>, s) = <<s>>
  OBVIOUS
<1>2. Settled(<<s>>, 0 + 1, <<>>, <<>>, <<>>, <<s>>[0 + 1])
  BY <1>1, SettledStart, SettledRun
<1>3. Settled(<<s>>, 1, <<>>, <<>>, <<>>, s)
  BY <1>1, <1>2
<1>4. Settled(<<s>>, 1, <<s>>, <<>>, <<>>, None)
  BY <1>1, <1>3, SettledReturns
<1> QED
  BY <1>1, <1>4, SettledEnd

-----------------------------------------------------------------------------
(* rest is what is left of the URLs that were asked.                       *)
Remaining(asked, rest) ==
  /\ Len(rest) <= Len(asked)
  /\ \A i \in 1..Len(rest) : rest[i] = asked[(Len(asked) - Len(rest)) + i]

LEMMA RemainingFacts ==
  ASSUME NEW asked \in Seq(Scripts)
  PROVE  /\ Remaining(asked, asked) /\ Len(asked) - Len(asked) = 0
         /\ \A rest \in Seq(Scripts) : Remaining(asked, rest) /\ rest # <<>> =>
              \E k \in Nat :
                /\ k = Len(asked) - Len(rest) /\ Head(rest) = asked[k + 1]
                /\ Len(asked) - Len(Tail(rest)) = k + 1 /\ Remaining(asked, Tail(rest))
<1>1. Remaining(asked, asked) /\ Len(asked) - Len(asked) = 0
  BY DEF Remaining
<1>2. ASSUME NEW rest \in Seq(Scripts), Remaining(asked, rest), rest # <<>>
      PROVE  \E k \in Nat :
               /\ k = Len(asked) - Len(rest) /\ Head(rest) = asked[k + 1]
               /\ Len(asked) - Len(Tail(rest)) = k + 1 /\ Remaining(asked, Tail(rest))
  <2>1. PICK m \in Nat, l \in Nat : m = Len(asked) /\ l = Len(rest)
    OBVIOUS
  <2>2. l > 0 /\ l <= m
    BY <1>2, <2>1 DEF Remaining
  <2>3. /\ Len(Tail(rest)) = l - 1 /\ Head(rest) = rest[1]
        /\ \A i \in 1..(l - 1) : Tail(rest)[i] = rest[i + 1]
    BY <1>2, <2>1
  <2>4. \A i \in 1..l : rest[i] = asked[(m - l) + i]
    BY <1>2, <2>1 DEF Remaining
  <2>5. Head(rest) = asked[(m - l) + 1]
    BY <2>2, <2>3, <2>4
  <2>6. m - (l - 1) = (m - l) + 1
    OBVIOUS
  <2>7. ASSUME NEW i \in 1..(l - 1)
        PROVE  Tail(rest)[i] = asked[(m - (l - 1)) + i]
    <3>1. i + 1 \in 1..l /\ (m - l) + (i + 1) = (m - (l - 1)) + i
      OBVIOUS
    <3> QED
      BY <2>3, <2>4, <3>1
  <2>8. Remaining(asked, Tail(rest))
    <3> DEFINE tail == Tail(rest)
    <3>1. Len(tail) = l - 1 /\ \A i \in 1..(l - 1) : tail[i] = asked[(m - (l - 1)) + i]
      BY <2>3, <2>7
    <3> HIDE DEF tail
    <3>2. Len(tail) <= Len(asked)
      BY <2>1, <2>2, <3>1
    <3>3. \A i \in 1..Len(tail) : tail[i] = asked[(Len(asked) - Len(tail)) + i]
      BY <2>1, <3>1
    <3>4. Remaining(asked, tail)
      BY <3>2, <3>3 DEF Remaining
    <3> QED
      BY <3>4 DEF tail
  <2>9. PICK k \in Nat : k = m - l
    BY <2>2
  <2> WITNESS k \in Nat
  <2> QED
    BY <2>1, <2>3, <2>5, <2>6, <2>8, <2>9
<1> QED
  BY <1>1, <1>2

(* What a merge has done of the URLs that it was asked.                    *)
MergeAccounted(asked, rest, shown, errors, silent, x) ==
  Remaining(asked, rest) /\ Settled(asked, Len(asked) - Len(rest), shown, errors, silent, x)

LEMMA MergeAccountedStart ==
  ASSUME NEW asked \in Seq(Scripts)
  PROVE  MergeAccounted(asked, asked, <<>>, <<>>, <<>>, None)
BY RemainingFacts, SettledStart DEF MergeAccounted

LEMMA MergeAccountedNext ==
  ASSUME NEW asked \in Seq(Scripts), NEW rest \in Seq(Scripts), rest # <<>>,
         NEW shown \in Seq(Scripts), NEW errors \in Seq(Scripts), NEW silent \in Seq(Scripts),
         MergeAccounted(asked, rest, shown, errors, silent, None)
  PROVE  /\ MergeAccounted(asked, Tail(rest), shown, errors, silent, Head(rest))
         /\ Head(rest) \in NotFound \ NotPython =>
              MergeAccounted(asked, Tail(rest), shown, errors, silent, None)
         /\ Head(rest) \in NotPython =>
              MergeAccounted(asked, Tail(rest), shown, <<Head(rest)>>, silent, None)
<1>1. PICK k \in Nat :
        /\ k = Len(asked) - Len(rest) /\ Head(rest) = asked[k + 1]
        /\ Len(asked) - Len(Tail(rest)) = k + 1 /\ Remaining(asked, Tail(rest))
  BY RemainingFacts DEF MergeAccounted
<1>2. Settled(asked, k, shown, errors, silent, None)
  BY <1>1 DEF MergeAccounted
<1>3. Settled(asked, k + 1, shown, errors, silent, asked[k + 1])
  BY <1>2, SettledRun
<1>4. asked[k + 1] \in NotFound \ NotPython => Settled(asked, k + 1, shown, errors, silent, None)
  BY <1>2, SettledNotFound
<1>5. asked[k + 1] \in NotPython => Settled(asked, k + 1, shown, <<asked[k + 1]>>, silent, None)
  BY <1>2, SettledNotPython
<1> QED
  BY <1>1, <1>3, <1>4, <1>5 DEF MergeAccounted

LEMMA MergeAccountedReturns ==
  ASSUME NEW asked \in Seq(Scripts), NEW rest \in Seq(Scripts),
         NEW shown \in Seq(Scripts), NEW errors \in Seq(Scripts),
         NEW silent \in Seq(Scripts), NEW x \in Scripts,
         MergeAccounted(asked, rest, shown, errors, silent, x)
  PROVE  /\ MergeAccounted(asked, rest, Append(shown, x), errors, silent, None)
         /\ MergeAccounted(asked, rest, shown, Append(errors, x), silent, None)
         /\ MergeAccounted(asked, rest, shown, errors, Append(silent, x), None)
<1>0. Remaining(asked, rest)
  BY DEF MergeAccounted
<1>1. PICK k \in Nat : k = Len(asked) - Len(rest)
  <2>1. Len(asked) \in Nat /\ Len(rest) \in Nat
    OBVIOUS
  <2>2. Len(rest) <= Len(asked)
    BY <1>0 DEF Remaining
  <2>3. Len(asked) - Len(rest) \in Nat
    BY <2>1, <2>2
  <2> QED
    BY <2>3
<1>2. Settled(asked, k, shown, errors, silent, x) /\ Remaining(asked, rest)
  BY <1>1 DEF MergeAccounted
<1>3. /\ Settled(asked, k, Append(shown, x), errors, silent, None)
      /\ Settled(asked, k, shown, Append(errors, x), silent, None)
      /\ Settled(asked, k, shown, errors, Append(silent, x), None)
  BY <1>2, SettledReturns
<1>4. MergeAccounted(asked, rest, Append(shown, x), errors, silent, None)
  BY <1>1, <1>2, <1>3 DEF MergeAccounted
<1>5. MergeAccounted(asked, rest, shown, Append(errors, x), silent, None)
  BY <1>1, <1>2, <1>3 DEF MergeAccounted
<1>6. MergeAccounted(asked, rest, shown, errors, Append(silent, x), None)
  BY <1>1, <1>2, <1>3 DEF MergeAccounted
<1> QED
  BY <1>4, <1>5, <1>6

LEMMA MergeAccountedEnd ==
  ASSUME NEW asked \in Seq(Scripts), NEW shown \in Seq(Scripts), NEW errors \in Seq(Scripts),
         NEW silent \in Seq(Scripts),
         NEW graph, NEW uri, MergeAccounted(asked, <<>>, shown, errors, silent, None)
  PROVE  UrlsAccounted(asked, silent, Page(graph, shown, errors, uri))
<1>1. Len(asked) - Len(<<>>) = Len(asked)
  OBVIOUS
<1> QED
  BY <1>1, SettledEnd DEF MergeAccounted

-----------------------------------------------------------------------------
(* The URLs of the request that is served.                                 *)
AccountInv ==
  /\ serving = "script" =>
       history[request].asked = <<script>> /\ history[request].silent = <<>>
  /\ serving = "merge" =>
       MergeAccounted(history[request].asked, urls, history[request].displayed,
                      cumulatedError, history[request].silent, script)

LEMMA ServedHistory ==
  ASSUME TypeOK, serving # "nothing"
  PROVE  /\ request \in Requests
         /\ history[request].asked \in Seq(Scripts)
         /\ history[request].displayed \in Seq(Scripts)
         /\ history[request].silent \in Seq(Scripts)
         /\ urls \in Seq(Scripts) /\ cumulatedError \in Seq(Scripts)
<1>1. request \in Requests
  BY ServedIsRequest
<1>2. history[request] \in Histories
  BY <1>1 DEF TypeOK
<1> QED
  BY <1>1, <1>2 DEF Histories, TypeOK

LEMMA AccountInit == Init => AccountInv /\ EveryUrlAccounted
<1> SUFFICES ASSUME Init PROVE AccountInv /\ EveryUrlAccounted
  OBVIOUS
<1>1. \A n \in Requests : output[n].kind # "page"
  BY NotPages DEF Init
<1> QED
  BY <1>1 DEF Init, AccountInv, EveryUrlAccounted

LEMMA AllAccounted ==
  EveryUrlAccounted <=>
    \A n \in Requests : UrlsAccounted(history[n].asked, history[n].silent, output[n])
BY DEF EveryUrlAccounted, UrlsAccounted

LEMMA NoPageAccounted ==
  ASSUME NEW asked, NEW silent, NEW out, out.kind # "page"
  PROVE  UrlsAccounted(asked, silent, out)
BY DEF UrlsAccounted

LEMMA AccountNext ==
  TypeOK /\ MergeInv /\ AccountInv /\ EveryUrlAccounted /\ [Next]_vars
    => AccountInv' /\ EveryUrlAccounted'
<1> SUFFICES ASSUME TypeOK, MergeInv, AccountInv, EveryUrlAccounted, [Next]_vars
             PROVE  AccountInv' /\ EveryUrlAccounted'
  OBVIOUS
<1>1. \A n \in Requests : UrlsAccounted(history[n].asked, history[n].silent, output[n])
  BY AllAccounted
<1>2. ASSUME NEW kind, NEW asked, Begin(kind, asked)
      PROVE  /\ EveryUrlAccounted'
             /\ history'[request'].asked = asked /\ history'[request'].displayed = <<>>
             /\ history'[request'].silent = <<>>
  <2>1. /\ request' = request + 1 /\ request + 1 \in Requests
        /\ \A n \in Requests : n # request + 1 => history'[n] = history[n]
        /\ history'[request'].asked = asked /\ history'[request'].displayed = <<>>
        /\ history'[request'].silent = <<>>
    BY <1>2, BeginHistory
  <2>2. output' = output
    BY <1>2 DEF Begin
  <2>3. output'[request + 1].kind # "page"
    BY <2>1, <2>2, ServedIsRequest DEF MergeInv
  <2>4. \A n \in Requests : UrlsAccounted(history'[n].asked, history'[n].silent, output'[n])
    BY <1>1, <2>1, <2>2, <2>3, NoPageAccounted
  <2> QED
    BY <2>1, <2>4 DEF EveryUrlAccounted, UrlsAccounted
<1>3. ASSUME NEW s \in Scripts, BeginScript(s) PROVE AccountInv' /\ EveryUrlAccounted'
  <2>1. Begin("script", <<s>>) /\ serving' = "script" /\ script' = s
    BY <1>3 DEF BeginScript, Begin
  <2> QED
    BY <1>2, <2>1 DEF AccountInv
<1>4. ASSUME NEW list \in SeqOf(Scripts, MaxUrls), BeginMerge(list)
      PROVE  AccountInv' /\ EveryUrlAccounted'
  <2>1. /\ Begin("merge", list) /\ serving' = "merge" /\ script' = None
        /\ urls' = list /\ cumulatedError' = <<>>
    BY <1>4 DEF BeginMerge, Begin
  <2>2. MergeAccounted(list, list, <<>>, <<>>, <<>>, None)
    BY ListsAreSequences, MergeAccountedStart
  <2> QED
    BY <1>2, <2>1, <2>2 DEF AccountInv
(* A step of the request that is served.                                   *)
<1>5. ASSUME \A n \in Requests : n # request =>
               history'[n] = history[n] /\ output'[n] = output[n],
             UrlsAccounted(history'[request].asked, history'[request].silent, output'[request])
      PROVE  EveryUrlAccounted'
  <2>1. \A n \in Requests : UrlsAccounted(history'[n].asked, history'[n].silent, output'[n])
    BY <1>1, <1>5
  <2> QED
    BY <2>1 DEF EveryUrlAccounted, UrlsAccounted
<1>6. ASSUME End PROVE AccountInv'
  BY <1>6 DEF End, AccountInv
<1>7. ASSUME script # None, Raises, output'[request].kind # "page",
             \A n \in Requests : n # request =>
               history'[n] = history[n] /\ output'[n] = output[n],
             history'[request].asked = history[request].asked,
             history'[request].displayed = history[request].displayed,
             history'[request].silent = history[request].silent
      PROVE  AccountInv' /\ EveryUrlAccounted'
  <2>1. EveryUrlAccounted'
    BY <1>5, <1>7, NoPageAccounted
  <2>2. CASE serving = "script"
    BY <1>6, <1>7, <2>1, <2>2 DEF Raises
  <2>3. CASE serving = "merge"
    <3>1. /\ script' = None /\ cumulatedError' = Append(cumulatedError, script)
          /\ serving' = "merge" /\ request' = request /\ urls' = urls
      BY <1>7, <2>3 DEF Raises
    <3>2. MergeAccounted(history[request].asked, urls, history[request].displayed,
                         Append(cumulatedError, script), history[request].silent, None)
      BY <1>7, <2>3, ServedHistory, ServedIsRequest, MergeAccountedReturns DEF AccountInv
    <3> QED
      BY <1>7, <2>1, <3>1, <3>2 DEF AccountInv
  <2> QED
    BY <1>7, <2>2, <2>3, ServedIsRequest
<1>8. CASE SkipUrl
  <2>1. /\ serving = "merge" /\ script = None /\ urls # <<>>
        /\ UNCHANGED <<request, serving, script, output, history>> /\ urls' = Tail(urls)
        /\ Head(urls) \in NotFound \cup NotPython
        /\ cumulatedError' = IF Head(urls) \in NotPython THEN <<Head(urls)>> ELSE cumulatedError
    BY <1>8 DEF SkipUrl, Merging
  <2>2. MergeAccounted(history[request].asked, urls, history[request].displayed,
                       cumulatedError, history[request].silent, None)
    BY <2>1 DEF AccountInv
  <2>3. /\ Head(urls) \in NotFound \ NotPython =>
             MergeAccounted(history[request].asked, Tail(urls), history[request].displayed,
                            cumulatedError, history[request].silent, None)
        /\ Head(urls) \in NotPython =>
             MergeAccounted(history[request].asked, Tail(urls), history[request].displayed,
                            <<Head(urls)>>, history[request].silent, None)
    BY <2>1, <2>2, ServedHistory, MergeAccountedNext
  <2>4. MergeAccounted(history[request].asked, urls', history[request].displayed,
                       cumulatedError', history[request].silent, None)
    BY <2>1, <2>3
  <2> QED
    BY <2>1, <2>4 DEF AccountInv, EveryUrlAccounted
<1>9. CASE RunUrl
  <2>1. /\ serving = "merge" /\ script = None /\ urls # <<>> /\ script' = Head(urls)
        /\ UNCHANGED <<request, serving, cumulatedError, output, history>> /\ urls' = Tail(urls)
    BY <1>9 DEF RunUrl, Merging
  <2>2. MergeAccounted(history[request].asked, urls, history[request].displayed,
                       cumulatedError, history[request].silent, None)
    BY <2>1 DEF AccountInv
  <2>3. MergeAccounted(history[request].asked, Tail(urls), history[request].displayed,
                       cumulatedError, history[request].silent, Head(urls))
    BY <2>1, <2>2, ServedHistory, MergeAccountedNext
  <2> QED
    BY <2>1, <2>3 DEF AccountInv, EveryUrlAccounted
<1>10. CASE MergeOutCgiRdf
  <2>1. /\ request \in Requests /\ serving = "merge" /\ script = None /\ urls = <<>>
        /\ End /\ history' = history
    BY <1>10, ServedIsRequest DEF MergeOutCgiRdf, Merging
  <2>2. \A n \in Requests : n # request => output'[n] = output[n]
    BY <1>10 DEF MergeOutCgiRdf, Answer, TypeOK
  <2>3. output'[request] \in {Page(globalGraph, globalCgiEnvList, cumulatedError, requestUri'),
                              Message, Nothing, File}
    BY <1>10, <2>1 DEF MergeOutCgiRdf, Answer, TypeOK
  <2>4. globalCgiEnvList = history[request].displayed
    BY <2>1 DEF MergeInv
  <2>5. MergeAccounted(history[request].asked, <<>>, history[request].displayed,
                       cumulatedError, history[request].silent, None)
    BY <2>1 DEF AccountInv
  <2>6. UrlsAccounted(history[request].asked, history[request].silent,
                      Page(globalGraph, globalCgiEnvList, cumulatedError, requestUri'))
    BY <2>1, <2>4, <2>5, ServedHistory, MergeAccountedEnd
  <2>7. UrlsAccounted(history'[request].asked, history'[request].silent, output'[request])
    BY <2>1, <2>3, <2>6, NoPageAccounted, NotPages
  <2> QED
    BY <1>5, <1>6, <2>1, <2>2, <2>7
<1>11. CASE AddTriples
  <2>1. UNCHANGED <<request, serving, script, output, urls, cumulatedError>>
    BY <1>11 DEF AddTriples, mergeVars
  <2>2. /\ \A n \in Requests : n # request => history'[n] = history[n]
        /\ history'[request].asked = history[request].asked
        /\ history'[request].displayed = history[request].displayed
        /\ history'[request].silent = history[request].silent
        /\ request \in Requests
    BY <1>11, AddTriplesHistory, ServedIsRequest DEF AddTriples
  <2>3. EveryUrlAccounted'
    BY <1>1, <1>5, <2>1, <2>2
  <2> QED
    BY <2>1, <2>2, <2>3 DEF AccountInv
<1>12. CASE OutCgiRdf
  <2>1. request \in Requests /\ script \in Scripts /\ serving \in {"script", "merge"}
    BY <1>12, ServedIsRequest DEF OutCgiRdf
  <2>2. /\ \A n \in Requests : n # request => history'[n] = history[n] /\ output'[n] = output[n]
        /\ history'[request].displayed = Append(history[request].displayed, script)
        /\ history'[request].asked = history[request].asked
        /\ history'[request].silent = history[request].silent
    BY <1>12, OutCgiRdfHistory
  <2>3. \/ output'[request] = output[request]
        \/ ~globalMergeMode /\ output'[request]
             = Page(m_graph, <<script>>, <<>>, RequestUri(<<request, script>>))
    BY <1>12, <2>1 DEF OutCgiRdf, TypeOK
  <2>4. CASE serving = "script"
    <3>1. End
      BY <1>12, <2>4 DEF OutCgiRdf, Returns
    <3>2. history'[request].asked = <<script>> /\ history'[request].silent = <<>>
      BY <2>2, <2>4 DEF AccountInv
    <3>3. UrlsAccounted(history'[request].asked, history'[request].silent, output'[request])
      BY <1>1, <2>1, <2>2, <2>3, <3>2, OneScriptAccounted
    <3> QED
      BY <1>5, <1>6, <2>2, <3>1, <3>3
  <2>5. CASE serving = "merge"
    <3>1. /\ UNCHANGED <<request, serving, urls, cumulatedError>> /\ script' = None
          /\ output'[request] = output[request]
      BY <1>12, <2>3, <2>5 DEF OutCgiRdf, Returns, mergeVars, MergeInv
    <3>2. MergeAccounted(history[request].asked, urls,
                         Append(history[request].displayed, script), cumulatedError,
                         history[request].silent, None)
      BY <2>1, <2>5, ServedHistory, MergeAccountedReturns DEF AccountInv
    <3>3. EveryUrlAccounted'
      BY <1>1, <1>5, <2>1, <2>2, <3>1
    <3> QED
      BY <2>2, <2>5, <3>1, <3>2, <3>3 DEF AccountInv
  <2> QED
    BY <2>1, <2>4, <2>5
<1>13. CASE ErrorMessageHtml
  <2>1. script # None /\ serving # "nothing"
    BY <1>13, ServedIsRequest DEF ErrorMessageHtml
  <2>2. output'[request].kind # "page"
    BY <1>13, <2>1, ErrorMessageHistory, NotPages DEF MergeInv
  <2>3. CASE globalErrorMessageEnabled
    <3>1. End
      BY <1>13, <2>3 DEF ErrorMessageHtml
    <3> QED
      BY <1>5, <1>6, <1>13, <2>2, <3>1, ErrorMessageHistory, NoPageAccounted
  <2>4. CASE ~globalErrorMessageEnabled
    BY <1>7, <1>13, <2>1, <2>2, <2>4, ErrorMessageHistory DEF ErrorMessageHtml
  <2> QED
    BY <2>3, <2>4
<1>14. CASE Fails
  <2>1. output'[request].kind # "page" /\ script # None
    BY <1>14, ServedIsRequest DEF Fails, MergeInv
  <2> QED
    BY <1>7, <1>14, <2>1 DEF Fails
<1>15. CASE EditionMode
  <2>1. request \in Requests /\ End /\ history' = history
    BY <1>15, ServedIsRequest DEF EditionMode
  <2>2. /\ \A n \in Requests : n # request => output'[n] = output[n]
        /\ output'[request] \in {Form, File}
    BY <1>15, <2>1 DEF EditionMode, Answer, TypeOK
  <2> QED
    BY <1>5, <1>6, <2>1, <2>2, NoPageAccounted, NotPages
<1>16. CASE ReturnsSilently
  <2>1. request \in Requests /\ script \in Scripts /\ serving \in {"script", "merge"}
    BY <1>16, ServedIsRequest DEF ReturnsSilently, MergeAssumption
  <2>2. /\ \A n \in Requests : n # request => history'[n] = history[n] /\ output'[n] = output[n]
        /\ history'[request].silent = Append(history[request].silent, script)
        /\ history'[request].displayed = history[request].displayed
        /\ history'[request].asked = history[request].asked
    BY <1>16, ReturnsSilentlyHistory
  <2>3. output'[request].kind # "page"
    BY <1>16, <2>1, ReturnsSilentlyHistory, NotPages DEF MergeInv
  <2>4. EveryUrlAccounted'
    BY <1>5, <2>2, <2>3, NoPageAccounted
  <2>5. CASE serving = "script"
    BY <1>6, <1>16, <2>4, <2>5 DEF ReturnsSilently, Returns
  <2>6. CASE serving = "merge"
    <3>1. UNCHANGED <<request, serving, urls, cumulatedError>> /\ script' = None
      BY <1>16, <2>6 DEF ReturnsSilently, Returns, mergeVars
    <3>2. MergeAccounted(history[request].asked, urls, history[request].displayed,
                         cumulatedError, Append(history[request].silent, script), None)
      BY <2>1, <2>6, ServedHistory, MergeAccountedReturns DEF AccountInv
    <3> QED
      BY <2>2, <2>4, <2>6, <3>1, <3>2 DEF AccountInv
  <2> QED
    BY <2>1, <2>5, <2>6
<1>17. CASE UNCHANGED vars
  BY <1>17 DEF vars, globalVars, mergeVars, AccountInv, EveryUrlAccounted
<1> QED
  BY <1>3, <1>4, <1>8, <1>9, <1>10, <1>11, <1>12, <1>13, <1>14, <1>15, <1>16, <1>17
  DEF Next, Merge, Main

(* merge_scripts.py loses no URL: for any list of them, in any order and   *)
(* with any repetition, each occurrence is displayed by the page, is in    *)
(* its error or returned silently, with the exceptions that                *)
(* EveryUrlAccounted names.                                                *)
THEOREM UrlsAreAccounted == Spec => []EveryUrlAccounted
<1>1. Init => TypeOK /\ MergeInv /\ PageIsOfItsRequest /\ AccountInv /\ EveryUrlAccounted
  BY TypeInit, PagesInit, AccountInit
<1>2. TypeOK /\ MergeInv /\ PageIsOfItsRequest /\ AccountInv /\ EveryUrlAccounted /\ [Next]_vars
        => (TypeOK /\ MergeInv /\ PageIsOfItsRequest /\ AccountInv /\ EveryUrlAccounted)'
  BY TypeNext, PagesNext, AccountNext
<1> QED
  BY <1>1, <1>2, PTL DEF Spec
=============================================================================
