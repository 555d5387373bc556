---------------------------- MODULE MergeScripts ----------------------------
(***************************************************************************)
(* The requests that survol serves, and the global variables of            *)
(* lib_common.py that the scripts share.  A request runs the Main of one   *)
(* script, or merge_scripts.py, which runs the Main of several ones in     *)
(* its own process and displays their triples together.                    *)
(*                                                                         *)
(* As CGI scripts each request has a process.  The server of wsgiserver.py *)
(* serves all of them, one after the other, in one process: what a request *)
(* leaves in the global variables is there for the next one.               *)
(***************************************************************************)
EXTENDS Naturals, Sequences, SequencesExt, FiniteSets

CONSTANTS
  Scripts,
  NotFound,     \* scripts whose import raises
  NotPython,    \* URLs that do not name a Python script
  Remote,       \* scripts asked about an object of another machine
  Silent,       \* scripts whose Main may return without a page
  None,
  MaxUrls,      \* bound on the URLs of a merge
  MaxMerges,    \* bound on the merges
  MaxRequests   \* bound on the requests

ASSUME MergeAssumption ==
  /\ NotFound \subseteq Scripts /\ NotPython \subseteq Scripts /\ Remote \subseteq Scripts
  /\ Silent \subseteq Scripts
  /\ None \notin Scripts
  /\ MaxUrls \in Nat /\ MaxMerges \in Nat /\ MaxRequests \in Nat

VARIABLES
  server,                     \* "cgi" or "wsgi"
  globalMergeMode,
  globalCgiEnvList,           \* the scripts that called OutCgiRdf in merge mode
  globalGraph,                \* triples: the request and the script that added them
  globalErrorMessageEnabled,
  requestUri,                 \* REQUEST_URI, or None when it is not set
  request,                    \* the number of the last request
  serving,                    \* what it is: "nothing", "script" or "merge"
  script,                     \* the script whose Main runs, or None
  m_graph,                    \* its graph, when it has its own
  urls,                       \* the URLs of the merge that are not run yet
  query,                      \* the script whose arguments are in QUERY_STRING
  origReqUri,                 \* what merge_scripts.py took for its own URI
  cumulatedError,             \* the scripts that the error of the merge names
  output,                     \* what each request was answered
  history                     \* what each request was, and what its scripts did

globalVars == <<globalMergeMode, globalCgiEnvList, globalGraph, globalErrorMessageEnabled,
                requestUri>>
mergeVars == <<urls, query, origReqUri, cumulatedError>>
vars == <<server, globalVars, request, serving, script, m_graph, mergeVars, output, history>>

Requests == 1..MaxRequests
Triples == Requests \X Scripts
Uris == Requests \X (Scripts \cup {None})    \* of a request or of a script it runs

Nothing == [kind |-> "nothing", graph |-> {}, scripts |-> <<>>, errors |-> <<>>, uri |-> None]
Message == [Nothing EXCEPT !.kind = "message"]
Form == [Nothing EXCEPT !.kind = "form"]
File == [Nothing EXCEPT !.kind = "file"]
Page(graph, scripts, errors, uri) ==
  [kind |-> "page", graph |-> graph, scripts |-> scripts, errors |-> errors, uri |-> uri]
Outputs ==
  [kind : {"nothing", "message", "form", "file", "page"}, graph : SUBSET Triples,
   scripts : Seq(Scripts), errors : Seq(Scripts), uri : Uris \cup {None}]

(* added: the scripts that added triples; displayed: those that called     *)
(* OutCgiRdf; silent: those whose Main returned without it; told: whether  *)
(* ErrorMessageHtml wants a message.                                       *)
Request(kind, asked) ==
  [kind |-> kind, asked |-> asked, added |-> {}, displayed |-> <<>>, silent |-> <<>>,
   told |-> FALSE]
Histories ==
  [kind : {"none", "script", "merge"}, asked : Seq(Scripts), added : SUBSET Scripts,
   displayed : Seq(Scripts), silent : Seq(Scripts), told : BOOLEAN]

TypeOK ==
  /\ server \in {"cgi", "wsgi"}
  /\ globalMergeMode \in BOOLEAN /\ globalErrorMessageEnabled \in BOOLEAN
  /\ globalCgiEnvList \in Seq(Scripts)
  /\ globalGraph \subseteq Triples /\ m_graph \subseteq Triples
  /\ requestUri \in Uris \cup {None} /\ origReqUri \in Uris \cup {None}
  /\ request \in 0..MaxRequests
  /\ serving \in {"nothing", "script", "merge"}
  /\ script \in Scripts \cup {None} /\ query \in Scripts \cup {None}
  /\ urls \in Seq(Scripts) /\ cumulatedError \in Seq(Scripts)
  /\ output \in [Requests -> Outputs]
  /\ history \in [Requests -> Histories]
  /\ script # None => serving # "nothing"
  /\ serving # "nothing" => request > 0 /\ history[request].kind = serving

Init ==
  /\ server \in {"cgi", "wsgi"}
  /\ globalMergeMode = FALSE /\ globalErrorMessageEnabled = TRUE
  /\ globalCgiEnvList = <<>> /\ globalGraph = {} /\ requestUri = None
  /\ request = 0 /\ serving = "nothing"
  /\ script = None /\ m_graph = {}
  /\ urls = <<>> /\ query = None /\ origReqUri = None /\ cumulatedError = <<>>
  /\ output = [n \in Requests |-> Nothing]
  /\ history = [n \in Requests |-> Request("none", <<>>)]

-----------------------------------------------------------------------------
(* A request.  A CGI script begins with the global variables as the        *)
(* modules initialise them.                                                *)
Begin(kind, asked) ==
  /\ serving = "nothing" /\ request < MaxRequests
  /\ request' = request + 1
  /\ serving' = kind
  /\ history' = [history EXCEPT ![request + 1] = Request(kind, asked)]
  /\ UNCHANGED <<server, m_graph, output>>

BeginScript(s) ==
  /\ s \notin NotFound \cup NotPython
  /\ Begin("script", <<s>>)
  /\ script' = s /\ query' = s
  /\ UNCHANGED <<urls, origReqUri, cumulatedError>>
  /\ IF server = "wsgi" THEN UNCHANGED globalVars
     ELSE /\ globalMergeMode' = FALSE /\ globalErrorMessageEnabled' = TRUE
          /\ globalCgiEnvList' = <<>> /\ globalGraph' = {} /\ requestUri' = None

(* REQUEST_URI, or else the name of the script and its arguments.          *)
RequestUri(own) == IF requestUri = None THEN own ELSE requestUri

CgiEnvMergeModeSameGraph ==
  globalMergeMode' = TRUE /\ globalCgiEnvList' = <<>> /\ globalGraph' = globalGraph

CgiEnvMergeMode ==
  globalMergeMode' = TRUE /\ globalCgiEnvList' = <<>> /\ globalGraph' = {}

BeginMerge(list) ==
  /\ Cardinality({n \in Requests : history[n].kind = "merge"}) < MaxMerges
  /\ Begin("merge", list)
  /\ IF server = "wsgi"
     THEN /\ origReqUri' = RequestUri(<<request + 1, None>>)
          /\ UNCHANGED <<requestUri, globalErrorMessageEnabled>>
     ELSE /\ origReqUri' = <<request + 1, None>>
          /\ requestUri' = None /\ globalErrorMessageEnabled' = TRUE
  /\ CgiEnvMergeMode
  /\ urls' = list /\ cumulatedError' = <<>>
  /\ query' = None /\ script' = None

(* The end of a request and of its local variables, whether its Main       *)
(* returns or raises.                                                      *)
EndKeepsScript ==
  /\ serving' = "nothing" /\ UNCHANGED <<script, server, request>>
  /\ m_graph' = {} /\ urls' = <<>> /\ query' = None /\ origReqUri' = None
  /\ cumulatedError' = <<>>

End ==
  /\ serving' = "nothing" /\ script' = None /\ UNCHANGED <<server, request>>
  /\ m_graph' = {} /\ urls' = <<>> /\ query' = None /\ origReqUri' = None
  /\ cumulatedError' = <<>>

(* What follows the content of a file is taken for a part of it by a CGI   *)
(* client; wsgiref refuses the second header, and the request ends there.  *)
Answer(answer) ==
  output' = [output EXCEPT ![request] = IF output[request] = File THEN File ELSE answer]

-----------------------------------------------------------------------------
(* merge_scripts.py between two scripts.                                   *)
Merging == serving = "merge" /\ script = None

(* The error of a URL that is not Python takes the place of the earlier    *)
(* ones.                                                                   *)
SkipUrl ==
  /\ Merging /\ urls # <<>> /\ Head(urls) \in NotFound \cup NotPython
  /\ urls' = Tail(urls)
  /\ cumulatedError' = IF Head(urls) \in NotPython THEN <<Head(urls)>> ELSE cumulatedError
  /\ UNCHANGED <<server, globalVars, request, serving, query, origReqUri, script, m_graph,
                 output, history>>

RunUrl ==
  /\ Merging /\ urls # <<>> /\ Head(urls) \notin NotFound \cup NotPython
  /\ script' = Head(urls) /\ query' = Head(urls)
  /\ requestUri' = <<request, Head(urls)>>
  /\ urls' = Tail(urls)
  /\ globalErrorMessageEnabled' = FALSE
  /\ UNCHANGED <<server, globalMergeMode, globalCgiEnvList, globalGraph, request, serving,
                 origReqUri, cumulatedError, m_graph, output, history>>

RestoreUriForgotten == UNCHANGED requestUri

RestoreUri == requestUri' = origReqUri

(* MergeOutCgiRdf makes a CgiEnv too, with the arguments of the last       *)
(* script, and refuses those of another machine.                           *)
MergeOutCgiRdf ==
  /\ Merging /\ urls = <<>>
  /\ RestoreUri
  /\ Answer(IF query \notin Remote
            THEN Page(globalGraph, globalCgiEnvList, cumulatedError, requestUri')
            ELSE IF globalErrorMessageEnabled THEN Message ELSE Nothing)
  /\ End
  /\ UNCHANGED <<globalMergeMode, globalCgiEnvList, globalGraph, globalErrorMessageEnabled,
                 history>>

-----------------------------------------------------------------------------
(* The Main of a script: it adds triples to the graph that GetGraph gives  *)
(* it.                                                                     *)
GetGraph(triple) ==
  IF globalMergeMode
  THEN globalGraph' = globalGraph \cup {triple} /\ UNCHANGED m_graph
  ELSE m_graph' = m_graph \cup {triple} /\ UNCHANGED globalGraph

AddTriples ==
  /\ script # None
  /\ GetGraph(<<request, script>>)
  /\ history' = [history EXCEPT ![request].added = @ \cup {script}]
  /\ UNCHANGED <<server, globalMergeMode, globalCgiEnvList, globalErrorMessageEnabled,
                 requestUri, request, serving, mergeVars, script, output>>

(* After a Main that returns the merge enables the messages again; after   *)
(* one that raises it does not.                                            *)
Returns ==
  IF serving = "script" THEN End /\ UNCHANGED globalErrorMessageEnabled
  ELSE /\ script' = None /\ globalErrorMessageEnabled' = TRUE
       /\ UNCHANGED <<server, request, serving, mergeVars, m_graph>>

RaisesLastOnly ==
  IF serving = "script" THEN End
  ELSE /\ script' = None /\ cumulatedError' = <<script>>
       /\ UNCHANGED <<server, request, serving, urls, query, origReqUri, m_graph>>

Raises ==
  IF serving = "script" THEN End
  ELSE /\ script' = None /\ cumulatedError' = Append(cumulatedError, script)
       /\ UNCHANGED <<server, request, serving, urls, query, origReqUri, m_graph>>

OutCgiRdf ==
  /\ script # None
  /\ IF globalMergeMode
     THEN /\ globalCgiEnvList' = Append(globalCgiEnvList, script)
          /\ UNCHANGED output
     ELSE /\ output' = [output EXCEPT ![request] =
               Page(m_graph, <<script>>, <<>>, RequestUri(<<request, script>>))]
          /\ UNCHANGED globalCgiEnvList
  /\ history' = [history EXCEPT ![request].displayed = Append(@, script)]
  /\ Returns
  /\ UNCHANGED <<globalMergeMode, globalGraph, requestUri>>

(* A Main that returns without OutCgiRdf, which merge_scripts.py accepts:  *)
(* entity_mime.py sends the content of a file, unless wsgiref refuses a    *)
(* second header; what print_environment_variables.py prints is not in the *)
(* answer of the WSGI server.                                              *)
ReturnsSilently ==
  /\ script \in Silent
  /\ \/ /\ output[request] = File => server = "cgi"
        /\ Answer(File)
     \/ server = "wsgi" /\ UNCHANGED output
  /\ history' = [history EXCEPT ![request].silent = Append(@, script)]
  /\ Returns
  /\ UNCHANGED <<globalMergeMode, globalCgiEnvList, globalGraph, requestUri>>

(* A message, then sys.exit; or an exception while a merge disables the    *)
(* messages.                                                               *)
ErrorMessageHtml ==
  /\ script # None
  /\ IF globalErrorMessageEnabled
     THEN output' = [output EXCEPT ![request] = Message] /\ End
     ELSE UNCHANGED output /\ Raises
  /\ history' = [history EXCEPT ![request].told = (serving = "script")]
  /\ UNCHANGED globalVars

(* Any other exception.                                                    *)
Fails == script # None /\ Raises /\ UNCHANGED <<globalVars, output, history>>

(* The form that edits the parameters of a script, then sys.exit, which    *)
(* nothing in merge_scripts.py catches.                                    *)
EditionMode ==
  /\ script # None
  /\ Answer(Form)
  /\ End
  /\ UNCHANGED <<globalVars, history>>

Main == AddTriples \/ OutCgiRdf \/ ReturnsSilently \/ ErrorMessageHtml \/ Fails \/ EditionMode

Merge == SkipUrl \/ RunUrl \/ MergeOutCgiRdf

Next ==
  \/ \E s \in Scripts : BeginScript(s)
  \/ \E list \in SeqOf(Scripts, MaxUrls) : BeginMerge(list)
  \/ Merge
  \/ Main

Spec == Init /\ [][Next]_vars

-----------------------------------------------------------------------------
(* A page displays the triples that the scripts of its own request added,  *)
(* those that failed afterwards included, and names the scripts that       *)
(* called OutCgiRdf.  The server of wsgiserver.py stays in merge mode      *)
(* after a merge, so that later requests write to the graph and to the     *)
(* list of that merge: the next merge must not display them.               *)
PageIsOfItsRequest ==
  \A n \in Requests : output[n].kind = "page" =>
    /\ output[n].graph = {n} \X history[n].added
    /\ output[n].scripts = history[n].displayed

Occurrences(s, seq) == Cardinality({i \in DOMAIN seq : seq[i] = s})

(* Each URL of a merge that made a page is displayed by it or is in its    *)
(* cumulated error, as many times as it was asked.  merge_scripts.py       *)
(* forgets three kinds of them: those that cannot be imported, which it    *)
(* skips silently; those before a URL that is not Python, with which it    *)
(* starts the error again; and those whose Main returned without having    *)
(* called OutCgiRdf, which it does not check.                              *)
EveryUrlAccounted ==
  \A n \in Requests : output[n].kind = "page" =>
    LET asked == history[n].asked IN
    \A s \in Scripts \ (NotFound \ NotPython) :
      \/ Occurrences(s, asked) = Occurrences(s, output[n].scripts)
           + Occurrences(s, output[n].errors) + Occurrences(s, history[n].silent)
      \/ \E i, j \in DOMAIN asked : i < j /\ asked[i] = s /\ asked[j] \in NotPython

(* The process of a request has not merged anything before it.             *)
Fresh(n) == server = "cgi" \/ \A m \in 1..(n - 1) : history[m].kind # "merge"

(* In a process that has not merged anything yet, a script that calls      *)
(* OutCgiRdf is answered with its page, one that calls ErrorMessageHtml    *)
(* with its message, and a page, that of the merge included, links to the  *)
(* URI of its own request.  After a merge the server of wsgiserver.py      *)
(* keeps globalMergeMode, REQUEST_URI and, when the last script raised,    *)
(* the messages disabled.                                                  *)
FreshRequestAnswered ==
  \A n \in Requests :
    LET merge == history[n].kind = "merge" IN
    Fresh(n) =>
      /\ history[n].displayed # <<>> /\ ~merge => output[n].kind = "page"
      /\ history[n].told => output[n].kind = "message"
      /\ output[n].kind = "page" =>
            output[n].uri = <<n, IF merge THEN None ELSE history[n].asked[1]>>
=============================================================================
