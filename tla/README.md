# Survol in TLA+

Survol explores a running machine: agents (CGI scripts or a WSGI server) answer
HTTP requests with RDF graphs about processes, files, sockets, databases, and
`dockit` analyses the log of `strace` or `ltrace` to rebuild what a command
did: which processes it created, which files they opened, which calls they
repeat. This directory holds TLA+ models of its core, the TLC runs that check
them, and proofs for the theorem prover TLAPS.

## 1. Inventory

The program is `src/survol`. (`Experimental/`, `primhill/`, `Icons.16x16/` hold
prototypes, an old C++ library and pictures.)

### dockit (`scripts/dockit.py`)

| Part | State | Operations | What is hard |
|---|---|---|---|
| Reading loop, `CreateFlowsFromGenericLinuxLog` 4239 | line number, `batchCore` | read one line, continue a truncated one | the variable `batchCore` outlives the line; text glued to a line; lines without a pid |
| `BatchLetCore` 2343, `BatchLetFactory` 3822 | one core per call: pid, function, status, other half | parse, choose a class | a class takes the whole call, the first half or the second |
| `UnfinishedBatches` 3711 | one stack per process and function | `PushBatch`, `MergePopBatch`, `PrintUnfinished` | calls of several processes are interleaved; processes die with calls pending |
| `FileAccess` 392, `STraceStreamToPathname` 2299 | `FileAccess` objects, a list per file, a cache per process and file, a global table of descriptors | `SetOpenTime`, `SetRead`, `SetWritten`, `SetCloseTime` | descriptors are duplicated, inherited, closed and reused; only part of it is seen |
| `CIM_Process` 894 | parent, sub-processes, termination date, executable | `clone`, `vfork`, `execve`, `wait4`, `exit` | the sub-process may be seen before the call that creates it returns |
| `BatchFlow` 3976 | sequence of batches per process | coalesce, filter, factorise repeated pairs, group by arguments | the sequence is edited while it is walked |
| `HttpTriplesClient` 563 | list of triples, validity flag, thread | enqueue, swap and send every 2 s | a thread and the analysis share the list; the server may fail |
| Reports | none | text, XML, JSON summaries, Dockerfile | formatting only |

These parts are called in one thread, but they consume the log of several
processes: what is concurrent is the traced command. The log is the only input.
A handler (`BatchLetSys_xxx`) is called when a call is complete and creates or
changes CIM objects; the flow of each process keeps the batches.

### Agents

| Part | State | Operations | What is hard |
|---|---|---|---|
| Event store `lib_event.py` | one file of JSON lines per entity | `event_put.py` (`data_store_list`, `data_store`, `AddEventToObject`), `event_get_all.py` (`data_retrieve_all`, `get_data_from_file`) | writers append while a reader reads, then truncates; both try again after a failure |
| Sub-servers `lib_webserv.py` | `portDict`, a queue of graphs per server, its thread | start, feed, read, stop | check-then-act on the port, a stop during a read |
| `lib_common.py`, `merge_scripts.py` | module globals: merge mode, cumulated graph, error mode; the environment variable `REQUEST_URI` | run several scripts in one process | a script that fails in the middle of the merge |
| `scripts/wsgiserver.py` | the same globals, shared by all requests | one request | state left by the request before |
| `lib_credentials.py` | a cached JSON document | get, add, update | read-modify-write of one file by several processes |

The agents call each other over HTTP and share files; dockit sends its triples
to the event store through `event_put.py`, and `event_get_all.py` shows them as
a page and empties the store.

### What makes each part correct

* Matching: two lines are put together only if they are the two halves of one
  call; every call is processed once; the analysis does not stop.
* Accesses: an access that is closed does not change; reads and writes go to the
  access that the descriptor is open for.
* Processes: the parents form a tree, each process is below one parent.
* Flows: rewriting ends, loses no call, keeps the order.
* Sender and event store: every triple arrives unless a request fails; none is
  overtaken, sent twice, or shown twice; a reader ends.
* Sub-servers: one server per port, a stopped server is really gone.
* Merging and WSGI: what one script leaves does not change the next one; each
  script asked for is displayed or is in the error.
* Credentials: an update does not undo another one.

## 2. Plan

| Order | Modules | Composes | Abstract specification | Runs | Theorems |
|---|---|---|---|---|---|
| 1 (done) | `LogLine`, `Tracer`, `CallMatching`, `DockitTrace` | tracer with reading loop | the tracer's own log, which knows which line ends which call | `Matching`, `Trace`, `TraceExitLine`, `UnparsableLine` | types, halves agree, links final, stacks exact, no exception, yielded once; of a tracer's log: merges are right, resumed calls are merged |
| 2 (done) | `FileAccess`, `FileSessions`, `DockitFiles` | the system's descriptor tables with dockit's cache | `FileSessions`: one record per opening | `Files`, `FilesSessions`, `FilesSharedMap` | cache exact, no overlap, a closed access is final, also for traced processes; live means open, the accesses implement `FileSessions`, every transfer is counted |
| 3 (done) | `ProcessTree` | the traced processes with the `CIM_Process` objects | the real creators, kept beside the objects | `Processes`, `CreationDates` | types, no cycle, parents are creators, printed once, dates agree |
| 4 (done) | `BatchFlow` | - | the calls sent, numbered | `Flow` | types, nothing lost, counts exact, no inconsistency, only first halves removed, halves filtered, runs grouped, pairs rare, each iteration leaves less, the iterations descend in a well-founded order |
| 5 (done) | `TriplesClient`, `EventStore`, `EventPipeline` | the sender with the store, its writer and its readers | the triples numbered in the order of the analysis | `Events` | types, order of the client, kept unless missed, shown once, stored when quiet, readers move on |
| 6 (done) | `MergeScripts` | - | what each request asked and did, kept beside the globals | `Merge` | types, pages are their own, a fresh process answers, every URL accounted |

The modules to be proved about use no recursive operator, and take the data of
the program (pids, functions, files) as constants.

## 3. Modules and the code they model

`PROJECT.json` gives, for each definition, the lines it stands for. The
definitions it names as "as" under "mutants" are not part of a model: each is a
mistake that could be made in the definition below it (`TakeListUnlocked` in
`TakeList`, for instance), used to check that a property notices it.

### Reading the log: `LogLine`, `Tracer`, `CallMatching`, `DockitTrace`

| Model | dockit.py |
|---|---|
| `cores`, a position in it | the `BatchLetCore` objects, in the order of their creation |
| `status`, `half` of a core | `m_status`; `m_resumedBatch` or `m_unfinishedBatch` |
| `batchCore` | the variable of the loop, which outlives an iteration |
| `oneLine`, `numLine` | the first of the lines glued so far, or none; the lines read |
| `IsLogEnding` | whether a line looks like the end of one; if not, the next line is glued to it |
| `m_mapStacks` | the attribute of `UnfinishedBatches` |
| `yielded` | the batches given to the flows |
| `raised`, `ended` | an exception that is not caught ended the analysis; the log is read |
| `ReadLine`, `EndOfLog` | a line is read, and what was glued is parsed if the line ends it; the end of the log, where the last lines are parsed as they are |
| `ReadCall`, `ReadEvent`, `ReadUnparsable` | the rest of an iteration of `CreateFlowsFromGenericLinuxLog`: a core is made, none is made, or making it raises |
| `UnknownFunction` ... `WholeCall` | the branches of `BatchLetFactory` |
| `PushBatch`, `MergePopBatch`, `MergeRaises`, `ResumedAlone` | the methods of `UnfinishedBatches` and what the factory does with their result |

A line is a record with a kind, a pid, the pid that is printed, a function, and
whether it is closed, that is, ends as the line of a tracer should. Of lines glued
together the code looks at the beginning of the first one (pid, function,
"resumed") and at the end of the last one ("unfinished"): so does `ParseLine`. A
line "+++ exited" is never closed. It begins the glued text, from which
`CreateBatchCore` makes no core: the line behind it is lost, which is what
`ReadEvent` does.
`G_batchModels` says what the class registered for a function needs: the whole
call, its first half only, or its second half only. `kept` says whether the
handler keeps the call. `CallMatching` alone reads lines that follow no rule.
`DockitTrace` composes it with `Tracer`, a model of strace and ltrace that is
external to the repository and is taken from the logs quoted in the comments of
`dockit.py`: a call has two lines if another event is printed before it
returns, ltrace nests system calls in library calls, the pid is printed when
several processes are traced, an exit leaves calls pending. ltrace writes a line
for each exit; strace, which dockit runs with `-q -qq`, at most for a process
that is killed. `Damages` says what else may disturb a log: texts that no tracer
wrote, and calls whose line has no end ("exit_group(0) = ?"). The variable `log`
and the line numbers kept in the cores are not in the code: they say which call
each half really belongs to.

What the reader can get right depends on the lines it is given. `Intact(p, f)`
says that those about function `f` of process `p` can be told from the others:
each is closed and shows its pid, unless it is of the top process, and no half of
a call comes right behind a line without end. It says nothing of the lines of
the other functions and processes, which may be damaged, glued and lost.
`MergedIsOneCall` and `ResumedFindsItsHalf` are about such pairs. Under strace the
lines of a process that survives the top process show no pid and are taken for
lines of the top process: no function of such a line is then intact, of either.

A fact shown by the model: for ltrace, `SetFunction` adds "@SYS" to the name of
any resumed call. The second half of a *library* call thus never has a class,
and its first half is awaited for ever; `ResumedFindsItsHalf` leaves it aside
("whose function has a class"). Another one: the wait of a process ends when its
child exits, so that the "<... wait4 resumed>" of the parent is often the very
line that the exit of the child swallows. Its first half is then awaited for
ever, and the child gets the termination date of the end of the log.
`TraceExitLine` shows the same of a first half that is swallowed.

### Files: `FileAccess`, `FileSessions`, `DockitFiles`

| Model | dockit.py |
|---|---|
| `accesses`, a position in it | the `FileAccess` objects, in the order of their creation |
| `G_cacheFileAccesses` | the global map, process then file |
| `G_mapFilDesToPathName` | the global table, one for all processes, that `ltrace` needs |
| `SetOpenTime`, `SetCloseTime`, `SetRead`, `SetWritten` | the methods of `FileAccess`, with the call to `LookupFileAccess` that finds the object |
| `Open`, `Close`, `Read`, `Write` | `BatchLetSys_open`, `_openat`, `_close`, `_read`, `_write`, `_writev`, with their tests of the result |

`FileAccess` accepts any call with any result. `DockitFiles` adds the descriptor
tables that the system keeps (external: `OpenFile` returns the lowest free
descriptor, `Dup` is `dup` or `dup2`, `Fork` inherits) and counts the successful
reads and writes of each process and file. `FileSessions` is the abstract
specification: a record for each opening, with what was done until the closing.
The mapping `Recorded` takes the accesses to a real path name, under their place
in `accesses`; those to a name made up for an unknown descriptor are left aside.
The timestamp is the number of the call: it does not wrap at midnight, as the
text of a time of day would. Buffers and the calls on sockets, pipes and
memory mappings are not modelled.

### Processes: `ProcessTree`

| Model | dockit.py |
|---|---|
| `G_mapCacheObjects`, `Objects` | the `CIM_Process` objects: parent, sub-processes, both dates |
| `G_topProcessId` | the pid known from the tracer or the ini file, or -1 |
| `held` | the line of an exit waits for the next line, which is glued to it and lost |
| `unfinished` | for each process, the calls to `clone` on its stack |
| `lastTimeStamp`, `analysis` | the variable of the loop; whether it reads, is over, or has raised |
| `ToObjectPath`, `SetParentProcess`, `AddParentProcess`, `WaitProcessEnd`, `GlobalTerminationDate` | the methods of those names |
| `LogCall` | a line is read and its handler has left the objects `objs`, unless an exit swallows the line |
| `OtherCall`, `Clone`, `CloneBegin`, `CloneEnd`, `CloneFails`, `Wait`, `WaitFails` | a line of the log and its handler: `ParseLine`, then `BatchLetSys_clone`, `_vfork`, `_wait4` |
| `Exit`, `Signal`, `EndOfLog` | lines without a handler; the end of the analysis |

`now`, `life`, `creator`, `pending`, `begun`, `told`, `stopped` and `calls` are the
traced processes as the system runs them: they choose which lines are possible
and are what the objects are compared with. `begun` holds the processes of which
the first line about their creation was read before their own lines, `told`
those whose pid was read as a result of `clone` or `vfork`, `stopped` those that
`wait4` reported while they still ran.

* *Exits.* The line behind the exit of any process is lost, whoever wrote it: the
  return of a `clone`, so that the process has no parent until `wait4` gives it
  one; a `wait4`; the first half of a `clone`, so that its return is not handled.
  `vfork` is handled without its first half. With ltrace each exit has a line;
  with strace an exit has none, or one if the process is killed.
* *The guess.* The second process ever seen gets the first one as its parent
  (dockit.py:997). It is wrong only if the line that creates that process was
  lost, or a line of its creator: the process is then not in `begun`, and
  `ParentIsCreator` speaks of it from the return of the creating call on.
* *Status.* `BatchLetSys_wait4` does not look at the status. A process that only
  stopped gets a termination date and goes on, though the comment at
  dockit.py:3396 takes it for a terminated one; `DatesAgree` excepts it until a
  later `wait4` reports its end.
* *Failures.* A `clone` that fails ends the analysis with strace ("-1 EAGAIN" is
  not a number) and makes the process `ErrorPid` with ltrace. A `wait4` that fails
  with another error than ECHILD makes the process -1 or `ErrorPid`, a child of
  the one that waited.
* *The process -1.* It also stands for the top process in a replay that does not
  know it. When a `wait4` fails there it may get a parent, even one of its own
  sub-processes: with a sub-process p2 that is traced alone and not known yet to
  be its child, -1 and p2 are each other's parent and `TopProcessFromProc` does
  not end. `NoCycle` leaves that out (`TopHasParent`), and the properties about
  real pids assume `TopIsKnown`.

A `clone` or `wait4` that fails is on one line here; a `wait4` whose first half is
lost is an `OtherCall`, as it is not handled. Only exits swallow lines: texts and
calls without end are in the modules above. Pids are not used again. `execve`,
the current directory and the environment of a process are not modelled.

### Flows: `BatchFlow`

| Model | dockit.py |
|---|---|
| `m_listBatchLets` | the attribute of `BatchFlow`; index 1 is index 0 of the code |
| `Sent` | `AddingCoroutine`, which counts a call that is equal to the last one |
| `Call`, `FirstHalf`, `SecondHalf` | what the loop of `CreateMapFlowFromStream` sends for one process |
| `Filter` | one iteration of `FilterMatchedBatches` |
| `Bigram`, `BeginBigrams`, `EndOfBigrams` | one iteration of `ClusterizeBigrams`; its beginning; the loop of `FactorizeOneFlow` around it |
| `Grows`, `Clusterize` | the two branches of an iteration of `ClusterizeBatchesByArguments` |

The numbers `core`, `mate`, `from` and `to` of a batch are identities: which
object it was made from, which one that points to, and which of the batches sent
it stands for. The calls of the process do not overlap (a system call of a
thread is finished before the next one); classes that make no batch (`getenv`)
and functions whose calls are never the same (`clone`, `vfork`, `execve`) are
constants. The pattern macros and the display are not modelled.

Facts shown by the model, which are not contradicted by any comment:

* a first half and a plain call with the same arguments are coalesced, as
  `SameCall` does not look at the status. A second half may be counted in its
  own first half, and such a call counts twice;
* `BatchLetSequence` does not keep how often each of its batches occurred;
* two sequences are the same for `SameCall` if their names and the union of
  their arguments are, whichever call had which argument;
* the third "INCONSISTENCY" test cannot fail while the calls of a process do
  not overlap, nor can the first; the second one is unreachable.

### Sending triples: `TriplesClient`, `EventStore`, `EventPipeline`

| Model | dockit.py, lib_event.py, event_put.py, event_get_all.py |
|---|---|
| `m_valid`, `m_listTriples`, `m_sharedLock` | the attributes of `HttpTriplesClient` |
| `AddDataToSend`, `LockToAdd`, `Add` | `AddDataToSend`: the test of `m_valid`, without the lock; the wait for the lock; the append and the unlock |
| `Wake`, `TakeList`, `Send`, `Response`, `RequestFails` | an iteration of `run`: the sleep ends and the lock is taken; the list is replaced; `urlopen`; its answer or its exception |
| `EncodingFails` | `json.dumps` raises while the thread holds the lock |
| `EndOfProgram` | the main thread is over, and the daemon thread with it |
| `content`, `created` | the files `*.events`, one for each entity, of JSON lines |
| `Receive`, `AddEventToObject`, `AddEventFails`, `DataStoreFails`, `MonikerRaises` | `event_put.py`: `data_store_list`, `data_store` for each triple, a try that succeeds or fails, a directory that cannot be made, an object for which no file can be named |
| `Walk`, `NextFile`, `ReadLines`, `OpenFails`, `Truncate`, `Answer` | `event_get_all.py`: `data_retrieve_all`, then `get_data_from_file` for each file, then the page |
| `Kill` | the Web server stops a script that takes too long (external) |

`EventPipeline` composes them: `Request` is `urlopen` in the thread and the
start of `event_put.py` in one step, and the answer comes when that script is
over. `sent`, `stored`, `givenUp` and `missed` are not in the code: they say
what became of each triple. Triples are numbers and a file is a sequence of
lines; `Broken` is a part of a line, which a failed write leaves without its end
of line, so that the next line cannot be decoded either. `NoFile`, among the files of
a triple, is an object of which `MonikerToEventFile` cannot name the file (the
empty dictionary that dockit.py:920 sends): its triple is `Unconvertible`, which
`TripleJsonToRdf` raises of, as `json.loads` raises of a broken line. The graph of
a reader is kept as pairs of a file and a triple, as a triple of two files is read
twice. Which triples an attribute makes is left out (`SendUpdateToServer`).

Facts shown by the model, which are not contradicted by any comment:

* a request that fails ends the thread. The triples it held, those of the list,
  and those that the analysis adds later are dropped, the last ones in silence;
* a list that cannot be encoded (with Python 2, a name of file that is not UTF-8)
  ends the thread with the lock held and `m_valid` still true: the next call of
  `AddDataToSend` waits for ever, and so does dockit. `AddedIsStored` excepts it
  as it does a failed request, and `AddedInOrder` holds there too;
* a triple whose object has no file leaves the line of its subject behind, and
  that line is one that no reader can convert;
* a triple that is written between the reading and the emptying of its file is
  lost. So is one that was read by a script which is then killed: the files are
  emptied one by one, and shown together at the end;
* one line that cannot be decoded or converted stays for ever: each reader tries
  the file `MaxTry` times, shows the lines before that one, and does not empty
  it. The next readers show the same lines again.

`ShownAgainOnlyIfUnreadable` speaks of the triples that write one line to the file
(`WrittenOnce`): one whose subject and object are the same is there twice.

### Requests and merges: `MergeScripts`

| Model | lib_common.py, lib_util.py, merge_scripts.py, wsgiserver.py |
|---|---|
| `globalMergeMode`, `globalCgiEnvList`, `globalGraph`, `globalErrorMessageEnabled` | the globals of lib_common.py |
| `requestUri`, `query` | `REQUEST_URI` and `QUERY_STRING` in the environment |
| `origReqUri`, `cumulatedError`, `urls` | the local variables of `Main` of merge_scripts.py |
| `BeginScript`, `BeginMerge` | a CGI script that starts, or `application` of wsgiserver.py; then `CgiEnvMergeMode` |
| `SkipUrl`, `RunUrl`, `MergeOutCgiRdf` | an iteration of the loop of merge_scripts.py; what follows the loop |
| `AddTriples`, `OutCgiRdf`, `ErrorMessageHtml`, `EditionMode`, `Fails` | what the `Main` of a script does: its calls of lib_common.py, any other exception |
| `ReturnsSilently` | a `Main` that returns without a page: entity_mime.py sends the content of a file, print_environment_variables.py prints |
| `End` | the end of the request: of a process for CGI, of a call of `application` for WSGI |

`server` is chosen once. For "cgi", a request begins with the globals as the
modules initialise them; for "wsgi", with those that the former request left. A
script is a value: whether it can be imported, whether its name is not that of a
Python file, whether it is asked about another machine, and whether its `Main` may
return without `OutCgiRdf` (`Silent`) are constants.
`output` is what each request was answered ("nothing" is a request that
`application` ends without `start_response`, so that the server answers an
error; "file" is the content of a file, after which a CGI client takes a page for
more of it, and the WSGI server raises at a second header), `history` what each request asked and what its scripts did; neither is
in the code.

Facts shown by the model. Each was seen as a counterexample of
`FreshRequestAnswered` without `Fresh(n)`, and none is contradicted by a comment:

* `globalMergeMode` is never reset. Under WSGI, a script that is asked for after
  a merge puts its triples in the graph of that merge and displays nothing;
* `REQUEST_URI`, which a merge sets, stays in the environment under WSGI: the
  next merge takes it for its own URI and its page links to the former request;
* when the last script of a merge raises, the messages stay disabled, for the
  page of the merge and, under WSGI, for the scripts asked for next.

And of the loop itself: the page makes a `CgiEnv` from the arguments of the last
script, and refuses the whole merge when that script is about another machine,
with a message or, if it raised, with an exception. The loop forgets three kinds of
URLs: those gathered in the error before one that is not a Python file, whose own
error replaces theirs; those that cannot be imported, which are not in the error
at all; and those whose `Main` returns without `OutCgiRdf`, which nothing checks
(merge_scripts.py:99, 108). `EveryUrlAccounted` states what remains: each other
URL is displayed or in the error, as often as it was asked for.

## 4. Runs

| Run | Specification and instance | Distinct states | What it shows |
|---|---|---|---|
| `Matching` | `CallMatching`: any 4 lines of 2 processes, ltrace, with texts, lines without end, exits and what is glued to them | 1 976 000 | Halves that are put together agree and are final; until a line cannot be parsed, the stacks hold exactly the awaited calls, the sanity check holds, no line is processed twice |
| `Trace` | `DockitTrace`: ltrace, 5 lines, 2 processes, nested calls, texts, exits that swallow the next line | 4 231 000 | Of a process and function whose own lines are intact, two halves that are merged are those of one call and a resumed call with a class finds its first half |
| `Files` | `DockitFiles`: strace -y, 2 processes, 2 files, 2 descriptors, 6 calls, with `dup`, `fork` and failures | 659 000 | The cache is exact, accesses do not overlap and are final, each transfer is counted once |
| `FilesSessions` | `DockitFiles`: ltrace, 1 process, 8 calls | 33 000 | The accesses implement `FileSessions`, although descriptors are reused |
| `Processes` | `ProcessTree`: strace and ltrace, 3 processes, 5 calls, top process known or not, exits that swallow the next line, failed calls, stops | 2 040 000 | No cycle, parents are creators, each process is printed once, dates agree |
| `Flow` | `BatchFlow`: 6 batches of 4 functions, a pair is frequent from 2 occurrences on | 458 000 | Nothing is lost or miscounted, no inconsistency, first halves are removed, pairs become rare, runs are grouped, each iteration leaves less to do, the rewriting ends |
| `Events` | `EventPipeline`: 2 triples, one of them in two files, 2 readers, 2 tries, 1 failure; the other triple names an object without a file | 331 000 | The client keeps the order; what was stored is kept or shown, unless it came before the emptying; nothing is shown twice unless the file has a line that cannot be decoded or converted; every triple is stored or given up, unless the program ends or the thread dies; readers end |
| `Merge` | `MergeScripts`: CGI and WSGI, 3 requests, at most 2 of them merges, of 0 to 2 URLs out of 4 scripts, one of which may return without a page | 9 985 000 | A page displays the triples of its own request, accounts for each URL, and a fresh process answers what its script did |

Four runs are violated, each by what the code does against what it says:

| Run | Violated | What happens |
|---|---|---|
| `UnparsableLine` | `CallsYieldedOnce` | When a line cannot be parsed, the exception is caught and `batchCore` still is the core of the line before, which is processed again (dockit.py:4325) |
| `TraceExitLine` | `NoHalfIsMissed` | "+++ exited" of a process is glued to the first half of a call of another one, and both are lost: the second half finds nothing to be merged with (dockit.py:4273) |
| `FilesSharedMap` | `EveryTransferCounted` | With ltrace the path names are in one table: a second process that opens another file under the same number takes the reads of the first one (dockit.py:2912) |
| `CreationDates` | `CreatedBeforeItsCalls` | A process seen before its creating call returns gets the later date of that return (dockit.py:1103) |

### Bounds

`MaxLines`, `MaxCalls`, `MaxBatches`, `MaxTriples`, `MaxUrls`, `MaxMerges` and
`MaxRequests` bound the length of the input, and `MaxFailures` that of the
faults, in the guards; every other quantity is bounded by them. `MaxTry` is the
number of tries of the code, 3, taken as 2.

* `Matching`, `Trace`: one interrupted call takes 2 lines, so 4 or 5 lines hold
  two calls interrupted in each other, of one process or two, a stack of two, a
  half without the other, or an interrupted call with a line in between that is
  glued, unparsable or an event. `Trace` needs 5 for an exit and a line to be
  swallowed as well. `read` has
  a class for the whole call, `__libc_start_main` one for the first half,
  `futex` is registered as ignored, glued lines have a name that is unknown:
  together they take all the branches. A class content with the second half is
  treated by the loop as one for the whole call.
* `Files`: the shortest way to close a file that has two descriptors, read it
  again and close it again takes 5 calls; two descriptors are enough to reuse
  one while the other stays open. `FilesSessions` has time for two openings of
  each of two files.
* `Processes`: three processes make a chain or two children of one process, with
  the creations in any order; five calls let a process be seen before its
  creating call returns, that return be lost behind the exit of a third one,
  and the child then be waited for. `CreationDates` needs two processes only.
* `Flow`: with `Frequent = 1` instead of 5, six batches hold three occurrences
  of a pair, a periodic sequence, and a pair of the sequences just made. A run
  of calls with the same arguments needs three to be grouped in part.
* `Events`: two triples fill a request of two or two requests; the first one has
  two files, and the second one shares the first of them and has an object that
  names none. Two readers read
  one file together, one of them while a line is added. Two tries tell a last
  try from another. One failure spoils a line, or a try of a reader; the line that
  cannot be converted makes a reader use up its tries without any failure. A
  writer does not use up its own within one failure: with two the run takes too
  long, and that triples are then given up is left to the theorems.
* `Merge`: three requests hold a script, a merge and a script, two merges one
  after the other, and a merge after a script; two URLs hold one that fails and
  one that does not, in both orders, and the same one twice. The four scripts
  are one of each kind, the one of another machine being the silent one too.

The processes (but the top one) and the files are interchangeable: `Files` and
`Processes` use symmetry. They check no liveness.

`CHECK_DEADLOCK` is FALSE in every run since all of them really stop: the log or
the number of calls or requests ends, the analysis raises, the flow is
rewritten, or the program has ended and so have the readers.

### Fairness

`Terminates` needs `WF_vars(FactorizeOneFlow)`. The loops of `FactorizeOneFlow`
run in one thread, after the log is read, and wait for nothing, so an iteration
that can be made is made. Nothing is assumed of the traced processes: the log
may end at any time.

`AddedIsStored` and `ReadersEnd` need that of `EventPipeline`:

* weak fairness of each step of the thread, of the rest of `AddDataToSend`, of
  the request, of a try that succeeds and of the steps of a reader: they are
  done by threads and processes that are scheduled;
* strong fairness of `LockToAdd`. The thread takes the lock every two seconds
  for the time of an assignment, so that the analysis, which waits for it, finds
  it free again and again but not always: a lock of Python is given to a thread
  that waits while it is free for two seconds.

Nothing is assumed of failures, of `EndOfProgram`, of `Kill`, or that a reader
is ever started. `MaxFailures` stands for a store that does not fail for ever.

## 5. Proofs

All theorems hold for any value of the constants that satisfies the assumptions
of the modules (`LogLineAssumption`, `TracerAssumption`, `CallMatchingAssumption`,
`DockitTraceAssumption`, `FileAccessAssumption`, `DockitFilesAssumption`,
`ProcessTreeAssumption`, `BatchFlowAssumption`, `TriplesClientAssumption`, `EventStoreAssumption`,
`EventPipelineAssumption`, `MergeAssumption`): a value meant as "none" is not one
of the real ones, the classes are a function of the names, a glued name has no
class, the lines that show no pid are about the process that the tracer started,
a triple has at least one file. The bounds may be any number, thus the theorems
are about inputs of any length.

Four theorems assume more, and say so in their statement:

* `ResumedAreMerged` assumes `SysModels`, how `BatchMeta` registers the classes:
  those of system calls with "@SYS", those of library functions without, and
  `__libc_start_main` alone is content with a first half. What it and
  `MergesAreRight` need of the log, `Intact`, is in their properties;
  `TraceExitLine` shows a half that is missed without it.
* `LiveIsOpen` and `SessionsAreImplemented` assume `FilesAreKnown`: no process has
  two descriptors to one file, and the tracer is strace, with any number of
  processes and calls that fail, or ltrace with one process whose calls succeed.
  `FilesSharedMap` shows two processes of ltrace that share path names; a file
  with two descriptors is one access for dockit, closed with the first of them.
* `TransfersAreCounted` assumes `TransfersAreKnown`: the tracer is strace, with any
  duplicated descriptors, sub-processes and failures, or `FilesAreKnown` holds.
  `FilesSharedMap` shows why ltrace needs the latter.

| Module | Theorem | Property | Inductive invariant |
|---|---|---|---|
| `CallMatchingProofs` | `TypeCorrect`, `HalvesAlwaysAgree` | `TypeOK`, `MatchedHalvesAgree` | `IInv`: types, the halves agree, and a stack only refers to cores of its process and function that are unfinished or matched |
| | `LinksFinal` | `LinksAreFinal` | the same `IInv`: the core on the top of a stack is unfinished or makes the check raise |
| | `ParsableNeverRaises`, `ParsableStacksExact` | `NeverRaises`, `StacksHoldAwaited` | `PInv`, on top of `IInv`: until a line cannot be parsed, nothing was raised and the stacks hold the awaited cores, in order |
| | `ParsableYielded` | `ParsableYieldedOnce` | `YieldInv`, on top of `IInv`: until a line cannot be parsed, the cores yielded are in order and were all made before |
| `DockitTraceProofs` | `TraceIsRead` | all those of `CallMatching` | `TracerInv`: the lines are well formed, the pending calls are unfinished lines of their process, and while a line waits for the next one the last line is not closed; so each step of `DockitTrace` is one of `CallMatching` or a stutter |
| | `MergesAreRight` | `MergedIsOneCall` | `AllInv`: `IInv`, `PInv` and `TracerInv`; the cores and the pending calls are in the order of the log (`OrderInv`, `PendingInOrder`); and `MatchInv`, for each intact function of a process: its cores follow their lines, those it awaits while it runs are pending, and each pending call has its core |
| | `ResumedAreMerged` | `ResumedFindsItsHalf` | `FoundInv`, on top of `AllInv`: no resumed core of an intact function with a class is alone |
| `FileAccessProofs` | `TypeCorrect`, `CacheExact`, `NoOverlap`, `ClosedIsFinal` | `TypeOK`, `LiveAccessesAreCached`, `AccessesDoNotOverlap`, `ClosedAccessIsFinal` | `IInv`: types, both invariants together, and the times that are set are in the past |
| `DockitFilesProofs` | `FilesRefineAccesses`, `TracedClosedIsFinal` | `ClosedAccessIsFinal` | the descriptors have their types; each call of a process is a step of `AccessSpec` |
| | `LiveIsOpen` | `LiveAccessIsOpenFile` | `SessionInv`: the files in the cache are those that are open, each has one descriptor, and the table of ltrace is right for the descriptors that are open |
| | `SessionsAreImplemented` | `AccessesAreSessions`, all of `FileSessions` | `SessionInv` with the `IInv` of `FileAccessProofs` and fewer accesses than calls; so each call is one step of a session or a stutter |
| | `TransfersAreCounted` | `EveryTransferCounted` | `CountInv`, on top of `IInv` and, for ltrace, `SessionInv`: the numbers of reads and writes of the accesses of a process to a file add up to what the system counted |
| `ProcessTreeProofs` | `TypeCorrect`, `ParentsHaveNoCycle`, `ParentsAreCreators`, `EachPrintedUnderItsParent` | `TypeOK`, `NoCycle`, `ParentIsCreator`, `PrintedUnderItsParent` | `IInv`: the objects have only parents they may have and links in both directions (`ObjectsOK`), the first line read is of the top process (`FirstIsRead`), the creators have no cycle (`CreatorsAcyclic`) and are known once their child is (`CreatorsKnown`) |
| | `DatesAreConsistent` | `DatesAgree` | `DatesInv`, on top of `IInv`: dates are in the past, the child of a call that has not returned was not waited for (`TimesOK`), who has a termination date and did not only stop was waited for and made no call after it (`DatesOK`) |
| `BatchFlowProofs` | `TypeCorrect`, `NoCallIsLost`, `SanityChecksHold`, `OccurrencesAreExact`, `FirstHalvesOnly` | `TypeOK`, `NothingLost`, `NeverInconsistent`, `CountsAreExact`, `OnlyFirstHalfRemoved` | `IInv`: the batches are contiguous and counted exactly, ahead of the index of the filter no batch has absorbed a half, and a second half follows a batch of its function |
| | `HalvesAreFiltered` | `HalvesFiltered` | `HalfInv`: the other half of a first half has the number after its own, a batch that it points to points back to it, and behind the index of the filter no two such batches are neighbours |
| | `RunsGrouped`, `PairsRare` | `RunsAreGrouped`, `PairsAreRare` | `GroupInv`: before the run being gathered no two neighbours have the same arguments, and the walk cannot end before that run; `RareInv`: as long as a pass has replaced nothing, its statistics are those of the list and no pair behind the walk is in them. Both on top of `IInv` |
| | `IterationsLeaveLess` | `LessRemains` | `Sizes`, on top of `IInv`: the sizes and the indices are natural numbers, and the walk is at most two past the end of the list |
| | `IterationsDescend` | - | the same: what remains is always three natural numbers, each iteration goes to smaller ones, and that order is well founded |
| `EventPipelineProofs` | `TypeCorrect`, `ClientKeepsOrder`, `EventsKept`, `EventsShownOnce` | `TypeOK`, `AddedInOrder`, `KeptUnlessMissed`, `ShownAgainOnlyIfUnreadable` | `IInv`: types, the lists of the client are consecutive, the thread has the lock or a batch as its state says, the writer is at a triple that was sent, what is in a file or a graph was stored, a reader about to empty a file has what it holds |
| | `QuietStored` | - | `SettledInv`, on top of `IInv`: the triples that `event_put.py` has finished with are stored or given up in each of their files, the one at hand in each file it has passed, and it runs only while the thread waits or once a request has failed |
| | `ReadersMoveOn`, `ReaderWorkIsNatural` | - | `ReadingInv`: the files that exist are finitely many, so are those a reader has to open, and it has a try left for the one it reads |
| `MergeScriptsProofs` | `TypeCorrect`, `PagesAreOwn`, `FreshAnswered` | `TypeOK`, `PageIsOfItsRequest`, `FreshRequestAnswered` | `MergeInv`: the graph and the list of the current merge are those of its request; `FreshInv`: the globals have their first values until the first merge begins |
| | `UrlsAreAccounted` | `EveryUrlAccounted` | `AccountInv`, on top of `MergeInv`: each URL done so far is displayed, in the error, returned silently or being run, as often as it was asked for, unless a later one started the error again |

Why the invariants are stronger than the properties:

* *Matching.* That two halves agree says nothing of the calls still on a stack.
  The next merge keeps it only because the core on the top has the right
  process and function, and is either unfinished or makes the check raise. A
  core that is processed twice may be pushed twice, so the stacks are exact only
  while every line can be parsed. In one step a core may be appended and pushed,
  or popped and change its status: the lemmas say what each outcome of
  `BatchLetFactory` does to the stacks of the cores read before it.
* *Traces.* The reader only knows names, the tracer knows calls. The call that
  ends is the innermost pending one; the core on the top of the stack is of the
  same name, and is pending too because every awaited system call of a living
  process is; it is not older than the ending one, whose own core is on the same
  stack. So it is that core. A line of another function or process may be glued,
  lost or shown without its pid: it changes neither the stack of an intact
  function nor its cores, which is what the lemmas on the lines that are not about
  it say, and why `MatchInv` is stated for each function of each process. It
  leaves out the library calls: `ltrace` logs their second half under the name of
  a system call.
* *Accesses.* A new access begins after the former one is closed because the
  former one is the only one in the cache and its closing time is in the past.
  `LiveAccessIsOpenFile` alone does not survive a `close`: the file could have
  another descriptor (`OneDescriptor`), or with ltrace the path name could be the
  one of another file (`MapIsRight`, which says nothing of closed descriptors,
  whose entries are stale).
  `EveryTransferCounted` sums over all the accesses, and one call changes one of
  them or makes a new one. The library's theorems on folds and on induction have
  an operator as a parameter, so the three facts about sums that are needed (a
  sum exists, it can be taken apart at any of its indices, it grows as one of its
  terms does) are proved about a sum that is a function on the subsets of its
  indices, by a smallest set for which it would be false. `SumsAreTotals` shows
  that the fold of the property is that sum.
* *Processes.* `NoCycle` follows from the creators having none, but for the parents
  that were guessed: a guess is the top process, which is why `MayBeParent` allows
  no other, and why the first line that is read must be of the top process
  (`FirstIsRead`: its exit cannot come first, nor can it swallow its own line). A
  creation that was read has put the creator among the objects, whatever exits
  swallow later (`CreatorsKnown`). Two dates of one process are set by two calls
  of others: `DatesInv` orders those calls, and says that who stopped is excepted
  until it is waited for.
* *Flows.* A list is edited in two ways, at its end by `Sent`, and by replacing
  neighbours with one batch that stands for them all; one lemma for each says
  that contiguity and counts are kept, and each loop is one of those.
  `NeverInconsistent` needs that a second half is sent right after its own first
  half, or after the batch in which that one was counted. `HalvesFiltered` needs
  that only one call is pending: the number of its second half is the next one.
  A pass that replaces no pair has walked the list its statistics were made of,
  which is why `PairsAreRare` holds when it is the last one.
  `Remaining` orders what is left: the passes to come, then the substitutions
  that a list of its length still allows and whether the next turn over the pairs
  is due, then the batches ahead of the index. A substitution makes the list
  shorter and a turn without one is the last, which is why `EndOfBigrams` must
  reset `numSubst`; coalescing and filtering only ever shorten a list.
* *Events.* That nothing is lost says nothing of a reader about to empty a file:
  all the file holds must be in its graph already, but for what was added since
  it read. That a triple is not shown twice needs that it is stored once, thus
  sent once: it follows from the order of the lists of the client, which is why
  the sender and the store are proved together.
  `QuietStored` needs to know how far `event_put.py` is within the files of one
  triple. `ReadersMoveOn` bounds a reader, though files are made and grow while
  it runs: it lists them once, gives each a number of tries, and a try that fails
  after half of the file counts as one.
* *Merges.* A page is written at the end of a request from what the request
  gathered on the way, so the invariant says at each moment what that is. Under
  WSGI the graph of a merge outlives it and later scripts write to it:
  `MergeInv` speaks of the graph during a merge only, and holds at its beginning
  because `CgiEnvMergeMode` makes a new one. `AccountInv` counts, since a URL may
  be asked for twice, and excepts the error that a later one starts again.

### Only model-checked

`Terminates`, `AddedIsStored` and `ReadersEnd`. They are liveness properties: that
a step which can be made is made follows from fairness and `ENABLED`, which are
outside what the prover handles. What each of them says beyond that is proved:

* `Terminates`: each iteration of the rewriting lessens `Remaining`
  (`IterationsLeaveLess`), which it cannot do for ever: `IterationsDescend` says
  that an iteration of the specification descends in a well-founded order.
* `ReadersEnd`: each step of a reader lessens `ReaderWork` (`ReadersMoveOn`), three
  natural numbers in the same order (`ReaderWorkIsNatural`).
* `AddedIsStored`: when the thread sleeps, the list is empty and no request has
  failed, there is no triple that is neither stored nor given up (`QuietStored`).

What is left to TLC is that the loops and the readers are never stuck before
their end, and that the client comes to rest.

## 6. Not modelled

* The sub-servers (`lib_webserv.py`). At this commit none of their protocol can
  run: `DoTheJob` makes a `CgiEnv` with three arguments, and its constructor
  takes two, so that it raises before it looks at a port. After that,
  `SubProcPOpen` would be given an argument it does not have, and `do_GET` reads
  a variable that nothing defines. A model would be of what was meant.
* The credentials (`lib_credentials.py`). Each process reads the document once
  and rewrites all of it, without a lock or a check: two editors undo each
  other's updates, and a reader may see an empty file. The code keeps no order
  that a property could state.
* `event_get.py`: `data_retrieve` takes the `len` of a generator and raises before
  it opens a file. The store has one client; two would be two `event_put.py`
  that append to the same files, a line at a time.
* Of a merge, the parameters, the layout and the edition of its page, and the
  parsing of the URLs; of the WSGI server, its plain files, its start, and the
  form of `EditionMode`, which is counted as answered although it is printed.
* In dockit: the concatenation of buffers, `execve` and the working directory,
  the pattern macros, the text of the lines and the formats of the reports. Of a handler of a system call, only what it does to the objects above.
* An exception in the constructor of a handler ends the analysis. It is
  modelled for `clone` and `wait4` (`CloneFails`, `WaitFails`) and the sanity checks;
  elsewhere the calls are those for which the constructor does not raise.
* The plug-in scripts, entities, SQL helpers and exporters: a call to the system
  or to a library followed by a translation to RDF, without a state of their own.
* The web interface, the installation and the tests.
