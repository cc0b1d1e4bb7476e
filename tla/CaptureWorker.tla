---------------------------- MODULE CaptureWorker ----------------------------
(***************************************************************************)
(* The capture worker (workers/capture.worker.ts): one import at a time,   *)
(* one live dataset, packet queries, disposal and shutdown, as coroutines  *)
(* of one event loop. A coroutine runs alone between two of its awaits;    *)
(* `at' names the await it is suspended in.                                *)
(*                                                                         *)
(* An await is of one of two kinds. A file read, the Wasm load and the     *)
(* macrotask yield end in a later turn of the event loop. A call of the    *)
(* boundary runtime awaits only promises that are settled once the Wasm    *)
(* module is loaded, so as built it ends in the same turn, before the next *)
(* command is handled. The worker is nevertheless written against an       *)
(* asynchronous interface: with RuntimeSuspends, such a call too may last  *)
(* for any number of turns.                                                *)
(*                                                                         *)
(* The runtime itself is reduced to the imports and datasets that live in  *)
(* it, each known by the job that created it.                              *)
(***************************************************************************)
EXTENDS CaptureProtocol

CONSTANTS
    RuntimeSuspends,     \* BOOLEAN, see above
    MaxActiveQueries,    \* MAX_ACTIVE_PACKET_QUERIES
    MaxSteps             \* bound: import steps a capture takes before its last

ASSUME WorkerAssumption ==
    RuntimeSuspends \in BOOLEAN /\ MaxActiveQueries \in Nat /\ MaxSteps \in Nat

VARIABLES
    capabilities,     \* "unloaded", "loading" or "loaded"
    runtimeImports,   \* import handles that live in the runtime
    runtimeDatasets,  \* dataset handles that live in the runtime
    liveDataset,      \* the dataset queries are answered from
    nextGeneration,   \* nextDatasetGeneration
    job,              \* activeJob, and the await its import is suspended in
    queries,          \* activePacketQueries: queries suspended in the runtime
    disposals,        \* dispose_dataset commands suspended in the runtime
    shuttingDown,
    shutdown          \* the shutdown command and the await it is suspended in

runtimeVars == <<runtimeImports, runtimeDatasets>>
workerVars == <<capabilities, runtimeImports, runtimeDatasets, liveDataset, nextGeneration,
                job, queries, disposals, shuttingDown, shutdown>>

NoDataset == [generation |-> 0, handle |-> 0]

\* importHandle is 0 or the job; cancel is "reported" when the client asked for
\* it and was told, "requested" when the shutdown asked for it; releases is the
\* dataset whose disposal is awaited; ends is the terminal event once known.
NoJob == [id |-> 0, at |-> "idle", cancel |-> "no", importHandle |-> 0,
          releases |-> 0, left |-> 0, ends |-> "import_error"]

NoShutdown == [id |-> 0, at |-> "idle", releases |-> 0]

WorkerInit ==
    /\ worker = "running"
    /\ capabilities = "unloaded"
    /\ runtimeImports = {}
    /\ runtimeDatasets = {}
    /\ liveDataset = NoDataset
    /\ nextGeneration = 1
    /\ job = NoJob
    /\ queries = {}
    /\ disposals = {}
    /\ shuttingDown = FALSE
    /\ shutdown = NoShutdown

\* The awaits of an import that end in the turn they begin in.
RuntimeAwaits == {"starting", "releasing", "beginning", "stepping", "discarding",
                  "reclaiming", "closing"}

MicrotasksLeft ==
    \/ job.at \in RuntimeAwaits
    \/ queries # {} \/ disposals # {}
    \/ shutdown.at \in {"releasing", "stopping"}
    \/ shutdown.at = "work" /\ job.id = 0

\* The event loop begins a turn only when the last one has nothing left to run.
NewTurn == worker = "running" /\ (RuntimeSuspends \/ ~MicrotasksLeft)

Fault(kind) == kind \in Faults

-----------------------------------------------------------------------------
\* handleCommand: one action per command, each the first turn of its coroutine.
\* What the client never sends (another protocol version, an unknown type, a
\* file that is none) is answered with an error and left out.

Handles(type) ==
    /\ NewTurn
    /\ commands # <<>>
    /\ Head(commands).type = type
    /\ commands' = Tail(commands)

\* initialize, which loads the Wasm module.
HandleInitialize ==
    /\ Handles("initialize")
    /\ capabilities' = "loading"
    /\ UNCHANGED <<worker, events, runtimeVars, liveDataset, nextGeneration,
                   job, queries, disposals, shuttingDown, shutdown>>

\* ensureCapabilities ends. The client waits for it before it sends anything
\* but a shutdown, so there is one such request, and it has the first id.
LoadCapabilities ==
    /\ NewTurn
    /\ capabilities = "loading"
    /\ \/ capabilities' = "loaded" /\ events' = Posted(Event("initialized", 1))
       \/ Fault("load") /\ capabilities' = "unloaded" /\ events' = Posted(Event("command_error", 1))
    /\ UNCHANGED <<worker, commands, runtimeVars, liveDataset, nextGeneration,
                   job, queries, disposals, shuttingDown, shutdown>>

HandleStartImport ==
    /\ Handles("start_import")
    /\ LET id == Head(commands).id IN
       IF job.id # 0 \/ shuttingDown
       THEN events' = Posted(Event("import_error", id)) /\ UNCHANGED job
       ELSE job' = [NoJob EXCEPT !.id = id, !.at = "starting"] /\ UNCHANGED events
    /\ UNCHANGED <<worker, capabilities, runtimeVars, liveDataset, nextGeneration,
                   queries, disposals, shuttingDown, shutdown>>

HandleCancelImport ==
    /\ Handles("cancel_import")
    /\ LET id == Head(commands).id IN
       IF job.id # id THEN UNCHANGED <<job, events>>
       ELSE /\ job' = [job EXCEPT !.cancel = "reported"]
            /\ events' = IF job.cancel = "reported" THEN events
                         ELSE Posted(Event("cancelling", id))
    /\ UNCHANGED <<worker, capabilities, runtimeVars, liveDataset, nextGeneration,
                   queries, disposals, shuttingDown, shutdown>>

\* Mutant: whatever dataset is live is the one the query is about.
QueryContextAnyGeneration(generation) ==
    IF capabilities # "loaded" THEN "unsupported_version"
    ELSE IF job.id # 0 \/ shuttingDown \/ liveDataset = NoDataset THEN "dataset_unavailable"
    ELSE "current"

\* packetQueryContext, as the error it throws or "current".
QueryContext(generation) ==
    IF capabilities # "loaded" THEN "unsupported_version"
    ELSE IF job.id # 0 \/ shuttingDown \/ liveDataset = NoDataset THEN "dataset_unavailable"
    ELSE IF liveDataset.generation # generation THEN "stale_dataset"
    ELSE "current"

\* Mutant: the limit is checked after the query was added.
HandleQueryOneTooMany ==
    /\ Handles("query")
    /\ LET query == Head(commands) IN
       \/ /\ Cardinality(queries) <= MaxActiveQueries
          /\ QueryContext(query.generation) = "current"
          /\ queries' = queries \cup {[id |-> query.id, generation |-> query.generation,
                                       dataset |-> liveDataset]}
          /\ UNCHANGED events
       \/ /\ events' = Posted(QueryEvent("query_error", query.id, query.generation, 0))
          /\ UNCHANGED queries
    /\ UNCHANGED <<worker, capabilities, runtimeVars, liveDataset, nextGeneration,
                   job, disposals, shuttingDown, shutdown>>

\* startPacketQuery: below the limit and with a context it is suspended in the
\* runtime, with the dataset it began with. It is refused at once otherwise, and
\* when the packet or the range it names is out of bounds.
HandleQuery ==
    /\ Handles("query")
    /\ LET query == Head(commands) IN
       \/ /\ Cardinality(queries) < MaxActiveQueries
          /\ QueryContext(query.generation) = "current"
          /\ queries' = queries \cup {[id |-> query.id, generation |-> query.generation,
                                       dataset |-> liveDataset]}
          /\ UNCHANGED events
       \/ /\ events' = Posted(QueryEvent("query_error", query.id, query.generation, 0))
          /\ UNCHANGED queries
    /\ UNCHANGED <<worker, capabilities, runtimeVars, liveDataset, nextGeneration,
                   job, disposals, shuttingDown, shutdown>>

HandleResourceStats ==
    /\ Handles("resource_stats")
    /\ \/ events' = Posted(Event("resource_stats", Head(commands).id))
       \/ Fault("read") /\ events' = Posted(Event("command_error", Head(commands).id))
    /\ UNCHANGED <<worker, workerVars>>

\* dispose_dataset: the live dataset is forgotten before its disposal is awaited.
HandleDisposeDataset ==
    /\ Handles("dispose_dataset")
    /\ LET id == Head(commands).id IN
       IF job.id # 0
       THEN /\ events' = Posted(Event("command_error", id))
            /\ UNCHANGED <<liveDataset, disposals>>
       ELSE IF liveDataset = NoDataset
       THEN /\ events' = Posted(Event("dataset_disposed", id))
            /\ UNCHANGED <<liveDataset, disposals>>
       ELSE /\ disposals' = disposals \cup {[id |-> id, handle |-> liveDataset.handle]}
            /\ liveDataset' = NoDataset
            /\ UNCHANGED events
    /\ UNCHANGED <<worker, capabilities, runtimeVars, nextGeneration,
                   job, queries, shuttingDown, shutdown>>

HandleShutdown ==
    /\ Handles("shutdown")
    /\ shuttingDown' = TRUE
    /\ job' = IF job.id # 0 /\ job.cancel = "no" THEN [job EXCEPT !.cancel = "requested"] ELSE job
    /\ shutdown' = [id |-> Head(commands).id, at |-> "work", releases |-> 0]
    /\ UNCHANGED <<worker, events, capabilities, runtimeVars, liveDataset, nextGeneration,
                   queries, disposals>>

HandleCommand ==
    \/ HandleInitialize \/ HandleStartImport \/ HandleCancelImport \/ HandleQuery
    \/ HandleResourceStats \/ HandleDisposeDataset \/ HandleShutdown

-----------------------------------------------------------------------------
\* runImport, from one await to the next.

Awaits(await) == worker = "running" /\ job.at = await

\* A later turn resumes it: the await is of a macrotask.
AwaitsTurn(await) == NewTurn /\ job.at = await

importUnchanged == UNCHANGED <<worker, commands, capabilities, queries, disposals, shutdown>>

\* The job ends: its terminal event is posted and activeJob is cleared.
Ends(type) == job' = NoJob /\ events' = Posted(Event(type, job.id))

\* Mutant: the terminal event is posted, and the import handle left behind.
ThrowsAtOnce == Ends(IF job.cancel = "no" THEN "import_error" ELSE "cancelled")

\* The catch block, for any error: a job that was asked to cancel ends cancelled.
Throws ==
    LET type == IF job.cancel = "no" THEN "import_error" ELSE "cancelled" IN
    IF job.importHandle = 0 THEN Ends(type)
    ELSE job' = [job EXCEPT !.at = "reclaiming", !.ends = type] /\ UNCHANGED events

\* Mutant: cancellation is not checked after the await.
ContinuesUnchecked(await) ==
    job' = [job EXCEPT !.at = await, !.releases = 0] /\ UNCHANGED events

\* failIfCancelled, then on to the next await.
ContinuesTo(await) ==
    IF job.cancel # "no" THEN Throws
    ELSE job' = [job EXCEPT !.at = await, !.releases = 0] /\ UNCHANGED events

\* ensureCapabilities, the checks of the file, then releaseDataset up to its await.
CheckSelection ==
    /\ Awaits("starting")
    /\ \/ Throws /\ UNCHANGED liveDataset
       \/ /\ job.cancel = "no"
          /\ job' = [job EXCEPT !.at = IF liveDataset = NoDataset THEN "reading" ELSE "releasing",
                                !.releases = liveDataset.handle]
          /\ liveDataset' = NoDataset
          /\ UNCHANGED events
    /\ UNCHANGED <<runtimeVars, nextGeneration, shuttingDown>> /\ importUnchanged

\* The previous dataset is disposed; a disposal that fails leaves it in the runtime.
ReleasePrevious ==
    /\ Awaits("releasing")
    /\ \/ runtimeDatasets' = runtimeDatasets \ {job.releases} /\ ContinuesTo("reading")
       \/ Fault("release") /\ Throws /\ UNCHANGED runtimeDatasets
    /\ UNCHANGED <<runtimeImports, liveDataset, nextGeneration, shuttingDown>> /\ importUnchanged

\* classify and readCapture: the last slice of the file, or the one that fails.
\* The slices before it only report progress.
ReadCapture ==
    /\ AwaitsTurn("reading")
    /\ \/ ContinuesTo("beginning") \/ Throws
    /\ UNCHANGED <<runtimeVars, liveDataset, nextGeneration, shuttingDown>> /\ importUnchanged

\* runtime.beginImport admits the capture or refuses it. A job cancelled while
\* it was admitted reclaims the handle it was given.
BeginImport ==
    /\ Awaits("beginning")
    /\ \/ \E steps \in 0..MaxSteps :
             /\ runtimeImports' = runtimeImports \cup {job.id}
             /\ job' = IF job.cancel = "no"
                       THEN [job EXCEPT !.at = "stepping", !.importHandle = job.id, !.left = steps]
                       ELSE [job EXCEPT !.at = "reclaiming", !.importHandle = job.id,
                                        !.ends = "cancelled"]
             /\ UNCHANGED events
       \/ Throws /\ UNCHANGED runtimeImports
    /\ UNCHANGED <<runtimeDatasets, liveDataset, nextGeneration, shuttingDown>> /\ importUnchanged

\* stepImport returned progress: yield to the event loop, or it threw.
StepImport ==
    /\ Awaits("stepping")
    /\ \/ job.left > 0 /\ job' = [job EXCEPT !.at = "yielding", !.left = @ - 1] /\ UNCHANGED events
       \/ Throws
    /\ UNCHANGED <<runtimeVars, liveDataset, nextGeneration, shuttingDown>> /\ importUnchanged

\* stepImport returned complete: the runtime consumed the import and published
\* its dataset, which takes the next generation, or is discarded if none is left.
CompleteImport ==
    /\ Awaits("stepping")
    /\ runtimeImports' = runtimeImports \ {job.id}
    /\ runtimeDatasets' = runtimeDatasets \cup {job.id}
    /\ IF nextGeneration > MaxGenerations
       THEN /\ job' = [job EXCEPT !.at = "discarding", !.importHandle = 0]
            /\ UNCHANGED <<events, liveDataset, nextGeneration>>
       ELSE /\ liveDataset' = [generation |-> nextGeneration, handle |-> job.id]
            /\ nextGeneration' = nextGeneration + 1
            /\ events' = Posted(QueryEvent("complete", job.id, nextGeneration, job.id))
            /\ job' = NoJob
    /\ UNCHANGED shuttingDown /\ importUnchanged

DiscardDataset ==
    /\ Awaits("discarding")
    /\ \/ runtimeDatasets' = runtimeDatasets \ {job.id}
       \/ Fault("release") /\ UNCHANGED runtimeDatasets
    /\ Throws
    /\ UNCHANGED <<runtimeImports, liveDataset, nextGeneration, shuttingDown>> /\ importUnchanged

\* The macrotask yield ends: cancellation is checked before the next step.
Resume ==
    /\ AwaitsTurn("yielding")
    /\ ContinuesTo("stepping")
    /\ UNCHANGED <<runtimeVars, liveDataset, nextGeneration, shuttingDown>> /\ importUnchanged

\* cancelAndDispose and failAndDispose: the event follows the confirmed disposal.
\* A disposal that fails begins failClosedAfterCleanupLoss.
Reclaim ==
    /\ Awaits("reclaiming")
    /\ \/ /\ runtimeImports' = runtimeImports \ {job.importHandle}
          /\ Ends(job.ends)
          /\ UNCHANGED shuttingDown
       \/ /\ Fault("reclaim")
          /\ shuttingDown' = TRUE
          /\ events' = Posted(Event("import_error", job.id))
          /\ job' = [job EXCEPT !.at = "closing"]
          /\ UNCHANGED runtimeImports
    /\ UNCHANGED <<runtimeDatasets, liveDataset, nextGeneration>> /\ importUnchanged

\* failClosedAfterCleanupLoss ends: whether or not the runtime shut down, the
\* worker closes, and what lived in it and was still to be handled goes with it.
CloseAfterCleanupLoss ==
    /\ Awaits("closing")
    /\ worker' = "closed" /\ commands' = <<>>
    /\ runtimeImports' = {} /\ runtimeDatasets' = {}
    /\ liveDataset' = NoDataset
    /\ job' = NoJob
    /\ UNCHANGED <<events, capabilities, nextGeneration, queries, disposals, shuttingDown, shutdown>>

ImportStep ==
    \/ CheckSelection \/ ReleasePrevious \/ ReadCapture \/ BeginImport \/ StepImport
    \/ CompleteImport \/ DiscardDataset \/ Resume \/ Reclaim \/ CloseAfterCleanupLoss

-----------------------------------------------------------------------------
\* Packet queries, disposal and shutdown, after the runtime.

\* Mutant: the result of a query is posted whatever happened meanwhile.
AlwaysCurrent(query) == TRUE

\* queryStillCurrent: nothing happened to the dataset while the runtime read it.
QueryStillCurrent(query) ==
    /\ ~shuttingDown
    /\ liveDataset = query.dataset
    /\ job.id = 0

\* The runtime's result: an answer, a structured refusal, or a failure, which
\* reading a dataset that is gone always is.
QueryResults(query) ==
    IF query.dataset.handle \in runtimeDatasets
    THEN {"answer", "query_error"} \cup (IF Fault("read") THEN {"query_failed"} ELSE {})
    ELSE {"query_failed"}

\* A query whose dataset is no longer the live one is dropped without an event.
FinishQuery(query) ==
    /\ worker = "running"
    /\ queries' = queries \ {query}
    /\ IF QueryStillCurrent(query)
       THEN \E result \in QueryResults(query) :
                events' = Posted(QueryEvent(result, query.id, query.generation,
                                            query.dataset.handle))
       ELSE UNCHANGED events
    /\ UNCHANGED <<worker, commands, capabilities, runtimeVars, liveDataset, nextGeneration,
                   job, disposals, shuttingDown, shutdown>>

FinishDisposal(disposal) ==
    /\ worker = "running"
    /\ disposals' = disposals \ {disposal}
    /\ \/ /\ runtimeDatasets' = runtimeDatasets \ {disposal.handle}
          /\ events' = Posted(Event("dataset_disposed", disposal.id))
       \/ /\ Fault("release")
          /\ events' = Posted(Event("command_error", disposal.id))
          /\ UNCHANGED runtimeDatasets
    /\ UNCHANGED <<worker, commands, capabilities, runtimeImports, liveDataset, nextGeneration,
                   job, queries, shuttingDown, shutdown>>

ShutdownFails ==
    /\ events' = Posted(Event("command_error", shutdown.id))
    /\ shutdown' = NoShutdown

shutdownUnchanged == UNCHANGED <<capabilities, nextGeneration, job, queries, disposals, shuttingDown>>

\* The active import and the queries under way have ended; the live dataset is
\* released, if there is one.
ReleaseForShutdown ==
    /\ worker = "running"
    /\ shutdown.at = "work" /\ job.id = 0 /\ queries = {}
    /\ shutdown' = [shutdown EXCEPT !.at = IF liveDataset = NoDataset THEN "stopping" ELSE "releasing",
                                    !.releases = liveDataset.handle]
    /\ liveDataset' = NoDataset
    /\ UNCHANGED <<worker, commands, events, runtimeVars>> /\ shutdownUnchanged

ReleasedForShutdown ==
    /\ worker = "running"
    /\ shutdown.at = "releasing"
    /\ \/ /\ runtimeDatasets' = runtimeDatasets \ {shutdown.releases}
          /\ shutdown' = [shutdown EXCEPT !.at = "stopping", !.releases = 0]
          /\ UNCHANGED events
       \/ Fault("release") /\ ShutdownFails /\ UNCHANGED runtimeDatasets
    /\ UNCHANGED <<worker, commands, runtimeImports, liveDataset>> /\ shutdownUnchanged

\* runtime.shutdown frees what is left, then the worker answers and closes.
StopRuntime ==
    /\ worker = "running"
    /\ shutdown.at = "stopping"
    /\ \/ /\ runtimeImports' = {} /\ runtimeDatasets' = {}
          /\ events' = Posted(Event("shutdown_complete", shutdown.id))
          /\ shutdown' = NoShutdown
          /\ worker' = "closed" /\ commands' = <<>>
       \/ Fault("teardown") /\ ShutdownFails /\ UNCHANGED <<runtimeVars, worker, commands>>
    /\ UNCHANGED liveDataset /\ shutdownUnchanged

ShutdownStep == ReleaseForShutdown \/ ReleasedForShutdown \/ StopRuntime

\* The worker dies; its error event reaches the client after what it had posted.
Crash ==
    /\ worker = "running" /\ Fault("crash")
    /\ worker' = "closed" /\ commands' = <<>>
    /\ events' = Posted(Event("error", 0))
    /\ UNCHANGED workerVars

QueryStep == \E query \in queries : FinishQuery(query)
DisposalStep == \E disposal \in disposals : FinishDisposal(disposal)

WorkerNext ==
    \/ HandleCommand \/ LoadCapabilities
    \/ ImportStep \/ QueryStep \/ DisposalStep \/ ShutdownStep
    \/ Crash

WorkerTypeOK ==
    /\ capabilities \in {"unloaded", "loading", "loaded"}
    /\ runtimeImports \subseteq Ids /\ runtimeDatasets \subseteq Ids
    /\ liveDataset \in [generation : 0..MaxGenerations, handle : 0..MaxId]
    /\ nextGeneration \in 1..MaxGenerations + 1
    /\ job \in [id : 0..MaxId, at : RuntimeAwaits \cup {"idle", "reading", "yielding"},
                cancel : {"no", "requested", "reported"}, importHandle : 0..MaxId,
                releases : 0..MaxId, left : 0..MaxSteps, ends : {"cancelled", "import_error"}]
    /\ queries \subseteq [id : Ids, generation : Generations,
                         dataset : [generation : Generations, handle : Ids]]
    /\ Cardinality(queries) <= MaxActiveQueries
    /\ disposals \subseteq [id : Ids, handle : Ids]
    /\ shuttingDown \in BOOLEAN
    /\ shutdown \in [id : 0..MaxId, at : {"idle", "work", "releasing", "stopping"},
                     releases : 0..MaxId]
=============================================================================
