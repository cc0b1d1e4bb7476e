------------------------------ MODULE Ingestion ------------------------------
(***************************************************************************)
(* The capture client and the capture worker, connected by their port.     *)
(***************************************************************************)
EXTENDS CaptureWorker, CaptureClient

vars == <<portVars, workerVars, clientVars>>

Init == WorkerInit /\ ClientInit

Next ==
    \/ WorkerNext /\ UNCHANGED clientVars
    \/ ClientNext /\ UNCHANGED workerVars

Spec == Init /\ [][Next]_vars

\* Every await of the worker ends: files are finite, the runtime answers, timers
\* fire, and the event loop gets to every command. Events are delivered, the
\* client's awaits of the initialization continue once it ended, and its deadline
\* fires. Nobody has to make a call.
Fairness ==
    /\ WF_vars(HandleCommand /\ UNCHANGED clientVars)
    /\ WF_vars(LoadCapabilities /\ UNCHANGED clientVars)
    /\ WF_vars(ImportStep /\ UNCHANGED clientVars)
    /\ WF_vars(QueryStep /\ UNCHANGED clientVars)
    /\ WF_vars(DisposalStep /\ UNCHANGED clientVars)
    /\ WF_vars(ShutdownStep /\ UNCHANGED clientVars)
    /\ WF_vars(Receive /\ UNCHANGED workerVars)
    /\ WF_vars(StartImport /\ UNCHANGED workerVars)
    /\ WF_vars(RequestShutdown /\ UNCHANGED workerVars)
    /\ WF_vars(Deadline /\ UNCHANGED workerVars)

FairSpec == Spec /\ Fairness

TypeOK == PortTypeOK /\ WorkerTypeOK /\ ClientTypeOK

-----------------------------------------------------------------------------
\* An import.

CommandsAbout(type, id) == Cardinality({n \in DOMAIN commands : commands[n] = Command(type, id)})
EndsOf(id) == Cardinality({n \in DOMAIN events :
                  events[n].id = id /\ events[n].type \in TerminalTypes})

\* A pending import is in exactly one place: its command is on the way, the
\* worker runs it, or its one terminal event is on the way back. Only a worker
\* that crashed or closed itself may have lost it. (The early returns of
\* handleCommand and the catch and finally blocks of runImport.)
PendingImportIsSomewhere ==
    \A id \in imports :
        LET places == CommandsAbout("start_import", id) + EndsOf(id)
                      + (IF job.id = id /\ job.at # "closing" /\ worker = "running" THEN 1 ELSE 0)
        IN places <= 1 /\ (worker = "running" => places = 1)

\* Once the worker has taken a cancellation, or a shutdown, the job it is for
\* never publishes a dataset. (failIfCancelled after each await of runImport;
\* stepImport ends in the turn it begins in, so none arrives during it.)
CancelledNeverPublishes ==
    [][job.id # 0 /\ job.cancel # "no" => liveDataset' \in {liveDataset, NoDataset}]_vars

\* "Cancellation received while a Rust step is executing takes effect at the next
\* step boundary" (docs/architecture/adr-0007-wasm-boundary-contract.md:66): an
\* import is not published by a step during which its cancellation was posted.
\* (runImport publishes as soon as stepImport returns complete.)
CancelTakesEffectAtNextBoundary ==
    [][job.at = "stepping" /\ CommandsAbout("cancel_import", job.id) > 0
         => liveDataset' \in {liveDataset, NoDataset}]_vars

\* The datasets something in the worker still answers for: live, or being disposed.
HeldDatasets ==
    {liveDataset.handle, job.releases, shutdown.releases}
        \cup {disposal.handle : disposal \in disposals}
        \cup (IF job.at = "discarding" THEN {job.id} ELSE {})

\* While the worker runs, every import and every dataset that lives in the
\* runtime is answered for by the worker, and the other way round: nothing is
\* forgotten by a cancellation, an error or a disposal, and nothing is held
\* that is gone. (importHandle, releaseDataset, cancelAndDispose, failAndDispose.)
NothingForgotten ==
    worker = "running" =>
        /\ runtimeImports = {job.importHandle} \ {0}
        /\ runtimeDatasets = HeldDatasets \ {0}

\* Neither an import nor a handle is lost, whatever happens between its steps.
NothingIsLost == PendingImportIsSomewhere /\ NothingForgotten

-----------------------------------------------------------------------------
\* Packet queries.

\* Every answer was read from the dataset its query names, whatever was imported
\* or disposed while it was asked for or read. (packetQueryContext, queryStillCurrent.)
AnswersAreFromAskedDataset ==
    \A n \in DOMAIN events :
        events[n].type = "answer" =>
            \E summary \in summaries :
                /\ summary.generation = events[n].generation
                /\ summary.dataset = events[n].dataset

\* Without a fault the client never closes for a failure: in particular a query
\* overtaken by an import, a disposal or a shutdown fails without reaching it.
\* (queryStillCurrent in the catch blocks of the queries; #receive.)
NoSpuriousAbort == ~aborted

-----------------------------------------------------------------------------
\* Promises settle.

\* importCapture. (Every path of runImport posts a terminal event; #failAll.)
ImportSettles == startingImport ~> ~startingImport

\* Packet queries. (A dropped query was rejected by the client first.)
QueriesSettle ==
    \A id \in Ids : (\E query \in packetQueries : query.id = id)
                    ~> (\A query \in packetQueries : query.id # id)

\* Initialization, disposal, statistics and shutdown.
RequestsSettle ==
    \A id \in Ids : (\E request \in requests : request.id = id)
                    ~> (\A request \in requests : request.id # id)

\* No caller of the client waits for ever, in whatever order an import, queries,
\* a disposal, a shutdown with its deadline, a failure and a crash meet.
EveryPromiseSettles == ImportSettles /\ QueriesSettle /\ RequestsSettle
=============================================================================
