---------------------------- MODULE CaptureClient ----------------------------
(***************************************************************************)
(* CaptureImportClient (ingestion/capture-client.ts): the worker's         *)
(* commands as promises. A promise that is not settled is an entry of one  *)
(* of the client's maps, or a call that still waits for the                *)
(* initialization; settling it removes the entry.                          *)
(*                                                                         *)
(* Its callers are free, except that they dispose, query and ask for       *)
(* statistics once the client is ready, and shut it down once.             *)
(***************************************************************************)
EXTENDS CaptureProtocol

CONSTANT MaxQueue     \* bound: commands posted and not yet handled

ASSUME QueueAssumption == MaxQueue \in Nat \ {0}

VARIABLES
    closed,
    ready,            \* the initialization: "pending", "ready" or "failed"
    nextId,
    startingImport,
    activeJobId,      \* 0 if there is none
    imports,          \* #imports: jobs whose promise is pending
    requests,         \* #commands: pending requests and their types
    packetQueries,    \* #packetQueries: pending queries and their generations
    shutdownCall,     \* "none", "waiting" for the initialization, "racing" its deadline, "done"
    aborted,          \* whether the client closed for a failure, and not for a caller
    summaries         \* what complete events told the callers: generation and dataset

clientVars == <<closed, ready, nextId, startingImport, activeJobId, imports, requests,
                packetQueries, shutdownCall, aborted, summaries>>

\* The constructor posts the initialize request.
ClientInit ==
    /\ commands = <<Command("initialize", 1)>>
    /\ events = <<>>
    /\ closed = FALSE
    /\ ready = "pending"
    /\ nextId = 2
    /\ startingImport = FALSE
    /\ activeJobId = 0
    /\ imports = {}
    /\ requests = {[id |-> 1, type |-> "initialize"]}
    /\ packetQueries = {}
    /\ shutdownCall = "none"
    /\ aborted = FALSE
    /\ summaries = {}

-----------------------------------------------------------------------------
\* Closing: terminate() by a caller, #abort() for a failure. Both reject all
\* that is pending and end the worker at once, with its unhandled commands.

\* Mutant: the worker is ended, and what is pending is left to it.
ClosesWithoutFailAll(byFailure) ==
    /\ closed' = TRUE
    /\ aborted' = (aborted \/ (byFailure /\ ~closed))
    /\ worker' = "closed" /\ commands' = <<>>
    /\ ready' = IF ready = "pending" THEN "failed" ELSE ready
    /\ shutdownCall' = IF shutdownCall = "none" THEN "none" ELSE "done"
    /\ UNCHANGED <<nextId, startingImport, activeJobId, imports, requests, packetQueries, summaries>>

Closes(byFailure) ==
    /\ closed' = TRUE
    /\ aborted' = (aborted \/ (byFailure /\ ~closed))
    /\ worker' = "closed" /\ commands' = <<>>
    /\ ready' = IF ready = "pending" THEN "failed" ELSE ready
    /\ startingImport' = FALSE
    /\ activeJobId' = 0
    /\ imports' = {} /\ requests' = {} /\ packetQueries' = {}
    /\ shutdownCall' = IF shutdownCall = "none" THEN "none" ELSE "done"
    /\ UNCHANGED <<nextId, summaries>>

Terminate == ~closed /\ Closes(FALSE) /\ UNCHANGED events

-----------------------------------------------------------------------------
\* Calls.

\* A call is made while there is an id for it, besides those of the calls that
\* wait for the initialization.
WaitingCalls == {call \in {"import", "shutdown"} :
    IF call = "import" THEN startingImport /\ activeJobId = 0 ELSE shutdownCall = "waiting"}
HasId == nextId + Cardinality(WaitingCalls) <= MaxId /\ Len(commands) < MaxQueue

\* importCapture up to its await of the initialization: single flight is
\* reserved, and the queries of the dataset to be replaced are rejected.
ImportCapture ==
    /\ ~closed /\ activeJobId = 0 /\ ~startingImport
    /\ HasId
    /\ packetQueries' = {}
    /\ startingImport' = TRUE
    /\ UNCHANGED <<portVars, closed, ready, nextId, activeJobId, imports, requests,
                   shutdownCall, aborted, summaries>>

\* importCapture after it.
StartImport ==
    /\ startingImport /\ activeJobId = 0 /\ ~closed
    /\ \/ /\ ready = "ready"
          /\ activeJobId' = nextId
          /\ imports' = imports \cup {nextId}
          /\ commands' = Sent(Command("start_import", nextId))
          /\ nextId' = nextId + 1
          /\ UNCHANGED startingImport
       \/ /\ ready = "failed"
          /\ startingImport' = FALSE
          /\ UNCHANGED <<activeJobId, imports, commands, nextId>>
    /\ UNCHANGED <<worker, events, closed, ready, requests, packetQueries,
                   shutdownCall, aborted, summaries>>

\* cancelImport, dropped while there is no job yet.
CancelImport ==
    /\ activeJobId # 0 /\ ~closed
    /\ Len(commands) < MaxQueue
    /\ commands' = Sent(Command("cancel_import", activeJobId))
    /\ UNCHANGED <<worker, events, clientVars>>

\* #request, for disposeDataset and resourceStats.
Request(type) ==
    /\ ~closed /\ ready = "ready"
    /\ requests' = requests \cup {[id |-> nextId, type |-> type]}
    /\ commands' = Sent(Command(type, nextId))
    /\ nextId' = nextId + 1
    /\ UNCHANGED <<worker, events, closed, ready, startingImport, activeJobId, imports,
                   aborted, summaries>>

\* disposeDataset rejects the queries of the dataset first.
DisposeDataset ==
    /\ HasId /\ Request("dispose_dataset")
    /\ packetQueries' = {}
    /\ UNCHANGED shutdownCall

ResourceStats == HasId /\ Request("resource_stats") /\ UNCHANGED <<packetQueries, shutdownCall>>

\* readPacketDetail, readPacketEvidencePage and resolvePacketSelection, about a
\* dataset the caller has been told of, the live one or an older one.
ReadPacket(generation) ==
    /\ ~closed /\ ready = "ready" /\ HasId
    /\ packetQueries' = packetQueries \cup {[id |-> nextId, generation |-> generation]}
    /\ commands' = Sent(Query(nextId, generation))
    /\ nextId' = nextId + 1
    /\ UNCHANGED <<worker, events, closed, ready, startingImport, activeJobId, imports,
                   requests, shutdownCall, aborted, summaries>>

\* The caller's abort signal: the answer, if one comes, finds nothing pending.
AbortQuery(query) ==
    /\ packetQueries' = packetQueries \ {query}
    /\ UNCHANGED <<portVars, closed, ready, nextId, startingImport, activeJobId, imports,
                   requests, shutdownCall, aborted, summaries>>

\* shutdown: the request, once the initialization ends, races a deadline.
Shutdown ==
    /\ ~closed /\ shutdownCall = "none" /\ HasId
    /\ packetQueries' = {}
    /\ shutdownCall' = "waiting"
    /\ UNCHANGED <<portVars, closed, ready, nextId, startingImport, activeJobId, imports,
                   requests, aborted, summaries>>

RequestShutdown ==
    /\ shutdownCall = "waiting"
    /\ Request("shutdown")
    /\ shutdownCall' = "racing"
    /\ UNCHANGED packetQueries

\* The deadline fires, or the initialization the request waited for failed.
Deadline ==
    /\ shutdownCall \in {"waiting", "racing"} /\ ~closed
    /\ Closes(FALSE)
    /\ UNCHANGED events

-----------------------------------------------------------------------------
\* #receive.

Receives(types) ==
    /\ events # <<>>
    /\ Head(events).type \in types
    /\ events' = Tail(events)

\* The acknowledgement of a cancellation is for the caller's progress callback.
ReceiveProgress == Receives({"cancelling"}) /\ UNCHANGED <<worker, commands, clientVars>>

ReceiveTerminal ==
    /\ Receives(TerminalTypes)
    /\ LET event == Head(events) IN
       IF event.id \notin imports THEN UNCHANGED <<imports, activeJobId, startingImport, summaries>>
       ELSE /\ imports' = imports \ {event.id}
            /\ activeJobId' = IF activeJobId = event.id THEN 0 ELSE activeJobId
            /\ startingImport' = FALSE
            /\ summaries' = IF event.type = "complete"
                            THEN summaries \cup {[generation |-> event.generation,
                                                  dataset |-> event.dataset]}
                            ELSE summaries
    /\ UNCHANGED <<worker, commands, closed, ready, nextId, requests, packetQueries,
                   shutdownCall, aborted>>

\* An answer for another dataset than the pending query's is a broken worker.
ReceiveAnswer ==
    /\ Receives({"answer", "query_error"})
    /\ LET event == Head(events) IN
       IF \E query \in packetQueries : query.id = event.id /\ query.generation # event.generation
       THEN Closes(TRUE)
       ELSE /\ packetQueries' = {query \in packetQueries : query.id # event.id}
            /\ UNCHANGED <<worker, commands, closed, ready, nextId, startingImport, activeJobId,
                           imports, requests, shutdownCall, aborted, summaries>>

\* A query that failed in the worker, or the worker's own failure, is fatal,
\* whether or not anything is still pending.
ReceiveFailure == Receives({"query_failed", "error"}) /\ Closes(TRUE)

\* The type the worker answers a request with.
Response(type) ==
    CASE type = "initialize" -> "initialized"
      [] type = "dispose_dataset" -> "dataset_disposed"
      [] type = "resource_stats" -> "resource_stats"
      [] type = "shutdown" -> "shutdown_complete"

\* The response to a request, or a command_error, which would be the worker's
\* failure if a query had that id; a shutdown answered either way ends in
\* terminate().
ReceiveResponse ==
    /\ Receives(ResponseTypes \cup {"command_error"})
    /\ LET event == Head(events)
           answered == {request \in requests : request.id = event.id} IN
       IF event.type = "command_error" /\ \E query \in packetQueries : query.id = event.id
       THEN Closes(TRUE)
       ELSE IF \E request \in answered : request.type = "shutdown" THEN Closes(FALSE)
       ELSE /\ requests' = requests \ answered
            /\ ready' = IF \A request \in answered : request.type # "initialize" THEN ready
                        ELSE IF event.type = Response("initialize") THEN "ready" ELSE "failed"
            /\ UNCHANGED <<worker, commands, closed, nextId, startingImport, activeJobId, imports,
                           packetQueries, shutdownCall, aborted, summaries>>

Receive ==
    ReceiveProgress \/ ReceiveTerminal \/ ReceiveAnswer \/ ReceiveFailure \/ ReceiveResponse

-----------------------------------------------------------------------------
Call ==
    \/ ImportCapture \/ CancelImport \/ DisposeDataset \/ ResourceStats
    \/ \E summary \in summaries : ReadPacket(summary.generation)
    \/ \E query \in packetQueries : AbortQuery(query)
    \/ Shutdown \/ Terminate

ClientNext == Call \/ StartImport \/ RequestShutdown \/ Deadline \/ Receive

ClientTypeOK ==
    /\ closed \in BOOLEAN /\ aborted \in BOOLEAN /\ startingImport \in BOOLEAN
    /\ ready \in {"pending", "ready", "failed"}
    /\ nextId \in 1..MaxId + 1
    /\ activeJobId \in 0..MaxId
    /\ imports \subseteq Ids
    /\ requests \subseteq [id : Ids, type : RequestTypes]
    /\ packetQueries \subseteq [id : Ids, generation : Generations]
    /\ shutdownCall \in {"none", "waiting", "racing", "done"}
    /\ summaries \subseteq [generation : Generations, dataset : Ids]
=============================================================================
