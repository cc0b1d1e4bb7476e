--------------------------- MODULE IngestionProofs ---------------------------
(***************************************************************************)
(* For every number of ids, generations, queries and steps: the client and *)
(* the worker keep their types, a worker that was told of a cancellation   *)
(* does not publish, and nothing that lives in the runtime is forgotten.   *)
(***************************************************************************)
EXTENDS Ingestion, FiniteSetTheorems, SequenceTheorems, TLAPS

-----------------------------------------------------------------------------
\* The type invariant is not inductive as it stands. An id is left for a call
\* that waits, a completed import has a dataset and a generation, and the client
\* tells its callers of no other; a live dataset is one, and no job means none.

CommandRecords == [type : CommandTypes, id : Ids, generation : 0..MaxGenerations]

EventRecords ==
    {event \in [type : EventTypes, id : 0..MaxId,
                generation : 0..MaxGenerations, dataset : 0..MaxId] :
        event.type = "complete" => event.generation # 0 /\ event.dataset # 0}

PortTyped ==
    /\ worker \in {"running", "closed"}
    /\ commands \in Seq(CommandRecords)
    /\ events \in Seq(EventRecords)

JobRecords ==
    [id : 0..MaxId, at : RuntimeAwaits \cup {"idle", "reading", "yielding"},
     cancel : {"no", "requested", "reported"}, importHandle : 0..MaxId,
     releases : 0..MaxId, left : 0..MaxSteps, ends : {"cancelled", "import_error"}]

JobTyped == job \in JobRecords /\ (job.id = 0 => job = NoJob)

StoreTyped ==
    /\ runtimeImports \subseteq Ids /\ runtimeDatasets \subseteq Ids
    /\ liveDataset \in [generation : 0..MaxGenerations, handle : 0..MaxId]
    /\ liveDataset # NoDataset => liveDataset.generation # 0 /\ liveDataset.handle # 0
    /\ nextGeneration \in 1..MaxGenerations + 1

QueriesTyped ==
    /\ queries \subseteq [id : Ids, generation : Generations,
                         dataset : [generation : Generations, handle : Ids]]
    /\ IsFiniteSet(queries)
    /\ Cardinality(queries) <= MaxActiveQueries

ControlTyped ==
    /\ capabilities \in {"unloaded", "loading", "loaded"}
    /\ disposals \subseteq [id : Ids, handle : Ids]
    /\ shuttingDown \in BOOLEAN
    /\ shutdown \in [id : 0..MaxId, at : {"idle", "work", "releasing", "stopping"},
                     releases : 0..MaxId]

WorkerTyped == JobTyped /\ StoreTyped /\ QueriesTyped /\ ControlTyped

\* Cardinality(WaitingCalls), as a number.
Waiting ==
    (IF startingImport /\ activeJobId = 0 THEN 1 ELSE 0)
        + (IF shutdownCall = "waiting" THEN 1 ELSE 0)

ClientTyped ==
    /\ ClientTypeOK
    /\ nextId + Waiting <= MaxId + 1

Typed == PortTyped /\ WorkerTyped /\ ClientTyped

-----------------------------------------------------------------------------
\* A call that waits holds back one id, and at most two calls wait.
LEMMA WaitingCount == Cardinality(WaitingCalls) = Waiting
<1>1. CASE startingImport /\ activeJobId = 0 /\ shutdownCall = "waiting"
  <2>1. WaitingCalls = {"import"} \cup {"shutdown"}
    BY <1>1 DEF WaitingCalls
  <2>2. IsFiniteSet({"import"}) /\ Cardinality({"import"}) = 1
    BY FS_Singleton
  <2>3. Cardinality({"import"} \cup {"shutdown"}) = 2
    BY <2>2, FS_AddElement
  <2> QED BY <1>1, <2>1, <2>3 DEF Waiting
<1>2. CASE startingImport /\ activeJobId = 0 /\ shutdownCall # "waiting"
  <2>1. WaitingCalls = {"import"}
    BY <1>2 DEF WaitingCalls
  <2>2. Cardinality({"import"}) = 1
    BY FS_Singleton
  <2> QED BY <1>2, <2>1, <2>2 DEF Waiting
<1>3. CASE ~(startingImport /\ activeJobId = 0) /\ shutdownCall = "waiting"
  <2>1. WaitingCalls = {"shutdown"}
    BY <1>3 DEF WaitingCalls
  <2>2. Cardinality({"shutdown"}) = 1
    BY FS_Singleton
  <2> QED BY <1>3, <2>1, <2>2 DEF Waiting
<1>4. CASE ~(startingImport /\ activeJobId = 0) /\ shutdownCall # "waiting"
  <2>1. WaitingCalls = {}
    BY <1>4 DEF WaitingCalls
  <2> QED BY <1>4, <2>1, FS_EmptySet DEF Waiting
<1> QED BY <1>1, <1>2, <1>3, <1>4

\* Nothing is pending and nothing lives when the page loads.
LEMMA InitTyped == Init => Typed
<1> SUFFICES ASSUME Init PROVE Typed
  OBVIOUS
<1> USE BoundsAssumption, WorkerAssumption DEF Init, WorkerInit, ClientInit
<1>1. PortTyped
  BY DEF PortTyped, CommandRecords, EventRecords, Command, CommandTypes, RequestTypes, Ids
<1>2. JobTyped
  BY DEF JobTyped, JobRecords, NoJob
<1>3. StoreTyped
  BY DEF StoreTyped, NoDataset
<1>4. QueriesTyped
  BY FS_EmptySet DEF QueriesTyped
<1>5. ControlTyped
  <2>1. shutdown \in [id : 0..MaxId, at : {"idle", "work", "releasing", "stopping"},
                     releases : 0..MaxId]
    BY DEF NoShutdown
  <2>2. disposals \subseteq [id : Ids, handle : Ids]
    OBVIOUS
  <2> QED BY <2>1, <2>2 DEF ControlTyped
<1>6. ClientTyped
  <2>1. Waiting = 0
    BY DEF Waiting
  <2>2. nextId \in 1..MaxId + 1 /\ activeJobId \in 0..MaxId
    OBVIOUS
  <2>3. requests \subseteq [id : Ids, type : RequestTypes]
    BY DEF Ids, RequestTypes
  <2>4. ClientTypeOK
    BY <2>2, <2>3 DEF ClientTypeOK
  <2> QED BY <2>1, <2>4 DEF ClientTyped
<1> QED BY <1>1, <1>2, <1>3, <1>4, <1>5, <1>6 DEF Typed, WorkerTyped

\* The strengthened types imply the type invariant that the runs check.
LEMMA TypedIsTypeOK == Typed => TypeOK
<1> SUFFICES ASSUME Typed PROVE TypeOK
  OBVIOUS
<1>1. PortTypeOK
  <2>1. commands \in Seq([type : CommandTypes, id : Ids, generation : 0..MaxGenerations])
    BY DEF Typed, PortTyped, CommandRecords
  <2>2. EventRecords \subseteq [type : EventTypes, id : 0..MaxId,
                               generation : 0..MaxGenerations, dataset : 0..MaxId]
    BY DEF EventRecords
  <2>3. events \in Seq([type : EventTypes, id : 0..MaxId,
                       generation : 0..MaxGenerations, dataset : 0..MaxId])
    BY <2>2, SeqMonotonic DEF Typed, PortTyped
  <2> QED BY <2>1, <2>3 DEF Typed, PortTyped, PortTypeOK
<1>2. WorkerTypeOK
  BY DEF Typed, WorkerTyped, WorkerTypeOK, JobTyped, JobRecords, StoreTyped, QueriesTyped,
     ControlTyped
<1> QED BY <1>1, <1>2 DEF Typed, ClientTyped, TypeOK

-----------------------------------------------------------------------------
\* What the helpers of the handlers preserve.

\* A posted event keeps the queue of events typed.
LEMMA PostedTyped ==
    ASSUME events \in Seq(EventRecords), NEW event \in EventRecords
    PROVE  Posted(event) \in Seq(EventRecords)
  BY DEF Posted

\* The command a handler takes is typed, and so are those it leaves.
LEMMA HandledTyped ==
    ASSUME PortTyped, NEW type, Handles(type)
    PROVE  /\ Head(commands) \in CommandRecords
           /\ Head(commands).type = type
           /\ commands' \in Seq(CommandRecords)
  BY HeadTailProperties DEF PortTyped, Handles

\* An event without a dataset is typed unless it announces one.
LEMMA EventTyped ==
    ASSUME NEW type \in {"cancelled", "import_error", "cancelling", "command_error", "error",
                         "initialized", "dataset_disposed", "resource_stats", "shutdown_complete"},
           NEW id \in 0..MaxId
    PROVE  Event(type, id) \in EventRecords
<1>1. type \in EventTypes /\ type # "complete"
  BY DEF EventTypes, TerminalTypes, ResponseTypes
<1> QED BY <1>1, BoundsAssumption DEF Event, EventRecords

\* The end of a job clears it.
LEMMA EndsTyped ==
    ASSUME PortTyped, JobTyped, NEW type \in {"cancelled", "import_error"}, Ends(type)
    PROVE  JobTyped' /\ events' \in Seq(EventRecords)
<1>1. job.id \in 0..MaxId
  BY DEF JobTyped, JobRecords
<1>2. Event(type, job.id) \in EventRecords
  BY <1>1, EventTyped
<1>3. JobTyped'
  BY BoundsAssumption, WorkerAssumption DEF Ends, JobTyped, JobRecords, NoJob
<1> QED BY <1>2, <1>3, PostedTyped DEF PortTyped, Ends

\* The catch block leaves a job that ends, or one that is reclaimed.
LEMMA ThrowsTyped ==
    ASSUME PortTyped, JobTyped, job.id # 0, Throws
    PROVE  JobTyped' /\ events' \in Seq(EventRecords)
<1> DEFINE type == IF job.cancel = "no" THEN "import_error" ELSE "cancelled"
<1>1. CASE job.importHandle = 0
  BY <1>1, EndsTyped DEF Throws
<1>2. CASE job.importHandle # 0
  BY <1>2 DEF Throws, PortTyped, JobTyped, JobRecords, RuntimeAwaits
<1> QED BY <1>1, <1>2

\* An await that ends leaves a job that goes on, or the catch block's.
LEMMA ContinuesTyped ==
    ASSUME PortTyped, JobTyped, job.id # 0,
           NEW await \in {"reading", "beginning", "stepping"}, ContinuesTo(await)
    PROVE  JobTyped' /\ events' \in Seq(EventRecords)
<1>1. CASE job.cancel # "no"
  BY <1>1, ThrowsTyped DEF ContinuesTo
<1>2. CASE job.cancel = "no"
  <2>1. await \in RuntimeAwaits \cup {"idle", "reading", "yielding"} /\ 0 \in 0..MaxId
    BY BoundsAssumption DEF RuntimeAwaits
  <2>2. job' = [job EXCEPT !.at = await, !.releases = 0] /\ events' = events
    BY <1>2 DEF ContinuesTo
  <2>3. job' \in JobRecords /\ job'.id = job.id
    BY <2>1, <2>2 DEF JobTyped, JobRecords
  <2> QED BY <2>2, <2>3 DEF PortTyped, JobTyped
<1> QED BY <1>1, <1>2

-----------------------------------------------------------------------------
\* One lemma for each coroutine of the worker.

\* What the worker does on a command keeps its types and the port's.
LEMMA HandleCommandTyped ==
    ASSUME PortTyped, WorkerTyped, HandleCommand
    PROVE  PortTyped' /\ WorkerTyped'
<1> USE BoundsAssumption, WorkerAssumption DEF WorkerTyped
<1> DEFINE command == Head(commands)
<1>0. \A e \in EventRecords : Posted(e) \in Seq(EventRecords)
  BY PostedTyped DEF PortTyped
<1>1. CASE HandleInitialize
  BY <1>1, HandledTyped DEF HandleInitialize, PortTyped, JobTyped, StoreTyped, QueriesTyped,
     ControlTyped, runtimeVars
<1>2. CASE HandleStartImport
  <2>1. command.id \in Ids /\ commands' \in Seq(CommandRecords)
    BY <1>2, HandledTyped DEF HandleStartImport, CommandRecords
  <2>2. Event("import_error", command.id) \in EventRecords
    BY <2>1, EventTyped DEF Ids
  <2>3. JobTyped' /\ events' \in Seq(EventRecords)
    <3>1. CASE job.id # 0 \/ shuttingDown
      BY <1>0, <1>2, <2>2, <3>1 DEF HandleStartImport, JobTyped
    <3>2. CASE ~(job.id # 0 \/ shuttingDown)
      <4>1. job' = [NoJob EXCEPT !.id = command.id, !.at = "starting"] /\ events' = events
        BY <1>2, <3>2 DEF HandleStartImport
      <4>2. NoJob \in JobRecords
        BY DEF JobRecords, NoJob
      <4>3. command.id \in 0..MaxId /\ command.id # 0 /\ "starting" \in RuntimeAwaits
        BY <2>1 DEF Ids, RuntimeAwaits
      <4>4. job' \in JobRecords /\ job'.id # 0
        BY <4>1, <4>2, <4>3 DEF JobRecords
      <4> QED BY <4>1, <4>4 DEF JobTyped, PortTyped
    <3> QED BY <3>1, <3>2
  <2> QED BY <1>2, <2>1, <2>3 DEF HandleStartImport, PortTyped, StoreTyped, QueriesTyped,
             ControlTyped, runtimeVars
<1>3. CASE HandleCancelImport
  <2>1. command.id \in Ids /\ commands' \in Seq(CommandRecords)
    BY <1>3, HandledTyped DEF HandleCancelImport, CommandRecords
  <2>2. Event("cancelling", command.id) \in EventRecords
    BY <2>1, EventTyped DEF Ids
  <2>3. events' \in Seq(EventRecords)
    BY <1>0, <1>3, <2>2 DEF HandleCancelImport, PortTyped
  <2>4. JobTyped'
    BY <1>3, <2>1 DEF HandleCancelImport, JobTyped, JobRecords, Ids
  <2> QED BY <1>3, <2>1, <2>3, <2>4 DEF HandleCancelImport, PortTyped, StoreTyped, QueriesTyped,
             ControlTyped, runtimeVars
<1>4. CASE HandleQuery
  <2>1. /\ command.id \in Ids /\ command.generation \in 0..MaxGenerations
        /\ commands' \in Seq(CommandRecords)
    BY <1>4, HandledTyped DEF HandleQuery, CommandRecords
  <2>2. QueryEvent("query_error", command.id, command.generation, 0) \in EventRecords
    BY <2>1 DEF QueryEvent, EventRecords, EventTypes, Ids
  <2>3. events' \in Seq(EventRecords)
    BY <1>0, <1>4, <2>2 DEF HandleQuery, PortTyped
  <2>4. QueriesTyped'
    <3> DEFINE query == [id |-> command.id, generation |-> command.generation,
                         dataset |-> liveDataset]
    <3>1. CASE queries' = queries
      BY <3>1 DEF QueriesTyped
    <3>2. CASE /\ Cardinality(queries) < MaxActiveQueries
               /\ QueryContext(command.generation) = "current"
               /\ queries' = queries \cup {query}
      <4>1. liveDataset # NoDataset /\ liveDataset.generation = command.generation
        BY <3>2 DEF QueryContext
      <4>2. liveDataset \in [generation : Generations, handle : Ids]
        BY <4>1 DEF StoreTyped, Generations, Ids
      <4>3. query \in [id : Ids, generation : Generations,
                       dataset : [generation : Generations, handle : Ids]]
        BY <2>1, <4>1, <4>2
      <4>4. IsFiniteSet(queries) /\ Cardinality(queries) \in Nat
        BY FS_CardinalityType DEF QueriesTyped
      <4>5. /\ IsFiniteSet(queries')
            /\ \/ Cardinality(queries') = Cardinality(queries)
               \/ Cardinality(queries') = Cardinality(queries) + 1
        <5> HIDE DEF query
        <5> QED BY <3>2, <4>4, FS_AddElement
      <4>6. Cardinality(queries') <= MaxActiveQueries
        <5> HIDE DEF query
        <5> QED BY <3>2, <4>4, <4>5
      <4>7. queries' \subseteq [id : Ids, generation : Generations,
                               dataset : [generation : Generations, handle : Ids]]
        <5> HIDE DEF query
        <5> QED BY <3>2, <4>3 DEF QueriesTyped
      <4> QED BY <4>5, <4>6, <4>7 DEF QueriesTyped
    <3> QED BY <1>4, <3>1, <3>2 DEF HandleQuery
  <2> QED BY <1>4, <2>1, <2>3, <2>4 DEF HandleQuery, PortTyped, JobTyped, StoreTyped,
             ControlTyped, runtimeVars
<1>5. CASE HandleResourceStats
  <2>1. command.id \in Ids /\ commands' \in Seq(CommandRecords)
    BY <1>5, HandledTyped DEF HandleResourceStats, CommandRecords
  <2>2. /\ Event("resource_stats", command.id) \in EventRecords
        /\ Event("command_error", command.id) \in EventRecords
    BY <2>1, EventTyped DEF Ids
  <2> QED BY <1>0, <1>5, <2>1, <2>2 DEF HandleResourceStats, PortTyped, JobTyped, StoreTyped,
             QueriesTyped, ControlTyped, workerVars
<1>6. CASE HandleDisposeDataset
  <2>1. command.id \in Ids /\ commands' \in Seq(CommandRecords)
    BY <1>6, HandledTyped DEF HandleDisposeDataset, CommandRecords
  <2>2. /\ Event("dataset_disposed", command.id) \in EventRecords
        /\ Event("command_error", command.id) \in EventRecords
    BY <2>1, EventTyped DEF Ids
  <2>3. events' \in Seq(EventRecords)
    BY <1>0, <1>6, <2>2 DEF HandleDisposeDataset, PortTyped
  <2>4. StoreTyped'
    BY <1>6 DEF HandleDisposeDataset, StoreTyped, runtimeVars, NoDataset
  <2>5. ControlTyped'
    <3>1. CASE disposals' = disposals
      BY <1>6, <3>1 DEF HandleDisposeDataset, ControlTyped
    <3>2. CASE liveDataset # NoDataset /\ disposals' = disposals \cup
                    {[id |-> command.id, handle |-> liveDataset.handle]}
      <4>1. liveDataset.handle \in Ids
        BY <3>2 DEF StoreTyped, Ids
      <4> QED BY <1>6, <2>1, <3>2, <4>1 DEF HandleDisposeDataset, ControlTyped
    <3> QED BY <1>6, <3>1, <3>2 DEF HandleDisposeDataset
  <2> QED BY <1>6, <2>1, <2>3, <2>4, <2>5 DEF HandleDisposeDataset, PortTyped, JobTyped,
             QueriesTyped
<1>7. CASE HandleShutdown
  <2>1. command.id \in Ids /\ commands' \in Seq(CommandRecords)
    BY <1>7, HandledTyped DEF HandleShutdown, CommandRecords
  <2>2. JobTyped'
    BY <1>7 DEF HandleShutdown, JobTyped, JobRecords
  <2>3. ControlTyped'
    BY <1>7, <2>1 DEF HandleShutdown, ControlTyped, Ids
  <2> QED BY <1>7, <2>1, <2>2, <2>3 DEF HandleShutdown, PortTyped, StoreTyped, QueriesTyped,
             runtimeVars
<1> QED BY <1>1, <1>2, <1>3, <1>4, <1>5, <1>6, <1>7 DEF HandleCommand

\* Every await of runImport, and its catch and finally blocks, keep the types.
LEMMA ImportStepTyped ==
    ASSUME PortTyped, WorkerTyped, ImportStep
    PROVE  PortTyped' /\ WorkerTyped'
<1> USE BoundsAssumption, WorkerAssumption DEF WorkerTyped
<1>0. /\ \A e \in EventRecords : Posted(e) \in Seq(EventRecords)
      /\ job.at # "idle" => job.id \in Ids
  BY PostedTyped DEF PortTyped, JobTyped, JobRecords, NoJob, Ids
<1>1. CASE CheckSelection
  <2>1. job.id # 0
    BY <1>0, <1>1 DEF CheckSelection, Awaits, Ids
  <2>2. JobTyped' /\ events' \in Seq(EventRecords)
    <3>1. CASE Throws
      BY <2>1, <3>1, ThrowsTyped
    <3>2. CASE /\ events' = events
               /\ job' = [job EXCEPT !.at = IF liveDataset = NoDataset THEN "reading" ELSE "releasing",
                                     !.releases = liveDataset.handle]
      <4> DEFINE at == IF liveDataset = NoDataset THEN "reading" ELSE "releasing"
      <4>1. at \in RuntimeAwaits \cup {"idle", "reading", "yielding"} /\ liveDataset.handle \in 0..MaxId
        BY DEF RuntimeAwaits, StoreTyped
      <4>2. job' \in JobRecords /\ job'.id # 0
        <5> HIDE DEF at
        <5> QED BY <2>1, <3>2, <4>1 DEF JobTyped, JobRecords, at
      <4> QED BY <3>2, <4>2 DEF JobTyped, PortTyped
    <3> QED BY <1>1, <3>1, <3>2 DEF CheckSelection
  <2>3. StoreTyped'
    BY <1>1 DEF CheckSelection, StoreTyped, NoDataset, runtimeVars
  <2> QED BY <1>1, <2>2, <2>3 DEF CheckSelection, importUnchanged, PortTyped, QueriesTyped,
             ControlTyped
<1>2. CASE ReleasePrevious
  <2>1. JobTyped' /\ events' \in Seq(EventRecords)
    BY <1>0, <1>2, ThrowsTyped, ContinuesTyped DEF ReleasePrevious, Awaits, Ids
  <2> QED BY <1>2, <2>1 DEF ReleasePrevious, importUnchanged, PortTyped, StoreTyped, QueriesTyped,
             ControlTyped
<1>3. CASE ReadCapture
  <2>1. JobTyped' /\ events' \in Seq(EventRecords)
    BY <1>0, <1>3, ThrowsTyped, ContinuesTyped DEF ReadCapture, AwaitsTurn, Ids
  <2> QED BY <1>3, <2>1 DEF ReadCapture, importUnchanged, PortTyped, StoreTyped, QueriesTyped,
             ControlTyped, runtimeVars
<1>4. CASE BeginImport
  <2>1. job.id \in Ids
    BY <1>0, <1>4 DEF BeginImport, Awaits
  <2>2. JobTyped' /\ events' \in Seq(EventRecords)
    <3>1. CASE Throws
      BY <2>1, <3>1, ThrowsTyped DEF Ids
    <3>2. ASSUME NEW steps \in 0..MaxSteps, events' = events,
                 job' = IF job.cancel = "no"
                        THEN [job EXCEPT !.at = "stepping", !.importHandle = job.id, !.left = steps]
                        ELSE [job EXCEPT !.at = "reclaiming", !.importHandle = job.id,
                                         !.ends = "cancelled"]
          PROVE  JobTyped' /\ events' \in Seq(EventRecords)
      <4>1. {"stepping", "reclaiming"} \subseteq RuntimeAwaits /\ job.id \in 0..MaxId /\ job.id # 0
        BY <2>1 DEF RuntimeAwaits, Ids
      <4>2. job' \in JobRecords /\ job'.id # 0
        BY <3>2, <4>1 DEF JobTyped, JobRecords
      <4> QED BY <3>2, <4>2 DEF JobTyped, PortTyped
    <3> QED BY <1>4, <3>1, <3>2 DEF BeginImport
  <2> QED BY <1>4, <2>1, <2>2 DEF BeginImport, importUnchanged, PortTyped, StoreTyped,
             QueriesTyped, ControlTyped
<1>5. CASE StepImport
  <2>1. JobTyped' /\ events' \in Seq(EventRecords)
    <3>1. CASE Throws
      BY <1>0, <1>5, <3>1, ThrowsTyped DEF StepImport, Awaits, Ids
    <3>2. CASE job.left > 0 /\ job' = [job EXCEPT !.at = "yielding", !.left = @ - 1] /\ events' = events
      <4>1. job.left \in 0..MaxSteps /\ job.left - 1 \in 0..MaxSteps
        BY <3>2 DEF JobTyped, JobRecords
      <4>2. job' \in JobRecords /\ job'.id = job.id
        BY <3>2, <4>1 DEF JobTyped, JobRecords
      <4> QED BY <1>0, <1>5, <3>2, <4>2 DEF StepImport, Awaits, JobTyped, PortTyped, Ids
    <3> QED BY <1>5, <3>1, <3>2 DEF StepImport
  <2> QED BY <1>5, <2>1 DEF StepImport, importUnchanged, PortTyped, StoreTyped, QueriesTyped,
             ControlTyped, runtimeVars
<1>6. CASE CompleteImport
  <2>1. job.id \in Ids
    BY <1>0, <1>6 DEF CompleteImport, Awaits
  <2>2. StoreTyped'
    <3>1. runtimeImports' \subseteq Ids /\ runtimeDatasets' \subseteq Ids
      BY <1>6, <2>1 DEF CompleteImport, StoreTyped
    <3>2. CASE nextGeneration > MaxGenerations
      BY <1>6, <3>1, <3>2 DEF CompleteImport, StoreTyped
    <3>3. CASE ~(nextGeneration > MaxGenerations)
      <4>1. /\ liveDataset' = [generation |-> nextGeneration, handle |-> job.id]
            /\ nextGeneration' = nextGeneration + 1
        BY <1>6, <3>3 DEF CompleteImport
      <4> QED BY <2>1, <3>1, <3>3, <4>1 DEF StoreTyped, Ids
    <3> QED BY <3>2, <3>3
  <2>3. JobTyped' /\ events' \in Seq(EventRecords)
    <3>1. CASE nextGeneration > MaxGenerations
      <4>1. job' = [job EXCEPT !.at = "discarding", !.importHandle = 0] /\ events' = events
        BY <1>6, <3>1 DEF CompleteImport
      <4>2. "discarding" \in RuntimeAwaits /\ 0 \in 0..MaxId
        BY DEF RuntimeAwaits
      <4>3. job' \in JobRecords /\ job'.id = job.id
        BY <4>1, <4>2 DEF JobTyped, JobRecords
      <4> QED BY <2>1, <4>1, <4>3 DEF JobTyped, PortTyped, Ids
    <3>2. CASE ~(nextGeneration > MaxGenerations)
      <4>1. QueryEvent("complete", job.id, nextGeneration, job.id) \in EventRecords
        BY <2>1, <3>2 DEF QueryEvent, EventRecords, EventTypes, TerminalTypes, Ids, StoreTyped
      <4>2. events' \in Seq(EventRecords)
        BY <1>0, <1>6, <3>2, <4>1 DEF CompleteImport
      <4>3. JobTyped'
        BY <1>6, <3>2 DEF CompleteImport, JobTyped, JobRecords, NoJob
      <4> QED BY <4>2, <4>3
    <3> QED BY <3>1, <3>2
  <2> QED BY <1>6, <2>2, <2>3 DEF CompleteImport, importUnchanged, PortTyped, QueriesTyped,
             ControlTyped
<1>7. CASE DiscardDataset
  <2>1. JobTyped' /\ events' \in Seq(EventRecords)
    BY <1>0, <1>7, ThrowsTyped DEF DiscardDataset, Awaits, Ids
  <2> QED BY <1>7, <2>1 DEF DiscardDataset, importUnchanged, PortTyped, StoreTyped, QueriesTyped,
             ControlTyped
<1>8. CASE Resume
  <2>1. JobTyped' /\ events' \in Seq(EventRecords)
    BY <1>0, <1>8, ContinuesTyped DEF Resume, AwaitsTurn, Ids
  <2> QED BY <1>8, <2>1 DEF Resume, importUnchanged, PortTyped, StoreTyped, QueriesTyped,
             ControlTyped, runtimeVars
<1>9. CASE Reclaim
  <2>1. job.ends \in {"cancelled", "import_error"} /\ job.id \in 0..MaxId /\ job.id # 0
    BY <1>0, <1>9 DEF Reclaim, Awaits, JobTyped, JobRecords, Ids
  <2>2. Event("import_error", job.id) \in EventRecords
    BY <2>1, EventTyped
  <2>3. JobTyped' /\ events' \in Seq(EventRecords)
    <3>1. CASE Ends(job.ends)
      BY <2>1, <3>1, EndsTyped
    <3>2. CASE events' = Posted(Event("import_error", job.id)) /\ job' = [job EXCEPT !.at = "closing"]
      <4>1. job' \in JobRecords /\ job'.id = job.id
        BY <3>2 DEF JobTyped, JobRecords, RuntimeAwaits
      <4> QED BY <1>0, <2>1, <2>2, <3>2, <4>1 DEF JobTyped
    <3> QED BY <1>9, <3>1, <3>2 DEF Reclaim
  <2> QED BY <1>9, <2>3 DEF Reclaim, importUnchanged, PortTyped, StoreTyped, QueriesTyped,
             ControlTyped
<1>10. CASE CloseAfterCleanupLoss
  <2>1. JobTyped'
    BY <1>10 DEF CloseAfterCleanupLoss, JobTyped, JobRecords, NoJob
  <2>2. StoreTyped'
    BY <1>10 DEF CloseAfterCleanupLoss, StoreTyped, NoDataset
  <2> QED BY <1>10, <2>1, <2>2 DEF CloseAfterCleanupLoss, PortTyped, QueriesTyped, ControlTyped
<1> QED BY <1>1, <1>2, <1>3, <1>4, <1>5, <1>6, <1>7, <1>8, <1>9, <1>10 DEF ImportStep

\* A packet query that goes on, answers or is dropped keeps the types.
LEMMA QueryStepTyped ==
    ASSUME PortTyped, WorkerTyped, QueryStep
    PROVE  PortTyped' /\ WorkerTyped'
<1> USE DEF WorkerTyped
<1>1. PICK query \in queries : FinishQuery(query)
  BY DEF QueryStep
<1>2. /\ query.id \in Ids /\ query.generation \in Generations
      /\ query.dataset.handle \in Ids
  BY DEF QueriesTyped
<1>3. events' \in Seq(EventRecords)
  <2>1. \A result \in QueryResults(query) :
            QueryEvent(result, query.id, query.generation, query.dataset.handle) \in EventRecords
    <3>1. QueryResults(query) \subseteq EventTypes \ {"complete"}
      BY DEF QueryResults, EventTypes, TerminalTypes, ResponseTypes
    <3> QED BY <1>2, <3>1, BoundsAssumption DEF QueryEvent, EventRecords, Ids, Generations
  <2> QED BY <1>1, <2>1, PostedTyped DEF FinishQuery, PortTyped
<1>4. QueriesTyped'
  <2>1. queries' = queries \ {query} /\ IsFiniteSet(queries)
    BY <1>1 DEF FinishQuery, QueriesTyped
  <2>2. IsFiniteSet(queries') /\ Cardinality(queries') = Cardinality(queries) - 1
    BY <2>1, FS_RemoveElement
  <2>3. Cardinality(queries) \in Nat
    BY <2>1, FS_CardinalityType
  <2> QED BY <2>1, <2>2, <2>3, WorkerAssumption DEF QueriesTyped
<1> QED BY <1>1, <1>3, <1>4 DEF FinishQuery, PortTyped, JobTyped, StoreTyped, ControlTyped,
           runtimeVars

\* A disposal that ends or fails keeps the types.
LEMMA DisposalStepTyped ==
    ASSUME PortTyped, WorkerTyped, DisposalStep
    PROVE  PortTyped' /\ WorkerTyped'
<1> USE DEF WorkerTyped
<1>1. PICK disposal \in disposals : FinishDisposal(disposal)
  BY DEF DisposalStep
<1>2. /\ Event("dataset_disposed", disposal.id) \in EventRecords
      /\ Event("command_error", disposal.id) \in EventRecords
  <2>1. disposal.id \in 0..MaxId
    BY DEF ControlTyped, Ids
  <2> QED BY <2>1, EventTyped
<1>3. events' \in Seq(EventRecords)
  BY <1>1, <1>2, PostedTyped DEF FinishDisposal, PortTyped
<1> QED BY <1>1, <1>3 DEF FinishDisposal, PortTyped, JobTyped, StoreTyped, QueriesTyped,
           ControlTyped

\* Every await of the shutdown, and its failure, keep the types.
LEMMA ShutdownStepTyped ==
    ASSUME PortTyped, WorkerTyped, ShutdownStep
    PROVE  PortTyped' /\ WorkerTyped'
<1> USE BoundsAssumption DEF WorkerTyped
<1>0. /\ \A e \in EventRecords : Posted(e) \in Seq(EventRecords)
      /\ Event("command_error", shutdown.id) \in EventRecords
      /\ Event("shutdown_complete", shutdown.id) \in EventRecords
  <2>1. shutdown.id \in 0..MaxId
    BY DEF ControlTyped
  <2> QED BY <2>1, PostedTyped, EventTyped DEF PortTyped
<1>1. CASE ReleaseForShutdown
  <2>1. StoreTyped'
    BY <1>1 DEF ReleaseForShutdown, StoreTyped, NoDataset, runtimeVars, shutdownUnchanged
  <2>2. ControlTyped'
    BY <1>1 DEF ReleaseForShutdown, ControlTyped, StoreTyped, shutdownUnchanged
  <2> QED BY <1>1, <2>1, <2>2 DEF ReleaseForShutdown, shutdownUnchanged, PortTyped, JobTyped,
             QueriesTyped
<1>2. CASE ReleasedForShutdown
  <2>1. events' \in Seq(EventRecords)
    BY <1>0, <1>2 DEF ReleasedForShutdown, ShutdownFails, PortTyped
  <2>2. ControlTyped'
    <3>1. shutdown' \in [id : 0..MaxId, at : {"idle", "work", "releasing", "stopping"},
                        releases : 0..MaxId]
      <4>1. CASE shutdown' = [shutdown EXCEPT !.at = "stopping", !.releases = 0]
        <5>1. shutdown \in [id : 0..MaxId, at : {"idle", "work", "releasing", "stopping"},
                            releases : 0..MaxId] /\ 0 \in 0..MaxId
          BY DEF ControlTyped
        <5> QED BY ONLY <4>1, <5>1
      <4>2. CASE shutdown' = NoShutdown
        BY <4>2 DEF NoShutdown
      <4> QED BY <1>2, <4>1, <4>2 DEF ReleasedForShutdown, ShutdownFails
    <3> QED BY <1>2, <3>1 DEF ReleasedForShutdown, ControlTyped, shutdownUnchanged
  <2>3. StoreTyped'
    BY <1>2 DEF ReleasedForShutdown, StoreTyped, shutdownUnchanged
  <2> QED BY <1>2, <2>1, <2>2, <2>3 DEF ReleasedForShutdown, shutdownUnchanged, PortTyped,
             JobTyped, QueriesTyped
<1>3. CASE StopRuntime
  <2>1. events' \in Seq(EventRecords)
    BY <1>0, <1>3 DEF StopRuntime, ShutdownFails, PortTyped
  <2>2. ControlTyped'
    BY <1>3 DEF StopRuntime, ShutdownFails, NoShutdown, ControlTyped, shutdownUnchanged
  <2>3. StoreTyped'
    BY <1>3 DEF StopRuntime, StoreTyped, runtimeVars, shutdownUnchanged
  <2>4. PortTyped'
    <3>1. worker' \in {"running", "closed"}
      BY <1>3 DEF StopRuntime, PortTyped
    <3>2. commands' \in Seq(CommandRecords)
      BY <1>3, EmptySeq DEF StopRuntime, PortTyped, runtimeVars
    <3> QED BY <2>1, <3>1, <3>2 DEF PortTyped
  <2>5. JobTyped' /\ QueriesTyped'
    BY <1>3 DEF StopRuntime, shutdownUnchanged, JobTyped, QueriesTyped
  <2> QED BY <2>2, <2>3, <2>4, <2>5
<1> QED BY <1>1, <1>2, <1>3 DEF ShutdownStep

\* Every step of the worker keeps the port and the worker typed.
LEMMA WorkerNextTyped ==
    ASSUME PortTyped, WorkerTyped, WorkerNext
    PROVE  PortTyped' /\ WorkerTyped'
<1>1. CASE LoadCapabilities
  <2>1. 1 \in 0..MaxId
    BY BoundsAssumption
  <2>2. events' \in Seq(EventRecords)
    BY <1>1, <2>1, EventTyped, PostedTyped DEF LoadCapabilities, PortTyped
  <2> QED BY <1>1, <2>2 DEF LoadCapabilities, PortTyped, WorkerTyped, JobTyped, StoreTyped,
             QueriesTyped, ControlTyped, runtimeVars
<1>2. CASE Crash
  <2>1. 0 \in 0..MaxId
    BY BoundsAssumption
  <2>2. events' \in Seq(EventRecords)
    BY <1>2, <2>1, EventTyped, PostedTyped DEF Crash, PortTyped
  <2> QED BY <1>2, <2>2 DEF Crash, PortTyped, WorkerTyped, JobTyped, StoreTyped,
             QueriesTyped, ControlTyped, workerVars
<1> QED BY <1>1, <1>2, HandleCommandTyped, ImportStepTyped, QueryStepTyped, DisposalStepTyped,
           ShutdownStepTyped DEF WorkerNext

-----------------------------------------------------------------------------
\* The client.

\* A command sent with a typed id keeps the queue of commands typed.
LEMMA SentTyped ==
    ASSUME PortTyped, NEW command \in CommandRecords
    PROVE  Sent(command) \in Seq(CommandRecords)
  BY DEF Sent, PortTyped

\* A call that is made takes an id there is.
LEMMA HasIdTyped ==
    ASSUME ClientTyped, HasId
    PROVE  nextId \in Ids /\ nextId + Waiting <= MaxId
<1>1. nextId \in 1..MaxId + 1 /\ Waiting \in 0..2
  BY DEF ClientTyped, ClientTypeOK, Waiting
<1>2. nextId + Waiting <= MaxId
  BY WaitingCount DEF HasId
<1> QED BY <1>1, <1>2, BoundsAssumption DEF Ids

\* A client that closes settles its promises and takes no more ids.
LEMMA ClosesTyped ==
    ASSUME PortTyped, ClientTyped, NEW byFailure \in BOOLEAN, Closes(byFailure)
    PROVE  worker' \in {"running", "closed"} /\ commands' \in Seq(CommandRecords) /\ ClientTyped'
<1>1. ClientTypeOK'
  <2>1. activeJobId' = 0 /\ 0 \in 0..MaxId
    BY BoundsAssumption DEF Closes
  <2>3. closed' \in BOOLEAN /\ startingImport' \in BOOLEAN /\ aborted' \in BOOLEAN
    BY Zenon DEF ClientTyped, ClientTypeOK, Closes
  <2>2. /\ ready' \in {"pending", "ready", "failed"}
        /\ shutdownCall' \in {"none", "waiting", "racing", "done"}
    BY DEF ClientTyped, ClientTypeOK, Closes
  <2> QED BY <2>1, <2>2, <2>3 DEF ClientTyped, ClientTypeOK, Closes
<1>2. Waiting' = 0 /\ nextId' = nextId
  BY DEF Waiting, Closes
<1>3. nextId' + Waiting' <= MaxId + 1
  BY <1>2, BoundsAssumption DEF ClientTyped, ClientTypeOK
<1> QED BY <1>1, <1>3 DEF ClientTyped, Closes

\* A request takes the next id.
LEMMA RequestTyped ==
    ASSUME PortTyped, ClientTyped, NEW type \in RequestTypes, Request(type), nextId \in Ids
    PROVE  /\ PortTyped'
           /\ requests' \subseteq [id : Ids, type : RequestTypes]
           /\ nextId' = nextId + 1
           /\ UNCHANGED <<closed, ready, startingImport, activeJobId, imports, aborted, summaries>>
<1>1. Command(type, nextId) \in CommandRecords
  BY BoundsAssumption DEF Command, CommandRecords, CommandTypes
<1>2. PortTyped'
  BY <1>1, SentTyped DEF Request, PortTyped
<1>3. requests' \subseteq [id : Ids, type : RequestTypes]
  BY DEF Request, ClientTyped, ClientTypeOK
<1> QED BY <1>2, <1>3 DEF Request

\* What a caller does.
LEMMA CallTyped ==
    ASSUME PortTyped, ClientTyped, Call
    PROVE  PortTyped' /\ ClientTyped'
<1> USE BoundsAssumption
<1>0. /\ nextId \in 1..MaxId + 1 /\ nextId + Waiting <= MaxId + 1
      /\ Waiting \in 0..2
  BY DEF ClientTyped, ClientTypeOK, Waiting
<1>1. CASE ImportCapture
  <2>1. Waiting' = Waiting + 1 /\ nextId' = nextId
    BY <1>1 DEF ImportCapture, Waiting
  <2>2. nextId' + Waiting' <= MaxId + 1
    BY <1>0, <1>1, <2>1, HasIdTyped DEF ImportCapture
  <2>3. ClientTypeOK'
    BY <1>1 DEF ImportCapture, ClientTyped, ClientTypeOK
  <2> QED BY <1>1, <2>2, <2>3 DEF ImportCapture, ClientTyped, PortTyped, portVars
<1>2. CASE CancelImport
  <2>1. Command("cancel_import", activeJobId) \in CommandRecords
    BY <1>2 DEF CancelImport, ClientTyped, ClientTypeOK, Command, CommandRecords, CommandTypes, Ids
  <2>2. PortTyped'
    BY <1>2, <2>1, SentTyped DEF CancelImport, PortTyped
  <2>3. Waiting' = Waiting
    BY <1>2 DEF CancelImport, clientVars, Waiting
  <2> QED BY <1>2, <2>2, <2>3 DEF CancelImport, clientVars, ClientTyped, ClientTypeOK
<1>3. CASE DisposeDataset
  <2>1. /\ PortTyped' /\ requests' \subseteq [id : Ids, type : RequestTypes] /\ nextId' = nextId + 1
        /\ UNCHANGED <<closed, ready, startingImport, activeJobId, imports, aborted, summaries>>
    BY <1>3, HasIdTyped, RequestTyped DEF DisposeDataset, RequestTypes
  <2>2. Waiting' = Waiting
    BY <1>3, <2>1 DEF DisposeDataset, Waiting
  <2>3. nextId' \in 1..MaxId + 1 /\ nextId' + Waiting' <= MaxId + 1
    BY <1>0, <1>3, <2>1, <2>2, HasIdTyped DEF DisposeDataset
  <2> QED BY <1>3, <2>1, <2>3 DEF DisposeDataset, ClientTyped, ClientTypeOK
<1>4. CASE ResourceStats
  <2>1. /\ PortTyped' /\ requests' \subseteq [id : Ids, type : RequestTypes] /\ nextId' = nextId + 1
        /\ UNCHANGED <<closed, ready, startingImport, activeJobId, imports, aborted, summaries>>
    BY <1>4, HasIdTyped, RequestTyped DEF ResourceStats, RequestTypes
  <2>2. Waiting' = Waiting
    BY <1>4, <2>1 DEF ResourceStats, Waiting
  <2>3. nextId' \in 1..MaxId + 1 /\ nextId' + Waiting' <= MaxId + 1
    BY <1>0, <1>4, <2>1, <2>2, HasIdTyped DEF ResourceStats
  <2> QED BY <1>4, <2>1, <2>3 DEF ResourceStats, ClientTyped, ClientTypeOK
<1>5. ASSUME NEW summary \in summaries, ReadPacket(summary.generation)
      PROVE  PortTyped' /\ ClientTyped'
  <2>1. nextId \in Ids /\ summary.generation \in Generations /\ nextId + Waiting <= MaxId
    BY <1>5, HasIdTyped DEF ReadPacket, ClientTyped, ClientTypeOK
  <2>2. Query(nextId, summary.generation) \in CommandRecords
    BY <2>1 DEF Query, CommandRecords, CommandTypes, Generations
  <2>3. PortTyped'
    BY <1>5, <2>2, SentTyped DEF ReadPacket, PortTyped
  <2>4. packetQueries' \subseteq [id : Ids, generation : Generations]
    BY <1>5, <2>1 DEF ReadPacket, ClientTyped, ClientTypeOK
  <2>5. Waiting' = Waiting /\ nextId' = nextId + 1
    BY <1>5 DEF ReadPacket, Waiting
  <2>6. nextId' \in 1..MaxId + 1 /\ nextId' + Waiting' <= MaxId + 1
    BY <1>0, <2>1, <2>5
  <2> QED BY <1>5, <2>3, <2>4, <2>6 DEF ReadPacket, ClientTyped, ClientTypeOK
<1>6. ASSUME NEW query \in packetQueries, AbortQuery(query)
      PROVE  PortTyped' /\ ClientTyped'
  <2>1. Waiting' = Waiting
    BY <1>6 DEF AbortQuery, Waiting
  <2> QED BY <1>6, <2>1 DEF AbortQuery, ClientTyped, ClientTypeOK, PortTyped, portVars
<1>7. CASE Shutdown
  <2>1. Waiting' = Waiting + 1 /\ nextId' = nextId
    BY <1>7 DEF Shutdown, Waiting
  <2>2. nextId' + Waiting' <= MaxId + 1
    BY <1>0, <1>7, <2>1, HasIdTyped DEF Shutdown
  <2>3. ClientTypeOK'
    BY <1>7 DEF Shutdown, ClientTyped, ClientTypeOK
  <2> QED BY <1>7, <2>2, <2>3 DEF Shutdown, ClientTyped, PortTyped, portVars
<1>8. CASE Terminate
  BY <1>8, ClosesTyped DEF Terminate, PortTyped
<1> QED BY <1>1, <1>2, <1>3, <1>4, <1>5, <1>6, <1>7, <1>8 DEF Call

\* What the client receives: a completed import names its dataset.
LEMMA ReceiveTyped ==
    ASSUME PortTyped, ClientTyped, Receive
    PROVE  PortTyped' /\ ClientTyped'
<1> DEFINE event == Head(events)
<1> USE BoundsAssumption
<1>0. /\ event \in EventRecords
      /\ events' \in Seq(EventRecords)
  <2>1. events # <<>> /\ events' = Tail(events)
    BY DEF Receive, ReceiveProgress, ReceiveTerminal, ReceiveAnswer, ReceiveFailure,
       ReceiveResponse, Receives
  <2> QED BY <2>1, HeadTailProperties DEF PortTyped
<1>1. CASE ReceiveProgress
  <2>1. Waiting' = Waiting
    BY <1>1 DEF ReceiveProgress, clientVars, Waiting
  <2> QED BY <1>0, <1>1, <2>1 DEF ReceiveProgress, clientVars, PortTyped, ClientTyped, ClientTypeOK
<1>2. CASE ReceiveTerminal
  <2>1. imports' \subseteq Ids /\ activeJobId' \in 0..MaxId /\ startingImport' \in BOOLEAN
    <3>1. 0 \in 0..MaxId
      OBVIOUS
    <3>2. imports' \subseteq imports /\ activeJobId' \in {activeJobId, 0}
      BY <1>2 DEF ReceiveTerminal
    <3>3. startingImport' \in {startingImport, FALSE}
      BY <1>2, Zenon DEF ReceiveTerminal
    <3>4. startingImport' \in BOOLEAN
      BY <3>3, Zenon DEF ClientTyped, ClientTypeOK
    <3> QED BY <3>1, <3>2, <3>4 DEF ClientTyped, ClientTypeOK
  <2>2. summaries' \subseteq [generation : Generations, dataset : Ids]
    <3>1. CASE summaries' = summaries
      BY <3>1 DEF ClientTyped, ClientTypeOK
    <3>2. CASE event.type = "complete" /\ summaries' = summaries \cup
                    {[generation |-> event.generation, dataset |-> event.dataset]}
      <4>1. event.generation \in Generations /\ event.dataset \in Ids
        BY <1>0, <3>2 DEF EventRecords, Generations, Ids
      <4> HIDE DEF event
      <4> QED BY <3>2, <4>1 DEF ClientTyped, ClientTypeOK
    <3> QED BY <1>2, <3>1, <3>2 DEF ReceiveTerminal
  <2>3. nextId' = nextId /\ nextId + Waiting' <= MaxId + 1
    <3>1. Waiting' <= Waiting
      BY <1>2 DEF ReceiveTerminal, Waiting
    <3>2. Waiting \in 0..2 /\ Waiting' \in 0..2 /\ nextId \in 1..MaxId + 1
      BY DEF Waiting, ClientTyped, ClientTypeOK
    <3> QED BY <1>2, <3>1, <3>2 DEF ReceiveTerminal, ClientTyped
  <2>4. ClientTypeOK'
    BY <1>2, <2>1, <2>2 DEF ReceiveTerminal, ClientTyped, ClientTypeOK
  <2> QED BY <1>0, <1>2, <2>3, <2>4 DEF ReceiveTerminal, PortTyped, ClientTyped
<1>3. CASE ReceiveAnswer
  <2>1. CASE Closes(TRUE)
    BY <1>0, <2>1, ClosesTyped DEF PortTyped
  <2>2. CASE /\ packetQueries' = {query \in packetQueries : query.id # event.id}
             /\ UNCHANGED <<worker, commands, closed, ready, nextId, startingImport, activeJobId,
                            imports, requests, shutdownCall, aborted, summaries>>
    <3>1. Waiting' = Waiting /\ packetQueries' \subseteq packetQueries
      BY <2>2 DEF Waiting
    <3> QED BY <1>0, <2>2, <3>1 DEF PortTyped, ClientTyped, ClientTypeOK
  <2> QED BY <1>3, <2>1, <2>2 DEF ReceiveAnswer
<1>4. CASE ReceiveFailure
  BY <1>0, <1>4, ClosesTyped DEF ReceiveFailure, PortTyped
<1>5. CASE ReceiveResponse
  <2>1. CASE Closes(TRUE) \/ Closes(FALSE)
    BY <1>0, <2>1, ClosesTyped DEF PortTyped
  <2>2. CASE ~(Closes(TRUE) \/ Closes(FALSE))
    <3>1. /\ requests' \subseteq requests
          /\ ready' \in {ready, "ready", "failed"}
          /\ UNCHANGED <<worker, commands, closed, nextId, startingImport, activeJobId, imports,
                         packetQueries, shutdownCall, aborted, summaries>>
      BY <1>5, <2>2 DEF ReceiveResponse
    <3>2. Waiting' = Waiting
      BY <3>1 DEF Waiting
    <3> QED BY <1>0, <3>1, <3>2 DEF PortTyped, ClientTyped, ClientTypeOK
  <2> QED BY <2>1, <2>2
<1> QED BY <1>1, <1>2, <1>3, <1>4, <1>5 DEF Receive

\* Every step of the client keeps the port and the client typed.
LEMMA ClientNextTyped ==
    ASSUME PortTyped, ClientTyped, ClientNext
    PROVE  PortTyped' /\ ClientTyped'
<1> USE BoundsAssumption
<1>0. nextId \in 1..MaxId + 1 /\ nextId + Waiting <= MaxId + 1
  BY DEF ClientTyped, ClientTypeOK
<1>1. CASE StartImport
  <2>1. CASE ready = "ready"
    <3>1. Waiting \in 1..2 /\ nextId \in Ids
      BY <1>0, <1>1 DEF StartImport, Waiting, Ids
    <3>2. Command("start_import", nextId) \in CommandRecords
      BY <3>1 DEF Command, CommandRecords, CommandTypes
    <3>3. PortTyped'
      BY <1>1, <2>1, <3>2, SentTyped DEF StartImport, PortTyped
    <3>4. Waiting' = Waiting - 1 /\ nextId' = nextId + 1
      BY <1>1, <2>1, <3>1 DEF StartImport, Waiting, Ids
    <3>5. nextId' \in 1..MaxId + 1 /\ nextId' + Waiting' <= MaxId + 1
      BY <1>0, <3>1, <3>4 DEF Ids
    <3>6. activeJobId' \in 0..MaxId /\ imports' \subseteq Ids
      <4>1. activeJobId' = nextId /\ imports' = imports \cup {nextId}
        BY <1>1, <2>1 DEF StartImport
      <4>2. nextId \in 0..MaxId
        BY <3>1 DEF Ids
      <4> QED BY <3>1, <4>1, <4>2 DEF ClientTyped, ClientTypeOK
    <3> QED BY <1>1, <2>1, <3>3, <3>5, <3>6 DEF StartImport, ClientTyped, ClientTypeOK
  <2>2. CASE ready # "ready"
    <3>1. Waiting \in 1..2 /\ Waiting' = Waiting - 1
      <4>1. startingImport /\ activeJobId = 0 /\ ~startingImport' /\ shutdownCall' = shutdownCall
        BY <1>1, <2>2 DEF StartImport
      <4>2. CASE shutdownCall = "waiting"
        BY <4>1, <4>2 DEF Waiting
      <4>3. CASE shutdownCall # "waiting"
        BY <4>1, <4>3 DEF Waiting
      <4> QED BY <4>2, <4>3
    <3>2. nextId' = nextId
      BY <1>1, <2>2 DEF StartImport
    <3>3. nextId' + Waiting' <= MaxId + 1
      BY <1>0, <3>1, <3>2
    <3> QED BY <1>1, <2>2, <3>2, <3>3 DEF StartImport, PortTyped, ClientTyped, ClientTypeOK
  <2> QED BY <2>1, <2>2
<1>2. CASE RequestShutdown
  <2>1. Waiting \in 1..2 /\ nextId \in Ids
    BY <1>0, <1>2 DEF RequestShutdown, Waiting, Ids
  <2>2. /\ PortTyped' /\ requests' \subseteq [id : Ids, type : RequestTypes] /\ nextId' = nextId + 1
        /\ UNCHANGED <<closed, ready, startingImport, activeJobId, imports, aborted, summaries>>
    BY <1>2, <2>1, RequestTyped DEF RequestShutdown, RequestTypes
  <2>3. Waiting' = Waiting - 1
    BY <1>2, <2>2 DEF RequestShutdown, Waiting
  <2>4. nextId' \in 1..MaxId + 1 /\ nextId' + Waiting' <= MaxId + 1
    BY <1>0, <2>1, <2>2, <2>3 DEF Ids
  <2> QED BY <1>2, <2>2, <2>4 DEF RequestShutdown, ClientTyped, ClientTypeOK
<1>3. CASE Deadline
  BY <1>3, ClosesTyped DEF Deadline, PortTyped
<1> QED BY <1>1, <1>2, <1>3, CallTyped, ReceiveTyped DEF ClientNext

-----------------------------------------------------------------------------
\* No step of the worker, of the client or of a caller breaks the types.
LEMMA NextTyped == Typed /\ [Next]_vars => Typed'
<1> SUFFICES ASSUME Typed, [Next]_vars PROVE Typed'
  OBVIOUS
<1> USE DEF Typed
<1>1. CASE WorkerNext /\ UNCHANGED clientVars
  <2>1. ClientTyped'
    BY <1>1 DEF clientVars, ClientTyped, ClientTypeOK, Waiting
  <2> QED BY <1>1, <2>1, WorkerNextTyped
<1>2. CASE ClientNext /\ UNCHANGED workerVars
  <2>1. WorkerTyped'
    BY <1>2 DEF workerVars, WorkerTyped, JobTyped, StoreTyped, QueriesTyped, ControlTyped
  <2> QED BY <1>2, <2>1, ClientNextTyped
<1>3. CASE UNCHANGED vars
  BY <1>3 DEF vars, portVars, workerVars, clientVars, PortTyped, WorkerTyped, JobTyped, StoreTyped,
     QueriesTyped, ControlTyped, ClientTyped, ClientTypeOK, Waiting
<1> QED BY <1>1, <1>2, <1>3 DEF Next

\* The strengthened type invariant holds in every reachable state.
THEOREM TypedInvariant == Spec => []Typed
  BY InitTyped, NextTyped, PTL DEF Spec

\* Type correctness of the ingestion.
THEOREM IngestionTypeCorrect == Spec => []TypeOK
  BY TypedInvariant, TypedIsTypeOK, PTL

-----------------------------------------------------------------------------
\* A cancellation the worker took is respected. As built, no command is taken
\* while an import steps, so a job that steps was not cancelled when it began to;
\* and only a step publishes.

SteppingUncancelled == job.at = "stepping" => job.cancel = "no"

\* The catch block does not step on.
LEMMA ThrowsLeaves ==
    ASSUME JobTyped, Throws
    PROVE  job'.at # "stepping"
<1> DEFINE type == IF job.cancel = "no" THEN "import_error" ELSE "cancelled"
<1>1. CASE job.importHandle = 0
  <2>1. job' = NoJob
    BY <1>1 DEF Throws, Ends
  <2> QED BY <2>1 DEF NoJob
<1>2. CASE job.importHandle # 0
  <2>1. job' = [job EXCEPT !.at = "reclaiming", !.ends = type]
    BY <1>2 DEF Throws
  <2> HIDE DEF type
  <2> QED BY <2>1 DEF JobTyped, JobRecords
<1> QED BY <1>1, <1>2

\* What continues after an await was not cancelled.
LEMMA ContinuesUncancelled ==
    ASSUME JobTyped, NEW await, ContinuesTo(await)
    PROVE  SteppingUncancelled'
<1>1. CASE job.cancel # "no"
  BY <1>1, ThrowsLeaves DEF ContinuesTo, SteppingUncancelled
<1>2. CASE job.cancel = "no"
  <2>1. job' = [job EXCEPT !.at = await, !.releases = 0]
    BY <1>2 DEF ContinuesTo
  <2>2. job'.cancel = "no"
    BY <1>2, <2>1 DEF JobTyped, JobRecords
  <2> QED BY <2>2 DEF SteppingUncancelled
<1> QED BY <1>1, <1>2

\* No command is taken while an import steps, and none publishes.
LEMMA HandleCommandRespects ==
    ASSUME ~RuntimeSuspends, JobTyped, HandleCommand
    PROVE  SteppingUncancelled' /\ liveDataset' \in {liveDataset, NoDataset}
<1>1. job.at # "stepping"
  BY DEF HandleCommand, HandleInitialize, HandleStartImport, HandleCancelImport, HandleQuery,
     HandleResourceStats, HandleDisposeDataset, HandleShutdown, Handles, NewTurn,
     MicrotasksLeft, RuntimeAwaits
<1>2. CASE HandleStartImport
  BY <1>1, <1>2 DEF HandleStartImport, NoJob, SteppingUncancelled
<1>3. CASE HandleCancelImport
  BY <1>1, <1>3 DEF HandleCancelImport, SteppingUncancelled, JobTyped, JobRecords
<1>4. CASE HandleShutdown
  BY <1>1, <1>4 DEF HandleShutdown, SteppingUncancelled, JobTyped, JobRecords
<1>5. CASE HandleInitialize \/ HandleQuery \/ HandleResourceStats \/ HandleDisposeDataset
  BY <1>1, <1>5 DEF HandleInitialize, HandleQuery, HandleResourceStats, HandleDisposeDataset,
     SteppingUncancelled, workerVars
<1> QED BY <1>2, <1>3, <1>4, <1>5 DEF HandleCommand

\* An import that was cancelled does not reach a step, and publishes nothing.
LEMMA ImportStepRespects ==
    ASSUME JobTyped, SteppingUncancelled, ImportStep
    PROVE  /\ SteppingUncancelled'
           /\ job.cancel # "no" => liveDataset' \in {liveDataset, NoDataset}
<1>1. CASE CheckSelection
  BY <1>1, ThrowsLeaves DEF CheckSelection, SteppingUncancelled, JobTyped, JobRecords
<1>2. CASE ReleasePrevious
  BY <1>2, ThrowsLeaves, ContinuesUncancelled DEF ReleasePrevious, SteppingUncancelled
<1>3. CASE ReadCapture
  BY <1>3, ThrowsLeaves, ContinuesUncancelled DEF ReadCapture, SteppingUncancelled
<1>4. CASE BeginImport
  <2>1. CASE Throws
    BY <1>4, <2>1, ThrowsLeaves DEF BeginImport, SteppingUncancelled
  <2>2. CASE ~Throws
    BY <1>4, <2>2 DEF BeginImport, SteppingUncancelled, JobTyped, JobRecords
  <2> QED BY <2>1, <2>2
<1>5. CASE StepImport
  BY <1>5, ThrowsLeaves DEF StepImport, SteppingUncancelled, JobTyped, JobRecords
<1>6. CASE CompleteImport
  <2>1. job.cancel = "no"
    BY <1>6 DEF CompleteImport, Awaits, SteppingUncancelled
  <2>2. \/ job' = [job EXCEPT !.at = "discarding", !.importHandle = 0]
        \/ job' = NoJob
    BY <1>6 DEF CompleteImport
  <2>3. job'.at # "stepping"
    <3>1. CASE job' = [job EXCEPT !.at = "discarding", !.importHandle = 0]
      BY <3>1 DEF JobTyped, JobRecords
    <3>2. CASE job' = NoJob
      BY <3>2 DEF NoJob
    <3> QED BY <2>2, <3>1, <3>2
  <2> QED BY <2>1, <2>3 DEF SteppingUncancelled
<1>7. CASE DiscardDataset
  BY <1>7, ThrowsLeaves DEF DiscardDataset, SteppingUncancelled
<1>8. CASE Resume
  BY <1>8, ContinuesUncancelled DEF Resume, SteppingUncancelled
<1>9. CASE Reclaim
  BY <1>9 DEF Reclaim, Ends, NoJob, SteppingUncancelled, JobTyped, JobRecords
<1>10. CASE CloseAfterCleanupLoss
  BY <1>10 DEF CloseAfterCleanupLoss, NoJob, SteppingUncancelled
<1> QED BY <1>1, <1>2, <1>3, <1>4, <1>5, <1>6, <1>7, <1>8, <1>9, <1>10 DEF ImportStep

\* With runtime calls that end in their turn, a job that was told of its
\* cancellation is never within a step, and so never publishes.
LEMMA NextRespects ==
    ASSUME ~RuntimeSuspends, Typed, SteppingUncancelled, [Next]_vars
    PROVE  /\ SteppingUncancelled'
           /\ job.cancel # "no" => liveDataset' \in {liveDataset, NoDataset}
<1>0. JobTyped
  BY DEF Typed, WorkerTyped
<1>1. CASE LoadCapabilities \/ QueryStep \/ DisposalStep \/ ShutdownStep \/ Crash
  BY <1>1 DEF LoadCapabilities, QueryStep, FinishQuery, DisposalStep, FinishDisposal, ShutdownStep,
     ReleaseForShutdown, ReleasedForShutdown, StopRuntime, shutdownUnchanged, Crash, workerVars,
     SteppingUncancelled
<1>2. CASE UNCHANGED workerVars
  BY <1>2 DEF workerVars, SteppingUncancelled
<1> QED BY <1>0, <1>1, <1>2, HandleCommandRespects, ImportStepRespects
        DEF Next, WorkerNext, vars

\* As the worker is built, an import it was told to cancel is never published.
THEOREM CancellationIsRespected ==
    ASSUME ~RuntimeSuspends
    PROVE  Spec => CancelledNeverPublishes
<1>1. Init => SteppingUncancelled
  BY DEF Init, WorkerInit, NoJob, SteppingUncancelled
<1>2. Typed /\ SteppingUncancelled /\ [Next]_vars => SteppingUncancelled'
  BY NextRespects
<1>3. Typed /\ SteppingUncancelled /\ [Next]_vars
        => (job.id # 0 /\ job.cancel # "no" => liveDataset' \in {liveDataset, NoDataset})
  BY NextRespects
<1> QED BY <1>1, <1>2, <1>3, TypedInvariant, PTL DEF Spec, CancelledNeverPublishes

-----------------------------------------------------------------------------
(***************************************************************************)
(* While the worker runs and no disposal of a dataset fails, every import  *)
(* and every dataset that lives in the runtime is answered for by the      *)
(* worker, and the other way round, for every number of jobs and queries.  *)
(***************************************************************************)

-----------------------------------------------------------------------------
\* The inductive invariant. That a disposal takes away exactly what it names
\* needs that no two of the worker's notes name one dataset, and that needs that
\* no job is begun under an id that is in use: the start commands on their way
\* carry ids of their own, and the shutdown is asked for once.

Owned == (HeldDatasets \cup {job.id}) \ {0}

Exact ==
    /\ runtimeImports = {job.importHandle} \ {0}
    /\ runtimeDatasets = HeldDatasets \ {0}

JobPhases ==
    /\ job.at = "idle" => job.id = 0
    /\ job.importHandle = IF job.at \in {"stepping", "yielding", "reclaiming", "closing"}
                          THEN job.id ELSE 0
    /\ job.releases # 0 => job.at = "releasing"
    /\ job.at \notin {"idle", "starting"} => liveDataset = NoDataset

ShutdownPhases ==
    /\ shutdown.at # "idle" => shuttingDown
    /\ shutdown.releases # 0 => shutdown.at = "releasing"
    /\ shutdown.at \in {"releasing", "stopping"} => job.id = 0 /\ liveDataset = NoDataset

Distinct ==
    /\ job.id # 0 => \A disposal \in disposals : disposal.handle # job.id
    /\ job.id # 0 => job.id \notin {liveDataset.handle, job.releases}
    /\ \A disposal \in disposals :
           disposal.handle \notin {liveDataset.handle, job.releases, shutdown.releases}
    /\ \A d, e \in disposals : d.handle = e.handle => d = e

StartsFresh ==
    /\ \A handle \in Owned : handle < nextId
    /\ \A n \in DOMAIN commands : commands[n].type = "start_import" =>
           commands[n].id < nextId /\ commands[n].id \notin Owned
    /\ \A m, n \in DOMAIN commands :
           /\ commands[m].type = "start_import" /\ commands[n].type = "start_import"
           /\ commands[m].id = commands[n].id
           => m = n

OneShutdown ==
    /\ \A m, n \in DOMAIN commands :
           commands[m].type = "shutdown" /\ commands[n].type = "shutdown" => m = n
    /\ \A n \in DOMAIN commands : commands[n].type = "shutdown" =>
           shutdown.at = "idle" /\ shutdownCall \notin {"none", "waiting"}
    /\ shutdown.at # "idle" => shutdownCall \notin {"none", "waiting"}

Custody == Exact /\ JobPhases /\ ShutdownPhases /\ Distinct /\ StartsFresh /\ OneShutdown

\* What is owned is named by ids.
LEMMA OwnedIsIds == Typed => Owned \subseteq Ids /\ job.id \in 0..MaxId
<1> SUFFICES ASSUME Typed PROVE Owned \subseteq Ids /\ job.id \in 0..MaxId
  OBVIOUS
<1>1. /\ job.id \in 0..MaxId /\ job.releases \in 0..MaxId
      /\ liveDataset.handle \in 0..MaxId /\ shutdown.releases \in 0..MaxId
      /\ \A disposal \in disposals : disposal.handle \in Ids
  BY DEF Typed, WorkerTyped, JobTyped, JobRecords, StoreTyped, ControlTyped
<1> QED BY <1>1, BoundsAssumption DEF Owned, HeldDatasets, Ids

\* Nothing lives in the runtime and the worker notes nothing.
LEMMA InitCustody == Init => Custody
<1> SUFFICES ASSUME Init PROVE Custody
  OBVIOUS
<1> USE DEF Init, WorkerInit, ClientInit, NoJob, NoShutdown, NoDataset, Command
<1>1. HeldDatasets = {0}
  BY DEF HeldDatasets
<1>2. Exact /\ Owned = {}
  BY <1>1 DEF Exact, Owned
<1>3. JobPhases /\ ShutdownPhases /\ Distinct
  BY DEF JobPhases, ShutdownPhases, Distinct
<1>4. \A n \in DOMAIN commands : commands[n].type = "initialize"
  OBVIOUS
<1>5. StartsFresh /\ OneShutdown
  BY <1>2, <1>4 DEF StartsFresh, OneShutdown
<1> QED BY <1>2, <1>3, <1>5 DEF Custody

-----------------------------------------------------------------------------
\* The commands.

\* A command that is taken leaves the others, one place further on.
LEMMA TakenShifts ==
    ASSUME PortTyped, NEW type, Handles(type)
    PROVE  /\ 1 \in DOMAIN commands /\ commands[1] = Head(commands)
           /\ commands[1].type = type /\ commands[1].id \in Ids
           /\ \A n \in DOMAIN commands' : /\ n + 1 \in DOMAIN commands /\ n + 1 # 1 /\ n \in Nat
                                          /\ commands'[n] = commands[n + 1]
<1>1. commands \in Seq(CommandRecords) /\ commands # <<>> /\ commands' = Tail(commands)
      /\ Head(commands).type = type
  BY DEF PortTyped, Handles
<1>2. Len(commands) \in Nat /\ Len(commands) > 0 /\ DOMAIN commands = 1..Len(commands)
  BY <1>1, LenProperties, EmptySeq
<1>3. commands[1] = Head(commands) /\ Head(commands) \in CommandRecords
  BY <1>1, HeadTailProperties
<1>4. commands[1].id \in Ids
  BY <1>3 DEF CommandRecords
<1>5. /\ DOMAIN commands' = 1..(Len(commands) - 1)
      /\ \A n \in 1..(Len(commands) - 1) : commands'[n] = commands[n + 1]
  BY <1>1, <1>2
<1> QED BY <1>1, <1>2, <1>3, <1>4, <1>5

\* What a step that takes no command keeps.
LEMMA InternalFresh ==
    ASSUME StartsFresh, OneShutdown, UNCHANGED <<commands, nextId, shutdownCall>>,
           Owned' \subseteq Owned, shutdown'.at # "idle" => shutdown.at # "idle"
    PROVE  StartsFresh' /\ OneShutdown'
  BY DEF StartsFresh, OneShutdown

\* What a step that takes one keeps: only the start of an import owns an id, its
\* own, and only a shutdown begins one.
LEMMA TakenFresh ==
    ASSUME PortTyped, StartsFresh, OneShutdown, NEW type, Handles(type),
           UNCHANGED <<nextId, shutdownCall>>,
           \/ Owned' \subseteq Owned
           \/ type = "start_import" /\ Owned' \subseteq Owned \cup {Head(commands).id},
           shutdown'.at # "idle" => shutdown.at # "idle" \/ type = "shutdown"
    PROVE  StartsFresh' /\ OneShutdown'
<1>1. /\ 1 \in DOMAIN commands /\ commands[1] = Head(commands) /\ commands[1].type = type
      /\ \A n \in DOMAIN commands' : /\ n + 1 \in DOMAIN commands /\ n + 1 # 1 /\ n \in Nat
                                     /\ commands'[n] = commands[n + 1]
  BY TakenShifts
<1>2. \A handle \in Owned' : handle < nextId'
  BY <1>1 DEF StartsFresh
<1>3. ASSUME NEW n \in DOMAIN commands', commands'[n].type = "start_import"
      PROVE  commands'[n].id < nextId' /\ commands'[n].id \notin Owned'
  BY <1>1, <1>3 DEF StartsFresh
<1>4. ASSUME NEW m \in DOMAIN commands', NEW n \in DOMAIN commands',
             commands'[m].type = "start_import", commands'[n].type = "start_import",
             commands'[m].id = commands'[n].id
      PROVE  m = n
  <2>1. m + 1 = n + 1
    BY <1>1, <1>4 DEF StartsFresh
  <2> QED BY <1>1, <2>1
<1>5. ASSUME NEW m \in DOMAIN commands', NEW n \in DOMAIN commands',
             commands'[m].type = "shutdown", commands'[n].type = "shutdown"
      PROVE  m = n
  <2>1. m + 1 = n + 1
    BY <1>1, <1>5 DEF OneShutdown
  <2> QED BY <1>1, <2>1
<1>6. ASSUME NEW n \in DOMAIN commands', commands'[n].type = "shutdown"
      PROVE  shutdown'.at = "idle" /\ shutdownCall' \notin {"none", "waiting"}
  <2>1. n + 1 \in DOMAIN commands /\ commands[n + 1].type = "shutdown" /\ n + 1 # 1
    BY <1>1, <1>6
  <2>2. type # "shutdown"
    BY <1>1, <2>1 DEF OneShutdown
  <2> QED BY <2>1, <2>2 DEF OneShutdown
<1>7. shutdown'.at # "idle" => shutdownCall' \notin {"none", "waiting"}
  BY <1>1 DEF OneShutdown
<1>8. StartsFresh'
  BY <1>2, <1>3, <1>4 DEF StartsFresh
<1>9. OneShutdown'
  BY <1>5, <1>6, <1>7 DEF OneShutdown
<1> QED BY <1>8, <1>9

-----------------------------------------------------------------------------
\* The worker takes a command.

custodyVars == <<job, liveDataset, disposals, shutdown, shuttingDown, runtimeImports, runtimeDatasets>>

\* A step that moves none of the worker's notes moves none of its goods.
LEMMA NotesStay ==
    ASSUME Exact, JobPhases, ShutdownPhases, Distinct, UNCHANGED custodyVars
    PROVE  Exact' /\ JobPhases' /\ ShutdownPhases' /\ Distinct' /\ Owned' = Owned
<1>1. HeldDatasets' = HeldDatasets /\ Owned' = Owned
  BY DEF custodyVars, HeldDatasets, Owned
<1> QED BY <1>1 DEF custodyVars, Exact, JobPhases, ShutdownPhases, Distinct

\* A start command begins a job under an id that nothing of the worker bears.
LEMMA HandleStartImportCustody ==
    ASSUME Typed, Custody, HandleStartImport, UNCHANGED clientVars
    PROVE  Custody'
<1> USE DEF Custody
<1> DEFINE id == Head(commands).id
<1>1. Handles("start_import") /\ PortTyped /\ JobTyped
  BY DEF HandleStartImport, Typed, WorkerTyped
<1>2. UNCHANGED <<nextId, shutdownCall, shutdown, liveDataset, disposals, shuttingDown,
                  runtimeImports, runtimeDatasets>>
  BY DEF HandleStartImport, runtimeVars, clientVars
<1>3. CASE job' = job
  <2>1. Exact' /\ JobPhases' /\ ShutdownPhases' /\ Distinct' /\ Owned' = Owned
    BY <1>2, <1>3, NotesStay DEF custodyVars
  <2> QED BY <1>1, <1>2, <2>1, TakenFresh
<1>4. CASE job.id = 0 /\ ~shuttingDown /\ job' = [NoJob EXCEPT !.id = id, !.at = "starting"]
  <2>1. job = NoJob
    BY <1>1, <1>4 DEF JobTyped
  <2>2. /\ job.releases = 0 /\ job'.releases = 0 /\ job.importHandle = 0 /\ job'.importHandle = 0
        /\ job.at = "idle" /\ job'.at = "starting" /\ job'.id = id
    BY <1>4, <2>1 DEF NoJob
  <2>3. HeldDatasets' = HeldDatasets
    BY <1>2, <2>2 DEF HeldDatasets
  <2>4. Owned' \subseteq Owned \cup {id}
    BY <2>2, <2>3 DEF Owned
  <2>5. id \in Ids /\ id \notin Owned
    BY <1>1, TakenShifts DEF StartsFresh
  <2>6. id \notin HeldDatasets /\ id # 0
    BY <2>5 DEF Owned, Ids
  <2>7. Distinct'
    BY <1>2, <2>2, <2>6 DEF Distinct, HeldDatasets
  <2>8. Exact' /\ JobPhases' /\ ShutdownPhases'
    BY <1>2, <1>4, <2>2, <2>3 DEF Exact, JobPhases, ShutdownPhases
  <2>9. StartsFresh' /\ OneShutdown'
    BY <1>1, <1>2, <2>4, TakenFresh
  <2> QED BY <2>7, <2>8, <2>9
<1> QED BY <1>3, <1>4 DEF HandleStartImport

\* The dataset passes from the live dataset to the disposal that names it.
LEMMA HandleDisposeDatasetCustody ==
    ASSUME Typed, Custody, HandleDisposeDataset, UNCHANGED clientVars
    PROVE  Custody'
<1> USE DEF Custody
<1> DEFINE disposal == [id |-> Head(commands).id, handle |-> liveDataset.handle]
<1>1. Handles("dispose_dataset") /\ PortTyped /\ JobTyped /\ StoreTyped
  BY DEF HandleDisposeDataset, Typed, WorkerTyped
<1>2. UNCHANGED <<nextId, shutdownCall, shutdown, job, shuttingDown, runtimeImports, runtimeDatasets>>
  BY DEF HandleDisposeDataset, runtimeVars, clientVars
<1>3. CASE UNCHANGED <<liveDataset, disposals>>
  <2>1. Exact' /\ JobPhases' /\ ShutdownPhases' /\ Distinct' /\ Owned' = Owned
    BY <1>2, <1>3, NotesStay DEF custodyVars
  <2> QED BY <1>1, <1>2, <2>1, TakenFresh
<1>4. CASE /\ job.id = 0 /\ liveDataset # NoDataset
           /\ disposals' = disposals \cup {disposal} /\ liveDataset' = NoDataset
  <2>1. job = NoJob /\ job.releases = 0 /\ liveDataset'.handle = 0
    BY <1>1, <1>4 DEF JobTyped, NoJob, NoDataset
  <2>2. shutdown.releases = 0 /\ liveDataset.handle # 0
    BY <1>1, <1>4 DEF ShutdownPhases, StoreTyped
  <2>3. HeldDatasets' \ {0} = HeldDatasets \ {0}
    <3>1. {d.handle : d \in disposals'} = {d.handle : d \in disposals} \cup {liveDataset.handle}
      <4>1. disposals' = disposals \cup {disposal} /\ disposal.handle = liveDataset.handle
        BY <1>4
      <4> HIDE DEF disposal
      <4> QED BY <4>1
    <3>2. HeldDatasets = {liveDataset.handle, 0, shutdown.releases} \cup {d.handle : d \in disposals}
      BY <2>1 DEF HeldDatasets, NoJob
    <3>3. HeldDatasets' = {0, shutdown.releases} \cup {d.handle : d \in disposals'}
      BY <1>2, <2>1 DEF HeldDatasets, NoJob
    <3> QED BY <3>1, <3>2, <3>3
  <2>4. Owned' \subseteq Owned
    BY <1>2, <2>3 DEF Owned
  <2>5. \A d \in disposals' : d.handle \notin {liveDataset'.handle, job'.releases, shutdown'.releases}
    BY <1>2, <1>4, <2>1, <2>2, OwnedIsIds DEF Distinct, Typed, WorkerTyped, ControlTyped, Ids
  <2>6. \A d, e \in disposals' : d.handle = e.handle => d = e
    BY <1>4 DEF Distinct
  <2>7. Distinct'
    BY <1>2, <1>4, <2>5, <2>6 DEF Distinct
  <2>8. Exact' /\ JobPhases' /\ ShutdownPhases'
    BY <1>2, <1>4, <2>3 DEF Exact, JobPhases, ShutdownPhases
  <2>9. StartsFresh' /\ OneShutdown'
    BY <1>1, <1>2, <2>4, TakenFresh
  <2> QED BY <2>7, <2>8, <2>9
<1> QED BY <1>3, <1>4 DEF HandleDisposeDataset

\* A shutdown begins once, and nothing is released by it yet.
LEMMA HandleShutdownCustody ==
    ASSUME Typed, Custody, HandleShutdown, UNCHANGED clientVars
    PROVE  Custody'
<1> USE DEF Custody
<1>1. Handles("shutdown") /\ PortTyped /\ JobTyped
  BY DEF HandleShutdown, Typed, WorkerTyped
<1>2. UNCHANGED <<nextId, shutdownCall, liveDataset, disposals, runtimeImports, runtimeDatasets>>
  BY DEF HandleShutdown, runtimeVars, clientVars
<1>3. shutdown.at = "idle" /\ shutdown.releases = 0
  BY <1>1, TakenShifts DEF OneShutdown, ShutdownPhases
<1>4. shutdown'.at = "work" /\ shutdown'.releases = 0 /\ shuttingDown'
  BY DEF HandleShutdown
<1>5. /\ job'.id = job.id /\ job'.at = job.at /\ job'.importHandle = job.importHandle
      /\ job'.releases = job.releases
  BY <1>1 DEF HandleShutdown, JobTyped, JobRecords
<1>6. HeldDatasets' = HeldDatasets /\ Owned' = Owned
  BY <1>2, <1>3, <1>4, <1>5 DEF HeldDatasets, Owned
<1>7. Exact' /\ JobPhases' /\ ShutdownPhases' /\ Distinct'
  BY <1>2, <1>3, <1>4, <1>5, <1>6 DEF Exact, JobPhases, ShutdownPhases, Distinct
<1>8. StartsFresh' /\ OneShutdown'
  BY <1>1, <1>2, <1>6, TakenFresh
<1> QED BY <1>7, <1>8

\* No command makes the worker forget a handle.
LEMMA HandleCommandCustody ==
    ASSUME Typed, Custody, HandleCommand, UNCHANGED clientVars
    PROVE  Custody'
<1> USE DEF Custody
<1>0. PortTyped /\ JobTyped /\ UNCHANGED <<nextId, shutdownCall>>
  BY DEF Typed, WorkerTyped, clientVars
<1>1. CASE HandleInitialize \/ HandleQuery \/ HandleResourceStats
  <2>1. UNCHANGED custodyVars
    BY <1>1 DEF HandleInitialize, HandleQuery, HandleResourceStats, workerVars, runtimeVars, custodyVars
  <2>2. Exact' /\ JobPhases' /\ ShutdownPhases' /\ Distinct' /\ Owned' = Owned
    BY <2>1, NotesStay
  <2>3. PICK type \in {"initialize", "query", "resource_stats"} : Handles(type)
    BY <1>1 DEF HandleInitialize, HandleQuery, HandleResourceStats
  <2> QED BY <1>0, <2>1, <2>2, <2>3, TakenFresh DEF custodyVars
<1>2. CASE HandleCancelImport
  <2>1. /\ job'.id = job.id /\ job'.at = job.at /\ job'.importHandle = job.importHandle
        /\ job'.releases = job.releases
    BY <1>0, <1>2 DEF HandleCancelImport, JobTyped, JobRecords
  <2>2. UNCHANGED <<liveDataset, disposals, shutdown, shuttingDown, runtimeImports, runtimeDatasets>>
    BY <1>2 DEF HandleCancelImport, runtimeVars
  <2>3. HeldDatasets' = HeldDatasets /\ Owned' = Owned
    BY <2>1, <2>2 DEF HeldDatasets, Owned
  <2>4. Exact' /\ JobPhases' /\ ShutdownPhases' /\ Distinct'
    BY <2>1, <2>2, <2>3 DEF Exact, JobPhases, ShutdownPhases, Distinct
  <2>5. Handles("cancel_import")
    BY <1>2 DEF HandleCancelImport
  <2> QED BY <1>0, <2>2, <2>3, <2>4, <2>5, TakenFresh
<1> QED BY <1>1, <1>2, HandleStartImportCustody, HandleDisposeDatasetCustody, HandleShutdownCustody
        DEF HandleCommand

-----------------------------------------------------------------------------
\* The import, from one await to the next.

\* A job that goes on, or gives up, without taking or leaving anything.
JobMoves ==
    /\ job'.id \in {0, job.id}
    /\ job'.releases = 0
    /\ job'.importHandle = job.importHandle
    /\ job'.at # "discarding"
    /\ JobPhases'

\* The catch block does.
LEMMA ThrowsMoves ==
    ASSUME JobTyped, JobPhases, Throws, job.at # "closing",
           UNCHANGED liveDataset
    PROVE  JobMoves
<1> DEFINE type == IF job.cancel = "no" THEN "import_error" ELSE "cancelled"
<1>1. CASE job.importHandle = 0
  <2>1. job' = NoJob
    BY <1>1 DEF Throws, Ends
  <2> QED BY <1>1, <2>1 DEF NoJob, JobMoves, JobPhases
<1>2. CASE job.importHandle # 0
  <2>1. job' = [job EXCEPT !.at = "reclaiming", !.ends = type]
    BY <1>2 DEF Throws
  <2>2. /\ job'.id = job.id /\ job'.at = "reclaiming" /\ job'.importHandle = job.importHandle
        /\ job'.releases = job.releases
    <3> HIDE DEF type
    <3> QED BY <2>1 DEF JobTyped, JobRecords
  <2>3. job.at \in {"stepping", "yielding", "reclaiming"} /\ job.importHandle = job.id
    BY <1>2 DEF JobPhases
  <2> QED BY <2>2, <2>3 DEF JobMoves, JobPhases
<1> QED BY <1>1, <1>2

\* So does an await that ends.
LEMMA ContinuesMoves ==
    ASSUME JobTyped, JobPhases, UNCHANGED liveDataset, NEW await, ContinuesTo(await),
           \/ await \in {"reading", "beginning"} /\ job.at \in {"releasing", "reading"}
           \/ await = "stepping" /\ job.at = "yielding"
    PROVE  JobMoves
<1>1. CASE job.cancel # "no"
  <2>1. Throws /\ job.at # "closing"
    BY <1>1 DEF ContinuesTo
  <2> QED BY <2>1, ThrowsMoves
<1>2. CASE job.cancel = "no"
  <2>1. job' = [job EXCEPT !.at = await, !.releases = 0]
    BY <1>2 DEF ContinuesTo
  <2>2. /\ job'.id = job.id /\ job'.at = await /\ job'.releases = 0
        /\ job'.importHandle = job.importHandle
    BY <2>1 DEF JobTyped, JobRecords
  <2> QED BY <2>2 DEF JobMoves, JobPhases
<1> QED BY <1>1, <1>2

\* What an import step leaves alone, and what follows of the rest while it runs.
ImportFrame ==
    /\ UNCHANGED <<commands, nextId, shutdownCall, disposals, shutdown>>
    /\ shuttingDown => shuttingDown'

\* While a job runs, a shutdown only waits for it.
LEMMA FrameShutdown ==
    ASSUME ShutdownPhases, job.id # 0, ImportFrame
    PROVE  ShutdownPhases' /\ shutdown.releases = 0
  BY DEF ShutdownPhases, ImportFrame

\* A job that moves, with the live dataset as it is, keeps what it must.
LEMMA MovesCustody ==
    ASSUME Typed, Custody, job.id # 0, ImportFrame, JobMoves, UNCHANGED liveDataset
    PROVE  /\ JobPhases' /\ ShutdownPhases' /\ Distinct' /\ StartsFresh' /\ OneShutdown'
           /\ HeldDatasets' = {liveDataset.handle, 0} \cup {d.handle : d \in disposals}
<1> USE DEF Custody
<1>1. ShutdownPhases' /\ shutdown.releases = 0
  BY FrameShutdown
<1>2. HeldDatasets' = {liveDataset.handle, 0} \cup {d.handle : d \in disposals}
  BY <1>1 DEF HeldDatasets, JobMoves, ImportFrame
<1>3. Owned' \subseteq Owned
  <2>1. {liveDataset.handle} \cup {d.handle : d \in disposals} \subseteq HeldDatasets
    BY DEF HeldDatasets
  <2> QED BY <1>2, <2>1 DEF Owned, JobMoves
<1>4. Distinct'
  <2>1. \A d \in disposals : d.handle # 0
    BY DEF Typed, WorkerTyped, ControlTyped, Ids
  <2> QED BY <1>1, <2>1 DEF Distinct, JobMoves, ImportFrame
<1>5. StartsFresh' /\ OneShutdown'
  BY <1>3, InternalFresh DEF ImportFrame
<1> QED BY <1>1, <1>2, <1>4, <1>5 DEF JobMoves

\* One step of the import. A disposal that cannot fail takes away the one thing
\* that is no longer held.
LEMMA ImportStepCustody ==
    ASSUME "release" \notin Faults, Typed, Custody, ImportStep, UNCHANGED clientVars,
           worker' = "running"
    PROVE  Custody'
<1> USE DEF Custody
<1> DEFINE handles == {d.handle : d \in disposals}
<1>0. JobTyped /\ StoreTyped /\ UNCHANGED <<nextId, shutdownCall>>
  BY DEF Typed, WorkerTyped, clientVars
<1>a. HeldDatasets = {liveDataset.handle, job.releases, shutdown.releases} \cup handles
                       \cup (IF job.at = "discarding" THEN {job.id} ELSE {})
  BY DEF HeldDatasets
<1>b. 0 \notin handles /\ (job.id # 0 => job.id \notin handles)
  BY DEF Distinct, Typed, WorkerTyped, ControlTyped, Ids
<1>1. CASE CheckSelection
  <2>1. job.at = "starting" /\ job.id # 0 /\ job.releases = 0 /\ job.importHandle = 0
    BY <1>0, <1>1 DEF CheckSelection, Awaits, JobTyped, NoJob, JobPhases
  <2>2. ImportFrame /\ UNCHANGED runtimeVars
    BY <1>0, <1>1 DEF CheckSelection, ImportFrame, importUnchanged
  <2>3. CASE Throws /\ UNCHANGED liveDataset
    <3>1. JobMoves
      BY <1>0, <2>1, <2>3, ThrowsMoves
    <3>2. Exact'
      <4>1. shutdown.releases = 0
        BY <2>1, <2>2, FrameShutdown
      <4>2. HeldDatasets' = {liveDataset.handle, 0} \cup handles
        BY <2>1, <2>2, <2>3, <3>1, MovesCustody
      <4> HIDE DEF handles
      <4> QED BY <1>a, <2>1, <2>2, <3>1, <4>1, <4>2 DEF Exact, JobMoves, runtimeVars
    <3> QED BY <2>1, <2>2, <2>3, <3>1, <3>2, MovesCustody
  <2>4. CASE /\ job' = [job EXCEPT !.at = IF liveDataset = NoDataset THEN "reading" ELSE "releasing",
                                   !.releases = liveDataset.handle]
             /\ liveDataset' = NoDataset
    <3> DEFINE at == IF liveDataset = NoDataset THEN "reading" ELSE "releasing"
    <3>1. /\ job'.id = job.id /\ job'.at = at /\ job'.importHandle = 0
          /\ job'.releases = liveDataset.handle /\ liveDataset'.handle = 0
      <4>1. job' = [job EXCEPT !.at = at, !.releases = liveDataset.handle]
        BY <2>4
      <4> HIDE DEF at
      <4> QED BY <1>0, <2>1, <2>4, <4>1 DEF JobTyped, JobRecords, NoDataset
    <3>2. shutdown.releases = 0 /\ ShutdownPhases'
      BY <2>1, <2>2, FrameShutdown
    <3>3. HeldDatasets' = {liveDataset.handle, 0} \cup handles
      BY <2>2, <3>1, <3>2 DEF HeldDatasets, ImportFrame
    <3>4. HeldDatasets' \ {0} = HeldDatasets \ {0} /\ Owned' \subseteq Owned
      <4> HIDE DEF handles
      <4> QED BY <1>a, <2>1, <3>1, <3>2, <3>3 DEF Owned
    <3>5. Exact'
      BY <2>1, <2>2, <3>1, <3>4 DEF Exact, runtimeVars
    <3>6. JobPhases'
      BY <2>4, <3>1 DEF JobPhases, NoDataset
    <3>7. Distinct'
      BY <1>b, <2>1, <2>2, <3>1, <3>2 DEF Distinct, ImportFrame
    <3>8. StartsFresh' /\ OneShutdown'
      BY <2>2, <3>4, InternalFresh DEF ImportFrame
    <3> QED BY <3>2, <3>5, <3>6, <3>7, <3>8
  <2> QED BY <1>1, <2>3, <2>4 DEF CheckSelection
<1>2. CASE ReleasePrevious
  <2>1. /\ job.at = "releasing" /\ job.id # 0 /\ job.importHandle = 0
        /\ liveDataset.handle = 0
    BY <1>0, <1>2 DEF ReleasePrevious, Awaits, JobTyped, NoJob, JobPhases, NoDataset
  <2>2. /\ ImportFrame /\ UNCHANGED <<liveDataset, runtimeImports>>
        /\ runtimeDatasets' = runtimeDatasets \ {job.releases} /\ ContinuesTo("reading")
    BY <1>0, <1>2 DEF ReleasePrevious, ImportFrame, importUnchanged, Fault
  <2>3. JobMoves
    BY <1>0, <2>1, <2>2, ContinuesMoves
  <2>4. shutdown.releases = 0 /\ job.releases \notin handles
    BY <2>1, <2>2, FrameShutdown DEF Distinct
  <2>5. HeldDatasets' = {liveDataset.handle, 0} \cup handles
    BY <2>1, <2>2, <2>3, MovesCustody
  <2>6. Exact'
    <3> HIDE DEF handles
    <3> QED BY <1>a, <2>1, <2>2, <2>3, <2>4, <2>5 DEF Exact, JobMoves
  <2> QED BY <2>1, <2>2, <2>3, <2>6, MovesCustody
<1>3. CASE ReadCapture
  <2>1. job.at = "reading" /\ job.id # 0 /\ job.releases = 0
    BY <1>0, <1>3 DEF ReadCapture, AwaitsTurn, JobTyped, NoJob, JobPhases
  <2>2. ImportFrame /\ UNCHANGED <<liveDataset, runtimeVars>>
    BY <1>0, <1>3 DEF ReadCapture, ImportFrame, importUnchanged
  <2>3. JobMoves
    BY <1>0, <1>3, <2>1, <2>2, ContinuesMoves, ThrowsMoves DEF ReadCapture
  <2>4. shutdown.releases = 0
    BY <2>1, <2>2, FrameShutdown
  <2>5. HeldDatasets' = {liveDataset.handle, 0} \cup handles
    BY <2>1, <2>2, <2>3, MovesCustody
  <2>6. Exact'
    <3> HIDE DEF handles
    <3> QED BY <1>a, <2>1, <2>2, <2>3, <2>4, <2>5 DEF Exact, JobMoves, runtimeVars
  <2> QED BY <2>1, <2>2, <2>3, <2>6, MovesCustody
<1>4. CASE BeginImport
  <2>1. /\ job.at = "beginning" /\ job.id # 0 /\ job.releases = 0 /\ job.importHandle = 0
        /\ liveDataset = NoDataset
    <3>1. job.at = "beginning"
      BY <1>4 DEF BeginImport, Awaits
    <3>2. job.id # 0
      BY <1>0, <3>1 DEF JobTyped, NoJob
    <3> QED BY <3>1, <3>2 DEF JobPhases
  <2>2. ImportFrame /\ UNCHANGED <<liveDataset, runtimeDatasets>>
    BY <1>0, <1>4 DEF BeginImport, ImportFrame, importUnchanged
  <2>3. shutdown.releases = 0 /\ ShutdownPhases'
    BY <2>1, <2>2, FrameShutdown
  <2>4. CASE Throws /\ UNCHANGED runtimeImports
    <3>1. JobMoves
      BY <1>0, <2>1, <2>2, <2>4, ThrowsMoves
    <3>2. HeldDatasets' = {liveDataset.handle, 0} \cup handles
      BY <2>1, <2>2, <3>1, MovesCustody
    <3>3. Exact'
      <4> HIDE DEF handles
      <4> QED BY <1>a, <2>1, <2>2, <2>3, <2>4, <3>1, <3>2 DEF Exact, JobMoves
    <3> QED BY <2>1, <2>2, <3>1, <3>3, MovesCustody
  <2>5. CASE ~(Throws /\ UNCHANGED runtimeImports)
    <3>1. PICK steps \in 0..MaxSteps :
             /\ runtimeImports' = runtimeImports \cup {job.id}
             /\ job' = IF job.cancel = "no"
                       THEN [job EXCEPT !.at = "stepping", !.importHandle = job.id, !.left = steps]
                       ELSE [job EXCEPT !.at = "reclaiming", !.importHandle = job.id,
                                        !.ends = "cancelled"]
      BY <1>4, <2>5 DEF BeginImport
    <3>2. /\ job'.id = job.id /\ job'.at \in {"stepping", "reclaiming"}
          /\ job'.importHandle = job.id /\ job'.releases = 0
      BY <1>0, <2>1, <3>1 DEF JobTyped, JobRecords
    <3>3. HeldDatasets' = HeldDatasets /\ Owned' = Owned
      BY <2>1, <2>2, <3>2 DEF HeldDatasets, Owned, ImportFrame
    <3>4. Exact'
      BY <2>1, <2>2, <3>1, <3>2, <3>3 DEF Exact
    <3>5. JobPhases' /\ Distinct'
      BY <2>1, <2>2, <3>2 DEF JobPhases, Distinct, ImportFrame
    <3>6. StartsFresh' /\ OneShutdown'
      BY <2>2, <3>3, InternalFresh DEF ImportFrame
    <3> QED BY <2>3, <3>4, <3>5, <3>6
  <2> QED BY <2>4, <2>5
<1>5. CASE StepImport
  <2>1. job.at = "stepping" /\ job.id # 0 /\ job.releases = 0
    BY <1>0, <1>5 DEF StepImport, Awaits, JobTyped, NoJob, JobPhases
  <2>2. ImportFrame /\ UNCHANGED <<liveDataset, runtimeVars>>
    BY <1>0, <1>5 DEF StepImport, ImportFrame, importUnchanged
  <2>3. JobMoves
    <3>1. CASE Throws
      BY <1>0, <2>1, <2>2, <3>1, ThrowsMoves
    <3>2. CASE job' = [job EXCEPT !.at = "yielding", !.left = @ - 1]
      <4>1. /\ job'.id = job.id /\ job'.at = "yielding" /\ job'.releases = 0
            /\ job'.importHandle = job.importHandle
        BY <1>0, <2>1, <3>2 DEF JobTyped, JobRecords
      <4> QED BY <2>1, <2>2, <4>1 DEF JobMoves, JobPhases
    <3> QED BY <1>5, <3>1, <3>2 DEF StepImport
  <2>4. shutdown.releases = 0
    BY <2>1, <2>2, FrameShutdown
  <2>5. HeldDatasets' = {liveDataset.handle, 0} \cup handles
    BY <2>1, <2>2, <2>3, MovesCustody
  <2>6. Exact'
    <3> HIDE DEF handles
    <3> QED BY <1>a, <2>1, <2>2, <2>3, <2>4, <2>5 DEF Exact, JobMoves, runtimeVars
  <2> QED BY <2>1, <2>2, <2>3, <2>6, MovesCustody
<1>6. CASE CompleteImport
  <2>1. /\ job.at = "stepping" /\ job.id # 0 /\ job.releases = 0 /\ job.importHandle = job.id
        /\ liveDataset = NoDataset /\ liveDataset.handle = 0
    BY <1>0, <1>6 DEF CompleteImport, Awaits, JobTyped, NoJob, JobPhases, NoDataset
  <2>2. /\ ImportFrame
        /\ runtimeImports' = runtimeImports \ {job.id}
        /\ runtimeDatasets' = runtimeDatasets \cup {job.id}
    BY <1>0, <1>6 DEF CompleteImport, ImportFrame, importUnchanged
  <2>3. shutdown.releases = 0 /\ ShutdownPhases' /\ HeldDatasets = {0} \cup handles
    <3>1. shutdown.releases = 0 /\ ShutdownPhases'
      BY <2>1, <2>2, FrameShutdown
    <3> HIDE DEF handles
    <3> QED BY <1>a, <2>1, <3>1
  <2>4. /\ job'.id \in {0, job.id} /\ job'.releases = 0 /\ job'.importHandle = 0
        /\ \/ job'.id = job.id /\ job'.at = "discarding" /\ liveDataset' = NoDataset
           \/ job'.id = 0 /\ job'.at = "idle" /\ liveDataset'.handle = job.id
    <3>1. CASE nextGeneration > MaxGenerations
      <4>1. job' = [job EXCEPT !.at = "discarding", !.importHandle = 0] /\ liveDataset' = liveDataset
        BY <1>6, <3>1 DEF CompleteImport
      <4> QED BY <1>0, <2>1, <4>1 DEF JobTyped, JobRecords
    <3>2. CASE ~(nextGeneration > MaxGenerations)
      BY <1>6, <3>2 DEF CompleteImport, NoJob
    <3> QED BY <3>1, <3>2
  <2>5. HeldDatasets' = {0, job.id} \cup handles
    <3>1. HeldDatasets' = {liveDataset'.handle, 0, 0} \cup handles
                            \cup (IF job'.at = "discarding" THEN {job'.id} ELSE {})
      BY <2>2, <2>3, <2>4 DEF HeldDatasets, ImportFrame
    <3>2. liveDataset' = NoDataset => liveDataset'.handle = 0
      BY DEF NoDataset
    <3> HIDE DEF handles
    <3> QED BY <2>4, <3>1, <3>2
  <2>6. Exact' /\ Owned' \subseteq Owned
    <3> HIDE DEF handles
    <3> QED BY <2>1, <2>2, <2>3, <2>4, <2>5 DEF Exact, Owned
  <2>7. JobPhases'
    BY <2>4 DEF JobPhases
  <2>8. Distinct'
    <3>1. liveDataset' = NoDataset => liveDataset'.handle = 0
      BY DEF NoDataset
    <3> QED BY <1>b, <2>1, <2>2, <2>3, <2>4, <3>1 DEF Distinct, ImportFrame
  <2>9. StartsFresh' /\ OneShutdown'
    BY <2>2, <2>6, InternalFresh DEF ImportFrame
  <2> QED BY <2>3, <2>6, <2>7, <2>8, <2>9
<1>7. CASE DiscardDataset
  <2>1. /\ job.at = "discarding" /\ job.id # 0 /\ job.releases = 0
        /\ liveDataset.handle = 0
    BY <1>0, <1>7 DEF DiscardDataset, Awaits, JobTyped, NoJob, JobPhases, NoDataset
  <2>2. /\ ImportFrame /\ UNCHANGED <<liveDataset, runtimeImports>>
        /\ runtimeDatasets' = runtimeDatasets \ {job.id} /\ Throws
    BY <1>0, <1>7 DEF DiscardDataset, ImportFrame, importUnchanged, Fault
  <2>3. JobMoves
    BY <1>0, <2>1, <2>2, ThrowsMoves
  <2>4. shutdown.releases = 0
    BY <2>1, <2>2, FrameShutdown
  <2>5. HeldDatasets' = {liveDataset.handle, 0} \cup handles
    BY <2>1, <2>2, <2>3, MovesCustody
  <2>6. Exact'
    <3> HIDE DEF handles
    <3> QED BY <1>a, <1>b, <2>1, <2>2, <2>3, <2>4, <2>5 DEF Exact, JobMoves
  <2> QED BY <2>1, <2>2, <2>3, <2>6, MovesCustody
<1>8. CASE Resume
  <2>1. job.at = "yielding" /\ job.id # 0 /\ job.releases = 0
    BY <1>0, <1>8 DEF Resume, AwaitsTurn, JobTyped, NoJob, JobPhases
  <2>2. ImportFrame /\ UNCHANGED <<liveDataset, runtimeVars>>
    BY <1>0, <1>8 DEF Resume, ImportFrame, importUnchanged
  <2>3. JobMoves
    BY <1>0, <1>8, <2>1, <2>2, ContinuesMoves DEF Resume
  <2>4. shutdown.releases = 0
    BY <2>1, <2>2, FrameShutdown
  <2>5. HeldDatasets' = {liveDataset.handle, 0} \cup handles
    BY <2>1, <2>2, <2>3, MovesCustody
  <2>6. Exact'
    <3> HIDE DEF handles
    <3> QED BY <1>a, <2>1, <2>2, <2>3, <2>4, <2>5 DEF Exact, JobMoves, runtimeVars
  <2> QED BY <2>1, <2>2, <2>3, <2>6, MovesCustody
<1>9. CASE Reclaim
  <2>1. job.at = "reclaiming" /\ job.id # 0 /\ job.releases = 0 /\ job.importHandle = job.id
    BY <1>0, <1>9 DEF Reclaim, Awaits, JobTyped, NoJob, JobPhases
  <2>2. ImportFrame /\ UNCHANGED <<liveDataset, runtimeDatasets>>
    BY <1>0, <1>9 DEF Reclaim, ImportFrame, importUnchanged
  <2>3. shutdown.releases = 0 /\ ShutdownPhases'
    BY <2>1, <2>2, FrameShutdown
  <2>4. /\ job'.id \in {0, job.id} /\ job'.releases = 0 /\ job'.at \in {"idle", "closing"}
        /\ job'.at = "idle" <=> job'.id = 0
        /\ job'.importHandle = job'.id
        /\ runtimeImports' = {job'.id} \ {0}
    <3>1. CASE /\ runtimeImports' = runtimeImports \ {job.importHandle} /\ Ends(job.ends)
      BY <2>1, <3>1 DEF Ends, NoJob, Exact
    <3>2. CASE job' = [job EXCEPT !.at = "closing"] /\ UNCHANGED runtimeImports
      <4>1. /\ job'.id = job.id /\ job'.at = "closing" /\ job'.importHandle = job.importHandle
            /\ job'.releases = job.releases
        BY <1>0, <3>2 DEF JobTyped, JobRecords
      <4> QED BY <2>1, <3>2, <4>1 DEF Exact
    <3> QED BY <1>9, <3>1, <3>2 DEF Reclaim
  <2>5. HeldDatasets' = HeldDatasets /\ Owned' \subseteq Owned
    BY <2>1, <2>2, <2>4 DEF HeldDatasets, Owned, ImportFrame
  <2>6. Exact'
    BY <2>2, <2>4, <2>5 DEF Exact
  <2>7. JobPhases' /\ Distinct'
    BY <1>b, <2>1, <2>2, <2>4 DEF JobPhases, Distinct, ImportFrame
  <2>8. StartsFresh' /\ OneShutdown'
    BY <2>2, <2>5, InternalFresh DEF ImportFrame
  <2> QED BY <2>3, <2>6, <2>7, <2>8
<1>10. CASE CloseAfterCleanupLoss
  BY <1>10 DEF CloseAfterCleanupLoss
<1> QED BY <1>1, <1>2, <1>3, <1>4, <1>5, <1>6, <1>7, <1>8, <1>9, <1>10 DEF ImportStep

-----------------------------------------------------------------------------
\* Disposal and shutdown.

\* A disposal that ends removes its dataset and its note together.
LEMMA DisposalStepCustody ==
    ASSUME "release" \notin Faults, Typed, Custody, DisposalStep, UNCHANGED clientVars
    PROVE  Custody'
<1> USE DEF Custody
<1>1. PICK disposal \in disposals : FinishDisposal(disposal)
  BY DEF DisposalStep
<1>2. /\ disposals' = disposals \ {disposal}
      /\ runtimeDatasets' = runtimeDatasets \ {disposal.handle}
      /\ UNCHANGED <<commands, runtimeImports, liveDataset, job, shuttingDown, shutdown, nextId,
                     shutdownCall>>
  BY <1>1 DEF FinishDisposal, Fault, clientVars
<1>3. {d.handle : d \in disposals'} = {d.handle : d \in disposals} \ {disposal.handle}
  BY <1>2 DEF Distinct
<1>4. /\ disposal.handle \notin {liveDataset.handle, job.releases, shutdown.releases}
      /\ job.at = "discarding" => job.id # disposal.handle
  <2>1. disposal.handle # 0
    BY DEF Typed, WorkerTyped, ControlTyped, Ids
  <2> QED BY <2>1 DEF Distinct
<1>5. HeldDatasets' = HeldDatasets \ {disposal.handle}
  BY <1>2, <1>3, <1>4 DEF HeldDatasets
<1>6. Exact' /\ Owned' \subseteq Owned
  BY <1>2, <1>5 DEF Exact, Owned
<1>7. JobPhases' /\ ShutdownPhases' /\ Distinct'
  BY <1>2 DEF JobPhases, ShutdownPhases, Distinct
<1>8. StartsFresh' /\ OneShutdown'
  BY <1>2, <1>6, InternalFresh
<1> QED BY <1>6, <1>7, <1>8

\* A shutdown that goes on releases the live dataset and keeps its note until then.
LEMMA ShutdownStepCustody ==
    ASSUME "release" \notin Faults, Typed, Custody, ShutdownStep, UNCHANGED clientVars,
           worker' = "running"
    PROVE  Custody'
<1> USE DEF Custody
<1> DEFINE handles == {d.handle : d \in disposals}
<1>0. JobTyped /\ StoreTyped /\ ControlTyped /\ UNCHANGED <<nextId, shutdownCall>>
  BY DEF Typed, WorkerTyped, clientVars
<1>a. HeldDatasets = {liveDataset.handle, job.releases, shutdown.releases} \cup handles
                       \cup (IF job.at = "discarding" THEN {job.id} ELSE {})
  BY DEF HeldDatasets
<1>b. 0 \notin handles
  BY <1>0 DEF ControlTyped, Ids
<1>1. CASE ReleaseForShutdown
  <2>1. /\ shutdown.at = "work" /\ job.id = 0 /\ shutdown.releases = 0
        /\ job.releases = 0 /\ job.at = "idle"
    BY <1>0, <1>1 DEF ReleaseForShutdown, JobTyped, NoJob, ShutdownPhases
  <2>2. /\ UNCHANGED <<commands, job, disposals, shuttingDown, runtimeImports, runtimeDatasets>>
        /\ liveDataset' = NoDataset /\ liveDataset'.handle = 0
    BY <1>1 DEF ReleaseForShutdown, shutdownUnchanged, runtimeVars, NoDataset
  <2>3. /\ shutdown'.releases = liveDataset.handle
        /\ shutdown'.at = IF liveDataset = NoDataset THEN "stopping" ELSE "releasing"
    BY <1>0, <1>1 DEF ReleaseForShutdown, ControlTyped
  <2>4. HeldDatasets' = {0, liveDataset.handle} \cup handles
    BY <2>1, <2>2, <2>3 DEF HeldDatasets
  <2>5. Exact' /\ Owned' \subseteq Owned
    <3> HIDE DEF handles
    <3> QED BY <1>a, <2>1, <2>2, <2>4 DEF Exact, Owned
  <2>6. JobPhases' /\ ShutdownPhases'
    BY <2>1, <2>2, <2>3 DEF JobPhases, ShutdownPhases, NoDataset
  <2>7. Distinct'
    BY <1>b, <2>1, <2>2, <2>3 DEF Distinct
  <2>8. StartsFresh' /\ OneShutdown'
    BY <1>0, <2>1, <2>2, <2>5, InternalFresh
  <2> QED BY <2>5, <2>6, <2>7, <2>8
<1>2. CASE ReleasedForShutdown
  <2>1. /\ shutdown.at = "releasing" /\ job.id = 0 /\ liveDataset = NoDataset
        /\ liveDataset.handle = 0 /\ job.releases = 0 /\ job.at = "idle"
    BY <1>0, <1>2 DEF ReleasedForShutdown, JobTyped, NoJob, NoDataset, ShutdownPhases
  <2>2. /\ UNCHANGED <<commands, job, disposals, shuttingDown, liveDataset, runtimeImports>>
        /\ runtimeDatasets' = runtimeDatasets \ {shutdown.releases}
        /\ shutdown' = [shutdown EXCEPT !.at = "stopping", !.releases = 0]
    BY <1>2 DEF ReleasedForShutdown, shutdownUnchanged, Fault
  <2>3. shutdown'.releases = 0 /\ shutdown'.at = "stopping"
    BY <1>0, <2>2 DEF ControlTyped
  <2>4. HeldDatasets' = {0} \cup handles
    BY <2>1, <2>2, <2>3 DEF HeldDatasets
  <2>5. shutdown.releases \notin handles
    BY DEF Distinct
  <2>6. Exact' /\ Owned' \subseteq Owned
    <3> HIDE DEF handles
    <3> QED BY <1>a, <2>1, <2>2, <2>4, <2>5 DEF Exact, Owned
  <2>7. JobPhases' /\ ShutdownPhases'
    BY <2>1, <2>2, <2>3 DEF JobPhases, ShutdownPhases
  <2>8. Distinct'
    BY <1>b, <2>1, <2>2, <2>3 DEF Distinct
  <2>9. StartsFresh' /\ OneShutdown'
    BY <1>0, <2>1, <2>2, <2>6, InternalFresh
  <2> QED BY <2>6, <2>7, <2>8, <2>9
<1>3. CASE StopRuntime
  <2>1. /\ shutdown.at = "stopping" /\ shutdown.releases = 0 /\ shutdown' = NoShutdown
        /\ UNCHANGED <<commands, job, disposals, shuttingDown, liveDataset, runtimeImports,
                       runtimeDatasets>>
    BY <1>3 DEF StopRuntime, ShutdownFails, shutdownUnchanged, runtimeVars, ShutdownPhases
  <2>2. shutdown'.at = "idle" /\ shutdown'.releases = 0
    BY <2>1 DEF NoShutdown
  <2>3. HeldDatasets' = HeldDatasets /\ Owned' = Owned
    BY <2>1, <2>2 DEF HeldDatasets, Owned
  <2>4. Exact' /\ JobPhases' /\ ShutdownPhases' /\ Distinct'
    BY <2>1, <2>2, <2>3 DEF Exact, JobPhases, ShutdownPhases, Distinct
  <2>5. StartsFresh' /\ OneShutdown'
    BY <1>0, <2>1, <2>2, <2>3, InternalFresh
  <2> QED BY <2>4, <2>5
<1> QED BY <1>1, <1>2, <1>3 DEF ShutdownStep

\* Every step of the worker keeps the invariant while the worker runs.
LEMMA WorkerNextCustody ==
    ASSUME "release" \notin Faults, Typed, Custody, WorkerNext, UNCHANGED clientVars,
           worker' = "running"
    PROVE  Custody'
<1> USE DEF Custody
<1>1. CASE LoadCapabilities \/ QueryStep
  <2>1. UNCHANGED custodyVars /\ UNCHANGED <<commands, nextId, shutdownCall>>
    BY <1>1 DEF LoadCapabilities, QueryStep, FinishQuery, runtimeVars, custodyVars, clientVars
  <2>2. Exact' /\ JobPhases' /\ ShutdownPhases' /\ Distinct' /\ Owned' = Owned
    BY <2>1, NotesStay
  <2>3. StartsFresh' /\ OneShutdown'
    BY <2>1, <2>2, InternalFresh DEF custodyVars
  <2> QED BY <2>2, <2>3
<1>2. CASE Crash
  BY <1>2 DEF Crash
<1> QED BY <1>1, <1>2, HandleCommandCustody, ImportStepCustody, DisposalStepCustody,
           ShutdownStepCustody DEF WorkerNext

-----------------------------------------------------------------------------
\* The client. It takes ids in order, and asks for one shutdown.

\* A step of the client that sends nothing.
LEMMA QuietFresh ==
    ASSUME StartsFresh, OneShutdown, Owned' = Owned, UNCHANGED <<commands, nextId, shutdown>>,
           shutdownCall' = shutdownCall \/ shutdownCall \in {"none", "waiting"}
    PROVE  StartsFresh' /\ OneShutdown'
  BY DEF StartsFresh, OneShutdown

\* One that sends a command: the start of an import carries a new id.
LEMMA SentFresh ==
    ASSUME Typed, StartsFresh, OneShutdown, Owned' = Owned, UNCHANGED shutdown,
           NEW command \in CommandRecords, commands' = Append(commands, command),
           \/ nextId' = nextId /\ command.type # "start_import"
           \/ nextId' = nextId + 1 /\ command.id = nextId,
           \/ shutdownCall' = shutdownCall /\ command.type # "shutdown"
           \/ shutdownCall = "waiting" /\ shutdownCall' = "racing"
    PROVE  StartsFresh' /\ OneShutdown'
<1> DEFINE last == Len(commands) + 1
<1>1. /\ DOMAIN commands = 1..Len(commands) /\ DOMAIN commands' = 1..last
      /\ Len(commands) \in Nat
      /\ commands'[last] = command
      /\ \A n \in 1..Len(commands) : commands'[n] = commands[n]
  BY DEF Typed, PortTyped
<1>2. \A n \in DOMAIN commands' :
         \/ n \in DOMAIN commands /\ commands'[n] = commands[n]
         \/ n = last /\ commands'[n] = command
  BY <1>1
<1>3. /\ nextId \in Nat /\ nextId' \in Nat /\ nextId <= nextId' /\ Owned \subseteq Nat
      /\ \A n \in DOMAIN commands : commands[n].id \in Nat
  <2>1. nextId \in Nat /\ Owned \subseteq Nat
    BY OwnedIsIds, BoundsAssumption DEF Typed, ClientTyped, ClientTypeOK, Ids
  <2>2. \A n \in DOMAIN commands : commands[n].id \in Nat
    <3>1. \A n \in DOMAIN commands : commands[n] \in CommandRecords
      BY <1>1 DEF Typed, PortTyped
    <3>2. \A c \in CommandRecords : c.id \in Nat
      BY BoundsAssumption DEF CommandRecords, Ids
    <3> QED BY <3>1, <3>2
  <2> QED BY <2>1, <2>2
<1>4. command.type = "start_import" => nextId' = nextId + 1 /\ command.id = nextId
  OBVIOUS
<1>5. command.type = "shutdown" => shutdownCall = "waiting" /\ shutdownCall' = "racing"
  OBVIOUS
<1> HIDE DEF last
<1>6. StartsFresh'
  <2>1. \A handle \in Owned' : handle < nextId'
    BY <1>3 DEF StartsFresh
  <2>2. ASSUME NEW n \in DOMAIN commands', commands'[n].type = "start_import"
        PROVE  commands'[n].id < nextId' /\ commands'[n].id \notin Owned'
    BY <1>2, <1>3, <1>4, <2>2 DEF StartsFresh
  <2>3. ASSUME NEW m \in DOMAIN commands', NEW n \in DOMAIN commands',
               commands'[m].type = "start_import", commands'[n].type = "start_import",
               commands'[m].id = commands'[n].id
        PROVE  m = n
    BY <1>2, <1>3, <1>4, <2>3 DEF StartsFresh
  <2> QED BY <2>1, <2>2, <2>3 DEF StartsFresh
<1>7. OneShutdown'
  <2>1. ASSUME NEW m \in DOMAIN commands', NEW n \in DOMAIN commands',
               commands'[m].type = "shutdown", commands'[n].type = "shutdown"
        PROVE  m = n
    BY <1>2, <1>5, <2>1 DEF OneShutdown
  <2>2. ASSUME NEW n \in DOMAIN commands', commands'[n].type = "shutdown"
        PROVE  shutdown'.at = "idle" /\ shutdownCall' \notin {"none", "waiting"}
    BY <1>2, <1>5, <2>2 DEF OneShutdown
  <2>3. shutdown'.at # "idle" => shutdownCall' \notin {"none", "waiting"}
    BY DEF OneShutdown
  <2> QED BY <2>1, <2>2, <2>3 DEF OneShutdown
<1> QED BY <1>6, <1>7

\* The client sends start commands with ids of their own and one shutdown at most.
LEMMA ClientNextCustody ==
    ASSUME Typed, Custody, ClientNext, UNCHANGED workerVars, worker' = "running"
    PROVE  Custody'
<1> USE DEF Custody
<1>0. PortTyped /\ ClientTyped
  BY DEF Typed
<1>1. Exact' /\ JobPhases' /\ ShutdownPhases' /\ Distinct' /\ Owned' = Owned /\ UNCHANGED shutdown
  BY NotesStay DEF custodyVars, workerVars
<1>2. ASSUME NEW byFailure, Closes(byFailure) PROVE FALSE
  BY <1>2 DEF Closes
<1>3. ASSUME NEW command \in CommandRecords, commands' = Sent(command), UNCHANGED worker
      PROVE  commands' = Append(commands, command)
  BY <1>3 DEF Sent
<1>4. CASE \/ ImportCapture \/ Shutdown \/ Receive
           \/ \E query \in packetQueries : AbortQuery(query)
  <2>1. UNCHANGED <<commands, nextId>> /\
        (shutdownCall' = shutdownCall \/ shutdownCall \in {"none", "waiting"})
    BY <1>2, <1>4 DEF ImportCapture, Shutdown, AbortQuery, Receive, ReceiveProgress,
       ReceiveTerminal, ReceiveAnswer, ReceiveFailure, ReceiveResponse, Receives, portVars, clientVars
  <2> QED BY <1>1, <2>1, QuietFresh
<1>5. CASE CancelImport
  <2>1. Command("cancel_import", activeJobId) \in CommandRecords
    BY <1>0, <1>5, BoundsAssumption
       DEF CancelImport, ClientTyped, ClientTypeOK, Command, CommandRecords, CommandTypes, Ids
  <2>2. commands' = Append(commands, Command("cancel_import", activeJobId))
    BY <1>3, <1>5, <2>1 DEF CancelImport
  <2>3. UNCHANGED <<nextId, shutdownCall>>
    BY <1>5 DEF CancelImport, clientVars
  <2>4. Command("cancel_import", activeJobId).type = "cancel_import"
    BY DEF Command
  <2> QED BY <1>1, <2>1, <2>2, <2>3, <2>4, SentFresh
<1>6. ASSUME NEW type \in RequestTypes, type # "shutdown", Request(type), HasId,
             UNCHANGED shutdownCall
      PROVE  Custody'
  <2>1. Command(type, nextId) \in CommandRecords
    BY <1>0, <1>6, HasIdTyped, BoundsAssumption DEF Command, CommandRecords, CommandTypes
  <2>2. commands' = Append(commands, Command(type, nextId)) /\ nextId' = nextId + 1
    BY <1>3, <1>6, <2>1 DEF Request
  <2>3. Command(type, nextId).type = type /\ Command(type, nextId).id = nextId
    BY DEF Command
  <2> QED BY <1>1, <1>6, <2>1, <2>2, <2>3, SentFresh
<1>7. CASE DisposeDataset \/ ResourceStats
  BY <1>6, <1>7 DEF DisposeDataset, ResourceStats, RequestTypes
<1>8. ASSUME NEW summary \in summaries, ReadPacket(summary.generation)
      PROVE  Custody'
  <2>1. Query(nextId, summary.generation) \in CommandRecords
    <3>1. nextId \in Ids /\ summary.generation \in Generations
      BY <1>0, <1>8, HasIdTyped DEF ReadPacket, ClientTyped, ClientTypeOK
    <3> QED BY <3>1, BoundsAssumption DEF Query, CommandRecords, CommandTypes, Generations
  <2>2. /\ commands' = Append(commands, Query(nextId, summary.generation)) /\ nextId' = nextId + 1
        /\ UNCHANGED shutdownCall
    BY <1>3, <1>8, <2>1 DEF ReadPacket
  <2>3. /\ Query(nextId, summary.generation).type = "query"
        /\ Query(nextId, summary.generation).id = nextId
    BY DEF Query
  <2> QED BY <1>1, <2>1, <2>2, <2>3, SentFresh
<1>9. CASE Terminate \/ Deadline
  BY <1>2, <1>9 DEF Terminate, Deadline
<1>10. CASE StartImport
  <2>1. CASE ready = "ready"
    <3>1. Command("start_import", nextId) \in CommandRecords
      <4>1. Waiting >= 1 /\ Waiting \in 0..2
        BY <1>10 DEF StartImport, Waiting
      <4>2. nextId \in Ids
        BY <1>0, <4>1, BoundsAssumption DEF ClientTyped, ClientTypeOK, Ids
      <4> QED BY <4>2, BoundsAssumption DEF Command, CommandRecords, CommandTypes
    <3>2. /\ commands' = Append(commands, Command("start_import", nextId)) /\ nextId' = nextId + 1
          /\ UNCHANGED shutdownCall
      BY <1>3, <1>10, <2>1, <3>1 DEF StartImport
    <3>3. /\ Command("start_import", nextId).type = "start_import"
          /\ Command("start_import", nextId).id = nextId
      BY DEF Command
    <3> QED BY <1>1, <3>1, <3>2, <3>3, SentFresh
  <2>2. CASE ready # "ready"
    BY <1>1, <1>10, <2>2, QuietFresh DEF StartImport
  <2> QED BY <2>1, <2>2
<1>11. CASE RequestShutdown
  <2>1. Command("shutdown", nextId) \in CommandRecords
    <3>1. Waiting >= 1 /\ Waiting \in 0..2
      BY <1>11 DEF RequestShutdown, Waiting
    <3>2. nextId \in Ids
      BY <1>0, <3>1, BoundsAssumption DEF ClientTyped, ClientTypeOK, Ids
    <3> QED BY <3>2, BoundsAssumption DEF Command, CommandRecords, CommandTypes, RequestTypes
  <2>2. /\ commands' = Append(commands, Command("shutdown", nextId)) /\ nextId' = nextId + 1
        /\ shutdownCall = "waiting" /\ shutdownCall' = "racing"
    BY <1>3, <1>11, <2>1 DEF RequestShutdown, Request
  <2>3. Command("shutdown", nextId).type = "shutdown" /\ Command("shutdown", nextId).id = nextId
    BY DEF Command
  <2> QED BY <1>1, <2>1, <2>2, <2>3, SentFresh
<1> QED BY <1>4, <1>5, <1>7, <1>8, <1>9, <1>10, <1>11 DEF ClientNext, Call

-----------------------------------------------------------------------------
CustodyInvariant == worker = "running" => Custody

\* A worker that runs was running.
LEMMA RunningWas ==
    ASSUME [Next]_vars, worker' = "running"
    PROVE  worker = "running"
<1>1. CASE WorkerNext
  BY <1>1 DEF WorkerNext, HandleCommand, HandleInitialize, HandleStartImport, HandleCancelImport,
     HandleQuery, HandleResourceStats, HandleDisposeDataset, HandleShutdown, Handles, NewTurn,
     LoadCapabilities, ImportStep, CheckSelection, ReleasePrevious, ReadCapture, BeginImport,
     StepImport, CompleteImport, DiscardDataset, Resume, Reclaim, CloseAfterCleanupLoss, Awaits,
     AwaitsTurn, QueryStep, FinishQuery, DisposalStep, FinishDisposal, ShutdownStep,
     ReleaseForShutdown, ReleasedForShutdown, StopRuntime, Crash
<1>2. CASE ClientNext
  BY <1>2 DEF ClientNext, Call, ImportCapture, CancelImport, DisposeDataset, ResourceStats, ReadPacket,
     AbortQuery, Shutdown, Terminate, StartImport, RequestShutdown, Deadline, Receive, ReceiveProgress,
     ReceiveTerminal, ReceiveAnswer, ReceiveFailure, ReceiveResponse, Request, Closes, portVars
<1>3. CASE UNCHANGED vars
  BY <1>3 DEF vars, portVars
<1> QED BY <1>1, <1>2, <1>3 DEF Next

\* No step forgets a handle or notes one that is gone, while the worker runs.
LEMMA NextCustody ==
    ASSUME "release" \notin Faults, Typed, CustodyInvariant, [Next]_vars
    PROVE  CustodyInvariant'
<1> SUFFICES ASSUME worker' = "running" PROVE Custody'
  BY DEF CustodyInvariant
<1>0. Custody
  BY RunningWas DEF CustodyInvariant
<1>1. CASE WorkerNext /\ UNCHANGED clientVars
  BY <1>0, <1>1, WorkerNextCustody
<1>2. CASE ClientNext /\ UNCHANGED workerVars
  BY <1>0, <1>2, ClientNextCustody
<1>3. CASE UNCHANGED vars
  <2>1. Exact' /\ JobPhases' /\ ShutdownPhases' /\ Distinct' /\ Owned' = Owned
    BY <1>0, <1>3, NotesStay DEF vars, workerVars, custodyVars, Custody
  <2>2. StartsFresh' /\ OneShutdown'
    BY <1>0, <1>3, <2>1, QuietFresh DEF vars, portVars, workerVars, clientVars, Custody
  <2> QED BY <2>1, <2>2 DEF Custody
<1> QED BY <1>1, <1>2, <1>3 DEF Next

\* Where no disposal of a dataset fails, whatever else does: nothing is forgotten.
THEOREM NothingIsForgotten ==
    ASSUME "release" \notin Faults
    PROVE  Spec => []NothingForgotten
<1>1. Init => CustodyInvariant
  BY InitCustody DEF CustodyInvariant
<1>2. Typed /\ CustodyInvariant /\ [Next]_vars => CustodyInvariant'
  BY NextCustody
<1>3. CustodyInvariant => NothingForgotten
  BY DEF CustodyInvariant, Custody, Exact, NothingForgotten
<1> QED BY <1>1, <1>2, <1>3, TypedInvariant, PTL DEF Spec
=============================================================================
