--------------------------- MODULE CaptureProtocol ---------------------------
(***************************************************************************)
(* The message port between the capture client, on the main thread, and    *)
(* the capture worker: commands one way, events the other, each delivered  *)
(* once and in order for as long as the worker lives. The contract of      *)
(* ingestion/capture-contract.ts, with progress events reduced to the one  *)
(* that acknowledges a cancellation; a message carries its type, the job   *)
(* or request it is about, and for queries the generation asked for.       *)
(***************************************************************************)
EXTENDS Naturals, Sequences, FiniteSets

CONSTANTS
    MaxId,             \* bound: ids the client takes, one per job or request
    MaxGenerations,    \* the last dataset generation there is a number for
    Faults             \* what may fail: a subset of FaultKinds

\* The Wasm load, a packet read, the disposal of an import, of a dataset and of
\* the runtime may fail, and the worker may crash. A file that cannot be read
\* and a capture that cannot be parsed are ordinary inputs, not faults.
FaultKinds == {"load", "read", "reclaim", "release", "teardown", "crash"}

ASSUME BoundsAssumption == MaxId \in Nat \ {0} /\ MaxGenerations \in Nat
ASSUME FaultsAssumption == Faults \subseteq FaultKinds

VARIABLES
    worker,     \* "running", or "closed": by itself, by a crash or by terminate()
    commands,   \* posted by the client and not yet handled
    events      \* posted by the worker and not yet received

portVars == <<worker, commands, events>>

Ids == 1..MaxId
Generations == 1..MaxGenerations

RequestTypes == {"initialize", "dispose_dataset", "resource_stats", "shutdown"}
CommandTypes == RequestTypes \cup {"start_import", "cancel_import", "query"}
TerminalTypes == {"complete", "cancelled", "import_error"}
ResponseTypes == {"initialized", "dataset_disposed", "resource_stats", "shutdown_complete"}
EventTypes == TerminalTypes \cup ResponseTypes \cup
    {"cancelling", "command_error", "answer", "query_error", "query_failed", "error"}

\* The three packet queries are one: `generation' is the dataset it asks about.
Command(type, id) == [type |-> type, id |-> id, generation |-> 0]
Query(id, generation) == [type |-> "query", id |-> id, generation |-> generation]

\* `dataset' is the dataset an answer was read from, or a job published.
Event(type, id) == [type |-> type, id |-> id, generation |-> 0, dataset |-> 0]
QueryEvent(type, id, generation, dataset) ==
    [type |-> type, id |-> id, generation |-> generation, dataset |-> dataset]

Posted(event) == Append(events, event)

\* A message posted to a worker that is gone is lost without a trace.
Sent(command) == IF worker = "running" THEN Append(commands, command) ELSE commands

PortTypeOK ==
    /\ worker \in {"running", "closed"}
    /\ commands \in Seq([type : CommandTypes, id : Ids, generation : 0..MaxGenerations])
    /\ events \in Seq([type : EventTypes, id : 0..MaxId,
                       generation : 0..MaxGenerations, dataset : 0..MaxId])
=============================================================================
