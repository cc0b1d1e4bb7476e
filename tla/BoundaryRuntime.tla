--------------------------- MODULE BoundaryRuntime ---------------------------
(***************************************************************************)
(* BoundaryRuntime and the worker transport around it                      *)
(* (boundary/boundary-runtime.ts): a binary response is staged in the Wasm *)
(* adapter, remembered here, transferred, and forgotten again when the     *)
(* client has resolved and acknowledged it. A request is one turn of the   *)
(* worker, once the Wasm module is loaded: dispatch awaits nothing else.   *)
(*                                                                         *)
(* The adapter is what the module Boundary models in detail; here it is    *)
(* the table of its live resources. One that has not been made yet cannot  *)
(* be told from one that is empty. The four binary reads that stage        *)
(* nothing are one, read_evidence; metadata and statistics are left out.   *)
(***************************************************************************)
EXTENDS Naturals, Sequences, FiniteSets, Functions

CONSTANTS
    PacketCount,     \* the rows of every dataset
    MaxRequestId,    \* bound: requests the client makes
    Faults           \* what may go wrong: a subset of FaultKinds

\* An adapter that returns an invalid batch, a buffer that cannot be
\* transferred, a client that finds the batch it was sent unacceptable.
FaultKinds == {"corrupt", "transfer", "refuse"}

ASSUME BoundsAssumption == PacketCount \in Nat /\ MaxRequestId \in Nat
ASSUME FaultsAssumption == Faults \subseteq FaultKinds

MAX_OUTSTANDING_TRANSFERS == 1

VARIABLES
    toWorker,      \* requests not yet handled
    toClient,      \* responses not yet received
    adapter,       \* #boundary: its resources by handle
    issued,        \* how many handles of each kind this adapter has issued
    outstanding,   \* #outstandingTransfers
    pending,       \* #pendingPacketBatches, by request id
    created        \* history: resources created by any adapter

runtimeVars == <<toWorker, toClient, adapter, issued, outstanding, pending, created>>

RequestIds == 1..MaxRequestId
Kinds == {"import", "dataset", "cursor"}
BinaryOperations == {"read_packet_batch", "read_evidence"}
Resolutions == {"commit_packet_batch", "discard_packet_batch"}
Operations == BinaryOperations \cup Resolutions \cup
    {"begin_import", "step_import", "cancel_import", "open_packet_cursor", "dispose",
     "ack_transfer", "shutdown"}

Handles == [kind : Kinds, n : Nat]
NoHandle == [kind |-> "none", n |-> 0]
NoBatch == [start |-> 0, next |-> 0, staged |-> FALSE]
Batch(start, next) == [start |-> start, next |-> next, staged |-> TRUE]

Nothing == [h \in {} |-> 0]
NothingIssued == [kind \in Kinds |-> 0]

RuntimeInit ==
    /\ adapter = Nothing /\ issued = NothingIssued
    /\ outstanding = {} /\ pending = Nothing /\ created = 0

\* `of' is the transfer a resolution or an acknowledgement is about.
Request(operation, id, handle, of) ==
    [operation |-> operation, id |-> id, handle |-> handle, of |-> of]

\* `resource' tells which resource a handle was issued for.
Response(kind, r, handle, resource, batch) ==
    [kind |-> kind, operation |-> r.operation, id |-> r.id,
     handle |-> handle, resource |-> resource, batch |-> batch]

Answer(kind, r) == Response(kind, r, NoHandle, 0, NoBatch)

-----------------------------------------------------------------------------
\* The adapter.

Without(table, gone) == Restrict(table, DOMAIN table \ gone)

With(table, key, value) ==
    [k \in DOMAIN table \cup {key} |-> IF k = key THEN value ELSE table[k]]

\* Dispose releases what a handle names, a dataset with its cursors, and is
\* harmless when it names nothing.
Disposed(table, h) ==
    Without(table, {h} \cup {c \in DOMAIN table : c.kind = "cursor" /\ table[c].dataset = h})

Resource(dataset) ==
    [resource |-> created + 1, dataset |-> dataset, next |-> 0, staged |-> NoBatch]

NewHandle(kind) == [kind |-> kind, n |-> issued[kind] + 1]

\* A batch resolves only while its cursor lives and still stages that range.
Resolvable(table, batch) ==
    batch.cursor \in DOMAIN table /\ table[batch.cursor].staged = Batch(batch.start, batch.next)

\* Mutant: committing a batch leaves its cursor where it was.
ResolvedAtStart(table, batch, next) ==
    [table EXCEPT ![batch.cursor].next = batch.start, ![batch.cursor].staged = NoBatch]

Resolved(table, batch, next) ==
    [table EXCEPT ![batch.cursor].next = next, ![batch.cursor].staged = NoBatch]

-----------------------------------------------------------------------------
\* Every request that throws rolls back the batch staged under its id, if there
\* is one, and is answered with an error.

\* Mutant: the pending entry is forgotten, and the batch left staged.
ForgetsStagedBatch(r, table, batches) ==
    /\ adapter' = table
    /\ pending' = Without(batches, {r.id})
    /\ toClient' = Append(toClient, Answer("error", r))

\* Mutant: the failure is rolled back, and not reported.
FailsSilently(r, table, batches) ==
    /\ adapter' = IF r.id \notin DOMAIN batches THEN table
                  ELSE Disposed(table, batches[r.id].cursor)
    /\ pending' = Without(batches, {r.id})
    /\ UNCHANGED toClient

Fails(r, table, batches) ==
    /\ adapter' = IF r.id \notin DOMAIN batches THEN table
                  ELSE LET batch == batches[r.id] IN
                       IF Resolvable(table, batch) THEN Resolved(table, batch, batch.start)
                       ELSE Disposed(table, batch.cursor)
    /\ pending' = Without(batches, {r.id})
    /\ toClient' = Append(toClient, Answer("error", r))

Refuses(r) == Fails(r, adapter, pending) /\ UNCHANGED <<issued, outstanding, created>>

\* A new resource takes the place of the one it was made from.
Issues(r, kind, dataset, consumed) ==
    LET h == NewHandle(kind) IN
    /\ adapter' = With(Without(adapter, consumed), h, Resource(dataset))
    /\ issued' = [issued EXCEPT ![kind] = @ + 1]
    /\ created' = created + 1
    /\ toClient' = Append(toClient, Response("success", r, h, created + 1, NoBatch))
    /\ UNCHANGED <<outstanding, pending>>

Succeeds(r) == toClient' = Append(toClient, Answer("success", r))

BeginImport(r) == Issues(r, "import", NoHandle, {}) \/ Refuses(r)

\* A step makes progress, publishes the dataset, or fails and ends the import.
StepImport(r) ==
    \/ /\ r.handle \in DOMAIN adapter
       /\ \/ Issues(r, "dataset", NoHandle, {r.handle})
          \/ /\ Succeeds(r)
             /\ UNCHANGED <<adapter, issued, outstanding, pending, created>>
          \/ /\ Fails(r, Without(adapter, {r.handle}), pending)
             /\ UNCHANGED <<issued, outstanding, created>>
    \/ Refuses(r)

OpenPacketCursor(r) ==
    \/ r.handle \in DOMAIN adapter /\ Issues(r, "cursor", r.handle, {})
    \/ Refuses(r)

\* dispose, and cancel_import for an import.
Dispose(r) ==
    /\ adapter' = Disposed(adapter, r.handle)
    /\ Succeeds(r)
    /\ UNCHANGED <<issued, outstanding, pending, created>>

\* The next request that needs an adapter makes a new one.
Shutdown(r) ==
    /\ adapter' = Nothing /\ issued' = NothingIssued
    /\ outstanding' = {} /\ pending' = Nothing
    /\ Succeeds(r)
    /\ UNCHANGED created

-----------------------------------------------------------------------------
\* Binary responses.

HasTransferCapacity == Cardinality(outstanding) < MAX_OUTSTANDING_TRANSFERS

\* The response, the record of the transfer, and the audit of its buffer.
Transfers(r, batch) ==
    /\ outstanding' = outstanding \cup {r.id}
    /\ toClient' = toClient \o <<Response("success", r, r.handle, adapter[r.handle].resource, batch),
                                 Answer("transfer_audit", r)>>
    /\ UNCHANGED <<issued, created>>

\* Rows offered: some of those left, and none only at the end.
Offered(cursor) == IF cursor.next = PacketCount THEN {PacketCount} ELSE cursor.next + 1..PacketCount

\* An invalid batch can be neither committed nor retried: its cursor goes.
DropsCorruptCursor(r, table) ==
    Fails(r, Disposed(table, r.handle), pending) /\ UNCHANGED <<issued, outstanding, created>>

ReadPacketBatch(r) ==
    \/ /\ HasTransferCapacity
       /\ r.handle \in DOMAIN adapter /\ adapter[r.handle].staged = NoBatch
       /\ \E next \in Offered(adapter[r.handle]) :
            LET start   == adapter[r.handle].next
                table   == [adapter EXCEPT ![r.handle].staged = Batch(start, next)]
                batches == With(pending, r.id,
                                [cursor |-> r.handle, start |-> start, next |-> next,
                                 resource |-> adapter[r.handle].resource])
            IN  \/ /\ adapter' = table /\ pending' = batches
                   /\ Transfers(r, Batch(start, next))
                \/ "corrupt" \in Faults /\ DropsCorruptCursor(r, table)
                \/ /\ "transfer" \in Faults
                   /\ Fails(r, table, batches) /\ UNCHANGED <<issued, outstanding, created>>
    \/ Refuses(r)

ReadEvidence(r) ==
    \/ /\ HasTransferCapacity
       /\ r.handle \in DOMAIN adapter
       /\ Transfers(r, NoBatch)
       /\ UNCHANGED <<adapter, pending>>
    \/ Refuses(r)

\* A resolution that fails drops the cursor, whose state it cannot know; the
\* pending entry goes in every case.
ResolvePacketBatch(r) ==
    LET batch == pending[r.of]
        rest  == Without(pending, {r.of})
    IN
    \/ /\ r.of \in DOMAIN pending /\ Resolvable(adapter, batch)
       /\ adapter' = Resolved(adapter, batch,
                        IF r.operation = "commit_packet_batch" THEN batch.next ELSE batch.start)
       /\ pending' = rest
       /\ Succeeds(r)
       /\ UNCHANGED <<issued, outstanding, created>>
    \/ /\ r.of \in DOMAIN pending /\ ~Resolvable(adapter, batch)
       /\ Fails(r, Disposed(adapter, batch.cursor), rest)
       /\ UNCHANGED <<issued, outstanding, created>>
    \/ r.of \notin DOMAIN pending /\ Refuses(r)

AckTransfer(r) ==
    \/ /\ r.of \notin DOMAIN pending
       /\ outstanding' = outstanding \ {r.of}
       /\ Succeeds(r)
       /\ UNCHANGED <<adapter, issued, pending, created>>
    \/ r.of \in DOMAIN pending /\ Refuses(r)

-----------------------------------------------------------------------------
Dispatch(r) ==
    \/ r.operation = "begin_import" /\ BeginImport(r)
    \/ r.operation = "step_import" /\ StepImport(r)
    \/ r.operation = "open_packet_cursor" /\ OpenPacketCursor(r)
    \/ r.operation \in {"dispose", "cancel_import"} /\ Dispose(r)
    \/ r.operation = "shutdown" /\ Shutdown(r)
    \/ r.operation = "read_packet_batch" /\ ReadPacketBatch(r)
    \/ r.operation = "read_evidence" /\ ReadEvidence(r)
    \/ r.operation \in Resolutions /\ ResolvePacketBatch(r)
    \/ r.operation = "ack_transfer" /\ AckTransfer(r)

\* One message event of the worker.
HandleRequest == toWorker # <<>> /\ Dispatch(Head(toWorker)) /\ toWorker' = Tail(toWorker)
=============================================================================
