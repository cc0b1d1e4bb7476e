-------------------------- MODULE BoundaryTransfers --------------------------
(***************************************************************************)
(* The client of the worker transport (boundary-harness boundary-client.ts)*)
(* and the runtime it talks to. A binary read is one at a time: the value  *)
(* and the audit of its buffer arrive, a packet batch is committed or      *)
(* discarded, and the transfer is acknowledged. The other calls are made   *)
(* whenever the application likes, with any handle it was ever given.      *)
(***************************************************************************)
EXTENDS BoundaryRuntime

CONSTANTS
    MaxCalls,     \* bound: calls besides the binary read in flight
    Uses          \* the operations this application calls

ASSUME CallsAssumption == MaxCalls \in Nat
ASSUME UsesAssumption == Uses \subseteq Operations \ (Resolutions \cup {"ack_transfer"})

VARIABLES
    nextRequestId,
    calls,      \* #pending, without the binary read: request ids
    read,       \* #binaryRequestInFlight, and how far #readBinary has come
    granted,    \* the handles the application was given, with their resources
    taken,      \* how many rows the application has, by cursor resource
    terminated  \* the worker has been terminated

clientVars == <<nextRequestId, calls, read, granted, taken, terminated>>
vars == <<runtimeVars, clientVars>>

NoRead == [phase |-> "none", operation |-> "none", id |-> 0, received |-> FALSE,
           batch |-> NoBatch, resource |-> 0, resolution |-> 0]

Init ==
    /\ toWorker = <<>> /\ toClient = <<>>
    /\ RuntimeInit
    /\ nextRequestId = 1
    /\ calls = {} /\ read = NoRead
    /\ granted = {} /\ taken = Nothing
    /\ terminated = FALSE

\* Ids kept for what a read in flight still has to send.
Reserved == CASE read.phase = "none" -> 0 [] read.resolution = 0 -> 2 [] OTHER -> 1

-----------------------------------------------------------------------------
\* Calls.

Posts(r) == toWorker' = Append(toWorker, r) /\ nextRequestId' = nextRequestId + 1

Sends(operation, handle) ==
    /\ ~terminated /\ operation \in Uses
    /\ Cardinality(calls) < MaxCalls /\ nextRequestId + Reserved <= MaxRequestId
    /\ Posts(Request(operation, nextRequestId, handle, 0))
    /\ calls' = calls \cup {nextRequestId}
    /\ UNCHANGED <<toClient, adapter, issued, outstanding, pending, created,
                   read, granted, taken, terminated>>

Given(kind) == {g.handle : g \in {g \in granted : g.handle.kind = kind}}

Call ==
    \/ Sends("begin_import", NoHandle)
    \/ \E h \in Given("import") : Sends("step_import", h) \/ Sends("cancel_import", h)
    \/ \E h \in Given("dataset") : Sends("open_packet_cursor", h)
    \/ \E h \in Given("import") \cup Given("dataset") \cup Given("cursor") : Sends("dispose", h)
    \/ Sends("shutdown", NoHandle)

\* readPacketBatch, readEvidence and the like: single flight.
ReadBinary(operation, handle) ==
    /\ ~terminated /\ read = NoRead /\ operation \in Uses
    /\ nextRequestId + 2 <= MaxRequestId
    /\ Posts(Request(operation, nextRequestId, handle, 0))
    /\ read' = [NoRead EXCEPT !.phase = "requested", !.operation = operation, !.id = nextRequestId]
    /\ UNCHANGED <<toClient, adapter, issued, outstanding, pending, created,
                   calls, granted, taken, terminated>>

Read ==
    \/ \E h \in Given("cursor") : ReadBinary("read_packet_batch", h)
    \/ \E h \in Given("dataset") : ReadBinary("read_evidence", h)

-----------------------------------------------------------------------------
\* Responses.

\* Mutant: only what is delivered is acknowledged.
FinishesDelivered(received) ==
    /\ read' = NoRead
    /\ IF received /\ read.phase # "discard_packet_batch"
       THEN Posts(Request("ack_transfer", nextRequestId, NoHandle, read.id))
       ELSE UNCHANGED <<toWorker, nextRequestId>>

\* The finally of #readBinary: what was received is acknowledged.
FinishRead(received) ==
    /\ read' = NoRead
    /\ IF received THEN Posts(Request("ack_transfer", nextRequestId, NoHandle, read.id))
                   ELSE UNCHANGED <<toWorker, nextRequestId>>

ResolveRead(operation) ==
    /\ Posts(Request(operation, nextRequestId, NoHandle, read.id))
    /\ read' = [read EXCEPT !.phase = operation, !.resolution = nextRequestId]

\* The value: its buffer is the client's from here on.
ReceiveValue(m) ==
    /\ m.kind = "success" /\ m.id = read.id /\ read.phase = "requested"
    /\ read' = [read EXCEPT !.phase = "transferred", !.received = TRUE,
                !.batch = m.batch, !.resource = m.resource]
    /\ UNCHANGED <<toWorker, nextRequestId, calls, granted, taken, terminated>>

\* The audit: a batch is committed if its envelope is valid and its source was
\* detached, else discarded; other bytes are delivered.
ReceiveAudit(m) ==
    /\ m.kind = "transfer_audit" /\ m.id = read.id /\ read.phase = "transferred"
    /\ \/ /\ read.operation = "read_packet_batch"
          /\ \/ ResolveRead("commit_packet_batch")
             \/ "refuse" \in Faults /\ ResolveRead("discard_packet_batch")
       \/ read.operation = "read_evidence" /\ FinishRead(read.received)
    /\ UNCHANGED <<calls, granted, taken, terminated>>

\* A read that failed in the worker is discarded all the same, whatever it staged.
ReceiveReadError(m) ==
    /\ m.kind = "error" /\ m.id = read.id /\ read.phase = "requested"
    /\ \/ read.operation = "read_packet_batch" /\ ResolveRead("discard_packet_batch")
       \/ read.operation = "read_evidence" /\ FinishRead(read.received)
    /\ UNCHANGED <<calls, granted, taken, terminated>>

RowsTaken(resource) == IF resource \in DOMAIN taken THEN taken[resource] ELSE 0

\* The rows of a committed batch are delivered.
Delivers(m) ==
    IF read.phase = "commit_packet_batch" /\ m.kind = "success"
    THEN taken' = With(taken, read.resource, read.batch.next)
    ELSE UNCHANGED taken

ReceiveResolution(m) ==
    /\ read # NoRead /\ m.id = read.resolution
    /\ Delivers(m)
    /\ FinishRead(read.received)
    /\ UNCHANGED <<calls, granted, terminated>>

ReceiveResponse(m) ==
    /\ m.id \in calls
    /\ calls' = calls \ {m.id}
    /\ granted' = IF m.handle = NoHandle THEN granted
                  ELSE granted \cup {[handle |-> m.handle, resource |-> m.resource]}
    /\ terminated' = (m.operation = "shutdown" /\ m.kind = "success")
    /\ UNCHANGED <<toWorker, nextRequestId, read, taken>>

\* Acknowledgements are answered, and nobody waits for it.
ReceiveUnawaited(m) ==
    /\ m.operation = "ack_transfer"
    /\ UNCHANGED <<toWorker, clientVars>>

Receive ==
    /\ ~terminated /\ toClient # <<>>
    /\ LET m == Head(toClient) IN
        \/ ReceiveValue(m) \/ ReceiveAudit(m) \/ ReceiveReadError(m)
        \/ ReceiveResolution(m) \/ ReceiveResponse(m) \/ ReceiveUnawaited(m)
    /\ toClient' = Tail(toClient)
    /\ UNCHANGED <<adapter, issued, outstanding, pending, created>>

-----------------------------------------------------------------------------
Handle == ~terminated /\ HandleRequest /\ UNCHANGED clientVars

Next == Call \/ Read \/ Handle \/ Receive

Spec == Init /\ [][Next]_vars

\* Messages are delivered and handled; nobody has to call.
FairSpec == Spec /\ WF_vars(Handle) /\ WF_vars(Receive)

-----------------------------------------------------------------------------
\* A cursor stages a batch only while the runtime remembers it, for the very
\* resource and range: no failure, disposal or shutdown leaves a cursor that can
\* never be read again, or a batch that resolves on somebody else's cursor
\* (boundary-runtime.ts, read_packet_batch, rollback and shutdown).
StagedBatchesAreResolvable ==
    /\ \A h \in DOMAIN adapter : h.kind = "cursor" /\ adapter[h].staged # NoBatch =>
        \E id \in DOMAIN pending :
            /\ pending[id].cursor = h /\ pending[id].resource = adapter[h].resource
            /\ Batch(pending[id].start, pending[id].next) = adapter[h].staged
    /\ \A id \in DOMAIN pending :
        /\ pending[id].cursor.n <= issued["cursor"]
        /\ pending[id].cursor \in DOMAIN adapter =>
            adapter[pending[id].cursor].resource = pending[id].resource

\* The application has exactly the rows its cursor has passed, except while the
\* answer to a commit is on its way: none is delivered twice, skipped, or
\* delivered and offered again, whatever is disposed meanwhile.
RowsAreDeliveredOnce ==
    \A h \in DOMAIN adapter : h.kind = "cursor" =>
        LET cursor == adapter[h] IN
        \/ cursor.next = RowsTaken(cursor.resource)
        \/ /\ read.phase = "commit_packet_batch" /\ read.resource = cursor.resource
           /\ read.batch = Batch(RowsTaken(cursor.resource), cursor.next)

\* A transfer the runtime counts as outstanding is one the client is reading, or
\* has acknowledged in a message on its way; that message reaches the runtime only
\* when the batch is resolved, for it would be refused before and never sent
\* again; and when a binary read is handled none is outstanding. The one transfer
\* allowed is never taken by a forgotten one.
TransfersAreAcknowledged ==
    /\ \A id \in outstanding :
        \/ read # NoRead /\ read.id = id
        \/ \E i \in DOMAIN toWorker :
            toWorker[i].operation = "ack_transfer" /\ toWorker[i].of = id
    /\ toWorker # <<>> /\ Head(toWorker).operation = "ack_transfer" =>
        Head(toWorker).of \notin DOMAIN pending
    /\ toWorker # <<>> /\ Head(toWorker).operation \in BinaryOperations => outstanding = {}

\* Every binary read ends, delivering or failing, unless the worker is terminated.
ReadsSettle == read # NoRead ~> read = NoRead \/ terminated

\* What ADR-0007 says of handles: a stale handle cannot alias a new import or
\* dataset. A live handle names the resource the application got it for.
HandlesNameOneResource ==
    \A g \in granted : g.handle \in DOMAIN adapter => adapter[g.handle].resource = g.resource
=============================================================================
