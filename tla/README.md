# WireLens in TLA+

WireLens inspects PCAP and PCAPNG captures offline: a Rust core parses a capture
into an immutable dataset, a Wasm adapter owns imports, datasets and packet cursors
behind opaque handles, a module worker drives it, a TypeScript client talks to the
worker, and a React interface shows the result. This directory holds a TLA+ model of
the parts of it whose correctness depends on order, on limits or on interleaving.

## The system and its components

| Component | Code | State it keeps | Operations |
|---|---|---|---|
| Handles and registries | `crates/wasm-adapter/src/handle.rs`, `Registry<T>` in `boundary.rs` | slots with a generation, a free list, a live count, the last disposal of each slot | insert, lookup, removal, removal by predicate |
| Boundary state | `crates/wasm-adapter/src/boundary.rs` | three registries (imports, datasets, packet cursors), cancelled imports, peaks | begin, advance, finish and cancel an import; register and dispose a dataset; open, read, commit, discard and dispose a cursor |
| Wasm binding | `crates/wasm-adapter/src/{web,batch,detail,error}.rs` | none of its own | argument checks, encoding, `stepImport` = advance or finish, `dispose` by kind |
| Capture importer and model | `crates/packet-core/src/{import,model,range,timestamp,field,diagnostic}.rs` | reader position, section, arenas, totals | step under a record, byte and decoded-item budget; finish; cancel |
| Field correlation | `crates/packet-core/src/correlation.rs` | none | the fields of a packet that overlap a byte range |
| Flow analysis | `crates/packet-core/src/flow.rs` | per-flow accumulators during one pass | flows, TCP states, anomalies, metrics, timelines |
| Protocol decoders | `crates/protocol-decoders/src` | bounded traversal state per packet | link, IPv4, IPv6, TCP, UDP, ICMP, DNS |
| Boundary runtime | `apps/web/src/boundary/boundary-runtime.ts` | outstanding transfers, batches not yet resolved | worker protocol of the binding: read, commit, discard, acknowledge, shut down |
| Transport client | `benchmarks/wasm/boundary-harness/web/boundary-client.ts` | pending calls, pending audits, the binary read in flight | the runtime's operations as promises |
| Capture worker | `apps/web/src/workers/capture.worker.ts`, `ingestion/import-cleanup.ts` | live dataset, active job, packet queries, shutting down | import, cancel, dispose, query, shut down |
| Capture client | `apps/web/src/ingestion/capture-client.ts`, `capture-contract.ts`, `capture-format.ts` | pending commands, imports and queries, active job | the same, as promises; validation of every worker event |
| Import interface | `apps/web/src/features/capture-import` | what the page believes of the import | select, cancel, reset |
| Packet workspace | `apps/web/src/features/packet-detail` | selected packet and bytes | navigation |

A call into the Wasm boundary runs to completion before the next one; concurrency
lives above it. Inside the worker, an import runs as an async function that awaits
file reads, the runtime and a macrotask between steps, so commands are handled in
between. The client and the worker exchange messages over an ordered port. The
interface calls the client and may drop or supersede a call at any await.

### What is hard, and what makes each part correct

* **Registries.** A handle must name one resource for ever, though slots are reused
  and generations run out, and though a cascade empties several slots at once.
* **Boundary.** No cursor may outlive its dataset; what was admitted must fit when it
  is published; a cancelled import must be remembered exactly as long as its slot is
  not reused; no row may be skipped or offered twice.
* **Worker and client.** A cancellation races the last step; a shutdown, an invalid
  event or a crash meets promises that must all settle; a query's answer may arrive
  after its dataset is gone.
* **Runtime.** A batch is staged in Rust, posted, then resolved and acknowledged; a
  failure at any of these points must neither lose rows nor leave the cursor unusable.
* **Importer.** A step stops at any record and at any failure and is taken again: the
  arenas must hold no half of a packet, what is skipped or shortened must leave a
  diagnostic, and what a step admits must still be valid when it is finished.
* **Decoders.** Nested lengths contradict one another and what was captured. A decoder
  must conclude nothing from bytes it does not have, nor from padding; it must end on
  compressed names and chains of headers, and stay within what the importer admits.
* **Flow analysis.** Classifications that depend on a whole history of packets.

## The modules

| Module | Models | How |
|---|---|---|
| `Registry` | `Registry<T>` | operators on one record: `slots`, `free`, `activeCount`, `lastDisposed`; a slot's `value` is the resource or `Empty`. Insertion, lookup, removal and predicate removal return the new record or an error code |
| `HandleSpace` | what a registry promises | abstract: a handle is issued once, names one resource, never lives again |
| `HandleRegistry` | one registry in use | `Registry` under arbitrary calls; refines `HandleSpace` |
| `RegistryLemmas`, `HandleRegistryProofs` | | proofs about both |
| `CaptureStore` | what the boundary promises the worker | abstract: imports, datasets and cursors without slots or budgets |
| `Boundary` | `BoundaryState` | one action per method; three registries, the cancelled slots, two peaks; refines `CaptureStore` |
| `BoundaryProofs` | | proofs about `Boundary`, also that it implements `CaptureStore` |
| `CaptureProtocol` | the port of the capture worker | two queues; messages lost once the worker is gone |
| `CaptureWorker` | `capture.worker.ts` | one action per command and per await: `job.at` is where `runImport` stands, queries and disposals are sets of suspended coroutines |
| `CaptureClient` | `capture-client.ts` | a pending promise is a member of `imports`, `requests` or `packetQueries`; settling removes it |
| `Ingestion` | worker and client together | the composition, its fairness and its properties |
| `BoundaryRuntime` | `boundary-runtime.ts` and its worker transport | `outstanding`, `pending`, and the adapter as a table of live resources; one action per request |
| `BoundaryTransfers` | `boundary-client.ts` and the runtime | the phases of one binary read, with any other call in between |
| `Flow` | the accumulators and classifications of `flow.rs` | operators on one record per flow: a packet is folded in by `ApplyPacket`; `Establishment`, `Termination`, `Metrics` and `Anomalies` read the result |
| `FlowAnalysis` | the passes over a capture | one action per packet; `capture` remembers what was read, so that every conclusion can be compared with its definition over the history |
| `CaptureModel` | `model.rs`, `range.rs`, `timestamp.rs`, `diagnostic.rs` | the canonical dataset: arenas that refer to one another by position, and the validation every dataset passes |
| `PacketSink` | `PacketDecodeSink`, `DatasetBuilder` in `import.rs` | what one packet's decoder may write, call by call: an operation gives the next builder and its outcome; `Settle` keeps a packet's decode or rolls all of it back |
| `Importer` | `CaptureImporter` and the framing of records in `import.rs` | one action per call: a step under its budget, finish, cancel; a failed step keeps what it had done and may be taken again |
| `Correlation` | `correlation.rs` | the walk over a packet's fields and the resolution of a selection, as functions |
| `ImportedCapture` | import and correlation together | the datasets the importer makes are those the correlation walks |
| `Fields` | the helpers of `protocol-decoders/src/lib.rs` | a layer as a tree of fields, and how it reaches the sink |
| `Link` | `lib.rs` of the decoders | Ethernet, one VLAN tag, ARP |
| `Network` | `ipv4.rs`, `ipv6.rs` | both headers, options, extension headers, fragments |
| `Transport` | `tcp.rs`, `udp.rs`, `icmp.rs`, `checksum.rs` | segments, datagrams, messages and their checksums |
| `Dns` | `dns.rs` | names with compression, questions, records |
| `Decoding` | the dispatch of `lib.rs` | one action per step of the dispatch from layer to layer, on the sink of `PacketSink` |
| `IngestionProofs`, `PendingProofs` | | proofs about `Ingestion`: types, cancellation and custody; pending imports and queries |
| `TransferProofs` | | proofs about `BoundaryTransfers` |
| `FlowProofs` | | proofs about `FlowAnalysis` |
| `ImporterProofs` | | proofs about `Importer` |
| `MC*` | | the instances for TLC; a configuration gives values to constants and nothing else |

`Boundary` uses `Registry` three times. `BoundaryRuntime` stands on what `CaptureStore`
promises and adds what happens to a batch on its way to the page. `CaptureWorker` uses
the runtime's direct calls: `runtimeImports` and `runtimeDatasets` are what lives in
the boundary, by the job that made it. `Importer` and `Decoding` meet in `PacketSink`: a capture of
`Importer` gives for each packet the calls a decoder makes, and `Decoding` shows which
calls the real decoders make and that the sink accepts them.

### Choices of abstraction

* **Data.** A capture is its size and the size of its index; a dataset is its row count;
  a batch is its range of rows. File contents, progress counters, error details and
  encodings are left out. What a check of data can decide is a nondeterministic choice.
  In `Flow` a packet is what its layers say of it; the walk over the field arena that
  reads this, byte totals and size histograms are left out. The five passes of the code
  share their accumulators, and one record holds them all. Numbers of ticks and packets
  are not bounded by their width: a capture does not reach it.
  In `Importer` a capture is the sequence of the blocks its bytes frame, with the lengths
  and numbers the code reads of each; which of several framings bytes have, byte order,
  and how the reader's buffer is refilled and grown are left out, and so is the geometric
  growth of the arenas. Identities count from 1 where the code counts from 0. A string
  counts one unit against the ceiling of string bytes. What the PCAP library makes of a
  block (`readable`, `trailing`, its end of file) is modelled from how the importer uses
  it. Offsets do not reach the width of their integers: the limits, which are checked
  first, keep them far below. In the decoders packets are real bytes and offsets count
  from 0 as in the code; of a field's value only bytes and text are kept, a number is
  read again from its range; messages and severities of findings are left out. A step
  after a refused call of the sink does nothing, as the code returns at once.
* **Turns.** An action of `CaptureWorker` is what the event loop runs between two
  points at which another command may be handled. Once Wasm is loaded, a call of the
  runtime awaits only microtasks (`dispatch` awaits `initialize()` and then runs
  synchronously), so as built no command comes in between. `RuntimeSuspends = FALSE` is
  that worker. `RuntimeSuspends = TRUE` lets every runtime call last for turns, which is
  the interface the worker's own checks (`queryStillCurrent`, `failIfCancelled` after
  each await) are written against.
* **Faults.** `Faults` says which failures a run considers: the Wasm load, a packet
  read, the disposal of an import or a dataset, the teardown of the runtime, a crash;
  for transfers, an invalid batch, a buffer that cannot be transferred, a batch the
  client refuses. A file that cannot be read and a capture that cannot be parsed are
  ordinary inputs.
* **Bounds.** Ids, generations, queue lengths, slots and row counts are bounded by
  constants, named in each module next to the word "bound". Ids that an operation still
  needs are reserved before another one may start, so no behaviour stops half way for
  lack of an id.

## The runs

| Run | Question | Instance |
|---|---|---|
| `handle_registry` | Are the free list, count and disposal memory of a registry exact, and does it implement the abstract handle space? | slots reused until their generations are exhausted |
| `boundary` | Are admission, peaks and remembered cancellations exact, can what was admitted be published, and can a cursor outlive its dataset, or skip or repeat a row? | two imports and two datasets that do not all fit, one cursor, slots reused |
| `ingestion_suspended` | Do overtaken queries, disposals, imports and shutdowns lose an import, leak a dataset, answer from the wrong one, or close the client? | two generations, a runtime whose calls last for turns |
| `ingestion_live` | Is a cancelled import ever published, and does every promise settle? | the worker as built, two generations, faults short of a lost cleanup |
| `ingestion_cancel_boundary` | Does a cancellation posted during the last step take effect? | a violation, see below |
| `transfers` | Are rows delivered exactly once, and does every read end with nothing left staged or outstanding? | two batches from one cursor, three faults, any other call in between |
| `flow_history` | Is what is kept incrementally about a flow what its history defines, and does the catalog rest on the same evidence? | every sequence of four or five packets of eight kinds of capture |
| `flow_documented` | Are six results about a flow what their comments say? | a violation, see below |
| `import` | Does every import that is ready finish into a valid dataset that tells of every record, and can its fields be walked and selected? | 35 captures of either format, sound and damaged, at their limits and with decoders that misuse the sink; ten budgets; retries |
| `import_cramped` | Is every packet without a time diagnosed? | a violation, see below |
| `decoding` | Is what the decoders say of a packet accepted by the dataset, and concluded from exactly what was captured? | sound packets cut at every byte and padded; packets with one byte overwritten; every DNS name of four bytes over six values |
| `transfers_alias` | Does a handle keep its meaning across a shutdown? | a violation, see below |

**Why the bounds are enough.** The registry's state per slot is symmetric, and the
interesting cases need one slot that is reused, one whose generation ends, and one more
to be disposed in the same cascade. In `boundary` two imports and two datasets
are the least for which an admission depends on what others hold, and slots must be used
twice for a remembered cancellation or a cursor to meet a new holder; the budgets are
chosen so that some pairs fit and others do not, with and without an index. One cursor
suffices: cursors only meet through the dataset they page through. In `Ingestion` an import has two generations behind or
ahead of it at most (the one it replaces and the one that replaces it), and the ids
suffice for an import, a query, a disposal and a shutdown in flight together. In
`BoundaryTransfers` nine requests are the shortest history with two whole batches on
one cursor. In `FlowAnalysis` each instance is about one matter (a handshake, one kind
of number, time, DNS, keys, truncation), and its bound is one more than the packets the
longest conclusion about it rests on, or equal to it: five for a handshake with its end
and one packet after, four where a pair and what comes between it matters. In `import` each capture is the
shortest for its case (an interface of a section behind another section, a clock whose
ticks do not divide a second, a limit met by the second packet, a decoder that leaves a
field without a parent), and every budget is taken at every step, so every step ends at
every record. In `decoding` the published limits of a packet are met exactly: 13 layers
in one packet, 487 fields and 482 children in another, the same packets that
`tests/dns_resource_limits.rs:253` measures; the longest names reach the limits on wire
bytes, labels and pointers. The limits on rendered bytes and on components of a name
cannot be met before those, and are modelled all the same.

**Deadlock.** A registry always answers, so `handle_registry` is checked for deadlock. The
others stop in states where nothing is left to do: generations or ids are used up, the worker has closed after a shutdown or a crash,
the client has been terminated, the capture is read, the importer is finished, or the packet is decoded. The system may really stop there, so deadlock is
not checked; that nothing stops with a promise pending is what the liveness
properties say.

**Fairness.** In `Ingestion`: every await of the worker ends (files are finite, the
runtime answers, timers fire), the event loop reaches each command in order, events
are delivered, the client's continuations run and its shutdown deadline fires. In
`BoundaryTransfers`: the worker handles each message and the client receives each.
There is no fairness for callers, and none for faults. All are weak: each of these
steps stays enabled until it is taken.

**What liveness does not cover.** After a lost cleanup (`failClosedAfterCleanupLoss`)
the worker closes itself and tells only the import that failed. The client stays open,
and what was pending or is called later settles only when the page terminates the
client, as its controller does on `worker_failed`; `ingestion_live` therefore leaves
out the fault `reclaim`. `PendingImportIsSomewhere`, a part of `NothingIsLost`, says that
a loss happens in no other way, and it is proved whatever fails.

**What the code relies on without saying so.** With `RuntimeSuspends = TRUE`,
`QueriesSettle` (a part of `EveryPromiseSettles`) does not hold: a query called between `importCapture`'s rejection of
the pending queries and its `start_import` can be suspended when the import begins;
`queryStillCurrent` then drops it silently and nobody rejects it. As built the worker
answers before it takes the next command. A runtime call that came to await a real
event would break this. In the same way `CancelledNeverPublishes` needs `stepImport`
to end in the turn it begins in.

## What the runs found

* **A cancellation during the last step** (`ingestion_cancel_boundary`).
  `adr-0007-wasm-boundary-contract.md:66` promises that a cancellation received while a
  step executes takes effect at the next step boundary, and its sequence yields after a
  terminal result. `runImport` publishes in the turn in which `stepImport` returns
  `complete` (`capture.worker.ts:381`), so the cancellation in the queue is ignored.
* **Six comments of `flow.rs`** (`flow_documented`). `ResultsAreAsDocumented` is the
  conjunction of what they say, each a definition of its own; TLC stops at the first that
  fails, and finds a capture against each when the configuration names it alone. The next
  five items are these.
* **Durations that need a borrow** (`TimedMessagesHaveOffsets`). `duration_from_timestamps` subtracts
  fractions with a check before it borrows a second (`flow.rs:1802`), so every interval
  whose end has the smaller fraction has no duration; the field's comment promises an
  offset "when both timestamps are available" (`flow.rs:435`). Durations of flows,
  latencies and the long handshake finding are lost in the same way. The model follows
  the code, so `flow_history` checks which packets a latency is measured between, and
  leaves out those the code cannot measure.
* **Identities of TCP states** (`TcpIdsAreAligned`). `flow.rs:366` says that the identity of a
  TCP state is "aligned with `BidirectionalFlow`". `reconstruct_tcp_connection_states`
  numbers the TCP flows alone, so after a UDP flow on an earlier interface it gives a
  connection the identity the other views give to another flow. Within one interface TCP
  flows come first and the numbers agree. What holds always is that each view numbers its
  flows without gap or tie (`ConversationsAreWhole`).
* **The second FIN** (`SecondFinIsFromOtherSide`). `flow.rs:349` says it is there "to confirm
  bidirectional shutdown". The next FIN of either side is taken (`flow.rs:1627`), also a
  retransmission of the first, and the end is then reported as certain.
* **A repeated SYN after an answer** (`RepeatedSynHadNoResponse`,
  `AttemptsMadeNoProgress`). `flow.rs:287`
  says of `RepeatedSyn` "without a response", `flow.rs:47` of `RepeatedSynAttempts` "without
  an intermediate SYN-ACK", and the finding's text is "without handshake progress"
  (`flow.rs:1136`). A SYN that comes again is counted whatever came before it
  (`flow.rs:1579`): after SYN, SYN-ACK, SYN the attempt has failed by it, and after SYN,
  SYN-ACK, ACK, SYN the connection is established while the catalog reports the attempts.
  `EstablishmentExact` and `CatalogAgrees` define repeated SYNs as the code counts them.
* **The latency of DNS** (`LatencyIsOfEarliest`). `flow.rs:531` says it is that of "the earliest
  inferable transaction"; the code keeps the shortest (`flow.rs:1664`), and so does
  `DnsTransactionsExact`.
* **A diagnostic that is lost by a retry** (`import_cramped`). A record whose lengths
  disagree and whose time cannot be represented needs two diagnostics. If the second
  meets the ceiling the step fails; when it is taken again, the first is seen as the trace
  of an attempt (`import.rs:1803`) and neither is written: the packet is retained without
  a time and without `INVALID_TIMESTAMP`. `tests/import.rs:457` and `diagnostic.rs:31`
  promise that diagnostic, and `tests/decoder_seam.rs:274` relies on retries.
* **Handles after a shutdown** (`transfers_alias`). The ADR says at line 85 that a stale
  handle cannot alias a new import or dataset. After `shutdown` the next request makes a
  new boundary (`boundary-runtime.ts:899` and `:963`) whose registries begin again, and
  the same handles name new resources. The capture worker closes after its shutdown, so
  only the worker transport (`installBoundaryWorker`) can show it.

## What is proved

The proofs hold for every value of the constants that meets the named assumptions. For
the registry and the boundary (`MaxGenerationAssumption`, `KindAssumption`,
`MaxSlotsAssumption`, `ValueAssumption`, `SlotCapsAssumption`, `SizesAssumption`,
`EmptyAssumption`, `NoBatchAssumption`): a positive generation range, positive caps,
sizes that are numbers, and markers that are not resources. For worker and client
(`BoundsAssumption`, `FaultsAssumption`, `WorkerAssumption`, `QueueAssumption`): positive
bounds, and faults that are some of those the model knows. Those about transfers need
only that the rows of a dataset are counted by a number (`BoundsAssumption` of
`BoundaryRuntime`): they hold for every number of rows, handles, requests and calls. Those
about flows hold for captures of every length, of any packets that are what the decoders
make (`CapturesAssumption`: a packet has TCP data exactly when its transport is TCP), for
any clock (`TicksPerSecondAssumption`) and any set of transaction ids, if the marker of an
absent value is none of the values (`NoneAssumption`). Those about the importer hold for any
set of files that are framed as `FilesAssumption` says, whatever their records, their damage
and the calls of the decoders; for limits that `validate_limits` admits (`LimitsAssumption`);
for any budgets (`BudgetsAssumption`); if a second has a positive number of ticks
(`Resolutions`, `ResolutionAssumption`) and the marker of an absent value is none of the
values (`NoneAssumption`, `NoImporterAssumption`). The run `import` evaluates all of these.

* `RegistryLemmas` states once what each operation of `Registry` preserves and returns:
  slots keep their shape, the free list is exactly the reusable empty slots without
  duplicates, the count is exact, a generation never goes back.
* `HandleRegistryProofs` proves `TypeOK` (`TypeCorrect`), `BookkeepingExact`
  (`BooksBalance`), `DeadHandleAnswers` (`DeadHandlesStayDead`), `CapacityIsNotLost`
  (`CapacityKept`), and that `HandleRegistry` implements `HandleSpace` (`Refinement`). The
  inductive invariant joins the type invariant with the exactness of the free list:
  without it an insertion could be handed a slot that is live, or retired. The refinement
  rests on generations that only grow: the dead handles of a slot are those of its earlier
  generations.
* `BoundaryProofs` proves `CursorsAreUsable` (`CursorsStayUsable`) and
  `CancelledMemoryExact` (`CancellationRemembered`). That no cursor outlives its dataset is
  not inductive by itself: that a reused dataset slot does not inherit a cursor needs the
  well-formedness of all three registries and the generation of the dataset a cursor
  refers to. It also proves `TypeOK` (`BoundaryTypes`), `WithinBudgets` (`BudgetsHold`) and
  `ReadyImportPublishes` (`ReservedIsEnough`). The totals are sums over the slots, written
  as a recursive function over a sequence; how a total changes with one slot, and with one
  slot more, is proved first. The library's induction theorems are not needed for this: the
  numbers for which a statement fails are a set, and a set of numbers that has no least is
  empty (`Induction`). `Budgets` adds to `WithinBudgets` that every import was admitted by
  its own cap, which its dataset is checked against again when it is published.
* It also proves that `Boundary` implements `CaptureStore` (`StoreRefinement`), so
  what `BoundaryRuntime` stands on is what the registries do. A table of the store is what
  the live handles of a registry name; each operation of a registry is then one update of
  a table, and a handle given up is in no table again.
* `IngestionProofs` proves `TypeOK` (`IngestionTypeCorrect`) and `CancelledNeverPublishes`
  (`CancellationIsRespected`). Types are strengthened by the count of ids that are
  reserved for what is still to be asked; without it the ids taken could exceed those there
  are. The second is a theorem about the worker as built, `~RuntimeSuspends`: otherwise a
  cancellation could arrive while `stepImport` runs.
* The same module proves `NothingForgotten` (`NothingIsForgotten`), from what each phase of
  an import and of a shutdown holds and the fact that no two of them hold the same thing
  (`Custody`). It excludes the fault `release`: when the disposal of a dataset fails, the
  code drops its note of it and leaves the dataset in the runtime, by design.
* `PendingProofs` proves `PendingImportIsSomewhere` (`PendingIsSomewhere`) under every
  fault, and with `NothingIsForgotten` also `NothingIsLost` (`NothingGetsLost`). It counts, in the two
  queues and the job, the places an id is at; an id that has not been taken is nowhere.
* The same module proves `AnswersAreFromAskedDataset` (`AnswersAreFromAsked`) under every
  fault: a generation names one dataset for ever, whether it is live, announced or known to
  a caller. It also proves `NoSpuriousAbort` (`NoAbortIsSpurious`) when none of the faults
  `read`, `crash` and `release` occurs: a query keeps its generation from its call to its
  answer, no request shares an id with a query, and the dataset of a query that is still
  current is in the runtime, which is `NothingForgotten`.
* `TransferProofs` proves `StagedBatchesAreResolvable` (`BatchesAreResolvable`) and
  `RowsAreDeliveredOnce` (`RowsOnce`) under every fault. Neither is inductive. A batch
  could be resolved on another cursor than the one that staged it if a handle were issued
  twice while a batch remembers it, so the shutdown, which begins the handles again, must
  forget every batch. Rows could be delivered twice if the client held other bounds of a
  batch than the runtime, if two commits were under way, if an answer were taken for that
  of another request, or if two cursors shared a resource: `Sound` says that none of this
  happens, over the two queues, the ids that are in use and the read. It also proves
  `TransfersAreAcknowledged` (`EveryTransferAcknowledged`), from `Sound` and what is known of
  the requests on their way (`Acknowledged`): an acknowledgement is of a batch already
  resolved and comes before any later read in the queue.
* `FlowProofs` proves every property of `flow_history` for captures of any length: `TypeOK`
  (`FlowTypes`), `EstablishmentExact` (`EstablishmentShown`), `SequenceFindingsExact`
  (`SequenceFindingsShown`), `DnsTransactionsExact` (`TransactionsShown`),
  `ConversationsAreWhole` (`ConversationsKept`), `CatalogAgrees` (`CatalogKept`) and the
  action property `ConclusionsStand` (`ConclusionsKept`). What the code keeps is less than
  what the properties define, so the inductive invariant `Inv` says what every accumulator
  holds in terms of the packets of its flow: the first SYN is the least of a set, the last
  number of a side is that of its newest numbered segment, the query that waits for a
  response is the oldest since the last one, and so on, each related to how its set grows
  by the packet that is read. These are stated of every capture the present one may become,
  so that packets read later, of other flows, do not touch them. That the identities
  of flows, and of TCP states, are numbered without a gap needs no induction: the positions are an injection into an
  interval of the same size. `Inv` quantifies over captures without bound, and so is beyond TLC; what it implies
  is what `flow_history` checks.

* `ImporterProofs` proves `TypeOK` (`ImporterTypes`), the action property `StepsAdvance`
  (`StepsAdvanceShown`), `FinishSucceeds` (`ReadyFinishes`) and `NothingIsSkippedSilently`
  (`NothingSkipped`), for files of any length and steps of any number. What `finish`
  validates holds of a complete builder only; the inductive invariant `Sound` says what is
  true while a section is still open (it reaches to the reader and has the interfaces from
  its first on), and while a packet is pending: after a step that failed, diagnostics of a
  packet that is not there may be left, and `Held` says that these are the last ones, lie
  within the data of the record at the reader, and that this record will retain a packet
  when the step is taken again. Without `Held` a diagnostic could be left for good without
  its packet. A decode is followed call by call (`Decoding`): the fields it has written have
  children and owners among themselves, so that cutting the arenas back gives the builder of
  before (`RolledBack`), and `validate_complete` gives every field one owner
  (`DecodeSettles`). That the earliest and latest times are kept rests on `cmp_instant` being
  a strict order across resolutions (`TimesOrdered`). Decodes, runs of a step and offsets are
  recursive functions; that there are such functions, and what they compute, is again shown
  by sets of numbers. TLC checked `Sound` on the instances of `import` before it was proved.

**Only model-checked.** Liveness (out of the prover's reach). `StepsLeaveNoTrace` compares
two whole imports, with different budgets and different failures: `Sound` is about one, and a
proof would need a simulation between the two. `Correlation` (`FieldTreesAreWalkedWhole`,
`PrimaryIsMostSpecific`): the walk is a fold with a stack over trees of any depth, and that it
visits each field once is an induction over the trees. `Decoding`: what a decoder computes for
every input is an induction over the bytes, and its modules `Dns` and `Fields` declare
recursive operators, which the prover does not accept.

## What is not modelled, and why

| Modules | State |
|---|---|
| `Registry`, `HandleSpace`, `HandleRegistry` | complete, proved |
| `Boundary`, `CaptureStore` | complete, proved, with the refinement |
| `CaptureProtocol`, `CaptureWorker`, `CaptureClient`, `Ingestion` | complete; safety proved, liveness checked |
| `BoundaryRuntime`, `BoundaryTransfers` | all operations; safety proved, liveness checked |
| `Flow`, `FlowAnalysis` | all classifications, proved; byte totals, size histograms and the selection of timeline points for display are left out |
| `CaptureModel`, `PacketSink`, `Importer` | complete; proved, but for the independence of the budgets |
| `Correlation`, `ImportedCapture` | complete; checked |
| `Fields`, `Link`, `Network`, `Transport`, `Dns`, `Decoding` | every decoder; checked |

* **Wasm binding** (`web.rs`, `batch.rs`, `detail.rs`, `error.rs`). The two rules in it that
  change state, that a failing `stepImport` ends its import and that `dispose` goes by the
  kind of a handle, are in `BoundaryRuntime` (`StepImport`, `Dispose`). What is left is the
  checking of arguments and the layout of batches and details.
* **Boundary runtime and transport client.** Requests that reach the runtime before Wasm is
  loaded are left out: they would need a handle nobody has yet. Malformed messages and the
  worker's error event at the transport client are left out: this worker never sends the
  first, and the second rejects everything at once.
* **Import interface** (`features/capture-import`). The page discards every late result by
  one comparison, of the number of the attempt it started with the current one. Whether a
  promise of the client settles, and settles once, is what `Ingestion` shows; what is left
  is which of its texts the page displays.
* **Packet workspace** (`features/packet-detail`): navigation over an immutable dataset; its
  calls are the queries of `CaptureClient`.
* **Benchmarks, fuzz targets, fixtures and scripts**: tools around the program, without state
  of their own.
