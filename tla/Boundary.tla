------------------------------ MODULE Boundary ------------------------------
(***************************************************************************)
(* BoundaryState of crates/wasm-adapter/src/boundary.rs: the owner, inside *)
(* one worker, of running imports, published datasets and the packet       *)
(* cursors that page through them, with its byte admission and its memory  *)
(* of cancelled imports. A call runs to completion before the next one, so *)
(* an operation is one action; calls that fail without changing anything   *)
(* are steps that stutter.                                                 *)
(*                                                                         *)
(* Captures are known by their size in bytes, their index by its size, and *)
(* packet rows by their number. The bytes themselves, the decoded facts    *)
(* and the encoded batches are left out.                                   *)
(***************************************************************************)
EXTENDS Registry

CONSTANTS
    MaxImports, MaxDatasets, MaxCursors,   \* MAX_*_HANDLES
    CaptureSizes,      \* the capture sizes offered to an import, or registered
    Reserves,          \* packet index, parser buffer and auxiliary upper bounds, summed
    IndexSizes,        \* retained_index_bytes of a dataset
    MaxPackets,        \* packet_limit_for_capture, whatever the capture
    MaxBatchRows,      \* MAX_PACKET_BATCH_ROWS
    MaxCaptureBytes,   \* MAX_CAPTURE_BYTES
    MaxTotalCaptureBytes,
    MaxTotalLogicalBytes,
    NoBatch            \* the `None' of pending_batch

ASSUME SlotCapsAssumption ==
    MaxImports \in Nat \ {0} /\ MaxDatasets \in Nat \ {0} /\ MaxCursors \in Nat \ {0}
ASSUME SizesAssumption ==
    /\ CaptureSizes \subseteq Nat /\ Reserves \subseteq Nat /\ IndexSizes \subseteq Nat
    /\ MaxPackets \in Nat /\ MaxBatchRows \in Nat
    /\ MaxCaptureBytes \in Nat /\ MaxTotalCaptureBytes \in Nat /\ MaxTotalLogicalBytes \in Nat

VARIABLES
    imports,        \* Registry<ImportEntry>
    datasets,       \* Registry<CaptureDataset>
    cursors,        \* Registry<PacketCursor>
    cancelled,      \* cancelled_imports: the generation last cancelled in a slot, or 0
    peakOwned,      \* peak_owned_capture_bytes
    peakTransient   \* peak_transient_import_input_bytes

vars == <<imports, datasets, cursors, cancelled, peakOwned, peakTransient>>

HandleKinds == {"Import", "Dataset", "PacketCursor"}

ImportHandles == Handles({"Import"}, 1..MaxImports)
DatasetHandles == Handles({"Dataset"}, 1..MaxDatasets)
CursorHandles == Handles({"PacketCursor"}, 1..MaxCursors)

-----------------------------------------------------------------------------
\* What the three registries hold.

Rows == 0..MaxPackets

\* An import is "importing" until its importer is complete, then "ready".
ImportEntry == [bytes : CaptureSizes, reserve : Reserves, phase : {"importing", "ready"}]

CaptureDataset == [bytes : CaptureSizes, index : IndexSizes, packets : Rows]

PendingPacketBatch == [start : Rows, next : Rows]

PacketCursor == [dataset : DatasetHandles, next : Rows,
                 pending : PendingPacketBatch \cup {NoBatch}]

ASSUME EmptyAssumption == Empty \notin ImportEntry \cup CaptureDataset \cup PacketCursor
ASSUME NoBatchAssumption == NoBatch \notin PendingPacketBatch

Import(h) == ValueOf(imports, h)
Dataset(h) == ValueOf(datasets, h)
Cursor(h) == ValueOf(cursors, h)

-----------------------------------------------------------------------------
\* resource_stats: every total is recomputed from the live entries.

Total(w) ==
    LET sum[n \in 0..Len(w)] == IF n = 0 THEN 0 ELSE sum[n - 1] + w[n]
    IN  sum[Len(w)]

\* What each slot counts for: an empty one for nothing.
Bytes(r) == [s \in DOMAIN r.slots |->
    IF r.slots[s].value = Empty THEN 0 ELSE r.slots[s].value.bytes]
Reserve(imps) == [s \in DOMAIN imps.slots |->
    IF imps.slots[s].value = Empty THEN 0 ELSE imps.slots[s].value.reserve]
Index == [s \in DOMAIN datasets.slots |->
    IF datasets.slots[s].value = Empty THEN 0 ELSE datasets.slots[s].value.index]

TransientInput(imps) == Total(Bytes(imps))
TransientReserve(imps) == Total(Reserve(imps))
RetainedCapture == Total(Bytes(datasets))
RetainedIndex == Total(Index)

Owned(imps) == RetainedCapture + TransientInput(imps)
Logical(imps) == Owned(imps) + RetainedIndex + TransientReserve(imps)

Larger(a, b) == IF a >= b THEN a ELSE b

-----------------------------------------------------------------------------
\* cancelled_imports remembers, for each slot, the handle cancelled there last.

WasCancelled(h) == h.generation # 0 /\ cancelled[h.slot] = h.generation

Init ==
    /\ imports = NewRegistry("Import", MaxImports)
    /\ datasets = NewRegistry("Dataset", MaxDatasets)
    /\ cursors = NewRegistry("PacketCursor", MaxCursors)
    /\ cancelled = [s \in 1..MaxImports |-> 0]
    /\ peakOwned = 0
    /\ peakTransient = 0

-----------------------------------------------------------------------------
\* Imports.

\* Mutant: admission that reserves nothing for the index to come.
AdmittedWithoutReserve(bytes, reserve) ==
    /\ HasInsertCapacity(imports)
    /\ bytes <= MaxCaptureBytes
    /\ Owned(imports) + bytes <= MaxTotalCaptureBytes
    /\ Logical(imports) + bytes <= MaxTotalLogicalBytes

\* Mutant: admission that counts bytes only.
AdmittedWithoutSlot(bytes, reserve) ==
    /\ bytes <= MaxCaptureBytes
    /\ Owned(imports) + bytes <= MaxTotalCaptureBytes
    /\ Logical(imports) + bytes + reserve <= MaxTotalLogicalBytes

\* admit_import_input_with_limits, rechecked on every begin.
Admitted(bytes, reserve) ==
    /\ HasInsertCapacity(imports)
    /\ bytes <= MaxCaptureBytes
    /\ Owned(imports) + bytes <= MaxTotalCaptureBytes
    /\ Logical(imports) + bytes + reserve <= MaxTotalLogicalBytes

\* Mutant: the memory of a cancellation outlives the reuse of its slot.
BeginImportRemembersCancelled(bytes, reserve) ==
    /\ Admitted(bytes, reserve)
    /\ imports' = Inserted(imports, [bytes |-> bytes, reserve |-> reserve, phase |-> "importing"])
    /\ peakOwned' = Larger(peakOwned, Owned(imports) + bytes)
    /\ peakTransient' = Larger(peakTransient, TransientInput(imports) + bytes)
    /\ UNCHANGED <<datasets, cursors, cancelled>>

BeginImport(bytes, reserve) ==
    /\ Admitted(bytes, reserve)
    /\ imports' = Inserted(imports, [bytes |-> bytes, reserve |-> reserve, phase |-> "importing"])
    /\ cancelled' = [cancelled EXCEPT ![InsertSlot(imports)] = 0]
    /\ peakOwned' = Larger(peakOwned, Owned(imports) + bytes)
    /\ peakTransient' = Larger(peakTransient, TransientInput(imports) + bytes)
    /\ UNCHANGED <<datasets, cursors>>

\* The checks advance_import, finish_import and import_progress begin with.
ImportStatus(h) == IF WasCancelled(h) THEN "CANCELLED" ELSE Lookup(imports, h, HandleKinds)

\* A step that completes the importer. One that only makes progress, or wants a
\* larger budget, or finds the importer complete already, changes nothing here.
AdvanceToReady(h) ==
    /\ ImportStatus(h) = "OK"
    /\ Import(h).phase = "importing"
    /\ imports' = Updated(imports, h, [Import(h) EXCEPT !.phase = "ready"])
    /\ UNCHANGED <<datasets, cursors, cancelled, peakOwned, peakTransient>>

\* A fatal importer error disposes the import, which is not a cancellation.
AdvanceFails(h) ==
    /\ ImportStatus(h) = "OK"
    /\ Import(h).phase = "importing"
    /\ imports' = Removed(imports, h)
    /\ UNCHANGED <<datasets, cursors, cancelled, peakOwned, peakTransient>>

\* The checks of register_dataset, with the imports it finds.
Registrable(imps, d) ==
    /\ HasInsertCapacity(datasets)
    /\ d.bytes <= MaxCaptureBytes
    /\ d.packets <= MaxPackets
    /\ Owned(imps) + d.bytes <= MaxTotalCaptureBytes
    /\ Logical(imps) + d.bytes + d.index <= MaxTotalLogicalBytes

\* Mutant: a registration that leaves the peak alone.
PublishWithoutPeak(imps, d) ==
    /\ datasets' = Inserted(datasets, d)
    /\ UNCHANGED peakOwned

Publish(imps, d) ==
    /\ datasets' = Inserted(datasets, d)
    /\ peakOwned' = Larger(peakOwned, Owned(imps) + d.bytes)

\* What finish may make of a ready import whose facts are valid: a dataset of
\* its bytes, with an index no larger than the importer's limits allow.
Finished(e) ==
    {d \in CaptureDataset : d.bytes = e.bytes /\ d.index <= e.reserve}

\* The import is consumed before its dataset is validated and registered.
FinishImport(h) ==
    /\ ImportStatus(h) = "OK"
    /\ Import(h).phase = "ready"
    /\ HasInsertCapacity(datasets)
    /\ imports' = Removed(imports, h)
    /\ \/ UNCHANGED <<datasets, peakOwned>>
       \/ \E d \in Finished(Import(h)) :
            IF Registrable(Removed(imports, h), d) THEN Publish(Removed(imports, h), d)
            ELSE UNCHANGED <<datasets, peakOwned>>
    /\ UNCHANGED <<cursors, cancelled, peakTransient>>

CancelImport(h) ==
    /\ ~ WasCancelled(h)
    /\ RemoveStatus(imports, h, HandleKinds) = "DISPOSED"
    /\ imports' = Removed(imports, h)
    /\ cancelled' = [cancelled EXCEPT ![h.slot] = h.generation]
    /\ UNCHANGED <<datasets, cursors, peakOwned, peakTransient>>

-----------------------------------------------------------------------------
\* Datasets and the cursors that depend on them.

RegisterDataset(d) ==
    /\ Registrable(imports, d)
    /\ Publish(imports, d)
    /\ UNCHANGED <<imports, cursors, cancelled, peakTransient>>

\* Mutant: disposal takes every cursor along.
AllCursors(h) == Occupied(cursors)

CursorsOf(h) == {s \in Occupied(cursors) : cursors.slots[s].value.dataset = h}

\* Mutant: disposal leaves the dependent cursors behind.
DisposeDatasetAlone(h) ==
    /\ RemoveStatus(datasets, h, HandleKinds) = "DISPOSED"
    /\ datasets' = Removed(datasets, h)
    /\ UNCHANGED <<imports, cursors, cancelled, peakOwned, peakTransient>>

DisposeDataset(h) ==
    /\ RemoveStatus(datasets, h, HandleKinds) = "DISPOSED"
    /\ datasets' = Removed(datasets, h)
    /\ \E order \in AscendingOrders(ReusableOf(cursors, CursorsOf(h))) :
            cursors' = RemovedWhere(cursors, CursorsOf(h), order)
    /\ UNCHANGED <<imports, cancelled, peakOwned, peakTransient>>

CreatePacketCursor(h, row) ==
    /\ Lookup(datasets, h, HandleKinds) = "OK"
    /\ row <= Dataset(h).packets
    /\ HasInsertCapacity(cursors)
    /\ cursors' = Inserted(cursors, [dataset |-> h, next |-> row, pending |-> NoBatch])
    /\ UNCHANGED <<imports, datasets, cancelled, peakOwned, peakTransient>>

\* The rows of a batch: those asked for and left, as far as the byte budget
\* holds them; a budget without room for one of them is an error.
ReadPacketBatch(h, requested, fitting) ==
    LET cursor    == Cursor(h)
        remaining == Dataset(cursor.dataset).packets - cursor.next
        available == IF requested <= remaining THEN requested ELSE remaining
        rows      == IF available <= fitting THEN available ELSE fitting
    IN  /\ requested <= MaxBatchRows
        /\ Lookup(cursors, h, HandleKinds) = "OK"
        /\ cursor.pending = NoBatch
        /\ Lookup(datasets, cursor.dataset, HandleKinds) = "OK"
        /\ available > 0 => fitting > 0
        /\ cursors' = Updated(cursors, h,
                [cursor EXCEPT !.pending = [start |-> cursor.next, next |-> cursor.next + rows]])
        /\ UNCHANGED <<imports, datasets, cancelled, peakOwned, peakTransient>>

\* resolve_packet_batch: the acknowledged range must be the pending one.
ResolvePacketBatch(h, start, next, after) ==
    LET cursor == Cursor(h)
    IN  /\ Lookup(cursors, h, HandleKinds) = "OK"
        /\ cursor.pending # NoBatch
        /\ start = cursor.pending.start /\ next = cursor.pending.next
        /\ cursor.next = cursor.pending.start /\ cursor.pending.start <= cursor.pending.next
        /\ cursors' = Updated(cursors, h, [cursor EXCEPT !.next = after, !.pending = NoBatch])
        /\ UNCHANGED <<imports, datasets, cancelled, peakOwned, peakTransient>>

CommitPacketBatch(h, start, next) == ResolvePacketBatch(h, start, next, next)
DiscardPacketBatch(h, start, next) == ResolvePacketBatch(h, start, next, start)

DisposePacketCursor(h) ==
    /\ RemoveStatus(cursors, h, HandleKinds) = "DISPOSED"
    /\ cursors' = Removed(cursors, h)
    /\ UNCHANGED <<imports, datasets, cancelled, peakOwned, peakTransient>>

-----------------------------------------------------------------------------
Next ==
    \/ \E bytes \in CaptureSizes, reserve \in Reserves : BeginImport(bytes, reserve)
    \/ \E h \in ImportHandles : AdvanceToReady(h)
    \/ \E h \in ImportHandles : AdvanceFails(h)
    \/ \E h \in ImportHandles : FinishImport(h)
    \/ \E h \in ImportHandles : CancelImport(h)
    \/ \E d \in CaptureDataset : RegisterDataset(d)
    \/ \E h \in DatasetHandles : DisposeDataset(h)
    \/ \E h \in DatasetHandles, row \in Rows : CreatePacketCursor(h, row)
    \/ \E h \in CursorHandles, requested, fitting \in 0..MaxBatchRows :
            ReadPacketBatch(h, requested, fitting)
    \/ \E h \in CursorHandles, start, next \in Rows : CommitPacketBatch(h, start, next)
    \/ \E h \in CursorHandles, start, next \in Rows : DiscardPacketBatch(h, start, next)
    \/ \E h \in CursorHandles : DisposePacketCursor(h)

Spec == Init /\ [][Next]_vars

-----------------------------------------------------------------------------
\* Types of BoundaryState, and of what its registries hold.
TypeOK ==
    /\ WellTyped(imports, ImportEntry) /\ imports.maxSlots = MaxImports
    /\ WellTyped(datasets, CaptureDataset) /\ datasets.maxSlots = MaxDatasets
    /\ WellTyped(cursors, PacketCursor) /\ cursors.maxSlots = MaxCursors
    /\ imports.kind = "Import" /\ datasets.kind = "Dataset" /\ cursors.kind = "PacketCursor"
    /\ cancelled \in [1..MaxImports -> 0..MaxGeneration]
    /\ peakOwned \in Nat /\ peakTransient \in Nat

\* No cursor outlives its dataset, and none comes to page through another one:
\* disposal cascades to every dependent cursor, and a reused slot never answers
\* for the dataset that left it. prepare_packet_batch_limited relies on it.
CursorsReferToLiveDatasets ==
    \A s \in Occupied(cursors) : Names(datasets, cursors.slots[s].value.dataset)

\* A cursor stays inside its dataset, and a pending batch continues exactly
\* where the cursor stands: the two internal errors of prepare and resolve
\* (a cursor past the end, an inconsistent pending range) cannot be reached.
CursorStaysInRange ==
    \A s \in Occupied(cursors) :
        LET cursor == cursors.slots[s].value
        IN  /\ cursor.next <= Dataset(cursor.dataset).packets
            /\ cursor.pending # NoBatch =>
                 /\ cursor.pending.start = cursor.next
                 /\ cursor.pending.next \in cursor.next..Dataset(cursor.dataset).packets
                 /\ cursor.pending.next - cursor.pending.start <= MaxBatchRows

\* No internal error of the batch calls can be reached: every cursor pages
\* through a live dataset, the one it was opened on, from a row it has.
CursorsAreUsable == CursorsReferToLiveDatasets /\ CursorStaysInRange

\* A slot's memory of a cancellation is of its latest holder and of no live
\* import: no running import is answered "capture import was cancelled", and
\* a repeated cancellation never reaches the importer that reuses the slot.
CancelledMemoryExact ==
    \A s \in 1..MaxImports :
        cancelled[s] # 0 =>
            /\ s \in DOMAIN imports.slots
            /\ imports.slots[s].value = Empty
            /\ imports.slots[s].lastDisposed = cancelled[s]

\* Cumulative admission holds at every moment, not only when it is checked, and
\* the peaks, kept by hand in two places, bound what is held now and no more
\* than what may ever be.
WithinBudgets ==
    /\ Logical(imports) <= MaxTotalLogicalBytes
    /\ Owned(imports) <= peakOwned /\ peakOwned <= MaxTotalCaptureBytes
    /\ TransientInput(imports) <= peakTransient /\ peakTransient <= peakOwned

\* What the admission of an import reserves is enough for what it publishes:
\* a ready import that finds a dataset slot, and whose facts are valid, is
\* published. finish_import consumes it before register_dataset checks again.
ReadyImportPublishes ==
    HasInsertCapacity(datasets) =>
        \A s \in Occupied(imports) :
            LET h == HandleAt(imports, s)
            IN  \A d \in Finished(Import(h)) : Registrable(Removed(imports, h), d)

-----------------------------------------------------------------------------
\* The registries, admission and tables implement the capture store.
HeldIn(r) == [h \in LiveHandles(r) |-> ValueOf(r, h)]

Store ==
    INSTANCE CaptureStore
    WITH importing <- HeldIn(imports), published <- HeldIn(datasets), paging <- HeldIn(cursors),
         gone <- DeadHandles(imports) \cup DeadHandles(datasets) \cup DeadHandles(cursors)

\* Every operation is, for its caller, one atomic change of the capture store:
\* a finished import and its dataset trade places, a disposed dataset leaves
\* with exactly its cursors, and no handle is ever given out twice.
ImplementsCaptureStore == Store!Spec
=============================================================================
