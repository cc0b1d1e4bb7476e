--------------------------- MODULE BoundaryProofs ---------------------------
(***************************************************************************)
(* For any slot caps, any last generation, any captures and any byte caps: *)
(* the three registries stay well formed, no cursor outlives its dataset   *)
(* or leaves its range, the memory of a cancellation never shadows a live  *)
(* import, and what is held stays within its budgets, so that an import    *)
(* once admitted can be published. The totals are sums over the slots: how *)
(* one changes with a slot is proved first, by induction on the length.    *)
(* Last, every step is one of the abstract store of captures, or none.     *)
(***************************************************************************)
EXTENDS Boundary, RegistryLemmas, WellFoundedInduction

\* The registries on their own: well formed, of their kind and of their cap.
RegistriesOK ==
    /\ WellFormed(imports, ImportEntry) /\ imports.kind = "Import"
    /\ imports.maxSlots = MaxImports
    /\ WellFormed(datasets, CaptureDataset) /\ datasets.kind = "Dataset"
    /\ datasets.maxSlots = MaxDatasets
    /\ WellFormed(cursors, PacketCursor) /\ cursors.kind = "PacketCursor"
    /\ cursors.maxSlots = MaxCursors
    /\ cancelled \in [1..MaxImports -> 0..MaxGeneration]

\* What relates them. The range of a cursor is inductive only while its dataset
\* is live, and its dataset stays live only because disposal cascades.
Inv ==
    /\ RegistriesOK
    /\ CursorsReferToLiveDatasets
    /\ CursorStaysInRange
    /\ CancelledMemoryExact

\* `None' is not a resource of any of the registries.
LEMMA ResourcesNotEmpty ==
    Empty \notin ImportEntry /\ Empty \notin CaptureDataset /\ Empty \notin PacketCursor
  BY EmptyAssumption

\* The invariant holds of a new boundary.
LEMMA InitInv == Init => Inv
<1> SUFFICES ASSUME Init PROVE Inv
  OBVIOUS
<1>1. RegistriesOK
  <2>1. 0 \in 0..MaxGeneration
    BY MaxGenerationAssumption
  <2>2. MaxImports \in Nat /\ MaxDatasets \in Nat /\ MaxCursors \in Nat
    BY SlotCapsAssumption
  <2> QED BY <2>1, <2>2, NewWellFormed DEF Init, RegistriesOK, NewRegistry
<1>2. CursorsReferToLiveDatasets /\ CursorStaysInRange
  BY DEF Init, NewRegistry, CursorsReferToLiveDatasets, CursorStaysInRange, Occupied
<1>3. CancelledMemoryExact
  BY DEF Init, CancelledMemoryExact
<1> QED BY <1>1, <1>2, <1>3 DEF Inv

-----------------------------------------------------------------------------
\* Two live handles of one registry that share a slot are the same handle.
LEMMA SameSlotSameHandle ==
    ASSUME NEW r, NEW kinds, NEW tokens, NEW g \in Handles(kinds, tokens),
           NEW h \in Handles(kinds, tokens), Names(r, g), Names(r, h), g.slot = h.slot
    PROVE  g = h
  BY DEF Names, Handles

\* A live cursor, its type and its dataset.
LEMMA CursorFacts ==
    ASSUME RegistriesOK, CursorsReferToLiveDatasets, NEW s \in Occupied(cursors)
    PROVE  LET cursor == cursors.slots[s].value IN
           /\ cursor \in PacketCursor
           /\ Names(datasets, cursor.dataset)
           /\ Dataset(cursor.dataset) \in CaptureDataset
<1> DEFINE cursor == cursors.slots[s].value
<1>1. s \in DOMAIN cursors.slots /\ cursor # Empty
  BY DEF Occupied
<1>2. cursors.slots[s] \in SlotType(PacketCursor)
  BY <1>1 DEF RegistriesOK, WellFormed, WellTyped
<1>3. cursor \in PacketCursor
  BY <1>1, <1>2 DEF SlotType
<1>4. Names(datasets, cursor.dataset)
  BY DEF CursorsReferToLiveDatasets
<1>5. datasets.slots[cursor.dataset.slot] \in SlotType(CaptureDataset)
  <2>1. datasets.slots \in Seq(SlotType(CaptureDataset))
    BY DEF RegistriesOK, WellFormed, WellTyped
  <2>2. cursor.dataset.slot \in DOMAIN datasets.slots
    BY <1>4 DEF Names
  <2> HIDE DEF cursor
  <2> QED BY <2>1, <2>2
<1>6. Dataset(cursor.dataset) \in CaptureDataset
  BY <1>4, <1>5 DEF SlotType, Dataset, ValueOf, Names
<1> QED BY <1>3, <1>4, <1>6

\* The cursors keep their datasets and ranges when neither their registry nor
\* the datasets they name change.
LEMMA CursorsUndisturbed ==
    ASSUME CursorsReferToLiveDatasets, CursorStaysInRange, UNCHANGED cursors,
           \A s \in Occupied(cursors) :
              LET g == cursors.slots[s].value.dataset IN
              /\ Names(datasets', g) /\ ValueOf(datasets', g) = ValueOf(datasets, g)
    PROVE  CursorsReferToLiveDatasets' /\ CursorStaysInRange'
<1>1. Occupied(cursors)' = Occupied(cursors)
  BY DEF Occupied
<1>2. CursorsReferToLiveDatasets'
  BY <1>1 DEF CursorsReferToLiveDatasets
<1>3. \A s \in Occupied(cursors) :
         Dataset(cursors.slots[s].value.dataset)' = Dataset(cursors.slots[s].value.dataset)
  BY DEF Dataset
<1>4. CursorStaysInRange'
  BY <1>1, <1>3 DEF CursorStaysInRange
<1> QED BY <1>2, <1>4

\* A removal of a live import leaves the memory of cancellations exact, whether
\* or not it is remembered as one: its slot remembered none.
LEMMA RemovalKeepsMemory ==
    ASSUME RegistriesOK, CancelledMemoryExact, NEW h \in ImportHandles, Names(imports, h),
           imports' = Removed(imports, h),
           \/ UNCHANGED cancelled
           \/ cancelled' = [cancelled EXCEPT ![h.slot] = h.generation]
    PROVE  CancelledMemoryExact'
<1>1. WellFormed(imports, ImportEntry)
  BY DEF RegistriesOK
<1>2. /\ DOMAIN imports'.slots = DOMAIN imports.slots
      /\ imports'.slots[h.slot].value = Empty /\ imports'.slots[h.slot].lastDisposed = h.generation
      /\ \A t \in DOMAIN imports.slots \ {h.slot} : imports'.slots[t] = imports.slots[t]
  BY <1>1, RemovedSlots
<1>3. h.slot \in DOMAIN imports.slots /\ imports.slots[h.slot].value # Empty
  BY DEF Names
<1>4. h.slot \in 1..MaxImports
  BY DEF ImportHandles, Handles
<1>5. cancelled[h.slot] = 0
  BY <1>3, <1>4 DEF CancelledMemoryExact
<1>6. ASSUME NEW s \in 1..MaxImports, cancelled'[s] # 0
      PROVE  /\ s \in DOMAIN imports'.slots
             /\ imports'.slots[s].value = Empty
             /\ imports'.slots[s].lastDisposed = cancelled'[s]
  <2>1. cancelled \in [1..MaxImports -> 0..MaxGeneration]
    BY DEF RegistriesOK
  <2>2. CASE s = h.slot
    <3>1. cancelled'[s] = h.generation
      BY <1>4, <1>5, <1>6, <2>1, <2>2
    <3> QED BY <1>2, <1>3, <2>2, <3>1
  <2>3. CASE s # h.slot
    <3>1. cancelled'[s] = cancelled[s]
      BY <2>1, <2>3
    <3>2. s \in DOMAIN imports.slots /\ imports.slots[s].value = Empty
          /\ imports.slots[s].lastDisposed = cancelled[s]
      BY <1>6, <3>1 DEF CancelledMemoryExact
    <3> QED BY <1>2, <2>3, <3>1, <3>2
  <2> QED BY <2>2, <2>3
<1> QED BY <1>6 DEF CancelledMemoryExact

-----------------------------------------------------------------------------
\* Beginning an import fills a slot and forgets what was cancelled in it.
LEMMA BeginImportInv ==
    ASSUME Inv, NEW bytes \in CaptureSizes, NEW reserve \in Reserves, BeginImport(bytes, reserve)
    PROVE  Inv'
<1> DEFINE entry == [bytes |-> bytes, reserve |-> reserve, phase |-> "importing"]
           slot == InsertSlot(imports)
<1>1. RegistriesOK /\ CursorsReferToLiveDatasets /\ CursorStaysInRange /\ CancelledMemoryExact
  BY DEF Inv
<1>2. entry \in ImportEntry /\ HasInsertCapacity(imports) /\ imports' = Inserted(imports, entry)
  BY DEF BeginImport, Admitted, ImportEntry
<1>3. cancelled' = [cancelled EXCEPT ![slot] = 0] /\ UNCHANGED <<datasets, cursors>>
  BY DEF BeginImport
<1> HIDE DEF entry, slot
<1>4. WellFormed(imports', ImportEntry)
  BY <1>1, <1>2, ResourcesNotEmpty, InsertedWellFormed DEF RegistriesOK
<1>5. /\ slot \in 1..MaxImports
      /\ DOMAIN imports'.slots = DOMAIN imports.slots \cup {slot}
      /\ \A t \in DOMAIN imports.slots \ {slot} : imports'.slots[t] = imports.slots[t]
      /\ imports'.kind = "Import" /\ imports'.maxSlots = MaxImports
  BY <1>1, <1>2, ResourcesNotEmpty, InsertedSlots DEF RegistriesOK, slot
<1>6. RegistriesOK'
  <2>1. cancelled' \in [1..MaxImports -> 0..MaxGeneration]
    <3>1. 0 \in 0..MaxGeneration
      BY MaxGenerationAssumption
    <3> QED BY <3>1, <1>1, <1>3 DEF RegistriesOK
  <2> QED BY <2>1, <1>1, <1>3, <1>4, <1>5 DEF RegistriesOK
<1>7. CancelledMemoryExact'
  <2>1. cancelled \in [1..MaxImports -> 0..MaxGeneration]
    BY <1>1 DEF RegistriesOK
  <2>2. ASSUME NEW s \in 1..MaxImports, cancelled'[s] # 0
        PROVE  /\ s \in DOMAIN imports'.slots
               /\ imports'.slots[s].value = Empty
               /\ imports'.slots[s].lastDisposed = cancelled'[s]
    <3>1. s # slot
      BY <2>1, <2>2, <1>3, <1>5
    <3>2. cancelled'[s] = cancelled[s]
      BY <2>1, <3>1, <1>3
    <3>3. /\ s \in DOMAIN imports.slots /\ imports.slots[s].value = Empty
          /\ imports.slots[s].lastDisposed = cancelled[s]
      BY <1>1, <2>2, <3>2 DEF CancelledMemoryExact
    <3> QED BY <3>1, <3>2, <3>3, <1>5
  <2> QED BY <2>2 DEF CancelledMemoryExact
<1>8. CursorsReferToLiveDatasets' /\ CursorStaysInRange'
  BY <1>1, <1>3, CursorsUndisturbed DEF CursorsReferToLiveDatasets
<1> QED BY <1>6, <1>7, <1>8 DEF Inv

\* Whatever consumes an import, when it changes nothing else of the invariant.
LEMMA ImportRemovalInv ==
    ASSUME RegistriesOK, CancelledMemoryExact, NEW h \in ImportHandles, Names(imports, h),
           imports' = Removed(imports, h),
           \/ UNCHANGED cancelled
           \/ cancelled' = [cancelled EXCEPT ![h.slot] = h.generation]
    PROVE  /\ WellFormed(imports', ImportEntry) /\ imports'.kind = "Import"
           /\ imports'.maxSlots = MaxImports
           /\ cancelled' \in [1..MaxImports -> 0..MaxGeneration]
           /\ CancelledMemoryExact'
<1>1. WellFormed(imports', ImportEntry)
  BY RemovedWellFormed DEF RegistriesOK
<1>2. imports'.kind = "Import" /\ imports'.maxSlots = MaxImports
  BY DEF Removed, With, RegistriesOK
<1>3. cancelled' \in [1..MaxImports -> 0..MaxGeneration]
  BY DEF RegistriesOK, ImportHandles, Handles
<1> QED BY <1>1, <1>2, <1>3, RemovalKeepsMemory

\* The step that completes an importer writes to one live entry.
LEMMA AdvanceToReadyInv ==
    ASSUME Inv, NEW h \in ImportHandles, AdvanceToReady(h)
    PROVE  Inv'
<1> DEFINE entry == [Import(h) EXCEPT !.phase = "ready"]
<1>1. RegistriesOK /\ CursorsReferToLiveDatasets /\ CursorStaysInRange /\ CancelledMemoryExact
  BY DEF Inv
<1>2. Names(imports, h) /\ imports' = Updated(imports, h, entry)
      /\ UNCHANGED <<datasets, cursors, cancelled>>
  BY LookupOK DEF AdvanceToReady, ImportStatus
<1>3. entry \in ImportEntry
  <2>1. imports.slots[h.slot] \in SlotType(ImportEntry) /\ Import(h) # Empty
    BY <1>1, <1>2 DEF RegistriesOK, WellFormed, WellTyped, Names, Import, ValueOf
  <2>2. Import(h) \in ImportEntry
    BY <2>1 DEF SlotType, Import, ValueOf
  <2> QED BY <2>2 DEF ImportEntry
<1> HIDE DEF entry
<1>4. /\ WellFormed(imports', ImportEntry)
      /\ DOMAIN imports'.slots = DOMAIN imports.slots
      /\ \A t \in DOMAIN imports.slots \ {h.slot} : imports'.slots[t] = imports.slots[t]
      /\ imports'.kind = "Import" /\ imports'.maxSlots = MaxImports
  BY <1>1, <1>2, <1>3, ResourcesNotEmpty, UpdatedWellFormed, UpdatedSlots DEF RegistriesOK
<1>5. RegistriesOK'
  BY <1>1, <1>2, <1>4 DEF RegistriesOK
<1>6. CancelledMemoryExact'
  <2>1. \A s \in 1..MaxImports : cancelled[s] # 0 => s # h.slot
    BY <1>1, <1>2 DEF CancelledMemoryExact, Names
  <2> QED BY <2>1, <1>1, <1>2, <1>4 DEF CancelledMemoryExact
<1>7. CursorsReferToLiveDatasets' /\ CursorStaysInRange'
  BY <1>1, <1>2, CursorsUndisturbed DEF CursorsReferToLiveDatasets
<1> QED BY <1>5, <1>6, <1>7 DEF Inv

\* Registering a dataset leaves every dataset there was where it was.
LEMMA DatasetInsertedInv ==
    ASSUME RegistriesOK, CursorsReferToLiveDatasets, CursorStaysInRange,
           NEW d \in CaptureDataset, HasInsertCapacity(datasets),
           datasets' = Inserted(datasets, d), UNCHANGED cursors
    PROVE  /\ WellFormed(datasets', CaptureDataset) /\ datasets'.kind = "Dataset"
           /\ datasets'.maxSlots = MaxDatasets
           /\ CursorsReferToLiveDatasets' /\ CursorStaysInRange'
<1>1. WellFormed(datasets, CaptureDataset) /\ Empty \notin CaptureDataset
  BY ResourcesNotEmpty DEF RegistriesOK
<1>2. WellFormed(datasets', CaptureDataset)
  BY <1>1, InsertedWellFormed
<1>3. datasets'.kind = "Dataset" /\ datasets'.maxSlots = MaxDatasets
  BY <1>1, InsertedSlots DEF RegistriesOK
<1>4. \A g : Names(datasets, g) =>
           Names(datasets', g) /\ ValueOf(datasets', g) = ValueOf(datasets, g)
  BY <1>1, InsertedKeepsNames
<1>5. CursorsReferToLiveDatasets' /\ CursorStaysInRange'
  BY <1>4, CursorsUndisturbed DEF CursorsReferToLiveDatasets
<1> QED BY <1>2, <1>3, <1>5

\* Finishing consumes the import, and registers its dataset or loses it.
LEMMA FinishImportInv ==
    ASSUME Inv, NEW h \in ImportHandles, FinishImport(h)
    PROVE  Inv'
<1>1. RegistriesOK /\ CursorsReferToLiveDatasets /\ CursorStaysInRange /\ CancelledMemoryExact
  BY DEF Inv
<1>2. /\ Names(imports, h) /\ imports' = Removed(imports, h)
      /\ UNCHANGED <<cursors, cancelled>>
      /\ \/ UNCHANGED datasets
         \/ \E d \in CaptureDataset : HasInsertCapacity(datasets) /\ datasets' = Inserted(datasets, d)
  BY LookupOK DEF FinishImport, ImportStatus, Finished, Registrable, Publish
<1>3. /\ WellFormed(imports', ImportEntry) /\ imports'.kind = "Import"
      /\ imports'.maxSlots = MaxImports
      /\ cancelled' \in [1..MaxImports -> 0..MaxGeneration]
      /\ CancelledMemoryExact'
  BY <1>1, <1>2, ImportRemovalInv
<1>4. /\ WellFormed(datasets', CaptureDataset) /\ datasets'.kind = "Dataset"
      /\ datasets'.maxSlots = MaxDatasets
      /\ CursorsReferToLiveDatasets' /\ CursorStaysInRange'
  <2>1. CASE UNCHANGED datasets
    BY <1>1, <1>2, <2>1, CursorsUndisturbed DEF CursorsReferToLiveDatasets, RegistriesOK
  <2>2. CASE \E d \in CaptureDataset :
               HasInsertCapacity(datasets) /\ datasets' = Inserted(datasets, d)
    BY <1>1, <1>2, <2>2, DatasetInsertedInv
  <2> QED BY <1>2, <2>1, <2>2
<1> QED BY <1>1, <1>2, <1>3, <1>4 DEF Inv, RegistriesOK

\* A failed or cancelled import is consumed, and nothing else happens.
LEMMA ImportAbandonedInv ==
    ASSUME Inv, NEW h \in ImportHandles, AdvanceFails(h) \/ CancelImport(h)
    PROVE  Inv'
<1>1. RegistriesOK /\ CursorsReferToLiveDatasets /\ CursorStaysInRange /\ CancelledMemoryExact
  BY DEF Inv
<1>2. /\ Names(imports, h) /\ imports' = Removed(imports, h)
      /\ UNCHANGED <<datasets, cursors>>
      /\ \/ UNCHANGED cancelled
         \/ cancelled' = [cancelled EXCEPT ![h.slot] = h.generation]
  BY LookupOK DEF AdvanceFails, CancelImport, ImportStatus
<1>3. /\ WellFormed(imports', ImportEntry) /\ imports'.kind = "Import"
      /\ imports'.maxSlots = MaxImports
      /\ cancelled' \in [1..MaxImports -> 0..MaxGeneration]
      /\ CancelledMemoryExact'
  BY <1>1, <1>2, ImportRemovalInv
<1>4. CursorsReferToLiveDatasets' /\ CursorStaysInRange'
  BY <1>1, <1>2, CursorsUndisturbed DEF CursorsReferToLiveDatasets
<1> QED BY <1>1, <1>2, <1>3, <1>4 DEF Inv, RegistriesOK

-----------------------------------------------------------------------------
\* Actions that leave the imports alone leave the memory of cancellations exact.
LEMMA MemoryUndisturbed ==
    ASSUME CancelledMemoryExact, UNCHANGED <<imports, cancelled>>
    PROVE  CancelledMemoryExact'
  BY DEF CancelledMemoryExact

\* Registration of a dataset from elsewhere.
LEMMA RegisterDatasetInv ==
    ASSUME Inv, NEW d \in CaptureDataset, RegisterDataset(d)
    PROVE  Inv'
<1>1. RegistriesOK /\ CursorsReferToLiveDatasets /\ CursorStaysInRange /\ CancelledMemoryExact
  BY DEF Inv
<1>2. /\ HasInsertCapacity(datasets) /\ datasets' = Inserted(datasets, d)
      /\ UNCHANGED <<imports, cursors, cancelled>>
  BY DEF RegisterDataset, Registrable, Publish
<1>3. /\ WellFormed(datasets', CaptureDataset) /\ datasets'.kind = "Dataset"
      /\ datasets'.maxSlots = MaxDatasets
      /\ CursorsReferToLiveDatasets' /\ CursorStaysInRange'
  BY <1>1, <1>2, DatasetInsertedInv
<1> QED BY <1>1, <1>2, <1>3, MemoryUndisturbed DEF Inv, RegistriesOK

\* Disposal takes a dataset and every cursor of it: the cursors that stay name
\* other datasets, in other slots, so theirs are not the ones that left.
LEMMA DisposeDatasetInv ==
    ASSUME Inv, NEW h \in DatasetHandles, DisposeDataset(h)
    PROVE  Inv'
<1>1. RegistriesOK /\ CursorsReferToLiveDatasets /\ CursorStaysInRange /\ CancelledMemoryExact
  BY DEF Inv
<1>2. Names(datasets, h) /\ datasets' = Removed(datasets, h) /\ UNCHANGED <<imports, cancelled>>
  BY LookupOK DEF DisposeDataset
<1>3. PICK order \in AscendingOrders(ReusableOf(cursors, CursorsOf(h))) :
          cursors' = RemovedWhere(cursors, CursorsOf(h), order)
  BY DEF DisposeDataset
<1>4. CursorsOf(h) \in SUBSET Occupied(cursors)
  BY DEF CursorsOf
<1>5. /\ WellFormed(datasets', CaptureDataset)
      /\ datasets'.kind = "Dataset" /\ datasets'.maxSlots = MaxDatasets
      /\ DOMAIN datasets'.slots = DOMAIN datasets.slots
      /\ \A t \in DOMAIN datasets.slots \ {h.slot} : datasets'.slots[t] = datasets.slots[t]
  BY <1>1, <1>2, RemovedWellFormed, RemovedSlots DEF RegistriesOK
<1>6. WellFormed(cursors', PacketCursor)
  BY <1>1, <1>3, <1>4, RemovedWhereWellFormed DEF RegistriesOK
<1>7. /\ cursors'.kind = "PacketCursor" /\ cursors'.maxSlots = MaxCursors
      /\ Occupied(cursors') = Occupied(cursors) \ CursorsOf(h)
      /\ \A s \in Occupied(cursors') : cursors'.slots[s] = cursors.slots[s]
  <2>1. LET R == RemovedWhere(cursors, CursorsOf(h), order) IN
        /\ \A t \in DOMAIN cursors.slots \ CursorsOf(h) : R.slots[t] = cursors.slots[t]
        /\ Occupied(R) = Occupied(cursors) \ CursorsOf(h)
        /\ R.kind = cursors.kind /\ R.maxSlots = cursors.maxSlots
    BY <1>4, RemovedWhereSlots
  <2>2. \A t \in Occupied(cursors) : t \in DOMAIN cursors.slots
    BY DEF Occupied
  <2>3. cursors.kind = "PacketCursor" /\ cursors.maxSlots = MaxCursors
    BY <1>1 DEF RegistriesOK
  <2> QED BY <1>3, <2>1, <2>2, <2>3
<1>8. ASSUME NEW s \in Occupied(cursors')
      PROVE  LET g == cursors'.slots[s].value.dataset IN
             /\ g = cursors.slots[s].value.dataset
             /\ Names(datasets', g) /\ ValueOf(datasets', g) = ValueOf(datasets, g)
  <2> DEFINE g == cursors.slots[s].value.dataset
  <2>1. s \in Occupied(cursors) /\ g # h /\ cursors'.slots[s] = cursors.slots[s]
    BY <1>7 DEF CursorsOf
  <2>2. Names(datasets, g) /\ g \in DatasetHandles
    BY <1>1, <2>1, CursorFacts DEF PacketCursor
  <2> HIDE DEF g
  <2>3. g.slot # h.slot
    BY <1>2, <2>1, <2>2, SameSlotSameHandle DEF DatasetHandles
  <2>4. Names(datasets', g) /\ ValueOf(datasets', g) = ValueOf(datasets, g)
    BY <1>1, <1>5, <2>2, <2>3 DEF Names, ValueOf, RegistriesOK
  <2> QED BY <2>1, <2>4 DEF g
<1>9. RegistriesOK'
  BY <1>1, <1>2, <1>5, <1>6, <1>7 DEF RegistriesOK
<1>10. CursorsReferToLiveDatasets'
  BY <1>8 DEF CursorsReferToLiveDatasets, Occupied
<1>11. CursorStaysInRange'
  <2>1. ASSUME NEW s \in Occupied(cursors')
        PROVE  LET cursor == cursors'.slots[s].value
                   d == ValueOf(datasets', cursor.dataset)
               IN  /\ cursor.next <= d.packets
                   /\ cursor.pending # NoBatch =>
                        /\ cursor.pending.start = cursor.next
                        /\ cursor.pending.next \in cursor.next..d.packets
                        /\ cursor.pending.next - cursor.pending.start <= MaxBatchRows
    <3>1. s \in Occupied(cursors) /\ cursors'.slots[s] = cursors.slots[s]
      BY <1>7
    <3>2. ValueOf(datasets', cursors'.slots[s].value.dataset) = Dataset(cursors.slots[s].value.dataset)
      BY <1>8, <3>1 DEF Dataset
    <3> QED BY <1>1, <3>1, <3>2 DEF CursorStaysInRange
  <2> QED BY <2>1 DEF CursorStaysInRange, Occupied, Dataset
<1> QED BY <1>1, <1>2, <1>9, <1>10, <1>11, MemoryUndisturbed DEF Inv

-----------------------------------------------------------------------------
\* What CursorStaysInRange says of one cursor.
InRange(cursor) ==
    /\ cursor.next <= Dataset(cursor.dataset).packets
    /\ cursor.pending # NoBatch =>
         /\ cursor.pending.start = cursor.next
         /\ cursor.pending.next \in cursor.next..Dataset(cursor.dataset).packets
         /\ cursor.pending.next - cursor.pending.start <= MaxBatchRows

\* Storing a cursor of a live dataset, in its range, in a slot of its own or in
\* place of what it was, keeps what is known of all cursors.
LEMMA CursorStored ==
    ASSUME RegistriesOK, CursorsReferToLiveDatasets, CursorStaysInRange, CancelledMemoryExact,
           UNCHANGED <<imports, datasets, cancelled>>,
           NEW e \in PacketCursor, Names(datasets, e.dataset), InRange(e), NEW slot,
           WellFormed(cursors', PacketCursor),
           cursors'.kind = "PacketCursor", cursors'.maxSlots = MaxCursors,
           cursors'.slots[slot].value = e,
           \A s \in Occupied(cursors') \ {slot} :
              s \in Occupied(cursors) /\ cursors'.slots[s] = cursors.slots[s]
    PROVE  Inv'
<1>1. RegistriesOK'
  BY DEF RegistriesOK
<1>2. ASSUME NEW s \in Occupied(cursors')
      PROVE  Names(datasets, cursors'.slots[s].value.dataset) /\ InRange(cursors'.slots[s].value)
  <2>1. CASE s = slot
    BY <2>1
  <2>2. CASE s # slot
    <3>1. s \in Occupied(cursors) /\ cursors'.slots[s] = cursors.slots[s]
      BY <2>2
    <3> QED BY <3>1 DEF CursorsReferToLiveDatasets, CursorStaysInRange, InRange
  <2> QED BY <2>1, <2>2
<1>3. CursorsReferToLiveDatasets'
  BY <1>2 DEF CursorsReferToLiveDatasets, Occupied
<1>4. CursorStaysInRange'
  BY <1>2 DEF CursorStaysInRange, InRange, Occupied, Dataset
<1> QED BY <1>1, <1>3, <1>4, MemoryUndisturbed DEF Inv

\* A new cursor starts inside a live dataset.
LEMMA CreatePacketCursorInv ==
    ASSUME Inv, NEW h \in DatasetHandles, NEW row \in Rows, CreatePacketCursor(h, row)
    PROVE  Inv'
<1> DEFINE e == [dataset |-> h, next |-> row, pending |-> NoBatch]
           slot == InsertSlot(cursors)
<1>1. RegistriesOK /\ CursorsReferToLiveDatasets /\ CursorStaysInRange /\ CancelledMemoryExact
  BY DEF Inv
<1>2. /\ Names(datasets, h) /\ row <= Dataset(h).packets /\ HasInsertCapacity(cursors)
      /\ cursors' = Inserted(cursors, e) /\ UNCHANGED <<imports, datasets, cancelled>>
  BY LookupOK DEF CreatePacketCursor
<1>3. e \in PacketCursor /\ Names(datasets, e.dataset) /\ InRange(e)
  BY <1>2 DEF PacketCursor, InRange
<1> HIDE DEF e, slot
<1>4. WellFormed(cursors', PacketCursor)
  BY <1>1, <1>2, <1>3, ResourcesNotEmpty, InsertedWellFormed DEF RegistriesOK
<1>5. /\ cursors'.kind = "PacketCursor" /\ cursors'.maxSlots = MaxCursors
      /\ cursors'.slots[slot].value = e
      /\ DOMAIN cursors'.slots = DOMAIN cursors.slots \cup {slot}
      /\ \A s \in DOMAIN cursors.slots \ {slot} : cursors'.slots[s] = cursors.slots[s]
  BY <1>1, <1>2, <1>3, ResourcesNotEmpty, InsertedSlots DEF RegistriesOK, slot
<1>6. \A s \in Occupied(cursors') \ {slot} :
          s \in Occupied(cursors) /\ cursors'.slots[s] = cursors.slots[s]
  BY <1>5 DEF Occupied
<1> QED BY <1>1, <1>2, <1>3, <1>4, <1>5, <1>6, CursorStored

\* A cursor rewritten in place, by a batch staged or acknowledged.
LEMMA CursorRewritten ==
    ASSUME RegistriesOK, CursorsReferToLiveDatasets, CursorStaysInRange, CancelledMemoryExact,
           NEW h \in CursorHandles, Names(cursors, h),
           NEW e \in PacketCursor, Names(datasets, e.dataset), InRange(e),
           cursors' = Updated(cursors, h, e), UNCHANGED <<imports, datasets, cancelled>>
    PROVE  Inv'
<1>1. WellFormed(cursors', PacketCursor)
  BY ResourcesNotEmpty, UpdatedWellFormed DEF RegistriesOK
<1>2. /\ cursors'.kind = "PacketCursor" /\ cursors'.maxSlots = MaxCursors
      /\ cursors'.slots[h.slot].value = e
      /\ Occupied(cursors') = Occupied(cursors)
      /\ \A s \in DOMAIN cursors.slots \ {h.slot} : cursors'.slots[s] = cursors.slots[s]
  BY ResourcesNotEmpty, UpdatedSlots DEF RegistriesOK
<1>3. \A s \in Occupied(cursors') \ {h.slot} :
          s \in Occupied(cursors) /\ cursors'.slots[s] = cursors.slots[s]
  BY <1>2 DEF Occupied
<1> QED BY <1>1, <1>2, <1>3, CursorStored

\* A live cursor, by its handle.
LEMMA NamedCursor ==
    ASSUME RegistriesOK, CursorsReferToLiveDatasets, CursorStaysInRange, NEW h, Names(cursors, h)
    PROVE  /\ Cursor(h) \in PacketCursor
           /\ Names(datasets, Cursor(h).dataset)
           /\ Dataset(Cursor(h).dataset) \in CaptureDataset
           /\ InRange(Cursor(h))
<1>1. h.slot \in Occupied(cursors) /\ Cursor(h) = cursors.slots[h.slot].value
  BY DEF Names, Occupied, Cursor, ValueOf
<1> QED BY <1>1, CursorFacts DEF CursorStaysInRange, InRange

\* A batch is staged where its cursor stands and ends inside the dataset.
LEMMA ReadPacketBatchInv ==
    ASSUME Inv, NEW h \in CursorHandles, NEW requested \in 0..MaxBatchRows,
           NEW fitting \in 0..MaxBatchRows, ReadPacketBatch(h, requested, fitting)
    PROVE  Inv'
<1> DEFINE cursor    == Cursor(h)
           packets   == Dataset(cursor.dataset).packets
           remaining == packets - cursor.next
           available == IF requested <= remaining THEN requested ELSE remaining
           rows      == IF available <= fitting THEN available ELSE fitting
           batch     == [start |-> cursor.next, next |-> cursor.next + rows]
           e         == [cursor EXCEPT !.pending = batch]
<1>1. RegistriesOK /\ CursorsReferToLiveDatasets /\ CursorStaysInRange /\ CancelledMemoryExact
  BY DEF Inv
<1>2. /\ Names(cursors, h) /\ cursors' = Updated(cursors, h, e)
      /\ UNCHANGED <<imports, datasets, cancelled>>
  BY LookupOK DEF ReadPacketBatch
<1>3. /\ cursor \in PacketCursor /\ Names(datasets, cursor.dataset)
      /\ Dataset(cursor.dataset) \in CaptureDataset /\ InRange(cursor)
  BY <1>1, <1>2, NamedCursor
<1>4. /\ cursor.next \in Rows /\ packets \in Rows /\ cursor.next <= packets
      /\ MaxPackets \in Nat /\ MaxBatchRows \in Nat
  BY <1>3, SizesAssumption DEF PacketCursor, CaptureDataset, InRange
<1> HIDE DEF cursor, packets
<1>5. /\ rows \in 0..MaxBatchRows
      /\ cursor.next + rows \in cursor.next..packets /\ cursor.next + rows \in Rows
      /\ (cursor.next + rows) - cursor.next <= MaxBatchRows
  BY <1>4 DEF Rows
<1> HIDE DEF rows
<1>6. batch \in PendingPacketBatch /\ batch.start = cursor.next /\ batch.next = cursor.next + rows
  BY <1>4, <1>5 DEF PendingPacketBatch
<1> HIDE DEF batch
<1>7. /\ e \in PacketCursor /\ e.dataset = cursor.dataset /\ e.next = cursor.next
      /\ e.pending = batch
  BY <1>3, <1>6 DEF PacketCursor
<1>8. InRange(e)
  BY <1>4, <1>5, <1>6, <1>7 DEF InRange, packets
<1> HIDE DEF e
<1> QED BY <1>1, <1>2, <1>3, <1>7, <1>8, CursorRewritten

\* An acknowledged batch moves its cursor to one end of it or the other.
LEMMA ResolvePacketBatchInv ==
    ASSUME Inv, NEW h \in CursorHandles, NEW start \in Rows, NEW next \in Rows,
           NEW after \in {start, next}, ResolvePacketBatch(h, start, next, after)
    PROVE  Inv'
<1> DEFINE cursor == Cursor(h)
           packets == Dataset(cursor.dataset).packets
           e == [cursor EXCEPT !.next = after, !.pending = NoBatch]
<1>1. RegistriesOK /\ CursorsReferToLiveDatasets /\ CursorStaysInRange /\ CancelledMemoryExact
  BY DEF Inv
<1>2. /\ Names(cursors, h) /\ cursors' = Updated(cursors, h, e)
      /\ UNCHANGED <<imports, datasets, cancelled>>
      /\ cursor.pending # NoBatch /\ start = cursor.pending.start /\ next = cursor.pending.next
  BY LookupOK DEF ResolvePacketBatch
<1>3. /\ cursor \in PacketCursor /\ Names(datasets, cursor.dataset) /\ InRange(cursor)
      /\ Dataset(cursor.dataset) \in CaptureDataset
  BY <1>1, <1>2, NamedCursor
<1>4. /\ cursor.next \in Rows /\ packets \in Rows /\ cursor.next <= packets
      /\ next \in cursor.next..packets /\ start = cursor.next
      /\ MaxPackets \in Nat
  BY <1>2, <1>3, SizesAssumption DEF PacketCursor, CaptureDataset, InRange
<1> HIDE DEF cursor, packets
<1>5. after \in Rows /\ after <= packets
  BY <1>4 DEF Rows
<1>6. /\ e \in PacketCursor /\ e.dataset = cursor.dataset /\ e.next = after /\ e.pending = NoBatch
  BY <1>3, <1>5 DEF PacketCursor
<1>7. InRange(e)
  BY <1>5, <1>6 DEF InRange, packets
<1> HIDE DEF e
<1> QED BY <1>1, <1>2, <1>3, <1>6, <1>7, CursorRewritten

\* Disposing a cursor leaves the others as they were.
LEMMA DisposePacketCursorInv ==
    ASSUME Inv, NEW h \in CursorHandles, DisposePacketCursor(h)
    PROVE  Inv'
<1>1. RegistriesOK /\ CursorsReferToLiveDatasets /\ CursorStaysInRange /\ CancelledMemoryExact
  BY DEF Inv
<1>2. Names(cursors, h) /\ cursors' = Removed(cursors, h) /\ UNCHANGED <<imports, datasets, cancelled>>
  BY LookupOK DEF DisposePacketCursor
<1>3. /\ WellFormed(cursors', PacketCursor)
      /\ cursors'.kind = "PacketCursor" /\ cursors'.maxSlots = MaxCursors
      /\ Occupied(cursors') = Occupied(cursors) \ {h.slot}
      /\ \A s \in DOMAIN cursors.slots \ {h.slot} : cursors'.slots[s] = cursors.slots[s]
  BY <1>1, <1>2, RemovedWellFormed, RemovedSlots DEF RegistriesOK
<1>4. \A s \in Occupied(cursors') : s \in Occupied(cursors) /\ cursors'.slots[s] = cursors.slots[s]
  BY <1>3 DEF Occupied
<1>5. RegistriesOK'
  BY <1>1, <1>2, <1>3 DEF RegistriesOK
<1>6. CursorsReferToLiveDatasets'
  BY <1>1, <1>2, <1>4 DEF CursorsReferToLiveDatasets, Occupied
<1>7. CursorStaysInRange'
  BY <1>1, <1>2, <1>4 DEF CursorStaysInRange, Occupied, Dataset
<1> QED BY <1>1, <1>2, <1>5, <1>6, <1>7, MemoryUndisturbed DEF Inv

-----------------------------------------------------------------------------
\* Totals. What is proved of every number is proved of the set of those it holds
\* of, since no number is the least of those outside.
LEMMA Induction ==
    ASSUME NEW T, 0 \in T, \A n \in Nat : n \in T => n + 1 \in T
    PROVE  Nat \subseteq T
<1> SUFFICES ASSUME Nat \ T # {} PROVE FALSE
  OBVIOUS
<1> DEFINE R == OpToRel(<, Nat)
<1> HIDE DEF R
<1>1. PICK n \in Nat \ T : \A m \in Nat \ T : <<m, n>> \notin R
  <2>1. IsWellFoundedOn(R, Nat)
    BY NatLessThanWellFounded DEF R
  <2>2. Nat \ T \subseteq Nat /\ Nat \ T # {}
    OBVIOUS
  <2>3. \E x \in Nat \ T : \A y \in Nat \ T : ~(<<y, x>> \in R)
    BY <2>1, <2>2, WFMin
  <2> QED BY <2>3
<1>2. n - 1 \in Nat /\ n - 1 < n /\ (n - 1) + 1 = n
  BY <1>1
<1>3. <<n - 1, n>> \in R
  <2>1. /\ <<n - 1, n>> \in Nat \X Nat
        /\ <<n - 1, n>>[1] < <<n - 1, n>>[2]
    BY <1>2
  <2> QED BY <2>1 DEF OpToRel, R
<1>4. n - 1 \in T
  BY <1>1, <1>2, <1>3
<1> QED BY <1>1, <1>2, <1>4

\* The partial sums of w, as far as its n-th number.
IsSum(f, w, n) ==
    /\ f \in [0..n -> Nat]
    /\ \A k \in 0..n : f[k] = IF k = 0 THEN 0 ELSE f[k - 1] + w[k]

\* Every sequence of numbers has its partial sums.
LEMMA SumsExist ==
    ASSUME NEW w \in Seq(Nat)
    PROVE  \E f : IsSum(f, w, Len(w))
<1> DEFINE T == {n \in Nat : n <= Len(w) => \E f : IsSum(f, w, n)}
<1>1. 0 \in T
  <2>1. IsSum([k \in 0..0 |-> 0], w, 0)
    BY DEF IsSum
  <2> QED BY <2>1
<1>2. ASSUME NEW n \in Nat, n \in T PROVE n + 1 \in T
  <2> SUFFICES ASSUME n + 1 <= Len(w) PROVE \E f : IsSum(f, w, n + 1)
    OBVIOUS
  <2>1. PICK f : IsSum(f, w, n)
    BY <1>2
  <2>2. w[n + 1] \in Nat
    OBVIOUS
  <2> DEFINE g == [k \in 0..n + 1 |-> IF k = n + 1 THEN f[n] + w[n + 1] ELSE f[k]]
  <2>3. f \in [0..n -> Nat] /\ \A k \in 0..n : f[k] = IF k = 0 THEN 0 ELSE f[k - 1] + w[k]
    BY <2>1 DEF IsSum
  <2>4. g \in [0..n + 1 -> Nat]
    BY <2>2, <2>3
  <2>5. ASSUME NEW k \in 0..n + 1 PROVE g[k] = IF k = 0 THEN 0 ELSE g[k - 1] + w[k]
    <3>1. CASE k = n + 1
      BY <2>2, <2>3, <3>1
    <3>2. CASE k # n + 1
      <4>1. k \in 0..n /\ (k # 0 => k - 1 \in 0..n)
        BY <3>2
      <4> QED BY <2>3, <3>2, <4>1
    <3> QED BY <3>1, <3>2
  <2> QED BY <2>4, <2>5 DEF IsSum
<1>3. Len(w) \in Nat /\ Nat \subseteq T
  <2> HIDE DEF T
  <2> QED BY <1>1, <1>2, Induction
<1> QED BY <1>3

\* A total is the last of the partial sums.
LEMMA TotalIsSum ==
    ASSUME NEW w \in Seq(Nat)
    PROVE  \E f : IsSum(f, w, Len(w)) /\ Total(w) = f[Len(w)]
<1> DEFINE P(f) == f = [n \in 0..Len(w) |-> IF n = 0 THEN 0 ELSE f[n - 1] + w[n]]
           sum == CHOOSE f : P(f)
<1>1. PICK f : IsSum(f, w, Len(w))
  BY SumsExist
<1>2. P(f)
  BY <1>1 DEF IsSum
<1>3. P(sum)
  BY <1>2
<1>4. Total(w) = sum[Len(w)]
  BY DEF Total
<1> HIDE DEF sum
<1>5. Len(w) \in Nat
  OBVIOUS
<1>6. \A k \in 0..Len(w) : sum[k] = IF k = 0 THEN 0 ELSE sum[k - 1] + w[k]
  BY <1>3
<1> DEFINE T == {n \in Nat : n <= Len(w) => sum[n] \in Nat}
<1>7. 0 \in T
  BY <1>5, <1>6
<1>8. ASSUME NEW n \in Nat, n \in T PROVE n + 1 \in T
  <2> SUFFICES ASSUME n + 1 <= Len(w) PROVE sum[n + 1] \in Nat
    OBVIOUS
  <2>1. sum[n + 1] = sum[n] + w[n + 1] /\ sum[n] \in Nat /\ w[n + 1] \in Nat
    BY <1>5, <1>6, <1>8
  <2> QED BY <2>1
<1>9. Nat \subseteq T
  <2> HIDE DEF T
  <2> QED BY <1>7, <1>8, Induction
<1>10. \A k \in 0..Len(w) : sum[k] \in Nat
  BY <1>5, <1>9
<1>11. sum = [n \in 0..Len(w) |-> sum[n]]
  BY <1>3
<1>12. IsSum(sum, w, Len(w))
  BY <1>6, <1>10, <1>11 DEF IsSum
<1> QED BY <1>4, <1>12

\* Two numbers added to the same one trade places.
LEMMA Exchanged ==
    ASSUME NEW a \in Nat, NEW x \in Nat, NEW y \in Nat
    PROVE  (a + x) + y = (a + y) + x
  OBVIOUS

\* The partial sums of two sequences that may differ in their s-th number only,
\* among their first n.
SumsBut(s, f, v, g, w, n) ==
    /\ v \in Seq(Nat) /\ w \in Seq(Nat)
    /\ n \in Nat /\ n <= Len(v) /\ n <= Len(w)
    /\ IsSum(f, v, n) /\ IsSum(g, w, n)
    /\ s \in Nat \ {0}
    /\ \A k \in 1..n : k # s => v[k] = w[k]

\* A number that is changed changes the total by as much.
LEMMA SumChanged ==
    ASSUME NEW s, NEW f, NEW v, NEW g, NEW w, NEW n, SumsBut(s, f, v, g, w, n)
    PROVE  IF s <= n THEN f[n] + w[s] = g[n] + v[s] ELSE f[n] = g[n]
<1> v \in Seq(Nat) /\ w \in Seq(Nat) /\ n \in Nat /\ n <= Len(v) /\ n <= Len(w) /\ s \in Nat \ {0}
  BY DEF SumsBut
<1> DEFINE T == {k \in Nat : k <= n =>
                     IF s <= k THEN f[k] + w[s] = g[k] + v[s] ELSE f[k] = g[k]}
<1>1. /\ \A k \in 0..n : f[k] \in Nat /\ f[k] = IF k = 0 THEN 0 ELSE f[k - 1] + v[k]
      /\ \A k \in 0..n : g[k] \in Nat /\ g[k] = IF k = 0 THEN 0 ELSE g[k - 1] + w[k]
  BY DEF SumsBut, IsSum
<1>2. 0 \in T
  BY <1>1
<1>3. ASSUME NEW k \in Nat, k \in T PROVE k + 1 \in T
  <2> SUFFICES ASSUME k + 1 <= n
               PROVE  IF s <= k + 1 THEN f[k + 1] + w[s] = g[k + 1] + v[s] ELSE f[k + 1] = g[k + 1]
    OBVIOUS
  <2>1. /\ f[k + 1] = f[k] + v[k + 1] /\ g[k + 1] = g[k] + w[k + 1]
        /\ f[k] \in Nat /\ g[k] \in Nat /\ v[k + 1] \in Nat /\ w[k + 1] \in Nat
    <3>1. k + 1 \in 0..n /\ k \in 0..n /\ (k + 1) - 1 = k /\ k + 1 # 0
          /\ k + 1 \in 1..Len(v) /\ k + 1 \in 1..Len(w)
      OBVIOUS
    <3>2. v[k + 1] \in Nat /\ w[k + 1] \in Nat
      BY <3>1
    <3> QED BY <1>1, <3>1, <3>2
  <2>2. IF s <= k THEN f[k] + w[s] = g[k] + v[s] ELSE f[k] = g[k]
    BY <1>3
  <2>3. k + 1 # s => v[k + 1] = w[k + 1]
    BY DEF SumsBut
  <2>4. CASE s = k + 1
    <3>1. f[k] = g[k] /\ s <= k + 1
      BY <2>2, <2>4
    <3>2. f[k + 1] + w[k + 1] = g[k + 1] + v[k + 1]
      BY <2>1, <3>1, Exchanged
    <3> QED BY <2>4, <3>1, <3>2
  <2>5. CASE s <= k
    <3>1. v[s] \in Nat /\ w[s] \in Nat /\ s # k + 1 /\ s <= k + 1
      BY <2>5
    <3>2. f[k] + w[s] = g[k] + v[s] /\ v[k + 1] = w[k + 1]
      BY <2>2, <2>3, <2>5, <3>1
    <3>3. (f[k] + v[k + 1]) + w[s] = (g[k] + v[k + 1]) + v[s]
      <4> DEFINE a == f[k]  b == g[k]  c == v[k + 1]  x == w[s]  y == v[s]
      <4>1. a \in Nat /\ b \in Nat /\ c \in Nat /\ x \in Nat /\ y \in Nat /\ a + x = b + y
        BY <2>1, <3>1, <3>2
      <4> HIDE DEF a, b, c, x, y
      <4>2. (a + c) + x = (b + c) + y
        BY <4>1
      <4> QED BY <4>2 DEF a, b, c, x, y
    <3>4. f[k + 1] + w[s] = g[k + 1] + v[s]
      BY <2>1, <3>2, <3>3
    <3> QED BY <3>1, <3>4
  <2>6. CASE k + 1 < s
    BY <2>1, <2>2, <2>3, <2>6
  <2> QED BY <2>4, <2>5, <2>6
<1>4. Nat \subseteq T
  <2> HIDE DEF T
  <2> QED BY <1>2, <1>3, Induction
<1> QED BY <1>4

\* A total is a number, and that of no numbers is 0.
LEMMA TotalNat ==
    ASSUME NEW w \in Seq(Nat)
    PROVE  Total(w) \in Nat /\ (w = <<>> => Total(w) = 0)
<1>1. PICK f : IsSum(f, w, Len(w)) /\ Total(w) = f[Len(w)]
  BY TotalIsSum
<1>2. Len(w) \in Nat /\ (w = <<>> => Len(w) = 0)
  OBVIOUS
<1> QED BY <1>1, <1>2 DEF IsSum

\* A total in which one number is another.
LEMMA TotalChanged ==
    ASSUME NEW v \in Seq(Nat), NEW w \in Seq(Nat), Len(v) = Len(w), NEW s \in DOMAIN v,
           \A k \in DOMAIN v : k # s => v[k] = w[k]
    PROVE  Total(v) + w[s] = Total(w) + v[s]
<1>1. PICK f : IsSum(f, v, Len(v)) /\ Total(v) = f[Len(v)]
  BY TotalIsSum
<1>2. PICK g : IsSum(g, w, Len(w)) /\ Total(w) = g[Len(w)]
  BY TotalIsSum
<1>3. /\ Len(v) \in Nat /\ DOMAIN v = 1..Len(v) /\ s \in Nat \ {0} /\ s <= Len(v)
      /\ Len(v) <= Len(v) /\ Len(v) <= Len(w)
  OBVIOUS
<1>4. SumsBut(s, f, v, g, w, Len(v))
  BY <1>1, <1>2, <1>3 DEF SumsBut
<1>5. f[Len(v)] + w[s] = g[Len(w)] + v[s]
  <2>1. IF s <= Len(v) THEN f[Len(v)] + w[s] = g[Len(v)] + v[s] ELSE f[Len(v)] = g[Len(v)]
    BY <1>4, SumChanged
  <2> QED BY <1>3, <2>1
<1> QED BY <1>1, <1>2, <1>5

\* A total with one number more.
LEMMA TotalLonger ==
    ASSUME NEW v \in Seq(Nat), NEW w \in Seq(Nat), Len(w) = Len(v) + 1,
           \A k \in DOMAIN v : w[k] = v[k]
    PROVE  Total(w) = Total(v) + w[Len(w)]
<1>1. PICK f : IsSum(f, v, Len(v)) /\ Total(v) = f[Len(v)]
  BY TotalIsSum
<1>2. PICK g : IsSum(g, w, Len(w)) /\ Total(w) = g[Len(w)]
  BY TotalIsSum
<1>3. Len(v) \in Nat /\ DOMAIN v = 1..Len(v) /\ Len(w) - 1 = Len(v) /\ Len(w) \in Nat
  OBVIOUS
<1> DEFINE h == [k \in 0..Len(v) |-> g[k]]
<1>4. IsSum(h, w, Len(v)) /\ h[Len(v)] = g[Len(v)]
  <2>1. /\ \A k \in 0..Len(w) : g[k] \in Nat
        /\ \A k \in 0..Len(w) : g[k] = IF k = 0 THEN 0 ELSE g[k - 1] + w[k]
    BY <1>2 DEF IsSum
  <2>2. \A k \in 0..Len(v) : k \in 0..Len(w) /\ (k # 0 => k - 1 \in 0..Len(v))
    BY <1>3
  <2> QED BY <1>3, <2>1, <2>2 DEF IsSum
<1>5. f[Len(v)] = h[Len(v)]
  <2>1. Len(v) + 1 \in Nat \ {0} /\ ~(Len(v) + 1 <= Len(v))
    BY <1>3
  <2>2. SumsBut(Len(v) + 1, f, v, h, w, Len(v))
    BY <1>1, <1>3, <1>4, <2>1, SMTT(30) DEF SumsBut
  <2> HIDE DEF h
  <2>3. IF Len(v) + 1 <= Len(v) THEN f[Len(v)] + w[Len(v) + 1] = h[Len(v)] + v[Len(v) + 1]
        ELSE f[Len(v)] = h[Len(v)]
    BY <2>2, SumChanged
  <2> QED BY <2>1, <2>3
<1>6. g[Len(w)] = g[Len(v)] + w[Len(w)]
  BY <1>2, <1>3 DEF IsSum
<1> QED BY <1>1, <1>2, <1>4, <1>5, <1>6

-----------------------------------------------------------------------------
\* What the slots of a registry count for, when an entry v counts for wt[v].
Weights(r, wt) ==
    [s \in DOMAIN r.slots |-> IF r.slots[s].value = Empty THEN 0 ELSE wt[r.slots[s].value]]

\* Each slot counts for a number.
LEMMA WeightsType ==
    ASSUME NEW V, NEW wt \in [V -> Nat], NEW r, WellTyped(r, V)
    PROVE  /\ Weights(r, wt) \in Seq(Nat)
           /\ Len(Weights(r, wt)) = Len(r.slots)
           /\ DOMAIN Weights(r, wt) = DOMAIN r.slots
<1>1. r.slots \in Seq(SlotType(V)) /\ Len(r.slots) \in Nat /\ DOMAIN r.slots = 1..Len(r.slots)
  BY DEF WellTyped
<1>2. ASSUME NEW s \in DOMAIN r.slots PROVE Weights(r, wt)[s] \in Nat
  <2>1. r.slots[s] \in SlotType(V)
    BY <1>1
  <2>2. r.slots[s].value \in V \cup {Empty}
    BY <2>1 DEF SlotType
  <2> QED BY <2>2 DEF Weights
<1>3. Weights(r, wt) = [s \in 1..Len(r.slots) |-> Weights(r, wt)[s]]
  BY <1>1 DEF Weights
<1> DEFINE w == Weights(r, wt)  n == Len(r.slots)
<1>4. w \in [1..n -> Nat] /\ n \in Nat
  BY <1>1, <1>2, <1>3
<1> HIDE DEF w, n
<1>5. w \in Seq(Nat) /\ Len(w) = n /\ DOMAIN w = 1..n
  BY <1>4
<1> QED BY <1>1, <1>5 DEF w, n

\* An insertion adds what its entry counts for.
LEMMA InsertedTotal ==
    ASSUME NEW V, Empty \notin V, NEW wt \in [V -> Nat], NEW r, WellFormed(r, V), NEW e \in V,
           HasInsertCapacity(r)
    PROVE  Total(Weights(Inserted(r, e), wt)) = Total(Weights(r, wt)) + wt[e]
<1> DEFINE R == Inserted(r, e)
           slot == InsertSlot(r)
           v == Weights(r, wt)
           w == Weights(R, wt)
<1>1. WellTyped(r, V) /\ WellTyped(R, V)
  BY InsertedWellFormed DEF WellFormed
<1>2. /\ slot \notin Occupied(r)
      /\ DOMAIN R.slots = DOMAIN r.slots \cup {slot}
      /\ R.slots[slot].value = e
      /\ \A t \in DOMAIN r.slots \ {slot} : R.slots[t] = r.slots[t]
  BY InsertedSlots
<1>3. /\ Len(r.slots) \in Nat /\ DOMAIN r.slots = 1..Len(r.slots)
      /\ Len(R.slots) \in Nat /\ DOMAIN R.slots = 1..Len(R.slots)
  BY <1>1 DEF WellTyped
<1>4. slot \in DOMAIN r.slots \/ slot = Len(r.slots) + 1
  BY <1>1, <1>3, ReuseFields DEF InsertSlot
<1> HIDE DEF R, slot
<1>5. /\ v \in Seq(Nat) /\ Len(v) = Len(r.slots) /\ DOMAIN v = DOMAIN r.slots
      /\ w \in Seq(Nat) /\ Len(w) = Len(R.slots) /\ DOMAIN w = DOMAIN R.slots
  BY <1>1, WeightsType
<1>6. /\ w[slot] = wt[e]
      /\ \A t \in DOMAIN v : t # slot => v[t] = w[t]
      /\ slot \in DOMAIN r.slots => v[slot] = 0
  BY <1>2, <1>5 DEF Weights, Occupied
<1>7. wt[e] \in Nat
  OBVIOUS
<1> HIDE DEF v, w
<1>8. Total(v) \in Nat /\ Total(w) \in Nat
  BY <1>5, TotalNat
<1>9. CASE slot \in DOMAIN r.slots
  <2>1. 1..Len(R.slots) = 1..Len(r.slots)
    BY <1>2, <1>3, <1>9
  <2>2. Len(R.slots) = Len(r.slots)
    BY <1>3, <2>1
  <2>3. slot \in DOMAIN v /\ Len(v) = Len(w)
    BY <1>5, <1>9, <2>2
  <2>4. Total(v) + w[slot] = Total(w) + v[slot]
    BY <1>5, <1>6, <2>3, TotalChanged
  <2> QED BY <1>6, <1>7, <1>8, <1>9, <2>4 DEF v, w, R
<1>10. CASE slot = Len(r.slots) + 1
  <2> DEFINE n == Len(r.slots)
  <2>1. n + 1 \in 1..Len(R.slots) /\ n + 2 \notin 1..Len(R.slots)
    BY <1>2, <1>3, <1>10
  <2>2. Len(R.slots) = Len(r.slots) + 1
    BY <1>3, <2>1
  <2>3. Len(w) = Len(v) + 1 /\ \A t \in DOMAIN v : w[t] = v[t]
    BY <1>3, <1>5, <1>6, <1>10, <2>2
  <2>4. Total(w) = Total(v) + w[Len(w)]
    BY <1>5, <2>3, TotalLonger
  <2> QED BY <1>5, <1>6, <1>10, <2>2, <2>4 DEF v, w, R
<1> QED BY <1>4, <1>9, <1>10

\* A removal takes off what its entry counted for, so it counted for no more
\* than all entries did.
LEMMA RemovedTotal ==
    ASSUME NEW V, NEW wt \in [V -> Nat], NEW r, WellFormed(r, V), NEW h, Names(r, h)
    PROVE  /\ Total(Weights(Removed(r, h), wt)) + wt[ValueOf(r, h)] = Total(Weights(r, wt))
           /\ Total(Weights(Removed(r, h), wt)) \in Nat /\ Total(Weights(r, wt)) \in Nat
           /\ ValueOf(r, h) \in V
<1> DEFINE R == Removed(r, h)
           v == Weights(r, wt)
           w == Weights(R, wt)
<1>1. WellTyped(r, V) /\ WellTyped(R, V)
  BY RemovedWellFormed DEF WellFormed
<1>2. /\ DOMAIN R.slots = DOMAIN r.slots
      /\ R.slots[h.slot].value = Empty
      /\ \A t \in DOMAIN r.slots \ {h.slot} : R.slots[t] = r.slots[t]
  BY RemovedSlots
<1>3. h.slot \in DOMAIN r.slots /\ r.slots[h.slot].value # Empty
  BY DEF Names
<1>4. ValueOf(r, h) \in V
  <2>1. r.slots[h.slot] \in SlotType(V)
    BY <1>1, <1>3 DEF WellTyped
  <2> QED BY <1>3, <2>1 DEF SlotType, ValueOf
<1>5. /\ Len(r.slots) \in Nat /\ DOMAIN r.slots = 1..Len(r.slots)
      /\ Len(R.slots) \in Nat /\ DOMAIN R.slots = 1..Len(R.slots)
  BY <1>1 DEF WellTyped
<1> HIDE DEF R
<1>6. /\ v \in Seq(Nat) /\ Len(v) = Len(r.slots) /\ DOMAIN v = DOMAIN r.slots
      /\ w \in Seq(Nat) /\ Len(w) = Len(R.slots) /\ DOMAIN w = DOMAIN R.slots
  BY <1>1, WeightsType
<1>7. /\ w[h.slot] = 0 /\ v[h.slot] = wt[ValueOf(r, h)]
      /\ \A t \in DOMAIN v : t # h.slot => v[t] = w[t]
  BY <1>2, <1>3, <1>6 DEF Weights, ValueOf
<1>8. wt[ValueOf(r, h)] \in Nat
  BY <1>4
<1> HIDE DEF v, w
<1>9. Total(v) \in Nat /\ Total(w) \in Nat
  BY <1>6, TotalNat
<1>10. Len(v) = Len(w)
  <2>1. 1..Len(R.slots) = 1..Len(r.slots)
    BY <1>2, <1>5
  <2> QED BY <1>5, <1>6, <2>1
<1>11. Total(v) + w[h.slot] = Total(w) + v[h.slot]
  BY <1>3, <1>6, <1>7, <1>10, TotalChanged
<1> QED BY <1>4, <1>7, <1>8, <1>9, <1>11 DEF v, w, R

\* An entry rewritten to count for the same leaves the total alone.
LEMMA UpdatedTotal ==
    ASSUME NEW V, Empty \notin V, NEW wt \in [V -> Nat], NEW r, WellFormed(r, V), NEW h,
           Names(r, h), NEW e \in V, wt[e] = wt[ValueOf(r, h)]
    PROVE  Total(Weights(Updated(r, h, e), wt)) = Total(Weights(r, wt))
<1>1. LET R == Updated(r, h, e) IN
      /\ DOMAIN R.slots = DOMAIN r.slots
      /\ R.slots[h.slot].value = e
      /\ \A t \in DOMAIN r.slots \ {h.slot} : R.slots[t] = r.slots[t]
  BY UpdatedSlots
<1>2. h.slot \in DOMAIN r.slots /\ r.slots[h.slot].value # Empty
  BY DEF Names
<1>3. Weights(Updated(r, h, e), wt) = Weights(r, wt)
  BY <1>1, <1>2 DEF Weights, ValueOf
<1> QED BY <1>3

-----------------------------------------------------------------------------
\* What an entry counts for in each of the totals.
BytesIn(V) == [e \in V |-> e.bytes]
ReserveIn == [e \in ImportEntry |-> e.reserve]
IndexIn == [d \in CaptureDataset |-> d.index]

\* What an entry counts for is a number.
LEMMA SizesAreNumbers ==
    /\ BytesIn(ImportEntry) \in [ImportEntry -> Nat]
    /\ BytesIn(CaptureDataset) \in [CaptureDataset -> Nat]
    /\ ReserveIn \in [ImportEntry -> Nat]
    /\ IndexIn \in [CaptureDataset -> Nat]
  BY SizesAssumption DEF BytesIn, ReserveIn, IndexIn, ImportEntry, CaptureDataset

\* The totals of imports are totals of what their entries count for.
LEMMA ImportTotals ==
    ASSUME NEW imps, WellFormed(imps, ImportEntry)
    PROVE  /\ TransientInput(imps) = Total(Weights(imps, BytesIn(ImportEntry)))
           /\ TransientReserve(imps) = Total(Weights(imps, ReserveIn))
<1>1. ASSUME NEW s \in DOMAIN imps.slots, imps.slots[s].value # Empty
      PROVE  imps.slots[s].value \in ImportEntry
  <2>1. imps.slots[s] \in SlotType(ImportEntry)
    BY DEF WellFormed, WellTyped
  <2> QED BY <1>1, <2>1 DEF SlotType
<1>2. Bytes(imps) = Weights(imps, BytesIn(ImportEntry))
  BY <1>1 DEF Bytes, Weights, BytesIn
<1>3. Reserve(imps) = Weights(imps, ReserveIn)
  BY <1>1 DEF Reserve, Weights, ReserveIn
<1> QED BY <1>2, <1>3 DEF TransientInput, TransientReserve

\* And so are those of datasets, before a step and after it.
LEMMA DatasetTotals ==
    /\ WellFormed(datasets, CaptureDataset) =>
         /\ RetainedCapture = Total(Weights(datasets, BytesIn(CaptureDataset)))
         /\ RetainedIndex = Total(Weights(datasets, IndexIn))
    /\ WellFormed(datasets', CaptureDataset) =>
         /\ RetainedCapture' = Total(Weights(datasets', BytesIn(CaptureDataset)))
         /\ RetainedIndex' = Total(Weights(datasets', IndexIn))
<1>1. ASSUME NEW r, WellFormed(r, CaptureDataset)
      PROVE  /\ Bytes(r) = Weights(r, BytesIn(CaptureDataset))
             /\ [s \in DOMAIN r.slots |->
                   IF r.slots[s].value = Empty THEN 0 ELSE r.slots[s].value.index]
                  = Weights(r, IndexIn)
  <2>1. ASSUME NEW s \in DOMAIN r.slots, r.slots[s].value # Empty
        PROVE  r.slots[s].value \in CaptureDataset
    <3>1. r.slots[s] \in SlotType(CaptureDataset)
      BY <1>1 DEF WellFormed, WellTyped
    <3> QED BY <2>1, <3>1 DEF SlotType
  <2> QED BY <2>1 DEF Bytes, Weights, BytesIn, IndexIn
<1>2. ASSUME WellFormed(datasets, CaptureDataset)
      PROVE  /\ RetainedCapture = Total(Weights(datasets, BytesIn(CaptureDataset)))
             /\ RetainedIndex = Total(Weights(datasets, IndexIn))
  BY <1>1, <1>2 DEF RetainedCapture, RetainedIndex, Index
<1>3. ASSUME WellFormed(datasets', CaptureDataset)
      PROVE  /\ RetainedCapture' = Total(Weights(datasets', BytesIn(CaptureDataset)))
             /\ RetainedIndex' = Total(Weights(datasets', IndexIn))
  BY <1>1, <1>3 DEF RetainedCapture, RetainedIndex, Index, Bytes
<1> QED BY <1>2, <1>3

\* Everything resource_stats reports is a number.
LEMMA TotalsAreNumbers ==
    ASSUME RegistriesOK
    PROVE  /\ TransientInput(imports) \in Nat /\ TransientReserve(imports) \in Nat
           /\ RetainedCapture \in Nat /\ RetainedIndex \in Nat
<1>1. /\ WellFormed(imports, ImportEntry) /\ WellTyped(imports, ImportEntry)
      /\ WellFormed(datasets, CaptureDataset) /\ WellTyped(datasets, CaptureDataset)
  BY DEF RegistriesOK, WellFormed
<1>2. /\ Weights(imports, BytesIn(ImportEntry)) \in Seq(Nat)
      /\ Weights(imports, ReserveIn) \in Seq(Nat)
      /\ Weights(datasets, BytesIn(CaptureDataset)) \in Seq(Nat)
      /\ Weights(datasets, IndexIn) \in Seq(Nat)
  BY <1>1, SizesAreNumbers, WeightsType
<1> QED BY <1>1, <1>2, ImportTotals, DatasetTotals, TotalNat

\* A new import adds its bytes and its reserve.
LEMMA ImportAdded ==
    ASSUME RegistriesOK, NEW e \in ImportEntry, HasInsertCapacity(imports)
    PROVE  /\ TransientInput(Inserted(imports, e)) = TransientInput(imports) + e.bytes
           /\ TransientReserve(Inserted(imports, e)) = TransientReserve(imports) + e.reserve
<1>1. WellFormed(imports, ImportEntry) /\ WellFormed(Inserted(imports, e), ImportEntry)
  BY ResourcesNotEmpty, InsertedWellFormed DEF RegistriesOK
<1>2. BytesIn(ImportEntry)[e] = e.bytes /\ ReserveIn[e] = e.reserve
  BY DEF BytesIn, ReserveIn
<1>3. /\ Total(Weights(Inserted(imports, e), BytesIn(ImportEntry)))
           = Total(Weights(imports, BytesIn(ImportEntry))) + BytesIn(ImportEntry)[e]
      /\ Total(Weights(Inserted(imports, e), ReserveIn))
           = Total(Weights(imports, ReserveIn)) + ReserveIn[e]
  BY <1>1, ResourcesNotEmpty, SizesAreNumbers, InsertedTotal
<1> QED BY <1>1, <1>2, <1>3, ImportTotals

\* An import consumed takes its bytes and its reserve along.
LEMMA ImportTaken ==
    ASSUME RegistriesOK, NEW h, Names(imports, h)
    PROVE  /\ Import(h) \in ImportEntry
           /\ Import(h).bytes \in Nat /\ Import(h).reserve \in Nat
           /\ TransientInput(Removed(imports, h)) \in Nat
           /\ TransientReserve(Removed(imports, h)) \in Nat
           /\ TransientInput(Removed(imports, h)) + Import(h).bytes = TransientInput(imports)
           /\ TransientReserve(Removed(imports, h)) + Import(h).reserve = TransientReserve(imports)
<1>1. WellFormed(imports, ImportEntry) /\ WellFormed(Removed(imports, h), ImportEntry)
  BY RemovedWellFormed DEF RegistriesOK
<1>2. /\ Import(h) \in ImportEntry
      /\ Total(Weights(Removed(imports, h), BytesIn(ImportEntry))) + BytesIn(ImportEntry)[Import(h)]
           = Total(Weights(imports, BytesIn(ImportEntry)))
      /\ Total(Weights(Removed(imports, h), BytesIn(ImportEntry))) \in Nat
      /\ Total(Weights(Removed(imports, h), ReserveIn)) + ReserveIn[Import(h)]
           = Total(Weights(imports, ReserveIn))
      /\ Total(Weights(Removed(imports, h), ReserveIn)) \in Nat
  BY <1>1, SizesAreNumbers, RemovedTotal DEF Import
<1>3. /\ BytesIn(ImportEntry)[Import(h)] = Import(h).bytes
      /\ ReserveIn[Import(h)] = Import(h).reserve
  BY <1>2 DEF BytesIn, ReserveIn
<1>4. Import(h).bytes \in Nat /\ Import(h).reserve \in Nat
  BY <1>2, SizesAssumption DEF ImportEntry
<1> QED BY <1>1, <1>2, <1>3, <1>4, ImportTotals

\* A dataset registered adds its bytes and its index.
LEMMA DatasetAdded ==
    ASSUME RegistriesOK, NEW d \in CaptureDataset, HasInsertCapacity(datasets),
           datasets' = Inserted(datasets, d)
    PROVE  RetainedCapture' = RetainedCapture + d.bytes /\ RetainedIndex' = RetainedIndex + d.index
<1>1. WellFormed(datasets, CaptureDataset) /\ WellFormed(datasets', CaptureDataset)
  BY ResourcesNotEmpty, InsertedWellFormed DEF RegistriesOK
<1>2. BytesIn(CaptureDataset)[d] = d.bytes /\ IndexIn[d] = d.index
  BY DEF BytesIn, IndexIn
<1>3. /\ Total(Weights(Inserted(datasets, d), BytesIn(CaptureDataset)))
           = Total(Weights(datasets, BytesIn(CaptureDataset))) + BytesIn(CaptureDataset)[d]
      /\ Total(Weights(Inserted(datasets, d), IndexIn))
           = Total(Weights(datasets, IndexIn)) + IndexIn[d]
  BY <1>1, ResourcesNotEmpty, SizesAreNumbers, InsertedTotal
<1> QED BY <1>1, <1>2, <1>3, DatasetTotals

\* A dataset disposed counts for nothing any more.
LEMMA DatasetTaken ==
    ASSUME RegistriesOK, NEW h, Names(datasets, h), datasets' = Removed(datasets, h)
    PROVE  /\ RetainedCapture' \in Nat /\ RetainedCapture' <= RetainedCapture
           /\ RetainedIndex' \in Nat /\ RetainedIndex' <= RetainedIndex
<1>1. WellFormed(datasets, CaptureDataset) /\ WellFormed(datasets', CaptureDataset)
  BY RemovedWellFormed DEF RegistriesOK
<1>2. /\ Dataset(h) \in CaptureDataset
      /\ Total(Weights(Removed(datasets, h), BytesIn(CaptureDataset)))
             + BytesIn(CaptureDataset)[Dataset(h)]
           = Total(Weights(datasets, BytesIn(CaptureDataset)))
      /\ Total(Weights(Removed(datasets, h), BytesIn(CaptureDataset))) \in Nat
      /\ Total(Weights(Removed(datasets, h), IndexIn)) + IndexIn[Dataset(h)]
           = Total(Weights(datasets, IndexIn))
      /\ Total(Weights(Removed(datasets, h), IndexIn)) \in Nat
  BY <1>1, SizesAreNumbers, RemovedTotal DEF Dataset
<1>3. BytesIn(CaptureDataset)[Dataset(h)] \in Nat /\ IndexIn[Dataset(h)] \in Nat
  BY <1>2, SizesAreNumbers
<1> QED BY <1>1, <1>2, <1>3, DatasetTotals

-----------------------------------------------------------------------------
\* Admission. What every running import was begun with was no larger than a
\* capture may be: what finish_import publishes of it passes that check again.
EntriesAdmitted ==
    \A s \in Occupied(imports) : imports.slots[s].value.bytes <= MaxCaptureBytes

\* On top of the registries' invariant, the budgets are inductive.
Budgets == WithinBudgets /\ EntriesAdmitted /\ peakOwned \in Nat /\ peakTransient \in Nat

\* The budgets of a new boundary, which holds nothing.
LEMMA InitBudgets == Init => Budgets
<1> SUFFICES ASSUME Init PROVE Budgets
  OBVIOUS
<1>1. /\ Bytes(imports) = <<>> /\ Reserve(imports) = <<>>
      /\ Bytes(datasets) = <<>> /\ Index = <<>>
  BY DEF Init, NewRegistry, Bytes, Reserve, Index
<1>2. Total(<<>>) = 0
  <2>1. <<>> \in Seq(Nat)
    OBVIOUS
  <2> QED BY <2>1, TotalNat
<1>3. /\ TransientInput(imports) = 0 /\ TransientReserve(imports) = 0
      /\ RetainedCapture = 0 /\ RetainedIndex = 0
  BY <1>1, <1>2 DEF TransientInput, TransientReserve, RetainedCapture, RetainedIndex
<1>4. peakOwned = 0 /\ peakTransient = 0
  BY DEF Init
<1>5. WithinBudgets
  BY <1>3, <1>4, SizesAssumption DEF WithinBudgets, Owned, Logical
<1>6. EntriesAdmitted
  BY DEF Init, NewRegistry, EntriesAdmitted, Occupied
<1> QED BY <1>4, <1>5, <1>6 DEF Budgets

\* The totals after a step, of the registries after it.
LEMMA TotalsAfter ==
    /\ TransientInput(imports)' = TransientInput(imports')
    /\ TransientReserve(imports)' = TransientReserve(imports')
  BY DEF TransientInput, TransientReserve, Bytes, Reserve

\* Totals that do not grow stay within their budgets, and below their peaks.
LEMMA LowerTotals ==
    ASSUME RegistriesOK, Budgets, UNCHANGED <<peakOwned, peakTransient>>,
           TransientInput(imports') \in Nat, TransientInput(imports') <= TransientInput(imports),
           TransientReserve(imports') \in Nat,
           TransientReserve(imports') <= TransientReserve(imports),
           RetainedCapture' \in Nat, RetainedCapture' <= RetainedCapture,
           RetainedIndex' \in Nat, RetainedIndex' <= RetainedIndex
    PROVE  WithinBudgets' /\ peakOwned' \in Nat /\ peakTransient' \in Nat
<1> DEFINE t == TransientInput(imports)
           r == TransientReserve(imports)
           c == RetainedCapture
           i == RetainedIndex
<1>1. t \in Nat /\ r \in Nat /\ c \in Nat /\ i \in Nat
  BY TotalsAreNumbers
<1>2. /\ (c + t) + i + r <= MaxTotalLogicalBytes
      /\ c + t <= peakOwned /\ peakOwned <= MaxTotalCaptureBytes
      /\ t <= peakTransient /\ peakTransient <= peakOwned
      /\ peakOwned \in Nat /\ peakTransient \in Nat
  BY DEF Budgets, WithinBudgets, Owned, Logical
<1>3. /\ TransientInput(imports)' \in Nat /\ TransientInput(imports)' <= t
      /\ TransientReserve(imports)' \in Nat /\ TransientReserve(imports)' <= r
      /\ RetainedCapture' \in Nat /\ RetainedCapture' <= c
      /\ RetainedIndex' \in Nat /\ RetainedIndex' <= i
      /\ peakOwned' = peakOwned /\ peakTransient' = peakTransient
  BY TotalsAfter
<1>4. MaxTotalCaptureBytes \in Nat /\ MaxTotalLogicalBytes \in Nat
  BY SizesAssumption
<1> HIDE DEF t, r, c, i
<1> QED BY <1>1, <1>2, <1>3, <1>4 DEF WithinBudgets, Owned, Logical

\* An import admitted fits, with what it reserves, and moves the peaks along.
LEMMA BeginImportBudgets ==
    ASSUME Inv, Budgets, NEW bytes \in CaptureSizes, NEW reserve \in Reserves,
           BeginImport(bytes, reserve)
    PROVE  Budgets'
<1> DEFINE e == [bytes |-> bytes, reserve |-> reserve, phase |-> "importing"]
           t == TransientInput(imports)
           r == TransientReserve(imports)
           c == RetainedCapture
           i == RetainedIndex
<1>1. RegistriesOK
  BY DEF Inv
<1>2. /\ e \in ImportEntry /\ e.bytes = bytes /\ e.reserve = reserve
      /\ HasInsertCapacity(imports) /\ imports' = Inserted(imports, e)
  BY DEF BeginImport, Admitted, ImportEntry
<1> HIDE DEF e
<1>3. TransientInput(imports') = t + bytes /\ TransientReserve(imports') = r + reserve
  BY <1>1, <1>2, ImportAdded
<1>4. RetainedCapture' = c /\ RetainedIndex' = i
  BY DEF BeginImport, RetainedCapture, RetainedIndex, Bytes, Index
<1>5. t \in Nat /\ r \in Nat /\ c \in Nat /\ i \in Nat /\ bytes \in Nat /\ reserve \in Nat
  BY <1>1, TotalsAreNumbers, SizesAssumption
<1>6. /\ c + t <= peakOwned /\ peakOwned <= MaxTotalCaptureBytes
      /\ t <= peakTransient /\ peakTransient <= peakOwned
      /\ peakOwned \in Nat /\ peakTransient \in Nat
  BY DEF Budgets, WithinBudgets, Owned
<1>7. /\ (c + t) + bytes <= MaxTotalCaptureBytes
      /\ ((c + t) + i + r) + bytes + reserve <= MaxTotalLogicalBytes
      /\ bytes <= MaxCaptureBytes
      /\ peakOwned' = Larger(peakOwned, (c + t) + bytes)
      /\ peakTransient' = Larger(peakTransient, t + bytes)
  BY DEF BeginImport, Admitted, Owned, Logical
<1>8. TransientInput(imports)' = t + bytes /\ TransientReserve(imports)' = r + reserve
  BY <1>3, TotalsAfter
<1>9. MaxTotalCaptureBytes \in Nat /\ MaxTotalLogicalBytes \in Nat
  BY SizesAssumption
<1>10. EntriesAdmitted'
  <2>1. /\ imports'.slots[InsertSlot(imports)].value = e
        /\ DOMAIN imports'.slots = DOMAIN imports.slots \cup {InsertSlot(imports)}
        /\ \A s \in DOMAIN imports.slots \ {InsertSlot(imports)} : imports'.slots[s] = imports.slots[s]
    BY <1>1, <1>2, ResourcesNotEmpty, InsertedSlots DEF RegistriesOK
  <2>2. EntriesAdmitted
    BY DEF Budgets
  <2> QED BY <1>2, <1>7, <2>1, <2>2 DEF EntriesAdmitted, Occupied
<1> HIDE DEF t, r, c, i
<1>11. peakOwned' \in Nat /\ peakTransient' \in Nat
  BY <1>5, <1>6, <1>7 DEF Larger
<1>12. /\ (c + (t + bytes)) + i + (r + reserve) <= MaxTotalLogicalBytes
       /\ c + (t + bytes) <= peakOwned' /\ peakOwned' <= MaxTotalCaptureBytes
       /\ t + bytes <= peakTransient' /\ peakTransient' <= peakOwned'
  BY <1>5, <1>6, <1>7, <1>9 DEF Larger
<1>13. WithinBudgets'
  BY <1>4, <1>8, <1>12 DEF WithinBudgets, Owned, Logical
<1> QED BY <1>10, <1>11, <1>13 DEF Budgets

\* An import consumed leaves the others as they were admitted.
LEMMA ImportTakenAdmitted ==
    ASSUME RegistriesOK, EntriesAdmitted, NEW h, Names(imports, h), imports' = Removed(imports, h)
    PROVE  EntriesAdmitted'
<1>1. /\ Occupied(imports') = Occupied(imports) \ {h.slot}
      /\ \A s \in DOMAIN imports.slots \ {h.slot} : imports'.slots[s] = imports.slots[s]
  BY RemovedSlots DEF RegistriesOK
<1>2. Occupied(imports)' = Occupied(imports')
  BY DEF Occupied
<1>3. Occupied(imports) \subseteq DOMAIN imports.slots
  BY DEF Occupied
<1> QED BY <1>1, <1>2, <1>3 DEF EntriesAdmitted

\* What an import reserved is enough for the dataset made of it.
LEMMA FinishedFits ==
    ASSUME RegistriesOK, Budgets, NEW h, Names(imports, h), NEW d \in Finished(Import(h)),
           HasInsertCapacity(datasets)
    PROVE  Registrable(Removed(imports, h), d)
<1> DEFINE e == Import(h)
           t == TransientInput(Removed(imports, h))
           r == TransientReserve(Removed(imports, h))
           c == RetainedCapture
           i == RetainedIndex
<1>1. /\ e \in ImportEntry /\ e.bytes \in Nat /\ e.reserve \in Nat /\ t \in Nat /\ r \in Nat
      /\ t + e.bytes = TransientInput(imports) /\ r + e.reserve = TransientReserve(imports)
  BY ImportTaken
<1>2. c \in Nat /\ i \in Nat /\ TransientInput(imports) \in Nat /\ TransientReserve(imports) \in Nat
  BY TotalsAreNumbers
<1>3. /\ (c + TransientInput(imports)) + i + TransientReserve(imports) <= MaxTotalLogicalBytes
      /\ c + TransientInput(imports) <= peakOwned /\ peakOwned <= MaxTotalCaptureBytes
      /\ peakOwned \in Nat
  BY DEF Budgets, WithinBudgets, Owned, Logical
<1>4. d \in CaptureDataset /\ d.bytes = e.bytes /\ d.index <= e.reserve
  BY DEF Finished
<1>5. d.bytes \in Nat /\ d.index \in Nat /\ d.packets <= MaxPackets
  <2>1. d.bytes \in CaptureSizes /\ d.index \in IndexSizes /\ d.packets \in 0..MaxPackets
    BY <1>4 DEF CaptureDataset, Rows
  <2>2. d.bytes \in Nat /\ d.index \in Nat
    BY <2>1, SizesAssumption
  <2>3. MaxPackets \in Nat
    BY SizesAssumption
  <2> QED BY <2>1, <2>2, <2>3
<1>6. d.bytes <= MaxCaptureBytes
  <2>1. h.slot \in Occupied(imports) /\ e = imports.slots[h.slot].value
    BY DEF Names, Occupied, Import, ValueOf
  <2> QED BY <1>4, <2>1 DEF Budgets, EntriesAdmitted
<1>7. MaxTotalCaptureBytes \in Nat /\ MaxTotalLogicalBytes \in Nat
  BY SizesAssumption
<1> HIDE DEF e, t, r, c, i
<1>8. /\ (c + t) + d.bytes <= MaxTotalCaptureBytes
      /\ ((c + t) + i + r) + d.bytes + d.index <= MaxTotalLogicalBytes
  BY <1>1, <1>2, <1>3, <1>4, <1>5, <1>7
<1> QED BY <1>5, <1>6, <1>8 DEF Registrable, Owned, Logical, t, r, c, i

\* Whatever consumes an import, without a dataset to show for it, frees what it
\* was admitted with.
LEMMA ImportTakenBudgets ==
    ASSUME RegistriesOK, Budgets, NEW h, Names(imports, h), imports' = Removed(imports, h),
           UNCHANGED <<datasets, peakOwned, peakTransient>>
    PROVE  Budgets'
<1>1. /\ TransientInput(imports') \in Nat /\ TransientInput(imports') <= TransientInput(imports)
      /\ TransientReserve(imports') \in Nat
      /\ TransientReserve(imports') <= TransientReserve(imports)
  BY ImportTaken
<1>2. RetainedCapture' = RetainedCapture /\ RetainedIndex' = RetainedIndex
  BY DEF RetainedCapture, RetainedIndex, Bytes, Index
<1>3. RetainedCapture \in Nat /\ RetainedIndex \in Nat
  BY TotalsAreNumbers
<1>4. WithinBudgets' /\ peakOwned' \in Nat /\ peakTransient' \in Nat
  BY <1>1, <1>2, <1>3, LowerTotals
<1>5. EntriesAdmitted'
  BY ImportTakenAdmitted DEF Budgets
<1> QED BY <1>4, <1>5 DEF Budgets

\* The step that completes an importer changes no size.
LEMMA AdvanceToReadyBudgets ==
    ASSUME Inv, Budgets, NEW h \in ImportHandles, AdvanceToReady(h)
    PROVE  Budgets'
<1> DEFINE e == [Import(h) EXCEPT !.phase = "ready"]
<1>1. RegistriesOK
  BY DEF Inv
<1>2. /\ Names(imports, h) /\ imports' = Updated(imports, h, e)
      /\ UNCHANGED <<datasets, peakOwned, peakTransient>>
  BY LookupOK DEF AdvanceToReady, ImportStatus
<1>3. Import(h) \in ImportEntry
  BY <1>1, <1>2, ImportTaken
<1>4. e \in ImportEntry /\ e.bytes = Import(h).bytes /\ e.reserve = Import(h).reserve
  BY <1>3 DEF ImportEntry
<1> HIDE DEF e
<1>5. /\ WellFormed(imports, ImportEntry) /\ WellFormed(imports', ImportEntry)
  BY <1>1, <1>2, <1>4, ResourcesNotEmpty, UpdatedWellFormed DEF RegistriesOK
<1>6. /\ BytesIn(ImportEntry)[e] = BytesIn(ImportEntry)[ValueOf(imports, h)]
      /\ ReserveIn[e] = ReserveIn[ValueOf(imports, h)]
  BY <1>3, <1>4 DEF BytesIn, ReserveIn, Import
<1>7. /\ Total(Weights(imports', BytesIn(ImportEntry))) = Total(Weights(imports, BytesIn(ImportEntry)))
      /\ Total(Weights(imports', ReserveIn)) = Total(Weights(imports, ReserveIn))
  BY <1>2, <1>4, <1>5, <1>6, ResourcesNotEmpty, SizesAreNumbers, UpdatedTotal
<1>8. TransientInput(imports') = TransientInput(imports)
      /\ TransientReserve(imports') = TransientReserve(imports)
  BY <1>5, <1>7, ImportTotals
<1>9. RetainedCapture' = RetainedCapture /\ RetainedIndex' = RetainedIndex
  BY <1>2 DEF RetainedCapture, RetainedIndex, Bytes, Index
<1>10. /\ TransientInput(imports) \in Nat /\ TransientReserve(imports) \in Nat
       /\ RetainedCapture \in Nat /\ RetainedIndex \in Nat
  BY <1>1, TotalsAreNumbers
<1>11. WithinBudgets' /\ peakOwned' \in Nat /\ peakTransient' \in Nat
  BY <1>1, <1>2, <1>8, <1>9, <1>10, LowerTotals
<1>12. EntriesAdmitted'
  <2>1. /\ Occupied(imports') = Occupied(imports)
        /\ imports'.slots[h.slot].value = e
        /\ \A s \in DOMAIN imports.slots \ {h.slot} : imports'.slots[s] = imports.slots[s]
    BY <1>1, <1>2, <1>4, ResourcesNotEmpty, UpdatedSlots DEF RegistriesOK
  <2>2. EntriesAdmitted /\ Occupied(imports)' = Occupied(imports')
    BY DEF Budgets, Occupied
  <2>3. h.slot \in Occupied(imports) /\ imports.slots[h.slot].value = Import(h)
    BY <1>2 DEF Names, Occupied, Import, ValueOf
  <2>4. ASSUME NEW s \in Occupied(imports) PROVE imports'.slots[s].value.bytes <= MaxCaptureBytes
    <3>1. s \in DOMAIN imports.slots /\ imports.slots[s].value.bytes <= MaxCaptureBytes
      BY <2>2 DEF EntriesAdmitted, Occupied
    <3>2. CASE s = h.slot
      BY <1>4, <2>1, <2>3, <3>1, <3>2
    <3>3. CASE s # h.slot
      BY <2>1, <3>1, <3>3
    <3> QED BY <3>2, <3>3
  <2> QED BY <2>1, <2>2, <2>4 DEF EntriesAdmitted
<1> QED BY <1>11, <1>12 DEF Budgets

\* A registration that passed its checks stays within the budgets, whether its
\* import was just consumed or there was none.
LEMMA PublishBudgets ==
    ASSUME RegistriesOK, Budgets, NEW d \in CaptureDataset, Registrable(imports', d),
           Publish(imports', d), UNCHANGED peakTransient, EntriesAdmitted',
           TransientInput(imports') \in Nat, TransientInput(imports') <= TransientInput(imports),
           TransientReserve(imports') \in Nat
    PROVE  Budgets'
<1> DEFINE t == TransientInput(imports')
           r == TransientReserve(imports')
           c == RetainedCapture
           i == RetainedIndex
           b == d.bytes
           x == d.index
<1>1. RetainedCapture' = c + b /\ RetainedIndex' = i + x
  BY DatasetAdded DEF Registrable, Publish
<1>2. c \in Nat /\ i \in Nat /\ t \in Nat /\ r \in Nat /\ b \in Nat /\ x \in Nat
  <2>1. b \in Nat /\ x \in Nat
    BY SizesAssumption DEF CaptureDataset
  <2> QED BY <2>1, TotalsAreNumbers
<1>3. /\ peakOwned <= MaxTotalCaptureBytes /\ peakOwned \in Nat /\ peakTransient \in Nat
      /\ TransientInput(imports) <= peakTransient /\ peakTransient <= peakOwned
      /\ t <= TransientInput(imports) /\ TransientInput(imports) \in Nat
  BY TotalsAreNumbers DEF Budgets, WithinBudgets
<1>4. /\ (c + t) + b <= MaxTotalCaptureBytes
      /\ ((c + t) + i + r) + b + x <= MaxTotalLogicalBytes
      /\ peakOwned' = Larger(peakOwned, (c + t) + b)
      /\ peakTransient' = peakTransient
  BY DEF Registrable, Publish, Owned, Logical
<1>5. TransientInput(imports)' = t /\ TransientReserve(imports)' = r
  BY TotalsAfter
<1>6. MaxTotalCaptureBytes \in Nat /\ MaxTotalLogicalBytes \in Nat
  BY SizesAssumption
<1> HIDE DEF t, r, c, i, b, x
<1>7. peakOwned' \in Nat /\ peakTransient' \in Nat
  BY <1>2, <1>3, <1>4 DEF Larger
<1>8. /\ ((c + b) + t) + (i + x) + r <= MaxTotalLogicalBytes
      /\ (c + b) + t <= peakOwned' /\ peakOwned' <= MaxTotalCaptureBytes
      /\ t <= peakTransient' /\ peakTransient' <= peakOwned'
  BY <1>2, <1>3, <1>4, <1>6 DEF Larger
<1>9. WithinBudgets'
  BY <1>1, <1>5, <1>8 DEF WithinBudgets, Owned, Logical
<1> QED BY <1>7, <1>9 DEF Budgets

\* Finishing an import, whether or not its dataset is published.
LEMMA FinishImportBudgets ==
    ASSUME Inv, Budgets, NEW h \in ImportHandles, FinishImport(h)
    PROVE  Budgets'
<1>1. RegistriesOK
  BY DEF Inv
<1>2. /\ Names(imports, h) /\ imports' = Removed(imports, h) /\ UNCHANGED peakTransient
      /\ \/ UNCHANGED <<datasets, peakOwned>>
         \/ \E d \in CaptureDataset : Registrable(imports', d) /\ Publish(imports', d)
  BY LookupOK DEF FinishImport, ImportStatus, Finished
<1>3. CASE UNCHANGED <<datasets, peakOwned>>
  BY <1>1, <1>2, <1>3, ImportTakenBudgets
<1>4. CASE \E d \in CaptureDataset : Registrable(imports', d) /\ Publish(imports', d)
  <2>1. PICK d \in CaptureDataset : Registrable(imports', d) /\ Publish(imports', d)
    BY <1>4
  <2>2. EntriesAdmitted'
    BY <1>1, <1>2, ImportTakenAdmitted DEF Budgets
  <2>3. /\ TransientInput(imports') \in Nat /\ TransientInput(imports') <= TransientInput(imports)
        /\ TransientReserve(imports') \in Nat
    BY <1>1, <1>2, ImportTaken
  <2> QED BY <1>1, <1>2, <2>1, <2>2, <2>3, PublishBudgets
<1> QED BY <1>2, <1>3, <1>4

\* Registering a dataset from elsewhere.
LEMMA RegisterDatasetBudgets ==
    ASSUME Inv, Budgets, NEW d \in CaptureDataset, RegisterDataset(d)
    PROVE  Budgets'
<1>1. RegistriesOK
  BY DEF Inv
<1>2. /\ imports' = imports /\ UNCHANGED peakTransient
      /\ Registrable(imports', d) /\ Publish(imports', d)
  BY DEF RegisterDataset
<1>3. EntriesAdmitted'
  BY <1>2 DEF Budgets, EntriesAdmitted, Occupied
<1>4. /\ TransientInput(imports') = TransientInput(imports) /\ TransientInput(imports) \in Nat
      /\ TransientReserve(imports') = TransientReserve(imports)
      /\ TransientReserve(imports) \in Nat
  BY <1>1, <1>2, TotalsAreNumbers
<1> QED BY <1>1, <1>2, <1>3, <1>4, PublishBudgets

\* Disposing a dataset frees its bytes and its index.
LEMMA DisposeDatasetBudgets ==
    ASSUME Inv, Budgets, NEW h \in DatasetHandles, DisposeDataset(h)
    PROVE  Budgets'
<1>1. RegistriesOK
  BY DEF Inv
<1>2. /\ Names(datasets, h) /\ datasets' = Removed(datasets, h)
      /\ imports' = imports /\ UNCHANGED <<peakOwned, peakTransient>>
  BY LookupOK DEF DisposeDataset
<1>3. /\ RetainedCapture' \in Nat /\ RetainedCapture' <= RetainedCapture
      /\ RetainedIndex' \in Nat /\ RetainedIndex' <= RetainedIndex
  BY <1>1, <1>2, DatasetTaken
<1>4. /\ TransientInput(imports') = TransientInput(imports) /\ TransientInput(imports) \in Nat
      /\ TransientReserve(imports') = TransientReserve(imports)
      /\ TransientReserve(imports) \in Nat
  BY <1>1, <1>2, TotalsAreNumbers
<1>5. WithinBudgets' /\ peakOwned' \in Nat /\ peakTransient' \in Nat
  BY <1>1, <1>2, <1>3, <1>4, LowerTotals
<1>6. EntriesAdmitted'
  BY <1>2 DEF Budgets, EntriesAdmitted, Occupied
<1> QED BY <1>5, <1>6 DEF Budgets

\* Cursors count for nothing.
LEMMA CursorsCountForNothing ==
    ASSUME Budgets, UNCHANGED <<imports, datasets, peakOwned, peakTransient>>
    PROVE  Budgets'
  BY DEF Budgets, WithinBudgets, EntriesAdmitted, Owned, Logical, TransientInput, TransientReserve,
         RetainedCapture, RetainedIndex, Bytes, Reserve, Index, Occupied

\* Every operation stays within the budgets.
LEMMA NextBudgets == Inv /\ Budgets /\ [Next]_vars => Budgets'
<1> SUFFICES ASSUME Inv, Budgets, [Next]_vars PROVE Budgets'
  OBVIOUS
<1>1. ASSUME NEW bytes \in CaptureSizes, NEW reserve \in Reserves, BeginImport(bytes, reserve)
      PROVE  Budgets'
  BY <1>1, BeginImportBudgets
<1>2. ASSUME NEW h \in ImportHandles, AdvanceToReady(h) PROVE Budgets'
  BY <1>2, AdvanceToReadyBudgets
<1>3. ASSUME NEW h \in ImportHandles, AdvanceFails(h) \/ CancelImport(h) PROVE Budgets'
  <2>1. /\ Names(imports, h) /\ imports' = Removed(imports, h)
        /\ UNCHANGED <<datasets, peakOwned, peakTransient>>
    BY <1>3, LookupOK DEF AdvanceFails, CancelImport, ImportStatus
  <2> QED BY <2>1, ImportTakenBudgets DEF Inv
<1>4. ASSUME NEW h \in ImportHandles, FinishImport(h) PROVE Budgets'
  BY <1>4, FinishImportBudgets
<1>5. ASSUME NEW d \in CaptureDataset, RegisterDataset(d) PROVE Budgets'
  BY <1>5, RegisterDatasetBudgets
<1>6. ASSUME NEW h \in DatasetHandles, DisposeDataset(h) PROVE Budgets'
  BY <1>6, DisposeDatasetBudgets
<1>7. ASSUME NEW h \in DatasetHandles, NEW row \in Rows, CreatePacketCursor(h, row) PROVE Budgets'
  BY <1>7, CursorsCountForNothing DEF CreatePacketCursor
<1>8. ASSUME NEW h \in CursorHandles, NEW requested \in 0..MaxBatchRows,
             NEW fitting \in 0..MaxBatchRows, ReadPacketBatch(h, requested, fitting)
      PROVE  Budgets'
  BY <1>8, CursorsCountForNothing DEF ReadPacketBatch
<1>9. ASSUME NEW h \in CursorHandles, NEW start \in Rows, NEW next \in Rows,
             CommitPacketBatch(h, start, next) \/ DiscardPacketBatch(h, start, next)
      PROVE  Budgets'
  BY <1>9, CursorsCountForNothing DEF CommitPacketBatch, DiscardPacketBatch, ResolvePacketBatch
<1>10. ASSUME NEW h \in CursorHandles, DisposePacketCursor(h) PROVE Budgets'
  BY <1>10, CursorsCountForNothing DEF DisposePacketCursor
<1>11. CASE UNCHANGED vars
  BY <1>11, CursorsCountForNothing DEF vars
<1> QED BY <1>1, <1>2, <1>3, <1>4, <1>5, <1>6, <1>7, <1>8, <1>9, <1>10, <1>11 DEF Next

-----------------------------------------------------------------------------
\* Every operation preserves the invariant.
LEMMA NextInv == Inv /\ [Next]_vars => Inv'
<1> SUFFICES ASSUME Inv, [Next]_vars PROVE Inv'
  OBVIOUS
<1>1. ASSUME NEW bytes \in CaptureSizes, NEW reserve \in Reserves, BeginImport(bytes, reserve)
      PROVE  Inv'
  BY <1>1, BeginImportInv
<1>2. ASSUME NEW h \in ImportHandles, AdvanceToReady(h) PROVE Inv'
  BY <1>2, AdvanceToReadyInv
<1>3. ASSUME NEW h \in ImportHandles, AdvanceFails(h) \/ CancelImport(h) PROVE Inv'
  BY <1>3, ImportAbandonedInv
<1>4. ASSUME NEW h \in ImportHandles, FinishImport(h) PROVE Inv'
  BY <1>4, FinishImportInv
<1>5. ASSUME NEW d \in CaptureDataset, RegisterDataset(d) PROVE Inv'
  BY <1>5, RegisterDatasetInv
<1>6. ASSUME NEW h \in DatasetHandles, DisposeDataset(h) PROVE Inv'
  BY <1>6, DisposeDatasetInv
<1>7. ASSUME NEW h \in DatasetHandles, NEW row \in Rows, CreatePacketCursor(h, row) PROVE Inv'
  BY <1>7, CreatePacketCursorInv
<1>8. ASSUME NEW h \in CursorHandles, NEW requested \in 0..MaxBatchRows,
             NEW fitting \in 0..MaxBatchRows, ReadPacketBatch(h, requested, fitting)
      PROVE  Inv'
  BY <1>8, ReadPacketBatchInv
<1>9. ASSUME NEW h \in CursorHandles, NEW start \in Rows, NEW next \in Rows,
             CommitPacketBatch(h, start, next) \/ DiscardPacketBatch(h, start, next)
      PROVE  Inv'
  BY <1>9, ResolvePacketBatchInv DEF CommitPacketBatch, DiscardPacketBatch
<1>10. ASSUME NEW h \in CursorHandles, DisposePacketCursor(h) PROVE Inv'
  BY <1>10, DisposePacketCursorInv
<1>11. CASE UNCHANGED vars
  <2>1. UNCHANGED <<imports, datasets, cursors, cancelled>>
    BY <1>11 DEF vars
  <2> QED BY <2>1 DEF Inv, RegistriesOK, CursorsReferToLiveDatasets, CursorStaysInRange,
                      CancelledMemoryExact, Occupied, Dataset
<1> QED BY <1>1, <1>2, <1>3, <1>4, <1>5, <1>6, <1>7, <1>8, <1>9, <1>10, <1>11 DEF Next

\* The boundary's inductive invariant holds in every reachable state.
THEOREM BoundaryInvariant == Spec => []Inv
  BY InitInv, NextInv, PTL DEF Spec

\* No cursor outlives its dataset, comes to name another one or leaves its
\* range, and a pending batch starts where its cursor stands.
THEOREM CursorsStayUsable == Spec => []CursorsAreUsable
<1>1. Inv => CursorsAreUsable
  BY DEF Inv, CursorsAreUsable
<1> QED BY <1>1, BoundaryInvariant, PTL

\* The memory of a cancellation is of the slot's last holder, never a live one.
THEOREM CancellationRemembered == Spec => []CancelledMemoryExact
<1>1. Inv => CancelledMemoryExact
  BY DEF Inv
<1> QED BY <1>1, BoundaryInvariant, PTL

\* The budgets hold in every reachable state, with every entry admitted.
LEMMA BoundaryBudgets == Spec => []Budgets
<1>1. Inv /\ Budgets /\ [Next]_vars => Budgets'
  BY NextBudgets
<1> QED BY <1>1, InitBudgets, BoundaryInvariant, PTL DEF Spec

\* What the registries hold is of its type, whatever their caps.
THEOREM BoundaryTypes == Spec => []TypeOK
<1>1. Inv /\ Budgets => TypeOK
  BY DEF Inv, RegistriesOK, WellFormed, Budgets, TypeOK
<1> QED BY <1>1, BoundaryInvariant, BoundaryBudgets, PTL

\* Cumulative admission holds at every moment, and the peaks kept by hand bound
\* what is held and stay within what may ever be.
THEOREM BudgetsHold == Spec => []WithinBudgets
<1>1. Budgets => WithinBudgets
  BY DEF Budgets
<1> QED BY <1>1, BoundaryBudgets, PTL

\* What admission reserved for an import is enough for the dataset made of it.
THEOREM ReservedIsEnough == Spec => []ReadyImportPublishes
<1>1. Inv /\ Budgets => ReadyImportPublishes
  <2> SUFFICES ASSUME Inv, Budgets, HasInsertCapacity(datasets), NEW s \in Occupied(imports),
                      NEW d \in Finished(Import(HandleAt(imports, s)))
               PROVE  Registrable(Removed(imports, HandleAt(imports, s)), d)
    BY DEF ReadyImportPublishes
  <2>1. Names(imports, HandleAt(imports, s))
    BY DEF Names, HandleAt, Occupied
  <2> QED BY <2>1, FinishedFits DEF Inv
<1> QED BY <1>1, BoundaryInvariant, BoundaryBudgets, PTL

-----------------------------------------------------------------------------
(* The boundary implements the capture store: each operation of the        *)
(* registries is one operation of the store, or none, under the mapping    *)
(* that forgets slots, generations, free lists, budgets and peaks.         *)

\* The handles given up, of all three registries.
Gone == DeadHandles(imports) \cup DeadHandles(datasets) \cup DeadHandles(cursors)

-----------------------------------------------------------------------------
\* What the operations of one registry do to the table it stands for.

\* An insertion puts its resource under a handle not yet in use.
LEMMA HeldInserted ==
    ASSUME NEW V, Empty \notin V, NEW r, WellFormed(r, V), NEW v \in V, HasInsertCapacity(r)
    PROVE  /\ InsertHandle(r) \in Issuable(r)
           /\ InsertHandle(r) \notin DOMAIN HeldIn(r)
           /\ InsertHandle(r) \notin DeadHandles(r)
           /\ HeldIn(Inserted(r, v)) = Store!Put(HeldIn(r), InsertHandle(r), v)
           /\ DeadHandles(Inserted(r, v)) = DeadHandles(r)
<1> DEFINE R == Inserted(r, v)
           h == InsertHandle(r)
<1>1. /\ h \in Issuable(r)
      /\ h \notin LiveHandles(r) /\ h \notin DeadHandles(r)
      /\ LiveHandles(R) = LiveHandles(r) \cup {h}
      /\ DeadHandles(R) = DeadHandles(r)
      /\ ValueOf(R, h) = v
      /\ \A g \in LiveHandles(r) : ValueOf(R, g) = ValueOf(r, g)
  BY InsertedHandles
<1> HIDE DEF R, h
<1>2. HeldIn(R) = Store!Put(HeldIn(r), h, v)
  BY <1>1 DEF HeldIn, Store!Put
<1> QED BY <1>1, <1>2 DEF HeldIn, R, h

\* An update puts another resource under the same handle.
LEMMA HeldUpdated ==
    ASSUME NEW V, Empty \notin V, NEW r, WellFormed(r, V), NEW v \in V,
           NEW h \in Issuable(r), Names(r, h)
    PROVE  /\ h \in DOMAIN HeldIn(r) /\ HeldIn(r)[h] = ValueOf(r, h)
           /\ HeldIn(Updated(r, h, v)) = Store!Put(HeldIn(r), h, v)
           /\ DeadHandles(Updated(r, h, v)) = DeadHandles(r)
<1> DEFINE R == Updated(r, h, v)
<1>1. /\ h \in LiveHandles(r)
      /\ LiveHandles(R) = LiveHandles(r)
      /\ DeadHandles(R) = DeadHandles(r)
      /\ \A g \in LiveHandles(r) : ValueOf(R, g) = IF g = h THEN v ELSE ValueOf(r, g)
  BY UpdatedHandles
<1> HIDE DEF R
<1>2. HeldIn(R) = Store!Put(HeldIn(r), h, v)
  BY <1>1 DEF HeldIn, Store!Put
<1> QED BY <1>1, <1>2 DEF HeldIn, R

\* A removal takes a handle out of the table, for ever.
LEMMA HeldRemoved ==
    ASSUME NEW V, NEW r, WellFormed(r, V), NEW h \in Issuable(r), Names(r, h)
    PROVE  /\ h \in DOMAIN HeldIn(r) /\ HeldIn(r)[h] = ValueOf(r, h)
           /\ HeldIn(Removed(r, h)) = Store!Without(HeldIn(r), {h})
           /\ DeadHandles(Removed(r, h)) = DeadHandles(r) \cup {h}
<1> DEFINE R == Removed(r, h)
<1>1. /\ h \in LiveHandles(r)
      /\ LiveHandles(R) = LiveHandles(r) \ {h}
      /\ DeadHandles(R) = DeadHandles(r) \cup {h}
      /\ \A g \in LiveHandles(r) \ {h} : ValueOf(R, g) = ValueOf(r, g)
  BY RemovedHandles
<1> HIDE DEF R
<1>2. HeldIn(R) = Store!Without(HeldIn(r), {h})
  BY <1>1 DEF HeldIn, Store!Without
<1> QED BY <1>1, <1>2 DEF HeldIn, R

\* What a live handle names is what the table holds under it.
LEMMA HeldNamed ==
    ASSUME NEW V, NEW r, WellFormed(r, V), NEW h \in Issuable(r), Names(r, h)
    PROVE  h \in DOMAIN HeldIn(r) /\ HeldIn(r)[h] = ValueOf(r, h)
<1>1. h \in LiveHandles(r)
  BY HandleSets
<1> QED BY <1>1 DEF HeldIn

-----------------------------------------------------------------------------
\* The handles of the three registries are of three kinds.
LEMMA HandleKindsApart ==
    ASSUME RegistriesOK
    PROVE  /\ Issuable(imports) = ImportHandles
           /\ Issuable(datasets) = DatasetHandles
           /\ Issuable(cursors) = CursorHandles
           /\ \A h \in ImportHandles : h \notin DeadHandles(datasets) \cup DeadHandles(cursors)
           /\ \A h \in DatasetHandles : h \notin DeadHandles(imports) \cup DeadHandles(cursors)
           /\ \A h \in CursorHandles : h \notin DeadHandles(imports) \cup DeadHandles(datasets)
<1>1. /\ imports.kind = "Import" /\ imports.maxSlots = MaxImports
      /\ datasets.kind = "Dataset" /\ datasets.maxSlots = MaxDatasets
      /\ cursors.kind = "PacketCursor" /\ cursors.maxSlots = MaxCursors
  BY DEF RegistriesOK
<1>2. /\ \A h \in DeadHandles(imports) : h.kind = "Import"
      /\ \A h \in DeadHandles(datasets) : h.kind = "Dataset"
      /\ \A h \in DeadHandles(cursors) : h.kind = "PacketCursor"
  BY <1>1 DEF DeadHandles, Handles
<1>3. /\ \A h \in ImportHandles : h.kind = "Import"
      /\ \A h \in DatasetHandles : h.kind = "Dataset"
      /\ \A h \in CursorHandles : h.kind = "PacketCursor"
  BY DEF ImportHandles, DatasetHandles, CursorHandles, Handles
<1>4. /\ Issuable(imports) = ImportHandles
      /\ Issuable(datasets) = DatasetHandles
      /\ Issuable(cursors) = CursorHandles
  BY <1>1 DEF Issuable, ImportHandles, DatasetHandles, CursorHandles
<1> QED BY <1>2, <1>3, <1>4

\* The registries of the invariant, for the lemmas on one of them.
LEMMA RegistriesFormed ==
    ASSUME Inv
    PROVE  /\ RegistriesOK
           /\ WellFormed(imports, ImportEntry) /\ Empty \notin ImportEntry
           /\ WellFormed(datasets, CaptureDataset) /\ Empty \notin CaptureDataset
           /\ WellFormed(cursors, PacketCursor) /\ Empty \notin PacketCursor
  BY ResourcesNotEmpty DEF Inv, RegistriesOK

\* The tables after a step are those of the registries after it.
LEMMA TablesAfter ==
    /\ HeldIn(imports)' = HeldIn(imports')
    /\ HeldIn(datasets)' = HeldIn(datasets')
    /\ HeldIn(cursors)' = HeldIn(cursors')
    /\ Gone' = DeadHandles(imports') \cup DeadHandles(datasets') \cup DeadHandles(cursors')
<1>1. /\ HeldIn(imports)' = HeldIn(imports')
      /\ HeldIn(datasets)' = HeldIn(datasets')
      /\ HeldIn(cursors)' = HeldIn(cursors')
  BY DEF HeldIn, LiveHandles, Occupied, HandleAt, ValueOf
<1>2. /\ DeadHandles(imports)' = DeadHandles(imports')
      /\ DeadHandles(datasets)' = DeadHandles(datasets')
      /\ DeadHandles(cursors)' = DeadHandles(cursors')
  BY DEF DeadHandles, Handles, Retired
<1> QED BY <1>1, <1>2 DEF Gone

\* A new boundary is an empty store.
LEMMA InitRefines == Init => Store!Init
<1> SUFFICES ASSUME Init PROVE Store!Init
  OBVIOUS
<1>1. /\ LiveHandles(imports) = {} /\ DeadHandles(imports) = {}
      /\ LiveHandles(datasets) = {} /\ DeadHandles(datasets) = {}
      /\ LiveHandles(cursors) = {} /\ DeadHandles(cursors) = {}
  BY NewHandles DEF Init
<1> QED BY <1>1 DEF Store!Init, Store!None, HeldIn

-----------------------------------------------------------------------------
\* Imports.

\* Admission gives out a new handle for the import.
LEMMA BeginImportRefines ==
    ASSUME Inv, NEW bytes \in CaptureSizes, NEW reserve \in Reserves, BeginImport(bytes, reserve)
    PROVE  Store!Begin
<1> DEFINE e == [bytes |-> bytes, reserve |-> reserve, phase |-> "importing"]
           h == InsertHandle(imports)
<1>1. /\ e \in ImportEntry /\ HasInsertCapacity(imports) /\ imports' = Inserted(imports, e)
      /\ UNCHANGED <<datasets, cursors>>
  BY DEF BeginImport, Admitted, ImportEntry
<1> HIDE DEF h
<1>2. /\ h \in ImportHandles /\ h \notin DOMAIN HeldIn(imports) /\ h \notin Gone
      /\ HeldIn(imports') = Store!Put(HeldIn(imports), h, e)
      /\ DeadHandles(imports') = DeadHandles(imports)
  <2> HIDE DEF e
  <2>1. /\ h \in Issuable(imports) /\ h \notin DOMAIN HeldIn(imports)
        /\ h \notin DeadHandles(imports)
        /\ HeldIn(imports') = Store!Put(HeldIn(imports), h, e)
        /\ DeadHandles(imports') = DeadHandles(imports)
    BY <1>1, RegistriesFormed, HeldInserted DEF h
  <2> QED BY <2>1, RegistriesFormed, HandleKindsApart DEF Gone
<1>3. /\ HeldIn(datasets)' = HeldIn(datasets) /\ HeldIn(cursors)' = HeldIn(cursors)
      /\ HeldIn(imports)' = Store!Put(HeldIn(imports), h, e)
      /\ Gone' = Gone
  BY <1>1, <1>2, TablesAfter DEF Gone
<1>4. h \in Store!Unused(ImportHandles, HeldIn(imports))
  BY <1>2 DEF Store!Unused, Gone
<1> QED BY <1>3, <1>4 DEF Store!Begin, Gone

\* The importer of a running import is complete.
LEMMA AdvanceToReadyRefines ==
    ASSUME Inv, NEW h \in ImportHandles, AdvanceToReady(h)
    PROVE  Store!Complete
<1> DEFINE e == [Import(h) EXCEPT !.phase = "ready"]
<1>1. /\ Names(imports, h) /\ imports' = Updated(imports, h, e) /\ UNCHANGED <<datasets, cursors>>
  BY LookupOK DEF AdvanceToReady, ImportStatus
<1>2. e \in ImportEntry
  <2>1. Import(h) \in ImportEntry
    BY <1>1, RegistriesFormed, ImportTaken
  <2> QED BY <2>1 DEF ImportEntry
<1>3. /\ h \in DOMAIN HeldIn(imports) /\ HeldIn(imports)[h] = Import(h)
      /\ HeldIn(imports') = Store!Put(HeldIn(imports), h, e)
      /\ DeadHandles(imports') = DeadHandles(imports)
  <2> HIDE DEF e
  <2>1. h \in Issuable(imports)
    BY RegistriesFormed, HandleKindsApart
  <2> QED BY <1>1, <1>2, <2>1, RegistriesFormed, HeldUpdated DEF Import
<1>4. e = [HeldIn(imports)[h] EXCEPT !.phase = "ready"]
  BY <1>3
<1> HIDE DEF e
<1>5. /\ HeldIn(datasets)' = HeldIn(datasets) /\ HeldIn(cursors)' = HeldIn(cursors)
      /\ HeldIn(imports)' = Store!Put(HeldIn(imports), h, e)
      /\ Gone' = Gone
  BY <1>1, <1>3, TablesAfter DEF Gone
<1> QED BY <1>3, <1>4, <1>5 DEF Store!Complete, Gone

\* An import consumed is gone from the store.
LEMMA ImportConsumed ==
    ASSUME Inv, NEW h \in ImportHandles, Names(imports, h), imports' = Removed(imports, h)
    PROVE  /\ h \in DOMAIN HeldIn(imports) /\ HeldIn(imports)[h] = Import(h)
           /\ HeldIn(imports)' = Store!Without(HeldIn(imports), {h})
           /\ DeadHandles(imports') = DeadHandles(imports) \cup {h}
<1>1. h \in Issuable(imports)
  BY RegistriesFormed, HandleKindsApart
<1>2. /\ h \in DOMAIN HeldIn(imports) /\ HeldIn(imports)[h] = ValueOf(imports, h)
      /\ HeldIn(imports') = Store!Without(HeldIn(imports), {h})
      /\ DeadHandles(imports') = DeadHandles(imports) \cup {h}
  BY <1>1, RegistriesFormed, HeldRemoved
<1> QED BY <1>2, TablesAfter DEF Import

\* A failed or cancelled import leaves nothing behind.
LEMMA AbandonRefines ==
    ASSUME Inv, NEW h \in ImportHandles, Names(imports, h), imports' = Removed(imports, h),
           UNCHANGED <<datasets, cursors>>
    PROVE  Store!Abandon
<1>1. /\ h \in DOMAIN HeldIn(imports)
      /\ HeldIn(imports)' = Store!Without(HeldIn(imports), {h})
      /\ DeadHandles(imports') = DeadHandles(imports) \cup {h}
  BY ImportConsumed
<1>2. /\ HeldIn(datasets)' = HeldIn(datasets) /\ HeldIn(cursors)' = HeldIn(cursors)
      /\ Gone' = Gone \cup {h}
  BY <1>1, TablesAfter DEF Gone
<1> QED BY <1>1, <1>2 DEF Store!Abandon, Gone

\* A dataset published is under a handle not yet in use.
LEMMA DatasetPublished ==
    ASSUME Inv, NEW d \in CaptureDataset, HasInsertCapacity(datasets),
           datasets' = Inserted(datasets, d)
    PROVE  LET g == InsertHandle(datasets) IN
           /\ g \in Store!Unused(DatasetHandles, HeldIn(datasets))
           /\ HeldIn(datasets)' = Store!Put(HeldIn(datasets), g, d)
           /\ DeadHandles(datasets') = DeadHandles(datasets)
<1> DEFINE g == InsertHandle(datasets)
<1>1. /\ g \in Issuable(datasets) /\ g \notin DOMAIN HeldIn(datasets)
      /\ g \notin DeadHandles(datasets)
      /\ HeldIn(datasets') = Store!Put(HeldIn(datasets), g, d)
      /\ DeadHandles(datasets') = DeadHandles(datasets)
  BY RegistriesFormed, HeldInserted
<1> HIDE DEF g
<1>2. g \in DatasetHandles /\ g \notin Gone
  BY <1>1, RegistriesFormed, HandleKindsApart DEF Gone
<1>3. g \in Store!Unused(DatasetHandles, HeldIn(datasets))
  BY <1>1, <1>2 DEF Store!Unused, Gone
<1> QED BY <1>1, <1>3, TablesAfter DEF g

\* Finishing trades an import for its dataset, or loses it.
LEMMA FinishImportRefines ==
    ASSUME Inv, NEW h \in ImportHandles, FinishImport(h)
    PROVE  Store!Finish \/ Store!Abandon
<1>1. /\ Names(imports, h) /\ imports' = Removed(imports, h) /\ UNCHANGED cursors
      /\ Import(h).phase = "ready" /\ HasInsertCapacity(datasets)
      /\ \/ UNCHANGED datasets
         \/ \E d \in Finished(Import(h)) : datasets' = Inserted(datasets, d)
  BY LookupOK DEF FinishImport, ImportStatus, Publish
<1>2. CASE UNCHANGED datasets
  BY <1>1, <1>2, AbandonRefines
<1>3. CASE \E d \in Finished(Import(h)) : datasets' = Inserted(datasets, d)
  <2> DEFINE g == InsertHandle(datasets)
  <2>1. PICK d \in CaptureDataset :
            /\ d.bytes = Import(h).bytes /\ d.index <= Import(h).reserve
            /\ datasets' = Inserted(datasets, d)
    BY <1>3 DEF Finished
  <2>2. /\ h \in DOMAIN HeldIn(imports) /\ HeldIn(imports)[h] = Import(h)
        /\ HeldIn(imports)' = Store!Without(HeldIn(imports), {h})
        /\ DeadHandles(imports') = DeadHandles(imports) \cup {h}
    BY <1>1, ImportConsumed
  <2>3. /\ g \in Store!Unused(DatasetHandles, HeldIn(datasets))
        /\ HeldIn(datasets)' = Store!Put(HeldIn(datasets), g, d)
        /\ DeadHandles(datasets') = DeadHandles(datasets)
    BY <1>1, <2>1, DatasetPublished
  <2> HIDE DEF g
  <2>4. HeldIn(cursors)' = HeldIn(cursors) /\ Gone' = Gone \cup {h}
    BY <1>1, <2>2, <2>3, TablesAfter DEF Gone
  <2>5. /\ HeldIn(imports)[h].phase = "ready"
        /\ d.bytes = HeldIn(imports)[h].bytes /\ d.index <= HeldIn(imports)[h].reserve
    BY <1>1, <2>1, <2>2
  <2>6. Store!Finish
    BY <2>1, <2>2, <2>3, <2>4, <2>5 DEF Store!Finish, Gone
  <2> QED BY <2>6
<1> QED BY <1>1, <1>2, <1>3

-----------------------------------------------------------------------------
\* Datasets and cursors.

\* A dataset registered from elsewhere.
LEMMA RegisterDatasetRefines ==
    ASSUME Inv, NEW d \in CaptureDataset, RegisterDataset(d)
    PROVE  Store!Register
<1> DEFINE g == InsertHandle(datasets)
<1>1. /\ HasInsertCapacity(datasets) /\ datasets' = Inserted(datasets, d)
      /\ UNCHANGED <<imports, cursors>>
  BY DEF RegisterDataset, Registrable, Publish
<1>2. /\ g \in Store!Unused(DatasetHandles, HeldIn(datasets))
      /\ HeldIn(datasets)' = Store!Put(HeldIn(datasets), g, d)
      /\ DeadHandles(datasets') = DeadHandles(datasets)
  BY <1>1, DatasetPublished
<1> HIDE DEF g
<1>3. /\ HeldIn(imports)' = HeldIn(imports) /\ HeldIn(cursors)' = HeldIn(cursors)
      /\ Gone' = Gone
  BY <1>1, <1>2, TablesAfter DEF Gone
<1> QED BY <1>2, <1>3 DEF Store!Register, Gone

\* A dataset leaves with exactly the cursors that page through it.
LEMMA DisposeDatasetRefines ==
    ASSUME Inv, NEW h \in DatasetHandles, DisposeDataset(h)
    PROVE  Store!Dispose
<1> DEFINE lost == {c \in LiveHandles(cursors) : c.slot \in CursorsOf(h)}
           dependent == {c \in DOMAIN HeldIn(cursors) : HeldIn(cursors)[c].dataset = h}
<1>1. /\ Names(datasets, h) /\ datasets' = Removed(datasets, h) /\ UNCHANGED imports
  BY LookupOK DEF DisposeDataset
<1>2. PICK order \in AscendingOrders(ReusableOf(cursors, CursorsOf(h))) :
          cursors' = RemovedWhere(cursors, CursorsOf(h), order)
  BY DEF DisposeDataset
<1>3. CursorsOf(h) \in SUBSET Occupied(cursors)
  BY DEF CursorsOf
<1>4. h \in Issuable(datasets)
  BY RegistriesFormed, HandleKindsApart
<1>5. /\ h \in DOMAIN HeldIn(datasets)
      /\ HeldIn(datasets') = Store!Without(HeldIn(datasets), {h})
      /\ DeadHandles(datasets') = DeadHandles(datasets) \cup {h}
  BY <1>1, <1>4, RegistriesFormed, HeldRemoved
<1>6. /\ LiveHandles(cursors') = LiveHandles(cursors) \ lost
      /\ DeadHandles(cursors') = DeadHandles(cursors) \cup lost
      /\ \A g \in LiveHandles(cursors) \ lost : ValueOf(cursors', g) = ValueOf(cursors, g)
  BY <1>2, <1>3, RegistriesFormed, RemovedWhereHandles
<1>7. lost = dependent
  <2>1. \A c \in LiveHandles(cursors) : c.slot \in Occupied(cursors)
    BY DEF LiveHandles, HandleAt
  <2> QED BY <2>1 DEF CursorsOf, HeldIn, ValueOf
<1> HIDE DEF lost
<1>8. HeldIn(cursors') = Store!Without(HeldIn(cursors), lost)
  BY <1>6 DEF HeldIn, Store!Without
<1>9. /\ HeldIn(imports)' = HeldIn(imports)
      /\ HeldIn(datasets)' = Store!Without(HeldIn(datasets), {h})
      /\ HeldIn(cursors)' = Store!Without(HeldIn(cursors), dependent)
      /\ Gone' = Gone \cup {h} \cup dependent
  BY <1>1, <1>5, <1>6, <1>7, <1>8, TablesAfter DEF Gone
<1> HIDE DEF dependent
<1> QED BY <1>5, <1>9 DEF Store!Dispose, Gone, dependent

\* A cursor opened starts inside its dataset, under a handle not yet in use.
LEMMA CreatePacketCursorRefines ==
    ASSUME Inv, NEW h \in DatasetHandles, NEW row \in Rows, CreatePacketCursor(h, row)
    PROVE  Store!Open
<1> DEFINE e == [dataset |-> h, next |-> row, pending |-> NoBatch]
           c == InsertHandle(cursors)
<1>1. /\ Names(datasets, h) /\ row <= Dataset(h).packets /\ HasInsertCapacity(cursors)
      /\ cursors' = Inserted(cursors, e) /\ UNCHANGED <<imports, datasets>>
  BY LookupOK DEF CreatePacketCursor
<1>2. e \in PacketCursor
  BY DEF PacketCursor
<1> HIDE DEF c
<1>3. /\ c \in Issuable(cursors) /\ c \notin DOMAIN HeldIn(cursors)
      /\ c \notin DeadHandles(cursors)
      /\ HeldIn(cursors') = Store!Put(HeldIn(cursors), c, e)
      /\ DeadHandles(cursors') = DeadHandles(cursors)
  <2> HIDE DEF e
  <2> QED BY <1>1, <1>2, RegistriesFormed, HeldInserted DEF c
<1>4. c \in Store!Unused(CursorHandles, HeldIn(cursors))
  <2>1. c \in CursorHandles /\ c \notin Gone
    BY <1>3, RegistriesFormed, HandleKindsApart DEF Gone
  <2> QED BY <1>3, <2>1 DEF Store!Unused, Gone
<1>5. h \in DOMAIN HeldIn(datasets) /\ HeldIn(datasets)[h] = Dataset(h)
  <2>1. h \in Issuable(datasets)
    BY RegistriesFormed, HandleKindsApart
  <2> QED BY <1>1, <2>1, RegistriesFormed, HeldNamed DEF Dataset
<1>6. row \in 0..HeldIn(datasets)[h].packets
  <2>1. ValueOf(datasets, h) \in CaptureDataset
    <3>1. datasets.slots[h.slot] \in SlotType(CaptureDataset)
      BY <1>1, RegistriesFormed DEF WellFormed, WellTyped, Names
    <3> QED BY <1>1, <3>1 DEF SlotType, ValueOf, Names
  <2>2. Dataset(h).packets \in 0..MaxPackets /\ MaxPackets \in Nat
    BY <2>1, SizesAssumption DEF Dataset, CaptureDataset, Rows
  <2>3. row \in Nat
    BY <2>2 DEF Rows
  <2> QED BY <1>1, <1>5, <2>2, <2>3
<1>7. /\ HeldIn(imports)' = HeldIn(imports) /\ HeldIn(datasets)' = HeldIn(datasets)
      /\ HeldIn(cursors)' = Store!Put(HeldIn(cursors), c, e)
      /\ Gone' = Gone
  BY <1>1, <1>3, TablesAfter DEF Gone
<1> QED BY <1>4, <1>5, <1>6, <1>7 DEF Store!Open, Gone

\* A live cursor and its dataset, in the store.
LEMMA CursorInStore ==
    ASSUME Inv, NEW h \in CursorHandles, Names(cursors, h)
    PROVE  /\ h \in DOMAIN HeldIn(cursors) /\ HeldIn(cursors)[h] = Cursor(h)
           /\ HeldIn(datasets)[Cursor(h).dataset] = Dataset(Cursor(h).dataset)
           /\ Cursor(h) \in PacketCursor /\ InRange(Cursor(h))
           /\ Dataset(Cursor(h).dataset) \in CaptureDataset
<1>1. RegistriesOK /\ CursorsReferToLiveDatasets /\ CursorStaysInRange
  BY DEF Inv
<1>2. /\ Cursor(h) \in PacketCursor /\ Names(datasets, Cursor(h).dataset)
      /\ Dataset(Cursor(h).dataset) \in CaptureDataset /\ InRange(Cursor(h))
  BY <1>1, NamedCursor
<1>3. h \in Issuable(cursors) /\ Cursor(h).dataset \in Issuable(datasets)
  BY <1>1, <1>2, HandleKindsApart DEF PacketCursor
<1>4. h \in DOMAIN HeldIn(cursors) /\ HeldIn(cursors)[h] = ValueOf(cursors, h)
  BY <1>3, RegistriesFormed, HeldNamed
<1>5. HeldIn(datasets)[Cursor(h).dataset] = ValueOf(datasets, Cursor(h).dataset)
  BY <1>2, <1>3, RegistriesFormed, HeldNamed
<1> QED BY <1>2, <1>4, <1>5 DEF Cursor, Dataset

\* A cursor rewritten in place, in the store.
LEMMA CursorRewrittenInStore ==
    ASSUME Inv, NEW h \in CursorHandles, Names(cursors, h), NEW e \in PacketCursor,
           cursors' = Updated(cursors, h, e), UNCHANGED <<imports, datasets>>
    PROVE  /\ HeldIn(imports)' = HeldIn(imports) /\ HeldIn(datasets)' = HeldIn(datasets)
           /\ HeldIn(cursors)' = Store!Put(HeldIn(cursors), h, e)
           /\ Gone' = Gone
<1>1. h \in Issuable(cursors)
  BY RegistriesFormed, HandleKindsApart
<1>2. /\ HeldIn(cursors') = Store!Put(HeldIn(cursors), h, e)
      /\ DeadHandles(cursors') = DeadHandles(cursors)
  BY <1>1, RegistriesFormed, HeldUpdated
<1> QED BY <1>2, TablesAfter DEF Gone

\* A batch offered continues where its cursor stands, inside its dataset.
LEMMA ReadPacketBatchRefines ==
    ASSUME Inv, NEW h \in CursorHandles, NEW requested \in 0..MaxBatchRows,
           NEW fitting \in 0..MaxBatchRows, ReadPacketBatch(h, requested, fitting)
    PROVE  Store!Offer
<1> DEFINE cursor    == Cursor(h)
           packets   == Dataset(cursor.dataset).packets
           remaining == packets - cursor.next
           available == IF requested <= remaining THEN requested ELSE remaining
           rows      == IF available <= fitting THEN available ELSE fitting
           batch     == [start |-> cursor.next, next |-> cursor.next + rows]
           e         == [cursor EXCEPT !.pending = batch]
<1>1. /\ Names(cursors, h) /\ cursors' = Updated(cursors, h, e)
      /\ UNCHANGED <<imports, datasets>> /\ cursor.pending = NoBatch
  BY LookupOK DEF ReadPacketBatch
<1>2. /\ h \in DOMAIN HeldIn(cursors) /\ HeldIn(cursors)[h] = cursor
      /\ HeldIn(datasets)[cursor.dataset].packets = packets
      /\ cursor \in PacketCursor /\ InRange(cursor)
      /\ Dataset(cursor.dataset) \in CaptureDataset
  BY <1>1, CursorInStore
<1>3. /\ cursor.next \in Rows /\ packets \in Rows /\ cursor.next <= packets
      /\ MaxPackets \in Nat /\ MaxBatchRows \in Nat
  BY <1>2, SizesAssumption DEF PacketCursor, CaptureDataset, InRange
<1> HIDE DEF cursor, packets
<1>4. /\ rows \in 0..MaxBatchRows
      /\ cursor.next + rows \in cursor.next..packets /\ cursor.next + rows \in Rows
      /\ (cursor.next + rows) - cursor.next <= MaxBatchRows
  BY <1>3 DEF Rows
<1> HIDE DEF rows
<1>5. e \in PacketCursor
  BY <1>2, <1>3, <1>4 DEF PacketCursor, PendingPacketBatch
<1>6. /\ HeldIn(imports)' = HeldIn(imports) /\ HeldIn(datasets)' = HeldIn(datasets)
      /\ HeldIn(cursors)' = Store!Put(HeldIn(cursors), h, e)
      /\ Gone' = Gone
  <2> HIDE DEF e
  <2> QED BY <1>1, <1>5, CursorRewrittenInStore
<1> QED BY <1>1, <1>2, <1>4, <1>6 DEF Store!Offer, Gone

\* A batch taken moves its cursor past it; one refused is offered again.
LEMMA ResolvePacketBatchRefines ==
    ASSUME Inv, NEW h \in CursorHandles, NEW start \in Rows, NEW next \in Rows,
           NEW after \in {start, next}, ResolvePacketBatch(h, start, next, after)
    PROVE  Store!Resolve
<1> DEFINE cursor == Cursor(h)
           e == [cursor EXCEPT !.next = after, !.pending = NoBatch]
<1>1. /\ Names(cursors, h) /\ cursors' = Updated(cursors, h, e)
      /\ UNCHANGED <<imports, datasets>>
      /\ cursor.pending # NoBatch /\ start = cursor.pending.start /\ next = cursor.pending.next
      /\ cursor.next = cursor.pending.start
  BY LookupOK DEF ResolvePacketBatch
<1>2. /\ h \in DOMAIN HeldIn(cursors) /\ HeldIn(cursors)[h] = cursor /\ cursor \in PacketCursor
  BY <1>1, CursorInStore
<1> HIDE DEF cursor
<1>3. e \in PacketCursor
  BY <1>2 DEF PacketCursor
<1>4. after \in {cursor.pending.next, cursor.next}
  BY <1>1
<1>5. /\ HeldIn(imports)' = HeldIn(imports) /\ HeldIn(datasets)' = HeldIn(datasets)
      /\ HeldIn(cursors)' = Store!Put(HeldIn(cursors), h, e)
      /\ Gone' = Gone
  <2> HIDE DEF e
  <2> QED BY <1>1, <1>3, CursorRewrittenInStore
<1> QED BY <1>1, <1>2, <1>4, <1>5 DEF Store!Resolve, Gone

\* A cursor disposed is gone from the store.
LEMMA DisposePacketCursorRefines ==
    ASSUME Inv, NEW h \in CursorHandles, DisposePacketCursor(h)
    PROVE  Store!Close
<1>1. Names(cursors, h) /\ cursors' = Removed(cursors, h) /\ UNCHANGED <<imports, datasets>>
  BY LookupOK DEF DisposePacketCursor
<1>2. h \in Issuable(cursors)
  BY RegistriesFormed, HandleKindsApart
<1>3. /\ h \in DOMAIN HeldIn(cursors)
      /\ HeldIn(cursors') = Store!Without(HeldIn(cursors), {h})
      /\ DeadHandles(cursors') = DeadHandles(cursors) \cup {h}
  BY <1>1, <1>2, RegistriesFormed, HeldRemoved
<1>4. /\ HeldIn(imports)' = HeldIn(imports) /\ HeldIn(datasets)' = HeldIn(datasets)
      /\ HeldIn(cursors)' = Store!Without(HeldIn(cursors), {h})
      /\ Gone' = Gone \cup {h}
  BY <1>1, <1>3, TablesAfter DEF Gone
<1> QED BY <1>3, <1>4 DEF Store!Close, Gone

-----------------------------------------------------------------------------
\* Every operation of the boundary is an operation of the store, or none.
LEMMA NextRefines == Inv /\ [Next]_vars => [Store!Next]_(Store!vars)
<1> SUFFICES ASSUME Inv, [Next]_vars PROVE [Store!Next]_(Store!vars)
  OBVIOUS
<1>1. ASSUME NEW bytes \in CaptureSizes, NEW reserve \in Reserves, BeginImport(bytes, reserve)
      PROVE  Store!Next
  BY <1>1, BeginImportRefines DEF Store!Next
<1>2. ASSUME NEW h \in ImportHandles, AdvanceToReady(h) PROVE Store!Next
  BY <1>2, AdvanceToReadyRefines DEF Store!Next
<1>3. ASSUME NEW h \in ImportHandles, AdvanceFails(h) \/ CancelImport(h) PROVE Store!Next
  <2>1. /\ Names(imports, h) /\ imports' = Removed(imports, h)
        /\ UNCHANGED <<datasets, cursors>>
    BY <1>3, LookupOK DEF AdvanceFails, CancelImport, ImportStatus
  <2> QED BY <2>1, AbandonRefines DEF Store!Next
<1>4. ASSUME NEW h \in ImportHandles, FinishImport(h) PROVE Store!Next
  BY <1>4, FinishImportRefines DEF Store!Next
<1>5. ASSUME NEW d \in CaptureDataset, RegisterDataset(d) PROVE Store!Next
  BY <1>5, RegisterDatasetRefines DEF Store!Next
<1>6. ASSUME NEW h \in DatasetHandles, DisposeDataset(h) PROVE Store!Next
  BY <1>6, DisposeDatasetRefines DEF Store!Next
<1>7. ASSUME NEW h \in DatasetHandles, NEW row \in Rows, CreatePacketCursor(h, row)
      PROVE  Store!Next
  BY <1>7, CreatePacketCursorRefines DEF Store!Next
<1>8. ASSUME NEW h \in CursorHandles, NEW requested \in 0..MaxBatchRows,
             NEW fitting \in 0..MaxBatchRows, ReadPacketBatch(h, requested, fitting)
      PROVE  Store!Next
  BY <1>8, ReadPacketBatchRefines DEF Store!Next
<1>9. ASSUME NEW h \in CursorHandles, NEW start \in Rows, NEW next \in Rows,
             CommitPacketBatch(h, start, next) \/ DiscardPacketBatch(h, start, next)
      PROVE  Store!Next
  BY <1>9, ResolvePacketBatchRefines DEF CommitPacketBatch, DiscardPacketBatch, Store!Next
<1>10. ASSUME NEW h \in CursorHandles, DisposePacketCursor(h) PROVE Store!Next
  BY <1>10, DisposePacketCursorRefines DEF Store!Next
<1>11. CASE UNCHANGED vars
  <2>1. imports' = imports /\ datasets' = datasets /\ cursors' = cursors
    BY <1>11 DEF vars
  <2>2. /\ HeldIn(imports)' = HeldIn(imports) /\ HeldIn(datasets)' = HeldIn(datasets)
        /\ HeldIn(cursors)' = HeldIn(cursors) /\ Gone' = Gone
    BY <2>1, TablesAfter DEF Gone
  <2> QED BY <2>2 DEF Store!vars, Gone
<1> QED BY <1>1, <1>2, <1>3, <1>4, <1>5, <1>6, <1>7, <1>8, <1>9, <1>10, <1>11 DEF Next

\* The boundary implements the capture store: each operation is one atomic
\* change of it, and no handle is ever given out twice.
THEOREM StoreRefinement == Spec => ImplementsCaptureStore
<1>1. Inv /\ [Next]_vars => [Store!Next]_(Store!vars)
  BY NextRefines
<1> QED BY <1>1, InitRefines, BoundaryInvariant, PTL DEF Spec, ImplementsCaptureStore, Store!Spec
=============================================================================
