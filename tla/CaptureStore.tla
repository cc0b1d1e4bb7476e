---------------------------- MODULE CaptureStore ----------------------------
(***************************************************************************)
(* What the Wasm boundary promises the worker that owns it: captures are   *)
(* imported, published as datasets and paged through by cursors, under     *)
(* handles that name one thing for ever. There are no slots, generations,  *)
(* peaks or budgets here, and every operation is atomic.                   *)
(***************************************************************************)
EXTENDS Naturals

CONSTANTS
    ImportHandles, DatasetHandles, CursorHandles,
    CaptureSizes, Reserves, CaptureDataset, MaxBatchRows, NoBatch

VARIABLES
    importing,   \* the imports under way, by handle
    published,   \* the datasets, by handle
    paging,      \* the packet cursors, by handle
    gone         \* the handles that have been given up

vars == <<importing, published, paging, gone>>

None == [h \in {} |-> 0]

Init == importing = None /\ published = None /\ paging = None /\ gone = {}

\* A table with one entry more, less, or changed.
Put(table, h, v) == [g \in DOMAIN table \cup {h} |-> IF g = h THEN v ELSE table[g]]
Without(table, lost) == [g \in DOMAIN table \ lost |-> table[g]]

Unused(handles, table) == handles \ (DOMAIN table \cup gone)

Begin ==
    /\ UNCHANGED <<published, paging, gone>>
    /\ \E h \in Unused(ImportHandles, importing), bytes \in CaptureSizes, reserve \in Reserves :
           /\ importing' = Put(importing, h, [bytes |-> bytes, reserve |-> reserve,
                                              phase |-> "importing"])

Complete ==
    /\ UNCHANGED <<published, paging, gone>>
    /\ \E h \in DOMAIN importing :
           /\ importing' = Put(importing, h, [importing[h] EXCEPT !.phase = "ready"])

\* A failed or cancelled import leaves nothing behind.
Abandon ==
    /\ UNCHANGED <<published, paging>>
    /\ \E h \in DOMAIN importing :
           /\ importing' = Without(importing, {h})
           /\ gone' = gone \cup {h}

\* The dataset has the bytes of its import and an index no larger than planned.
Finish ==
    /\ UNCHANGED paging
    /\ \E h \in DOMAIN importing, d \in Unused(DatasetHandles, published), data \in CaptureDataset :
           /\ importing[h].phase = "ready"
           /\ data.bytes = importing[h].bytes /\ data.index <= importing[h].reserve
           /\ importing' = Without(importing, {h})
           /\ published' = Put(published, d, data)
           /\ gone' = gone \cup {h}

Register ==
    /\ UNCHANGED <<importing, paging, gone>>
    /\ \E d \in Unused(DatasetHandles, published), data \in CaptureDataset :
           /\ published' = Put(published, d, data)

Dispose ==
    /\ UNCHANGED importing
    /\ \E d \in DOMAIN published :
           LET dependent == {c \in DOMAIN paging : paging[c].dataset = d}
           IN  /\ published' = Without(published, {d})
               /\ paging' = Without(paging, dependent)
               /\ gone' = gone \cup {d} \cup dependent

Open ==
    /\ UNCHANGED <<importing, published, gone>>
    /\ \E c \in Unused(CursorHandles, paging), d \in DOMAIN published :
           \E row \in 0..published[d].packets :
               /\ paging' = Put(paging, c, [dataset |-> d, next |-> row, pending |-> NoBatch])

\* Rows are offered in order from where the cursor stands, one batch at a time.
Offer ==
    /\ UNCHANGED <<importing, published, gone>>
    /\ \E c \in DOMAIN paging :
           \E next \in paging[c].next..published[paging[c].dataset].packets :
               /\ paging[c].pending = NoBatch
               /\ next - paging[c].next <= MaxBatchRows
               /\ paging' = Put(paging, c, [paging[c] EXCEPT
                       !.pending = [start |-> paging[c].next, next |-> next]])

\* A batch taken moves its cursor past it; one refused is offered again.
Resolve ==
    /\ UNCHANGED <<importing, published, gone>>
    /\ \E c \in DOMAIN paging :
           /\ paging[c].pending # NoBatch
           /\ \E next \in {paging[c].pending.next, paging[c].next} :
                   paging' = Put(paging, c, [paging[c] EXCEPT !.next = next, !.pending = NoBatch])

Close ==
    /\ UNCHANGED <<importing, published>>
    /\ \E c \in DOMAIN paging :
           /\ paging' = Without(paging, {c})
           /\ gone' = gone \cup {c}

Next ==
    \/ Begin \/ Complete \/ Abandon \/ Finish \/ Register \/ Dispose
    \/ Open \/ Offer \/ Resolve \/ Close

Spec == Init /\ [][Next]_vars
=============================================================================
