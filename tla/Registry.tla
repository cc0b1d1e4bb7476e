------------------------------ MODULE Registry ------------------------------
(***************************************************************************)
(* The bounded handle registry of the Wasm adapter, Registry<T> in         *)
(* crates/wasm-adapter/src/boundary.rs, as operators on a registry record. *)
(* The three registries of BoundaryState (imports, datasets and packet     *)
(* cursors) are all values of this kind.                                   *)
(*                                                                         *)
(* A slot is named by its token, index + 1, the number the handle carries, *)
(* so `slots' is a TLA+ sequence and slot 0 is the malformed token.        *)
(* A `last_disposed_generation' of None is 0: no generation is 0.          *)
(***************************************************************************)
EXTENDS Naturals, Sequences, FiniteSets

CONSTANTS
    MaxGeneration,   \* the last generation a slot serves (0xffffff)
    Empty            \* the `None' of a slot's value

ASSUME MaxGenerationAssumption == MaxGeneration \in Nat \ {0}

Generations == 1..MaxGeneration

\* A handle as it crosses the boundary: a kind tag, a generation and a token.
Handles(kinds, tokens) ==
    [kind : kinds, generation : 0..MaxGeneration, slot : tokens]

\* A registry is its fixed kind and cap with these slots, free list and count.
With(r, slots, free, active) ==
    [kind |-> r.kind, maxSlots |-> r.maxSlots, slots |-> slots, free |-> free,
     active |-> active]

NewRegistry(kind, maxSlots) ==
    [kind |-> kind, maxSlots |-> maxSlots, slots |-> <<>>, free |-> <<>>, active |-> 0]

-----------------------------------------------------------------------------
\* The `retired' flag of a slot is its service: "open" or "retired".
Retired(slot) == slot.service = "retired"

\* Which slots and handles a registry holds.

Occupied(r) == {s \in DOMAIN r.slots : r.slots[s].value # Empty}

HandleAt(r, s) == [kind |-> r.kind, generation |-> r.slots[s].generation, slot |-> s]

LiveHandles(r) == {HandleAt(r, s) : s \in Occupied(r)}

\* The handles a registry has given out and will never honour again.
DeadHandles(r) ==
    {h \in Handles({r.kind}, DOMAIN r.slots) :
        /\ h.generation \in Generations
        /\ \/ h.generation < r.slots[h.slot].generation
           \/ h.generation = r.slots[h.slot].generation /\ Retired(r.slots[h.slot])}

-----------------------------------------------------------------------------
\* Lookup: the checks of decode, decode_for_registry, slot and get, in order.

Malformed(h, kinds) == h.kind \notin kinds \/ h.generation = 0 \/ h.slot = 0

\* Mutant: a lookup that compares no generation.
NamesAnyGeneration(r, h) ==
    /\ h.kind = r.kind
    /\ h.slot \in DOMAIN r.slots
    /\ r.slots[h.slot].value # Empty

Names(r, h) ==
    /\ h.kind = r.kind
    /\ h.slot \in DOMAIN r.slots
    /\ r.slots[h.slot].generation = h.generation
    /\ r.slots[h.slot].value # Empty

Lookup(r, h, kinds) ==
    CASE Malformed(h, kinds)         -> "INVALID_HANDLE"
      [] h.kind # r.kind             -> "WRONG_HANDLE_KIND"
      [] h.slot \notin DOMAIN r.slots -> "INVALID_HANDLE"
      [] Names(r, h)                 -> "OK"
      [] OTHER                       -> "STALE_HANDLE"

ValueOf(r, h) == r.slots[h.slot].value

\* preflight_remove: an idempotent repeat is recognised before staleness.
RemoveStatus(r, h, kinds) ==
    IF /\ ~ Malformed(h, kinds)
       /\ h.kind = r.kind
       /\ h.slot \in DOMAIN r.slots
       /\ r.slots[h.slot].lastDisposed = h.generation
    THEN "ALREADY_DISPOSED"
    ELSE IF Lookup(r, h, kinds) = "OK" THEN "DISPOSED" ELSE Lookup(r, h, kinds)

-----------------------------------------------------------------------------
\* Insertion: the most recently freed slot first, a new slot otherwise.

\* Mutant: one slot more than the cap.
HasOneSlotTooMany(r) == r.free # <<>> \/ Len(r.slots) <= r.maxSlots

HasInsertCapacity(r) == r.free # <<>> \/ Len(r.slots) < r.maxSlots

InsertSlot(r) == IF r.free # <<>> THEN r.free[Len(r.free)] ELSE Len(r.slots) + 1

InsertHandle(r) ==
    [kind       |-> r.kind,
     generation |-> IF r.free # <<>> THEN r.slots[InsertSlot(r)].generation ELSE 1,
     slot       |-> InsertSlot(r)]

FreshSlot(v) == [generation |-> 1, lastDisposed |-> 0, service |-> "open", value |-> v]

ReusedSlot(slot, v) ==
    [generation |-> slot.generation, lastDisposed |-> 0, service |-> slot.service, value |-> v]

Inserted(r, v) ==
    IF r.free # <<>>
    THEN With(r, [r.slots EXCEPT ![InsertSlot(r)] = ReusedSlot(@, v)],
              SubSeq(r.free, 1, Len(r.free) - 1), r.active + 1)
    ELSE With(r, Append(r.slots, FreshSlot(v)), r.free, r.active + 1)

\* get_mut followed by an assignment through the reference.
Updated(r, h, v) ==
    With(r, [r.slots EXCEPT ![h.slot] = [@ EXCEPT !.value = v]], r.free, r.active)

-----------------------------------------------------------------------------
\* Removal: a slot moves to its next generation and the free list, or, when it
\* has served its last generation, is retired and never listed again.

Reusable(slot) == slot.generation # MaxGeneration

\* Mutant: generations wrap instead of retiring the slot.
VacatedSlotWraps(slot) ==
    [generation |-> IF Reusable(slot) THEN slot.generation + 1 ELSE 1,
     lastDisposed |-> slot.generation, service |-> slot.service, value |-> Empty]

VacatedSlot(slot) ==
    [generation   |-> IF Reusable(slot) THEN slot.generation + 1 ELSE slot.generation,
     lastDisposed |-> slot.generation,
     service      |-> IF Reusable(slot) THEN slot.service ELSE "retired",
     value        |-> Empty]

Removed(r, h) ==
    With(r, [r.slots EXCEPT ![h.slot] = VacatedSlot(@)],
         IF Reusable(r.slots[h.slot]) THEN Append(r.free, h.slot) ELSE r.free,
         r.active - 1)

\* The one listing of a set of slots in index order.
AscendingOrders(S) ==
    {order \in [1..Cardinality(S) -> S] :
        \A i, j \in 1..Cardinality(S) : i < j => order[i] < order[j]}

\* Mutant: the bulk removal does not count the slots it retires.
RemovedWhereCountsReusable(r, matching, order) ==
    With(r, [s \in DOMAIN r.slots |->
                IF s \in matching THEN VacatedSlot(r.slots[s]) ELSE r.slots[s]],
         r.free \o order, r.active - Len(order))

\* Mutant: the bulk removal lists only the first slot it frees.
RemovedWhereLosesSlots(r, matching, order) ==
    With(r, [s \in DOMAIN r.slots |->
                IF s \in matching THEN VacatedSlot(r.slots[s]) ELSE r.slots[s]],
         IF order = <<>> THEN r.free ELSE Append(r.free, order[1]),
         r.active - Cardinality(matching))

\* apply_remove_where for the plan `matching': `order' lists the slots of the
\* plan that can be used again, as the loop over the plan pushes them.
RemovedWhere(r, matching, order) ==
    With(r, [s \in DOMAIN r.slots |->
                IF s \in matching THEN VacatedSlot(r.slots[s]) ELSE r.slots[s]],
         r.free \o order, r.active - Cardinality(matching))

ReusableOf(r, matching) == {s \in matching : Reusable(r.slots[s])}

-----------------------------------------------------------------------------
\* What a registry keeps true of itself, whatever is stored in it.

SlotType(V) ==
    [generation : Generations, lastDisposed : 0..MaxGeneration, service : {"open", "retired"},
     value : V \cup {Empty}]

WellTyped(r, V) ==
    /\ r.maxSlots \in Nat
    /\ r.slots \in Seq(SlotType(V))
    /\ r.free \in Seq(DOMAIN r.slots)
    /\ r.active \in Nat
    /\ Len(r.slots) <= r.maxSlots
    /\ r = With(r, r.slots, r.free, r.active)

\* The free list names each empty slot that may be used again, exactly once.
Available(slot) == slot.value = Empty /\ ~ Retired(slot)

FreeExact(r) ==
    /\ \A i, j \in DOMAIN r.free : r.free[i] = r.free[j] => i = j
    /\ \A s \in DOMAIN r.slots : Available(r.slots[s]) <=> \E i \in DOMAIN r.free : r.free[i] = s

CountExact(r) == r.active = Cardinality(Occupied(r))

\* An occupied slot remembers no disposal, an empty one that of its latest
\* holder, and a slot is retired exactly when that holder's generation was last.
SlotExact(slot) ==
    /\ Retired(slot) <=> slot.value = Empty /\ slot.lastDisposed = MaxGeneration
    /\ slot.value # Empty => slot.lastDisposed = 0
    /\ Retired(slot) => slot.generation = MaxGeneration
    /\ Available(slot) => slot.lastDisposed = slot.generation - 1 /\ slot.lastDisposed > 0

MemoryExact(r) == \A s \in DOMAIN r.slots : SlotExact(r.slots[s])

WellFormed(r, V) ==
    /\ WellTyped(r, V)
    /\ FreeExact(r)
    /\ CountExact(r)
    /\ MemoryExact(r)
=============================================================================
