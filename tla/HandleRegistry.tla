--------------------------- MODULE HandleRegistry ---------------------------
(***************************************************************************)
(* One handle registry driven by its callers: every operation that changes *)
(* a Registry<T>, with any handle a caller may present.                    *)
(***************************************************************************)
EXTENDS Registry

CONSTANTS
    Kinds,      \* the kind tags HandleKind::from_tag recognises
    Kind,       \* the kind this registry owns
    MaxSlots,   \* the slot cap of this registry
    Value       \* the resources kept in it

ASSUME KindAssumption == Kind \in Kinds
ASSUME MaxSlotsAssumption == MaxSlots \in Nat \ {0}
ASSUME ValueAssumption == Empty \notin Value

VARIABLE registry

vars == <<registry>>

\* Handles as an untrusted caller can spell them, unknown tags included.
AnyHandle == Handles(Kinds \cup {"unknown"}, 0..MaxSlots + 1)

Init == registry = NewRegistry(Kind, MaxSlots)

Insert(v) ==
    /\ HasInsertCapacity(registry)
    /\ registry' = Inserted(registry, v)

Update(h, v) ==
    /\ Lookup(registry, h, Kinds) = "OK"
    /\ registry' = Updated(registry, h, v)

Remove(h) ==
    /\ RemoveStatus(registry, h, Kinds) = "DISPOSED"
    /\ registry' = Removed(registry, h)

\* plan_remove_where and apply_remove_where for a predicate, the set of values
\* it holds of.
RemoveWhere(predicate) ==
    LET matching == {s \in Occupied(registry) : registry.slots[s].value \in predicate}
    IN  \E order \in AscendingOrders(ReusableOf(registry, matching)) :
            registry' = RemovedWhere(registry, matching, order)

Next ==
    \/ \E v \in Value : Insert(v)
    \/ \E h \in AnyHandle, v \in Value : Update(h, v)
    \/ \E h \in AnyHandle : Remove(h)
    \/ \E predicate \in SUBSET Value : RemoveWhere(predicate)

Spec == Init /\ [][Next]_vars

-----------------------------------------------------------------------------
\* Types of the registry: Registry<T> and Slot<T>.
TypeOK ==
    /\ WellTyped(registry, Value)
    /\ registry.kind = Kind
    /\ registry.maxSlots = MaxSlots

\* The registry's books balance. The free list names every empty slot that may
\* be used again, once, and nothing else: `insert' trusts it, and a slot missing
\* from it is lost for the life of the worker. active_count, kept by hand in four
\* places, is the number of live resources, so checked_sub in remove and
\* plan_remove_where never fails. An empty slot remembers the generation whose
\* resource left it last and an occupied one none: only the last holder of an
\* empty slot is answered AlreadyDisposed, and no live handle ever is.
BookkeepingExact ==
    /\ FreeExact(registry)
    /\ CountExact(registry)
    /\ MemoryExact(registry)

\* "disposal never affects another generation; repeated disposal returns a
\* documented already-disposed or stale-handle result and releases nothing"
\* (docs/architecture/adr-0007-wasm-boundary-contract.md:91): a disposed handle
\* is answered by one of those two results for ever, whatever reuses its slot.
DeadHandleAnswers ==
    \A h \in DeadHandles(registry) :
        /\ Lookup(registry, h, Kinds) = "STALE_HANDLE"
        /\ RemoveStatus(registry, h, Kinds) \in {"ALREADY_DISPOSED", "STALE_HANDLE"}

\* Slots are given up only by exhausting their generations: as long as fewer
\* than MaxSlots slots are retired, or live, an insertion finds room.
CapacityIsNotLost ==
    HasInsertCapacity(registry)
      <=> Cardinality({s \in DOMAIN registry.slots :
                          registry.slots[s].value # Empty \/ Retired(registry.slots[s])}) < MaxSlots

-----------------------------------------------------------------------------
\* The registry implements the handle space: generations and slots never let a
\* handle be issued twice, come back to life, or reach another's resource.
Content == [h \in LiveHandles(registry) |-> ValueOf(registry, h)]

Space ==
    INSTANCE HandleSpace
    WITH Handle <- Handles({Kind}, 1..MaxSlots), content <- Content,
         dead <- DeadHandles(registry)

HandlesNameOneResource == Space!Spec
=============================================================================
