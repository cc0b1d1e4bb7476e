------------------------ MODULE HandleRegistryProofs ------------------------
(***************************************************************************)
(* For every slot cap, every last generation and every set of resources:   *)
(* the registry stays well formed, answers a dead handle as it promises,   *)
(* loses no capacity, and implements the handle space.                     *)
(***************************************************************************)
EXTENDS HandleRegistry, RegistryLemmas

-----------------------------------------------------------------------------
\* The inductive invariant: the four facts of WellFormed need one another (an
\* insertion is sound only if what the free list names is really available, a
\* removal only if a live slot is never listed) and the registry its kind.
Inv ==
    /\ WellFormed(registry, Value)
    /\ registry.kind = Kind
    /\ registry.maxSlots = MaxSlots

\* The invariant holds of a new registry.
LEMMA InitInv == Init => Inv
<1> SUFFICES ASSUME Init PROVE Inv
  OBVIOUS
<1>1. WellFormed(registry, Value)
  BY NewWellFormed, MaxSlotsAssumption DEF Init
<1> QED BY <1>1 DEF Init, Inv, NewRegistry

\* Every operation preserves the invariant, one case for each.
LEMMA NextInv == Inv /\ [Next]_vars => Inv'
<1> SUFFICES ASSUME Inv, [Next]_vars PROVE Inv'
  OBVIOUS
<1> USE DEF Inv
<1>1. ASSUME NEW v \in Value, Insert(v) PROVE Inv'
  <2>1. WellFormed(registry', Value)
    BY <1>1, ValueAssumption, InsertedWellFormed DEF Insert
  <2>2. registry'.kind = Kind /\ registry'.maxSlots = MaxSlots
    BY <1>1 DEF Insert, Inserted, With
  <2> QED BY <2>1, <2>2 DEF WellFormed
<1>2. ASSUME NEW h \in AnyHandle, NEW v \in Value, Update(h, v) PROVE Inv'
  <2>1. WellFormed(registry', Value)
    BY <1>2, ValueAssumption, LookupOK, UpdatedWellFormed DEF Update
  <2>2. registry'.kind = Kind /\ registry'.maxSlots = MaxSlots
    BY <1>2 DEF Update, Updated, With
  <2> QED BY <2>1, <2>2
<1>3. ASSUME NEW h \in AnyHandle, Remove(h) PROVE Inv'
  <2>1. WellFormed(registry', Value)
    BY <1>3, LookupOK, RemovedWellFormed DEF Remove
  <2>2. registry'.kind = Kind /\ registry'.maxSlots = MaxSlots
    BY <1>3 DEF Remove, Removed, With
  <2> QED BY <2>1, <2>2
<1>4. ASSUME NEW predicate \in SUBSET Value, RemoveWhere(predicate) PROVE Inv'
  <2> DEFINE matching == {s \in Occupied(registry) : registry.slots[s].value \in predicate}
  <2>1. PICK order \in AscendingOrders(ReusableOf(registry, matching)) :
            registry' = RemovedWhere(registry, matching, order)
    BY <1>4 DEF RemoveWhere
  <2>2. WellFormed(registry', Value)
    BY <2>1, RemovedWhereWellFormed
  <2>3. registry'.kind = Kind /\ registry'.maxSlots = MaxSlots
    BY <2>1 DEF RemovedWhere, With
  <2> QED BY <2>2, <2>3
<1>5. CASE UNCHANGED vars
  BY <1>5 DEF vars
<1> QED BY <1>1, <1>2, <1>3, <1>4, <1>5 DEF Next

\* The registry is well formed in every reachable state.
THEOREM RegistryInvariant == Spec => []Inv
  BY InitInv, NextInv, PTL DEF Spec

\* Type correctness of the registry.
THEOREM TypeCorrect == Spec => []TypeOK
<1>1. Inv => TypeOK
  BY DEF Inv, TypeOK, WellFormed
<1> QED BY <1>1, RegistryInvariant, PTL

\* The free list, the live count and the disposal memory agree with the slots.
THEOREM BooksBalance == Spec => []BookkeepingExact
<1>1. Inv => BookkeepingExact
  BY DEF Inv, WellFormed, BookkeepingExact
<1> QED BY <1>1, RegistryInvariant, PTL

\* A disposed handle is answered already-disposed or stale, and nothing else.
THEOREM DeadHandlesStayDead == Spec => []DeadHandleAnswers
<1>1. Inv => DeadHandleAnswers
  <2> SUFFICES ASSUME Inv, NEW h \in DeadHandles(registry)
               PROVE  /\ Lookup(registry, h, Kinds) = "STALE_HANDLE"
                      /\ RemoveStatus(registry, h, Kinds) \in {"ALREADY_DISPOSED", "STALE_HANDLE"}
    BY DEF DeadHandleAnswers
  <2>1. /\ h.kind = Kind /\ h.slot \in DOMAIN registry.slots /\ h.generation \in Generations
        /\ \/ h.generation < registry.slots[h.slot].generation
           \/ Retired(registry.slots[h.slot])
    BY DEF DeadHandles, Handles, Inv
  <2>2. /\ DOMAIN registry.slots = 1..Len(registry.slots) /\ Len(registry.slots) \in Nat
        /\ registry.slots[h.slot] \in SlotType(Value) /\ SlotExact(registry.slots[h.slot])
    BY <2>1 DEF Inv, WellFormed, WellTyped, MemoryExact
  <2>3. h.generation # 0 /\ h.slot # 0 /\ h.kind \in Kinds /\ registry.kind = Kind
    BY <2>1, <2>2, KindAssumption, MaxGenerationAssumption DEF Generations, Inv
  <2>4. ~ Names(registry, h)
    <3>1. CASE h.generation < registry.slots[h.slot].generation
      <4>1. registry.slots[h.slot].generation \in Nat /\ h.generation \in Nat
        BY <2>1, <2>2, MaxGenerationAssumption DEF SlotType, Generations
      <4> QED BY <3>1, <4>1 DEF Names
    <3>2. CASE Retired(registry.slots[h.slot])
      BY <3>2, <2>2 DEF SlotExact, Names
    <3> QED BY <2>1, <3>1, <3>2
  <2>5. Lookup(registry, h, Kinds) = "STALE_HANDLE"
    BY <2>1, <2>3, <2>4 DEF Lookup, Malformed
  <2> QED BY <2>5 DEF RemoveStatus
<1> QED BY <1>1, RegistryInvariant, PTL

-----------------------------------------------------------------------------
\* Capacity: an insertion is refused only when MaxSlots slots are live or retired.
THEOREM CapacityKept == Spec => []CapacityIsNotLost
<1> DEFINE taken == {s \in DOMAIN registry.slots :
                        registry.slots[s].value # Empty \/ Retired(registry.slots[s])}
<1>1. Inv => CapacityIsNotLost
  <2> SUFFICES ASSUME Inv PROVE HasInsertCapacity(registry) <=> Cardinality(taken) < MaxSlots
    BY DEF CapacityIsNotLost
  <2>1. /\ DOMAIN registry.slots = 1..Len(registry.slots) /\ Len(registry.slots) \in Nat
        /\ Len(registry.slots) <= MaxSlots /\ registry.free \in Seq(DOMAIN registry.slots)
        /\ registry.maxSlots = MaxSlots
    BY DEF Inv, WellFormed, WellTyped
  <2>2. /\ IsFiniteSet(1..Len(registry.slots))
        /\ Cardinality(1..Len(registry.slots)) = Len(registry.slots)
    BY <2>1, FS_Interval
  <2>3. /\ taken \in SUBSET (1..Len(registry.slots))
        /\ Cardinality(taken) <= Len(registry.slots) /\ Cardinality(taken) \in Nat
        /\ Cardinality(taken) = Len(registry.slots) => taken = 1..Len(registry.slots)
    <3>1. taken \in SUBSET (1..Len(registry.slots))
      BY <2>1
    <3> HIDE DEF taken
    <3> QED BY <3>1, <2>2, FS_Subset, FS_CardinalityType
  <2>4. \A s \in DOMAIN registry.slots : s \notin taken <=> Available(registry.slots[s])
    BY DEF Available
  <2>5. FreeExact(registry)
    BY DEF Inv, WellFormed
  <2>6. registry.free = <<>> <=> taken = 1..Len(registry.slots)
    <3>1. ASSUME registry.free = <<>> PROVE taken = 1..Len(registry.slots)
      <4>1. \A s \in DOMAIN registry.slots : ~ Available(registry.slots[s])
        BY <3>1, <2>5 DEF FreeExact
      <4> QED BY <4>1, <2>1, <2>4
    <3>2. ASSUME registry.free # <<>> PROVE taken # 1..Len(registry.slots)
      <4>1. 1 \in DOMAIN registry.free /\ registry.free[1] \in DOMAIN registry.slots
        BY <3>2, <2>1
      <4>2. Available(registry.slots[registry.free[1]])
        BY <4>1, <2>5 DEF FreeExact
      <4> QED BY <4>1, <4>2, <2>1, <2>4
    <3> QED BY <3>1, <3>2
  <2> HIDE DEF taken
  <2>7. taken = 1..Len(registry.slots) => Cardinality(taken) = Len(registry.slots)
    BY <2>2
  <2> QED BY <2>1, <2>3, <2>6, <2>7, MaxSlotsAssumption DEF HasInsertCapacity
<1> QED BY <1>1, RegistryInvariant, PTL

-----------------------------------------------------------------------------
\* Refinement: the registry implements the handle space.

\* A new registry has issued no handle.
LEMMA InitRefines == Init => Space!Init
<1> SUFFICES ASSUME Init PROVE Space!Init
  OBVIOUS
<1>1. LiveHandles(registry) = {} /\ DeadHandles(registry) = {}
  BY NewHandles DEF Init
<1> QED BY <1>1 DEF Space!Init, Content

\* A handle that names a resource is one the registry could have issued.
LEMMA NamedIssuable ==
    ASSUME Inv, NEW h \in AnyHandle, Names(registry, h)
    PROVE  h \in Issuable(registry)
<1>1. /\ DOMAIN registry.slots = 1..Len(registry.slots) /\ Len(registry.slots) \in Nat
      /\ Len(registry.slots) <= registry.maxSlots /\ registry.maxSlots \in Nat
  BY DEF Inv, WellFormed, WellTyped
<1>2. h.slot \in 1..registry.maxSlots /\ h.kind = registry.kind
  BY <1>1 DEF Names
<1> QED BY <1>2 DEF AnyHandle, Issuable, Handles

\* A new handle is one never issued, and nothing else changes.
LEMMA InsertRefines ==
    ASSUME Inv, NEW v \in Value, Insert(v)
    PROVE  Space!Issue
<1> DEFINE h == InsertHandle(registry)
<1>1. /\ WellFormed(registry, Value) /\ registry.kind = Kind /\ registry.maxSlots = MaxSlots
      /\ HasInsertCapacity(registry) /\ registry' = Inserted(registry, v)
  BY DEF Inv, Insert
<1>2. /\ h \in Issuable(registry)
      /\ h \notin LiveHandles(registry) /\ h \notin DeadHandles(registry)
      /\ LiveHandles(registry') = LiveHandles(registry) \cup {h}
      /\ DeadHandles(registry') = DeadHandles(registry)
      /\ ValueOf(registry', h) = v
      /\ \A g \in LiveHandles(registry) : ValueOf(registry', g) = ValueOf(registry, g)
  BY <1>1, ValueAssumption, InsertedHandles
<1> HIDE DEF h
<1>3. h \in Handles({Kind}, 1..MaxSlots)
  BY <1>1, <1>2 DEF Issuable
<1>4. Content' = [g \in DOMAIN Content \cup {h} |-> IF g = h THEN v ELSE Content[g]]
  BY <1>2 DEF Content
<1> QED BY <1>2, <1>3, <1>4 DEF Space!Issue, Content

\* An update writes through one live handle.
LEMMA UpdateRefines ==
    ASSUME Inv, NEW h \in AnyHandle, NEW v \in Value, Update(h, v)
    PROVE  Space!Write
<1>1. /\ WellFormed(registry, Value) /\ registry.kind = Kind /\ registry.maxSlots = MaxSlots
      /\ Names(registry, h) /\ registry' = Updated(registry, h, v)
  BY LookupOK DEF Inv, Update
<1>2. h \in Issuable(registry)
  BY <1>1, NamedIssuable
<1>3. /\ h \in LiveHandles(registry)
      /\ LiveHandles(registry') = LiveHandles(registry)
      /\ DeadHandles(registry') = DeadHandles(registry)
      /\ \A g \in LiveHandles(registry) :
            ValueOf(registry', g) = IF g = h THEN v ELSE ValueOf(registry, g)
  BY <1>1, <1>2, ValueAssumption, UpdatedHandles
<1>4. Content' = [g \in DOMAIN Content |-> IF g = h THEN v ELSE Content[g]]
  BY <1>3 DEF Content
<1> QED BY <1>3, <1>4 DEF Space!Write, Content

\* Handles given up together are one disposal.
LEMMA DisposeRefines ==
    ASSUME NEW lost \in SUBSET LiveHandles(registry),
           LiveHandles(registry') = LiveHandles(registry) \ lost,
           DeadHandles(registry') = DeadHandles(registry) \cup lost,
           \A g \in LiveHandles(registry) \ lost : ValueOf(registry', g) = ValueOf(registry, g)
    PROVE  Space!Dispose
<1>1. Content' = [h \in DOMAIN Content \ lost |-> Content[h]]
  BY DEF Content
<1>2. lost \in SUBSET DOMAIN Content
  BY DEF Content
<1> QED BY <1>1, <1>2 DEF Space!Dispose

\* Every operation of the registry is a step of the handle space, or none.
LEMMA NextRefines == Inv /\ [Next]_vars => [Space!Next]_(Space!vars)
<1> SUFFICES ASSUME Inv, [Next]_vars PROVE [Space!Next]_(Space!vars)
  OBVIOUS
<1>1. ASSUME NEW v \in Value, Insert(v) PROVE Space!Next
  BY <1>1, InsertRefines DEF Space!Next
<1>2. ASSUME NEW h \in AnyHandle, NEW v \in Value, Update(h, v) PROVE Space!Next
  BY <1>2, UpdateRefines DEF Space!Next
<1>3. ASSUME NEW h \in AnyHandle, Remove(h) PROVE Space!Next
  <2>1. /\ WellFormed(registry, Value) /\ registry.kind = Kind /\ registry.maxSlots = MaxSlots
        /\ Names(registry, h) /\ registry' = Removed(registry, h)
    BY <1>3, LookupOK DEF Inv, Remove
  <2>2. h \in Issuable(registry)
    BY <1>3, <2>1, NamedIssuable
  <2>3. /\ h \in LiveHandles(registry)
        /\ LiveHandles(registry') = LiveHandles(registry) \ {h}
        /\ DeadHandles(registry') = DeadHandles(registry) \cup {h}
        /\ \A g \in LiveHandles(registry) \ {h} : ValueOf(registry', g) = ValueOf(registry, g)
    BY <2>1, <2>2, RemovedHandles
  <2>4. {h} \in SUBSET LiveHandles(registry)
    BY <2>3
  <2>5. Space!Dispose
    BY <2>3, <2>4, DisposeRefines
  <2> QED BY <2>5 DEF Space!Next
<1>4. ASSUME NEW predicate \in SUBSET Value, RemoveWhere(predicate) PROVE Space!Next
  <2> DEFINE matching == {s \in Occupied(registry) : registry.slots[s].value \in predicate}
             lost == {h \in LiveHandles(registry) : h.slot \in matching}
  <2>1. PICK order \in AscendingOrders(ReusableOf(registry, matching)) :
            registry' = RemovedWhere(registry, matching, order)
    BY <1>4 DEF RemoveWhere
  <2>2. matching \in SUBSET Occupied(registry) /\ WellFormed(registry, Value)
    BY DEF Inv
  <2> HIDE DEF matching
  <2>3. /\ LiveHandles(registry') = LiveHandles(registry) \ lost
        /\ DeadHandles(registry') = DeadHandles(registry) \cup lost
        /\ \A g \in LiveHandles(registry) \ lost : ValueOf(registry', g) = ValueOf(registry, g)
    BY <2>1, <2>2, RemovedWhereHandles
  <2>4. lost \in SUBSET LiveHandles(registry)
    OBVIOUS
  <2> HIDE DEF lost
  <2>5. Space!Dispose
    BY <2>3, <2>4, DisposeRefines
  <2> QED BY <2>5 DEF Space!Next
<1>5. CASE UNCHANGED vars
  BY <1>5 DEF vars, Space!vars, Content
<1> QED BY <1>1, <1>2, <1>3, <1>4, <1>5 DEF Next

\* The registry implements the handle space: no handle is ever issued twice,
\* revived, or made to reach a resource it was not issued for.
THEOREM Refinement == Spec => HandlesNameOneResource
<1>1. Inv /\ [Next]_vars => [Space!Next]_(Space!vars)
  BY NextRefines
<1> QED BY <1>1, InitRefines, RegistryInvariant, PTL DEF Spec, HandlesNameOneResource, Space!Spec
=============================================================================
