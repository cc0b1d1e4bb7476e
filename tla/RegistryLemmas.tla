--------------------------- MODULE RegistryLemmas ---------------------------
(***************************************************************************)
(* What each registry operator does to the well-formedness of a registry,  *)
(* for every slot cap, every last generation and every set of resources.   *)
(***************************************************************************)
EXTENDS Registry, FiniteSetTheorems, SequenceTheorems, TLAPS

\* A registry with no slots is well formed.
LEMMA NewWellFormed ==
    ASSUME NEW V, NEW kind, NEW maxSlots \in Nat
    PROVE  WellFormed(NewRegistry(kind, maxSlots), V)
<1> DEFINE r == NewRegistry(kind, maxSlots)
<1>1. WellTyped(r, V)
  BY DEF WellTyped, NewRegistry, With
<1>2. FreeExact(r) /\ MemoryExact(r)
  BY DEF FreeExact, MemoryExact, NewRegistry
<1>3. CountExact(r)
  <2>1. Occupied(r) = {}
    BY DEF Occupied, NewRegistry
  <2> QED BY <2>1, FS_EmptySet DEF CountExact, NewRegistry
<1> QED BY <1>1, <1>2, <1>3 DEF WellFormed

\* The occupied slots of a well-formed registry are finitely many.
LEMMA OccupiedFinite ==
    ASSUME NEW V, NEW r, WellTyped(r, V)
    PROVE  IsFiniteSet(Occupied(r)) /\ Cardinality(Occupied(r)) \in Nat
<1>1. Occupied(r) \in SUBSET (1..Len(r.slots)) /\ Len(r.slots) \in Nat
  BY DEF WellTyped, Occupied
<1>2. IsFiniteSet(1..Len(r.slots))
  BY <1>1, FS_Interval
<1>3. IsFiniteSet(Occupied(r))
  BY <1>1, <1>2, FS_Subset
<1> QED BY <1>3, FS_CardinalityType

-----------------------------------------------------------------------------
\* Slots, one at a time.

\* A slot just added keeps its memory exact, and holds what it was given.
LEMMA FreshSlotExact ==
    ASSUME NEW V, Empty \notin V, NEW v \in V
    PROVE  FreshSlot(v) \in SlotType(V) /\ SlotExact(FreshSlot(v)) /\ FreshSlot(v).value = v
  BY MaxGenerationAssumption
     DEF FreshSlot, SlotType, SlotExact, Generations, Retired, Available

\* A freed slot given a resource is exact again: it forgets the last disposal.
LEMMA ReusedSlotExact ==
    ASSUME NEW V, Empty \notin V, NEW v \in V, NEW slot \in SlotType(V), Available(slot)
    PROVE  /\ ReusedSlot(slot, v) \in SlotType(V)
           /\ SlotExact(ReusedSlot(slot, v))
           /\ ReusedSlot(slot, v).value = v
           /\ ReusedSlot(slot, v).generation = slot.generation
           /\ ~ Available(ReusedSlot(slot, v))
  BY MaxGenerationAssumption
     DEF ReusedSlot, SlotType, SlotExact, Generations, Retired, Available

\* A slot that loses its resource is available again, or retired, never both.
LEMMA VacatedSlotExact ==
    ASSUME NEW V, NEW slot \in SlotType(V), ~ Retired(slot)
    PROVE  /\ VacatedSlot(slot) \in SlotType(V)
           /\ SlotExact(VacatedSlot(slot))
           /\ VacatedSlot(slot).value = Empty
           /\ Available(VacatedSlot(slot)) <=> Reusable(slot)
           /\ Retired(VacatedSlot(slot)) <=> ~ Reusable(slot)
           /\ Reusable(slot) => VacatedSlot(slot).generation = slot.generation + 1
           /\ ~ Reusable(slot) => VacatedSlot(slot).generation = slot.generation
  BY MaxGenerationAssumption
     DEF VacatedSlot, SlotType, SlotExact, Generations, Retired, Available, Reusable

-----------------------------------------------------------------------------
\* Insertion into a freed slot.

\* The fields of a registry after an insertion into a freed slot.
LEMMA ReuseFields ==
    ASSUME NEW V, NEW r, WellTyped(r, V), r.free # <<>>, NEW v
    PROVE  LET s == InsertSlot(r) IN
           /\ s \in 1..Len(r.slots)
           /\ s = r.free[Len(r.free)] /\ Len(r.free) \in Nat \ {0}
           /\ Inserted(r, v).kind = r.kind
           /\ Inserted(r, v).maxSlots = r.maxSlots
           /\ Inserted(r, v).slots = [r.slots EXCEPT ![s] = ReusedSlot(@, v)]
           /\ Inserted(r, v).free = SubSeq(r.free, 1, Len(r.free) - 1)
           /\ Inserted(r, v).active = r.active + 1
           /\ Inserted(r, v) = With(Inserted(r, v), Inserted(r, v).slots,
                                    Inserted(r, v).free, Inserted(r, v).active)
  BY DEF WellTyped, Inserted, InsertSlot, With

\* insert through the free list keeps the registry well formed.
LEMMA ReuseWellFormed ==
    ASSUME NEW V, Empty \notin V, NEW r, WellFormed(r, V), r.free # <<>>, NEW v \in V
    PROVE  WellFormed(Inserted(r, v), V)
<1> DEFINE R == Inserted(r, v)
           s == InsertSlot(r)
           m == Len(r.free)
<1>1. WellTyped(r, V) /\ FreeExact(r) /\ CountExact(r) /\ MemoryExact(r)
  BY DEF WellFormed
<1>2. /\ s \in 1..Len(r.slots) /\ s = r.free[m] /\ m \in Nat \ {0}
      /\ R.slots = [r.slots EXCEPT ![s] = ReusedSlot(@, v)]
      /\ R.free = SubSeq(r.free, 1, m - 1)
      /\ R.active = r.active + 1 /\ R.maxSlots = r.maxSlots /\ R.kind = r.kind
      /\ R = With(R, R.slots, R.free, R.active)
  BY <1>1, ReuseFields
<1>3. /\ r.slots \in Seq(SlotType(V)) /\ r.free \in Seq(1..Len(r.slots))
      /\ DOMAIN r.slots = 1..Len(r.slots) /\ Len(r.slots) \in Nat
      /\ DOMAIN r.free = 1..m
  BY <1>1 DEF WellTyped
<1>4. /\ \A i, j \in 1..m : r.free[i] = r.free[j] => i = j
      /\ \A t \in DOMAIN r.slots : Available(r.slots[t]) <=> \E i \in 1..m : r.free[i] = t
  BY <1>1, <1>3 DEF FreeExact
<1>5. Available(r.slots[s]) /\ r.slots[s] \in SlotType(V)
  <2>1. m \in 1..m /\ r.free[m] = s /\ s \in DOMAIN r.slots
    BY <1>2, <1>3
  <2> QED BY <2>1, <1>3, <1>4
<1>6. /\ R.slots \in Seq(SlotType(V)) /\ Len(R.slots) = Len(r.slots)
      /\ DOMAIN R.slots = DOMAIN r.slots
      /\ R.slots[s] = ReusedSlot(r.slots[s], v)
      /\ \A t \in DOMAIN r.slots : t # s => R.slots[t] = r.slots[t]
  BY <1>2, <1>3, <1>5, ReusedSlotExact
<1>7. /\ R.free \in Seq(1..Len(r.slots)) /\ DOMAIN R.free = 1..(m - 1)
      /\ \A i \in 1..(m - 1) : R.free[i] = r.free[i]
  BY <1>2, <1>3, SMTT(30)
<1> HIDE DEF R, s, m
<1>8. WellTyped(R, V)
  BY <1>1, <1>2, <1>3, <1>6, <1>7 DEF WellTyped
<1>9. FreeExact(R)
  <2>1. \A i, j \in DOMAIN R.free : R.free[i] = R.free[j] => i = j
    BY <1>2, <1>4, <1>7
  <2>2. ASSUME NEW t \in DOMAIN R.slots, t # s
        PROVE  Available(R.slots[t]) <=> \E i \in DOMAIN R.free : R.free[i] = t
    <3>1. Available(R.slots[t]) <=> \E i \in 1..m : r.free[i] = t
      BY <2>2, <1>4, <1>6
    <3>2. ASSUME NEW i \in 1..m, r.free[i] = t
          PROVE  i \in 1..(m - 1) /\ R.free[i] = t
      <4>1. i # m
        BY <1>2, <2>2, <3>2
      <4> QED BY <4>1, <3>2, <1>2, <1>7
    <3>3. ASSUME NEW i \in 1..(m - 1), R.free[i] = t
          PROVE  i \in 1..m /\ r.free[i] = t
      BY <3>3, <1>2, <1>7
    <3> QED BY <3>1, <3>2, <3>3, <1>7
  <2>3. ASSUME NEW i \in 1..(m - 1), R.free[i] = s
        PROVE  FALSE
    BY <2>3, <1>2, <1>4, <1>7
  <2>4. ~ Available(R.slots[s])
    BY <1>5, <1>6, ReusedSlotExact
  <2> QED BY <2>1, <2>2, <2>3, <2>4, <1>7 DEF FreeExact
<1>10. CountExact(R)
  <2>1. Occupied(R) = Occupied(r) \cup {s} /\ s \notin Occupied(r)
    <3>1. R.slots[s].value # Empty /\ r.slots[s].value = Empty
      BY <1>5, <1>6, ReusedSlotExact DEF Available
    <3> QED BY <3>1, <1>2, <1>3, <1>6 DEF Occupied
  <2>2. Cardinality(Occupied(R)) = Cardinality(Occupied(r)) + 1
    BY <1>1, <2>1, OccupiedFinite, FS_AddElement
  <2> QED BY <1>1, <1>2, <2>2 DEF CountExact
<1>11. MemoryExact(R)
  BY <1>1, <1>5, <1>6, ReusedSlotExact DEF MemoryExact
<1> QED BY <1>8, <1>9, <1>10, <1>11 DEF WellFormed, R

-----------------------------------------------------------------------------
\* Insertion into a new slot.

\* insert through a new slot keeps the registry well formed.
LEMMA GrowWellFormed ==
    ASSUME NEW V, Empty \notin V, NEW r, WellFormed(r, V), NEW v \in V,
           r.free = <<>>, Len(r.slots) < r.maxSlots
    PROVE  WellFormed(Inserted(r, v), V)
<1> DEFINE R == Inserted(r, v)
           n == Len(r.slots)
<1>1. WellTyped(r, V) /\ FreeExact(r) /\ CountExact(r) /\ MemoryExact(r)
  BY DEF WellFormed
<1>2. /\ R.slots = Append(r.slots, FreshSlot(v)) /\ R.free = <<>>
      /\ R.active = r.active + 1 /\ R.maxSlots = r.maxSlots /\ R.kind = r.kind
      /\ R = With(R, R.slots, R.free, R.active)
  BY <1>1 DEF Inserted, With, WellTyped
<1>3. r.slots \in Seq(SlotType(V)) /\ DOMAIN r.slots = 1..n /\ n \in Nat
  BY <1>1 DEF WellTyped
<1>4. /\ R.slots \in Seq(SlotType(V)) /\ Len(R.slots) = n + 1
      /\ DOMAIN R.slots = 1..(n + 1)
      /\ R.slots[n + 1] = FreshSlot(v)
      /\ \A t \in 1..n : R.slots[t] = r.slots[t]
  BY <1>2, <1>3, FreshSlotExact
<1> HIDE DEF R, n
<1>5. WellTyped(R, V)
  <2>1. Len(R.slots) <= R.maxSlots
    BY <1>1, <1>2, <1>3, <1>4 DEF WellTyped, n
  <2> QED BY <1>1, <1>2, <1>4, <2>1 DEF WellTyped
<1>6. FreeExact(R)
  <2>1. \A t \in 1..n : ~ Available(R.slots[t])
    BY <1>1, <1>3, <1>4 DEF FreeExact
  <2>2. ~ Available(R.slots[n + 1])
    BY <1>4, FreshSlotExact DEF Available
  <2> QED BY <1>2, <1>3, <1>4, <2>1, <2>2 DEF FreeExact
<1>7. CountExact(R)
  <2>1. Occupied(R) = Occupied(r) \cup {n + 1} /\ n + 1 \notin Occupied(r)
    <3>1. R.slots[n + 1].value # Empty
      BY <1>4, FreshSlotExact
    <3> QED BY <3>1, <1>3, <1>4 DEF Occupied
  <2>2. Cardinality(Occupied(R)) = Cardinality(Occupied(r)) + 1
    BY <1>1, <2>1, OccupiedFinite, FS_AddElement
  <2> QED BY <1>1, <1>2, <2>2 DEF CountExact
<1>8. MemoryExact(R)
  BY <1>1, <1>3, <1>4, FreshSlotExact DEF MemoryExact
<1> QED BY <1>5, <1>6, <1>7, <1>8 DEF WellFormed, R

\* An insertion that finds capacity keeps a registry well formed.
LEMMA InsertedWellFormed ==
    ASSUME NEW V, Empty \notin V, NEW r, WellFormed(r, V), NEW v \in V, HasInsertCapacity(r)
    PROVE  WellFormed(Inserted(r, v), V)
  BY ReuseWellFormed, GrowWellFormed DEF HasInsertCapacity

-----------------------------------------------------------------------------
\* Update in place.

\* A write through get_mut keeps the registry well formed.
LEMMA UpdatedWellFormed ==
    ASSUME NEW V, Empty \notin V, NEW r, WellFormed(r, V), NEW v \in V, NEW h, Names(r, h)
    PROVE  WellFormed(Updated(r, h, v), V)
<1> DEFINE R == Updated(r, h, v)
           s == h.slot
<1>1. WellTyped(r, V) /\ FreeExact(r) /\ CountExact(r) /\ MemoryExact(r)
  BY DEF WellFormed
<1>2. /\ s \in DOMAIN r.slots /\ r.slots[s].value # Empty
      /\ R.slots = [r.slots EXCEPT ![s] = [@ EXCEPT !.value = v]] /\ R.free = r.free
      /\ R.active = r.active /\ R.maxSlots = r.maxSlots /\ R.kind = r.kind
      /\ R = With(R, R.slots, R.free, R.active)
  BY <1>1 DEF Updated, With, WellTyped, Names
<1>3. /\ r.slots \in Seq(SlotType(V)) /\ DOMAIN r.slots = 1..Len(r.slots)
      /\ Len(r.slots) \in Nat /\ r.slots[s] \in SlotType(V)
  BY <1>1, <1>2 DEF WellTyped
<1>4. LET slot == [r.slots[s] EXCEPT !.value = v]
      IN  /\ slot \in SlotType(V) /\ slot.value = v
          /\ SlotExact(r.slots[s]) => SlotExact(slot)
          /\ ~ Available(slot) /\ ~ Available(r.slots[s])
  BY <1>2, <1>3 DEF SlotType, SlotExact, Retired, Available
<1>5. /\ R.slots \in Seq(SlotType(V)) /\ Len(R.slots) = Len(r.slots)
      /\ DOMAIN R.slots = DOMAIN r.slots
      /\ R.slots[s] = [r.slots[s] EXCEPT !.value = v]
      /\ \A t \in DOMAIN r.slots : t # s => R.slots[t] = r.slots[t]
  BY <1>2, <1>3, <1>4
<1> HIDE DEF R, s
<1>6. WellTyped(R, V)
  BY <1>1, <1>2, <1>5 DEF WellTyped
<1>7. FreeExact(R)
  <2>1. \A t \in DOMAIN r.slots : Available(R.slots[t]) <=> Available(r.slots[t])
    BY <1>4, <1>5
  <2> QED BY <2>1, <1>1, <1>2, <1>5 DEF FreeExact
<1>8. CountExact(R)
  <2>1. \A t \in DOMAIN r.slots : R.slots[t].value = Empty <=> r.slots[t].value = Empty
    BY <1>2, <1>4, <1>5
  <2>2. Occupied(R) = Occupied(r)
    BY <2>1, <1>5 DEF Occupied
  <2> QED BY <2>2, <1>1, <1>2 DEF CountExact
<1>9. MemoryExact(R)
  BY <1>1, <1>2, <1>4, <1>5 DEF MemoryExact
<1> QED BY <1>6, <1>7, <1>8, <1>9 DEF WellFormed, R

-----------------------------------------------------------------------------
\* Removal of one handle.

\* remove keeps the registry well formed, when it reuses and when it retires.
LEMMA RemovedWellFormed ==
    ASSUME NEW V, NEW r, WellFormed(r, V), NEW h, Names(r, h)
    PROVE  WellFormed(Removed(r, h), V)
<1> DEFINE R == Removed(r, h)
           s == h.slot
           m == Len(r.free)
<1>1. WellTyped(r, V) /\ FreeExact(r) /\ CountExact(r) /\ MemoryExact(r)
  BY DEF WellFormed
<1>2. /\ s \in DOMAIN r.slots /\ r.slots[s].value # Empty
      /\ R.slots = [r.slots EXCEPT ![s] = VacatedSlot(@)]
      /\ R.free = IF Reusable(r.slots[s]) THEN Append(r.free, s) ELSE r.free
      /\ R.active = r.active - 1 /\ R.maxSlots = r.maxSlots /\ R.kind = r.kind
      /\ R = With(R, R.slots, R.free, R.active)
  BY <1>1 DEF Removed, With, WellTyped, Names
<1>3. /\ r.slots \in Seq(SlotType(V)) /\ DOMAIN r.slots = 1..Len(r.slots)
      /\ Len(r.slots) \in Nat /\ r.slots[s] \in SlotType(V)
      /\ r.free \in Seq(1..Len(r.slots)) /\ DOMAIN r.free = 1..m /\ m \in Nat
  BY <1>1, <1>2 DEF WellTyped
<1>4. ~ Retired(r.slots[s]) /\ ~ Available(r.slots[s])
  BY <1>1, <1>2 DEF MemoryExact, SlotExact, Available
<1>5. /\ R.slots \in Seq(SlotType(V)) /\ Len(R.slots) = Len(r.slots)
      /\ DOMAIN R.slots = DOMAIN r.slots
      /\ R.slots[s] = VacatedSlot(r.slots[s])
      /\ \A t \in DOMAIN r.slots : t # s => R.slots[t] = r.slots[t]
  BY <1>2, <1>3, <1>4, VacatedSlotExact
<1>6. /\ \A i, j \in 1..m : r.free[i] = r.free[j] => i = j
      /\ \A t \in DOMAIN r.slots : Available(r.slots[t]) <=> \E i \in 1..m : r.free[i] = t
  BY <1>1, <1>3 DEF FreeExact
<1>7. Available(R.slots[s]) <=> Reusable(r.slots[s])
  BY <1>3, <1>4, <1>5, VacatedSlotExact
<1> HIDE DEF R, s, m
<1>8. CountExact(R) /\ R.active \in Nat
  <2>1. Occupied(R) = Occupied(r) \ {s} /\ s \in Occupied(r)
    <3>1. R.slots[s].value = Empty
      BY <1>3, <1>4, <1>5, VacatedSlotExact
    <3> QED BY <3>1, <1>2, <1>5 DEF Occupied
  <2>2. /\ Cardinality(Occupied(R)) = Cardinality(Occupied(r)) - 1
        /\ IsFiniteSet(Occupied(R))
    BY <1>1, <2>1, OccupiedFinite, FS_RemoveElement
  <2>3. Cardinality(Occupied(R)) \in Nat
    BY <2>2, FS_CardinalityType
  <2> QED BY <1>1, <1>2, <2>2, <2>3 DEF CountExact
<1>9. MemoryExact(R)
  BY <1>1, <1>3, <1>4, <1>5, VacatedSlotExact DEF MemoryExact
<1>10. WellTyped(R, V) /\ FreeExact(R)
  <2>1. CASE Reusable(r.slots[s])
    <3>1. /\ R.free \in Seq(1..Len(r.slots)) /\ DOMAIN R.free = 1..(m + 1)
          /\ R.free[m + 1] = s /\ \A i \in 1..m : R.free[i] = r.free[i]
      BY <2>1, <1>2, <1>3 DEF m
    <3>2. WellTyped(R, V)
      BY <1>1, <1>2, <1>3, <1>5, <1>8, <3>1 DEF WellTyped
    <3>3. \A i \in 1..m : r.free[i] # s
      BY <1>2, <1>4, <1>6
    <3>4. \A i, j \in 1..(m + 1) : R.free[i] = R.free[j] => i = j
      <4> SUFFICES ASSUME NEW i \in 1..(m + 1), NEW j \in 1..(m + 1), R.free[i] = R.free[j]
                   PROVE  i = j
        OBVIOUS
      <4>1. i \in 1..m \/ i = m + 1
        BY <1>3
      <4>2. j \in 1..m \/ j = m + 1
        BY <1>3
      <4> QED BY <4>1, <4>2, <3>1, <3>3, <1>6
    <3>5. ASSUME NEW t \in DOMAIN R.slots
          PROVE  Available(R.slots[t]) <=> \E i \in 1..(m + 1) : R.free[i] = t
      <4>1. CASE t = s
        BY <4>1, <1>3, <1>7, <2>1, <3>1
      <4>2. CASE t # s
        <5>1. Available(R.slots[t]) <=> \E i \in 1..m : r.free[i] = t
          BY <4>2, <1>5, <1>6
        <5>2. ASSUME NEW i \in 1..m, r.free[i] = t
              PROVE  i \in 1..(m + 1) /\ R.free[i] = t
          BY <5>2, <3>1, <1>3, SMTT(30)
        <5>3. ASSUME NEW i \in 1..(m + 1), R.free[i] = t
              PROVE  i \in 1..m /\ r.free[i] = t
          <6>1. i # m + 1
            BY <5>3, <4>2, <3>1
          <6> QED BY <6>1, <5>3, <3>1, <1>3, SMTT(30)
        <5> QED BY <5>1, <5>2, <5>3
      <4> QED BY <4>1, <4>2
    <3> QED BY <3>1, <3>2, <3>4, <3>5 DEF FreeExact
  <2>2. CASE ~ Reusable(r.slots[s])
    <3>1. WellTyped(R, V)
      BY <2>2, <1>1, <1>2, <1>3, <1>5, <1>8 DEF WellTyped
    <3>2. \A t \in DOMAIN R.slots : Available(R.slots[t]) <=> Available(r.slots[t])
      BY <2>2, <1>4, <1>5, <1>7
    <3>3. R.free = r.free
      BY <2>2, <1>2
    <3>4. FreeExact(R)
      BY <3>2, <3>3, <1>1, <1>5 DEF FreeExact
    <3> QED BY <3>1, <3>4
  <2> QED BY <2>1, <2>2
<1> QED BY <1>8, <1>9, <1>10 DEF WellFormed, R

-----------------------------------------------------------------------------
\* Cascading removal.

\* An ascending order of a set of slots lists each of them, once.
LEMMA AscendingOrderLists ==
    ASSUME NEW S \in SUBSET Nat, IsFiniteSet(S), NEW order \in AscendingOrders(S)
    PROVE  /\ order \in Seq(S) /\ Cardinality(S) \in Nat /\ Len(order) = Cardinality(S)
           /\ \A i, j \in 1..Cardinality(S) : order[i] = order[j] => i = j
           /\ \A s \in S : \E i \in 1..Cardinality(S) : order[i] = s
<1> DEFINE N == Cardinality(S)
<1>1. N \in Nat
  BY FS_CardinalityType
<1>2. order \in [1..N -> S] /\ \A i, j \in 1..N : i < j => order[i] < order[j]
  BY DEF AscendingOrders
<1>3. order \in Seq(S) /\ Len(order) = N
  BY <1>1, <1>2
<1>4. \A i, j \in 1..N : order[i] = order[j] => i = j
  <2> SUFFICES ASSUME NEW i \in 1..N, NEW j \in 1..N, order[i] = order[j], i # j
               PROVE  FALSE
    OBVIOUS
  <2>1. order[i] \in Nat /\ order[j] \in Nat
    BY <1>2
  <2>2. i < j \/ j < i
    BY <1>1
  <2> QED BY <2>1, <2>2, <1>2
<1>5. order \in Surjection(1..N, S)
  <2>1. order \in Injection(1..N, S)
    BY <1>2, <1>4 DEF Injection, IsInjective
  <2>2. Cardinality(1..N) = N
    BY <1>1, FS_Interval
  <2> QED BY <2>1, <2>2, FS_Injection
<1> QED BY <1>1, <1>3, <1>4, <1>5 DEF Surjection

\* Where the elements of two sequences are found in their concatenation.
LEMMA ConcatElements ==
    ASSUME NEW S, NEW a \in Seq(S), NEW b \in Seq(S)
    PROVE  /\ a \o b \in Seq(S) /\ Len(a \o b) = Len(a) + Len(b)
           /\ DOMAIN (a \o b) = 1..(Len(a) + Len(b))
           /\ \A i \in 1..Len(a) : (a \o b)[i] = a[i]
           /\ \A i \in 1..Len(b) : (a \o b)[Len(a) + i] = b[i]
<1>1. a \o b \in Seq(S) /\ Len(a \o b) = Len(a) + Len(b)
  BY ConcatProperties
<1>2. Len(a) \in Nat /\ Len(b) \in Nat
  OBVIOUS
<1>3. \A i \in 1..(Len(a) + Len(b)) :
        (a \o b)[i] = IF i <= Len(a) THEN a[i] ELSE b[i - Len(a)]
  BY ConcatProperties
<1>4. DOMAIN (a \o b) = 1..(Len(a) + Len(b))
  BY <1>1
<1>5. \A i \in 1..Len(a) : (a \o b)[i] = a[i]
  BY <1>2, <1>3
<1>6. \A i \in 1..Len(b) : (a \o b)[Len(a) + i] = b[i]
  BY <1>2, <1>3
<1> QED BY <1>1, <1>4, <1>5, <1>6

\* apply_remove_where keeps the registry well formed, whatever the plan matched.
LEMMA RemovedWhereWellFormed ==
    ASSUME NEW V, NEW r, WellFormed(r, V), NEW matching \in SUBSET Occupied(r),
           NEW order \in AscendingOrders(ReusableOf(r, matching))
    PROVE  WellFormed(RemovedWhere(r, matching, order), V)
<1> DEFINE R == RemovedWhere(r, matching, order)
           reusable == ReusableOf(r, matching)
           m == Len(r.free)
           k == Cardinality(reusable)
<1>1. WellTyped(r, V) /\ FreeExact(r) /\ CountExact(r) /\ MemoryExact(r)
  BY DEF WellFormed
<1>2. /\ R.slots = [s \in DOMAIN r.slots |->
                      IF s \in matching THEN VacatedSlot(r.slots[s]) ELSE r.slots[s]]
      /\ R.free = r.free \o order /\ R.active = r.active - Cardinality(matching)
      /\ R.maxSlots = r.maxSlots /\ R.kind = r.kind
      /\ R = With(R, R.slots, R.free, R.active)
  BY <1>1 DEF RemovedWhere, With, WellTyped
<1>3. /\ r.slots \in Seq(SlotType(V)) /\ DOMAIN r.slots = 1..Len(r.slots)
      /\ Len(r.slots) \in Nat
      /\ r.free \in Seq(1..Len(r.slots)) /\ DOMAIN r.free = 1..m /\ m \in Nat
  BY <1>1 DEF WellTyped
<1>4. \A s \in matching : /\ s \in DOMAIN r.slots /\ r.slots[s] \in SlotType(V)
                          /\ r.slots[s].value # Empty
                          /\ ~ Retired(r.slots[s]) /\ ~ Available(r.slots[s])
  BY <1>1, <1>3 DEF MemoryExact, SlotExact, Available, Occupied
<1>5. \A s \in matching : /\ VacatedSlot(r.slots[s]) \in SlotType(V)
                          /\ VacatedSlot(r.slots[s]).value = Empty
                          /\ SlotExact(VacatedSlot(r.slots[s]))
                          /\ Available(VacatedSlot(r.slots[s])) <=> s \in reusable
  BY <1>4, VacatedSlotExact DEF ReusableOf
<1>6. /\ R.slots \in Seq(SlotType(V)) /\ Len(R.slots) = Len(r.slots)
      /\ DOMAIN R.slots = DOMAIN r.slots
      /\ \A s \in matching : R.slots[s] = VacatedSlot(r.slots[s])
      /\ \A s \in DOMAIN r.slots : s \notin matching => R.slots[s] = r.slots[s]
  <2>1. \A s \in DOMAIN r.slots : R.slots[s] \in SlotType(V)
    BY <1>2, <1>3, <1>5
  <2>2. R.slots \in [1..Len(r.slots) -> SlotType(V)]
    BY <2>1, <1>2, <1>3
  <2> QED BY <2>2, <1>2, <1>3, <1>4
<1>7. /\ \A i, j \in 1..m : r.free[i] = r.free[j] => i = j
      /\ \A s \in DOMAIN r.slots : Available(r.slots[s]) <=> \E i \in 1..m : r.free[i] = s
  BY <1>1, <1>3 DEF FreeExact
<1>8. /\ IsFiniteSet(matching) /\ Cardinality(matching) \in Nat
      /\ Cardinality(Occupied(r) \ matching) = Cardinality(Occupied(r)) - Cardinality(matching)
      /\ Cardinality(Occupied(r) \ matching) \in Nat
  <2>1. IsFiniteSet(Occupied(r)) /\ Occupied(r) \cap matching = matching
    BY <1>1, OccupiedFinite
  <2>2. IsFiniteSet(matching) /\ Cardinality(matching) \in Nat
    BY <2>1, FS_Subset, FS_CardinalityType
  <2>3. /\ IsFiniteSet(Occupied(r) \ matching)
        /\ Cardinality(Occupied(r) \ matching) = Cardinality(Occupied(r)) - Cardinality(matching)
    BY <2>1, FS_Difference
  <2> QED BY <2>2, <2>3, FS_CardinalityType
<1>9. /\ reusable \in SUBSET matching /\ reusable \in SUBSET (1..Len(r.slots))
      /\ reusable \in SUBSET Nat /\ IsFiniteSet(reusable)
  BY <1>3, <1>4, <1>8, FS_Subset DEF ReusableOf
<1>10. /\ order \in Seq(reusable) /\ k \in Nat /\ Len(order) = k
       /\ \A i, j \in 1..k : order[i] = order[j] => i = j
       /\ \A s \in reusable : \E i \in 1..k : order[i] = s
       /\ \A i \in 1..k : order[i] \in reusable
  <2>1. order \in AscendingOrders(reusable)
    OBVIOUS
  <2>2. /\ order \in Seq(reusable) /\ k \in Nat /\ Len(order) = k
        /\ \A i, j \in 1..k : order[i] = order[j] => i = j
        /\ \A s \in reusable : \E i \in 1..k : order[i] = s
    BY <2>1, <1>9, AscendingOrderLists
  <2> QED BY <2>2
<1> HIDE DEF R, reusable, k, m
<1>11. /\ R.free \in Seq(1..Len(r.slots)) /\ DOMAIN R.free = 1..(m + k)
       /\ \A i \in 1..m : R.free[i] = r.free[i]
       /\ \A i \in 1..k : R.free[m + i] = order[i]
  <2>1. \A i \in 1..k : order[i] \in 1..Len(r.slots)
    BY <1>9, <1>10
  <2>2. order \in [1..k -> 1..Len(r.slots)]
    BY <2>1, <1>10
  <2>3. order \in Seq(1..Len(r.slots))
    BY <2>2, <1>10
  <2>4. /\ R.free \in Seq(1..Len(r.slots))
        /\ DOMAIN R.free = 1..(Len(r.free) + Len(order))
        /\ \A i \in 1..Len(r.free) : R.free[i] = r.free[i]
        /\ \A i \in 1..Len(order) : R.free[Len(r.free) + i] = order[i]
    BY <2>3, <1>2, <1>3, ConcatElements
  <2> QED BY <2>4, <1>10 DEF m
<1>12. CountExact(R) /\ R.active \in Nat
  <2>1. Occupied(R) = Occupied(r) \ matching
    BY <1>5, <1>6 DEF Occupied
  <2> QED BY <2>1, <1>1, <1>2, <1>8 DEF CountExact
<1>13. WellTyped(R, V)
  BY <1>1, <1>2, <1>3, <1>6, <1>11, <1>12 DEF WellTyped
<1>14. MemoryExact(R)
  BY <1>1, <1>5, <1>6 DEF MemoryExact
<1>15. FreeExact(R)
  <2>1. \A i \in 1..m, j \in 1..k : r.free[i] # order[j]
    BY <1>3, <1>4, <1>7, <1>9, <1>10
  <2>2. \A i \in 1..(m + k) : i \in 1..m \/ \E j \in 1..k : i = m + j
    <3> SUFFICES ASSUME NEW i \in 1..(m + k), i \notin 1..m
                 PROVE  i - m \in 1..k /\ i = m + (i - m)
      OBVIOUS
    <3> QED BY <1>3, <1>10
  <2>3. \A i, j \in 1..(m + k) : R.free[i] = R.free[j] => i = j
    <3> SUFFICES ASSUME NEW i \in 1..(m + k), NEW j \in 1..(m + k), R.free[i] = R.free[j]
                 PROVE  i = j
      OBVIOUS
    <3>1. CASE i \in 1..m /\ j \in 1..m
      BY <3>1, <1>7, <1>11
    <3>2. CASE i \in 1..m /\ \E j1 \in 1..k : j = m + j1
      BY <3>2, <2>1, <1>11
    <3>3. CASE j \in 1..m /\ \E i1 \in 1..k : i = m + i1
      BY <3>3, <2>1, <1>11
    <3>4. CASE (\E i1 \in 1..k : i = m + i1) /\ (\E j1 \in 1..k : j = m + j1)
      <4>1. PICK i1 \in 1..k, j1 \in 1..k : i = m + i1 /\ j = m + j1
        BY <3>4
      <4>2. order[i1] = order[j1]
        BY <4>1, <1>11
      <4> QED BY <4>1, <4>2, <1>10
    <3> QED BY <2>2, <3>1, <3>2, <3>3, <3>4
  <2>4. ASSUME NEW s \in DOMAIN R.slots
        PROVE  Available(R.slots[s]) <=> \E i \in 1..(m + k) : R.free[i] = s
    <3>1. CASE s \in matching
      <4>1. Available(R.slots[s]) <=> s \in reusable
        BY <3>1, <1>5, <1>6
      <4>2. ASSUME s \in reusable PROVE \E i \in 1..(m + k) : R.free[i] = s
        <5>1. PICK i \in 1..k : order[i] = s
          BY <4>2, <1>10
        <5>2. m \in Nat /\ k \in Nat
          BY <1>3, <1>10
        <5>3. m + i \in 1..(m + k)
          BY <5>2
        <5>4. R.free[m + i] = order[i]
          BY <1>11
        <5> QED BY <5>1, <5>3, <5>4
      <4>3. ASSUME NEW i \in 1..(m + k), R.free[i] = s PROVE s \in reusable
        <5>1. i \notin 1..m
          BY <4>3, <3>1, <1>4, <1>7, <1>11
        <5>2. PICK j \in 1..k : i = m + j
          BY <5>1, <2>2
        <5> QED BY <5>2, <4>3, <1>10, <1>11
      <4> QED BY <4>1, <4>2, <4>3
    <3>2. CASE s \notin matching
      <4>1. Available(R.slots[s]) <=> \E i \in 1..m : r.free[i] = s
        BY <3>2, <1>6, <1>7
      <4>2. ASSUME NEW i \in 1..m, r.free[i] = s PROVE i \in 1..(m + k) /\ R.free[i] = s
        BY <4>2, <1>3, <1>10, <1>11
      <4>3. ASSUME NEW i \in 1..(m + k), R.free[i] = s PROVE i \in 1..m /\ r.free[i] = s
        <5>1. ASSUME NEW j \in 1..k, i = m + j PROVE FALSE
          <6>1. R.free[m + j] = order[j] /\ order[j] \in matching
            BY <1>9, <1>10, <1>11
          <6> QED BY <6>1, <5>1, <4>3, <3>2
        <5> QED BY <5>1, <4>3, <2>2, <1>11
      <4> QED BY <4>1, <4>2, <4>3
    <3> QED BY <3>1, <3>2
  <2> QED BY <2>3, <2>4, <1>11 DEF FreeExact
<1> QED BY <1>12, <1>13, <1>14, <1>15 DEF WellFormed, R

-----------------------------------------------------------------------------
\* What an operation does to the slots, for the modules that use a registry.

\* A lookup or a removal that succeeds names a live slot of the registry.
LEMMA LookupOK ==
    ASSUME NEW r, NEW h, NEW kinds
    PROVE  /\ Lookup(r, h, kinds) = "OK" => Names(r, h)
           /\ RemoveStatus(r, h, kinds) = "DISPOSED" => Names(r, h)
  BY DEF Lookup, RemoveStatus

\* An insertion fills one slot, empty until then, and leaves the others alone.
LEMMA InsertedSlots ==
    ASSUME NEW V, Empty \notin V, NEW r, WellFormed(r, V), NEW v \in V, HasInsertCapacity(r)
    PROVE  LET s == InsertSlot(r) R == Inserted(r, v) IN
           /\ s \in 1..r.maxSlots /\ s \notin Occupied(r)
           /\ DOMAIN R.slots = DOMAIN r.slots \cup {s}
           /\ R.slots[s].value = v
           /\ \A t \in DOMAIN r.slots \ {s} : R.slots[t] = r.slots[t]
           /\ R.kind = r.kind /\ R.maxSlots = r.maxSlots
<1> DEFINE s == InsertSlot(r)
           R == Inserted(r, v)
<1>1. WellTyped(r, V) /\ FreeExact(r) /\ MemoryExact(r)
  BY DEF WellFormed
<1>2. /\ Len(r.slots) \in Nat /\ DOMAIN r.slots = 1..Len(r.slots)
      /\ r.maxSlots \in Nat /\ Len(r.slots) <= r.maxSlots
  BY <1>1 DEF WellTyped
<1>3. CASE r.free # <<>>
  <2>1. /\ s \in 1..Len(r.slots)
        /\ s = r.free[Len(r.free)] /\ Len(r.free) \in Nat \ {0}
        /\ R.kind = r.kind /\ R.maxSlots = r.maxSlots
        /\ R.slots = [r.slots EXCEPT ![s] = ReusedSlot(@, v)]
    BY <1>1, <1>3, ReuseFields
  <2>2. Len(r.free) \in DOMAIN r.free
    BY <1>1, <2>1 DEF WellTyped
  <2>3. Available(r.slots[s])
    BY <1>1, <1>2, <2>1, <2>2 DEF FreeExact
  <2>4. s \notin Occupied(r)
    BY <2>3 DEF Available, Occupied
  <2>5. R.slots[s].value = v
    BY <1>2, <2>1 DEF ReusedSlot
  <2> QED BY <1>2, <2>1, <2>4, <2>5
<1>4. CASE r.free = <<>>
  <2>1. s = Len(r.slots) + 1 /\ R.slots = Append(r.slots, FreshSlot(v))
        /\ R.kind = r.kind /\ R.maxSlots = r.maxSlots
    BY <1>4 DEF Inserted, InsertSlot, With
  <2>2. Len(r.slots) < r.maxSlots
    BY <1>4 DEF HasInsertCapacity
  <2>3. r.slots \in Seq(SlotType(V))
    BY <1>1 DEF WellTyped
  <2>4. /\ DOMAIN R.slots = 1..Len(r.slots) + 1
        /\ R.slots[Len(r.slots) + 1] = FreshSlot(v)
        /\ \A t \in 1..Len(r.slots) : R.slots[t] = r.slots[t]
    BY <2>1, <2>3
  <2> QED BY <1>2, <2>1, <2>2, <2>4 DEF FreshSlot, Occupied
<1> QED BY <1>3, <1>4

\* So every handle that was live still is, with the same resource behind it.
LEMMA InsertedKeepsNames ==
    ASSUME NEW V, Empty \notin V, NEW r, WellFormed(r, V), NEW v \in V, HasInsertCapacity(r),
           NEW h, Names(r, h)
    PROVE  Names(Inserted(r, v), h) /\ ValueOf(Inserted(r, v), h) = ValueOf(r, h)
  BY InsertedSlots DEF Names, ValueOf, Occupied

\* An update changes the resource of one slot and nothing else.
LEMMA UpdatedSlots ==
    ASSUME NEW V, NEW r, WellFormed(r, V), NEW v \in V, Empty \notin V, NEW h, Names(r, h)
    PROVE  LET R == Updated(r, h, v) IN
           /\ DOMAIN R.slots = DOMAIN r.slots
           /\ R.slots[h.slot].value = v /\ R.slots[h.slot].generation = r.slots[h.slot].generation
           /\ \A t \in DOMAIN r.slots \ {h.slot} : R.slots[t] = r.slots[t]
           /\ Occupied(R) = Occupied(r)
           /\ R.kind = r.kind /\ R.maxSlots = r.maxSlots
<1> DEFINE R == Updated(r, h, v)
<1>1. /\ R.slots = [r.slots EXCEPT ![h.slot] = [@ EXCEPT !.value = v]]
      /\ R.kind = r.kind /\ R.maxSlots = r.maxSlots
  BY DEF Updated, With
<1>2. h.slot \in DOMAIN r.slots /\ r.slots[h.slot].value # Empty
  BY DEF Names
<1>3. r.slots[h.slot] \in SlotType(V)
  BY <1>2 DEF WellFormed, WellTyped
<1>4. /\ R.slots[h.slot].value = v
      /\ R.slots[h.slot].generation = r.slots[h.slot].generation
  BY <1>1, <1>2, <1>3 DEF SlotType
<1>5. \A t \in DOMAIN r.slots \ {h.slot} : R.slots[t] = r.slots[t]
  BY <1>1
<1>6. DOMAIN R.slots = DOMAIN r.slots
  BY <1>1
<1>7. v # Empty
  OBVIOUS
<1> HIDE DEF R
<1>8. Occupied(R) = Occupied(r)
  BY <1>2, <1>4, <1>5, <1>6, <1>7 DEF Occupied
<1> QED BY <1>1, <1>4, <1>5, <1>6, <1>8 DEF R

\* A removal empties one slot and remembers the generation that left it.
LEMMA RemovedSlots ==
    ASSUME NEW V, NEW r, WellFormed(r, V), NEW h, Names(r, h)
    PROVE  LET R == Removed(r, h) IN
           /\ DOMAIN R.slots = DOMAIN r.slots
           /\ R.slots[h.slot].value = Empty /\ R.slots[h.slot].lastDisposed = h.generation
           /\ \A t \in DOMAIN r.slots \ {h.slot} : R.slots[t] = r.slots[t]
           /\ Occupied(R) = Occupied(r) \ {h.slot}
           /\ R.kind = r.kind /\ R.maxSlots = r.maxSlots
<1> DEFINE R == Removed(r, h)
<1>1. /\ R.slots = [r.slots EXCEPT ![h.slot] = VacatedSlot(@)]
      /\ R.kind = r.kind /\ R.maxSlots = r.maxSlots
  BY DEF Removed, With
<1>2. h.slot \in DOMAIN r.slots /\ r.slots[h.slot].generation = h.generation
  BY DEF Names
<1>3. R.slots[h.slot].value = Empty /\ R.slots[h.slot].lastDisposed = h.generation
  BY <1>1, <1>2 DEF VacatedSlot
<1>4. DOMAIN R.slots = DOMAIN r.slots
      /\ \A t \in DOMAIN r.slots \ {h.slot} : R.slots[t] = r.slots[t]
  BY <1>1
<1> HIDE DEF R
<1>5. Occupied(R) = Occupied(r) \ {h.slot}
  BY <1>2, <1>3, <1>4 DEF Occupied
<1> QED BY <1>1, <1>3, <1>4, <1>5 DEF R

\* A bulk removal empties the slots it matched and leaves the others alone.
LEMMA RemovedWhereSlots ==
    ASSUME NEW r, NEW matching \in SUBSET Occupied(r), NEW order
    PROVE  LET R == RemovedWhere(r, matching, order) IN
           /\ DOMAIN R.slots = DOMAIN r.slots
           /\ \A t \in DOMAIN r.slots \ matching : R.slots[t] = r.slots[t]
           /\ Occupied(R) = Occupied(r) \ matching
           /\ R.kind = r.kind /\ R.maxSlots = r.maxSlots
<1> DEFINE R == RemovedWhere(r, matching, order)
<1>1. /\ R.slots = [s \in DOMAIN r.slots |->
                      IF s \in matching THEN VacatedSlot(r.slots[s]) ELSE r.slots[s]]
      /\ R.kind = r.kind /\ R.maxSlots = r.maxSlots
  BY DEF RemovedWhere, With
<1>2. \A t \in matching : t \in DOMAIN r.slots
  BY DEF Occupied
<1>3. \A t \in matching : R.slots[t].value = Empty
  BY <1>1, <1>2 DEF VacatedSlot
<1>4. DOMAIN R.slots = DOMAIN r.slots
      /\ \A t \in DOMAIN r.slots \ matching : R.slots[t] = r.slots[t]
  BY <1>1
<1> HIDE DEF R
<1>5. Occupied(R) = Occupied(r) \ matching
  BY <1>2, <1>3, <1>4 DEF Occupied
<1> QED BY <1>1, <1>4, <1>5 DEF R

-----------------------------------------------------------------------------
\* What the operations do to the handles given out, live and dead.

\* The handles a registry could ever give out.
Issuable(r) == Handles({r.kind}, 1..r.maxSlots)

\* The handle of a slot that has served its generation.
Served(r, h) ==
    /\ h.slot \in DOMAIN r.slots /\ h.generation \in Generations
    /\ \/ h.generation < r.slots[h.slot].generation
       \/ h.generation = r.slots[h.slot].generation /\ Retired(r.slots[h.slot])

\* Live and dead handles as sets of the handles the registry could ever issue.
LEMMA HandleSets ==
    ASSUME NEW V, NEW r, WellFormed(r, V)
    PROVE  /\ LiveHandles(r) = {h \in Issuable(r) : Names(r, h)}
           /\ DeadHandles(r) = {h \in Issuable(r) : Served(r, h)}
<1>1. /\ DOMAIN r.slots \in SUBSET (1..r.maxSlots)
      /\ \A s \in DOMAIN r.slots : r.slots[s].generation \in 0..MaxGeneration
  <2>1. /\ DOMAIN r.slots = 1..Len(r.slots) /\ Len(r.slots) \in Nat
        /\ Len(r.slots) <= r.maxSlots /\ r.maxSlots \in Nat
        /\ \A s \in DOMAIN r.slots : r.slots[s] \in SlotType(V)
    BY DEF WellFormed, WellTyped
  <2>2. DOMAIN r.slots \in SUBSET (1..r.maxSlots)
    BY <2>1
  <2>3. \A s \in DOMAIN r.slots : r.slots[s].generation \in 0..MaxGeneration
    BY <2>1, MaxGenerationAssumption DEF SlotType, Generations
  <2> QED BY <2>2, <2>3
<1>2. LiveHandles(r) = {h \in Issuable(r) : Names(r, h)}
  <2>1. ASSUME NEW h \in LiveHandles(r) PROVE h \in Issuable(r) /\ Names(r, h)
    BY <1>1 DEF LiveHandles, Occupied, HandleAt, Issuable, Handles, Names
  <2>2. ASSUME NEW h \in Issuable(r), Names(r, h) PROVE h \in LiveHandles(r)
    <3>1. h.slot \in Occupied(r)
      BY <2>2 DEF Names, Occupied
    <3>2. h = HandleAt(r, h.slot)
      BY <2>2 DEF Names, Issuable, Handles, HandleAt
    <3> QED BY <3>1, <3>2 DEF LiveHandles
  <2> QED BY <2>1, <2>2
<1>3. DOMAIN r.slots \in SUBSET (1..r.maxSlots)
  BY <1>1
<1> QED BY <1>2, <1>3 DEF DeadHandles, Served, Issuable, Handles

\* A new registry has given out no handle.
LEMMA NewHandles ==
    ASSUME NEW kind, NEW maxSlots
    PROVE  /\ LiveHandles(NewRegistry(kind, maxSlots)) = {}
           /\ DeadHandles(NewRegistry(kind, maxSlots)) = {}
  BY DEF NewRegistry, LiveHandles, Occupied, DeadHandles, Handles

\* An insertion gives out a handle never given out before, for its resource,
\* and does nothing to any other.
LEMMA InsertedHandles ==
    ASSUME NEW V, Empty \notin V, NEW r, WellFormed(r, V), NEW v \in V, HasInsertCapacity(r)
    PROVE  LET R == Inserted(r, v)  h == InsertHandle(r) IN
           /\ h \in Issuable(r)
           /\ h \notin LiveHandles(r) /\ h \notin DeadHandles(r)
           /\ LiveHandles(R) = LiveHandles(r) \cup {h}
           /\ DeadHandles(R) = DeadHandles(r)
           /\ ValueOf(R, h) = v
           /\ \A g \in LiveHandles(r) : ValueOf(R, g) = ValueOf(r, g)
<1> DEFINE R == Inserted(r, v)
           s == InsertSlot(r)
           h == InsertHandle(r)
<1>1. WellFormed(r, V) /\ WellFormed(R, V)
  BY InsertedWellFormed
<1>2. /\ r.slots \in Seq(SlotType(V)) /\ r.free \in Seq(DOMAIN r.slots)
      /\ DOMAIN r.slots = 1..Len(r.slots) /\ Len(r.slots) \in Nat
      /\ Len(r.slots) <= r.maxSlots /\ r.maxSlots \in Nat
  BY DEF WellFormed, WellTyped
<1>3. /\ R.kind = r.kind /\ R.maxSlots = r.maxSlots
      /\ s \in 1..r.maxSlots
      /\ DOMAIN R.slots = DOMAIN r.slots \cup {s}
      /\ \A t \in DOMAIN r.slots : t # s => R.slots[t] = r.slots[t]
      /\ R.slots[s].value = v
  BY InsertedSlots
<1>4. /\ R.slots[s].generation = h.generation
      /\ ~ Retired(R.slots[s]) /\ h.slot = s /\ h.kind = r.kind
      /\ h.generation \in Generations /\ h \in Issuable(r)
      /\ s \in DOMAIN r.slots => /\ r.slots[s].value = Empty
                                 /\ r.slots[s].generation = h.generation
                                 /\ ~ Retired(r.slots[s])
      /\ s \notin DOMAIN r.slots => h.generation = 1
  <2>1. CASE r.free # <<>>
    <3>1. /\ s = r.free[Len(r.free)] /\ s \in DOMAIN r.slots
          /\ Len(r.free) \in DOMAIN r.free
      BY <2>1, <1>2 DEF InsertSlot
    <3>2. Available(r.slots[s]) /\ r.slots[s] \in SlotType(V)
      BY <3>1, <1>2 DEF WellFormed, FreeExact
    <3>3. R.slots = [r.slots EXCEPT ![s] = ReusedSlot(r.slots[s], v)]
      BY <2>1 DEF Inserted, With
    <3>4. R.slots[s] = ReusedSlot(r.slots[s], v)
      BY <3>1, <3>3
    <3>5. h = [kind |-> r.kind, generation |-> r.slots[s].generation, slot |-> s]
      BY <2>1 DEF InsertHandle
    <3>6. r.slots[s].generation \in Generations
      BY <3>2 DEF SlotType
    <3>7. h \in Issuable(r)
      BY <1>3, <3>5, <3>6, MaxGenerationAssumption DEF Issuable, Handles, Generations
    <3> QED BY <3>1, <3>2, <3>4, <3>5, <3>6, <3>7 DEF ReusedSlot, Available, Retired
  <2>2. CASE r.free = <<>>
    <3>1. s = Len(r.slots) + 1
      BY <2>2 DEF InsertSlot
    <3>2. R.slots = Append(r.slots, FreshSlot(v))
      BY <2>2 DEF Inserted, With
    <3>3. FreshSlot(v) \in SlotType(V)
      BY FreshSlotExact
    <3>4. R.slots[s] = FreshSlot(v) /\ s \notin DOMAIN r.slots
      BY <3>1, <3>2, <3>3, <1>2
    <3>5. h = [kind |-> r.kind, generation |-> 1, slot |-> s]
      BY <2>2 DEF InsertHandle
    <3>6. 1 \in Generations /\ 1 \in 0..MaxGeneration
      BY MaxGenerationAssumption DEF Generations
    <3>7. h \in Issuable(r)
      BY <1>3, <3>5, <3>6 DEF Issuable, Handles
    <3> QED BY <3>4, <3>5, <3>6, <3>7 DEF FreshSlot, Retired
  <2> QED BY <2>1, <2>2
<1> HIDE DEF s, h, R
<1>5. Issuable(R) = Issuable(r)
  BY <1>3 DEF Issuable
<1>6. \A g \in Issuable(r) : Names(R, g) <=> Names(r, g) \/ g = h
  <2> SUFFICES ASSUME NEW g \in Issuable(r)
               PROVE  Names(R, g) <=> Names(r, g) \/ g = h
    OBVIOUS
  <2>1. CASE g.slot # s
    BY <2>1, <1>3, <1>4 DEF Names
  <2>2. CASE g.slot = s
    <3>1. Names(R, g) <=> g.generation = h.generation
      BY <2>2, <1>3, <1>4 DEF Names, Issuable, Handles
    <3>2. g = h <=> g.generation = h.generation
      BY <2>2, <1>4 DEF Issuable, Handles
    <3>3. ~ Names(r, g)
      BY <2>2, <1>4 DEF Names
    <3> QED BY <3>1, <3>2, <3>3
  <2> QED BY <2>1, <2>2
<1>7. LiveHandles(R) = LiveHandles(r) \cup {h}
  BY <1>1, <1>4, <1>5, <1>6, HandleSets
<1>8. h \notin LiveHandles(r)
  BY <1>1, <1>4, HandleSets DEF Names
<1>9. DeadHandles(R) = DeadHandles(r)
  <2>1. ASSUME NEW g \in Issuable(r) PROVE Served(R, g) <=> Served(r, g)
    <3>1. CASE g.slot # s
      BY <3>1, <1>3 DEF Served
    <3>2. CASE g.slot = s /\ s \in DOMAIN r.slots
      BY <3>2, <1>3, <1>4 DEF Served
    <3>3. CASE g.slot = s /\ s \notin DOMAIN r.slots
      BY <3>3, <1>3, <1>4, MaxGenerationAssumption DEF Generations, Served
    <3> QED BY <3>1, <3>2, <3>3
  <2> QED BY <2>1, <1>1, <1>5, HandleSets
<1>10. h \notin DeadHandles(r)
  <2>1. s \in DOMAIN r.slots => ~ (h.generation < r.slots[s].generation)
    BY <1>4, MaxGenerationAssumption DEF Generations
  <2> QED BY <2>1, <1>1, <1>4, HandleSets DEF Served
<1>11. \A g \in LiveHandles(r) : ValueOf(R, g) = ValueOf(r, g)
  <2>1. \A g \in LiveHandles(r) : g.slot # s /\ g.slot \in DOMAIN r.slots
    BY <1>1, <1>4, HandleSets DEF Names
  <2> QED BY <2>1, <1>3 DEF ValueOf
<1>12. ValueOf(R, h) = v
  BY <1>3, <1>4 DEF ValueOf
<1> QED BY <1>4, <1>7, <1>8, <1>9, <1>10, <1>11, <1>12 DEF R, h

\* An update writes through one live handle, and no handle comes or goes.
LEMMA UpdatedHandles ==
    ASSUME NEW V, Empty \notin V, NEW r, WellFormed(r, V), NEW v \in V,
           NEW h \in Issuable(r), Names(r, h)
    PROVE  LET R == Updated(r, h, v) IN
           /\ h \in LiveHandles(r)
           /\ LiveHandles(R) = LiveHandles(r)
           /\ DeadHandles(R) = DeadHandles(r)
           /\ \A g \in LiveHandles(r) : ValueOf(R, g) = IF g = h THEN v ELSE ValueOf(r, g)
<1> DEFINE R == Updated(r, h, v)
<1>1. WellFormed(r, V) /\ WellFormed(R, V)
  BY UpdatedWellFormed
<1>2. h.slot \in DOMAIN r.slots /\ r.slots[h.slot].value # Empty
  BY DEF Names
<1>3. r.slots[h.slot] \in SlotType(V)
  BY <1>2 DEF WellFormed, WellTyped
<1>4. /\ DOMAIN R.slots = DOMAIN r.slots
      /\ R.slots[h.slot] = [r.slots[h.slot] EXCEPT !.value = v]
      /\ \A t \in DOMAIN r.slots : t # h.slot => R.slots[t] = r.slots[t]
      /\ R.kind = r.kind /\ R.maxSlots = r.maxSlots
  BY <1>2 DEF Updated, With
<1>5. /\ \A t \in DOMAIN r.slots :
            /\ R.slots[t].generation = r.slots[t].generation
            /\ Retired(R.slots[t]) <=> Retired(r.slots[t])
            /\ R.slots[t].value = Empty <=> r.slots[t].value = Empty
      /\ R.slots[h.slot].value = v
  BY <1>2, <1>3, <1>4 DEF SlotType, Retired
<1> HIDE DEF R
<1>6. Issuable(R) = Issuable(r)
  BY <1>4 DEF Issuable
<1>7. \A g \in Issuable(r) : Names(R, g) <=> Names(r, g)
  BY <1>4, <1>5 DEF Names
<1>8. LiveHandles(R) = LiveHandles(r)
  BY <1>1, <1>6, <1>7, HandleSets
<1>9. DeadHandles(R) = DeadHandles(r)
  BY <1>4, <1>5 DEF DeadHandles, Handles
<1>10. h \in LiveHandles(r)
  BY <1>1, HandleSets
<1>11. \A g \in LiveHandles(r) : ValueOf(R, g) = IF g = h THEN v ELSE ValueOf(r, g)
  <2> SUFFICES ASSUME NEW g \in LiveHandles(r)
               PROVE  ValueOf(R, g) = IF g = h THEN v ELSE ValueOf(r, g)
    OBVIOUS
  <2>1. Names(r, g) /\ g \in Issuable(r) /\ h \in Issuable(r)
    BY <1>1, HandleSets
  <2>2. g.slot = h.slot => g = h
    BY <2>1 DEF Names, Issuable, Handles
  <2> QED BY <2>1, <2>2, <1>4, <1>5 DEF ValueOf, Names
<1> QED BY <1>8, <1>9, <1>10, <1>11 DEF R

\* R is r with the slots of a set of occupied ones vacated.
Vacates(R, r, gone) ==
    /\ R.kind = r.kind /\ R.maxSlots = r.maxSlots
    /\ gone \in SUBSET Occupied(r)
    /\ DOMAIN R.slots = DOMAIN r.slots
    /\ \A t \in gone : R.slots[t] = VacatedSlot(r.slots[t])
    /\ \A t \in DOMAIN r.slots \ gone : R.slots[t] = r.slots[t]

\* Vacating some occupied slots gives up exactly the handles that named them.
LEMMA VacatedHandles ==
    ASSUME NEW V, NEW r, WellFormed(r, V), NEW R, WellFormed(R, V), NEW gone, Vacates(R, r, gone)
    PROVE  LET lost == {h \in LiveHandles(r) : h.slot \in gone} IN
           /\ LiveHandles(R) = LiveHandles(r) \ lost
           /\ DeadHandles(R) = DeadHandles(r) \cup lost
           /\ \A h \in LiveHandles(r) \ lost : ValueOf(R, h) = ValueOf(r, h)
<1> DEFINE lost == {h \in LiveHandles(r) : h.slot \in gone}
<1> /\ R.kind = r.kind /\ R.maxSlots = r.maxSlots
    /\ gone \in SUBSET Occupied(r)
    /\ DOMAIN R.slots = DOMAIN r.slots
    /\ \A t \in gone : R.slots[t] = VacatedSlot(r.slots[t])
    /\ \A t \in DOMAIN r.slots \ gone : R.slots[t] = r.slots[t]
  BY DEF Vacates
<1>1. Issuable(R) = Issuable(r)
  BY DEF Issuable
<1>2. \A t \in DOMAIN r.slots : r.slots[t] \in SlotType(V) /\ SlotExact(r.slots[t])
  BY DEF WellFormed, WellTyped, MemoryExact
<1>3. \A t \in gone :
        /\ t \in DOMAIN r.slots /\ r.slots[t].value # Empty
        /\ r.slots[t].generation \in Generations
        /\ R.slots[t].value = Empty
        /\ ~ Retired(r.slots[t])
        /\ Retired(R.slots[t]) <=> ~ Reusable(r.slots[t])
        /\ Reusable(r.slots[t]) => R.slots[t].generation = r.slots[t].generation + 1
        /\ ~ Reusable(r.slots[t]) => R.slots[t].generation = r.slots[t].generation
  <2>1. ASSUME NEW t \in gone
        PROVE  /\ t \in DOMAIN r.slots /\ r.slots[t].value # Empty
               /\ r.slots[t] \in SlotType(V) /\ ~ Retired(r.slots[t])
               /\ R.slots[t] = VacatedSlot(r.slots[t])
    BY <1>2 DEF Occupied, SlotExact
  <2>2. ASSUME NEW t \in gone
        PROVE  LET slot == VacatedSlot(r.slots[t]) IN
               /\ slot.value = Empty
               /\ Retired(slot) <=> ~ Reusable(r.slots[t])
               /\ Reusable(r.slots[t]) => slot.generation = r.slots[t].generation + 1
               /\ ~ Reusable(r.slots[t]) => slot.generation = r.slots[t].generation
    BY <2>1, VacatedSlotExact
  <2>3. \A t \in gone : r.slots[t].generation \in Generations
    BY <2>1 DEF SlotType
  <2> QED BY <2>1, <2>2, <2>3
<1>4. \A h \in Issuable(r) : Names(R, h) <=> Names(r, h) /\ h.slot \notin gone
  BY <1>3 DEF Names
<1>5. LiveHandles(R) = LiveHandles(r) \ lost
  BY <1>1, <1>4, HandleSets
<1>6. DeadHandles(R) = DeadHandles(r) \cup lost
  <2>1. ASSUME NEW g \in Issuable(r)
        PROVE  Served(R, g) <=> Served(r, g) \/ (Names(r, g) /\ g.slot \in gone)
    <3>1. CASE g.slot \notin gone
      BY <3>1 DEF Served
    <3>2. CASE g.slot \in gone /\ Reusable(r.slots[g.slot])
      <4>1. /\ Served(R, g) <=> /\ g.generation \in Generations
                                /\ g.generation < r.slots[g.slot].generation + 1
            /\ Served(r, g) <=> /\ g.generation \in Generations
                                /\ g.generation < r.slots[g.slot].generation
        BY <3>2, <1>3, MaxGenerationAssumption DEF Generations, Served
      <4>2. Names(r, g) <=> g.generation = r.slots[g.slot].generation
        BY <3>2, <1>3 DEF Names, Issuable, Handles
      <4> QED BY <3>2, <4>1, <4>2, <1>3, MaxGenerationAssumption DEF Generations
    <3>3. CASE g.slot \in gone /\ ~ Reusable(r.slots[g.slot])
      <4>1. /\ Served(R, g) <=> /\ g.generation \in Generations
                                /\ \/ g.generation < r.slots[g.slot].generation
                                   \/ g.generation = r.slots[g.slot].generation
            /\ Served(r, g) <=> /\ g.generation \in Generations
                                /\ g.generation < r.slots[g.slot].generation
        BY <3>3, <1>3 DEF Served
      <4>2. Names(r, g) <=> g.generation = r.slots[g.slot].generation
        BY <3>3, <1>3 DEF Names, Issuable, Handles
      <4> QED BY <3>3, <4>1, <4>2, <1>3
    <3> QED BY <3>1, <3>2, <3>3
  <2> QED BY <2>1, <1>1, HandleSets
<1>7. \A h \in LiveHandles(r) \ lost : ValueOf(R, h) = ValueOf(r, h)
  BY HandleSets DEF ValueOf, Names
<1> QED BY <1>5, <1>6, <1>7

\* A removal gives up the handle removed, and no other.
LEMMA RemovedHandles ==
    ASSUME NEW V, NEW r, WellFormed(r, V), NEW h \in Issuable(r), Names(r, h)
    PROVE  LET R == Removed(r, h) IN
           /\ h \in LiveHandles(r)
           /\ LiveHandles(R) = LiveHandles(r) \ {h}
           /\ DeadHandles(R) = DeadHandles(r) \cup {h}
           /\ \A g \in LiveHandles(r) \ {h} : ValueOf(R, g) = ValueOf(r, g)
<1> DEFINE R == Removed(r, h)
           lost == {g \in LiveHandles(r) : g.slot \in {h.slot}}
<1>1. WellFormed(R, V)
  BY RemovedWellFormed
<1>2. R.slots = [r.slots EXCEPT ![h.slot] = VacatedSlot(@)] /\ R.kind = r.kind
      /\ R.maxSlots = r.maxSlots
  BY DEF Removed, With
<1>3. h.slot \in DOMAIN r.slots /\ h.slot \in Occupied(r)
  BY DEF Names, Occupied
<1>4. Vacates(R, r, {h.slot})
  BY <1>2, <1>3 DEF Vacates
<1> HIDE DEF R
<1>5. h \in LiveHandles(r)
  BY HandleSets
<1>6. \A g \in LiveHandles(r) : g.slot = h.slot => g = h
  BY HandleSets DEF Issuable, Handles, Names
<1>7. lost = {h}
  BY <1>5, <1>6
<1>8. /\ LiveHandles(R) = LiveHandles(r) \ lost
      /\ DeadHandles(R) = DeadHandles(r) \cup lost
      /\ \A g \in LiveHandles(r) \ lost : ValueOf(R, g) = ValueOf(r, g)
  BY <1>1, <1>4, VacatedHandles
<1> QED BY <1>5, <1>7, <1>8 DEF R

\* A bulk removal gives up exactly the handles it matched.
LEMMA RemovedWhereHandles ==
    ASSUME NEW V, NEW r, WellFormed(r, V), NEW matching \in SUBSET Occupied(r),
           NEW order \in AscendingOrders(ReusableOf(r, matching))
    PROVE  LET R == RemovedWhere(r, matching, order)
               lost == {h \in LiveHandles(r) : h.slot \in matching}
           IN  /\ LiveHandles(R) = LiveHandles(r) \ lost
               /\ DeadHandles(R) = DeadHandles(r) \cup lost
               /\ \A g \in LiveHandles(r) \ lost : ValueOf(R, g) = ValueOf(r, g)
<1> DEFINE R == RemovedWhere(r, matching, order)
<1>1. WellFormed(R, V)
  BY RemovedWhereWellFormed
<1>2. Vacates(R, r, matching)
  BY DEF Vacates, RemovedWhere, With, Occupied
<1> HIDE DEF R
<1> QED BY <1>1, <1>2, VacatedHandles DEF R
=============================================================================
