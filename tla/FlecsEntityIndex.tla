-------------------------- MODULE FlecsEntityIndex --------------------------
(***************************************************************************)
(* The entity index (storage/entity_index.c) with entity ranges              *)
(* (addons/entity_ranges.c).                                                 *)
(*                                                                          *)
(* "dense" holds the ids that are in the index, each with its generation:    *)
(* the living entities are those before alive_count, the others can be       *)
(* recycled.  index->dense has an unused first element, so that its indices  *)
(* are those of a sequence here.  index_of is the records' index into it, 0  *)
(* for an id that is not in the index.  Ids of ranges that are not active    *)
(* are recycled from the range's own list.                                   *)
(***************************************************************************)
EXTENDS Integers, Sequences, FiniteSets

CONSTANTS
    MaxId,          \* bound of the ids: UINT32_MAX
    GenCount,       \* number of generations: 2^16
    Ranges,         \* the ranges that may be created: [min, max]
    MaxBulk,        \* bound of the number of entities created at once
    OwnIdsOnly      \* the application forces only ids of the active range

ASSUME MaxIdAssumption == MaxId \in Nat
ASSUME GenCountAssumption == GenCount \in Nat \ {0}
ASSUME MaxBulkAssumption == MaxBulk \in Nat
ASSUME OwnIdsOnlyAssumption == OwnIdsOnly \in BOOLEAN

Ids == 1 .. MaxId
Gens == 0 .. GenCount - 1
Entity == [id : Ids, gen : Gens]

ASSUME RangesAssumption == Ranges \subseteq {r \in [min : Ids, max : Ids] : r.min <= r.max}

NoRange == [min |-> 0, max |-> 0]

VARIABLES
    dense, alive_count, index_of,
    max_id,
    ranges,         \* the ranges that were created
    cur, recycled,  \* of each range
    active_range,
    dead,           \* history: entities that were alive
    forced          \* history: the generation of an id was forced, or wrapped

indexVars == <<dense, alive_count, index_of, max_id>>
rangeVars == <<ranges, cur, recycled, active_range>>
vars == <<indexVars, rangeVars, dead, forced>>

NotAlive == SubSeq(dense, alive_count, Len(dense))
Living == {dense[i] : i \in 1 .. alive_count - 1}

\* flecs_entity_index_is_alive
IsAlive(e) == LET i == index_of[e.id] IN i # 0 /\ i < alive_count /\ dense[i] = e
\* flecs_entity_index_get_alive # 0
IsIdAlive(id) == index_of[id] # 0 /\ index_of[id] < alive_count

In(range, id) == range.min <= id /\ id <= range.max

\* flecs_entity_ranges_on_delete: the id stays in the dense vector.
\* Mutant: whatever its range.
AlwaysInActiveRange(id) == TRUE
InActiveRange(id) == active_range = NoRange \/ In(active_range, id)

TypeOK ==
    /\ dense \in Seq(Entity)
    /\ alive_count \in 1 .. Len(dense) + 1
    /\ index_of \in [Ids -> 0 .. Len(dense)]
    /\ max_id \in 0 .. MaxId
    /\ ranges \subseteq Ranges
    /\ cur \in [Ranges -> 0 .. MaxId]
    /\ recycled \in [Ranges -> Seq(Entity)]
    /\ active_range \in ranges \cup {NoRange}
    /\ dead \subseteq Entity
    /\ forced \in BOOLEAN

Init ==
    /\ dense = <<>> /\ alive_count = 1
    /\ index_of = [id \in Ids |-> 0]
    /\ max_id = 0
    /\ ranges = {} /\ active_range = NoRange
    /\ cur = [r \in Ranges |-> 0]
    /\ recycled = [r \in Ranges |-> <<>>]
    /\ dead = {} /\ forced = FALSE

-----------------------------------------------------------------------------

\* flecs_entity_index_new_id (for one), flecs_entity_index_new_ids: ids that are
\* not alive are taken first.  Where a range is active, its last id is the last
\* that the application asks for.
NewIds(count) ==
    LET missing == alive_count + count - (Len(dense) + 1)
        fresh == IF missing > 0 THEN missing ELSE 0
    IN  /\ max_id + fresh <= MaxId
        /\ active_range # NoRange /\ OwnIdsOnly => max_id + fresh <= active_range.max
        /\ dense' = dense \o [k \in 1 .. fresh |-> [id |-> max_id + k, gen |-> 0]]
        /\ index_of' = [id \in Ids |->
                           IF id \in max_id + 1 .. max_id + fresh
                           THEN Len(dense) + id - max_id ELSE index_of[id]]
        /\ alive_count' = alive_count + count
        /\ max_id' = max_id + fresh
        /\ UNCHANGED <<rangeVars, dead, forced>>

\* ecs_make_alive: flecs_entity_index_make_alive, flecs_entity_index_ensure.
\* ecs_new_low_id does the same with an id that is not in the index.
MakeAlive(e) ==
    LET known == index_of[e.id] # 0
        d == IF known THEN dense ELSE Append(dense, e)
        i == IF known THEN index_of[e.id] ELSE Len(d)
        swap == d[alive_count]
    IN  /\ ~IsIdAlive(e.id)
        /\ OwnIdsOnly => InActiveRange(e.id)
        /\ dense' = [[d EXCEPT ![i] = swap] EXCEPT ![alive_count] = e]
        /\ index_of' = [[index_of EXCEPT ![swap.id] = i] EXCEPT ![e.id] = alive_count]
        /\ alive_count' = alive_count + 1
        /\ max_id' = IF ~known /\ e.id > max_id THEN e.id ELSE max_id
        /\ forced' = TRUE
        /\ UNCHANGED <<rangeVars, dead>>

\* ecs_set_version: flecs_entity_index_make_alive, for an id that is in the
\* index, whether it is alive or can be recycled
SetVersion(e) ==
    /\ index_of[e.id] # 0
    /\ dead' = dead \cup {f \in {dense[index_of[e.id]]} \ {e} : IsAlive(f)}
    /\ dense' = [dense EXCEPT ![index_of[e.id]] = e]
    /\ forced' = TRUE
    /\ UNCHANGED <<alive_count, index_of, max_id, rangeVars>>

\* Mutant: the generation of a deleted entity's id is not increased.
SameGeneration(e) == e

\* ECS_GENERATION_INC
NextGeneration(e) == [e EXCEPT !.gen = (@ + 1) % GenCount]

\* flecs_entity_index_remove_intern: the entity changes places with the last
\* that is alive.
RemovedDense(e) ==
    [[dense EXCEPT ![index_of[e.id]] = dense[alive_count - 1]]
        EXCEPT ![alive_count - 1] = NextGeneration(e)]
\* Mutant: the record of the entity that takes the place keeps its index.
RemovedIndexUnswapped(e) == [index_of EXCEPT ![e.id] = alive_count - 1]
RemovedIndex(e) ==
    [[index_of EXCEPT ![dense[alive_count - 1].id] = index_of[e.id]]
        EXCEPT ![e.id] = alive_count - 1]

\* flecs_entity_index_find_range: the range an id is in
\* Mutant: the first id of a range is not found in it.
RangesOfInner(id) == {r \in ranges : r.min < id /\ id <= r.max}
RangesOf(id) == {r \in ranges : In(r, id)}

\* ecs_delete, as far as the index goes: flecs_entity_index_remove, and
\* flecs_entity_ranges_on_delete.  An id that is not of the active range goes to
\* the list of its own, and the last of the dense vector takes its place.
Delete(e) ==
    /\ IsAlive(e)
    /\ alive_count' = alive_count - 1
    /\ LET d == RemovedDense(e)
           x == RemovedIndex(e)
           last == d[Len(d)]
       IN  IF InActiveRange(e.id)
           THEN dense' = d /\ index_of' = x /\ UNCHANGED recycled
           ELSE /\ dense' = SubSeq([d EXCEPT ![alive_count - 1] = last], 1, Len(d) - 1)
                /\ index_of' = [[x EXCEPT ![last.id] = alive_count - 1] EXCEPT ![e.id] = 0]
                /\ recycled' = [r \in Ranges |-> IF r \in RangesOf(e.id)
                                                 THEN Append(recycled[r], NextGeneration(e))
                                                 ELSE recycled[r]]
    /\ dead' = dead \cup {e}
    /\ forced' = (forced \/ e.gen = GenCount - 1)
    /\ UNCHANGED <<max_id, ranges, cur, active_range>>

Overlaps(r, s) == r.min <= s.max /\ r.max >= s.min

\* The last id that was issued of a new range
NewCur(r) == r.min - 1

\* ecs_entity_range_new.  The first range is activated if it begins with the
\* first id; if not, one with the ids before it is created, and activated.
RangeNew(r) ==
    LET first == ranges = {}
        default == [min |-> 1, max |-> r.min - 1]
    IN  /\ r \notin ranges
        /\ alive_count = Len(dense) + 1
        /\ \A s \in ranges : ~Overlaps(r, s)
        /\ first /\ r.min = 1 => r.max >= max_id
        /\ first /\ r.min > 1 => default \in Ranges
        \* The application leaves the ids of its ranges alone before.
        /\ \A id \in Ids : In(r, id) /\ index_of[id] # 0 => first /\ r.min = 1
        /\ first /\ r.min > 1 => max_id < r.min
        /\ ranges' = ranges \cup {r} \cup {s \in {default} : first /\ r.min > 1}
        /\ cur' = IF first /\ r.min = 1 THEN [cur EXCEPT ![r] = max_id]
                  ELSE IF first THEN [[cur EXCEPT ![r] = NewCur(r)] EXCEPT ![default] = max_id]
                  ELSE [cur EXCEPT ![r] = NewCur(r)]
        /\ active_range' = IF ~first THEN active_range ELSE IF r.min = 1 THEN r ELSE default
        /\ UNCHANGED <<indexVars, recycled, dead, forced>>

\* The lists of the ranges, when what can be recycled is put away in that of
\* the range that was active
Saved ==
    IF active_range = NoRange THEN recycled ELSE [recycled EXCEPT ![active_range] = NotAlive]

NotAliveIds == {NotAlive[k].id : k \in DOMAIN NotAlive}

\* ecs_entity_range_set, flecs_entity_index_set_range: the list of the new range
\* takes the place of what is put away.
RangeSet(r) ==
    LET loaded == Saved[r]
        saved_cur == IF active_range = NoRange THEN cur ELSE [cur EXCEPT ![active_range] = max_id]
    IN  /\ r \in ranges
        /\ dense' = SubSeq(dense, 1, alive_count - 1) \o loaded
        /\ index_of' = [id \in Ids |->
              IF \E k \in DOMAIN loaded : loaded[k].id = id
              THEN alive_count - 1 + (CHOOSE k \in DOMAIN loaded : loaded[k].id = id)
              ELSE IF id \in NotAliveIds THEN 0
              ELSE index_of[id]]
        /\ recycled' = [Saved EXCEPT ![r] = <<>>]
        /\ cur' = saved_cur
        /\ max_id' = saved_cur[r]
        /\ active_range' = r
        /\ UNCHANGED <<alive_count, ranges, dead, forced>>

Next ==
    \/ \E count \in 1 .. MaxBulk : NewIds(count)
    \/ \E e \in Entity : MakeAlive(e) \/ SetVersion(e) \/ Delete(e)
    \/ \E r \in Ranges : RangeNew(r) \/ RangeSet(r)

Spec == Init /\ [][Next]_vars
-----------------------------------------------------------------------------
(***************************************************************************)
(* Properties                                                                *)
(***************************************************************************)

\* The dense vector and the records point at each other (the assertions of
\* entity_index.c): no id is in the index twice, and each is found.
IndexConsistent ==
    /\ \A i \in 1 .. Len(dense) : index_of[dense[i].id] = i
    /\ \A id \in Ids : index_of[id] # 0 => dense[index_of[id]].id = id

\* The index is well typed and consistent.
IndexSound == TypeOK /\ IndexConsistent

\* What can be recycled is of the active range, "including recycled
\* identifiers" (ecs_entity_range_set); the ids a range that is not active has
\* put away are its own, are not in the index, and are in its list once.
RecycledInRange ==
    /\ active_range # NoRange => \A k \in DOMAIN NotAlive : In(active_range, NotAlive[k].id)
    /\ \A r \in ranges \ {active_range} : \A k \in DOMAIN recycled[r] :
          /\ In(r, recycled[r][k].id)
          /\ index_of[recycled[r][k].id] = 0
          /\ \A j \in DOMAIN recycled[r] : recycled[r][j].id = recycled[r][k].id => j = k

\* No id is lost: one that was alive and is not can be recycled when its range
\* is active.
DeadAreRecyclable ==
    \A e \in dead : (\E r \in ranges : In(r, e.id)) \/ ranges = {} =>
        \/ index_of[e.id] # 0
        \/ \E r \in ranges \ {active_range} : \E k \in DOMAIN recycled[r] : recycled[r][k].id = e.id

\* The index implements FlecsEntities: a handle that was kept never names
\* another entity, whichever ranges were active in between.
Entities == INSTANCE FlecsEntities WITH living <- Living
ImplementsEntities == Entities!FESpec

\* "When a range is activated, new entity identifiers will fall within the
\* specified [min, max] interval" (ecs_entity_range_set), as long as the last
\* of its ids were not used.
NewIdsInRange ==
    /\ active_range # NoRange
    /\ NotAlive = <<>>
    /\ index_of[active_range.max] = 0
    => In(active_range, max_id + 1)

\* What the active range can issue next, recycled or new, is its own.
IdsInRange == RecycledInRange /\ NewIdsInRange
=============================================================================
