------------------------ MODULE FlecsNetworkIdentity ------------------------
(***************************************************************************)
(* The authority's side of entity identity: the slot/generation allocator   *)
(* UDefaultFlecsNetworkIdGenerator and the two operations of                 *)
(* UFlecsNetworkWorldSubsystem that draw on it, BeginReplicatingEntity and   *)
(* StopReplicatingEntity, as the marker observers call them.  Everything     *)
(* here runs on the game thread, one call at a time, so a call is one step.  *)
(* The deferred Set/Remove of the FFlecsNetworkId component is applied       *)
(* before the next call (the command queue flushes at the end of the Flecs   *)
(* operation that fired the observer).                                      *)
(***************************************************************************)
EXTENDS Integers, Sequences, FiniteSets

CONSTANTS
    Entities,         \* the Flecs entities that may carry the replication marker
    GenerationCount,  \* values of the uint32 generation counter (2^32 in the code)
    MaxIssues,        \* bound: identities drawn from the generator in one session
    MaxSessions       \* bound: calls of ResetNetworkIdGenerator

ASSUME GenerationCountAssumption == GenerationCount \in Nat /\ GenerationCount > 1
ASSUME MaxIssuesAssumption == MaxIssues \in Nat
ASSUME MaxSessionsAssumption == MaxSessions \in Nat

VARIABLES
    freeSlotIds,          \* FreeSlotIds, the stack of released slots
    generations,          \* Generations, slot s at position s + 1
    networkIdToEntityMap, \* NetworkIdToEntityMap as a set of <<id, entity>> pairs
    entityNetworkId,      \* the FFlecsNetworkId component of each entity
    issued,               \* history: valid identities issued in this session
    draws,                \* GenerateNetworkId calls of this session (bound)
    sessions              \* resets so far (bound)

vars == <<freeSlotIds, generations, networkIdToEntityMap, entityNetworkId,
          issued, draws, sessions>>

-----------------------------------------------------------------------------
(* Identities: a 32-bit slot with a 32-bit generation above it.             *)

Generation == 0 .. GenerationCount - 1
NetworkId == [slot : Nat, generation : Generation]

\* FFlecsNetworkId's default value; IsValid is Value # 0, and Value is 0
\* exactly when both halves are.
NoNetworkId == [slot |-> 0, generation |-> 0]
IsValid(id) == id # NoNetworkId

GenerationOf(slot) == generations[slot + 1]

TypeOK ==
    /\ freeSlotIds \in Seq(Nat)
    /\ generations \in Seq(Generation)
    /\ networkIdToEntityMap \subseteq NetworkId \X Entities
    /\ entityNetworkId \in [Entities -> NetworkId]
    /\ issued \subseteq NetworkId
    /\ draws \in 0 .. MaxIssues
    /\ sessions \in 0 .. MaxSessions

Init ==
    /\ freeSlotIds = <<>>
    /\ generations = <<>>
    /\ networkIdToEntityMap = {}
    /\ entityNetworkId = [e \in Entities |-> NoNetworkId]
    /\ issued = {}
    /\ draws = 0
    /\ sessions = 0

-----------------------------------------------------------------------------
(* UDefaultFlecsNetworkIdGenerator                                           *)

\* Mutant: the generation counter is wider than the identity's field.
NextNetworkIdUnwrapped ==
    IF freeSlotIds # <<>>
    THEN LET slot == freeSlotIds[Len(freeSlotIds)]
         IN  [slot |-> slot, generation |-> GenerationOf(slot) + 1]
    ELSE [slot |-> Len(generations), generation |-> 1]

\* Mutant: a reused slot keeps its generation.
NextNetworkIdSameGeneration ==
    IF freeSlotIds # <<>>
    THEN LET slot == freeSlotIds[Len(freeSlotIds)]
         IN  [slot |-> slot, generation |-> GenerationOf(slot)]
    ELSE [slot |-> Len(generations), generation |-> 1]

\* The identity the next GenerateNetworkId returns: the slot released last
\* under its next generation, or a slot never used before, generation 1.
NextNetworkId ==
    IF freeSlotIds # <<>>
    THEN LET slot == freeSlotIds[Len(freeSlotIds)]
         IN  [slot |-> slot,
              generation |-> (GenerationOf(slot) + 1) % GenerationCount]
    ELSE [slot |-> Len(generations), generation |-> 1]

\* Mutant: the slot is read (Last) but stays on the stack.
GenerateNetworkIdKeepingSlot ==
    /\ generations' = IF freeSlotIds # <<>>
                      THEN [generations EXCEPT ![NextNetworkId.slot + 1] =
                                                   NextNetworkId.generation]
                      ELSE Append(generations, 1)
    /\ UNCHANGED freeSlotIds

GenerateNetworkId ==
    \/ /\ freeSlotIds # <<>>
       /\ freeSlotIds' = SubSeq(freeSlotIds, 1, Len(freeSlotIds) - 1)
       /\ generations' = [generations EXCEPT ![NextNetworkId.slot + 1] =
                                                  NextNetworkId.generation]
    \/ /\ freeSlotIds = <<>>
       /\ generations' = Append(generations, NextNetworkId.generation)
       /\ UNCHANGED freeSlotIds

\* Mutant: validity is taken from the slot instead of the whole value.
ReleaseNetworkIdBySlot(id) ==
    /\ freeSlotIds' = IF id.slot # 0 THEN Append(freeSlotIds, id.slot)
                                     ELSE freeSlotIds
    /\ UNCHANGED generations

\* ReleaseNetworkId pushes the slot; it refuses the invalid identity only.
ReleaseNetworkId(id) ==
    /\ freeSlotIds' = IF IsValid(id) THEN Append(freeSlotIds, id.slot)
                                     ELSE freeSlotIds
    /\ UNCHANGED generations

-----------------------------------------------------------------------------
(* UFlecsNetworkWorldSubsystem                                               *)

\* An entity that already has a valid identity keeps it.  Otherwise one is
\* drawn; a draw that yields the invalid identity is abandoned, and its slot
\* with it.
BeginReplicatingEntity(e) ==
    /\ draws < MaxIssues
    /\ ~IsValid(entityNetworkId[e])
    /\ draws' = draws + 1
    /\ GenerateNetworkId
    /\ \/ /\ IsValid(NextNetworkId)
          /\ entityNetworkId' = [entityNetworkId EXCEPT ![e] = NextNetworkId]
          /\ networkIdToEntityMap' =
               {p \in networkIdToEntityMap : p[1] # NextNetworkId}
                 \cup {<<NextNetworkId, e>>}
          /\ issued' = issued \cup {NextNetworkId}
       \/ /\ ~IsValid(NextNetworkId)
          /\ UNCHANGED <<entityNetworkId, networkIdToEntityMap, issued>>
    /\ UNCHANGED sessions

\* Mutant: the FFlecsNetworkId component stays on the entity.
StopReplicatingEntityKeepingComponent(e) ==
    LET id == entityNetworkId[e]
    IN  /\ IsValid(id)
        /\ \E p \in networkIdToEntityMap : p[1] = id
        /\ networkIdToEntityMap' = {p \in networkIdToEntityMap : p[1] # id}
        /\ ReleaseNetworkId(id)
        /\ UNCHANGED <<entityNetworkId, issued, draws, sessions>>

\* Nothing happens for an entity without a valid identity, or whose identity
\* the map does not hold.
StopReplicatingEntity(e) ==
    LET id == entityNetworkId[e]
    IN  /\ IsValid(id)
        /\ \E p \in networkIdToEntityMap : p[1] = id
        /\ networkIdToEntityMap' = {p \in networkIdToEntityMap : p[1] # id}
        /\ ReleaseNetworkId(id)
        /\ entityNetworkId' = [entityNetworkId EXCEPT ![e] = NoNetworkId]
        /\ UNCHANGED <<issued, draws, sessions>>

\* ResetNetworkIdGenerator, between sessions: nothing is being replicated.
ResetNetworkIdGenerator ==
    /\ sessions < MaxSessions
    /\ networkIdToEntityMap = {}
    /\ freeSlotIds' = <<>>
    /\ generations' = <<>>
    /\ issued' = {}
    /\ draws' = 0
    /\ sessions' = sessions + 1
    /\ UNCHANGED <<networkIdToEntityMap, entityNetworkId>>

Next ==
    \/ \E e \in Entities : BeginReplicatingEntity(e)
    \/ \E e \in Entities : StopReplicatingEntity(e)
    \/ ResetNetworkIdGenerator

Spec == Init /\ [][Next]_vars

-----------------------------------------------------------------------------
(* Properties                                                                *)

MappedIds == {p[1] : p \in networkIdToEntityMap}

FreeSlots == {freeSlotIds[i] : i \in 1 .. Len(freeSlotIds)}

\* Every slot on the free stack was allocated: Generations[Slot] in the next
\* GenerateNetworkId is within the array.
FreeSlotsAllocated == \A s \in FreeSlots : s < Len(generations)

\* No slot is on the free stack twice: two entities would be given it.
FreeSlotsDistinct ==
    \A i, j \in 1 .. Len(freeSlotIds) :
        freeSlotIds[i] = freeSlotIds[j] => i = j

\* A slot in use is not on the free stack, was allocated, and its identity
\* carries the slot's current generation.
MappedSlotsHeld ==
    \A id \in MappedIds :
        /\ id.slot \notin FreeSlots
        /\ id.slot < Len(generations)
        /\ id.generation = GenerationOf(id.slot)

\* The map and the entities' components agree, in both directions: an
\* identity named by a client leads to the entity that carries it.
MapMirrorsComponents ==
    /\ \A p \in networkIdToEntityMap :
          IsValid(p[1]) /\ entityNetworkId[p[2]] = p[1]
    /\ \A e \in Entities :
          IsValid(entityNetworkId[e])
              => <<entityNetworkId[e], e>> \in networkIdToEntityMap

\* Two entities that are replicating never share a slot, whatever the
\* generation counter has wrapped to (BeginReplicatingEntity's Add to
\* NetworkIdToEntityMap never replaces another entity's entry).
LiveSlotsUnique ==
    \A e1, e2 \in Entities :
        /\ IsValid(entityNetworkId[e1])
        /\ IsValid(entityNetworkId[e2])
        /\ entityNetworkId[e1].slot = entityNetworkId[e2].slot
        => e1 = e2

\* Before the generation counter can wrap, no slot is lost: each is on the free
\* stack or carried by an entity.
NoSlotLeaked ==
    draws < GenerationCount =>
        \A s \in 0 .. Len(generations) - 1 :
            s \in FreeSlots \/ \E id \in MappedIds : id.slot = s

\* The generator's account of its slots: a slot is on the free stack once, or in
\* use under its current generation, never both, and none is lost before the
\* counter can wrap.
SlotsAccounted == FreeSlotsDistinct /\ MappedSlotsHeld /\ NoSlotLeaked

IdentityInv ==
    /\ FreeSlotsAllocated
    /\ FreeSlotsDistinct
    /\ MappedSlotsHeld
    /\ MapMirrorsComponents
    /\ LiveSlotsUnique

\* Within a session, an identity handed out was never handed out before, so
\* a late record about the former owner of a slot cannot name the new one.
\* (The generator test for a released slot; the class comment of
\* FFlecsNetworkId.)  It holds for fewer draws than the counter has values.
NeverReissued ==
    [][\A e \in Entities :
         /\ draws' < GenerationCount
         /\ entityNetworkId'[e] # entityNetworkId[e]
         /\ IsValid(entityNetworkId'[e])
         => entityNetworkId'[e] \notin issued]_vars
=============================================================================
