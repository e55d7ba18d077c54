--------------------- MODULE FlecsNetworkIdentityProofs ---------------------
(***************************************************************************)
(* Theorems about FlecsNetworkIdentity, for every set of entities and every *)
(* width of the generation counter.                                         *)
(***************************************************************************)
EXTENDS FlecsNetworkIdentity, SequenceTheorems, TLAPS

\* The inductive invariant.  LiveSlotsUnique alone is not inductive: that a
\* drawn slot is not in use follows from what the free stack holds.
IInv == TypeOK /\ IdentityInv

-----------------------------------------------------------------------------
(* The free stack after a Pop, and a sequence after an element is added.     *)

\* Pop removes the last slot and keeps the others in their places.
LEMMA PopFacts ==
    ASSUME NEW s \in Seq(Nat), s # <<>>
    PROVE  /\ Len(s) \in Nat \ {0}
           /\ s[Len(s)] \in Nat
           /\ SubSeq(s, 1, Len(s) - 1) \in Seq(Nat)
           /\ Len(SubSeq(s, 1, Len(s) - 1)) = Len(s) - 1
           /\ \A i \in 1 .. Len(s) - 1 : SubSeq(s, 1, Len(s) - 1)[i] = s[i]
<1>1. Len(s) \in Nat \ {0}
  BY EmptySeq
<1>2. \A i \in 1 .. Len(s) : s[i] \in Nat
  BY ElementOfSeq
<1>3. \A i \in 1 .. Len(s) - 1 : s[i] \in Nat
  BY <1>1, <1>2
<1>4. /\ SubSeq(s, 1, Len(s) - 1) \in Seq(Nat)
      /\ Len(SubSeq(s, 1, Len(s) - 1)) =
           IF 1 <= Len(s) - 1 THEN (Len(s) - 1) - 1 + 1 ELSE 0
      /\ \A i \in 1 .. (Len(s) - 1) - 1 + 1 :
           SubSeq(s, 1, Len(s) - 1)[i] = s[1 + i - 1]
  BY <1>1, <1>3, SubSeqProperties
<1>5. \A i \in 1 .. Len(s) - 1 : SubSeq(s, 1, Len(s) - 1)[i] = s[i]
  BY <1>1, <1>4
<1>6. Len(SubSeq(s, 1, Len(s) - 1)) = Len(s) - 1
  <2>1. Len(SubSeq(s, 1, Len(s) - 1)) =
          IF 1 <= Len(s) - 1 THEN (Len(s) - 1) - 1 + 1 ELSE 0
    BY <1>4
  <2>2. CASE Len(s) = 1
    BY <2>1, <2>2
  <2>3. CASE Len(s) > 1
    <3>1. 1 <= Len(s) - 1
      BY <1>1, <2>3
    <3>2. (Len(s) - 1) - 1 + 1 = Len(s) - 1
      BY <1>1
    <3> QED
      BY <2>1, <3>1, <3>2
  <2>4. Len(s) = 1 \/ Len(s) > 1
    <3> SUFFICES \A n \in Nat \ {0} : n = 1 \/ n > 1
      BY <1>1
    <3> QED
      OBVIOUS
  <2> QED
    BY <2>2, <2>3, <2>4, Zenon
<1> QED
  BY <1>1, <1>2, <1>4, <1>5, <1>6

-----------------------------------------------------------------------------
(* One draw from the generator.                                              *)

\* What a caller of GenerateNetworkId relies on: the slot is in nobody's hands
\* and no longer on the free stack, and every other slot is as it was.
Drawn(id) ==
    /\ id \in NetworkId
    /\ \A m \in MappedIds : m.slot # id.slot
    /\ freeSlotIds' \in Seq(Nat)
    /\ generations' \in Seq(Generation)
    /\ FreeSlotsAllocated'
    /\ FreeSlotsDistinct'
    /\ FreeSlots' \subseteq FreeSlots
    /\ id.slot \notin FreeSlots'
    /\ id.slot < Len(generations')
    /\ generations'[id.slot + 1] = id.generation
    /\ Len(generations) <= Len(generations')
    /\ \A s \in Nat : s < Len(generations) /\ s # id.slot
                         => generations'[s + 1] = generations[s + 1]

\* GenerateNetworkId establishes Drawn, on the free stack and beyond it.
LEMMA DrawFacts ==
    ASSUME IInv, GenerateNetworkId
    PROVE  Drawn(NextNetworkId)
<1> DEFINE id == NextNetworkId
<1> USE DEF IInv, TypeOK, IdentityInv
<1>0. /\ Len(freeSlotIds) \in Nat
      /\ Len(generations) \in Nat
      /\ \A i \in 1 .. Len(generations) : generations[i] \in Generation
  BY LenProperties, ElementOfSeq
<1>1. CASE freeSlotIds # <<>>
  <2> DEFINE top == freeSlotIds[Len(freeSlotIds)]
  <2>1. /\ Len(freeSlotIds) \in Nat \ {0}
        /\ top \in Nat
        /\ freeSlotIds' \in Seq(Nat)
        /\ Len(freeSlotIds') = Len(freeSlotIds) - 1
        /\ \A i \in 1 .. Len(freeSlotIds) - 1 : freeSlotIds'[i] = freeSlotIds[i]
    BY <1>1, PopFacts DEF GenerateNetworkId
  <2>2. top \in FreeSlots
    BY <2>1 DEF FreeSlots
  <2>3. top < Len(generations) /\ top + 1 \in 1 .. Len(generations)
    BY <2>1, <2>2, <1>0 DEF FreeSlotsAllocated
  <2>4. id = [slot |-> top,
              generation |-> (generations[top + 1] + 1) % GenerationCount]
    BY <1>1 DEF NextNetworkId, GenerationOf
  <2>5. (generations[top + 1] + 1) % GenerationCount \in Generation
    <3> DEFINE next == generations[top + 1] + 1
    <3>1. next \in Nat
      BY <2>3, <1>0, GenerationCountAssumption, SMTT(30) DEF Generation
    <3> HIDE DEF next
    <3>2. next % GenerationCount \in 0 .. GenerationCount - 1
      BY <3>1, GenerationCountAssumption
    <3> QED
      BY <3>2 DEF next, Generation
  <2>6. id \in NetworkId /\ id.slot = top
    BY <2>1, <2>4, <2>5 DEF NetworkId
  <2>7. generations' = [generations EXCEPT ![top + 1] = id.generation]
    BY <1>1, <2>6 DEF GenerateNetworkId
  <2>8. /\ generations' \in Seq(Generation)
        /\ Len(generations') = Len(generations)
        /\ \A j \in 1 .. Len(generations) :
             generations'[j] = IF j = top + 1 THEN id.generation
                                             ELSE generations[j]
    BY <2>3, <2>5, <2>4, <2>7, ExceptSeq
  <2>9. FreeSlots' \subseteq FreeSlots
    BY <2>1, SMTT(30) DEF FreeSlots
  <2>10. top \notin FreeSlots'
    <3> SUFFICES ASSUME NEW i \in 1 .. Len(freeSlotIds) - 1,
                        freeSlotIds[i] = top
                 PROVE  FALSE
      BY <2>1 DEF FreeSlots
    <3> QED
      BY <2>1, SMTT(30) DEF FreeSlotsDistinct
  <2>11. FreeSlotsDistinct'
    <3>1. ASSUME NEW i \in 1 .. Len(freeSlotIds) - 1,
                 NEW j \in 1 .. Len(freeSlotIds) - 1,
                 freeSlotIds'[i] = freeSlotIds'[j]
          PROVE  i = j
      <4>1. freeSlotIds[i] = freeSlotIds[j]
        BY <2>1, <3>1
      <4>2. i \in 1 .. Len(freeSlotIds) /\ j \in 1 .. Len(freeSlotIds)
        BY <2>1, SMTT(30)
      <4> QED
        BY <4>1, <4>2 DEF FreeSlotsDistinct
    <3> QED
      BY <2>1, <3>1 DEF FreeSlotsDistinct
  <2>12. FreeSlotsAllocated'
    BY <2>8, <2>9 DEF FreeSlotsAllocated
  <2>13. \A m \in MappedIds : m.slot # top
    BY <2>2 DEF MappedSlotsHeld
  <2>14. \A s \in Nat : s < Len(generations) /\ s # top
                           => generations'[s + 1] = generations[s + 1]
    BY <1>0, <2>1, <2>8
  <2>15. generations'[top + 1] = id.generation
    BY <2>3, <2>8
  <2> QED
    BY <1>0, <2>1, <2>3, <2>6, <2>8, <2>9, <2>10, <2>11, <2>12, <2>13, <2>14,
       <2>15 DEF Drawn
<1>2. CASE freeSlotIds = <<>>
  <2>1. id = [slot |-> Len(generations), generation |-> 1]
    BY <1>2 DEF NextNetworkId
  <2>2. id \in NetworkId /\ id.slot = Len(generations) /\ id.generation = 1
    BY <1>0, <2>1, GenerationCountAssumption DEF NetworkId, Generation
  <2>3. generations' = Append(generations, 1) /\ freeSlotIds' = freeSlotIds
    BY <1>2, <2>2 DEF GenerateNetworkId
  <2>4. 1 \in Generation
    BY GenerationCountAssumption DEF Generation
  <2>5. /\ generations' \in Seq(Generation)
        /\ Len(generations') = Len(generations) + 1
        /\ \A i \in 1 .. Len(generations) : generations'[i] = generations[i]
        /\ generations'[Len(generations) + 1] = 1
    BY <2>3, <2>4, AppendProperties
  <2>6. FreeSlots = {} /\ FreeSlots' = {}
    BY <1>2, <2>3, EmptySeq DEF FreeSlots
  <2>7. \A m \in MappedIds : m.slot # id.slot
    <3> SUFFICES ASSUME NEW m \in MappedIds
                 PROVE  m.slot # Len(generations)
      BY <2>2
    <3>1. m.slot \in Nat /\ m.slot < Len(generations)
      BY DEF MappedSlotsHeld, MappedIds, NetworkId
    <3> QED
      BY <3>1, <1>0
  <2>8. FreeSlotsDistinct'
    BY <2>3 DEF FreeSlotsDistinct
  <2>9. FreeSlotsAllocated'
    BY <2>6 DEF FreeSlotsAllocated
  <2>10. \A s \in Nat : s < Len(generations)
                           => generations'[s + 1] = generations[s + 1]
    BY <1>0, <2>5
  <2> QED
    BY <1>0, <2>2, <2>3, <2>5, <2>6, <2>7, <2>8, <2>9, <2>10 DEF Drawn
<1> QED
  BY <1>1, <1>2

-----------------------------------------------------------------------------
(* The invariant.                                                            *)

\* Nothing is replicating before the first call.
LEMMA InitIInv == Init => IInv
<1> SUFFICES ASSUME Init PROVE IInv
  OBVIOUS
<1>1. TypeOK
  BY EmptySeq, MaxIssuesAssumption, MaxSessionsAssumption,
     GenerationCountAssumption
     DEF Init, TypeOK, NetworkId, Generation, NoNetworkId
<1>2. IdentityInv
  BY EmptySeq DEF Init, IdentityInv, FreeSlotsAllocated, FreeSlotsDistinct,
     MappedSlotsHeld, MapMirrorsComponents, LiveSlotsUnique, FreeSlots,
     MappedIds, IsValid
<1> QED
  BY <1>1, <1>2 DEF IInv

\* BeginReplicatingEntity: the drawn identity joins identities of other slots.
LEMMA BeginIInv ==
    ASSUME IInv, NEW e \in Entities, BeginReplicatingEntity(e)
    PROVE  IInv'
<1> DEFINE id == NextNetworkId
<1>0. Drawn(id)
  BY DrawFacts DEF BeginReplicatingEntity
<1>1. draws' \in 0 .. MaxIssues /\ sessions' = sessions
  BY MaxIssuesAssumption DEF BeginReplicatingEntity, IInv, TypeOK
<1>2. CASE ~IsValid(id)
  <2>1. /\ entityNetworkId' = entityNetworkId
        /\ networkIdToEntityMap' = networkIdToEntityMap
        /\ issued' = issued
    BY <1>2 DEF BeginReplicatingEntity
  <2>2. TypeOK'
    BY <1>0, <1>1, <2>1 DEF IInv, TypeOK, Drawn
  <2>3. MappedSlotsHeld'
    <3> SUFFICES ASSUME NEW m \in MappedIds
                 PROVE  /\ m.slot \notin FreeSlots'
                        /\ m.slot < Len(generations')
                        /\ m.generation = generations'[m.slot + 1]
      BY <2>1 DEF MappedSlotsHeld, MappedIds, GenerationOf
    <3>1. m.slot \in Nat /\ m.slot < Len(generations) /\ m.slot # id.slot
      BY <1>0 DEF IInv, TypeOK, IdentityInv, MappedSlotsHeld, MappedIds,
                  NetworkId, Drawn
    <3>2. Len(generations) \in Nat /\ Len(generations') \in Nat
      BY <1>0, LenProperties DEF IInv, TypeOK, Drawn
    <3> QED
      BY <1>0, <3>1, <3>2 DEF Drawn, IInv, IdentityInv, MappedSlotsHeld,
                              GenerationOf
  <2>4. MapMirrorsComponents' /\ LiveSlotsUnique'
    BY <2>1 DEF IInv, IdentityInv, MapMirrorsComponents, LiveSlotsUnique
  <2> QED
    BY <1>0, <2>2, <2>3, <2>4 DEF IInv, IdentityInv, Drawn
<1>3. CASE IsValid(id)
  <2>1. /\ entityNetworkId' = [entityNetworkId EXCEPT ![e] = id]
        /\ networkIdToEntityMap' =
             {p \in networkIdToEntityMap : p[1] # id} \cup {<<id, e>>}
        /\ issued' = issued \cup {id}
        /\ ~IsValid(entityNetworkId[e])
    BY <1>3 DEF BeginReplicatingEntity
  <2>2. id \in NetworkId /\ entityNetworkId \in [Entities -> NetworkId]
    BY <1>0 DEF Drawn, IInv, TypeOK
  <2>3. TypeOK'
    BY <1>0, <1>1, <2>1, <2>2 DEF IInv, TypeOK, Drawn
  <2>4. MappedSlotsHeld'
    <3> SUFFICES ASSUME NEW m \in MappedIds'
                 PROVE  /\ m.slot \notin FreeSlots'
                        /\ m.slot < Len(generations')
                        /\ m.generation = generations'[m.slot + 1]
      BY DEF MappedSlotsHeld, GenerationOf
    <3>1. CASE m = id
      BY <1>0, <3>1 DEF Drawn
    <3>2. CASE m # id
      <4>1. m \in MappedIds
        BY <2>1, <3>2 DEF MappedIds
      <4>2. m.slot \in Nat /\ m.slot < Len(generations) /\ m.slot # id.slot
        BY <1>0, <4>1 DEF IInv, TypeOK, IdentityInv, MappedSlotsHeld,
                          MappedIds, NetworkId, Drawn
      <4>3. Len(generations) \in Nat /\ Len(generations') \in Nat
        BY <1>0, LenProperties DEF IInv, TypeOK, Drawn
      <4> QED
        BY <1>0, <4>1, <4>2, <4>3 DEF Drawn, IInv, IdentityInv,
                                      MappedSlotsHeld, GenerationOf
    <3> QED
      BY <3>1, <3>2
  <2>5. id \notin MappedIds
    BY <1>0 DEF Drawn
  <2>6. \A f \in Entities : f # e => entityNetworkId'[f] = entityNetworkId[f]
    BY <2>1, <2>2
  <2>7. entityNetworkId'[e] = id
    BY <2>1, <2>2
  <2>8. \A p \in networkIdToEntityMap : p[2] # e
    BY <2>1 DEF IInv, IdentityInv, MapMirrorsComponents
  <2>9. networkIdToEntityMap \subseteq NetworkId \X Entities
    BY DEF IInv, TypeOK
  <2>10. MapMirrorsComponents'
    <3>1. ASSUME NEW p \in networkIdToEntityMap'
          PROVE  IsValid(p[1]) /\ entityNetworkId'[p[2]] = p[1]
      <4>1. CASE p = <<id, e>>
        BY <4>1, <1>3, <2>7
      <4>2. CASE p \in networkIdToEntityMap
        BY <4>2, <2>6, <2>8, <2>9 DEF IInv, IdentityInv, MapMirrorsComponents
      <4> QED
        BY <2>1, <4>1, <4>2
    <3>2. ASSUME NEW f \in Entities, IsValid(entityNetworkId'[f])
          PROVE  <<entityNetworkId'[f], f>> \in networkIdToEntityMap'
      <4>1. CASE f = e
        BY <4>1, <2>1, <2>7
      <4>2. CASE f # e
        <5>1. <<entityNetworkId[f], f>> \in networkIdToEntityMap
          BY <4>2, <3>2, <2>6 DEF IInv, IdentityInv, MapMirrorsComponents
        <5>2. entityNetworkId[f] # id
          BY <5>1, <2>5 DEF MappedIds
        <5> QED
          BY <4>2, <5>1, <5>2, <2>1, <2>6
      <4> QED
        BY <4>1, <4>2
    <3> QED
      BY <3>1, <3>2 DEF MapMirrorsComponents, IsValid
  <2>11. LiveSlotsUnique'
    <3>1. ASSUME NEW f \in Entities, f # e, IsValid(entityNetworkId[f])
          PROVE  entityNetworkId[f].slot # id.slot
      <4>1. entityNetworkId[f] \in MappedIds
        BY <3>1 DEF IInv, IdentityInv, MapMirrorsComponents, MappedIds
      <4> QED
        BY <4>1, <1>0 DEF Drawn
    <3> QED
      BY <3>1, <2>6, <2>7 DEF LiveSlotsUnique, IInv, IdentityInv, IsValid
  <2> QED
    BY <1>0, <2>3, <2>4, <2>10, <2>11 DEF IInv, IdentityInv, Drawn
<1> QED
  BY <1>2, <1>3

\* StopReplicatingEntity: the slot leaves the map and joins the free stack.
LEMMA StopIInv ==
    ASSUME IInv, NEW e \in Entities, StopReplicatingEntity(e)
    PROVE  IInv'
<1> DEFINE id == entityNetworkId[e]
<1>1. /\ IsValid(id)
      /\ id \in MappedIds
      /\ networkIdToEntityMap' = {p \in networkIdToEntityMap : p[1] # id}
      /\ freeSlotIds' = Append(freeSlotIds, id.slot)
      /\ generations' = generations
      /\ entityNetworkId' = [entityNetworkId EXCEPT ![e] = NoNetworkId]
      /\ UNCHANGED <<issued, draws, sessions>>
  BY DEF StopReplicatingEntity, ReleaseNetworkId, MappedIds
<1>2. /\ id \in NetworkId
      /\ id.slot \in Nat
      /\ entityNetworkId \in [Entities -> NetworkId]
      /\ networkIdToEntityMap \subseteq NetworkId \X Entities
  BY DEF IInv, TypeOK, NetworkId
<1>3. /\ freeSlotIds' \in Seq(Nat)
      /\ Len(freeSlotIds') = Len(freeSlotIds) + 1
      /\ \A i \in 1 .. Len(freeSlotIds) : freeSlotIds'[i] = freeSlotIds[i]
      /\ freeSlotIds'[Len(freeSlotIds) + 1] = id.slot
      /\ Len(freeSlotIds) \in Nat
  BY <1>1, <1>2, AppendProperties, LenProperties DEF IInv, TypeOK
<1>4. NoNetworkId \in NetworkId
  BY GenerationCountAssumption DEF NetworkId, NoNetworkId, Generation
<1>5. TypeOK'
  BY <1>1, <1>2, <1>3, <1>4 DEF IInv, TypeOK
<1>6. id.slot \notin FreeSlots /\ id.slot < Len(generations)
  BY <1>1 DEF IInv, IdentityInv, MappedSlotsHeld
<1>7. FreeSlots' = FreeSlots \cup {id.slot}
  BY <1>3 DEF FreeSlots
<1>8. FreeSlotsAllocated'
  BY <1>1, <1>6, <1>7 DEF FreeSlotsAllocated, IInv, IdentityInv
<1>9. FreeSlotsDistinct'
  <2>1. \A i \in 1 .. Len(freeSlotIds) : freeSlotIds[i] # id.slot
    BY <1>6 DEF FreeSlots
  <2>2. ASSUME NEW i \in 1 .. Len(freeSlotIds'), NEW j \in 1 .. Len(freeSlotIds'),
               freeSlotIds'[i] = freeSlotIds'[j]
        PROVE  i = j
    <3>1. CASE i \in 1 .. Len(freeSlotIds) /\ j \in 1 .. Len(freeSlotIds)
      BY <2>2, <3>1, <1>3 DEF FreeSlotsDistinct, IInv, IdentityInv
    <3>2. CASE i = Len(freeSlotIds) + 1 \/ j = Len(freeSlotIds) + 1
      BY <2>1, <2>2, <3>2, <1>3
    <3> QED
      BY <3>1, <3>2, <1>3
  <2> QED
    BY <2>2 DEF FreeSlotsDistinct
<1>10. MappedSlotsHeld'
  <2> SUFFICES ASSUME NEW m \in MappedIds'
               PROVE  /\ m.slot \notin FreeSlots'
                      /\ m.slot < Len(generations)
                      /\ m.generation = generations[m.slot + 1]
    BY <1>1 DEF MappedSlotsHeld, GenerationOf
  <2>1. m \in MappedIds /\ m # id
    BY <1>1 DEF MappedIds
  <2>2. m \in NetworkId
    BY <2>1, <1>2 DEF MappedIds
  <2>3. m.slot # id.slot
    <3> SUFFICES ASSUME m.slot = id.slot PROVE FALSE
      OBVIOUS
    <3>1. m.generation = id.generation
      BY <1>1, <2>1 DEF IInv, IdentityInv, MappedSlotsHeld, GenerationOf
    <3> QED
      BY <3>1, <1>2, <2>1, <2>2 DEF NetworkId
  <2> QED
    BY <2>1, <2>3, <1>7 DEF IInv, IdentityInv, MappedSlotsHeld, GenerationOf
<1>11. /\ entityNetworkId'[e] = NoNetworkId
       /\ \A f \in Entities : f # e => entityNetworkId'[f] = entityNetworkId[f]
  BY <1>1, <1>2
<1>12. \A f \in Entities : f # e => entityNetworkId[f] # id
  BY <1>1 DEF IInv, IdentityInv, LiveSlotsUnique
<1>13. MapMirrorsComponents'
  <2>1. ASSUME NEW p \in networkIdToEntityMap'
        PROVE  IsValid(p[1]) /\ entityNetworkId'[p[2]] = p[1]
    <3>1. p \in networkIdToEntityMap /\ p[1] # id /\ p[2] \in Entities
      BY <1>1, <1>2
    <3>2. IsValid(p[1]) /\ entityNetworkId[p[2]] = p[1]
      BY <3>1 DEF IInv, IdentityInv, MapMirrorsComponents
    <3> QED
      BY <3>1, <3>2, <1>11
  <2>2. ASSUME NEW f \in Entities, IsValid(entityNetworkId'[f])
        PROVE  <<entityNetworkId'[f], f>> \in networkIdToEntityMap'
    <3>1. f # e
      BY <2>2, <1>11 DEF IsValid
    <3>2. <<entityNetworkId[f], f>> \in networkIdToEntityMap
      BY <2>2, <3>1, <1>11 DEF IInv, IdentityInv, MapMirrorsComponents
    <3> QED
      BY <3>1, <3>2, <1>1, <1>11, <1>12
  <2> QED
    BY <2>1, <2>2 DEF MapMirrorsComponents, IsValid
<1>14. LiveSlotsUnique'
  BY <1>11 DEF IInv, IdentityInv, LiveSlotsUnique, IsValid
<1> QED
  BY <1>5, <1>8, <1>9, <1>10, <1>13, <1>14 DEF IInv, IdentityInv

\* ResetNetworkIdGenerator: with nothing mapped, no entity has an identity.
LEMMA ResetIInv ==
    ASSUME IInv, ResetNetworkIdGenerator
    PROVE  IInv'
<1> USE DEF ResetNetworkIdGenerator
<1>1. TypeOK'
  BY EmptySeq, MaxIssuesAssumption, MaxSessionsAssumption DEF IInv, TypeOK
<1>2. IdentityInv'
  BY EmptySeq DEF IInv, IdentityInv, FreeSlotsAllocated, FreeSlotsDistinct,
     MappedSlotsHeld, MapMirrorsComponents, LiveSlotsUnique, FreeSlots,
     MappedIds, IsValid
<1> QED
  BY <1>1, <1>2 DEF IInv

\* Every step of the specification keeps the invariant.
LEMMA NextIInv == IInv /\ [Next]_vars => IInv'
<1> SUFFICES ASSUME IInv, [Next]_vars PROVE IInv'
  OBVIOUS
<1>1. CASE UNCHANGED vars
  <2>1. TypeOK'
    BY <1>1 DEF vars, IInv, TypeOK
  <2>2. IdentityInv'
    BY <1>1 DEF vars, IInv, IdentityInv, FreeSlotsAllocated,
       FreeSlotsDistinct, MappedSlotsHeld, MapMirrorsComponents,
       LiveSlotsUnique, FreeSlots, MappedIds, GenerationOf
  <2> QED
    BY <2>1, <2>2 DEF IInv
<1>2. ASSUME NEW e \in Entities, BeginReplicatingEntity(e) PROVE IInv'
  BY <1>2, BeginIInv
<1>3. ASSUME NEW e \in Entities, StopReplicatingEntity(e) PROVE IInv'
  BY <1>3, StopIInv
<1>4. CASE ResetNetworkIdGenerator
  BY <1>4, ResetIInv
<1> QED
  BY <1>1, <1>2, <1>3, <1>4 DEF Next

\* The invariant holds in every reachable state.
LEMMA SpecIInv == Spec => []IInv
<1> QED
  BY InitIInv, NextIInv, PTL DEF Spec

-----------------------------------------------------------------------------
(* What the invariant says.                                                  *)

\* The state of the generator and of the subsystem's map stays well formed.
THEOREM IdentityTypeCorrect == Spec => []TypeOK
  BY SpecIInv, PTL DEF IInv

\* Two entities that replicate at the same time never share a slot, even
\* after the generation counter has wrapped: StopReplicatingEntity releases
\* only identities the map holds, so no slot is freed twice.
THEOREM LiveSlotsAreUnique == Spec => []LiveSlotsUnique
<1>1. IInv => LiveSlotsUnique
  BY DEF IInv, IdentityInv
<1> QED
  BY <1>1, SpecIInv, PTL

\* NetworkIdToEntityMap and the FFlecsNetworkId components never disagree.
THEOREM MapAlwaysMirrorsComponents == Spec => []MapMirrorsComponents
<1>1. IInv => MapMirrorsComponents
  BY DEF IInv, IdentityInv
<1> QED
  BY <1>1, SpecIInv, PTL

-----------------------------------------------------------------------------
(* Identities are not issued twice in a session.                             *)

\* The generation of a slot counts the draws that returned it, and no issued
\* identity is ahead of its slot.
SlotsCountDraws ==
    /\ \A s \in Nat : s < Len(generations) => generations[s + 1] <= draws
    /\ \A id \in issued : /\ id.slot < Len(generations)
                         /\ id.generation <= generations[id.slot + 1]

IssueInv ==
    /\ IInv
    /\ draws < GenerationCount => SlotsCountDraws

\* Below the width of the counter a draw never wraps, and its identity is
\* ahead of all those issued for the slot.
LEMMA DrawIsNew ==
    ASSUME IInv, SlotsCountDraws, draws + 1 < GenerationCount,
           GenerateNetworkId, draws' = draws + 1
    PROVE  /\ NextNetworkId \notin issued
           /\ \A s \in Nat : s < Len(generations')
                              => generations'[s + 1] <= draws'
           /\ \A id \in issued : /\ id.slot < Len(generations')
                                /\ id.generation <= generations'[id.slot + 1]
           /\ NextNetworkId.generation <= generations'[NextNetworkId.slot + 1]
           /\ NextNetworkId.slot < Len(generations')
<1> DEFINE id == NextNetworkId
<1>0. /\ Drawn(id)
      /\ Len(freeSlotIds) \in Nat
      /\ Len(generations) \in Nat
      /\ draws \in Nat
      /\ MaxIssues \in Nat
      /\ \A i \in 1 .. Len(generations) : generations[i] \in Nat
      /\ issued \subseteq NetworkId
  <2>1. IInv /\ TypeOK
    BY DEF IInv
  <2>2. Drawn(id)
    BY <2>1, DrawFacts
  <2>3. Len(freeSlotIds) \in Nat /\ Len(generations) \in Nat
    BY <2>1, LenProperties DEF TypeOK
  <2>4. \A i \in 1 .. Len(generations) : generations[i] \in Generation
    BY <2>1, ElementOfSeq DEF TypeOK
  <2>5. Generation \subseteq Nat
    BY GenerationCountAssumption DEF Generation
  <2>6. draws \in Nat /\ MaxIssues \in Nat /\ issued \subseteq NetworkId
    BY <2>1, MaxIssuesAssumption DEF TypeOK
  <2> QED
    BY <2>2, <2>3, <2>4, <2>5, <2>6
<1>1. CASE freeSlotIds # <<>>
  <2> DEFINE top == freeSlotIds[Len(freeSlotIds)]
  <2>1. top \in Nat /\ Len(freeSlotIds) \in Nat \ {0}
    BY <1>1, PopFacts DEF IInv, TypeOK
  <2>2. top < Len(generations) /\ top + 1 \in 1 .. Len(generations)
    <3>1. top \in FreeSlots
      BY <2>1 DEF FreeSlots
    <3>2. top < Len(generations)
      BY <3>1 DEF IInv, IdentityInv, FreeSlotsAllocated
    <3> QED
      BY <1>0, <2>1, <3>2
  <2>3. generations[top + 1] \in Nat /\ generations[top + 1] <= draws
    BY <1>0, <2>1, <2>2 DEF SlotsCountDraws
  <2>4. (generations[top + 1] + 1) % GenerationCount = generations[top + 1] + 1
    <3> DEFINE next == generations[top + 1] + 1
    <3>1. next \in Nat /\ next < GenerationCount /\ GenerationCount \in Nat
      BY <1>0, <2>3, GenerationCountAssumption
    <3> HIDE DEF next
    <3>2. next % GenerationCount = next
      BY <3>1
    <3> QED
      BY <3>2 DEF next
  <2>5. id.slot = top /\ id.generation = generations[top + 1] + 1
    BY <1>1, <2>4 DEF NextNetworkId, GenerationOf
  <2>6. generations' = [generations EXCEPT ![top + 1] = id.generation]
    BY <1>1, <2>5 DEF GenerateNetworkId
  <2>7. id.generation \in Generation
    BY <1>0 DEF Drawn, NetworkId
  <2>8. /\ Len(generations') = Len(generations)
        /\ \A j \in 1 .. Len(generations) :
             generations'[j] = IF j = top + 1 THEN id.generation
                                             ELSE generations[j]
    BY <2>2, <2>6, <2>7, ExceptSeq DEF IInv, TypeOK
  <2>9. id \notin issued
    BY <2>2, <2>3, <2>5 DEF SlotsCountDraws
  <2>10. \A s \in Nat : s < Len(generations') => generations'[s + 1] <= draws'
    <3> SUFFICES ASSUME NEW s \in Nat, s < Len(generations)
                 PROVE  generations'[s + 1] <= draws + 1
      BY <2>8
    <3>1. s + 1 \in 1 .. Len(generations)
      BY <1>0
    <3>2. generations[s + 1] \in Nat /\ generations[s + 1] <= draws
      BY <1>0, <3>1 DEF SlotsCountDraws
    <3> QED
      BY <1>0, <2>3, <2>5, <2>8, <3>1, <3>2
  <2>11. ASSUME NEW m \in issued
         PROVE  /\ m.slot < Len(generations')
                /\ m.generation <= generations'[m.slot + 1]
    <3>1. m.slot \in Nat /\ m.generation \in Nat
      BY <1>0 DEF NetworkId, Generation
    <3>2. m.slot < Len(generations) /\ m.generation <= generations[m.slot + 1]
      BY DEF SlotsCountDraws
    <3>3. m.slot + 1 \in 1 .. Len(generations)
      BY <1>0, <3>1, <3>2
    <3>4. m.slot < Len(generations')
      BY <2>8, <3>2
    <3>5. CASE m.slot = top
      <4>1. generations'[m.slot + 1] = generations[top + 1] + 1
        BY <2>2, <2>5, <2>8, <3>5
      <4>2. m.generation <= generations[top + 1]
        BY <3>2, <3>5
      <4> QED
        BY <2>3, <3>1, <3>4, <4>1, <4>2
    <3>6. CASE m.slot # top
      <4>1. m.slot + 1 # top + 1
        BY <2>1, <3>1, <3>6
      <4>2. generations'[m.slot + 1] = generations[m.slot + 1]
        BY <2>8, <3>3, <4>1
      <4> QED
        BY <3>2, <3>4, <4>2
    <3> QED
      BY <3>5, <3>6
  <2>12. id.generation <= generations'[id.slot + 1] /\ id.slot < Len(generations')
    BY <2>2, <2>3, <2>5, <2>8
  <2> QED
    BY <2>9, <2>10, <2>11, <2>12
<1>2. CASE freeSlotIds = <<>>
  <2>1. id.slot = Len(generations) /\ id.generation = 1
    BY <1>2 DEF NextNetworkId
  <2>2. generations' = Append(generations, 1) /\ 1 \in Generation
    BY <1>2, <2>1, GenerationCountAssumption DEF GenerateNetworkId, Generation
  <2>3. /\ Len(generations') = Len(generations) + 1
        /\ \A i \in 1 .. Len(generations) : generations'[i] = generations[i]
        /\ generations'[Len(generations) + 1] = 1
    BY <2>2, AppendProperties DEF IInv, TypeOK
  <2>4. id \notin issued
    BY <1>0, <2>1 DEF SlotsCountDraws
  <2>5. \A s \in Nat : s < Len(generations') => generations'[s + 1] <= draws'
    <3> SUFFICES ASSUME NEW s \in Nat, s < Len(generations) + 1
                 PROVE  generations'[s + 1] <= draws + 1
      BY <2>3
    <3>1. CASE s = Len(generations)
      BY <1>0, <2>3, <3>1
    <3>2. CASE s < Len(generations)
      <4>1. s + 1 \in 1 .. Len(generations)
        BY <1>0, <3>2
      <4>2. generations[s + 1] \in Nat /\ generations[s + 1] <= draws
        BY <1>0, <3>2, <4>1 DEF SlotsCountDraws
      <4> QED
        BY <1>0, <2>3, <4>1, <4>2
    <3> QED
      BY <1>0, <3>1, <3>2
  <2>6. ASSUME NEW m \in issued
        PROVE  /\ m.slot < Len(generations')
               /\ m.generation <= generations'[m.slot + 1]
    <3>1. m.slot \in Nat
      BY <1>0 DEF NetworkId
    <3>2. m.slot < Len(generations) /\ m.generation <= generations[m.slot + 1]
      BY DEF SlotsCountDraws
    <3>3. m.slot + 1 \in 1 .. Len(generations)
      BY <1>0, <3>1, <3>2
    <3> QED
      BY <1>0, <2>3, <3>1, <3>2, <3>3
  <2>7. id.generation <= generations'[id.slot + 1] /\ id.slot < Len(generations')
    BY <1>0, <2>1, <2>3
  <2> QED
    BY <2>4, <2>5, <2>6, <2>7
<1> QED
  BY <1>1, <1>2

\* IssueInv is inductive: a step that does not wrap the counter starts where
\* it had not wrapped.
LEMMA NextIssueInv == IssueInv /\ [Next]_vars => IssueInv'
<1> SUFFICES ASSUME IssueInv, [Next]_vars
             PROVE  IssueInv'
  OBVIOUS
<1>0. /\ IInv /\ IInv'
      /\ draws \in Nat /\ GenerationCount \in Nat
  BY NextIInv, GenerationCountAssumption DEF IssueInv, IInv, TypeOK
<1> SUFFICES ASSUME draws' < GenerationCount
             PROVE  SlotsCountDraws'
  BY <1>0 DEF IssueInv
<1>1. CASE UNCHANGED vars
  BY <1>0, <1>1 DEF IssueInv, SlotsCountDraws, vars
<1>2. ASSUME NEW e \in Entities, BeginReplicatingEntity(e) PROVE SlotsCountDraws'
  <2>1. draws' = draws + 1 /\ draws < GenerationCount /\ draws + 1 < GenerationCount
    BY <1>0, <1>2 DEF BeginReplicatingEntity
  <2>2. /\ \A s \in Nat : s < Len(generations') => generations'[s + 1] <= draws'
        /\ \A id \in issued : /\ id.slot < Len(generations')
                             /\ id.generation <= generations'[id.slot + 1]
        /\ NextNetworkId.generation <= generations'[NextNetworkId.slot + 1]
        /\ NextNetworkId.slot < Len(generations')
    BY <1>0, <1>2, <2>1, DrawIsNew DEF IssueInv, BeginReplicatingEntity
  <2>3. issued' = issued \/ issued' = issued \cup {NextNetworkId}
    BY <1>2 DEF BeginReplicatingEntity
  <2> QED
    BY <2>2, <2>3 DEF SlotsCountDraws
<1>3. ASSUME NEW e \in Entities, StopReplicatingEntity(e) PROVE SlotsCountDraws'
  BY <1>3 DEF IssueInv, SlotsCountDraws, StopReplicatingEntity, ReleaseNetworkId
<1>4. CASE ResetNetworkIdGenerator
  BY <1>4, EmptySeq DEF SlotsCountDraws, ResetNetworkIdGenerator
<1> QED
  BY <1>1, <1>2, <1>3, <1>4 DEF Next

\* Every identity BeginReplicatingEntity gives to an entity is new in its
\* session, until the session has drawn as many as the counter has values.
THEOREM IdentitiesNeverReissued == Spec => NeverReissued
<1> DEFINE Fresh ==
      \A e \in Entities :
         /\ draws' < GenerationCount
         /\ entityNetworkId'[e] # entityNetworkId[e]
         /\ IsValid(entityNetworkId'[e])
         => entityNetworkId'[e] \notin issued
<1>1. Init => IssueInv
  BY InitIInv, EmptySeq DEF Init, IssueInv, SlotsCountDraws
<1>2. IssueInv /\ [Next]_vars => IssueInv'
  BY NextIssueInv
<1>3. IssueInv /\ [Next]_vars => [Fresh]_vars
  <2> SUFFICES ASSUME IssueInv, Next, NEW e \in Entities,
                      draws' < GenerationCount,
                      entityNetworkId'[e] # entityNetworkId[e],
                      IsValid(entityNetworkId'[e])
               PROVE  entityNetworkId'[e] \notin issued
    BY DEF vars
  <2>0. /\ entityNetworkId \in [Entities -> NetworkId]
        /\ draws \in Nat /\ GenerationCount \in Nat /\ IInv
    BY GenerationCountAssumption DEF IssueInv, IInv, TypeOK
  <2>1. ASSUME NEW f \in Entities, BeginReplicatingEntity(f)
        PROVE  entityNetworkId'[e] \notin issued
    <3>0. draws' = draws + 1 /\ draws < GenerationCount /\ draws + 1 < GenerationCount
      BY <2>0, <2>1 DEF BeginReplicatingEntity
    <3>1. NextNetworkId \notin issued
      BY <2>0, <2>1, <3>0, DrawIsNew DEF IssueInv, BeginReplicatingEntity
    <3>2. entityNetworkId'[e] = NextNetworkId
      BY <2>0, <2>1 DEF BeginReplicatingEntity
    <3> QED
      BY <3>1, <3>2
  <2>2. ASSUME NEW f \in Entities, StopReplicatingEntity(f)
        PROVE  FALSE
    BY <2>0, <2>2 DEF StopReplicatingEntity, IsValid
  <2>3. CASE ResetNetworkIdGenerator
    BY <2>3 DEF ResetNetworkIdGenerator
  <2> QED
    BY <2>1, <2>2, <2>3 DEF Next
<1> QED
  BY <1>1, <1>2, <1>3, PTL DEF Spec, NeverReissued

-----------------------------------------------------------------------------
(* No slot is lost while the generation counter cannot wrap.                 *)

\* A draw below the width of the counter is a valid identity, takes no other
\* slot from the free stack, and allocates none but its own.
LEMMA DrawIsValid ==
    ASSUME IInv, SlotsCountDraws, draws + 1 < GenerationCount, GenerateNetworkId
    PROVE  /\ IsValid(NextNetworkId)
           /\ \A s \in FreeSlots : s = NextNetworkId.slot \/ s \in FreeSlots'
           /\ \A s \in Nat : s < Len(generations') =>
                 s = NextNetworkId.slot \/ s < Len(generations)
<1> DEFINE id == NextNetworkId
<1>0. /\ TypeOK
      /\ Len(freeSlotIds) \in Nat
      /\ Len(generations) \in Nat
      /\ draws \in Nat
      /\ \A i \in 1 .. Len(generations) : generations[i] \in Nat
  <2>1. TypeOK
    BY DEF IInv
  <2>2. Len(freeSlotIds) \in Nat /\ Len(generations) \in Nat
    BY <2>1, LenProperties DEF TypeOK
  <2>3. \A i \in 1 .. Len(generations) : generations[i] \in Nat
    BY <2>1, ElementOfSeq, GenerationCountAssumption DEF TypeOK, Generation
  <2>4. draws \in Nat
    BY <2>1, MaxIssuesAssumption DEF TypeOK
  <2> QED
    BY <2>1, <2>2, <2>3, <2>4
<1>1. CASE freeSlotIds # <<>>
  <2> DEFINE top == freeSlotIds[Len(freeSlotIds)]
  <2>1. /\ top \in Nat /\ Len(freeSlotIds) \in Nat \ {0}
        /\ freeSlotIds' = SubSeq(freeSlotIds, 1, Len(freeSlotIds) - 1)
        /\ Len(freeSlotIds') = Len(freeSlotIds) - 1
        /\ \A i \in 1 .. Len(freeSlotIds) - 1 : freeSlotIds'[i] = freeSlotIds[i]
    BY <1>0, <1>1, PopFacts DEF TypeOK, GenerateNetworkId
  <2>2. top < Len(generations) /\ top + 1 \in 1 .. Len(generations)
    <3>1. top \in FreeSlots
      BY <2>1 DEF FreeSlots
    <3>2. top < Len(generations)
      BY <3>1 DEF IInv, IdentityInv, FreeSlotsAllocated
    <3> QED
      BY <1>0, <2>1, <3>2
  <2>3. generations[top + 1] \in Nat /\ generations[top + 1] <= draws
    BY <1>0, <2>1, <2>2 DEF SlotsCountDraws
  <2>4. (generations[top + 1] + 1) % GenerationCount = generations[top + 1] + 1
    <3> DEFINE next == generations[top + 1] + 1
    <3>1. next \in Nat /\ next < GenerationCount /\ GenerationCount \in Nat
      BY <1>0, <2>3, GenerationCountAssumption
    <3> HIDE DEF next
    <3>2. next % GenerationCount = next
      BY <3>1
    <3> QED
      BY <3>2 DEF next
  <2>5. id.slot = top /\ id.generation = generations[top + 1] + 1
    BY <1>1, <2>4 DEF NextNetworkId, GenerationOf
  <2>6. id.generation # 0
    BY <2>3, <2>5
  <2>7. \A s \in FreeSlots : s = top \/ s \in FreeSlots'
    BY <2>1 DEF FreeSlots
  <2>8. Len(generations') = Len(generations)
    <3>1. id.generation \in Generation
      BY DrawFacts DEF Drawn, NetworkId
    <3>2. generations' = [generations EXCEPT ![top + 1] = id.generation]
      BY <1>1, <2>5 DEF GenerateNetworkId
    <3> QED
      BY <1>0, <2>2, <3>1, <3>2, ExceptSeq DEF TypeOK
  <2> QED
    BY <2>5, <2>6, <2>7, <2>8 DEF IsValid, NoNetworkId
<1>2. CASE freeSlotIds = <<>>
  <2>1. id.slot = Len(generations) /\ id.generation = 1
    BY <1>2 DEF NextNetworkId
  <2>2. generations' = Append(generations, 1) /\ 1 \in Generation
    BY <1>2, <2>1, GenerationCountAssumption DEF GenerateNetworkId, Generation
  <2>3. Len(generations') = Len(generations) + 1
    BY <1>0, <2>2, AppendProperties DEF TypeOK
  <2>4. FreeSlots = {}
    BY <1>2, EmptySeq DEF FreeSlots
  <2>5. IsValid(id)
    BY <2>1 DEF IsValid, NoNetworkId
  <2> QED
    BY <1>0, <2>1, <2>3, <2>4, <2>5
<1> QED
  BY <1>1, <1>2

\* NoSlotLeaked is inductive, given the count of the draws.
LEMMA NextNoSlotLeaked ==
    IssueInv /\ IssueInv' /\ NoSlotLeaked /\ [Next]_vars => NoSlotLeaked'
<1> SUFFICES ASSUME IssueInv, NoSlotLeaked, [Next]_vars, draws' < GenerationCount,
                    NEW s \in Nat, s < Len(generations')
             PROVE  s \in FreeSlots' \/ \E m \in MappedIds' : m.slot = s
  <2>1. Len(generations) \in Nat /\ (IssueInv' => Len(generations') \in Nat)
    BY LenProperties DEF IssueInv, IInv, TypeOK
  <2> QED
    BY <2>1 DEF NoSlotLeaked
<1>0. /\ IInv /\ draws \in Nat /\ GenerationCount \in Nat /\ Len(generations) \in Nat
  BY LenProperties, GenerationCountAssumption, MaxIssuesAssumption DEF IssueInv, IInv, TypeOK
<1>1. CASE UNCHANGED vars
  BY <1>0, <1>1 DEF NoSlotLeaked, vars, FreeSlots, MappedIds
<1>2. ASSUME NEW e \in Entities, BeginReplicatingEntity(e)
      PROVE  s \in FreeSlots' \/ \E m \in MappedIds' : m.slot = s
  <2> DEFINE id == NextNetworkId
  <2>1. draws' = draws + 1 /\ draws + 1 < GenerationCount /\ draws < GenerationCount
    BY <1>0, <1>2 DEF BeginReplicatingEntity
  <2>2. /\ IsValid(id)
        /\ \A f \in FreeSlots : f = id.slot \/ f \in FreeSlots'
        /\ s = id.slot \/ s < Len(generations)
    BY <1>0, <1>2, <2>1, DrawIsValid DEF IssueInv, BeginReplicatingEntity
  <2>3. networkIdToEntityMap' = {p \in networkIdToEntityMap : p[1] # id} \cup {<<id, e>>}
    BY <1>2, <2>2 DEF BeginReplicatingEntity
  <2>4. id \in MappedIds'
    <3>1. <<id, e>> \in networkIdToEntityMap' /\ <<id, e>>[1] = id
      BY <2>3
    <3> QED
      BY <3>1, Zenon DEF MappedIds
  <2>5. \A m \in MappedIds : m \in MappedIds'
    BY <2>3, <2>4 DEF MappedIds
  <2>6. CASE s < Len(generations) /\ s # id.slot
    <3>1. s \in FreeSlots \/ \E m \in MappedIds : m.slot = s
      BY <1>0, <2>1, <2>6 DEF NoSlotLeaked
    <3> QED
      BY <2>2, <2>5, <2>6, <3>1
  <2> QED
    BY <2>2, <2>4, <2>6
<1>3. ASSUME NEW e \in Entities, StopReplicatingEntity(e)
      PROVE  s \in FreeSlots' \/ \E m \in MappedIds' : m.slot = s
  <2> DEFINE id == entityNetworkId[e]
  <2>1. /\ id \in NetworkId /\ id.slot \in Nat
        /\ networkIdToEntityMap' = {p \in networkIdToEntityMap : p[1] # id}
        /\ freeSlotIds' = Append(freeSlotIds, id.slot)
        /\ generations' = generations /\ draws' = draws
    BY <1>0, <1>3 DEF StopReplicatingEntity, ReleaseNetworkId, IInv, TypeOK, NetworkId
  <2>2. FreeSlots' = FreeSlots \cup {id.slot}
    <3>1. /\ Len(freeSlotIds') = Len(freeSlotIds) + 1
          /\ \A i \in 1 .. Len(freeSlotIds) : freeSlotIds'[i] = freeSlotIds[i]
          /\ freeSlotIds'[Len(freeSlotIds) + 1] = id.slot
          /\ Len(freeSlotIds) \in Nat
      BY <1>0, <2>1, AppendProperties, LenProperties DEF IInv, TypeOK
    <3> QED
      BY <3>1 DEF FreeSlots
  <2>3. s \in FreeSlots \/ \E m \in MappedIds : m.slot = s
    BY <1>0, <2>1 DEF NoSlotLeaked
  <2>4. \A m \in MappedIds : m = id \/ m \in MappedIds'
    BY <2>1 DEF MappedIds
  <2> QED
    BY <2>2, <2>3, <2>4
<1>4. CASE ResetNetworkIdGenerator
  BY <1>4, EmptySeq DEF ResetNetworkIdGenerator
<1> QED
  BY <1>1, <1>2, <1>3, <1>4 DEF Next

\* Every slot the generator allocated is free once or in use once, and none is
\* lost until the session has drawn as many as the counter has values.
THEOREM SlotsAreAccounted == Spec => []SlotsAccounted
<1>1. Init => IssueInv /\ NoSlotLeaked
  BY InitIInv, EmptySeq DEF Init, IssueInv, SlotsCountDraws, NoSlotLeaked
<1>2. (IssueInv /\ NoSlotLeaked) /\ [Next]_vars => (IssueInv /\ NoSlotLeaked)'
  BY NextIssueInv, NextNoSlotLeaked
<1>3. IssueInv /\ NoSlotLeaked => SlotsAccounted
  BY DEF IssueInv, IInv, IdentityInv, SlotsAccounted
<1> QED
  BY <1>1, <1>2, <1>3, PTL DEF Spec
=============================================================================
