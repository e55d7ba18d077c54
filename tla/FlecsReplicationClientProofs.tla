-------------------- MODULE FlecsReplicationClientProofs --------------------
(***************************************************************************)
(* Theorems about FlecsReplicationClient, for every set of identities, keys  *)
(* and published snapshots, and any order of deliveries.                     *)
(***************************************************************************)
EXTENDS FlecsReplicationClient, SequenceTheorems, TLAPS

-----------------------------------------------------------------------------
(* The update queue.                                                         *)

\* Enqueue keeps one update per identity, and every update of the result is
\* the new one or was there before.
LEMMA EnqueueFacts ==
    ASSUME NEW queue \in Seq(QueuedUpdate), NEW update \in QueuedUpdate,
           Coalesced(queue)
    PROVE  /\ Enqueue(queue, update) \in Seq(QueuedUpdate)
           /\ Coalesced(Enqueue(queue, update))
           /\ \A i \in 1 .. Len(Enqueue(queue, update)) :
                 \/ Enqueue(queue, update)[i] = update
                 \/ \E j \in 1 .. Len(queue) : Enqueue(queue, update)[i] = queue[j]
<1> DEFINE id == update.networkId
           result == Enqueue(queue, update)
<1>1. Len(queue) \in Nat /\ \A i \in 1 .. Len(queue) : queue[i] \in QueuedUpdate
  BY LenProperties, ElementOfSeq
<1>2. CASE PendingIndices(queue, id) = {}
  <2>1. result = Append(queue, update)
    BY <1>2 DEF Enqueue
  <2>2. /\ result \in Seq(QueuedUpdate)
        /\ Len(result) = Len(queue) + 1
        /\ \A i \in 1 .. Len(queue) : result[i] = queue[i]
        /\ result[Len(queue) + 1] = update
    BY <2>1, AppendProperties
  <2>3. \A i \in 1 .. Len(queue) : queue[i].networkId # id
    BY <1>2 DEF PendingIndices
  <2>4. \A i \in 1 .. Len(result) : i \in 1 .. Len(queue) \/ i = Len(queue) + 1
    BY <1>1, <2>2
  <2>5. ASSUME NEW i \in 1 .. Len(result), NEW j \in 1 .. Len(result),
               result[i].networkId = result[j].networkId
        PROVE  i = j
    <3>1. CASE i \in 1 .. Len(queue) /\ j \in 1 .. Len(queue)
      BY <2>2, <2>5, <3>1 DEF Coalesced
    <3>2. CASE i = Len(queue) + 1 /\ j \in 1 .. Len(queue)
      BY <2>2, <2>3, <2>5, <3>2
    <3>3. CASE i \in 1 .. Len(queue) /\ j = Len(queue) + 1
      BY <2>2, <2>3, <2>5, <3>3
    <3> QED
      BY <2>4, <3>1, <3>2, <3>3
  <2> QED
    BY <2>2, <2>4, <2>5 DEF Coalesced
<1>3. CASE PendingIndices(queue, id) # {}
  <2> DEFINE at(i) == IF /\ queue[i].networkId = id
                         /\ queue[i].stateRevision <= update.stateRevision
                      THEN update ELSE queue[i]
  <2>1. result = [i \in 1 .. Len(queue) |-> at(i)]
    BY <1>3 DEF Enqueue
  <2>2. \A i \in 1 .. Len(queue) :
           at(i) \in QueuedUpdate /\ at(i).networkId = queue[i].networkId
    BY <1>1
  <2> HIDE DEF at
  <2>3. result \in [1 .. Len(queue) -> QueuedUpdate]
    BY <2>1, <2>2
  <2>4. result \in Seq(QueuedUpdate)
    BY <1>1, <2>3, SeqDef
  <2>5. Len(result) = Len(queue)
    <3>1. DOMAIN result = 1 .. Len(queue)
      BY <2>3
    <3>2. DOMAIN result = 1 .. Len(result) /\ Len(result) \in Nat
      BY <2>4, LenProperties
    <3> QED
      BY <1>1, <3>1, <3>2
  <2>6. \A i \in 1 .. Len(queue) : result[i] = at(i)
    BY <2>1
  <2>7. Coalesced(result)
    BY <2>2, <2>5, <2>6 DEF Coalesced
  <2>8. \A i \in 1 .. Len(queue) : result[i] = update \/ result[i] = queue[i]
    BY <2>6 DEF at
  <2> QED
    BY <2>4, <2>5, <2>7, <2>8
<1> QED
  BY <1>2, <1>3

\* Taking the first update off a coalesced queue: the others stay, and none of
\* them is for the same identity.
LEMMA TailFacts ==
    ASSUME NEW queue \in Seq(QueuedUpdate), Coalesced(queue), queue # <<>>
    PROVE  /\ Head(queue) \in QueuedUpdate
           /\ \E i \in 1 .. Len(queue) : Head(queue) = queue[i]
           /\ Tail(queue) \in Seq(QueuedUpdate)
           /\ Coalesced(Tail(queue))
           /\ \A i \in 1 .. Len(Tail(queue)) :
                 /\ \E j \in 1 .. Len(queue) : Tail(queue)[i] = queue[j]
                 /\ Tail(queue)[i].networkId # Head(queue).networkId
<1>1. Len(queue) \in Nat \ {0} /\ Head(queue) = queue[1]
  BY EmptySeq
<1>2. /\ Head(queue) \in QueuedUpdate
      /\ Tail(queue) \in Seq(QueuedUpdate)
      /\ Len(Tail(queue)) = Len(queue) - 1
      /\ \A i \in 1 .. Len(Tail(queue)) : Tail(queue)[i] = queue[i + 1]
  BY HeadTailProperties
<1>3. \A i \in 1 .. Len(Tail(queue)) :
         i + 1 \in 1 .. Len(queue) /\ i + 1 # 1 /\ Tail(queue)[i] = queue[i + 1]
  BY <1>1, <1>2
<1>4. 1 \in 1 .. Len(queue)
  BY <1>1
<1>5. \A i \in 1 .. Len(Tail(queue)) : Tail(queue)[i].networkId # Head(queue).networkId
  BY <1>1, <1>3, <1>4 DEF Coalesced
<1>6. ASSUME NEW i \in 1 .. Len(Tail(queue)), NEW j \in 1 .. Len(Tail(queue)),
             Tail(queue)[i].networkId = Tail(queue)[j].networkId
      PROVE  i = j
  <2>1. i + 1 = j + 1
    BY <1>3, <1>6 DEF Coalesced
  <2> QED
    BY <1>1, <1>2, <2>1
<1> QED
  BY <1>1, <1>2, <1>3, <1>4, <1>5, <1>6 DEF Coalesced

-----------------------------------------------------------------------------
(* The inductive invariant.                                                  *)

\* A queued update is a record the authority published, or a removal at the
\* revision of one.
Genuine(update) ==
    IF update.bRemove
    THEN update.stateRevision \in Revisions
    ELSE /\ <<update.networkId, update.snapshot>> \in Published
         /\ update.stateRevision = update.snapshot.stateRevision

QueuesGenuine ==
    /\ \A i \in 1 .. Len(updateQueue) : Genuine(updateQueue[i])
    /\ \A i \in 1 .. Len(updates) : Genuine(updates[i])

\* What keeps the entities of this run apart from its remaining updates: a
\* removal in the same run would not find the FFlecsNetworkId of an entity the
\* run created, and its deferred snapshot would outlive it.
CreatedOnce ==
    /\ ~applying => created = {} /\ updates = <<>>
    /\ \A e \in created, i \in 1 .. Len(updates) : updates[i].networkId # e[1]

IInv ==
    /\ TypeOK
    /\ QueuesCoalesced
    /\ QueuesGenuine
    /\ MapMatchesWorld
    /\ DeferredEntitiesAlive
    /\ CreatedOnce

\* What the assumption on Published says of its members.
LEMMA PublishedFacts ==
    /\ Revisions \subseteq Nat \ {0}
    /\ \A p \in Published : /\ p[1] \in NetworkIds
                           /\ p[2] \in Snapshot
                           /\ p[2].stateRevision \in Revisions
                           /\ <<p[1], p[2].stateRevision>> \in LocalEntity
BY PublishedAssumption, RecordsAssumption DEF LocalEntity

LEMMA NoSnapshotFacts ==
    /\ NoSnapshot \in Snapshot
    /\ NoSnapshot.stateRevision = 0
    /\ NoContent \in Content
    /\ \A e \in LocalEntity : e # NoEntity
<1>1. NoSnapshot \in Snapshot /\ NoSnapshot.stateRevision = 0
  BY DEF NoSnapshot, Snapshot, LayoutId
<1>2. NoContent \in Content
  BY DEF NoContent, Content
<1>3. \A e \in LocalEntity : e # NoEntity
  BY DEF LocalEntity, NoEntity
<1> QED
  BY <1>1, <1>2, <1>3

LEMMA AppliedContent ==
    ASSUME NEW old \in Content, NEW snapshot \in Snapshot, NEW map
    PROVE  Applied(old, snapshot, map) \in Content
BY DEF Applied, Content, Snapshot

LEMMA InitIInv == ClientInit => IInv
<1> SUFFICES ASSUME ClientInit PROVE IInv
  OBVIOUS
<1> USE DEF ClientInit
<1>1. TypeOK
  BY NoSnapshotFacts, EmptySeq DEF TypeOK
<1>2. QueuesCoalesced /\ QueuesGenuine /\ CreatedOnce
  BY EmptySeq DEF QueuesCoalesced, QueuesGenuine, Coalesced, CreatedOnce
<1>3. MapMatchesWorld /\ DeferredEntitiesAlive
  BY DEF MapMatchesWorld, DeferredEntitiesAlive, Mapped
<1> QED
  BY <1>1, <1>2, <1>3 DEF IInv

\* A delivery adds a genuine update to the queue and changes nothing else.
LEMMA EnqueueIInv ==
    ASSUME IInv, ~applying, NEW update \in QueuedUpdate, Genuine(update),
           updateQueue' = Enqueue(updateQueue, update),
           UNCHANGED <<applying, updates, entityVars, layoutVars>>
    PROVE  IInv'
<1>1. /\ updateQueue' \in Seq(QueuedUpdate)
      /\ Coalesced(updateQueue')
      /\ \A i \in 1 .. Len(updateQueue') :
            \/ updateQueue'[i] = update
            \/ \E j \in 1 .. Len(updateQueue) : updateQueue'[i] = updateQueue[j]
  BY EnqueueFacts DEF IInv, TypeOK, QueuesCoalesced
<1>2. TypeOK'
  BY <1>1 DEF IInv, TypeOK, entityVars, layoutVars
<1>3. QueuesCoalesced'
  BY <1>1 DEF IInv, QueuesCoalesced
<1>4. \A i \in 1 .. Len(updateQueue') : Genuine(updateQueue'[i])
  BY <1>1 DEF IInv, QueuesGenuine
<1>5. QueuesGenuine'
  BY <1>4 DEF IInv, QueuesGenuine, Genuine
<1>6. MapMatchesWorld' /\ DeferredEntitiesAlive' /\ CreatedOnce'
  BY DEF IInv, MapMatchesWorld, DeferredEntitiesAlive, CreatedOnce, Mapped, entityVars
<1> QED
  BY <1>2, <1>3, <1>5, <1>6 DEF IInv

LEMMA DeliverIInv == IInv /\ Deliver => IInv'
<1> SUFFICES ASSUME IInv, NEW p \in Published,
                    \/ ReceiveSnapshot(p[1], p[2])
                    \/ ReceiveRemoval(p[1], p[2].stateRevision)
             PROVE  IInv'
  BY DEF Deliver
<1>1. /\ p[1] \in NetworkIds /\ p[2] \in Snapshot /\ p = <<p[1], p[2]>>
      /\ p[2].stateRevision \in Revisions /\ p[2].stateRevision \in Nat
  <2>1. p \in NetworkIds \X Snapshot
    BY PublishedAssumption
  <2>2. p = <<p[1], p[2]>>
    BY <2>1
  <2> QED
    BY <2>2, PublishedFacts
<1>2. CASE ReceiveSnapshot(p[1], p[2])
  <2> DEFINE update == SnapshotUpdate(p[1], p[2])
  <2>1. update \in QueuedUpdate /\ Genuine(update)
    BY <1>1 DEF SnapshotUpdate, QueuedUpdate, Genuine
  <2> QED
    BY <1>2, <2>1, EnqueueIInv DEF ReceiveSnapshot, EnqueueSnapshot
<1>3. CASE ReceiveRemoval(p[1], p[2].stateRevision)
  <2> DEFINE update == RemovalUpdate(p[1], p[2].stateRevision)
  <2>1. update \in QueuedUpdate /\ Genuine(update)
    BY <1>1, NoSnapshotFacts DEF RemovalUpdate, QueuedUpdate, Genuine
  <2> QED
    BY <1>3, <2>1, EnqueueIInv DEF ReceiveRemoval, EnqueueRemoval
<1> QED
  BY <1>2, <1>3

\* The layout registry and the world's keys are no part of the rest.
LEMMA LayoutIInv ==
    ASSUME IInv, \/ \E l \in Layouts : ReceiveLayout(l)
                 \/ \E k \in Keys \ ReferenceKeys : RegisterKey(k)
    PROVE  IInv'
<1> DEFINE Apart == /\ definitions' \subseteq LayoutId
                    /\ pendingLayouts' \subseteq LayoutId
                    /\ registered' \subseteq Keys
                    /\ UNCHANGED <<queueVars, entityVars>>
<1>1. Apart
  <2>1. Layouts \subseteq LayoutId
    BY PublishedFacts DEF Layouts, Snapshot
  <2>2. ASSUME NEW l \in Layouts, ReceiveLayout(l)
        PROVE  Apart
    BY <2>1, <2>2 DEF ReceiveLayout, IInv, TypeOK
  <2>3. ASSUME NEW k \in Keys \ ReferenceKeys, RegisterKey(k)
        PROVE  Apart
    BY <2>3 DEF RegisterKey, IInv, TypeOK
  <2> QED
    BY <2>2, <2>3
<1>2. TypeOK'
  BY <1>1 DEF IInv, TypeOK, queueVars, entityVars
<1>3. QueuesCoalesced' /\ QueuesGenuine' /\ CreatedOnce'
  BY <1>1 DEF IInv, QueuesCoalesced, QueuesGenuine, Genuine, CreatedOnce,
              queueVars, entityVars
<1>4. MapMatchesWorld' /\ DeferredEntitiesAlive'
  BY <1>1 DEF IInv, MapMatchesWorld, DeferredEntitiesAlive, Mapped, entityVars
<1> QED
  BY <1>2, <1>3, <1>4 DEF IInv

LEMMA DrainIInv == IInv /\ DrainQueue => IInv'
<1> SUFFICES ASSUME IInv, DrainQueue PROVE IInv'
  OBVIOUS
<1> USE DEF IInv, DrainQueue
<1>1. TypeOK'
  BY EmptySeq DEF TypeOK, entityVars, layoutVars
<1>2. QueuesCoalesced' /\ QueuesGenuine'
  BY EmptySeq DEF QueuesCoalesced, Coalesced, QueuesGenuine, Genuine
<1>3. CreatedOnce'
  BY DEF CreatedOnce, entityVars
<1>4. MapMatchesWorld' /\ DeferredEntitiesAlive'
  BY DEF MapMatchesWorld, DeferredEntitiesAlive, Mapped, entityVars
<1> QED
  BY <1>1, <1>2, <1>3, <1>4

LEMMA FinishIInv == IInv /\ FinishRun => IInv'
<1> SUFFICES ASSUME IInv, FinishRun PROVE IInv'
  OBVIOUS
<1>1. content' \in [LocalEntity -> Content]
  <2> DEFINE ready == ReadySnapshots(definitions')
  <2>1. \A e \in LocalEntity :
           (\E d \in ready : d[1] = e) => (CHOOSE d \in ready : d[1] = e) \in ready
    OBVIOUS
  <2>2. \A d \in ready : d[2] \in Snapshot
    BY DEF ReadySnapshots, IInv, TypeOK
  <2>3. \A e \in LocalEntity : content[e] \in Content
    BY DEF IInv, TypeOK
  <2>4. \A e \in LocalEntity : (\E d \in ready : d[1] = e) =>
           Applied(content[e], (CHOOSE d \in ready : d[1] = e)[2], networkIdToEntityMap)
             \in Content
    BY <2>1, <2>2, <2>3, AppliedContent
  <2> QED
    BY <2>3, <2>4 DEF FinishRun
<1>2. TypeOK'
  BY <1>1 DEF FinishRun, IInv, TypeOK, StillWaiting
<1>3. QueuesCoalesced' /\ QueuesGenuine' /\ CreatedOnce'
  BY DEF FinishRun, IInv, QueuesCoalesced, QueuesGenuine, Genuine, CreatedOnce
<1>4. MapMatchesWorld' /\ DeferredEntitiesAlive'
  BY DEF FinishRun, IInv, MapMatchesWorld, DeferredEntitiesAlive, StillWaiting, Mapped
<1> QED
  BY <1>2, <1>3, <1>4 DEF IInv

-----------------------------------------------------------------------------
(* Applying one update.                                                      *)

\* The update taken off the queue is genuine, and none of the remaining ones
\* is for its identity.
LEMMA HeadFacts ==
    ASSUME IInv, applying, updates # <<>>, updates' = Tail(updates)
    PROVE  /\ Head(updates) \in QueuedUpdate
           /\ Genuine(Head(updates))
           /\ updates' \in Seq(QueuedUpdate)
           /\ Coalesced(updates')
           /\ \A i \in 1 .. Len(updates') :
                 /\ Genuine(updates'[i])
                 /\ updates'[i].networkId # Head(updates).networkId
                 /\ \A e \in created : updates'[i].networkId # e[1]
<1>1. updates \in Seq(QueuedUpdate) /\ Coalesced(updates)
  BY DEF IInv, TypeOK, QueuesCoalesced
<1>2. /\ \A i \in 1 .. Len(updates) : Genuine(updates[i])
      /\ \A e \in created, i \in 1 .. Len(updates) : updates[i].networkId # e[1]
  BY DEF IInv, QueuesGenuine, CreatedOnce
<1> QED
  BY <1>1, <1>2, TailFacts

\* The queues' part of the invariant after an update was taken off.
LEMMA QueuesAfterUpdate ==
    ASSUME IInv, applying, updates # <<>>, updates' = Tail(updates),
           UNCHANGED <<updateQueue, applying>>
    PROVE  QueuesCoalesced' /\ QueuesGenuine'
<1>1. /\ Coalesced(updates')
      /\ \A i \in 1 .. Len(updates') : Genuine(updates'[i])
  BY HeadFacts
<1> QED
  BY <1>1 DEF IInv, QueuesCoalesced, Coalesced, QueuesGenuine, Genuine

\* The entity of a shown snapshot.
LEMMA EntityForFacts ==
    ASSUME IInv, NEW id \in NetworkIds, NEW snapshot, <<id, snapshot>> \in Published
    PROVE  /\ EntityFor(id, snapshot) \in LocalEntity
           /\ EntityFor(id, snapshot)[1] = id
           /\ EntityFor(id, snapshot) # NoEntity
           /\ Mapped(id) => EntityFor(id, snapshot) = networkIdToEntityMap[id]
<1>1. <<id, snapshot.stateRevision>> \in LocalEntity
  BY PublishedFacts
<1>2. Mapped(id) => /\ networkIdToEntityMap[id] \in LocalEntity
                    /\ networkIdToEntityMap[id][1] = id
  BY DEF IInv, TypeOK, MapMatchesWorld, Mapped
<1> QED
  BY <1>1, <1>2, NoSnapshotFacts DEF EntityFor, Mapped

LEMMA ShowIInv ==
    ASSUME IInv, applying, updates # <<>>, updates' = Tail(updates),
           UNCHANGED <<updateQueue, applying, layoutVars>>,
           ~Head(updates).bRemove,
           ShowEntity(Head(updates).networkId, Head(updates).snapshot)
    PROVE  IInv'
<1> DEFINE id == Head(updates).networkId
           snapshot == Head(updates).snapshot
           entity == EntityFor(id, snapshot)
<1>1. /\ id \in NetworkIds
      /\ <<id, snapshot>> \in Published
      /\ snapshot \in Snapshot
      /\ snapshot.stateRevision > 0
  BY HeadFacts, PublishedFacts, PublishedAssumption DEF QueuedUpdate, Genuine
<1>2. /\ entity \in LocalEntity
      /\ entity[1] = id
      /\ entity # NoEntity
      /\ Mapped(id) => entity = networkIdToEntityMap[id]
  BY <1>1, EntityForFacts
<1> HIDE DEF entity
<1>3. /\ networkIdToEntityMap' = [networkIdToEntityMap EXCEPT ![id] = entity]
      /\ localEntities' = localEntities \cup {entity}
      /\ created' = created \cup ({entity} \ localEntities)
      /\ replicationSnapshots' = [replicationSnapshots EXCEPT ![id] = snapshot]
      /\ removedEntityRevisions' = [removedEntityRevisions EXCEPT ![id] = 0]
      /\ \/ /\ content' = [content EXCEPT ![entity] =
                             Applied(@, snapshot, networkIdToEntityMap')]
            /\ UNCHANGED deferredEntityLayouts
         \/ /\ deferredEntityLayouts' =
                 deferredEntityLayouts \cup {<<entity, snapshot>>}
            /\ UNCHANGED content
  BY DEF ShowEntity, entity
<1> HIDE DEF id, snapshot
<1>4. TypeOK'
  <2>1. content' \in [LocalEntity -> Content]
    <3>1. Applied(content[entity], snapshot, networkIdToEntityMap') \in Content
      BY <1>1, <1>2, AppliedContent DEF IInv, TypeOK
    <3> QED
      BY <1>3, <3>1 DEF IInv, TypeOK
  <2>2. /\ networkIdToEntityMap' \in [NetworkIds -> LocalEntity \cup {NoEntity}]
        /\ replicationSnapshots' \in [NetworkIds -> Snapshot]
        /\ removedEntityRevisions' \in [NetworkIds -> Nat]
    BY <1>1, <1>2, <1>3 DEF IInv, TypeOK
  <2>3. /\ localEntities' \subseteq LocalEntity
        /\ created' \subseteq LocalEntity
        /\ deferredEntityLayouts' \subseteq LocalEntity \X Snapshot
    BY <1>1, <1>2, <1>3 DEF IInv, TypeOK
  <2>4. updates' \in Seq(QueuedUpdate)
    BY HeadFacts
  <2> QED
    BY <2>1, <2>2, <2>3, <2>4 DEF IInv, TypeOK, layoutVars
<1>5. /\ \A i \in NetworkIds \ {id} :
            /\ networkIdToEntityMap'[i] = networkIdToEntityMap[i]
            /\ replicationSnapshots'[i] = replicationSnapshots[i]
            /\ removedEntityRevisions'[i] = removedEntityRevisions[i]
      /\ networkIdToEntityMap'[id] = entity
      /\ replicationSnapshots'[id] = snapshot
      /\ removedEntityRevisions'[id] = 0
  BY <1>1, <1>3 DEF IInv, TypeOK
<1>6. MapMatchesWorld'
  <2>1. snapshot # NoSnapshot
    BY <1>1, NoSnapshotFacts
  <2>2. ASSUME NEW i \in NetworkIds
        PROVE  /\ Mapped(i)' => networkIdToEntityMap'[i][1] = i
               /\ Mapped(i)' <=> replicationSnapshots'[i] # NoSnapshot
               /\ removedEntityRevisions'[i] > 0 => ~Mapped(i)'
    <3>1. CASE i = id
      BY <1>2, <1>5, <2>1, <3>1 DEF Mapped
    <3>2. CASE i # id
      BY <1>5, <3>2 DEF IInv, MapMatchesWorld, Mapped
    <3> QED
      BY <3>1, <3>2
  <2>3. ASSUME NEW e
        PROVE  e \in localEntities'
                 <=> \E i \in NetworkIds : Mapped(i)' /\ networkIdToEntityMap'[i] = e
    <3>1. e \in localEntities
            <=> \E i \in NetworkIds : Mapped(i) /\ networkIdToEntityMap[i] = e
      BY DEF IInv, MapMatchesWorld
    <3>2. CASE e = entity
      BY <1>1, <1>2, <1>3, <1>5, <3>2 DEF Mapped
    <3>3. CASE e # entity
      <4>1. \A i \in NetworkIds : networkIdToEntityMap'[i] = e /\ Mapped(i)'
                                   <=> networkIdToEntityMap[i] = e /\ Mapped(i)
        BY <1>2, <1>5, <3>3 DEF Mapped
      <4> QED
        BY <1>3, <3>1, <3>3, <4>1
    <3> QED
      BY <3>2, <3>3
  <2>4. localEntities' = {networkIdToEntityMap'[i] :
                            i \in {j \in NetworkIds : Mapped(j)'}}
    BY <2>3
  <2> QED
    BY <2>2, <2>4 DEF MapMatchesWorld, Mapped
<1>7. DeferredEntitiesAlive'
  BY <1>3 DEF IInv, DeferredEntitiesAlive
<1>8. CreatedOnce'
  <2>1. \A i \in 1 .. Len(updates') : /\ updates'[i].networkId # id
                                     /\ \A e \in created : updates'[i].networkId # e[1]
    BY HeadFacts DEF id
  <2> QED
    BY <1>2, <1>3, <2>1 DEF CreatedOnce
<1>9. QueuesCoalesced' /\ QueuesGenuine'
  BY QueuesAfterUpdate DEF layoutVars
<1> QED
  BY <1>4, <1>6, <1>7, <1>8, <1>9 DEF IInv

LEMMA HideIInv ==
    ASSUME IInv, applying, updates # <<>>, updates' = Tail(updates),
           UNCHANGED <<updateQueue, applying, layoutVars>>,
           Head(updates).bRemove,
           HideEntity(Head(updates).networkId, Head(updates).stateRevision)
    PROVE  IInv'
<1> DEFINE id == Head(updates).networkId
           revision == Head(updates).stateRevision
<1>1. id \in NetworkIds /\ revision \in Nat
  BY HeadFacts DEF QueuedUpdate
<1>2. /\ removedEntityRevisions' = [removedEntityRevisions EXCEPT ![id] = revision]
      /\ networkIdToEntityMap' = [networkIdToEntityMap EXCEPT ![id] = NoEntity]
      /\ localEntities' = localEntities \ {networkIdToEntityMap[id]}
      /\ content' = [e \in LocalEntity |->
                       [k \in Keys |->
                          IF e = networkIdToEntityMap[id] \/ Names(k, id) THEN Absent
                          ELSE content[e][k]]]
      /\ replicationSnapshots' = [replicationSnapshots EXCEPT ![id] = NoSnapshot]
      /\ deferredEntityLayouts' =
           {d \in deferredEntityLayouts : d[1][1] # id \/ d[1] \in created}
      /\ UNCHANGED created
  BY DEF HideEntity, DeferredWithout
<1>3. \A i \in 1 .. Len(updates) : \A e \in created : updates[i].networkId # e[1]
  BY DEF IInv, CreatedOnce
<1>4. \A e \in created : e[1] # id
  <2>1. PICK i \in 1 .. Len(updates) : Head(updates) = updates[i]
    BY TailFacts DEF IInv, TypeOK, QueuesCoalesced
  <2> QED
    BY <1>3, <2>1
<1>5. \A i \in 1 .. Len(updates') : \A e \in created : updates'[i].networkId # e[1]
  BY HeadFacts
<1>6. updates' \in Seq(QueuedUpdate)
  BY HeadFacts
<1> HIDE DEF id, revision
<1>7. TypeOK'
  <2>1. content' \in [LocalEntity -> Content]
    <3>1. \A e \in LocalEntity, k \in Keys :
             content[e][k] \in Values \cup {NoValue, Absent}
      BY DEF IInv, TypeOK, Content
    <3> QED
      BY <1>2, <3>1 DEF Content
  <2>2. /\ networkIdToEntityMap' \in [NetworkIds -> LocalEntity \cup {NoEntity}]
        /\ replicationSnapshots' \in [NetworkIds -> Snapshot]
        /\ removedEntityRevisions' \in [NetworkIds -> Nat]
    BY <1>1, <1>2, NoSnapshotFacts DEF IInv, TypeOK
  <2>3. /\ localEntities' \subseteq LocalEntity
        /\ created' \subseteq LocalEntity
        /\ deferredEntityLayouts' \subseteq LocalEntity \X Snapshot
    BY <1>2 DEF IInv, TypeOK
  <2> QED
    BY <1>6, <2>1, <2>2, <2>3 DEF IInv, TypeOK, layoutVars
<1>8. /\ \A i \in NetworkIds \ {id} :
            /\ networkIdToEntityMap'[i] = networkIdToEntityMap[i]
            /\ replicationSnapshots'[i] = replicationSnapshots[i]
            /\ removedEntityRevisions'[i] = removedEntityRevisions[i]
      /\ networkIdToEntityMap'[id] = NoEntity
      /\ replicationSnapshots'[id] = NoSnapshot
  BY <1>1, <1>2 DEF IInv, TypeOK
<1>9. MapMatchesWorld'
  <2>1. ASSUME NEW i \in NetworkIds
        PROVE  /\ Mapped(i)' => networkIdToEntityMap'[i][1] = i
               /\ Mapped(i)' <=> replicationSnapshots'[i] # NoSnapshot
               /\ removedEntityRevisions'[i] > 0 => ~Mapped(i)'
    <3>1. CASE i = id
      BY <1>8, <3>1 DEF Mapped
    <3>2. CASE i # id
      BY <1>8, <3>2 DEF IInv, MapMatchesWorld, Mapped
    <3> QED
      BY <3>1, <3>2
  <2>2. \A i \in NetworkIds \ {id} :
           Mapped(i) => networkIdToEntityMap[i] # networkIdToEntityMap[id]
    <3> SUFFICES ASSUME NEW i \in NetworkIds \ {id}, Mapped(i),
                        networkIdToEntityMap[i] = networkIdToEntityMap[id]
                 PROVE  FALSE
      OBVIOUS
    <3>1. Mapped(id)
      BY DEF Mapped
    <3>2. networkIdToEntityMap[i][1] = i /\ networkIdToEntityMap[id][1] = id
      BY <1>1, <3>1 DEF IInv, MapMatchesWorld
    <3> QED
      BY <3>2
  <2>3. ASSUME NEW e
        PROVE  e \in localEntities'
                 <=> \E i \in NetworkIds : Mapped(i)' /\ networkIdToEntityMap'[i] = e
    <3>1. e \in localEntities
            <=> \E i \in NetworkIds : Mapped(i) /\ networkIdToEntityMap[i] = e
      BY DEF IInv, MapMatchesWorld
    <3>2. \A i \in NetworkIds : Mapped(i)' <=> i # id /\ Mapped(i)
      BY <1>8 DEF Mapped
    <3> QED
      BY <1>1, <1>2, <1>8, <2>2, <3>1, <3>2
  <2>4. localEntities' = {networkIdToEntityMap'[i] :
                            i \in {j \in NetworkIds : Mapped(j)'}}
    BY <2>3
  <2> QED
    BY <2>1, <2>4 DEF MapMatchesWorld, Mapped
<1>10. DeferredEntitiesAlive'
  <2> SUFFICES ASSUME NEW d \in deferredEntityLayouts'
               PROVE  d[1] \in localEntities'
    BY DEF DeferredEntitiesAlive
  <2>1. d[1] \in localEntities /\ d[1] \in LocalEntity
    BY <1>2 DEF IInv, TypeOK, DeferredEntitiesAlive
  <2>2. d[1][1] # id
    BY <1>2, <1>4
  <2>3. d[1] # networkIdToEntityMap[id]
    <3>1. CASE Mapped(id)
      BY <1>1, <2>2, <3>1 DEF IInv, MapMatchesWorld
    <3>2. CASE ~Mapped(id)
      BY <2>1, <3>2, NoSnapshotFacts DEF Mapped
    <3> QED
      BY <3>1, <3>2
  <2> QED
    BY <1>2, <2>1, <2>3
<1>11. CreatedOnce'
  BY <1>2, <1>5 DEF CreatedOnce
<1>12. QueuesCoalesced' /\ QueuesGenuine'
  BY QueuesAfterUpdate DEF layoutVars
<1> QED
  BY <1>7, <1>9, <1>10, <1>11, <1>12 DEF IInv

LEMMA ApplyIInv == IInv /\ ApplyUpdate => IInv'
<1> SUFFICES ASSUME IInv, ApplyUpdate PROVE IInv'
  OBVIOUS
<1>1. /\ applying /\ updates # <<>> /\ updates' = Tail(updates)
      /\ UNCHANGED <<updateQueue, applying, layoutVars>>
  BY DEF ApplyUpdate
<1>2. \/ /\ ~Head(updates).bRemove
         /\ ShowEntity(Head(updates).networkId, Head(updates).snapshot)
      \/ /\ Head(updates).bRemove
         /\ HideEntity(Head(updates).networkId, Head(updates).stateRevision)
      \/ UNCHANGED entityVars
  BY DEF ApplyUpdate
<1>3. CASE UNCHANGED entityVars
  <2>1. /\ updates' \in Seq(QueuedUpdate)
        /\ \A i \in 1 .. Len(updates') : \A e \in created : updates'[i].networkId # e[1]
    BY <1>1, HeadFacts
  <2>2. QueuesCoalesced' /\ QueuesGenuine'
    BY <1>1, QueuesAfterUpdate
  <2>3. TypeOK' /\ MapMatchesWorld' /\ DeferredEntitiesAlive' /\ CreatedOnce'
    BY <1>1, <1>3, <2>1 DEF IInv, TypeOK, MapMatchesWorld, DeferredEntitiesAlive,
                           CreatedOnce, Mapped, entityVars, layoutVars
  <2> QED
    BY <2>2, <2>3 DEF IInv
<1> QED
  BY <1>1, <1>2, <1>3, ShowIInv, HideIInv

LEMMA NextIInv == IInv /\ [Next]_clientVars => IInv'
<1> SUFFICES ASSUME IInv, [Next]_clientVars PROVE IInv'
  OBVIOUS
<1>1. CASE UNCHANGED clientVars
  BY <1>1 DEF IInv, TypeOK, QueuesCoalesced, Coalesced, QueuesGenuine, Genuine,
              MapMatchesWorld, DeferredEntitiesAlive, CreatedOnce, Mapped,
              clientVars, queueVars, entityVars, layoutVars
<1> QED
  BY <1>1, DeliverIInv, LayoutIInv, DrainIInv, ApplyIInv, FinishIInv
     DEF Next, RunQueueSystem

\* Every reachable state satisfies the invariant.
THEOREM SpecIInv == Spec => []IInv
<1> QED
  BY InitIInv, NextIInv, PTL DEF Spec

-----------------------------------------------------------------------------
(* The properties the runs check.                                            *)

\* Every state of the client is well typed.
THEOREM ClientTypeCorrect == Spec => []TypeOK
<1> QED
  BY SpecIInv, PTL DEF IInv

\* FFlecsReplicationUpdateQueue never holds two updates of one identity.
THEOREM QueuesAreCoalesced == Spec => []QueuesCoalesced
<1> QED
  BY SpecIInv, PTL DEF IInv

\* The identity map, the live local entities, the snapshots and the tombstones
\* agree after every update that is applied.
THEOREM MapAlwaysMatchesWorld == Spec => []MapMatchesWorld
<1> QED
  BY SpecIInv, PTL DEF IInv

\* The ensure of ApplyDeferredEntityLayouts never fires: no removal leaves a
\* waiting snapshot of a destroyed entity behind.
THEOREM DeferredEntitiesStayAlive == Spec => []DeferredEntitiesAlive
<1> QED
  BY SpecIInv, PTL DEF IInv

-----------------------------------------------------------------------------
(* Snapshots that wait for their layout.                                     *)

\* A step that is not an update's application takes no snapshot off the wait
\* but those whose layout it makes known.
LEMMA KeptByOthers ==
    ASSUME IInv, WaitingSnapshotKept,
           UNCHANGED <<networkIdToEntityMap, replicationSnapshots>>,
           definitions \subseteq definitions',
           deferredEntityLayouts'
              = {d \in deferredEntityLayouts : d[2].layoutId \notin definitions'}
             \/ UNCHANGED deferredEntityLayouts
    PROVE  WaitingSnapshotKept'
BY DEF WaitingSnapshotKept, Mapped

\* Showing an entity keeps its own snapshot if the layout is unknown, and
\* touches no other.
LEMMA KeptByShow ==
    ASSUME IInv, WaitingSnapshotKept, NEW id \in NetworkIds, NEW snapshot,
           ShowEntity(id, snapshot), UNCHANGED layoutVars
    PROVE  WaitingSnapshotKept'
<1> DEFINE entity == EntityFor(id, snapshot)
<1>1. /\ networkIdToEntityMap' = [networkIdToEntityMap EXCEPT ![id] = entity]
      /\ replicationSnapshots' = [replicationSnapshots EXCEPT ![id] = snapshot]
      /\ deferredEntityLayouts \subseteq deferredEntityLayouts'
      /\ \/ snapshot.layoutId \in definitions
         \/ <<entity, snapshot>> \in deferredEntityLayouts'
  BY DEF ShowEntity
<1> HIDE DEF entity
<1>2. UNCHANGED definitions
  BY DEF layoutVars
<1> SUFFICES ASSUME NEW i \in NetworkIds, Mapped(i)',
                    replicationSnapshots'[i].layoutId \notin definitions'
             PROVE  <<networkIdToEntityMap'[i], replicationSnapshots'[i]>>
                       \in deferredEntityLayouts'
  BY DEF WaitingSnapshotKept
<1>3. CASE i = id
  BY <1>1, <1>2, <1>3 DEF IInv, TypeOK
<1>4. CASE i # id
  <2>1. /\ networkIdToEntityMap'[i] = networkIdToEntityMap[i]
        /\ replicationSnapshots'[i] = replicationSnapshots[i]
    BY <1>1, <1>4 DEF IInv, TypeOK
  <2> QED
    BY <1>1, <1>2, <2>1 DEF WaitingSnapshotKept, Mapped
<1> QED
  BY <1>3, <1>4

\* Hiding an entity drops the waiting snapshots of its identity only.
LEMMA KeptByHide ==
    ASSUME IInv, WaitingSnapshotKept, NEW id \in NetworkIds, NEW revision,
           HideEntity(id, revision), UNCHANGED layoutVars
    PROVE  WaitingSnapshotKept'
<1>1. /\ networkIdToEntityMap' = [networkIdToEntityMap EXCEPT ![id] = NoEntity]
      /\ replicationSnapshots' = [replicationSnapshots EXCEPT ![id] = NoSnapshot]
      /\ \A d \in deferredEntityLayouts : d[1][1] # id => d \in deferredEntityLayouts'
  BY DEF HideEntity, DeferredWithout
<1>2. UNCHANGED definitions
  BY DEF layoutVars
<1> SUFFICES ASSUME NEW i \in NetworkIds, Mapped(i)',
                    replicationSnapshots'[i].layoutId \notin definitions'
             PROVE  <<networkIdToEntityMap'[i], replicationSnapshots'[i]>>
                       \in deferredEntityLayouts'
  BY DEF WaitingSnapshotKept
<1>3. i # id
  BY <1>1 DEF IInv, TypeOK, Mapped
<1>4. /\ networkIdToEntityMap'[i] = networkIdToEntityMap[i]
      /\ replicationSnapshots'[i] = replicationSnapshots[i]
  BY <1>1, <1>3 DEF IInv, TypeOK
<1>5. Mapped(i) /\ networkIdToEntityMap[i][1] = i
  BY <1>4 DEF IInv, MapMatchesWorld, Mapped
<1>6. <<networkIdToEntityMap[i], replicationSnapshots[i]>> \in deferredEntityLayouts
  BY <1>2, <1>4, <1>5 DEF WaitingSnapshotKept
<1> QED
  BY <1>1, <1>3, <1>4, <1>5, <1>6

\* An entity's latest snapshot is never lost for want of its layout.
THEOREM WaitingSnapshotsKept == Spec => []WaitingSnapshotKept
<1>1. ClientInit => WaitingSnapshotKept
  BY DEF ClientInit, WaitingSnapshotKept, Mapped
<1>2. IInv /\ WaitingSnapshotKept /\ [Next]_clientVars => WaitingSnapshotKept'
  <2> SUFFICES ASSUME IInv, WaitingSnapshotKept, [Next]_clientVars
               PROVE  WaitingSnapshotKept'
    OBVIOUS
  <2>1. CASE ApplyUpdate
    <3>1. Head(updates).networkId \in NetworkIds
      BY <2>1, HeadFacts DEF ApplyUpdate, QueuedUpdate
    <3>2. CASE UNCHANGED entityVars
      BY <2>1, <3>2, KeptByOthers DEF ApplyUpdate, entityVars, layoutVars
    <3>3. CASE ShowEntity(Head(updates).networkId, Head(updates).snapshot)
      BY <2>1, <3>1, <3>3, KeptByShow DEF ApplyUpdate
    <3>4. CASE HideEntity(Head(updates).networkId, Head(updates).stateRevision)
      BY <2>1, <3>1, <3>4, KeptByHide DEF ApplyUpdate
    <3> QED
      BY <2>1, <3>2, <3>3, <3>4 DEF ApplyUpdate
  <2>2. CASE FinishRun
    BY <2>2, KeptByOthers DEF FinishRun, StillWaiting
  <2>3. CASE Deliver \/ DrainQueue \/ UNCHANGED clientVars
    BY <2>3, KeptByOthers
       DEF Deliver, ReceiveSnapshot, ReceiveRemoval, DrainQueue,
           clientVars, entityVars, layoutVars
  <2>4. CASE \E l \in Layouts : ReceiveLayout(l)
    BY <2>4, KeptByOthers DEF ReceiveLayout, entityVars
  <2>5. CASE \E k \in Keys \ ReferenceKeys : RegisterKey(k)
    BY <2>5, KeptByOthers DEF RegisterKey, entityVars
  <2> QED
    BY <2>1, <2>2, <2>3, <2>4, <2>5 DEF Next, RunQueueSystem
<1> QED
  BY <1>1, <1>2, SpecIInv, PTL DEF Spec

\* What the receiving side holds back is never lost, doubled or orphaned: the
\* queue's updates and the snapshots that wait for a layout.
THEOREM PendingAlwaysKept == Spec => []PendingKept
<1> QED
  BY QueuesAreCoalesced, DeferredEntitiesStayAlive, WaitingSnapshotsKept, PTL
     DEF PendingKept

-----------------------------------------------------------------------------
(* The newest record wins.                                                   *)

\* The abstract specification's variables.
Deciding == [i \in NetworkIds |-> IF Mapped(i) THEN replicationSnapshots[i].stateRevision
                                             ELSE removedEntityRevisions[i]]
Shown == [i \in NetworkIds |-> Mapped(i)]

\* A snapshot newer than the record that decided its identity shows it.
LEMMA ShowRefines ==
    ASSUME IInv, NEW id \in NetworkIds, NEW snapshot,
           <<id, snapshot>> \in Published,
           Newer(id, snapshot), ShowEntity(id, snapshot)
    PROVE  ReplicatedEntities!Show(id, snapshot.stateRevision)
<1> DEFINE r == snapshot.stateRevision
<1>1. EntityFor(id, snapshot) # NoEntity
  BY EntityForFacts
<1>2. /\ networkIdToEntityMap' =
            [networkIdToEntityMap EXCEPT ![id] = EntityFor(id, snapshot)]
      /\ replicationSnapshots' = [replicationSnapshots EXCEPT ![id] = snapshot]
      /\ removedEntityRevisions' = [removedEntityRevisions EXCEPT ![id] = 0]
  BY DEF ShowEntity
<1>3. Mapped(id)' /\ replicationSnapshots'[id] = snapshot
  BY <1>1, <1>2 DEF IInv, TypeOK, Mapped
<1>4. ASSUME NEW i \in NetworkIds, i # id
      PROVE  /\ Mapped(i)' <=> Mapped(i)
             /\ replicationSnapshots'[i] = replicationSnapshots[i]
             /\ removedEntityRevisions'[i] = removedEntityRevisions[i]
  BY <1>2, <1>4 DEF IInv, TypeOK, Mapped
<1>5. Deciding' = [Deciding EXCEPT ![id] = r]
  BY <1>3, <1>4 DEF Deciding
<1>6. Shown' = [Shown EXCEPT ![id] = TRUE]
  <2>1. \A i \in NetworkIds : Mapped(i)' = IF i = id THEN TRUE ELSE Mapped(i)
    BY <1>3, <1>4, Zenon DEF Mapped
  <2> QED
    BY <2>1, Zenon DEF Shown
<1>7. r > Deciding[id]
  BY DEF Newer, Deciding
<1> QED
  BY <1>5, <1>6, <1>7 DEF ReplicatedEntities!Show, DecidingRevision, Deciding, Shown

\* A removal no older than the record that decided its identity hides it.
LEMMA HideRefines ==
    ASSUME IInv, NEW id \in NetworkIds, NEW r \in Nat,
           Ends(id, r), HideEntity(id, r)
    PROVE  ReplicatedEntities!Hide(id, r)
<1>1. /\ networkIdToEntityMap' = [networkIdToEntityMap EXCEPT ![id] = NoEntity]
      /\ replicationSnapshots' = [replicationSnapshots EXCEPT ![id] = NoSnapshot]
      /\ removedEntityRevisions' = [removedEntityRevisions EXCEPT ![id] = r]
  BY DEF HideEntity
<1>2. ~Mapped(id)' /\ removedEntityRevisions'[id] = r
  BY <1>1 DEF IInv, TypeOK, Mapped
<1>3. ASSUME NEW i \in NetworkIds, i # id
      PROVE  /\ Mapped(i)' <=> Mapped(i)
             /\ replicationSnapshots'[i] = replicationSnapshots[i]
             /\ removedEntityRevisions'[i] = removedEntityRevisions[i]
  BY <1>1, <1>3 DEF IInv, TypeOK, Mapped
<1>4. Deciding' = [Deciding EXCEPT ![id] = r]
  BY <1>2, <1>3 DEF Deciding
<1>5. Shown' = [Shown EXCEPT ![id] = FALSE]
  <2>1. \A i \in NetworkIds : Mapped(i)' = IF i = id THEN FALSE ELSE Mapped(i)
    BY <1>2, <1>3, Zenon DEF Mapped
  <2> QED
    BY <2>1, Zenon DEF Shown
<1>6. r >= Deciding[id]
  BY DEF Ends, Deciding
<1> QED
  BY <1>4, <1>5, <1>6 DEF ReplicatedEntities!Hide, DecidingRevision, Deciding, Shown

\* Only the application of an update decides an identity's state.
LEMMA StepRefines ==
    ASSUME IInv, [Next]_clientVars
    PROVE  [ReplicatedEntities!Next]_<<DecidingRevision, [id \in NetworkIds |-> Mapped(id)]>>
<1> DEFINE id == Head(updates).networkId
           snapshot == Head(updates).snapshot
           r == Head(updates).stateRevision
<1>1. CASE UNCHANGED <<networkIdToEntityMap, replicationSnapshots, removedEntityRevisions>>
  BY <1>1 DEF DecidingRevision, Mapped
<1>2. ASSUME ApplyUpdate
      PROVE  ReplicatedEntities!Next \/ UNCHANGED entityVars
  <2>1. /\ Head(updates) \in QueuedUpdate
        /\ Genuine(Head(updates))
    BY <1>2, HeadFacts DEF ApplyUpdate
  <2>2. id \in NetworkIds /\ r \in Nat
    BY <2>1 DEF QueuedUpdate
  <2>3. CASE ~Head(updates).bRemove /\ Newer(id, snapshot) /\ ShowEntity(id, snapshot)
    <3>1. <<id, snapshot>> \in Published /\ snapshot.stateRevision \in Revisions
      BY <2>1, <2>3, PublishedFacts DEF Genuine
    <3>2. ReplicatedEntities!Show(id, snapshot.stateRevision)
      BY <2>2, <2>3, <3>1, ShowRefines
    <3> QED
      BY <2>2, <3>1, <3>2 DEF ReplicatedEntities!Next
  <2>4. CASE Head(updates).bRemove /\ Ends(id, r) /\ HideEntity(id, r)
    <3>1. r \in Revisions
      BY <2>1, <2>4 DEF Genuine
    <3>2. ReplicatedEntities!Hide(id, r)
      BY <2>2, <2>4, HideRefines
    <3> QED
      BY <2>2, <3>1, <3>2 DEF ReplicatedEntities!Next
  <2> QED
    BY <1>2, <2>3, <2>4 DEF ApplyUpdate
<1>3. CASE ApplyUpdate
  BY <1>1, <1>2, <1>3 DEF entityVars
<1>4. CASE \/ Deliver \/ DrainQueue \/ FinishRun \/ UNCHANGED clientVars
           \/ \E l \in Layouts : ReceiveLayout(l)
           \/ \E k \in Keys \ ReferenceKeys : RegisterKey(k)
  BY <1>1, <1>4 DEF Deliver, ReceiveSnapshot, ReceiveRemoval, DrainQueue, FinishRun,
                    ReceiveLayout, RegisterKey, clientVars, entityVars
<1> QED
  BY <1>3, <1>4 DEF Next, RunQueueSystem

\* The client implements "the newest record wins": however the shards' records
\* are delivered, no late record undoes a newer one, and none brings a removed
\* entity back.
THEOREM NewestRecordAlwaysWins == Spec => NewestRecordWins
<1>1. ClientInit => ReplicatedEntities!Init
  BY DEF ClientInit, ReplicatedEntities!Init, DecidingRevision, Mapped
<1>2. IInv /\ [Next]_clientVars
        => [ReplicatedEntities!Next]_<<DecidingRevision, [id \in NetworkIds |-> Mapped(id)]>>
  BY StepRefines
<1> QED
  BY <1>1, <1>2, SpecIInv, PTL DEF Spec, NewestRecordWins, ReplicatedEntities!Spec

-----------------------------------------------------------------------------
(* What an entity shows.                                                     *)

\* A layout is a definition only if its components and stable entities exist.
DefinitionsResolved ==
    \A l \in definitions : l \ ReferenceKeys \subseteq registered

\* What is shown, or waits, was published; what waits for an entity of this run
\* is its latest snapshot (it is not compared with that).
SnapshotsGenuine ==
    /\ \A id \in NetworkIds : Mapped(id) => <<id, replicationSnapshots[id]>> \in Published
    /\ \A d \in deferredEntityLayouts :
          /\ <<d[1][1], d[2]>> \in Published
          /\ d[1] \in created => d[2] = replicationSnapshots[d[1][1]]

CurrentInv == DefinitionsResolved /\ SnapshotsGenuine /\ AppliedValuesCurrent

\* A snapshot with a known layout is written as it is.
LEMMA AppliedShows ==
    ASSUME NEW old, NEW snapshot \in Snapshot, NEW map,
           snapshot.layoutId \ ReferenceKeys \subseteq registered,
           NEW k \in snapshot.layoutId \ ReferenceKeys, snapshot.values[k] # NoValue
    PROVE  Applied(old, snapshot, map)[k] = snapshot.values[k]
<1>1. k \in Keys
  BY DEF Snapshot, LayoutId
<1>2. Resolves(k, map)
  BY DEF Resolves
<1> QED
  BY <1>1, <1>2 DEF Applied

\* A live entity is that of its own identity.
LEMMA OwnEntity ==
    ASSUME IInv, NEW e \in localEntities
    PROVE  e[1] \in NetworkIds /\ Mapped(e[1]) /\ networkIdToEntityMap[e[1]] = e
<1>1. PICK i \in NetworkIds : Mapped(i) /\ networkIdToEntityMap[i] = e
  BY DEF IInv, MapMatchesWorld
<1>2. e[1] = i
  BY <1>1 DEF IInv, MapMatchesWorld
<1> QED
  BY <1>1, <1>2

\* Steps that only tell the client of layouts, or of updates to come, show
\* nothing else.
LEMMA CurrentKept ==
    ASSUME CurrentInv, UNCHANGED entityVars,
           \/ UNCHANGED <<definitions, registered>>
           \/ \E l \in Layouts : ReceiveLayout(l)
           \/ \E k \in Keys \ ReferenceKeys : RegisterKey(k)
    PROVE  CurrentInv'
<1>1. DefinitionsResolved'
  <2>1. ASSUME NEW l \in Layouts, ReceiveLayout(l) PROVE DefinitionsResolved'
    <3>1. CASE Valid(l)
      <4>1. registered' = registered /\ definitions' \subseteq definitions \cup {l}
        BY <2>1 DEF ReceiveLayout
      <4> QED
        BY <3>1, <4>1 DEF CurrentInv, DefinitionsResolved, Valid, Resolves
    <3>2. CASE ~Valid(l)
      <4>1. registered' = registered /\ definitions' = definitions
        BY <2>1, <3>2 DEF ReceiveLayout
      <4> QED
        BY <4>1 DEF CurrentInv, DefinitionsResolved
    <3> QED
      BY <3>1, <3>2
  <2>2. ASSUME NEW k \in Keys \ ReferenceKeys, RegisterKey(k) PROVE DefinitionsResolved'
    BY <2>2 DEF RegisterKey, CurrentInv, DefinitionsResolved
  <2> QED
    BY <2>1, <2>2 DEF CurrentInv, DefinitionsResolved
<1>2. SnapshotsGenuine' /\ AppliedValuesCurrent'
  BY DEF CurrentInv, SnapshotsGenuine, AppliedValuesCurrent, ShowsLatest, Waits, Mapped, entityVars
<1> QED
  BY <1>1, <1>2 DEF CurrentInv

\* A snapshot that is shown is written, or waits; other entities show what they did.
LEMMA CurrentAfterShow ==
    ASSUME IInv, CurrentInv, NEW id \in NetworkIds, NEW snapshot,
           <<id, snapshot>> \in Published, \A e \in created : e[1] # id,
           ShowEntity(id, snapshot), UNCHANGED layoutVars
    PROVE  CurrentInv'
<1> DEFINE entity == EntityFor(id, snapshot)
<1>1. entity \in LocalEntity /\ entity[1] = id /\ entity # NoEntity /\ snapshot \in Snapshot
  BY EntityForFacts, PublishedAssumption
<1>2. /\ networkIdToEntityMap' = [networkIdToEntityMap EXCEPT ![id] = entity]
      /\ created' = created \cup ({entity} \ localEntities)
      /\ replicationSnapshots' = [replicationSnapshots EXCEPT ![id] = snapshot]
      /\ \/ /\ snapshot.layoutId \in definitions
            /\ content' = [content EXCEPT ![entity] =
                             Applied(@, snapshot, networkIdToEntityMap')]
            /\ UNCHANGED deferredEntityLayouts
         \/ /\ deferredEntityLayouts' = deferredEntityLayouts \cup {<<entity, snapshot>>}
            /\ UNCHANGED content
  BY DEF ShowEntity
<1> HIDE DEF entity
<1>3. /\ networkIdToEntityMap'[id] = entity /\ replicationSnapshots'[id] = snapshot
      /\ \A i \in NetworkIds \ {id} :
            /\ networkIdToEntityMap'[i] = networkIdToEntityMap[i]
            /\ replicationSnapshots'[i] = replicationSnapshots[i]
  BY <1>2 DEF IInv, TypeOK
<1>4. DefinitionsResolved'
  BY DEF CurrentInv, DefinitionsResolved, layoutVars
<1>5. SnapshotsGenuine'
  <2>1. \A i \in NetworkIds : Mapped(i)' => <<i, replicationSnapshots'[i]>> \in Published
    <3> TAKE i \in NetworkIds
    <3>1. CASE i = id
      BY <1>3, <3>1
    <3>2. CASE i # id
      BY <1>3, <3>2 DEF CurrentInv, SnapshotsGenuine, Mapped
    <3> QED
      BY <3>1, <3>2
  <2>2. ASSUME NEW d \in deferredEntityLayouts
        PROVE  /\ <<d[1][1], d[2]>> \in Published
               /\ d[1] \in created' => d[2] = replicationSnapshots'[d[1][1]]
    <3>1. d[1] \in localEntities
      BY DEF IInv, DeferredEntitiesAlive
    <3>2. d[1][1] \in NetworkIds
      BY <3>1, OwnEntity
    <3>3. d[1] \in created' => d[1] \in created
      BY <1>2, <3>1
    <3>4. d[1] \in created => d[2] = replicationSnapshots'[d[1][1]]
      BY <1>3, <3>2 DEF CurrentInv, SnapshotsGenuine
    <3> QED
      BY <3>3, <3>4 DEF CurrentInv, SnapshotsGenuine
  <2>3. ASSUME NEW d, d = <<entity, snapshot>>
        PROVE  <<d[1][1], d[2]>> \in Published /\ d[2] = replicationSnapshots'[d[1][1]]
    BY <1>1, <1>3, <2>3
  <2>4. \A d \in deferredEntityLayouts' : d \in deferredEntityLayouts \/ d = <<entity, snapshot>>
    BY <1>2
  <2> QED
    BY <2>1, <2>2, <2>3, <2>4 DEF SnapshotsGenuine
<1>6. AppliedValuesCurrent'
  <2> SUFFICES ASSUME NEW i \in NetworkIds, Mapped(i)', ~Waits(i)',
                      NEW k \in replicationSnapshots'[i].layoutId \ ReferenceKeys,
                      replicationSnapshots'[i].values[k] # NoValue
               PROVE  content'[networkIdToEntityMap'[i]][k] = replicationSnapshots'[i].values[k]
    BY DEF AppliedValuesCurrent, ShowsLatest
  <2>1. CASE i = id
    <3>1. ~(<<entity, snapshot>> \in deferredEntityLayouts')
      BY <1>3, <2>1 DEF Waits
    <3>2. snapshot.layoutId \in definitions
          /\ content' = [content EXCEPT ![entity] =
                           Applied(content[entity], snapshot, networkIdToEntityMap')]
      BY <1>2, <3>1
    <3>3. content'[entity] = Applied(content[entity], snapshot, networkIdToEntityMap')
      BY <1>1, <3>2 DEF IInv, TypeOK
    <3>4. snapshot.layoutId \ ReferenceKeys \subseteq registered
      BY <3>2 DEF CurrentInv, DefinitionsResolved
    <3> QED
      BY <1>1, <1>3, <2>1, <3>3, <3>4, AppliedShows
  <2>2. CASE i # id
    <3>1. /\ networkIdToEntityMap'[i] = networkIdToEntityMap[i] /\ Mapped(i)
          /\ replicationSnapshots'[i] = replicationSnapshots[i]
      BY <1>3, <2>2 DEF Mapped
    <3>2. ~Waits(i)
      BY <1>2, <3>1 DEF Waits
    <3>3. ShowsLatest(i)
      BY <3>1, <3>2 DEF CurrentInv, AppliedValuesCurrent
    <3>4. networkIdToEntityMap[i] # entity
      BY <1>1, <2>2, <3>1 DEF IInv, MapMatchesWorld
    <3>5. networkIdToEntityMap[i] \in LocalEntity
      BY <3>1 DEF IInv, TypeOK, Mapped
    <3>6. content'[networkIdToEntityMap[i]] = content[networkIdToEntityMap[i]]
      BY <1>2, <3>4, <3>5 DEF IInv, TypeOK
    <3> QED
      BY <3>1, <3>3, <3>6 DEF ShowsLatest
  <2> QED
    BY <2>1, <2>2
<1> QED
  BY <1>4, <1>5, <1>6 DEF CurrentInv

\* Where an entity ends, the others lose only their references to it.
LEMMA CurrentAfterHide ==
    ASSUME IInv, CurrentInv, NEW id \in NetworkIds, NEW revision, \A e \in created : e[1] # id,
           HideEntity(id, revision), UNCHANGED layoutVars
    PROVE  CurrentInv'
<1>1. /\ networkIdToEntityMap' = [networkIdToEntityMap EXCEPT ![id] = NoEntity]
      /\ content' = [e \in LocalEntity |->
                       [k \in Keys |->
                          IF e = networkIdToEntityMap[id] \/ Names(k, id) THEN Absent
                          ELSE content[e][k]]]
      /\ replicationSnapshots' = [replicationSnapshots EXCEPT ![id] = NoSnapshot]
      /\ deferredEntityLayouts' =
           {d \in deferredEntityLayouts : d[1][1] # id \/ d[1] \in created}
      /\ UNCHANGED created
  BY DEF HideEntity, DeferredWithout
<1>2. /\ networkIdToEntityMap'[id] = NoEntity
      /\ \A i \in NetworkIds \ {id} :
            /\ networkIdToEntityMap'[i] = networkIdToEntityMap[i]
            /\ replicationSnapshots'[i] = replicationSnapshots[i]
  BY <1>1 DEF IInv, TypeOK
<1>3. DefinitionsResolved'
  BY DEF CurrentInv, DefinitionsResolved, layoutVars
<1>4. SnapshotsGenuine'
  <2>1. \A i \in NetworkIds : Mapped(i)' => <<i, replicationSnapshots'[i]>> \in Published
    BY <1>2 DEF CurrentInv, SnapshotsGenuine, Mapped
  <2>2. ASSUME NEW d \in deferredEntityLayouts'
        PROVE  /\ <<d[1][1], d[2]>> \in Published
               /\ d[1] \in created' => d[2] = replicationSnapshots'[d[1][1]]
    <3>1. d \in deferredEntityLayouts /\ d[1][1] # id
      BY <1>1
    <3>2. d[1][1] \in NetworkIds
      BY <3>1, OwnEntity DEF IInv, DeferredEntitiesAlive
    <3> QED
      BY <1>1, <1>2, <3>1, <3>2 DEF CurrentInv, SnapshotsGenuine
  <2> QED
    BY <2>1, <2>2 DEF SnapshotsGenuine
<1>5. AppliedValuesCurrent'
  <2> SUFFICES ASSUME NEW i \in NetworkIds, Mapped(i)', ~Waits(i)',
                      NEW k \in replicationSnapshots'[i].layoutId \ ReferenceKeys,
                      replicationSnapshots'[i].values[k] # NoValue
               PROVE  content'[networkIdToEntityMap'[i]][k] = replicationSnapshots'[i].values[k]
    BY DEF AppliedValuesCurrent, ShowsLatest
  <2>1. i # id
    BY <1>2 DEF Mapped
  <2>2. /\ networkIdToEntityMap'[i] = networkIdToEntityMap[i] /\ Mapped(i)
        /\ replicationSnapshots'[i] = replicationSnapshots[i]
    BY <1>2, <2>1 DEF Mapped
  <2>3. networkIdToEntityMap[i] \in LocalEntity /\ networkIdToEntityMap[i][1] = i
    BY <2>2 DEF IInv, TypeOK, MapMatchesWorld, Mapped
  <2>4. ~Waits(i)
    <3> DEFINE d == <<networkIdToEntityMap[i], replicationSnapshots[i]>>
    <3>1. d[1][1] # id
      BY <2>1, <2>3
    <3> QED
      BY <1>1, <2>2, <3>1 DEF Waits
  <2>5. ShowsLatest(i)
    BY <2>2, <2>4 DEF CurrentInv, AppliedValuesCurrent
  <2>6. networkIdToEntityMap[i] # networkIdToEntityMap[id]
    BY <2>1, <2>2, <2>3 DEF IInv, MapMatchesWorld, Mapped
  <2>7. k \in Keys /\ ~Names(k, id)
    BY <2>2 DEF IInv, TypeOK, Snapshot, LayoutId, Names
  <2>8. content'[networkIdToEntityMap[i]][k] = content[networkIdToEntityMap[i]][k]
    BY <1>1, <2>3, <2>6, <2>7
  <2> QED
    BY <2>2, <2>5, <2>8 DEF ShowsLatest
<1> QED
  BY <1>3, <1>4, <1>5 DEF CurrentInv

\* The end of a run applies an entity's latest snapshot, or none.
LEMMA CurrentAfterRun == IInv /\ CurrentInv /\ FinishRun => CurrentInv'
<1> SUFFICES ASSUME IInv, CurrentInv, FinishRun PROVE CurrentInv'
  OBVIOUS
<1> DEFINE ready == ReadySnapshots(definitions')
           chosen(e) == CHOOSE d \in ready : d[1] = e
<1>1. /\ definitions' = definitions \cup {l \in pendingLayouts : Valid(l)}
      /\ UNCHANGED <<networkIdToEntityMap, replicationSnapshots, registered>>
      /\ created' = {}
      /\ deferredEntityLayouts' = StillWaiting(definitions')
      /\ content' = [e \in LocalEntity |->
                       IF \E d \in ready : d[1] = e
                       THEN Applied(content[e], chosen(e)[2], networkIdToEntityMap)
                       ELSE content[e]]
  BY DEF FinishRun
<1>2. DefinitionsResolved'
  BY <1>1 DEF CurrentInv, DefinitionsResolved, Valid, Resolves
<1>3. SnapshotsGenuine'
  BY <1>1 DEF CurrentInv, SnapshotsGenuine, StillWaiting, Mapped
<1>4. ASSUME NEW d \in ready
      PROVE  /\ d \in deferredEntityLayouts /\ d[1] \in localEntities
             /\ d[2].layoutId \in definitions'
             /\ d[2] = replicationSnapshots[d[1][1]]
  <2>1. /\ d \in deferredEntityLayouts /\ d[1] \in localEntities
        /\ d[2].layoutId \in definitions'
        /\ \/ d[1] \in created
           \/ replicationSnapshots[d[1][1]] = NoSnapshot
           \/ replicationSnapshots[d[1][1]].stateRevision = d[2].stateRevision
    BY DEF ReadySnapshots
  <2>2. d[1][1] \in NetworkIds /\ Mapped(d[1][1])
    BY <2>1, OwnEntity
  <2>3. CASE d[1] \in created
    BY <2>1, <2>3 DEF CurrentInv, SnapshotsGenuine
  <2>4. CASE replicationSnapshots[d[1][1]].stateRevision = d[2].stateRevision
    <3> DEFINE i == d[1][1]
               p == <<i, replicationSnapshots[i]>>
               q == <<i, d[2]>>
    <3>1. p \in Published /\ q \in Published
      BY <2>1, <2>2 DEF CurrentInv, SnapshotsGenuine
    <3>2. p = q
      BY <2>4, <3>1, PublishedAssumption
    <3> QED
      BY <2>1, <3>2
  <2>5. replicationSnapshots[d[1][1]] # NoSnapshot
    BY <2>2 DEF IInv, MapMatchesWorld
  <2> QED
    BY <2>1, <2>3, <2>4, <2>5
<1> HIDE DEF ready
<1>5. AppliedValuesCurrent'
  <2> SUFFICES ASSUME NEW i \in NetworkIds, Mapped(i), ~Waits(i)',
                      NEW k \in replicationSnapshots[i].layoutId \ ReferenceKeys,
                      replicationSnapshots[i].values[k] # NoValue
               PROVE  content'[networkIdToEntityMap[i]][k] = replicationSnapshots[i].values[k]
    BY <1>1 DEF AppliedValuesCurrent, ShowsLatest, Mapped
  <2> DEFINE e == networkIdToEntityMap[i]
             latest == replicationSnapshots[i]
  <2>1. e \in LocalEntity /\ e[1] = i /\ e \in localEntities /\ latest \in Snapshot
    BY DEF IInv, TypeOK, MapMatchesWorld, Mapped
  <2>2. CASE \E d \in ready : d[1] = e
    <3>1. chosen(e) \in ready /\ chosen(e)[1] = e
      BY <2>2
    <3>2. chosen(e)[2] = latest /\ latest.layoutId \in definitions'
      BY <1>4, <2>1, <3>1
    <3>3. latest.layoutId \ ReferenceKeys \subseteq registered
      BY <1>1, <1>2, <3>2 DEF DefinitionsResolved
    <3>4. content'[e] = Applied(content[e], latest, networkIdToEntityMap)
      BY <1>1, <2>1, <2>2, <3>2
    <3> HIDE DEF e, chosen
    <3> QED
      BY <2>1, <3>3, <3>4, AppliedShows DEF e
  <2>3. CASE ~\E d \in ready : d[1] = e
    <3>1. ASSUME Waits(i) PROVE FALSE
      <4> DEFINE d == <<e, latest>>
      <4>1. d \in deferredEntityLayouts /\ d \notin deferredEntityLayouts'
        BY <1>1, <3>1 DEF Waits
      <4>2. latest.layoutId \in definitions'
        BY <1>1, <4>1 DEF StillWaiting
      <4>3. d \in ready
        BY <2>1, <4>1, <4>2 DEF ready, ReadySnapshots
      <4> QED
        BY <2>3, <4>3
    <3>2. ShowsLatest(i)
      BY <3>1 DEF CurrentInv, AppliedValuesCurrent
    <3>3. content'[e] = content[e]
      BY <1>1, <2>1, <2>3
    <3> QED
      BY <3>2, <3>3 DEF ShowsLatest
  <2> QED
    BY <2>2, <2>3
<1> QED
  BY <1>2, <1>3, <1>5 DEF CurrentInv

\* A client never shows an older payload than that of an entity's latest
\* snapshot, unless the snapshot still waits for its layout: no snapshot that
\* waited is written over a newer one.
THEOREM AppliedValuesStayCurrent == Spec => []AppliedValuesCurrent
<1>1. ClientInit => CurrentInv
  BY DEF ClientInit, CurrentInv, DefinitionsResolved, SnapshotsGenuine, AppliedValuesCurrent, Mapped
<1>2. IInv /\ CurrentInv /\ [Next]_clientVars => CurrentInv'
  <2> SUFFICES ASSUME IInv, CurrentInv, [Next]_clientVars PROVE CurrentInv'
    OBVIOUS
  <2>1. CASE ApplyUpdate
    <3> DEFINE id == Head(updates).networkId
    <3>1. /\ applying /\ updates # <<>> /\ updates' = Tail(updates)
          /\ UNCHANGED layoutVars
      BY <2>1 DEF ApplyUpdate
    <3>2. id \in NetworkIds /\ Genuine(Head(updates))
      BY <3>1, HeadFacts DEF QueuedUpdate
    <3>3. \A e \in created : e[1] # id
      <4>1. PICK i \in 1 .. Len(updates) : Head(updates) = updates[i]
        BY <3>1, TailFacts DEF IInv, TypeOK, QueuesCoalesced
      <4> QED
        BY <4>1 DEF IInv, CreatedOnce
    <3>4. CASE UNCHANGED entityVars
      BY <3>1, <3>4, CurrentKept DEF layoutVars
    <3>5. CASE ~Head(updates).bRemove /\ ShowEntity(id, Head(updates).snapshot)
      BY <3>1, <3>2, <3>3, <3>5, CurrentAfterShow DEF Genuine
    <3>6. CASE HideEntity(id, Head(updates).stateRevision)
      BY <3>1, <3>2, <3>3, <3>6, CurrentAfterHide
    <3> QED
      BY <2>1, <3>4, <3>5, <3>6 DEF ApplyUpdate
  <2>2. CASE FinishRun
    BY <2>2, CurrentAfterRun
  <2>3. CASE Deliver \/ DrainQueue \/ UNCHANGED clientVars
    BY <2>3, CurrentKept
       DEF Deliver, ReceiveSnapshot, ReceiveRemoval, DrainQueue, clientVars, layoutVars
  <2>4. CASE \/ \E l \in Layouts : ReceiveLayout(l)
             \/ \E k \in Keys \ ReferenceKeys : RegisterKey(k)
    <3>1. UNCHANGED entityVars
      BY <2>4 DEF ReceiveLayout, RegisterKey
    <3> QED
      BY <2>4, <3>1, CurrentKept
  <2> QED
    BY <2>1, <2>2, <2>3, <2>4 DEF Next, RunQueueSystem
<1>3. CurrentInv => AppliedValuesCurrent
  BY DEF CurrentInv
<1> QED
  BY <1>1, <1>2, <1>3, SpecIInv, PTL DEF Spec
=============================================================================
