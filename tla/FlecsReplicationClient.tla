----------------------- MODULE FlecsReplicationClient -----------------------
(***************************************************************************)
(* The client's side of UFlecsNetworkWorldSubsystem: records received from   *)
(* the shards are queued, and once a frame the replication queue system      *)
(* applies the queue, consumes the layouts it can resolve by now and applies *)
(* the snapshots that waited for them.                                       *)
(*                                                                          *)
(* The shards are the environment here: they deliver any record the          *)
(* authority ever published, in any order and any number of times (one       *)
(* shard's records come in order; an entity that changes shards has no order *)
(* between them).  FlecsReplication puts the authority and the shards there. *)
(*                                                                          *)
(* Everything runs on the game thread.  The system's run is not interleaved  *)
(* with deliveries, but is taken one queued update at a time.  Its commands  *)
(* are deferred: an entity created in a run gets its FFlecsNetworkId          *)
(* component when the run has ended.                                         *)
(***************************************************************************)
EXTENDS FlecsReplicationRecords

CONSTANT Published   \* pairs <<identity, snapshot>> the authority published

Layouts == {p[2].layoutId : p \in Published}

\* No two snapshots of an identity have the same revision (FillFromEntity).
ASSUME PublishedAssumption ==
    /\ Published \subseteq NetworkIds \X Snapshot
    /\ \A p \in Published : p[2].stateRevision \in Revisions
    /\ \A p, q \in Published :
          p[1] = q[1] /\ p[2].stateRevision = q[2].stateRevision => p = q

VARIABLES
    updateQueue,           \* ReplicationUpdateQueue
    applying,              \* the queue system is running
    updates,               \* the drained updates it has yet to apply
    created,               \* entities it has created so far in this run
    networkIdToEntityMap,  \* NetworkIdToEntityMap
    replicationSnapshots,  \* ReplicationSnapshots
    removedEntityRevisions,\* RemovedEntityRevisions, 0 for no entry
    deferredEntityLayouts, \* DeferredEntityLayouts: pairs <<entity, snapshot>>
    definitions,           \* the layout registry's Definitions
    pendingLayouts,        \* the layout registry's PendingLayouts
    registered,            \* keys whose component or stable entity exists here
    localEntities,         \* live local entities created for identities
    content                \* the replicated keys each of them has

queueVars == <<updateQueue, applying, updates>>
entityVars == <<created, networkIdToEntityMap, replicationSnapshots,
                removedEntityRevisions, deferredEntityLayouts, localEntities, content>>
layoutVars == <<definitions, pendingLayouts, registered>>
clientVars == <<queueVars, entityVars, layoutVars>>

\* A local entity is told from others by its identity and by the revision of
\* the snapshot that created it: a re-creation needs a newer one.
LocalEntity == NetworkIds \X Revisions
NoEntity == <<>>

TypeOK ==
    /\ updateQueue \in Seq(QueuedUpdate)
    /\ applying \in BOOLEAN
    /\ updates \in Seq(QueuedUpdate)
    /\ created \subseteq LocalEntity
    /\ networkIdToEntityMap \in [NetworkIds -> LocalEntity \cup {NoEntity}]
    /\ replicationSnapshots \in [NetworkIds -> Snapshot]
    /\ removedEntityRevisions \in [NetworkIds -> Nat]
    /\ deferredEntityLayouts \subseteq LocalEntity \X Snapshot
    /\ definitions \subseteq LayoutId
    /\ pendingLayouts \subseteq LayoutId
    /\ registered \subseteq Keys
    /\ localEntities \subseteq LocalEntity
    /\ content \in [LocalEntity -> Content]

ClientInit ==
    /\ updateQueue = <<>>
    /\ applying = FALSE
    /\ updates = <<>>
    /\ created = {}
    /\ networkIdToEntityMap = [id \in NetworkIds |-> NoEntity]
    /\ replicationSnapshots = [id \in NetworkIds |-> NoSnapshot]
    /\ removedEntityRevisions = [id \in NetworkIds |-> 0]
    /\ deferredEntityLayouts = {}
    /\ definitions = {}
    /\ pendingLayouts = {}
    /\ registered = {}
    /\ localEntities = {}
    /\ content = [e \in LocalEntity |-> NoContent]

-----------------------------------------------------------------------------
(* Deliveries                                                                *)

\* ReceiveNetworkEntitySnapshot
ReceiveSnapshot(id, snapshot) ==
    /\ ~applying
    /\ updateQueue' = EnqueueSnapshot(updateQueue, id, snapshot)
    /\ UNCHANGED <<applying, updates, entityVars, layoutVars>>

\* RemoveReceivedNetworkEntity
ReceiveRemoval(id, revision) ==
    /\ ~applying
    /\ updateQueue' = EnqueueRemoval(updateQueue, id, revision)
    /\ UNCHANGED <<applying, updates, entityVars, layoutVars>>

-----------------------------------------------------------------------------
(* FFlecsReplicationLayoutRegistry                                           *)

\* ResolveToId finds the component or stable entity of a key, or the local
\* entity of the identity a reference key names.
Resolves(k, map) ==
    IF k \in ReferenceKeys THEN map[TargetOf[k]] # NoEntity
                           ELSE k \in registered

\* ValidateLayoutDefinition
Valid(layout) == \A k \in layout : Resolves(k, networkIdToEntityMap)

\* AddRemoteDefinition: a definition that does not resolve yet is kept aside.
ReceiveLayout(layout) ==
    /\ ~applying
    /\ layout \notin definitions
    /\ \/ /\ Valid(layout)
          /\ definitions' = definitions \cup {layout}
          /\ UNCHANGED pendingLayouts
       \/ /\ ~Valid(layout)
          /\ pendingLayouts' = pendingLayouts \cup {layout}
          /\ UNCHANGED definitions
    /\ UNCHANGED <<registered, queueVars, entityVars>>

\* Game code registers a component type or creates a stable-named entity.
RegisterKey(k) ==
    /\ ~applying
    /\ k \notin registered
    /\ registered' = registered \cup {k}
    /\ UNCHANGED <<definitions, pendingLayouts, queueVars, entityVars>>

-----------------------------------------------------------------------------
(* Applying a snapshot                                                       *)

\* Mutant: a payload is written without removing the layout's keys first, and
\* only where the key was absent.
AppliedOnce(old, snapshot, map) ==
    [k \in Keys |->
        IF /\ k \in snapshot.layoutId /\ Resolves(k, map)
           /\ snapshot.values[k] # NoValue /\ old[k] = Absent
        THEN snapshot.values[k]
        ELSE old[k]]

\* ApplySnapshotToEntity: every key of the layout that resolves is removed,
\* then those with a payload are set.
Applied(old, snapshot, map) ==
    [k \in Keys |->
        IF k \in snapshot.layoutId /\ Resolves(k, map)
        THEN IF snapshot.values[k] # NoValue THEN snapshot.values[k] ELSE Absent
        ELSE old[k]]

\* Mutant: the tombstone is not consulted.
NewerIgnoringRemovals(id, snapshot) ==
    snapshot.stateRevision > replicationSnapshots[id].stateRevision

\* Mutant: snapshots are applied in an unbroken sequence.
NewerByOne(id, snapshot) ==
    /\ snapshot.stateRevision = replicationSnapshots[id].stateRevision + 1
    /\ snapshot.stateRevision > removedEntityRevisions[id]

\* A snapshot is applied if it is newer than the identity's last snapshot and
\* than its removal.
Newer(id, snapshot) ==
    /\ snapshot.stateRevision > replicationSnapshots[id].stateRevision
    /\ snapshot.stateRevision > removedEntityRevisions[id]

\* Mutant: the map's answer is used without looking whether there is one.
EntityForUnchecked(id, snapshot) == networkIdToEntityMap[id]

\* Mutant: every snapshot creates an entity.
EntityForAlwaysNew(id, snapshot) == <<id, snapshot.stateRevision>>

\* The entity a snapshot is for: the mapped one, or a new one.
EntityFor(id, snapshot) ==
    IF networkIdToEntityMap[id] # NoEntity THEN networkIdToEntityMap[id]
    ELSE <<id, snapshot.stateRevision>>

\* ApplyReceivedNetworkEntitySnapshot, past the two revision checks: an
\* unmapped identity gets a local entity, and the snapshot is applied to it or
\* waits for its layout.
ShowEntity(id, snapshot) ==
    LET entity == EntityFor(id, snapshot)
    IN  /\ networkIdToEntityMap' = [networkIdToEntityMap EXCEPT ![id] = entity]
        /\ localEntities' = localEntities \cup {entity}
        /\ created' = created \cup ({entity} \ localEntities)
        /\ replicationSnapshots' = [replicationSnapshots EXCEPT ![id] = snapshot]
        /\ removedEntityRevisions' = [removedEntityRevisions EXCEPT ![id] = 0]
        /\ \/ /\ snapshot.layoutId \in definitions
              /\ content' = [content EXCEPT ![entity] =
                               Applied(@, snapshot, networkIdToEntityMap')]
              /\ UNCHANGED deferredEntityLayouts
           \/ /\ snapshot.layoutId \notin definitions
              /\ deferredEntityLayouts' =
                   deferredEntityLayouts \cup {<<entity, snapshot>>}
              /\ UNCHANGED content

-----------------------------------------------------------------------------
(* Applying a removal                                                        *)

\* Mutant: a removal is not compared with the last snapshot.
EndsWhateverIsShown(id, revision) == revision >= removedEntityRevisions[id]

\* A removal is refused if the last snapshot or removal is newer.
Ends(id, revision) ==
    /\ revision >= replicationSnapshots[id].stateRevision
    /\ revision >= removedEntityRevisions[id]

\* Mutant: the snapshots of a removed entity go on waiting.
DeferredWithoutNothing(id) == deferredEntityLayouts

\* The waiting snapshots after a removal: those of the entity are found by the
\* FFlecsNetworkId it carries.
DeferredWithout(id) ==
    {d \in deferredEntityLayouts : d[1][1] # id \/ d[1] \in created}

Names(k, id) == k \in ReferenceKeys /\ TargetOf[k] = id

\* ApplyReceivedNetworkEntityRemoval, past the two revision checks (so the
\* maximum it records is the removal's own revision).  The pairs with a
\* destroyed entity are removed from every other (OnDeleteTarget, by default).
HideEntity(id, revision) ==
    LET entity == networkIdToEntityMap[id]
    IN  /\ removedEntityRevisions' = [removedEntityRevisions EXCEPT ![id] = revision]
        /\ networkIdToEntityMap' = [networkIdToEntityMap EXCEPT ![id] = NoEntity]
        /\ localEntities' = localEntities \ {entity}
        /\ content' = [e \in LocalEntity |->
                         [k \in Keys |-> IF e = entity \/ Names(k, id) THEN Absent
                                         ELSE content[e][k]]]
        /\ replicationSnapshots' = [replicationSnapshots EXCEPT ![id] = NoSnapshot]
        /\ deferredEntityLayouts' = DeferredWithout(id)
        /\ UNCHANGED created

-----------------------------------------------------------------------------
(* The replication queue system's run                                        *)

\* ApplyQueuedReplicationUpdates begins by taking the whole queue.
DrainQueue ==
    /\ ~applying
    /\ applying' = TRUE
    /\ updates' = updateQueue
    /\ updateQueue' = <<>>
    /\ UNCHANGED <<entityVars, layoutVars>>

\* Each update is applied or, when it is stale, dropped.
ApplyUpdate ==
    /\ applying
    /\ updates # <<>>
    /\ updates' = Tail(updates)
    /\ LET update == Head(updates)
           id == update.networkId
       IN  \/ /\ ~update.bRemove
              /\ Newer(id, update.snapshot)
              /\ ShowEntity(id, update.snapshot)
           \/ /\ update.bRemove
              /\ Ends(id, update.stateRevision)
              /\ HideEntity(id, update.stateRevision)
           \/ /\ \/ ~update.bRemove /\ ~Newer(id, update.snapshot)
                 \/ update.bRemove /\ ~Ends(id, update.stateRevision)
              /\ UNCHANGED entityVars
    /\ UNCHANGED <<updateQueue, applying, layoutVars>>

\* Mutant: the comparison with the latest snapshot is inverted.
ReadySnapshotsSuperseded(known) ==
    {d \in deferredEntityLayouts :
        /\ d[2].layoutId \in known
        /\ d[1] \in localEntities
        /\ replicationSnapshots[d[1][1]].stateRevision # d[2].stateRevision}

\* The waiting snapshots ApplyDeferredEntityLayouts applies, out of those
\* whose layout is known: an identity's latest.  An entity created in this run
\* does not carry its FFlecsNetworkId yet, and its snapshot is not compared.
ReadySnapshots(known) ==
    {d \in deferredEntityLayouts :
        /\ d[2].layoutId \in known
        /\ d[1] \in localEntities
        /\ LET latest == replicationSnapshots[d[1][1]]
           IN  \/ d[1] \in created
               \/ latest = NoSnapshot
               \/ /\ latest.stateRevision = d[2].stateRevision
                  /\ latest.layoutId = d[2].layoutId}

\* The snapshots whose layout is still unknown.
StillWaiting(known) ==
    {d \in deferredEntityLayouts : d[2].layoutId \notin known}

\* The run ends with TryConsumePendingLayouts and ApplyDeferredEntityLayouts,
\* and the deferred commands take effect.
FinishRun ==
    /\ applying
    /\ updates = <<>>
    /\ applying' = FALSE
    /\ created' = {}
    /\ definitions' = definitions \cup {l \in pendingLayouts : Valid(l)}
    /\ pendingLayouts' = {l \in pendingLayouts : ~Valid(l)}
    /\ LET ready == ReadySnapshots(definitions')
       IN  content' =
             [e \in LocalEntity |->
                IF \E d \in ready : d[1] = e
                THEN Applied(content[e], (CHOOSE d \in ready : d[1] = e)[2],
                             networkIdToEntityMap)
                ELSE content[e]]
    /\ deferredEntityLayouts' = StillWaiting(definitions')
    /\ UNCHANGED <<updateQueue, updates, networkIdToEntityMap, replicationSnapshots,
                   removedEntityRevisions, localEntities, registered>>

RunQueueSystem == DrainQueue \/ ApplyUpdate \/ FinishRun

-----------------------------------------------------------------------------
(* The client with the shards as its environment                             *)

Deliver ==
    \E p \in Published :
        \/ ReceiveSnapshot(p[1], p[2])
        \/ ReceiveRemoval(p[1], p[2].stateRevision)

Next ==
    \/ Deliver
    \/ \E l \in Layouts : ReceiveLayout(l)
    \/ \E k \in Keys \ ReferenceKeys : RegisterKey(k)
    \/ RunQueueSystem

Spec == ClientInit /\ [][Next]_clientVars

\* The Flecs pipeline runs the queue system every frame.
FairSpec == Spec /\ WF_clientVars(RunQueueSystem)

-----------------------------------------------------------------------------
(* Properties                                                                *)

Mapped(id) == networkIdToEntityMap[id] # NoEntity

\* One pending update per identity, before and while the queue is applied: the
\* position of an update never decides which of two records wins.
QueuesCoalesced == Coalesced(updateQueue) /\ Coalesced(updates)

\* The identity map, the live local entities, the stored snapshots and the
\* tombstones tell one story: a live entity per mapped identity, a snapshot
\* exactly for those, a tombstone only for others.
MapMatchesWorld ==
    /\ localEntities = {networkIdToEntityMap[id] : id \in {i \in NetworkIds : Mapped(i)}}
    /\ \A id \in NetworkIds :
          /\ Mapped(id) => networkIdToEntityMap[id][1] = id
          /\ Mapped(id) <=> replicationSnapshots[id] # NoSnapshot
          /\ removedEntityRevisions[id] > 0 => ~Mapped(id)

\* A snapshot that waits for its layout belongs to a live entity, whatever was
\* removed meanwhile (the ensure of ApplyDeferredEntityLayouts, "Deferred
\* entity handle is not valid").
DeferredEntitiesAlive ==
    \A d \in deferredEntityLayouts : d[1] \in localEntities

\* The latest snapshot of an entity is never lost for want of its layout.
WaitingSnapshotKept ==
    \A id \in NetworkIds :
        Mapped(id) /\ replicationSnapshots[id].layoutId \notin definitions
            => <<networkIdToEntityMap[id], replicationSnapshots[id]>>
                  \in deferredEntityLayouts

\* What waits is kept, and only that: updates before they are applied, snapshots
\* until their layout is known.
PendingKept == QueuesCoalesced /\ DeferredEntitiesAlive /\ WaitingSnapshotKept

\* What an entity shows is its latest snapshot's payloads, never an older
\* one's, however deferred snapshots and deliveries interleave.
\* (A reference whose target was missing when the snapshot was applied is
\* skipped, and not applied later.)
ShowsLatest(id) ==
    LET snapshot == replicationSnapshots[id]
    IN  \A k \in snapshot.layoutId \ ReferenceKeys :
            snapshot.values[k] # NoValue
              => content[networkIdToEntityMap[id]][k] = snapshot.values[k]

Waits(id) ==
    <<networkIdToEntityMap[id], replicationSnapshots[id]>> \in deferredEntityLayouts

AppliedValuesCurrent ==
    \A id \in NetworkIds : Mapped(id) /\ ~Waits(id) => ShowsLatest(id)

\* The client implements "the newest record wins": the state of an identity is
\* decided by the snapshot it shows or by its tombstone.
DecidingRevision ==
    [id \in NetworkIds |->
        IF Mapped(id) THEN replicationSnapshots[id].stateRevision
                      ELSE removedEntityRevisions[id]]

ReplicatedEntities == INSTANCE FlecsReplicatedEntities
              WITH revision <- DecidingRevision,
                   present <- [id \in NetworkIds |-> Mapped(id)]

NewestRecordWins == ReplicatedEntities!Spec

\* A delivered record is decided: a later frame shows its state or a newer
\* one's.
DeliveriesDecided ==
    \A id \in NetworkIds, r \in Revisions :
        (\E i \in 1 .. Len(updateQueue) :
            updateQueue[i].networkId = id /\ updateQueue[i].stateRevision = r)
          ~> DecidingRevision[id] >= r

\* A snapshot that waits is shown once its layout has arrived and the layout's
\* keys exist here, unless something newer replaces it.
WaitingSnapshotsShown ==
    \A p \in Published :
        /\ Mapped(p[1]) /\ replicationSnapshots[p[1]] = p[2]
        /\ p[2].layoutId \in definitions \cup pendingLayouts
        /\ p[2].layoutId \subseteq registered
        ~> \/ ~Mapped(p[1]) \/ replicationSnapshots[p[1]] # p[2]
           \/ ShowsLatest(p[1])
=============================================================================
