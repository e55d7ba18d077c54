--------------------------- MODULE FlecsReplication ---------------------------
(***************************************************************************)
(* The authority and one client, joined by the shards.                       *)
(*                                                                          *)
(* Iris (external) brings each shard's properties to the client's copy of    *)
(* the shard: the state of the moment, so that intermediate states may be     *)
(* skipped, and a shard that is torn down is detached.  There is no order     *)
(* between shards, nor between shards and layouts.  A lost packet is sent     *)
(* again later.  The client may join at any time.                            *)
(***************************************************************************)
EXTENDS FlecsReplicationAuthority

VARIABLES
    updateQueue, applying, updates, created, networkIdToEntityMap,
    replicationSnapshots, removedEntityRevisions, deferredEntityLayouts,
    definitions, pendingLayouts, registered, localEntities, content,
    received,  \* the client's copy of each shard: its snapshots by identity
    since      \* history: the revision each entity entered its shard with

Client == INSTANCE FlecsReplicationClient WITH Published <- {}

clientVars == <<updateQueue, applying, updates, created, networkIdToEntityMap,
                replicationSnapshots, removedEntityRevisions, deferredEntityLayouts,
                definitions, pendingLayouts, registered, localEntities, content>>
serverVars == <<authorityVars, since>>
vars == <<serverVars, clientVars, received>>

Nothing == [id \in NetworkIds |-> NoSnapshot]

Init ==
    /\ AuthorityInit
    /\ Client!ClientInit
    /\ received = [s \in 1 .. MaxShards |-> Nothing]
    /\ since = [e \in Entities |-> 0]

-----------------------------------------------------------------------------
(* The network                                                               *)

\* What Iris has to bring to the client's copy of a shard.
Sent(s) ==
    IF s <= Len(shards) /\ shards[s].replicating THEN shards[s].published ELSE Nothing

Arrives(s, id) ==
    /\ Sent(s)[id] # NoSnapshot
    /\ Sent(s)[id] # received[s][id]
    /\ Client!ReceiveSnapshot(id, Sent(s)[id])
    /\ UNCHANGED serverVars

\* PostReplicatedAdd and PostReplicatedChange of a table's item.
DeliverItem(s, id) ==
    /\ IsTable(shards[s])
    /\ Arrives(s, id)
    /\ received' = [received EXCEPT ![s][id] = Sent(s)[id]]

\* OnRep_NetworkId and OnRep_Snapshot of a proxy.
DeliverProxy(s, id) ==
    /\ ~IsTable(shards[s])
    /\ Arrives(s, id)
    /\ received' = [received EXCEPT ![s] = Sent(s)]

\* Mutant: a removal carries the revision before the copy's.
RemovalRevisionBefore(s, id) == received[s][id].stateRevision - 1

\* A removal carries the revision of the client's copy.
RemovalRevision(s, id) == received[s][id].stateRevision

Leaves(s, id) ==
    /\ received[s][id] # NoSnapshot
    /\ received' = [received EXCEPT ![s][id] = NoSnapshot]
    /\ Client!ReceiveRemoval(id, RemovalRevision(s, id))
    /\ UNCHANGED serverVars

\* PreReplicatedRemove of a table's item.
DeliverItemRemoval(s, id) ==
    /\ IsTable(shards[s]) /\ shards[s].replicating
    /\ Sent(s)[id] = NoSnapshot
    /\ Leaves(s, id)

\* HandleReplicationDetached: a table's items are removed one after the other
\* (the code does it in one call).
DeliverDetach(s, id) ==
    /\ ~shards[s].replicating
    /\ Leaves(s, id)

\* PostReplicatedAdd of the layouts' array.
DeliverLayout(layout) ==
    /\ layout \notin definitions \cup pendingLayouts
    /\ Client!ReceiveLayout(layout)
    /\ UNCHANGED <<serverVars, received>>

Deliver ==
    \/ \E s \in 1 .. Len(shards), id \in NetworkIds :
          \/ DeliverItem(s, id) \/ DeliverProxy(s, id)
          \/ DeliverItemRemoval(s, id) \/ DeliverDetach(s, id)
    \/ \E layout \in replicatedLayouts : DeliverLayout(layout)

-----------------------------------------------------------------------------
(* The two worlds                                                            *)

RegisterKey ==
    /\ \E k \in Keys \ ReferenceKeys : Client!RegisterKey(k)
    /\ UNCHANGED <<serverVars, received>>

RunQueueSystem == Client!RunQueueSystem /\ UNCHANGED <<serverVars, received>>

\* An entity that was in no shard, or in another, enters one.
EntersShard(e) ==
    shardMap'[e] # shardMap[e] /\ (Placed(e) => shardMap'[e].shard # shardMap[e].shard)

RunDirtySystem ==
    /\ \E e \in Entities : PublishDirty(e)
    /\ since' = [e \in Entities |->
                   IF EntersShard(e) THEN authoritySnapshots'[identity[e]].stateRevision
                   ELSE since[e]]
    /\ UNCHANGED <<clientVars, received>>

Next ==
    \/ GameCode /\ UNCHANGED <<clientVars, received, since>>
    \/ RunDirtySystem
    \/ Deliver
    \/ RegisterKey
    \/ RunQueueSystem

Spec == Init /\ [][Next]_vars

\* Both pipelines run every frame.  Iris sends what it has not sent; the client
\* takes packets in every frame, but not while the pipeline runs: strong
\* fairness.  The client's game code registers its components in the end.
FairSpec ==
    /\ Spec
    /\ WF_vars(RunDirtySystem) /\ WF_vars(RunQueueSystem) /\ SF_vars(Deliver)
    /\ SF_vars(RegisterKey)

-----------------------------------------------------------------------------
(* Properties                                                                *)

Mapped(id) == networkIdToEntityMap[id] # Client!NoEntity

\* No update of the client is pending.
Quiet == updateQueue = <<>> /\ ~applying

\* What has arrived of an entity from the shard it is in is shown, or something
\* newer is: no removal by another shard ends it, whatever the order of arrival.
\* (A copy left from an earlier stay in that shard does not count: the end of
\* the stay between ends it, until the entity's return arrives.)
ArrivedIsShown ==
    \A e \in Entities :
        LET copy == received[shardMap[e].shard][identity[e]]
        IN  Quiet /\ Placed(e) /\ copy.stateRevision >= since[e] =>
                /\ Mapped(identity[e])
                /\ replicationSnapshots[identity[e]].stateRevision >= copy.stateRevision

\* An entity is shown only while some shard's copy has it: the last shard to
\* let it go takes it away.
ShownIsReplicated ==
    \A id \in NetworkIds :
        Quiet /\ Mapped(id) => \E s \in 1 .. MaxShards : received[s][id] # NoSnapshot

\* The client's entities are the ones the authority publishes, each with its
\* latest snapshot's payloads.
Synchronized ==
    \A id \in NetworkIds :
        IF \E e \in Entities : Placed(e) /\ identity[e] = id
        THEN /\ Mapped(id)
             /\ replicationSnapshots[id] = authoritySnapshots[id]
             /\ Client!ShowsLatest(id)
        ELSE ~Mapped(id)

\* Once the authority has published its last snapshot, the client comes to show
\* it, and keeps to it.
Convergence == <>[]Synchronized
=============================================================================
