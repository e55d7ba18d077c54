---------------------- MODULE FlecsReplicationAuthority ----------------------
(***************************************************************************)
(* The server's side of UFlecsNetworkWorldSubsystem and                      *)
(* UFlecsIrisReplicationBridge: which entities replicate, when they are       *)
(* dirty, the snapshots and layouts published for them, and the shards       *)
(* (proxies for one entity, tables for many) that carry the snapshots to the  *)
(* network.                                                                  *)
(*                                                                          *)
(* Game code and the dirty system run on the game thread; an action is one    *)
(* call of game code, with the observers it triggers, or one entity's turn    *)
(* in the dirty system.                                                      *)
(***************************************************************************)
EXTENDS FlecsReplicationRecords

CONSTANTS
    Entities,      \* the server's entities
    MaxLives,      \* how often an entity may begin to replicate
    LocalIds,      \* ids an entity may have: components, tags and pairs
    PayloadIds,    \* those with a descriptor that serializes a value
    SecondaryIds,  \* pairs among them whose payload is of their target's type
    PairIds,       \* pairs with an entity of Entities
    PairTarget,    \* that entity
    Profiles,      \* the registered replication profile prefabs
    SelectionOf,   \* the shard selection a profile's selector makes
    TraitsOf,      \* the net filter and object prioritizer a profile names
    NoTraits,
    NoProfile, NoIdentity, NoPlacement, NoPool,
    MaxShards      \* how many shards may be created

ProxySelection == [class |-> "Proxy", group |-> "None"]

\* An entity gets a new identity with each life (FlecsNetworkIdentityProofs
\* shows that the generator issues none twice).  A pair's key names the
\* target's identity.
ASSUME AuthorityAssumption ==
    /\ NetworkIds = Entities \X (1 .. MaxLives)
    /\ PayloadIds \subseteq LocalIds /\ PairIds \subseteq LocalIds
    /\ SecondaryIds \subseteq PayloadIds
    /\ PairTarget \in [PairIds -> Entities]
    /\ LocalIds \ PairIds \subseteq Keys
    /\ PairIds \X (NetworkIds \cup {NoIdentity}) \subseteq Keys
    /\ ReferenceKeys = PairIds \X NetworkIds
    /\ \A k \in ReferenceKeys : TargetOf[k] = k[2]
    /\ (LocalIds \ PairIds) \cap (PairIds \X (NetworkIds \cup {NoIdentity})) = {}
    /\ NoProfile \notin Profiles /\ NoIdentity \notin NetworkIds
    /\ Profiles \cap Entities = {}
    /\ MaxLives \in Nat /\ MaxShards \in Nat

VARIABLES
    lives,              \* how often each entity has begun to replicate
    identity,           \* its FFlecsNetworkId, while it has the marker component
    dirty,              \* entities with FFlecsNetDirtyTag
    components,         \* the ids each entity has, with the payloads
    prefab,             \* the profile prefab it IsA
    profileId,          \* FFlecsReplicatedEntityComponent.ProfileId
    authoritySnapshots, \* ReplicationSnapshots
    authorityLayouts,   \* the layout registry's Definitions
    tableCache,         \* the layout registry's TableCache: pairs <<table, layout>>
    replicatedLayouts,  \* ReplicatedLayouts, the fast array the clients receive
    shardMap,           \* ShardMap: each entity's placement
    shards              \* every shard created so far, with its pool in ShardPools

entityStateVars == <<lives, identity, dirty, components, prefab, profileId>>
publishedVars == <<authoritySnapshots, authorityLayouts, tableCache,
                   replicatedLayouts, shardMap, shards>>
authorityVars == <<entityStateVars, publishedVars>>

Selection == {SelectionOf[p] : p \in Profiles} \cup {ProxySelection}
Traits == {TraitsOf[p] : p \in Profiles} \cup {NoTraits}
PoolKeys == Traits \X Selection
Table == (SUBSET LocalIds) \X (Profiles \cup {NoProfile})

Shard == [selection   : Selection,
          pool        : PoolKeys \cup {NoPool},
          replicating : BOOLEAN,                   \* registered with Iris
          held        : SUBSET NetworkIds,         \* the entities placed in it
          published   : [NetworkIds -> Snapshot]]  \* its replicated properties

Placement == [shard     : 1 .. MaxShards,
              profile   : Profiles \cup Entities,
              selection : Selection]

ASSUME PlacementAssumption == NoPlacement \notin Placement /\ NoPool \notin PoolKeys

AuthorityTypeOK ==
    /\ lives \in [Entities -> 0 .. MaxLives]
    /\ identity \in [Entities -> NetworkIds \cup {NoIdentity}]
    /\ dirty \subseteq Entities
    /\ components \in [Entities -> [LocalIds -> Values \cup {NoValue, Absent}]]
    /\ prefab \in [Entities -> Profiles \cup {NoProfile}]
    /\ profileId \in [Entities -> Profiles \cup {NoProfile}]
    /\ authoritySnapshots \in [NetworkIds -> Snapshot]
    /\ authorityLayouts \subseteq LayoutId
    /\ tableCache \subseteq Table \X LayoutId
    /\ replicatedLayouts \subseteq LayoutId
    /\ shardMap \in [Entities -> Placement \cup {NoPlacement}]
    /\ shards \in Seq(Shard) /\ Len(shards) <= MaxShards

AuthorityInit ==
    /\ lives = [e \in Entities |-> 0]
    /\ identity = [e \in Entities |-> NoIdentity]
    /\ dirty = {}
    /\ components = [e \in Entities |-> [x \in LocalIds |-> Absent]]
    /\ prefab = [e \in Entities |-> NoProfile]
    /\ profileId = [e \in Entities |-> NoProfile]
    /\ authoritySnapshots = [id \in NetworkIds |-> NoSnapshot]
    /\ authorityLayouts = {}
    /\ tableCache = {}
    /\ replicatedLayouts = {}
    /\ shardMap = [e \in Entities |-> NoPlacement]
    /\ shards = <<>>

Replicates(e) == identity[e] # NoIdentity

-----------------------------------------------------------------------------
(* Shards and their pools                                                    *)

IsTable(shard) == shard.selection.class = "Table"

\* CanAcceptNetEntity: a proxy carries one entity, a table any.
ProxyAccepts(shard, id) == shard.held \subseteq {id}
CanAccept(shard, id) == IsTable(shard) \/ ProxyAccepts(shard, id)

\* PublishNetEntity: a proxy has one identity and snapshot, a table an item for
\* each entity.
ProxyWith(shard, id, snapshot) ==
    [shard EXCEPT !.held = {id},
                  !.published = [i \in NetworkIds |->
                                   IF i = id THEN snapshot ELSE NoSnapshot]]
TableWith(shard, id, snapshot) ==
    [shard EXCEPT !.held = @ \cup {id}, !.published[id] = snapshot]
WithEntity(shard, id, snapshot) ==
    IF IsTable(shard) THEN TableWith(shard, id, snapshot)
                      ELSE ProxyWith(shard, id, snapshot)

\* Mutant: an entity that leaves a shard is not removed from it.
WithoutNothing(shard, id) == shard

\* RemoveNetEntity: a table deletes the item, a proxy keeps its properties.
ProxyWithout(shard, id) == [shard EXCEPT !.held = @ \ {id}]
TableWithout(shard, id) ==
    [shard EXCEPT !.held = @ \ {id}, !.published[id] = NoSnapshot]
WithoutEntity(shard, id) ==
    IF IsTable(shard) THEN TableWithout(shard, id) ELSE ProxyWithout(shard, id)

\* The filter and prioritizer a profile has, inherited from its prefab if the
\* entity is its own profile.
ProfileTraits(p) ==
    IF p \in Profiles THEN TraitsOf[p]
    ELSE IF prefab[p] # NoProfile THEN TraitsOf[prefab[p]]
    ELSE NoTraits

\* FFlecsReplicationShardPoolKey
PoolKey(profile, selection) == <<ProfileTraits(profile), selection>>

\* CreateNewShard starts its replication.
NewShard(id, key) ==
    [selection |-> key[2], pool |-> key, replicating |-> TRUE, held |-> {},
     published |-> [i \in NetworkIds |-> NoSnapshot]]

\* FindOrCreateShard: the pool's first shard that accepts the entity.
Accepting(id, key) ==
    {s \in 1 .. Len(shards) : shards[s].pool = key /\ CanAccept(shards[s], id)}

Destination(id, key) ==
    IF Accepting(id, key) = {} THEN Len(shards) + 1
    ELSE CHOOSE s \in Accepting(id, key) : \A t \in Accepting(id, key) : s <= t

WithDestination(id, key) ==
    IF Accepting(id, key) = {} THEN Append(shards, NewShard(id, key)) ELSE shards

\* Mutant: an emptied shard is forgotten, but goes on replicating.
ReleasedFromPoolOnly(all, s, key) ==
    IF all[s].held # {} THEN all ELSE [all EXCEPT ![s].pool = NoPool]

\* Mutant: an emptied shard is torn down, but not forgotten.
ReleasedKeepingPool(all, s, key) ==
    IF all[s].held # {} THEN all ELSE [all EXCEPT ![s].replicating = FALSE]

\* ReleaseShardIfEmpty: the pool is found by a key made from the traits the
\* profile has now.  Without such a pool nothing happens; a shard that is in
\* another pool is torn down and stays in that one.
Released(all, s, key) ==
    IF all[s].held # {} \/ \A t \in 1 .. Len(all) : all[t].pool # key THEN all
    ELSE [all EXCEPT ![s].replicating = FALSE,
                     ![s].pool = IF @ = key THEN NoPool ELSE @]

-----------------------------------------------------------------------------
(* Which profile an entity has                                               *)

\* Mutant: a change of the prefab does not make the entity dirty.
DirtyOnPrefabChangeNever(e) == dirty

\* The observer of IsA pairs.
DirtyOnPrefabChange(e) == IF Replicates(e) THEN dirty \cup {e} ELSE dirty

\* ResolveReplicationProfile: an entity without a profile of its own is its
\* own profile.
ResolveReplicationProfile(e) ==
    IF profileId[e] # NoProfile /\ prefab[e] = profileId[e] THEN profileId[e] ELSE e

\* SelectReplicationShard: the profile's selector, "Proxy" without one.
SelectReplicationShard(profile) ==
    IF profile \in Profiles THEN SelectionOf[profile]
    ELSE IF prefab[profile] # NoProfile THEN SelectionOf[prefab[profile]]
    ELSE ProxySelection

\* Game code adds a profile prefab to an entity that has none.
AddPrefab(e, p) ==
    /\ prefab[e] = NoProfile
    /\ prefab' = [prefab EXCEPT ![e] = p]
    /\ dirty' = DirtyOnPrefabChange(e)
    /\ UNCHANGED <<lives, identity, components, profileId, publishedVars>>

\* SetReplicationProfile replaces the prefab, and names it in the marker.
SetReplicationProfile(e, p) ==
    /\ prefab' = [prefab EXCEPT ![e] = p]
    /\ profileId' = IF Replicates(e) THEN [profileId EXCEPT ![e] = p] ELSE profileId
    /\ dirty' = DirtyOnPrefabChange(e)
    /\ UNCHANGED <<lives, identity, components, publishedVars>>

-----------------------------------------------------------------------------
(* What game code does to an entity                                          *)

\* Each component C with a descriptor has dirty observers of C and (C, *), but
\* none of (*, C): a pair whose payload is of its target's type has none.
ObservedIds == PayloadIds \ SecondaryIds

\* Mutant: the observer is told of additions and removals only, not of OnSet.
DirtyWithoutOnSet(e, x) ==
    IF Replicates(e) /\ x \in ObservedIds /\ components[e][x] = Absent
    THEN dirty \cup {e} ELSE dirty

\* The dirty observers.  Tags have none.
DirtyOnChange(e, x) ==
    IF Replicates(e) /\ x \in ObservedIds THEN dirty \cup {e} ELSE dirty

ChangeId(e, x, v) ==
    /\ components' = [components EXCEPT ![e][x] = v]
    /\ dirty' = DirtyOnChange(e, x)
    /\ UNCHANGED <<lives, identity, prefab, profileId, publishedVars>>

SetComponent(e, x, v) ==
    x \in PayloadIds /\ components[e][x] # v /\ ChangeId(e, x, v)

AddTag(e, x) ==
    x \notin PayloadIds /\ components[e][x] = Absent /\ ChangeId(e, x, NoValue)

RemoveId(e, x) ==
    components[e][x] # Absent /\ ChangeId(e, x, Absent)

NextIdentity(e) == <<e, lives[e] + 1>>

\* The marker component is added: BeginReplicatingEntity takes its profile from
\* the prefab it has now.
BeginReplicatingEntity(e) ==
    /\ ~Replicates(e)
    /\ lives[e] < MaxLives
    /\ lives' = [lives EXCEPT ![e] = @ + 1]
    /\ identity' = [identity EXCEPT ![e] = NextIdentity(e)]
    /\ profileId' = [profileId EXCEPT ![e] = prefab[e]]
    /\ dirty' = dirty \cup {e}
    /\ UNCHANGED <<components, prefab, publishedVars>>

\* The marker component is removed: StopReplicatingEntity, and the bridge's.
StopReplicatingEntity(e) ==
    LET id == identity[e]
        placement == shardMap[e]
    IN  /\ identity' = [identity EXCEPT ![e] = NoIdentity]
        /\ profileId' = [profileId EXCEPT ![e] = NoProfile]
        /\ authoritySnapshots' = [authoritySnapshots EXCEPT ![id] = NoSnapshot]
        /\ shardMap' = [shardMap EXCEPT ![e] = NoPlacement]
        /\ shards' =
             IF placement = NoPlacement THEN shards
             ELSE Released([shards EXCEPT ![placement.shard] = WithoutEntity(@, id)],
                           placement.shard,
                           PoolKey(placement.profile, placement.selection))
        /\ UNCHANGED <<lives, authorityLayouts, tableCache, replicatedLayouts>>

RemoveMarker(e) ==
    /\ Replicates(e)
    /\ StopReplicatingEntity(e)
    /\ UNCHANGED <<dirty, components, prefab>>

\* The entity is destroyed, and with it the pairs other entities have with it.
DestroyEntity(e) ==
    LET paired(f) == {x \in PairIds : PairTarget[x] = e /\ components[f][x] # Absent}
    IN  /\ Replicates(e)
        /\ StopReplicatingEntity(e)
        /\ components' =
             [f \in Entities |->
                [x \in LocalIds |-> IF f = e \/ x \in paired(f) THEN Absent
                                   ELSE components[f][x]]]
        /\ prefab' = [prefab EXCEPT ![e] = NoProfile]
        /\ dirty' = (dirty \ {e}) \cup
             {f \in Entities \ {e} : Replicates(f) /\ paired(f) \cap ObservedIds # {}}

-----------------------------------------------------------------------------
(* The dirty system                                                          *)

\* BuildIndividualKey names a pair's target by its identity.
KeyOf(x) == IF x \in PairIds THEN <<x, identity[PairTarget[x]]>> ELSE x

TableOf(e) == <<{x \in LocalIds : components[e][x] # Absent}, prefab[e]>>

CachedLayouts(e) == {c[2] : c \in {d \in tableCache : d[1] = TableOf(e)}}

\* BuildForEntity: the keys of the entity's ids, or what the cache says of its
\* table.
BuildForEntity(e) ==
    IF CachedLayouts(e) = {} THEN {KeyOf(x) : x \in TableOf(e)[1]}
    ELSE CHOOSE layout \in CachedLayouts(e) : TRUE

\* Mutant: a layout counts as new only with the entity's first snapshot.
IsNewLayoutFirstOnly(e, layout) == authoritySnapshots[identity[e]] = NoSnapshot

\* bOutCreatedNewLayout
IsNewLayout(e, layout) == layout \notin authorityLayouts

\* Mutant: the revision stays while the layout does.
NextRevisionOfLayout(e) ==
    IF authoritySnapshots[identity[e]].layoutId = BuildForEntity(e)
    THEN authoritySnapshots[identity[e]].stateRevision
    ELSE authoritySnapshots[identity[e]].stateRevision + 1

NextRevision(e) == authoritySnapshots[identity[e]].stateRevision + 1

\* FillFromEntity: the layout's keys that resolve to an id with a payload (a
\* pair's key that names no identity does not).
FillFromEntity(e) ==
    LET layout == BuildForEntity(e)
        packed(k) == {x \in PayloadIds :
                        /\ KeyOf(x) = k /\ components[e][x] \in Values
                        /\ x \in PairIds => k \in ReferenceKeys}
    IN  [layoutId      |-> layout,
         values        |-> [k \in Keys |->
                              IF k \in layout /\ packed(k) # {}
                              THEN components[e][CHOOSE x \in packed(k) : TRUE]
                              ELSE NoValue],
         stateRevision |-> NextRevision(e)]

\* ResolveShard and PublishNetEntity: the entity stays in its shard while its
\* profile and selection do; else it is published in the destination, then
\* removed from the source.
PublishNetEntity(e, snapshot) ==
    LET id == identity[e]
        profile == ResolveReplicationProfile(e)
        selection == SelectReplicationShard(profile)
        key == PoolKey(profile, selection)
        old == shardMap[e]
        destination == Destination(id, key)
        stays == /\ old # NoPlacement
                 /\ old.profile = profile /\ old.selection = selection
                 /\ CanAccept(shards[old.shard], id)
    IN  \/ /\ stays
           /\ shards' = [shards EXCEPT ![old.shard] = WithEntity(@, id, snapshot)]
           /\ UNCHANGED shardMap
        \/ /\ ~stays
           /\ destination <= MaxShards
           /\ shardMap' = [shardMap EXCEPT ![e] =
                             [shard |-> destination, profile |-> profile,
                              selection |-> selection]]
           /\ LET all == [WithDestination(id, key) EXCEPT
                            ![destination] = WithEntity(@, id, snapshot)]
              IN  shards' =
                    IF old = NoPlacement \/ old.shard = destination THEN all
                    ELSE Released([all EXCEPT ![old.shard] = WithoutEntity(@, id)],
                                  old.shard, PoolKey(old.profile, old.selection))

\* One entity's turn: its layout, snapshot and shard, and it is clean.
PublishDirty(e) ==
    LET snapshot == FillFromEntity(e)
        layout == snapshot.layoutId
    IN  /\ e \in dirty /\ Replicates(e)
        /\ snapshot.stateRevision \in Revisions
        /\ authoritySnapshots' = [authoritySnapshots EXCEPT ![identity[e]] = snapshot]
        /\ authorityLayouts' = authorityLayouts \cup {layout}
        /\ tableCache' = tableCache \cup {<<TableOf(e), layout>>}
        /\ replicatedLayouts' = replicatedLayouts \cup
              (IF IsNewLayout(e, layout) THEN {layout} ELSE {})
        /\ PublishNetEntity(e, snapshot)
        /\ dirty' = dirty \ {e}
        /\ UNCHANGED <<lives, identity, components, prefab, profileId>>

GameCode ==
    \E e \in Entities :
        \/ \E x \in LocalIds : \/ \E v \in Values : SetComponent(e, x, v)
                              \/ AddTag(e, x)
                              \/ RemoveId(e, x)
        \/ \E p \in Profiles : AddPrefab(e, p) \/ SetReplicationProfile(e, p)
        \/ BeginReplicatingEntity(e)
        \/ RemoveMarker(e)
        \/ DestroyEntity(e)

AuthorityNext == GameCode \/ \E e \in Entities : PublishDirty(e)

AuthoritySpec == AuthorityInit /\ [][AuthorityNext]_authorityVars

-----------------------------------------------------------------------------
(* Properties                                                                *)

Placed(e) == shardMap[e] # NoPlacement

\* An entity is in one shard at a time, the one its placement names, with its
\* latest snapshot: however often it changes profiles, nothing is left behind
\* in a table or keeps a proxy occupied.
PlacedOnce ==
    /\ \A e \in Entities : Placed(e) =>
          /\ identity[e] \in shards[shardMap[e].shard].held
          /\ shards[shardMap[e].shard].published[identity[e]]
                = authoritySnapshots[identity[e]]
    /\ \A s \in 1 .. Len(shards) : \A id \in shards[s].held :
          \E e \in Entities : Placed(e) /\ shardMap[e].shard = s /\ identity[e] = id

\* The authority's state is well typed and its placements are sound.
PlacementSound == AuthorityTypeOK /\ PlacedOnce

\* A copy of an entity that another shard still replicates is older than the
\* one in its own shard: taking the old copy away cannot end the entity on a
\* client that has the new one.
SupersededCopiesOlder ==
    \A e \in Entities, s \in 1 .. Len(shards) :
        Placed(e) /\ s # shardMap[e].shard /\ shards[s].replicating
            => shards[s].published[identity[e]].stateRevision
                  < authoritySnapshots[identity[e]].stateRevision

\* No snapshot refers to a layout the clients are not sent.
LayoutsPublished ==
    \A s \in 1 .. Len(shards), id \in NetworkIds :
        LET snapshot == shards[s].published[id]
        IN  snapshot # NoSnapshot => snapshot.layoutId \in replicatedLayouts

\* No update of an observed id is lost: an entity that is not dirty has been
\* published with the payloads it has now, whatever ids without an observer (tags,
\* pairs with their target's payload) it has gained or lost since.
CleanMeansPublished ==
    \A e \in Entities : Replicates(e) /\ e \notin dirty =>
        \A x \in ObservedIds \ PairIds :
            LET published == authoritySnapshots[identity[e]]
            IN  IF components[e][x] = Absent THEN x \notin published.layoutId
                ELSE published.values[x] = components[e][x]

\* ... and in the shard its profile calls for.
CleanMeansPlaced ==
    \A e \in Entities : Replicates(e) /\ e \notin dirty =>
        /\ Placed(e)
        /\ shardMap[e].profile = ResolveReplicationProfile(e)
        /\ shardMap[e].selection = SelectReplicationShard(shardMap[e].profile)

\* A published entity is in a shard that replicates.
PlacedShardsReplicate ==
    \A e \in Entities : Placed(e) => shards[shardMap[e].shard].replicating

\* FlecsReplicatedEntityComponent.h: removing the component, or destroying the
\* entity, publishes a removal.  No shard goes on replicating an identity that
\* no entity has.
RemovalsPublished ==
    \A s \in 1 .. Len(shards), id \in NetworkIds :
        shards[s].replicating /\ shards[s].published[id] # NoSnapshot
            => \E e \in Entities : identity[e] = id
=============================================================================
