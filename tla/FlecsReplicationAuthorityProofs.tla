------------------- MODULE FlecsReplicationAuthorityProofs -------------------
(***************************************************************************)
(* Proofs about the authority, for every set of entities, ids, profiles and  *)
(* shards: placements are sound, a copy that was left behind is older, the    *)
(* clients are sent every layout they need, and an entity that is clean is    *)
(* published as it is, where it belongs.  Where no profile names a filter or  *)
(* a prioritizer, a published entity's shard replicates and no shard goes on  *)
(* replicating what has ended.                                                *)
(***************************************************************************)
EXTENDS FlecsReplicationAuthority, SequenceTheorems, WellFoundedInduction, TLAPS

\* What the invariants need of the state beside what they say themselves.

\* An entity's identity is that of its present life.
IdentitiesOwn ==
    \A e \in Entities : Replicates(e) => identity[e] = <<e, lives[e]>>

\* A shard in a pool has the pool's selection.
PoolsMatch ==
    \A s \in 1 .. Len(shards) :
        shards[s].pool # NoPool => shards[s].pool[2] = shards[s].selection

\* A placement names a shard that exists, and has the shard's selection.
PlacementsExist ==
    \A e \in Entities : Placed(e) =>
        /\ shardMap[e].shard <= Len(shards)
        /\ shardMap[e].selection = shards[shardMap[e].shard].selection

IInv == AuthorityTypeOK /\ IdentitiesOwn /\ PoolsMatch /\ PlacementsExist /\ PlacedOnce

\* Nothing has been published for a life that has not begun.
UnbornUnpublished ==
    \A id \in NetworkIds : id[2] > lives[id[1]] =>
        /\ authoritySnapshots[id] = NoSnapshot
        /\ \A s \in 1 .. Len(shards) : shards[s].published[id] = NoSnapshot

\* No copy of an entity is newer than its latest snapshot, and only the one in
\* its own shard is as new.
CopiesBounded ==
    \A e \in Entities : Replicates(e) =>
        LET latest == authoritySnapshots[identity[e]].stateRevision
            copy(s) == shards[s].published[identity[e]].stateRevision
        IN  /\ Placed(e) => 0 < latest
            /\ \A s \in 1 .. Len(shards) :
                  /\ copy(s) <= latest
                  /\ Placed(e) /\ s # shardMap[e].shard => copy(s) < latest

CopiesInv == IInv /\ UnbornUnpublished /\ CopiesBounded

\* Every layout in use was new once, and was sent then.
LayoutsSent == authorityLayouts \subseteq replicatedLayouts /\ LayoutsPublished

\* A cached layout has the components and tags of its table.
CacheMatchesTables ==
    \A c \in tableCache, x \in LocalIds \ PairIds : x \in c[2] <=> x \in c[1][1]

\* A component with a payload has one.
PayloadsPresent ==
    \A e \in Entities, x \in PayloadIds : components[e][x] # NoValue

\* What an entity's latest snapshot says of its payloads, while it is clean.
PayloadsPublished == CacheMatchesTables /\ PayloadsPresent /\ CleanMeansPublished

\* No profile names a filter or a prioritizer: all entities have the same.
UniformTraits == \A p \in Profiles : TraitsOf[p] = NoTraits

\* Then a shard is in the pool of its selection as long as it replicates, and it
\* replicates as long as it holds an entity; what it publishes is what it holds.
InUse(shard) ==
    /\ shard.pool # NoPool => shard.pool = <<NoTraits, shard.selection>>
    /\ shard.replicating <=> shard.pool # NoPool
    /\ shard.replicating <=> shard.held # {}
    /\ shard.replicating =>
          \A id \in NetworkIds : shard.published[id] # NoSnapshot => id \in shard.held
    /\ ~IsTable(shard) => \A i, j \in shard.held : i = j

ShardsReleased == \A s \in 1 .. Len(shards) : InUse(shards[s])

-----------------------------------------------------------------------------
(* Shards                                                                    *)

\* What a shard's fields are.
LEMMA ShardFacts ==
    ASSUME NEW shard \in Shard
    PROVE  /\ shard.held \subseteq NetworkIds
           /\ shard.published \in [NetworkIds -> Snapshot]
           /\ shard.pool \in PoolKeys \cup {NoPool}
           /\ shard.selection \in Selection /\ shard.replicating \in BOOLEAN
  BY DEF Shard

\* A default-constructed snapshot is a snapshot.
LEMMA NoSnapshotTyped == NoSnapshot \in Snapshot
  BY DEF NoSnapshot, Snapshot, LayoutId

\* PublishNetEntity adds the entity to what a shard holds, and no other entity
\* is lost from it.
LEMMA WithEntityFacts ==
    ASSUME NEW shard \in Shard, NEW id \in NetworkIds, NEW snapshot \in Snapshot,
           CanAccept(shard, id),
           NEW w, w = WithEntity(shard, id, snapshot)
    PROVE  /\ w \in Shard
           /\ w.selection = shard.selection /\ w.pool = shard.pool
           /\ w.replicating = shard.replicating
           /\ w.held = shard.held \cup {id}
           /\ w.published[id] = snapshot
           /\ \A i \in NetworkIds \ {id} :
                 w.published[i] = IF IsTable(shard) THEN shard.published[i] ELSE NoSnapshot
<1>1. CASE IsTable(shard)
  <2> DEFINE items == [shard.published EXCEPT ![id] = snapshot]
  <2>1. w = TableWith(shard, id, snapshot)
    BY <1>1 DEF WithEntity
  <2>2. w = [shard EXCEPT !.held = shard.held \cup {id}, !.published = items]
    BY <2>1 DEF TableWith, Shard
  <2>3. /\ items \in [NetworkIds -> Snapshot] /\ items[id] = snapshot
        /\ \A i \in NetworkIds \ {id} : items[i] = shard.published[i]
    BY ShardFacts
  <2> HIDE DEF items
  <2> QED
    BY <1>1, <2>2, <2>3, ZenonT(30) DEF Shard
<1>2. CASE ~IsTable(shard)
  <2> DEFINE only == [i \in NetworkIds |-> IF i = id THEN snapshot ELSE NoSnapshot]
  <2>1. w = [shard EXCEPT !.held = {id}, !.published = only]
    BY <1>2 DEF WithEntity, ProxyWith
  <2>2. only \in [NetworkIds -> Snapshot]
    BY NoSnapshotTyped
  <2>3. shard.held \cup {id} = {id}
    BY <1>2 DEF CanAccept, ProxyAccepts
  <2>4. only[id] = snapshot /\ \A i \in NetworkIds \ {id} : only[i] = NoSnapshot
    OBVIOUS
  <2> HIDE DEF only
  <2> QED
    BY <1>2, <2>1, <2>2, <2>3, <2>4 DEF Shard
<1> QED
  BY <1>1, <1>2

\* RemoveNetEntity takes the entity from what a shard holds, and at most its
\* snapshot from what it publishes.
LEMMA WithoutEntityFacts ==
    ASSUME NEW shard \in Shard, NEW id \in NetworkIds,
           NEW w, w = WithoutEntity(shard, id)
    PROVE  /\ w \in Shard
           /\ w.selection = shard.selection /\ w.pool = shard.pool
           /\ w.replicating = shard.replicating
           /\ w.held = shard.held \ {id}
           /\ w.published[id] = IF IsTable(shard) THEN NoSnapshot ELSE shard.published[id]
           /\ \A i \in NetworkIds \ {id} : w.published[i] = shard.published[i]
<1>1. CASE IsTable(shard)
  <2>1. w = TableWithout(shard, id)
    BY <1>1 DEF WithoutEntity
  <2>2. w = [shard EXCEPT !.held = shard.held \ {id},
                          !.published = [shard.published EXCEPT ![id] = NoSnapshot]]
    BY <2>1 DEF TableWithout, Shard
  <2>3. [shard.published EXCEPT ![id] = NoSnapshot] \in [NetworkIds -> Snapshot]
    BY ShardFacts, NoSnapshotTyped
  <2> QED
    BY <1>1, <2>2, <2>3 DEF Shard
<1>2. CASE ~IsTable(shard)
  <2>1. w = [shard EXCEPT !.held = shard.held \ {id}]
    BY <1>2 DEF WithoutEntity, ProxyWithout, Shard
  <2> QED
    BY <1>2, <2>1 DEF Shard
<1> QED
  BY <1>1, <1>2

\* ReleaseShardIfEmpty changes nothing that a shard holds or publishes.
LEMMA ReleasedFacts ==
    ASSUME NEW all \in Seq(Shard), NEW s \in 1 .. Len(all), NEW key,
           NEW r, r = Released(all, s, key)
    PROVE  /\ r \in Seq(Shard) /\ Len(r) = Len(all)
           /\ \A t \in 1 .. Len(all) :
                 /\ r[t].held = all[t].held /\ r[t].published = all[t].published
                 /\ r[t].selection = all[t].selection
                 /\ t # s => r[t] = all[t]
           /\ \/ r = all /\ (all[s].held # {} \/ \A t \in 1 .. Len(all) : all[t].pool # key)
              \/ /\ all[s].held = {}
                 /\ ~r[s].replicating
                 /\ r[s].pool = IF all[s].pool = key THEN NoPool ELSE all[s].pool
<1>1. CASE all[s].held # {} \/ \A t \in 1 .. Len(all) : all[t].pool # key
  BY <1>1 DEF Released
<1>2. CASE ~(all[s].held # {} \/ \A t \in 1 .. Len(all) : all[t].pool # key)
  <2> DEFINE pool == IF all[s].pool = key THEN NoPool ELSE all[s].pool
             torn == [all[s] EXCEPT !.replicating = FALSE, !.pool = pool]
  <2>1. all[s] \in Shard
    BY ElementOfSeq
  <2>2. DOMAIN all = 1 .. Len(all)
    BY LenProperties
  <2>3. r = [all EXCEPT ![s] = torn]
    BY <1>2, <2>1, <2>2 DEF Released, Shard
  <2>4. pool \in PoolKeys \cup {NoPool}
    BY <2>1 DEF Shard
  <2>5. /\ torn \in Shard /\ ~torn.replicating /\ torn.pool = pool
        /\ torn.held = all[s].held /\ torn.published = all[s].published
        /\ torn.selection = all[s].selection
    BY <2>1, <2>4 DEF Shard
  <2> HIDE DEF torn
  <2>6. /\ r \in Seq(Shard) /\ Len(r) = Len(all)
        /\ \A t \in 1 .. Len(all) : r[t] = IF t = s THEN torn ELSE all[t]
    BY <2>3, <2>5, ExceptSeq
  <2> QED
    BY <1>2, <2>5, <2>6
<1> QED
  BY <1>1, <1>2

\* Natural numbers have a smallest.
LEMMA SmallestOf ==
    ASSUME NEW T, T \subseteq Nat, T # {}
    PROVE  \E x \in T : \A y \in T : x <= y
<1> DEFINE R == OpToRel(<, Nat)
<1>1. IsWellFoundedOn(R, Nat)
  BY NatLessThanWellFounded
<1>2. \A x, y : <<y, x>> \in R <=> y \in Nat /\ x \in Nat /\ y < x
  BY DEF OpToRel
<1> HIDE DEF R
<1>3. PICK x \in T : \A y \in T : ~ (<<y, x>> \in R)
  BY <1>1, WFMin
<1>4. ASSUME NEW y \in T PROVE x <= y
  <2>1. ~ (<<y, x>> \in R)
    BY <1>3
  <2>2. x \in Nat /\ y \in Nat
    OBVIOUS
  <2>3. ~ (y < x)
    BY <1>2, <2>1, <2>2, Zenon
  <2> QED
    BY <2>2, <2>3
<1> QED
  BY <1>4

-----------------------------------------------------------------------------
(* Profiles, selections and pools                                            *)

\* The profile of an entity is a prefab or the entity, and has a selection.
LEMMA ProfileFacts ==
    ASSUME AuthorityTypeOK, NEW e \in Entities
    PROVE  /\ ResolveReplicationProfile(e) \in Profiles \cup {e}
           /\ SelectReplicationShard(ResolveReplicationProfile(e)) \in Selection
  BY AuthorityAssumption
  DEF AuthorityTypeOK, ResolveReplicationProfile, SelectReplicationShard, Selection

\* A pool's key has the selection it is asked for.
LEMMA PoolKeyFacts ==
    ASSUME AuthorityTypeOK, NEW p \in Profiles \cup Entities, NEW selection \in Selection
    PROVE  PoolKey(p, selection) \in PoolKeys /\ PoolKey(p, selection)[2] = selection
<1>1. ProfileTraits(p) \in Traits
  BY AuthorityAssumption DEF AuthorityTypeOK, ProfileTraits, Traits
<1> QED
  BY <1>1 DEF PoolKey, PoolKeys

\* FindOrCreateShard returns a shard of the pool that accepts the entity, or a
\* new one at the end.
LEMMA DestinationFacts ==
    ASSUME AuthorityTypeOK, NEW id \in NetworkIds, NEW key \in PoolKeys
    PROVE  LET d == Destination(id, key)
               all == WithDestination(id, key)
           IN  /\ d \in 1 .. Len(shards) + 1
               /\ all \in Seq(Shard)
               /\ Len(all) = IF d = Len(shards) + 1 THEN d ELSE Len(shards)
               /\ d \in 1 .. Len(all)
               /\ all[d].pool = key /\ CanAccept(all[d], id)
               /\ \A s \in 1 .. Len(shards) : all[s] = shards[s]
               /\ d = Len(shards) + 1 => all[d] = NewShard(id, key)
<1> DEFINE d == Destination(id, key)
           all == WithDestination(id, key)
<1>1. shards \in Seq(Shard) /\ Len(shards) \in Nat
  BY LenProperties DEF AuthorityTypeOK
<1>2. CASE Accepting(id, key) = {}
  <2>1. d = Len(shards) + 1 /\ all = Append(shards, NewShard(id, key))
    BY <1>2 DEF Destination, WithDestination
  <2>2. NewShard(id, key) \in Shard
    BY NoSnapshotTyped DEF NewShard, Shard, PoolKeys
  <2>3. /\ all \in Seq(Shard) /\ Len(all) = Len(shards) + 1
        /\ \A s \in 1 .. Len(shards) : all[s] = shards[s]
        /\ all[Len(shards) + 1] = NewShard(id, key)
    BY <1>1, <2>1, <2>2, AppendProperties
  <2>4. /\ NewShard(id, key).pool = key
        /\ CanAccept(NewShard(id, key), id)
    BY DEF NewShard, CanAccept, ProxyAccepts
  <2> HIDE DEF d, all
  <2>5. d \in 1 .. Len(shards) + 1
    BY <1>1, <2>1
  <2> QED
    BY <1>1, <2>1, <2>3, <2>4, <2>5 DEF d, all
<1>3. CASE Accepting(id, key) # {}
  <2>1. Accepting(id, key) \subseteq Nat /\ Accepting(id, key) \subseteq 1 .. Len(shards)
    BY <1>1 DEF Accepting
  <2>2. d = CHOOSE s \in Accepting(id, key) : \A t \in Accepting(id, key) : s <= t
    BY <1>3 DEF Destination
  <2>3. d \in Accepting(id, key)
    BY <1>3, <2>1, <2>2, SmallestOf
  <2>4. all = shards
    BY <1>3 DEF WithDestination
  <2>5. shards[d].pool = key /\ CanAccept(shards[d], id) /\ d \in 1 .. Len(shards)
    BY <2>3 DEF Accepting
  <2> HIDE DEF d, all
  <2> QED
    BY <1>1, <2>4, <2>5 DEF d, all
<1> QED
  BY <1>2, <1>3

-----------------------------------------------------------------------------
(* An entity moves between shards                                            *)

\* An entity leaves shard s of all, which is released if it is empty then.
Left(all, s, id, key) ==
    Released([all EXCEPT ![s] = WithoutEntity(@, id)], s, key)

\* The shard that it leaves is torn down, and forgotten by its pool, if it is
\* empty then.
ReleasedIfEmpty(before, after, key) ==
    /\ after.held # {} =>
          after.pool = before.pool /\ (after.replicating <=> before.replicating)
    /\ after.held = {} /\ before.pool = key => after.pool = NoPool /\ ~after.replicating

\* No other shard is touched, and no other entity is lost.
LEMMA LeftFacts ==
    ASSUME NEW all \in Seq(Shard), NEW s \in 1 .. Len(all), NEW id \in NetworkIds,
           NEW key, NEW r, r = Left(all, s, id, key)
    PROVE  /\ r \in Seq(Shard) /\ Len(r) = Len(all)
           /\ \A t \in 1 .. Len(all) : t # s => r[t] = all[t]
           /\ r[s].held = all[s].held \ {id}
           /\ r[s].published[id] \in {NoSnapshot, all[s].published[id]}
           /\ IsTable(all[s]) => r[s].published[id] = NoSnapshot
           /\ \A i \in NetworkIds \ {id} : r[s].published[i] = all[s].published[i]
           /\ r[s].selection = all[s].selection
           /\ r[s].pool \in {all[s].pool, NoPool}
           /\ ReleasedIfEmpty(all[s], r[s], key)
<1> DEFINE w == WithoutEntity(all[s], id)
           b == [all EXCEPT ![s] = w]
<1>1. all[s] \in Shard
  BY ElementOfSeq
<1>2. DOMAIN all = 1 .. Len(all)
  BY LenProperties
<1>3. r = Released(b, s, key)
  BY <1>2 DEF Left
<1>4. /\ w \in Shard
      /\ w.selection = all[s].selection /\ w.pool = all[s].pool
      /\ w.replicating = all[s].replicating
      /\ w.held = all[s].held \ {id}
      /\ w.published[id] = IF IsTable(all[s]) THEN NoSnapshot ELSE all[s].published[id]
      /\ \A i \in NetworkIds \ {id} : w.published[i] = all[s].published[i]
  BY <1>1, WithoutEntityFacts
<1> HIDE DEF w
<1>5. /\ b \in Seq(Shard) /\ Len(b) = Len(all)
      /\ \A t \in 1 .. Len(all) : b[t] = IF t = s THEN w ELSE all[t]
  BY <1>4, ExceptSeq
<1> HIDE DEF b
<1>6. /\ r \in Seq(Shard) /\ Len(r) = Len(b)
      /\ \A t \in 1 .. Len(b) :
            /\ r[t].held = b[t].held /\ r[t].published = b[t].published
            /\ r[t].selection = b[t].selection
            /\ t # s => r[t] = b[t]
      /\ \/ r = b /\ (b[s].held # {} \/ \A t \in 1 .. Len(b) : b[t].pool # key)
         \/ /\ b[s].held = {}
            /\ ~r[s].replicating
            /\ r[s].pool = IF b[s].pool = key THEN NoPool ELSE b[s].pool
  BY <1>3, <1>5, ReleasedFacts
<1>7. \A t \in 1 .. Len(all) : b[t].pool = all[t].pool
  BY <1>4, <1>5
<1>8. b[s] = w
  BY <1>5
<1>9. ReleasedIfEmpty(all[s], r[s], key)
  BY <1>4, <1>5, <1>6, <1>7, <1>8 DEF ReleasedIfEmpty
<1> QED
  BY <1>4, <1>5, <1>6, <1>7, <1>8, <1>9

\* What a shard held and carried before a step that may have created it
Held(s) == IF s <= Len(shards) THEN shards[s].held ELSE {}
Carried(s, i) == IF s <= Len(shards) THEN shards[s].published[i] ELSE NoSnapshot

\* Shard s becomes r when id comes into shard d with its snapshot (into none if
\* d is 0) and leaves every other.
Brought(r, s, id, d, snapshot) ==
    /\ r.held = IF s = d THEN Held(s) \cup {id} ELSE Held(s) \ {id}
    /\ \A i \in NetworkIds \ {id} :
          IF i \in Held(s) THEN r.published[i] = Carried(s, i)
          ELSE r.published[i] \in {NoSnapshot, Carried(s, i)}
    /\ IF s = d THEN r.published[id] = snapshot
       ELSE r.published[id] \in {NoSnapshot, Carried(s, id)}
    /\ s <= Len(shards) => r.selection = shards[s].selection
    /\ r.pool # NoPool => r.pool[2] = r.selection

\* The step does that to all shards.
Moved(id, d, snapshot) ==
    /\ shards' \in Seq(Shard) /\ Len(shards') <= MaxShards
    /\ Len(shards) <= Len(shards') /\ d \in 0 .. Len(shards')
    /\ \A s \in 1 .. Len(shards') : Brought(shards'[s], s, id, d, snapshot)

\* An entity is held by no shard but the one it is placed in.
LEMMA HeldWherePlaced ==
    ASSUME IInv, NEW e \in Entities, Replicates(e), NEW s \in 1 .. Len(shards),
           identity[e] \in shards[s].held
    PROVE  Placed(e) /\ shardMap[e].shard = s
<1>1. PICK f \in Entities : Placed(f) /\ shardMap[f].shard = s /\ identity[f] = identity[e]
  BY DEF IInv, PlacedOnce
<1>2. f = e
  BY <1>1 DEF IInv, IdentitiesOwn, Replicates
<1> QED
  BY <1>1, <1>2

\* What the invariant says of a placed entity and its shard.
LEMMA PlacedFacts ==
    ASSUME IInv, NEW e \in Entities, Placed(e)
    PROVE  /\ shardMap[e] \in Placement
           /\ shardMap[e].shard \in 1 .. Len(shards)
           /\ shards[shardMap[e].shard] \in Shard
           /\ Replicates(e) /\ identity[e] \in NetworkIds
           /\ shardMap[e].selection = shards[shardMap[e].shard].selection
<1>1. shards \in Seq(Shard) /\ Len(shards) \in Nat
  BY LenProperties DEF IInv, AuthorityTypeOK
<1>2. shardMap[e] \in Placement
  BY DEF IInv, AuthorityTypeOK, Placed
<1>3. shardMap[e].shard \in 1 .. Len(shards)
  BY <1>1, <1>2, AuthorityAssumption DEF IInv, PlacementsExist, Placement
<1>4. shards[shardMap[e].shard] \in Shard
  BY <1>1, <1>3, ElementOfSeq
<1>5. identity[e] \in NetworkIds
  BY <1>4, ShardFacts DEF IInv, PlacedOnce
<1> QED
  BY <1>2, <1>3, <1>4, <1>5, AuthorityAssumption DEF Replicates, IInv, PlacementsExist

\* A shard that the step leaves alone is as it should be, unless it held id.
LEMMA UntouchedBrought ==
    ASSUME IInv, NEW s \in 1 .. Len(shards), NEW id, id \notin shards[s].held,
           NEW d, d # s, NEW snapshot
    PROVE  Brought(shards[s], s, id, d, snapshot)
<1>1. s <= Len(shards) /\ s \in Nat
  BY LenProperties DEF IInv, AuthorityTypeOK
<1> QED
  BY <1>1 DEF Brought, Held, Carried, IInv, PoolsMatch

\* StopReplicatingEntity takes the entity from the shard it is in.
LEMMA StopFacts ==
    ASSUME IInv, NEW e \in Entities, Replicates(e), StopReplicatingEntity(e)
    PROVE  Moved(identity[e], 0, NoSnapshot) /\ Len(shards') = Len(shards)
<1> DEFINE id == identity[e]
<1>1. shards \in Seq(Shard) /\ Len(shards) \in Nat /\ Len(shards) <= MaxShards
  BY LenProperties DEF IInv, AuthorityTypeOK
<1>2. id \in NetworkIds
  BY DEF IInv, AuthorityTypeOK, Replicates
<1>3. CASE ~Placed(e)
  <2>1. shards' = shards
    BY <1>3 DEF StopReplicatingEntity, Placed
  <2>2. ASSUME NEW s \in 1 .. Len(shards) PROVE Brought(shards[s], s, id, 0, NoSnapshot)
    <3>1. id \notin shards[s].held /\ 0 # s
      BY <1>3, HeldWherePlaced
    <3> HIDE DEF id
    <3> QED
      BY <3>1, UntouchedBrought
  <2> QED
    BY <1>1, <2>1, <2>2 DEF Moved
<1>4. CASE Placed(e)
  <2> DEFINE p == shardMap[e].shard
             key == PoolKey(shardMap[e].profile, shardMap[e].selection)
  <2>1. p \in 1 .. Len(shards)
    BY <1>4, PlacedFacts
  <2>2. shards' = Left(shards, p, id, key)
    BY <1>4 DEF StopReplicatingEntity, Placed, Left
  <2> HIDE DEF key, p
  <2>3. /\ shards' \in Seq(Shard) /\ Len(shards') = Len(shards)
        /\ \A t \in 1 .. Len(shards) : t # p => shards'[t] = shards[t]
        /\ shards'[p].held = shards[p].held \ {id}
        /\ shards'[p].published[id] \in {NoSnapshot, shards[p].published[id]}
        /\ \A i \in NetworkIds \ {id} : shards'[p].published[i] = shards[p].published[i]
        /\ shards'[p].selection = shards[p].selection
        /\ shards'[p].pool \in {shards[p].pool, NoPool}
    BY <1>1, <1>2, <2>1, <2>2, LeftFacts
  <2>4. ASSUME NEW s \in 1 .. Len(shards) PROVE Brought(shards'[s], s, id, 0, NoSnapshot)
    <3>1. CASE s = p
      <4>1. shards[p].pool # NoPool => shards[p].pool[2] = shards[p].selection
        BY <2>1 DEF IInv, PoolsMatch
      <4>2. Held(p) = shards[p].held /\ \A i : Carried(p, i) = shards[p].published[i]
        BY <1>1, <2>1 DEF Held, Carried
      <4>3. p # 0
        BY <2>1
      <4> QED
        BY <2>3, <3>1, <4>1, <4>2, <4>3 DEF Brought
    <3>2. CASE s # p
      <4>1. id \notin shards[s].held /\ 0 # s
        BY <3>2, HeldWherePlaced DEF p
      <4>2. shards'[s] = shards[s]
        BY <2>3, <3>2
      <4> HIDE DEF id
      <4> QED
        BY <4>1, <4>2, UntouchedBrought
    <3> QED
      BY <3>1, <3>2
  <2> QED
    BY <1>1, <2>3, <2>4 DEF Moved
<1> QED
  BY <1>3, <1>4

\* The shard that the entity is published in is as it should be.
LEMMA DestinationBrought ==
    ASSUME IInv, NEW e \in Entities, Replicates(e), NEW snapshot \in Snapshot,
           NEW d \in 1 .. Len(shards) + 1, NEW shard \in Shard,
           CanAccept(shard, identity[e]),
           IF d = Len(shards) + 1
           THEN \E key \in PoolKeys : shard = NewShard(identity[e], key)
           ELSE shard = shards[d]
    PROVE  LET w == WithEntity(shard, identity[e], snapshot)
           IN  /\ w \in Shard /\ w.selection = shard.selection /\ w.pool = shard.pool
               /\ Brought(w, d, identity[e], d, snapshot)
<1> DEFINE id == identity[e]
           w == WithEntity(shard, id, snapshot)
<1>1. Len(shards) \in Nat
  BY LenProperties DEF IInv, AuthorityTypeOK
<1>2. id \in NetworkIds
  BY DEF IInv, AuthorityTypeOK, Replicates
<1>3. /\ w \in Shard
      /\ w.selection = shard.selection /\ w.pool = shard.pool
      /\ w.held = shard.held \cup {id}
      /\ w.published[id] = snapshot
      /\ \A i \in NetworkIds \ {id} :
            w.published[i] = IF IsTable(shard) THEN shard.published[i] ELSE NoSnapshot
  BY <1>2, WithEntityFacts
<1> HIDE DEF w
<1>4. /\ shard.held = Held(d)
      /\ \A i \in NetworkIds : shard.published[i] = Carried(d, i)
      /\ shard.pool # NoPool => shard.pool[2] = shard.selection
      /\ d <= Len(shards) => shard.selection = shards[d].selection
  <2>1. CASE d = Len(shards) + 1
    <3>1. PICK key \in PoolKeys : shard = NewShard(id, key)
      BY <2>1
    <3>2. ~(d <= Len(shards))
      BY <1>1, <2>1
    <3>3. /\ shard.held = {} /\ shard.pool = key /\ shard.selection = key[2]
          /\ shard.published = [i \in NetworkIds |-> NoSnapshot]
      BY <3>1 DEF NewShard
    <3> QED
      BY <3>2, <3>3 DEF Held, Carried
  <2>2. CASE d \in 1 .. Len(shards)
    BY <1>1, <2>2 DEF Held, Carried, IInv, PoolsMatch
  <2> QED
    BY <1>1, <2>1, <2>2
<1>5. ~IsTable(shard) => Held(d) \subseteq {id}
  BY <1>4 DEF CanAccept, ProxyAccepts
<1>6. ASSUME NEW i \in NetworkIds \ {id}
      PROVE  IF i \in Held(d) THEN w.published[i] = Carried(d, i)
             ELSE w.published[i] \in {NoSnapshot, Carried(d, i)}
  BY <1>3, <1>4, <1>5, <1>6
<1> QED
  BY <1>3, <1>4, <1>6 DEF Brought, w

\* The placement that PublishNetEntity makes
NewPlacement(e, d) ==
    [shard     |-> d,
     profile   |-> ResolveReplicationProfile(e),
     selection |-> SelectReplicationShard(ResolveReplicationProfile(e))]

\* The shard that is published into, before: one of those there are, or a new one
Chosen(shard, d, id) ==
    IF d = Len(shards) + 1 THEN \E key \in PoolKeys : shard = NewShard(id, key)
                           ELSE shard = shards[d]

\* Entity e has been published into shard d, and has not left its old one yet.
PublishedInto(all, e, d, shard, snapshot) ==
    /\ d \in 1 .. MaxShards /\ d \in 1 .. Len(shards) + 1 /\ shard \in Shard
    /\ CanAccept(shard, identity[e]) /\ Chosen(shard, d, identity[e])
    /\ all \in Seq(Shard) /\ Len(all) = IF d = Len(shards) + 1 THEN d ELSE Len(shards)
    /\ all[d] = WithEntity(shard, identity[e], snapshot)
    /\ \A s \in 1 .. Len(shards) : s # d => all[s] = shards[s]
    /\ shard.selection = NewPlacement(e, d).selection
    /\ \/ Placed(e) /\ shardMap[e].shard = d
       \/ shard.pool = PoolKey(NewPlacement(e, d).profile, NewPlacement(e, d).selection)

\* PublishNetEntity publishes into one shard and leaves the old one, if it is
\* another.
LEMMA PublishCases ==
    ASSUME IInv, NEW e \in Entities, Replicates(e), NEW snapshot \in Snapshot,
           PublishNetEntity(e, snapshot)
    PROVE  \E all, d, shard :
              /\ PublishedInto(all, e, d, shard, snapshot)
              /\ NewPlacement(e, d) \in Placement
              /\ shardMap' = [shardMap EXCEPT ![e] = NewPlacement(e, d)]
              /\ shards' = IF ~Placed(e) \/ shardMap[e].shard = d THEN all
                           ELSE Left(all, shardMap[e].shard, identity[e],
                                     PoolKey(shardMap[e].profile, shardMap[e].selection))
<1> DEFINE id == identity[e]
           profile == ResolveReplicationProfile(e)
           selection == SelectReplicationShard(profile)
           key == PoolKey(profile, selection)
           old == shardMap[e]
           stays == /\ old # NoPlacement
                    /\ old.profile = profile /\ old.selection = selection
                    /\ CanAccept(shards[old.shard], id)
<1>1. shards \in Seq(Shard) /\ Len(shards) \in Nat /\ Len(shards) <= MaxShards
  BY LenProperties DEF IInv, AuthorityTypeOK
<1>2. id \in NetworkIds
  BY DEF IInv, AuthorityTypeOK, Replicates
<1>3. profile \in Profiles \cup Entities /\ selection \in Selection
  BY ProfileFacts DEF IInv
<1>4. key \in PoolKeys /\ key[2] = selection
  BY <1>3, PoolKeyFacts DEF IInv
<1> DEFINE remains == /\ stays
                      /\ shards' = [shards EXCEPT ![old.shard] = WithEntity(@, id, snapshot)]
                      /\ UNCHANGED shardMap
<1>5. CASE remains
  <2> DEFINE d == old.shard
             w == WithEntity(shards[d], id, snapshot)
  <2>1. /\ Placed(e) /\ old \in Placement /\ d \in 1 .. Len(shards) /\ shards[d] \in Shard
        /\ old.selection = shards[d].selection
    BY <1>5, PlacedFacts DEF Placed
  <2>2. NewPlacement(e, d) = old
    BY <1>5, <2>1 DEF NewPlacement, Placement
  <2>3. shardMap' = [shardMap EXCEPT ![e] = NewPlacement(e, d)]
    <3>1. shardMap = [shardMap EXCEPT ![e] = shardMap[e]]
      BY DEF IInv, AuthorityTypeOK
    <3> QED
      BY <1>5, <2>2, <3>1
  <2>4. w \in Shard
    BY <1>2, <1>5, <2>1, WithEntityFacts
  <2>5. shards' = [shards EXCEPT ![d] = w]
    BY <1>1, <1>5, <2>1
  <2>6. /\ shards' \in Seq(Shard) /\ Len(shards') = Len(shards)
        /\ \A s \in 1 .. Len(shards) : shards'[s] = IF s = d THEN w ELSE shards[s]
    BY <1>1, <2>1, <2>4, <2>5, ExceptSeq
  <2>7. Chosen(shards[d], d, id)
    BY <1>1, <2>1 DEF Chosen
  <2>8. shards[d].selection = NewPlacement(e, d).selection
    BY <2>1, <2>2
  <2>9. d \in 1 .. MaxShards /\ d \in 1 .. Len(shards) + 1 /\ d # Len(shards) + 1
    BY <1>1, <2>1, AuthorityAssumption
  <2> HIDE DEF w
  <2>10. PublishedInto(shards', e, d, shards[d], snapshot)
    BY <1>5, <2>1, <2>6, <2>7, <2>8, <2>9 DEF PublishedInto, w
  <2> QED
    BY <2>1, <2>2, <2>3, <2>10
<1>6. CASE ~remains
  <2> DEFINE d == Destination(id, key)
             base == WithDestination(id, key)
             w == WithEntity(base[d], id, snapshot)
             all == [base EXCEPT ![d] = w]
  <2>1. /\ d \in 1 .. Len(shards) + 1
        /\ base \in Seq(Shard)
        /\ Len(base) = IF d = Len(shards) + 1 THEN d ELSE Len(shards)
        /\ d \in 1 .. Len(base)
        /\ base[d].pool = key /\ CanAccept(base[d], id)
        /\ \A s \in 1 .. Len(shards) : base[s] = shards[s]
        /\ d = Len(shards) + 1 => base[d] = NewShard(id, key)
    BY <1>2, <1>4, DestinationFacts DEF IInv
  <2>2. /\ d <= MaxShards
        /\ shardMap' = [shardMap EXCEPT ![e] = NewPlacement(e, d)]
    BY <1>6 DEF NewPlacement, PublishNetEntity
  <2>3. shards' = IF ~Placed(e) \/ old.shard = d THEN all
                  ELSE Left(all, old.shard, id, PoolKey(old.profile, old.selection))
    <3>1. DOMAIN base = 1 .. Len(base)
      BY <2>1, LenProperties
    <3>2. all = [WithDestination(id, key) EXCEPT ![Destination(id, key)] = WithEntity(@, id, snapshot)]
      BY <2>1, <3>1
    <3> QED
      BY <1>6, <3>2 DEF Left, Placed, PublishNetEntity
  <2> HIDE DEF d, base
  <2>4. base[d] \in Shard
    BY <2>1, ElementOfSeq
  <2>5. w \in Shard
    BY <1>2, <2>1, <2>4, WithEntityFacts
  <2> HIDE DEF w
  <2>6. /\ all \in Seq(Shard) /\ Len(all) = Len(base)
        /\ \A s \in 1 .. Len(base) : all[s] = IF s = d THEN w ELSE base[s]
    BY <2>1, <2>5, ExceptSeq
  <2> HIDE DEF all
  <2>7. Chosen(base[d], d, id)
    BY <1>1, <1>4, <2>1 DEF Chosen
  <2>8. base[d].selection = selection
    <3>1. CASE d = Len(shards) + 1
      BY <1>4, <2>1, <3>1 DEF NewShard
    <3>2. CASE d \in 1 .. Len(shards)
      BY <1>4, <2>1, <3>2, PlacementAssumption DEF IInv, PoolsMatch
    <3> QED
      BY <1>1, <2>1, <3>1, <3>2
  <2>9. d \in 1 .. MaxShards
    BY <1>1, <2>1, <2>2, AuthorityAssumption
  <2>10. NewPlacement(e, d) \in Placement
    BY <1>3, <2>9 DEF NewPlacement, Placement
  <2>11. /\ NewPlacement(e, d).selection = selection
         /\ PoolKey(NewPlacement(e, d).profile, NewPlacement(e, d).selection) = key
    BY DEF NewPlacement
  <2>12. \A s \in 1 .. Len(shards) : s # d => all[s] = shards[s]
    BY <1>1, <2>1, <2>6
  <2>13. all[d] = WithEntity(base[d], id, snapshot)
    BY <2>1, <2>6 DEF w
  <2> HIDE DEF key, selection, profile
  <2>14. PublishedInto(all, e, d, base[d], snapshot)
    BY <2>1, <2>4, <2>6, <2>7, <2>8, <2>9, <2>11, <2>12, <2>13 DEF PublishedInto
  <2> QED
    BY <2>2, <2>3, <2>10, <2>14
<1> QED
  BY <1>5, <1>6

\* PublishNetEntity moves the entity to the shard of its new placement.
LEMMA PublishFacts ==
    ASSUME IInv, NEW e \in Entities, Replicates(e), NEW snapshot \in Snapshot,
           PublishNetEntity(e, snapshot)
    PROVE  \E d \in 1 .. Len(shards') :
              /\ Moved(identity[e], d, snapshot)
              /\ NewPlacement(e, d) \in Placement
              /\ shardMap' = [shardMap EXCEPT ![e] = NewPlacement(e, d)]
              /\ shards'[d].selection = NewPlacement(e, d).selection
<1> DEFINE id == identity[e]
<1>1. shards \in Seq(Shard) /\ Len(shards) \in Nat /\ Len(shards) <= MaxShards
  BY LenProperties DEF IInv, AuthorityTypeOK
<1>2. id \in NetworkIds
  BY DEF IInv, AuthorityTypeOK, Replicates
<1>3. PICK all, d, shard :
        /\ PublishedInto(all, e, d, shard, snapshot)
        /\ NewPlacement(e, d) \in Placement
        /\ shardMap' = [shardMap EXCEPT ![e] = NewPlacement(e, d)]
        /\ shards' = IF ~Placed(e) \/ shardMap[e].shard = d THEN all
                     ELSE Left(all, shardMap[e].shard, id,
                               PoolKey(shardMap[e].profile, shardMap[e].selection))
  BY PublishCases
<1>4. /\ d \in 1 .. MaxShards /\ d \in 1 .. Len(shards) + 1 /\ shard \in Shard
      /\ CanAccept(shard, id) /\ Chosen(shard, d, id)
      /\ all \in Seq(Shard) /\ Len(all) = IF d = Len(shards) + 1 THEN d ELSE Len(shards)
      /\ all[d] = WithEntity(shard, id, snapshot)
      /\ \A s \in 1 .. Len(shards) : s # d => all[s] = shards[s]
      /\ shard.selection = NewPlacement(e, d).selection
  BY <1>3 DEF PublishedInto
<1>5. /\ all[d] \in Shard /\ all[d].selection = shard.selection
      /\ Brought(all[d], d, id, d, snapshot)
  BY <1>4, DestinationBrought DEF Chosen
<1>6. /\ d \in 1 .. Len(all) /\ Len(all) <= MaxShards /\ Len(shards) <= Len(all)
      /\ Len(all) \in Nat
      /\ \A s \in 1 .. Len(all) : s # d => s \in 1 .. Len(shards)
  BY <1>1, <1>4, AuthorityAssumption
<1>7. CASE ~Placed(e) \/ shardMap[e].shard = d
  <2>1. ASSUME NEW s \in 1 .. Len(all), s # d PROVE Brought(all[s], s, id, d, snapshot)
    <3>1. s \in 1 .. Len(shards) /\ all[s] = shards[s]
      BY <1>4, <1>6, <2>1
    <3>2. id \notin shards[s].held
      BY <1>7, <2>1, <3>1, HeldWherePlaced
    <3> HIDE DEF id
    <3> QED
      BY <2>1, <3>1, <3>2, UntouchedBrought
  <2>2. shards' = all
    BY <1>3, <1>7
  <2>3. Moved(id, d, snapshot)
    BY <1>4, <1>5, <1>6, <2>1, <2>2 DEF Moved
  <2> QED
    BY <1>3, <1>4, <1>5, <1>6, <2>2, <2>3
<1>8. CASE ~(~Placed(e) \/ shardMap[e].shard = d)
  <2> DEFINE p == shardMap[e].shard
             key == PoolKey(shardMap[e].profile, shardMap[e].selection)
  <2>1. p \in 1 .. Len(shards) /\ p # d
    BY <1>8, PlacedFacts
  <2>2. p \in 1 .. Len(all) /\ all[p] = shards[p]
    BY <1>1, <1>4, <1>6, <2>1
  <2>3. shards' = Left(all, p, id, key)
    BY <1>3, <1>8
  <2> HIDE DEF key, p
  <2>4. /\ shards' \in Seq(Shard) /\ Len(shards') = Len(all)
        /\ \A t \in 1 .. Len(all) : t # p => shards'[t] = all[t]
        /\ shards'[p].held = shards[p].held \ {id}
        /\ shards'[p].published[id] \in {NoSnapshot, shards[p].published[id]}
        /\ \A i \in NetworkIds \ {id} : shards'[p].published[i] = shards[p].published[i]
        /\ shards'[p].selection = shards[p].selection
        /\ shards'[p].pool \in {shards[p].pool, NoPool}
    BY <1>2, <1>4, <2>2, <2>3, LeftFacts
  <2>5. Brought(shards'[p], p, id, d, snapshot)
    <3>1. shards[p].pool # NoPool => shards[p].pool[2] = shards[p].selection
      BY <2>1 DEF IInv, PoolsMatch
    <3>2. Held(p) = shards[p].held /\ \A i : Carried(p, i) = shards[p].published[i]
      BY <1>1, <2>1 DEF Held, Carried
    <3> QED
      BY <2>1, <2>4, <3>1, <3>2 DEF Brought
  <2>6. ASSUME NEW s \in 1 .. Len(all), s # d, s # p
        PROVE  Brought(shards'[s], s, id, d, snapshot)
    <3>1. s \in 1 .. Len(shards) /\ shards'[s] = shards[s]
      BY <1>4, <1>6, <2>4, <2>6
    <3>2. id \notin shards[s].held
      BY <2>6, <3>1, HeldWherePlaced DEF p
    <3> HIDE DEF id
    <3> QED
      BY <2>6, <3>1, <3>2, UntouchedBrought
  <2>7. shards'[d] = all[d]
    BY <1>6, <2>1, <2>4
  <2>8. Moved(id, d, snapshot)
    BY <1>4, <1>5, <1>6, <2>4, <2>5, <2>6, <2>7 DEF Moved
  <2> QED
    BY <1>3, <1>4, <1>5, <1>6, <2>4, <2>7, <2>8
<1> QED
  BY <1>7, <1>8

-----------------------------------------------------------------------------
(* The inductive invariant                                                   *)

\* No two entities have the same identity.
LEMMA IdentitiesDiffer ==
    ASSUME IInv, NEW e \in Entities, NEW f \in Entities, Replicates(e), Replicates(f), e # f
    PROVE  identity[e] # identity[f]
  BY DEF IInv, IdentitiesOwn

\* An identity names its entity and one of its lives.
LEMMA IdentityTyped ==
    ASSUME AuthorityTypeOK, NEW e \in Entities, Replicates(e)
    PROVE  identity[e] \in NetworkIds
  BY DEF AuthorityTypeOK, Replicates

\* FillFromEntity makes a snapshot with the next revision.
LEMMA FillFacts ==
    ASSUME AuthorityTypeOK, NEW e \in Entities, Replicates(e)
    PROVE  /\ FillFromEntity(e) \in Snapshot
           /\ FillFromEntity(e).layoutId = BuildForEntity(e)
           /\ FillFromEntity(e).stateRevision = authoritySnapshots[identity[e]].stateRevision + 1
           /\ BuildForEntity(e) \in LayoutId
           /\ TableOf(e) \in Table
<1> DEFINE layout == BuildForEntity(e)
           packed(k) == {x \in PayloadIds :
                           /\ KeyOf(x) = k /\ components[e][x] \in Values
                           /\ x \in PairIds => k \in ReferenceKeys}
           values == [k \in Keys |-> IF k \in layout /\ packed(k) # {}
                                     THEN components[e][CHOOSE x \in packed(k) : TRUE]
                                     ELSE NoValue]
<1>1. identity[e] \in NetworkIds
  BY IdentityTyped
<1>2. authoritySnapshots[identity[e]].stateRevision \in Nat
  BY <1>1 DEF AuthorityTypeOK, Snapshot
<1>3. TableOf(e) \in Table
  BY DEF TableOf, Table, AuthorityTypeOK
<1>4. ASSUME NEW x \in LocalIds PROVE KeyOf(x) \in Keys
  <2>1. CASE x \in PairIds
    <3>1. PairTarget[x] \in Entities
      BY <2>1, AuthorityAssumption
    <3>2. identity[PairTarget[x]] \in NetworkIds \cup {NoIdentity}
      BY <3>1 DEF AuthorityTypeOK
    <3>3. <<x, identity[PairTarget[x]]>> \in PairIds \X (NetworkIds \cup {NoIdentity})
      BY <2>1, <3>2
    <3> QED
      BY <2>1, <3>3, AuthorityAssumption DEF KeyOf
  <2>2. CASE x \notin PairIds
    BY <2>2, AuthorityAssumption DEF KeyOf
  <2> QED
    BY <2>1, <2>2
<1>5. layout \in LayoutId
  <2>1. CASE CachedLayouts(e) = {}
    <3>1. TableOf(e)[1] \subseteq LocalIds
      BY DEF TableOf
    <3>2. layout = {KeyOf(x) : x \in TableOf(e)[1]}
      BY <2>1 DEF BuildForEntity
    <3> QED
      BY <1>4, <3>1, <3>2 DEF LayoutId
  <2>2. CASE CachedLayouts(e) # {}
    <3>1. layout \in CachedLayouts(e)
      BY <2>2 DEF BuildForEntity
    <3>2. CachedLayouts(e) \subseteq LayoutId
      BY DEF CachedLayouts, AuthorityTypeOK
    <3> QED
      BY <3>1, <3>2
  <2> QED
    BY <2>1, <2>2
<1>6. ASSUME NEW k \in Keys PROVE values[k] \in Values \cup {NoValue}
  <2>1. CASE k \in layout /\ packed(k) # {}
    <3>1. PICK x \in packed(k) : x = CHOOSE y \in packed(k) : TRUE
      BY <2>1
    <3>2. components[e][x] \in Values
      BY <3>1
    <3> QED
      BY <2>1, <3>1, <3>2
  <2>2. CASE ~(k \in layout /\ packed(k) # {})
    BY <2>2
  <2> QED
    BY <2>1, <2>2
<1>7. values \in [Keys -> Values \cup {NoValue}]
  BY <1>6
<1>8. FillFromEntity(e) = [layoutId |-> layout, values |-> values,
                           stateRevision |-> authoritySnapshots[identity[e]].stateRevision + 1]
  BY DEF FillFromEntity, NextRevision
<1> HIDE DEF values, layout
<1>9. FillFromEntity(e) \in Snapshot
  BY <1>2, <1>5, <1>7, <1>8 DEF Snapshot
<1> QED
  BY <1>3, <1>5, <1>8, <1>9 DEF layout

\* When an entity stops to replicate, the placements of the others stay sound.
LEMMA StopKeeps ==
    ASSUME IInv, NEW e \in Entities, Replicates(e), StopReplicatingEntity(e)
    PROVE  IdentitiesOwn' /\ PoolsMatch' /\ PlacementsExist' /\ PlacedOnce'
<1> DEFINE id == identity[e]
<1>1. /\ Len(shards') = Len(shards) /\ Len(shards) \in Nat
      /\ \A s \in 1 .. Len(shards) : Brought(shards'[s], s, id, 0, NoSnapshot)
  BY StopFacts, LenProperties DEF Moved, IInv, AuthorityTypeOK
<1>2. \A s \in 1 .. Len(shards) :
        /\ shards'[s].held = shards[s].held \ {id}
        /\ \A i \in shards[s].held : i \in NetworkIds /\ i # id
              => shards'[s].published[i] = shards[s].published[i]
        /\ shards'[s].selection = shards[s].selection
        /\ shards'[s].pool # NoPool => shards'[s].pool[2] = shards'[s].selection
  <2> TAKE s \in 1 .. Len(shards)
  <2>1. s # 0 /\ s <= Len(shards)
    BY <1>1
  <2>2. Held(s) = shards[s].held /\ \A i : Carried(s, i) = shards[s].published[i]
    BY <2>1 DEF Held, Carried
  <2>3. Brought(shards'[s], s, id, 0, NoSnapshot)
    BY <1>1
  <2> HIDE DEF id
  <2>4. shards'[s].held = shards[s].held \ {id}
    BY <2>1, <2>2, <2>3 DEF Brought
  <2>5. ASSUME NEW i \in shards[s].held, i \in NetworkIds, i # id
        PROVE  shards'[s].published[i] = shards[s].published[i]
    BY <2>1, <2>2, <2>3, <2>5 DEF Brought
  <2>6. /\ shards'[s].selection = shards[s].selection
        /\ shards'[s].pool # NoPool => shards'[s].pool[2] = shards'[s].selection
    BY <2>1, <2>3 DEF Brought
  <2> QED
    BY <2>4, <2>5, <2>6
<1>3. id \in NetworkIds
  BY IdentityTyped DEF IInv
<1>4. /\ identity' = [identity EXCEPT ![e] = NoIdentity] /\ lives' = lives
      /\ shardMap' = [shardMap EXCEPT ![e] = NoPlacement]
      /\ authoritySnapshots' = [authoritySnapshots EXCEPT ![id] = NoSnapshot]
  BY DEF StopReplicatingEntity
<1>5. /\ identity'[e] = NoIdentity /\ shardMap'[e] = NoPlacement
      /\ \A f \in Entities \ {e} : identity'[f] = identity[f] /\ shardMap'[f] = shardMap[f]
      /\ \A i \in NetworkIds \ {id} : authoritySnapshots'[i] = authoritySnapshots[i]
  BY <1>4 DEF IInv, AuthorityTypeOK
<1>6. IdentitiesOwn'
  BY <1>4, <1>5 DEF IInv, IdentitiesOwn, Replicates
<1>7. PoolsMatch'
  BY <1>1, <1>2 DEF PoolsMatch
<1>8. PlacementsExist'
  <2> SUFFICES ASSUME NEW f \in Entities, Placed(f)'
               PROVE  /\ shardMap'[f].shard <= Len(shards')
                      /\ shardMap'[f].selection = shards'[shardMap'[f].shard].selection
    BY DEF PlacementsExist
  <2>1. f # e /\ Placed(f) /\ shardMap'[f] = shardMap[f]
    BY <1>5 DEF Placed
  <2>2. shardMap[f].shard \in 1 .. Len(shards)
    BY <2>1, PlacedFacts
  <2> QED
    BY <1>1, <1>2, <2>1, <2>2 DEF IInv, PlacementsExist
<1>9. PlacedOnce'
  <2>1. ASSUME NEW f \in Entities, Placed(f)'
        PROVE  /\ identity'[f] \in shards'[shardMap'[f].shard].held
               /\ shards'[shardMap'[f].shard].published[identity'[f]]
                     = authoritySnapshots'[identity'[f]]
    <3>1. f # e /\ Placed(f) /\ shardMap'[f] = shardMap[f] /\ identity'[f] = identity[f]
      BY <1>5, <2>1 DEF Placed
    <3>2. shardMap[f].shard \in 1 .. Len(shards) /\ Replicates(f) /\ identity[f] \in NetworkIds
      BY <3>1, PlacedFacts
    <3>3. identity[f] # id
      BY <3>1, <3>2, IdentitiesDiffer
    <3>4. /\ identity[f] \in shards[shardMap[f].shard].held
          /\ shards[shardMap[f].shard].published[identity[f]] = authoritySnapshots[identity[f]]
      BY <3>1 DEF IInv, PlacedOnce
    <3> QED
      BY <1>2, <1>5, <3>1, <3>2, <3>3, <3>4
  <2>2. ASSUME NEW s \in 1 .. Len(shards'), NEW i \in shards'[s].held
        PROVE  \E f \in Entities : Placed(f)' /\ shardMap'[f].shard = s /\ identity'[f] = i
    <3>1. s \in 1 .. Len(shards) /\ i \in shards[s].held /\ i # id
      BY <1>1, <1>2
    <3>2. PICK f \in Entities : Placed(f) /\ shardMap[f].shard = s /\ identity[f] = i
      BY <3>1 DEF IInv, PlacedOnce
    <3>3. f # e
      BY <3>1, <3>2
    <3> QED
      BY <1>5, <3>2, <3>3 DEF Placed
  <2> QED
    BY <2>1, <2>2 DEF PlacedOnce
<1> QED
  BY <1>6, <1>7, <1>8, <1>9

\* What the turn of an entity in the dirty system does.
LEMMA PublishDirtyFacts ==
    ASSUME IInv, NEW e \in Entities, PublishDirty(e)
    PROVE  LET id == identity[e]
               snapshot == FillFromEntity(e)
           IN  /\ Replicates(e) /\ id \in NetworkIds /\ snapshot \in Snapshot
               /\ snapshot.layoutId = BuildForEntity(e)
               /\ snapshot.stateRevision = authoritySnapshots[id].stateRevision + 1
               /\ snapshot.stateRevision \in Revisions
               /\ authoritySnapshots' = [authoritySnapshots EXCEPT ![id] = snapshot]
               /\ UNCHANGED <<lives, identity, components, prefab, profileId>>
               /\ dirty' = dirty \ {e}
               /\ \E d \in 1 .. Len(shards') :
                     /\ Moved(id, d, snapshot)
                     /\ NewPlacement(e, d) \in Placement
                     /\ shardMap' = [shardMap EXCEPT ![e] = NewPlacement(e, d)]
                     /\ shards'[d].selection = NewPlacement(e, d).selection
<1> DEFINE id == identity[e]
           snapshot == FillFromEntity(e)
<1>1. /\ Replicates(e)
      /\ snapshot.stateRevision \in Revisions
      /\ authoritySnapshots' = [authoritySnapshots EXCEPT ![id] = snapshot]
      /\ UNCHANGED <<lives, identity, components, prefab, profileId>>
      /\ dirty' = dirty \ {e}
      /\ PublishNetEntity(e, snapshot)
  BY DEF PublishDirty
<1>2. /\ snapshot \in Snapshot
      /\ snapshot.layoutId = BuildForEntity(e)
      /\ snapshot.stateRevision = authoritySnapshots[id].stateRevision + 1
  BY <1>1, FillFacts DEF IInv
<1>3. id \in NetworkIds
  BY <1>1, IdentityTyped DEF IInv
<1> HIDE DEF snapshot
<1>4. \E d \in 1 .. Len(shards') :
         /\ Moved(id, d, snapshot)
         /\ NewPlacement(e, d) \in Placement
         /\ shardMap' = [shardMap EXCEPT ![e] = NewPlacement(e, d)]
         /\ shards'[d].selection = NewPlacement(e, d).selection
  BY <1>1, <1>2, PublishFacts
<1> QED
  BY <1>1, <1>2, <1>3, <1>4 DEF snapshot

\* When an entity is published, placements stay sound.
LEMMA PublishKeeps ==
    ASSUME IInv, NEW e \in Entities, PublishDirty(e)
    PROVE  IdentitiesOwn' /\ PoolsMatch' /\ PlacementsExist' /\ PlacedOnce'
<1> DEFINE id == identity[e]
           snapshot == FillFromEntity(e)
<1>1. /\ Replicates(e) /\ id \in NetworkIds /\ snapshot \in Snapshot
      /\ authoritySnapshots' = [authoritySnapshots EXCEPT ![id] = snapshot]
      /\ lives' = lives /\ identity' = identity
  BY PublishDirtyFacts
<1>2. PICK d \in 1 .. Len(shards') :
        /\ Moved(id, d, snapshot)
        /\ NewPlacement(e, d) \in Placement
        /\ shardMap' = [shardMap EXCEPT ![e] = NewPlacement(e, d)]
        /\ shards'[d].selection = NewPlacement(e, d).selection
  BY PublishDirtyFacts
<1>3. /\ NewPlacement(e, d) # NoPlacement
      /\ NewPlacement(e, d).shard = d
  BY <1>2, PlacementAssumption DEF NewPlacement
<1>4. /\ shardMap'[e] = NewPlacement(e, d)
      /\ \A f \in Entities \ {e} : shardMap'[f] = shardMap[f]
      /\ authoritySnapshots'[id] = snapshot
      /\ \A i \in NetworkIds \ {id} : authoritySnapshots'[i] = authoritySnapshots[i]
  BY <1>1, <1>2 DEF IInv, AuthorityTypeOK
<1>5. /\ shards' \in Seq(Shard) /\ Len(shards) \in Nat /\ Len(shards') \in Nat
      /\ Len(shards) <= Len(shards')
      /\ \A s \in 1 .. Len(shards') : Brought(shards'[s], s, id, d, snapshot)
  BY <1>2, LenProperties DEF Moved, IInv, AuthorityTypeOK
<1> HIDE DEF snapshot, id
<1>6. \A s \in 1 .. Len(shards) :
        /\ shards[s].held \ {id} \subseteq shards'[s].held
        /\ \A i \in shards[s].held : i \in NetworkIds /\ i # id
              => shards'[s].published[i] = shards[s].published[i]
        /\ shards'[s].selection = shards[s].selection
  <2> TAKE s \in 1 .. Len(shards)
  <2>1. s <= Len(shards) /\ s \in 1 .. Len(shards')
    BY <1>5
  <2>2. Held(s) = shards[s].held /\ \A i : Carried(s, i) = shards[s].published[i]
    BY <2>1 DEF Held, Carried
  <2>3. Brought(shards'[s], s, id, d, snapshot)
    BY <1>5, <2>1
  <2>4. shards[s].held \ {id} \subseteq shards'[s].held
    BY <2>2, <2>3 DEF Brought
  <2>5. shards'[s].selection = shards[s].selection
    BY <2>1, <2>3 DEF Brought
  <2>6. ASSUME NEW i \in shards[s].held, i \in NetworkIds, i # id
        PROVE  shards'[s].published[i] = shards[s].published[i]
    <3>1. i \in Held(s) /\ i \in NetworkIds \ {id}
      BY <2>2, <2>6
    <3>2. shards'[s].published[i] = Carried(s, i)
      BY <2>3, <3>1 DEF Brought
    <3> QED
      BY <2>2, <3>2
  <2> QED
    BY <2>4, <2>5, <2>6
<1>7. id \in shards'[d].held /\ shards'[d].published[id] = snapshot
  BY <1>5 DEF Brought
<1>8. \A s \in 1 .. Len(shards') : \A i \in shards'[s].held :
        IF i = id THEN s = d ELSE s \in 1 .. Len(shards) /\ i \in shards[s].held
  <2> TAKE s \in 1 .. Len(shards')
  <2> TAKE i \in shards'[s].held
  <2>1. Brought(shards'[s], s, id, d, snapshot)
    BY <1>5
  <2>2. CASE i = id
    BY <2>1, <2>2 DEF Brought
  <2>3. CASE i # id
    <3>1. i \in Held(s)
      BY <2>1, <2>3 DEF Brought
    <3>2. s <= Len(shards) /\ i \in shards[s].held
      BY <3>1 DEF Held
    <3> QED
      BY <1>5, <2>3, <3>2
  <2> QED
    BY <2>2, <2>3
<1>9. IdentitiesOwn'
  BY <1>1 DEF IInv, IdentitiesOwn, Replicates
<1>10. PoolsMatch'
  BY <1>5 DEF PoolsMatch, Brought
<1>11. PlacementsExist'
  <2> SUFFICES ASSUME NEW f \in Entities, Placed(f)'
               PROVE  /\ shardMap'[f].shard <= Len(shards')
                      /\ shardMap'[f].selection = shards'[shardMap'[f].shard].selection
    BY DEF PlacementsExist
  <2>1. CASE f = e
    BY <1>2, <1>3, <1>4, <1>5, <2>1
  <2>2. CASE f # e
    <3>1. Placed(f) /\ shardMap'[f] = shardMap[f]
      BY <1>4, <2>2 DEF Placed
    <3>2. shardMap[f].shard \in 1 .. Len(shards)
      BY <3>1, PlacedFacts
    <3> QED
      BY <1>5, <1>6, <3>1, <3>2 DEF IInv, PlacementsExist
  <2> QED
    BY <2>1, <2>2
<1>12. PlacedOnce'
  <2>1. ASSUME NEW f \in Entities, Placed(f)'
        PROVE  /\ identity'[f] \in shards'[shardMap'[f].shard].held
               /\ shards'[shardMap'[f].shard].published[identity'[f]]
                     = authoritySnapshots'[identity'[f]]
    <3>1. CASE f = e
      BY <1>1, <1>3, <1>4, <1>7, <3>1 DEF id
    <3>2. CASE f # e
      <4>1. Placed(f) /\ shardMap'[f] = shardMap[f] /\ identity'[f] = identity[f]
        BY <1>1, <1>4, <2>1, <3>2 DEF Placed
      <4>2. shardMap[f].shard \in 1 .. Len(shards) /\ Replicates(f) /\ identity[f] \in NetworkIds
        BY <4>1, PlacedFacts
      <4>3. identity[f] # id
        BY <1>1, <3>2, <4>2, IdentitiesDiffer DEF id
      <4>4. /\ identity[f] \in shards[shardMap[f].shard].held
            /\ shards[shardMap[f].shard].published[identity[f]] = authoritySnapshots[identity[f]]
        BY <4>1 DEF IInv, PlacedOnce
      <4> QED
        BY <1>4, <1>6, <4>1, <4>2, <4>3, <4>4
    <3> QED
      BY <3>1, <3>2
  <2>2. ASSUME NEW s \in 1 .. Len(shards'), NEW i \in shards'[s].held
        PROVE  \E f \in Entities : Placed(f)' /\ shardMap'[f].shard = s /\ identity'[f] = i
    <3>1. CASE i = id
      <4>1. s = d
        BY <1>8, <3>1
      <4> QED
        BY <1>1, <1>3, <1>4, <3>1, <4>1 DEF Placed, id
    <3>2. CASE i # id
      <4>1. s \in 1 .. Len(shards) /\ i \in shards[s].held
        BY <1>8, <3>2
      <4>2. PICK f \in Entities : Placed(f) /\ shardMap[f].shard = s /\ identity[f] = i
        BY <4>1 DEF IInv, PlacedOnce
      <4>3. f # e
        BY <3>2, <4>2 DEF id
      <4> QED
        BY <1>1, <1>4, <4>2, <4>3 DEF Placed
    <3> QED
      BY <3>1, <3>2
  <2> QED
    BY <2>1, <2>2 DEF PlacedOnce
<1> QED
  BY <1>9, <1>10, <1>11, <1>12

\* Game code that changes an entity's profile, components or tags publishes nothing.
LEMMA EditFacts ==
    ASSUME AuthorityTypeOK, NEW e \in Entities,
           \/ \E p \in Profiles : AddPrefab(e, p) \/ SetReplicationProfile(e, p)
           \/ \E x \in LocalIds : \/ \E v \in Values : SetComponent(e, x, v)
                                  \/ AddTag(e, x) \/ RemoveId(e, x)
    PROVE  AuthorityTypeOK' /\ UNCHANGED <<lives, identity, publishedVars>>
<1>1. ASSUME NEW p \in Profiles, AddPrefab(e, p)
      PROVE  AuthorityTypeOK' /\ UNCHANGED <<lives, identity, publishedVars>>
  <2>1. /\ prefab' = [prefab EXCEPT ![e] = p]
        /\ dirty' \subseteq Entities
        /\ UNCHANGED <<lives, identity, components, profileId, publishedVars>>
    BY <1>1 DEF AddPrefab, DirtyOnPrefabChange, AuthorityTypeOK
  <2> QED
    BY <2>1 DEF AuthorityTypeOK, publishedVars
<1>2. ASSUME NEW p \in Profiles, SetReplicationProfile(e, p)
      PROVE  AuthorityTypeOK' /\ UNCHANGED <<lives, identity, publishedVars>>
  <2>1. /\ prefab' = [prefab EXCEPT ![e] = p]
        /\ profileId' \in {profileId, [profileId EXCEPT ![e] = p]}
        /\ dirty' \subseteq Entities
        /\ UNCHANGED <<lives, identity, components, publishedVars>>
    BY <1>2 DEF SetReplicationProfile, DirtyOnPrefabChange, AuthorityTypeOK
  <2> QED
    BY <2>1 DEF AuthorityTypeOK, publishedVars
<1>3. ASSUME NEW x \in LocalIds, NEW v \in Values \cup {NoValue, Absent}, ChangeId(e, x, v)
      PROVE  AuthorityTypeOK' /\ UNCHANGED <<lives, identity, publishedVars>>
  <2>1. /\ components' = [components EXCEPT ![e] = [components[e] EXCEPT ![x] = v]]
        /\ dirty' \subseteq Entities
        /\ UNCHANGED <<lives, identity, prefab, profileId, publishedVars>>
    BY <1>3 DEF ChangeId, DirtyOnChange, AuthorityTypeOK
  <2>2. components' \in [Entities -> [LocalIds -> Values \cup {NoValue, Absent}]]
    <3>1. components[e] \in [LocalIds -> Values \cup {NoValue, Absent}]
      BY DEF AuthorityTypeOK
    <3>2. [components[e] EXCEPT ![x] = v] \in [LocalIds -> Values \cup {NoValue, Absent}]
      BY <3>1
    <3> QED
      BY <2>1, <3>2 DEF AuthorityTypeOK
  <2> QED
    BY <2>1, <2>2 DEF AuthorityTypeOK, publishedVars
<1> QED
  BY <1>1, <1>2, <1>3 DEF SetComponent, AddTag, RemoveId

\* The sound placements stay as they are, if nothing is published.
LEMMA UnpublishedKeeps ==
    ASSUME IInv, UNCHANGED <<lives, identity, publishedVars>>
    PROVE  IdentitiesOwn' /\ PoolsMatch' /\ PlacementsExist' /\ PlacedOnce'
  BY DEF IInv, IdentitiesOwn, PoolsMatch, PlacementsExist, PlacedOnce, Placed, Replicates,
         publishedVars

\* A new life's identity is nobody's yet.
LEMMA BeginFacts ==
    ASSUME IInv, NEW e \in Entities, BeginReplicatingEntity(e)
    PROVE  /\ IInv'
           /\ ~Replicates(e) /\ ~Placed(e)
           /\ identity' = [identity EXCEPT ![e] = <<e, lives[e] + 1>>]
           /\ lives' = [lives EXCEPT ![e] = lives[e] + 1]
           /\ <<e, lives[e] + 1>> \in NetworkIds
           /\ dirty' = dirty \cup {e}
           /\ UNCHANGED <<components, prefab, publishedVars>>
<1>1. /\ ~Replicates(e) /\ lives[e] < MaxLives
      /\ lives' = [lives EXCEPT ![e] = lives[e] + 1]
      /\ identity' = [identity EXCEPT ![e] = <<e, lives[e] + 1>>]
      /\ profileId' = [profileId EXCEPT ![e] = prefab[e]]
      /\ dirty' = dirty \cup {e}
      /\ UNCHANGED <<components, prefab, publishedVars>>
  BY DEF BeginReplicatingEntity, NextIdentity, IInv, AuthorityTypeOK
<1>2. lives[e] + 1 \in 1 .. MaxLives /\ lives[e] \in 0 .. MaxLives
  BY <1>1, AuthorityAssumption DEF IInv, AuthorityTypeOK
<1>3. <<e, lives[e] + 1>> \in NetworkIds
  BY <1>2, AuthorityAssumption
<1>4. ~Placed(e)
  BY <1>1, PlacedFacts
<1>5. AuthorityTypeOK'
  BY <1>1, <1>2, <1>3 DEF IInv, AuthorityTypeOK, publishedVars
<1>6. /\ identity'[e] = <<e, lives[e] + 1>> /\ lives'[e] = lives[e] + 1
      /\ \A f \in Entities \ {e} : identity'[f] = identity[f] /\ lives'[f] = lives[f]
  BY <1>1 DEF IInv, AuthorityTypeOK
<1>7. IdentitiesOwn'
  BY <1>6 DEF IInv, IdentitiesOwn, Replicates
<1>8. PoolsMatch' /\ PlacementsExist'
  BY <1>1 DEF IInv, PoolsMatch, PlacementsExist, Placed, publishedVars
<1>9. PlacedOnce'
  <2>1. /\ shards' = shards /\ shardMap' = shardMap
        /\ authoritySnapshots' = authoritySnapshots
    BY <1>1 DEF publishedVars
  <2>2. ASSUME NEW f \in Entities, Placed(f)'
        PROVE  Placed(f) /\ identity'[f] = identity[f]
    BY <1>4, <1>6, <2>1, <2>2 DEF Placed
  <2>3. ASSUME NEW f \in Entities, Placed(f)
        PROVE  Placed(f)' /\ identity'[f] = identity[f]
    BY <1>4, <1>6, <2>1, <2>3 DEF Placed
  <2> QED
    BY <2>1, <2>2, <2>3 DEF IInv, PlacedOnce
<1> QED
  BY <1>1, <1>3, <1>4, <1>5, <1>7, <1>8, <1>9 DEF IInv

\* What an entity that stops to replicate leaves is well typed.
LEMMA StopTyped ==
    ASSUME IInv, NEW e \in Entities, Replicates(e), StopReplicatingEntity(e),
           dirty' \subseteq Entities,
           components' \in [Entities -> [LocalIds -> Values \cup {NoValue, Absent}]],
           prefab' \in [Entities -> Profiles \cup {NoProfile}]
    PROVE  AuthorityTypeOK'
<1>1. shards' \in Seq(Shard) /\ Len(shards') <= MaxShards
  BY StopFacts DEF Moved
<1>2. /\ identity' = [identity EXCEPT ![e] = NoIdentity]
      /\ profileId' = [profileId EXCEPT ![e] = NoProfile]
      /\ authoritySnapshots' = [authoritySnapshots EXCEPT ![identity[e]] = NoSnapshot]
      /\ shardMap' = [shardMap EXCEPT ![e] = NoPlacement]
      /\ UNCHANGED <<lives, authorityLayouts, tableCache, replicatedLayouts>>
  BY DEF StopReplicatingEntity
<1> QED
  BY <1>1, <1>2, NoSnapshotTyped DEF IInv, AuthorityTypeOK

\* Either way an entity stops to replicate, and game code edits the rest.
LEMMA StopStepKeeps ==
    ASSUME IInv, NEW e \in Entities, RemoveMarker(e) \/ DestroyEntity(e)
    PROVE  IInv' /\ Replicates(e) /\ StopReplicatingEntity(e)
<1>1. Replicates(e) /\ StopReplicatingEntity(e)
  BY DEF RemoveMarker, DestroyEntity
<1>2. /\ dirty' \subseteq Entities
      /\ components' \in [Entities -> [LocalIds -> Values \cup {NoValue, Absent}]]
      /\ prefab' \in [Entities -> Profiles \cup {NoProfile}]
  <2>1. CASE RemoveMarker(e)
    BY <2>1 DEF RemoveMarker, IInv, AuthorityTypeOK
  <2>2. CASE DestroyEntity(e)
    BY <2>2 DEF DestroyEntity, IInv, AuthorityTypeOK
  <2> QED
    BY <2>1, <2>2
<1> QED
  BY <1>1, <1>2, StopKeeps, StopTyped DEF IInv

\* The turn of an entity leaves everything well typed.
LEMMA PublishTyped ==
    ASSUME IInv, NEW e \in Entities, PublishDirty(e)
    PROVE  AuthorityTypeOK'
<1> DEFINE snapshot == FillFromEntity(e)
<1>1. /\ Replicates(e) /\ identity[e] \in NetworkIds /\ snapshot \in Snapshot
      /\ snapshot.layoutId = BuildForEntity(e)
      /\ authoritySnapshots' = [authoritySnapshots EXCEPT ![identity[e]] = snapshot]
      /\ UNCHANGED <<lives, identity, components, prefab, profileId>>
      /\ dirty' = dirty \ {e}
  BY PublishDirtyFacts
<1>2. PICK d \in 1 .. Len(shards') :
        /\ Moved(identity[e], d, snapshot)
        /\ NewPlacement(e, d) \in Placement
        /\ shardMap' = [shardMap EXCEPT ![e] = NewPlacement(e, d)]
  BY PublishDirtyFacts
<1> HIDE DEF snapshot
<1>3. shards' \in Seq(Shard) /\ Len(shards') <= MaxShards
  BY <1>2 DEF Moved
<1>4. BuildForEntity(e) \in LayoutId /\ TableOf(e) \in Table
  BY <1>1, FillFacts DEF IInv
<1>5. /\ authorityLayouts' = authorityLayouts \cup {BuildForEntity(e)}
      /\ tableCache' = tableCache \cup {<<TableOf(e), BuildForEntity(e)>>}
      /\ replicatedLayouts' \subseteq replicatedLayouts \cup {BuildForEntity(e)}
  BY <1>1 DEF PublishDirty, snapshot
<1>6. /\ authorityLayouts' \subseteq LayoutId
      /\ tableCache' \subseteq Table \X LayoutId
      /\ replicatedLayouts' \subseteq LayoutId
  BY <1>4, <1>5 DEF IInv, AuthorityTypeOK
<1>7. authoritySnapshots' \in [NetworkIds -> Snapshot]
  BY <1>1 DEF IInv, AuthorityTypeOK
<1>8. shardMap' \in [Entities -> Placement \cup {NoPlacement}]
  BY <1>2 DEF IInv, AuthorityTypeOK
<1> QED
  BY <1>1, <1>3, <1>6, <1>7, <1>8 DEF IInv, AuthorityTypeOK

\* Initially there is nothing.
LEMMA InitIInv == AuthorityInit => IInv
<1> SUFFICES ASSUME AuthorityInit PROVE IInv
  OBVIOUS
<1> USE DEF AuthorityInit
<1>1. shards \in Seq(Shard) /\ Len(shards) = 0
  OBVIOUS
<1>2. AuthorityTypeOK
  BY <1>1, AuthorityAssumption, NoSnapshotTyped DEF AuthorityTypeOK
<1>3. IdentitiesOwn /\ PoolsMatch /\ PlacementsExist /\ PlacedOnce
  BY <1>1 DEF IdentitiesOwn, PoolsMatch, PlacementsExist, PlacedOnce, Placed, Replicates
<1> QED
  BY <1>2, <1>3 DEF IInv

\* Every step keeps the invariant.
LEMMA NextIInv == IInv /\ [AuthorityNext]_authorityVars => IInv'
<1> SUFFICES ASSUME IInv, [AuthorityNext]_authorityVars PROVE IInv'
  OBVIOUS
<1>1. ASSUME NEW e \in Entities,
             \/ \E p \in Profiles : AddPrefab(e, p) \/ SetReplicationProfile(e, p)
             \/ \E x \in LocalIds : \/ \E v \in Values : SetComponent(e, x, v)
                                    \/ AddTag(e, x) \/ RemoveId(e, x)
      PROVE  IInv'
  BY <1>1, EditFacts, UnpublishedKeeps DEF IInv
<1>2. ASSUME NEW e \in Entities, BeginReplicatingEntity(e) PROVE IInv'
  BY <1>2, BeginFacts
<1>3. ASSUME NEW e \in Entities, RemoveMarker(e) \/ DestroyEntity(e) PROVE IInv'
  BY <1>3, StopStepKeeps
<1>4. ASSUME NEW e \in Entities, PublishDirty(e) PROVE IInv'
  BY <1>4, PublishTyped, PublishKeeps DEF IInv
<1>5. CASE UNCHANGED authorityVars
  <2>1. AuthorityTypeOK' /\ UNCHANGED <<lives, identity, publishedVars>>
    BY <1>5 DEF authorityVars, entityStateVars, publishedVars, IInv, AuthorityTypeOK
  <2> QED
    BY <2>1, UnpublishedKeeps DEF IInv
<1> QED
  BY <1>1, <1>2, <1>3, <1>4, <1>5 DEF AuthorityNext, GameCode

\* The invariant holds in every reachable state.
LEMMA AlwaysIInv == AuthoritySpec => []IInv
  BY InitIInv, NextIInv, PTL DEF AuthoritySpec

\* The authority's state is well typed, and every entity that is published is in
\* one shard, the one its placement names, with its latest snapshot: migrations
\* and ends leave nothing behind in a table and keep no proxy occupied.
THEOREM PlacementsAreSound == AuthoritySpec => []PlacementSound
<1>1. IInv => PlacementSound
  BY DEF IInv, PlacementSound
<1> QED
  BY <1>1, AlwaysIInv, PTL

-----------------------------------------------------------------------------
(* Copies that were left behind                                              *)

\* The absence of a snapshot counts as the oldest.
LEMMA RevisionFacts ==
    /\ NoSnapshot.stateRevision = 0
    /\ \A snapshot \in Snapshot : snapshot.stateRevision \in Nat
  BY DEF NoSnapshot, Snapshot

\* What a step that moves an entity does to the copies of all.
LEMMA MovedCopies ==
    ASSUME IInv, NEW id \in NetworkIds, NEW d, NEW snapshot \in Snapshot, Moved(id, d, snapshot),
           NEW s \in 1 .. Len(shards'), NEW i \in NetworkIds
    PROVE  /\ shards'[s].published[i] \in Snapshot
           /\ IF i = id /\ s = d THEN shards'[s].published[i] = snapshot
              ELSE \/ shards'[s].published[i] = NoSnapshot
                   \/ /\ s \in 1 .. Len(shards)
                      /\ shards'[s].published[i] = shards[s].published[i]
<1>1. shards' \in Seq(Shard) /\ Brought(shards'[s], s, id, d, snapshot)
  BY DEF Moved
<1>2. shards'[s] \in Shard
  BY <1>1, ElementOfSeq
<1>3. shards'[s].published[i] \in Snapshot
  BY <1>2, ShardFacts
<1>4. Carried(s, i) = NoSnapshot \/ (s \in 1 .. Len(shards) /\ Carried(s, i) = shards[s].published[i])
  <2>1. Len(shards) \in Nat /\ Len(shards') \in Nat
    BY <1>1, LenProperties DEF IInv, AuthorityTypeOK
  <2> QED
    BY <2>1 DEF Carried
<1>5. CASE i = id /\ s = d
  BY <1>1, <1>3, <1>5 DEF Brought
<1>6. CASE i = id /\ s # d
  <2>1. shards'[s].published[i] \in {NoSnapshot, Carried(s, i)}
    BY <1>1, <1>6 DEF Brought
  <2> QED
    BY <1>3, <1>4, <1>6, <2>1
<1>7. CASE i # id
  <2>1. shards'[s].published[i] \in {NoSnapshot, Carried(s, i)}
    BY <1>1, <1>7 DEF Brought
  <2> QED
    BY <1>3, <1>4, <1>7, <2>1
<1> QED
  BY <1>5, <1>6, <1>7

\* A placed entity has a copy in its shard.
LEMMA CopyTyped ==
    ASSUME IInv, NEW s \in 1 .. Len(shards), NEW id \in NetworkIds
    PROVE  shards[s].published[id] \in Snapshot
  BY ElementOfSeq, ShardFacts DEF IInv, AuthorityTypeOK

\* Stopping and publishing another entity keep the bounds of an entity's copies.
LEMMA OthersCopiesKept ==
    ASSUME CopiesInv, NEW e \in Entities, Replicates(e),
           NEW d, NEW snapshot \in Snapshot, Moved(identity[e], d, snapshot),
           NEW f \in Entities \ {e}, Replicates(f),
           UNCHANGED identity[f], UNCHANGED shardMap[f],
           UNCHANGED authoritySnapshots[identity[f]]
    PROVE  LET latest == authoritySnapshots'[identity'[f]].stateRevision
               copy(s) == shards'[s].published[identity'[f]].stateRevision
           IN  /\ Placed(f)' => 0 < latest
               /\ \A s \in 1 .. Len(shards') :
                     /\ copy(s) <= latest
                     /\ Placed(f)' /\ s # shardMap'[f].shard => copy(s) < latest
<1>1. identity[e] \in NetworkIds /\ identity[f] \in NetworkIds /\ identity[f] # identity[e]
  BY IdentityTyped, IdentitiesDiffer DEF CopiesInv, IInv
<1> DEFINE i == identity[f]
           latest == authoritySnapshots[i].stateRevision
<1>2. latest \in Nat
  BY <1>1, RevisionFacts DEF CopiesInv, IInv, AuthorityTypeOK
<1>3. /\ Placed(f) => 0 < latest
      /\ \A s \in 1 .. Len(shards) :
            /\ shards[s].published[i].stateRevision <= latest
            /\ Placed(f) /\ s # shardMap[f].shard => shards[s].published[i].stateRevision < latest
  BY DEF CopiesInv, CopiesBounded
<1>4. Placed(f)' <=> Placed(f)
  BY DEF Placed
<1>5. ASSUME NEW s \in 1 .. Len(shards')
      PROVE  /\ shards'[s].published[i].stateRevision <= latest
             /\ Placed(f) /\ s # shardMap[f].shard => shards'[s].published[i].stateRevision < latest
  <2>1. \/ shards'[s].published[i] = NoSnapshot
        \/ /\ s \in 1 .. Len(shards)
           /\ shards'[s].published[i] = shards[s].published[i]
    BY <1>1, MovedCopies DEF CopiesInv
  <2> HIDE DEF i
  <2> QED
    BY <1>2, <1>3, <2>1, RevisionFacts
<1> QED
  BY <1>3, <1>4, <1>5

\* Nothing is published for lives to come by moving an entity that lives.
LEMMA UnbornKept ==
    ASSUME CopiesInv, NEW e \in Entities, Replicates(e),
           NEW d, NEW snapshot \in Snapshot, Moved(identity[e], d, snapshot),
           lives' = lives,
           \A i \in NetworkIds \ {identity[e]} : authoritySnapshots'[i] = authoritySnapshots[i]
    PROVE  UnbornUnpublished'
<1> SUFFICES ASSUME NEW i \in NetworkIds, i[2] > lives[i[1]]
             PROVE  /\ authoritySnapshots'[i] = NoSnapshot
                    /\ \A s \in 1 .. Len(shards') : shards'[s].published[i] = NoSnapshot
  BY DEF UnbornUnpublished
<1>1. identity[e] = <<e, lives[e]>> /\ identity[e] \in NetworkIds /\ lives[e] \in Nat
  BY IdentityTyped DEF CopiesInv, IInv, IdentitiesOwn, AuthorityTypeOK
<1>2. i # identity[e]
  BY <1>1
<1>3. /\ authoritySnapshots[i] = NoSnapshot
      /\ \A s \in 1 .. Len(shards) : shards[s].published[i] = NoSnapshot
  BY DEF CopiesInv, UnbornUnpublished
<1>4. \A s \in 1 .. Len(shards') :
         \/ shards'[s].published[i] = NoSnapshot
         \/ s \in 1 .. Len(shards) /\ shards'[s].published[i] = shards[s].published[i]
  BY <1>1, <1>2, MovedCopies DEF CopiesInv
<1> QED
  BY <1>2, <1>3, <1>4

\* Every step keeps the bounds.
LEMMA NextCopiesInv == CopiesInv /\ [AuthorityNext]_authorityVars => CopiesInv'
<1> SUFFICES ASSUME CopiesInv, [AuthorityNext]_authorityVars PROVE CopiesInv'
  OBVIOUS
<1>1. IInv'
  BY NextIInv DEF CopiesInv
<1>2. ASSUME UNCHANGED <<lives, identity, publishedVars>> PROVE CopiesInv'
  BY <1>1, <1>2 DEF CopiesInv, UnbornUnpublished, CopiesBounded, Placed, Replicates, publishedVars
<1>3. ASSUME NEW e \in Entities,
             \/ \E p \in Profiles : AddPrefab(e, p) \/ SetReplicationProfile(e, p)
             \/ \E x \in LocalIds : \/ \E v \in Values : SetComponent(e, x, v)
                                    \/ AddTag(e, x) \/ RemoveId(e, x)
      PROVE  CopiesInv'
  BY <1>2, <1>3, EditFacts DEF CopiesInv, IInv
<1>4. ASSUME NEW e \in Entities, BeginReplicatingEntity(e) PROVE CopiesInv'
  <2>1. /\ ~Placed(e) /\ <<e, lives[e] + 1>> \in NetworkIds
        /\ identity' = [identity EXCEPT ![e] = <<e, lives[e] + 1>>]
        /\ lives' = [lives EXCEPT ![e] = lives[e] + 1]
        /\ UNCHANGED publishedVars
    BY <1>4, BeginFacts DEF CopiesInv
  <2>2. /\ shards' = shards /\ shardMap' = shardMap
        /\ authoritySnapshots' = authoritySnapshots
    BY <2>1 DEF publishedVars
  <2>3. lives[e] \in Nat
    BY DEF CopiesInv, IInv, AuthorityTypeOK
  <2>4. /\ identity'[e] = <<e, lives[e] + 1>> /\ lives'[e] = lives[e] + 1
        /\ \A f \in Entities \ {e} : identity'[f] = identity[f] /\ lives'[f] = lives[f]
    BY <2>1 DEF CopiesInv, IInv, AuthorityTypeOK
  <2>5. UnbornUnpublished'
    <3> SUFFICES ASSUME NEW i \in NetworkIds, i[2] > lives'[i[1]]
                 PROVE  i[2] > lives[i[1]]
      BY <2>2 DEF CopiesInv, UnbornUnpublished
    <3>1. i[1] \in Entities /\ i[2] \in Nat
      BY AuthorityAssumption
    <3> QED
      BY <2>3, <2>4, <3>1
  <2>6. /\ authoritySnapshots[<<e, lives[e] + 1>>] = NoSnapshot
        /\ \A s \in 1 .. Len(shards) : shards[s].published[<<e, lives[e] + 1>>] = NoSnapshot
    <3>1. lives[e] + 1 > lives[e]
      BY <2>3
    <3> QED
      BY <2>1, <3>1 DEF CopiesInv, UnbornUnpublished
  <2>7. CopiesBounded'
    <3> SUFFICES ASSUME NEW f \in Entities, Replicates(f)'
                 PROVE  /\ Placed(f)' => 0 < authoritySnapshots'[identity'[f]].stateRevision
                        /\ \A s \in 1 .. Len(shards') :
                              /\ shards'[s].published[identity'[f]].stateRevision
                                    <= authoritySnapshots'[identity'[f]].stateRevision
                              /\ Placed(f)' /\ s # shardMap'[f].shard =>
                                    shards'[s].published[identity'[f]].stateRevision
                                       < authoritySnapshots'[identity'[f]].stateRevision
      BY DEF CopiesBounded
    <3>1. CASE f = e
      <4>1. ~Placed(f)'
        BY <2>1, <2>2, <3>1 DEF Placed
      <4> QED
        BY <2>2, <2>4, <2>6, <3>1, <4>1, RevisionFacts
    <3>2. CASE f # e
      <4>1. Replicates(f) /\ identity'[f] = identity[f] /\ (Placed(f)' <=> Placed(f))
        BY <2>2, <2>4, <3>2 DEF Replicates, Placed
      <4> QED
        BY <2>2, <4>1 DEF CopiesInv, CopiesBounded
    <3> QED
      BY <3>1, <3>2
  <2> QED
    BY <1>1, <2>5, <2>7 DEF CopiesInv
<1>5. ASSUME NEW e \in Entities, RemoveMarker(e) \/ DestroyEntity(e) PROVE CopiesInv'
  <2>1. Replicates(e) /\ StopReplicatingEntity(e)
    BY <1>5, StopStepKeeps DEF CopiesInv
  <2>2. Moved(identity[e], 0, NoSnapshot)
    BY <2>1, StopFacts DEF CopiesInv
  <2>3. /\ identity' = [identity EXCEPT ![e] = NoIdentity] /\ lives' = lives
        /\ shardMap' = [shardMap EXCEPT ![e] = NoPlacement]
        /\ authoritySnapshots' = [authoritySnapshots EXCEPT ![identity[e]] = NoSnapshot]
    BY <2>1 DEF StopReplicatingEntity
  <2>4. /\ identity'[e] = NoIdentity
        /\ \A f \in Entities \ {e} : identity'[f] = identity[f] /\ shardMap'[f] = shardMap[f]
        /\ \A i \in NetworkIds \ {identity[e]} : authoritySnapshots'[i] = authoritySnapshots[i]
    BY <2>3 DEF CopiesInv, IInv, AuthorityTypeOK
  <2>5. UnbornUnpublished'
    BY <2>1, <2>2, <2>3, <2>4, NoSnapshotTyped, UnbornKept
  <2>6. ASSUME NEW f \in Entities, Replicates(f)'
        PROVE  LET latest == authoritySnapshots'[identity'[f]].stateRevision
                   copy(s) == shards'[s].published[identity'[f]].stateRevision
               IN  /\ Placed(f)' => 0 < latest
                   /\ \A s \in 1 .. Len(shards') :
                         /\ copy(s) <= latest
                         /\ Placed(f)' /\ s # shardMap'[f].shard => copy(s) < latest
    <3>1. f \in Entities \ {e} /\ Replicates(f)
      BY <2>4, <2>6 DEF Replicates
    <3>2. identity[f] \in NetworkIds \ {identity[e]}
      BY <2>1, <3>1, IdentityTyped, IdentitiesDiffer DEF CopiesInv, IInv
    <3> QED
      BY <2>1, <2>2, <2>4, <3>1, <3>2, NoSnapshotTyped, OthersCopiesKept
  <2>7. CopiesBounded'
    BY <2>6 DEF CopiesBounded
  <2> QED
    BY <1>1, <2>5, <2>7 DEF CopiesInv
<1>6. ASSUME NEW e \in Entities, PublishDirty(e) PROVE CopiesInv'
  <2> DEFINE id == identity[e]
             snapshot == FillFromEntity(e)
  <2>1. /\ Replicates(e) /\ id \in NetworkIds /\ snapshot \in Snapshot
        /\ snapshot.stateRevision = authoritySnapshots[id].stateRevision + 1
        /\ authoritySnapshots' = [authoritySnapshots EXCEPT ![id] = snapshot]
        /\ lives' = lives /\ identity' = identity
    BY <1>6, PublishDirtyFacts DEF CopiesInv
  <2>2. PICK d \in 1 .. Len(shards') :
          /\ Moved(id, d, snapshot)
          /\ shardMap' = [shardMap EXCEPT ![e] = NewPlacement(e, d)]
    BY <1>6, PublishDirtyFacts DEF CopiesInv
  <2> HIDE DEF snapshot
  <2>3. /\ shardMap'[e].shard = d
        /\ \A f \in Entities \ {e} : shardMap'[f] = shardMap[f]
        /\ authoritySnapshots'[id] = snapshot
        /\ \A i \in NetworkIds \ {id} : authoritySnapshots'[i] = authoritySnapshots[i]
    BY <2>1, <2>2 DEF CopiesInv, IInv, AuthorityTypeOK, NewPlacement
  <2>4. UnbornUnpublished'
    BY <2>1, <2>2, <2>3, UnbornKept
  <2>5. ASSUME NEW f \in Entities, Replicates(f)'
        PROVE  LET latest == authoritySnapshots'[identity'[f]].stateRevision
                   copy(s) == shards'[s].published[identity'[f]].stateRevision
               IN  /\ Placed(f)' => 0 < latest
                   /\ \A s \in 1 .. Len(shards') :
                         /\ copy(s) <= latest
                         /\ Placed(f)' /\ s # shardMap'[f].shard => copy(s) < latest
    <3>1. Replicates(f)
      BY <2>1, <2>5 DEF Replicates
    <3>2. CASE f = e
      <4> DEFINE old == authoritySnapshots[id].stateRevision
      <4>1. old \in Nat /\ snapshot.stateRevision = old + 1
        BY <2>1, RevisionFacts DEF CopiesInv, IInv, AuthorityTypeOK
      <4>2. \A s \in 1 .. Len(shards) :
               /\ shards[s].published[id].stateRevision <= old
               /\ shards[s].published[id].stateRevision \in Nat
        BY <2>1, CopyTyped, RevisionFacts DEF CopiesInv, CopiesBounded
      <4>3. ASSUME NEW s \in 1 .. Len(shards')
            PROVE  /\ shards'[s].published[id].stateRevision \in Nat
                   /\ IF s = d THEN shards'[s].published[id].stateRevision = old + 1
                      ELSE shards'[s].published[id].stateRevision < old + 1
        <5>1. IF s = d THEN shards'[s].published[id] = snapshot
              ELSE \/ shards'[s].published[id] = NoSnapshot
                   \/ /\ s \in 1 .. Len(shards)
                      /\ shards'[s].published[id] = shards[s].published[id]
          BY <2>1, <2>2, MovedCopies DEF CopiesInv
        <5> HIDE DEF id, old
        <5> QED
          BY <4>1, <4>2, <5>1, RevisionFacts, SMTT(20)
      <4>4. authoritySnapshots'[identity'[f]].stateRevision = old + 1 /\ identity'[f] = id
        BY <2>1, <2>3, <3>2, <4>1
      <4>5. shardMap'[f].shard = d
        BY <2>3, <3>2
      <4> HIDE DEF id, old
      <4> QED
        BY <4>1, <4>3, <4>4, <4>5
    <3>3. CASE f # e
      <4>1. identity[f] \in NetworkIds \ {id}
        BY <2>1, <3>1, <3>3, IdentityTyped, IdentitiesDiffer DEF CopiesInv, IInv
      <4> QED
        BY <2>1, <2>2, <2>3, <3>1, <3>3, <4>1, OthersCopiesKept, ZenonT(30)
    <3> QED
      BY <3>2, <3>3
  <2>6. CopiesBounded'
    BY <2>5 DEF CopiesBounded
  <2> QED
    BY <1>1, <2>4, <2>6 DEF CopiesInv
<1>7. CASE UNCHANGED authorityVars
  BY <1>2, <1>7 DEF authorityVars, entityStateVars, publishedVars
<1> QED
  BY <1>3, <1>4, <1>5, <1>6, <1>7 DEF AuthorityNext, GameCode

\* At first nothing is published.
LEMMA InitCopiesInv == AuthorityInit => CopiesInv
<1> SUFFICES ASSUME AuthorityInit PROVE UnbornUnpublished /\ CopiesBounded
  BY InitIInv DEF CopiesInv
<1>1. shards = <<>> /\ Len(shards) = 0
  BY DEF AuthorityInit
<1> QED
  BY <1>1 DEF AuthorityInit, UnbornUnpublished, CopiesBounded, Replicates

\* A copy of an entity that another shard has is older than the one in its own
\* shard, so that taking it away cannot end the entity on a client that has the
\* new one.
THEOREM SupersededCopiesAreOlder == AuthoritySpec => []SupersededCopiesOlder
<1>1. CopiesInv => SupersededCopiesOlder
  <2> SUFFICES ASSUME CopiesInv, NEW e \in Entities, NEW s \in 1 .. Len(shards), Placed(e),
                      s # shardMap[e].shard
               PROVE  shards[s].published[identity[e]].stateRevision
                         < authoritySnapshots[identity[e]].stateRevision
    BY DEF SupersededCopiesOlder
  <2>1. Replicates(e)
    BY PlacedFacts DEF CopiesInv
  <2> QED
    BY <2>1 DEF CopiesInv, CopiesBounded
<1> QED
  BY <1>1, InitCopiesInv, NextCopiesInv, PTL DEF AuthoritySpec

-----------------------------------------------------------------------------
(* Layouts                                                                   *)

\* No step that publishes nothing new brings a layout.
LEMMA LayoutsKept ==
    ASSUME IInv, LayoutsSent, UNCHANGED <<authorityLayouts, replicatedLayouts>>,
           \A s \in 1 .. Len(shards'), i \in NetworkIds :
              \/ shards'[s].published[i] = NoSnapshot
              \/ s \in 1 .. Len(shards) /\ shards'[s].published[i] = shards[s].published[i]
    PROVE  LayoutsSent'
  BY DEF LayoutsSent, LayoutsPublished

\* No snapshot refers to a layout that the clients are not sent: a layout is sent
\* with the first snapshot that has it, whatever became of that one.
THEOREM LayoutsArePublished == AuthoritySpec => []LayoutsPublished
<1>1. AuthorityInit => LayoutsSent
  BY DEF AuthorityInit, LayoutsSent, LayoutsPublished
<1>2. IInv /\ LayoutsSent /\ [AuthorityNext]_authorityVars => LayoutsSent'
  <2> SUFFICES ASSUME IInv, LayoutsSent, [AuthorityNext]_authorityVars PROVE LayoutsSent'
    OBVIOUS
  <2>1. ASSUME UNCHANGED publishedVars PROVE LayoutsSent'
    BY <2>1 DEF LayoutsSent, LayoutsPublished, publishedVars
  <2>2. ASSUME NEW e \in Entities,
               \/ \E p \in Profiles : AddPrefab(e, p) \/ SetReplicationProfile(e, p)
               \/ \E x \in LocalIds : \/ \E v \in Values : SetComponent(e, x, v)
                                      \/ AddTag(e, x) \/ RemoveId(e, x)
        PROVE  LayoutsSent'
    BY <2>1, <2>2, EditFacts DEF IInv
  <2>3. ASSUME NEW e \in Entities, BeginReplicatingEntity(e) PROVE LayoutsSent'
    BY <2>1, <2>3, BeginFacts
  <2>4. ASSUME NEW e \in Entities, RemoveMarker(e) \/ DestroyEntity(e) PROVE LayoutsSent'
    <3>1. Replicates(e) /\ StopReplicatingEntity(e)
      BY <2>4, StopStepKeeps
    <3>2. Moved(identity[e], 0, NoSnapshot) /\ identity[e] \in NetworkIds /\ Len(shards') = Len(shards)
      BY <3>1, StopFacts, IdentityTyped DEF IInv
    <3>3. UNCHANGED <<authorityLayouts, replicatedLayouts>>
      BY <3>1 DEF StopReplicatingEntity
    <3>4. \A s \in 1 .. Len(shards'), i \in NetworkIds :
             \/ shards'[s].published[i] = NoSnapshot
             \/ s \in 1 .. Len(shards) /\ shards'[s].published[i] = shards[s].published[i]
      <4> TAKE s \in 1 .. Len(shards'), i \in NetworkIds
      <4>1. s # 0
        BY LenProperties DEF IInv, AuthorityTypeOK
      <4> QED
        BY <3>2, <4>1, MovedCopies, NoSnapshotTyped
    <3> QED
      BY <3>3, <3>4, LayoutsKept
  <2>5. ASSUME NEW e \in Entities, PublishDirty(e) PROVE LayoutsSent'
    <3> DEFINE id == identity[e]
               snapshot == FillFromEntity(e)
               layout == BuildForEntity(e)
    <3>1. id \in NetworkIds /\ snapshot \in Snapshot /\ snapshot.layoutId = layout
      BY <2>5, PublishDirtyFacts
    <3>2. PICK d \in 1 .. Len(shards') : Moved(id, d, snapshot)
      BY <2>5, PublishDirtyFacts
    <3>3. /\ authorityLayouts' = authorityLayouts \cup {layout}
          /\ replicatedLayouts' = replicatedLayouts \cup
                (IF layout \notin authorityLayouts THEN {layout} ELSE {})
      BY <2>5, <3>1 DEF PublishDirty, IsNewLayout
    <3> HIDE DEF snapshot, layout
    <3>4. authorityLayouts' \subseteq replicatedLayouts' /\ layout \in replicatedLayouts'
      BY <3>3 DEF LayoutsSent
    <3>5. ASSUME NEW s \in 1 .. Len(shards'), NEW i \in NetworkIds,
                 shards'[s].published[i] # NoSnapshot
          PROVE  shards'[s].published[i].layoutId \in replicatedLayouts'
      <4>1. \/ shards'[s].published[i] = snapshot
            \/ s \in 1 .. Len(shards) /\ shards'[s].published[i] = shards[s].published[i]
        BY <3>1, <3>2, <3>5, MovedCopies
      <4>2. CASE shards'[s].published[i] = snapshot
        BY <3>1, <3>4, <4>2
      <4>3. CASE s \in 1 .. Len(shards) /\ shards'[s].published[i] = shards[s].published[i]
        BY <3>3, <3>5, <4>3 DEF LayoutsSent, LayoutsPublished
      <4> QED
        BY <4>1, <4>2, <4>3
    <3> QED
      BY <3>4, <3>5 DEF LayoutsSent, LayoutsPublished
  <2>6. CASE UNCHANGED authorityVars
    BY <2>1, <2>6 DEF authorityVars
  <2> QED
    BY <2>2, <2>3, <2>4, <2>5, <2>6 DEF AuthorityNext, GameCode
<1>3. LayoutsSent => LayoutsPublished
  BY DEF LayoutsSent
<1> QED
  BY <1>1, <1>2, <1>3, AlwaysIInv, PTL DEF AuthoritySpec

-----------------------------------------------------------------------------
(* Clean entities                                                            *)

\* The profile of an entity depends on nothing but its own prefab and marker.
LEMMA ProfileKept ==
    ASSUME AuthorityTypeOK, NEW f \in Entities,
           UNCHANGED prefab[f], UNCHANGED profileId[f],
           NEW profile, profile = ResolveReplicationProfile(f)
    PROVE  /\ ResolveReplicationProfile(f)' = profile
           /\ SelectReplicationShard(profile)' = SelectReplicationShard(profile)
<1>1. profile \in Profiles \cup {f}
  BY ProfileFacts
<1>2. ResolveReplicationProfile(f)' = profile
  BY DEF ResolveReplicationProfile
<1>3. SelectReplicationShard(profile)' = SelectReplicationShard(profile)
  BY <1>1, AuthorityAssumption DEF SelectReplicationShard
<1> QED
  BY <1>2, <1>3

\* A clean entity that is left alone stays where it belongs.
LEMMA CleanKept ==
    ASSUME AuthorityTypeOK, CleanMeansPlaced, NEW f \in Entities, Replicates(f), f \notin dirty,
           UNCHANGED prefab[f], UNCHANGED profileId[f], UNCHANGED shardMap[f]
    PROVE  /\ Placed(f)'
           /\ shardMap'[f].profile = ResolveReplicationProfile(f)'
           /\ shardMap'[f].selection = SelectReplicationShard(shardMap[f].profile)'
<1>1. /\ Placed(f)
      /\ shardMap[f].profile = ResolveReplicationProfile(f)
      /\ shardMap[f].selection = SelectReplicationShard(shardMap[f].profile)
  BY DEF CleanMeansPlaced
<1> QED
  BY <1>1, ProfileKept DEF Placed

\* Only one entity is edited at a time: if that one is left dirty or where it
\* belongs, all clean ones are where they belong.
LEMMA OneEdited ==
    ASSUME AuthorityTypeOK, CleanMeansPlaced, NEW e \in Entities,
           \A f \in Entities \ {e} :
              UNCHANGED <<prefab[f], profileId[f], shardMap[f], identity[f]>>,
           dirty \ {e} \subseteq dirty',
           Replicates(e)' /\ e \notin dirty' =>
              /\ Placed(e)'
              /\ shardMap'[e].profile = ResolveReplicationProfile(e)'
              /\ shardMap'[e].selection = SelectReplicationShard(shardMap[e].profile)'
    PROVE  CleanMeansPlaced'
<1> SUFFICES ASSUME NEW f \in Entities, Replicates(f)', f \notin dirty'
             PROVE  /\ Placed(f)'
                    /\ shardMap'[f].profile = ResolveReplicationProfile(f)'
                    /\ shardMap'[f].selection = SelectReplicationShard(shardMap[f].profile)'
  BY DEF CleanMeansPlaced
<1>1. CASE f = e
  BY <1>1
<1>2. CASE f # e
  <2>1. Replicates(f) /\ f \notin dirty
    BY <1>2 DEF Replicates
  <2> QED
    BY <1>2, <2>1, CleanKept
<1> QED
  BY <1>1, <1>2

\* An entity whose profile changes is dirty then, and so is one that begins to
\* replicate.
LEMMA EditsKeepPlaced ==
    ASSUME IInv, CleanMeansPlaced, NEW e \in Entities,
           \/ \E p \in Profiles : AddPrefab(e, p) \/ SetReplicationProfile(e, p)
           \/ \E x \in LocalIds : \/ \E v \in Values : SetComponent(e, x, v)
                                  \/ AddTag(e, x) \/ RemoveId(e, x)
           \/ BeginReplicatingEntity(e)
    PROVE  CleanMeansPlaced'
<1> USE DEF IInv, AuthorityTypeOK
<1>1. ASSUME NEW p \in Profiles, AddPrefab(e, p) \/ SetReplicationProfile(e, p)
      PROVE  CleanMeansPlaced'
  <2>1. /\ \A f \in Entities \ {e} :
              UNCHANGED <<prefab[f], profileId[f], shardMap[f], identity[f]>>
        /\ dirty \subseteq dirty' /\ identity' = identity
        /\ Replicates(e) => e \in dirty'
    BY <1>1 DEF AddPrefab, SetReplicationProfile, DirtyOnPrefabChange, publishedVars
  <2>2. Replicates(e)' => e \in dirty'
    BY <2>1 DEF Replicates
  <2> QED
    BY <2>1, <2>2, OneEdited
<1>2. ASSUME NEW x \in LocalIds, NEW v, ChangeId(e, x, v) PROVE CleanMeansPlaced'
  <2>1. /\ UNCHANGED <<prefab, profileId, shardMap, identity>>
        /\ dirty \subseteq dirty'
    BY <1>2 DEF ChangeId, DirtyOnChange, publishedVars
  <2>2. ASSUME Replicates(e)', e \notin dirty'
        PROVE  /\ Placed(e)'
               /\ shardMap'[e].profile = ResolveReplicationProfile(e)'
               /\ shardMap'[e].selection = SelectReplicationShard(shardMap[e].profile)'
    BY <2>1, <2>2, CleanKept DEF Replicates
  <2> QED
    BY <2>1, <2>2, OneEdited
<1>3. CASE BeginReplicatingEntity(e)
  <2>1. /\ \A f \in Entities \ {e} :
              UNCHANGED <<prefab[f], profileId[f], shardMap[f], identity[f]>>
        /\ dirty' = dirty \cup {e}
    BY <1>3 DEF BeginReplicatingEntity, publishedVars
  <2> QED
    BY <2>1, OneEdited
<1> QED
  BY <1>1, <1>2, <1>3 DEF SetComponent, AddTag, RemoveId

\* A clean entity is in the shard its profile calls for: every change of the
\* profile, by prefab or by name, makes it dirty until it has moved.
THEOREM CleanIsPlaced == AuthoritySpec => []CleanMeansPlaced
<1>1. AuthorityInit => CleanMeansPlaced
  BY DEF AuthorityInit, CleanMeansPlaced, Replicates
<1>2. IInv /\ CleanMeansPlaced /\ [AuthorityNext]_authorityVars => CleanMeansPlaced'
  <2> SUFFICES ASSUME IInv, CleanMeansPlaced, [AuthorityNext]_authorityVars
               PROVE  CleanMeansPlaced'
    OBVIOUS
  <2>1. ASSUME NEW e \in Entities, RemoveMarker(e) \/ DestroyEntity(e) PROVE CleanMeansPlaced'
    <3>1. StopReplicatingEntity(e)
      BY <2>1, StopStepKeeps
    <3>2. /\ identity'[e] = NoIdentity
          /\ \A f \in Entities \ {e} :
                UNCHANGED <<profileId[f], shardMap[f], identity[f]>>
      BY <3>1 DEF StopReplicatingEntity, IInv, AuthorityTypeOK
    <3>3. /\ \A f \in Entities \ {e} : UNCHANGED prefab[f]
          /\ dirty \ {e} \subseteq dirty'
      BY <2>1 DEF RemoveMarker, DestroyEntity, IInv, AuthorityTypeOK
    <3> QED
      BY <3>2, <3>3, OneEdited DEF Replicates, IInv
  <2>2. ASSUME NEW e \in Entities, PublishDirty(e) PROVE CleanMeansPlaced'
    <3>1. UNCHANGED <<identity, prefab, profileId>> /\ dirty' = dirty \ {e} /\ Replicates(e)
      BY <2>2, PublishDirtyFacts
    <3>2. PICK d \in 1 .. Len(shards') :
            /\ NewPlacement(e, d) \in Placement
            /\ shardMap' = [shardMap EXCEPT ![e] = NewPlacement(e, d)]
      BY <2>2, PublishDirtyFacts
    <3>3. /\ shardMap'[e] = NewPlacement(e, d)
          /\ \A f \in Entities \ {e} : shardMap'[f] = shardMap[f]
      BY <3>2 DEF IInv, AuthorityTypeOK
    <3>4. Placed(e)'
      BY <3>2, <3>3, PlacementAssumption DEF Placed
    <3>5. NewPlacement(e, d).profile = ResolveReplicationProfile(e)
      BY DEF NewPlacement
    <3>6. ResolveReplicationProfile(e)' = ResolveReplicationProfile(e)
      BY <3>1 DEF ResolveReplicationProfile
    <3>7. shardMap'[e].selection = SelectReplicationShard(shardMap[e].profile)'
      BY <3>1, <3>3 DEF NewPlacement, SelectReplicationShard
    <3> QED
      BY <3>1, <3>3, <3>4, <3>5, <3>6, <3>7, OneEdited DEF IInv
  <2>3. CASE UNCHANGED authorityVars
    <3>1. UNCHANGED <<identity, dirty, prefab, profileId, shardMap>>
      BY <2>3 DEF authorityVars, entityStateVars, publishedVars
    <3> QED
      BY <3>1 DEF CleanMeansPlaced, Placed, Replicates, ResolveReplicationProfile, SelectReplicationShard
  <2> QED
    BY <2>1, <2>2, <2>3, EditsKeepPlaced DEF AuthorityNext, GameCode
<1> QED
  BY <1>1, <1>2, AlwaysIInv, PTL DEF AuthoritySpec

\* Two ids have the same key only if both are pairs.
LEMMA KeyOfPlain ==
    ASSUME AuthorityTypeOK, NEW x \in LocalIds \ PairIds, NEW y \in LocalIds, KeyOf(y) = x
    PROVE  y = x
<1>1. CASE y \in PairIds
  <2>1. identity[PairTarget[y]] \in NetworkIds \cup {NoIdentity}
    BY <1>1, AuthorityAssumption DEF AuthorityTypeOK
  <2>2. x \in PairIds \X (NetworkIds \cup {NoIdentity})
    BY <1>1, <2>1 DEF KeyOf
  <2> QED
    BY <2>2, AuthorityAssumption
<1>2. CASE y \notin PairIds
  BY <1>2 DEF KeyOf
<1> QED
  BY <1>1, <1>2

\* A layout, new or cached, has the components and tags of the entity.
LEMMA LayoutFacts ==
    ASSUME AuthorityTypeOK, CacheMatchesTables, NEW e \in Entities,
           NEW x \in LocalIds \ PairIds
    PROVE  x \in BuildForEntity(e) <=> components[e][x] # Absent
<1>1. KeyOf(x) = x
  BY DEF KeyOf
<1>2. x \in TableOf(e)[1] <=> components[e][x] # Absent
  BY DEF TableOf
<1>3. CASE CachedLayouts(e) = {}
  <2>1. BuildForEntity(e) = {KeyOf(y) : y \in TableOf(e)[1]}
    BY <1>3 DEF BuildForEntity
  <2>2. TableOf(e)[1] \subseteq LocalIds
    BY DEF TableOf
  <2>3. ASSUME x \in BuildForEntity(e) PROVE x \in TableOf(e)[1]
    BY <2>1, <2>2, <2>3, KeyOfPlain
  <2> QED
    BY <1>1, <1>2, <2>1, <2>3
<1>4. CASE CachedLayouts(e) # {}
  <2>1. BuildForEntity(e) \in CachedLayouts(e)
    BY <1>4 DEF BuildForEntity
  <2>2. PICK c \in tableCache : c[1] = TableOf(e) /\ c[2] = BuildForEntity(e)
    BY <2>1 DEF CachedLayouts
  <2>3. x \in c[2] <=> x \in c[1][1]
    BY DEF CacheMatchesTables
  <2> QED
    BY <1>2, <2>2, <2>3
<1> QED
  BY <1>3, <1>4

\* FillFromEntity takes every component's payload as it is now.
LEMMA PayloadFilled ==
    ASSUME AuthorityTypeOK, CacheMatchesTables, PayloadsPresent, NEW e \in Entities,
           NEW x \in PayloadIds \ PairIds
    PROVE  IF components[e][x] = Absent THEN x \notin FillFromEntity(e).layoutId
           ELSE FillFromEntity(e).values[x] = components[e][x]
<1> DEFINE layout == BuildForEntity(e)
           packed(k) == {y \in PayloadIds :
                           /\ KeyOf(y) = k /\ components[e][y] \in Values
                           /\ y \in PairIds => k \in ReferenceKeys}
           values == [k \in Keys |-> IF k \in layout /\ packed(k) # {}
                                     THEN components[e][CHOOSE y \in packed(k) : TRUE]
                                     ELSE NoValue]
<1>1. FillFromEntity(e) = [layoutId |-> layout, values |-> values, stateRevision |-> NextRevision(e)]
  BY DEF FillFromEntity
<1>2. x \in LocalIds \ PairIds /\ x \in Keys /\ PayloadIds \subseteq LocalIds
  BY AuthorityAssumption
<1>3. x \in layout <=> components[e][x] # Absent
  BY <1>2, LayoutFacts
<1>4. CASE components[e][x] = Absent
  BY <1>1, <1>3, <1>4
<1>5. CASE components[e][x] # Absent
  <2>1. components[e][x] \in Values
    BY <1>2, <1>5 DEF AuthorityTypeOK, PayloadsPresent
  <2>2. x \in packed(x)
    BY <2>1 DEF KeyOf
  <2>3. \A y \in packed(x) : y = x
    BY <1>2, KeyOfPlain
  <2>4. (CHOOSE y \in packed(x) : TRUE) = x
    BY <2>2, <2>3
  <2>5. values[x] = components[e][x]
    BY <1>2, <1>3, <1>5, <2>2, <2>4
  <2> HIDE DEF values
  <2> QED
    BY <1>1, <1>5, <2>5
<1> QED
  BY <1>4, <1>5

\* A clean entity that keeps its components, and its snapshot, has been
\* published with what it has.
LEMMA PayloadsKept ==
    ASSUME CleanMeansPublished, NEW e \in Entities,
           \A f \in Entities \ {e} : Replicates(f)' =>
              /\ UNCHANGED <<identity[f], authoritySnapshots[identity[f]]>>
              /\ \A x \in ObservedIds \ PairIds : UNCHANGED components[f][x],
           dirty \ {e} \subseteq dirty',
           Replicates(e)' /\ e \notin dirty' =>
              \A x \in ObservedIds \ PairIds :
                 IF components'[e][x] = Absent
                 THEN x \notin authoritySnapshots'[identity'[e]].layoutId
                 ELSE authoritySnapshots'[identity'[e]].values[x] = components'[e][x]
    PROVE  CleanMeansPublished'
<1> SUFFICES ASSUME NEW f \in Entities, Replicates(f)', f \notin dirty',
                    NEW x \in ObservedIds \ PairIds
             PROVE  IF components'[f][x] = Absent
                    THEN x \notin authoritySnapshots'[identity'[f]].layoutId
                    ELSE authoritySnapshots'[identity'[f]].values[x] = components'[f][x]
  BY DEF CleanMeansPublished
<1>1. CASE f = e
  BY <1>1
<1>2. CASE f # e
  <2>1. Replicates(f) /\ f \notin dirty /\ identity'[f] = identity[f]
    BY <1>2 DEF Replicates
  <2>2. /\ authoritySnapshots'[identity'[f]] = authoritySnapshots[identity[f]]
        /\ components'[f][x] = components[f][x]
    BY <1>2, <2>1
  <2> QED
    BY <2>1, <2>2 DEF CleanMeansPublished
<1> QED
  BY <1>1, <1>2

\* Each change of an observed payload makes the entity dirty.
LEMMA EditsKeepPayloads ==
    ASSUME IInv, PayloadsPublished, NEW e \in Entities,
           \/ \E p \in Profiles : AddPrefab(e, p) \/ SetReplicationProfile(e, p)
           \/ \E x \in LocalIds : \/ \E v \in Values : SetComponent(e, x, v)
                                  \/ AddTag(e, x) \/ RemoveId(e, x)
           \/ BeginReplicatingEntity(e)
    PROVE  PayloadsPublished'
<1> USE DEF PayloadsPublished
<1>1. ASSUME NEW p \in Profiles, AddPrefab(e, p) \/ SetReplicationProfile(e, p)
      PROVE  PayloadsPublished'
  <2>1. /\ UNCHANGED <<identity, components, authoritySnapshots, tableCache>>
        /\ dirty \subseteq dirty'
    BY <1>1 DEF AddPrefab, SetReplicationProfile, DirtyOnPrefabChange, publishedVars
  <2> QED
    BY <2>1 DEF CacheMatchesTables, PayloadsPresent, CleanMeansPublished, Replicates
<1>2. ASSUME NEW x \in LocalIds, NEW v, ChangeId(e, x, v), v # NoValue \/ x \notin PayloadIds
      PROVE  PayloadsPublished'
  <2>1. /\ UNCHANGED <<identity, authoritySnapshots, tableCache>>
        /\ dirty \subseteq dirty'
        /\ Replicates(e) /\ x \in ObservedIds => e \in dirty'
    BY <1>2 DEF ChangeId, DirtyOnChange, publishedVars
  <2>2. /\ \A f \in Entities \ {e} : components'[f] = components[f]
        /\ \A y \in LocalIds : components'[e][y] = IF y = x THEN v ELSE components[e][y]
    <3>1. /\ components' = [components EXCEPT ![e] = [components[e] EXCEPT ![x] = v]]
          /\ components[e] \in [LocalIds -> Values \cup {NoValue, Absent}]
          /\ DOMAIN components = Entities
      BY <1>2 DEF ChangeId, IInv, AuthorityTypeOK
    <3> QED
      BY <3>1
  <2>3. PayloadsPresent'
    <3> SUFFICES ASSUME NEW f \in Entities, NEW y \in PayloadIds
                 PROVE  components'[f][y] # NoValue
      BY DEF PayloadsPresent
    <3>1. y \in LocalIds /\ components[f][y] # NoValue
      BY AuthorityAssumption DEF PayloadsPresent
    <3> QED
      BY <1>2, <2>2, <3>1
  <2>4. CleanMeansPublished'
    <3>1. ASSUME Replicates(e)', e \notin dirty', NEW y \in ObservedIds \ PairIds
          PROVE  components'[e][y] = components[e][y] /\ Replicates(e) /\ e \notin dirty
      BY <2>1, <2>2, <3>1, AuthorityAssumption DEF Replicates, ObservedIds
    <3> QED
      BY <2>1, <2>2, <3>1, PayloadsKept DEF CleanMeansPublished
  <2> QED
    BY <2>1, <2>3, <2>4 DEF CacheMatchesTables
<1>3. CASE BeginReplicatingEntity(e)
  <2>1. /\ \A f \in Entities \ {e} : identity'[f] = identity[f]
        /\ dirty' = dirty \cup {e}
        /\ UNCHANGED <<components, authoritySnapshots, tableCache>>
    BY <1>3 DEF BeginReplicatingEntity, publishedVars, IInv, AuthorityTypeOK
  <2>2. CleanMeansPublished'
    BY <2>1, PayloadsKept
  <2> QED
    BY <2>1, <2>2 DEF CacheMatchesTables, PayloadsPresent
<1> QED
  BY <1>1, <1>2, <1>3, RecordsAssumption DEF SetComponent, AddTag, RemoveId

\* No update of an observed id is lost: a clean entity has been published with the
\* payloads it has now, although the layout may come from the cache and components change
\* between any two turns of the dirty system.
THEOREM CleanIsPublished == AuthoritySpec => []CleanMeansPublished
<1>1. AuthorityInit => PayloadsPublished
  BY RecordsAssumption, AuthorityAssumption
  DEF AuthorityInit, PayloadsPublished, CacheMatchesTables, PayloadsPresent, CleanMeansPublished,
      Replicates
<1>2. IInv /\ PayloadsPublished /\ [AuthorityNext]_authorityVars => PayloadsPublished'
  <2> SUFFICES ASSUME IInv, PayloadsPublished, [AuthorityNext]_authorityVars
               PROVE  PayloadsPublished'
    OBVIOUS
  <2> USE DEF PayloadsPublished
  <2>1. ASSUME NEW e \in Entities, RemoveMarker(e) \/ DestroyEntity(e) PROVE PayloadsPublished'
    <3>1. Replicates(e) /\ StopReplicatingEntity(e)
      BY <2>1, StopStepKeeps
    <3>2. /\ identity'[e] = NoIdentity
          /\ \A f \in Entities \ {e} : identity'[f] = identity[f]
          /\ authoritySnapshots' = [authoritySnapshots EXCEPT ![identity[e]] = NoSnapshot]
          /\ tableCache' = tableCache
      BY <3>1 DEF StopReplicatingEntity, IInv, AuthorityTypeOK
    <3>3. ASSUME NEW f \in Entities, Replicates(f)'
          PROVE  f # e /\ authoritySnapshots'[identity'[f]] = authoritySnapshots[identity[f]]
      <4>1. f # e /\ Replicates(f)
        BY <3>2, <3>3 DEF Replicates
      <4>2. identity[f] # identity[e]
        BY <3>1, <4>1, IdentitiesDiffer
      <4> QED
        BY <3>2, <4>1, <4>2
    <3>4. /\ dirty \ {e} \subseteq dirty'
          /\ \A f \in Entities \ {e}, x \in ObservedIds \ PairIds :
                components'[f][x] = components[f][x]
          /\ PayloadsPresent'
      <4>1. CASE RemoveMarker(e)
        BY <4>1 DEF RemoveMarker, PayloadsPresent
      <4>2. CASE DestroyEntity(e)
        <5>1. /\ dirty \ {e} \subseteq dirty'
              /\ \A f \in Entities, x \in LocalIds :
                    IF f = e \/ (x \in PairIds /\ PairTarget[x] = e /\ components[f][x] # Absent)
                    THEN components'[f][x] = Absent ELSE components'[f][x] = components[f][x]
          BY <4>2 DEF DestroyEntity
        <5> QED
          BY <5>1, AuthorityAssumption, RecordsAssumption DEF PayloadsPresent, ObservedIds
      <4> QED
        BY <2>1, <4>1, <4>2
    <3>5. CleanMeansPublished'
      BY <3>2, <3>3, <3>4, PayloadsKept
    <3> QED
      BY <3>2, <3>4, <3>5 DEF CacheMatchesTables
  <2>2. ASSUME NEW e \in Entities, PublishDirty(e) PROVE PayloadsPublished'
    <3> DEFINE id == identity[e]
               snapshot == FillFromEntity(e)
    <3>1. /\ Replicates(e) /\ id \in NetworkIds
          /\ snapshot.layoutId = BuildForEntity(e)
          /\ authoritySnapshots' = [authoritySnapshots EXCEPT ![id] = snapshot]
          /\ UNCHANGED <<identity, components>> /\ dirty' = dirty \ {e}
      BY <2>2, PublishDirtyFacts
    <3>2. \A x \in ObservedIds \ PairIds :
             IF components[e][x] = Absent THEN x \notin snapshot.layoutId
             ELSE snapshot.values[x] = components[e][x]
      BY PayloadFilled DEF IInv, ObservedIds
    <3>3. tableCache' = tableCache \cup {<<TableOf(e), snapshot.layoutId>>}
      BY <2>2 DEF PublishDirty
    <3> HIDE DEF snapshot
    <3>4. authoritySnapshots'[id] = snapshot
      BY <3>1 DEF IInv, AuthorityTypeOK
    <3>5. ASSUME NEW f \in Entities \ {e}, Replicates(f)'
          PROVE  authoritySnapshots'[identity[f]] = authoritySnapshots[identity[f]]
      <4>1. identity[f] # id
        BY <3>1, <3>5, IdentitiesDiffer DEF Replicates
      <4> QED
        BY <3>1, <4>1
    <3>6. CleanMeansPublished'
      BY <3>1, <3>2, <3>4, <3>5, PayloadsKept
    <3>7. CacheMatchesTables'
      <4> SUFFICES ASSUME NEW c \in tableCache', NEW x \in LocalIds \ PairIds
                   PROVE  x \in c[2] <=> x \in c[1][1]
        BY DEF CacheMatchesTables
      <4>1. CASE c \in tableCache
        BY <4>1 DEF CacheMatchesTables
      <4>2. CASE c = <<TableOf(e), snapshot.layoutId>>
        <5>1. c[2] = BuildForEntity(e) /\ c[1] = TableOf(e)
          BY <3>1, <4>2
        <5>2. x \in BuildForEntity(e) <=> components[e][x] # Absent
          BY LayoutFacts DEF IInv
        <5> QED
          BY <5>1, <5>2 DEF TableOf
      <4> QED
        BY <3>3, <4>1, <4>2
    <3> QED
      BY <3>1, <3>6, <3>7 DEF PayloadsPresent
  <2>3. CASE UNCHANGED authorityVars
    BY <2>3 DEF authorityVars, entityStateVars, publishedVars, CacheMatchesTables, PayloadsPresent,
       CleanMeansPublished, Replicates
  <2> QED
    BY <2>1, <2>2, <2>3, EditsKeepPayloads DEF AuthorityNext, GameCode
<1>3. PayloadsPublished => CleanMeansPublished
  BY DEF PayloadsPublished
<1> QED
  BY <1>1, <1>2, <1>3, AlwaysIInv, PTL DEF AuthoritySpec

-----------------------------------------------------------------------------
(* Shards, if no profile names a filter or a prioritizer                     *)

\* The pool of a shard is then that of its selection, whatever its profile.
LEMMA UniformPoolKey ==
    ASSUME UniformTraits, AuthorityTypeOK, NEW p \in Profiles \cup Entities, NEW selection
    PROVE  PoolKey(p, selection) = <<NoTraits, selection>>
  BY DEF UniformTraits, AuthorityTypeOK, PoolKey, ProfileTraits

\* A shard that an entity is published in is in use, be it new or not.
LEMMA WithEntityInUse ==
    ASSUME UniformTraits, NEW shard \in Shard, NEW id \in NetworkIds,
           NEW snapshot \in Snapshot, CanAccept(shard, id),
           \/ \E key \in PoolKeys : shard = NewShard(id, key)
           \/ InUse(shard) /\ shard.pool # NoPool,
           NEW w, w = WithEntity(shard, id, snapshot)
    PROVE  InUse(w)
<1>1. /\ w.selection = shard.selection /\ w.pool = shard.pool
      /\ w.replicating = shard.replicating
      /\ w.held = shard.held \cup {id}
      /\ \A i \in NetworkIds \ {id} :
            w.published[i] = IF IsTable(shard) THEN shard.published[i] ELSE NoSnapshot
  BY WithEntityFacts
<1>2. IsTable(w) <=> IsTable(shard)
  BY <1>1 DEF IsTable
<1>3. ~IsTable(shard) => shard.held \subseteq {id}
  BY DEF CanAccept, ProxyAccepts
<1>4. /\ shard.pool # NoPool /\ shard.replicating
      /\ shard.pool = <<NoTraits, shard.selection>>
      /\ \A i \in NetworkIds : shard.published[i] # NoSnapshot => i \in shard.held
  <2>1. ASSUME NEW key \in PoolKeys, shard = NewShard(id, key)
        PROVE  /\ shard.pool # NoPool /\ shard.replicating
               /\ shard.pool = <<NoTraits, shard.selection>>
               /\ \A i \in NetworkIds : shard.published[i] # NoSnapshot => i \in shard.held
    <3>1. /\ shard.pool = key /\ shard.replicating = TRUE /\ shard.selection = key[2]
          /\ shard.published = [i \in NetworkIds |-> NoSnapshot]
      BY <2>1 DEF NewShard
    <3>2. key = <<NoTraits, key[2]>> /\ key # NoPool
      BY PlacementAssumption DEF PoolKeys, Traits, UniformTraits
    <3> QED
      BY <3>1, <3>2
  <2> QED
    BY <2>1 DEF InUse
<1>5. \A i \in NetworkIds : w.published[i] # NoSnapshot => i \in w.held
  BY <1>1, <1>4
<1>6. ~IsTable(w) => \A i, j \in w.held : i = j
  BY <1>1, <1>2, <1>3
<1> QED
  BY <1>1, <1>4, <1>5, <1>6 DEF InUse

\* A shard that an entity leaves goes on if it holds another, and is released
\* otherwise: its pool is found.
LEMMA LeftInUse ==
    ASSUME NEW all \in Seq(Shard), NEW s \in 1 .. Len(all), NEW id \in all[s].held,
           InUse(all[s]), NEW key, key = <<NoTraits, all[s].selection>>,
           NEW r, r = Left(all, s, id, key)
    PROVE  InUse(r[s])
<1>1. all[s] \in Shard /\ id \in NetworkIds
  BY ElementOfSeq, ShardFacts
<1>2. all[s].replicating /\ all[s].pool = key
  BY DEF InUse
<1>3. /\ r[s].held = all[s].held \ {id}
      /\ IsTable(all[s]) => r[s].published[id] = NoSnapshot
      /\ \A i \in NetworkIds \ {id} : r[s].published[i] = all[s].published[i]
      /\ r[s].selection = all[s].selection
  BY <1>1, LeftFacts
<1>4. \/ r[s].held = {} /\ ~r[s].replicating /\ r[s].pool = NoPool
      \/ r[s].held # {} /\ r[s].replicating /\ r[s].pool = all[s].pool
  <2>1. ReleasedIfEmpty(all[s], r[s], key)
    BY <1>1, LeftFacts
  <2> QED
    BY <1>2, <2>1 DEF ReleasedIfEmpty
<1>5. IsTable(r[s]) <=> IsTable(all[s])
  BY <1>3 DEF IsTable
<1>6. ~IsTable(r[s]) => \A i, j \in r[s].held : i = j
  BY <1>3, <1>5 DEF InUse
<1>7. CASE r[s].held = {}
  <2>1. ~r[s].replicating /\ r[s].pool = NoPool
    BY <1>4, <1>7
  <2> QED
    BY <1>6, <1>7, <2>1 DEF InUse
<1>8. CASE r[s].held # {}
  <2>1. r[s].pool = all[s].pool /\ r[s].replicating
    BY <1>4, <1>8
  <2>2. IsTable(all[s])
    BY <1>3, <1>8 DEF InUse
  <2>3. \A i \in NetworkIds : r[s].published[i] # NoSnapshot => i \in r[s].held
    BY <1>2, <1>3, <2>1, <2>2 DEF InUse
  <2> QED
    BY <1>2, <1>3, <1>6, <1>8, <2>1, <2>3 DEF InUse
<1> QED
  BY <1>7, <1>8

\* An entity that stops to replicate leaves its shard released or in use.
LEMMA StopInUse ==
    ASSUME UniformTraits, IInv, ShardsReleased, NEW e \in Entities, Replicates(e),
           StopReplicatingEntity(e)
    PROVE  ShardsReleased'
<1> DEFINE id == identity[e]
           p == shardMap[e].shard
           key == PoolKey(shardMap[e].profile, shardMap[e].selection)
<1>1. CASE ~Placed(e)
  BY <1>1 DEF StopReplicatingEntity, Placed, ShardsReleased
<1>2. CASE Placed(e)
  <2>1. /\ p \in 1 .. Len(shards) /\ shardMap[e].profile \in Profiles \cup Entities
        /\ shardMap[e].selection = shards[p].selection
    BY <1>2, PlacedFacts DEF Placement
  <2>2. id \in shards[p].held /\ shards \in Seq(Shard) /\ id \in NetworkIds
    BY <1>2, PlacedFacts DEF IInv, PlacedOnce, AuthorityTypeOK
  <2>3. key = <<NoTraits, shards[p].selection>>
    BY <2>1, UniformPoolKey DEF IInv
  <2>4. shards' = Left(shards, p, id, key)
    BY <1>2 DEF StopReplicatingEntity, Placed, Left
  <2> HIDE DEF key, p, id
  <2>5. InUse(shards'[p])
    BY <2>1, <2>2, <2>3, <2>4, LeftInUse DEF ShardsReleased
  <2>6. Len(shards') = Len(shards) /\ \A t \in 1 .. Len(shards) : t # p => shards'[t] = shards[t]
    BY <2>1, <2>2, <2>4, LeftFacts
  <2> QED
    BY <2>5, <2>6 DEF ShardsReleased
<1> QED
  BY <1>1, <1>2

\* An entity that is published is in a shard in use, and so are the others.
LEMMA PublishInUse ==
    ASSUME UniformTraits, IInv, ShardsReleased, NEW e \in Entities, PublishDirty(e)
    PROVE  ShardsReleased'
<1> DEFINE id == identity[e]
           snapshot == FillFromEntity(e)
           p == shardMap[e].shard
           key == PoolKey(shardMap[e].profile, shardMap[e].selection)
<1>1. Replicates(e) /\ id \in NetworkIds /\ snapshot \in Snapshot /\ PublishNetEntity(e, snapshot)
  BY PublishDirtyFacts DEF PublishDirty
<1> HIDE DEF snapshot
<1>2. PICK all, d, shard :
        /\ PublishedInto(all, e, d, shard, snapshot)
        /\ NewPlacement(e, d) \in Placement
        /\ shards' = IF ~Placed(e) \/ p = d THEN all ELSE Left(all, p, id, key)
  BY <1>1, PublishCases
<1>3. /\ d \in 1 .. Len(shards) + 1 /\ shard \in Shard
      /\ CanAccept(shard, id) /\ Chosen(shard, d, id)
      /\ all \in Seq(Shard) /\ Len(all) = IF d = Len(shards) + 1 THEN d ELSE Len(shards)
      /\ all[d] = WithEntity(shard, id, snapshot)
      /\ \A s \in 1 .. Len(shards) : s # d => all[s] = shards[s]
      /\ \/ Placed(e) /\ p = d
         \/ shard.pool = PoolKey(NewPlacement(e, d).profile, NewPlacement(e, d).selection)
  BY <1>2 DEF PublishedInto
<1>4. Len(shards) \in Nat
  BY LenProperties DEF IInv, AuthorityTypeOK
<1>5. InUse(all[d])
  <2>1. CASE d = Len(shards) + 1
    BY <1>1, <1>3, <2>1, WithEntityInUse DEF Chosen
  <2>2. CASE d \in 1 .. Len(shards)
    <3>1. shard = shards[d] /\ InUse(shard)
      BY <1>3, <1>4, <2>2 DEF Chosen, ShardsReleased
    <3>2. shard.pool # NoPool
      <4>1. CASE Placed(e) /\ p = d
        BY <3>1, <4>1 DEF IInv, PlacedOnce, InUse
      <4>2. CASE shard.pool = PoolKey(NewPlacement(e, d).profile, NewPlacement(e, d).selection)
        <5>1. /\ NewPlacement(e, d).profile \in Profiles \cup Entities
              /\ NewPlacement(e, d).selection \in Selection
          BY <1>2 DEF Placement
        <5> QED
          BY <4>2, <5>1, PoolKeyFacts, PlacementAssumption DEF IInv
      <4> QED
        BY <1>3, <4>1, <4>2
    <3> QED
      BY <1>1, <1>3, <3>1, <3>2, WithEntityInUse
  <2> QED
    BY <1>3, <1>4, <2>1, <2>2
<1>6. \A s \in 1 .. Len(all) : InUse(all[s])
  <2> TAKE s \in 1 .. Len(all)
  <2>1. s # d => s \in 1 .. Len(shards)
    BY <1>3, <1>4
  <2> QED
    BY <1>3, <1>5, <2>1 DEF ShardsReleased
<1>7. CASE ~Placed(e) \/ p = d
  BY <1>2, <1>6, <1>7 DEF ShardsReleased
<1>8. CASE ~(~Placed(e) \/ p = d)
  <2>1. /\ p \in 1 .. Len(shards) /\ shardMap[e].profile \in Profiles \cup Entities
        /\ shardMap[e].selection = shards[p].selection
    BY <1>8, PlacedFacts DEF Placement
  <2>2. p \in 1 .. Len(all) /\ all[p] = shards[p]
    BY <1>3, <1>4, <1>8, <2>1
  <2>3. id \in all[p].held
    BY <1>8, <2>2 DEF IInv, PlacedOnce
  <2>4. key = <<NoTraits, all[p].selection>>
    BY <2>1, <2>2, UniformPoolKey DEF IInv
  <2>5. shards' = Left(all, p, id, key)
    BY <1>2, <1>8
  <2> HIDE DEF key, p, id
  <2>6. InUse(shards'[p])
    BY <1>3, <1>6, <2>2, <2>3, <2>4, <2>5, LeftInUse
  <2>7. Len(shards') = Len(all) /\ \A t \in 1 .. Len(all) : t # p => shards'[t] = all[t]
    BY <1>1, <1>3, <2>2, <2>5, LeftFacts DEF id
  <2> QED
    BY <1>6, <2>6, <2>7 DEF ShardsReleased
<1> QED
  BY <1>7, <1>8

\* Without filters and prioritizers, shards are in use exactly while they hold
\* an entity.
LEMMA AlwaysReleased ==
    ASSUME UniformTraits
    PROVE  AuthoritySpec => []ShardsReleased
<1>1. AuthorityInit => ShardsReleased
  BY DEF AuthorityInit, ShardsReleased
<1>2. IInv /\ ShardsReleased /\ [AuthorityNext]_authorityVars => ShardsReleased'
  <2> SUFFICES ASSUME IInv, ShardsReleased, [AuthorityNext]_authorityVars
               PROVE  ShardsReleased'
    OBVIOUS
  <2>1. ASSUME UNCHANGED publishedVars PROVE ShardsReleased'
    BY <2>1 DEF ShardsReleased, publishedVars
  <2>2. ASSUME NEW e \in Entities,
               \/ \E p \in Profiles : AddPrefab(e, p) \/ SetReplicationProfile(e, p)
               \/ \E x \in LocalIds : \/ \E v \in Values : SetComponent(e, x, v)
                                      \/ AddTag(e, x) \/ RemoveId(e, x)
        PROVE  ShardsReleased'
    BY <2>1, <2>2, EditFacts DEF IInv
  <2>3. ASSUME NEW e \in Entities, BeginReplicatingEntity(e) PROVE ShardsReleased'
    BY <2>1, <2>3, BeginFacts
  <2>4. ASSUME NEW e \in Entities, RemoveMarker(e) \/ DestroyEntity(e) PROVE ShardsReleased'
    BY <2>4, StopStepKeeps, StopInUse
  <2>5. ASSUME NEW e \in Entities, PublishDirty(e) PROVE ShardsReleased'
    BY <2>5, PublishInUse
  <2>6. CASE UNCHANGED authorityVars
    BY <2>1, <2>6 DEF authorityVars
  <2> QED
    BY <2>2, <2>3, <2>4, <2>5, <2>6 DEF AuthorityNext, GameCode
<1> QED
  BY <1>1, <1>2, AlwaysIInv, PTL DEF AuthoritySpec

\* Where no profile names a filter or a prioritizer, a published entity is in a
\* shard that replicates: no migration leaves it in one that was torn down.
THEOREM UniformTraitsPlaceWell ==
    ASSUME UniformTraits
    PROVE  AuthoritySpec => []PlacedShardsReplicate
<1>1. IInv /\ ShardsReleased => PlacedShardsReplicate
  <2> SUFFICES ASSUME IInv, ShardsReleased, NEW e \in Entities, Placed(e)
               PROVE  shards[shardMap[e].shard].replicating
    BY DEF PlacedShardsReplicate
  <2>1. identity[e] \in shards[shardMap[e].shard].held
    BY DEF IInv, PlacedOnce
  <2> QED
    BY <2>1, PlacedFacts DEF ShardsReleased, InUse
<1> QED
  BY <1>1, AlwaysIInv, AlwaysReleased, PTL

\* ... and every removal is published: no shard goes on replicating an identity
\* that no entity has.
THEOREM UniformTraitsRemove ==
    ASSUME UniformTraits
    PROVE  AuthoritySpec => []RemovalsPublished
<1>1. IInv /\ ShardsReleased => RemovalsPublished
  <2> SUFFICES ASSUME IInv, ShardsReleased, NEW s \in 1 .. Len(shards), NEW id \in NetworkIds,
                      shards[s].replicating, shards[s].published[id] # NoSnapshot
               PROVE  \E e \in Entities : identity[e] = id
    BY DEF RemovalsPublished
  <2>1. id \in shards[s].held
    BY DEF ShardsReleased, InUse
  <2> QED
    BY <2>1 DEF IInv, PlacedOnce
<1> QED
  BY <1>1, AlwaysIInv, AlwaysReleased, PTL
=============================================================================
