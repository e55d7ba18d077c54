----------------------- MODULE FlecsReplicationProofs -----------------------
(***************************************************************************)
(* Proofs about the authority joined with a client, for every set of         *)
(* entities, profiles, shards and revisions: what has arrived of an entity is *)
(* shown, whatever its former shards still tell, and, where no profile names  *)
(* a filter or a prioritizer, an entity is shown only while some shard's copy *)
(* has it.                                                                  *)
(*                                                                          *)
(* Of the client, what matters here is each identity's deciding revision and  *)
(* whether it is mapped, and the updates that wait: a snapshot takes effect   *)
(* over an older decision, a removal over one that is no newer.               *)
(***************************************************************************)
EXTENDS FlecsReplication, FlecsReplicationAuthorityProofs

\* The revision that decides the state of an identity on the client.
Decided(id) == IF Mapped(id) THEN replicationSnapshots[id].stateRevision
                             ELSE removedEntityRevisions[id]

\* The updates of an identity that wait in a queue.
PendingIn(queue, id) ==
    {queue[i] : i \in {j \in 1 .. Len(queue) : queue[j].networkId = id}}

Waiting(id) == PendingIn(updates, id) \cup PendingIn(updateQueue, id)

\* The types of what the proofs speak of, and the client's invariants they need.
Genuine(queue) ==
    /\ queue \in Seq(QueuedUpdate)
    /\ \A i \in 1 .. Len(queue) :
          ~queue[i].bRemove => queue[i].snapshot.stateRevision = queue[i].stateRevision

ClientTyped ==
    /\ Genuine(updateQueue) /\ Genuine(updates)
    /\ applying \in BOOLEAN /\ (~applying => updates = <<>>)
    /\ DOMAIN networkIdToEntityMap = NetworkIds
    /\ replicationSnapshots \in [NetworkIds -> Snapshot]
    /\ removedEntityRevisions \in [NetworkIds -> Nat]
    /\ \A id \in NetworkIds :
          IF Mapped(id) THEN removedEntityRevisions[id] = 0
          ELSE replicationSnapshots[id].stateRevision = 0

HistoryTyped ==
    /\ received \in [1 .. MaxShards -> [NetworkIds -> Snapshot]]
    /\ since \in [Entities -> Nat]

\* A proxy publishes one identity at a time.
CarriesOne(shard) ==
    ~IsTable(shard) =>
        \A i, j \in NetworkIds :
            shard.published[i] # NoSnapshot /\ shard.published[j] # NoSnapshot => i = j

ProxiesCarryOne == \A s \in 1 .. Len(shards) : CarriesOne(shards[s])

\* Identities that are not over: those of an entity's present life, and of
\* lives to come.
Living(id) == id[2] > lives[id[1]] \/ \E e \in Entities : identity[e] = id

\* The client knows nothing newer of an identity than the authority published.
KnownAtMost(id, r) ==
    /\ \A s \in 1 .. MaxShards : received[s][id].stateRevision <= r
    /\ \A u \in Waiting(id) : u.stateRevision <= r
    /\ Decided(id) <= r

KnownWasPublished ==
    \A id \in NetworkIds : Living(id) => KnownAtMost(id, authoritySnapshots[id].stateRevision)

\* What other shards carry, and brought to the client, dates from before the
\* entity entered its shard.
OthersOlder(e) ==
    /\ 0 < since[e] /\ since[e] <= authoritySnapshots[identity[e]].stateRevision
    /\ \A s \in 1 .. MaxShards : s # shardMap[e].shard =>
          /\ received[s][identity[e]].stateRevision < since[e]
          /\ s <= Len(shards) => shards[s].published[identity[e]].stateRevision < since[e]

\* ... and so do the removals the client knows of (unless the shard itself has
\* been torn down).
RemovalsBefore(id, r) ==
    /\ \A u \in Waiting(id) : u.bRemove => u.stateRevision < r
    /\ ~Mapped(id) => Decided(id) < r

RemovalsOlder(e) ==
    LET s == shardMap[e].shard
    IN  shards[s].replicating \/ received[s][identity[e]] # NoSnapshot
            => RemovalsBefore(identity[e], since[e])

\* A snapshot of that revision or a newer one is shown, or waits.
ShownOrWaits(id, r) ==
    \/ Mapped(id) /\ Decided(id) >= r
    \/ \E u \in Waiting(id) : ~u.bRemove /\ u.stateRevision >= r

CopyCounts(e) ==
    LET r == received[shardMap[e].shard][identity[e]].stateRevision
    IN  r >= since[e] => ShownOrWaits(identity[e], r)

StaysSound(e) == OthersOlder(e) /\ RemovalsOlder(e) /\ CopyCounts(e)

ArrivedInv ==
    /\ CopiesInv /\ ProxiesCarryOne /\ ClientTyped /\ HistoryTyped /\ KnownWasPublished
    /\ \A e \in Entities : Placed(e) => StaysSound(e)

\* The copies the client has of a shard are no newer than what the shard has,
\* and a proxy does not forget what it brought.
CopiesFollow ==
    \A s \in 1 .. MaxShards, id \in NetworkIds : received[s][id] # NoSnapshot =>
        /\ s <= Len(shards)
        /\ shards[s].published[id] # NoSnapshot =>
              received[s][id].stateRevision <= shards[s].published[id].stateRevision
        /\ ~IsTable(shards[s]) => shards[s].published[id] # NoSnapshot

\* A shard's copy is that new, or a removal that waits is.
Covered(id, r) ==
    \E s \in 1 .. MaxShards :
        received[s][id] # NoSnapshot /\ received[s][id].stateRevision >= r

Ended(queue, id, r) == \E u \in PendingIn(queue, id) : u.bRemove /\ u.stateRevision >= r

\* Every snapshot the client shows or is to show is covered by some shard's
\* copy, or a later removal ends it.
ShownCovered(id) ==
    /\ Mapped(id) => \/ Covered(id, Decided(id))
                     \/ Ended(updates, id, Decided(id))
                     \/ Ended(updateQueue, id, Decided(id))
    /\ \A u \in PendingIn(updates, id) : ~u.bRemove =>
          Covered(id, u.stateRevision) \/ Ended(updateQueue, id, u.stateRevision)
    /\ \A u \in PendingIn(updateQueue, id) : ~u.bRemove => Covered(id, u.stateRevision)

CoveredInv == CopiesFollow /\ \A id \in NetworkIds : ShownCovered(id)

-----------------------------------------------------------------------------
(* The update queue                                                          *)

\* Nothing waits in an empty queue.
LEMMA NothingPending == \A id : PendingIn(<<>>, id) = {}
<1>1. Len(<<>>) = 0
  OBVIOUS
<1> QED
  BY <1>1 DEF PendingIn

\* What waits in a queue of updates.
LEMMA PendingFacts ==
    ASSUME NEW queue, Genuine(queue), NEW id
    PROVE  \A u \in PendingIn(queue, id) :
              /\ u \in QueuedUpdate /\ u.networkId = id /\ u.stateRevision \in Nat
              /\ u.bRemove \in BOOLEAN
<1>1. queue \in Seq(QueuedUpdate)
  BY DEF Genuine
<1>2. \A i \in 1 .. Len(queue) : queue[i] \in QueuedUpdate
  BY <1>1, ElementOfSeq
<1> QED
  BY <1>2 DEF PendingIn, QueuedUpdate

\* What waits for an identity after an update for it has been enqueued: the
\* update, unless a newer one waits already.  Other identities are not affected.
LEMMA EnqueuePending ==
    ASSUME NEW queue, Genuine(queue), NEW u \in QueuedUpdate,
           ~u.bRemove => u.snapshot.stateRevision = u.stateRevision,
           NEW result, result = Enqueue(queue, u)
    PROVE  /\ Genuine(result)
           /\ \A id : id # u.networkId => PendingIn(result, id) = PendingIn(queue, id)
           /\ \A p \in PendingIn(result, u.networkId) :
                 \/ p = u
                 \/ p \in PendingIn(queue, u.networkId) /\ p.stateRevision > u.stateRevision
           /\ \A p \in PendingIn(queue, u.networkId) :
                 \/ p \in PendingIn(result, u.networkId)
                 \/ u \in PendingIn(result, u.networkId) /\ p.stateRevision <= u.stateRevision
           /\ \/ u \in PendingIn(result, u.networkId)
              \/ \E p \in PendingIn(queue, u.networkId) : p.stateRevision > u.stateRevision
<1>1. /\ queue \in Seq(QueuedUpdate) /\ Len(queue) \in Nat
      /\ \A i \in 1 .. Len(queue) : /\ queue[i] \in QueuedUpdate
                                    /\ queue[i].stateRevision \in Nat
      /\ u.stateRevision \in Nat
  <2>1. queue \in Seq(QueuedUpdate)
    BY DEF Genuine
  <2>2. Len(queue) \in Nat /\ \A i \in 1 .. Len(queue) : queue[i] \in QueuedUpdate
    BY <2>1, LenProperties, ElementOfSeq
  <2> QED
    BY <2>1, <2>2 DEF QueuedUpdate
<1>2. CASE PendingIndices(queue, u.networkId) = {}
  <2>1. result = Append(queue, u)
    BY <1>2 DEF Enqueue
  <2>2. /\ result \in Seq(QueuedUpdate)
        /\ Len(result) = Len(queue) + 1
        /\ \A i \in 1 .. Len(queue) : result[i] = queue[i]
        /\ result[Len(queue) + 1] = u
    BY <1>1, <2>1, AppendProperties
  <2>3. \A i \in 1 .. Len(queue) : queue[i].networkId # u.networkId
    BY <1>2 DEF PendingIndices
  <2>4. \A i : i \in 1 .. Len(result) <=> i \in 1 .. Len(queue) \/ i = Len(queue) + 1
    BY <1>1, <2>2
  <2>5. Genuine(result)
    BY <2>2, <2>4 DEF Genuine
  <2>6. \A id : id # u.networkId => PendingIn(result, id) = PendingIn(queue, id)
    BY <2>2, <2>4 DEF PendingIn
  <2>7. PendingIn(result, u.networkId) = {u} /\ PendingIn(queue, u.networkId) = {}
    BY <2>2, <2>3, <2>4 DEF PendingIn
  <2> QED
    BY <2>5, <2>6, <2>7
<1>3. CASE PendingIndices(queue, u.networkId) # {}
  <2> DEFINE at(i) == IF /\ queue[i].networkId = u.networkId
                         /\ queue[i].stateRevision <= u.stateRevision
                      THEN u ELSE queue[i]
  <2>1. result = [i \in 1 .. Len(queue) |-> at(i)]
    BY <1>3 DEF Enqueue
  <2>2. \A i \in 1 .. Len(queue) :
           at(i) \in QueuedUpdate /\ at(i).networkId = queue[i].networkId
    BY <1>1
  <2> HIDE DEF at
  <2>3. result \in [1 .. Len(queue) -> QueuedUpdate]
    BY <2>1, <2>2
  <2>4. result \in Seq(QueuedUpdate)
    BY <1>1, <2>3, SeqDef
  <2>5. Len(result) = Len(queue)
    <3>1. DOMAIN result = 1 .. Len(queue)
      BY <2>3
    <3>2. DOMAIN result = 1 .. Len(result) /\ Len(result) \in Nat
      BY <2>4, LenProperties
    <3> QED
      BY <1>1, <3>1, <3>2
  <2>6. \A i \in 1 .. Len(queue) :
           IF /\ queue[i].networkId = u.networkId
              /\ queue[i].stateRevision <= u.stateRevision
           THEN result[i] = u ELSE result[i] = queue[i]
    BY <2>1 DEF at
  <2>7. \A i \in 1 .. Len(queue) : result[i].networkId = queue[i].networkId
    BY <2>1, <2>2
  <2>8. Genuine(result)
    BY <2>4, <2>5, <2>6 DEF Genuine
  <2>9. \A id : id # u.networkId => PendingIn(result, id) = PendingIn(queue, id)
    <3> TAKE id
    <3>1. HAVE id # u.networkId
    <3>2. \A i \in 1 .. Len(queue) :
             /\ result[i].networkId = queue[i].networkId
             /\ queue[i].networkId = id => result[i] = queue[i]
      BY <2>6, <2>7, <3>1
    <3> QED
      BY <2>5, <3>2 DEF PendingIn
  <2>10. \A p \in PendingIn(result, u.networkId) :
            \/ p = u
            \/ p \in PendingIn(queue, u.networkId) /\ p.stateRevision > u.stateRevision
    <3> TAKE p \in PendingIn(result, u.networkId)
    <3>1. PICK i \in 1 .. Len(queue) : p = result[i] /\ result[i].networkId = u.networkId
      BY <2>5 DEF PendingIn
    <3>2. queue[i].networkId = u.networkId /\ queue[i] \in PendingIn(queue, u.networkId)
      BY <2>7, <3>1 DEF PendingIn
    <3> QED
      BY <1>1, <2>6, <3>1, <3>2
  <2>11. \A i \in 1 .. Len(queue) : queue[i].networkId = u.networkId =>
            result[i] \in PendingIn(result, u.networkId)
    BY <2>5, <2>7 DEF PendingIn
  <2>12. \A p \in PendingIn(queue, u.networkId) :
            \/ p \in PendingIn(result, u.networkId)
            \/ u \in PendingIn(result, u.networkId) /\ p.stateRevision <= u.stateRevision
    <3> TAKE p \in PendingIn(queue, u.networkId)
    <3>1. PICK i \in 1 .. Len(queue) : p = queue[i] /\ queue[i].networkId = u.networkId
      BY DEF PendingIn
    <3> QED
      BY <2>6, <2>11, <3>1
  <2>13. PICK i \in 1 .. Len(queue) : queue[i].networkId = u.networkId
    BY <1>3 DEF PendingIndices
  <2>14. queue[i] \in PendingIn(queue, u.networkId)
    BY <2>13 DEF PendingIn
  <2>15. \/ u \in PendingIn(result, u.networkId)
         \/ \E p \in PendingIn(queue, u.networkId) : p.stateRevision > u.stateRevision
    BY <1>1, <2>6, <2>11, <2>13, <2>14
  <2> QED
    BY <2>8, <2>9, <2>10, <2>12, <2>15
<1> QED
  BY <1>2, <1>3

\* Taking the first update off a queue.
LEMMA TailPending ==
    ASSUME NEW queue, Genuine(queue), queue # <<>>
    PROVE  /\ Genuine(Tail(queue))
           /\ Head(queue) \in QueuedUpdate
           /\ ~Head(queue).bRemove =>
                 Head(queue).snapshot.stateRevision = Head(queue).stateRevision
           /\ \A id : PendingIn(queue, id) =
                 PendingIn(Tail(queue), id) \cup
                 (IF Head(queue).networkId = id THEN {Head(queue)} ELSE {})
<1>1. queue \in Seq(QueuedUpdate)
  BY DEF Genuine
<1>2. Len(queue) \in Nat \ {0} /\ Head(queue) = queue[1]
  BY <1>1, EmptySeq
<1>3. /\ Head(queue) \in QueuedUpdate
      /\ Tail(queue) \in Seq(QueuedUpdate)
      /\ Len(Tail(queue)) = Len(queue) - 1
      /\ \A i \in 1 .. Len(Tail(queue)) : Tail(queue)[i] = queue[i + 1]
  BY <1>1, HeadTailProperties
<1>4. /\ 1 \in 1 .. Len(queue)
      /\ \A i \in 1 .. Len(Tail(queue)) : i + 1 \in 1 .. Len(queue)
      /\ \A i \in 1 .. Len(queue) : i = 1 \/ i - 1 \in 1 .. Len(Tail(queue))
      /\ \A i \in 1 .. Len(queue) : (i - 1) + 1 = i
  BY <1>2, <1>3
<1>5. \A i \in 1 .. Len(queue) : i = 1 \/ Tail(queue)[i - 1] = queue[i]
  BY <1>3, <1>4
<1>6. Genuine(Tail(queue))
  BY <1>3, <1>4 DEF Genuine
<1>7. ~Head(queue).bRemove =>
         Head(queue).snapshot.stateRevision = Head(queue).stateRevision
  BY <1>2, <1>4 DEF Genuine
<1>8. ASSUME NEW id, NEW u
      PROVE  u \in PendingIn(queue, id) <=>
                u \in PendingIn(Tail(queue), id) \/ (Head(queue).networkId = id /\ u = Head(queue))
  <2>1. ASSUME u \in PendingIn(queue, id)
        PROVE  u \in PendingIn(Tail(queue), id) \/ (Head(queue).networkId = id /\ u = Head(queue))
    <3>1. PICK i \in 1 .. Len(queue) : u = queue[i] /\ queue[i].networkId = id
      BY <2>1 DEF PendingIn
    <3> QED
      BY <1>2, <1>4, <1>5, <3>1 DEF PendingIn
  <2>2. ASSUME u \in PendingIn(Tail(queue), id)
        PROVE  u \in PendingIn(queue, id)
    <3>1. PICK i \in 1 .. Len(Tail(queue)) : u = Tail(queue)[i] /\ Tail(queue)[i].networkId = id
      BY <2>2 DEF PendingIn
    <3> QED
      BY <1>3, <1>4, <3>1 DEF PendingIn
  <2>3. ASSUME Head(queue).networkId = id
        PROVE  Head(queue) \in PendingIn(queue, id)
    BY <1>2, <1>4, <2>3 DEF PendingIn
  <2> QED
    BY <2>1, <2>2, <2>3
<1> QED
  BY <1>3, <1>6, <1>7, <1>8

-----------------------------------------------------------------------------
(* The client's steps, seen by identity                                      *)

\* Whether an identity is mapped, and what decides it, stay as they are.
SameState(id) == (Mapped(id)' <=> Mapped(id)) /\ Decided(id)' = Decided(id)

\* ... and so does what waits for it.
SameView == \A id \in NetworkIds : SameState(id) /\ Waiting(id)' = Waiting(id)

\* The effect of an update: it decides its identity, unless it is stale.
TakesEffect(u) ==
    IF \/ ~u.bRemove /\ u.stateRevision > Decided(u.networkId)
       \/ u.bRemove /\ u.stateRevision >= Decided(u.networkId)
    THEN (Mapped(u.networkId)' <=> ~u.bRemove) /\ Decided(u.networkId)' = u.stateRevision
    ELSE SameState(u.networkId)

\* What decides an identity is a number.
LEMMA DecidedTyped ==
    ASSUME ClientTyped, NEW id \in NetworkIds
    PROVE  Decided(id) \in Nat /\ Mapped(id) \in BOOLEAN
  BY DEF ClientTyped, Decided, Mapped, Snapshot

\* Steps that change neither the queues nor the entities.
LEMMA ViewKept ==
    ASSUME ClientTyped, applying' \in BOOLEAN, ~applying' => updates = <<>>,
           UNCHANGED <<updateQueue, updates, networkIdToEntityMap, replicationSnapshots,
                       removedEntityRevisions>>
    PROVE  ClientTyped' /\ SameView
<1>1. ClientTyped'
  BY DEF ClientTyped, Mapped, Genuine
<1>2. SameView
  BY DEF SameView, SameState, Waiting, PendingIn, Mapped, Decided
<1> QED
  BY <1>1, <1>2

\* The layouts' steps and the end of a run are such steps.
LEMMA QuietSteps ==
    ASSUME ClientTyped,
           \/ UNCHANGED clientVars
           \/ \E layout : Client!ReceiveLayout(layout)
           \/ \E k : Client!RegisterKey(k)
           \/ Client!FinishRun
    PROVE  /\ ClientTyped' /\ SameView
           /\ UNCHANGED <<updates, updateQueue>>
<1>1. /\ UNCHANGED <<updateQueue, updates, networkIdToEntityMap, replicationSnapshots,
                     removedEntityRevisions>>
      /\ UNCHANGED applying \/ (updates = <<>> /\ applying' = FALSE)
  BY DEF clientVars, Client!ReceiveLayout, Client!RegisterKey, Client!FinishRun,
         Client!queueVars, Client!entityVars
<1>2. applying' \in BOOLEAN /\ (~applying' => updates = <<>>)
  BY <1>1 DEF ClientTyped
<1> QED
  BY <1>1, <1>2, ViewKept

\* The run begins: what waited in the queue is to be applied.
LEMMA DrainFacts ==
    ASSUME ClientTyped, Client!DrainQueue
    PROVE  /\ ClientTyped' /\ SameView
           /\ updates = <<>> /\ updates' = updateQueue /\ updateQueue' = <<>>
<1>1. /\ updates = <<>> /\ updates' = updateQueue /\ updateQueue' = <<>> /\ applying' = TRUE
      /\ UNCHANGED <<networkIdToEntityMap, replicationSnapshots, removedEntityRevisions>>
  BY DEF ClientTyped, Client!DrainQueue, Client!entityVars
<1>2. Genuine(<<>>)
  BY <1>1 DEF ClientTyped
<1>3. ClientTyped'
  BY <1>1, <1>2 DEF ClientTyped, Mapped, Genuine
<1>4. \A id : Waiting(id)' = Waiting(id)
  BY <1>1, NothingPending DEF Waiting
<1>5. SameView
  BY <1>1, <1>4 DEF SameView, SameState, Mapped, Decided
<1> QED
  BY <1>1, <1>3, <1>5

\* The client's queue operations are those of the update queue.
LEMMA ClientQueue ==
    /\ \A queue, id, snapshot : Client!EnqueueSnapshot(queue, id, snapshot)
                                   = Enqueue(queue, SnapshotUpdate(id, snapshot))
    /\ \A queue, id, revision : Client!EnqueueRemoval(queue, id, revision)
                                   = Enqueue(queue, RemovalUpdate(id, revision))
  BY DEF Client!EnqueueSnapshot, Client!EnqueueRemoval, Client!Enqueue, Client!PendingIndices,
         Client!SnapshotUpdate, Client!RemovalUpdate, Client!NoSnapshot,
         Enqueue, PendingIndices, SnapshotUpdate, RemovalUpdate, NoSnapshot

\* An update waits from this step on, unless a newer one does; it may replace an
\* older one.
Enqueued(u) ==
    /\ \A id \in NetworkIds : SameState(id)
    /\ \A id : id # u.networkId => Waiting(id)' = Waiting(id)
    /\ \A p \in Waiting(u.networkId)' : p = u \/ p \in Waiting(u.networkId)
    /\ \A p \in Waiting(u.networkId) :
          \/ p \in Waiting(u.networkId)'
          \/ u \in Waiting(u.networkId)' /\ p.stateRevision <= u.stateRevision
    /\ \/ u \in Waiting(u.networkId)'
       \/ \E p \in Waiting(u.networkId) : p.stateRevision > u.stateRevision

\* An update is enqueued: no entity changes.
LEMMA EnqueueStep ==
    ASSUME ClientTyped, NEW u \in QueuedUpdate,
           ~u.bRemove => u.snapshot.stateRevision = u.stateRevision,
           updateQueue' = Enqueue(updateQueue, u),
           UNCHANGED <<applying, updates, Client!entityVars>>
    PROVE  ClientTyped' /\ Enqueued(u)
<1>1. Genuine(updateQueue)
  BY DEF ClientTyped
<1>2. UNCHANGED <<networkIdToEntityMap, replicationSnapshots, removedEntityRevisions>>
  BY DEF Client!entityVars
<1>3. Genuine(updateQueue')
  BY <1>1, EnqueuePending
<1>4. ClientTyped'
  BY <1>2, <1>3 DEF ClientTyped, Mapped, Genuine
<1>5. \A id \in NetworkIds : SameState(id)
  BY <1>2 DEF SameState, Mapped, Decided
<1>6. \A id : PendingIn(updates, id)' = PendingIn(updates, id)
  BY DEF PendingIn
<1>7. \A id : PendingIn(updateQueue, id)' = PendingIn(updateQueue', id)
  BY DEF PendingIn
<1>8. \A id : Waiting(id)' = PendingIn(updates, id) \cup PendingIn(updateQueue', id)
  BY <1>6, <1>7 DEF Waiting
<1>9. /\ \A id : id # u.networkId => PendingIn(updateQueue', id) = PendingIn(updateQueue, id)
      /\ \A p \in PendingIn(updateQueue', u.networkId) :
            p = u \/ p \in PendingIn(updateQueue, u.networkId)
      /\ \A p \in PendingIn(updateQueue, u.networkId) :
            \/ p \in PendingIn(updateQueue', u.networkId)
            \/ u \in PendingIn(updateQueue', u.networkId) /\ p.stateRevision <= u.stateRevision
      /\ \/ u \in PendingIn(updateQueue', u.networkId)
         \/ \E p \in PendingIn(updateQueue, u.networkId) : p.stateRevision > u.stateRevision
  BY <1>1, EnqueuePending, SMTT(20)
<1> QED
  BY <1>4, <1>5, <1>8, <1>9 DEF Waiting, Enqueued

\* An update is taken from the run's queue, and takes effect.
LEMMA ApplyFacts ==
    ASSUME ClientTyped, Client!ApplyUpdate
    PROVE  \E u \in QueuedUpdate :
              /\ ClientTyped' /\ UNCHANGED updateQueue
              /\ ~u.bRemove => u.snapshot.stateRevision = u.stateRevision
              /\ TakesEffect(u)
              /\ \A id \in NetworkIds : id # u.networkId => SameState(id)
              /\ \A id : PendingIn(updates, id) = PendingIn(updates', id) \cup
                            (IF u.networkId = id THEN {u} ELSE {})
<1>1. /\ updates # <<>> /\ updates' = Tail(updates) /\ UNCHANGED <<updateQueue, applying>>
      /\ applying
  BY DEF Client!ApplyUpdate
<1>0. PICK u \in QueuedUpdate : u = Head(updates)
  BY <1>1, TailPending DEF ClientTyped
<1>2. /\ Genuine(updates')
      /\ ~u.bRemove => u.snapshot.stateRevision = u.stateRevision
      /\ \A i : PendingIn(updates, i) = PendingIn(updates', i) \cup
                   (IF u.networkId = i THEN {u} ELSE {})
  BY <1>0, <1>1, TailPending DEF ClientTyped
<1> PICK id : id = u.networkId
  OBVIOUS
<1>3. /\ id \in NetworkIds /\ u.snapshot \in Snapshot /\ u.stateRevision \in Nat
      /\ u.snapshot.stateRevision \in Nat
  BY <1>2 DEF QueuedUpdate, Snapshot
<1>4. /\ DOMAIN networkIdToEntityMap = NetworkIds
      /\ replicationSnapshots \in [NetworkIds -> Snapshot]
      /\ removedEntityRevisions \in [NetworkIds -> Nat]
      /\ \A i \in NetworkIds : replicationSnapshots[i].stateRevision \in Nat
      /\ \A i \in NetworkIds :
            IF networkIdToEntityMap[i] # Client!NoEntity THEN removedEntityRevisions[i] = 0
            ELSE replicationSnapshots[i].stateRevision = 0
  BY DEF ClientTyped, Mapped, Snapshot
<1>5. \/ /\ ~u.bRemove /\ Client!Newer(id, u.snapshot) /\ Client!ShowEntity(id, u.snapshot)
      \/ /\ u.bRemove /\ Client!Ends(id, u.stateRevision) /\ Client!HideEntity(id, u.stateRevision)
      \/ /\ \/ ~u.bRemove /\ ~Client!Newer(id, u.snapshot)
            \/ u.bRemove /\ ~Client!Ends(id, u.stateRevision)
         /\ UNCHANGED Client!entityVars
  BY <1>0 DEF Client!ApplyUpdate
<1>6. /\ ~u.bRemove => (Client!Newer(id, u.snapshot) <=> u.stateRevision > Decided(id))
      /\ Client!Ends(id, u.stateRevision) <=> u.stateRevision >= Decided(id)
  BY <1>2, <1>3, <1>4 DEF Client!Newer, Client!Ends, Decided, Mapped
<1>7. CASE ~u.bRemove /\ Client!Newer(id, u.snapshot) /\ Client!ShowEntity(id, u.snapshot)
  <2>1. /\ networkIdToEntityMap' =
             [networkIdToEntityMap EXCEPT ![id] = Client!EntityFor(id, u.snapshot)]
        /\ replicationSnapshots' = [replicationSnapshots EXCEPT ![id] = u.snapshot]
        /\ removedEntityRevisions' = [removedEntityRevisions EXCEPT ![id] = 0]
    BY <1>7 DEF Client!ShowEntity
  <2>2. Client!EntityFor(id, u.snapshot) # Client!NoEntity
    BY DEF Client!EntityFor, Client!NoEntity
  <2> DEFINE entity == Client!EntityFor(id, u.snapshot)
  <2> HIDE DEF entity
  <2>3. /\ DOMAIN networkIdToEntityMap' = NetworkIds
        /\ replicationSnapshots' \in [NetworkIds -> Snapshot]
        /\ removedEntityRevisions' \in [NetworkIds -> Nat]
    BY <1>3, <1>4, <2>1
  <2>4. /\ networkIdToEntityMap'[id] # Client!NoEntity
        /\ replicationSnapshots'[id] = u.snapshot /\ removedEntityRevisions'[id] = 0
        /\ \A i \in NetworkIds \ {id} :
              /\ networkIdToEntityMap'[i] = networkIdToEntityMap[i]
              /\ replicationSnapshots'[i] = replicationSnapshots[i]
              /\ removedEntityRevisions'[i] = removedEntityRevisions[i]
    BY <1>3, <1>4, <2>1, <2>2 DEF entity
  <2>5. \A i \in NetworkIds :
           IF Mapped(i)' THEN removedEntityRevisions'[i] = 0
           ELSE replicationSnapshots'[i].stateRevision = 0
    BY <1>4, <2>4 DEF Mapped, Client!NoEntity
  <2>6. ClientTyped'
    BY <1>1, <1>2, <2>3, <2>5 DEF ClientTyped, Genuine, Mapped
  <2>7. \A i \in NetworkIds : i # id => SameState(i)
    BY <2>4 DEF SameState, Mapped, Decided, Client!NoEntity
  <2>8. Mapped(id)' /\ Decided(id)' = u.stateRevision
    BY <1>2, <1>7, <2>4 DEF Mapped, Decided, Client!NoEntity
  <2>9. TakesEffect(u)
    BY <1>6, <1>7, <2>8 DEF TakesEffect
  <2> QED
    BY <1>1, <1>2, <2>6, <2>7, <2>9
<1>8. CASE u.bRemove /\ Client!Ends(id, u.stateRevision) /\ Client!HideEntity(id, u.stateRevision)
  <2>1. /\ networkIdToEntityMap' = [networkIdToEntityMap EXCEPT ![id] = Client!NoEntity]
        /\ replicationSnapshots' = [replicationSnapshots EXCEPT ![id] = Client!NoSnapshot]
        /\ removedEntityRevisions' = [removedEntityRevisions EXCEPT ![id] = u.stateRevision]
    BY <1>8 DEF Client!HideEntity
  <2>2. Client!NoSnapshot \in Snapshot /\ Client!NoSnapshot.stateRevision = 0
    BY NoSnapshotTyped DEF Client!NoSnapshot, NoSnapshot
  <2>3. /\ DOMAIN networkIdToEntityMap' = NetworkIds
        /\ replicationSnapshots' \in [NetworkIds -> Snapshot]
        /\ removedEntityRevisions' \in [NetworkIds -> Nat]
    BY <1>3, <1>4, <2>1, <2>2
  <2>4. /\ networkIdToEntityMap'[id] = Client!NoEntity
        /\ replicationSnapshots'[id] = Client!NoSnapshot
        /\ removedEntityRevisions'[id] = u.stateRevision
        /\ \A i \in NetworkIds \ {id} :
              /\ networkIdToEntityMap'[i] = networkIdToEntityMap[i]
              /\ replicationSnapshots'[i] = replicationSnapshots[i]
              /\ removedEntityRevisions'[i] = removedEntityRevisions[i]
    BY <1>3, <1>4, <2>1
  <2>5. \A i \in NetworkIds :
           IF Mapped(i)' THEN removedEntityRevisions'[i] = 0
           ELSE replicationSnapshots'[i].stateRevision = 0
    BY <1>4, <2>2, <2>4 DEF Mapped, Client!NoEntity
  <2>6. ClientTyped'
    BY <1>1, <1>2, <2>3, <2>5 DEF ClientTyped, Genuine, Mapped
  <2>7. \A i \in NetworkIds : i # id => SameState(i)
    BY <2>4 DEF SameState, Mapped, Decided, Client!NoEntity
  <2>8. ~Mapped(id)' /\ Decided(id)' = u.stateRevision
    BY <2>4 DEF Mapped, Decided, Client!NoEntity
  <2>9. TakesEffect(u)
    BY <1>6, <1>8, <2>8 DEF TakesEffect
  <2> QED
    BY <1>1, <1>2, <2>6, <2>7, <2>9
<1>9. CASE /\ \/ ~u.bRemove /\ ~Client!Newer(id, u.snapshot)
              \/ u.bRemove /\ ~Client!Ends(id, u.stateRevision)
           /\ UNCHANGED Client!entityVars
  <2>1. UNCHANGED <<networkIdToEntityMap, replicationSnapshots, removedEntityRevisions>>
    BY <1>9 DEF Client!entityVars
  <2>2. ClientTyped'
    BY <1>1, <1>2, <2>1 DEF ClientTyped, Genuine, Mapped
  <2>3. \A i \in NetworkIds : SameState(i)
    BY <2>1 DEF SameState, Mapped, Decided
  <2>4. TakesEffect(u)
    BY <1>3, <1>6, <1>9, <2>3 DEF TakesEffect
  <2> QED
    BY <1>1, <1>2, <2>2, <2>3, <2>4
<1> QED
  BY <1>5, <1>7, <1>8, <1>9

-----------------------------------------------------------------------------
(* The authority's steps                                                     *)

\* The composition's steps are the authority's, or leave it alone.
LEMMA AuthoritySteps == [Next]_vars => [AuthorityNext]_authorityVars
  BY DEF Next, RunDirtySystem, Deliver, DeliverItem, DeliverProxy, DeliverItemRemoval,
         DeliverDetach, DeliverLayout, Arrives, Leaves, RegisterKey, RunQueueSystem,
         AuthorityNext, vars, serverVars

\* The authority of the composition behaves as it does alone.
THEOREM AuthorityIsUndisturbed == Spec => AuthoritySpec
  BY AuthoritySteps, PTL DEF Spec, AuthoritySpec, Init

\* An entity leaves a shard, which may be torn down for it: a proxy keeps what
\* it published.
Dropped(before, after, id) ==
    /\ after.selection = before.selection
    /\ after.replicating => before.replicating
    /\ after.published[id] = IF IsTable(before) THEN NoSnapshot ELSE before.published[id]
    /\ \A i \in NetworkIds \ {id} : after.published[i] = before.published[i]

\* An entity's snapshot is published by a shard that accepts it: one in a pool,
\* or the one that holds it.
Taken(before, after, id, snapshot) ==
    /\ after.selection = before.selection
    /\ after.replicating => before.replicating
    /\ after.published[id] = snapshot
    /\ \A i \in NetworkIds \ {id} :
          after.published[i] = IF IsTable(before) THEN before.published[i] ELSE NoSnapshot
    /\ CanAccept(before, id) /\ (before.pool # NoPool \/ id \in before.held)

\* What a step that publishes an entity may do to a shard.
Changed(before, after, id, snapshot) ==
    after = before \/ Dropped(before, after, id) \/ Taken(before, after, id, snapshot)

\* A shard that was created for an entity.
Created(after, id, snapshot) ==
    /\ after.published[id] = snapshot
    /\ \A i \in NetworkIds \ {id} : after.published[i] = NoSnapshot

\* RemoveNetEntity and ReleaseShardIfEmpty drop an entity.
LEMMA LeftDrops ==
    ASSUME NEW all \in Seq(Shard), NEW s \in 1 .. Len(all), NEW id \in NetworkIds,
           NEW key, NEW r, r = Left(all, s, id, key)
    PROVE  Dropped(all[s], r[s], id)
<1> DEFINE w == WithoutEntity(all[s], id)
           b == [all EXCEPT ![s] = w]
<1>1. all[s] \in Shard /\ Len(all) \in Nat
  BY ElementOfSeq, LenProperties
<1>2. /\ w \in Shard /\ w.selection = all[s].selection
      /\ w.replicating = all[s].replicating
      /\ w.published[id] = IF IsTable(all[s]) THEN NoSnapshot ELSE all[s].published[id]
      /\ \A i \in NetworkIds \ {id} : w.published[i] = all[s].published[i]
  BY <1>1, WithoutEntityFacts
<1> HIDE DEF w
<1>3. b \in Seq(Shard) /\ Len(b) = Len(all) /\ b[s] = w
  BY <1>1, <1>2, ExceptSeq
<1>4. r = Released(b, s, key)
  BY DEF Left, w
<1> HIDE DEF b
<1>5. /\ r[s].published = b[s].published /\ r[s].selection = b[s].selection
      /\ r = b \/ ~r[s].replicating
  BY <1>3, <1>4, ReleasedFacts
<1> QED
  BY <1>2, <1>3, <1>5 DEF Dropped

\* An entity that stops replicating is dropped by its shard.
LEMMA StopChanges ==
    ASSUME IInv, NEW e \in Entities, Replicates(e), StopReplicatingEntity(e)
    PROVE  /\ Len(shards') = Len(shards)
           /\ \A s \in 1 .. Len(shards) :
                 shards'[s] = shards[s] \/ Dropped(shards[s], shards'[s], identity[e])
<1> DEFINE p == shardMap[e].shard
           key == PoolKey(shardMap[e].profile, shardMap[e].selection)
<1>1. CASE ~Placed(e)
  BY <1>1 DEF StopReplicatingEntity, Placed
<1>2. CASE Placed(e)
  <2>1. p \in 1 .. Len(shards) /\ shards \in Seq(Shard) /\ identity[e] \in NetworkIds
    BY <1>2, PlacedFacts DEF IInv, AuthorityTypeOK
  <2>2. shards' = Left(shards, p, identity[e], key)
    BY <1>2 DEF StopReplicatingEntity, Placed, Left
  <2> HIDE DEF key, p
  <2> QED
    BY <2>1, <2>2, LeftDrops, LeftFacts
<1> QED
  BY <1>1, <1>2

\* An entity that is published is taken by a shard and, if it moves, dropped by
\* another.
LEMMA PublishChanges ==
    ASSUME IInv, NEW e \in Entities, PublishDirty(e)
    PROVE  \E snapshot \in Snapshot :
              /\ snapshot # NoSnapshot
              /\ snapshot.stateRevision = authoritySnapshots[identity[e]].stateRevision + 1
              /\ Len(shards) <= Len(shards')
              /\ \A s \in 1 .. Len(shards) :
                    Changed(shards[s], shards'[s], identity[e], snapshot)
              /\ \A s \in 1 .. Len(shards') :
                    s > Len(shards) => Created(shards'[s], identity[e], snapshot)
<1> DEFINE id == identity[e]
           snapshot == FillFromEntity(e)
           p == shardMap[e].shard
           key == PoolKey(shardMap[e].profile, shardMap[e].selection)
<1>1. /\ Replicates(e) /\ id \in NetworkIds /\ snapshot \in Snapshot /\ PublishNetEntity(e, snapshot)
      /\ snapshot.stateRevision \in Revisions
      /\ snapshot.stateRevision = authoritySnapshots[id].stateRevision + 1
  BY PublishDirtyFacts DEF PublishDirty
<1>2. snapshot # NoSnapshot
  BY <1>1, RevisionFacts, RecordsAssumption
<1> HIDE DEF snapshot
<1>3. PICK all, d, shard :
        /\ PublishedInto(all, e, d, shard, snapshot)
        /\ NewPlacement(e, d) \in Placement
        /\ shards' = IF ~Placed(e) \/ p = d THEN all ELSE Left(all, p, id, key)
  BY <1>1, PublishCases
<1>4. /\ d \in 1 .. Len(shards) + 1 /\ shard \in Shard
      /\ CanAccept(shard, id) /\ Chosen(shard, d, id)
      /\ all \in Seq(Shard) /\ Len(all) = IF d = Len(shards) + 1 THEN d ELSE Len(shards)
      /\ all[d] = WithEntity(shard, id, snapshot)
      /\ \A s \in 1 .. Len(shards) : s # d => all[s] = shards[s]
      /\ \/ Placed(e) /\ p = d
         \/ shard.pool = PoolKey(NewPlacement(e, d).profile, NewPlacement(e, d).selection)
  BY <1>3 DEF PublishedInto
<1>5. Len(shards) \in Nat
  BY LenProperties DEF IInv, AuthorityTypeOK
<1>6. /\ all[d].selection = shard.selection /\ all[d].replicating = shard.replicating
      /\ all[d].published[id] = snapshot
      /\ \A i \in NetworkIds \ {id} :
            all[d].published[i] = IF IsTable(shard) THEN shard.published[i] ELSE NoSnapshot
  BY <1>1, <1>4, WithEntityFacts
<1>7. ASSUME d <= Len(shards) PROVE Taken(shards[d], all[d], id, snapshot)
  <2>1. shard = shards[d]
    BY <1>4, <1>5, <1>7 DEF Chosen
  <2>2. shard.pool # NoPool \/ id \in shard.held
    <3>1. CASE Placed(e) /\ p = d
      BY <2>1, <3>1 DEF IInv, PlacedOnce
    <3>2. CASE shard.pool = PoolKey(NewPlacement(e, d).profile, NewPlacement(e, d).selection)
      <4>1. /\ NewPlacement(e, d).profile \in Profiles \cup Entities
            /\ NewPlacement(e, d).selection \in Selection
        BY <1>3 DEF Placement
      <4> QED
        BY <3>2, <4>1, PoolKeyFacts, PlacementAssumption DEF IInv
    <3> QED
      BY <1>4, <3>1, <3>2
  <2> QED
    BY <1>4, <1>6, <2>1, <2>2 DEF Taken
<1>8. ASSUME d > Len(shards) PROVE Created(all[d], id, snapshot)
  <2>1. PICK k \in PoolKeys : shard = NewShard(id, k)
    BY <1>4, <1>5, <1>8 DEF Chosen
  <2>2. \A i \in NetworkIds : shard.published[i] = NoSnapshot
    BY <2>1 DEF NewShard
  <2> QED
    BY <1>6, <2>2 DEF Created
<1>9. /\ Len(all) \in Nat /\ Len(shards) <= Len(all)
      /\ \A s \in 1 .. Len(all) : s > Len(shards) => s = d
      /\ \A s \in 1 .. Len(shards) : s \in 1 .. Len(all)
  BY <1>4, <1>5
<1>10. CASE ~Placed(e) \/ p = d
  <2>1. shards' = all
    BY <1>3, <1>10
  <2>2. \A s \in 1 .. Len(shards) : Changed(shards[s], all[s], id, snapshot)
    BY <1>4, <1>5, <1>7 DEF Changed
  <2> QED
    BY <1>1, <1>2, <1>8, <1>9, <2>1, <2>2
<1>11. CASE ~(~Placed(e) \/ p = d)
  <2>1. p \in 1 .. Len(shards) /\ p # d
    BY <1>11, PlacedFacts
  <2>2. p \in 1 .. Len(all) /\ all[p] = shards[p]
    BY <1>4, <1>9, <2>1
  <2>3. shards' = Left(all, p, id, key)
    BY <1>3, <1>11
  <2> HIDE DEF key, p
  <2>4. /\ Len(shards') = Len(all)
        /\ \A t \in 1 .. Len(all) : t # p => shards'[t] = all[t]
        /\ Dropped(shards[p], shards'[p], id)
    BY <1>1, <1>4, <2>2, <2>3, LeftDrops, LeftFacts
  <2>5. \A s \in 1 .. Len(shards) : Changed(shards[s], shards'[s], id, snapshot)
    BY <1>4, <1>5, <1>7, <1>9, <2>4 DEF Changed
  <2>6. \A s \in 1 .. Len(shards') : s > Len(shards) => Created(shards'[s], id, snapshot)
    BY <1>8, <1>9, <1>5, <2>1, <2>4
  <2> QED
    BY <1>1, <1>2, <1>9, <2>4, <2>5, <2>6
<1> QED
  BY <1>10, <1>11

\* What a step of the authority does to an entity that is placed after it, and
\* to the identities that are not over.
Continues(f) ==
    /\ identity'[f] = identity[f]
    /\ IF EntersShard(f)
       THEN authoritySnapshots'[identity[f]].stateRevision
               > authoritySnapshots[identity[f]].stateRevision
       ELSE /\ Placed(f) /\ shardMap'[f].shard = shardMap[f].shard
            /\ \A s \in 1 .. Len(shards') : s # shardMap[f].shard =>
                  \/ shards'[s].published[identity[f]] = NoSnapshot
                  \/ /\ s \in 1 .. Len(shards)
                     /\ shards'[s].published[identity[f]] = shards[s].published[identity[f]]

LivesOn(id) ==
    Living(id)' => /\ Living(id)
                   /\ authoritySnapshots[id].stateRevision
                         <= authoritySnapshots'[id].stateRevision

\* A new proxy or table, a taken or a dropped entity: a proxy has one identity.
LEMMA ChangesCarryOne ==
    ASSUME NEW id \in NetworkIds, NEW snapshot, NEW before, NEW after, CarriesOne(before),
           Dropped(before, after, id) \/ Taken(before, after, id, snapshot)
    PROVE  CarriesOne(after)
  BY DEF Dropped, Taken, CarriesOne, IsTable

\* Proxies go on carrying one identity, and no shard that was torn down starts
\* again.
LEMMA ShardsContinue ==
    ASSUME IInv, ProxiesCarryOne, [AuthorityNext]_authorityVars
    PROVE  /\ ProxiesCarryOne' /\ Len(shards) <= Len(shards')
           /\ \A s \in 1 .. Len(shards) :
                 /\ shards'[s].selection = shards[s].selection
                 /\ shards'[s].replicating => shards[s].replicating
<1>1. Len(shards) \in Nat
  BY LenProperties DEF IInv, AuthorityTypeOK
<1> DEFINE Goal == /\ ProxiesCarryOne' /\ Len(shards) <= Len(shards')
                   /\ \A s \in 1 .. Len(shards) :
                         /\ shards'[s].selection = shards[s].selection
                         /\ shards'[s].replicating => shards[s].replicating
<1>2. ASSUME UNCHANGED publishedVars PROVE Goal
  BY <1>1, <1>2 DEF ProxiesCarryOne, CarriesOne, IsTable, publishedVars
<1>3. ASSUME NEW e \in Entities,
             \/ \E p \in Profiles : AddPrefab(e, p) \/ SetReplicationProfile(e, p)
             \/ \E x \in LocalIds : \/ \E v \in Values : SetComponent(e, x, v)
                                    \/ AddTag(e, x) \/ RemoveId(e, x)
      PROVE  Goal
  BY <1>2, <1>3, EditFacts DEF IInv
<1>4. ASSUME NEW e \in Entities, BeginReplicatingEntity(e) PROVE Goal
  BY <1>2, <1>4, BeginFacts
<1>5. ASSUME NEW e \in Entities, RemoveMarker(e) \/ DestroyEntity(e) PROVE Goal
  <2>1. /\ Len(shards') = Len(shards) /\ identity[e] \in NetworkIds
        /\ \A s \in 1 .. Len(shards) :
              shards'[s] = shards[s] \/ Dropped(shards[s], shards'[s], identity[e])
    BY <1>5, StopStepKeeps, StopChanges, IdentityTyped DEF IInv
  <2>2. ProxiesCarryOne'
    <3> SUFFICES ASSUME NEW s \in 1 .. Len(shards) PROVE CarriesOne(shards'[s])
      BY <2>1 DEF ProxiesCarryOne, CarriesOne, IsTable
    <3>1. CarriesOne(shards[s])
      BY DEF ProxiesCarryOne
    <3> QED
      BY <2>1, <3>1, ChangesCarryOne
  <2> QED
    BY <1>1, <2>1, <2>2 DEF Dropped
<1>6. ASSUME NEW e \in Entities, PublishDirty(e) PROVE Goal
  <2>1. PICK snapshot \in Snapshot :
          /\ Len(shards) <= Len(shards')
          /\ \A s \in 1 .. Len(shards) :
                Changed(shards[s], shards'[s], identity[e], snapshot)
          /\ \A s \in 1 .. Len(shards') :
                s > Len(shards) => Created(shards'[s], identity[e], snapshot)
    BY <1>6, PublishChanges
  <2>2. identity[e] \in NetworkIds
    BY <1>6, PublishDirtyFacts
  <2>3. ProxiesCarryOne'
    <3> SUFFICES ASSUME NEW s \in 1 .. Len(shards') PROVE CarriesOne(shards'[s])
      BY DEF ProxiesCarryOne, CarriesOne, IsTable
    <3>1. CASE s > Len(shards)
      BY <2>1, <2>2, <3>1 DEF Created, CarriesOne
    <3>2. CASE s <= Len(shards)
      <4>1. s \in 1 .. Len(shards) /\ CarriesOne(shards[s])
        BY <1>1, <3>2 DEF ProxiesCarryOne
      <4> QED
        BY <2>1, <2>2, <4>1, ChangesCarryOne DEF Changed
    <3>3. Len(shards') \in Nat
      <4>1. IInv'
        BY NextIInv
      <4> QED
        BY <4>1, LenProperties DEF IInv, AuthorityTypeOK
    <3> QED
      BY <1>1, <3>1, <3>2, <3>3
  <2> QED
    BY <2>1, <2>3 DEF Changed, Dropped, Taken
<1>7. CASE UNCHANGED authorityVars
  BY <1>2, <1>7 DEF authorityVars
<1> QED
  BY <1>3, <1>4, <1>5, <1>6, <1>7 DEF AuthorityNext, GameCode

\* A step of game code or of the dirty system, seen by identity and by entity.
LEMMA EntitiesContinue ==
    ASSUME CopiesInv, [AuthorityNext]_authorityVars
    PROVE  /\ \A id \in NetworkIds : LivesOn(id)
           /\ \A f \in Entities : Placed(f)' => Continues(f)
<1> DEFINE Goal == /\ \A id \in NetworkIds : LivesOn(id)
                   /\ \A f \in Entities : Placed(f)' => Continues(f)
<1>1. /\ IInv /\ Len(shards) \in Nat
      /\ \A id \in NetworkIds : authoritySnapshots[id].stateRevision \in Nat
  BY LenProperties, RevisionFacts DEF CopiesInv, IInv, AuthorityTypeOK
<1>2. ASSUME UNCHANGED publishedVars,
             \A id \in NetworkIds : Living(id)' => Living(id),
             \A f \in Entities : Placed(f) => identity'[f] = identity[f]
      PROVE  Goal
  BY <1>1, <1>2 DEF publishedVars, LivesOn, Continues, EntersShard, Placed
<1>3. ASSUME UNCHANGED <<lives, identity, publishedVars>> PROVE Goal
  BY <1>2, <1>3 DEF Living
<1>4. ASSUME NEW e \in Entities,
             \/ \E p \in Profiles : AddPrefab(e, p) \/ SetReplicationProfile(e, p)
             \/ \E x \in LocalIds : \/ \E v \in Values : SetComponent(e, x, v)
                                    \/ AddTag(e, x) \/ RemoveId(e, x)
      PROVE  Goal
  BY <1>3, <1>4, EditFacts DEF CopiesInv, IInv
<1>5. ASSUME NEW e \in Entities, BeginReplicatingEntity(e) PROVE Goal
  <2>1. /\ ~Placed(e) /\ <<e, lives[e] + 1>> \in NetworkIds
        /\ identity' = [identity EXCEPT ![e] = <<e, lives[e] + 1>>]
        /\ lives' = [lives EXCEPT ![e] = lives[e] + 1]
        /\ UNCHANGED publishedVars
    BY <1>1, <1>5, BeginFacts
  <2>2. lives[e] \in Nat /\ lives \in [Entities -> Nat]
    BY DEF CopiesInv, IInv, AuthorityTypeOK
  <2>3. /\ identity'[e] = <<e, lives[e] + 1>> /\ lives'[e] = lives[e] + 1
        /\ \A f \in Entities \ {e} : identity'[f] = identity[f] /\ lives'[f] = lives[f]
    BY <2>1 DEF CopiesInv, IInv, AuthorityTypeOK
  <2>4. \A id \in NetworkIds : Living(id)' => Living(id)
    <3> SUFFICES ASSUME NEW id \in NetworkIds, Living(id)' PROVE Living(id)
      OBVIOUS
    <3>1. id[1] \in Entities /\ id[2] \in Nat
      BY AuthorityAssumption
    <3>2. CASE id[2] > lives'[id[1]]
      BY <2>2, <2>3, <3>1, <3>2 DEF Living
    <3>3. ASSUME NEW f \in Entities, identity'[f] = id PROVE Living(id)
      <4>1. CASE f = e
        <5>1. id = <<e, lives[e] + 1>>
          BY <2>3, <3>3, <4>1
        <5>2. id[2] > lives[id[1]]
          BY <2>2, <5>1
        <5> QED
          BY <5>2 DEF Living
      <4>2. CASE f # e
        BY <2>3, <3>3, <4>2 DEF Living
      <4> QED
        BY <4>1, <4>2
    <3> QED
      BY <3>2, <3>3 DEF Living
  <2> QED
    BY <1>2, <2>1, <2>3, <2>4
<1>6. ASSUME NEW e \in Entities, RemoveMarker(e) \/ DestroyEntity(e) PROVE Goal
  <2>1. Replicates(e) /\ StopReplicatingEntity(e)
    BY <1>1, <1>6, StopStepKeeps
  <2>2. Moved(identity[e], 0, NoSnapshot) /\ identity[e] \in NetworkIds
        /\ identity[e] = <<e, lives[e]>> /\ lives[e] \in Nat
    BY <1>1, <2>1, StopFacts, IdentityTyped DEF IInv, IdentitiesOwn, AuthorityTypeOK
  <2>3. /\ identity' = [identity EXCEPT ![e] = NoIdentity] /\ lives' = lives
        /\ shardMap' = [shardMap EXCEPT ![e] = NoPlacement]
        /\ authoritySnapshots' = [authoritySnapshots EXCEPT ![identity[e]] = NoSnapshot]
    BY <2>1 DEF StopReplicatingEntity
  <2>4. /\ identity'[e] = NoIdentity /\ shardMap'[e] = NoPlacement
        /\ \A f \in Entities \ {e} : identity'[f] = identity[f] /\ shardMap'[f] = shardMap[f]
        /\ \A i \in NetworkIds \ {identity[e]} : authoritySnapshots'[i] = authoritySnapshots[i]
    BY <1>1, <2>3 DEF IInv, AuthorityTypeOK
  <2>5. ASSUME NEW id \in NetworkIds, Living(id)' PROVE Living(id) /\ id # identity[e]
    <3>1. CASE id[2] > lives'[id[1]]
      BY <2>2, <2>3, <3>1 DEF Living
    <3>2. ASSUME NEW f \in Entities, identity'[f] = id PROVE Living(id) /\ id # identity[e]
      <4>1. f # e /\ identity[f] = id
        BY <2>4, <3>2, AuthorityAssumption
      <4>2. Replicates(f)
        BY <4>1, AuthorityAssumption DEF Replicates
      <4> QED
        BY <1>1, <2>1, <4>1, <4>2, IdentitiesDiffer DEF Living
    <3> QED
      BY <2>5, <3>1, <3>2 DEF Living
  <2>6. \A id \in NetworkIds : LivesOn(id)
    BY <1>1, <2>4, <2>5 DEF LivesOn
  <2>7. ASSUME NEW f \in Entities, Placed(f)' PROVE Continues(f)
    <3>1. f # e /\ identity'[f] = identity[f] /\ shardMap'[f] = shardMap[f] /\ Placed(f)
      BY <2>4, <2>7 DEF Placed
    <3>2. identity[f] \in NetworkIds /\ identity[f] # identity[e]
      BY <1>1, <2>1, <3>1, PlacedFacts, IdentitiesDiffer
    <3>3. \A s \in 1 .. Len(shards') :
             \/ shards'[s].published[identity[f]] = NoSnapshot
             \/ /\ s \in 1 .. Len(shards)
                /\ shards'[s].published[identity[f]] = shards[s].published[identity[f]]
      BY <1>1, <2>2, <3>2, NoSnapshotTyped, MovedCopies
    <3> QED
      BY <3>1, <3>3 DEF Continues, EntersShard
  <2> QED
    BY <2>6, <2>7
<1>7. ASSUME NEW e \in Entities, PublishDirty(e) PROVE Goal
  <2> DEFINE snapshot == FillFromEntity(e)
  <2>1. /\ Replicates(e) /\ identity[e] \in NetworkIds /\ snapshot \in Snapshot
        /\ snapshot.stateRevision = authoritySnapshots[identity[e]].stateRevision + 1
        /\ authoritySnapshots' = [authoritySnapshots EXCEPT ![identity[e]] = snapshot]
        /\ lives' = lives /\ identity' = identity
    BY <1>1, <1>7, PublishDirtyFacts
  <2>2. PICK d \in 1 .. Len(shards') :
          /\ Moved(identity[e], d, snapshot)
          /\ shardMap' = [shardMap EXCEPT ![e] = NewPlacement(e, d)]
    BY <1>1, <1>7, PublishDirtyFacts
  <2> HIDE DEF snapshot
  <2>3. /\ shardMap'[e].shard = d
        /\ \A f \in Entities \ {e} : shardMap'[f] = shardMap[f]
        /\ authoritySnapshots'[identity[e]] = snapshot
        /\ \A i \in NetworkIds \ {identity[e]} : authoritySnapshots'[i] = authoritySnapshots[i]
    BY <1>1, <2>1, <2>2 DEF IInv, AuthorityTypeOK, NewPlacement
  <2>4. \A id \in NetworkIds : LivesOn(id)
    <3> SUFFICES ASSUME NEW id \in NetworkIds
                 PROVE  authoritySnapshots[id].stateRevision
                           <= authoritySnapshots'[id].stateRevision
      BY <2>1 DEF LivesOn, Living
    <3> QED
      BY <1>1, <2>1, <2>3
  <2>5. ASSUME NEW f \in Entities, Placed(f)' PROVE Continues(f)
    <3>1. CASE f = e /\ EntersShard(f)
      BY <1>1, <2>1, <2>3, <3>1 DEF Continues
    <3>2. CASE f = e /\ ~EntersShard(f)
      <4>1. Placed(e) /\ shardMap[e].shard = d /\ shardMap'[e].shard = shardMap[e].shard
        BY <2>3, <2>5, <3>2 DEF EntersShard, Placed
      <4>2. \A s \in 1 .. Len(shards') : s # d =>
               \/ shards'[s].published[identity[e]] = NoSnapshot
               \/ /\ s \in 1 .. Len(shards)
                  /\ shards'[s].published[identity[e]] = shards[s].published[identity[e]]
        BY <1>1, <2>1, <2>2, MovedCopies
      <4> QED
        BY <2>1, <3>2, <4>1, <4>2 DEF Continues
    <3>3. CASE f # e
      <4>1. shardMap'[f] = shardMap[f] /\ Placed(f) /\ ~EntersShard(f)
        BY <2>3, <2>5, <3>3 DEF Placed, EntersShard
      <4>2. identity[f] \in NetworkIds /\ identity[f] # identity[e]
        BY <1>1, <2>1, <3>3, <4>1, PlacedFacts, IdentitiesDiffer
      <4>3. \A s \in 1 .. Len(shards') :
               \/ shards'[s].published[identity[f]] = NoSnapshot
               \/ /\ s \in 1 .. Len(shards)
                  /\ shards'[s].published[identity[f]] = shards[s].published[identity[f]]
        BY <1>1, <2>1, <2>2, <4>2, MovedCopies
      <4> QED
        BY <2>1, <4>1, <4>3 DEF Continues
    <3> QED
      BY <3>1, <3>2, <3>3
  <2> QED
    BY <2>4, <2>5
<1>8. CASE UNCHANGED authorityVars
  BY <1>3, <1>8 DEF authorityVars, entityStateVars
<1> QED
  BY <1>4, <1>5, <1>6, <1>7, <1>8 DEF AuthorityNext, GameCode

\* Game code never puts an entity into a shard.
LEMMA GameCodePlacesNothing ==
    ASSUME IInv, GameCode, NEW f \in Entities, Placed(f)'
    PROVE  ~EntersShard(f)
<1>1. ASSUME UNCHANGED publishedVars PROVE ~EntersShard(f)
  BY <1>1 DEF publishedVars, EntersShard
<1>2. ASSUME NEW e \in Entities,
             \/ \E p \in Profiles : AddPrefab(e, p) \/ SetReplicationProfile(e, p)
             \/ \E x \in LocalIds : \/ \E v \in Values : SetComponent(e, x, v)
                                    \/ AddTag(e, x) \/ RemoveId(e, x)
      PROVE  ~EntersShard(f)
  BY <1>1, <1>2, EditFacts DEF IInv
<1>3. ASSUME NEW e \in Entities, BeginReplicatingEntity(e) PROVE ~EntersShard(f)
  BY <1>1, <1>3, BeginFacts
<1>4. ASSUME NEW e \in Entities, RemoveMarker(e) \/ DestroyEntity(e) PROVE ~EntersShard(f)
  <2>1. shardMap' = [shardMap EXCEPT ![e] = NoPlacement]
    BY <1>4, StopStepKeeps DEF StopReplicatingEntity
  <2> QED
    BY <2>1 DEF Placed, EntersShard, IInv, AuthorityTypeOK
<1> QED
  BY <1>2, <1>3, <1>4 DEF GameCode

-----------------------------------------------------------------------------
(* What has arrived is shown                                                 *)

\* The types of what the client knows of an identity.
LEMMA KnownTyped ==
    ASSUME ClientTyped, HistoryTyped, NEW id \in NetworkIds
    PROVE  /\ \A s \in 1 .. MaxShards : /\ received[s][id] \in Snapshot
                                        /\ received[s][id].stateRevision \in Nat
           /\ \A u \in Waiting(id) : /\ u.networkId = id /\ u.stateRevision \in Nat
                                     /\ u.bRemove \in BOOLEAN
           /\ Decided(id) \in Nat /\ Mapped(id) \in BOOLEAN
<1>1. \A s \in 1 .. MaxShards : /\ received[s][id] \in Snapshot
                                /\ received[s][id].stateRevision \in Nat
  BY RevisionFacts DEF HistoryTyped
<1>2. \A u \in Waiting(id) : /\ u.networkId = id /\ u.stateRevision \in Nat
                             /\ u.bRemove \in BOOLEAN
  BY PendingFacts DEF ClientTyped, Waiting
<1> QED
  BY <1>1, <1>2, DecidedTyped

\* A placed entity's identity and shard.
PlacedFits(e) ==
    Placed(e) =>
        /\ identity[e] \in NetworkIds /\ Replicates(e)
        /\ shardMap[e].shard \in 1 .. MaxShards /\ shardMap[e].shard <= Len(shards)
        /\ shards[shardMap[e].shard].published[identity[e]] = authoritySnapshots[identity[e]]

LEMMA PlacedTyped ==
    /\ CopiesInv => \A e \in Entities : PlacedFits(e)
    /\ CopiesInv' => \A e \in Entities : PlacedFits(e)'
<1> DEFINE AllFit == \A e \in Entities : PlacedFits(e)
<1>1. CopiesInv => AllFit
  BY PlacedFacts DEF CopiesInv, IInv, PlacedOnce, Placement, PlacedFits
<1> HIDE DEF AllFit
<1>2. CopiesInv' => AllFit'
  BY <1>1, PTL
<1> QED
  BY <1>1, <1>2 DEF AllFit

\* The authority moves on while the client stays as it is.
LEMMA ServerKeepsArrived ==
    ASSUME ArrivedInv, [AuthorityNext]_authorityVars, UNCHANGED <<clientVars, received>>,
           since' \in [Entities -> Nat],
           \A e \in Entities : Placed(e)' =>
              since'[e] = IF EntersShard(e) THEN authoritySnapshots'[identity[e]].stateRevision
                          ELSE since[e]
    PROVE  ArrivedInv'
<1>1. ClientTyped' /\ SameView /\ HistoryTyped'
  BY QuietSteps DEF ArrivedInv, HistoryTyped
<1>2. CopiesInv' /\ ProxiesCarryOne'
  BY NextCopiesInv, ShardsContinue DEF ArrivedInv, CopiesInv
<1>3. /\ \A id \in NetworkIds : LivesOn(id)
      /\ \A f \in Entities : Placed(f)' => Continues(f)
  BY EntitiesContinue DEF ArrivedInv
<1>4. \A id \in NetworkIds : /\ authoritySnapshots[id].stateRevision \in Nat
                             /\ authoritySnapshots'[id].stateRevision \in Nat
  BY <1>2, RevisionFacts DEF ArrivedInv, CopiesInv, IInv, AuthorityTypeOK
<1>5. \A id \in NetworkIds : \A r : KnownAtMost(id, r)' <=> KnownAtMost(id, r)
  <2> SUFFICES ASSUME NEW id \in NetworkIds, NEW r
               PROVE  KnownAtMost(id, r)' <=> KnownAtMost(id, r)
    OBVIOUS
  <2>1. Waiting(id)' = Waiting(id) /\ Decided(id)' = Decided(id) /\ received' = received
    BY <1>1 DEF SameView, SameState
  <2> QED
    BY <2>1 DEF KnownAtMost
<1>6. ASSUME NEW id \in NetworkIds, Living(id)'
      PROVE  /\ KnownAtMost(id, authoritySnapshots[id].stateRevision)
             /\ authoritySnapshots[id].stateRevision <= authoritySnapshots'[id].stateRevision
  BY <1>3, <1>6 DEF LivesOn, ArrivedInv, KnownWasPublished
<1>7. KnownWasPublished'
  <2> SUFFICES ASSUME NEW id \in NetworkIds, Living(id)'
               PROVE  KnownAtMost(id, authoritySnapshots'[id].stateRevision)
    BY <1>5 DEF KnownWasPublished
  <2>1. /\ \A s \in 1 .. MaxShards : received[s][id].stateRevision \in Nat
        /\ \A u \in Waiting(id) : u.stateRevision \in Nat
        /\ Decided(id) \in Nat
    BY KnownTyped DEF ArrivedInv
  <2> QED
    BY <1>4, <1>6, <2>1 DEF KnownAtMost
<1>8. ASSUME NEW e \in Entities, Placed(e)' PROVE StaysSound(e)'
  <2>1. Continues(e) /\ identity'[e] = identity[e]
    BY <1>3, <1>8 DEF Continues
  <2>2. /\ identity'[e] \in NetworkIds /\ Replicates(e)'
        /\ shardMap'[e].shard \in 1 .. MaxShards /\ shardMap'[e].shard <= Len(shards')
    BY <1>2, <1>8, PlacedTyped DEF PlacedFits
  <2>3. PICK id \in NetworkIds : id = identity[e]
    BY <2>1, <2>2
  <2>4. PICK s \in 1 .. MaxShards : s = shardMap'[e].shard
    BY <2>2
  <2>5. Living(id)'
    BY <2>1, <2>3 DEF Living
  <2>6. PICK old, new : /\ old = authoritySnapshots[id].stateRevision
                        /\ new = authoritySnapshots'[id].stateRevision
    OBVIOUS
  <2>7. /\ old \in Nat /\ new \in Nat /\ old <= new /\ KnownAtMost(id, old)
    BY <1>4, <1>6, <2>5, <2>6
  <2>8. /\ \A t \in 1 .. MaxShards : received[t][id].stateRevision \in Nat
        /\ \A u \in Waiting(id) : u.stateRevision \in Nat
        /\ Decided(id) \in Nat
    BY KnownTyped DEF ArrivedInv
  <2>9. Waiting(id)' = Waiting(id) /\ Decided(id)' = Decided(id) /\ (Mapped(id)' <=> Mapped(id))
    BY <1>1 DEF SameView, SameState
  <2>10. CASE EntersShard(e)
    <3>1. since'[e] = new /\ new > old
      BY <1>8, <2>1, <2>3, <2>6, <2>10 DEF Continues
    <3>2. \A t \in 1 .. MaxShards : received'[t][id].stateRevision < new
      BY <2>7, <2>8, <3>1 DEF KnownAtMost
    <3>3. \A t \in 1 .. Len(shards') : t # s => shards'[t].published[id].stateRevision < new
      BY <1>2, <1>8, <2>1, <2>2, <2>3, <2>4, <2>6 DEF CopiesInv, CopiesBounded
    <3>4. Len(shards') \in Nat
      BY <1>2, LenProperties DEF CopiesInv, IInv, AuthorityTypeOK
    <3>5. OthersOlder(e)'
      BY <2>1, <2>3, <2>4, <2>6, <2>7, <3>1, <3>2, <3>3, <3>4 DEF OthersOlder
    <3>6. RemovalsBefore(id, new)'
      BY <2>6, <2>7, <2>8, <2>9, <3>1 DEF KnownAtMost, RemovalsBefore
    <3>7. RemovalsOlder(e)'
      BY <2>1, <2>3, <3>1, <3>6 DEF RemovalsOlder
    <3>8. received'[s][id].stateRevision \in Nat /\ ~(received'[s][id].stateRevision >= new)
      BY <2>7, <2>8, <3>2
    <3>9. CopyCounts(e)'
      BY <2>1, <2>3, <2>4, <3>1, <3>8 DEF CopyCounts
    <3> QED
      BY <3>5, <3>7, <3>9 DEF StaysSound
  <2>11. CASE ~EntersShard(e)
    <3>1. /\ since'[e] = since[e] /\ Placed(e) /\ shardMap[e].shard = s
          /\ \A t \in 1 .. Len(shards') : t # s =>
                \/ shards'[t].published[id] = NoSnapshot
                \/ /\ t \in 1 .. Len(shards)
                   /\ shards'[t].published[id] = shards[t].published[id]
      BY <1>8, <2>1, <2>3, <2>4, <2>11 DEF Continues
    <3>2. StaysSound(e) /\ s \in 1 .. Len(shards) /\ since[e] \in Nat
      BY <3>1, PlacedFacts DEF ArrivedInv, CopiesInv, HistoryTyped
    <3>3. Len(shards) \in Nat /\ Len(shards') \in Nat
      BY <1>2, LenProperties DEF ArrivedInv, CopiesInv, IInv, AuthorityTypeOK
    <3>4. OthersOlder(e)'
      <4>1. /\ 0 < since[e] /\ since[e] <= old
            /\ \A t \in 1 .. MaxShards : t # s => received[t][id].stateRevision < since[e]
            /\ \A t \in 1 .. MaxShards : t # s /\ t <= Len(shards) =>
                  shards[t].published[id].stateRevision < since[e]
        BY <2>3, <2>6, <3>1, <3>2 DEF StaysSound, OthersOlder
      <4>2. since[e] <= new
        BY <2>7, <3>2, <4>1
      <4>3. ASSUME NEW t \in 1 .. MaxShards, t # s, t <= Len(shards')
            PROVE  shards'[t].published[id].stateRevision < since[e]
        <5>1. t \in 1 .. Len(shards')
          BY <3>3, <4>3
        <5>2. CASE shards'[t].published[id] = NoSnapshot
          BY <4>1, <5>2, RevisionFacts
        <5>3. CASE /\ t \in 1 .. Len(shards)
                   /\ shards'[t].published[id] = shards[t].published[id]
          <6>1. t <= Len(shards)
            BY <3>3, <5>3
          <6> QED
            BY <4>1, <4>3, <5>3, <6>1
        <5> QED
          BY <3>1, <4>3, <5>1, <5>2, <5>3
      <4> QED
        BY <2>1, <2>3, <2>4, <2>6, <3>1, <4>1, <4>2, <4>3 DEF OthersOlder
    <3>5. RemovalsOlder(e)'
      <4>1. shards'[s].replicating => shards[s].replicating
        BY <3>2, ShardsContinue DEF ArrivedInv, CopiesInv
      <4>2. \A r : RemovalsBefore(id, r)' <=> RemovalsBefore(id, r)
        BY <2>9 DEF RemovalsBefore
      <4>3. shards[s].replicating \/ received[s][id] # NoSnapshot
               => RemovalsBefore(id, since[e])
        BY <2>3, <3>1, <3>2 DEF StaysSound, RemovalsOlder
      <4> QED
        BY <2>1, <2>3, <2>4, <3>1, <4>1, <4>2, <4>3 DEF RemovalsOlder
    <3>6. CopyCounts(e)'
      <4>1. \A r : ShownOrWaits(id, r)' <=> ShownOrWaits(id, r)
        BY <2>9 DEF ShownOrWaits
      <4>2. received[s][id].stateRevision >= since[e]
               => ShownOrWaits(id, received[s][id].stateRevision)
        BY <2>3, <3>1, <3>2 DEF StaysSound, CopyCounts
      <4>3. PICK r : r = received[s][id].stateRevision
        OBVIOUS
      <4>4. r >= since[e] => ShownOrWaits(id, r)'
        BY <4>1, <4>2, <4>3
      <4> QED
        BY <2>1, <2>3, <2>4, <3>1, <4>3, <4>4 DEF CopyCounts, ShownOrWaits
    <3> QED
      BY <3>4, <3>5, <3>6 DEF StaysSound
  <2> QED
    BY <2>10, <2>11
<1> QED
  BY <1>1, <1>2, <1>7, <1>8 DEF ArrivedInv

\* The client's part of what holds of a placed entity, by its identity, shard
\* and the revision it entered the shard with.
ClientSound(id, s, r) ==
    /\ \A t \in 1 .. MaxShards : t # s => received[t][id].stateRevision < r
    /\ shards[s].replicating \/ received[s][id] # NoSnapshot => RemovalsBefore(id, r)
    /\ received[s][id].stateRevision >= r => ShownOrWaits(id, received[s][id].stateRevision)

\* An entity is in a shard since it published a revision.
Entered(e, id, s, r) ==
    /\ Placed(e) /\ id = identity[e] /\ s = shardMap[e].shard /\ r = since[e]
    /\ s <= Len(shards) /\ 0 < r /\ r <= authoritySnapshots[id].stateRevision
    /\ shards[s].published[id] = authoritySnapshots[id]
    /\ \A t \in 1 .. MaxShards : t # s /\ t <= Len(shards) =>
          shards[t].published[id].stateRevision < r
    /\ KnownAtMost(id, authoritySnapshots[id].stateRevision)

\* While the authority does not step, only the client's part can change.
LEMMA ClientSide ==
    ASSUME ArrivedInv, UNCHANGED serverVars, ClientTyped',
           received' \in [1 .. MaxShards -> [NetworkIds -> Snapshot]],
           \A id \in NetworkIds : \A r \in Nat :
              Living(id) /\ r = authoritySnapshots[id].stateRevision /\ KnownAtMost(id, r)
                 => KnownAtMost(id, r)',
           \A e \in Entities, id \in NetworkIds, s \in 1 .. MaxShards : \A r \in Nat :
              Entered(e, id, s, r) /\ ClientSound(id, s, r) => ClientSound(id, s, r)'
    PROVE  ArrivedInv'
<1>1. /\ shards' = shards /\ shardMap' = shardMap /\ identity' = identity /\ lives' = lives
      /\ authoritySnapshots' = authoritySnapshots /\ since' = since
      /\ UNCHANGED authorityVars
  BY DEF serverVars, authorityVars, publishedVars, entityStateVars
<1>2. CopiesInv' /\ ProxiesCarryOne'
  BY <1>1, NextCopiesInv, ShardsContinue DEF ArrivedInv, CopiesInv
<1>3. HistoryTyped'
  BY <1>1 DEF ArrivedInv, HistoryTyped
<1>4. \A id \in NetworkIds : authoritySnapshots[id].stateRevision \in Nat
  BY RevisionFacts DEF ArrivedInv, CopiesInv, IInv, AuthorityTypeOK
<1>5. KnownWasPublished'
  <2> SUFFICES ASSUME NEW id \in NetworkIds, Living(id)'
               PROVE  KnownAtMost(id, authoritySnapshots[id].stateRevision)'
    BY DEF KnownWasPublished
  <2>1. PICK r \in Nat : r = authoritySnapshots[id].stateRevision
    BY <1>4
  <2>2. Living(id) /\ KnownAtMost(id, r)
    BY <1>1, <2>1 DEF Living, ArrivedInv, KnownWasPublished
  <2>3. KnownAtMost(id, r)'
    BY <2>1, <2>2
  <2> QED
    BY <1>1, <2>1, <2>3 DEF KnownAtMost
<1>6. ASSUME NEW e \in Entities, Placed(e)' PROVE StaysSound(e)'
  <2>1. Placed(e) /\ StaysSound(e)
    BY <1>1, <1>6 DEF Placed, ArrivedInv
  <2>2. PICK id \in NetworkIds, s \in 1 .. MaxShards :
           /\ id = identity[e] /\ s = shardMap[e].shard /\ s <= Len(shards)
           /\ shards[s].published[id] = authoritySnapshots[id]
    BY <2>1, PlacedTyped DEF ArrivedInv, PlacedFits
  <2>3. PICK r \in Nat : r = since[e]
    BY DEF ArrivedInv, HistoryTyped
  <2>4. /\ 0 < r /\ r <= authoritySnapshots[id].stateRevision
        /\ \A t \in 1 .. MaxShards : t # s =>
              /\ received[t][id].stateRevision < r
              /\ t <= Len(shards) => shards[t].published[id].stateRevision < r
    BY <2>1, <2>2, <2>3 DEF StaysSound, OthersOlder
  <2>5. ClientSound(id, s, r)
    BY <2>1, <2>2, <2>3, <2>4 DEF StaysSound, RemovalsOlder, CopyCounts, ClientSound
  <2>6. KnownAtMost(id, authoritySnapshots[id].stateRevision)
    BY <2>2 DEF ArrivedInv, KnownWasPublished, Living
  <2>7. ClientSound(id, s, r)'
    BY <2>1, <2>2, <2>3, <2>4, <2>5, <2>6 DEF Entered
  <2>8. OthersOlder(e)'
    BY <1>1, <2>2, <2>3, <2>4, <2>7 DEF OthersOlder, ClientSound
  <2>9. RemovalsOlder(e)'
    BY <1>1, <2>2, <2>3, <2>7 DEF RemovalsOlder, ClientSound, RemovalsBefore
  <2>10. CopyCounts(e)'
    BY <1>1, <2>2, <2>3, <2>7 DEF CopyCounts, ClientSound, ShownOrWaits
  <2> QED
    BY <2>8, <2>9, <2>10 DEF StaysSound
<1> QED
  BY <1>2, <1>3, <1>5, <1>6 DEF ArrivedInv

\* Steps that change nothing the client knows.
LEMMA QuietKeepsArrived ==
    ASSUME ArrivedInv, UNCHANGED <<serverVars, received>>, ClientTyped', SameView
    PROVE  ArrivedInv'
<1>1. ASSUME NEW id \in NetworkIds
      PROVE  /\ \A r : KnownAtMost(id, r) => KnownAtMost(id, r)'
             /\ \A s, r : ClientSound(id, s, r) => ClientSound(id, s, r)'
  <2>1. /\ Waiting(id)' = Waiting(id) /\ Decided(id)' = Decided(id) /\ (Mapped(id)' <=> Mapped(id))
        /\ received' = received /\ shards' = shards
    BY DEF SameView, SameState, serverVars, authorityVars, publishedVars
  <2> QED
    BY <2>1 DEF KnownAtMost, ClientSound, RemovalsBefore, ShownOrWaits
<1>2. received' \in [1 .. MaxShards -> [NetworkIds -> Snapshot]]
  BY DEF ArrivedInv, HistoryTyped
<1>3. \A id \in NetworkIds : \A r \in Nat :
         Living(id) /\ r = authoritySnapshots[id].stateRevision /\ KnownAtMost(id, r)
            => KnownAtMost(id, r)'
  BY <1>1
<1>4. \A e \in Entities, id \in NetworkIds, s \in 1 .. MaxShards : \A r \in Nat :
         Entered(e, id, s, r) /\ ClientSound(id, s, r) => ClientSound(id, s, r)'
  BY <1>1
<1> QED
  BY <1>2, <1>3, <1>4, ClientSide

\* An update that is applied was waiting: what it decides was known, and it
\* does not end what counts.
LEMMA ApplyKeepsArrived ==
    ASSUME ArrivedInv, UNCHANGED <<serverVars, received>>, Client!ApplyUpdate
    PROVE  ArrivedInv'
<1>1. PICK u \in QueuedUpdate :
         /\ ClientTyped' /\ UNCHANGED updateQueue
         /\ TakesEffect(u)
         /\ \A id \in NetworkIds : id # u.networkId => SameState(id)
         /\ \A id : PendingIn(updates, id) = PendingIn(updates', id) \cup
                       (IF u.networkId = id THEN {u} ELSE {})
  BY ApplyFacts DEF ArrivedInv
<1>2. \A id : Waiting(id) = Waiting(id)' \cup (IF u.networkId = id THEN {u} ELSE {})
  BY <1>1, SMTT(20) DEF Waiting, PendingIn
<1>3. u.networkId \in NetworkIds /\ u.stateRevision \in Nat /\ u.bRemove \in BOOLEAN
  BY DEF QueuedUpdate
<1>4. /\ received' = received /\ shards' = shards
  BY DEF serverVars, authorityVars, publishedVars
<1>5. ASSUME NEW id \in NetworkIds, NEW r \in Nat, KnownAtMost(id, r)
      PROVE  KnownAtMost(id, r)'
  BY <1>1, <1>2, <1>4, <1>5 DEF KnownAtMost, TakesEffect, SameState
<1>6. ASSUME NEW id \in NetworkIds, NEW s \in 1 .. MaxShards, NEW r \in Nat,
             ClientSound(id, s, r), 0 < r
      PROVE  ClientSound(id, s, r)'
  <2>1. /\ Decided(id) \in Nat /\ Mapped(id) \in BOOLEAN
        /\ received[s][id].stateRevision \in Nat
        /\ \A p \in Waiting(id) : p.stateRevision \in Nat
    BY KnownTyped DEF ArrivedInv
  <2>2. RemovalsBefore(id, r) => RemovalsBefore(id, r)'
    <3> SUFFICES ASSUME RemovalsBefore(id, r) PROVE RemovalsBefore(id, r)'
      OBVIOUS
    <3>1. CASE id = u.networkId
      BY <1>1, <1>2, <3>1 DEF RemovalsBefore, TakesEffect, SameState
    <3>2. CASE id # u.networkId
      BY <1>1, <1>2, <3>2 DEF RemovalsBefore, SameState
    <3> QED
      BY <3>1, <3>2
  <2>3. ASSUME NEW q \in Nat, q >= r, RemovalsBefore(id, r), ShownOrWaits(id, q)
        PROVE  ShownOrWaits(id, q)'
    <3>1. CASE id # u.networkId
      BY <1>1, <1>2, <2>3, <3>1 DEF ShownOrWaits, SameState
    <3>2. CASE id = u.networkId
      <4>1. u \in Waiting(id) /\ (u.bRemove => u.stateRevision < r)
            /\ (~Mapped(id) => Decided(id) < r)
        BY <1>2, <2>3, <3>2 DEF RemovalsBefore
      <4>2. CASE Mapped(id) /\ Decided(id) >= q
        <5>1. u.bRemove => ~(u.stateRevision >= Decided(id))
          BY <1>3, <2>1, <2>3, <4>1, <4>2
        <5>2. Mapped(id)' /\ Decided(id)' >= q
          BY <1>1, <1>3, <2>1, <3>2, <4>2, <5>1 DEF TakesEffect, SameState
        <5> QED
          BY <5>2 DEF ShownOrWaits
      <4>3. ASSUME NEW p \in Waiting(id), ~p.bRemove, p.stateRevision >= q
            PROVE  ShownOrWaits(id, q)'
        <5>1. CASE p # u
          BY <1>2, <3>2, <4>3, <5>1 DEF ShownOrWaits
        <5>2. CASE p = u
          <6>1. Mapped(id)' /\ Decided(id)' >= q
            <7>1. CASE u.stateRevision > Decided(id)
              BY <1>1, <3>2, <4>3, <5>2, <7>1 DEF TakesEffect
            <7>2. CASE ~(u.stateRevision > Decided(id))
              <8>1. Decided(id) >= q /\ Mapped(id)
                BY <1>3, <2>1, <2>3, <4>1, <4>3, <5>2, <7>2
              <8>2. SameState(id)
                BY <1>1, <3>2, <4>3, <5>2, <7>2 DEF TakesEffect
              <8> QED
                BY <8>1, <8>2 DEF SameState
            <7> QED
              BY <7>1, <7>2
          <6> QED
            BY <6>1 DEF ShownOrWaits
        <5> QED
          BY <5>1, <5>2
      <4> QED
        BY <2>3, <4>2, <4>3 DEF ShownOrWaits
    <3> QED
      BY <3>1, <3>2
  <2>4. received[s][id].stateRevision >= r => received[s][id] # NoSnapshot
    BY <1>6, RevisionFacts
  <2>5. PICK q \in Nat : q = received[s][id].stateRevision
    BY <2>1
  <2>6. q >= r => ShownOrWaits(id, q)'
    BY <1>6, <2>3, <2>4, <2>5 DEF ClientSound
  <2> QED
    BY <1>4, <1>6, <2>2, <2>5, <2>6 DEF ClientSound, ShownOrWaits
<1>7. received' \in [1 .. MaxShards -> [NetworkIds -> Snapshot]]
  BY <1>4 DEF ArrivedInv, HistoryTyped
<1>8. UNCHANGED serverVars /\ ClientTyped'
  BY <1>1
<1>9. \A id \in NetworkIds : \A r \in Nat :
         Living(id) /\ r = authoritySnapshots[id].stateRevision /\ KnownAtMost(id, r)
            => KnownAtMost(id, r)'
  BY <1>5
<1>10. \A e \in Entities, id \in NetworkIds, s \in 1 .. MaxShards : \A r \in Nat :
         Entered(e, id, s, r) /\ ClientSound(id, s, r) => ClientSound(id, s, r)'
  BY <1>6 DEF Entered
<1> QED
  BY <1>7, <1>8, <1>9, <1>10, ClientSide

\* The copy of a shard after a delivery: the snapshot that arrived, and perhaps
\* none of what the shard had before.
Brings(s, id) ==
    /\ received' \in [1 .. MaxShards -> [NetworkIds -> Snapshot]]
    /\ received'[s][id] = shards[s].published[id]
    /\ \A t \in 1 .. MaxShards, j \in NetworkIds : t # s \/ j # id =>
          \/ received'[t][j] = received[t][j]
          \/ t = s /\ ~IsTable(shards[s]) /\ received'[t][j] = NoSnapshot

\* A snapshot arrives: a shard that replicates has it, and it is enqueued.
LEMMA ArrivesFacts ==
    ASSUME IInv, ProxiesCarryOne, HistoryTyped, NEW s \in 1 .. Len(shards), NEW id \in NetworkIds,
           DeliverItem(s, id) \/ DeliverProxy(s, id)
    PROVE  /\ UNCHANGED serverVars /\ s \in 1 .. MaxShards
           /\ shards[s].replicating
           /\ shards[s].published[id] # NoSnapshot /\ shards[s].published[id] \in Snapshot
           /\ Client!ReceiveSnapshot(id, shards[s].published[id])
           /\ Brings(s, id)
<1>1. /\ shards[s] \in Shard /\ s <= Len(shards) /\ s \in 1 .. MaxShards
      /\ shards[s].published \in [NetworkIds -> Snapshot]
      /\ received \in [1 .. MaxShards -> [NetworkIds -> Snapshot]]
  <2>1. shards \in Seq(Shard) /\ Len(shards) \in Nat /\ Len(shards) <= MaxShards
    BY LenProperties DEF IInv, AuthorityTypeOK
  <2>2. shards[s] \in Shard /\ s <= Len(shards) /\ s \in 1 .. MaxShards
    BY <2>1, ElementOfSeq, AuthorityAssumption
  <2> QED
    BY <2>2, ShardFacts DEF HistoryTyped
<1>2. Arrives(s, id)
  BY DEF DeliverItem, DeliverProxy
<1>3. Sent(s)[id] # NoSnapshot
  BY <1>2 DEF Arrives
<1>4. shards[s].replicating /\ Sent(s) = shards[s].published
  BY <1>1, <1>3 DEF Sent, Nothing
<1>5. /\ Client!ReceiveSnapshot(id, shards[s].published[id]) /\ UNCHANGED serverVars
  BY <1>2, <1>4 DEF Arrives
<1>6. Brings(s, id)
  <2>1. CASE DeliverItem(s, id)
    <3>1. received' = [received EXCEPT ![s][id] = shards[s].published[id]]
      BY <1>4, <2>1 DEF DeliverItem
    <3>2. shards[s].published[id] \in Snapshot
      BY <1>1
    <3> QED
      BY <1>1, <3>1, <3>2 DEF Brings
  <2>2. CASE DeliverProxy(s, id)
    <3>1. received' = [received EXCEPT ![s] = shards[s].published] /\ ~IsTable(shards[s])
      BY <1>4, <2>2 DEF DeliverProxy
    <3>2. \A j \in NetworkIds : j # id => shards[s].published[j] = NoSnapshot
      BY <1>3, <1>4, <3>1 DEF ProxiesCarryOne, CarriesOne
    <3> QED
      BY <1>1, <3>1, <3>2 DEF Brings
  <2> QED
    BY <2>1, <2>2
<1> QED
  BY <1>1, <1>3, <1>4, <1>5, <1>6

\* A removal: the shard's copy is forgotten, and its end enqueued.
LEMMA LeavesFacts ==
    ASSUME IInv, HistoryTyped, NEW s \in 1 .. Len(shards), NEW id \in NetworkIds,
           DeliverItemRemoval(s, id) \/ DeliverDetach(s, id)
    PROVE  /\ UNCHANGED serverVars /\ s \in 1 .. MaxShards
           /\ ~shards[s].replicating \/ (IsTable(shards[s]) /\ shards[s].published[id] = NoSnapshot)
           /\ received[s][id] # NoSnapshot /\ received[s][id].stateRevision \in Nat
           /\ Client!ReceiveRemoval(id, received[s][id].stateRevision)
           /\ received' \in [1 .. MaxShards -> [NetworkIds -> Snapshot]]
           /\ received'[s][id] = NoSnapshot
           /\ \A t \in 1 .. MaxShards, j \in NetworkIds : t # s \/ j # id =>
                 received'[t][j] = received[t][j]
<1>1. /\ s <= Len(shards) /\ s \in 1 .. MaxShards
      /\ received \in [1 .. MaxShards -> [NetworkIds -> Snapshot]]
  <2>1. Len(shards) \in Nat /\ Len(shards) <= MaxShards
    BY LenProperties DEF IInv, AuthorityTypeOK
  <2>2. s <= Len(shards) /\ s \in 1 .. MaxShards
    BY <2>1, AuthorityAssumption
  <2> QED
    BY <2>2 DEF HistoryTyped
<1>2. Leaves(s, id)
  BY DEF DeliverItemRemoval, DeliverDetach
<1>3. /\ received[s][id] # NoSnapshot
      /\ received' = [received EXCEPT ![s][id] = NoSnapshot]
      /\ Client!ReceiveRemoval(id, received[s][id].stateRevision)
      /\ UNCHANGED serverVars
  BY <1>2 DEF Leaves, RemovalRevision
<1>4. ~shards[s].replicating \/ (IsTable(shards[s]) /\ shards[s].published[id] = NoSnapshot)
  BY <1>1 DEF DeliverItemRemoval, DeliverDetach, Sent
<1> QED
  BY <1>1, <1>3, <1>4, NoSnapshotTyped, RevisionFacts

\* A shard has nothing newer of an identity that is not over than the
\* authority's latest snapshot.
LEMMA PublishedBounded ==
    ASSUME CopiesInv, NEW s \in 1 .. Len(shards), NEW id \in NetworkIds, Living(id),
           shards[s].published[id] # NoSnapshot
    PROVE  shards[s].published[id].stateRevision <= authoritySnapshots[id].stateRevision
<1>1. ~(id[2] > lives[id[1]])
  BY DEF CopiesInv, UnbornUnpublished
<1>2. PICK e \in Entities : identity[e] = id
  BY <1>1 DEF Living
<1>3. Replicates(e)
  BY <1>2, AuthorityAssumption DEF Replicates
<1> QED
  BY <1>2, <1>3 DEF CopiesInv, CopiesBounded

\* What a delivered snapshot or removal makes of what waits, for an identity
\* whose newer snapshots are to be kept.
LEMMA EnqueueKeepsShown ==
    ASSUME ClientTyped, HistoryTyped, NEW u \in QueuedUpdate, Enqueued(u),
           NEW id \in NetworkIds, NEW r \in Nat,
           id = u.networkId /\ u.bRemove => u.stateRevision < r
    PROVE  /\ RemovalsBefore(id, r) => RemovalsBefore(id, r)'
           /\ \A q \in Nat : q >= r /\ ShownOrWaits(id, q) => ShownOrWaits(id, q)'
<1>1. SameState(id) /\ (id # u.networkId => Waiting(id)' = Waiting(id))
  BY DEF Enqueued
<1>2. RemovalsBefore(id, r) => RemovalsBefore(id, r)'
  <2> SUFFICES ASSUME RemovalsBefore(id, r) PROVE RemovalsBefore(id, r)'
    OBVIOUS
  <2>1. \A p \in Waiting(id)' : p \in Waiting(id) \/ (p = u /\ id = u.networkId)
    BY <1>1 DEF Enqueued
  <2> QED
    BY <1>1, <2>1 DEF RemovalsBefore, SameState
<1>3. ASSUME NEW q \in Nat, q >= r, ShownOrWaits(id, q) PROVE ShownOrWaits(id, q)'
  <2>1. CASE Mapped(id) /\ Decided(id) >= q
    BY <1>1, <2>1 DEF ShownOrWaits, SameState
  <2>2. ASSUME NEW p \in Waiting(id), ~p.bRemove, p.stateRevision >= q
        PROVE  ShownOrWaits(id, q)'
    <3>1. CASE p \in Waiting(id)'
      BY <2>2, <3>1 DEF ShownOrWaits
    <3>2. CASE p \notin Waiting(id)'
      <4>1. id = u.networkId /\ u \in Waiting(id)' /\ p.stateRevision <= u.stateRevision
        BY <1>1, <2>2, <3>2 DEF Enqueued
      <4>2. p.stateRevision \in Nat /\ u.stateRevision \in Nat
        BY <2>2, KnownTyped DEF QueuedUpdate
      <4>3. u.stateRevision >= q
        BY <2>2, <4>1, <4>2
      <4>4. ~u.bRemove
        BY <1>3, <4>1, <4>2, <4>3
      <4> QED
        BY <4>1, <4>3, <4>4 DEF ShownOrWaits
    <3> QED
      BY <3>1, <3>2
  <2> QED
    BY <1>3, <2>1, <2>2 DEF ShownOrWaits
<1> QED
  BY <1>2, <1>3

\* What a delivery enqueues.
LEMMA DeliveryEnqueues ==
    ASSUME ClientTyped, NEW id \in NetworkIds
    PROVE  /\ \A snapshot \in Snapshot : Client!ReceiveSnapshot(id, snapshot) =>
                 /\ SnapshotUpdate(id, snapshot) \in QueuedUpdate
                 /\ ClientTyped' /\ Enqueued(SnapshotUpdate(id, snapshot))
           /\ \A revision \in Nat : Client!ReceiveRemoval(id, revision) =>
                 /\ RemovalUpdate(id, revision) \in QueuedUpdate
                 /\ ClientTyped' /\ Enqueued(RemovalUpdate(id, revision))
<1>1. ASSUME NEW snapshot \in Snapshot, Client!ReceiveSnapshot(id, snapshot)
      PROVE  /\ SnapshotUpdate(id, snapshot) \in QueuedUpdate
             /\ ClientTyped' /\ Enqueued(SnapshotUpdate(id, snapshot))
  <2>1. PICK u : u = SnapshotUpdate(id, snapshot)
    OBVIOUS
  <2>2. u \in QueuedUpdate /\ u.snapshot.stateRevision = u.stateRevision
    BY <2>1, RevisionFacts DEF SnapshotUpdate, QueuedUpdate
  <2>3. /\ updateQueue' = Enqueue(updateQueue, u)
        /\ UNCHANGED <<applying, updates, Client!entityVars>>
    BY <1>1, <2>1, ClientQueue DEF Client!ReceiveSnapshot
  <2> QED
    BY <2>1, <2>2, <2>3, EnqueueStep
<1>2. ASSUME NEW revision \in Nat, Client!ReceiveRemoval(id, revision)
      PROVE  /\ RemovalUpdate(id, revision) \in QueuedUpdate
             /\ ClientTyped' /\ Enqueued(RemovalUpdate(id, revision))
  <2>1. PICK u : u = RemovalUpdate(id, revision)
    OBVIOUS
  <2>2. u \in QueuedUpdate /\ u.bRemove
    BY <2>1, NoSnapshotTyped DEF RemovalUpdate, QueuedUpdate
  <2>3. /\ updateQueue' = Enqueue(updateQueue, u)
        /\ UNCHANGED <<applying, updates, Client!entityVars>>
    BY <1>2, <2>1, ClientQueue DEF Client!ReceiveRemoval
  <2> QED
    BY <2>1, <2>2, <2>3, EnqueueStep
<1> QED
  BY <1>1, <1>2

\* A snapshot that arrives counts from then on: it waits, and nothing newer of
\* the entity is known.
LEMMA ArrivesKeepsArrived ==
    ASSUME ArrivedInv, NEW s \in 1 .. Len(shards), NEW id \in NetworkIds,
           DeliverItem(s, id) \/ DeliverProxy(s, id)
    PROVE  ArrivedInv'
<1>1. /\ UNCHANGED serverVars /\ s \in 1 .. MaxShards
      /\ shards[s].replicating
      /\ shards[s].published[id] # NoSnapshot /\ shards[s].published[id] \in Snapshot
      /\ Client!ReceiveSnapshot(id, shards[s].published[id])
      /\ Brings(s, id)
  BY ArrivesFacts DEF ArrivedInv, CopiesInv
<1>2. PICK snapshot \in Snapshot : snapshot = shards[s].published[id]
  BY <1>1
<1>3. PICK u \in QueuedUpdate : u = SnapshotUpdate(id, snapshot)
  BY <1>1, <1>2, DeliveryEnqueues DEF ArrivedInv
<1>4. ClientTyped' /\ Enqueued(u)
  BY <1>1, <1>2, <1>3, DeliveryEnqueues DEF ArrivedInv
<1>5. /\ u.networkId = id /\ ~u.bRemove /\ u.stateRevision = snapshot.stateRevision
      /\ snapshot.stateRevision \in Nat
  BY <1>3, RevisionFacts DEF SnapshotUpdate
<1>6. /\ received' \in [1 .. MaxShards -> [NetworkIds -> Snapshot]]
      /\ shards' = shards /\ received'[s][id] = snapshot
      /\ \A t \in 1 .. MaxShards, j \in NetworkIds : t # s \/ j # id =>
            received'[t][j] = received[t][j] \/ received'[t][j] = NoSnapshot
  BY <1>1, <1>2 DEF Brings, serverVars, authorityVars, publishedVars
<1>7. ASSUME NEW j \in NetworkIds, NEW r \in Nat, Living(j),
             r = authoritySnapshots[j].stateRevision, KnownAtMost(j, r)
      PROVE  KnownAtMost(j, r)'
  <2>1. j = id => snapshot.stateRevision <= r
    BY <1>1, <1>2, <1>7, PublishedBounded DEF ArrivedInv
  <2>2. \A t \in 1 .. MaxShards : received'[t][j].stateRevision <= r
    BY <1>6, <1>7, <2>1, RevisionFacts DEF KnownAtMost
  <2>3. \A p \in Waiting(j)' : p \in Waiting(j) \/ (p = u /\ j = id)
    BY <1>4, <1>5 DEF Enqueued
  <2>4. Decided(j)' = Decided(j)
    BY <1>4 DEF Enqueued, SameState
  <2> QED
    BY <1>5, <1>7, <2>1, <2>2, <2>3, <2>4 DEF KnownAtMost
<1>8. ASSUME NEW e \in Entities, NEW j \in NetworkIds, NEW o \in 1 .. MaxShards, NEW r \in Nat,
             Entered(e, j, o, r), ClientSound(j, o, r)
      PROVE  ClientSound(j, o, r)'
  <2>1. /\ RemovalsBefore(j, r) => RemovalsBefore(j, r)'
        /\ \A q \in Nat : q >= r /\ ShownOrWaits(j, q) => ShownOrWaits(j, q)'
    BY <1>4, <1>5, EnqueueKeepsShown DEF ArrivedInv
  <2>2. /\ 0 < r /\ NoSnapshot.stateRevision = 0
        /\ o = s /\ j = id => snapshot = authoritySnapshots[id]
        /\ o # s /\ j = id => snapshot.stateRevision < r
    <3>1. s <= Len(shards)
      BY LenProperties DEF ArrivedInv, CopiesInv, IInv, AuthorityTypeOK
    <3> QED
      BY <1>1, <1>2, <1>8, <3>1, RevisionFacts DEF Entered
  <2>3. \A t \in 1 .. MaxShards : t # o => received'[t][j].stateRevision < r
    BY <1>6, <1>8, <2>2 DEF ClientSound
  <2>4. shards'[o].replicating \/ received'[o][j] # NoSnapshot => RemovalsBefore(j, r)'
    BY <1>1, <1>6, <1>8, <2>1 DEF ClientSound
  <2>5. PICK q \in Nat : q = received'[o][j].stateRevision
    BY <1>6, RevisionFacts
  <2>6. ASSUME q >= r PROVE ShownOrWaits(j, q)'
    <3>1. CASE o = s /\ j = id
      <4>1. q = u.stateRevision /\ \A p \in Waiting(id) : ~(p.stateRevision > q)
        <5>1. q = authoritySnapshots[id].stateRevision /\ q = u.stateRevision
          BY <1>5, <1>6, <2>2, <2>5, <3>1
        <5>2. \A p \in Waiting(id) : p.stateRevision <= q /\ p.stateRevision \in Nat
          BY <1>8, <3>1, <5>1, KnownTyped DEF Entered, KnownAtMost, ArrivedInv
        <5> QED
          BY <5>1, <5>2
      <4>2. u \in Waiting(id)'
        BY <1>4, <1>5, <4>1 DEF Enqueued
      <4> QED
        BY <1>5, <3>1, <4>1, <4>2 DEF ShownOrWaits
    <3>2. CASE ~(o = s /\ j = id)
      <4>1. received'[o][j] = received[o][j]
        BY <1>6, <2>2, <2>5, <2>6, <3>2
      <4> QED
        BY <1>8, <2>1, <2>5, <2>6, <4>1 DEF ClientSound
    <3> QED
      BY <3>1, <3>2
  <2> QED
    BY <2>3, <2>4, <2>5, <2>6 DEF ClientSound, ShownOrWaits
<1>9. UNCHANGED serverVars /\ ClientTyped'
  BY <1>1, <1>4
<1>10. /\ \A j \in NetworkIds : \A r \in Nat :
             Living(j) /\ r = authoritySnapshots[j].stateRevision /\ KnownAtMost(j, r)
                => KnownAtMost(j, r)'
       /\ \A e \in Entities, j \in NetworkIds, o \in 1 .. MaxShards : \A r \in Nat :
             Entered(e, j, o, r) /\ ClientSound(j, o, r) => ClientSound(j, o, r)'
  BY <1>7, <1>8
<1> QED
  BY <1>6, <1>9, <1>10, ClientSide

\* A removal that arrives is older than the entity's stay in another shard; and
\* a shard an entity is in removes it only when the shard has been torn down.
LEMMA LeavesKeepsArrived ==
    ASSUME ArrivedInv, NEW s \in 1 .. Len(shards), NEW id \in NetworkIds,
           DeliverItemRemoval(s, id) \/ DeliverDetach(s, id)
    PROVE  ArrivedInv'
<1>1. /\ UNCHANGED serverVars /\ s \in 1 .. MaxShards
      /\ ~shards[s].replicating \/ (IsTable(shards[s]) /\ shards[s].published[id] = NoSnapshot)
      /\ received[s][id] # NoSnapshot /\ received[s][id].stateRevision \in Nat
      /\ Client!ReceiveRemoval(id, received[s][id].stateRevision)
      /\ received' \in [1 .. MaxShards -> [NetworkIds -> Snapshot]]
      /\ received'[s][id] = NoSnapshot
      /\ \A t \in 1 .. MaxShards, j \in NetworkIds : t # s \/ j # id =>
            received'[t][j] = received[t][j]
  BY LeavesFacts DEF ArrivedInv, CopiesInv
<1>2. PICK revision \in Nat : revision = received[s][id].stateRevision
  BY <1>1
<1>3. PICK u \in QueuedUpdate : u = RemovalUpdate(id, revision)
  BY <1>1, <1>2, DeliveryEnqueues DEF ArrivedInv
<1>4. ClientTyped' /\ Enqueued(u)
  BY <1>1, <1>2, <1>3, DeliveryEnqueues DEF ArrivedInv
<1>5. u.networkId = id /\ u.bRemove /\ u.stateRevision = revision
  BY <1>3 DEF RemovalUpdate
<1>6. shards' = shards
  BY <1>1 DEF serverVars, authorityVars, publishedVars
<1>7. ASSUME NEW j \in NetworkIds, NEW r \in Nat, KnownAtMost(j, r)
      PROVE  KnownAtMost(j, r)'
  <2>1. \A t \in 1 .. MaxShards : received'[t][j].stateRevision <= r
    BY <1>1, <1>7, RevisionFacts DEF KnownAtMost
  <2>2. \A p \in Waiting(j)' : p \in Waiting(j) \/ (p = u /\ j = id)
    BY <1>4, <1>5 DEF Enqueued
  <2>3. Decided(j)' = Decided(j)
    BY <1>4 DEF Enqueued, SameState
  <2> QED
    BY <1>1, <1>2, <1>5, <1>7, <2>1, <2>2, <2>3 DEF KnownAtMost
<1>8. ASSUME NEW e \in Entities, NEW j \in NetworkIds, NEW o \in 1 .. MaxShards, NEW r \in Nat,
             Entered(e, j, o, r), ClientSound(j, o, r)
      PROVE  ClientSound(j, o, r)'
  <2>1. 0 < r /\ NoSnapshot.stateRevision = 0
    BY <1>8, RevisionFacts DEF Entered
  <2>2. \A t \in 1 .. MaxShards : t # o => received'[t][j].stateRevision < r
    BY <1>1, <1>8, <2>1 DEF ClientSound
  <2>3. CASE o = s /\ j = id
    <3>1. shards[s].published[id] # NoSnapshot
      <4>1. authoritySnapshots[id].stateRevision \in Nat
        BY RevisionFacts DEF ArrivedInv, CopiesInv, IInv, AuthorityTypeOK
      <4> QED
        BY <1>8, <2>1, <2>3, <4>1 DEF Entered
    <3>2. ~shards'[o].replicating /\ received'[o][j] = NoSnapshot
      BY <1>1, <1>6, <2>3, <3>1
    <3> QED
      BY <2>1, <2>2, <3>2 DEF ClientSound
  <2>4. CASE ~(o = s /\ j = id)
    <3>1. received'[o][j] = received[o][j]
      BY <1>1, <2>4
    <3>2. j = u.networkId /\ u.bRemove => u.stateRevision < r
      BY <1>1, <1>2, <1>5, <1>8, <2>4 DEF ClientSound
    <3>3. /\ RemovalsBefore(j, r) => RemovalsBefore(j, r)'
          /\ \A q \in Nat : q >= r /\ ShownOrWaits(j, q) => ShownOrWaits(j, q)'
      BY <1>4, <3>2, EnqueueKeepsShown DEF ArrivedInv
    <3>4. shards'[o].replicating \/ received'[o][j] # NoSnapshot => RemovalsBefore(j, r)'
      BY <1>6, <1>8, <3>1, <3>3 DEF ClientSound
    <3>5. PICK q \in Nat : q = received'[o][j].stateRevision
      BY <1>1, RevisionFacts
    <3>6. q >= r => ShownOrWaits(j, q)'
      BY <1>8, <3>1, <3>3, <3>5 DEF ClientSound
    <3> QED
      BY <2>2, <3>4, <3>5, <3>6 DEF ClientSound, ShownOrWaits
  <2> QED
    BY <2>3, <2>4
<1>9. UNCHANGED serverVars /\ ClientTyped'
  BY <1>1, <1>4
<1>10. /\ \A j \in NetworkIds : \A r \in Nat :
             Living(j) /\ r = authoritySnapshots[j].stateRevision /\ KnownAtMost(j, r)
                => KnownAtMost(j, r)'
       /\ \A e \in Entities, j \in NetworkIds, o \in 1 .. MaxShards : \A r \in Nat :
             Entered(e, j, o, r) /\ ClientSound(j, o, r) => ClientSound(j, o, r)'
  BY <1>7, <1>8
<1> QED
  BY <1>1, <1>9, <1>10, ClientSide

\* At first nothing is known of any identity.
LEMMA InitArrived == Init => ArrivedInv
<1> SUFFICES ASSUME Init PROVE ArrivedInv
  OBVIOUS
<1>1. CopiesInv
  BY InitCopiesInv DEF Init
<1>2. /\ shards = <<>> /\ \A e \in Entities : shardMap[e] = NoPlacement
      /\ authoritySnapshots = Nothing
  BY DEF Init, AuthorityInit, Nothing
<1>3. /\ NoSnapshot \in Snapshot /\ NoSnapshot.stateRevision = 0
  BY NoSnapshotTyped, RevisionFacts
<1>4. /\ updateQueue = <<>> /\ updates = <<>> /\ applying = FALSE
      /\ \A id \in NetworkIds : /\ ~Mapped(id) /\ Decided(id) = 0
                                /\ removedEntityRevisions[id] = 0
                                /\ replicationSnapshots[id] = NoSnapshot
      /\ DOMAIN networkIdToEntityMap = NetworkIds
      /\ removedEntityRevisions \in [NetworkIds -> Nat]
      /\ replicationSnapshots \in [NetworkIds -> Snapshot]
  BY <1>3 DEF Init, Client!ClientInit, Mapped, Decided, Client!NoSnapshot, NoSnapshot
<1>5. <<>> \in Seq(QueuedUpdate) /\ Len(<<>>) = 0
  BY EmptySeq
<1>6. ClientTyped
  <2>1. Genuine(<<>>)
    BY <1>5 DEF Genuine
  <2>2. Genuine(updateQueue) /\ Genuine(updates)
    BY <1>4, <2>1
  <2> QED
    BY <1>3, <1>4, <2>2 DEF ClientTyped
<1>7. /\ received = [s \in 1 .. MaxShards |-> Nothing] /\ since \in [Entities -> Nat]
      /\ Nothing \in [NetworkIds -> Snapshot] /\ \A id \in NetworkIds : Nothing[id] = NoSnapshot
  BY <1>3 DEF Init, Nothing
<1>8. HistoryTyped
  BY <1>7 DEF HistoryTyped
<1>9. KnownWasPublished
  <2>1. \A id : Waiting(id) = {}
    BY <1>4, NothingPending DEF Waiting
  <2> QED
    BY <1>2, <1>3, <1>4, <1>7, <2>1 DEF KnownWasPublished, KnownAtMost
<1>10. ProxiesCarryOne
  BY <1>2, <1>5 DEF ProxiesCarryOne
<1>11. \A e \in Entities : ~Placed(e)
  BY <1>2 DEF Placed
<1> QED
  BY <1>1, <1>6, <1>8, <1>9, <1>10, <1>11 DEF ArrivedInv

\* Every step of the composition keeps the invariant.
LEMMA NextArrived == ArrivedInv /\ [Next]_vars => ArrivedInv'
<1> SUFFICES ASSUME ArrivedInv, [Next]_vars PROVE ArrivedInv'
  OBVIOUS
<1>1. since \in [Entities -> Nat] /\ ClientTyped
  BY DEF ArrivedInv, HistoryTyped
<1>2. CASE GameCode /\ UNCHANGED <<clientVars, received, since>>
  <2>1. \A e \in Entities : Placed(e)' => ~EntersShard(e)
    BY <1>2, GameCodePlacesNothing DEF ArrivedInv, CopiesInv
  <2>2. [AuthorityNext]_authorityVars
    BY <1>2 DEF AuthorityNext
  <2> QED
    BY <1>1, <1>2, <2>1, <2>2, ServerKeepsArrived
<1>3. CASE RunDirtySystem
  <2>1. [AuthorityNext]_authorityVars /\ UNCHANGED <<clientVars, received>>
    BY <1>3 DEF AuthorityNext, RunDirtySystem
  <2>2. CopiesInv' /\ \A e \in Entities : Placed(e)' => Continues(e)
    BY <2>1, NextCopiesInv, EntitiesContinue DEF ArrivedInv
  <2>3. /\ \A e \in Entities : since'[e] = IF EntersShard(e)
                                           THEN authoritySnapshots'[identity[e]].stateRevision
                                           ELSE since[e]
        /\ since' = [e \in Entities |-> since'[e]]
    BY <1>3 DEF RunDirtySystem
  <2>4. \A e \in Entities : since'[e] \in Nat
    <3>1. PICK e \in Entities : PublishDirty(e)
      BY <1>3 DEF RunDirtySystem
    <3>2. /\ identity[e] \in NetworkIds
          /\ \E d : shardMap' = [shardMap EXCEPT ![e] = NewPlacement(e, d)]
      BY <3>1, PublishDirtyFacts DEF ArrivedInv, CopiesInv
    <3>3. \A f \in Entities : f # e => ~EntersShard(f)
      BY <3>2 DEF EntersShard, ArrivedInv, CopiesInv, IInv, AuthorityTypeOK
    <3>4. authoritySnapshots'[identity[e]].stateRevision \in Nat
      BY <2>2, <3>2, RevisionFacts DEF CopiesInv, IInv, AuthorityTypeOK
    <3> QED
      BY <1>1, <2>3, <3>3, <3>4
  <2> QED
    BY <2>1, <2>3, <2>4, ServerKeepsArrived
<1>4. ASSUME NEW s \in 1 .. Len(shards), NEW id \in NetworkIds,
             \/ DeliverItem(s, id) \/ DeliverProxy(s, id)
             \/ DeliverItemRemoval(s, id) \/ DeliverDetach(s, id)
      PROVE  ArrivedInv'
  BY <1>4, ArrivesKeepsArrived, LeavesKeepsArrived
<1>5. ASSUME NEW layout \in replicatedLayouts, DeliverLayout(layout) PROVE ArrivedInv'
  BY <1>1, <1>5, QuietSteps, QuietKeepsArrived DEF DeliverLayout
<1>6. CASE RegisterKey
  BY <1>1, <1>6, QuietSteps, QuietKeepsArrived DEF RegisterKey
<1>7. CASE RunQueueSystem
  <2>1. /\ UNCHANGED <<serverVars, received>>
        /\ Client!DrainQueue \/ Client!ApplyUpdate \/ Client!FinishRun
    BY <1>7 DEF RunQueueSystem, Client!RunQueueSystem
  <2>2. CASE Client!DrainQueue
    BY <1>1, <2>1, <2>2, DrainFacts, QuietKeepsArrived
  <2>3. CASE Client!ApplyUpdate
    BY <2>1, <2>3, ApplyKeepsArrived
  <2>4. CASE Client!FinishRun
    BY <1>1, <2>1, <2>4, QuietSteps, QuietKeepsArrived
  <2> QED
    BY <2>1, <2>2, <2>3, <2>4
<1>8. CASE UNCHANGED vars
  <2>1. UNCHANGED <<serverVars, received>> /\ UNCHANGED clientVars
    BY <1>8 DEF vars
  <2> QED
    BY <1>1, <2>1, QuietSteps, QuietKeepsArrived
<1> QED
  BY <1>2, <1>3, <1>4, <1>5, <1>6, <1>7, <1>8 DEF Next, Deliver

\* The invariant holds in every state.
LEMMA AlwaysArrived == Spec => []ArrivedInv
  BY InitArrived, NextArrived, PTL DEF Spec

\* What has arrived of an entity from the shard it is in is shown, or something
\* newer is, whatever its former shards still tell the client and in whatever
\* order it arrives (EnqueueRemoval, Enqueue, ApplyNetworkEntity and
\* RemoveNetworkEntity).
THEOREM ArrivedCopiesAreShown == Spec => []ArrivedIsShown
<1>1. ArrivedInv => ArrivedIsShown
  <2> SUFFICES ASSUME ArrivedInv, NEW e \in Entities, Quiet, Placed(e),
                      NEW id, id = identity[e], NEW s, s = shardMap[e].shard,
                      received[s][id].stateRevision >= since[e]
               PROVE  /\ Mapped(id)
                      /\ replicationSnapshots[id].stateRevision >= received[s][id].stateRevision
    BY DEF ArrivedIsShown
  <2>1. updates = <<>> /\ updateQueue = <<>>
    BY DEF ArrivedInv, ClientTyped, Quiet
  <2>2. Waiting(id) = {}
    BY <2>1, NothingPending DEF Waiting
  <2>3. ShownOrWaits(id, received[s][id].stateRevision)
    BY DEF ArrivedInv, StaysSound, CopyCounts
  <2> QED
    BY <2>2, <2>3 DEF ShownOrWaits, Decided
<1> QED
  BY <1>1, AlwaysArrived, PTL

-----------------------------------------------------------------------------
(* What is shown is replicated                                               *)

\* What a step of the authority makes of what a shard publishes of an identity.
PublishedOn(s, id) ==
    \/ shards'[s].published[id] = shards[s].published[id]
    \/ IsTable(shards[s]) /\ shards'[s].published[id] = NoSnapshot
    \/ /\ Living(id) /\ shards'[s].published[id] # NoSnapshot
       /\ shards'[s].published[id].stateRevision > authoritySnapshots[id].stateRevision

\* A shard in use that takes an entity publishes no other, if it is a proxy: it
\* held that entity before.
LEMMA ChangedPublishes ==
    ASSUME NEW s, NEW id \in NetworkIds, NEW snapshot, InUse(shards[s]),
           Living(id), snapshot # NoSnapshot,
           snapshot.stateRevision > authoritySnapshots[id].stateRevision,
           Changed(shards[s], shards'[s], id, snapshot), NEW j \in NetworkIds
    PROVE  PublishedOn(s, j)
<1>1. CASE shards'[s] = shards[s] \/ Dropped(shards[s], shards'[s], id)
  BY <1>1 DEF Dropped, PublishedOn
<1>2. CASE Taken(shards[s], shards'[s], id, snapshot)
  <2>1. CASE j = id
    BY <1>2, <2>1 DEF Taken, PublishedOn
  <2>2. CASE j # id /\ IsTable(shards[s])
    BY <1>2, <2>2 DEF Taken, PublishedOn
  <2>3. CASE j # id /\ ~IsTable(shards[s])
    <3>1. /\ shards[s].held \subseteq {id}
          /\ shards[s].pool # NoPool \/ id \in shards[s].held
      BY <1>2, <2>3 DEF Taken, CanAccept, ProxyAccepts
    <3>2. shards[s].replicating
      BY <3>1 DEF InUse
    <3>3. shards[s].published[j] = NoSnapshot
      BY <2>3, <3>1, <3>2 DEF InUse
    <3>4. shards'[s].published[j] = NoSnapshot
      BY <1>2, <2>3 DEF Taken
    <3> QED
      BY <3>3, <3>4 DEF PublishedOn
  <2> QED
    BY <2>1, <2>2, <2>3
<1> QED
  BY <1>1, <1>2 DEF Changed

\* What shards publish grows newer, and only tables forget.
LEMMA PublishedContinues ==
    ASSUME CopiesInv, ShardsReleased, [AuthorityNext]_authorityVars
    PROVE  \A s \in 1 .. Len(shards), id \in NetworkIds : PublishedOn(s, id)
<1> DEFINE Goal == \A s \in 1 .. Len(shards), id \in NetworkIds : PublishedOn(s, id)
<1>1. IInv
  BY DEF CopiesInv
<1>2. ASSUME UNCHANGED publishedVars PROVE Goal
  BY <1>2 DEF publishedVars, PublishedOn
<1>3. ASSUME NEW e \in Entities,
             \/ \E p \in Profiles : AddPrefab(e, p) \/ SetReplicationProfile(e, p)
             \/ \E x \in LocalIds : \/ \E v \in Values : SetComponent(e, x, v)
                                    \/ AddTag(e, x) \/ RemoveId(e, x)
      PROVE  Goal
  BY <1>1, <1>2, <1>3, EditFacts DEF IInv
<1>4. ASSUME NEW e \in Entities, BeginReplicatingEntity(e) PROVE Goal
  BY <1>1, <1>2, <1>4, BeginFacts
<1>5. ASSUME NEW e \in Entities, RemoveMarker(e) \/ DestroyEntity(e) PROVE Goal
  <2>1. /\ identity[e] \in NetworkIds
        /\ \A s \in 1 .. Len(shards) :
              shards'[s] = shards[s] \/ Dropped(shards[s], shards'[s], identity[e])
    BY <1>1, <1>5, StopStepKeeps, StopChanges, IdentityTyped DEF IInv
  <2> QED
    BY <2>1 DEF Dropped, PublishedOn
<1>6. ASSUME NEW e \in Entities, PublishDirty(e) PROVE Goal
  <2>1. PICK snapshot \in Snapshot :
          /\ snapshot # NoSnapshot
          /\ snapshot.stateRevision = authoritySnapshots[identity[e]].stateRevision + 1
          /\ \A s \in 1 .. Len(shards) :
                Changed(shards[s], shards'[s], identity[e], snapshot)
    BY <1>1, <1>6, PublishChanges
  <2>2. PICK id \in NetworkIds : id = identity[e]
    BY <1>1, <1>6, PublishDirtyFacts
  <2>3. authoritySnapshots[id].stateRevision \in Nat
    BY <1>1, RevisionFacts DEF IInv, AuthorityTypeOK
  <2>4. Living(id) /\ snapshot.stateRevision > authoritySnapshots[id].stateRevision
    BY <2>1, <2>2, <2>3 DEF Living
  <2>5. \A s \in 1 .. Len(shards) :
           InUse(shards[s]) /\ Changed(shards[s], shards'[s], id, snapshot)
    BY <2>1, <2>2 DEF ShardsReleased
  <2> QED
    BY <2>1, <2>4, <2>5, ChangedPublishes
<1>7. CASE UNCHANGED authorityVars
  BY <1>2, <1>7 DEF authorityVars
<1> QED
  BY <1>3, <1>4, <1>5, <1>6, <1>7 DEF AuthorityNext, GameCode

\* The client's copies go on following the shards: what a shard publishes anew is
\* newer than all the client knows of it.
LEMMA ServerKeepsFollowing ==
    ASSUME ArrivedInv, ShardsReleased, CopiesFollow, [AuthorityNext]_authorityVars,
           UNCHANGED received
    PROVE  CopiesFollow'
<1>1. /\ Len(shards) \in Nat /\ Len(shards') \in Nat /\ Len(shards) <= Len(shards')
      /\ \A s \in 1 .. Len(shards) : shards'[s].selection = shards[s].selection
  <2>1. IInv'
    BY NextIInv DEF ArrivedInv, CopiesInv
  <2> QED
    BY <2>1, ShardsContinue, LenProperties DEF ArrivedInv, CopiesInv, IInv, AuthorityTypeOK
<1> SUFFICES ASSUME NEW s \in 1 .. MaxShards, NEW id \in NetworkIds,
                    received[s][id] # NoSnapshot
             PROVE  /\ s <= Len(shards')
                    /\ shards'[s].published[id] # NoSnapshot =>
                          received[s][id].stateRevision <= shards'[s].published[id].stateRevision
                    /\ ~IsTable(shards'[s]) => shards'[s].published[id] # NoSnapshot
  BY DEF CopiesFollow
<1>2. /\ s <= Len(shards)
      /\ shards[s].published[id] # NoSnapshot =>
            received[s][id].stateRevision <= shards[s].published[id].stateRevision
      /\ ~IsTable(shards[s]) => shards[s].published[id] # NoSnapshot
  BY DEF CopiesFollow
<1>3. s \in 1 .. Len(shards) /\ s <= Len(shards') /\ (IsTable(shards'[s]) <=> IsTable(shards[s]))
  <2>1. s \in 1 .. Len(shards) /\ s <= Len(shards')
    BY <1>1, <1>2, AuthorityAssumption
  <2> QED
    BY <1>1, <2>1 DEF IsTable
<1>4. PublishedOn(s, id)
  BY <1>3, PublishedContinues DEF ArrivedInv
<1>5. CASE \/ shards'[s].published[id] = shards[s].published[id]
           \/ IsTable(shards[s]) /\ shards'[s].published[id] = NoSnapshot
  BY <1>2, <1>3, <1>5
<1>6. CASE /\ Living(id) /\ shards'[s].published[id] # NoSnapshot
           /\ shards'[s].published[id].stateRevision > authoritySnapshots[id].stateRevision
  <2>1. received[s][id].stateRevision <= authoritySnapshots[id].stateRevision
    BY <1>6 DEF ArrivedInv, KnownWasPublished, KnownAtMost
  <2>2. /\ received[s][id].stateRevision \in Nat
        /\ authoritySnapshots[id].stateRevision \in Nat
        /\ shards'[s].published[id].stateRevision \in Nat
    <3>1. IInv'
      BY NextIInv DEF ArrivedInv, CopiesInv
    <3>2. shards'[s].published[id] \in Snapshot
      <4>1. shards'[s] \in Shard
        BY <1>1, <1>3, <3>1, ElementOfSeq DEF IInv, AuthorityTypeOK
      <4> QED
        BY <4>1, ShardFacts
    <3> QED
      BY <3>2, RevisionFacts, KnownTyped DEF ArrivedInv, CopiesInv, IInv, AuthorityTypeOK
  <2> QED
    BY <1>3, <1>6, <2>1, <2>2
<1> QED
  BY <1>4, <1>5, <1>6 DEF PublishedOn

\* Steps of the authority, and steps of the client that change nothing it knows,
\* change nothing of what covers it.
LEMMA QuietKeepsCovered ==
    ASSUME \A id \in NetworkIds : ShownCovered(id), SameView,
           UNCHANGED <<received, updates, updateQueue>>
    PROVE  \A id \in NetworkIds : ShownCovered(id)'
  BY DEF ShownCovered, SameView, SameState, Covered, Ended, PendingIn

\* The run begins: what waited in the queue is covered.
LEMMA DrainKeepsCovered ==
    ASSUME ClientTyped, \A id \in NetworkIds : ShownCovered(id), UNCHANGED received,
           Client!DrainQueue
    PROVE  \A id \in NetworkIds : ShownCovered(id)'
<1>1. SameView /\ updates = <<>> /\ updates' = updateQueue /\ updateQueue' = <<>>
  BY DrainFacts
<1> SUFFICES ASSUME NEW id \in NetworkIds PROVE ShownCovered(id)'
  OBVIOUS
<1>2. /\ PendingIn(updates, id) = {} /\ PendingIn(updateQueue, id)' = {}
      /\ PendingIn(updates, id)' = PendingIn(updateQueue, id)
  <2>1. /\ PendingIn(updates, id)' = PendingIn(updates', id)
        /\ PendingIn(updateQueue, id)' = PendingIn(updateQueue', id)
    BY DEF PendingIn
  <2> QED
    BY <1>1, <2>1, NothingPending
<1>3. /\ (Mapped(id)' <=> Mapped(id)) /\ Decided(id)' = Decided(id)
      /\ \A r : Covered(id, r)' <=> Covered(id, r)
  BY <1>1 DEF SameView, SameState, Covered
<1>4. \A r : /\ ~Ended(updates, id, r) /\ ~Ended(updateQueue, id, r)'
             /\ Ended(updates, id, r)' <=> Ended(updateQueue, id, r)
  BY <1>2 DEF Ended
<1> QED
  BY <1>2, <1>3, <1>4 DEF ShownCovered

\* An update that is applied: a snapshot that is shown was covered when it
\* waited, and a removal that ends nothing was not needed.
LEMMA ApplyKeepsCovered ==
    ASSUME ClientTyped, \A id \in NetworkIds : ShownCovered(id), UNCHANGED received,
           Client!ApplyUpdate
    PROVE  \A id \in NetworkIds : ShownCovered(id)'
<1>1. PICK u \in QueuedUpdate :
         /\ UNCHANGED updateQueue /\ TakesEffect(u)
         /\ \A id \in NetworkIds : id # u.networkId => SameState(id)
         /\ \A id : PendingIn(updates, id) = PendingIn(updates', id) \cup
                       (IF u.networkId = id THEN {u} ELSE {})
  BY ApplyFacts
<1>2. u.stateRevision \in Nat /\ u.bRemove \in BOOLEAN
  BY DEF QueuedUpdate
<1> SUFFICES ASSUME NEW id \in NetworkIds PROVE ShownCovered(id)'
  OBVIOUS
<1>3. /\ PendingIn(updates, id)' \subseteq PendingIn(updates, id)
      /\ u.networkId = id => u \in PendingIn(updates, id)
      /\ \A p \in PendingIn(updates, id) :
            p \in PendingIn(updates, id)' \/ (u.networkId = id /\ p = u)
      /\ PendingIn(updateQueue, id)' = PendingIn(updateQueue, id)
  <2>1. PendingIn(updates, id)' = PendingIn(updates', id)
    BY DEF PendingIn
  <2> QED
    BY <1>1, <2>1, ZenonT(30) DEF PendingIn
<1>4. \A r : /\ Covered(id, r)' <=> Covered(id, r)
             /\ Ended(updateQueue, id, r)' <=> Ended(updateQueue, id, r)
  BY <1>3 DEF Covered, Ended
<1>5. /\ Mapped(id) => \/ Covered(id, Decided(id))
                       \/ Ended(updates, id, Decided(id))
                       \/ Ended(updateQueue, id, Decided(id))
      /\ \A p \in PendingIn(updates, id) : ~p.bRemove =>
            Covered(id, p.stateRevision) \/ Ended(updateQueue, id, p.stateRevision)
      /\ \A p \in PendingIn(updateQueue, id) : ~p.bRemove => Covered(id, p.stateRevision)
  BY DEF ShownCovered
<1>0. PICK d : d = Decided(id)'
  OBVIOUS
<1>6. Mapped(id)' => \/ Covered(id, d) \/ Ended(updates', id, d)
                     \/ Ended(updateQueue, id, d)
  <2>1. CASE SameState(id) /\ (u.networkId = id /\ u.bRemove => ~(u.stateRevision >= Decided(id)))
    <3>1. Ended(updates, id, Decided(id)) => Ended(updates', id, Decided(id))
      <4> SUFFICES ASSUME NEW p \in PendingIn(updates, id), p.bRemove,
                          p.stateRevision >= Decided(id)
                   PROVE  p \in PendingIn(updates', id)
        BY DEF Ended
      <4>1. ~(u.networkId = id /\ p = u)
        BY <2>1
      <4> QED
        BY <1>1, <4>1
    <3> QED
      BY <1>0, <1>5, <2>1, <3>1 DEF SameState
  <2>2. CASE /\ u.networkId = id /\ ~u.bRemove /\ u.stateRevision > Decided(id)
             /\ Decided(id)' = u.stateRevision
    <3>1. Covered(id, u.stateRevision) \/ Ended(updateQueue, id, u.stateRevision)
      BY <1>3, <1>5, <2>2
    <3> QED
      BY <1>0, <2>2, <3>1
  <2>3. CASE u.networkId = id /\ u.bRemove /\ ~Mapped(id)'
    BY <2>3
  <2> QED
    BY <1>1, <2>1, <2>2, <2>3 DEF TakesEffect
<1>7. \A p \in PendingIn(updates, id)' : ~p.bRemove =>
         (Covered(id, p.stateRevision) \/ Ended(updateQueue, id, p.stateRevision))'
  BY <1>3, <1>4, <1>5
<1>8. \A p \in PendingIn(updateQueue, id)' : ~p.bRemove => Covered(id, p.stateRevision)'
  BY <1>3, <1>4, <1>5
<1> QED
  <2>1. \A r : Ended(updates, id, r)' <=> Ended(updates', id, r)
    BY DEF Ended, PendingIn
  <2>2. Mapped(id)' => (\/ Covered(id, d) \/ Ended(updates, id, d)
                        \/ Ended(updateQueue, id, d))'
    BY <1>4, <1>6, <2>1
  <2> QED
    BY <1>0, <1>7, <1>8, <2>2 DEF ShownCovered

\* A revision of an identity that some shard's copy has, or that a removal in
\* the queue ends.
CoveredOrEnded(id, r) == Covered(id, r) \/ Ended(updateQueue, id, r)

\* A delivery changes the queue and a shard's copy.
LEMMA DeliveryKeepsCovered ==
    ASSUME ClientTyped, UNCHANGED updates, NEW id \in NetworkIds, ShownCovered(id), SameState(id),
           \A r \in Nat : CoveredOrEnded(id, r) => CoveredOrEnded(id, r)',
           \A p \in PendingIn(updateQueue, id)' : ~p.bRemove => Covered(id, p.stateRevision)'
    PROVE  ShownCovered(id)'
<1>1. /\ Mapped(id) => Ended(updates, id, Decided(id)) \/ CoveredOrEnded(id, Decided(id))
      /\ \A p \in PendingIn(updates, id) : ~p.bRemove => CoveredOrEnded(id, p.stateRevision)
  BY DEF ShownCovered, CoveredOrEnded
<1>2. /\ PendingIn(updates, id)' = PendingIn(updates, id)
      /\ \A r : Ended(updates, id, r)' <=> Ended(updates, id, r)
  BY DEF PendingIn, Ended
<1>3. \A p \in PendingIn(updates, id) : p.stateRevision \in Nat
  BY PendingFacts DEF ClientTyped
<1>4. PICK d \in Nat : d = Decided(id)
  BY DecidedTyped
<1>5. Decided(id)' = d /\ (Mapped(id)' <=> Mapped(id))
  BY <1>4 DEF SameState
<1>6. Mapped(id)' => (Ended(updates, id, d) \/ CoveredOrEnded(id, d))'
  BY <1>1, <1>2, <1>4, <1>5
<1>7. \A p \in PendingIn(updates, id)' : ~p.bRemove => CoveredOrEnded(id, p.stateRevision)'
  BY <1>1, <1>2, <1>3
<1> QED
  BY <1>5, <1>6, <1>7 DEF ShownCovered, CoveredOrEnded

\* What arrives for an identity joins what waits for it.
LEMMA DeliveryPending ==
    ASSUME ClientTyped, NEW u \in QueuedUpdate,
           ~u.bRemove => u.snapshot.stateRevision = u.stateRevision,
           updateQueue' = Enqueue(updateQueue, u)
    PROVE  /\ \A j \in NetworkIds : j # u.networkId =>
                 PendingIn(updateQueue, j)' = PendingIn(updateQueue, j)
           /\ \A p \in PendingIn(updateQueue, u.networkId)' :
                 \/ p = u
                 \/ /\ p \in PendingIn(updateQueue, u.networkId)
                    /\ p.stateRevision > u.stateRevision
           /\ \A p \in PendingIn(updateQueue, u.networkId) :
                 \/ p \in PendingIn(updateQueue, u.networkId)'
                 \/ /\ u \in PendingIn(updateQueue, u.networkId)'
                    /\ p.stateRevision <= u.stateRevision
           /\ \/ u \in PendingIn(updateQueue, u.networkId)'
              \/ \E p \in PendingIn(updateQueue, u.networkId) : p.stateRevision > u.stateRevision
<1>1. PICK queue : queue = updateQueue'
  OBVIOUS
<1>2. \A j : PendingIn(updateQueue, j)' = PendingIn(queue, j)
  BY <1>1 DEF PendingIn
<1>3. Genuine(updateQueue)
  BY DEF ClientTyped
<1> QED
  BY <1>1, <1>2, <1>3, EnqueuePending

\* A snapshot that arrives: its shard's copy covers it, and what the copy covered
\* before.
LEMMA ArrivesKeepsCovered ==
    ASSUME ArrivedInv, CoveredInv, NEW s \in 1 .. Len(shards), NEW id \in NetworkIds,
           DeliverItem(s, id) \/ DeliverProxy(s, id)
    PROVE  CoveredInv'
<1>1. /\ UNCHANGED serverVars /\ s \in 1 .. MaxShards
      /\ shards[s].published[id] # NoSnapshot /\ shards[s].published[id] \in Snapshot
      /\ Client!ReceiveSnapshot(id, shards[s].published[id])
      /\ Brings(s, id)
  BY ArrivesFacts DEF ArrivedInv, CopiesInv
<1>2. /\ shards' = shards /\ UNCHANGED updates /\ ClientTyped /\ HistoryTyped
      /\ Len(shards) \in Nat /\ s <= Len(shards)
  BY <1>1, LenProperties
     DEF serverVars, authorityVars, publishedVars, Client!ReceiveSnapshot, ArrivedInv, CopiesInv,
         IInv, AuthorityTypeOK
<1>3. PICK snapshot \in Snapshot : snapshot = shards[s].published[id]
  BY <1>1
<1>4. PICK u \in QueuedUpdate : u = SnapshotUpdate(id, snapshot)
  BY <1>1, <1>2, <1>3, DeliveryEnqueues
<1>5. /\ u.networkId = id /\ ~u.bRemove /\ u.stateRevision = snapshot.stateRevision
      /\ u.snapshot = snapshot /\ u.stateRevision \in Nat
      /\ \A j \in NetworkIds : SameState(j)
      /\ updateQueue' = Enqueue(updateQueue, u)
  <2>1. Enqueued(u)
    BY <1>1, <1>2, <1>3, <1>4, DeliveryEnqueues
  <2>2. updateQueue' = Enqueue(updateQueue, u)
    BY <1>1, <1>3, <1>4, ClientQueue DEF Client!ReceiveSnapshot
  <2> QED
    BY <1>4, <2>1, <2>2, RevisionFacts DEF SnapshotUpdate, Enqueued
<1>6. ASSUME NEW t \in 1 .. MaxShards, NEW j \in NetworkIds, received[t][j] # NoSnapshot
      PROVE  /\ received'[t][j] # NoSnapshot
             /\ received[t][j].stateRevision <= received'[t][j].stateRevision
             /\ t # s \/ j # id => received'[t][j] = received[t][j]
  <2>1. received[t][j].stateRevision \in Nat
    BY <1>2, KnownTyped
  <2>2. CASE t = s /\ j = id
    BY <1>1, <1>6, <2>2 DEF Brings, CoveredInv, CopiesFollow
  <2>3. CASE t # s \/ j # id
    <3>1. ~(t = s /\ ~IsTable(shards[s]))
      <4>1. SUFFICES ASSUME t = s, ~IsTable(shards[s]) PROVE FALSE
        OBVIOUS
      <4>2. shards[s].published[j] # NoSnapshot
        BY <1>1, <1>6, <4>1 DEF CoveredInv, CopiesFollow
      <4> QED
        BY <1>1, <2>3, <4>1, <4>2 DEF ArrivedInv, ProxiesCarryOne, CarriesOne
    <3>2. received'[t][j] = received[t][j]
      BY <1>1, <2>3, <3>1 DEF Brings
    <3> QED
      BY <1>6, <2>1, <3>2
  <2> QED
    BY <2>2, <2>3
<1>7. CopiesFollow'
  <2> SUFFICES ASSUME NEW t \in 1 .. MaxShards, NEW j \in NetworkIds,
                      received'[t][j] # NoSnapshot
               PROVE  /\ t <= Len(shards)
                      /\ shards[t].published[j] # NoSnapshot =>
                            received'[t][j].stateRevision <= shards[t].published[j].stateRevision
                      /\ ~IsTable(shards[t]) => shards[t].published[j] # NoSnapshot
    BY <1>2 DEF CopiesFollow
  <2>1. CASE t = s /\ j = id
    BY <1>1, <1>2, <1>3, <1>5, <2>1 DEF Brings
  <2>2. CASE t # s \/ j # id
    <3>1. received'[t][j] = received[t][j]
      BY <1>1, <2>2 DEF Brings
    <3> QED
      BY <3>1 DEF CoveredInv, CopiesFollow
  <2> QED
    BY <2>1, <2>2
<1>8. ASSUME NEW j \in NetworkIds, NEW r \in Nat, Covered(j, r) PROVE Covered(j, r)'
  <2>1. PICK t \in 1 .. MaxShards : received[t][j] # NoSnapshot /\ received[t][j].stateRevision >= r
    BY <1>8 DEF Covered
  <2>2. /\ received[t][j].stateRevision \in Nat /\ received'[t][j].stateRevision \in Nat
        /\ received'[t][j] # NoSnapshot
        /\ received[t][j].stateRevision <= received'[t][j].stateRevision
    BY <1>1, <1>2, <1>6, <2>1, KnownTyped, RevisionFacts DEF Brings
  <2> QED
    BY <1>8, <2>1, <2>2 DEF Covered
<1>9. ASSUME NEW r \in Nat, r <= u.stateRevision PROVE Covered(id, r)'
  <2>1. received'[s][id] = snapshot /\ snapshot # NoSnapshot
    BY <1>1, <1>3 DEF Brings
  <2>2. received'[s][id] # NoSnapshot /\ received'[s][id].stateRevision >= r
    BY <1>5, <1>9, <2>1
  <2> QED
    BY <1>1, <2>2 DEF Covered
<1>10. ASSUME NEW j \in NetworkIds PROVE ShownCovered(j)'
  <2>1. /\ j # id => PendingIn(updateQueue, j)' = PendingIn(updateQueue, j)
        /\ \A p \in PendingIn(updateQueue, j)' :
              p \in PendingIn(updateQueue, j) \/ (p = u /\ j = id)
        /\ \A p \in PendingIn(updateQueue, j) :
              \/ p \in PendingIn(updateQueue, j)'
              \/ j = id /\ p.stateRevision <= u.stateRevision
    BY <1>2, <1>5, DeliveryPending
  <2>2. \A p \in PendingIn(updateQueue, j) : p.stateRevision \in Nat
    BY <1>2, PendingFacts DEF ClientTyped
  <2>3. ASSUME NEW r \in Nat, CoveredOrEnded(j, r) PROVE CoveredOrEnded(j, r)'
    <3>1. CASE Covered(j, r)
      BY <1>8, <3>1 DEF CoveredOrEnded
    <3>2. ASSUME NEW p \in PendingIn(updateQueue, j), p.bRemove, p.stateRevision >= r
          PROVE  CoveredOrEnded(j, r)'
      <4>1. CASE p \in PendingIn(updateQueue, j)'
        BY <3>2, <4>1 DEF CoveredOrEnded, Ended
      <4>2. CASE j = id /\ p.stateRevision <= u.stateRevision
        <5>1. r <= u.stateRevision
          BY <1>5, <2>2, <2>3, <3>2, <4>2
        <5> QED
          BY <1>9, <2>3, <4>2, <5>1 DEF CoveredOrEnded
      <4> QED
        BY <2>1, <4>1, <4>2
    <3> QED
      BY <2>3, <3>1, <3>2 DEF CoveredOrEnded, Ended
  <2>4. ASSUME NEW p \in PendingIn(updateQueue, j)', ~p.bRemove
        PROVE  Covered(j, p.stateRevision)'
    <3>1. CASE p \in PendingIn(updateQueue, j)
      <4>1. PICK r \in Nat : r = p.stateRevision
        BY <2>2, <3>1
      <4>2. Covered(j, r)
        BY <2>4, <3>1, <4>1 DEF CoveredInv, ShownCovered
      <4> QED
        BY <1>8, <4>1, <4>2
    <3>2. CASE p = u /\ j = id
      BY <1>5, <1>9, <3>2
    <3> QED
      BY <2>1, <3>1, <3>2
  <2>5. ShownCovered(j) /\ SameState(j)
    BY <1>5 DEF CoveredInv
  <2>6. \A p \in PendingIn(updateQueue, j)' : ~p.bRemove => Covered(j, p.stateRevision)'
    BY <2>4
  <2> QED
    BY <1>2, <2>3, <2>5, <2>6, DeliveryKeepsCovered
<1> QED
  BY <1>7, <1>10 DEF CoveredInv

\* A shard's copy that goes away: what it covered, its removal ends, or a removal
\* or a snapshot that is newer and was waiting.
LEMMA LeavesKeepsCovered ==
    ASSUME ArrivedInv, CoveredInv, NEW s \in 1 .. Len(shards), NEW id \in NetworkIds,
           DeliverItemRemoval(s, id) \/ DeliverDetach(s, id)
    PROVE  CoveredInv'
<1>1. /\ UNCHANGED serverVars /\ s \in 1 .. MaxShards
      /\ received[s][id] # NoSnapshot /\ received[s][id].stateRevision \in Nat
      /\ Client!ReceiveRemoval(id, received[s][id].stateRevision)
      /\ received'[s][id] = NoSnapshot
      /\ \A t \in 1 .. MaxShards, j \in NetworkIds : t # s \/ j # id =>
            received'[t][j] = received[t][j]
  BY LeavesFacts DEF ArrivedInv, CopiesInv
<1>2. /\ shards' = shards /\ UNCHANGED updates /\ ClientTyped /\ HistoryTyped
  BY <1>1 DEF serverVars, authorityVars, publishedVars, Client!ReceiveRemoval, ArrivedInv
<1>3. PICK revision \in Nat : revision = received[s][id].stateRevision
  BY <1>1
<1>4. PICK u \in QueuedUpdate : u = RemovalUpdate(id, revision)
  BY <1>1, <1>2, <1>3, DeliveryEnqueues
<1>5. /\ u.networkId = id /\ u.bRemove /\ u.stateRevision = revision
      /\ \A j \in NetworkIds : SameState(j)
      /\ updateQueue' = Enqueue(updateQueue, u)
  <2>1. Enqueued(u)
    BY <1>1, <1>2, <1>3, <1>4, DeliveryEnqueues
  <2>2. updateQueue' = Enqueue(updateQueue, u)
    BY <1>1, <1>3, <1>4, ClientQueue DEF Client!ReceiveRemoval
  <2> QED
    BY <1>4, <2>1, <2>2 DEF RemovalUpdate, Enqueued
<1>6. CopiesFollow'
  BY <1>1, <1>2 DEF CoveredInv, CopiesFollow, IsTable
<1>7. ASSUME NEW j \in NetworkIds, NEW r \in Nat, Covered(j, r), j # id \/ r > revision
      PROVE  Covered(j, r)'
  <2>1. PICK t \in 1 .. MaxShards : received[t][j] # NoSnapshot /\ received[t][j].stateRevision >= r
    BY <1>7 DEF Covered
  <2>2. t # s \/ j # id
    BY <1>3, <1>7, <2>1
  <2>3. received'[t][j] = received[t][j]
    BY <1>1, <2>2
  <2> QED
    BY <2>1, <2>3 DEF Covered
<1>8. ASSUME NEW j \in NetworkIds PROVE ShownCovered(j)'
  <2>1. ShownCovered(j) /\ SameState(j)
    BY <1>5 DEF CoveredInv
  <2>2. \A p \in PendingIn(updateQueue, j) : p.stateRevision \in Nat /\ p.bRemove \in BOOLEAN
    BY <1>2, PendingFacts DEF ClientTyped
  <2>3. \A p \in PendingIn(updateQueue, j)' : ~p.bRemove =>
           p \in PendingIn(updateQueue, j) /\ (j = id => p.stateRevision > revision)
    BY <1>2, <1>5, DeliveryPending
  <2>4. \A p \in PendingIn(updateQueue, j)' : ~p.bRemove => Covered(j, p.stateRevision)'
    <3> SUFFICES ASSUME NEW p \in PendingIn(updateQueue, j)', ~p.bRemove
                 PROVE  Covered(j, p.stateRevision)'
      OBVIOUS
    <3>1. PICK r \in Nat : r = p.stateRevision
      BY <2>2, <2>3
    <3>2. Covered(j, r) /\ (j # id \/ r > revision)
      BY <2>1, <2>3, <3>1 DEF ShownCovered
    <3> QED
      BY <1>7, <3>1, <3>2
  <2>5. ASSUME NEW r \in Nat, Ended(updateQueue, j, r) PROVE Ended(updateQueue, j, r)'
    <3>1. PICK p \in PendingIn(updateQueue, j) : p.bRemove /\ p.stateRevision >= r
      BY <2>5 DEF Ended
    <3>2. CASE p \in PendingIn(updateQueue, j)'
      BY <3>1, <3>2 DEF Ended
    <3>3. CASE p \notin PendingIn(updateQueue, j)'
      <4>1. u \in PendingIn(updateQueue, j)' /\ p.stateRevision <= u.stateRevision
        BY <1>2, <1>5, <3>3, DeliveryPending
      <4>2. u.bRemove /\ u.stateRevision >= r
        BY <1>5, <2>2, <2>5, <3>1, <4>1
      <4> QED
        BY <4>1, <4>2 DEF Ended
    <3> QED
      BY <3>2, <3>3
  <2>6. ASSUME NEW r \in Nat, Covered(j, r), j = id, r <= revision
        PROVE  CoveredOrEnded(j, r)'
    <3>1. CASE u \in PendingIn(updateQueue, j)'
      BY <1>5, <2>6, <3>1 DEF CoveredOrEnded, Ended
    <3>2. CASE u \notin PendingIn(updateQueue, j)'
      <4>1. PICK p \in PendingIn(updateQueue, j) : p.stateRevision > revision
        BY <1>2, <1>5, <2>6, <3>2, DeliveryPending
      <4>2. p \in PendingIn(updateQueue, j)'
        BY <1>2, <1>5, <2>6, <3>2, DeliveryPending
      <4>3. PICK q \in Nat : q = p.stateRevision /\ q >= r /\ q > revision
        BY <2>2, <2>6, <4>1
      <4>4. CASE p.bRemove
        BY <4>2, <4>3, <4>4 DEF CoveredOrEnded, Ended
      <4>5. CASE ~p.bRemove
        <5>1. Covered(j, q)
          BY <2>1, <4>3, <4>5 DEF ShownCovered
        <5>2. PICK t \in 1 .. MaxShards :
                 received[t][j] # NoSnapshot /\ received[t][j].stateRevision >= q
          BY <5>1 DEF Covered
        <5>3. t # s /\ received[t][j].stateRevision \in Nat
          BY <1>2, <1>3, <2>6, <4>3, <5>2, KnownTyped
        <5>4. received'[t][j] # NoSnapshot /\ received'[t][j].stateRevision >= r
          BY <1>1, <2>6, <4>3, <5>2, <5>3
        <5> QED
          BY <5>4 DEF CoveredOrEnded, Covered
      <4> QED
        BY <4>4, <4>5
    <3> QED
      BY <3>1, <3>2
  <2>7. \A r \in Nat : CoveredOrEnded(j, r) => CoveredOrEnded(j, r)'
    <3> SUFFICES ASSUME NEW r \in Nat, CoveredOrEnded(j, r) PROVE CoveredOrEnded(j, r)'
      OBVIOUS
    <3>1. CASE Ended(updateQueue, j, r)
      BY <2>5, <3>1 DEF CoveredOrEnded
    <3>2. CASE Covered(j, r) /\ (j # id \/ r > revision)
      BY <1>7, <3>2 DEF CoveredOrEnded
    <3>3. CASE Covered(j, r) /\ j = id /\ r <= revision
      BY <2>6, <3>3
    <3> QED
      BY <3>1, <3>2, <3>3 DEF CoveredOrEnded
  <2> QED
    BY <1>2, <2>1, <2>4, <2>7, DeliveryKeepsCovered
<1> QED
  BY <1>6, <1>8 DEF CoveredInv

\* Every step of the composition keeps what is shown covered, where no profile
\* names a filter or a prioritizer.
LEMMA NextCovered ==
    ArrivedInv /\ ShardsReleased /\ CoveredInv /\ [Next]_vars => CoveredInv'
<1> SUFFICES ASSUME ArrivedInv, ShardsReleased, CoveredInv, [Next]_vars PROVE CoveredInv'
  OBVIOUS
<1>1. ClientTyped /\ CopiesFollow /\ \A id \in NetworkIds : ShownCovered(id)
  BY DEF ArrivedInv, CoveredInv
<1>2. ASSUME UNCHANGED <<shards, received>> PROVE CopiesFollow'
  BY <1>1, <1>2 DEF CopiesFollow, IsTable
<1>3. ASSUME [AuthorityNext]_authorityVars, UNCHANGED <<clientVars, received>>
      PROVE  CoveredInv'
  BY <1>1, <1>3, ServerKeepsFollowing, QuietSteps, QuietKeepsCovered DEF CoveredInv
<1>4. CASE GameCode /\ UNCHANGED <<clientVars, received, since>>
  BY <1>3, <1>4 DEF AuthorityNext
<1>5. CASE RunDirtySystem
  BY <1>3, <1>5 DEF AuthorityNext, RunDirtySystem
<1>6. ASSUME NEW s \in 1 .. Len(shards), NEW id \in NetworkIds,
             \/ DeliverItem(s, id) \/ DeliverProxy(s, id)
             \/ DeliverItemRemoval(s, id) \/ DeliverDetach(s, id)
      PROVE  CoveredInv'
  BY <1>6, ArrivesKeepsCovered, LeavesKeepsCovered
<1>7. ASSUME UNCHANGED <<serverVars, received>>,
             \/ \E layout : Client!ReceiveLayout(layout)
             \/ \E k : Client!RegisterKey(k)
             \/ Client!RunQueueSystem
      PROVE  CoveredInv'
  <2>1. CopiesFollow'
    BY <1>2, <1>7 DEF serverVars, authorityVars, publishedVars
  <2>2. CASE \/ \E layout : Client!ReceiveLayout(layout)
             \/ \E k : Client!RegisterKey(k)
             \/ Client!FinishRun
    BY <1>1, <1>7, <2>1, <2>2, QuietSteps, QuietKeepsCovered DEF CoveredInv
  <2>3. CASE Client!DrainQueue
    BY <1>1, <1>7, <2>1, <2>3, DrainKeepsCovered DEF CoveredInv
  <2>4. CASE Client!ApplyUpdate
    BY <1>1, <1>7, <2>1, <2>4, ApplyKeepsCovered DEF CoveredInv
  <2> QED
    BY <1>7, <2>2, <2>3, <2>4 DEF Client!RunQueueSystem
<1>8. CASE UNCHANGED vars
  BY <1>3, <1>8 DEF vars, serverVars
<1> QED
  BY <1>4, <1>5, <1>6, <1>7, <1>8 DEF Next, Deliver, DeliverLayout, RegisterKey, RunQueueSystem

\* Where no profile names a filter or a prioritizer, an entity is shown only while
\* some shard's copy has it: the removal by the last shard to let it go is applied
\* (HandleReplicationDetached, PreReplicatedRemove, RemoveNetworkEntity).  With
\* filters a shard may go on replicating what nothing holds, and a shard that was
\* torn down may still be filled.
THEOREM UniformTraitsShowReplicated ==
    ASSUME UniformTraits
    PROVE  Spec => []ShownIsReplicated
<1>1. Init => CoveredInv
  <2> SUFFICES ASSUME Init PROVE CoveredInv
    OBVIOUS
  <2>1. /\ updateQueue = <<>> /\ updates = <<>> /\ \A id \in NetworkIds : ~Mapped(id)
        /\ \A s \in 1 .. MaxShards, id \in NetworkIds : received[s][id] = NoSnapshot
    BY DEF Init, Client!ClientInit, Mapped, Nothing
  <2> QED
    BY <2>1, NothingPending DEF CoveredInv, CopiesFollow, ShownCovered
<1>2. Spec => []ShardsReleased
  BY AuthorityIsUndisturbed, AlwaysReleased, PTL
<1>3. CoveredInv /\ ArrivedInv => ShownIsReplicated
  <2> SUFFICES ASSUME CoveredInv, ArrivedInv, NEW id \in NetworkIds, Quiet, Mapped(id)
               PROVE  \E s \in 1 .. MaxShards : received[s][id] # NoSnapshot
    BY DEF ShownIsReplicated
  <2>1. updates = <<>> /\ updateQueue = <<>>
    BY DEF ArrivedInv, ClientTyped, Quiet
  <2>2. Covered(id, Decided(id))
    BY <2>1, NothingPending DEF CoveredInv, ShownCovered, Ended
  <2> QED
    BY <2>2 DEF Covered
<1> QED
  BY <1>1, <1>2, <1>3, AlwaysArrived, NextCovered, PTL DEF Spec
=============================================================================
