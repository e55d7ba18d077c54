----------------------- MODULE FlecsReplicationRecords -----------------------
(***************************************************************************)
(* The records the replication protocol is made of: layouts, entity          *)
(* snapshots, and the update queue that coalesces snapshots and removals.    *)
(* A layout is identified by the hash of its sorted keys, so a layout is     *)
(* represented by the set of its keys (two layouts with one hash are not     *)
(* modelled).  Payload bytes are members of Values.                          *)
(***************************************************************************)
EXTENDS Integers, Sequences

CONSTANTS
    NetworkIds,     \* the identities the authority has issued
    Keys,           \* replication keys: components, tags and pairs
    ReferenceKeys,  \* those that name another replicated entity (Entity kind)
    TargetOf,       \* the identity a reference key names
    Values,         \* component payloads
    NoValue,        \* a key without payload: PackedValue.Revision is 0
    Absent,         \* the entity does not have the key
    Revisions       \* the state revisions snapshots are published with

ASSUME RecordsAssumption ==
    /\ ReferenceKeys \subseteq Keys
    /\ TargetOf \in [ReferenceKeys -> NetworkIds]
    /\ NoValue \notin Values
    /\ Absent \notin Values \cup {NoValue}
    /\ Revisions \subseteq Nat \ {0}  \* FillFromEntity numbers from 1 on

LayoutId == SUBSET Keys

\* An entity's content, key by key.
Content == [Keys -> Values \cup {NoValue, Absent}]
NoContent == [k \in Keys |-> Absent]

Snapshot == [layoutId      : LayoutId,
             values        : [Keys -> Values \cup {NoValue}],
             stateRevision : Nat]

\* A default-constructed snapshot, and the absence of one in a map: the first
\* published snapshot has revision 1 (FillFromEntity).
NoSnapshot == [layoutId      |-> {},
               values        |-> [k \in Keys |-> NoValue],
               stateRevision |-> 0]

-----------------------------------------------------------------------------
(* FFlecsReplicationUpdateQueue                                              *)

QueuedUpdate == [networkId : NetworkIds, snapshot : Snapshot,
                 stateRevision : Nat, bRemove : BOOLEAN]

PendingIndices(queue, id) ==
    {i \in 1 .. Len(queue) : queue[i].networkId = id}

SnapshotUpdate(id, snapshot) ==
    [networkId |-> id, snapshot |-> snapshot,
     stateRevision |-> snapshot.stateRevision, bRemove |-> FALSE]

RemovalUpdate(id, revision) ==
    [networkId |-> id, snapshot |-> NoSnapshot,
     stateRevision |-> revision, bRemove |-> TRUE]

\* Both Enqueue operations: the pending update of the identity is replaced
\* where it stands, unless it has a newer revision; without one the update
\* goes to the end.
Enqueue(queue, update) ==
    IF PendingIndices(queue, update.networkId) = {}
    THEN Append(queue, update)
    ELSE [i \in 1 .. Len(queue) |->
            IF /\ queue[i].networkId = update.networkId
               /\ queue[i].stateRevision <= update.stateRevision
            THEN update ELSE queue[i]]

EnqueueSnapshot(queue, id, snapshot) == Enqueue(queue, SnapshotUpdate(id, snapshot))
EnqueueRemoval(queue, id, revision) == Enqueue(queue, RemovalUpdate(id, revision))

\* At most one pending update per identity.
Coalesced(queue) ==
    \A i, j \in 1 .. Len(queue) :
        queue[i].networkId = queue[j].networkId => i = j
=============================================================================
