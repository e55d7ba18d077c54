# Verification of Unreal-Flecs

TLA+ models of the core logic of this repository, the TLC configurations that
check them on small instances, and TLAPS proofs of what matters most for every
value of the constants. The code is the reference: each definition that models
code names the lines it stands for in `PROJECT.json` under `map`.

Two subjects are modelled. The first is the plugin's own protocol, the
replication of Flecs entities from a server to its clients
(`Source/UnrealFlecsNetworking`): two worlds, two pipelines, many replicated
objects without an order between them, layouts and component types that arrive
late, and identities that are reused. The second is the part of the Flecs kernel
(`Source/FlecsLibrary`, kept in the tree with changes) in which order and
threads matter: the entity index with its ranges, deferred commands and their
merging, the schedule a pipeline builds and rebuilds while it runs, and the
worker threads that run it.

Contents: [1 The system](#1-the-system) - [2 The modules](#2-the-modules) -
[3 The runs](#3-the-runs) - [4 Bounds](#4-bounds) - [5 Fairness](#5-fairness) -
[6 Proofs](#6-proofs) - [7 Findings](#7-findings) -
[8 What is not modelled](#8-what-is-not-modelled) - [9 Plan](#9-plan)

To run: `tlc -config Authority.cfg MCFlecsReplicationAuthority.tla` (each run's
module and configuration are in `PROJECT.json` under `runs`), and
`tlapm FlecsNetworkIdentityProofs.tla`.

## 1 The system

Unreal-Flecs embeds the Flecs entity component system in Unreal Engine.

| Part | Where | State | Operations |
|---|---|---|---|
| Entity index | `FlecsLibrary`: `storage/entity_index.c`, `addons/entity_ranges.c` | dense vector of living and recyclable ids, records, ranges with lists of their own | new, bulk new, make alive, set version, delete, create and activate a range |
| Commands and stages | `commands.c`, `stage.c` | per stage two queues with entries per entity, nesting depth, flushing flag | defer begin and end, suspend, queue, batch, flush, read-only mode, merge |
| Pipelines | `addons/pipeline/pipeline.c` | schedule of operations, the position in it, `last_frame` of systems | build, resume, run, merge after each operation |
| Worker threads | `addons/pipeline/worker.c`, `FlecsOSAPI.cpp` | two counters, two condition variables, a quit flag | start, sync, join; threads or tasks |
| Rest of the kernel | `Source/FlecsLibrary` | tables (archetypes), queries, observers, addons | as used by the parts above |
| Worlds, handles, systems | `Source/UnrealFlecs` | the world object, its subsystems, tick functions, type registry, collections | begin play, progress per tick group, registration, teardown |
| Network identities | `DefaultFlecsNetworkIdGenerator.cpp`, `FlecsNetworkId.h` | free slots, generations | Generate, Release, Reset |
| Network world subsystem, authority | `FlecsNetworkWorldSubsystem.cpp` | identity map, latest snapshots, profiles and selectors, dirty observers | begin, stop, set profile, resolve profile, select shard |
| Dirty system | `FlecsNetDirtySystem.cpp` | the dirty tag | layout, snapshot, publication of each dirty entity |
| Layouts, keys, snapshots | `Layout/`, `FlecsReplicationKey.cpp` | definitions, table cache, pending definitions | build, validate, resolve, fill, compare |
| Bridge and shards | `Bridge/`, `Shards/` | placements, pools, proxies and tables with their replicated properties | publish, migrate, remove, release; delivery callbacks |
| Network world subsystem, client | `FlecsNetworkWorldSubsystem.cpp`, `FlecsReplicationUpdateQueue.h`, `FlecsReplicationQueueSystem.cpp` | update queue, identity map, snapshots, tombstones, deferred layouts | receive, drain, apply, remove, retry |
| Iris | the engine | its copy of every root object, per connection | external |

**How an update travels.** Game code changes a component of a replicated
entity; an observer adds `FFlecsNetDirtyTag`. Once a frame the dirty system
takes each dirty entity: it builds (or looks up) the layout of its table, fills
a snapshot with the next `StateRevision`, and has the bridge publish it. The
bridge keeps the entity in its shard, or finds or creates the shard its profile
calls for, publishes there, and only then removes the entity from the shard it
was in; an emptied shard is torn down. Iris brings the shards' properties and
the list of layouts to the clients. The callbacks of a client's shards queue a
snapshot or a removal, at most one update for each identity. Once a frame the
queue system drains the queue, applies each update that is newer than what it
has, consumes the layouts that can be resolved by now, and applies the snapshots
that waited for them.

**What is hard.**

- *Order.* Proxies, tables and the layouts' array are independent root objects.
  A removal by the source of a migration may come before or after the
  destination's baseline. Only the revisions tell which record is newer.
- *Deferral.* A snapshot whose layout is unknown waits with a handle of the
  entity it belongs to, while removals, new snapshots and re-creations of the
  same identity go on. Within a run of the queue system, commands are deferred:
  an entity created in the run has no `FFlecsNetworkId` until it ends.
- *Stale keys and caches.* The layout cache is keyed by the table, the pools by
  the traits a profile has at the moment, the identity map by slots that are
  reused.
- *Two places for one fact.* Identity map and component; placement, shard and
  snapshot; dirty tag and published state.
- *Limits.* The generation counter is 32 bits wide and wraps.

Replication runs on the game thread, so a call is a step. Interleavings arise
between calls, between entities in a run, and between the two worlds and Iris.

**How a frame runs.** `ecs_progress` runs a pipeline: its systems are cut into
operations, so that a system that reads what another has staged comes after a
merge. Each operation is run by the main thread alone or by all stages' threads;
the world is read-only meanwhile, and what systems do is queued on their stages.
When all threads wait at the sync point, the main thread merges the stages one
after the other: the commands of each entity are folded into one move to another
table, and observers may queue more. If a merge has changed which systems match,
the schedule is built anew and the run resumed where it was.

**What is hard here.**

- *The sync point.* Two condition variables and two counters, waits without a
  loop, flags that are read outside of the mutex, task threads that live for one
  run, startup systems that run with one stage while threads exist.
- *Rebuilding under way.* Where the run is must be found again in another
  schedule, from marks on systems that may be gone.
- *Batching.* The commands of an entity are executed together, before commands of
  other entities that were queued between them; an observer may queue commands,
  or flush some, in the middle of it.
- *Ranges.* An id lives in the index or in its range's list, and moves between
  them by swaps in a vector that records point into.

**What makes each part correct.**

- Identities: two live entities never share a slot; the map and the components
  agree; no identity is issued twice in a session; no slot is lost.
- Client: for each identity the newest record decides, in whatever order the
  records come; maps, entities and tombstones agree; a waiting snapshot is
  neither lost nor left to a dead entity, and is shown in the end.
- Authority: an entity is in exactly one shard, with its latest snapshot; copies
  left elsewhere are older; each layout a snapshot names is sent; a clean entity
  has been published as it is, and in the shard its profile calls for; shards
  with entities replicate, and nothing replicates an entity that is gone.
- Entity index: index and records point at each other; no id is lost, or in two
  places; a handle never names another entity, whichever ranges were active.
- Commands: an entity's commands are chained as batching needs; a flush has the
  outcome of its commands one by one; nothing is left queued; pairs name living
  targets.
- Pipelines: nothing staged is missed inside an operation, merges have reasons, a
  system whose turn comes runs, once, also when the schedule changes.
- Workers: every stage runs its share once; the merge is alone; nobody waits for
  ever.
- Together: what has arrived from an entity's shard is shown; what no shard
  holds is not; once the authority is done, the client shows exactly its state.

## 2 The modules

| Module | Models | Uses |
|---|---|---|
| `FlecsNetworkIdentity` | the identity generator with the identity map and the components | - |
| `FlecsReplicationRecords` | layouts, snapshots, the coalescing queue (no state) | - |
| `FlecsReplicatedEntities` | abstract: for each identity, the newest record wins | - |
| `FlecsReplicationClient` | the client's side of the subsystem, the layout registry, the queue system | Records; implements ReplicatedEntities |
| `FlecsReplicationAuthority` | the server's side: game code, observers, dirty system, bridge, pools, shards | Records |
| `FlecsReplication` | the authority, Iris and one client | Authority, Client |
| `FlecsEntities` | abstract: an id has one living entity, and no handle comes back | - |
| `FlecsEntityIndex` | the entity index with ranges | implements Entities |
| `FlecsCommandQueue` | the world commands act on, one command, and one entity's batch (no state) | - |
| `FlecsCommands` | stages, deferring, read-only mode, merging, flushing, observers | CommandQueue |
| `FlecsPipelineSchedule` | how a schedule is built from the systems' terms (no state) | - |
| `FlecsPipeline` | a run of a pipeline whose systems change at merges | PipelineSchedule |
| `FlecsForkJoin` | abstract: every member runs its share once, then the merge | - |
| `FlecsWorkers` | the worker threads, the main thread's loop, changes of the threads | implements ForkJoin |
| `FlecsNetworkIdentityProofs`, `FlecsReplicationClientProofs`, `FlecsReplicationAuthorityProofs`, `FlecsReplicationProofs`, `FlecsEntityIndexProofs`, `FlecsCommandsProofs`, `FlecsPipelineProofs`, `FlecsWorkersProofs` | theorems | the module they are about; `FlecsReplicationProofs` also the authority's |
| `MC...` | instances for TLC | |

Names are the code's where TLA+ allows it. A line `\* Mutant: ...` introduces a
plausible mistake in the definition that follows; no specification uses it.
Each one replaces the definition in a run that must then find the property
violated, which shows that the property depends on the code it is about.

**FlecsNetworkIdentity.** `freeSlotIds` and `generations` are the generator's
arrays; `networkIdToEntityMap` the subsystem's map, as a set of pairs so that
agreement with `entityNetworkId` (the `FFlecsNetworkId` components) has to be
shown. `BeginReplicatingEntity`, `StopReplicatingEntity` and
`ResetNetworkIdGenerator` are the calls of the marker observers and of the
session's owner. The generation is a number modulo `GenerationCount` (2^32 in the
code), so that the wrap, the identity with value 0 it may produce, and the slot
lost by it, are in the model. `issued` is a history variable.

**FlecsReplicationRecords.** A layout is identified in the code by an MD5 of its
sorted keys; here it *is* the set of its keys (two layouts with one hash are not
modelled). Payload bytes are members of `Values`. `Enqueue` is the queue's
replacement rule: a pending update of the identity is replaced where it stands,
unless it is newer.

**FlecsReplicationClient.** The variables are the subsystem's and the registry's
members; `content` is what the local entities have, `registered` which keys the
client's game code has registered so far. A local entity is named by the identity
and the revision that created it, which tells a re-created entity from the one
before. `ReceiveSnapshot` and `ReceiveRemoval` only queue. The run of the queue
system is three actions, `DrainQueue`, `ApplyUpdate` (one queued update each:
`ShowEntity`, `HideEntity` or stale) and `FinishRun` (pending layouts, waiting
snapshots, then the deferred commands); nothing is delivered between them.
`created` holds the entities of this run, because the code does not find them by
their component yet (`DeferredWithout`, `ReadySnapshots`). Removing an entity
removes the pairs with it (Flecs' default for a deleted target). The environment
delivers any record ever published, any number of times, in any order.

**FlecsReplicatedEntities** says what that amounts to: per identity a revision
that never decreases and whether the entity exists; a snapshot counts only if
newer, a removal also at the same revision. The client implements it under
`revision <- DecidingRevision` (the shown snapshot's revision, or the
tombstone's) and `present <- Mapped`.

**FlecsReplicationAuthority.** An action is one call of game code with the
observers it triggers, or one entity's turn in the dirty system. `PublishDirty`
is the whole turn: `BuildForEntity` with the table cache, `FillFromEntity`,
`SelectReplicationShard`, `ResolveShard` (stay, or find or create and migrate) and
the removal of the tag. `shards` is every shard created so far, with its pool,
the entities that occupy it (`held`), and its replicated properties
(`published`): a proxy carries one snapshot and keeps it when the entity leaves,
a table has an item per entity and deletes it. `ProfileTraits` is the filter and
prioritizer a profile has *now*: an entity that is its own profile inherits those
of its prefab. `ReleaseShardIfEmpty` searches with these, which is why `Released`
has its three outcomes. A pair's key names the target's identity or, if it has
none, nothing (`KeyOf`). `ObservedIds` are the ids with a dirty observer: a component
`C` and the pairs `(C, *)`. The observer of `(*, C)` is commented out in
`RegisterIndividualComponentDirtyObserver`, so a pair whose payload is of its target's
type (`SecondaryIds`) comes, changes and goes without the entity becoming dirty.

**FlecsReplication.** `received` is the client's copy of each shard. Iris brings
the state of the moment, so intermediate states may be skipped, in no order
between shards and layouts; a torn-down shard is detached, and its removals carry
the revisions of the client's copy. A client may join at any time, because
nothing obliges Iris to deliver early. `since` is a history variable: the revision
with which each entity entered the shard it is in (`EntersShard`). Both worlds' actions are those of their
modules, with their frames interleaved in every way.

**FlecsEntityIndex.** `dense` and `alive_count` are the code's; its unused first
element makes its indices those of a TLA+ sequence. `index_of` is the records'
`dense` field. A deletion swaps the entity with the last living one and gives its
id the next generation; if the id is not of the active range, it is taken out of
the vector and put into its range's list. `RangeSet` puts the recyclable ids away
in the list of the range that was active and loads those of the new one.
`OwnIdsOnly` says whether game code makes ids alive outside of the active range.
The index implements `FlecsEntities` under `living <- Living`, until a generation
is forced by the application or wraps (`forced`).

**FlecsCommandQueue and FlecsCommands.** A world is which entities live, their
types, values and generations. `Apply` is a command by itself, with
`flecs_remove_invalid` and the policy of a deleted target; `Linked`, `LinkedEntry`
and `Chain` are `flecs_cmd_new_batched` (with the negative index that marks an
entity's first command), `BatchedType`, `BatchedValues` and `BatchedSets` the
passes of `flecs_cmd_batch_for_entity`. A flush does one command per step, a batch
two: the commit, whose OnRemove event has every id the batch took away, also those it
adds again, and then the values with OnAdd. Between them another stage's batch may see
what an observer queued on the first stage flushed. `ecs_delete` ends and begins the
deferral between its cleanup (`CleanUp`, `flecs_on_delete`) and the removal of the
entity (`Removed`). Where that merge has something to flush, a deletion is two steps:
`DirectDelete`, `BeginDeleteBatch` or `BeginExecute`, in which an observer answers the
cleanup, then the flush of its command and of what answers that, and `FinishDelete`;
`deleting` names the entity in between. That is so for a direct call and for the merge
of a stage other than the first. Where nobody answers, and where the first stage is
being flushed itself (its loop takes what was queued when the command is done), the
deletion is one step. `phase` is `"set"` between the two. `Reactions` are the observers: on an
event they queue a command, also while the queue is flushed; then the two queues
are swapped and the flush goes round again. `expected` is the world in which the
commands of a flush are executed one by one; `bypassed` says that the storage was
changed while commands were queued and deferring was suspended. Both are history
variables.

**FlecsPipelineSchedule and FlecsPipeline.** `CheckTerm` is
`flecs_pipeline_check_term` with the write state as the set of the ids staged;
wildcards match by `ecs_id_match`. `AddSystem` is one turn of
`flecs_pipeline_build`'s loop; the loops over terms and over systems are the
recursive functions of `CheckedTerms` and `Schedules`. An operation is run from the
cursor to its end; a cursor that a rebuild left at or behind that end does not stop
there, because the loop looks for the end by equality, and runs to the end of the
schedule (`OperationEnd`; `pipeline.c:543` to `:586`). In `FlecsPipeline` a system is active, empty
(matches no table) or unmatched (disabled or deleted); systems, as they run, and
game code change that at will. `marked` are the systems whose `last_frame` is the
present frame: pipelines run by `ecs_run_pipeline` do not advance the frame, so
`EndFrame` is an action of its own. A system kind's terms are constants, one kind
for each reason to cut a schedule.

**FlecsWorkers.** A step is a critical section of `sync_mutex` or what a thread
does between two of them; the state of a thread says where it is. A condition
variable is the set of threads waiting on it. `SetThreads` and the `Join...`
actions are `ecs_set_threads` and `ecs_set_task_threads`, at any time between
frames; `BeginStartup` runs the first frame's startup systems with one stage while
the threads exist. `worker_cond` alone decides whether an operation may be parallel:
its pointer is not reset when the threads are given up, so that one stage may still run
"parallel" operations, by itself. Which operations a pipeline has is left open here (any number,
each multi-threaded or not). The module implements `FlecsForkJoin` under
`members <- Members`.

## 3 The runs

| Run | Question | Distinct states |
|---|---|---|
| `network_identity` | Do map, components, free stack and generations stay consistent, also after the counter has wrapped? Before it wraps: is any slot lost, any identity issued twice? | 55 thousand |
| `replication_client` | Under any delivery: types, one update per identity, maps and world, waiting snapshots, values shown, refinement of `FlecsReplicatedEntities`; with fairness, every record is decided and every waiting snapshot shown | 85 thousand |
| `authority` | Placement, migration, revisions, layouts and dirtiness, with two entities, pairs between them, and profiles with a filter for proxies and tables | 1.2 million |
| `authority_publication` | Is every change of an observed component published, whatever tags and unobserved pairs come and go, over two lives? | 1.9 million |
| `authority_traits` | (violated) Does a removal always leave the network? | - |
| `replication` | Two entities, proxies and a shared table, any order of delivery: what has arrived is shown, what nobody holds is not; shards with entities replicate, others are gone | 1.0 million |
| `replication_convergence` | Does the client come to show the authority's last state and keep to it? | 136 thousand |
| `entity_index` | Are index and records consistent, ids kept and in their ranges, handles never reused, through creation, deletion, forced ids and changes of the range? | 1.2 million |
| `commands` | Chains, emptied queues, living targets, and flushes with the outcome of their commands one by one, with nested and suspended defers, two stages, observers that answer each other and in the middle of a deletion | 2.5 million |
| `commands_merge` | (violated) Is an entity still there after its batch's commit? | - |
| `pipeline` | Three systems of any five kinds that change at every merge: the schedule is sound, merges have reasons, systems run once and when due, the run ends | 0.6 million |
| `workers` | Up to five threads, their number and kind changed between frames: fork-join, merge alone, counters, and every frame ends | 11 thousand |

Deadlock is checked except where a bound really ends the run
(`MaxIssues`, in the identity runs).

What to read from them: `NewestRecordWins` and `PendingKept` say that the
position of an update in the queue never matters, and with
`AppliedValuesCurrent` that the deferral of layouts neither loses nor resurrects nor reverts anything (a snapshot deferred in
one run, superseded in the next and re-created in the third is among the cases).
`SupersededCopiesOlder` is the authority's half of the argument that a migration
cannot end an entity: a copy left behind is older than the destination's, so its
end is stale for a client that has the newer one; `ArrivedIsShown` is the whole:
once a copy of an entity's present stay in its shard has arrived, that state or a
later one is shown. It says nothing of a copy left over from an earlier stay in
the same shard: the end of the stay between hides the entity until the return
arrives.
`CleanMeansPublished` and `CleanMeansPlaced` relate the dirty tag to what the
shards carry: they fail as soon as one of the observers the code creates is left out.
`CleanMeansPublished` is claimed of `ObservedIds` only. Of the others it is false: a
pair with a payload of its target's type may change on a clean entity, and the latest
snapshot has the old value until something else makes the entity dirty (section 7).
The instance has such a pair, so that the claim holds beside it.

`FlushIsSequential` compares each flush with the execution of its commands one by
one. It leaves out flushes in which an observer acts, values of a component that a
batch removes and adds again (it keeps its value), and three kinds of queues in which
batching really makes a difference (section 7): those that are `Tangled`, where a
command takes away a pair that would end its entity, or all it has, after a deletion
or beside a pair whose target is dead already; those in which a value that was written
at once is `Lost` because the storage was changed while deferring was suspended; and
those in which the batch puts an earlier value over it (`Overwritten`).
`DueSystemsRun` holds while the marks show
which systems the run has run (`located`). That is lost at a rebuild when all of
them have left the pipeline, when one of them that had left comes back (the run
resumes after it, and what is before it is skipped), and from the start when the
pipeline has run before in this frame. `RunsProgress` says that each step of a run
runs a system that has not run, goes on to a later operation of the same schedule,
or is the last. `MergesHaveReasons`
is the other direction of `ScheduleSound`: no merge is made that nothing calls
for. `MergeAlone` is what makes it right that merging takes no lock.
`DeadAreRecyclable` says that an id that was alive is in the index or in its
range's list, so that changing ranges leaks nothing.

## 4 Bounds

- `GenerationCount = 4`, `MaxIssues = 8`, three entities: the counter of a slot
  wraps while another slot is in use and a third is free; slot 0 yields the
  invalid identity. One reset.
- Client: two identities, three snapshots of the source (a component; also a
  reference to the target; without it), one of the target. That is enough for a
  snapshot, its successor and one after a removal to be pending, deferred and
  stale in any combination, and for a reference to be dropped with its target.
- Authority: two entities, so that a table is shared and a proxy is not;
  revisions 1 to 2 (1 to 3 in `authority_publication`), so that each entity is
  published, migrates, and is gone; three or four shards, so that the bound is
  reached only after a shard of each kind was emptied. `MaxLives = 2` in
  `authority_publication` for rebirth, with one component that is observed and one pair
  that is not. `MaxShards` and `Revisions` stop
  publication: a turn that would exceed them is not taken, and the properties
  hold before.
- Entity index: three ids, two of the first range and one of a second, three
  generations, bulk creation of two: an id of either range is recycled while the
  other is active, and the vector's swaps have a first, a middle and a last.
- Commands: two entities, one a possible parent of the other (`ChildOf`, whose
  policy deletes) or liked by it (`Likes`, which is removed), a component with two
  values, two generations; three commands on one or two stages and two of
  observers, defers nested twice. A chain of three with an interleaved command of the
  other entity is the smallest that exercises each case of
  `flecs_cmd_new_batched`. The observers of `commands` set a component when a pair goes,
  delete the parent when the component comes, and remove it when it is set: the first
  may answer in the middle of an `ecs_delete`, and two answers let the second or the
  third act there, too, before the entity is removed. Those of `commands_merge` delete.
  `CONSTRAINT BatchedEntityAlive` ends a behaviour of `commands` where the assertion
  `r->table != NULL` fails (finding 2): behind it the program uses a table that is not
  there, and has no state that could be modelled.
- Pipeline: three systems, each of five kinds (reads with a wildcard pair, stages,
  multi-threaded with a Not term, accesses everything, immediate), each active,
  empty or unmatched: a system before, at and after any border.
- Workers: `MaxThreads = 5`, so that there are a first, a middle and a last worker;
  the theorems are for any number.
- Composed: two entities without data for the safety properties, one entity with
  a component of two payloads for convergence. The entities' data are
  independent of each other except through references.
- Symmetry: the entities in `NetworkIdentity.cfg` and `Replication.cfg`, the
  entities and payloads in `AuthorityPublication.cfg`, the values in `Commands.cfg`; never in a run that checks liveness.

## 5 Fairness

- `WF(RunQueueSystem)`: the Flecs pipeline runs the queue system in every frame,
  and its loop takes every queued update.
- `WF(RunDirtySystem)`: likewise the dirty system, which takes every entity with
  the tag.
- `SF(Deliver)`: Iris sends what has changed until it is acknowledged, and the
  client takes packets in every frame. Strong, because a delivery is disabled
  again and again while a run of the queue system is in progress.
- `SF(RegisterKey)`: the client's game code registers its component types in the
  end. Nothing is assumed of the server's game code.

- Workers: weak fairness of each worker and of the main thread's steps inside a
  frame (threads are scheduled, systems return); of `BeginFrame` after the startup
  systems, which `ecs_progress` goes on to; and strong fairness of `EndPipeline`,
  because a pipeline has finitely many operations, while the model always offers
  another one. Nothing is assumed of calls of game code.

That a run of a pipeline ends is an action property (`RunsProgress`), which needs no
fairness.

Liveness of the replication holds under the bounds because revisions are bounded: from some point
on the authority publishes nothing more, and the client has to catch up.

## 6 Proofs

The eight `...Proofs` modules prove their theorems for every value of the
constants, from the assumptions named in the modules
(`GenerationCountAssumption`: a counter with more than one value;
`RecordsAssumption`: revisions are positive, the absent values are no payloads;
`PublishedAssumption`: no two snapshots of an identity have the same revision,
which `FillFromEntity` ensures; `AuthorityAssumption`: the sets of keys are built
from the ids and identities as `FFlecsReplicationKey` is, and an entity has a new
identity in each life, which `IdentitiesNeverReissued` proves of the generator;
`PlacementAssumption`: "no placement" is none; `MaxThreadsAssumption`; `RangesAssumption`: a
range ends no earlier than it begins, as `ecs_entity_range_new` checks;
`OwnIdsOnly`, which the index's theorems name; `IdsAssumption`: no component is a pair;
`DeletePolicyAssumption`: pairs name entities; `BoundsAssumption`: there is a stage;
`ReactionsAssumption`: an observer's Set names a component and has a value;
`ProvokedAssumption`: observers that answer while an entity is deleted add no pair;
`NoIdAssumption`: "no id" is no id;
`SystemCountAssumption`: there is a system; `SystemDataAssumption`: terms are typed, and
no system itself needs the merge that comes before it, which `pipeline.c:349` asserts;
`VolatileAssumption`: what game code changes are systems).

**Identities.** `IInv` adds to the types that free slots are allocated and
distinct, that a mapped slot is not free and carries its identity's generation,
and that the map mirrors the components. `LiveSlotsUnique` is not inductive
without these: a slot pushed twice would be drawn twice. The step that needs
them all is `StopReplicatingEntity`: the released slot is not on the stack
because the map held it, and `ReleaseNetworkId` itself does not look. `DrawFacts`
says once what `GenerateNetworkId` does, for a reused slot and for a new one.
Theorems: `IdentityTypeCorrect`, `LiveSlotsAreUnique`,
`MapAlwaysMirrorsComponents`. `IdentitiesNeverReissued` strengthens `IInv` by
"the generation of a slot counts its draws, and no issued identity is ahead of
its slot", which holds until the session has drawn as many identities as the
counter has values; then the action property follows from `DrawIsNew`. `SlotsAreAccounted` has the
same bound: `NextNoSlotLeaked` shows that only the wrap can lose a slot.

**Client.** `IInv` joins the types, `QueuesCoalesced`, `MapMatchesWorld`,
`DeferredEntitiesAlive`, that every queued update is one the authority published,
and `CreatedOnce`: the update that created an entity of this run was the only one
of its identity, so no removal of it can follow in the same run. That is the
reason why the search for waiting snapshots by component may miss new entities
and still leave none to a dead one. `EnqueueFacts` and `TailFacts` carry
coalescing through the queue; `ShowIInv` and `HideIInv` are the two cases of
`ApplyUpdate`. Theorems: `ClientTypeCorrect`, `QueuesAreCoalesced`,
`MapAlwaysMatchesWorld`, `DeferredEntitiesStayAlive`, `WaitingSnapshotsKept`
(kept by each step on its own), together `PendingAlwaysKept`, and `NewestRecordAlwaysWins`, the refinement:
`ShowEntity` is `Show`, `HideEntity` is `Hide`, every other step a stutter, or,
for a removal of an unknown identity, a `Hide` that changes the revision only.

`AppliedValuesStayCurrent` has an invariant of its own, `CurrentInv`: a definition's
keys are registered (`DefinitionsResolved`), what is shown or waits was published, and
what waits for an entity of this run is its latest snapshot (`SnapshotsGenuine`). The
last part is needed because `ReadySnapshots` does not compare such a snapshot with the
entity's latest one, as it does for the others.

**Authority.** `IInv` joins the types, `PlacedOnce`, that an identity is that of the
entity's present life (`IdentitiesOwn`), that a shard in a pool has the pool's
selection (`PoolsMatch`) and that placements name shards with their own selection
(`PlacementsExist`): `PlacementSound` needs them, because a destination is found by
its pool and not by what it holds. `CopiesInv` adds that nothing was published for a
life to come and that no copy is newer than the latest snapshot (`CopiesBounded`):
`SupersededCopiesOlder` is a part of it. The order in `ResolveShard`, publish and
then remove, is what the step needs. `LayoutsSent` and `PayloadsPublished` are the
strengthenings for `LayoutsPublished` and `CleanMeansPublished`: every definition
was sent when it was new, and a cached layout has its table's components.
`CleanIsPublished` is about `ObservedIds`, for any set of pairs that are not observed.
`StopFacts`, `PublishFacts` and `EditFacts` say once what a removal, a publication
and an edit of game code do; `SmallestOf` (a set of numbers that has a member has a
least one, from well-foundedness) names the shard that `Destination` chooses.
Theorems: `PlacementsAreSound`, `SupersededCopiesAreOlder`, `LayoutsArePublished`,
`CleanIsPlaced`, `CleanIsPublished`, and, with the hypothesis `UniformTraits` (no
profile names a filter or a prioritizer), `UniformTraitsPlaceWell` and
`UniformTraitsRemove`: shards with entities replicate, and what has ended is no
longer replicated. Without that hypothesis both are false: that is finding 1. They
say that the look-up by present traits is the only cause of it. Their invariant is
`ShardsReleased`: a shard replicates as long as it holds an entity, and as long as it
is in the pool it can be found by.

**Together.** `AuthorityIsUndisturbed` is the refinement that lets every result about
the authority be used: no step of Iris or of a client changes the authority's
state. Of the client the proofs use each identity's deciding revision and the updates
that wait (`EnqueueStep`, `ApplyFacts`). `ArrivedInv` says for an entity in a shard that
all other copies, in shards or on the client, are older than its entry into the
shard (`OthersOlder`), that the removals the client knows of are, too
(`RemovalsOlder`), and that a copy as new as the entry is shown or waits
(`CopyCounts`); `KnownWasPublished` keeps the client behind the authority. This is
the argument for migrations without tombstones of their own: an end carries the
revision of the copy it ends, which is older than the entry. The theorem is
`ArrivedCopiesAreShown`. The first form of `ArrivedIsShown` had no `since`, and the
proof did not go through: an entity that leaves a shard and comes back finds a copy
of its first stay there, and the end of the stay between hides the entity until the
return arrives. With a third revision TLC shows it, too.
`UniformTraitsShowReplicated` is `ShownIsReplicated` under `UniformTraits`. Its
invariant `CoveredInv` says that what is shown or waits is covered by the client's
copy of some shard, or ended by a removal that waits behind it. The hypothesis is
needed because an emptied proxy that its pool still hands out is reused for another
entity, and the client's copy is then replaced without a removal of the first.

**Entity index.** `IInv` joins `IndexSound` with what ties the ranges to it:
ranges share no id, what was issued of a range is its own (`RangesSound`), every
id in the index was issued (`IndexIssued`), what can be recycled is of the active
range (`NotAliveInRange`), and the other ranges' lists hold ids that were issued
of them, are not in the index and occur once (`ListsSound`). `IndexSound` is not
inductive without these: a range whose list is loaded could bring an id that the
index has, and `max_id` of a range that is activated again could be below an id
that is alive. `Consistent(d, x)` says of any vector and records that they point
at each other; one lemma each says what appending, swapping, taking out,
extending and replacing the tail do to it, and the actions are these. `LastKnown`
and `DeadKnown` are for `IdsStayInRange` and `DeadStayRecyclable`. For the
refinement, `Fresh` adds that every generation in the index or in a list is later
than those its id's dead entities had, until one is forced. The theorems assume
`OwnIdsOnly`: where ids of other ranges are forced they are false (section 7).

**Workers.** `WorkersInvariant` is the inductive invariant: what the two counters
count (the workers that have started and not stopped, those that wait at the sync
point), which states a worker may be in for each state of the main thread, which
stages have run the operation, and what `quit` and the task threads mean. None of
the properties is inductive without it: `MergeAlone` needs that the counter the
main thread compares is exact, and that needs that it is reset before a worker can
be woken again. Theorems: `WorkersTypeOK`, `MergesAlone`, `AssertionsHold`, and
`WorkersImplementForkJoin`, the refinement, for every number of threads and of
operations.

**Commands.** `IInv` has four parts. `WorldOK`: the world is typed, what is dead has
nothing, and pairs name what lives. `StagesOK`: in each queue the entries name
chains (`Chained`), and the entries of the queue that is flushed name commands to
come, each the first of its entity (`Ahead`): without this, the swap of the two
queues in `flecs_defer_end` could hand a queue over with entries of commands that
are gone, and the next command would be linked to nothing. `Emptied`: a stage that
is neither deferred nor flushed has no command. `DefersSound`: which stages are
deferred while the world is read-only and while they are merged. `LinkedChained`
says what queueing a command does to all chains, `StartFlushFacts`,
`InvalidatedFacts` and `NextCommandFacts` what the steps of the flush do to a stage,
`ApplyOK` and `DeleteOK` that commands leave no pair without its target,
`OutcomesOK` that observers' commands are queued like others. A batch's type is a
fold over the commands; `WalkExists` shows that the function `BatchTypes` defines
exists, and `BatchedTypeOK` what it yields, by least counterexample. `DInv` is about
a deletion that was cleaned up and is not finished: nothing names the entity
(`Unnamed`), the first stage is not deferred (nor is it while another one is
flushed, `OthersFlushed`), and what is queued or flushed there is mild
(`MildStage`): it adds no pair, and nothing but a pair could name the entity again.
That what is queued stays mild, whatever answers what, is what `Provoked` is for: it
is the least set of observers that has those of OnRemove and with each of its
members those of what the member adds or sets, and `ProvokedAssumption` says that
none of them adds a pair. So `FinishDelete` removes an entity that nothing names.
Theorems: `ChainsAreLinked`, `NothingIsLeft`, `WorldIsSound`, for every number of
stages, commands and answers, every depth of defers and all observers that
`ReactionsAssumption` and `ProvokedAssumption` allow. Without the latter
`WorldSound` is false of the code (section 7).

`FlushesAreSequential` (`FlushIsSequential`) compares two folds over the same commands,
one in the order of the queue and one by entity, each with cascades of deletions. Its
argument does not follow either: it says what is still to come. For a world and the
commands from `n` on, `Own` are the commands an entity that lives now will meet, `InEnd`
says whether they leave it with an id, `Ends` whether one deletes it. A set of entities
is `Safe` if none of them is deleted and what they are left with names, in pairs whose
policy is Delete, only entities of the set. The greatest safe set is what will be
alive: this replaces the order in which cascades happen by a fixpoint, which no order
changes. `SameEnd` says that two worlds with commands to come have the same safe sets
and the same ends; it is a preorder. A command done by itself (`DoSame`) and the commit
of a batch, with all of an entity's commands at once (`BatchLeads`), both lead from one
such pair to another. So do all commands of `Sequential` in a row (`SequentialLeads`),
and where no command is left, the world itself is the outcome (`LeadsReached`):
`Leads(world, queue, n, expected)` is the invariant of the flush.

`FInv`, which is proved beside `DInv`, joins it to `IInv` with what it needs: an
entity has no value of a component it does not have (`ValuesOwned`); each queue that
takes commands has all commands of a living entity in its entry's chain, the first
one marked (`QueuesSound`; `ChainIs` shows that the walk of
`flecs_cmd_batch_for_entity` over such links finds exactly the commands of the
entity, up to the one that deletes it, by least counterexample); a value written at
once is there unless the storage was bypassed (`WritesSound`); and in a flush, the
commands of an entity whose batch is done are marked as done, or its deletion is
before them (`Passed`). Between the commit of a batch and its values the flush is
seen as if they were in place (`ViewWorld`). Three faults of earlier forms of the
property were found by this proof, none of which three commands can show: `Tangled`
was about commands on an entity's own pair only, and the two cases of values that
were written at once were missing.

**Pipelines.** The first half is about `Build`. `BuiltUpTo` is the invariant of the loop
over the systems, kept by each `AddSystem`: systems in order, operations that take them
up one after the other and are uniform (`BuildShape`), a write state that is exactly
what the systems of the last operation stage (`Wrote`), no dependency inside of an
operation, also through a system that is inactive (`Apart`), and a reason for every
border, also for one behind which no system has come yet (`Reasons`,
`PendingReason`). `Wrote` is the
strengthening that matters: the code keeps only the union of what was staged since
the last merge, and this ties it to the systems of the operation it stands for, an
operation that has none yet included. `LoopChecks` says what a loop of `CheckTerms`
finds, for any number of terms: the write state grows by what an active system stages
and nothing else, and where no merge is needed nothing the terms access was staged.
`RecursionExists` shows that the functions that stand for the loops exist; `LoopFacts`
and `SchedulesFacts` follow them by least counterexample.

The second half is `PipelineInv`: the schedule is one that was built, for the present
systems unless they have changed since (`ScheduleKept`); no system from `cur_i` on has run,
and while `located` the cursor is not behind the end of its operation, unless the run
is at its end (`PlaceKept`); the systems of this run are marked, and
while `located` no others are (`MarksKept`); and what is due has run or is ahead
(`DueKept`). `RunsOnce` needs both halves: `Resumed` looks for the *last* marked
system, which is right only because schedules are in the order of the systems.
Theorems: `PipelineInvariant`, `ScheduleIsSound`, `MergesAlwaysHaveReasons`,
`SystemsRunOnce`, `RunsAreComplete`, `RunsMakeProgress`, for every number and kind of
systems. `ScheduleIsSound` alone has a hypothesis, `WildcardsNested`: two pairs with
wildcards in different places, `(R, *)` and `(*, B)`, are not seen to overlap by
`flecs_pipeline_get_write_state`. The kinds of the instance satisfy it.

Two faults of earlier forms of the model were found by these proofs, neither of which
three systems can show. With five systems, a rebuild that finds no marked system may
leave the cursor behind the end of the operation `cur_op` names; the operation then
runs to the end of the schedule, not of nothing. With four, a system that has run, was
disabled and comes back in the same frame makes the run resume after it, so that
`located` has to be given up there, too. Both were confirmed with TLC on the larger
instances, and are in the model now.

**Only model-checked:** liveness (`DeliveriesDecided`, `WaitingSnapshotsShown`,
`Convergence`, `FramesEnd`): fairness is out of the prover's reach. Every other property
that a passing run checks is a theorem.

## 7 Findings

Two are runs whose property TLC finds violated; `PROJECT.json` quotes the line of
the repository the property comes from.

1. *An emptied shard goes on replicating* (`authority_traits`). The pool of an
   emptied shard is looked up by the traits its profile has now. An entity that
   is its own profile and got a prefab with a net filter after it was placed has
   other traits than its pool: no pool is found and the proxy replicates the
   entity for ever; or another pool is found, and the shard is torn down while its
   own pool still hands it out, so that the next entity is published into a shard
   nobody receives (`PlacedShardsReplicate` under the same configuration).
2. *A batch goes on with an entity that is gone* (`commands_merge`). The commit of a
   batch is bracketed by a defer on the first stage, whatever stage is merged. For
   another stage the bracket is the outermost one and its end flushes what an
   OnRemove observer queued, which may be the deletion of the entity; the assertion
   behind it (`r->table != NULL`) then fails, and without assertions the record's
   missing table is used.

The others were met while modelling and are limits the properties leave out. They
can be read off the code at the lines named.

- *Replication.* Tags and pairs without payload never appear on a client: the
  layout's keys are removed and only those with a payload added again
  (`FlecsNetworkWorldSubsystem.cpp:895`; `FlecsReplicatedTrait.h:15` says an id
  "should replicate structurally without a payload descriptor"). A component the
  server's entity loses stays on the client (`:883`). Adding a tag does not publish
  it (`:144`). A pair whose payload is of its target's type changes without becoming
  dirty: its observer, `(*, C)`, is commented out (`:198`, `:218`), although
  `FlecsReplicationKey.cpp:152` builds keys for such payloads. A pair whose target begins to replicate later is never named, since
  the table's cached layout is used (`FlecsReplicationLayoutRegistry.cpp:46`).
  Identities are reused in the next session although `FlecsNetworkId.h:16` speaks of
  "a session epoch" (`DefaultFlecsNetworkIdGenerator.cpp:35`). A reference whose
  target is unknown when its snapshot is applied is skipped until the source's next
  update. A migration may destroy and re-create the client's entity, if the source's
  end arrives before the destination's baseline (`ArrivedIsShown` speaks of the end).
- *Pipelines.* When all systems that have run leave the pipeline at a merge,
  `cur_op` and `cur_i` are left as they were and index another schedule: systems
  are skipped for the frame (`pipeline.c:442`; `flecs/addons/pipeline.h:192`: "This
  will run all systems in the provided pipeline."). The same marks make a rebuild in
  a second run of one frame resume after the last system of the first
  (`ecs_run_pipeline` for the engine's tick groups, `FlecsDefaultGameLoop.cpp:64`).
  So does a system that ran, was disabled and is enabled again in one frame: systems
  before it that became active in between and have not run yet are skipped.
  A system with two terms of one id and different sources that are not `$this` can
  fail the assertion at `pipeline.c:349`; `SystemDataAssumption` excludes it. Two
  different wildcard pairs, `(R, *)` and `(*, B)`, are not seen to overlap (hypothesis
  `WildcardsNested` of `ScheduleIsSound`; no kind of the instance has them).
- *Entity index.* An id outside of the active range that is made alive raises
  `max_id` (`entity_index.c:148`), and new ids leave the range;
  `ecs_entity_range_set` promises that they "will fall within the specified [min,
  max] interval, including recycled identifiers". If it is an id the range has put
  away, activating the range loads it a second time (`entity_ranges.c:170`). Both
  need `OwnIdsOnly = FALSE`. Bulk creation does not look at the range's end, an id
  of no range loses its generation, and the first `ecs_entity_range_new` with a
  minimum above 1 uses a default range that may not have been created
  (`entity_ranges.c:223`) when ids from the minimum on are in use, which the
  model's guard excludes.
- *Commands.* A batch applies `flecs_remove_invalid` to Remove commands as well, so
  that `Add(e, (ChildOf, p)), Delete(p), Remove(e, (ChildOf, p))` keeps `e`, which
  one by one is deleted (`Tangled`); and a batch that begins before a deletion takes a
  pair away that would have ended its entity with the deleted target. A Set of a
  component the entity has is written at once (`commands.c:606`), so a value set by an
  observer while a removal is pending is lost with it; so is one whose component is
  removed from the storage while deferring is suspended (`Lost`). If the component was
  added while deferring was suspended, a Set queued before that puts its value over the
  later one, which was written at once (`Overwritten`). `ecs_delete` merges in its middle (`entity.c:1350`): a
  pair with the entity that is being deleted, added there by an observer, or by one that
  answers what an observer did there, stays after the entity is gone. `ProvokedAssumption`
  excludes observers that do that; everything else the merge executes is in the model. A pair whose target was deleted and its id recycled is
  added with the new entity as target.
- *Workers.* Neither wait is in a loop: a spurious wake-up would let the main thread
  merge, or a worker run, too early (`worker.c:29`, `:150`). The model has none;
  whether the engine's condition variables do is not in this repository. With fewer
  task threads than stages `flecs_wait_for_workers` would spin for ever.

## 8 What is not modelled

- The subsystem's `Initialize` and `Deinitialize` with the bridge's, the queue's
  `Reset`: one session, from a started subsystem to its end. A shard's own queue,
  used until the client's subsystem exists.
- Connections' scopes (filters, prioritizers, dormancy): a shard is relevant to
  the client from its creation to its end.
- Serialization, descriptors, hashes: a payload is a value, a layout its keys. A
  failed serialization is not modelled.
- The wrap of the 32-bit `StateRevision` (2^32 publications of one entity).
- Client game code that destroys replicated entities.
- Entity index: copying, clearing and freeing an index; `flecs_entity_index_shrink`
  is dead code (its only call is commented out).
- Commands: Clone, BulkNew, Path, OnDeleteAction, Enable, Disable, Event, Ensure and
  Emplace; components kept outside of tables; on_replace hooks; stages the
  application makes itself; bookkeeping of memory.
- Pipelines: tick sources and intervals (`timer.c`), time measurement, the selection
  and order of systems by phase (they come in the order of the query).
- The kernel's tables, queries, observers and addons (script, JSON, REST, statistics,
  units, metadata): third-party code with tests of its own, most of the repository's
  lines. What the models use of it (events, policies of deleted targets, which tables
  match) is named where it is used.
- Worlds, game loops, collections, type registry, registration, handles, editor and
  macro modules: start-up code and wrappers without interleaving of their own
  (`PROJECT.json` says of each why).

## 9 Plan

Done: identities, client, authority and their composition; entity index, commands,
pipelines and worker threads; a proof of every safety property that a passing run
checks (section 6). Next:

1. **Pipelines and workers**: the operations of `FlecsPipeline` as the frames of
   `FlecsWorkers`, composed.
2. **Hazards without a property**: the entries of `PROJECT.json` whose note names what
   the models would need first.
