---------------------------- MODULE FlecsCommands ----------------------------
(***************************************************************************)
(* Deferred operations (commands.c, stage.c): each stage has two queues, of  *)
(* which one takes new commands while the other is flushed.                  *)
(*                                                                          *)
(* Game code defers on the first stage (ecs_defer_begin), suspends, and      *)
(* uses all stages while the world is readonly, as systems do; the end of    *)
(* readonly mode merges the stages one after the other.  Observers answer to *)
(* components that are added, removed or set by queueing commands on the     *)
(* first stage.  A flush does one command per step; one of another stage     *)
(* than the first flushes what observers queued after each operation, and    *)
(* before it removes an entity that it deletes.                              *)
(***************************************************************************)
EXTENDS FlecsCommandQueue

CONSTANTS
    MaxStages,
    MaxDepth,       \* bound of nested ecs_defer_begin calls
    MaxCommands,    \* bound of the commands of game code
    MaxReactions,   \* bound of the commands of observers
    Reactions,      \* what observers do: [on, id, target, op, operand, value]
    NoId,           \* the id of a command that has none
    Self,           \* a reaction's target: the entity of the event
    NoWorld         \* no outcome is expected

ASSUME BoundsAssumption == MaxStages \in Nat \ {0} /\ MaxDepth \in Nat \ {0}

Kinds == {"Add", "Remove", "Set", "AddModified", "Clear", "Delete", "Modified", "Skip"}
AllIds == Components \cup Pairs

ASSUME NoIdAssumption == NoId \notin AllIds

\* Add, Remove and Set have an id, and Set a value for it.
ASSUME ReactionsAssumption ==
    \A r \in Reactions :
        /\ \/ r.op \in {"Add", "Remove"} /\ r.operand \in AllIds
           \/ r.op = "Set" /\ r.operand \in Components
           \/ r.op \in {"Clear", "Delete"} /\ r.operand = NoId
        /\ r.value \in Values \cup {Default}

\* The observers that answer while an entity is deleted: those of OnRemove, and
\* those of what one of them adds or sets.
Provokes(r, p) == r.op \in {"Add", "Set"} /\ p.on \in {"OnAdd", "OnSet"} /\ p.id = r.operand
ClosedReactions ==
    {set \in SUBSET Reactions :
        /\ \A r \in Reactions : r.on = "OnRemove" => r \in set
        /\ \A r \in set, p \in Reactions : Provokes(r, p) => p \in set}
Provoked == {r \in Reactions : \A set \in ClosedReactions : r \in set}

\* They add no pair: ecs_delete flushes what they queue before it removes the
\* entity, and a pair that names the entity would stay.
ASSUME ProvokedAssumption == \A r \in Provoked : r.op = "Add" => r.operand \notin Pairs

VARIABLES
    world,
    stageCount,
    stage,          \* for each stage: [defer, queue, entries, flushed, stale, at, phase, added]
    readonly,
    merging,        \* the stages ecs_readonly_end has merged
    deleting,       \* the entity that was cleaned up, and is removed next
    issued, reacted,    \* bounds
    expected,       \* history: the outcome of the flush where commands run one by one
    bypassed        \* history: the storage was changed while commands were queued

vars == <<world, stageCount, stage, readonly, merging, deleting, issued, reacted, expected, bypassed>>

Stages == 0 .. stageCount - 1

\* The commands of game code and of observers
Command(e, op, id, value) ==
    [op |-> op, kind |-> op, entity |-> e, id |-> id, value |-> value, next |-> 0, entry |-> FALSE]
CommandsOf(entities) ==
    {c \in {Command(e, op, id, Default) : e \in entities, op \in {"Add", "Remove"}, id \in AllIds} :
        c.id \in Pairs => c.id.target # c.entity.id}
    \cup {Command(e, "Set", c, v) : e \in entities, c \in Components, v \in Values}
    \cup {Command(e, op, NoId, Default) : e \in entities, op \in {"Clear", "Delete"}}

\* The handle of an id
Handle(w, id) == [id |-> id, gen |-> w.gen[id]]
LivingEntities == {Handle(world, id) : id \in world.alive}

\* at is 0 while the stage is not flushed (cmd_flushing).
Flushing(st) == \E s \in Stages : st[s].at # 0
\* No operation is going on.
Idle == ~Flushing(stage) /\ merging = stageCount /\ deleting = {}

Empty == [defer |-> 0, queue |-> <<>>, entries |-> [id \in Ids |-> NoEntry],
          flushed |-> <<>>, stale |-> [id \in Ids |-> NoEntry],
          at |-> 0, phase |-> "visit", added |-> {}]

TypeOK ==
    /\ world.alive \subseteq Ids
    /\ world.gen \in [Ids -> 0 .. MaxGen + 1]
    /\ world.has \in [Ids -> SUBSET AllIds]
    /\ \A id \in Ids \ world.alive : world.has[id] = {}
    /\ world.value \in [Ids -> [Components -> Values \cup {Default}]]
    /\ stageCount \in 1 .. MaxStages
    /\ \A s \in Stages :
          /\ stage[s].defer \in -MaxDepth .. MaxDepth
          /\ stage[s].phase \in {"visit", "set", "execute"}
          /\ stage[s].at \in 0 .. Len(stage[s].flushed)
    /\ readonly \in BOOLEAN /\ merging \in 0 .. stageCount
    /\ deleting \subseteq [id : Ids, gen : 0 .. MaxGen]

\* Any world of entities of the first generation
Init ==
    /\ \E has \in [Ids -> SUBSET AllIds] :
          /\ \A id \in Ids : \A p \in has[id] \cap Pairs : p.target # id
          /\ world = [alive |-> Ids, gen |-> [id \in Ids |-> 0], has |-> has,
                      value |-> [id \in Ids |-> [c \in Components |-> Default]]]
    /\ stageCount \in 1 .. MaxStages
    /\ stage = [s \in Stages |-> Empty]
    /\ readonly = FALSE /\ merging = stageCount /\ deleting = {}
    /\ issued = 0 /\ reacted = 0
    /\ expected = NoWorld /\ bypassed = FALSE

-----------------------------------------------------------------------------
\* Stages

\* flecs_defer_add, flecs_defer_remove, flecs_defer_set, flecs_defer_clear,
\* flecs_defer_delete: a command is queued.  A value is written at once where
\* there is one stage and the entity has the component.
WritesAtOnce(w, c) == stageCount = 1 /\ c.op = "Set" /\ c.id \in w.has[c.entity.id]
Put(st, s, w, command) ==
    LET c == IF WritesAtOnce(w, command) THEN [command EXCEPT !.kind = "AddModified"] ELSE command
        entry == st[s].entries[c.entity.id]
    IN  [st EXCEPT ![s].queue = Linked(@, entry, c),
                   ![s].entries[c.entity.id] = LinkedEntry(st[s].queue, entry, c)]
\* Mutant: it is not.
NotWritten(w, c) == w
Written(w, c) == IF WritesAtOnce(w, c) THEN [w EXCEPT !.value[c.entity.id][c.id] = c.value] ELSE w

\* The head of the loop of flecs_defer_end: the queues change places.
StartFlush(st, s) ==
    [st EXCEPT ![s].queue = <<>>, ![s].flushed = st[s].queue,
               ![s].entries = st[s].stale, ![s].stale = st[s].entries,
               ![s].at = IF st[s].queue = <<>> THEN 0 ELSE 1, ![s].phase = "visit"]

\* The flecs_defer_end of an operation on the world: the first stage is flushed
\* if it is not being flushed already.
EndOperation(st) == IF st[0].at = 0 THEN StartFlush(st, 0) ELSE st

\* The entry of the command's entity is invalidated: a command that is queued
\* next begins a chain.
\* Mutant: it is not.
Kept(st, s, c) == st
Invalidated(st, s, c) ==
    IF c.entry THEN [st EXCEPT ![s].stale[c.entity.id] = NoEntry] ELSE st

\* To the next command of the queue, or to the commands that were queued in the
\* meantime
\* Mutant: those wait for the next flush.
LeaveQueued(st, s) ==
    IF st[s].at < Len(st[s].flushed)
    THEN [st EXCEPT ![s].at = @ + 1, ![s].phase = "visit"]
    ELSE [st EXCEPT ![s].at = 0, ![s].phase = "visit", ![s].flushed = <<>>]
NextCommand(st, s) ==
    IF st[s].at < Len(st[s].flushed)
    THEN [st EXCEPT ![s].at = @ + 1, ![s].phase = "visit"]
    ELSE StartFlush(st, s)

-----------------------------------------------------------------------------
\* Observers

\* What the step from w to v, and the values it sets, tell the observers
Events(w, v, sets) ==
    (UNION {{[on |-> "OnAdd", entity |-> Handle(v, id), id |-> c] : c \in v.has[id] \ w.has[id]} : id \in Ids})
    \cup (UNION {{[on |-> "OnRemove", entity |-> Handle(w, id), id |-> c] : c \in w.has[id] \ v.has[id]} : id \in Ids})
    \cup {[on |-> "OnSet", entity |-> Handle(v, x[1]), id |-> x[2]] : x \in {y \in sets : y[2] \in v.has[y[1]]}}

\* Observer r is called for event ev in world w.
Answers(r, ev, w) ==
    r.on = ev.on /\ r.id = ev.id /\ (r.target = Self \/ r.target \in w.alive)

\* The command with which observer r answers ev
Answer(r, ev, w) ==
    Command(IF r.target = Self THEN ev.entity ELSE Handle(w, r.target), r.op, r.operand, r.value)

\* What comes of an operation that leads to world w and stages st: one of its
\* observers may answer.  OnRemove is emitted before anything is removed: a value
\* that is written then is lost with the component.
Outcomes(w, st, events) ==
    LET Seen(ev) == IF ev.on = "OnRemove" THEN world ELSE w
        answered == IF reacted = MaxReactions THEN {}
                    ELSE {x \in events \X Reactions : Answers(x[2], x[1], Seen(x[1]))}
    IN  {[world |-> w, stage |-> st, reacted |-> reacted]}
        \cup {LET c == Answer(x[2], x[1], Seen(x[1]))
              IN  [world |-> Written(w, c), stage |-> Put(st, 0, Seen(x[1]), c),
                   reacted |-> reacted + 1] : x \in answered}

\* An operation on the world, from the flecs_defer_begin to the flecs_defer_end
\* around it
Operate(w, st, events) ==
    \E o \in Outcomes(w, st, events) :
        world' = o.world /\ stage' = EndOperation(o.stage) /\ reacted' = o.reacted

\* A flush that observers add to has no expected outcome.
KeepExpected == expected' = IF reacted' = reacted THEN expected ELSE NoWorld

-----------------------------------------------------------------------------
\* Game code

\* ecs_defer_begin
DeferBegin ==
    /\ Idle /\ ~readonly
    /\ stage[0].defer \in 0 .. MaxDepth - 1
    /\ stage' = [stage EXCEPT ![0].defer = @ + 1]
    /\ UNCHANGED <<world, stageCount, readonly, merging, deleting, issued, reacted, expected, bypassed>>

\* The flush that begins has the outcome of its commands, one by one.  Batching
\* brings the commands of an entity forward: one that takes away what would end
\* the entity with its target makes a difference where something is deleted
\* before it, or because of a target that is dead by now.
TakesAway(c) ==
    \/ c.op = "Clear"
    \/ c.op = "Remove" /\ c.id \in Pairs /\ c.id.rel \in DeletePolicy
Tangled(q) ==
    \E i, j \in DOMAIN q : TakesAway(q[j])
        /\ \/ i < j /\ q[i].op = "Delete"
           \/ q[i].op \in {"Add", "Remove"} /\ DeletesEntity(world, q[i].id)

\* A value that was written at once, and is the last one that was set, is not
\* there in the end: it went when the storage was changed while deferring was
\* suspended, or the batch puts an earlier value over it.
SetsSame(c, d) == c.op = "Set" /\ d.op = "Set" /\ c.entity = d.entity /\ c.id = d.id
IsLastSet(q, j) == q[j].kind = "AddModified" /\ \A k \in j + 1 .. Len(q) : ~SetsSame(q[k], q[j])
Lost(q) ==
    \E j \in DOMAIN q : IsLastSet(q, j) /\ world.value[q[j].entity.id][q[j].id] # q[j].value
Overwritten(q) ==
    \E j \in DOMAIN q : IsLastSet(q, j) /\ \E i \in 1 .. j - 1 : SetsSame(q[i], q[j]) /\ q[i].kind = "Set"
Expected(q) ==
    IF Tangled(q) \/ Overwritten(q) \/ (bypassed /\ Lost(q)) THEN NoWorld ELSE Sequential(world, q)

\* flecs_defer_end of a stage: with the last one, the queue is flushed.
EndsDefer(s) == stage[s].defer = 1
DeferEndOf(s) ==
    LET st == [stage EXCEPT ![s].defer = @ - 1]
    IN  IF EndsDefer(s)
        THEN /\ stage' = StartFlush(st, s)
             /\ expected' = Expected(stage[s].queue) /\ bypassed' = FALSE
        ELSE stage' = st /\ UNCHANGED <<expected, bypassed>>

\* ecs_defer_end
DeferEnd ==
    /\ Idle /\ ~readonly
    /\ stage[0].defer > 0
    /\ DeferEndOf(0)
    /\ UNCHANGED <<world, stageCount, readonly, merging, deleting, issued, reacted>>

\* ecs_defer_suspend, ecs_defer_resume
DeferSuspend ==
    /\ Idle /\ ~readonly
    /\ stage[0].defer # 0
    /\ stage' = [stage EXCEPT ![0].defer = -@]
    /\ UNCHANGED <<world, stageCount, readonly, merging, deleting, issued, reacted, expected, bypassed>>

\* ecs_readonly_begin
ReadonlyBegin ==
    /\ Idle /\ ~readonly
    /\ stage[0].defer = 0
    /\ stage' = [s \in Stages |-> [stage[s] EXCEPT !.defer = @ + 1]]
    /\ readonly' = TRUE
    /\ UNCHANGED <<world, stageCount, merging, deleting, issued, reacted, expected, bypassed>>

\* ecs_readonly_end, flecs_stage_merge: the stages are merged in their order.
ReadonlyEnd ==
    /\ Idle /\ readonly
    /\ readonly' = FALSE
    /\ merging' = 0
    /\ UNCHANGED <<world, stageCount, stage, deleting, issued, reacted, expected, bypassed>>
MergeStage ==
    /\ merging < stageCount /\ ~Flushing(stage) /\ deleting = {}
    /\ DeferEndOf(merging)
    /\ merging' = merging + 1
    /\ UNCHANGED <<world, stageCount, readonly, deleting, issued, reacted>>

\* An operation of game code on a stage that is deferred
Defer(s, c) ==
    /\ Idle
    /\ stage[s].defer > 0
    /\ issued < MaxCommands /\ issued' = issued + 1
    /\ stage' = Put(stage, s, world, c)
    /\ world' = Written(world, c)
    /\ expected' = NoWorld
    /\ UNCHANGED <<stageCount, readonly, merging, deleting, reacted, bypassed>>

\* The events of command c, that leads from world v to w
EventsOf(v, c, w) ==
    IF Alive(world, c.entity)
    THEN Events(v, w, IF c.kind \in {"Set", "AddModified", "Modified"}
                          THEN {<<c.entity.id, c.id>>} ELSE {})
    ELSE {}

\* A command that is an ecs_delete of its entity
EndsEntity(c) == c.kind = "Delete" \/ (c.kind = "Add" /\ DeletesEntity(world, c.id))

\* What ecs_delete leaves to do when its cleanup was flushed: where the first
\* stage is being flushed already, that flush takes what the cleanup queued, too.
CleanedUp(c) == IF EndsEntity(c) /\ stage[0].at = 0 THEN CleanUp(world, c.entity) ELSE world

\* ... and on the world, while nothing is deferred
Direct(c) ==
    /\ Idle /\ ~readonly
    /\ stage[0].defer = 0
    /\ issued < MaxCommands /\ issued' = issued + 1
    /\ LET w == Apply(world, c) IN Operate(w, stage, EventsOf(CleanedUp(c), c, w))
    /\ expected' = NoWorld
    /\ UNCHANGED <<stageCount, readonly, merging, deleting, bypassed>>

\* ecs_delete up to the flush in its middle, when an observer answers the cleanup:
\* where none does the deletion is one step.
BeginDelete(e, st) ==
    LET w == CleanUp(world, e)
    IN  /\ \E o \in Outcomes(w, st, Events(world, w, {})) :
              /\ o.reacted # reacted
              /\ world' = o.world /\ stage' = EndOperation(o.stage) /\ reacted' = o.reacted
        /\ deleting' = {e}
        /\ expected' = NoWorld
DirectDelete(c) ==
    /\ Idle /\ ~readonly
    /\ stage[0].defer = 0
    /\ issued < MaxCommands /\ issued' = issued + 1
    /\ EndsEntity(c) /\ BeginDelete(c.entity, stage)
    /\ UNCHANGED <<stageCount, readonly, merging, bypassed>>

\* ... and from that flush on, unless the entity died in it
FinishDelete ==
    /\ stage[0].at = 0
    /\ \E e \in deleting :
          LET w == IF Alive(world, e) THEN Removed(world, e) ELSE world
          IN  Operate(w, stage, Events(world, w, {}))
    /\ deleting' = {}
    /\ expected' = NoWorld
    /\ UNCHANGED <<stageCount, readonly, merging, issued, bypassed>>

\* ... or while deferring is suspended, when no observer cares
DirectSuspended(c) ==
    /\ Idle
    /\ stage[0].defer < 0
    /\ issued < MaxCommands /\ issued' = issued + 1
    /\ world' = Apply(world, c)
    /\ \A ev \in EventsOf(world, c, world'), r \in Reactions : r.on # ev.on \/ r.id # ev.id
    /\ expected' = NoWorld /\ bypassed' = (stage[0].queue # <<>>)
    /\ UNCHANGED <<stageCount, stage, readonly, merging, deleting, reacted>>

\* ecs_new: an id is recycled at once, also while deferred.
New(id) ==
    /\ Idle /\ ~readonly
    /\ id \notin world.alive /\ world.gen[id] <= MaxGen
    /\ world' = [world EXCEPT !.alive = @ \cup {id}]
    /\ expected' = NoWorld
    /\ UNCHANGED <<stageCount, stage, readonly, merging, deleting, issued, reacted, bypassed>>

-----------------------------------------------------------------------------
\* The flush

\* Stage s is at a command, and what its operations queued was flushed.
Flushes(s) == stage[s].at # 0 /\ (s = 0 \/ (stage[0].at = 0 /\ deleting = {}))
Current(s) == stage[s].flushed[stage[s].at]
Batches(s) ==
    /\ Flushes(s) /\ stage[s].phase = "visit"
    /\ Current(s).next < 0 /\ Alive(world, Current(s).entity)

\* flecs_cmd_batch_for_entity, up to the commit.  OnAdd is emitted by FinishBatch.
CommitBatch(s) ==
    LET q == stage[s].flushed
        i == stage[s].at
        e == q[i].entity
        w == Commit(world, e, BatchedType(world, q, i))
    IN  /\ Batches(s) /\ ~BatchDeletes(world, q, i)
        /\ Operate(w,
                   [stage EXCEPT ![s].phase = "set", ![s].flushed = Batched(q, i),
                                 ![s].added = BatchAdded(world, q, i)],
                   {[on |-> "OnRemove", entity |-> e, id |-> c] :
                       c \in IF w.has[e.id] = world.has[e.id] THEN {} ELSE BatchRemoved(world, q, i)})
        /\ KeepExpected
        /\ UNCHANGED <<stageCount, readonly, merging, deleting, issued, bypassed>>

\* ... when it meets an id whose target is not alive
EndsBatch(s) == Batches(s) /\ BatchDeletes(world, stage[s].flushed, stage[s].at)
DeleteBatch(s) ==
    LET e == Current(s).entity
        v == IF s = 0 THEN world ELSE CleanUp(world, e)
        w == Delete(world, e)
    IN  /\ EndsBatch(s)
        /\ Operate(w, [stage EXCEPT ![s].phase = "execute"], Events(v, w, {}))
        /\ KeepExpected
        /\ UNCHANGED <<stageCount, readonly, merging, deleting, issued, bypassed>>
BeginDeleteBatch(s) ==
    /\ s # 0 /\ EndsBatch(s)
    /\ BeginDelete(Current(s).entity, [stage EXCEPT ![s].phase = "execute"])
    /\ UNCHANGED <<stageCount, readonly, merging, issued, bypassed>>

\* ... and from the commit on: values are put in place, and OnAdd is emitted.
FinishBatch(s) ==
    LET q == stage[s].flushed
        i == stage[s].at
        e == q[i].entity
    IN  /\ Flushes(s) /\ stage[s].phase = "set"
        /\ Alive(world, e)
        /\ Operate(BatchedValues(world, q, i),
                   [stage EXCEPT ![s].phase = "execute", ![s].flushed = BatchedSets(world, q, i),
                                 ![s].added = {}],
                   {[on |-> "OnAdd", entity |-> e, id |-> c] : c \in stage[s].added \cap world.has[e.id]})
        /\ KeepExpected
        /\ UNCHANGED <<stageCount, readonly, merging, deleting, issued, bypassed>>

Discards(c) == c.kind = "Skip" \/ ~Alive(world, c.entity)

\* The command itself; the entry of its entity is invalidated first.
Executes(s) == Flushes(s) /\ ~Batches(s) /\ stage[s].phase # "set"
Execute(s) ==
    LET c == Current(s)
        w == Apply(world, c)
        st == Invalidated(stage, s, c)
    IN  /\ Executes(s)
        /\ \/ /\ Discards(c)
              /\ stage' = NextCommand(st, s)
              /\ UNCHANGED <<world, reacted>>
           \/ /\ ~Discards(c)
              /\ \E o \in Outcomes(w, st, EventsOf(CleanedUp(c), c, w)) :
                    /\ world' = o.world /\ reacted' = o.reacted
                    /\ stage' = NextCommand(EndOperation(o.stage), s)
        /\ KeepExpected
        /\ UNCHANGED <<stageCount, readonly, merging, deleting, issued, bypassed>>

\* ... where it deletes the entity, and the cleanup is answered.  Nothing else
\* happens to stage s before the entity is removed.
BeginExecute(s) ==
    LET c == Current(s)
    IN  /\ s # 0 /\ Executes(s) /\ ~Discards(c) /\ EndsEntity(c)
        /\ BeginDelete(c.entity, NextCommand(Invalidated(stage, s, c), s))
        /\ UNCHANGED <<stageCount, readonly, merging, issued, bypassed>>

Next ==
    \/ DeferBegin \/ DeferEnd \/ DeferSuspend
    \/ ReadonlyBegin \/ ReadonlyEnd \/ MergeStage
    \/ \E c \in CommandsOf(LivingEntities) :
          Direct(c) \/ DirectDelete(c) \/ DirectSuspended(c) \/ \E s \in Stages : Defer(s, c)
    \/ \E id \in Ids : New(id)
    \/ FinishDelete
    \/ \E s \in Stages :
          \/ CommitBatch(s) \/ DeleteBatch(s) \/ BeginDeleteBatch(s) \/ FinishBatch(s)
          \/ Execute(s) \/ BeginExecute(s)

Spec == Init /\ [][Next]_vars

-----------------------------------------------------------------------------
\* Properties

\* The queues of a stage: the entry of an id names the first and the last
\* command of one entity, and all of its commands between them are linked, so
\* that a batch misses none (flecs_cmd_new_batched).  A queue that was flushed
\* leaves no entry behind.
OwnCommands(q, entry) ==
    {j \in entry.first .. Len(q) : q[j].entity = q[entry.first].entity}
ChainSound(q, entry, id) ==
    LET own == OwnCommands(q, entry)
    IN  /\ entry.first \in DOMAIN q /\ q[entry.first].entry /\ q[entry.first].entity.id = id
        /\ entry.last \in own /\ \A j \in own : j <= entry.last
        /\ \A j \in own \ {entry.last} :
              Abs(q[j].next) \in own /\ \A k \in own : k > j => Abs(q[j].next) <= k
        /\ q[entry.last].next = 0
Chained(q, entries) ==
    \A id \in Ids : entries[id].first # 0 => ChainSound(q, entries[id], id)
ChainsLinked ==
    \A s \in Stages : Chained(stage[s].queue, stage[s].entries)
                      /\ (stage[s].at = 0 => \A id \in Ids : stage[s].stale[id] = NoEntry)

\* When nothing is deferred and no flush is going on, no command is left: what
\* observers queue in a flush is flushed with it (flecs_defer_end).
NothingLeft ==
    \A s \in Stages : Idle /\ stage[s].defer = 0 => stage[s].queue = <<>>

\* No entity has a pair with a target that is not alive, whatever was deleted
\* between the queueing of a command and its flush (flecs_remove_invalid).
NoDanglingTargets ==
    \A id \in world.alive : \A p \in world.has[id] \cap Pairs : p.target \in world.alive

\* The world is well typed and its pairs are sound.
WorldSound == TypeOK /\ NoDanglingTargets

\* A flush leaves the entities, the types and the values that its commands have
\* one by one, in their order, where no observer adds to them
\* (flecs_cmd_batch_for_entity).  A component that is removed and added again
\* keeps its value in a batch: no value is expected there.
FlushIsSequential ==
    (expected # NoWorld /\ ~Flushing(stage)) =>
        /\ world.alive = expected.alive
        /\ world.has = expected.has
        /\ \A id \in world.alive : \A c \in world.has[id] \cap Components :
              expected.value[id][c] \in {Default, world.value[id][c]}

\* flecs_cmd_batch_for_entity: the entity is there after its commit, as the
\* assertion r->table != NULL says.
BatchedEntityAlive ==
    \A s \in Stages : Flushes(s) /\ stage[s].phase = "set" => Alive(world, Current(s).entity)
=============================================================================
