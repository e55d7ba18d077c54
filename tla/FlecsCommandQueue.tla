-------------------------- MODULE FlecsCommandQueue --------------------------
(***************************************************************************)
(* What a command does to the world, and how commands are queued and         *)
(* batched (commands.c): operators on worlds and queues, without state.      *)
(*                                                                          *)
(* A world has the ids that are alive with their generation, the type of     *)
(* each (components, and pairs, which name their target without its          *)
(* generation) and the values of its components.  A queue is a sequence of   *)
(* commands; "next" is next_for_entity, negative in the first command of an  *)
(* entity that has several, and entries has the first and the last of each   *)
(* id (first is 0 where the code has -1: the indices begin with 1 here).     *)
(***************************************************************************)
EXTENDS Integers, Sequences

CONSTANTS
    Ids,
    MaxGen,         \* bound of the generations
    Components,
    Relations,
    Targets,        \* the ids that pairs name
    DeletePolicy,   \* the relations with (OnDeleteTarget, Delete)
    Values,
    Default         \* what a constructor makes

ASSUME DeletePolicyAssumption == DeletePolicy \subseteq Relations /\ Targets \subseteq Ids

Entity == [id : Ids, gen : 0 .. MaxGen]
Pairs == [rel : Relations, target : Targets]

ASSUME IdsAssumption == Components \cap Pairs = {} /\ MaxGen \in Nat

-----------------------------------------------------------------------------
\* Worlds

\* flecs_entities_is_alive
Alive(w, e) == e.id \in w.alive /\ w.gen[e.id] = e.gen

\* The type of a living entity becomes ids: flecs_commit
Commit(w, e, ids) ==
    [w EXCEPT
        !.has[e.id] = ids,
        !.value[e.id] = [c \in Components |-> IF c \in ids \cap w.has[e.id] THEN @[c] ELSE Default]]

\* The ids that cease to be with id: itself, and whatever has a pair with one of
\* them and a relation with the Delete policy
DiesWith(w, i, ids) ==
    \E p \in w.has[i] \cap Pairs : p.rel \in DeletePolicy /\ p.target \in ids
Doomed(w, id) ==
    LET known == {id} \cup w.alive
        closed == {ids \in SUBSET known :
                      id \in ids /\ \A i \in w.alive : DiesWith(w, i, ids) => i \in ids}
    IN  {i \in known : \A ids \in closed : i \in ids}

\* The entities ids are removed, and the pairs that name one of targets
Without(w, ids, targets) ==
    [w EXCEPT
        !.alive = @ \ ids,
        !.gen = [i \in Ids |-> IF i \in ids THEN @[i] + 1 ELSE @[i]],
        !.has = [i \in Ids |-> IF i \in ids THEN {}
                               ELSE {c \in @[i] : c \in Pairs => c.target \notin targets}],
        !.value = [i \in Ids |-> IF i \in ids THEN [c \in Components |-> Default] ELSE @[i]]]

\* flecs_on_delete: the cleanup before e is removed, which leaves e itself, unless
\* it dies with what it names
CleanUp(w, e) ==
    LET doomed == Doomed(w, e.id)
    IN  Without(w, IF DiesWith(w, e.id, doomed) THEN doomed ELSE doomed \ {e.id}, doomed)

\* ... and the removal of e
Removed(w, e) == Without(w, {e.id}, {})

\* ecs_delete: both
Delete(w, e) == LET doomed == Doomed(w, e.id) IN Without(w, doomed, doomed)

-----------------------------------------------------------------------------
\* Commands

\* flecs_remove_invalid: the target of a pair is not alive any more.
\* Mutant: that is not looked at.
NeverInvalid(w, id) == FALSE
Invalid(w, id) == id \in Pairs /\ id.target \notin w.alive
\* ... and its relation says that the entity is deleted with it.
DeletesEntity(w, id) == Invalid(w, id) /\ id.rel \in DeletePolicy

\* One command of flecs_defer_end.  A Set that found the component when it was
\* queued has written the value by then and is an AddModified here.
Apply(w, c) ==
    LET has == w.has[c.entity.id]
    IN  CASE c.kind = "Add" /\ DeletesEntity(w, c.id) -> Delete(w, c.entity)
          [] c.kind = "Add" /\ ~Invalid(w, c.id) -> Commit(w, c.entity, has \cup {c.id})
          [] c.kind = "Remove" -> Commit(w, c.entity, has \ {c.id})
          [] c.kind = "Set" -> [Commit(w, c.entity, has \cup {c.id})
                                    EXCEPT !.value[c.entity.id][c.id] = c.value]
          [] c.kind = "AddModified" -> Commit(w, c.entity, has \cup {c.id})
          [] c.kind = "Clear" -> Commit(w, c.entity, {})
          [] c.kind = "Delete" -> Delete(w, c.entity)
          [] OTHER -> w     \* Modified, Skip, and Add of an id that is not valid

\* The operations of a queue as they were called, one after the other
Sequential(w, q) ==
    LET after[n \in 0 .. Len(q)] ==
            IF n = 0 THEN w
            ELSE IF Alive(after[n - 1], q[n].entity) THEN Apply(after[n - 1], [q[n] EXCEPT !.kind = q[n].op])
            ELSE after[n - 1]
    IN  after[Len(q)]

-----------------------------------------------------------------------------
\* Queues

Abs(n) == IF n < 0 THEN -n ELSE n

NoEntry == [first |-> 0, last |-> 0]

\* flecs_cmd_new_batched: whether the command is linked to the last of its entity
\* Mutant: also when that has another generation.
IsLinkedToId(q, entry, c) == entry.first # 0
IsLinked(q, entry, c) == entry.first # 0 /\ q[entry.last].entity = c.entity

Linked(q, entry, c) ==
    Append(IF IsLinked(q, entry, c)
           THEN [q EXCEPT ![entry.last].next =
                    IF entry.last = entry.first THEN -(Len(q) + 1) ELSE Len(q) + 1]
           ELSE q,
           [c EXCEPT !.entry = ~IsLinked(q, entry, c)])

LinkedEntry(q, entry, c) ==
    [first |-> IF IsLinked(q, entry, c) THEN entry.first ELSE Len(q) + 1, last |-> Len(q) + 1]

\* The commands flecs_cmd_batch_for_entity follows from the first: up to a Delete
Chain(q, i) ==
    LET follows[j \in i .. Len(q)] ==
            j = i \/ \E k \in i .. j - 1 : follows[k] /\ Abs(q[k].next) = j /\ q[k].kind # "Delete"
    IN  {j \in i .. Len(q) : follows[j]}

\* The batch meets an id that is not valid, whether added or removed, and ends
\* the entity.
BatchDeletes(w, q, i) == \E j \in Chain(q, i) : q[j].kind \in {"Add", "Remove"} /\ DeletesEntity(w, q[j].id)

\* What a command of the batch makes of the type
TypeAfter(w, c, before) ==
    IF Invalid(w, c.id) THEN before
    ELSE CASE c.kind \in {"Add", "Set", "AddModified"} -> before \cup {c.id}
           [] c.kind = "Remove" -> before \ {c.id}
           [] c.kind = "Clear" -> {}
           [] OTHER -> before

\* The type before each command of the batch, and the one it ends with
BatchTypes(w, q, i) ==
    LET chain == Chain(q, i)
        type[j \in i .. Len(q) + 1] ==
            IF j = i THEN w.has[q[i].entity.id]
            ELSE IF j - 1 \in chain THEN TypeAfter(w, q[j - 1], type[j - 1])
            ELSE type[j - 1]
    IN  type
BatchedType(w, q, i) == BatchTypes(w, q, i)[Len(q) + 1]

\* What the batch adds on the way, and has in the end
BatchAdded(w, q, i) ==
    LET type == BatchTypes(w, q, i)
    IN  type[Len(q) + 1] \cap UNION {type[j + 1] \ type[j] : j \in i .. Len(q)}

\* The ids of the entity that the batch removes on the way, also where it adds
\* them again
BatchRemoved(w, q, i) ==
    LET type == BatchTypes(w, q, i)
    IN  w.has[q[i].entity.id] \cap UNION {type[j] \ type[j + 1] : j \in i .. Len(q)}

\* What remains of the commands when their type was committed ...
BatchedKind(c) ==
    CASE c.kind \in {"Add", "Remove", "Clear"} -> "Skip"
      [] c.kind = "AddModified" -> "Modified"
      [] OTHER -> c.kind
Batched(q, i) ==
    [j \in 1 .. Len(q) |-> IF j \in Chain(q, i) THEN [q[j] EXCEPT !.kind = BatchedKind(q[j])] ELSE q[j]]

\* ... and when the values are in place, in their order, where the entity has
\* the component in the end
BatchedValues(w, q, i) ==
    LET e == q[i].entity
        Sets(c) == {j \in Chain(q, i) : q[j].kind = "Set" /\ q[j].id = c}
    IN  [w EXCEPT !.value[e.id] = [c \in Components |->
            IF c \in w.has[e.id] /\ Sets(c) # {}
            THEN q[CHOOSE j \in Sets(c) : \A k \in Sets(c) : k <= j].value
            ELSE @[c]]]
BatchedSets(w, q, i) ==
    [j \in 1 .. Len(q) |->
        IF j \in Chain(q, i) /\ q[j].kind = "Set"
        THEN [q[j] EXCEPT !.kind = IF q[j].id \in w.has[q[i].entity.id] THEN "Modified" ELSE "Skip"]
        ELSE q[j]]
=============================================================================
