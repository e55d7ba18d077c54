---------------------------- MODULE FlecsPipeline ----------------------------
(***************************************************************************)
(* A run of a pipeline (flecs_run_pipeline, flecs_pipeline_update,           *)
(* flecs_run_pipeline_ops in addons/pipeline/pipeline.c): its operations run *)
(* one after the other, the commands that systems enqueued are merged after  *)
(* each, and where a merge has changed which systems there are the schedule  *)
(* is built anew and resumed.                                                *)
(*                                                                          *)
(* How an operation is shared between threads is FlecsWorkers' subject.      *)
(*                                                                          *)
(* sys->last_frame is only compared with the current frame: "marked" is the  *)
(* set of systems for which they are equal.                                  *)
(***************************************************************************)
EXTENDS FlecsPipelineSchedule, SequencesExt

CONSTANTS
    Kinds,          \* of systems
    SystemData,     \* what a kind of system is: [terms, multi_threaded, immediate]
    Volatile        \* the systems that game code enables, disables, (de)activates

ASSUME SystemDataAssumption ==
    \A kind \in Kinds : SystemData[kind] \in SystemRecords /\ NeedsNoMerge(SystemData[kind])
ASSUME VolatileAssumption == Volatile \subseteq Systems

VARIABLES
    sys,            \* what each system is; never changes
    status,         \* of a system: not matched by the pipeline's query, tagged EcsEmpty, or active
    changed,        \* pq->match_count differs from the query's
    systems, ops,   \* pq->systems, pq->ops
    cur_op,         \* index into ops; 0 is NULL
    cur_i,          \* index into systems, from 0
    marked,         \* systems with last_frame = frame_count_total + 1
    running,        \* in flecs_run_pipeline
    ran,            \* history: the systems this run has run
    due,            \* history: the systems this run should have run by its end
    located         \* history: the marks show which systems this run has run

scheduleVars == <<systems, ops, cur_op, cur_i>>
historyVars == <<ran, due, located>>
vars == <<sys, status, changed, scheduleVars, marked, running, historyVars>>

Statuses == {"unmatched", "empty", "active"}
Inactive == {s \in Systems : status[s] = "empty"}
Active == {s \in Systems : status[s] = "active"}

TypeOK ==
    /\ sys \in [Systems -> Kinds]
    /\ status \in [Systems -> Statuses]
    /\ changed \in BOOLEAN /\ running \in BOOLEAN /\ located \in BOOLEAN
    /\ systems \in Seq(Systems)
    /\ \A k \in DOMAIN ops :
           /\ ops[k].offset \in Nat /\ ops[k].count \in Nat
           /\ ops[k].multi_threaded \in BOOLEAN /\ ops[k].immediate \in BOOLEAN
    /\ cur_op \in 0 .. Len(ops)
    /\ cur_i \in Nat
    /\ marked \subseteq Systems /\ ran \subseteq Systems /\ due \subseteq Systems

Init ==
    /\ sys \in [Systems -> Kinds]
    /\ status \in [Systems -> Statuses]
    /\ changed = TRUE       \* match_count = -1
    /\ systems = <<>> /\ ops = <<>> /\ cur_op = 0 /\ cur_i = 0
    /\ marked = {}
    /\ running = FALSE
    /\ ran = {} /\ due = {} /\ located = TRUE

-----------------------------------------------------------------------------

\* Mutant: the schedule is resumed after the first of the marked systems.
ResumedAtFirst(s, marks, cur) ==
    LET done == {i \in DOMAIN s.systems : s.systems[i] \in marks}
        i == Min(done)
        o == CHOOSE k \in DOMAIN s.ops : s.ops[k].offset < i /\ i <= s.ops[k].offset + s.ops[k].count
    IN  IF done = {} THEN cur
        ELSE IF i < s.ops[o].offset + s.ops[o].count THEN [op |-> o, i |-> i - 1]
        ELSE IF o < Len(s.ops) THEN [op |-> o + 1, i |-> i - 1]
        ELSE [op |-> 0, i |-> 0]

\* Mutant: the schedule is not resumed.
NotResumed(s, marks, cur) == cur

\* flecs_pipeline_build, for a schedule s: cur_op and cur_i are those of the
\* last system that is marked.  Without one they are left as they are: cur_op
\* points where it pointed, into a vector that holds other operations now.
Resumed(s, marks, cur) ==
    LET done == {i \in DOMAIN s.systems : s.systems[i] \in marks}
        i == Max(done)
        o == CHOOSE k \in DOMAIN s.ops : s.ops[k].offset < i /\ i <= s.ops[k].offset + s.ops[k].count
    IN  IF done = {} THEN cur
        ELSE IF i < s.ops[o].offset + s.ops[o].count THEN [op |-> o, i |-> i - 1]
        ELSE IF o < Len(s.ops) THEN [op |-> o + 1, i |-> i - 1]
        ELSE [op |-> 0, i |-> 0]

\* Mutant: the last operation is followed by the first.
NextSystemRound(s, cur) ==
    IF cur.op = 0 THEN cur
    ELSE IF cur.op <= Len(s.ops) /\ cur.i + 1 < s.ops[cur.op].offset + s.ops[cur.op].count
         THEN [cur EXCEPT !.i = @ + 1]
    ELSE [op |-> IF cur.op < Len(s.ops) THEN cur.op + 1 ELSE 1, i |-> cur.i + 1]

\* flecs_pipeline_next_system.  An operation that is there no more was at its
\* end: its memory still says so.
NextSystem(s, cur) ==
    IF cur.op = 0 THEN cur
    ELSE IF cur.op <= Len(s.ops) /\ cur.i + 1 < s.ops[cur.op].offset + s.ops[cur.op].count
         THEN [cur EXCEPT !.i = @ + 1]
    ELSE [op |-> IF cur.op < Len(s.ops) THEN cur.op + 1 ELSE 0, i |-> cur.i + 1]

\* The schedule after flecs_pipeline_build
BuiltSchedule(rebuild, stat) ==
    IF rebuild THEN Build([s \in Systems |-> SystemData[sys[s]]],
                          {s \in Systems : stat[s] # "unmatched"},
                          {s \in Systems : stat[s] = "active"})
    ELSE [systems |-> systems, ops |-> ops]

\* cur_op after a rebuild that found no marked system: where the vector has
\* grown it may have moved, and what cur_op points to is anything.
Stale(s, cur) ==
    {cur} \cup (IF Len(s.ops) > Len(ops) THEN {[cur EXCEPT !.op = o] : o \in 0 .. Len(s.ops)} ELSE {})

\* flecs_pipeline_update after a merge.  A pipeline that became empty is taken
\* to be changed the next time too.
UpdatePipeline(s, rebuild, marks, last) ==
    /\ systems' = s.systems /\ ops' = s.ops
    /\ changed' = (rebuild /\ s.ops = <<>>)
    /\ LET lost == rebuild /\ Range(s.systems) \cap marks = {}
       IN  \E from \in IF lost THEN Stale(s, last) ELSE {last} :
               LET cur == NextSystem(s, IF rebuild THEN Resumed(s, marks, from) ELSE last)
               IN  cur_op' = cur.op /\ cur_i' = cur.i

\* flecs_run_pipeline until its loop: flecs_pipeline_update at the start of a frame
BeginRun ==
    /\ ~running
    /\ running' = TRUE
    /\ LET s == BuiltSchedule(changed, status)
       IN  /\ systems' = s.systems /\ ops' = s.ops
           /\ changed' = (changed /\ s.ops = <<>>)
           /\ cur_op' = IF s.ops = <<>> THEN 0 ELSE 1
           /\ cur_i' = 0
    /\ ran' = {}
    /\ due' = Active
    /\ located' = (marked = {})
    /\ UNCHANGED <<sys, status, marked>>

\* flecs_run_pipeline_ops runs the systems from cur_i to the end of the operation.
\* Where cur_i is behind that, nothing ends the loop before the schedule ends.
OperationEnd ==
    LET end == ops[cur_op].offset + ops[cur_op].count
    IN  IF cur_i < end THEN end ELSE Len(systems)
OperationSystems == SubSeq(systems, cur_i + 1, OperationEnd)

\* The index that is returned: of the last system, or the loop's end
ReturnedIndex ==
    IF cur_i < ops[cur_op].offset + ops[cur_op].count THEN OperationEnd - 1
    ELSE Max({cur_i, OperationEnd})

\* Mutant: where the operation ended is not stored.
StoredNowhere(last) == cur_i

\* pq->cur_i = i
Stored(last) == last

\* Which systems are there after a merge: commands create and delete entities
\* (which (de)activates systems), and enable or disable systems.
Changes == {to \in [Systems -> Statuses] : \A s \in Systems \ Volatile : to[s] = status[s]}

\* Systems in the schedule whose turn has not come: what remains of those that
\* have run is before them.
Ahead == {s \in Active : \A r \in ran \cap Active : r < s}

\* The marks in a new schedule show how far the run is, unless no system that has
\* run is left, or one comes back that was gone: what is before it is skipped.
Locates(s) == Range(s.systems) \cap ran' # {} /\ ran \cap Active' \subseteq Active

\* The loop's body: the operation runs, its commands are merged, and the
\* schedule is brought up to date.
RunOperation ==
    /\ running /\ cur_op # 0 /\ cur_i # Len(systems)
    /\ ran' = ran \cup Range(OperationSystems)
    /\ marked' = marked \cup Range(OperationSystems)
    /\ \E to \in IF OperationSystems = <<>> THEN {status} ELSE Changes :
        LET rebuild == changed \/ to # status
            s == BuiltSchedule(rebuild, to)
        IN  /\ status' = to
            /\ UpdatePipeline(s, rebuild, marked',
                   [op |-> cur_op, i |-> Stored(ReturnedIndex)])
            /\ located' = (located /\ (rebuild => Locates(s)))
    /\ due' = (due \cap Active') \cup Ahead'
    /\ UNCHANGED <<sys, running>>

\* An operation without systems
SkipOperation ==
    /\ running /\ cur_op # 0 /\ cur_i = Len(systems)
    /\ UpdatePipeline(BuiltSchedule(changed, status), changed,
                      marked, [op |-> cur_op, i |-> cur_i])
    /\ UNCHANGED <<sys, status, marked, running, historyVars>>

EndRun ==
    /\ running /\ cur_op = 0
    /\ running' = FALSE
    /\ ran' = {} /\ due' = {} /\ located' = TRUE
    /\ UNCHANGED <<sys, status, changed, scheduleVars, marked>>

\* ecs_frame_end: frame_count_total ++.  ecs_progress does this after the world's
\* pipeline; pipelines run by ecs_run_pipeline do not.
EndFrame ==
    /\ ~running
    /\ marked' = {}
    /\ UNCHANGED <<sys, status, changed, scheduleVars, running, historyVars>>

\* Game code between two runs
ChangeSystems ==
    /\ ~running
    /\ status' \in Changes
    /\ changed' = (changed \/ status' # status)
    /\ UNCHANGED <<sys, scheduleVars, marked, running, historyVars>>

Next == BeginRun \/ RunOperation \/ SkipOperation \/ EndRun \/ EndFrame \/ ChangeSystems

Spec == Init /\ [][Next]_vars
-----------------------------------------------------------------------------
(***************************************************************************)
(* Properties                                                                *)
(***************************************************************************)

\* Two ids that some id matches
Overlap(id, other) ==
    \/ AnyId \in {id, other}
    \/ /\ Len(id) = Len(other)
       /\ \A k \in DOMAIN id : "*" \in {id[k], other[k]} \/ id[k] = other[k]

\* What a system stages, and what it matches or reads in the main storage.
Stages(t) == t.inout # "filter" /\ IsStaging(t) /\ Writes(t)
Accesses(t) == t.inout # "filter" /\ (t.src = "this" \/ (IsStaging(t) /\ Reads(t)))
StagedBy(system) == {t.id : t \in {u \in Range(system.terms) : Stages(u)}}
AccessedBy(system) == {t.id : t \in {u \in Range(system.terms) : Accesses(u)}}
Depends(later, earlier) ==
    \E id \in StagedBy(earlier), other \in AccessedBy(later) : Overlap(id, other)

\* Ids with wildcards that overlap where neither matches the other are outside of
\* what flecs_pipeline_get_write_state finds: <<"R", "*">> and <<"*", "A">>.
Nested(later, earlier) ==
    \A id \in StagedBy(earlier), other \in AccessedBy(later) :
        IsWildcard(id) /\ IsWildcard(other) /\ Overlap(id, other)
            => AnyId \in {id, other} \/ Match(other, id)
WildcardsNested == \A kind, other \in Kinds : Nested(SystemData[kind], SystemData[other])

Conflicts ==
    {pair \in Kinds \X Kinds : Depends(SystemData[pair[2]], SystemData[pair[1]])}
Conflict(s, r) == <<sys[s], sys[r]>> \in Conflicts

OperationOf(o) == {systems[i] : i \in ops[o].offset + 1 .. ops[o].offset + ops[o].count}

\* No system runs in an operation after one that stages a component it matches
\* or reads: it would miss what was written, or its own write be overwritten.
StagedIsMerged ==
    \A o \in DOMAIN ops : \A s, r \in OperationOf(o) : s < r => ~Conflict(s, r)

\* An inactive system whose components were staged has a merge before its
\* place, at which it can become active and run this frame.
InactiveMayAwake ==
    ~changed => \A o \in DOMAIN ops : \A s, r \in OperationOf(o), x \in Inactive :
        s < x /\ x < r => ~Conflict(s, x)

\* Every merge between operations has a reason: the mode changes, systems are
\* immediate, or a system at the border (or an inactive one there) accesses
\* what the operation before has staged.
MergesHaveReasons ==
    ~changed => \A o \in 1 .. Len(ops) - 1 :
        \/ ops[o].multi_threaded # ops[o + 1].multi_threaded
        \/ ops[o].immediate \/ ops[o + 1].immediate
        \/ LET before == OperationOf(o)
               next == Min(OperationOf(o + 1))
               border == {next} \cup {x \in Inactive : Min(before) < x /\ x < next}
           IN  \E s \in before, x \in border : s < x /\ Conflict(s, x)

\* Workers run only multi-threaded systems, on their stages; an immediate
\* system, which works on the world itself, has an operation of its own; the
\* operations take up the systems one after the other.
OperationsUniform ==
    /\ \A o \in DOMAIN ops :
        /\ \A s \in OperationOf(o) : /\ SystemData[sys[s]].multi_threaded = ops[o].multi_threaded
                                     /\ SystemData[sys[s]].immediate = ops[o].immediate
        /\ ops[o].immediate => ops[o].count = 1
        /\ ops[o].offset = IF o = 1 THEN 0 ELSE ops[o - 1].offset + ops[o - 1].count
        /\ ops[o].count = 0 => Len(ops) = 1
    /\ ops # <<>> => Len(systems) = Last(ops).offset + Last(ops).count

\* The schedule as flecs_pipeline_build leaves it
ScheduleSound == TypeOK /\ StagedIsMerged /\ InactiveMayAwake /\ OperationsUniform

\* No system runs twice in a run, however the schedule changes under it.
RunsOnce == running /\ cur_op # 0 => Range(OperationSystems) \cap ran = {}

\* While the marks show where the run is, every system that is there when its
\* turn comes, and stays, has run by the end of the run.
DueSystemsRun == running /\ cur_op = 0 /\ located => due \subseteq ran

\* A run comes to its end: each of its steps runs a system that has not run, of
\* which there are finitely many, or goes on to a later operation of the same
\* schedule, or is the last.
RunsProgress ==
    [][running /\ running' => \/ ran' # ran
                              \/ cur_op' > cur_op /\ UNCHANGED <<systems, ops>>
                              \/ cur_op' = 0]_vars
=============================================================================
