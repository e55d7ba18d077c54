---------------------------- MODULE FlecsWorkers ----------------------------
(***************************************************************************)
(* The worker threads of a Flecs pipeline (addons/pipeline/worker.c), the    *)
(* main thread's loop that drives them (flecs_run_pipeline, ecs_progress,    *)
(* ecs_run_pipeline in pipeline.c) and the changes of the number of threads  *)
(* (ecs_set_threads, ecs_set_task_threads).                                  *)
(*                                                                          *)
(* sync_mutex protects workers_running and workers_waiting.  A step is one   *)
(* critical section, which a thread enters when nobody is inside, or what a  *)
(* thread does between two of them.  world->flags is read and written        *)
(* outside of the mutex; each such access is in a step of its own.           *)
(*                                                                          *)
(* A condition variable is the set of threads that wait on it: a wait gives  *)
(* up the mutex and returns after a signal or a broadcast.  Waits that       *)
(* return without one are not in the model (README, section 4).              *)
(*                                                                          *)
(* The operations of a pipeline are told apart by whether they are           *)
(* multi-threaded; what the schedule holds, and how many operations are      *)
(* left, is for FlecsPipeline to say and any here.                           *)
(***************************************************************************)
EXTENDS Integers, FiniteSets

CONSTANT MaxThreads     \* bound of the arguments of ecs_set_threads

ASSUME MaxThreadsAssumption == MaxThreads \in Nat \ {0}

StageIds == 0 .. MaxThreads - 1     \* stage 0 is the main thread's
WorkerIds == 1 .. MaxThreads - 1

VARIABLES
    stage_count,            \* world->stage_count
    held_stage_count,       \* its value while startup systems run with 1; 0 otherwise
    workers_use_task_api,
    worker_cond,            \* world->worker_cond # 0
    frame_count_zero,       \* info.frame_count_total = 0
    quit,                   \* EcsWorldQuitWorkers
    workers_running,
    workers_waiting,
    main,                   \* where the main thread is
    target,                 \* arguments of the ecs_set_threads under way, or NoTarget
    op_multi_threaded,      \* of the operation being run
    worker,                 \* where each worker is
    ran                     \* history: stages that have run the current operation

threadVars == <<worker, workers_running, workers_waiting, quit>>
countVars == <<stage_count, held_stage_count, workers_use_task_api, worker_cond, frame_count_zero, target>>
vars == <<threadVars, countVars, main, op_multi_threaded, ran>>

MainStates ==
    { "idle",       \* outside of any frame
      "progress",   \* in ecs_progress, after the startup systems
      "frame",      \* before flecs_workers_progress
      "next",       \* in flecs_run_pipeline: choose the next operation
      "signal",     \* before flecs_signal_workers
      "run",        \* in flecs_run_pipeline_ops
      "sync",       \* before flecs_wait_for_sync
      "waiting",    \* on sync_cond
      "signalled",  \* sync_cond was signalled
      "merge",      \* before ecs_readonly_end
      "join", "quit", "signal_quit", "join_threads" }   \* in flecs_join_worker_threads

WorkerStates ==
    { "none",       \* stage->thread = 0
      "starting",   \* created, before the first critical section
      "parked",     \* on worker_cond
      "woken",      \* worker_cond was signalled
      "run",        \* in flecs_run_pipeline_ops
      "sync",       \* before flecs_sync_worker
      "finalizing", \* has seen EcsWorldQuitWorkers
      "stopped" }   \* has returned

NoTarget == <<>>

TypeOK ==
    /\ stage_count \in 1 .. MaxThreads
    /\ held_stage_count \in 0 .. MaxThreads
    /\ workers_use_task_api \in BOOLEAN /\ worker_cond \in BOOLEAN
    /\ frame_count_zero \in BOOLEAN
    /\ quit \in BOOLEAN
    /\ workers_running \in 0 .. MaxThreads - 1
    /\ workers_waiting \in 0 .. MaxThreads - 1
    /\ main \in MainStates
    /\ target \in (1 .. MaxThreads) \X BOOLEAN \cup {NoTarget}
    /\ op_multi_threaded \in BOOLEAN
    /\ worker \in [WorkerIds -> WorkerStates]
    /\ ran \subseteq StageIds

Init ==
    /\ stage_count = 1
    /\ held_stage_count = 0
    /\ workers_use_task_api = FALSE /\ worker_cond = FALSE
    /\ frame_count_zero = TRUE
    /\ quit = FALSE
    /\ workers_running = 0
    /\ workers_waiting = 0
    /\ main = "idle"
    /\ target = NoTarget
    /\ op_multi_threaded = FALSE
    /\ worker = [w \in WorkerIds |-> "none"]
    /\ ran = {}

(***************************************************************************)
(* The worker threads: flecs_worker                                          *)
(***************************************************************************)

\* world->workers_running ++; a worker that starts when the threads are being
\* stopped does not wait.
StartWorker(w) ==
    /\ worker[w] = "starting"
    /\ workers_running' = workers_running + 1
    /\ worker' = [worker EXCEPT ![w] = IF quit THEN "woken" ELSE "parked"]
    /\ UNCHANGED <<quit, workers_waiting, countVars, main, op_multi_threaded, ran>>

\* while (!(world->flags & EcsWorldQuitWorkers))
LoopWorker(w) ==
    /\ worker[w] = "woken"
    /\ worker' = [worker EXCEPT ![w] = IF quit THEN "finalizing" ELSE "run"]
    /\ UNCHANGED <<quit, workers_running, workers_waiting, countVars, main, op_multi_threaded, ran>>

RunWorker(w) ==
    /\ worker[w] = "run"
    /\ worker' = [worker EXCEPT ![w] = "sync"]
    /\ ran' = ran \cup {w}
    /\ UNCHANGED <<quit, workers_running, workers_waiting, countVars, main, op_multi_threaded>>

\* Mutant: the first worker to arrive signals.
SyncedMainByFirst == IF main = "waiting" THEN "signalled" ELSE main

\* The last worker to arrive signals sync_cond; nothing happens if the main
\* thread does not wait there yet.
SyncedMain ==
    IF workers_waiting + 1 = stage_count - 1 /\ main = "waiting" THEN "signalled" ELSE main

SyncWorker(w) ==
    /\ worker[w] = "sync"
    /\ workers_waiting' = workers_waiting + 1
    /\ worker' = [worker EXCEPT ![w] = "parked"]
    /\ main' = SyncedMain
    /\ UNCHANGED <<quit, workers_running, countVars, op_multi_threaded, ran>>

\* Mutant: the worker does not count itself out.
StopWorkerUncounted(w) ==
    /\ worker[w] = "finalizing"
    /\ worker' = [worker EXCEPT ![w] = "stopped"]
    /\ UNCHANGED <<quit, workers_running, workers_waiting, countVars, main, op_multi_threaded, ran>>

StopWorker(w) ==
    /\ worker[w] = "finalizing"
    /\ workers_running' = workers_running - 1
    /\ worker' = [worker EXCEPT ![w] = "stopped"]
    /\ UNCHANGED <<quit, workers_waiting, countVars, main, op_multi_threaded, ran>>

(***************************************************************************)
(* The main thread                                                           *)
(***************************************************************************)

\* ecs_os_cond_broadcast(world->worker_cond)
Broadcast == [w \in WorkerIds |-> IF worker[w] = "parked" THEN "woken" ELSE worker[w]]

\* flecs_create_worker_threads
Created(count) == [w \in WorkerIds |-> IF w < count THEN "starting" ELSE worker[w]]

AllRunning == workers_running = stage_count - 1

\* ecs_progress for the first frame, when there are startup systems: they run
\* on one stage, whatever number of threads was asked for.
BeginStartup ==
    /\ main = "idle" /\ frame_count_zero
    /\ frame_count_zero' = FALSE
    /\ held_stage_count' = stage_count
    /\ stage_count' = 1
    /\ main' = "frame"
    /\ UNCHANGED <<threadVars, workers_use_task_api, worker_cond, target, op_multi_threaded, ran>>

\* ecs_progress, ecs_run_pipeline: task threads live for one run.  Only
\* ecs_progress counts frames.
BeginFrame ==
    /\ main \in {"idle", "progress"}
    /\ frame_count_zero' \in {frame_count_zero, FALSE}
    /\ worker' = IF workers_use_task_api THEN Created(stage_count) ELSE worker
    /\ main' = "frame"
    /\ UNCHANGED <<workers_running, workers_waiting, quit, stage_count, held_stage_count,
                   workers_use_task_api, worker_cond, target, op_multi_threaded, ran>>

\* Mutant: the pipeline starts without waiting for the workers.
WaitForNoWorkers ==
    /\ main = "frame"
    /\ main' = "next"
    /\ UNCHANGED <<threadVars, countVars, op_multi_threaded, ran>>

\* flecs_workers_progress: flecs_wait_for_workers spins until all run.
WaitForWorkers ==
    /\ main = "frame"
    /\ stage_count > 1 => AllRunning
    /\ main' = "next"
    /\ UNCHANGED <<threadVars, countVars, op_multi_threaded, ran>>

\* The pipeline has another operation.  worker_cond alone decides whether it may be
\* parallel: on one stage, too, while startup systems run and when there were
\* threads before.
BeginOperation(parallel) ==
    /\ main = "next"
    /\ parallel => worker_cond
    /\ op_multi_threaded' = parallel
    /\ main' = IF parallel THEN "signal" ELSE "run"
    /\ UNCHANGED <<threadVars, countVars, ran>>

SignalWorkers ==
    /\ main = "signal"
    /\ worker' = IF stage_count > 1 THEN Broadcast ELSE worker
    /\ main' = "run"
    /\ UNCHANGED <<workers_running, workers_waiting, quit, countVars, op_multi_threaded, ran>>

RunMain ==
    /\ main = "run"
    /\ ran' = ran \cup {0}
    /\ main' = IF op_multi_threaded THEN "sync" ELSE "merge"
    /\ UNCHANGED <<threadVars, countVars, op_multi_threaded>>

\* Mutant: only the main thread's share is waited for.
WaitForSyncNever ==
    /\ main = "sync"
    /\ main' = "merge" /\ workers_waiting' = 0
    /\ UNCHANGED <<worker, workers_running, quit, countVars, op_multi_threaded, ran>>

\* Mutant: the counter is not reset when all workers wait already.
WaitForSyncKeepingCount ==
    /\ main = "sync"
    /\ main' = IF stage_count = 1 \/ workers_waiting = stage_count - 1 THEN "merge" ELSE "waiting"
    /\ UNCHANGED <<worker, workers_running, workers_waiting, quit, countVars, op_multi_threaded, ran>>

\* flecs_wait_for_sync: wait on sync_cond unless all workers wait already.
WaitForSync ==
    /\ main = "sync"
    /\ LET synced == stage_count = 1 \/ workers_waiting = stage_count - 1
       IN  /\ main' = IF synced THEN "merge" ELSE "waiting"
           /\ workers_waiting' = IF synced /\ stage_count > 1 THEN 0 ELSE workers_waiting
    /\ UNCHANGED <<worker, workers_running, quit, countVars, op_multi_threaded, ran>>

Synced ==
    /\ main = "signalled"
    /\ workers_waiting' = 0
    /\ main' = "merge"
    /\ UNCHANGED <<worker, workers_running, quit, countVars, op_multi_threaded, ran>>

\* ecs_readonly_end or flecs_defer_end, then flecs_pipeline_update: the stages'
\* commands are merged and the schedule may be built anew.
MergeStages ==
    /\ main = "merge"
    /\ main' = "next"
    /\ ran' = {}
    /\ UNCHANGED <<threadVars, countVars, op_multi_threaded>>

\* No operation is left.
EndPipeline ==
    /\ main = "next"
    /\ stage_count' = IF held_stage_count > 0 THEN held_stage_count ELSE stage_count
    /\ held_stage_count' = 0
    /\ main' = IF held_stage_count > 0 THEN "progress"
               ELSE IF workers_use_task_api THEN "join" ELSE "idle"
    /\ UNCHANGED <<threadVars, workers_use_task_api, worker_cond, frame_count_zero, target, op_multi_threaded,
                   ran>>

(***************************************************************************)
(* ecs_set_threads, ecs_set_task_threads, flecs_join_worker_threads          *)
(***************************************************************************)

\* The part of flecs_set_threads_internal after the old threads have stopped.
\* Long-running threads start at once, task threads with the next frame.  The
\* pointer to the old threads' condition variable stays when it has been freed.
StartWorkers(threads, tasks) ==
    /\ stage_count' = threads
    /\ workers_use_task_api' = tasks
    /\ worker_cond' = (worker_cond \/ threads > 1)
    /\ worker' = [w \in WorkerIds |-> IF w < threads /\ ~tasks THEN "starting" ELSE "none"]
    /\ target' = NoTarget
    /\ main' = "idle"

SetThreads(threads, tasks) ==
    /\ main = "idle"
    /\ stage_count # threads \/ workers_use_task_api # tasks
    /\ IF stage_count > 1
       THEN target' = <<threads, tasks>> /\ main' = "join"
            /\ UNCHANGED <<stage_count, workers_use_task_api, worker_cond, worker>>
       ELSE StartWorkers(threads, tasks)
    /\ UNCHANGED <<workers_running, workers_waiting, quit, held_stage_count, frame_count_zero,
                   op_multi_threaded, ran>>

\* Where flecs_join_worker_threads returns to.
Joined ==
    IF target = NoTarget
    THEN /\ main' = "idle"
         /\ worker' = [w \in WorkerIds |-> "none"]
         /\ UNCHANGED <<stage_count, workers_use_task_api, worker_cond, target>>
    ELSE StartWorkers(target[1], target[2])

\* Nothing to join: no task threads exist outside of a frame.
JoinNothing ==
    /\ main = "join"
    /\ \A w \in WorkerIds : worker[w] = "none"
    /\ Joined
    /\ UNCHANGED <<workers_running, workers_waiting, quit, held_stage_count, frame_count_zero,
                   op_multi_threaded, ran>>

JoinWaitForWorkers ==
    /\ main = "join"
    /\ \E w \in WorkerIds : worker[w] # "none"
    /\ AllRunning
    /\ main' = "quit"
    /\ UNCHANGED <<threadVars, countVars, op_multi_threaded, ran>>

QuitWorkers ==
    /\ main = "quit"
    /\ quit' = TRUE
    /\ main' = "signal_quit"
    /\ UNCHANGED <<worker, workers_running, workers_waiting, countVars, op_multi_threaded, ran>>

SignalQuit ==
    /\ main = "signal_quit"
    /\ worker' = Broadcast
    /\ main' = "join_threads"
    /\ UNCHANGED <<workers_running, workers_waiting, quit, countVars, op_multi_threaded, ran>>

JoinThreads ==
    /\ main = "join_threads"
    /\ \A w \in 1 .. stage_count - 1 : worker[w] = "stopped"
    /\ quit' = FALSE
    /\ Joined
    /\ UNCHANGED <<workers_running, workers_waiting, held_stage_count, frame_count_zero,
                   op_multi_threaded, ran>>

-----------------------------------------------------------------------------

WorkerStep(w) ==
    StartWorker(w) \/ LoopWorker(w) \/ RunWorker(w) \/ SyncWorker(w) \/ StopWorker(w)

\* What the main thread does in a frame or a call once it has begun.
MainStep ==
    \/ WaitForWorkers \/ SignalWorkers \/ RunMain \/ WaitForSync \/ Synced \/ MergeStages
    \/ JoinNothing \/ JoinWaitForWorkers \/ QuitWorkers \/ SignalQuit \/ JoinThreads

Next ==
    \/ \E w \in WorkerIds : WorkerStep(w)
    \/ MainStep
    \/ BeginStartup \/ BeginFrame \/ EndPipeline
    \/ \E parallel \in BOOLEAN : BeginOperation(parallel)
    \/ \E threads \in 1 .. MaxThreads, tasks \in BOOLEAN : SetThreads(threads, tasks)

\* Threads are scheduled, systems return, and a pipeline's operations are
\* finitely many.
Fairness ==
    /\ WF_vars(MainStep)
    /\ SF_vars(EndPipeline)
    /\ WF_vars(main = "progress" /\ BeginFrame)
    /\ \A w \in WorkerIds : WF_vars(WorkerStep(w))

Spec == Init /\ [][Next]_vars
FairSpec == Spec /\ Fairness
-----------------------------------------------------------------------------
(***************************************************************************)
(* Properties                                                                *)
(***************************************************************************)

\* The main thread merges the stages' commands, rebuilds the schedule and
\* writes world->flags only while no worker runs systems, is about to count
\* itself in, or has been woken and not yet looked at the flags.
MergeAlone ==
    main \in {"next", "merge", "quit"} =>
        \A w \in WorkerIds : worker[w] \notin {"woken", "run", "sync", "finalizing"}

\* The assertions on the counters: none waits when an operation begins
\* (flecs_run_pipeline), all wait when the main thread was signalled
\* (flecs_wait_for_sync), none runs when all have been joined.
SyncAssertions ==
    /\ main \in {"frame", "next", "signal", "join", "idle"} => workers_waiting = 0
    /\ main = "signalled" => workers_waiting = stage_count - 1
    /\ main = "join_threads" /\ (\A w \in 1 .. stage_count - 1 : worker[w] = "stopped")
          => workers_running = 0

\* Every stage runs its share of an operation once, and the merge waits for
\* all of them: the threads implement FlecsForkJoin.
InOperation == main \in {"signal", "run", "sync", "waiting", "signalled", "merge"}
Members == IF ~InOperation THEN {} ELSE IF op_multi_threaded THEN 0 .. stage_count - 1 ELSE {0}
ForkJoin == INSTANCE FlecsForkJoin WITH members <- Members
ImplementsForkJoin == ForkJoin!FJSpec

\* A frame, and a change of the number of threads, comes to its end: no worker
\* misses a signal for good, and the main thread does not miss the last one.
FramesEnd == main # "idle" ~> main = "idle"
=============================================================================
