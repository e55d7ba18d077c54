------------------------- MODULE FlecsWorkersProofs -------------------------
(***************************************************************************)
(* Proofs about FlecsWorkers, for every number of threads.                   *)
(*                                                                          *)
(* The counters are the sizes of two sets of workers, and where a worker can *)
(* be follows from where the main thread is.  That is the invariant; with a  *)
(* counter at its limit, the set it counts is the set of all workers.        *)
(***************************************************************************)
EXTENDS FlecsWorkers, FiniteSetTheorems, TLAPS

\* How many workers world->stages holds.
ThreadCount == (IF held_stage_count > 0 THEN held_stage_count ELSE stage_count) - 1

Started == {w \in WorkerIds : worker[w] \in {"parked", "woken", "run", "sync", "finalizing"}}
Arrived == {w \in ran \ {0} : worker[w] = "parked" /\ main # "merge"}

CountersInv ==
    /\ workers_running = Cardinality(Started)
    /\ workers_waiting = Cardinality(Arrived)

\* Between two operations all workers are parked; in a multi-threaded one each
\* has been woken, and has run its share if it is on its way back.
Dispatched == op_multi_threaded /\ main \in {"run", "sync", "waiting", "signalled"}
WorkerAt(w) ==
    IF w > ThreadCount THEN {"none"}
    ELSE IF held_stage_count > 0 \/ main \in {"idle", "progress", "frame", "join"}
         THEN {"none", "starting", "parked"}
    ELSE IF main = "join_threads" THEN {"woken", "finalizing", "stopped"}
    ELSE IF ~Dispatched THEN {"parked"}
    ELSE IF w \in ran THEN {"sync", "parked"} ELSE {"woken", "run"}

MainInv ==
    /\ quit <=> main \in {"signal_quit", "join_threads"}
    /\ target # NoTarget => main \in {"join", "quit", "signal_quit", "join_threads"}
    /\ held_stage_count > 0 =>
          stage_count = 1 /\ main \in {"frame", "next", "signal", "run", "sync", "merge"}
    /\ main \in {"signal", "sync", "waiting", "signalled"} => op_multi_threaded
    /\ main \in {"waiting", "signalled", "quit", "signal_quit", "join_threads"} => stage_count > 1
    /\ main = "waiting" => workers_waiting # stage_count - 1
    /\ main = "signalled" => workers_waiting = stage_count - 1
    /\ workers_use_task_api /\ (main \in {"idle", "progress"} \/ held_stage_count > 0)
          => \A w \in WorkerIds : worker[w] = "none"

RanInv ==
    /\ ran \subseteq Members
    /\ main = "signal" => ran = {}
    /\ main = "run" => 0 \notin ran
    /\ main \in {"sync", "waiting", "signalled", "merge"} => 0 \in ran
    /\ main = "merge" => ran = Members

IInv ==
    /\ TypeOK
    /\ CountersInv
    /\ \A w \in WorkerIds : worker[w] \in WorkerAt(w)
    /\ MainInv
    /\ RanInv

-----------------------------------------------------------------------------
(* Counting workers.                                                         *)

\* A set of workers is finite and has at most MaxThreads - 1 members.
LEMMA WorkersFinite ==
    ASSUME NEW S, S \subseteq WorkerIds
    PROVE  IsFiniteSet(S) /\ Cardinality(S) \in 0 .. MaxThreads - 1
<1>1. IsFiniteSet(WorkerIds) /\ Cardinality(WorkerIds) = MaxThreads - 1
  BY FS_Interval, MaxThreadsAssumption DEF WorkerIds
<1>2. IsFiniteSet(S) /\ Cardinality(S) <= Cardinality(WorkerIds)
  BY <1>1, FS_Subset
<1>3. Cardinality(S) \in Nat
  BY <1>2, FS_CardinalityType
<1> QED
  BY <1>1, <1>2, <1>3, MaxThreadsAssumption

\* If as many of the workers 1 .. n are counted as there are, all are.
LEMMA AllCounted ==
    ASSUME NEW n \in 0 .. MaxThreads - 1, NEW S, S \subseteq 1 .. n, Cardinality(S) = n
    PROVE  S = 1 .. n
<1>1. n \in Int /\ IsFiniteSet(1 .. n) /\ Cardinality(1 .. n) = n
  BY FS_Interval, MaxThreadsAssumption
<1> QED
  BY <1>1, FS_Subset

\* Every stage but the main thread's is a worker's.
LEMMA StagesOfWorkers ==
    /\ WorkerIds = StageIds \ {0}
    /\ \A n \in 0 .. MaxThreads - 1 : 1 .. n \subseteq WorkerIds /\ (0 .. n) \ {0} = 1 .. n
BY MaxThreadsAssumption DEF WorkerIds, StageIds

\* After a step that keeps the counters true they are within their types.
LEMMA CountersType ==
    ASSUME CountersInv', ran' \subseteq StageIds
    PROVE  workers_running' \in 0 .. MaxThreads - 1 /\ workers_waiting' \in 0 .. MaxThreads - 1
<1>1. Started' \subseteq WorkerIds /\ Arrived' \subseteq WorkerIds
  BY StagesOfWorkers DEF Started, Arrived
<1> QED
  BY <1>1, WorkersFinite DEF CountersInv

\* Only workers that exist are counted.
LEMMA CountedExist ==
    ASSUME IInv
    PROVE  /\ ThreadCount \in 0 .. MaxThreads - 1
           /\ Started \subseteq 1 .. ThreadCount
           /\ Arrived \subseteq 1 .. ThreadCount
           /\ IsFiniteSet(Started) /\ IsFiniteSet(Arrived)
<1>1. ThreadCount \in 0 .. MaxThreads - 1
  BY MaxThreadsAssumption DEF IInv, TypeOK, ThreadCount
<1>2. \A w \in WorkerIds : worker[w] # "none" => w \in 1 .. ThreadCount
  BY <1>1, MaxThreadsAssumption DEF IInv, WorkerAt, WorkerIds
<1>3. Started \subseteq 1 .. ThreadCount
  BY <1>2 DEF Started
<1>4. Arrived \subseteq WorkerIds
  BY StagesOfWorkers DEF IInv, TypeOK, Arrived
<1>5. Arrived \subseteq 1 .. ThreadCount
  BY <1>2, <1>4 DEF Arrived
<1>6. Started \subseteq WorkerIds
  BY DEF Started
<1> QED
  BY <1>1, <1>3, <1>4, <1>5, <1>6, WorkersFinite

-----------------------------------------------------------------------------
(* The steps of a worker.                                                    *)

LEMMA WorkerPreserves ==
    ASSUME IInv, NEW w \in WorkerIds, WorkerStep(w)
    PROVE  IInv'
<1> USE MaxThreadsAssumption DEF IInv, WorkerIds, StageIds
<1>0. /\ ThreadCount \in 0 .. MaxThreads - 1 /\ ThreadCount' = ThreadCount
      /\ worker[w] # "none" => w <= ThreadCount
      /\ IsFiniteSet(Started) /\ IsFiniteSet(Arrived)
  BY CountedExist DEF TypeOK, ThreadCount, WorkerAt, WorkerStep, countVars,
       StartWorker, LoopWorker, RunWorker, SyncWorker, StopWorker
<1>1. CASE StartWorker(w)
  <2>1. ~quit /\ worker'[w] = "parked" /\ w \notin ran /\ main = main'
    BY <1>0, <1>1 DEF StartWorker, TypeOK, WorkerAt, MainInv, RanInv, Members, InOperation, ThreadCount
  <2>2. Started' = Started \cup {w} /\ w \notin Started /\ Arrived' = Arrived
    BY <1>1, <2>1 DEF StartWorker, TypeOK, Started, Arrived
  <2>3. CountersInv'
    BY <1>0, <1>1, <2>2, FS_AddElement DEF StartWorker, CountersInv
  <2>4. TypeOK'
    BY <1>1, <2>1, <2>3, CountersType DEF StartWorker, TypeOK, countVars, WorkerStates
  <2>5. \A v \in WorkerIds : worker'[v] \in WorkerAt(v)'
    BY <1>0, <1>1, <2>1 DEF StartWorker, TypeOK, WorkerAt, MainInv, Dispatched, countVars
  <2>6. MainInv' /\ RanInv'
    BY <1>1, <2>1 DEF StartWorker, TypeOK, MainInv, RanInv, Members, InOperation, countVars
  <2> QED
    BY <2>3, <2>4, <2>5, <2>6
<1>2. CASE LoopWorker(w)
  <2>1. worker'[w] = (IF quit THEN "finalizing" ELSE "run")
    BY <1>2 DEF LoopWorker, TypeOK
  <2>2. Started' = Started /\ Arrived' = Arrived
    BY <1>2, <2>1 DEF LoopWorker, TypeOK, Started, Arrived
  <2>3. CountersInv'
    BY <1>2, <2>2 DEF LoopWorker, CountersInv
  <2>4. TypeOK'
    BY <1>2, <2>3, CountersType DEF LoopWorker, TypeOK, countVars, WorkerStates
  <2>5. \A v \in WorkerIds : worker'[v] \in WorkerAt(v)'
    BY <1>0, <1>2, <2>1 DEF LoopWorker, TypeOK, WorkerAt, MainInv, Dispatched, countVars
  <2>6. MainInv' /\ RanInv'
    BY <1>2, <2>1 DEF LoopWorker, TypeOK, MainInv, RanInv, Members, InOperation, countVars
  <2> QED
    BY <2>3, <2>4, <2>5, <2>6
<1>3. CASE RunWorker(w)
  <2>1. Dispatched /\ worker'[w] = "sync" /\ w \notin ran /\ held_stage_count = 0
    BY <1>0, <1>3 DEF RunWorker, TypeOK, WorkerAt
  <2>2. Started' = Started /\ Arrived' = Arrived
    BY <1>3, <2>1 DEF RunWorker, TypeOK, Started, Arrived
  <2>3. CountersInv'
    BY <1>3, <2>2 DEF RunWorker, CountersInv
  <2>4. TypeOK'
    BY <1>3, <2>3, CountersType, StagesOfWorkers DEF RunWorker, TypeOK, countVars, WorkerStates
  <2>5. \A v \in WorkerIds : worker'[v] \in WorkerAt(v)'
    BY <1>0, <1>3, <2>1 DEF RunWorker, TypeOK, WorkerAt, Dispatched, countVars
  <2>6. MainInv'
    BY <1>3, <2>1 DEF RunWorker, TypeOK, MainInv, Dispatched, countVars
  <2>7. w \in 0 .. stage_count - 1 /\ w # 0
    BY <1>0, <1>3, <2>1 DEF RunWorker, ThreadCount, TypeOK
  <2>8. RanInv'
    BY <1>3, <2>1, <2>7 DEF RunWorker, RanInv, Members, InOperation, Dispatched, countVars
  <2> QED
    BY <2>3, <2>4, <2>5, <2>6, <2>8
<1>4. CASE SyncWorker(w)
  <2>1. /\ Dispatched /\ worker'[w] = "parked" /\ w \in ran /\ held_stage_count = 0
        /\ w \in 1 .. stage_count - 1 /\ main' = SyncedMain /\ ran' = ran
    BY <1>0, <1>4 DEF SyncWorker, TypeOK, WorkerAt, ThreadCount
  <2>2. main # "merge" /\ main' # "merge" /\ main # "signalled"
    <3>1. main = "signalled" => Arrived = 1 .. stage_count - 1
      BY <1>0, <2>1, CountedExist, AllCounted DEF MainInv, CountersInv, ThreadCount
    <3>2. w \notin Arrived
      BY <1>4 DEF SyncWorker, Arrived
    <3> QED
      BY <2>1, <3>1, <3>2 DEF Dispatched, SyncedMain
  <2>3. Started' = Started \cup {w} /\ w \in Started
    BY <1>4, <2>1 DEF SyncWorker, TypeOK, Started
  <2>4. Arrived' = Arrived \cup {w} /\ w \notin Arrived
    BY <1>4, <2>1, <2>2, StagesOfWorkers DEF SyncWorker, TypeOK, Arrived
  <2>5. CountersInv'
    BY <1>0, <1>4, <2>3, <2>4, FS_AddElement DEF SyncWorker, CountersInv
  <2>6. TypeOK'
    BY <1>4, <2>5, CountersType DEF SyncWorker, TypeOK, countVars, WorkerStates, SyncedMain, MainStates
  <2>7. \A v \in WorkerIds : worker'[v] \in WorkerAt(v)'
    BY <1>0, <1>4, <2>1 DEF SyncWorker, SyncedMain, TypeOK, WorkerAt, Dispatched, countVars
  <2>8. MainInv'
    BY <1>4, <2>1, <2>2 DEF SyncWorker, SyncedMain, TypeOK, MainInv, Dispatched, countVars
  <2>9. RanInv'
    BY <1>4, <2>1, <2>2 DEF SyncWorker, SyncedMain, RanInv, Members, InOperation, Dispatched, countVars
  <2> QED
    BY <2>5, <2>6, <2>7, <2>8, <2>9
<1>5. CASE StopWorker(w)
  <2>1. main = "join_threads" /\ worker'[w] = "stopped"
    BY <1>0, <1>5 DEF StopWorker, TypeOK, WorkerAt
  <2>2. Started' = Started \ {w} /\ w \in Started /\ Arrived' = Arrived
    BY <1>5, <2>1 DEF StopWorker, TypeOK, Started, Arrived
  <2>3. CountersInv'
    BY <1>0, <1>5, <2>2, FS_RemoveElement DEF StopWorker, CountersInv
  <2>4. TypeOK'
    BY <1>5, <2>3, CountersType DEF StopWorker, TypeOK, countVars, WorkerStates
  <2>5. \A v \in WorkerIds : worker'[v] \in WorkerAt(v)'
    BY <1>0, <1>5, <2>1 DEF StopWorker, TypeOK, WorkerAt, Dispatched, countVars
  <2>6. MainInv' /\ RanInv'
    BY <1>5, <2>1 DEF StopWorker, TypeOK, MainInv, RanInv, Members, InOperation, countVars
  <2> QED
    BY <2>3, <2>4, <2>5, <2>6
<1> QED
  BY <1>1, <1>2, <1>3, <1>4, <1>5 DEF WorkerStep

-----------------------------------------------------------------------------
(* The steps of the main thread within a frame.                              *)

\* A broadcast wakes the parked workers and leaves the others alone.
LEMMA BroadcastFacts ==
    ASSUME worker \in [WorkerIds -> WorkerStates], worker' = Broadcast, ran' \subseteq StageIds
    PROVE  /\ worker' \in [WorkerIds -> WorkerStates]
           /\ \A w \in WorkerIds : worker'[w] = IF worker[w] = "parked" THEN "woken" ELSE worker[w]
           /\ Started' = Started /\ Arrived' = {}
<1>1. /\ worker' \in [WorkerIds -> WorkerStates]
      /\ \A w \in WorkerIds : worker'[w] = IF worker[w] = "parked" THEN "woken" ELSE worker[w]
  BY DEF Broadcast, WorkerStates
<1> QED
  BY <1>1, StagesOfWorkers DEF Started, Arrived

\* The last worker has been counted in: all are parked.
LEMMA AllParked ==
    ASSUME IInv, main \in {"frame", "join"}, held_stage_count = 0, AllRunning
    PROVE  \A w \in 1 .. stage_count - 1 : worker[w] = "parked"
<1>0. ThreadCount = stage_count - 1
  BY DEF ThreadCount
<1>1. Started = 1 .. stage_count - 1
  <2>1. /\ stage_count - 1 \in 0 .. MaxThreads - 1 /\ Started \subseteq 1 .. stage_count - 1
        /\ Cardinality(Started) = stage_count - 1
    BY <1>0, CountedExist DEF IInv, CountersInv, AllRunning
  <2> QED
    BY <2>1, AllCounted
<1>2. 1 .. stage_count - 1 \subseteq WorkerIds
  BY <1>0, CountedExist, StagesOfWorkers
<1> QED
  BY <1>0, <1>1, <1>2, CountedExist DEF IInv, Started, WorkerAt

\* All workers have arrived: they are parked and have run.
LEMMA AllArrived ==
    ASSUME IInv, Dispatched, held_stage_count = 0, workers_waiting = stage_count - 1
    PROVE  \A w \in 1 .. stage_count - 1 : worker[w] = "parked" /\ w \in ran
<1>0. ThreadCount = stage_count - 1
  BY DEF ThreadCount
<1>1. Arrived = 1 .. stage_count - 1
  <2>1. /\ stage_count - 1 \in 0 .. MaxThreads - 1 /\ Arrived \subseteq 1 .. stage_count - 1
        /\ Cardinality(Arrived) = stage_count - 1
    BY <1>0, CountedExist DEF IInv, CountersInv
  <2> QED
    BY <2>1, AllCounted
<1> QED
  BY <1>1 DEF Arrived

\* The stages are the main thread's and the workers'.
LEMMA AllStages ==
    ASSUME NEW n \in Nat, NEW S, S \subseteq 0 .. n - 1, 0 \in S, \A w \in 1 .. n - 1 : w \in S
    PROVE  S = 0 .. n - 1
<1>1. ASSUME NEW s \in 0 .. n - 1 PROVE s \in S
  <2>1. s = 0 \/ s \in 1 .. n - 1
    BY <1>1
  <2> QED
    BY <2>1
<1> QED
  BY <1>1

\* Waking, running and merging an operation keeps the invariant.
LEMMA OperationPreserves ==
    ASSUME IInv,
           WaitForWorkers \/ (\E parallel \in BOOLEAN : BeginOperation(parallel))
              \/ SignalWorkers \/ RunMain \/ WaitForSync \/ Synced \/ MergeStages
    PROVE  IInv'
<1> USE MaxThreadsAssumption DEF IInv
<1>0. /\ ThreadCount \in 0 .. MaxThreads - 1 /\ ThreadCount' = ThreadCount
      /\ stage_count' = stage_count /\ stage_count \in 1 .. MaxThreads
      /\ held_stage_count' = held_stage_count /\ held_stage_count \in Nat
      /\ held_stage_count = 0 => ThreadCount = stage_count - 1
  BY CountedExist DEF TypeOK, ThreadCount, countVars, WaitForWorkers, BeginOperation, SignalWorkers,
       RunMain, WaitForSync, Synced, MergeStages
<1>1. CASE WaitForWorkers
  <2>1. held_stage_count = 0 => \A w \in 1 .. ThreadCount : worker[w] = "parked"
    BY <1>0, <1>1, AllParked DEF WaitForWorkers, ThreadCount
  <2>2. Started' = Started /\ Arrived' = Arrived /\ ran = {}
    BY <1>1 DEF WaitForWorkers, threadVars, Started, Arrived, RanInv, Members, InOperation
  <2>3. CountersInv'
    BY <1>1, <2>2 DEF WaitForWorkers, CountersInv, threadVars
  <2>4. TypeOK'
    BY <1>1 DEF WaitForWorkers, TypeOK, threadVars, countVars, MainStates
  <2>5. \A w \in WorkerIds : worker'[w] \in WorkerAt(w)'
    BY <1>0, <1>1, <2>1 DEF WaitForWorkers, WorkerAt, Dispatched, threadVars, countVars, WorkerIds
  <2>6. MainInv' /\ RanInv'
    BY <1>1, <2>2 DEF WaitForWorkers, MainInv, RanInv, Members, InOperation, threadVars, countVars
  <2> QED
    BY <2>3, <2>4, <2>5, <2>6
<1>2. CASE \E parallel \in BOOLEAN : BeginOperation(parallel)
  <2> PICK parallel \in BOOLEAN : BeginOperation(parallel)
    BY <1>2
  <2>2. Started' = Started /\ Arrived' = Arrived /\ ran = {}
    BY DEF BeginOperation, threadVars, Started, Arrived, RanInv, Members, InOperation
  <2>3. CountersInv'
    BY <2>2 DEF BeginOperation, CountersInv, threadVars
  <2>4. TypeOK'
    BY DEF BeginOperation, TypeOK, threadVars, countVars, MainStates
  <2>5. \A w \in WorkerIds : worker'[w] \in WorkerAt(w)'
    BY <1>0, <2>2 DEF BeginOperation, WorkerAt, Dispatched, threadVars, countVars
  <2>6. MainInv' /\ RanInv'
    BY <2>2 DEF BeginOperation, MainInv, RanInv, Members, InOperation, threadVars, countVars
  <2> QED
    BY <2>3, <2>4, <2>5, <2>6
<1>3. CASE SignalWorkers
  <2>1. /\ worker' \in [WorkerIds -> WorkerStates] /\ ran = {} /\ Arrived = {}
        /\ Started' = Started /\ Arrived' = {}
        /\ held_stage_count = 0 /\ stage_count > 1 =>
              \A w \in WorkerIds : worker'[w] = IF worker[w] = "parked" THEN "woken" ELSE worker[w]
        /\ held_stage_count = 0 /\ stage_count = 1 => worker' = worker
        /\ held_stage_count > 0 => worker' = worker
    <3>1. ran = {} /\ Arrived = {}
      BY <1>3 DEF SignalWorkers, RanInv, Arrived
    <3>2. held_stage_count > 0 => stage_count = 1
      BY DEF MainInv
    <3>3. CASE stage_count > 1
      BY <3>1, <3>2, <3>3, <1>0, <1>3, BroadcastFacts DEF SignalWorkers, TypeOK
    <3>4. CASE ~(stage_count > 1)
      <4>1. worker' = worker
        BY <1>3, <3>4 DEF SignalWorkers
      <4> QED
        BY <3>1, <3>4, <4>1, <1>0, <1>3 DEF SignalWorkers, TypeOK, Started, Arrived
    <3> QED
      BY <3>3, <3>4
  <2>3. CountersInv'
    BY <1>3, <2>1 DEF SignalWorkers, CountersInv
  <2>4. TypeOK'
    BY <1>3, <2>1 DEF SignalWorkers, TypeOK, countVars, MainStates
  <2>5. \A w \in WorkerIds : worker'[w] \in WorkerAt(w)'
    BY <1>0, <1>3, <2>1 DEF SignalWorkers, WorkerAt, Dispatched, countVars, WorkerIds, MainInv
  <2>6. MainInv' /\ RanInv'
    BY <1>3, <2>1 DEF SignalWorkers, MainInv, RanInv, Members, InOperation, countVars
  <2> QED
    BY <2>3, <2>4, <2>5, <2>6
<1>4. CASE RunMain
  <2>2. Started' = Started /\ Arrived' = Arrived
    <3>1. ~op_multi_threaded => ran = {}
      BY <1>4 DEF RunMain, RanInv, Members, InOperation
    <3> QED
      BY <1>4, <3>1 DEF RunMain, threadVars, Started, Arrived
  <2>3. CountersInv'
    BY <1>4, <2>2 DEF RunMain, CountersInv, threadVars
  <2>4. TypeOK'
    BY <1>4, 0 \in StageIds DEF RunMain, TypeOK, threadVars, countVars, MainStates, StageIds
  <2>5. \A w \in WorkerIds : worker'[w] \in WorkerAt(w)'
    BY <1>0, <1>4 DEF RunMain, WorkerAt, Dispatched, threadVars, countVars, WorkerIds
  <2>6. MainInv' /\ RanInv'
    BY <1>0, <1>4 DEF RunMain, MainInv, RanInv, Members, InOperation, threadVars, countVars
  <2> QED
    BY <2>3, <2>4, <2>5, <2>6
<1>5. CASE WaitForSync
  <2>1. Started' = Started /\ op_multi_threaded /\ 0 \in ran /\ ran \subseteq 0 .. stage_count - 1
    BY <1>5 DEF WaitForSync, Started, MainInv, RanInv, Members, InOperation
  <2>2. CASE main' = "merge"
    <3>1. /\ workers_waiting' = 0 /\ Arrived' = {}
          /\ held_stage_count = 0 => \A w \in 1 .. stage_count - 1 : worker[w] = "parked" /\ w \in ran
          /\ ran = 0 .. stage_count - 1
      <4>1. CASE stage_count = 1
        <5>0. \A w \in 1 .. stage_count - 1 : FALSE
          BY <4>1
        <5>1. ran = 0 .. stage_count - 1 /\ \A s \in ran : s = 0
          BY <1>0, <2>1, <4>1, <5>0, AllStages
        <5>2. Arrived = {} /\ Arrived' = {}
          BY <1>5, <5>1 DEF WaitForSync, Arrived
        <5>3. workers_waiting = 0
          BY <5>2, FS_EmptySet DEF CountersInv
        <5>4. workers_waiting' = workers_waiting
          BY <1>5, <4>1 DEF WaitForSync
        <5> QED
          BY <5>0, <5>1, <5>2, <5>3, <5>4
      <4>2. CASE stage_count > 1
        <5>1. held_stage_count = 0
          BY <1>0, <4>2 DEF MainInv
        <5>2. workers_waiting = stage_count - 1
          BY <1>5, <2>2, <4>2 DEF WaitForSync
        <5>3. \A w \in 1 .. stage_count - 1 : worker[w] = "parked" /\ w \in ran
          BY <1>5, <2>1, <5>1, <5>2, AllArrived DEF WaitForSync, Dispatched
        <5>4. ran = 0 .. stage_count - 1
          <6>1. stage_count \in Nat /\ \A w \in 1 .. stage_count - 1 : w \in ran
            BY <1>0, <5>3
          <6> QED
            BY <2>1, <6>1, AllStages
        <5>5. Arrived' = {}
          BY <2>2 DEF Arrived
        <5>6. workers_waiting' = 0
          BY <1>5, <4>2, <5>2 DEF WaitForSync
        <5> QED
          BY <5>3, <5>4, <5>5, <5>6
      <4> QED
        BY <1>0, <4>1, <4>2
    <3>2. CountersInv'
      BY <1>5, <2>1, <3>1, FS_EmptySet DEF WaitForSync, CountersInv
    <3>3. TypeOK'
      BY <1>5, <2>2, <3>1 DEF WaitForSync, TypeOK, countVars, MainStates
    <3>4. \A w \in WorkerIds : worker'[w] \in WorkerAt(w)'
      BY <1>0, <1>5, <2>2, <3>1 DEF WaitForSync, WorkerAt, Dispatched, countVars, WorkerIds
    <3>5. MainInv' /\ RanInv'
      BY <1>0, <1>5, <2>1, <2>2, <3>1 DEF WaitForSync, MainInv, RanInv, Members, InOperation, countVars
    <3> QED
      BY <2>1, <3>2, <3>3, <3>4, <3>5
  <2>3. CASE main' = "waiting"
    <3>1. /\ workers_waiting' = workers_waiting /\ Arrived' = Arrived
          /\ stage_count # 1 /\ workers_waiting # stage_count - 1
      BY <1>5, <2>3 DEF WaitForSync, Arrived
    <3>2. CountersInv'
      BY <1>5, <2>1, <3>1 DEF WaitForSync, CountersInv
    <3>3. TypeOK'
      BY <1>5, <2>3, <3>1 DEF WaitForSync, TypeOK, countVars, MainStates
    <3>4. \A w \in WorkerIds : worker'[w] \in WorkerAt(w)'
      BY <1>0, <1>5, <2>3, <3>1 DEF WaitForSync, WorkerAt, Dispatched, countVars
    <3>5. MainInv' /\ RanInv'
      BY <1>0, <1>5, <2>1, <2>3, <3>1 DEF WaitForSync, MainInv, RanInv, Members, InOperation, countVars
    <3> QED
      BY <2>1, <3>2, <3>3, <3>4, <3>5
  <2> QED
    BY <1>5, <2>2, <2>3 DEF WaitForSync
<1>6. CASE Synced
  <2>1. /\ op_multi_threaded /\ held_stage_count = 0 /\ ran \subseteq 0 .. stage_count - 1 /\ 0 \in ran
        /\ \A w \in 1 .. stage_count - 1 : worker[w] = "parked" /\ w \in ran
    BY <1>0, <1>6, AllArrived DEF Synced, MainInv, RanInv, Members, InOperation, Dispatched
  <2>2. Started' = Started /\ Arrived' = {} /\ ran = 0 .. stage_count - 1
    <3>1. Started' = Started /\ Arrived' = {}
      BY <1>6 DEF Synced, Started, Arrived
    <3>2. ran = 0 .. stage_count - 1
      <4>1. stage_count \in Nat /\ \A w \in 1 .. stage_count - 1 : w \in ran
        BY <1>0, <2>1
      <4> QED
        BY <2>1, <4>1, AllStages
    <3> QED
      BY <3>1, <3>2
  <2>3. CountersInv'
    BY <1>6, <2>2, FS_EmptySet DEF Synced, CountersInv
  <2>4. TypeOK'
    BY <1>6 DEF Synced, TypeOK, countVars, MainStates
  <2>5. \A w \in WorkerIds : worker'[w] \in WorkerAt(w)'
    BY <1>0, <1>6, <2>1 DEF Synced, WorkerAt, Dispatched, countVars, WorkerIds
  <2>6. MainInv' /\ RanInv'
    BY <1>0, <1>6, <2>1, <2>2 DEF Synced, MainInv, RanInv, Members, InOperation, countVars
  <2> QED
    BY <2>3, <2>4, <2>5, <2>6
<1>7. CASE MergeStages
  <2>2. Started' = Started /\ Arrived' = Arrived
    BY <1>7 DEF MergeStages, threadVars, Started, Arrived
  <2>3. CountersInv'
    BY <1>7, <2>2 DEF MergeStages, CountersInv, threadVars
  <2>4. TypeOK'
    BY <1>7 DEF MergeStages, TypeOK, threadVars, countVars, MainStates
  <2>5. \A w \in WorkerIds : worker'[w] \in WorkerAt(w)'
    BY <1>0, <1>7 DEF MergeStages, WorkerAt, Dispatched, threadVars, countVars
  <2>6. MainInv' /\ RanInv'
    BY <1>7 DEF MergeStages, MainInv, RanInv, Members, InOperation, threadVars, countVars
  <2> QED
    BY <2>3, <2>4, <2>5, <2>6
<1> QED
  BY <1>1, <1>2, <1>3, <1>4, <1>5, <1>6, <1>7

-----------------------------------------------------------------------------
(* Frames begin and end, threads are created and joined.                     *)

\* No thread of the old number is left when new ones are created.
LEMMA JoinedFacts ==
    ASSUME IInv, main \in {"join", "join_threads"}, Joined,
           \A w \in WorkerIds : worker[w] \in {"none", "stopped"},
           ran' = ran, held_stage_count' = held_stage_count,
           workers_running' = workers_running, workers_waiting' = workers_waiting,
           frame_count_zero' = frame_count_zero, quit' = FALSE,
           op_multi_threaded' = op_multi_threaded
    PROVE  IInv'
<1> USE MaxThreadsAssumption DEF IInv
<1>1. /\ held_stage_count = 0 /\ ran = {} /\ main' = "idle" /\ target' = NoTarget
      /\ stage_count' \in 1 .. MaxThreads /\ workers_use_task_api' \in BOOLEAN
      /\ worker' \in [WorkerIds -> {"none", "starting"}]
      /\ \A w \in WorkerIds : w > stage_count' - 1 => worker'[w] = "none"
      /\ workers_use_task_api' => \A w \in WorkerIds : worker'[w] = "none"
  BY DEF Joined, StartWorkers, MainInv, RanInv, Members, InOperation, TypeOK, WorkerIds, NoTarget
<1>2. Started = {} /\ Started' = {} /\ Arrived = {} /\ Arrived' = {}
  BY <1>1 DEF Started, Arrived
<1>3. CountersInv'
  BY <1>2 DEF CountersInv
<1>4. TypeOK'
  <2>1. worker_cond' \in BOOLEAN
    BY DEF Joined, StartWorkers, TypeOK
  <2> QED
    BY <1>1, <2>1 DEF TypeOK, WorkerStates, MainStates
<1>5. \A w \in WorkerIds : worker'[w] \in WorkerAt(w)'
  <2>1. ThreadCount' = stage_count' - 1 /\ held_stage_count' = 0
    BY <1>1 DEF ThreadCount
  <2> QED
    BY <1>1, <2>1 DEF WorkerAt
<1>6. MainInv' /\ RanInv'
  BY <1>1 DEF MainInv, RanInv, Members, InOperation
<1> QED
  BY <1>3, <1>4, <1>5, <1>6

\* Frames and calls of ecs_set_threads keep the invariant.
LEMMA FramePreserves ==
    ASSUME IInv,
           BeginStartup \/ BeginFrame \/ EndPipeline
              \/ (\E threads \in 1 .. MaxThreads, tasks \in BOOLEAN : SetThreads(threads, tasks))
              \/ JoinNothing \/ JoinWaitForWorkers \/ QuitWorkers \/ SignalQuit \/ JoinThreads
    PROVE  IInv'
<1> USE MaxThreadsAssumption DEF IInv
<1>a. main \in {"idle", "progress", "next", "join", "quit", "signal_quit", "join_threads"}
  BY DEF BeginStartup, BeginFrame, EndPipeline, SetThreads,
       JoinNothing, JoinWaitForWorkers, QuitWorkers, SignalQuit, JoinThreads
<1>0. /\ ThreadCount \in 0 .. MaxThreads - 1
      /\ stage_count \in 1 .. MaxThreads /\ held_stage_count \in Nat
      /\ held_stage_count = 0 => ThreadCount = stage_count - 1
      /\ worker \in [WorkerIds -> WorkerStates]
      /\ main \notin {"signal", "run", "sync", "waiting", "signalled", "merge"} /\ ran = {}
      /\ Arrived = {}
  BY <1>a, CountedExist DEF TypeOK, ThreadCount, RanInv, Members, InOperation, Arrived
<1>1. CASE BeginStartup
  <2>1. /\ held_stage_count = 0 /\ held_stage_count' = stage_count /\ stage_count' = 1
        /\ worker' = worker /\ ThreadCount' = ThreadCount /\ ran' = {} /\ main' = "frame"
    BY <1>0, <1>1 DEF BeginStartup, MainInv, ThreadCount, threadVars
  <2>2. Started' = Started /\ Arrived' = {}
    BY <2>1 DEF Started, Arrived
  <2>3. CountersInv'
    BY <1>0, <1>1, <2>2 DEF BeginStartup, CountersInv, threadVars
  <2>4. TypeOK'
    <3>1. stage_count' \in 1 .. MaxThreads /\ held_stage_count' \in 0 .. MaxThreads
      BY <1>0, <2>1
    <3> QED
      BY <1>1, <3>1 DEF BeginStartup, TypeOK, threadVars, MainStates
  <2>5. \A w \in WorkerIds : worker'[w] \in WorkerAt(w)'
    BY <1>0, <1>1, <2>1 DEF BeginStartup, WorkerAt
  <2>6. MainInv' /\ RanInv'
    BY <1>0, <1>1, <2>1 DEF BeginStartup, MainInv, RanInv, Members, InOperation, threadVars
  <2> QED
    BY <2>3, <2>4, <2>5, <2>6
<1>2. CASE BeginFrame
  <2>1. held_stage_count = 0 /\ held_stage_count' = 0 /\ stage_count' = stage_count
    BY <1>0, <1>2 DEF BeginFrame, MainInv
  <2>2. /\ worker' \in [WorkerIds -> WorkerStates]
        /\ \A w \in WorkerIds :
              \/ worker'[w] = worker[w]
              \/ worker[w] = "none" /\ worker'[w] = "starting" /\ w < stage_count
    <3>1. CASE workers_use_task_api
      <4>1. worker' = Created(stage_count) /\ \A w \in WorkerIds : worker[w] = "none"
        BY <1>2, <3>1 DEF BeginFrame, MainInv
      <4> QED
        BY <1>0, <4>1 DEF Created, WorkerStates, WorkerIds
    <3>2. CASE ~workers_use_task_api
      <4>1. worker' = worker
        BY <1>2, <3>2 DEF BeginFrame
      <4> QED
        BY <1>0, <4>1
    <3> QED
      BY <3>1, <3>2
  <2>3. Started' = Started /\ Arrived' = {} /\ ran' = {}
    BY <1>0, <1>2, <2>2 DEF BeginFrame, Started, Arrived
  <2>4. CountersInv'
    BY <1>0, <1>2, <2>3 DEF BeginFrame, CountersInv
  <2>5. TypeOK'
    BY <1>2, <2>2 DEF BeginFrame, TypeOK, MainStates
  <2>6. \A w \in WorkerIds : worker'[w] \in WorkerAt(w)'
    BY <1>0, <1>2, <2>1, <2>2 DEF BeginFrame, WorkerAt, ThreadCount, WorkerIds
  <2>7. MainInv' /\ RanInv'
    BY <1>0, <1>2, <2>1, <2>3 DEF BeginFrame, MainInv, RanInv, Members, InOperation
  <2> QED
    BY <2>4, <2>5, <2>6, <2>7
<1>3. CASE EndPipeline
  <2>1. /\ held_stage_count' = 0 /\ ThreadCount' = ThreadCount /\ worker' = worker /\ ran' = {}
        /\ stage_count' \in 1 .. MaxThreads
    BY <1>0, <1>3 DEF EndPipeline, MainInv, ThreadCount, threadVars, TypeOK
  <2>2. Started' = Started /\ Arrived' = {}
    BY <2>1 DEF Started, Arrived
  <2>3. CountersInv'
    BY <1>0, <1>3, <2>2 DEF EndPipeline, CountersInv, threadVars
  <2>4. TypeOK'
    BY <1>3, <2>1 DEF EndPipeline, TypeOK, threadVars, MainStates
  <2>5. \A w \in WorkerIds : worker'[w] \in WorkerAt(w)'
    BY <1>0, <1>3, <2>1 DEF EndPipeline, WorkerAt, Dispatched
  <2>6. MainInv' /\ RanInv'
    BY <1>0, <1>3, <2>1 DEF EndPipeline, MainInv, RanInv, Members, InOperation, threadVars
  <2> QED
    BY <2>3, <2>4, <2>5, <2>6
<1>4. CASE \E threads \in 1 .. MaxThreads, tasks \in BOOLEAN : SetThreads(threads, tasks)
  <2> PICK threads \in 1 .. MaxThreads, tasks \in BOOLEAN : SetThreads(threads, tasks)
    BY <1>4
  <2>0. held_stage_count = 0 /\ held_stage_count' = 0 /\ main = "idle" /\ ran' = {} /\ Arrived' = {}
    BY <1>0 DEF SetThreads, MainInv, Arrived
  <2>1. CASE stage_count > 1
    <3>1. /\ target' = <<threads, tasks>> /\ main' = "join"
          /\ UNCHANGED <<stage_count, workers_use_task_api, worker_cond, worker>>
      BY <2>1 DEF SetThreads
    <3>2. Started' = Started
      BY <3>1 DEF Started
    <3>3. CountersInv'
      BY <1>0, <2>0, <3>2 DEF SetThreads, CountersInv
    <3>4. TypeOK'
      BY <3>1 DEF SetThreads, TypeOK, MainStates
    <3>5. \A w \in WorkerIds : worker'[w] \in WorkerAt(w)'
      BY <1>0, <2>0, <3>1 DEF WorkerAt, ThreadCount
    <3>6. MainInv' /\ RanInv'
      BY <1>0, <2>0, <3>1 DEF SetThreads, MainInv, RanInv, Members, InOperation
    <3> QED
      BY <3>3, <3>4, <3>5, <3>6
  <2>2. CASE stage_count = 1
    <3>1. /\ stage_count' = threads /\ workers_use_task_api' = tasks /\ target' = NoTarget /\ main' = "idle"
          /\ worker_cond' \in BOOLEAN
          /\ worker' = [w \in WorkerIds |-> IF w < threads /\ ~tasks THEN "starting" ELSE "none"]
      BY <2>2 DEF SetThreads, StartWorkers
    <3>2. Started = {} /\ Started' = {}
      BY <1>0, <2>0, <2>2, <3>1 DEF Started, WorkerAt, WorkerIds
    <3>3. CountersInv'
      BY <1>0, <2>0, <3>2 DEF SetThreads, CountersInv
    <3>4. TypeOK'
      BY <3>1 DEF SetThreads, TypeOK, MainStates, WorkerStates
    <3>5. \A w \in WorkerIds : worker'[w] \in WorkerAt(w)'
      BY <1>0, <2>0, <3>1 DEF WorkerAt, ThreadCount, WorkerIds
    <3>6. MainInv' /\ RanInv'
      BY <1>0, <2>0, <3>1 DEF SetThreads, MainInv, RanInv, Members, InOperation
    <3> QED
      BY <3>3, <3>4, <3>5, <3>6
  <2> QED
    BY <1>0, <2>1, <2>2
<1>5. CASE JoinNothing
  <2>1. quit' = FALSE
    BY <1>5 DEF JoinNothing, MainInv, TypeOK
  <2> QED
    BY <1>5, <2>1, JoinedFacts DEF JoinNothing
<1>6. CASE JoinWaitForWorkers
  <2>0. held_stage_count = 0 /\ ran' = {} /\ stage_count > 1
    <3>1. PICK w \in WorkerIds : worker[w] # "none"
      BY <1>6 DEF JoinWaitForWorkers
    <3> QED
      BY <1>0, <1>6, <3>1 DEF JoinWaitForWorkers, MainInv, WorkerAt, WorkerIds
  <2>1. \A w \in 1 .. ThreadCount : worker[w] = "parked"
    BY <1>0, <1>6, <2>0, AllParked DEF JoinWaitForWorkers
  <2>2. Started' = Started /\ Arrived' = {}
    BY <1>6, <2>0 DEF JoinWaitForWorkers, threadVars, Started, Arrived
  <2>3. CountersInv'
    BY <1>0, <1>6, <2>2 DEF JoinWaitForWorkers, CountersInv, threadVars
  <2>4. TypeOK'
    BY <1>6 DEF JoinWaitForWorkers, TypeOK, threadVars, countVars, MainStates
  <2>5. \A w \in WorkerIds : worker'[w] \in WorkerAt(w)'
    BY <1>0, <1>6, <2>0, <2>1 DEF JoinWaitForWorkers, WorkerAt, Dispatched, ThreadCount, threadVars, countVars, WorkerIds
  <2>6. MainInv' /\ RanInv'
    BY <1>0, <1>6, <2>0 DEF JoinWaitForWorkers, MainInv, RanInv, Members, InOperation, threadVars, countVars
  <2> QED
    BY <2>3, <2>4, <2>5, <2>6
<1>7. CASE QuitWorkers
  <2>2. Started' = Started /\ Arrived' = {}
    BY <1>0, <1>7 DEF QuitWorkers, Started, Arrived
  <2>3. CountersInv'
    BY <1>0, <1>7, <2>2 DEF QuitWorkers, CountersInv
  <2>4. TypeOK'
    BY <1>7 DEF QuitWorkers, TypeOK, countVars, MainStates
  <2>5. \A w \in WorkerIds : worker'[w] \in WorkerAt(w)'
    BY <1>0, <1>7 DEF QuitWorkers, WorkerAt, Dispatched, ThreadCount, MainInv, countVars
  <2>6. MainInv' /\ RanInv'
    BY <1>0, <1>7 DEF QuitWorkers, MainInv, RanInv, Members, InOperation, countVars
  <2> QED
    BY <2>3, <2>4, <2>5, <2>6
<1>8. CASE SignalQuit
  <2>1. /\ worker' \in [WorkerIds -> WorkerStates]
        /\ \A w \in WorkerIds : worker'[w] = IF worker[w] = "parked" THEN "woken" ELSE worker[w]
        /\ Started' = Started /\ Arrived' = {}
    BY <1>0, <1>8, BroadcastFacts DEF SignalQuit, TypeOK
  <2>3. CountersInv'
    BY <1>0, <1>8, <2>1 DEF SignalQuit, CountersInv
  <2>4. TypeOK'
    BY <1>8, <2>1 DEF SignalQuit, TypeOK, countVars, MainStates
  <2>5. \A w \in WorkerIds : worker'[w] \in WorkerAt(w)'
    BY <1>0, <1>8, <2>1 DEF SignalQuit, WorkerAt, Dispatched, ThreadCount, MainInv, countVars
  <2>6. MainInv' /\ RanInv'
    BY <1>0, <1>8 DEF SignalQuit, MainInv, RanInv, Members, InOperation, countVars
  <2> QED
    BY <2>3, <2>4, <2>5, <2>6
<1>9. CASE JoinThreads
  <2>1. \A w \in WorkerIds : worker[w] \in {"none", "stopped"}
    BY <1>0, <1>9 DEF JoinThreads, MainInv, WorkerAt, WorkerIds
  <2> QED
    BY <1>9, <2>1, JoinedFacts DEF JoinThreads
<1> QED
  BY <1>1, <1>2, <1>3, <1>4, <1>5, <1>6, <1>7, <1>8, <1>9

-----------------------------------------------------------------------------
(* Theorems.                                                                 *)

\* The invariant holds initially and every step keeps it.
THEOREM WorkersInvariant == Spec => []IInv
<1>1. Init => IInv
  <2> SUFFICES ASSUME Init PROVE IInv
    OBVIOUS
  <2>1. Started = {} /\ Arrived = {}
    BY DEF Init, Started, Arrived
  <2>2. CountersInv
    BY <2>1, FS_EmptySet DEF Init, CountersInv
  <2>3. TypeOK
    <3>1. 1 \in 1 .. MaxThreads /\ 0 \in 0 .. MaxThreads - 1 /\ 0 \in 0 .. MaxThreads
      BY MaxThreadsAssumption
    <3>2. worker \in [WorkerIds -> WorkerStates]
      BY DEF Init, WorkerStates
    <3> QED
      BY <3>1, <3>2 DEF Init, TypeOK, MainStates
  <2>4. \A w \in WorkerIds : worker[w] \in WorkerAt(w)
    BY DEF Init, WorkerAt, ThreadCount
  <2>5. MainInv /\ RanInv
    BY DEF Init, MainInv, RanInv, Members, InOperation
  <2> QED
    BY <2>2, <2>3, <2>4, <2>5 DEF IInv
<1>2. IInv /\ [Next]_vars => IInv'
  <2> SUFFICES ASSUME IInv, [Next]_vars PROVE IInv'
    OBVIOUS
  <2>1. CASE UNCHANGED vars
    BY <2>1 DEF vars, threadVars, countVars, IInv, TypeOK, CountersInv, WorkerAt, ThreadCount, Dispatched,
       MainInv, RanInv, Members, InOperation, Started, Arrived
  <2>2. CASE Next
    BY <2>2, WorkerPreserves, OperationPreserves, FramePreserves DEF Next, MainStep
  <2> QED
    BY <2>1, <2>2
<1> QED
  BY <1>1, <1>2, PTL DEF Spec

\* The types of the state.
THEOREM WorkersTypeOK == Spec => []TypeOK
BY WorkersInvariant, PTL DEF IInv

\* Commands are merged, and world->flags is written, while no worker runs.
THEOREM MergesAlone == Spec => []MergeAlone
<1>1. IInv => MergeAlone
  BY MaxThreadsAssumption DEF IInv, MergeAlone, WorkerAt, Dispatched, MainInv
<1> QED
  BY <1>1, WorkersInvariant, PTL

\* The assertions of worker.c and pipeline.c on the counters cannot fail.
THEOREM AssertionsHold == Spec => []SyncAssertions
<1>1. IInv => SyncAssertions
  <2> SUFFICES ASSUME IInv PROVE SyncAssertions
    OBVIOUS
  <2>1. main \in {"frame", "next", "signal", "join", "idle"} => workers_waiting = 0
    <3>1. main \in {"frame", "next", "signal", "join", "idle"} => Arrived = {}
      BY DEF IInv, RanInv, Members, InOperation, Arrived
    <3> QED
      BY <3>1, FS_EmptySet DEF IInv, CountersInv
  <2>2. ASSUME main = "join_threads", \A w \in 1 .. stage_count - 1 : worker[w] = "stopped"
        PROVE  workers_running = 0
    <3>1. ThreadCount = stage_count - 1
      BY <2>2 DEF IInv, MainInv, ThreadCount, TypeOK
    <3>2. Started = {}
      BY <2>2, <3>1, CountedExist DEF Started
    <3> QED
      BY <3>2, FS_EmptySet DEF IInv, CountersInv
  <2> QED
    BY <2>1, <2>2 DEF SyncAssertions, IInv, MainInv
<1> QED
  BY <1>1, WorkersInvariant, PTL

\* The worker threads implement a fork and a join: every stage runs its share
\* of an operation once, and the merge waits for all of them.
THEOREM WorkersImplementForkJoin == Spec => ImplementsForkJoin
<1>1. Init => ForkJoin!FJInit
  BY DEF Init, ForkJoin!FJInit, Members, InOperation
<1>2. IInv /\ IInv' /\ [Next]_vars =>
        [ForkJoin!Fork \/ ForkJoin!RunShare \/ ForkJoin!Merge]_(ForkJoin!forkJoinVars)
  <2> SUFFICES ASSUME IInv, IInv', [Next]_vars
               PROVE  \/ ForkJoin!Fork \/ ForkJoin!RunShare \/ ForkJoin!Merge
                      \/ UNCHANGED <<Members, ran>>
    BY DEF ForkJoin!forkJoinVars
  <2> USE MaxThreadsAssumption
  <2>1. CASE UNCHANGED vars
    BY <2>1 DEF vars, countVars, Members, InOperation
  <2>2. ASSUME NEW parallel \in BOOLEAN, BeginOperation(parallel) PROVE ForkJoin!Fork
    <3>1. Members = {} /\ stage_count \in 1 .. MaxThreads /\ ran' = ran
      BY <2>2 DEF BeginOperation, IInv, TypeOK, Members, InOperation
    <3>2. Members' = IF parallel THEN 0 .. stage_count - 1 ELSE {0}
      BY <2>2 DEF BeginOperation, Members, InOperation, countVars
    <3>3. Members' \subseteq StageIds /\ 0 \in Members'
      BY <3>1, <3>2 DEF StageIds
    <3> QED
      <4>1. Members' \in (SUBSET StageIds) \ {{}}
        BY <3>3
      <4> QED
        BY <3>1, <4>1 DEF ForkJoin!Fork
  <2>3. CASE RunMain
    <3>1. Members' = Members /\ 0 \in Members /\ 0 \notin ran
      BY <2>3 DEF RunMain, IInv, TypeOK, RanInv, Members, InOperation, countVars
    <3> QED
      BY <2>3, <3>1 DEF RunMain, ForkJoin!RunShare
  <2>4. ASSUME NEW w \in WorkerIds, RunWorker(w) PROVE ForkJoin!RunShare
    <3>1. Dispatched /\ w \notin ran /\ held_stage_count = 0 /\ w <= ThreadCount
      BY <2>4, CountedExist DEF RunWorker, IInv, TypeOK, WorkerAt, WorkerIds
    <3>2. w \in Members /\ Members' = Members
      BY <2>4, <3>1 DEF RunWorker, Dispatched, ThreadCount, IInv, TypeOK, Members, InOperation, countVars, WorkerIds
    <3> QED
      BY <2>4, <3>1, <3>2 DEF RunWorker, ForkJoin!RunShare
  <2>5. ASSUME MergeStages PROVE ForkJoin!Merge
    BY <2>5 DEF MergeStages, IInv, RanInv, Members, InOperation, ForkJoin!Merge
  <2>6. ASSUME NEW w \in WorkerIds, StartWorker(w) \/ LoopWorker(w) \/ SyncWorker(w) \/ StopWorker(w)
        PROVE  UNCHANGED <<Members, ran>>
    BY <2>6 DEF StartWorker, LoopWorker, SyncWorker, StopWorker, SyncedMain, Members, InOperation, countVars
  <2>7. ASSUME WaitForWorkers \/ SignalWorkers \/ WaitForSync \/ Synced
        PROVE  UNCHANGED <<Members, ran>>
    BY <2>7 DEF WaitForWorkers, SignalWorkers, WaitForSync, Synced, Members, InOperation, countVars
  <2>8. ASSUME BeginStartup \/ BeginFrame \/ EndPipeline \/ JoinNothing \/ JoinWaitForWorkers
                  \/ QuitWorkers \/ SignalQuit \/ JoinThreads
                  \/ \E threads \in 1 .. MaxThreads, tasks \in BOOLEAN : SetThreads(threads, tasks)
        PROVE  UNCHANGED <<Members, ran>>
    <3>1. ~InOperation
      BY <2>8 DEF BeginStartup, BeginFrame, EndPipeline, JoinNothing, JoinWaitForWorkers, QuitWorkers,
         SignalQuit, JoinThreads, SetThreads, InOperation
    <3>2. main' \in {"idle", "progress", "frame", "join", "quit", "signal_quit", "join_threads"} /\ ran' = ran
      BY <2>8 DEF BeginStartup, BeginFrame, EndPipeline, JoinNothing, JoinWaitForWorkers, QuitWorkers,
         SignalQuit, JoinThreads, SetThreads, Joined, StartWorkers
    <3> QED
      BY <3>1, <3>2 DEF Members, InOperation
  <2> QED
    BY <2>1, <2>2, <2>3, <2>4, <2>5, <2>6, <2>7, <2>8 DEF Next, MainStep, WorkerStep
<1> QED
  BY <1>1, <1>2, WorkersInvariant, PTL DEF Spec, ImplementsForkJoin, ForkJoin!FJSpec
=============================================================================
