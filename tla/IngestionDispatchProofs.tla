----------------------- MODULE IngestionDispatchProofs -----------------------
(***************************************************************************)
(* IngestionQueue implements IngestionDispatch, in the systems in which no *)
(* run outlasts the stale threshold and no datasource is deleted.          *)
(*                                                                         *)
(* A job's phase is its status; its runner is the worker inside _run with  *)
(* it.  Submit, Claim, Sweep, Succeed and Fail are the abstract steps of   *)
(* the promise, a crash or an escaping exception loses the runner, and     *)
(* everything else leaves the mapped variables alone.                      *)
(***************************************************************************)
EXTENDS IngestionOwnershipProofs

\* A command makes its request before it runs anything.
CommandWaits == \A c \in CliWorkers : request[c].at # "idle" => pc[c] = "down"

LEMMA CommandWaitsNext ==
    ASSUME TypeOK, CommandWaits, [Next]_vars
    PROVE  CommandWaits'
<1> SUFFICES ASSUME NEW c \in CliWorkers, request'[c].at # "idle" PROVE pc'[c] = "down"
  BY DEF CommandWaits
<1>0. /\ pc \in [Workers -> Points] /\ request \in [Clients -> Request]
      /\ c \in Workers /\ c \in Clients
  BY ConstantsAssumption DEF TypeOK
<1>1. ASSUME NEW w \in Workers, pc[w] = "down" => w # c, w # c => pc'[c] = pc[c],
             UNCHANGED request
      PROVE  pc'[c] = "down"
  BY <1>1 DEF CommandWaits
<1>2. ASSUME NEW w \in Workers, ThreadStep(w) \/ StoreFault(w) PROVE pc'[c] = "down"
  <2>1. pc[w] # "down"
    BY <1>2 DEF ThreadStep, Sweep, Tick, Claim, ClaimNothing, RecordSelect, RecordUpdate, Stage,
                Reread, Succeed, Fail, StoreFault, AfterFault
  <2>2. UNCHANGED request
    BY <1>2 DEF ThreadStep, Sweep, Tick, Claim, ClaimNothing, RecordSelect, RecordUpdate, Stage,
                Reread, Succeed, Fail, Finish, StoreFault
  <2>3. w # c => pc'[c] = pc[c]
    BY <1>0, <1>2 DEF ThreadStep, Sweep, Tick, Claim, ClaimNothing, RecordSelect, RecordUpdate,
                Stage, Reread, Succeed, Fail, Finish, StoreFault, AfterFault, AfterReport, Leave,
                Goto
  <2> QED BY <2>1, <2>2, <2>3 DEF CommandWaits
<1>3. ASSUME NEW w \in Workers, Start(w) \/ Crash(w) PROVE pc'[c] = "down"
  BY <1>0, <1>3 DEF Start, Crash, Leave, Goto, CommandWaits
<1>4. ASSUME NEW e \in Clients, NEW d \in Datasources, RegisterAndSubmit(e, d)
      PROVE  pc'[c] = "down"
  BY <1>0, <1>4 DEF RegisterAndSubmit, Free, Ask, threads, CommandWaits
<1>5. ASSUME NEW e \in Clients, NEW d \in Datasources, NEW start \in Steps, Retry(e, d, start)
      PROVE  pc'[c] = "down"
  BY <1>0, <1>5 DEF Retry, Free, Ask, threads, CommandWaits
<1>6. ASSUME NEW e \in Clients, CheckActive(e) PROVE pc'[c] = "down"
  BY <1>0, <1>6 DEF CheckActive, threads, CommandWaits
<1>7. ASSUME NEW e \in Clients, Submit(e) PROVE pc'[c] = "down"
  <2>1. request'[e].at = "idle" BY <1>0, <1>7 DEF Submit, NoRequest
  <2>2. e # c BY <2>1
  <2>3. request'[c] = request[c] /\ pc'[c] = pc[c] BY <1>0, <1>7, <2>2 DEF Submit
  <2> QED BY <2>3 DEF CommandWaits
<1>8. ASSUME UNCHANGED <<request, pc>> PROVE pc'[c] = "down"
  BY <1>8 DEF CommandWaits
<1> QED
  BY <1>2, <1>3, <1>4, <1>5, <1>6, <1>7, <1>8
  DEF Next, ClientNext, DatasourceNext, WorkerNext, RemoveDatasource, RegisterDatasource, Age,
      vars, threads

-----------------------------------------------------------------------------
\* The runner of every job, which the mapping shows.
RunnerOf == [j \in Jobs |-> Runner(j)]

\* The runner of a job is the one worker inside _run with it.
LEMMA RunnerIsInside ==
    ASSUME Inv, NEW w \in Workers, NEW j \in Jobs
    PROVE  /\ Running(w, j) <=> Runner(j) = w
           /\ Running(w, j) => j \in Jobs /\ status[j] = "running" /\ ~stale[j]
<1>1. \A v \in Workers : Running(v, j) => claimedBy[j] = v BY DEF Inv, Ownership, Running
<1>2. w # NoWorker BY ConstantsAssumption
<1> QED BY <1>1, <1>2 DEF Runner, Inv, Ownership, Running

\* Who runs what is all the mapping looks at.
LEMMA SameRunners ==
    ASSUME \A v \in Workers, k \in Jobs : Running(v, k)' <=> Running(v, k),
           \A v \in Workers, k \in Jobs : Running(v, k) => claimedBy'[k] = claimedBy[k]
    PROVE  RunnerOf' = RunnerOf
<1>1. ASSUME NEW k \in Jobs PROVE Runner(k)' = Runner(k)
  BY DEF Runner
<1> QED BY <1>1 DEF RunnerOf, Jobs

\* A thread that leaves _run is no runner any more, and nobody else changes.
LEMMA RunnerLeaves ==
    ASSUME Inv, NEW w \in Workers, pc[w] \in RunPoints, pc'[w] \notin RunPoints,
           \A v \in Workers : v # w => pc'[v] = pc[v] /\ run'[v] = run[v],
           UNCHANGED claimedBy
    PROVE  /\ run[w].job \in Jobs /\ RunnerOf[run[w].job] # NoWorker
           /\ status[run[w].job] = "running"
           /\ RunnerOf' = [RunnerOf EXCEPT ![run[w].job] = NoWorker]
<1>1. PICK job \in Jobs : job = run[w].job /\ status[job] = "running" BY DEF Inv, Ownership
<1>2. Running(w, job) BY <1>1 DEF Running
<1>3. Runner(job) = w BY <1>1, <1>2, RunnerIsInside
<1>4. \A v \in Workers, k \in Jobs : Running(v, k)' <=> Running(v, k) /\ v # w
  BY DEF Running
<1>5. Runner(job)' = NoWorker
  <2>1. \A v \in Workers : Running(v, job) => v = w BY <1>1, <1>3, RunnerIsInside
  <2> QED BY <1>1, <1>4, <2>1 DEF Runner
<1>6. ASSUME NEW k \in Jobs, k # job PROVE Runner(k)' = Runner(k)
  <2>1. ~Running(w, k) BY <1>1, <1>6 DEF Running
  <2> QED BY <1>4, <1>6, <2>1 DEF Runner
<1>7. w # NoWorker BY ConstantsAssumption
<1> QED BY <1>1, <1>3, <1>5, <1>6, <1>7 DEF RunnerOf, Jobs

-----------------------------------------------------------------------------
\* The steps of the promise.
LEMMA SubmitMaps ==
    ASSUME Inv, CommandWaits, NEW c \in Clients, Submit(c)
    PROVE  Dispatch!Next \/ UNCHANGED Dispatch!vars
<1> DEFINE job == request[c].job
           name == request[c].ds
<1>0. /\ job \in Jobs /\ status[job] = "none" /\ name \in Datasources
      /\ request[c].at = "insert"
  BY ConstantsAssumption DEF Submit, Inv, RequestsAreFresh, TypeOK, Jobs, Request
<1>1. RunnerOf' = RunnerOf
  <2>1. \A v \in Workers : pc'[v] = pc[v] \/ (pc[v] = "down" /\ pc'[v] = "claim")
    BY <1>0 DEF Submit, CommandWaits, Inv, TypeOK
  <2>2. UNCHANGED <<run, claimedBy>> BY DEF Submit
  <2>3. \A v \in Workers, k \in Jobs : Running(v, k)' <=> Running(v, k)
    BY <2>1, <2>2 DEF Running, RunPoints
  <2> QED BY <2>2, <2>3, SameRunners
<1>2. CASE Insertable(name)
  <2>1. ds' = [ds EXCEPT ![job] = name] /\ status' = [status EXCEPT ![job] = "queued"]
    BY <1>2 DEF Submit
  <2>2. \A k \in Jobs : ~(ds[k] = name /\ status[k] \in {"queued", "running"})
    BY <1>2 DEF Insertable, ActiveJobsOf, JobsOf, Exists, Active
  <2>3. Dispatch!Submit(job, name)
    BY <1>0, <1>1, <2>1, <2>2 DEF Dispatch!Submit, Dispatch!Unfinished, RunnerOf
  <2> QED BY <1>0, <2>3 DEF Dispatch!Next
<1>3. CASE ~Insertable(name)
  BY <1>1, <1>3 DEF Submit, Dispatch!vars, RunnerOf
<1> QED BY <1>2, <1>3

LEMMA ClaimMaps ==
    ASSUME Inv, NEW w \in Workers, Claim(w)
    PROVE  Dispatch!Next
<1>1. PICK j \in Queued :
          /\ run'[w].job = j
          /\ status' = [status EXCEPT ![j] = "running"]
          /\ claimedBy' = [claimedBy EXCEPT ![j] = w]
  BY ClaimEffect DEF Inv
<1>2. /\ j \in Jobs /\ status[j] = "queued" /\ pc[w] = "claim" /\ pc'[w] \in RunPoints
      /\ \A v \in Workers : v # w => pc'[v] = pc[v] /\ run'[v] = run[v]
      /\ UNCHANGED ds
  BY <1>1 DEF Claim, Queued, Goto, Inv, TypeOK, RunPoints
<1>3. \A k \in Jobs : RunnerOf[k] # w
  BY <1>2, RunnerIsInside DEF RunnerOf, Running, RunPoints
<1>4. RunnerOf' = [RunnerOf EXCEPT ![j] = w]
  <2>1. Runner(j)' = w
    BY <1>1, <1>2 DEF Runner, Running, Inv, TypeOK
  <2>2. ASSUME NEW k \in Jobs, k # j PROVE Runner(k)' = Runner(k)
    <3>1. \A v \in Workers : Running(v, k)' <=> Running(v, k)
      BY <1>1, <1>2, <2>2 DEF Running, RunPoints
    <3>2. claimedBy'[k] = claimedBy[k] BY <1>1, <2>2 DEF Inv, TypeOK
    <3> QED BY <3>1, <3>2 DEF Runner
  <2> QED BY <1>2, <2>1, <2>2 DEF RunnerOf, Jobs
<1>5. Dispatch!Dispatch(j, w)
  BY <1>1, <1>2, <1>3, <1>4 DEF Dispatch!Dispatch, RunnerOf
<1> QED BY <1>2, <1>5 DEF Dispatch!Next

\* Nobody runs a job that is stale.
LEMMA SweepMaps ==
    ASSUME Inv, NEW w \in Workers, Sweep(w)
    PROVE  Dispatch!Next
<1>1. \A j \in Stale : j \in Jobs /\ status[j] = "running" /\ \A v \in Workers : ~Running(v, j)
  BY RunnerIsInside DEF Stale
<1>2. \A j \in Stale : Runner(j) = NoWorker BY <1>1 DEF Runner
<1>3. RunnerOf' = RunnerOf
  <2>1. \A v \in Workers, k \in Jobs : Running(v, k)' <=> Running(v, k)
    BY DEF Sweep, Goto, Running, RunPoints, Inv, TypeOK
  <2>2. \A v \in Workers, k \in Jobs : Running(v, k) => claimedBy'[k] = claimedBy[k]
    BY <1>1 DEF Sweep, ReleaseStale
  <2> QED BY <2>1, <2>2, SameRunners
<1>4. Dispatch!Requeue(Stale)
  BY <1>1, <1>2, <1>3 DEF Sweep, ReleaseStale, Dispatch!Requeue, RunnerOf
<1>5. Stale \in SUBSET Jobs BY DEF Stale
<1> QED BY <1>4, <1>5 DEF Dispatch!Next

LEMMA FinishMaps ==
    ASSUME Inv, NEW w \in Workers, pc[w] \in RunPoints, NEW outcome \in {"succeeded", "failed"},
           NEW blame, Finish(w, outcome, blame)
    PROVE  Dispatch!Next
<1> DEFINE job == run[w].job
<1>1. /\ pc'[w] \notin RunPoints /\ UNCHANGED <<ds, claimedBy>>
      /\ \A v \in Workers : v # w => pc'[v] = pc[v] /\ run'[v] = run[v]
  BY FinishLeaves DEF Finish, Leave, Goto, Inv, TypeOK
<1>2. /\ job \in Jobs /\ RunnerOf[job] # NoWorker /\ status[job] = "running"
      /\ RunnerOf' = [RunnerOf EXCEPT ![job] = NoWorker]
  BY <1>1, RunnerLeaves
<1>3. status' = [status EXCEPT ![job] = outcome] BY <1>2 DEF Finish, Exists
<1>4. Dispatch!Conclude(job, outcome)
  BY <1>1, <1>2, <1>3 DEF Dispatch!Conclude, RunnerOf
<1> QED BY <1>2, <1>4 DEF Dispatch!Next, Dispatch!Finished

\* A thread that dies inside _run loses its job; elsewhere it has none to lose.
LEMMA DeathMaps ==
    ASSUME Inv, NEW w \in Workers, pc'[w] \notin RunPoints,
           \A v \in Workers : v # w => pc'[v] = pc[v] /\ run'[v] = run[v],
           UNCHANGED <<ds, status, claimedBy>>
    PROVE  Dispatch!Next \/ UNCHANGED Dispatch!vars
<1>1. CASE pc[w] \in RunPoints
  <2>1. /\ run[w].job \in Jobs /\ RunnerOf[run[w].job] # NoWorker
        /\ RunnerOf' = [RunnerOf EXCEPT ![run[w].job] = NoWorker]
    BY <1>1, RunnerLeaves
  <2>2. Dispatch!Lose(run[w].job) BY <2>1 DEF Dispatch!Lose, RunnerOf
  <2> QED BY <2>1, <2>2 DEF Dispatch!Next
<1>2. CASE pc[w] \notin RunPoints
  <2>1. \A v \in Workers, k \in Jobs : Running(v, k)' <=> Running(v, k)
    BY <1>2 DEF Running
  <2>2. RunnerOf' = RunnerOf BY <2>1, SameRunners
  <2> QED BY <2>2 DEF Dispatch!vars, RunnerOf
<1> QED BY <1>1, <1>2

\* A step inside _run is a stutter.
LEMMA InsideMaps ==
    ASSUME Inv, NEW w \in Workers, pc[w] \in RunPoints, pc'[w] \in RunPoints,
           run'[w].job = run[w].job,
           \A v \in Workers : v # w => pc'[v] = pc[v] /\ run'[v] = run[v],
           UNCHANGED <<ds, status, claimedBy>>
    PROVE  UNCHANGED Dispatch!vars
<1>1. \A v \in Workers, k \in Jobs : Running(v, k)' <=> Running(v, k) BY DEF Running
<1>2. RunnerOf' = RunnerOf BY <1>1, SameRunners
<1> QED BY <1>2 DEF Dispatch!vars, RunnerOf

LEMMA RecordMaps ==
    ASSUME Inv, NEW w \in Workers,
           RecordSelect(w) \/ RecordUpdate(w) \/ Stage(w) \/ Reread(w)
    PROVE  UNCHANGED Dispatch!vars
<1>0. pc \in [Workers -> Points] /\ run \in [Workers -> Run] /\ run[w] \in Run
  BY DEF Inv, TypeOK
<1>1. pc[w] \in RunPoints /\ UNCHANGED <<ds, status, claimedBy>>
  BY DEF RecordSelect, RecordUpdate, Stage, Reread, RunPoints, rows
<1>2. /\ pc'[w] \in RunPoints /\ run'[w].job = run[w].job
      /\ \A v \in Workers : v # w => pc'[v] = pc[v] /\ run'[v] = run[v]
  <2>1. CASE RecordUpdate(w)
    <3>1. PICK point \in RunPoints, r \in Run :
              /\ r.job = run[w].job
              /\ pc' = [pc EXCEPT ![w] = point]
              /\ run' = [run EXCEPT ![w] = r]
      BY <1>0, <2>1, UpdateEffect DEF RecordUpdate
    <3> QED BY <1>0, <3>1
  <2>2. CASE RecordSelect(w) \/ Stage(w) \/ Reread(w)
    <3>1. pc'[w] \in RunPoints
      BY <1>0, <2>2 DEF RecordSelect, Stage, Reread, Goto, RunPoints
    <3>2. run'[w].job = run[w].job
      BY <1>0, <2>2 DEF RecordSelect, Stage, Reread, Run
    <3>3. \A v \in Workers : v # w => pc'[v] = pc[v] /\ run'[v] = run[v]
      BY <1>0, <2>2 DEF RecordSelect, Stage, Reread, Goto
    <3> QED BY <3>1, <3>2, <3>3
  <2> QED BY <2>1, <2>2
<1> QED BY <1>1, <1>2, InsideMaps

LEMMA FaultMaps ==
    ASSUME Inv, NEW w \in Workers, StoreFault(w)
    PROVE  Dispatch!Next \/ UNCHANGED Dispatch!vars
<1>1. PICK point \in Points :
          /\ pc' = [pc EXCEPT ![w] = point]
          /\ \/ UNCHANGED run /\ (point \in RunPoints => pc[w] \in RunPoints)
             \/ run' = [run EXCEPT ![w] = NoRun] /\ point \notin RunPoints
  BY FaultEffect DEF StoreFault
<1>2. /\ UNCHANGED <<ds, status, claimedBy>> /\ pc'[w] = point
      /\ \A v \in Workers : v # w => pc'[v] = pc[v] /\ run'[v] = run[v]
  BY <1>1 DEF StoreFault, rows, Inv, TypeOK
<1>3. CASE point \in RunPoints BY <1>1, <1>2, <1>3, InsideMaps
<1>4. CASE point \notin RunPoints BY <1>2, <1>4, DeathMaps
<1> QED BY <1>3, <1>4

\* Every step is a step of the promise or leaves it alone.
LEMMA StepMaps ==
    ASSUME Undisturbed, Inv, CommandWaits, [Next]_vars
    PROVE  [Dispatch!Next]_(Dispatch!vars)
<1> DEFINE Maps == Dispatch!Next \/ UNCHANGED Dispatch!vars
<1>1. ASSUME NEW c \in Clients, Submit(c) PROVE Maps BY <1>1, SubmitMaps
<1>2. ASSUME NEW w \in Workers, Claim(w) PROVE Maps BY <1>2, ClaimMaps
<1>3. ASSUME NEW w \in Workers, Sweep(w) PROVE Maps BY <1>3, SweepMaps
<1>4. ASSUME NEW w \in Workers, Succeed(w) \/ Fail(w) PROVE Maps
  BY <1>4, FinishMaps DEF Succeed, Fail, RunPoints
<1>5. ASSUME NEW w \in Workers, RecordSelect(w) \/ RecordUpdate(w) \/ Stage(w) \/ Reread(w)
      PROVE  Maps
  BY <1>5, RecordMaps
<1>6. ASSUME NEW w \in Workers, StoreFault(w) PROVE Maps BY <1>6, FaultMaps
<1>7. ASSUME NEW w \in Workers, Crash(w) \/ Start(w) \/ Tick(w) \/ ClaimNothing(w) PROVE Maps
  <2>1. /\ UNCHANGED <<ds, status, claimedBy>> /\ pc'[w] \notin RunPoints
        /\ \A v \in Workers : v # w => pc'[v] = pc[v] /\ run'[v] = run[v]
    BY <1>7 DEF Crash, Start, Tick, ClaimNothing, Leave, Goto, Return, rows, RunPoints, Inv,
                TypeOK
  <2> QED BY <2>1, DeathMaps
<1>8. ASSUME NEW d \in Datasources, RemoveDatasource(d) PROVE Maps
  BY <1>8 DEF RemoveDatasource, Undisturbed, Inv, TypeOK
<1>9. ASSUME UNCHANGED <<ds, status, claimedBy, pc, run>> PROVE Maps
  <2>1. \A v \in Workers, k \in Jobs : Running(v, k)' <=> Running(v, k) BY <1>9 DEF Running
  <2>2. RunnerOf' = RunnerOf BY <1>9, <2>1, SameRunners
  <2> QED BY <1>9, <2>2 DEF Dispatch!vars, RunnerOf
<1> HIDE DEF Maps
<1>10. Maps
  BY <1>1, <1>2, <1>3, <1>4, <1>5, <1>6, <1>7, <1>8, <1>9
  DEF Next, ClientNext, DatasourceNext, WorkerNext, ThreadStep, RegisterAndSubmit, Retry,
      CheckActive, RegisterDatasource, Age, vars, rows, threads
<1> QED BY <1>10 DEF Maps

LEMMA InitMaps == Init => Dispatch!Init
<1> SUFFICES ASSUME Init PROVE Dispatch!Init OBVIOUS
<1>1. AnyDatasource \in Datasources BY ConstantsAssumption DEF AnyDatasource
<1>2. \A j \in Jobs : Runner(j) = NoWorker BY DEF Init, Runner, Running, RunPoints
<1> QED BY <1>1, <1>2 DEF Init, Dispatch!Init

\* Undisturbed, the queue keeps its promise: one worker at a time for a job, no
\* job dispatched again while it is run, and one unfinished job per datasource.
THEOREM QueueImplementsDispatch ==
    ASSUME Undisturbed
    PROVE  Spec => DispatchSpec
<1>1. Init => CommandWaits BY ConstantsAssumption DEF Init, CommandWaits, NoRequest
<1>2. Inv /\ CommandWaits /\ [Next]_vars => CommandWaits' BY CommandWaitsNext DEF Inv
<1>3. Inv /\ CommandWaits /\ [Next]_vars => [Dispatch!Next]_(Dispatch!vars) BY StepMaps
<1> QED BY <1>1, <1>2, <1>3, InitMaps, InvInvariant, PTL DEF Spec, DispatchSpec, Dispatch!Spec

\* Undisturbed, the outcome of a job is decided once: whoever finishes a job owns
\* its row, which is running.
THEOREM OutcomesAreFinal ==
    ASSUME Undisturbed
    PROVE  Spec => OutcomeIsFinal
<1>1. ASSUME Inv, [Next]_vars
      PROVE  \A j \in Jobs : status[j] \in Terminal => status'[j] \in {status[j], "none"}
  <2> SUFFICES ASSUME NEW j \in Jobs, status[j] \in Terminal
               PROVE  status'[j] = status[j]
    OBVIOUS
  <2>1. ASSUME NEW w \in Workers, Succeed(w) \/ Fail(w) PROVE status'[j] = status[j]
    <3>1. run[w].job # j
      BY <1>1, <2>1 DEF Succeed, Fail, RunPoints, Inv, Ownership, Terminal
    <3> QED BY <1>1, <2>1, <3>1 DEF Succeed, Fail, Finish, Inv, TypeOK
  <2>2. ASSUME NEW c \in Clients, Submit(c) PROVE status'[j] = status[j]
    <3>1. j # request[c].job BY <1>1, <2>2 DEF Submit, Inv, RequestsAreFresh, Terminal
    <3> QED BY <1>1, <2>2, <3>1 DEF Submit, Inv, TypeOK
  <2>3. ASSUME NEW w \in Workers, Claim(w) PROVE status'[j] = status[j]
    BY <1>1, <2>3, ClaimEffect DEF Queued, Terminal, Inv, TypeOK
  <2>4. ASSUME NEW w \in Workers, Sweep(w) PROVE status'[j] = status[j]
    BY <2>4 DEF Sweep, ReleaseStale, Stale, Terminal
  <2>5. ASSUME NEW d \in Datasources, RemoveDatasource(d) PROVE FALSE
    BY <1>1, <2>5 DEF RemoveDatasource, Undisturbed, Inv, TypeOK
  <2> QED
    BY <1>1, <2>1, <2>2, <2>3, <2>4, <2>5
    DEF Next, ClientNext, DatasourceNext, WorkerNext, ThreadStep, RegisterAndSubmit, Retry,
        CheckActive, RegisterDatasource, Age, Start, Tick, ClaimNothing, RecordSelect,
        RecordUpdate, Stage, Reread, StoreFault, Crash, vars, rows
<1>2. Inv /\ [Next]_vars =>
          [\A j \in Jobs : status[j] \in Terminal => status'[j] \in {status[j], "none"}]_vars
  BY <1>1
<1> QED BY <1>2, InvInvariant, PTL DEF Spec, OutcomeIsFinal
=============================================================================
