------------------------ MODULE IngestionQueueProofs ------------------------
(***************************************************************************)
(* Theorems about IngestionQueue, for every number of workers, requests,   *)
(* datasources, jobs and steps, and every bound on what goes wrong.        *)
(***************************************************************************)
EXTENDS IngestionQueue, TLAPS

(***************************************************************************)
(* Types                                                                   *)
(***************************************************************************)

\* What is written to a step list is a step list.
LEMMA StepListType ==
    /\ NoSteps \in StepList
    /\ \A start \in Steps, previous \in StepList :
          CarryForward(start, previous) \in StepList
    /\ \A list \in StepList, s \in Steps, new \in StepStatus :
          [list EXCEPT ![s] = new] \in StepList
  BY DEF StepList, NoSteps, StepStatus, CarryForward

\* The first failed step is a step, or 0.
LEMMA FirstFailedType == \A list \in StepList : FirstFailed(list) \in 0..NumSteps
<1> SUFFICES ASSUME NEW list \in StepList PROVE FirstFailed(list) \in 0..NumSteps
  OBVIOUS
<1> DEFINE first == {s \in Steps : /\ list[s] = "failed"
                                   /\ \A t \in Steps : list[t] = "failed" => s <= t}
<1>1. CASE first = {}
  BY <1>1, ConstantsAssumption DEF FirstFailed
<1>2. CASE first # {}
  <2>1. (CHOOSE s \in first : TRUE) \in Steps
    BY <1>2
  <2> QED BY <2>1, <1>2, ConstantsAssumption DEF FirstFailed, Steps
<1> QED BY <1>1, <1>2

\* The locals of a run and a request keep their types when a field is set.
LEMMA RunType ==
    /\ NoRun \in Run
    /\ \A r \in Run, j \in 0..MaxJobs : [r EXCEPT !.job = j] \in Run
    /\ \A r \in Run, left \in SUBSET Steps : [r EXCEPT !.todo = left] \in Run
    /\ \A r \in Run, list \in StepList : [r EXCEPT !.seen = list] \in Run
    /\ \A r \in Run, outcome \in {"running", "done", "failed"} :
          [r EXCEPT !.report = outcome] \in Run
    /\ \A r \in Run, blame \in 0..NumSteps : [r EXCEPT !.blame = blame] \in Run
<1> USE ConstantsAssumption DEF Run
<1>1. NoSteps \in StepList
  BY StepListType
<1>2. NoRun \in Run
  BY <1>1 DEF NoRun
<1> QED BY <1>2

LEMMA RequestType ==
    /\ NoRequest \in Request
    /\ \A d \in Datasources, list \in StepList :
          [at |-> "active", ds |-> d, job |-> 0, steps |-> list] \in Request
    /\ \A r \in Request : [r EXCEPT !.at = "insert"] \in Request
    /\ \A r \in Request, j \in 0..MaxJobs : [r EXCEPT !.job = j] \in Request
<1> USE ConstantsAssumption DEF Request
<1>1. AnyDatasource \in Datasources
  BY DEF AnyDatasource
<1>2. NoSteps \in StepList
  BY StepListType
<1>3. NoRequest \in Request
  BY <1>1, <1>2 DEF NoRequest
<1> QED BY <1>3

LEMMA TypeInit == Init => TypeOK
<1> SUFFICES ASSUME Init PROVE TypeOK
  OBVIOUS
<1>1. AnyDatasource \in Datasources
  BY ConstantsAssumption DEF AnyDatasource
<1> QED BY <1>1, StepListType, RunType, RequestType, ConstantsAssumption
        DEF Init, TypeOK, Jobs, Points

\* finish leaves every table and every thread well-typed, whatever it finds.
LEMMA FinishType ==
    ASSUME TypeOK, RunHasJob, NEW w \in Workers, pc[w] \in RunPoints,
           NEW outcome \in Terminal, NEW blame \in 0..NumSteps,
           Finish(w, outcome, blame)
    PROVE  TypeOK'
<1> USE ConstantsAssumption DEF TypeOK, Jobs
<1>1. status' \in [Jobs -> JobStatus \cup {"none"}]
  BY DEF Finish, JobStatus
<1>2. errorStep' \in [Jobs -> 0..NumSteps]
  BY DEF Finish
<1>3. run' = [run EXCEPT ![w] = NoRun] /\ NoRun \in Run
  BY RunType DEF Finish, Leave
<1>4. run' \in [Workers -> Run]
  BY <1>3
<1>5. pc' \in [Workers -> Points]
  BY DEF Finish, Leave, Goto, Return, Escape, Points
<1> QED BY <1>1, <1>2, <1>4, <1>5 DEF Finish, bounds

\* After a report the thread is still inside _run, with the job it had.
LEMMA UpdateEffect ==
    ASSUME NEW w \in Workers, run \in [Workers -> Run], NEW s \in Steps, AfterReport(w, s)
    PROVE  \E point \in RunPoints, r \in Run :
              /\ r.job = run[w].job
              /\ pc' = [pc EXCEPT ![w] = point]
              /\ run' = [run EXCEPT ![w] = r]
<1> DEFINE r1 == [run[w] EXCEPT !.seen = NoSteps]
           r2 == [r1 EXCEPT !.todo = run[w].todo \ {s}]
           r3 == [r2 EXCEPT !.report = "running"]
<1>1. r1 \in Run /\ r1.job = run[w].job
  BY StepListType DEF Run
<1>2. r2 \in Run /\ r2.job = run[w].job
  <2>1. run[w].todo \ {s} \in SUBSET Steps
    BY DEF Run
  <2> HIDE DEF r1
  <2>2. r2 \in Run
    BY <1>1, <2>1, RunType
  <2> QED BY <1>1, <2>2 DEF Run
<1>3. r3 \in Run /\ r3.job = run[w].job
  <2> HIDE DEF r2
  <2>1. r3 \in Run
    BY <1>2, RunType
  <2> QED BY <1>2, <2>1 DEF Run
<1>4. CASE run[w].report = "running"
  <2>1. pc' = [pc EXCEPT ![w] = "stage"] /\ run' = [run EXCEPT ![w] = r1]
    BY <1>4 DEF AfterReport, Goto
  <2> HIDE DEF r1
  <2> QED BY <1>1, <2>1 DEF RunPoints
<1>5. CASE run[w].report = "done"
  <2>1. run' = [run EXCEPT ![w] = r3]
    BY <1>5 DEF AfterReport
  <2>2. pc' = [pc EXCEPT ![w] = IF run[w].todo = {s} THEN "succeed" ELSE "select"]
    BY <1>5 DEF AfterReport, Goto
  <2> HIDE DEF r3
  <2> QED BY <1>3, <2>1, <2>2 DEF RunPoints
<1>6. CASE run[w].report = "failed"
  <2>1. pc' = [pc EXCEPT ![w] = "reread"] /\ run' = [run EXCEPT ![w] = r1]
    BY <1>6 DEF AfterReport, Goto
  <2> HIDE DEF r1
  <2> QED BY <1>1, <2>1 DEF RunPoints
<1> QED BY <1>4, <1>5, <1>6 DEF AfterReport

\* After a store call raised the thread is where it was, or out of _run.
LEMMA FaultEffect ==
    ASSUME NEW w \in Workers, AfterFault(w)
    PROVE  \E point \in Points :
              /\ pc' = [pc EXCEPT ![w] = point]
              /\ \/ UNCHANGED run /\ (point \in RunPoints => pc[w] \in RunPoints)
                 \/ run' = [run EXCEPT ![w] = NoRun] /\ point \notin RunPoints
  BY DEF AfterFault, Leave, Goto, Return, Escape, Points, RunPoints

LEMMA TickType ==
    \A t \in 0..(SweepEvery - 1) : (t + 1) % SweepEvery \in 0..(SweepEvery - 1)
  BY ConstantsAssumption

LEMMA TypeNext == TypeOK /\ RunHasJob /\ [Next]_vars => TypeOK'
<1> SUFFICES ASSUME TypeOK, RunHasJob, [Next]_vars PROVE TypeOK'
  OBVIOUS
<1> USE ConstantsAssumption DEF TypeOK, Jobs
<1>0. /\ \A w \in Workers : run[w] \in Run
      /\ \A c \in Clients : request[c] \in Request
      /\ \A j \in Jobs : steps[j] \in StepList
  OBVIOUS
<1>1. ASSUME NEW c \in Clients, NEW d \in Datasources, RegisterAndSubmit(c, d)
      PROVE  TypeOK'
  <2>1. CarryForward(1, NoSteps) \in StepList
    BY StepListType DEF Steps
  <2> QED BY <1>1, <2>1, RequestType DEF RegisterAndSubmit, Ask, rows, threads, bounds
<1>2. ASSUME NEW c \in Clients, NEW d \in Datasources, NEW start \in Steps,
             Retry(c, d, start)
      PROVE  TypeOK'
  <2>1. PICK previous \in {NoSteps} \cup {steps[j] : j \in Jobs} :
           Ask(c, d, CarryForward(start, previous))
    BY <1>2 DEF Retry
  <2>2. CarryForward(start, previous) \in StepList
    BY StepListType
  <2> QED BY <1>2, <2>1, <2>2, RequestType DEF Retry, Ask, rows, threads, bounds
<1>3. ASSUME NEW c \in Clients, CheckActive(c) PROVE TypeOK'
  <2>1. created + 1 \in 0..MaxJobs
    BY <1>3 DEF CheckActive
  <2>2. [request[c] EXCEPT !.at = "insert"] \in Request
    BY <1>0, RequestType
  <2>3. [request[c] EXCEPT !.at = "insert", !.job = created + 1] \in Request
    BY <2>1, <2>2, RequestType
  <2> QED BY <1>3, <2>1, <2>3, RequestType DEF CheckActive, rows, threads, bounds
<1>4. ASSUME NEW c \in Clients, Submit(c) PROVE TypeOK'
  <2>1. /\ request[c].job \in 0..MaxJobs
        /\ request[c].ds \in Datasources
        /\ request[c].steps \in StepList
    BY <1>0 DEF Request
  <2>2. [NoRequest EXCEPT !.job = request[c].job] \in Request
    BY <2>1, RequestType
  <2>3. request' \in [Clients -> Request]
    BY <1>4, <2>2, RequestType DEF Submit
  <2>4. status' \in [Jobs -> JobStatus \cup {"none"}]
    BY <1>4, <2>1 DEF Submit, JobStatus, Active
  <2>5. ds' \in [Jobs -> Datasources] /\ steps' \in [Jobs -> StepList]
    BY <1>4, <2>1 DEF Submit
  <2>6. pc' \in [Workers -> Points]
    BY <1>4 DEF Submit, Points
  <2> QED BY <1>4, <2>3, <2>4, <2>5, <2>6 DEF Submit, bounds
<1>5. ASSUME NEW d \in Datasources, RemoveDatasource(d) PROVE TypeOK'
  BY <1>5 DEF RemoveDatasource, threads
<1>6. ASSUME NEW d \in Datasources, RegisterDatasource(d) PROVE TypeOK'
  BY <1>6 DEF RegisterDatasource, rows, threads, bounds
<1>7. ASSUME NEW w \in Workers, Start(w) PROVE TypeOK'
  BY <1>7 DEF Start, Goto, Points, rows, bounds
<1>8. ASSUME NEW w \in Workers, Sweep(w) PROVE TypeOK'
  <2>1. status' \in [Jobs -> JobStatus \cup {"none"}]
    BY <1>8 DEF Sweep, ReleaseStale, JobStatus, Active
  <2>2. claimedBy' \in [Jobs -> Workers \cup {NoWorker}]
    BY <1>8 DEF Sweep, ReleaseStale
  <2>3. stale' \in [Jobs -> BOOLEAN]
    BY <1>8, Zenon DEF Sweep, ReleaseStale
  <2>4. tick' \in [Workers -> 0..(SweepEvery - 1)]
    BY <1>8, TickType DEF Sweep, NextTick
  <2>5. pc' \in [Workers -> Points]
    BY <1>8 DEF Sweep, Goto, Points
  <2> QED BY <1>8, <2>1, <2>2, <2>3, <2>4, <2>5 DEF Sweep, bounds
<1>9. ASSUME NEW w \in Workers, Tick(w) PROVE TypeOK'
  BY <1>9, TickType DEF Tick, NextTick, Goto, Points, rows, bounds
<1>10. ASSUME NEW w \in Workers, Claim(w) PROVE TypeOK'
  <2>1. PICK j \in Queued :
           /\ status' = [status EXCEPT ![j] = "running"]
           /\ claimedBy' = [claimedBy EXCEPT ![j] = w]
           /\ stale' = [stale EXCEPT ![j] = FALSE]
           /\ run' = [run EXCEPT ![w] =
                        [NoRun EXCEPT !.job = j, !.todo = Pending(steps[j])]]
           /\ Goto(w, IF Pending(steps[j]) = {} THEN "succeed" ELSE "select")
    BY <1>10 DEF Claim
  <2>2. [NoRun EXCEPT !.job = j] \in Run
    BY RunType DEF Queued
  <2>3. Pending(steps[j]) \in SUBSET Steps
    BY DEF Pending
  <2>4. [NoRun EXCEPT !.job = j, !.todo = Pending(steps[j])] \in Run
    BY <2>2, <2>3, RunType
  <2>5. pc' \in [Workers -> Points]
    BY <2>1 DEF Goto, Points, RunPoints
  <2>6. status' \in [Jobs -> JobStatus \cup {"none"}]
    BY <2>1 DEF JobStatus, Active
  <2>7. claimedBy' \in [Jobs -> Workers \cup {NoWorker}]
    BY <2>1
  <2>8. stale' \in [Jobs -> BOOLEAN]
    BY <2>1, Zenon
  <2>9. run' \in [Workers -> Run]
    BY <2>1, <2>4
  <2> QED BY <1>10, <2>5, <2>6, <2>7, <2>8, <2>9 DEF Claim, bounds
<1>11. ASSUME NEW w \in Workers, ClaimNothing(w) PROVE TypeOK'
  BY <1>11 DEF ClaimNothing, Goto, Return, Points, rows, bounds
<1>12. ASSUME NEW w \in Workers, RecordSelect(w) PROVE TypeOK'
  <2>1. pc' \in [Workers -> Points]
    BY <1>12 DEF RecordSelect, Goto, Points, RunPoints
  <2>2. run[w].job \in Jobs
    BY <1>12 DEF RunHasJob, RecordSelect, RunPoints
  <2>3. [run[w] EXCEPT !.seen = steps[run[w].job]] \in Run
    BY <1>0, <2>2, RunType
  <2>4. run' \in [Workers -> Run]
    BY <1>12, <2>3 DEF RecordSelect
  <2> QED BY <1>12, <2>1, <2>4 DEF RecordSelect, rows, bounds
<1>13. ASSUME NEW w \in Workers, RecordUpdate(w) PROVE TypeOK'
  <2>1. PICK s \in Steps :
           /\ steps' = IF Exists(run[w].job)
                       THEN [steps EXCEPT ![run[w].job] = Replaced(w, s)]
                       ELSE steps
           /\ AfterReport(w, s)
    BY <1>13 DEF RecordUpdate
  <2>2. run[w].job \in Jobs
    BY <1>13 DEF RunHasJob, RecordUpdate, RunPoints
  <2>3. Replaced(w, s) \in StepList
    BY <1>0, StepListType DEF Replaced, Run, StepStatus
  <2>4. steps' \in [Jobs -> StepList]
    BY <2>1, <2>2, <2>3
  <2>5. PICK point \in RunPoints, r \in Run :
           pc' = [pc EXCEPT ![w] = point] /\ run' = [run EXCEPT ![w] = r]
    BY <2>1, UpdateEffect
  <2>6. run' \in [Workers -> Run] /\ pc' \in [Workers -> Points]
    BY <2>5 DEF Points
  <2> QED BY <1>13, <2>4, <2>6 DEF RecordUpdate, bounds
<1>14. ASSUME NEW w \in Workers, Stage(w) PROVE TypeOK'
  <2>1. PICK outcome \in {"done", "failed"} :
           run' = [run EXCEPT ![w] = [@ EXCEPT !.report = outcome]]
    BY <1>14 DEF Stage
  <2>2. [run[w] EXCEPT !.report = outcome] \in Run
    BY <1>0, RunType
  <2>3. run' \in [Workers -> Run]
    BY <2>1, <2>2
  <2> QED BY <1>14, <2>3 DEF Stage, Goto, Points, RunPoints, rows, bounds
<1>15. ASSUME NEW w \in Workers, Reread(w) PROVE TypeOK'
  <2> DEFINE blame == IF Exists(run[w].job) THEN FirstFailed(steps[run[w].job]) ELSE 0
  <2>1. run[w].job \in Jobs
    BY <1>15 DEF RunHasJob, Reread, RunPoints
  <2>2. blame \in 0..NumSteps
    BY <1>0, <2>1, FirstFailedType
  <2> HIDE DEF blame
  <2>3. [run[w] EXCEPT !.blame = blame] \in Run
    BY <1>0, <2>2, RunType
  <2>4. run' = [run EXCEPT ![w] = [@ EXCEPT !.blame = blame]]
    BY <1>15 DEF Reread, blame
  <2>5. run' \in [Workers -> Run]
    BY <2>3, <2>4
  <2> QED BY <1>15, <2>5 DEF Reread, Goto, Points, RunPoints, rows, bounds
<1>16. ASSUME NEW w \in Workers, Succeed(w) PROVE TypeOK'
  <2>1. pc[w] \in RunPoints /\ Finish(w, "succeeded", 0)
    BY <1>16 DEF Succeed, RunPoints
  <2>2. "succeeded" \in Terminal /\ 0 \in 0..NumSteps
    BY DEF Terminal
  <2> QED BY <2>1, <2>2, FinishType
<1>17. ASSUME NEW w \in Workers, Fail(w) PROVE TypeOK'
  <2>1. pc[w] \in RunPoints /\ Finish(w, "failed", run[w].blame)
    BY <1>17 DEF Fail, RunPoints
  <2>2. "failed" \in Terminal /\ run[w].blame \in 0..NumSteps
    BY <1>0 DEF Terminal, Run
  <2> QED BY <2>1, <2>2, FinishType
<1>18. ASSUME NEW w \in Workers, StoreFault(w) PROVE TypeOK'
  <2>1. PICK point \in Points :
           /\ pc' = [pc EXCEPT ![w] = point]
           /\ UNCHANGED run \/ run' = [run EXCEPT ![w] = NoRun]
    BY <1>18, FaultEffect DEF StoreFault
  <2>2. run' \in [Workers -> Run]
    <3>1. NoRun \in Run
      BY RunType
    <3> QED BY <2>1, <3>1
  <2>3. pc' \in [Workers -> Points]
    BY <2>1
  <2>4. tick' \in [Workers -> 0..(SweepEvery - 1)]
    BY <1>18, TickType DEF StoreFault, AfterFault, NextTick
  <2> QED BY <1>18, <2>2, <2>3, <2>4 DEF StoreFault, rows
<1>19. ASSUME NEW w \in Workers, Crash(w) PROVE TypeOK'
  <2>1. run' \in [Workers -> Run]
    BY <1>19, RunType DEF Crash, Leave
  <2>2. pc' \in [Workers -> Points]
    BY <1>19 DEF Crash, Leave, Goto, Points
  <2> QED BY <1>19, <2>1, <2>2 DEF Crash, rows
<1>20. ASSUME NEW j \in Jobs, Age(j) PROVE TypeOK'
  BY <1>20 DEF Age, threads, bounds
<1>21. CASE UNCHANGED vars
  BY <1>21 DEF vars, rows, threads, bounds
<1> QED
  BY <1>1, <1>2, <1>3, <1>4, <1>5, <1>6, <1>7, <1>8, <1>9, <1>10, <1>11, <1>12, <1>13,
     <1>14, <1>15, <1>16, <1>17, <1>18, <1>19, <1>20, <1>21
  DEF Next, ClientNext, DatasourceNext, WorkerNext, ThreadStep

(***************************************************************************)
(* What a step does to the threads inside _run                             *)
(***************************************************************************)

\* Whoever is inside _run after a step was there with the same job before it,
\* or has just claimed one.
LEMMA RunningStep ==
    ASSUME TypeOK, [Next]_vars, NEW v \in Workers, pc'[v] \in RunPoints, ~Claim(v)
    PROVE  pc[v] \in RunPoints /\ run'[v].job = run[v].job
<1> DEFINE Kept == pc[v] \in RunPoints /\ run'[v].job = run[v].job
<1>0. run[v] \in Run /\ run \in [Workers -> Run] /\ pc \in [Workers -> Points]
  BY DEF TypeOK
<1>1. ASSUME NEW w \in Workers, Claim(w) PROVE Kept
  <2>1. v # w
    BY <1>1
  <2> QED BY <1>0, <1>1, <2>1 DEF Claim, Goto
<1>2. ASSUME NEW w \in Workers, RecordUpdate(w) PROVE Kept
  <2>1. pc[w] \in RunPoints
    BY <1>2 DEF RecordUpdate, RunPoints
  <2>2. PICK point \in RunPoints, r \in Run :
           /\ r.job = run[w].job
           /\ pc' = [pc EXCEPT ![w] = point]
           /\ run' = [run EXCEPT ![w] = r]
    BY <1>0, <1>2, UpdateEffect DEF RecordUpdate
  <2> QED BY <1>0, <2>1, <2>2
<1>3. ASSUME NEW w \in Workers, RecordSelect(w) \/ Stage(w) \/ Reread(w)
      PROVE  Kept
  <2>1. pc[w] \in RunPoints
    BY <1>3 DEF RecordSelect, Stage, Reread, RunPoints
  <2>2. run'[v].job = run[v].job
    BY <1>0, <1>3 DEF RecordSelect, Stage, Reread, Run
  <2>3. v # w => pc'[v] = pc[v]
    BY <1>0, <1>3 DEF RecordSelect, Stage, Reread, Goto
  <2> QED BY <2>1, <2>2, <2>3
<1>4. ASSUME NEW w \in Workers, Succeed(w) \/ Fail(w) \/ Crash(w)
      PROVE  Kept
  <2>1. v # w
    BY <1>0, <1>4 DEF Succeed, Fail, Crash, Finish, Leave, Goto, Return, Escape, RunPoints
  <2> QED BY <1>0, <1>4, <2>1 DEF Succeed, Fail, Crash, Finish, Leave, Goto
<1>5. ASSUME NEW w \in Workers, StoreFault(w) PROVE Kept
  <2>1. PICK point \in Points :
           /\ pc' = [pc EXCEPT ![w] = point]
           /\ \/ UNCHANGED run /\ (point \in RunPoints => pc[w] \in RunPoints)
              \/ run' = [run EXCEPT ![w] = NoRun] /\ point \notin RunPoints
    BY <1>5, FaultEffect DEF StoreFault
  <2> QED BY <1>0, <2>1
<1>6. ASSUME NEW w \in Workers, Start(w) \/ Sweep(w) \/ Tick(w) \/ ClaimNothing(w)
      PROVE  Kept
  <2>1. UNCHANGED run
    BY <1>6 DEF Start, Sweep, Tick, ClaimNothing
  <2>2. v # w
    BY <1>0, <1>6 DEF Start, Sweep, Tick, ClaimNothing, Goto, Return, RunPoints
  <2>3. pc'[v] = pc[v]
    BY <1>0, <1>6, <2>2 DEF Start, Sweep, Tick, ClaimNothing, Goto
  <2> QED BY <2>1, <2>3
<1>7. ASSUME NEW c \in Clients, Submit(c) PROVE Kept
  <2>1. pc'[v] = pc[v]
    BY <1>0, <1>7 DEF Submit, RunPoints
  <2> QED BY <1>7, <2>1 DEF Submit
<1>8. ASSUME UNCHANGED threads PROVE Kept
  BY <1>8 DEF threads
<1> QED
  BY <1>1, <1>2, <1>3, <1>4, <1>5, <1>6, <1>7, <1>8
  DEF Next, ClientNext, DatasourceNext, WorkerNext, ThreadStep, RegisterAndSubmit, Retry,
      CheckActive, RemoveDatasource, RegisterDatasource, Age, vars

LEMMA ClaimEffect ==
    ASSUME TypeOK, NEW w \in Workers, Claim(w)
    PROVE  \E j \in Queued :
              /\ run'[w].job = j
              /\ status' = [status EXCEPT ![j] = "running"]
              /\ claimedBy' = [claimedBy EXCEPT ![j] = w]
              /\ stale' = [stale EXCEPT ![j] = FALSE]
<1>1. PICK j \in Queued :
         /\ run' = [run EXCEPT ![w] =
                       [NoRun EXCEPT !.job = j, !.todo = Pending(steps[j])]]
         /\ status' = [status EXCEPT ![j] = "running"]
         /\ claimedBy' = [claimedBy EXCEPT ![j] = w]
         /\ stale' = [stale EXCEPT ![j] = FALSE]
  BY DEF Claim
<1>2. run'[w].job = j
  BY <1>1 DEF TypeOK, NoRun
<1> QED BY <1>1, <1>2

LEMMA RunHasJobNext == TypeOK /\ RunHasJob /\ [Next]_vars => RunHasJob'
<1> SUFFICES ASSUME TypeOK, RunHasJob, [Next]_vars,
                    NEW v \in Workers, pc'[v] \in RunPoints
             PROVE  run'[v].job \in Jobs
  BY DEF RunHasJob, Jobs
<1>1. CASE Claim(v)
  BY <1>1, ClaimEffect DEF Queued
<1>2. CASE ~Claim(v)
  BY <1>2, RunningStep DEF RunHasJob
<1> QED BY <1>1, <1>2

LEMMA TypesInvariant == Spec => [](TypeOK /\ RunHasJob)
<1>1. Init => TypeOK /\ RunHasJob
  BY TypeInit DEF Init, RunHasJob, RunPoints
<1>2. (TypeOK /\ RunHasJob) /\ [Next]_vars => (TypeOK /\ RunHasJob)'
  BY TypeNext, RunHasJobNext
<1> QED BY <1>1, <1>2, PTL DEF Spec

\* Every variable keeps its type, whatever is submitted, killed or deleted.
THEOREM TypeCorrect == Spec => []TypeOK
  BY TypesInvariant, PTL

(***************************************************************************)
(* What a step does to the rows                                            *)
(***************************************************************************)

\* Unless it inserts a row, a step moves a job along its life cycle: to the
\* queue and back, to an end once it exists, or out of the table.
Moves(old, new) ==
    \/ new = old
    \/ old = "running" /\ new = "queued"
    \/ old = "queued" /\ new = "running"
    \/ old # "none" /\ new \in Terminal
    \/ new = "none"

LEMMA StatusStep ==
    ASSUME TypeOK, RunHasJob, [Next]_vars, \A c \in Clients : ~Submit(c)
    PROVE  /\ UNCHANGED ds
           /\ \A j \in Jobs : Moves(status[j], status'[j])
<1> DEFINE Fine == UNCHANGED ds /\ \A j \in Jobs : Moves(status[j], status'[j])
<1>0. status \in [Jobs -> JobStatus \cup {"none"}]
  BY DEF TypeOK
<1>1. ASSUME NEW w \in Workers, Claim(w) PROVE Fine
  <2>1. PICK j \in Queued : status' = [status EXCEPT ![j] = "running"]
    BY <1>1, ClaimEffect
  <2>2. \A k \in Jobs : Moves(status[k], status'[k])
    BY <1>0, <2>1 DEF Queued, Moves
  <2> QED BY <1>1, <2>2 DEF Claim
<1>2. ASSUME NEW w \in Workers, Sweep(w) PROVE Fine
  <2>1. \A k \in Jobs : Moves(status[k], status'[k])
    BY <1>2 DEF Sweep, ReleaseStale, Stale, Moves
  <2> QED BY <1>2, <2>1 DEF Sweep
<1>3. ASSUME NEW w \in Workers, NEW outcome \in Terminal, NEW blame,
             pc[w] \in RunPoints, Finish(w, outcome, blame)
      PROVE  Fine
  <2>1. run[w].job \in Jobs
    BY <1>3 DEF RunHasJob
  <2>2. \A k \in Jobs : Moves(status[k], status'[k])
    BY <1>0, <1>3, <2>1 DEF Finish, Exists, Moves
  <2> QED BY <1>3, <2>2 DEF Finish
<1>4. ASSUME NEW w \in Workers, Succeed(w) \/ Fail(w) PROVE Fine
  BY <1>3, <1>4 DEF Succeed, Fail, RunPoints, Terminal
<1>5. ASSUME NEW d \in Datasources, RemoveDatasource(d) PROVE Fine
  BY <1>5 DEF RemoveDatasource, Moves
<1>6. ASSUME UNCHANGED <<ds, status>> PROVE Fine
  BY <1>6 DEF Moves
<1> QED
  BY <1>1, <1>2, <1>4, <1>5, <1>6
  DEF Next, ClientNext, DatasourceNext, WorkerNext, ThreadStep, RegisterAndSubmit, Retry,
      CheckActive, RegisterDatasource, Age, Start, Tick, ClaimNothing, RecordSelect,
      RecordUpdate, Stage, Reread, StoreFault, Crash, vars, rows

(***************************************************************************)
(* One active job per datasource                                           *)
(***************************************************************************)

\* At most one queued or running job per datasource: the index refuses a second
\* one, and no UPDATE makes a finished row active.
THEOREM ActiveUnique == Spec => []OneActivePerDatasource
<1>1. Init => OneActivePerDatasource
  BY DEF Init, OneActivePerDatasource, Active
<1>2. ASSUME TypeOK, RunHasJob, OneActivePerDatasource, [Next]_vars
      PROVE  OneActivePerDatasource'
  <2>1. CASE \A c \in Clients : ~Submit(c)
    <3>1. UNCHANGED ds /\ \A j \in Jobs : Moves(status[j], status'[j])
      BY <1>2, <2>1, StatusStep
    <3>2. \A j \in Jobs : status'[j] \in Active => status[j] \in Active
      BY <3>1 DEF Moves, Active, Terminal
    <3> QED BY <1>2, <3>1, <3>2 DEF OneActivePerDatasource
  <2>2. ASSUME NEW c \in Clients, Submit(c) PROVE OneActivePerDatasource'
    <3>1. CASE Insertable(request[c].ds)
      BY <1>2, <2>2, <3>1
      DEF Submit, Insertable, ActiveJobsOf, JobsOf, Exists, Active, TypeOK,
          OneActivePerDatasource
    <3>2. CASE ~Insertable(request[c].ds)
      BY <1>2, <2>2, <3>2 DEF Submit, OneActivePerDatasource
    <3> QED BY <3>1, <3>2
  <2> QED BY <2>1, <2>2
<1> QED BY <1>1, <1>2, TypesInvariant, PTL DEF Spec
=============================================================================
