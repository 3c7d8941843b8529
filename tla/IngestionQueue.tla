--------------------------- MODULE IngestionQueue ---------------------------
(***************************************************************************)
(* The ingestion job table used as a durable queue, the worker threads     *)
(* that drain it, and the requests that fill it                            *)
(* (repositories/semantic/ingestion_job_repository.py,                     *)
(* infrastructure/ingestion/worker.py,                                     *)
(* services/datasource/onboarding_service.py and ingestion_service.py).    *)
(*                                                                         *)
(* One action is one database transaction or one stage of the pipeline:    *)
(* everything the code does between two transactions is local to a thread  *)
(* and is folded into the action that follows.  The rows are kept column   *)
(* by column.  A job's identity is its rank in creation time (created_at), *)
(* which is the order claim_next and latest_for_datasource sort by.        *)
(***************************************************************************)
EXTENDS Integers, FiniteSets

CONSTANTS
    Workers,      \* processes that run an IngestionWorker
    Clients,      \* requests to POST /datasources and .../onboarding/retry
    CliWorkers,   \* commands (datasource onboard --wait): one request, one run_once
    Datasources,  \* datasource names
    NumSteps,     \* Len(STEP_SEQUENCE): six in the code
    SweepEvery,   \* loop iterations between two sweeps: 60 in the code
    LongRuns,     \* may a live run outlast stale_after_seconds?
    NoWorker      \* claimed_by IS NULL

CONSTANTS         \* bounds of the model, not of the code
    MaxJobs,      \* job rows ever created
    MaxCrashes,   \* processes killed
    MaxFaults,    \* store calls that raise
    MaxRemovals   \* datasources deleted

ASSUME ConstantsAssumption ==
    /\ CliWorkers = Workers \cap Clients
    /\ Datasources # {}
    /\ NoWorker \notin Workers
    /\ NumSteps \in Nat \ {0}
    /\ SweepEvery \in Nat \ {0}
    /\ LongRuns \in BOOLEAN
    /\ MaxJobs \in Nat
    /\ MaxCrashes \in Nat
    /\ MaxFaults \in Nat
    /\ MaxRemovals \in Nat

Steps == 1..NumSteps
Jobs == 1..MaxJobs

VARIABLES
    \* genql_datasource and genql_ingestion_job
    registered,   \* the datasource names that have a row
    created,      \* how many created_at timestamps were handed out
    ds,           \* datasource_name of a job
    status,       \* status of a job, "none" when there is no such row
    steps,        \* steps_json: the status of each step, "absent" if not listed
    errorStep,    \* error_step, 0 for NULL
    claimedBy,    \* claimed_by
    stale,        \* claimed_at < now() - stale_after_seconds
    \* the requests in flight
    request,
    \* one worker thread each
    pc,           \* where it is
    run,          \* the locals of its _run
    tick,         \* ticks % sweep_every
    \* bounds
    crashes, faults, removals

rows == <<ds, status, steps, errorStep, claimedBy, stale>>
threads == <<pc, run, tick>>
bounds == <<crashes, faults, removals>>
vars == <<registered, created, rows, request, threads, bounds>>

(***************************************************************************)
(* Values                                                                  *)
(***************************************************************************)
Active == {"queued", "running"}
Terminal == {"succeeded", "failed"}
JobStatus == Active \cup Terminal

\* "done" stands for SUCCEEDED and SKIPPED: nothing the queue does tells them apart.
StepStatus == {"pending", "running", "done", "failed"}
StepList == [Steps -> StepStatus \cup {"absent"}]
NoSteps == [s \in Steps |-> "absent"]

\* The points of a thread inside IngestionWorker._run, where it has a claimed job.
RunPoints == {"select", "update", "stage", "reread", "succeed", "fail"}
Points == {"down", "loop", "claim", "dead"} \cup RunPoints

\* A request: where it is, what it submits, and the job it made (0: none).
Request == [at : {"idle", "active", "insert"}, ds : Datasources, job : 0..MaxJobs,
            steps : StepList]
AnyDatasource == CHOOSE d \in Datasources : TRUE
NoRequest == [at |-> "idle", ds |-> AnyDatasource, job |-> 0, steps |-> NoSteps]

\* The locals of a run: its job, the steps still to do, the status about to be
\* recorded, the list record_step has read, and the step _fail will blame.
Run == [job : 0..MaxJobs, todo : SUBSET Steps, report : {"running", "done", "failed"},
        seen : StepList, blame : 0..NumSteps]
NoRun == [job |-> 0, todo |-> {}, report |-> "running", seen |-> NoSteps, blame |-> 0]

TypeOK ==
    /\ registered \subseteq Datasources
    /\ created \in 0..MaxJobs
    /\ ds \in [Jobs -> Datasources]
    /\ status \in [Jobs -> JobStatus \cup {"none"}]
    /\ steps \in [Jobs -> StepList]
    /\ errorStep \in [Jobs -> 0..NumSteps]
    /\ claimedBy \in [Jobs -> Workers \cup {NoWorker}]
    /\ stale \in [Jobs -> BOOLEAN]
    /\ request \in [Clients -> Request]
    /\ pc \in [Workers -> Points]
    /\ run \in [Workers -> Run]
    /\ tick \in [Workers -> 0..(SweepEvery - 1)]
    /\ crashes \in 0..MaxCrashes
    /\ faults \in 0..MaxFaults
    /\ removals \in 0..MaxRemovals

\* A thread inside _run has a job.
RunHasJob == \A w \in Workers : pc[w] \in RunPoints => run[w].job \in Jobs

(***************************************************************************)
(* Reading the tables                                                      *)
(***************************************************************************)
Exists(j) == status[j] # "none"
JobsOf(d) == {j \in Jobs : Exists(j) /\ ds[j] = d}
ActiveJobsOf(d) == {j \in JobsOf(d) : status[j] \in Active}
\* Mutant of Queued: claim_next without status = 'queued'.
QueuedOrRunning == {j \in Jobs : status[j] \in Active}
Queued == {j \in Jobs : status[j] = "queued"}
\* Mutants of Stale: release_stale without one of its two conditions.
StaleAtAnyAge == {j \in Jobs : status[j] = "running"}
StaleInAnyStatus == {j \in Jobs : status[j] # "none" /\ stale[j]}
Stale == {j \in Jobs : status[j] = "running" /\ stale[j]}

\* latest_for_datasource(d).steps: of no job at all when there is none.
LatestSteps(d, list) ==
    \/ JobsOf(d) = {} /\ list = NoSteps
    \/ \E j \in JobsOf(d) : (\A k \in JobsOf(d) : k <= j) /\ list = steps[j]

\* The first failed step of a list, 0 when none failed.
FirstFailed(list) ==
    LET first == {s \in Steps : /\ list[s] = "failed"
                                /\ \A t \in Steps : list[t] = "failed" => s <= t}
    IN  IF first = {} THEN 0 ELSE CHOOSE s \in first : TRUE

\* Worker w has claimed j and has not returned from _run(j) yet.
Running(w, j) == pc[w] \in RunPoints /\ run[w].job = j

\* Mutant of Current: the steps in reverse order.
CurrentLast(w, s) == s \in run[w].todo /\ \A t \in run[w].todo : s >= t

\* s is the step worker w is at: pending steps are taken in sequence order.
Current(w, s) == s \in run[w].todo /\ \A t \in run[w].todo : s <= t

-----------------------------------------------------------------------------
Init ==
    /\ registered = {}
    /\ created = 0
    /\ ds = [j \in Jobs |-> AnyDatasource]
    /\ status = [j \in Jobs |-> "none"]
    /\ steps = [j \in Jobs |-> NoSteps]
    /\ errorStep = [j \in Jobs |-> 0]
    /\ claimedBy = [j \in Jobs |-> NoWorker]
    /\ stale = [j \in Jobs |-> FALSE]
    /\ request = [c \in Clients |-> NoRequest]
    /\ pc = [w \in Workers |-> "down"]
    /\ run = [w \in Workers |-> NoRun]
    /\ tick = [w \in Workers |-> 0]
    /\ crashes = 0 /\ faults = 0 /\ removals = 0

(***************************************************************************)
(* Requests: register_and_submit and retry                                 *)
(***************************************************************************)

\* The step list of a job that resumes at start: what came before keeps the
\* outcome the previous job recorded.  No start_from is start_from the first.
CarryForward(start, previous) ==
    [s \in Steps |-> IF s >= start THEN "pending" ELSE previous[s]]

\* A command makes one request per process, and only after it has none to run.
Free(c) == request[c].at = "idle" /\ (c \in CliWorkers => pc[c] = "down")

Ask(c, d, list) ==
    request' = [request EXCEPT ![c] = [at |-> "active", ds |-> d, job |-> 0, steps |-> list]]

\* register_and_submit, up to and including the INSERT of the datasource.
RegisterAndSubmit(c, d) ==
    /\ Free(c)
    /\ d \notin registered
    /\ registered' = registered \cup {d}
    /\ Ask(c, d, CarryForward(1, NoSteps))
    /\ UNCHANGED <<created, rows, threads, bounds>>

\* retry, up to and including the read of the latest job.
Retry(c, d, start) ==
    /\ c \notin CliWorkers
    /\ Free(c)
    /\ d \in registered
    /\ \E previous \in {NoSteps} \cup {steps[j] : j \in Jobs} :
          /\ LatestSteps(d, previous)
          /\ Ask(c, d, CarryForward(start, previous))
    /\ UNCHANGED <<registered, created, rows, threads, bounds>>

\* _queue: refuse when a job is active, otherwise stamp the new one.
CheckActive(c) ==
    /\ request[c].at = "active"
    /\ created < MaxJobs
    /\ IF ActiveJobsOf(request[c].ds) # {}
       THEN /\ request' = [request EXCEPT ![c] = NoRequest]
            /\ UNCHANGED created
       ELSE /\ created' = created + 1
            /\ request' = [request EXCEPT ![c] =
                             [@ EXCEPT !.at = "insert", !.job = created + 1]]
    /\ UNCHANGED <<registered, rows, threads, bounds>>

\* Mutant of Insertable: no partial unique index.
InsertableUnindexed(d) == d \in registered

\* The partial unique index and the foreign key of genql_ingestion_job.
Insertable(d) == d \in registered /\ ActiveJobsOf(d) = {}

\* submit: the row appears, or the INSERT is refused and the request fails.  The
\* command goes on to run_once.
Submit(c) ==
    /\ request[c].at = "insert"
    /\ LET j == request[c].job IN
       IF Insertable(request[c].ds)
       THEN /\ ds' = [ds EXCEPT ![j] = request[c].ds]
            /\ status' = [status EXCEPT ![j] = "queued"]
            /\ steps' = [steps EXCEPT ![j] = request[c].steps]
            /\ request' = [request EXCEPT ![c] =
                  IF c \in CliWorkers THEN [NoRequest EXCEPT !.job = j] ELSE NoRequest]
            /\ pc' = IF c \in CliWorkers THEN [pc EXCEPT ![c] = "claim"] ELSE pc
       ELSE /\ request' = [request EXCEPT ![c] = NoRequest]
            /\ UNCHANGED <<ds, status, steps, pc>>
    /\ UNCHANGED <<registered, created, errorStep, claimedBy, stale, run, tick, bounds>>

(***************************************************************************)
(* The datasource row                                                      *)
(***************************************************************************)

\* DELETE /datasources/{name}: nothing looks at the jobs, which go with the row
\* (ON DELETE CASCADE).
RemoveDatasource(d) ==
    /\ d \in registered
    /\ removals < MaxRemovals
    /\ removals' = removals + 1
    /\ registered' = registered \ {d}
    /\ status' = [j \in Jobs |-> IF ds[j] = d THEN "none" ELSE status[j]]
    /\ UNCHANGED <<created, ds, steps, errorStep, claimedBy, stale, request, threads,
                   crashes, faults>>

\* datasource add: a row without a job.
RegisterDatasource(d) ==
    /\ d \notin registered
    /\ registered' = registered \cup {d}
    /\ UNCHANGED <<created, rows, request, threads, bounds>>

(***************************************************************************)
(* The worker thread                                                       *)
(***************************************************************************)

\* Where run_once returns to: the loop, or the end of the command.
Return(w) == IF w \in CliWorkers THEN "down" ELSE "loop"

\* Where an exception that leaves run_once goes: nothing in _loop catches it.
Escape(w) == IF w \in CliWorkers THEN "down" ELSE "dead"

Goto(w, point) == pc' = [pc EXCEPT ![w] = point]

\* _run returned or the thread is gone: its locals with it.
Leave(w, point) == Goto(w, point) /\ run' = [run EXCEPT ![w] = NoRun]

\* start, when an API process starts.
Start(w) ==
    /\ w \notin CliWorkers
    /\ pc[w] = "down"
    /\ Goto(w, "loop")
    /\ tick' = [tick EXCEPT ![w] = 0]
    /\ UNCHANGED <<registered, created, rows, request, run, bounds>>

\* Mutants of NextTick: a counter that is not reduced, and a sweep at startup only.
NextTickUnreduced(w) == tick' = [tick EXCEPT ![w] = tick[w] + 1]
SweepAtStartup(w) == tick' = [tick EXCEPT ![w] = IF tick[w] = 0 THEN 1 ELSE tick[w]]

NextTick(w) == tick' = [tick EXCEPT ![w] = (tick[w] + 1) % SweepEvery]

\* release_stale: a running row claimed too long ago goes back to the queue.
ReleaseStale ==
    /\ status' = [j \in Jobs |-> IF j \in Stale THEN "queued" ELSE status[j]]
    /\ claimedBy' = [j \in Jobs |-> IF j \in Stale THEN NoWorker ELSE claimedBy[j]]
    /\ stale' = [j \in Jobs |-> IF j \in Stale THEN FALSE ELSE stale[j]]

\* An iteration of _loop that sweeps before it looks for work.
Sweep(w) ==
    /\ pc[w] = "loop" /\ tick[w] = 0
    /\ ReleaseStale
    /\ NextTick(w)
    /\ Goto(w, "claim")
    /\ UNCHANGED <<registered, created, ds, steps, errorStep, request, run, bounds>>

\* An iteration of _loop that does not.
Tick(w) ==
    /\ pc[w] = "loop" /\ tick[w] # 0
    /\ NextTick(w)
    /\ Goto(w, "claim")
    /\ UNCHANGED <<registered, created, rows, request, run, bounds>>

\* Mutant of Pending: failed steps are not run again.
PendingOnly(list) == {s \in Steps : list[s] = "pending"}

\* The steps _run hands to IngestionService.run.
Pending(list) == {s \in Steps : list[s] \in {"pending", "failed"}}

\* claim_next found the oldest queued row; _run begins.
Claim(w) ==
    /\ pc[w] = "claim"
    /\ \E j \in Queued :
          /\ \A k \in Queued : j <= k
          /\ status' = [status EXCEPT ![j] = "running"]
          /\ claimedBy' = [claimedBy EXCEPT ![j] = w]
          /\ stale' = [stale EXCEPT ![j] = FALSE]
          /\ run' = [run EXCEPT ![w] =
                        [NoRun EXCEPT !.job = j, !.todo = Pending(steps[j])]]
          /\ Goto(w, IF Pending(steps[j]) = {} THEN "succeed" ELSE "select")
    /\ UNCHANGED <<registered, created, ds, steps, errorStep, request, tick, bounds>>

\* claim_next found nothing.
ClaimNothing(w) ==
    /\ pc[w] = "claim"
    /\ Queued = {}
    /\ Goto(w, Return(w))
    /\ UNCHANGED <<registered, created, rows, request, run, tick, bounds>>

\* record_step, its SELECT.  The row is read without a lock; a missing row
\* raises, and _run catches what escapes IngestionService.run.
RecordSelect(w) ==
    /\ pc[w] = "select"
    /\ IF Exists(run[w].job)
       THEN /\ run' = [run EXCEPT ![w] = [@ EXCEPT !.seen = steps[run[w].job]]]
            /\ Goto(w, "update")
       ELSE /\ Goto(w, "reread")
            /\ UNCHANGED run
    /\ UNCHANGED <<registered, created, rows, request, tick, bounds>>

\* What IngestionService.run does once a report on step s has been recorded.
AfterReport(w, s) ==
    \/ /\ run[w].report = "running"
       /\ Goto(w, "stage")
       /\ run' = [run EXCEPT ![w] = [@ EXCEPT !.seen = NoSteps]]
    \/ /\ run[w].report = "done"
       /\ Goto(w, IF run[w].todo = {s} THEN "succeed" ELSE "select")
       /\ run' = [run EXCEPT ![w] = [@ EXCEPT !.seen = NoSteps,
                                            !.todo = run[w].todo \ {s},
                                            !.report = "running"]]
    \/ /\ run[w].report = "failed"
       /\ Goto(w, "reread")
       /\ run' = [run EXCEPT ![w] = [@ EXCEPT !.seen = NoSteps]]

\* The list record_step writes: as it was read, one step replaced.
Replaced(w, s) == [run[w].seen EXCEPT ![s] = run[w].report]

\* record_step, its UPDATE.  A row deleted since the SELECT updates nothing, and
\* nothing notices.
RecordUpdate(w) ==
    /\ pc[w] = "update"
    /\ \E s \in Steps :
          /\ Current(w, s)
          /\ steps' = IF Exists(run[w].job)
                      THEN [steps EXCEPT ![run[w].job] = Replaced(w, s)]
                      ELSE steps
          /\ AfterReport(w, s)
    /\ UNCHANGED <<registered, created, ds, status, errorStep, claimedBy, stale, request,
                   tick, bounds>>

\* One stage of the pipeline runs to its end, or raises.
Stage(w) ==
    /\ pc[w] = "stage"
    /\ \E outcome \in {"done", "failed"} : run' = [run EXCEPT ![w] = [@ EXCEPT !.report = outcome]]
    /\ Goto(w, "select")
    /\ UNCHANGED <<registered, created, rows, request, tick, bounds>>

\* _fail re-reads the job for the step to blame; a missing row blames none.
Reread(w) ==
    /\ pc[w] = "reread"
    /\ run' = [run EXCEPT ![w] = [@ EXCEPT !.blame =
                  IF Exists(run[w].job) THEN FirstFailed(steps[run[w].job]) ELSE 0]]
    /\ Goto(w, "fail")
    /\ UNCHANGED <<registered, created, rows, request, tick, bounds>>

\* finish: keyed by job_id alone, whatever the row's status or claim is by now.
Finish(w, outcome, blame) ==
    /\ IF Exists(run[w].job)
       THEN /\ status' = [status EXCEPT ![run[w].job] = outcome]
            /\ errorStep' = [errorStep EXCEPT ![run[w].job] = blame]
            /\ Leave(w, Return(w))
       ELSE /\ Leave(w, Escape(w))
            /\ UNCHANGED <<status, errorStep>>
    /\ UNCHANGED <<registered, created, ds, steps, claimedBy, stale, request, tick, bounds>>

Succeed(w) == pc[w] = "succeed" /\ Finish(w, "succeeded", 0)

\* Mutants of Fail: _fail puts the job back in the queue, or marks it finished well.
FailRequeues(w) == pc[w] = "fail" /\ Finish(w, "queued", run[w].blame)
FailSucceeds(w) == pc[w] = "fail" /\ Finish(w, "succeeded", run[w].blame)

Fail(w) == pc[w] = "fail" /\ Finish(w, "failed", run[w].blame)

(***************************************************************************)
(* What goes wrong                                                         *)
(***************************************************************************)

\* Where a store call that raises (and has changed nothing) sends the thread:
\* _sweep and run_once swallow it, _run turns it into a failure, _fail's read
\* swallows it, and finish is outside every try.
AfterFault(w) ==
    \/ pc[w] = "loop" /\ tick[w] = 0 /\ Goto(w, "claim") /\ NextTick(w) /\ UNCHANGED run
    \/ pc[w] = "claim" /\ Goto(w, Return(w)) /\ UNCHANGED <<run, tick>>
    \/ pc[w] \in {"select", "update"} /\ Goto(w, "reread") /\ UNCHANGED <<run, tick>>
    \/ pc[w] = "reread" /\ Goto(w, "fail") /\ UNCHANGED <<run, tick>>
    \/ pc[w] \in {"succeed", "fail"} /\ Leave(w, Escape(w)) /\ UNCHANGED tick

StoreFault(w) ==
    /\ faults < MaxFaults
    /\ faults' = faults + 1
    /\ AfterFault(w)
    /\ UNCHANGED <<registered, created, rows, request, crashes, removals>>

\* The process is killed, or stop() gave up waiting for its daemon thread.
Crash(w) ==
    /\ pc[w] # "down"
    /\ crashes < MaxCrashes
    /\ crashes' = crashes + 1
    /\ Leave(w, "down")
    /\ UNCHANGED <<registered, created, rows, request, tick, faults, removals>>

\* stale_after_seconds pass since j was claimed.  Nothing renews claimed_at, so
\* a run that is merely slow ages like one whose process died.
Age(j) ==
    /\ status[j] = "running"
    /\ ~stale[j]
    /\ LongRuns \/ \A w \in Workers : ~Running(w, j)
    /\ stale' = [stale EXCEPT ![j] = TRUE]
    /\ UNCHANGED <<registered, created, ds, status, steps, errorStep, claimedBy, request,
                   threads, bounds>>

-----------------------------------------------------------------------------
ClientNext ==
    \E c \in Clients :
        \/ \E d \in Datasources : RegisterAndSubmit(c, d)
        \/ \E d \in Datasources, start \in Steps : Retry(c, d, start)
        \/ CheckActive(c)
        \/ Submit(c)

DatasourceNext ==
    \E d \in Datasources : RemoveDatasource(d) \/ RegisterDatasource(d)

\* What a thread does of its own accord.
ThreadStep(w) ==
    \/ Sweep(w) \/ Tick(w) \/ Claim(w) \/ ClaimNothing(w)
    \/ RecordSelect(w) \/ RecordUpdate(w) \/ Stage(w)
    \/ Reread(w) \/ Succeed(w) \/ Fail(w)

WorkerNext ==
    \E w \in Workers : Start(w) \/ ThreadStep(w) \/ StoreFault(w) \/ Crash(w)

Next == ClientNext \/ DatasourceNext \/ WorkerNext \/ (\E j \in Jobs : Age(j))

Spec == Init /\ [][Next]_vars

\* API processes are restarted and their threads scheduled, a claim gets old as
\* the clock runs; nobody has to submit, crash, fail or run the command.
Fairness ==
    /\ \A w \in Workers \ CliWorkers : WF_vars(Start(w))
    /\ \A w \in Workers : WF_vars(ThreadStep(w))
    /\ \A j \in Jobs : WF_vars(Age(j))

FairSpec == Spec /\ Fairness

(***************************************************************************)
(* Safety                                                                  *)
(***************************************************************************)

\* At most one queued or running job per datasource, however requests, claims,
\* sweeps and late finishes interleave (the partial unique index of migration
\* 0012, and every UPDATE that does not go through it).
OneActivePerDatasource ==
    \A j, k \in Jobs :
        /\ status[j] \in Active
        /\ status[k] \in Active
        /\ ds[j] = ds[k]
        => j = k

\* Two threads never run the pipeline over one datasource at a time: the stages
\* write the same catalog rows and the same graph projection
\* (domain/errors/ingestion.py).
OneRunPerDatasource ==
    \A w, v \in Workers :
        /\ pc[w] \in RunPoints /\ pc[v] \in RunPoints
        /\ ds[run[w].job] = ds[run[v].job]
        => w = v

\* A thread inside _run owns the row it works for: finish and record_step are
\* keyed by job_id alone, so they are right only as long as this holds.
RunnerOwnsRow ==
    \A w \in Workers :
        pc[w] \in RunPoints =>
            /\ run[w].job \in Jobs
            /\ status[run[w].job] = "running"
            /\ claimedBy[run[w].job] = w

\* A stage starts only after every earlier step of the job was started, and
\* none of them is left failed or waiting (STEP_SEQUENCE's order), over
\* retries, resumptions and re-dispatch.
StageInSequence ==
    \A w \in Workers, s \in Steps :
        /\ pc[w] = "stage" /\ Current(w, s)
        => \A t \in Steps : t < s => steps[run[w].job][t] \in {"absent", "done", "running"}

\* A job that ended well left no step waiting or failed.
SuccessIsComplete ==
    \A j \in Jobs : status[j] = "succeeded" => Pending(steps[j]) = {}

\* error_step names the one step that failed, or none: never another step, and
\* never one of several (_fail reads it in a transaction of its own).
BlameIsExact ==
    \A j \in Jobs :
        status[j] = "failed" /\ errorStep[j] # 0 =>
            \A s \in Steps : steps[j][s] = "failed" <=> s = errorStep[j]

\* Every earlier step of the job is done when a stage runs: "in the only order
\* that works: discovery must have written a catalog before the search index
\* can compile from it" (domain/entities/ingestion_job.py).
StageAfterItsInputs ==
    \A w \in Workers, s \in Steps :
        /\ pc[w] = "stage" /\ Current(w, s) /\ Exists(run[w].job)
        => \A t \in Steps : t < s => steps[run[w].job][t] \in {"absent", "done"}

(***************************************************************************)
(* What a step may never do                                                *)
(***************************************************************************)

\* A finished job never goes back to the queue: no sweep, claim or late report
\* starts it again.
FinishedStaysFinished ==
    [][\A j \in Jobs : status[j] \in Terminal => status'[j] \in Terminal \cup {"none"}]_vars

\* The outcome of a job is decided once.
OutcomeIsFinal ==
    [][\A j \in Jobs : status[j] \in Terminal => status'[j] \in {status[j], "none"}]_vars

\* Nothing but the end of its process ends a worker thread: "a bug must not kill
\* the worker thread" (infrastructure/ingestion/worker.py).
ThreadSurvives == \A w \in Workers : pc[w] # "dead"

(***************************************************************************)
(* The promise: IngestionDispatch                                          *)
(***************************************************************************)

\* A job's runner is the worker whose claim it carries, while that worker is
\* still inside _run.
Runner(j) == IF \E w \in Workers : Running(w, j) THEN claimedBy[j] ELSE NoWorker

Dispatch == INSTANCE IngestionDispatch
                WITH phase <- status, runner <- [j \in Jobs |-> Runner(j)]

\* The queue dispatches a job to one worker at a time, redispatches only what
\* nobody runs, and finishes it once.
DispatchSpec == Dispatch!Spec

(***************************************************************************)
(* Liveness                                                                *)
(***************************************************************************)

\* A queued or running job is finished (or deleted with its datasource) some
\* day: a job whose worker died is not stuck RUNNING forever, and a slow run
\* that is dispatched again does not go round for good. Only a deletion that
\* ended a worker thread (ThreadSurvives) may leave nobody to run it.
EveryJobEnds ==
    \A j \in Jobs : status[j] \in Active ~> status[j] \notin Active \/ ~ThreadSurvives
=============================================================================
