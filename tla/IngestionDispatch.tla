-------------------------- MODULE IngestionDispatch --------------------------
(***************************************************************************)
(* What the ingestion queue promises its users, with no word on how: a job *)
(* is dispatched to one worker at a time, a datasource has one job that is *)
(* not finished, only a job nobody runs any more is dispatched again, and  *)
(* what is finished stays as it is (domain/ports/ingestion_job_repository, *)
(* "at-most-once dispatch").  IngestionQueue implements it as long as no   *)
(* run outlasts the stale threshold and no datasource is deleted.          *)
(***************************************************************************)
CONSTANTS Workers, Datasources, Jobs, NoWorker

VARIABLES ds,      \* the datasource of each submitted job
          phase,   \* where each job is in its life
          runner   \* the worker running each job, NoWorker if nobody does

vars == <<ds, phase, runner>>

Finished == {"succeeded", "failed"}
Unfinished == {"queued", "running"}

Init ==
    /\ ds \in [Jobs -> Datasources]
    /\ phase = [j \in Jobs |-> "none"]
    /\ runner = [j \in Jobs |-> NoWorker]

\* A job is accepted when its datasource has none that is unfinished.
Submit(j, d) ==
    /\ phase[j] = "none"
    /\ \A k \in Jobs : ~(ds[k] = d /\ phase[k] \in Unfinished)
    /\ ds' = [ds EXCEPT ![j] = d]
    /\ phase' = [phase EXCEPT ![j] = "queued"]
    /\ UNCHANGED runner

\* A queued job goes to a worker that runs nothing else.
Dispatch(j, w) ==
    /\ phase[j] = "queued"
    /\ \A k \in Jobs : runner[k] # w
    /\ phase' = [phase EXCEPT ![j] = "running"]
    /\ runner' = [runner EXCEPT ![j] = w]
    /\ UNCHANGED ds

\* Its runner, and nobody else, finishes a job.
Conclude(j, outcome) ==
    /\ phase[j] = "running"
    /\ runner[j] # NoWorker
    /\ phase' = [phase EXCEPT ![j] = outcome]
    /\ runner' = [runner EXCEPT ![j] = NoWorker]
    /\ UNCHANGED ds

\* The runner is gone without finishing.
Lose(j) ==
    /\ runner[j] # NoWorker
    /\ runner' = [runner EXCEPT ![j] = NoWorker]
    /\ UNCHANGED <<ds, phase>>

\* Jobs nobody runs any more go back to the queue.
Requeue(lost) ==
    /\ \A j \in lost : phase[j] = "running" /\ runner[j] = NoWorker
    /\ phase' = [j \in Jobs |-> IF j \in lost THEN "queued" ELSE phase[j]]
    /\ UNCHANGED <<ds, runner>>

Next ==
    \/ \E j \in Jobs, d \in Datasources : Submit(j, d)
    \/ \E j \in Jobs, w \in Workers : Dispatch(j, w)
    \/ \E j \in Jobs, outcome \in Finished : Conclude(j, outcome)
    \/ \E j \in Jobs : Lose(j)
    \/ \E lost \in SUBSET Jobs : Requeue(lost)

Spec == Init /\ [][Next]_vars
=============================================================================
