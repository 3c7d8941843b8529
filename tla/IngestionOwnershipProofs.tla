---------------------- MODULE IngestionOwnershipProofs ----------------------
(***************************************************************************)
(* What the rows of IngestionQueue mean to the threads that work on them.  *)
(*                                                                         *)
(* That nothing finished is started again is proved without conditions.    *)
(* That a thread owns the row of its run, and so all that depends on it,   *)
(* is proved of the systems in which it holds: no run outlasts the stale   *)
(* threshold and no datasource is deleted.                                 *)
(***************************************************************************)
EXTENDS IngestionQueueProofs

(***************************************************************************)
(* The job a request is about to insert has no row                         *)
(***************************************************************************)

\* Two requests about to insert do not insert the same job, and neither job has
\* a row.
RequestsAreFresh ==
    /\ \A j \in Jobs : j > created => status[j] = "none"
    /\ \A c \in Clients : request[c].at = "insert" =>
           request[c].job \in 1..created /\ status[request[c].job] = "none"
    /\ \A c, e \in Clients :
           request[c].at = "insert" /\ request[e].at = "insert" /\ request[c].job = request[e].job
           => c = e

\* Only Submit gives a job a row.
LEMMA NoRowStays ==
    ASSUME TypeOK, RunHasJob, [Next]_vars, \A c \in Clients : ~Submit(c),
           NEW j \in Jobs, status[j] = "none"
    PROVE  status'[j] = "none"
BY StatusStep DEF Moves

LEMMA FreshNext ==
    TypeOK /\ RunHasJob /\ RequestsAreFresh /\ [Next]_vars => RequestsAreFresh'
<1> SUFFICES ASSUME TypeOK, RunHasJob, RequestsAreFresh, [Next]_vars PROVE RequestsAreFresh'
  OBVIOUS
<1>0. /\ created \in 0..MaxJobs /\ MaxJobs \in Nat
      /\ request \in [Clients -> Request]
      /\ \A c \in Clients : request[c] \in Request
  BY ConstantsAssumption DEF TypeOK
<1>1. ASSUME NEW c \in Clients, Submit(c) PROVE RequestsAreFresh'
  <2>1. request' = [request EXCEPT ![c] = request'[c]] /\ request'[c].at = "idle"
    BY <1>0, <1>1 DEF Submit, NoRequest
  <2>2. /\ request[c].at = "insert" /\ created' = created
        /\ \A j \in Jobs : j # request[c].job => status'[j] = status[j]
    BY <1>1 DEF Submit, TypeOK
  <2>3. request[c].job \in 1..created BY <2>2 DEF RequestsAreFresh
  <2>4. \A e \in Clients : request'[e].at = "insert" =>
            e # c /\ request'[e] = request[e]
    BY <1>0, <2>1
  <2>5. \A j \in Jobs : j > created => j # request[c].job BY <1>0, <2>3 DEF Jobs
  <2>6. \A e \in Clients : request'[e].at = "insert" =>
            /\ request[e].job # request[c].job
            /\ request[e].job \in Jobs
    BY <1>0, <2>2, <2>4 DEF RequestsAreFresh, Jobs
  <2> QED BY <2>2, <2>4, <2>5, <2>6 DEF RequestsAreFresh
<1>2. CASE \A c \in Clients : ~Submit(c)
  <2>1. \A j \in Jobs : status[j] = "none" => status'[j] = "none" BY <1>2, NoRowStays
  <2>2. ASSUME created' = created,
               \A c \in Clients : request'[c].at = "insert" => request'[c] = request[c]
        PROVE  RequestsAreFresh'
    <3>1. \A j \in Jobs : j > created' => status'[j] = "none"
      BY <2>1, <2>2 DEF RequestsAreFresh
    <3>2. \A c \in Clients : request'[c].at = "insert" =>
              request'[c].job \in 1..created' /\ status'[request'[c].job] = "none"
      BY <1>0, <2>1, <2>2 DEF RequestsAreFresh, Jobs
    <3> QED BY <2>2, <3>1, <3>2 DEF RequestsAreFresh
  <2>3. ASSUME NEW c \in Clients, CheckActive(c) PROVE RequestsAreFresh'
    <3>1. CASE ActiveJobsOf(request[c].ds) # {}
      <4>1. created' = created /\ request' = [request EXCEPT ![c] = NoRequest]
        BY <2>3, <3>1 DEF CheckActive
      <4> QED BY <1>0, <2>2, <4>1 DEF NoRequest
    <3>2. CASE ActiveJobsOf(request[c].ds) = {}
      <4> DEFINE asking == [request[c] EXCEPT !.at = "insert", !.job = created + 1]
      <4>1. /\ created' = created + 1 /\ request' = [request EXCEPT ![c] = asking]
            /\ created < MaxJobs /\ status' = status
        BY <2>3, <3>2 DEF CheckActive, rows
      <4>2. asking.job = created + 1 BY <1>0 DEF Request
      <4>3. /\ request'[c].job = created + 1
            /\ \A e \in Clients : e # c => request'[e] = request[e]
        BY <1>0, <4>1, <4>2
      <4>4. created + 1 \in Jobs /\ status[created + 1] = "none"
        BY <1>0, <4>1 DEF RequestsAreFresh, Jobs
      <4>5. \A j \in Jobs : j > created' => status'[j] = "none"
        BY <1>0, <4>1 DEF RequestsAreFresh, Jobs
      <4>6. \A e \in Clients : request'[e].at = "insert" =>
                request'[e].job \in 1..created' /\ status'[request'[e].job] = "none"
        BY <1>0, <4>1, <4>3, <4>4 DEF RequestsAreFresh
      <4>7. \A e, f \in Clients :
                /\ request'[e].at = "insert" /\ request'[f].at = "insert"
                /\ request'[e].job = request'[f].job
                => e = f
        BY <1>0, <4>3 DEF RequestsAreFresh
      <4> QED BY <4>5, <4>6, <4>7 DEF RequestsAreFresh
    <3> QED BY <3>1, <3>2
  <2>4. ASSUME NEW c \in Clients, NEW d \in Datasources, NEW list, Ask(c, d, list),
               created' = created
        PROVE  RequestsAreFresh'
    BY <1>0, <2>2, <2>4 DEF Ask
  <2>5. ASSUME UNCHANGED <<created, request>> PROVE RequestsAreFresh'
    BY <2>2, <2>5
  <2> QED
    BY <1>2, <2>3, <2>4, <2>5
    DEF Next, ClientNext, DatasourceNext, WorkerNext, ThreadStep, RegisterAndSubmit, Retry,
        RemoveDatasource, RegisterDatasource, Age, Start, Sweep, Tick, Claim, ClaimNothing,
        RecordSelect, RecordUpdate, Stage, Reread, Succeed, Fail, Finish, StoreFault, Crash, vars
<1> QED BY <1>1, <1>2

LEMMA FreshInvariant == Spec => [](TypeOK /\ RunHasJob /\ RequestsAreFresh)
<1>1. Init => RequestsAreFresh BY DEF Init, RequestsAreFresh, NoRequest
<1> QED BY <1>1, FreshNext, TypesInvariant, PTL DEF Spec

\* Nothing finished is ever queued or claimed again, whatever runs late, dies or
\* is deleted.
THEOREM FinishedForGood == Spec => FinishedStaysFinished
<1>1. ASSUME TypeOK, RunHasJob, RequestsAreFresh, [Next]_vars
      PROVE  \A j \in Jobs : status[j] \in Terminal => status'[j] \in Terminal \cup {"none"}
  <2>1. CASE \A c \in Clients : ~Submit(c)
    BY <1>1, <2>1, StatusStep DEF Moves, Terminal
  <2>2. ASSUME NEW c \in Clients, Submit(c), NEW j \in Jobs, status[j] \in Terminal
        PROVE  status'[j] = status[j]
    <3>1. j # request[c].job BY <1>1, <2>2 DEF Submit, RequestsAreFresh, Terminal
    <3> QED BY <1>1, <2>2, <3>1 DEF Submit, TypeOK
  <2> QED BY <2>1, <2>2
<1>2. (TypeOK /\ RunHasJob /\ RequestsAreFresh) /\ [Next]_vars =>
          [\A j \in Jobs : status[j] \in Terminal => status'[j] \in Terminal \cup {"none"}]_vars
  BY <1>1
<1> QED BY <1>2, FreshInvariant, PTL DEF FinishedStaysFinished, Spec

(***************************************************************************)
(* A thread owns the row of its run                                        *)
(***************************************************************************)

\* RunnerOwnsRow, strengthened by what keeps a sweep away from the row.
Ownership ==
    \A w \in Workers :
        pc[w] \in RunPoints =>
            /\ run[w].job \in Jobs
            /\ status[run[w].job] = "running"
            /\ claimedBy[run[w].job] = w
            /\ ~stale[run[w].job]

Inv == TypeOK /\ RunHasJob /\ RequestsAreFresh /\ OneActivePerDatasource /\ Ownership

\* The systems in which no run outlasts the threshold and no datasource goes.
Undisturbed == ~LongRuns /\ MaxRemovals = 0

\* A thread that ends its run is not inside it any more.
LEMMA FinishLeaves ==
    ASSUME TypeOK, NEW w \in Workers, NEW outcome, NEW blame, Finish(w, outcome, blame)
    PROVE  pc'[w] \notin RunPoints /\ run' = [run EXCEPT ![w] = NoRun]
BY DEF TypeOK, Finish, Leave, Goto, Return, Escape, RunPoints

\* As long as it is inside, no one touches what its row says of the run.
LEMMA RowStays ==
    ASSUME Undisturbed, Inv, [Next]_vars,
           NEW v \in Workers, pc[v] \in RunPoints, pc'[v] \in RunPoints, ~Claim(v)
    PROVE  /\ status'[run[v].job] = "running"
           /\ claimedBy'[run[v].job] = v
           /\ ~stale'[run[v].job]
<1> DEFINE job == run[v].job
           Kept == /\ status'[job] = status[job]
                   /\ claimedBy'[job] = claimedBy[job]
                   /\ stale'[job] = stale[job]
<1>0. /\ job \in Jobs /\ status[job] = "running" /\ claimedBy[job] = v /\ ~stale[job]
      /\ TypeOK
  BY DEF Inv, Ownership
<1> SUFFICES Kept BY <1>0
<1> HIDE DEF job
<1>1. ASSUME NEW w \in Workers, Claim(w) PROVE Kept
  <2>1. PICK j \in Queued :
            /\ status' = [status EXCEPT ![j] = "running"]
            /\ claimedBy' = [claimedBy EXCEPT ![j] = w]
            /\ stale' = [stale EXCEPT ![j] = FALSE]
    BY <1>0, <1>1, ClaimEffect
  <2>2. j # job BY <1>0 DEF Queued
  <2> QED BY <1>0, <2>1, <2>2 DEF TypeOK
<1>2. ASSUME NEW w \in Workers, Sweep(w) PROVE Kept
  <2>1. job \notin Stale BY <1>0 DEF Stale
  <2> QED BY <1>0, <1>2, <2>1 DEF Sweep, ReleaseStale
<1>3. ASSUME NEW w \in Workers, NEW outcome, NEW blame, pc[w] \in RunPoints,
             Finish(w, outcome, blame)
      PROVE  Kept
  <2>1. w # v BY <1>0, <1>3, FinishLeaves
  <2>2. run[w].job # job BY <1>0, <1>3, <2>1 DEF Inv, Ownership
  <2> QED BY <1>0, <1>3, <2>2 DEF Finish, TypeOK
<1>4. ASSUME NEW w \in Workers, Succeed(w) \/ Fail(w) PROVE Kept
  BY <1>3, <1>4 DEF Succeed, Fail, RunPoints
<1>5. ASSUME NEW c \in Clients, Submit(c) PROVE Kept
  <2>1. request[c].job # job BY <1>0, <1>5 DEF Submit, Inv, RequestsAreFresh
  <2> QED BY <1>0, <1>5, <2>1 DEF Submit, TypeOK
<1>6. ASSUME NEW d \in Datasources, RemoveDatasource(d) PROVE Kept
  BY <1>0, <1>6 DEF RemoveDatasource, Undisturbed, TypeOK
<1>7. ASSUME NEW j \in Jobs, Age(j) PROVE Kept
  <2>1. j # job BY <1>7 DEF Age, Undisturbed, Running, job
  <2> QED BY <1>0, <1>7, <2>1 DEF Age, TypeOK
<1>8. ASSUME UNCHANGED <<status, claimedBy, stale>> PROVE Kept
  BY <1>8
<1> QED
  BY <1>1, <1>2, <1>4, <1>5, <1>6, <1>7, <1>8
  DEF Next, ClientNext, DatasourceNext, WorkerNext, ThreadStep, RegisterAndSubmit, Retry,
      CheckActive, RegisterDatasource, Start, Tick, ClaimNothing, RecordSelect, RecordUpdate,
      Stage, Reread, StoreFault, Crash, vars, rows

LEMMA OwnershipNext ==
    ASSUME Undisturbed, Inv, [Next]_vars
    PROVE  Ownership'
<1> SUFFICES ASSUME NEW v \in Workers, pc'[v] \in RunPoints
             PROVE  /\ run'[v].job \in Jobs
                    /\ status'[run'[v].job] = "running"
                    /\ claimedBy'[run'[v].job] = v
                    /\ ~stale'[run'[v].job]
  BY DEF Ownership, Jobs
<1>1. CASE Claim(v)
  <2>1. PICK j \in Queued :
            /\ run'[v].job = j
            /\ status' = [status EXCEPT ![j] = "running"]
            /\ claimedBy' = [claimedBy EXCEPT ![j] = v]
            /\ stale' = [stale EXCEPT ![j] = FALSE]
    BY <1>1, ClaimEffect DEF Inv
  <2> QED BY <2>1 DEF Queued, Inv, TypeOK
<1>2. CASE ~Claim(v)
  <2>1. pc[v] \in RunPoints /\ run'[v].job = run[v].job
    BY <1>2, RunningStep DEF Inv
  <2>2. run[v].job \in Jobs BY <2>1 DEF Inv, Ownership
  <2> QED BY <1>2, <2>1, <2>2, RowStays
<1> QED BY <1>1, <1>2

LEMMA InvInvariant ==
    ASSUME Undisturbed
    PROVE  Spec => []Inv
<1>1. Init => Ownership BY DEF Init, Ownership, RunPoints
<1>2. (TypeOK /\ RunHasJob /\ RequestsAreFresh /\ OneActivePerDatasource) /\ Ownership
          /\ [Next]_vars => Ownership'
  BY OwnershipNext DEF Inv
<1>3. Inv <=> (TypeOK /\ RunHasJob /\ RequestsAreFresh) /\ OneActivePerDatasource /\ Ownership
  BY DEF Inv
<1> QED BY <1>1, <1>2, <1>3, FreshInvariant, ActiveUnique, PTL DEF Spec

\* Undisturbed, a thread inside _run owns the row it reports to.
THEOREM RowsAreOwned ==
    ASSUME Undisturbed
    PROVE  Spec => []RunnerOwnsRow
<1>1. Inv => RunnerOwnsRow BY DEF Inv, Ownership, RunnerOwnsRow
<1> QED BY <1>1, InvInvariant, PTL

\* Undisturbed, two threads never run the pipeline over one datasource: both their
\* jobs would be running, so they are one job, and it has one claim.
THEOREM RunsAreAlone ==
    ASSUME Undisturbed
    PROVE  Spec => []OneRunPerDatasource
<1>1. Inv => OneRunPerDatasource
  <2> SUFFICES ASSUME Inv, NEW w \in Workers, NEW v \in Workers,
                      pc[w] \in RunPoints, pc[v] \in RunPoints,
                      ds[run[w].job] = ds[run[v].job]
               PROVE  w = v
    BY DEF OneRunPerDatasource
  <2>1. run[w].job = run[v].job
    BY DEF Inv, Ownership, OneActivePerDatasource, Active
  <2> QED BY <2>1 DEF Inv, Ownership
<1> QED BY <1>1, InvInvariant, PTL

(***************************************************************************)
(* The order of the stages, and what the outcome of a job says of them     *)
(***************************************************************************)

\* A failed step is the first that is left to do.
InOrder(list) ==
    \A t, u \in Steps : list[t] = "failed" /\ u < t => list[u] \notin {"pending", "failed"}

ListsInOrder ==
    /\ \A j \in Jobs : InOrder(steps[j])
    /\ \A c \in Clients : InOrder(request[c].steps)

\* What a thread knows of its job agrees with the row: nothing is left to do that it
\* does not plan to do, a failed step comes first, the list it read is still the one in
\* the row, and it blames a step that failed.
RunsFollow ==
    \A w \in Workers :
        LET list == steps[run[w].job] IN
        /\ pc[w] \in {"select", "update", "stage", "succeed"} =>
               /\ Pending(list) \subseteq run[w].todo
               /\ \A t, u \in run[w].todo : list[t] = "failed" => t <= u
        /\ pc[w] = "update" => run[w].seen = list
        /\ pc[w] = "succeed" => run[w].todo = {}
        /\ pc[w] \in RunPoints \ {"fail"} => run[w].blame = 0
        /\ pc[w] = "fail" /\ run[w].blame # 0 => list[run[w].blame] = "failed"

OutcomesFit ==
    \A j \in Jobs :
        /\ status[j] = "succeeded" => Pending(steps[j]) = {}
        /\ status[j] = "failed" /\ errorStep[j] # 0 => steps[j][errorStep[j]] = "failed"

StageInv == Inv /\ ListsInOrder /\ RunsFollow /\ OutcomesFit

\* Resuming keeps the order: what is before the start is as the last job left it, and
\* nothing from the start on has failed yet.
LEMMA CarryForwardInOrder ==
    /\ InOrder(NoSteps)
    /\ \A start \in Steps : \A previous \in StepList :
           InOrder(previous) => InOrder(CarryForward(start, previous))
BY ConstantsAssumption DEF InOrder, NoSteps, CarryForward, Steps

\* Recording a report on the first step left to do keeps the order.
LEMMA ReportInOrder ==
    ASSUME NEW list \in StepList, InOrder(list), NEW todo \in SUBSET Steps,
           Pending(list) \subseteq todo,
           \A t, u \in todo : list[t] = "failed" => t <= u,
           NEW s \in todo, \A t \in todo : s <= t,
           NEW report \in {"running", "done", "failed"}
    PROVE  InOrder([list EXCEPT ![s] = report])
<1> DEFINE next == [list EXCEPT ![s] = report]
<1> SUFFICES ASSUME NEW t \in Steps, NEW u \in Steps, next[t] = "failed", u < t
             PROVE  next[u] \notin {"pending", "failed"}
  BY DEF InOrder
<1>0. t \in Int /\ u \in Int /\ s \in Int BY ConstantsAssumption DEF Steps
<1>1. CASE t = s
  <2>1. u \notin todo /\ u # s BY <1>0, <1>1
  <2> QED BY <2>1 DEF Pending, StepList
<1>2. CASE t # s
  <2>1. list[t] = "failed" BY <1>2 DEF StepList
  <2>2. t \in todo BY <2>1 DEF Pending
  <2>3. t <= s /\ s <= t BY <2>1, <2>2
  <2> QED BY <1>0, <1>2, <2>3
<1> QED BY <1>1, <1>2

\* A step list is written by the request that inserts its job and by the thread that
\* runs it.
LEMMA StepsStep ==
    ASSUME TypeOK, RunHasJob, [Next]_vars, NEW j \in Jobs
    PROVE  \/ steps'[j] = steps[j]
           \/ \E c \in Clients :
                 Submit(c) /\ request[c].job = j /\ status'[j] = "queued"
                    /\ steps'[j] = request[c].steps
           \/ \E w \in Workers : RecordUpdate(w) /\ run[w].job = j
<1> DEFINE Written == \/ steps'[j] = steps[j]
                      \/ \E c \in Clients :
                            Submit(c) /\ request[c].job = j /\ status'[j] = "queued"
                               /\ steps'[j] = request[c].steps
                      \/ \E w \in Workers : RecordUpdate(w) /\ run[w].job = j
<1>1. ASSUME NEW c \in Clients, Submit(c) PROVE Written
  BY <1>1 DEF Submit, TypeOK
<1>2. ASSUME NEW w \in Workers, RecordUpdate(w) PROVE Written
  BY <1>2 DEF RecordUpdate, TypeOK
<1>3. ASSUME UNCHANGED steps PROVE Written
  BY <1>3
<1> QED
  BY <1>1, <1>2, <1>3
  DEF Next, ClientNext, DatasourceNext, WorkerNext, ThreadStep, RegisterAndSubmit, Retry,
      CheckActive, RemoveDatasource, RegisterDatasource, Age, Start, Sweep, Tick, Claim,
      ClaimNothing, RecordSelect, Stage, Reread, Succeed, Fail, Finish, StoreFault, Crash,
      vars, rows

\* Undisturbed, nobody else writes the list of a thread's job.
LEMMA OwnListStays ==
    ASSUME Inv, [Next]_vars, NEW v \in Workers, pc[v] \in RunPoints, ~RecordUpdate(v)
    PROVE  steps'[run[v].job] = steps[run[v].job]
<1>0. run[v].job \in Jobs /\ status[run[v].job] = "running" /\ claimedBy[run[v].job] = v
  BY DEF Inv, Ownership
<1>1. ASSUME NEW c \in Clients, Submit(c) PROVE request[c].job # run[v].job
  BY <1>0, <1>1 DEF Submit, Inv, RequestsAreFresh
<1>2. ASSUME NEW w \in Workers, RecordUpdate(w) PROVE run[w].job # run[v].job
  <2>1. pc[w] \in RunPoints /\ w # v BY <1>2 DEF RecordUpdate, RunPoints
  <2> QED BY <1>0, <2>1 DEF Inv, Ownership
<1> QED BY <1>0, <1>1, <1>2, StepsStep DEF Inv

\* A thread inside _run moves by its own steps only.
LEMMA OwnStep ==
    ASSUME TypeOK, [Next]_vars, NEW v \in Workers, pc'[v] \in RunPoints,
           ~Claim(v), ~RecordSelect(v), ~RecordUpdate(v), ~Stage(v), ~Reread(v), ~StoreFault(v)
    PROVE  pc'[v] = pc[v] /\ run'[v] = run[v]
<1> DEFINE Kept == pc'[v] = pc[v] /\ run'[v] = run[v]
<1>0. run \in [Workers -> Run] /\ pc \in [Workers -> Points]
  BY DEF TypeOK
<1>1. ASSUME NEW w \in Workers, w # v,
             Claim(w) \/ RecordSelect(w) \/ Stage(w) \/ Reread(w)
      PROVE  Kept
  BY <1>0, <1>1 DEF Claim, RecordSelect, Stage, Reread, Goto
<1>2. ASSUME NEW w \in Workers, w # v, RecordUpdate(w) PROVE Kept
  <2>1. PICK point \in RunPoints, r \in Run :
           pc' = [pc EXCEPT ![w] = point] /\ run' = [run EXCEPT ![w] = r]
    BY <1>0, <1>2, UpdateEffect DEF RecordUpdate
  <2> QED BY <1>0, <1>2, <2>1
<1>3. ASSUME NEW w \in Workers, w # v, StoreFault(w) PROVE Kept
  <2>1. PICK point \in Points :
           /\ pc' = [pc EXCEPT ![w] = point]
           /\ UNCHANGED run \/ run' = [run EXCEPT ![w] = NoRun]
    BY <1>3, FaultEffect DEF StoreFault
  <2> QED BY <1>0, <1>3, <2>1
<1>4. ASSUME NEW w \in Workers, Succeed(w) \/ Fail(w) \/ Crash(w) PROVE Kept
  <2>1. v # w
    BY <1>0, <1>4 DEF Succeed, Fail, Crash, Finish, Leave, Goto, Return, Escape, RunPoints
  <2> QED BY <1>0, <1>4, <2>1 DEF Succeed, Fail, Crash, Finish, Leave, Goto
<1>5. ASSUME NEW w \in Workers, Start(w) \/ Sweep(w) \/ Tick(w) \/ ClaimNothing(w)
      PROVE  Kept
  <2>1. v # w
    BY <1>0, <1>5 DEF Start, Sweep, Tick, ClaimNothing, Goto, Return, RunPoints
  <2> QED BY <1>0, <1>5, <2>1 DEF Start, Sweep, Tick, ClaimNothing, Goto
<1>6. ASSUME NEW c \in Clients, Submit(c) PROVE Kept
  BY <1>0, <1>6 DEF Submit, RunPoints
<1>7. ASSUME UNCHANGED threads PROVE Kept
  BY <1>7 DEF threads
<1> QED
  BY <1>1, <1>2, <1>3, <1>4, <1>5, <1>6, <1>7
  DEF Next, ClientNext, DatasourceNext, WorkerNext, ThreadStep, RegisterAndSubmit, Retry,
      CheckActive, RemoveDatasource, RegisterDatasource, Age, vars

\* The first failed step of a list, if any, is one that failed.
LEMMA FirstFailedFailed ==
    \A list : FirstFailed(list) # 0 => list[FirstFailed(list)] = "failed"
<1> SUFFICES ASSUME NEW list, FirstFailed(list) # 0 PROVE list[FirstFailed(list)] = "failed"
  OBVIOUS
<1> DEFINE first == {s \in Steps : /\ list[s] = "failed"
                                   /\ \A t \in Steps : list[t] = "failed" => s <= t}
<1>1. first # {} BY DEF FirstFailed
<1>2. (CHOOSE s \in first : TRUE) \in first BY <1>1
<1>3. FirstFailed(list) = CHOOSE s \in first : TRUE BY <1>1 DEF FirstFailed
<1> QED BY <1>2, <1>3

LEMMA ListsNext == TypeOK /\ RunHasJob /\ RunsFollow /\ ListsInOrder /\ [Next]_vars => ListsInOrder'
<1> SUFFICES ASSUME TypeOK, RunHasJob, RunsFollow, ListsInOrder, [Next]_vars
             PROVE  ListsInOrder'
  OBVIOUS
<1>0. /\ \A j \in Jobs : steps[j] \in StepList
      /\ request \in [Clients -> Request] /\ run \in [Workers -> Run]
  BY DEF TypeOK
<1>1. ASSUME NEW j \in Jobs PROVE InOrder(steps'[j])
  <2>1. ASSUME NEW w \in Workers, RecordUpdate(w), run[w].job = j PROVE InOrder(steps'[j])
    <3>1. PICK s \in Steps :
             /\ Current(w, s)
             /\ steps' = IF Exists(run[w].job)
                         THEN [steps EXCEPT ![run[w].job] = Replaced(w, s)]
                         ELSE steps
      BY <2>1 DEF RecordUpdate
    <3>2. /\ run[w].seen = steps[j] /\ Pending(steps[j]) \subseteq run[w].todo
          /\ \A t, u \in run[w].todo : steps[j][t] = "failed" => t <= u
      BY <2>1 DEF RecordUpdate, RunsFollow
    <3>3. run[w].todo \in SUBSET Steps /\ run[w].report \in {"running", "done", "failed"}
      BY <1>0 DEF Run
    <3>4. Replaced(w, s) = [steps[j] EXCEPT ![s] = run[w].report]
      BY <3>2 DEF Replaced
    <3>5. InOrder(steps[j]) BY DEF ListsInOrder
    <3>6. InOrder([steps[j] EXCEPT ![s] = run[w].report])
      BY <1>0, <3>1, <3>2, <3>3, <3>5, ReportInOrder DEF Current
    <3>7. steps'[j] = steps[j] \/ steps'[j] = Replaced(w, s)
      BY <2>1, <3>1 DEF TypeOK
    <3> QED BY <3>4, <3>5, <3>6, <3>7
  <2> QED BY <2>1, StepsStep DEF ListsInOrder
<1>2. ASSUME NEW c \in Clients PROVE InOrder(request'[c].steps)
  <2>1. ASSUME NEW e \in Clients, NEW d \in Datasources, NEW list \in StepList,
               Ask(e, d, list), InOrder(list)
        PROVE  InOrder(request'[c].steps)
    BY <1>0, <2>1 DEF Ask, ListsInOrder
  <2>2. ASSUME NEW e \in Clients, NEW d \in Datasources, RegisterAndSubmit(e, d)
        PROVE  InOrder(request'[c].steps)
    <3>1. 1 \in Steps BY ConstantsAssumption DEF Steps
    <3>2. InOrder(CarryForward(1, NoSteps)) /\ CarryForward(1, NoSteps) \in StepList
      BY <3>1, CarryForwardInOrder, StepListType
    <3> QED BY <2>1, <2>2, <3>2 DEF RegisterAndSubmit
  <2>3. ASSUME NEW e \in Clients, NEW d \in Datasources, NEW start \in Steps,
               Retry(e, d, start)
        PROVE  InOrder(request'[c].steps)
    <3>1. PICK previous \in {NoSteps} \cup {steps[j] : j \in Jobs} :
              Ask(e, d, CarryForward(start, previous))
      BY <2>3 DEF Retry
    <3>2. InOrder(previous) /\ previous \in StepList
      BY <1>0, CarryForwardInOrder, StepListType DEF ListsInOrder
    <3>3. InOrder(CarryForward(start, previous)) /\ CarryForward(start, previous) \in StepList
      BY <3>2, CarryForwardInOrder, StepListType
    <3> QED BY <2>1, <3>1, <3>3
  <2>4. ASSUME NEW e \in Clients, CheckActive(e) \/ Submit(e)
        PROVE  request'[c].steps \in {request[c].steps, NoSteps}
    <3>1. /\ [request[e] EXCEPT !.at = "insert", !.job = created + 1].steps = request[e].steps
          /\ \A j : [NoRequest EXCEPT !.job = j].steps = NoSteps
          /\ NoRequest.steps = NoSteps
      BY <1>0 DEF Request, NoRequest
    <3>2. ASSUME CheckActive(e)
          PROVE  \/ request' = [request EXCEPT ![e] = NoRequest]
                 \/ request' = [request EXCEPT ![e] =
                                  [request[e] EXCEPT !.at = "insert", !.job = created + 1]]
      BY <3>2 DEF CheckActive
    <3>3. ASSUME Submit(e)
          PROVE  \/ request' = [request EXCEPT ![e] = NoRequest]
                 \/ request' = [request EXCEPT ![e] = [NoRequest EXCEPT !.job = request[e].job]]
      BY <3>3 DEF Submit
    <3>4. CASE c = e
      BY <1>0, <2>4, <3>1, <3>2, <3>3, <3>4
    <3>5. CASE c # e
      BY <1>0, <2>4, <3>2, <3>3, <3>5
    <3> QED BY <3>4, <3>5
  <2>5. ASSUME UNCHANGED request PROVE InOrder(request'[c].steps)
    BY <2>5 DEF ListsInOrder
  <2>6. InOrder(request[c].steps) /\ InOrder(NoSteps)
    BY CarryForwardInOrder DEF ListsInOrder
  <2> QED
    BY <2>2, <2>3, <2>4, <2>5, <2>6
    DEF Next, ClientNext, DatasourceNext, WorkerNext, ThreadStep, RemoveDatasource,
        RegisterDatasource, Age, Start, Sweep, Tick, Claim, ClaimNothing, RecordSelect,
        RecordUpdate, Stage, Reread, Succeed, Fail, Finish, StoreFault, Crash, vars
<1> QED BY <1>1, <1>2 DEF ListsInOrder

\* A thread's knowledge after a step of its own, and after a step of others.
LEMMA FollowNext ==
    ASSUME Undisturbed, Inv, ListsInOrder, RunsFollow, [Next]_vars
    PROVE  RunsFollow'
<1> DEFINE Follows(p, r, list) ==
        /\ p \in {"select", "update", "stage", "succeed"} =>
               /\ Pending(list) \subseteq r.todo
               /\ \A t, u \in r.todo : list[t] = "failed" => t <= u
        /\ p = "update" => r.seen = list
        /\ p = "succeed" => r.todo = {}
        /\ p \in RunPoints \ {"fail"} => r.blame = 0
        /\ p = "fail" /\ r.blame # 0 => list[r.blame] = "failed"
<1> SUFFICES ASSUME NEW v \in Workers
             PROVE  Follows(pc'[v], run'[v], steps'[run'[v].job])
  BY DEF RunsFollow, RunPoints
<1> DEFINE job == run[v].job
           list == steps[job]
<1>0. /\ TypeOK /\ RunHasJob
      /\ run \in [Workers -> Run] /\ pc \in [Workers -> Points] /\ run[v] \in Run
      /\ \A j \in Jobs : steps[j] \in StepList
  BY DEF Inv, TypeOK
<1>1. Follows(pc[v], run[v], list)
  BY DEF RunsFollow, RunPoints
<1>2. CASE pc'[v] \notin RunPoints
  BY <1>2 DEF RunPoints
<1>3. ASSUME Claim(v) PROVE Follows(pc'[v], run'[v], steps'[run'[v].job])
  <2>1. PICK j \in Queued :
            /\ run' = [run EXCEPT ![v] = [NoRun EXCEPT !.job = j, !.todo = Pending(steps[j])]]
            /\ Goto(v, IF Pending(steps[j]) = {} THEN "succeed" ELSE "select")
    BY <1>3 DEF Claim
  <2>2. run'[v].job = j /\ run'[v].todo = Pending(steps[j]) /\ run'[v].blame = 0
    BY <1>0, <2>1 DEF NoRun
  <2>3. steps' = steps /\ j \in Jobs BY <1>3, <2>1 DEF Claim, Queued
  <2>4. pc'[v] \in {"succeed", "select"} /\ (pc'[v] = "succeed" => Pending(steps[j]) = {})
    BY <1>0, <2>1 DEF Goto
  <2>5. \A t, u \in Pending(steps[j]) : steps[j][t] = "failed" => t <= u
    BY <2>3, ConstantsAssumption DEF ListsInOrder, InOrder, Pending, Steps
  <2> QED BY <2>2, <2>3, <2>4, <2>5
<1>4. CASE pc'[v] \in RunPoints /\ ~Claim(v)
  <2>0. pc[v] \in RunPoints /\ run'[v].job = job
    BY <1>0, <1>4, RunningStep
  <2>00. job \in Jobs /\ Exists(job) /\ list \in StepList
    BY <1>0, <2>0 DEF Inv, Ownership, Exists
  <2>1. ~RecordUpdate(v) => steps'[job] = list
    BY <2>0, OwnListStays
  <2>2. ASSUME RecordSelect(v) PROVE Follows(pc'[v], run'[v], steps'[job])
    <3>1. pc'[v] = "update" /\ run'[v] = [run[v] EXCEPT !.seen = list] /\ steps' = steps
      BY <1>0, <2>2, <2>00 DEF RecordSelect, Goto, rows
    <3>2. run'[v].seen = list /\ run'[v].todo = run[v].todo /\ run'[v].blame = run[v].blame
      BY <1>0, <3>1 DEF Run
    <3> QED BY <1>1, <2>2, <3>1, <3>2 DEF RecordSelect, RunPoints
  <2>3. ASSUME RecordUpdate(v) PROVE Follows(pc'[v], run'[v], steps'[job])
    <3>1. PICK s \in Steps :
             /\ Current(v, s) /\ AfterReport(v, s)
             /\ steps' = [steps EXCEPT ![job] = Replaced(v, s)]
      BY <2>3, <2>00 DEF RecordUpdate
    <3>2. /\ run[v].seen = list /\ Pending(list) \subseteq run[v].todo /\ run[v].blame = 0
          /\ \A t, u \in run[v].todo : list[t] = "failed" => t <= u
      BY <1>1, <2>3 DEF RecordUpdate, RunPoints
    <3>3. steps'[job] = [list EXCEPT ![s] = run[v].report]
      BY <2>00, <3>1, <3>2 DEF Replaced, TypeOK, Inv
    <3>4. CASE run[v].report = "running"
      <4>1. pc'[v] = "stage" /\ run'[v] = [run[v] EXCEPT !.seen = NoSteps]
        BY <1>0, <3>1, <3>4 DEF AfterReport, Goto
      <4>2. run'[v].todo = run[v].todo /\ run'[v].blame = 0 BY <1>0, <3>2, <4>1 DEF Run
      <4>3. Pending(steps'[job]) \subseteq run[v].todo
        BY <2>00, <3>2, <3>3, <3>4 DEF Pending, StepList
      <4>4. \A t \in Steps : steps'[job][t] = "failed" => list[t] = "failed"
        BY <2>00, <3>3, <3>4 DEF StepList
      <4>5. run[v].todo \subseteq Steps BY <1>0 DEF Run
      <4> QED BY <3>2, <4>1, <4>2, <4>3, <4>4, <4>5
    <3>5. CASE run[v].report = "done"
      <4> DEFINE left == [run[v] EXCEPT !.seen = NoSteps, !.todo = run[v].todo \ {s},
                                        !.report = "running"]
      <4>1. /\ pc'[v] = IF run[v].todo = {s} THEN "succeed" ELSE "select"
            /\ run'[v] = left
        BY <1>0, <3>1, <3>5 DEF AfterReport, Goto
      <4>2. left.todo = run[v].todo \ {s} /\ left.blame = 0
        BY <1>0, <3>2 DEF Run
      <4> HIDE DEF left
      <4>3. Pending(steps'[job]) \subseteq run[v].todo \ {s}
        BY <2>00, <3>2, <3>3, <3>5 DEF Pending, StepList
      <4>4. \A t \in Steps : steps'[job][t] = "failed" => list[t] = "failed"
        BY <2>00, <3>3, <3>5 DEF StepList
      <4>5. run[v].todo \subseteq Steps BY <1>0 DEF Run
      <4> QED BY <3>2, <4>1, <4>2, <4>3, <4>4, <4>5
    <3>6. CASE run[v].report = "failed"
      <4>1. pc'[v] = "reread" /\ run'[v] = [run[v] EXCEPT !.seen = NoSteps]
        BY <1>0, <3>1, <3>6 DEF AfterReport, Goto
      <4>2. run'[v].blame = 0 BY <1>0, <3>2, <4>1 DEF Run
      <4> QED BY <4>1, <4>2
    <3> QED BY <1>0, <3>4, <3>5, <3>6 DEF Run
  <2>4. ASSUME Stage(v) PROVE Follows(pc'[v], run'[v], steps'[job])
    <3>1. PICK outcome \in {"done", "failed"} : run'[v] = [run[v] EXCEPT !.report = outcome]
      BY <1>0, <2>4 DEF Stage
    <3>2. run'[v].todo = run[v].todo /\ run'[v].blame = run[v].blame BY <1>0, <3>1 DEF Run
    <3>3. pc[v] = "stage" /\ pc'[v] = "select" /\ steps' = steps
      BY <1>0, <2>4 DEF Stage, Goto, rows
    <3> QED BY <1>1, <3>2, <3>3 DEF RunPoints
  <2>5. ASSUME Reread(v) PROVE Follows(pc'[v], run'[v], steps'[job])
    <3>1. run'[v] = [run[v] EXCEPT !.blame = FirstFailed(list)]
      BY <1>0, <2>5, <2>00 DEF Reread
    <3>2. run'[v].blame = FirstFailed(list) BY <1>0, <3>1 DEF Run
    <3>3. pc'[v] = "fail" /\ steps' = steps BY <1>0, <2>5 DEF Reread, Goto, rows
    <3>4. FirstFailed(list) # 0 => list[FirstFailed(list)] = "failed"
      BY FirstFailedFailed
    <3> QED BY <3>2, <3>3, <3>4
  <2>6. ASSUME StoreFault(v) PROVE Follows(pc'[v], run'[v], steps'[job])
    <3>1. /\ run'[v] = run[v] /\ run[v].blame = 0
          /\ pc'[v] \in {"reread", "fail"} /\ pc[v] \in RunPoints \ {"fail"}
      BY <1>0, <1>1, <1>4, <2>0, <2>6
      DEF StoreFault, AfterFault, Leave, Goto, Return, Escape, RunPoints
    <3> QED BY <3>1
  <2>7. CASE ~RecordSelect(v) /\ ~RecordUpdate(v) /\ ~Stage(v) /\ ~Reread(v) /\ ~StoreFault(v)
    <3>1. pc'[v] = pc[v] /\ run'[v] = run[v]
      BY <1>0, <1>4, <2>7, OwnStep
    <3> QED BY <1>1, <2>1, <2>7, <3>1
  <2> HIDE DEF Follows
  <2> QED BY <2>0, <2>2, <2>3, <2>4, <2>5, <2>6, <2>7
<1> QED BY <1>2, <1>3, <1>4

\* The outcome of a job is written by the thread that runs it.
LEMMA OutcomeStep ==
    ASSUME TypeOK, RunHasJob, [Next]_vars, NEW j \in Jobs, status'[j] \in Terminal
    PROVE  \/ status'[j] = status[j] /\ errorStep'[j] = errorStep[j]
           \/ \E w \in Workers :
                 /\ run[w].job = j /\ UNCHANGED steps
                 /\ \/ pc[w] = "succeed" /\ status'[j] = "succeeded"
                    \/ /\ pc[w] = "fail" /\ status'[j] = "failed"
                       /\ errorStep'[j] = run[w].blame
<1> DEFINE Kept == status'[j] = status[j] /\ errorStep'[j] = errorStep[j]
           Ended(w) == /\ run[w].job = j /\ UNCHANGED steps
                       /\ \/ pc[w] = "succeed" /\ status'[j] = "succeeded"
                          \/ /\ pc[w] = "fail" /\ status'[j] = "failed"
                             /\ errorStep'[j] = run[w].blame
<1>0. /\ status \in [Jobs -> JobStatus \cup {"none"}] /\ errorStep \in [Jobs -> 0..NumSteps]
      /\ "queued" \notin Terminal /\ "running" \notin Terminal /\ "none" \notin Terminal
  BY DEF TypeOK, Terminal
<1>1. ASSUME NEW w \in Workers, Claim(w) PROVE Kept
  <2>1. PICK k \in Queued : status' = [status EXCEPT ![k] = "running"]
    BY <1>1, ClaimEffect
  <2>2. k # j BY <1>0, <2>1
  <2> QED BY <1>0, <1>1, <2>1, <2>2 DEF Claim
<1>2. ASSUME NEW w \in Workers, Sweep(w) PROVE Kept
  BY <1>0, <1>2 DEF Sweep, ReleaseStale
<1>3. ASSUME NEW w \in Workers, Succeed(w) PROVE Kept \/ Ended(w)
  <2>1. CASE run[w].job = j
    BY <1>0, <1>3, <2>1 DEF Succeed, Finish
  <2>2. CASE run[w].job # j
    BY <1>0, <1>3, <2>2 DEF Succeed, Finish
  <2> QED BY <2>1, <2>2
<1>4. ASSUME NEW w \in Workers, Fail(w) PROVE Kept \/ Ended(w)
  <2>1. CASE run[w].job = j
    BY <1>0, <1>4, <2>1 DEF Fail, Finish
  <2>2. CASE run[w].job # j
    BY <1>0, <1>4, <2>2 DEF Fail, Finish
  <2> QED BY <2>1, <2>2
<1>5. ASSUME NEW c \in Clients, Submit(c) PROVE Kept
  <2>1. CASE Insertable(request[c].ds)
    <3>1. status' = [status EXCEPT ![request[c].job] = "queued"] BY <1>5, <2>1 DEF Submit
    <3>2. request[c].job # j BY <1>0, <3>1
    <3> QED BY <1>0, <1>5, <3>1, <3>2 DEF Submit
  <2>2. CASE ~Insertable(request[c].ds)
    BY <1>5, <2>2 DEF Submit
  <2> QED BY <2>1, <2>2
<1>6. ASSUME NEW d \in Datasources, RemoveDatasource(d) PROVE Kept
  BY <1>0, <1>6 DEF RemoveDatasource
<1>7. ASSUME UNCHANGED <<status, errorStep>> PROVE Kept
  BY <1>7
<1> HIDE DEF Kept, Ended
<1>8. Kept \/ \E w \in Workers : Ended(w)
  BY <1>1, <1>2, <1>3, <1>4, <1>5, <1>6, <1>7
  DEF Next, ClientNext, DatasourceNext, WorkerNext, ThreadStep, RegisterAndSubmit, Retry,
      CheckActive, RegisterDatasource, Age, Start, Tick, ClaimNothing, RecordSelect,
      RecordUpdate, Stage, Reread, StoreFault, Crash, vars, rows
<1> QED BY <1>8 DEF Kept, Ended

LEMMA OutcomesNext ==
    ASSUME Inv, RunsFollow, OutcomesFit, [Next]_vars
    PROVE  OutcomesFit'
<1> SUFFICES ASSUME NEW j \in Jobs, status'[j] \in Terminal
             PROVE  /\ status'[j] = "succeeded" => Pending(steps'[j]) = {}
                    /\ status'[j] = "failed" /\ errorStep'[j] # 0 =>
                           steps'[j][errorStep'[j]] = "failed"
  <2>1. \A j \in Jobs : status'[j] \in {"succeeded", "failed"} => status'[j] \in Terminal
    BY DEF Terminal
  <2> QED BY <2>1 DEF OutcomesFit, Pending, Jobs, Steps
<1>1. TypeOK /\ RunHasJob BY DEF Inv
<1>2. CASE status'[j] = status[j] /\ errorStep'[j] = errorStep[j]
  <2>1. ASSUME NEW c \in Clients, status'[j] = "queued" PROVE FALSE
    BY <2>1 DEF Terminal
  <2>2. ASSUME NEW w \in Workers, RecordUpdate(w), run[w].job = j PROVE FALSE
    <3>1. status[j] = "running" BY <2>2 DEF RecordUpdate, RunPoints, Inv, Ownership
    <3> QED BY <1>2, <3>1 DEF Terminal
  <2>3. steps'[j] = steps[j]
    BY <1>1, <2>1, <2>2, StepsStep
  <2> QED BY <1>2, <2>3 DEF OutcomesFit
<1>3. ASSUME NEW w \in Workers, run[w].job = j, UNCHANGED steps, pc[w] = "succeed",
             status'[j] = "succeeded"
      PROVE  Pending(steps'[j]) = {}
  BY <1>3 DEF RunsFollow
<1>4. ASSUME NEW w \in Workers, run[w].job = j, UNCHANGED steps, pc[w] = "fail",
             errorStep'[j] = run[w].blame
      PROVE  errorStep'[j] # 0 => steps'[j][errorStep'[j]] = "failed"
  BY <1>4 DEF RunsFollow
<1> QED BY <1>1, <1>2, <1>3, <1>4, OutcomeStep

LEMMA StageInvariant ==
    ASSUME Undisturbed
    PROVE  Spec => []StageInv
<1>1. Init => ListsInOrder /\ RunsFollow /\ OutcomesFit
  BY CarryForwardInOrder
  DEF Init, ListsInOrder, RunsFollow, OutcomesFit, NoRequest, NoRun, RunPoints
<1>2. Inv /\ (ListsInOrder /\ RunsFollow /\ OutcomesFit) /\ [Next]_vars
          => (ListsInOrder /\ RunsFollow /\ OutcomesFit)'
  BY ListsNext, FollowNext, OutcomesNext DEF Inv
<1>3. StageInv <=> Inv /\ (ListsInOrder /\ RunsFollow /\ OutcomesFit)
  BY DEF StageInv
<1> QED BY <1>1, <1>2, <1>3, InvInvariant, PTL DEF Spec

\* Undisturbed, a stage starts only when no earlier step of its job is left failed or
\* waiting, over retries, resumptions and re-dispatch: those are in the thread's plan,
\* and it takes the first of it.
THEOREM StagesInOrder ==
    ASSUME Undisturbed
    PROVE  Spec => []StageInSequence
<1>1. StageInv => StageInSequence
  <2> SUFFICES ASSUME StageInv, NEW w \in Workers, NEW s \in Steps, pc[w] = "stage",
                      Current(w, s), NEW t \in Steps, t < s
               PROVE  steps[run[w].job][t] \in {"absent", "done", "running"}
    BY DEF StageInSequence
  <2>1. run[w].job \in Jobs /\ steps[run[w].job] \in StepList
    BY DEF StageInv, Inv, Ownership, RunPoints, TypeOK
  <2>2. t \notin run[w].todo
    BY ConstantsAssumption DEF Current, Steps
  <2>3. Pending(steps[run[w].job]) \subseteq run[w].todo
    BY DEF StageInv, RunsFollow
  <2> QED BY <2>1, <2>2, <2>3 DEF Pending, StepList, StepStatus
<1> QED BY <1>1, StageInvariant, PTL

\* Undisturbed, a job is marked as succeeded only when no step of it is left to do.
THEOREM SuccessesAreComplete ==
    ASSUME Undisturbed
    PROVE  Spec => []SuccessIsComplete
<1>1. StageInv => SuccessIsComplete BY DEF StageInv, OutcomesFit, SuccessIsComplete
<1> QED BY <1>1, StageInvariant, PTL

\* Undisturbed, a step a failed job blames is the one step of it that failed: there is
\* never a second one.
THEOREM BlamesAreExact ==
    ASSUME Undisturbed
    PROVE  Spec => []BlameIsExact
<1>1. StageInv => BlameIsExact
  <2> SUFFICES ASSUME StageInv, NEW j \in Jobs, status[j] = "failed", errorStep[j] # 0,
                      NEW s \in Steps
               PROVE  steps[j][s] = "failed" <=> s = errorStep[j]
    BY DEF BlameIsExact
  <2>1. errorStep[j] \in Steps /\ InOrder(steps[j])
    BY ConstantsAssumption DEF StageInv, Inv, TypeOK, ListsInOrder, Steps
  <2>2. steps[j][errorStep[j]] = "failed" BY DEF StageInv, OutcomesFit
  <2>3. s < errorStep[j] \/ s = errorStep[j] \/ errorStep[j] < s
    BY <2>1, ConstantsAssumption DEF Steps
  <2> QED BY <2>1, <2>2, <2>3 DEF InOrder
<1> QED BY <1>1, StageInvariant, PTL
=============================================================================
