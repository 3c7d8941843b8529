# GenQL, specified in TLA+

GenQL answers analytical questions in natural language over registered SQL
warehouses. This directory holds TLA+ models of its concurrent and stateful
parts, the TLC configurations that check them, and TLAPS proofs about them.

## The system

| Component | State it keeps | Operations | What is hard | Modules |
| --- | --- | --- | --- | --- |
| Ingestion queue (`genql/repositories/semantic/ingestion_job_repository.py`, `genql/infrastructure/ingestion/worker.py`, `genql/services/datasource/onboarding_service.py`) | `genql_ingestion_job` rows; a worker thread per API process, its tick counter and the job it runs | submit, retry, claim, record a step, finish, sweep | threads die, stores fail, claims go stale, datasources are deleted, requests race | `IngestionQueue`, `IngestionDispatch` |
| Semantic store (`ingestion_service.py`, `genql/discovery/runner.py`, `genql/services/semantic`, `genql/services/graph`) | catalog, enrichment, search documents, join paths and members in Postgres; the projection and GDS graph in Neo4j | six stages in `STEP_SEQUENCE`; the `schema`, `discover`, `graph` and `profile` commands | a stage fails or is resumed half done, over what earlier runs left | `SemanticStore` |
| Ingestion event streams (`genql/api/sse/ingestion_events.py`, `apps/web/.../datasources/page.tsx`) | the last fingerprint, the last status seen, the page's streams | poll, diff, emit, open, reopen, retry | what happens between two polls; a job that is deleted; a lost connection | `IngestionFeed` |
| Query turn graph (`genql/api/query_graph.py` and the `query_*_nodes.py`) | `QueryState` in a checkpoint | thirteen nodes and five routers | two cycles, a state that outlives the turn, two transports that must agree | `QueryTurn`, `QueryState` |
| Ambiguity gate (`ambiguity_gate_service.py`) | scores and answers carried in the checkpoint | assess | termination over rounds, the question budget | `AmbiguityGate` |
| Candidate arbitration (`critique_service.py`, `ambiguity_probing_service.py`, `candidate_selection_service.py`) | none (pure) | rank, probe, select | ties, fatal defects, indexes that survive a filter | `CandidatePipeline` |
| Thread turns (`genql/api/query_turn.py`, `genql/api/sse/event_stream.py`, `genql/repositories/query/thread_lock_repository.py`) | advisory lock, checkpoint, `genql_thread`, `genql_turn` | start, resume, stream, record | the lock covers the graph but not the history write; streams end early | `ThreadTurns` |
| Guardrails, optimizer, executor, golden evaluation (`genql/repositories/guardrails/`, `static_validation_service.py`, `optimization_service.py`, `guarded_execution_service.py`, `genql/services/eval`) | none between calls | check, repair, rewrite, estimate, narrow, execute, compare | order of rules; which statement is the one that runs; two caps of one value | `GuardedExecution` |
| Datasource settings (`datasource_service.py`, `datasource_merge.py`, `engine_provider.py`) | `genql_datasource`, the engine cache | register, edit, remove, connect | read-merge-write; the cache filled from a row already replaced | `Datasources` |
| Web session (`apps/web/lib/auth.tsx`, the refresh route) | per-tab session, `localStorage` lock, refresh cookie | refresh, login, logout, broadcast | tabs racing over a rotating token | `WebSession` |
| Thread page (`apps/web/.../thread/[id]/page.tsx`, `pending-turn-handoff.ts`) | the bubble, the live stream, the transcript | submit, stop, retry, reload, the effect on a renewed token | answers that overtake each other; an effect that runs again | `ThreadPage` |
| Tunnel script (`scripts/tunnel_url_sync.py`) | the frontend's variables and its build | probe, list, write, rebuild | one request of several fails; a tunnel that restarts | `TunnelSync` |
| Retrieval (`retrieval_service.py`) | an LRU of embeddings | search | threads share the LRU without a lock | `RetrievalCache` |
| Gateways, tracing, feedback, token checks, composition, CLI rendering, UI components | none of their own | remote calls, wiring, rendering | nothing a model checker reaches | not modelled |

The parts meet in few places. A request of `genql/api` runs the query turn graph
in its own thread, under the thread's advisory lock, and writes the turn to the
history afterwards; the graph's nodes call the services and keep nothing but
`QueryState`, which the checkpointer stores at every pause. The ingestion queue
shares only the database with the requests: a request inserts a row, a worker
thread of some process claims it, and the event stream of a third polls it. The
browser talks to the API by requests and streams, to GoTrue through one route.

`PROJECT.json` lists every component with its status, and under `hazards` the
lines at which each hazard bites, with the properties about it.

## How the modules fit

`QueryTurn` composes `AmbiguityGate` and `CandidatePipeline`, which share
`contested` through `QueryState`, as the nodes of one graph. `IngestionQueue`
implements `IngestionDispatch`. `MCBackend` gathers five modules that do not
interact, `MCBrowser` three: the initial state picks the one that runs, and
the others stay as they are. They save runs and claim nothing about the parts
together. Where one part talks to another, the other is reduced to what it
promises: for `IngestionFeed` a job is its status, for `ThreadPage` the server
records a turn, fails it or cannot save it some day, as `IngestionQueue` and
`ThreadTurns` say it does.

## IngestionQueue

One module for the table, the workers and the requests, because every property
worth stating relates two of them. A row is kept column by column (`ds`,
`status`, `steps`, `errorStep`, `claimedBy`); `stale` says whether `claimed_at`
is older than `stale_after_seconds`. A job's number is its rank in `created_at`.
`request` is what a request knows between its transactions, `pc` and `run` are a
worker thread's program counter and the locals of `_run`, `tick` is
`ticks % sweep_every`.

An action is one database transaction, or one stage of the pipeline:
`RegisterAndSubmit`/`Retry`, `CheckActive` and `Submit` are the three
transactions of a request; `Sweep` or `Tick`, then `Claim` or `ClaimNothing`,
are an iteration of `_loop`; `RecordSelect`, `RecordUpdate`, `Stage`, `Reread`,
`Succeed` and `Fail` are `_run`. `record_step` is two actions, a SELECT and an
UPDATE, because it takes no row lock: under READ COMMITTED another transaction
may commit between them. `Crash` kills a process at any point, `StoreFault`
makes the next store call raise, `Age` lets `stale_after_seconds` pass.
`LongRuns` decides whether a live run may last that long.

`IngestionDispatch` is the promise: a job goes to one worker at a time, only a
job nobody runs is dispatched again, an outcome is decided once, and a
datasource has one unfinished job. `IngestionQueue` is checked to implement it
(`DispatchSpec`) with `phase <- status` and `runner` read off the threads, as
long as no run outlasts the stale threshold and no datasource is deleted.

| Run | Instance | What it shows |
| --- | --- | --- |
| `faults` | 2 workers, 1 client, 3 steps, 2 jobs, a crash or a fault, or both over one job | types; one run per datasource; a thread in `_run` owns its row; stage order over retries from any step; a success leaves nothing to do; `error_step` is exact; the refinement of `IngestionDispatch` |
| `live` | an API worker and `datasource onboard`, fair threads, slow runs, a crash or a deletion | one unfinished job per datasource, nothing finished is reopened, every job ends |
| `overlap`, `resume`, `thread` | violations | see Findings |

Two workers, two jobs and one crash are enough for every pairing of a late
thread with a fresh claim; three steps let a retry start before, at and after a
failed step. `MCIngestionQueue` adds the symmetry of the workers, used in
`faults`, which checks no liveness property; its constraint `OneMishapOrOneJob`
leaves out behaviours in which two jobs meet both a crash and a store fault. In
`live` the constraint `OneMishap` leaves out those with both a crash and a
deletion. No mishap is fair, so each behaviour within a constraint is explored to
its end. `CHECK_DEADLOCK FALSE`, here
and elsewhere, because a system whose bounds are spent stops.

`FairSpec` assumes that API processes are restarted, that their threads are
scheduled, and that the clock runs. It does not assume that anyone submits or
runs the command, and nothing ever has to crash.

## SemanticStore

One datasource's slice of both databases. A catalogued object is a member of a
set, a description only its provenance (`text`), a search document the
description it was compiled from. `run` is the slice under way: the stages it
runs, where it is in the present one, and what it has read. A stage is one
action per transaction or remote call: discovery scans, profiles and stamps each
schema on its own and goes on after one that failed; the overlay writes
descriptions and hints; compiling reads, then writes; analysis opens a GDS
session, runs its three algorithms and mines paths; domains fuse embeddings and
write members. `Killed` ends the run anywhere, `StageFails` inside a stage,
`AddSchema`, `RemoveSchema` and `Rebuild` are commands that run at any time. What
an algorithm or a model makes of its input is a choice.

`SuccessIsServed` relates the end of a run to both stores: after a full run that
succeeded, whatever came before, every object of a schema it discovered is
indexed under the description that wins and belongs to a domain. Four tables,
two schemas and one hint let a path be hinted, mined and declared, and a schema
be removed while the other is served; two slices let a second run meet what a
failed first one left.

## IngestionFeed

The two generators over the job table, and the datasources page. `job` is the
status of every job so far, `stream` the page's connection with the events on
it, `reply` the responses in flight, `previous` and `seeded` the transition
feed's memory, which a reconnection loses (`FeedRestarts`). `ToldOnce`: an
end is announced at most once, and in order; one that a reconnection missed is
never announced, in the code as here. `SpinnerStops`: an unfinished job on the
page stops being one, whether its worker ends it or not, through retries, reloads,
removals and lost connections; the exception is a stream whose body just ends
without a last event (`Broken`, then `stream.at = "ended"`), which the page does not
notice. Two jobs make a job that finishes and is retried between two polls; two
loads let a reload cross a retry. Statuses move as the queue's do while no run
outlasts the stale threshold. The fairness, given in `MCBrowser`, says that the
page's own requests are answered and its stream goes on, or ends by its timeout;
no job has to end.

## QueryTurn

A thread's turns, from the question to the response. `front` is the node before
the gate (intent, scoping, linking), then `at` and `stage` are those of the two
halves. `Ask` is the request: `InitialState` is what it resets in the
checkpoint, and what it does not reset lives on. `Raw` is what a response is
read off, `merged` the same gathered from the deltas a stream saw, `event` its
last stage event. `Rendering` is how the command prints a response, by the fields it
finds set; `ResponseTellsTheEnd` has all four ends come out as what they are.
`Resume` answers a pending question, on a stream that never
saw the turn's beginning.

| Run | Instance | What it shows |
| --- | --- | --- |
| `query` | 3 dimensions, 2 questions, 1 edit of the rules, 3 candidates, 3 scores, 3 costs, 2 turns | the invariants of both halves, now of a whole turn and of the next one in the same checkpoint; `ResponseTellsTheEnd`; `StreamIsTruthful`; `TurnEnds` |
| `fatal` | `CandidatePipeline` alone | violation, see Findings |

Three dimensions leave one to be asked about, one to be guessed and one the
schema or a rule takes away, and two questions make a second pass over a first
answer, and a contested turn. Three candidates let one lead, two tie and one be
fatal; scores lie on both sides of the margin, costs on both sides of the
budget, with a narrowing that helps but not enough. A second turn is where a
field of the first could show. `AnsweredSpec` assumes that the graph runs one
node after the other and that the user answers; without the last a turn may wait
for good, which the code intends.

`AmbiguityGate` is the cycle of the gate node and the interrupt node. A
dimension is its rank in `AMBIGUITY_DIMENSIONS`, a score is `low`, `high` or
`unknown`; `answers`, `scores` and `missing` are what the checkpoint keeps
between two passes. A pass is one action, chosen by the early returns of
`assess`: `NothingOpen`, `NothingToScore`, or `Assess`, which takes any reply
that validates (scores for some dimensions, assumptions for some of these, a
question about any dimension or none) and goes on as `AllSpecified`, `Assume` or
`AskAbout`. `Pause` is `interrupt()` raising, `Answer` the second execution of
the interrupt node. `EditRules` changes the datasource's rules between passes.

`CandidatePipeline` goes from generation to execution: `Generate`, the four
outcomes of `StaticValidationNode` (`Survive`, `Retry`, `Escalate`, `Reject`),
critique and probing (done or skipped), `Selected`, `CostGate` and `Execute`. A
candidate is its position among the survivors, since that is how critique,
probing and selection refer to it; a probe may name any index, also one that
does not exist or a negative one, as Python would take it (`PositionOf`).
`rounds` is a history variable: whether each generation was escalated.

## ThreadTurns

The requests of one thread. `lock` is the session lock of
`PostgresThreadLock`, `pending` the interrupt in the checkpoint (questions are
numbered as they are asked), `thread` and `turns` the history rows. `Run` takes
the lock and hands the answer to the pending question, as `resume_query` does
under it; the question stays in the checkpoint until the resumed step commits
(`Commit`), and a request that fails or is lost in between leaves it pending.
`handed` and `used` tell the two apart. `Return` ends the graph's run, `RunFails`
ends it with an error of the turn or with an exception nobody handles. After that
`List`, `Create` or `Touch`, and `Append` are the transactions of `record_turn`,
outside the lock. `how` is the transport, which decides what becomes of an error:
`Unsaved` is a warning on a stream and an error response otherwise, `Breaks` an
exception nobody handles. `StoreFault` makes a call of `record_turn` raise;
`Vanish` is a client that goes away or a process that dies, which drops the lock
with its connection.

`QuestionAnsweredOnce`: a checkpoint takes up one answer to a question, and the
question is then never pending again; it is handed to two requests only if one
of them came to nothing before its answer was taken up.

| Run | Instance | What it shows |
| --- | --- | --- |
| `turns` | 3 requests over any transport, 1 fault | each question answered once, a dense history, no unsaved turn without a warning, nobody waits for the lock for ever |
| `streams` | 3 requests, 1 fault | violation, see Findings |

Three requests are a question, its answer and one that races either. Fairness is
strong for each request's own steps: PostgreSQL queues the waiters of an advisory
lock, so a request that finds the lock free again and again gets it. No fairness
is assumed of arrivals, faults or lost clients.

## GuardedExecution

One golden case, which is a turn with a reference beside it. A statement is what
the stages tell apart: what the guardrails look for in its tree (at most one
trait of `Written` per draft), its LIMIT, its columns, the rows it would return
without a limit, its estimated cost, and whether the optimizer's model wrote it.
`ApplyRule` is one rule of the chain: rejected, repaired and checked again, or
passed. `Rewrite`, `Estimate`, `Narrow`, `RunStatement` and `Compare` follow;
which rows survive a LIMIT is any subset of that size.

`Matches` is what `ResultComparator` does: the sets of lower-cased names
(`NameOf`) are compared, each column of the reference is looked up by name in the
other result, where the first of a name is found (`Index`), and the rows are
counted by their keys (`KeyAt`: a value rounded and printed, so that two values may
have one key and two rows may look alike).

`OnlyGuardedRuns`: what runs satisfies every rule at once, not one after the
other, and the estimate was of this text; what the optimizer's model wrote is the
exception, and `NothingRunsUnguarded` is the documents' claim without it.
`PassedMeansAgreed` compares the two statements' whole answers, as functions from
names to keys that count as often as they come, and names all the ways in which a
case may pass though they differ: a LIMIT that cut the reference, a LIMIT or the
cap that cut the turn's statement, and a name on two columns.

Results lie below, at and above the cap, and columns come in another order, in
another case, too few or twice. `backend` checks both, under the constraint
`OneVariety`: every trait and cost of a statement beside one reference, and every
reference beside the statements the rules have nothing against. `unguarded`, with
one row and a cap of one, is a violation, see Findings.

## Datasources

The row, the edits under way and the engines one process pools, the API's. An
edit is `ReadRow`, `WriteRow` (or `Refuse`) and the two pops of `Invalidate`, one
engine after the other, as in `update`, with other requests in between; an edit of
the command line writes the same row and invalidates its own process only. A
thread that needs an engine is `Resolve`, `LookUp` and `Store`. Two of the four
endpoint columns are kept.

`OneWayToConnect` holds over any chain of edits that turn an endpoint into a
variable and back, racing or not. `StaleOnlyIfOvertaken` says which engines may be
out of date once this process has dropped what it is to drop: those stored by a
thread an edit of this process overtook (`late`), and those another process's edit
made stale (`outdated`), which the provider promises nothing about. Two editors,
one connector and three writes (in `backend`) make every pairing of an edit with
another, and of an edit with a connection. `NothingLeftBehind` and
`EditsDoNotClobber` are claims that do not hold, see Findings.

## TunnelSync

A run waits for the tunnel, lists the variables, writes the ones that differ,
one request each, and rebuilds. `Interrupted` is a request that fails or a run
that is killed, anywhere. `DeployedUnlessTorn`: a run that reports success for
the tunnel that is up leaves a frontend built for it, unless an earlier run was
cut off between its first write and its rebuild. Three starts of the tunnel and
five runs let a URL change under a run and be confirmed later. Runs do not
overlap, which holds of the timer's, as a systemd service runs once at a time; one
started by hand beside it is not modelled.

## WebSession

The tabs of one browser. `point` is where a tab's refresh is, from the look at
the lock in `localStorage` to the answer; `holder` and `aged` are that lock,
`inbox` the broadcasts, `cookie` the token the tabs share and `valid` those GoTrue
accepts. A request to GoTrue and its answer are two steps (`Send`, `Exchange`,
`Answered`), and so are a login (`LogIn`, `LoggedIn`) and a logout (`Logout`,
`LoggedOut`). `racing`, chosen once, says whether tabs may interleave inside the
lock's read, write and read back, and whether a refresh may outlast it.

Nothing guards what the user does: a login may begin in any tab and at any time,
over a refresh under way for the session before it, whose rejection then deletes
the login's cookie (`Doomed`). GoTrue rejects a token that was used (its reuse
interval, which the repository does not set, would forgive that for some seconds),
may refuse a good one (429, 5xx), for which the handler deletes the cookie too, and
may be out of reach; a refresh that fails without an answer is tried again, with or
without a session. A logout revokes or does not, and its answer may be lost.
`CloseTab` closes a tab whatever it is doing, `Lose` and `LoseUser` are answers that do
not arrive; a new token lost between GoTrue and the handler counts as one of them.
The callback of a provider's login, which ends as a login does, is left out.

`SessionKept`: when all is quiet, the cookie is a token GoTrue accepts, unless
tabs raced in the lock, the user left, or, as `broken` records, an answer was lost
or refused or a login met a doomed refresh. `RaceLosesNoSession` is the claim of a
comment, without the first exception, and does not hold. `LogoutReachesEveryTab`: a
logout whose answer arrived leaves no tab with a session, unless a session was on its way to one when it
did (`crossed`); a logout whose answer is lost tells nobody, in the code as here.
`TabsSettle`: a tab that opens settles, whatever becomes of the lock's holder.

In `browser` two tabs have a session or none, race in the lock or do not, and meet
two refreshes and two events: a login, a logout, a closed tab, an answer lost or
refused. Two of them let a logout meet a login, a lost answer or a tab that goes;
two tabs race over a token or a lock, and two refreshes let one follow another.
The fairness is the browser running each tab, GoTrue answering, and the clock.

## ThreadPage

`bubble` is the question on screen without its answer, `streaming` the turn of
the live stream, `event` how it ends, `transcript` and `nextSeq` what is shown;
`request` is every turn asked for, `recorded` the server's history, `replies` the
loads in flight. The server records a turn, cannot save it and says so with the
result, or fails it (`EndTurn`). A stream may break before its result is read, or
its body may just end (`Disconnect`), in which case no handler is called
(`BodyEnds`); an aborted stream delivers nothing any more. `Renew` runs the effects
that depend on the access token. The handoff is never cleared
(`thread/[id]/page.tsx:51-53`, `199-206`), so a page opened with a question asks it
again at every renewal of the token, for as long as it is open.

`PendingIsStreamed`: what waits on screen is being streamed, and by its own
stream; excepted are a body that just ended (`cut`) and, for the second part, a
question handed over that was asked more than once. `EndsAreTold` is the claim of a
comment, without the first exception, and does not hold. `TranscriptIsWhole`: the page shows no turn
the server neither has nor warned of; once nothing is under way none is shown twice
and each that was streamed, and that the server has, is shown. The last two are not
claimed when a load and a stream overlapped: the load's answer then replaces what
the stream added, or comes with it a second time, until the next load.

Three renewals, turns and loads (in `browser`) let the effect ask three times, over
another turn and its retry.

## RetrievalCache

The embeddings of the last questions, looked up, moved, inserted and evicted by
request threads in steps of their own: each call on the `OrderedDict` is one
action, and nothing holds two together. A question evicted between its look-up
and its move is a `KeyError`, which ends the search (`MoveToEnd`).
`CacheIsBounded`: what is above `_EMBEDDING_CACHE_MAX` is on its way out. Three
threads over a cache of one make two of them see it full at once.

## The two gathered runs

| Run | Instance | What it shows |
| --- | --- | --- |
| `browser` | `ThreadPage`: 3 renewals, 3 turns, 3 loads; `IngestionFeed`: 2 jobs, 2 loads, 1 lost connection; `WebSession`: 2 tabs, 2 refreshes, 2 events | the properties of the three, under `Fairness`, which is each part's own |
| `backend` | `SemanticStore`: 4 tables, 2 slices, 1 failure, 2 changes; `Datasources`: 2 editors, 1 connector, 3 writes; `GuardedExecution`: 3 rows of which two are alike but for one column, cap 2, 5 projections, 3 costs, all six traits; `TunnelSync`: 5 runs, 3 starts; `RetrievalCache`: 3 threads, a cache of 1 | the invariants of the five |

`backend` uses the symmetry of the editors, which no action or invariant tells
apart; it checks no liveness property.

## Findings

- `overlap`: `claimed_at` is not renewed, so a run longer than 900 s is swept
  and claimed by another worker while it still runs. Two such runs also
  overwrite each other's step lists, since `record_step` takes no row lock.
- `resume`: `_run` filters on `pending` and `failed`; the step a dead worker
  left `running` is skipped when the job is dispatched again.
- `thread`: `finish` on a deleted row raises outside every `try` and ends the
  thread.
- `fatal`: selection follows the probes before it looks at a report, so a
  candidate with a fatal defect is selected if they agree on it.
- `streams`: `stage_event_stream` handles `GenqlError` only. A node or the
  checkpointer may raise something else (`event_stream.py:120`), and so do two of
  the four store calls of `record_turn`, and its assertion (`:141`): the stream
  stops without a terminal event.
- `unguarded`: what the optimizer's model writes in place of a statement over the
  budget is executed and no guardrail has seen it
  (`optimization_service.py:146-158`); the design (`docs/superpowers/specs/2026-09-05-genql-design.md:380`)
  has generated SQL clear the registry first.

Claims of the repository that fail too. They have no run of their own; named in
`MCBackend.cfg` or `MCBrowser.cfg`, as an INVARIANT or, for `EditsDoNotClobber`, a
PROPERTY, each is found violated.

- `PartialAnswersAreMarked`: `query_row_cap` is the LIMIT that is injected and the
  cap of the executor (`query_container.py:65`, `:81`), so a statement without a
  LIMIT never returns the row by which the executor would notice a cut, and the
  answer is not marked as truncated (`execution_result.py:3-6` says it is).
- `NothingLeftBehind`: a thread that read a row before its removal stores an engine
  after the pops (`engine_provider.py:81-88`, against `:18-20`).
- `EditsDoNotClobber`: of two edits that read one row the second writes every column
  of the merged row, and undoes the first (`datasource_service.py:93-100`, against
  `datasource_update.py:14-16`).
- `RaceLosesNoSession`: a loser of the lock's race whose token was rotated meanwhile
  is rejected, and the handler deletes the cookie the winner got
  (`route.ts:70-76`, against `auth.tsx:55-57`).
- `EndsAreTold`: a body that just ends calls no handler (`sse.ts:84-85`,
  `api-client.ts:166-175`, against `:145-146`), and the bubble keeps working.

Seen in the models, and allowed for by name in a property or an action:

- With the default settings a turn asks at most one question
  (`ambiguity_max_questions`) and is contested from two answers on, so critique, probing
  and escalation never run (`core/settings.py`).
- The handed-over question is asked again at every renewal of the access token
  while the page is open (`thread/[id]/page.tsx:51-53`, `199-206`);
  `pending-turn-handoff.ts:12-14` says it is read once (`ByEffect` in
  `PendingIsStreamed`).
- A load and a stream of one page that overlap drop a turn from the transcript or
  show it twice, until the next load (`overlapped` in `TranscriptIsWhole`).
- A stream of the datasources page whose body just ends leaves the job running on
  screen (`stream.at = "ended"` in `SpinnerStops`).
- An edit made on the command line leaves the API's pooled engine as it was
  (`outdated` in `StaleOnlyIfOvertaken`).
- A login that meets the refresh of the session before it loses its cookie when that
  refresh is rejected, as does any refresh GoTrue answers with 429 or 5xx (`broken`
  in `SessionKept`).
- A golden case may pass although its statements differ, when a LIMIT or the cap cut
  one of them or a name is on two columns (the exceptions of `PassedMeansAgreed`).
- A tunnel run cut off between its writes and its rebuild is not made good: the
  next finds the variables right and exits with success
  (`tunnel_url_sync.py:11-15`, `torn` in `DeployedUnlessTorn`).
- A schema whose discovery fails does not stop the run (`discovery/runner.py:88`),
  so an index is compiled from half a catalog, which
  `ingestion_service.py:13-15` rules out (`clean` in `SuccessIsServed`).
- A process killed while its graph is projected leaves the graph under its name,
  and later analyses fail on it; `graph_catalog_session.py:6-7` says a crashed run
  never does (`Killed`, `OpenSession`).

What the properties leave open: `BlameIsExact` has one writer per row, since no run
outlasts the threshold there, so an update of `record_step` lost between two runs
shows only in the finding `overlap`; `FinishedStaysFinished` does not see a
succeeded row overwritten as failed by a run that another one overtook; a fatal
candidate beside a viable one is the finding `fatal`, not
`SelectionHasAViableCandidate`; `HistoryIsDense` numbers turns without gaps and
does not say that they are numbered in the order they were asked; that a turn's
questions keep to the budget is the theorem `BudgetKept`.

## Proofs

TLAPS proves every invariant and every safety property the passing runs check,
for every value of the constants, from the assumptions the modules name
(`ConstantsAssumption`, `GateAssumption`, `PipelineAssumption`,
`TurnsAssumption`, `StoreAssumption`, `DatasourcesAssumption`,
`ExecutionAssumption`, `TunnelAssumption`, `RetrievalAssumption`,
`SessionAssumption`, `PageAssumption`, `FeedAssumption`: bounds that are numbers,
a `NoWorker` that is no worker, patches that are patches, finitely many rows and
threads). The instances of the runs play no part. In each module an inductive
invariant holds initially, every action keeps it, and the theorems follow.

| Module | Theorems | The argument |
| --- | --- | --- |
| `IngestionQueueProofs` | `TypeCorrect`, `ActiveUnique` | A thread in `_run` has a job (`RunHasJob`), without which `finish` could write outside the table. Any step but `Submit` moves a status along `Moves`, and no such move makes a finished job active; `Submit` is behind the index. |
| `IngestionOwnershipProofs` | `FinishedForGood`, `RowsAreOwned`, `RunsAreAlone`, `StagesInOrder`, `SuccessesAreComplete`, `BlamesAreExact` | The job a request is about to insert has no row and is nobody else's (`RequestsAreFresh`). The row of a run is running, carries its worker's claim and is not stale (`Ownership`): no sweep takes it, no other `finish` hits it. So what the thread read of its step list is what the row has, and the step list of a job is known from where its thread is: everything before the present step is behind it, everything after it waits. |
| `IngestionDispatchProofs` | `QueueImplementsDispatch`, `OutcomesAreFinal` | By `Ownership` a job's runner is the one thread inside `_run` with it. Submit, claim, sweep, finish and death are then steps of `IngestionDispatch`, the rest stutter. A command is not running while it submits (`CommandWaits`). |
| `QueryTurnProofs`, of `GateSpec` | `GateTypeCorrect`, `AskedOnce`, `BudgetKept`, `PlanningSettled`, `GuessesGiveWay` | The five together are inductive; a question is about an open dimension, and an open one is not answered. |
| `QueryTurnProofs`, of `PipelineSpec` | `PipelineTypeCorrect`, `BoundedRegeneration`, `ViableSelection`, `DeterministicRanking`, `BudgetedRuns` | `RegenerationIsBounded` speaks of the history; `Attempts` ties it to `retry_count` and `escalated`, stage by stage. `Choices` bounds the reports by the candidates, so every position selected exists. |
| `QueryTurnProofs`, of `QuerySpec` | `TurnTypeCorrect`, `TurnsAskOnce`, `TurnsAreBounded`, `ResponsesTellTheEnd`, `StreamsAreTruthful` | A step of the graph is a step of one half and a stutter of the other, or begins a turn, and `InitialState` resets what the halves start from: so both invariants hold of every turn in the same checkpoint. `Whereabouts` says for each node what the fields a response is read off can be when the turn is there, whatever an earlier turn left in them; `Gathered` says what the stream has merged is the state on just these fields, and `Trail` what its last event can be. |
| `ThreadTurnsProofs` | `TypeCorrect`, `OneInFlight`, `DenseHistory`, `AnsweredOnce`, `AnswersAreKept` | What a request read of the history is a length it had (`SeenIsPast`): a sequence that is not taken is then the next one. The question a running request was handed is the pending one, and nothing is taken up before the step commits (`Answers`); so handed and taken up differ only for a request under way or come to nothing, and what is taken up was pending until then. |
| `SemanticStoreProofs` | `StoreTypeCorrect`, `DiscoveriesAreServed` | `Progress` says, for each stage, what the stages before it have left of an object whose schema the run scanned cleanly; `ScanInOrder` says it of the schema being scanned. A removal takes the schema out of `stamped`, so nothing is claimed of it. |
| `BackendProofs`, of `Datasources` | `OneWayKept`, `EnginesAreCurrent` | What an edit merges into was a row with one way to connect (`ReadsAreRows`), and `merge` with the check behind it keeps that (`MergeKeepsOneWay`), whatever the row is by then. A thread nobody overtook holds the DSN of the present row (`DsnIsCurrent`), so what it stores is current; the others say whose edit overtook them, and what they store is `late` or `outdated`. |
| `BackendProofs`, of `GuardedExecution` | `GuardedRuns`, `GoldenAgreement` | The rules behind the present one are satisfied (`Passes`), which the one repair keeps, as only its own rule looks at the LIMIT (`LimitIsOneRules`), and a rewriting keeps, as none looks at the cost. A result is all the rows of its statement, or the cap or its LIMIT is below their number (`WholeOrCut`): a part of a finite set that is as large is the set. Where no name is on two columns, a row's key in the reference's order is its reading by names (`KeysAreReadings`), so equal counts of keys are equal counts of readings. |
| `BackendProofs`, of `TunnelSync` | `SyncedBuilds` | In the loop the variables written are the run's URL, the others as listed, and `changed` is whether it wrote (`LoopKnows`); outside, and unless a run was cut off, the build has the project's variables (`BuiltUnlessTorn`). |
| `BackendProofs`, of `RetrievalCache` | `BoundedCache` | Every insertion adds a thread that has yet to evict, so the bound counts them (`Inserted`); a move permutes the cache. |
| `BackendProofs`, `BrowserProofs` | `BackendTypeCorrect`, `BrowserTypeCorrect` | The five parts of `MCBackend` and the three of `MCBrowser` keep their types; a result is never larger than the cap; every token anybody holds was handed out. `Spec` of `MCBackend` and `MCBrowser` implements the specification of each part (`BackendIsItsParts`, `BrowserIsItsParts`), so the theorems about a part are about what the run explores. |
| `BrowserProofs`, of `IngestionFeed` | `EndsAreToldOnce` | The latest job, once it was told of, is over, and a feed with a baseline has seen that it is (`Baselined`). |
| `BrowserProofs`, of `ThreadPage` | `PendingIsBacked`, `TranscriptsAreWhole` | `Asking` and the live stream go together but for what `PendingIsStreamed` names. The server's history and the turns asked for agree (`History`), an answer in flight is a prefix of the history (`Answers`), and the transcript is one, with the stream's turn behind it (`Shows`, `Ending`). |
| `BrowserProofs`, of `WebSession` | `SessionIsKept`, `LogoutsReachEveryTab` | Where tabs do not race, one at a time is inside the lock, and only a closed tab's lock grows old (`LockWorks`); so the token is in one place: in the cookie, with GoTrue, or in the answer (`Kept`). Raced or not, after a logout that was told, and that no session crossed, nothing brings one back (`Gone`), and a tab that still has one has a message to come that ends it (`Parting`). |

The theorems of `IngestionOwnershipProofs` but the first, and those of
`IngestionDispatchProofs`, assume `Undisturbed`: no run outlasts the stale
threshold and no datasource is deleted. The findings `overlap` and `thread` show
that they fail otherwise. In the queue's `faults` run, which checks the same
properties, this is how the constants are chosen.

Only model-checked are the liveness properties (`EveryJobEnds`, `TurnEnds`,
`RequestsEnd`, `TabsSettle`, `SpinnerStops`), which need fairness and `ENABLED`,
out of the provers' reach here, and the violations under Findings, each of which
is one behaviour. No model has a recursion or a fold.

## Plan

1. An abstract thread (a question is asked, answered once or given up, and
   recorded) that `ThreadTurns` implements, with a proof as for the queue.
2. An abstract turn (asked, paused and answered, ended once) that `QueryTurn`
   implements.

## Not modelled

- What a retriever ranks and a reranker answers: arithmetic, in SQL or remote.
- Warehouse introspection, graph algorithms, rewriting passes, prompts and model
  replies: any outcome their callers accept is a choice, and failure an action.
- Gateways, tracing, feedback, token checks and composition keep no protocol of
  their own; the CLI is modelled where its commands change the queue or the store.
- The callback of a provider's login, GoTrue's reuse interval, and a run of the
  tunnel script by hand beside the timer's.
- Rendering, wording, SQL text, and all timing but what a stale claim, a stale
  lock and a stream's timeout need.
- An answer does not carry the question it was given to (`query_graph.py:247`):
  the model counts answers per question and does not know which the user saw.
