------------------------------ MODULE QueryTurn ------------------------------
(***************************************************************************)
(* A thread's turns, each from its question to its response: the graph of  *)
(* api/query_graph.py, whose two cycles are AmbiguityGate and              *)
(* CandidatePipeline, with the nodes before and between them, the          *)
(* checkpoint that outlives a turn, and what a response and a stream make  *)
(* of the graph's state (api/query_turn.py, api/sse/).                     *)
(*                                                                         *)
(* Nothing after the planner reads what the gate kept, so the model drops  *)
(* it there (Forget); what it says of assumptions in a response is left    *)
(* out.  A turn is started again only once the last one has stopped: the   *)
(* lock that sees to that is ThreadTurns.                                  *)
(***************************************************************************)
EXTENDS AmbiguityGate, CandidatePipeline

CONSTANT MaxTurns   \* bound of the model: questions on the thread

ASSUME TurnAssumption == MaxTurns \in Nat \ {0}

VARIABLES
    turn,      \* how many questions were asked on the thread
    front,     \* the next of the nodes before the gate, "past" behind them
    intent,
    domain,    \* domain_id: given with the question, resolved, or none
    ended,     \* how the graph left the turn, "none" while it runs
    merged,    \* the fields of the response as the stream of this request
               \* gathered them from the deltas it saw
    event      \* the last stage event of the stream

turnVars == <<turn, front, intent, domain, ended, merged, event>>
gateOnly == <<at, rules, inexpressible, answers, scores, missing, assumed, guessed, edits>>
pipelineOnly == <<stage, escalated, retryCount, violations, candidates, reports, resolved,
                  selection, cost, executed, rounds>>
allVars == <<contested, gateOnly, pipelineOnly, turnVars>>

Intents == {"analytical_sql", "metadata_question", "followup", "non_sql"}

\* What a request finds in the graph's state for its response.
Raw == [asked  |-> IF at = "paused" THEN missing ELSE 0,
        intent |-> intent,
        plan   |-> at = "planned",
        sql    |-> selection.at # 0,
        method |-> selection.method,
        cost   |-> cost,
        rows   |-> executed,
        candidates |-> candidates,
        probes |-> resolved # {}]

NothingMerged == [asked |-> 0, intent |-> "none", plan |-> FALSE, sql |-> FALSE,
                  method |-> "none", cost |-> 0, rows |-> FALSE, candidates |-> 0,
                  probes |-> FALSE]

NoEvent == [stage |-> "none", status |-> "none"]

\* The stream adds what the node returned to what it has.
Merge == merged' = [f \in DOMAIN merged |-> IF Raw'[f] # Raw[f] THEN Raw'[f] ELSE merged[f]]

Announce(name, didRun) ==
    event' = [stage |-> name, status |-> IF didRun THEN "completed" ELSE "skipped"]

-----------------------------------------------------------------------------
\* Nothing was asked on the thread.
QueryInit ==
    /\ contested = FALSE
    /\ at = "idle" /\ rules = {} /\ inexpressible = {} /\ answers = <<>> /\ scores = NoScores
    /\ missing = 0 /\ assumed = {} /\ guessed = {} /\ edits = 0
    /\ stage = "idle" /\ escalated = FALSE /\ retryCount = 0 /\ violations = FALSE
    /\ candidates = 0 /\ reports = <<>> /\ resolved = {} /\ selection = NoSelection
    /\ cost = 0 /\ executed = FALSE /\ rounds = <<>>
    /\ turn = 0 /\ front = "past" /\ intent = "none" /\ domain = "none"
    /\ ended = "none" /\ merged = NothingMerged /\ event = NoEvent

\* The gate's part of the state, as before a question.
Forget(node) ==
    /\ at' = node
    /\ rules' = {} /\ inexpressible' = {} /\ answers' = <<>> /\ scores' = NoScores
    /\ missing' = 0 /\ assumed' = {} /\ guessed' = {} /\ edits' = 0

\* Mutant of InitialState: a field added to QueryState is left out of it.
InitialButOptimization ==
    /\ contested' = FALSE
    /\ Forget("idle")
    /\ stage' = "idle" /\ escalated' = FALSE /\ retryCount' = 0 /\ violations' = FALSE
    /\ candidates' = 0 /\ reports' = <<>> /\ resolved' = {} /\ selection' = NoSelection
    /\ executed' = FALSE /\ rounds' = <<>>
    /\ intent' = "none"
    /\ UNCHANGED cost

\* initial_state: every field anew, over whatever the thread's checkpoint holds.
InitialState ==
    /\ contested' = FALSE
    /\ Forget("idle")
    /\ stage' = "idle" /\ escalated' = FALSE /\ retryCount' = 0 /\ violations' = FALSE
    /\ candidates' = 0 /\ reports' = <<>> /\ resolved' = {} /\ selection' = NoSelection
    /\ cost' = 0 /\ executed' = FALSE /\ rounds' = <<>>
    /\ intent' = "none"

\* A question: the first of the thread, one after a turn that ended, or one asked
\* over a question still pending.
Ask ==
    /\ turn < MaxTurns
    /\ turn = 0 \/ ended # "none"
    /\ turn' = turn + 1
    /\ InitialState
    /\ front' = "intent"
    /\ domain' \in {"given", "none"}
    /\ ended' = "none"
    /\ merged' = NothingMerged
    /\ event' = NoEvent

\* The question's shape settles the intent, or a model names one of the four.  Only an
\* analytical question goes on.
Classify ==
    /\ front = "intent"
    /\ intent' \in Intents
    /\ IF intent' = "analytical_sql"
       THEN front' = "scoping" /\ UNCHANGED ended
       ELSE front' = "past" /\ ended' = "not_sql"
    /\ Announce("intent_classification", TRUE)
    /\ UNCHANGED <<contested, gateOnly, pipelineOnly, turn, domain>>
    /\ Merge

\* A domain given with the question stands; another is voted on, perhaps in vain, and
\* then the stage reads as skipped.  For the given one the node returns nothing, which
\* streams as no delta at all and not as an empty one: it reads as completed.
Scope ==
    /\ front = "scoping"
    /\ IF domain = "given" THEN UNCHANGED domain ELSE domain' \in {"resolved", "none"}
    /\ Announce("domain_scoping", domain' # "none")
    /\ front' = "linking"
    /\ UNCHANGED <<contested, gateOnly, pipelineOnly, turn, intent, ended>>
    /\ Merge

\* Objects are found and bound; from here the rules and the schema are as the gate's
\* first pass will find them.
Link ==
    /\ front = "linking"
    /\ front' = "past"
    /\ at' = "gate"
    /\ rules' \in SUBSET Dimensions
    /\ inexpressible' \in Undated
    /\ Announce("schema_linking", TRUE)
    /\ UNCHANGED <<contested, answers, scores, missing, assumed, guessed, edits, pipelineOnly,
                   turn, intent, domain, ended>>
    /\ Merge

\* A model or the store fails, the label is none of the four, nothing is found.
FrontFails ==
    /\ front \in {"intent", "scoping", "linking"}
    /\ front' = "past"
    /\ ended' = "failed"
    /\ UNCHANGED <<contested, gateOnly, pipelineOnly, turn, intent, domain, merged, event>>

\* The gate, and the node that pauses.  The pause is reported as the gate's.
GateNode ==
    /\ ended = "none"
    /\ GateStep \/ Pause
    /\ ended' = CASE at' = "paused" -> "paused"
                  [] at' = "failed" -> "failed"
                  [] OTHER -> "none"
    /\ IF at' = "failed" THEN UNCHANGED event
       ELSE event' = [stage  |-> "ambiguity_gate",
                      status |-> IF at' = "paused" THEN "paused" ELSE "completed"]
    /\ UNCHANGED <<pipelineOnly, turn, front, intent, domain>>
    /\ Merge

\* The answer to a pending question: a request of its own, and so a stream of its own,
\* which starts from an initial state and sees no delta from before the pause.
Resume ==
    /\ ended = "paused"
    /\ Answer
    /\ ended' = "none"
    /\ merged' = NothingMerged
    /\ Announce("ambiguity_interrupt", TRUE)
    /\ UNCHANGED <<pipelineOnly, turn, front, intent, domain>>

\* Somebody edits the rules while the turn is in the gate's cycle.
RulesEdited ==
    /\ ended \in {"none", "paused"}
    /\ EditRules
    /\ UNCHANGED <<pipelineOnly, turnVars>>

\* The planner is told what was answered and what assumed; without links there is no
\* plan, but then schema linking has failed.
Plan ==
    /\ at = "planning"
    /\ Forget("planned")
    /\ stage' = "generation"
    /\ Announce("planning", TRUE)
    /\ UNCHANGED <<contested, escalated, retryCount, violations, candidates, reports, resolved,
                   selection, cost, executed, rounds, turn, front, intent, domain, ended>>
    /\ Merge

PlanFails ==
    /\ at = "planning"
    /\ Forget("failed")
    /\ ended' = "failed"
    /\ UNCHANGED <<contested, pipelineOnly, turn, front, intent, domain, merged, event>>

\* Whether the node's delta reads as one of a stage that ran.
DidRun(name) ==
    CASE name = "critique" -> reports' # <<>>
      [] name = "probing"  -> resolved' # {}
      [] OTHER             -> TRUE

\* The stages behind the plan.
PipelineNode ==
    /\ PipelineNext
    /\ ended' = CASE stage' = "end" /\ executed'  -> "rows"
                  [] stage' = "end" /\ ~executed' -> "over_budget"
                  [] stage' \in {"failed", "crashed"} -> "failed"
                  [] OTHER -> "none"
    /\ IF ended' = "failed" THEN UNCHANGED event ELSE Announce(stage, DidRun(stage))
    /\ UNCHANGED <<gateOnly, turn, front, intent, domain>>
    /\ Merge

GraphStep ==
    \/ Classify \/ Scope \/ Link \/ FrontFails
    \/ GateNode
    \/ Plan \/ PlanFails
    \/ PipelineNode

QueryNext == Ask \/ GraphStep \/ Resume \/ RulesEdited

QuerySpec == QueryInit /\ [][QueryNext]_allVars

\* The graph runs node after node; a user who is asked may leave it at that.
QueryFairSpec == QuerySpec /\ WF_allVars(GraphStep)

\* ... or answers every question, which only the liveness of the gate's cycle needs.
AnsweredSpec == QueryFairSpec /\ WF_allVars(Resume)

-----------------------------------------------------------------------------
(***************************************************************************)
(* The response                                                            *)
(***************************************************************************)

OverBudget(raw) == raw.cost > Budget

\* Mutant of ShortCircuited: a turn without rows was the wrong kind of question.
WithoutRows(raw) == ~raw.rows

\* The turn stopped at intent classification, as far as its fields tell.
ShortCircuited(raw) == ~raw.sql /\ ~raw.rows /\ ~OverBudget(raw)

\* to_response: of a paused turn, only what it asks; of another, what it has.
Response(raw) ==
    [shown     |-> IF raw.asked # 0
                   THEN [NothingMerged EXCEPT !.asked = raw.asked]
                   ELSE [raw EXCEPT !.intent = IF ShortCircuited(raw) THEN raw.intent ELSE "none"],
     narrowing |-> raw.asked = 0 /\ OverBudget(raw)]

\* What the command prints, by the fields it finds set: a question, a suggestion how to
\* narrow, an intent, and otherwise a finished turn.
Rendering(response) ==
    CASE response.shown.asked # 0                                -> "paused"
      [] response.shown.asked = 0 /\ response.narrowing          -> "over_budget"
      [] response.shown.asked = 0 /\ ~response.narrowing
         /\ response.shown.intent # "none"                       -> "not_sql"
      [] OTHER                                                   -> "rows"

(***************************************************************************)
(* Safety                                                                  *)
(***************************************************************************)

\* The halves of the turn keep their types in each other's company.
QueryTypeOK ==
    /\ GateTypeOK /\ PipelineTypeOK
    /\ front \in {"intent", "scoping", "linking", "past"}
    /\ ended \in {"none", "paused", "not_sql", "over_budget", "rows", "failed"}

\* A response, read off fields that outlive a turn in the checkpoint, says of this
\* turn how it ended: by a question, by an intent that is no SQL, over budget, or
\* with rows (domain/entities/turn_response.py); and the command, which tells the four
\* apart by the fields that are set, prints it as what it is (cli/commands/query.py).
ResponseTellsTheEnd ==
    LET told == Response(Raw).shown
        narrowing == Response(Raw).narrowing IN
    /\ ended = "paused" =>
           told.asked \in Dimensions /\ told.intent = "none" /\ ~told.sql /\ ~told.rows
    /\ ended = "not_sql" =>
           /\ told.intent \in Intents \ {"analytical_sql"}
           /\ ~told.sql /\ ~told.rows /\ ~narrowing /\ ~told.plan
    /\ ended = "over_budget" => narrowing /\ told.sql /\ ~told.rows /\ told.intent = "none"
    /\ ended = "rows" => told.rows /\ told.sql /\ ~narrowing /\ told.intent = "none"
    /\ ended \in {"paused", "not_sql", "over_budget", "rows"} =>
           Rendering(Response(Raw)) = ended

\* "Without that, the streaming and blocking endpoints could report a turn
\* differently" (api/sse/event_stream.py): they do not, not even for a turn resumed
\* on a stream that never saw its beginning; and the trail says that the stages for
\* contested questions ran only when they did.
StreamIsTruthful ==
    /\ ended \in {"paused", "not_sql", "over_budget", "rows"} => Response(merged) = Response(Raw)
    /\ event.stage \in {"critique", "probing"} /\ event.status = "completed" => ~OneCandidate
    /\ event.stage = "critique" /\ event.status = "skipped" => OneCandidate

(***************************************************************************)
(* Liveness                                                                *)
(***************************************************************************)

\* A turn whose user answers comes to an end, whatever the models answer: neither
\* cycle of the graph goes on for ever (api/query_graph.py).
TurnEnds == (turn > 0) ~> (ended \in {"not_sql", "over_budget", "rows", "failed"})
=============================================================================
