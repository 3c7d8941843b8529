--------------------------- MODULE CandidatePipeline ---------------------------
(***************************************************************************)
(* The second half of a turn, from candidate generation to execution: the  *)
(* nodes of api/query_nodes.py, api/query_ambiguity_nodes.py and           *)
(* api/query_optimizer_nodes.py, the routers of api/query_graph.py and the *)
(* services they call.                                                     *)
(*                                                                         *)
(* A candidate is its position among those that survived validation, the   *)
(* index by which critique, probing and selection all speak of it.  Models *)
(* and warehouses may answer anything that validates, and may fail.        *)
(***************************************************************************)
EXTENDS QueryState, Integers, FiniteSets, Sequences

CONSTANTS
    MaxCandidates,  \* bound of the model: statements in one generation
    MaxScore,       \* a critique score, 0.0 to 1.0 in steps of 1/MaxScore
    SkipMargin,     \* probing_skip_margin, in the same steps
    MaxProbes,      \* probing_max_probes
    MaxCost,        \* bound of the model: planner cost, in coarse units
    Budget          \* optimizer_cost_budget, in the same units

ASSUME PipelineAssumption ==
    /\ MaxCandidates \in Nat \ {0}
    /\ MaxScore \in Nat \ {0}
    /\ SkipMargin \in Nat
    /\ MaxProbes \in Nat \ {0}
    /\ MaxCost \in Nat \ {0}
    /\ Budget \in Nat

VARIABLES
    stage,       \* the node the turn is at, or how it ended; "idle" until it is planned
    escalated,
    retryCount,
    violations,  \* whether the next generation repairs violations
    candidates,  \* how many statements there are, then how many survived
    reports,     \* critique_reports
    resolved,    \* what the probes resolved to: the set of resolved_candidate_index
    selection,   \* the position selected and the method, as a record
    cost,        \* optimization.estimated_cost, 0 before the cost gate
    executed,    \* whether validated_sql ran
    rounds       \* history: for each generation, the first HistoryLength of them,
                 \* whether it was escalated

pipelineVars == <<stage, contested, escalated, retryCount, violations, candidates, reports,
          resolved, selection, cost, executed, rounds>>

Report == [fatal : BOOLEAN, score : 0..MaxScore]

\* An index as a model writes it, counted from 0: nothing checks it against the
\* candidates there are, and Python counts a negative one from the end.
Index == (-MaxCandidates - 1)..MaxCandidates
Inconclusive == MaxCandidates + 1

\* One more than any turn should need.
HistoryLength == 4

NoSelection == [at |-> 0, method |-> "none"]
Methods == {"none", "single_survivor", "probe_resolved", "critique_ranked"}

Running == {"generation", "validation", "critique", "probing", "selection", "cost_gate",
            "execution"}
\* "failed" is a GenqlError, "crashed" any other exception.
Ended == {"end", "failed", "crashed"}

PipelineTypeOK ==
    /\ stage \in {"idle"} \cup Running \cup Ended
    /\ contested \in BOOLEAN
    /\ escalated \in BOOLEAN
    /\ retryCount \in 0..2
    /\ violations \in BOOLEAN
    /\ candidates \in 0..MaxCandidates
    /\ reports \in Seq(Report)
    /\ resolved \subseteq Index \cup {Inconclusive}
    /\ selection \in [at : 0..MaxCandidates, method : Methods]
    /\ cost \in 0..MaxCost
    /\ executed \in BOOLEAN
    /\ rounds \in Seq(BOOLEAN)

-----------------------------------------------------------------------------
\* The plan is made.
PipelineInit ==
    /\ stage = "generation"
    /\ contested \in BOOLEAN
    /\ escalated = FALSE
    /\ retryCount = 0
    /\ violations = FALSE
    /\ candidates = 0
    /\ reports = <<>>
    /\ resolved = {}
    /\ selection = NoSelection
    /\ cost = 0
    /\ executed = FALSE
    /\ rounds = <<>>

\* One statement, or what every strategy returned.
Generate ==
    /\ stage = "generation"
    /\ candidates' \in 0..(IF contested THEN MaxCandidates ELSE 1)
    /\ retryCount' = retryCount + (IF violations THEN 1 ELSE 0)
    /\ rounds' = IF Len(rounds) < HistoryLength THEN Append(rounds, escalated) ELSE rounds
    /\ stage' = "validation"
    /\ UNCHANGED <<contested, escalated, violations, reports, resolved, selection, cost, executed>>

\* Some statements pass the guardrails: they go on without the others.
Survive ==
    /\ stage = "validation"
    /\ candidates > 0
    /\ candidates' \in 1..candidates
    /\ violations' = FALSE
    /\ stage' = "critique"
    /\ UNCHANGED <<contested, escalated, retryCount, reports, resolved, selection, cost,
                   executed, rounds>>

Regenerate ==
    /\ candidates' = 0
    /\ violations' = TRUE
    /\ stage' = "generation"
    /\ UNCHANGED <<contested, retryCount, reports, resolved, selection, cost, executed, rounds>>

\* None passes, and a violation is repairable: the first time, try again.
MayRetry == ~escalated /\ retryCount = 0

Retry ==
    /\ stage = "validation"
    /\ candidates > 0
    /\ MayRetry
    /\ Regenerate
    /\ UNCHANGED escalated

\* A contested question gets one more attempt, by the stronger model.
MayEscalate == contested /\ ~escalated

Escalate ==
    /\ stage = "validation"
    /\ candidates > 0
    /\ ~MayRetry /\ MayEscalate
    /\ Regenerate
    /\ escalated' = TRUE

\* There is nothing to validate, a violation cannot be repaired, or no attempt is
\* left: the turn fails.
Reject ==
    /\ stage = "validation"
    /\ stage' = "failed"
    /\ UNCHANGED <<contested, escalated, retryCount, violations, candidates, reports, resolved,
                   selection, cost, executed, rounds>>

AllFatal(rs) == rs # <<>> /\ \A i \in DOMAIN rs : rs[i].fatal

\* Mutant of RouteAfterCritique: the reports do not matter.
RouteAnyway(rs) == "probing"

RouteAfterCritique(rs) == IF AllFatal(rs) THEN "generation" ELSE "probing"

OneCandidate == ~contested \/ candidates <= 1

\* Mutant of SkipCritique: what an earlier round reported stays.
SkipKeepsReports ==
    /\ stage = "critique"
    /\ OneCandidate
    /\ stage' = RouteAfterCritique(reports)
    /\ UNCHANGED <<contested, escalated, retryCount, violations, candidates, reports, resolved,
                   selection, cost, executed, rounds>>

SkipCritique ==
    /\ stage = "critique"
    /\ OneCandidate
    /\ reports' = <<>>
    /\ stage' = RouteAfterCritique(<<>>)
    /\ UNCHANGED <<contested, escalated, retryCount, violations, candidates, resolved, selection,
                   cost, executed, rounds>>

\* One report per candidate.  When all are fatal, the one escalation is granted,
\* or the turn fails because it is spent.
Critique ==
    /\ stage = "critique"
    /\ ~OneCandidate
    /\ \E rs \in [1..candidates -> Report] :
           IF AllFatal(rs) /\ escalated
           THEN stage' = "failed" /\ UNCHANGED <<reports, escalated>>
           ELSE /\ reports' = rs
                /\ escalated' = (escalated \/ AllFatal(rs))
                /\ stage' = RouteAfterCritique(rs)
    /\ UNCHANGED <<contested, retryCount, violations, candidates, resolved, selection, cost,
                   executed, rounds>>

NonFatal == {i \in DOMAIN reports : ~reports[i].fatal}

\* The reports that compete: the fatal ones only when there are no others.
Pool == IF NonFatal # {} THEN NonFatal ELSE DOMAIN reports

\* The top score of the pool leads the next by the margin.
Decisive ==
    \/ Cardinality(NonFatal) = 1
    \/ \E i \in Pool :
           /\ Pool # {i}
           /\ \A j \in Pool \ {i} : reports[i].score - reports[j].score >= SkipMargin

SkipProbing ==
    /\ stage = "probing"
    /\ OneCandidate \/ Decisive
    /\ resolved' = {}
    /\ stage' = "selection"
    /\ UNCHANGED <<contested, escalated, retryCount, violations, candidates, reports, selection,
                   cost, executed, rounds>>

\* Each probe resolves to the one candidate whose prediction the data bears out.
Probe ==
    /\ stage = "probing"
    /\ ~OneCandidate /\ ~Decisive
    /\ resolved' \in {found \in SUBSET (Index \cup {Inconclusive}) : Cardinality(found) <= MaxProbes}
    /\ stage' = "selection"
    /\ UNCHANGED <<contested, escalated, retryCount, violations, candidates, reports, selection,
                   cost, executed, rounds>>

\* candidates[index]: the position it is, none when Python raises IndexError.
PositionOf(index) ==
    IF index \in 0..(candidates - 1) THEN {index + 1}
    ELSE IF -index \in 1..candidates THEN {candidates + index + 1}
    ELSE {}

\* Every probe resolved, and to the same candidate.
ProbesAgree == \E index \in Index : resolved = {index}

Select(i, how) ==
    /\ selection' = [at |-> i, method |-> how]
    /\ stage' = "cost_gate"

\* The best score of the pool; the first one of several.
Ranked == {i \in Pool : \A j \in Pool :
              \/ reports[j].score < reports[i].score
              \/ reports[j].score = reports[i].score /\ i <= j}

Selected ==
    /\ stage = "selection"
    /\ \/ OneCandidate /\ Select(1, "single_survivor")
       \/ /\ ~OneCandidate /\ ProbesAgree
          /\ \E index \in Index :
                 /\ resolved = {index}
                 /\ IF PositionOf(index) = {}
                    THEN stage' = "crashed" /\ UNCHANGED selection
                    ELSE \E i \in PositionOf(index) : Select(i, "probe_resolved")
       \/ /\ ~OneCandidate /\ ~ProbesAgree
          /\ \E i \in Ranked : Select(i, "critique_ranked")
    /\ UNCHANGED <<contested, escalated, retryCount, violations, candidates, reports, resolved,
                   cost, executed, rounds>>

RouteAfterCostGate(c) == IF c <= Budget THEN "execution" ELSE "end"

\* The statement is rewritten and estimated.  One over budget is narrowed by a
\* model, and the narrower statement taken if it can be estimated and is cheaper.
CostGate ==
    /\ stage = "cost_gate"
    /\ \E c, narrowed \in 1..MaxCost :
           /\ cost' = IF c > Budget /\ narrowed < c THEN narrowed ELSE c
           /\ stage' = RouteAfterCostGate(cost')
    /\ UNCHANGED <<contested, escalated, retryCount, violations, candidates, reports, resolved,
                   selection, executed, rounds>>

\* Recording how the statement did is best effort and leaves no trace here.
Execute ==
    /\ stage = "execution"
    /\ executed' = TRUE
    /\ stage' = "end"
    /\ UNCHANGED <<contested, escalated, retryCount, violations, candidates, reports, resolved,
                   selection, cost, rounds>>

\* A model, an estimate or the warehouse fails.
Fail ==
    /\ \/ stage \in {"generation", "cost_gate", "execution"}
       \/ stage \in {"critique", "probing"} /\ ~OneCandidate
    /\ stage' = "failed"
    /\ UNCHANGED <<contested, escalated, retryCount, violations, candidates, reports, resolved,
                   selection, cost, executed, rounds>>

PipelineNext ==
    \/ Generate
    \/ Survive \/ Retry \/ Escalate \/ Reject
    \/ SkipCritique \/ Critique
    \/ SkipProbing \/ Probe
    \/ Selected
    \/ CostGate
    \/ Execute
    \/ Fail

PipelineSpec == PipelineInit /\ [][PipelineNext]_pipelineVars

(***************************************************************************)
(* Safety                                                                  *)
(***************************************************************************)

\* Once the escalation is spent, whichever stage spent it, no generation is
\* granted again; without it, one retry is all there is
\* (api/query_nodes.py, StaticValidationNode).
RegenerationIsBounded ==
    /\ \A i \in 1..Len(rounds) - 1 : ~rounds[i]
    /\ Len(rounds) <= 2 + (IF escalated THEN 1 ELSE 0)
    /\ escalated => contested

\* A batch in which every candidate is fatal is never selected from
\* (api/query_graph.py, route_after_critique).
SelectionHasAViableCandidate ==
    stage \in {"probing", "selection", "cost_gate", "execution"} => ~AllFatal(reports)

\* Ranking selects a candidate without a fatal defect that none such beats, and
\* the first of equals (services/query/candidate_selection_service.py).
RankingIsDeterministic ==
    selection.method = "critique_ranked" =>
        /\ ~reports[selection.at].fatal
        /\ \A j \in DOMAIN reports :
               \/ reports[j].fatal
               \/ reports[j].score < reports[selection.at].score
               \/ reports[j].score = reports[selection.at].score /\ selection.at <= j

\* Only a statement whose own cost is within the budget runs, narrowed or not
\* (api/query_graph.py, route_after_cost_gate).
RunsWithinBudget == executed => selection.at # 0 /\ cost <= Budget

\* "A fatal candidate was never going to be selected regardless of what a probe
\* found" (api/query_ambiguity_nodes.py, _critique_already_decisive).
FatalNeverSelected == selection.at \in DOMAIN reports => ~reports[selection.at].fatal
=============================================================================
