-------------------------- MODULE GuardedExecution --------------------------
(***************************************************************************)
(* A statement's way to the warehouse: the guardrails in priority order,   *)
(* the optimizer's rewriting and cost gate with its one narrowing attempt, *)
(* the executor with its row cap; and the golden evaluation, which runs a  *)
(* reference statement beside a turn and compares the results.             *)
(*                                                                         *)
(* A statement is what the stages tell apart: what the guardrails look     *)
(* for in its tree, its own LIMIT, the columns it projects, the rows it    *)
(* would return without a LIMIT, what EXPLAIN says it costs.  A row is one *)
(* of Answers, and two of them may look alike: a result is a multiset of   *)
(* what the comparison makes of its rows.  Which rows survive a LIMIT is   *)
(* not determined.  Rewriting by sqlglot keeps the meaning and may change  *)
(* the cost.                                                               *)
(***************************************************************************)
EXTENDS Naturals, Sequences, FiniteSets

CONSTANTS
    Answers,    \* the rows statements may return
    Columns,    \* what statements may project of them
    NameOf,     \* the lower-cased name of a column: two may share one
    KeyAt,      \* what _key makes of a row's value in a column: numbers that round to the
                \* same nine places, or values that print alike, share one
    Projections,  \* the columns statements project, in their order
    RowCap,     \* query_row_cap: the LIMIT that is injected and the executor's cap
    Budget,     \* the cost budget
    Costs,      \* what EXPLAIN may estimate
    TimeoutMs,  \* query_statement_timeout_ms
    Written     \* what models write into statements, one of Traits at a time

ASSUME ExecutionAssumption ==
    /\ IsFiniteSet(Answers)
    /\ Projections \subseteq Seq(Columns)
    /\ RowCap \in Nat \ {0}
    /\ Budget \in Nat /\ Costs \subseteq Nat
    /\ TimeoutMs \in Nat
    /\ Written \subseteq {"unparsable", "other_kind", "forbidden_call", "unlisted_object",
                         "key_as_date", "placeholder"}

\* The rules by priority.
Guardrails == <<"statement_kind", "forbidden_function", "object_allowlist", "surrogate_key_date",
                "bind_parameter", "limit_injection", "statement_timeout">>

RewriteRules == {"cte_materialization", "predicate_pushdown", "projection_pruning",
                 "redundant_join_elimination"}

NoLimit == 0

VARIABLES
    step,        \* where the case is
    reference,   \* the golden case's own statement and its result
    stmt,        \* the statement on its way, and whether a model narrowed it
    ownLimit,    \* the LIMIT it was generated with
    rule,        \* the next guardrail
    estimate,    \* its estimated cost
    applied,     \* rules_applied
    result,      \* rows and the truncated flag
    outcome      \* how the case ended

execVars == <<step, reference, stmt, ownLimit, rule, estimate, applied, result, outcome>>

Statements == [has : SUBSET Written, limit : NoLimit..(RowCap + 1), columns : Projections,
               rows : SUBSET Answers, cost : Costs, narrowed : BOOLEAN]
NoResult == [rows |-> {}, truncated |-> FALSE]
Blank == [has |-> {}, limit |-> NoLimit, columns |-> <<>>, rows |-> {}, cost |-> 0,
          narrowed |-> FALSE]

\* What a model may write.
Drafts == [has : {{}} \cup {{trait} : trait \in Written}, limit : NoLimit..(RowCap + 1),
           columns : Projections, rows : SUBSET Answers, cost : Costs, narrowed : {FALSE}]

ExecInit ==
    /\ step = "reference"
    /\ reference = [columns |-> <<>>, rows |-> {}, limit |-> NoLimit, result |-> NoResult]
    /\ stmt = Blank /\ ownLimit = NoLimit
    /\ rule = 1
    /\ estimate = 0 /\ applied = {}
    /\ result = NoResult
    /\ outcome = "none"

-----------------------------------------------------------------------------
\* The results of s at the warehouse: its rows, or any LIMIT of them.
Returned(s) ==
    IF s.limit = NoLimit \/ Cardinality(s.rows) <= s.limit THEN {s.rows}
    ELSE {part \in SUBSET s.rows : Cardinality(part) = s.limit}

\* Mutant of Fetched: the row beyond the cap is remembered and not dropped.
FetchedWithTheRowBeyond(rows) ==
    {[rows |-> kept, truncated |-> Cardinality(rows) > RowCap] :
        kept \in {part \in SUBSET rows :
            Cardinality(part) = IF Cardinality(rows) > RowCap THEN RowCap + 1
                                                              ELSE Cardinality(rows)}}

\* fetchmany(row_cap + 1): the row beyond the cap is dropped and remembered.
Fetched(rows) ==
    {[rows |-> kept, truncated |-> Cardinality(rows) > RowCap] :
        kept \in {part \in SUBSET rows :
            Cardinality(part) = IF Cardinality(rows) > RowCap THEN RowCap ELSE Cardinality(rows)}}

Execute(s) == UNION {Fetched(rows) : rows \in Returned(s)}

-----------------------------------------------------------------------------
End(how) == outcome' = how /\ step' = "done"

\* The reference is executed as it is, without the guardrails; a truncated one is a
\* fixture error, and so is one that fails.
RunReference ==
    /\ step = "reference"
    /\ \/ \E cols \in Projections, rows \in SUBSET Answers, limit \in NoLimit..(RowCap + 1) :
          \E r \in Execute([rows |-> rows, limit |-> limit]) :
             /\ reference' = [columns |-> cols, rows |-> rows, limit |-> limit, result |-> r]
             /\ IF r.truncated THEN End("fixture") ELSE step' = "draft" /\ UNCHANGED outcome
       \/ End("fixture") /\ UNCHANGED reference
    /\ UNCHANGED <<stmt, ownLimit, rule, estimate, applied, result>>

\* The turn: a candidate is selected, or the turn ends without one.
Draft ==
    /\ step = "draft"
    /\ \/ \E s \in Drafts :
             stmt' = s /\ ownLimit' = s.limit /\ step' = "validate" /\ UNCHANGED outcome
       \/ End("no_result") /\ UNCHANGED <<stmt, ownLimit>>
    /\ rule' = 1
    /\ UNCHANGED <<reference, estimate, applied, result>>

(***************************************************************************)
(* What each rule finds in a statement.  After statement_kind, a statement *)
(* that does not parse is none of the other rules' business.               *)
(***************************************************************************)
Parses(s) == "unparsable" \notin s.has

StatementKind(s) == Parses(s) => "other_kind" \in s.has

\* The calls in the tree, not in its comments, that are FORBIDDEN.
ForbiddenFunction(s) == Parses(s) /\ "forbidden_call" \in s.has

\* A table that is neither in the store, with its schema or without, nor a CTE of the
\* statement itself.
ObjectAllowlist(s) == Parses(s) /\ "unlisted_object" \in s.has

\* A surrogate key under a temporal function, a cast to a date, or beside an interval.
SurrogateKeyDate(s) == Parses(s) /\ "key_as_date" \in s.has

BindParameter(s) == Parses(s) /\ "placeholder" \in s.has

\* No LIMIT on the outermost statement, whatever its subqueries have.
LimitInjection(s) == Parses(s) /\ s.limit = NoLimit

\* The executor applies the timeout; the rule sees to it that there is one.
StatementTimeout(s) == TimeoutMs = 0

Violates(name, s) ==
    CASE name = "statement_kind" -> StatementKind(s)
      [] name = "forbidden_function" -> ForbiddenFunction(s)
      [] name = "object_allowlist" -> ObjectAllowlist(s)
      [] name = "surrogate_key_date" -> SurrogateKeyDate(s)
      [] name = "bind_parameter" -> BindParameter(s)
      [] name = "limit_injection" -> LimitInjection(s)
      [] name = "statement_timeout" -> StatementTimeout(s)

\* The repair of limit_injection; the other rules have none.
Repaired(name, s) == IF name = "limit_injection" THEN [s EXCEPT !.limit = RowCap] ELSE s

\* Mutant of Rejects: a rule's second look at what it repaired is its only one.
RejectsAfterRepair(name) == name = "limit_injection" /\ Violates(name, Repaired(name, stmt))

\* A violation no repair removes, or one that is still there after it.
Rejects(name) == Violates(name, stmt) /\ Violates(name, Repaired(name, stmt))

\* _apply, one rule at a time: rejected, repaired and checked again, or passed.
ApplyRule ==
    /\ step = "validate"
    /\ rule <= Len(Guardrails)
    /\ LET name == Guardrails[rule] IN
       IF Rejects(name)
       THEN End("rejected") /\ UNCHANGED <<stmt, rule>>
       ELSE /\ stmt' = IF Violates(name, stmt) THEN Repaired(name, stmt) ELSE stmt
            /\ rule' = rule + 1
            /\ UNCHANGED <<step, outcome>>
    /\ UNCHANGED <<reference, ownLimit, estimate, applied, result>>

\* _qualify, which fails on what it cannot bind.
Qualify ==
    /\ step = "validate"
    /\ rule > Len(Guardrails)
    /\ \/ step' = "rewrite" /\ UNCHANGED outcome
       \/ End("rejected")
    /\ UNCHANGED <<reference, stmt, ownLimit, rule, estimate, applied, result>>

\* _rewrite: the passes that changed the text are recorded; with none, or when the
\* statement cannot be qualified, it is gated as it was.
Rewrite ==
    /\ step = "rewrite"
    /\ \E changed \in {{}, {"predicate_pushdown"}, RewriteRules} :
          /\ applied' = changed
          /\ IF changed = {} THEN UNCHANGED stmt
             ELSE \E c \in Costs : stmt' = [stmt EXCEPT !.cost = c]
    /\ step' = "estimate"
    /\ UNCHANGED <<reference, ownLimit, rule, estimate, result, outcome>>

\* The cost gate.  A statement EXPLAIN rejects ends the turn.
Estimate ==
    /\ step = "estimate"
    /\ \/ /\ estimate' = stmt.cost
          /\ step' = IF stmt.cost <= Budget THEN "execute" ELSE "narrow"
          /\ UNCHANGED outcome
       \/ End("failed") /\ UNCHANGED estimate
    /\ UNCHANGED <<reference, stmt, ownLimit, rule, applied, result>>

Gate(cost) ==
    IF cost <= Budget THEN step' = "execute" /\ UNCHANGED outcome ELSE End("over_budget")

\* _decompose: what the model wrote is used when it has a SELECT, and EXPLAIN accepts it
\* and finds it cheaper.  The guardrails do not see it.  A model that is not reached
\* fails the turn.
Narrow ==
    /\ step = "narrow"
    /\ \/ \E s \in Drafts :
             /\ Parses(s)
             /\ s.cost < estimate
             /\ stmt' = [s EXCEPT !.narrowed = TRUE]
             /\ estimate' = s.cost
             /\ Gate(s.cost)
       \/ \E how \in {"over_budget", "failed"} : End(how) /\ UNCHANGED <<stmt, estimate>>
    /\ UNCHANGED <<reference, ownLimit, rule, applied, result>>

\* GuardedExecutionService.execute, under the timeout: a statement the warehouse refuses,
\* or does not finish in time, fails the turn.
RunStatement ==
    /\ step = "execute"
    /\ \/ /\ result' \in Execute(stmt)
          /\ step' = "compare"
          /\ UNCHANGED outcome
       \/ End("failed") /\ UNCHANGED result
    /\ UNCHANGED <<reference, stmt, ownLimit, rule, estimate, applied>>

(***************************************************************************)
(* compare: columns by lower-cased name, rows as multisets of keys.        *)
(***************************************************************************)
NamesIn(columns) == {NameOf[columns[i]] : i \in DOMAIN columns}

\* index(name): the first column of that name.
Index(columns, name) ==
    CHOOSE i \in DOMAIN columns :
        /\ NameOf[columns[i]] = name
        /\ \A k \in DOMAIN columns : NameOf[columns[k]] = name => i <= k

\* The reference's row as it is, and the generated one permuted into the reference's order.
ReferenceKey(r) == [i \in DOMAIN reference.columns |-> KeyAt[r][reference.columns[i]]]
GeneratedKey(r) ==
    [i \in DOMAIN reference.columns |->
        KeyAt[r][stmt.columns[Index(stmt.columns, NameOf[reference.columns[i]])]]]

\* How often a key is among the rows of each result.
ReferenceCount(key) == Cardinality({r \in reference.result.rows : ReferenceKey(r) = key})
GeneratedCount(key) == Cardinality({r \in result.rows : GeneratedKey(r) = key})

\* Mutant of Matches: results are compared by their length.
SameLength ==
    /\ NamesIn(reference.columns) = NamesIn(stmt.columns)
    /\ Cardinality(result.rows) = Cardinality(reference.result.rows)

Matches ==
    /\ NamesIn(reference.columns) = NamesIn(stmt.columns)
    /\ \A key \in {ReferenceKey(r) : r \in reference.result.rows}
                  \cup {GeneratedKey(r) : r \in result.rows} :
          ReferenceCount(key) = GeneratedCount(key)

\* The verdict.
Compare ==
    /\ step = "compare"
    /\ End(IF Matches THEN "passed" ELSE "mismatch")
    /\ UNCHANGED <<reference, stmt, ownLimit, rule, estimate, applied, result>>

ExecNext ==
    \/ RunReference \/ Draft \/ ApplyRule \/ Qualify \/ Rewrite \/ Estimate \/ Narrow
    \/ RunStatement \/ Compare

ExecSpec == ExecInit /\ [][ExecNext]_execVars

-----------------------------------------------------------------------------
ExecTypeOK ==
    /\ stmt \in Statements \cup {Blank}
    /\ rule \in 1..(Len(Guardrails) + 1)
    /\ applied \subseteq RewriteRules
    /\ Cardinality(result.rows) <= RowCap
    /\ outcome \in {"none", "fixture", "no_result", "rejected", "failed", "over_budget", "passed",
                    "mismatch"}

Ran == step = "compare" \/ outcome \in {"passed", "mismatch"}

\* No rule would object to what reaches the warehouse - not one that ran before a later
\* rule's repair either - and it is within the budget: the estimate was of this text,
\* after every rewriting.  The exception is a statement the optimizer's model wrote,
\* which no guardrail sees (services/query/optimization_service.py): NothingRunsUnguarded
\* is without it, and does not hold.
OnlyGuardedRuns ==
    Ran =>
        /\ stmt.cost <= Budget
        /\ \/ stmt.narrowed
           \/ \A i \in DOMAIN Guardrails : ~Violates(Guardrails[i], stmt)

\* A statement's answer, whatever the order of its columns and rows: a row is read as a
\* function from names to keys, and counts as often as it comes.
Reading(s, r) == [name \in NamesIn(s.columns) |-> KeyAt[r][s.columns[Index(s.columns, name)]]]
Times(s, reading) == Cardinality({r \in s.rows : Reading(s, r) = reading})
SameAnswer(s, t) ==
    /\ NamesIn(s.columns) = NamesIn(t.columns)
    /\ \A reading \in {Reading(s, r) : r \in s.rows} \cup {Reading(t, r) : r \in t.rows} :
          Times(s, reading) = Times(t, reading)

NamesOnce(columns) ==
    \A i, k \in DOMAIN columns : NameOf[columns[i]] = NameOf[columns[k]] => i = k

CutByLimit(s) == s.limit # NoLimit /\ s.limit < Cardinality(s.rows)

\* A golden case passes only if its two statements have the same answer.  Three things
\* are excepted, under which a case may pass by chance: a LIMIT that cut the reference;
\* a LIMIT or the cap that cut the turn's statement; a name that two columns of one
\* statement share, of which the comparison reads the first
\* (services/eval/result_comparator.py, golden_evaluation_service.py).
PassedMeansAgreed ==
    outcome = "passed" =>
        \/ SameAnswer(reference, stmt)
        \/ CutByLimit(reference)
        \/ CutByLimit(stmt) \/ Cardinality(stmt.rows) > RowCap
        \/ ~NamesOnce(reference.columns) \/ ~NamesOnce(stmt.columns)

\* "`truncated` is set by the executor when the warehouse returned more rows than the
\* row cap allowed, so the CLI can say so rather than silently presenting a partial
\* answer as a whole one" (domain/entities/execution_result.py).  It does not hold
\* (README.md): the injected LIMIT is the executor's cap and hides the row beyond it.
PartialAnswersAreMarked ==
    Ran /\ ownLimit = NoLimit /\ Cardinality(stmt.rows) > RowCap => result.truncated

\* "Generated SQL must clear the GuardrailRegistry before execution"
\* (docs/superpowers/specs/2026-09-05-genql-design.md), whoever generated it.
NothingRunsUnguarded ==
    Ran => \A i \in DOMAIN Guardrails : ~Violates(Guardrails[i], stmt)
=============================================================================
