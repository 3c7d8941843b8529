---------------------------- MODULE AmbiguityGate ----------------------------
(***************************************************************************)
(* The cycle in which a turn asks its clarifying questions: the gate node, *)
(* which has every open dimension scored by a model, and the interrupt     *)
(* node, which pauses the turn until the user answers                      *)
(* (api/query_turn_nodes.py, services/query/ambiguity_gate_service.py).    *)
(*                                                                         *)
(* A dimension is its rank in AMBIGUITY_DIMENSIONS.  What the user, a rule *)
(* or the model says of one is left out: only whether it is said.  The     *)
(* model behind the gate may answer anything its schema admits, and the    *)
(* rules of the datasource, which every pass reads again, may be edited    *)
(* between two passes.                                                     *)
(***************************************************************************)
EXTENDS QueryState, Integers, FiniteSets, Sequences

CONSTANTS
    NumDimensions,  \* Len(AMBIGUITY_DIMENSIONS): six in the code
    TimeRange,      \* the dimension a schema without dates cannot express
    MaxQuestions,   \* ambiguity_max_questions: 1 as deployed; no less than
                    \* NumDimensions is None, no budget
    ContestedMin,   \* contested_min_resolved_dimensions: 2 as deployed
    MaxEdits        \* bound of the model: edits of the rules during the turn

ASSUME GateAssumption ==
    /\ NumDimensions \in Nat \ {0}
    /\ TimeRange \in 1..NumDimensions
    /\ MaxQuestions \in Nat
    /\ ContestedMin \in Nat
    /\ MaxEdits \in Nat

Dimensions == 1..NumDimensions

VARIABLES
    at,             \* the node the turn is at, or how it left the cycle; "idle" and
                    \* "planned" are before and after it
    rules,          \* the dimensions the datasource has a rule for
    inexpressible,  \* the dimensions the linked schema cannot express
    answers,        \* clarifications: the dimensions answered, in order
    scores,         \* gate_scores: what earlier passes made of each dimension
    missing,        \* the dimension the pending question is about, 0 if none
    assumed,        \* assumptions: the dimensions decided for the user
    guessed,        \* those of them that no rule decided
    edits

gateVars == <<at, rules, inexpressible, answers, scores, missing, assumed, guessed, contested, edits>>

Score == {"unknown", "low", "high"}
NoScores == [d \in Dimensions |-> "unknown"]

GateTypeOK ==
    /\ at \in {"idle", "gate", "interrupt", "paused", "planning", "planned", "failed"}
    /\ rules \subseteq Dimensions
    /\ inexpressible \subseteq {TimeRange}
    /\ answers \in Seq(Dimensions)
    /\ scores \in [Dimensions -> Score]
    /\ missing \in 0..NumDimensions
    /\ assumed \subseteq Dimensions
    /\ guessed \subseteq Dimensions
    /\ contested \in BOOLEAN
    /\ edits \in 0..MaxEdits
    /\ at \in {"interrupt", "paused"} => missing \in Dimensions

Answered == {answers[i] : i \in 1..Len(answers)}

-----------------------------------------------------------------------------
\* has_time_dimension: a schema none of whose columns is named like a business date
\* cannot express a period, and is not asked about one.
Undated == SUBSET {TimeRange}

\* Schema linking has run; nothing was asked yet.
GateInit ==
    /\ at = "gate"
    /\ rules \in SUBSET Dimensions
    /\ inexpressible \in Undated
    /\ answers = <<>>
    /\ scores = NoScores
    /\ missing = 0
    /\ assumed = {} /\ guessed = {}
    /\ contested = FALSE
    /\ edits = 0

\* Mutant of Open: an answered dimension stays open.
OpenAgain == Dimensions \ (rules \cup inexpressible)

\* open_dimensions
Open == Dimensions \ (rules \cup Answered \cup inexpressible)

\* to_score: the open dimensions no pass was confident of.
ToScore == {d \in Open : scores[d] # "high"}

\* What the model may reply: a confidence for some of the open dimensions
\* (those it omits are "unknown"; of others it speaks in vain), an assumption
\* for some of these, the dimension its question is about, and whether there
\* is a question.
Reply == [score : [Open -> Score], assumes : SUBSET Open, about : 0..NumDimensions,
          asks : BOOLEAN]

\* Mutant of Known: silence is no score at all.
KnownIfSpoken(reply) ==
    [d \in Open |-> IF reply.score[d] # "unknown" THEN reply.score[d] ELSE scores[d]]

\* known: a new score replaces the old one, and silence on a dimension never
\* scored is 0.0.
Known(reply) ==
    [d \in Open |-> IF reply.score[d] # "unknown" THEN reply.score[d]
                    ELSE IF scores[d] = "high" THEN "high" ELSE "low"]

\* dimension_scores: what the pass reports of the open dimensions.
Reported(known) == [d \in Dimensions |-> IF d \in DOMAIN known THEN known[d] ELSE "unknown"]

Under(known) == {d \in DOMAIN known : known[d] = "low"}

Enough == Len(answers) >= ContestedMin

\* The assessment is not ambiguous: on to planning, with the model's reading of
\* guesses and without the rest of what is under the threshold.
Clear(found, guesses) ==
    /\ at' = "planning"
    /\ scores' = found
    /\ missing' = 0
    /\ assumed' = rules \cup guesses
    /\ guessed' = guesses
    /\ contested' = Enough
    /\ UNCHANGED <<rules, inexpressible, answers, edits>>

\* Nothing is open: no model call, and no scores to report.
NothingOpen ==
    /\ at = "gate"
    /\ Open = {}
    /\ Clear(NoScores, {})

\* Every open dimension is known to be specified: no model call either.
NothingToScore ==
    /\ at = "gate"
    /\ Open # {} /\ ToScore = {}
    /\ Clear(Reported([d \in Open |-> scores[d]]), {})

BudgetSpent == Len(answers) >= MaxQuestions

\* The model finds every open dimension specified.
AllSpecified(reply) ==
    /\ Under(Known(reply)) = {}
    /\ Clear(Reported(Known(reply)), {})

\* No question is left to ask: what the model has an assumption for is assumed.
Assume(reply) ==
    /\ Under(Known(reply)) # {}
    /\ BudgetSpent
    /\ Clear(Reported(Known(reply)),
             {d \in Under(Known(reply)) : d \in reply.assumes /\ reply.score[d] # "unknown"})

\* Mutant of About: the model's word is taken unchecked.
AboutAnything(reply, d) == d = reply.about

\* missing: what the question is about, if that is in need of one; the first
\* dimension that is, otherwise.
About(reply, d) ==
    LET under == Under(Known(reply)) IN
    IF reply.about \in under THEN d = reply.about
                             ELSE d \in under /\ \A e \in under : d <= e

\* Ask about one dimension.  A reply without a question fails the turn.
AskAbout(reply) ==
    /\ Under(Known(reply)) # {}
    /\ ~BudgetSpent
    /\ IF reply.asks
       THEN /\ at' = "interrupt"
            /\ scores' = Reported(Known(reply))
            /\ missing' \in {d \in 0..NumDimensions : About(reply, d)}
            /\ assumed' = rules
            /\ guessed' = {}
       ELSE /\ at' = "failed"
            /\ UNCHANGED <<scores, missing, assumed, guessed>>
    /\ UNCHANGED <<rules, inexpressible, answers, contested, edits>>

Assess ==
    /\ at = "gate"
    /\ ToScore # {}
    /\ \E reply \in Reply : AllSpecified(reply) \/ Assume(reply) \/ AskAbout(reply)

\* The rules cannot be read, the model call fails, or its reply does not validate.
AssessFails ==
    /\ at = "gate"
    /\ at' = "failed"
    /\ UNCHANGED <<rules, inexpressible, answers, scores, missing, assumed, guessed,
                   contested, edits>>

\* interrupt() raises: the turn stops, and the gate's verdict is in the checkpoint.
Pause ==
    /\ at = "interrupt"
    /\ at' = "paused"
    /\ UNCHANGED <<rules, inexpressible, answers, scores, missing, assumed, guessed,
                   contested, edits>>

\* Mutant of Answer: the answer is not recorded.
AnswerLost ==
    /\ at = "paused"
    /\ at' = "gate"
    /\ UNCHANGED <<rules, inexpressible, answers, scores, missing, assumed, guessed,
                   contested, edits>>

\* The user answers: the interrupt node runs again, interrupt() returns, and the
\* answer is recorded for the dimension the checkpointed verdict names.
Answer ==
    /\ at = "paused"
    /\ at' = "gate"
    /\ answers' = Append(answers, missing)
    /\ UNCHANGED <<rules, inexpressible, scores, missing, assumed, guessed, contested, edits>>

\* Somebody applies an overlay with other rules while the turn waits or runs: the rules
\* are upserted by name, and so may come to be about other dimensions.
EditRules ==
    /\ at \in {"gate", "interrupt", "paused"}
    /\ edits < MaxEdits
    /\ edits' = edits + 1
    /\ rules' \in SUBSET Dimensions
    /\ UNCHANGED <<at, inexpressible, answers, scores, missing, assumed, guessed, contested>>

GateStep == NothingOpen \/ NothingToScore \/ Assess \/ AssessFails

GateNext == GateStep \/ Pause \/ Answer \/ EditRules

GateSpec == GateInit /\ [][GateNext]_gateVars

(***************************************************************************)
(* Safety                                                                  *)
(***************************************************************************)

\* No dimension is answered twice, nor asked about once it is answered,
\* whatever the model names and however the rules change between two passes:
\* this is what the cycle's termination rests on (api/query_graph.py).
NeverAskedTwice ==
    /\ \A i, j \in 1..Len(answers) : answers[i] = answers[j] => i = j
    /\ at \in {"interrupt", "paused"} => missing \in Dimensions \ Answered

\* A turn never pauses once it has asked MaxQuestions questions
\* (core/settings.py, ambiguity_max_questions).
QuestionsWithinBudget ==
    at \in {"interrupt", "paused"} => Len(answers) < MaxQuestions

\* When planning starts and no question was cut off by the budget, every
\* dimension is answered, decided for the user, out of the schema's reach, or
\* one the model is confident of: nothing is left to the generator to invent
\* (domain/entities/ambiguity_assessment.py).
PlanningSettlesEverything ==
    at = "planning" /\ ~BudgetSpent =>
        \A d \in Dimensions :
            d \in Answered \cup assumed \cup inexpressible \/ scores[d] = "high"

\* What the model guesses never stands beside an answer or a rule for the same
\* dimension: those are the planner's two inputs, and it is told to follow both.
GuessesYield == at = "planning" => guessed \cap (Answered \cup rules) = {}
=============================================================================
