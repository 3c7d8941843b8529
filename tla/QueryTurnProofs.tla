---------------------------- MODULE QueryTurnProofs ----------------------------
(***************************************************************************)
(* Proofs about a turn: its two cycles each on its own (AmbiguityGate,     *)
(* CandidatePipeline), and then the whole of it (QueryTurn), for any       *)
(* dimensions, budgets, candidates, scales and number of turns.            *)
(*                                                                         *)
(* The whole keeps both cycles' invariants, because each of its steps is a *)
(* step of one of them or leaves it alone or starts it over, and because   *)
(* Whereabouts says which part has the turn.  Gathered and Trail add what  *)
(* the streams know of it.                                                 *)
(***************************************************************************)
EXTENDS QueryTurn, SequenceTheorems, TLAPS

(***************************************************************************)
(* The gate's cycle                                                        *)
(***************************************************************************)

\* What the pass reports has the type of gate_scores, and everything under the
\* threshold was open.
LEMMA ReplyTypes ==
    ASSUME GateTypeOK, NEW reply \in Reply
    PROVE  /\ DOMAIN Known(reply) = Open
           /\ \A d \in Open : Known(reply)[d] \in {"low", "high"}
           /\ Reported(Known(reply)) \in [Dimensions -> Score]
           /\ \A d \in Open : Reported(Known(reply))[d] = Known(reply)[d]
           /\ Under(Known(reply)) \subseteq Open
           /\ \A d \in Open \ Under(Known(reply)) : Known(reply)[d] = "high"
<1>1. Open \subseteq Dimensions BY DEF Open
<1>2. reply.score \in [Open -> Score] BY DEF Reply
<1>3. DOMAIN Known(reply) = Open BY DEF Known
<1>4. ASSUME NEW d \in Open PROVE Known(reply)[d] \in {"low", "high"}
  BY <1>2 DEF Known, Score
<1>5. Reported(Known(reply)) \in [Dimensions -> Score]
  BY <1>1, <1>3, <1>4 DEF Reported, Score
<1>6. \A d \in Open : Reported(Known(reply))[d] = Known(reply)[d]
  BY <1>1, <1>3 DEF Reported
<1>7. Under(Known(reply)) \subseteq Open BY <1>3 DEF Under
<1>8. \A d \in Open \ Under(Known(reply)) : Known(reply)[d] = "high"
  BY <1>3, <1>4 DEF Under
<1> QED BY <1>3, <1>4, <1>5, <1>6, <1>7, <1>8

\* The inductive invariant: no part of it is inductive without the types.
GateInv ==
    /\ GateTypeOK
    /\ NeverAskedTwice
    /\ QuestionsWithinBudget
    /\ PlanningSettlesEverything
    /\ GuessesYield

LEMMA GateInitInv == GateInit => GateInv
<1> SUFFICES ASSUME GateInit PROVE GateInv OBVIOUS
<1>1. GateTypeOK
  <2>1. scores \in [Dimensions -> Score] BY DEF GateInit, NoScores, Score
  <2>2. answers \in Seq(Dimensions) BY DEF GateInit
  <2>3. missing \in 0..NumDimensions /\ edits \in 0..MaxEdits BY GateAssumption DEF GateInit
  <2>4. rules \subseteq Dimensions /\ inexpressible \subseteq {TimeRange} BY DEF GateInit, Undated
  <2> QED BY <2>1, <2>2, <2>3, <2>4 DEF GateInit, GateTypeOK
<1>2. NeverAskedTwice BY DEF GateInit, NeverAskedTwice
<1> QED BY <1>1, <1>2 DEF GateInit, GateInv, QuestionsWithinBudget, PlanningSettlesEverything, GuessesYield

\* Going on to planning keeps the invariant, provided the guesses are about open
\* dimensions and only the budget leaves one unsettled.
LEMMA ClearKeepsInv ==
    ASSUME GateInv, NEW found \in [Dimensions -> Score], NEW guesses \in SUBSET Open,
           Clear(found, guesses),
           ~BudgetSpent => \A d \in Open : d \in guesses \/ found[d] = "high"
    PROVE  GateInv'
<1> USE DEF Clear, GateInv
<1>1. /\ at' = "planning" /\ scores' = found /\ missing' = 0 /\ assumed' = rules \cup guesses
      /\ guessed' = guesses /\ answers' = answers /\ rules' = rules
      /\ inexpressible' = inexpressible /\ edits' = edits
  OBVIOUS
<1>2. contested' \in BOOLEAN BY DEF Enough
<1>3. Open \subseteq Dimensions BY DEF Open
<1>4. GateTypeOK' BY <1>1, <1>2, <1>3, GateAssumption DEF GateTypeOK
<1>5. Answered' = Answered BY <1>1 DEF Answered
<1>6. NeverAskedTwice' BY <1>1, <1>5 DEF NeverAskedTwice
<1>7. QuestionsWithinBudget' BY <1>1 DEF QuestionsWithinBudget
<1>8. PlanningSettlesEverything'
  <2>1. BudgetSpent' <=> BudgetSpent BY <1>1 DEF BudgetSpent
  <2> SUFFICES ASSUME ~BudgetSpent, NEW d \in Dimensions
               PROVE  \/ d \in Answered' \cup assumed' \cup inexpressible'
                      \/ scores'[d] = "high"
    BY <2>1 DEF PlanningSettlesEverything
  <2>2. CASE d \in Open BY <2>2, <1>1
  <2>3. CASE d \notin Open BY <2>3, <1>1, <1>5 DEF Open
  <2> QED BY <2>2, <2>3
<1>9. GuessesYield' BY <1>1, <1>5 DEF GuessesYield, Open
<1> QED BY <1>4, <1>6, <1>7, <1>8, <1>9

\* Nothing that planning reads changes while the turn is elsewhere.
LEMMA ElsewhereKeepsInv ==
    ASSUME GateInv, GateTypeOK', NeverAskedTwice', QuestionsWithinBudget', at' # "planning"
    PROVE  GateInv'
BY DEF GateInv, PlanningSettlesEverything, GuessesYield

LEMMA AskAboutKeepsInv ==
    ASSUME GateInv, at = "gate", NEW reply \in Reply, AskAbout(reply)
    PROVE  GateInv'
<1> USE DEF GateInv
<1>1. Open \subseteq Dimensions BY DEF Open
<1>2. /\ rules' = rules /\ inexpressible' = inexpressible /\ answers' = answers
      /\ contested' = contested /\ edits' = edits
  BY DEF AskAbout
<1>3. Answered' = Answered BY <1>2 DEF Answered
<1>4. CASE reply.asks
  <2>1. /\ at' = "interrupt" /\ scores' = Reported(Known(reply)) /\ assumed' = rules
        /\ guessed' = {} /\ Len(answers) < MaxQuestions
    BY <1>4, GateAssumption DEF AskAbout, BudgetSpent, GateTypeOK
  <2>2. missing' \in Under(Known(reply)) BY <1>4 DEF AskAbout, About
  <2>3. missing' \in Open BY <2>2, ReplyTypes
  <2>4. GateTypeOK'
    <3>1. missing' \in Dimensions BY <2>3, <1>1
    <3>2. scores' \in [Dimensions -> Score] BY <2>1, ReplyTypes
    <3> QED BY <3>1, <3>2, <2>1, <1>2 DEF GateTypeOK, Dimensions
  <2>5. NeverAskedTwice' BY <2>3, <1>1, <1>2, <1>3 DEF NeverAskedTwice, Open
  <2>6. QuestionsWithinBudget' BY <2>1, <1>2 DEF QuestionsWithinBudget
  <2> QED BY <2>1, <2>4, <2>5, <2>6, ElsewhereKeepsInv
<1>5. CASE ~reply.asks
  <2>1. at' = "failed" /\ UNCHANGED <<scores, missing, assumed, guessed>>
    BY <1>5 DEF AskAbout
  <2>2. GateTypeOK' BY <2>1, <1>2 DEF GateTypeOK
  <2>3. NeverAskedTwice' BY <2>1, <1>2, <1>3 DEF NeverAskedTwice
  <2>4. QuestionsWithinBudget' BY <2>1 DEF QuestionsWithinBudget
  <2> QED BY <2>1, <2>2, <2>3, <2>4, ElsewhereKeepsInv
<1> QED BY <1>4, <1>5

LEMMA AssessKeepsInv == ASSUME GateInv, Assess PROVE GateInv'
<1>1. PICK reply \in Reply : AllSpecified(reply) \/ Assume(reply) \/ AskAbout(reply)
  BY DEF Assess
<1>2. CASE AllSpecified(reply)
  <2>1. \A d \in Open : Reported(Known(reply))[d] = "high"
    BY <1>2, ReplyTypes DEF GateInv, AllSpecified
  <2> QED BY <2>1, <1>2, ReplyTypes, ClearKeepsInv DEF GateInv, AllSpecified
<1>3. CASE Assume(reply)
  <2> DEFINE guesses == {d \in Under(Known(reply)) :
                            d \in reply.assumes /\ reply.score[d] # "unknown"}
  <2>1. guesses \in SUBSET Open BY ReplyTypes DEF GateInv
  <2>2. BudgetSpent /\ Clear(Reported(Known(reply)), guesses) BY <1>3 DEF Assume
  <2>3. Reported(Known(reply)) \in [Dimensions -> Score] BY ReplyTypes DEF GateInv
  <2> HIDE DEF guesses
  <2> QED BY <2>1, <2>2, <2>3, ClearKeepsInv
<1>4. CASE AskAbout(reply) BY <1>4, AskAboutKeepsInv DEF Assess
<1> QED BY <1>1, <1>2, <1>3, <1>4

\* The answer is about the one dimension that was asked about, which no earlier
\* answer is about.
LEMMA AnswerKeepsInv == ASSUME GateInv, Answer PROVE GateInv'
<1> USE DEF GateInv
<1>1. /\ answers' = Append(answers, missing) /\ at' = "gate" /\ at = "paused"
      /\ missing \in Dimensions
      /\ UNCHANGED <<rules, inexpressible, scores, missing, assumed, guessed, contested, edits>>
  BY DEF Answer, GateTypeOK
<1>2. answers \in Seq(Dimensions) BY DEF GateTypeOK
<1>3. GateTypeOK' BY <1>1, <1>2 DEF GateTypeOK
<1>4. \A i \in 1..Len(answers) : answers[i] # missing
  BY <1>1 DEF NeverAskedTwice, Answered
<1>5. /\ Len(answers') = Len(answers) + 1
      /\ answers'[Len(answers) + 1] = missing
      /\ \A i \in 1..Len(answers) : answers'[i] = answers[i]
  BY <1>1, <1>2
<1>6. ASSUME NEW i \in 1..Len(answers'), NEW j \in 1..Len(answers'), answers'[i] = answers'[j]
      PROVE  i = j
  <2>1. Len(answers) \in Nat BY <1>2
  <2>2. CASE i \in 1..Len(answers) /\ j \in 1..Len(answers)
    BY <2>2, <1>5, <1>6 DEF NeverAskedTwice
  <2>3. CASE i = Len(answers) + 1 /\ j = Len(answers) + 1 BY <2>3
  <2>4. CASE i = Len(answers) + 1 /\ j \in 1..Len(answers) BY <2>4, <1>4, <1>5, <1>6
  <2>5. CASE j = Len(answers) + 1 /\ i \in 1..Len(answers) BY <2>5, <1>4, <1>5, <1>6
  <2> QED BY <2>1, <2>2, <2>3, <2>4, <2>5, <1>5
<1>7. NeverAskedTwice' BY <1>6, <1>1 DEF NeverAskedTwice
<1>8. QuestionsWithinBudget' BY <1>1 DEF QuestionsWithinBudget
<1> QED BY <1>1, <1>3, <1>7, <1>8, ElsewhereKeepsInv

LEMMA GateNextKeepsInv == GateInv /\ [GateNext]_gateVars => GateInv'
<1> SUFFICES ASSUME GateInv, [GateNext]_gateVars PROVE GateInv' OBVIOUS
<1>1. CASE NothingOpen
  <2>1. NoScores \in [Dimensions -> Score] BY DEF NoScores, Score
  <2> QED BY <1>1, <2>1, ClearKeepsInv DEF NothingOpen
<1>2. CASE NothingToScore
  <2> DEFINE known == [d \in Open |-> scores[d]]
  <2>1. \A d \in Open : scores[d] = "high" BY <1>2 DEF NothingToScore, ToScore
  <2>2. Reported(known) \in [Dimensions -> Score] /\ \A d \in Open : Reported(known)[d] = "high"
    BY <2>1 DEF Reported, Score, Open
  <2>3. Clear(Reported(known), {}) BY <1>2 DEF NothingToScore
  <2> HIDE DEF known
  <2> QED BY <2>2, <2>3, ClearKeepsInv
<1>3. CASE Assess BY <1>3, AssessKeepsInv
<1>4. CASE AssessFails
  <2>1. at' = "failed" /\ UNCHANGED <<rules, inexpressible, answers, scores, missing, assumed,
                                      guessed, contested, edits>>
    BY <1>4 DEF AssessFails
  <2>2. GateTypeOK' /\ NeverAskedTwice' /\ QuestionsWithinBudget'
    BY <2>1 DEF GateInv, GateTypeOK, NeverAskedTwice, Answered, QuestionsWithinBudget
  <2> QED BY <2>1, <2>2, ElsewhereKeepsInv
<1>5. CASE Pause
  <2>1. /\ at = "interrupt" /\ at' = "paused"
        /\ UNCHANGED <<rules, inexpressible, answers, scores, missing, assumed, guessed,
                       contested, edits>>
    BY <1>5 DEF Pause
  <2>2. GateTypeOK' /\ NeverAskedTwice' /\ QuestionsWithinBudget'
    BY <2>1 DEF GateInv, GateTypeOK, NeverAskedTwice, Answered, QuestionsWithinBudget
  <2> QED BY <2>1, <2>2, ElsewhereKeepsInv
<1>6. CASE Answer BY <1>6, AnswerKeepsInv
<1>7. CASE EditRules
  <2>1. /\ at \in {"gate", "interrupt", "paused"} /\ edits < MaxEdits /\ edits' = edits + 1
        /\ rules' \in SUBSET Dimensions
        /\ UNCHANGED <<at, inexpressible, answers, scores, missing, assumed, guessed, contested>>
    BY <1>7 DEF EditRules
  <2>2. GateTypeOK' BY <2>1, GateAssumption DEF GateInv, GateTypeOK
  <2>3. NeverAskedTwice' /\ QuestionsWithinBudget'
    BY <2>1 DEF GateInv, NeverAskedTwice, Answered, QuestionsWithinBudget
  <2> QED BY <2>1, <2>2, <2>3, ElsewhereKeepsInv
<1>8. CASE UNCHANGED gateVars
  BY <1>8 DEF gateVars, GateInv, GateTypeOK, NeverAskedTwice, Answered, QuestionsWithinBudget,
              PlanningSettlesEverything, BudgetSpent, GuessesYield
<1> QED BY <1>1, <1>2, <1>3, <1>4, <1>5, <1>6, <1>7, <1>8 DEF GateNext, GateStep

LEMMA GateInvariance == GateSpec => []GateInv
BY GateInitInv, GateNextKeepsInv, PTL DEF GateSpec

\* Every variable keeps its type, and a pending question is always about some
\* dimension.
THEOREM GateTypeCorrect == GateSpec => []GateTypeOK
BY GateInvariance, PTL DEF GateInv

\* No dimension is asked about twice, whatever the model names and however the
\* rules change: with NumDimensions dimensions there are at most as many rounds.
THEOREM AskedOnce == GateSpec => []NeverAskedTwice
BY GateInvariance, PTL DEF GateInv

\* A turn pauses only while questions are left in its budget.
THEOREM BudgetKept == GateSpec => []QuestionsWithinBudget
BY GateInvariance, PTL DEF GateInv

\* Unless the budget cut the questions off, planning starts with every dimension
\* answered, decided, out of reach, or found specified.
THEOREM PlanningSettled == GateSpec => []PlanningSettlesEverything
BY GateInvariance, PTL DEF GateInv

\* No guess of the model reaches the planner beside an answer or a rule for the
\* same dimension.
THEOREM GuessesGiveWay == GateSpec => []GuessesYield
BY GateInvariance, PTL DEF GateInv

-----------------------------------------------------------------------------
(***************************************************************************)
(* From candidate generation to execution                                  *)
(*                                                                         *)
(* RegenerationIsBounded speaks of the history alone and is not inductive: *)
(* Attempts ties the history to what the nodes decide by, retry_count and  *)
(* escalated.  Choices says what each stage may rely on when it reads a    *)
(* candidate by its index.                                                 *)
(***************************************************************************)

\* How many generations there were, by what was granted.
Attempts ==
    /\ escalated => contested
    /\ \A i \in 1..Len(rounds) - 1 : ~rounds[i]
    /\ ~escalated \/ stage = "generation" => \A i \in 1..Len(rounds) : ~rounds[i]
    /\ ~escalated => /\ retryCount <= 1
                     /\ stage # "generation" => Len(rounds) <= retryCount + 1
                     /\ stage = "generation" =>
                            retryCount = 0 /\ Len(rounds) <= IF violations THEN 1 ELSE 0
    /\ escalated => /\ Len(rounds) <= 3
                    /\ stage = "generation" => retryCount <= 1 /\ Len(rounds) <= 2

\* What is known of the candidates, stage by stage.
Choices ==
    /\ stage \in {"probing", "selection"} => DOMAIN reports \subseteq 1..candidates
    /\ stage \in {"idle", "generation", "validation", "critique", "probing", "selection"} =>
           selection = NoSelection
    /\ stage \in {"cost_gate", "execution", "end"} => selection.at # 0
    /\ stage = "execution" => cost <= Budget
    /\ stage = "end" => executed \/ cost > Budget
    /\ executed => stage = "end"

PipelineInv == /\ PipelineTypeOK
       /\ Attempts
       /\ Choices
       /\ SelectionHasAViableCandidate
       /\ RankingIsDeterministic
       /\ RunsWithinBudget

\* The history is bounded because the attempts are.
LEMMA AttemptsAreBounded == PipelineTypeOK /\ Attempts => RegenerationIsBounded
BY DEF PipelineTypeOK, Attempts, RegenerationIsBounded

LEMMA PipelineInitInv == PipelineInit => PipelineInv
<1> SUFFICES ASSUME PipelineInit PROVE PipelineInv OBVIOUS
<1>1. PipelineTypeOK
  <2>1. reports \in Seq(Report) /\ rounds \in Seq(BOOLEAN) BY DEF PipelineInit
  <2>2. selection \in [at : 0..MaxCandidates, method : Methods]
    BY PipelineAssumption DEF PipelineInit, NoSelection, Methods
  <2>3. candidates \in 0..MaxCandidates /\ cost \in 0..MaxCost /\ retryCount \in 0..2
    BY PipelineAssumption DEF PipelineInit
  <2>4. stage \in Running \cup Ended BY DEF PipelineInit, Running
  <2> QED BY <2>1, <2>2, <2>3, <2>4 DEF PipelineInit, PipelineTypeOK
<1>2. Attempts BY DEF PipelineInit, Attempts
<1>3. Choices BY DEF PipelineInit, Choices
<1>4. SelectionHasAViableCandidate BY DEF PipelineInit, SelectionHasAViableCandidate
<1>5. RankingIsDeterministic BY DEF PipelineInit, RankingIsDeterministic, NoSelection
<1>6. RunsWithinBudget BY DEF PipelineInit, RunsWithinBudget
<1> QED BY <1>1, <1>2, <1>3, <1>4, <1>5, <1>6 DEF PipelineInv

-----------------------------------------------------------------------------
\* Until a candidate is selected, nothing is claimed of the selection, and until
\* critique nothing of the reports.
LEMMA EarlyKeepsChoices ==
    ASSUME PipelineInv, stage \in {"generation", "validation", "critique"},
           stage' \in {"generation", "validation", "critique", "failed"},
           UNCHANGED <<selection, executed>>
    PROVE  /\ Choices' /\ SelectionHasAViableCandidate'
           /\ RankingIsDeterministic' /\ RunsWithinBudget'
<1>1. selection = NoSelection /\ executed = FALSE
  BY DEF PipelineInv, PipelineTypeOK, Choices
<1>2. Choices' BY <1>1 DEF Choices
<1>3. SelectionHasAViableCandidate' BY DEF SelectionHasAViableCandidate
<1>4. RankingIsDeterministic' BY <1>1 DEF RankingIsDeterministic, NoSelection
<1>5. RunsWithinBudget' BY <1>1 DEF RunsWithinBudget
<1> QED BY <1>2, <1>3, <1>4, <1>5

LEMMA GenerateKeepsInv ==
    ASSUME PipelineInv, Generate
    PROVE  PipelineInv'
<1>1. Choices' /\ SelectionHasAViableCandidate' /\ RankingIsDeterministic' /\ RunsWithinBudget'
  BY EarlyKeepsChoices DEF Generate
<1>2. /\ stage = "generation" /\ stage' = "validation"
      /\ UNCHANGED <<contested, escalated, violations, reports, resolved, selection, cost, executed>>
      /\ retryCount' = retryCount + (IF violations THEN 1 ELSE 0)
  BY DEF Generate
<1>3. Len(rounds) <= 2 /\ rounds' = Append(rounds, escalated) /\ rounds' \in Seq(BOOLEAN)
  <2>1. rounds \in Seq(BOOLEAN) /\ Len(rounds) <= 2
    BY <1>2 DEF PipelineInv, PipelineTypeOK, Attempts
  <2>2. rounds' = Append(rounds, escalated) BY <2>1 DEF Generate, HistoryLength
  <2>3. escalated \in BOOLEAN BY DEF PipelineInv, PipelineTypeOK
  <2> QED BY <2>1, <2>2, <2>3, AppendProperties
<1>4. Len(rounds') = Len(rounds) + 1 /\ \A i \in 1..Len(rounds) : rounds'[i] = rounds[i]
  BY <1>3 DEF PipelineInv, PipelineTypeOK
<1>5. rounds'[Len(rounds) + 1] = escalated
  BY <1>3 DEF PipelineInv, PipelineTypeOK
<1>6. candidates' \in 0..MaxCandidates
  BY PipelineAssumption DEF Generate, PipelineInv, PipelineTypeOK
<1>7. retryCount' \in 0..2 BY <1>2 DEF PipelineInv, PipelineTypeOK, Attempts
<1>8. PipelineTypeOK' BY <1>2, <1>3, <1>6, <1>7 DEF PipelineInv, PipelineTypeOK, Running
<1>9. Attempts'
  <2>1. Len(rounds) \in Nat BY DEF PipelineInv, PipelineTypeOK
  <2>2. \A i \in 1..Len(rounds) : ~rounds'[i]
    <3>1. \A i \in 1..Len(rounds) : ~rounds[i] BY <1>2 DEF PipelineInv, Attempts
    <3> QED BY <3>1, <1>4
  <2>3. \A i \in 1..Len(rounds') - 1 : ~rounds'[i] BY <1>4, <2>1, <2>2
  <2>4. ~escalated' => \A i \in 1..Len(rounds') : ~rounds'[i] BY <1>2, <1>4, <1>5, <2>1, <2>2
  <2>5. escalated' => contested' /\ Len(rounds') <= 3
    BY <1>2, <1>4, <2>1 DEF PipelineInv, Attempts
  <2>6. ~escalated' => retryCount' <= 1 /\ Len(rounds') <= retryCount' + 1
    BY <1>2, <1>4, <2>1 DEF PipelineInv, Attempts
  <2> QED BY <1>2, <2>3, <2>4, <2>5, <2>6 DEF Attempts
<1> QED BY <1>1, <1>8, <1>9 DEF PipelineInv

LEMMA SurviveKeepsInv ==
    ASSUME PipelineInv, Survive
    PROVE  PipelineInv'
<1>1. Choices' /\ SelectionHasAViableCandidate' /\ RankingIsDeterministic' /\ RunsWithinBudget'
  BY EarlyKeepsChoices DEF Survive
<1>2. PipelineTypeOK'
  <2>1. candidates' \in 0..MaxCandidates
    <3>1. candidates \in 0..MaxCandidates /\ candidates' \in 1..candidates
      BY DEF Survive, PipelineInv, PipelineTypeOK
    <3> QED BY <3>1, PipelineAssumption
  <2> QED BY <2>1 DEF Survive, PipelineInv, PipelineTypeOK, Running
<1>3. Attempts' BY DEF Survive, PipelineInv, PipelineTypeOK, Attempts
<1> QED BY <1>1, <1>2, <1>3 DEF PipelineInv

LEMMA RetryKeepsInv ==
    ASSUME PipelineInv, Retry
    PROVE  PipelineInv'
<1>1. Choices' /\ SelectionHasAViableCandidate' /\ RankingIsDeterministic' /\ RunsWithinBudget'
  BY EarlyKeepsChoices DEF Retry, Regenerate
<1>2. PipelineTypeOK' BY PipelineAssumption DEF Retry, Regenerate, PipelineInv, PipelineTypeOK, Running
<1>3. Attempts' BY DEF Retry, Regenerate, MayRetry, PipelineInv, PipelineTypeOK, Attempts
<1> QED BY <1>1, <1>2, <1>3 DEF PipelineInv

LEMMA EscalateKeepsInv ==
    ASSUME PipelineInv, Escalate
    PROVE  PipelineInv'
<1>1. Choices' /\ SelectionHasAViableCandidate' /\ RankingIsDeterministic' /\ RunsWithinBudget'
  BY EarlyKeepsChoices DEF Escalate, Regenerate
<1>2. PipelineTypeOK' BY PipelineAssumption DEF Escalate, Regenerate, PipelineInv, PipelineTypeOK, Running
<1>3. Attempts' BY DEF Escalate, Regenerate, MayEscalate, PipelineInv, PipelineTypeOK, Attempts
<1> QED BY <1>1, <1>2, <1>3 DEF PipelineInv

LEMMA RejectKeepsInv ==
    ASSUME PipelineInv, Reject
    PROVE  PipelineInv'
<1>1. Choices' /\ SelectionHasAViableCandidate' /\ RankingIsDeterministic' /\ RunsWithinBudget'
  BY EarlyKeepsChoices DEF Reject
<1>2. PipelineTypeOK' BY DEF Reject, PipelineInv, PipelineTypeOK, Ended
<1>3. Attempts' BY DEF Reject, PipelineInv, PipelineTypeOK, Attempts
<1> QED BY <1>1, <1>2, <1>3 DEF PipelineInv

-----------------------------------------------------------------------------
\* A stage that leaves the attempts alone and does not go back to generation.
LEMMA ForwardKeepsAttempts ==
    ASSUME PipelineInv, stage # "generation" \/ stage' = "failed", stage' # "generation",
           UNCHANGED <<contested, escalated, retryCount, rounds>>
    PROVE  Attempts'
BY DEF PipelineInv, PipelineTypeOK, Attempts

LEMMA SkipCritiqueKeepsInv ==
    ASSUME PipelineInv, SkipCritique
    PROVE  PipelineInv'
<1>1. /\ stage = "critique" /\ stage' = "probing" /\ reports' = <<>>
      /\ UNCHANGED <<contested, escalated, retryCount, violations, candidates, resolved,
                     selection, cost, executed, rounds>>
  BY DEF SkipCritique, RouteAfterCritique, AllFatal
<1>2. PipelineTypeOK' BY <1>1 DEF PipelineInv, PipelineTypeOK, Running
<1>3. Attempts' BY <1>1, ForwardKeepsAttempts
<1>4. Choices' BY <1>1 DEF PipelineInv, Choices
<1>5. SelectionHasAViableCandidate' BY <1>1 DEF SelectionHasAViableCandidate, AllFatal
<1>6. RankingIsDeterministic' /\ RunsWithinBudget'
  BY <1>1 DEF PipelineInv, Choices, NoSelection, RankingIsDeterministic, RunsWithinBudget
<1> QED BY <1>2, <1>3, <1>4, <1>5, <1>6 DEF PipelineInv

LEMMA CritiqueKeepsInv ==
    ASSUME PipelineInv, Critique
    PROVE  PipelineInv'
<1>1. PICK rs \in [1..candidates -> Report] :
          IF AllFatal(rs) /\ escalated
          THEN stage' = "failed" /\ UNCHANGED <<reports, escalated>>
          ELSE /\ reports' = rs
               /\ escalated' = (escalated \/ AllFatal(rs))
               /\ stage' = RouteAfterCritique(rs)
  BY DEF Critique
<1>2. /\ stage = "critique" /\ ~OneCandidate
      /\ UNCHANGED <<contested, retryCount, violations, candidates, resolved, selection, cost,
                     executed, rounds>>
  BY DEF Critique
<1>3. rs \in Seq(Report) /\ DOMAIN rs = 1..candidates
  <2>1. candidates \in Nat BY DEF PipelineInv, PipelineTypeOK
  <2> QED BY <1>1, <2>1, SeqDef
<1>4. contested BY <1>2 DEF OneCandidate
<1>5. CASE AllFatal(rs) /\ escalated
  <2>1. Choices' /\ SelectionHasAViableCandidate' /\ RankingIsDeterministic' /\ RunsWithinBudget'
    BY <1>1, <1>2, <1>5, EarlyKeepsChoices
  <2>2. PipelineTypeOK' BY <1>1, <1>2, <1>5 DEF PipelineInv, PipelineTypeOK, Ended
  <2>3. Attempts' BY <1>1, <1>2, <1>5, ForwardKeepsAttempts
  <2> QED BY <2>1, <2>2, <2>3 DEF PipelineInv
<1>6. CASE AllFatal(rs) /\ ~escalated
  <2>1. stage' = "generation" /\ reports' = rs /\ escalated' = TRUE
    BY <1>1, <1>6 DEF RouteAfterCritique
  <2>2. Choices' /\ SelectionHasAViableCandidate' /\ RankingIsDeterministic' /\ RunsWithinBudget'
    BY <1>2, <2>1, EarlyKeepsChoices
  <2>3. PipelineTypeOK' BY <1>2, <1>3, <2>1 DEF PipelineInv, PipelineTypeOK, Running
  <2>4. Attempts' BY <1>2, <1>4, <1>6, <2>1 DEF PipelineInv, PipelineTypeOK, Attempts
  <2> QED BY <2>2, <2>3, <2>4 DEF PipelineInv
<1>7. CASE ~AllFatal(rs)
  <2>1. stage' = "probing" /\ reports' = rs /\ escalated' = escalated
    BY <1>1, <1>7 DEF RouteAfterCritique, PipelineInv, PipelineTypeOK
  <2>2. PipelineTypeOK' BY <1>2, <1>3, <2>1 DEF PipelineInv, PipelineTypeOK, Running
  <2>3. Attempts' BY <1>2, <2>1, ForwardKeepsAttempts
  <2>4. Choices' BY <1>2, <1>3, <2>1 DEF PipelineInv, Choices
  <2>5. SelectionHasAViableCandidate'
    BY <1>7, <2>1 DEF SelectionHasAViableCandidate, AllFatal
  <2>6. RankingIsDeterministic' /\ RunsWithinBudget'
    BY <1>2 DEF PipelineInv, Choices, NoSelection, RankingIsDeterministic, RunsWithinBudget
  <2> QED BY <2>2, <2>3, <2>4, <2>5, <2>6 DEF PipelineInv
<1> QED BY <1>5, <1>6, <1>7

\* Probing or skipping it decides nothing but what the probes resolved to.
LEMMA ProbingKeepsInv ==
    ASSUME PipelineInv, SkipProbing \/ Probe
    PROVE  PipelineInv'
<1>1. /\ stage = "probing" /\ stage' = "selection"
      /\ resolved' \subseteq Index \cup {Inconclusive}
      /\ UNCHANGED <<contested, escalated, retryCount, violations, candidates, reports, selection,
                     cost, executed, rounds>>
  BY DEF SkipProbing, Probe
<1>2. PipelineTypeOK' BY <1>1 DEF PipelineInv, PipelineTypeOK, Running
<1>3. Attempts' BY <1>1, ForwardKeepsAttempts
<1>4. Choices' BY <1>1 DEF PipelineInv, Choices
<1>5. SelectionHasAViableCandidate'
  BY <1>1 DEF PipelineInv, SelectionHasAViableCandidate, AllFatal
<1>6. RankingIsDeterministic' /\ RunsWithinBudget'
  BY <1>1 DEF PipelineInv, Choices, NoSelection, RankingIsDeterministic, RunsWithinBudget
<1> QED BY <1>2, <1>3, <1>4, <1>5, <1>6 DEF PipelineInv

\* A position probing resolved to is one a candidate has.
LEMMA PositionOfIsACandidate ==
    ASSUME candidates \in Nat, NEW index \in Int
    PROVE  PositionOf(index) \subseteq 1..candidates
BY DEF PositionOf

\* What ranking selects is not fatal, as long as not every report is.
LEMMA RankedIsBest ==
    ASSUME ~AllFatal(reports), NEW i \in Ranked
    PROVE  /\ i \in DOMAIN reports /\ ~reports[i].fatal
           /\ \A j \in DOMAIN reports :
                  \/ reports[j].fatal
                  \/ reports[j].score < reports[i].score
                  \/ reports[j].score = reports[i].score /\ i <= j
<1>1. i \in Pool BY DEF Ranked
<1>2. NonFatal # {}
  <2>1. Pool \subseteq DOMAIN reports BY DEF Pool, NonFatal
  <2>2. reports # <<>> BY <1>1, <2>1
  <2> QED BY <2>2 DEF AllFatal, NonFatal
<1>3. Pool = NonFatal BY <1>2 DEF Pool
<1> QED BY <1>1, <1>3 DEF NonFatal, Ranked

LEMMA SelectedKeepsInv ==
    ASSUME PipelineInv, Selected
    PROVE  PipelineInv'
<1>1. /\ stage = "selection"
      /\ UNCHANGED <<contested, escalated, retryCount, violations, candidates, reports, resolved,
                     cost, executed, rounds>>
  BY DEF Selected
<1>2. selection = NoSelection /\ executed = FALSE /\ ~AllFatal(reports)
  BY <1>1 DEF PipelineInv, PipelineTypeOK, Choices, SelectionHasAViableCandidate
<1>3. RunsWithinBudget' BY <1>1, <1>2 DEF RunsWithinBudget
<1>4. candidates \in 0..MaxCandidates /\ DOMAIN reports \subseteq 1..candidates
  BY <1>1 DEF PipelineInv, PipelineTypeOK, Choices
<1>5. ASSUME NEW i \in 1..MaxCandidates, NEW how \in Methods, Select(i, how),
             how = "critique_ranked" => i \in Ranked
      PROVE  PipelineInv'
  <2>1. selection' = [at |-> i, method |-> how] /\ stage' = "cost_gate" BY <1>5 DEF Select
  <2>2. PipelineTypeOK' BY <1>1, <2>1, PipelineAssumption DEF PipelineInv, PipelineTypeOK, Running
  <2>3. Attempts' BY <1>1, <2>1, ForwardKeepsAttempts
  <2>4. Choices' BY <1>1, <1>2, <2>1 DEF Choices
  <2>5. SelectionHasAViableCandidate'
    BY <1>1, <1>2 DEF SelectionHasAViableCandidate, AllFatal
  <2>6. RankingIsDeterministic'
    BY <1>1, <1>2, <1>5, <2>1, RankedIsBest DEF RankingIsDeterministic
  <2> QED BY <1>3, <2>2, <2>3, <2>4, <2>5, <2>6 DEF PipelineInv
<1>6. CASE Select(1, "single_survivor")
  BY <1>5, <1>6, PipelineAssumption DEF Methods
<1>7. ASSUME NEW index \in Index, NEW i \in PositionOf(index), Select(i, "probe_resolved")
      PROVE  PipelineInv'
  <2>1. i \in 1..MaxCandidates
    BY <1>4, PositionOfIsACandidate, PipelineAssumption DEF Index
  <2> QED BY <1>5, <1>7, <2>1 DEF Methods
<1>8. CASE stage' = "crashed" /\ UNCHANGED selection
  <2>1. PipelineTypeOK' BY <1>1, <1>8 DEF PipelineInv, PipelineTypeOK, Ended
  <2>2. Attempts' BY <1>1, <1>8, ForwardKeepsAttempts
  <2>3. Choices' BY <1>1, <1>2, <1>8 DEF Choices
  <2>4. SelectionHasAViableCandidate' BY <1>8 DEF SelectionHasAViableCandidate
  <2>5. RankingIsDeterministic' BY <1>2, <1>8 DEF RankingIsDeterministic, NoSelection
  <2> QED BY <1>3, <2>1, <2>2, <2>3, <2>4, <2>5 DEF PipelineInv
<1>9. ASSUME NEW i \in Ranked, Select(i, "critique_ranked")
      PROVE  PipelineInv'
  <2>1. i \in 1..MaxCandidates
    BY <1>2, <1>4, RankedIsBest, PipelineAssumption
  <2> QED BY <1>5, <1>9, <2>1 DEF Methods
<1> QED BY <1>6, <1>7, <1>8, <1>9 DEF Selected

-----------------------------------------------------------------------------
\* After the selection, the reports and the selected candidate stay.
LEMMA LateKeepsChoices ==
    ASSUME PipelineInv, stage \in {"cost_gate", "execution"},
           UNCHANGED <<reports, selection>>,
           stage' \in {"execution", "end", "failed"}
    PROVE  SelectionHasAViableCandidate' /\ RankingIsDeterministic'
BY DEF PipelineInv, SelectionHasAViableCandidate, AllFatal, RankingIsDeterministic

LEMMA CostGateKeepsInv ==
    ASSUME PipelineInv, CostGate
    PROVE  PipelineInv'
<1>1. /\ stage = "cost_gate" /\ cost' \in 1..MaxCost
      /\ stage' = IF cost' <= Budget THEN "execution" ELSE "end"
      /\ UNCHANGED <<contested, escalated, retryCount, violations, candidates, reports, resolved,
                     selection, executed, rounds>>
  BY DEF CostGate, RouteAfterCostGate
<1>2. PipelineTypeOK' BY <1>1, PipelineAssumption DEF PipelineInv, PipelineTypeOK, Running, Ended
<1>3. Attempts' BY <1>1, ForwardKeepsAttempts
<1>4. Choices' BY <1>1, PipelineAssumption DEF PipelineInv, Choices
<1>5. SelectionHasAViableCandidate' /\ RankingIsDeterministic'
  BY <1>1, LateKeepsChoices
<1>6. RunsWithinBudget' BY <1>1 DEF PipelineInv, Choices, RunsWithinBudget
<1> QED BY <1>2, <1>3, <1>4, <1>5, <1>6 DEF PipelineInv

LEMMA ExecuteKeepsInv ==
    ASSUME PipelineInv, Execute
    PROVE  PipelineInv'
<1>1. /\ stage = "execution" /\ stage' = "end" /\ executed' = TRUE
      /\ UNCHANGED <<contested, escalated, retryCount, violations, candidates, reports, resolved,
                     selection, cost, rounds>>
  BY DEF Execute
<1>2. PipelineTypeOK' BY <1>1 DEF PipelineInv, PipelineTypeOK, Ended
<1>3. Attempts' BY <1>1, ForwardKeepsAttempts
<1>4. Choices' BY <1>1 DEF PipelineInv, Choices
<1>5. SelectionHasAViableCandidate' /\ RankingIsDeterministic'
  BY <1>1, LateKeepsChoices
<1>6. RunsWithinBudget' BY <1>1 DEF PipelineInv, Choices, RunsWithinBudget
<1> QED BY <1>2, <1>3, <1>4, <1>5, <1>6 DEF PipelineInv

LEMMA FailKeepsInv ==
    ASSUME PipelineInv, Fail
    PROVE  PipelineInv'
<1>1. /\ stage \in Running \ {"validation", "selection"} /\ stage' = "failed"
      /\ UNCHANGED <<contested, escalated, retryCount, violations, candidates, reports, resolved,
                     selection, cost, executed, rounds>>
  BY DEF Fail, Running
<1>2. PipelineTypeOK' BY <1>1 DEF PipelineInv, PipelineTypeOK, Ended
<1>3. Attempts' BY <1>1, ForwardKeepsAttempts
<1>4. Choices' BY <1>1 DEF PipelineInv, Choices, Running
<1>5. SelectionHasAViableCandidate' /\ RankingIsDeterministic' /\ RunsWithinBudget'
  BY <1>1 DEF PipelineInv, SelectionHasAViableCandidate, RankingIsDeterministic, RunsWithinBudget
<1> QED BY <1>2, <1>3, <1>4, <1>5 DEF PipelineInv

LEMMA PipelineNextKeepsInv == PipelineInv /\ [PipelineNext]_pipelineVars => PipelineInv'
<1>1. ASSUME PipelineInv, PipelineNext PROVE PipelineInv'
  BY <1>1, GenerateKeepsInv, SurviveKeepsInv, RetryKeepsInv, EscalateKeepsInv, RejectKeepsInv,
     SkipCritiqueKeepsInv, CritiqueKeepsInv, ProbingKeepsInv, SelectedKeepsInv,
     CostGateKeepsInv, ExecuteKeepsInv, FailKeepsInv DEF PipelineNext
<1>2. ASSUME PipelineInv, UNCHANGED pipelineVars PROVE PipelineInv'
  BY <1>2 DEF pipelineVars, PipelineInv, PipelineTypeOK, Attempts, Choices, SelectionHasAViableCandidate, AllFatal,
              RankingIsDeterministic, RunsWithinBudget
<1> QED BY <1>1, <1>2

LEMMA PipelineInvariance == PipelineSpec => []PipelineInv
BY PipelineInitInv, PipelineNextKeepsInv, PTL DEF PipelineSpec

\* Every variable keeps its type.
THEOREM PipelineTypeCorrect == PipelineSpec => []PipelineTypeOK
BY PipelineInvariance, PTL DEF PipelineInv

\* One retry and one escalation are all the regenerations a turn is granted,
\* whichever of the two nodes that may escalate does.
THEOREM BoundedRegeneration == PipelineSpec => []RegenerationIsBounded
BY PipelineInvariance, AttemptsAreBounded, PTL DEF PipelineInv

\* No turn selects from a batch in which every candidate is fatal.
THEOREM ViableSelection == PipelineSpec => []SelectionHasAViableCandidate
BY PipelineInvariance, PTL DEF PipelineInv

\* Ranking selects the first of the best candidates without a fatal defect.
THEOREM DeterministicRanking == PipelineSpec => []RankingIsDeterministic
BY PipelineInvariance, PTL DEF PipelineInv

\* What runs was selected and is within the budget.
THEOREM BudgetedRuns == PipelineSpec => []RunsWithinBudget
BY PipelineInvariance, PTL DEF PipelineInv

-----------------------------------------------------------------------------
(***************************************************************************)
(* The turn, from its question to its response                             *)
(***************************************************************************)

\* The candidates' part of the state, as before a plan.
Fresh ==
    /\ escalated = FALSE /\ retryCount = 0 /\ violations = FALSE
    /\ candidates = 0 /\ reports = <<>> /\ resolved = {} /\ selection = NoSelection
    /\ cost = 0 /\ executed = FALSE /\ rounds = <<>>

\* The nodes before the gate, the gate's cycle and the stages behind the plan take
\* over from one another, and how the graph left the turn tells which it left from.
Whereabouts ==
    /\ at = "planned" <=> stage # "idle"
    /\ stage = "idle" => Fresh
    /\ front # "past" => at = "idle" /\ ended = "none"
    /\ ended = "paused" <=> at = "paused"
    /\ ended = "not_sql" => /\ at = "idle" /\ front = "past"
                            /\ intent \in Intents \ {"analytical_sql"}
    /\ ended = "rows" => stage = "end" /\ executed
    /\ ended = "over_budget" => stage = "end" /\ ~executed

Fields == {"asked", "intent", "plan", "sql", "method", "cost", "rows", "candidates", "probes"}

\* The stream has gathered what the state holds, but for the intent: a stream that
\* begins at a pause never sees the delta that held it.
Gathered ==
    /\ merged = [f \in Fields |-> merged[f]]
    /\ \A f \in Fields \ {"intent"} : merged[f] = Raw[f]
    /\ at = "idle" => merged.intent = Raw.intent

\* What the last event says of critique and probing is still so.
Trail ==
    /\ event.stage \in {"critique", "probing"} => at = "planned"
    /\ event.stage \in {"critique", "probing"} /\ event.status = "completed" => ~OneCandidate
    /\ event.stage = "critique" /\ event.status = "skipped" => OneCandidate

TurnTypes ==
    /\ front \in {"intent", "scoping", "linking", "past"}
    /\ ended \in {"none", "paused", "not_sql", "over_budget", "rows", "failed"}

TurnInv ==
    /\ GateInv
    /\ PipelineInv
    /\ TurnTypes
    /\ Whereabouts
    /\ Gathered
    /\ Trail

LEMMA RawFields ==
    /\ Raw = [f \in Fields |-> Raw[f]]
    /\ NothingMerged = [f \in Fields |-> NothingMerged[f]]
<1>1. Raw = [f \in Fields |-> Raw[f]] BY DEF Raw, Fields
<1>2. NothingMerged = [f \in Fields |-> NothingMerged[f]] BY DEF NothingMerged, Fields
<1> QED BY <1>1, <1>2

-----------------------------------------------------------------------------
\* Nothing of the pipeline's invariant fails before a plan, or of a plan just made.
LEMMA FreshKeepsPipelineInv ==
    ASSUME Fresh', contested' \in BOOLEAN, stage' \in {"idle", "generation"}
    PROVE  PipelineInv'
<1>1. PipelineTypeOK'
  <2>1. reports' \in Seq(Report) /\ rounds' \in Seq(BOOLEAN) BY DEF Fresh
  <2>2. selection' \in [at : 0..MaxCandidates, method : Methods]
    BY PipelineAssumption DEF Fresh, NoSelection, Methods
  <2>3. candidates' \in 0..MaxCandidates /\ cost' \in 0..MaxCost /\ retryCount' \in 0..2
    BY PipelineAssumption DEF Fresh
  <2>4. stage' \in {"idle"} \cup Running \cup Ended BY DEF Running
  <2> QED BY <2>1, <2>2, <2>3, <2>4 DEF Fresh, PipelineTypeOK
<1>2. Attempts' BY DEF Fresh, Attempts
<1>3. Choices' BY DEF Fresh, Choices
<1>4. SelectionHasAViableCandidate' BY DEF SelectionHasAViableCandidate
<1>5. RankingIsDeterministic' BY DEF Fresh, RankingIsDeterministic, NoSelection
<1>6. RunsWithinBudget' BY DEF Fresh, RunsWithinBudget
<1> QED BY <1>1, <1>2, <1>3, <1>4, <1>5, <1>6 DEF PipelineInv

\* Steps before the plan leave the pipeline's part alone, and it is fresh.
LEMMA BeforeThePlan ==
    ASSUME TurnInv, at # "planned", UNCHANGED pipelineOnly, contested' \in BOOLEAN
    PROVE  Fresh' /\ stage' = "idle" /\ PipelineInv'
<1>1. stage = "idle" /\ Fresh BY DEF TurnInv, Whereabouts
<1>2. Fresh' /\ stage' = "idle" BY <1>1 DEF pipelineOnly, Fresh
<1> QED BY <1>2, FreshKeepsPipelineInv

LEMMA ForgetKeepsGateInv ==
    ASSUME NEW node \in {"idle", "planned", "failed"}, Forget(node), contested' \in BOOLEAN
    PROVE  GateInv'
<1>1. /\ at' = node /\ rules' = {} /\ inexpressible' = {} /\ answers' = <<>>
      /\ scores' = NoScores /\ missing' = 0 /\ assumed' = {} /\ guessed' = {} /\ edits' = 0
  BY DEF Forget
<1>2. GateTypeOK'
  <2>1. scores' \in [Dimensions -> Score] BY <1>1 DEF NoScores, Score
  <2>2. answers' \in Seq(Dimensions) BY <1>1
  <2>3. missing' \in 0..NumDimensions /\ edits' \in 0..MaxEdits BY <1>1, GateAssumption
  <2> QED BY <1>1, <2>1, <2>2, <2>3 DEF GateTypeOK
<1>3. NeverAskedTwice' BY <1>1 DEF NeverAskedTwice
<1> QED BY <1>1, <1>2, <1>3
    DEF GateInv, QuestionsWithinBudget, PlanningSettlesEverything, GuessesYield

\* What a stage may do to what the rest of the turn reads.
LEMMA StageEffects ==
    ASSUME PipelineInv, PipelineNext
    PROVE  /\ stage \in Running /\ stage' # "idle" /\ contested' = contested
           /\ stage \notin {"generation", "validation"} \/ stage' = "failed"
                  => candidates' = candidates
           /\ stage = "critique" /\ stage' # "failed" => (reports' = <<>> <=> OneCandidate)
           /\ stage = "probing" /\ stage' # "failed" /\ resolved' # {} => ~OneCandidate
<1> DEFINE Effects ==
      /\ stage \in Running /\ stage' # "idle" /\ contested' = contested
      /\ stage \notin {"generation", "validation"} \/ stage' = "failed"
             => candidates' = candidates
      /\ stage = "critique" /\ stage' # "failed" => (reports' = <<>> <=> OneCandidate)
      /\ stage = "probing" /\ stage' # "failed" /\ resolved' # {} => ~OneCandidate
<1>1. CASE Generate BY <1>1 DEF Generate, Running
<1>2. CASE Survive \/ Retry \/ Escalate \/ Reject
  BY <1>2 DEF Survive, Retry, Escalate, Reject, Regenerate, Running
<1>3. CASE SkipCritique BY <1>3 DEF SkipCritique, RouteAfterCritique, AllFatal, Running
<1>4. CASE Critique
  <2>1. PICK rs \in [1..candidates -> Report] :
            IF AllFatal(rs) /\ escalated
            THEN stage' = "failed" /\ UNCHANGED <<reports, escalated>>
            ELSE /\ reports' = rs
                 /\ escalated' = (escalated \/ AllFatal(rs))
                 /\ stage' = RouteAfterCritique(rs)
    BY <1>4 DEF Critique
  <2>2. /\ stage = "critique" /\ ~OneCandidate
        /\ contested' = contested /\ candidates' = candidates
    BY <1>4 DEF Critique
  <2>3. rs # <<>>
    <3>1. candidates \in Nat /\ candidates > 1
      BY <2>2 DEF OneCandidate, PipelineInv, PipelineTypeOK
    <3>2. 1 \in DOMAIN rs BY <3>1
    <3>3. DOMAIN <<>> = {} OBVIOUS
    <3> QED BY <3>2, <3>3
  <2>4. stage' # "failed" => reports' = rs BY <2>1
  <2>5. stage' # "idle" BY <2>1 DEF RouteAfterCritique
  <2> QED BY <2>2, <2>3, <2>4, <2>5 DEF Running
<1>5. CASE SkipProbing BY <1>5 DEF SkipProbing, Running
<1>6. CASE Probe BY <1>6 DEF Probe, Running
<1>7. CASE Selected
  <2>1. stage = "selection" /\ contested' = contested /\ candidates' = candidates
    BY <1>7 DEF Selected
  <2>2. stage' \in {"cost_gate", "crashed"} BY <1>7 DEF Selected, Select
  <2> QED BY <2>1, <2>2 DEF Running
<1>8. CASE CostGate \/ Execute BY <1>8 DEF CostGate, Execute, RouteAfterCostGate, Running
<1>9. CASE Fail BY <1>9 DEF Fail, Running
<1> QED BY <1>1, <1>2, <1>3, <1>4, <1>5, <1>6, <1>7, <1>8, <1>9 DEF PipelineNext

-----------------------------------------------------------------------------
\* Merging keeps a field that agreed in agreement.
LEMMA MergedFields ==
    ASSUME NEW before, NEW after, NEW was, NEW is, NEW f \in Fields,
           was = [g \in Fields |-> was[g]],
           is = [g \in DOMAIN was |-> IF after[g] # before[g] THEN after[g] ELSE was[g]],
           was[f] = before[f]
    PROVE  is[f] = after[f]
<1>1. DOMAIN was = Fields OBVIOUS
<1>2. is[f] = IF after[f] # before[f] THEN after[f] ELSE was[f] BY <1>1
<1> QED BY <1>2

LEMMA MergeGathers ==
    ASSUME Gathered, Merge, at' = "idle" => at = "idle"
    PROVE  Gathered'
<1> DEFINE b == Raw
           a == Raw'
<1>1. /\ merged = [g \in Fields |-> merged[g]]
      /\ \A f \in Fields \ {"intent"} : merged[f] = b[f]
      /\ at = "idle" => merged["intent"] = b["intent"]
  BY DEF Gathered
<1>2. merged' = [g \in DOMAIN merged |-> IF a[g] # b[g] THEN a[g] ELSE merged[g]] BY DEF Merge
<1> HIDE DEF a, b
<1>3. merged' = [g \in Fields |-> merged'[g]]
  <2>1. DOMAIN merged = Fields BY <1>1
  <2> QED BY <1>2, <2>1
<1>4. ASSUME NEW f \in Fields, merged[f] = b[f] PROVE merged'[f] = a[f]
  BY <1>1, <1>2, <1>4, MergedFields
<1>5. "intent" \in Fields BY DEF Fields
<1>6. \A f \in Fields \ {"intent"} : merged'[f] = a[f] BY <1>1, <1>4
<1>7. at' = "idle" => merged'["intent"] = a["intent"] BY <1>1, <1>4, <1>5
<1> USE DEF a, b
<1> QED BY <1>3, <1>6, <1>7 DEF Gathered

\* A step the stream does not see changes nothing of what it gathers.
LEMMA UnseenKeepsGathered ==
    ASSUME Gathered, merged' = merged, Raw' = Raw, at' = "idle" => at = "idle"
    PROVE  Gathered'
BY DEF Gathered

\* A stream begins with nothing, and before the plan there is nothing but an intent.
LEMMA StreamBegins ==
    ASSUME merged' = NothingMerged, Fresh', at' \notin {"paused", "planned"},
           at' = "idle" => intent' = "none"
    PROVE  Gathered'
<1>1. merged' = [f \in Fields |-> merged'[f]] BY RawFields
<1>2. Raw' = [asked |-> 0, intent |-> intent', plan |-> FALSE, sql |-> FALSE,
              method |-> "none", cost |-> 0, rows |-> FALSE, candidates |-> 0,
              probes |-> FALSE]
  <2>1. (at' = "planned") = FALSE OBVIOUS
  <2>2. (selection'.at # 0) = FALSE /\ selection'.method = "none" BY DEF Fresh, NoSelection
  <2>3. (resolved' # {}) = FALSE BY DEF Fresh
  <2>4. cost' = 0 /\ executed' = FALSE /\ candidates' = 0 BY DEF Fresh
  <2>5. (IF at' = "paused" THEN missing' ELSE 0) = 0 OBVIOUS
  <2> QED BY <2>1, <2>2, <2>3, <2>4, <2>5 DEF Raw
<1>3. \A f \in Fields \ {"intent"} : NothingMerged[f] = Raw'[f]
  <2>1. /\ NothingMerged.asked = Raw'.asked /\ NothingMerged.method = Raw'.method
        /\ NothingMerged.cost = Raw'.cost /\ NothingMerged.candidates = Raw'.candidates
    BY <1>2 DEF NothingMerged
  <2>2. /\ NothingMerged.plan = Raw'.plan /\ NothingMerged.sql = Raw'.sql
        /\ NothingMerged.rows = Raw'.rows /\ NothingMerged.probes = Raw'.probes
    BY <1>2 DEF NothingMerged
  <2> QED BY <2>1, <2>2 DEF Fields
<1>4. at' = "idle" => NothingMerged.intent = Raw'.intent
  BY <1>2 DEF NothingMerged
<1> QED BY <1>1, <1>3, <1>4 DEF Gathered

LEMMA TurnInitInv == QueryInit => TurnInv
<1> SUFFICES ASSUME QueryInit PROVE TurnInv OBVIOUS
<1>1. /\ contested = FALSE
      /\ at = "idle" /\ rules = {} /\ inexpressible = {} /\ answers = <<>> /\ scores = NoScores
      /\ missing = 0 /\ assumed = {} /\ guessed = {} /\ edits = 0
      /\ stage = "idle" /\ Fresh
      /\ front = "past" /\ intent = "none" /\ ended = "none"
      /\ merged = NothingMerged /\ event = NoEvent
  BY DEF QueryInit, Fresh
<1>2. GateInv
  <2>1. scores \in [Dimensions -> Score] BY <1>1 DEF NoScores, Score
  <2>2. answers \in Seq(Dimensions) BY <1>1
  <2>3. missing \in 0..NumDimensions /\ edits \in 0..MaxEdits BY <1>1, GateAssumption
  <2>4. GateTypeOK BY <1>1, <2>1, <2>2, <2>3 DEF GateTypeOK
  <2>5. NeverAskedTwice BY <1>1 DEF NeverAskedTwice
  <2> QED BY <1>1, <2>4, <2>5
      DEF GateInv, QuestionsWithinBudget, PlanningSettlesEverything, GuessesYield
<1>3. PipelineInv
  <2>1. reports \in Seq(Report) /\ rounds \in Seq(BOOLEAN) BY <1>1 DEF Fresh
  <2>2. selection \in [at : 0..MaxCandidates, method : Methods]
    BY <1>1, PipelineAssumption DEF Fresh, NoSelection, Methods
  <2>3. candidates \in 0..MaxCandidates /\ cost \in 0..MaxCost /\ retryCount \in 0..2
    BY <1>1, PipelineAssumption DEF Fresh
  <2>4. PipelineTypeOK BY <1>1, <2>1, <2>2, <2>3 DEF Fresh, PipelineTypeOK
  <2>5. Attempts BY <1>1 DEF Fresh, Attempts
  <2>6. Choices BY <1>1 DEF Fresh, Choices
  <2>7. SelectionHasAViableCandidate BY <1>1 DEF SelectionHasAViableCandidate
  <2>8. RankingIsDeterministic BY <1>1 DEF Fresh, RankingIsDeterministic, NoSelection
  <2>9. RunsWithinBudget BY <1>1 DEF Fresh, RunsWithinBudget
  <2> QED BY <2>4, <2>5, <2>6, <2>7, <2>8, <2>9 DEF PipelineInv
<1>4. TurnTypes /\ Whereabouts BY <1>1 DEF TurnTypes, Whereabouts
<1>5. Gathered
  <2>1. Raw = NothingMerged
    <3>1. (at = "planned") = FALSE BY <1>1
    <3>2. (selection.at # 0) = FALSE /\ selection.method = "none" BY <1>1 DEF Fresh, NoSelection
    <3>3. (resolved # {}) = FALSE BY <1>1 DEF Fresh
    <3>4. cost = 0 /\ executed = FALSE /\ candidates = 0 BY <1>1 DEF Fresh
    <3>5. (IF at = "paused" THEN missing ELSE 0) = 0 BY <1>1
    <3> QED BY <1>1, <3>1, <3>2, <3>3, <3>4, <3>5 DEF Raw, NothingMerged
  <2> QED BY <1>1, <2>1, RawFields DEF Gathered
<1>6. Trail BY <1>1 DEF Trail, NoEvent
<1> QED BY <1>2, <1>3, <1>4, <1>5, <1>6 DEF TurnInv

\* A step of the nodes before the gate, none of which touches what either half keeps.
LEMMA FrontKeepsHalves ==
    ASSUME TurnInv, front # "past", UNCHANGED <<contested, gateOnly, pipelineOnly>>
    PROVE  /\ GateInv' /\ PipelineInv' /\ Fresh' /\ stage' = "idle"
           /\ at = "idle" /\ at' = "idle" /\ ended = "none"
<1>1. at = "idle" /\ ended = "none" BY DEF TurnInv, Whereabouts
<1>2. at' = "idle" BY <1>1 DEF gateOnly
<1>3. contested' \in BOOLEAN BY DEF TurnInv, GateInv, GateTypeOK
<1>4. PipelineInv' /\ Fresh' /\ stage' = "idle" BY <1>1, <1>3, BeforeThePlan
<1>5. GateInv'
  <2>1. UNCHANGED gateVars BY DEF gateOnly, gateVars
  <2> QED BY <2>1, GateNextKeepsInv DEF TurnInv
<1> QED BY <1>1, <1>2, <1>4, <1>5

\* An event of another stage says nothing of critique and probing.
LEMMA OtherEventKeepsTrail ==
    ASSUME NEW name, NEW status, name \notin {"critique", "probing"},
           event' = [stage |-> name, status |-> status]
    PROVE  Trail'
BY DEF Trail

LEMMA AskKeepsTurnInv == ASSUME TurnInv, Ask PROVE TurnInv'
<1>1. /\ contested' = FALSE /\ Forget("idle") /\ Fresh' /\ stage' = "idle"
      /\ intent' = "none" /\ front' = "intent" /\ ended' = "none"
      /\ merged' = NothingMerged /\ event' = NoEvent
  BY DEF Ask, InitialState, Fresh
<1>2. at' = "idle" BY <1>1 DEF Forget
<1>3. GateInv' BY <1>1, ForgetKeepsGateInv
<1>4. PipelineInv' BY <1>1, FreshKeepsPipelineInv
<1>5. TurnTypes' /\ Whereabouts' BY <1>1, <1>2 DEF TurnTypes, Whereabouts
<1>6. Gathered' BY <1>1, <1>2, StreamBegins
<1>7. Trail' BY <1>1 DEF Trail, NoEvent
<1> QED BY <1>3, <1>4, <1>5, <1>6, <1>7 DEF TurnInv

LEMMA ClassifyKeepsTurnInv == ASSUME TurnInv, Classify PROVE TurnInv'
<1>1. /\ front = "intent" /\ intent' \in Intents
      /\ \/ intent' = "analytical_sql" /\ front' = "scoping" /\ ended' = ended
         \/ intent' # "analytical_sql" /\ front' = "past" /\ ended' = "not_sql"
      /\ event' = [stage |-> "intent_classification", status |-> "completed"]
      /\ UNCHANGED <<contested, gateOnly, pipelineOnly>>
      /\ Merge
  BY DEF Classify, Announce
<1>2. /\ GateInv' /\ PipelineInv' /\ Fresh' /\ stage' = "idle"
      /\ at = "idle" /\ at' = "idle" /\ ended = "none"
  BY <1>1, FrontKeepsHalves
<1>3. TurnTypes' BY <1>1, <1>2 DEF TurnTypes
<1>4. Whereabouts' BY <1>1, <1>2 DEF Whereabouts
<1>5. Gathered' BY <1>1, <1>2, MergeGathers DEF TurnInv
<1>6. Trail' BY <1>1, OtherEventKeepsTrail
<1> QED BY <1>2, <1>3, <1>4, <1>5, <1>6 DEF TurnInv

LEMMA ScopeKeepsTurnInv == ASSUME TurnInv, Scope PROVE TurnInv'
<1>1. /\ front = "scoping" /\ front' = "linking" /\ ended' = ended
      /\ UNCHANGED <<contested, gateOnly, pipelineOnly>>
      /\ Merge
  BY DEF Scope
<1>2. PICK status : event' = [stage |-> "domain_scoping", status |-> status]
  BY DEF Scope, Announce
<1>3. /\ GateInv' /\ PipelineInv' /\ Fresh' /\ stage' = "idle"
      /\ at = "idle" /\ at' = "idle" /\ ended = "none"
  BY <1>1, FrontKeepsHalves
<1>4. TurnTypes' /\ Whereabouts' BY <1>1, <1>3 DEF TurnTypes, Whereabouts
<1>5. Gathered' BY <1>1, <1>3, MergeGathers DEF TurnInv
<1>6. Trail' BY <1>2, OtherEventKeepsTrail
<1> QED BY <1>3, <1>4, <1>5, <1>6 DEF TurnInv

LEMMA LinkKeepsTurnInv == ASSUME TurnInv, Link PROVE TurnInv'
<1>1. /\ front = "linking" /\ front' = "past" /\ at' = "gate" /\ ended' = ended
      /\ rules' \in SUBSET Dimensions /\ inexpressible' \in SUBSET {TimeRange}
      /\ event' = [stage |-> "schema_linking", status |-> "completed"]
      /\ UNCHANGED <<contested, answers, scores, missing, assumed, guessed, edits, pipelineOnly>>
      /\ Merge
  BY DEF Link, Announce, Undated
<1>2. at = "idle" /\ ended = "none" BY <1>1 DEF TurnInv, Whereabouts
<1>3. contested' \in BOOLEAN BY <1>1 DEF TurnInv, GateInv, GateTypeOK
<1>4. PipelineInv' /\ Fresh' /\ stage' = "idle" BY <1>1, <1>2, <1>3, BeforeThePlan
<1>5. GateInv'
  <2>1. GateTypeOK' BY <1>1 DEF TurnInv, GateInv, GateTypeOK
  <2>2. NeverAskedTwice' /\ QuestionsWithinBudget'
    BY <1>1 DEF TurnInv, GateInv, NeverAskedTwice, QuestionsWithinBudget
  <2> QED BY <1>1, <2>1, <2>2, ElsewhereKeepsInv DEF TurnInv
<1>6. TurnTypes' /\ Whereabouts' BY <1>1, <1>2, <1>4 DEF TurnTypes, Whereabouts
<1>7. Gathered' BY <1>1, <1>2, MergeGathers DEF TurnInv
<1>8. Trail' BY <1>1, OtherEventKeepsTrail
<1> QED BY <1>4, <1>5, <1>6, <1>7, <1>8 DEF TurnInv

LEMMA FrontFailsKeepsTurnInv == ASSUME TurnInv, FrontFails PROVE TurnInv'
<1>1. /\ front # "past" /\ front' = "past" /\ ended' = "failed"
      /\ UNCHANGED <<contested, gateOnly, pipelineOnly, intent, merged, event>>
  BY DEF FrontFails
<1>2. /\ GateInv' /\ PipelineInv' /\ Fresh' /\ stage' = "idle"
      /\ at = "idle" /\ at' = "idle" /\ ended = "none"
  BY <1>1, FrontKeepsHalves
<1>3. TurnTypes' /\ Whereabouts' BY <1>1, <1>2 DEF TurnTypes, Whereabouts
<1>4. Gathered'
  <2>1. Raw' = Raw BY <1>1 DEF gateOnly, pipelineOnly, Raw
  <2> QED BY <1>1, <1>2, <2>1, UnseenKeepsGathered DEF TurnInv
<1>5. Trail' BY <1>1, <1>2 DEF TurnInv, Trail
<1> QED BY <1>2, <1>3, <1>4, <1>5 DEF TurnInv

\* Where the gate's steps lead.
LEMMA GateEffects ==
    ASSUME GateStep \/ Pause, GateInv
    PROVE  /\ at \in {"gate", "interrupt"}
           /\ at' \in {"interrupt", "paused", "planning", "failed"}
           /\ GateInv'
<1>1. GateInv' BY GateNextKeepsInv DEF GateNext
<1>2. at \in {"gate", "interrupt"}
  BY DEF GateStep, NothingOpen, NothingToScore, Assess, AssessFails, Pause
<1>3. at' \in {"interrupt", "paused", "planning", "failed"}
  <2>1. CASE NothingOpen \/ NothingToScore
    BY <2>1 DEF NothingOpen, NothingToScore, Clear
  <2>2. CASE AssessFails \/ Pause BY <2>2 DEF AssessFails, Pause
  <2>3. CASE Assess
    <3>1. PICK reply \in Reply : AllSpecified(reply) \/ Assume(reply) \/ AskAbout(reply)
      BY <2>3 DEF Assess
    <3> QED BY <3>1 DEF AllSpecified, Assume, AskAbout, Clear
  <2> QED BY <2>1, <2>2, <2>3 DEF GateStep
<1> QED BY <1>1, <1>2, <1>3

LEMMA GateNodeKeepsTurnInv == ASSUME TurnInv, GateNode PROVE TurnInv'
<1>1. /\ ended = "none" /\ (GateStep \/ Pause)
      /\ ended' = CASE at' = "paused" -> "paused"
                    [] at' = "failed" -> "failed"
                    [] OTHER -> "none"
      /\ UNCHANGED <<pipelineOnly, front>>
      /\ Merge
  BY DEF GateNode
<1>2. /\ at \in {"gate", "interrupt"}
      /\ at' \in {"interrupt", "paused", "planning", "failed"}
      /\ GateInv'
  BY <1>1, GateEffects DEF TurnInv
<1>3. contested' \in BOOLEAN BY <1>2 DEF GateInv, GateTypeOK
<1>4. PipelineInv' /\ Fresh' /\ stage' = "idle" BY <1>1, <1>2, <1>3, BeforeThePlan
<1>5. /\ ended' \in {"none", "paused", "failed"}
      /\ ended' = "paused" <=> at' = "paused"
  BY <1>1, <1>2
<1>6. front' = "past" BY <1>1, <1>2 DEF TurnInv, Whereabouts, TurnTypes
<1>7. TurnTypes' /\ Whereabouts' BY <1>2, <1>4, <1>5, <1>6 DEF TurnTypes, Whereabouts
<1>8. Gathered' BY <1>1, <1>2, MergeGathers DEF TurnInv
<1>9. Trail'
  <2>1. CASE at' = "failed"
    <3>1. event' = event BY <2>1 DEF GateNode
    <3>2. event.stage \notin {"critique", "probing"} BY <1>2 DEF TurnInv, Trail
    <3> QED BY <3>1, <3>2 DEF Trail
  <2>2. CASE at' # "failed"
    <3>1. PICK status : event' = [stage |-> "ambiguity_gate", status |-> status]
      BY <2>2 DEF GateNode
    <3> QED BY <3>1, OtherEventKeepsTrail
  <2> QED BY <2>1, <2>2
<1> QED BY <1>2, <1>4, <1>7, <1>8, <1>9 DEF TurnInv

LEMMA ResumeKeepsTurnInv == ASSUME TurnInv, Resume PROVE TurnInv'
<1>1. /\ Answer /\ at = "paused" /\ at' = "gate" /\ ended' = "none" /\ merged' = NothingMerged
      /\ event' = [stage |-> "ambiguity_interrupt", status |-> "completed"]
      /\ UNCHANGED <<pipelineOnly, front, contested>>
  BY DEF Resume, Answer, Announce
<1>2. GateInv' BY <1>1, AnswerKeepsInv DEF TurnInv
<1>3. contested' \in BOOLEAN BY <1>2 DEF GateInv, GateTypeOK
<1>4. PipelineInv' /\ Fresh' /\ stage' = "idle" BY <1>1, <1>3, BeforeThePlan
<1>5. front' = "past" BY <1>1 DEF TurnInv, Whereabouts, TurnTypes
<1>6. TurnTypes' /\ Whereabouts' BY <1>1, <1>4, <1>5 DEF TurnTypes, Whereabouts
<1>7. Gathered' BY <1>1, <1>4, StreamBegins
<1>8. Trail' BY <1>1, OtherEventKeepsTrail
<1> QED BY <1>2, <1>4, <1>6, <1>7, <1>8 DEF TurnInv

LEMMA RulesEditedKeepsTurnInv == ASSUME TurnInv, RulesEdited PROVE TurnInv'
<1>1. /\ EditRules /\ at \in {"gate", "interrupt", "paused"}
      /\ UNCHANGED <<at, missing, contested, pipelineOnly, front, intent, ended, merged, event>>
  BY DEF RulesEdited, EditRules, turnVars
<1>2. GateInv' BY <1>1, GateNextKeepsInv DEF GateNext, TurnInv
<1>3. contested' \in BOOLEAN BY <1>2 DEF GateInv, GateTypeOK
<1>4. PipelineInv' /\ Fresh' /\ stage' = "idle" BY <1>1, <1>3, BeforeThePlan
<1>5. TurnTypes' BY <1>1 DEF TurnInv, TurnTypes
<1>6. Whereabouts' BY <1>1, <1>4 DEF TurnInv, Whereabouts
<1>7. Gathered'
  <2>1. Raw' = Raw BY <1>1 DEF pipelineOnly, Raw
  <2> QED BY <1>1, <2>1, UnseenKeepsGathered DEF TurnInv
<1>8. Trail' BY <1>1 DEF TurnInv, Trail
<1> QED BY <1>2, <1>4, <1>5, <1>6, <1>7, <1>8 DEF TurnInv

LEMMA PlanKeepsTurnInv == ASSUME TurnInv, Plan PROVE TurnInv'
<1>1. /\ at = "planning" /\ Forget("planned") /\ at' = "planned" /\ stage' = "generation"
      /\ event' = [stage |-> "planning", status |-> "completed"]
      /\ UNCHANGED <<contested, escalated, retryCount, violations, candidates, reports, resolved,
                     selection, cost, executed, rounds, front, intent, ended>>
      /\ Merge
  BY DEF Plan, Forget, Announce
<1>2. stage = "idle" /\ Fresh BY <1>1 DEF TurnInv, Whereabouts
<1>3. contested' \in BOOLEAN BY <1>1 DEF TurnInv, GateInv, GateTypeOK
<1>4. GateInv' BY <1>1, <1>3, ForgetKeepsGateInv
<1>5. Fresh' BY <1>1, <1>2 DEF Fresh
<1>6. PipelineInv' BY <1>1, <1>3, <1>5, FreshKeepsPipelineInv
<1>7. TurnTypes' BY <1>1 DEF TurnInv, TurnTypes
<1>8. ended \in {"none", "failed"} /\ front = "past"
  BY <1>1, <1>2 DEF TurnInv, TurnTypes, Whereabouts
<1>9. Whereabouts' BY <1>1, <1>8 DEF Whereabouts
<1>10. Gathered' BY <1>1, MergeGathers DEF TurnInv
<1>11. Trail' BY <1>1, OtherEventKeepsTrail
<1> QED BY <1>4, <1>6, <1>7, <1>9, <1>10, <1>11 DEF TurnInv

LEMMA PlanFailsKeepsTurnInv == ASSUME TurnInv, PlanFails PROVE TurnInv'
<1>1. /\ at = "planning" /\ Forget("failed") /\ at' = "failed" /\ ended' = "failed"
      /\ UNCHANGED <<contested, pipelineOnly, front, intent, merged, event>>
  BY DEF PlanFails, Forget
<1>2. contested' \in BOOLEAN BY <1>1 DEF TurnInv, GateInv, GateTypeOK
<1>3. PipelineInv' /\ Fresh' /\ stage' = "idle" BY <1>1, <1>2, BeforeThePlan
<1>4. GateInv' BY <1>1, <1>2, ForgetKeepsGateInv
<1>5. front' = "past" BY <1>1 DEF TurnInv, TurnTypes, Whereabouts
<1>6. TurnTypes' /\ Whereabouts' BY <1>1, <1>3, <1>5 DEF TurnTypes, Whereabouts
<1>7. Gathered'
  <2>1. (at' = "planned") = FALSE /\ (at = "planned") = FALSE BY <1>1
  <2>2. (IF at' = "paused" THEN missing' ELSE 0) = (IF at = "paused" THEN missing ELSE 0)
    BY <1>1
  <2>3. Raw' = Raw BY <1>1, <2>1, <2>2 DEF pipelineOnly, Raw
  <2> QED BY <1>1, <2>3, UnseenKeepsGathered DEF TurnInv
<1>8. Trail' BY <1>1 DEF TurnInv, Trail
<1> QED BY <1>3, <1>4, <1>6, <1>7, <1>8 DEF TurnInv

LEMMA PipelineNodeKeepsTurnInv == ASSUME TurnInv, PipelineNode PROVE TurnInv'
<1>1. /\ PipelineNext
      /\ ended' = CASE stage' = "end" /\ executed'  -> "rows"
                    [] stage' = "end" /\ ~executed' -> "over_budget"
                    [] stage' \in {"failed", "crashed"} -> "failed"
                    [] OTHER -> "none"
      /\ IF ended' = "failed" THEN UNCHANGED event ELSE Announce(stage, DidRun(stage))
      /\ UNCHANGED <<gateOnly, front>>
      /\ Merge
  BY DEF PipelineNode
<1>2. PipelineInv' BY <1>1, PipelineNextKeepsInv DEF TurnInv
<1>3. /\ stage \in Running /\ stage' # "idle" /\ contested' = contested
      /\ stage \notin {"generation", "validation"} \/ stage' = "failed"
             => candidates' = candidates
      /\ stage = "critique" /\ stage' # "failed" => (reports' = <<>> <=> OneCandidate)
      /\ stage = "probing" /\ stage' # "failed" /\ resolved' # {} => ~OneCandidate
  BY <1>1, StageEffects DEF TurnInv
<1>4. at = "planned" /\ at' = "planned" BY <1>1, <1>3 DEF TurnInv, Whereabouts, gateOnly, Running
<1>5. GateInv'
  <2>1. UNCHANGED gateVars BY <1>1, <1>3 DEF gateOnly, gateVars
  <2> QED BY <2>1, GateNextKeepsInv DEF TurnInv
<1>6. /\ ended' \in {"rows", "over_budget", "failed", "none"}
      /\ ended' = "rows" => stage' = "end" /\ executed'
      /\ ended' = "over_budget" => stage' = "end" /\ ~executed'
      /\ ended' # "failed" => stage' # "failed"
  <2> DEFINE ran == executed'
  <2>1. ended' = CASE stage' = "end" /\ ran  -> "rows"
                   [] stage' = "end" /\ ~ran -> "over_budget"
                   [] stage' \in {"failed", "crashed"} -> "failed"
                   [] OTHER -> "none"
    BY <1>1
  <2>2. ran \in BOOLEAN BY <1>2 DEF PipelineInv, PipelineTypeOK
  <2> HIDE DEF ran
  <2>3. /\ ended' \in {"rows", "over_budget", "failed", "none"}
        /\ ended' = "rows" => stage' = "end" /\ ran
        /\ ended' = "over_budget" => stage' = "end" /\ ~ran
        /\ ended' # "failed" => stage' # "failed"
    BY <2>1, <2>2
  <2> QED BY <2>3 DEF ran
<1>7. front' = "past" BY <1>1, <1>4 DEF TurnInv, TurnTypes, Whereabouts
<1>8. TurnTypes' BY <1>6, <1>7 DEF TurnTypes
<1>9. Whereabouts' BY <1>3, <1>4, <1>6, <1>7 DEF Whereabouts
<1>10. Gathered' BY <1>1, <1>4, MergeGathers DEF TurnInv
<1>11. Trail'
  <2>1. CASE ended' = "failed"
    <3>1. event' = event BY <1>1, <2>1
    <3>2. CASE candidates' = candidates
      <4>1. OneCandidate' <=> OneCandidate BY <1>3, <3>2 DEF OneCandidate
      <4> QED BY <1>4, <3>1, <4>1 DEF TurnInv, Trail
    <3>3. CASE stage \in {"generation", "validation"} /\ stage' # "failed"
      <4>1. stage' # "crashed" /\ stage' # "end" BY <1>1, <3>3 DEF PipelineNext, Generate, Survive, Retry,
            Escalate, Reject, Regenerate, SkipCritique, Critique, SkipProbing, Probe,
            Selected, CostGate, Execute, Fail
      <4> QED BY <1>1, <2>1, <3>3, <4>1
    <3> QED BY <1>3, <3>2, <3>3
  <2>2. CASE ended' # "failed"
    <3>1. event' = [stage |-> stage, status |-> IF DidRun(stage) THEN "completed" ELSE "skipped"]
      BY <1>1, <2>2 DEF Announce
    <3>2. CASE stage \notin {"critique", "probing"}
      BY <3>1, <3>2, OtherEventKeepsTrail
    <3>3. CASE stage = "critique"
      <4>1. DidRun("critique") <=> reports' # <<>> BY DEF DidRun
      <4>2. OneCandidate' <=> OneCandidate BY <1>3, <3>3 DEF OneCandidate
      <4>3. /\ event'.stage = "critique"
            /\ event'.status = "completed" => ~OneCandidate'
            /\ event'.status = "skipped" => OneCandidate'
        BY <1>3, <1>6, <2>2, <3>1, <3>3, <4>1, <4>2
      <4> QED BY <1>4, <4>3 DEF Trail
    <3>4. CASE stage = "probing"
      <4>1. DidRun("probing") <=> resolved' # {} BY DEF DidRun
      <4>2. OneCandidate' <=> OneCandidate BY <1>3, <3>4 DEF OneCandidate
      <4>3. event'.stage = "probing" /\ (event'.status = "completed" => ~OneCandidate')
        BY <1>3, <1>6, <2>2, <3>1, <3>4, <4>1, <4>2
      <4> QED BY <1>4, <4>3 DEF Trail
    <3> QED BY <3>2, <3>3, <3>4
  <2> QED BY <2>1, <2>2
<1> QED BY <1>2, <1>5, <1>8, <1>9, <1>10, <1>11 DEF TurnInv

LEMMA TurnNextKeepsInv == TurnInv /\ [QueryNext]_allVars => TurnInv'
<1> SUFFICES ASSUME TurnInv, [QueryNext]_allVars PROVE TurnInv' OBVIOUS
<1>1. CASE QueryNext
  BY <1>1, AskKeepsTurnInv, ClassifyKeepsTurnInv, ScopeKeepsTurnInv, LinkKeepsTurnInv,
     FrontFailsKeepsTurnInv, GateNodeKeepsTurnInv, ResumeKeepsTurnInv, RulesEditedKeepsTurnInv,
     PlanKeepsTurnInv, PlanFailsKeepsTurnInv, PipelineNodeKeepsTurnInv
  DEF QueryNext, GraphStep
<1>2. CASE UNCHANGED allVars
  <2>1. UNCHANGED <<contested, gateOnly, pipelineOnly, turnVars>> BY <1>2 DEF allVars
  <2>2. GateInv'
    <3>1. UNCHANGED gateVars BY <2>1 DEF gateOnly, gateVars
    <3> QED BY <3>1, GateNextKeepsInv DEF TurnInv
  <2>3. PipelineInv'
    <3>1. UNCHANGED pipelineVars BY <2>1 DEF pipelineOnly, pipelineVars
    <3> QED BY <3>1, PipelineNextKeepsInv DEF TurnInv
  <2>4. /\ UNCHANGED <<contested, at, missing, intent, front, ended, merged, event>>
        /\ UNCHANGED <<stage, escalated, retryCount, violations, candidates, reports, resolved,
                       selection, cost, executed, rounds>>
    BY <2>1 DEF gateOnly, pipelineOnly, turnVars
  <2>5. TurnTypes' BY <2>4 DEF TurnInv, TurnTypes
  <2>6. Whereabouts' BY <2>4 DEF TurnInv, Whereabouts, Fresh
  <2>7. Gathered'
    <3>1. Raw' = Raw BY <2>4 DEF Raw
    <3> QED BY <2>4, <3>1, UnseenKeepsGathered DEF TurnInv
  <2>8. Trail' BY <2>4 DEF TurnInv, Trail, OneCandidate
  <2> QED BY <2>2, <2>3, <2>5, <2>6, <2>7, <2>8 DEF TurnInv
<1> QED BY <1>1, <1>2

LEMMA TurnInvariance == QuerySpec => []TurnInv
BY TurnInitInv, TurnNextKeepsInv, PTL DEF QuerySpec

-----------------------------------------------------------------------------
\* What the response is read off, by how the turn ended.
LEMMA RawAtTheEnd ==
    ASSUME TurnInv
    PROVE  /\ Raw.asked = (IF at = "paused" THEN missing ELSE 0)
           /\ Raw.intent = intent
           /\ Raw.plan <=> at = "planned"
           /\ Raw.sql <=> selection.at # 0
           /\ Raw.rows <=> executed
           /\ Raw.cost = cost
           /\ ended = "paused" => at = "paused" /\ missing \in Dimensions
           /\ ended = "not_sql" => /\ at = "idle" /\ intent \in Intents \ {"analytical_sql"}
                                   /\ selection.at = 0 /\ ~executed /\ cost = 0
           /\ ended = "over_budget" => /\ at = "planned" /\ selection.at # 0
                                       /\ ~executed /\ cost > Budget
           /\ ended = "rows" => /\ at = "planned" /\ selection.at # 0
                                /\ executed /\ cost <= Budget
<1>1. Raw.asked = (IF at = "paused" THEN missing ELSE 0) BY DEF Raw
<1>2. Raw.intent = intent /\ Raw.cost = cost BY DEF Raw
<1>3. (Raw.plan <=> at = "planned") /\ (Raw.sql <=> selection.at # 0) /\ (Raw.rows <=> executed)
  BY DEF Raw
<1>4. ended = "paused" => at = "paused" /\ missing \in Dimensions
  BY DEF TurnInv, Whereabouts, GateInv, GateTypeOK
<1>5. ended = "not_sql" => /\ at = "idle" /\ intent \in Intents \ {"analytical_sql"}
                           /\ selection.at = 0 /\ ~executed /\ cost = 0
  BY DEF TurnInv, Whereabouts, Fresh, NoSelection
<1>6. ended = "over_budget" => /\ at = "planned" /\ selection.at # 0
                               /\ ~executed /\ cost > Budget
  BY DEF TurnInv, Whereabouts, PipelineInv, Choices
<1>7. ended = "rows" => /\ at = "planned" /\ selection.at # 0
                        /\ executed /\ cost <= Budget
  BY DEF TurnInv, Whereabouts, PipelineInv, RunsWithinBudget
<1> QED BY <1>1, <1>2, <1>3, <1>4, <1>5, <1>6, <1>7

\* The fields a response shows, whether they come from the state or the stream.
LEMMA ResponseFields ==
    ASSUME NEW raw, raw = [f \in Fields |-> raw[f]]
    PROVE  /\ Response(raw).narrowing <=> raw.asked = 0 /\ OverBudget(raw)
           /\ raw.asked # 0 => Response(raw).shown = [NothingMerged EXCEPT !.asked = raw.asked]
           /\ raw.asked = 0 =>
                  /\ Response(raw).shown.asked = raw.asked
                  /\ Response(raw).shown.plan = raw.plan
                  /\ Response(raw).shown.sql = raw.sql
                  /\ Response(raw).shown.rows = raw.rows
                  /\ ShortCircuited(raw) => Response(raw).shown.intent = raw.intent
                  /\ ~ShortCircuited(raw) => Response(raw).shown.intent = "none"
<1> DEFINE tells == ShortCircuited(raw)
           over == raw.asked = 0 /\ OverBudget(raw)
           shown == IF raw.asked # 0
                    THEN [NothingMerged EXCEPT !.asked = raw.asked]
                    ELSE [raw EXCEPT !.intent = IF tells THEN raw.intent ELSE "none"]
<1>1. Response(raw) = [shown |-> shown, narrowing |-> over] BY DEF Response
<1> HIDE DEF tells, over
<1>2. raw.asked # 0 => shown = [NothingMerged EXCEPT !.asked = raw.asked] OBVIOUS
<1>3. ASSUME raw.asked = 0
      PROVE  /\ shown.asked = raw.asked /\ shown.plan = raw.plan
             /\ shown.sql = raw.sql /\ shown.rows = raw.rows
             /\ tells => shown.intent = raw.intent
             /\ ~tells => shown.intent = "none"
  BY <1>3 DEF Fields
<1> HIDE DEF shown
<1>4. Response(raw).shown = shown /\ Response(raw).narrowing = over BY <1>1
<1> QED BY <1>2, <1>3, <1>4 DEF tells, over

LEMMA ResponseIsTheEnd == TurnInv => ResponseTellsTheEnd
<1> SUFFICES ASSUME TurnInv PROVE ResponseTellsTheEnd OBVIOUS
<1> DEFINE told == Response(Raw).shown
<1>1. Raw = [f \in Fields |-> Raw[f]] BY RawFields
<1>2. ASSUME ended = "paused"
      PROVE  told.asked \in Dimensions /\ told.intent = "none" /\ ~told.sql /\ ~told.rows
  <2>1. Raw.asked \in Dimensions /\ Raw.asked # 0
    BY <1>2, RawAtTheEnd, GateAssumption DEF Dimensions
  <2>2. told = [NothingMerged EXCEPT !.asked = Raw.asked] BY <1>1, <2>1, ResponseFields
  <2> HIDE DEF told
  <2> QED BY <2>1, <2>2 DEF NothingMerged
<1>3. ASSUME ended = "not_sql"
      PROVE  /\ told.intent \in Intents \ {"analytical_sql"}
             /\ ~told.sql /\ ~told.rows /\ ~Response(Raw).narrowing /\ ~told.plan
  <2>1. Raw.asked = 0 /\ ~Raw.plan /\ ~Raw.sql /\ ~Raw.rows /\ Raw.cost = 0
    BY <1>3, RawAtTheEnd
  <2>2. Raw.intent \in Intents \ {"analytical_sql"} BY <1>3, RawAtTheEnd
  <2>3. ~OverBudget(Raw) BY <2>1, PipelineAssumption DEF OverBudget
  <2>4. ShortCircuited(Raw) BY <2>1, <2>3 DEF ShortCircuited
  <2> QED BY <1>1, <2>1, <2>2, <2>3, <2>4, ResponseFields
<1>4. ASSUME ended = "over_budget"
      PROVE  Response(Raw).narrowing /\ told.sql /\ ~told.rows /\ told.intent = "none"
  <2>1. Raw.asked = 0 /\ Raw.sql /\ ~Raw.rows /\ OverBudget(Raw)
    BY <1>4, RawAtTheEnd DEF OverBudget
  <2>2. ~ShortCircuited(Raw) BY <2>1 DEF ShortCircuited
  <2> QED BY <1>1, <2>1, <2>2, ResponseFields
<1>5. ASSUME ended = "rows"
      PROVE  told.rows /\ told.sql /\ ~Response(Raw).narrowing /\ told.intent = "none"
  <2>1. Raw.asked = 0 /\ Raw.sql /\ Raw.rows BY <1>5, RawAtTheEnd
  <2>2. ~OverBudget(Raw)
    BY <1>5, RawAtTheEnd, PipelineAssumption DEF OverBudget, TurnInv, PipelineInv, PipelineTypeOK
  <2>3. ~ShortCircuited(Raw) BY <2>1 DEF ShortCircuited
  <2> QED BY <1>1, <2>1, <2>2, <2>3, ResponseFields
<1>6. ended = "paused" => Rendering(Response(Raw)) = ended
  BY <1>2, GateAssumption DEF Rendering, Dimensions
<1>7. ASSUME ended \in {"not_sql", "over_budget", "rows"} PROVE told.asked = 0
  <2>1. Raw.asked = 0 BY <1>7, RawAtTheEnd
  <2> QED BY <1>1, <2>1, ResponseFields
<1>8. ended = "not_sql" => Rendering(Response(Raw)) = ended
  BY <1>3, <1>7 DEF Rendering, Intents
<1>9. ended = "over_budget" => Rendering(Response(Raw)) = ended
  BY <1>4, <1>7 DEF Rendering
<1>10. ended = "rows" => Rendering(Response(Raw)) = ended
  BY <1>5, <1>7 DEF Rendering
<1> QED BY <1>2, <1>3, <1>4, <1>5, <1>6, <1>8, <1>9, <1>10 DEF ResponseTellsTheEnd

\* Two accounts of a turn that agree but for an intent no response shows make the
\* same response.
LEMMA SameResponse ==
    ASSUME NEW one, NEW other,
           one = [f \in Fields |-> one[f]], other = [f \in Fields |-> other[f]],
           \A f \in Fields \ {"intent"} : one[f] = other[f],
           \/ one.intent = other.intent
           \/ other.asked # 0
           \/ ~ShortCircuited(other)
    PROVE  Response(one) = Response(other)
<1>1. /\ one.asked = other.asked /\ one.sql = other.sql /\ one.rows = other.rows
      /\ one.cost = other.cost
  BY DEF Fields
<1>2. CASE one.intent = other.intent
  <2>1. \A f \in Fields : one[f] = other[f] BY <1>2
  <2>2. [f \in Fields |-> one[f]] = [f \in Fields |-> other[f]] BY <2>1
  <2>3. one = other BY <2>2
  <2> QED BY <2>3
<1>3. CASE other.asked # 0
  BY <1>1, <1>3 DEF Response
<1>4. CASE ~ShortCircuited(other)
  <2>1. ~ShortCircuited(one) BY <1>1, <1>4 DEF ShortCircuited, OverBudget
  <2>2. OverBudget(one) <=> OverBudget(other) BY <1>1 DEF OverBudget
  <2>3. [one EXCEPT !.intent = "none"] = [other EXCEPT !.intent = "none"]
    <3>1. [one EXCEPT !.intent = "none"]
              = [f \in Fields |-> IF f = "intent" THEN "none" ELSE one[f]]
      OBVIOUS
    <3>2. [other EXCEPT !.intent = "none"]
              = [f \in Fields |-> IF f = "intent" THEN "none" ELSE other[f]]
      OBVIOUS
    <3>3. \A f \in Fields : (IF f = "intent" THEN "none" ELSE one[f])
                                = (IF f = "intent" THEN "none" ELSE other[f])
      OBVIOUS
    <3> QED BY <3>1, <3>2, <3>3
  <2> DEFINE narrow == one.asked = 0 /\ OverBudget(one)
  <2>4. narrow = (other.asked = 0 /\ OverBudget(other)) BY <1>1, <2>2
  <2>5. Response(one) = [shown |-> IF one.asked # 0
                                   THEN [NothingMerged EXCEPT !.asked = one.asked]
                                   ELSE [one EXCEPT !.intent = "none"],
                         narrowing |-> narrow]
    BY <2>1 DEF Response
  <2>6. Response(other) = [shown |-> IF other.asked # 0
                                     THEN [NothingMerged EXCEPT !.asked = other.asked]
                                     ELSE [other EXCEPT !.intent = "none"],
                           narrowing |-> narrow]
    BY <1>4, <2>4 DEF Response
  <2> QED BY <1>1, <2>3, <2>5, <2>6
<1> QED BY <1>2, <1>3, <1>4

LEMMA StreamsTellTheSame == TurnInv => StreamIsTruthful
<1> SUFFICES ASSUME TurnInv PROVE StreamIsTruthful OBVIOUS
<1>1. ASSUME ended \in {"paused", "not_sql", "over_budget", "rows"}
      PROVE  Response(merged) = Response(Raw)
  <2>1. /\ merged = [f \in Fields |-> merged[f]] /\ Raw = [f \in Fields |-> Raw[f]]
        /\ \A f \in Fields \ {"intent"} : merged[f] = Raw[f]
    BY RawFields DEF TurnInv, Gathered
  <2>2. CASE ended = "paused"
    <3>1. Raw.asked # 0 BY <2>2, RawAtTheEnd, GateAssumption DEF Dimensions
    <3> QED BY <2>1, <3>1, SameResponse
  <2>3. CASE ended = "not_sql"
    <3>1. merged.intent = Raw.intent BY <2>3, RawAtTheEnd DEF TurnInv, Gathered
    <3> QED BY <2>1, <3>1, SameResponse
  <2>4. CASE ended \in {"over_budget", "rows"}
    <3>1. Raw.sql BY <2>4, RawAtTheEnd
    <3> QED BY <2>1, <3>1, SameResponse DEF ShortCircuited
  <2> QED BY <1>1, <2>2, <2>3, <2>4
<1>2. Trail BY DEF TurnInv
<1> QED BY <1>1, <1>2 DEF StreamIsTruthful, Trail

-----------------------------------------------------------------------------
\* The two halves keep their types in each other's company, through any number of
\* questions on a thread.
THEOREM TurnTypeCorrect == QuerySpec => []QueryTypeOK
<1>1. TurnInv => QueryTypeOK
  BY DEF TurnInv, QueryTypeOK, GateInv, PipelineInv, TurnTypes
<1> QED BY <1>1, TurnInvariance, PTL

\* A response says how the turn it is about ended, whatever earlier turns left in
\* the thread's checkpoint.
THEOREM ResponsesTellTheEnd == QuerySpec => []ResponseTellsTheEnd
BY TurnInvariance, ResponseIsTheEnd, PTL

\* The streaming and the blocking endpoint report a turn alike, resumed or not, and
\* the trail does not claim a stage that did not run.
THEOREM StreamsAreTruthful == QuerySpec => []StreamIsTruthful
BY TurnInvariance, StreamsTellTheSame, PTL

\* What AmbiguityGate promises of one turn holds of every turn of a thread: a turn
\* starts over, whatever the last one left.
THEOREM TurnsAskOnce ==
    QuerySpec => [](NeverAskedTwice /\ QuestionsWithinBudget /\ PlanningSettlesEverything
                        /\ GuessesYield)
<1>1. TurnInv => /\ NeverAskedTwice /\ QuestionsWithinBudget /\ PlanningSettlesEverything
                 /\ GuessesYield
  BY DEF TurnInv, GateInv
<1> QED BY <1>1, TurnInvariance, PTL

\* And so does what CandidatePipeline promises.
THEOREM TurnsAreBounded ==
    QuerySpec => [](RegenerationIsBounded /\ SelectionHasAViableCandidate
                        /\ RankingIsDeterministic /\ RunsWithinBudget)
<1>1. TurnInv => /\ RegenerationIsBounded /\ SelectionHasAViableCandidate
                 /\ RankingIsDeterministic /\ RunsWithinBudget
  BY AttemptsAreBounded DEF TurnInv, PipelineInv
<1> QED BY <1>1, TurnInvariance, PTL
=============================================================================
