-------------------------- MODULE ThreadTurnsProofs --------------------------
(***************************************************************************)
(* What ThreadTurns promises, proved for any set of requests, finite or    *)
(* not, and any number of store faults and lost requests.                  *)
(*                                                                         *)
(* The invariant adds two facts to the properties the runs check.  The     *)
(* length a request read is never beyond the history it is about to append *)
(* to, so that a sequence not taken is the next one.  And an answer that   *)
(* was handed over is taken up, or its request is still before its first   *)
(* checkpoint, with its question pending and the lock held, or it failed.  *)
(***************************************************************************)
EXTENDS ThreadTurns, FiniteSetTheorems, TLAPS

\* What a request read of the history is a length the history had, and a request
\* past the thread's creation finds the thread.
SeenIsPast == \A r \in Requests :
    /\ pc[r] \in {"create", "touch", "append"} => seen[r] <= Cardinality(turns)
    /\ pc[r] \in {"touch", "append"} => thread

\* What became of the question that was handed to a request.
Answers == \A r \in Requests :
    /\ handed[r] <= asked
    /\ pc[r] \in {"idle", "waiting"} => handed[r] = 0
    /\ used[r] = 0 \/ used[r] = handed[r]
    /\ pc[r] = "running" => used[r] = 0 /\ (handed[r] = 0 \/ handed[r] = pending)
    /\ handed[r] # used[r] => pc[r] \in {"running", "error", "broken", "gone"}

Inv == /\ TypeOK
       /\ IsFiniteSet(turns)
       /\ OneTurnInFlight
       /\ QuestionAnsweredOnce
       /\ Answers
       /\ SeenIsPast
       /\ HistoryIsDense

LEMMA InitInv == Init => Inv
<1> SUFFICES ASSUME Init PROVE Inv OBVIOUS
<1>1. Cardinality(turns) = 0 /\ IsFiniteSet(turns) BY FS_EmptySet DEF Init
<1>2. TypeOK
  <2>1. /\ pc \in [Requests -> {"idle", "waiting"} \cup InFlight \cup Recording \cup Ended]
        /\ kind \in [Requests -> {"start", "resume"}]
        /\ how \in [Requests -> {"blocking", "stream", "cli"}]
        /\ handed \in [Requests -> Nat] /\ used \in [Requests -> Nat] /\ seen \in [Requests -> Nat]
    BY DEF Init
  <2>2. lock \in Requests \cup {NoRequest} /\ asked \in Nat /\ pending \in 0..asked
    BY DEF Init
  <2>3. /\ thread \in BOOLEAN /\ (turns # {} => thread)
        /\ turns \subseteq [sequence : Nat, by : Requests]
    BY DEF Init
  <2>4. warned \subseteq Requests /\ faults \in 0..MaxFaults BY TurnsAssumption DEF Init
  <2> QED BY <2>1, <2>2, <2>3, <2>4 DEF TypeOK
<1>3. OneTurnInFlight BY TurnsAssumption DEF Init, OneTurnInFlight, InFlight
<1>4. QuestionAnsweredOnce /\ Answers BY DEF Init, QuestionAnsweredOnce, Answers
<1>5. SeenIsPast BY DEF Init, SeenIsPast
<1>6. HistoryIsDense BY <1>1 DEF Init, HistoryIsDense
<1> QED BY <1>1, <1>2, <1>3, <1>4, <1>5, <1>6 DEF Inv

-----------------------------------------------------------------------------
\* The steps that leave the history alone keep it dense: only the append of a
\* request may be under way, and no request whose turn is saved goes anywhere.
LEMMA HistoryStays ==
    ASSUME Inv, UNCHANGED turns,
           \A r \in Requests : pc[r] = "answered" => pc'[r] = "answered",
           \A r \in Requests :
               /\ pc'[r] \in {"create", "touch", "append"} => seen'[r] <= Cardinality(turns)
               /\ pc'[r] \in {"touch", "append"} => thread'
    PROVE  SeenIsPast' /\ HistoryIsDense' /\ IsFiniteSet(turns)'
<1>1. SeenIsPast' BY DEF SeenIsPast
<1>2. IsFiniteSet(turns)' BY DEF Inv
<1>3. HistoryIsDense' BY DEF Inv, HistoryIsDense
<1> QED BY <1>1, <1>2, <1>3

\* Nor do steps that leave the questions alone disturb who was handed which.
LEMMA QuestionsStay ==
    ASSUME Inv, UNCHANGED questions, NEW r \in Requests, NEW place,
           pc' = [pc EXCEPT ![r] = place],
           pc[r] \notin {"error", "broken", "gone"},
           place \notin {"idle", "running"}, place = "waiting" => pc[r] = "idle",
           handed[r] = used[r] \/ place \in {"error", "broken", "gone"}
    PROVE  QuestionAnsweredOnce' /\ Answers'
<1>1. \A q \in Requests \ {r} : pc'[q] = pc[q]
  BY DEF Inv, TypeOK
<1>2. pc'[r] = place BY DEF Inv, TypeOK
<1>3. Answers'
  BY <1>1, <1>2 DEF Inv, Answers, questions
<1>4. \A q \in Requests : Fruitless(q) => Fruitless(q)'
  BY <1>1 DEF Fruitless, questions
<1>5. QuestionAnsweredOnce'
  BY <1>4 DEF Inv, QuestionAnsweredOnce, questions
<1> QED BY <1>3, <1>5

LEMMA ArriveKeepsInv ==
    ASSUME Inv, NEW r \in Requests, Arrive(r)
    PROVE  Inv'
<1>0. /\ pc' = [pc EXCEPT ![r] = "waiting"] /\ pc[r] = "idle"
      /\ UNCHANGED <<lock, questions, history, faults>>
  BY DEF Arrive, Goto
<1>1. TypeOK'
  <2>1. kind' \in [Requests -> {"start", "resume"}]
        /\ how' \in [Requests -> {"blocking", "stream", "cli"}]
    BY TurnsAssumption DEF Inv, TypeOK, Arrive
  <2> QED BY <1>0, <2>1 DEF Inv, TypeOK, history, questions
<1>2. OneTurnInFlight' BY <1>0 DEF Inv, TypeOK, OneTurnInFlight, InFlight
<1>3. QuestionAnsweredOnce' /\ Answers'
  <2>1. PICK place \in {"waiting"} : pc' = [pc EXCEPT ![r] = place] BY <1>0
  <2>2. UNCHANGED questions /\ handed[r] = used[r] BY <1>0 DEF Inv, Answers
  <2> QED BY <1>0, <2>1, <2>2, QuestionsStay
<1>4. SeenIsPast' /\ HistoryIsDense' /\ IsFiniteSet(turns)'
  BY <1>0, HistoryStays DEF Inv, TypeOK, SeenIsPast, history
<1> QED BY <1>1, <1>2, <1>3, <1>4 DEF Inv

\* The question goes to a second request only if the first one failed: its run is
\* over, or it would hold the lock, and what was taken up is not pending.
LEMMA RunKeepsInv ==
    ASSUME Inv, NEW r \in Requests, Run(r)
    PROVE  Inv'
<1>0. /\ pc' = [pc EXCEPT ![r] = "running"] /\ pc[r] = "waiting" /\ lock = NoRequest
      /\ lock' = r
      /\ handed' = [handed EXCEPT ![r] = IF kind[r] = "resume" THEN pending ELSE 0]
      /\ UNCHANGED <<kind, how, asked, pending, used, history, faults>>
  BY DEF Run, Goto, Free
<1>1. TypeOK' BY <1>0 DEF Inv, TypeOK, history, InFlight
<1>2. OneTurnInFlight'
  BY <1>0, TurnsAssumption DEF Inv, TypeOK, OneTurnInFlight, InFlight
<1>3. /\ \A q \in Requests \ {r} : pc'[q] = pc[q] /\ handed'[q] = handed[q]
      /\ pc'[r] = "running" /\ used[r] = 0
      /\ handed'[r] = 0 \/ handed'[r] = pending
  BY <1>0 DEF Inv, TypeOK, Answers
<1>4. Answers'
  BY <1>0, <1>3 DEF Inv, TypeOK, Answers
<1>5. ASSUME NEW q \in Requests \ {r}, handed[q] = pending, pending # 0 PROVE Fruitless(q)
  <2>1. pc[q] \notin InFlight BY <1>0, TurnsAssumption DEF Inv, OneTurnInFlight
  <2>2. used[q] = 0 BY <1>5 DEF Inv, Answers, QuestionAnsweredOnce
  <2> QED BY <1>5, <2>1, <2>2 DEF Inv, Answers, Fruitless, InFlight
<1>6. \A q \in Requests \ {r} : Fruitless(q) => Fruitless(q)'
  BY <1>0, <1>3 DEF Fruitless
<1>7. QuestionAnsweredOnce'
  <2>1. ASSUME NEW q \in Requests PROVE used'[q] # 0 => used'[q] <= asked' /\ used'[q] # pending'
    BY <1>0 DEF Inv, QuestionAnsweredOnce
  <2>2. ASSUME NEW q \in Requests, NEW o \in Requests \ {q}, used'[q] # 0
        PROVE  used'[q] # used'[o]
    BY <1>0, <2>2 DEF Inv, QuestionAnsweredOnce
  <2>3. ASSUME NEW q \in Requests, NEW o \in Requests \ {q}, handed'[q] # 0,
               handed'[q] = handed'[o]
        PROVE  Fruitless(q)' \/ Fruitless(o)'
    <3>1. CASE q = r BY <1>3, <1>5, <1>6, <2>3, <3>1
    <3>2. CASE o = r BY <1>3, <1>5, <1>6, <2>3, <3>2
    <3>3. CASE q # r /\ o # r
      BY <1>3, <1>6, <2>3, <3>3 DEF Inv, QuestionAnsweredOnce
    <3> QED BY <3>1, <3>2, <3>3
  <2> QED BY <2>1, <2>2, <2>3 DEF QuestionAnsweredOnce
<1>8. SeenIsPast' /\ HistoryIsDense' /\ IsFiniteSet(turns)'
  BY <1>0, HistoryStays DEF Inv, TypeOK, SeenIsPast, history
<1> QED BY <1>1, <1>2, <1>4, <1>7, <1>8 DEF Inv

\* What a checkpoint takes up was pending until then, so nobody else's was.
LEMMA CommitKeepsInv ==
    ASSUME Inv, NEW r \in Requests, Commit(r)
    PROVE  Inv'
<1>0. /\ pc' = [pc EXCEPT ![r] = "committed"] /\ pc[r] = "running"
      /\ pending' = 0
      /\ used' = [used EXCEPT ![r] = handed[r]]
      /\ UNCHANGED <<kind, how, lock, asked, handed, history, faults>>
  BY DEF Commit, Goto, LeftPending
<1>1. TypeOK' BY <1>0 DEF Inv, TypeOK, history, InFlight
<1>2. OneTurnInFlight' BY <1>0 DEF Inv, TypeOK, OneTurnInFlight, InFlight
<1>3. /\ \A q \in Requests \ {r} : pc'[q] = pc[q] /\ used'[q] = used[q]
      /\ pc'[r] = "committed" /\ used'[r] = handed[r]
      /\ handed[r] = 0 \/ handed[r] = pending
  BY <1>0 DEF Inv, TypeOK, Answers
<1>4. \A q \in Requests \ {r} : pc[q] # "running"
  BY <1>0 DEF Inv, OneTurnInFlight, InFlight
<1>5. Answers'
  BY <1>0, <1>3, <1>4 DEF Inv, TypeOK, Answers
<1>6. \A q \in Requests : Fruitless(q) => Fruitless(q)' /\ q # r
  BY <1>0, <1>3 DEF Fruitless
<1>7. QuestionAnsweredOnce'
  <2>1. ASSUME NEW q \in Requests PROVE used'[q] # 0 => used'[q] <= asked' /\ used'[q] # pending'
    BY <1>0, <1>3 DEF Inv, QuestionAnsweredOnce, Answers
  <2>2. ASSUME NEW q \in Requests, NEW o \in Requests \ {q}, used'[q] # 0
        PROVE  used'[q] # used'[o]
    BY <1>3, <2>2 DEF Inv, QuestionAnsweredOnce
  <2>3. ASSUME NEW q \in Requests, NEW o \in Requests \ {q}, handed'[q] # 0,
               handed'[q] = handed'[o]
        PROVE  Fruitless(q)' \/ Fruitless(o)'
    BY <1>0, <1>6, <2>3 DEF Inv, QuestionAnsweredOnce
  <2> QED BY <2>1, <2>2, <2>3 DEF QuestionAnsweredOnce
<1>8. SeenIsPast' /\ HistoryIsDense' /\ IsFiniteSet(turns)'
  BY <1>0, HistoryStays DEF Inv, TypeOK, SeenIsPast, history
<1> QED BY <1>1, <1>2, <1>5, <1>7, <1>8 DEF Inv

\* A request that waits and fails was handed nothing.
LEMMA WaitingFailsKeepsInv ==
    ASSUME Inv, NEW r \in Requests, NothingToResume(r) \/ LockFails(r)
    PROVE  Inv'
<1>0. /\ pc' = [pc EXCEPT ![r] = "error"] /\ pc[r] = "waiting"
      /\ UNCHANGED <<kind, how, lock, questions, history>>
      /\ faults' \in 0..MaxFaults
  BY TurnsAssumption DEF NothingToResume, LockFails, Goto, Inv, TypeOK
<1>1. TypeOK' BY <1>0 DEF Inv, TypeOK, history, questions, Ended
<1>2. OneTurnInFlight' BY <1>0 DEF Inv, TypeOK, OneTurnInFlight, InFlight
<1>3. QuestionAnsweredOnce' /\ Answers'
  <2>1. PICK place \in {"error"} : pc' = [pc EXCEPT ![r] = place] BY <1>0
  <2> QED BY <1>0, <2>1, QuestionsStay
<1>4. SeenIsPast' /\ HistoryIsDense' /\ IsFiniteSet(turns)'
  BY <1>0, HistoryStays DEF Inv, TypeOK, SeenIsPast, history
<1> QED BY <1>1, <1>2, <1>3, <1>4 DEF Inv

\* A run that pauses asks a question no answer was handed to yet.
LEMMA EndKeepsQuestions ==
    ASSUME Inv, NEW r \in Requests, pc[r] = "committed", Pauses(r) \/ Finishes(r),
           UNCHANGED <<handed, used>>,
           NEW place \in Recording \cup Ended, pc' = [pc EXCEPT ![r] = place]
    PROVE  /\ QuestionAnsweredOnce' /\ Answers'
           /\ asked' \in Nat /\ pending' \in 0..asked'
<1>1. asked' \in Nat /\ pending' \in 0..asked'
  BY DEF Inv, TypeOK, Pauses, Finishes
<1>2. CASE Finishes(r)
  <2>1. UNCHANGED questions BY <1>2 DEF Finishes, questions
  <2>2. handed[r] = used[r] BY DEF Inv, Answers
  <2> QED BY <1>1, <2>1, <2>2, QuestionsStay DEF Recording, Ended
<1>3. CASE Pauses(r)
  <2>1. asked' = asked + 1 /\ pending' = asked + 1 BY <1>3 DEF Pauses
  <2>2. /\ \A q \in Requests \ {r} : pc'[q] = pc[q] /\ pc[q] # "running"
        /\ pc'[r] = place /\ handed[r] = used[r]
    BY DEF Inv, TypeOK, Answers, OneTurnInFlight, InFlight
  <2>3. Answers'
    BY <2>1, <2>2 DEF Inv, TypeOK, Answers, Recording, Ended
  <2>4. \A q \in Requests : Fruitless(q) => Fruitless(q)'
    BY <2>2 DEF Fruitless
  <2>5. QuestionAnsweredOnce'
    <3>1. ASSUME NEW q \in Requests
          PROVE  used'[q] # 0 => used'[q] <= asked' /\ used'[q] # pending'
      BY <2>1 DEF Inv, TypeOK, QuestionAnsweredOnce
    <3>2. ASSUME NEW q \in Requests, NEW o \in Requests \ {q}
          PROVE  /\ used'[q] # 0 => used'[q] # used'[o]
                 /\ handed'[q] # 0 /\ handed'[q] = handed'[o] => Fruitless(q)' \/ Fruitless(o)'
      BY <2>4 DEF Inv, QuestionAnsweredOnce
    <3> QED BY <3>1, <3>2 DEF QuestionAnsweredOnce
  <2> QED BY <1>1, <2>3, <2>5
<1> QED BY <1>2, <1>3

LEMMA ReturnKeepsInv ==
    ASSUME Inv, NEW r \in Requests, Return(r)
    PROVE  Inv'
<1>1. PICK place \in Recording \cup Ended : pc' = [pc EXCEPT ![r] = place]
                                            /\ place \in {"answered", "list"}
  BY DEF Return, Goto, AfterRun, Recording, Ended
<1>2. pc[r] = "committed" /\ lock' = NoRequest /\ UNCHANGED <<kind, how, handed, used, history, faults>>
  BY DEF Return
<1>3. /\ QuestionAnsweredOnce' /\ Answers'
      /\ asked' \in Nat /\ pending' \in 0..asked'
  BY <1>1, <1>2, EndKeepsQuestions DEF Return
<1>4. TypeOK' BY <1>1, <1>2, <1>3 DEF Inv, TypeOK, history
<1>5. OneTurnInFlight'
  BY <1>1, <1>2, TurnsAssumption DEF Inv, TypeOK, OneTurnInFlight, InFlight
<1>6. SeenIsPast' /\ HistoryIsDense' /\ IsFiniteSet(turns)'
  BY <1>1, <1>2, HistoryStays DEF Inv, TypeOK, SeenIsPast, history
<1> QED BY <1>3, <1>4, <1>5, <1>6 DEF Inv

LEMMA RunFailsKeepsInv ==
    ASSUME Inv, NEW r \in Requests, RunFails(r)
    PROVE  Inv'
<1>1. PICK place \in {"error", "broken"} : pc' = [pc EXCEPT ![r] = place]
  BY DEF RunFails, Raises, Goto
<1>2. /\ pc[r] \in InFlight /\ lock' = NoRequest
      /\ UNCHANGED <<kind, how, questions, history, faults>>
  BY DEF RunFails
<1>3. TypeOK' BY <1>1, <1>2 DEF Inv, TypeOK, history, questions, Ended
<1>4. OneTurnInFlight'
  BY <1>1, <1>2, TurnsAssumption DEF Inv, TypeOK, OneTurnInFlight, InFlight
<1>5. QuestionAnsweredOnce' /\ Answers' BY <1>1, <1>2, QuestionsStay DEF InFlight
<1>6. SeenIsPast' /\ HistoryIsDense' /\ IsFiniteSet(turns)'
  BY <1>1, <1>2, HistoryStays DEF Inv, TypeOK, SeenIsPast, history, InFlight
<1> QED BY <1>3, <1>4, <1>5, <1>6 DEF Inv

-----------------------------------------------------------------------------
\* Recording a turn touches neither the lock nor the questions.
LEMMA RecordingKeepsInv ==
    ASSUME Inv, NEW r \in Requests, pc[r] \in Recording,
           NEW place \in Recording \cup Ended, pc' = [pc EXCEPT ![r] = place],
           UNCHANGED <<kind, how, lock, questions, turns>>,
           thread' \in BOOLEAN, thread => thread',
           seen' \in [Requests -> Nat], warned' \subseteq Requests, faults' \in 0..MaxFaults,
           \A q \in Requests \ {r} : seen'[q] = seen[q],
           place \in {"create", "touch", "append"} => seen'[r] <= Cardinality(turns),
           place \in {"touch", "append"} => thread'
    PROVE  Inv'
<1>1. TypeOK' BY DEF Inv, TypeOK, questions
<1>2. OneTurnInFlight'
  BY DEF Inv, TypeOK, OneTurnInFlight, InFlight, Recording, Ended
<1>3. QuestionAnsweredOnce' /\ Answers'
  <2>1. handed[r] = used[r] BY DEF Inv, Answers, Recording
  <2> QED BY <2>1, QuestionsStay DEF Recording, Ended
<1>4. SeenIsPast' /\ HistoryIsDense' /\ IsFiniteSet(turns)'
  <2>1. ASSUME NEW q \in Requests, pc[q] = "answered" PROVE pc'[q] = "answered"
    BY <2>1 DEF Inv, TypeOK, Recording
  <2>2. ASSUME NEW q \in Requests, pc'[q] \in {"create", "touch", "append"}
        PROVE  seen'[q] <= Cardinality(turns)
    BY <2>2 DEF Inv, TypeOK, SeenIsPast
  <2>3. ASSUME NEW q \in Requests, pc'[q] \in {"touch", "append"} PROVE thread'
    BY <2>3 DEF Inv, TypeOK, SeenIsPast
  <2> QED BY <2>1, <2>2, <2>3, HistoryStays
<1> QED BY <1>1, <1>2, <1>3, <1>4 DEF Inv

\* However a write fails, its request has ended, and at most it was warned.
LEMMA FailedWriteEnds ==
    ASSUME Inv, NEW r \in Requests, Unsaved(r) \/ Breaks(r)
    PROVE  /\ \E place \in Recording \cup Ended :
                  /\ pc' = [pc EXCEPT ![r] = place]
                  /\ place \notin {"create", "touch", "append"}
           /\ warned' \subseteq Requests
BY DEF Inv, TypeOK, Unsaved, Breaks, Goto, Recording, Ended

LEMMA ListKeepsInv ==
    ASSUME Inv, NEW r \in Requests, List(r)
    PROVE  Inv'
<1>1. /\ pc[r] \in Recording
      /\ UNCHANGED <<kind, how, lock, questions, thread, turns, faults>>
      /\ seen' = [seen EXCEPT ![r] = Cardinality(turns)]
  BY DEF List, Recording
<1>2. Cardinality(turns) \in Nat BY FS_CardinalityType DEF Inv
<1>3. PICK place \in Recording \cup Ended :
          /\ pc' = [pc EXCEPT ![r] = place]
          /\ place \in {"touch", "append"} => thread
          /\ warned' \subseteq Requests
  BY DEF Inv, TypeOK, List, Breaks, Goto, Recording, Ended
<1>4. /\ seen' \in [Requests -> Nat] /\ seen'[r] = Cardinality(turns)
      /\ \A q \in Requests \ {r} : seen'[q] = seen[q]
  BY <1>1, <1>2 DEF Inv, TypeOK
<1>5. /\ thread' \in BOOLEAN /\ (thread => thread')
      /\ place \in {"touch", "append"} => thread'
      /\ faults' \in 0..MaxFaults
  BY <1>1, <1>3 DEF Inv, TypeOK
<1>6. seen'[r] <= Cardinality(turns) BY <1>2, <1>4
<1>7. UNCHANGED <<kind, how, lock, questions, turns>> BY <1>1
<1> QED BY <1>1, <1>3, <1>4, <1>5, <1>6, <1>7, RecordingKeepsInv

LEMMA CreateKeepsInv ==
    ASSUME Inv, NEW r \in Requests, Create(r)
    PROVE  Inv'
<1>1. seen[r] <= Cardinality(turns) BY DEF Inv, SeenIsPast, Create
<1>2. "append" \in Recording BY DEF Recording
<1> QED BY <1>1, <1>2, RecordingKeepsInv DEF Inv, TypeOK, Create, Goto, Recording

LEMMA TouchKeepsInv ==
    ASSUME Inv, NEW r \in Requests, Touch(r)
    PROVE  Inv'
<1>1. seen[r] <= Cardinality(turns) /\ thread BY DEF Inv, SeenIsPast, Touch
<1>2. "append" \in Recording BY DEF Recording
<1> QED BY <1>1, <1>2, RecordingKeepsInv DEF Inv, TypeOK, Touch, Goto, Recording, history

\* A sequence that is not taken is the length of the history, because it is no
\* more than that, and all the smaller ones are taken.
LEMMA AppendKeepsInv ==
    ASSUME Inv, NEW r \in Requests, Append(r)
    PROVE  Inv'
<1>1. CASE Taken(r)
  <2>1. Unsaved(r) /\ UNCHANGED turns BY <1>1 DEF Append
  <2>2. PICK place \in Recording \cup Ended :
            /\ pc' = [pc EXCEPT ![r] = place]
            /\ place \notin {"create", "touch", "append"}
            /\ warned' \subseteq Requests
    BY <2>1, FailedWriteEnds
  <2>3. /\ pc[r] \in Recording
        /\ UNCHANGED <<kind, how, lock, questions, thread, seen, faults>>
    BY DEF Append, Recording
  <2> QED BY <2>1, <2>2, <2>3, RecordingKeepsInv DEF Inv, TypeOK
<1>2. CASE ~Taken(r)
  <2> DEFINE row == [sequence |-> seen[r], by |-> r]
             length == Cardinality(turns)
  <2>1. /\ pc[r] = "append" /\ pc' = [pc EXCEPT ![r] = "answered"]
        /\ turns' = turns \cup {row}
        /\ UNCHANGED <<kind, how, lock, questions, thread, seen, faults, warned>>
    BY <1>2 DEF Append, Goto
  <2>2. IsFiniteSet(turns) /\ length \in Nat BY FS_CardinalityType DEF Inv
  <2>3. seen[r] \in Nat /\ seen[r] <= length BY <2>1 DEF Inv, TypeOK, SeenIsPast
  <2>4. seen[r] = length
    <3>1. seen[r] \notin {old.sequence : old \in turns} BY <1>2 DEF Taken
    <3> QED BY <3>1, <2>2, <2>3 DEF Inv, HistoryIsDense
  <2>5. row \notin turns BY <1>2 DEF Taken
  <2>6. IsFiniteSet(turns') /\ Cardinality(turns') = length + 1
    BY <2>1, <2>2, <2>5, FS_AddElement
  <2>7. HistoryIsDense'
    <3>1. {old.sequence : old \in turns'} = {old.sequence : old \in turns} \cup {length}
      <4>1. row.sequence = length BY <2>4
      <4> HIDE DEF row, length
      <4> QED BY <4>1, <2>1
    <3>2. {old.sequence : old \in turns'} = 0..(Cardinality(turns') - 1)
      <4>1. {old.sequence : old \in turns} = 0..(length - 1) BY DEF Inv, HistoryIsDense
      <4>2. 0..(length - 1) \cup {length} = 0..length BY <2>2
      <4> HIDE DEF length
      <4> QED BY <4>1, <4>2, <3>1, <2>2, <2>6
    <3>3. \A old \in turns : old.by # r BY <2>1 DEF Inv, HistoryIsDense
    <3>4. \A old, other \in turns' : old.by = other.by => old = other
      BY <3>3, <2>1 DEF Inv, HistoryIsDense
    <3>5. {old.by : old \in turns'} \subseteq {q \in Requests : pc'[q] = "answered"}
      BY <2>1 DEF Inv, TypeOK, HistoryIsDense
    <3> QED BY <3>2, <3>4, <3>5 DEF HistoryIsDense
  <2>8. SeenIsPast'
    BY <2>1, <2>2, <2>6 DEF Inv, TypeOK, SeenIsPast
  <2>9. thread BY <2>1 DEF Inv, SeenIsPast
  <2>10. TypeOK' BY <2>1, <2>3, <2>9 DEF Inv, TypeOK, questions, Ended
  <2>11. OneTurnInFlight' BY <2>1 DEF Inv, TypeOK, OneTurnInFlight, InFlight
  <2>12. QuestionAnsweredOnce' /\ Answers'
    <3>1. handed[r] = used[r] BY <2>1 DEF Inv, Answers
    <3> QED BY <2>1, <3>1, QuestionsStay
  <2> QED BY <2>6, <2>7, <2>8, <2>10, <2>11, <2>12 DEF Inv
<1> QED BY <1>1, <1>2

LEMMA StoreFaultKeepsInv ==
    ASSUME Inv, NEW r \in Requests, StoreFault(r)
    PROVE  Inv'
<1>1. Unsaved(r) \/ Breaks(r) BY DEF StoreFault
<1>2. PICK place \in Recording \cup Ended :
          /\ pc' = [pc EXCEPT ![r] = place]
          /\ place \notin {"create", "touch", "append"}
          /\ warned' \subseteq Requests
  BY <1>1, FailedWriteEnds
<1>3. /\ pc[r] \in Recording /\ faults' \in 0..MaxFaults
      /\ UNCHANGED <<kind, how, lock, questions, thread, turns, seen>>
  BY TurnsAssumption DEF StoreFault, Inv, TypeOK
<1> QED BY <1>2, <1>3, RecordingKeepsInv DEF Inv, TypeOK

LEMMA VanishKeepsInv ==
    ASSUME Inv, NEW r \in Requests, Vanish(r)
    PROVE  Inv'
<1>1. /\ (pc[r] = "committed" /\ Pauses(r)) \/ Finishes(r)
      /\ "gone" \in Recording \cup Ended
  BY DEF Vanish, Ended
<1>2. /\ pc[r] \notin {"idle"} \cup Ended /\ faults' \in 0..MaxFaults
      /\ pc' = [pc EXCEPT ![r] = "gone"]
      /\ lock' = IF lock = r THEN NoRequest ELSE lock
      /\ UNCHANGED <<kind, how, handed, used, history>>
  BY TurnsAssumption DEF Vanish, Goto, Inv, TypeOK
<1>3. /\ QuestionAnsweredOnce' /\ Answers'
      /\ asked' \in Nat /\ pending' \in 0..asked'
  <2>1. CASE pc[r] = "committed" /\ Pauses(r) BY <1>1, <1>2, <2>1, EndKeepsQuestions
  <2>2. CASE Finishes(r)
    <3>1. UNCHANGED questions BY <1>2, <2>2 DEF Finishes, questions
    <3>2. asked' \in Nat /\ pending' \in 0..asked' BY <3>1 DEF Inv, TypeOK, questions
    <3> QED BY <1>2, <3>1, <3>2, QuestionsStay DEF Ended
  <2> QED BY <1>1, <2>1, <2>2
<1>4. TypeOK' BY <1>2, <1>3 DEF Inv, TypeOK, history, Ended
<1>5. OneTurnInFlight'
  BY <1>2, TurnsAssumption DEF Inv, TypeOK, OneTurnInFlight, InFlight
<1>6. SeenIsPast' /\ HistoryIsDense' /\ IsFiniteSet(turns)'
  BY <1>2, HistoryStays DEF Inv, TypeOK, SeenIsPast, history, Ended
<1> QED BY <1>3, <1>4, <1>5, <1>6 DEF Inv

LEMMA NextKeepsInv == Inv /\ [Next]_vars => Inv'
<1>1. ASSUME Inv, NEW r \in Requests, Arrive(r) \/ Step(r) \/ LockFails(r) \/ StoreFault(r) \/ Vanish(r)
      PROVE  Inv'
  BY <1>1, ArriveKeepsInv, RunKeepsInv, CommitKeepsInv, WaitingFailsKeepsInv, ReturnKeepsInv,
     RunFailsKeepsInv, ListKeepsInv, CreateKeepsInv, TouchKeepsInv, AppendKeepsInv,
     StoreFaultKeepsInv, VanishKeepsInv DEF Step
<1>2. ASSUME Inv, UNCHANGED vars PROVE Inv'
  <2>1. TypeOK' /\ OneTurnInFlight' /\ IsFiniteSet(turns)'
    BY <1>2 DEF vars, Inv, TypeOK, OneTurnInFlight
  <2>2. QuestionAnsweredOnce' /\ Answers'
    BY <1>2 DEF vars, Inv, QuestionAnsweredOnce, Fruitless, Answers
  <2>3. SeenIsPast' /\ HistoryIsDense' BY <1>2 DEF vars, Inv, SeenIsPast, HistoryIsDense
  <2> QED BY <2>1, <2>2, <2>3 DEF Inv
<1> QED BY <1>1, <1>2 DEF Next

LEMMA Invariance == Spec => []Inv
BY InitInv, NextKeepsInv, PTL DEF Spec

\* Every variable keeps its type, and a thread with turns has its row.
THEOREM TypeCorrect == Spec => []TypeOK
BY Invariance, PTL DEF Inv

\* A thread has at most one turn in flight, and no other request holds its lock,
\* whatever streams are dropped and processes killed.
THEOREM OneInFlight == Spec => []OneTurnInFlight
BY Invariance, PTL DEF Inv

\* The history of a thread has no gap and no turn twice, however the requests that
\* write it race outside the lock.
THEOREM DenseHistory == Spec => []HistoryIsDense
BY Invariance, PTL DEF Inv

\* No two answers to a question are taken up, nor is one that was answered pending
\* again; and a question is handed on only after a run that came to nothing.
THEOREM AnsweredOnce == Spec => []QuestionAnsweredOnce
BY Invariance, PTL DEF Inv

-----------------------------------------------------------------------------
\* Only three steps end in "answered": the return of a command, an append, and a
\* failed write of a stream, which warns.
LEMMA AnswersNext ==
    TypeOK /\ AnswerIsInHistory /\ [Next]_vars => AnswerIsInHistory'
<1> SUFFICES ASSUME TypeOK, AnswerIsInHistory, [Next]_vars,
                    NEW q \in Requests, pc'[q] = "answered", how'[q] # "cli"
             PROVE  Saved(q)' \/ q \in warned'
  BY DEF AnswerIsInHistory
<1> DEFINE Kept == (\E row \in turns' : row.by = q) \/ q \in warned'
<1> SUFFICES Kept BY DEF Saved
<1>0. pc \in [Requests -> {"idle", "waiting"} \cup InFlight \cup Recording \cup Ended]
  BY DEF TypeOK
<1>1. ASSUME pc[q] = "answered", how'[q] = how[q], turns \subseteq turns', warned \subseteq warned'
      PROVE  Kept
  BY <1>1 DEF AnswerIsInHistory, Saved
<1>2. ASSUME NEW r \in Requests, Append(r) PROVE Kept
  <2>1. how' = how /\ turns \subseteq turns' /\ warned \subseteq warned'
    BY <1>2 DEF Append, Unsaved
  <2>2. CASE q # r
    <3>1. pc'[q] = pc[q] BY <1>0, <1>2, <2>2 DEF Append, Unsaved, Goto
    <3> QED BY <1>1, <2>1, <3>1
  <2>3. CASE q = r
    <3>1. CASE Taken(r)
      BY <1>0, <1>2, <2>3, <3>1 DEF Append, Unsaved, Goto
    <3>2. CASE ~Taken(r)
      <4>1. [sequence |-> seen[r], by |-> r] \in turns' BY <1>2, <3>2 DEF Append
      <4> QED BY <2>3, <4>1
    <3> QED BY <3>1, <3>2
  <2> QED BY <2>2, <2>3
<1>3. ASSUME NEW r \in Requests, StoreFault(r) \/ List(r) PROVE Kept
  <2>1. how' = how /\ turns = turns' /\ warned \subseteq warned'
    BY <1>3 DEF StoreFault, List, Unsaved, Breaks
  <2>2. CASE q # r
    <3>1. pc'[q] = pc[q] BY <1>0, <1>3, <2>2 DEF StoreFault, List, Unsaved, Breaks, Goto
    <3> QED BY <1>1, <2>1, <3>1
  <2>3. CASE q = r
    BY <1>0, <1>3, <2>3 DEF StoreFault, List, Unsaved, Breaks, Goto
  <2> QED BY <2>2, <2>3
<1>4. ASSUME NEW r \in Requests, Return(r) PROVE Kept
  <2>1. UNCHANGED <<how, turns, warned>> BY <1>4 DEF Return, history
  <2>2. q # r BY <1>0, <1>4, <2>1 DEF Return, AfterRun, Goto
  <2>3. pc'[q] = pc[q] BY <1>0, <1>4, <2>2 DEF Return, Goto
  <2> QED BY <1>1, <2>1, <2>3
<1>5. ASSUME NEW r \in Requests, Arrive(r) PROVE Kept
  <2>1. q # r BY <1>0, <1>5 DEF Arrive, Goto
  <2>2. pc'[q] = pc[q] /\ how'[q] = how[q] BY <1>0, <1>5, <2>1 DEF Arrive, Goto, TypeOK
  <2> QED BY <1>1, <1>5, <2>2 DEF Arrive, history
<1>6. ASSUME NEW r \in Requests,
             \/ Run(r) \/ Commit(r) \/ NothingToResume(r) \/ LockFails(r) \/ RunFails(r)
             \/ Create(r) \/ Touch(r) \/ Vanish(r)
      PROVE  Kept
  <2>1. UNCHANGED <<how, turns, warned>>
    BY <1>6 DEF Run, Commit, NothingToResume, LockFails, RunFails, Create, Touch, Vanish, history
  <2>2. pc'[q] = pc[q]
    BY <1>0, <1>6 DEF Run, Commit, NothingToResume, LockFails, RunFails, Raises, Create, Touch,
                      Vanish, Goto
  <2> QED BY <1>1, <2>1, <2>2
<1>7. ASSUME UNCHANGED vars PROVE Kept BY <1>1, <1>7 DEF vars
<1> QED BY <1>2, <1>3, <1>4, <1>5, <1>6, <1>7 DEF Next, Step

\* A turn that was answered is in the history or its stream was warned, however
\* writes fail and collide.
THEOREM AnswersAreKept == Spec => []AnswerIsInHistory
<1>1. Init => AnswerIsInHistory BY DEF Init, AnswerIsInHistory
<1> QED BY <1>1, AnswersNext, TypeCorrect, PTL DEF Spec
=============================================================================
