----------------------------- MODULE ThreadTurns -----------------------------
(***************************************************************************)
(* The requests of one conversation thread: each takes the thread's        *)
(* advisory lock, runs the graph from a new question or from the answer to *)
(* the pending one, releases the lock, and then writes the turn to the     *)
(* thread's history (api/query_turn.py, api/sse/event_stream.py,           *)
(* repositories/query/thread_lock_repository.py and the two history        *)
(* repositories).                                                          *)
(*                                                                         *)
(* The graph is two steps here.  Its first checkpoint takes the pending    *)
(* question off the thread: until then a run that is lost or fails leaves  *)
(* the question to be asked of again.  After it the graph finishes, pauses *)
(* on a question, or fails.  Questions are numbered in the order they are  *)
(* asked.                                                                  *)
(***************************************************************************)
EXTENDS Integers, FiniteSets

CONSTANTS
    Requests,   \* the requests of the thread
    Transports, \* how they may be sent: POST /queries, GET /queries/stream, the command
    MaxFaults,  \* bound of the model: store calls that raise, and lost requests
    NoRequest

ASSUME TurnsAssumption ==
    /\ MaxFaults \in Nat
    /\ NoRequest \notin Requests
    /\ Transports \subseteq {"blocking", "stream", "cli"}

VARIABLES
    pc,       \* where a request is
    kind,     \* a new question, or an answer
    how,      \* its transport
    lock,     \* the holder of pg_advisory_lock
    asked,    \* how many questions the thread's turns asked
    pending,  \* the interrupt in the checkpoint: a question, 0 if none
    handed,   \* the question the request's answer was handed to, 0 if none
    used,     \* the one a checkpoint shows it was taken up for, 0 if none
    thread,   \* whether the genql_thread row exists
    turns,    \* the genql_turn rows
    seen,     \* sequence, as record_turn read it
    warned,   \* the requests told that their turn was not saved
    faults

vars == <<pc, kind, how, lock, asked, pending, handed, used, thread, turns, seen, warned,
          faults>>

\* The graph runs, before and after the first checkpoint of the run.
InFlight == {"running", "committed"}
\* The steps of record_turn, each a transaction of its own.
Recording == {"list", "create", "touch", "append"}
\* A request ends with a result or a clarification, with an error, or, "broken",
\* with an exception its transport does not handle; or it is lost.
Ended == {"answered", "error", "broken", "gone"}

TypeOK ==
    /\ pc \in [Requests -> {"idle", "waiting"} \cup InFlight \cup Recording \cup Ended]
    /\ kind \in [Requests -> {"start", "resume"}]
    /\ how \in [Requests -> {"blocking", "stream", "cli"}]
    /\ lock \in Requests \cup {NoRequest}
    /\ asked \in Nat
    /\ pending \in 0..asked
    /\ handed \in [Requests -> Nat]
    /\ used \in [Requests -> Nat]
    /\ thread \in BOOLEAN
    /\ turns \subseteq [sequence : Nat, by : Requests]
    /\ seen \in [Requests -> Nat]
    /\ warned \subseteq Requests
    /\ faults \in 0..MaxFaults
    /\ turns # {} => thread

Saved(r) == \E row \in turns : row.by = r

-----------------------------------------------------------------------------
Init ==
    /\ pc = [r \in Requests |-> "idle"]
    /\ kind = [r \in Requests |-> "start"]
    /\ how = [r \in Requests |-> "blocking"]
    /\ lock = NoRequest
    /\ asked = 0
    /\ pending = 0
    /\ handed = [r \in Requests |-> 0]
    /\ used = [r \in Requests |-> 0]
    /\ thread = FALSE
    /\ turns = {}
    /\ seen = [r \in Requests |-> 0]
    /\ warned = {}
    /\ faults = 0

Goto(r, place) == pc' = [pc EXCEPT ![r] = place]

history == <<thread, turns, seen, warned>>
questions == <<asked, pending, handed, used>>

\* A question or, when one was ever asked, an answer.
Arrive(r) ==
    /\ pc[r] = "idle"
    /\ \E k \in {"start", "resume"}, h \in Transports :
           /\ k = "resume" => asked > 0
           /\ kind' = [kind EXCEPT ![r] = k]
           /\ how' = [how EXCEPT ![r] = h]
    /\ Goto(r, "waiting")
    /\ UNCHANGED <<lock, questions, history, faults>>

Free == lock = NoRequest

\* The lock is taken, and the graph starts over or is handed the answer to the
\* question that is pending, which stays in the checkpoint for now.
Run(r) ==
    /\ pc[r] = "waiting"
    /\ Free
    /\ kind[r] = "resume" => pending # 0
    /\ lock' = r
    /\ handed' = [handed EXCEPT ![r] = IF kind[r] = "resume" THEN pending ELSE 0]
    /\ Goto(r, "running")
    /\ UNCHANGED <<kind, how, asked, pending, used, history, faults>>

\* Mutant of LeftPending: the question stays in the checkpoint.
StillPending == pending

\* The answer consumes the question; a new question of the user gives it up.
LeftPending == 0

\* The first checkpoint of the run: its input, or the node that asked, resumed.
Commit(r) ==
    /\ pc[r] = "running"
    /\ pending' = LeftPending
    /\ used' = [used EXCEPT ![r] = handed[r]]
    /\ Goto(r, "committed")
    /\ UNCHANGED <<kind, how, lock, asked, handed, history, faults>>

\* ThreadLockError: Postgres cannot be reached, or breaks the wait off.
LockFails(r) ==
    /\ pc[r] = "waiting"
    /\ faults < MaxFaults
    /\ faults' = faults + 1
    /\ Goto(r, "error")
    /\ UNCHANGED <<kind, how, lock, questions, history>>

\* UnknownThreadError: there is no question to answer.
NothingToResume(r) ==
    /\ pc[r] = "waiting"
    /\ Free
    /\ kind[r] = "resume" /\ pending = 0
    /\ Goto(r, "error")
    /\ UNCHANGED <<kind, how, lock, questions, history, faults>>

Pauses(r) == asked' = asked + 1 /\ pending' = asked'

Finishes(r) == UNCHANGED <<asked, pending>>

\* Mutant of AfterRun: the row is appended without looking at the thread.
AppendAfterRun(r) == IF how[r] = "cli" THEN "answered" ELSE "append"

\* What comes after a run: only a request with a user is recorded.
AfterRun(r) == IF how[r] = "cli" THEN "answered" ELSE "list"

\* The run ends, paused or finished, and the lock is released.
Return(r) ==
    /\ pc[r] = "committed"
    /\ lock' = NoRequest
    /\ Pauses(r) \/ Finishes(r)
    /\ Goto(r, AfterRun(r))
    /\ UNCHANGED <<kind, how, handed, used, history, faults>>

\* A GenqlError is an error of the turn; nobody handles any other exception.
Raises(r) == Goto(r, "error") \/ Goto(r, "broken")

\* Mutant of RunFails: an exception leaves the lock held.
RunFailsLocked(r) ==
    /\ pc[r] \in InFlight
    /\ Raises(r)
    /\ UNCHANGED <<kind, how, lock, questions, history, faults>>

\* A node or the checkpointer raises: the lock is released all the same, and the
\* checkpoint stays as it is.
RunFails(r) ==
    /\ pc[r] \in InFlight
    /\ lock' = NoRequest
    /\ Raises(r)
    /\ UNCHANGED <<kind, how, questions, history, faults>>

-----------------------------------------------------------------------------
\* Nobody handles it: the stream just stops, the request is an internal error.
Breaks(r) == Goto(r, "broken") /\ UNCHANGED warned

\* Mutant of Unsaved: the failed write is swallowed.
UnsavedSilently(r) ==
    /\ UNCHANGED warned
    /\ IF how[r] = "stream" THEN Goto(r, "answered") ELSE Goto(r, "error")

\* A QueryError: a warning before the stream's terminal event, but the error of
\* a request that blocks.
Unsaved(r) ==
    IF how[r] = "stream" THEN Goto(r, "answered") /\ warned' = warned \cup {r}
                         ELSE Goto(r, "error") /\ UNCHANGED warned

\* list_for_thread.  The first turn of a thread creates it, and an answer cannot:
\* record_turn asserts that a first turn names a datasource.
List(r) ==
    /\ pc[r] = "list"
    /\ seen' = [seen EXCEPT ![r] = Cardinality(turns)]
    /\ IF turns # {} THEN Goto(r, "touch") /\ UNCHANGED warned
       ELSE IF kind[r] = "start" THEN Goto(r, "create") /\ UNCHANGED warned
       ELSE Breaks(r)
    /\ UNCHANGED <<kind, how, lock, questions, thread, turns, faults>>

\* ON CONFLICT DO NOTHING.
Create(r) ==
    /\ pc[r] = "create"
    /\ thread' = TRUE
    /\ Goto(r, "append")
    /\ UNCHANGED <<kind, how, lock, questions, turns, seen, warned, faults>>

Touch(r) ==
    /\ pc[r] = "touch"
    /\ Goto(r, "append")
    /\ UNCHANGED <<kind, how, lock, questions, history, faults>>

\* Mutant of Taken: there is no unique constraint.
NeverTaken(r) == FALSE

\* genql_turn_thread_sequence_uq
Taken(r) == \E row \in turns : row.sequence = seen[r]

\* append
Append(r) ==
    /\ pc[r] = "append"
    /\ IF Taken(r)
       THEN Unsaved(r) /\ UNCHANGED turns
       ELSE /\ turns' = turns \cup {[sequence |-> seen[r], by |-> r]}
            /\ Goto(r, "answered")
            /\ UNCHANGED warned
    /\ UNCHANGED <<kind, how, lock, questions, thread, seen, faults>>

\* The store raises.  Only create and append turn that into a QueryError.
StoreFault(r) ==
    /\ pc[r] \in Recording
    /\ faults < MaxFaults
    /\ faults' = faults + 1
    /\ IF pc[r] \in {"create", "append"} THEN Unsaved(r) ELSE Breaks(r)
    /\ UNCHANGED <<kind, how, lock, questions, thread, turns, seen>>

\* The client of a stream goes away, or the process dies: the lock goes with the
\* connection that holds it, and the checkpoint stays as it is, the question of
\* before still pending or a pause in it already.
Vanish(r) ==
    /\ pc[r] \notin {"idle"} \cup Ended
    /\ faults < MaxFaults
    /\ faults' = faults + 1
    /\ lock' = IF lock = r THEN NoRequest ELSE lock
    /\ (pc[r] = "committed" /\ Pauses(r)) \/ Finishes(r)
    /\ Goto(r, "gone")
    /\ UNCHANGED <<kind, how, handed, used, history>>

Step(r) ==
    \/ Run(r) \/ NothingToResume(r) \/ Commit(r)
    \/ Return(r) \/ RunFails(r)
    \/ List(r) \/ Create(r) \/ Touch(r) \/ Append(r)

Next == \E r \in Requests : Arrive(r) \/ Step(r) \/ LockFails(r) \/ StoreFault(r) \/ Vanish(r)

Spec == Init /\ [][Next]_vars

\* Threads are scheduled, runs end, and Postgres hands the lock to its waiters in
\* turn.  Nobody has to ask anything.
FairSpec == Spec /\ \A r \in Requests : SF_vars(Step(r))

(***************************************************************************)
(* Safety                                                                  *)
(***************************************************************************)

\* One thread, one turn in flight (thread_lock_repository.py), and the lock is
\* held by no one else.
OneTurnInFlight == \A r \in Requests : pc[r] \in InFlight <=> lock = r

\* The rows of a thread are numbered 0, 1, 2 and so on without a gap, one per
\* turn, however requests that read the same length race.
HistoryIsDense ==
    /\ {row.sequence : row \in turns} = 0..(Cardinality(turns) - 1)
    /\ {row.by : row \in turns} \subseteq {r \in Requests : pc[r] = "answered"}
    /\ \A row, other \in turns : row.by = other.by => row = other

\* The request ended without its answer being taken up.
Fruitless(r) == pc[r] \in {"error", "broken", "gone"} /\ used[r] = 0

\* A question is answered once (query_graph.py, resume_query).  A checkpoint takes
\* up one answer to it, and then it is never pending again; and it is handed to
\* two requests only if one of them ended before a checkpoint took its answer up:
\* a run that failed or was lost so early leaves the question to the next.
QuestionAnsweredOnce ==
    \A r \in Requests :
        /\ used[r] # 0 => used[r] <= asked /\ used[r] # pending
        /\ \A q \in Requests \ {r} :
               /\ used[r] # 0 => used[r] # used[q]
               /\ handed[r] # 0 /\ handed[r] = handed[q] => Fruitless(r) \/ Fruitless(q)

\* "A client that sees `result` can reload and find it", unless it was warned
\* (event_stream.py).
AnswerIsInHistory ==
    \A r \in Requests : pc[r] = "answered" /\ how[r] # "cli" => Saved(r) \/ r \in warned

\* "Exactly one terminal event": a stream never just stops, neither when the graph
\* fails nor when the history cannot be written (event_stream.py).
StreamsEnd == \A r \in Requests : how[r] = "stream" => pc[r] # "broken"

(***************************************************************************)
(* Liveness                                                                *)
(***************************************************************************)

\* A request that waits for the thread's lock gets its turn, however the requests
\* before it end.
RequestsEnd == \A r \in Requests : pc[r] = "waiting" ~> pc[r] \in Ended
=============================================================================
