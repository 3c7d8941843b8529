---------------------------- MODULE IngestionFeed ----------------------------
(***************************************************************************)
(* How a browser follows the ingestion of one datasource: the two          *)
(* generators of api/sse/ingestion_events.py, which poll the job table,    *)
(* and the page that shows a job, opens a stream for it, asks for its      *)
(* state and retries it.                                                   *)
(*                                                                         *)
(* The queue is IngestionQueue; here a job is its status, and the worker   *)
(* finishes it some day.  Responses and events are in flight for as long   *)
(* as they like; events of a stream stay in order.                         *)
(***************************************************************************)
EXTENDS Naturals, Sequences

CONSTANTS
    MaxAttempts,   \* bounds of the model: jobs of the datasource,
    MaxPageLoads,      \* times the page loads its datasources,
    MaxLosses      \* connections lost

ASSUME FeedAssumption == MaxAttempts \in Nat \ {0} /\ MaxPageLoads \in Nat /\ MaxLosses \in Nat

VARIABLES
    job,        \* the status of every job of the datasource, oldest first
    gone,       \* the datasource was removed, its jobs with it
    shown,      \* the status the page shows, "absent" without a job
    watching,   \* streamsRef has the datasource
    stream,     \* the stream of the page
    reply,      \* responses in flight: to the load, to a retry, to the removal
    previous,       \* transitions: the state the feed saw last
    seeded,     \* whether it has a baseline
    told,       \* jobs whose end the feed announced, in order
    loads, losses

feedVars == <<job, gone, shown, watching, stream, reply, previous, seeded, told, loads, losses>>

Over == {"succeeded", "failed"}
Unfinished == {"queued", "running"}
Closed == [at |-> "closed", job |-> 0, sent |-> "none", events |-> <<>>]
Latest == Len(job)

FeedInit ==
    /\ job = <<"queued">>
    /\ gone = FALSE
    /\ shown = "absent"
    /\ watching = FALSE
    /\ stream = Closed
    /\ reply = [load |-> "none", retry |-> "none", removal |-> "none"]
    /\ previous = "none" /\ seeded = FALSE /\ told = <<>>
    /\ loads = 0 /\ losses = 0

(***************************************************************************)
(* The worker, as far as the row shows it                                  *)
(***************************************************************************)
Work ==
    /\ ~gone
    /\ \/ job[Latest] = "queued" /\ job' = [job EXCEPT ![Latest] = "running"]
       \/ job[Latest] = "running" /\ \E s \in Over : job' = [job EXCEPT ![Latest] = s]
    /\ UNCHANGED <<gone, shown, watching, stream, reply, previous, seeded, told, loads, losses>>

(***************************************************************************)
(* The page                                                                *)
(***************************************************************************)

\* watch: at most one stream by name.
Watch ==
    IF watching THEN UNCHANGED <<watching, stream>>
    ELSE watching' = TRUE /\ stream' = [Closed EXCEPT !.at = "opening"]

\* load asks for the state of the job: when the page opens and when its token is renewed.
Load ==
    /\ loads < MaxPageLoads
    /\ reply.load = "none"
    /\ ~gone
    /\ loads' = loads + 1
    /\ reply' = [reply EXCEPT !.load = job[Latest]]
    /\ UNCHANGED <<job, gone, shown, watching, stream, previous, seeded, told, losses>>

Loaded ==
    /\ reply.load # "none"
    /\ reply' = [reply EXCEPT !.load = "none"]
    /\ shown' = reply.load
    /\ IF reply.load \in Unfinished THEN Watch ELSE UNCHANGED <<watching, stream>>
    /\ UNCHANGED <<job, gone, previous, seeded, told, loads, losses>>

\* onRetry, offered for a job shown as failed; a job still unfinished is a conflict.
Retry ==
    /\ shown = "failed"
    /\ reply.retry = "none"
    /\ ~gone
    /\ job[Latest] \in Over
    /\ Len(job) < MaxAttempts
    /\ job' = Append(job, "queued")
    /\ reply' = [reply EXCEPT !.retry = "queued"]
    /\ UNCHANGED <<gone, shown, watching, stream, previous, seeded, told, loads, losses>>

\* Mutant of Retried: the new job is shown and not followed.
RetriedUnwatched ==
    /\ reply.retry # "none"
    /\ reply' = [reply EXCEPT !.retry = "none"]
    /\ shown' = reply.retry
    /\ UNCHANGED <<job, gone, watching, stream, previous, seeded, told, loads, losses>>

Retried ==
    /\ reply.retry # "none"
    /\ reply' = [reply EXCEPT !.retry = "none"]
    /\ shown' = reply.retry
    /\ Watch
    /\ UNCHANGED <<job, gone, previous, seeded, told, loads, losses>>

\* onRemove: the jobs go with the datasource, the stream once the response is there.
Remove ==
    /\ ~gone
    /\ reply.removal = "none"
    /\ gone' = TRUE
    /\ reply' = [reply EXCEPT !.removal = "removed"]
    /\ UNCHANGED <<job, shown, watching, stream, previous, seeded, told, loads, losses>>

Removed ==
    /\ reply.removal = "removed"
    /\ reply' = [reply EXCEPT !.removal = "done"]
    /\ shown' = "absent" /\ watching' = FALSE /\ stream' = Closed
    /\ UNCHANGED <<job, gone, previous, seeded, told, loads, losses>>

(***************************************************************************)
(* The stream of one job                                                   *)
(***************************************************************************)

\* stream_onboarding: the job is the latest when the request arrives.
Open ==
    /\ stream.at = "opening"
    /\ ~gone
    /\ stream' = [stream EXCEPT !.at = "open", !.job = Latest]
    /\ UNCHANGED <<job, gone, shown, watching, reply, previous, seeded, told, loads, losses>>

\* One poll of ingestion_event_stream: steps if the fingerprint changed, the terminal
\* event if the job is finished.
Poll ==
    /\ stream.at = "open"
    /\ ~gone
    /\ LET s == job[stream.job] IN
       /\ s # stream.sent
       /\ stream' = [stream EXCEPT
             !.sent = s,
             !.at = IF s \in Over THEN "sent" ELSE "open",
             !.events = IF s \in Over THEN @ \o <<"step", s>> ELSE Append(@, "step")]
    /\ UNCHANGED <<job, gone, shown, watching, reply, previous, seeded, told, loads, losses>>

\* MAX_JOB_SECONDS: the stream ends in an error, the job goes on.
Expire ==
    /\ stream.at = "open"
    /\ ~gone
    /\ stream' = [stream EXCEPT !.at = "sent", !.events = Append(@, "failed")]
    /\ UNCHANGED <<job, gone, shown, watching, reply, previous, seeded, told, loads, losses>>

\* A poll finds no row, the request no job, or the connection breaks; or the body ends,
\* and nothing says how.
Broken ==
    /\ stream.at \in {"opening", "open", "sent"}
    /\ \/ /\ gone /\ stream.at # "sent"
          /\ stream' = [stream EXCEPT !.at = "sent", !.events = Append(@, "failed")]
          /\ UNCHANGED losses
       \/ /\ losses < MaxLosses
          /\ losses' = losses + 1
          /\ \E last \in {"failed", "end"} :
                stream' = [stream EXCEPT !.at = "sent", !.events = <<last>>]
    /\ UNCHANGED <<job, gone, shown, watching, reply, previous, seeded, told, loads>>

\* The handlers of watch: a step shows the job as running, the last event how it ended,
\* and the stream is forgotten; one that just ends is not.  Nothing is shown of a job the
\* page does not know.
Receive ==
    /\ stream.events # <<>>
    /\ LET event == Head(stream.events) IN
       /\ shown' = IF event = "end" \/ (shown = "absent" /\ event # "succeeded") THEN shown
                   ELSE IF event = "step" THEN "running" ELSE event
       /\ stream' = CASE event = "step" -> [stream EXCEPT !.events = Tail(@)]
                      [] event = "end" -> [Closed EXCEPT !.at = "ended"]
                      [] event \in Over -> Closed
       /\ watching' = (watching /\ event \notin Over)
    /\ UNCHANGED <<job, gone, reply, previous, seeded, told, loads, losses>>

(***************************************************************************)
(* The feed of transitions                                                 *)
(***************************************************************************)

\* Mutant of Baseline: a new tab is told of what ended before it was opened.
NoBaseline == TRUE

Baseline == seeded

\* transitions, over the latest job of the datasource.
FeedPoll ==
    /\ ~gone
    /\ ~seeded \/ previous # job[Latest]
    /\ previous' = job[Latest]
    /\ seeded' = TRUE
    /\ told' = IF Baseline /\ previous # job[Latest] /\ job[Latest] \in Over
               THEN Append(told, Latest) ELSE told
    /\ UNCHANGED <<job, gone, shown, watching, stream, reply, loads, losses>>

\* The tab's connection breaks, or its token is renewed: a new stream, a new baseline.
FeedRestarts ==
    /\ seeded
    /\ losses < MaxLosses
    /\ losses' = losses + 1
    /\ seeded' = FALSE /\ previous' = "none"
    /\ UNCHANGED <<job, gone, shown, watching, stream, reply, told, loads>>

StreamStep == Open \/ Poll \/ Expire \/ Broken \/ Receive

FeedNext ==
    \/ Work
    \/ Load \/ Loaded \/ Retry \/ Retried \/ Remove \/ Removed
    \/ StreamStep
    \/ FeedPoll \/ FeedRestarts

FeedSpec == FeedInit /\ [][FeedNext]_feedVars

-----------------------------------------------------------------------------
FeedTypeOK ==
    /\ job \in Seq(Unfinished \cup Over) /\ Len(job) \in 1..MaxAttempts
    /\ shown \in {"absent"} \cup Unfinished \cup Over
    /\ watching \in BOOLEAN /\ gone \in BOOLEAN /\ seeded \in BOOLEAN
    /\ stream \in [at : {"closed", "opening", "open", "sent", "ended"}, job : 0..Len(job),
                   sent : {"none"} \cup Unfinished \cup Over,
                   events : Seq({"step", "end"} \cup Over)]
    /\ stream.at = "open" => stream.job # 0
    /\ reply \in [load : {"none"} \cup Unfinished \cup Over, retry : {"none", "queued"},
                  removal : {"none", "removed", "done"}]
    /\ told \in Seq(1..Len(job))

\* The end of a job is announced once, and in order, over polls, retries and new
\* streams: "opening a tab must not replay every ingestion that ever finished as though
\* it had just happened".
ToldOnce == \A i, k \in DOMAIN told : i < k => told[i] < told[k]

\* An unfinished job on the page stops being one, even if its worker never ends it, unless
\* its stream just ended: that one is never followed again.
SpinnerStops == (shown \in Unfinished) ~> (shown \notin Unfinished \/ stream.at = "ended")
=============================================================================
