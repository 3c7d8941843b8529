------------------------------ MODULE ThreadPage ------------------------------
(***************************************************************************)
(* The page of one thread in the web interface: the question handed over   *)
(* from the page before, the turn in flight and its stream, the transcript *)
(* and its reloads, and the effect that runs whenever the access token     *)
(* changes.                                                                *)
(*                                                                         *)
(* A turn is the number of its request, in the order requests reach the    *)
(* server; the server is ThreadTurns, and here it records a turn, fails it *)
(* or cannot save it, some day.  An aborted stream delivers nothing any    *)
(* more, whatever becomes of its turn.                                     *)
(***************************************************************************)
EXTENDS Naturals, Sequences, FiniteSets

CONSTANTS
    MaxRenewals,     \* bounds of the model: access tokens,
    MaxRequests,   \* turns asked for,
    MaxLoads       \* times the thread is loaded

ASSUME PageAssumption == MaxRenewals \in Nat /\ MaxRequests \in Nat /\ MaxLoads \in Nat

VARIABLES
    handoff,      \* whether the page was opened with a question to ask
    token,        \* the access token, 0 while the session is resolved
    bubble,       \* pending: the question on screen without its answer
    streaming,    \* abortRef: the turn of the live stream, 0 without one
    event,        \* how the stream ends, on its way to the page
    cut,          \* the last stream's body ended before a terminal event
    transcript,   \* detail.turns, NoDetail before the first
    nextSeq,      \* turnSeqRef
    loadFailed,   \* loadFailed
    replies,      \* transcripts on their way to the page
    request,      \* every turn asked for: its question, who asked, what became of it
    recorded,     \* the thread's history at the server
    received,     \* turns whose result arrived
    overlapped,   \* whether a load and a stream were under way together
    loaded        \* loads so far

pageVars == <<handoff, token, bubble, streaming, event, cut, transcript, nextSeq, loadFailed,
              replies, request, recorded, received, overlapped, loaded>>

serverVars == <<request, recorded>>
NoBubble == [question |-> 0, failed |-> FALSE]
NoDetail == <<0>>
First == 1      \* the question of the handoff

Asking == bubble # NoBubble /\ ~bubble.failed

\* A new thread with a question to ask, or one that was asked before.
PageInit ==
    /\ handoff \in BOOLEAN
    /\ token = 0
    /\ bubble = IF handoff THEN [question |-> First, failed |-> FALSE] ELSE NoBubble
    /\ streaming = 0 /\ event = "none" /\ cut = FALSE
    /\ transcript = NoDetail /\ nextSeq = 0
    /\ loadFailed = FALSE
    /\ replies = {}
    /\ request = IF handoff THEN <<>>
                 ELSE <<[question |-> First, by |-> "before", fate |-> "recorded"]>>
    /\ recorded = IF handoff THEN <<>> ELSE <<1>>
    /\ received = {} /\ overlapped = FALSE /\ loaded = 0

-----------------------------------------------------------------------------
\* openStream: what was streaming is aborted.
OpenStream(question, by) ==
    /\ Len(request) < MaxRequests
    /\ request' = Append(request, [question |-> question, by |-> by, fate |-> "running"])
    /\ streaming' = Len(request) + 1
    /\ event' = "none" /\ cut' = FALSE
    /\ overlapped' = (overlapped \/ replies # {})
    /\ UNCHANGED <<recorded, received>>

\* loadThread; a thread that has no turn yet is not found.
SendLoad ==
    /\ loaded < MaxLoads
    /\ loaded' = loaded + 1
    /\ replies' = replies \cup {[load |-> loaded', turns |-> recorded]}
    /\ overlapped' = (overlapped \/ streaming # 0)

\* The session is there, or was renewed here or by another tab: the effect asks the
\* question of the handoff, or loads the thread.
Renew ==
    /\ token < MaxRenewals
    /\ token' = token + 1
    /\ IF handoff THEN OpenStream(First, "effect") /\ UNCHANGED <<replies, loaded>>
                  ELSE SendLoad /\ UNCHANGED <<streaming, event, cut, received, serverVars>>
    /\ UNCHANGED <<handoff, bubble, transcript, nextSeq, loadFailed>>

\* onSubmit, answer: not while a turn runs, nor before there is anything to show.
Submit ==
    /\ token # 0
    /\ ~Asking
    /\ transcript # NoDetail \/ bubble # NoBubble
    /\ bubble' = [question |-> Len(request) + 1, failed |-> FALSE]
    /\ OpenStream(Len(request) + 1, "user")
    /\ UNCHANGED <<handoff, token, transcript, nextSeq, loadFailed, replies, loaded>>

\* onRetry: the question of the bubble again.
RetryTurn ==
    /\ token # 0
    /\ bubble.failed
    /\ bubble' = [bubble EXCEPT !.failed = FALSE]
    /\ OpenStream(bubble.question, "user")
    /\ UNCHANGED <<handoff, token, transcript, nextSeq, loadFailed, replies, loaded>>

\* Mutant of Stop: the stream is aborted, the bubble left as it is.
StopQuietly ==
    /\ Asking /\ token # 0
    /\ streaming' = 0 /\ event' = "none"
    /\ UNCHANGED <<handoff, token, bubble, cut, transcript, nextSeq, loadFailed, replies, serverVars,
                   received, overlapped, loaded>>

\* stop hangs up; the turn goes on at the server.
Stop ==
    /\ Asking /\ token # 0
    /\ streaming' = 0 /\ event' = "none"
    /\ bubble' = [bubble EXCEPT !.failed = TRUE]
    /\ UNCHANGED <<handoff, token, cut, transcript, nextSeq, loadFailed, replies, serverVars,
                   received, overlapped, loaded>>

\* The Retry of a thread that could not be loaded.
RetryLoad ==
    /\ token # 0
    /\ loadFailed /\ transcript = NoDetail /\ bubble = NoBubble
    /\ SendLoad
    /\ UNCHANGED <<handoff, token, bubble, streaming, event, cut, transcript, nextSeq, loadFailed,
                   received, serverVars>>

-----------------------------------------------------------------------------
\* The server ends a turn: recorded before its result is sent, sent with a warning that it
\* could not be saved, or failed.
EndTurn(i) ==
    /\ request[i].fate = "running"
    /\ \E fate \in {"recorded", "unsaved", "failed"} :
          /\ request' = [request EXCEPT ![i].fate = fate]
          /\ recorded' = IF fate = "recorded" THEN Append(recorded, i) ELSE recorded
          /\ IF streaming = i /\ event = "none"
             THEN event' = IF fate = "failed" THEN "failed" ELSE "result"
             ELSE UNCHANGED event
    /\ UNCHANGED <<handoff, token, bubble, streaming, cut, transcript, nextSeq, loadFailed, replies,
                   received, overlapped, loaded>>

\* The connection breaks, or the body just ends, whatever becomes of the turn.
Disconnect ==
    /\ streaming # 0 /\ event \in {"none", "result"}
    /\ event' \in {"failed", "over"}
    /\ UNCHANGED <<handoff, token, bubble, streaming, cut, transcript, nextSeq, loadFailed, replies,
                   serverVars, received, overlapped, loaded>>

\* Mutant of Terminal: the terminal event is handled and kept.
TerminalKept ==
    /\ event = "result"
    /\ transcript' = Append(IF transcript = NoDetail THEN <<>> ELSE transcript, streaming)
    /\ nextSeq' = nextSeq + 1
    /\ bubble' = NoBubble
    /\ streaming' = 0
    /\ received' = received \cup {streaming}
    /\ loadFailed' = FALSE
    /\ UNCHANGED <<handoff, token, event, cut, replies, serverVars, overlapped, loaded>>

\* onTerminal adds the turn to whatever transcript there is, the bubble goes.
Terminal ==
    /\ event = "result"
    /\ transcript' = Append(IF transcript = NoDetail THEN <<>> ELSE transcript, streaming)
    /\ nextSeq' = nextSeq + 1
    /\ bubble' = NoBubble
    /\ streaming' = 0 /\ event' = "none"
    /\ received' = received \cup {streaming}
    /\ loadFailed' = FALSE
    /\ UNCHANGED <<handoff, token, cut, replies, serverVars, overlapped, loaded>>

\* onError keeps the bubble, with a Retry.
TurnFails ==
    /\ event = "failed"
    /\ bubble' = IF bubble = NoBubble THEN NoBubble ELSE [bubble EXCEPT !.failed = TRUE]
    /\ streaming' = 0 /\ event' = "none"
    /\ UNCHANGED <<handoff, token, cut, transcript, nextSeq, loadFailed, replies, serverVars,
                   received, overlapped, loaded>>

\* The loop over the body is over, and nobody is told.
BodyEnds ==
    /\ event = "over"
    /\ streaming' = 0 /\ event' = "none"
    /\ cut' = TRUE
    /\ UNCHANGED <<handoff, token, bubble, transcript, nextSeq, loadFailed, replies, serverVars,
                   received, overlapped, loaded>>

\* Mutant of Replaced: what was loaded is added to what the page has.
Added(turns) == IF transcript = NoDetail THEN turns ELSE transcript \o turns

Replaced(turns) == turns

\* The answer to a load replaces the transcript, or it fails and leaves it.
LoadArrives ==
    /\ \E reply \in replies :
          /\ replies' = replies \ {reply}
          /\ \/ /\ reply.turns # <<>>
                /\ transcript' = Replaced(reply.turns)
                /\ nextSeq' = Len(reply.turns)
                /\ loadFailed' = FALSE
             \/ loadFailed' = TRUE /\ UNCHANGED <<transcript, nextSeq>>
    /\ UNCHANGED <<handoff, token, bubble, streaming, event, cut, serverVars, received, overlapped,
                   loaded>>

PageNext ==
    \/ Renew \/ Submit \/ RetryTurn \/ Stop \/ RetryLoad
    \/ \E i \in 1..MaxRequests : i \in DOMAIN request /\ EndTurn(i)
    \/ Disconnect \/ Terminal \/ TurnFails \/ BodyEnds \/ LoadArrives

PageSpec == PageInit /\ [][PageNext]_pageVars

-----------------------------------------------------------------------------
Request == [question : Nat, by : {"before", "effect", "user"},
            fate : {"running", "recorded", "unsaved", "failed"}]

PageTypeOK ==
    /\ handoff \in BOOLEAN /\ cut \in BOOLEAN /\ loadFailed \in BOOLEAN /\ overlapped \in BOOLEAN
    /\ token \in 0..MaxRenewals
    /\ bubble \in [question : Nat, failed : BOOLEAN]
    /\ request \in Seq(Request)
    /\ streaming \in 0..Len(request)
    /\ event \in {"none", "result", "failed", "over"}
    /\ event # "none" => streaming # 0
    /\ transcript \in Seq(Nat) /\ nextSeq \in Nat
    /\ recorded \in Seq(DOMAIN request) /\ received \subseteq DOMAIN request
    /\ loaded \in Nat /\ replies \subseteq [load : Nat, turns : Seq(DOMAIN request)]

ByEffect == {i \in DOMAIN request : request[i].by = "effect"}

\* A bubble that says it is working has a live stream behind it, and its own: Stop,
\* retries, failures and renewals leave nobody waiting for an answer that cannot come.
\* The exceptions are a body that just ended, and a question handed over and asked again.
PendingIsStreamed ==
    Asking /\ token # 0 /\ ~cut =>
        /\ streaming # 0
        /\ Cardinality(ByEffect) <= 1 => request[streaming].question = bubble.question

\* api-client.ts:145-146: the promise of a turn's stream "resolves when the stream reaches its
\* terminal event, so a caller can `await` it to know the turn is over".  It does not hold
\* (README.md): the body may end without one, which PendingIsStreamed excepts.
EndsAreTold == Asking /\ token # 0 => streaming # 0

Shown(i) == \E k \in DOMAIN transcript : transcript[k] = i

\* The page shows no turn but those the server has and those it warned were not saved.
\* Once nothing is under way it shows none twice, and each that it was streamed and the
\* server has, unless a load and a stream overlapped.
TranscriptIsWhole ==
    transcript # NoDetail =>
        /\ \A i \in DOMAIN transcript :
              request[transcript[i]].fate \in {"recorded", "unsaved"}
        /\ replies = {} /\ streaming = 0 /\ ~overlapped =>
              /\ \A i, k \in DOMAIN transcript : i # k => transcript[i] # transcript[k]
              /\ \A i \in received : request[i].fate = "recorded" => Shown(i)
              /\ nextSeq = Len(transcript)
=============================================================================
