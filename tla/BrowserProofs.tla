----------------------------- MODULE BrowserProofs -----------------------------
(***************************************************************************)
(* Proofs about the browser: the end of a job is told once, what a page of *)
(* a thread shows is what the backend has or said it could not save, the   *)
(* cookie the tabs share is one GoTrue accepts, and a logout reaches every *)
(* tab.  At the end, that what the run explores is these side by side.     *)
(***************************************************************************)
EXTENDS MCBrowser, FiniteSetTheorems, SequenceTheorems, TLAPS

-----------------------------------------------------------------------------
(***************************************************************************)
(* The feed of finished jobs                                               *)
(***************************************************************************)

\* The latest job, once it was told of, is over, and a feed with a baseline has seen
\* that it is.
Baselined ==
    \A i \in DOMAIN told : told[i] = Latest =>
        job[Latest] \in Over /\ (seeded => previous = job[Latest])

FeedInv == FeedTypeOK /\ ToldOnce /\ Baselined

LEMMA FeedInitInv == FeedInit => FeedInv
<1> SUFFICES ASSUME FeedInit PROVE FeedInv OBVIOUS
<1>1. told = <<>> /\ DOMAIN told = {} BY DEF FeedInit
<1>2. job \in Seq(Unfinished \cup Over) /\ Len(job) = 1 BY DEF FeedInit, Unfinished
<1>3. stream \in [at : {"closed", "opening", "open", "sent", "ended"}, job : 0..Len(job),
                  sent : {"none"} \cup Unfinished \cup Over, events : Seq({"step", "end"} \cup Over)]
  BY <1>2 DEF FeedInit, Closed
<1>4. reply \in [load : {"none"} \cup Unfinished \cup Over, retry : {"none", "queued"},
                 removal : {"none", "removed", "done"}]
  BY DEF FeedInit
<1>5. stream.at = "closed" BY DEF FeedInit, Closed
<1>6. Len(job) \in 1..MaxAttempts BY <1>2, FeedAssumption
<1>7. told \in Seq(1..Len(job)) BY <1>1
<1>8. FeedTypeOK BY <1>2, <1>3, <1>4, <1>5, <1>6, <1>7 DEF FeedInit, FeedTypeOK
<1> QED BY <1>1, <1>8 DEF FeedInv, ToldOnce, Baselined

\* Most steps tell nobody of anything and change neither the jobs nor the feed.
LEMMA FeedIdleKeeps ==
    ASSUME FeedInv, FeedTypeOK', UNCHANGED <<job, previous, seeded, told>>
    PROVE  FeedInv'
BY DEF FeedInv, ToldOnce, Baselined, Latest

LEMMA WorkKeepsFeedInv == ASSUME FeedInv, Work PROVE FeedInv'
<1>1. /\ job[Latest] \in Unfinished
      /\ UNCHANGED <<gone, shown, watching, stream, reply, previous, seeded, told>>
  BY DEF Work, Unfinished
<1>2. \E s \in Unfinished \cup Over : job' = [job EXCEPT ![Latest] = s]
  <2>1. CASE job' = [job EXCEPT ![Latest] = "running"] BY <2>1 DEF Unfinished
  <2>2. CASE \E s \in Over : job' = [job EXCEPT ![Latest] = s] BY <2>2
  <2> QED BY <2>1, <2>2 DEF Work
<1>3. job \in Seq(Unfinished \cup Over) /\ Len(job) \in 1..MaxAttempts
  BY DEF FeedInv, FeedTypeOK
<1>4. job' \in Seq(Unfinished \cup Over) /\ Len(job') = Len(job)
  <2>1. PICK s \in Unfinished \cup Over : job' = [job EXCEPT ![Latest] = s] BY <1>2
  <2>2. Latest \in 1..Len(job) BY <1>3, FeedAssumption DEF Latest
  <2> QED BY <1>3, <2>1, <2>2, ExceptSeq
<1>5. FeedTypeOK' BY <1>1, <1>3, <1>4 DEF FeedInv, FeedTypeOK
<1>6. \A i \in DOMAIN told : told[i] # Latest
  BY <1>1 DEF FeedInv, Baselined, Unfinished, Over
<1>7. Baselined' BY <1>1, <1>4, <1>6 DEF Baselined, Latest
<1>8. ToldOnce' BY <1>1 DEF FeedInv, ToldOnce
<1> QED BY <1>5, <1>7, <1>8 DEF FeedInv

LEMMA WatchTypes ==
    ASSUME FeedTypeOK, Watch, UNCHANGED <<job>>
    PROVE  /\ watching' \in BOOLEAN
           /\ stream' \in [at : {"closed", "opening", "open", "sent", "ended"}, job : 0..Len(job'),
                           sent : {"none"} \cup Unfinished \cup Over,
                           events : Seq({"step", "end"} \cup Over)]
           /\ stream'.at = "open" => stream'.job # 0
<1>1. CASE watching BY <1>1 DEF Watch, FeedTypeOK
<1>2. CASE ~watching
  <2>1. watching' = TRUE /\ stream' = [at |-> "opening", job |-> 0, sent |-> "none", events |-> <<>>]
    BY <1>2 DEF Watch, Closed
  <2>2. Len(job') \in Nat /\ 0 \in 0..Len(job') BY DEF FeedTypeOK
  <2> QED BY <2>1, <2>2
<1> QED BY <1>1, <1>2

LEMMA RetryKeepsFeedInv == ASSUME FeedInv, Retry PROVE FeedInv'
<1>1. /\ job' = Append(job, "queued") /\ Len(job) < MaxAttempts
      /\ reply' = [reply EXCEPT !.retry = "queued"]
      /\ UNCHANGED <<gone, shown, watching, stream, previous, seeded, told>>
  BY DEF Retry
<1>2. job \in Seq(Unfinished \cup Over) /\ Len(job) \in 1..MaxAttempts /\ told \in Seq(1..Len(job))
  BY DEF FeedInv, FeedTypeOK
<1>3. job' \in Seq(Unfinished \cup Over) /\ Len(job') = Len(job) + 1 /\ Len(job') \in 1..MaxAttempts
  BY <1>1, <1>2, FeedAssumption DEF Unfinished
<1>4. FeedTypeOK'
  <2>1. stream' \in [at : {"closed", "opening", "open", "sent", "ended"}, job : 0..Len(job'),
                     sent : {"none"} \cup Unfinished \cup Over, events : Seq({"step", "end"} \cup Over)]
    <3>1. 0..Len(job) \subseteq 0..Len(job') BY <1>2, <1>3
    <3> QED BY <1>1, <3>1 DEF FeedInv, FeedTypeOK
  <2>2. reply' \in [load : {"none"} \cup Unfinished \cup Over, retry : {"none", "queued"},
                    removal : {"none", "removed", "done"}]
    BY <1>1 DEF FeedInv, FeedTypeOK
  <2>3. told' \in Seq(1..Len(job')) BY <1>1, <1>2, <1>3
  <2> QED BY <1>1, <1>3, <2>1, <2>2, <2>3 DEF FeedInv, FeedTypeOK
<1>5. \A i \in DOMAIN told' : told'[i] # Latest'
  BY <1>1, <1>2, <1>3 DEF Latest
<1>6. ToldOnce' BY <1>1 DEF FeedInv, ToldOnce
<1> QED BY <1>4, <1>5, <1>6 DEF FeedInv, Baselined

\* What is told of is the latest job, and it was not told of before.
LEMMA FeedPollKeepsFeedInv == ASSUME FeedInv, FeedPoll PROVE FeedInv'
<1>1. /\ ~seeded \/ previous # job[Latest]
      /\ previous' = job[Latest] /\ seeded' = TRUE
      /\ UNCHANGED <<job, gone, shown, watching, stream, reply>>
      /\ \/ /\ seeded /\ previous # job[Latest] /\ job[Latest] \in Over
            /\ told' = Append(told, Latest)
         \/ told' = told
  BY DEF FeedPoll, Baseline
<1>2. /\ job \in Seq(Unfinished \cup Over) /\ Len(job) \in 1..MaxAttempts
      /\ told \in Seq(1..Len(job)) /\ Latest' = Latest /\ Latest \in 1..Len(job)
  BY <1>1, FeedAssumption DEF FeedInv, FeedTypeOK, Latest
<1>3. CASE told' = told
  <2>1. FeedTypeOK' BY <1>1, <1>3 DEF FeedInv, FeedTypeOK
  <2>2. ToldOnce' BY <1>3 DEF FeedInv, ToldOnce
  <2>3. Baselined' BY <1>1, <1>2, <1>3 DEF FeedInv, Baselined
  <2> QED BY <2>1, <2>2, <2>3 DEF FeedInv
<1>4. CASE /\ seeded /\ previous # job[Latest] /\ job[Latest] \in Over
           /\ told' = Append(told, Latest)
  <2>1. /\ told' \in Seq(1..Len(job)) /\ Len(told') = Len(told) + 1
        /\ told'[Len(told) + 1] = Latest
        /\ \A i \in DOMAIN told : told'[i] = told[i]
        /\ DOMAIN told = 1..Len(told) /\ DOMAIN told' = 1..Len(told) + 1
        /\ Len(told) \in Nat
    BY <1>2, <1>4
  <2>2. FeedTypeOK' BY <1>1, <2>1 DEF FeedInv, FeedTypeOK
  <2>3. \A i \in DOMAIN told : told[i] < Latest
    <3>1. \A i \in DOMAIN told : told[i] # Latest BY <1>4 DEF FeedInv, Baselined
    <3> QED BY <1>2, <3>1 DEF Latest
  <2>4. ToldOnce'
    <3> SUFFICES ASSUME NEW i \in DOMAIN told', NEW k \in DOMAIN told', i < k
                 PROVE  told'[i] < told'[k]
      BY DEF ToldOnce
    <3>1. i \in DOMAIN told BY <2>1
    <3>2. CASE k \in DOMAIN told BY <2>1, <3>1, <3>2 DEF FeedInv, ToldOnce
    <3>3. CASE k = Len(told) + 1 BY <2>1, <2>3, <3>1, <3>3
    <3> QED BY <2>1, <3>2, <3>3
  <2>5. Baselined' BY <1>1, <1>2, <1>4 DEF Baselined
  <2> QED BY <2>2, <2>4, <2>5 DEF FeedInv
<1> QED BY <1>1, <1>3, <1>4

LEMMA FeedRestartsKeepsFeedInv == ASSUME FeedInv, FeedRestarts PROVE FeedInv'
<1>1. seeded' = FALSE /\ UNCHANGED <<job, gone, shown, watching, stream, reply, told>>
  BY DEF FeedRestarts
<1>2. FeedTypeOK' BY <1>1 DEF FeedInv, FeedTypeOK
<1>3. ToldOnce' BY <1>1 DEF FeedInv, ToldOnce
<1>4. Baselined' BY <1>1 DEF FeedInv, Baselined, Latest
<1> QED BY <1>2, <1>3, <1>4 DEF FeedInv

LEMMA PageOfFeedKeepsFeedInv ==
    ASSUME FeedInv, Load \/ Loaded \/ Retried \/ Remove \/ Removed
    PROVE  FeedInv'
<1> DEFINE Replies == [load : {"none"} \cup Unfinished \cup Over, retry : {"none", "queued"},
                       removal : {"none", "removed", "done"}]
           Streams == [at : {"closed", "opening", "open", "sent", "ended"}, job : 0..Len(job'),
                       sent : {"none"} \cup Unfinished \cup Over, events : Seq({"step", "end"} \cup Over)]
           Statuses == {"absent"} \cup Unfinished \cup Over
<1>1. UNCHANGED <<job, previous, seeded, told>>
  BY DEF Load, Loaded, Retried, Remove, Removed
<1>2. /\ reply \in Replies /\ watching \in BOOLEAN /\ gone \in BOOLEAN /\ stream \in Streams
      /\ shown \in Statuses /\ job[Latest] \in Unfinished \cup Over
      /\ stream.at = "open" => stream.job # 0
  BY <1>1, FeedAssumption DEF FeedInv, FeedTypeOK, Latest
<1>3. reply' \in Replies
  <2>1. CASE Load BY <1>2, <2>1 DEF Load
  <2>2. CASE Loaded BY <1>2, <2>2 DEF Loaded
  <2>3. CASE Retried BY <1>2, <2>3 DEF Retried
  <2>4. CASE Remove BY <1>2, <2>4 DEF Remove
  <2>5. CASE Removed BY <1>2, <2>5 DEF Removed
  <2> QED BY <2>1, <2>2, <2>3, <2>4, <2>5
<1>4. /\ watching' \in BOOLEAN /\ stream' \in Streams
      /\ stream'.at = "open" => stream'.job # 0
  <2>1. CASE Load \/ Remove BY <1>2, <2>1 DEF Load, Remove
  <2>2. CASE UNCHANGED <<watching, stream>> BY <1>2, <2>2
  <2>3. CASE Watch BY <1>1, <2>3, WatchTypes DEF FeedInv
  <2>4. CASE Removed
    <3>1. watching' = FALSE /\ stream' = [at |-> "closed", job |-> 0, sent |-> "none", events |-> <<>>]
      BY <2>4 DEF Removed, Closed
    <3>2. 0 \in 0..Len(job') BY <1>1 DEF FeedInv, FeedTypeOK
    <3>3. <<>> \in Seq({"step", "end"} \cup Over) OBVIOUS
    <3>4. stream' \in Streams BY <3>1, <3>2, <3>3
    <3>5. stream'.at = "closed" BY <3>1
    <3> QED BY <3>1, <3>4, <3>5
  <2> QED BY <2>1, <2>2, <2>3, <2>4 DEF Loaded, Retried
<1>5. shown' \in Statuses /\ gone' \in BOOLEAN
  <2>1. CASE Load \/ Remove BY <1>2, <2>1 DEF Load, Remove
  <2>2. CASE Loaded BY <1>2, <2>2 DEF Loaded
  <2>3. CASE Retried BY <1>2, <2>3 DEF Retried, Unfinished
  <2>4. CASE Removed BY <1>2, <2>4 DEF Removed
  <2> QED BY <2>1, <2>2, <2>3, <2>4
<1>6. FeedTypeOK' BY <1>1, <1>3, <1>4, <1>5 DEF FeedInv, FeedTypeOK
<1> QED BY <1>1, <1>6, FeedIdleKeeps

\* What the stream says of a job is that it goes on or how it ended.
LEMMA StreamStepKeepsFeedInv == ASSUME FeedInv, StreamStep PROVE FeedInv'
<1> DEFINE Events == Seq({"step", "end"} \cup Over)
           Streams == [at : {"closed", "opening", "open", "sent", "ended"}, job : 0..Len(job),
                       sent : {"none"} \cup Unfinished \cup Over, events : Events]
           Statuses == {"absent"} \cup Unfinished \cup Over
<1>1. UNCHANGED <<job, gone, reply, previous, seeded, told>>
  BY DEF StreamStep, Open, Poll, Expire, Broken, Receive
<1>2. /\ stream \in Streams /\ stream.events \in Events /\ stream.job \in 0..Len(job)
      /\ stream.sent \in {"none"} \cup Unfinished \cup Over
      /\ stream.at \in {"closed", "opening", "open", "sent", "ended"}
      /\ watching \in BOOLEAN /\ shown \in Statuses
      /\ stream.at = "open" => stream.job # 0
  BY DEF FeedInv, FeedTypeOK
<1>3. Latest \in 0..Len(job) /\ Latest # 0
  BY FeedAssumption DEF FeedInv, FeedTypeOK, Latest
<1>4. /\ stream' \in Streams /\ watching' \in BOOLEAN /\ shown' \in Statuses
      /\ stream'.at = "open" => stream'.job # 0
  <2>1. CASE Open
    BY <1>2, <1>3, <2>1 DEF Open
  <2>2. CASE Poll
    <3> DEFINE s == job[stream.job]
               over == s \in Over
               at == IF over THEN "sent" ELSE "open"
               sendings == IF over THEN stream.events \o <<"step", s>> ELSE Append(stream.events, "step")
    <3>1. stream' = [stream EXCEPT !.sent = s, !.at = at, !.events = sendings]
          /\ shown' = shown /\ watching' = watching
      BY <2>2 DEF Poll
    <3>2. at \in {"open", "sent"} OBVIOUS
    <3>3. sendings \in Events
      <4>1. CASE over
        <5>1. <<"step", s>> \in Events BY <4>1
        <5> QED BY <1>2, <4>1, <5>1
      <4>2. CASE ~over BY <1>2, <4>2
      <4> QED BY <4>1, <4>2
    <3>4. s \in {"none"} \cup Unfinished \cup Over
      <4>1. stream.job # 0 BY <1>2, <2>2 DEF Poll
      <4>2. stream.job \in DOMAIN job BY <1>2, <4>1 DEF FeedInv, FeedTypeOK
      <4> QED BY <4>2 DEF FeedInv, FeedTypeOK
    <3>5. stream.job # 0 BY <1>2, <2>2 DEF Poll
    <3> HIDE DEF s, at, sendings, over
    <3> QED BY <1>2, <3>1, <3>2, <3>3, <3>4, <3>5
  <2>3. CASE Expire
    <3>1. stream' = [stream EXCEPT !.at = "sent", !.events = Append(stream.events, "failed")]
          /\ shown' = shown /\ watching' = watching
      BY <2>3 DEF Expire
    <3>2. Append(stream.events, "failed") \in Events BY <1>2 DEF Over
    <3> QED BY <1>2, <3>1, <3>2
  <2>4. CASE Broken
    <3>1. /\ shown' = shown /\ watching' = watching
          /\ \/ stream' = [stream EXCEPT !.at = "sent", !.events = Append(stream.events, "failed")]
             \/ stream' = [stream EXCEPT !.at = "sent", !.events = <<"failed">>]
             \/ stream' = [stream EXCEPT !.at = "sent", !.events = <<"end">>]
      BY <2>4 DEF Broken
    <3>2. /\ Append(stream.events, "failed") \in Events
          /\ <<"failed">> \in Events /\ <<"end">> \in Events
      BY <1>2 DEF Over
    <3> QED BY <1>2, <3>1, <3>2
  <2>5. CASE Receive
    <3>1. stream.events # <<>> BY <2>5 DEF Receive
    <3>2. Head(stream.events) \in {"step", "end"} \cup Over /\ Tail(stream.events) \in Events
      BY <1>2, <3>1
    <3>3. shown' \in Statuses
      BY <1>2, <2>5, <3>2 DEF Receive, Unfinished, Over
    <3>4. \/ stream' = [stream EXCEPT !.events = Tail(stream.events)]
          \/ stream' = [Closed EXCEPT !.at = "ended"]
          \/ stream' = Closed
      BY <2>5, <3>2 DEF Receive
    <3>5. watching' \in BOOLEAN
      <4>1. watching' = (watching /\ Head(stream.events) \notin Over) BY <2>5 DEF Receive
      <4> QED BY <4>1
    <3>6. Closed \in Streams /\ [Closed EXCEPT !.at = "ended"] \in Streams
      <4>1. 0 \in 0..Len(job) /\ <<>> \in Events BY DEF FeedInv, FeedTypeOK
      <4>2. Closed = [at |-> "closed", job |-> 0, sent |-> "none", events |-> <<>>] BY DEF Closed
      <4>3. [Closed EXCEPT !.at = "ended"] = [at |-> "ended", job |-> 0, sent |-> "none", events |-> <<>>]
        BY <4>2
      <4> HIDE DEF Events
      <4>4. Closed \in Streams BY <4>1, <4>2
      <4>5. [Closed EXCEPT !.at = "ended"] \in Streams BY <4>1, <4>3
      <4> QED BY <4>4, <4>5
    <3>7. CASE stream' = [stream EXCEPT !.events = Tail(stream.events)]
      <4>1. stream' \in Streams BY <1>2, <3>2, <3>7
      <4>2. stream'.at = stream.at /\ stream'.job = stream.job BY <1>2, <3>7
      <4> QED BY <1>2, <3>3, <3>5, <4>1, <4>2
    <3>8. CASE stream' = [Closed EXCEPT !.at = "ended"] \/ stream' = Closed
      <4>1. stream'.at \in {"closed", "ended"} BY <3>8 DEF Closed
      <4> QED BY <3>3, <3>5, <3>6, <3>8, <4>1
    <3> QED BY <3>4, <3>7, <3>8
  <2> QED BY <2>1, <2>2, <2>3, <2>4, <2>5 DEF StreamStep
<1>5. FeedTypeOK' BY <1>1, <1>4 DEF FeedInv, FeedTypeOK
<1> QED BY <1>1, <1>5, FeedIdleKeeps

LEMMA FeedNextKeepsInv == FeedInv /\ [FeedNext]_feedVars => FeedInv'
<1>1. ASSUME FeedInv, FeedNext PROVE FeedInv'
  BY <1>1, WorkKeepsFeedInv, RetryKeepsFeedInv, FeedPollKeepsFeedInv, FeedRestartsKeepsFeedInv,
     PageOfFeedKeepsFeedInv, StreamStepKeepsFeedInv DEF FeedNext
<1>2. ASSUME FeedInv, UNCHANGED feedVars PROVE FeedInv'
  <2>1. FeedTypeOK' BY <1>2 DEF feedVars, FeedInv, FeedTypeOK
  <2> QED BY <1>2, <2>1, FeedIdleKeeps DEF feedVars
<1> QED BY <1>1, <1>2

LEMMA FeedInvariance == FeedSpec => []FeedInv
BY FeedInitInv, FeedNextKeepsInv, PTL DEF FeedSpec

\* Opening a tab, a retry or a broken connection never has a job's end announced again,
\* for any number of jobs and restarts of the feed.
THEOREM EndsAreToldOnce == FeedSpec => []ToldOnce
<1>1. FeedInv => ToldOnce BY DEF FeedInv
<1> QED BY <1>1, FeedInvariance, PTL

-----------------------------------------------------------------------------
(***************************************************************************)
(* A thread's page                                                         *)
(***************************************************************************)

\* Before there is a session nothing was sent; a handed-over question is the one the
\* bubble shows.
Opening ==
    token = 0 =>
        /\ streaming = 0 /\ event = "none" /\ ~cut
        /\ handoff => request = <<>> /\ bubble.question = First
        /\ ~handoff => bubble = NoBubble

\* The effect asks the question of the handoff as soon as there is a session ...
HandoffAsked == handoff /\ token # 0 => ByEffect # {}

\* ... and a bubble that waits has its stream, as long as the effect asked but once and
\* the stream's body did not just end.
Backed ==
    Asking /\ token # 0 /\ ~cut =>
        /\ streaming # 0
        /\ (\A i, k \in ByEffect : i = k) => request[streaming].question = bubble.question

BubbleInv == Opening /\ HandoffAsked /\ Backed

Unlike(turns) == \A i, k \in DOMAIN turns : i # k => turns[i] # turns[k]

Told == {"recorded", "unsaved"}

\* The server records a turn once, and has those it recorded ...
History ==
    /\ Unlike(recorded)
    /\ \A k \in DOMAIN recorded : request[recorded[k]].fate = "recorded"
    /\ \A i \in DOMAIN request :
          request[i].fate = "recorded" => \E k \in DOMAIN recorded : recorded[k] = i

\* ... before it says so.
Ending ==
    /\ event = "result" => request[streaming].fate \in Told
    /\ \A i \in received : request[i].fate \in Told

\* What it answers to a load it has, ...
Answers ==
    \A r \in replies :
        Unlike(r.turns) /\ \A i \in DOMAIN r.turns : request[r.turns[i]].fate = "recorded"

\* ... and what the page shows it has or could not save.
Owned ==
    transcript # NoDetail =>
        \A i \in DOMAIN transcript :
            transcript[i] \in DOMAIN request /\ request[transcript[i]].fate \in Told

\* turns has all that was received and that the server has.
Complete(turns) ==
    \A i \in received :
        request[i].fate = "recorded" => \E k \in DOMAIN turns : turns[k] = i

\* While no load overlaps a stream: what the page shows, what it is about to add, and
\* what it is about to show instead.
Shows ==
    ~overlapped =>
        /\ transcript # NoDetail =>
               Unlike(transcript) /\ Complete(transcript) /\ nextSeq = Len(transcript)
        /\ transcript = NoDetail => nextSeq = 0 /\ received = {}
        /\ streaming # 0 =>
               replies = {} /\ \A k \in DOMAIN transcript : transcript[k] # streaming
        /\ \A r \in replies : Complete(r.turns)

TranscriptInv == History /\ Ending /\ Answers /\ Owned /\ Shows

PageInv == PageTypeOK /\ BubbleInv /\ TranscriptInv

LEMMA SeqGrows ==
    ASSUME NEW S, NEW T, S \subseteq T, NEW s \in Seq(S)
    PROVE  s \in Seq(T)
OBVIOUS

LEMMA PageInitInv == PageInit => PageInv
<1> SUFFICES ASSUME PageInit PROVE PageInv OBVIOUS
<1>1. /\ token = 0 /\ streaming = 0 /\ event = "none" /\ transcript = <<0>> /\ nextSeq = 0
      /\ replies = {} /\ overlapped = FALSE /\ loaded = 0 /\ loadFailed = FALSE
      /\ received = {} /\ cut = FALSE /\ handoff \in BOOLEAN
  BY DEF PageInit, NoDetail
<1>2. \/ /\ handoff /\ request = <<>> /\ recorded = <<>>
         /\ bubble = [question |-> 1, failed |-> FALSE]
      \/ /\ ~handoff /\ recorded = <<1>>
         /\ request = <<[question |-> 1, by |-> "before", fate |-> "recorded"]>>
         /\ bubble = [question |-> 0, failed |-> FALSE]
  BY DEF PageInit, First, NoBubble
<1>3. bubble \in [question : Nat, failed : BOOLEAN] /\ (handoff => bubble.question = 1)
  <2>1. CASE handoff /\ bubble = [question |-> 1, failed |-> FALSE]
    <3>1. bubble \in [question : Nat, failed : BOOLEAN] BY <2>1
    <3>2. bubble.question = 1 BY <2>1
    <3> QED BY <3>1, <3>2
  <2>2. CASE ~handoff /\ bubble = [question |-> 0, failed |-> FALSE]
    <3>1. bubble \in [question : Nat, failed : BOOLEAN] BY <2>2
    <3> QED BY <2>2, <3>1
  <2> QED BY <1>2, <2>1, <2>2
<1>4. request \in Seq(Request) /\ recorded \in Seq(DOMAIN request) /\ Len(request) \in Nat
  <2>1. CASE request = <<>> /\ recorded = <<>> BY <2>1
  <2>2. CASE /\ recorded = <<1>>
             /\ request = <<[question |-> 1, by |-> "before", fate |-> "recorded"]>>
    <3>1. [question |-> 1, by |-> "before", fate |-> "recorded"] \in Request BY DEF Request
    <3>2. request \in Seq(Request) BY <2>2, <3>1
    <3>3. 1 \in DOMAIN request BY <2>2
    <3> QED BY <2>2, <3>2, <3>3
  <2> QED BY <1>2, <2>1, <2>2
<1>5. PageTypeOK
  <2>1. transcript \in Seq(Nat) /\ nextSeq \in Nat /\ loaded \in Nat BY <1>1
  <2>2. token \in 0..MaxRenewals /\ streaming \in 0..Len(request) BY <1>1, <1>4, PageAssumption
  <2>3. loadFailed \in BOOLEAN /\ overlapped \in BOOLEAN /\ cut \in BOOLEAN BY <1>1
  <2>4. replies \subseteq [load : Nat, turns : Seq(DOMAIN request)] BY <1>1
  <2>5. event \in {"none", "result", "failed", "over"} /\ (event # "none" => streaming # 0) BY <1>1
  <2>6. received \subseteq DOMAIN request BY <1>1
  <2> QED BY <1>1, <1>3, <1>4, <2>1, <2>2, <2>3, <2>4, <2>5, <2>6 DEF PageTypeOK
<1>6. BubbleInv
  BY <1>1, <1>2, <1>3 DEF BubbleInv, Opening, HandoffAsked, Backed, First, NoBubble
<1>7. History
  <2>1. CASE recorded = <<>> /\ request = <<>> BY <2>1 DEF History, Unlike
  <2>2. CASE /\ recorded = <<1>>
             /\ request = <<[question |-> 1, by |-> "before", fate |-> "recorded"]>>
    <3>1. DOMAIN recorded = {1} /\ recorded[1] = 1 /\ DOMAIN request = {1} BY <2>2
    <3>2. request[1].fate = "recorded" BY <2>2
    <3> QED BY <3>1, <3>2 DEF History, Unlike
  <2> QED BY <1>2, <2>1, <2>2
<1>8. TranscriptInv BY <1>1, <1>7 DEF TranscriptInv, Ending, Answers, Owned, Shows, NoDetail
<1> QED BY <1>5, <1>6, <1>8 DEF PageInv

\* Nothing the transcript rests on changes, but that a stream may be over.
LEMMA QuietKeepsTranscript ==
    ASSUME TranscriptInv,
           UNCHANGED <<request, recorded, replies, transcript, nextSeq, received, overlapped>>,
           (streaming' = 0 /\ event' = "none") \/ UNCHANGED <<streaming, event>>
    PROVE  TranscriptInv'
<1>1. History' BY DEF TranscriptInv, History, Unlike
<1>2. Answers' BY DEF TranscriptInv, Answers, Unlike
<1>3. Ending' BY DEF TranscriptInv, Ending
<1>4. Owned' BY DEF TranscriptInv, Owned
<1>5. Shows' BY DEF TranscriptInv, Shows, Unlike, Complete
<1> QED BY <1>1, <1>2, <1>3, <1>4, <1>5 DEF TranscriptInv

-----------------------------------------------------------------------------
\* A turn is asked for: it is the newest, and its stream the page's.
LEMMA OpenStreamEffects ==
    ASSUME PageTypeOK, NEW question \in Nat, NEW by \in {"effect", "user"},
           OpenStream(question, by), UNCHANGED replies
    PROVE  /\ request' \in Seq(Request) /\ DOMAIN request = 1..Len(request)
           /\ Len(request) \in Nat /\ Len(request') = Len(request) + 1
           /\ DOMAIN request' = 1..Len(request) + 1
           /\ \A i \in DOMAIN request : request'[i] = request[i]
           /\ streaming' = Len(request) + 1
           /\ request'[Len(request) + 1].question = question
           /\ request'[Len(request) + 1].by = by
           /\ request'[Len(request) + 1].fate = "running"
           /\ event' = "none" /\ cut' = FALSE /\ recorded' = recorded /\ received' = received
           /\ recorded' \in Seq(DOMAIN request') /\ received' \subseteq DOMAIN request'
           /\ replies' \subseteq [load : Nat, turns : Seq(DOMAIN request')]
           /\ overlapped' \in BOOLEAN
           /\ ~overlapped' => ~overlapped /\ replies = {}
<1> DEFINE new == [question |-> question, by |-> by, fate |-> "running"]
<1>1. new \in Request /\ new.question = question /\ new.by = by /\ new.fate = "running"
  BY DEF Request
<1>2. /\ request' = Append(request, new) /\ streaming' = Len(request) + 1
      /\ event' = "none" /\ cut' = FALSE /\ recorded' = recorded /\ received' = received
      /\ overlapped' = (overlapped \/ replies # {})
  BY DEF OpenStream
<1>3. request \in Seq(Request) BY DEF PageTypeOK
<1> HIDE DEF new
<1>4. /\ request' \in Seq(Request) /\ Len(request) \in Nat /\ Len(request') = Len(request) + 1
      /\ DOMAIN request = 1..Len(request) /\ DOMAIN request' = 1..Len(request) + 1
      /\ \A i \in DOMAIN request : request'[i] = request[i]
      /\ request'[Len(request) + 1] = new
  BY <1>1, <1>2, <1>3
<1>5. DOMAIN request \subseteq DOMAIN request' BY <1>4
<1>6. recorded' \in Seq(DOMAIN request') /\ received' \subseteq DOMAIN request'
  BY <1>2, <1>5, SeqGrows DEF PageTypeOK
<1>7. replies' \subseteq [load : Nat, turns : Seq(DOMAIN request')]
  <2> SUFFICES ASSUME NEW r \in replies PROVE r \in [load : Nat, turns : Seq(DOMAIN request')]
    OBVIOUS
  <2>1. r \in [load : Nat, turns : Seq(DOMAIN request)] BY DEF PageTypeOK
  <2>2. r.turns \in Seq(DOMAIN request') BY <1>5, <2>1, SeqGrows
  <2> QED BY <2>1, <2>2
<1>8. overlapped' \in BOOLEAN /\ (~overlapped' => ~overlapped /\ replies = {}) BY <1>2
<1> QED BY <1>1, <1>2, <1>4, <1>6, <1>7, <1>8

LEMMA OpenStreamKeepsTranscript ==
    ASSUME PageInv, NEW question \in Nat, NEW by \in {"effect", "user"},
           OpenStream(question, by), UNCHANGED <<transcript, nextSeq, replies>>
    PROVE  TranscriptInv'
<1>1. PageTypeOK /\ TranscriptInv BY DEF PageInv
<1>2. /\ DOMAIN request = 1..Len(request) /\ Len(request) \in Nat
      /\ DOMAIN request' = 1..Len(request) + 1
      /\ \A i \in DOMAIN request : request'[i] = request[i]
      /\ request'[Len(request) + 1].fate = "running"
      /\ streaming' = Len(request) + 1 /\ event' = "none" /\ recorded' = recorded
      /\ received' = received
      /\ ~overlapped' => ~overlapped /\ replies = {}
  BY <1>1, OpenStreamEffects
<1>3. recorded \in Seq(DOMAIN request) /\ received \subseteq DOMAIN request
  BY <1>1 DEF PageTypeOK
<1>4. History'
  <2>1. \A k \in DOMAIN recorded : recorded[k] \in DOMAIN request BY <1>3
  <2>2. Unlike(recorded)' BY <1>1, <1>2 DEF TranscriptInv, History, Unlike
  <2>3. ASSUME NEW i \in DOMAIN request', request'[i].fate = "recorded"
        PROVE  \E k \in DOMAIN recorded : recorded[k] = i
    <3>1. i \in DOMAIN request BY <1>2, <2>3
    <3> QED BY <1>1, <1>2, <2>3, <3>1 DEF TranscriptInv, History
  <2> QED BY <1>1, <1>2, <2>1, <2>2, <2>3 DEF TranscriptInv, History
<1>5. Ending' BY <1>1, <1>2, <1>3 DEF TranscriptInv, Ending
<1>6. Answers'
  <2> SUFFICES ASSUME NEW r \in replies
               PROVE  Unlike(r.turns) /\ \A i \in DOMAIN r.turns :
                                            request'[r.turns[i]].fate = "recorded"
    BY DEF Answers, Unlike
  <2>1. r.turns \in Seq(DOMAIN request) BY <1>1 DEF PageTypeOK
  <2>2. \A i \in DOMAIN r.turns : r.turns[i] \in DOMAIN request BY <2>1
  <2> QED BY <1>1, <1>2, <2>2 DEF TranscriptInv, Answers
<1>7. Owned' BY <1>1, <1>2 DEF TranscriptInv, Owned
<1>8. Shows'
  <2>1. ASSUME NEW k \in DOMAIN transcript PROVE transcript[k] # streaming'
    <3>1. CASE transcript = NoDetail
      <4>1. k = 1 /\ transcript[1] = 0 BY <3>1 DEF NoDetail
      <4> QED BY <1>2, <4>1
    <3>2. CASE transcript # NoDetail
      <4>1. transcript[k] \in DOMAIN request BY <1>1, <3>2 DEF TranscriptInv, Owned
      <4> QED BY <1>2, <4>1
    <3> QED BY <3>1, <3>2
  <2> SUFFICES ASSUME ~overlapped' PROVE Shows' BY DEF Shows
  <2>2. ~overlapped /\ replies' = {} BY <1>2
  <2>3. Complete(transcript) => Complete(transcript)'
    BY <1>2, <1>3 DEF Complete
  <2>4. Unlike(transcript) => Unlike(transcript)' BY DEF Unlike
  <2> QED BY <1>1, <1>2, <2>1, <2>2, <2>3, <2>4 DEF TranscriptInv, Shows
<1> QED BY <1>4, <1>5, <1>6, <1>7, <1>8 DEF TranscriptInv

\* A load is sent: its answer is the history of the moment.
LEMMA SendLoadKeeps ==
    ASSUME PageInv, SendLoad,
           UNCHANGED <<streaming, event, transcript, nextSeq, received, request, recorded>>
    PROVE  /\ TranscriptInv' /\ overlapped' \in BOOLEAN /\ loaded' \in Nat
           /\ replies' \subseteq [load : Nat, turns : Seq(DOMAIN request')]
<1>1. PageTypeOK /\ TranscriptInv BY DEF PageInv
<1>2. /\ loaded' = loaded + 1 /\ overlapped' = (overlapped \/ streaming # 0)
      /\ replies' = replies \cup {[load |-> loaded', turns |-> recorded]}
  BY DEF SendLoad
<1>3. loaded' \in Nat /\ recorded \in Seq(DOMAIN request)
  BY <1>1, <1>2 DEF PageTypeOK
<1>4. replies' \subseteq [load : Nat, turns : Seq(DOMAIN request')]
  BY <1>1, <1>2, <1>3 DEF PageTypeOK
<1>5. History' /\ Ending' /\ Owned'
  BY <1>1 DEF TranscriptInv, History, Unlike, Ending, Owned
<1>6. Answers' BY <1>1, <1>2 DEF TranscriptInv, History, Answers, Unlike
<1>7. Shows'
  <2> SUFFICES ASSUME ~overlapped' PROVE Shows' BY DEF Shows
  <2>1. ~overlapped /\ streaming = 0 BY <1>2
  <2>2. Complete(recorded)'
    <3>1. received \subseteq DOMAIN request BY <1>1 DEF PageTypeOK
    <3> QED BY <1>1, <3>1 DEF TranscriptInv, History, Complete
  <2>3. \A r \in replies' : Complete(r.turns)'
    BY <1>1, <1>2, <2>1, <2>2 DEF TranscriptInv, Shows, Complete
  <2>4. transcript' # NoDetail =>
            Unlike(transcript)' /\ Complete(transcript)' /\ nextSeq' = Len(transcript')
    BY <1>1, <2>1 DEF TranscriptInv, Shows, Unlike, Complete
  <2>5. transcript' = NoDetail => nextSeq' = 0 /\ received' = {}
    BY <1>1, <2>1 DEF TranscriptInv, Shows
  <2> QED BY <2>1, <2>3, <2>4, <2>5 DEF Shows
<1> QED BY <1>2, <1>3, <1>4, <1>5, <1>6, <1>7 DEF TranscriptInv

-----------------------------------------------------------------------------
LEMMA RenewKeepsPageInv == ASSUME PageInv, Renew PROVE PageInv'
<1>1. /\ token' = token + 1 /\ token < MaxRenewals
      /\ UNCHANGED <<handoff, bubble, transcript, nextSeq, loadFailed>>
      /\ \/ handoff /\ OpenStream(First, "effect") /\ UNCHANGED <<replies, loaded>>
         \/ /\ ~handoff /\ SendLoad
            /\ UNCHANGED <<streaming, event, cut, received, request, recorded>>
  BY DEF Renew, serverVars
<1>2. PageTypeOK /\ BubbleInv /\ TranscriptInv BY DEF PageInv
<1>3. token' \in 0..MaxRenewals /\ token' # 0
  BY <1>1, <1>2, PageAssumption DEF PageTypeOK
<1>4. CASE handoff /\ OpenStream(First, "effect") /\ UNCHANGED <<replies, loaded>>
  <2>1. First \in Nat BY DEF First
  <2>2. /\ request' \in Seq(Request) /\ DOMAIN request = 1..Len(request)
        /\ Len(request) \in Nat /\ Len(request') = Len(request) + 1
        /\ DOMAIN request' = 1..Len(request) + 1
        /\ \A i \in DOMAIN request : request'[i] = request[i]
        /\ streaming' = Len(request) + 1
        /\ request'[Len(request) + 1].question = First
        /\ request'[Len(request) + 1].by = "effect"
        /\ event' = "none" /\ cut' = FALSE
        /\ recorded' \in Seq(DOMAIN request') /\ received' \subseteq DOMAIN request'
        /\ replies' \subseteq [load : Nat, turns : Seq(DOMAIN request')]
        /\ overlapped' \in BOOLEAN
    BY <1>2, <1>4, <2>1, OpenStreamEffects
  <2>3. PageTypeOK'
    <3>1. streaming' \in 0..Len(request') /\ cut' \in BOOLEAN
      <4>1. streaming' = Len(request) + 1 /\ Len(request') = Len(request) + 1 /\ Len(request) \in Nat
        BY <2>2
      <4>2. streaming' \in 0..Len(request') BY <4>1
      <4>3. cut' \in BOOLEAN BY <2>2
      <4> QED BY <4>2, <4>3
    <3>2. event' \in {"none", "result", "failed", "over"} /\ event' = "none" BY <2>2
    <3>3. /\ handoff' \in BOOLEAN /\ loadFailed' \in BOOLEAN /\ loaded' \in Nat /\ nextSeq' \in Nat
          /\ bubble' \in [question : Nat, failed : BOOLEAN] /\ transcript' \in Seq(Nat)
      BY <1>1, <1>2, <1>4 DEF PageTypeOK
    <3> QED BY <1>3, <2>2, <3>1, <3>2, <3>3 DEF PageTypeOK
  <2>4. TranscriptInv' BY <1>1, <1>4, <2>1, OpenStreamKeepsTranscript
  <2>5. Len(request) + 1 \in ByEffect' BY <2>2 DEF ByEffect
  <2>6. Opening' /\ HandoffAsked' BY <1>3, <2>5 DEF Opening, HandoffAsked
  <2>7. Backed'
    <3>1. streaming' # 0 BY <2>2
    <3>2. CASE token = 0
      <4>1. bubble'.question = First BY <1>1, <1>2, <1>4, <3>2 DEF BubbleInv, Opening
      <4> QED BY <2>2, <3>1, <4>1 DEF Backed
    <3>3. CASE token # 0
      <4>1. PICK i \in ByEffect : TRUE BY <1>2, <1>4, <3>3 DEF BubbleInv, HandoffAsked
      <4>2. i \in ByEffect' /\ i # Len(request) + 1 BY <2>2, <4>1 DEF ByEffect
      <4> QED BY <2>5, <3>1, <4>2 DEF Backed
    <3> QED BY <3>2, <3>3
  <2> QED BY <2>3, <2>4, <2>6, <2>7 DEF PageInv, BubbleInv
<1>5. CASE /\ ~handoff /\ SendLoad
           /\ UNCHANGED <<streaming, event, cut, received, request, recorded>>
  <2>1. /\ TranscriptInv' /\ overlapped' \in BOOLEAN /\ loaded' \in Nat
        /\ replies' \subseteq [load : Nat, turns : Seq(DOMAIN request')]
    BY <1>1, <1>5, SendLoadKeeps
  <2>2. PageTypeOK' BY <1>1, <1>2, <1>3, <1>5, <2>1 DEF PageTypeOK
  <2>3. Opening' /\ HandoffAsked' BY <1>1, <1>3, <1>5 DEF Opening, HandoffAsked
  <2>4. Backed'
    <3>1. CASE token = 0
      <4>1. bubble' = NoBubble BY <1>1, <1>2, <1>5, <3>1 DEF BubbleInv, Opening
      <4> QED BY <4>1 DEF Backed, Asking
    <3>2. CASE token # 0
      BY <1>1, <1>2, <1>5, <3>2 DEF BubbleInv, Backed, Asking, ByEffect
    <3> QED BY <3>1, <3>2
  <2> QED BY <2>1, <2>2, <2>3, <2>4 DEF PageInv, BubbleInv
<1> QED BY <1>1, <1>4, <1>5

\* The user asks, or asks again: the stream is of the bubble's question.
LEMMA AskedKeepsPageInv == ASSUME PageInv, Submit \/ RetryTurn PROVE PageInv'
<1>1. PageTypeOK /\ BubbleInv /\ TranscriptInv BY DEF PageInv
<1>2. PICK question \in Nat :
          OpenStream(question, "user") /\ bubble' = [question |-> question, failed |-> FALSE]
  <2>1. CASE Submit
    <3>1. Len(request) + 1 \in Nat BY <1>1 DEF PageTypeOK
    <3> QED BY <2>1, <3>1 DEF Submit
  <2>2. CASE RetryTurn
    <3>1. bubble.question \in Nat /\ bubble \in [question : Nat, failed : BOOLEAN]
      BY <1>1 DEF PageTypeOK
    <3>2. OpenStream(bubble.question, "user") /\ bubble' = [bubble EXCEPT !.failed = FALSE]
      BY <2>2 DEF RetryTurn
    <3>3. bubble' = [question |-> bubble.question, failed |-> FALSE] BY <3>1, <3>2
    <3> QED BY <3>1, <3>2, <3>3
  <2> QED BY <2>1, <2>2
<1>3. token # 0 /\ UNCHANGED <<handoff, token, transcript, nextSeq, loadFailed, replies, loaded>>
  BY DEF Submit, RetryTurn
<1>4. /\ request' \in Seq(Request) /\ DOMAIN request = 1..Len(request)
      /\ Len(request) \in Nat /\ Len(request') = Len(request) + 1
      /\ DOMAIN request' = 1..Len(request) + 1
      /\ \A i \in DOMAIN request : request'[i] = request[i]
      /\ streaming' = Len(request) + 1
      /\ request'[Len(request) + 1].question = question
      /\ event' = "none" /\ cut' = FALSE
      /\ recorded' \in Seq(DOMAIN request') /\ received' \subseteq DOMAIN request'
      /\ replies' \subseteq [load : Nat, turns : Seq(DOMAIN request')]
      /\ overlapped' \in BOOLEAN
  BY <1>1, <1>2, <1>3, OpenStreamEffects
<1>5. PageTypeOK'
  <2>1. streaming' \in 0..Len(request') /\ cut' \in BOOLEAN
    <3>1. streaming' = Len(request) + 1 /\ Len(request') = Len(request) + 1 /\ Len(request) \in Nat
      BY <1>4
    <3>2. streaming' \in 0..Len(request') BY <3>1
    <3>3. cut' \in BOOLEAN BY <1>4
    <3> QED BY <3>2, <3>3
  <2>2. event' \in {"none", "result", "failed", "over"} /\ event' = "none" BY <1>4
  <2>3. /\ handoff' \in BOOLEAN /\ loadFailed' \in BOOLEAN /\ loaded' \in Nat /\ nextSeq' \in Nat
        /\ token' \in 0..MaxRenewals /\ transcript' \in Seq(Nat)
    BY <1>1, <1>3 DEF PageTypeOK
  <2>4. bubble' \in [question : Nat, failed : BOOLEAN] BY <1>2
  <2> QED BY <1>4, <2>1, <2>2, <2>3, <2>4 DEF PageTypeOK
<1>6. TranscriptInv' BY <1>2, <1>3, OpenStreamKeepsTranscript
<1>7. Opening' BY <1>3 DEF Opening
<1>8. HandoffAsked'
  <2>1. ByEffect \subseteq ByEffect' BY <1>4 DEF ByEffect
  <2> QED BY <1>1, <1>3, <2>1 DEF BubbleInv, HandoffAsked
<1>9. Backed' BY <1>2, <1>4 DEF Backed
<1> QED BY <1>5, <1>6, <1>7, <1>8, <1>9 DEF PageInv, BubbleInv

\* The stream is over, and nothing waits for it any more.
LEMMA StreamOverKeepsPageInv == ASSUME PageInv, Stop \/ TurnFails \/ BodyEnds PROVE PageInv'
<1>1. PageTypeOK /\ BubbleInv /\ TranscriptInv BY DEF PageInv
<1>2. /\ streaming' = 0 /\ event' = "none" /\ cut' \in BOOLEAN
      /\ UNCHANGED <<handoff, token, transcript, nextSeq, loadFailed, replies, request, recorded,
                     received, overlapped, loaded>>
  BY <1>1 DEF Stop, TurnFails, BodyEnds, serverVars, PageTypeOK
<1>3. bubble' \in [question : Nat, failed : BOOLEAN] /\ (~cut' => ~Asking')
  <2>1. bubble \in [question : Nat, failed : BOOLEAN] BY <1>1 DEF PageTypeOK
  <2>2. \/ bubble' = bubble /\ cut' = TRUE
        \/ bubble' = NoBubble
        \/ bubble' = [bubble EXCEPT !.failed = TRUE]
    BY DEF Stop, TurnFails, BodyEnds
  <2>3. CASE bubble' = bubble /\ cut' = TRUE BY <2>1, <2>3
  <2>4. CASE bubble' = NoBubble
    <3>1. bubble' \in [question : Nat, failed : BOOLEAN] BY <2>4 DEF NoBubble
    <3> QED BY <2>4, <3>1 DEF Asking
  <2>5. CASE bubble' = [bubble EXCEPT !.failed = TRUE]
    <3>1. bubble' \in [question : Nat, failed : BOOLEAN] /\ bubble'.failed = TRUE BY <2>1, <2>5
    <3> QED BY <3>1 DEF Asking
  <2> QED BY <2>2, <2>3, <2>4, <2>5
<1>4. token # 0
  BY <1>1 DEF Stop, TurnFails, BodyEnds, BubbleInv, Opening
<1>5. PageTypeOK'
  <2>1. 0 \in 0..Len(request') BY <1>1, <1>2 DEF PageTypeOK
  <2> QED BY <1>1, <1>2, <1>3, <2>1 DEF PageTypeOK
<1>6. TranscriptInv' BY <1>1, <1>2, QuietKeepsTranscript
<1>7. Opening' /\ HandoffAsked' /\ Backed'
  BY <1>1, <1>2, <1>3, <1>4 DEF BubbleInv, Opening, HandoffAsked, Backed, ByEffect
<1> QED BY <1>5, <1>6, <1>7 DEF PageInv, BubbleInv

\* A broken connection: how the stream ends is not how the turn does.
LEMMA DisconnectKeepsPageInv == ASSUME PageInv, Disconnect PROVE PageInv'
<1>1. PageTypeOK /\ BubbleInv /\ TranscriptInv BY DEF PageInv
<1>2. /\ streaming # 0 /\ event' \in {"failed", "over"}
      /\ UNCHANGED <<handoff, token, bubble, streaming, cut, transcript, nextSeq, loadFailed,
                     replies, request, recorded, received, overlapped, loaded>>
  BY DEF Disconnect, serverVars
<1>3. PageTypeOK' BY <1>1, <1>2 DEF PageTypeOK
<1>4. BubbleInv'
  BY <1>1, <1>2 DEF BubbleInv, Opening, HandoffAsked, Backed, Asking, ByEffect
<1>5. History' /\ Answers' /\ Owned' /\ Shows'
  BY <1>1, <1>2 DEF TranscriptInv, History, Answers, Owned, Shows, Unlike, Complete
<1>6. Ending' BY <1>1, <1>2 DEF TranscriptInv, Ending
<1> QED BY <1>3, <1>4, <1>5, <1>6 DEF PageInv, TranscriptInv

LEMMA RetryLoadKeepsPageInv == ASSUME PageInv, RetryLoad PROVE PageInv'
<1>1. PageTypeOK /\ BubbleInv /\ TranscriptInv BY DEF PageInv
<1>2. /\ token # 0 /\ SendLoad
      /\ UNCHANGED <<handoff, token, bubble, streaming, event, cut, transcript, nextSeq, loadFailed,
                     received, request, recorded>>
  BY DEF RetryLoad, serverVars
<1>3. /\ TranscriptInv' /\ overlapped' \in BOOLEAN /\ loaded' \in Nat
      /\ replies' \subseteq [load : Nat, turns : Seq(DOMAIN request')]
  BY <1>2, SendLoadKeeps
<1>4. PageTypeOK' BY <1>1, <1>2, <1>3 DEF PageTypeOK
<1>5. BubbleInv'
  BY <1>1, <1>2 DEF BubbleInv, Opening, HandoffAsked, Backed, Asking, ByEffect
<1> QED BY <1>3, <1>4, <1>5 DEF PageInv

\* A turn ends once, so the history gains one it does not have.
LEMMA EndTurnKeepsPageInv ==
    ASSUME PageInv, NEW i \in DOMAIN request, EndTurn(i)
    PROVE  PageInv'
<1>1. PageTypeOK /\ BubbleInv /\ TranscriptInv BY DEF PageInv
<1>2. PICK fate \in {"recorded", "unsaved", "failed"} :
          /\ request' = [request EXCEPT ![i].fate = fate]
          /\ recorded' = IF fate = "recorded" THEN Append(recorded, i) ELSE recorded
          /\ IF streaming = i /\ event = "none"
             THEN event' = IF fate = "failed" THEN "failed" ELSE "result"
             ELSE UNCHANGED event
  BY DEF EndTurn
<1>3. /\ request[i].fate = "running"
      /\ UNCHANGED <<handoff, token, bubble, streaming, cut, transcript, nextSeq, loadFailed,
                     replies, received, overlapped, loaded>>
  BY DEF EndTurn
<1>4. request \in Seq(Request) /\ DOMAIN request = 1..Len(request) /\ i \in 1..Len(request)
      /\ Len(request) \in Nat
  BY <1>1 DEF PageTypeOK
<1>5. /\ request' \in Seq(Request) /\ DOMAIN request' = DOMAIN request
      /\ Len(request') = Len(request)
      /\ \A k \in DOMAIN request : /\ request'[k].question = request[k].question
                                   /\ request'[k].by = request[k].by
                                   /\ k # i => request'[k] = request[k]
      /\ request'[i].fate = fate
  <2> DEFINE new == [request[i] EXCEPT !.fate = fate]
  <2>1. request[i] \in Request BY <1>4
  <2>2. /\ new \in Request /\ new.fate = fate /\ new.question = request[i].question
        /\ new.by = request[i].by
    BY <2>1 DEF Request
  <2>3. request' = [request EXCEPT ![i] = new] BY <1>2
  <2> HIDE DEF new
  <2>4. request' \in Seq(Request) /\ Len(request') = Len(request)
        /\ \A k \in 1..Len(request) : request'[k] = IF k = i THEN new ELSE request[k]
    BY <1>4, <2>2, <2>3, ExceptSeq
  <2>5. DOMAIN request' = DOMAIN request BY <1>4, <2>4
  <2> QED BY <1>4, <2>2, <2>4, <2>5
<1>6. recorded \in Seq(DOMAIN request) /\ DOMAIN recorded = 1..Len(recorded) /\ Len(recorded) \in Nat
  BY <1>1 DEF PageTypeOK
<1>7. i \notin received /\ \A k \in DOMAIN recorded : recorded[k] # i
  BY <1>1, <1>3 DEF TranscriptInv, History, Ending, Told
<1>8. /\ recorded' \in Seq(DOMAIN request)
      /\ DOMAIN recorded \subseteq DOMAIN recorded'
      /\ \A k \in DOMAIN recorded : recorded'[k] = recorded[k]
      /\ \A k \in DOMAIN recorded' \ DOMAIN recorded :
             k = Len(recorded) + 1 /\ recorded'[k] = i /\ fate = "recorded"
      /\ fate = "recorded" => \E k \in DOMAIN recorded' : recorded'[k] = i
  <2>1. CASE fate = "recorded"
    <3>1. recorded' = Append(recorded, i) BY <1>2, <2>1
    <3>2. /\ recorded' \in Seq(DOMAIN request) /\ DOMAIN recorded' = 1..Len(recorded) + 1
          /\ recorded'[Len(recorded) + 1] = i
          /\ \A k \in DOMAIN recorded : recorded'[k] = recorded[k]
      BY <1>6, <3>1
    <3> QED BY <1>6, <2>1, <3>2
  <2>2. CASE fate # "recorded"
    <3>1. recorded' = recorded BY <1>2, <2>2
    <3> QED BY <1>6, <2>2, <3>1
  <2> QED BY <2>1, <2>2
<1>9. PageTypeOK'
  <2>1. /\ event' \in {"none", "result", "failed", "over"} /\ (event' # "none" => streaming' # 0)
    <3>1. i # 0 BY <1>4
    <3> QED BY <1>1, <1>2, <1>3, <3>1 DEF PageTypeOK
  <2>2. streaming' \in 0..Len(request') BY <1>1, <1>3, <1>5 DEF PageTypeOK
  <2>3. recorded' \in Seq(DOMAIN request') BY <1>5, <1>8
  <2>4. replies' \subseteq [load : Nat, turns : Seq(DOMAIN request')]
    BY <1>1, <1>3, <1>5 DEF PageTypeOK
  <2>5. received' \subseteq DOMAIN request' BY <1>1, <1>3, <1>5 DEF PageTypeOK
  <2> QED BY <1>1, <1>3, <1>5, <2>1, <2>2, <2>3, <2>4, <2>5 DEF PageTypeOK
<1>10. BubbleInv'
  <2>1. ByEffect' = ByEffect BY <1>5 DEF ByEffect
  <2>2. Opening'
    <3>1. token = 0 => streaming = 0 /\ event' = event BY <1>1, <1>2, <1>4 DEF BubbleInv, Opening
    <3>2. token = 0 => ~handoff
      <4>1. request # <<>> BY <1>4
      <4> QED BY <1>1, <4>1 DEF BubbleInv, Opening
    <3> QED BY <1>1, <1>3, <3>1, <3>2 DEF BubbleInv, Opening
  <2>3. HandoffAsked' BY <1>1, <1>3, <2>1 DEF BubbleInv, HandoffAsked
  <2>4. Backed'
    <3>1. streaming # 0 => request'[streaming].question = request[streaming].question
      <4>1. streaming \in 0..Len(request) BY <1>1 DEF PageTypeOK
      <4>2. streaming # 0 => streaming \in DOMAIN request BY <1>4, <4>1
      <4> QED BY <1>5, <4>2
    <3> QED BY <1>1, <1>3, <2>1, <3>1 DEF BubbleInv, Backed, Asking
  <2> QED BY <2>2, <2>3, <2>4 DEF BubbleInv
<1>11. \A k \in DOMAIN request : request[k].fate \in Told => request'[k] = request[k]
  BY <1>3, <1>5 DEF Told
<1>12. History'
  <2>1. ASSUME NEW k \in DOMAIN recorded' PROVE request'[recorded'[k]].fate = "recorded"
    <3>1. CASE k \in DOMAIN recorded
      <4>1. recorded[k] \in DOMAIN request BY <1>6, <3>1
      <4> QED BY <1>1, <1>5, <1>7, <1>8, <3>1, <4>1 DEF TranscriptInv, History
    <3>2. CASE k \notin DOMAIN recorded BY <1>5, <1>8, <3>2
    <3> QED BY <3>1, <3>2
  <2>2. ASSUME NEW j \in DOMAIN recorded', NEW k \in DOMAIN recorded', j # k
        PROVE  recorded'[j] # recorded'[k]
    <3>1. CASE j \in DOMAIN recorded /\ k \in DOMAIN recorded
      BY <1>1, <1>8, <2>2, <3>1 DEF TranscriptInv, History, Unlike
    <3>2. CASE j \notin DOMAIN recorded /\ k \in DOMAIN recorded BY <1>7, <1>8, <3>2
    <3>3. CASE j \in DOMAIN recorded /\ k \notin DOMAIN recorded BY <1>7, <1>8, <3>3
    <3>4. CASE j \notin DOMAIN recorded /\ k \notin DOMAIN recorded BY <1>8, <2>2, <3>4
    <3> QED BY <3>1, <3>2, <3>3, <3>4
  <2>3. ASSUME NEW k \in DOMAIN request', request'[k].fate = "recorded"
        PROVE  \E h \in DOMAIN recorded' : recorded'[h] = k
    <3>1. CASE k = i BY <1>5, <1>8, <2>3, <3>1
    <3>2. CASE k # i
      <4>1. k \in DOMAIN request /\ request[k].fate = "recorded" BY <1>5, <2>3, <3>2
      <4>2. PICK h \in DOMAIN recorded : recorded[h] = k
        BY <1>1, <4>1 DEF TranscriptInv, History
      <4> QED BY <1>8, <4>2
    <3> QED BY <3>1, <3>2
  <2>4. Unlike(recorded)' BY <2>2 DEF Unlike
  <2> QED BY <2>1, <2>3, <2>4 DEF History
<1>13. Ending'
  <2>1. \A k \in received : request'[k].fate \in Told
    <3>1. received \subseteq DOMAIN request BY <1>1 DEF PageTypeOK
    <3> QED BY <1>1, <1>11, <3>1 DEF TranscriptInv, Ending
  <2>2. event' = "result" => request'[streaming].fate \in Told
    <3>1. CASE streaming = i /\ event = "none" BY <1>2, <1>5, <3>1 DEF Told
    <3>2. CASE ~(streaming = i /\ event = "none")
      <4>1. event' = event BY <1>2, <3>2
      <4> SUFFICES ASSUME event = "result" PROVE request'[streaming].fate \in Told
        BY <4>1
      <4>2. streaming \in DOMAIN request BY <1>1, <1>4 DEF PageTypeOK
      <4> QED BY <1>1, <1>11, <4>2 DEF TranscriptInv, Ending
    <3> QED BY <3>1, <3>2
  <2> QED BY <1>3, <2>1, <2>2 DEF Ending
<1>14. Answers'
  <2> SUFFICES ASSUME NEW r \in replies
               PROVE  Unlike(r.turns) /\ \A k \in DOMAIN r.turns :
                                            request'[r.turns[k]].fate = "recorded"
    BY <1>3 DEF Answers, Unlike
  <2>1. r.turns \in Seq(DOMAIN request) BY <1>1 DEF PageTypeOK
  <2>2. \A k \in DOMAIN r.turns : r.turns[k] \in DOMAIN request BY <2>1
  <2> QED BY <1>1, <1>11, <2>2 DEF TranscriptInv, Answers, Told
<1>15. Owned' BY <1>1, <1>3, <1>5, <1>11 DEF TranscriptInv, Owned
<1>16. Shows'
  <2> SUFFICES ASSUME ~overlapped PROVE Shows' BY <1>3 DEF Shows
  <2>1. ASSUME NEW turns, Complete(turns) PROVE Complete(turns)'
    <3>1. received \subseteq DOMAIN request BY <1>1 DEF PageTypeOK
    <3>2. \A k \in received : request'[k] = request[k] BY <1>5, <1>7, <3>1
    <3> QED BY <1>3, <2>1, <3>2 DEF Complete
  <2>2. \A r \in replies' : Complete(r.turns)'
    BY <1>1, <1>3, <2>1 DEF TranscriptInv, Shows
  <2>3. transcript # NoDetail => Complete(transcript)'
    <3>1. \A k \in received : request'[k] = request[k]
      BY <1>1, <1>5, <1>7 DEF PageTypeOK
    <3> QED BY <1>1, <1>3, <3>1 DEF TranscriptInv, Shows, Complete
  <2> QED BY <1>1, <1>3, <2>2, <2>3 DEF TranscriptInv, Shows, Unlike
<1> QED BY <1>9, <1>10, <1>12, <1>13, <1>14, <1>15, <1>16 DEF PageInv, TranscriptInv

\* The turn that was streamed is added to a transcript that has not got it.
LEMMA TerminalKeepsPageInv == ASSUME PageInv, Terminal PROVE PageInv'
<1>1. PageTypeOK /\ BubbleInv /\ TranscriptInv BY DEF PageInv
<1> DEFINE old == IF transcript = NoDetail THEN <<>> ELSE transcript
<1>2. /\ event = "result" /\ transcript' = Append(old, streaming) /\ nextSeq' = nextSeq + 1
      /\ bubble' = NoBubble /\ streaming' = 0 /\ event' = "none" /\ loadFailed' = FALSE
      /\ received' = received \cup {streaming}
      /\ UNCHANGED <<handoff, token, cut, replies, request, recorded, overlapped, loaded>>
  BY DEF Terminal, serverVars
<1>3. old \in Seq(Nat) /\ streaming \in Nat /\ streaming # 0
  <2>1. transcript \in Seq(Nat) BY <1>1 DEF PageTypeOK
  <2>2. old \in Seq(Nat) BY <2>1
  <2>3. streaming \in 0..Len(request) /\ Len(request) \in Nat BY <1>1 DEF PageTypeOK
  <2> QED BY <1>1, <1>2, <2>2, <2>3 DEF PageTypeOK
<1>4. /\ transcript' \in Seq(Nat) /\ Len(transcript') = Len(old) + 1 /\ Len(old) \in Nat
      /\ DOMAIN old = 1..Len(old) /\ DOMAIN transcript' = 1..Len(old) + 1
      /\ transcript'[Len(old) + 1] = streaming
      /\ \A k \in DOMAIN old : transcript'[k] = old[k]
  <2> HIDE DEF old
  <2> QED BY <1>2, <1>3
<1>5. streaming \in DOMAIN request BY <1>1, <1>3 DEF PageTypeOK
<1>6. PageTypeOK'
  <2>1. bubble' \in [question : Nat, failed : BOOLEAN] BY <1>2 DEF NoBubble
  <2>2. nextSeq' \in Nat BY <1>1, <1>2 DEF PageTypeOK
  <2>3. streaming' \in 0..Len(request') BY <1>1, <1>2 DEF PageTypeOK
  <2>4. received' \subseteq DOMAIN request' BY <1>1, <1>2, <1>5 DEF PageTypeOK
  <2> QED BY <1>1, <1>2, <1>4, <2>1, <2>2, <2>3, <2>4 DEF PageTypeOK
<1>7. BubbleInv'
  <2>1. token # 0 BY <1>1, <1>2 DEF BubbleInv, Opening
  <2> QED BY <1>1, <1>2, <2>1 DEF BubbleInv, Opening, HandoffAsked, Backed, Asking, ByEffect
<1>8. History' /\ Ending' /\ Answers'
  BY <1>1, <1>2 DEF TranscriptInv, History, Ending, Answers, Unlike
<1>9. transcript' # NoDetail
  <2> HIDE DEF old
  <2>1. CASE Len(old) = 0 BY <1>3, <1>4, <2>1 DEF NoDetail
  <2>2. CASE Len(old) # 0
    <3>1. Len(transcript') # 1 /\ Len(NoDetail) = 1 BY <1>4, <2>2 DEF NoDetail
    <3> QED BY <3>1
  <2> QED BY <2>1, <2>2
<1>10. \A k \in DOMAIN old : transcript # NoDetail /\ transcript[k] = old[k]
                            /\ k \in DOMAIN transcript
  <2>1. CASE transcript = NoDetail
    <3>1. DOMAIN old = {} BY <1>4, <2>1
    <3> QED BY <3>1
  <2>2. CASE transcript # NoDetail
    <3>1. old = transcript BY <2>2
    <3> HIDE DEF old
    <3> QED BY <2>2, <3>1
  <2> QED BY <2>1, <2>2
<1>11. Owned'
  <2> HIDE DEF old
  <2> SUFFICES ASSUME NEW k \in DOMAIN transcript'
               PROVE  /\ transcript'[k] \in DOMAIN request
                      /\ request[transcript'[k]].fate \in Told
    BY <1>2 DEF Owned
  <2>1. CASE k \in DOMAIN old BY <1>1, <1>4, <1>10, <2>1 DEF TranscriptInv, Owned
  <2>2. CASE k = Len(old) + 1 BY <1>1, <1>2, <1>4, <1>5, <2>2 DEF TranscriptInv, Ending
  <2> QED BY <1>4, <2>1, <2>2
<1>12. Shows'
  <2> SUFFICES ASSUME ~overlapped PROVE Shows' BY <1>2 DEF Shows
  <2>1. /\ \A k \in DOMAIN old : old[k] # streaming
        /\ Unlike(old) /\ Complete(old) /\ nextSeq = Len(old)
    <3>1. CASE transcript = NoDetail
      <4>1. old = <<>> /\ DOMAIN old = {} /\ Len(old) = 0 BY <3>1
      <4>2. nextSeq = 0 /\ received = {} BY <1>1, <3>1 DEF TranscriptInv, Shows
      <4> HIDE DEF old
      <4> QED BY <4>1, <4>2 DEF Unlike, Complete
    <3>2. CASE transcript # NoDetail
      <4>1. old = transcript BY <3>2
      <4> HIDE DEF old
      <4> QED BY <1>1, <1>3, <3>2, <4>1 DEF TranscriptInv, Shows
    <3> QED BY <3>1, <3>2
  <2> HIDE DEF old
  <2>2. Unlike(transcript)'
    <3> SUFFICES ASSUME NEW t \in DOMAIN transcript', NEW u \in DOMAIN transcript', t # u
                 PROVE  transcript'[t] # transcript'[u]
      BY DEF Unlike
    <3>1. CASE t \in DOMAIN old /\ u \in DOMAIN old BY <1>4, <2>1, <3>1 DEF Unlike
    <3>2. CASE t \in DOMAIN old /\ u = Len(old) + 1 BY <1>4, <2>1, <3>2
    <3>3. CASE t = Len(old) + 1 /\ u \in DOMAIN old BY <1>4, <2>1, <3>3
    <3>4. CASE t = Len(old) + 1 /\ u = Len(old) + 1 BY <3>4
    <3> QED BY <1>4, <3>1, <3>2, <3>3, <3>4
  <2>3. Complete(transcript)'
    <3> SUFFICES ASSUME NEW i \in received', request[i].fate = "recorded"
                 PROVE  \E k \in DOMAIN transcript' : transcript'[k] = i
      BY <1>2 DEF Complete
    <3>1. CASE i = streaming
      <4>1. Len(old) + 1 \in DOMAIN transcript' BY <1>4
      <4> QED BY <1>4, <3>1, <4>1
    <3>2. CASE i \in received
      <4>1. PICK k \in DOMAIN old : old[k] = i BY <2>1, <3>2 DEF Complete
      <4>2. k \in DOMAIN transcript' BY <1>4, <4>1
      <4> QED BY <1>4, <4>1, <4>2
    <3> QED BY <1>2, <3>1, <3>2
  <2>4. nextSeq' = Len(transcript') BY <1>2, <1>4, <2>1
  <2>5. replies' = {} BY <1>1, <1>2, <1>3 DEF TranscriptInv, Shows
  <2> QED BY <1>2, <1>9, <2>2, <2>3, <2>4, <2>5 DEF Shows
<1> QED BY <1>6, <1>7, <1>8, <1>11, <1>12 DEF PageInv, TranscriptInv

\* What a load brings is some of the history; while no load overlaps a stream, it comes
\* when none is live.
LEMMA LoadArrivesKeepsPageInv == ASSUME PageInv, LoadArrives PROVE PageInv'
<1>1. PageTypeOK /\ BubbleInv /\ TranscriptInv BY DEF PageInv
<1>2. PICK r \in replies :
          /\ replies' = replies \ {r}
          /\ \/ /\ r.turns # <<>> /\ transcript' = r.turns
                /\ nextSeq' = Len(r.turns) /\ loadFailed' = FALSE
             \/ loadFailed' = TRUE /\ UNCHANGED <<transcript, nextSeq>>
  BY DEF LoadArrives, Replaced
<1>3. UNCHANGED <<handoff, token, bubble, streaming, event, cut, request, recorded, received,
                  overlapped, loaded>>
  BY DEF LoadArrives, serverVars
<1>4. r \in [load : Nat, turns : Seq(DOMAIN request)] /\ DOMAIN request \subseteq Nat
      /\ 0 \notin DOMAIN request
  BY <1>1 DEF PageTypeOK
<1>5. r.turns \in Seq(DOMAIN request) /\ r.turns \in Seq(Nat) BY <1>4, SeqGrows
<1>6. transcript' \in Seq(Nat) /\ nextSeq' \in Nat /\ loadFailed' \in BOOLEAN
  <2>1. CASE transcript' = r.turns /\ nextSeq' = Len(r.turns) /\ loadFailed' = FALSE
    <3>1. transcript' \in Seq(Nat) /\ nextSeq' \in Nat BY <1>5, <2>1
    <3> QED BY <2>1, <3>1
  <2>2. CASE loadFailed' = TRUE /\ UNCHANGED <<transcript, nextSeq>>
    BY <1>1, <2>2 DEF PageTypeOK
  <2> QED BY <1>2, <2>1, <2>2
<1>7. replies' \subseteq replies BY <1>2
<1>8. PageTypeOK' BY <1>1, <1>3, <1>6, <1>7 DEF PageTypeOK
<1>9. BubbleInv'
  BY <1>1, <1>3 DEF BubbleInv, Opening, HandoffAsked, Backed, Asking, ByEffect
<1>10. History' /\ Ending' /\ Answers'
  BY <1>1, <1>3, <1>7 DEF TranscriptInv, History, Ending, Answers, Unlike
<1>11. /\ Unlike(r.turns)
       /\ \A k \in DOMAIN r.turns :
             r.turns[k] \in DOMAIN request /\ request[r.turns[k]].fate = "recorded"
  BY <1>1, <1>5 DEF TranscriptInv, Answers
<1>12. Owned'
  <2>1. CASE transcript' = r.turns BY <1>3, <1>11, <2>1 DEF Owned, Told
  <2>2. CASE UNCHANGED <<transcript, nextSeq>> BY <1>1, <1>3, <2>2 DEF TranscriptInv, Owned
  <2> QED BY <1>2, <2>1, <2>2
<1>13. Shows'
  <2> SUFFICES ASSUME ~overlapped PROVE Shows' BY <1>3 DEF Shows
  <2>1. streaming = 0 BY <1>1, <1>2 DEF TranscriptInv, Shows
  <2>2. Complete(r.turns)' /\ \A p \in replies' : Complete(p.turns)'
    BY <1>1, <1>3, <1>7 DEF TranscriptInv, Shows, Complete
  <2>3. CASE r.turns # <<>> /\ transcript' = r.turns /\ nextSeq' = Len(r.turns)
    <3>1. transcript' # NoDetail
      <4> SUFFICES ASSUME transcript' = NoDetail PROVE FALSE OBVIOUS
      <4>1. r.turns[1] = 0 /\ 1 \in DOMAIN r.turns BY <2>3 DEF NoDetail
      <4>2. r.turns[1] \in DOMAIN request BY <1>5, <4>1
      <4> QED BY <1>4, <4>1, <4>2
    <3>2. Unlike(transcript)' /\ Complete(transcript)'
      BY <1>11, <2>2, <2>3 DEF Unlike, Complete
    <3> QED BY <1>3, <2>1, <2>2, <2>3, <3>1, <3>2 DEF Shows
  <2>4. CASE UNCHANGED <<transcript, nextSeq>>
    <3>1. transcript' # NoDetail => Unlike(transcript)' /\ Complete(transcript)'
      BY <1>1, <1>3, <2>4 DEF TranscriptInv, Shows, Unlike, Complete
    <3> QED BY <1>1, <1>3, <2>1, <2>2, <2>4, <3>1 DEF TranscriptInv, Shows
  <2> QED BY <1>2, <2>3, <2>4
<1> QED BY <1>8, <1>9, <1>10, <1>12, <1>13 DEF PageInv, TranscriptInv

LEMMA PageNextKeepsInv == PageInv /\ [PageNext]_pageVars => PageInv'
<1>1. ASSUME PageInv, PageNext PROVE PageInv'
  BY <1>1, RenewKeepsPageInv, AskedKeepsPageInv, StreamOverKeepsPageInv, RetryLoadKeepsPageInv,
     EndTurnKeepsPageInv, DisconnectKeepsPageInv, TerminalKeepsPageInv, LoadArrivesKeepsPageInv
     DEF PageNext
<1>2. ASSUME PageInv, UNCHANGED pageVars PROVE PageInv'
  <2>1. PageTypeOK' BY <1>2 DEF pageVars, PageInv, PageTypeOK
  <2>2. BubbleInv'
    BY <1>2 DEF pageVars, PageInv, BubbleInv, Opening, HandoffAsked, Backed, Asking, ByEffect
  <2>3. TranscriptInv' BY <1>2, QuietKeepsTranscript DEF pageVars, PageInv
  <2> QED BY <2>1, <2>2, <2>3 DEF PageInv
<1> QED BY <1>1, <1>2

LEMMA PageInvariance == PageSpec => []PageInv
BY PageInitInv, PageNextKeepsInv, PTL DEF PageSpec

\* A bubble that waits has a live stream of its own question behind it, through any
\* number of renewals, retries and stops, unless the stream's body just ended or the
\* question handed over was asked again.
THEOREM PendingIsBacked == PageSpec => []PendingIsStreamed
<1>1. PageInv => PendingIsStreamed
  <2> SUFFICES ASSUME PageInv, Asking, token # 0, ~cut
               PROVE  /\ streaming # 0
                      /\ Cardinality(ByEffect) <= 1 =>
                             request[streaming].question = bubble.question
    BY DEF PendingIsStreamed
  <2>1. /\ streaming # 0
        /\ (\A i, k \in ByEffect : i = k) => request[streaming].question = bubble.question
    BY DEF PageInv, BubbleInv, Backed
  <2>2. ASSUME Cardinality(ByEffect) <= 1, NEW i \in ByEffect, NEW k \in ByEffect
        PROVE  i = k
    <3>1. request \in Seq(Request) BY DEF PageInv, PageTypeOK
    <3>2. IsFiniteSet(1..Len(request)) BY <3>1, FS_Interval
    <3>3. ByEffect \subseteq 1..Len(request) BY <3>1 DEF ByEffect
    <3>4. IsFiniteSet(ByEffect) BY <3>2, <3>3, FS_Subset
    <3>5. SUFFICES ASSUME i # k PROVE FALSE OBVIOUS
    <3>6. IsFiniteSet(ByEffect \ {i})
          /\ Cardinality(ByEffect \ {i}) = Cardinality(ByEffect) - 1
      BY <3>4, FS_RemoveElement
    <3>7. Cardinality(ByEffect) \in Nat BY <3>4, FS_CardinalityType
    <3>8. Cardinality(ByEffect \ {i}) = 0
      <4>1. Cardinality(ByEffect \ {i}) \in Nat BY <3>6, FS_CardinalityType
      <4> QED BY <2>2, <3>6, <3>7, <4>1
    <3>9. ByEffect \ {i} = {} BY <3>6, <3>8, FS_EmptySet
    <3> QED BY <3>5, <3>9
  <2> QED BY <2>1, <2>2
<1> QED BY <1>1, PageInvariance, PTL

\* However many turns, loads and lost connections: a page shows none but turns the server
\* has or warned it could not save, and, where no load overlapped a stream, every turn
\* it was streamed and the server has, and none twice.
THEOREM TranscriptsAreWhole == PageSpec => []TranscriptIsWhole
<1>1. PageInv => TranscriptIsWhole
  <2> SUFFICES ASSUME PageInv, transcript # NoDetail PROVE TranscriptIsWhole
    BY DEF TranscriptIsWhole
  <2>1. TranscriptInv BY DEF PageInv
  <2> QED BY <2>1 DEF TranscriptInv, Owned, Told, Shows, Unlike, Complete, Shown, TranscriptIsWhole
<1> QED BY <1>1, PageInvariance, PTL

-----------------------------------------------------------------------------
(***************************************************************************)
(* The session                                                             *)
(***************************************************************************)

\* A closed tab has no session, and nothing on its way.
ClosedIsSilent == \A t \in Tabs : point[t] = "closed" => session[t] = 0 /\ inbox[t] = <<>>

\* An answer that sets the cookie is on its way to a tab that waits for it.
WritesWait == \A t \in writes : point[t] = "answered"

Inside == {"held", "sent", "answered"}

\* One tab at a time is in the lock, unless tabs run inside another's.
LockWorks ==
    ~racing =>
        /\ \A t \in Tabs : point[t] \notin {"write", "back"}
        /\ \A t \in Tabs : point[t] \in Inside => holder = t
        /\ aged /\ holder # NoTab => point[holder] = "closed"

\* The cookie, or the one that is to replace it, is a token GoTrue accepts.
Kept ==
    ~racing /\ ~loggedOut /\ ~broken =>
        /\ writes = {} => cookie \in valid
        /\ \A t \in Tabs : point[t] = "sent" => answer[t] \in valid \cup {0}
        /\ \A t \in writes : answer[t] \in valid

\* A tab whose session is gone, or is once it heard all it was told.
Parting(t) ==
    /\ inbox[t] = <<>> => session[t] = 0
    /\ inbox[t] # <<>> => inbox[t][Len(inbox[t])] = 0

\* Nothing brings a session back after a logout was told, unless it was on its way then.
Gone ==
    announced /\ ~crossed =>
        /\ cookie = 0
        /\ \A t \in Tabs :
              /\ entering[t] = 0
              /\ point[t] = "sent" => answer[t] \notin valid
              /\ point[t] = "answered" => answer[t] = 0
        /\ \A t \in Tabs : Parting(t)

SessionInv == SessionTypeOK /\ ClosedIsSilent /\ WritesWait /\ LockWorks /\ Kept /\ Gone

Points == {"idle", "look", "write", "back", "held", "wait", "sent", "answered", "closed"}

LEMMA SessionInitInv == SessionInit => SessionInv
<1> SUFFICES ASSUME SessionInit PROVE SessionInv OBVIOUS
<1>1. /\ point = [t \in Tabs |-> "idle"]
      /\ racing \in BOOLEAN
      /\ answer = [t \in Tabs |-> 0] /\ session = [t \in Tabs |-> 0] /\ writes = {}
      /\ inbox = [t \in Tabs |-> <<>>] /\ heard = {} /\ loading = Tabs /\ timer = {}
      /\ holder = NoTab /\ aged = FALSE /\ minted = 1
      /\ cookie \in {0, 1} /\ valid = {cookie} \ {0} /\ leaving = {}
      /\ entering = [t \in Tabs |-> 0]
      /\ loggedOut = (cookie = 0) /\ announced = FALSE /\ crossed = FALSE /\ broken = FALSE
  BY DEF SessionInit
<1>2. minted \in Nat /\ cookie \in Token /\ valid \subseteq 1..minted /\ 0 \in Token
  BY <1>1 DEF Token
<1>3. /\ answer \in [Tabs -> Token] /\ session \in [Tabs -> Token] /\ entering \in [Tabs -> Token]
      /\ inbox \in [Tabs -> Seq(Token)]
  BY <1>1, <1>2
<1>4. loggedOut \in BOOLEAN BY <1>1
<1>5. /\ aged \in BOOLEAN /\ announced \in BOOLEAN /\ crossed \in BOOLEAN /\ broken \in BOOLEAN
      /\ holder \in Tabs \cup {NoTab}
  BY <1>1
<1>6. point \in [Tabs -> Points] BY <1>1 DEF Points
<1>7. SessionTypeOK BY <1>1, <1>2, <1>3, <1>4, <1>5, <1>6 DEF SessionTypeOK, Points
<1>8. ClosedIsSilent /\ WritesWait BY <1>1 DEF ClosedIsSilent, WritesWait
<1>9. LockWorks BY <1>1 DEF LockWorks, Inside
<1>10. Kept BY <1>1 DEF Kept
<1>11. Gone BY <1>1 DEF Gone
<1> QED BY <1>7, <1>8, <1>9, <1>10, <1>11 DEF SessionInv

\* Tokens stay tokens.
LEMMA TokensStay ==
    ASSUME SessionTypeOK, minted' \in Nat, minted <= minted'
    PROVE  /\ Token \subseteq Token' /\ 0 \in Token' /\ valid \subseteq 1..minted' /\ cookie \in Token'
           /\ answer \in [Tabs -> Token'] /\ session \in [Tabs -> Token']
           /\ entering \in [Tabs -> Token'] /\ inbox \in [Tabs -> Seq(Token')]
<1>1. Token \subseteq Token' /\ 0 \in Token' BY DEF SessionTypeOK, Token
<1>2. valid \subseteq 1..minted' BY DEF SessionTypeOK
<1>3. /\ answer \in [Tabs -> Token'] /\ session \in [Tabs -> Token']
      /\ entering \in [Tabs -> Token'] /\ cookie \in Token'
  BY <1>1 DEF SessionTypeOK
<1>4. inbox \in [Tabs -> Seq(Token')]
  <2>1. \A u \in Tabs : inbox[u] \in Seq(Token') BY <1>1, SeqGrows DEF SessionTypeOK
  <2> QED BY <2>1 DEF SessionTypeOK
<1> QED BY <1>1, <1>2, <1>3, <1>4

\* A message reaches every other open tab, behind what it has not heard yet.
LEMMA Posted ==
    ASSUME SessionTypeOK, NEW t \in Tabs, NEW sent \in Token, Post(t, sent)
    PROVE  /\ inbox' \in [Tabs -> Seq(Token)]
           /\ inbox'[t] = inbox[t]
           /\ \A p \in Tabs : point[p] = "closed" => inbox'[p] = inbox[p]
           /\ \A p \in Tabs \ {t} : point[p] # "closed" =>
                  inbox'[p] # <<>> /\ inbox'[p][Len(inbox'[p])] = sent
<1>1. inbox' = [p \in Tabs |-> IF p = t \/ point[p] = "closed" THEN inbox[p]
                               ELSE Append(inbox[p], sent)]
  BY DEF Post
<1>2. ASSUME NEW p \in Tabs
      PROVE  /\ inbox[p] \in Seq(Token)
             /\ Append(inbox[p], sent) \in Seq(Token) /\ Append(inbox[p], sent) # <<>>
             /\ Append(inbox[p], sent)[Len(Append(inbox[p], sent))] = sent
  <2>1. inbox[p] \in Seq(Token) BY DEF SessionTypeOK
  <2> QED BY <2>1
<1>3. \A p \in Tabs : inbox'[p] = IF p = t \/ point[p] = "closed" THEN inbox[p]
                                  ELSE Append(inbox[p], sent)
  BY <1>1
<1>4. inbox' \in [Tabs -> Seq(Token)] BY <1>1, <1>2
<1>5. ASSUME NEW p \in Tabs \ {t}, point[p] # "closed"
      PROVE  inbox'[p] # <<>> /\ inbox'[p][Len(inbox'[p])] = sent
  <2>1. inbox'[p] = Append(inbox[p], sent) BY <1>3, <1>5
  <2> QED BY <1>2, <2>1
<1>6. inbox'[t] = inbox[t] /\ \A p \in Tabs : point[p] = "closed" => inbox'[p] = inbox[p]
  BY <1>3
<1> QED BY <1>4, <1>5, <1>6

\* A tab that only moves within the lock, or waits for it.
LEMMA MoveKeepsSessionInv ==
    ASSUME SessionInv, UNCHANGED racing, NEW t \in Tabs, NEW p \in Points, Move(t, p),
           p \notin {"closed", "sent", "answered"},
           point[t] \notin {"closed", "sent", "answered"},
           UNCHANGED <<inbox, tokenVars>>,
           loading' \subseteq Tabs, timer' \subseteq timer, heard' \subseteq Tabs,
           holder' \in Tabs \cup {NoTab}, aged' \in BOOLEAN, LockWorks'
    PROVE  SessionInv'
<1>1. SessionTypeOK /\ ClosedIsSilent /\ WritesWait /\ Kept /\ Gone BY DEF SessionInv
<1>2. point' = [point EXCEPT ![t] = p] BY DEF Move
<1>3. /\ point' \in [Tabs -> Points] /\ point'[t] = p
      /\ \A u \in Tabs \ {t} : point'[u] = point[u]
  BY <1>1, <1>2 DEF SessionTypeOK, Points
<1>4. /\ UNCHANGED <<inbox, answer, writes, session, cookie, valid, minted, entering, leaving,
                     loggedOut, announced, crossed, broken>>
      /\ Token' = Token
  BY DEF tokenVars, vaultVars, userVars, Token
<1>5. SessionTypeOK'
  <2>1. timer' \subseteq Tabs /\ \A u \in timer' : point'[u] # "closed"
    BY <1>1, <1>3 DEF SessionTypeOK
  <2> QED BY <1>1, <1>3, <1>4, <2>1 DEF SessionTypeOK, Points
<1>6. \A u \in Tabs : /\ point'[u] = "answered" <=> point[u] = "answered"
                      /\ point'[u] = "sent" <=> point[u] = "sent"
                      /\ point'[u] = "closed" <=> point[u] = "closed"
  BY <1>3
<1>7. ClosedIsSilent' BY <1>1, <1>4, <1>6 DEF ClosedIsSilent
<1>8. WritesWait' BY <1>1, <1>4, <1>6 DEF WritesWait, SessionTypeOK
<1>9. Kept' BY <1>1, <1>4, <1>6 DEF Kept
<1>10. Gone' BY <1>1, <1>4, <1>6 DEF Gone, Parting
<1> QED BY <1>5, <1>7, <1>8, <1>9, <1>10 DEF SessionInv

-----------------------------------------------------------------------------
(* The lock. *)

LEMMA BeginKeepsSessionInv == ASSUME SessionInv, UNCHANGED racing, NEW t \in Tabs, Begin(t) PROVE SessionInv'
<1>1. /\ point[t] = "idle" /\ Move(t, "look") /\ timer' = timer \ {t}
      /\ UNCHANGED <<loading, heard, inbox, holder, aged, tokenVars>>
  BY DEF Begin, lockVars
<1>2. SessionTypeOK /\ LockWorks BY DEF SessionInv
<1>3. LockWorks' BY <1>1, <1>2 DEF Move, SessionTypeOK, LockWorks, Inside
<1> QED BY <1>1, <1>2, <1>3, MoveKeepsSessionInv DEF SessionTypeOK, Points

LEMMA AcquireKeepsSessionInv == ASSUME SessionInv, UNCHANGED racing, NEW t \in Tabs, Acquire(t) PROVE SessionInv'
<1>1. /\ ~racing /\ point[t] = "look" /\ LockFree /\ holder' = t /\ aged' = FALSE
      /\ Move(t, "held")
      /\ UNCHANGED <<loading, timer, heard, inbox, tokenVars>>
  BY DEF Acquire
<1>2. SessionTypeOK /\ LockWorks BY DEF SessionInv
<1>3. LockWorks'
  <2>1. \A u \in Tabs : point[u] \notin Inside
    <3> SUFFICES ASSUME NEW u \in Tabs, point[u] \in Inside PROVE FALSE OBVIOUS
    <3>1. holder = u /\ holder # NoTab BY <1>1, <1>2, SessionAssumption DEF LockWorks
    <3>2. point[holder] = "closed" BY <1>1, <1>2, <3>1 DEF LockFree, LockWorks
    <3> QED BY <3>1, <3>2 DEF Inside
  <2> QED BY <1>1, <1>2, <2>1 DEF Move, SessionTypeOK, LockWorks, Inside
<1> QED BY <1>1, <1>2, <1>3, MoveKeepsSessionInv DEF SessionTypeOK, Points

LEMMA RacingLockKeepsSessionInv ==
    ASSUME SessionInv, UNCHANGED racing, NEW t \in Tabs, See(t) \/ WriteStamp(t) \/ ReadBack(t)
    PROVE  SessionInv'
<1>1. SessionTypeOK /\ LockWorks BY DEF SessionInv
<1>2. /\ racing /\ point[t] \in {"look", "write", "back"}
      /\ UNCHANGED <<loading, timer, heard, inbox, tokenVars>>
  BY <1>1 DEF See, WriteStamp, ReadBack, LockWorks
<1>3. \E p \in {"write", "back", "held", "wait"} : Move(t, p)
  <2>1. CASE See(t) \/ WriteStamp(t) BY <2>1 DEF See, WriteStamp
  <2>2. CASE ReadBack(t)
    <3>1. CASE holder = t BY <2>2, <3>1 DEF ReadBack
    <3>2. CASE holder # t BY <2>2, <3>2 DEF ReadBack
    <3> QED BY <3>1, <3>2
  <2> QED BY <2>1, <2>2
<1>4. holder' \in Tabs \cup {NoTab} /\ aged' \in BOOLEAN
  BY <1>1 DEF See, WriteStamp, ReadBack, lockVars, SessionTypeOK
<1>5. LockWorks' BY <1>2 DEF LockWorks
<1>6. PICK p \in {"write", "back", "held", "wait"} : Move(t, p) BY <1>3
<1> QED BY <1>1, <1>2, <1>4, <1>5, <1>6, MoveKeepsSessionInv DEF SessionTypeOK, Points

LEMMA WaitingKeepsSessionInv ==
    ASSUME SessionInv, UNCHANGED racing, NEW t \in Tabs, Await(t) \/ Repoll(t) \/ GiveUp(t)
    PROVE  SessionInv'
<1>1. SessionTypeOK /\ LockWorks BY DEF SessionInv
<1>2. /\ point[t] \in {"look", "wait"}
      /\ UNCHANGED <<timer, inbox, holder, aged, tokenVars>>
      /\ loading' \subseteq loading /\ heard' \subseteq heard
  BY DEF Await, Repoll, GiveUp, Settled, lockVars
<1>3. \E p \in {"look", "wait", "idle"} : Move(t, p)
  BY DEF Await, Repoll, GiveUp, Settled
<1>4. PICK p \in {"look", "wait", "idle"} : Move(t, p) BY <1>3
<1>5. LockWorks' BY <1>1, <1>2, <1>4 DEF Move, SessionTypeOK, LockWorks, Inside
<1> QED BY <1>1, <1>2, <1>4, <1>5, MoveKeepsSessionInv DEF SessionTypeOK, Points

LEMMA AgeLockKeepsSessionInv == ASSUME SessionInv, UNCHANGED racing, AgeLock PROVE SessionInv'
<1>1. /\ holder # NoTab /\ aged' = TRUE /\ (point[holder] = "closed" \/ racing)
      /\ UNCHANGED <<point, answer, writes, session, loading, timer, heard, inbox, holder, cookie,
                     valid, minted, entering, leaving, loggedOut, announced, crossed, broken>>
  BY DEF AgeLock, tokenVars, vaultVars, userVars
<1>2. SessionTypeOK' BY <1>1 DEF SessionInv, SessionTypeOK, Token
<1>3. ClosedIsSilent' /\ WritesWait' BY <1>1 DEF SessionInv, ClosedIsSilent, WritesWait
<1>4. LockWorks' BY <1>1 DEF SessionInv, LockWorks
<1>5. Kept' BY <1>1 DEF SessionInv, Kept
<1>6. Gone' BY <1>1 DEF SessionInv, Gone, Parting
<1> QED BY <1>2, <1>3, <1>4, <1>5, <1>6 DEF SessionInv

-----------------------------------------------------------------------------
(* The exchange. *)

\* In the lock there is one tab, and the only answers are its.
LEMMA Alone ==
    ASSUME SessionInv, ~racing, NEW t \in Tabs, point[t] \in Inside
    PROVE  /\ \A u \in Tabs \ {t} : point[u] \notin Inside
           /\ writes \subseteq {t}
<1>1. \A u \in Tabs \ {t} : point[u] \notin Inside BY DEF SessionInv, LockWorks
<1> QED BY <1>1 DEF SessionInv, SessionTypeOK, WritesWait, Inside

LEMMA SendKeepsSessionInv == ASSUME SessionInv, UNCHANGED racing, NEW t \in Tabs, Send(t) PROVE SessionInv'
<1>1. /\ point[t] = "held" /\ point' = [point EXCEPT ![t] = "sent"]
      /\ answer' = [answer EXCEPT ![t] = cookie]
      /\ UNCHANGED <<writes, session, loading, timer, heard, inbox, holder, aged, cookie, valid,
                     minted, entering, leaving, loggedOut, announced, crossed, broken>>
  BY DEF Send, Move, lockVars, vaultVars, userVars
<1>2. SessionTypeOK /\ ClosedIsSilent /\ WritesWait /\ LockWorks /\ Kept /\ Gone BY DEF SessionInv
<1>3. /\ point'[t] = "sent" /\ answer'[t] = cookie
      /\ \A u \in Tabs \ {t} : point'[u] = point[u] /\ answer'[u] = answer[u]
      /\ point' \in [Tabs -> Points] /\ answer' \in [Tabs -> Token] /\ Token' = Token
      /\ t \notin writes
  BY <1>1, <1>2 DEF SessionTypeOK, Points, Token, WritesWait
<1>4. SessionTypeOK' BY <1>1, <1>2, <1>3 DEF SessionTypeOK, Points
<1>5. ClosedIsSilent' BY <1>1, <1>2, <1>3 DEF ClosedIsSilent
<1>6. WritesWait' BY <1>1, <1>2, <1>3 DEF WritesWait, SessionTypeOK
<1>7. LockWorks' BY <1>1, <1>2, <1>3 DEF LockWorks, Inside
<1>8. Kept'
  <2> SUFFICES ASSUME ~racing, ~loggedOut, ~broken PROVE Kept' BY <1>1 DEF Kept
  <2>1. writes = {} BY <1>1, <1>3, Alone DEF Inside
  <2>2. cookie \in valid BY <1>2, <2>1 DEF Kept
  <2> QED BY <1>1, <1>2, <1>3, <2>1, <2>2 DEF Kept
<1>9. Gone'
  <2>1. 0 \notin valid BY <1>2 DEF SessionTypeOK
  <2> QED BY <1>1, <1>2, <1>3, <2>1 DEF Gone, Parting
<1> QED BY <1>4, <1>5, <1>6, <1>7, <1>8, <1>9 DEF SessionInv

\* What an exchange leaves of the tokens, whatever GoTrue answers.
LEMMA ExchangeEffects ==
    ASSUME SessionInv, UNCHANGED racing, NEW t \in Tabs, Exchange(t)
    PROVE  /\ minted' \in Nat /\ minted <= minted' /\ valid' \subseteq 1..minted'
           /\ answer' \in [Tabs -> Token'] /\ \A u \in Tabs \ {t} : answer'[u] = answer[u]
           /\ writes' \in {writes, writes \cup {t}} /\ broken' \in BOOLEAN
           /\ answer'[t] # 0 => answer[t] \in valid /\ answer'[t] \in valid' /\ t \in writes'
           /\ answer[t] \notin valid => valid' = valid
           /\ answer'[t] = 0 /\ t \in writes' /\ t \notin writes =>
                  answer[t] # 0 /\ (answer[t] \in valid => broken')
           /\ broken => broken'
           /\ answer'[t] = 0 => valid' = valid
<1>1. SessionTypeOK BY DEF SessionInv
<1>2. /\ minted \in Nat /\ valid \subseteq 1..minted /\ answer \in [Tabs -> 0..minted]
      /\ broken \in BOOLEAN
  BY <1>1 DEF SessionTypeOK, Token
<1>3. CASE Rotate(t)
  <2>1. /\ answer[t] \in valid /\ minted' = minted + 1
        /\ valid' = (valid \ {answer[t]}) \cup {minted + 1}
        /\ answer' = [answer EXCEPT ![t] = minted + 1]
        /\ writes' = writes \cup {t} /\ broken' = broken
    BY <1>3 DEF Rotate
  <2>2. answer'[t] = minted + 1 /\ \A u \in Tabs \ {t} : answer'[u] = answer[u] BY <1>2, <2>1
  <2>3. answer' \in [Tabs -> 0..(minted + 1)] BY <1>2, <2>1
  <2>4. answer' \in [Tabs -> Token'] BY <2>1, <2>3 DEF Token
  <2>5. valid' \subseteq 1..minted'
    <3>1. 1..minted \subseteq 1..(minted + 1) /\ minted + 1 \in 1..(minted + 1) BY <1>2
    <3> QED BY <1>2, <2>1, <3>1
  <2> QED BY <1>2, <2>1, <2>2, <2>4, <2>5
<1>4. CASE Reject(t) \/ Unasked(t)
  <2>1. /\ answer' = [answer EXCEPT ![t] = 0] /\ UNCHANGED <<minted, valid>>
        /\ writes' \in {writes, writes \cup {t}}
    BY <1>4 DEF Reject, Unasked
  <2>2. answer'[t] = 0 /\ \A u \in Tabs \ {t} : answer'[u] = answer[u] BY <1>2, <2>1
  <2>3. answer' \in [Tabs -> Token'] BY <1>2, <2>1 DEF Token
  <2>4. broken' \in BOOLEAN /\ (broken => broken')
    <3>1. CASE Reject(t) BY <1>2, <3>1 DEF Reject
    <3>2. CASE Unasked(t) BY <1>2, <3>2 DEF Unasked
    <3> QED BY <1>4, <3>1, <3>2
  <2>5. t \in writes' /\ t \notin writes => answer[t] # 0 /\ (answer[t] \in valid => broken')
    <3>1. CASE Reject(t) BY <3>1 DEF Reject
    <3>2. CASE Unasked(t) BY <3>2 DEF Unasked
    <3> QED BY <1>4, <3>1, <3>2
  <2> QED BY <1>2, <2>1, <2>2, <2>3, <2>4, <2>5
<1> QED BY <1>3, <1>4 DEF Exchange

LEMMA ExchangeKeepsSessionInv == ASSUME SessionInv, UNCHANGED racing, NEW t \in Tabs, Exchange(t) PROVE SessionInv'
<1>1. /\ point[t] = "sent" /\ point' = [point EXCEPT ![t] = "answered"]
      /\ UNCHANGED <<session, loading, timer, heard, inbox, holder, aged, cookie, entering,
                     leaving, loggedOut, announced, crossed>>
  BY DEF Exchange, Move, lockVars, userVars
<1>2. SessionTypeOK /\ ClosedIsSilent /\ WritesWait /\ LockWorks /\ Kept /\ Gone BY DEF SessionInv
<1>3. /\ minted' \in Nat /\ minted <= minted' /\ valid' \subseteq 1..minted'
      /\ answer' \in [Tabs -> Token'] /\ \A u \in Tabs \ {t} : answer'[u] = answer[u]
      /\ writes' \in {writes, writes \cup {t}} /\ broken' \in BOOLEAN
      /\ answer'[t] # 0 => answer[t] \in valid /\ answer'[t] \in valid' /\ t \in writes'
      /\ answer[t] \notin valid => valid' = valid
      /\ answer'[t] = 0 /\ t \in writes' /\ t \notin writes =>
             answer[t] # 0 /\ (answer[t] \in valid => broken')
      /\ broken => broken'
      /\ answer'[t] = 0 => valid' = valid
  BY ExchangeEffects
<1>4. /\ point'[t] = "answered" /\ \A u \in Tabs \ {t} : point'[u] = point[u]
      /\ point' \in [Tabs -> Points] /\ t \notin writes
  BY <1>1, <1>2 DEF SessionTypeOK, Points, WritesWait
<1>5. SessionTypeOK'
  <2>1. /\ cookie' \in Token' /\ session' \in [Tabs -> Token'] /\ entering' \in [Tabs -> Token']
        /\ inbox' \in [Tabs -> Seq(Token')]
    BY <1>1, <1>2, <1>3, TokensStay
  <2>2. writes' \subseteq Tabs BY <1>2, <1>3 DEF SessionTypeOK
  <2> QED BY <1>1, <1>2, <1>3, <1>4, <2>1, <2>2 DEF SessionTypeOK, Points
<1>6. ClosedIsSilent' BY <1>1, <1>2, <1>4 DEF ClosedIsSilent
<1>7. WritesWait' BY <1>2, <1>3, <1>4 DEF WritesWait, SessionTypeOK
<1>8. LockWorks' BY <1>1, <1>2, <1>4 DEF LockWorks, Inside
<1>9. Kept'
  <2> SUFFICES ASSUME ~racing, ~loggedOut, ~broken' PROVE Kept' BY <1>1 DEF Kept
  <2>1. (\A u \in Tabs \ {t} : point[u] \notin Inside) /\ writes = {}
    BY <1>1, <1>4, Alone DEF Inside
  <2>2. ~broken /\ answer[t] \in valid \cup {0} /\ cookie \in valid
    BY <1>1, <1>2, <1>3, <2>1 DEF Kept
  <2>3. \A u \in Tabs : point'[u] # "sent" BY <1>4, <2>1 DEF Inside
  <2>4. CASE answer'[t] # 0 BY <1>3, <2>1, <2>3, <2>4 DEF Kept
  <2>5. CASE answer'[t] = 0
    <3>1. writes' = {} BY <1>3, <2>1, <2>2, <2>5
    <3> QED BY <1>1, <1>3, <2>2, <2>3, <2>5, <3>1 DEF Kept
  <2> QED BY <2>4, <2>5
<1>10. Gone'
  <2> SUFFICES ASSUME announced, ~crossed PROVE Gone' BY <1>1 DEF Gone
  <2>1. answer[t] \notin valid BY <1>1, <1>2 DEF Gone
  <2>2. answer'[t] = 0 /\ valid' = valid BY <1>3, <2>1
  <2> QED BY <1>1, <1>2, <1>3, <1>4, <2>2 DEF Gone, Parting
<1> QED BY <1>5, <1>6, <1>7, <1>8, <1>9, <1>10 DEF SessionInv

\* The answer: its token becomes the cookie, and every other tab hears it.
LEMMA AnsweredKeepsSessionInv == ASSUME SessionInv, UNCHANGED racing, NEW t \in Tabs, Answered(t) PROVE SessionInv'
<1>1. /\ point[t] = "answered" /\ point' = [point EXCEPT ![t] = "idle"]
      /\ cookie' = (IF t \in writes THEN answer[t] ELSE cookie)
      /\ writes' = writes \ {t} /\ answer' = [answer EXCEPT ![t] = 0]
      /\ session' = [session EXCEPT ![t] = answer[t]]
      /\ timer' = (IF answer[t] = 0 THEN timer \ {t} ELSE timer \cup {t})
      /\ holder' = (IF holder = t THEN NoTab ELSE holder)
      /\ loading' = loading \ {t} /\ heard' = heard \ {t}
      /\ UNCHANGED <<aged, valid, minted, entering, leaving, loggedOut, announced, crossed, broken>>
  BY DEF Answered, Apply, Release, Settled, Move, userVars
<1>2. SessionTypeOK /\ ClosedIsSilent /\ WritesWait /\ LockWorks /\ Kept /\ Gone BY DEF SessionInv
<1>3. /\ point' \in [Tabs -> Points] /\ session' \in [Tabs -> Token] /\ answer' \in [Tabs -> Token]
      /\ Token' = Token /\ answer[t] \in Token
      /\ point'[t] = "idle" /\ session'[t] = answer[t] /\ answer'[t] = 0
      /\ \A u \in Tabs \ {t} :
            point'[u] = point[u] /\ session'[u] = session[u] /\ answer'[u] = answer[u]
  BY <1>1, <1>2 DEF SessionTypeOK, Points, Token
<1>4. /\ inbox' \in [Tabs -> Seq(Token)]
      /\ \A u \in Tabs : point[u] = "closed" => inbox'[u] = inbox[u]
      /\ answer[t] = 0 => inbox' = inbox
  <2>1. CASE answer[t] = 0
    <3>1. inbox' = inbox BY <2>1 DEF Answered
    <3> QED BY <1>2, <2>1, <3>1 DEF SessionTypeOK
  <2>2. CASE answer[t] # 0
    <3>1. Post(t, answer[t]) BY <2>2 DEF Answered
    <3> QED BY <1>2, <1>3, <2>2, <3>1, Posted
  <2> QED BY <2>1, <2>2
<1>5. SessionTypeOK'
  <2>1. cookie' \in Token /\ timer' \subseteq Tabs /\ holder' \in Tabs \cup {NoTab}
    BY <1>1, <1>2, <1>3 DEF SessionTypeOK
  <2>2. /\ writes' \subseteq Tabs /\ loading' \subseteq Tabs /\ heard' \subseteq Tabs
        /\ valid' \subseteq 1..minted'
    BY <1>1, <1>2 DEF SessionTypeOK
  <2> QED BY <1>1, <1>2, <1>3, <1>4, <2>1, <2>2 DEF SessionTypeOK, Points
<1>6. ClosedIsSilent' BY <1>1, <1>2, <1>3, <1>4 DEF ClosedIsSilent
<1>7. WritesWait' BY <1>1, <1>2, <1>3 DEF WritesWait, SessionTypeOK
<1>8. LockWorks' BY <1>1, <1>2, <1>3, SessionAssumption DEF LockWorks, Inside
<1>9. Kept'
  <2> SUFFICES ASSUME ~racing, ~loggedOut, ~broken PROVE Kept' BY <1>1 DEF Kept
  <2>1. (\A u \in Tabs \ {t} : point[u] \notin Inside) /\ writes \subseteq {t}
    BY <1>1, Alone DEF Inside
  <2>2. \A u \in Tabs : point'[u] # "sent" BY <1>3, <2>1 DEF Inside
  <2>3. writes' = {} BY <1>1, <2>1
  <2>4. CASE t \in writes BY <1>1, <1>2, <2>2, <2>3, <2>4 DEF Kept
  <2>5. CASE t \notin writes BY <1>1, <1>2, <2>1, <2>2, <2>3, <2>5 DEF Kept
  <2> QED BY <2>4, <2>5
<1>10. Gone'
  <2> SUFFICES ASSUME announced, ~crossed PROVE Gone' BY <1>1 DEF Gone
  <2>1. answer[t] = 0 /\ cookie' = 0 /\ inbox' = inbox BY <1>1, <1>2, <1>4 DEF Gone
  <2>2. \A u \in Tabs : Parting(u)' BY <1>2, <1>3, <2>1 DEF Gone, Parting
  <2> QED BY <1>1, <1>2, <1>3, <2>1, <2>2 DEF Gone
<1> QED BY <1>5, <1>6, <1>7, <1>8, <1>9, <1>10 DEF SessionInv

\* An answer that does not arrive breaks the session or leaves a cookie that is as good.
LEMMA UnansweredKeepsSessionInv ==
    ASSUME SessionInv, UNCHANGED racing, NEW t \in Tabs, Unanswered(t),
           NEW p \in {"idle", "closed"}, point' = [point EXCEPT ![t] = p],
           \/ p = "idle" /\ point[t] \in {"sent", "answered"} /\ session' = session /\ inbox' = inbox
              /\ holder' = (IF holder = t THEN NoTab ELSE holder)
           \/ p = "closed" /\ session' = [session EXCEPT ![t] = 0]
              /\ inbox' = [inbox EXCEPT ![t] = <<>>] /\ holder' = holder,
           loading' \subseteq Tabs, timer' \subseteq timer \cup {t}, heard' \subseteq Tabs,
           p = "closed" => t \notin timer',
           UNCHANGED <<aged, valid, minted, entering, leaving, loggedOut, announced, crossed>>
    PROVE  SessionInv'
<1>1. /\ writes' = writes \ {t} /\ answer' = [answer EXCEPT ![t] = 0]
      /\ \/ cookie' = cookie /\ broken' = (broken \/ (t \in writes /\ answer[t] # 0))
         \/ t \in writes /\ cookie' = answer[t] /\ broken' = broken
  BY DEF Unanswered
<1>2. SessionTypeOK /\ ClosedIsSilent /\ WritesWait /\ LockWorks /\ Kept /\ Gone BY DEF SessionInv
<1>3. /\ point' \in [Tabs -> Points] /\ answer' \in [Tabs -> Token] /\ Token' = Token
      /\ answer[t] \in Token /\ point'[t] = p /\ answer'[t] = 0
      /\ \A u \in Tabs \ {t} : point'[u] = point[u] /\ answer'[u] = answer[u]
  BY <1>1, <1>2 DEF SessionTypeOK, Points, Token
<1>4. /\ session' \in [Tabs -> Token] /\ inbox' \in [Tabs -> Seq(Token)]
      /\ \A u \in Tabs \ {t} : session'[u] = session[u] /\ inbox'[u] = inbox[u]
      /\ \/ p = "idle" /\ session'[t] = session[t] /\ inbox'[t] = inbox[t]
            /\ point[t] \in {"sent", "answered"}
         \/ session'[t] = 0 /\ inbox'[t] = <<>>
  <2>1. CASE p = "idle" BY <1>2, <1>3, <2>1 DEF SessionTypeOK
  <2>2. CASE p = "closed"
    <3>1. session' = [session EXCEPT ![t] = 0] /\ inbox' = [inbox EXCEPT ![t] = <<>>]
      BY <2>2
    <3>2. <<>> \in Seq(Token) /\ 0 \in Token BY <1>2 DEF SessionTypeOK, Token
    <3>3. session \in [Tabs -> Token] /\ inbox \in [Tabs -> Seq(Token)] BY <1>2 DEF SessionTypeOK
    <3>4. /\ session' \in [Tabs -> Token] /\ session'[t] = 0
          /\ \A u \in Tabs \ {t} : session'[u] = session[u]
      BY <3>1, <3>2, <3>3
    <3>5. /\ inbox' \in [Tabs -> Seq(Token)] /\ inbox'[t] = <<>>
          /\ \A u \in Tabs \ {t} : inbox'[u] = inbox[u]
      BY <3>1, <3>2, <3>3
    <3> QED BY <3>4, <3>5
  <2> QED BY <2>1, <2>2
<1>5. holder' \in {holder, NoTab} /\ (holder' # holder => holder = t) OBVIOUS
<1>6. SessionTypeOK'
  <2>1. cookie' \in Token BY <1>1, <1>2, <1>3 DEF SessionTypeOK
  <2>2. broken' \in BOOLEAN
    <3>1. CASE broken' = broken BY <1>2, <3>1 DEF SessionTypeOK
    <3>2. CASE broken' = (broken \/ (t \in writes /\ answer[t] # 0)) BY <3>2
    <3> QED BY <1>1, <3>1, <3>2
  <2>3. writes' \subseteq Tabs /\ holder' \in Tabs \cup {NoTab} /\ valid' \subseteq 1..minted'
    BY <1>1, <1>2, <1>5 DEF SessionTypeOK
  <2>4. timer' \subseteq Tabs /\ \A u \in timer' : point'[u] # "closed"
    BY <1>2, <1>3, <1>4 DEF SessionTypeOK
  <2> QED BY <1>2, <1>3, <1>4, <2>1, <2>2, <2>3, <2>4 DEF SessionTypeOK, Points
<1>7. ClosedIsSilent' BY <1>2, <1>3, <1>4 DEF ClosedIsSilent
<1>8. WritesWait' BY <1>1, <1>2, <1>3 DEF WritesWait, SessionTypeOK
<1>9. LockWorks'
  <2>1. \A u \in Tabs : point'[u] \in Inside => point[u] \in Inside /\ u # t
    BY <1>3 DEF Inside
  <2>2. \A u \in Tabs : point[u] = "closed" => point'[u] = "closed" BY <1>3, <1>4
  <2>3. \A u \in Tabs : point'[u] \notin {"write", "back"} \/ point[u] \in {"write", "back"}
    BY <1>3
  <2> QED BY <1>2, <1>5, <2>1, <2>2, <2>3 DEF LockWorks, SessionTypeOK
<1>10. Kept'
  <2> SUFFICES ASSUME ~racing, ~loggedOut, ~broken' PROVE Kept' BY DEF Kept
  <2>1. ~broken
    <3>1. CASE broken' = broken BY <3>1
    <3>2. CASE broken' = (broken \/ (t \in writes /\ answer[t] # 0)) BY <3>2
    <3> QED BY <1>1, <3>1, <3>2
  <2>2. \A u \in Tabs : point'[u] = "sent" => answer'[u] \in valid \cup {0}
    BY <1>2, <1>3, <2>1 DEF Kept
  <2>3. \A u \in writes' : answer'[u] \in valid
    BY <1>1, <1>2, <1>3, <2>1 DEF Kept, SessionTypeOK
  <2>4. CASE t \in writes
    <3>1. answer[t] \in valid /\ answer[t] # 0 BY <1>2, <2>1, <2>4 DEF Kept, SessionTypeOK
    <3>2. cookie' = answer[t]
      <4>1. ~(broken' = (broken \/ (t \in writes /\ answer[t] # 0))) BY <2>4, <3>1
      <4> QED BY <1>1, <4>1
    <3> QED BY <2>2, <2>3, <3>1, <3>2 DEF Kept
  <2>5. CASE t \notin writes
    <3>1. writes' = writes /\ cookie' = cookie BY <1>1, <2>5
    <3> QED BY <1>2, <2>1, <2>2, <2>3, <3>1 DEF Kept
  <2> QED BY <2>4, <2>5
<1>11. Gone'
  <2> SUFFICES ASSUME announced, ~crossed PROVE Gone' BY DEF Gone
  <2>1. cookie' = 0 BY <1>1, <1>2 DEF Gone, WritesWait
  <2>2. \A u \in Tabs : Parting(u)' BY <1>2, <1>4 DEF Gone, Parting
  <2>3. ASSUME NEW u \in Tabs
        PROVE  /\ entering'[u] = 0
               /\ point'[u] = "sent" => answer'[u] \notin valid'
               /\ point'[u] = "answered" => answer'[u] = 0
    BY <1>2, <1>3 DEF Gone
  <2> QED BY <2>1, <2>2, <2>3 DEF Gone
<1> QED BY <1>6, <1>7, <1>8, <1>9, <1>10, <1>11 DEF SessionInv

LEMMA LoseKeepsSessionInv == ASSUME SessionInv, UNCHANGED racing, NEW t \in Tabs, Lose(t) PROVE SessionInv'
<1>1. /\ point[t] \in {"sent", "answered"} /\ point' = [point EXCEPT ![t] = "idle"]
      /\ Unanswered(t) /\ session' = session /\ inbox' = inbox
      /\ holder' = (IF holder = t THEN NoTab ELSE holder)
      /\ loading' = loading \ {t} /\ heard' = heard \ {t} /\ timer' = timer \cup {t}
      /\ UNCHANGED <<aged, valid, minted, entering, leaving, loggedOut, announced, crossed>>
  BY DEF Lose, Release, Settled, Move, userVars
<1>2. loading' \subseteq Tabs /\ heard' \subseteq Tabs /\ timer' \subseteq timer \cup {t}
  BY <1>1 DEF SessionInv, SessionTypeOK
<1>3. PICK p \in {"idle", "closed"} : p = "idle" OBVIOUS
<1> QED BY <1>1, <1>2, <1>3, UnansweredKeepsSessionInv

LEMMA CloseTabKeepsSessionInv == ASSUME SessionInv, UNCHANGED racing, NEW t \in Tabs, CloseTab(t) PROVE SessionInv'
<1>1. /\ point' = [point EXCEPT ![t] = "closed"] /\ Unanswered(t)
      /\ session' = [session EXCEPT ![t] = 0] /\ inbox' = [inbox EXCEPT ![t] = <<>>]
      /\ holder' = holder
      /\ loading' = loading \ {t} /\ heard' = heard \ {t} /\ timer' = timer \ {t}
      /\ UNCHANGED <<aged, valid, minted, entering, leaving, loggedOut, announced, crossed>>
  BY DEF CloseTab, Move, lockVars, userVars
<1>2. loading' \subseteq Tabs /\ heard' \subseteq Tabs /\ timer' \subseteq timer \cup {t}
  BY <1>1 DEF SessionInv, SessionTypeOK
<1>3. PICK p \in {"idle", "closed"} : p = "closed" OBVIOUS
<1> QED BY <1>1, <1>2, <1>3, UnansweredKeepsSessionInv

\* What a tab hears last after a logout is the logout.
LEMMA HearKeepsSessionInv == ASSUME SessionInv, UNCHANGED racing, NEW t \in Tabs, Hear(t) PROVE SessionInv'
<1>1. /\ inbox[t] # <<>> /\ inbox' = [inbox EXCEPT ![t] = Tail(inbox[t])]
      /\ session' = [session EXCEPT ![t] = Head(inbox[t])]
      /\ timer' = (IF Head(inbox[t]) = 0 THEN timer \ {t} ELSE timer \cup {t})
      /\ heard' = (IF point[t] = "idle" THEN heard ELSE heard \cup {t})
      /\ UNCHANGED <<point, answer, writes, loading, holder, aged, cookie, valid, minted, entering,
                     leaving, loggedOut, announced, crossed, broken>>
  BY DEF Hear, Apply, lockVars, vaultVars, userVars
<1>2. SessionTypeOK /\ ClosedIsSilent /\ WritesWait /\ LockWorks /\ Kept /\ Gone BY DEF SessionInv
<1>3. inbox[t] \in Seq(Token) BY <1>2 DEF SessionTypeOK
<1>4. /\ Head(inbox[t]) \in Token /\ Tail(inbox[t]) \in Seq(Token)
      /\ Tail(inbox[t]) = <<>> => Head(inbox[t]) = inbox[t][Len(inbox[t])]
      /\ Tail(inbox[t]) # <<>> =>
             Tail(inbox[t])[Len(Tail(inbox[t]))] = inbox[t][Len(inbox[t])]
  <2>1. /\ Len(inbox[t]) \in Nat /\ Len(inbox[t]) # 0
        /\ Head(inbox[t]) = inbox[t][1] /\ Head(inbox[t]) \in Token
        /\ Tail(inbox[t]) \in Seq(Token) /\ Len(Tail(inbox[t])) = Len(inbox[t]) - 1
        /\ \A i \in 1..(Len(inbox[t]) - 1) : Tail(inbox[t])[i] = inbox[t][i + 1]
    BY <1>1, <1>3
  <2>2. PICK n \in Nat : n = Len(inbox[t]) BY <2>1
  <2>3. CASE n = 1
    <3>1. inbox[t][Len(inbox[t])] = Head(inbox[t]) BY <2>1, <2>2, <2>3
    <3>2. Len(Tail(inbox[t])) = 0 BY <2>1, <2>2, <2>3
    <3>3. Tail(inbox[t]) = <<>> BY <2>1, <3>2, EmptySeq
    <3> QED BY <2>1, <3>1, <3>3
  <2>4. CASE n # 1
    <3>0. n \in Nat /\ n # 0 BY <2>1, <2>2
    <3>1. n - 1 \in 1..(n - 1) /\ (n - 1) + 1 = n BY <2>4, <3>0
    <3>2. Tail(inbox[t])[n - 1] = inbox[t][n] BY <2>1, <2>2, <3>1
    <3>3. Len(Tail(inbox[t])) = n - 1 BY <2>1, <2>2
    <3>4. n - 1 # 0 BY <2>2, <2>4
    <3>5. Tail(inbox[t]) # <<>> BY <3>3, <3>4
    <3> QED BY <2>1, <2>2, <3>2, <3>3, <3>5
  <2> QED BY <2>3, <2>4
<1>5. /\ inbox' \in [Tabs -> Seq(Token)] /\ session' \in [Tabs -> Token] /\ Token' = Token
      /\ inbox'[t] = Tail(inbox[t]) /\ session'[t] = Head(inbox[t])
      /\ \A u \in Tabs \ {t} : session'[u] = session[u] /\ inbox'[u] = inbox[u]
  BY <1>1, <1>2, <1>4 DEF SessionTypeOK, Token
<1>6. SessionTypeOK'
  <2>1. timer' \subseteq Tabs /\ heard' \subseteq Tabs BY <1>1, <1>2 DEF SessionTypeOK
  <2>2. point[t] # "closed" BY <1>1, <1>2 DEF ClosedIsSilent
  <2>3. \A u \in timer' : point'[u] # "closed" BY <1>1, <1>2, <2>2 DEF SessionTypeOK
  <2> QED BY <1>1, <1>2, <1>5, <2>1, <2>3 DEF SessionTypeOK
<1>7. ClosedIsSilent' BY <1>1, <1>2, <1>5 DEF ClosedIsSilent
<1>8. WritesWait' /\ LockWorks' BY <1>1, <1>2 DEF WritesWait, LockWorks
<1>9. Kept' BY <1>1, <1>2 DEF Kept
<1>10. Gone'
  <2> SUFFICES ASSUME announced, ~crossed PROVE Gone' BY <1>1 DEF Gone
  <2>1. inbox[t][Len(inbox[t])] = 0 BY <1>1, <1>2 DEF Gone, Parting
  <2>2. Parting(t)' BY <1>4, <1>5, <2>1 DEF Parting
  <2>3. \A u \in Tabs : Parting(u)' BY <1>2, <1>5, <2>2 DEF Gone, Parting
  <2> QED BY <1>1, <1>2, <2>3 DEF Gone
<1> QED BY <1>6, <1>7, <1>8, <1>9, <1>10 DEF SessionInv

-----------------------------------------------------------------------------
(* Logging in and out. *)

LEMMA LogInKeepsSessionInv == ASSUME SessionInv, UNCHANGED racing, NEW t \in Tabs, LogIn(t) PROVE SessionInv'
<1>1. /\ minted' = minted + 1 /\ valid' = valid \cup {minted + 1}
      /\ entering' = [entering EXCEPT ![t] = minted + 1]
      /\ announced' = FALSE /\ crossed' = FALSE
      /\ UNCHANGED <<point, answer, writes, session, loading, timer, heard, inbox, holder, aged,
                     cookie, leaving, loggedOut, broken>>
  BY DEF LogIn, lockVars
<1>2. SessionTypeOK /\ ClosedIsSilent /\ WritesWait /\ LockWorks /\ Kept BY DEF SessionInv
<1>3. minted \in Nat /\ minted' \in Nat /\ minted <= minted' /\ minted + 1 \in Token'
  BY <1>1, <1>2 DEF SessionTypeOK, Token
<1>4. SessionTypeOK'
  <2>1. /\ answer' \in [Tabs -> Token'] /\ session' \in [Tabs -> Token'] /\ cookie' \in Token'
        /\ entering' \in [Tabs -> Token'] /\ inbox' \in [Tabs -> Seq(Token')]
    BY <1>1, <1>2, <1>3, TokensStay
  <2>2. valid' \subseteq 1..minted'
    <3>1. minted + 1 \in 1..minted' BY <1>1, <1>3
    <3> QED BY <1>1, <1>2, <1>3, <3>1, TokensStay
  <2> QED BY <1>1, <1>2, <1>3, <2>1, <2>2 DEF SessionTypeOK
<1>5. ClosedIsSilent' /\ WritesWait' /\ LockWorks'
  BY <1>1, <1>2 DEF ClosedIsSilent, WritesWait, LockWorks
<1>6. Kept' BY <1>1, <1>2 DEF Kept
<1>7. Gone' BY <1>1 DEF Gone
<1> QED BY <1>4, <1>5, <1>6, <1>7 DEF SessionInv

\* What the cookie of a login leaves: it is accepted, and no answer under way is doomed.
LEMMA EnteredKeepsKept ==
    ASSUME SessionInv, UNCHANGED racing, NEW t \in Tabs, Entered(t),
           UNCHANGED <<point, answer, writes, valid, minted>>
    PROVE  /\ Kept' /\ cookie' \in Token' /\ loggedOut' \in BOOLEAN /\ broken' \in BOOLEAN
<1>1. /\ cookie' = entering[t] /\ loggedOut' = (entering[t] \notin valid)
      /\ broken' = (broken \/ Doomed)
  BY DEF Entered
<1>2. SessionTypeOK BY DEF SessionInv
<1>3. cookie' \in Token' BY <1>1, <1>2 DEF SessionTypeOK, Token
<1>4. loggedOut' \in BOOLEAN BY <1>1
<1>5. broken' \in BOOLEAN BY <1>1
<1>6. Kept'
  <2> SUFFICES ASSUME ~racing, ~loggedOut', ~broken' PROVE Kept' BY DEF Kept
  <2>1. cookie' \in valid
    <3>1. CASE entering[t] \in valid BY <1>1, <3>1
    <3>2. CASE entering[t] \notin valid BY <1>1, <3>2
    <3> QED BY <3>1, <3>2
  <2>2. ~Doomed
    <3>1. CASE Doomed BY <1>1, <3>1
    <3> QED BY <3>1
  <2>3. \A u \in Tabs : point[u] = "sent" => answer[u] \in valid \cup {0} BY <2>2 DEF Doomed
  <2>4. \A u \in writes : answer[u] \in valid
    BY <1>2, <2>2 DEF Doomed, SessionInv, WritesWait, SessionTypeOK
  <2> QED BY <2>1, <2>3, <2>4 DEF Kept
<1> QED BY <1>3, <1>4, <1>5, <1>6

LEMMA LoggedInKeepsSessionInv == ASSUME SessionInv, UNCHANGED racing, NEW t \in Tabs, LoggedIn(t) PROVE SessionInv'
<1>1. /\ point[t] # "closed" /\ entering[t] # 0 /\ entering' = [entering EXCEPT ![t] = 0]
      /\ Entered(t) /\ Post(t, entering[t])
      /\ session' = [session EXCEPT ![t] = entering[t]]
      /\ timer' = (IF entering[t] = 0 THEN timer \ {t} ELSE timer \cup {t})
      /\ UNCHANGED <<point, answer, writes, loading, heard, holder, aged, valid, minted, leaving,
                     announced, crossed>>
  BY DEF LoggedIn, Apply, lockVars
<1>2. SessionTypeOK /\ ClosedIsSilent /\ WritesWait /\ LockWorks /\ Gone BY DEF SessionInv
<1>3. /\ entering[t] \in Token /\ 0 \in Token /\ Token' = Token
      /\ session' \in [Tabs -> Token] /\ entering' \in [Tabs -> Token]
      /\ \A u \in Tabs \ {t} : session'[u] = session[u]
  BY <1>1, <1>2 DEF SessionTypeOK, Token
<1>4. /\ inbox' \in [Tabs -> Seq(Token)]
      /\ \A u \in Tabs : point[u] = "closed" => inbox'[u] = inbox[u]
  BY <1>1, <1>2, <1>3, Posted
<1>5. /\ Kept' /\ cookie' \in Token' /\ loggedOut' \in BOOLEAN /\ broken' \in BOOLEAN
  BY <1>1, EnteredKeepsKept
<1>6. SessionTypeOK'
  <2>1. timer' \subseteq Tabs BY <1>1, <1>2 DEF SessionTypeOK
  <2> QED BY <1>1, <1>2, <1>3, <1>4, <1>5, <2>1 DEF SessionTypeOK
<1>7. ClosedIsSilent' BY <1>1, <1>2, <1>3, <1>4 DEF ClosedIsSilent
<1>8. WritesWait' /\ LockWorks' BY <1>1, <1>2 DEF WritesWait, LockWorks
<1>9. Gone'
  <2>1. ~(announced /\ ~crossed) BY <1>1, <1>2 DEF Gone
  <2> QED BY <1>1, <2>1 DEF Gone
<1> QED BY <1>5, <1>6, <1>7, <1>8, <1>9 DEF SessionInv

LEMMA LogoutKeepsSessionInv == ASSUME SessionInv, UNCHANGED racing, NEW t \in Tabs, Logout(t) PROVE SessionInv'
<1>1. /\ leaving' = leaving \cup {t} /\ valid' \in {valid, {}} /\ loggedOut' = TRUE
      /\ UNCHANGED <<point, answer, writes, session, loading, timer, heard, inbox, holder, aged,
                     cookie, minted, entering, announced, crossed, broken>>
  BY DEF Logout, lockVars
<1>2. SessionTypeOK /\ ClosedIsSilent /\ WritesWait /\ LockWorks /\ Gone BY DEF SessionInv
<1>3. valid' \subseteq valid /\ Token' = Token BY <1>1 DEF Token
<1>4. SessionTypeOK'
  <2>1. valid' \subseteq 1..minted' /\ leaving' \subseteq Tabs BY <1>1, <1>2, <1>3 DEF SessionTypeOK
  <2> QED BY <1>1, <1>2, <1>3, <2>1 DEF SessionTypeOK
<1>5. ClosedIsSilent' /\ WritesWait' /\ LockWorks'
  BY <1>1, <1>2 DEF ClosedIsSilent, WritesWait, LockWorks
<1>6. Kept' BY <1>1 DEF Kept
<1>7. Gone' BY <1>1, <1>2, <1>3 DEF Gone, Parting
<1> QED BY <1>4, <1>5, <1>6, <1>7 DEF SessionInv

\* The answer to a logout: this tab has no session, and the others' last message says so.
LEMMA LoggedOutKeepsSessionInv == ASSUME SessionInv, UNCHANGED racing, NEW t \in Tabs, LoggedOut(t) PROVE SessionInv'
<1>1. /\ point[t] # "closed" /\ leaving' = leaving \ {t} /\ cookie' = 0 /\ Post(t, 0)
      /\ session' = [session EXCEPT ![t] = 0] /\ timer' = timer \ {t}
      /\ loggedOut' = TRUE /\ announced' = TRUE /\ crossed' = OnItsWay(t)
      /\ UNCHANGED <<point, answer, writes, loading, heard, holder, aged, valid, minted, entering,
                     broken>>
  BY DEF LoggedOut, Apply, lockVars
<1>2. SessionTypeOK /\ ClosedIsSilent /\ WritesWait /\ LockWorks BY DEF SessionInv
<1>3. /\ 0 \in Token /\ Token' = Token /\ session' \in [Tabs -> Token] /\ session'[t] = 0
      /\ \A u \in Tabs \ {t} : session'[u] = session[u]
  BY <1>1, <1>2 DEF SessionTypeOK, Token
<1>4. /\ inbox' \in [Tabs -> Seq(Token)] /\ inbox'[t] = inbox[t]
      /\ \A u \in Tabs : point[u] = "closed" => inbox'[u] = inbox[u]
      /\ \A u \in Tabs \ {t} : point[u] # "closed" =>
             inbox'[u] # <<>> /\ inbox'[u][Len(inbox'[u])] = 0
  BY <1>1, <1>2, <1>3, Posted
<1>5. SessionTypeOK'
  <2>1. crossed' \in BOOLEAN BY <1>1 DEF OnItsWay
  <2>2. cookie' \in Token' /\ timer' \subseteq Tabs /\ leaving' \subseteq Tabs
    BY <1>1, <1>2, <1>3 DEF SessionTypeOK
  <2> QED BY <1>1, <1>2, <1>3, <1>4, <2>1, <2>2 DEF SessionTypeOK
<1>6. ClosedIsSilent' BY <1>1, <1>2, <1>3, <1>4 DEF ClosedIsSilent
<1>7. WritesWait' /\ LockWorks' BY <1>1, <1>2 DEF WritesWait, LockWorks
<1>8. Kept' BY <1>1 DEF Kept
<1>9. Gone'
  <2> SUFFICES ASSUME ~OnItsWay(t) PROVE Gone' BY <1>1 DEF Gone
  <2>1. \A i \in DOMAIN inbox[t] : inbox[t][i] = 0 BY DEF OnItsWay
  <2>2. Parting(t)'
    <3>1. inbox[t] # <<>> => Len(inbox[t]) \in DOMAIN inbox[t] BY <1>2 DEF SessionTypeOK
    <3> QED BY <1>3, <1>4, <2>1, <3>1 DEF Parting
  <2>3. ASSUME NEW u \in Tabs, u # t PROVE Parting(u)'
    <3>1. CASE point[u] = "closed" BY <1>2, <1>3, <1>4, <2>3, <3>1 DEF ClosedIsSilent, Parting
    <3>2. CASE point[u] # "closed" BY <1>4, <2>3, <3>2 DEF Parting
    <3> QED BY <3>1, <3>2
  <2>4. \A u \in Tabs : Parting(u)' BY <2>2, <2>3
  <2>5. \A u \in Tabs : /\ entering[u] = 0
                        /\ point[u] = "sent" => answer[u] \notin valid
                        /\ point[u] = "answered" => answer[u] = 0
    BY DEF OnItsWay
  <2> QED BY <1>1, <2>4, <2>5 DEF Gone
<1> QED BY <1>5, <1>6, <1>7, <1>8, <1>9 DEF SessionInv

LEMMA LoseUserKeepsSessionInv == ASSUME SessionInv, UNCHANGED racing, NEW t \in Tabs, LoseUser(t) PROVE SessionInv'
<1>1. UNCHANGED <<point, answer, writes, session, loading, timer, heard, inbox, holder, aged,
                  valid, minted, announced, crossed>>
  BY DEF LoseUser, lockVars
<1>2. SessionTypeOK /\ ClosedIsSilent /\ WritesWait /\ LockWorks /\ Kept /\ Gone BY DEF SessionInv
<1>3. Token' = Token /\ 0 \in Token BY <1>1, <1>2 DEF Token, SessionTypeOK
<1>4. /\ cookie' \in Token' /\ loggedOut' \in BOOLEAN /\ broken' \in BOOLEAN
      /\ entering' \in [Tabs -> Token'] /\ leaving' \subseteq Tabs /\ Kept'
      /\ announced /\ ~crossed => cookie' = 0 /\ entering' = entering
  <2>1. CASE entering[t] # 0 /\ entering' = [entering EXCEPT ![t] = 0] /\ leaving' = leaving
             /\ (Entered(t) \/ UNCHANGED <<cookie, loggedOut, broken>>)
    <3>1. entering' \in [Tabs -> Token'] /\ leaving' \subseteq Tabs
      BY <1>2, <1>3, <2>1 DEF SessionTypeOK
    <3>2. ~(announced /\ ~crossed) BY <1>2, <2>1 DEF Gone
    <3>3. CASE Entered(t) BY <1>1, <3>1, <3>2, <3>3, EnteredKeepsKept
    <3>4. CASE UNCHANGED <<cookie, loggedOut, broken>>
      <4>1. Kept' BY <1>1, <1>2, <3>4 DEF Kept
      <4>2. cookie' \in Token' /\ loggedOut' \in BOOLEAN /\ broken' \in BOOLEAN
        BY <1>2, <1>3, <3>4 DEF SessionTypeOK
      <4> QED BY <3>1, <3>2, <4>1, <4>2
    <3> QED BY <2>1, <3>3, <3>4
  <2>2. CASE leaving' = leaving \ {t} /\ cookie' \in {cookie, 0} /\ loggedOut' = TRUE
             /\ UNCHANGED <<entering, broken>>
    <3>1. Kept' BY <2>2 DEF Kept
    <3>2. cookie' \in Token' /\ loggedOut' \in BOOLEAN /\ broken' \in BOOLEAN
      BY <1>2, <1>3, <2>2 DEF SessionTypeOK
    <3>3. entering' \in [Tabs -> Token'] /\ leaving' \subseteq Tabs
      BY <1>2, <1>3, <2>2 DEF SessionTypeOK
    <3>4. announced /\ ~crossed => cookie' = 0 BY <1>2, <2>2 DEF Gone
    <3> QED BY <2>2, <3>1, <3>2, <3>3, <3>4
  <2> QED BY <2>1, <2>2 DEF LoseUser
<1>5. SessionTypeOK' BY <1>1, <1>2, <1>3, <1>4 DEF SessionTypeOK
<1>6. ClosedIsSilent' /\ WritesWait' /\ LockWorks'
  BY <1>1, <1>2 DEF ClosedIsSilent, WritesWait, LockWorks
<1>7. Gone' BY <1>1, <1>2, <1>4 DEF Gone, Parting
<1> QED BY <1>4, <1>5, <1>6, <1>7 DEF SessionInv

-----------------------------------------------------------------------------
LEMMA SessionNextKeepsInv == SessionInv /\ [SessionNext]_sessionVars => SessionInv'
<1>1. ASSUME SessionInv, UNCHANGED racing, AgeLock PROVE SessionInv' BY <1>1, AgeLockKeepsSessionInv
<1>2. ASSUME SessionInv, UNCHANGED racing, NEW t \in Tabs, TabStep(t) PROVE SessionInv'
  BY <1>2, AcquireKeepsSessionInv, RacingLockKeepsSessionInv, WaitingKeepsSessionInv,
     SendKeepsSessionInv, ExchangeKeepsSessionInv, AnsweredKeepsSessionInv, HearKeepsSessionInv
     DEF TabStep
<1>3. ASSUME SessionInv, UNCHANGED racing, NEW t \in Tabs, Begin(t) \/ Lose(t) \/ CloseTab(t) PROVE SessionInv'
  BY <1>3, BeginKeepsSessionInv, LoseKeepsSessionInv, CloseTabKeepsSessionInv
<1>4. ASSUME SessionInv, UNCHANGED racing, NEW t \in Tabs, UserStep(t) PROVE SessionInv'
  BY <1>4, LogInKeepsSessionInv, LoggedInKeepsSessionInv, LogoutKeepsSessionInv,
     LoggedOutKeepsSessionInv, LoseUserKeepsSessionInv DEF UserStep
<1>5. ASSUME SessionInv, UNCHANGED sessionVars PROVE SessionInv'
  <2>1. UNCHANGED <<racing, point, answer, writes, session, loading, timer, heard, inbox, holder,
                    aged, cookie, valid, minted, entering, leaving, loggedOut, announced, crossed,
                    broken>>
    BY <1>5 DEF sessionVars, lockVars, vaultVars, userVars
  <2>2. SessionTypeOK' BY <1>5, <2>1 DEF SessionInv, SessionTypeOK, Token
  <2>3. ClosedIsSilent' /\ WritesWait' /\ LockWorks'
    BY <1>5, <2>1 DEF SessionInv, ClosedIsSilent, WritesWait, LockWorks
  <2>4. Kept' BY <1>5, <2>1 DEF SessionInv, Kept
  <2>5. Gone' BY <1>5, <2>1 DEF SessionInv, Gone, Parting
  <2> QED BY <2>2, <2>3, <2>4, <2>5 DEF SessionInv
<1> QED BY <1>1, <1>2, <1>3, <1>4, <1>5 DEF SessionNext

LEMMA SessionInvariance == SessionSpec => []SessionInv
BY SessionInitInv, SessionNextKeepsInv, PTL DEF SessionSpec

\* Over any tabs, refreshes, logins and logouts, in any order: as long as no tab runs inside
\* another's lock, no answer is lost or refused and no login meets a refresh of the session
\* before it, the cookie left when all is quiet is one GoTrue accepts.
THEOREM SessionIsKept == SessionSpec => []SessionKept
<1>1. SessionInv => SessionKept
  <2> SUFFICES ASSUME SessionInv, Quiet, ~racing, ~loggedOut, ~broken PROVE cookie \in valid
    BY DEF SessionKept
  <2>1. writes = {} BY DEF SessionInv, SessionTypeOK, WritesWait, Quiet
  <2> QED BY <2>1 DEF SessionInv, Kept
<1> QED BY <1>1, SessionInvariance, PTL

\* A logout whose answer arrived leaves no tab with a session, whatever each was doing, what
\* GoTrue revoked, which tabs were closed or which other answers were lost.
THEOREM LogoutsReachEveryTab == SessionSpec => []LogoutReachesEveryTab
<1>1. SessionInv => LogoutReachesEveryTab
  BY DEF SessionInv, Gone, Parting, Quiet, LogoutReachesEveryTab
<1> QED BY <1>1, SessionInvariance, PTL

-----------------------------------------------------------------------------
(***************************************************************************)
(* The browser, as the run explores it                                     *)
(***************************************************************************)

LEMMA PartsStep ==
    [Next]_allVars => [PageNext]_pageVars /\ [FeedNext]_feedVars /\ [SessionNext]_sessionVars
<1> SUFFICES ASSUME [Next]_allVars
             PROVE  [PageNext]_pageVars /\ [FeedNext]_feedVars /\ [SessionNext]_sessionVars
  OBVIOUS
<1>1. CASE PageAlone /\ PageNext BY <1>1 DEF PageAlone
<1>2. CASE FeedAlone /\ FeedNext BY <1>2 DEF FeedAlone
<1>3. CASE SessionAlone /\ SessionNext BY <1>3 DEF SessionAlone
<1>4. CASE UNCHANGED allVars BY <1>4 DEF allVars
<1> QED BY <1>1, <1>2, <1>3, <1>4 DEF Next

\* What the run explores is a page, a feed and a session, so that the theorems above are
\* about it.
LEMMA BrowserIsItsParts == Spec => PageSpec /\ FeedSpec /\ SessionSpec
<1>1. Init => PageInit /\ FeedInit /\ SessionInit BY DEF Init
<1> QED BY <1>1, PartsStep, PTL DEF Spec, PageSpec, FeedSpec, SessionSpec

\* What the pages and the tabs hold is always of its kind: no page shows a turn that was
\* never asked for, and every token a tab, a cookie or a message holds was handed out.
THEOREM BrowserTypeCorrect == Spec => []BrowserTypeOK
<1>1. PageInv /\ FeedInv /\ SessionInv => BrowserTypeOK
  BY DEF PageInv, FeedInv, SessionInv, BrowserTypeOK
<1> QED BY <1>1, BrowserIsItsParts, PageInvariance, FeedInvariance, SessionInvariance, PTL
=============================================================================
