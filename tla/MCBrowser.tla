----------------------------- MODULE MCBrowser ------------------------------
(***************************************************************************)
(* What a browser runs, each on its own: the page of a thread, that of the *)
(* datasources with its feed, and the session the tabs share.  The initial *)
(* state picks the part that runs; the others stay as they are, and        *)
(* nothing here checks one against another.                                *)
(***************************************************************************)
EXTENDS ThreadPage, IngestionFeed, WebSession

VARIABLE open

allVars == <<open, pageVars, feedVars, sessionVars>>

Init ==
    /\ open \in {"thread", "datasources", "session"}
    /\ PageInit /\ FeedInit /\ SessionInit
    /\ open # "thread" => handoff
    /\ open # "session" => cookie = 0 /\ ~racing

\* The part that runs, and what it leaves alone.
PageAlone == open = "thread" /\ UNCHANGED <<open, feedVars, sessionVars>>
FeedAlone == open = "datasources" /\ UNCHANGED <<open, pageVars, sessionVars>>
SessionAlone == open = "session" /\ UNCHANGED <<open, racing, pageVars, feedVars>>

Next ==
    \/ PageAlone /\ PageNext
    \/ FeedAlone /\ FeedNext
    \/ SessionAlone /\ SessionNext

\* On the datasources page polls are made, deadlines pass and what was sent arrives: nobody
\* has to load, retry or remove anything, and no worker has to finish.  In the session tabs
\* run, GoTrue answers, messages arrive and the clock goes on: nobody has to close a tab,
\* log in or log out.
Fairness ==
    /\ WF_feedVars(open = "datasources" /\ StreamStep)
    /\ WF_feedVars(open = "datasources" /\ Loaded)
    /\ WF_feedVars(open = "datasources" /\ Retried)
    /\ WF_feedVars(open = "datasources" /\ Removed)
    /\ \A t \in Tabs : WF_sessionVars(open = "session" /\ UNCHANGED racing /\ TabStep(t))
    /\ WF_sessionVars(open = "session" /\ UNCHANGED racing /\ AgeLock)

Spec == Init /\ [][Next]_allVars /\ Fairness

BrowserTypeOK == PageTypeOK /\ FeedTypeOK /\ SessionTypeOK
=============================================================================
