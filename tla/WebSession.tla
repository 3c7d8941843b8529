----------------------------- MODULE WebSession -----------------------------
(***************************************************************************)
(* The session of a browser with several tabs: AuthProvider of             *)
(* apps/web/lib/auth.tsx in each, the refresh cookie they share, the route *)
(* handler that exchanges it, and GoTrue, which rotates it on use.         *)
(*                                                                         *)
(* A token is its number.  GoTrue accepts one per login, the newest.  The  *)
(* lock in localStorage is read, written and read back, and other tabs run *)
(* in between when racing; it goes stale by age.  Signing in through a     *)
(* provider, which reloads the tab, is left out.                           *)
(***************************************************************************)
EXTENDS Naturals, Sequences

CONSTANTS
    Tabs,
    NoTab,
    MaxEvents,    \* bounds of the model: logins, logouts, tabs closed, answers lost or
                  \* refused and locks outlasted,
    MaxAcquires   \* times a refresh is begun

ASSUME SessionAssumption ==
    /\ NoTab \notin Tabs
    /\ MaxEvents \in Nat /\ MaxAcquires \in Nat

VARIABLES
    racing,     \* whether tabs interleave inside the lock, and refreshes outlast it
    point,      \* where each tab's refresh is
    answer,     \* its token: the cookie's on the way there, GoTrue's new one or 0 on the way back
    writes,     \* tabs whose answer sets the cookie, or deletes it
    session,    \* the token each tab's session came with, 0 without a session
    loading,    \* tabs that have not settled yet
    timer,      \* tabs that are to refresh later
    heard,      \* tabs a peer handed a session to during their refresh
    blocker,    \* whose lock a waiting tab saw first
    inbox,      \* broadcasts each tab has not received yet
    holder,     \* who wrote genql_refresh_lock last
    aged,       \* whether that is more than LOCK_TTL_MS ago
    cookie,     \* the token in the refresh cookie, 0 without one
    valid,      \* the tokens GoTrue would accept
    minted,     \* tokens so far
    entering,   \* the token on its way to a tab that logs in, 0 without one
    leaving,    \* tabs whose logout is under way
    loggedOut,  \* nobody is logged in: the last to come or go was a logout
    announced,       \* a tab told the others of its logout, and no login began since
    crossed,    \* a session was on its way to a tab when it did
    broken,     \* GoTrue's answer was lost or no, or it undid a login
    events, begun

lockVars == <<holder, aged>>
vaultVars == <<cookie, valid, minted>>
userVars == <<entering, leaving, loggedOut, announced, crossed>>

sessionVars == <<racing, point, answer, writes, session, loading, timer, heard, blocker, inbox,
                 lockVars, vaultVars, userVars, broken, events, begun>>

\* Somebody is logged in, or nobody; every tab is just opened.  Whether the lock is raced
\* is chosen once, for what holds only when it is not.
SessionInit ==
    /\ racing \in BOOLEAN
    /\ point = [t \in Tabs |-> "idle"]
    /\ answer = [t \in Tabs |-> 0] /\ writes = {}
    /\ session = [t \in Tabs |-> 0]
    /\ loading = Tabs /\ timer = {} /\ heard = {}
    /\ blocker = [t \in Tabs |-> NoTab]
    /\ inbox = [t \in Tabs |-> <<>>]
    /\ holder = NoTab /\ aged = FALSE
    /\ minted = 1 /\ cookie \in {0, 1} /\ valid = {cookie} \ {0}
    /\ entering = [t \in Tabs |-> 0] /\ leaving = {}
    /\ loggedOut = (cookie = 0) /\ announced = FALSE /\ crossed = FALSE
    /\ broken = FALSE /\ events = 0 /\ begun = 0

Post(t, token) ==
    inbox' = [p \in Tabs |->
                 IF p = t \/ point[p] = "closed" THEN inbox[p] ELSE Append(inbox[p], token)]

Event == events < MaxEvents /\ events' = events + 1

Move(t, p) == point' = [point EXCEPT ![t] = p]

-----------------------------------------------------------------------------
(***************************************************************************)
(* The lock                                                                *)
(***************************************************************************)

\* Mutant of LockFree: a lock is free whoever holds it.
LockIgnored == TRUE

\* Mutant of LockFree: a lock is never too old.
LockNeverExpires == holder = NoTab

LockFree == holder = NoTab \/ aged

\* What no step of the lock touches.
tokenVars == <<answer, writes, session, vaultVars, userVars, broken>>

\* Mounted, or the timer fires: one refresh at a time per tab.
Begin(t) ==
    /\ point[t] = "idle"
    /\ t \in loading \cup timer
    /\ begun < MaxAcquires
    /\ begun' = begun + 1
    /\ timer' = timer \ {t}
    /\ Move(t, "look")
    /\ UNCHANGED <<loading, heard, blocker, inbox, lockVars, tokenVars, events>>

\* tryAcquireRefreshLock, undisturbed.
Acquire(t) ==
    /\ ~racing
    /\ point[t] = "look"
    /\ LockFree
    /\ holder' = t /\ aged' = FALSE
    /\ Move(t, "held")
    /\ UNCHANGED <<loading, timer, heard, blocker, inbox, tokenVars, events, begun>>

\* The same, with other tabs between getItem, setItem and getItem.
See(t) ==
    /\ racing
    /\ point[t] = "look"
    /\ LockFree
    /\ Move(t, "write")
    /\ UNCHANGED <<loading, timer, heard, blocker, inbox, lockVars, tokenVars, events, begun>>

WriteStamp(t) ==
    /\ point[t] = "write"
    /\ holder' = t /\ aged' = FALSE
    /\ Move(t, "back")
    /\ UNCHANGED <<loading, timer, heard, blocker, inbox, tokenVars, events, begun>>

ReadBack(t) ==
    /\ point[t] = "back"
    /\ Move(t, IF holder = t THEN "held" ELSE "wait")
    /\ blocker' = [blocker EXCEPT ![t] = IF holder = t THEN NoTab ELSE holder]
    /\ UNCHANGED <<loading, timer, heard, inbox, lockVars, tokenVars, events, begun>>

\* Another tab holds it.
Await(t) ==
    /\ point[t] = "look"
    /\ ~LockFree
    /\ Move(t, "wait")
    /\ blocker' = [blocker EXCEPT ![t] = IF @ = NoTab THEN holder ELSE @]
    /\ UNCHANGED <<loading, timer, heard, inbox, lockVars, tokenVars, events, begun>>

Settled(t) ==
    /\ loading' = loading \ {t} /\ heard' = heard \ {t}
    /\ blocker' = [blocker EXCEPT ![t] = NoTab]
    /\ Move(t, "idle")

\* Every LOCK_POLL_MS: done if a peer reported, otherwise another try.
Repoll(t) ==
    /\ point[t] = "wait"
    /\ IF t \in heard THEN Settled(t)
       ELSE LockFree /\ Move(t, "look") /\ UNCHANGED <<loading, heard, blocker>>
    /\ UNCHANGED <<timer, inbox, lockVars, tokenVars, events, begun>>

\* The deadline outlives one hold of the lock, so it passes only while another tab than
\* the one that was waited for has it.
GiveUp(t) ==
    /\ point[t] = "wait"
    /\ ~LockFree
    /\ holder # blocker[t]
    /\ Settled(t)
    /\ UNCHANGED <<timer, inbox, lockVars, tokenVars, events, begun>>

\* LOCK_TTL_MS pass, over a tab that is gone or one that is slow.
AgeLock ==
    /\ holder # NoTab /\ ~aged
    /\ \/ point[holder] = "closed" /\ UNCHANGED events
       \/ racing /\ Event
    /\ aged' = TRUE
    /\ UNCHANGED <<point, loading, timer, heard, blocker, inbox, holder, tokenVars, begun>>

(***************************************************************************)
(* The exchange of the refresh token                                       *)
(***************************************************************************)

\* fetch('/api/auth/refresh'): the request leaves with the cookie of the moment.
Send(t) ==
    /\ point[t] = "held"
    /\ Move(t, "sent")
    /\ answer' = [answer EXCEPT ![t] = cookie]
    /\ UNCHANGED <<writes, session, loading, timer, heard, blocker, inbox, lockVars,
                   vaultVars, userVars, broken, events, begun>>

\* GoTrue rotates a token it accepts.
Rotate(t) ==
    /\ answer[t] \in valid
    /\ minted' = minted + 1
    /\ valid' = (valid \ {answer[t]}) \cup {minted + 1}
    /\ answer' = [answer EXCEPT ![t] = minted + 1]
    /\ writes' = writes \cup {t}
    /\ UNCHANGED <<broken, events>>

\* It rejects any other, and may refuse a good one (429, 5xx); the handler deletes the
\* cookie for either.
Reject(t) ==
    /\ answer[t] # 0
    /\ IF answer[t] \in valid
       THEN Event /\ broken' = TRUE
       ELSE UNCHANGED <<broken, events>>
    /\ answer' = [answer EXCEPT ![t] = 0]
    /\ writes' = writes \cup {t}
    /\ UNCHANGED <<minted, valid>>

\* No cookie, so the handler does not ask; or GoTrue is out of its reach.
Unasked(t) ==
    /\ IF answer[t] = 0 THEN UNCHANGED events ELSE Event
    /\ answer' = [answer EXCEPT ![t] = 0]
    /\ UNCHANGED <<minted, valid, writes, broken>>

Exchange(t) ==
    /\ point[t] = "sent"
    /\ Move(t, "answered")
    /\ Rotate(t) \/ Reject(t) \/ Unasked(t)
    /\ UNCHANGED <<session, loading, timer, heard, blocker, inbox, lockVars, cookie,
                   userVars, begun>>

Release(t) == holder' = IF holder = t THEN NoTab ELSE holder

\* applySession: a session is renewed in time, no session is not.
Apply(t, token) ==
    /\ session' = [session EXCEPT ![t] = token]
    /\ timer' = IF token = 0 THEN timer \ {t} ELSE timer \cup {t}

\* The answer with its cookie; the session is applied, broadcast unless rejected, and only
\* then the lock released.
Answered(t) ==
    /\ point[t] = "answered"
    /\ cookie' = IF t \in writes THEN answer[t] ELSE cookie
    /\ writes' = writes \ {t} /\ answer' = [answer EXCEPT ![t] = 0]
    /\ Apply(t, answer[t])
    /\ IF answer[t] # 0 THEN Post(t, answer[t]) ELSE UNCHANGED inbox
    /\ Release(t)
    /\ Settled(t)
    /\ UNCHANGED <<aged, valid, minted, userVars, broken, events, begun>>

\* The answer does not arrive: its cookie does or does not, and a new token may be lost.
Unanswered(t) ==
    /\ writes' = writes \ {t} /\ answer' = [answer EXCEPT ![t] = 0]
    /\ \/ cookie' = cookie /\ broken' = (broken \/ (t \in writes /\ answer[t] # 0))
       \/ t \in writes /\ cookie' = answer[t] /\ UNCHANGED broken

\* The network fails on the way there or back: the session is kept, another try follows.
Lose(t) ==
    /\ point[t] \in {"sent", "answered"}
    /\ Event
    /\ Unanswered(t)
    /\ timer' = timer \cup {t}
    /\ Release(t)
    /\ Settled(t)
    /\ UNCHANGED <<session, inbox, aged, valid, minted, userVars, begun>>

\* onmessage: a peer's session, or its logout.
Hear(t) ==
    /\ inbox[t] # <<>>
    /\ Apply(t, Head(inbox[t]))
    /\ heard' = IF point[t] = "idle" THEN heard ELSE heard \cup {t}
    /\ inbox' = [inbox EXCEPT ![t] = Tail(@)]
    /\ UNCHANGED <<point, answer, writes, loading, blocker, lockVars, vaultVars, userVars,
                   broken, events, begun>>

(***************************************************************************)
(* Logging in and out                                                      *)
(***************************************************************************)

\* login, signup: GoTrue starts a session that owes nothing to the last one.
LogIn(t) ==
    /\ point[t] # "closed" /\ entering[t] = 0
    /\ Event
    /\ minted' = minted + 1
    /\ valid' = valid \cup {minted + 1}
    /\ entering' = [entering EXCEPT ![t] = minted + 1]
    /\ announced' = FALSE /\ crossed' = FALSE
    /\ UNCHANGED <<point, answer, writes, session, loading, timer, heard, blocker, inbox,
                   lockVars, cookie, leaving, loggedOut, broken, begun>>

\* A refresh under way that GoTrue rejects, for a token from before: its answer deletes
\* whatever cookie it finds.
Doomed ==
    \E t \in Tabs :
        \/ point[t] = "sent" /\ answer[t] \notin valid \cup {0}
        \/ point[t] = "answered" /\ t \in writes /\ answer[t] \notin valid

\* The login's cookie, unless a logout revoked it meanwhile.
Entered(t) ==
    /\ cookie' = entering[t]
    /\ loggedOut' = (entering[t] \notin valid)
    /\ broken' = (broken \/ Doomed)

LoggedIn(t) ==
    /\ point[t] # "closed" /\ entering[t] # 0
    /\ entering' = [entering EXCEPT ![t] = 0]
    /\ Entered(t)
    /\ Apply(t, entering[t])
    /\ Post(t, entering[t])
    /\ UNCHANGED <<point, answer, writes, loading, heard, blocker, lockVars, valid, minted,
                   leaving, announced, crossed, events, begun>>

\* GoTrue revokes every session of the user, or cannot be reached.
Logout(t) ==
    /\ session[t] # 0 /\ t \notin leaving
    /\ Event
    /\ leaving' = leaving \cup {t}
    /\ valid' \in {valid, {}}
    /\ loggedOut' = TRUE
    /\ UNCHANGED <<point, answer, writes, session, loading, timer, heard, blocker, inbox,
                   lockVars, cookie, minted, entering, announced, crossed, broken, begun>>

\* A session some tab is still to hear of after this one's logout.
OnItsWay(t) ==
    \/ \E i \in DOMAIN inbox[t] : inbox[t][i] # 0
    \/ \E p \in Tabs :
          \/ entering[p] # 0
          \/ point[p] = "sent" /\ answer[p] \in valid
          \/ point[p] = "answered" /\ answer[p] # 0

\* Mutant of LoggedOut: the other tabs are not told.
LoggedOutQuietly(t) ==
    /\ point[t] # "closed" /\ t \in leaving
    /\ leaving' = leaving \ {t}
    /\ cookie' = 0
    /\ Apply(t, 0)
    /\ loggedOut' = TRUE /\ announced' = TRUE /\ crossed' = OnItsWay(t)
    /\ UNCHANGED <<point, answer, writes, loading, heard, blocker, inbox, lockVars, valid,
                   minted, entering, broken, events, begun>>

LoggedOut(t) ==
    /\ point[t] # "closed" /\ t \in leaving
    /\ leaving' = leaving \ {t}
    /\ cookie' = 0
    /\ Apply(t, 0)
    /\ Post(t, 0)
    /\ loggedOut' = TRUE /\ announced' = TRUE /\ crossed' = OnItsWay(t)
    /\ UNCHANGED <<point, answer, writes, loading, heard, blocker, lockVars, valid, minted,
                   entering, broken, events, begun>>

\* The answer to a login or a logout is lost, or its tab is gone: the cookie arrives or
\* does not, and nothing else happens.
LoseUser(t) ==
    /\ IF point[t] = "closed" THEN UNCHANGED events ELSE Event
    /\ \/ /\ entering[t] # 0
          /\ entering' = [entering EXCEPT ![t] = 0]
          /\ Entered(t) \/ UNCHANGED <<cookie, loggedOut, broken>>
          /\ UNCHANGED leaving
       \/ /\ t \in leaving
          /\ leaving' = leaving \ {t}
          /\ cookie' \in {cookie, 0} /\ loggedOut' = TRUE
          /\ UNCHANGED <<entering, broken>>
    /\ UNCHANGED <<point, answer, writes, session, loading, timer, heard, blocker, inbox,
                   lockVars, valid, minted, announced, crossed, begun>>

\* Mutant of CloseTab: the timer is not cleared.
CloseTabTicking(t) ==
    /\ point[t] # "closed"
    /\ Event
    /\ Unanswered(t)
    /\ Move(t, "closed")
    /\ session' = [session EXCEPT ![t] = 0]
    /\ loading' = loading \ {t} /\ timer' = timer /\ heard' = heard \ {t}
    /\ blocker' = [blocker EXCEPT ![t] = NoTab]
    /\ inbox' = [inbox EXCEPT ![t] = <<>>]
    /\ UNCHANGED <<lockVars, valid, minted, userVars, begun>>

\* A tab is closed, whatever it is doing; the answers it waits for find nobody.
CloseTab(t) ==
    /\ point[t] # "closed"
    /\ Event
    /\ Unanswered(t)
    /\ Move(t, "closed")
    /\ session' = [session EXCEPT ![t] = 0]
    /\ loading' = loading \ {t} /\ timer' = timer \ {t} /\ heard' = heard \ {t}
    /\ blocker' = [blocker EXCEPT ![t] = NoTab]
    /\ inbox' = [inbox EXCEPT ![t] = <<>>]
    /\ UNCHANGED <<lockVars, valid, minted, userVars, begun>>

TabStep(t) ==
    \/ Acquire(t) \/ See(t) \/ WriteStamp(t) \/ ReadBack(t) \/ Await(t) \/ Repoll(t) \/ GiveUp(t)
    \/ Send(t) \/ Exchange(t) \/ Answered(t) \/ Hear(t)

UserStep(t) == LogIn(t) \/ LoggedIn(t) \/ Logout(t) \/ LoggedOut(t) \/ LoseUser(t)

SessionNext ==
    /\ \/ \E t \in Tabs : TabStep(t) \/ Begin(t) \/ Lose(t) \/ CloseTab(t) \/ UserStep(t)
       \/ AgeLock
    /\ UNCHANGED racing

SessionSpec == SessionInit /\ [][SessionNext]_sessionVars

-----------------------------------------------------------------------------
Token == 0..minted

\* Every token anybody holds was handed out, and a tab that is gone refreshes nothing.
SessionTypeOK ==
    /\ racing \in BOOLEAN /\ minted \in Nat /\ cookie \in Token /\ valid \subseteq 1..minted
    /\ point \in [Tabs -> {"idle", "look", "write", "back", "held", "wait", "sent", "answered",
                           "closed"}]
    /\ answer \in [Tabs -> Token] /\ session \in [Tabs -> Token] /\ entering \in [Tabs -> Token]
    /\ inbox \in [Tabs -> Seq(Token)]
    /\ writes \subseteq Tabs /\ loading \subseteq Tabs /\ timer \subseteq Tabs
    /\ heard \subseteq Tabs /\ leaving \subseteq Tabs
    /\ \A t \in timer : point[t] # "closed"
    /\ holder \in Tabs \cup {NoTab}
    /\ aged \in BOOLEAN /\ loggedOut \in BOOLEAN /\ announced \in BOOLEAN /\ crossed \in BOOLEAN
    /\ broken \in BOOLEAN

Quiet ==
    /\ leaving = {}
    /\ \A t \in Tabs :
          inbox[t] = <<>> /\ entering[t] = 0 /\ point[t] \notin {"sent", "answered"}

\* While no tab runs inside another's lock, the cookie the tabs share is one GoTrue
\* accepts, unless the user left, an answer was lost or refused, or a login met a
\* refresh of the session before it.
SessionKept == Quiet /\ ~racing /\ ~loggedOut /\ ~broken => cookie \in valid

\* auth.tsx:55-56: losing the race for the lock costs "at most one redundant refresh call,
\* never a lost session".  It does not hold (README.md): two tabs may send one token, and
\* the one that is rejected deletes the cookie.
RaceLosesNoSession == Quiet /\ ~loggedOut /\ ~broken => cookie \in valid

\* A logout whose answer arrived is heard in every tab, whatever each is waiting for,
\* unless a session was on its way.
LogoutReachesEveryTab == Quiet /\ announced /\ ~crossed => \A t \in Tabs : session[t] = 0

\* A tab that opens settles, with a session or without, even if the tab that holds the
\* lock is closed: a dead holder stops nobody.
TabsSettle == \A t \in Tabs : (t \in loading /\ point[t] # "idle") ~> (t \notin loading)
=============================================================================
