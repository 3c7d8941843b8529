------------------------------ MODULE TunnelSync ------------------------------
(***************************************************************************)
(* scripts/tunnel_url_sync.py: a timer's job that points the frontend at   *)
(* the tunnel in front of the API.  The tunnel has a new URL each time it  *)
(* starts; the job writes it to the project's variables, one request each, *)
(* and rebuilds the frontend, which sees the variables of its build only.  *)
(*                                                                         *)
(* A URL is the number of the tunnel's start.  Any request may fail, and a *)
(* run may be killed at any point.  Runs are those of one timer, which     *)
(* does not start a run over another: a run by hand beside it, which the   *)
(* script allows and does not notice, is left out.                         *)
(***************************************************************************)
EXTENDS Naturals, Sequences

CONSTANTS
    MaxStarts,    \* bounds of the model: starts of the tunnel,
    MaxRuns       \* runs of the job

ASSUME TunnelAssumption == MaxStarts \in Nat \ {0} /\ MaxRuns \in Nat

\* VARIABLES of the script, in the order they are written.
Variables == <<"GENQL_API_ORIGIN", "GOTRUE_URL">>

VARIABLES
    tunnel,      \* the URL the tunnel announced last
    serving,     \* whether it answers yet
    env,         \* the project's variables, 0 where there is none
    deployed,    \* the variables the frontend was built with
    sync,        \* the run: where it is, its URL, what it read, what it changed
    wrote,       \* whether the run wrote a variable
    torn,        \* whether a run was cut off after it wrote and before the rebuild
    confirmed,   \* the URL of the last run that exited with 0
    runs

tunnelVars == <<tunnel, serving, env, deployed, sync, wrote, torn, confirmed, runs>>

Keys == {Variables[i] : i \in DOMAIN Variables}
Nothing == [k \in Keys |-> 0]
Asleep == [at |-> "asleep", base |-> 0, existing |-> Nothing, next |-> 1, changed |-> FALSE]

\* The variables may have been set by hand; the frontend was built with them.
TunnelInit ==
    /\ tunnel = 1 /\ serving = FALSE
    /\ env \in [Keys -> 0..1]
    /\ deployed = env
    /\ sync = Asleep
    /\ wrote = FALSE /\ torn = FALSE
    /\ confirmed = 0 /\ runs = 0

\* cloudflared restarts: a new URL is announced, which does not answer yet.
TunnelStarts ==
    /\ tunnel < MaxStarts
    /\ tunnel' = tunnel + 1
    /\ serving' = FALSE
    /\ UNCHANGED <<env, deployed, sync, wrote, torn, confirmed, runs>>

TunnelAnswers ==
    /\ ~serving
    /\ serving' = TRUE
    /\ UNCHANGED <<tunnel, env, deployed, sync, wrote, torn, confirmed, runs>>

\* main: the last URL in the log is the tunnel's.
StartRun ==
    /\ sync.at = "asleep"
    /\ runs < MaxRuns
    /\ runs' = runs + 1
    /\ sync' = [Asleep EXCEPT !.at = "wait", !.base = tunnel]
    /\ wrote' = FALSE
    /\ UNCHANGED <<tunnel, serving, env, deployed, torn, confirmed>>

\* wait_until_serving; the URL of a start before the last never answers.
ProbeAnswered ==
    /\ sync.at = "wait"
    /\ serving /\ sync.base = tunnel
    /\ sync' = [sync EXCEPT !.at = "list"]
    /\ UNCHANGED <<tunnel, serving, env, deployed, wrote, torn, confirmed, runs>>

\* The variables the project has now.
ListVariables ==
    /\ sync.at = "list"
    /\ sync' = [sync EXCEPT !.at = "write", !.existing = env]
    /\ UNCHANGED <<tunnel, serving, env, deployed, wrote, torn, confirmed, runs>>

\* Mutant of Changed: only the last variable decides whether to rebuild.
ChangedLast(key) == sync.existing[key] # sync.base

Changed(key) == sync.changed \/ sync.existing[key] # sync.base

\* One turn of the loop of sync: a variable that is right is left alone.
WriteVariable ==
    /\ sync.at = "write"
    /\ sync.next <= Len(Variables)
    /\ LET key == Variables[sync.next] IN
       /\ sync' = [sync EXCEPT !.next = @ + 1, !.changed = Changed(key)]
       /\ IF sync.existing[key] = sync.base
          THEN UNCHANGED <<env, wrote>>
          ELSE env' = [env EXCEPT ![key] = sync.base] /\ wrote' = TRUE
    /\ UNCHANGED <<tunnel, serving, deployed, torn, confirmed, runs>>

\* redeploy, or "nothing changed - no redeploy"; the run exits with 0.
Redeploy ==
    /\ sync.at = "write"
    /\ sync.next > Len(Variables)
    /\ IF sync.changed THEN deployed' = env /\ torn' = FALSE
                       ELSE UNCHANGED <<deployed, torn>>
    /\ confirmed' = sync.base
    /\ sync' = Asleep
    /\ UNCHANGED <<tunnel, serving, env, wrote, runs>>

\* A SyncError, or the end of the process.
Interrupted ==
    /\ sync.at # "asleep"
    /\ torn' = (torn \/ wrote)
    /\ sync' = Asleep
    /\ UNCHANGED <<tunnel, serving, env, deployed, wrote, confirmed, runs>>

TunnelNext ==
    \/ TunnelStarts \/ TunnelAnswers
    \/ StartRun \/ ProbeAnswered \/ ListVariables \/ WriteVariable \/ Redeploy \/ Interrupted

TunnelSpec == TunnelInit /\ [][TunnelNext]_tunnelVars

-----------------------------------------------------------------------------
TunnelTypeOK ==
    /\ tunnel \in 1..MaxStarts /\ serving \in BOOLEAN
    /\ env \in [Keys -> 0..MaxStarts] /\ deployed \in [Keys -> 0..MaxStarts]
    /\ sync.at \in {"asleep", "wait", "list", "write"}
    /\ sync.base \in 0..MaxStarts /\ sync.next \in 1..(Len(Variables) + 1)
    /\ confirmed \in 0..MaxStarts /\ runs \in 0..MaxRuns

\* A run that reports success for the tunnel that is up leaves a frontend built for it,
\* unless an earlier run was cut off between its first write and its rebuild.
DeployedUnlessTorn ==
    confirmed = tunnel /\ ~torn => \A k \in Keys : deployed[k] = tunnel
=============================================================================
