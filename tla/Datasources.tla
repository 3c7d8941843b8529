----------------------------- MODULE Datasources -----------------------------
(***************************************************************************)
(* The settings of one datasource and the engines pooled for it:           *)
(* DatasourceService over its row, and DatasourceEngineProvider, which     *)
(* keeps one engine per role for the life of a process.                    *)
(*                                                                         *)
(* An edit is a read, a merge, a write of every column and an              *)
(* invalidation, each a step of its own; so is the use of an engine: the   *)
(* row is read by the caller, the cache looked up, the engine built and    *)
(* stored, with no lock around any of it.  The engines are those of one    *)
(* process, the API's; an edit may come from another one, the command      *)
(* line's, which invalidates its own.  Of the four endpoint columns the    *)
(* model keeps two; an encrypted password is its plaintext.                *)
(***************************************************************************)
EXTENDS Naturals, FiniteSets

CONSTANTS
    Editors,      \* requests and commands that register, edit and remove the datasource
    Connectors,   \* threads that need an engine
    Patches,      \* the edits requests make: a field they do not mention is Unmentioned
    MaxEdits      \* bound of the model: writes to the row

Fields == {"env", "host", "database", "password", "description"}
Endpoint == {"host", "database"}
Unmentioned == "-"
Values == {"", "a", "b"}     \* "" is NULL in a row and "clear it" in a patch

ASSUME DatasourcesAssumption ==
    /\ MaxEdits \in Nat
    /\ Patches \subseteq [Fields -> Values \cup {Unmentioned}]

Roles == {"admin", "readonly"}

VARIABLES
    row,        \* the row of genql_datasource, NoRow before and after its time
    editor,     \* per request: where it is, the row it read, its patch
    connector,  \* per thread: where it is, for which role, the DSN of the row it
                \* read, and from where the row was written since
    engines,    \* _engines: the DSN of the pooled engine of each role, or NoEngine
    late,       \* roles whose engine was stored by a thread this process overtook
    outdated,   \* roles whose engine another process made stale: it was there, or a
                \* thread was about to store it, when that process wrote the row
    edits

settingsVars == <<row, editor, connector, engines, late, outdated, edits>>

Rows == [Fields -> Values]
NoRow == [f \in {} |-> ""]
NoEngine == <<>>
NoEdit == [at |-> "idle", read |-> NoRow, patch |-> [f \in Fields |-> Unmentioned]]
Unconnected == [at |-> "idle", role |-> "admin", dsn |-> NoEngine, overtaken |-> "no"]

\* What _dsn_for makes of a row; the read-only role brings its own password.
Dsn(r, role) ==
    CASE r = NoRow -> NoEngine
      [] r # NoRow /\ r.host # "" ->
            <<r.host, r.database, IF role = "readonly" THEN "" ELSE r.password>>
      [] OTHER -> <<r.env>>

-----------------------------------------------------------------------------
(***************************************************************************)
(* merge                                                                   *)
(***************************************************************************)

Mentions(patch, f) == patch[f] # Unmentioned
TouchesEndpoint(patch) == \E f \in Endpoint : Mentions(patch, f)

\* Mutant of Cleared: an edit of the endpoint keeps the environment variable.
ClearedButEnv(patch) ==
    IF ~TouchesEndpoint(patch) /\ patch["env"] \notin {Unmentioned, ""}
    THEN Endpoint \cup {"password"} ELSE {}

\* The endpoint drops the environment variable, the variable drops the endpoint and
\* the stored password; a patch with both means the endpoint.
Cleared(patch) ==
    CASE TouchesEndpoint(patch) -> {"env"}
      [] ~TouchesEndpoint(patch) /\ patch["env"] \notin {Unmentioned, ""} ->
            Endpoint \cup (IF Mentions(patch, "password") THEN {} ELSE {"password"})
      [] OTHER -> {}

Merged(r, patch) ==
    [f \in Fields |-> CASE f \in Cleared(patch) -> ""
                        [] f \notin Cleared(patch) /\ Mentions(patch, f) -> patch[f]
                        [] OTHER -> r[f]]

\* _require_connectable
Connectable(r) == r["env"] # "" \/ \A f \in Endpoint : r[f] # ""

-----------------------------------------------------------------------------
SettingsInit ==
    /\ row = NoRow
    /\ editor = [e \in Editors |-> NoEdit]
    /\ connector = [c \in Connectors |-> Unconnected]
    /\ engines = [role \in Roles |-> NoEngine]
    /\ late = {} /\ outdated = {}
    /\ edits = 0

\* Every write of the row overtakes the threads that read it.
Overtake(origin) ==
    connector' = [c \in Connectors |->
        IF connector[c].at = "idle" \/ connector[c].overtaken = "elsewhere"
        THEN connector[c] ELSE [connector[c] EXCEPT !.overtaken = origin]]

\* register, register_from_env: the INSERT does nothing when the name is taken.
Register(e) ==
    /\ editor[e].at = "idle"
    /\ row = NoRow
    /\ edits < MaxEdits
    /\ row' \in {[f \in Fields |-> IF f \in Endpoint THEN "a" ELSE ""],
                 [f \in Fields |-> IF f = "env" THEN "a" ELSE ""]}
    /\ edits' = edits + 1
    /\ Overtake("here")
    /\ UNCHANGED <<editor, engines, late, outdated>>

\* update reads the row it will merge into; an unknown name is refused.
ReadRow(e) ==
    /\ editor[e].at = "idle"
    /\ row # NoRow
    /\ \E patch \in Patches :
          editor' = [editor EXCEPT ![e] = [at |-> "merge", read |-> row, patch |-> patch]]
    /\ UNCHANGED <<row, connector, engines, late, outdated, edits>>

\* A row that could not connect, or a variable that is not set, is refused before the
\* write, and leaves row and engines as they are.
Refuse(e) ==
    /\ editor[e].at = "merge"
    /\ \/ ~Connectable(Merged(editor[e].read, editor[e].patch))
       \/ editor[e].patch["env"] \notin {Unmentioned, ""} /\ ~TouchesEndpoint(editor[e].patch)
    /\ editor' = [editor EXCEPT ![e] = NoEdit]
    /\ UNCHANGED <<row, connector, engines, late, outdated, edits>>

\* Once it has written the row, a request drops the engines of this process; a command
\* drops those of its own, and every engine there is here stays.
AfterWrite(e) ==
    \/ /\ editor' = [editor EXCEPT ![e] = [NoEdit EXCEPT !.at = "admin"]]
       /\ Overtake("here")
       /\ UNCHANGED outdated
    \/ /\ editor' = [editor EXCEPT ![e] = NoEdit]
       /\ Overtake("elsewhere")
       /\ outdated' = {role \in Roles : engines[role] # NoEngine}

\* The UPDATE writes every column of the merged row; a row removed meanwhile is unknown.
WriteRow(e) ==
    /\ editor[e].at = "merge"
    /\ Connectable(Merged(editor[e].read, editor[e].patch))
    /\ edits < MaxEdits
    /\ IF row = NoRow
       THEN /\ editor' = [editor EXCEPT ![e] = NoEdit]
            /\ UNCHANGED <<row, connector, outdated, edits>>
       ELSE /\ row' = Merged(editor[e].read, editor[e].patch)
            /\ AfterWrite(e)
            /\ edits' = edits + 1
    /\ UNCHANGED <<engines, late>>

\* remove
DeleteRow(e) ==
    /\ editor[e].at = "idle"
    /\ row # NoRow
    /\ row' = NoRow
    /\ AfterWrite(e)
    /\ UNCHANGED <<engines, late, edits>>

\* Mutant of Dropped: both pops name the engine of the write path.
DroppedAdmin(role) == [engines EXCEPT !["admin"] = NoEngine]

Dropped(role) == [engines EXCEPT ![role] = NoEngine]

\* invalidate: two pops, the write path's engine before the guarded one's.
Invalidate(e) ==
    /\ \E role \in Roles :
          /\ editor[e].at = role
          /\ engines' = Dropped(role)
          /\ late' = late \ {role}
          /\ outdated' = outdated \ {role}
    /\ editor' = IF editor[e].at = "admin" THEN [editor EXCEPT ![e].at = "readonly"]
                                           ELSE [editor EXCEPT ![e] = NoEdit]
    /\ UNCHANGED <<row, connector, edits>>

-----------------------------------------------------------------------------
\* A thread has read the row of the datasource it is about to query.
Resolve(c, role) ==
    /\ connector[c].at = "idle"
    /\ row # NoRow
    /\ connector' = [connector EXCEPT ![c] =
                        [at |-> "look", role |-> role, dsn |-> Dsn(row, role), overtaken |-> "no"]]
    /\ UNCHANGED <<row, editor, engines, late, outdated, edits>>

\* _cached: an engine of that name and role is used whatever its DSN.
LookUp(c) ==
    /\ connector[c].at = "look"
    /\ connector' = IF engines[connector[c].role] # NoEngine
                    THEN [connector EXCEPT ![c] = Unconnected]
                    ELSE [connector EXCEPT ![c].at = "build"]
    /\ UNCHANGED <<row, editor, engines, late, outdated, edits>>

Store(c) ==
    /\ connector[c].at = "build"
    /\ engines' = [engines EXCEPT ![connector[c].role] = connector[c].dsn]
    /\ late' = IF connector[c].overtaken = "here" THEN late \cup {connector[c].role}
                                                  ELSE late \ {connector[c].role}
    /\ outdated' = IF connector[c].overtaken = "elsewhere"
                   THEN outdated \cup {connector[c].role}
                   ELSE outdated \ {connector[c].role}
    /\ connector' = [connector EXCEPT ![c] = Unconnected]
    /\ UNCHANGED <<row, editor, edits>>

SettingsNext ==
    \/ \E e \in Editors :
          \/ Register(e) \/ ReadRow(e) \/ Refuse(e) \/ WriteRow(e) \/ DeleteRow(e) \/ Invalidate(e)
    \/ \E c \in Connectors :
          (\E role \in Roles : Resolve(c, role)) \/ LookUp(c) \/ Store(c)

SettingsSpec == SettingsInit /\ [][SettingsNext]_settingsVars

-----------------------------------------------------------------------------
SettingsTypeOK ==
    /\ row \in Rows \cup {NoRow}
    /\ \A e \in Editors :
          /\ editor[e].at \in {"idle", "merge"} \cup Roles
          /\ editor[e].read \in Rows \cup {NoRow}
          /\ editor[e].at = "merge" => editor[e].read \in Rows
    /\ \A c \in Connectors : connector[c].at \in {"idle", "look", "build"}
    /\ DOMAIN engines = Roles
    /\ late \subseteq Roles /\ outdated \subseteq Roles
    /\ edits \in 0..MaxEdits

\* "Exactly one of the two is populated" (domain/entities/datasource.py): a row says
\* where its warehouse is by its whole endpoint or by a variable, through any chain of
\* edits that change the one into the other, racing or not.
OneWayToConnect ==
    row # NoRow =>
        \/ row["env"] # "" /\ \A f \in Endpoint : row[f] = ""
        \/ row["env"] = "" /\ \A f \in Endpoint : row[f] # ""

\* Somebody in this process is still to drop the engine of a role.
StillToDrop(role) == \E e \in Editors : editor[e].at \in {"admin", role}

\* An engine that is not the current row's is about to be dropped, or was stored by a
\* thread an edit overtook, or is stale by another process's edit, which "inside one
\* process" leaves to that process: invalidate leaves nothing else behind
\* (infrastructure/db/engine_provider.py).
StaleOnlyIfOvertaken ==
    \A role \in Roles :
        engines[role] # NoEngine /\ engines[role] # Dsn(row, role)
        => role \in late \cup outdated \/ StillToDrop(role)

\* "invalidate drops both so removing a datasource cannot leave a stale connection
\* behind inside one process" (infrastructure/db/engine_provider.py).  It does not hold
\* (README.md): a thread the removal overtook does.
NothingLeftBehind ==
    \A role \in Roles :
        row = NoRow /\ engines[role] # NoEngine => role \in outdated \/ StillToDrop(role)

\* "An edit is never a whole-row overwrite and two people editing different fields of the
\* same datasource do not clobber each other"
\* (domain/value_objects/datasource_update.py).  It does not hold (README.md): two edits
\* may read one row and write it one after the other.
EditsDoNotClobber ==
    [][\A e \in Editors, f \in Fields :
          /\ editor[e].at = "merge" /\ editor'[e].at # "merge"
          /\ row # NoRow /\ row' # NoRow /\ row'[f] # row[f]
          => Mentions(editor[e].patch, f) \/ f \in Cleared(editor[e].patch)]_settingsVars
=============================================================================
