----------------------------- MODULE BackendProofs -----------------------------
(***************************************************************************)
(* Proofs about what is behind the API: a row of settings keeps one way to *)
(* connect and an engine that is not the row's was stored too late, or is  *)
(* stale by another process's edit; what reaches the warehouse satisfies   *)
(* every guardrail, and the statements of a golden case that passes have   *)
(* the same answer unless a limit cut one; the frontend is built for the   *)
(* tunnel; the cache of embeddings is bounded.  The parts share no         *)
(* variable: each theorem is about one part's specification, and what the  *)
(* run of MCBackend explores implements all five.                          *)
(***************************************************************************)
EXTENDS MCBackend, SemanticStoreProofs, FiniteSetTheorems, SequenceTheorems, TLAPS

-----------------------------------------------------------------------------
(***************************************************************************)
(* The settings of a datasource and its engines                            *)
(***************************************************************************)
Edits == [at : {"idle", "merge"} \cup Roles, read : Rows \cup {NoRow},
          patch : [Fields -> Values \cup {Unmentioned}]]
Endpoints == Values \X Values \X Values
Dsns == {NoEngine} \cup Endpoints \cup {<<v>> : v \in Values}
Origins == {"here", "elsewhere"}
Connections == [at : {"idle", "look", "build"}, role : Roles, dsn : Dsns,
                overtaken : {"no"} \cup Origins]

SettingsTyped ==
    /\ row \in Rows \cup {NoRow}
    /\ editor \in [Editors -> Edits]
    /\ connector \in [Connectors -> Connections]
    /\ engines \in [Roles -> Dsns]
    /\ late \in SUBSET Roles
    /\ outdated \in SUBSET Roles

OneWay(r) ==
    \/ r["env"] # "" /\ \A f \in Endpoint : r[f] = ""
    \/ r["env"] = "" /\ \A f \in Endpoint : r[f] # ""

\* What an edit merges into was a row, and so had one way to connect.
ReadsAreRows ==
    \A e \in Editors : editor[e].at = "merge" => editor[e].read \in Rows /\ OneWay(editor[e].read)

\* A thread that was not overtaken connects as the row says.
DsnIsCurrent ==
    \A c \in Connectors :
        connector[c].at # "idle" /\ connector[c].overtaken = "no"
            => connector[c].dsn = Dsn(row, connector[c].role)

RowInv == SettingsTyped /\ OneWayToConnect /\ ReadsAreRows
EngineInv == DsnIsCurrent /\ StaleOnlyIfOvertaken

LEMMA DsnType ==
    ASSUME NEW r \in Rows \cup {NoRow}, NEW role \in Roles
    PROVE  Dsn(r, role) \in Dsns
<1>1. CASE r = NoRow
  BY <1>1 DEF Dsn, Dsns
<1>2. CASE r # NoRow
  <2>1. r.host \in Values /\ r.database \in Values /\ r.password \in Values /\ r.env \in Values
    BY <1>2 DEF Rows, Fields
  <2>2. (IF role = "readonly" THEN "" ELSE r.password) \in Values
    BY <2>1 DEF Values
  <2>3. CASE r.host # ""
    <3> DEFINE pw == IF role = "readonly" THEN "" ELSE r.password
    <3>1. Dsn(r, role) = <<r.host, r.database, pw>>
      BY <1>2, <2>3 DEF Dsn
    <3>2. pw \in Values
      BY <2>2
    <3> HIDE DEF pw
    <3>3. <<r.host, r.database, pw>> \in Endpoints
      BY <2>1, <3>2 DEF Endpoints
    <3> QED BY <3>1, <3>3 DEF Dsns
  <2>4. CASE r.host = ""
    <3>1. Dsn(r, role) = <<r.env>>
      BY <1>2, <2>4 DEF Dsn
    <3> QED BY <2>1, <3>1 DEF Dsns
  <2> QED BY <2>3, <2>4
<1> QED BY <1>1, <1>2

LEMMA MergedType ==
    ASSUME NEW r \in Rows, NEW patch \in [Fields -> Values \cup {Unmentioned}]
    PROVE  Merged(r, patch) \in Rows
<1>1. ASSUME NEW f \in Fields
      PROVE  (CASE f \in Cleared(patch) -> ""
                [] f \notin Cleared(patch) /\ Mentions(patch, f) -> patch[f]
                [] OTHER -> r[f]) \in Values
  BY DEF Mentions, Rows, Values
<1> QED BY <1>1 DEF Merged, Rows

\* merge, and the check behind it, turn a row with one way to connect into another.
LEMMA MergeKeepsOneWay ==
    ASSUME NEW r \in Rows, NEW patch \in [Fields -> Values \cup {Unmentioned}],
           OneWay(r), Connectable(Merged(r, patch))
    PROVE  OneWay(Merged(r, patch))
<1> DEFINE m == Merged(r, patch)
<1>0. "env" \in Fields /\ "host" \in Fields /\ "database" \in Fields /\ Endpoint = {"host", "database"}
  BY DEF Fields, Endpoint
<1>1. CASE TouchesEndpoint(patch)
  <2>1. Cleared(patch) = {"env"}
    BY <1>1 DEF Cleared
  <2>2. m["env"] = ""
    BY <1>0, <2>1 DEF Merged
  <2> QED BY <2>2 DEF OneWay, Connectable
<1>2. CASE ~TouchesEndpoint(patch) /\ patch["env"] \notin {Unmentioned, ""}
  <2>1. Endpoint \subseteq Cleared(patch) /\ "env" \notin Cleared(patch)
    BY <1>2, <1>0 DEF Cleared
  <2>2. m["env"] = patch["env"]
    BY <1>0, <1>2, <2>1 DEF Merged, Mentions
  <2>3. \A f \in Endpoint : m[f] = ""
    BY <1>0, <2>1 DEF Merged
  <2> QED BY <1>2, <2>2, <2>3 DEF OneWay
<1>3. CASE ~TouchesEndpoint(patch) /\ patch["env"] \in {Unmentioned, ""}
  <2>1. Cleared(patch) = {}
    BY <1>3 DEF Cleared
  <2>2. \A f \in Endpoint : m[f] = r[f]
    BY <1>0, <1>3, <2>1 DEF Merged, TouchesEndpoint
  <2>3. m["env"] = IF patch["env"] = "" THEN "" ELSE r["env"]
    BY <1>0, <1>3, <2>1 DEF Merged, Mentions, Unmentioned
  <2> QED BY <2>2, <2>3 DEF OneWay, Connectable
<1> QED BY <1>1, <1>2, <1>3

-----------------------------------------------------------------------------
LEMMA Blanks == NoEdit \in Edits /\ Unconnected \in Connections /\ NoEngine \in Dsns
BY DEF NoEdit, Edits, Unmentioned, Unconnected, Connections, Roles, Dsns

LEMMA AfterWriteType ==
    ASSUME SettingsTyped, NEW e \in Editors, AfterWrite(e)
    PROVE  /\ editor' \in [Editors -> Edits] /\ editor'[e].at # "merge"
           /\ \A d \in Editors \ {e} : editor'[d] = editor[d]
           /\ outdated' \in SUBSET Roles
           /\ \E origin \in Origins : Overtake(origin)
<1>1. [NoEdit EXCEPT !.at = "admin"] \in Edits /\ [NoEdit EXCEPT !.at = "admin"].at = "admin"
  BY DEF NoEdit, Edits, Unmentioned, Roles
<1>2. NoEdit \in Edits /\ NoEdit.at = "idle" BY Blanks DEF NoEdit
<1>3. CASE editor' = [editor EXCEPT ![e] = [NoEdit EXCEPT !.at = "admin"]]
  BY <1>1, <1>3 DEF AfterWrite, SettingsTyped, Origins
<1>4. CASE editor' = [editor EXCEPT ![e] = NoEdit]
  BY <1>2, <1>4 DEF AfterWrite, SettingsTyped, Origins
<1> QED BY <1>3, <1>4 DEF AfterWrite

\* A written row overtakes the threads, which stay threads.
LEMMA OvertakenType ==
    ASSUME SettingsTyped, NEW origin \in Origins, Overtake(origin)
    PROVE  connector' \in [Connectors -> Connections]
<1>1. ASSUME NEW c \in Connectors
      PROVE  [connector[c] EXCEPT !.overtaken = origin] \in Connections
  <2>1. connector[c] \in Connections BY DEF SettingsTyped
  <2> QED BY <2>1 DEF Connections
<1> QED BY <1>1 DEF Overtake, SettingsTyped

LEMMA RowInit == SettingsInit => RowInv
BY Blanks DEF SettingsInit, RowInv, SettingsTyped, OneWayToConnect, ReadsAreRows, NoEdit

LEMMA RowStep == RowInv /\ [SettingsNext]_settingsVars => RowInv'
<1> SUFFICES ASSUME RowInv, [SettingsNext]_settingsVars PROVE RowInv'
  OBVIOUS
<1> USE DEF RowInv, SettingsTyped
<1>1. ASSUME NEW e \in Editors, Register(e) PROVE RowInv'
  <2>1. row' \in Rows
    BY <1>1 DEF Register, Rows, Values
  <2>2. OneWayToConnect'
    BY <1>1 DEF Register, OneWayToConnect, Fields, Endpoint
  <2>3. connector' \in [Connectors -> Connections]
    BY <1>1, OvertakenType DEF Register, Origins
  <2> QED BY <1>1, <2>1, <2>2, <2>3 DEF Register, ReadsAreRows
<1>2. ASSUME NEW e \in Editors, ReadRow(e) PROVE RowInv'
  <2>1. PICK patch \in Patches :
            editor' = [editor EXCEPT ![e] = [at |-> "merge", read |-> row, patch |-> patch]]
    BY <1>2 DEF ReadRow
  <2>2. patch \in [Fields -> Values \cup {Unmentioned}] /\ row \in Rows
    BY <1>2, DatasourcesAssumption DEF ReadRow
  <2>3. editor' \in [Editors -> Edits]
    BY <2>1, <2>2 DEF Edits
  <2>4. ReadsAreRows'
    BY <1>2, <2>1, <2>2 DEF ReadRow, ReadsAreRows, OneWayToConnect, OneWay, Edits
  <2> QED BY <1>2, <2>3, <2>4 DEF ReadRow, OneWayToConnect
<1>3. ASSUME NEW e \in Editors, Refuse(e) PROVE RowInv'
  BY <1>3, Blanks DEF Refuse, ReadsAreRows, OneWayToConnect, NoEdit
<1>4. ASSUME NEW e \in Editors, WriteRow(e) PROVE RowInv'
  <2>1. CASE row = NoRow
    BY <1>4, <2>1, Blanks DEF WriteRow, ReadsAreRows, OneWayToConnect, NoEdit
  <2>2. CASE row # NoRow
    <3>1. row' = Merged(editor[e].read, editor[e].patch) /\ editor[e].at = "merge"
          /\ Connectable(Merged(editor[e].read, editor[e].patch))
      BY <1>4, <2>2 DEF WriteRow
    <3>2. editor[e].read \in Rows /\ editor[e].patch \in [Fields -> Values \cup {Unmentioned}]
          /\ OneWay(editor[e].read)
      BY <3>1 DEF ReadsAreRows, Edits
    <3>3. row' \in Rows /\ OneWay(row')
      BY <3>1, <3>2, MergedType, MergeKeepsOneWay
    <3>4. /\ editor' \in [Editors -> Edits] /\ editor'[e].at # "merge"
          /\ \A d \in Editors \ {e} : editor'[d] = editor[d]
          /\ outdated' \in SUBSET Roles
          /\ connector' \in [Connectors -> Connections]
      BY <1>4, <2>2, AfterWriteType, OvertakenType DEF WriteRow
    <3>5. ReadsAreRows'
      BY <3>4 DEF ReadsAreRows
    <3>6. OneWayToConnect'
      BY <3>3 DEF OneWayToConnect, OneWay
    <3> QED BY <1>4, <2>2, <3>3, <3>4, <3>5, <3>6 DEF WriteRow
  <2> QED BY <2>1, <2>2
<1>5. ASSUME NEW e \in Editors, DeleteRow(e) PROVE RowInv'
  <2>1. /\ editor' \in [Editors -> Edits] /\ editor'[e].at # "merge"
        /\ \A d \in Editors \ {e} : editor'[d] = editor[d]
        /\ outdated' \in SUBSET Roles
        /\ connector' \in [Connectors -> Connections]
    BY <1>5, AfterWriteType, OvertakenType DEF DeleteRow
  <2>2. ReadsAreRows'
    BY <2>1 DEF ReadsAreRows
  <2> QED BY <1>5, <2>1, <2>2 DEF DeleteRow, OneWayToConnect
<1>6. ASSUME NEW e \in Editors, Invalidate(e) PROVE RowInv'
  <2>1. /\ editor[e].at \in Roles
        /\ \/ editor' = [editor EXCEPT ![e].at = "readonly"]
           \/ editor' = [editor EXCEPT ![e] = NoEdit]
        /\ UNCHANGED <<row, connector, edits>>
    BY <1>6 DEF Invalidate
  <2>2. late' \in SUBSET Roles /\ outdated' \in SUBSET Roles /\ engines' \in [Roles -> Dsns]
    BY <1>6, Blanks DEF Invalidate, Dropped
  <2>3. CASE editor' = [editor EXCEPT ![e].at = "readonly"]
    <3>1. [editor[e] EXCEPT !.at = "readonly"] \in Edits
      BY DEF Edits, Roles
    <3>2. editor' \in [Editors -> Edits]
      BY <2>3, <3>1
    <3>3. ReadsAreRows'
      <4> SUFFICES ASSUME NEW e9 \in Editors, editor'[e9].at = "merge"
                   PROVE  editor'[e9].read \in Rows /\ OneWay(editor'[e9].read)
        BY DEF ReadsAreRows
      <4>1. editor'[e].at = "readonly"
        BY <2>3 DEF Edits
      <4>2. e9 # e /\ editor'[e9] = editor[e9]
        BY <2>3, <4>1
      <4> QED BY <4>2 DEF ReadsAreRows
    <3> QED BY <2>1, <2>2, <3>2, <3>3 DEF OneWayToConnect
  <2>4. CASE editor' = [editor EXCEPT ![e] = NoEdit]
    <3>1. editor' \in [Editors -> Edits]
      BY <2>4, Blanks
    <3>2. ReadsAreRows'
      BY <2>4 DEF ReadsAreRows, NoEdit
    <3> QED BY <2>1, <2>2, <3>1, <3>2 DEF OneWayToConnect
  <2> QED BY <2>1, <2>3, <2>4
<1>7. ASSUME NEW c \in Connectors, NEW role \in Roles, Resolve(c, role) PROVE RowInv'
  <2>1. Dsn(row, role) \in Dsns
    BY DsnType
  <2>2. connector' \in [Connectors -> Connections]
    BY <1>7, <2>1 DEF Resolve, Connections
  <2> QED BY <1>7, <2>2 DEF Resolve, ReadsAreRows, OneWayToConnect
<1>8. ASSUME NEW c \in Connectors, LookUp(c) PROVE RowInv'
  <2>1. connector' \in [Connectors -> Connections]
    BY <1>8, Blanks DEF LookUp, Connections
  <2> QED BY <1>8, <2>1 DEF LookUp, ReadsAreRows, OneWayToConnect
<1>9. ASSUME NEW c \in Connectors, Store(c) PROVE RowInv'
  <2>1. connector[c].role \in Roles /\ connector[c].dsn \in Dsns
    BY DEF Connections
  <2> QED BY <1>9, <2>1, Blanks DEF Store, ReadsAreRows, OneWayToConnect
<1>10. CASE UNCHANGED settingsVars
  BY <1>10 DEF settingsVars, ReadsAreRows, OneWayToConnect
<1> QED
  BY <1>1, <1>2, <1>3, <1>4, <1>5, <1>6, <1>7, <1>8, <1>9, <1>10 DEF SettingsNext

\* A row says where its warehouse is in one way, for any number of requests and any edits
\* (services/datasource/datasource_merge.py).
THEOREM OneWayKept == SettingsSpec => []OneWayToConnect
<1>1. RowInv => OneWayToConnect
  BY DEF RowInv
<1> QED BY RowInit, RowStep, <1>1, PTL DEF SettingsSpec

-----------------------------------------------------------------------------
LEMMA EngineInit == SettingsInit => EngineInv
BY DEF SettingsInit, EngineInv, DsnIsCurrent, StaleOnlyIfOvertaken, Unconnected

LEMMA EngineStep == RowInv /\ EngineInv /\ [SettingsNext]_settingsVars => EngineInv'
<1> SUFFICES ASSUME RowInv, EngineInv, [SettingsNext]_settingsVars PROVE EngineInv'
  OBVIOUS
<1> USE DEF EngineInv, RowInv, SettingsTyped
<1>a. ASSUME NEW origin \in Origins, Overtake(origin) PROVE DsnIsCurrent'
  <2>1. ASSUME NEW c \in Connectors, connector'[c].at # "idle" PROVE connector'[c].overtaken # "no"
    <3>1. connector[c] \in Connections
      OBVIOUS
    <3> QED BY <1>a, <2>1, <3>1 DEF Overtake, Connections, Origins
  <2> QED BY <2>1 DEF DsnIsCurrent
<1>b. ASSUME UNCHANGED <<row, connector>> PROVE DsnIsCurrent'
  BY <1>b DEF DsnIsCurrent
<1>c. \A r \in Roles : Dsn(NoRow, r) = NoEngine
  BY DEF Dsn
<1>d. ASSUME UNCHANGED <<row, engines, late, outdated>>,
             \A d \in Editors : editor[d].at \in Roles => editor'[d].at = editor[d].at
      PROVE  StaleOnlyIfOvertaken'
  <2>1. \A r \in Roles : StillToDrop(r) => StillToDrop(r)'
    BY <1>d DEF StillToDrop, Roles
  <2> QED BY <1>d, <2>1 DEF StaleOnlyIfOvertaken
<1>e. ASSUME NEW e \in Editors, AfterWrite(e), UNCHANGED engines PROVE StaleOnlyIfOvertaken'
  <2>1. CASE editor' = [editor EXCEPT ![e] = [NoEdit EXCEPT !.at = "admin"]]
    <3>1. [NoEdit EXCEPT !.at = "admin"].at = "admin" BY DEF NoEdit
    <3>2. \A r \in Roles : StillToDrop(r)' BY <2>1, <3>1 DEF StillToDrop
    <3> QED BY <3>2 DEF StaleOnlyIfOvertaken
  <2>2. CASE outdated' = {r \in Roles : engines[r] # NoEngine}
    BY <1>e, <2>2 DEF StaleOnlyIfOvertaken
  <2> QED BY <1>e, <2>1, <2>2 DEF AfterWrite
<1>1. ASSUME NEW e \in Editors, Register(e) PROVE EngineInv'
  <2>1. \A r \in Roles : StillToDrop(r) => StillToDrop(r)'
    BY <1>1 DEF Register, StillToDrop
  <2>2. StaleOnlyIfOvertaken'
    BY <1>1, <1>c, <2>1 DEF Register, StaleOnlyIfOvertaken
  <2> QED BY <1>1, <1>a, <2>2 DEF Register, Origins
<1>2. ASSUME NEW e \in Editors, ReadRow(e) PROVE EngineInv'
  <2>1. \A d \in Editors : editor[d].at \in Roles => editor'[d].at = editor[d].at
    BY <1>2 DEF ReadRow, Edits, Roles
  <2> QED BY <1>2, <1>b, <1>d, <2>1 DEF ReadRow
<1>3. ASSUME NEW e \in Editors, Refuse(e) PROVE EngineInv'
  <2>1. \A d \in Editors : editor[d].at \in Roles => editor'[d].at = editor[d].at
    BY <1>3 DEF Refuse, Edits, Roles
  <2> QED BY <1>3, <1>b, <1>d, <2>1 DEF Refuse
<1>4. ASSUME NEW e \in Editors, WriteRow(e) PROVE EngineInv'
  <2>1. CASE row = NoRow
    <3>1. \A d \in Editors : editor[d].at \in Roles => editor'[d].at = editor[d].at
      BY <1>4, <2>1 DEF WriteRow, Edits, Roles
    <3> QED BY <1>4, <1>b, <1>d, <2>1, <3>1 DEF WriteRow
  <2>2. CASE row # NoRow
    <3>1. AfterWrite(e) /\ UNCHANGED engines BY <1>4, <2>2 DEF WriteRow
    <3> QED BY <1>a, <1>e, <3>1, AfterWriteType
  <2> QED BY <2>1, <2>2
<1>5. ASSUME NEW e \in Editors, DeleteRow(e) PROVE EngineInv'
  <2>1. AfterWrite(e) /\ UNCHANGED engines BY <1>5 DEF DeleteRow
  <2> QED BY <1>a, <1>e, <2>1, AfterWriteType
<1>6. ASSUME NEW e \in Editors, Invalidate(e) PROVE EngineInv'
  <2>1. PICK role \in Roles :
            /\ editor[e].at = role
            /\ engines' = [engines EXCEPT ![role] = NoEngine]
            /\ late' = late \ {role} /\ outdated' = outdated \ {role}
    BY <1>6 DEF Invalidate, Dropped
  <2>2. UNCHANGED <<row, connector>> /\ engines'[role] = NoEngine
        /\ \A r \in Roles \ {role} : engines'[r] = engines[r]
    BY <1>6, <2>1 DEF Invalidate
  <2>3. ASSUME NEW r \in Roles \ {role}, StillToDrop(r) PROVE StillToDrop(r)'
    <3>1. PICK d \in Editors : editor[d].at \in {"admin", r} BY <2>3 DEF StillToDrop
    <3>2. CASE d # e
      <4>1. editor'[d] = editor[d] BY <1>6, <3>2 DEF Invalidate
      <4> QED BY <3>1, <4>1 DEF StillToDrop
    <3>3. CASE d = e
      <4>1. editor[e].at = "admin" /\ r = "readonly" BY <2>1, <3>1, <3>3 DEF Roles
      <4>2. editor'[e].at = "readonly" BY <1>6, <4>1 DEF Invalidate, Edits
      <4> QED BY <4>1, <4>2 DEF StillToDrop
    <3> QED BY <3>2, <3>3
  <2>4. StaleOnlyIfOvertaken'
    BY <2>1, <2>2, <2>3 DEF StaleOnlyIfOvertaken
  <2> QED BY <1>b, <2>2, <2>4
<1>7. ASSUME NEW c \in Connectors, NEW role \in Roles, Resolve(c, role) PROVE EngineInv'
  <2>1. DsnIsCurrent' BY <1>7 DEF Resolve, DsnIsCurrent, Connections
  <2> QED BY <1>7, <1>d, <2>1 DEF Resolve
<1>8. ASSUME NEW c \in Connectors, LookUp(c) PROVE EngineInv'
  <2>1. DsnIsCurrent' BY <1>8 DEF LookUp, DsnIsCurrent, Connections, Unconnected
  <2> QED BY <1>8, <1>d, <2>1 DEF LookUp
<1>9. ASSUME NEW c \in Connectors, Store(c) PROVE EngineInv'
  <2>1. connector[c].overtaken = "no" => connector[c].dsn = Dsn(row, connector[c].role)
    BY <1>9 DEF Store, DsnIsCurrent
  <2>2. connector[c].role \in Roles /\ connector[c].overtaken \in {"no", "here", "elsewhere"}
    BY DEF Connections, Origins
  <2>3. DsnIsCurrent'
    BY <1>9 DEF Store, DsnIsCurrent, Unconnected
  <2>4. \A r \in Roles : StillToDrop(r) => StillToDrop(r)'
    BY <1>9 DEF Store, StillToDrop
  <2>5. StaleOnlyIfOvertaken'
    BY <1>9, <2>1, <2>2, <2>4 DEF Store, StaleOnlyIfOvertaken
  <2> QED BY <2>3, <2>5
<1>10. CASE UNCHANGED settingsVars
  <2>1. StaleOnlyIfOvertaken' BY <1>10, <1>d DEF settingsVars
  <2> QED BY <1>10, <1>b, <2>1 DEF settingsVars
<1> QED
  BY <1>1, <1>2, <1>3, <1>4, <1>5, <1>6, <1>7, <1>8, <1>9, <1>10 DEF SettingsNext

\* An engine nobody is about to drop that is not the row's was stored by a thread that
\* read the row before an edit, or is stale by an edit from another process, for any
\* number of requests, commands and threads (infrastructure/db/engine_provider.py).
THEOREM EnginesAreCurrent == SettingsSpec => []StaleOnlyIfOvertaken
<1>1. EngineInv => StaleOnlyIfOvertaken
  BY DEF EngineInv
<1> QED BY RowInit, RowStep, EngineInit, EngineStep, <1>1, PTL DEF SettingsSpec

-----------------------------------------------------------------------------
(***************************************************************************)
(* A statement's way to the warehouse                                      *)
(***************************************************************************)
Rules == {"statement_kind", "forbidden_function", "object_allowlist", "surrogate_key_date",
          "bind_parameter", "limit_injection", "statement_timeout"}

Shapes == [has : SUBSET Written, limit : Nat, columns : Projections \cup {<<>>},
           rows : SUBSET Answers, cost : Nat, narrowed : BOOLEAN]

\* The first n rules have nothing against s.
Passes(s, n) == \A i \in 1..n : ~Violates(Guardrails[i], s)

Admitted(s) == s.cost <= Budget /\ (s.narrowed \/ Passes(s, 7))

CaseTyped ==
    /\ stmt \in Shapes
    /\ rule \in 1..8
    /\ step = "done" \/ outcome = "none"

ExecInv ==
    /\ CaseTyped
    /\ step = "validate" => Passes(stmt, rule - 1)
    /\ step \in {"rewrite", "estimate", "narrow"} => Passes(stmt, 7)
    /\ step = "execute" \/ Ran => Admitted(stmt)

LEMMA RulesInOrder == Len(Guardrails) = 7 /\ \A i \in 1..7 : Guardrails[i] \in Rules
BY DEF Guardrails, Rules

LEMMA DraftShapes == Drafts \subseteq Shapes /\ Blank \in Shapes
<1>1. NoLimit..(RowCap + 1) \subseteq Nat
  BY ExecutionAssumption DEF NoLimit
<1>2. {{}} \cup {{trait} : trait \in Written} \subseteq SUBSET Written
  OBVIOUS
<1>3. ASSUME NEW s \in Drafts PROVE s \in Shapes
  BY <1>1, <1>2, ExecutionAssumption DEF Drafts, Shapes
<1>4. Blank \in Shapes
  BY DEF Blank, Shapes, NoLimit
<1> QED BY <1>3, <1>4

\* Only limit_injection looks at the LIMIT.
LEMMA LimitIsOneRules ==
    ASSUME NEW s \in Shapes, NEW name \in Rules \ {"limit_injection"}
    PROVE  Violates(name, [s EXCEPT !.limit = RowCap]) <=> Violates(name, s)
<1> DEFINE t == [s EXCEPT !.limit = RowCap]
<1>1. t.has = s.has
  BY DEF Shapes
<1> HIDE DEF t
<1>2. Violates(name, t) <=> Violates(name, s)
  BY <1>1 DEF Rules, Violates, StatementKind, ForbiddenFunction, ObjectAllowlist,
     SurrogateKeyDate, BindParameter, StatementTimeout, Parses
<1> QED BY <1>2 DEF t

\* No rule looks at the cost.
LEMMA CostIsNoRules ==
    ASSUME NEW s \in Shapes, NEW name \in Rules, NEW c \in Nat
    PROVE  Violates(name, [s EXCEPT !.cost = c]) <=> Violates(name, s)
<1> DEFINE t == [s EXCEPT !.cost = c]
<1>1. t.has = s.has /\ t.limit = s.limit
  BY DEF Shapes
<1> HIDE DEF t
<1>2. Violates(name, t) <=> Violates(name, s)
  BY <1>1 DEF Rules, Violates, StatementKind, ForbiddenFunction, ObjectAllowlist,
     SurrogateKeyDate, BindParameter, LimitInjection, StatementTimeout, Parses
<1> QED BY <1>2 DEF t

-----------------------------------------------------------------------------
LEMMA ExecInitInv == ExecInit => ExecInv
BY DraftShapes DEF ExecInit, ExecInv, CaseTyped, Ran

\* A rule that lets a statement pass, repaired or not, leaves the earlier ones satisfied.
LEMMA RulePasses ==
    ASSUME stmt \in Shapes, rule \in 1..7, Passes(stmt, rule - 1), ~Rejects(Guardrails[rule]),
           stmt' = IF Violates(Guardrails[rule], stmt) THEN Repaired(Guardrails[rule], stmt)
                                                       ELSE stmt
    PROVE  stmt' \in Shapes /\ Passes(stmt', rule)
<1> DEFINE name == Guardrails[rule]
<1>1. name \in Rules
  BY RulesInOrder
<1>2. ~Violates(name, stmt')
  BY DEF Rejects
<1>3. CASE stmt' = stmt
  <2>1. \A i \in 1..rule : i \in 1..(rule - 1) \/ i = rule
    OBVIOUS
  <2> QED BY <1>2, <1>3, <2>1 DEF Passes
<1>4. CASE name = "limit_injection" /\ stmt' = [stmt EXCEPT !.limit = RowCap]
  <2>1. rule = 6
    BY <1>4 DEF Guardrails
  <2>2. ASSUME NEW i \in 1..rule PROVE ~Violates(Guardrails[i], stmt')
    <3>1. CASE i = rule
      BY <1>2, <3>1
    <3>2. CASE i # rule
      <4>1. i \in 1..(rule - 1) /\ i \in 1..5
        BY <2>1, <3>2
      <4>2. Guardrails[i] \in Rules \ {"limit_injection"}
        BY <4>1 DEF Guardrails, Rules
      <4>3. ~Violates(Guardrails[i], stmt)
        BY <4>1 DEF Passes
      <4> QED BY <1>4, <4>2, <4>3, LimitIsOneRules
    <3> QED BY <3>1, <3>2
  <2>3. stmt' \in Shapes
    BY <1>4, ExecutionAssumption DEF Shapes
  <2> QED BY <2>2, <2>3 DEF Passes
<1>5. \/ stmt' = stmt
      \/ name = "limit_injection" /\ stmt' = [stmt EXCEPT !.limit = RowCap]
  BY DEF Repaired
<1> QED BY <1>3, <1>4, <1>5

LEMMA ExecStep == ExecInv /\ [ExecNext]_execVars => ExecInv'
<1> SUFFICES ASSUME ExecInv, [ExecNext]_execVars PROVE ExecInv'
  OBVIOUS
<1> USE DEF ExecInv, CaseTyped
<1>1. CASE RunReference
  BY <1>1 DEF RunReference, End, Ran
<1>2. CASE Draft
  <2>1. PICK s \in Drafts \cup {stmt} : stmt' = s
    BY <1>2 DEF Draft
  <2>2. stmt' \in Shapes
    BY <2>1, DraftShapes
  <2>3. Passes(stmt', rule' - 1)
    BY <1>2 DEF Draft, Passes
  <2> QED BY <1>2, <2>2, <2>3 DEF Draft, End, Ran
<1>3. CASE ApplyRule
  <2>1. step = "validate" /\ rule \in 1..7 /\ Passes(stmt, rule - 1)
    BY <1>3, RulesInOrder DEF ApplyRule
  <2>2. CASE Rejects(Guardrails[rule])
    BY <1>3, <2>1, <2>2 DEF ApplyRule, End, Ran
  <2>3. CASE ~Rejects(Guardrails[rule])
    <3>1. /\ stmt' = IF Violates(Guardrails[rule], stmt)
                     THEN Repaired(Guardrails[rule], stmt) ELSE stmt
          /\ rule' = rule + 1 /\ step' = step /\ outcome' = outcome
      BY <1>3, <2>3 DEF ApplyRule
    <3>2. stmt' \in Shapes /\ Passes(stmt', rule)
      BY <2>1, <2>3, <3>1, RulePasses
    <3>3. rule' - 1 = rule
      BY <2>1, <3>1
    <3> QED BY <2>1, <3>1, <3>2, <3>3 DEF Ran
  <2> QED BY <2>2, <2>3
<1>4. CASE Qualify
  <2>1. Passes(stmt, 7)
    <3>1. rule = 8
      BY <1>4, RulesInOrder DEF Qualify
    <3> QED BY <1>4, <3>1 DEF Qualify
  <2> QED BY <1>4, <2>1 DEF Qualify, End, Ran
<1>5. CASE Rewrite
  <2>1. stmt' \in Shapes /\ Passes(stmt', 7)
    <3>1. CASE stmt' = stmt
      BY <1>5, <3>1 DEF Rewrite
    <3>2. ASSUME NEW c \in Costs, stmt' = [stmt EXCEPT !.cost = c]
          PROVE  stmt' \in Shapes /\ Passes(stmt', 7)
      <4>1. c \in Nat
        BY ExecutionAssumption
      <4>2. \A i \in 1..7 : ~Violates(Guardrails[i], stmt)
        BY <1>5 DEF Rewrite, Passes
      <4>3. \A i \in 1..7 : ~Violates(Guardrails[i], stmt')
        BY <3>2, <4>1, <4>2, RulesInOrder, CostIsNoRules
      <4> QED BY <3>2, <4>1, <4>3 DEF Passes, Shapes
    <3> QED BY <1>5, <3>1, <3>2 DEF Rewrite
  <2> QED BY <1>5, <2>1 DEF Rewrite, Ran
<1>6. CASE Estimate
  BY <1>6 DEF Estimate, End, Ran, Admitted
<1>7. CASE Narrow
  <2>1. ASSUME NEW s \in Drafts, stmt' = [s EXCEPT !.narrowed = TRUE], Gate(s.cost)
        PROVE  ExecInv'
    <3>1. s \in Shapes
      BY DraftShapes
    <3>2. stmt' \in Shapes /\ stmt'.narrowed /\ stmt'.cost = s.cost
      BY <2>1, <3>1 DEF Shapes
    <3> QED BY <1>7, <2>1, <3>2 DEF Narrow, Gate, End, Ran, Admitted
  <2>2. CASE UNCHANGED stmt /\ \E how \in {"over_budget", "failed"} : End(how)
    BY <1>7, <2>2 DEF Narrow, End, Ran
  <2> QED BY <1>7, <2>1, <2>2 DEF Narrow
<1>8. CASE RunStatement
  BY <1>8 DEF RunStatement, End, Ran
<1>9. CASE Compare
  BY <1>9 DEF Compare, End, Ran
<1>10. CASE UNCHANGED execVars
  BY <1>10 DEF execVars, Ran
<1> QED
  BY <1>1, <1>2, <1>3, <1>4, <1>5, <1>6, <1>7, <1>8, <1>9, <1>10 DEF ExecNext

\* What reached the warehouse is within the budget and satisfies every guardrail at once, a
\* later rule's repair and any rewriting included, unless the optimizer's model wrote it
\* (services/query/static_validation_service.py, optimization_service.py).
THEOREM GuardedRuns == ExecSpec => []OnlyGuardedRuns
<1>1. ExecInv => OnlyGuardedRuns
  BY RulesInOrder DEF ExecInv, OnlyGuardedRuns, Admitted, Passes, Guardrails
<1> QED BY ExecInitInv, ExecStep, <1>1, PTL DEF ExecSpec

-----------------------------------------------------------------------------
(***************************************************************************)
(* What a golden case that passes has compared                             *)
(***************************************************************************)
\* Every row of s came back, or its LIMIT or the cap cut it.
WholeOrCut(s, rows) ==
    \/ rows = s.rows
    \/ Cardinality(s.rows) > RowCap
    \/ s.limit # NoLimit /\ s.limit < Cardinality(s.rows)

ReferenceWhole == CutByLimit(reference) \/ reference.result.rows = reference.rows

ReferenceTyped == reference.columns \in Projections \cup {<<>>}

CaseInv ==
    /\ ExecInv /\ ReferenceTyped
    /\ step \notin {"reference", "done"} \/ outcome \in {"passed", "mismatch"} => ReferenceWhole
    /\ step = "compare" => WholeOrCut(stmt, result.rows)
    /\ outcome = "passed" => WholeOrCut(stmt, result.rows) /\ Matches

\* A part of a finite set that is as large is the set.
LEMMA FullPart ==
    ASSUME NEW S, IsFiniteSet(S), NEW some \in SUBSET S, Cardinality(some) = Cardinality(S)
    PROVE  some = S
BY FS_Subset

LEMMA FetchedRows ==
    ASSUME NEW rows \in SUBSET Answers, NEW r \in Fetched(rows)
    PROVE  /\ r.truncated <=> Cardinality(rows) > RowCap
           /\ Cardinality(rows) <= RowCap => r.rows = rows
<1>1. IsFiniteSet(rows)
  BY FS_Subset, ExecutionAssumption
<1>2. PICK kept \in SUBSET rows :
          /\ r = [rows |-> kept, truncated |-> Cardinality(rows) > RowCap]
          /\ Cardinality(kept) = IF Cardinality(rows) > RowCap THEN RowCap ELSE Cardinality(rows)
  BY DEF Fetched
<1>3. Cardinality(rows) \in Nat /\ RowCap \in Nat
  BY <1>1, FS_CardinalityType, ExecutionAssumption
<1>4. r.rows = kept /\ r.truncated = (Cardinality(rows) > RowCap)
  <2> DEFINE beyond == Cardinality(rows) > RowCap
  <2>1. r = [rows |-> kept, truncated |-> beyond]
    BY <1>2
  <2> HIDE DEF beyond
  <2>2. r.rows = kept /\ r.truncated = beyond
    BY <2>1
  <2> QED BY <2>2 DEF beyond
<1>5. ASSUME Cardinality(rows) <= RowCap PROVE r.rows = rows
  <2>1. Cardinality(kept) = Cardinality(rows)
    BY <1>2, <1>3, <1>5
  <2> QED BY <1>1, <1>4, <2>1, FullPart
<1> QED BY <1>4, <1>5

\* What comes back of a statement, unless something cut it, is all there is.
LEMMA ExecutedRows ==
    ASSUME NEW s, s.rows \in SUBSET Answers, s.limit \in Nat, NEW r \in Execute(s)
    PROVE  /\ WholeOrCut(s, r.rows)
           /\ ~r.truncated => CutByLimit(s) \/ r.rows = s.rows
<1>1. PICK rows \in Returned(s) : r \in Fetched(rows)
  BY DEF Execute
<1>2. IsFiniteSet(s.rows) /\ Cardinality(s.rows) \in Nat /\ RowCap \in Nat
  BY FS_Subset, FS_CardinalityType, ExecutionAssumption
<1>3. CASE s.limit = NoLimit \/ Cardinality(s.rows) <= s.limit
  <2>1. rows = s.rows
    BY <1>1, <1>3 DEF Returned
  <2>2. /\ r.truncated <=> Cardinality(s.rows) > RowCap
        /\ Cardinality(s.rows) <= RowCap => r.rows = s.rows
    BY <1>1, <2>1, FetchedRows
  <2> QED BY <1>2, <2>2 DEF WholeOrCut
<1>4. CASE s.limit # NoLimit /\ ~(Cardinality(s.rows) <= s.limit)
  BY <1>2, <1>4 DEF WholeOrCut, CutByLimit
<1> QED BY <1>3, <1>4

LEMMA CaseInitInv == ExecInit => CaseInv
BY ExecInitInv DEF ExecInit, CaseInv, ReferenceTyped

\* The verdict is of the two statements and their results alone.
LEMMA SameVerdict ==
    ASSUME UNCHANGED <<stmt, reference, result>>
    PROVE  Matches' <=> Matches
<1>1. \A r : ReferenceKey(r)' = ReferenceKey(r) /\ GeneratedKey(r)' = GeneratedKey(r)
  BY DEF ReferenceKey, GeneratedKey
<1>2. \A key : /\ ReferenceCount(key)' = ReferenceCount(key)
               /\ GeneratedCount(key)' = GeneratedCount(key)
  BY DEF ReferenceCount, GeneratedCount, ReferenceKey, GeneratedKey
<1> QED BY <1>1, <1>2 DEF Matches

LEMMA CaseStep == CaseInv /\ [ExecNext]_execVars => CaseInv'
<1> SUFFICES ASSUME CaseInv, [ExecNext]_execVars PROVE CaseInv'
  OBVIOUS
<1>1. ExecInv /\ ExecInv'
  BY ExecStep DEF CaseInv
<1>2. step = "done" \/ outcome = "none"
  BY <1>1 DEF ExecInv, CaseTyped
<1> USE DEF CaseInv
<1>3. CASE RunReference
  <2>1. CASE End("fixture") /\ ReferenceTyped'
    BY <1>1, <1>3, <2>1 DEF RunReference, End
  <2> DEFINE Case(rows, limit) == [rows |-> rows, limit |-> limit]
             Noted(cols, rows, limit, r) ==
                reference' = [columns |-> cols, rows |-> rows, limit |-> limit, result |-> r]
             Verdict(r) ==
                IF r.truncated THEN End("fixture") ELSE step' = "draft" /\ UNCHANGED outcome
             Ready == step' = "draft" /\ outcome' = outcome /\ ReferenceWhole'
  <2>2. ASSUME NEW cols \in Projections, NEW rows \in SUBSET Answers,
               NEW limit \in NoLimit..(RowCap + 1),
               NEW r \in Execute(Case(rows, limit)), Noted(cols, rows, limit, r), Verdict(r)
        PROVE  (End("fixture") \/ Ready) /\ ReferenceTyped'
    <3>1. reference'.columns = cols /\ reference'.rows = rows /\ reference'.limit = limit
          /\ reference'.result.rows = r.rows
      BY <2>2
    <3>2. ReferenceTyped'
      BY <3>1 DEF ReferenceTyped
    <3>3. CASE r.truncated
      BY <2>2, <3>2, <3>3
    <3>4. CASE ~r.truncated
      <4>1. limit \in Nat
        BY ExecutionAssumption DEF NoLimit
      <4> DEFINE s == Case(rows, limit)
      <4>2. s.rows = rows /\ s.limit = limit /\ r \in Execute(s)
        BY <2>2
      <4> HIDE DEF s
      <4>3. CutByLimit(s) \/ r.rows = s.rows
        BY <3>4, <4>1, <4>2, ExecutedRows
      <4>4. ReferenceWhole'
        BY <3>1, <4>2, <4>3 DEF ReferenceWhole, CutByLimit
      <4> QED BY <2>2, <3>2, <3>4, <4>4
    <3> QED BY <3>3, <3>4
  <2>3. CASE \E cols \in Projections, rows \in SUBSET Answers, limit \in NoLimit..(RowCap + 1) :
             \E r \in Execute(Case(rows, limit)) : Noted(cols, rows, limit, r) /\ Verdict(r)
    <3>1. (End("fixture") \/ Ready) /\ ReferenceTyped'
      BY <2>2, <2>3
    <3>2. CASE Ready
      <4>1. outcome' = "none" /\ step' = "draft"
        BY <1>2, <1>3, <3>2 DEF RunReference
      <4> QED BY <1>1, <3>1, <3>2, <4>1
    <3> QED BY <2>1, <3>1, <3>2
  <2>4. CASE End("fixture") /\ UNCHANGED reference
    BY <2>1, <2>4 DEF ReferenceTyped
  <2> QED BY <1>3, <2>3, <2>4 DEF RunReference
<1>4. CASE Draft
  BY <1>1, <1>2, <1>4 DEF Draft, End, ReferenceWhole, ReferenceTyped
<1>5. CASE ApplyRule
  BY <1>1, <1>2, <1>5 DEF ApplyRule, End, ReferenceWhole, ReferenceTyped
<1>6. CASE Qualify
  BY <1>1, <1>2, <1>6 DEF Qualify, End, ReferenceWhole, ReferenceTyped
<1>7. CASE Rewrite
  BY <1>1, <1>2, <1>7 DEF Rewrite, ReferenceWhole, ReferenceTyped
<1>8. CASE Estimate
  BY <1>1, <1>2, <1>8 DEF Estimate, End, ReferenceWhole, ReferenceTyped
<1>9. CASE Narrow
  BY <1>1, <1>2, <1>9 DEF Narrow, Gate, End, ReferenceWhole, ReferenceTyped
<1>10. CASE RunStatement
  <2>1. /\ stmt' = stmt /\ reference' = reference /\ outcome' # "passed"
        /\ outcome' \notin {"passed", "mismatch"}
        /\ step = "execute" /\ step' \in {"compare", "done"}
    BY <1>2, <1>10 DEF RunStatement, End
  <2>2. ASSUME result' \in Execute(stmt)
        PROVE  WholeOrCut(stmt, result'.rows)
    <3>1. stmt.rows \in SUBSET Answers /\ stmt.limit \in Nat
      BY <1>1 DEF ExecInv, CaseTyped, Shapes
    <3> QED BY <2>2, <3>1, ExecutedRows
  <2>3. step' = "compare" => WholeOrCut(stmt', result'.rows)
    <3>1. step' = "compare" => result' \in Execute(stmt)
      BY <1>10 DEF RunStatement, End
    <3>2. step' = "compare" => WholeOrCut(stmt, result'.rows)
      BY <2>2, <3>1
    <3> QED BY <2>1, <3>2
  <2> QED BY <1>1, <2>1, <2>3 DEF ReferenceWhole, ReferenceTyped
<1>11. CASE Compare
  <2>1. /\ UNCHANGED <<stmt, reference, result>> /\ step = "compare" /\ step' = "done"
        /\ outcome' = "passed" => Matches
        /\ ReferenceWhole
    BY <1>11 DEF Compare, End
  <2>2. Matches' <=> Matches
    BY <2>1, SameVerdict
  <2>3. ReferenceWhole' /\ ReferenceTyped'
    BY <2>1 DEF ReferenceWhole, ReferenceTyped
  <2>4. outcome' = "passed" => (WholeOrCut(stmt, result.rows) /\ Matches)'
    BY <2>1, <2>2 DEF WholeOrCut
  <2>5. (step = "compare" => WholeOrCut(stmt, result.rows))'
    BY <2>1
  <2>6. (step \notin {"reference", "done"} \/ outcome \in {"passed", "mismatch"}
         => ReferenceWhole)'
    BY <2>3
  <2> QED BY <1>1, <2>3, <2>4, <2>5, <2>6
<1>12. CASE UNCHANGED execVars
  <2>1. Matches' <=> Matches
    BY <1>12, SameVerdict DEF execVars
  <2> QED BY <1>1, <1>12, <2>1 DEF execVars, ReferenceWhole, ReferenceTyped
<1> QED
  BY <1>3, <1>4, <1>5, <1>6, <1>7, <1>8, <1>9, <1>10, <1>11, <1>12 DEF ExecNext

\* A column whose name is its own is the first of its name.
LEMMA FirstOfItsName ==
    ASSUME NEW columns, DOMAIN columns \subseteq Nat, NamesOnce(columns), NEW i \in DOMAIN columns
    PROVE  Index(columns, NameOf[columns[i]]) = i
<1>1. \A k \in DOMAIN columns :
         (/\ NameOf[columns[k]] = NameOf[columns[i]]
          /\ \A j \in DOMAIN columns : NameOf[columns[j]] = NameOf[columns[i]] => k <= j)
         <=> k = i
  BY DEF NamesOnce
<1> QED BY <1>1 DEF Index

\* The keys of two rows of the generated result are one where the rows are read alike, and
\* those of the reference too where its names are its own.
LEMMA KeysAreReadings ==
    ASSUME NamesIn(reference.columns) = NamesIn(stmt.columns), NamesOnce(reference.columns),
           DOMAIN reference.columns \subseteq Nat,
           NEW reading, reading = [name \in NamesIn(stmt.columns) |-> reading[name]],
           NEW key, key = [i \in DOMAIN reference.columns |-> reading[NameOf[reference.columns[i]]]]
    PROVE  \A r : /\ Reading(reference, r) = reading <=> ReferenceKey(r) = key
                  /\ Reading(stmt, r) = reading <=> GeneratedKey(r) = key
<1> DEFINE names == NamesIn(reference.columns)
<1> SUFFICES ASSUME NEW r
             PROVE  /\ Reading(reference, r) = reading <=> ReferenceKey(r) = key
                    /\ Reading(stmt, r) = reading <=> GeneratedKey(r) = key
  OBVIOUS
<1>1. \A i \in DOMAIN reference.columns : NameOf[reference.columns[i]] \in names
  BY DEF NamesIn
<1>2. \A name \in names : \E i \in DOMAIN reference.columns : name = NameOf[reference.columns[i]]
  BY DEF NamesIn
<1>3. ASSUME NEW s, NamesIn(s.columns) = names, NEW Key,
             Key = [i \in DOMAIN reference.columns |-> Reading(s, r)[NameOf[reference.columns[i]]]]
      PROVE  Reading(s, r) = reading <=> Key = key
  <2>1. \E g : Reading(s, r) = [name \in names |-> g[name]]
    <3> DEFINE g == [name \in names |-> KeyAt[r][s.columns[Index(s.columns, name)]]]
    <3>1. Reading(s, r) = g BY <1>3 DEF Reading
    <3> QED BY <3>1
  <2>2. reading = [name \in names |-> reading[name]]
    OBVIOUS
  <2>3. ASSUME Key = key, NEW name \in names PROVE Reading(s, r)[name] = reading[name]
    <3>1. PICK i \in DOMAIN reference.columns : name = NameOf[reference.columns[i]] BY <1>2
    <3>2. Key[i] = Reading(s, r)[name] /\ key[i] = reading[name] BY <1>3, <3>1
    <3> QED BY <2>3, <3>2
  <2> QED BY <1>3, <2>1, <2>2, <2>3
<1>4. ReferenceKey(r) =
        [i \in DOMAIN reference.columns |-> Reading(reference, r)[NameOf[reference.columns[i]]]]
  <2>1. ASSUME NEW i \in DOMAIN reference.columns
        PROVE  KeyAt[r][reference.columns[i]]
                = Reading(reference, r)[NameOf[reference.columns[i]]]
    BY <1>1, FirstOfItsName DEF Reading
  <2> QED BY <2>1 DEF ReferenceKey
<1>5. GeneratedKey(r) =
        [i \in DOMAIN reference.columns |-> Reading(stmt, r)[NameOf[reference.columns[i]]]]
  BY <1>1 DEF GeneratedKey, Reading
<1> QED BY <1>3, <1>4, <1>5

\* Whole results that match are one answer, if the reference's names are its own.
LEMMA MatchingIsAgreeing ==
    ASSUME Matches, NamesOnce(reference.columns), DOMAIN reference.columns \subseteq Nat,
           result.rows = stmt.rows, reference.result.rows = reference.rows
    PROVE  SameAnswer(reference, stmt)
<1>1. NamesIn(reference.columns) = NamesIn(stmt.columns)
  BY DEF Matches
<1>2. ASSUME NEW reading,
             reading \in {Reading(reference, r) : r \in reference.rows}
                        \cup {Reading(stmt, r) : r \in stmt.rows}
      PROVE  Times(reference, reading) = Times(stmt, reading)
  <2> DEFINE key == [i \in DOMAIN reference.columns |-> reading[NameOf[reference.columns[i]]]]
  <2>1. reading = [name \in NamesIn(stmt.columns) |-> reading[name]]
    BY <1>1, <1>2 DEF Reading
  <2>2. \A r : /\ Reading(reference, r) = reading <=> ReferenceKey(r) = key
               /\ Reading(stmt, r) = reading <=> GeneratedKey(r) = key
    BY <1>1, <2>1, KeysAreReadings
  <2> HIDE DEF key
  <2>3. key \in {ReferenceKey(r) : r \in reference.rows} \cup {GeneratedKey(r) : r \in stmt.rows}
    BY <1>2, <2>2
  <2>4. ReferenceCount(key) = GeneratedCount(key)
    BY <2>3 DEF Matches
  <2>5. /\ {r \in reference.rows : Reading(reference, r) = reading}
            = {r \in reference.result.rows : ReferenceKey(r) = key}
        /\ {r \in stmt.rows : Reading(stmt, r) = reading}
            = {r \in result.rows : GeneratedKey(r) = key}
    BY <2>2
  <2> QED BY <2>4, <2>5 DEF Times, ReferenceCount, GeneratedCount
<1> QED BY <1>1, <1>2 DEF SameAnswer

\* A golden case that passes had statements with the same answer, as columns by name and
\* rows as often as they come, in whatever order the comparison looks at them, unless a
\* limit or the cap cut one of them or a name was on two columns
\* (services/eval/golden_evaluation_service.py, result_comparator.py).
THEOREM GoldenAgreement == ExecSpec => []PassedMeansAgreed
<1>1. CaseInv => PassedMeansAgreed
  <2> SUFFICES ASSUME CaseInv, outcome = "passed",
                      ~CutByLimit(reference), ~CutByLimit(stmt), ~(Cardinality(stmt.rows) > RowCap),
                      NamesOnce(reference.columns)
               PROVE  SameAnswer(reference, stmt)
    BY DEF PassedMeansAgreed
  <2>1. Matches /\ result.rows = stmt.rows /\ reference.result.rows = reference.rows
    BY DEF CaseInv, ReferenceWhole, WholeOrCut, CutByLimit
  <2>2. DOMAIN reference.columns \subseteq Nat
    <3>1. reference.columns \in Seq(Columns)
      <4>1. <<>> \in Seq(Columns)
        OBVIOUS
      <4>2. reference.columns \in Projections \/ reference.columns = <<>>
        BY DEF CaseInv, ReferenceTyped
      <4> QED BY <4>1, <4>2, ExecutionAssumption
    <3>2. DOMAIN reference.columns = 1..Len(reference.columns)
      BY <3>1
    <3>3. Len(reference.columns) \in Nat
      BY <3>1
    <3> QED BY <3>2, <3>3
  <2> QED BY <2>1, <2>2, MatchingIsAgreeing
<1> QED BY CaseInitInv, CaseStep, <1>1, PTL DEF ExecSpec

-----------------------------------------------------------------------------
(***************************************************************************)
(* The job that follows the tunnel                                         *)
(***************************************************************************)
Stored == [Keys -> 0..tunnel]

Passages == [at : {"asleep", "wait", "list", "write"}, base : 0..tunnel, existing : Stored,
             next : 1..3, changed : BOOLEAN]

\* No URL is newer than the tunnel's last start.
UrlsAreKnown ==
    /\ tunnel \in Nat \ {0}
    /\ env \in Stored /\ deployed \in Stored
    /\ sync \in Passages
    /\ wrote \in BOOLEAN /\ torn \in BOOLEAN
    /\ confirmed \in 0..tunnel

\* The loop: what it went through is written, the rest is as it was listed, and it knows
\* whether it wrote.
LoopKnows ==
    /\ sync.at \in {"wait", "list"} => ~wrote /\ ~sync.changed /\ sync.next = 1
    /\ sync.at = "write" =>
        /\ sync.changed = wrote
        /\ \A i \in 1..2 :
              env[Variables[i]] = IF i < sync.next THEN sync.base ELSE sync.existing[Variables[i]]

\* The frontend has the project's variables, but for those of a run under way and of one
\* that was cut off.
BuiltUnlessTorn ==
    ~torn /\ (sync.at = "asleep" \/ ~wrote) => env = deployed

TunnelInv == UrlsAreKnown /\ LoopKnows /\ BuiltUnlessTorn /\ DeployedUnlessTorn

LEMMA TwoVariables ==
    /\ Len(Variables) = 2
    /\ Variables[1] \in Keys /\ Variables[2] \in Keys
    /\ Variables[1] # Variables[2]
    /\ \A k \in Keys : k = Variables[1] \/ k = Variables[2]
BY DEF Variables, Keys

LEMMA AsleepTyped == ASSUME tunnel \in Nat PROVE Nothing \in Stored /\ Asleep \in Passages
<1>1. Nothing \in Stored
  BY DEF Nothing, Stored
<1>2. Asleep \in Passages
  BY <1>1 DEF Asleep, Passages
<1> QED BY <1>1, <1>2

LEMMA TunnelInitInv == TunnelInit => TunnelInv
<1> SUFFICES ASSUME TunnelInit PROVE TunnelInv
  OBVIOUS
<1>1. env \in Stored /\ sync \in Passages
  BY AsleepTyped DEF TunnelInit, Stored
<1>2. UrlsAreKnown
  <2>1. tunnel \in Nat \ {0} /\ confirmed \in 0..tunnel
    BY DEF TunnelInit
  <2>2. wrote \in BOOLEAN /\ torn \in BOOLEAN
    BY DEF TunnelInit
  <2>3. deployed \in Stored
    BY <1>1 DEF TunnelInit
  <2> QED BY <1>1, <2>1, <2>2, <2>3 DEF UrlsAreKnown
<1>3. sync.at = "asleep" /\ env = deployed /\ confirmed # tunnel
  BY DEF TunnelInit, Asleep
<1> QED BY <1>2, <1>3 DEF TunnelInv, LoopKnows, BuiltUnlessTorn, DeployedUnlessTorn

\* A later start of the tunnel makes no URL unknown.
LEMMA StartsKeepTypes ==
    ASSUME UrlsAreKnown, TunnelStarts
    PROVE  UrlsAreKnown'
<1>1. tunnel' = tunnel + 1 /\ tunnel \in Nat /\ 0..tunnel \subseteq 0..tunnel'
  BY DEF TunnelStarts, UrlsAreKnown
<1>2. Stored \subseteq Stored' /\ Passages \subseteq Passages'
  BY <1>1 DEF Stored, Passages
<1> QED BY <1>1, <1>2 DEF TunnelStarts, UrlsAreKnown

LEMMA WriteKeepsInv ==
    ASSUME TunnelInv, WriteVariable
    PROVE  TunnelInv'
<1> USE DEF TunnelInv, UrlsAreKnown
<1> DEFINE key == Variables[sync.next]
           dirty == Changed(key)
<1>1. /\ sync.at = "write" /\ sync.next \in 1..2 /\ key \in Keys
      /\ UNCHANGED <<tunnel, deployed, torn, confirmed>>
      /\ sync' = [sync EXCEPT !.next = sync.next + 1, !.changed = dirty]
  BY TwoVariables DEF WriteVariable, Passages
<1>2. dirty \in BOOLEAN
  BY DEF Changed
<1>3. Stored' = Stored /\ Passages' = Passages
  BY <1>1 DEF Stored, Passages
<1>4. /\ sync' \in Passages
      /\ sync'.at = "write" /\ sync'.base = sync.base /\ sync'.existing = sync.existing
      /\ sync'.next = sync.next + 1 /\ sync'.changed = dirty
  <2>1. sync.next + 1 \in 1..3
    BY <1>1
  <2> DEFINE n == sync.next + 1
  <2>2. n \in 1..3 /\ sync' = [sync EXCEPT !.next = n, !.changed = dirty]
    BY <1>1, <2>1
  <2> HIDE DEF dirty, n, key
  <2>3. /\ sync' \in Passages
        /\ sync'.at = sync.at /\ sync'.base = sync.base /\ sync'.existing = sync.existing
        /\ sync'.next = n /\ sync'.changed = dirty
    BY <1>2, <2>2 DEF Passages
  <2> QED BY <1>1, <2>3 DEF n
<1>5. sync.base \in 0..tunnel /\ sync.changed = wrote
  BY <1>1 DEF Passages, LoopKnows
<1>6. CASE sync.existing[key] = sync.base
  <2>1. env' = env /\ wrote' = wrote
    BY <1>6 DEF WriteVariable
  <2>2. dirty <=> sync.changed
    BY <1>6 DEF Changed
  <2>3. UrlsAreKnown'
    BY <1>1, <1>3, <1>4, <2>1
  <2>4. LoopKnows'
    BY <1>1, <1>2, <1>4, <1>5, <1>6, <2>1, <2>2 DEF LoopKnows
  <2> QED BY <1>1, <1>4, <2>1, <2>3, <2>4 DEF BuiltUnlessTorn, DeployedUnlessTorn
<1>7. CASE sync.existing[key] # sync.base
  <2>1. env' = [env EXCEPT ![key] = sync.base] /\ wrote' = TRUE
    BY <1>7 DEF WriteVariable
  <2>2. dirty
    BY <1>7 DEF Changed
  <2>3. env' \in Stored
    BY <1>1, <1>5, <2>1 DEF Stored
  <2>4. UrlsAreKnown'
    BY <1>1, <1>3, <1>4, <2>1, <2>3
  <2>5. ASSUME NEW i \in 1..2
        PROVE  env'[Variables[i]] = IF i < sync'.next THEN sync'.base
                                                      ELSE sync'.existing[Variables[i]]
    <3>1. env[Variables[i]] = IF i < sync.next THEN sync.base ELSE sync.existing[Variables[i]]
      BY <1>1 DEF LoopKnows
    <3>2. CASE i = sync.next
      <4>1. env'[key] = sync.base
        BY <1>1, <2>1 DEF Stored
      <4> QED BY <1>1, <1>4, <3>2, <4>1
    <3>3. CASE i # sync.next
      <4>1. Variables[i] # key
        BY <1>1, <3>3, TwoVariables
      <4>2. env'[Variables[i]] = env[Variables[i]]
        BY <2>1, <4>1, TwoVariables DEF Stored
      <4>3. i < sync'.next <=> i < sync.next
        BY <1>1, <1>4, <3>3
      <4> QED BY <1>4, <3>1, <4>2, <4>3
    <3> QED BY <3>2, <3>3
  <2>6. LoopKnows'
    BY <1>2, <1>4, <2>1, <2>2, <2>5 DEF LoopKnows
  <2> QED BY <1>1, <1>4, <2>1, <2>4, <2>6 DEF BuiltUnlessTorn, DeployedUnlessTorn
<1> QED BY <1>6, <1>7

LEMMA RedeployKeepsInv ==
    ASSUME TunnelInv, Redeploy
    PROVE  TunnelInv'
<1> USE DEF TunnelInv, UrlsAreKnown
<1>1. /\ sync.at = "write" /\ sync.next = 3 /\ sync' = Asleep /\ confirmed' = sync.base
      /\ UNCHANGED <<tunnel, env, wrote>>
  BY TwoVariables DEF Redeploy, Passages
<1>2. \A k \in Keys : env[k] = sync.base
  BY <1>1, TwoVariables DEF LoopKnows
<1>3. Stored' = Stored /\ Passages' = Passages /\ Asleep \in Passages /\ sync.base \in 0..tunnel
  BY <1>1, AsleepTyped DEF Stored, Passages
<1>4. /\ sync.changed => deployed' = env /\ torn' = FALSE
      /\ ~sync.changed => deployed' = deployed /\ torn' = torn /\ ~wrote
  BY <1>1 DEF Redeploy, LoopKnows
<1>5. deployed' \in Stored /\ torn' \in BOOLEAN
  BY <1>4
<1>6. UrlsAreKnown'
  BY <1>1, <1>3, <1>5
<1>7. LoopKnows'
  BY <1>1 DEF LoopKnows, Asleep
<1>8. ~torn' => env' = deployed'
  BY <1>1, <1>4 DEF BuiltUnlessTorn
<1>9. DeployedUnlessTorn'
  BY <1>1, <1>2, <1>8 DEF DeployedUnlessTorn
<1> QED BY <1>6, <1>7, <1>8, <1>9 DEF BuiltUnlessTorn

LEMMA TunnelStep == TunnelInv /\ [TunnelNext]_tunnelVars => TunnelInv'
<1> SUFFICES ASSUME TunnelInv, [TunnelNext]_tunnelVars PROVE TunnelInv'
  OBVIOUS
<1> USE DEF TunnelInv
<1>1. CASE TunnelStarts
  <2>1. UrlsAreKnown'
    BY <1>1, StartsKeepTypes
  <2>2. confirmed' # tunnel'
    BY <1>1 DEF TunnelStarts, UrlsAreKnown
  <2> QED BY <1>1, <2>1, <2>2
          DEF TunnelStarts, LoopKnows, BuiltUnlessTorn, DeployedUnlessTorn
<1>2. CASE TunnelAnswers
  BY <1>2
     DEF TunnelAnswers, UrlsAreKnown, Stored, Passages, LoopKnows, BuiltUnlessTorn,
         DeployedUnlessTorn
<1>3. CASE StartRun
  <2>1. /\ sync' = [Asleep EXCEPT !.at = "wait", !.base = tunnel] /\ sync.at = "asleep"
        /\ wrote' = FALSE
        /\ UNCHANGED <<tunnel, env, deployed, torn, confirmed>>
    BY <1>3 DEF StartRun
  <2>2. Stored' = Stored /\ Passages' = Passages
    BY <2>1 DEF Stored, Passages
  <2>3. tunnel \in 0..tunnel /\ Asleep \in Passages
    BY AsleepTyped DEF UrlsAreKnown
  <2>4. sync' \in Passages /\ sync'.at = "wait" /\ sync'.next = 1 /\ sync'.changed = FALSE
    BY <2>1, <2>3 DEF Asleep, Passages
  <2>5. UrlsAreKnown'
    BY <2>1, <2>2, <2>4 DEF UrlsAreKnown
  <2>6. LoopKnows'
    BY <2>1, <2>4 DEF LoopKnows
  <2>7. BuiltUnlessTorn'
    BY <2>1 DEF BuiltUnlessTorn
  <2> QED BY <2>1, <2>5, <2>6, <2>7 DEF DeployedUnlessTorn
<1>4. CASE ProbeAnswered
  <2>1. /\ sync' = [sync EXCEPT !.at = "list"] /\ sync.at = "wait"
        /\ UNCHANGED <<tunnel, env, deployed, wrote, torn, confirmed>>
    BY <1>4 DEF ProbeAnswered
  <2>2. UrlsAreKnown'
    BY <2>1 DEF UrlsAreKnown, Stored, Passages
  <2> QED BY <2>1, <2>2
          DEF UrlsAreKnown, Passages, LoopKnows, BuiltUnlessTorn, DeployedUnlessTorn
<1>5. CASE ListVariables
  <2>1. /\ sync' = [sync EXCEPT !.at = "write", !.existing = env]
        /\ UNCHANGED <<tunnel, env, deployed, wrote, torn, confirmed>> /\ sync.at = "list"
    BY <1>5 DEF ListVariables
  <2>2. /\ sync'.at = "write" /\ sync'.existing = env /\ sync'.next = 1 /\ wrote = FALSE
        /\ sync'.changed = FALSE
    BY <2>1 DEF UrlsAreKnown, Passages, LoopKnows
  <2>3. UrlsAreKnown'
    <3>1. Stored' = Stored /\ Passages' = Passages
      BY <2>1 DEF Stored, Passages
    <3>2. sync' \in Passages
      BY <2>1 DEF UrlsAreKnown, Passages
    <3> QED BY <2>1, <3>1, <3>2 DEF UrlsAreKnown
  <2>4. LoopKnows'
    <3>1. sync'.changed = wrote'
      BY <2>1, <2>2
    <3>2. \A i \in 1..2 : ~(i < sync'.next) /\ env'[Variables[i]] = sync'.existing[Variables[i]]
      BY <2>1, <2>2
    <3> QED BY <2>2, <3>1, <3>2 DEF LoopKnows
  <2>5. BuiltUnlessTorn' /\ DeployedUnlessTorn'
    BY <2>1, <2>2 DEF BuiltUnlessTorn, DeployedUnlessTorn
  <2> QED BY <2>3, <2>4, <2>5
<1>6. CASE WriteVariable
  BY <1>6, WriteKeepsInv
<1>7. CASE Redeploy
  BY <1>7, RedeployKeepsInv
<1>8. CASE Interrupted
  <2>1. sync' = Asleep /\ torn' = (torn \/ wrote) /\ UNCHANGED <<tunnel, env, deployed, wrote, confirmed>>
    BY <1>8 DEF Interrupted
  <2>2. UrlsAreKnown'
    BY <2>1, AsleepTyped DEF UrlsAreKnown, Stored, Passages
  <2> QED BY <2>1, <2>2 DEF UrlsAreKnown, LoopKnows, BuiltUnlessTorn, DeployedUnlessTorn, Asleep
<1>9. CASE UNCHANGED tunnelVars
  BY <1>9 DEF tunnelVars, UrlsAreKnown, Stored, Passages, LoopKnows, BuiltUnlessTorn, DeployedUnlessTorn
<1> QED BY <1>1, <1>2, <1>3, <1>4, <1>5, <1>6, <1>7, <1>8, <1>9 DEF TunnelNext

\* A run that exits with 0 for the tunnel that is up leaves a frontend built for it, however
\* often the tunnel restarted and whichever requests failed, unless a run was cut off after a
\* write (scripts/tunnel_url_sync.py).
THEOREM SyncedBuilds == TunnelSpec => []DeployedUnlessTorn
<1>1. TunnelInv => DeployedUnlessTorn
  BY DEF TunnelInv
<1> QED BY TunnelInitInv, TunnelStep, <1>1, PTL DEF TunnelSpec

-----------------------------------------------------------------------------
(***************************************************************************)
(* The cache of embeddings                                                 *)
(***************************************************************************)
Points == {"idle", "move", "embed", "measure", "evict", "retrieve"}

\* The threads that have inserted and may yet evict.
Inserted == {t \in Searchers : searcher[t].at \in {"measure", "evict"}}

CacheTyped ==
    /\ cache \in Seq(Questions)
    /\ searcher \in [Searchers -> [at : Points, on : Questions \cup {"none"}]]
    /\ \A t \in Searchers : searcher[t].at \in {"move", "embed"} => searcher[t].on \in Questions

CacheInv == CacheTyped /\ CacheIsBounded

LEMMA InsertedIsFinite == IsFiniteSet(Inserted) /\ Cardinality(Inserted) \in Nat
<1>1. Inserted \subseteq Searchers
  BY DEF Inserted
<1> QED BY <1>1, FS_Subset, FS_CardinalityType, RetrievalAssumption

LEMMA MovedQuestions ==
    ASSUME CacheInv, NEW i \in DOMAIN cache
    PROVE  /\ Moved(i) \in Seq(Questions)
           /\ Len(Moved(i)) = Len(cache)
           /\ \A j, k \in DOMAIN Moved(i) : Moved(i)[j] = Moved(i)[k] => j = k
<1> DEFINE n == Len(cache)
<1>1. n \in Nat /\ i \in 1..n /\ DOMAIN cache = 1..n /\ \A k \in 1..n : cache[k] \in Questions
  BY DEF CacheInv, CacheTyped
<1>2. \A j, k \in 1..n : cache[j] = cache[k] => j = k
  BY <1>1 DEF CacheInv, CacheIsBounded
<1> HIDE DEF n
<1>3. \A k \in 1..n : Moved(i)[k] = IF k < i THEN cache[k] ELSE IF k < n THEN cache[k + 1] ELSE cache[i]
  BY <1>1 DEF Moved, n
<1>4. Moved(i) \in [1..n -> Questions]
  BY <1>1 DEF Moved, n
<1>5. Moved(i) \in Seq(Questions) /\ Len(Moved(i)) = n /\ DOMAIN Moved(i) = 1..n
  BY <1>1, <1>4
<1>6. \A j, k \in 1..n : Moved(i)[j] = Moved(i)[k] => j = k
  BY <1>1, <1>2, <1>3
<1> QED BY <1>5, <1>6 DEF n

\* A step that leaves the cache and who inserted as they are.
LEMMA NothingInserted ==
    ASSUME CacheInv, CacheTyped', cache' = cache, Inserted' = Inserted
    PROVE  CacheInv'
BY DEF CacheInv, CacheIsBounded, Inserted

LEMMA CacheStep == CacheInv /\ [RetrievalNext]_retrievalVars => CacheInv'
<1> SUFFICES ASSUME CacheInv, [RetrievalNext]_retrievalVars PROVE CacheInv'
  OBVIOUS
<1> USE DEF CacheInv
<1>1. /\ Len(cache) \in Nat /\ Cardinality(Inserted) \in Nat /\ IsFiniteSet(Inserted)
      /\ CacheMax \in Nat /\ Cardinality(Inserted') \in Nat
      /\ Len(cache) <= CacheMax + Cardinality(Inserted)
  <2>1. Inserted' \subseteq Searchers
    BY DEF Inserted
  <2>2. Cardinality(Inserted') \in Nat
    BY <2>1, FS_Subset, FS_CardinalityType, RetrievalAssumption
  <2> QED BY <2>2, InsertedIsFinite, RetrievalAssumption DEF CacheTyped, CacheIsBounded, Inserted
<1>2. ASSUME NEW t \in Searchers, NEW q \in Questions, SearchFor(t, q) PROVE CacheInv'
  <2>1. CacheTyped'
    BY <1>2 DEF SearchFor, CacheTyped, Points
  <2>2. Inserted' = Inserted
    BY <1>2 DEF SearchFor, CacheTyped, Inserted
  <2> QED BY <1>2, <2>1, <2>2, NothingInserted DEF SearchFor
<1>3. ASSUME NEW t \in Searchers, MoveToEnd(t) PROVE CacheInv'
  <2>1. CASE cache' = cache
    <3>1. CacheTyped'
      BY <1>3, <2>1 DEF MoveToEnd, GoOn, CacheTyped, Points
    <3>2. Inserted' = Inserted
      BY <1>3 DEF MoveToEnd, GoOn, CacheTyped, Inserted
    <3> QED BY <2>1, <3>1, <3>2, NothingInserted
  <2>2. ASSUME NEW i \in DOMAIN cache, cache' = Moved(i), GoOn(t, "retrieve") PROVE CacheInv'
    <3>1. cache' \in Seq(Questions) /\ Len(cache') = Len(cache)
      BY <2>2, MovedQuestions
    <3>2. CacheTyped'
      BY <2>2, <3>1 DEF GoOn, CacheTyped, Points
    <3>3. Inserted' = Inserted
      BY <1>3, <2>2 DEF MoveToEnd, GoOn, CacheTyped, Inserted
    <3> QED BY <1>1, <2>2, <3>1, <3>2, <3>3, MovedQuestions DEF CacheIsBounded, Inserted
  <2> QED BY <1>3, <2>1, <2>2 DEF MoveToEnd
<1>4. ASSUME NEW t \in Searchers, Embed(t) PROVE CacheInv'
  <2>1. searcher[t].at = "embed" /\ searcher[t].on \in Questions
    BY <1>4 DEF Embed, CacheTyped
  <2>2. CASE GoOn(t, "idle") /\ cache' = cache
    <3>1. CacheTyped'
      BY <2>2 DEF GoOn, CacheTyped, Points
    <3>2. Inserted' = Inserted
      BY <2>1, <2>2 DEF GoOn, CacheTyped, Inserted
    <3> QED BY <2>2, <3>1, <3>2, NothingInserted
  <2>3. CASE /\ cache' = IF Cached(searcher[t].on) THEN cache ELSE Append(cache, searcher[t].on)
             /\ GoOn(t, "measure")
    <3>1. CacheTyped'
      BY <2>1, <2>3 DEF GoOn, CacheTyped, Points
    <3>2. Inserted' = Inserted \cup {t} /\ t \notin Inserted
      BY <2>1, <2>3 DEF GoOn, CacheTyped, Inserted
    <3>3. Cardinality(Inserted') = Cardinality(Inserted) + 1
      BY <1>1, <3>2, FS_AddElement
    <3>4. CASE Cached(searcher[t].on)
      BY <1>1, <2>3, <3>1, <3>3, <3>4 DEF CacheIsBounded, Inserted
    <3>5. CASE ~Cached(searcher[t].on)
      <4>1. cache' = Append(cache, searcher[t].on) /\ cache \in Seq(Questions)
        BY <2>3, <3>5 DEF CacheTyped
      <4>2. \A i, k \in DOMAIN cache' : cache'[i] = cache'[k] => i = k
        BY <2>1, <3>5, <4>1 DEF Cached, CacheIsBounded
      <4>3. Len(cache') = Len(cache) + 1
        BY <2>1, <4>1
      <4> QED BY <1>1, <3>1, <3>3, <4>2, <4>3 DEF CacheIsBounded, Inserted
    <3> QED BY <3>4, <3>5
  <2> QED BY <1>4, <2>2, <2>3 DEF Embed
<1>5. ASSUME NEW t \in Searchers, Measure(t) PROVE CacheInv'
  <2>1. CacheTyped' /\ cache' = cache
    BY <1>5 DEF Measure, GoOn, CacheTyped, Points
  <2>2. CASE Overfull
    <3>1. Inserted' = Inserted
      BY <1>5, <2>2 DEF Measure, GoOn, CacheTyped, Inserted
    <3> QED BY <2>1, <3>1, NothingInserted
  <2>3. CASE ~Overfull
    <3>1. Len(cache) <= CacheMax
      BY <1>1, <2>3 DEF Overfull
    <3> QED BY <1>1, <2>1, <3>1 DEF CacheIsBounded, Inserted
  <2> QED BY <2>2, <2>3
<1>6. ASSUME NEW t \in Searchers, Evict(t) PROVE CacheInv'
  <2>1. t \in Inserted
    BY <1>6 DEF Evict, Inserted
  <2>2. CacheTyped'
    <3>1. cache' \in Seq(Questions)
      BY <1>6 DEF Evict, CacheTyped
    <3>2. PICK point \in {"retrieve", "idle"} : GoOn(t, point)
      BY <1>6 DEF Evict
    <3> QED BY <3>1, <3>2 DEF GoOn, CacheTyped, Points
  <2>3. Inserted' = Inserted \ {t}
    BY <1>6 DEF Evict, GoOn, CacheTyped, Inserted
  <2>4. Cardinality(Inserted') = Cardinality(Inserted) - 1
    BY <1>1, <2>1, <2>3, FS_RemoveElement
  <2>5. CASE cache = <<>>
    <3>1. cache' = <<>>
      BY <1>6, <2>5 DEF Evict
    <3> QED BY <1>1, <2>2, <3>1 DEF CacheIsBounded, Inserted
  <2>6. CASE cache # <<>>
    <3>1. cache' = Tail(cache) /\ cache \in Seq(Questions)
      BY <1>6, <2>6 DEF Evict, CacheTyped
    <3>2. /\ Len(cache') = Len(cache) - 1
          /\ \A i \in DOMAIN cache' : cache'[i] = cache[i + 1] /\ i + 1 \in DOMAIN cache
      <4>1. /\ cache' \in Seq(Questions) /\ Len(cache') = Len(cache) - 1
            /\ \A i \in 1..Len(cache') : cache'[i] = cache[i + 1]
        BY <2>6, <3>1, HeadTailProperties
      <4> QED BY <1>1, <3>1, <4>1
    <3>3. \A i, k \in DOMAIN cache' : cache'[i] = cache'[k] => i = k
      <4>1. \A i \in DOMAIN cache' : i \in Int
        BY <3>1
      <4> QED BY <3>2, <4>1 DEF CacheIsBounded
    <3> QED BY <1>1, <2>2, <2>4, <3>2, <3>3 DEF CacheIsBounded, Inserted
  <2> QED BY <2>5, <2>6
<1>7. ASSUME NEW t \in Searchers, Retrieve(t) PROVE CacheInv'
  <2>1. CacheTyped' /\ cache' = cache
    BY <1>7 DEF Retrieve, GoOn, CacheTyped, Points
  <2>2. Inserted' = Inserted
    BY <1>7 DEF Retrieve, GoOn, CacheTyped, Inserted
  <2> QED BY <2>1, <2>2, NothingInserted
<1>8. CASE UNCHANGED retrievalVars
  BY <1>8 DEF retrievalVars, CacheTyped, CacheIsBounded
<1> QED BY <1>2, <1>3, <1>4, <1>5, <1>6, <1>7, <1>8 DEF RetrievalNext

LEMMA CacheInit == RetrievalInit => CacheInv
<1> SUFFICES ASSUME RetrievalInit PROVE CacheInv
  OBVIOUS
<1>1. CacheTyped
  BY DEF RetrievalInit, CacheTyped, Points
<1>2. Len(cache) = 0 /\ DOMAIN cache = {}
  BY DEF RetrievalInit
<1> QED BY <1>1, <1>2, InsertedIsFinite, RetrievalAssumption DEF CacheInv, CacheIsBounded, Inserted

\* However many threads search, no question is cached twice, and every question above the
\* limit has a thread that will look whether to evict
\* (services/semantic/retrieval_service.py).
THEOREM BoundedCache == RetrievalSpec => []CacheIsBounded
<1>1. CacheInv => CacheIsBounded
  BY DEF CacheInv
<1> QED BY CacheInit, CacheStep, <1>1, PTL DEF RetrievalSpec

-----------------------------------------------------------------------------
(***************************************************************************)
(* The types of every part                                                 *)
(***************************************************************************)
LEMMA SettingsTypes == SettingsSpec => []SettingsTypeOK
<1>1. SettingsInit => edits \in 0..MaxEdits BY DatasourcesAssumption DEF SettingsInit
<1>2. edits \in 0..MaxEdits /\ [SettingsNext]_settingsVars => (edits \in 0..MaxEdits)'
  <2> SUFFICES ASSUME edits \in 0..MaxEdits, [SettingsNext]_settingsVars
               PROVE  edits' \in 0..MaxEdits
    OBVIOUS
  <2>1. edits' = edits \/ (edits < MaxEdits /\ edits' = edits + 1)
    BY DEF SettingsNext, settingsVars, Register, ReadRow, Refuse, WriteRow, DeleteRow, Invalidate,
           Resolve, LookUp, Store
  <2> QED BY <2>1, DatasourcesAssumption
<1>3. RowInv /\ edits \in 0..MaxEdits => SettingsTypeOK
  BY DEF RowInv, SettingsTyped, ReadsAreRows, SettingsTypeOK, Edits, Connections
<1> QED BY RowInit, RowStep, <1>1, <1>2, <1>3, PTL DEF SettingsSpec

\* No result is larger than the cap.
LEMMA ResultsAreCapped ==
    ASSUME NEW s, s.rows \in SUBSET Answers, NEW r \in Execute(s)
    PROVE  Cardinality(r.rows) <= RowCap
<1>1. PICK rows \in Returned(s) : r \in Fetched(rows)
  BY DEF Execute
<1>2. rows \in SUBSET Answers
  BY <1>1 DEF Returned
<1>3. PICK kept \in SUBSET rows :
          /\ r = [rows |-> kept, truncated |-> Cardinality(rows) > RowCap]
          /\ Cardinality(kept) = IF Cardinality(rows) > RowCap THEN RowCap ELSE Cardinality(rows)
  BY <1>1 DEF Fetched
<1>4. r.rows = kept
  <2> DEFINE beyond == Cardinality(rows) > RowCap
  <2>1. r = [rows |-> kept, truncated |-> beyond] BY <1>3
  <2> HIDE DEF beyond
  <2> QED BY <2>1
<1>5. Cardinality(rows) \in Nat /\ RowCap \in Nat
  BY <1>2, FS_Subset, FS_CardinalityType, ExecutionAssumption
<1> QED BY <1>3, <1>4, <1>5

Outcomes == {"none", "fixture", "no_result", "rejected", "failed", "over_budget", "passed",
             "mismatch"}

\* The steps at which there is a statement.
UnderWay == {"validate", "rewrite", "estimate", "narrow", "execute", "compare"}

StatementTyped ==
    /\ stmt \in Statements \cup {Blank}
    /\ step \in UnderWay => stmt \in Statements
    /\ applied \subseteq RewriteRules
    /\ Cardinality(result.rows) <= RowCap
    /\ outcome \in Outcomes

LEMMA DraftsAreStatements ==
    /\ Drafts \subseteq Statements
    /\ \A s \in Drafts : [s EXCEPT !.narrowed = TRUE] \in Statements
BY DEF Drafts, Statements

LEMMA StatementInit == ExecInit => StatementTyped
<1> SUFFICES ASSUME ExecInit PROVE StatementTyped OBVIOUS
<1>1. Cardinality(result.rows) = 0 BY FS_EmptySet DEF ExecInit, NoResult
<1> QED BY <1>1, ExecutionAssumption DEF ExecInit, StatementTyped, UnderWay, Outcomes

LEMMA StatementStep == StatementTyped /\ ExecInv /\ [ExecNext]_execVars => StatementTyped'
<1> SUFFICES ASSUME StatementTyped, ExecInv, [ExecNext]_execVars PROVE StatementTyped' OBVIOUS
<1> USE DEF StatementTyped, UnderWay, Outcomes
<1>1. CASE RunReference
  <2>1. UNCHANGED <<stmt, applied, result>> /\ step' \in {"draft", "done"}
        /\ outcome' \in {outcome, "fixture"}
    BY <1>1 DEF RunReference, End
  <2> QED BY <2>1
<1>2. CASE Draft
  <2>1. UNCHANGED <<applied, result>> /\ outcome' \in {outcome, "no_result"} BY <1>2 DEF Draft, End
  <2>2. stmt' \in Drafts \/ (stmt' = stmt /\ step' = "done") BY <1>2 DEF Draft, End
  <2> QED BY <2>1, <2>2, DraftsAreStatements
<1>3. CASE ApplyRule
  <2>1. UNCHANGED <<applied, result>> /\ outcome' \in {outcome, "rejected"} /\ step = "validate"
    BY <1>3 DEF ApplyRule, End
  <2>2. stmt' = stmt \/ stmt' = [stmt EXCEPT !.limit = RowCap]
    BY <1>3 DEF ApplyRule, Repaired
  <2>3. RowCap \in NoLimit..(RowCap + 1) BY ExecutionAssumption DEF NoLimit
  <2>4. stmt' \in Statements BY <2>1, <2>2, <2>3 DEF Statements
  <2> QED BY <2>1, <2>4
<1>4. CASE Qualify
  BY <1>4 DEF Qualify, End
<1>5. CASE Rewrite
  <2>1. UNCHANGED <<outcome, result>> /\ step = "rewrite" /\ applied' \subseteq RewriteRules
    BY <1>5 DEF Rewrite, RewriteRules
  <2>2. stmt' = stmt \/ \E c \in Costs : stmt' = [stmt EXCEPT !.cost = c]
    BY <1>5 DEF Rewrite
  <2>3. stmt' \in Statements BY <2>1, <2>2 DEF Statements
  <2> QED BY <2>1, <2>3
<1>6. CASE Estimate
  BY <1>6 DEF Estimate, End
<1>7. CASE Narrow
  <2>1. UNCHANGED <<applied, result>> /\ outcome' \in {outcome, "over_budget", "failed"}
        /\ step = "narrow"
    BY <1>7 DEF Narrow, Gate, End
  <2>2. stmt' = stmt \/ \E s \in Drafts : stmt' = [s EXCEPT !.narrowed = TRUE]
    BY <1>7 DEF Narrow
  <2> QED BY <2>1, <2>2, DraftsAreStatements
<1>8. CASE RunStatement
  <2>1. UNCHANGED <<applied, stmt>> /\ outcome' \in {outcome, "failed"} /\ step = "execute"
    BY <1>8 DEF RunStatement, End
  <2>2. stmt.rows \in SUBSET Answers BY <2>1 DEF Statements
  <2>3. Cardinality(result'.rows) <= RowCap BY <1>8, <2>2, ResultsAreCapped DEF RunStatement
  <2> QED BY <2>1, <2>3
<1>9. CASE Compare
  BY <1>9 DEF Compare, End
<1>10. CASE UNCHANGED execVars
  BY <1>10 DEF execVars
<1> QED
  BY <1>1, <1>2, <1>3, <1>4, <1>5, <1>6, <1>7, <1>8, <1>9, <1>10 DEF ExecNext

LEMMA ExecTypes == ExecSpec => []ExecTypeOK
<1>1. ExecInv /\ StatementTyped => ExecTypeOK
  BY RulesInOrder DEF ExecInv, CaseTyped, StatementTyped, Outcomes, ExecTypeOK
<1> QED BY <1>1, ExecInitInv, ExecStep, StatementInit, StatementStep, PTL DEF ExecSpec

TunnelLimits == tunnel \in 1..MaxStarts /\ serving \in BOOLEAN /\ runs \in 0..MaxRuns

LEMMA TunnelTypes == TunnelSpec => []TunnelTypeOK
<1>1. TunnelInit => TunnelLimits
  <2> SUFFICES ASSUME TunnelInit PROVE TunnelLimits OBVIOUS
  <2>1. tunnel = 1 /\ serving = FALSE /\ runs = 0 BY DEF TunnelInit
  <2>2. serving \in BOOLEAN BY <2>1
  <2>3. 1 \in 1..MaxStarts /\ 0 \in 0..MaxRuns BY TunnelAssumption
  <2> QED BY <2>1, <2>2, <2>3 DEF TunnelLimits
<1>2. TunnelLimits /\ [TunnelNext]_tunnelVars => TunnelLimits'
  <2> SUFFICES ASSUME TunnelLimits, [TunnelNext]_tunnelVars PROVE TunnelLimits' OBVIOUS
  <2>1. tunnel' = tunnel \/ (tunnel < MaxStarts /\ tunnel' = tunnel + 1)
    BY DEF TunnelNext, tunnelVars, TunnelStarts, TunnelAnswers, StartRun, ProbeAnswered,
           ListVariables, WriteVariable, Redeploy, Interrupted
  <2>2. runs' = runs \/ (runs < MaxRuns /\ runs' = runs + 1)
    BY DEF TunnelNext, tunnelVars, TunnelStarts, TunnelAnswers, StartRun, ProbeAnswered,
           ListVariables, WriteVariable, Redeploy, Interrupted
  <2>3. serving' \in {serving, TRUE, FALSE}
    BY DEF TunnelNext, tunnelVars, TunnelStarts, TunnelAnswers, StartRun, ProbeAnswered,
           ListVariables, WriteVariable, Redeploy, Interrupted
  <2>4. serving' \in BOOLEAN BY <2>3 DEF TunnelLimits
  <2> QED BY <2>1, <2>2, <2>4, TunnelAssumption DEF TunnelLimits
<1>3. TunnelInv /\ TunnelLimits => TunnelTypeOK
  <2> SUFFICES ASSUME TunnelInv, TunnelLimits PROVE TunnelTypeOK OBVIOUS
  <2>1. 0..tunnel \subseteq 0..MaxStarts BY TunnelAssumption DEF TunnelLimits
  <2>2. env \in [Keys -> 0..MaxStarts] /\ deployed \in [Keys -> 0..MaxStarts]
    BY <2>1 DEF TunnelInv, UrlsAreKnown, Stored
  <2>3. /\ sync.at \in {"asleep", "wait", "list", "write"} /\ sync.base \in 0..MaxStarts
        /\ sync.next \in 1..3 /\ confirmed \in 0..MaxStarts
    BY <2>1 DEF TunnelInv, UrlsAreKnown, Passages
  <2>4. sync.next \in 1..(Len(Variables) + 1) BY <2>3, TwoVariables
  <2> QED BY <2>2, <2>3, <2>4 DEF TunnelLimits, TunnelTypeOK
<1> QED BY <1>1, <1>2, <1>3, TunnelInitInv, TunnelStep, PTL DEF TunnelSpec

LEMMA RetrievalTypes == RetrievalSpec => []RetrievalTypeOK
<1>1. RetrievalInit => searches \in 0..MaxSearches BY RetrievalAssumption DEF RetrievalInit
<1>2. searches \in 0..MaxSearches /\ [RetrievalNext]_retrievalVars
      => (searches \in 0..MaxSearches)'
  <2> SUFFICES ASSUME searches \in 0..MaxSearches, [RetrievalNext]_retrievalVars
               PROVE  searches' \in 0..MaxSearches
    OBVIOUS
  <2>1. searches' = searches \/ (searches < MaxSearches /\ searches' = searches + 1)
    BY DEF RetrievalNext, retrievalVars, SearchFor, MoveToEnd, Embed, Measure, Evict, Retrieve
  <2> QED BY <2>1, RetrievalAssumption
<1>3. CacheInv /\ searches \in 0..MaxSearches => RetrievalTypeOK
  BY DEF CacheInv, CacheTyped, RetrievalTypeOK, Points
<1> QED BY <1>1, <1>2, <1>3, CacheInit, CacheStep, PTL DEF RetrievalSpec

-----------------------------------------------------------------------------
(***************************************************************************)
(* The backend, as the run explores it                                     *)
(***************************************************************************)
LEMMA PartsStep ==
    [Next]_allVars =>
        /\ [StoreNext]_storeVars /\ [SettingsNext]_settingsVars /\ [ExecNext]_execVars
        /\ [TunnelNext]_tunnelVars /\ [RetrievalNext]_retrievalVars
<1> SUFFICES ASSUME [Next]_allVars
             PROVE  /\ [StoreNext]_storeVars /\ [SettingsNext]_settingsVars /\ [ExecNext]_execVars
                    /\ [TunnelNext]_tunnelVars /\ [RetrievalNext]_retrievalVars
  OBVIOUS
<1>1. CASE StoreAlone /\ StoreNext BY <1>1 DEF StoreAlone
<1>2. CASE SettingsAlone /\ SettingsNext BY <1>2 DEF SettingsAlone
<1>3. CASE ExecAlone /\ ExecNext BY <1>3 DEF ExecAlone
<1>4. CASE TunnelAlone /\ TunnelNext BY <1>4 DEF TunnelAlone
<1>5. CASE RetrievalAlone /\ RetrievalNext BY <1>5 DEF RetrievalAlone
<1>6. CASE UNCHANGED allVars BY <1>6 DEF allVars
<1> QED BY <1>1, <1>2, <1>3, <1>4, <1>5, <1>6 DEF Next

\* What the run explores is these five parts, so that the theorems above are about it.
LEMMA BackendIsItsParts ==
    Spec => StoreSpec /\ SettingsSpec /\ ExecSpec /\ TunnelSpec /\ RetrievalSpec
<1>1. Init => StoreInit /\ SettingsInit /\ ExecInit /\ TunnelInit /\ RetrievalInit BY DEF Init
<1> QED
  BY <1>1, PartsStep, PTL
     DEF Spec, StoreSpec, SettingsSpec, ExecSpec, TunnelSpec, RetrievalSpec

\* What the store, the settings, a case, the tunnel's job and the cache hold is always of its
\* kind, and no result is larger than the cap.
THEOREM BackendTypeCorrect == Spec => []BackendTypeOK
<1>1. StoreTypeOK /\ SettingsTypeOK /\ ExecTypeOK /\ TunnelTypeOK /\ RetrievalTypeOK
          => BackendTypeOK
  BY DEF BackendTypeOK
<1> QED BY <1>1, BackendIsItsParts, StoreTypeCorrect, SettingsTypes, ExecTypes, TunnelTypes,
           RetrievalTypes, PTL
=============================================================================
