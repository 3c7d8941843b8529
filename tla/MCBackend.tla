----------------------------- MODULE MCBackend ------------------------------
(***************************************************************************)
(* What is behind the API, each on its own: the semantic store, the        *)
(* settings of a datasource, the execution of a statement, the job that    *)
(* follows the tunnel, and the cache of embeddings.  The initial state     *)
(* picks the part that runs; the others stay as they are.                  *)
(***************************************************************************)
EXTENDS SemanticStore, Datasources, MCGuardedExecution, TunnelSync, RetrievalCache, TLC

CONSTANTS o1, o2, o3, p1, A, B, e1, e2

\* Requests are alike; every property here is an invariant.
BackendSymmetry == Permutations({e1, e2})

\* Three tables of one schema, two of them joined through the third, and one of another.
MCObjects == {o1, o2, o3, p1}
MCSchemaOf == [o \in MCObjects |-> IF o = p1 THEN B ELSE A]
MCRefs == {<<o1, o2>>, <<o3, o2>>}
MCHinted == {<<o1, o3>>}

Patch(f, v) == [g \in Fields |-> IF g = f THEN v ELSE Unmentioned]
\* A new host, a whole endpoint, a variable, a cleared variable.
MCPatches ==
    {Patch("host", "b"), Patch("env", "b"), Patch("env", ""),
     [Patch("host", "b") EXCEPT !["database"] = "b"]}

VARIABLE part

allVars == <<part, storeVars, settingsVars, execVars, tunnelVars, retrievalVars>>

Init ==
    /\ part \in {"store", "settings", "execution", "tunnel", "retrieval"}
    /\ StoreInit /\ SettingsInit /\ ExecInit /\ TunnelInit /\ RetrievalInit
    /\ part # "tunnel" => env = Nothing

\* The part that runs, and what it leaves alone.
StoreAlone ==
    part = "store" /\ UNCHANGED <<part, settingsVars, execVars, tunnelVars, retrievalVars>>
SettingsAlone ==
    part = "settings" /\ UNCHANGED <<part, storeVars, execVars, tunnelVars, retrievalVars>>
ExecAlone ==
    part = "execution" /\ UNCHANGED <<part, storeVars, settingsVars, tunnelVars, retrievalVars>>
TunnelAlone ==
    part = "tunnel" /\ UNCHANGED <<part, storeVars, settingsVars, execVars, retrievalVars>>
RetrievalAlone ==
    part = "retrieval" /\ UNCHANGED <<part, storeVars, settingsVars, execVars, tunnelVars>>

Next ==
    \/ StoreAlone /\ StoreNext
    \/ SettingsAlone /\ SettingsNext
    \/ ExecAlone /\ ExecNext
    \/ TunnelAlone /\ TunnelNext
    \/ RetrievalAlone /\ RetrievalNext

Spec == Init /\ [][Next]_allVars

\* A bound of the run: every trait and cost of a statement beside one reference, and every
\* reference beside statements the rules have nothing against.
PlainReference == reference.columns = <<"n">> /\ reference.rows = {r1} /\ reference.limit = NoLimit
CleanStatement == stmt.has = {} /\ stmt.cost <= Budget /\ ~stmt.narrowed /\ applied = {}
OneVariety ==
    part = "execution" /\ step \notin {"reference", "draft"} =>
        CleanStatement \/ (PlainReference /\ stmt.columns = <<"n">>)

BackendTypeOK == StoreTypeOK /\ SettingsTypeOK /\ ExecTypeOK /\ TunnelTypeOK /\ RetrievalTypeOK
=============================================================================
