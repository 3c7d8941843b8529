--------------------------- MODULE SemanticStore ---------------------------
(***************************************************************************)
(* What the stages of an ingestion leave behind: the catalog, enrichment,  *)
(* search documents, join paths and domain members in Postgres, and the    *)
(* projected graph in Neo4j. One datasource. The job's stages are run by   *)
(* IngestionService, in the order of STEP_SEQUENCE; the genql commands run *)
(* the same services on their own and add or remove schemas at any time.   *)
(***************************************************************************)
EXTENDS Naturals, FiniteSets

CONSTANTS
    Objects,        \* the warehouse's tables
    SchemaOf,       \* the schema of each
    Refs,           \* foreign keys: pairs of objects of one schema
    Overlaid,       \* the objects the YAML overlay describes
    Hinted,         \* the pairs its join hints name
    MaxSlices, MaxChanges, MaxFailures    \* bounds: slices begun, schemas removed or added, failures

Schemas == {SchemaOf[o] : o \in Objects}
Pairs == {p \in Objects \X Objects : p[1] # p[2] /\ SchemaOf[p[1]] = SchemaOf[p[2]]}
In(s) == {o \in Objects : SchemaOf[o] = s}

ASSUME StoreAssumption ==
    /\ SchemaOf \in [Objects -> Schemas]
    /\ Refs \subseteq Pairs /\ Overlaid \subseteq Objects /\ Hinted \subseteq Pairs

(* STEP_SEQUENCE, and the steps of discovery for one schema.               *)
REGISTER == 1  DISCOVER == 2  OVERLAY == 3  COMPILE == 4  ANALYZE == 5  DOMAINS == 6
Sessions == {"leiden", "fastrp", "mine"}

VARIABLES
    registered, stamped,    \* genql_schema: its rows, and those with last_discovered_at
    catalogued,             \* genql_object
    text,                   \* genql_object_enrichment: whose description, if any
    vectored,               \* ... and which rows have an embedding
    docs,                   \* genql_search_document: the description each was compiled from
    paths,                  \* genql_join_path: the provenance of each pair's row
    members,                \* genql_domain_member
    nodes, edges,           \* Neo4j: the projection
    embedded, clustered,    \* ... and the nodes with an embedding, with a domain_cluster
    projected,              \* the GDS catalog holds this datasource's named graph
    run,                    \* the stages being run, or the end of the last run
    slices, changes, failures     \* what the bounds count
storeVars == <<registered, stamped, catalogued, text, vectored, docs, paths, members, nodes, edges,
               embedded, clustered, projected, run, slices, changes, failures>>
catalogVars == <<catalogued, text, vectored>>
graphVars == <<nodes, edges, embedded, clustered, projected>>
limits == <<slices, changes, failures>>

Texts == {"none", "bare", "llm", "yaml"}
Idle == [from |-> 0, to |-> 0, at |-> 0, phase |-> "", on |-> "", scope |-> {},
         left |-> {}, clean |-> {}, added |-> {}, end |-> "none"]

StoreTypeOK ==
    /\ registered \subseteq Schemas /\ stamped \subseteq registered
    /\ catalogued \subseteq Objects /\ vectored \subseteq Objects /\ members \subseteq Objects
    /\ text \in [Objects -> Texts] /\ docs \in [Objects -> Texts]
    /\ paths \in [Pairs -> {"none", "discovered", "yaml"}]
    /\ nodes \subseteq Objects /\ embedded \subseteq nodes /\ clustered \subseteq nodes
    /\ edges \subseteq nodes \X nodes /\ projected \in BOOLEAN
    /\ run.at \in 0..6 /\ run.clean \subseteq Schemas

StoreInit ==
    /\ registered = {} /\ stamped = {} /\ catalogued = {} /\ vectored = {} /\ members = {}
    /\ text = [o \in Objects |-> "none"] /\ docs = [o \in Objects |-> "none"]
    /\ paths = [p \in Pairs |-> "none"]
    /\ nodes = {} /\ edges = {} /\ embedded = {} /\ clustered = {} /\ projected = FALSE
    /\ run = Idle /\ slices = 0 /\ changes = 0 /\ failures = 0

Running(k) == run.end = "running" /\ run.at = k
Phase(k, p) == Running(k) /\ run.phase = p

(* Where stage k starts.                                                   *)
Opening(k) == CASE k = DISCOVER -> "scope" [] k = COMPILE -> "read" [] k = ANALYZE -> "leiden"
                [] k = DOMAINS -> "fuse" [] OTHER -> ""

(* A stage that returns hands over to the next of the slice, if any.       *)
Advance(r) ==
    IF r.at = r.to THEN [r EXCEPT !.end = "succeeded"]
                   ELSE [r EXCEPT !.at = @ + 1, !.phase = Opening(r.at + 1)]
(* A stage that raises ends the run.                                       *)
StageFails == /\ failures < MaxFailures /\ failures' = failures + 1 /\ run' = [run EXCEPT !.end = "failed"]
          /\ UNCHANGED <<slices, changes>>
Raised == run' = [run EXCEPT !.end = "failed"] /\ UNCHANGED limits

(* A job runs the whole sequence, its retry the sequence from the step     *)
(* that failed, a command (discover, overlay, compile, analyze, domains)   *)
(* one stage.                                                              *)
BeginRun ==
    /\ run.end # "running" /\ slices < MaxSlices /\ slices' = slices + 1
    /\ \E slice \in {<<REGISTER, DOMAINS>>} \cup {<<k, k>> : k \in DISCOVER..DOMAINS}
                    \cup (IF run.end = "failed" /\ run.to = DOMAINS THEN {<<run.at, DOMAINS>>} ELSE {}) :
        run' = [from |-> slice[1], to |-> slice[2], at |-> slice[1], phase |-> Opening(slice[1]),
                on |-> "", scope |-> {}, left |-> {}, clean |-> {}, added |-> {},
                end |-> "running"]
    /\ UNCHANGED <<registered, stamped, catalogVars, docs, paths, members, graphVars, changes, failures>>

(* _register_schemas: those the warehouse shows to be empty are skipped.   *)
RegisterSchemas ==
    /\ Running(REGISTER)
    /\ \/ \E visible \in (SUBSET Schemas) \ {{}} :
            /\ visible = Schemas \/ failures < MaxFailures
            /\ failures' = IF visible = Schemas THEN failures ELSE failures + 1
            /\ registered' = registered \cup visible
            /\ run' = Advance(run) /\ UNCHANGED <<slices, changes>>
       \/ StageFails /\ UNCHANGED registered
    /\ UNCHANGED <<stamped, catalogVars, docs, paths, members, graphVars>>

(* _discover takes the enabled registrations as they stand now.            *)
ScopeDiscovery ==
    /\ Phase(DISCOVER, "scope") /\ registered # {}
    /\ run' = [run EXCEPT !.phase = "next", !.scope = registered, !.clean = {}]
    /\ UNCHANGED <<registered, stamped, catalogVars, docs, paths, members, graphVars, limits>>
NothingRegistered ==
    /\ Phase(DISCOVER, "scope") /\ registered = {} /\ Raised
    /\ UNCHANGED <<registered, stamped, catalogVars, docs, paths, members, graphVars>>

(* One schema's steps, in the order they are registered. A GenqlError of a *)
(* step leaves the schema where it is and the scope goes on to the next.   *)
NextSchema ==
    /\ Phase(DISCOVER, "next")
    /\ \E s \in run.scope :
        run' = [run EXCEPT !.phase = "scan", !.on = s, !.scope = @ \ {s}]
    /\ UNCHANGED <<registered, stamped, catalogVars, docs, paths, members, graphVars, limits>>

Left(r) == [r EXCEPT !.phase = "next", !.on = "", !.left = {}]
SchemaFails ==
    /\ Running(DISCOVER) /\ run.phase \in {"scan", "project", "profile", "stamp"}
    /\ failures < MaxFailures /\ failures' = failures + 1 /\ run' = Left(run)
    /\ UNCHANGED <<registered, stamped, catalogVars, docs, paths, members, graphVars, slices, changes>>

(* A row whose schema is gone fails a foreign key: not a GenqlError, so it *)
(* ends the whole stage.                                                   *)
SchemaIsGone ==
    /\ Running(DISCOVER) /\ run.phase \in {"scan", "profile", "stamp"}
    /\ run.on \notin registered /\ Raised
    /\ UNCHANGED <<registered, stamped, catalogVars, docs, paths, members, graphVars>>

ScanCatalog ==
    /\ Phase(DISCOVER, "scan") /\ run.on \in registered
    /\ catalogued' = catalogued \cup In(run.on)
    /\ run' = [run EXCEPT !.phase = "project"]
    /\ UNCHANGED <<registered, stamped, text, vectored, docs, paths, members, graphVars, limits>>

(* Mutant of Projection: what is read replaces what was projected.         *)
ProjectionReplacing(read, into) == read

(* MERGE: what is projected already stays, in the catalog or not.          *)
Projection(read, into) == into \cup read
ProjectSchema ==
    /\ Phase(DISCOVER, "project")
    /\ LET objects == catalogued \cap In(run.on) IN
        /\ nodes' = Projection(objects, nodes)
        /\ edges' = edges \cup {r \in Refs : r[1] \in objects /\ r[2] \in nodes'}
        /\ run' = [run EXCEPT !.phase = "profile", !.left = objects]
    /\ UNCHANGED <<registered, stamped, catalogVars, docs, paths, members, embedded, clustered,
                   projected, limits>>

(* One model call and one write per object; the row is overwritten.        *)
ProfileObject ==
    /\ Phase(DISCOVER, "profile") /\ run.on \in registered
    /\ \E o \in run.left :
        /\ text' = [text EXCEPT ![o] = "llm"] /\ vectored' = vectored \cup {o}
        /\ run' = [run EXCEPT !.left = @ \ {o}]
    /\ UNCHANGED <<registered, stamped, catalogued, docs, paths, members, graphVars, limits>>
ProfilingEnds ==
    /\ Phase(DISCOVER, "profile") /\ run.left = {} /\ run' = [run EXCEPT !.phase = "stamp"]
    /\ UNCHANGED <<registered, stamped, catalogVars, docs, paths, members, graphVars, limits>>

(* synthetic_ambiguity_log, which nothing here reads, then mark_discovered.*)
StampSchema ==
    /\ Phase(DISCOVER, "stamp") /\ run.on \in registered
    /\ stamped' = stamped \cup {run.on}
    /\ run' = [Left(run) EXCEPT !.clean = @ \cup {run.on}]
    /\ UNCHANGED <<registered, catalogVars, docs, paths, members, graphVars, limits>>
DiscoveryEnds ==
    /\ Phase(DISCOVER, "next") /\ run.scope = {}
    /\ IF run.clean = {} THEN Raised ELSE run' = Advance(run) /\ UNCHANGED limits
    /\ UNCHANGED <<registered, stamped, catalogVars, docs, paths, members, graphVars>>

(* Mutant of Prevailing: the overlay fills in what is missing only.        *)
PrevailingIfMissing(o) == IF o \in Overlaid /\ text[o] = "none" THEN "yaml" ELSE text[o]

(* The overlay's value wins over the stored one; the embedding is kept.    *)
Prevailing(o) == IF o \in Overlaid THEN "yaml" ELSE text[o]
Describable == {o \in Overlaid : SchemaOf[o] \in registered}
HintRows == {h \in Hinted : SchemaOf[h[1]] \in registered}
ApplyOverlay ==
    /\ Running(OVERLAY) /\ Describable = Overlaid /\ HintRows = Hinted
    /\ text' = [o \in Objects |-> Prevailing(o)]
    /\ paths' = [p \in Pairs |-> IF p \in Hinted THEN "yaml" ELSE paths[p]]
    /\ run' = Advance(run)
    /\ UNCHANGED <<registered, stamped, catalogued, vectored, docs, members, graphVars, limits>>
(* A write per object: a failure, or a schema that is not registered,      *)
(* leaves those before it written and the hints not.                       *)
OverlayFails ==
    /\ Running(OVERLAY)
    /\ \E written \in SUBSET Describable : text' = [o \in Objects |-> IF o \in written THEN Prevailing(o) ELSE text[o]]
    /\ IF Describable = Overlaid /\ HintRows = Hinted THEN StageFails ELSE Raised
    /\ UNCHANGED <<registered, stamped, catalogued, vectored, docs, paths, members, graphVars>>

(* compile: read, embed outside a transaction, upsert in one.              *)
Content(o) == IF text[o] = "none" THEN "bare" ELSE text[o]
ReadForIndex ==
    /\ Phase(COMPILE, "read")
    /\ run' = [run EXCEPT !.phase = "write", !.left = {o \in catalogued : SchemaOf[o] \in registered}]
    /\ UNCHANGED <<registered, stamped, catalogVars, docs, paths, members, graphVars, limits>>
WriteIndex ==
    /\ Phase(COMPILE, "write") /\ \A o \in run.left : SchemaOf[o] \in registered
    /\ docs' = [o \in Objects |-> IF o \in run.left THEN Content(o) ELSE docs[o]]
    /\ run' = Advance([run EXCEPT !.left = {}])
    /\ UNCHANGED <<registered, stamped, catalogVars, paths, members, graphVars, limits>>
CompileFails ==
    /\ Running(COMPILE)
    /\ IF \E o \in run.left : SchemaOf[o] \notin registered THEN Raised ELSE StageFails
    /\ UNCHANGED <<registered, stamped, catalogVars, docs, paths, members, graphVars>>

(* Leiden, FastRP and the miner each work in a GraphCatalogSession: it     *)
(* projects the named graph, which fails while one of that name is there,  *)
(* and drops it on leaving.                                                *)
OpenSession ==
    /\ Running(ANALYZE) /\ run.phase \in Sessions /\ run.on = ""
    /\ IF projected THEN Raised /\ UNCHANGED projected
       ELSE projected' = TRUE /\ run' = [run EXCEPT !.on = "open"] /\ UNCHANGED limits
    /\ UNCHANGED <<registered, stamped, catalogVars, docs, paths, members, nodes, edges, embedded, clustered>>
(* toUndirected raises inside __enter__, and __exit__ is never called.     *)
EnterFails ==
    /\ Running(ANALYZE) /\ run.on = "open" /\ StageFails
    /\ UNCHANGED <<registered, stamped, catalogVars, docs, paths, members, graphVars>>
AlgorithmFails ==
    /\ Running(ANALYZE) /\ run.on = "open" /\ StageFails /\ projected' = FALSE
    /\ UNCHANGED <<registered, stamped, catalogVars, docs, paths, members, nodes, edges, embedded, clustered>>

Adjacent(a, b) == <<a, b>> \in edges \/ <<b, a>> \in edges
(* Pairs with no direct edge and a path of at most max_hops, which is more *)
(* than any path between three objects.                                    *)
Mineable == {p \in Pairs : /\ p[1] \in nodes /\ p[2] \in nodes /\ ~Adjacent(p[1], p[2])
                           /\ \E m \in nodes : Adjacent(p[1], m) /\ Adjacent(m, p[2])}
(* Each unordered pair once, in the order Neo4j returned the objects.      *)
MinedSets == {m \in SUBSET Mineable : \A p \in Mineable : p \in m <=> <<p[2], p[1]>> \notin m}
AfterSession == [run EXCEPT !.on = "", !.phase = CASE run.phase = "leiden" -> "fastrp" [] run.phase = "fastrp" -> "mine"
                                         [] OTHER -> "paths"]
CloseSession ==
    /\ Running(ANALYZE) /\ run.on = "open" /\ projected' = FALSE
    /\ run' = AfterSession
    /\ embedded' = IF run.phase = "fastrp" THEN nodes ELSE embedded
    /\ UNCHANGED <<registered, stamped, catalogVars, docs, paths, members, nodes, edges, clustered, limits>>
WritePaths ==
    /\ Phase(ANALYZE, "paths")
    /\ IF \E p \in Mineable : SchemaOf[p[1]] \notin registered
       THEN Raised /\ UNCHANGED paths
       ELSE /\ run' = Advance(run) /\ UNCHANGED limits
            /\ \E mined \in MinedSets : paths' = [p \in Pairs |-> IF p \in mined THEN "discovered" ELSE paths[p]]
    /\ UNCHANGED <<registered, stamped, catalogVars, docs, members, graphVars>>

(* Clusters over the nodes with both embeddings, written to the graph, and *)
(* read back with whatever domain_cluster other nodes still have.          *)
Shared == embedded \cap vectored
FuseEmbeddings ==
    /\ Phase(DOMAINS, "fuse")
    /\ IF Shared = {} THEN Raised /\ UNCHANGED clustered
       ELSE clustered' = clustered \cup Shared /\ run' = [run EXCEPT !.phase = "members"] /\ UNCHANGED limits
    /\ UNCHANGED <<registered, stamped, catalogVars, docs, paths, members, nodes, edges, embedded, projected>>
(* Members are upserted: those of earlier runs stay.                       *)
Joined == members \cup clustered
WriteMembers ==
    /\ Phase(DOMAINS, "members")
    /\ IF \E o \in clustered : SchemaOf[o] \notin registered
       THEN Raised /\ UNCHANGED members
       ELSE members' = Joined /\ run' = Advance(run) /\ UNCHANGED limits
    /\ UNCHANGED <<registered, stamped, catalogVars, docs, paths, graphVars>>
DomainsFail ==
    /\ Running(DOMAINS) /\ StageFails
    /\ UNCHANGED <<registered, stamped, catalogVars, docs, paths, members, graphVars>>

(* The process is killed: what is written stays, in the GDS catalog too.   *)
Killed ==
    /\ run.end = "running" /\ StageFails
    /\ UNCHANGED <<registered, stamped, catalogVars, docs, paths, members, graphVars>>

(* genql schema add and remove. A registration takes its rows with it;     *)
(* Neo4j knows nothing of it.                                              *)
AddSchema(s) ==
    /\ changes < MaxChanges /\ changes' = changes + 1 /\ s \notin registered
    /\ registered' = registered \cup {s} /\ run' = [run EXCEPT !.added = @ \cup {s}]
    /\ UNCHANGED <<stamped, catalogVars, docs, paths, members, graphVars, slices, failures>>
RemoveSchema(s) ==
    /\ changes < MaxChanges /\ changes' = changes + 1 /\ s \in registered
    /\ registered' = registered \ {s} /\ stamped' = stamped \ {s}
    /\ catalogued' = catalogued \ In(s) /\ vectored' = vectored \ In(s) /\ members' = members \ In(s)
    /\ text' = [o \in Objects |-> IF o \in In(s) THEN "none" ELSE text[o]]
    /\ docs' = [o \in Objects |-> IF o \in In(s) THEN "none" ELSE docs[o]]
    /\ paths' = [p \in Pairs |-> IF p[1] \in In(s) THEN "none" ELSE paths[p]]
    /\ UNCHANGED <<graphVars, run, slices, failures>>

(* genql graph rebuild: every registered schema, from Postgres alone.      *)
Rebuild ==
    /\ run.end # "running" /\ changes < MaxChanges /\ changes' = changes + 1
    /\ LET objects == {o \in catalogued : SchemaOf[o] \in registered} IN
        /\ nodes' = Projection(objects, nodes)
        /\ edges' = edges \cup {r \in Refs : r[1] \in objects /\ r[2] \in nodes'}
    /\ UNCHANGED <<registered, stamped, catalogVars, docs, paths, members, embedded, clustered, projected,
                   run, slices, failures>>

StoreNext ==
    \/ BeginRun \/ RegisterSchemas \/ ScopeDiscovery \/ NothingRegistered \/ NextSchema \/ SchemaFails
    \/ SchemaIsGone \/ ScanCatalog \/ ProjectSchema \/ ProfileObject \/ ProfilingEnds \/ StampSchema
    \/ DiscoveryEnds \/ ApplyOverlay \/ OverlayFails \/ ReadForIndex \/ WriteIndex \/ CompileFails
    \/ OpenSession \/ EnterFails \/ AlgorithmFails \/ CloseSession \/ WritePaths
    \/ FuseEmbeddings \/ WriteMembers \/ DomainsFail \/ Killed \/ Rebuild
    \/ \E s \in Schemas : AddSchema(s) \/ RemoveSchema(s)
StoreSpec == StoreInit /\ [][StoreNext]_storeVars

-----------------------------------------------------------------------------
(* A run of the whole sequence from discovery on that succeeded: every     *)
(* object of a schema it discovered cleanly, and that is still registered, *)
(* is indexed under the description that wins, the overlay's where it has  *)
(* one, and belongs to a domain - through failures, retries, commands and  *)
(* removals. (A schema removed and added again while it is being scanned   *)
(* can be stamped with nothing in it: run.added.)                          *)
Winning(o) == IF o \in Overlaid THEN "yaml" ELSE "llm"
SuccessIsServed ==
    run.end = "succeeded" /\ run.from \in {REGISTER, DISCOVER} /\ run.to = DOMAINS =>
        \A o \in Objects : SchemaOf[o] \in (run.clean \cap stamped) \ run.added => docs[o] = Winning(o) /\ o \in members
=============================================================================
