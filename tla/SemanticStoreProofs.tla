-------------------------- MODULE SemanticStoreProofs --------------------------
(***************************************************************************)
(* Proof that a run that succeeded serves what it discovered.  The         *)
(* invariant says, for every stage, what the stages before it have left of *)
(* an object whose schema the run has scanned cleanly and nobody has       *)
(* removed since.                                                          *)
(***************************************************************************)
EXTENDS SemanticStore, TLAPS

Phases == {"", "scope", "next", "scan", "project", "profile", "stamp", "read", "write",
           "leiden", "fastrp", "mine", "paths", "fuse", "members"}
Runs == [from : 0..6, to : 0..6, at : 0..6, phase : Phases, on : Schemas \cup {"", "open"},
         scope : SUBSET Schemas, left : SUBSET Objects, clean : SUBSET Schemas,
         added : SUBSET Schemas, end : {"none", "running", "succeeded", "failed"}]

Underway == run.end = "running"

StoreTyped ==
    /\ run \in Runs
    /\ run.end # "none" => run.at \in 1..run.to
    /\ Underway /\ run.at = ANALYZE => run.phase \in Sessions \cup {"paths"}
    /\ registered \in SUBSET Schemas /\ stamped \in SUBSET registered
    /\ catalogued \in SUBSET Objects
    /\ text \in [Objects -> Texts]

\* A run counts the schemas it discovered from none.
CleanSlate == Underway /\ (run.at = REGISTER \/ run.phase = "scope") => run.clean = {}

\* The schema being discovered, unless it was removed meanwhile: what is done for it is
\* done for all its objects.
ScanInOrder ==
    /\ Underway /\ run.at = DISCOVER
    /\ run.phase \in {"project", "profile", "stamp"}
    /\ run.on \in registered \ run.added
    => /\ In(run.on) \subseteq catalogued
       /\ run.phase \in {"profile", "stamp"} =>
             /\ In(run.on) \subseteq nodes
             /\ \A o \in In(run.on) \ run.left : o \in vectored /\ text[o] = "llm"
       /\ run.phase = "stamp" => run.left = {}

Scoped(o) == SchemaOf[o] \in (run.clean \cap stamped) \ run.added

\* What the stages before this one have left of an object.
Progress(o) ==
    /\ o \in catalogued /\ o \in nodes /\ o \in vectored
    /\ run.at \in {DISCOVER, OVERLAY} => text[o] = "llm"
    /\ run.at = COMPILE => text[o] = Winning(o)
    /\ run.at = COMPILE /\ run.phase = "write" => o \in run.left
    /\ run.at \in {ANALYZE, DOMAINS} => docs[o] = Winning(o)
    /\ run.at = ANALYZE /\ run.phase \in {"mine", "paths"} => o \in embedded
    /\ run.at = DOMAINS => o \in embedded
    /\ run.at = DOMAINS /\ run.phase = "members" => o \in clustered

ProgressMade == Underway => \A o \in Objects : Scoped(o) => Progress(o)

StoreInv == StoreTyped /\ CleanSlate /\ ScanInOrder /\ ProgressMade /\ SuccessIsServed

LEMMA StoreInitInv == StoreInit => StoreInv
<1> SUFFICES ASSUME StoreInit PROVE StoreInv
  OBVIOUS
<1>1. run \in Runs
  <2>1. "" \in Phases /\ 0 \in 0..6 /\ "" \in Schemas \cup {"", "open"}
        /\ "none" \in {"none", "running", "succeeded", "failed"}
    BY DEF Phases
  <2> QED BY <2>1 DEF StoreInit, Idle, Runs
<1>2. run.end = "none"
  BY DEF StoreInit, Idle
<1>3. StoreTyped
  BY <1>1, <1>2 DEF StoreInit, StoreTyped, Underway, Texts
<1> QED
  BY <1>2, <1>3 DEF StoreInv, Underway, CleanSlate, ScanInOrder, ProgressMade, SuccessIsServed

\* A run that has ended without success owes nothing.
LEMMA FailedKeeps ==
    ASSUME StoreTyped', run'.end = "failed"
    PROVE  StoreInv'
BY DEF StoreInv, Underway, CleanSlate, ScanInOrder, ProgressMade, SuccessIsServed

LEMMA FailureKeeps ==
    ASSUME StoreInv, Underway, run' = [run EXCEPT !.end = "failed"],
           registered' \in SUBSET Schemas, stamped' \in SUBSET registered',
           catalogued' \in SUBSET Objects, text' \in [Objects -> Texts]
    PROVE  StoreInv'
<1>1. run' \in Runs /\ run'.end = "failed" /\ run'.at = run.at /\ run'.to = run.to
  BY DEF StoreInv, StoreTyped, Runs
<1>2. StoreTyped'
  BY <1>1 DEF StoreInv, StoreTyped, Underway
<1> QED BY <1>1, <1>2, FailedKeeps

\* Where the stages with phases start.
LEMMA Openings ==
    /\ Opening(DISCOVER) = "scope" /\ Opening(COMPILE) = "read"
    /\ Opening(ANALYZE) = "leiden" /\ Opening(DOMAINS) = "fuse"
    /\ \A k \in 1..6 : Opening(k) = "scope" => k = DISCOVER
BY DEF Opening, DISCOVER, COMPILE, ANALYZE, DOMAINS

\* The fields of a run whose stage hands over.
LEMMA Advanced ==
    ASSUME NEW r \in Runs, r.at \in 1..r.to
    PROVE  /\ Advance(r) \in Runs
           /\ Advance(r).from = r.from /\ Advance(r).to = r.to
           /\ Advance(r).clean = r.clean /\ Advance(r).added = r.added
           /\ r.at = r.to => Advance(r).at = r.at /\ Advance(r).end = "succeeded"
           /\ r.at # r.to =>
                 /\ Advance(r).at = r.at + 1 /\ Advance(r).end = r.end
                 /\ Advance(r).phase = Opening(r.at + 1)
<1> r.to \in 0..6
  BY DEF Runs
<1> r.at \in 1..6
  OBVIOUS
<1>1. CASE r.at = r.to
  BY <1>1 DEF Advance, Runs
<1>2. CASE r.at # r.to
  <2> DEFINE n == r.at + 1
             opening == Opening(n)
  <2>1. n \in 0..6
    BY <1>2
  <2>2. opening \in Phases
    BY <2>1 DEF Opening, Phases
  <2>3. Advance(r) = [r EXCEPT !.at = n, !.phase = opening]
    BY <1>2 DEF Advance
  <2> HIDE DEF n, opening
  <2>4. /\ Advance(r) \in Runs /\ Advance(r).from = r.from /\ Advance(r).to = r.to
        /\ Advance(r).clean = r.clean /\ Advance(r).added = r.added
        /\ Advance(r).at = n /\ Advance(r).end = r.end /\ Advance(r).phase = opening
    BY <2>1, <2>2, <2>3 DEF Runs
  <2> QED BY <1>2, <2>4 DEF n, opening
<1> QED BY <1>1, <1>2

\* A stage that hands over passes on what the next one finds, or ends the run.
LEMMA AdvanceKeeps ==
    ASSUME StoreInv, Underway,
           NEW r \in Runs, run' = Advance(r),
           r.end = "running" /\ r.at = run.at /\ r.to = run.to /\ r.from = run.from,
           r.clean = run.clean /\ r.added = run.added,
           registered' \in SUBSET Schemas, stamped' \in SUBSET registered',
           catalogued' \in SUBSET Objects, text' \in [Objects -> Texts],
           run.at = REGISTER \/ stamped' = stamped,
           \A o \in Objects : run.at # REGISTER /\ Scoped(o) =>
               IF run.at = run.to THEN run.to = DOMAINS => docs'[o] = Winning(o) /\ o \in members'
                                  ELSE Progress(o)'
    PROVE  StoreInv'
<1>1. /\ run.at \in 1..run.to /\ run.to \in 0..6
      /\ run.at = REGISTER => run.clean = {}
  BY DEF StoreInv, StoreTyped, CleanSlate, Runs, Underway
<1>2. /\ run' \in Runs /\ run'.clean = run.clean /\ run'.added = run.added
      /\ run'.from = run.from /\ run'.to = run.to
      /\ run.at = run.to => run'.at = run.at /\ run'.end = "succeeded"
      /\ run.at # run.to => /\ run'.at = run.at + 1 /\ run'.end = "running"
                            /\ run'.phase = Opening(run.at + 1)
  BY <1>1, Advanced
<1>3. \A o \in Objects : Scoped(o)' => run.at # REGISTER /\ Scoped(o)
  BY <1>1, <1>2 DEF Scoped
<1>4. StoreTyped'
  <2>1. run.at + 1 = ANALYZE => Opening(run.at + 1) \in Sessions
    BY Openings DEF Sessions
  <2> QED BY <1>1, <1>2, <2>1 DEF StoreTyped, Underway
<1>5. CASE run.at = run.to
  <2>1. run'.end = "succeeded"
    BY <1>2, <1>5
  <2>2. SuccessIsServed'
    BY <1>2, <1>3, <1>5 DEF SuccessIsServed, Scoped
  <2> QED BY <1>4, <2>1, <2>2 DEF StoreInv, Underway, CleanSlate, ScanInOrder, ProgressMade
<1>6. CASE run.at # run.to
  <2>1. run'.end = "running" /\ run'.at = run.at + 1 /\ run'.phase = Opening(run.at + 1)
    BY <1>2, <1>6
  <2>2. CleanSlate'
    <3>1. run.at \in 1..6 /\ run'.at # REGISTER
      BY <1>1, <2>1 DEF REGISTER
    <3>2. Opening(run.at + 1) = "scope" => run.at = REGISTER
      BY <3>1 DEF Opening, REGISTER, DISCOVER, COMPILE, ANALYZE, DOMAINS
    <3> QED BY <1>1, <1>2, <2>1, <3>1, <3>2 DEF CleanSlate
  <2>3. ScanInOrder'
    BY <1>1, <2>1 DEF ScanInOrder, Opening, DISCOVER
  <2>4. ProgressMade'
    BY <1>3, <1>6 DEF ProgressMade
  <2>5. SuccessIsServed'
    BY <2>1 DEF SuccessIsServed
  <2> QED BY <1>4, <2>2, <2>3, <2>4, <2>5 DEF StoreInv
<1> QED BY <1>5, <1>6

\* A step within a stage that takes nothing from what the earlier ones left.
LEMMA WithinStageKeeps ==
    ASSUME StoreInv, Underway, run' \in Runs,
           run'.end = "running" /\ run'.at = run.at /\ run'.to = run.to,
           run'.clean = run.clean /\ run'.added = run.added,
           UNCHANGED <<registered, stamped, catalogued, text, vectored, docs, nodes>>,
           run.at = ANALYZE => run'.phase \in Sessions \cup {"paths"},
           CleanSlate', ScanInOrder',
           \A o \in Objects : Scoped(o) =>
               /\ run.at = COMPILE /\ run'.phase = "write" => o \in run'.left
               /\ run.at = ANALYZE /\ run'.phase \in {"mine", "paths"} => o \in embedded'
               /\ run.at = DOMAINS => o \in embedded'
               /\ run.at = DOMAINS /\ run'.phase = "members" => o \in clustered'
    PROVE  StoreInv'
<1>1. StoreTyped'
  BY DEF StoreInv, StoreTyped, Underway
<1>2. \A o \in Objects : Scoped(o)' => Scoped(o) /\ Progress(o)
  BY DEF Scoped, StoreInv, ProgressMade
<1>3. ProgressMade'
  BY <1>2 DEF ProgressMade, Progress, DISCOVER, OVERLAY, COMPILE, ANALYZE, DOMAINS
<1>4. SuccessIsServed'
  BY DEF SuccessIsServed
<1> QED BY <1>1, <1>3, <1>4 DEF StoreInv

LEMMA BeginsKeeps == ASSUME StoreInv, BeginRun PROVE StoreInv'
<1>1. PICK first \in 1..6, last \in 1..6 :
          /\ first \in 1..last
          /\ run' = [from |-> first, to |-> last, at |-> first, phase |-> Opening(first),
                     on |-> "", scope |-> {}, left |-> {}, clean |-> {}, added |-> {},
                     end |-> "running"]
  <2> DEFINE Slice(i, k) == [from |-> i, to |-> k, at |-> i, phase |-> Opening(i),
                             on |-> "", scope |-> {}, left |-> {}, clean |-> {}, added |-> {},
                             end |-> "running"]
             Begun == \E i, k \in 1..6 : i \in 1..k /\ run' = Slice(i, k)
  <2>1. PICK slice \in {<<REGISTER, DOMAINS>>} \cup {<<k, k>> : k \in DISCOVER..DOMAINS}
                  \cup (IF run.end = "failed" /\ run.to = DOMAINS THEN {<<run.at, DOMAINS>>} ELSE {}) :
            run' = Slice(slice[1], slice[2])
    BY DEF BeginRun
  <2>2. slice[1] \in 1..6 /\ slice[2] \in 1..6 /\ slice[1] \in 1..slice[2]
    <3>1. CASE slice = <<REGISTER, DOMAINS>>
      BY <3>1 DEF REGISTER, DOMAINS
    <3>2. CASE \E k \in DISCOVER..DOMAINS : slice = <<k, k>>
      BY <3>2 DEF DISCOVER, DOMAINS
    <3>3. CASE run.end = "failed" /\ run.to = DOMAINS /\ slice = <<run.at, DOMAINS>>
      <4>1. run.at \in 1..run.to /\ run.to = 6
        BY <2>1, <3>3 DEF StoreInv, StoreTyped, DOMAINS
      <4>2. slice[1] = run.at /\ slice[2] = 6
        BY <3>3 DEF DOMAINS
      <4> QED BY <4>1, <4>2
    <3> QED BY <2>1, <3>1, <3>2, <3>3
  <2> QED BY <2>1, <2>2
<1>2. Opening(first) \in Phases
  BY DEF Opening, Phases
<1>3. /\ run' \in Runs /\ run'.end = "running" /\ run'.at = first /\ run'.to = last
      /\ run'.clean = {} /\ run'.phase = Opening(first)
  <2> DEFINE opening == Opening(first)
  <2> HIDE DEF opening
  <2>1. opening \in Phases
    BY <1>2 DEF opening
  <2>2. run' = [from |-> first, to |-> last, at |-> first, phase |-> opening,
                on |-> "", scope |-> {}, left |-> {}, clean |-> {}, added |-> {},
                end |-> "running"]
    BY <1>1 DEF opening
  <2>3. first \in 0..6 /\ last \in 0..6
    OBVIOUS
  <2>4. run' \in Runs
    BY <2>1, <2>2, <2>3 DEF Runs
  <2> QED BY <2>2, <2>4 DEF opening
<1>4. StoreTyped'
  <2>1. UNCHANGED <<registered, stamped, catalogued, text>>
    BY DEF BeginRun, catalogVars
  <2>2. run'.at \in 1..run'.to
    BY <1>1, <1>3
  <2>3. first = ANALYZE => Opening(first) \in Sessions
    BY Openings DEF Sessions
  <2> QED BY <1>3, <2>1, <2>2, <2>3 DEF StoreInv, StoreTyped
<1>5. ScanInOrder'
  BY <1>3 DEF ScanInOrder, Opening, DISCOVER
<1>6. \A o \in Objects : ~Scoped(o)'
  BY <1>3 DEF Scoped
<1> QED BY <1>3, <1>4, <1>5, <1>6 DEF StoreInv, CleanSlate, ProgressMade, SuccessIsServed

LEMMA ScanKeeps ==
    ASSUME StoreInv, ScanCatalog \/ ProjectSchema \/ ProfileObject
    PROVE  StoreInv'
<1>1. Underway /\ run.at = DISCOVER /\ run \in Runs /\ run.clean \in SUBSET Schemas
      /\ run.left \in SUBSET Objects
  BY DEF ScanCatalog, ProjectSchema, ProfileObject, Phase, Running, Underway, StoreInv,
     StoreTyped, Runs
<1>2. \A o \in Objects : Scoped(o) => Progress(o)
  BY <1>1 DEF StoreInv, ProgressMade
<1>3. StoreTyped
  BY DEF StoreInv
<1>4. CASE ScanCatalog
  <2>1. /\ run' = [run EXCEPT !.phase = "project"]
        /\ catalogued' = catalogued \cup In(run.on)
        /\ UNCHANGED <<registered, stamped, text, vectored, docs, members, nodes, embedded, clustered>>
    BY <1>4 DEF ScanCatalog, graphVars
  <2>2. /\ run' \in Runs /\ run'.phase = "project" /\ run'.on = run.on /\ run'.end = run.end
        /\ run'.at = run.at /\ run'.to = run.to /\ run'.clean = run.clean /\ run'.added = run.added
    BY <1>1, <2>1 DEF Runs, Phases
  <2>3. StoreTyped'
    BY <1>1, <1>3, <2>1, <2>2 DEF StoreTyped, Underway, In, DISCOVER, ANALYZE
  <2>4. \A o \in Objects : Scoped(o)' => Progress(o)'
    BY <1>1, <1>2, <2>1, <2>2
       DEF Scoped, Progress, DISCOVER, OVERLAY, COMPILE, ANALYZE, DOMAINS
  <2>5. ScanInOrder'
    BY <2>1, <2>2 DEF ScanInOrder
  <2> QED BY <1>1, <2>2, <2>3, <2>4, <2>5
          DEF StoreInv, CleanSlate, ProgressMade, SuccessIsServed, Underway, REGISTER, DISCOVER
<1>5. CASE ProjectSchema
  <2> DEFINE objects == catalogued \cap In(run.on)
  <2>1. /\ run' = [run EXCEPT !.phase = "profile", !.left = objects]
        /\ nodes' = nodes \cup objects /\ run.phase = "project"
        /\ UNCHANGED <<registered, stamped, catalogued, text, vectored, docs, members, embedded, clustered>>
    BY <1>5 DEF ProjectSchema, Projection, catalogVars, Phase
  <2>2. objects \in SUBSET Objects
    BY DEF In
  <2> HIDE DEF objects
  <2>3. /\ run' \in Runs /\ run'.phase = "profile" /\ run'.on = run.on /\ run'.end = run.end
        /\ run'.at = run.at /\ run'.to = run.to /\ run'.clean = run.clean /\ run'.added = run.added
        /\ run'.left = objects
    BY <1>1, <2>1, <2>2 DEF Runs, Phases
  <2>4. StoreTyped'
    BY <1>1, <1>3, <2>1, <2>3 DEF StoreTyped, Underway, DISCOVER, ANALYZE
  <2>5. \A o \in Objects : Scoped(o)' => Progress(o)'
    BY <1>1, <1>2, <2>1, <2>3
       DEF Scoped, Progress, DISCOVER, OVERLAY, COMPILE, ANALYZE, DOMAINS
  <2>6. ScanInOrder'
    <3> SUFFICES ASSUME run.on \in registered \ run.added
                 PROVE  /\ In(run.on) \subseteq catalogued /\ In(run.on) \subseteq nodes'
                        /\ In(run.on) \ objects = {}
      BY <2>1, <2>3 DEF ScanInOrder
    <3>1. In(run.on) \subseteq catalogued
      BY <1>1, <2>1 DEF StoreInv, ScanInOrder
    <3> QED BY <2>1, <3>1 DEF objects
  <2> QED BY <1>1, <2>3, <2>4, <2>5, <2>6
          DEF StoreInv, CleanSlate, ProgressMade, SuccessIsServed, Underway, REGISTER, DISCOVER
<1>6. CASE ProfileObject
  <2>1. PICK o \in run.left : /\ text' = [text EXCEPT ![o] = "llm"] /\ vectored' = vectored \cup {o}
                              /\ run' = [run EXCEPT !.left = run.left \ {o}]
    BY <1>6 DEF ProfileObject
  <2>2. /\ run.phase = "profile"
        /\ UNCHANGED <<registered, stamped, catalogued, docs, members, nodes, embedded, clustered>>
    BY <1>6 DEF ProfileObject, graphVars, Phase
  <2>3. /\ run' \in Runs /\ run'.phase = run.phase /\ run'.on = run.on /\ run'.end = run.end
        /\ run'.at = run.at /\ run'.to = run.to /\ run'.clean = run.clean /\ run'.added = run.added
        /\ run'.left = run.left \ {o}
    BY <1>1, <2>1 DEF Runs
  <2>4. o \in Objects /\ text'[o] = "llm" /\ \A q \in Objects : q # o => text'[q] = text[q]
    BY <1>1, <1>3, <2>1 DEF StoreTyped
  <2>5. StoreTyped'
    BY <1>1, <1>3, <2>1, <2>2, <2>3 DEF StoreTyped, Underway, Texts, DISCOVER, ANALYZE
  <2>6. \A q \in Objects : Scoped(q)' => Progress(q)'
    BY <1>1, <1>2, <2>1, <2>2, <2>3, <2>4
       DEF Scoped, Progress, DISCOVER, OVERLAY, COMPILE, ANALYZE, DOMAINS
  <2>7. ScanInOrder'
    <3> SUFFICES ASSUME run.on \in registered \ run.added
                 PROVE  /\ In(run.on) \subseteq catalogued /\ In(run.on) \subseteq nodes
                        /\ \A q \in In(run.on) \ run'.left : q \in vectored' /\ text'[q] = "llm"
      BY <2>2, <2>3 DEF ScanInOrder
    <3>1. /\ In(run.on) \subseteq catalogued /\ In(run.on) \subseteq nodes
          /\ \A q \in In(run.on) \ run.left : q \in vectored /\ text[q] = "llm"
      BY <1>1, <2>2 DEF StoreInv, ScanInOrder
    <3> QED BY <2>1, <2>3, <2>4, <3>1 DEF In
  <2> QED BY <1>1, <2>2, <2>3, <2>5, <2>6, <2>7
          DEF StoreInv, CleanSlate, ProgressMade, SuccessIsServed, Underway, REGISTER, DISCOVER
<1> QED BY <1>4, <1>5, <1>6

LEMMA StampKeeps == ASSUME StoreInv, StampSchema PROVE StoreInv'
<1>1. /\ Underway /\ run.at = DISCOVER /\ run.phase = "stamp" /\ run.on \in registered
      /\ stamped' = stamped \cup {run.on}
      /\ UNCHANGED <<registered, catalogued, text, vectored, docs, members, nodes, embedded, clustered>>
  BY DEF StampSchema, Phase, Running, Underway, catalogVars, graphVars
<1>2. run \in Runs /\ registered \in SUBSET Schemas /\ run.on \in Schemas
  BY <1>1 DEF StoreInv, StoreTyped
<1>3. run' = [run EXCEPT !.phase = "next", !.on = "", !.left = {}, !.clean = run.clean \cup {run.on}]
  BY <1>2 DEF StampSchema, Left, Runs
<1>4. /\ run' \in Runs /\ run'.phase = "next" /\ run'.end = run.end /\ run'.at = run.at
      /\ run'.to = run.to /\ run'.clean = run.clean \cup {run.on} /\ run'.added = run.added
  BY <1>2, <1>3 DEF Runs, Phases
<1>5. StoreTyped'
  BY <1>1, <1>2, <1>4 DEF StoreInv, StoreTyped, Underway, DISCOVER, ANALYZE
<1>6. ASSUME NEW o \in Objects, Scoped(o)'
      PROVE  Progress(o)'
  <2>1. CASE Scoped(o)
    BY <1>1, <1>4, <2>1
       DEF StoreInv, ProgressMade, Progress, DISCOVER, OVERLAY, COMPILE, ANALYZE, DOMAINS
  <2>2. CASE ~Scoped(o)
    <3>1. SchemaOf[o] = run.on /\ run.on \notin run.added
      BY <1>1, <1>4, <1>6, <2>2 DEF Scoped
    <3>2. o \in In(run.on) \ run.left /\ In(run.on) \subseteq catalogued
          /\ In(run.on) \subseteq nodes /\ o \in vectored /\ text[o] = "llm"
      BY <1>1, <3>1 DEF StoreInv, ScanInOrder, In
    <3> QED BY <1>1, <1>4, <3>2 DEF Progress, DISCOVER, OVERLAY, COMPILE, ANALYZE, DOMAINS
  <2> QED BY <2>1, <2>2
<1> QED BY <1>1, <1>4, <1>5, <1>6
        DEF StoreInv, CleanSlate, ScanInOrder, ProgressMade, SuccessIsServed, Underway, REGISTER,
            DISCOVER

LEMMA RemovalKeeps == ASSUME StoreInv, NEW s \in Schemas, RemoveSchema(s) PROVE StoreInv'
<1>1. /\ registered' = registered \ {s} /\ stamped' = stamped \ {s}
      /\ catalogued' = catalogued \ In(s) /\ vectored' = vectored \ In(s)
      /\ members' = members \ In(s)
      /\ text' = [o \in Objects |-> IF o \in In(s) THEN "none" ELSE text[o]]
      /\ docs' = [o \in Objects |-> IF o \in In(s) THEN "none" ELSE docs[o]]
      /\ UNCHANGED <<nodes, embedded, clustered, run>>
  BY DEF RemoveSchema, graphVars
<1>2. StoreTyped'
  BY <1>1 DEF StoreInv, StoreTyped, Underway, Texts
<1>3. ASSUME NEW o \in Objects, SchemaOf[o] # s
      PROVE  /\ text'[o] = text[o] /\ docs'[o] = docs[o] /\ (o \in catalogued' <=> o \in catalogued)
             /\ (o \in vectored' <=> o \in vectored) /\ (o \in members' <=> o \in members)
  BY <1>1, <1>3 DEF In
<1>4. \A o \in Objects : Scoped(o)' => Scoped(o) /\ SchemaOf[o] # s
  BY <1>1 DEF Scoped
<1>5. ScanInOrder'
  <2> SUFFICES ASSUME Underway, run.at = DISCOVER, run.phase \in {"project", "profile", "stamp"},
                      run.on \in registered' \ run.added
               PROVE  /\ In(run.on) \subseteq catalogued'
                      /\ run.phase \in {"profile", "stamp"} =>
                            /\ In(run.on) \subseteq nodes'
                            /\ \A o \in In(run.on) \ run.left : o \in vectored' /\ text'[o] = "llm"
                      /\ run.phase = "stamp" => run.left = {}
    BY <1>1 DEF ScanInOrder, Underway
  <2>1. run.on \in registered \ run.added /\ run.on # s
    BY <1>1
  <2>2. \A o \in In(run.on) : o \in Objects /\ SchemaOf[o] # s
    BY <2>1 DEF In
  <2> QED BY <1>1, <1>3, <2>1, <2>2 DEF StoreInv, ScanInOrder
<1>6. ProgressMade'
  BY <1>1, <1>3, <1>4 DEF StoreInv, ProgressMade, Progress, Underway
<1>7. SuccessIsServed'
  BY <1>1, <1>3, <1>4 DEF StoreInv, SuccessIsServed, Scoped
<1> QED BY <1>1, <1>2, <1>5, <1>6, <1>7 DEF StoreInv, CleanSlate, Underway

LEMMA AdditionKeeps == ASSUME StoreInv, NEW s \in Schemas, AddSchema(s) PROVE StoreInv'
<1>1. /\ registered' = registered \cup {s} /\ run' = [run EXCEPT !.added = run.added \cup {s}]
      /\ UNCHANGED <<stamped, catalogued, text, vectored, docs, members, nodes, embedded, clustered>>
  BY DEF AddSchema, catalogVars, graphVars
<1>2. run \in Runs
  BY DEF StoreInv, StoreTyped
<1>3. /\ run' \in Runs /\ run'.end = run.end /\ run'.at = run.at /\ run'.to = run.to
      /\ run'.from = run.from /\ run'.phase = run.phase /\ run'.on = run.on /\ run'.left = run.left
      /\ run'.clean = run.clean /\ run'.added = run.added \cup {s}
  BY <1>1, <1>2 DEF Runs
<1>4. StoreTyped'
  BY <1>1, <1>3 DEF StoreInv, StoreTyped, Underway
<1>5. \A o \in Objects : Scoped(o)' => Scoped(o)
  BY <1>1, <1>3 DEF Scoped
<1>6. ScanInOrder'
  BY <1>1, <1>3 DEF StoreInv, ScanInOrder, Underway
<1>7. ProgressMade'
  BY <1>1, <1>3, <1>5 DEF StoreInv, ProgressMade, Progress, Underway
<1>8. SuccessIsServed'
  BY <1>1, <1>3, <1>5 DEF StoreInv, SuccessIsServed, Scoped
<1> QED BY <1>3, <1>4, <1>6, <1>7, <1>8 DEF StoreInv, CleanSlate, Underway

\* The graph grows between two runs, and what was served stays as it is.
LEMMA RebuildKeeps == ASSUME StoreInv, Rebuild PROVE StoreInv'
<1>1. ~Underway /\ UNCHANGED <<registered, stamped, catalogued, text, docs, members, run>>
  BY DEF Rebuild, Underway, catalogVars
<1> QED BY <1>1 DEF StoreInv, StoreTyped, CleanSlate, ScanInOrder, ProgressMade,
                    SuccessIsServed, Underway

\* The steps of discovery that only say where it is.
LEMMA DiscoveryKeeps ==
    ASSUME StoreInv, ScopeDiscovery \/ NextSchema \/ SchemaFails \/ ProfilingEnds
    PROVE  StoreInv'
<1>1. Underway /\ run.at = DISCOVER /\ run \in Runs /\ registered \in SUBSET Schemas
  BY DEF ScopeDiscovery, NextSchema, SchemaFails, ProfilingEnds, Phase, Running, Underway,
     StoreInv, StoreTyped
<1>2. UNCHANGED <<registered, stamped, catalogued, text, vectored, docs, nodes>>
  BY DEF ScopeDiscovery, NextSchema, SchemaFails, ProfilingEnds, catalogVars, graphVars
<1>3. ASSUME run' \in Runs, run'.end = run.end /\ run'.at = run.at /\ run'.to = run.to,
             run'.clean = run.clean /\ run'.added = run.added, run'.phase # "scope", ScanInOrder'
      PROVE  StoreInv'
  BY <1>1, <1>2, <1>3, WithinStageKeeps
     DEF CleanSlate, Underway, REGISTER, DISCOVER, COMPILE, ANALYZE, DOMAINS
<1>4. CASE ScopeDiscovery
  <2>1. /\ run' = [run EXCEPT !.phase = "next", !.scope = registered, !.clean = {}]
        /\ run.phase = "scope"
    BY <1>4 DEF ScopeDiscovery, Phase
  <2>2. run.clean = {}
    BY <1>1, <2>1 DEF StoreInv, CleanSlate
  <2>3. /\ run' \in Runs /\ run'.end = run.end /\ run'.at = run.at /\ run'.to = run.to
        /\ run'.clean = {} /\ run'.added = run.added /\ run'.phase = "next"
    BY <1>1, <2>1 DEF Runs, Phases
  <2> QED BY <1>3, <2>2, <2>3 DEF ScanInOrder
<1>5. CASE NextSchema
  <2>1. PICK s \in run.scope :
            run' = [run EXCEPT !.phase = "scan", !.on = s, !.scope = run.scope \ {s}]
    BY <1>5 DEF NextSchema
  <2>2. s \in Schemas /\ run.scope \in SUBSET Schemas
    BY <1>1 DEF Runs
  <2>3. /\ run' \in Runs /\ run'.end = run.end /\ run'.at = run.at /\ run'.to = run.to
        /\ run'.clean = run.clean /\ run'.added = run.added /\ run'.phase = "scan"
    BY <1>1, <2>1, <2>2 DEF Runs, Phases
  <2> QED BY <1>3, <2>3 DEF ScanInOrder
<1>6. CASE SchemaFails
  <2>1. run' = [run EXCEPT !.phase = "next", !.on = "", !.left = {}]
    BY <1>6 DEF SchemaFails, Left
  <2>2. /\ run' \in Runs /\ run'.end = run.end /\ run'.at = run.at /\ run'.to = run.to
        /\ run'.clean = run.clean /\ run'.added = run.added /\ run'.phase = "next"
    BY <1>1, <2>1 DEF Runs, Phases
  <2> QED BY <1>3, <2>2 DEF ScanInOrder
<1>7. CASE ProfilingEnds
  <2>1. run' = [run EXCEPT !.phase = "stamp"] /\ run.phase = "profile" /\ run.left = {}
    BY <1>7 DEF ProfilingEnds, Phase
  <2>2. /\ run' \in Runs /\ run'.end = run.end /\ run'.at = run.at /\ run'.to = run.to
        /\ run'.clean = run.clean /\ run'.added = run.added /\ run'.phase = "stamp"
        /\ run'.on = run.on /\ run'.left = run.left
    BY <1>1, <2>1 DEF Runs, Phases
  <2>3. ScanInOrder'
    BY <1>1, <1>2, <2>1, <2>2 DEF StoreInv, ScanInOrder, Underway
  <2> QED BY <1>3, <2>2, <2>3
<1> QED BY <1>4, <1>5, <1>6, <1>7

LEMMA RegisterKeeps == ASSUME StoreInv, RegisterSchemas PROVE StoreInv'
<1>1. Underway /\ run.at = REGISTER /\ run \in Runs /\ run.at \in 1..run.to
      /\ UNCHANGED <<stamped, catalogued, text>>
  BY DEF RegisterSchemas, Running, Underway, StoreInv, StoreTyped, catalogVars
<1>2. CASE StageFails /\ registered' = registered
  BY <1>1, <1>2, FailureKeeps DEF StageFails, StoreInv, StoreTyped
<1>3. ASSUME NEW visible \in SUBSET Schemas, registered' = registered \cup visible,
             run' = Advance(run)
      PROVE  StoreInv'
  <2>1. registered' \in SUBSET Schemas /\ stamped' \in SUBSET registered'
    BY <1>1, <1>3 DEF StoreInv, StoreTyped
  <2> QED BY <1>1, <1>3, <2>1, AdvanceKeeps DEF StoreInv, StoreTyped, Underway
<1> QED BY <1>2, <1>3 DEF RegisterSchemas

\* The stages behind discovery: each passes on what it has found, with its own part done.
LEMMA StagesKeep ==
    ASSUME StoreInv, \/ DiscoveryEnds \/ ApplyOverlay \/ WriteIndex \/ WritePaths \/ WriteMembers
    PROVE  StoreInv'
<1>1. /\ Underway /\ run \in Runs /\ run.at \in 1..run.to /\ run.at \in 2..6 /\ run.to \in 0..6
      /\ registered \in SUBSET Schemas /\ stamped \in SUBSET registered
      /\ catalogued \in SUBSET Objects /\ text \in [Objects -> Texts]
  <2>1. run.end = "running" /\ run.at \in {DISCOVER, OVERLAY, COMPILE, ANALYZE, DOMAINS}
    BY DEF DiscoveryEnds, ApplyOverlay, WriteIndex, WritePaths, WriteMembers, Phase, Running
  <2>2. run.at \in 2..6
    BY <2>1 DEF DISCOVER, OVERLAY, COMPILE, ANALYZE, DOMAINS
  <2>3. StoreTyped /\ run.to \in 0..6
    BY DEF StoreInv, StoreTyped, Runs
  <2> QED BY <2>1, <2>2, <2>3 DEF StoreTyped, Underway
<1>2. UNCHANGED <<registered, stamped, catalogued, vectored, nodes, embedded>>
  BY DEF DiscoveryEnds, ApplyOverlay, WriteIndex, WritePaths, WriteMembers, catalogVars, graphVars
<1>3. \A o \in Objects : Scoped(o) => Progress(o)
  BY <1>1 DEF StoreInv, ProgressMade
<1>4. run.at # run.to => /\ Advance(run).at = run.at + 1
                         /\ Advance(run).phase = Opening(run.at + 1)
  BY <1>1, Advanced
<1>5. ASSUME text' \in [Objects -> Texts], Raised PROVE StoreInv'
  BY <1>1, <1>2, <1>5, FailureKeeps DEF Raised
<1>6. ASSUME text' \in [Objects -> Texts], run' = Advance(run),
             \A o \in Objects : Scoped(o) =>
               IF run.at = run.to THEN run.to = DOMAINS => docs'[o] = Winning(o) /\ o \in members'
                                  ELSE Progress(o)'
      PROVE  StoreInv'
  BY <1>1, <1>2, <1>6, AdvanceKeeps DEF Underway
<1>7. CASE DiscoveryEnds
  <2>1. run.at = DISCOVER /\ text' = text /\ (run' = Advance(run) \/ Raised)
    BY <1>7 DEF DiscoveryEnds, Phase, Running, catalogVars
  <2>2. ASSUME NEW o \in Objects, Scoped(o), run.at # run.to, run' = Advance(run)
        PROVE  Progress(o)'
    <3>1. run'.at = 3
      BY <1>4, <2>1, <2>2 DEF DISCOVER
    <3> QED BY <1>2, <1>3, <2>1, <2>2, <3>1
            DEF Progress, DISCOVER, OVERLAY, COMPILE, ANALYZE, DOMAINS
  <2> QED BY <1>1, <1>5, <1>6, <2>1, <2>2 DEF DISCOVER, DOMAINS
<1>8. CASE ApplyOverlay
  <2>1. run.at = OVERLAY /\ text' = [o \in Objects |-> Prevailing(o)] /\ run' = Advance(run)
    BY <1>8 DEF ApplyOverlay, Running
  <2>2. text' \in [Objects -> Texts]
    BY <1>1, <2>1 DEF Prevailing, Texts
  <2>3. ASSUME NEW o \in Objects, Scoped(o), run.at # run.to
        PROVE  Progress(o)'
    <3>1. run'.at = 4 /\ run'.phase = "read"
      <4>1. Opening(4) = "read" /\ run.at + 1 = 4
        BY <2>1, Openings DEF OVERLAY, COMPILE
      <4> QED BY <1>4, <2>1, <2>3, <4>1
    <3>2. text'[o] = Winning(o)
      BY <1>3, <2>1, <2>3 DEF Progress, Prevailing, Winning, OVERLAY
    <3> QED BY <1>2, <1>3, <2>3, <3>1, <3>2
            DEF Progress, DISCOVER, OVERLAY, COMPILE, ANALYZE, DOMAINS
  <2> QED BY <1>6, <2>1, <2>2, <2>3 DEF OVERLAY, DOMAINS
<1>9. CASE WriteIndex
  <2> DEFINE written == [run EXCEPT !.left = {}]
  <2>1. /\ run.at = COMPILE /\ run.phase = "write" /\ text' = text /\ run' = Advance(written)
        /\ docs' = [o \in Objects |-> IF o \in run.left THEN Content(o) ELSE docs[o]]
    BY <1>9 DEF WriteIndex, Phase, Running, catalogVars
  <2>2. /\ written \in Runs /\ written.end = "running" /\ written.at = run.at
        /\ written.to = run.to /\ written.from = run.from
        /\ written.clean = run.clean /\ written.added = run.added
    BY <1>1 DEF Runs, Underway
  <2> HIDE DEF written
  <2>3. run.at # run.to => run'.at = 5 /\ run'.phase = "leiden"
    <3>1. Opening(5) = "leiden" /\ run.at + 1 = 5
      BY <2>1, Openings DEF COMPILE, ANALYZE
    <3> QED BY <1>1, <2>1, <2>2, <3>1, Advanced
  <2>4. ASSUME NEW o \in Objects, Scoped(o)
        PROVE  docs'[o] = Winning(o)
    <3>1. text[o] = Winning(o) /\ o \in run.left
      BY <1>3, <2>1, <2>4 DEF Progress
    <3> QED BY <2>1, <3>1 DEF Content, Winning
  <2>5. ASSUME NEW o \in Objects, Scoped(o), run.at # run.to
        PROVE  Progress(o)'
    BY <1>2, <1>3, <2>3, <2>4, <2>5 DEF Progress, DISCOVER, OVERLAY, COMPILE, ANALYZE, DOMAINS
  <2>6. \A o \in Objects : Scoped(o) =>
               IF run.at = run.to THEN run.to = DOMAINS => docs'[o] = Winning(o) /\ o \in members'
                                  ELSE Progress(o)'
    BY <2>1, <2>5 DEF COMPILE, DOMAINS
  <2> QED BY <1>1, <1>2, <2>1, <2>2, <2>6, AdvanceKeeps
<1>10. CASE WritePaths
  <2>1. /\ run.at = ANALYZE /\ run.phase = "paths" /\ text' = text /\ docs' = docs
        /\ run' = Advance(run) \/ Raised
    BY <1>10 DEF WritePaths, Phase, Running, catalogVars
  <2>2. ASSUME NEW o \in Objects, Scoped(o), run.at # run.to, run' = Advance(run)
        PROVE  Progress(o)'
    <3>1. run'.at = 6 /\ run'.phase = "fuse"
      BY <1>4, <2>1, <2>2, Openings DEF ANALYZE, DOMAINS
    <3> QED BY <1>2, <1>3, <2>1, <2>2, <3>1
            DEF Progress, DISCOVER, OVERLAY, COMPILE, ANALYZE, DOMAINS
  <2> QED BY <1>1, <1>5, <1>6, <2>1, <2>2 DEF ANALYZE, DOMAINS
<1>11. CASE WriteMembers
  <2>1. /\ run.at = DOMAINS /\ run.phase = "members" /\ text' = text /\ docs' = docs
        /\ Raised \/ (run' = Advance(run) /\ members' = members \cup clustered)
    BY <1>11 DEF WriteMembers, Joined, Phase, Running, catalogVars
  <2>2. run.at = run.to
    BY <1>1, <2>1 DEF DOMAINS
  <2>3. ASSUME NEW o \in Objects, Scoped(o)
        PROVE  docs[o] = Winning(o) /\ o \in clustered
    BY <1>3, <2>1, <2>3 DEF Progress
  <2> QED BY <1>1, <1>5, <1>6, <2>1, <2>2, <2>3
<1> QED BY <1>7, <1>8, <1>9, <1>10, <1>11

LEMMA SessionsKeep ==
    ASSUME StoreInv, ReadForIndex \/ OpenSession \/ CloseSession \/ FuseEmbeddings
    PROVE  StoreInv'
<1>1. /\ Underway /\ run \in Runs /\ run.at \in {COMPILE, ANALYZE, DOMAINS}
      /\ registered \in SUBSET Schemas /\ stamped \in SUBSET registered
      /\ catalogued \in SUBSET Objects /\ text \in [Objects -> Texts]
  BY DEF ReadForIndex, OpenSession, CloseSession, FuseEmbeddings, Phase, Running, Underway,
     StoreInv, StoreTyped
<1>2. UNCHANGED <<registered, stamped, catalogued, text, vectored, docs, nodes>>
  BY DEF ReadForIndex, OpenSession, CloseSession, FuseEmbeddings, catalogVars, graphVars
<1>3. \A o \in Objects : Scoped(o) => Progress(o)
  BY <1>1 DEF StoreInv, ProgressMade
<1>4. ASSUME Raised PROVE StoreInv'
  BY <1>1, <1>2, <1>4, FailureKeeps DEF Raised
<1>5. ASSUME run' \in Runs, run'.end = run.end /\ run'.at = run.at /\ run'.to = run.to,
             run'.clean = run.clean /\ run'.added = run.added, run'.phase # "scope",
             run.at = ANALYZE => run'.phase \in Sessions \cup {"paths"},
             \A o \in Objects : Scoped(o) =>
               /\ run.at = COMPILE /\ run'.phase = "write" => o \in run'.left
               /\ run.at = ANALYZE /\ run'.phase \in {"mine", "paths"} => o \in embedded'
               /\ run.at = DOMAINS => o \in embedded'
               /\ run.at = DOMAINS /\ run'.phase = "members" => o \in clustered'
      PROVE  StoreInv'
  BY <1>1, <1>2, <1>5, WithinStageKeeps
     DEF CleanSlate, ScanInOrder, Underway, REGISTER, DISCOVER, COMPILE, ANALYZE, DOMAINS
<1>6. CASE ReadForIndex
  <2> DEFINE found == {o \in catalogued : SchemaOf[o] \in registered}
  <2>1. run.at = COMPILE /\ run' = [run EXCEPT !.phase = "write", !.left = found]
    BY <1>6 DEF ReadForIndex, Phase, Running
  <2>2. found \in SUBSET Objects
    BY <1>1
  <2>3. \A o \in Objects : Scoped(o) => o \in found
    BY <1>1, <1>3 DEF Scoped, Progress
  <2> HIDE DEF found
  <2>4. /\ run' \in Runs /\ run'.end = run.end /\ run'.at = run.at /\ run'.to = run.to
        /\ run'.clean = run.clean /\ run'.added = run.added /\ run'.phase = "write"
        /\ run'.left = found
    BY <1>1, <2>1, <2>2 DEF Runs, Phases
  <2> QED BY <1>5, <2>1, <2>3, <2>4 DEF COMPILE, ANALYZE, DOMAINS
<1>7. CASE OpenSession
  <2>1. /\ run.at = ANALYZE /\ embedded' = embedded /\ run.phase \in Sessions
        /\ Raised \/ run' = [run EXCEPT !.on = "open"]
    BY <1>7 DEF OpenSession, Running
  <2>2. ASSUME run' = [run EXCEPT !.on = "open"] PROVE StoreInv'
    <3>1. /\ run' \in Runs /\ run'.end = run.end /\ run'.at = run.at /\ run'.to = run.to
          /\ run'.clean = run.clean /\ run'.added = run.added /\ run'.phase = run.phase
      BY <1>1, <2>2 DEF Runs
    <3> QED BY <1>3, <1>5, <2>1, <3>1 DEF Progress, Sessions, COMPILE, ANALYZE, DOMAINS
  <2> QED BY <1>4, <2>1, <2>2
<1>8. CASE CloseSession
  <2> DEFINE after == CASE run.phase = "leiden" -> "fastrp" [] run.phase = "fastrp" -> "mine"
                        [] OTHER -> "paths"
  <2>1. /\ run.at = ANALYZE /\ run' = [run EXCEPT !.on = "", !.phase = after]
        /\ embedded' = IF run.phase = "fastrp" THEN nodes ELSE embedded
    BY <1>8 DEF CloseSession, AfterSession, Running
  <2>2. after \in {"fastrp", "mine", "paths"} /\ (after = "mine" <=> run.phase = "fastrp")
    OBVIOUS
  <2>3. \A o \in Objects : Scoped(o) /\ after \in {"mine", "paths"} => o \in embedded'
    <3> SUFFICES ASSUME NEW o \in Objects, Scoped(o), after \in {"mine", "paths"}
                 PROVE  o \in embedded'
      OBVIOUS
    <3>1. Progress(o)
      BY <1>3
    <3>2. run.phase \in {"leiden", "fastrp", "mine", "paths"}
      BY <1>1, <2>1 DEF StoreInv, StoreTyped, Sessions
    <3>3. CASE run.phase = "fastrp"
      BY <2>1, <3>1, <3>3 DEF Progress
    <3>4. CASE run.phase \in {"mine", "paths"}
      BY <2>1, <3>1, <3>4 DEF Progress
    <3> QED BY <3>2, <3>3, <3>4
  <2> HIDE DEF after
  <2>4. after \in Phases /\ after # "scope" /\ after \in Sessions \cup {"paths"}
    BY <2>2 DEF Phases, Sessions
  <2>5. /\ run' \in Runs /\ run'.end = run.end /\ run'.at = run.at /\ run'.to = run.to
        /\ run'.clean = run.clean /\ run'.added = run.added /\ run'.phase = after
    BY <1>1, <2>1, <2>4 DEF Runs
  <2> QED BY <1>5, <2>1, <2>3, <2>4, <2>5 DEF COMPILE, ANALYZE, DOMAINS
<1>9. CASE FuseEmbeddings
  <2>1. /\ run.at = DOMAINS /\ embedded' = embedded
        /\ \/ Raised
           \/ clustered' = clustered \cup Shared /\ run' = [run EXCEPT !.phase = "members"]
    BY <1>9 DEF FuseEmbeddings, Phase, Running
  <2>2. ASSUME clustered' = clustered \cup Shared, run' = [run EXCEPT !.phase = "members"]
        PROVE  StoreInv'
    <3>1. /\ run' \in Runs /\ run'.end = run.end /\ run'.at = run.at /\ run'.to = run.to
          /\ run'.clean = run.clean /\ run'.added = run.added /\ run'.phase = "members"
      BY <1>1, <2>2 DEF Runs, Phases
    <3> QED BY <1>3, <1>5, <2>1, <2>2, <3>1 DEF Progress, Shared, COMPILE, ANALYZE, DOMAINS
  <2> QED BY <1>4, <2>1, <2>2
<1> QED BY <1>6, <1>7, <1>8, <1>9

\* What ends a run leaves the types, whatever it has written.
LEMMA FailuresKeep ==
    ASSUME StoreInv,
           \/ NothingRegistered \/ SchemaIsGone \/ OverlayFails \/ CompileFails \/ EnterFails
           \/ AlgorithmFails \/ DomainsFail \/ Killed
    PROVE  StoreInv'
<1>1. Underway /\ run' = [run EXCEPT !.end = "failed"] /\ UNCHANGED <<registered, stamped, catalogued>>
  BY DEF NothingRegistered, SchemaIsGone, OverlayFails, CompileFails, EnterFails, AlgorithmFails,
     DomainsFail, Killed, Phase, Running, Underway, StageFails, Raised, catalogVars
<1>2. text' \in [Objects -> Texts]
  <2>1. text \in [Objects -> Texts]
    BY DEF StoreInv, StoreTyped
  <2>2. CASE OverlayFails
    <3>1. PICK written \in SUBSET Describable :
              text' = [o \in Objects |-> IF o \in written THEN Prevailing(o) ELSE text[o]]
      BY <2>2 DEF OverlayFails
    <3> QED BY <2>1, <3>1 DEF Prevailing, Texts
  <2>3. CASE text' = text
    BY <2>1, <2>3
  <2> QED BY <2>2, <2>3
          DEF NothingRegistered, SchemaIsGone, CompileFails, EnterFails, AlgorithmFails,
              DomainsFail, Killed, catalogVars
<1> QED BY <1>1, <1>2, FailureKeeps DEF StoreInv, StoreTyped

LEMMA StoreStep == StoreInv /\ [StoreNext]_storeVars => StoreInv'
<1> SUFFICES ASSUME StoreInv, [StoreNext]_storeVars PROVE StoreInv'
  OBVIOUS
<1>1. CASE UNCHANGED storeVars
  BY <1>1
     DEF storeVars, StoreInv, StoreTyped, CleanSlate, ScanInOrder, ProgressMade, Progress, Scoped,
         SuccessIsServed, Underway
<1>2. CASE StoreNext
  BY <1>2, BeginsKeeps, RegisterKeeps, DiscoveryKeeps, ScanKeeps, StampKeeps, StagesKeep,
     SessionsKeep, FailuresKeep, RebuildKeeps, AdditionKeeps, RemovalKeeps
     DEF StoreNext
<1> QED BY <1>1, <1>2

\* A whole run that succeeded serves what it discovered: each object of a schema that it
\* scanned cleanly and that was neither removed nor added again is indexed under the
\* description that wins and belongs to a domain, for any catalog, through failures, retries,
\* commands and removals in between (services/ingestion/ingestion_service.py).
THEOREM DiscoveriesAreServed == StoreSpec => []SuccessIsServed
<1>1. StoreInv => SuccessIsServed
  BY DEF StoreInv
<1> QED BY StoreInitInv, StoreStep, <1>1, PTL DEF StoreSpec

-----------------------------------------------------------------------------
(* The rest of the store: what the stages write, and the graph. *)
Contents ==
    /\ vectored \subseteq Objects /\ members \subseteq Objects
    /\ docs \in [Objects -> Texts]
    /\ paths \in [Pairs -> {"none", "discovered", "yaml"}]

Graph ==
    /\ nodes \subseteq Objects /\ embedded \subseteq nodes /\ clustered \subseteq nodes
    /\ edges \subseteq nodes \X nodes /\ projected \in BOOLEAN

\* A projection only adds nodes, and edges between nodes that are there.
LEMMA ProjectionKeepsGraph ==
    ASSUME Graph, NEW objects \in SUBSET Objects,
           nodes' = Projection(objects, nodes),
           edges' = edges \cup {r \in Refs : r[1] \in objects /\ r[2] \in nodes'},
           UNCHANGED <<embedded, clustered, projected>>
    PROVE  Graph'
<1>1. nodes' = nodes \cup objects BY DEF Projection
<1>2. \A r \in Refs : r = <<r[1], r[2]>> BY StoreAssumption DEF Pairs
<1>3. edges' \subseteq nodes' \X nodes'
  <2>1. edges \subseteq nodes' \X nodes' BY <1>1 DEF Graph
  <2>2. \A r \in Refs : r[1] \in objects /\ r[2] \in nodes' => r \in nodes' \X nodes'
    BY <1>1, <1>2
  <2> QED BY <2>1, <2>2
<1> QED BY <1>1, <1>3 DEF Graph

LEMMA GraphStep == StoreInv /\ Contents /\ Graph /\ [StoreNext]_storeVars => Graph'
<1> SUFFICES ASSUME StoreInv, Contents, Graph, [StoreNext]_storeVars PROVE Graph' OBVIOUS
<1>1. CASE ProjectSchema
  <2>1. catalogued \cap In(run.on) \in SUBSET Objects BY DEF StoreInv, StoreTyped
  <2> QED BY <1>1, <2>1, ProjectionKeepsGraph DEF ProjectSchema
<1>2. CASE Rebuild
  <2>1. {o \in catalogued : SchemaOf[o] \in registered} \in SUBSET Objects
    BY DEF StoreInv, StoreTyped
  <2> QED BY <1>2, <2>1, ProjectionKeepsGraph DEF Rebuild
<1>3. CASE OpenSession \/ AlgorithmFails
  BY <1>3 DEF OpenSession, AlgorithmFails, Graph
<1>4. CASE CloseSession
  BY <1>4 DEF CloseSession, Graph
<1>5. CASE FuseEmbeddings
  BY <1>5 DEF FuseEmbeddings, Shared, Graph
<1>6. CASE UNCHANGED graphVars
  BY <1>6 DEF graphVars, Graph
<1>7. CASE UNCHANGED storeVars
  BY <1>7 DEF storeVars, Graph
<1>8. StoreNext /\ ~(ProjectSchema \/ Rebuild \/ OpenSession \/ AlgorithmFails \/ CloseSession
                       \/ FuseEmbeddings)
      => UNCHANGED graphVars
  BY DEF StoreNext, BeginRun, RegisterSchemas, ScopeDiscovery, NothingRegistered, NextSchema,
     SchemaFails, SchemaIsGone, ScanCatalog, ProfileObject, ProfilingEnds, StampSchema,
     DiscoveryEnds, ApplyOverlay, OverlayFails, ReadForIndex, WriteIndex, CompileFails, EnterFails,
     WritePaths, WriteMembers, DomainsFail, Killed, AddSchema, RemoveSchema
<1> QED BY <1>1, <1>2, <1>3, <1>4, <1>5, <1>6, <1>7, <1>8

LEMMA ContentsStep == StoreInv /\ Contents /\ Graph /\ [StoreNext]_storeVars => Contents'
<1> SUFFICES ASSUME StoreInv, Contents, Graph, [StoreNext]_storeVars PROVE Contents' OBVIOUS
<1>1. CASE ProfileObject
  <2>1. run.left \subseteq Objects BY DEF StoreInv, StoreTyped, Runs
  <2> QED BY <1>1, <2>1 DEF ProfileObject, Contents
<1>2. CASE ApplyOverlay
  <2>1. paths' = [p \in Pairs |-> IF p \in Hinted THEN "yaml" ELSE paths[p]]
        /\ UNCHANGED <<vectored, members, docs>>
    BY <1>2 DEF ApplyOverlay
  <2> QED BY <2>1 DEF Contents
<1>3. CASE WriteIndex
  <2>1. docs' = [o \in Objects |-> IF o \in run.left THEN Content(o) ELSE docs[o]]
        /\ UNCHANGED <<vectored, members, paths>>
    BY <1>3 DEF WriteIndex, catalogVars
  <2>2. \A o \in Objects : Content(o) \in Texts BY DEF StoreInv, StoreTyped, Content, Texts
  <2> QED BY <2>1, <2>2 DEF Contents
<1>4. CASE WritePaths
  <2>1. UNCHANGED <<vectored, members, docs>> BY <1>4 DEF WritePaths, catalogVars
  <2>2. \/ paths' = paths
        \/ \E mined \in MinedSets :
               paths' = [p \in Pairs |-> IF p \in mined THEN "discovered" ELSE paths[p]]
    BY <1>4 DEF WritePaths
  <2>3. paths' \in [Pairs -> {"none", "discovered", "yaml"}] BY <2>2 DEF Contents
  <2> QED BY <2>1, <2>3 DEF Contents
<1>5. CASE WriteMembers
  BY <1>5 DEF WriteMembers, Joined, catalogVars, Contents, Graph
<1>6. ASSUME NEW s \in Schemas, RemoveSchema(s) PROVE Contents'
  <2>1. /\ vectored' = vectored \ In(s) /\ members' = members \ In(s)
        /\ docs' = [o \in Objects |-> IF o \in In(s) THEN "none" ELSE docs[o]]
        /\ paths' = [p \in Pairs |-> IF p[1] \in In(s) THEN "none" ELSE paths[p]]
    BY <1>6 DEF RemoveSchema
  <2>2. docs' \in [Objects -> Texts] BY <2>1 DEF Contents, Texts
  <2>3. paths' \in [Pairs -> {"none", "discovered", "yaml"}] BY <2>1 DEF Contents
  <2> QED BY <2>1, <2>2, <2>3 DEF Contents
<1>7. CASE UNCHANGED <<vectored, members, docs, paths>>
  BY <1>7 DEF Contents
<1>8. CASE UNCHANGED storeVars
  BY <1>8 DEF storeVars, Contents
<1>9. StoreNext /\ ~(ProfileObject \/ ApplyOverlay \/ WriteIndex \/ WritePaths \/ WriteMembers)
      /\ ~(\E s \in Schemas : RemoveSchema(s))
      => UNCHANGED <<vectored, members, docs, paths>>
  BY DEF StoreNext, BeginRun, RegisterSchemas, ScopeDiscovery, NothingRegistered, NextSchema,
     SchemaFails, SchemaIsGone, ScanCatalog, ProjectSchema, ProfilingEnds, StampSchema,
     DiscoveryEnds, OverlayFails, ReadForIndex, CompileFails, OpenSession, EnterFails,
     AlgorithmFails, CloseSession, FuseEmbeddings, DomainsFail, Killed, AddSchema, Rebuild,
     catalogVars
<1> QED BY <1>1, <1>2, <1>3, <1>4, <1>5, <1>6, <1>7, <1>8, <1>9

\* Every table, description, path and node the store holds is of its kind, and the graph's
\* edges and marks are at nodes of the graph.
THEOREM StoreTypeCorrect == StoreSpec => []StoreTypeOK
<1>1. StoreInit => Contents /\ Graph BY DEF StoreInit, Contents, Graph, Texts
<1>2. StoreInv /\ Contents /\ Graph => StoreTypeOK
  <2> SUFFICES ASSUME StoreInv, Contents, Graph PROVE StoreTypeOK OBVIOUS
  <2>1. run.at \in 0..6 /\ run.clean \subseteq Schemas BY DEF StoreInv, StoreTyped, Runs
  <2> QED BY <2>1 DEF StoreInv, StoreTyped, Contents, Graph, StoreTypeOK
<1> QED BY <1>1, <1>2, StoreInitInv, StoreStep, GraphStep, ContentsStep, PTL DEF StoreSpec
=============================================================================
