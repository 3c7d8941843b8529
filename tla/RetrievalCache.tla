--------------------------- MODULE RetrievalCache ---------------------------
(***************************************************************************)
(* RetrievalService: one instance for the process, searched by request     *)
(* threads, with the embeddings of the last questions in an OrderedDict.   *)
(*                                                                         *)
(* Each call on the dictionary is atomic, and nothing holds two of them    *)
(* together: other threads run between the look-up, the move to the end,   *)
(* the insertion and the eviction.  An embedding is its question.          *)
(***************************************************************************)
EXTENDS Naturals, Sequences, FiniteSets

CONSTANTS
    Searchers,     \* threads that search
    Questions,
    CacheMax,      \* _EMBEDDING_CACHE_MAX
    MaxSearches    \* bound of the model: searches begun

ASSUME RetrievalAssumption ==
    /\ IsFiniteSet(Searchers)
    /\ CacheMax \in Nat \ {0} /\ MaxSearches \in Nat

VARIABLES
    cache,       \* _embedding_cache: its questions, the next to be evicted first
    searcher,    \* per thread: where its search is, and its question
    searches

retrievalVars == <<cache, searcher, searches>>

Cached(q) == \E i \in DOMAIN cache : cache[i] = q

\* The cache with its i-th question last.
Moved(i) ==
    [k \in DOMAIN cache |-> IF k < i THEN cache[k]
                            ELSE IF k < Len(cache) THEN cache[k + 1] ELSE cache[i]]

RetrievalInit ==
    /\ cache = <<>>
    /\ searcher = [t \in Searchers |-> [at |-> "idle", on |-> "none"]]
    /\ searches = 0

GoOn(t, point) == searcher' = [searcher EXCEPT ![t].at = point]

\* get: None for a question that is not cached.
SearchFor(t, q) ==
    /\ searcher[t].at = "idle"
    /\ searches < MaxSearches
    /\ searches' = searches + 1
    /\ searcher' = [searcher EXCEPT ![t] = [at |-> IF Cached(q) THEN "move" ELSE "embed", on |-> q]]
    /\ UNCHANGED cache

\* move_to_end raises a KeyError for a question that was evicted since.
MoveToEnd(t) ==
    /\ searcher[t].at = "move"
    /\ IF Cached(searcher[t].on)
       THEN /\ \E i \in DOMAIN cache : cache[i] = searcher[t].on /\ cache' = Moved(i)
            /\ GoOn(t, "retrieve")
       ELSE GoOn(t, "idle") /\ UNCHANGED cache
    /\ UNCHANGED searches

\* The call to the provider, and the assignment behind it: a question another thread
\* has cached meanwhile keeps its place.
Embed(t) ==
    /\ searcher[t].at = "embed"
    /\ \/ /\ cache' = IF Cached(searcher[t].on) THEN cache ELSE Append(cache, searcher[t].on)
          /\ GoOn(t, "measure")
       \/ GoOn(t, "idle") /\ UNCHANGED cache
    /\ UNCHANGED searches

\* Mutant of Overfull: the limit is passed before it is noticed.
OverfullByTwo == Len(cache) > CacheMax + 1

Overfull == Len(cache) > CacheMax

Measure(t) ==
    /\ searcher[t].at = "measure"
    /\ GoOn(t, IF Overfull THEN "evict" ELSE "retrieve")
    /\ UNCHANGED <<cache, searches>>

\* popitem(last=False), a KeyError for an empty dictionary.
Evict(t) ==
    /\ searcher[t].at = "evict"
    /\ IF cache # <<>> THEN cache' = Tail(cache) /\ GoOn(t, "retrieve")
                       ELSE GoOn(t, "idle") /\ UNCHANGED cache
    /\ UNCHANGED searches

\* The retriever and the reranking, if any, which fail or answer.
Retrieve(t) ==
    /\ searcher[t].at = "retrieve"
    /\ GoOn(t, "idle")
    /\ UNCHANGED <<cache, searches>>

RetrievalNext ==
    \E t \in Searchers :
        \/ \E q \in Questions : SearchFor(t, q)
        \/ MoveToEnd(t) \/ Embed(t) \/ Measure(t) \/ Evict(t) \/ Retrieve(t)

RetrievalSpec == RetrievalInit /\ [][RetrievalNext]_retrievalVars

-----------------------------------------------------------------------------
RetrievalTypeOK ==
    /\ cache \in Seq(Questions)
    /\ \A t \in Searchers :
          /\ searcher[t].at \in {"idle", "move", "embed", "measure", "evict", "retrieve"}
          /\ searcher[t].on \in Questions \cup {"none"}
    /\ searches \in 0..MaxSearches

\* "Small enough that an unbounded stream of distinct questions cannot grow the process
\* without limit": though threads insert and evict in steps of their own, no question is
\* cached twice, and what is above the limit is on its way out - each thread that has
\* inserted and not yet evicted accounts for one
\* (services/semantic/retrieval_service.py).
CacheIsBounded ==
    /\ \A i, k \in DOMAIN cache : cache[i] = cache[k] => i = k
    /\ Len(cache) <= CacheMax + Cardinality({t \in Searchers : searcher[t].at \in {"measure", "evict"}})
=============================================================================
