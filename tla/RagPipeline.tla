----------------------------- MODULE RagPipeline -----------------------------
(***************************************************************************)
(* Policy retrieval (rag/pipeline.py) as the processes of a deployment run *)
(* it: each ingests the corpus it was built with at startup (api/main.py,  *)
(* rag/ingest_corpus.py) into tables of its own and into a vector store    *)
(* that all share (Azure AI Search) or that is its own (the fakes), and    *)
(* then answers queries from both.  Each await of ingest and retrieve is a *)
(* step; what ingest does before its first await is module Ingestion.      *)
(*                                                                         *)
(* A query changes nothing that another one reads, so one at a time is     *)
(* followed, with every step of the other processes in between.            *)
(***************************************************************************)
EXTENDS Naturals, Sequences, FiniteSets, SequencesExt, FiniteSetsExt

CONSTANTS ApiProcs,     \* API processes: they ingest at startup, then serve
          Jobs,         \* runs of ingest_corpus: they ingest and exit
          Workers,      \* standalone workers: they serve and never ingest
          Cloud,        \* the place of the shared store
          NoVersion,
          Versions,     \* releases of the corpus
          Corpus,       \* Versions -> (clause id -> text)
          Queries,      \* [similar, matches]: clause ids by dense and by BM25 rank
          TopK,         \* rag_k
          DenseWeight, LexicalWeight,   \* in tenths
          RrfK,         \* _RRF_K
          Scale,        \* scores are in units of 1 / (10 * Scale)
          Tau,          \* rag_tau_sufficient, in the same unit
          Marks,        \* scores the Azure ranker may give
          MaxFaults     \* bound on the faults of each kind

Procs == ApiProcs \cup Jobs \cup Workers

(***************************************************************************)
(* Faults: io, a call raises without effect; lost_reply, it raises and     *)
(* took effect; rejected, the store refuses some documents of an upload    *)
(* and reports so in a result the code does not look at; crash, a process  *)
(* dies or is stopped.                                                     *)
(***************************************************************************)
FaultKinds == {"io", "lost_reply", "rejected", "crash"}

ClauseIds == UNION {DOMAIN Corpus[v] : v \in Versions}
Texts == UNION {Range(Corpus[v]) : v \in Versions}

ASSUME PlaceAssumption == Cloud \notin Procs /\ NoVersion \notin Versions
ASSUME IdsAssumption == ClauseIds \subseteq Nat      \* ordered, as strings are
ASSUME QueriesAssumption == Queries \subseteq [similar : Seq(ClauseIds), matches : Seq(ClauseIds)]
ASSUME NumbersAssumption == {TopK, DenseWeight, LexicalWeight, RrfK, Scale, Tau} \subseteq Nat
ASSUME ScaleAssumption == \A i \in 1 .. 3 * TopK : Scale % (RrfK + i) = 0

VARIABLES provider,     \* settings.provider
          pc,           \* Procs -> where its startup is
          version,      \* Procs -> the corpus its tables hold (_chunks, _bm25)
          index,        \* the search index exists
          store,        \* place -> the vector store there: clause id -> text
          query,        \* the query in hand, its proc and how far it got
          faults

vars == <<provider, pc, version, index, store, query, faults>>

Place(p) == IF provider = "azure" THEN Cloud ELSE p

\* What p's tables hold, and the store it searches.
Tables(p) == IF version[p] = NoVersion THEN <<>> ELSE Corpus[version[p]]
Store(p) == store[Place(p)]

NoQuery == [stage |-> "none"]

Init == /\ provider \in {"azure", "fake"}
        /\ pc = [p \in Procs |-> "down"]
        /\ version = [p \in Procs |-> NoVersion]
        /\ index = FALSE
        /\ store = [x \in Procs \cup {Cloud} |-> <<>>]
        /\ query = NoQuery
        /\ faults = [k \in FaultKinds |-> 0]

Fault(k) == /\ faults[k] < MaxFaults[k]
            /\ faults' = [faults EXCEPT ![k] = @ + 1]

-----------------------------------------------------------------------------
(* Startup: ingest *)

Goto(p, l) == pc' = [pc EXCEPT ![p] = l]

\* The lifespan handler, or the job, fails: the process exits.
Exit(p) == /\ Goto(p, "down")
           /\ version' = [version EXCEPT ![p] = NoVersion]

\* A process starts, with an empty store if the store is its own.  The tables
\* are filled before the first await; an empty corpus has nothing to embed.
Start(p, v) ==
  /\ pc[p] = "down"
  /\ IF p \in Workers
     THEN Goto(p, "ready") /\ UNCHANGED version
     ELSE /\ version' = [version EXCEPT ![p] = v]
          /\ Goto(p, IF DOMAIN Corpus[v] = {} THEN "ready" ELSE "embed")
  /\ store' = [store EXCEPT ![p] = <<>>]
  /\ UNCHANGED <<provider, index, query, faults>>

Embed(p) ==
  /\ pc[p] = "embed"
  /\ \/ Goto(p, IF provider = "azure" THEN "check" ELSE "upload")
        /\ UNCHANGED <<version, faults>>
     \/ provider = "azure" /\ Fault("io") /\ Exit(p)
  /\ UNCHANGED <<provider, index, store, query>>

\* Mutant of CheckIndex: the index is created without a look.
CheckNothing(p) ==
  /\ pc[p] = "check"
  /\ Goto(p, "create")
  /\ UNCHANGED <<provider, version, index, store, query, faults>>

\* _ensure_index: whatever get_index raises is taken to mean there is none.
CheckIndex(p) ==
  /\ pc[p] = "check"
  /\ \/ Goto(p, IF index THEN "upload" ELSE "create") /\ UNCHANGED faults
     \/ Goto(p, "create") /\ Fault("io")
  /\ UNCHANGED <<provider, version, index, store, query>>

\* create_index raises when another process was faster.
CreateIndex(p) ==
  /\ pc[p] = "create"
  /\ \/ ~index /\ index' = TRUE /\ Goto(p, "upload") /\ UNCHANGED <<version, faults>>
     \/ index /\ Exit(p) /\ UNCHANGED <<index, faults>>
     \/ Fault("io") /\ Exit(p) /\ UNCHANGED index
     \/ Fault("lost_reply") /\ Exit(p) /\ index' = TRUE
  /\ UNCHANGED <<provider, store, query>>

\* Mutant of Put: the upload replaces the whole store.
PutOnly(p, ids) ==
  store' = [store EXCEPT ![Place(p)] = [id \in ids |-> Tables(p)[id]]]

\* Upsert: these clauses get p's text, and nothing is ever deleted.
Put(p, ids) ==
  store' = [store EXCEPT ![Place(p)] =
              [id \in ids \cup DOMAIN @ |-> IF id \in ids THEN Tables(p)[id] ELSE @[id]]]

Upload(p) ==
  LET all == DOMAIN Tables(p)
      Done == Goto(p, IF p \in Jobs THEN "down" ELSE "ready")
              /\ version' = [version EXCEPT ![p] = IF p \in Jobs THEN NoVersion ELSE @]
  IN  /\ pc[p] = "upload"
      /\ \/ Put(p, all) /\ Done /\ UNCHANGED faults
         \/ /\ provider = "azure"
            /\ \/ Fault("rejected") /\ Done /\ \E ids \in SUBSET all : Put(p, ids)
               \/ Fault("io") /\ Exit(p) /\ UNCHANGED store
               \/ Fault("lost_reply") /\ Exit(p) /\ Put(p, all)
      /\ UNCHANGED <<provider, index, query>>

Crash(p) ==
  /\ pc[p] # "down"
  /\ Fault("crash")
  /\ Exit(p)
  /\ query' = IF query # NoQuery /\ query.proc = p THEN NoQuery ELSE query
  /\ UNCHANGED <<provider, index, store>>

-----------------------------------------------------------------------------
(* Queries: retrieve *)

\* The members of the finite set S in the order R, a total order of them.
Listed(S, R) ==
  [n \in 1..Cardinality(S) |->
     CHOOSE x \in S : Cardinality({y \in S : <<y, x>> \in R}) = n - 1]

\* What s has at the positions P, in the order of s.
Kept(s, P) ==
  LET at == Listed(P, {ij \in P \X P : ij[1] < ij[2]})
  IN  [n \in 1..Cardinality(P) |-> s[at[n]]]

\* Mutant of First: the slice takes one more.
FirstPlus(s, n) == SubSeq(s, 1, Min({n + 1, Len(s)}))

First(s, n) == SubSeq(s, 1, Min({n, Len(s)}))
Known(s, ids) == Kept(s, {i \in DOMAIN s : s[i] \in ids})

\* Vector search returns the nearest entries, however far; BM25 only matches.
Dense(p, q) == First(Known(q.similar, DOMAIN Store(p)), 3 * TopK)
Lexical(p, q) == First(Known(q.matches, DOMAIN Tables(p)), 3 * TopK)

\* Mutant of Share: the rank alone.
ShareOfRank(s, id, w) ==
  LET ranks == {i \in DOMAIN s : s[i] = id}
  IN  IF ranks = {} THEN 0 ELSE w * (Scale \div Min(ranks))

\* Reciprocal rank: what the list s adds to the score of clause id.
Share(s, id, w) ==
  LET ranks == {i \in DOMAIN s : s[i] = id}
  IN  IF ranks = {} THEN 0 ELSE w * (Scale \div (RrfK + Min(ranks)))

Hit(id, score) == [id |-> id, score |-> score]
Before(h, g) == h.score > g.score \/ (h.score = g.score /\ h.id < g.id)

\* The hits of a list that the tables of p know, in the order of the list.
Ours(p, s) == Kept(s, {i \in DOMAIN s : s[i].id \in DOMAIN Tables(p)})

Ranked(hits) == Listed(hits, {hg \in hits \X hits : Before(hg[1], hg[2])})

\* Mutants of Fused: a share of the second list takes the place of one of the
\* first, and each list keeps an entry of its own.
FusedReplacing(d, l) ==
  Ranked({Hit(id, IF id \in Range(l) THEN Share(l, id, LexicalWeight)
                                     ELSE Share(d, id, DenseWeight)) :
            id \in Range(d) \cup Range(l)})

FusedApart(d, l) ==
  Ranked({Hit(id, Share(d, id, DenseWeight)) : id \in Range(d)}
         \cup {Hit(id, Share(l, id, LexicalWeight)) : id \in Range(l)})

\* _reciprocal_rank_fusion: one entry per clause, ties by clause id.
Fused(d, l) ==
  Ranked({Hit(id, Share(d, id, DenseWeight) + Share(l, id, LexicalWeight)) :
            id \in Range(d) \cup Range(l)})

\* Up to the dense search; the lexical one and the fusion follow without an
\* await.  Entries of the store that p does not know are dropped after the cut.
Search(p, q) ==
  /\ pc[p] = "ready" /\ query.stage # "rerank"
  /\ \/ /\ version[p] # NoVersion
        /\ LET fused == First(Fused(Dense(p, q), Lexical(p, q)), 2 * TopK)
           IN  query' = [stage |-> "rerank", proc |-> p, dense |-> Dense(p, q),
                         lexical |-> Lexical(p, q), hits |-> Ours(p, fused)]
        /\ UNCHANGED faults
     \/ /\ query' = [stage |-> "raised", proc |-> p]
        /\ IF version[p] = NoVersion THEN UNCHANGED faults      \* RagNotReadyError
           ELSE provider = "azure" /\ Fault("io")
  /\ UNCHANGED <<provider, pc, version, index, store>>

\* What the reranker may return.  The fake passes the hits on.  The Azure one
\* asks the whole index anew and uses the hits only to see that there are some.
Reranked(p, hits) ==
  IF provider = "fake" THEN {First(hits, TopK)}
  ELSE IF hits = <<>> THEN {<<>>}
  ELSE {s \in BoundedSeq({Hit(id, m) : id \in DOMAIN Store(p), m \in Marks}, TopK) :
          \A i, j \in DOMAIN s : i < j => /\ s[i].id # s[j].id
                                          /\ s[i].score >= s[j].score}

\* Mutant of Ground: what the reranker returned is taken as it is.
GroundAll(p, s) == s

\* Only clauses of p's own tables are cited, with the text p has for them.
Ground(p, s) == Ours(p, s)

Sufficient(s) == s # <<>> /\ Max({h.score : h \in Range(s)}) >= Tau

Text(p, id) == IF id \in DOMAIN Tables(p) THEN Tables(p)[id] ELSE Store(p)[id]

Rerank ==
  /\ query.stage = "rerank"
  /\ \/ /\ \E s \in Reranked(query.proc, query.hits) :
             LET cited == Ground(query.proc, s)
             IN  query' = [stage |-> "answered", proc |-> query.proc,
                           chunks |-> [i \in DOMAIN cited |->
                                         [clause |-> cited[i].id, score |-> cited[i].score,
                                          text |-> Text(query.proc, cited[i].id)]],
                           sufficient |-> Sufficient(cited)]
        /\ UNCHANGED faults
     \/ /\ provider = "azure" /\ Fault("io")
        /\ query' = [stage |-> "raised", proc |-> query.proc]
  /\ UNCHANGED <<provider, pc, version, index, store>>

-----------------------------------------------------------------------------
Step(p) == Embed(p) \/ CheckIndex(p) \/ CreateIndex(p) \/ Upload(p)

Next == \/ \E p \in Procs : \/ \E v \in Versions : Start(p, v)
                            \/ Step(p) \/ Crash(p)
                            \/ \E q \in Queries : Search(p, q)
        \/ Rerank

\* The platform restarts an API process that is down, and a startup once begun
\* goes on.  Jobs, workers and queries are never owed.
Fairness == \A p \in ApiProcs : /\ WF_vars(\E v \in Versions : Start(p, v))
                                /\ WF_vars(Step(p))

Spec == Init /\ [][Next]_vars /\ Fairness

-----------------------------------------------------------------------------
(* Properties *)

TypeOK ==
  /\ provider \in {"azure", "fake"}
  /\ pc \in [Procs -> {"down", "embed", "check", "create", "upload", "ready"}]
  /\ version \in [Procs -> Versions \cup {NoVersion}]
  /\ index \in BOOLEAN
  /\ \A x \in DOMAIN store : DOMAIN store[x] \subseteq ClauseIds /\ Range(store[x]) \subseteq Texts
  /\ query # NoQuery => /\ query.stage \in {"rerank", "answered", "raised"}
                         /\ query.proc \in Procs
  /\ query.stage = "rerank" => /\ Len(query.dense) <= 3 * TopK /\ Len(query.lexical) <= 3 * TopK
                               /\ Len(query.hits) <= 2 * TopK
  /\ query.stage = "answered" => Len(query.chunks) <= TopK
  /\ faults \in [FaultKinds -> Nat]

Answered == query.stage = "answered"

\* Every clause an answer cites is in the corpus its process ingested, with the
\* text it has there, once: entries that other releases left in the shared
\* store are never cited (pipeline.py:144).
CitationsCurrent ==
  Answered =>
    \A i, j \in DOMAIN query.chunks :
      /\ query.chunks[i].clause \in DOMAIN Tables(query.proc)
      /\ query.chunks[i].text = Tables(query.proc)[query.chunks[i].clause]
      /\ query.chunks[i].clause = query.chunks[j].clause => i = j

\* A clause that both lists found is one candidate for the reranker, not two.
CandidatesOnce ==
  query.stage = "rerank" =>
    \A i, j \in DOMAIN query.hits : query.hits[i].id = query.hits[j].id => i = j

Both == Range(query.dense) \cap Range(query.lexical)

\* A clause that both searches found, however far down, goes to the reranker
\* before any that only one of them found.
BothFirst ==
  query.stage = "rerank" =>
    \A i, j \in DOMAIN query.hits :
      i < j /\ query.hits[j].id \in Both => query.hits[i].id \in Both

\* A process that serves finds every clause of its corpus in the store,
\* whatever release the others ingest, unless the store refused it.
ReadyIsSearchable ==
  faults["rejected"] = 0 =>
    \A p \in Procs : pc[p] = "ready" => DOMAIN Tables(p) \subseteq DOMAIN Store(p)

\* No aim of the code but a consequence of its settings: fused scores stay below
\* the default threshold, so where the reranker gives no scores of its own (the
\* fakes) no context is ever sufficient, and every claim goes to a human.
FusionNeverSuffices ==
  Answered /\ query.sufficient => \/ provider = "azure"
                                  \/ Tau * (RrfK + 1) <= 10 * Scale

\* Every API process comes to serve, whatever calls fail and whoever creates
\* the index first.
ServesInTheEnd == \A p \in ApiProcs : <>[](pc[p] = "ready")
=============================================================================
