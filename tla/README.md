# ClaimPilot in TLA+

ClaimPilot adjudicates insurance claims: an API accepts a claim, a broker hands
it to a background worker, the worker runs a graph of LLM-backed agents over it,
and the outcome is settled automatically or escalated to a human. This directory
models that system in TLA+, checks the models with TLC on small instances, and
proves the central invariants with TLAPS for every instance. Paths below are
relative to `src/claimpilot/` in the repository unless they start elsewhere.

## 1. Inventory

| Component | State | Operations | Hard behaviour | What makes it correct |
|---|---|---|---|---|
| Claim record (`api/worker.py` ClaimRecord, ClaimStore) | one document per claim; per-process index `_ids` | create, load, save (upsert, last write wins), list | stale snapshots, writers that overlap, an index lost on restart, documents that expire after a day | status and disposition agree; a verdict stays until it expires; escalated claims are listed |
| API (`api/routes/claims.py`, `api/main.py`) | requests in flight | submit (create, enqueue), get, list, decision (load, check, save), stream | awaits between check and save; one of two steps failing | a verdict only on an escalated claim |
| Broker (`infra/providers/azure/queue.py`, `infra/iac/main.bicep`) | messages, locks, delivery counts | enqueue, dequeue (peek-lock), ack; lock and message expiry | redelivery, late acks, dead-lettering | nothing is settled before it is processed |
| Worker (`api/worker.py` run_worker, `api/worker_main.py`) | position in the loop, the record in memory | dequeue, process, except clause, ack in finally | crash, cancellation, errors inside error handling, a lock outlived | every accepted claim is adjudicated in the end |
| Claim graph (`graph/`) | state threaded through the nodes | six agent nodes, route, three terminal nodes | failure half-way | failures reach a human; complete trace |
| Agents and tools (`agents/`, `mcp_servers/`) | none | functions of the model's reply | malformed, missing, NaN or invented fields | automatic outcomes rest on retrieved policy |
| Live stream (`EventBus`, `_sse_generator`) | one queue per claim and process | subscribe, publish, unsubscribe, poll, replay | one queue shared by several streams, events lost and polled for | every stream ends, steps in order |
| RAG pipeline (`rag/`, search adapters) | per process: clauses, lexical index; shared: search index and vector store | ingest, retrieve | startup that fails half-way or races another, releases of the corpus that share a store, fusion against the threshold | no text is lost, answers cite the corpus of their process, every API process comes to serve |
| Evaluation gate (`evals/`, `api/routes/evals.py`) | the cached scorecard | run the golden cases, add them up, judge, serve | empty sets, exact thresholds, failures that look like successes, overlapping first requests | a broken release is not merged, and what is served counts every case |
| Roles, cost summary (`api/auth.py`, `observability/cost_meter.py`) | none | pure functions | - | not modelled |
| Web page, logging, exporters, SDK adapters, IaC | - | - | pure I/O | not modelled |

They meet in four places: the stored record (API, worker, reviewers), the
broker (API and worker), the event bus inside one process (worker and streams),
and the vector store (every process that ingests or retrieves). In fake mode
everything runs in one process on one event loop; its behaviours are among those
of the models.

`PROJECT.json` lists, under `hazards`, what is hard to test in this code, each at
its line, with the properties that watch it.

## 2. Modules

| Module | Models |
|---|---|
| `ClaimLifecycle` | Abstract specification: what may become of one stored record |
| `ClaimService` | API, broker, workers, store and faults, composed; implements `ClaimLifecycle` when delivery is at most once |
| `MCClaimService` | Fault budgets for TLC |
| `ClaimServiceProofs` | Inductive invariants and theorems about `ClaimService`: types, coherence, acknowledgement |
| `ClaimServiceOnceProofs` | Delivery at most once: the refinement of `ClaimLifecycle` and what follows from it |
| `ClaimServiceFaultsProofs` | Theorems about `ClaimService` under faults: dead workers, listings, abandoned claims |
| `Agents` | The agents, the tools they score with, and intake extraction, as functions of the LLM reply |
| `ClaimGraph` | One run of the graph over `Agents`, node by node |
| `ClaimGraphProofs` | Lemmas about the agents, inductive invariants and theorems about `ClaimGraph` |
| `MCClaimGraph` | Replies, retrievals and claimant records for TLC |
| `ClaimStream` | Event bus, publishing worker and SSE generators of one claim |
| `ClaimStreamProofs` | Inductive invariants and theorems about `ClaimStream` |
| `MCClaimStream` | Placement of streams for TLC |
| `Adjudication` | Abstract specification: what one run of the graph promises; implemented by `ClaimGraph` |
| `Ingestion` | Chunking of a corpus, and the tables of a process that it fills |
| `IngestionProofs` | Theorems about the sliding window, the clause ids and the term frequencies |
| `MCIngestion` | Corpora for TLC |
| `RagPipeline` | Startups of several processes against a vector store, and queries |
| `RagPipelineProofs` | Lemmas about ranked lists, theorems about stores, candidates and answers |
| `MCRagPipeline` | Two releases of a corpus, queries and scores for TLC |
| `EvalGate` | Golden set, scorecard, gate, CI run and cached scorecard |
| `EvalGateProofs` | Theorems about the gate for every golden set and release |
| `MCEvalGate` | Golden sets for TLC |

`ClaimService` composes API, broker and worker and takes the graph as one step
that yields any disposition or raises; `Adjudication` states that this is all
there is to see of a run, and `ClaimGraph` is shown to implement it. `ClaimGraph`
takes retrieval as an input, any result or an exception: `RagPipeline` says which
citations one can contain. `RagPipeline` takes the tables of a release as a
function from clause id to text, which is what `Ingestion` ends with.

### ClaimLifecycle and ClaimService

A record is its `status`, `disposition` and `human` verdict; agent outputs do not
change what becomes of a claim. `ClaimService` has one action per await of a
handler: `SubmitCreate`/`SubmitEnqueue` for `submit_claim`, `Dequeue` ... `Ack` for
`run_worker` with `_process_claim` (`Load`, `MarkProcessing`, `RunGraph`,
`SaveResult`), its except clause (`FailLoad`, `FailSave`) and its finally clause
(`Ack`), and `DecisionLoad`/`DecisionSave` for `human_decision`. `worker[p].snap` is
the record object the coroutine holds in memory, `worker[p].lock` the delivery
whose lock it was given. The three `ack` states tell apart how the finally clause
was entered: normally, by an exception of the except clause (the task then
dies), or by cancellation (the process then exits).

Faults are actions with a budget `MaxFaults[kind]`:

- `io`: a store or broker call raises without effect; `lost_reply`: it raises
  after taking effect. A load cannot lose a reply with consequences.
- `cancel`: graceful shutdown. Uvicorn drains requests, then the lifespan (or
  `worker_main`) cancels the worker task at the await it is at.
- `crash`: the process dies between two steps; requests and decisions in flight
  die with it; record and messages survive.
- `overrun`: a lock expires although its worker is still at work. A lock whose
  worker is gone expires without a fault (`LockReleased`).
- `ttl`: a message expires in the queue.
- `expiry`: the store drops a record (`defaultTtl` of 24 hours in
  `infra/iac/main.bicep:203`). Nothing that works on a claim takes that long, so a
  record expires while no handler has its claim in hand (`InUse`).

A dequeue that raises ends its worker; under `lost_reply` the broker has locked a
message for it by then, which is delivered again once the lock runs out.

`GraphDispositions` records that the standalone worker builds its graph without
an ingested RAG pipeline, so retrieval raises and every claim it takes is
escalated. What the graph concludes is otherwise any disposition; which ones and
why is `ClaimGraph`'s subject.

Abstractions: claim ids do not collide (uuid); the document store reads what was
last written; store and broker calls are atomic; the branch of `_process_claim`
for a graph that yields no state at all is unreachable (LangGraph's `values`
stream yields the input first); a shutdown that interrupts a dequeue already
delivered by the broker equals a crash right after `Dequeue`.

### Agents and ClaimGraph

A reply of the model is a failed call, text that is no JSON, JSON that is no
object, or an object whose fields are values, `Missing`, `Bad` or `NaN`.
`PadsUnparsable` is TRUE for the Azure client, which replaces unparsable text by
an object without fields, and FALSE for a client that passes it on. Each agent
operator gives the set of its possible results, because the lenient citation
match walks an unordered set. `Resembles` stands for that match on text.
Scores and confidences are in hundredths, amounts in dollars.

`ClaimGraph` composes them: `Skip` and `Finish` are the `_safe` wrapper (skip after an
error, result, captured error, or an exception that cannot be captured because
`AgentError` refuses an empty message; then the graph itself raises, which is
`GraphRaises` of `ClaimService`). `Route` is the router with its conditional
edge. Latency, spans,
prompts and costs are left out. A failed lookup of a clause id, of a citation's
other fields and of regulations has no effect beyond what the operators say. Intake
catches every failure of the model, of whatever kind, so a failed call, with a message
or without, and a reply that is no object are one case of `ExtractFacts`; an amount
of "0" is one the model did not give, "0.00" is an amount of zero.

`Lookup` is the history tool as the code calls it: keyed by claimant id, asked with the
name of the first party. `FlaggedNeverAuto` is therefore about the flags that this lookup
returns, and a flagged record that it misses is the subject of `HistoryIsFound`.

### ClaimStream

One claim, several processes, several stream requests. Queues are objects that
outlive their entry in the bus, so they are named by the stream that created
them; `bus[p]` is the entry. `Unsubscribe` removes the entry whoever else reads
the queue, as the code does. A run may raise at any point, its except clause too,
and a process may die at any time. Whether a run crashed, failed or came to its end,
its message may be delivered again (`Deliver`, at most `MaxRuns` times): a failed ack is
suppressed (`api/worker.py:231`), and a process can die between the last save and the
ack. That reopens the record of a finished claim. Steps are numbered through all runs,
so each run has its own, and `stream[s].steps` is what the client was sent; `run.ends`
and `stream[s].after` count sentinels, so that a stream's end can be told from a run's.
Runs that overlap on one claim are left to `ClaimService`.

### Ingestion and RagPipeline

`Ingestion` is the part of `ingest` before its first await, so nothing can come
between its steps: `CutWindow` is one turn of the loop of `_split_by_tokens`, `Emit`
the chunks of a finished section, `Add` one chunk in the lookup table and the
lexical index. A window is the range of words it takes from its section. A clause id is the sequence
of what stands between the colons of the code's string, `<<p, a, 1>>` for
`p:a:part1`, so that ids collide as those strings do: by equal titles, by a title that
ends like a window of another section (`a:part1`), and by a document id that ends where
another's title begins (`p:a`). `DistinctTitles`, the premise of `EveryWordCitable`,
excludes these three.

`RagPipeline` has one action per await. A startup is `Start`, `Embed`, `CheckIndex`
and `CreateIndex` (`_ensure_index`), `Upload`; a query is `Search` (the embedding
and the dense search, then the lexical search and the fusion without an await)
and `Rerank`. With the Azure adapters all processes share one store, named `Cloud`;
with the fakes each has its own, which is empty at every start. Faults: `io` (a
call raises without effect), `lost_reply` (it raises after taking effect),
`rejected` (`upload_documents` refuses some documents and returns normally),
`crash`. Scores are exact: in units of `1 / (10 * Scale)`, with `Scale` a multiple of
every denominator, so that ties are those of the formula. Sorting and filtering are
written as the list of a set in an order (`Listed`), and what a sequence keeps of its
positions (`Kept`): the n-th of a list is the one member with n - 1 before it.

Abstractions: a query is the order in which it ranks clauses by similarity and
the ranked clauses it matches in the lexical index, since BM25 weights and
embeddings only matter through these orders. Vector search is exact and the
index reads what was last written. A query's own embedding call and its search
call fail in one way. Filters are left out, as no caller passes any, and so
is a clause whose text is blank, which the code refuses to cite by raising.

### EvalGate

The models of a golden case are scripted, so a release handles each case the same way
every time. A case is its expected disposition, whether it expects a coverage
decision, and which tool calls it expects: none, some, or also that of the last agent.
A release is an outcome for each case: right, but for the first `MaxRegressed` cases,
which may be any that `Possible` allows. A failed agent escalates by the error path
and leaves the last agent's tool call missing; where a case expects no such call,
nothing but the disposition can tell.

`CaseResult` is `_run_case`, which compares the coverage decision and then lets the
comparison decide nothing. Ratios are fractions, so a threshold met exactly is met.
`GET /v1/evals/latest` is `Arrive` (one look at the cache), `RunCase` for the await of each
case, `Finish`, or `Unavailable` at any point before; between them other requests come
and go. `RunInCI` is the exit code of `run_evals.py`, in a process of its own.

## 3. Runs

| Run | Instance | Faults | Shows |
|---|---|---|---|
| `ServiceOnce` | 1 claim, 2 API processes, 1 reviewer, 1 delivery | one each of io, cancel, crash, ttl, expiry | `ImplementsLifecycle` (refinement) |
| `ServiceFaults` | 1 claim, 2 processes, 2 reviewers, 2 deliveries | one of each of the seven kinds | `TypeOK`, `StatusMatchesDisposition`, `LoneVerdictStands`, `EscalatedListed`, `WorkerDiesOfIo` |
| `ServiceCrash` | 2 claims, 2 processes, 3 deliveries | 2 crashes | `AckMeansProcessed`, `ClaimNotAbandoned`, and `ClaimsSettle` under fairness |
| `Graph` | 3 amounts, 7 intake, 18 coverage, 5 risk, 11 settlement and 5 compliance replies, 6 retrievals | failures of the model and of retrieval | `AutoIsGrounded`, `FlaggedNeverAuto`, `AutoPayable`, `FailureEscalates`, `AuditTrail`, `ImplementsAdjudication` (refinement), `TypeOK` |
| `Stream` | 2 streams on one process, worker there or elsewhere, 2 steps, 2 runs | errors, crash, redelivery of a failed, lost or finished run | `InOrder`, `EarlyClientSeesAll`, `EndsNotEarly`, `StreamsEnd`, `TypeOK` |
| `Ingestion` | 63 documents alone and in pairs, windows of 3 words that overlap by 1 | none | `NoTextDropped`, `WindowsAdvance`, `EveryWordCitable`, `FrequenciesExact`, `TypeOK` |
| `Rag` | an API process, a job, a worker; 2 releases of 4 clauses; 12 queries; k = 1 | one of each of the four kinds | `CitationsCurrent`, `CandidatesOnce`, `BothFirst`, `ReadyIsSearchable`, `FusionNeverSuffices`, `ServesInTheEnd`, `TypeOK` |
| `Evals` | 5 golden sets of 0 to 20 cases, up to 2 of them wrong, 2 requests | a request that fails before or between cases | `BrokenAgentStopsMerge`, `MergeMeansMostPass`, `PerfectOpens`, `ServedIsComplete`, `TypeOK` |
| `StopLosesClaim` | 1 process | 1 shutdown | violated: `AckMeansProcessed` |
| `RedeliveryOverwrites` | 1 process, 2 deliveries | crashes | violated: `HumanVerdictStands` |
| `ReviewersRace` | 2 reviewers | none | violated: `DecideFromEscalated` |
| `HistoryByName` | records as shipped | none | violated: `HistoryIsFound` |

Deadlock checking is off everywhere: a service without claims left, a graph that
has ended, streams that have closed, a corpus that is ingested and an exit code
that is set rightly stop.

**Bounds.** Claims do not interact except through the workers that take them, so
two claims show what one cannot (a worker going on to the next one, two workers
at once) and a third adds no new kind of step. Two processes give every overlap
of two writers; two deliveries are one redelivery, the least that makes two
workers meet on a claim, and three let two crashes be survived. A fault budget of
one or two per kind lets the faults combine. In the graph every field takes a
value on each side of each comparison of the code: confidence 69, 70 and NaN
around the threshold 70; scores 30 and 31; 10000 and 10001; limits absent, zero
and below the payable amount; one and two citations. Two steps and two
streams are enough for events to be split between streams, missed by a late one,
and replayed; two runs let a stream of the first meet the second, also when the first
came to its end. The two reviewers of `ServiceFaults` and the two requests of `Evals`
differ in nothing but their names, so those runs use symmetry; neither checks liveness.

The documents of `Ingestion` have sections shorter than a window, of exactly one,
of one word more, and of several, with and without a preamble, with titles
that repeat within a document or between two, with the headings "part0" and
"a:part1", and with a document whose id is another's with a title added. In `Rag` the second release drops,
rewrites and adds a clause, so that each of the three can be stale in the shared
store; `k = 1` makes the cuts at 3, 2 and 1 fall inside the corpus; the queries
include clauses found by both searches, by the dense one and by the lexical one alone; and
a lost reply, a refusal, an error and a crash can fall on one startup. In `Evals`
a set of 10 puts one miss exactly on the threshold of 0.90 and two below it, one of 20
puts both misses on it; 6 and 5 expected escalations put one miss above and on that of
0.80; and there are cases that expect no tool calls, some, and no coverage decision. The
wrong cases come first; a scorecard only counts, so their place makes no difference, and
between them the sets begin with a case of each kind.

**Why each passing run restricts its faults.** The excluded faults break the
property, and most of the excluded cases are the violation runs: `AckMeansProcessed` fails under
cancellation (`StopLosesClaim`), `HumanVerdictStands` fails under redelivery
(`RedeliveryOverwrites`) and with two reviewers, and so does `ImplementsLifecycle`.
`LoneVerdictStands` names in its statement what overwrites a verdict, so that it can be
checked with all faults and both reviewers: a second delivery, a lost reply (after which
the worker's except clause, or the reviewer, acts on a save that did happen), and
another verdict that was answered. `ServiceCrash` excludes overruns:
a worker that outlived its lock writes "processing" over the final record of the
worker that replaced it, and if it then crashes nobody repairs that.
`ReadyIsSearchable` and `EscalatedListed` name the fault they do not survive in
their own statement: the index of listed ids does not outlive a process, and a
refused document is not noticed.

**Fairness.** `FairSpec` of `ClaimService`: the worker loop polls `dequeue` without
pause and runs what it has; a started request goes on; the broker's lock timer
runs; the platform restarts a process that is down. Faults, submissions and human
decisions are never owed. `ClaimStream`: a generator in progress goes on, since it
waits half a second at most. `RagPipeline`: the
platform restarts an API process that is down, and a startup once begun goes on;
jobs, workers and queries are never owed. Weak fairness suffices in all cases: none
of these steps is disabled by others again and again.

**Violations** are findings about the code, with the sentences of the repository
they contradict, in `PROJECT.json`. More disagreements showed up while modelling
and are visible in the models without a run of their own:

- One failing broker call outside of the `try` (`api/worker.py:205`) ends the worker
  task while its process stays up; `WorkerDiesOfIo` says nothing else does. Parsing
  the payload is outside of the `try` as well, but only `submit_claim` enqueues, and
  what it enqueues has been parsed.
- A second API process does not list claims of the first (`ids` is per process).
- With the Azure client, malformed output is padded to an object without fields
  (`infra/providers/azure/llm.py:96`) where `docs/specs/20-agent-coverage.md:35` wants
  a typed error (`PadsUnparsable`, `Fields`).
- A compliance reply without `passed` counts as passed (`ReviewCompliance`); an
  exception without a message leaves the graph (`Finish`, third disjunct).
- The stream says "done" before the record is saved (`PublishEnd` before
  `SaveResult`), and after a redelivery a finished claim is "processing" again, so
  `EndsNotEarly` says of a stream that turns to its end only that the record is finished or
  a run has ended since it subscribed; a client that connects late to a running claim
  never sees the steps before, and streams that share a queue split its events.
- A clause that only the lexical search found never comes before one that the dense
  search found (`LexicalComesLast` in `RagPipelineProofs`), although
  `docs/specs/21-rag-pipeline.md:21` has lexical hits matter and the recall test at `:41`
  counts on it; `BothFirst` is what the lexical search does contribute. And a query that
  matches nothing still gets the nearest clauses, where `:30` wants none.
- With the fakes no context is ever sufficient at the default threshold of 0.35
  (`FusionNeverSuffices`): a consequence of the settings, not an aim.
- Records expire 24 hours after their last write (`RecordExpires`), an escalated claim
  that still waits for its human included.
- The reranker's docstring says that only the candidates are reranked; it searches
  the whole index (`Reranked`). `ingest_corpus` says that the API no longer needs to
  ingest on every restart; it does, and cannot serve without.
- Two sections with one title share a clause id, and the later replaces the
  earlier (`DistinctTitles` is a premise of `EveryWordCitable`); so does a section whose
  title reads like a window of another one.
- A golden case with the wrong coverage decision and the right disposition passes,
  with a failure noted (`CaseResult.failures` is "empty on pass"), and no metric
  counts it, where `docs/specs/22-eval-metrics.md:34` wants `coverage_accuracy>=0.90`;
  `MergeMeansMostPass` is about what the gate does judge. The tool calls in the trace follow from which tools are wired, not
  from calls made (`graph/nodes.py:290-295`).

Each property of a passing run has a mutant: a definition marked `Mutant of ...`
beside the original, the way a plausible bug would have it, under which TLC finds
the property violated.

## 4. Proofs

`ClaimServiceProofs` proves, for every set of claims, processes and reviewers and
every fault budget, from the named ASSUMEs of `ClaimService`:

- `TypeCorrect`: `Spec => []TypeOK`. The strengthening `TInv` adds that a worker
  has a claim in hand exactly when its program counter says so, and that a
  decision in flight names a claim and a process; without these the functions
  could be updated outside of their domains.
- `AlwaysCoherent`: `Spec => []StatusMatchesDisposition`, with no restriction on
  faults. Stale snapshots are written over newer records, so coherence of the
  stored records is not inductive; `CInv` adds `SnapsOK`, what each worker may be
  about to write at each position.
- `AckedIsProcessed`: `NoLossFaults => (Spec => []AckMeansProcessed)`, where
  `NoLossFaults` excludes cancellation, store and broker errors, overruns and expired
  records, but no crash and no expired message. `AInv` is an ownership argument: whoever has a claim in
  hand holds the valid lock on its message (`Owns`), so there is only one
  (`Unshared`), so no one moves the record back after it reached a final status
  (`AtAck`), and the message exists only for a stored record (`Submitted`).

`ClaimGraphProofs` proves all safety properties of `ClaimGraph` for every set of
claimant records, retrievals and replies. The named ASSUMEs of `ClaimGraph` ask of a
reply only that a field read as a number is an integer, `Missing`, `Bad` or `NaN`,
and of a retrieval that its citations are a sequence.

- `GroundedAuto`: `Spec => []AutoIsGrounded` if `WeakCap < Tau1`, and
  `FlaggedEscalated`: `Spec => []FlaggedNeverAuto` if `Tau2 < FlagWeight`, which is about
  flags that the lookup returns and no others. Both
  hypotheses are about settings an operator can change (`infra/settings.py`); the
  shipped 0.70 and 0.3 meet them, and without them the caps and floors of the
  agents do not reach the router. `AutoWithinLimits`: `Spec => []AutoPayable`, with no
  hypothesis. The three share `GInv`: the disposition says nothing of how the
  results came about, so `ResultsSound` carries, for each node that is behind
  without an error, what its result guarantees (an opinion above the cap is
  grounded, the score of a flagged party is at least the flag's weight, a proposal is
  within its limit). That each agent returns such a result for every reply is a
  lemma of its own (`OpinionSupported`, `RiskFloor`, `SettlementPayable`, `FactsAmount`).
- `FailuresEscalate`: `Spec => []FailureEscalates`, and `AuditTrailComplete`:
  `Spec => []AuditTrail`. `TraceInv` says how long the trace is at each node and
  which nodes it names (`OnTrunk`, `Walked`), and that each result in the state has
  its entry before that of the one error there can be (`FailureTraced`).
- `GraphTypeCorrect`: `Spec => []TypeOK`.

- `GraphImplements`: `Spec => ImplementsAdjudication`. Each node's lemma shows that
  it fails, settles, escalates, raises or stutters in the abstract; that at most
  one agent fails comes from `Runs`, and that nothing is settled after a failure
  from `TraceInv`.

`ClaimServiceOnceProofs` is about claims whose message is delivered once.

- `VerdictStands`: `Spec => []LoneVerdictStands`, with no restriction on processes,
  reviewers or faults: the statement itself says of which claims it holds. `Alone`, the
  core of `OInv`, says that a worker can only have such a claim in hand before the
  claim was escalated, so what it is about to write is in step with the record
  (`InStep`), and no worker comes after the verdict.
- `ServiceImplements`: `DeliveredOnce => (Spec => ImplementsLifecycle)`, each step of
  the service a step of `ClaimLifecycle` or a stutter. `DeliveredOnce` is one delivery per
  message, no lost reply, and one reviewer; calls fail, processes stop and crash,
  locks, messages and records expire as often as the budgets say. What the worker or the
  reviewer writes was computed from a record loaded some steps earlier, so the invariant
  `Undisturbed` adds that the reviewer's copy is still the record.
- `DecidesEscalated` (`DecideFromEscalated`) from the same premises. They are needed:
  `RedeliveryOverwrites` and `ReviewersRace` are what happens without the first and the
  last, and after a lost reply the worker's except clause reloads a record that is
  already concluded.

`ClaimServiceFaultsProofs` needs less:

- `OnlyIoKillsWorkers`: `Spec => []WorkerDiesOfIo`, for any faults: a fault counter
  never falls, and each way into the two positions of a dying worker raises one.
- `EscalationsListed`: `Spec => []EscalatedListed`; the fault it does not survive, a
  process that stops or dies, is in the statement of the property.
- `NotAbandoned`: `CrashesSurvivable => (Spec => []ClaimNotAbandoned)`, with fewer
  crashes than deliveries and no other fault. The invariant counts: each delivery of a
  message that no worker has in hand any more ended in a crash (`Spent`).

`ClaimStreamProofs` proves the safety properties of `ClaimStream` for any processes,
streams, graph lengths and numbers of runs, without a hypothesis: `StreamTypeCorrect`
(`TypeOK`), `SentInOrder` (`InOrder`), `StreamsEndLate` (`EndsNotEarly`), `EarlyClients`
(`EarlyClientSeesAll`). A client that shares its process with another stream of the claim,
or whose claim is run twice, need not see all steps, and the last theorem says nothing of
it. `Flow` is the core of the invariant: what waits in a queue
rises, its sentinels aside (`QueueOK`), what a stream was sent comes before what its
queue still holds, although another stream may take from the same queue
(`ReaderOK`), and what was sent is in order (`SentOK`). `FirstRun` says how far the first
run is when its record is final; `Follows` says of a stream that was there before it
and had its queue to itself that what it was sent and what waits for it are all that
was published, until the run can no longer finish or all steps were sent.

`IngestionProofs` proves all properties of `Ingestion` for every corpus, window size and
overlap below it.

- `WindowsMoveOn` (`Spec => []WindowsAdvance`) and `NothingDropped`
  (`Spec => []NoTextDropped`). The strengthening ties the loop's position to the end of
  the last window: it is the overlap before it, or the end of the section after
  the last one. `WindowAssumption` is needed: with an overlap as large as the window
  the loop does not advance, and the settings do not forbid it.
- `CountsExact` (`Spec => []FrequenciesExact`) with `IngestionTypeCorrect`
  (`Spec => []TypeOK`): that a frequency is not negative follows from its being exact,
  so the two are one induction (`CountInv`), over finite tables only.
- `WordsCitable` (`Spec => []EveryWordCitable`). `CiteInv` follows a word from its section
  to the tables: the sections before the place are covered by chunks (`CutUp`), a chunk
  names a section that is behind the place and is named for it (`Placed`, `NamedFor`), so
  ids are distinct when titles are and none reads like a window (`DistinctIds`), so no chunk in the tables has been replaced (`Stored`).

`RagPipelineProofs` proves all safety properties of `RagPipeline` for any processes,
releases, queries and fault bounds.

- `ServingIsSearchable` (`Spec => []ReadyIsSearchable`): the store only grows where it is
  shared, and where it is not only its process empties it, at a start; so what a
  process uploaded before it was ready is still there.
- `RagTypeCorrect` (`TypeOK`), `AnswersCurrent` (`CitationsCurrent`), `OneCandidate`
  (`CandidatesOnce`): an answer keeps, of what the reranker returns, the clauses in the
  tables, which no other process changes; candidates are listed from a set in which a
  clause occurs once, because its score is a function of it.
- `BothComeFirst` (`BothFirst`) if `BothOutweigh`: last place in both lists outweighs first
  place in either. The shipped weights 0.6 and 0.4 meet it up to `rag_k` = 13 (the
  default is 5).
- `LexicalComesLast`, if `DenseOutweighs`: the last place of the dense list weighs more
  than the first of the lexical one, as with 0.6 and 0.4 up to `rag_k` = 10. It proves a
  consequence of the defaults that the specification of retrieval does not want, and no
  run checks it as a property.
- `FusionIsNotEnough` (`FusionNeverSuffices`) if `OneInAll`: the weights add up to at most
  one, as they do by default. The invariant bounds every share by the share of the
  first place.

Their lemmas (`ListedInOrder`, `KeptInOrder`, `FirstOfList`) say what `Listed` and `Kept`
return for any set with a total order: every member once, in order.

`EvalGateProofs` proves all properties of `EvalGate`, for every golden set, every number
of regressed cases and any requests: `GateTypeCorrect` (`TypeOK`), `BrokenNeverMerges`
(`BrokenAgentStopsMerge`), `MergedMostlyPass` (`MergeMeansMostPass`), `PerfectPasses`
(`PerfectOpens`), `CardsComplete` (`ServedIsComplete`). A count of the scorecard is the
cardinality of a set of cases, so the arguments are about sets: a threshold of 100
makes the set of cases with their tool calls everything, and sets of nine tenths each
meet in eight tenths. `OwnResults` says of each request under way that what it has is
the results of the first cases, whatever the others do; with it a finished request has
all of them. `ReleaseOK` keeps what `Possible` says of a release.

Assumptions on constants that the modules name for the proofs and TLC evaluates on
every run: `WindowAssumption`, `CorporaAssumption`, `QueriesAssumption`,
`NumbersAssumption`, `ProcsAssumption`, `MaxRunsAssumption`, `GoldenAssumption`,
`RegressedAssumption`, `HomeAssumption`, `StepsAssumption` and those of `ClaimService` and
`ClaimGraph`. They type the
constants and exclude empty instances; the overlap's is the only one about a setting.

Each proof has one lemma per group of actions and one step per action.

Only model-checked: the liveness properties `ClaimsSettle`, `StreamsEnd` and
`ServesInTheEnd`, since liveness under fairness is beyond TLAPS. Every safety
property, action property and refinement of a passing run is proved. The four
violation runs are counterexamples and have nothing to prove.

## 5. Plan and what is not modelled

Done: the service core, the graph with its agents, the stream, ingestion and
retrieval, the evaluation gate; the theorems above.

Next theorems: the safety half of the liveness arguments, that is, that every step of a
worker, a stream or a startup lowers a measure; `AckedIsProcessed` and `NotAbandoned`
from one invariant.

Not modelled: the web page, prompts, logging and span exporters, the deployment
templates but for what the queue and the store expire, the document extractor (nothing calls it),
and the regulation and policy tables, which hold no state that a property here
depends on; caller roles and the cost summary, which are single pure functions that
a unit test covers entirely; the SDK adapters but for the calls named above.
