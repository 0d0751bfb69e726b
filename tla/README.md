# Verification of Geek-Crawler-Rag

TLA+ models of Geek-Crawler-Rag: its index jobs with their leases and scheduler,
what a job does with its pages, the asset collection, the answers to queries, the
verdicts on quotes, the analyses of supplied pages, and the scripts that clean the
corpus; the TLC runs that check them on small instances, and the TLAPS proofs of
what holds for every instance. Paths below are relative to `src/src/geek_crawler_rag/` unless they
say otherwise. Run things inside this directory:

    tlc -workers 2 -config MC_reposts.cfg MCIndexService
    tlapm IndexService_proofs.tla

## 1. The system

The service reads crawled pages from MongoDB, embeds them and keeps their chunks
in Qdrant, one *index job* per crawl run. GeekAPI posts a run when its crawl
commits; a scheduler catches up with runs nobody posted; operators can kill a
job, pause the scheduler or the intake, and purge a run. GeekAPI is told of every
state change by webhook. Retrieval, citation and ad routes read the index.

| Component | State | Operations | Talks to |
|---|---|---|---|
| Job rows, `status_store.py` | one Mongo document per run: state, attempt, counters, `leaseOwner`, `leaseUntil` | `claim`, `reacquire`, `heartbeat`, `save`, `release`, `is_owned`, `delete`, the two selection queries; each one atomic update | called by all below |
| Index service, `indexer.py` | `_statuses`, `_queue`, `_killed`, the enqueue lock, one worker task, its heartbeat | `enqueue`, `enqueue_scheduled`, `kill`, `get_status`, the worker loop, `stop` | rows, corpus, engine, Qdrant, webhook |
| Status webhook, `webhook.py` | none | `notify`: one POST, errors swallowed, no retry | GeekAPI |
| Routes and lifespan, `app.py` | the service objects | post, kill, get, purge, pauses, start and shutdown order | all |
| Scheduler, `scheduler.py` | one Mongo document: `nextRunAtUtc`, its own lease, the pause; the intake document | `tick`, `pause`, `resume` | rows, corpus, index service |
| Corpus, `mongo.py` | crawl runs and pages, written by GeekAPI | candidate scan, paging, page look-up | |
| Embedding engine, `llama_engine.py`, `embedding_*.py`, `vector_cache.py` | the vector cache, the files of quarantined batches | `embed_and_upsert`: dedup, cache, batches, embed (a local model), upsert; the first failing batch is quarantined and ends the attempt | vector cache, Qdrant |
| Vector store, `qdrant_store.py` | collections | ensure, delete by run or revision, search | Qdrant |
| Page admission, `_admit_page_nodes`, `unusable.py`, `chunk.py`, ... | per run: texts seen, skip counters | which chunks of which page are kept | |
| Retrieval, `query.py`, `rerank.py`, `graph_retrieve.py` | none | search, fuse, rerank, expand | engine, Qdrant |
| Asset context, `asset_context.py`, `context_models.py` | points of a collection of its own, by text and place | `index`, `index_trusted`, `delete`, `delete_trusted`, `query`, `query_runtime`, each under a signed manifest or for a signed caller | embedder, Qdrant |
| Citations, `citation_verify.py`, `block_text.py`, the page routes of `app.py` | none | `POST /v1/verify`, page text by id and by url | corpus |
| Intelligence, `intelligence.py` | none | query plan, page analysis, content gap, competitor audit, over the pages in the request | |
| Cleanup scripts, `scripts/cleanup_unusable_pages.py`, `scripts/purge_runs_except.py` | none; they delete rows, links, points, jobs and runs | dry run, write, apply | corpus, Qdrant, rows |
| Ad templates, diagnostics, positioning, skills, other scripts | none of their own | text, or a single upsert or search | |

What is hard here, and what each component must get right:

- **Index service and job rows.** One asyncio loop, but many coroutines: every
  `await` between a read and the write that depends on it is a window, and a
  crash can fall into any of them. A lease may lapse while its job waits or
  runs; the owner in the filter of a write does not tell an earlier attempt of
  the same process from a later one. Right means: no lease without somebody to
  run its job; no process touches a job another one leases; a result is not
  overwritten; `complete` is said only of an index that is whole; every job ends.
- **Scheduler.** The pause, the due time and the lease are one document that
  several processes update; what a tick selects is stale when it claims. Right
  means: one tick and one scheduled job at a time, at the cadence, oldest run
  first, no finished run again, no ready run forgotten.
- **Lease and heartbeat.** A renewal that keeps failing must give up before
  another process may take over.
- **Embedding engine.** Duplicates and cached vectors leave a flush and come back
  to it; each chunk must end up with the vector of its own text, under the model
  that is deployed, though the cache outlives runs and deployments and is
  written and read in calls that may fail. What is quarantined must be what
  failed.
- **Chunking and page admission.** Slices of a text measure more tokens than they
  span; windows, stubs and repeats drop text, and must not drop a passage
  altogether. A text belongs to the first page that carries it; the counters
  have to add up.
- **Asset context.** Ids are of the text and the place in it, deletion is by
  resource, authorisation is checked before the embedder is awaited, and requests
  cross. Right means: what was answered as indexed is found, what was answered as
  deleted is gone, and no answer leaves its manifest.
- **Retrieval.** Two rankings with gaps, ties and repeats become one, a reranker
  may reorder or fail, and the pages take turns. Right means: nothing is lost or
  said twice, no page crowds out another, and there always is an answer.
- **Citations.** A quote was cut by another program, in another language, from a
  page that may have been crawled again since. Right means: never a false match,
  and no false refusal of a quote cut from the page.
- **Intelligence.** Pages may be supplied in part. Right means: nothing is asserted
  that the rest of the page could refute, and no hypothesis is taken for demand.
- **Cleanup scripts.** Five collections, no transaction, and an indexer that goes by
  another text of the same rules. Right means: children first at every point where
  the script may die, and exactly the rows the rules are about.

The hazards this code is exposed to are listed, each at its line, in
`PROJECT.json`, with the properties that would show them going wrong.

## 2. Modules

| Module | What it is |
|---|---|
| `JobStore` | one job row: the filter and the update of every method of `IndexStatusStore`, as predicates and functions on a row |
| `IndexService` | one process around those rows: enqueuer, worker, heartbeat, kill, GET, purge, stop, crash, restart, Qdrant points and status frames |
| `JobLifecycle` | what readers of the rows are promised; `IndexService` implements it |
| `IndexScheduler` | the scheduler's document, several processes' ticks, both pauses, manual posts, over the same rows |
| `Lists` | pure: what the code does to lists, a comprehension (`Filter`, `Dropping`) or a sum (`Total`) |
| `Chunking` | pure: from the blocks of a page to windows, units, stubs and nodes, and the verdict on a page |
| `PageIndex` | one process's attempts on runs, text by text: admission, flushes, the vector cache, batches, the circuit, the collection |
| `LeaseTimer` | one job's lease and heartbeat against the clock, among several processes |
| `AssetContext` | the asset collection: requests that verify, await the embedder and then write, delete or search |
| `Retrieval` | one query: two searches, fusion, pool, reranker, the selection loop step by step |
| `Quotes` | pure: the projection of blocks to text, and whether a quote is in it |
| `Verdicts` | the citation routes, read by read, beside a corpus that changes |
| `Intelligence` | pure: what is concluded from supplied pages |
| `Analyses` | the routes of `Intelligence` and their input models |
| `CorpusCleanup` | the two deleting scripts, call by call, beside an index job |
| `MCIndexService`, `MCIndexScheduler`, `MCPageIndex`, `MCAssetContext`, `MCRetrieval`, `MCVerdicts`, `MCAnswers`, `MCCorpusCleanup` | the small instances; `MCAnswers` composes `Verdicts` and `Analyses` |
| `IndexService_proofs`, `IndexScheduler_proofs`, `PageIndex_proofs`, `AssetContext_proofs`, `Retrieval_proofs`, `CorpusCleanup_proofs` | theorems about the module they are named after; those about `LeaseTimer` are in `IndexService_proofs` |
| `Answers_proofs` | theorems about `Quotes`, `Verdicts`, `Intelligence` and `Analyses` |
| `Lists_proofs` | lemmas on lists and recursive functions that three of the others rest on |

### JobStore

A row is `state`, `owner`, `live` (leaseUntil > now), `attempt` and `chunks`. What
a process holds, `Status`, is the same without the lease, as
`IndexStatusResponse` is: `save` can never write lease fields. `chunks` stands for
all counters. Each module decides when an update reaches Mongo.

### IndexService

The process is one loop, so the code between two awaits is one action. A read
that is acted on after an await is two actions (`KillRead`, `KillAct`); a write
takes its payload when it is issued and reaches Mongo in an action of its own
(`WorkerSave`), where the store's filter may reject it, the call may fail, or
fail after having been applied. The program counters `w.pc`, `e.pc`, `k.pc`,
`g.pc` and `d.pc` are the await points of the worker, the enqueuer, a kill, a
status GET and a purge.

- `w.next` is what follows the save under way. `save` with next = `"loop"` is
  `_persist(notify=False)`.
- `w.alias` says whether `_statuses[run]` is still the object the worker mutates.
  `get_status` and a refused post put a fresh copy there (`Replace`), and the
  exception handlers of `_worker_loop` read `_statuses`: what they fail depends
  on it.
- `Finally` is the `finally` of `_worker_loop`, `Handler` its three handlers,
  `Continue` the return of `_persist`.
- `Heartbeat` is enabled wherever the heartbeat task exists, the terminal save's
  webhook included. Not finding its row it cancels the job where it stands.
- `pts[r]` is the number of batches the current attempt has in Qdrant and whether
  any are left of an earlier one. One batch is `page_batch` pages embedded and
  upserted; that a batch that fails may have left points is a choice in
  `WorkerEmbed`.
- `StopBegin` to `StopDone` are the shutdown: requests are drained, the scheduler's
  enqueue is cancelled wherever it is, the worker is cancelled, `stop()` fails
  what `_statuses` shows as active. `Crash` is SIGKILL at any point. Both lead to
  a process with a new owner and empty memory. An older process's owner is never
  used again, so `me` counts processes.

Disturbances (posts, kills, lapses, failures, crashes, ...) are counted in
`left`; the mix is chosen among the constant `Budgets` at the start, so that one
run covers several mixes. `MaxBatches` bounds the batches of one attempt.

### IndexScheduler

Times are distances from now (`due`, `lease.time`), which keeps the state space
finite though the clock never stops. Every await of `tick` is an action. A tick
keeps what it read (`tick[p].not`, `tick[p].run`). What the worker does with a
job is one step here (`JobEnds`, or `JobAbandoned` for the ways `IndexService`
shows a job can be lost). `ready` is the order of `ContentReadyAt`. `since` is a
history variable, not code: the time since the last scheduled claim; a tick
that was never completed voids it, because it leaves `nextRunAtUtc` behind.
When a process dies its owner becomes `Gone`: no later filter can match it.

`TicksFit` is an assumption on the configuration: that no tick outlasts the
scheduler's lease (900 s for a handful of Mongo queries and one count per
candidate run). The code does not renew that lease, and nothing stops a longer
tick.

### Chunking and PageIndex

A text is a sequence of tokens. Of a token the model keeps what the code tells
apart: whether it continues a word (`Joined`: a slice that starts there measures
one token more, `Measure`), whether it is a word at all (`Marks`, for
`is_stub_text`) and what `sanitize_embedding_text` leaves of it (`Clean`, for
texts that differ in zero-width characters only). A cut word costs one token
more; the code's own comment has measured up to two, and `FitWindow` does not
depend on how many. `ChunkingAssumption` is what `chunk_text` and
`parent_child_units` refuse with a `ValueError`; `PageIndexAssumption` that the
pages of a run have ids of their own and their blocks are texts, and that a
parent fits a batch. What a comprehension or a sum of the code does is a recursive
function (`Filter`, `Total` of `Lists`), and an upsert is a set, so that proofs can
follow them.

A page is its blocks, what its row says against it (`faults`) and whether its text
is English; `Verdict` takes the checks in the code's order. `Units` and
`PageNodes` are evaluated once per page (`UnitsOf`, `NodesOf`).

`PageIndex` is `_index_run` and `embed_and_upsert` with an action at each await:
delete, next page, cache read, each embed call, cache write, upsert. `job` holds
the locals of the attempt and its status, `flush` those of a flush. Everything
`IndexService` models around an attempt (lease, saves, kill, restart) is
`Abandon` here. Failures:

- A cache read that fails is a miss of every text; a cache write that fails has
  written a prefix; neither ends the attempt.
- An embed call that fails opens the circuit: the batch is written to a file
  (`quarantine`; empty if the directory is unusable), the attempt fails, and no
  call is retried.
- Any other call that fails ends the attempt, with the delete applied or not and
  a prefix of the upsert written (`Landed`).

`Deploy` changes the embedding model between attempts. Two branches of the code
cannot be reached and are not in the model: a text that is empty once sanitised
(stubs are dropped before), and an answer with fewer vectors than texts (`TypeOK`
states that there are as many).

### LeaseTimer

Only differences of times matter, so nothing is counted up without an end that is
not history: `remaining` counts down to `leaseUntil`, `beat` to the end of the
heartbeat's sleep, `age` counts from the `now` of a heartbeat call, `since` from
`last_success`. `Tick` waits for a sleep that is over and for a call that has taken
`Delay`, the longest the driver lets one take. A call raises before or after its
update was applied. `firm` and `over` are history: whether this execution took or
renewed the lease itself, and how long it has run on without one. The lapse which
`IndexService` allows at any time is what this module times. `LeaseAssumption` says what
a deployment has to see to: a heartbeat, and the longest call, shorter than the lease. The
code refuses neither `index_job_heartbeat_seconds >= index_job_lease_seconds` nor a slower
driver; without it the bounds fail.

### AssetContext

It extends `Chunking`, whose `ChunkText` also cuts assets. A digest is the text it
is of; a signature is whether it verifies. `task[t]` is a request past its
verification, at its one await; `points` maps ids to payloads. `told` is history:
what the caller of the last request on a resource may expect, or `Open` when that
request failed or crossed another. Which of the matching points are nearest is a
choice of any `TopK` of them. `VersionsAssumption` says that manifests give a resource of a
version one text (context_models.py:437 calls the version ID immutable): a deletion under
a manifest takes the points of the exact entry only, so one of a re-used version would leave
the points of the other text. A signed deletion takes them all. `TextsAssumption` says no
more than that assets are texts of tokens.

### Retrieval

The two searches return any arrangement of the points that match the filters: all
of them, nearest first, for the meaning half, and some of them for the keyword half.
Scores of the fusion are fractions compared exactly. The selection loop of
`_select_ranked_candidates` goes candidate by candidate: `turn` is the place in
`page_order`, `cursor` the one of the code, `round` the pass of the outer loop.

### Quotes and Verdicts

A text is a sequence of tokens: words, the bar between cells, and markup spelt with
escapes. `RenderElsewhere` is the C# projection, as the comment on
`_EMPTY_CELL_RUN` describes it, and is not code of this repository.
`Verdicts` reads one page per await and judges all quotes after the last; between
any two reads a page may be saved again or deleted. `seen` and `touched` are
history: the documents there have been since the request came, and the ids that
changed. `DocumentsAssumption`, `RequestsAssumption` and `CorporaAssumption` say what the
documents, requests and corpora are made of; none of them restricts the code.
`OwnQuotesAreFound` is about blocks whose own words have no bar (`Barless`): see
`MC_own_bars` below.

### Intelligence and Analyses

A page is its lines, and a line the dimensions whose patterns match it and what it
says as `<<topic, spelling>>`, so that `_normalize_signal` and `_unique` differ as in
the code. The patterns themselves are data. `ValidAudit` and `ValidPlan` are the input
models; a body they refuse never reaches the service. The rows of a plan are ordered by
score (`ByScore`); rows of one score keep the order they were made in, where the code
goes on to compare their texts, which no property tells apart. `PlanBodiesAssumption` says
that a body of a plan names queries and topics.

### CorpusCleanup

Each Mongo or Qdrant call of a script is an action, and `ScriptEnds` may come after any
of them. Pages are kinds: what the Mongo queries (`Matches`) and the classifier
(`Classify`) look at. One index job per run reads a page in one step and upserts it in
a later one. `before` and `cleaned` are history.

## 3. Runs

Every passing run is exhaustive within its bounds.

| Run | Instance | Shows |
|---|---|---|
| `kills_and_stops` | one run, 1 batch; mixes: 2 posts, a tick, a kill, a lapse / 2 posts, a kill, a stop, a crash / 2 posts, a purge, a GET, a stop | `TypeOK`, `LeaseInHand`, `OthersLeaseRespected` |
| `reposts` | one run, 2 batches; mixes: 3 posts, a lapse, a GET, a lost frame / 2 posts, a lapse, a GET, a crash, a failing step | `ResultStands`, `ImplementsLifecycle` |
| `failures` | one run, 2 batches; mixes: 2 posts, a lapse, a crash, 2 failing store calls, a lost frame, a failing step / a post, a tick, a kill, a stop, a failing store call, a lost frame | `CompleteIsWhole` |
| `jobs_end` | two runs, 1 batch, fair; mixes: 3 posts, a lapse, a lost frame / 2 posts, a kill | `UnkilledJobsEnd`, `LeasesEnd` |
| `scheduler` | two runs, two processes, interval 2, lease 1, 2 attempts, fair; mixes: a post, a lost job, a failing step / a crash, a lost job, a failing completion | `OneTickAtATime`, `OneScheduledJob`, `Cadence`, `NeverReruns`, `OldestFirst`, `ReadyRunsSettle` |
| `pages` | two runs, four page lists of seven pages, two models of one width, batches of 3 texts and 8 tokens, parents of 5 overlapping 2, children of 3 overlapping 1; 2 attempts, 2 failures, a deployment; runs and models symmetric | `VectorsMatch`, `OnePageOwnsText`, `CountersAddUp`, `QuotesSurvive`, `BatchesFit`, `QuarantineIsExact` |
| `lease_timer` | three processes, lease 8, heartbeat 2, calls of up to 2 | `GivesUpInTime`, `OverrunIsBounded` |
| `assets` | two owners, six revisions, three manifests and three runtime manifests, two requests at a time and four in all, the 3 nearest points; and the places of every text of up to 5 tokens over 3 | `PlacesAreOwn`, `IndexedIsFound`, `DeletedIsGone`, `AnswersStayInside` |
| `cleanup` | five pages of two runs, three corpora, nine command lines, 3 scripts and an index job | `RejectsStayGone`, `CleanupIsExact`, `ChildrenGoFirst` |
| `retrieval` | three stores of four points on two or three pages, eight requests, every pair of halves, every answer of a reranker; fair | `FusedFairly`, `NoRepeats`, `PagesTakeTurns`, `NothingDropped`, `QueryAnswered` |
| `answers` | six documents of two pages in two runs, every corpus of them, bodies of one and two quotes out of ten, two changes of the corpus; and audits of one or two pages on either side with up to 3 lines, plans of up to 2 queries and 2 topics | `FoundIsOnThePage`, `OwnQuotesAreFound`, `OneReading`, `GapsAreExact`, `AssertionsSurvive`, `PlanInventsNoDemand` |

Why the bounds are enough to be interesting. Runs do not share anything but the
worker, the enqueue lock and the queue, so safety is checked with one run,
which must be re-posted to get into trouble (two posts put it into the queue
twice; three let a third overtake), and liveness with two, where one can starve
the other. Two batches are the least for which a partial index differs from an
empty and from a whole one. Two processes' schedulers are the least that
compete; two runs the least with an order. `MaxAttempts = 2` lets a run both be
retried and be given up. Pauses are not bounded at all.

In `pages`, two attempts are what it takes to meet a cache, and points of the
same run, left by an earlier one; two failures let a cache write be lost and the
attempt be broken off; two models of one width are the case in which only the
cache's key tells their vectors apart. The page lists have a footer that repeats
within a page, on another page, and with a zero-width character in it; a section
windowed twice over, with windows that must shrink because they begin inside a
word; a parent whose first child is a stub; pages that are unusable each way;
pages that fill a flush of several batches, and a rest below a flush.

In `lease_timer` a lease of 8 leaves room for several renewals that fail one after
the other, and calls last as long as a sleep; three processes are one that
overruns, one that takes over, and one that overtakes both. In `assets` three
requests on one resource and one on another interleave two at a time; a text in
which all pieces are alike, one with pieces that begin inside a word, and a
resource extracted twice are among the revisions. In `cleanup` the second and third
script find what the ones before left, and the corpora hold each kind of row the
queries or the classifier tell apart, several at once on one row included. In
`retrieval` the fetch and the pool (3) are smaller than the store, and a store has a
section and its child, two pages with one text, and a page with two sections. In
`answers` two changes are what it takes to change both pages of a request, or one
page and back; `MaxRows` is 2, so that the cut-off of matches is met.

What the properties say, in the code's terms:

- `LeaseInHand`: a pending or running row this process leases is in its queue, in
  its enqueuer's hands or its worker's. It is false of a store that fails: a
  claim that was applied though its call raised is leased by nobody who knows.
- `OthersLeaseRespected`: claim, reacquire, kill, stop and late saves leave a job
  that another process leases alone; only a purge and time touch it.
- `ResultStands`: a terminal row is only queued again or purged. Kills are left
  out of its run: see `kill` below.
- `CompleteIsWhole`: a `complete` row counts exactly the batches in the index and
  none is left of an earlier attempt, whatever crashes, fails or lapses.
- `ImplementsLifecycle`: rows and index together go only through the steps of
  `JobLifecycle`. In particular only a queued run starts, only an active one
  ends, and nothing writes to the index of a finished one.
- `UnkilledJobsEnd`, `LeasesEnd`: every job nobody kills ends, and no lease is
  kept for ever, killed jobs' included.
- `Cadence` uses `since`; `NeverReruns` and `OldestFirst` compare what a tick
  selected with the rows at the moment it claims.
- `ReadyRunsSettle`: once nothing stays paused, every ready run gets a job that
  ends, or its attempts are used up.
- `VectorsMatch`: whatever the cache held, lost or gave back, a point's vector is
  its own text's, under the model it is stamped with.
- `OnePageOwnsText`: two points of a run with the same embedded text are of one
  page, also after attempts that broke off and were taken up again.
- `CountersAddUp`: each page read is counted once, each node is upserted, pending or
  a repeat, and `chunks_upserted` is what the collection holds, so that no two
  nodes of a run share a point id.
- `QuotesSurvive`: once a run is complete, every passage of an indexed page that is
  no longer than the overlap of parent windows is held whole by some point,
  wherever windows and words were cut and whatever was dropped as a repeat. The
  exception is text which only lies in windows all of whose children are stubs.
- `BatchesFit`: no text, and no batch, exceeds what the model takes, and the batches
  under way are exactly the texts still missing.
- `QuarantineIsExact`: the quarantined items are texts of the page they name, and
  were not indexed.

- `GivesUpInTime`: a job that took or renewed its lease while it ran gives up before
  the lease is another's to take, or less than two heartbeat calls later;
  `failure_limit` leaves room for one sleep and none for the calls.
- `OverrunIsBounded`: a job that started on the rest of an old lease may lose it at
  once, and then runs on for less than the length of another lease and a call.
- `PlacesAreOwn`: the pieces of a text get places of their own, in order, each of which
  holds its piece. `IndexedIsFound`, `DeletedIsGone`: as their names say, of a resource
  with no later request on it.
- `AnswersStayInside`: an answer has points of the manifest's entries only, whatever was
  written or deleted after the manifest was verified.
- `RejectsStayGone`: a page the cleanup deleted as rejected has no points and gets none,
  though an index job of its run is under way.
- `ChildrenGoFirst`: at every step, links go before their page and pages before their run.
- `CleanupIsExact`: a write takes exactly what the indexer would skip, within its limit
  and with the right figures, and the dry run foretells it.
- `FusedFairly`: the fusion keeps each node once, prefers what both halves found, and
  keeps an order the halves agree on. `NoRepeats`, `PagesTakeTurns`, `NothingDropped`: the
  selection gives each text or section once, a passage per page and round, and leaves
  out repetitions only. `QueryAnswered`: it ends.
- `FoundIsOnThePage`: found means that the words stood on a page which might be cited,
  at some time while the request was open. `OwnQuotesAreFound`: what GeekAPI cut from a
  page that stays as it is is found. `OneReading`: one answer judges one version of a page.
- `GapsAreExact`: between pages that are not cut off, the gaps and the evidence they
  name are those there are. `AssertionsSurvive`: nothing asserted of a partial page is
  refuted by a line that was not supplied. `PlanInventsNoDemand`: hypotheses neither
  repeat nor displace a supplied query, nor get a high priority.

`MCAnswers` composes two services without shared state. It lets the analyses run only
beside an empty corpus and no open request: any other interleaving differs in nothing
that a property of either reads.

Fairness. `IndexService`: weak fairness of the worker, of the enqueuer, of a kill
under way, of a GET and of a purge, each only in steps that do not spend a
disturbance. That is an asyncio loop which runs every ready coroutine, and
clients of Mongo, Qdrant and GeekAPI that answer or time out. Nothing is assumed
of requests, lapses, heartbeats, stops or crashes. `IndexScheduler`: weak fairness
of each process's tick, of the clock, of a leased job's end (`jobs_end` is
about that) and of the lapse of a dead process's lease. `Retrieval`: weak fairness of
a failing search or reranker, since a call that does not answer in time raises, and
of the steps between awaits.

Deadlock is not checked in `MCIndexService`, where the process does wait for ever
once the disturbances are spent, nor in `MCPageIndex`, `MCAssetContext` and `MCCorpusCleanup`,
where the attempts, requests and scripts are used up, nor in `MCRetrieval`, where a query
that was answered is over; in the other runs it is.

### Disagreements

`kill_abandons` (`NoAbandonedJob`), with the fewest disturbances that show it: `kill` sets
the flag and awaits its save; the worker dequeues the run meanwhile, skips it because
"kill() already recorded the terminal state" (indexer.py:356) and releases the lease;
then the kill's save is rejected. The row stays pending, unleased, with nobody to
run it.

### Further behaviours of the model

Met while modelling. The first of them have a configuration which shows each as a
violated property, `tlc -config MC_<name>.cfg <module>`:

- `MC_lease_stripped` (`MCIndexService`, `LeaseKept`): a re-post is accepted once the
  terminal row is saved and its frame is still being sent. The new claim has the same
  owner, so the first job's `release` clears the new lease. The queued job is saved by
  `reacquire` if its turn comes first.
- `MC_purge_races` (`MCIndexService`, `NoOrphanPoints`): DELETE removes the points and the
  row, but not the queue entry nor the running job, which goes on to write points.
- `MC_frame_lost` (`MCIndexService`, `TerminalFrameSent`): once the terminal row is saved
  the heartbeat's filter no longer matches; firing before the frame has been sent, it
  cancels the job and the frame with it ("Every terminal state notifies",
  indexer.py:328).
- `MC_intake_gate` (`MCIndexScheduler`, `IntakeHolds`): a post reads the gate, awaits, and
  claims after the intake was paused ("Refuse all new index jobs until resumed",
  app.py:464).
- `MC_two_indexers` (`LeaseTimer`, `OneIndexer`): a job that starts on what is left of its
  lease can lose it before the first renewal, and another process runs it too.
- `MC_shared_text` (`MCAssetContext`, `IndexedIsFound`): the id of an asset's chunk is of its
  text and place alone, so that a second version, or another owner's asset, of the same
  text takes the points over, and the first version, indexed as far as its caller knows,
  has none.
- `MC_passage_quotes` (`MCVerdicts`, `PassageQuotesAreFound`): a quote with an empty cell,
  `A |  | B`, cut from a retrieved passage is not found on its page: the runs of bars
  collapse in the page's text and not in the quote ("so a quote cut from a retrieved
  passage is checked against the text that passage came from", `verify_quotes`).
- `MC_own_bars` (`MCVerdicts`, `ComparableQuotesAreFound`): a page whose own words have two
  bars in a row, `a || b` in a code sample, refuses the quote of that line: the runs of bars
  collapse in the page's text (citation_verify.py:67) and not in the quote. The docstring
  (line 60) says the two projections "compare equal" but for escape sequences in code.
- `MC_both_beat_one` (`MCRetrieval`, `BothBeatOne`): a node at ranks 63 and 62 of both halves
  scores less than one at rank 1 of one half (llama_engine.py:60 says it "outranks one
  either half returns alone"); within 60 ranks it cannot, and `FusedFairly` says so.

And these are said of the code without one:

- Two requests of a manifest may name one version and resource with two digests;
  `_assert_payload_in_manifest` looks at the first only, and the query raises.
- A trusted resource indexed again with another text keeps the chunks of the old one
  until it is deleted; `query_runtime` returns both.
- The dry run of the cleanup ignores `--limit` in its fast steps, whose `would_delete` may
  exceed it (the docstring says it "bounds the same thing in both modes"); and the locale
  scan, a step too, does not report at 0.
- `purge_runs_except` deletes no points, reads the jobs in flight once, and a post may come
  in between; it looks at neither the scheduler nor a crawl that is under way.
- A blank `FailureReason` is deleted by the cleanup's query and indexed by the classifier.
- A table cell which is nothing but escaped markup is empty here and not in C#, so
  that a quote over it is refused.
- The lookup of a page by url takes any of the pages that have it: a condemned one
  hides a page which might be cited.
- A competitor page with one heading twice makes `content_gap` raise (`zip(...,
  strict=True)`, intelligence.py:331: signals are unique, their evidence is not), and the
  route answers 500.
- Only the first 20 matches of a dimension are kept: a subject's heading beyond them is
  reported as a supported gap. `SupportedGapsAreAbsent` in `Analyses` is false for pages
  of more than `MaxRows` lines; `GapsAreExact` is about those that are not cut off.
- "{topic} alternatives" is not classified as commercial, because the pattern has
  "alternative" between word boundaries; a hypothesis of up to 65 points may come before
  an observed query of 60; and two pages of one competitor give two actions the same
  `action_id`.

The rest are reachable in `IndexService`:

- A kill of a pending job the worker starts before the kill's save arrives is
  overwritten by the worker's `running` (indexer.py:195; the docstring at 157
  promises "Terminal immediately"). This is why `ResultStands` and
  `ImplementsLifecycle` are checked without kills.
- `_enqueue` sends its own frame, so a pending frame of a re-post and the worker's
  terminal frame can be in flight together; `src/plans/persist-return-value-is-ignored.md`
  says they never are.
- A graceful stop can leave a job pending or running: a scheduled enqueue
  cancelled after its claim, or an enqueue whose save arrives after a kill's, is
  not in `_statuses` as active when `stop()` looks. Its lease has to lapse first.
- `save` is filtered on run and owner, so after a lapse and a re-post by the same
  process the first attempt's progress, its attempt number included, lands on the
  second attempt's row.
- A terminal save that fails is logged and the lease is released: the row stays
  running until the scheduler claims it again (`ReadyRunsSettle` is about that).
- The scheduler's limit on attempts is part of its selection and not of its claim.
- llama_engine.py:419-421 expects a repeat to reach the flush "only on a retry whose
  repeat set lacked a text". Every attempt starts with an empty `text_owners` and
  deletes the run's points first, so a retry lacks nothing; repeats within one
  page do reach it.

## 4. Proofs

Every theorem holds for every value of its module's constants, under the assumptions the
module states: for every set of runs, processes, pages, revisions, manifests, documents and
command lines, and every interval, lease, heartbeat, delay and bound.

**IndexService_proofs**

- `TypeCorrect`: `[]TypeOK`. Rows, statuses and task records are closed under the
  store's operations; one lemma per group of actions.
- `NoLeaseIsLost`: `[]LeaseInHand`, if no store call fails. The invariant alone is
  not inductive: that the enqueuer's claim is in hand after it says nothing of
  what the enqueuer, the kill and the worker will write. `LeaseInv` adds
  `OwnersKnown` (no row has an owner of the future, so a new process leases
  nothing), `StoreAnswers` (the budget stays 0) and `KillWritesFailed` (a kill
  under way only writes `failed`: its save cannot bring a job back).
- `CompleteMeansWhole`: `[]CompleteIsWhole`, if nobody purges. `WholeInv` says that
  every row that says complete is whole (`Settled`), what the worker's status
  object counts at each of its await points (`Carried`), that until the terminal
  save of a run lands its row is not complete (`Unfinished`) and that the enqueuer
  writes only `pending`, a kill only `failed` (`OthersWrite`).
- `OthersUntouched`: `OthersLeaseRespected`, whatever happens. No inductive invariant
  is needed: every step changes a row by an update of the store under its filter
  (`Update`, one lemma per handler), and of those only the lapse and the purge do
  without the owner.
- `ResultsStand`: `ResultStands`, if nobody kills or stops and the store answers.
  `Says` is what the worker's status object says at each await of a job, and
  `EndsInHand` that a terminal row this process still leases is the job the worker is
  just over with; so neither `claim`'s filter nor a late save meets a result it could
  overwrite.
- `LifecycleImplemented`: `ImplementsLifecycle`, if besides nobody purges. Its invariant
  is `ResultInv` with `WholeInv`, and that a worker inside a job has an active row
  (`ActiveWorker`); each handler then maps to one step of `JobLifecycle` or to none.

The hypotheses of the last two leave out nothing that TLC would let in: from `reposts`
with one kill, one stop or one failing store call added it finds a violation of either,
and with a purge added a violation of `ImplementsLifecycle`.

Of `LeaseTimer`, in a part of its own at the end of `IndexService_proofs`:

- `ClocksAgree`: `[]IInv`, which is about one process at a time. `LastSuccess` bounds how old
  the last success is at each point of the loop (an error is forgiven only below
  `failure_limit`, then come one sleep and one call); `Renewed` and `FirmLease` say that the
  age of the last success and what is left of the lease add up, from the moment a renewal was
  sent; `Overrun` that an overrun is younger than the last success. That other processes do
  not disturb this is one lemma, `OthersKeep`: nobody takes a lease that is held.
- `FirmJobsGiveUp` and `OverrunsEnd`: `[]GivesUpInTime` and `[]OverrunIsBounded` follow by
  arithmetic.

**IndexScheduler_proofs**

- `SchedulerTypeCorrect`: `[]TypeOK`.
- `OneTick`, `OneJob`, `CadenceKept`, if `TicksFit`: they rest on `TickInv`, that
  whoever is inside a due tick holds the lease and it has not run out. `OneJob`
  adds `JobInv`: a tick that found no active job finds none of the scheduler's
  until it claims one. `CadenceKept` adds `CadenceInv`: outside ticks,
  `due + since >= Interval`, and a tick that has not claimed yet still has
  `since = Interval`.
- `FinishedStaysFinished`: `NeverReruns`, for ticks of any length: a claim that is not
  forced filters on the state it meets, not on the one the scan saw.
- `OldestGoesFirst`: `OldestFirst`, for ticks of any length. `OrderInv` says that what a
  tick excludes has a row, and so has every run that was ready before the one it took:
  no step removes a row, and runs only become ready behind those that are.

**PageIndex_proofs**

- `PageIndexTypes`, `VectorsAlwaysMatch`, `OnePageOwns`, `QuarantineExact`: the conjuncts
  of one inductive invariant, `PageIndexInv`. `CacheKeyed` says that every vector lies
  under its own model and text, `FlushCovers` that each text of a flush was found or is
  missing and that the vectors at hand are those of the first texts missing, in order, so
  that the `zip` of the code is right; `TextsOwned` that a text which is pending or in the
  collection is owned by its page; `PendingWasRead` and `PointsWereRead` of which
  pages the two are.
- `BatchesAlwaysFit`: a window fits its size because `FitWindow` measures it (`WindowFits`,
  `ChunksFit`), so every node fits a parent (`PageNodeTypes`); and the loop of
  `partition_embedding_batches` loses no text, repeats none, and closes a batch before it
  is too large (`PlacedFits`, `PartitionFits`).
- `CountersAlwaysAddUp`: `CountInv` on top of `PageIndexInv`. A page emits nodes of
  different keys (`PageNodesApart`: a child has the key of its unit, a parent is emitted
  with the first of its units only), no two nodes pending share a page and a key
  (`Apart`), so that an upsert replaces no point (`UpsertHolds`) and adds as many as it has
  nodes (`UpsertCounts`, a bijection).
- `QuotesAlwaysSurvive`: half of it is about `Chunking`. A passage no longer than the overlap
  lies whole in the window of the last step before it, or in the last window there is
  (`PassagesAreInWindows`), although a window may be cut one token short (`WindowReaches`);
  that window is a parent, its children are units (`WindowsAreParents`,
  `ChildrenAreUnits`), and a child that is kept brings its parent's text as itself or with
  the first of its siblings (`KeptSaysItsParent`); sanitising does to the passage what it
  does to the window (`SanitizedHolds`). The other half is `HeldInv`, on top of
  `PageIndexInv` and `CountInv`: the text of every node that was read is pending or in the
  collection (`ReadIsHeld`), those dropped as repeats because an owned text is
  (`OwnedIsHeld`).

**AssetContext_proofs**

- `DeletionHolds`: `[]DeletedIsGone`. That a deleted resource has no points is not inductive:
  a request under way could write some. `GoneIsQuiet` adds that none is, because each request
  on a resource opens what was told of it, and one that was crossed settles nothing.
  `DeletionIsWhole` is where `VersionsAssumption` is needed.
- `AnswersAreAuthorised`: `[]AnswersStayInside`, from the filters alone, whatever the
  collection holds.
- `IndexedStays`: `[]IndexedIsFound`, if two revisions of one text are of one resource and
  version. `ToldIsThere` adds that no request is under way on a resource whose indexing
  was answered. The hypothesis is not for the proof's sake: the ids are of the text alone,
  and `MC_shared_text` shows a second resource of the same text taking the points over.
- `PiecesHaveTheirPlaces`: `[]PlacesAreOwn`, if half a child window is no longer than a step
  (`config.py:82-83`: windows of 200 in steps of 160). The k-th piece is what the text has
  k - 1 steps on (`PiecesAre`); `find` never goes past that place, and the next search
  starts before the next one (`OwnPlacesAre`). Without the hypothesis it is false: the search
  from the middle of the last piece may start behind the next one.

**Retrieval_proofs**

- `FusionFair`: `[]FusedFairly`. The place of a node is the number of nodes that precede
  it. `Precedes` is a strict total order, by multiplying the fractions out, so no two
  nodes have one place and `Fused` is a permutation of what the halves returned. A node that
  both halves rank has a score above any single one only while its ranks are at most
  `RRF_K`, so `FusedFairly` is bounded to those ranks; a query for more
  than 30 passages fetches more than 60 (`MC_both_beat_one`).
- `NothingRepeated`, `PagesInTurn`, `OnlyRepeatsDropped`, `RetrievalTypes`: one loop
  invariant, `RetrievalInv`. `SeenIsSelected` says what the sets of the loop hold,
  `LookedAt` that a cursor has passed represented passages only, `TurnsTaken`,
  `GivenAtTurn` and `RoundsDone` which pages have given a passage in the round under way
  and in those that are over, and `RoundsAdmit` that each round gave one.

**CorpusCleanup_proofs**

- `RejectsAreGone` and `NoOrphans`: `[]RejectsStayGone` and `ChildrenGoFirst`. `BatchInOrder`
  says of each point where a cleanup may die what its batch has lost already, `PurgeInOrder`
  the same of a purge, and `HeldIsUsable` that an index job holds no page a cleanup could have
  deleted as rejected, so that its upsert, however late, brings no point back.
- `CleanupExact`: `[]CleanupIsExact`. `CleanupInv` follows the script through its batches:
  what it took was there and could go, and is what it counted (`TakenIsCounted`), taken and
  in hand stay within the limit (`WithinLimit`), and no row is left that a stage which is
  over asks for, unless the limit is spent (`FastIsDone`, `ScanIsDone`); a dry run has
  counted each row once or will (`DryRunCounts`). That the stages do not overlap
  makes the counts of a dry run add up (`ApartAddUp`).

**Answers_proofs**

- `VerdictsAgree`: `[]OneReading`, since an answer judges every quote by `read`, which has one
  document for a page and does not change once the page was read (`JudgedByReading`).
- `FoundQuotesAreThere`: `[]FoundIsOnThePage`. `VerdictsInv` says that what was read is a
  document there has been since the request came (`ReadInv`, `SeenInv`, `PagesInv`). That
  found means found of the words, not of bars or markup, is about `Quotes`: cleaning,
  joining and collapsing bars each drop tokens which are no words, wherever they are done
  (`DroppingFlatten`, `DroppingAgain`), and a text in a text has the other's words around
  its own (`IsInSplits`, `SplitIsIn`).
- `OwnQuotesAreThere`: `[]OwnQuotesAreFound`. Block by block, row by row and cell by cell, the
  projection here is the one of `RenderElsewhere` once its runs of bars are one
  bar; so a quote of it, which has been through the same, is in it.
- `GapsExact` and `PartialPagesAssertNoAbsence`: `[]GapsAreExact` and `[]AssertionsSurvive`, from
  which lines of a page match a dimension, and that a partial page's missing lines add
  matches and take none away.
- `PlansInventNoDemand`: `[]PlanInventsNoDemand`. The places of the rows by score are a
  permutation of them, the supplied queries among these as they were; the hypotheses are
  the first candidates that no supplied query says already, each with a score of 65 at
  most, below what a high priority takes.

**Lists_proofs**

The windows, the batches, the selections and the sums are recursive functions over data,
and the provers have no induction rule they can instantiate with an operator. Here a
property is a set of numbers (`Upto`), a recursion is a function (`Recursion`,
`OnlyRecursion`, from `LeastNat`), and of each recursive helper it is shown once what it
unfolds to (`FilterUnfolds`, `TotalUnfolds`, `FlattenUnfolds`); what it types, keeps and
distributes over follows from that.

**What is only model-checked**

- Liveness: `UnkilledJobsEnd`, `LeasesEnd`, `ReadyRunsSettle`, `QueryAnswered`. It is out of
  the prover's reach: it rests on fairness. Every other property of the passing runs is a
  theorem.

## 5. Plan

Done: `JobStore`, `IndexService`, `JobLifecycle` with its refinement, `IndexScheduler`,
`Chunking`, `PageIndex`, `LeaseTimer`, `AssetContext`, `Retrieval`, `Quotes`, `Verdicts`,
`Intelligence`, `Analyses`, `CorpusCleanup`, `Lists`, and their runs. What is left:

1. `diagnostics.py`: the readiness score of one page and `readiness_comparison`, whose bounds and
   ties are arithmetic of fixed weights.
2. `IndexStatusStore.claim_recoverable`, once something calls it, and the theme step of
   graph mode.

## 6. Not modelled

- `claim_recoverable`: nothing calls it. `status_store is None`: only tests.
- The re-sync of `enabled` and `intervalSeconds` from the configuration: every
  process runs with the same one.
- `iter_pages`: one cursor over the pages of a run in the order they were crawled; an
  attempt of `PageIndex` reads a list of pages that does not change under it.
- Rendering of blocks, language detection, URL patterns and the metadata inferred
  of a page: data of `PageIndex`. Sparse vectors, which are computed with the
  upsert.
- Diagnostics, positioning, entity map, schema markup, skills: scores and wording computed
  of one supplied page or list. Ad templates: one upsert and one search.
- Of retrieval: graph mode's themes, logging, and the score bands. Of assets: parsing of
  media types, the arithmetic of signatures, coordinates given by the caller.
- The other scripts: they read and print, or send one request by hand.
- The webhook's payload and its ordering guard, which are GeekAPI's.
