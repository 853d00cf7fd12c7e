# Verification of back-end-tcc

TLA+ models of the three services of this repository, TLC configurations that
check them on small instances, and TLAPS proofs for instances of any size.
Paths are relative to `src/services/` unless they begin with `src/`.

- [1. The system](#1-the-system)
- [2. The modules](#2-the-modules)
- [3. The runs](#3-the-runs)
- [4. Bounds](#4-bounds)
- [5. Fairness](#5-fairness)
- [6. What is proved](#6-what-is-proved)
- [7. Where the code and its documentation differ](#7-where-the-code-and-its-documentation-differ)
- [8. What is not modelled](#8-what-is-not-modelled)
- [9. Plan](#9-plan)

`tlc -workers 2 -config X.cfg M` checks a run (`PROJECT.json` names the module of
each configuration); `tlapm M_proofs.tla` checks the proofs of a module.

## 1. The system

Researchers upload PDFs and ask questions about them. A **BFF** (outside this
repository) talks to the **Go gateway**, which calls the **Python agent**; the
agent keeps documents in PostgreSQL with pgvector and MinIO. The **public
indexer** fills a catalogue of public books in MongoDB, their files in MinIO and
their embeddings in pgvector. Redis holds the gateway's chat cache and limits,
and the indexer's scheduler lock.

```
 BFF --POST /documents/process--> gateway handler --channel--> worker --POST--> agent --> MinIO, pgvector, documents.status
  ^                                                              |
  +------------------------- webhook ready / error --------------+--INCR chat version--> Redis
 BFF --POST /chat--> gateway: version, lookup --miss--> retry( breaker( POST agent ) ) --> background SET in Redis

 scheduler --SET NX EX--> synchronise the catalogue, then run --> for each pending book: source -> MinIO -> catalogue -> pgvector -> catalogue
 POST /index/run, POST /catalog/sync: the same steps, without the lock
```

| Component | State it keeps | Operations | What is hard | What makes it correct |
|---|---|---|---|---|
| Job queue and worker pool (`go-gateway/internal/infrastructure/queue`, `api/v1/handlers/proxy.go`, `cmd/server/main.go`) | channel, job map, one loop per worker | submit, look up, dequeue, update status, notify, invalidate, stop | map and channel are two critical sections; polling workers; webhook retries; shutdown in the middle of anything | an accepted job is with one party and gets an outcome; a refused one leaves nothing; nobody is told what is not so |
| Chat cache (`infrastructure/cache`, `proxy.go`) | version and answers in Redis, requests in flight | read version, look up, store in the background, increment, expire | answers computed before an update and stored after it; reads of the version that fail and fall back to 0 | a question is not answered from before an update that is announced |
| Breaker, retries, deadlines (`infrastructure/circuitbreaker`, `retry`, `client/python`) | state, generation and counts of a breaker per operation | admit, count, open, probe, close, retry, cancel | late results of earlier generations; several probes at once; two layers wired independently | never stuck half-open; opened and closed by the right calls; retries as configured; every call answered |
| Document pipeline (`client/python`, `python-agent/app/api/v1/endpoints/documents.py`, `core/database.py`) | rows, status column, an agent thread per request | download, cut, embed, commit, publish, fail | the agent goes on after the gateway gave up; crashes between commit and status | "ready" is told only of what can be found |
| Agent's chunker (`python-agent/app/infrastructure/chunking`) | loop position | cut | Python indices, cuts at spaces, overlap | covers the text, keeps the context, ends |
| Agent's chat (`domain/rag_service.py`, `infrastructure/database/*_repository.py`) | sessions, messages | get or create a session, save, read the history, answer | three transactions with the model between them; requests in one session at once | the model is given the past and not the question; what was replied, or recorded without a reply, stands once, after its question |
| Agent's answers: chat, summaries, comparisons, gaps, public sources (`domain/*_service.py`, `domain/retrieval/public_source_retriever.py`, `openai_embedder.py`, `pgvector_store.py`) | per request: passages found, public passages, context, reply | embed, search, merge, cut, ask the model, read its reply | two searches with different scores; a retriever with an embedder of its own that may fall back; sources that fail one by one; malformed items in a reply | the model is given the best of what was found and only of what was asked; "nothing found" is true |
| Rate limiters (`infrastructure/ratelimit`, chosen in `app/app.go`) | token buckets in each replica, or counters with TTL in Redis | allow, clean up; INCR, EXPIRE | INCR and EXPIRE are two commands; failures let through; buckets are dropped and made anew | no client gets more than its burst per window; one that stops asking is let in again |
| Indexer's runs (`public-indexer/app/application`, `domain/services.py`, `infrastructure/vector_store.py`, `artifact_storage.py`) | object, catalogue entry, rows, failures; one run each for scheduler and administrators | fetch, download, store, refer, check, embed, insert, count, mark, fail | four stores written one after the other, any step fails or crashes, synchronisations and other runs in between | marked means findable; nothing twice; no label lies; a run ends |
| Scheduler and its lock (`infrastructure/scheduler.py`) | key in Redis, value of each replica, how far its pipeline is | acquire, synchronise, run, release, stop, expire | TTL, lost answers, release in two commands, tasks cancelled in the middle of a run | pipelines, and so runs, meet only where a key was lost to the TTL; the lock comes free |
| Catalogue synchronisation (`application/catalog_sync.py`, `domain/services.py`, `infrastructure/sources`) | position per source, catalogue | list a page, normalise, look up, insert or update, stop | five paging schemes; entries published while pages are read; look-up and insertion are two commands; unique indexes | every book a source lists is in the catalogue, once; every source is reported |
| Indexer's chunker (`public-indexer/app/infrastructure/chunking.py`) | none | a pure function | two levels of gathering, overlap, a least size | no sentence lost, bounds kept |

Everything else (parsers and clients of outside services, prompts, metrics,
logging, configuration, health, migrations, tools) keeps no state that another
part depends on; `PROJECT.json` lists it with the reason it is left out.

## 2. The modules

```
 JobLifecycle <==refines== WorkerPool --extends--> MemoryQueue
                               ^
                        DocumentPipeline --drives--> ChatCache
 Resilience --extends--> CircuitBreaker        RateLimiter ==refines==> RateMeter
 ChatSession --extends--> Selection     Answers --extends--> Passages --extends--> Selection
 ScheduledIndexing --extends--> IndexRun, SchedulerLock     CatalogSync --extends--> Selection
 TextChunker     IndexChunker    (both in MCTextChunker)

 DocumentPipeline_proofs: DocumentPipeline, with WorkerPool    ChatCache_proofs: ChatCache
 Gateway_proofs:          Resilience, RateLimiter              ChatSession_proofs: ChatSession
 Agent_proofs:            Answers, both chunkers               CatalogSync_proofs: CatalogSync
 IndexRun_proofs:         ScheduledIndexing, with both parts   Induction:          used by all but the pipeline's, the cache's and the run's
```

`MC*` modules hold the constants of TLC's instances, `*_proofs` the theorems. Of
two models that one module of proofs extends, the second prefixes its `Init`,
`Next` and `Spec` with `Limiter`, `Lock`, `Scheduled` or `Chunker`. **Selection** has one
operator, the elements of a sequence that are in a set, as a recursive function
that the provers can unfold; **Induction** has the lemmas about it and the other
inductions over numbers, finite sums and sequences. A
definition commented "Faulty variant" is no part of a model: it is a plausible
slip, kept beside the definition it would replace, and each property is shown to
fail under one of them.

**JobLifecycle** is the promise about a job before there is any queue: submitted
once, run once by one executor, ended for good.

**MemoryQueue**, **WorkerPool** (`queue.go`, `worker.go`, `proxy.go`, `main.go`).
`ch` is the channel's buffer, `jobs` the map under the mutex; each action is one
access to shared state with the local steps around it. `PostTrack`, `PostSend`,
`PostRefuse`, `PostRevert`, `PostReply` are the handler: Enqueue's map entry, its
send or its default branch, the removal under a second lock, and the reply, which
reads the status after the workers can see the job. `CheckContext`,
`DequeueJob`/`DequeueEmpty`, `MarkProcessing`, `MarkReady`/`MarkError`,
`SendWebhook`, `Backoff`, `InvalidateCache` are a worker's loop, `Signal`,
`PoolStopped`, `Exit` are main. The pool is stopped before the HTTP server, so
handlers go on accepting meanwhile, as in the code. Time is left out: a poll and
a backoff end at some time, and a call may take any time.

**DocumentPipeline** extends the pool: the oracle that answered the workers
becomes the agent's handler, a thread of its own with `Start`, `Store`, `Publish`,
`Fail`, `Crash`. `GiveUp` is possible at any moment (timeout, connection,
breaker, cancelled context) and does not stop the agent. `Increment`s are
recorded with whether the rows were committed by then, which makes the
composition comparable with ChatCache.

**ChatCache** (`cache.go`, `key.go`, `proxy.go`). A request reads the version
(`ReadVersion`; a failed read is version 0), looks up, on a miss asks the agent,
whose answer rests on what is committed when it searches, and leaves a write
under the key it made at the start. Writes arrive in any order or never;
entries expire. Sessions, modes and filters are not in the key and so not in the
model: two requests that differ in these only are the same request.

**CircuitBreaker**, **Resilience** (`breaker.go`, `policy.go`, `client.go`,
`app.go`, `proxy.go`). The breaker is gobreaker as its settings make it behave, a
library and so marked external; its methods hold its mutex and are one step each.
A call is `Arrive`, then attempts that are admitted or refused, in flight, and
returned with an outcome, and backoffs between them. An error leaves the breaker
wrapped, which is all that the retry's `==` tells apart. `Guarded` are the calls
of a client with breakers, since the client wires breaker and retries
independently; production has both for all.

**TextChunker** (`chunker.py`). One step is one turn of the loop. A text is its
length and the positions of its spaces; a chunk is the interval it spans.
Negative and large indices do what Python's slices do.

**IndexChunker** (`public-indexer/app/infrastructure/chunking.py`). Operators, no
state: `Chunk` folds `AddParagraph` over the paragraphs and
`SplitLargeSegment` over the sentences of one that is too large. A text is the
lengths of its sentences, with `length` for what blank lines add; `blanks` is how
many blanks an overlap begins with, and loses, wherever it is cut. `Stops` says
where a text may end: what the code drops on purpose, a part below
`min_chunk_size`, is the only thing that may be missing.

**RateMeter**, **RateLimiter** (`limiter.go`, `redis_limiter.go`, `app.go`).
RateMeter is the ideal: one level per client, up by one for each request let in,
down by one each tick. RateLimiter has for each replica either buckets (`Allow`,
with `Clean` before it, under one mutex) or the pipeline to Redis: `Send`, `Incr`,
`Expire`, and `GiveUp` and `Break` for the answer that comes late and the
connection that breaks. `Tick` is the time in which a bucket gains a token;
`golang.org/x/time/rate` and Redis are libraries and so marked external.

**ChatSession** (`rag_service.py`, `session_repository.py`,
`conversation_repository.py`, `chat.py`). One action per transaction and per
outside call: `FindSession`, `CreateSession`, `SaveQuestion`, the search,
`ReadHistory`, `Generate`, `SaveAnswer`, `Reply`; `Fail` at any of them. The
commit of the answer and the response to the client are two steps, so that a
request may fail with its answer recorded. What is in the answers does not matter
here.

**Passages**, **Answers** (`rag_service.py`, `summarize_service.py`,
`compare_service.py`, `research_gap_service.py`, `public_source_retriever.py`,
`openai_embedder.py`, `pgvector_store.py`, the clients of OpenAlex, Unpaywall and
Google Books). Passages holds the operators on ranked lists; Answers is one
request of any of the five tasks, from its embedding to the reading of the reply.
A text is a model value with a similarity to the request; what a source offers,
and how it fails, is chosen when it is asked. `space` tells vectors of the model
from mock vectors, of stored passages too: those were embedded when their
document was processed, perhaps by the fallback, and `stray` is what their score is
then worth. A document processed twice has its passages twice (`copy`). A text
that is blank makes no passages, and the work's other routes are not tried
(`SkipBlank`).

**CatalogSync** (`catalog_sync.py`, `services.py`, `models.py`, the clients of the
five sources, migration 001). A caller is the scheduler or an administrator; its
synchronisation goes source by source and page by page, and each upsert is a
look-up and an insertion or an update. `Publish` adds an entry to a source while
it is read. Normalisation is modelled as to which identifiers a book ends up
with, since the stable key and the indexes depend on them; of an old arXiv id only
what follows the category is kept (`ArxivId`), so two papers may share it. With the
migration (`Migrated`) a document is refused by the unique indexes (`Duplicate`) or
by the index of titles, which takes its language from the field `language` and
neither null nor a language it does not know (`spoken`): every book from arXiv.

**IndexRun** (`usecases.py`, `services.py`, `artifact_processor.py`,
`embedding_processor.py`, `vector_store.py`, `dlq.py`). One action per write or
per read that a later write relies on, in the order of the code, and `Fail`
possible at each. `Republish` is the source, `Synchronise` the catalogue's
upsert, which resets the checksum. Contents are numbers in the order of
publication and stand for their checksums. `met` is a history variable: whether
two runs were ever under way together.

**SchedulerLock** (`scheduler.py`). `Acquire` is SET NX EX; `AcquireFails` also
covers the answer that is lost after the key was set. The release reads
(`ReadOwn`, `ReadOther`) and deletes (`Delete`) in two steps. `Stop` is the
cancelled task, in the middle of the sleep, the pipeline or the release.
`Die` and `Restart` are the process. `Expire` is the TTL of a key nobody uses any
more, `Overrun` that of a key in use, at any moment: nobody renews it and its owner
goes on. `lost` is a history variable: the values whose key went, to the TTL or to
another's delete, while they were in use.

**ScheduledIndexing** (`scheduler.py`). Both at work: the replica that
acquires the lock synchronises (`Upsert`), begins a run (`StartRun`), works on it
(`Work`) and ends its pipeline only when the run is over; a cancelled task or a
process that dies takes the run with it (`StopScheduler`). `LockOnly`, `GiveBack`
`KeyExpires` and `KeyOverrun` are SchedulerLock's other steps, `Publish` is the source. The
runners are the replicas (`OnlySchedulers`): administrators, who take no lock, are
in IndexRun, where runs meet.

## 3. The runs

| Run | Properties | What it shows |
|---|---|---|
| `WorkerPool_jobs` | `NothingLost`, `RejectedLeavesNoTrace`, `NotificationsAgree`, `StopLeavesOnlyWaiting`, `ImplementsLifecycle`, `AcceptedGetsOutcome`, `StopReturns` | Two submissions for one slot, two workers, failing webhooks, a shutdown at any point. An accepted job is never lost, a refused one leaves nothing, notifications are true and stay so, Stop leaves nothing half done and returns; the pool implements JobLifecycle. |
| `DocumentPipeline_runs` | `NotifiedIsSearchable`, `ReadyIsBacked`, `DisagreementsExplained`, `DrivesCache` | Two runs of one document, one without text. What the BFF is told "ready" is committed and the status column is backed by rows, in spite of timeouts, late answers and crashes. Gateway and database disagree only about a run that went on after it was given up: rows that come after the increment are of a job reported "error", everywhere, and a document is "error" after its job was "ready" only through another run. The commits and increments are those ChatCache assumes, so that `FreshAnswer` carries over. |
| `ChatCache_fresh` | `FreshAnswer` | Three requests for one question and two document runs: whoever read the version gets an answer with every update announced, after its commit, before the request began. |
| `Resilience_calls` | `NeverWedged`, `ClosedByProbes`, `OpenedByFailures`, `RetriedUntilExhausted`, `Answered` | Five calls through one breaker and one without: enough for a whole cycle with late results of every earlier period. |
| `RateLimiter_requests` | `ImplementsMeter`, `WindowKept`, `LetInAgain` | Two replicas on either backend. Buckets counted lazily, made and dropped when the code likes decide like the ideal meter; the counter lets no window have more than the burst, or twice that after an EXPIRE that was lost or came too late; who was refused and stays away for a window is let in. |
| `ChatSession_requests` | `PromptIsPast`, `RepliedIsRecorded` | Four requests in two sessions with failures anywhere: unless a session is shared the model is given exactly the messages before the question; an answer, whether the client was sent it or not, is in the conversation once, after its question, and none is there of a request still at work. |
| `Answers_requests` | `ContextIsBest`, `NothingLeftUntried`, `ScoresComparable`, `InsufficientIsTrue`, `GapsFollowReply` | Every task over projects of up to three passages of either kind, with ties and copies, every kind of provider, blank texts and every way the public sources fail. |
| `CatalogSync_pages` | `OneEntryPerKey`, `EverySourceReported`, `NothingSkipped`, `SyncsEnd` | All five sources and an administrator's synchronisation of one beside it, with errors, timeouts, refused entries, crashes and an entry published in between. No listed book is passed over in silence; keys are unique while synchronisations do not meet, and where they do no book has more documents than there are callers; every source is reported; synchronisations end. |
| `IndexRun_runs` | `IndexedIsSearchable`, `InsertedOnce`, `LabelsTruthful`, `RunsEnd` | One book, two runners, two contents, a crash, synchronisations and failures everywhere. The first three are about behaviours in which runs have not met; runs end in all. |
| `ScheduledIndexing_pipelines` | `PipelinesApart`, `LockComesFree` | Two replicas with their synchronisations and runs, crashes, cancellations and lost answers anywhere, and keys that expire in use: two pipelines, or a pipeline and a run left over, are under way together only when one of the two has lost its key; runs never meet before a key was lost; only a replica that has lost its own deletes another's; and a key left behind comes free. |
| `TextChunker_safe` | `DoneCovers`, `IndexKeepsText`, `Terminates` | All texts of up to 10 characters under all small settings that are safe: the agent's loop covers the text and ends. The indexer's function reads the same texts, a space ending a sentence and two a paragraph, and loses nothing but what `Stops` names: a short last part after a large paragraph, or a short text that is long by its blank lines only. |
| `CatalogSync_indexes` | `RefusedAreDuplicates` | A counterexample to a statement of the documentation; see section 7. |

## 4. Bounds

- *Pool and pipeline*: one slot in the channel and two jobs make the queue both
  full and refused; two workers make two processed at once; two webhook attempts
  a failure, a backoff and a last attempt (three in the code). Both jobs are of
  one document and project, the case in which they share an idempotency key, a
  status and a version. The pipeline runs with one worker: two jobs of one worker
  already meet, since the agent's first run goes on after it was given up.
- *Cache*: a stale answer takes one request that computes, one that stores and
  one that reads, and two updates to be stale with regard to either.
- *Breaker*: threshold 2, two probes. Five guarded calls are two failures that
  open, two probes and a slow one from before; each call is made once, so their
  number bounds the generations too.
- *Rate limiter*: a burst of three with two tokens a second makes a window of two
  ticks, in which a counter can expire with commands on their way; one bucket
  more than `MaxLimiters` sets off the cleaning. Counters of different clients
  never meet, so one client of Redis is enough; `MaxCount` is above the burst.
- *Chat*: four requests in two sessions and a history of three make a session
  longer than a prompt and two requests meet in one.
- *Answers*: three texts, two documents and searches of two and three passages
  make ties, copies, crowding out and cuts by the room of the prompt; two works
  are one that fails before one that does not. Projects have three passages of
  one kind, or two of any kind and score, or two and the copy of one.
- *Catalogue*: pages of one entry give second pages to three sources; works
  without an identifier make keys of different sources meet; `MaxPublished = 1`
  moves one page. Two papers of arXiv share an id.
- *Chunkers*: sizes to 6 and texts to 10 give every combination of cuts at spaces,
  hard cuts and ends within a few chunks, and for the indexer chunks that are
  short, full, overlapping and followed by a short rest. The proofs remove the bound
  for both chunkers. The indexer's settings keep the relation of its
  own: overlap and least chunk fit beside each other in a chunk.
- *Indexer*: books share only the limit per run and the tracker, so that one book
  with two runners shows what runs do to each other. Two contents and a crash let
  every store lag behind another.
- *Scheduler*: two replicas, an owner and its successor, with three attempts each,
  so that each can come back beside the other: an overrun, a late delete and a
  third pipeline. The book cannot be fetched, which keeps runs short; what a run does
  is IndexRun's subject.

`MaxContent`, `MaxCrashes`, `MaxAttempts` of the lock, `MaxLen`, `MaxPublished`,
`MaxCount`, `MaxPieces` and `MaxItems` only keep the state space
finite; the code has no such bounds, and the theorems are about any value of
them.

`CHECK_DEADLOCK FALSE` stands where the system may stop: a process that has
exited, calls that were all answered, a loop that ended.

## 5. Fairness

- Workers, handlers that have begun and `Stop` move on (weak fairness): goroutines
  are scheduled, timers fire, and the call to the agent has a deadline
  (`client.go`). Nothing is assumed of the agent, nor that a signal ever comes.
- An arrived call moves on: requests have deadlines, backoffs are timers. Clients
  need not come, and the breaker's timeout is noticed only by a caller.
- The loop of the chunker runs.
- A runner begins again and again (the scheduler's interval) and its run moves on,
  because each of its steps has a timeout and its retries end. Which way a step
  goes, success or failure, is left open, so `RunsEnd` holds even if everything
  fails.
- A synchronisation that began moves on (`SyncsEnd`): its requests have timeouts.
  Publications are bounded, which stands for sources that grow more slowly than
  they are read; which way a request goes is left open.
- Keys that nobody uses any more expire (`Overrun`, the expiry in use, is only
  possible); of a pipeline, its run moves on, it ends when the run is
  over, and the lock is given back. `LockComesFree` asks nothing more: nobody need
  begin a pipeline, synchronise or restart.

No strong fairness is assumed anywhere.

## 6. What is proved

TLAPS proves the following for every value of the constants. The only
assumptions are the ASSUMEs of the modules (which TLC evaluates in each run) and
those named here.

| Module | Theorems | Argument |
|---|---|---|
| `DocumentPipeline_proofs` (pool) | `InductiveInvariant`, `SingleOwner`, `AcceptedJobsSurvive`, `MapCoversChannel` (with `RejectedLeavesNoTrace`), `NotificationsTruthful`, `StopIsClean`, `Refinement` | `IInv` says who may hold a job in each state of handler and worker. Ownership alone is not inductive: what a worker may write depends on nobody else holding its job, that on the channel having no duplicates, and that on handlers sending only what is not yet anywhere. Facts about sequences (Append, Tail keep elements distinct) are lemmas of their own. Refinement maps each step to a step of JobLifecycle or to a stutter. |
| `DocumentPipeline_proofs` (pipeline) | `PipelineInvariant`, `NotifiedSearchable`, `ReadyBacked`, `OnlyLateRunsDisagree`, `RunsDriveCache` | `PipelineIInv` adds how far the agent is to what the pool knows of the job. Each step of the composition is a step of the pool or leaves it alone, so the pool's invariant is reused and only the agent's part is new. `LateAgrees` says that rows come after the increment only of jobs that are not "ready", and that somebody failed wherever the column says "error"; a job that is "ready" has a run that is not the failed one. `RunsDriveCache` is the refinement that carries the theorem about the cache over to the runs of a project. |
| `ChatCache_proofs` | `InductiveInvariant`, `Freshness` | Every stored answer, every write on its way and every search keeps the promise of its *version*: it contains the updates whose increment returned at most that number. Version 0 promises nothing, which is why the fallback is harmless to those who did read the version. |
| `Gateway_proofs` (breaker) | `BreakerAgrees`, `SomeProbeDecides`, `ProbesClose`, `FailuresOpen`, `RetriesExhausted` | `GuardInv` relates the breaker's counters, which it resets, to the calls of a generation, which stay: half-open, `requests` is the number of calls admitted in this generation and `successes` of those that went well; closed, the failures in a row are at most those of the generation. A call that ends late changes no counter because its generation is not the current one. Half-open with all places taken and all of them ended well it would have closed, so one is still on its way. |
| `Gateway_proofs` (limiters) | `WindowIsKept`, `BackAfterWindow`, `BucketsAreMeters` | `Split`: the requests let in within a window fall apart into those of the present counter and those of the one before, and each part is at most the burst; the second is empty unless an EXPIRE went astray (`Expiring`). The counts are sums over the ticks of a window, whose lemmas are in Induction. `BackInv`: while a client is refused, its counter has an expiry, or one on its way, or holds only requests that had been let through after a timeout. `BucketsAreMeters` is the refinement of RateMeter, an idle bucket of an hour being as full as a new one. |
| `IndexRun_proofs` (runs) | `InductiveInvariant`, `MarkedIsFound`, `NoDuplicates`, `TruthfulLabels`, `ReferencesExist` | As long as runs have not met, the stores are written in one order and each lags behind the one before (`checksum <= artifact <= upstream`); what the one run has in hand agrees with them (`RunAgrees`). In particular it never finds a checksum that is not its own, which makes the branch that deletes obsolete rows unreachable. |
| `IndexRun_proofs` (lock) | `ExclusionHolds` | Whoever runs or is about to delete holds the lock with its own value, or has lost it (`OwnerRuns`); values are never used twice. So of two that run one has lost its key, and whoever deletes another's has lost its own. |
| `IndexRun_proofs` (schedulers) | under `OnlySchedulers` `ScheduledInvariant`, `PipelinesStayApart`, `StoresStayTrue`, `ChecksumsStay` | Each step of the composition is one of both parts, or leaves them alone, so that their invariants are reused. Two facts tie them together: a run is within its replica's pipeline and after its synchronisation (`Within`), and the lock's invariant allows two pipelines only after a loss. So as long as no key was lost a run that begins is the only one, runs do not meet, and the theorems about runs that have not met hold; nor does any synchronisation come between what a run has read of the catalogue and what it writes. Administrators and an overrun of the TTL are thus the only ways to a duplicate. |
| `CatalogSync_proofs` | `UniqueKeys`, `AllReported`, `NothingIsSkipped` | `KeyInv`: as long as synchronisations have not met, whoever is about to insert is alone, and what it looked up and did not find is still missing. `CopyInv` is about those that met: the documents of a key and the callers about to insert it are together at most the callers, because with a document there nobody else comes to insert; copies are numbered apart (`Numbered`). It assumes that the callers are finitely many. `Pending`: a source asked for is reported or still in the queue. `Awaits`: as long as nothing went wrong with the source at hand, a book that it listed when its turn came is in the catalogue, on the page at hand, or on one that will be asked for; a publication only moves entries to later places, so a page boundary hides none. The shapes of `EndSource` and `Answer` are lemmas, so that each step needs only to be told apart by its program counter. |
| `ChatSession_proofs` | `RepliesRecorded`, `PromptsHold` | `RecordInv`: `Stands(r)` says what a request has in the conversation in each of its states, from the commit of its answer on the same whether it is replied to or fails. Only its own two insertions change that, and they append, which lemmas about sequences carry over for all other requests. For `PromptsHold`, `Together` adds that requests at work in one session have marked it as shared, and `Prompted` that until the history is read the question is the newest message of a session that is not; selecting a session's messages commutes with appending to it or elsewhere. |
| `Agent_proofs` (requests) | `AnswersInvariant`, `BestContexts`, `AllTried`, `SpacesAgree`, `TrulyInsufficient`, `GapsFollow` | Sorting: the number of a passage's betters is a different one for each, so the ranks are a permutation (`ByScoreIs`). A passage with fewer rivals than places survives the search whatever the ties (`SearchFinds`), the merge, which drops only copies, and the cut (`BestIs`, `Merging`). `AnswersInv` says what each step leaves to the next: `Tried` numbers the works tried in vain while no public passage is there, `Spaced` where the embeddings of question and passages come from and that an embedder falls back for good (`FallsOnce`), `Searched` what was found, `Contexts` and `Analyses` what follows for the model's input, `Reading` that the gaps are the usable items read so far. |
| `Agent_proofs` (chunker) | `ChunkerInvariant`, `Coverage`, `Progress`, `Context`, under `SafeSettings` | `Frontier`: what is covered is a prefix, the last chunk ends it, and the position follows from its end. Under `SafeSettings` a cut at a space lies beyond the middle and hence beyond the overlap, so the position grows: `Progress` is the safety half of termination. |
| `Agent_proofs` (indexer's chunker) | `TextIsKept` for texts that are `Proportioned` and have `FewBlanks`, `IndexerKeepsText` for the texts of the run | An invariant of each fold: the sentences of the chunks so far and of the one being gathered, put together, are those of the text so far, or those since its last large paragraph. What is gathered is either no short chunk or all there is since then: a unit that begins a chunk after an overlap makes it longer than the overlap and hence than the least chunk, and one that begins a chunk without one did not fit beside it. So only what `Stops` names can be dropped at the end. Flattened sequences and their sums have lemmas of their own. |
| Progress (four modules) | `RunsGetShorter`, `CallsGetShorter`, `JobsMoveOn`, `SyncsGetShorter`, with `Progress` | The safety half of `RunsEnd`, `Answered`, `AcceptedGetsOutcome` with `StopReturns`, `SyncsEnd` and `Terminates`: a measure in the natural numbers (of a synchronisation three, compared in order) that each step of the process makes smaller and that no step of others makes larger. With the fairness that section 5 states that is why they end; the fairness is TLC's part. A worker's measure counts its present job; a waiting job moves up by one place with each one taken. The rest of a source's list counts publications before they happen, since `MaxPublished` bounds them. |

Two theorems need a hypothesis that the runs meet too. `BackAfterWindow` assumes
that no more requests are under way at once than the burst (the model has one per
replica): more of them, let through after a timeout and counted late, could by
themselves fill a counter whose EXPIRE was lost, and such a counter never goes.
`NothingIsSkipped` assumes that nothing is published in gutenberg meanwhile: the
client asks for its first page only, and a new entry pushes the last one off it.

Induction over data is done with sets: the library's theorems with an operator as
a parameter cannot be cited, but a set of counterexamples can be given a least
element (`LeastNat`, from the well-foundedness of `<`), and a recursive function
is defined because its finite approximations are (`Recursion`). Sums, selections,
sorted and flattened sequences rest on that.

Two proofs corrected their model. That of `TextIsKept` failed for an overlap that
loses more blanks than part two sentences, which the code cannot do and the model
allowed: with a chunk of 10, an overlap and a least chunk of 4 and 3 lost blanks
the property was false, just beyond TLC's bound. And it failed for a text of a few
words and many blank lines, of which the code makes no chunk at all
(`chunking.py:76`); `Stops` names that case now. The invariant
behind `SyncsGetShorter` had to bound a position by the list as it is: with the
publications to come counted in, which may go to another source, it is not
inductive.

The invariants named above (`IInv`, `PipelineIInv`, `GuardInv`, `KeyInv`,
`RecordInv`, `AnswersInv`, `ScheduledIInv` and their parts) are no properties of
runs; the theorems contain them. `SingleOwner`, `Progress`,
`Context`, `Exclusion`, `ReferencesExist`, `StoresTrue`, `ChecksumsKept`, `RunsShrink`, `CallsShrink`, `PoolAdvances` and `SyncsShrink` are
proved and not run either: TLC checked them while the proofs were written, and the
theorem says more.

Only model-checked: the liveness properties themselves (`AcceptedGetsOutcome`,
`StopReturns`, `Answered`, `Terminates`, `RunsEnd`, `LockComesFree`, `SyncsEnd`),
since fairness is out of the prover's reach, and of them `LockComesFree` without a
measure of its own, because pipelines end as their runs do and the TTL does the
rest; and the counterexample. All
other invariants, action properties and refinements that runs check are proved.

## 7. Where the code and its documentation differ

`CatalogSync_indexes` is a run: with the unique sparse indexes of migration 001 a
book is refused because another one lacks a `gutenberg_id` too. `upsert_book`
(`services.py:61`) stores `null` for what is absent, and a sparse index leaves out
only documents without the field. (The index of titles refuses others for their
language, all from arXiv among them; no sentence of the documentation is about
that.)

The following are stated in the modules, most of them under "Claims of the
documentation that the code does not keep"; TLC refutes each when it is added to
a configuration.

| Claim | Module | What the code does |
|---|---|---|
| `Terminates` with `MCAllSettings` | MCTextChunker | An overlap between half of the chunk and the whole of it makes the loop stand still (`chunker.py:75`; the guard says "previne loop infinito" and tests `start <= start - 1`). The defaults are safe; nothing validates the variables. |
| `NotifiedIsInvalidated` | DocumentPipeline | The BFF hears "ready" before the cache version is incremented (`worker.go:173`). |
| `IncrementFollowsCommit` | DocumentPipeline | After a timeout the increment comes first and the rows later, and nobody increments again. |
| `RetriedThroughBreaker` | Resilience | As production wires the client no error is ever retried: the breaker wraps it (`breaker.go:157`) and the retry compares with `==` (`policy.go:180`). |
| `RefusedIs503` | Resilience | Half-open, the callers beyond the probes are answered 500; only the other refusal is translated (`breaker.go:154`). |
| `ReplyIsPending` | WorkerPool | The 202 may say "processing" or later (`proxy.go:83` reads the status after Enqueue, without the lock). |
| `KeyIdentifiesJob` | WorkerPool | The webhook's idempotency key is the document's id, although its comment says job. |
| `UpdateInvalidates` | ChatCache | A request whose read of the version fails may be answered from before an update. |
| `RefusedAboveBurst` | RateLimiter | EXPIRE is renewed by every request (`redis_limiter.go:72`), so a client with one request per window is counted up to the burst and then refused for as long as it goes on. |
| `EveryPendingIsTried` | IndexRun | A hundred books that always fail keep all others out (`services.py:98`). |
| `NeverDuplicated` | IndexRun | Runs that meet insert the same content twice (`embedding_processor.py:155`); the admin endpoint takes no lock. |
| `NoObsolete`, `FailuresCleared`, `ChangeIsIndexed` | IndexRun | The entry's checksum is overwritten before the embeddings step looks for the old one; `clear_failure` has no caller; an indexed book is never looked at again. |
| `OnlyOneRuns` | SchedulerLock | Two replicas run at once: the TTL is never renewed, although the documentation of feature 5.5 has a heartbeat, and reading and deleting the key are two commands (`scheduler.py:127`, `143`). |
| `OwnQuestionLeftOut` | ChatSession | With two requests in a session at once the message dropped from the history as "the current one" may be another (`rag_service.py:306`). |

Also seen, and not expressed as properties:

- *Gateway*: the pool is stopped before the HTTP server, so jobs accepted in
  between are never run; the job map never shrinks; the job's id is a new uuid,
  while `src/docs/GUIA_INTEGRACAO_BFF.md` polls by the document's; the breaker
  counts 404, 400 and cancelled requests as failures (`breaker.go:146`); EXPIRE
  takes whole seconds, so a window of 1.5 s is one of 1 s in Redis.
- *Agent*: "3 trocas" of history are two and a half; public passages have no
  least score; their scores are dot products while the project's are 1 - L2
  distance, called cosine; an error worded like "not found" turns an embedder into
  a mock for good (the provider "compatible", for which `ScoresComparable` only limits the mixing);
  passages stored by a mock are compared with a real question and the reverse; a
  blank text, as of a scanned PDF, keeps a work's other routes from being tried, and
  the key "mock" makes embeddings fail; a summary's search is cut to ten passages
  of the project before those of the document are selected; a comparison may be
  given one document's block only, and cites sources that were cut from its
  context; the sources the model names for a gap are not checked.
- *Indexer*: the chunker never splits by words, although its docstring says so
  (`chunking.py:48`), sub-chunk indices start again at 0, a short last part is
  dropped, and so is a short text that is longer than a chunk by its blank lines
  (`chunking.py:76`); a source filter finds nothing for gutenberg and openlibrary
  (`services.py:96`); tracker and flags drift apart (`usecases.py:212`);
  `upsert_book` does not return what the report counts, so `new` is always 0; an
  HTTP error status, or a page shortened by an untitled entry, ends a source as
  its last page would.

## 8. What is not modelled

The components marked `not_modelled` in `PROJECT.json`, with the reasons there:
parsers and clients of outside services, set-up, logging and metrics, the alert
middleware (a counter under a mutex whose only effect is a log line), the
benchmark endpoint and the offline evaluation, whose results nothing depends on,
scripts.

Of what is modelled, these are left out: wall clock and durations (deadlines are
actions that may happen at any time; only the rate limiter counts ticks),
payloads and wording, authentication; how the sections of a summary or a
comparison are cut out of the model's reply; the job store of the indexer, which
only mirrors a run; the dry run, which changes nothing; the indexer's retries
inside a step, which are part of what a failing step has already tried; pages
other than one in the agent's chunker, since pages are cut independently;
`search_similar`, the search of the public library and `update_session_memory`,
which have no caller; white space other than blanks, tabs and line breaks in the
indexer's chunker.

## 9. Plan

1. CatalogSync under the lock, as ScheduledIndexing does it for runs: with
   schedulers only, synchronisations never meet and `OneEntryPerKey` loses its
   premise. Here the synchronisation is a sequence of upserts, which is all that
   runs see of it.
2. An administrator's run and synchronisation beside the schedulers' in one model:
   what still holds then is so far said by IndexRun, whose runners need no lock.
