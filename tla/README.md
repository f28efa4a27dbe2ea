# MARKETview: a TLA+ development

MARKETview is a FastAPI service and a set of operator commands around two
shared services: a Redis control plane (Upstash REST) and a vector index
(Upstash Vector). Nothing else is shared between processes, every request to
either service may fail, time out or arrive after its sender has given up, and
money is spent on embeddings, answers and market-data credits. The modules here
model the parts of the code where those facts meet, TLC checks them on small
instances, and TLAPS proves the most important results for every instance.

Paths below are relative to the repository (`app/...`, `docs/...`).

## Inventory

| Component | State | Operations | What makes it hard | What must hold | Here |
|---|---|---|---|---|---|
| Generation control plane: `app/providers/redis_research.py`, `app/research/control.py` | per accession: lease, lifecycle record of each generation, active pointer, active index, superseded-cleanup records and index | one Lua script per operation (acquire, stage, verify, publish, abort, clean, mark cleaned, release) | several owners over time, markers that expire, answers lost after the script ran | pointer names a published record; replacement is one step; cleanups are never forgotten | `GenerationControl` |
| Generation lifecycle: `ResearchCoreService.ingest` in `app/research/service.py` | locals of one run (`current`, `generation_stage`, `published`) | stage, embed, upsert, verify, publish, abort, clean up, release | every await may fail or be the last one; the vector index has no fencing | active generation complete; nobody acts on a stale snapshot; deletes hit only dead generations; reports are true | `GenerationLifecycle` |
| Vector index adapter: `app/providers/upstash_vector.py` | points by generation (remote) | upsert/fetch in batches, delete by filter, inspect, search | non-atomic multi-batch writes, read-after-write polling | a verified generation has every batch; a search shows only what was listed | `GenerationControl`, `GenerationLifecycle`, `QueryPath` |
| Ingestion runner: `app/research/ingestion.py`, `app/ingest_research.py` | checkpoint, retry claim/result, attempt-two claim/result of a job | run, resume, `--retry-failed`, attempt two | crash between claim and result, lost answers, two commands at once | monotonic checkpoint; each paid attempt at most once; ledger write-once; exit status true | `RetryLedger` |
| Query budget: scripts in `redis_research.py`, `app/services/research.py`, `app/api.py` | reservation records, one daily counter, their TTLs | authorize, commit, release | lost authorize answers, cancellation, midnight | counter = authorized + committed; paid only after commit; committed never refunded | `ReservationBudget`, `UtcDay` |
| Query path: `query_research` in `app/research/service.py`, `app/research/retrieval.py` | none of its own | list active manifests, commit, embed, search, answer | corpus changes between three listing commands and the search | an answer cites the corpus of one instant | `QueryPath` |
| Market data: `app/services/market_data.py`, `app/cache/*` | cache entries (fresh/stale), singleflight registry, distributed lock, daily quota | read-through refresh, rollback, stale fallback | lock registry entry dropped under waiters, lock TTL, rollback across midnight | provider calls within quota; a failure never loses a stale answer | `MarketDataRefresh` |
| Symbol directory: `app/services/symbols.py`, `app/refresh_symbols.py` | bucket entries per generation, manifest | refresh, search | refresh crash half way, two refreshes, expiring buckets | a search sees one generation or fails | `SymbolDirectory`, `SymbolIndex` |
| SEC source: `app/providers/sec_filings.py`, `sec_filing_parser.py` | throttle clock, request slots, cursor | discover, fetch, wait | concurrent and cancelled waiters; tables that change between pages | request spacing; no filing skipped | `FilingSource` (the parser: no) |
| Retrieval diagnostic: `app/retrieval_diagnostic.py`, `app/research/diagnostic_runtime.py` | one reservation | authorize, revalidate, commit, embed, search, release | cancellation at each await | a unit not committed is released | `ReservationBudget` (as a client) |
| Vector smoke test: `app/vector_smoke.py`, `app/providers/upstash_vector_smoke.py` | one synthetic point | upsert, poll, delete | cleanup after failure | nothing left behind | not modelled |
| In-memory adapters: `app/research/memory.py`, `app/cache/memory.py` | dictionaries | as the Redis and vector adapters | none (single process) | same contract as `GenerationControl` | not modelled |
| Pure parts: `research/chunker.py`, `domain.py`, `evaluation.py`, `fingerprints.py`, `retrieval.py` | none | chunking, validation, scoring, filtering | boundaries | filter is exact | the filter and the answer in `QueryPath`; the rest not modelled |
| OpenAI and MarketData adapters, configuration, HTTP wiring, dashboard | none, or browser state | encode, decode, wire | I/O | - | only what a call may answer |

How they interact: an operator command (`ingest_research`) loads a checkpoint,
fetches filings and calls `ingest` once per filing; `ingest` owns an accession
through the lease, writes points through the vector adapter and moves the
active pointer through the control plane; a query lists active pointers, spends
a reservation, embeds the question and searches with a filter on the listed
generations. The API process never ingests. Market data, symbols and the research
budget share the Redis service and nothing else: no key of one is read by another.

## Modules

| Module | Contents |
|---|---|
| `GenerationControl` | The Redis keys and vector points of one accession, and one operator per script. A script is atomic, answers ok or not ok, and changes nothing when it is not ok (`_cas_result`). |
| `GenerationLifecycle` | EXTENDS it with the runs of `ingest`: one action per await, the `except` and `finally` clauses as their own steps, and the environment: kills, failed requests, requests that arrive after their sender gave up, lease and marker expiry. |
| `GenerationProperties` | Type invariant, safety, action and liveness properties, and the refinement mapping. |
| `CorpusPublication` | Abstract specification: what a reader of the corpus is promised of each accession, without leases, records or runs. The lifecycle implements it; questions are asked beside it. |
| `MCGenerationLifecycle` | TLC instances (symmetry sets). |
| `GenerationFencingProofs` | Theorems and proofs: first what needs no assumption on time (types, the active pointer), then what the lease fences off under the two timing assumptions. |
| `GenerationReportProofs` | EXTENDS it, under the same assumptions: what runs report and leave on file, and the refinement. |
| `RetryLedger` | The five records of one ingestion job, one operator per ledger script, and the operator commands that write them: ordinary runs, `--retry-failed`, `--retry-failed-attempt-two`; commands overlap, stop at any await and leave a write in flight. |
| `RetryProperties` | Its properties, and the refinement mapping. |
| `RecoveryAttempts` | Abstract specification: at most two paid attempts to recover a filing. |
| `MCRetryLedger` | TLC instances. |
| `RetryLedgerProofs` | Theorems and proofs. |
| `UtcDay` | The day of a tick, its midnight, and the whole seconds left until then: the TTL of a daily counter. |
| `ReservationBudget` | The three budget scripts, and their two kinds of client (API request, diagnostic run) around a midnight; its properties. |
| `ReservationBudgetProofs` | Theorems and proofs. |
| `MarketDataRefresh` | One key of the market-data cache: `_cached` as a process, the registry of lock objects of each process, the lock and the daily quota in Redis; its properties. |
| `MarketDataRefreshProofs` | Theorems and proofs. |
| `SymbolIndex` | The two-character index of the symbol directory and the ranking, as operators. |
| `SymbolDirectory` | EXTENDS it with refreshes and searches as processes over the cache; its properties. |
| `DirectoryRegister` | Abstract specification: what the directory promises a search, without buckets, manifests or failing runs. |
| `SymbolDirectoryProofs` | Theorems and proofs: the index, the refreshes, the searches, the ranking, the refinement of `DirectoryRegister`. |
| `QueryPath` | `query_research` as a process, beside `CorpusPublication` with several accessions; its properties. |
| `QueryPathProofs` | Theorems and proofs. |
| `FilingSource` | Discovery and download of SEC filings behind request slots and a throttle, while the SEC publishes and archives; its properties. |
| `FilingSourceProofs` | Theorems and proofs. |
| `MC<module>` | TLC instances: symmetry sets and the small inputs of a run. |

`QueryPath` and `GenerationLifecycle` meet in `CorpusPublication`. `QueryPath` has no
ingestion of its own: the steps of the corpus between two awaits of a question are
`Corpus!Next`, any step the promise allows. `PublicationImplemented`, checked and
proved under the two timing assumptions, says that every step of the lifecycle, with everything that may fail or be
late in it, is for its accession one of these steps or changes nothing a question
reads. So whatever the lifecycle can do to the corpus is among what the questions are
checked against, and the two are never checked as one state space. What is left to
inspection is the step from one accession to several: the keys of an accession carry
its digest, and the index is a set to which publications only add, so lifecycles of
different accessions interleave and the promise of several is the conjunction of the
promises of each. Two facts of the promise that questions need are part of what is
proved: the accession enters the index with the pointer, and a PUBLISHED record stays one.
The budget meets the query path at its `commit` step
(`before_paid_call`): there it may be refused, here `Committed` says when.

The first two groups meet at the `ingest` call: it is one step of `RetryLedger`
(`IngestFiling`, with any outcome) and the whole of a run of `GenerationLifecycle`,
whose `SaveCheckpoint` step is the runner's next await.

### How the state of the generation lifecycle corresponds to the code

- `lease`: the key `_lease_key`; `record[g]`: `_generation_key`, a
  `GenerationStageRecord` reduced to its state and whether it holds the point-set
  proof (the manifest is the index of the function). A missing key is `Absent`.
- `active`: `_active_key`; `indexed`: membership in `_index_key`.
- `cleanup`, `cleanupIndex`: `_cleanup_key` and `_cleanup_index_key`, by pair of
  superseded and new generation. Both markers with `EX 86400` may vanish at any
  time (`CleanedMarkerExpires`, `CleanupMarkerExpires`): the TTL is not counted.
- `points[g]`: the batches (of at most `_MAX_BATCH_SIZE` points) of a generation in
  the vector index.
- `pc[r]`: the await run `r` is at. `gen`, `current`, `own`, `retry` are `manifest`,
  `current`, `generation_stage`, `retry_failed`. `count` is the index of the batch in the
  two loops, `todo`/`target` the loop over pending cleanups, `left` says that
  `cleanup_pending_count` is positive, `outcome` is the value of `IngestionResult`.
- `late`: requests whose sender got no answer, and which may still be executed
  once. A request that failed is either in `late` or never arrives; a request that
  was executed and whose answer was lost is the case that it is in `late` and
  arrives before the next step.

### How the state of the ledger corresponds to the code

- `checkpoint`, `claim`, `result`, `claimTwo`, `resultTwo`: the five keys of a job
  digest. The all-zero checkpoint is never written and stands for a missing key.
  `cursor_digest` is the index of the filing, and a stored digest of another record
  is that record: digests are assumed not to collide.
- A `Command` is one invocation, and also the random attempt digest it draws
  (`secrets.token_hex`). `authorization` is the digest an operator passes to an
  attempt two: any command's, right or wrong.
- `base` is the local `checkpoint` of `_run_impl` (and of `_AttemptTwoContext`),
  `previous` is `ControlCheckpointStore._previous`, `here` holds the loop's counters
  and cursor, `legacy` the first claim and result an attempt two has read, `verdict`
  the outcome of the one filing of a retry, `exit` the exit status.
- `pc[c] = "give_up"` is `_finish_attempt_two_failure`: discovery, or the check of
  the plan, has failed under a claim of attempt two.
- `Stops` is every way to end at an await without going on: a raised provider or
  validation error, a passed deadline, a kill. A failed ledger write always ends
  the command, so a command leaves at most one write in flight, `late[c]`, which
  `ArrivesLate` executes once or drops.
- `ingested`, `attempted` and `charged` are history: what really happened to the
  filings, for the properties to compare the records with.

### How the state of the other modules corresponds to the code

`ReservationBudget`:

- `counter[d]`, `counterEnds[d]`: the value and the expiry of the budget key of UTC
  day `d`; zero is no key. `record[r]`, `recordEnds[r]`: the reservation key of
  request `r`. An expired record keeps its last state for the properties; no script
  sees it (`Readable`). `clock` counts ticks, `TicksPerSecond` to a second.
- `window[r]`, `day[r]`: the locals of a client. The API computes the window first
  and the service the day afterwards (`pc = "date"` is between them); the diagnostic
  does it the other way round.
- `late[r]`: a script whose caller has given up. Each request has at most one.
- `paid`, `lapsed`, `crossed`, `excused` are history.

`MarketDataRefresh`:

- `entry`, `lock`, `counter`: the cache key, the lock key with its token, the quota
  key of one day. `registry[p]`, `holder[l]`: `_singleflight` and who is inside a
  lock object. A lock object is named after the request that created it.
- `local[r]`: `held` is `stale is not None`, `acquired`, `object` are the locals of
  `_cached`, `error` the exception of the provider, `polls` the turn of the waiting
  loop.
- `late`: commands without a caller. `used`, `lapsed`, `overtime`, `spoiled`, `refused` are
  history; `refused` is the request that the last step has ended with an error about its
  refresh: a busy lock, an exhausted quota, a failed provider, a failed command.

`SymbolDirectory`:

- `bucket`, `manifest`: cache entries, each with the run that wrote it and the
  time; freshness follows from `clock`. A generation is named after the run that
  loaded it. `records`, `step`, `unwritten`: a run of `refresh_directory`. `late` holds
  manifests under way without a caller, with the lifetimes `UpstashCache.set` has given them
  when they were sent.
- `active[s]`, `unread[s]`, `found[s]`, `stale[s]`: the locals of `search_symbols`.

`QueryPath`:

- `index`, `serving`, `published`, `complete` (`CorpusPublication`): the active index,
  pointers, PUBLISHED records and the generations with all their vector points, of
  all accessions. `named`, `pointed`, `listed`: what the three commands of
  `list_active_generations` have read; `evidence` the accepted hits, `cited` the
  citations of the answer. `moments` is history: what was served since the question
  was asked.

`FilingSource`:

- `recent`, `files`: the SEC's table of recent filings and its files of older ones
  (external). Filings are numbered by age. `until` is `_next_request_at` minus now, `delay[c]` what is left of a sleep,
  `throttle` who holds the lock, `offset[d]` the cursor, `unread[d]` the tables a
  discovery has yet to request for the page, one request each, `candidates[d]` what it has
  read for it. `since`, `seen`, `present`, `short` are history; `short` says that a page was
  made without a file that held a filing asked for.

### What is abstracted

- The failure stage reported by an ingest, verification diagnostics and all
  counts but "is anything left" are left out.
- A poll of `verify_generation` that finds points missing changes nothing and is
  not a step; running out of polls is `RequestFails`.
- A retry's or a run's own validation errors (chunker, dimension checks) are
  `RequestFails` of the await they precede.
- Superseded cleanups are taken in any order; the code sorts them by digest.
- An interrupt (`CancelledError`) passes both `except Exception` clauses and goes
  straight to the release in `finally`. Its states after the release are those of
  a kill followed by the expiry of the lease, which the model has (`Halt`,
  `LeaseExpires`), so it has no action of its own.
- `list_pending_cleanups` reads the index and then the records. Within one
  accession the lease makes the two reads one; pending cleanups of other
  accessions of the symbol are not represented.
- Several runs of one accession are several values of `Run`. Runs of different
  accessions share no key but the two indexes, which are sets.
- In `RetryLedger` a failure stage is "vector_verification" or "other", the only
  distinction the ledger makes; inserted and removed counts are left out. A dry run
  ends before the checkpoint is read and writes nothing. A command told another plan
  has another job digest and so another ledger.
- `ReservationBudget`: what the API and the diagnostic check between authorization
  and commit is a choice. A script that arrives late does so before its day's
  counter key is used by another day, because the key names the day.
- `MarketDataRefresh`: one key and one quota day. A counter that lapses is followed by
  a day with a key of its own. `usage()` only reads. A history that needs several
  pages is several calls of `_cached`.
- `SymbolIndex`: a character is a number, a text a sequence of them, and the name of a
  company the set of its tokens. Rows of one symbol are identical but for the
  order, which is fixed by sorting.
- `QueryPath`: scores, polarity conflicts, the lexical support of a claim and the length
  of an answer are choices, so the checks hold for every outcome of them. A search
  may answer with any points, so which generations are complete does not restrict it.
- `FilingSource`: which files of older filings overlap the request, by the dates listed for
  them, and which entries of that list cannot be read are choices, except that a readable file
  with a filing asked for overlaps. After `FileLimit` (in the code eight) the rest of the list
  is left, as in the code. A sleep never ends early. Waiters for the lock may get it in any order; the
  ingestion command is sequential and asks for one page only, so the several
  callers and pages are those the class allows, not those of one command.

## Runs

| Run | Question | Instance |
|---|---|---|
| `lifecycle` | Does everything hold that a reader and the next operator rely on, with every failure at every await? | 3 runs, 2 generations, 2 batches, 1 late request, timing assumptions on |
| `lost_lease` | What still holds if a lease disappears under its owner and vector requests arrive at any time? | 2 runs, 2 generations, 2 batches, 1 late request, timing assumptions off |
| `recovery` | Does `--retry-failed` start from a clean slate, and is every lease given back? | 1 plain and 1 retrying run under fairness |
| `cleanup_order` | Is a superseded generation removed only after the checkpoint, as the documents say? | 2 runs, 2 generations, 1 batch; violated |
| `retry_ledger` | Do the records stay readable and immutable, and is each recovery paid for at most once by whoever claimed it? | 4 commands of any kind, 1 filing |
| `budget` | Does the counter of a day agree with who holds a unit of it, whatever is lost, late or around midnight? | 2 API requests, 1 diagnostic, a limit of 2, 2 late scripts |
| `market_data` | Do concurrent refreshes of one key, in several processes, stay within the quota, one at a time, and clean up after themselves? | 3 requests, 2 processes, 1 credit, 1 late command, expiring lock |
| `market_double_check` | Is the cache checked again under the Redis lock, as the document says? | 2 requests, 2 processes, nothing fails; violated |
| `symbols` | Does a search see one whole directory, rightly labelled, while it is refreshed? | 2 refreshes, 1 search of one or two buckets |
| `query` | Is an answer about the corpus of one instant whatever `CorpusPublication` allows meanwhile? | 1 question, 2 accessions of 2 generations of 2 chunks |
| `filing_source` | Are requests spaced, is no turn lost, and do the pages show all filings, whoever gives up and whatever the SEC changes? | 1 discovery, 2 downloads, 2 slots, 4 filings of which 3 match, 3 files of which 2 are read, 2 filings to a page |
| `resume` | Are the counts of a checkpoint and the exit status true, however a job is resumed? | 3 commands of any kind, 3 filings |

Bounds. Three runs are enough for one to publish, one to replace it, and a third
to meet the leftovers of both; two generations for "created", "replaced" and the
return of an old manifest; two batches so that a generation can be incomplete.
`MaxLate = 1` lets any one request be late at a time; what is proved is proved for
every number of them. Runs and
generations are symmetric in the safety runs; `recovery` checks liveness and
uses no symmetry. Retries exist only for jobs of one filing, so `retry_ledger` has
one: its four commands are the run that fails, the retry that fails, and two second
attempts that race, or an ordinary run beside them. In `resume` three commands on
three filings can resume twice, race on the same filing, and stop between any two.

In `budget` the day has two seconds of three ticks and the clock goes from its
third tick to the first tick of the next day: the window is rounded both up and
down, and requests fall before, in and after the last second. A
limit below the number of requests makes one refused. In `market_data` one credit makes
the quota the bottleneck, three requests allow two in one process (one drops the
other's lock object while a third enters) and one in another, one poll is enough for
the loop to end by running out. `symbols` has entries that live one tick fresh and one
stale, so that two ticks bring every age; two refreshes may overlap in every order,
with rows that share a bucket, fall into none, or differ between the
directories; one of the queries needs two buckets, one for the symbol it begins and one
for a name, so that parts of an answer age apart. In `query` two accessions make "one instant" differ from "one
generation each", two generations allow a replacement under a question, and the
second chunk of each generation is one to be filtered out. In `filing_source` there
are more callers than slots, and an interval of two ticks distinguishes an early one. Three
matching filings at two a page make two pages, of up to three requests each; archiving and
publishing happen between any two requests, and three files with a limit of two make the
listing stop short in some behaviours and not in others.

Deadlock is checked in `lifecycle`, `lost_lease`, `recovery`, `cleanup_order`,
`retry_ledger`, `resume` and `budget`, where `Terminated` is the only state in which
nothing happens. In the others the clients are finitely many and the system
stops when they are done; these runs say CHECK_DEADLOCK FALSE.

Fairness (`FairSpec`): a started run takes its steps or stops, because every await
is bounded by the deadline (`_command`, `_send`); Redis expires a lease whose owner
has stopped (`EX`); a late request is executed or dropped at last. Nothing is
assumed of one particular step: a run may always fail instead.

Timing assumptions, as constants so that both cases can be checked:

- `LeaseOutlivesRun`: the TTL of the lease is the remaining deadline rounded up,
  capped at 3600 s (`service.py:279-285`), and the command refuses a timeout above
  900 s (`ingest_research.py:186-198`), so a lease never expires before its run
  has stopped.
- `VectorSettles`: no vector request of an earlier run is still on its way when
  the next run starts. The index has no fencing token, so this is a real
  requirement on the deployment: a delete that arrives after another run has
  published the same generation again would remove served points.

### The disagreements found

`docs/architecture.md:70` and `docs/research-runbook.md:146` say the command
"checkpoints completion, and only then removes a superseded generation". The code
removes it in `_cleanup_superseded_generations`, inside `ingest`, and the runner
saves the checkpoint when `ingest` has returned. `cleanup_order` shows the state
in which the points are gone and no checkpoint is saved. It costs no data: the
new generation is already active, and a resumed job finds it "unchanged".

`docs/architecture.md:156` says "For a stale entry or miss, the service acquires a
short Redis lock and double-checks the cache." The second read (`market_data.py:245`)
comes inside the lock object of the process but before the Redis lock
(`market_data.py:251`), and there is none after it. `market_double_check` shows a request
that gets the lock another process has just released, and spends a credit on an
entry that is fresh. Within one process the check is effective for requests that share
a lock object; three requests can do the same there, because the registry drops an
object others still wait for and a third gets a new one.

Smaller ones, met while modelling and not made into runs:

- A "not found" from the provider overwrites the entry, also a stale one that was still
  valid (`market_data.py:369-376`); the documents speak of a stale fallback for
  seven days.
- "A failed refresh leaves the prior generation active" (`README.md:147-148`) does not
  hold for a refresh whose write of the manifest was carried out without an answer
  (`ManifestArrives`): the command reports a failure and the new, complete generation
  is active. Two overlapping refreshes may also end with the older one active.
- Discovery reads at most eight older submission files and passes over entries of the list that
  are malformed (`sec_filings.py:444-469`), and reports neither: the last page then ends without a
  cursor although filings were never shown. No document says a discovery is exhaustive, so
  `NothingSkipped` is stated up to that.
- A query whose tokens all have one character finds no company by name, because
  buckets have two (`Reachable`).
- Five claims may be longer together than an answer may be (`domain.py:703`): a
  `ValueError` after the paid calls (`TooLong`), which `EnabledResearchService` does not catch.

## Properties

- `ActiveComplete`: whatever is active is published and has all its batches.
- `ActivePublished`: the control-plane half, and agreement with the index, which
  holds even when the lease is lost.
- `ReplacedAtOnce`: the pointer moves only to a generation never published
  before, never to nothing, and the cleanup of the old one is filed in the same step.
- `DeletesOnlyDead`: points disappear only from generations that are neither
  active nor staged or verified.
- `SnapshotFresh`: from reading the active generation to publishing, what a run
  has read is still true.
- `SupersededTracked`: every superseded generation with points left is pending in
  record and index.
- `ReportIsTrue`: "created"/"replaced" mean published, and a count of zero means
  nothing pending.
- `RetryStartsClean`: a retry pays only with nothing active, nothing pending and no
  point left.
- `LeaseReclaimed`: every lease ends.
- `PublicationImplemented`: the lifecycle implements `CorpusPublication`.

For the ledger:

- `LedgerReadable`: the five records always pass every check of the two snapshots.
- `LedgerAppendOnly`: a claimed checkpoint, a claim and a result never change again,
  also by a write that arrives late.
- `PaidByClaimant`: whoever calls the paid `ingest` of a recovery holds the claim of
  that attempt, and the second only after a failed verification of the first.
- `CheckpointExact`: a checkpoint counts every filing before its cursor exactly once,
  skips none, and counts no more successes than there were.
- `ExitIsTrue`: exit status 0 means that every filing of the plan was ingested.
- `AttemptsImplemented`: the ledger implements `RecoveryAttempts`.

For the budget:

- `CounterIsHeld`: the counter of a day is the number of reservations that hold a unit
  of it, as long as its key lives.
- `PaidStaysCharged`: whoever made the paid call has a committed reservation, for ever.
- `WithinLimit`: no day pays for more calls than its limit.
- `LapsesAtTheEnd`: a counter lapses in the last second of its day or later, unless a
  request took the window before midnight and the date after it.
- `NothingStranded`: a finished request has spent its unit or given it back, but for the
  cases `excused` names, one by one.

For market data:

- `QuotaHolds`: the counter covers the calls under way and those that brought data,
  and stays within the limit.
- `OneRefresh`: one caller of the provider per unexpired lock.
- `RegistryEmptied`, `NoLockLeftHeld`: lock objects are dropped from the registry, and
  left, whatever fails.
- `StaleFallback`: whoever has read a valid stale entry is answered with it, whatever part of the
  refresh fails. (A failed read of the cache ends the request all the same.)

For the symbol directory:

- `PromisesKept`: a manifest promises only buckets its run has written before it.
- `ReplacedAsAWhole`: the directory implements `DirectoryRegister`, one register that is
  replaced as a whole. A search, whatever it overlaps, shows the page of the directory
  that was served when it read the manifest, or fails.
- `LabelledStale`: an unlabelled answer was made of entries fresh when it was asked for.

For the query path:

- `OneInstant`: the citations are, across filings, of the corpus as it was at one
  instant while the question was under way.
- `ListingConsistent`: the three listing commands never contradict each other.

For the SEC source:

- `Spaced`: requests are an interval apart.
- `TurnsNotLost`: who gives up takes no turn with it.
- `NothingSkipped`: all pages together have every filing that was there at the
  beginning, unless one of them was made without a file that held a filing asked for. It relies on the list only growing: what is there can then only move down,
  wherever the new filings come.

## Proofs

The theorems about the lifecycle are stated for every set of runs and generations,
every number of batches and every bound on late requests; they rest on the named assumptions of
the modules (`BatchesAssumption`, `NoneAssumption`, `RetryRunsAssumption`,
`MaxLateAssumption`, `TimingAssumption`).

1. `TypeCorrect`: `Spec => []LifecycleTypeOK`.
2. `PointerPublished` (`[]ActivePublished`) and `PointerReplacedAtOnce`
   (`ReplacedAtOnce`) need no timing assumption: they follow from the comparisons
   in the scripts alone. The invariant `PointerInv` adds that an abort in flight
   carries a record that is not `Published`, so no abort can match a published
   record. `ReplacedForEver` follows from it too: what was replaced is never served
   again, whoever has lost its lease.
3. `ActiveIsComplete`, `SnapshotsAreFresh`, `OnlyDeadDeleted` assume
   `LeaseOutlivesRun` and `VectorSettles`. `ActiveComplete` is not inductive: a
   state with a delete of the active generation in flight satisfies it, and so
   does one with a run about to publish an incomplete generation. `FenceInv`
   excludes both. Its parts: `LeaseHeld` (a run between acquire and release has
   the lease), `LatePhase` and `LateAlone` (how far the sender of a late request
   has got, and what it can have left behind with it), `VectorFenced` (a late
   vector request keeps every other run out), `NothingOwnedYet`, `CleanupsRetired`
   and `DeletesDead` (deletes aim at generations that cannot come back),
   `PointsComplete` (verified, served or about to be verified means complete) and
   `SnapshotFresh`. Every conjunct has one lemma that all steps preserve it.
   `OneRunAtATime` (mutual exclusion of the runs) is a consequence of `LeaseHeld`.
4. `SupersededIsTracked`, `ReportsAreTrue`, `RetriesStartClean` and the refinement
   `PublicationIsImplemented` (`GenerationReportProofs`) assume the same and rest on
   `ReportInv`, which adds to `FenceInv` what the store and the runs know of each other.
   `UpsertsUnpublished`: whoever upserts has staged its generation, and an upsert in
   flight has no publication of its sender beside it, so points never come back to a
   published generation. `Emptied`: a cleanup that is marked, by a run or by a request in
   flight, finds its generation empty. `Filed` and `IndexExact` are the two halves of
   `SupersededTracked`. `RetryClean` follows a retry from its preflight to its
   embedding: what it has read is still so at every step between. `ReportsTrue` says
   that a run with a result is past its publication, and that the pairs on file are
   among those it still has to do, unless it counts one as left. `StepChange` names
   the six things a step can do to the store (publish, rewrite a record, unfile a cleanup,
   fill, empty, forget a marker); publish, fill and empty are the steps of
   `CorpusPublication`, the others stutter (`PromiseStep`). The index is part of the mapping.

5. `RetryLedgerProofs`, for any number of commands and filings, from
   `ReferencesAssumption` and `NoneAssumption`. `LedgerTyping`, `ReadableForEver`,
   `PaidOnlyByClaimant`, `RecordsImmutable` and the refinement `TwoAttempts` follow
   from `LedgerInv`. None of the properties is inductive: that a claimed checkpoint is
   immutable depends on every save that is awaited or in flight, which does not look
   at the claim. The key is `ProgressInv`: a save that expects a complete checkpoint
   writes that same checkpoint, and a retry is claimed only on a complete one.
   `RecordInv` ties the records to one another and to the commands that own them,
   `AttemptInv` says what a command knows of them at each await. `CheckpointIsExact` and
   `SuccessIsTrue` need `ExactInv` as well: every progress record a command holds or
   Redis keeps is backed by filings really tried and ingested (`Backed`).

6. `ReservationBudgetProofs`, for any finite set of requests, any limit, day length and
   clock (`UtcDayAssumption`, `BudgetAssumption`). `CounterIsHeld` is not inductive: a
   script that arrives late changes the counter on the strength of the record alone. `AccountInv`
   adds what a client can have done to its record (`ClientInv`): before its authorization
   is executed it has no record and nothing under way; an authorization in flight finds no
   record and belongs to a client that is giving up; whoever pays has committed; and
   whoever is over and still holds a unit is excused, or the day's counter has lapsed.
   That the holders are counted right is a matter of cardinalities, proved once for a
   set that gains and one that loses an element. `LapsesOnlyAtTheEnd` rests on `TimingInv`
   and on lemmas about the rounding: a window taken in the last second is one second,
   any other ends within the last second of its day or at midnight.
7. `MarketDataRefreshProofs` (`RefreshAssumption`), for any number of requests and
   processes. `ObjectInv`: a request in a lock object holds it, and the registry
   entry of a process is an object one of its own requests uses. `LockInv`: the token in
   Redis is the owner's unless its lock has expired. `QuotaInv`: the counter covers,
   besides the calls and the answers, every rollback still to come, from a caller or in
   flight; without it a rollback would seem to take another call's credit. Together they are `RefreshInv`;
   `StaleIsFallback` follows from the steps alone.
8. `QueryPathProofs` (`QueryAssumption`), for any number of questions, filings, versions
   and chunks, beside any behaviour of `CorpusPublication`. `QueryInv` says that the
   pointers a question has read are those of one of the moments it has lived through,
   that what is listed and accepted comes from them, that what is in the index has a
   pointer and what is served a PUBLISHED record, and that such a record stays so.
9. `FilingSourceProofs` (`SourceAssumption`). `ThrottleInv` says that
   whoever gives up takes no turn with it, and that only the holder of the throttle
   sleeps, exactly for as long as the next turn is away. `AllPagesShowAll` is about
   positions in a sorted list that changes between the pages. A filing stands at the
   place after those that are newer (`PlaceOfFiling`), every place is taken
   (`OrderedIsSequence`), and a page takes the filings at its places (`PageTakesNext`).
   `NothingSkipped` speaks only of discoveries that are over; `PagesInv` says what holds on
   the way: a filing of the beginning that has not been shown is among what the
   discovery has read or will read for the next page, at a place not before its cursor. Filings that
   appear only push it down (`NewerGrows`). Between two requests of one page a filing may change tables
   behind the discovery's back; it is not lost from sight, because the recent table is read first and
   files only grow: `Collected` joins what has been read with what the files yet to be read hold.
   All this is conditional on `~short`, and `short` never becomes false again.
10. `SymbolDirectoryProofs`, for any number of refreshes and searches and any lifetimes
   (`DirectoryAssumption`). Of the data it assumes what the code has validated: the
   source answers with finitely many rows whose symbols are none or match `_SYMBOL`,
   names are given by tokens of letters and digits, and a query has at least two characters.
   - `IndexFindsReachable`: the buckets of a query and those of a match have one in
     common exactly when the match is `Reachable`. Two letters at the beginning of a
     query always belong to one token, so a bucket of the first two characters
     that is not a token's holds only symbols.
   - `ManifestPromisesKept`: `PromisesKept` is not inductive, because a late manifest is
     written without looking at the buckets. `DirectoryInv` adds that the run of such a manifest
     has failed after its last bucket (`ManifestsComplete`), that a run leaves no bucket
     behind it (`RunsProgress`), and that a bucket only ever holds what its own run wrote
     (`BucketsOwned`). `GenerationsStay`: once its run has ended, a generation does not change.
   - `AnswerIsWhole` and `FreshAnswerIsFresh` rest on `SearchInv`: a search under way has found
     exactly what the buckets it has read hold (`Held`), and if it has seen nothing
     stale they were fresh when it began. That this stays true while others write is
     `GenerationsStay`; that it is a whole answer at the end is `IndexFindsReachable`.
   - `DirectoryIsRegister` is the refinement of `DirectoryRegister`. Writing the manifest, in
     time or late, replaces the register, reading it is the search's only look at it, and all bucket
     reads and writes stutter, except that the last read shows the page. `RegisterInv` adds to the invariants
     above that every run that is served or still may be has loaded something (`LoadedFirst`).
     Loading does not change what is served because the run of a manifest has ended; that the page is
     one of the directory seen at the manifest, although it is put together later, is
     `WholeAnswer`, which `AnswerIsWhole` proves.
   - `BestAreShown` says what the ranking shows: as many of the reachable matches as fit on the
     page, each once, the best first, none left out that is better than one shown. It needs that
     `Before` is a strict order of texts (`BeforeTransitive`, `BeforeTotal`) and that a directory has
     one record for a symbol (`LoadedAreDirectories`). So the answer is the same
     whatever order the buckets were read in.

Not proved, for reasons of the provers:

- `LeaseReclaimed` is liveness under fairness, which they do not do; it is only model-checked.
- What a recursive definition computes for every input would be an induction over data.
  No module uses one: the order of the filings and of the matches is defined by
  how many come before, and the least element of a set of numbers is found by
  well-foundedness, so that the proofs need no such induction.
- The two runs that expect a violation show one behaviour each, for which a theorem has nothing to add.

## Not modelled

- In-memory adapters (`research/memory.py`, `cache/memory.py`): each operation is, under
  a lock of the process, the script the modules here model for Redis.
- The vector smoke test: one synthetic point, written, read and deleted in a sequence,
  by an operator who reads the result; no other state depends on it.
- `domain.py`, `config.py`, `fingerprints.py`, `evaluation.py`, `chunker.py`, the filing
  parser: validation and transformation of data in one call, without state. Their
  correctness is about texts and bytes, which a model would have to put together
  character by character.
- Sessions, CSRF, host policy and per-minute limits of the HTTP layer; the wiring
  in `main.py`.
- The wire formats of OpenAI, MarketData, Upstash: only what a call may answer and how it
  may fail.
- The dashboard: browser code.

## Plan

Done: every part in the table of modules, and a theorem for every property of every
passing run but the liveness property. Left, in this order:

1. Refinements not stated yet: the budget as an account that is charged and refunded
   once for a request.
2. The runner composed with the lifecycle: a checkpoint that is complete although a
   superseded cleanup is still pending (`ingestion.py:634` drops
   `cleanup_pending_count`), so that no rerun of that plan resumes it.
3. The read-only preflight of the diagnostic.
4. The overlap of chunks, as operators.
