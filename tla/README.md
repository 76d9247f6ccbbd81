# Verification of the disclosure agent

TLA+ models, model checks and proofs of the program under `src/`: a question-answering service over
DART disclosures. An offline builder parses a corpus into a SQLite database with a full-text index;
a FastAPI server answers `GET /answer` from it, with optional calls of an LLM service.

Paths below are relative to `src/src/dart_agent/` unless they start with `scripts/` or `specs/`.

## 1. Inventory

| Part | State | Operations | Hard behaviour |
|---|---|---|---|
| Rate limiter, `api/ratelimit_mw.py` | `_hits`: a deque of admission times per client | `check()` in an async middleware | eviction at the bound, edges of the window, truncated `Retry-After` |
| Request handling, `api/server.py` | `_STATE`, counters | `answer()` (a plain function: runs in a pool of about 40 threads), start-up, `/ready` | concurrent requests, last-resort `except` |
| Answer cache, `agent/orchestrator.py` | an `OrderedDict` without a lock | look-up, expiry, touch, insertion, trimming | interleavings of threads between any two of them |
| LLM calls, `llm/clova.py`, `llm/ratelimit.py`, `llm/hard_deadline.py` | pool of 8 threads and its queue, `_sleep_until` of the Pacer, the deadline of each request | `run_bounded()`, `_post_with_retry()`, `Pacer.wait()` and `observe()` | hung calls, retries against a deadline, a shared Pacer without a lock |
| Answer pipeline, `agent/orchestrator.py`, `narrate.py`, `verifier.py`, `abstention.py`, `route_section.py` | none between requests | understand, tools, context, abstain, narrate, verify, strip, verify again | fall-backs at every stage, the second verification |
| Tools, `agent/tools.py` | none (reads the database) | `fact_query`, `get_section`, `doc_search`, `event_query`, `trace_chain`, `compute` | filters on effective documents, refusal of operands that are no facts |
| Correction chains, `store/corrections.py` | `supersedes_doc_id`, `is_effective` of each document | `resolve_chains()`, `chain_of()` | corpora loaded in parts, chains over several corrections, pointers that are never reset |
| Index build, `scripts/build_index.py`, `store/repository.py`, `store/alias.py` | the database: one transaction for the names, one per document, then chains, meta data, index | `main()`, `build_alias_table()`, `clear_doc()`, `store()` | crashes between transactions, reruns over another corpus, documents that fail, a server beside it |
| Full-text index, `retrieval/fts_index.py`, `bm25.py` | the FTS5 table joined by rowid, a tokenizer mark, a legacy pickle | `build_fts()`, `fts_ready()`, `load_saved_index()`, `rrf_fuse()`, the ladder of the server's start-up | stale rowids, interrupted rebuilds, two builders of one table |
| Vectors, `retrieval/vectors.py`, `scripts/embed_sections.py` | a second database: one vector per section, of some model; a copy in the server's memory | resumable embedding, cosine ranking, `fetch_doc()` | kills between checkpoints, errors that are retried, vectors of texts that changed and of documents superseded since |
| Names, parsers, numbers, PII patterns | none | string functions | (data only) |

Interactions: the middleware calls the limiter on the single event loop before a request reaches a
thread. Each server thread uses the one orchestrator, hence the one cache; the stages of the pipeline
that use the LLM (`route_section.route`, `narrate.narrate`) submit a call to the one pool with
`run_bounded()`, and the pool's threads share the one provider and its Pacer. The builder writes what
the server opens read-only at its start; `resolve_chains()` decides which documents the tools count.

What makes each part correct: the limiter's memory is bounded and its `Retry-After` true; the cache is
bounded, returns only answers to the same question, young enough, and no interleaving leaves a
request without a reply; no routing or narration holds a request beyond its deadline; corrections neither lose
information nor count it twice, whatever the order of loading; a build that was interrupted or
repeated leaves whole documents, and ends like one that wasn't; a start of the server finds an index or builds
one, whatever was left; a name keeps its company; an embedding job that says it is complete is, and pays
only for what the store lacks; a search cites current texts of effective documents only; no unverified sentence is in an
answer that claims it is verified.

## 2. Modules

| Module | Models | Checked by |
|---|---|---|
| `WindowLimiter` | what the limiter promises: a sliding window that remembers every admission | property of `RateLimit` |
| `RateLimit` | `ratelimit_mw.check()` | `MCRateLimit`, `RateLimitProofs` |
| `LlmClient` | a request's LLM stages and its embedding, pool, retry loop, Pacer, services | `MCLlmClient` (two cfgs), `LlmClientProofs` |
| `AnswerCache` | `Orchestrator.answer()` in the server's threads | `MCAnswerCache`, `AnswerCacheProofs` |
| `Corrections` | `resolve_chains()`, `chain_of()` over loads of a corpus in parts | `MCCorrections` (two cfgs), `CorrectionsProofs` |
| `Tools` | the queries of `agent/tools.py` as operators on a database | through `AnswerPipeline` |
| `Verifier` | texts, `verify()`, `strip_failing_sentences()`, the guards of `narrate()`, as operators | through `AnswerPipeline` |
| `AnswerPipeline` | the stages of `Orchestrator._run()`; extends `Tools` and `Verifier` | `MCAnswerPipeline` (four cfgs), `AnswerPipelineProofs` |
| `Store` | one database file: what `repository.py`, `alias.py`, `corrections.py` and `fts_index.py` make of it, as operators | through `BuildIndex` |
| `BuildIndex` | `build_index.py`, a process that is killed and run again; extends `Store` | through `ServerStart` |
| `ServerStart` | the choice or building of an index at the start of the server, beside the builder; extends `BuildIndex` | `MCServerStart`, `ServerStartProofs`, `ServerIndexProofs` |
| `EmbedJob` | `embed_sections.py`, a process that is killed and resumed | through `HybridSearch` |
| `Retrieval` | the fusion of two rankings in `doc_search()`, as operators | through `HybridSearch` |
| `HybridSearch` | a search while jobs and builds go on; extends `EmbedJob` and `Retrieval` | `MCHybridSearch`, `HybridSearchProofs` |

In each module an operator that is used by no other (`HasRoomOffByOne`, `KeyOfId`, `OnlyUnlinked` ...)
is a mutated form of a definition after it, which says what a bug there would be: with it in place, a run fails.

### RateLimit, WindowLimiter

`check()` has no `await`, so one call is one step: `Admit` (evict, prune, append) or `Reject` (prune,
429). `hits` is `_hits` with `<<>>` for an absent key; `Dropped` is the `while` loop. `told`, `log` and
`verdict` are history: the time the last 429 named, all admissions since the bucket exists, the last
decision. Eviction gives a client that is at its limit a new quota. `specs/SPEC.md:429` states the limit per
address and minute and says nothing of evictions; the refinement is relative to the life of a bucket
(`AdmitForgetting` of the abstract limiter), which is what the code keeps.

Bounds of `MCRateLimit`: three clients for two buckets (so eviction happens with and without a client
at its limit), limit 2, a window of one second of two ticks (so that `Retry-After` is truncated), and a clock of 5
ticks, more than two windows.

### LlmClient

A request goes through its stages (`Caps` is the cap of each stage's call: routing, narration).
`Submit`, `Result` and `Abandon` are `run_bounded()` seen by the server's thread; `Take`, `GiveUp`,
`ReadPause`, `RefusePause`, `Attempt`, `WakeUp` and `Backoff` are `_post_with_retry()` on a thread of
the pool; `Succeed`, `Fail` and `Backoff` are what the service does. `Fail` stands for a transport
error, a 4xx, the last attempt failing and a retry refused.
`ReadPause` and the end of the sleep are separate steps, since `Pacer` has no lock.

Before the last stage a request may be in the embedding of its question (`StartEmbedding`, `EndEmbedding`):
`doc_search()` posts it on the request's own thread (`agent/tools.py:315`), without `run_bounded()`, deadline,
retry or Pacer, and httpx bounds only single operations of it. So nothing in the program ends it, and a
deadline holds for routing and narration alone: `WaitsInBudget` is about those, `EveryRequestAnswered` says
that a request is answered or is in its embedding. AC-API4 for the request as a whole does not hold: `EndEmbedding`
may come at any time or never.

Time: ticks are coarser than the code's seconds, so a jitter of 50 % replaces 30 % and the half second
the code adds to a wait is 0. `Tick` waits for threads that can run (`Ready`): threads run promptly,
and what a test with sleeps can't reach are the orders of wake-ups within one tick. An HTTP call may
hang forever: `Service` and `EndEmbedding` have no fairness, only the threads and the clock have. `PoolRecovers`
therefore says what follows when calls do end. Deadlock is off: the clock and the requests are bounded.

Bounds of `llm_calls`: two requests of two stages for two workers, so that abandoned calls of the first
stage keep the second waiting in the queue, for ever if they hang; a budget of three ticks between the caps of two
and four, so that once the cap binds and once the deadline; one retry. A response may name a reset of 0, of 3 ticks
or none: with 3, as long as the budget, `Pacer.wait()` refuses a pause (`RefusePause`), and with less than that
left a retry is refused. The clock ends at 4, so requests that arrive at different times share a pause. A call that
has ended is `over`, whether it returned or raised: both end the stage (`Result`), and the text that the stage then
uses is the business of `AnswerPipeline`.

### AnswerCache

One operation on the `OrderedDict` is one step (the interpreter's lock makes each atomic); between two
of them any thread may run. `Lookup`, `Hit` (`move_to_end` of the hit), `Drop`, `Run`, `Store`, `Touch`,
`Trim`, `Pop` follow the lines of `answer()`; `KeyError` is any of them meeting a key that is gone, which
ends in the handler's last `except` (`ReplyError`) and loses the answer. `Stripped` is
`question.strip()`: questions that differ in blanks share an entry. An answer is known by the question
and id it was computed for and the time it was stored. Answers of runs that failed are cached too.

`FairSpec` is weak fairness of each request's thread: the operating system runs threads, and `_run()`
ends because its waits for the LLM do (`EveryRequestAnswered` of `LlmClient`) and the rest is
computation. A request whose embedding hangs for ever is outside of this assumption. Bounds: three requests, three threads, an entry for one, a TTL of one tick of two: an
entry is evicted or expires in every window between two steps of another thread. Questions `p`,
`blank_p` (equal after stripping), `q` under one id, and `s`, which is refused as sensitive.

### Corrections

`rows` is the database's documents: group, day of submission, correction flag, the target day of a
correction, report days of a holding report, the pointer and the flag. `Load` is `store()` of a new
document, in any order and with a `Resolve` between any two: `--limit` and `--groups` of the builder load
a corpus in parts. A document that is loaded again with the same file is unchanged, so `Load` of a
loaded document would be no step. `Resolve` is `resolve_chains()`, which is one transaction: for each
document the pointer found, or the old one (`Pointers`), then the flags. `DateTried` is the order 0, +1,
-1, +2 ... of the days; ties of similarity and the `LIMIT 1` of holding reports are left to the database.
All documents are of one company, because no query crosses companies. Corrections of a periodic report
have no target (its parser makes no `CorrectionDiff`), like `target = 0`.

Bounds of `MCCorrections`: three documents (a chain of three, two candidates for one correction, two
corrections of one original) on three days, a window of one day (the candidate of the day itself,
after and before), all combinations of flags, targets and report days; the walk of `chain_of()` is 4
instead of 20, longer than any chain.

### AnswerPipeline, Tools, Verifier

A request keeps its state to itself, so each stage of `_run()` is one step: `Understand` (with the
LLM's routing), `RunTools`, `Abstain` or `ComposeText`, `Narrate`, `Check`; `Break` is the `except` of
`answer()`, for an exception of any stage. A stage leaves its result in a variable: `question`, `found` and `comp`, `body`, `answer`.
`composed` is history, the text before the LLM's.

A question is a record of what the patterns find in it (companies, metric, years, words that ask for a
trend, a forecast ...), so no text is parsed. A text is a set of sentences, a sentence what the patterns
of the guards and the verifier find in it: numbers with units, the numbers that repeat an exact amount in
brackets, citations, words. The order of words is left out, since no check looks at it. The checks that
compare digits are modelled with their leniency: `Within` is the substring test on the context, so 30 is
grounded by 130. Besides the numbers of the evidence the context holds those of its citations ([C1]), and
`Incidental` digits: those of receipt numbers, dates and scores, and of numbers that adjoin when commas, blanks and
units are removed. Which they are is a constant, for every context that is not empty; the theorems are for any. Amounts are scaled by `Scale` in place of 10^8.

The LLM may return any text one edit away from the composed one: a sentence dropped, a number, citation
or word added, removed or exchanged; or it fails. `Searches` is any choice of eligible sections, in any
order, since scores are outside the model. An unknown amount is `known = FALSE`, an uncertain unit
`sure = FALSE`.

`Tools` and `Verifier` are without variables, so that a mutated operator changes what the pipeline does. A
sort (`SortedBy`: `ORDER BY`, `sorted()`) gives each row the place of as many as come before it, which is what a
stable sort does and can be reasoned about; `RowsAssumption` and `QuestionAssumption` say of rows and
questions only that there are finitely many, with numbers in the columns they are sorted by, and that a question
without years has no year (`parse_period()` finds none where `parse_years()` finds none), so that the fall-back
`years = q.years or [q.year]` never applies. `DefaultYears` stands for 2023 to 2025.
Deadlock is off: a request ends in `answered`.

Bounds of `MCAnswerPipeline`: two companies; any part of six figures (a duplicate, a superseded one, one of
three months, one without a known amount), of six sections (a part of another, one with personal data, one with
orders to an LLM, one superseded, one blank) and of five contracts; 22 kinds of questions, at least one for
each type, each reason to abstain and each fall-back. Of events two and of sections one are put in the
context, so that both lists are cut. One edit of the LLM is enough to break one guard; guards compare
sets, so a second edit is caught by its own guard or makes good the first.

### Store, BuildIndex, ServerStart

A database file is a record (`Database`): the names, the documents, the rows of the seven tables of parsed
data, the full-text table and its mark, the meta data. `Store` has an operator for each thing a transaction makes of
it (`WithCompanies`, `Cleared`, `Stored`, `Resolved`, `Dropped`, `Created`, `Filled`) and for the two reads that
matter, `FtsReady` and `FtsHits`. A row carries the file it was parsed from, so that rows of two versions of a
document are told apart, and a section its implicit `rowid`, the highest in use plus 1, by which the
index is joined to it. Constraints are those of `store/schema.sql`: NULL in a unique field conflicts with
nothing, so facts without an `acode` are stored as often as they are parsed; two tables have no constraint.

In `BuildIndex` each action is one commit of `main()`, or the step between two. `Start` chooses the arguments
and finds a corpus and a `universe.csv`, which may differ from run to run. `disk[i]` is the content of an
inode: `Unlink` (`--rebuild`) takes the file's name away, and a server goes on with the old one. `DROP` and `CREATE`
commit themselves (`Drop`, `Create`); `Scan` is the SELECT over the sections, `Insert` takes the lock for the rows
that `CommitIndex` adds. Rows are inserted 2,000 at a time (`BatchRows`): of more sections the first batch is
written while the SELECT is open, and SQLite refuses to write if there was a commit since (`fresh` says whose
SELECT is of the last one); no more than that are written when the SELECT has ended, however old they are by then, and
only a rowid that is taken makes the insert fail (`Fillable`). So a server that has scanned a small file may add what
it found to the table of a builder that has loaded other sections since: `FinishedIsConsistent` is about what searches
find. The equality of README.md:332 (as many rows in the index as sections) does not hold then. `init_schema()` is `CreateTables`, a commit of
its own, before which a server may find a file without tables; that its single statements commit one by one is left
out: the tables before the sections are of no use to a reader, those after them only to the builder, whose next run
creates what is missing. `Kill` is possible at every step, `Fails` is an error outside the loop over the documents.

`ServerStart` is `_startup()`: open read-only, `fts_ready()`, then the legacy pickle, then the count of the sections
(`CountStored`, outside of the `try`: without the tables the start-up ends), then a build of its own through
a second connection, whose steps interleave with the builder's. A legacy pickle may be empty or older than the file:
`StartRepairs` only says when it is taken. A row has no tokenizer: a mark that does not fit the rows, as a late commit by
a host of another tokenizer leaves it, is not seen by the model. `alone` is history: whether the builder, or
an error, came in between. Which original a correction has is a constant here; `Corrections` has the search.

Bounds of `MCServerStart`: an original and its correction, of two companies; three files of a document (one with
duplicates and facts without key, one with fewer rows and a correction, one that no parser takes), so that a
second run leaves fewer rows than the first; four corpora, two universes that give one name to two companies;
two runs, each full, with `--rebuild --also-pickle`, or of one group with `--limit`; one start of the server on a
host of the builder's tokenizer or another; two files; a batch of two rows, so that a scan of two sections is
written late and one of three is refused. Two runs are a rerun over whatever a killed
run left. A third adds something only where a file is replaced while a server has it open: then the builder may have
finished another file than the server's, which is why `HitsAreHonest` speaks of the file of `path`. The theorems of
`ServerStartProofs` and `ServerIndexProofs` are for any number of runs. Deadlock is off, because runs and starts are
bounded.

### EmbedJob, Retrieval, HybridSearch

The database is what a finished run of the builder leaves: texts and effective documents (`Databases`); `Rebuild`
replaces it at any time. `StartJob` reads the scope's sections and those that have a vector of the job's model
(`Existing`); the requests then go one by one: `Answered`, `Retry`, `GiveUp`, with `Save` after `--save-every`
answers, and `Finish`. An error is the set of marks of its text (`PassingMarks`), since the code looks for them
there. `KillJob` loses the answers that aren't saved. `rows`, `first` and `whole` of the job are history.

`HybridSearch` is `doc_search()` in a server that loaded the vectors at its start: `Search` asks the index and
ends there without vectors, `Fuse` has the embedding of the question and `Degrade` has not, `Fetch` is one
turn of the loop that reads missing texts, `Reply` returns. Between any two steps a build may replace the texts
or a job the vectors. BM25 returns any ranking of any eligible sections, the cosine any full ranking of those that
pass its filters: scores are outside the model, the fusion is not. `Fused` is `rrf_fuse()` with its weights and
stable sort: a score is a fraction, two are compared by multiplying out (`Exceeds`), and a section's place is the
number of sections `Before` it. `Rescued` puts the first hit of BM25 into the last place.

The legacy index returns the texts of the database it was made of; `RepliesCurrent` is about servers on the
full-text index, and `TopSurvives` excepts texts that had to be read from another database than the search's.

`FairSpec` is weak fairness of the job's steps alone: each request has a timeout, each pause an end. Nothing
is assumed of builds, starts, questions or kills. Bounds of `MCHybridSearch`: three sections of three reports, two of
one company, of which one supersedes the other in one of the two databases and one is absent from it; two
models, two jobs, two attempts, checkpoints of two and a limit of one, so that a job is resumed, replaced by
another model's, or incomplete; `MaxFail` two; top 2 of two rankings of 2, so that the cut loses a hit; the code's
weights (k = 5, 3 to 1). Deadlock is off: jobs and builds are bounded, and a request ends in `replied`.

## 3. Runs

| Run | Result | What it shows |
|---|---|---|
| `rate_limit` | passes | `TrackedBounded` (README.md:25), `RetryPromise`, refinement of `WindowLimiter` |
| `llm_calls` | passes | `AttemptInBudget`, `WaitsInBudget` (AC-API4 for routing and narration), `NoSleepInVain`; under fairness `EveryRequestAnswered`, unless in its embedding, and `PoolRecovers` |
| `llm_pause` | violation | a call that found no pause erases the one another call's response has asked for since |
| `answer_cache` | passes | `CacheBounded`, `OwnQuestion`, `FreshWhenChosen`; `EveryRequestReplied` under fairness |
| `corrections` | passes | `NothingLost` (AC-C3), `HistoryFree` (AC-S4), `SameChain` |
| `corrections_latest` | violation | two corrections of one original are both counted |
| `answer_pipeline` | passes | `HighMeansVerified`, `EveryNumberSupported`, `MeaningKept`, `OnlyFailuresRemoved` |
| `server_start` | passes | `DocumentWhole` (AC-S1 to S3), `FinishedIsConsistent`, `HitsAreHonest` (D3), `StartRepairs`, `NamesKeepOwners` (AC-A2) |
| `hybrid_search` | passes | of jobs `DoneIsCovered`, `AnswersKept`, `NothingPaidTwice`, `HopelessJobStops`, and `JobEnds` under fairness; of searches `TopSurvives`, `RepliesCurrent`, `RepliesFit` |
| `pipeline_verified` | violation | the rejected text is sent with the report of the empty one (`body, rep = (cleaned or body), rep2`) |
| `pipeline_periods` | violation | three months of one company are compared with a cumulative amount of another |
| `pipeline_verdict` | violation | an LLM text with the reversed verdict passes all guards |

The five violations are disagreements between the code and what its comments or `specs/SPEC.md` say;
`findings` in `PROJECT.json` quotes both sides. Four more follow from the models without a run of their own:

- an attempt may start with less than `_MIN_ATTEMPT_S` left (`clova.py:45` says never), since `ReadPause` comes
  after the check (`GiveUp`);
- a repeated request is computed twice when the first isn't finished (`SPEC.md:322` says not again), since nothing
  joins `Lookup` to `Store`;
- a request waits for the embedding of its question beyond `REQUEST_TIMEOUT_S` (`agent/tools.py:315`; `SPEC.md:311`,
  AC-API4, promises an answer from partial evidence by then), since nothing bounds `EndEmbedding`;
- the late insert of a server leaves rows of sections that are gone in the index of a finished builder
  (`fts_index.py:93`; README.md:332 has "FTS5 112,797 = section 112,797 = is_effective 112,797", none missing), as
  `Scan` before and `InsertOwn` after a reload show. Searches don't return them (`FinishedIsConsistent`).

In `llm_pause` TLC's trace takes the shortest way, a call that
read no pause and never slept; a call that wakes up from an older pause erases a newer one by the same action (`Attempt`).

Conditions in properties, and why: `FreshWhenChosen` is about the step that chooses the entry (it may
expire while the thread returns it). `CacheBounded` allows an excess of one per thread between
insertion and the end of trimming: that is the bound an unlocked cache can have. `NothingLost` supposes
`Chronological`: holding reports of one day that each name the other's day as the day before supersede
each other, and a corrected document found after its correction's day (the window looks forward too)
can close a cycle; the source has no rule against either. `SameChain` supposes that chains don't branch and are
not longer than the walk. `NothingPaidTwice` is about the store: answers that a kill has lost are paid for
again. `HighMeansVerified` is about confidence `high` only: for `medium` it is
false (`pipeline_verified`). `MeaningKept` asks for citations, figures and critical tokens only when the verifier
removed nothing, since the removal may take them along, and for figures only where a summary may not drop them.

## 4. Proofs

`tlapm` proves, for all values of the constants allowed by the assumptions of each module:

- `RateLimitProofs`: `TypeOK`, `TrackedBounded`, `RetryPromise`, and that `RateLimit` implements
  `WindowLimiter`. The invariant says that each deque is ascending, is a suffix of the log of the
  bucket's admissions, that everything cut off has expired, and that a client told to come back has a
  full deque whose first entry the promise was computed from. The suffix is what makes lengths
  comparable: the number of recent admissions of the log is the length of the pruned deque. Finite
  sets come in through `Tracked` and the counts.
- `AnswerCacheProofs`: `TypeOK`, `CacheBounded`, `OwnQuestion` and the action property `FreshWhenChosen`. The invariant
  adds that each entry's answer is one to the entry's key, and that a thread past its look-up holds an answer to its
  own question. The bound follows from how each step changes the length of the cache and the set of trimming threads.
  `EntriesOK` says that keys are in the cache once and that the time of an entry is that of its answer (`TimeOK`): the
  expiry is tested on the one, the property is about the other.
- `CorrectionsProofs`: `TypeOK`, `HistoryFree`, `NothingLost` and `SameChain`. `resolve_chains()` never resets a pointer, so
  `HistoryFree` is not inductive; the invariant `FoundAgain` adds that whatever has a pointer still
  finds something, which holds since candidates are only added (`FindableStays`) and parsed fields never
  change. `FoundIff` shows that a day with candidates yields one, from the existence of minima. For `NothingLost` the
  flags agree with the pointers after a resolution (`EffOK`), and of the documents that supersede one the latest
  (`LatestExists`: days are bounded) is pointed to by none. For `SameChain`, a loop of `chain_of()` that ends before its
  bound has come to an end of the chain or to a document it has been at (`LoopEnds`), and the latter makes a
  circle (`CircleSupersedes`); so a chain not longer than the walk is found whole (`FoundWhole`, the theorem `ChainsAreWhole`),
  and the walks from any document of a whole chain stay in it and end at its ends (`FoundFromAny`). The inductions are
  over sets of numbers (`Climb`: what holds of 0, and of a number with the one before, holds up to a bound).
- `AnswerPipelineProofs`: `TypeOK`, `HighMeansVerified`, `EveryNumberSupported`, `MeaningKept` and `OnlyFailuresRemoved`,
  for any questions, databases, pattern words and LLM texts. `_run()` can send a text other than the one it verified
  last; that this never has confidence `high` needs `FiguresAsked` (figures are found only for a question
  that names a metric): such a question has a requirement (`FigureRequired`), which the empty text does not meet
  (`EmptyUnmet`). `OnlyFailuresRemoved` follows from two lemmas on `Strip` and `Verify`. `MeaningKept` needs
  `TextGuarded` (the text is the composed one or one the guards accepted) and `GuardsKeepMeaning`, which
  says what the guards promise of any part of an accepted text. `EveryNumberSupported` follows a number from the table
  to the answer (`Sourced`): each tool returns rows of effective documents of the companies asked about
  (`FactsAre`, `EventsAre`, `ChainIs`, `SectionsAre`, which rest on `SortedIs`: a sort loses and invents nothing), what is
  computed is computed from rows that were found, and a rate from an amount that is not 0 (`ComputedFrom`), each form of
  composed text has such numbers only (`ComposedSourced`), the guards let the LLM add none, and the removal takes away.
  `BestIsOne` (`TypeOK`): `SortKey` and the rows' order leave one figure for each company and year.
- `LlmClientProofs`: `TypeOK`, `NoSleepInVain`, `WaitsInBudget` and `AttemptInBudget`. A wake-up time is computed from
  the pause read one step before it is slept, and a retry is decided before the Pacer is asked, so the invariant says
  for each state of a call what its next step may rely on (`CallOK`): an attempt that is cleared is before the deadline, a
  sleep ends before it, a back-off leaves the least time of an attempt. `QueueOK` has each waiting call in the queue
  once, `Unused` that a stage that hasn't come makes no call, which is what makes a submission a fresh one.
  `PowerAssumption` says that the powers of two of the back-off are numbers: the provers know nothing of powers, TLC
  evaluates it in the runs of the module. The embedding changes no call and no wait, so it keeps the invariant.
- `ServerStartProofs`: `DocumentWhole` and `NamesKeepOwners`, for any corpora, parser results and hosts. Every step of
  builder and server changes a file in one of three ways (`Changed`): it loads a document, it adds names, or it leaves
  rows and names alone (`Quiet`), and each way keeps `FileOK`. That needs that rowids are unique and bounded, so that the
  rows of a document that is stored don't meet another's, and `TodoOK`: what is to be loaded is a file that exists.
- `ServerIndexProofs`: `TypeOK`, `FinishedIsConsistent`, `HitsAreHonest` and `StartRepairs`. Builder and server make the
  same table with no lock around `DROP`, `CREATE` and the rows, and the server may add rows it read long ago. What holds
  between them (`IndexInv`): who is in its last transaction has the lock of its file and a table without the rowids it
  adds (`Locks`); from the end of the builder's transaction on, a table is empty or has every section of an effective
  document, and a server that fills it adds to them or has scanned them all (`Settled`); no two rows of a table share
  a rowid (`RowsOK`), so the join by which searches find them returns each of these sections as it is stored, and no
  older row (`NothingIsMissing`); the flags of a file agree with its pointers (`ChainsOK`); and a start that nothing
  disturbed has the builder's file open, and in it a table with all sections and its own mark by the time it counts again
  (`Alone`).
  The proof found what two runs did not show: that a third run could open one file more than the model's bound on files allowed, and that
  hits are those of the text only in the very file the builder finished.
- `HybridSearchProofs`: of the job `DoneIsCovered`, `AnswersKept`, `HopelessJobStops` and `NothingPaidTwice`, of searches
  `TypeOK`, `RepliesCurrent`, `RepliesFit` and `TopSurvives`. `JobInv` says that the sections a job has yet to ask for or
  to save have no vector of its model (`JobShape`), that every row is open or covered while nothing failed (`JobCovers`),
  and what each counter counts (`JobCounts`: `ok` is what is pending and what has been saved of the sections the job set
  out with). `AskInv` follows the texts of a request from the index or the vectors to the reply; a build only adds to
  what was current during the request. For the fusion, `FractionOrder` and `BeforeOrder` show that `Before` is a strict
  total order, `PlacesByCounting` that counting gives each section a place of its own, so that `Fused` lists each section
  of both arms once (`FusedIs`); `Sound` then follows the first hit of BM25 and the filters through `Fetch` to the reply.

Only model-checked: liveness (`EveryRequestAnswered`, `PoolRecovers`, `EveryRequestReplied`, `JobEnds`), since the
provers do not reason about fairness.

## 5. Plan

1. Abstract specifications worth stating: `BuildIndex` implements a database that is replaced document by
   document, atomically; `AnswerCache` composed with `LlmClient` at the level of requests.
2. `BuildIndex` with the search for originals of `Corrections` in place of the constant `Original`, on a corpus in which
   the target of a correction changes between runs.

## 6. Not modelled

Of `agent/tools.py` what nothing in the program calls: `sum`, `delta`, `share_pct` and `rank` of `compute()`, the
correction and holding modes of `trace_chain()`. Of the pipeline: `think_trace`, the tabular summary of a
section and the reasons' wording; masking of personal data is the field `private` of a section, not its patterns.
In the pipeline a search is any choice (`Searches`); how its order comes about is `Retrieval`. Of the embedding job: the pauses
of `Pacer`, `--dry-run` and a missing key. The checks of a damaged vector store end in the same server as no store at all. A
start of the server on a read-only file system is `OwnBuildFails`. Parsers, the recognition of names, numbers, tables and PII patterns are functions on strings without state. Counters and log
masking have nothing to interleave. `eval/`, `infra/`, `scripts/release_manifest.py` are offline or
deployment. SQLite, httpx and Python's thread pool are modelled from how the code uses them.
