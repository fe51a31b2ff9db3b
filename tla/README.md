# A TLA+ verification of codexmeter

codexmeter collects the transcripts of coding-agent CLIs in an R2 bucket, ingests
them into Postgres once an hour, and serves a dashboard that stays up to date
while it is open. This directory holds TLA+ modules translated from its source,
the TLC configurations that check them, and proofs for TLAPS. Paths below are
relative to the repository.

## 1. The system

| Part | Source | State it keeps | Operations |
|---|---|---|---|
| Rollout archiver | `scripts/archive_codex_sessions.py` | rollouts on disk, a lock file, a manifest per machine in the bucket | one cron run: lock, list, upload, retire, markers, save manifest |
| Object store access | `backend/r2.py` | none (bucket) | list, GET |
| Ingest | `backend/ingest.py` | `files`, `records`, `tool_uses`, `projects`, `ingest_runs`, three rollups | a run: list, plan, fetch and parse in chunks, persist per file, delete orphans, post-passes, announce |
| Parsers | `backend/parse.py`, `parse_common.py`, `parse_codex.py`, `bash_churn.py` | the state of one parse | one pass over a transcript, line by line |
| Pricing | `backend/pricing.py`, `api_rates.py` | a table | resolve a rate, cost a record |
| Response cache | `backend/cache.py` | entries with a generation, key locks, the registry of refreshes, a pool of two | get, put, invalidate, refresh, warm |
| Transcript cache | `backend/cache.py`, `api_sessions.py` | an idle LRU bounded in bytes | get, put |
| Event stream | `backend/events.py`, `backend/api.py` | subscribers, a queue each, the shutdown event | subscribe, broadcast, deliver, end |
| Endpoints | `backend/api.py`, `api_dashboard.py`, `api_sessions.py` | none | read-only queries, through the response cache |
| Login and sessions | `backend/login.py`, `session.py`, `auth.py` | failures per address, the secret in the user's config, a guest secret per process | log in, resolve a cookie |
| Application | `backend/app.py`, `db.py`, `version.py` | scheduler, pools | start, hourly job, manual job, shut down |
| Front end | `src/*.jsx`, `src/views/*`, `src/parser.js` | what is shown | fetch, listen, parse a dropped file |

How they interact. The archiver writes the bucket and never talks to the server.
The scheduler starts an ingest at startup and every hour, `POST /admin/ingest`
starts one more, and nothing keeps two from overlapping. A run ends by calling
`invalidate()` on the response cache, in the same process, and then broadcasts
`ingest_done`; the browser answers by fetching `/api/dashboard` again, through
that cache. Request threads, the refresh pool, the ingest threads and the event
loop share the cache and the subscriber registry.

What is hard here:

- Runs overlap, and between any two transactions of one the other may commit.
  Objects are rewritten between listing and GET. A run may die at any point, and
  later runs have no memory of it beyond the rows it left.
- Under READ COMMITTED a rebuild of a rollup does not see an overlapping one.
- A value is computed before a commit and cached after the invalidate that
  follows it; refreshes must be neither doubled nor lost when queries fail.
- Queues of events fill up, browsers leave, the server shuts down.
- Codex goes on writing while the archiver stats, reads, uploads and deletes. A
  forked thread replays its parent's history and goes on from its counter.
- A parse carries an anchor, an open turn and open calls from line to line.
- The panels of one dashboard come from statements with a snapshot each.
- The transcript LRU is shared by request threads without a lock.
- A login writes back the whole config it read.

`PROJECT.json` lists every component, modelled or not, and every hazard with its
line and the properties that cover it.

## 2. The modules

| Module | Models | Composes | Proofs |
|---|---|---|---|
| `Ingest` | `run_ingest` and all it calls, runs in slots that overlap, the bucket's writers, releases | | `IngestProofs` |
| `Rollup` | the rebuild of one rollup, statement by statement and row by row | | `RollupProofs` |
| `ResponseCache` | `cache_response`, `_TTLCache`, the pool, and the ingest's commits | | `LiveUpdateProofs` |
| `Events` | subscribers, broadcast, the generator of `/api/events` | | `LiveUpdateProofs` |
| `LiveUpdate` | ingest end, cache, stream and one browser | `ResponseCache` (extended), `Events` (instantiated) | |
| `Archiver` | one machine's cron runs and its bucket keys | | `ArchiverProofs` |
| `Turns` | the state of one parse and the handlers every format shares | | |
| `KimiWire` | the two Kimi formats, as a file that grows | `Turns` | |
| `CodexRollout` | the codex parser, as a fold over the journals of a thread and its fork | `Turns` | |
| `ParseFile` | format detection, and the three formats together | `KimiWire`, `CodexRollout` | `ParserProofs` |
| `Pricing` | current and dated rates, the cost of a request, the repricing of token sums | | |
| `Panels` | the dashboard's statements, the session list, the picker, against ingests that commit meanwhile | `Pricing` | `PanelsProofs` |
| `TranscriptCache` | `get_transcript` over the unlocked idle LRU | | `TranscriptCacheProofs` |
| `Access` | login, session cookies, the middleware, what each role is answered | | `AccessProofs` |

The `MC*` modules hold only the constants of the instances.

**Ingest.** A transaction is a step. `files[k]` is the row of a key together with
its records: the etag stored, the version the records came from, the parser
version and which uuids are canonical. The phases of `pc` follow `_ingest_main`
(`list`, `plan`, `fetch`, `delete`), then `_finish_run`, then the five post-passes
of `run_ingest` in their order. `existing` is read once in `BeginRun`, the listing
grows key by key, a chunk is fetched before any of it is persisted, `Persist`
stores the etag of the *listing* with the content of the *GET*, and
`DeleteOrphans` uses this run's own listing. `AbortMain`, `AbortPostPass` and
`Restart` are the ways a run dies. A rollup is the set of facts it was computed
from, so "exact" means equal to what the present rows give. A rebuild is one step
here; its inside is `Rollup`. The UPDATE of `recompute_canonical` is two: it
reads a snapshot (`RecomputeCanonical`) and commits the flags it found wrong in it
(`CommitCanonical`), and transactions of other runs may commit between them.

**Rollup.** The three rebuilds are one shape: `DELETE` of the table, `Statements`
INSERTs (one, or eight for `latency_rollup`), commit. `doomed` is the DELETE's
snapshot, `fresh` the rows an INSERT has still to write, `deleted` and `inserted`
what the open transaction has done. A row lock, a key another open transaction
has written and a key that is there are guards of `DeleteRow`, `InsertRow` and
`Collides`; `Deadlocked` is Postgres breaking a cycle of waits. The order of rows
within a statement is free. `Permanent` items are those no ingest removes: an
installation whose whole history could vanish between two rebuilds is not
modelled, and the one way two rebuilds could mix (the second has no key in common
with the first) needs just that. A session in two projects is allowed: `KeyOf`
need not tell two groups apart, as the key of `usage_rollup` does not.

**ResponseCache.** The database is a counter; a response is the counter its query
read. A step is what a thread does under one lock, or one query. `fresh=1` (a
bypass that touches no state) and `clear()` (called by tests only) are left out.

**Events.** A step on the event loop is what runs between two awaits. A queue
holds the numbers of broadcasts. What the ASGI server does when it is told to stop is
not in the repository: a `server` may or may not wait for open responses before it
ends the lifespan (uvicorn does), and may or may not have a timeout.

**LiveUpdate.** Every step of `ResponseCache` and `Events` is a step of it, with
three joined: an invalidate is followed by its broadcast, the browser's fetch is
a request, and a delivered event causes a fetch.

**Archiver.** A step is one call on the file system or R2. A rollout's content is
the number of writes to it, which is also its signature. `--dry-run`, and the
storage forms no rollout takes (`_upload_verbatim`, `_store_plain`), are left out.
As the script's docstring measured, a main thread has one rollout, so that two
rollouts never share a key.

**Turns, KimiWire, CodexRollout, ParseFile.** `_ParseState` is a record, a handler
an operator from it to the next one, and `_finish_parse` is `FinishParse`. `KimiWire`
has one action per type of line, and `log` says what each line was, for the
properties to read. `CodexRollout` has codex as the environment: it appends to
journals what the comments of `parse_codex.py` measured (cumulative readings that
repeat, a fork that replays, a rollout that is only a tail), and the parse is a
fold over a journal. The properties compare the result with a declarative
reading of the lines. Left out: decoding of arguments and text; the churn of one
edit, one diff or one shell payload is a number.

**Pricing, Panels.** Costs are integers in half a rate's unit, and exact: the rounding
of a stored cost to six digits is left out. A file has records and tool calls; `db` and
`calls` are what is committed of them, `rolled` and `toolRolled` what the rollups were
built from. Of records only the canonical ones are there, since `Rollup` and `Ingest`
have how they are chosen, so that here they only accumulate; of calls every file has its
own, because nothing dedups them. The time of either may be missing, as `schema.sql`
allows: the rollups and the live rows drop such rows, the session list keeps the session
and lists it last, and a page that ends in one has no cursor. A
request runs its statements in order, each against what is committed then, and
`disturbed` counts the commits it may have seen. `Orders` leaves the order of
sessions that began together to the database. The panels left out are the
percentile statements (latency, response sizes) and the tool tables, which read
the same sources. `CorpusAssumption` says of a record what `schema.sql` enforces (a
primary key, columns of which `ts` alone may be null) and that its cost is what ingest computes
from its own tokens; `PricingAssumption`, that rates are numbers and the windows of a
model are in order, as `pricing.py` has them. `Costliest` is `ORDER BY cost DESC` with
a limit: which of the rows that tie are kept is left open. A row of either source has
an hour, which for a live row is its own instant (`SourceHour`).

**TranscriptCache.** A step is what runs between two points at which the interpreter
may switch threads: an `OrderedDict` operation is one step, the `+=` on `_size` is
a read and a write. An eviction that another thread has forestalled, and a change
under an iteration, are the errors Python raises. `Holds` is the content of each
version of an object, and content is also the etag, which is a hash of it: the key of an
item is the etag alone, two objects may hold the same, and an item has the length of its
body (`Length`).

**Access.** The login handler is a coroutine that never awaits, so only the clock and
other programs move during it; it is two steps, the read of the row and its
outcome. A cookie holds the secret it was signed with in place of a signature. A body
is the set of the fields that tell roles or projects apart (`About`), read off the
handlers; which routes and filters a guest is refused is `GuestDenied`.
The failures of an
address are a set, numbered in the order they came, since only their ages and their
number matter. `failed`, `revoked` and `overtaken` are logs for the properties.

## 3. The runs

The passing runs explore every state. The constants are in the `.cfg` files.

| Run | What it asks | Result |
|---|---|---|
| `ingest_serial` | one slot; two keys that share a uuid, each uploaded twice and removable; three releases, one that learns a format and one that bumps the parser version; a lost fetch; two deaths | `TypeOK`, `UsageCountsOnce`, `CleanRunHeals`, `CleanRunAccountsForAll`, `Converges` hold |
| `ingest_overlap` | two slots that overlap anywhere, uploads and removals in between | `SkipSound`, `QuiescentDerivedExact` hold |
| `ingest_announce` | the first instance | `CleanRunAnnounces` is violated |
| `rollup` | two runs, three items of which two share a primary key, two INSERTs, two changes, one crash | `TypeOK`, `OneRebuild`, `LoudOrExact`, `Heals` hold |
| `response_cache` | two request threads, two workers, one key, a commit, a failure, a warm, expiry at any time | `TypeOK`, `SingleFlight`, `RegistryExact`, `RequestsAnswered`, `EventuallyCurrent` hold |
| `events` | two connections, queues of two, three broadcasts, a stop, under a server that ends the lifespan at once and under uvicorn with a timeout | `StreamTypeOK`, `InOrder`, `ToldAfterwards`, `GoneUnsubscribed`, `ShutdownDrains` hold |
| `live_update` | one browser, one commit | `NotifiedSeesData` is violated |
| `archiver` | two cron starts, two rollouts in two projects, one with a plain copy, three writes each, the user deleting files, a failed call, a crash | `TypeOK`, `ManifestSound`, `BucketNeverForgets`, `RetireSafe`, `Settles` hold |
| `parse` | every Kimi file of up to four lines in either format; every pair of a rollout and its fork within three events of work, two requests and three marks | `LatencyFromOwnPrompt`, `TraceOnePerTurn`, `BilledOnce`, `ChurnByTurn` hold |
| `panels` | seven files with eight records and seven calls, of four sessions, four projects and three models, one file a fork that repeats calls, two records and a call without a time, two rates that change, every range, filter and page, two ingests committing meanwhile | `PanelsAgree`, `ChurnOfWholeHours`, `PickerAgrees`, `DecompositionReconciles`, `EverySessionListed` hold |
| `transcripts` | two threads, two files that start alike and are rewritten and re-ingested once, bodies of lengths 1, 2 and 4 in an LRU of 3, three requests, time passing | `NeverOlder`, `SoundAlone` hold |
| `access` | two browsers, one user and guests, a limit of two failures in a window of two, three secrets, edits by another program and restarts | `LimitPerWindow`, `GoodUntilRevoked`, `AnsweredByRole` hold |

Why the bounds are enough. Two runs are the least that overlap, and the proofs
cover any number. Two keys with a shared uuid give every relation the dedup
distinguishes (the canonical copy removed, rewritten, or joined by another). Two
versions of an object allow a rewrite between listing and GET and one more after
it. A queue of two with three broadcasts drops one. One cache key: keys share only
the pool, and two workers are one more than a key can use. Three writes to a
rollout are one that opens it, one that makes it placeable, and one that grows it.
A failure and a crash can each fall on any step, and their combination is in the
instance. Four lines are a prompt, a reply, an end and what follows it; two turn
ids and two calls are the least that can be taken for each other. Two requests, one
of which a fork replays, are the least that could be billed twice. The records
have a session that spans hours and models, two that begin together, a request on
the instant of a cut, one in the partial hour at the edge of a range, one at the
instant at which another session begins, a session and a project without any time, and a
session that gets its first known time with its second file. With
lengths 1, 2 and 4 in an LRU of 3 a put evicts nothing, one item or two, replaces an item
by a longer one, and may leave one body that is larger than the cap. A limit of two lets an attempt be pruned,
refused and counted within the bounded time. `CHECK_DEADLOCK FALSE` is set where
the system may stop: `events` and `live_update` after a stop, and the safety
runs `parse`, `panels`, `transcripts` and `access` when the bounded inputs are
used up.

## 4. Fairness

- `Ingest`: a run that has begun goes on and a slot starts again (`RunStep`),
  which is the scheduler's hourly job and a thread that is not suspended.
  Uploads, lost fetches, deaths and new releases are not fair, and are bounded.
- `Rollup`: Postgres and the runs go on, and runs keep being started. `Heals`
  speaks of runs that no longer overlap: with two that always overlap, deadlock
  after deadlock is a behaviour.
- `ResponseCache`: threads proceed, the pool takes its tasks, entries expire. A
  key lock is strongly fair to a waiting thread, since holders release it again
  and again and `threading.Lock` starves nobody for ever. Requests are not fair.
- `Events`: the loop runs what is ready; the heartbeat fires; delivery is strongly
  fair since a generator in `asyncio.wait` chooses the queue whenever it has
  something. A server that was told to stop ends the lifespan once nothing holds it
  up, and its timeout passes. Browsers are free to leave or to stay, and nothing
  obliges the server to stop.
- `LiveUpdate`: the same, and the browser runs its effect. `NotifiedSeesData` is
  violated although all this is granted.
- `Archiver`: cron starts a run now and then, and the run that has the lock goes
  on. Codex and the user are not fair.
- `ParseFile`, `Panels`, `TranscriptCache` and `Access` state safety only, under no
  fairness: what they have to bring about is the outcome of one handler.

## 5. What is proved

For every value of the constants that satisfies the named assumptions:

- **Types**, of ingest, rollup, response cache, event stream and archiver.
- **`SkipSound`** (`IngestProofs`): `_plan_work` never skips a file whose stored
  records are out of date. "The stored etag is at or before the stored content"
  is not inductive by itself: the content comes from a GET made by some run with
  a listing of its own. `EtagBehindContent` says it of the rows, of every listing
  against the bucket, and of every parsed object against the listing it was
  planned from; the bucket's versions only grow.
- **`OneRebuild`** (`RollupProofs`): a reader sees exactly the rows of the last
  rebuild that committed. The argument: a permanent item gives every rebuild a
  row in its first INSERT, the anchor. Two open transactions cannot both hold
  that key (`AnchorsExclude`), a transaction that holds it has deleted the anchor
  that was there, and a DELETE saw all rows of a committed rebuild or none
  (`AllOrNone`, for which transaction ids tell a row from an equal one of another
  rebuild, `XidsApart`). So one that commits has deleted everything.
- **`SingleFlight`** and **`RegistryExact`** (`LiveUpdateProofs`): the first, a property
  of steps, from `LockHeld` (who is past the lock holds it) and from what the holder
  looks at again before it computes (`NextFlies`); the second is inductive as
  stated, because it counts the refreshes being submitted, queued and running
  together.
- **`InOrder`** (`LiveUpdateProofs`): from `OrderInv`, by which callbacks still on
  the loop are newer than anything in a queue, and in order.
- **`ManifestSound`, `BucketNeverForgets`, `RetireSafe`** (`ArchiverProofs`): from
  `ArchiveInv`: only the holder of the lock is in a run, the bucket is never
  ahead of a file that is still there, what a run knows of the bucket is not
  ahead of the bucket, and a file that is not recent has not been written since
  it was statted.
- **`LoudOrExact`** (`RollupProofs`): from `LoudInv`. A rebuild is current while it
  has still to read the records or has read what they now are. Unless something
  was lost, the table is exact or a current rebuild is under way; and one that is
  no longer current cannot commit once the newer one has, because it has not
  deleted the newer one's anchor.
- **`QuiescentDerivedExact`** (`IngestProofs`), for overlapping runs: a derived table
  is exact, or some run has still to rebuild it (`OverlapInv`). The flags are the
  exception the property names: an UPDATE under which no other run's rows came or
  went is going to make them exact (`UpdatesSound`), and one that was raced leaves
  `stale` set until another, not raced, commits.
- **`UsageCountsOnce`**, **`CleanRunHeals`**, **`CleanRunAccountsForAll`**
  (`IngestProofs`), under the assumption `OneAtATime` that the runs do not overlap:
  a table is exact from its pass on (`AlonePassed`), and every listed object is
  planned, in the batch, fetched, or needs nothing more (`AloneAccounts`).
- **`NeverOlder`** (`TranscriptCacheProofs`): from `SoundInv`. The etag a thread asks for
  is of a content some object was listed with, and what is fetched for it is that
  object's content then or later; a body then travels with its key, and no interference
  between threads can part them. Whose object it was nothing says.
- **`GoodUntilRevoked`** (`AccessProofs`): from `CookieInv`. Secrets are drawn once and
  have one owner (`OneOwner`), so that revoking one user's is not another's; what is
  in force was not revoked (`InForce`); a cookie without the secret in force has a
  revoked one (`Accounted`).
- **`AnsweredByRole`** (`AccessProofs`): the cache holds a whole payload or nothing
  (`Whole`), whoever asked first. It says which part of a body each role is answered, not
  that a guest's part is free of projects.
- **`SoundAlone`** (`TranscriptCacheProofs`): from `AloneInv`. The hazard is the `+=`
  between two threads, so the invariant follows one thread from step to step: until
  another joins, what it still owes `_size` is the difference between the books, which
  are lengths of bodies, and the sum of the lengths of the items (`Bytes`); the loop of
  `put` ends within the cap or with nothing left to evict.
- **`LimitPerWindow`** (`AccessProofs`): from `LimitInv`. Pruning forgets only what no
  window that ends now or later has in it, and an attempt is counted only after
  fewer than the limit were found, so that the last failure of any window closes a
  count that was still below it.
- **`PanelsAgree`, `ChurnOfWholeHours`** (`PanelsProofs`): from `ReadInv`, by which the
  statements of an undisturbed request have all seen what is committed now; both are
  about the rows whose time is known (`Stamped`), the second about the calls of every
  file. The rest
  is arithmetic on finite sets. A sum over a set is the sum, over the values of a key,
  of the sums over the groups, and a panel is such a grouping; a group of records of
  one session, hour, model and project is one row of the rollup (`SourceSum`), so
  that either source gives a filter, an hour or a model the same total. A filter
  drops whole groups, because it looks at nothing but the key. The costliest rows and
  what is folded into the tail make up all the bars.
- **`PickerAgrees`** (`PanelsProofs`): the same sums, with unresolved projects as one key.
- **`DecompositionReconciles`** (`PanelsProofs`): two instants of an epoch lie on the same
  side of every cut (`EpochHasSameCuts`), so that one rate holds throughout it
  (`EpochRates`), and multiplication distributes over its token sum.
- **`EverySessionListed`** (`PanelsProofs`): from `ListInv`. A session whose first event
  is known, stayed and is not tied with another session's event has been listed once if
  the cursor is past it and not at all before. A page cannot end between it and its equal,
  for it has none (`PageProgress`), and sessions without a time come after it
  (`MayPrecede`), so that the page they end is not short of it.
- **`LatencyFromOwnPrompt`, `TraceOnePerTurn`** (`ParserProofs`), in the three formats: both
  compare a finished parse with a reading of its log and say nothing of a parse under
  way. `Follows` relates the state after *n* lines to the log: the anchor is the prompt
  that is armed, the text what was said since the turn began, the records the lines
  that billed, and the turns, closed or open, stand for the lines that end a turn so
  far. `Moves` sums up what a line of each kind does, and `FollowsStep` shows that
  `Follows` survives it. A Kimi parse takes a line per step; the codex fold over a
  journal is unrolled line by line (`ScanByLine`). Which of codex's readings are
  requests takes an invariant of the journals: what codex counts never steps back, also
  where a fork replays its parent (`JournalOk`), so that a reading bills exactly if it
  differs from the one before it.
- **`BilledOnce`** (`ParserProofs`): two invariants meet. The parser's is `Booked`: after
  *n* lines of a journal that begins with its session, each record has the session and
  the reading of its line for its identity, the usage of that line for its bill and the
  model that was last declared before it. It needs of the journal that a reading repeats
  the one before it or adds its own usage to it (`HistoryOk`), which is what makes a
  difference of readings the usage of one request. Codex's is `BillInv`: its journals
  are such histories, each reading is of a request, the last one is where codex counts
  on, and the line of each request is the first with its reading, under its model
  (`AskedAt`). A fork keeps all of that, wherever it cuts its parent's history
  (`ReplayBills`), and so does a reading written again (`RepeatBills`).
- **`ChurnByTurn`** (`ParserProofs`): two invariants again. The parser's is `RowsOk`: after
  *n* lines each call, and each patch that no call applied, has a row of its own
  (`Churned`), the row of a call has what its patches added so far, and the target is
  the row of the last call that patches. Codex's is `ChurnInv`: ids are made once and
  settled once, one turn is at work, and no call of another turn comes between a call
  and a patch of its turn, in a fork's replay as in the parent (`WorkOk`). So the turn
  of the target is that of a patch exactly if a call of that turn patches, which is how
  the code decides, and then it is the last such call (`CallerIsLast`). The rows being
  one for each such line, their fold is what the property adds up (`AloneAddsUp`).

A fold of the community modules is a CHOOSE of a function that satisfies its recursion.
The proofs about folds (the sums of `PanelsProofs`, the scan, the trace, its deltas and
the rows' lines in `ParserProofs`) show that there is such a function and take its
equation, one element or line at a time, by an induction proved from the least
counterexample (`Induct`, `FiniteInduct`).

Only model-checked: all liveness (`Converges`, `Heals`, `RequestsAnswered`,
`EventuallyCurrent`, `ToldAfterwards`, `GoneUnsubscribed`, `ShutdownDrains`,
`Settles`), which is out of the prover's reach. Every other property of the passing
runs has a theorem.

## 6. Findings

Two runs show the code to differ from what the repository says of it:

1. **Announcing** (`ingest_announce`). A run persists files and dies. The next one
   finds them current, rebuilds the rollups, and tells nobody, because only its
   own counts decide.
2. **Live update** (`live_update`). The refetch that `ingest_done` triggers gets
   the stale entry, and nobody tells the browser when the refresh has landed.

Five more behaviours are at odds with a docstring or a comment. The models have them,
and the properties are stated so as to leave out exactly them:

- **Flags of overlapping runs** (`Ingest`, `stale`). The UPDATE of `recompute_canonical`
  writes what its snapshot showed. When another run deletes or replaces the canonical
  copy meanwhile and finds nothing to flag itself, the second copy is left
  unflagged: no run failed, and the request is counted by nobody until the next
  ingest. The docstring has exactly one row marked (`backend/ingest.py:695`). The tool
  and latency rollups are not affected, and `QuiescentDerivedExact` says so.
- **Projects without a dated cost** (`Panels`, `Stamped`). `usage_rollup` drops records
  without a time, so that a project that has no other is in no picker, although its
  records have a cost and `backend/api.py:690` has such a project returned. `PickerAgrees`
  speaks of costs whose time is known.
- **Transcripts that start alike** (`TranscriptCache`, `KeyOf`). The LRU is keyed by the
  etag of the row and filled from a later GET. Of two sessions whose files were listed
  with the same content, one that has been rewritten puts its new body under the etag of
  both, and the other is answered with it (`backend/api_sessions.py:128` has the session's
  own main file returned). `NeverOlder` does not say whose body it is.
- **File keys for guests** (`Access`, `About`). Rows of the cache and latency panels, and
  the growth of one session, have a file key, which has the project id in it; the
  comments at `backend/session.py:163-175` have a guest see project-mixed data only.
  `AnsweredByRole` makes no such claim.
- **Stopping** (`Events`, `SignalShutdown`). The streams are told to end at the end of the
  lifespan, which uvicorn reaches only after the streams have ended, so that the signal
  of `backend/app.py:53-55` does not let them drain. Only its timeout, which the systemd
  unit sets and the command in the README does not, ends the wait. `ShutdownDrains` is
  checked for a server that does not wait, as the comments have it, and for uvicorn
  with the timeout; with `drainsFirst` and no timeout it fails.

Behaviours the models have and no document denies, worth knowing all the same:

- A run deletes every row that was not in its own listing: an object uploaded after
  it and stored by an overlapping run is away until the next run (`Ingest`, two
  slots).
- The second of two overlapping rebuilds raises a unique violation after its run
  was booked as clean. Its records are missing from the rollups until the next
  run, and its announcement is skipped. Within `Ingest` this is `AbortPostPass`,
  which is why `QuiescentDerivedExact` speaks of runs that did not die.
- `put` tags a response with the generation of the put, not of the query: one
  computed before a commit can pass for fresh until it expires.
- A project whose marker upload fails in the run that retires its last rollout
  never gets its marker.
- The unlocked byte count of the transcript LRU can drift, and a request can fail
  with a `KeyError`. A transcript larger than the cap is kept, alone.
- Sessions that begin at one instant and tie across a page boundary are skipped, and so
  are, after the page on which the first of them comes, the sessions without a time.
- A fork's replayed tool calls are counted again: no tool statement dedups across files.
- The breakdown of costs leaves out cache writes and the long-context meter. The
  churn panel drops the partial hour that the hourly panel includes.
- The session count of the hourly panel rides on the first model of a bucket, so
  that a bucket's models do not each have their own.
- A subscription counts once a `token_count` that names a plan has advanced the
  counter, not on the first one that names it.
- A patch within a call that fails later loses its churn.
- A change that another program makes to a user's config under a login is undone.

## 7. What is not modelled

- Shell churn (`bash_churn.py`): a count read off command text with regular
  expressions and the Python `ast`. No state; a number in the models.
- Database pools, credentials, `.env`, `version.py`, the migrations of
  `schema.sql`: I/O and configuration.
- The percentile and tool-usage statements, session detail, the sidecar and
  context-growth statistics, display names: single reads whose substance is SQL.
- The in-browser parser (`src/parser.js`) for dropped files: `Turns` and `KimiWire`
  describe the Python parser only.
- The front end's change of range and its reconnect: `LiveUpdate` has one range and
  one connection. Two hazards there are listed in `PROJECT.json` without a property.
- Charts and rendering, developer scripts, CI.

Hazards without a property have a note in `PROJECT.json`: each is a behaviour the
code has nothing against, or lies in a part left out above.

What could follow: a second range and a reconnect in `LiveUpdate`; an abstract
specification of an ingest (the database jumps to a state the bucket was in) for
`Ingest` with one slot to implement.
