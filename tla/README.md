# TLA+ models of araru-server

Formal models of the Araru server (`server/`): TLA+ modules, TLC runs that check
them on small instances, and proofs that TLAPS checks for every instance.
Paths below are relative to the repository.

## 1. The system

araru-server is a Node.js server with a PostgreSQL database ("the source of
truth") and an optional Redis ("cache and ephemeral coordination"). It may run
as several processes: API servers (`server/server.js`) and workers
(`server/worker.js`). Within one process the code is an event loop: a stretch
without `await` is atomic, and every `await` lets the other callbacks of the
process, and the other processes, run. What goes wrong in such a program goes
wrong between two queries; that is what the models are about.

### Inventory

| component | state it keeps | operations | talks to | hard behaviour | correct when |
|---|---|---|---|---|---|
| job queue `jobQueueService.js` | table `background_jobs`; per process `pending`, `running`, `deduplicated` | enqueue, claim, heartbeat, execute, finish, retry, cancel, recover | every component that works in the background | leases, time-outs, crashes, two copies of one row, unique index | one active row per key, one execution at a time, no job lost, results final |
| scheduler `jobScheduler.js`, `jobCenterService.js`, `maintenanceJobs.js` | `job_schedules`; timers | tick, cron match | job queue | overlapping ticks, waits for the job it starts | every due schedule starts once per period |
| catalogue sync `driveService.js`, `drivePersistenceService.js`, `libraryIndexService.js` | `source_sync_state` (cursor), `library_files`, per-process cache and single flight | full and incremental discovery, index transaction, cache fill, expiry of missing rows | Google Drive, R2, disk, works | a remote side that changes meanwhile, cursor and index saved apart, two processes | the index converges to the sources; nothing is marked missing that was there |
| works `workService.js`, `productService.js` | `works`, `work_files`, `work_creators`, series, duplicate decisions | group a file, rebuild all, decide duplicates | index, metadata | concurrent transactions without locks | every active file in one work, one primary per work, no empty work |
| metadata `metadataService.js`, `metadataRepository.js`, `metadata/*` | `livros` | enrich, edit by hand, accept review, record cover | job queue, providers | read, long wait, write of a whole record | a manual field is never overwritten |
| settings `settingsService.js` | `app_settings`, Redis copy | read, set, reset, invalidate | security configuration | optimistic version, stale copy | no update lost, readers see a committed value |
| reading state `readingStateService.js` | `reading_state` | read, save with version | clients | several devices | no save lost unseen |
| circuit breaker, limiter `circuitBreaker.js`, `driveService.js` | failures, state, opening time; queue of requests | request, success, failure | providers, Drive | concurrent calls, half-open | an open breaker lets nothing through before its cool-down |
| access `authorizationService.js`, `roleService.js` | roles, grants, Redis copy | effective access, role changes | every route | stale copy | a revoked right ends |
| sessions and limits `middleware/security.js`, `userAuthService.js` | `user_sessions`, counters | login, session, rate limit | Redis | two-command counters | a limit bounds the window |
| setup `setupService.js` | `system_settings`, first user | complete setup | users | two first requests | one administrator is created |
| watcher `libraryWatcher.js`, `postgres.js` | timer, set of changes, advisory lock | debounce, own, release | job queue | ownership lost with its connection | a change is followed by a reconciliation; one owner |
| covers and caches `cacheService.js`, `readerService.js` | files, `cache_entries`, page cache | write, register, clean up | disk | limit checked before the write | size bounded; a row has its file |
| integrity, backup | reports | scan, apply | index, works | findings older than the repair | repair never removes what is healthy |
| HTTP layer, storage providers, logging, scripts | none of their own | routing, I/O | | | |

## 2. The plan

In the order of what the server cannot do without:

1. `JobQueue`, its abstract specification `JobLedger`, and their proofs (done)
2. `CatalogSync`: Drive cursor, discovery, index transaction, crashes, and the
   proof that the cursor is honest (done for one process); its abstract specification
   `Mirror` and the proof that it is implemented (done for any number)
3. The services around them, one small module each, composed by `Services` and
   checked together (done): `Settings`, `ReadingState`, `AccessCache` (who reads and
   writes the same row or copy), `Metadata`, `Lookup`, `Isbn` (enrichment),
   `Catalogue`, `Watcher`, `Schema` (a server that starts, answers and stops),
   `Covers`, `Reader`, `Ranges` (files that are served), `Renamer` (the script)
4. Their proofs (done but for liveness): `SettingsProofs`, `ReadingStateProofs`,
   `MetadataProofs`, `IsbnProofs`, and `ServicesProofs` for the composition
5. Left: `WorkGrouping`, works under concurrent jobs and the integrity repair; `Scheduler`, overlapping
   ticks over `JobLedger`; the two-command counters of the rate limits; the
   removal of what integrity scans report

## 3. Modules

### JobQueue

The class `JobQueue` in every process, over the one table.

| variable | code |
|---|---|
| `status`, `owner`, `leased`, `tries`, `keyOf` | columns `status`, `worker_id`, `lease_until > NOW()`, `attempts`, `dedupe_key` of a row; a row not inserted is `absent` |
| `phase[w][j]` | where process `w` has its object of job `j`: being inserted, in `pending`, in `running` and at which `await`, or nowhere |
| `att[w][j]` | `job.attempts`, the copy of the object |
| `dedup[w][k]` | `deduplicated` |
| `mode[w]`, `snap[w]` | how far `recover` has come, and the rows its SELECT returned |
| `orphans[w]` | handlers that still run after their timer has fired |
| `cancelling[w]`, `readding[w]` | `cancel` and `retry` between their two halves |
| `created`, `crashes` | bookkeeping of the bounds |

Each query is one atomic step. A continuation after an `await` is the next
action of the same job: `ClaimWon` is the UPDATE of `claim` with the
synchronous code up to the handler, `PersistRetry` the UPDATE of `persistRetry`,
`Requeue` its log INSERT with `pending.push` and `finally`. `Process` is the loop of
`process()`; since the code calls it in the same synchronous stretch as its
cause, it is part of those actions and not an action.

`Faults` switches the disturbances on: `"timeout"` (a handler outlives its
timer), `"stall"` (a live process misses its heartbeats for a whole lease),
`"dberror"` (a query fails for other reasons than a constraint), `"admin"`
(`cancel` and `retry`). Crashes are bounded by `MaxCrashes`.

Abstracted: payload, results, job type, error texts, logs, `started_at` and the
other time stamps, `cancel_requested` (written, never read), and the value of
time (a lease is either in the future or not). A handler that is not registered is left
out: the callers of `enqueue` check it or register at import. Outside: the HTTP
routes that call `enqueue`, `cancel` and `retry`.

### JobLedger

What the queue promises, in five actions: a job is submitted, taken by one
holder, settled by that holder, a holder is lost, and lost jobs are reclaimed.
`JobQueue` implements it (`Ledger` and `LedgerSpec` in `JobQueue`): a job's holder is
the process whose `running` it is in between the claim and the write of the
outcome, so the refinement fails as soon as anybody else's UPDATE hits the row.

### MCJobQueue

The instances for TLC: two model values for processes and two for keys, of
which a run uses what it needs. Processes are symmetric in the safety runs.

### CatalogSync

One reconciliation per process (`reconciliarCatalogo` is a single flight) over the
local directory, Google Drive and the index.

| variable | code |
|---|---|
| `live`, `touched`, `folderAt`, `clock` | the sources: which files there are, the last change of each and of the folder names, and the position of Drive's change log |
| `oauth` | `hasGoogleCredentials()`: with OAuth there is a change log, with an API key there is none |
| `cursor` | `source_sync_state.cursor` |
| `rowStatus`, `payload` | `library_files.status` (`absent` without a row) and `payload` |
| `pc[p]` | the `await` at which the reconciliation of `p` is |
| `tok`, `nextCursor` | `state.cursor` as read, and the cursor it will save |
| `path`, `todo`, `books`, `found` | folder names listed, files still to look at, `livrosBase`, and whether `reconciledSources` has `drive` |
| `seen`, `gone` | history: revisions that were there, files that were not, at some time of the reconciliation |
| `shown`, `hidden` | history: revisions the index showed, files it did not show, at some time of it |

`Act` is a step of the code or of its surroundings; `Remember`, the other half of
`Next`, only keeps the four histories, which no action reads.

A book is the pair of what can differ between two versions of it: its last change
and the folder names its category comes from. The calls of `listarLivrosLocais`
and of `percorrerPasta` are one step per file; `listChanges` is one step. The
index transaction is one step (`Commit`), for nothing of it is visible before it
commits.

`Faults`: `"apierror"` (a call of Drive, or a query on the way to its books, fails),
`"expired"` (410 for the cursor), `"race"` (a source changes while it is being listed),
`"abort"` (the process dies, or the transaction is rolled back). Without
`"race"` the sources may change at every other step.

Abstracted: formats, names, sizes and hashes; pages of a listing; files that
move between folders; the sources of a provider (`Whole` says for which
providers there is exactly one, the only case in which files are marked missing).
Left out: R2, a Drive without any credentials, `sincronizarObras`, the cache and
the search text. Outside the repository, and modelled by what the code asks of
them: the file system and Drive's change log.

### Mirror

What the catalogue promises however many reconciliations run at once: readers start, look
for a while at the sources and at the copy, and publish. A reader that publishes leaves a file as
it is in the copy, or shows a revision that was there or was shown since it started, or
hides the file if at some time since it was not there or not shown. The copy never holds
a revision that nobody saw, and nothing is hidden that was there and shown all along.
`CatalogSync` implements it (`TheMirror`, `MirrorSpec`): `status` and `copy` are `rowStatus`
and the revision in `payload`, a reader is busy while `pc` is not `idle`, and what it saw are
the histories, `seen` with `shown` and `gone` with `hidden`. The latter halves are what
other processes add: a merge of Drive's changes with the index takes the books another
process has written, and they may be older than the reconciliation that shows them again.

### MCCatalogSync

The instances for TLC: one process, or two in `sync_safe`, up to two files on either side. The
files of a source, and the processes, are symmetric where no liveness is checked.

### The services

Thirteen modules of one component each. They share no state that their models
keep, so they are separate specifications.

**Settings** (`settingsService.js`, `securityConfigService.js`). `rows` is
`app_settings` (a key without a row has version 0), `copy` the rows in Redis, `admin[a]` what
a page of an administrator holds between its requests, `resets` history. A save
is one step, for its transaction holds an advisory lock and locks the rows; reading,
filling the copy, saving and invalidating are four. Two settings stand for all: the version
of a page is a maximum over rows, so what matters is a setting beside the newest. `saveSecurityConfig`
reads the settings once more for a test of the cookies and then calls `setSettings`
with the version of the page: here a page that is read and left, and a save.

**ReadingState** (`readingStateService.js`, its controller and `v1Routes.js`). `state` is the
row, `seen[d]` what a device has read, `backup` the last backup. A content is
the number of its save. A save without a version replaces whatever is there, and
so does one with the version of the empty state; restores, the repair of
progress and a removed profile give an old version another content
(`rewritten`). The property leaves out exactly these.

**AccessCache** (`authorizationService.js`, `roleService.js`). `grants` and `roleOf` are the
rows, `cached[u]` the copy in Redis, `asking[u]` what a request has read and
not stored, `held` history. "No restriction" is the set of all libraries.
`saveRole` calls `invalidateAuthorization()` without a user, which does nothing: only
the 300 seconds of the copy end a revoked right.

**Metadata** (`metadataService.js`, `metadataRepository.js`, `metadata/scorer.js`). `row`
is the row of `livros`; `job[j]` and `editor[e]` are what enrichments, records of a new cover
(`atualizarCapaCache`) and requests of administrators have read and will write back whole. A
request reads the row itself (`Find`): what its page showed is not sent along, so a match that came after
the page was shown is accepted by one who never saw it, and no property claims otherwise. A title is what
it came from: the file, an edit, or a match and how that compared. Scores are computed as in the code,
in thousandths, from similarities that are data. A manual edit that falls between the read
and the write of an enrichment or a cover is lost in the model as in the code, and `manual_fields` of an
existing row are not updated by the upsert; no property claims otherwise. `accepted` is history.

**Lookup** (`metadata/providers.js`, `apiCache.js`, `circuitBreaker.js`). One key and one
provider: `answers` in Redis, the `breaker` with its count and cool-down, `call[c]` the attempt
of each asker and the answer in its hand. An open breaker whose cool-down is over lets every
waiting call through, as the code does.

**Isbn** (`metadata/isbn.js`, `workService.js`, `renomear-pdfs.js`). The arithmetic of
both forms, the server's routines beside the script's own.

**Catalogue** (`driveService.js` 544-635). The list one process answers with: `memory`, the
shared reconciliation (`current`) and those that run (`flight`), `request`s that read
the index and fill the memory. A listing is the version of the sources it saw.

**Watcher** (`libraryWatcher.js`, `server.js`, `maintenanceJobs.js`, `postgres.js`). `place`
is how far a server has started or stopped, `owner` the session with the advisory
lock, `lost` the watchers whose session the database has ended, `noticed` the changes that wait for the
debounce, `behind` that the catalogue has not listed the files as they are. A server
that found the lock taken never asks again, and changes during the first scan
or a shutdown are forgotten: the periodic reconciliation is what lists them. All reconciliations
of files go through one row of the queue (`job`, and the servers that `holders` it in memory). When its server dies
the row stays `running`: until its lease has ended and another server starts, whoever
asks for a reconciliation finds the row in the way.

**Schema** (`postgresMigrations.js`, `libraryAdminService.js`, `connectionService.js`,
`libraryIndexService.js`). The blocks of migrations every process runs at every start, with
the tables they create and need; version 8 is looked up before its transaction
and inserted without ON CONFLICT, so processes that start together can make
each other fail. Then the libraries: default ones that each start creates again,
books bound to them by the migrations, the reconciliations and deletions.

**Covers** (`driveService.js` 926-1040, `cacheService.js`). A cover is the version of the file
it was taken from. Any number of jobs may work for one book: the dedupe key is the id as it was asked for, or that of the
file, a handler that has timed out runs on beside its retry, and there may be two processes. Jobs make room, write the file and register the row, in the
steps between their awaits: the capacity is tested, the rows are read, each is examined
by one access to the disk, and only then the victims go, a file first and then its row;
meanwhile other jobs write and evict. A job from an older file that ends after one from the newer
leaves its picture recorded as the newer: `overtaken` notes the books where this may have happened. The capacity is tested before a cover is written, so covers written together exceed it; no property claims otherwise.

**Reader** (`readerService.js`). The list of entries by fingerprint and the last pages kept,
while the archive is replaced; 7z reads the file as it is at that moment.

**Ranges** (`livrosController.js`, `storage/storageProvider.js`). The two routines for
`bytes=first-last`, with numbers beyond the safe integers, for which one number stands. They differ
for `bytes=-n`, where local files serve the first n + 1 bytes, and for a last byte that is not safe, which the
local routine cuts and the other refuses; `RangesAgree` leaves these headers out and says so.

**Renamer** (`renomear-pdfs.js`). Runs of the script over a directory: what it reads from
a name, from the PDF and from the network, the name it composes, and the names
it finds taken. What a search returns is any record. Two instances may run over one directory: the
test of a name (`Test`) and the renaming (`Rename`) are two steps, and the second replaces a file that has got
the name in between. A name with a placeholder for the title and an ISBN counts as complete, though the comment at
`scripts/renomear-pdfs.js:257` says that names with placeholders do not: only the author is tested for one.

**Services** composes them: the first state picks a service (`active`), whose actions,
bounds and fairness are those of its module (it states their properties under their
names), while the variables of the others stay as they begin. Its constants are
the clients, books, providers and bounds of all, with `ServicesAssumption`: bounds are numbers, a
provider "local" exists, and the data the modules take as given have the form they
expect (digits, similarities in thousandths, different names in the directory of
the script). **MCServices** gives TLC the archives, names, records and numbers.

## 4. Runs

| run | instance | shows |
|---|---|---|
| `jobs_crash` | 2 processes, 1 key, 2 jobs, 2 attempts, 1 crash, time-outs | `TypeOK`, `DedupMatchesJobs` through adoption and lost claims, `HolderOwnsRow`, `FailedIsExhausted`, `CompletedIsFinal` and the refinement `LedgerSpec` |
| `jobs_live` | 2 processes, 1 key, 2 jobs, 2 attempts, no fault | `ExclusiveExecution`, `QueuedIsHeld`, and under fairness `JobsSettle` and `KeysAreFreed` |
| `jobs_pool` | 1 process with 1 slot, 2 keys of different priority, 3 jobs, failing queries, cancel and retry | `DedupMatchesJobs`, `SlotsUsedUp`, `PriorityRespected` |
| `jobs_double` | 2 processes, 1 job, time-outs | violates `ExclusiveExecution` |
| `jobs_recovery` | 2 processes, 1 job, 1 crash, fairness | violates `InterruptedIsRecovered` |
| `sync_safe` | 2 processes, 2 Drive files, 1 local file, 1 change, 1 failure of every kind, races | `TypeOK` and the refinement `MirrorSpec` while only Drive marks missing files |
| `sync_live` | 1 process, 2 Drive files, 1 local file, 3 changes, 1 failing call or expired cursor | `CursorIsHonest`, `ActiveWasThere`, `MissingWasAbsent` for both providers, and under fairness `IndexConverges` |
| `sync_lost` | 1 change, 1 abort, fairness | violates `IndexConverges` |
| `sync_race` | 1 change during a listing | violates `CursorIsHonest` |
| `services` | each of the thirteen services, 2 clients and 2 books | ten invariants and ten temporal properties, below |
| `settings_conflict` | `Settings` alone, 2 administrators, 3 writes | violates `ConflictsAreRefused` |
| `sync_walk` | 1 Drive file, 2 local files, 1 change during the walk | violates `MissingWasAbsent` |

Bounds. The queue: the protocol runs between two copies of a row, or between two rows of a
key; two processes and two jobs give all pairs, including a job inserted while
the other is running, retried or recovered. A third job is needed only where
jobs wait for a slot (`jobs_pool`). Two attempts give a retry and an exhausted
retry; one crash gives a recovery against a process that lives. `MaxJobs` and
`MaxCrashes` bound the runs, not the proofs. Deadlock is not checked: once
`MaxJobs` jobs have ended and no restart is due, the system rests.

The synchronisation: two files of Drive tell the changed file from the one that the
merge must keep; three changes give a file that comes, changes and goes, or a
folder between two files. The cursor, and what comes and goes with its file, are properties
of a reconciliation that is alone: with two, the cursor of one may be saved before the index of
the other. What is left with two is `MirrorSpec`; there one change and one failure suffice
for a process to publish what it read before the other did, and before the file
went. The sources never block, so deadlock is checked.

The services. Two clients (administrators, users, devices, servers) give every pair of steps
that can fall between the steps of the other. `Settings`: versions up to 2 and
one reset, enough for a version that is met again with another content. `AccessCache`:
two changes, two libraries. `Metadata`: one record with the ISBN and another title,
one with another ISBN and the same title; one enrichment, one record of a cover and one
request of an administrator, each with a read that may be older than what another has written.  `Lookup`: two attempts, two failures open the
breaker. `Isbn`: 41 times nine digits with all prefixes and check digits. `Catalogue`: three versions
of the sources and two reconciliations at once. `Watcher`: two servers and one change
of the files, beside the start with a catalogue that is behind: the change may fall before, during or after any reconciliation.
`Schema`: two processes that start at once, one failure or death, two providers and one
library of an administrator. `Covers`: two books, room for one cover, two jobs, for one book or two, one file that
changes. `Reader`: two versions of the archive, two pages, two kept. `Ranges`: files of up
to three bytes, four as the largest safe integer and every header up to one more. `ReadingState`: three saves. `Renamer`: two files,
two runs, one after the other or at once, every mixture of complete and incomplete names. Deadlock is not checked: several
services stop for good at these bounds.

| property | of | what it excludes |
|---|---|---|
| `ServicesTyped` | all | a value outside the types of a module |
| `VersionGuardsNewest` | `Settings` | a conditional save over the newest settings, when its page shows others |
| `CopyConverges` | `Settings` | a stale copy in Redis that stays |
| `NothingLost` | `ReadingState` | a save that names a version and replaces another one |
| `AnswerWasGranted` | `AccessCache` | an answer mixed from two versions of a role |
| `RevocationArrives` | `AccessCache` | a revoked library that stays visible |
| `ForeignTitleMatches` | `Metadata` | the title of another book in a row |
| `UncertainIsReviewed` | `Metadata` | a late writer that brings an uncertain match back, unlisted, that no request accepted |
| `LookupsSucceed` | `Lookup` | a provider that is back and never asked again |
| `IsbnsAgree` | `Isbn` | a book that is two works by its two numbers |
| `IndexNeverGoesBack` | `Catalogue` | a slow listing written over a later one |
| `ListConverges` | `Catalogue` | an old list that stays in memory |
| `OneWatcher` | `Watcher` | two servers that watch one library |
| `ChangesAreListed` | `Watcher` | a change of the files that is forgotten, unless the row of a dead server blocks all |
| `StartsSucceed` | `Schema` | processes that keep each other from starting |
| `BookShowsItsLibrary` | `Schema` | a book shown under a library its row does not name |
| `CoverIsCurrent` | `Covers` | half a cover, or that of an older file while no two jobs overlap |
| `PageIsOfTheFile` | `Reader` | a page of an older archive shown for the new one |
| `RangesAgree` | `Ranges` | different bytes for one header, or bytes outside the file |
| `NamedOnce` | `Renamer` | a file the script renames again and again |

Fairness (`Fairness` in `JobQueue`) is weak and only on what the code or its
platform does by itself: a query or handler that was started comes back (the
timer of `execute` sees to the latter), the continuation runs, time passes, and a
supervisor restarts a dead process. Enqueueing, cancelling, repeating and
crashing have none.

In `CatalogSync` it is weak fairness of each reconciliation: its calls return or fail,
and `maintenanceJobs.js:28` starts one again and again. Changes and failures
have none; `MaxChanges` and `MaxErrors` make them cease, as convergence supposes.

Each of the services states its own `Fairness`: what has begun goes on (`Settings`,
`AccessCache`, `Lookup`, `Schema`), what is cached expires after its seconds, a cool-down
ends, and timers that fire again and again succeed in the end (strong fairness of
the reconciliation in `Catalogue`, and in `Watcher` of asking for it, of its claim and of its end: each may fail, or be
cut short by a death, any number of times, not for ever; who cannot claim the row
is owed nothing). A server that stops is started again. Nobody is obliged to save, edit, ask,
stop or fail. In `Services` one service is active for ever, so the conditions of all are
stated as one condition for each client and a few common ones (`Turn`, `own`).

What the violations show. `jobs_double`: the timer of `execute` rejects the
promise of the job but does not stop its handler, the row is queued again, and
the handler runs twice at once; `test/job-queue.test.js:63` says that does not
happen. `jobs_recovery`: `recover` runs once, at registration, and skips rows whose
lease has not lapsed, so a job interrupted by a quick restart stays `running`;
`test/job-queue.test.js:38` tests recovery with a row that has no lease.
`sync_lost`: the cursor is saved before the index transaction; when that fails once,
or the process dies in between, every later run starts behind the changes and
the books never appear (of a first run: none of Drive's). `sync_race`: a full
listing asks for its start token at the end, so a change during the listing is
in neither. `sync_walk`: `listarLivrosLocais` takes the ENOENT of one vanished file
for that of its directory and returns no book of it; the index marks them all missing.
`settings_conflict`: `expectedVersion` is compared with the maximum over all rows, so a save of a setting that is not the newest
goes unnoticed, and the next conditional save overwrites it; `docs/administration-security-settings.md:18`
says that concurrent changes are not overwritten. Resets take the maximum back, with the same effect.

Each property of a passing run has a mutant: a definition of the model with a plausible
bug, under which the run must fail. They stand before the definition they
replace and are named in PROJECT.json.

## 5. Proofs

`JobQueueProofs` and `JobLeaseProofs` extend `JobQueue`; TLAPS checks every step.
They hold for any finite set of processes, any keys, priorities, concurrency,
attempts, jobs and crashes (`QueueAssumption`).

- `TypeCorrect`, `DedupCorrect`: `Spec => []TypeOK` and
  `[]DedupMatchesJobs`, with any set of faults. The inductive
  invariant is `KeyInv`. To the two it adds the unique index (`OneActiveRowPerKey`), `IdsInOrder` (of an id not drawn there
  is no row and no one has heard: a fresh job cannot collide with
  anything) and `SnapKeysDiffer` (the rows `recover` has read have different keys:
  otherwise adopting them would put two jobs of one key in memory).
- `OwnersWrite`, `LedgerImplemented`, `ResultsAreFinal`: `[]HolderOwnsRow`,
  `LedgerSpec` and `CompletedIsFinal`, assuming `Undisturbed` (time-outs and any
  number of crashes, no stall, no failing query, no cancel or retry by hand). The
  inductive invariant is `OwnInv`: `KeyInv`, `InsertIsFresh` (a job being inserted
  has no row and one inserter), `HolderHasLease` (who works on a row has a lease,
  so `recover` leaves it alone), `RunningIsOwned` and `NobodyIntervenes`. The
  assumption is needed: with a stall, a second process may claim the row, and
  the late UPDATE of the first, which names the row by id alone, hits it.
- `SlotsAreUsed`, `PriorityIsRespected`: `[]SlotsUsedUp` and `PriorityRespected`, with any set of
  faults. `SlotsUsedUp` is inductive beside `KeyInv` only because every handler that
  adds a job or frees a slot ends in `Process`. The proof sorts the steps by what they do to
  one process: they rearrange what is neither waiting nor running (`Rearranges`), they
  dispatch (`Dispatches`) or they empty the memory of the process (`Empties`). The loop of `process()`
  takes a set of jobs that is closed under `Before`; that there is one for every number of
  slots is the well-foundedness of `Before` on a finite set.
- `GivenUpIsExhausted`: `[]FailedIsExhausted`, assuming `"admin" \notin Faults` (the manual
  `retry` of an exhausted job sets its attempts to zero). The invariant `AttemptInv` says that
  the `attempts` of the row never lag behind those of any object that may write
  `failed`, also when two processes hold the job at once.
- `ExecutionIsExclusive`: `[]ExclusiveExecution`, assuming `Faults = {}`, with any number of crashes: an
  executing process owns the row (`OwnInv`), and rows have one owner. `jobs_double` shows
  that with time-outs it is false.
- `NoRowForgotten`: `[]QueuedIsHeld`, assuming `Undisturbed` and `MaxCrashes = 0`. The invariant `HandInv`
  says of every queued row in whose hands it is (`QueuedInHand`) and of every running one that its owner works
  on it (`RunningInHand`), which is what a row put back by a time-out rests on. With crashes the
  property fails: a process that recovers late, while it still closes an older job of the
  same key, finds the key in `deduplicated` and skips the row.

`CatalogSyncProofs` extends `CatalogSync` (`SyncAssumption`: any files, changes and
failures).

- `SyncTypeCorrect`: `Spec => []TypeOK` for any number of processes and all faults.
- `CursorHonest`: `Spec => []CursorIsHonest`, assuming `Calm` (at most one process, no race
  and no abort; `sync_race` and `sync_lost` show that both are needed). The
  property speaks of the time between two reconciliations and says nothing of the
  steps in between, so the invariant `SyncInv` says what a reconciliation knows at each
  of them: `AtList` (what is listed so far is Drive as it is), `AtKeep` and `AtMerge`
  (nothing lies between the cursor read and the next one but the files to do),
  `AtResolve`, `AtSave` and `AtCommit` (the books hold all that the next cursor promises),
  and `IndexKept`, that the index holds it whenever the cursor is not ahead.
- `MirrorImplemented`: `Spec => MirrorSpec` for any number of processes and all faults, assuming
  `LocalAtRest` (no local file vanishes during a walk, or one provider marks nothing missing: `sync_walk`
  shows what happens otherwise). The invariant `MirrorInv` follows what a reconciliation has, and
  has not, from where it was read to the commit: a book comes from the sources or the
  index as they were since it began (`BookIsKnown`, in `ShownInv`), and a file without a book was away
  or not shown at some time since (`AbsenceIsKnown`), for the local files once they are looked
  at (`LocalWasAway`) and for those of Drive once the listing or the merge has settled them (`DriveWasAway`,
  `Settled`). `StepOfOne` sorts the steps of a process: it starts, works, ends without a result or
  commits; only the last is `Publish`, the others start a reader, stutter but for the histories,
  or publish what changes nothing.
- `ShownWasThere`, `HiddenWasAway`: `Spec => ActiveWasThere` and, assuming `LocalAtRest`, `Spec => MissingWasAbsent`,
  both assuming `OneProcess`, with all faults. The two invariants above leave open that another process showed
  or hid the file; with one, the index stays as it was when the reconciliation began
  (`IndexIsMine`, but for expired rows, which it shows before and after as little), so the file itself came or went.

`ServicesProofs` extends `Services` (`ServicesAssumption`: any clients, books, libraries, providers,
records, digits and bounds). As a behaviour is one service, each theorem has its invariant
under the condition that its service is active; `StepOfOne` and a lemma for each service
say that a step is then one of its module, or leaves its variables alone. Of the service:

- `SettingsAreGuarded`: `Spec => VersionGuardsNewest`. The version that is compared is a maximum over
  the rows, so alone it says little of one row; the invariant (in `SettingsProofs`) adds that
  each setting of what anybody holds was reset since it was read, or its row is
  older than the present one or the same (`IsPast`).
- `NoReadingIsLost`: `Spec => NothingLost`, with the same idea (in `ReadingStateProofs`): while only
  saves write the row, what a device has read is older than the row or the row itself.
- `ForeignTitlesMatch`, `UncertainMatchesAreReviewed`: `[]ForeignTitleMatches` and `[]UncertainIsReviewed`. The
  lemma `ScoreNeedsAgreement` of `MetadataProofs` is the arithmetic of the weights; the
  invariant extends what holds of the row to everything that was read from it and
  will be written back, by whichever job or request (`Sound`).
- `IsbnsAreOne`: `[]IsbnsAgree` for all digits (TLC tries 41 of the thousand million), from the facts
  that a check digit exists and is unique modulo 11 and 10 (`IsbnProofs`).
- `AccessWasGranted`: `[]AnswerWasGranted`. `AccessInv` follows an access from the rows through a
  request in flight into the copy; `ChangeIsHeld` is the step of every administrator.
- `NamesStay`: `NamedOnce`. `RenamerInv` says that a file that was renamed is gone or has a composed name, and
  `Searched` that no instance is about to rename a file whose name is complete, so that such a name is passed over.
- `CoversAreCurrent`: `[]CoverIsCurrent`. `CoversInv` compares the versions that jobs, requests and
  evictions move apart. While no job of a book has overtaken another, those at work for it carry the same
  picture (`Together`), and what is recorded for it is no newer than the file on disk, if there is
  one, nor than what a job carries (`Carries`); nobody is ahead of the book, and nobody has half a picture. It holds whichever
  rows a job evicts (`Evicts`).
- `ServicesStayTyped`: `[]ServicesTyped`. `ServicesInv` is the conjunction, over the services, of the
  invariants above, which contain the types, and of three that stand for themselves: the versions
  anybody has read in `Settings` and `ReadingState` do not exceed the saves (`SettingsTyping`,
  `ReadingTyping`), and the failures and attempts of `Lookup` end where the code stops them. In `Covers` the type is more than a type: a book has one row in the queue of rows
  at most, a job that evicts counts every row it has not examined (so `total` never falls
  below zero), and dropping the first row of a book leaves the order of the others (`FirstRemoved`).
- `IndexOnlyAdvances`: `IndexNeverGoesBack`. `CatalogueInv` says that who has begun a reconciliation is the
  one to share, so there is one, and that its listing is no older than the index (`Ahead`).
- `OneWatches`: `[]OneWatcher`. `WatcherInv`: the lock has one owner, who watches owns it or has lost it
  unawares, and between closing the watcher and starting again nobody watches.
- `PagesAreOfTheirFiles`: `[]PageIsOfTheFile`. `ReaderInv`: what is listed (`Listed`) or kept (`Fresh`) under a
  fingerprint was read from that version of the file or a later one.
- `RangesAreAlike`: `[]RangesAgree` for every size and largest safe integer, by cases over the header (`AnswersAreParts`).
- `BooksShowTheirLibraries`: `[]BookShowsItsLibrary`. `SchemaInv` needs the types: a library that is bound
  exists in the list the migrations and the administrators change.

Every invariant and every action property of the passing runs is stated by one of these
theorems. Only model-checked, because fairness is stated with ENABLED, which is out of the
provers' reach, are the liveness properties: `JobsSettle`, `KeysAreFreed`, `IndexConverges`, `CopyConverges`,
`RevocationArrives`, `LookupsSucceed`, `ListConverges`, `ChangesAreListed` and `StartsSucceed`. Nothing here
is recursive.

## 6. Not modelled

PROJECT.json gives the status of each component and the reason. In short:

- Works and editions but for the identity of a work: two transactions that group files
  at once can both choose a primary file, and a work can be deleted while
  a file joins it (hazards at `workService.js:16`); the code has no lock there, so a
  model would show the two steps and nothing else. Planned with the integrity repair.
- The ticks of `jobScheduler.js`: they start jobs, whose overlap `JobQueue` covers.
- Processes that enqueue without working (`ARARU_PROCESS_JOBS=false`), a hazard without a property.
  Of two processes that reconcile at once (`driveService.js:594` is a single flight of one
  process) `MirrorSpec` says what holds; it does not exclude that one shows again for a while a
  book that is gone, or hides one that has come, since it read before the other wrote.
- First-run setup, products, series and duplicates, connections and secrets:
  single transactions over single rows.
- Sessions, login and rate limits: single rows and counters. The limiter of `security.js:13` counts
  and sets the expiry in two commands; a process that dies between them leaves a counter that
  never ends, which no property covers.
- The R2 listing, the search text, the parsing of file names and PDF contents, the similarity of
  texts: data the models take as given.
- Left out for good: routing and serialisation, file formats and rendering, HTTP to
  metadata providers, logging, metrics, the remaining scripts.
