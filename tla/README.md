# HealthArchive backend: verification project

TLA+ models of the HealthArchive backend (`src/src/ha_backend`, `src/src/archive_tool`,
`src/scripts`), the TLC runs that check them on small instances, and TLAPS proofs of
what matters most for every instance. Paths of the form `cli.py:2377` are relative to
`src/src/ha_backend/`, those of `archive_tool` to `src/src/`, scripts to `src/scripts/`.

Contents: 1 the system; 2 the modules; 3 the runs; 4 fairness; 5 disagreements
between the code and its texts; 6 the proofs; 7 what is not modelled; 8 what is left.

## 1. The system

A worker process polls a table of archive jobs, crawls the first selectable one by
running `archive_tool` as a child process, and indexes the WARCs it leaves into the
table `snapshots`, which the API and the replay service read. Operators, timers and
watchdogs run commands of `cli.py` against the same rows and the same output
directories at the same time.

| Component | State it keeps | Operations | Interacts with |
|---|---|---|---|
| Job lifecycle: `worker/main.py`, `jobs.py`, `models.py`, `db.py`, job commands of `cli.py` | rows of `archive_jobs` (status, crawler_status, retry_count, started_at, updated_at); one `flock` file per job | poll, `run_persistent_job`, post-crawl handling, `index_job`, `run-db-job`, `retry-job`, `reset-retry-count`, `recover-stale-jobs`, quarantine | starts the crawl orchestrator; reads and writes through short sessions that lock no row |
| Crawl orchestrator: `archive_tool/` | `.archive_state.json`, `.tmp*` dirs, `.zimit_resume.yaml`; in memory the stage, one stop event, the monitor's queue, the current container | start and resume, stages, monitor interventions (fewer workers, new VPN exit, restart), final build, signals | Docker daemon and client, the monitor thread; exit code and status to the job lifecycle |
| WARC storage and indexing: `archive_storage.py`, `indexing/`, commands of `cli.py` | WARCs under `.tmp*`, hard links in `warcs/`, `warcs/manifest.json`, quarantine, rows of `snapshots` | consolidate, index, verify and quarantine, rewrite paths, clean up | the output of the crawl orchestrator; the job's status |
| Replay: `replay-index-job`, `replay-reconcile` | pywb collections of links and an index, marker files, a lock file | link WARCs into a collection, index it, rebuild when stale | WARC storage |
| Watchdogs: `vps-crawl-auto-recover.py`, `vps-worker-auto-start.py` | JSON files of what was done when; transient systemd units | sync drifted rows, recover a stalled job, keep a minimum of jobs running, start the worker | job lifecycle, systemd |
| Mounts: `vps-storage-hotpath-auto-recover.py`, `vps-annual-output-tiering.py`, auto-tiering of the worker | the sshfs mount of the Storage Box, bind mounts of output directories; observations and recoveries in a JSON file | confirm and repair stale mounts, tier a job's directory, recover its row | worker, watchdogs, crawls |
| Annual campaign: `schedule-annual`, `annual-status`, `reconcile-annual-tool-options`, `patch-job-config`, `job_registry.py` | rows of `archive_jobs` and their JSON column `config` | plan and create one job per source and year, rewrite configs | job lifecycle, watchdogs |
| Catalog: `indexing/pipeline.py`, `indexing/deduplication.py`, `pages.py`, `authority.py`, `changes.py` | `snapshots` and out-links, `pages`, `page_signals`, `snapshot_changes`, audit rows of deduplication | index a job, mark and restore same-day duplicates, rebuild each derived table per group or in full | WARC storage, public API |
| Public API: `api/routes_public.py`, search debugger of `api/routes_admin.py` | none (reads) | search, browse, sources and editions, resolution, change feed and comparison, export | all tables of the catalog |
| Usage counters, configuration, deployment and metrics scripts, clean-up automation | counters, text files | | not modelled (section 7) |

What makes it hard:

* *Sessions.* A session loads a row, and commits later only the columns it changed;
  between the two anybody else may commit. Long work (a crawl, a verification of
  hours) lies between the session that decided and the one that writes. The JSON column
  `config` is one column: of two rewrites that overlap, the later wins as a whole.
* *One lock for two purposes.* The `flock` protects a crawl and is also taken for a
  moment as a probe for liveness by two commands.
* *Two programs in one loop.* The stage loop of `archive_tool`, its monitor thread, a
  signal handler, the `docker run` client and the container advance independently and
  share one event and one queue.
* *Four supervisors of one crawl.* The worker, two watchdogs and the operator each stop
  and start the others' processes and rewrite the row they all read.
* *Crashes.* State files are written next to what they describe, before or after;
  containers and `archive_tool` outlive the process that started them; files change
  before the database transaction that refers to them commits.
* *Names and ids that outlive what they named.* Paths in snapshots, links of replay
  collections, change events and page pointers survive re-indexing and clean-up.
* *Time.* Cooldowns, staleness by the age of `started_at`, caps per day.

What makes the components correct: at most one crawl writes an output directory;
only what was crawled is indexed; retries and recoveries are bounded and jobs end; no temp
dir and no container is forgotten over crashes; a run tells the truth about its crawl;
crawls write to the mounted storage; what a snapshot, a link or a pointer refers to
stays what it was; derived tables are what a rebuild would give; nothing that was
captured disappears from search. `hazards` in `PROJECT.json` names the lines at which each
may go wrong and the property that covers it.

## 2. The modules

| Module | Models | Extends |
|---|---|---|
| `JobLifecycle` | the row, the flock, worker, `run_persistent_job`, status protocol of `index_job`, operator commands | standard modules |
| `JobContract` | the abstract queue that `JobLifecycle` implements | `Naturals` |
| `CrawlOrchestrator` | `main()` of `archive_tool`, the monitor, Docker, the state file | community `FiniteSetsExt` |
| `WarcStorage` | WARC files, manifest, snapshots and the commands on them | community `FiniteSetsExt` |
| `ReplayCollections` | one job's replay collection, composed with its files and rows | `WarcStorage` |
| `CrawlWatchdogs` | crawl-auto-recover and worker-auto-start over rows, flocks, crawls, worker | standard modules |
| `StorageMounts` | hotpath-auto-recover, tiering, and the worker on top of the mounts | standard modules |
| `AnnualCampaign` | the rows and configs of a campaign and everything that writes them | community `SequencesExt` |
| `Catalog` | snapshots and the tables derived from them | community `FiniteSetsExt` |
| `PublicApi` | the queries over them | `Catalog` |
| `MC*` | instances for TLC, of the module each is named for (`MCCatalog` of `PublicApi`) | |
| `*_proofs` | theorems about the module each is named for; `JobLifecycle_proofs` has those about `JobContract` too, `ReplayCollections_proofs` those about `WarcStorage` | the module, `TLAPS` (`PublicApi_proofs`: `Catalog_proofs` too) |

### JobLifecycle and JobContract

`row[j]` is the committed row, `lock[j]` the holder of the flock, and `pc`, `tgt`,
`seen`, `out` are where each process stands, its job, the row its open session loaded,
and how its crawl ended. Each session of the code is two steps, a load and a commit;
`Flush` is the unit of work of the ORM, which writes the changed columns only. A
process between sessions holds nothing but the flock, so every interleaving of
sessions of the worker and of the commands is a behaviour. Workers and operators run
the same steps of `run_persistent_job` (`TakeLock` to the release), with its early
returns: lock held, row not runnable, exceptions. Post-crawl handling (`HandleStep`)
runs after the lock was released, as in `worker/main.py:303`. `Dies` kills a process at
any step: the kernel frees its flock, its open transaction is lost, and `archive_tool`
may live on (`orphan`) and end later. Durations are abstract: `age` compares
`started_at` with the cutoff of `recover-stale-jobs`, `cooling` says whether
`updated_at` lies within the cooldown for infra errors. `crawled` and `failures` are
history variables. A job may have no seeds (`seedless`), and the tiering of an annual job may
raise for as long as its mount is down (`untiered`, which turns at any time): either way the
iteration ends with the row as it was, runnable, without a cooldown and at the head of the
queue (`TierFails`, `NotRunnable`), so that younger jobs wait.

`JobContract` says what the worker promises of the queue without processes, sessions,
locks or cooldowns: one job is crawled at a time; a failed crawl is repeated while
retries are left and then given up; one that lost its storage is repeated for nothing;
what was crawled is indexed, maybe again, and never crawled any more. The refinement
mapping (`InHand`, `StageOf`, `Contract` in `JobLifecycle`) keeps a job "crawling" until
the worker has handled a crawl that did not succeed, whatever the row says meanwhile:
that the code writes the outcome in one session and its consequence in another is what
the abstraction hides.

### CrawlOrchestrator

`pc` follows the loop of `main()`: the head of a stage, launch, watching, handling a
message, the adaptations, the drain after the client's exit, recording temp dirs,
deciding, the final build. `mem` and `file` are `CrawlState` in memory and on disk,
`disk` and `yamls` what the output directory holds, `mon`, `queue` and `event` the
monitor thread and what it has reported, `up`, `known`, `client` and `rc` the
containers that run, whether the program knows its own, and the `docker run` process.
A temp dir stands for the number of its container. `Faults` names what may go wrong in
a run: a signal, a crash of the process, a client that detaches from its container, a
`docker stop` that fails, a mount that goes stale. Ghosts (`lost`, `leaks`,
`discarded`) record what a fault did, so that the properties can say what is promised
besides.

### WarcStorage and ReplayCollections

A WARC is a value of `Warcs`; `tmp`, `stable` and `quarantine` say where it is,
`manifest` is `manifest.json`, `snapshots` the committed rows with the WARC they were
made from. Index, consolidation and cleanup are sequences of steps (`step`) around one
transaction: `Link` is one turn of the loop of `consolidate_warcs`, `WriteManifest` the
rename, `RewriteForCleanup` the update and the refusal, `DeleteTmp` the `rmtree` and
`CommitCleanup` the end of the session. `Crash` stops a command between any two of
them; `LinkFails`, `IndexFails` and `QuarantineFails` are the partial failures. One
command runs at a time, every `.tmp*` dir is tracked by the crawl's state file, replay
is enabled (so the mode `temp` refuses), and a WARC is corrupt when the configured
level of verification says so.

`ReplayCollections` adds `links` (symbolic links by number), `index` (what
`wb-manager reindex` read behind each), `built` and `marker` (`replay-index.meta.json`).
A replay command is `Relink`, `Reindex`, `WriteMarker`, and between any two of these a
step of a storage command may fall (`Storage`), for nothing locks them against each
other. `Reconcile(verify)` is `replay-reconcile --apply`, with or without
`--verify-warc-hash`. The ghost `torn` marks an indexing that broke off before its
marker, `freed` a stable name quarantined before any manifest had it, the one way in
which such a name can be given out again: the collection may then be called ready and serve the
WARC that had it before, until it is indexed anew. Temporary paths are not reused by crawls.

### CrawlWatchdogs

The crawl is reduced to what the watchdogs can tell apart: `status` and `started` of
the row, who holds the flock (`owner`), how far it is (`stage`), a crawl that outlived
its runner (`orphan`), the age of the log, the worker service. `ar` and `as` are the
runs of the two timers, at most one of each, whose steps interleave with each other and
with the worker: `ArSyncs*` set rows to running whose crawl is found by lock or
process, `ArDecides` applies the cap, `ArStops`, `ArLoads`, `ArFlips` stop the runner and call
`recover-stale-jobs` (a probe and a load, then a late write), `ArRestarts*` bring the runner back, `ArRecords`
saves the state file. `AsCounts`, `AsReconciles` and `AsStarts` are worker-auto-start.
`done` is the history of what really happened, `file` what the state file says.

### StorageMounts

`mnt[j]` is bound, stale (errno 107), another mount, plain: then what is written goes
to the local disk; or absent, the directory of a job that was scheduled and that nothing has
made yet. `base` is the Storage Box. The worker tiers a job before crawling it (`WorkerTiers`),
as `worker/main.py:142-215`, but not one without a directory, which its crawl then makes on the
local disk (`WorkerPicksNew`, `worker/main.py:146-148`). The watchdog `hp` confirms what it
sees over `ConfirmRuns` runs, with one count for a job that is running and one for a job that
is pending (`obs`, the keys `job:` and `next_job:`), stops the worker, unmounts, remounts, tiers,
recovers the rows and checks; tiering plans (`plan`) and acts later. Breaks and failing commands
are bounded by `MaxBreaks` and `MaxFaults`; `HpStopFails` and `HpDies` leave a repair half done.
The history variable `bare` has the crawls of the worker that the code leaves without a mount:
those of a job without a directory, and those below which a repair unmounted before it died
or found no Storage Box.

### AnnualCampaign

`jobs` is the table by id, with naming, origin, status and `config`; `plan` what each
scheduler decided in its first statement and will insert in its second; `edits` the new
configs that each writer's session has computed. `Commit` writes whole columns of rows
that changed. The code recognises the job of a year in three ways, by metadata, by name
and by output path: `Decision`, `IsOfYear` and `Candidates` have them as each command
does. The two option repairs are `Reconciled` and `Recovered`.

### Catalog and PublicApi

`snaps` are rows with their out-links, `pages`, `signals`, `changes` and `audit` the
derived tables; `found` is what a deduplication decided before it applies it.
`IndexJob` is the whole transaction of `index_job`: delete, insert, rebuild pages of the
new and the former groups, recompute in-links. `RebuildPages` and `RecomputeGroups` follow the
incremental code, and the properties compare them with the rebuild from nothing.
A row's `full` says that its search vector holds the text of the page, not only its
snippet: `IndexJob` writes it so, and `RefreshMetadata` and `BackfillVectors` undo it.
`pagesBehind` and `linksBehind` are ghosts for groups that a failed index or an operator left behind.
`PublicApi` gives each request's answer as an operator on a state: `Page(q, k)` of a
search by its filters, fallbacks and view, by the fast path over `pages` or by window
functions, and the debugger's separate implementation (`DebugPage`). Captures of one group may
differ in their URL, by the query: what is one result among snapshots goes by the URL
(`ContentKey`), and `Resolve` looks for the exact URL first and then among the newest
`ResolveScan` captures of the group. `since` is the first day of the window of
`compute-changes`, which moves on (`WindowMoves`).

## 3. The runs

Every property of a passing run has a mutant in `PROJECT.json`: a plausible bug in the
mapped definition that makes TLC find it violated, in a definition next to the original
and marked as such.

| Run | Instance | Shows |
|---|---|---|
| `jobs_all` | 1 job, 1 worker, 1 operator, all commands, 1 fault | `CrawlExclusion`, `IndexedWasCrawled` survive every interleaving and a death anywhere |
| `jobs_quiet` | 1 job, 1 worker, 2 operators with index and reset, 1 fault | `CrawlIsMarked`: the row says running as long as a crawl does; `FailuresBounded` |
| `jobs_live` | 2 jobs with or without seeds, one of them tiered, 1 fair worker, index-job, no death | `KeepsContract` (the refinement), `QueuedIsTried`, `JobsSettle` |
| `crawl_faults` | 2 runs of 2 stages over one directory, any 1 fault | `NoUnaccountedContainer`, `BuildSeesAll`, `SpentIsSaved` |
| `crawl_adapts` | 1 run, all three strategies, 2 unread messages | `LaunchesAreBudgeted`, `SuccessWasCrawled`, `RunEnds` |
| `replay` | 2 WARCs, 2 names, 1 fault of storage or replay | `ManifestIsSound`, `SnapshotsResolve`, `VerifiedIsServed`, `IndexedIsReplayed`: storage alone and composed with replay |
| `watchdogs` | 1 job, both watchdogs, cap 1, at least 1 job kept running, 2 faults | `RecoveriesBounded`, `DriftIsRepaired`, `WorkerReturns` |
| `mounts` | 2 jobs with a directory or none, one also run by a unit, 2 confirmations, 1 break, 1 fault | `WorkerCrawlsMounted`, `StaleIsRepaired`, `WorkerReturns` |
| `campaign` | 1 source, 2 rows, 1 row made by hand, 1 patch, 1 release, 1 fault | `ScheduledOnce`, `ReadyIsHonest`, `ToolsAgree`, `ScopeIsRepaired` |
| `catalog` | 2 jobs, 4 captures of 2 pages and 3 URLs on one day, 3 ids, 18 queries, 1 failure or backfill, 1 event per run, a window that moves past 2 captures | `EveryContentIsShown`, `PagesMatch`, `InlinksMatch`, `ReadsAgree`, `ComparesBackwards`, `FeedCatchesUp` |
| `warc_cleanup`, `watchdogs_flip` | small, no fault | the two disagreements kept as runs (section 5) |

Bounds, and why they are enough:

* One job suffices for what is said of one row and its flock: jobs interact only
  through the worker's choice, and `jobs_live` has two for that. One worker is what the
  deployment runs (`src/docs/decisions/2026-01-19-annual-crawl-resiliency-and-queue-order.md:13`);
  a second runner is the operator's `run-db-job`. Where a theorem needs one worker it
  says so; the others hold for any number.
* Budgets of retries are 1 and 2: the last allowed attempt, the first refused one and
  one in between occur. `NewCounts` has the value that resets the budget and one above it.
* `MaxFaults` bounds deaths and failed calls. One fault at any of the steps reaches
  every recovery path. A second one matters where a recovery can fail again: `watchdogs`
  has two.
* Two stages and budgets of one per strategy let an adaptation, a failed stage, an
  exhausted budget and the last stage all occur; `MaxRuns = 2` is a crash and a resume.
  `MaxQueue = 2` lets a stale message and a new one wait at once.
* Two WARCs and two names are one of each kind (quarantined, linked, only in `.tmp*`) at
  a time, and a collection that loses one of its links; consolidating anew after
  a quarantine meets the end of the names. The proofs have no bound.
* Caps of one per day are the recovery that is allowed and the one refused. Two jobs are
  needed in `mounts`, where one worker leaves one directory for another, and in `watchdogs_flip`, where
  what is done for one job of a source reaches another.
* One source in `campaign`: rows of different sources share nothing but the cap of rows
  per run. Two rows are the scheduled job and one that looks like it.
* In `catalog` two jobs capture one page with the same body on the same day, with different codes,
  and link to a second, and one job captures it with a query too: duplicates within and across
  jobs, dedup and re-indexing in both orders, a page that moves from one job to the other, an
  edition whose entry is not the URL without a query. Three ids let both jobs be indexed and one
  of them again, after a deduplication. A page size of 1 makes every boundary between pages of
  results occur. A run of `compute-changes` makes one event (`MaxEvents = 1`), so that captures
  wait while the window moves from `FirstSince` to `LastSince`; `EntryScan` and `ResolveScan`
  are the code's own limits.

Deadlock is checked in every run.

## 4. Fairness

* `JobLifecycle!LiveSpec`: the worker's loop polls for ever (`worker/main.py:362`), a
  process that has started something goes on, and crawls end. The sleeps between polls add up
  to the cooldown, however often an iteration raises in between (strong fairness of `Cool`);
  the disk has room (`worker/main.py:263`). No operator is ever obliged to type a command, no
  fault is fair and no mount is repaired. `JobsSettle` assumes moreover that storage recovers
  (`StorageRecovers`), and both it and `QueuedIsTried` that, from some time on, neither the job
  nor an older one is `Obstructed`: both are stated in the properties.
* `CrawlOrchestrator!LiveSpec`: the main thread goes on, and a crawl that nobody stops
  ends some day. The second is an assumption about Zimit's page and time limits: nothing
  in the loop bounds the time of a stalled crawl whose budgets are spent. The monitor and
  Docker are not fair: a monitor may die or never speak.
* `CrawlWatchdogs!LiveSpec`: both timers fire, a run that was begun goes on, and rows
  get old. Nothing is assumed of the worker and of the crawls. What is promised is
  accordingly conditional: `DriftIsRepaired` as long as the crawl goes on,
  `WorkerReturns` unless something crawls or a row never got a `started_at`.
* `StorageMounts!LiveSpec`: the timers of the watchdog, of worker-auto-start, the passing of a day
  (the caps), and the worker's own tiering. Breaks are bounded, not fair.
* `ReplayCollections!ReplaySpec`: the daily timer, without `--verify-warc-hash` as
  deployed, and a command once started.
* `AnnualCampaign!LiveSpec`: the five-minute timer of crawl-auto-recover begins with the
  scopes. Strong fairness, since another session of the same script may hold the turn at
  any one moment; its commit is weakly fair.
* `Catalog!LiveSpec`: only the timer of `compute-changes`; the window need never move.

## 5. Where the code and its texts disagree

Two are runs whose property TLC finds violated; the quotes are in `findings`.

1. `warc_cleanup`: `temp-nonwarc` trusts a non-empty `warcs/` to be complete
   (`cli.py:3135`) and deletes WARCs that were never consolidated: those of a crawl that
   was resumed after a consolidation. Indexing has not read them either.
2. `watchdogs_flip`: crawl-auto-recover stops the worker and loads the stale row;
   worker-auto-start frees the same row and starts the worker; the late write of
   `recover-stale-jobs` then sets a row to retryable whose crawl runs, which
   `vps-crawl-auto-recover.py:261` rules out.

The following are not runs of the project but can be reproduced with the property and
instance named (other constants as in the run of the module):

3. The cap on infra errors (`jobs.py:576`) is undone by post-crawl handling
   (`worker/main.py:310`), so such a job is retried for ever: `InfraRetriesEnd` under
   `JobLifecycle!LiveSpec`, no operator, no fault (and no check for deadlock: the job may end).
4. A lock probe by `reset-retry-count` that meets the worker leaves a row running with
   no runner (`worker/main.py:295`): `RunningHasRunner`, `Commands = {"reset"}`, no fault.
5. `retry-job` marks an `index_failed` job `completed` "for re-index", a status that no
   process selects (`cli.py:2377`): `CompletedIsIndexed` under `LiveSpec`,
   `Commands = {"index", "retry"}`.
6. Stopping the monitor of a stage sets the event that stands for a request to shut down
   (`archive_tool/main.py:1255`), so a successful crawl may be reported as stopped and not
   built: `SuccessIsBuilt`, no fault.
7. A resume that finds no YAML becomes a new crawl phase without the managed
   configuration (`archive_tool/main.py:749`): `StageIsManaged`, no fault.
8. Browsing by the fast path over `pages` shows deduplicated rows
   (`api/routes_public.py:1115` promises the contrary): `BrowseHidesDuplicates`, instance
   of `catalog`.
9. `patch-job-config` drops `campaign_kind` and `campaign_year`
   (`archive_contract.py:151-163`), so that `annual-status`, auto-tiering
   (`worker/main.py:142`), the tiering script and `replay-reconcile --campaign-year` no
   longer recognise the job by them
   (`docs/planning/implemented/2026-01-28-patch-job-config-and-integration-tests.md:18` has
   it for "patching existing annual jobs with new config options"). `ReadyIsHonest` is therefore stated for campaigns without patches.
10. Two schedulers at once create two jobs for a source (`cli.py:843`): `ScheduledOnce`
    with two `Schedulers`.
11. The search debugger (`api/routes_admin.py:327`, "the same ordering as /api/search")
    differs when rows are deduplicated and shown, for `view=snapshots` without
    duplicates, when full text finds nothing, when pages tie, and on the fast path;
    `DebugAgrees` states under which premises it is right.
12. `--repair-unexpected-mounts` unmounts and does not bind again
    (`vps-annual-output-tiering.py:453-503`, its help at 327-334).
13. `refresh-snapshot-metadata` and `backfill-search-vector --force` rebuild search vectors
   from the snippet and drop the page text that `index_job` put in (`cli.py:1861`, 1547), by
   which searches find more: both are the commands
   `docs/planning/implemented/2026-01-03-search-ranking-and-snippets-v3.md:34-39` gives to
   bring existing rows to the ranking whose "~4KB of cleaned main content ... improves recall" (line 10 there):
   `BackfillKeepsRecall`, instance of `catalog`.

Weaknesses that the models share with the code and whose exemption a property names:
a replay collection is "ready" for ever in the deployed daily run, even though its WARCs
changed (`VerifiedIsServed` speaks of the run with the hash check); a failed index leaves
the pages of dropped groups until a full rebuild (`pagesBehind`); overlapping rewrites of
`config` lose updates; two deduplications with different scopes at once can hide every
copy of a content. Further, from the same kind of exemption:

* A job without seeds, or one whose tiering raises, starves every younger one
  (`worker/main.py:282`, `jobs.py:509`; `Unobstructed` in `QueuedIsTried`).
* A state file that a kill has torn gives the next run fresh budgets (`archive_tool/state.py:221`;
  `Forgives` in `SpentIsSaved`).
* The worker crawls a job without a directory on the local disk (`worker/main.py:146`; `bare` in
  `WorkerCrawlsMounted`); the stale directory of a job that keeps changing between running and
  pending may never be confirmed (`Stays` in `StaleIsRepaired`).
* The default search leaves out what is not 2xx, and deduplication keeps the copy with the
  lowest id whatever its status: a content may be missing there (`EveryContentIsShown`).
* A capture that falls out of the window before its turn gets no change event of the timer
  (`FeedCatchesUp`), against `docs/operations/service-levels.md:92`.
* An URL of a page that its edition has beside the URL of its entry resolves to that capture,
  which may be a worse one than the entry (`EntriesResolve`).
* After a crash between link and manifest and a quarantine, a stable name is given again, and a
  collection is called ready that serves the first WARC of that name (`GivenAgain` in
  `VerifiedIsServed`).
* `patch-job-config` hides a row from `annual-status` (`ReadyIsHonest`).

## 6. The proofs

All are checked by `tlapm` from nothing, for every value of the constants that
satisfies the named assumptions of the modules: any numbers of jobs, processes, WARCs,
budgets, caps and faults, unless said otherwise. Every invariant of the passing runs is
proved. TLC checked each strengthening below as an invariant before it was proved.

`JobLifecycle_proofs`:

* `TypeCorrect`. One lemma per group of actions; `CommitFacts` says what a commit
  leaves in a row, so that the commands do not repeat the argument.
* `LockIsHeld` (`LockInv`) is inductive given the types: the flock is held exactly by
  the process whose control state says so. `CrawlsAreExclusive` follows from it, since the
  states with a crawl in hand are states with the lock.
* `NothingIndexedUncrawled` needs a strengthening. That rows are honest is not
  inductive: a session may hold a loaded row, or the outcome of a crawl in memory, from
  which it will write later. `CrawledInv` says the same of these local copies
  (`LocalCrawled`), and each step is shown to change the locals of one process only.

The second part of `JobLifecycle_proofs`, about `JobContract`, assumes `OneWorker(w)`: one worker, commands that only index (any
number of them), no deaths. The invariant `QuietInv` says that what the worker loaded is
still true when it commits, except that a success may have been indexed meanwhile; that
indexers hold only rows which nothing but indexing touches; that a row says running exactly
while the worker has the crawl in hand; and that retries stay within the budget. Each commit
is then one step of the contract or none: `ContractIsKept`; and `RunnersAreThere`, a row that
says running has a runner. The premise is not for convenience: with two workers a stale
failure overwrites a running row, and a death between the two sessions of an outcome
leaves it unhandled.

The third part assumes `IndexersAndResets(w)`: one worker, operators that index and reset
retry counts (the world of `jobs_quiet`), and any number of deaths. `QuietInv` is lost there: a
reset changes the count under the worker's open session, its probe of the flock sends the
worker to mark a row running, and a death leaves one behind. `MarkedInv` says what is left:
status and crawler status of what the worker loaded are still true when it commits
(`SameColumns`), a job it has chosen is still runnable, one it crawls says running, indexers hold
rows that only indexing touches; and each failed crawl is paid for by the count
in the row, the last one excepted, and by the count that the worker has loaded when it is about
to raise it (`Paid`). `CrawlsAreMarked` and `FailuresAreBounded` follow. With `run-db-job` besides,
`CrawlsAreMarked` does not hold: after a crawl that lost its storage the worker reads the row of
the operator's crawl for that of its own, and sets it to retryable (`worker/main.py:303`).

`CrawlOrchestrator_proofs` (any budgets, faults, number of runs and of stages):

* `RunTyped`, with `Affordable`: a strategy once begun can still be paid for when it is
  booked, many steps later.
* `BudgetsAreSaved`: a ghost counts what the adaptations have spent; `SavedInv` has it equal
  to the memory of the run and, unless the mount is stale, to the file, so that the next run
  loads it. A save torn by the kill or refused by the mount is forgiven by name (`Forgives`).
* `NoStageIsLost`: `ListedInv`, while a stage is under way only its own temp dir may be
  missing from the list, and every way out of the stage records it first.
* `SuccessIsEarned`: `VerdictInv`, what is pending at the end of the loop was a stage
  that ended by itself with an accepted code and left temp dirs.
* `LaunchesArePaid`: `PaidInv`, a ledger of launches against attempts, reductions and
  restarts, with a term for a stage that is stopped but not yet booked.
* `ContainersAreAccounted`: `LeaksInv`, containers besides the present one are at most the
  faults that left one.

`ReplayCollections_proofs`, the storage:

* `StorageTyped`: what indexing discovers is there (`DiscoveredExists`), rewritten rows are rows.
* `NamesAreNotReused` (`ManifestIsSound`): the manifest alone is not inductive, since a
  command works on a copy that is written at its end. `NamesInv` demands of both
  that no two WARCs share a name and that a name's file, if it is there, is the WARC's;
  and that the copy only adds entries. The next index lies above every name in the copy
  *and* on disk, which is what the mutant drops.
* `PathsResolve` (`SnapshotsResolve`): `PathsInv` adds that the files the manifest names
  are there except for corrupt WARCs, and that no snapshot under `.tmp*` is of a corrupt
  one (verification precedes indexing, quarantine refuses when there are snapshots). So
  rewriting a path loses nothing, and from the rewrite to the commit of a cleanup its
  uncommitted rows resolve without `.tmp*`. The exemption is the ghost `interrupted`:
  a cleanup cut off between its `rmtree` and its commit, where the code does break paths.

`ReplayCollections_proofs`, replay: `ReplayImplementsStorage` (every behaviour of the composition
is one of the storage) carries the two theorems above over. `VerifiedServes` rests on
`ServedInv`: outside an indexing, and unless one broke off, the marker is the set of the links' targets; after one, each link is
good (its file is gone or corrupt, or the index agrees with it, or it leads to a name in `freed`);
and every stable name the collection knows and that has no file is spoilt: a corrupt WARC has it
in the manifest, so that nothing sound comes back under it, or it is in `freed`. The last part
is what makes comparing paths enough; the names in `freed`, and an indexing that broke off, are what
`VerifiedIsServed` exempts. A reindex takes every name that has a file out of `freed`.

`CrawlWatchdogs_proofs`: `WatchdogsTyped` (a recovery that was decided has room in the
cap) and `RecoveriesAreBounded`, by `Owed`: what happened exceeds the file by at most the
faults, and by one while a recovery is done and not recorded.

`StorageMounts_proofs`: `MountsAreTyped`, and `CrawlsAreMounted` by `MountedInv`: a worker that
was stopped holds no crawl and is not about to begin one (`WorkerGone`), and from its unmounting
to its tiering the directories of a repair are plain, bound or stale again, what is plain at
tiering having been planned as plain (`Repairing`): so the tiering binds what the repair
unmounted, unless the Storage Box is gone. Any number of breaks and faults are allowed; what a
repair leaves bare because it died or found no Storage Box, and the job without a directory, are
in `bare`.

`AnnualCampaign_proofs`: `CampaignTyped`; `OneJobAYear` for one scheduler, by `OnceInv` (its
rows keep the annual name, and the sources it has planned have none yet);
`RepairsAgree` (two implications, of which one excepts `skip_final_build`) from the types alone; `ReadyIsEarned` for any number of schedulers, by
`TagsInv`: without patches the scheduled rows keep their metadata in the table *and* in
every open session that will write a config back.

`Catalog_proofs`, for any captures, jobs, groups and bounds (`CaptureAssumption`,
`BoundsAssumption`: the tables are finite):

* `CatalogTyped` (`TypeInv`): next to the types, no id that is in a table or held by a command
  has yet to be given out (`IdsPast`). `Writers` and `StepKinds` sort the actions: one
  re-indexes, breaks off half way, makes events, or rewrites rows into rows that are `Alike`, with
  the same ids and captures. Each later invariant is shown once per kind.
* `PagesAreRight`. `PagesFit` is `PagesMatch` group by group, inductive with `TypeInv` alone. The
  argument is about sets of touched groups: a group that an indexing does not touch lost and gained no
  row (`UntouchedPages`), and what marks or unmarks a row takes its group as touched
  (`RewritesFit`). The full rebuild is the partial one for all groups (`RebuiltWhole`,
  `RebuiltPart`). `PointersOwn`, by which the pointers of a page lead to rows of its group even where
  the page is behind, is what the API needs further on.
* `InlinksAreRight` by `InlinksFit`: both the groups that the deleted rows linked to and those that
  the new ones do are recomputed (`IndexLinks`), which is what the mutant drops; the other writers
  of links recompute what they changed or leave the groups as behind.

`PublicApi_proofs`, from `PublicApiAssumption` besides:

* `TimelineLooksBack` by `Backwards`: each event is of a live row and compares with an earlier
  one of its group, and no row has two. Deleting rows deletes their events first; rewritten rows keep
  their captures, so the order in time stays.
* `NothingIsLost`, for browsing that includes every status, and for the default if all copies of
  a content are 2xx. That each hidden row has a copy that is shown is not inductive: the copy
  may be hidden next. `Hiding` says that a hidden row has an audit row that leads to a same-day copy (which
  may be hidden too), that what an unfinished deduplication has found are still copies, and that
  the audit and the pairs found have no circle (`Grounded`). Finiteness then gives the end of
  each chain, a copy that is shown (`CopyIsShown`). `Grounded` is kept because what is found
  leads to rows that are neither hidden nor duplicates in the same search (`GroundedMore`, `CanonsNotDups`).
* `RequestsAgree` follows from `TypeInv`, `PagesFit` and `PointersOwn` by lemmas about the
  operators: the order of results is a strict total order of each length of key
  (`OverThree`, `OverFour`, `OverFive`), so that counting what comes before numbers the results
  (`RanksAreBijective`) and slices of that numbering add up (`SliceCounts`, `PagesSum`); the
  fast path orders the newest row of each group as the slow one does (`FastIsSlow`); the debugger's
  merit is the search's under the premises of `DebugAgrees`. An entry
  that is looked for by its own URL is the best of the rows with that URL because it is the best of
  its group. `Exported` is a recursive
  function: `ExportsAll` shows a solution of its equation, the rows after each id, and by the
  greatest id at which another solution could differ that there is no other.

Only model-checked: the liveness properties (`QueuedIsTried`, `JobsSettle`, `RunEnds`,
`IndexedIsReplayed`, `DriftIsRepaired`, both `WorkerReturns`, `StaleIsRepaired`,
`ScopeIsRepaired`, `FeedCatchesUp`), since fairness and ENABLED are beyond the prover; `KeepsContract` is
proved for the safety it states, and that jobs settle stays with `jobs_live`. The modules have no
recursive operators.

## 7. What is not modelled

Components listed as `not_modelled` in `PROJECT.json`, with the reason: the usage counters
(one statement each), configuration, seeds and registries (pure functions of the environment), deployment and
metrics scripts, and clean-up automation, which chooses jobs for a command that is
modelled. In the modelled ones:

* Job lifecycle: the pause for disk usage.
* Orchestrator: log parsing, time windows of the monitor, permission relaxing.
* Storage: the mode `temp` of cleanup, `--dry-run`, the contents of WARC records, and two
  storage commands of one job at the same time, which the code does not exclude.
* Replay: previews, `--limit-warcs`, the choice among collections under `--max-jobs`, two
  indexings at once.
* Watchdogs: dry runs, drills, deploy locks, the cap per hour, drift-auto-reconcile.
* Mounts: hot paths that belong to no job, the reconciliation of a failed tiering unit,
  the cap per hour; `--next-jobs-limit`, for the model probes every pending job; the unit
  `healtharchive-annual-output-tiering`, which runs on the success of `schedule-annual`, stops
  the worker, tiers and starts it again ("reduce race with the worker", it says: a worker that
  polls before it, or a job added otherwise, is the case of `WorkerPicksNew`); and that
  a container keeps the directory it was started with when a mount comes over it.
* Campaign: options that no pass compares, dry runs, `validate-job-config`.
* Catalog: PageRank, the text of diffs, crawl statistics, two index transactions of one
  source at once.
* API: the parser of queries, the weights of the score (an order given by the instance),
  ranking v3, RSS, raw snapshots, comparing with the live site, rate limits.

## 8. What is left

1. Two overlapping storage commands of one job in `WarcStorage`, and its composition with
   `JobLifecycle` through the job's status.
2. `CrawlWatchdogs` as a refinement: its crawl is a reduction of `JobLifecycle` by hand.
3. `FailuresAreBounded` next to `run-db-job`: TLC finds no violation with one worker and two
   operators that run and reset.
4. A measure that every step of a run of `CrawlOrchestrator` lowers until a container has to end,
   by which `RunEnds` would rest on the fairness of containers alone.
5. Several sources in `CrawlWatchdogs` and several collections in `ReplayCollections`.
