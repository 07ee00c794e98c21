# TLA+ models of bigdata-quant

Specifications of the stateful core of the repository: what keeps data, who
changes it, and what must hold however the sessions, processes and machines
that do so interleave, die and come back. The code is Python
(`backend/`, `notebooks/`, `orchestration/`); it runs an admin API, an MCP
server, Colab and Kaggle sessions that come and go, and stores what it collects
in parquet files on Google Drive.

- [1 Inventory](#1-inventory)
- [2 Plan](#2-plan)
- [3 Modules](#3-modules)
- [4 Runs](#4-runs)
- [5 Proofs](#5-proofs)
- [6 Where the code and its words part](#6-where-the-code-and-its-words-part)
- [7 Limits](#7-limits)

## 1 Inventory

| component | state | operations | what makes it hard | correct when |
|---|---|---|---|---|
| Job queue, `job_queue.py` | SQLite tables `jobs`, `workers` | submit_job, claim_job (with _release_stale), report_result, heartbeat, list_workers | callers in any order; release by the claim's age | one worker at a time; settled jobs stay settled; nobody loses a fresh claim |
| Colab workers, `notebooks/colab_worker.py`, and their endpoints in `api_server.py` | loop position, the job in hand, requests in flight | claim, run, report, idle heartbeat, give up, die | timeouts, abandoned requests that take effect later, sessions that vanish | work done is credited to who did it; short jobs end |
| Drive folders, `drive_rest.ensure_folder` | the folders of one name on Drive | find, create, look again | no conditional create, retried POST, listings behind | writers converge on one folder |
| Drive transfer, `drive_rest.upload`, `download` | upload session offset | chunk PUT, 308, retry | lost answers, resumption | the bytes on Drive are the file's |
| MCP users, `mcp_users.py` | `mcp_users.json`, its `.tmp`, a cache per process | authorize, create_user, set_disabled, list_users | two processes on one file; kill inside a save | quotas hold, no user is lost, a disabled key is refused |
| MCP server, `mcp_server.py`, `mcp_logs.py` | DuckDB thread pool | tools around authorize | a query outlives its timeout | bounded resources |
| Pump, `pump.pump` | cursor file | fetch, sink, advance | sessions killed between sink and cursor; buffering sinks | no hole; few re-reads; the source is drained |
| Watch, `pump.watch` | cursor, seen-set | one incremental visit | kill between three saves; out-of-order pages; string marks | no gap, few duplicates, everything stored |
| Rate limiter, `pump.RateLimiter` | tokens, `_last` | acquire, penalise | deficits, sleeps, penalties | burst plus rate bounds every window |
| Collections, `collections.py` | buffers, part files, index, packs, queue tables | push/flush, put/pack/get, add/fetch/complete/fail/reclaim | memory ahead of disk; numbering from counts; late calls | nothing acknowledged is lost; at-least-once |
| Compaction, `compaction.py` | parquet files of a directory | plan, merge, verify, replace, remove | overlapping calls, kill, names by the second | every row kept, once |
| Catalog, `drive_store.Catalog` | shard files, main file, copies on Drive | load, upsert/save, merge, backup, restore | many writers, one snapshot, lost machines | what is merged has each row once |
| Compaction watchdog, `data_compaction_watchdog.py` | pending list, state file | on_created, compact and upload, heartbeat | two threads on one file; failed steps | no file deleted before it is safe |
| Transfer log, `transfer_log.py` | totals file | record | read-modify-write by processes | totals add up |
| Kaggle, `kaggle_dispatch.py`, `kaggle_control.py` | job list file | dispatch, refresh_jobs | long polls between read and write | no dispatched job forgotten |
| Gemini pool, `quant_ai_bridge.py` | cooldown per key | pick, cool down | all keys cooling | the key used is one that may be |
| Scheduler, `scheduler.py` | none | plan_job, split_ranges | boundaries | ranges partition the interval |
| Accounts and OAuth, `google_account_manager.py` | accounts file, pending nonces | connect, mark expired | a cache per process, whole-file writes | no account is lost |
| Ingestion, `*_ingestion.py` | archives on disk | download unless present | interrupted writes | a file that exists is complete |
| Archive, `orchestration/definitions.py` | none of its own | upload, catalog | retries after a side effect | each day counted once |
| Query engine, `duckdb_engine.py`, `s3_views.py` | one DuckDB connection | views, SQL | shared by request threads | - |
| Reports, dashboard, scripts, vendored 9drive | none | I/O | - | - |

How they interact: workers reach the queue over HTTP through `api_server.py`;
the admin API and the MCP server share `mcp_users.json`, and both call the
Binance ingestion; the API and Dagster's runs share the accounts file; pump and
watch are called with a sink that is usually `Dataset.push`, and share the
limiter; datasets leave small parts that compaction merges (from the API's
thread pool, or the watchdog); `chain_archive` asks `plan_job` for an account,
walks `ensure_path`, uploads and then records in the catalog, of which each
process writes its own shard; Colab and Kaggle sessions mirror their directory
with `upload_tree`. `PROJECT.json` lists each component with its sources, and
the hazards of the code at the line where they bite.

## 2 Plan

Done, in this order: JobQueue and its abstraction JobBoard; ColabFleet, which
composes the queue with its workers and the network; DriveFolders; McpUsers;
PumpDrain, WatchFeed and RateLimiter; Compaction; Catalog. Then RequestQueue with its
abstraction Frontier, KVStore, and Crawl, which composes them; Dataset's parts as
PumpDrain's sink; PumpPaced, which composes the pump with its limiter; DriveUpload and
Scheduler, and Archive, which composes them; and the parts that share no state:
LocalIngest, ColabIngest, KaggleKernel, KaggleJobs, Accounts, Watchdog, KeyPool.
Then the proofs: of every safety and action property of the passing runs. What is
left to model is in section 7.

The modules are written for this: parameters are CONSTANTS with named
assumptions, each operation is one action, invariants are conjunctions of named
parts, and no module declares a RECURSIVE operator: what is computed by recursion (the merge of
the shards, the sessions of the first platforms) is a recursive function.

Eight modules hold the theorems: ColabFleetProofs (queue and fleet), McpUsersProofs,
PumpProofs (watch, pump, limiter and their composition), CompactionProofs, CrawlProofs
(request queue, crawl), DriveProofs (folders, archive, catalog), SchedulerProofs and
PartsProofs.

## 3 Modules

Each module's header says what it abstracts. `PROJECT.json` ("map") gives the
lines of every definition. Definitions introduced as "Mutated form of X" are
plausible bugs of X, kept beside it to show that a property notices them; no
specification uses them.

**JobBoard** - what the queue promises: a job is posted, handed to one worker
at a time, may be taken back while unsettled, is settled by its holder only.

**JobQueue** - the tables. `status`, `holder`, `age`, `created` are the columns
of `jobs`, `seen` and `credit` those of `workers`. One action per transaction:
`Submit`, `Claim` (release of all stale rows and the hand-out of the oldest
waiting one, as one transaction), `Report` (`WHERE id = ? AND worker_id = ?`,
no look at the status), `Heartbeat`. Stamps are ages that saturate just past
the largest threshold they are compared with, so the clock needs no bound.

**ColabFleet** (extends JobQueue) - sessions running `main()` of colab_worker.py:
`pc`, `task`, and `line`, the request they wait for; `conn`, the requests in the
server. `worker_claim` is two transactions (`ClaimBeat`, `ClaimJob`). What a job
comes to is posted by `Finish`, unless it does not encode as JSON (`Encodes`): then
nothing is sent and the worker polls again (`Unsent`). Which jobs return such rows is
the constant `Unsendable`. A request given up (`GiveUp`) or whose session died stays
in the server and takes effect later; a lost one (`Lose`) never does. `lease` and
`ran` are history: the age of the claim as the worker could know it, and who ran what
to its end.

**DriveFolders** - `ensure_folder` by several writers: `Find` (lowest id of
the listing), `Create`, `Recheck`. Drive is external: it creates duplicates,
picks ids in no order, and lists a new folder some time later (`Appear`). The
retry inside `_request` creates twice when an answer is lost.

**McpUsers** - the users file. `main` and `tmp` are files with an mtime,
`mem`, `loaded` the cache of a process. A call loads and decides in one step
(`Authorize`, `CreateUser`, `SetDisabled`, `ListUsers`), a saving one then goes
through `Open` (truncates the shared `.tmp`), `Write`, `Replace` or
`ReplaceFails`, `Stamp`. Open handles follow a renamed file, so a late writer
writes into the installed one. `granted`, `issued`, `barred`, `rolled` and
`overlapped` are history.

**PumpDrain** - `pump` and `Cursor`: `Fetch`, `Limited`, `Stop`, `Sink`,
`Advance`, `Finish`, `Kill`, over as many sessions as needed. The sink is
durable, or `Dataset.push`: pages wait in `buffer` until `Flush` (or the
caller's last flush) writes the part `<writer, number of files of this
session>`, replacing what an earlier session of that name left there. `lost` is
history: what was in memory at a kill, and what was written over.

**WatchFeed** - `watch`, `Cursor`, `SeenSet`: `FetchPage`, `SinkUnseen`,
`Remember`, `AdvanceMark`, with a kill (`KillVisit`) between any two. `StrGreater` is
Python's `str(a) > str(b)`; the source may be any of `Marks`. The source is external: in
order from the watermark on, ties included, or out of order (`FetchOld`). `copies`,
`old` and `killed` are history.

**RateLimiter** - `acquire` and `penalise` in whole units (`Rate` per tick,
`Cost` per permit). A window of observation opens anywhere (`OpenWindow`).

**PumpPaced** (extends PumpDrain, RateLimiter) - a permit before each fetch, a
penalty after a refused one, a new bucket in each session. The window of
observation spans sessions.

**Compaction** - `compact()` in several threads: `Plan` (greedy groups of small
files in name order), then per group `Meta`, `Read`, `Write`, `Verify`,
`Replace`, `RemoveInput` one by one, `Finish`. Files are bags of rows, an output
is named by its second.

**Catalog** - `Open` (load: own shard, else the main file when nobody has a shard),
`Upsert`, `WriteShard`, `ReadShards`, `WriteMain`, `ReplaceMain`, `Die`, `Backup`,
`Restore`, `LoseMachine`. `Merge` goes through the shards in the order of their
names, which are numbered. `stage` is the step of a save. `recorded` counts each row
once when it reaches a shard; `owed` and `heirs` follow the rows a writer took over
from an old or restored main file.

**Frontier**, **RequestQueue**, **KVStore** - `collections.py`. A request is
absent, pending, running, done or failed; `complete` and `fail` do not look at
the state. KVStore has the index file, the inline blobs in memory and the packs,
with what a kill inside `put` or `pack` leaves (`DieInPut`, `DieInPack`).

**Crawl** (extends RequestQueue, KVStore) - sessions whose tasks reserve, fetch,
put, complete or fail, while `reclaim_stale` returns old reservations; killed
anywhere. `doubled`, `dropped` and `reput` are history: reservations returned
while in use, contents a kill took, and keys put again after they were packed.

**DriveUpload** - `drive_rest.upload`: `Begin`, `Send`, then one of the answers:
done, 308 with or without Range, 429/5xx, none, refused. The server commits any
prefix of what it can use, whatever it answers.

**Scheduler** - `plan_job` (`Slots`) and `split_ranges` (`Start`, `Stop`) as
operators; no state. `Select` is a list comprehension with a condition, `Ranked` the
stable `sorted` (the `Place` of an account is one more than the number of those before
it), `Sessions` the running sum over the platforms. `Refused` has the checks `plan_job`
begins with; a refusal, no account and no session are all an empty plan.

**Archive** (extends DriveUpload, Scheduler) - `chain_archive`. A backfill puts the days
into runs (`runOf`, any of `Groupings`, up to `MaxPerRun` days each). A run of several
raises in every attempt (`LaunchBatch`), after which an operator may launch its days one by
one (`Split`). For a day alone: `Launch`
(Dagster's retries, an operator's relaunch), `Convert`, `Plan`, `Folder`,
`Upload`, `CleanUp`, `Record`, `Succeed`, with `Raise` and `Kill` at any step and
accounts that expire or are full.

**LocalIngest** - the Binance and AWS downloads under overlapping calls: `Open`
truncates, `Write` completes, `Rename`, `Fail`, `Crash`. Files are none, half or
whole, and a handle follows a renamed file.

**ColabIngest** - `run_ingest` and `push_to_drive` over the jobs of a session.

**KaggleKernel** - the pushed script by kind of work, its upload, `result.json`
and `fetch_output`, over runs of one slug.

**KaggleJobs** - `dispatch` and `refresh_jobs` as read, work, write back, with the
steps of `_save_jobs` through one temporary name.

**Accounts** - managers in several processes: start (`KeyCheck`, `KeyWrite`,
`Load`), the OAuth nonces, `Exchange`, `Expired` (an error of the token endpoint,
whatever its reason), and the in-place save: `Truncate`, then `WriteAll`, or `DumpRaises`
when another request has added an account meanwhile (`grown`). `met` has the saves that
overlap, `refused` the accounts a process that knows the file was refused a token for.

**Watchdog** - observer thread (`Merge`, `Upload`, `Record`, `Remove`, the state
file) against the heartbeat thread on that file; `transfer_log.record_upload`. The merge,
the copy or a removal may fail (`MergeFails`, `UploadFails`, `RemoveFails`).

**KeyPool** - the search for a Gemini key step by step (`Look`, `Move`, `WakeUp`)
in several threads, and the rests.

`MC*` modules give the constants that need a definition. **MCParts** puts the
parts that share no state into one run: `focus` says which of them acts.

## 4 Runs

| run | shows | bounds and why they are enough |
|---|---|---|
| `fleet` | the queue implements JobBoard under real callers; settled stays settled; no fresh claim is lost; settled rows were run by the worker they name; jobs_done covers done rows | 2 jobs, 2 sessions, 2 request slots, JOB_STALE_S = 1 tick, 1 fault. Two of each are what a stale release, a claim of the other job in the same transaction and a late report of an abandoned request need. Symmetric in jobs, sessions and slots; results that cannot be sent are left to `fleet_live` and to the proofs, which cover them |
| `fleet_live` | a quick job whose result can be sent is settled, also behind one that is run for ever | 3 jobs, two of them unsendable, 1 session, 2 request slots, 1 lost or abandoned request: a waiting job has none, one or two that circle ahead of it; no symmetry |
| `folders` | no writer that has a folder creates another; ids only go down; all end in one folder | 3 writers, 4 ids, 1 lost answer: more duplicates than two writers can make |
| `users` | exact limits, no user lost, no disabled key served until two saves overlap; after that a bound per admin save | MCP server and admin API, 2 keys of one user, quota and rate 1, 3 minutes over 2 days, 4 saves, 1 kill: enough for a stale save between two calls of one key |
| `pump` | whatever is behind the cursor is stored but for what a kill or a re-used writer name took; one page re-read per kill; a full bucket per session beyond the rate; drained | 2 pages, 2 kills, both sinks, 2 writer names, a retry, a permit of 2 units at 1 per tick. Two pages make a part that is overwritten and one that is not |
| `watch` | no gap, bounded duplicates, everything stored | 5 records with a tie of two, a tie that fills the page, or a new digit, pages of 3, seen-set of 4: smaller than the feed, so it forgets; 2 kills, 2 out-of-order answers |
| `compact` | no row lost; once each when calls neither overlap nor die | 5 parts, groups of 3 and 2, 2 callers, 3 calls, 1 kill, 4 seconds |
| `catalog` | every merge of the shards has the recorded rows, main never overcounts, and is repaired | 2 writers, an old catalog, 3 upserts, 1 kill, 2 backups, 1 lost machine |
| `crawl` | the queue implements Frontier; done requests resolve; re-opened only late; all settle | 3 requests, 2 of this worker's slice, 2 tasks, 2 attempts, 1 kill: two tasks on one request need two attempts |
| `archive` | what is recorded is whole on Drive; days are counted once but for late failures; a day alone in its run is archived | 2 days, in one run or two, 2 accounts, a file of a chunk and a half, 1 retry of each kind, 3 faults of any kind, 1 kill, 2 Dagster retries |
| `parts` | see the properties of the seven modules, below | 2 callers and 2 days (ingestion), 3 months (Colab), 2 parts and 2 runs (Kaggle), 3 pushes of 2 slugs by 2 threads, 3 handlers in 2 processes with 2 accounts, 3 micro files merged from 2 on within 3 seconds, 2 keys and 2 requests; every request over 3 accounts, 2 platforms and one that is unknown, sizes 0 to 6, sessions beyond an exact cap |
| `catalog_account` | *violation*: the account of a dataset flips | 2 writers, 3 upserts |

`parts` in words. `FilesWhole`: a file that exists is whole, or its write was
cut, which for AWS takes two calls on one day. `ReportsHonest`: a clean report of a
Colab job or a kernel is true of Drive. `JobsTracked`: no pushed kernel is
forgotten and none called done that is not, until two requests hold lists at the
same time. `AccountsSafe`: accounts stay connected unless the token endpoint refuses
them, the file is JSON and its tokens can be decrypted, until a stale copy is saved, a save
is cut, met by another or broken off by a new account, or first starts race.
`WatchdogSafe`: rows are in an output before they are removed, none is forgotten or
counted twice, counters never exceed what was done. `KeysShared`: a key rests as
long as its limit asked. `PlanSound`: what cannot be met is refused,
plans use accounts and platforms in order, keep within the caps and are as wide as they
may be; ranges tile.

The type invariant of each module is the first conjunct of one of its
properties. Such a property also states, case by case, when the code lets go
of the promise (a history variable names the case); the promise itself would be
refuted there, and section 6 lists these cases.

Deadlock is checked where the system never stops by itself (`fleet`, `fleet_live`,
`folders`, `pump`, `watch`); the others stop at their bounds on calls and
kills and say CHECK_DEADLOCK FALSE. `parts` is symmetric in accounts, nonces and
threads.

### Fairness

- ColabFleet: weak fairness of a live session's own loop, of the server
  serving each slot, and of time. Nothing makes a session start or survive.
  `Overdue` is the assumption under which a *quick* job deserves its name: its
  run and report are over before its claim goes stale, and when there is nothing it can
  report, so is the worker's next poll; without it a long job can circle for ever (that is
  how the code is).
- DriveFolders: writers keep calling (every `upload_tree` does), queries do not
  fail for ever (strong fairness of `Find`), Drive's index catches up.
- PumpPaced: time passes and sessions are started again, which the observer's
  windows must not prevent (strong fairness of the two, weak of a new window); sleeps
  end; budgets leave room for a fetch and the source does not refuse every one
  (strong fairness of `Pace`, `FetchPaced`). Kills are finitely many by their bound.
- Crawl: sessions are started again, reserve, and end what they reserved; time
  passes; a session calls `reclaim_stale`, as collections.py:340-344 asks.
- Archive: Dagster launches what is left of a day's attempts, and an attempt goes on.
- WatchFeed: visits are made again and go on unless killed.

## 5 Proofs

Checked by TLAPS for every value of the constants, from the named ASSUMEs only,
most of which say what kind of thing a constant is: a number, a finite set, a value
that stands for nothing (and, where the solver needs it, that a product or a power
of numbers is a number). Six say more: there is one MCP server process and any
number of admin ones (start.sh:32; McpUsers); a request is stored under its own key
(Crawl); original parts share no rows and have no output's name (Compaction);
records are published in the order of their marks (WatchFeed); no platform is listed
twice, and no account, as both are keys of a dict (Scheduler, Archive).
One theorem has a hypothesis besides, `AnswersFit` of `StoredAgainRarely`, below.

Every invariant and every action property that a passing run checks is proved.
No invariant below was inductive as the runs check it. Each entry names what the
inductive one adds and why a step needs it.

**ColabFleetProofs**, first the queue with any callers: `TypeCorrect`;
`HolderCorrect` (a row names a worker exactly when it is running or settled);
`SettledCorrect`; `LeaseCorrect`; `BoardRefined` (JobQueue implements JobBoard).
The inductive invariant is `IInv == TypeOK /\ HolderMatchesStatus`: a report is
accepted by its worker id alone, so without the second part a pending row could be
settled by a worker it was taken from, and the refinement step of `Report` would
have no counterpart on the board. Then the fleet: `FleetRefinesQueue` (a fleet step
is a queue step or leaves the queue alone, so all of this holds of the fleet);
`FreshLeaseCorrect`, `ExclusiveCorrect`, `RanCorrect`, `CreditCorrect`. `FleetInv`
adds

- `ConnInv`: a request in the server has a sender, and a result was posted by a
  session that had run the job;
- `LeaseInv`: while a worker's claim is fresh the row is that worker's and its
  `age` equals the worker's `lease`. The equality carries `FreshLeaseHolds`
  through the claims of others, since `Claim` releases by `age`;
- for the credit, `Known`: who holds a job has a row in `workers`, because
  `worker_claim` writes that first. Without it the UPDATE of a report would
  find no row to credit.

**PumpProofs**, the pump: `NoHiddenHole` (`HolesBuffered`) and
`OnePagePerKill` (`RereadsBounded`). `DrainInv` adds that a session has numbered
its parts from 0 and has fewer of them than pages (`PartsNumbered`), so a flush
replaces no part of its own session, and that copies are parts (`SinkCounts`).
The bound on copies is one on the cardinality of the set of copies
(`CopiesInv`), which each sink or flush enlarges by what it writes. The limiter:
`TypeCorrect`, `WindowCorrect`; `WindowBounded` needs `Headroom`, which adds what is
still to come: the tokens at hand, or the permit a sleeping call takes when it wakes
less what is refilled until then. The two together: `PacedIsPump` (a paced pump is
a pump), hence `PacedHoles` and `PacedRereads`; and `SessionsAddUp`, where
`PacedInv` is `Headroom` with the allowance `(1 + begun) * Full` in the place of
one bucket, and a new session's bucket is paid by the increment of `begun`.

In the same module, watch: `WatchLeavesNoGap` (`NoGap`), `WatermarkNeverBack`. `FeedInv`
adds `BatchClosed`: what sorts before a record of the answer is in the answer or
stored, so moving the watermark to the answer's highest mark passes over nothing;
`SeenStored`, so what the seen-set filters out is stored; and `BatchStored`.

`StoredAgainRarely` (`DuplicatesBounded`) is about what the seen-set forgets. A kill or
an out-of-order answer makes room for one more copy of every record; `OnceInv` says why
no ordinary visit can store a record that is at its bound (`AtBound`). Such a record, if
it is not below the watermark, is `Remembered`: it is in the seen-set, everything added
after it is on the page that comes next, and the watermark cannot come to rest on
it without an answer that ends later, or with a mark that does not compare greater as a
string. The seen-set drops from its front, so it keeps what lies behind the record as
long as that fits: hence the hypothesis `AnswersFit`, that no answer, with the records
that tie at its end, is longer than the seen-set keeps. `SeenSet` keeps two million ids
(pump.py:150) and no caller changes that; the run evaluates the hypothesis for
its instance. Without it the property is false: an answer longer than the seen-set is
fetched again and stored again at the same watermark.

**CrawlProofs**: `QueueKeepsPromise` (RequestQueue alone, its operations in any
order, implements Frontier); `CrawlKeepsPromise` and `CrawlAttempts`, the same and
`WaitingHasAttempts` of a crawl with any number of tasks, kills and sessions.
`QueueInv` adds that a request never added was never tried (without it `Add` could
make a request wait with no attempt left). `CrawlReopensLate` needs `OneAtWork`: a
request in hand is running and in one hand, unless reclaimed.
`CrawlDataResolves` needs `EntriesResolve` for all keys, not only the done ones,
`PacksNumbered` (the next pack's number, a count, is new) and `DoneHasEntry`.

**CompactionProofs**: `NothingLost` (`NoRowLost`), `EveryRowOnce` (`RowsOnce`). A
call may remove an input because its output, or a later one that has swallowed
that, has the rows (`OutputsKeep`): outputs are numbered by seconds, and inputs are
older than outputs (`InputsRead`), so the chain ends. `OutputsNew` keeps other
calls away from an output that is not in place. `EveryRowOnce` adds `Solo`: while
one call runs, what it read is still there, and each row is in one file of those
that are not about to go.

**DriveProofs**, the archive: `RecordedDaysAreThere` (`RecordedIsThere`),
`RowsCountedOnce` (`CountedOnce`). `DaysAddUp` turns the inequalities of the two
into equations: a day's files are those recorded, wasted and `Pending`, its records
the late ones and the one that settles it. `AttemptInv` says what each step of an
attempt knows of its upload, down to `SessionInv`: the file exists exactly if the
server has all of it. That an attempt has an account of the accounts file is a fact
about `plan_job` (`ChosenIsAccount`, from `PlansSound` below). For `ensure_folder`,
`NeverSecondCreate` and `AlwaysDownwards`: `FoldersInv` adds that a folder once
returned stays in the listings.

The catalog: `MergesAgree` (`MergedViewsAgree`), `MainUndercounts`
(`MainNeverOvercounts`), `SaveRepairsMain` (`MainRepaired`). `Held` is what a merge of
the shard files gives, and `CatalogInv` has four parts besides types:

- `WriterInv`: a writer has in mind what its shard file holds, what it still owes
  it and, before the write of an upsert, one row more of the dataset with the newest
  entry. `Past` (no file is ahead of the clock) makes that entry the only newest one;
- `Counted`: the files hold what has been recorded;
- `Bounded`: no snapshot (main file, temporary file, view, copy on Drive) claims more than
  the files hold plus the old catalog until somebody has taken it over. It has to be said
  of copies and views too, since any of them may become the main file;
- `Unrivalled`: while one save is the only one under way, its view and its temporary
  file are complete.

The step that matters is the write of one shard, which changes one operand somewhere in
the merge. `MergeUpdate` says that the merge then changes by the difference, for any
number of shards. The argument goes up from the empty prefix of the shards, one shard at a time.

**SchedulerProofs**: `PlansSound` (a request is refused exactly when a check of `plan_job`
names it, no account has room or there is no session; every plan keeps within the exact
caps, is as wide as sessions, accounts with
room and size allow, uses accounts and platforms in order, and no platform beyond its
sessions), `RangesTiled` (`split_ranges` covers the interval with no gap
and no overlap). A place is one more than the number of those before it, so places are
different, and as many as accounts: `Ranked` is a permutation in order (`RankedRanks`).
The platforms are stretches of slots laid end to end (`SessionPlaced`), so a slot of
a platform is one of as many as it has sessions (`PlatformFills`).

What a recursive function or the maximum of a set is for every argument cannot be shown
by induction here; where it is needed (`MergeUpdate`, `SessionsGrow`, `SelectUnfolds`,
`MaxIsGreatest`) the lemma is proved from a least counterexample (`Least` and `UpFromZero`,
from the library's `WFMin`).

**McpUsersProofs**: `UsersStay`, `DisabledStayRefused`, `GrantsStayBounded`. Until
two saves overlap, `Alone` says that the temporary file is the one saver's and
`Switched` that whoever is up to date has every user and switch of the file, since a
call writes back all that its process knows. The bound after that is one on data
that was read before it was outdated: `Budgets` divides `rolled`, the saves that
may set a counter back, into the `m` the MCP server has already gone on from, those
still to write theirs, and the ones whose data lies in the temporary file (`x`) or
in the main file (`y`) and may be read next; going on from any of these stays
within `m` more limits (`Covered`).

**PartsProofs**, of the parts in one run, hence of each alone:

- `IngestedFilesWhole`: `OneAtDay` (a part file of a day that one call ever had in
  hand is that call's) and `PartIsExplained` make the rename install whole files;
- `CleanReportsHonest`: `Unpushed` (what is on the session's disk and not on Drive
  was written by the job at work, or is to be pushed, or the next report is not
  clean) and `ReportedOut` (a run reports only parts it put out);
- `KaggleJobsTracked`: `OneSaves` (the list in the hand of the one who saves has all
  of the file's jobs) and `ListsTold` (entries, in files and in memory, tell what
  Kaggle said of a reference);
- `AccountsStaySafe`: `JoinedCached` (a process that is not behind has all accounts
  joined and not refused since), `HandlersBusy` (a save that has met another is still under
  way and `broken` says so) and `OneKey`;
- `WatchdogLosesNothing`: `FreshOnes` (no file is merged twice), `BatchPlaced`,
  `ShippedCounted` and `TotalsRead`, the counters by cardinality;
- `PlannedSoundly`: the plans of the run, from `PlansSound` and `RangesTiled`;
- `GeminiKeysRest`: `AloneSearch` (keys between the start of a search and the index
  are resting) and `OwedCooled`.

With TLC only: liveness (`QuickJobsSettle`, `EventuallyAgree`, `Drained`,
`EventuallyStored`, `RequestsSettle`, `DaysArchived`), beyond TLAPS, and the violation
that section 6 begins with.

## 6 Where the code and its words part

One disagreement has a run:

- `catalog_account`: `merge` keeps the account of the entry with the lower
  `updated_at`, which every upsert moves; drive_store.py:333-334 says "the
  earliest recorded account wins".

Others met while modelling appear in the conditions of properties that hold:

- A worker's result is encoded by `requests.post`, outside the inner `try` of its loop
  (colab_worker.py:353). Rows with a Timestamp or a NaN raise there on every run: nothing is
  posted, the claim goes stale, the job is run again, for ever, where job_queue.py:4-5 says
  "claim a job, run it, post the result back" (`Unsendable` in `QuickJobsSettle`).
- The dashboard (api_server.py:687-702) is the only reader of the catalog in production.
  It makes a `Catalog()` of the shard "local" and lists its entries (drive_store.py:485-504),
  not the merge: once any shard exists and "local" has none, it lists nothing.
  drive_store.py:277-278 says "a reader merges them". `MergedViewsAgree` is about
  `load_all_shards`, which only saves call.
- A run of several partitions raises on `context.partition_key` in every attempt
  (definitions.py:74), where definitions.py:61 says "Each run handles a batch of
  partitions rather than one". `DaysArchived` is about days that are runs of their own.
- `part-compacted-<second>` (compaction.py:130-131) is not unique. The second output of one
  second replaces the first, and the inputs of both are removed, in the module whose "Safety
  is the whole design" (compaction.py:10). `NoRowLost` says that nothing else loses
  rows. The watchdog's outputs have the same names (`lost` in `RowsKept`).
- A compaction killed after the rename, or overlapped by another, leaves rows in two files
  (`RowsOnce` needs `kills = 0` and `~overlapped`), where compaction.py:15-17 has "either the
  old parts or the new one" (145-146 admit the new file beside all of the old parts).
- `pump` saves the cursor when the sink returns; with `Dataset.push` the records
  are in memory then, and a kill makes a hole (`lost` in `HolesBuffered`), where
  pump.py:21-22 says "a duplicate is cheap and a hole is permanent". A later
  session with the writer name of an earlier one replaces its parts.
- `_release_stale` goes by the claim's age; a live worker with a job longer than
  JOB_STALE_S loses it, though job_queue.py:113 speaks of "dead workers"
  (`LeaseRespected` is all there is). `WORKER_TIMEOUT_S` releases nothing,
  though job_queue.py:26-28 says so: it only feeds `list_workers`.
- A released job keeps its `created_at`, and the oldest is handed out first: behind two jobs
  that are run for ever, or one that is longer than JOB_STALE_S, a later one may
  starve (`Ahead` in `QuickJobsSettle`).
- Two racing `ensure_folder` calls may return different folders; they agree from
  a later call on (`EventuallyAgree` holds, "always agree" would not).
- Once two saves of the users file overlap, limits, users and disabled keys are
  no longer safe (the `overlapped` of `GrantsBounded`, `UsersKept`,
  `DisabledRefused`): mcp_users.py's `_lock` does not reach the other process.
- Marks that gain a digit stop the watermark (`OrderedAsStrings`), and with it
  the feed once the page at the watermark is full; so does a tie that fills a page, or a
  page of one record (`TiesShort`): the answer then has no later mark.
- Writers opened before the first shard exists each take an old catalog for their
  own, and its rows count twice (`OneHeir`). A backup adds a file of the same name
  on Drive each time (drive_store.py:457 says "Overwrite").
- `upload` promises to re-query the committed offset after a 5xx; it sends the
  same chunk again. A file of size 0 raises; a 308 without Range, when nothing
  arrived, moves on by a chunk, and the upload fails later. Nothing of this puts a
  wrong file on Drive (`RecordedIsThere`).
- A retry of `chain_archive` after the upload uploads the day again, and after the
  shard was written counts its rows again (`late` in `CountedOnce`). `plan_job` takes
  the first connected account whether it has room or not: the transfer log knows
  only the remote "union", so its budgets are never used up (`DaysArchived`).
- A failed push of a Colab job is made up for only when a later job writes
  something (`unclean` in `CleanMeansMirrored`); the job is reported done.
- The API's AWS and Binance dispatches never pass `drive_folder`, so those kernels
  upload nothing. The kernel judges an AWS day by the bytes that arrived, not by the
  listing (`pieces`).
- Requests that hold Kaggle's job list at the same time overwrite each other's
  entries (`crossed`); the status of a reference is its newest version's.
- A Dagster run that outlives a callback writes back the accounts it started with
  (`stale`); saves are in place, so a kill leaves half a file, and so does an account
  added by another request while `json.dump` goes through the dictionary, which raises
  (`broken`); two first starts make two keys (`keyRace`).
- Google's library raises RefreshError for any error of the token endpoint, a 5xx too: a
  good account is then marked as not connected until it is connected again (`refused` in
  `JoinedKept`).
- The watchdog drops the pending list of a failed compaction and whatever it had
  pending when it stops (`given_up`); it removes the originals though the copy
  failed (the output stays on the host). An original it cannot remove stays beside the
  output that has its rows (`halves`).
- With all keys resting, the shortest wait is slept and the first key returned,
  which may be another; concurrent searches move one index, so a free key is
  passed over; a shorter rest replaces a longer one (`tired`, `alone`, `cutShort`).
- Overlapping AWS downloads share the day's part file, though
  aws_blockchain_ingestion.py:142-144 speaks of "never [...] a half file"
  (`overlapped`); Binance writes the target itself.
- With no sessions at all, `plan_job` divides by zero; a query that exceeds the
  MCP server's limit is reported as cancelled while its thread goes on.

## 7 Limits

Not modelled: parquet contents, column sets, SQL, HTTP status texts, authentication
of the endpoints, formatting and logging. Floats of the limiter are exact, and the
estimates of the scheduler are left out. An I/O error in a save of the cursor,
which re-reads a page as a kill does, and a listing of quotas that a new account breaks off
are left out too. File systems: renames are atomic and
writes are visible in order; two writes within one tick of the clock, which would
share an mtime, are left out. Catalog files are written in one step (McpUsers and
KaggleJobs show what sharing a temporary file does inside one). Compaction has one
directory: `plan` ranges over a tree and its groups may cross partitions. One
attempt of `chain_archive` runs at a time: concurrent ones meet only in the
catalog, which Catalog models. What a buffer needs to be due for a flush is a
choice in PumpDrain.

Components without a module, with the reason in `PROJECT.json`: DuckDB and the
views (SQL text; what a connection shared by the API's threads does is DuckDB's,
not the repository's), the Gemini probe, alerts, status and control of notebooks
(one request or command each), the dashboard, scripts and vendored code. Of the
components with a module: the quota and log reports of Kaggle, the rclone
configuration, hypersync (an external library that writes under fresh names), and
the download and ranged reads of drive_rest, which keep nothing between calls.
