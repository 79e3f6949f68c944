# TLA+ verification of file-manager-admin

The program is a FastAPI application: users upload PDF files, have them parsed
by an external *document-parser-server*, follow the status of the parse jobs and
download the results; administrators edit settings and accounts. It is **one
asyncio process** over a PostgreSQL database and two directories. Nothing runs in
parallel inside the process: what can go wrong happens at the `await`s, where the
other requests and the background task run, in the database, which several
sessions share, and at the parser server, whose state the tables only mirror.

## 1. The system

| Part | Source | State it keeps | Operations |
|---|---|---|---|
| Parse service | `services/parse_service.py`, `api/parse.py` | rows of `parse_jobs`, archives under `PARSE_RESULT_DIR` | `start_parse`, `get_parse_status` (reads), `get_parse_result`, `retry_raptor` |
| Background synchronisation | `services/background_sync.py` | the batch in progress and its database session | `background_sync_loop`, `resync_pending_jobs`, both through `_process_jobs_batch` |
| File service | `services/file_service.py`, `api/files.py` | rows of `files`, bytes under `UPLOAD_DIR` | `upload_file`, `update_file`, `delete_file`, lists and downloads |
| Lifespan | `main.py` | `app.state.parser_client`, the sync task | start, resync, serve, cancel |
| Database | `models/tables.py`, `database.py` | tables, foreign keys, row locks | one session per request, roll back on error |
| Settings | `services/settings_service.py`, `api/settings.py` | table `app_settings`, the process-wide `_cache` | `load_cache`, `upsert_setting`, batch update, notify the agent |
| Sessions and authorisation | `services/session_service.py`, `dependencies.py` | signed cookies | create, read, `require_auth`, `require_admin` |
| Accounts | `services/auth_service.py`, `api/auth.py` | table `users` | sign up, log in, create and update accounts |
| Pages | `api/pages.py`, `templates/` | none in the process; the table and the badges a browser shows | filtered, paginated lists; the pager; the badge that polls |
| Parser server (external) | called from the services | its own jobs and their status | parse, status, result, retry, delete |

How they interact: a request handler calls a service with a session of its own;
the services call the parser server and await its answer *inside* their
transaction; the sync task writes the same `parse_jobs` rows from its own session;
deleting a file deletes its job rows by a cascade; every component reads the
settings cache without awaiting; the parser server never calls back.

What is hard here:

* a **batch** of the sync task asks about all active jobs first and applies the
  answers afterwards, row by row, in one transaction that awaits downloads. Users
  start, fetch, retry and delete in between;
* a row the batch has changed is **locked** from the next statement on, until the
  batch commits; a row that was deleted before its change is flushed makes the
  flush fail and throws away the **whole batch**; a deletion locks the rows of its file one
  by one as well, so the two can **deadlock**;
* every call to the parser server may fail **after** it took effect;
* the bytes of a file and its row are changed in two steps, so are the parser
  server's job and its row: a **crash** or a failed commit separates them; and the row does not
  always say where the bytes are (`UPLOAD_DIR`);
* statuses that nobody synchronises any more (completed jobs) can be wrong for ever;
* a list is read **page by page**, each page in two statements, while others upload, rename
  and delete; the offsets count from the newest row, so every change moves the others;
* what a **browser** shows is older than the table: a pager offers the pages of the count it
  was made with, a badge stops asking for good on what it takes for final, a cookie carries
  a promise that the setting may meanwhile have changed.

What makes each part correct: a job row never shows what the parser server did
not do; settled jobs stay settled and deleted ones gone; a result path has an
archive; no row outlives its file; every active job settles and every request is
answered; startup ends. For settings: the cache is what the table says. For
the sync task: it polls for ever, at its interval, within its limit of concurrent
calls. For accounts: an address names one account, somebody can administer. For sessions:
nobody is let in longer than he was promised or than the table allows. For the lists:
whoever pages through one misses and repeats nothing but what others' changes explain. For
the badge: it never stops on a status that is still to change, and shows the end of a job.

## 2. The modules

**`ParseJobLifecycle`** is the abstract specification: one `stage` per job and the
edges it may follow. It knows nothing of files, batches, requests or faults.

**`ParsePipeline`** is the detailed one: parse service, background
synchronisation, upload and deletion, the tables, the disk and the parser server.
They are one module because each of them reads or writes the others' state between
two awaits; splitting it would hide exactly the interleavings that matter.

*State and code.* `files` and `rows` are the tables; `disk` the bytes of uploads and the
directory they are in, `uploadDir` the directory this process writes to; `zips` the archives; `parser` and `raptor` what the parser server itself holds; `aged` the rows
older than 24 hours; `server`, `client`, `restarts` the process; `req` the program
counter and locals of each request; `phase`, `batch`, `answer`, `heard`, `expired`
the locals of `_process_jobs_batch`; `draft` and `current` its session. A row keeps
the columns that decide something: `file_id`, `status`, `created_at`,
`retry_failure_count`, `raptor_status` and whether `result_path` is set.
`completed_at` and `error_message` are written and never read by the control, and
are left out. For `raptor_status` the value `finished` stands for `completed` and
`failed`.

*Steps.* What runs between two awaits is one action; an action is named after the
code it stands for (`BatchSelect`, `SyncOneJob`, `BatchRead`, `BatchDownload`,
`BatchCommit`, `BatchAbort`; `UploadWrite`, `UploadCommit`; `StartParse`,
`ParserAccepts`, `StartCommit`; `ResultRead`, `ResultDownload`, `ResultCommit`;
`RetryRead`, `RetryCall`, `RetryCommit`; `DeleteRead`, `DeleteJob`, `DeleteUnlink`,
`DeleteRow`, `DeleteFileRow`, `DeleteCommit`). `resync_pending_jobs` and a turn of `background_sync_loop` are the
same actions: while `server` is "starting", their end opens the server, as in
`lifespan`. The statement and the COMMIT of a handler are taken together (between
them the handler runs no code of its own), but for a deletion, which sends several statements.

*The bytes.* `upload_file` writes them to `UPLOAD_DIR`, but whatever that is, the row's
`stored_path` is "uploads/..." (`file_service.py:65`, `:74`; `StoredPath`). `start_parse` looks there,
and `delete_file` unlinks only what is there *and* inside `UPLOAD_DIR`, swallowing every exception
(`:223`-`:232`; `DeleteUnlink`, fault "unlink"). `UploadDirs` says which directories a run
tries: the default, or one elsewhere; a restart may bring the other.

*The session.* `draft[j]` is a row the batch has changed. The newest is
`current`: it lives in memory until the SELECT of the next row (or the commit)
flushes it, so other sessions may still change or delete that row; if it is gone
then, the flush finds no row (`Flushable` fails, SQLAlchemy raises
`StaleDataError`) and `BatchAbort` drops all drafts. The other drafts are flushed,
hence `Locked`.

*Row locks.* A deletion locks as it goes: after the bytes, the rows of the jobs it has read, in the
order of their ids (the order in which SQLAlchemy sends DELETEs), then the row of the file, then
what the database's own cascade finds (`DeleteRow`, `DeleteFileRow`, `Holds`). Each waits for
whoever has the row: the batch for its flush (`FlushWaits`), a handler for its UPDATE, a `start_parse` for the
file its row refers to (`FileFree`). `Awaits` is who waits for whom; where some wait in a circle (`InCircle`),
PostgreSQL aborts one of them, any one: `DeadlockVictim` is a deletion that fails with 500, `BatchAbort` a
batch rolled back. A circle needs somebody who holds one row and waits for another, so only the batch and
deletions can be in one.

*The environment.* The parser server runs a job from "pending" to "processing" to
"completed", "failed" or a status the application does not know ("other"); it
may run RAPTOR after completion. `Faults` says what may fail: "answer" (a call fails or
its answer is lost after it took effect), "commit" (the database aborts a
transaction), "lose" (the parser server forgets a job), "unlink" (bytes cannot be removed). `Restart` is a
crash at any point: requests and batch vanish, tables, disk and parser server stay. The new
process may or may not have a client (`client`), and keeps that outcome.

**`ParsePipelineProofs`** holds the inductive invariant, the theorems and their proofs.
**`MCParsePipeline`** extends it with the symmetry set and a bound for TLC, so that the runs can check
the invariant of the proofs too.

*Progress without fairness.* Liveness is beyond the proofs, but most of what makes it true is
not: that nobody waits for somebody who waits for him, and that work does not grow while it is
done. `BatchReady` and `Waits` say when the sync task and a handler can and cannot go on
(`GuardsExact`: that is exactly when their actions are enabled), `Unblocked` that whoever waits,
waits for somebody who can go on, and what a deadlock needs. `BatchLeft`, `StagesLeft` and `JobsLeft` bound the
steps still to come; `WorkShrinks` says that each step lowers them and nobody else's step raises them: not even
the rows the cascade will find, since nothing can be inserted for a file whose row a deletion holds. What is
left to fairness is that the event loop runs what is ready and that locks are given in turn. `SyncLoop` has the
same in `TaskReady`, `ReadyExact`, `StuckOnlyBySetting`, `KeepsGoing` and `BatchEnds`.

*Excluding an overlap.* Three properties fail for the code because two requests overlap at an
unlucky moment. For each there is a theorem that this overlap is the only cause: the two requests may
still interleave with everybody else, and everybody else with each other. `CarefulSpec` here leaves out a
`start_parse` that overlaps the deletion of its file, `SerialSpec` of `Settings` two saves of one
key; `AdminStays` of `Accounts` speaks of the behaviours without two overlapping updates.

**`PollHistory`** runs the pipeline together with an observer that no crash or rollback
touches: `misses` counts the failed queries of each job as they happen, `answered` are
the jobs that have answered in the batch under way, `forgotten` those of whose count a
success was lost with its batch. It asks whether the status "error" really means three
failures in a row. **`PollHistoryProofs`** has the theorem.

**`StatusBadge`** runs the pipeline together with the browsers that watch it: `badge` is the
job, status and RAPTOR status shown in the row of each file. `ShowRow` is a rendered table
(`file_row.html`), `GetParseStatus` the poll of `parse_status.html`, made under `Polls`, the
condition both templates have; `RetryAnswered` is the `RetryCommit` of a request that the page
sent, whose answer replaces the badge by that of the job retried, the latest when the request
began. The endpoint of the poll reads the table only (`parse_service.py:102`), so
a badge ends through the background task or not at all. A 404 is not put into the page, hence a
deleted file's badge stays. **`WatchedPipeline`** is the pipeline with both, badges and observer,
for one run; **`StatusBadgeProofs`** has the theorems about the badge and that composition.

**`Settings`** is the table `app_settings`, the cache that every component reads,
`update_setting`, `batch_update_settings`, and the copy of the chat agent, another
process that is told to drop it; `unheard` records that a request has ended without telling
it since the agent last read the table. A request is the states "select", "save", "refresh"
(`upsert_setting` before the SELECT, before the commit, after it), and "notify". Keys are
numbered in the order of `SETTING_DEFINITIONS`, in which the batch update takes
them; a form names some of them. `Value` is what users type, `Number` the part `int()`
accepts: `session_expire_hours` is parsed on every authenticated request and at the end
of a batch update. **`MCSettings`** gives TLC the defaults, **`SettingsProofs`** has the
theorems. **`SettingsRegister`** is what the settings promise to those who read them, one value
per key that is at most one save behind what is stored; `ImplementsRegister` says that table
(with the defaults for missing rows) and cache keep that promise. With one request at a time
they do, with two they do not: that is the divergence of `settings_cache`. What is left of the
promise for many requests is `KeysAreRegisters`: under `SerialSpec`, where no two save the *same*
key at once (`SavesOverlap`), each key for itself is such a register.

**`Sessions`** puts `Settings` together with the sessions whose length one of the settings
gives: a clock that counts hours, and for each browser its cookie, when it was issued and with
which `max_age`. The length is used twice, when a cookie is issued (`Login`; the browser obeys it
at `Tick`) and at each request (`GetSessionData`, from the cache as it is then). Every request
that changes a setting needs a session (`SettingsStep`), which closes the circle: who
saves a length nobody can have (a text; 0 or less, with which browsers drop the cookie at
once) has locked everybody out. Its steps are those of `Settings` or leave it alone, so its run
and its proofs include those of `Settings`. **`MCSessions`** gives TLC the defaults and
the hours; **`SessionsProofs`** has the theorems.

**`SyncLoop`** is the life of the background task: the startup batch, the turns of the
loop, the semaphore, the cancellation. It leaves out what a batch does to rows (that is
`ParsePipeline`) and follows the two settings the loop reads. `loop` is the place in
`background_sync_loop`; "spin" is the state in which `get_cached_int` raises on every
turn and the event loop runs nothing else, "dead" the end of the task by an exception.
`permits` is the semaphore, `bound` what it was made with. **`MCSyncLoop`** gives the
limits, -1 standing for every text `Semaphore(int(...))` refuses;
**`SyncLoopProofs`** has the theorems.

**`Accounts`** is the table `users`, the session cookies and the requests that create
and change accounts. A request is authorised from its author's row, reads its target,
looks the email up and commits, each a statement with other requests in between. An
UPDATE has the columns whose new value differs from the one *read* (`Written`), as
SQLAlchemy's unit of work sends it; the row of the author's own account is the object
the session already holds (`TargetRow`), not a fresh one. **`AccountsProofs`** has the
theorems.

**`ListPages`** is one of the two lists (`list`), read by one reader while others change it.
Rows are numbered by `created_at`, the time their transaction *began*; `Begin` and `Insert` are
that moment and the commit, so a row may turn up below newer ones. `match` are the rows that meet
the conditions on name, type and category, `cutoff` the rows too old for `date_range`, which time
moves on (`Expire`). A request is the two statements still to run: count, then page, in the
page handlers and `get_files` (`CountRows`, `PageRows`); page, then count, in the file
handlers that answer a change with the first page. `shown` is the table the reader has,
`Links` what its pager offers: the filters travel with a link, the page size does not. `walk`
(a reading of pages 1, 2, ... with one size and one filter), `late` and `shrunk` are history: what the
properties need to know of changes since the walk began, since the last count, since the count of
the table or the request. **`ListPagesProofs`** has the theorems.

How the modules meet: `Settings` says which values the other components may find
in the cache, at what moment; `SyncLoop` takes its two values from there
(`ChangeSettings` at any moment) and runs the batches that `ParsePipeline` details;
`Accounts` gives the users whose requests the other modules serve, `Sessions` for how long
they are let in. `StatusBadge` and `PollHistory` are compositions with `ParsePipeline`, `Sessions`
is one with `Settings`; `ListPages` sees of the others only that rows come, change and go.

Operators called *Variant* in a comment are wrong versions of the definition below
them (a dropped guard, an early count, a missing reset); no specification uses
them. They record that the properties notice such a change of the code.

## 3. What TLC checks

| Run | Instance | Checks | Shows |
|---|---|---|---|
| `races` | 1 file, 2 jobs, 2 requests (`upload`, `start`, `result`, `delete`; one deletion at a time), no faults | `RowsTruthful`, `ResultsBacked`, `JobsHaveFiles`, `Unblocked`, `GuardsExact`, `ImplementsLifecycle`, `WorkShrinks` | two handlers among themselves and with a batch of two rows, which a deletion can roll back or deadlock with; the refinement; who waits for whom, no work is put off |
| `crash` | 1 file, 1 job, 2 requests of any kind, both `UPLOAD_DIR`s, failing calls and commits, lost jobs, 2 crashes | `Inv` (which contains the types, `RowsTruthful`, `ResultsBacked` and `JobsHaveFiles`), `NoLostUpdates`, `PartingsExplained` | crashes and failures between any two steps; the invariant of the proofs; batch and handlers never overwrite each other; when bytes and row of a file part |
| `live` | 1 file, 2 jobs, 1 request of any kind, no faults, `FairSpec` | `ActiveJobsSettle`, `RequestsFinish` | progress against row locks, deadlocks and rolled back batches |
| `live_faults` | `WatchedPipeline`: 1 file, 1 job, 1 request of any kind, RAPTOR on, faults "answer", "lose" and "unlink", 1 crash, `WatchedSpec` | `StoppedBadgesRight`, `ThreeInARow`, `BadgesMoveForward`, `BadgesSettle`, `ServerStarts` | what a user sees of a job, how failures are counted, progress with failures |
| `settings_one` | `Sessions`: 2 keys, 3 numbers (0, 1 and 2 hours) and a text, 1 request, 1 browser, 3 hours, empty table, faults "commit" and "notify", 2 restarts | `TypeOK`, `CacheMatchesTable`, `AgentCatchesUp`, `AdmissionsInTime`, `NoWayBack`, `ImplementsRegister` | cache and agent follow the table whatever fails, readers at most one save behind; sessions end in time; the lock-out |
| `loop_settings` | 3 jobs, limits -1 to 2, numbers and texts as interval, `FairSpec` | `TypeOK`, `CallsBounded`, `StuckOnlyBySetting`, `ReadyExact`, `JobsPolled`, `ComesUp`, `StopsCleanly`, `BatchEnds` | polling goes on, shutdown ends, and for which settings |
| `accounts` | 2 accounts, 2 emails, 2 requests | `TypeOK`, `EmailsUnique`, `OwnStandingKept`, `LastAdminKept`, `AdminStays` | checks and writes in different statements; only overlapping updates can remove the last administrator |
| `pages` | 5 rows, 3 of them there at the start, page sizes 1 and 2, pages 1 and 2 from the URL, any from the pager, 2 deletions, updates or expiries | `TypeOK`, `NothingSkipped`, `NothingTwice`, `OfferedPagesFilled` | what a reader misses, sees twice or is offered in vain |

The four other runs (`raptor`, `untracked`, `settings_cache`, `loop_interval`) end with a
counterexample; see below.

*Bounds.* Two jobs are needed for a batch in which one row is locked while
another is read, in which one deletion rolls back another job's change, and for a deletion that has
locked one row and waits for another; a third would only repeat the second. Two requests give every pair of
handlers and every handler against itself; the third actor, the batch, is always there. Their kinds and
the jobs are shared out: `races` has two jobs without retries (which go the way of results) and with
one deletion at a time (`OneDeletion`, a constraint on the states explored), `crash` has one job and everything
else, two deletions of one file included. Two deletions that each hold one of two jobs are thus left to the
proofs. One file is
enough since handlers of different files share nothing but the batch.
From `MaxStamp` on, creation times are equal and the latest job is any of them: with 1, in `races`, every order
is possible, with 2, in `live`, the order is kept for as long as two times can tell it. Three failures end
a job, so `fails` needs no bound. `MaxRestarts` is the only
counter cut off; `Kinds` leaves `retry` out of `races` only. `GuardsExact` belongs
in `races`, without faults, since it speaks of what the code must be able to do and not of what may
fail; `Unblocked` and `WorkShrinks` are proved with all faults. Two jobs together with failing commits or
crashes are left to the proofs, which have no bound; `crash` checks their invariant on one job. So is
`ThreeInARow` with failing commits: they would make the jobs of its run never settle. With its one job
`live_faults` shows the part of `BadgesMoveForward` about statuses; the part about which job is shown
needs a second, which would make the graph with fairness too large for a run, and is proved.

For `Settings`, two keys are the least with which a batch update can stop half way, one of them
the key the requests themselves depend on; three numbers tell an old, a new and a
default value apart, one of them longer than the other and one of 0 hours; the clock outlasts the
longest. `settings_one` switches the deadlock check off: with a text in
`session_expire_hours` no request is ever authorised again, and once the hours are used up the
system does stop. For `ListPages`, pages of two rows are the least that a change can tear apart,
five rows fill three of them; the one insertion that begins before another and ends after it, and a
deletion during a walk, need two rows that come and one change, the second change lets an update
undo the first; `get_files` is asked for by a program that takes the pages in turn. For `SyncLoop`, three jobs are more than any of the limits; it may stop for good,
shut down, so its runs do not check deadlock. For `Accounts`, two administrators who work on each other
and on themselves are the case in which authority is lost between check and commit;
each of the two requests may create the second account, change it or its author.

*Fairness* (`Fairness`). The event loop runs every task that is ready, the HTTP
client and the database answer or time out, and PostgreSQL gives a lock to those who wait for it in the order
in which they came, so that later batches and deletions cannot take it before them for ever: strong fairness
of the batch and of each request in flight. That does not say whom PostgreSQL aborts in a deadlock, and users who
delete and delete again may deadlock with every batch: then a job can stay active for ever, which is the exception
of `ActiveJobsSettle`. Time passes (`Ages`). The parser server takes up what it
queued (`ParserPicksUp`): without it a job may stay pending for ever, because the
24-hour timeout applies to processing jobs only. Nothing obliges users to send
requests or the parser server to finish a job; `EagerSpec` adds the latter for the run
`raptor`, so that it cannot blame the parser server. In `SyncLoop` the event loop runs the task
and every call ends (`WF_vars(TaskStep)`), which includes the cancellation, but nothing
while the loop spins; saving settings, parsing and shutting down are never obliged. In
`StatusBadge` and `WatchedPipeline` an open page keeps asking (`hx-trigger="every 3s"`); `ShowRow`, which a user has to
ask for, is not obliged. `Settings`, `Sessions`, `Accounts` and `ListPages` state no liveness:
every request there waits only for its own statements.

### Disagreements between the code and what it says

Each is a run that TLC ends with a counterexample.

| Run | Claim | What the code does |
|---|---|---|
| `raptor` | "RAPTOR 상태 동기화" (`background_sync.py:113`), the background task keeps the statuses in step (`parse_service.py:102`) | only active jobs are selected (`:155`); RAPTOR runs after completion, so its end is never seen: the page polls a "processing" that stays |
| `untracked` | deletion removes the file's data on the parser server (`file_service.py:212`) | a `start_parse` waiting for `parse_pdf` has no row yet, so its job is not deleted; its insert then fails on the foreign key and nothing refers to the job any more |
| `settings_cache` | "refreshed on every write" (`settings_service.py:10`) | the cache is written after the awaited commit (`:335`): two saves can do the two in opposite orders, and the process works with a value the table does not have |
| `loop_interval` | "미완료 파싱 작업을 주기적으로 parser-server와 동기화" (`README.md:118`) | a poll interval that is no number makes the loop spin without awaiting (`background_sync.py:148`): the event loop is frozen; after a restart the task dies at `:143` |

Met while modelling, and visible as an exception or a hypothesis of a property rather than
as a run:

* the reset of `retry_failure_count` (`background_sync.py:107`) is lost with its batch, so
  failures that were not consecutive may end a job (the `forgotten` of `ThreeInARow`);
* with `UPLOAD_DIR` other than `uploads` (an environment variable, `README.md:40`), the row of a new file names a
  place where its bytes are not: it cannot be parsed, and its deletion leaves the bytes
  (`UploadCommit` and `DeleteCommit` in `PartingsExplained`). The tests point `UPLOADS_DIR` to a
  temporary directory and go round this by hand (`test_file_api.py:199`-`222`, `test_parse_api.py:37`-`48`);
* an unlink that fails is swallowed (`file_service.py:231`): the bytes stay, no row knows of them (the fault
  "unlink" there);
* a deletion that PostgreSQL aborts to break a deadlock with the batch has already removed the bytes and
  the jobs of the parser server: the file is still listed, but nothing of it is left (`DeadlockVictim` there);
* a failed automatic download (`background_sync.py:134`) leaves the job completed, and
  completed jobs are not selected again: only asking for the result fetches it
  (`ResultsBacked` holds, `result_path` stays empty);
* with `parse_max_concurrent_checks` = 0, `Semaphore(0)` (`background_sync.py:53`) lets nobody
  through and `lifespan` awaits the startup batch (the `limit # 0` of `ComesUp`);
* two administrators who demote each other at the same moment leave none
  (`LastAdminKept`: only a request whose author lost authority between check and commit can;
  `AdminStays`: none as long as updates do not overlap);
* `is_active` with a third text passes the guard, which looks for "false"
  (`api/auth.py:156`), and deactivates, since the assignment looks for "true" (`:173`):
  `FormValuesOnly`, what the page's form sends;
* a saved session length that is a text, 0 or negative is final (`NoWayBack` of `Sessions`):
  only a change of the table by hand lets anybody in again;
* a row that goes while somebody reads makes older rows move up past him (`f < walk.left` of
  `NothingSkipped`), one that comes between count and page can push rows onto a page that the
  pager does not know (`f <= late`), and a page past the last one shows an empty table,
  although there are rows (`~shrunk.table` of `OfferedPagesFilled`);
* the pager forgets the page size (`request.size = shown.size` there);
* `max_upload_size_mb` saved as a text makes every upload and the file page fail
  (`file_service.py:49`, `api/pages.py:97`), until it is corrected on the settings page;
* an account whose id is another's email makes the login statement find two rows for that
  text, and neither gets in by it (`Login` demands that exactly one account matches);
* a badge can turn back to an older job: the answer to a `retry_raptor` brings the job that was the
  latest when the request began, although another may have been started during its call. That job
  is completed and shown as running RAPTOR, so the badge polls, and the next poll corrects it
  (the second line of the last conjunct of `Forward`).

## 4. What is proved

For all constants satisfying the assumptions (any number of files, jobs
and requests, any faults, any number of crashes), `ParsePipelineProofs` proves

* `Invariance`: `Spec => []Inv`, and from it `TypeCorrect`, `TruthfulRows`,
  `BackedResults`, `NoOrphanRows`: the type invariant and the three safety
  invariants of the runs;
* `PipelineImplementsLifecycle`: `Spec => Lifecycle!Spec` under the mapping `Stage`.

*Why the invariant is what it is.* `RowsTruthful` speaks of committed rows, but a row is
committed from a draft, a draft is made from an answer, and the answer is older than
both. So `Inv` follows the answer on its way:
`AnswersHold` (an answer in hand was true and, since the parser server's statuses only
move forward, still allows what the row will say), `BatchOnActive` (rows of a batch
still to be read are active: only the batch ever writes a status),
`DraftsSound` (a draft is an `Onward` version of the row under it and is earned
already), `LocksHold` (a flushed draft's row is still there, since the deletion
waits), `LocksExclusive` (no deletion has a row that is locked, so that it cannot commit past the batch), `ActiveCountable` (active rows have failed fewer than three times) and
`HandlersOnCompleted` (handlers only hold completed jobs, so they and the batch never
write the same row). `InsertsFresh` says that a job about to be inserted has no row;
`JobsHaveFiles` needs it and the foreign key. Induction then goes action by action;
`NextInv` collects the lemmas.

* `PartingsHaveCauses`: `Spec => PartingsExplained`, for any faults, restarts and directories. Bytes and
  row of a file agree (`Agree`) before and after everything a handler does, but for the causes the property lists.
  The invariant (`HandlersOnDisk`) says of each upload and deletion under way which of the two steps it
  has made; `DiskSteps` says which steps touch the disk or the table of files at all.

* `OnlyOverlapsLeaveJobs`: `CarefulSpec => []NoUntrackedParserJob` where neither calls nor commits fail and
  nothing crashes (each of these leaves a job behind by itself: a `delete_job` that fails is only
  logged, a process that dies after `parse_pdf` has stored no row). The invariant says that a deletion has each
  job of its file still on its list or gone (`DeletionsThorough`), which only a `start_parse` of the
  same file could spoil by inserting after the list was read, and that a `start_parse` under way has its file
  (`StartsServed`), so that its insert succeeds.
* `NobodyStuck`: `Spec => []Unblocked`. An asked job exists on the parser server and a download is of the
  current row, so the batch waits for nothing but a lock. What a request waits for or holds is of its own file
  (`OnItsFile`, `WantedOnFile`, `HeldOnFile`), a draft is locked only while a batch is applied. `CirclesNeedTwo`: of two
  deletions of different files neither waits for the other, and a handler that updates holds nothing, so in a
  circle a deletion is next to the batch, which has one row and waits for another one, or to a second deletion of its file.
* `WorkEnds`: `Spec => WorkShrinks`. `BatchShrinks` and `RequestShrinks` show that the measures go down with
  their owner's steps, `BatchNotPutOff` and `RequestNotPutOff` that others do not raise them;
  `CascadeTakesNoMore` that no row is added to a file whose row is being deleted. That these are
  finite numbers is itself an invariant (`FiniteWork`: only finitely many rows are ever stored), so neither
  `Job` nor `Request` need be finite.
* `BatchesLoseNoUpdates`: `Spec => NoLostUpdates`. The newest draft of a batch is not locked yet: what keeps the
  handlers from writing its row is not the lock, but that they only hold completed jobs
  (`HandlersOnCompleted`) and a batch only drafts active ones.
* `RaptorShownForGood`: a completed job that the table shows with RAPTOR running stays so until its row
  is deleted. The run `raptor` shows one such behaviour; this says that there is no way out of it.

The refinement needs two more facts: which rows a step may change (`RowsWritten`,
`RowMoves`) and that a job without a row that is not about to be inserted can never
come back (`InsertsBegin`, `ComingEnds`).

*Settings.* `CacheFollowsTable`, under `SerialSpec`, for any number of requests: the invariant adds
that the row a request has selected is still so at its commit, and that a request in "refresh" has just
written what it will put into the cache. Requests that save other keys touch neither. With two that save
the same key both are false, which is the run `settings_cache`. `AgentFollowsTable`, for any number of requests and any faults: a request
that has committed anything either still has its notification before it or has ended
without one and is recorded in `unheard`. `SettingsImplementRegister`, for one request at a time:
a commit needs cache and table to agree before it (a request in "save" is not in "refresh", so
`CacheFollowsTable` gives it), the refresh and a restart restore that, and no other step touches either.
`KeysImplementRegisters` is the same key by key, under `SerialSpec` and for any number of requests: nobody else
is in "refresh" with that key when it is committed.

*SyncLoop.* `CallsStayBounded`: jobs asking plus permits left are what the semaphore was made
with, and a job never waits and asks at once (without it an acquired permit could leave
the number of asking jobs as it was, and the sum would be lost).

`SyncLoopTypeCorrect` follows from the same invariant. `OnlySettingsStopTheLoop` adds where the task is in
each state of the process (`TaskInPlace`): a batch with nobody asking has all its permits, so only a limit of
0 can stop it; a frozen loop has read a text, and while it is frozen nobody can change it.
`NumbersKeepTheLoopGoing` follows for settings that are usable all the time: there the liveness of the runs
asks no more than fairness adds; `BatchesEnd` says for finitely many jobs that a batch does not go on for ever.
`StandstillsLast`: who stands still makes no step (`StepsNeedReady`), and no step of the others changes why, but
the shutdown. So a setting that stops the task cannot be repaired by saving it again: the process has to go.
`NumbersStopCleanly` is the safety half of `StopsCleanly`: with a number as interval the
loop is neither frozen nor dead, and the shutdown finds no exception to pass on.

*PollHistory.* `ThreeFailuresInARow`, for all faults and crashes: the count of an active
row never exceeds the failed queries in a row that the observer has counted, unless the job has
answered in the batch under way or a success of it was lost (`CountInv`). A draft may be ahead of its row by the failure of the batch under way, which
the observer has seen already, or reset, which it has seen too.

*StatusBadge.* `StoppedBadgesStayRight` and `BadgesOnlyMoveForward` rest on one invariant: what a badge shows
is of its file and never ahead of the row (`Showable`), and a `retry_raptor` works on a job of its file
(`RetriesAtHome`). It is kept since rows move only along the edges of the lifecycle, on which the rank of a
status grows (`MovesClimb`, from `RowMoves`, the lemma of the refinement), and stay with their file
(`RowsKeepFile`). What is rendered comes from the latest job, hence is no older than what is shown
(`RenderedForward`); for the answer to a retry only the statuses can be compared (`AnsweredForward`).
`WatchingIsHarmless`: each behaviour of `WatchedPipeline` is one of the badges, one of `PollHistory` and
one of the pipeline, so nothing its run checks comes from an observer in the way of another;
`WatchersAgree` has the safety properties of the run for the composition.

*Sessions.* `SessionsEndInTime` and `LockedOutForGood`, as long as no two requests save the same key at
once (they need what `CacheFollowsTable` shows, and with an overlap fail as it does), for any number of
requests and browsers, any lengths, restarts and failures. The lock-out needs besides that no request is
between authorisation and commit. `SessionsImplementSettings`: sessions only hold requests back, so every
behaviour is one of `Settings`, and of its `SerialSpec` where no two save one key at once; by it
`SettingsBesideSessions` has everything proved of `Settings` for the composition that the run checks.

*ListPages.* `ListsSkipNothing` and `ListsRepeatNothing`, for any number of rows, page sizes,
pages and changes. A walk of p pages of
size s has passed p * s rows, and `WalkInv` measures them by how many newer rows there are *now*: a
row listed all the time was seen, or is older than one that went, or has at least p * s newer ones;
a row that was seen has fewer, or is older than one that came. `RequestInv` relates the count of
an answer under way to its page (nobody is further down than the count tells, unless pushed by a row
that came in between), `ShownInv` carries that to the table shown: whoever is unread then has
a page that the table offers. The lemmas about `Above` say how one row that comes or goes moves the
others.
`OfferedPagesHaveRows`, as generally: `OfferInv` says that unless a row went the count of the table shown
(and of the answer under way, after its count) is at most what is listed *now*, under the present
cutoff, and that an offered page is within that count. The row on it exists because every place is taken
(`PlaceTaken`): "how many are above" is an injection of the list into 0..n-1, hence onto it.

*Accounts.* `EmailsStayUnique` and `AccountsTypeCorrect` for any number of requests. `authenticate_user`
looks for its text in two columns, which nothing keeps apart. `LoginsClashInPairs`: it finds more than one account
only when the text is the id of one and the email of the other, so a clash locks out two at most;
`LoginsFindEverybody`: where no id is an email, everybody is found by both texts and nobody else is.
`OwnStandingStays`, also for any number: a request about one's own account asks for the
standing its row has (`OwnRequests`), hence its UPDATE does not touch those two columns,
and what others have changed meanwhile stays. It assumes `FormValuesOnly`, the two texts
of the page. `LastAdminStays` follows from it: an author who is still an administrator at
the commit remains one. `AdminSurvives`: while updates do not overlap, the author of one is an administrator
from the check to the commit (`AuthorsAdminister`), since only another update could change that, so an
administrator always remains, whatever signups, logins and new accounts go on meanwhile.

*Assumptions.* `KindsAssumption`, `FaultsAssumption`, `UploadDirsAssumption`, `BoundsAssumption`, `JobAssumption`
(ids can be compared), `PartyAssumption` (no request is called "sync") and `NullAssumption` only give the constants their types. `MaxStamp` may be anything. `KeyAssumption`, `ValueAssumption`,
`InstanceAssumption`, `SettingsAssumption`, `AccountsAssumption`, `SessionsAssumption` and
`SizeAssumption` do the same for the other modules; the stronger hypotheses (`OneWriter`, `FormValuesOnly`, which calls may fail) are stated in the theorems that need them.

*Only proved.* `OnlyOverlapsLeaveJobs`, `RaptorShownForGood`, `NumbersKeepTheLoopGoing` and `NumbersStopCleanly`
(whose statements `JobsPolled`, `ComesUp` and `StopsCleanly` presuppose), `StandstillsLast`, the two theorems
about logins, `BadgesOnlyMoveForward` for more than one job, and what `CacheFollowsTable`, `SessionsEndInTime`,
`LockedOutForGood`, `KeysImplementRegisters` and `SettingsBesideSessions` say of several requests, have no run
of their own: the run `settings_one` has one request.

*Only model-checked.* Everything about liveness, which is beyond the proof system
(`ActiveJobsSettle`, `RequestsFinish`, `BadgesSettle`, `ServerStarts`, `JobsPolled`, `ComesUp`, `StopsCleanly`);
the theorems about progress above are the part of it that needs no fairness. `GuardsExact` and
`ReadyExact`, which speak of `ENABLED`. There are no recursive definitions, so
nothing is left to an induction over data.

## 5. What is not modelled

* `download_file`, `get_file` and the pages without a list: they only read.
* In the lists: rows with one `created_at` (their order within a page is the database's), a role or
  an owner that changes during a walk, several requests of one reader at a time, whose answers
  could arrive in another order than they were sent.
* `seed_defaults` and `reset_to_defaults`: no caller.
* Passwords, display names, `session_version` (nothing ever changes it) and the text of any message.
* A directory `UPLOAD_DIR` around `uploads/` (its parent, say), for which the check of `delete_file` lets
  paths pass that no upload wrote; locks that PostgreSQL takes beyond rows.
* The connection pool (30 connections): the sync task and each request hold one
  while they await the parser server; more than 30 requests at once are not looked at.
* The parser server, the chat agent and the browser beyond what the code sees of them; they are
  external.
* The rest of the templates, styles, migrations, container files.

## 6. Plan

Done: lifecycle, pipeline, poll history, status badge, settings, sessions, sync loop, accounts, lists,
with their proofs. What is left, in this order:

1. The connection pool as a bound on concurrent requests, for the waiting cycles of
   batch, downloads and deletions.
2. `UploadStream`: reading an upload up to the size limit, its failures, and the limit
   changed meanwhile.
