# SF tracking, in TLA+

A verification project for the SF Express tracking desktop app under `src/`: a FastAPI
backend (`src/backend/app`) that a launcher (`src/backend/launcher.py`) runs on the
user's machine, and a React page (`src/frontend`) in the user's browser. The modules here
model its concurrent and stateful parts, from the page to the database; TLC checks them on
small instances, and TLAPS proves the safety properties of every stateful part, for every
value of its constants.

Paths below are relative to `src/backend/app` unless they begin with `src/`.
`PROJECT.json` maps each definition to the lines it models, lists the runs, the mutants
that show each property can fail, the hazards and the theorems.

1. [The system](#1-the-system)
2. [The modules](#2-the-modules)
3. [The runs](#3-the-runs)
4. [The proofs](#4-the-proofs)
5. [Where the code and its words disagree](#5-where-the-code-and-its-words-disagree)
6. [What is left out, and why](#6-what-is-left-out-and-why)
7. [The plan](#7-the-plan)

## 1. The system

One process. uvicorn's event loop runs the `async def` handlers, the shutdown monitor and
the tasks that wait for Lite jobs; the plain `def` handlers run on a thread pool; every
Lite job has a worker thread, which has a pool of up to three threads that post to SF;
APScheduler runs the polling job on a thread of its own. The threads share four in-memory
objects, each with its lock or none, a directory of result files, three files of settings,
and a SQLite database. The user may start the app twice: two copies share the port, the
files and the database.

```
  browser tabs --HTTP--> routers/runtime --> RuntimeSessionStore
       |                       |                    |  has_sessions
       |                       v                    v
       |                 ShutdownCoordinator <---- monitor (every few seconds)
       |                  |     ^ on_job_state_changed      |
       |     has_active_jobs    |                           | request_shutdown
       |                  v     |                           v
       +--HTTP--> routers/lite: LiteJobStore          launcher: server.should_exit
       |             | worker thread
       |             +--> LiteService --> pool --> SFClient --> SF
       |             +--> LiteResultStore --> files (10 minutes)
       |
       +--HTTP--> routers/uploads, trackings --> UploadService, TrackingService --> SF
       |                                             ^             |
       |                      scheduler --> PollingService         v
       |                                                   SQLite (trackings, events,
       +--HTTP--> routers/settings, export --> SettingsService --> keys, mappings)
                                               ExportService   --> .cipher.key, presets,
                                                                   app settings: files
```

| Component | State | Operations | What is hard | What makes it correct |
|---|---|---|---|---|
| Runtime sessions (`services/runtime_session_store.py`) | id -> `last_seen_at`, under a lock | start, heartbeat, end, reap the stale | clocks are read before the lock; tabs die without a goodbye | reaped only when silent; silent ones do not stay for ever |
| Shutdown coordinator (`services/shutdown_coordinator.py`) | four flags and a deadline, under a lock | evaluate, cancel, schedule, defer, request, snapshot | the monitor, handlers and job threads all evaluate; session count and clock are read before the lock | never ends the app under a live tab; requests once; honours the grace period; does not forget a deferred end; ends at last |
| Lite jobs (`services/lite_job_store.py`, `routers/lite.py`) | id -> status, counts, expiry, under a lock | create, run, progress, complete, fail, expire | worker and page race; callbacks into the coordinator | progress never falls; counts add up; every job ends |
| Lite results (`services/lite_result_store.py`) | a directory a job: meta, result, cached exports; **no lock** | save (with cleanup of what expired), download | every file operation interleaves with other saves and downloads; crashes | kept until it expires, not served after; downloads are whole |
| Lite run (`services/lite_service.py`) | locals of the worker; the pool | choose sheet and columns, deduplicate, query in batches, join | batches end in any order, fail one by one | every row gets its own answer |
| SF client (`services/sf_client.py`) | none | post with retries, classify answers | the last attempt, errors that are not retried | one end per batch |
| Status of a route (`services/lite_status_mapper.py`, `services/status_mapping_service.py`) | the mapping table | latest route, status of a route | list order, ties, missing times | the two modes agree on what happened last; the most specific mapping applies |
| Tracking refresh (`services/tracking_service.py`) | SQLite rows and events; the session's own copies | refresh selected, all, pollable | sessions overlap; a batch fails half-way; a flush conflicts | what is reported is stored; a row is what one answer makes of it; sessions end |
| Uploads (`services/upload_service.py`) | batch status, orders, relations | confirm | two confirmations; a crash before the refresh | all of an upload or nothing |
| Polling (`services/polling_service.py`, `core/scheduler.py`) | a row a run | run | fails before it asks | a scheduled poll asks SF |
| API keys (`services/settings_service.py`, `utils/crypto.py`) | a table; a file with the key of the cipher | create, update, test, delete | a request reads rows, decrypts or asks SF, and then writes; the cipher's key is made at first use | the key the user chose is the active one; secrets can be read; a key keeps its own |
| Presets, polling settings (`services/export_service.py`) | two files | list and create; overwrite | read, changed and written whole, without a lock; crashes | no preset is lost |
| Status mappings (`services/status_mapping_service.py`) | a table | seed at start, replace | two copies start at once | the defaults once, never beside the user's |
| Launcher (`src/backend/launcher.py`) | the port; a thread that opens the browser | attach, wait, start | copies race for the port; a server about to stop, or slow | one server; every user gets a page or an error |
| Browser tab (`src/frontend/src/components/LayoutShell.tsx`) | the session's id, requests under way | start, beat, end on leaving | requests overlap; the tab closes, freezes, reloads | the session is there while the page is, and not for ever after |
| Lite page (`src/frontend/src/pages/LitePage.tsx`) | the active job, what it knows of it, notices | analyse, run, poll, download, reset | answers in any order; a restarted server; reloads | a running job is in sight; an end is learnt, and told once |
| Dashboard, admin, exports' layout | none | read-only queries, formatting | nothing | - |

`PROJECT.json` lists twenty-one components with their sources and status, and forty
hazards, each at its line with the properties that watch it.

## 2. The modules

| Module | Models | Checked in |
|---|---|---|
| `RuntimeShutdown` | session store, coordinator, job activity, their threads | `MCRuntimeShutdown` |
| `ShutdownPolicy` | abstract: what the coordinator promises about the end of the app | refined by `RuntimeShutdown` |
| `RuntimeShutdownProofs` | theorems about `RuntimeShutdown` | TLAPS |
| `Desktop` | copies of the launcher, the server one of them becomes, the pages they open | `MCDesktop` |
| `DesktopProofs` | theorems about `Desktop` | TLAPS |
| `LiteResults` | result files, expiry, downloads, crashes | `MCLiteResults` |
| `LiteResultsProofs` | theorems about `LiteResults` | TLAPS |
| `LiteRows` | rows of a sheet: deduplication, the list of queries, the joined response | `MCAlgorithms`, and in `LiteFetch` |
| `LiteRowsProofs` | theorems about `LiteRows` | TLAPS |
| `LiteFetch` | one job: worker, batches, pool, retries, progress; extends `LiteRows` | `MCLiteFetch`, in `MCLite` |
| `LitePage` | the page that starts, follows and downloads jobs | `MCLite`, with `LiteFetch` |
| `LiteJobProofs` | theorems about `LiteFetch`, `LitePage` and the two in `MCLite` | TLAPS |
| `TrackingRefresh` | uploads, refreshes and polls as database sessions over SQLite | `MCTrackingRefresh` |
| `TrackingRefreshProofs` | theorems about `TrackingRefresh` | TLAPS |
| `Settings` | API keys and their cipher, presets, polling settings, status mappings | `MCSettings` |
| `SettingsProofs` | theorems about `Settings` | TLAPS |
| `RouteStatus` | latest route and status, in both modes | `MCAlgorithms` |
| `SheetColumns` | detection of columns, choice of the sheet | `MCAlgorithms` |
| `AlgorithmsProofs` | theorems about `RouteStatus`, `SheetColumns` and `MCAlgorithms` | TLAPS |

Definitions named `X_Something` right before `X`, commented "a slip" or "Mutant", are
deliberately wrong versions of `X`: putting one in its place makes a property fail, which
is how we know that the property depends on that line of the code. They are used nowhere
else.

### RuntimeShutdown

A thread has a program counter `pc` and the locals that outlive a step: the session id it
handles (`sess`), the clock it read (`at`), the session count it read (`has`), and when
it began (`began`). A step is a critical section, or an unlocked read before one: the
coordinator touches only one other object under its lock, and that under a leaf lock, so
each critical section is atomic by reduction.

* start: `StartBegin` (id and clock, no lock), `StartPut`, `StartCancel`; heartbeat:
  `HeartbeatBegin`, `HeartbeatPut` (404 if unknown), `HeartbeatCancel`, `Snapshot`; end:
  `EndSession`, and an evaluation if a session was removed.
* `_evaluate` is `ReadHasSessions`, `ReadNow`, and one of `AlreadyRequested`,
  `SessionRestored`, `Schedule`, `StillInGrace`, `DeferForJobs`, `RequestShutdown`; after
  the lock, `CallRequestShutdown`.
* the monitor is `MaintenanceBegin`, `CleanupStale`, an evaluation; it runs on the event
  loop, as do the creation and the failure of jobs (thread `Loop`). A job's worker thread
  is named by the job. Every change of a job is followed by an evaluation in its thread.
* `StopServing` is uvicorn (external): `should_exit` set, requests in flight done.
* `Tick` advances the clock, unless some call has lasted `STALL` or the monitor is late by
  that much: this is the only timing assumption. The machine is not suspended and the
  event loop is not blocked for longer.
* `confirmed`, `alive_at` and `left_at` are history variables, read by properties only.

`ShutdownPolicy` knows only a phase and a due time. `RuntimeShutdown` maps its flags and
`stopped` to the phase, its deadline to the due time, and implements it
(`ImplementsPolicy`, checked and proved).

### Desktop

The world around that server: launchers, browser threads, tabs. The server's own decision
is taken from `ShutdownPolicy`, so that the clock and the threads of `RuntimeShutdown` need
not be repeated: `server.phase` is running, pending, requested or down. Time is abstracted
to what matters: a page is `due` if the server will hear of it within the grace period,
because the page was awake when the period began (a heartbeat is sent every 15 s, the
period lasts 30 s); a session may be found stale only if its tab does not send
heartbeats. A job does nothing here: it only delays a shutdown, which `RuntimeShutdown`
shows.

`Probe`, `Await`, `AwaitPort`, `AwaitEnds` are `try_attach_to_existing_server`, `Check` and
`Bind` the rest of `main`, `OpenBrowser` the browser thread. Every question to a server may
be answered late, which counts as no server. A session's id is a UUID: `NewSession` is one
that no page, server or call knows, out of `SESSIONS`. A tab's `start` and each of its heartbeats is
sent, handled and answered in separate steps, so a page may send a second heartbeat, its
end, or be gone in between. `happened`, `shown` and `silent` are history: the properties
say in which of these circumstances a user may be left without an answer or a server with
a session that no page holds. Left out: a foreign program on the port.

### LiteResults

A step is one file operation. A file is "torn" from its opening to its closing, and stays
so if the process dies. Saving lists the directories, removes each one whose `meta.json`
cannot be read or has expired (files, then the directory), makes its own, writes
`meta.json` and `result.json`, drops the cached exports, and completes the job's record. A
download checks `meta.json`, twice if the export is not cached, and reads or writes the
export. `deletes_open_files`, chosen in `Init` with the other traits of the machine, tells
POSIX from Windows: what `rmtree` and `unlink` do to a file another thread is writing.
Reading a file is one step, so a file that is being read can be deleted in the model on
Windows too. Where open files can be deleted, a deleted
file that its writer still has open must not be confused with a new file of the same
name: those machines have one download at once.

### LiteRows, LiteFetch

`PrepareContent` is the pass over the rows, as recursive functions of the number of rows
read; `BuildRunResponse` the join with the answers. `LiteFetch` runs one job: the worker submits its batches (it may sleep between
two) and collects them as they complete, in any order; the pool's threads take them in
order. Each attempt ends in an answer with routes of some of the numbers (`Routed`), one
that cannot be mapped (`Unmappable`), a refusal (`Refused`), an unexpected error
(`Broken`), or a failure that is retried (`Retry`) until it is final (`Exhausted`). `Fail`
is every way the worker itself raises: an unreadable file, no order column, no active key,
a save that fails. The record's counts are those the page polls. Jobs share nothing but
the store, so an instance has one. `progress_percent` divides integers where the code
truncates a float: below 100 it may differ by one, and it is 100 in the same states.

### LitePage, and MCLite

The page's state is a record: file, active job, what the last poll said, result, notices.
`Reset`, `ShowExpired`, `Created`, `Polled`, `Reloaded` are the functions and effects that
change it, and each handler of an answer uses one of them. The requests under way (analyses,
a creation, a poll, a download) are answered in any order; a poll for a job that is not the
active one any more goes to React Query's cache, unseen. `Restart` forgets the jobs but not
the files; `Reload` keeps what the session storage keeps. `forgot` is history: the four
ways in which the page loses sight of a job.

The two ends of a job meet in its record alone, of which the page sees the status, and
`LitePage` lets a job's status change in every way that `LiteFetch` allows. `MCLite` is
therefore not a product: a behaviour of `BothSpec` is one of the worker's (`end = "worker"`)
or one of the page's, each with its own fairness.

### Settings

A handler thread reads a row, decrypts it or waits for SF, and commits later; `task[t]` is
its locals: the row it has `read`, the `others` that `_deactivate_existing` has loaded, the
`cipher` key it is going to encrypt with. A commit writes the columns that differ from what was
read (`Updated`), as SQLAlchemy does; an id may be given again (`freed`), as SQLite does. A
deletion (`DeleteBegin`, `CommitDelete`) deletes by the id of the row it has read, which by
then may be gone or be another key's. A file is `empty` from `Open` to `Write`, and a second
writer may leave it `garbled`; `Crash` leaves it as it is. `KeyExists`, `KeyRead` and the two
steps of a write are `_load_or_create_key`, before each use of the cipher; `PresetsExist` and
`PresetsRead` are `_load_presets`. `Start` and `Serve` are a copy of the app that comes up and
seeds the mappings.

Keys, files and mappings share nothing, so a behaviour changes one of these areas: `area`
is chosen in `Init`. `tangled`, `broken`, `alone`, `chosen`, `given` and `freed` are
history: which requests overlapped and what the user asked for last.

### TrackingRefresh

Each thread does a request in a SQLAlchemy session of its own, a record: the rows it has
in memory (`base`, the values loaded, and `work`, those assigned since), the events it is
going to insert, and where it is in its batches. A flush writes the columns that differ
from `base`, so sessions that overlap mix their columns (`Merged`); nothing is flushed on
its own account (`autoflush=False`), so a row or an event that the session has just added
is not found by its next query, is added again and clashes. SQLite gives readers what is
committed and lets one session write at a time: `lock` and `tx`, its uncommitted draft.

`ConfirmBatch` reads the batch, `StoreRows` is the rest of the confirmation, which holds
the write lock from its first statement to its commit. `Ask` is SF's answer or failure;
what SF says of a number is chosen when the code comes to it (`RecordEmptyRoute`,
`SelectTracking`, `SelectEvents`, `ApplyLatestEvent`). Between the look for a number
(`SelectTracking`) and its insertion (`InsertTracking`) another session may have inserted it:
the flush clashes. A request's numbers are `unique_numbers`, so no number is twice in a
batch. Where the code goes through the rows of
a query without an order, or registers the affected numbers of an upload in a set's order,
the order is left open (`Affected`, `RefreshPollable`). `RecordFailures` is the `except`
clauses, which mark every number of the batch and use the session as it is: after a failed
flush they raise again (`Raise`), the session is rolled back and a polling run is left
"running". `CommitBatch` ends a batch, `Finish` the request. `Crash` forgets all that is
not committed. `overlapped` is history: numbers two sessions had in memory at once.

Left out of it: retry counts and other totals, when the scheduler fires, SQLite's five
seconds of patience for the lock (a thread waits until the lock is free), the parsing of
uploads.

### RouteStatus, SheetColumns

Pure functions. A remark is the set of the phrases the Lite mapper looks for that it
contains; a heading its text with its normalized form. `StoreRoutes` says which routes of
an answer become events and which update one, `LatestEvent` and `LatestRoute` which is
the latest in either mode, `MapStatus` which row of the mapping table applies. The loops
of the code (`StoreRoutes`, `MapStatus`, `SelectSheet`) are functions of how many passes have
been made, each by an operator of its own (`Store`, `Try`, `TrySheet`).

## 3. The runs

Twelve runs; every property of a passing run has a mutant in `PROJECT.json`.

| Run | Instance | Shows |
|---|---|---|
| `runtime_sessions` | 2 handlers, 2 sessions, no job, clock to 12, a grace period of 5 | the inductive invariant `CoordinatorInv` (with the types and `RequestedOnce`), `NoShutdownUnderSession`, `ImplementsPolicy`, `AliveAnswerBuysGrace`, `ReapedOnlyWhenSilent`, `GraceAfterLastSession` |
| `runtime_ends` | fair, 1 handler, 1 session, 1 job, clock to 16, users silent from 3 | `DeferredShutdownHasADriver`, `EventuallyStops` |
| `runtime_active_job` | 1 handler, 1 session, 1 job | **violated**: `StopsWithoutActiveJobs` (section 5) |
| `desktop` | fair, 2 launchers and a server killed, or 1 launcher and 2 mishaps of any kind | types, `EveryLaunchIsAnswered`, `OrphansHaveACause`, `NoPageIsStranded`, `AbandonedServerStops`, `PagesReconnect` |
| `results_all` | 2 jobs and 1 download, or 1 job and 2 downloads, on POSIX or Windows, 1 crash | `KeptUnlessSavesOverlap`, `DownloadObeysExpiry`, `CutShortOnlyByAnother` |
| `result_lost` | 2 jobs | **violated**: `ResultKeptUntilExpiry` |
| `download_torn` | 1 job, 2 downloads | **violated**: `DownloadsAreWhole` |
| `lite_jobs` | fair; the worker: 4 sheets, 3 settings; the page: 2 files, 2 jobs, 1 restart or reload | types, `EveryRowHasItsAnswer`, `ProgressNeverFalls`, `WorkerEnds`; `JobsAreInSight`, `NoticedOnce`, `ResultLeavesForAReason`, `PageSettles` |
| `algorithms` | sheets and route lists of up to 3, tables of 3, 4 headings, 3 sheets | `RowsAreCountedOnce`, `LatestRouteIsCertain`, `MostSpecificMappingWins`, `OrdersAreFound` |
| `trackings_all` | fair, 2 threads, 2 numbers, 2 events, 2 requests, 1 crash | types, `UploadsAreStoredWhole`, `QuietRowsAreCoherent`, `RefreshedMeansStored`, `EverySessionEnds` |
| `polls_fail` | the same | **violated**: `PollsAskSF` |
| `settings` | 2 handlers, 2 starters, 4 requests, 2 starts, 1 crash, in each area | types, `ActiveIsChosen`, `SecretsAreReadable`, `KeysKeepTheirOwn`, `PresetsKept`, `MappingsNotMixed` |

### Bounds, and why they are enough

* `RuntimeShutdown`: `GRACE`, `STALE`, `MONITOR`, `STALL` keep the order the settings
  have (a call is much shorter than the others), scaled to a few ticks (defaults: grace
  30 s, stale 90 s, monitor 5 s); `QUIET` is when the users stop, `HORIZON` when the clock
  does. Two handlers and the monitor make three evaluations race; a third handler adds no pair of
  critical sections. Two sessions are the least for "the last one leaves".
  `GraceAfterLastSession` allows `MONITOR + 3 * STALL` less than a grace period: a schedule
  that a blind evaluation made stands until the next evaluation, at the latest the
  monitor's.
* `Desktop`: two launchers are the least that race for the port or meet each other's server.
  `SESSIONS` 14 is more than all pages, beats and calls can know of, so an id is always
  free. Three launchers reach one thing more, a launcher relayed to a third copy's server
  (section 5); the theorems cover any number.
  The days with one launcher have two heartbeats under way and two mishaps: a tab that
  sleeps, is left and comes back, or reloads, or a server that is killed, in any pair.
* `LiteResults`: `TTL` 2, `HORIZON` 4 let a result expire and another outlive it;
  `STALL` 1 lets a result expire in the middle of a download. Two workers, or two
  downloads, are the least that race; `CRASHES` 1 leaves every kind of torn file behind.
* `LiteFetch`: the sheets have repeated pairs, blank numbers, one number typed two ways, a
  last batch that is not full, no numbers at all. The settings have 0 for what must be at
  least 1, more than the cap, a last attempt.
* `LitePage`: two files and two jobs are the least for the wrong job, the wrong file, or an
  older result; one break is a restart or a reload in any state.
* `Settings`: two threads overlap in every pair of steps (three overlapping requests are
  only more tangled, which the properties exclude). With four requests two keys are created and
  both changed, or one deleted and its id given again, also while another request, a second
  deletion included, is on its way with that id; two starts and a crash make a copy start
  beside another or after a torn file.
* `TrackingRefresh`: `BATCH` 2 with two numbers makes a batch in which one number fails
  after the other is done; two sessions make every overlap; the events are one that is
  terminal and one that is not; `REQUESTS` 2 gives every pair of requests, in one thread or
  in two; one number has been confirmed before, the other is new.
* `MCAlgorithms`: three routes make a tie and a later one; `Correct` changes the codes of a
  scan SF has listed. Rows of a sheet are counted at 0, 1, 100, 900, 1000 and 1001: on both
  sides of the score's bonuses.

### Fairness

* `RuntimeShutdown`: weak fairness of each handler's steps, each evaluation, each job, the
  monitor, the server's stop and the clock. Threads are scheduled by the operating system;
  a job ends because each post has a timeout and attempts are counted (`lite_jobs` checks
  that); the monitor sleeps for a fixed time, and what it calls only touches memory. Users owe
  nothing: no fairness on `User`. Without it on the jobs the app may wait for ever, as it
  should.
* `LiteFetch`: weak fairness of the worker, and of the pool as a whole.
* `LitePage`: the page polls at its interval and keeps its time-out, requests are answered
  and jobs end. The user owes nothing; a poll at a focus, and a download, are not promised.
* `Desktop`: threads run on, requests under way are handled, a tab that is open beats, the
  monitor finds the sessions of silent tabs stale. Users, kills and sleep owe nothing.
* `TrackingRefresh`: weak fairness of "some thread takes a step", not of each: which
  waiter SQLite lets in is not promised.

## 4. The proofs

All obligations are discharged by Z3, Zenon and LS4, for every value of the constants that
satisfies the assumptions.

### RuntimeShutdownProofs

Any sets of sessions, jobs and handlers, finite or not, and any settings with

* `ConfigAssumption`: times are naturals, the switch is a Boolean;
* `ThreadAssumption`: the event loop, the handlers and the workers are different threads,
  and "no session" is none;
* `GraceAssumption`: `GRACE > 2 * STALL`, a grace period outlasts two evaluations. It is
  tight: with `GRACE = 2`, `STALL = 1` and two sessions TLC finds a shutdown under a live
  session. (Defaults: 30 s against milliseconds.)

`GraceAfterLastSessionCorrect` also assumes `STALE > 2 * STALL` (90 s): the monitor does not
find a session stale that has just been confirmed.

| Theorem | Says |
|---|---|
| `TypeCorrect` | every variable keeps its type |
| `InvCorrect` | `CoordinatorInv`, the inductive invariant that includes the types and `RequestedOnce`, holds |
| `RequestedOnceCorrect` | at most one thread ever calls `request_shutdown`, once |
| `NoShutdownUnderSessionCorrect` | no shutdown is requested while a stored session has had a start or a heartbeat go through |
| `AliveAnswerBuysGraceCorrect` | after an answer "not shutting down" the user has a grace period less one stall |
| `ImplementsPolicyCorrect` | the coordinator implements `ShutdownPolicy` |
| `DeferredShutdownHasADriverCorrect` | when the last job ends, some thread is on its way to evaluate |
| `ReapedOnlyWhenSilentCorrect` | the monitor reaps no session of which a start or heartbeat went through in the last `STALE` seconds, less two calls |
| `GraceAfterLastSessionCorrect` | after the last session has left, the shutdown is a grace period away, less what a blind evaluation may have scheduled early |

**The argument.** An evaluation decides with a session count and a clock that it read
before it took the lock, so `NoShutdownUnderSession` is not inductive: a thread that saw
no session may find one when it decides. It may even schedule a shutdown under a live
session. What saves the session is time. `CoordinatorInv` says so in parts:
`BlindBeganBefore` (an evaluation that saw no session began before any session that is now
confirmed was), hence `DeadlineAfterConfirmed` (a schedule that stands under a confirmed
session is due a grace period, less a stall, after that confirmation), and `FreshLocals`
(what a busy thread read is at most a stall old). A request would need a blind evaluation
with a clock past that deadline: it began before the confirmation and is younger than a
stall, so its clock is less than the deadline, because `GRACE > 2 * STALL`. The other
parts are what these rest on: types, `DeadlineIffScheduled`, `ConfirmedStored`,
`DeadlineAfterAlive` for the answers, `RequestedOnce` and `ExitInOrder` for the order of
the end. `Next => Inv'` has a lemma for each part and in it a step for each action that
can disturb it; the lemmas `LocalsNext`, `FlagsNext`, `StoreNext`, `ServerNext` say once
what the actions can do to a group of variables.

A deferred shutdown is only evaluated again by the monitor or by a job's callback.
`DriverInv` adds to the invariant why the callback of the last job does not find the grace
period unserved: it was deferred with a clock past the deadline, and the job ended later.
TLC has checked it with two jobs and more states than the run has.

The two properties about time need invariants of their own, checked first on the instance
of `runtime_sessions`. `SilenceInv`: a call writes `last_seen` with a clock it read before,
and confirms later, and another call may write an older clock in between; so what the store says
is at most two stalls older than the confirmation (`ConfirmedSeen`, from `SeenLately` of the
calls under way). `TimelyInv`: when the last session leaves, a schedule may stand that a
blind evaluation has made. `YoungSchedule` bounds its age: the monitor ends it at its next
evaluation that sees the session, and `Punctual` says how late the monitor may be. From then
on, `LeftBefore`, the deadline is a grace period less that after the departure.

### SettingsProofs

Any sets of handlers and of copies of the app, finite or not, and any numbers of requests,
starts and crashes, under `SettingsAssumption`: no thread is both a handler and a copy, the
areas are the three there are, and the bounds are naturals. `area` plays no part in the
proofs: they hold as well for users who change keys, files and mappings together.

| Theorem | Says |
|---|---|
| `TypesCorrect` | every variable keeps its type |
| `SecretsAreReadableCorrect` | every stored secret is encrypted with the key on file, unless first uses of the cipher overlapped or were cut short |
| `MappingsNotMixedCorrect` | the default mappings are there once, and not beside the user's, unless starts overlapped each other or a replacement |
| `PresetsKeptCorrect` | a preset created alone stays, unless writers overlapped or one was cut short |
| `ActiveIsChosenCorrect` | the active key is the one the user activated last, unless two requests that set a flag overlapped |
| `KeysKeepTheirOwnCorrect` | a key has the secret it was given last and its own test result, unless two updates of a key overlapped or its id may be given again |

**The argument.** A request acts on what it read earlier, so none of the properties is
inductive: each needs what the tasks under way know, and why it is still so when they
commit.

* `Types` adds to `TypeOK` the shape of a task at each of its steps, and that a whole
  cipher file has exactly one key, which is what a thread then encrypts with.
* `CipherSound`: a task about to commit has encrypted with the key on file; while that is
  being written the file is empty, there is one writer, and no row or commit relies on it.
* `MappingsSound`: a copy that is going to seed has found an empty table, and it still is.
* `PresetsSound`: whoever is going to write the presets holds the defaults and every preset
  that was created alone: such a preset's request found no one else at work (`Unmixed`), and later
  ones read the file after it was written.
* `ActiveSound`: one request at a time changes flags. `Held` says what it knows: the flag
  it read is as it was, every other active key that is still to be switched off is in its
  list, and the key it creates is newer than every row. `Loaded` marks the step from which
  the list must be complete. That a row's id is at most its key's number leaves an id for a new row.
* `OwnSound`: a key that is being created goes by a number that no row has and no task has
  read (`Owned`); a row that a task has read is the one it finds under that id, or the id
  may have been given again. What the one update of a key has read of its secret is what
  the row has.

A frame lemma for each (`CipherFrame`, `PresetsFrame`, `ActiveFrame`, `OwnFrame`)
says which steps cannot disturb it; the others have a lemma each. `MaxRows`, on the
largest id of a table, rests on well-founded induction over the naturals.

### LiteResultsProofs

Any jobs and formats, any number of downloads at once and of crashes, on a machine that
deletes open files or one that does not, under `LiteConfigAssumption` (times are naturals,
jobs and handlers are different threads). The run has one download where open files can be
deleted; the theorems have any.

| Theorem | Says |
|---|---|
| `IInvHolds` | the inductive invariant, with the types, holds |
| `KeptHolds` | a completed job whose save overlapped no other keeps its result on disk, whole, until it expires (`KeptUnlessSavesOverlap`) |
| `ObeysHolds` | asked for after the job was reported expired, no file is served; of a completed job saved alone, the file is served until the expiry, and "expired" is said from `expires_at` on (`DownloadObeysExpiry`) |
| `CutShortHolds` | a file is served cut short only while another download writes it, or after a crash (`CutShortOnlyByAnother`) |

**The argument.** What endangers a result is a removal by someone else's cleanup, steps
after that cleanup has read the `meta.json`. `CleanupsSpare` says that a removal under way
of a result that was saved alone is of an expired one; `Staged` how far the files of such
a save are at each of its steps, and `Alone` that no other save is there to interfere.
`Workers` ties the files of a job to its record, `Knows` says what a download that has
passed a check may still rely on, `TornIsWritten` who holds each torn export.

### LiteRowsProofs

Any rows and spellings, under `RowAssumption`: a missing value is no order and no spelling.

| Theorem | Says |
|---|---|
| `RowsAreCountedHolds` | of any sheet: the rows kept are the first occurrences of the pairs, in order; each number is queried once, in order; the summary counts every row once, whatever SF answers |

**The argument.** `prepare_content` is a pass over the rows, so what it returns is proved
row by row. The library's induction takes an operator as a parameter, which the provers
cannot instantiate; two lemmas stand in for it. `Induction` is about a set of numbers, from
the well-foundedness of the naturals; `Recursion` shows that a function exists that takes a
given step for each row, so that the recursive functions of the model are what they are
defined to be. Neither is tied to this code, and the two modules below use them too.

### LiteJobProofs

From the worker's end: any uploads, batch sizes, thread limits and attempts, and whatever SF
answers to each batch, in any order. `FetchAssumption` says that uploads are sequences of
rows and settings integers; the settings are clamped as the code does. From the page's: any
numbers of files, jobs, reloads and restarts.

| Theorem | Says |
|---|---|
| `IInvHolds`, `TypeCorrect` | the worker's inductive invariant; its types |
| `EveryRowHasItsAnswerHolds` | a completed job has a row for every pair of the upload, with a route exactly where SF answered for its number in a batch that could be mapped |
| `ProgressNeverFallsHolds` | what the page polls never goes back, and done and left add up to all the numbers |
| `PageInvHolds`, `PageTypeCorrect` | the page's inductive invariant; its types |
| `NoticedOnceCorrect` | a completed job is announced at most once, over polls, focuses and reloads |
| `JobsAreInSightCorrect` | a running job is on the page, beside its file, but for the four ways in `forgot` |
| `ResultLeavesForAReasonCorrect` | a result leaves the page only for the reasons the property lists |
| `BothInvHolds`, `BothTypeCorrect` | both invariants, and so all types, hold whichever end acts (`BothTypeOK`) |

**The argument, of the worker.** `Batching` is the arithmetic of
`range(0, n, batch_size)`: every place is in one batch, none is empty, no two overlap,
whatever the size. On it rests the invariant: `PoolInv`, batches are handed over in order and
none is forgotten; `RecordInv`, `completed_targets` is the number of places in the batches
collected so far (`CountedMore`: a batch adds its own), which makes the counts add up and the
percentage monotone; `AnswersInv`, a batch that is done has a status for each of its numbers,
"MAPPED" where SF has answered, and no other batch's answer can say anything of them
(`SharesAreDisjoint`); `CollectedInv`, the worker's map is what the threads answered. TLC
has checked the invariant on the instance of `lite_jobs`.

**Of the page.** Answers arrive in any order, so the invariant says what each request
under way may bring. `Numbered`: a job that is being created is newer than every job that
the page, a poll or a download is about, so an answer is about it or about an older one.
`Informed`: what an answer says of a job's end was so when it was given and, since a job
ends once, still is. `Announced`: the notice of the job on the page is kept in the session
storage. `InSight` adds to `JobsAreInSight` that a new job is created only when the last
one has ended.

### TrackingRefreshProofs

Any threads, uploads, requests and crashes, a finite set of tracking numbers and of events,
under `RefreshAssumption` (`MapStatus` gives each event a status; the numbers asked for are
distinct; the markers are no values) and `EarlierAssumption` (the database an earlier run left is typed,
its uploads are whole and its rows coherent, as all three theorems say this run leaves it).

| Theorem | Says |
|---|---|
| `IInvHolds`, `TypeCorrect` | the inductive invariant; the types |
| `UploadsAreStoredWholeHolds` | a confirmed upload has all its orders and links stored, and the trackings they point to; no order or link of another is there |
| `QuietRowsAreCoherentHolds` | a tracking that no two sessions had in memory at once is what one answer makes of it |
| `RefreshedMeansStoredHolds` | what a session reports as new is in the database when it says so |

**The argument.** A session works on rows it loaded earlier. The invariant says of each
session what it may rely on in the database it sees, its own draft if it holds the write
lock (`View`). `Writes`: a draft adds to the database and touches only rows its session has
in memory. `Known`, `Sound`: what a session has loaded is still there, and what it tells is
stored or about to be. `Quiet`: a row that it alone has in memory (`Alone`) is in the
database as it was loaded, and is coherent except where an answer is half applied
(`Settled`). `SessionStep` does the work for all other sessions once: a step that adds to
the database, and changes only rows its session holds, disturbs none of theirs. Which event
is the latest needs the largest number of a finite set (`MaxIn`, by well-founded induction).

### DesktopProofs

Any launchers, heartbeats under way, session ids and mishaps, on any of the days, under
`DesktopAssumption` (the bounds are naturals, a page may have a heartbeat under way).

| Theorem | Says |
|---|---|
| `IInvHolds`, `TypeCorrect` | the inductive invariant; the types |
| `EveryLaunchIsAnsweredHolds` | whoever starts the app gets a page or a message, unless one of the property's exceptions happened |
| `OrphansHaveACauseHolds` | a session that no page holds is there only because a tab was left while it started, or two requests crossed |
| `NoPageIsStrandedHolds` | a page that runs is left with no server, and no launcher about to start one, only if it slept, the server was killed, or a launcher gave up waiting or lost the port |

**The argument.** Nobody is told that a page failed: a launcher learns it from the port.
`Answered` says what a launcher has to show at each point of its life, `Unopened` which of
its pages are still to come, `Browsing` that a browser thread holds its server back from
stopping. `Minded` is what keeps a server up: in a grace period every page is `due` or
`Excused`. `Kept` accounts for each session by the page, or the call, that holds it, which
needs that a page has one heartbeat under way and that it is for the session it has
(`OneBeat`).

### AlgorithmsProofs

Routes with any codes and remarks, tables, headings and workbooks of any length. The
theorems on operators quantify over all of them; those on the states of `MCAlgorithms` then
follow from an invariant that says what each kind of input is made of, whatever its bounds.

| Theorem | Says |
|---|---|
| `ParsersAgreeHolds` | headings that both parsers know are read alike by both, and a field is found whenever a heading names it |
| `OrdersAreReadHolds` | a sheet without order numbers is read before one with them only when it is at least 900 rows longer; of equal sheets the first |
| `MostSpecificIsUsedHolds` | `map_status` uses the matching mapping with the most codes, then the smallest priority, then the oldest; none only if none matches |
| `OrderDoesNotMatterHolds` | the Lite status is the same in whatever order SF lists routes of different times |
| `AgreeOnLatestHolds` | after any refreshes the dashboard's latest event is the Lite run's latest route, with its last codes |
| `IInvHolds` | what the inputs of `MCAlgorithms` are; the stored events are those of the first routes that SF lists now |
| `RowsAreCountedOnceHolds`, `LatestRouteIsCertainHolds`, `MostSpecificMappingWinsHolds`, `OrdersAreFoundHolds` | the four invariants of `algorithms`, for any bounds |

`ParsersAgreeHolds` and `OrdersAreReadHolds` assume that a heading which is an alias is not
empty (`Headed`), as normalizing an empty one gives no alias; `AgreeOnLatestHolds` that the
routes are older than the query (`QueriedAt`), which an undated one is then stored at, and
that what is stored came from the routes that are listed first (`StoredOf`): SF adds to its
list and corrects codes, it takes nothing back.

**The argument.** Each loop keeps a best candidate, or a list, over the passes it has made,
and the proof says what it is after each. `BestTo`: of the sheets up to there, the first with
the highest score. `MatchTo`: of the mappings tried, the first of the most specific ones;
`ListedIs` shows that the sorted table has every mapping at one place, those before it
counted, so that the first is the one with the smallest priority and the oldest. `EventsOf`
and `StoreMore`: what is stored is what SF lists up to there, with the codes it has now, then
what was stored of the rest; two routes are one event only if their keys are the same, which
the time of the query does not make them (`ListedOnce`). The latest route of a reordered list
is found by the places the reordering gives (`OrderDoesNotMatterHolds`), and the aliases that
only one parser knows are passed over without a match (`MoreAliases`).

### Only model-checked

* Liveness (beyond TLAPS, as is `ENABLED`): `EventuallyStops`, `WorkerEnds`, `PageSettles`,
  `EverySessionEnds`, `AbandonedServerStops`, `PagesReconnect`.

Every invariant of a passing run is stated by a theorem, and every action property.

## 5. Where the code and its words disagree

Four runs check a sentence of the repository and find it violated. `PROJECT.json` quotes
the lines.

1. **The app may stop with a job queued or running** (`runtime_active_job`). The request
   is decided with "active jobs=0", which it logs, but nothing refuses a job created
   between the decision and the end of the server.
2. **A result may be lost before it expires** (`result_lost`). `cleanup_expired` removes
   every directory whose `meta.json` it cannot read, also the one another worker has just
   made; that job then fails, or completes with its files gone. `KeptUnlessSavesOverlap`
   shows this to be the only way.
3. **A download may be empty or cut short, and answered 200** (`download_torn`). The
   export's existence is taken for its completeness. `CutShortOnlyByAnother` shows that a
   second download at that moment, or a crash, is the only cause; after a crash the torn
   file is served until the result expires.
4. **Scheduled polling fails as soon as one pollable tracking has been queried**
   (`polls_fail`). A naive time is compared with an aware one: a `TypeError` before SF is
   asked. (The desktop launcher switches the scheduler off; the server does not.)

Not findings, but good to know. Each is an exception that a property states, or a case the
model has and the code's documents say nothing of:

* *Trackings.* Sessions that overlap on one tracking may mix its columns, and the one that
  asked first may commit last (`QuietRowsAreCoherent` excludes overlap for that reason). An
  event listed twice ends the whole refresh. A route without a time is stored anew by every
  refresh. A number that was refreshed before its batch failed counts as refreshed and as
  failed, so the two may exceed what was requested.
* *Keys.* Two activations that overlap leave no key active, or two. Two first uses of the
  cipher that overlap leave a secret that cannot be read, and with it no list of keys.
  SQLite gives the id of the newest key again once it is deleted, so a request that had
  read the old one changes, marks or deletes the new one. An empty file of the cipher's key
  raises `ValueError` (Fernet's), which the routes that update or test a key answer with 404
  and those that list or create one do not catch; a key that is not the one the secret was
  encrypted with raises `InvalidToken`, which nothing catches: the request ends as a 500.
* *Session of a tab.* Two heartbeats that overlap and are both answered 404 start two
  sessions, of which the page keeps one; the other lives until it is stale.
* *Launcher.* The thread that opens the browser takes any server on the port for its own,
  and a copy that loses the race for the port stops with uvicorn's message only. A copy
  whose page fails to load, because the server it was sent to was stopping, may still find
  that the port has a server when it looks again, a third copy's, and ends content: its
  user has no page (`relayed`; the attempt to prove `EveryLaunchIsAnswered` for any number
  of launchers found it, TLC confirmed it with three). A server
  that answers too slowly makes a launcher say that the port is in use.
* *Lite page.* The page loses sight of a running job in four ways (`JobsAreInSight` lists
  them), and shows a job beside another file when that file's analysis is answered while
  the job is being created.
* *Lite sheets.* A sheet without order numbers is read before one with them when it is 900
  rows longer.

## 6. What is left out, and why

* Formatting: layout of XLSX and CSV, status labels, formula escaping, schemas, forms.
* Cryptography: signatures and key encryption are functions of single values.
* Read-only queries: dashboard, admin, lists, the detail page.
* Parsing by pandas: an upload is a sequence of rows; a file that cannot be read is `Fail`.
* Scripts, migrations, packaging: run by hand, outside the program.
* uvicorn, SQLAlchemy, SQLite, the file system and the operating system's scheduler are
  external: modelled as the code in `src/` relies on them and marked so in the map.
* The scheduler's triggers and the counts in a polling run's row; the totals of a refresh.
* A foreign program on the launcher's port, and the launcher's log.
* Creating an upload batch: validation errors and the parsing of files. The batch's states
  from its confirmation on are modelled.

## 7. The plan

The order is by what would hurt the user most. Done: the end of the app and its proofs;
results and downloads; a job's run and the page that follows it; the tracking database;
launchers, server and tabs together; what users configure, and its proofs; the pure
algorithms. Left:

1. **Coverage of the modelled components.** Creating an upload batch with its validation
   errors, the synchronous Lite requests (analyse, run, export), which use `LiteRows`
   without a record; the scheduler's triggers and the run's counts.
2. **Proofs.** What the additions promise. The six liveness properties stay with TLC.
