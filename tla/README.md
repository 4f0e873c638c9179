# Lutecium.app in TLA+

Lutecium.app downloads media for a browser: a FastAPI backend accepts requests,
puts them in a queue, runs yt-dlp in threads, streams progress with server-sent
events (SSE) and serves the files for a few minutes. The backend is one process
with one asyncio event loop, a thread per running download, a SQLite database
and a directory per job. This directory holds TLA+ modules translated from that
code, the TLC configurations that check them and the proofs that TLAPS checks.

Paths are relative to the repository; `app/` is `backend/app/`, `fe/` is
`frontend/src/`. PROJECT.json maps each definition to the lines it models and
lists the hazards, each at its line.

## 1. Inventory

| Component | State | Operations | Interacts with | Hard part | Module |
|---|---|---|---|---|---|
| Queue and startup (`app/core/queue.py`, `app/main.py`) | table `downloads`, `work_queue` (memory) | insert, enqueue, requeue at startup, get, clear | API, workers, restart | the row and the queue entry are written at different times; the queue dies with the process | DownloadQueue |
| Workers (`app/core/worker.py`, `services/downloader.py`) | position in `_process_job`, job directory | claim, run, mark, charge, tell | queue, yt-dlp thread, quota, bus | handlers change a row between the worker's read and its write | DownloadQueue |
| Cancellation (`app/core/cancellation.py`, `app/api/downloads.py`) | `_cancelled_job_ids` | request, test, clear | workers, thread | the flag is cooperative; rows are overwritten by key alone | DownloadQueue |
| Event bus and SSE (`app/core/events.py`, `fe/lib/downloadEvents.ts`) | a mailbox per subscriber | subscribe, publish, deliver, drop | workers, cancel, browsers | late subscription, reconnection, no replay | EventBus, DownloadQueue |
| Admission (`app/api/downloads.py`, `guest.py`, `diskspace.py`) | guest counters, rows | check, insert, record, place | queue, settings | check-then-act over several awaits | Admission |
| Daily quota (`app/core/quota.py`) | `daily_usage` | check, charge | workers, admission | read and write of a sum by two workers | Admission, DownloadQueue |
| Cleanup, links, files (`cleanup.py`, `signing.py`, `app/api/files.py`) | directories, ages | expire, purge, sweep orphans, sign, serve | workers, settings, admin | ages and statuses are read before they are used | FileStore |
| Settings (`runtime_settings.py`, `effective_settings.py`) | table `settings`, cache | refresh, set, get | everything with a limit | refresh and write overlap | RuntimeSettings |
| yt-dlp update (`ytdlp_update.py`, `deploy/cron/update-ytdlp.sh`) | installed and loaded version, armed timers | check, install, restart, retry | queue, container, cron | the check is old when the process is stopped | YtdlpUpdate |
| Browser: main flow (`MainFlow.tsx`, `UrlCard.tsx`, `DownloadManagerContext.tsx`, ...) | phase, tracked jobs, storage | analyse, download, retry, resume | API, SSE | answers out of order, remounted cards | MainFlow |
| Browser: cards, toasts, history (`PreviewCard.tsx`, `ProgressCard.tsx`, `DoneCard.tsx`, `ToastContext.tsx`, `HistoryPage.tsx`, `downloadEvents.ts`) | chosen formats, the row of a job, toasts and timers | choose, ask, cancel, remove, notify, count down | main flow, SSE | a result replaced under the card, a stream that opens again by itself, timers of things that are gone | JobCards |
| Accounts and sessions (`app/api/auth.py`, `sessions.py`, `app/api/admin.py`) | users, sessions | register, login, change password, logout, reset, delete, expire | browser | several commits per request | Session |
| Browser: session, guards, forms (`AuthContext.tsx`, `App.tsx`, the three form pages) | the user the tab shows, the cookie | refresh, sign in, sign out, redirect | accounts | answers overtaken or lost, guards that decide before the first answer | Session |
| Browser: console (`adminApi.ts`, `fe/pages/admin/`) and `app/api/admin.py` | the mounted page, its requests and stream; one account | read, poll, listen, edit, order | accounts, metrics | reads and stream race, two administrators, ranges that change under an answer | AdminConsole, Charts |
| Login throttle, rate limit, wait estimate (`bruteforce.py`, `ratelimit.py`, `throughput.py`) | bounded windows | check, record | API | they refuse or inform, and change nothing else | not modelled |
| Metrics, health, database plumbing, language, theme, pages of text, deployment | - | - | - | display, configuration or scripts | not modelled |

What makes each correct: a job is never lost, never run twice and always ends;
whoever listens for the end hears of it; a job that is over leaves only the
files it should, for as long as it should; limits exceed by no more than the
requests in flight explain; the service reads the settings that were stored; a
restart cuts no job that could be seen; the page never waits for nothing and
never loses the link of its visitor; the tab shows the person its cookie belongs
to; the console shows what the server measured and the accounts as they are; what
is asked for is what the card showed.

## 2. Modules

One rule of translation holds for the whole backend: the event loop switches
tasks only at an `await`, so the code between two awaits is one action. A read
and the write that depends on it are two actions when another task can act in
between; a read whose result does not decide the write is merged with it,
because SQLAlchemy updates the changed columns by primary key. The worker and the
two cancel handlers decide by the status they read and overwrite the row later:
DownloadQueue, FileStore, Admission and YtdlpUpdate all have both steps
(`WorkerLoad` or `Load` or `Take`, then the claim; `CancelRead`, then its write), so a
cancellation may end a row that already runs or is done, and a worker may take
back a row that was cancelled. Threads, crashes
of the process and the clock have actions of their own.

In the browser JavaScript runs one callback at a time: a click, a timer, an
answer or an event, with the effects that React runs after it, is one action.

Operators headed "Faulty variant" are not used by the specifications: each is
the original with a plausible error, and a property is known to notice it.

### EventBus, DownloadQueue, HandOff

**EventBus**: `subs` and `inbox`. `Publish` appends to the mailbox of every
subscriber of a job, in the order of the calls, as `call_soon_threadsafe` does.
**DownloadQueue** extends it.

| Variables | Code |
|---|---|
| `status`, `error` | columns of `downloads`; `error` tells only a failure of the job from one of a restart |
| `dir` | the job's directory: none, partial (after mkdir), final (run_download returned) |
| `usageRows` | accounts with a `daily_usage` row today |
| `creating`, `queue`, `flags` | rows committed and not yet enqueued, `work_queue`, `_cancelled_job_ids` |
| `wpc`, `wjob`, `wsaw` | each worker's place in `_process_job`, its job, what `record_usage` read |
| `cancel`, `clear` | handlers between their SELECT and their commit |
| `conn`, `snap`, `view` | an SSE connection, the status its SELECT returned, the last event the browser got |

`Create*` is the tail of `create_download`; `Worker*`, `Mark*`, `Usage*` are
`_process_job`; `Hook*`, `FetchEnds`, `ThreadEnds` the yt-dlp thread; `Cancel*`
and `Clear*` the two handlers; `Sse*` the stream and EventSource's reconnection;
`Restart` is the crash together with `requeue_pending_jobs`.

**HandOff** is the abstract promise of queue and workers: jobs are pending, then
held by one worker, then over for ever. `DownloadQueue!HO` maps `creating` and
the queue to `pending`, `wjob` to `held`, every other accepted row to `over`.

### FileStore

Time is kept as ages in units of the TTL: `rowAge` (now - `updated_at`),
`dirAge` (now - mtime), `fileAge` (since the job was done, which is when its
link is signed). `loop` is the step of `cleanup_loop` with the rows and the TTL
it read: `RoundRead`, `RoundRemove`, `RoundCommit` are `expire_old_downloads`,
`OrphanPurge` is `purge_orphan_files`, `RoundFails` a round that raises.
`PurgeRead`, `PurgeDelete`, `PurgeExpire` are the purge action. The worker is cut
down to what its row and its directory go through: `stage` is its place, from
`Load` and `Claim` over the thread to `CommitDone`, or to `CommitStopped` after
an error or a cancellation. `cancel` holds the rows that `cancel_download` or
`clear_queue` read as waiting and has yet to overwrite. `SetTtl`, `DeleteUser`
and `Restart` disturb them. A file is `Openable` when `api/files.py` would serve
it.

### Admission

`rows`, `guestRows`, `usage`, `queue` are the tables and `work_queue`. A request
goes through `Arrive`, `CheckLimits`, `CountQueue`, `Insert`, `GuestRead`,
`GuestWrite`, `TellPlace`, `Enqueue`: one action per await of `create_download`.
A guest is an address and a cookie; the configured guests share one of them, so
that the two-way lookup of `guest.py` meets both; `Units` counts its records
without a recursion, as the numbered units of each. Workers appear with what they
change in the counts (`Take`, `Claim`, `Finish`, `Fail`, `UsageRead`,
`UsageWrite`), cancellations with `CancelRead` and `CancelWrite`. Two history
variables are read by no action: `finished` counts the jobs of an account that
ended with a file, whatever their rows say later, and `revived` the rows that a
worker claimed after they had been cancelled.

### RuntimeSettings

`stored` is the table, `cache` is `_cache`. A PATCH request takes its items one
by one (`SetGet`, `SetCommit`, `SetCache`); `SetCommit` raises when another
request inserted the key meanwhile. The cleanup loop refreshes the cache in two
steps (`RefreshRead`, `RefreshFill`) and reads the TTL from it afterwards.
`committed` is a history variable: what each key was ever committed with.
The names of the specification begin with `Settings`, so that the proofs of both
parts of the administration are one module, AdministrationProofs.

### YtdlpUpdate

`Check`, `Pip`, `ReadVersion`, `Record` are `update_yt_dlp`; `armed` holds the
timers of `call_later`, each with the rows that were settled at its check: in no
worker's hands and waiting for none. `stage` and `cancel` are, as in FileStore,
the place of a job's worker and what a cancellation has yet to write. `Kill`
is the SIGTERM, `Exit` uvicorn's shutdown, `Boot` Docker's `unless-stopped`.
`home` is what pip installed, gone with the container's tmpfs at `Exit`. The
`Script*` actions are the cron script with its login, its attempts, its sleep
and its health check; `PageAsks`, `PageReads` the administrator's page.

### MainFlow

`phase`, `result`, `url`, `jobId`, `initial` are the states of MainFlow, `shown`
and `card` what is on the screen: `Morph` mounts the new card when the old one
has left, and a URL card that mounts starts again from `initialUrl`. `calls`
counts the analyses in flight per link, answered in any order. `job` holds the
rows of the download manager, `asked` while `createDownload` is in flight; `by`
tells whether MainFlow still waits for that answer, has been left meanwhile, or
has been left together with the manager: the answer is handled in all three
cases. `guestUsed`, `pendingUrl`
are the browser's storage. `Leave`, `Return`, `Load`, `VisitAdmin`, `Login` and
`Logout` unmount and mount what the routes of `App.tsx` unmount and mount.

### Session

One account, one tab, and the cookie that the tab shares with the others of its
browser.

| Variables | Code |
|---|---|
| `account`, `live`, `made` | the row of `users`, the live rows of `sessions`, how many were ever made |
| `cookie` | the session cookie of the browser |
| `user`, `loading`, `page` | state of `AuthProvider`, and the route that is rendered |
| `call` | the request in flight of each kind: `me` of the mount, `refresh` of the password page, the three forms, `logout` |
| `drift` | read by no action: which disagreement between tab and server a late, lost or overtaken answer, or another tab, has already caused |

A request is sent (`Submit*`, `ClickLogout`, `Load`), served (`Serve*`,
`VerifyLogin` and `CreateSession`, `Server`), and its answer delivered in any
order or lost (`LoginAnswered` ... `MeLost`, `Failed`). `Land` and `Home` are the
guards `RequireAuth`, `ForcedPasswordGate` and that of `AdminLayout`: a page that
renders redirects in the same step. `register` commits the row, then the
session; `login` verifies, then creates the session. `Admin`, `Expire` (the row of
the session), `DropCookie` (the browser, by the cookie's `max_age`) and
`OtherTab` are what happens to account, sessions and cookie beside the tab.

### Charts, AdminConsole

**Charts** has what `AdminWidgets.tsx` computes: the scale and the lines of
`LineChart`, the bars, the gauge. `Lines` folds `DrawPoint` over the series as
the loop of `draw` does, lifting the pen where nothing was recorded.
**AdminConsole** extends it.

| Variables | Code |
|---|---|
| `now`, `row` | what the server measures (a version), and one account |
| `ui` | state of the mounted page: `snap` and `err` of the live pages, `range` and `hist`, `busy`, the account as listed (`shown`), the temporary password (`temp`), filter and entries of the journal |
| `calls` | requests in flight; `own` tells those of the mounted page, whose answers count |
| `stream` | the EventSource of the page and the message on its way |
| `late`, `missed` | read by no action: the lists of users on their way that were read before somebody else's change or before a list already shown, and whether the list that is shown is such a one |

`Mount*` are the effects of the four pages, `Go` the navigation that unmounts
one; `Poll`, `ChooseRange`, `ChooseFilter`, `ClickRow`, `RunAction`, `CloseTemp`
what the page and its user do; `Serve*` the handlers of `admin.py`; `*Answered`,
`ActionEnded`, `Failed` and `Ignored` the answers; `Stream*`, `Measure` and
`Reconnect` the stream.

### JobCards

| Variables | Code |
|---|---|
| `result`, `video`, `langs`, `late` | the analysis under `PreviewCard`, its choices; whether the result was replaced without the card being mounted again |
| `create` | `createDownload` in flight, who sent it and with which options |
| `job`, `link`, `wire` | the job on the server, the EventSource, the events on their way |
| `row`, `left`, `told` | the row of the manager and whether it is the job that MainFlow follows, what `DoneCard` counts down, notifications sent for the job |
| `toasts`, `timers` | the toasts on the screen and the timers that were started for them |

`Click*` send what the preview, the drawer or the history asks for; `CreateOk`
begins the row (`Tracked`) and its stream; `Connect` makes the server send the
present state, as `download_events` does first, `Break` cuts the stream; `Deliver`
is `patchJob` with its toast and notification, `AfterEvent` the `close()` after a
last event. A cancellation ends a waiting job and raises a flag for one that
runs, which `ServerWorks` may notice or not. `LateAnswer` is an analysis that replaces the result under the card.

`MC*` modules hold the values that a configuration cannot write and symmetries.

## 3. Runs

| Run | What it shows | Instance | States |
|---|---|---|---|
| cancel_races | in every order of workers, cancel, clear, faults and a crash: no job is lost or run twice, flags and files of failed jobs are right, HandOff is implemented | 2 jobs, 2 workers, 1 account, 1 cancel and 1 clear handler, failing mkdir, 1 restart | 764,000 |
| watched_job | every accepted job ends, a listener hears how, a stream announces only what is committed, a running row has a worker | 2 guest jobs, 1 worker, 1 cancel handler, 1 browser with any number of lost connections, 1 restart | 400,000 |
| files | a link keeps opening its file for the shortest TTL in force, unless a purge or a late cancellation takes it; directories go and rows that stay done expire | 1 job, TTL 1 or 2, 1 purge, 1 canceller, 1 failed round, deleted account, 1 restart | 673,000 |
| admission | how far the soft limits can be exceeded (LimitsHold), and that nobody is overcharged | 2 requests, 2 workers, guests that change address, 1 account, 1 canceller, every limit 1, 3 rows, 1 restart | 3.9 million |
| settings | the cache holds only committed values (CacheIsSound) and catches up with the table; the guests are purged again once the TTL is a number | 2 keys, 2 values of which one is no number, 2 concurrent PATCH, 1 restart | 296,000 |
| update | a restart cuts no job that was settled at the check; success means a new process (SuccessIsReal); an announced restart comes; the script ends | 1 job, 1 canceller, 1 page, the script with 2 attempts, 1 release, 1 crash | 160,000 |
| main_flow | a spinner has a request and a click makes one (PageHasItsCalls), a blocked link is kept, a pending link is resumed | 2 links, 2 requests for a download, 1 analysis in flight per link | 1.3 million |
| session | the tab shows who the cookie belongs to (TabAgrees), a password form that does not ask for the current password can succeed, the guards never send a visitor with a session to the login page | 1 account, 1 tab and another one, 2 sessions, 2 requests in flight | 1.3 million |
| admin_console | a button is disabled exactly while its action runs (ConsoleHasItsCalls), the charts are true to their series, curves follow the chosen range and arrive, the numbers catch up with the server, the list of users is current once nothing is in flight | every page, 2 requests in flight, 1 change of the numbers, 1 other administrator; every series of up to four samples with gaps | 131,000 |
| job_cards | one notification and a bar that fits (RowIsSound), a row that ended stays so, a toast takes no other along, what is sent is what the card shows, the countdown ends | 1 job, 2 analyses, 2 bytes, 2 units of TTL, 1 event on its way, 2 toasts | 1.6 million |
| v_* | disagreements of the code with its own documents (section 6), each by a counterexample | the smallest instance that shows it | |

Bounds. Two workers is the default of `max_concurrent_downloads`; two jobs are
enough for two workers, or for a job and the one behind it, to collide. One
restart at any point covers each step of each handler; a handler that answered
can be used again, so one cancel handler stands for any sequence of requests.
`MaxInbox` stops progress events only, never a last one. `Old`, three times the
longest TTL plus one, is beyond every threshold that `cleanup.py` compares.
Limits of 1 with two requests make each check-then-act race happen; the third
row is what exceeds the queue once a worker has taken a cancelled one back, and
what a guest asks for after a restart. One canceller holds any set of waiting
rows until it writes. Two attempts and two
health checks reach each verdict of the script through a retry. Two links are
needed for answers out of order; two requests for a retry from the drawer beside
a click. Two sessions let a login or another tab replace the first; two requests
in flight let any answer of the tab overtake another, and the same of the
console. One event on its way and the state sent at each connection give the
events lost and repeated; two toasts let the timer of a closed one fire beside
a newer one. Four samples give a gap between two lines, at either end and twice.
Symmetry is used for workers and requests, in runs without liveness.

`session` and `admin_console` are checked for deadlock. Elsewhere
`CHECK_DEADLOCK FALSE` is set because jobs, restarts, visits or toasts are
bounded, or a visitor may simply stop: then the system rightly waits.

LimitsHold, CacheIsSound, SuccessIsReal, PageHasItsCalls, TabAgrees,
ConsoleHasItsCalls and RowIsSound are conjunctions of the type invariant of
their module with the safety properties they are named after, each stated in the
module.

`watched_job` has guests only, no clear-queue and no failing mkdir, and
`admin_console` no error page for a reconnection (`ErrorAnswers = FALSE`): with
them the properties fail, as section 6 tells.

## 4. Fairness

Nothing is assumed of users, of faults or of crashes. Weak fairness, but for the
console:

- DownloadQueue: a handler that began goes on, a worker that can move moves, a
  running yt-dlp ends, a mailbox is read, a browser reconnects: the event loop
  serves every ready task and EventSource retries by itself. Dropped connections
  are unbounded, so a listener may lose its connection for ever; it must hear
  the end only while it is connected or after it has reconnected.
- FileStore: time passes, the cleanup loop goes on (it sleeps 30 seconds and
  catches every exception), a worker commits the end of a job.
- RuntimeSettings: the loop and a request that began go on.
- YtdlpUpdate: requests and timers of a process that runs go on, Docker restarts
  a process that ended, the script goes on.
- MainFlow: the timer of the URL card fires. Nothing is assumed of answers.
- AdminConsole: the server sends its numbers every few seconds for as long as a
  page listens, the page asks for its curves again at an interval, and a broken
  stream is tried again by the browser. Streams and requests may fail as often
  as they like, but not each time for ever: strong fairness of `StreamSends`,
  `StreamArrives`, `Poll`, the service of the history and its arrival.
- JobCards: time passes, and the interval of the card fires.
- Admission and Session state no fairness: their properties are safety.

## 5. Proofs

Each theorem holds for every value of the constants that satisfies the named
assumptions of its module: any number of jobs, workers, requests, browsers,
sessions, links or toasts, and any bound on restarts and faults. The third column
is what its induction needs beside the statement.

| Theorem | States | Argument |
|---|---|---|
| DownloadQueueProofs | | |
| TypeCorrect | `[]TypeOK` | |
| OneWorkerPerJobHolds | `[]OneWorkerPerJob` | `HandsInv`: every id in the queue or in a worker's hands has a row; otherwise a new row could get an id in flight |
| NoLostJobHolds | `[]NoLostJob` | `HandsInv`: a worker that settles a row is the only one to hold it |
| FlagNeverOnQueuedHolds | `[]FlagNeverOnQueued` | `FlagInv`: a row that a handler saw running never waits again |
| FailedLeavesNothingHolds | `[]FailedLeavesNothing` | `FileInv`: the directory goes before the row says "failed", and nobody else writes that |
| HandedOverOnceHolds | `HandedOverOnce`: DownloadQueue implements HandOff | creation maps to `Accept`, `WorkerGet` to `Hold`, what ends `_process_job` to `GiveBack`, `Restart` to `Recover`, the rest to a stutter |
| RunningHasWorkerHolds | `MkdirFaults = FALSE => []RunningHasWorker` | `RunInv`: a worker that leaves its job has settled the row |
| AnnouncedIsCommittedHolds | `[]AnnouncedIsCommitted` | `TellInv`: a row that was settled is never taken again, so an event read late is true still |
| AdmissionProofs | | |
| TypeCorrect | `[]TypeOK` | `Types`: also, a worker's job is a row, of an account when its usage is recorded |
| QueueOvershootHolds | `[]QueueOvershoot` | `QueueInv`: a request that has counted is an active row to come; `Held`: a row that was taken back and is active is in the hands of a worker of its own |
| LimitsHoldHolds | `[]LimitsHold` | `GuestInv`: until a first record, every row belongs to a request that will record it or to a boot that a crash ended; after it, only requests that had passed before add rows |
| NeverOverchargedHolds | `[]NeverOvercharged` | `Charges`: the finished jobs pay for the usage, for the sum any worker has read, and for the files not recorded yet |
| FileStoreProofs | | |
| TypeCorrect | `[]TypeOK` | as below |
| FetchableInTimeHolds | `FetchableInTime` | `ReadIsOld`: what a round holds was too old when it was read, and stays so; `FileIsOldest`: a directory too old for the orphan purge holds a file that is too old |
| AdministrationProofs, about RuntimeSettings, AdminConsole and Charts | | |
| CacheIsSoundHolds | `[]CacheIsSound` | `OnTheWay`: what a refresh or a request carries from table to cache was committed too |
| ChartsAreTrueHolds | `[]ChartsAreTrue`, for series of any length | no step disturbs it: `LinesJoinNeighbours`, by induction over the points, says what the pen has drawn after each; `HeightFits`, `BarFits`, `GaugeFits` |
| ConsoleHasItsCallsHolds | `[]ConsoleHasItsCalls` | `Buttons`: the action in flight is one, and which; `Requests`: an order outlives its page, a read does not |
| HistoryFollowsRangeHolds | `HistoryFollowsRange` | `Asked`: the page waits for no range but its own |
| ListIsCurrentHolds | `[]ListIsCurrent` | `ListInv`: as long as the list is not the account, an error is shown, the list is known to be late, or something of the page is on its way that will have it read again or brings it as it is |
| YtdlpUpdateProofs | | |
| SuccessIsRealHolds | `[]SuccessIsReal` | `NoTimerLeft`: when the script has slept, its timer has fired or died with its process |
| CutsOnlyNewJobsHolds | `CutsOnlyNewJobs` | `SeenAreAtRest`: a row at its end that no worker holds never starts again, whoever writes late |
| RestartStaysDue | `[]RestartIsDue`: who was told of a restart has a timer, or a process that goes | itself, with the types |
| MainFlowProofs | | |
| PageHasItsCallsHolds | `[]PageHasItsCalls` | `ClosedIsIdle`, `UrlIsKnown`: an unmounted page keeps nothing, and an answer belongs to a submitted link; `OneAsked` |
| BlockedIsKeptHolds | `[]BlockedIsKept` | `FlowIsAsked`: a request whose refusal arrives late knows its link |
| SessionProofs | | |
| TabAgreesHolds | `[]TabAgrees` | `Calls`: an answer on its way is true, or marked as overtaken, in whatever order it arrives |
| FormCanSucceedHolds | `[]FormCanSucceed` | the same for what an answer says of the password |
| KnownVisitorStaysHolds | `KnownVisitorStays` | the same invariant, at each redirect |
| JobCardsProofs | | |
| RowIsSoundHolds | `[]RowIsSound` | `StreamEnds`: only an open connection brings events, and the last one closes it |
| EndedRowStaysHolds | `EndedRowStays` | `StreamEnds`, `PageHasRow`: a request in flight has no row yet |
| ToastsLeaveAloneHolds | `ToastsLeaveAlone` | `ToastIds`: a timer names the toast it was started for and no later one |
| SentIsShownHolds | `SentIsShown` | `ChoicesFit`: the choices of a card are from its own result |

`HandsInv` (DownloadQueue), `Types` (Admission), `SettingsInv` (RuntimeSettings),
`ConsoleInv` (AdminConsole) and `IInv` (in each of the other modules) are
inductive; `FlagInv`, `FileInv`, `RunInv`, `TellInv` are inductive
relative to the first, `QueueInv`, `Held`, `Charges` and `GuestsInv` to the
second, `ListInv` to `ConsoleInv`. TLC
finds each of them true in every state of the instances of section 3. The
property of the run alone is not inductive. LimitsHold shows why most
plainly: that few rows were accepted says nothing of the requests which have
passed the check and still hold a row to come. A step lemma has one step per
action, and under it one per conjunct that the action can disturb; an action that
moves one actor leaves the records of the others to a lemma stated once
(`CallSet`, `JobSet`, `Goto`, `AnsweredKeeps` ...).

Two hypotheses are more than a size. RunningHasWorkerHolds assumes that mkdir
does not fail: it is outside the `try` of `_process_job`, and its failure leaves
a row that says "downloading" with no worker (section 6). The part of LimitsHold
about guests is stated for a limit of at most one, which is what the service
ships with. For higher limits it fails, as the attempt to prove it showed:
`record_guest_download` writes back one more than it read, so that a write that
comes late takes the count back to where it was, and every such race lets more
downloads through (section 6).

The curves need an induction over data: `Lines` is a fold, and a fold is a
function that CHOOSE picks by its recursive equation. The induction theorems of
the library cannot be used, because they take an operator as a parameter. One of
them that speaks of sets can: in a well-founded relation every non-empty set has
a minimal element (`WFMin`). `LeastNumber` and `Induction` are drawn from it,
`FoldExists` shows that the equation of the fold has a solution for a series of
any length, `DrawnFacts` unfolds it point by point, and `PointIsDrawn` is the
step of the loop.

The assumptions about constants exclude no configuration of the program: actors
that are counted are finite and at least one (Admission), the TTLs are positive
and have a longest one (FileStore), a list of formats is a sequence of the
formats that occur in it (JobCards), and what the server records for a chart is
not negative (AdminConsole: percentages, queue lengths, counts).

Every invariant and every action property of section 3 is proved, on the
hypotheses above. Only model-checked: liveness, since it rests on fairness and so
on which actions are ENABLED, of which these provers know nothing.

## 6. Where the code and its documents disagree

Shown by a run:

- **v_subscribe_late**: a stream subscribes after it sent its first event, so a
  job that ends in between is never announced.
- **v_cancel_lost**: the worker overwrites "cancelled", or a cancel request
  "done", by primary key alone. It reaches further than the two rows of that run,
  and the properties say how far: a link stops opening its file (FetchableInTime),
  and a row that is done ends as cancelled and never expires (DoneExpires); its
  account stays charged (NeverOvercharged counts the jobs that finished, not the
  rows that say so); a row that was counted as free is active again, and the queue
  exceeds its limit by one more for each worker (QueueOvershoot); the update finds
  nobody active while a worker runs a job under a row that is over, and the
  restart cuts it (CutsOnlyNewJobs is about the rows that were settled).

Met while modelling; the models contain the step, or name the assumption that
excludes it, and no run is spent on it:

- `app/api/admin.py:102`: a setting that is not a number is stored; each cleanup
  round then raises before its last step, so the guests are not purged while it
  stays. GuestsArePurged is what remains true.
- `deploy/docker-compose.yml:32`: pip installs into the container's tmpfs, which
  the restart empties: the script reports success and the old version runs.
- `fe/components/flow/MainFlow.tsx:65`: the answer for an earlier link replaces
  that of a later one. The page sends the later link with it.
- `fe/lib/adminApi.ts:135`, `fe/lib/downloadEvents.ts:17`: the comments say that
  EventSource reconnects by itself. It gives up on an answer that is not 200,
  and the proxy gives one while the service restarts (`deploy/Caddyfile:7`). The
  page then stays with its last numbers, or the job with its last progress; with
  `ErrorAnswers = TRUE` CatchesUp fails.
- `app/core/quota.py:38`: two downloads of one account that end together both
  insert the usage row. The second one raises after "done" was committed, and
  its "done" event is never published.
- `app/core/quota.py:41`: two read-modify-writes of one row lose a sum.
- `app/core/guest.py:47`: the count of a guest is written back as one more than
  was read. With a limit above one two requests lose a download that way at each
  race: with a limit of 4, two requests at a time and no restart, one guest gets
  more than eight. GuestOvershoot bounds a limit of one only; the limit is a
  setting that administrators can raise.
- `app/core/quota.py:30`, `app/api/downloads.py:101`: downloads accepted together pass the quota
  and the queue limit; LimitsHold says by how much.
- `app/core/worker.py:89`: mkdir is outside the `try`; when it fails the row stays
  "downloading" with no worker until the next restart.
- `app/core/queue.py:57`: a restart fails the interrupted jobs and leaves their
  files to the orphan purge; docs/PLAN.md:124 says they are cleaned.
- `app/api/downloads.py:164`: "processing" is never stored, so a browser that
  reconnects during it is told "downloading"; docs/PLAN.md:128 promises the
  current state.
- `app/core/queue.py:42`: clear-queue publishes "cancelled" before it commits: a
  browser that subscribes in between waits for ever.
- `app/core/cleanup.py:81`: a job that was active when a purge began and ends
  during it is expired with its files in place, against "Ne touche jamais aux
  jobs actifs" (`cleanup.py:65`).
- `app/core/cleanup.py:96`: the age of a directory is its mtime; a job that runs
  for more than three TTLs without a new entry loses its directory.
- `app/core/signing.py:18`: a link lives for the configured TTL, its file for the
  effective one.
- `app/api/admin.py:209`: deleting an account updates its rows, so their files
  get a new TTL.
- `app/core/ytdlp_update.py:59`: a download accepted while pip runs is cut by the
  restart; CutsOnlyNewJobs is what remains true.
- `app/api/downloads.py:127`: rows join the queue in the order of the last
  await, not of their ids.
- `fe/components/UrlCard.tsx:32`: the comment says the link is resumed only when
  `initialUrl` changes, but each card that mounts resumes it: after an error, or
  after "download something else", the resumed link is analysed again.
- `fe/components/flow/MainFlow.tsx:66`: the second of two answers takes the
  visitor away from a job that is tracked.
- `fe/components/flow/MainFlow.tsx:109`: logging out on a finished job marks the
  browser as a guest that has used the free download; a guest who left the page
  before the end is not marked.
- `fe/components/DownloadManagerDrawer.tsx:18`: a refused retry has already
  removed the row, and nothing says so. This retry and that of
  `fe/pages/HistoryPage.tsx:25` send the link and the mode only, so that quality
  and languages are lost; docs/PLAN.md:100 promises the same options.
- `fe/components/flow/MainFlow.tsx:151`: an analysis that is answered late
  replaces the result under the preview, which keeps the choices it took from
  the one before: another quality is sent than the one shown. SentIsShown names
  this exception.
- `fe/components/DownloadManagerDrawer.tsx:61`: the percentage has no upper limit
  here; ProgressCard has one.
- `fe/components/flow/DoneCard.tsx:8`: the countdown is a constant of five minutes
  from the arrival of the event, while the TTL is a setting and starts at the
  commit. The drawer has no countdown, and its link outlives the file.
- `fe/lib/AuthContext.tsx:19`: when the first `refresh()` is answered after a
  login, the tab shows nobody while the session works. TabAgrees names this
  exception, an answer that was lost, and another tab that changed the cookie.
- `app/api/auth.py:46`: the cookie is as old as its session may become, and the
  browser drops it. A tab that was left open is not told: it shows the user until
  its next answer. TabAgrees names this exception too.
- `fe/pages/ChangePasswordPage.tsx:33`: when the answer is lost after the password
  was changed, the form still assumes a temporary password and is refused until
  the page is loaded again.
- `fe/App.tsx:34`: docs/PLAN.md:147 has the visitor forced through the change of
  password, but only "/" does so; the other pages stay open.
- `app/api/auth.py:80`: the row is committed before the session; a request that
  is cut in between leaves an account, and its retry is refused as a duplicate.
- `app/api/admin.py:164`: a suspension leaves the sessions of the account alive.
- `fe/pages/admin/AdminLogsPage.tsx:17`: unlike the curves, the journal has no
  flag for an answer that is overtaken: it can show the entries of another filter.
- `fe/pages/admin/AdminSystemPage.tsx:46`: the comment says that the curves stay
  empty after an error; older ones stay on the screen.
- `fe/pages/admin/AdminUsersPage.tsx:19`: the lists of two reloads may arrive out
  of order, and the older one stays; what another administrator changes is not
  heard of. ListIsCurrent names both exceptions. An error is never cleared, and two
  resets answered out of order show a password that no longer works.
- `fe/lib/downloadEvents.ts:27`: a source is closed only after the handler has
  returned. A `Notification` constructor that throws, as browsers on phones do,
  would leave it open, and the end of the job would come again at each
  reconnection; section 7 assumes that it does not throw.
- `fe/pages/admin/AdminWidgets.tsx:125`: a sample alone between two gaps starts a
  line that nothing continues: it is not visible.

## 7. Assumptions and what is left out

Database calls succeed, but for the unique constraints of `daily_usage` and
`settings`; `rmtree` succeeds; directories can be made, except in DownloadQueue,
which has the failure (it leaves a row that downloads without a worker, and
section 6 says so); a publication is atomic; startup is one step,
because `lifespan` finishes the recovery before it starts a worker or serves a
request. yt-dlp is a thread that reports progress and ends in any way. Admission
has one civil day and files of one size. In MainFlow a button is clicked on a
card that is not leaving the screen, `queued`, `downloading` and `processing` are
one state, and cancelled and expired another: the page treats them alike.

Session has one account and one tab with its full behaviour; other tabs only
change the cookie. AdminConsole counts versions of the numbers, not the numbers;
the list of the guests is left out, and a colour at a threshold. In JobCards an
event carries what the row keeps of it, and its handler returns (`new
Notification` does not throw); sizes are small numbers and names none.

Left out: metrics, health, logging and the pages that only display; the throttle
of the login and the rate limit of the analysis, which only refuse (the models
have a refusal for them); the wait estimate, which is displayed; language, theme
and mascot; hashes and the bootstrap of the administrator; file names (a string
filter); Alembic and SQLAlchemy configuration, whose semantics are the
assumptions above; the installation scripts, run by hand.

## 8. Plan

Done: the modules of section 2 with their runs, and proofs of everything they
check but liveness. To do, if it is worth its cost:

1. The hypotheses of HandOff's liveness: which steps of a worker are enabled in
   which state, as invariants that the liveness runs rest on.
2. How far a limit of guests above one can be exceeded: a bound that counts the
   races, and its proof.
3. `services/metrics.py` and file names, if a property of theirs is worth a run.
