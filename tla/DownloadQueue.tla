---------------------------- MODULE DownloadQueue ----------------------------
(***************************************************************************)
(* The life of a download job in the backend: the request that creates it, *)
(* the FIFO of waiting jobs (core/worker.py, core/queue.py), the workers   *)
(* that run yt-dlp in a thread, cooperative cancellation                   *)
(* (core/cancellation.py), the administrator's "clear the queue" action,   *)
(* the events pushed to the browsers (core/events.py, api/downloads.py)    *)
(* and the restart of the server (main.py).                                *)
(*                                                                         *)
(* One asyncio event loop runs every handler and every worker: code        *)
(* between two awaits is one step.  Each await on the database ends a      *)
(* step, a SELECT keeps no lock, and an UPDATE is emitted by primary key   *)
(* alone, so what a handler read may be stale when it writes.  The yt-dlp  *)
(* thread runs beside the loop and its hooks are steps of their own.       *)
(***************************************************************************)
EXTENDS EventBus, Integers, FiniteSets, SequencesExt

CONSTANTS MaxJobs,      \* bound: number of requests ever accepted
          Workers,      \* the worker tasks (max_concurrent_downloads)
          Users,        \* the accounts; the other jobs are a guest's
          Owner,        \* whose job it is: a user, or Guest
          Guest,
          Cancellers,   \* concurrent POST /downloads/{id}/cancel requests
          Admins,       \* concurrent "clear-queue" requests
          MkdirFaults,  \* whether creating the job's directory may fail
          MaxRestarts,  \* bound: restarts of the server
          MaxInbox      \* bound: undelivered events that stop progress events

Jobs == 1..MaxJobs

ASSUME MaxJobsAssumption == MaxJobs \in Nat
ASSUME OwnerAssumption   == Owner \in [Jobs -> Users \cup {Guest}]
ASSUME GuestAssumption   == Guest \notin Users
ASSUME WatchedAssumption == Watched \in [Clients -> Jobs]
ASSUME BoundsAssumption  == /\ MaxRestarts \in Nat
                            /\ MaxInbox \in Nat
                            /\ MkdirFaults \in BOOLEAN

VARIABLES
  \* the database and the disk: they survive a restart
  status,       \* column status of downloads; "none" before the row exists
  error,        \* column error_message, by its origin
  dir,          \* the job's directory under downloads_dir
  usageRows,    \* the users that have a daily_usage row today
  \* the memory of the process
  creating,     \* rows committed by a create request, not yet in work_queue
  queue,        \* work_queue
  flags,        \* _cancelled_job_ids
  wpc, wjob,    \* each worker: where it is in _process_job, and for which job
  wsaw,         \* each worker: record_usage found today's row
  cancel,       \* each cancel request: its step, its job, the status it read
  clear,        \* each clear-queue request: its step and the rows it read
  conn,         \* each SSE connection: its step in the generator
  snap,         \* the status its first SELECT returned, until it is sent
  view,         \* the last event the browser received
  restarts

storedVars  == <<status, error, dir, usageRows>>
memoryVars  == <<creating, queue, flags>>
workerVars  == <<wpc, wjob, wsaw>>
requestVars == <<cancel, clear, restarts>>
backendVars == <<storedVars, memoryVars, workerVars, requestVars>>
connVars    == <<conn, snap, view>>
clientVars  == <<connVars, busVars>>
vars        == <<backendVars, clientVars>>

-----------------------------------------------------------------------------
(* The rows *)

\* "processing" is a status of the schema that the guards test; no statement
\* of the backend assigns it.
Status  == {"queued", "downloading", "processing", "done", "failed",
            "cancelled", "expired"}
Active  == {"queued", "downloading", "processing"}
Running == {"downloading", "processing"}
Settled == Status \ Active

\* The steps of _process_job at which a worker can be found.
Step == {"idle", "load", "claim", "announce",     \* get, check, commit, start
         "fetch", "post",                         \* the thread is running
         "ok", "failed", "cancelled",             \* the thread has ended
         "markFailed", "markCancelled",           \* the directory is removed
         "usage", "usageWrite",                   \* done is committed
         "tellDone", "tellFailed", "tellCancelled", "quit"}

InThread == {"fetch", "post"}

Busy(w) == wpc[w] # "idle"

Held == {wjob[w] : w \in Workers} \ {0}

QueuedJobs == {j \in Jobs : status[j] = "queued"}

\* The ways to lay the jobs of S out in the order of their ids (one way).
InIdOrder(S) ==
    {q \in [1..Cardinality(S) -> S] :
        /\ ToSet(q) = S
        /\ \A i, k \in DOMAIN q : i < k => q[i] < q[k]}

-----------------------------------------------------------------------------

StoredTypeOK ==
    /\ status \in [Jobs -> Status \cup {"none"}]
    /\ error \in [Jobs -> {"", "job", "restart"}]
    /\ dir \in [Jobs -> {"none", "partial", "final"}]
    /\ usageRows \in SUBSET Users

MemoryTypeOK ==
    /\ creating \in SUBSET Jobs
    /\ queue \in Seq(Jobs)
    /\ flags \in SUBSET Jobs

\* A worker has a job exactly when it is not idle, and only the downloads of
\* an account are recorded.
WorkerTypeOK ==
    /\ wpc \in [Workers -> Step]
    /\ wjob \in [Workers -> Jobs \cup {0}]
    /\ wsaw \in [Workers -> BOOLEAN]
    /\ \A w \in Workers :
          /\ Busy(w) <=> wjob[w] \in Jobs
          /\ wpc[w] \in {"usage", "usageWrite"} => Owner[wjob[w]] \in Users

RequestTypeOK ==
    /\ cancel \in [Cancellers -> [pc   : {"idle", "read", "told"},
                                  job  : Jobs \cup {0},
                                  seen : Status \cup {"none"}]]
    /\ \A h \in Cancellers : cancel[h].pc # "idle" => cancel[h].job \in Jobs
    /\ clear \in [Admins -> [pc      : {"idle", "read", "signalled"},
                             waiting : SUBSET Jobs,
                             running : SUBSET Jobs]]
    /\ restarts \in 0..MaxRestarts

ConnTypeOK ==
    /\ conn \in [Clients -> {"closed", "opened", "greeted", "listening",
                             "finished"}]
    /\ snap \in [Clients -> Status \cup {"none"}]
    /\ view \in [Clients -> Status \cup Event \cup {"none"}]

TypeOK == /\ StoredTypeOK
          /\ MemoryTypeOK
          /\ WorkerTypeOK
          /\ RequestTypeOK
          /\ ConnTypeOK
          /\ BusTypeOK

NoCancel == [pc |-> "idle", job |-> 0, seen |-> "none"]

NoClear == [pc |-> "idle", waiting |-> {}, running |-> {}]

Init ==
    /\ status = [j \in Jobs |-> "none"]
    /\ error = [j \in Jobs |-> ""]
    /\ dir = [j \in Jobs |-> "none"]
    /\ usageRows = {}
    /\ creating = {}
    /\ queue = <<>>
    /\ flags = {}
    /\ wpc = [w \in Workers |-> "idle"]
    /\ wjob = [w \in Workers |-> 0]
    /\ wsaw = [w \in Workers |-> FALSE]
    /\ cancel = [h \in Cancellers |-> NoCancel]
    /\ clear = [a \in Admins |-> NoClear]
    /\ conn = [c \in Clients |-> "closed"]
    /\ snap = [c \in Clients |-> "none"]
    /\ view = [c \in Clients |-> "none"]
    /\ restarts = 0
    /\ BusInit

-----------------------------------------------------------------------------
(* POST /api/downloads: the row is committed by enqueue, and its id joins  *)
(* work_queue two awaits later.                                            *)

CreateInsert(j) ==
    /\ status[j] = "none"
    /\ \A i \in Jobs : i < j => status[i] # "none"
    /\ status' = [status EXCEPT ![j] = "queued"]
    /\ creating' = creating \cup {j}
    /\ UNCHANGED <<error, dir, usageRows, queue, flags, workerVars,
                   requestVars, clientVars>>

CreateEnqueue(j) ==
    /\ j \in creating
    /\ creating' = creating \ {j}
    /\ queue' = Append(queue, j)
    /\ UNCHANGED <<storedVars, flags, workerVars, requestVars, clientVars>>

-----------------------------------------------------------------------------
(* The worker loop and _process_job *)

\* Faulty variant: the id is read and stays in the queue.
WorkerPeek(w) ==
    /\ wpc[w] = "idle"
    /\ queue # <<>>
    /\ wjob' = [wjob EXCEPT ![w] = Head(queue)]
    /\ wpc' = [wpc EXCEPT ![w] = "load"]
    /\ UNCHANGED <<storedVars, memoryVars, wsaw, requestVars, clientVars>>

WorkerGet(w) ==
    /\ wpc[w] = "idle"
    /\ queue # <<>>
    /\ queue' = Tail(queue)
    /\ wjob' = [wjob EXCEPT ![w] = Head(queue)]
    /\ wpc' = [wpc EXCEPT ![w] = "load"]
    /\ UNCHANGED <<storedVars, creating, flags, wsaw, requestVars, clientVars>>

\* A job that is no longer waiting (cancelled in the queue) is skipped.
WorkerLoad(w) ==
    /\ wpc[w] = "load"
    /\ wpc' = [wpc EXCEPT ![w] =
                  IF status[wjob[w]] = "queued" THEN "claim" ELSE "quit"]
    /\ UNCHANGED <<storedVars, memoryVars, wjob, wsaw, requestVars,
                   clientVars>>

\* The UPDATE does not test the status again.
WorkerClaim(w) ==
    /\ wpc[w] = "claim"
    /\ status' = [status EXCEPT ![wjob[w]] = "downloading"]
    /\ wpc' = [wpc EXCEPT ![w] = "announce"]
    /\ UNCHANGED <<error, dir, usageRows, memoryVars, wjob, wsaw,
                   requestVars, clientVars>>

\* Faulty variant: the worker waits again without letting go of the job.
ReleaseFlagOnly(w) ==
    /\ flags' = flags \ {wjob[w]}
    /\ wpc' = [wpc EXCEPT ![w] = "idle"]
    /\ UNCHANGED wjob

\* The finally clause of _worker_loop: whatever happened, the job's cancel
\* flag goes and the worker waits for another job.
Release(w) ==
    /\ flags' = flags \ {wjob[w]}
    /\ wpc' = [wpc EXCEPT ![w] = "idle"]
    /\ wjob' = [wjob EXCEPT ![w] = 0]

WorkerStart(w) ==
    /\ wpc[w] = "announce"
    /\ Publish(wjob[w], "downloading")
    /\ dir' = [dir EXCEPT ![wjob[w]] = "partial"]
    /\ wpc' = [wpc EXCEPT ![w] = "fetch"]
    /\ UNCHANGED <<status, error, usageRows, memoryVars, wjob, wsaw,
                   requestVars, connVars>>

\* mkdir is outside the try block: the exception ends _process_job and only
\* the worker loop catches it.
WorkerStartFails(w) ==
    /\ MkdirFaults
    /\ wpc[w] = "announce"
    /\ Publish(wjob[w], "downloading")
    /\ Release(w)
    /\ UNCHANGED <<storedVars, creating, queue, wsaw, requestVars, connVars>>

\* on_progress, called by yt-dlp in its thread while it fetches the streams.
\* It raises when the flag is up; otherwise it publishes "progress", or
\* "processing" at the end of a stream.  The bound only holds back the
\* unlimited progress events of a slow reader.
HookProgress(w) ==
    /\ wpc[w] = "fetch"
    /\ IF wjob[w] \in flags
       THEN /\ wpc' = [wpc EXCEPT ![w] = "cancelled"]
            /\ UNCHANGED busVars
       ELSE /\ \A c \in Clients : Len(inbox[c]) < MaxInbox
            /\ \E e \in {"progress", "processing"} : Publish(wjob[w], e)
            /\ UNCHANGED wpc
    /\ UNCHANGED <<storedVars, memoryVars, wjob, wsaw, requestVars, connVars>>

\* yt-dlp passes from the streams to its postprocessors (also without a call
\* of on_progress: subtitles alone fetch no stream).
FetchEnds(w) ==
    /\ wpc[w] = "fetch"
    /\ wpc' = [wpc EXCEPT ![w] = "post"]
    /\ UNCHANGED <<storedVars, memoryVars, wjob, wsaw, requestVars,
                   clientVars>>

\* on_postprocessor never looks at the flag.
HookPostprocessor(w) ==
    /\ wpc[w] = "post"
    /\ \A c \in Clients : Len(inbox[c]) < MaxInbox
    /\ Publish(wjob[w], "processing")
    /\ UNCHANGED <<backendVars, connVars>>

\* run_download returns a path, or raises: an error of yt-dlp at any time, no
\* file at the end.  A cancellation can only come out of HookProgress.
ThreadEnds(w) ==
    /\ \/ /\ wpc[w] \in InThread
          /\ wpc' = [wpc EXCEPT ![w] = "failed"]
          /\ UNCHANGED dir
       \/ /\ wpc[w] = "post"
          /\ wpc' = [wpc EXCEPT ![w] = "ok"]
          /\ dir' = [dir EXCEPT ![wjob[w]] = "final"]
    /\ UNCHANGED <<status, error, usageRows, memoryVars, wjob, wsaw,
                   requestVars, clientVars>>

\* Faulty variant: the files are left where they are.
WorkerSweepNothing(w) ==
    /\ wpc[w] \in {"failed", "cancelled"}
    /\ wpc' = [wpc EXCEPT ![w] = IF wpc[w] = "failed" THEN "markFailed"
                                 ELSE "markCancelled"]
    /\ UNCHANGED <<storedVars, memoryVars, wjob, wsaw, requestVars,
                   clientVars>>

\* Faulty variant: the event is published before the row is written.
WorkerSweepTells(w) ==
    /\ wpc[w] \in {"failed", "cancelled"}
    /\ Publish(wjob[w], wpc[w])
    /\ dir' = [dir EXCEPT ![wjob[w]] = "none"]
    /\ wpc' = [wpc EXCEPT ![w] = IF wpc[w] = "failed" THEN "markFailed"
                                 ELSE "markCancelled"]
    /\ UNCHANGED <<status, error, usageRows, memoryVars, wjob, wsaw,
                   requestVars, connVars>>

\* _cleanup_dir, the first statement of _mark_failed and _mark_cancelled.
WorkerSweep(w) ==
    /\ wpc[w] \in {"failed", "cancelled"}
    /\ dir' = [dir EXCEPT ![wjob[w]] = "none"]
    /\ wpc' = [wpc EXCEPT ![w] = IF wpc[w] = "failed" THEN "markFailed"
                                 ELSE "markCancelled"]
    /\ UNCHANGED <<status, error, usageRows, memoryVars, wjob, wsaw,
                   requestVars, clientVars>>

\* Faulty variant: the failure is stored and not published.
MarkFailedSilently(w) ==
    /\ wpc[w] = "markFailed"
    /\ status' = [status EXCEPT ![wjob[w]] = "failed"]
    /\ error' = [error EXCEPT ![wjob[w]] = "job"]
    /\ wpc' = [wpc EXCEPT ![w] = "quit"]
    /\ UNCHANGED <<dir, usageRows, memoryVars, wjob, wsaw, requestVars,
                   clientVars>>

MarkFailed(w) ==
    /\ wpc[w] = "markFailed"
    /\ status' = [status EXCEPT ![wjob[w]] = "failed"]
    /\ error' = [error EXCEPT ![wjob[w]] = "job"]
    /\ wpc' = [wpc EXCEPT ![w] = "tellFailed"]
    /\ UNCHANGED <<dir, usageRows, memoryVars, wjob, wsaw, requestVars,
                   clientVars>>

MarkCancelled(w) ==
    /\ wpc[w] = "markCancelled"
    /\ status' = [status EXCEPT ![wjob[w]] = "cancelled"]
    /\ wpc' = [wpc EXCEPT ![w] = "tellCancelled"]
    /\ UNCHANGED <<error, dir, usageRows, memoryVars, wjob, wsaw,
                   requestVars, clientVars>>

MarkDone(w) ==
    /\ wpc[w] = "ok"
    /\ status' = [status EXCEPT ![wjob[w]] = "done"]
    /\ wpc' = [wpc EXCEPT ![w] =
                  IF Owner[wjob[w]] = Guest THEN "tellDone" ELSE "usage"]
    /\ UNCHANGED <<error, dir, usageRows, memoryVars, wjob, wsaw,
                   requestVars, clientVars>>

\* record_usage selects today's row of the user ...
UsageRead(w) ==
    /\ wpc[w] = "usage"
    /\ wsaw' = [wsaw EXCEPT ![w] = Owner[wjob[w]] \in usageRows]
    /\ wpc' = [wpc EXCEPT ![w] = "usageWrite"]
    /\ UNCHANGED <<storedVars, memoryVars, wjob, requestVars, clientVars>>

\* ... and inserts one when there was none.  (user_id, usage_date) is unique:
\* when another worker inserted it in between, the commit raises and the
\* exception leaves _process_job before the "done" event is published.
UsageWrite(w) ==
    /\ wpc[w] = "usageWrite"
    /\ usageRows' = usageRows \cup {Owner[wjob[w]]}
    /\ wpc' = [wpc EXCEPT ![w] =
                  IF ~wsaw[w] /\ Owner[wjob[w]] \in usageRows THEN "quit"
                  ELSE "tellDone"]
    /\ UNCHANGED <<status, error, dir, memoryVars, wjob, wsaw, requestVars,
                   clientVars>>

\* The last event of a job, and the finally clause of the worker loop: there
\* is no await between them.
Outcome == [tellDone |-> "done", tellFailed |-> "failed",
            tellCancelled |-> "cancelled"]

WorkerTell(w) ==
    /\ wpc[w] \in DOMAIN Outcome
    /\ Publish(wjob[w], Outcome[wpc[w]])
    /\ Release(w)
    /\ UNCHANGED <<storedVars, creating, queue, wsaw, requestVars, connVars>>

\* Faulty variant: an early return ends the worker task.
WorkerDies(w) ==
    /\ wpc[w] = "quit"
    /\ wjob' = [wjob EXCEPT ![w] = 0]
    /\ wpc' = [wpc EXCEPT ![w] = "dead"]
    /\ UNCHANGED <<storedVars, memoryVars, wsaw, requestVars, clientVars>>

\* _process_job ended without a last event: a return or an exception.
WorkerQuit(w) ==
    /\ wpc[w] = "quit"
    /\ Release(w)
    /\ UNCHANGED <<storedVars, creating, queue, wsaw, requestVars, clientVars>>

-----------------------------------------------------------------------------
(* POST /api/downloads/{id}/cancel: a read, then what the read calls for   *)

CancelRead(h, j) ==
    /\ cancel[h].pc = "idle"
    /\ status[j] # "none"
    /\ cancel' = [cancel EXCEPT ![h] =
                     [pc |-> "read", job |-> j, seen |-> status[j]]]
    /\ UNCHANGED <<storedVars, memoryVars, workerVars, clear, restarts,
                   clientVars>>

\* A waiting job: the row is overwritten, whatever it holds by now.
CancelWaiting(h) ==
    /\ cancel[h].pc = "read"
    /\ cancel[h].seen = "queued"
    /\ status' = [status EXCEPT ![cancel[h].job] = "cancelled"]
    /\ cancel' = [cancel EXCEPT ![h].pc = "told"]
    /\ UNCHANGED <<error, dir, usageRows, memoryVars, workerVars, clear,
                   restarts, clientVars>>

CancelTell(h) ==
    /\ cancel[h].pc = "told"
    /\ Publish(cancel[h].job, "cancelled")
    /\ cancel' = [cancel EXCEPT ![h] = NoCancel]
    /\ UNCHANGED <<storedVars, memoryVars, workerVars, clear, restarts,
                   connVars>>

\* Faulty variant: the flag is raised for a waiting job as well.
CancelActive(h) ==
    /\ cancel[h].pc = "read"
    /\ cancel[h].seen \in Active
    /\ flags' = flags \cup {cancel[h].job}
    /\ cancel' = [cancel EXCEPT ![h] = NoCancel]
    /\ UNCHANGED <<storedVars, creating, queue, workerVars, clear, restarts,
                   clientVars>>

\* A running job: the flag is raised for the next call of on_progress.
CancelRunning(h) ==
    /\ cancel[h].pc = "read"
    /\ cancel[h].seen \in Running
    /\ flags' = flags \cup {cancel[h].job}
    /\ cancel' = [cancel EXCEPT ![h] = NoCancel]
    /\ UNCHANGED <<storedVars, creating, queue, workerVars, clear, restarts,
                   clientVars>>

\* 409: the job is over.
CancelRefused(h) ==
    /\ cancel[h].pc = "read"
    /\ cancel[h].seen \in Settled
    /\ cancel' = [cancel EXCEPT ![h] = NoCancel]
    /\ UNCHANGED <<storedVars, memoryVars, workerVars, clear, restarts,
                   clientVars>>

-----------------------------------------------------------------------------
(* The administrator's clear-queue action (clear_queue): one SELECT, the   *)
(* events and the flags, and one commit at the end                         *)

ClearRead(a) ==
    /\ clear[a].pc = "idle"
    /\ clear' = [clear EXCEPT ![a] =
                    [pc |-> "read", waiting |-> QueuedJobs,
                     running |-> {j \in Jobs : status[j] \in Running}]]
    /\ UNCHANGED <<storedVars, memoryVars, workerVars, cancel, restarts,
                   clientVars>>

ClearSignal(a) ==
    /\ clear[a].pc = "read"
    /\ PublishAll(clear[a].waiting, "cancelled")
    /\ flags' = flags \cup clear[a].running
    /\ clear' = [clear EXCEPT ![a].pc = "signalled"]
    /\ UNCHANGED <<storedVars, creating, queue, workerVars, cancel, restarts,
                   connVars>>

ClearCommit(a) ==
    /\ clear[a].pc = "signalled"
    /\ status' = [j \in Jobs |-> IF j \in clear[a].waiting THEN "cancelled"
                                 ELSE status[j]]
    /\ clear' = [clear EXCEPT ![a] = NoClear]
    /\ UNCHANGED <<error, dir, usageRows, memoryVars, workerVars, cancel,
                   restarts, clientVars>>

-----------------------------------------------------------------------------
(* GET /api/downloads/{id}/events, and the browser at the other end        *)

SseOpen(c) ==
    /\ conn[c] = "closed"
    /\ status[Watched[c]] # "none"
    /\ conn' = [conn EXCEPT ![c] = "opened"]
    /\ snap' = [snap EXCEPT ![c] = status[Watched[c]]]
    /\ UNCHANGED <<backendVars, view, busVars>>

\* The first event is the status the SELECT returned; on a job that is over
\* it is the only one, and the browser closes.
SseFirst(c) ==
    /\ conn[c] = "opened"
    /\ view' = [view EXCEPT ![c] = snap[c]]
    /\ conn' = [conn EXCEPT ![c] =
                   IF snap[c] \in Settled THEN "finished" ELSE "greeted"]
    /\ snap' = [snap EXCEPT ![c] = "none"]
    /\ UNCHANGED <<backendVars, busVars>>

SseSubscribe(c) ==
    /\ conn[c] = "greeted"
    /\ Subscribe(c)
    /\ conn' = [conn EXCEPT ![c] = "listening"]
    /\ UNCHANGED <<backendVars, snap, view>>

\* One event of the mailbox.  After a final one the generator ends, which
\* drops the subscription, and the browser closes its EventSource.
SseDeliver(c) ==
    /\ conn[c] = "listening"
    /\ inbox[c] # <<>>
    /\ view' = [view EXCEPT ![c] = Head(inbox[c])]
    /\ IF Head(inbox[c]) \in Final
       THEN Unsubscribe(c) /\ conn' = [conn EXCEPT ![c] = "finished"]
       ELSE Take(c) /\ UNCHANGED <<subs, conn>>
    /\ UNCHANGED <<backendVars, snap>>

\* The network drops the connection; EventSource will open it again.
SseDrop(c) ==
    /\ conn[c] \in {"opened", "greeted", "listening"}
    /\ Unsubscribe(c)
    /\ conn' = [conn EXCEPT ![c] = "closed"]
    /\ snap' = [snap EXCEPT ![c] = "none"]
    /\ UNCHANGED <<backendVars, view>>

-----------------------------------------------------------------------------
(* The server stops, at any point, and starts again: only the database and *)
(* the disk remain.  lifespan runs reconcile_on_startup, which fails the   *)
(* jobs that were running, then requeue_pending_jobs, before any worker or *)
(* request, so the whole of it is one step.                                *)

\* Faulty variant: the orphans are left as they are.
NotReconciled == status

Reconciled == [j \in Jobs |-> IF status[j] \in Running THEN "failed"
                              ELSE status[j]]

\* Faulty variants: work_queue starts empty, or takes the running rows too.
RequeuedNothing == {<<>>}

RequeuedActive == InIdOrder({j \in Jobs : status[j] \in Active})

\* requeue_pending_jobs: the queued rows, in the order of their ids.
Requeued == InIdOrder(QueuedJobs)

Restart ==
    /\ restarts < MaxRestarts
    /\ restarts' = restarts + 1
    /\ status' = Reconciled
    /\ error' = [j \in Jobs |-> IF status[j] \in Running THEN "restart"
                                ELSE error[j]]
    /\ queue' \in Requeued
    /\ creating' = {}
    /\ flags' = {}
    /\ wpc' = [w \in Workers |-> "idle"]
    /\ wjob' = [w \in Workers |-> 0]
    /\ wsaw' = [w \in Workers |-> FALSE]
    /\ cancel' = [h \in Cancellers |-> NoCancel]
    /\ clear' = [a \in Admins |-> NoClear]
    /\ conn' = [c \in Clients |-> IF conn[c] = "finished" THEN "finished"
                                  ELSE "closed"]
    /\ subs' = {}
    /\ inbox' = [c \in Clients |-> <<>>]
    /\ snap' = [c \in Clients |-> "none"]
    /\ UNCHANGED <<dir, usageRows, view>>

-----------------------------------------------------------------------------

Create == \E j \in Jobs : CreateInsert(j) \/ CreateEnqueue(j)

ThreadStep(w) == \/ HookProgress(w)
                 \/ FetchEnds(w)
                 \/ HookPostprocessor(w)
                 \/ ThreadEnds(w)

WorkerStep(w) == \/ WorkerGet(w)
                 \/ WorkerLoad(w)
                 \/ WorkerClaim(w)
                 \/ WorkerStart(w)
                 \/ WorkerStartFails(w)
                 \/ WorkerSweep(w)
                 \/ MarkFailed(w)
                 \/ MarkCancelled(w)
                 \/ MarkDone(w)
                 \/ UsageRead(w)
                 \/ UsageWrite(w)
                 \/ WorkerTell(w)
                 \/ WorkerQuit(w)

CancelStep(h) == \/ \E j \in Jobs : CancelRead(h, j)
                 \/ CancelWaiting(h)
                 \/ CancelTell(h)
                 \/ CancelRunning(h)
                 \/ CancelRefused(h)

ClearStep(a) == ClearRead(a) \/ ClearSignal(a) \/ ClearCommit(a)

SseStep(c) == \/ SseOpen(c)
              \/ SseFirst(c)
              \/ SseSubscribe(c)
              \/ SseDeliver(c)
              \/ SseDrop(c)

Next == \/ Create
        \/ \E w \in Workers : WorkerStep(w) \/ ThreadStep(w)
        \/ \E h \in Cancellers : CancelStep(h)
        \/ \E a \in Admins : ClearStep(a)
        \/ \E c \in Clients : SseStep(c)
        \/ Restart

Spec == Init /\ [][Next]_vars

\* What the event loop and the thread pool schedule: a handler that has begun
\* goes on, a worker that can move moves, a yt-dlp run comes to an end (its
\* sockets have timeouts), the browser reconnects and is written to.  Nobody
\* has to create, cancel or clear anything, and nothing has to fail.
Fairness ==
    /\ \A j \in Jobs : WF_vars(CreateEnqueue(j))
    /\ \A w \in Workers : /\ WF_vars(WorkerStep(w))
                          /\ WF_vars(FetchEnds(w) \/ ThreadEnds(w))
    /\ \A h \in Cancellers :
           WF_vars(CancelWaiting(h) \/ CancelTell(h) \/ CancelRunning(h)
                   \/ CancelRefused(h))
    /\ \A a \in Admins : WF_vars(ClearSignal(a) \/ ClearCommit(a))
    /\ \A c \in Clients : WF_vars(SseOpen(c) \/ SseFirst(c) \/ SseSubscribe(c)
                                  \/ SseDeliver(c))

FairSpec == Spec /\ Fairness

-----------------------------------------------------------------------------
(* Properties *)

\* A job is in one pair of hands: it waits once, either with the request that
\* created it or in work_queue, or it is with one worker (core/worker.py
\* never checks; the worker and the requeue at startup rely on it).
OneWorkerPerJob ==
    /\ \A i, k \in DOMAIN queue : i # k => queue[i] # queue[k]
    /\ \A j \in creating : j \notin ToSet(queue) \cup Held
    /\ Held \cap ToSet(queue) = {}
    /\ \A w, x \in Workers : wjob[w] # 0 /\ wjob[w] = wjob[x] => w = x

\* What is in flight was accepted: no id is in the queue or in a worker's
\* hands without its row (session.get would return None).
InFlightIsAccepted ==
    \A j \in creating \cup ToSet(queue) \cup Held : status[j] # "none"

\* No queued row is forgotten (P-03): it is about to join the queue, it is in
\* it, or a worker took it and has not committed a status yet.  Nothing else
\* would ever look at the row before the next restart.
NoLostJob ==
    \A j \in QueuedJobs :
        \/ j \in creating \cup ToSet(queue)
        \/ \E w \in Workers : wjob[w] = j /\ wpc[w] \in {"load", "claim"}

\* A row that says a download is running has a worker that runs it: no row
\* stays "downloading" by itself, where nothing would settle it and where it
\* would count against max_queue_size (api/downloads.py).
RunningHasWorker ==
    \A j \in Jobs :
        status[j] \in Running => \E w \in Workers : wjob[w] = j

\* A job that failed by itself leaves no file behind (F-32), whatever other
\* requests did to the row in the meantime.
FailedLeavesNothing ==
    \A j \in Jobs : status[j] = "failed" /\ error[j] = "job" => dir[j] = "none"

\* A raised cancel flag never waits for a job that has yet to start: the flag
\* of an earlier request cannot kill a job that was accepted afterwards
\* (core/cancellation.py is keyed by id and cleared by the worker alone).
FlagNeverOnQueued == flags \cap QueuedJobs = {}

\* What a stream announces is already in the database: a browser that reacts
\* to "done" finds the row done, or what became of it since: expired by the
\* cleanup, or cancelled by a request that had read it earlier (api/files.py
\* refuses the file of a row that is not done).
AnnouncedIsCommitted ==
    \A c \in Clients :
        LET told  == {view[c]} \cup ToSet(inbox[c])
            found == status[Watched[c]]
        IN  /\ "done" \in told => found \in {"done", "expired", "cancelled"}
            /\ "failed" \in told => found \in {"failed", "cancelled"}

\* Every accepted job comes to an end.
JobSettles ==
    \A j \in Jobs : status[j] \in Active ~> status[j] \in Settled

\* A subscriber that is there before the job is over hears how it ended.
ListenerLearnsOutcome ==
    \A c \in Clients :
        (conn[c] = "listening" /\ status[Watched[c]] \in Active)
            ~> conn[c] \in {"finished", "closed"}

\* A browser that opens the stream of a job hears how it ended (F-24).
WatcherLearnsOutcome ==
    \A c \in Clients : conn[c] = "opened" ~> conn[c] \in {"finished", "closed"}

\* The queue and the workers hand each job over at most once.
HO == INSTANCE HandOff WITH
          Jobs <- Jobs, Workers <- Workers, Nothing <- 0,
          pending <- creating \cup ToSet(queue),
          held <- wjob,
          over <- {j \in Jobs : status[j] # "none"}
                      \ (creating \cup ToSet(queue) \cup Held)

HandedOverOnce == HO!Spec

\* A row that says the job is over keeps saying so: the cancel request answers
\* 409 "Ce téléchargement est déjà terminé." on the strength of it.
SettledIsFinal ==
    [][\A j \in Jobs : status[j] \in Settled => status'[j] = status[j]]_vars

=============================================================================
