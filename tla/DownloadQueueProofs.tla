------------------------- MODULE DownloadQueueProofs -------------------------
(***************************************************************************)
(* Theorems about DownloadQueue, for every number of jobs, workers,        *)
(* requests and connections.                                               *)
(***************************************************************************)
EXTENDS DownloadQueue, FiniteSetTheorems, SequenceTheorems, TLAPS

USE DEF Jobs

-----------------------------------------------------------------------------
(* Sequences of jobs *)

\* What InIdOrder returns is a queue of jobs of S, each once, and all of them.
LEMMA InIdOrderFacts ==
    ASSUME NEW S \in SUBSET Jobs, NEW q \in InIdOrder(S)
    PROVE  /\ q \in Seq(Jobs)
           /\ ToSet(q) = S
           /\ \A i, k \in DOMAIN q : i # k => q[i] # q[k]
<1>1. IsFiniteSet(S)
  <2>1. IsFiniteSet(1..MaxJobs)
    BY MaxJobsAssumption, FS_Interval
  <2>2. QED
    BY <2>1, FS_Subset
<1>2. Cardinality(S) \in Nat
  BY <1>1, FS_CardinalityType
<1>3. q \in [1..Cardinality(S) -> S] /\ ToSet(q) = S
      /\ \A i, k \in DOMAIN q : i < k => q[i] < q[k]
  BY DEF InIdOrder
<1>4. q \in Seq(Jobs)
  <2>1. q \in Seq(S)
    BY <1>2, <1>3, SeqDef
  <2>2. QED
    BY <2>1, SeqMonotonic, S \subseteq Jobs
<1>5. ASSUME NEW i \in DOMAIN q, NEW k \in DOMAIN q, i # k
      PROVE  q[i] # q[k]
  <2>1. i \in Int /\ k \in Int /\ q[i] \in Int /\ q[k] \in Int
    <3>1. DOMAIN q \subseteq Int /\ S \subseteq Int
      BY <1>2, <1>3, MaxJobsAssumption
    <3>2. QED
      BY <1>3, <3>1
  <2>2. i < k \/ k < i
    BY <2>1, <1>5
  <2>3. QED
    BY <1>3, <2>1, <2>2
<1>6. QED
  BY <1>3, <1>4, <1>5

\* Taking the oldest job out of a queue without duplicates.
LEMMA TailFacts ==
    ASSUME NEW q \in Seq(Jobs), q # <<>>,
           \A i, k \in DOMAIN q : i # k => q[i] # q[k]
    PROVE  /\ Head(q) \in Jobs
           /\ Tail(q) \in Seq(Jobs)
           /\ ToSet(Tail(q)) = ToSet(q) \ {Head(q)}
           /\ Head(q) \in ToSet(q)
           /\ \A i, k \in DOMAIN Tail(q) : i # k => Tail(q)[i] # Tail(q)[k]
<1>1. /\ Len(q) \in Nat \ {0}
      /\ DOMAIN q = 1..Len(q)
      /\ Head(q) = q[1]
      /\ Tail(q) \in Seq(Jobs)
      /\ Len(Tail(q)) = Len(q) - 1
      /\ DOMAIN Tail(q) = 1..(Len(q) - 1)
      /\ \A i \in 1..(Len(q) - 1) : Tail(q)[i] = q[i + 1]
  OBVIOUS
<1>2. \A i \in 2..Len(q) : q[i] # q[1] /\ q[i] = Tail(q)[i - 1]
  BY <1>1
<1>3. ToSet(Tail(q)) = ToSet(q) \ {Head(q)}
  <2>1. ASSUME NEW x \in ToSet(Tail(q))
        PROVE  x \in ToSet(q) \ {Head(q)}
    BY <1>1 DEF ToSet
  <2>2. ASSUME NEW x \in ToSet(q) \ {Head(q)}
        PROVE  x \in ToSet(Tail(q))
    <3>1. PICK i \in 1..Len(q) : x = q[i]
      BY <1>1 DEF ToSet
    <3>2. i \in 2..Len(q)
      BY <1>1, <3>1
    <3>3. x = Tail(q)[i - 1] /\ i - 1 \in 1..(Len(q) - 1)
      BY <1>1, <1>2, <3>1, <3>2
    <3>4. QED
      BY <1>1, <3>3 DEF ToSet
  <2>3. QED
    BY <2>1, <2>2
<1>4. Head(q) \in ToSet(q) /\ Head(q) \in Jobs
  <2>1. 1 \in DOMAIN q
    BY <1>1
  <2>2. q[1] \in ToSet(q)
    BY <2>1 DEF ToSet
  <2>3. q[1] \in Jobs
    BY <1>1, HeadTailProperties
  <2>4. QED
    BY <1>1, <2>2, <2>3
<1>5. QED
  BY <1>1, <1>3, <1>4

\* Adding a job to a queue that does not hold it.
LEMMA AppendFacts ==
    ASSUME NEW q \in Seq(Jobs), NEW j \in Jobs
    PROVE  /\ Append(q, j) \in Seq(Jobs)
           /\ ToSet(Append(q, j)) = ToSet(q) \cup {j}
           /\ (/\ j \notin ToSet(q)
               /\ \A i, k \in DOMAIN q : i # k => q[i] # q[k])
                => \A i, k \in DOMAIN Append(q, j) :
                       i # k => Append(q, j)[i] # Append(q, j)[k]
<1> DEFINE r == Append(q, j)
<1>1. /\ Len(q) \in Nat
      /\ DOMAIN q = 1..Len(q)
      /\ r \in Seq(Jobs)
      /\ DOMAIN r = 1..(Len(q) + 1)
      /\ \A i \in 1..Len(q) : r[i] = q[i]
      /\ r[Len(q) + 1] = j
  OBVIOUS
<1> HIDE DEF r
<1>2. ToSet(r) = ToSet(q) \cup {j}
  BY <1>1 DEF ToSet
<1>3. ASSUME j \notin ToSet(q),
             \A i, k \in DOMAIN q : i # k => q[i] # q[k],
             NEW i \in DOMAIN r, NEW k \in DOMAIN r, i # k
      PROVE  r[i] # r[k]
  BY <1>1, <1>3 DEF ToSet
<1>4. QED
  BY <1>1, <1>2, <1>3 DEF r

-----------------------------------------------------------------------------
(* Types *)

\* The ids start at 1, so 0 stands for no job.
LEMMA ZeroIsNoJob == 0 \notin Jobs
BY MaxJobsAssumption


\* Publishing an event keeps the mailboxes well typed.
LEMMA PublishTypes ==
    ASSUME BusTypeOK, NEW js, NEW e \in Event, PublishAll(js, e)
    PROVE  BusTypeOK'
<1>1. ASSUME NEW c \in Clients
      PROVE  /\ inbox[c] \in Seq(Event)
             /\ Append(inbox[c], e) \in Seq(Event)
  BY DEF BusTypeOK
<1>2. inbox' \in [Clients -> Seq(Event)]
  BY <1>1 DEF PublishAll
<1>3. QED
  BY <1>2 DEF PublishAll, BusTypeOK

\* Each action keeps the groups of variables it assigns well typed.
LEMMA TypeStep == TypeOK /\ [Next]_vars => TypeOK'
<1> SUFFICES ASSUME TypeOK, [Next]_vars
             PROVE  TypeOK'
  OBVIOUS
<1> USE DEF TypeOK
<1>stored. UNCHANGED storedVars => StoredTypeOK'
  BY DEF storedVars, StoredTypeOK
<1>memory. UNCHANGED memoryVars => MemoryTypeOK'
  BY DEF memoryVars, MemoryTypeOK
<1>worker. UNCHANGED workerVars => WorkerTypeOK'
  BY DEF workerVars, WorkerTypeOK, Busy
<1>request. UNCHANGED requestVars => RequestTypeOK'
  BY DEF requestVars, RequestTypeOK
<1>conn. UNCHANGED connVars => ConnTypeOK'
  BY DEF connVars, ConnTypeOK
<1>bus. UNCHANGED busVars => BusTypeOK'
  BY DEF busVars, BusTypeOK
<1>client. UNCHANGED clientVars => ConnTypeOK' /\ BusTypeOK'
  BY <1>conn, <1>bus DEF clientVars
<1>backend. UNCHANGED backendVars => /\ StoredTypeOK' /\ MemoryTypeOK'
                                     /\ WorkerTypeOK' /\ RequestTypeOK'
  BY <1>stored, <1>memory, <1>worker, <1>request DEF backendVars
<1>1. ASSUME NEW j \in Jobs, CreateInsert(j)
      PROVE  TypeOK'
  BY <1>1, <1>worker, <1>request, <1>client
     DEF CreateInsert, StoredTypeOK, MemoryTypeOK, Status
<1>2. ASSUME NEW j \in Jobs, CreateEnqueue(j)
      PROVE  TypeOK'
  BY <1>2, <1>stored, <1>worker, <1>request, <1>client, AppendFacts
     DEF CreateEnqueue, MemoryTypeOK
<1>3. ASSUME NEW w \in Workers, WorkerStep(w) \/ ThreadStep(w)
      PROVE  TypeOK'
  <2> USE DEF WorkerTypeOK, Busy, Step
  <2>1. CASE WorkerGet(w)
    <3>1. Head(queue) \in Jobs /\ Tail(queue) \in Seq(Jobs)
      BY <2>1, HeadTailProperties DEF WorkerGet, MemoryTypeOK
    <3>2. MemoryTypeOK'
      BY <2>1, <3>1 DEF WorkerGet, MemoryTypeOK
    <3>3. WorkerTypeOK'
      BY <2>1, <3>1 DEF WorkerGet
    <3>4. QED
      BY <2>1, <3>2, <3>3, <1>stored, <1>request, <1>client DEF WorkerGet
  <2>2. CASE WorkerLoad(w)
    BY <2>2, <1>stored, <1>memory, <1>request, <1>client DEF WorkerLoad
  <2>3. CASE WorkerClaim(w)
    BY <2>3, <1>memory, <1>request, <1>client
       DEF WorkerClaim, StoredTypeOK, Status
  <2>4. CASE WorkerStart(w)
    <3>1. BusTypeOK'
      BY <2>4, PublishTypes DEF WorkerStart, Publish, Event
    <3>2. QED
      BY <2>4, <3>1, <1>memory, <1>request, <1>conn
         DEF WorkerStart, StoredTypeOK
  <2>5. CASE WorkerStartFails(w)
    <3>1. BusTypeOK'
      BY <2>5, PublishTypes DEF WorkerStartFails, Publish, Event
    <3>2. QED
      BY <2>5, <3>1, <1>stored, <1>request, <1>conn, ZeroIsNoJob
         DEF WorkerStartFails, Release, MemoryTypeOK
  <2>6. CASE HookProgress(w)
    <3>1. BusTypeOK'
      BY <2>6, <1>bus, PublishTypes DEF HookProgress, Publish, Event
    <3>2. WorkerTypeOK'
      BY <2>6 DEF HookProgress
    <3>3. QED
      BY <2>6, <3>1, <3>2, <1>stored, <1>memory, <1>request, <1>conn
         DEF HookProgress
  <2>7. CASE FetchEnds(w)
    BY <2>7, <1>stored, <1>memory, <1>request, <1>client DEF FetchEnds
  <2>8. CASE HookPostprocessor(w)
    <3>1. BusTypeOK'
      BY <2>8, PublishTypes DEF HookPostprocessor, Publish, Event
    <3>2. QED
      BY <2>8, <3>1, <1>backend, <1>conn DEF HookPostprocessor
  <2>9. CASE ThreadEnds(w)
    BY <2>9, <1>memory, <1>request, <1>client
       DEF ThreadEnds, StoredTypeOK, InThread
  <2>10. CASE WorkerSweep(w)
    BY <2>10, <1>memory, <1>request, <1>client DEF WorkerSweep, StoredTypeOK
  <2>11. CASE MarkFailed(w)
    BY <2>11, <1>memory, <1>request, <1>client
       DEF MarkFailed, StoredTypeOK, Status
  <2>12. CASE MarkCancelled(w)
    BY <2>12, <1>memory, <1>request, <1>client
       DEF MarkCancelled, StoredTypeOK, Status
  <2>13. CASE MarkDone(w)
    <3>1. wjob[w] \in Jobs
      BY <2>13 DEF MarkDone
    <3>2. Owner[wjob[w]] = Guest \/ Owner[wjob[w]] \in Users
      BY <3>1, OwnerAssumption
    <3>3. WorkerTypeOK'
      BY <2>13, <3>2 DEF MarkDone
    <3>4. StoredTypeOK'
      BY <2>13, <3>1 DEF MarkDone, StoredTypeOK, Status
    <3>5. QED
      BY <2>13, <3>3, <3>4, <1>memory, <1>request, <1>client DEF MarkDone
  <2>14. CASE UsageRead(w)
    BY <2>14, <1>stored, <1>memory, <1>request, <1>client DEF UsageRead
  <2>15. CASE UsageWrite(w)
    BY <2>15, <1>memory, <1>request, <1>client, OwnerAssumption
       DEF UsageWrite, StoredTypeOK
  <2>16. CASE WorkerTell(w)
    <3>1. Outcome[wpc[w]] \in Event
      BY <2>16 DEF WorkerTell, Outcome, Event, Final
    <3>2. BusTypeOK'
      BY <2>16, <3>1, PublishTypes DEF WorkerTell, Publish
    <3>3. QED
      BY <2>16, <3>2, <1>stored, <1>request, <1>conn, ZeroIsNoJob
         DEF WorkerTell, Release, MemoryTypeOK
  <2>17. CASE WorkerQuit(w)
    BY <2>17, <1>stored, <1>request, <1>client, ZeroIsNoJob
       DEF WorkerQuit, Release, MemoryTypeOK
  <2>18. QED
    BY <1>3, <2>1, <2>2, <2>3, <2>4, <2>5, <2>6, <2>7, <2>8, <2>9, <2>10,
       <2>11, <2>12, <2>13, <2>14, <2>15, <2>16, <2>17
       DEF WorkerStep, ThreadStep
<1>4. ASSUME NEW h \in Cancellers, CancelStep(h)
      PROVE  TypeOK'
  <2> USE DEF RequestTypeOK, NoCancel
  <2>1. ASSUME NEW j \in Jobs, CancelRead(h, j)
        PROVE  TypeOK'
    BY <2>1, <1>stored, <1>memory, <1>worker, <1>client
       DEF CancelRead, StoredTypeOK
  <2>2. CASE CancelWaiting(h)
    BY <2>2, <1>memory, <1>worker, <1>client
       DEF CancelWaiting, StoredTypeOK, Status
  <2>3. CASE CancelTell(h)
    <3>1. BusTypeOK'
      BY <2>3, PublishTypes DEF CancelTell, Publish, Event, Final
    <3>2. QED
      BY <2>3, <3>1, <1>stored, <1>memory, <1>worker, <1>conn DEF CancelTell
  <2>4. CASE CancelRunning(h)
    BY <2>4, <1>stored, <1>worker, <1>client
       DEF CancelRunning, MemoryTypeOK
  <2>5. CASE CancelRefused(h)
    BY <2>5, <1>stored, <1>memory, <1>worker, <1>client DEF CancelRefused
  <2>6. QED
    BY <1>4, <2>1, <2>2, <2>3, <2>4, <2>5 DEF CancelStep
<1>5. ASSUME NEW a \in Admins, ClearStep(a)
      PROVE  TypeOK'
  <2> USE DEF RequestTypeOK, NoClear
  <2>1. CASE ClearRead(a)
    BY <2>1, <1>stored, <1>memory, <1>worker, <1>client
       DEF ClearRead, QueuedJobs
  <2>2. CASE ClearSignal(a)
    <3>1. BusTypeOK'
      BY <2>2, PublishTypes DEF ClearSignal, Event, Final
    <3>2. QED
      BY <2>2, <3>1, <1>stored, <1>worker, <1>conn
         DEF ClearSignal, MemoryTypeOK
  <2>3. CASE ClearCommit(a)
    BY <2>3, <1>memory, <1>worker, <1>client
       DEF ClearCommit, StoredTypeOK, Status
  <2>4. QED
    BY <1>5, <2>1, <2>2, <2>3 DEF ClearStep
<1>6. ASSUME NEW c \in Clients, SseStep(c)
      PROVE  TypeOK'
  <2> USE DEF ConnTypeOK
  <2>1. CASE SseOpen(c)
    BY <2>1, <1>backend, <1>bus, WatchedAssumption DEF SseOpen, StoredTypeOK
  <2>2. CASE SseFirst(c)
    BY <2>2, <1>backend, <1>bus DEF SseFirst
  <2>3. CASE SseSubscribe(c)
    BY <2>3, <1>backend DEF SseSubscribe, Subscribe, BusTypeOK
  <2>4. CASE SseDeliver(c)
    <3>1. /\ Head(inbox[c]) \in Event
          /\ Tail(inbox[c]) \in Seq(Event)
      BY <2>4, HeadTailProperties DEF SseDeliver, BusTypeOK
    <3>2. BusTypeOK'
      <4>1. CASE Unsubscribe(c)
        BY <4>1 DEF Unsubscribe, BusTypeOK
      <4>2. CASE Take(c) /\ UNCHANGED subs
        BY <4>2, <3>1 DEF Take, BusTypeOK
      <4>3. QED
        BY <2>4, <4>1, <4>2 DEF SseDeliver
    <3>3. ConnTypeOK'
      BY <2>4, <3>1 DEF SseDeliver
    <3>4. QED
      BY <2>4, <3>2, <3>3, <1>backend DEF SseDeliver
  <2>5. CASE SseDrop(c)
    BY <2>5, <1>backend, BoundsAssumption
       DEF SseDrop, Unsubscribe, BusTypeOK
  <2>6. QED
    BY <1>6, <2>1, <2>2, <2>3, <2>4, <2>5 DEF SseStep
<1>7. CASE Restart
  <2>1. MemoryTypeOK'
    <3>1. QueuedJobs \in SUBSET Jobs
      BY DEF QueuedJobs
    <3>2. queue' \in Seq(Jobs)
      BY <1>7, <3>1, InIdOrderFacts DEF Restart, Requeued
    <3>3. QED
      BY <1>7, <3>2 DEF Restart, MemoryTypeOK
  <2>2. StoredTypeOK'
    BY <1>7 DEF Restart, Reconciled, StoredTypeOK, Status
  <2>3. WorkerTypeOK'
    BY <1>7, ZeroIsNoJob DEF Restart, WorkerTypeOK, Busy, Step
  <2>4. RequestTypeOK'
    BY <1>7, BoundsAssumption
       DEF Restart, RequestTypeOK, NoCancel, NoClear
  <2>5. ConnTypeOK' /\ BusTypeOK'
    BY <1>7 DEF Restart, ConnTypeOK, BusTypeOK
  <2>6. QED
    BY <2>1, <2>2, <2>3, <2>4, <2>5
<1>8. CASE UNCHANGED vars
  BY <1>8, <1>backend, <1>client DEF vars
<1>9. QED
  BY <1>1, <1>2, <1>3, <1>4, <1>5, <1>6, <1>7, <1>8 DEF Next, Create

\* Initially.
LEMMA InitTypes == Init => TypeOK
<1> SUFFICES ASSUME Init PROVE TypeOK
  OBVIOUS
<1>1. StoredTypeOK
  BY DEF Init, StoredTypeOK
<1>2. MemoryTypeOK
  BY EmptySeq DEF Init, MemoryTypeOK
<1>3. WorkerTypeOK
  BY ZeroIsNoJob DEF Init, WorkerTypeOK, Busy, Step
<1>4. RequestTypeOK
  <2>1. NoCancel \in [pc   : {"idle", "read", "told"},
                      job  : Jobs \cup {0},
                      seen : Status \cup {"none"}]
    BY DEF NoCancel
  <2>2. NoClear \in [pc      : {"idle", "read", "signalled"},
                     waiting : SUBSET Jobs,
                     running : SUBSET Jobs]
    BY DEF NoClear
  <2>3. NoCancel.pc = "idle"
    BY DEF NoCancel
  <2>4. restarts \in 0..MaxRestarts
    <3>1. MaxRestarts \in Nat /\ restarts = 0
      BY BoundsAssumption, Zenon DEF Init
    <3>2. QED
      BY <3>1
  <2>5. QED
    BY <2>1, <2>2, <2>3, <2>4 DEF Init, RequestTypeOK
<1>5. ConnTypeOK
  BY DEF Init, ConnTypeOK
<1>6. BusTypeOK
  BY EmptySeq DEF Init, BusInit, BusTypeOK
<1>7. QED
  BY <1>1, <1>2, <1>3, <1>4, <1>5, <1>6 DEF TypeOK

\* Every variable keeps the type its declaration gives it, so each action
\* finds its job, its row and its mailbox.
THEOREM TypeCorrect == Spec => []TypeOK
BY InitTypes, TypeStep, PTL DEF Spec

-----------------------------------------------------------------------------
(* One pair of hands for every job *)

\* No action takes a row back, and only a new request makes a row queued.
LEMMA RowStep ==
    ASSUME TypeOK, [Next]_vars, NEW j \in Jobs
    PROVE  /\ status[j] # "none" => status'[j] # "none"
           /\ status'[j] = "queued" =>
                 \/ status[j] = "queued"
                 \/ status[j] = "none" /\ j \in creating'
<1> USE DEF TypeOK, StoredTypeOK
<1> DEFINE Kept == status' = status
<1>1. ASSUME NEW i \in Jobs, CreateInsert(i) \/ CreateEnqueue(i)
      PROVE  \/ Kept
             \/ /\ status[i] = "none"
                /\ creating' = creating \cup {i}
                /\ status' = [status EXCEPT ![i] = "queued"]
  BY <1>1 DEF CreateInsert, CreateEnqueue, storedVars
<1>2. ASSUME NEW w \in Workers, WorkerStep(w) \/ ThreadStep(w)
      PROVE  \/ Kept
             \/ \E s \in {"downloading", "failed", "cancelled", "done"} :
                    status' = [status EXCEPT ![wjob[w]] = s]
  BY <1>2 DEF WorkerStep, ThreadStep, WorkerGet, WorkerLoad, WorkerClaim,
              WorkerStart, WorkerStartFails, HookProgress, FetchEnds,
              HookPostprocessor, ThreadEnds, WorkerSweep, MarkFailed,
              MarkCancelled, MarkDone, UsageRead, UsageWrite, WorkerTell,
              WorkerQuit, backendVars, storedVars
<1>3. ASSUME NEW h \in Cancellers, CancelStep(h)
      PROVE  Kept \/ status' = [status EXCEPT ![cancel[h].job] = "cancelled"]
  BY <1>3 DEF CancelStep, CancelRead, CancelWaiting, CancelTell,
              CancelRunning, CancelRefused, storedVars
<1>4. ASSUME NEW a \in Admins, ClearStep(a)
      PROVE  \A i \in Jobs : status'[i] \in {status[i], "cancelled"}
  BY <1>4 DEF ClearStep, ClearRead, ClearSignal, ClearCommit, storedVars
<1>5. ASSUME NEW c \in Clients, SseStep(c)
      PROVE  Kept
  BY <1>5 DEF SseStep, SseOpen, SseFirst, SseSubscribe, SseDeliver, SseDrop,
              backendVars, storedVars
<1>6. CASE Restart
  BY <1>6 DEF Restart, Reconciled, Running
<1>7. CASE UNCHANGED vars
  BY <1>7 DEF vars, backendVars, storedVars
<1>8. QED
  BY <1>1, <1>2, <1>3, <1>4, <1>5, <1>6, <1>7 DEF Next, Create

\* What is in flight is jobs.
LEMMA InFlightInJobs ==
    ASSUME TypeOK
    PROVE  creating \cup ToSet(queue) \cup Held \subseteq Jobs
<1>1. creating \subseteq Jobs /\ Held \subseteq Jobs
  BY DEF TypeOK, MemoryTypeOK, WorkerTypeOK, Held
<1>2. queue \in Seq(Jobs)
  BY DEF TypeOK, MemoryTypeOK
<1>3. \A i \in DOMAIN queue : queue[i] \in Jobs
  BY <1>2, LenProperties, ElementOfSeq
<1>4. QED
  BY <1>1, <1>3 DEF ToSet

\* The actions that leave the queue and the hands of the workers alone.
LEMMA HandsKept ==
    ASSUME OneWorkerPerJob, UNCHANGED <<creating, queue, wjob>>
    PROVE  OneWorkerPerJob'
BY DEF OneWorkerPerJob, Held

\* A worker that lets its job go.
LEMMA HandsReleased ==
    ASSUME TypeOK, OneWorkerPerJob, NEW w \in Workers, Release(w),
           UNCHANGED <<creating, queue>>
    PROVE  OneWorkerPerJob' /\ Held' \subseteq Held
<1>1. Held' \subseteq Held
  BY DEF Held, Release, TypeOK, WorkerTypeOK
<1>2. \A v, x \in Workers : wjob'[v] # 0 /\ wjob'[v] = wjob'[x] => v = x
  BY DEF OneWorkerPerJob, Release, TypeOK, WorkerTypeOK
<1>3. QED
  BY <1>1, <1>2 DEF OneWorkerPerJob

\* The invariant of the hand-over.  OneWorkerPerJob alone is not inductive: a
\* new request must not be given an id that is already in flight.
HandsInv == TypeOK /\ OneWorkerPerJob /\ InFlightIsAccepted

LEMMA HandsStep == HandsInv /\ [Next]_vars => HandsInv'
<1> SUFFICES ASSUME HandsInv, [Next]_vars
             PROVE  HandsInv'
  OBVIOUS
<1> USE DEF HandsInv
<1>typed. TypeOK'
  BY TypeStep
<1>inJobs. creating \cup ToSet(queue) \cup Held \subseteq Jobs
  BY InFlightInJobs
<1>row. \A j \in Jobs : status[j] # "none" => status'[j] # "none"
  BY RowStep
<1>kept. ASSUME UNCHANGED <<creating, queue, wjob>>
         PROVE  HandsInv'
  <2>1. OneWorkerPerJob'
    BY <1>kept, HandsKept
  <2>2. InFlightIsAccepted'
    BY <1>kept, <1>row, <1>inJobs DEF InFlightIsAccepted, Held
  <2>3. QED
    BY <2>1, <2>2, <1>typed
<1>released. ASSUME NEW w \in Workers, Release(w), UNCHANGED <<creating, queue>>
             PROVE  HandsInv'
  <2>1. OneWorkerPerJob' /\ Held' \subseteq Held
    BY <1>released, HandsReleased
  <2>2. InFlightIsAccepted'
    BY <1>released, <2>1, <1>row, <1>inJobs DEF InFlightIsAccepted
  <2>3. QED
    BY <2>1, <2>2, <1>typed
<1>1. ASSUME NEW j \in Jobs, CreateInsert(j)
      PROVE  HandsInv'
  <2>1. j \notin creating \cup ToSet(queue) \cup Held
    BY <1>1 DEF CreateInsert, InFlightIsAccepted
  <2>2. /\ creating' = creating \cup {j}
        /\ UNCHANGED <<queue, wjob>>
        /\ status'[j] # "none"
    BY <1>1 DEF CreateInsert, workerVars, TypeOK, StoredTypeOK
  <2>3. OneWorkerPerJob'
    BY <2>1, <2>2 DEF OneWorkerPerJob, Held
  <2>4. InFlightIsAccepted'
    BY <2>2, <1>row, <1>inJobs DEF InFlightIsAccepted, Held
  <2>5. QED
    BY <2>3, <2>4, <1>typed
<1>2. ASSUME NEW j \in Jobs, CreateEnqueue(j)
      PROVE  HandsInv'
  <2>1. /\ j \in creating /\ j \notin ToSet(queue) \cup Held
        /\ creating' = creating \ {j}
        /\ queue' = Append(queue, j)
        /\ UNCHANGED wjob
    BY <1>2 DEF CreateEnqueue, workerVars, OneWorkerPerJob
  <2>2. /\ ToSet(queue') = ToSet(queue) \cup {j}
        /\ \A i, k \in DOMAIN queue' : i # k => queue'[i] # queue'[k]
    BY <2>1, AppendFacts DEF OneWorkerPerJob, TypeOK, MemoryTypeOK
  <2>3. Held' = Held
    BY <2>1 DEF Held
  <2>4. OneWorkerPerJob'
    BY <2>1, <2>2, <2>3 DEF OneWorkerPerJob
  <2>5. InFlightIsAccepted'
    BY <2>1, <2>2, <2>3, <1>row, <1>inJobs DEF InFlightIsAccepted
  <2>6. QED
    BY <2>4, <2>5, <1>typed
<1>3. ASSUME NEW w \in Workers, WorkerGet(w)
      PROVE  HandsInv'
  <2> DEFINE j == Head(queue)
  <2>1. /\ queue # <<>>
        /\ queue' = Tail(queue)
        /\ wjob' = [wjob EXCEPT ![w] = j]
        /\ UNCHANGED creating
    BY <1>3 DEF WorkerGet
  <2>2. /\ j \in Jobs /\ j \in ToSet(queue)
        /\ ToSet(queue') = ToSet(queue) \ {j}
        /\ \A i, k \in DOMAIN queue' : i # k => queue'[i] # queue'[k]
    BY <2>1, TailFacts DEF OneWorkerPerJob, TypeOK, MemoryTypeOK
  <2>3. j \notin Held /\ j \notin creating /\ j # 0
    BY <2>2, ZeroIsNoJob DEF OneWorkerPerJob
  <2> HIDE DEF j
  <2>4. wjob \in [Workers -> Jobs \cup {0}]
    BY DEF TypeOK, WorkerTypeOK
  <2>5. Held' \subseteq Held \cup {j}
    BY <2>1, <2>4 DEF Held
  <2>6. \A v \in Workers : wjob[v] # j
    BY <2>3 DEF Held
  <2>7. \A v, x \in Workers : wjob'[v] # 0 /\ wjob'[v] = wjob'[x] => v = x
    BY <2>1, <2>4, <2>6 DEF OneWorkerPerJob
  <2>8. OneWorkerPerJob'
    BY <2>1, <2>2, <2>3, <2>5, <2>7 DEF OneWorkerPerJob
  <2>9. InFlightIsAccepted'
    BY <2>1, <2>2, <2>5, <1>row, <1>inJobs DEF InFlightIsAccepted
  <2>10. QED
    BY <2>8, <2>9, <1>typed
<1>4. ASSUME NEW w \in Workers, \/ WorkerStartFails(w)
                                \/ WorkerTell(w)
                                \/ WorkerQuit(w)
      PROVE  HandsInv'
  BY <1>4, <1>released DEF WorkerStartFails, WorkerTell, WorkerQuit
<1>5. ASSUME NEW w \in Workers,
             \/ ThreadStep(w)
             \/ WorkerLoad(w) \/ WorkerClaim(w) \/ WorkerStart(w)
             \/ WorkerSweep(w) \/ MarkFailed(w) \/ MarkCancelled(w)
             \/ MarkDone(w) \/ UsageRead(w) \/ UsageWrite(w)
      PROVE  HandsInv'
  BY <1>5, <1>kept
     DEF ThreadStep, HookProgress, FetchEnds, HookPostprocessor, ThreadEnds,
         WorkerLoad, WorkerClaim, WorkerStart, WorkerSweep, MarkFailed,
         MarkCancelled, MarkDone, UsageRead, UsageWrite, memoryVars,
         workerVars, backendVars
<1>6. ASSUME NEW h \in Cancellers, CancelStep(h)
      PROVE  HandsInv'
  BY <1>6, <1>kept
     DEF CancelStep, CancelRead, CancelWaiting, CancelTell, CancelRunning,
         CancelRefused, memoryVars, workerVars
<1>7. ASSUME NEW a \in Admins, ClearStep(a)
      PROVE  HandsInv'
  BY <1>7, <1>kept
     DEF ClearStep, ClearRead, ClearSignal, ClearCommit, memoryVars, workerVars
<1>8. ASSUME NEW c \in Clients, SseStep(c)
      PROVE  HandsInv'
  BY <1>8, <1>kept
     DEF SseStep, SseOpen, SseFirst, SseSubscribe, SseDeliver, SseDrop,
         memoryVars, workerVars, backendVars
<1>9. CASE Restart
  <2>1. QueuedJobs \in SUBSET Jobs /\ queue' \in InIdOrder(QueuedJobs)
    BY <1>9 DEF Restart, Requeued, QueuedJobs
  <2>2. /\ ToSet(queue') = QueuedJobs
        /\ \A i, k \in DOMAIN queue' : i # k => queue'[i] # queue'[k]
    BY <2>1, InIdOrderFacts
  <2>3. /\ creating' = {}
        /\ \A w \in Workers : wjob'[w] = 0
    BY <1>9 DEF Restart
  <2>4. Held' = {}
    BY <2>3 DEF Held
  <2>5. OneWorkerPerJob'
    BY <2>2, <2>3, <2>4 DEF OneWorkerPerJob
  <2>6. InFlightIsAccepted'
    BY <2>2, <2>3, <2>4, <1>row DEF InFlightIsAccepted, QueuedJobs
  <2>7. QED
    BY <2>5, <2>6, <1>typed
<1>10. CASE UNCHANGED vars
  BY <1>10, <1>kept DEF vars, backendVars, memoryVars, workerVars
<1>11. QED
  BY <1>1, <1>2, <1>3, <1>4, <1>5, <1>6, <1>7, <1>8, <1>9, <1>10
     DEF Next, Create, WorkerStep

LEMMA HandsInit == Init => HandsInv
<1> SUFFICES ASSUME Init PROVE HandsInv
  OBVIOUS
<1>1. /\ creating = {} /\ queue = <<>>
      /\ \A w \in Workers : wjob[w] = 0
  BY DEF Init
<1>2. Held = {} /\ ToSet(queue) = {}
  BY <1>1 DEF Held, ToSet
<1>3. OneWorkerPerJob /\ InFlightIsAccepted
  BY <1>1, <1>2 DEF OneWorkerPerJob, InFlightIsAccepted
<1>4. QED
  BY <1>3, InitTypes DEF HandsInv

\* Every job waits once or is with one worker, whatever the requests, the
\* workers and the restarts do.
THEOREM OneWorkerPerJobHolds == Spec => []OneWorkerPerJob
<1>1. HandsInv => OneWorkerPerJob
  BY DEF HandsInv
<1>2. QED
  BY <1>1, HandsInit, HandsStep, PTL DEF Spec

-----------------------------------------------------------------------------
(* No queued row is forgotten *)

\* A queued row is still accounted for after any step.
LEMMA NoLostJobStep ==
    ASSUME HandsInv, NoLostJob, [Next]_vars
    PROVE  NoLostJob'
<1> DEFINE Loads(w, j) == wjob[w] = j /\ wpc[w] \in {"load", "claim"}
           Found(j) == \/ j \in creating \cup ToSet(queue)
                       \/ \E w \in Workers : Loads(w, j)
<1>types. /\ wpc \in [Workers -> Step]
          /\ wjob \in [Workers -> Jobs \cup {0}]
          /\ queue \in Seq(Jobs)
          /\ status \in [Jobs -> Status \cup {"none"}]
  BY DEF HandsInv, TypeOK, WorkerTypeOK, MemoryTypeOK, StoredTypeOK
<1>before. \A j \in Jobs : status'[j] = "queued" => j \in creating' \/ Found(j)
  BY RowStep DEF NoLostJob, QueuedJobs, HandsInv
<1>after. ASSUME \A j \in Jobs : status'[j] = "queued" /\ Found(j) => Found(j)'
          PROVE  NoLostJob'
  BY <1>before, <1>after DEF NoLostJob, QueuedJobs
<1>kept. ASSUME UNCHANGED <<creating, queue>>,
                \A w \in Workers, j \in Jobs :
                    status'[j] = "queued" /\ Loads(w, j) => Loads(w, j)'
         PROVE  NoLostJob'
  BY <1>kept, <1>after
<1>still. ASSUME UNCHANGED <<creating, queue, wpc, wjob>>
          PROVE  NoLostJob'
  BY <1>still, <1>kept
<1>1. ASSUME NEW i \in Jobs, CreateInsert(i)
      PROVE  NoLostJob'
  <2>1. /\ creating' = creating \cup {i}
        /\ UNCHANGED <<queue, wpc, wjob>>
    BY <1>1 DEF CreateInsert, workerVars
  <2>2. QED
    BY <2>1, <1>after
<1>2. ASSUME NEW i \in Jobs, CreateEnqueue(i)
      PROVE  NoLostJob'
  <2>1. /\ creating' = creating \ {i}
        /\ ToSet(queue') = ToSet(queue) \cup {i}
        /\ UNCHANGED <<wpc, wjob>>
    BY <1>2, <1>types, AppendFacts DEF CreateEnqueue, workerVars
  <2>2. QED
    BY <2>1, <1>after
<1>3. ASSUME NEW w \in Workers, WorkerGet(w)
      PROVE  NoLostJob'
  <2>1. /\ queue # <<>> /\ wpc[w] = "idle"
        /\ queue' = Tail(queue)
        /\ wjob' = [wjob EXCEPT ![w] = Head(queue)]
        /\ wpc' = [wpc EXCEPT ![w] = "load"]
        /\ UNCHANGED creating
    BY <1>3 DEF WorkerGet
  <2>2. ToSet(queue') = ToSet(queue) \ {Head(queue)}
    BY <2>1, TailFacts, <1>types DEF HandsInv, OneWorkerPerJob
  <2>3. wjob'[w] = Head(queue) /\ wpc'[w] = "load"
    BY <2>1, <1>types
  <2>4. \A v \in Workers, j \in Jobs : Loads(v, j) => Loads(v, j)'
    BY <2>1, <1>types
  <2>5. QED
    BY <2>1, <2>2, <2>3, <2>4, <1>after
<1>4. ASSUME NEW w \in Workers, WorkerLoad(w)
      PROVE  NoLostJob'
  BY <1>4, <1>kept, <1>types DEF WorkerLoad, storedVars, memoryVars
<1>5. ASSUME NEW w \in Workers, WorkerClaim(w)
      PROVE  NoLostJob'
  BY <1>5, <1>kept, <1>types DEF WorkerClaim, memoryVars
<1>6. ASSUME NEW w \in Workers, \/ WorkerStart(w)
                                \/ WorkerStartFails(w)
                                \/ ThreadStep(w)
                                \/ WorkerSweep(w) \/ MarkFailed(w)
                                \/ MarkCancelled(w) \/ MarkDone(w)
                                \/ UsageRead(w) \/ UsageWrite(w)
                                \/ WorkerTell(w) \/ WorkerQuit(w)
      PROVE  NoLostJob'
  <2>1. /\ wpc[w] \notin {"load", "claim"}
        /\ UNCHANGED <<creating, queue>>
        /\ wjob' = [wjob EXCEPT ![w] = wjob'[w]]
        /\ wpc' = [wpc EXCEPT ![w] = wpc'[w]]
    BY <1>6, <1>types
       DEF WorkerStart, WorkerStartFails, ThreadStep, HookProgress, FetchEnds,
           HookPostprocessor, ThreadEnds, WorkerSweep, MarkFailed,
           MarkCancelled, MarkDone, UsageRead, UsageWrite, WorkerTell,
           WorkerQuit, Release, Outcome, InThread, memoryVars, workerVars,
           backendVars
  <2>2. \A v \in Workers, j \in Jobs : Loads(v, j) => Loads(v, j)'
    BY <2>1, <1>types
  <2>3. QED
    BY <2>1, <2>2, <1>kept
<1>7. ASSUME NEW h \in Cancellers, CancelStep(h)
      PROVE  NoLostJob'
  BY <1>7, <1>still
     DEF CancelStep, CancelRead, CancelWaiting, CancelTell, CancelRunning,
         CancelRefused, memoryVars, workerVars
<1>8. ASSUME NEW a \in Admins, ClearStep(a)
      PROVE  NoLostJob'
  BY <1>8, <1>still
     DEF ClearStep, ClearRead, ClearSignal, ClearCommit, memoryVars, workerVars
<1>9. ASSUME NEW c \in Clients, SseStep(c)
      PROVE  NoLostJob'
  BY <1>9, <1>still
     DEF SseStep, SseOpen, SseFirst, SseSubscribe, SseDeliver, SseDrop,
         memoryVars, workerVars, backendVars
<1>10. CASE Restart
  <2>1. QueuedJobs \in SUBSET Jobs /\ queue' \in InIdOrder(QueuedJobs)
    BY <1>10 DEF Restart, Requeued, QueuedJobs
  <2>2. ToSet(queue') = QueuedJobs
    BY <2>1, InIdOrderFacts
  <2>3. \A j \in Jobs : status'[j] = "queued" => status[j] = "queued"
    BY <1>10, <1>types DEF Restart, Reconciled
  <2>4. QED
    BY <2>2, <2>3 DEF NoLostJob, QueuedJobs
<1>11. CASE UNCHANGED vars
  BY <1>11, <1>still DEF vars, backendVars, memoryVars, workerVars
<1>12. QED
  BY <1>1, <1>2, <1>3, <1>4, <1>5, <1>6, <1>7, <1>8, <1>9, <1>10, <1>11
     DEF Next, Create, WorkerStep

\* A queued row is never forgotten (P-03): some request, the queue or some
\* worker still has it, after a restart as before.
THEOREM NoLostJobHolds == Spec => []NoLostJob
<1>1. Init => NoLostJob
  BY DEF Init, NoLostJob, QueuedJobs
<1>2. HandsInv /\ NoLostJob /\ [Next]_vars => NoLostJob'
  BY NoLostJobStep
<1>3. QED
  BY <1>1, <1>2, HandsInit, HandsStep, PTL DEF Spec

-----------------------------------------------------------------------------
(* Cancel flags *)

\* What the requests in flight and the flags rest on: every row they name was
\* accepted, and a row that was seen running never waits again.
FlagInv ==
    /\ \A j \in flags : status[j] \notin {"none", "queued"}
    /\ \A h \in Cancellers :
          cancel[h].pc # "idle" =>
             /\ status[cancel[h].job] # "none"
             /\ cancel[h].seen \in Running => status[cancel[h].job] # "queued"
    /\ \A a \in Admins :
          /\ \A j \in clear[a].waiting : status[j] # "none"
          /\ \A j \in clear[a].running : status[j] \notin {"none", "queued"}

LEMMA FlagStep ==
    ASSUME TypeOK, FlagInv, [Next]_vars
    PROVE  FlagInv'
<1>types. /\ flags \in SUBSET Jobs
          /\ \A h \in Cancellers : cancel[h].pc # "idle" => cancel[h].job \in Jobs
          /\ \A a \in Admins : /\ clear[a].waiting \in SUBSET Jobs
                               /\ clear[a].running \in SUBSET Jobs
  BY DEF TypeOK, MemoryTypeOK, RequestTypeOK
<1>rows. \A j \in Jobs :
            /\ status[j] # "none" => status'[j] # "none"
            /\ status[j] \notin {"none", "queued"}
                  => status'[j] \notin {"none", "queued"}
  BY RowStep
<1>kept. ASSUME flags' \subseteq flags, UNCHANGED <<cancel, clear>>
         PROVE  FlagInv'
  BY <1>kept, <1>types, <1>rows DEF FlagInv
<1>1. ASSUME NEW j \in Jobs, CreateInsert(j) \/ CreateEnqueue(j)
      PROVE  FlagInv'
  BY <1>1, <1>kept DEF CreateInsert, CreateEnqueue, requestVars
<1>2. ASSUME NEW w \in Workers, WorkerStep(w) \/ ThreadStep(w)
      PROVE  FlagInv'
  BY <1>2, <1>kept
     DEF WorkerStep, ThreadStep, WorkerGet, WorkerLoad, WorkerClaim,
         WorkerStart, WorkerStartFails, HookProgress, FetchEnds,
         HookPostprocessor, ThreadEnds, WorkerSweep, MarkFailed,
         MarkCancelled, MarkDone, UsageRead, UsageWrite, WorkerTell,
         WorkerQuit, Release, memoryVars, requestVars, backendVars
<1>3. ASSUME NEW h \in Cancellers, CancelStep(h)
      PROVE  FlagInv'
  <2> USE DEF RequestTypeOK
  <2>0. cancel \in [Cancellers -> [pc   : {"idle", "read", "told"},
                                   job  : Jobs \cup {0},
                                   seen : Status \cup {"none"}]]
    BY DEF TypeOK
  <2>1. ASSUME NEW j \in Jobs, CancelRead(h, j)
        PROVE  FlagInv'
    <3>1. /\ status' = status /\ flags' = flags /\ clear' = clear
          /\ status[j] # "none"
          /\ cancel' = [cancel EXCEPT ![h] =
                           [pc |-> "read", job |-> j, seen |-> status[j]]]
      BY <2>1 DEF CancelRead, storedVars, memoryVars
    <3>2. QED
      BY <3>1, <2>0, <1>types DEF FlagInv, Running
  <2>2. CASE CancelWaiting(h)
    <3>1. /\ flags' = flags /\ clear' = clear
          /\ cancel' = [cancel EXCEPT ![h].pc = "told"]
          /\ cancel[h].pc # "idle"
      BY <2>2 DEF CancelWaiting, memoryVars
    <3>2. \A g \in Cancellers : /\ cancel'[g].job = cancel[g].job
                                /\ cancel'[g].seen = cancel[g].seen
                                /\ cancel'[g].pc # "idle" => cancel[g].pc # "idle"
      BY <3>1, <2>0
    <3>3. QED
      BY <3>1, <3>2, <1>types, <1>rows DEF FlagInv
  <2>3. ASSUME cancel' = [cancel EXCEPT ![h] = NoCancel], UNCHANGED clear,
               \A j \in flags' : status[j] \notin {"none", "queued"} /\ j \in Jobs
        PROVE  FlagInv'
    <3>1. \A g \in Cancellers : \/ cancel'[g] = cancel[g]
                                \/ cancel'[g].pc = "idle"
      BY <2>3, <2>0 DEF NoCancel
    <3>2. QED
      BY <2>3, <3>1, <1>types, <1>rows DEF FlagInv
  <2>4. CASE CancelTell(h) \/ CancelRefused(h)
    BY <2>4, <2>3, <1>types DEF CancelTell, CancelRefused, memoryVars, FlagInv
  <2>5. CASE CancelRunning(h)
    <3>1. /\ cancel[h].pc = "read" /\ cancel[h].seen \in Running
          /\ flags' = flags \cup {cancel[h].job}
          /\ cancel' = [cancel EXCEPT ![h] = NoCancel]
          /\ UNCHANGED clear
      BY <2>5 DEF CancelRunning
    <3>2. QED
      BY <3>1, <2>3, <1>types DEF FlagInv
  <2>6. QED
    BY <1>3, <2>1, <2>2, <2>4, <2>5 DEF CancelStep
<1>4. ASSUME NEW a \in Admins, ClearStep(a)
      PROVE  FlagInv'
  <2>0. clear \in [Admins -> [pc      : {"idle", "read", "signalled"},
                              waiting : SUBSET Jobs,
                              running : SUBSET Jobs]]
    BY DEF TypeOK, RequestTypeOK
  <2>1. CASE ClearRead(a)
    <3>1. /\ status' = status /\ flags' = flags /\ cancel' = cancel
          /\ \A b \in Admins :
                \/ clear'[b] = clear[b]
                \/ /\ clear'[b].waiting = QueuedJobs
                   /\ clear'[b].running = {j \in Jobs : status[j] \in Running}
      BY <2>1, <2>0 DEF ClearRead, storedVars, memoryVars
    <3>2. QED
      BY <3>1, <1>types DEF FlagInv, QueuedJobs, Running
  <2>2. CASE ClearSignal(a)
    <3>1. /\ cancel' = cancel
          /\ flags' = flags \cup clear[a].running
          /\ \A b \in Admins : /\ clear'[b].waiting = clear[b].waiting
                               /\ clear'[b].running = clear[b].running
      BY <2>2, <2>0 DEF ClearSignal, requestVars
    <3>2. QED
      BY <3>1, <1>types, <1>rows DEF FlagInv
  <2>3. CASE ClearCommit(a)
    <3>1. /\ cancel' = cancel /\ flags' = flags
          /\ \A b \in Admins : \/ clear'[b] = clear[b]
                               \/ /\ clear'[b].waiting = {}
                                  /\ clear'[b].running = {}
      BY <2>3, <2>0 DEF ClearCommit, NoClear, memoryVars
    <3>2. QED
      BY <3>1, <1>types, <1>rows DEF FlagInv
  <2>4. QED
    BY <1>4, <2>1, <2>2, <2>3 DEF ClearStep
<1>5. ASSUME NEW c \in Clients, SseStep(c)
      PROVE  FlagInv'
  BY <1>5, <1>kept
     DEF SseStep, SseOpen, SseFirst, SseSubscribe, SseDeliver, SseDrop,
         memoryVars, requestVars, backendVars
<1>6. CASE Restart
  <2>1. /\ flags' = {}
        /\ \A h \in Cancellers : cancel'[h].pc = "idle"
        /\ \A a \in Admins : clear'[a].waiting = {} /\ clear'[a].running = {}
    BY <1>6 DEF Restart, NoCancel, NoClear
  <2>2. QED
    BY <2>1 DEF FlagInv
<1>7. CASE UNCHANGED vars
  BY <1>7, <1>kept DEF vars, backendVars, memoryVars, requestVars
<1>8. QED
  BY <1>1, <1>2, <1>3, <1>4, <1>5, <1>6, <1>7 DEF Next, Create

LEMMA FlagInit == Init => FlagInv
<1> SUFFICES ASSUME Init PROVE FlagInv
  OBVIOUS
<1>1. /\ flags = {}
      /\ cancel = [h \in Cancellers |-> NoCancel]
      /\ clear = [a \in Admins |-> NoClear]
  BY DEF Init
<1>2. NoCancel.pc = "idle" /\ NoClear.waiting = {} /\ NoClear.running = {}
  BY DEF NoCancel, NoClear
<1>3. QED
  BY <1>1, <1>2 DEF FlagInv

\* A flag raised by a cancel or a clear-queue request never strikes a job that
\* has yet to start, however late the request acts on what it read.
THEOREM FlagNeverOnQueuedHolds == Spec => []FlagNeverOnQueued
<1>1. TypeOK /\ FlagInv => FlagNeverOnQueued
  BY DEF FlagInv, FlagNeverOnQueued, QueuedJobs
<1>2. TypeOK /\ FlagInv /\ [Next]_vars => FlagInv'
  BY FlagStep
<1>3. QED
  BY <1>1, <1>2, InitTypes, FlagInit, TypeStep, PTL DEF Spec

-----------------------------------------------------------------------------
(* The queue and the workers implement HandOff *)

\* The jobs that are accepted and neither pending nor in a worker's hands.
Pending == creating \cup ToSet(queue)
Over == {j \in Jobs : status[j] # "none"} \ (Pending \cup Held)

\* Only a new request turns a missing row into a row.
LEMMA NewRowStep ==
    ASSUME HandsInv, FlagInv, [Next]_vars, NEW j \in Jobs, status[j] = "none",
           creating' = creating \/ j \notin creating'
    PROVE  status'[j] = "none"
<1>types. /\ status \in [Jobs -> Status \cup {"none"}]
          /\ wpc \in [Workers -> Step]
          /\ \A w \in Workers : wpc[w] # "idle" <=> wjob[w] \in Jobs
  BY DEF HandsInv, TypeOK, StoredTypeOK, WorkerTypeOK, Busy
<1>held. \A w \in Workers : wpc[w] # "idle" => wjob[w] # j
  BY <1>types, ZeroIsNoJob DEF HandsInv, InFlightIsAccepted, Held
<1>1. ASSUME NEW i \in Jobs, CreateInsert(i)
      PROVE  status'[j] = "none"
  <2>1. i \notin creating
    BY <1>1 DEF CreateInsert, HandsInv, InFlightIsAccepted
  <2>2. i # j
    BY <1>1, <2>1 DEF CreateInsert
  <2>3. QED
    BY <1>1, <2>2, <1>types DEF CreateInsert
<1>2. ASSUME NEW i \in Jobs, CreateEnqueue(i)
      PROVE  status'[j] = "none"
  BY <1>2 DEF CreateEnqueue, storedVars
<1>3. ASSUME NEW w \in Workers, WorkerStep(w) \/ ThreadStep(w)
      PROVE  status'[j] = "none"
  <2>1. \/ status' = status
        \/ /\ wpc[w] # "idle"
           /\ \E s \in {"downloading", "failed", "cancelled", "done"} :
                 status' = [status EXCEPT ![wjob[w]] = s]
    BY <1>3 DEF WorkerStep, ThreadStep, WorkerGet, WorkerLoad, WorkerClaim,
                WorkerStart, WorkerStartFails, HookProgress, FetchEnds,
                HookPostprocessor, ThreadEnds, WorkerSweep, MarkFailed,
                MarkCancelled, MarkDone, UsageRead, UsageWrite, WorkerTell,
                WorkerQuit, backendVars, storedVars
  <2>2. QED
    BY <2>1, <1>held, <1>types
<1>4. ASSUME NEW h \in Cancellers, CancelStep(h)
      PROVE  status'[j] = "none"
  <2>1. \/ status' = status
        \/ /\ cancel[h].pc # "idle"
           /\ status' = [status EXCEPT ![cancel[h].job] = "cancelled"]
    BY <1>4 DEF CancelStep, CancelRead, CancelWaiting, CancelTell,
                CancelRunning, CancelRefused, storedVars
  <2>2. cancel[h].pc # "idle" => cancel[h].job # j
    BY DEF FlagInv
  <2>3. QED
    BY <2>1, <2>2, <1>types
<1>5. ASSUME NEW a \in Admins, ClearStep(a)
      PROVE  status'[j] = "none"
  <2>1. j \notin clear[a].waiting
    BY DEF FlagInv
  <2>2. QED
    BY <1>5, <2>1, <1>types
       DEF ClearStep, ClearRead, ClearSignal, ClearCommit, storedVars
<1>6. ASSUME NEW c \in Clients, SseStep(c)
      PROVE  status'[j] = "none"
  BY <1>6 DEF SseStep, SseOpen, SseFirst, SseSubscribe, SseDeliver, SseDrop,
              backendVars, storedVars
<1>7. CASE Restart
  BY <1>7, <1>types DEF Restart, Reconciled, Running
<1>8. CASE UNCHANGED vars
  BY <1>8 DEF vars, backendVars, storedVars
<1>9. QED
  BY <1>1, <1>2, <1>3, <1>4, <1>5, <1>6, <1>7, <1>8 DEF Next, Create

\* Each step of the program is a step of HandOff or leaves its variables alone.
LEMMA HandOffStep ==
    ASSUME HandsInv, FlagInv, NoLostJob, HandsInv', [Next]_vars
    PROVE  [HO!Next]_(HO!vars)
<1> USE DEF HO!Next, HO!vars
<1>types. /\ wjob \in [Workers -> Jobs \cup {0}]
          /\ queue \in Seq(Jobs)
          /\ creating \in SUBSET Jobs
          /\ status \in [Jobs -> Status \cup {"none"}]
  BY DEF HandsInv, TypeOK, WorkerTypeOK, MemoryTypeOK, StoredTypeOK
<1>hands. HO!InHands = Held
  BY DEF HO!InHands, Held
<1>rows. ASSUME creating' = creating
         PROVE  \A j \in Jobs : status'[j] # "none" <=> status[j] # "none"
  BY <1>rows, RowStep, NewRowStep DEF HandsInv
<1>kept. ASSUME UNCHANGED <<creating, queue, wjob>>
         PROVE  UNCHANGED HO!vars
  BY <1>kept, <1>rows DEF Held
<1>released. ASSUME NEW w \in Workers, Release(w), wpc[w] # "idle",
                    UNCHANGED <<creating, queue>>
             PROVE  HO!GiveBack(w)
  <2>1. wjob[w] \in Jobs /\ wjob[w] # 0
    BY <1>released, ZeroIsNoJob DEF HandsInv, TypeOK, WorkerTypeOK, Busy
  <2>2. wjob' = [wjob EXCEPT ![w] = 0]
    BY <1>released DEF Release
  <2>3. Held' = Held \ {wjob[w]} /\ wjob[w] \in Held
    BY <2>1, <2>2, <1>types DEF Held, HandsInv, OneWorkerPerJob
  <2>4. wjob[w] \notin Pending /\ status[wjob[w]] # "none"
    BY <2>3 DEF Pending, HandsInv, OneWorkerPerJob, InFlightIsAccepted
  <2>5. Over' = Over \cup {wjob[w]}
    BY <2>1, <2>3, <2>4, <1>rows, <1>released DEF Over, Pending
  <2>6. QED
    BY <2>1, <2>2, <2>5, <1>released DEF HO!GiveBack, Over, Pending
<1>1. ASSUME NEW j \in Jobs, CreateInsert(j)
      PROVE  HO!Accept(j)
  <2>1. /\ status[j] = "none"
        /\ creating' = creating \cup {j}
        /\ status' = [status EXCEPT ![j] = "queued"]
        /\ UNCHANGED <<queue, wjob>>
    BY <1>1 DEF CreateInsert, workerVars
  <2>2. j \notin Pending \cup Held \cup Over
    BY <2>1 DEF Pending, Over, HandsInv, InFlightIsAccepted
  <2>3. Pending' = Pending \cup {j} /\ Held' = Held
    BY <2>1 DEF Pending, Held
  <2>4. Over' = Over
    BY <2>1, <2>2, <2>3, <1>types DEF Over
  <2>5. QED
    BY <2>1, <2>2, <2>3, <2>4, <1>hands DEF HO!Accept, Pending, Over
<1>2. ASSUME NEW j \in Jobs, CreateEnqueue(j)
      PROVE  UNCHANGED HO!vars
  <2>1. /\ creating' = creating \ {j} /\ j \in creating
        /\ ToSet(queue') = ToSet(queue) \cup {j}
        /\ UNCHANGED <<status, wjob>>
    BY <1>2, <1>types, AppendFacts DEF CreateEnqueue, workerVars, storedVars
  <2>2. Pending' = Pending /\ Held' = Held
    BY <2>1 DEF Pending, Held
  <2>3. QED
    BY <2>1, <2>2 DEF Pending
<1>3. ASSUME NEW w \in Workers, WorkerGet(w)
      PROVE  HO!Hold(w, Head(queue)) /\ Head(queue) \in Jobs
  <2> DEFINE j == Head(queue)
  <2>1. /\ queue # <<>> /\ wpc[w] = "idle"
        /\ queue' = Tail(queue)
        /\ wjob' = [wjob EXCEPT ![w] = j]
        /\ UNCHANGED <<creating, status>>
    BY <1>3 DEF WorkerGet, storedVars
  <2>2. /\ j \in Jobs /\ j \in ToSet(queue)
        /\ ToSet(queue') = ToSet(queue) \ {j}
    BY <2>1, <1>types, TailFacts DEF HandsInv, OneWorkerPerJob
  <2>3. j \notin Held /\ j \notin creating /\ j # 0
    BY <2>2, ZeroIsNoJob DEF HandsInv, OneWorkerPerJob
  <2> HIDE DEF j
  <2>4. wjob[w] = 0
    BY <2>1, <1>types DEF HandsInv, TypeOK, WorkerTypeOK, Busy
  <2>5. Held' = Held \cup {j}
    <3>1. \A v \in Workers : wjob'[v] = IF v = w THEN j ELSE wjob[v]
      BY <2>1, <1>types
    <3>2. QED
      BY <2>3, <2>4, <3>1 DEF Held
  <2>6. Pending' = Pending \ {j} /\ j \in Pending
    BY <2>1, <2>2, <2>3 DEF Pending
  <2>7. Over' = Over
    BY <2>1, <2>5, <2>6 DEF Over
  <2>8. QED
    BY <2>1, <2>2, <2>4, <2>6, <2>7 DEF HO!Hold, Pending, Over, j
<1>4. ASSUME NEW w \in Workers, \/ WorkerStartFails(w)
                                \/ WorkerTell(w)
                                \/ WorkerQuit(w)
      PROVE  HO!GiveBack(w)
  BY <1>4, <1>released
     DEF WorkerStartFails, WorkerTell, WorkerQuit, Outcome
<1>5. ASSUME NEW w \in Workers,
             \/ ThreadStep(w)
             \/ WorkerLoad(w) \/ WorkerClaim(w) \/ WorkerStart(w)
             \/ WorkerSweep(w) \/ MarkFailed(w) \/ MarkCancelled(w)
             \/ MarkDone(w) \/ UsageRead(w) \/ UsageWrite(w)
      PROVE  UNCHANGED HO!vars
  <2>1. UNCHANGED <<creating, queue, wjob>>
    BY <1>5
       DEF ThreadStep, HookProgress, FetchEnds, HookPostprocessor, ThreadEnds,
           WorkerLoad, WorkerClaim, WorkerStart, WorkerSweep, MarkFailed,
           MarkCancelled, MarkDone, UsageRead, UsageWrite, memoryVars,
           workerVars, backendVars
  <2>2. QED
    BY <2>1, <1>kept
<1>6. ASSUME NEW h \in Cancellers, CancelStep(h)
      PROVE  UNCHANGED HO!vars
  <2>1. UNCHANGED <<creating, queue, wjob>>
    BY <1>6 DEF CancelStep, CancelRead, CancelWaiting, CancelTell,
                CancelRunning, CancelRefused, memoryVars, workerVars
  <2>2. QED
    BY <2>1, <1>kept
<1>7. ASSUME NEW a \in Admins, ClearStep(a)
      PROVE  UNCHANGED HO!vars
  <2>1. UNCHANGED <<creating, queue, wjob>>
    BY <1>7 DEF ClearStep, ClearRead, ClearSignal, ClearCommit, memoryVars,
                workerVars
  <2>2. QED
    BY <2>1, <1>kept
<1>8. ASSUME NEW c \in Clients, SseStep(c)
      PROVE  UNCHANGED HO!vars
  <2>1. UNCHANGED <<creating, queue, wjob>>
    BY <1>8 DEF SseStep, SseOpen, SseFirst, SseSubscribe, SseDeliver, SseDrop,
                memoryVars, workerVars, backendVars
  <2>2. QED
    BY <2>1, <1>kept
<1>9. CASE Restart
  <2>1. ToSet(queue') = QueuedJobs
    <3>1. QueuedJobs \in SUBSET Jobs /\ queue' \in InIdOrder(QueuedJobs)
      BY <1>9 DEF Restart, Requeued, QueuedJobs
    <3>2. QED
      BY <3>1, InIdOrderFacts
  <2>2. /\ creating' = {}
        /\ wjob' = [w \in Workers |-> 0]
    BY <1>9 DEF Restart
  <2>3. Held' = {} /\ Pending' = QueuedJobs
    BY <2>1, <2>2 DEF Held, Pending
  <2>4. \A j \in Jobs : status'[j] # "none" <=> status[j] # "none"
    BY <1>9, <1>types DEF Restart, Reconciled, Running
  <2>5. \A j \in QueuedJobs : j \in Jobs /\ status[j] # "none"
    BY DEF QueuedJobs
  <2>6. QueuedJobs \subseteq Pending \cup Held
    <3>1. ASSUME NEW j \in QueuedJobs, NEW w \in Workers, wjob[w] = j
          PROVE  j \in Held
      BY <3>1, <2>5, ZeroIsNoJob DEF Held
    <3>2. QED
      BY <3>1 DEF NoLostJob, Pending
  <2>7. Pending \cup Held \subseteq {j \in Jobs : status[j] # "none"}
    BY InFlightInJobs DEF Pending, HandsInv, InFlightIsAccepted
  <2>8. Over' = Over \cup ((Pending \cup Held) \ QueuedJobs)
    BY <2>3, <2>4, <2>6, <2>7 DEF Over
  <2>9. HO!Recover
    BY <2>2, <2>3, <2>6, <2>8, <1>hands DEF HO!Recover, Pending, Over
  <2>10. QED
    BY <2>9
<1>10. CASE UNCHANGED vars
  BY <1>10, <1>kept DEF vars, backendVars, memoryVars, workerVars
<1>11. QED
  BY <1>1, <1>2, <1>3, <1>4, <1>5, <1>6, <1>7, <1>8, <1>9, <1>10
     DEF Next, Create, WorkerStep

\* The queue, the workers and the restarts implement HandOff: each accepted
\* job is handed to at most one worker, and none comes back once it is over.
THEOREM HandedOverOnceHolds == Spec => HandedOverOnce
<1>1. Init => HO!Init
  <2> SUFFICES ASSUME Init PROVE HO!Init
    OBVIOUS
  <2>1. /\ creating = {} /\ queue = <<>>
        /\ wjob = [w \in Workers |-> 0]
        /\ \A j \in Jobs : status[j] = "none"
    BY DEF Init
  <2>2. ToSet(queue) = {}
    BY <2>1 DEF ToSet
  <2>3. QED
    BY <2>1, <2>2 DEF HO!Init
<1>2. FlagInv /\ HandsInv /\ [Next]_vars => FlagInv'
  BY FlagStep DEF HandsInv
<1>3. HandsInv /\ NoLostJob /\ [Next]_vars => NoLostJob'
  BY NoLostJobStep
<1>4. HandsInv /\ FlagInv /\ NoLostJob /\ HandsInv' /\ [Next]_vars
         => [HO!Next]_(HO!vars)
  BY HandOffStep
<1>5. Init => NoLostJob
  BY DEF Init, NoLostJob, QueuedJobs
<1>6. QED
  BY <1>1, <1>2, <1>3, <1>4, <1>5, HandsInit, HandsStep, FlagInit, PTL
     DEF Spec, HandedOverOnce, HO!Spec

-----------------------------------------------------------------------------
(* The files of a failed job *)

\* Between the claim of a job and the commit of its outcome.
Working == {"announce", "fetch", "post", "ok", "failed", "cancelled",
            "markFailed", "markCancelled"}

\* The directory is removed before the row says so, and while a worker is on a
\* job nobody else writes "failed" in its row.
FileInv ==
    /\ FailedLeavesNothing
    /\ \A w \in Workers :
          /\ wpc[w] = "markFailed" => dir[wjob[w]] = "none"
          /\ wpc[w] \in Working => status[wjob[w]] # "failed"

LEMMA FileStep ==
    ASSUME HandsInv, FileInv, [Next]_vars
    PROVE  FileInv'
<1>types. /\ wpc \in [Workers -> Step]
          /\ wjob \in [Workers -> Jobs \cup {0}]
          /\ \A w \in Workers : wpc[w] # "idle" <=> wjob[w] \in Jobs
          /\ status \in [Jobs -> Status \cup {"none"}]
          /\ error \in [Jobs -> {"", "job", "restart"}]
          /\ dir \in [Jobs -> {"none", "partial", "final"}]
  BY DEF HandsInv, TypeOK, WorkerTypeOK, StoredTypeOK, Busy
<1>apart. \A w, x \in Workers : wpc[w] # "idle" /\ wjob[w] = wjob[x] => w = x
  BY <1>types, ZeroIsNoJob DEF HandsInv, OneWorkerPerJob
<1>kept. ASSUME UNCHANGED <<error, dir, wpc, wjob>>,
                \A j \in Jobs : status'[j] = "failed" => status[j] = "failed"
         PROVE  FileInv'
  BY <1>kept, <1>types, ZeroIsNoJob
     DEF FileInv, FailedLeavesNothing, Working
<1>moved. ASSUME NEW w \in Workers, UNCHANGED <<status, error, dir>>,
                 wpc'[w] \in Working => wpc[w] \in Working /\ wjob'[w] = wjob[w],
                 wpc'[w] # "markFailed",
                 \A v \in Workers \ {w} : wpc'[v] = wpc[v] /\ wjob'[v] = wjob[v]
          PROVE  FileInv'
  BY <1>moved DEF FileInv, FailedLeavesNothing, Working
<1>1. ASSUME NEW j \in Jobs, CreateInsert(j) \/ CreateEnqueue(j)
      PROVE  FileInv'
  BY <1>1, <1>kept, <1>types
     DEF CreateInsert, CreateEnqueue, workerVars, storedVars
<1>2. ASSUME NEW w \in Workers, \/ WorkerGet(w) \/ WorkerLoad(w)
                                \/ WorkerStartFails(w)
                                \/ HookProgress(w) \/ FetchEnds(w)
                                \/ HookPostprocessor(w)
                                \/ UsageRead(w) \/ UsageWrite(w)
                                \/ WorkerTell(w) \/ WorkerQuit(w)
      PROVE  FileInv'
  <2>1. /\ UNCHANGED <<status, error, dir>>
        /\ wpc'[w] \in Working => wpc[w] \in Working /\ wjob'[w] = wjob[w]
        /\ wpc'[w] # "markFailed"
        /\ \A v \in Workers \ {w} : wpc'[v] = wpc[v] /\ wjob'[v] = wjob[v]
    BY <1>2, <1>types
       DEF WorkerGet, WorkerLoad, WorkerStartFails, HookProgress, FetchEnds,
           HookPostprocessor, UsageRead, UsageWrite, WorkerTell, WorkerQuit,
           Release, Working, Outcome, storedVars, workerVars, backendVars
  <2>2. QED
    BY <2>1, <1>moved
<1>3. ASSUME NEW w \in Workers, WorkerClaim(w)
      PROVE  FileInv'
  <2>1. /\ wpc[w] = "claim" /\ wpc'[w] = "announce"
        /\ UNCHANGED <<dir, error, wjob>>
        /\ \A j \in Jobs : j # wjob[w] => status'[j] = status[j]
        /\ status'[wjob[w]] = "downloading"
        /\ \A v \in Workers : v # w => wpc'[v] = wpc[v]
    BY <1>3, <1>types DEF WorkerClaim
  <2>2. FailedLeavesNothing'
    BY <2>1 DEF FileInv, FailedLeavesNothing
  <2>3. ASSUME NEW v \in Workers, v # w, wpc[v] # "idle"
        PROVE  wjob[v] \in Jobs /\ wjob[v] # wjob[w]
    BY <2>3, <1>types, <1>apart
  <2>4. QED
    BY <2>1, <2>2, <2>3 DEF FileInv, Working
<1>4. ASSUME NEW w \in Workers, WorkerStart(w) \/ ThreadEnds(w) \/ WorkerSweep(w)
      PROVE  FileInv'
  <2>1. /\ UNCHANGED <<status, error, wjob>>
        /\ wpc[w] \in Working /\ wpc[w] # "markFailed"
        /\ \A j \in Jobs : j # wjob[w] => dir'[j] = dir[j]
        /\ \A v \in Workers : v # w => wpc'[v] = wpc[v]
        /\ wpc'[w] = "markFailed" => dir'[wjob[w]] = "none"
    BY <1>4, <1>types
       DEF WorkerStart, ThreadEnds, WorkerSweep, InThread, Working, storedVars
  <2>2. FailedLeavesNothing'
    BY <2>1 DEF FileInv, FailedLeavesNothing
  <2>3. ASSUME NEW v \in Workers, v # w
        PROVE  /\ wpc'[v] = "markFailed" => dir'[wjob'[v]] = "none"
               /\ wpc'[v] \in Working => status'[wjob'[v]] # "failed"
    <3>1. wpc'[v] = wpc[v] /\ wjob'[v] = wjob[v]
      BY <2>1, <2>3
    <3>2. wpc[v] # "idle" => wjob[v] \in Jobs /\ wjob[v] # wjob[w]
      BY <2>3, <1>types, <1>apart
    <3>3. wpc'[v] = "markFailed" => dir'[wjob'[v]] = "none"
      BY <2>1, <3>1, <3>2 DEF FileInv
    <3>4. wpc'[v] \in Working => status'[wjob'[v]] # "failed"
      BY <2>1, <3>1 DEF FileInv
    <3>5. QED
      BY <3>3, <3>4
  <2>4. wpc'[w] \in Working => status'[wjob'[w]] # "failed"
    BY <2>1 DEF FileInv
  <2>5. QED
    BY <2>1, <2>2, <2>3, <2>4 DEF FileInv
<1>5. ASSUME NEW w \in Workers, MarkFailed(w)
      PROVE  FileInv'
  <2>1. /\ wpc[w] = "markFailed" /\ wpc'[w] = "tellFailed"
        /\ UNCHANGED <<dir, wjob>>
        /\ \A j \in Jobs : j # wjob[w] => /\ status'[j] = status[j]
                                         /\ error'[j] = error[j]
        /\ \A v \in Workers : v # w => wpc'[v] = wpc[v]
    BY <1>5, <1>types DEF MarkFailed
  <2>2. FailedLeavesNothing'
    BY <2>1 DEF FileInv, FailedLeavesNothing
  <2>3. ASSUME NEW v \in Workers, v # w, wpc[v] # "idle"
        PROVE  wjob[v] \in Jobs /\ wjob[v] # wjob[w]
    BY <2>3, <1>types, <1>apart
  <2>4. QED
    BY <2>1, <2>2, <2>3 DEF FileInv, Working
<1>6. ASSUME NEW w \in Workers, MarkCancelled(w) \/ MarkDone(w)
      PROVE  FileInv'
  <2>1. /\ wpc[w] # "idle" /\ wpc'[w] \notin Working
        /\ UNCHANGED <<dir, error, wjob>>
        /\ \A j \in Jobs : j # wjob[w] => status'[j] = status[j]
        /\ status'[wjob[w]] # "failed"
        /\ \A v \in Workers : v # w => wpc'[v] = wpc[v]
    BY <1>6, <1>types DEF MarkCancelled, MarkDone, Working
  <2>2. FailedLeavesNothing'
    BY <2>1 DEF FileInv, FailedLeavesNothing
  <2>3. ASSUME NEW v \in Workers, v # w, wpc[v] # "idle"
        PROVE  wjob[v] \in Jobs /\ wjob[v] # wjob[w]
    BY <2>3, <1>types, <1>apart
  <2>4. QED
    BY <2>1, <2>2, <2>3 DEF FileInv, Working
<1>7. ASSUME NEW h \in Cancellers, CancelStep(h)
      PROVE  FileInv'
  BY <1>7, <1>kept, <1>types
     DEF CancelStep, CancelRead, CancelWaiting, CancelTell, CancelRunning,
         CancelRefused, storedVars, workerVars
<1>8. ASSUME NEW a \in Admins, ClearStep(a)
      PROVE  FileInv'
  BY <1>8, <1>kept, <1>types
     DEF ClearStep, ClearRead, ClearSignal, ClearCommit, storedVars, workerVars
<1>9. ASSUME NEW c \in Clients, SseStep(c)
      PROVE  FileInv'
  BY <1>9, <1>kept
     DEF SseStep, SseOpen, SseFirst, SseSubscribe, SseDeliver, SseDrop,
         storedVars, workerVars, backendVars
<1>10. CASE Restart
  BY <1>10, <1>types
     DEF Restart, Reconciled, FileInv, FailedLeavesNothing, Working
<1>11. CASE UNCHANGED vars
  BY <1>11, <1>kept DEF vars, backendVars, storedVars, workerVars
<1>12. QED
  BY <1>1, <1>2, <1>3, <1>4, <1>5, <1>6, <1>7, <1>8, <1>9, <1>10, <1>11
     DEF Next, Create, WorkerStep, ThreadStep

\* A job that failed by itself has no file left once its row says "failed"
\* (F-32), whatever cancel and clear requests wrote to the row in between.
THEOREM FailedLeavesNothingHolds == Spec => []FailedLeavesNothing
<1>1. Init => FileInv
  BY DEF Init, FileInv, FailedLeavesNothing, Working
<1>2. HandsInv /\ FileInv /\ [Next]_vars => FileInv'
  BY FileStep
<1>3. FileInv => FailedLeavesNothing
  BY DEF FileInv
<1>4. QED
  BY <1>1, <1>2, <1>3, HandsInit, HandsStep, PTL DEF Spec

-----------------------------------------------------------------------------
(* Running rows *)

\* A row that says a download is running has a worker between its claim and the
\* commit of its outcome: RunningHasWorker alone does not say that the worker
\* will settle the row before it lets the job go.
RunInv ==
    \A j \in Jobs :
        status[j] \in Running =>
            \E w \in Workers : wjob[w] = j /\ wpc[w] \in Working

LEMMA RunStep ==
    ASSUME TypeOK, RunInv, [Next]_vars, MkdirFaults = FALSE
    PROVE  RunInv'
<1>types. /\ wpc \in [Workers -> Step]
          /\ wjob \in [Workers -> Jobs \cup {0}]
          /\ status \in [Jobs -> Status \cup {"none"}]
  BY DEF TypeOK, WorkerTypeOK, StoredTypeOK
\* One worker moves, and the rows of the others stay.
<1>moved. ASSUME NEW w \in Workers,
                 \A v \in Workers \ {w} : wpc'[v] = wpc[v] /\ wjob'[v] = wjob[v],
                 \A j \in Jobs : j # wjob[w] => status'[j] = status[j],
                 \/ wpc[w] \notin Working /\ UNCHANGED status
                 \/ /\ wjob'[w] = wjob[w]
                    /\ wpc'[w] \in Working \/ status'[wjob[w]] \notin Running
          PROVE  RunInv'
  <2> SUFFICES ASSUME NEW j \in Jobs, status'[j] \in Running
               PROVE  \E v \in Workers : wjob'[v] = j /\ wpc'[v] \in Working
    BY DEF RunInv
  <2>1. CASE j = wjob[w] /\ wjob'[w] = wjob[w] /\ wpc'[w] \in Working
    BY <2>1
  <2>2. CASE status[j] \in Running /\ (j # wjob[w] \/ wpc[w] \notin Working)
    <3>1. PICK v \in Workers : wjob[v] = j /\ wpc[v] \in Working
      BY <2>2 DEF RunInv
    <3>2. v # w
      BY <2>2, <3>1
    <3>3. QED
      BY <1>moved, <3>1, <3>2
  <2>3. QED
    BY <1>moved, <2>1, <2>2
<1>kept. ASSUME UNCHANGED <<wpc, wjob>>,
                \A j \in Jobs : status'[j] \in Running => status[j] \in Running
         PROVE  RunInv'
  BY <1>kept DEF RunInv
<1>1. ASSUME NEW j \in Jobs, CreateInsert(j) \/ CreateEnqueue(j)
      PROVE  RunInv'
  BY <1>1, <1>kept, <1>types
     DEF CreateInsert, CreateEnqueue, workerVars, storedVars, Running
<1>2. ASSUME NEW w \in Workers, \/ WorkerGet(w) \/ WorkerLoad(w)
                                \/ UsageRead(w) \/ UsageWrite(w)
                                \/ WorkerTell(w) \/ WorkerQuit(w)
      PROVE  RunInv'
  <2>1. /\ \A v \in Workers \ {w} : wpc'[v] = wpc[v] /\ wjob'[v] = wjob[v]
        /\ wpc[w] \notin Working /\ UNCHANGED status
    BY <1>2, <1>types
       DEF WorkerGet, WorkerLoad, UsageRead, UsageWrite, WorkerTell, WorkerQuit,
           Release, Working, Outcome, storedVars
  <2>2. QED
    BY <2>1, <1>moved
<1>3. ASSUME NEW w \in Workers, \/ WorkerClaim(w) \/ WorkerStart(w)
                                \/ ThreadStep(w) \/ WorkerSweep(w)
      PROVE  RunInv'
  <2>1. /\ \A v \in Workers \ {w} : wpc'[v] = wpc[v] /\ wjob'[v] = wjob[v]
        /\ \A j \in Jobs : j # wjob[w] => status'[j] = status[j]
        /\ wjob'[w] = wjob[w] /\ wpc'[w] \in Working
    BY <1>3, <1>types
       DEF WorkerClaim, WorkerStart, ThreadStep, HookProgress, FetchEnds,
           HookPostprocessor, ThreadEnds, WorkerSweep, InThread, Working,
           storedVars, workerVars, backendVars
  <2>2. QED
    BY <2>1, <1>moved
<1>4. ASSUME NEW w \in Workers, MarkFailed(w) \/ MarkCancelled(w) \/ MarkDone(w)
      PROVE  RunInv'
  <2>1. /\ \A v \in Workers \ {w} : wpc'[v] = wpc[v] /\ wjob'[v] = wjob[v]
        /\ \A j \in Jobs : j # wjob[w] => status'[j] = status[j]
        /\ wjob'[w] = wjob[w] /\ wpc[w] # "idle"
    BY <1>4, <1>types DEF MarkFailed, MarkCancelled, MarkDone
  <2>2. wjob[w] \in Jobs
    BY <2>1 DEF TypeOK, WorkerTypeOK, Busy
  <2>3. status'[wjob[w]] \notin Running
    BY <1>4, <1>types, <2>2 DEF MarkFailed, MarkCancelled, MarkDone, Running
  <2>4. QED
    BY <2>1, <2>3, <1>moved
<1>5. ASSUME NEW h \in Cancellers, CancelStep(h)
      PROVE  RunInv'
  BY <1>5, <1>kept, <1>types
     DEF CancelStep, CancelRead, CancelWaiting, CancelTell, CancelRunning,
         CancelRefused, storedVars, workerVars, Running
<1>6. ASSUME NEW a \in Admins, ClearStep(a)
      PROVE  RunInv'
  BY <1>6, <1>kept, <1>types
     DEF ClearStep, ClearRead, ClearSignal, ClearCommit, storedVars, workerVars,
         Running
<1>7. ASSUME NEW c \in Clients, SseStep(c)
      PROVE  RunInv'
  BY <1>7, <1>kept
     DEF SseStep, SseOpen, SseFirst, SseSubscribe, SseDeliver, SseDrop,
         storedVars, workerVars, backendVars
<1>8. CASE Restart
  BY <1>8, <1>types DEF Restart, Reconciled, RunInv, Running
<1>9. CASE UNCHANGED vars
  BY <1>9, <1>kept DEF vars, backendVars, storedVars, workerVars
<1>10. QED
  BY <1>1, <1>2, <1>3, <1>4, <1>5, <1>6, <1>7, <1>8, <1>9
     DEF Next, Create, WorkerStep, WorkerStartFails

\* A row never stays "downloading" by itself, where nothing would settle it and
\* where it would count against max_queue_size, as long as the directories of
\* the jobs can be created: mkdir is outside the try block of _process_job, and
\* its failure leaves such a row.
THEOREM RunningHasWorkerHolds ==
    MkdirFaults = FALSE => (Spec => []RunningHasWorker)
<1> SUFFICES ASSUME MkdirFaults = FALSE
             PROVE  Spec => []RunningHasWorker
  OBVIOUS
<1>1. Init => RunInv
  BY DEF Init, RunInv, Running
<1>2. TypeOK /\ RunInv /\ [Next]_vars => RunInv'
  BY RunStep
<1>3. RunInv => RunningHasWorker
  BY DEF RunInv, RunningHasWorker
<1>4. QED
  BY <1>1, <1>2, <1>3, InitTypes, TypeStep, PTL DEF Spec

-----------------------------------------------------------------------------
(* What the streams announce *)

\* After the commit of an outcome, or with nothing to do.
After == {"usage", "usageWrite", "tellDone", "tellFailed", "tellCancelled",
          "quit"}

\* Nobody will write an outcome in the row of j any more, but for requests that
\* read it earlier and cancel it.
Finished(j) ==
    /\ j \notin creating \cup ToSet(queue)
    /\ \A w \in Workers : wjob[w] = j => wpc[w] \in After

\* What a browser was told, is about to be told, or was promised by the SELECT
\* that opened its stream.
Said(c) == {view[c], snap[c]} \cup ToSet(inbox[c])

\* An outcome is committed before it is announced, and stays, unless it is
\* overwritten by "cancelled": AnnouncedIsCommitted alone does not exclude that a
\* worker claims the job again.
TellInv ==
    /\ \A j \in Jobs : status[j] \in {"done", "failed"} => Finished(j)
    /\ \A w \in Workers :
          /\ wpc[w] \in {"usage", "usageWrite", "tellDone"} =>
                status[wjob[w]] \in {"done", "cancelled"}
          /\ wpc[w] = "tellFailed" => status[wjob[w]] \in {"failed", "cancelled"}
    /\ \A c \in Clients : \A s \in {"done", "failed"} :
          s \in Said(c) => /\ status[Watched[c]] \in {s, "cancelled"}
                           /\ Finished(Watched[c])

\* A job that is finished stays so, and its row changes at most to "cancelled".
LEMMA FinishedStays ==
    ASSUME TypeOK, [Next]_vars, NEW j \in Jobs, Finished(j),
           status[j] \in {"done", "failed", "cancelled"}
    PROVE  Finished(j)' /\ status'[j] \in {status[j], "cancelled"}
<1>types. /\ wpc \in [Workers -> Step]
          /\ wjob \in [Workers -> Jobs \cup {0}]
          /\ \A w \in Workers : wpc[w] # "idle" <=> wjob[w] \in Jobs
          /\ status \in [Jobs -> Status \cup {"none"}]
          /\ queue \in Seq(Jobs)
  BY DEF TypeOK, WorkerTypeOK, StoredTypeOK, MemoryTypeOK, Busy
<1> DEFINE Goal == Finished(j)' /\ status'[j] \in {status[j], "cancelled"}
<1>kept. ASSUME UNCHANGED <<creating, queue, wpc, wjob>>,
                status'[j] \in {status[j], "cancelled"}
         PROVE  Goal
  BY <1>kept DEF Finished
<1>moved. ASSUME NEW w \in Workers, UNCHANGED <<creating, queue>>,
                 \A v \in Workers \ {w} : wpc'[v] = wpc[v] /\ wjob'[v] = wjob[v],
                 status'[j] = status[j],
                 wjob'[w] = j => wpc'[w] \in After
          PROVE  Goal
  BY <1>moved DEF Finished
<1>1. ASSUME NEW i \in Jobs, CreateInsert(i)
      PROVE  Goal
  <2>1. i # j /\ creating' = creating \cup {i} /\ UNCHANGED <<queue, wpc, wjob>>
        /\ status'[j] = status[j]
    BY <1>1, <1>types DEF CreateInsert, workerVars
  <2>2. QED
    BY <2>1 DEF Finished
<1>2. ASSUME NEW i \in Jobs, CreateEnqueue(i)
      PROVE  Goal
  <2>1. /\ i # j /\ creating' = creating \ {i} /\ UNCHANGED <<wpc, wjob, status>>
        /\ ToSet(queue') = ToSet(queue) \cup {i}
    BY <1>2, <1>types, AppendFacts
       DEF CreateEnqueue, workerVars, storedVars, Finished
  <2>2. QED
    BY <2>1 DEF Finished
<1>3. ASSUME NEW w \in Workers, WorkerGet(w)
      PROVE  Goal
  <2>1. /\ queue # <<>> /\ queue' = Tail(queue) /\ UNCHANGED <<creating, status>>
        /\ wjob' = [wjob EXCEPT ![w] = Head(queue)]
        /\ wpc' = [wpc EXCEPT ![w] = "load"]
    BY <1>3 DEF WorkerGet, storedVars
  <2>2. /\ Head(queue) \in ToSet(queue)
        /\ ToSet(queue') \subseteq ToSet(queue)
    BY <2>1, <1>types DEF ToSet
  <2>3. Head(queue) # j
    BY <2>2 DEF Finished
  <2>4. \A v \in Workers : wjob'[v] = j => wjob[v] = j /\ wpc'[v] = wpc[v]
    BY <2>1, <2>3, <1>types
  <2>5. QED
    BY <2>1, <2>2, <2>4 DEF Finished
<1>4. ASSUME NEW w \in Workers, WorkerStep(w) \/ ThreadStep(w), ~WorkerGet(w)
      PROVE  Goal
  <2>1. UNCHANGED <<creating, queue>>
    BY <1>4 DEF WorkerStep, ThreadStep, WorkerLoad, WorkerClaim, WorkerStart,
              WorkerStartFails, HookProgress, FetchEnds, HookPostprocessor,
              ThreadEnds, WorkerSweep, MarkFailed, MarkCancelled, MarkDone,
              UsageRead, UsageWrite, WorkerTell, WorkerQuit, memoryVars,
              backendVars
  <2>2. \A v \in Workers \ {w} : wpc'[v] = wpc[v] /\ wjob'[v] = wjob[v]
    BY <1>4, <1>types
       DEF WorkerStep, ThreadStep, WorkerLoad, WorkerClaim, WorkerStart,
           WorkerStartFails, HookProgress, FetchEnds, HookPostprocessor,
           ThreadEnds, WorkerSweep, MarkFailed, MarkCancelled, MarkDone,
           UsageRead, UsageWrite, WorkerTell, WorkerQuit, Release, workerVars,
           backendVars
  <2>3. CASE wjob[w] = j
    <3>1. wpc[w] \in After
      BY <2>3 DEF Finished
    <3>2. UsageRead(w) \/ UsageWrite(w) \/ WorkerTell(w) \/ WorkerQuit(w)
      BY <1>4, <3>1
         DEF WorkerStep, ThreadStep, WorkerLoad, WorkerClaim, WorkerStart,
             WorkerStartFails, HookProgress, FetchEnds, HookPostprocessor,
             ThreadEnds, WorkerSweep, MarkFailed, MarkCancelled, MarkDone,
             InThread, After
    <3>3. /\ status'[j] = status[j]
          /\ wjob'[w] = j => wpc'[w] \in After
      BY <3>2, <1>types, ZeroIsNoJob
         DEF UsageRead, UsageWrite, WorkerTell, WorkerQuit, Release, storedVars,
             After
    <3>4. QED
      BY <2>1, <2>2, <3>3, <1>moved
  <2>4. CASE wjob[w] # j
    <3>1. status'[j] = status[j] /\ wjob'[w] # j
      BY <1>4, <2>4, <1>types, ZeroIsNoJob
         DEF WorkerStep, ThreadStep, WorkerLoad, WorkerClaim, WorkerStart,
             WorkerStartFails, HookProgress, FetchEnds, HookPostprocessor,
             ThreadEnds, WorkerSweep, MarkFailed, MarkCancelled, MarkDone,
             UsageRead, UsageWrite, WorkerTell, WorkerQuit, Release, workerVars,
             storedVars, backendVars
    <3>2. QED
      BY <2>1, <2>2, <3>1, <1>moved
  <2>5. QED
    BY <2>3, <2>4
<1>5. ASSUME NEW h \in Cancellers, CancelStep(h)
      PROVE  Goal
  BY <1>5, <1>kept, <1>types
     DEF CancelStep, CancelRead, CancelWaiting, CancelTell, CancelRunning,
         CancelRefused, storedVars, memoryVars, workerVars
<1>6. ASSUME NEW a \in Admins, ClearStep(a)
      PROVE  Goal
  BY <1>6, <1>kept, <1>types
     DEF ClearStep, ClearRead, ClearSignal, ClearCommit, storedVars, memoryVars,
         workerVars
<1>7. ASSUME NEW c \in Clients, SseStep(c)
      PROVE  Goal
  BY <1>7, <1>kept
     DEF SseStep, SseOpen, SseFirst, SseSubscribe, SseDeliver, SseDrop,
         storedVars, memoryVars, workerVars, backendVars
<1>8. CASE Restart
  <2>1. QueuedJobs \in SUBSET Jobs /\ queue' \in InIdOrder(QueuedJobs)
    BY <1>8 DEF Restart, Requeued, QueuedJobs
  <2>2. j \notin ToSet(queue')
    BY <2>1, InIdOrderFacts DEF QueuedJobs
  <2>3. status'[j] = status[j]
    BY <1>8, <1>types DEF Restart, Reconciled, Running
  <2>4. creating' = {} /\ \A w \in Workers : wjob'[w] # j
    BY <1>8, ZeroIsNoJob DEF Restart
  <2>5. QED
    BY <2>2, <2>3, <2>4 DEF Finished
<1>9. CASE UNCHANGED vars
  BY <1>9, <1>kept DEF vars, backendVars, storedVars, memoryVars, workerVars
<1>10. QED
  BY <1>1, <1>2, <1>3, <1>4, <1>5, <1>6, <1>7, <1>8, <1>9 DEF Next, Create

\* The job of a worker that has committed its outcome is finished.
LEMMA AfterIsFinished ==
    ASSUME HandsInv, NEW w \in Workers, wpc[w] \in After
    PROVE  wjob[w] \in Jobs /\ Finished(wjob[w])
<1>1. wjob[w] \in Jobs
  BY DEF HandsInv, TypeOK, WorkerTypeOK, Busy, After
<1>2. wjob[w] \in Held /\ wjob[w] # 0
  BY <1>1, ZeroIsNoJob DEF Held
<1>3. wjob[w] \notin creating \cup ToSet(queue)
  BY <1>2 DEF HandsInv, OneWorkerPerJob
<1>4. \A v \in Workers : wjob[v] = wjob[w] => v = w
  BY <1>2 DEF HandsInv, OneWorkerPerJob
<1>5. QED
  BY <1>1, <1>3, <1>4 DEF Finished

\* How a row comes to say "done" or "failed".
LEMMA RowEnds ==
    ASSUME TypeOK, [Next]_vars, NEW j \in Jobs, status'[j] \in {"done", "failed"}
    PROVE  \/ status[j] = status'[j]
           \/ \E w \in Workers : wjob[w] = j /\ (MarkDone(w) \/ MarkFailed(w))
           \/ Restart
<1> USE DEF TypeOK, StoredTypeOK
<1>1. ASSUME NEW i \in Jobs, CreateInsert(i) \/ CreateEnqueue(i)
      PROVE  status[j] = status'[j]
  BY <1>1 DEF CreateInsert, CreateEnqueue, storedVars
<1>2. ASSUME NEW w \in Workers, WorkerStep(w) \/ ThreadStep(w)
      PROVE  \/ status[j] = status'[j]
             \/ wjob[w] = j /\ (MarkDone(w) \/ MarkFailed(w))
  BY <1>2 DEF WorkerStep, ThreadStep, WorkerGet, WorkerLoad, WorkerClaim,
              WorkerStart, WorkerStartFails, HookProgress, FetchEnds,
              HookPostprocessor, ThreadEnds, WorkerSweep, MarkFailed,
              MarkCancelled, MarkDone, UsageRead, UsageWrite, WorkerTell,
              WorkerQuit, backendVars, storedVars
<1>3. ASSUME NEW h \in Cancellers, CancelStep(h)
      PROVE  status[j] = status'[j]
  BY <1>3 DEF CancelStep, CancelRead, CancelWaiting, CancelTell,
              CancelRunning, CancelRefused, storedVars
<1>4. ASSUME NEW a \in Admins, ClearStep(a)
      PROVE  status[j] = status'[j]
  BY <1>4 DEF ClearStep, ClearRead, ClearSignal, ClearCommit, storedVars
<1>5. ASSUME NEW c \in Clients, SseStep(c)
      PROVE  status[j] = status'[j]
  BY <1>5 DEF SseStep, SseOpen, SseFirst, SseSubscribe, SseDeliver, SseDrop,
              backendVars, storedVars
<1>6. CASE UNCHANGED vars
  BY <1>6 DEF vars, backendVars, storedVars
<1>7. QED
  BY <1>1, <1>2, <1>3, <1>4, <1>5, <1>6 DEF Next, Create

\* Publishing adds an event to the mailboxes of the job, and to no other.
LEMMA PublishFacts ==
    ASSUME TypeOK, NEW js, NEW e \in Event, PublishAll(js, e), NEW c \in Clients
    PROVE  /\ ToSet(inbox'[c]) \subseteq ToSet(inbox[c]) \cup {e}
           /\ Watched[c] \notin js => inbox'[c] = inbox[c]
<1>1. inbox[c] \in Seq(Event)
  BY DEF TypeOK, BusTypeOK
<1>2. inbox'[c] = Append(inbox[c], e) \/ inbox'[c] = inbox[c]
  BY DEF PublishAll
<1>3. Watched[c] \notin js => inbox'[c] = inbox[c]
  BY DEF PublishAll
<1>4. ToSet(Append(inbox[c], e)) \subseteq ToSet(inbox[c]) \cup {e}
  BY <1>1 DEF ToSet
<1>5. QED
  BY <1>2, <1>3, <1>4

\* Where a "done" or a "failed" that a browser hears comes from.
LEMMA SaidStep ==
    ASSUME TypeOK, [Next]_vars, NEW c \in Clients, NEW s \in {"done", "failed"},
           s \in Said(c)'
    PROVE  \/ s \in Said(c)
           \/ status[Watched[c]] = s
           \/ \E w \in Workers : /\ wjob[w] = Watched[c]
                                 /\ wpc[w] \in DOMAIN Outcome
                                 /\ Outcome[wpc[w]] = s
<1> DEFINE Goal == \/ s \in Said(c)
                   \/ status[Watched[c]] = s
                   \/ \E w \in Workers : /\ wjob[w] = Watched[c]
                                         /\ wpc[w] \in DOMAIN Outcome
                                         /\ Outcome[wpc[w]] = s
<1>types. /\ conn \in [Clients -> {"closed", "opened", "greeted", "listening",
                                  "finished"}]
          /\ snap \in [Clients -> Status \cup {"none"}]
          /\ view \in [Clients -> Status \cup Event \cup {"none"}]
          /\ inbox \in [Clients -> Seq(Event)]
  BY DEF TypeOK, ConnTypeOK, BusTypeOK
<1>empty. ToSet(<<>>) = {}
  BY DEF ToSet
<1>kept. ASSUME UNCHANGED clientVars
         PROVE  Goal
  BY <1>kept DEF Said, clientVars, connVars, busVars
\* An event that is not an outcome.
<1>other. ASSUME UNCHANGED connVars, NEW js, NEW e \in Event, PublishAll(js, e),
                 e \notin {"done", "failed"}
          PROVE  Goal
  <2>1. ToSet(inbox'[c]) \subseteq ToSet(inbox[c]) \cup {e}
    BY <1>other, PublishFacts
  <2>2. QED
    BY <1>other, <2>1 DEF Said, connVars
<1>1. ASSUME NEW j \in Jobs, CreateInsert(j) \/ CreateEnqueue(j)
      PROVE  Goal
  BY <1>1, <1>kept DEF CreateInsert, CreateEnqueue
<1>2. ASSUME NEW w \in Workers, WorkerStep(w) \/ ThreadStep(w)
      PROVE  Goal
  <2>1. CASE WorkerTell(w)
    <3> DEFINE e == Outcome[wpc[w]]
    <3>1. /\ wpc[w] \in DOMAIN Outcome /\ PublishAll({wjob[w]}, e)
          /\ UNCHANGED connVars
      BY <2>1 DEF WorkerTell, Publish
    <3>2. e \in Event
      BY <3>1 DEF Outcome, Event, Final
    <3> HIDE DEF e
    <3>3. /\ ToSet(inbox'[c]) \subseteq ToSet(inbox[c]) \cup {e}
          /\ Watched[c] \notin {wjob[w]} => inbox'[c] = inbox[c]
      BY <3>1, <3>2, PublishFacts
    <3>4. s \in Said(c) \/ (wjob[w] = Watched[c] /\ e = s)
      BY <3>1, <3>3 DEF Said, connVars
    <3>5. QED
      BY <3>1, <3>4 DEF e
  <2>2. CASE \/ WorkerStart(w) \/ WorkerStartFails(w)
             \/ HookProgress(w) \/ HookPostprocessor(w)
    <3>1. \/ UNCHANGED clientVars
          \/ /\ UNCHANGED connVars
             /\ \E e \in {"downloading", "progress", "processing"} :
                   PublishAll({wjob[w]}, e)
      BY <2>2 DEF WorkerStart, WorkerStartFails, HookProgress,
                  HookPostprocessor, Publish, clientVars
    <3>2. QED
      BY <3>1, <1>kept, <1>other DEF Event
  <2>3. CASE \/ WorkerGet(w) \/ WorkerLoad(w) \/ WorkerClaim(w) \/ WorkerSweep(w)
             \/ MarkFailed(w) \/ MarkCancelled(w) \/ MarkDone(w)
             \/ UsageRead(w) \/ UsageWrite(w) \/ WorkerQuit(w)
             \/ FetchEnds(w) \/ ThreadEnds(w)
    BY <2>3, <1>kept
       DEF WorkerGet, WorkerLoad, WorkerClaim, WorkerSweep, MarkFailed,
           MarkCancelled, MarkDone, UsageRead, UsageWrite, WorkerQuit,
           FetchEnds, ThreadEnds
  <2>4. QED
    BY <1>2, <2>1, <2>2, <2>3 DEF WorkerStep, ThreadStep
<1>3. ASSUME NEW h \in Cancellers, CancelStep(h)
      PROVE  Goal
  <2>1. CASE CancelTell(h)
    BY <2>1, <1>other DEF CancelTell, Publish, Event, Final
  <2>2. CASE ~CancelTell(h)
    BY <1>3, <2>2, <1>kept
       DEF CancelStep, CancelRead, CancelWaiting, CancelRunning, CancelRefused
  <2>3. QED
    BY <2>1, <2>2
<1>4. ASSUME NEW a \in Admins, ClearStep(a)
      PROVE  Goal
  <2>1. CASE ClearSignal(a)
    BY <2>1, <1>other DEF ClearSignal, Event, Final
  <2>2. CASE ~ClearSignal(a)
    BY <1>4, <2>2, <1>kept DEF ClearStep, ClearRead, ClearCommit
  <2>3. QED
    BY <2>1, <2>2
<1>5. ASSUME NEW d \in Clients, SseStep(d)
      PROVE  Goal
  <2>1. CASE SseOpen(d)
    BY <2>1, <1>types DEF SseOpen, Said, busVars
  <2>2. CASE SseFirst(d)
    BY <2>2, <1>types DEF SseFirst, Said, busVars
  <2>3. CASE SseSubscribe(d)
    BY <2>3, <1>types, <1>empty DEF SseSubscribe, Subscribe, Said
  <2>4. CASE SseDeliver(d)
    <3>1. /\ Head(inbox[d]) \in ToSet(inbox[d])
          /\ ToSet(Tail(inbox[d])) \subseteq ToSet(inbox[d])
      <4>1. inbox[d] \in Seq(Event) /\ inbox[d] # <<>>
        BY <2>4, <1>types DEF SseDeliver
      <4>2. QED
        BY <4>1 DEF ToSet
    <3>2. /\ view' = [view EXCEPT ![d] = Head(inbox[d])] /\ UNCHANGED snap
          /\ \/ inbox' = [inbox EXCEPT ![d] = <<>>]
             \/ inbox' = [inbox EXCEPT ![d] = Tail(inbox[d])]
      BY <2>4 DEF SseDeliver, Unsubscribe, Take
    <3>3. CASE d # c
      BY <3>2, <3>3, <1>types DEF Said
    <3>4. CASE d = c
      <4>1. view'[c] \in Said(c) /\ snap'[c] \in Said(c)
        BY <3>1, <3>2, <3>4, <1>types DEF Said
      <4>2. ToSet(inbox'[c]) \subseteq Said(c)
        BY <3>1, <3>2, <3>4, <1>types, <1>empty DEF Said
      <4>3. QED
        BY <4>1, <4>2 DEF Said
    <3>5. QED
      BY <3>3, <3>4
  <2>5. CASE SseDrop(d)
    BY <2>5, <1>types, <1>empty DEF SseDrop, Unsubscribe, Said
  <2>6. QED
    BY <1>5, <2>1, <2>2, <2>3, <2>4, <2>5 DEF SseStep
<1>6. CASE Restart
  BY <1>6, <1>empty DEF Restart, Said
<1>7. CASE UNCHANGED vars
  BY <1>7, <1>kept DEF vars
<1>8. QED
  BY <1>1, <1>2, <1>3, <1>4, <1>5, <1>6, <1>7 DEF Next, Create

LEMMA TellStep ==
    ASSUME HandsInv, TellInv, HandsInv', [Next]_vars
    PROVE  TellInv'
<1>typed. TypeOK
  BY DEF HandsInv
<1>types. /\ wpc \in [Workers -> Step]
          /\ wjob \in [Workers -> Jobs \cup {0}]
          /\ \A w \in Workers : wpc[w] # "idle" <=> wjob[w] \in Jobs
          /\ status \in [Jobs -> Status \cup {"none"}]
  BY <1>typed DEF TypeOK, WorkerTypeOK, StoredTypeOK, Busy
<1>1. ASSUME NEW j \in Jobs, status'[j] \in {"done", "failed"}
      PROVE  Finished(j)'
  <2>1. CASE status[j] = status'[j]
    BY <1>1, <2>1, <1>typed, FinishedStays DEF TellInv
  <2>2. CASE \E w \in Workers : wjob[w] = j /\ (MarkDone(w) \/ MarkFailed(w))
    <3>1. PICK w \in Workers : wjob[w] = j /\ (MarkDone(w) \/ MarkFailed(w))
      BY <2>2
    <3>2. wpc'[w] \in After /\ wjob'[w] = j
      BY <3>1, <1>types DEF MarkDone, MarkFailed, After
    <3>3. \A v \in Workers : wjob'[v] = j => v = w
      BY <3>2, ZeroIsNoJob DEF HandsInv, OneWorkerPerJob
    <3>4. j \in Held' /\ j # 0
      BY <3>2, ZeroIsNoJob DEF Held
    <3>5. j \notin creating' \cup ToSet(queue')
      BY <3>4 DEF HandsInv, OneWorkerPerJob
    <3>6. QED
      BY <3>2, <3>3, <3>5 DEF Finished
  <2>3. CASE Restart
    <3>1. QueuedJobs \in SUBSET Jobs /\ queue' \in InIdOrder(QueuedJobs)
      BY <2>3 DEF Restart, Requeued, QueuedJobs
    <3>2. j \notin QueuedJobs
      BY <1>1, <2>3, <1>types DEF Restart, Reconciled, QueuedJobs, Running
    <3>3. j \notin ToSet(queue')
      BY <3>1, <3>2, InIdOrderFacts
    <3>4. creating' = {} /\ \A w \in Workers : wjob'[w] # j
      BY <2>3, ZeroIsNoJob DEF Restart
    <3>5. QED
      BY <3>3, <3>4 DEF Finished
  <2>4. QED
    BY <1>1, <1>typed, <2>1, <2>2, <2>3, RowEnds
\* The outcome of a worker that is about to tell it stays in its row.
<1>2. ASSUME NEW w \in Workers, wpc[w] \in After,
             NEW s \in {"done", "failed"}, status[wjob[w]] \in {s, "cancelled"}
      PROVE  status'[wjob[w]] \in {s, "cancelled"}
  <2>1. wjob[w] \in Jobs /\ Finished(wjob[w])
    BY <1>2, AfterIsFinished
  <2>2. PICK j \in Jobs : j = wjob[w]
    BY <2>1
  <2>3. Finished(j) /\ status[j] \in {s, "cancelled"}
    BY <1>2, <2>1, <2>2
  <2>4. status[j] \in {"done", "failed", "cancelled"}
    BY <2>3
  <2>5. status'[j] \in {status[j], "cancelled"}
    BY <1>typed, <2>3, <2>4, FinishedStays
  <2>6. QED
    BY <2>2, <2>3, <2>5
<1>3. ASSUME NEW w \in Workers
      PROVE  /\ wpc'[w] \in {"usage", "usageWrite", "tellDone"} =>
                   status'[wjob'[w]] \in {"done", "cancelled"}
             /\ wpc'[w] = "tellFailed" =>
                   status'[wjob'[w]] \in {"failed", "cancelled"}
  <2>1. CASE MarkDone(w) \/ MarkFailed(w)
    BY <2>1, <1>types DEF MarkDone, MarkFailed
  <2>2. CASE ~ (MarkDone(w) \/ MarkFailed(w))
    <3>1. /\ wpc'[w] \in {"usage", "usageWrite", "tellDone"} =>
                wpc[w] \in {"usage", "usageWrite", "tellDone"} /\ wjob'[w] = wjob[w]
          /\ wpc'[w] = "tellFailed" => wpc[w] = "tellFailed" /\ wjob'[w] = wjob[w]
      <4>1. CASE Restart
        BY <4>1 DEF Restart
      <4>2. CASE UNCHANGED workerVars
        BY <4>2 DEF workerVars
      <4>3. ASSUME NEW v \in Workers, WorkerStep(v) \/ ThreadStep(v)
            PROVE  /\ wpc'[w] \in {"usage", "usageWrite", "tellDone"} =>
                         /\ wpc[w] \in {"usage", "usageWrite", "tellDone"}
                         /\ wjob'[w] = wjob[w]
                   /\ wpc'[w] = "tellFailed" =>
                         wpc[w] = "tellFailed" /\ wjob'[w] = wjob[w]
        BY <2>2, <4>3, <1>types
           DEF WorkerStep, ThreadStep, WorkerGet, WorkerLoad, WorkerClaim,
               WorkerStart, WorkerStartFails, HookProgress, FetchEnds,
               HookPostprocessor, ThreadEnds, WorkerSweep, MarkFailed,
               MarkCancelled, MarkDone, UsageRead, UsageWrite, WorkerTell,
               WorkerQuit, Release, backendVars, workerVars
      <4>4. \/ Restart \/ UNCHANGED workerVars
            \/ \E v \in Workers : WorkerStep(v) \/ ThreadStep(v)
        BY DEF Next, Create, CreateInsert, CreateEnqueue, CancelStep,
               CancelRead, CancelWaiting, CancelTell, CancelRunning,
               CancelRefused, ClearStep, ClearRead, ClearSignal, ClearCommit,
               SseStep, SseOpen, SseFirst, SseSubscribe, SseDeliver, SseDrop,
               vars, backendVars
      <4>5. QED
        BY <4>1, <4>2, <4>3, <4>4
    <3>2. QED
      BY <3>1, <1>2 DEF TellInv, After
  <2>3. QED
    BY <2>1, <2>2
<1>4. ASSUME NEW c \in Clients, NEW s \in {"done", "failed"}, s \in Said(c)'
      PROVE  status'[Watched[c]] \in {s, "cancelled"} /\ Finished(Watched[c])'
  <2> DEFINE j == Watched[c]
  <2>1. j \in Jobs
    BY WatchedAssumption
  <2>2. status[j] \in {s, "cancelled"} /\ Finished(j)
    <3>1. CASE s \in Said(c)
      BY <3>1 DEF TellInv
    <3>2. CASE status[j] = s
      BY <2>1, <3>2 DEF TellInv
    <3>3. CASE \E w \in Workers : /\ wjob[w] = j
                                  /\ wpc[w] \in DOMAIN Outcome
                                  /\ Outcome[wpc[w]] = s
      <4>1. PICK w \in Workers : /\ wjob[w] = j
                                 /\ wpc[w] \in DOMAIN Outcome
                                 /\ Outcome[wpc[w]] = s
        BY <3>3
      <4>2. /\ wpc[w] \in After
            /\ \/ wpc[w] = "tellDone" /\ s = "done"
               \/ wpc[w] = "tellFailed" /\ s = "failed"
        BY <4>1 DEF Outcome, After
      <4>3. QED
        BY <4>1, <4>2, AfterIsFinished DEF TellInv
    <3>4. QED
      BY <1>4, <1>typed, <3>1, <3>2, <3>3, SaidStep
  <2> HIDE DEF j
  <2>3. QED
    BY <1>typed, <2>1, <2>2, FinishedStays DEF j
<1>5. QED
  BY <1>1, <1>3, <1>4 DEF TellInv

\* Whatever a stream announces was committed before, and is still in the row,
\* but for a cancellation that overwrote it: a browser that hears "done" finds the
\* row done, and one that hears "failed" does not find it done later.
THEOREM AnnouncedIsCommittedHolds == Spec => []AnnouncedIsCommitted
<1>1. Init => TellInv
  <2> SUFFICES ASSUME Init PROVE TellInv
    OBVIOUS
  <2>1. /\ \A j \in Jobs : status[j] = "none"
        /\ \A w \in Workers : wpc[w] = "idle"
        /\ \A c \in Clients : view[c] = "none" /\ snap[c] = "none" /\ inbox[c] = <<>>
    BY DEF Init, BusInit
  <2>2. \A c \in Clients : Said(c) = {"none"}
    <3>1. ToSet(<<>>) = {}
      BY DEF ToSet
    <3>2. QED
      BY <2>1, <3>1 DEF Said
  <2>3. QED
    BY <2>1, <2>2 DEF TellInv
<1>2. HandsInv /\ TellInv /\ HandsInv' /\ [Next]_vars => TellInv'
  BY TellStep
<1>3. TellInv => AnnouncedIsCommitted
  BY DEF TellInv, AnnouncedIsCommitted, Said
<1>4. QED
  BY <1>1, <1>2, <1>3, HandsInit, HandsStep, PTL DEF Spec

=============================================================================
