----------------------------- MODULE Admission -----------------------------
(***************************************************************************)
(* What POST /api/downloads checks before it accepts a job, and what it    *)
(* records afterwards: the guest limit (core/guest.py), the daily quota    *)
(* (core/quota.py), the size of the queue, the space on the disk           *)
(* (core/diskspace.py), the place in the queue (core/queue.py).            *)
(*                                                                         *)
(* Every check is a SELECT, and the row that would change its answer is    *)
(* written several awaits later: each await ends a step, so requests pass  *)
(* each other.  The workers and the cancellations appear only with what    *)
(* they change in the counts: the status of the row, which both write      *)
(* later than they read it, and the usage of the account.  One civil day;  *)
(* every file has the size of one unit of the quota.                       *)
(***************************************************************************)
EXTENDS Integers, FiniteSets, SequencesExt, FiniteSetsExt

CONSTANTS Requests,     \* handlers that may run at the same time
          Workers,
          Cancellers,   \* handlers that cancel waiting jobs
          Guests,       \* visitors without an account: [ip, cookie] records
          Users,
          Nobody,       \* the owner of no request
          Exempt,       \* the users that are administrators
          GuestLimit, Quota, MaxQueue,   \* the effective settings
          MaxJobs,      \* bound: rows ever inserted
          MaxRestarts   \* bound: restarts of the server

ASSUME LimitAssumption  == GuestLimit \in Nat /\ Quota \in Nat /\ MaxQueue \in Nat
ASSUME BoundAssumption  == MaxJobs \in Nat /\ MaxRestarts \in Nat
ASSUME OwnersAssumption == /\ Exempt \subseteq Users /\ Guests \cap Users = {}
                           /\ Nobody \notin Guests \cup Users
ASSUME ActorsAssumption == /\ IsFiniteSet(Requests) /\ Requests # {}
                           /\ IsFiniteSet(Workers)

VARIABLES
  rows,         \* table downloads: who asked, and the status
  guestRows,    \* table guest_downloads: visitor and count, in insertion order
  usage,        \* table daily_usage: units used today; 0 when there is no row
  queue,        \* work_queue
  req,          \* each request: its step, its owner, its row, what it read
  worker,       \* each worker: its step, its job, the usage it read
  cancel,       \* rows each canceller read as waiting and has yet to write
  restarts,
  finished,     \* (history) the jobs of each account that ended with a file
  revived       \* (history) the rows claimed after their cancellation

history == <<finished, revived>>
others  == <<cancel, restarts, history>>
vars    == <<rows, guestRows, usage, queue, req, worker, others>>

Owners == Guests \cup Users

NoRequest == [pc |-> "idle", owner |-> Nobody, job |-> 0, row |-> 0, n |-> 0]

NoJob == [pc |-> "idle", job |-> 0, seen |-> 0]

ActiveRows == {j \in DOMAIN rows : rows[j].status \in {"queued", "downloading"}}

Row == [owner  : Owners,
        status : {"queued", "downloading", "done", "stopped"}]

Record == [who : Guests, n : Nat]

TypeOK ==
    /\ rows \in Seq(Row) /\ Len(rows) <= MaxJobs
    /\ guestRows \in Seq(Record)
    /\ usage \in [Users -> Nat]
    /\ queue \in Seq(DOMAIN rows)
    /\ req \in [Requests -> [pc  : {"idle", "limits", "count", "insert",
                                   "guestRead", "guestWrite", "place",
                                   "enqueue"},
                             owner : Owners \cup {Nobody},
                             job : 0..Len(rows), row : 0..Len(guestRows),
                             n   : Nat]]
    /\ \A r \in Requests :
          /\ req[r].pc # "idle" => req[r].owner \in Owners
          /\ req[r].pc \in {"guestRead", "guestWrite", "place", "enqueue"} =>
                /\ req[r].job \in DOMAIN rows
                /\ rows[req[r].job].owner = req[r].owner
    /\ worker \in [Workers -> [pc : {"idle", "claim", "run", "usage",
                                     "usageWrite"},
                               job : 0..Len(rows), seen : Nat]]
    /\ cancel \in [Cancellers -> SUBSET DOMAIN rows]
    /\ restarts \in 0..MaxRestarts
    /\ finished \in [Users -> Nat]
    /\ revived \subseteq DOMAIN rows

Init ==
    /\ rows = <<>> /\ guestRows = <<>>
    /\ usage = [u \in Users |-> 0]
    /\ queue = <<>>
    /\ req = [r \in Requests |-> NoRequest]
    /\ worker = [w \in Workers |-> NoJob]
    /\ cancel = [c \in Cancellers |-> {}]
    /\ restarts = 0
    /\ finished = [u \in Users |-> 0]
    /\ revived = {}

-----------------------------------------------------------------------------
(* create_download *)

Goto(r, pc) == req' = [req EXCEPT ![r].pc = pc]

Refuse(r) == req' = [req EXCEPT ![r] = NoRequest]

Arrive(r, o) ==
    /\ req[r].pc = "idle"
    /\ Len(rows) < MaxJobs
    /\ req' = [req EXCEPT ![r] = [NoRequest EXCEPT !.pc = "limits",
                                            !.owner = o]]
    /\ UNCHANGED <<rows, guestRows, usage, queue, worker, others>>

\* Faulty variant: the records must match the address and the cookie.
SamePair(g, h) == g.ip = h.ip /\ g.cookie = h.cookie

\* The records guest_download_count adds up: the same address, or the same
\* cookie.
SameVisitor(g, h) == g.ip = h.ip \/ g.cookie = h.cookie

\* The units counted against g: 1..n of every such record, taken apart.
Units(g) == UNION {{i} \X (1..guestRows[i].n) :
                   i \in {k \in DOMAIN guestRows : SameVisitor(guestRows[k].who, g)}}

GuestCount(g) == Cardinality(Units(g))

\* has_quota_remaining: today's usage is below the quota, or an administrator.
HasQuota(u) == u \in Exempt \/ usage[u] < Quota

CheckLimits(r) ==
    /\ req[r].pc = "limits"
    /\ LET o == req[r].owner
       IN  IF IF o \in Guests THEN GuestCount(o) < GuestLimit ELSE HasQuota(o)
           THEN Goto(r, "count") ELSE Refuse(r)
    /\ UNCHANGED <<rows, guestRows, usage, queue, worker, others>>

\* Faulty variant: a full queue takes one more.
CountQueueLate(r) ==
    /\ req[r].pc = "count"
    /\ IF Cardinality(ActiveRows) > MaxQueue THEN Refuse(r)
       ELSE Goto(r, "insert") \/ Refuse(r)
    /\ UNCHANGED <<rows, guestRows, usage, queue, worker, others>>

\* 429 when the queue is full; 507, at any time, when the disk is.
CountQueue(r) ==
    /\ req[r].pc = "count"
    /\ IF Cardinality(ActiveRows) >= MaxQueue THEN Refuse(r)
       ELSE Goto(r, "insert") \/ Refuse(r)
    /\ UNCHANGED <<rows, guestRows, usage, queue, worker, others>>

\* enqueue: the row is committed, and its id is known.
Insert(r) ==
    /\ req[r].pc = "insert"
    /\ Len(rows) < MaxJobs
    /\ rows' = Append(rows, [owner |-> req[r].owner, status |-> "queued"])
    /\ req' = [req EXCEPT ![r].job = Len(rows) + 1,
                          ![r].pc = IF req[r].owner \in Guests
                                    THEN "guestRead" ELSE "place"]
    /\ UNCHANGED <<guestRows, usage, queue, worker, others>>

\* record_guest_download: the first record of this address and this cookie ...
GuestRead(r) ==
    /\ req[r].pc = "guestRead"
    /\ LET mine == {i \in DOMAIN guestRows : guestRows[i].who = req[r].owner}
       IN  req' = [req EXCEPT ![r].pc = "guestWrite",
                      ![r].row = IF mine = {} THEN 0 ELSE Min(mine),
                      ![r].n = IF mine = {} THEN 0 ELSE guestRows[Min(mine)].n]
    /\ UNCHANGED <<rows, guestRows, usage, queue, worker, others>>

\* ... is written back with one more than was read, or one is inserted:
\* nothing forbids two records of one pair.
GuestWrite(r) ==
    /\ req[r].pc = "guestWrite"
    /\ guestRows' =
          IF req[r].row = 0
          THEN Append(guestRows, [who |-> req[r].owner, n |-> 1])
          ELSE [guestRows EXCEPT ![req[r].row].n = req[r].n + 1]
    /\ Goto(r, "place")
    /\ UNCHANGED <<rows, usage, queue, worker, others>>

\* queue_position: the queued rows up to this one.
Place(j) == Cardinality({i \in 1..j : rows[i].status = "queued"})

\* The place is read, then the id joins work_queue and the request answers.
TellPlace(r) ==
    /\ req[r].pc = "place"
    /\ req' = [req EXCEPT ![r].pc = "enqueue", ![r].n = Place(req[r].job)]
    /\ UNCHANGED <<rows, guestRows, usage, queue, worker, others>>

Enqueue(r) ==
    /\ req[r].pc = "enqueue"
    /\ queue' = Append(queue, req[r].job)
    /\ Refuse(r)
    /\ UNCHANGED <<rows, guestRows, usage, worker, others>>

RequestStep(r) == \/ \E o \in Owners : Arrive(r, o)
                  \/ CheckLimits(r)
                  \/ CountQueue(r)
                  \/ Insert(r)
                  \/ GuestRead(r)
                  \/ GuestWrite(r)
                  \/ TellPlace(r)
                  \/ Enqueue(r)

-----------------------------------------------------------------------------
(* The workers, as far as the counts go *)

SetStatus(j, s) == rows' = [rows EXCEPT ![j].status = s]

Move(w, v) == worker' = [worker EXCEPT ![w] = v]

\* A row that was cancelled while it waited is skipped ...
Take(w) ==
    /\ worker[w].pc = "idle"
    /\ queue # <<>>
    /\ queue' = Tail(queue)
    /\ IF rows[Head(queue)].status = "queued"
       THEN Move(w, [pc |-> "claim", job |-> Head(queue), seen |-> 0])
       ELSE UNCHANGED worker
    /\ UNCHANGED <<rows, guestRows, usage, req, others>>

\* ... and one that is cancelled from here on is overwritten.
Claim(w) ==
    LET j == worker[w].job
    IN  /\ worker[w].pc = "claim"
        /\ SetStatus(j, "downloading")
        /\ revived' = IF rows[j].status = "queued" THEN revived
                      ELSE revived \cup {j}
        /\ Move(w, [worker[w] EXCEPT !.pc = "run"])
        /\ UNCHANGED <<guestRows, usage, queue, req, cancel, restarts, finished>>

Finish(w) ==
    LET j == worker[w].job
        u == rows[j].owner
    IN  /\ worker[w].pc = "run"
        /\ SetStatus(j, "done")
        /\ Move(w, IF u \in Users THEN [worker[w] EXCEPT !.pc = "usage"]
                   ELSE NoJob)
        /\ finished' = IF u \in Users THEN [finished EXCEPT ![u] = @ + 1]
                       ELSE finished
        /\ UNCHANGED <<guestRows, usage, queue, req, cancel, restarts, revived>>

Fail(w) ==
    /\ worker[w].pc = "run"
    /\ SetStatus(worker[w].job, "stopped")
    /\ Move(w, NoJob)
    /\ UNCHANGED <<guestRows, usage, queue, req, others>>

\* record_usage reads today's row of the account ...
UsageRead(w) ==
    /\ worker[w].pc = "usage"
    /\ Move(w, [worker[w] EXCEPT !.pc = "usageWrite",
                                 !.seen = usage[rows[worker[w].job].owner]])
    /\ UNCHANGED <<rows, guestRows, usage, queue, req, others>>

\* Faulty variant: the sum is made twice.
UsageWriteTwice(w) ==
    /\ worker[w].pc = "usageWrite"
    /\ LET u == rows[worker[w].job].owner
       IN  usage' = [usage EXCEPT ![u] = worker[w].seen + 2]
    /\ Move(w, NoJob)
    /\ UNCHANGED <<rows, guestRows, queue, req, others>>

\* ... and writes back the sum it made.  Without a row it inserts one, which
\* the unique constraint refuses when another worker did so in between.
UsageWrite(w) ==
    /\ worker[w].pc = "usageWrite"
    /\ LET u == rows[worker[w].job].owner
       IN  usage' = IF worker[w].seen = 0 /\ usage[u] > 0 THEN usage
                    ELSE [usage EXCEPT ![u] = worker[w].seen + 1]
    /\ Move(w, NoJob)
    /\ UNCHANGED <<rows, guestRows, queue, req, others>>

WorkerStep(w) == \/ Take(w)
                 \/ Claim(w)
                 \/ Finish(w)
                 \/ Fail(w)
                 \/ UsageRead(w)
                 \/ UsageWrite(w)

-----------------------------------------------------------------------------
(* Cancellations, restarts *)

Queued == {j \in DOMAIN rows : rows[j].status = "queued"}

\* cancel_download and clear_queue read one row that waits, or all of them ...
CancelRead(c) ==
    /\ cancel[c] = {}
    /\ \E S \in {{j} : j \in Queued} \cup {Queued} :
          cancel' = [cancel EXCEPT ![c] = S]
    /\ UNCHANGED <<rows, guestRows, usage, queue, req, worker, restarts, history>>

\* ... and overwrite what they read by primary key, whatever it says by now.
\* The ids stay in work_queue.
CancelWrite(c) ==
    /\ cancel[c] # {}
    /\ rows' = [j \in DOMAIN rows |->
                   IF j \in cancel[c]
                   THEN [rows[j] EXCEPT !.status = "stopped"] ELSE rows[j]]
    /\ cancel' = [cancel EXCEPT ![c] = {}]
    /\ UNCHANGED <<guestRows, usage, queue, req, worker, restarts, history>>

\* The queued ids, oldest first.
InIdOrder(S) == {q \in [1..Cardinality(S) -> S] :
                    \A i, k \in DOMAIN q : i < k => q[i] < q[k]}

Restart ==
    /\ restarts < MaxRestarts
    /\ restarts' = restarts + 1
    /\ rows' = [j \in DOMAIN rows |->
                   IF rows[j].status = "downloading"
                   THEN [rows[j] EXCEPT !.status = "stopped"] ELSE rows[j]]
    /\ queue' \in InIdOrder(Queued)
    /\ req' = [r \in Requests |-> NoRequest]
    /\ worker' = [w \in Workers |-> NoJob]
    /\ cancel' = [c \in Cancellers |-> {}]
    /\ UNCHANGED <<guestRows, usage, history>>

Next == \/ \E r \in Requests : RequestStep(r)
        \/ \E w \in Workers : WorkerStep(w)
        \/ \E c \in Cancellers : CancelRead(c) \/ CancelWrite(c)
        \/ Restart

Spec == Init /\ [][Next]_vars

-----------------------------------------------------------------------------
(* Properties *)

\* The queue is longer than max_queue_size only by the requests that had all
\* counted before one of them inserted its row, and by the rows that a worker
\* took back from a cancellation after their place was counted as free: one for
\* each worker, which holds it.
QueueOvershoot ==
    /\ Cardinality(ActiveRows \ revived) <= MaxQueue + Cardinality(Requests) - 1
    /\ Cardinality(ActiveRows \cap revived) <= Cardinality(Workers)

\* The guest limit is soft (F-07), and this soft with the limit of one that the
\* service ships with: for one address, and for one cookie, the requests in
\* flight pass together, once, and once more after every crash that forgot those
\* not recorded yet.  A higher limit has no such bound: a count that is written
\* late takes the record back to what it was.
AcceptedFrom(S) == Cardinality({j \in DOMAIN rows : rows[j].owner \in S})

GuestOvershoot ==
    GuestLimit <= 1 =>
        \A g \in Guests :
            LET most == Cardinality(Requests) * (1 + restarts)
            IN  /\ AcceptedFrom({h \in Guests : h.ip = g.ip}) <= most
                /\ AcceptedFrom({h \in Guests : h.cookie = g.cookie}) <= most

\* What the admission keeps to in every state of well-formed rows, requests and
\* workers: the queue and the guests overshoot their limits so far, no further.
LimitsHold == TypeOK /\ QueueOvershoot /\ GuestOvershoot

\* An account is never charged for more than it downloaded, even when a late
\* cancellation overwrites a row that is done and charged.
NeverOvercharged == \A u \in Users : usage[u] <= finished[u]

=============================================================================
