-------------------------- MODULE AdmissionProofs --------------------------
(***************************************************************************)
(* Theorems about Admission, for every number of requests, workers, guests *)
(* and accounts and every value of the limits.                             *)
(***************************************************************************)
EXTENDS Admission, FiniteSetTheorems, FunctionTheorems, SequenceTheorems,
        NaturalsInduction, TLAPS

-----------------------------------------------------------------------------
(* Lemmas about rows and sequences *)

\* Min finds the smallest of some natural numbers.
LEMMA MinFacts ==
    ASSUME NEW S \in SUBSET Nat, S # {}
    PROVE  Min(S) \in S /\ \A x \in S : Min(S) <= x
<1> DEFINE Less == {ss \in Nat \X Nat : ss[1] < ss[2]}
<1>1. IsWellFoundedOn(Less, Nat)
  BY NatLessThanWellFounded DEF OpToRel
<1>2. PICK m \in S : \A y \in S : ~ (<<y, m>> \in Less)
  <2> HIDE DEF Less
  <2>1. QED
    BY <1>1, WFMin, Zenon
<1>3. ASSUME NEW y \in S
      PROVE  m <= y
  <2>1. y \in Nat /\ m \in Nat /\ ~ (<<y, m>> \in Less)
    BY <1>2
  <2>2. ~ (y < m)
    BY <2>1
  <2>3. QED
    BY <2>1, <2>2
<1>4. QED
  BY <1>3 DEF Min

\* What Restart puts in the queue is a sequence of the ids of S.
LEMMA InIdOrderType ==
    ASSUME NEW S, IsFiniteSet(S), NEW q \in InIdOrder(S)
    PROVE  q \in Seq(S)
<1>1. Cardinality(S) \in Nat
  BY FS_CardinalityType
<1>2. QED
  BY <1>1, SeqDef DEF InIdOrder

\* Writing a status changes that, and nothing else.
LEMMA SetStatusFacts ==
    ASSUME rows \in Seq(Row), NEW j \in DOMAIN rows,
           NEW s \in {"queued", "downloading", "done", "stopped"},
           SetStatus(j, s)
    PROVE  /\ rows' \in Seq(Row)
           /\ Len(rows') = Len(rows) /\ DOMAIN rows' = DOMAIN rows
           /\ rows'[j].status = s
           /\ \A i \in DOMAIN rows : i # j => rows'[i].status = rows[i].status
           /\ \A i \in DOMAIN rows : rows'[i].owner = rows[i].owner
<1> DEFINE new == [rows[j] EXCEPT !.status = s]
<1>1. /\ DOMAIN rows = 1..Len(rows) /\ Len(rows) \in Nat
      /\ \A i \in DOMAIN rows : rows[i] \in Row
  BY ElementOfSeq, LenProperties
<1>2. rows' = [rows EXCEPT ![j] = new]
  BY DEF SetStatus
<1>3. /\ new \in Row
      /\ new.status = s /\ new.owner = rows[j].owner
  BY <1>1 DEF Row
<1> HIDE DEF new
<1>4. /\ rows' \in Seq(Row)
      /\ Len(rows') = Len(rows)
      /\ \A i \in 1..Len(rows) : rows'[i] = IF i = j THEN new ELSE rows[i]
  BY <1>1, <1>2, <1>3, ExceptSeq
<1>5. DOMAIN rows' = DOMAIN rows
  BY <1>2
<1>6. QED
  BY <1>1, <1>3, <1>4, <1>5

\* A committed row is the last of the table, and the others stay.
LEMMA AppendRowFacts ==
    ASSUME rows \in Seq(Row), NEW x \in Row, rows' = Append(rows, x)
    PROVE  /\ rows' \in Seq(Row)
           /\ Len(rows') = Len(rows) + 1
           /\ DOMAIN rows' = DOMAIN rows \cup {Len(rows) + 1}
           /\ Len(rows) + 1 \notin DOMAIN rows
           /\ rows'[Len(rows) + 1] = x
           /\ \A i \in DOMAIN rows : rows'[i] = rows[i]
<1>1. /\ DOMAIN rows = 1..Len(rows) /\ Len(rows) \in Nat
      /\ DOMAIN rows' = 1..Len(rows')
  BY LenProperties, AppendProperties
<1>2. QED
  BY <1>1, AppendProperties

\* The sets that are counted are finite.
Inserting == {r \in Requests : req[r].pc = "insert"}

\* The active rows that no worker took back from a cancellation.
Fresh == ActiveRows \ revived

\* The workers that have finished a file of u and not recorded it yet.
Owing(u) == {w \in Workers : /\ worker[w].pc \in {"usage", "usageWrite"}
                             /\ rows[worker[w].job].owner = u}

LEMMA Finite ==
    ASSUME rows \in Seq(Row)
    PROVE  /\ IsFiniteSet(DOMAIN rows) /\ IsFiniteSet(ActiveRows)
           /\ Cardinality(ActiveRows) \in Nat
           /\ IsFiniteSet(Fresh) /\ Cardinality(Fresh) \in Nat
           /\ Cardinality(Fresh) <= Cardinality(ActiveRows)
           /\ IsFiniteSet(Inserting) /\ Cardinality(Inserting) \in Nat
           /\ Cardinality(Inserting) <= Cardinality(Requests)
           /\ Cardinality(Requests) \in Nat \ {0}
           /\ \A u : IsFiniteSet(Owing(u)) /\ Cardinality(Owing(u)) \in Nat
<1>1. IsFiniteSet(DOMAIN rows)
  BY FS_Interval, LenProperties
<1>2. /\ ActiveRows \subseteq DOMAIN rows /\ Fresh \subseteq ActiveRows
      /\ \A u : Owing(u) \subseteq Workers
      /\ Inserting \subseteq Requests
  BY DEF ActiveRows, Fresh, Owing, Inserting
<1>3. IsFiniteSet(ActiveRows)
  BY <1>1, <1>2, FS_Subset
<1>4. /\ IsFiniteSet(Fresh) /\ Cardinality(Fresh) <= Cardinality(ActiveRows)
      /\ IsFiniteSet(Inserting)
      /\ Cardinality(Inserting) <= Cardinality(Requests)
      /\ \A u : IsFiniteSet(Owing(u))
  BY <1>2, <1>3, FS_Subset, ActorsAssumption
<1>5. Cardinality(Requests) \in Nat /\ Cardinality(Requests) # 0
  BY FS_CardinalityType, FS_EmptySet, ActorsAssumption
<1>6. QED
  BY <1>1, <1>3, <1>4, <1>5, FS_CardinalityType

-----------------------------------------------------------------------------
(* Types *)

RequestPc == {"idle", "limits", "count", "insert", "guestRead", "guestWrite",
              "place", "enqueue"}

RequestType(n, m) == [pc : RequestPc, owner : Owners \cup {Nobody},
                      job : 0..n, row : 0..m, n : Nat]

\* What TypeOK says of one request, given the two tables, and that only a guest
\* is recorded.
RequestOK(q, rs, gs) ==
    /\ q \in RequestType(Len(rs), Len(gs))
    /\ q.pc # "idle" => q.owner \in Owners
    /\ q.pc \in {"guestRead", "guestWrite", "place", "enqueue"} =>
          /\ q.job \in DOMAIN rs
          /\ rs[q.job].owner = q.owner
    /\ q.pc \in {"guestRead", "guestWrite"} => q.owner \in Guests

WorkerType(n) == [pc : {"idle", "claim", "run", "usage", "usageWrite"},
                  job : 0..n, seen : Nat]

WorkerOK(v, rs) ==
    /\ v \in WorkerType(Len(rs))
    /\ v.pc # "idle" => v.job \in DOMAIN rs
    /\ v.pc \in {"usage", "usageWrite"} => rs[v.job].owner \in Users

\* The types, actor by actor: TypeOK, and that the job of a worker is a row,
\* of an account when its usage is recorded.
Types == /\ rows \in Seq(Row) /\ Len(rows) <= MaxJobs
         /\ guestRows \in Seq(Record)
         /\ usage \in [Users -> Nat]
         /\ queue \in Seq(DOMAIN rows)
         /\ req = [r \in Requests |-> req[r]]
         /\ \A r \in Requests : RequestOK(req[r], rows, guestRows)
         /\ worker = [w \in Workers |-> worker[w]]
         /\ \A w \in Workers : WorkerOK(worker[w], rows)
         /\ cancel \in [Cancellers -> SUBSET DOMAIN rows]
         /\ restarts \in 0..MaxRestarts
         /\ finished \in [Users -> Nat]
         /\ revived \subseteq DOMAIN rows

LEMMA TypesAreTypeOK == Types => TypeOK
BY DEF Types, TypeOK, RequestOK, RequestType, RequestPc, WorkerOK, WorkerType

\* Rows are only added, and keep their owners: what is well typed stays so.
LEMMA ActorsStay ==
    ASSUME NEW rs \in Seq(Row), NEW rt \in Seq(Row), Len(rs) <= Len(rt),
           NEW gs \in Seq(Record), NEW gt \in Seq(Record), Len(gs) <= Len(gt),
           \A j \in DOMAIN rs : rt[j].owner = rs[j].owner
    PROVE  /\ DOMAIN rs \subseteq DOMAIN rt
           /\ \A q : RequestOK(q, rs, gs) => RequestOK(q, rt, gt)
           /\ \A v : WorkerOK(v, rs) => WorkerOK(v, rt)
           /\ \A s : s \in Seq(DOMAIN rs) => s \in Seq(DOMAIN rt)
<1>1. /\ Len(rs) \in Nat /\ Len(rt) \in Nat
      /\ Len(gs) \in Nat /\ Len(gt) \in Nat
      /\ DOMAIN rs = 1..Len(rs) /\ DOMAIN rt = 1..Len(rt)
  BY LenProperties
<1>2. DOMAIN rs \subseteq DOMAIN rt
  BY <1>1
<1>3. 0..Len(rs) \subseteq 0..Len(rt) /\ 0..Len(gs) \subseteq 0..Len(gt)
  BY <1>1
<1>4. ASSUME NEW q, RequestOK(q, rs, gs)
      PROVE  RequestOK(q, rt, gt)
  <2>1. q \in RequestType(Len(rt), Len(gt))
    BY <1>3, <1>4 DEF RequestOK, RequestType
  <2>2. QED
    BY <1>2, <1>4, <2>1 DEF RequestOK
<1>5. ASSUME NEW v, WorkerOK(v, rs)
      PROVE  WorkerOK(v, rt)
  <2>1. v \in WorkerType(Len(rt))
    BY <1>3, <1>5 DEF WorkerOK, WorkerType
  <2>2. QED
    BY <1>2, <1>5, <2>1 DEF WorkerOK
<1>6. QED
  BY <1>2, <1>4, <1>5, SeqMonotonic

\* The states a request and a worker begin in.
LEMMA IdleOK ==
    ASSUME NEW rs \in Seq(Row), NEW gs \in Seq(Record)
    PROVE  /\ RequestOK(NoRequest, rs, gs) /\ NoRequest.pc = "idle"
           /\ WorkerOK(NoJob, rs) /\ NoJob.pc = "idle"
BY LenProperties DEF RequestOK, RequestType, RequestPc, NoRequest,
                     WorkerOK, WorkerType, NoJob

\* A request that moves to another step, with what it read there.
LEMMA GotoKeeps ==
    ASSUME NEW rs \in Seq(Row), NEW gs \in Seq(Record),
           NEW q, RequestOK(q, rs, gs), q.pc # "idle",
           NEW pc \in RequestPc,
           pc \in {"guestWrite", "place", "enqueue"} =>
               q.pc \in {"guestRead", "guestWrite", "place", "enqueue"},
           pc # "guestRead", pc = "guestWrite" => q.pc = "guestRead"
    PROVE  /\ RequestOK([q EXCEPT !.pc = pc], rs, gs)
           /\ \A n \in Nat :
                 /\ RequestOK([q EXCEPT !.pc = pc, !.n = n], rs, gs)
                 /\ \A row \in 0..Len(gs) :
                       RequestOK([q EXCEPT !.pc = pc, !.row = row, !.n = n], rs, gs)
BY DEF RequestOK, RequestType, RequestPc

\* A request whose row is committed.
LEMMA InsertKeeps ==
    ASSUME NEW rs \in Seq(Row), NEW gs \in Seq(Record),
           NEW q, RequestOK(q, rs, gs), q.pc = "insert",
           NEW rt \in Seq(Row), Len(rt) = Len(rs) + 1,
           rt[Len(rs) + 1].owner = q.owner,
           NEW pc \in {"guestRead", "place"},
           pc = "guestRead" => q.owner \in Guests
    PROVE  RequestOK([q EXCEPT !.job = Len(rs) + 1, !.pc = pc], rt, gs)
<1> DEFINE new == [q EXCEPT !.job = Len(rs) + 1, !.pc = pc]
<1>1. /\ Len(rs) \in Nat /\ DOMAIN rt = 1..(Len(rs) + 1)
  BY LenProperties
<1>2. /\ q.job \in 0..(Len(rs) + 1) /\ Len(rs) + 1 \in 0..(Len(rs) + 1)
      /\ Len(rs) + 1 \in DOMAIN rt /\ pc \in RequestPc
      /\ q.owner \in Owners
  BY <1>1 DEF RequestOK, RequestType, RequestPc
<1>3. new \in RequestType(Len(rt), Len(gs))
  BY <1>1, <1>2 DEF RequestOK, RequestType
<1>4. new.owner = q.owner /\ new.job = Len(rs) + 1 /\ new.pc = pc
  BY DEF RequestOK, RequestType
<1> HIDE DEF new
<1>5. RequestOK(new, rt, gs)
  BY <1>2, <1>3, <1>4 DEF RequestOK
<1>6. QED
  BY <1>5 DEF new

\* A step of a request that leaves the rows and the records alone.
LEMMA QuietRequest ==
    ASSUME Types, NEW r \in Requests, NEW q, RequestOK(q, rows, guestRows),
           req' = [req EXCEPT ![r] = q],
           UNCHANGED <<rows, guestRows, usage, queue, worker, others>>
    PROVE  Types'
<1>1. ASSUME NEW x \in Requests PROVE RequestOK(req'[x], rows', guestRows')
  BY DEF Types
<1>2. req' = [x \in Requests |-> req'[x]]
  BY DEF Types
<1>3. QED
  BY <1>1, <1>2 DEF Types, others, history

LEMMA RequestTypes ==
    ASSUME Types, NEW r \in Requests, RequestStep(r)
    PROVE  Types'
<1> DEFINE q == req[r]
<1>0. /\ RequestOK(q, rows, guestRows) /\ Len(rows) \in Nat /\ Len(guestRows) \in Nat
      /\ DOMAIN rows = 1..Len(rows) /\ DOMAIN guestRows = 1..Len(guestRows)
      /\ RequestOK(NoRequest, rows, guestRows) /\ NoRequest.pc = "idle"
      /\ rows \in Seq(Row) /\ guestRows \in Seq(Record)
      /\ queue \in Seq(DOMAIN rows)
  BY IdleOK, LenProperties DEF Types
<1>1. ASSUME NEW o \in Owners, Arrive(r, o) PROVE Types'
  <2> DEFINE new == [NoRequest EXCEPT !.pc = "limits", !.owner = o]
  <2>1. RequestOK(new, rows, guestRows)
    BY <1>0 DEF RequestOK, RequestType, RequestPc, NoRequest
  <2> HIDE DEF new
  <2>2. QED
    BY <1>1, <2>1, QuietRequest DEF Arrive, new
<1>2. CASE CheckLimits(r)
  <2>1. RequestOK([q EXCEPT !.pc = "count"], rows, guestRows)
    BY <1>0, <1>2, GotoKeeps DEF CheckLimits, RequestPc
  <2>2. \/ req' = [req EXCEPT ![r] = [q EXCEPT !.pc = "count"]]
        \/ req' = [req EXCEPT ![r] = NoRequest]
    BY <1>2 DEF CheckLimits, Goto, Refuse
  <2>3. QED
    BY <1>0, <1>2, <2>1, <2>2, QuietRequest DEF CheckLimits
<1>3. CASE CountQueue(r)
  <2>1. RequestOK([q EXCEPT !.pc = "insert"], rows, guestRows)
    BY <1>0, <1>3, GotoKeeps DEF CountQueue, RequestPc
  <2>2. \/ req' = [req EXCEPT ![r] = [q EXCEPT !.pc = "insert"]]
        \/ req' = [req EXCEPT ![r] = NoRequest]
    BY <1>3 DEF CountQueue, Goto, Refuse
  <2>3. QED
    BY <1>0, <1>3, <2>1, <2>2, QuietRequest DEF CountQueue
<1>4. CASE Insert(r)
  <2> DEFINE row == [owner |-> q.owner, status |-> "queued"]
             pc  == IF q.owner \in Guests THEN "guestRead" ELSE "place"
             new == [q EXCEPT !.job = Len(rows) + 1, !.pc = pc]
  <2>1. /\ q.owner \in Owners /\ pc \in {"guestRead", "place"}
        /\ pc = "guestRead" => q.owner \in Guests
    BY <1>0, <1>4 DEF Insert, RequestOK
  <2>2. /\ row \in Row /\ row.owner = q.owner
        /\ rows' = Append(rows, row)
        /\ req' = [req EXCEPT ![r] = new]
    BY <1>4, <2>1 DEF Insert, Row
  <2>3. q.pc = "insert"
    BY <1>4 DEF Insert
  <2> HIDE DEF row, pc
  <2>4. /\ rows' \in Seq(Row) /\ Len(rows') = Len(rows) + 1
        /\ DOMAIN rows' = DOMAIN rows \cup {Len(rows) + 1}
        /\ rows'[Len(rows) + 1].owner = q.owner
        /\ \A j \in DOMAIN rows : rows'[j].owner = rows[j].owner
    BY <2>2, AppendRowFacts DEF Types
  <2>5. /\ Len(rows') <= MaxJobs /\ guestRows' = guestRows
        /\ UNCHANGED <<usage, queue, worker, others>>
    BY <1>0, <1>4, <2>4, BoundAssumption DEF Insert
  <2>6. /\ \A x : RequestOK(x, rows, guestRows) =>
                    RequestOK(x, rows', guestRows)
        /\ \A x : WorkerOK(x, rows) => WorkerOK(x, rows')
        /\ queue \in Seq(DOMAIN rows')
    <3>1. Len(rows) <= Len(rows') /\ Len(guestRows) <= Len(guestRows)
      BY <1>0, <2>4
    <3>2. QED
      BY <1>0, <2>4, <3>1, ActorsStay, Zenon
  <2>7. RequestOK(new, rows', guestRows)
    BY <1>0, <2>1, <2>3, <2>4, InsertKeeps DEF Types
  <2> HIDE DEF new
  <2>8. ASSUME NEW x \in Requests PROVE RequestOK(req'[x], rows', guestRows')
    BY <2>2, <2>5, <2>6, <2>7 DEF Types
  <2>9. req' = [x \in Requests |-> req'[x]]
    BY <2>2 DEF Types
  <2>10. /\ cancel \in [Cancellers -> SUBSET DOMAIN rows']
         /\ revived \subseteq DOMAIN rows'
    BY <2>4 DEF Types
  <2>11. QED
    BY <2>4, <2>5, <2>6, <2>8, <2>9, <2>10 DEF Types, others, history
<1>5. CASE GuestRead(r)
  <2> DEFINE mine == {i \in DOMAIN guestRows : guestRows[i].who = q.owner}
             row  == IF mine = {} THEN 0 ELSE Min(mine)
             n    == IF mine = {} THEN 0 ELSE guestRows[Min(mine)].n
             new  == [q EXCEPT !.pc = "guestWrite", !.row = row, !.n = n]
  <2>1. req' = [req EXCEPT ![r] = new] /\ q.pc = "guestRead"
    BY <1>5 DEF GuestRead, Types
  <2>2. mine # {} => Min(mine) \in DOMAIN guestRows
    <3>1. mine \subseteq DOMAIN guestRows /\ mine \subseteq Nat
      BY <1>0
    <3> HIDE DEF mine
    <3>2. QED
      BY <3>1, MinFacts
  <2>3. \A i \in DOMAIN guestRows : guestRows[i].n \in Nat
    <3>1. \A i \in DOMAIN guestRows : guestRows[i] \in Record
      BY <1>0, ElementOfSeq DEF Types
    <3>2. QED
      BY <3>1 DEF Record
  <2> HIDE DEF mine
  <2>4. row \in 0..Len(guestRows) /\ n \in Nat
    BY <1>0, <2>2, <2>3
  <2> HIDE DEF row, n
  <2>5. RequestOK(new, rows, guestRows)
    BY <1>0, <2>1, <2>4, GotoKeeps DEF RequestPc
  <2> HIDE DEF new
  <2>6. QED
    BY <1>5, <2>1, <2>5, QuietRequest DEF GuestRead
<1>6. CASE GuestWrite(r)
  <2> DEFINE new == [q EXCEPT !.pc = "place"]
  <2>1. q.row \in 0..Len(guestRows) /\ q.n \in Nat /\ q.owner \in Owners
    BY <1>0, <1>6 DEF GuestWrite, RequestOK, RequestType
  <2>2. req' = [req EXCEPT ![r] = new] /\ q.pc = "guestWrite" /\ rows' = rows
    BY <1>6 DEF GuestWrite, Goto
  <2>3. guestRows' \in Seq(Record) /\ Len(guestRows) <= Len(guestRows')
    <3>1. CASE q.row = 0
      <4>1. q.owner \in Guests
        BY <1>0, <2>2 DEF RequestOK
      <4>2. [who |-> q.owner, n |-> 1] \in Record
        BY <4>1 DEF Record
      <4>3. guestRows' = Append(guestRows, [who |-> q.owner, n |-> 1])
        BY <1>6, <3>1 DEF GuestWrite
      <4>4. QED
        BY <1>0, <4>2, <4>3, AppendProperties DEF Types
    <3>2. CASE q.row # 0
      <4> DEFINE rec == [guestRows[q.row] EXCEPT !.n = q.n + 1]
      <4>1. q.row \in 1..Len(guestRows)
        BY <1>0, <2>1, <3>2
      <4>2. rec \in Record
        <5>1. guestRows[q.row] \in Record
          BY <4>1, ElementOfSeq DEF Types
        <5>2. QED
          BY <2>1, <5>1 DEF Record
      <4>3. guestRows' = [guestRows EXCEPT ![q.row] = rec]
        BY <1>6, <3>2 DEF GuestWrite
      <4> HIDE DEF rec
      <4>4. QED
        BY <1>0, <4>1, <4>2, <4>3, ExceptSeq DEF Types
    <3>3. QED
      BY <3>1, <3>2
  <2>4. /\ \A x : RequestOK(x, rows, guestRows) =>
                    RequestOK(x, rows, guestRows')
        /\ RequestOK(new, rows, guestRows)
    <3>1. RequestOK(new, rows, guestRows)
      BY <1>0, <2>2, GotoKeeps DEF RequestPc
    <3>2. /\ Len(rows) <= Len(rows)
          /\ \A j \in DOMAIN rows : rows[j].owner = rows[j].owner
      BY <1>0
    <3>3. \A x : RequestOK(x, rows, guestRows) => RequestOK(x, rows, guestRows')
      BY <1>0, <2>3, <3>2, ActorsStay, Zenon
    <3>4. QED
      BY <3>1, <3>3
  <2> HIDE DEF new
  <2>5. ASSUME NEW x \in Requests PROVE RequestOK(req'[x], rows', guestRows')
    BY <2>2, <2>4 DEF Types
  <2>6. req' = [x \in Requests |-> req'[x]]
    BY <2>2 DEF Types
  <2>7. QED
    BY <1>6, <2>2, <2>3, <2>5, <2>6 DEF GuestWrite, Types, others, history
<1>7. CASE TellPlace(r)
  <2> DEFINE new == [q EXCEPT !.pc = "enqueue", !.n = Place(q.job)]
  <2>1. Place(q.job) \in Nat
    <3> DEFINE S == {i \in 1..q.job : rows[i].status = "queued"}
    <3>1. q.job \in Int
      BY <1>0 DEF RequestOK, RequestType
    <3>2. IsFiniteSet(S)
      BY <3>1, FS_Interval, FS_Subset
    <3>3. QED
      BY <3>2, FS_CardinalityType DEF Place
  <2>2. req' = [req EXCEPT ![r] = new] /\ q.pc = "place"
    BY <1>7 DEF TellPlace, Types
  <2>3. RequestOK(new, rows, guestRows)
    BY <1>0, <2>1, <2>2, GotoKeeps DEF RequestPc
  <2> HIDE DEF new
  <2>4. QED
    BY <1>7, <2>2, <2>3, QuietRequest DEF TellPlace
<1>8. CASE Enqueue(r)
  <2>1. queue' \in Seq(DOMAIN rows)
    BY <1>0, <1>8, AppendProperties DEF Enqueue, Types, RequestOK
  <2>2. ASSUME NEW x \in Requests PROVE RequestOK(req'[x], rows', guestRows')
    BY <1>0, <1>8 DEF Enqueue, Refuse, Types
  <2>3. req' = [x \in Requests |-> req'[x]]
    BY <1>8 DEF Enqueue, Refuse, Types
  <2>4. QED
    BY <1>8, <2>1, <2>2, <2>3 DEF Enqueue, Types, others, history
<1>9. QED
  BY <1>1, <1>2, <1>3, <1>4, <1>5, <1>6, <1>7, <1>8 DEF RequestStep

\* A step that writes statuses, or none.
RowsKept == /\ rows' \in Seq(Row)
            /\ Len(rows') = Len(rows) /\ DOMAIN rows' = DOMAIN rows
            /\ \A j \in DOMAIN rows : rows'[j].owner = rows[j].owner

LEMMA StatusKept ==
    ASSUME Types,
           \/ UNCHANGED rows
           \/ \E j \in DOMAIN rows :
                 \E s \in {"queued", "downloading", "done", "stopped"} :
                     SetStatus(j, s)
    PROVE  RowsKept
<1>1. CASE UNCHANGED rows
  BY <1>1 DEF Types, RowsKept
<1>2. ASSUME NEW j \in DOMAIN rows,
             NEW s \in {"queued", "downloading", "done", "stopped"},
             SetStatus(j, s)
      PROVE  RowsKept
  BY <1>2, SetStatusFacts DEF Types, RowsKept
<1>3. QED
  BY <1>1, <1>2

\* Such a step, which moves a worker or none.
LEMMA StatusKeeps ==
    ASSUME Types, RowsKept,
           UNCHANGED <<guestRows, req, cancel, restarts>>,
           usage' \in [Users -> Nat],
           queue' \in Seq(DOMAIN rows),
           worker' = [x \in Workers |-> worker'[x]],
           \A x \in Workers : WorkerOK(worker'[x], rows),
           finished' \in [Users -> Nat],
           revived' \subseteq DOMAIN rows
    PROVE  Types'
<1>1. /\ rows' \in Seq(Row) /\ Len(rows') = Len(rows)
      /\ \A i \in DOMAIN rows : rows'[i].owner = rows[i].owner
      /\ DOMAIN rows' = DOMAIN rows
  BY DEF RowsKept
<1>2. /\ rows \in Seq(Row) /\ guestRows \in Seq(Record) /\ Len(rows) <= MaxJobs
      /\ Len(rows) <= Len(rows') /\ Len(guestRows) <= Len(guestRows)
  BY <1>1, LenProperties DEF Types
<1>3. /\ \A q : RequestOK(q, rows, guestRows) => RequestOK(q, rows', guestRows)
      /\ \A v : WorkerOK(v, rows) => WorkerOK(v, rows')
      /\ \A s : s \in Seq(DOMAIN rows) => s \in Seq(DOMAIN rows')
  BY <1>1, <1>2, ActorsStay, Zenon
<1>4. QED
  BY <1>1, <1>2, <1>3 DEF Types

LEMMA WorkerTypes ==
    ASSUME Types, NEW w \in Workers, WorkerStep(w)
    PROVE  Types' /\ RowsKept
<1> DEFINE v == worker[w]
<1>0. /\ WorkerOK(v, rows) /\ WorkerOK(NoJob, rows)
      /\ Len(rows) \in Nat /\ DOMAIN rows = 1..Len(rows)
      /\ worker = [x \in Workers |-> worker[x]]
      /\ \A x \in Workers : WorkerOK(worker[x], rows)
      /\ usage \in [Users -> Nat] /\ queue \in Seq(DOMAIN rows)
      /\ finished \in [Users -> Nat] /\ revived \subseteq DOMAIN rows
  BY IdleOK, LenProperties DEF Types
<1>1. ASSUME NEW new, WorkerOK(new, rows), Move(w, new)
      PROVE  /\ worker' = [x \in Workers |-> worker'[x]]
             /\ \A x \in Workers : WorkerOK(worker'[x], rows)
  BY <1>0, <1>1 DEF Move
<1>2. CASE Take(w)
  <2> DEFINE j == Head(queue)
             new == [pc |-> "claim", job |-> j, seen |-> 0]
  <2>1. /\ j \in DOMAIN rows /\ queue' \in Seq(DOMAIN rows)
        /\ Move(w, new) \/ UNCHANGED worker
        /\ UNCHANGED <<rows, guestRows, usage, req, others>>
    BY <1>0, <1>2, HeadTailProperties DEF Take
  <2> HIDE DEF j
  <2>2. WorkerOK(new, rows)
    <3>1. j \in 0..Len(rows)
      BY <1>0, <2>1
    <3>2. QED
      BY <2>1, <3>1 DEF WorkerOK, WorkerType
  <2> HIDE DEF new
  <2>3. RowsKept
    BY <2>1, StatusKept
  <2>4. QED
    BY <1>0, <1>1, <2>1, <2>2, <2>3, StatusKeeps DEF others, history
<1>3. CASE Claim(w)
  <2> DEFINE new == [v EXCEPT !.pc = "run"]
  <2>1. /\ SetStatus(v.job, "downloading") /\ Move(w, new)
        /\ revived' \subseteq revived \cup {v.job}
        /\ UNCHANGED <<guestRows, usage, queue, req, cancel, restarts, finished>>
    BY <1>3 DEF Claim
  <2>2. v.job \in DOMAIN rows
    BY <1>0, <1>3 DEF Claim, WorkerOK
  <2>3. WorkerOK(new, rows)
    BY <1>0, <2>2 DEF WorkerOK, WorkerType
  <2> HIDE DEF new
  <2>4. RowsKept
    BY <2>1, <2>2, StatusKept
  <2>5. QED
    BY <1>0, <1>1, <2>1, <2>2, <2>3, <2>4, StatusKeeps
<1>4. CASE Finish(w)
  <2> DEFINE u == rows[v.job].owner
             new == IF u \in Users THEN [v EXCEPT !.pc = "usage"] ELSE NoJob
  <2>1. /\ SetStatus(v.job, "done") /\ Move(w, new)
        /\ finished' = IF u \in Users THEN [finished EXCEPT ![u] = @ + 1]
                       ELSE finished
        /\ UNCHANGED <<guestRows, usage, queue, req, cancel, restarts, revived>>
    BY <1>4 DEF Finish
  <2>2. v.job \in DOMAIN rows
    BY <1>0, <1>4 DEF Finish, WorkerOK
  <2>3. WorkerOK(new, rows)
    BY <1>0, <2>2 DEF WorkerOK, WorkerType
  <2>4. finished' \in [Users -> Nat]
    BY <1>0, <2>1
  <2> HIDE DEF new
  <2>5. RowsKept
    BY <2>1, <2>2, StatusKept
  <2>6. QED
    BY <1>0, <1>1, <2>1, <2>3, <2>4, <2>5, StatusKeeps
<1>5. CASE Fail(w)
  <2>1. SetStatus(v.job, "stopped") /\ Move(w, NoJob)
    BY <1>5 DEF Fail
  <2>2. v.job \in DOMAIN rows
    BY <1>0, <1>5 DEF Fail, WorkerOK
  <2>3. RowsKept
    BY <2>1, <2>2, StatusKept
  <2>4. QED
    BY <1>0, <1>1, <1>5, <2>1, <2>3, StatusKeeps DEF Fail, others, history
<1>6. CASE UsageRead(w)
  <2> DEFINE u == rows[v.job].owner
             new == [v EXCEPT !.pc = "usageWrite", !.seen = usage[u]]
  <2>1. v.pc = "usage" /\ Move(w, new)
    BY <1>6 DEF UsageRead
  <2>2. u \in Users /\ v.job \in DOMAIN rows
    BY <1>0, <2>1 DEF WorkerOK
  <2>3. usage[u] \in Nat
    BY <1>0, <2>2
  <2>4. WorkerOK(new, rows)
    BY <1>0, <2>2, <2>3 DEF WorkerOK, WorkerType
  <2> HIDE DEF new
  <2>5. RowsKept
    BY <1>6, StatusKept DEF UsageRead
  <2>6. QED
    BY <1>0, <1>1, <1>6, <2>1, <2>4, <2>5, StatusKeeps
    DEF UsageRead, others, history
<1>7. CASE UsageWrite(w)
  <2>1. v.seen \in Nat
    BY <1>0 DEF WorkerOK, WorkerType
  <2>2. usage' \in [Users -> Nat]
    <3>1. \/ usage' = usage
          \/ usage' = [usage EXCEPT ![rows[v.job].owner] = v.seen + 1]
      BY <1>7 DEF UsageWrite
    <3>2. v.seen + 1 \in Nat
      BY <2>1
    <3>3. QED
      BY <1>0, <3>1, <3>2
  <2>3. Move(w, NoJob)
    BY <1>7 DEF UsageWrite
  <2>4. RowsKept
    BY <1>7, StatusKept DEF UsageWrite
  <2>5. QED
    BY <1>0, <1>1, <1>7, <2>2, <2>3, <2>4, StatusKeeps
    DEF UsageWrite, others, history
<1>8. QED
  BY <1>2, <1>3, <1>4, <1>5, <1>6, <1>7 DEF WorkerStep

\* What a late cancellation leaves in the table.
LEMMA CancelRows ==
    ASSUME rows \in Seq(Row), NEW c \in Cancellers, CancelWrite(c)
    PROVE  /\ RowsKept
           /\ \A j \in DOMAIN rows :
                 rows'[j].status = IF j \in cancel[c] THEN "stopped"
                                   ELSE rows[j].status
<1>1. /\ DOMAIN rows = 1..Len(rows) /\ Len(rows) \in Nat
      /\ \A j \in DOMAIN rows : rows[j] \in Row
  BY ElementOfSeq, LenProperties
<1> DEFINE new(j) == IF j \in cancel[c]
                     THEN [rows[j] EXCEPT !.status = "stopped"] ELSE rows[j]
<1>2. rows' = [j \in DOMAIN rows |-> new(j)]
  BY DEF CancelWrite
<1>3. ASSUME NEW j \in DOMAIN rows
      PROVE  /\ new(j) \in Row /\ new(j).owner = rows[j].owner
             /\ new(j).status = IF j \in cancel[c] THEN "stopped"
                                ELSE rows[j].status
  BY <1>1 DEF Row
<1> HIDE DEF new
<1>4. rows' \in [1..Len(rows) -> Row]
  BY <1>1, <1>2, <1>3
<1>5. rows' \in Seq(Row)
  BY <1>1, <1>4, SeqDef
<1>6. Len(rows') = Len(rows)
  BY <1>1, <1>4, <1>5, LenProperties
<1>7. QED
  BY <1>1, <1>2, <1>3, <1>5, <1>6 DEF RowsKept

LEMMA CancelTypes ==
    ASSUME Types, NEW c \in Cancellers, CancelRead(c) \/ CancelWrite(c)
    PROVE  Types' /\ RowsKept
<1>1. RowsKept
  BY CancelRows, StatusKept DEF CancelRead, Types
<1>2. cancel' \in [Cancellers -> SUBSET DOMAIN rows]
  <2>1. \E S \in SUBSET DOMAIN rows : cancel' = [cancel EXCEPT ![c] = S]
    <3>1. CASE CancelRead(c)
      <4>1. PICK S \in {{j} : j \in Queued} \cup {Queued} :
                cancel' = [cancel EXCEPT ![c] = S]
        BY <3>1 DEF CancelRead
      <4>2. S \subseteq DOMAIN rows
        BY <4>1 DEF Queued
      <4>3. QED
        BY <4>1, <4>2
    <3>2. CASE CancelWrite(c)
      BY <3>2 DEF CancelWrite
    <3>3. QED
      BY <3>1, <3>2
  <2>2. QED
    BY <2>1 DEF Types
<1>3. /\ rows' \in Seq(Row) /\ Len(rows') = Len(rows)
      /\ \A i \in DOMAIN rows : rows'[i].owner = rows[i].owner
      /\ DOMAIN rows' = DOMAIN rows
  BY <1>1 DEF RowsKept
<1>4. /\ rows \in Seq(Row) /\ guestRows \in Seq(Record) /\ Len(rows) <= MaxJobs
      /\ Len(rows) <= Len(rows') /\ Len(guestRows) <= Len(guestRows)
  BY <1>3, LenProperties DEF Types
<1>5. /\ \A q : RequestOK(q, rows, guestRows) => RequestOK(q, rows', guestRows)
      /\ \A v : WorkerOK(v, rows) => WorkerOK(v, rows')
      /\ \A s : s \in Seq(DOMAIN rows) => s \in Seq(DOMAIN rows')
  BY <1>3, <1>4, ActorsStay, Zenon
<1>6. UNCHANGED <<guestRows, usage, queue, req, worker, restarts, history>>
  BY DEF CancelRead, CancelWrite
<1>7. QED
  BY <1>1, <1>2, <1>3, <1>4, <1>5, <1>6 DEF Types, history

\* What a restart leaves in the table.
LEMMA RestartRows ==
    ASSUME rows \in Seq(Row), Restart
    PROVE  /\ rows' \in Seq(Row)
           /\ Len(rows') = Len(rows) /\ DOMAIN rows' = DOMAIN rows
           /\ \A j \in DOMAIN rows :
                 /\ rows'[j].owner = rows[j].owner
                 /\ rows'[j].status = IF rows[j].status = "downloading"
                                      THEN "stopped" ELSE rows[j].status
<1>1. /\ DOMAIN rows = 1..Len(rows) /\ Len(rows) \in Nat
      /\ \A j \in DOMAIN rows : rows[j] \in Row
  BY ElementOfSeq, LenProperties
<1> DEFINE new(j) == IF rows[j].status = "downloading"
                     THEN [rows[j] EXCEPT !.status = "stopped"] ELSE rows[j]
<1>2. rows' = [j \in DOMAIN rows |-> new(j)]
  BY DEF Restart
<1>3. ASSUME NEW j \in DOMAIN rows
      PROVE  /\ new(j) \in Row /\ new(j).owner = rows[j].owner
             /\ new(j).status = IF rows[j].status = "downloading"
                                THEN "stopped" ELSE rows[j].status
  BY <1>1 DEF Row
<1> HIDE DEF new
<1>4. rows' \in [1..Len(rows) -> Row]
  BY <1>1, <1>2, <1>3
<1>5. rows' \in Seq(Row)
  BY <1>1, <1>4, SeqDef
<1>6. Len(rows') = Len(rows)
  BY <1>1, <1>4, <1>5, LenProperties
<1>7. QED
  BY <1>1, <1>2, <1>3, <1>5, <1>6

LEMMA RestartTypes ==
    ASSUME Types, Restart
    PROVE  Types'
<1>1. /\ rows \in Seq(Row) /\ guestRows \in Seq(Record) /\ guestRows' = guestRows
      /\ rows' \in Seq(Row)
      /\ Len(rows') = Len(rows) /\ DOMAIN rows' = DOMAIN rows
  BY RestartRows DEF Types, Restart
<1>2. queue' \in Seq(DOMAIN rows)
  <2>1. IsFiniteSet(Queued)
    BY <1>1, Finite, FS_Subset DEF Queued
  <2>2. queue' \in InIdOrder(Queued)
    BY DEF Restart
  <2>3. Queued \subseteq DOMAIN rows
    BY DEF Queued
  <2>4. queue' \in Seq(Queued)
    BY <2>1, <2>2, InIdOrderType
  <2>5. QED
    BY <2>3, <2>4, SeqMonotonic
<1>3. /\ RequestOK(NoRequest, rows', guestRows')
      /\ WorkerOK(NoJob, rows')
  BY <1>1, IdleOK
<1>4. /\ req' = [r \in Requests |-> NoRequest]
      /\ worker' = [w \in Workers |-> NoJob]
      /\ restarts' \in 0..MaxRestarts /\ usage' = usage
      /\ cancel' = [c \in Cancellers |-> {}]
      /\ UNCHANGED <<finished, revived>>
  BY BoundAssumption DEF Restart, Types, history
<1>5. QED
  BY <1>1, <1>2, <1>3, <1>4 DEF Types

LEMMA TypeStep == Types /\ [Next]_vars => Types'
<1> SUFFICES ASSUME Types, [Next]_vars
             PROVE  Types'
  OBVIOUS
<1>1. ASSUME NEW r \in Requests, RequestStep(r)
      PROVE  Types'
  BY <1>1, RequestTypes
<1>2. ASSUME NEW w \in Workers, WorkerStep(w)
      PROVE  Types'
  BY <1>2, WorkerTypes
<1>3. ASSUME NEW c \in Cancellers, CancelRead(c) \/ CancelWrite(c)
      PROVE  Types'
  BY <1>3, CancelTypes
<1>4. CASE Restart
  BY <1>4, RestartTypes
<1>5. CASE UNCHANGED vars
  BY <1>5 DEF Types, vars, others, history
<1>6. QED
  BY <1>1, <1>2, <1>3, <1>4, <1>5 DEF Next

LEMMA InitTypes == Init => Types
<1> SUFFICES ASSUME Init PROVE Types
  OBVIOUS
<1>1. /\ rows \in Seq(Row) /\ guestRows \in Seq(Record)
      /\ queue \in Seq(DOMAIN rows) /\ Len(rows) <= MaxJobs
  BY EmptySeq, BoundAssumption DEF Init
<1>2. RequestOK(NoRequest, rows, guestRows) /\ WorkerOK(NoJob, rows)
  BY <1>1, IdleOK
<1>3. /\ usage \in [Users -> Nat] /\ restarts \in 0..MaxRestarts
      /\ cancel \in [Cancellers -> SUBSET DOMAIN rows]
      /\ finished \in [Users -> Nat] /\ revived \subseteq DOMAIN rows
  BY BoundAssumption DEF Init
<1>4. QED
  BY <1>1, <1>2, <1>3 DEF Init, Types

\* Every row, record, request and worker keeps its type: a request finds the
\* row it inserted under its own name, a record keeps its visitor.
THEOREM TypeCorrect == Spec => []TypeOK
<1>1. Spec => []Types
  BY InitTypes, TypeStep, PTL DEF Spec
<1>2. QED
  BY <1>1, TypesAreTypeOK, PTL

-----------------------------------------------------------------------------
(* The size of the queue *)

\* A request that has counted but not inserted yet is an active row to come.
QueueInv ==
    Cardinality(Fresh) + Cardinality(Inserting)
        <= MaxQueue + Cardinality(Requests) - 1

\* A row that downloads has a worker, and one taken back never waits again.
Held ==
    /\ \A j \in DOMAIN rows : rows[j].status = "downloading" =>
          \E w \in Workers : worker[w].pc = "run" /\ worker[w].job = j
    /\ \A j \in revived : rows[j].status # "queued"

\* A step that adds no active row and sends nobody to the insertion.
LEMMA NoMoreQueued ==
    ASSUME Types, QueueInv, Fresh' \subseteq Fresh, Inserting' \subseteq Inserting
    PROVE  QueueInv'
<1>1. /\ IsFiniteSet(Fresh) /\ IsFiniteSet(Inserting)
      /\ Cardinality(Fresh) \in Nat /\ Cardinality(Inserting) \in Nat
      /\ Cardinality(Requests) \in Nat /\ MaxQueue \in Nat
  BY Finite, LimitAssumption DEF Types
<1>2. /\ IsFiniteSet(Fresh') /\ Cardinality(Fresh') <= Cardinality(Fresh)
      /\ IsFiniteSet(Inserting') /\ Cardinality(Inserting') <= Cardinality(Inserting)
  BY <1>1, FS_Subset
<1>3. Cardinality(Fresh') \in Nat /\ Cardinality(Inserting') \in Nat
  BY <1>2, FS_CardinalityType
<1>4. QED
  BY <1>1, <1>2, <1>3 DEF QueueInv

\* A step that ends the activity of a row, moves an active one on, or takes one
\* back.
LEMMA StatusQueued ==
    ASSUME Types, NEW j \in DOMAIN rows, NEW s, SetStatus(j, s),
           revived \subseteq revived',
           \/ s \in {"done", "stopped"}
           \/ s = "downloading" /\ (rows[j].status = "queued" \/ j \in revived')
    PROVE  Fresh' \subseteq Fresh
<1>1. s \in {"queued", "downloading", "done", "stopped"}
  OBVIOUS
<1>2. /\ DOMAIN rows' = DOMAIN rows /\ rows'[j].status = s
      /\ \A i \in DOMAIN rows : i # j => rows'[i].status = rows[i].status
  BY <1>1, SetStatusFacts DEF Types
<1>3. QED
  BY <1>2 DEF ActiveRows, Fresh

LEMMA QueueRequestStep ==
    ASSUME Types, QueueInv, NEW r \in Requests, RequestStep(r)
    PROVE  QueueInv'
<1>0. /\ IsFiniteSet(Fresh) /\ IsFiniteSet(Inserting)
      /\ Cardinality(Fresh) \in Nat /\ Cardinality(Inserting) \in Nat
      /\ Cardinality(ActiveRows) \in Nat
      /\ Cardinality(Fresh) <= Cardinality(ActiveRows)
      /\ Cardinality(Requests) \in Nat /\ MaxQueue \in Nat
      /\ rows \in Seq(Row) /\ RequestOK(req[r], rows, guestRows)
      /\ req = [x \in Requests |-> req[x]]
  BY Finite, LimitAssumption DEF Types
<1>1. ASSUME NEW q, q.pc # "insert", req' = [req EXCEPT ![r] = q],
             UNCHANGED <<rows, revived>>
      PROVE  QueueInv'
  <2>1. Inserting' \subseteq Inserting
    BY <1>0, <1>1 DEF Inserting
  <2>2. Fresh' = Fresh
    BY <1>1 DEF ActiveRows, Fresh
  <2>3. QED
    BY <2>1, <2>2, NoMoreQueued
<1>2. NoRequest.pc # "insert"
  BY DEF NoRequest
<1>3. ASSUME NEW pc, pc # "insert"
      PROVE  [req[r] EXCEPT !.pc = pc].pc # "insert"
  BY <1>0, <1>3 DEF RequestOK, RequestType
<1>4. ASSUME NEW o \in Owners, Arrive(r, o) PROVE QueueInv'
  <2>1. [NoRequest EXCEPT !.pc = "limits", !.owner = o].pc # "insert"
    BY DEF NoRequest
  <2>2. QED
    BY <1>1, <1>4, <2>1 DEF Arrive, others, history
<1>5. CASE CheckLimits(r)
  BY <1>1, <1>2, <1>3, <1>5 DEF CheckLimits, Goto, Refuse, others, history
<1>6. CASE CountQueue(r)
  <2>1. CASE req' = [req EXCEPT ![r] = NoRequest]
    BY <1>1, <1>2, <1>6, <2>1 DEF CountQueue, others, history
  <2>2. CASE Cardinality(ActiveRows) < MaxQueue
    <3>1. IsFiniteSet(Inserting') /\ Cardinality(Inserting') <= Cardinality(Requests)
      BY ActorsAssumption, FS_Subset DEF Inserting
    <3>2. Cardinality(Inserting') \in Nat
      BY <3>1, FS_CardinalityType
    <3>3. Fresh' = Fresh
      BY <1>6 DEF CountQueue, ActiveRows, Fresh, others, history
    <3>4. QED
      BY <1>0, <2>2, <3>1, <3>2, <3>3 DEF QueueInv
  <2>3. QED
    BY <1>0, <1>6, <2>1, <2>2 DEF CountQueue, Refuse
<1>7. CASE Insert(r)
  <2> DEFINE n == Len(rows) + 1
  <2>1. /\ rows' = Append(rows, [owner |-> req[r].owner, status |-> "queued"])
        /\ req[r].owner \in Owners /\ req[r].pc = "insert"
        /\ revived' = revived
    BY <1>0, <1>7 DEF Insert, RequestOK, others, history
  <2>2. [owner |-> req[r].owner, status |-> "queued"] \in Row
    BY <2>1 DEF Row
  <2>3. /\ DOMAIN rows' = DOMAIN rows \cup {n} /\ n \notin DOMAIN rows
        /\ \A i \in DOMAIN rows : rows'[i] = rows[i]
    BY <1>0, <2>1, <2>2, AppendRowFacts
  <2>4. /\ Fresh' \subseteq Fresh \cup {n} /\ n \notin Fresh
    BY <2>1, <2>3 DEF ActiveRows, Fresh
  <2>5. Inserting' = Inserting \ {r} /\ r \in Inserting
    <3>1. req'[r].pc # "insert"
      BY <1>0, <1>7 DEF Insert, RequestOK, RequestType
    <3>2. \A x \in Requests : x # r => req'[x] = req[x]
      BY <1>0, <1>7 DEF Insert
    <3>3. QED
      BY <2>1, <3>1, <3>2 DEF Inserting
  <2>6. /\ IsFiniteSet(Fresh \cup {n})
        /\ Cardinality(Fresh \cup {n}) = Cardinality(Fresh) + 1
    BY <1>0, <2>4, FS_AddElement
  <2>7. /\ Cardinality(Fresh') <= Cardinality(Fresh) + 1
        /\ Cardinality(Fresh') \in Nat
    BY <2>4, <2>6, FS_Subset, FS_CardinalityType
  <2>8. Cardinality(Inserting') = Cardinality(Inserting) - 1
    BY <1>0, <2>5, FS_RemoveElement
  <2>9. QED
    BY <1>0, <2>7, <2>8 DEF QueueInv
<1>8. CASE GuestRead(r)
  <2> DEFINE mine == {i \in DOMAIN guestRows : guestRows[i].who = req[r].owner}
             row  == IF mine = {} THEN 0 ELSE Min(mine)
             n    == IF mine = {} THEN 0 ELSE guestRows[Min(mine)].n
             new  == [req[r] EXCEPT !.pc = "guestWrite", !.row = row, !.n = n]
  <2>1. req' = [req EXCEPT ![r] = new] /\ UNCHANGED <<rows, revived>>
    BY <1>0, <1>8 DEF GuestRead, others, history
  <2> HIDE DEF row, n
  <2>2. new.pc # "insert"
    BY <1>0 DEF RequestOK, RequestType
  <2> HIDE DEF new
  <2>3. QED
    BY <1>1, <2>1, <2>2
<1>9. CASE GuestWrite(r)
  BY <1>1, <1>3, <1>9 DEF GuestWrite, Goto, others, history
<1>10. CASE TellPlace(r)
  <2> DEFINE new == [req[r] EXCEPT !.pc = "enqueue", !.n = Place(req[r].job)]
  <2>1. req' = [req EXCEPT ![r] = new] /\ UNCHANGED <<rows, revived>>
    BY <1>0, <1>10 DEF TellPlace, others, history
  <2>2. new.pc # "insert"
    BY <1>0 DEF RequestOK, RequestType
  <2> HIDE DEF new
  <2>3. QED
    BY <1>1, <2>1, <2>2
<1>11. CASE Enqueue(r)
  BY <1>1, <1>2, <1>11 DEF Enqueue, Refuse, others, history
<1>12. QED
  BY <1>4, <1>5, <1>6, <1>7, <1>8, <1>9, <1>10, <1>11 DEF RequestStep

LEMMA QueueStep == Types /\ QueueInv /\ [Next]_vars => QueueInv'
<1> SUFFICES ASSUME Types, QueueInv, [Next]_vars
             PROVE  QueueInv'
  OBVIOUS
<1>1. ASSUME NEW r \in Requests, RequestStep(r)
      PROVE  QueueInv'
  BY <1>1, QueueRequestStep
<1>2. ASSUME NEW w \in Workers, WorkerStep(w)
      PROVE  QueueInv'
  <2>1. WorkerOK(worker[w], rows) /\ req' = req
    BY <1>2 DEF Types, WorkerStep, Take, Claim, Finish, Fail, UsageRead,
                UsageWrite
  <2>2. Fresh' \subseteq Fresh
    <3>1. CASE Claim(w)
      <4> DEFINE j == worker[w].job
      <4>1. /\ j \in DOMAIN rows /\ SetStatus(j, "downloading")
            /\ revived \subseteq revived'
            /\ rows[j].status = "queued" \/ j \in revived'
        BY <2>1, <3>1 DEF Claim, WorkerOK
      <4> HIDE DEF j
      <4>2. QED
        BY <4>1, StatusQueued
    <3>2. CASE Finish(w) \/ Fail(w)
      <4>1. worker[w].job \in DOMAIN rows /\ revived' = revived
        BY <2>1, <3>2 DEF Finish, Fail, WorkerOK, others, history
      <4>2. \E s \in {"done", "stopped"} : SetStatus(worker[w].job, s)
        BY <3>2 DEF Finish, Fail
      <4>3. QED
        BY <4>1, <4>2, StatusQueued
    <3>3. CASE Take(w) \/ UsageRead(w) \/ UsageWrite(w)
      BY <3>3 DEF Take, UsageRead, UsageWrite, ActiveRows, Fresh, others, history
    <3>4. QED
      BY <1>2, <3>1, <3>2, <3>3 DEF WorkerStep
  <2>3. Inserting' = Inserting
    BY <2>1 DEF Inserting
  <2>4. QED
    BY <2>2, <2>3, NoMoreQueued
<1>3. ASSUME NEW c \in Cancellers, CancelRead(c) \/ CancelWrite(c)
      PROVE  QueueInv'
  <2>1. Inserting' = Inserting /\ revived' = revived
    BY <1>3 DEF CancelRead, CancelWrite, Inserting, history
  <2>2. Fresh' \subseteq Fresh
    <3>1. CASE CancelRead(c)
      BY <2>1, <3>1 DEF CancelRead, ActiveRows, Fresh
    <3>2. CASE CancelWrite(c)
      <4>1. /\ DOMAIN rows' = DOMAIN rows
            /\ \A j \in DOMAIN rows : rows'[j].status \in {"stopped", rows[j].status}
        BY <3>2, CancelRows DEF Types, RowsKept
      <4>2. QED
        BY <2>1, <4>1 DEF ActiveRows, Fresh
    <3>3. QED
      BY <1>3, <3>1, <3>2
  <2>3. QED
    BY <2>1, <2>2, NoMoreQueued
<1>4. CASE Restart
  <2>1. Fresh' \subseteq Fresh
    <3>1. /\ DOMAIN rows' = DOMAIN rows /\ revived' = revived
          /\ \A j \in DOMAIN rows :
                rows'[j].status = IF rows[j].status = "downloading"
                                  THEN "stopped" ELSE rows[j].status
      BY <1>4, RestartRows DEF Types, Restart, history
    <3>2. QED
      BY <3>1 DEF ActiveRows, Fresh
  <2>2. Inserting' = {}
    BY <1>4 DEF Restart, Inserting, NoRequest
  <2>3. QED
    BY <2>1, <2>2, NoMoreQueued
<1>5. CASE UNCHANGED vars
  <2>1. Fresh' = Fresh /\ Inserting' = Inserting
    BY <1>5 DEF vars, others, history, ActiveRows, Fresh, Inserting
  <2>2. QED
    BY <2>1, NoMoreQueued
<1>6. QED
  BY <1>1, <1>2, <1>3, <1>4, <1>5 DEF Next

LEMMA InitQueue == Init => QueueInv
<1> SUFFICES ASSUME Init PROVE QueueInv
  OBVIOUS
<1>1. Fresh = {} /\ Inserting = {}
  BY DEF Init, ActiveRows, Fresh, Inserting, NoRequest
<1>2. Cardinality(Requests) \in Nat \ {0} /\ MaxQueue \in Nat
  <2>1. rows \in Seq(Row)
    BY InitTypes DEF Types
  <2>2. QED
    BY <2>1, Finite, LimitAssumption
<1>3. Cardinality({}) = 0
  BY FS_EmptySet
<1>4. QED
  BY <1>1, <1>2, <1>3 DEF QueueInv

\* The step of a request adds a row that waits, or none.
LEMMA RequestRows ==
    ASSUME Types, NEW r \in Requests, RequestStep(r)
    PROVE  /\ DOMAIN rows \subseteq DOMAIN rows'
           /\ \A j \in DOMAIN rows : rows'[j] = rows[j]
           /\ \A j \in DOMAIN rows' \ DOMAIN rows : rows'[j].status = "queued"
           /\ UNCHANGED <<usage, worker, finished, revived>>
<1>1. UNCHANGED <<usage, worker, finished, revived>>
  BY DEF RequestStep, Arrive, CheckLimits, CountQueue, Insert, GuestRead,
         GuestWrite, TellPlace, Enqueue, others, history
<1>2. CASE Insert(r)
  <2> DEFINE row == [owner |-> req[r].owner, status |-> "queued"]
  <2>1. rows' = Append(rows, row) /\ row \in Row /\ row.status = "queued"
    BY <1>2 DEF Insert, Types, RequestOK, Row
  <2> HIDE DEF row
  <2>2. QED
    BY <1>1, <2>1, AppendRowFacts DEF Types
<1>3. CASE ~ Insert(r)
  <2>1. rows' = rows
    BY <1>3 DEF RequestStep, Arrive, CheckLimits, CountQueue, GuestRead,
                GuestWrite, TellPlace, Enqueue
  <2>2. QED
    BY <1>1, <2>1
<1>4. QED
  BY <1>2, <1>3

LEMMA HeldStep == Types /\ Held /\ [Next]_vars => Held'
<1> SUFFICES ASSUME Types, Held, [Next]_vars
             PROVE  Held'
  OBVIOUS
<1>0. /\ worker = [x \in Workers |-> worker[x]] /\ revived \subseteq DOMAIN rows
      /\ \A x \in Workers : /\ WorkerOK(worker[x], rows)
                            /\ worker[x] \in WorkerType(Len(rows))
      /\ rows \in Seq(Row) /\ NoJob.pc = "idle"
  BY DEF Types, WorkerOK, NoJob
<1>1. ASSUME NEW r \in Requests, RequestStep(r)
      PROVE  Held'
  BY <1>0, <1>1, RequestRows DEF Held
<1>2. ASSUME NEW w \in Workers, WorkerStep(w)
      PROVE  Held'
  <2> DEFINE j == worker[w].job
  <2>1. CASE Take(w) \/ UsageRead(w) \/ UsageWrite(w)
    <3>1. rows' = rows /\ revived' = revived /\ worker[w].pc # "run"
      BY <2>1 DEF Take, UsageRead, UsageWrite, others, history
    <3>2. \A x \in Workers : x # w => worker'[x] = worker[x]
      BY <1>0, <2>1 DEF Take, UsageRead, UsageWrite, Move
    <3>3. QED
      BY <3>1, <3>2 DEF Held
  <2>2. CASE Claim(w)
    <3>1. /\ SetStatus(j, "downloading") /\ j \in DOMAIN rows
          /\ revived' \subseteq revived \cup {j}
          /\ worker[w].pc = "claim"
      BY <1>0, <2>2 DEF Claim, WorkerOK
    <3>2. /\ worker'[w].pc = "run" /\ worker'[w].job = j
          /\ \A x \in Workers : x # w => worker'[x] = worker[x]
      BY <1>0, <2>2 DEF Claim, Move, WorkerType
    <3> HIDE DEF j
    <3>3. /\ DOMAIN rows' = DOMAIN rows /\ rows'[j].status = "downloading"
          /\ \A i \in DOMAIN rows : i # j => rows'[i].status = rows[i].status
      BY <1>0, <3>1, SetStatusFacts
    <3>4. ASSUME NEW i \in DOMAIN rows', rows'[i].status = "downloading"
          PROVE  \E x \in Workers : worker'[x].pc = "run" /\ worker'[x].job = i
      <4>1. CASE i = j
        BY <3>2, <4>1
      <4>2. CASE i # j
        <5>1. PICK x \in Workers : worker[x].pc = "run" /\ worker[x].job = i
          BY <3>3, <3>4, <4>2 DEF Held
        <5>2. QED
          BY <3>1, <3>2, <5>1
      <4>3. QED
        BY <4>1, <4>2
    <3>5. \A i \in revived' : rows'[i].status # "queued"
      BY <1>0, <3>1, <3>3 DEF Held
    <3>6. QED
      BY <3>4, <3>5 DEF Held
  <2>3. CASE Finish(w) \/ Fail(w)
    <3>1. /\ \E s \in {"done", "stopped"} : SetStatus(j, s)
          /\ j \in DOMAIN rows /\ revived' = revived
      BY <1>0, <2>3 DEF Finish, Fail, WorkerOK, others, history
    <3>2. \A x \in Workers : x # w => worker'[x] = worker[x]
      BY <1>0, <2>3 DEF Finish, Fail, Move
    <3>3. /\ DOMAIN rows' = DOMAIN rows /\ rows'[j].status \in {"done", "stopped"}
          /\ \A i \in DOMAIN rows : i # j => rows'[i].status = rows[i].status
      <4> HIDE DEF j
      <4>1. QED
        BY <1>0, <3>1, SetStatusFacts
    <3>4. ASSUME NEW i \in DOMAIN rows', rows'[i].status = "downloading"
          PROVE  \E x \in Workers : worker'[x].pc = "run" /\ worker'[x].job = i
      <4>1. i # j /\ i \in DOMAIN rows /\ rows[i].status = "downloading"
        BY <3>3, <3>4
      <4>2. PICK x \in Workers : worker[x].pc = "run" /\ worker[x].job = i
        BY <4>1 DEF Held
      <4>3. QED
        BY <3>2, <4>1, <4>2
    <3>5. \A i \in revived' : rows'[i].status # "queued"
      BY <1>0, <3>1, <3>3 DEF Held
    <3>6. QED
      BY <3>4, <3>5 DEF Held
  <2>4. QED
    BY <1>2, <2>1, <2>2, <2>3 DEF WorkerStep
<1>3. ASSUME NEW c \in Cancellers, CancelRead(c) \/ CancelWrite(c)
      PROVE  Held'
  <2>1. /\ DOMAIN rows' = DOMAIN rows /\ worker' = worker /\ revived' = revived
        /\ \A j \in DOMAIN rows : rows'[j].status \in {"stopped", rows[j].status}
    <3>1. CASE CancelRead(c)
      BY <3>1 DEF CancelRead, history
    <3>2. CASE CancelWrite(c)
      BY <1>0, <3>2, CancelRows DEF RowsKept, CancelWrite, history
    <3>3. QED
      BY <1>3, <3>1, <3>2
  <2>2. QED
    BY <1>0, <2>1 DEF Held
<1>4. CASE Restart
  <2>1. /\ DOMAIN rows' = DOMAIN rows /\ revived' = revived
        /\ \A j \in DOMAIN rows :
              rows'[j].status = IF rows[j].status = "downloading"
                                THEN "stopped" ELSE rows[j].status
    BY <1>0, <1>4, RestartRows DEF Restart, history
  <2>2. QED
    BY <1>0, <2>1 DEF Held
<1>5. CASE UNCHANGED vars
  BY <1>5 DEF vars, others, history, Held
<1>6. QED
  BY <1>1, <1>2, <1>3, <1>4, <1>5 DEF Next

\* What was taken back is spread over the workers, one row each.
LEMMA HeldBound ==
    ASSUME Types, Held
    PROVE  Cardinality(ActiveRows \cap revived) <= Cardinality(Workers)
<1> DEFINE f    == [w \in Workers |-> worker[w].job]
           Jobs == {f[w] : w \in Workers}
           Back == ActiveRows \cap revived
<1>1. ASSUME NEW j \in Back PROVE j \in Jobs
  <2>1. j \in DOMAIN rows /\ rows[j].status = "downloading"
    BY <1>1 DEF ActiveRows, Held
  <2>2. PICK w \in Workers : worker[w].job = j
    BY <2>1 DEF Held
  <2>3. QED
    BY <2>2
<1>2. f \in Surjection(Workers, Jobs)
  <2>1. f \in [Workers -> Jobs] /\ \A t \in Jobs : \E w \in Workers : f[w] = t
    OBVIOUS
  <2> HIDE DEF f, Jobs
  <2>2. QED
    BY <2>1, Fun_IsSurj
<1>3. IsFiniteSet(Jobs) /\ Cardinality(Jobs) <= Cardinality(Workers)
  <2> HIDE DEF f, Jobs
  <2>1. QED
    BY <1>2, FS_Surjection, ActorsAssumption
<1>4. Cardinality(Back) <= Cardinality(Jobs) /\ IsFiniteSet(Back)
  <2>1. Back \subseteq Jobs
    BY <1>1
  <2> HIDE DEF Back, Jobs
  <2>2. QED
    BY <1>3, <2>1, FS_Subset
<1>5. /\ Cardinality(Back) \in Nat /\ Cardinality(Jobs) \in Nat
      /\ Cardinality(Workers) \in Nat
  BY <1>3, <1>4, FS_CardinalityType, ActorsAssumption
<1> HIDE DEF Back, Jobs
<1>6. Cardinality(Back) <= Cardinality(Workers)
  BY <1>3, <1>4, <1>5
<1>7. QED
  BY <1>6 DEF Back

\* Between the count of the queue and the insertion of the row, create_download
\* holds no lock, and neither do a worker and a cancellation between the read of
\* a row and its commit: the queue may pass max_queue_size, but never by more
\* than the requests that were counting together and one row that each worker
\* took back from its cancellation, whatever the restarts do meanwhile.
THEOREM QueueOvershootHolds == Spec => []QueueOvershoot
<1>1. Init => Held
  BY DEF Init, Held
<1>2. Spec => [](Types /\ QueueInv /\ Held)
  BY <1>1, InitTypes, InitQueue, TypeStep, QueueStep, HeldStep, PTL DEF Spec
<1>3. Types /\ QueueInv /\ Held => QueueOvershoot
  <2> SUFFICES ASSUME Types, QueueInv, Held PROVE QueueOvershoot
    OBVIOUS
  <2>1. /\ Cardinality(Fresh) \in Nat /\ Cardinality(Inserting) \in Nat
        /\ Cardinality(Requests) \in Nat /\ MaxQueue \in Nat
    BY Finite, LimitAssumption DEF Types
  <2>2. Cardinality(Fresh) <= MaxQueue + Cardinality(Requests) - 1
    BY <2>1 DEF QueueInv
  <2>3. QED
    BY <2>2, HeldBound DEF QueueOvershoot, Fresh
<1>4. QED
  BY <1>2, <1>3, PTL

-----------------------------------------------------------------------------
(* The daily usage *)

\* The finished jobs of u pay for what is recorded, and for what the workers
\* still have to record.  The same of the sum that a worker read: the usage may
\* have been written since, but so much was paid for when it read it, and the
\* jobs finished since then are owed by others.  No row is counted: a late
\* cancellation may have overwritten it.
Charge(u) ==
    /\ usage[u] + Cardinality(Owing(u)) <= finished[u]
    /\ \A w \in Owing(u) : worker[w].pc = "usageWrite" =>
          worker[w].seen + Cardinality(Owing(u)) <= finished[u]

Charges == \A u \in Users : Charge(u)

IsOwing(v) == v.pc \in {"usage", "usageWrite"}

\* A step that finishes no file for u and records none.
LEMMA SameCharge ==
    ASSUME NEW u, Charge(u), Owing(u)' = Owing(u), usage'[u] = usage[u],
           finished'[u] = finished[u],
           \A w \in Owing(u) : worker'[w] = worker[w]
    PROVE  Charge(u)'
BY DEF Charge

\* A step that leaves alone what the workers owe.
LEMMA QuietCharge ==
    ASSUME Types, Charges, UNCHANGED <<usage, finished>>,
           \A j \in DOMAIN rows : rows'[j].owner = rows[j].owner,
           \A w \in Workers : \/ worker'[w] = worker[w]
                              \/ ~ IsOwing(worker[w]) /\ ~ IsOwing(worker'[w])
    PROVE  Charges'
<1>1. \A w \in Workers : IsOwing(worker[w]) => worker[w].job \in DOMAIN rows
  BY DEF Types, WorkerOK, IsOwing
<1>2. ASSUME NEW u \in Users PROVE Charge(u)'
  <2>1. Owing(u)' = Owing(u)
    BY <1>1 DEF Owing, IsOwing
  <2>2. \A w \in Owing(u) : worker'[w] = worker[w]
    BY DEF Owing, IsOwing
  <2>3. QED
    BY <2>1, <2>2, SameCharge DEF Charges
<1>3. QED
  BY <1>2 DEF Charges

LEMMA ChargeWorkerStep ==
    ASSUME Types, Charges, NEW w \in Workers, WorkerStep(w)
    PROVE  Charges'
<1> DEFINE v == worker[w]
           j == v.job
           o == rows[j].owner
<1>0. /\ worker = [x \in Workers |-> worker[x]]
      /\ v \in WorkerType(Len(rows)) /\ WorkerOK(v, rows)
      /\ \A x \in Workers : worker[x].pc # "idle" => worker[x].job \in DOMAIN rows
      /\ NoJob.pc = "idle"
      /\ \A u \in Users : usage[u] \in Nat /\ finished[u] \in Nat
      /\ \A x \in Workers : worker[x].seen \in Nat
      /\ usage \in [Users -> Nat] /\ finished \in [Users -> Nat]
      /\ \A i \in DOMAIN rows : rows'[i].owner = rows[i].owner
  BY WorkerTypes DEF Types, WorkerOK, WorkerType, NoJob, RowsKept
<1>00. \A u : IsFiniteSet(Owing(u)) /\ Cardinality(Owing(u)) \in Nat
  BY Finite DEF Types
<1>1. CASE Take(w) \/ Claim(w) \/ Fail(w)
  <2>1. UNCHANGED <<usage, finished>> /\ ~ IsOwing(v)
    BY <1>1 DEF Take, Claim, Fail, IsOwing, others, history
  <2>2. /\ ~ IsOwing(worker'[w])
        /\ \A x \in Workers : x # w => worker'[x] = worker[x]
    BY <1>0, <1>1 DEF Take, Claim, Fail, Move, IsOwing, NoJob, WorkerType
  <2>3. QED
    BY <1>0, <2>1, <2>2, QuietCharge
<1>2. CASE Finish(w)
  <2> DEFINE new == IF o \in Users THEN [v EXCEPT !.pc = "usage"] ELSE NoJob
  <2>1. /\ Move(w, new) /\ v.pc = "run" /\ usage' = usage
        /\ j \in DOMAIN rows
        /\ finished' = IF o \in Users THEN [finished EXCEPT ![o] = @ + 1]
                       ELSE finished
    BY <1>0, <1>2 DEF Finish
  <2>2. /\ o \in Users => new.pc = "usage" /\ new.job = j
        /\ o \notin Users => new.pc = "idle"
    BY <1>0 DEF WorkerType
  <2>3. /\ worker'[w] = new
        /\ \A x \in Workers : x # w => worker'[x] = worker[x]
    BY <1>0, <2>1 DEF Move
  <2> HIDE DEF new
  <2>4. ASSUME NEW u \in Users PROVE Charge(u)'
    <3>1. CASE o # u
      <4>1. Owing(u)' = Owing(u) /\ w \notin Owing(u)
        BY <1>0, <2>1, <2>2, <2>3, <3>1 DEF Owing
      <4>2. \A x \in Owing(u) : worker'[x] = worker[x]
        BY <2>3, <4>1 DEF Owing
      <4>3. finished'[u] = finished[u]
        BY <1>0, <2>1, <3>1
      <4>4. QED
        BY <2>1, <4>1, <4>2, <4>3, SameCharge DEF Charges
    <3>2. CASE o = u
      <4>1. Owing(u)' = Owing(u) \cup {w} /\ w \notin Owing(u)
        BY <1>0, <2>1, <2>2, <2>3, <3>2 DEF Owing
      <4>2. Cardinality(Owing(u)') = Cardinality(Owing(u)) + 1
        BY <1>00, <4>1, FS_AddElement
      <4>3. finished'[u] = finished[u] + 1
        BY <1>0, <2>1, <3>2
      <4>4. ASSUME NEW x \in Owing(u)', worker'[x].pc = "usageWrite"
            PROVE  /\ x \in Owing(u) /\ worker[x].pc = "usageWrite"
                   /\ worker'[x] = worker[x] /\ worker[x].seen \in Nat
        <5>1. x # w
          BY <2>2, <2>3, <3>2, <4>4
        <5>2. x \in Owing(u) /\ x \in Workers
          BY <4>1, <4>4, <5>1 DEF Owing
        <5>3. QED
          BY <1>0, <2>3, <4>4, <5>1, <5>2
      <4>5. /\ usage[u] + Cardinality(Owing(u)) <= finished[u]
            /\ \A x \in Owing(u) : worker[x].pc = "usageWrite" =>
                  worker[x].seen + Cardinality(Owing(u)) <= finished[u]
        BY DEF Charges, Charge
      <4>6. usage'[u] + Cardinality(Owing(u)') <= finished'[u]
        BY <1>0, <1>00, <2>1, <4>2, <4>3, <4>5
      <4>7. ASSUME NEW x \in Owing(u)', worker'[x].pc = "usageWrite"
            PROVE  worker'[x].seen + Cardinality(Owing(u)') <= finished'[u]
        <5> DEFINE c  == Cardinality(Owing(u))
                   sx == worker[x].seen
                   d  == finished[u]
        <5>1. sx \in Nat /\ c \in Nat /\ d \in Nat /\ sx + c <= d
          BY <1>0, <1>00, <4>4, <4>5, <4>7
        <5>2. worker'[x].seen = sx
          BY <4>4, <4>7
        <5> HIDE DEF c, sx, d
        <5>3. sx + (c + 1) <= d + 1
          BY <5>1
        <5>4. QED
          BY <4>2, <4>3, <5>2, <5>3 DEF c, d
      <4>8. QED
        BY <4>6, <4>7 DEF Charge
    <3>3. QED
      BY <3>1, <3>2
  <2>5. QED
    BY <2>4 DEF Charges
<1>3. CASE UsageRead(w)
  <2>1. /\ Move(w, [v EXCEPT !.pc = "usageWrite", !.seen = usage[o]])
        /\ v.pc = "usage" /\ usage' = usage /\ rows' = rows
        /\ finished' = finished
    BY <1>3 DEF UsageRead, others, history
  <2>2. /\ worker'[w].pc = "usageWrite" /\ worker'[w].job = j
        /\ worker'[w].seen = usage[o]
        /\ \A x \in Workers : x # w => worker'[x] = worker[x]
    BY <1>0, <2>1 DEF Move, WorkerType
  <2>3. ASSUME NEW u \in Users PROVE Charge(u)'
    <3>1. Owing(u)' = Owing(u)
      BY <2>1, <2>2 DEF Owing
    <3>2. w \in Owing(u) => o = u
      BY DEF Owing
    <3>3. QED
      BY <2>1, <2>2, <3>1, <3>2 DEF Charges, Charge, Owing
  <2>4. QED
    BY <2>3 DEF Charges
<1>4. CASE UsageWrite(w)
  <2>1. /\ Move(w, NoJob)
        /\ v.pc = "usageWrite" /\ rows' = rows /\ finished' = finished
        /\ \/ usage' = usage
           \/ usage' = [usage EXCEPT ![o] = v.seen + 1]
    BY <1>4 DEF UsageWrite, others, history
  <2>2. /\ worker'[w].pc = "idle"
        /\ \A x \in Workers : x # w => worker'[x] = worker[x]
    BY <1>0, <2>1 DEF Move
  <2>3. ASSUME NEW u \in Users PROVE Charge(u)'
    <3>1. CASE o # u
      <4>1. Owing(u)' = Owing(u) /\ w \notin Owing(u)
        BY <2>1, <2>2, <3>1 DEF Owing
      <4>2. usage'[u] = usage[u]
        BY <1>0, <2>1, <3>1
      <4>3. \A x \in Owing(u) : worker'[x] = worker[x]
        BY <2>2, <4>1 DEF Owing
      <4>4. QED
        BY <2>1, <4>1, <4>2, <4>3, SameCharge DEF Charges
    <3>2. CASE o = u
      <4>1. Owing(u)' = Owing(u) \ {w} /\ w \in Owing(u)
        BY <2>1, <2>2, <3>2 DEF Owing
      <4>2. Cardinality(Owing(u)') = Cardinality(Owing(u)) - 1
        BY <1>00, <4>1, FS_RemoveElement
      <4>3. /\ usage[u] + Cardinality(Owing(u)) <= finished[u]
            /\ \A x \in Owing(u) : worker[x].pc = "usageWrite" =>
                  worker[x].seen + Cardinality(Owing(u)) <= finished[u]
        BY DEF Charges, Charge
      <4>4. usage'[u] \in {usage[u], v.seen + 1}
        BY <1>0, <2>1, <3>2
      <4> DEFINE c == Cardinality(Owing(u))
                 d == finished[u]
      <4>0. c \in Nat /\ d \in Nat /\ usage[u] \in Nat /\ v.seen \in Nat
        BY <1>0, <1>00
      <4>5. usage'[u] + Cardinality(Owing(u)') <= finished'[u]
        <5>1. v.seen + c <= d /\ usage[u] + c <= d
          BY <2>1, <4>1, <4>3
        <5>2. usage'[u] + (c - 1) <= d
          <6> HIDE DEF c, d, v
          <6>1. QED
            BY <4>0, <4>4, <5>1
        <5>3. QED
          BY <2>1, <4>2, <5>2
      <4>6. ASSUME NEW x \in Owing(u)', worker'[x].pc = "usageWrite"
            PROVE  worker'[x].seen + Cardinality(Owing(u)') <= finished'[u]
        <5>1. x \in Owing(u) /\ x \in Workers /\ worker'[x] = worker[x]
          BY <2>2, <4>1, <4>6 DEF Owing
        <5>2. worker[x].seen \in Nat /\ worker[x].seen + c <= d
          BY <1>0, <4>3, <4>6, <5>1
        <5>3. worker[x].seen + (c - 1) <= d
          <6> HIDE DEF c, d
          <6>1. QED
            BY <4>0, <5>2
        <5>4. QED
          BY <2>1, <4>2, <5>1, <5>3
      <4>7. QED
        BY <4>5, <4>6 DEF Charge
    <3>3. QED
      BY <3>1, <3>2
  <2>4. QED
    BY <2>3 DEF Charges
<1>5. QED
  BY <1>1, <1>2, <1>3, <1>4 DEF WorkerStep

LEMMA ChargeStep == Types /\ Charges /\ [Next]_vars => Charges'
<1> SUFFICES ASSUME Types, Charges, [Next]_vars
             PROVE  Charges'
  OBVIOUS
<1>1. ASSUME NEW r \in Requests, RequestStep(r)
      PROVE  Charges'
  <2>1. /\ UNCHANGED <<usage, finished>> /\ worker' = worker
        /\ \A j \in DOMAIN rows : rows'[j].owner = rows[j].owner
    BY <1>1, RequestRows
  <2>2. QED
    BY <2>1, QuietCharge
<1>2. ASSUME NEW w \in Workers, WorkerStep(w)
      PROVE  Charges'
  BY <1>2, ChargeWorkerStep
<1>3. ASSUME NEW c \in Cancellers, CancelRead(c) \/ CancelWrite(c)
      PROVE  Charges'
  <2>1. /\ UNCHANGED <<usage, finished>> /\ worker' = worker
        /\ \A j \in DOMAIN rows : rows'[j].owner = rows[j].owner
    BY <1>3, CancelTypes DEF CancelRead, CancelWrite, RowsKept, history
  <2>2. QED
    BY <2>1, QuietCharge
<1>4. CASE Restart
  <2>1. /\ worker' = [w \in Workers |-> NoJob]
        /\ UNCHANGED <<usage, finished>> /\ NoJob.pc = "idle"
    BY <1>4 DEF Restart, NoJob, history
  <2>2. ASSUME NEW u \in Users PROVE Charge(u)'
    <3>1. Owing(u)' = {} /\ Cardinality({}) = 0
      BY <2>1, FS_EmptySet DEF Owing
    <3>2. Cardinality(Owing(u)) \in Nat /\ finished[u] \in Nat /\ usage[u] \in Nat
      BY Finite DEF Types
    <3>3. QED
      BY <2>1, <3>1, <3>2 DEF Charges, Charge
  <2>3. QED
    BY <2>2 DEF Charges
<1>5. CASE UNCHANGED vars
  BY <1>5 DEF vars, others, history, Charges, Charge, Owing
<1>6. QED
  BY <1>1, <1>2, <1>3, <1>4, <1>5 DEF Next

LEMMA InitCharges == Init => Charges
<1> SUFFICES ASSUME Init, NEW u \in Users PROVE Charge(u)
  BY DEF Charges
<1>1. Owing(u) = {} /\ Cardinality({}) = 0
  BY FS_EmptySet DEF Init, NoJob, Owing
<1>2. usage[u] = 0 /\ finished[u] = 0
  BY DEF Init
<1>3. QED
  BY <1>1, <1>2 DEF Charge

\* record_usage adds a file to the day's usage in a read and a later write, and
\* two workers of one account may cross there.  A file may go uncounted that
\* way, but none is counted twice and none before it is finished: an account is
\* never charged for more than it downloaded, whatever cancellations overwrite
\* its rows meanwhile.
THEOREM NeverOverchargedHolds == Spec => []NeverOvercharged
<1>1. Spec => [](Types /\ Charges)
  BY InitTypes, InitCharges, TypeStep, ChargeStep, PTL DEF Spec
<1>2. Types /\ Charges => NeverOvercharged
  <2> SUFFICES ASSUME Types, Charges, NEW u \in Users
               PROVE  usage[u] <= finished[u]
    BY DEF NeverOvercharged
  <2>1. usage[u] \in Nat /\ Cardinality(Owing(u)) \in Nat /\ finished[u] \in Nat
    BY Finite DEF Types
  <2>2. QED
    BY <2>1 DEF Charges, Charge
<1>3. QED
  BY <1>1, <1>2, PTL

-----------------------------------------------------------------------------
(* The guests, with a limit of one *)

\* Visitors of one address, or of one cookie: any two count for each other.
Group(S) == S \in SUBSET Guests /\ \A g, h \in S : SameVisitor(g, h)

OfGroup(S) == {j \in DOMAIN rows : rows[j].owner \in S}

\* A request that passed the limit and has no row yet, and one that has a row
\* and no record yet.
IsPassed(q, S) == q.pc \in {"count", "insert"} /\ q.owner \in S

IsPending(q, S) == q.pc \in {"guestRead", "guestWrite"} /\ q.owner \in S

Passed(S) == {r \in Requests : IsPassed(req[r], S)}

Pending(S) == {r \in Requests : IsPending(req[r], S)}

Recorded(S) == \E i \in DOMAIN guestRows : guestRows[i].who \in S

\* A record counts something, and a request that will add to one found its own.
AllCounted == \A i \in DOMAIN guestRows : guestRows[i].n >= 1

OwnRecord ==
    \A r \in Requests : req[r].pc = "guestWrite" /\ req[r].row # 0 =>
        guestRows[req[r].row].who = req[r].owner

\* As long as nothing is recorded, every row belongs to a request that will
\* record it, or to a boot of the server that a crash ended.  The first record
\* closes the door: from then on only those that had passed before it add rows.
GuestInv(S) ==
    LET R == Cardinality(Requests)
    IN  /\ ~ Recorded(S) =>
              AcceptedFrom(S) <= R * restarts + Cardinality(Pending(S))
        /\ Recorded(S) =>
              AcceptedFrom(S) + Cardinality(Passed(S)) <= R * restarts + R

GuestsInv == AllCounted /\ OwnRecord /\ \A S : Group(S) => GuestInv(S)

\* One record of a visitor of the group is enough to refuse all of them.
LEMMA RecordRefuses ==
    ASSUME Types, AllCounted, GuestLimit <= 1, NEW S, Group(S), NEW g \in S,
           GuestCount(g) < GuestLimit
    PROVE  ~ Recorded(S)
<1> DEFINE mine  == {k \in DOMAIN guestRows : SameVisitor(guestRows[k].who, g)}
           units == {{i} \X (1..guestRows[i].n) : i \in mine}
<1>1. /\ DOMAIN guestRows = 1..Len(guestRows) /\ Len(guestRows) \in Nat
      /\ \A i \in DOMAIN guestRows : guestRows[i].n \in Nat
  <2>1. \A i \in DOMAIN guestRows : guestRows[i] \in Record
    BY ElementOfSeq, LenProperties DEF Types
  <2>2. QED
    BY <2>1, LenProperties DEF Types, Record
<1>2. IsFiniteSet(units)
  <2> DEFINE f == [i \in mine |-> {i} \X (1..guestRows[i].n)]
  <2>1. IsFiniteSet(mine)
    <3>1. 1 \in Int /\ Len(guestRows) \in Int
      BY <1>1
    <3>2. IsFiniteSet(DOMAIN guestRows)
      BY <1>1, <3>1, FS_Interval
    <3>3. mine \subseteq DOMAIN guestRows
      OBVIOUS
    <3> HIDE DEF mine
    <3>4. QED
      BY <3>2, <3>3, FS_Subset
  <2>2. f \in Surjection(mine, units)
    BY DEF Surjection
  <2>3. QED
    BY <2>1, <2>2, FS_Surjection
<1>3. \A T \in units : IsFiniteSet(T)
  <2> SUFFICES ASSUME NEW i \in mine PROVE IsFiniteSet({i} \X (1..guestRows[i].n))
    OBVIOUS
  <2>1. IsFiniteSet({i}) /\ IsFiniteSet(1..guestRows[i].n)
    <3>1. guestRows[i].n \in Int /\ 1 \in Int
      BY <1>1
    <3>2. QED
      BY <3>1, FS_Singleton, FS_Interval
  <2>2. QED
    BY <2>1, FS_Product
<1>4. IsFiniteSet(Units(g))
  <2>1. IsFiniteSet(UNION units)
    <3> HIDE DEF units
    <3>1. QED
      BY <1>2, <1>3, FS_UNION
  <2>2. QED
    BY <2>1 DEF Units
<1>5. ASSUME Recorded(S) PROVE FALSE
  <2>1. PICK i \in DOMAIN guestRows : guestRows[i].who \in S
    BY <1>5 DEF Recorded
  <2>2. i \in mine /\ 1 \in 1..guestRows[i].n
    BY <1>1, <2>1 DEF Group, AllCounted
  <2>3. <<i, 1>> \in Units(g)
    BY <2>2 DEF Units
  <2>4. Cardinality(Units(g)) \in Nat /\ Cardinality(Units(g)) # 0
    BY <1>4, <2>3, FS_CardinalityType, FS_EmptySet
  <2>5. QED
    BY <2>4, LimitAssumption DEF GuestCount
<1>6. QED
  BY <1>5

\* What is counted is finite.
LEMMA GuestFinite ==
    ASSUME Types, NEW S
    PROVE  /\ IsFiniteSet(OfGroup(S)) /\ AcceptedFrom(S) \in Nat
           /\ AcceptedFrom(S) = Cardinality(OfGroup(S))
           /\ IsFiniteSet(Passed(S)) /\ Cardinality(Passed(S)) \in Nat
           /\ IsFiniteSet(Pending(S)) /\ Cardinality(Pending(S)) \in Nat
           /\ Cardinality(Passed(S)) + Cardinality(Pending(S))
                 <= Cardinality(Requests)
           /\ Cardinality(Requests) \in Nat
           /\ Cardinality(Requests) * restarts \in Nat
<1>1. IsFiniteSet(DOMAIN rows) /\ Cardinality(Requests) \in Nat
  BY Finite DEF Types
<1>2. IsFiniteSet(OfGroup(S)) /\ AcceptedFrom(S) = Cardinality(OfGroup(S))
  BY <1>1, FS_Subset DEF OfGroup, AcceptedFrom
<1>3. IsFiniteSet(Passed(S)) /\ IsFiniteSet(Pending(S))
  BY ActorsAssumption, FS_Subset DEF Passed, Pending
<1>4. Passed(S) \cap Pending(S) = {} /\ Passed(S) \cup Pending(S) \subseteq Requests
  BY DEF Passed, Pending, IsPassed, IsPending
<1>5. Cardinality(Passed(S) \cup Pending(S))
         = Cardinality(Passed(S)) + Cardinality(Pending(S)) - Cardinality({})
  BY <1>3, <1>4, FS_Union
<1>6. Cardinality(Passed(S) \cup Pending(S)) <= Cardinality(Requests)
  BY <1>4, ActorsAssumption, FS_Subset
<1>7. /\ Cardinality({}) = 0 /\ AcceptedFrom(S) \in Nat
      /\ Cardinality(Passed(S)) \in Nat /\ Cardinality(Pending(S)) \in Nat
  BY <1>2, <1>3, FS_CardinalityType, FS_EmptySet
<1>8. restarts \in Nat
  BY BoundAssumption DEF Types
<1>9. Cardinality(Requests) * restarts \in Nat
  BY <1>1, <1>8
<1>10. QED
  BY <1>1, <1>2, <1>3, <1>5, <1>6, <1>7, <1>9

\* A step that takes no request of the group forward.
LEMMA GuestSame ==
    ASSUME Types, NEW S, GuestInv(S), OfGroup(S)' = OfGroup(S),
           Passed(S)' \subseteq Passed(S), Pending(S)' = Pending(S),
           Recorded(S)' <=> Recorded(S), UNCHANGED restarts
    PROVE  GuestInv(S)'
<1>1. AcceptedFrom(S)' = AcceptedFrom(S)
  BY DEF AcceptedFrom, OfGroup
<1>2. /\ Cardinality(Passed(S)') <= Cardinality(Passed(S))
      /\ Cardinality(Passed(S)') \in Nat
  BY GuestFinite, FS_Subset, FS_CardinalityType
<1>3. QED
  BY <1>1, <1>2, GuestFinite DEF GuestInv

\* The sets before and after a step of one request.
LEMMA OneRequest ==
    ASSUME Types, NEW S, NEW r \in Requests, NEW q, req' = [req EXCEPT ![r] = q]
    PROVE  /\ Passed(S)' \ {r} = Passed(S) \ {r}
           /\ Pending(S)' \ {r} = Pending(S) \ {r}
           /\ r \in Passed(S)' <=> IsPassed(q, S)
           /\ r \in Pending(S)' <=> IsPending(q, S)
           /\ r \in Passed(S) <=> IsPassed(req[r], S)
           /\ r \in Pending(S) <=> IsPending(req[r], S)
<1>1. req'[r] = q /\ \A x \in Requests : x # r => req'[x] = req[x]
  BY DEF Types
<1>2. QED
  BY <1>1 DEF Passed, Pending, IsPassed, IsPending


\* A request that stays on its side of a limit leaves the sets alone.
LEMMA RequestStays ==
    ASSUME Types, NEW S, NEW r \in Requests, NEW q, req' = [req EXCEPT ![r] = q]
    PROVE  /\ (IsPassed(q, S) => IsPassed(req[r], S))
                 => Passed(S)' \subseteq Passed(S)
           /\ (IsPassed(q, S) <=> IsPassed(req[r], S)) => Passed(S)' = Passed(S)
           /\ (IsPending(q, S) <=> IsPending(req[r], S))
                 => Pending(S)' = Pending(S)
<1>1. /\ Passed(S)' \ {r} = Passed(S) \ {r}
      /\ Pending(S)' \ {r} = Pending(S) \ {r}
      /\ r \in Passed(S)' <=> IsPassed(q, S)
      /\ r \in Pending(S)' <=> IsPending(q, S)
      /\ r \in Passed(S) <=> IsPassed(req[r], S)
      /\ r \in Pending(S) <=> IsPending(req[r], S)
  BY OneRequest
<1>2. QED
  BY <1>1

LEMMA GuestRequestStep ==
    ASSUME Types, AllCounted, OwnRecord, GuestLimit <= 1,
           NEW S, Group(S), GuestInv(S), NEW r \in Requests, RequestStep(r)
    PROVE  GuestInv(S)'
<1> DEFINE q == req[r]
<1>0. /\ RequestOK(q, rows, guestRows) /\ q \in RequestType(Len(rows), Len(guestRows))
      /\ S \subseteq Guests /\ req = [x \in Requests |-> req[x]]
      /\ rows \in Seq(Row)
  BY DEF Types, RequestOK, Group
<1>1. \* a step that leaves r as far as it was, or back where it began
      ASSUME NEW new, req' = [req EXCEPT ![r] = new],
             UNCHANGED <<rows, guestRows, restarts>>,
             IsPassed(new, S) => IsPassed(q, S),
             IsPending(new, S) <=> IsPending(q, S)
      PROVE  GuestInv(S)'
  <2>1. Passed(S)' \subseteq Passed(S) /\ Pending(S)' = Pending(S)
    BY <1>1, RequestStays
  <2>2. OfGroup(S)' = OfGroup(S) /\ (Recorded(S)' <=> Recorded(S))
    BY <1>1 DEF OfGroup, Recorded
  <2>3. QED
    BY <1>1, <2>1, <2>2, GuestSame
<1>2. ~ IsPassed(NoRequest, S) /\ ~ IsPending(NoRequest, S)
  BY DEF IsPassed, IsPending, NoRequest
<1>3. ASSUME NEW pc
      PROVE  /\ [q EXCEPT !.pc = pc].pc = pc
             /\ [q EXCEPT !.pc = pc].owner = q.owner
  BY <1>0 DEF RequestType
<1>4. ASSUME NEW o \in Owners, Arrive(r, o) PROVE GuestInv(S)'
  <2> DEFINE new == [NoRequest EXCEPT !.pc = "limits", !.owner = o]
  <2>1. ~ IsPassed(new, S) /\ ~ IsPending(new, S)
    BY DEF NoRequest, IsPassed, IsPending
  <2>2. q.pc = "idle" /\ req' = [req EXCEPT ![r] = new]
        /\ UNCHANGED <<rows, guestRows, restarts>>
    BY <1>4 DEF Arrive, others
  <2>3. ~ IsPending(q, S)
    BY <2>2 DEF IsPending
  <2> HIDE DEF new
  <2>4. QED
    BY <1>1, <2>1, <2>2, <2>3
<1>5. CASE CheckLimits(r)
  <2> DEFINE new == [q EXCEPT !.pc = "count"]
  <2>1. /\ q.pc = "limits" /\ UNCHANGED <<rows, guestRows, restarts>>
        /\ \/ req' = [req EXCEPT ![r] = NoRequest]
           \/ /\ req' = [req EXCEPT ![r] = new]
              /\ q.owner \in Guests => GuestCount(q.owner) < GuestLimit
    BY <1>5 DEF CheckLimits, Goto, Refuse, others
  <2>2. ~ IsPending(q, S) /\ ~ IsPassed(q, S)
    BY <2>1 DEF IsPending, IsPassed
  <2>3. ~ IsPending(new, S) /\ (IsPassed(new, S) => q.owner \in S)
    BY <1>3 DEF IsPending, IsPassed
  <2>4. CASE req' = [req EXCEPT ![r] = NoRequest]
    BY <1>1, <1>2, <2>1, <2>2, <2>4
  <2>5. CASE req' = [req EXCEPT ![r] = new] /\ ~ IsPassed(new, S)
    <3> HIDE DEF new
    <3>1. QED
      BY <1>1, <2>1, <2>2, <2>3, <2>5
  <2>6. CASE req' = [req EXCEPT ![r] = new] /\ IsPassed(new, S)
    <3>1. \/ req' = [req EXCEPT ![r] = NoRequest]
          \/ GuestCount(q.owner) < GuestLimit
      BY <1>0, <2>1, <2>3, <2>6
    <3>2. CASE GuestCount(q.owner) < GuestLimit
      <4>1. ~ Recorded(S)
        BY <2>3, <2>6, <3>2, RecordRefuses
      <4>2. Pending(S)' = Pending(S)
        <5> HIDE DEF new
        <5>1. QED
          BY <2>2, <2>3, <2>6, RequestStays
      <4>3. ~ Recorded(S)' /\ AcceptedFrom(S)' = AcceptedFrom(S)
        BY <2>1, <4>1 DEF Recorded, AcceptedFrom
      <4>4. QED
        BY <2>1, <4>1, <4>2, <4>3 DEF GuestInv
    <3>3. QED
      BY <2>4, <3>1, <3>2
  <2>7. QED
    BY <2>1, <2>4, <2>5, <2>6
<1>6. CASE CountQueue(r)
  <2> DEFINE new == [q EXCEPT !.pc = "insert"]
  <2>1. /\ q.pc = "count" /\ UNCHANGED <<rows, guestRows, restarts>>
        /\ \/ req' = [req EXCEPT ![r] = NoRequest]
           \/ req' = [req EXCEPT ![r] = new]
    BY <1>6 DEF CountQueue, Goto, Refuse, others
  <2>2. /\ ~ IsPending(q, S) /\ ~ IsPending(new, S)
        /\ IsPassed(new, S) => IsPassed(q, S)
    BY <1>3, <2>1 DEF IsPending, IsPassed
  <2> HIDE DEF new
  <2>3. QED
    BY <1>1, <1>2, <2>1, <2>2
<1>7. CASE Insert(r)
  <2> DEFINE row == [owner |-> q.owner, status |-> "queued"]
             n   == Len(rows) + 1
             pc  == IF q.owner \in Guests THEN "guestRead" ELSE "place"
             new == [q EXCEPT !.job = n, !.pc = pc]
  <2>1. /\ rows' = Append(rows, row) /\ row \in Row /\ row.owner = q.owner
        /\ q.pc = "insert" /\ UNCHANGED <<guestRows, restarts>>
        /\ req' = [req EXCEPT ![r] = new]
    BY <1>0, <1>7 DEF Insert, RequestOK, Row, others
  <2>2. new.pc = pc /\ new.owner = q.owner
    BY <1>0 DEF RequestType
  <2>3. /\ IsPassed(q, S) <=> q.owner \in S
        /\ IsPending(new, S) <=> q.owner \in S
        /\ ~ IsPassed(new, S) /\ ~ IsPending(q, S)
    BY <1>0, <2>1, <2>2 DEF IsPassed, IsPending
  <2> HIDE DEF row, new
  <2>4. /\ DOMAIN rows' = DOMAIN rows \cup {n} /\ n \notin DOMAIN rows
        /\ rows'[n] = row
        /\ \A j \in DOMAIN rows : rows'[j] = rows[j]
    BY <1>0, <2>1, AppendRowFacts
  <2>5. Recorded(S)' <=> Recorded(S)
    BY <2>1 DEF Recorded
  <2>6. CASE q.owner \notin S
    <3>1. OfGroup(S)' = OfGroup(S)
      BY <2>1, <2>4, <2>6 DEF OfGroup
    <3>2. Passed(S)' = Passed(S) /\ Pending(S)' = Pending(S)
      BY <2>1, <2>3, <2>6, RequestStays
    <3>3. QED
      BY <2>1, <2>5, <3>1, <3>2, GuestSame
  <2>7. CASE q.owner \in S
    <3>1. OfGroup(S)' = OfGroup(S) \cup {n} /\ n \notin OfGroup(S)
      BY <2>1, <2>4, <2>7 DEF OfGroup
    <3>2. AcceptedFrom(S)' = AcceptedFrom(S) + 1
      <4>1. Cardinality(OfGroup(S)') = Cardinality(OfGroup(S)) + 1
        BY <3>1, GuestFinite, FS_AddElement
      <4>2. AcceptedFrom(S)' = Cardinality(OfGroup(S)')
        BY DEF OfGroup, AcceptedFrom
      <4>3. QED
        BY <4>1, <4>2, GuestFinite
    <3>3. /\ Passed(S)' = Passed(S) \ {r} /\ r \in Passed(S)
          /\ Pending(S)' = Pending(S) \cup {r} /\ r \notin Pending(S)
      BY <2>1, <2>3, <2>7, OneRequest
    <3>4. /\ Cardinality(Passed(S)') = Cardinality(Passed(S)) - 1
          /\ Cardinality(Pending(S)') = Cardinality(Pending(S)) + 1
      BY <3>3, GuestFinite, FS_RemoveElement, FS_AddElement
    <3>5. QED
      BY <2>1, <2>5, <3>2, <3>4, GuestFinite DEF GuestInv
  <2>8. QED
    BY <2>6, <2>7
<1>8. CASE GuestRead(r)
  <2> DEFINE mine == {i \in DOMAIN guestRows : guestRows[i].who = q.owner}
             row  == IF mine = {} THEN 0 ELSE Min(mine)
             n    == IF mine = {} THEN 0 ELSE guestRows[Min(mine)].n
             new  == [q EXCEPT !.pc = "guestWrite", !.row = row, !.n = n]
  <2>1. /\ req' = [req EXCEPT ![r] = new] /\ q.pc = "guestRead"
        /\ UNCHANGED <<rows, guestRows, restarts>>
    BY <1>0, <1>8 DEF GuestRead, others
  <2> HIDE DEF row, n
  <2>2. new.pc = "guestWrite" /\ new.owner = q.owner
    BY <1>0 DEF RequestType
  <2> HIDE DEF new
  <2>3. ~ IsPassed(new, S) /\ (IsPending(new, S) <=> IsPending(q, S))
    BY <2>1, <2>2 DEF IsPassed, IsPending
  <2>4. QED
    BY <1>1, <2>1, <2>3
<1>9. CASE GuestWrite(r)
  <2> DEFINE new == [q EXCEPT !.pc = "place"]
  <2>1. /\ req' = [req EXCEPT ![r] = new] /\ q.pc = "guestWrite"
        /\ UNCHANGED <<rows, restarts>> /\ q.owner \in Guests
        /\ guestRows \in Seq(Record) /\ q.row \in 0..Len(guestRows)
        /\ DOMAIN guestRows = 1..Len(guestRows) /\ Len(guestRows) \in Nat
    BY <1>0, <1>9, LenProperties
    DEF GuestWrite, Goto, RequestOK, RequestType, Types, others
  <2>2. ~ IsPassed(q, S) /\ (IsPending(q, S) <=> q.owner \in S)
    BY <2>1 DEF IsPassed, IsPending
  <2>3. ~ IsPassed(new, S) /\ ~ IsPending(new, S)
    BY <1>3 DEF IsPassed, IsPending
  <2> HIDE DEF new
  <2>4. OfGroup(S)' = OfGroup(S) /\ AcceptedFrom(S)' = AcceptedFrom(S)
    BY <2>1 DEF OfGroup, AcceptedFrom
  <2>5. Passed(S)' = Passed(S)
    BY <2>1, <2>2, <2>3, RequestStays
  <2>6. Recorded(S)' <=> Recorded(S) \/ (q.row = 0 /\ q.owner \in S)
    <3>1. CASE q.row = 0
      <4> DEFINE rec == [who |-> q.owner, n |-> 1]
      <4>1. guestRows' = Append(guestRows, rec)
        BY <1>9, <3>1 DEF GuestWrite
      <4>2. rec \in Record /\ rec.who = q.owner
        BY <2>1 DEF Record
      <4> HIDE DEF rec
      <4>3. /\ DOMAIN guestRows' = DOMAIN guestRows \cup {Len(guestRows) + 1}
            /\ guestRows'[Len(guestRows) + 1] = rec
            /\ \A i \in DOMAIN guestRows : guestRows'[i] = guestRows[i]
        BY <2>1, <4>1, <4>2, AppendProperties
      <4>4. QED
        BY <3>1, <4>2, <4>3 DEF Recorded
    <3>2. CASE q.row # 0
      <4>1. guestRows' = [guestRows EXCEPT ![q.row].n = q.n + 1]
        BY <1>9, <3>2 DEF GuestWrite
      <4>2. \A i \in DOMAIN guestRows : guestRows[i] \in Record
        BY <2>1, ElementOfSeq
      <4>3. /\ DOMAIN guestRows' = DOMAIN guestRows
            /\ \A i \in DOMAIN guestRows : guestRows'[i].who = guestRows[i].who
        BY <4>1, <4>2 DEF Record
      <4>4. QED
        BY <3>2, <4>3 DEF Recorded
    <3>3. QED
      BY <3>1, <3>2
  <2>7. CASE q.owner \notin S
    <3>1. Pending(S)' = Pending(S)
      BY <2>1, <2>2, <2>3, <2>7, RequestStays
    <3>2. QED
      BY <2>1, <2>4, <2>5, <2>6, <2>7, <3>1, GuestSame
  <2>8. CASE q.owner \in S /\ Recorded(S)
    BY <2>1, <2>4, <2>5, <2>6, <2>8 DEF GuestInv
  <2>9. CASE q.owner \in S /\ ~ Recorded(S)
    <3>1. q.row = 0
      <4>1. CASE q.row # 0
        <5>1. guestRows[q.row].who = q.owner /\ q.row \in DOMAIN guestRows
          BY <2>1, <4>1 DEF OwnRecord
        <5>2. QED
          BY <2>9, <5>1 DEF Recorded
      <4>2. QED
        BY <4>1
    <3>2. Recorded(S)'
      BY <2>6, <2>9, <3>1
    <3>3. QED
      BY <2>1, <2>4, <2>5, <2>9, <3>2, GuestFinite DEF GuestInv
  <2>10. QED
    BY <2>7, <2>8, <2>9
<1>10. CASE TellPlace(r)
  <2> DEFINE new == [q EXCEPT !.pc = "enqueue", !.n = Place(q.job)]
  <2>1. /\ req' = [req EXCEPT ![r] = new] /\ q.pc = "place"
        /\ UNCHANGED <<rows, guestRows, restarts>>
    BY <1>0, <1>10 DEF TellPlace, others
  <2>2. new.pc = "enqueue"
    BY <1>0 DEF RequestType
  <2> HIDE DEF new
  <2>3. ~ IsPassed(new, S) /\ ~ IsPending(new, S) /\ ~ IsPending(q, S)
    BY <2>1, <2>2 DEF IsPassed, IsPending
  <2>4. QED
    BY <1>1, <2>1, <2>3
<1>11. CASE Enqueue(r)
  <2>1. ~ IsPending(q, S)
    BY <1>11 DEF Enqueue, IsPending
  <2>2. QED
    BY <1>1, <1>2, <1>11, <2>1 DEF Enqueue, Refuse, others
<1>12. QED
  BY <1>4, <1>5, <1>6, <1>7, <1>8, <1>9, <1>10, <1>11 DEF RequestStep

\* What the records hold.
LEMMA RecordsStep ==
    ASSUME Types, AllCounted, OwnRecord, NEW r \in Requests, RequestStep(r)
    PROVE  AllCounted' /\ OwnRecord'
<1> DEFINE q == req[r]
<1>0. /\ RequestOK(q, rows, guestRows) /\ q \in RequestType(Len(rows), Len(guestRows))
      /\ req = [x \in Requests |-> req[x]]
      /\ guestRows \in Seq(Record) /\ Len(guestRows) \in Nat
      /\ DOMAIN guestRows = 1..Len(guestRows)
      /\ \A i \in DOMAIN guestRows : guestRows[i] \in Record
      /\ \A x \in Requests : req[x].row \in 0..Len(guestRows)
  BY LenProperties, ElementOfSeq DEF Types, RequestOK, RequestType
<1>1. ASSUME NEW new, req' = [req EXCEPT ![r] = new], UNCHANGED guestRows,
             new.pc = "guestWrite" /\ new.row # 0 =>
                 guestRows[new.row].who = new.owner
      PROVE  AllCounted' /\ OwnRecord'
  <2>1. \A x \in Requests : req'[x] = IF x = r THEN new ELSE req[x]
    BY <1>0, <1>1
  <2>2. QED
    BY <1>1, <2>1 DEF AllCounted, OwnRecord
<1>2. NoRequest.pc # "guestWrite"
  BY DEF NoRequest
<1>3. ASSUME NEW pc PROVE [q EXCEPT !.pc = pc].pc = pc
  BY <1>0 DEF RequestType
<1>4. ASSUME NEW o \in Owners, Arrive(r, o) PROVE AllCounted' /\ OwnRecord'
  <2> DEFINE new == [NoRequest EXCEPT !.pc = "limits", !.owner = o]
  <2>1. new.pc = "limits"
    BY DEF NoRequest
  <2>2. req' = [req EXCEPT ![r] = new] /\ UNCHANGED guestRows
    BY <1>4 DEF Arrive
  <2> HIDE DEF new
  <2>3. QED
    BY <1>1, <2>1, <2>2
<1>5. CASE CheckLimits(r)
  <2>1. [q EXCEPT !.pc = "count"].pc # "guestWrite"
    BY <1>3
  <2>2. QED
    BY <1>1, <1>2, <1>5, <2>1 DEF CheckLimits, Goto, Refuse
<1>6. CASE CountQueue(r)
  <2>1. [q EXCEPT !.pc = "insert"].pc # "guestWrite"
    BY <1>3
  <2>2. QED
    BY <1>1, <1>2, <1>6, <2>1 DEF CountQueue, Goto, Refuse
<1>7. CASE Insert(r)
  <2> DEFINE pc  == IF q.owner \in Guests THEN "guestRead" ELSE "place"
             new == [q EXCEPT !.job = Len(rows) + 1, !.pc = pc]
  <2>1. req' = [req EXCEPT ![r] = new] /\ UNCHANGED guestRows
    BY <1>7 DEF Insert
  <2>2. pc # "guestWrite"
    OBVIOUS
  <2> HIDE DEF pc
  <2>3. new.pc = pc
    BY <1>0 DEF RequestType
  <2> HIDE DEF new
  <2>4. QED
    BY <1>1, <2>1, <2>2, <2>3
<1>8. CASE GuestRead(r)
  <2> DEFINE mine == {i \in DOMAIN guestRows : guestRows[i].who = q.owner}
             row  == IF mine = {} THEN 0 ELSE Min(mine)
             n    == IF mine = {} THEN 0 ELSE guestRows[Min(mine)].n
             new  == [q EXCEPT !.pc = "guestWrite", !.row = row, !.n = n]
  <2>1. req' = [req EXCEPT ![r] = new] /\ UNCHANGED guestRows
    BY <1>0, <1>8 DEF GuestRead
  <2>2. row # 0 => guestRows[row].who = q.owner
    <3>1. mine \subseteq Nat /\ \A i \in mine : guestRows[i].who = q.owner
      BY <1>0
    <3> HIDE DEF mine
    <3>2. mine # {} => Min(mine) \in mine
      BY <3>1, MinFacts
    <3>3. QED
      BY <3>1, <3>2
  <2> HIDE DEF row, n
  <2>3. new.row = row /\ new.owner = q.owner
    BY <1>0 DEF RequestType
  <2> HIDE DEF new
  <2>4. QED
    BY <1>1, <2>1, <2>2, <2>3
<1>9. CASE GuestWrite(r)
  <2> DEFINE new == [q EXCEPT !.pc = "place"]
  <2>1. req' = [req EXCEPT ![r] = new] /\ new.pc = "place"
    BY <1>3, <1>9 DEF GuestWrite, Goto
  <2> HIDE DEF new
  <2>2. /\ DOMAIN guestRows \subseteq DOMAIN guestRows'
        /\ \A i \in DOMAIN guestRows : guestRows'[i].who = guestRows[i].who
        /\ AllCounted'
    <3>1. CASE q.row = 0
      <4> DEFINE rec == [who |-> q.owner, n |-> 1]
      <4>1. guestRows' = Append(guestRows, rec)
        BY <1>9, <3>1 DEF GuestWrite
      <4>2. rec \in Record /\ rec.n = 1
        BY <1>0, <1>9 DEF GuestWrite, RequestOK, Record
      <4> HIDE DEF rec
      <4>3. /\ DOMAIN guestRows' = DOMAIN guestRows \cup {Len(guestRows) + 1}
            /\ guestRows'[Len(guestRows) + 1] = rec
            /\ \A i \in DOMAIN guestRows : guestRows'[i] = guestRows[i]
        BY <1>0, <4>1, <4>2, AppendProperties
      <4>4. QED
        BY <4>2, <4>3 DEF AllCounted
    <3>2. CASE q.row # 0
      <4>1. guestRows' = [guestRows EXCEPT ![q.row].n = q.n + 1]
        BY <1>9, <3>2 DEF GuestWrite
      <4>2. q.n + 1 >= 1
        BY <1>0 DEF RequestType
      <4>3. /\ DOMAIN guestRows' = DOMAIN guestRows
            /\ \A i \in DOMAIN guestRows : guestRows'[i].who = guestRows[i].who
            /\ \A i \in DOMAIN guestRows :
                  guestRows'[i].n = IF i = q.row THEN q.n + 1 ELSE guestRows[i].n
        BY <1>0, <4>1 DEF Record
      <4>4. QED
        BY <4>2, <4>3 DEF AllCounted
    <3>3. QED
      BY <3>1, <3>2
  <2>3. \A x \in Requests : req'[x] = IF x = r THEN new ELSE req[x]
    BY <1>0, <2>1
  <2>4. ASSUME NEW x \in Requests, req'[x].pc = "guestWrite", req'[x].row # 0
        PROVE  guestRows'[req'[x].row].who = req'[x].owner
    <3>1. x # r /\ req'[x] = req[x]
      BY <2>1, <2>3, <2>4
    <3>2. req[x].row \in DOMAIN guestRows
      BY <1>0, <2>4, <3>1
    <3>3. QED
      BY <2>2, <2>4, <3>1, <3>2 DEF OwnRecord
  <2>5. QED
    BY <2>2, <2>4 DEF OwnRecord
<1>10. CASE TellPlace(r)
  <2> DEFINE new == [q EXCEPT !.pc = "enqueue", !.n = Place(q.job)]
  <2>1. req' = [req EXCEPT ![r] = new] /\ UNCHANGED guestRows
    BY <1>0, <1>10 DEF TellPlace
  <2>2. new.pc = "enqueue"
    BY <1>0 DEF RequestType
  <2> HIDE DEF new
  <2>3. QED
    BY <1>1, <2>1, <2>2
<1>11. CASE Enqueue(r)
  BY <1>1, <1>2, <1>11 DEF Enqueue, Refuse
<1>12. QED
  BY <1>4, <1>5, <1>6, <1>7, <1>8, <1>9, <1>10, <1>11 DEF RequestStep

\* The steps of the workers, the cancellations and the restarts write statuses.
LEMMA OwnersStay ==
    ASSUME Types, [Next]_vars, \A r \in Requests : ~ RequestStep(r)
    PROVE  /\ DOMAIN rows' = DOMAIN rows /\ guestRows' = guestRows
           /\ \A j \in DOMAIN rows : rows'[j].owner = rows[j].owner
           /\ \/ req' = req /\ restarts' = restarts
              \/ /\ req' = [r \in Requests |-> NoRequest]
                 /\ restarts' = restarts + 1
<1>1. ASSUME NEW w \in Workers, WorkerStep(w)
      PROVE  RowsKept /\ UNCHANGED <<guestRows, req, restarts>>
  BY <1>1, WorkerTypes DEF WorkerStep, Take, Claim, Finish, Fail, UsageRead,
                           UsageWrite, others
<1>2. ASSUME NEW c \in Cancellers, CancelRead(c) \/ CancelWrite(c)
      PROVE  RowsKept /\ UNCHANGED <<guestRows, req, restarts>>
  BY <1>2, CancelTypes DEF CancelRead, CancelWrite
<1>3. CASE Restart
  BY <1>3, RestartRows DEF Restart, Types
<1>4. CASE UNCHANGED vars
  BY <1>4 DEF vars, others
<1>5. QED
  BY <1>1, <1>2, <1>3, <1>4 DEF Next, RowsKept

LEMMA GuestsStep ==
    ASSUME Types, GuestsInv, GuestLimit <= 1, [Next]_vars
    PROVE  GuestsInv'
<1>1. CASE \E r \in Requests : RequestStep(r)
  <2>1. PICK r \in Requests : RequestStep(r)
    BY <1>1
  <2>2. AllCounted' /\ OwnRecord'
    BY <2>1, RecordsStep DEF GuestsInv
  <2>3. ASSUME NEW S, Group(S) PROVE GuestInv(S)'
    BY <2>1, <2>3, GuestRequestStep DEF GuestsInv
  <2>4. QED
    BY <2>2, <2>3 DEF GuestsInv, Group
<1>2. CASE ~ \E r \in Requests : RequestStep(r)
  <2>1. /\ DOMAIN rows' = DOMAIN rows /\ guestRows' = guestRows
        /\ \A j \in DOMAIN rows : rows'[j].owner = rows[j].owner
        /\ \/ req' = req /\ restarts' = restarts
           \/ /\ req' = [r \in Requests |-> NoRequest]
              /\ restarts' = restarts + 1
    BY <1>2, OwnersStay
  <2>2. AllCounted' /\ OwnRecord'
    BY <2>1 DEF GuestsInv, AllCounted, OwnRecord, NoRequest
  <2>3. ASSUME NEW S, Group(S) PROVE GuestInv(S)'
    <3>1. OfGroup(S)' = OfGroup(S) /\ AcceptedFrom(S)' = AcceptedFrom(S)
      BY <2>1 DEF OfGroup, AcceptedFrom
    <3>2. Recorded(S)' <=> Recorded(S)
      BY <2>1 DEF Recorded
    <3>3. GuestInv(S)
      BY <2>3 DEF GuestsInv
    <3>4. CASE req' = req /\ restarts' = restarts
      <4>1. Passed(S)' = Passed(S) /\ Pending(S)' = Pending(S)
        BY <3>4 DEF Passed, Pending
      <4>2. QED
        BY <3>1, <3>2, <3>3, <3>4, <4>1, GuestSame
    <3>5. CASE /\ req' = [r \in Requests |-> NoRequest]
               /\ restarts' = restarts + 1
      <4> DEFINE R == Cardinality(Requests)
      <4>1. Passed(S)' = {} /\ Pending(S)' = {} /\ Cardinality({}) = 0
        BY <3>5, FS_EmptySet DEF Passed, Pending, IsPassed, IsPending, NoRequest
      <4>2. restarts \in Nat /\ R \in Nat
        <5>1. restarts \in Nat
          BY BoundAssumption DEF Types
        <5>2. R \in Nat
          BY GuestFinite
        <5>3. QED
          BY <5>1, <5>2
      <4>3. R * (restarts + 1) = R * restarts + R
        BY <4>2
      <4>4. R * restarts \in Nat
        BY <4>2
      <4>5. AcceptedFrom(S) <= R * restarts + R
        BY <3>3, <4>2, <4>4, GuestFinite DEF GuestInv
      <4>6. /\ Cardinality(Passed(S)') = 0 /\ Cardinality(Pending(S)') = 0
            /\ R * restarts' = R * restarts + R /\ AcceptedFrom(S) \in Nat
        BY <3>5, <4>1, <4>3, GuestFinite
      <4> HIDE DEF R
      <4>7. /\ ~ Recorded(S)' =>
                  AcceptedFrom(S)' <= R * restarts' + Cardinality(Pending(S)')
            /\ Recorded(S)' =>
                  AcceptedFrom(S)' + Cardinality(Passed(S)') <= R * restarts' + R
        BY <3>1, <4>2, <4>4, <4>5, <4>6
      <4>8. QED
        BY <4>7 DEF GuestInv, R
    <3>6. QED
      BY <2>1, <3>4, <3>5
  <2>4. QED
    BY <2>2, <2>3 DEF GuestsInv, Group
<1>3. QED
  BY <1>1, <1>2

LEMMA InitGuests == Init => GuestsInv
<1> SUFFICES ASSUME Init PROVE GuestsInv
  OBVIOUS
<1>1. AllCounted /\ OwnRecord
  BY DEF Init, AllCounted, OwnRecord, NoRequest
<1>2. ASSUME NEW S PROVE GuestInv(S)
  <2>1. ~ Recorded(S)
    BY DEF Init, Recorded
  <2>2. {j \in DOMAIN rows : rows[j].owner \in S} = {} /\ Cardinality({}) = 0
    BY FS_EmptySet DEF Init
  <2>3. AcceptedFrom(S) = 0
    BY <2>2 DEF AcceptedFrom
  <2>4. /\ Cardinality(Requests) * restarts \in Nat
        /\ Cardinality(Pending(S)) \in Nat
    BY InitTypes, GuestFinite
  <2>5. QED
    BY <2>1, <2>3, <2>4 DEF GuestInv
<1>3. QED
  BY <1>1, <1>2 DEF GuestsInv

-----------------------------------------------------------------------------
\* create_download reads the guest's records, and the size of the queue, long
\* before it writes what changes them.  Whatever requests, workers,
\* cancellations and restarts do in between, the queue passes max_queue_size,
\* and the guests of one address or one cookie pass a limit of one, by no more
\* than the requests that were in flight together (at every boot, for the
\* guests).
THEOREM LimitsHoldHolds == Spec => []LimitsHold
<1>1. CASE GuestLimit <= 1
  <2>1. Types /\ GuestsInv /\ [Next]_vars => GuestsInv'
    BY <1>1, GuestsStep
  <2>2. Spec => [](Types /\ GuestsInv)
    BY <2>1, InitTypes, InitGuests, TypeStep, PTL DEF Spec
  <2>3. Types /\ GuestsInv => GuestOvershoot
    <3> SUFFICES ASSUME Types, GuestsInv, NEW g \in Guests,
                        NEW S, S \in {{h \in Guests : h.ip = g.ip},
                                      {h \in Guests : h.cookie = g.cookie}}
                 PROVE  AcceptedFrom(S) <= Cardinality(Requests) * (1 + restarts)
      BY DEF GuestOvershoot
    <3> DEFINE R == Cardinality(Requests)
    <3>1. Group(S)
      BY DEF Group, SameVisitor
    <3>2. GuestInv(S)
      BY <3>1 DEF GuestsInv
    <3>3. /\ AcceptedFrom(S) \in Nat /\ R \in Nat /\ R * restarts \in Nat
          /\ Cardinality(Passed(S)) \in Nat /\ Cardinality(Pending(S)) \in Nat
          /\ Cardinality(Passed(S)) + Cardinality(Pending(S)) <= R
      BY GuestFinite
    <3>4. AcceptedFrom(S) <= R * restarts + R
      BY <3>2, <3>3 DEF GuestInv
    <3>5. R * (1 + restarts) = R * restarts + R
      <4>1. restarts \in Nat
        BY BoundAssumption DEF Types
      <4>2. QED
        BY <3>3, <4>1
    <3>6. QED
      BY <3>4, <3>5
  <2>4. Spec => []GuestOvershoot
    BY <2>2, <2>3, PTL
  <2>5. QED
    BY <2>4, TypeCorrect, QueueOvershootHolds, PTL DEF LimitsHold
<1>2. CASE ~ (GuestLimit <= 1)
  <2>1. GuestOvershoot
    BY <1>2 DEF GuestOvershoot
  <2>2. Types => GuestOvershoot
    BY <2>1
  <2>3. Spec => []Types
    BY InitTypes, TypeStep, PTL DEF Spec
  <2>4. QED
    BY <2>2, <2>3, TypeCorrect, QueueOvershootHolds, PTL DEF LimitsHold
<1>3. QED
  BY <1>1, <1>2

=============================================================================
