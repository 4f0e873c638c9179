--------------------------- MODULE FileStoreProofs ---------------------------
(***************************************************************************)
(* Theorems about FileStore, for every set of jobs, of administrators and  *)
(* of values of the TTL, and every number of restarts and failed rounds.   *)
(***************************************************************************)
EXTENDS FileStore, TLAPS

-----------------------------------------------------------------------------
(* The inductive invariant *)

\* What the loop read stays true until it acts, although the rows may change
\* meanwhile: a row it holds was done, may be expired by a purge or overwritten
\* by a late cancellation since, has no worker, and its file is older than the
\* TTL of the round.  The age of the row says less, as the deletion of its
\* account makes it young again.
ReadIsOld ==
    \A j \in loop.old :
        /\ status[j] \in {"done", "expired", "stopped"}
        /\ stage[j] = "idle"
        /\ fileAge[j] > loop.ttl

\* The file of a done row is at least as old as the row and as the directory:
\* a directory that is too old for the orphans holds a file that is too old.
FileIsOldest ==
    \A j \in Jobs : status[j] = "done" =>
        rowAge[j] <= fileAge[j] /\ (dir[j] = "final" => dirAge[j] <= fileAge[j])

\* Between the end of the thread and the commit no time passes: the directory
\* is as young as the row will be.
EndedIsFresh == \A j \in Jobs : stage[j] = "ended" => dirAge[j] = 0

IInv == TypeOK /\ ReadIsOld /\ FileIsOldest /\ EndedIsFresh

-----------------------------------------------------------------------------
(* The clocks *)

LEMMA OldIsNat == Old \in Nat \ {0} /\ \A n \in Ttls : n < Old
<1>1. PICK m \in Ttls : \A n \in Ttls : n <= m
  BY TtlsAssumption
<1>2. Max(Ttls) \in Ttls /\ \A n \in Ttls : n <= Max(Ttls)
  <2>1. \E x \in Ttls : \A y \in Ttls : x >= y
    BY <1>1, TtlsAssumption
  <2>2. /\ (CHOOSE x \in Ttls : \A y \in Ttls : x >= y) \in Ttls
        /\ \A y \in Ttls : (CHOOSE x \in Ttls : \A z \in Ttls : x >= z) >= y
    BY <2>1
  <2>3. QED
    BY <2>2, TtlsAssumption DEF Max
<1> DEFINE max == Max(Ttls)
<1>3. Old = 3 * max + 1
  BY DEF Old, Multiplier
<1>4. max \in Nat \ {0} /\ \A n \in Ttls : n \in Nat /\ n <= max
  BY <1>2, TtlsAssumption
<1> HIDE DEF max
<1>5. QED
  BY <1>3, <1>4

\* A clock goes on by one or stands still, for the jobs that it runs for and
\* for no other, and stops at Old.
LEMMA AgedFacts ==
    ASSUME NEW age \in [Jobs -> Age], NEW S \in SUBSET Jobs
    PROVE  /\ Aged(age, S) \in [Jobs -> Age]
           /\ \A j \in Jobs :
                 /\ j \notin S => Aged(age, S)[j] = age[j]
                 /\ j \in S /\ age[j] < Old => Aged(age, S)[j] = age[j] + 1
                 /\ j \in S /\ age[j] = Old => Aged(age, S)[j] = Old
BY OldIsNat DEF Aged, Age

-----------------------------------------------------------------------------
(* The job *)

LEMMA JobStepKeeps ==
    ASSUME IInv, NEW j \in Jobs, JobStep(j)
    PROVE  IInv'
<1> USE OldIsNat DEF Age
<1> USE DEF Stage, Working
<1>1. CASE Accept(j) \/ Load(j) \/ Claim(j)
  <2>1. TypeOK'
    BY <1>1 DEF IInv, TypeOK, Accept, Load, Claim, Move, Write, dirVars,
                adminVars, loopVars
  <2>2. ReadIsOld' /\ FileIsOldest' /\ EndedIsFresh'
    BY <1>1 DEF IInv, TypeOK, ReadIsOld, FileIsOldest, EndedIsFresh, Accept,
                Load, Claim, Move, Write, dirVars, adminVars, loopVars
  <2>3. QED
    BY <2>1, <2>2 DEF IInv
<1>2. CASE OpenDir(j) \/ AddEntry(j) \/ ThreadReturns(j)
  <2>1. TypeOK'
    BY <1>2 DEF IInv, TypeOK, OpenDir, AddEntry, ThreadReturns, Move, jobVars,
                adminVars, loopVars
  <2>2. ReadIsOld' /\ FileIsOldest' /\ EndedIsFresh'
    BY <1>2 DEF IInv, TypeOK, ReadIsOld, FileIsOldest, EndedIsFresh, OpenDir,
                AddEntry, ThreadReturns, Move, jobVars, adminVars, loopVars
  <2>3. QED
    BY <2>1, <2>2 DEF IInv
<1>3. CASE CommitDone(j)
  <2>1. TypeOK'
    BY <1>3 DEF IInv, TypeOK, CommitDone, Move, Write, dirVars, adminVars,
                loopVars
  <2>2. status[j] \in {"downloading", "stopped"} /\ dirAge[j] = 0
    BY <1>3 DEF IInv, TypeOK, EndedIsFresh, CommitDone
  <2>3. ReadIsOld' /\ FileIsOldest' /\ EndedIsFresh'
    BY <1>3, <2>2 DEF IInv, TypeOK, ReadIsOld, FileIsOldest, EndedIsFresh,
                      CommitDone, Move, Write, dirVars, adminVars, loopVars
  <2>4. QED
    BY <2>1, <2>3 DEF IInv
<1>4. CASE ThreadRaises(j) \/ CommitStopped(j)
  <2>1. TypeOK'
    BY <1>4 DEF IInv, TypeOK, ThreadRaises, CommitStopped, Without, Move,
                Write, dirVars, adminVars, loopVars
  <2>2. ReadIsOld' /\ FileIsOldest' /\ EndedIsFresh'
    BY <1>4 DEF IInv, TypeOK, ReadIsOld, FileIsOldest, EndedIsFresh,
                ThreadRaises, CommitStopped, Without, Move, Write, dirVars,
                adminVars, loopVars
  <2>3. QED
    BY <2>1, <2>2 DEF IInv
<1>5. QED
  BY <1>1, <1>2, <1>3, <1>4 DEF JobStep

\* A cancellation may overwrite a row whose worker is anywhere.
LEMMA CancelKeeps ==
    ASSUME IInv, NEW c \in Cancellers, CancelRead(c) \/ CancelWrite(c)
    PROVE  IInv'
<1>1. CASE CancelRead(c)
  <2>1. PICK S \in SUBSET {j \in Jobs : status[j] = "queued"} :
            cancel' = [cancel EXCEPT ![c] = S]
    BY <1>1 DEF CancelRead
  <2>2. /\ cancel' \in [Cancellers -> SUBSET {j \in Jobs : status[j] # "none"}]
        /\ UNCHANGED <<jobVars, dirVars, ttl, purge, userGone, restarts,
                       loopVars>>
    BY <1>1, <2>1 DEF IInv, TypeOK, CancelRead
  <2>3. QED
    BY <2>2 DEF IInv, TypeOK, ReadIsOld, FileIsOldest, EndedIsFresh, jobVars,
                dirVars, loopVars
<1>2. CASE CancelWrite(c)
  <2>1. ASSUME NEW j \in Jobs
        PROVE  \/ status'[j] = status[j]
               \/ status'[j] = "stopped" /\ status[j] # "none"
    BY <1>2 DEF IInv, TypeOK, CancelWrite
  <2>2. TypeOK'
    <3>1. status' \in [Jobs -> {"none", "queued", "downloading", "done",
                                "stopped", "expired"}]
      BY <1>2 DEF IInv, TypeOK, CancelWrite
    <3>2. /\ cancel' \in [Cancellers -> SUBSET {j \in Jobs : status[j] # "none"}]
          /\ {j \in Jobs : status'[j] # "none"} = {j \in Jobs : status[j] # "none"}
      BY <1>2, <2>1 DEF IInv, TypeOK, CancelWrite
    <3>3. QED
      BY <1>2, <2>1, <3>1, <3>2
      DEF IInv, TypeOK, CancelWrite, Stage, Working, dirVars, loopVars
  <2>3. ReadIsOld' /\ FileIsOldest' /\ EndedIsFresh'
    BY <1>2, <2>1 DEF IInv, TypeOK, ReadIsOld, FileIsOldest, EndedIsFresh,
                      CancelWrite, dirVars, loopVars
  <2>4. QED
    BY <2>2, <2>3 DEF IInv
<1>3. QED
  BY <1>1, <1>2

-----------------------------------------------------------------------------
(* The cleanup, and the purge *)

LEMMA LoopKeeps ==
    ASSUME IInv, LoopStep \/ RoundFails
    PROVE  IInv'
<1> USE OldIsNat DEF Age
<1>1. TypeOK'
  <2>1. CASE RoundRead
    BY <2>1 DEF IInv, TypeOK, RoundRead, jobVars, dirVars, adminVars
  <2>2. CASE RoundRemove
    BY <2>2 DEF IInv, TypeOK, RoundRemove, Without, jobVars, adminVars
  <2>3. CASE RoundCommit
    <3>1. \A j \in loop.old : stage[j] = "idle" /\ status[j] # "none"
      BY DEF IInv, ReadIsOld
    <3>2. \A j \in Jobs : status'[j] = IF j \in loop.old THEN "expired"
                                       ELSE status[j]
      BY <2>3 DEF RoundCommit
    <3>3. {j \in Jobs : status'[j] # "none"} = {j \in Jobs : status[j] # "none"}
      BY <3>1, <3>2
    <3>4. QED
      BY <2>3, <3>1, <3>2, <3>3
      DEF IInv, TypeOK, RoundCommit, Working, dirVars, adminVars
  <2>4. CASE RoundFails
    BY <2>4, TtlsAssumption, CountAssumption
    DEF IInv, TypeOK, RoundFails, Resting, jobVars, dirVars, adminVars
  <2>5. CASE OrphanPurge
    BY <2>5, TtlsAssumption
    DEF IInv, TypeOK, OrphanPurge, Without, Resting, jobVars, adminVars
  <2>6. QED
    BY <2>1, <2>2, <2>3, <2>4, <2>5 DEF LoopStep
<1>2. ReadIsOld'
  <2>1. CASE RoundRead
    BY <2>1, TtlsAssumption
    DEF IInv, TypeOK, ReadIsOld, FileIsOldest, RoundRead, Stage, Working,
        jobVars, adminVars
  <2>2. CASE RoundRemove
    BY <2>2 DEF IInv, TypeOK, ReadIsOld, RoundRemove, jobVars
  <2>3. CASE RoundCommit \/ RoundFails \/ OrphanPurge
    <3>1. loop' = [loop EXCEPT !.pc = "orphans", !.old = {}] \/ loop' = Resting
      BY <2>3 DEF RoundCommit, RoundFails, OrphanPurge
    <3>2. loop \in [pc  : {"sleep", "remove", "commit", "orphans"},
                   old : SUBSET Jobs, ttl : Ttls]
      BY DEF IInv, TypeOK
    <3>3. [loop EXCEPT !.pc = "orphans", !.old = {}].old = {}
      BY <3>2
    <3>4. Resting.old = {}
      BY DEF Resting
    <3>5. loop'.old = {}
      BY <3>1, <3>3, <3>4
    <3>6. QED
      BY <3>5 DEF ReadIsOld
  <2>4. QED
    BY <2>1, <2>2, <2>3 DEF LoopStep
<1>3. FileIsOldest' /\ EndedIsFresh'
  BY DEF IInv, TypeOK, FileIsOldest, EndedIsFresh, LoopStep, RoundRead,
         RoundRemove, RoundCommit, RoundFails, OrphanPurge, Without, jobVars,
         dirVars
<1>4. QED
  BY <1>1, <1>2, <1>3 DEF IInv

LEMMA PurgeKeeps ==
    ASSUME IInv, NEW a \in Admins,
           PurgeRead(a) \/ PurgeDelete(a) \/ PurgeExpire(a)
    PROVE  IInv'
<1> USE OldIsNat DEF Age
<1>1. TypeOK'
  <2>1. CASE PurgeRead(a)
    BY <2>1 DEF IInv, TypeOK, PurgeRead, jobVars, dirVars, loopVars
  <2>2. CASE PurgeDelete(a)
    BY <2>2 DEF IInv, TypeOK, PurgeDelete, Without, jobVars, loopVars
  <2>3. CASE PurgeExpire(a)
    BY <2>3 DEF IInv, TypeOK, PurgeExpire, NoPurge, Working, dirVars, loopVars
  <2>4. QED
    BY <2>1, <2>2, <2>3
<1>2. ReadIsOld' /\ FileIsOldest' /\ EndedIsFresh'
  BY DEF IInv, TypeOK, ReadIsOld, FileIsOldest, EndedIsFresh, PurgeRead,
         PurgeDelete, PurgeExpire, Without, jobVars, dirVars, loopVars
<1>3. QED
  BY <1>1, <1>2 DEF IInv

-----------------------------------------------------------------------------
(* The administrator, a restart, the time *)

LEMMA OthersKeep ==
    ASSUME IInv, (\E n \in Ttls : SetTtl(n)) \/ DeleteUser \/ Restart
    PROVE  IInv'
<1> USE OldIsNat DEF Age
<1>1. TypeOK'
  <2>1. CASE \E n \in Ttls : SetTtl(n)
    BY <2>1 DEF IInv, TypeOK, SetTtl, jobVars, dirVars, loopVars
  <2>2. CASE DeleteUser
    BY <2>2 DEF IInv, TypeOK, DeleteUser, dirVars, loopVars
  <2>3. CASE Restart
    BY <2>3, TtlsAssumption, CountAssumption
    DEF IInv, TypeOK, Restart, Resting, NoPurge, Stage, Working, dirVars
  <2>4. QED
    BY <2>1, <2>2, <2>3
<1>2. ReadIsOld' /\ FileIsOldest' /\ EndedIsFresh'
  BY DEF IInv, TypeOK, ReadIsOld, FileIsOldest, EndedIsFresh, SetTtl,
         DeleteUser, Restart, Resting, jobVars, dirVars, loopVars
<1>3. QED
  BY <1>1, <1>2 DEF IInv

\* The clocks of a done row run together, and those of the others do not count.
LEMMA TickKeeps ==
    ASSUME IInv, Tick
    PROVE  IInv'
<1> DEFINE done == {j \in Jobs : status[j] = "done"}
           here == {j \in Jobs : dir[j] # "none"}
<1>1. /\ rowAge' = Aged(rowAge, done) /\ fileAge' = Aged(fileAge, done)
      /\ dirAge' = Aged(dirAge, here)
      /\ UNCHANGED <<status, stage, dir, cancel, ttl, purge, userGone,
                     restarts, loop, faults>>
  BY DEF Tick, adminVars, loopVars
<1>2. /\ rowAge \in [Jobs -> Age] /\ fileAge \in [Jobs -> Age]
      /\ dirAge \in [Jobs -> Age]
  BY DEF IInv, TypeOK
<1>3. /\ rowAge' \in [Jobs -> Age] /\ fileAge' \in [Jobs -> Age]
      /\ dirAge' \in [Jobs -> Age]
  BY <1>1, <1>2, AgedFacts
<1>4. ASSUME NEW j \in Jobs
      PROVE  /\ fileAge[j] <= fileAge'[j]
             /\ status[j] = "done" /\ rowAge[j] <= fileAge[j]
                => rowAge'[j] <= fileAge'[j]
             /\ status[j] = "done" /\ dir[j] = "final" /\ dirAge[j] <= fileAge[j]
                => dirAge'[j] <= fileAge'[j]
  <2>1. /\ rowAge[j] \in 0..Old /\ fileAge[j] \in 0..Old /\ dirAge[j] \in 0..Old
    BY <1>2 DEF Age
  <2>2. /\ j \notin done => fileAge'[j] = fileAge[j]
        /\ j \in done /\ fileAge[j] < Old => fileAge'[j] = fileAge[j] + 1
        /\ j \in done /\ fileAge[j] = Old => fileAge'[j] = Old
    BY <1>1, <1>2, AgedFacts
  <2>3. /\ j \in done /\ rowAge[j] < Old => rowAge'[j] = rowAge[j] + 1
        /\ j \in done /\ rowAge[j] = Old => rowAge'[j] = Old
    BY <1>1, <1>2, AgedFacts
  <2>4. /\ j \in here /\ dirAge[j] < Old => dirAge'[j] = dirAge[j] + 1
        /\ j \in here /\ dirAge[j] = Old => dirAge'[j] = Old
    BY <1>1, <1>2, AgedFacts
  <2>5. QED
    BY <2>1, <2>2, <2>3, <2>4, OldIsNat
<1>5. TypeOK'
  BY <1>1, <1>3 DEF IInv, TypeOK
<1>6. ReadIsOld'
  <2>1. ASSUME NEW j \in loop.old
        PROVE  fileAge'[j] > loop.ttl
    <3>1. /\ j \in Jobs /\ fileAge[j] > loop.ttl /\ loop.ttl \in Ttls
          /\ fileAge[j] \in 0..Old
      BY DEF IInv, TypeOK, ReadIsOld, Age
    <3>2. fileAge[j] <= fileAge'[j] /\ fileAge'[j] \in 0..Old
      BY <1>3, <1>4, <3>1 DEF Age
    <3>3. loop.ttl \in Nat
      BY <3>1, TtlsAssumption
    <3>4. QED
      BY <3>1, <3>2, <3>3, OldIsNat
  <2>2. QED
    BY <1>1, <2>1 DEF IInv, ReadIsOld
<1>7. FileIsOldest'
  BY <1>1, <1>4 DEF IInv, FileIsOldest
<1>8. EndedIsFresh'
  BY <1>1 DEF EndedIsFresh, Tick
<1>9. QED
  BY <1>5, <1>6, <1>7, <1>8 DEF IInv

-----------------------------------------------------------------------------
(* The theorems *)

LEMMA InitIsGood == Init => IInv
<1> SUFFICES ASSUME Init
             PROVE  IInv
  OBVIOUS
<1>1. Resting \in [pc  : {"sleep", "remove", "commit", "orphans"},
                  old : SUBSET Jobs, ttl : Ttls]
  BY TtlsAssumption DEF Resting
<1>2. 0 \in Age
  BY OldIsNat DEF Age
<1>3. TypeOK
  <2>1. userGone \in BOOLEAN
    BY DEF Init
  <2>2. /\ restarts \in 0..MaxRestarts /\ faults \in 0..MaxFaults
        /\ ttl \in Ttls
    BY CountAssumption, TtlsAssumption DEF Init
  <2>3. /\ status \in [Jobs -> {"none", "queued", "downloading", "done",
                               "stopped", "expired"}]
        /\ rowAge \in [Jobs -> Age] /\ fileAge \in [Jobs -> Age]
        /\ dir \in [Jobs -> {"none", "partial", "final"}]
        /\ dirAge \in [Jobs -> Age]
    BY <1>2 DEF Init
  <2>4. /\ stage \in [Jobs -> Stage]
        /\ \A j \in Jobs :
              /\ stage[j] = "claim" => status[j] \in {"queued", "stopped"}
              /\ stage[j] \in Working => status[j] \in {"downloading", "stopped"}
              /\ status[j] = "downloading" => stage[j] \in Working
        /\ cancel \in [Cancellers -> SUBSET {j \in Jobs : status[j] # "none"}]
    BY DEF Init, Stage, Working
  <2>5. purge \in [Admins -> [pc : {"idle", "read", "deleted"},
                             active : SUBSET Jobs]]
    BY DEF Init, NoPurge
  <2>6. QED
    BY <1>1, <2>1, <2>2, <2>3, <2>4, <2>5 DEF Init, TypeOK
<1>4. ReadIsOld /\ FileIsOldest /\ EndedIsFresh
  BY DEF Init, ReadIsOld, FileIsOldest, EndedIsFresh, Resting
<1>5. QED
  BY <1>3, <1>4 DEF IInv

LEMMA StepKeeps == IInv /\ [Next]_vars => IInv'
<1> SUFFICES ASSUME IInv, [Next]_vars
             PROVE  IInv'
  OBVIOUS
<1>1. CASE UNCHANGED vars
  BY <1>1 DEF IInv, TypeOK, ReadIsOld, FileIsOldest, EndedIsFresh, vars,
              jobVars, dirVars, adminVars, loopVars
<1>2. QED
  BY <1>1, JobStepKeeps, CancelKeeps, LoopKeeps, PurgeKeeps, OthersKeep, TickKeeps DEF Next

\* Every state of rows, directories, cleanup and purges is well formed: a row
\* that says downloading has its worker, and a worker that is past its claim has
\* a row that says so or that a late cancellation overwrote, whatever the
\* cleanup, the purges and the restarts do to rows and directories.
THEOREM TypeCorrect == Spec => []TypeOK
<1>1. IInv => TypeOK
  BY DEF IInv
<1>2. QED
  BY <1>1, InitIsGood, StepKeeps, PTL DEF Spec

\* A file that its link opens goes on being opened for the shortest TTL in force
\* (F-30), unless an administrator purges or a cancellation that read the row
\* while it waited overwrites it: neither the rows that a round of
\* cleanup_loop read long before it removes their files, nor the removal of the
\* orphans by the age of their directories, nor a deleted account or a restart
\* in between, takes it away earlier.
THEOREM FetchableInTimeHolds == Spec => FetchableInTime
<1> DEFINE Lost(j) == Openable(j) /\ ~Openable(j)'
           Allowed(j) == \/ \E a \in Admins : purge[a].pc # "idle"
                         \/ Condemned(j) /\ status'[j] = "stopped"
                         \/ fileAge'[j] > LinkTtl
                         \/ fileAge[j] > ttl
                         \/ fileAge[j] > loop.ttl
<1>1. ASSUME IInv, [Next]_vars, NEW j \in Jobs, Lost(j)
      PROVE  Allowed(j)
  <2>1. /\ fileAge[j] <= LinkTtl /\ status[j] = "done" /\ dir[j] = "final"
        /\ ~ (fileAge'[j] <= LinkTtl /\ status'[j] = "done" /\ dir'[j] = "final")
    BY <1>1 DEF Openable
  <2>2. fileAge'[j] \in Nat /\ fileAge[j] \in Nat /\ dirAge[j] \in Nat
    BY <1>1, StepKeeps, OldIsNat DEF IInv, TypeOK, Age
  <2>3. /\ ttl \in Nat \ {0} /\ loop.ttl \in Nat \ {0} /\ LinkTtl \in Nat
    BY <1>1, TtlsAssumption DEF IInv, TypeOK
  <2>4. CASE \E k \in Jobs : JobStep(k)
    <3>1. PICK k \in Jobs : JobStep(k)
      BY <2>4
    <3>2. k # j /\ fileAge'[j] = fileAge[j] /\ status'[j] = status[j]
                /\ dir'[j] = dir[j]
      BY <1>1, <2>1, <3>1
      DEF IInv, TypeOK, JobStep, Accept, Load, Claim, OpenDir, AddEntry,
          ThreadReturns, ThreadRaises, CommitStopped, CommitDone, Move, Write,
          Without, Working, jobVars, dirVars
    <3>3. QED
      BY <2>1, <3>2
  <2>5. CASE LoopStep \/ RoundFails
    <3>1. CASE OrphanPurge
      <4>1. dirAge[j] > Multiplier * ttl
        BY <2>1, <3>1 DEF OrphanPurge, Without, jobVars
      <4>2. dirAge[j] <= fileAge[j]
        BY <1>1, <2>1 DEF IInv, FileIsOldest
      <4>3. QED
        BY <2>2, <2>3, <4>1, <4>2 DEF Multiplier
    <3>2. CASE RoundRead \/ RoundRemove \/ RoundCommit \/ RoundFails
      <4>1. j \in loop.old
        BY <2>1, <3>2 DEF RoundRead, RoundRemove, RoundCommit, RoundFails,
                          Without, jobVars, dirVars
      <4>2. QED
        BY <1>1, <4>1 DEF IInv, ReadIsOld
    <3>3. QED
      BY <2>5, <3>1, <3>2 DEF LoopStep
  <2>6. CASE \E a \in Admins : PurgeRead(a) \/ PurgeDelete(a) \/ PurgeExpire(a)
    BY <2>1, <2>6 DEF PurgeRead, PurgeDelete, PurgeExpire, jobVars, dirVars
  <2>7. CASE (\E n \in Ttls : SetTtl(n)) \/ DeleteUser \/ Restart
    BY <2>1, <2>7 DEF SetTtl, DeleteUser, Restart, jobVars, dirVars
  <2>8. CASE \E c \in Cancellers : CancelRead(c) \/ CancelWrite(c)
    <3>1. PICK c \in Cancellers : CancelRead(c) \/ CancelWrite(c)
      BY <2>8
    <3>2. CASE CancelRead(c)
      BY <2>1, <3>2 DEF CancelRead, jobVars, dirVars
    <3>3. CASE CancelWrite(c)
      BY <2>1, <3>3 DEF CancelWrite, Condemned, dirVars
    <3>4. QED
      BY <3>1, <3>2, <3>3
  <2>9. CASE Tick
    BY <2>1, <2>2, <2>3, <2>9 DEF Tick
  <2>10. CASE UNCHANGED vars
    BY <2>1, <2>10 DEF vars, jobVars, dirVars
  <2>11. QED
    BY <1>1, <2>4, <2>5, <2>6, <2>7, <2>8, <2>9,
       <2>10 DEF Next
<1>2. IInv /\ [Next]_vars => [\A j \in Jobs : Lost(j) => Allowed(j)]_vars
  BY <1>1
<1>3. QED
  BY <1>2, InitIsGood, StepKeeps, PTL DEF Spec, FetchableInTime

=============================================================================
