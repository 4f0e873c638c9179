------------------------------ MODULE FileStore ------------------------------
(***************************************************************************)
(* How long the files live: the periodic cleanup and the administrator's   *)
(* purge (core/cleanup.py), the signed links (core/signing.py) and the     *)
(* download of a file (api/files.py), beside the workers that make the     *)
(* files (core/worker.py, cut down here to what the directory and the row  *)
(* go through) and the requests that cancel what still waits               *)
(* (api/downloads.py, core/queue.py), which write later what they read.    *)
(*                                                                         *)
(* Time is kept as ages, in the unit of the TTL: what the code compares is *)
(* the age of a row (now - updated_at), of a directory (now - st_mtime)    *)
(* and of a link.  Every age stops at Old, beyond all the thresholds.      *)
(***************************************************************************)
EXTENDS Integers, FiniteSets, FiniteSetsExt

CONSTANTS Jobs,
          Owned,        \* the jobs of the account that may be deleted
          Admins,       \* concurrent "purge-downloads" requests
          Cancellers,   \* concurrent requests that cancel waiting jobs
          Ttls,         \* the values file_ttl_minutes can be given
          LinkTtl,      \* settings.file_ttl_minutes, read by signing.py
          MaxRestarts,  \* bound: restarts of the server
          MaxFaults     \* bound: rounds of the cleanup that raise

ASSUME TtlsAssumption  == /\ Ttls \subseteq Nat \ {0} /\ LinkTtl \in Ttls
                          /\ \E m \in Ttls : \A n \in Ttls : n <= m
ASSUME OwnedAssumption == Owned \subseteq Jobs
ASSUME CountAssumption == MaxRestarts \in Nat /\ MaxFaults \in Nat

\* _ORPHAN_SAFETY_MULTIPLIER
Multiplier == 3

\* Bound: the age at which every clock stops.
Old == Multiplier * Max(Ttls) + 1

VARIABLES
  status,       \* column status ("stopped": failed or cancelled)
  rowAge,       \* of a done row, since updated_at
  fileAge,      \* of a done row, since the commit that made it done
  dir, dirAge,  \* the job's directory, and the age of its mtime
  stage,        \* where the worker of the job is in _process_job
  cancel,       \* rows each canceller read as waiting and has yet to write
  ttl,          \* effective_settings.file_ttl_minutes()
  loop,         \* cleanup_loop: its step, the rows it read, its cutoff
  purge,        \* purge_all_download_files: its step and active_ids
  userGone,     \* the account was deleted
  restarts, faults

jobVars   == <<status, rowAge, fileAge, stage>>
dirVars   == <<dir, dirAge>>
adminVars == <<cancel, ttl, purge, userGone, restarts>>
loopVars  == <<loop, faults>>
vars      == <<jobVars, dirVars, adminVars, loopVars>>

Active == {"queued", "downloading"}

\* The row was read as waiting; downloading is committed; the thread runs, has
\* returned, has raised and its files are removed.
Stage == {"idle", "claim", "start", "run", "ended", "swept"}

Working == {"start", "run", "ended", "swept"}

Resting == [pc |-> "sleep", old |-> {}, ttl |-> LinkTtl]

NoPurge == [pc |-> "idle", active |-> {}]

Age == 0..Old

TypeOK ==
    /\ status \in [Jobs -> {"none", "queued", "downloading", "done", "stopped",
                            "expired"}]
    /\ rowAge \in [Jobs -> Age] /\ fileAge \in [Jobs -> Age]
    /\ dir \in [Jobs -> {"none", "partial", "final"}]
    /\ dirAge \in [Jobs -> Age]
    /\ stage \in [Jobs -> Stage]
    /\ \A j \in Jobs :
          /\ stage[j] = "claim" => status[j] \in {"queued", "stopped"}
          /\ stage[j] \in Working => status[j] \in {"downloading", "stopped"}
          /\ status[j] = "downloading" => stage[j] \in Working
    /\ cancel \in [Cancellers -> SUBSET {j \in Jobs : status[j] # "none"}]
    /\ ttl \in Ttls
    /\ loop \in [pc  : {"sleep", "remove", "commit", "orphans"},
                 old : SUBSET Jobs, ttl : Ttls]
    /\ purge \in [Admins -> [pc : {"idle", "read", "deleted"},
                             active : SUBSET Jobs]]
    /\ userGone \in BOOLEAN
    /\ restarts \in 0..MaxRestarts /\ faults \in 0..MaxFaults

Init ==
    /\ status = [j \in Jobs |-> "none"]
    /\ rowAge = [j \in Jobs |-> 0] /\ fileAge = [j \in Jobs |-> 0]
    /\ dir = [j \in Jobs |-> "none"] /\ dirAge = [j \in Jobs |-> 0]
    /\ stage = [j \in Jobs |-> "idle"]
    /\ cancel = [c \in Cancellers |-> {}]
    /\ ttl = LinkTtl
    /\ loop = Resting
    /\ purge = [a \in Admins |-> NoPurge]
    /\ userGone = FALSE
    /\ restarts = 0 /\ faults = 0

-----------------------------------------------------------------------------
(* The job, as far as its row and its directory are concerned *)

Without(S) == [j \in Jobs |-> IF j \in S THEN "none" ELSE dir[j]]

Move(j, at) == stage' = [stage EXCEPT ![j] = at]

Write(j, s) == status' = [status EXCEPT ![j] = s]

Accept(j) ==
    /\ status[j] = "none"
    /\ Write(j, "queued")
    /\ UNCHANGED <<rowAge, fileAge, stage, dirVars, adminVars, loopVars>>

\* Only a row that waits is taken ...
Load(j) ==
    /\ stage[j] = "idle"
    /\ status[j] = "queued"
    /\ Move(j, "claim")
    /\ UNCHANGED <<status, rowAge, fileAge, dirVars, adminVars, loopVars>>

\* ... and overwritten, whatever it says by now.
Claim(j) ==
    /\ stage[j] = "claim"
    /\ Move(j, "start") /\ Write(j, "downloading")
    /\ UNCHANGED <<rowAge, fileAge, dirVars, adminVars, loopVars>>

OpenDir(j) ==
    /\ stage[j] = "start"
    /\ Move(j, "run")
    /\ dir' = [dir EXCEPT ![j] = "partial"]
    /\ dirAge' = [dirAge EXCEPT ![j] = IF dir[j] = "none" THEN 0 ELSE @]
    /\ UNCHANGED <<status, rowAge, fileAge, adminVars, loopVars>>

\* yt-dlp makes or renames an entry, in a directory it creates when it is not
\* there.  Writing to a file leaves the mtime of its directory alone.
AddEntry(j) ==
    /\ stage[j] = "run"
    /\ dir' = [dir EXCEPT ![j] = "partial"]
    /\ dirAge' = [dirAge EXCEPT ![j] = 0]
    /\ UNCHANGED <<jobVars, adminVars, loopVars>>

ThreadReturns(j) ==
    /\ stage[j] = "run"
    /\ dir[j] = "partial"
    /\ Move(j, "ended")
    /\ dir' = [dir EXCEPT ![j] = "final"]
    /\ dirAge' = [dirAge EXCEPT ![j] = 0]
    /\ UNCHANGED <<status, rowAge, fileAge, adminVars, loopVars>>

\* Faulty variant: the worker ends with the thread, and the row is left.
ThreadRaisesUnseen(j) ==
    /\ stage[j] = "run"
    /\ Move(j, "idle")
    /\ dir' = Without({j})
    /\ UNCHANGED <<status, rowAge, fileAge, dirAge, adminVars, loopVars>>

\* An error, or the flag of a cancellation; then _cleanup_dir.
ThreadRaises(j) ==
    /\ stage[j] = "run"
    /\ Move(j, "swept")
    /\ dir' = Without({j})
    /\ UNCHANGED <<status, rowAge, fileAge, dirAge, adminVars, loopVars>>

\* _mark_failed and _mark_cancelled.
CommitStopped(j) ==
    /\ stage[j] = "swept"
    /\ Move(j, "idle") /\ Write(j, "stopped")
    /\ UNCHANGED <<rowAge, fileAge, dirVars, adminVars, loopVars>>

\* The link is made in the step that publishes the end.
CommitDone(j) ==
    /\ stage[j] = "ended"
    /\ Move(j, "idle") /\ Write(j, "done")
    /\ rowAge' = [rowAge EXCEPT ![j] = 0]
    /\ fileAge' = [fileAge EXCEPT ![j] = 0]
    /\ UNCHANGED <<dirVars, adminVars, loopVars>>

\* cancel_download and clear_queue read one row that waits, or all of them ...
CancelRead(c) ==
    /\ cancel[c] = {}
    /\ LET waiting == {j \in Jobs : status[j] = "queued"}
       IN  \E S \in {{j} : j \in waiting} \cup {waiting} :
              cancel' = [cancel EXCEPT ![c] = S]
    /\ UNCHANGED <<jobVars, dirVars, ttl, purge, userGone, restarts, loopVars>>

\* ... and overwrite what they read by primary key, whatever it says by now.
CancelWrite(c) ==
    /\ cancel[c] # {}
    /\ status' = [j \in Jobs |-> IF j \in cancel[c] THEN "stopped"
                                 ELSE status[j]]
    /\ cancel' = [cancel EXCEPT ![c] = {}]
    /\ UNCHANGED <<rowAge, fileAge, stage, dirVars, ttl, purge, userGone,
                   restarts, loopVars>>

-----------------------------------------------------------------------------
(* cleanup_loop: one SELECT, the removals, one commit, the orphans *)

\* Faulty variant: every done row is taken, whatever its age.
RoundReadAll ==
    /\ loop.pc = "sleep"
    /\ loop' = [pc |-> "remove", ttl |-> ttl,
                old |-> {j \in Jobs : status[j] = "done"}]
    /\ UNCHANGED <<jobVars, dirVars, adminVars, faults>>

\* Faulty variant: a row whose directory is gone is not taken.
RoundReadWithFiles ==
    /\ loop.pc = "sleep"
    /\ loop' = [pc |-> "remove", ttl |-> ttl,
                old |-> {j \in Jobs : /\ status[j] = "done"
                                      /\ rowAge[j] > ttl
                                      /\ dir[j] # "none"}]
    /\ UNCHANGED <<jobVars, dirVars, adminVars, faults>>

RoundRead ==
    /\ loop.pc = "sleep"
    /\ loop' = [pc |-> "remove", ttl |-> ttl,
                old |-> {j \in Jobs : status[j] = "done" /\ rowAge[j] > ttl}]
    /\ UNCHANGED <<jobVars, dirVars, adminVars, faults>>

RoundRemove ==
    /\ loop.pc = "remove"
    /\ dir' = Without(loop.old)
    /\ loop' = [loop EXCEPT !.pc = "commit"]
    /\ UNCHANGED <<jobVars, dirAge, adminVars, faults>>

RoundCommit ==
    /\ loop.pc = "commit"
    /\ status' = [j \in Jobs |-> IF j \in loop.old THEN "expired"
                                 ELSE status[j]]
    /\ loop' = [loop EXCEPT !.pc = "orphans", !.old = {}]
    /\ UNCHANGED <<rowAge, fileAge, stage, dirVars, adminVars, faults>>

\* The commit raises: the rest of the round is skipped, and the rows whose
\* files are gone wait for the next one.
RoundFails ==
    /\ loop.pc = "commit"
    /\ faults < MaxFaults
    /\ faults' = faults + 1
    /\ loop' = Resting
    /\ UNCHANGED <<jobVars, dirVars, adminVars>>

\* Faulty variant: only the directories of done jobs are looked at.
OrphanPurgeDone ==
    /\ loop.pc = "orphans"
    /\ dir' = Without({j \in Jobs : /\ dirAge[j] > Multiplier * ttl
                                    /\ status[j] = "done"})
    /\ loop' = Resting
    /\ UNCHANGED <<jobVars, dirAge, adminVars, faults>>

\* Whatever the status of the job is.
OrphanPurge ==
    /\ loop.pc = "orphans"
    /\ dir' = Without({j \in Jobs : dirAge[j] > Multiplier * ttl})
    /\ loop' = Resting
    /\ UNCHANGED <<jobVars, dirAge, adminVars, faults>>

LoopStep == RoundRead \/ RoundRemove \/ RoundCommit \/ OrphanPurge

-----------------------------------------------------------------------------
(* purge_all_download_files *)

PurgeRead(a) ==
    /\ purge[a].pc = "idle"
    /\ purge' = [purge EXCEPT ![a] =
                    [pc |-> "read",
                     active |-> {j \in Jobs : status[j] \in Active}]]
    /\ UNCHANGED <<jobVars, dirVars, cancel, ttl, userGone, restarts, loopVars>>

PurgeDelete(a) ==
    /\ purge[a].pc = "read"
    /\ dir' = Without(Jobs \ purge[a].active)
    /\ purge' = [purge EXCEPT ![a].pc = "deleted"]
    /\ UNCHANGED <<jobVars, dirAge, cancel, ttl, userGone, restarts, loopVars>>

\* The second SELECT and its commit: all the rows that are done by now.
PurgeExpire(a) ==
    /\ purge[a].pc = "deleted"
    /\ status' = [j \in Jobs |-> IF status[j] = "done" THEN "expired"
                                 ELSE status[j]]
    /\ purge' = [purge EXCEPT ![a] = NoPurge]
    /\ UNCHANGED <<rowAge, fileAge, stage, dirVars, cancel, ttl, userGone,
                   restarts, loopVars>>

-----------------------------------------------------------------------------
(* Settings, accounts, restarts, time *)

SetTtl(n) ==
    /\ n # ttl
    /\ ttl' = n
    /\ UNCHANGED <<jobVars, dirVars, cancel, purge, userGone, restarts, loopVars>>

\* delete_user detaches the rows of the account with an UPDATE, which sets
\* updated_at (onupdate) on all of them.
DeleteUser ==
    /\ ~userGone
    /\ userGone' = TRUE
    /\ rowAge' = [j \in Jobs |-> IF j \in Owned THEN 0 ELSE rowAge[j]]
    /\ UNCHANGED <<status, fileAge, stage, dirVars, cancel, ttl, purge,
                   restarts, loopVars>>

Restart ==
    /\ restarts < MaxRestarts
    /\ restarts' = restarts + 1
    /\ status' = [j \in Jobs |-> IF status[j] = "downloading" THEN "stopped"
                                 ELSE status[j]]
    /\ stage' = [j \in Jobs |-> "idle"]
    /\ cancel' = [c \in Cancellers |-> {}]
    /\ loop' = Resting
    /\ purge' = [a \in Admins |-> NoPurge]
    /\ UNCHANGED <<rowAge, fileAge, dirVars, ttl, userGone, faults>>

Aged(age, S) == [j \in Jobs |-> IF j \in S /\ age[j] < Old THEN age[j] + 1
                                ELSE age[j]]

\* A minute is long beside the instant between the end of the thread and the
\* commit: the clock waits for it.
Tick ==
    /\ \A j \in Jobs : stage[j] # "ended"
    /\ LET done == {j \in Jobs : status[j] = "done"}
       IN  /\ rowAge' = Aged(rowAge, done)
           /\ fileAge' = Aged(fileAge, done)
    /\ dirAge' = Aged(dirAge, {j \in Jobs : dir[j] # "none"})
    /\ UNCHANGED <<status, stage, dir, adminVars, loopVars>>

JobStep(j) == \/ Accept(j)
              \/ Load(j)
              \/ Claim(j)
              \/ OpenDir(j)
              \/ AddEntry(j)
              \/ ThreadReturns(j)
              \/ ThreadRaises(j)
              \/ CommitStopped(j)
              \/ CommitDone(j)

Next == \/ \E j \in Jobs : JobStep(j)
        \/ \E c \in Cancellers : CancelRead(c) \/ CancelWrite(c)
        \/ LoopStep
        \/ RoundFails
        \/ \E a \in Admins : PurgeRead(a) \/ PurgeDelete(a) \/ PurgeExpire(a)
        \/ \E n \in Ttls : SetTtl(n)
        \/ DeleteUser
        \/ Restart
        \/ Tick

Spec == Init /\ [][Next]_vars

\* Time passes, the loop goes round, a thread of yt-dlp comes to an end (its
\* sockets have timeouts), and the worker then settles the row.
Fairness ==
    /\ WF_vars(Tick)
    /\ WF_vars(LoopStep)
    /\ \A j \in Jobs : /\ WF_vars(ThreadReturns(j) \/ ThreadRaises(j))
                       /\ WF_vars(CommitStopped(j) \/ CommitDone(j))

FairSpec == Spec /\ Fairness

-----------------------------------------------------------------------------
(* Properties *)

\* What api/files.py answers to the link of the job: the file.
Openable(j) == /\ fileAge[j] <= LinkTtl
               /\ status[j] = "done"
               /\ dir[j] = "final"

\* A request that read the row while it waited has yet to overwrite it.
Condemned(j) == \E c \in Cancellers : j \in cancel[c]

\* Once a link opens its file it goes on opening it for the shortest TTL in
\* force, unless an administrator purges, or a cancellation that read the row
\* before the download began takes it away (v_cancel_lost): no round of the
\* cleanup, whatever it read before, and no other request takes the file away
\* earlier (F-30).
FetchableInTime ==
    [][\A j \in Jobs :
          Openable(j) /\ ~Openable(j)' =>
              \/ \E a \in Admins : purge[a].pc # "idle"
              \/ Condemned(j) /\ status'[j] = "stopped"
              \/ fileAge'[j] > LinkTtl
              \/ fileAge[j] > ttl
              \/ fileAge[j] > loop.ttl]_vars

\* Nothing stays on the disk (F-31): the directory of a job that is over goes,
\* whatever was interrupted, purged or restarted before.
FilesGoAway ==
    \A j \in Jobs : (status[j] \notin Active /\ dir[j] # "none")
                        ~> dir[j] = "none"

\* A done row does not stay done (F-30), even when a round failed after it
\* had removed the files.  A row that a late cancellation is about to overwrite
\* may end as cancelled; once done and in no such hands, it expires.
DoneExpires ==
    \A j \in Jobs :
        (status[j] = "done" /\ ~Condemned(j)) ~> status[j] = "expired"

=============================================================================
