---------------------------- MODULE YtdlpUpdate ----------------------------
(***************************************************************************)
(* How yt-dlp is renewed: the action update-ytdlp (core/ytdlp_update.py),  *)
(* which installs the new version and stops its own process, the container *)
(* that starts it again (deploy/docker-compose.yml), and the clients of    *)
(* the action: the administrator's page and the script that cron runs      *)
(* (deploy/cron/update-ytdlp.sh), with its retries.                        *)
(*                                                                         *)
(* Of the queue there are the status of each row, which is all that the    *)
(* update reads, and the steps of those who write it: a worker and a       *)
(* cancellation both read a row in one step and overwrite it in another.   *)
(***************************************************************************)
EXTENDS Integers, FiniteSets

CONSTANTS Jobs,
          Cancellers,   \* handlers that cancel waiting jobs
          Pages,        \* administrators who may ask for the update
          Cron,         \* the script, as a client of the action
          MaxVersion,   \* bound: releases of yt-dlp
          MaxAttempts,  \* MAX_ATTEMPTS
          MaxHealth,    \* HEALTH_CHECK_ATTEMPTS
          MaxScripts,   \* bound: times cron starts the script
          MaxCrashes    \* bound: crashes of the server

ASSUME ClientAssumption == Cron \notin Pages
ASSUME CountAssumption  ==
    /\ MaxVersion \in Nat /\ MaxScripts \in Nat /\ MaxCrashes \in Nat
    /\ MaxAttempts \in Nat \ {0} /\ MaxHealth \in Nat \ {0}

VARIABLES
  server,     \* up; closing: SIGTERM was received; down: the process is gone
  job,        \* status of each row; cut: failed because of a restart
  stage,      \* where the worker of a job is: idle, claim (it has read the row
              \* as waiting), run
  cancel,     \* rows each canceller read as waiting and has yet to write
  latest,     \* the release that pip would find
  home,       \* the version pip installed in the user's home; -1: none.
              \* The image is read-only and the home is a tmpfs
  loaded,     \* the version the running process imported
  req,        \* each client's request: its step, the rows settled at the check
              \* (history), the version it read
  armed,      \* timers of call_later: who asked, the rows settled at its check
  pending,    \* clients answered 200 by the process that runs (history)
  script,     \* the script: its step, its attempt, the version it was told
  scripts, crashes

queueVars == <<job, stage, cancel>>
hostVars == <<latest, home, loaded>>
runVars  == <<scripts, crashes>>
timerVars == <<armed, pending>>
vars == <<server, queueVars, hostVars, req, timerVars, script, runVars>>

Clients == Pages \cup {Cron}
Image == 0   \* the version in the image of the container
NoRequest == [pc |-> "idle", over |-> {}, version |-> Image]
Asleep == [pc |-> "off", attempt |-> 1, told |-> Image]

Active == {"queued", "downloading"}

\* The rows that no worker has in hand and that wait for none.
Settled == {j \in Jobs : job[j] # "none" /\ stage[j] = "idle"}
Installed == IF home = -1 THEN Image ELSE home

TypeOK ==
    /\ server \in {"up", "closing", "down"}
    /\ job \in [Jobs -> {"none", "over", "cut"} \cup Active]
    /\ stage \in [Jobs -> {"idle", "claim", "run"}]
    /\ cancel \in [Cancellers -> SUBSET Jobs]
    /\ latest \in 0..MaxVersion
    /\ home \in -1..latest /\ loaded \in 0..latest
    /\ req \in [Clients -> [pc : {"idle", "check", "pip", "version", "record",
                                  "200", "409", "500", "lost"},
                            over : SUBSET Jobs, version : 0..latest]]
    /\ pending \subseteq Clients
    /\ armed \subseteq [by : Clients, over : SUBSET Jobs]
    /\ script \in [pc : {"off", "login", "action", "answer", "wait", "health",
                         "ok", "postponed", "failed", "alert"},
                   attempt : 1..(MaxAttempts + MaxHealth), told : 0..latest]
    /\ server = "down" =>
          /\ armed = {} /\ \A j \in Jobs : stage[j] = "idle"
          /\ \A c \in Clients :
                req[c].pc \in {"idle", "200", "409", "500", "lost"}
    /\ scripts \in 0..MaxScripts /\ crashes \in 0..MaxCrashes

Init ==
    /\ server = "up"
    /\ job = [j \in Jobs |-> "none"] /\ stage = [j \in Jobs |-> "idle"]
    /\ cancel = [c \in Cancellers |-> {}]
    /\ latest = 0 /\ home = -1 /\ loaded = Image
    /\ req = [c \in Clients |-> NoRequest]
    /\ armed = {} /\ pending = {}
    /\ script = Asleep
    /\ scripts = 0 /\ crashes = 0

-----------------------------------------------------------------------------
(* The queue *)

Row(j, s, st) == /\ job' = [job EXCEPT ![j] = s]
                 /\ stage' = [stage EXCEPT ![j] = st]
                 /\ UNCHANGED <<server, cancel, hostVars, req, timerVars,
                                script, runVars>>

Accept(j) == server = "up" /\ job[j] = "none" /\ Row(j, "queued", "idle")

\* The workers go on until the process has closed its connections.  A row is
\* read ...
Load(j) == /\ server # "down" /\ stage[j] = "idle"
           /\ job[j] = "queued"
           /\ Row(j, "queued", "claim")

\* ... and overwritten, whatever it says by now.
Claim(j) == stage[j] = "claim" /\ Row(j, "downloading", "run")

\* The job is done, has failed or was stopped, and its row says so.
Finish(j) == stage[j] = "run" /\ Row(j, "over", "idle")

\* cancel_download and clear_queue read one row that waits, or all of them ...
CancelRead(c) ==
    /\ server # "down"
    /\ cancel[c] = {}
    /\ LET waiting == {j \in Jobs : job[j] = "queued"}
       IN  \E S \in {{j} : j \in waiting} \cup {waiting} :
              cancel' = [cancel EXCEPT ![c] = S]
    /\ UNCHANGED <<server, job, stage, hostVars, req, timerVars, script, runVars>>

\* ... and overwrite what they read by primary key, whatever it says by now.
CancelWrite(c) ==
    /\ cancel[c] # {}
    /\ job' = [j \in Jobs |-> IF j \in cancel[c] THEN "over" ELSE job[j]]
    /\ cancel' = [cancel EXCEPT ![c] = {}]
    /\ UNCHANGED <<server, stage, hostVars, req, timerVars, script, runVars>>

-----------------------------------------------------------------------------
(* update_yt_dlp *)

Step(c, r) == req' = [req EXCEPT ![c] = r]

Ask(c) ==
    /\ server = "up"
    /\ req[c].pc = "idle"
    /\ Step(c, [NoRequest EXCEPT !.pc = "check"])

\* Faulty variant: only the jobs a worker has are looked for.
CheckRunning(c) ==
    /\ req[c].pc = "check"
    /\ Step(c, [req[c] EXCEPT
                  !.pc = IF \E j \in Jobs : job[j] = "downloading"
                         THEN "409" ELSE "pip",
                  !.over = Settled])
    /\ UNCHANGED <<server, queueVars, hostVars, timerVars, script, runVars>>

Check(c) ==
    /\ req[c].pc = "check"
    /\ Step(c, [req[c] EXCEPT
                  !.pc = IF \E j \in Jobs : job[j] \in Active
                         THEN "409" ELSE "pip",
                  !.over = Settled])
    /\ UNCHANGED <<server, queueVars, hostVars, timerVars, script, runVars>>

Pip(c) ==
    /\ req[c].pc = "pip"
    /\ \/ home' = latest /\ Step(c, [req[c] EXCEPT !.pc = "version"])
       \/ Step(c, [req[c] EXCEPT !.pc = "500"]) /\ UNCHANGED home
    /\ UNCHANGED <<server, queueVars, latest, loaded, timerVars, script, runVars>>

\* A fresh interpreter says which version is installed, or fails: then the
\* package is new and nothing restarts.
ReadVersion(c) ==
    /\ req[c].pc = "version"
    /\ \/ Step(c, [req[c] EXCEPT !.pc = "record", !.version = Installed])
       \/ Step(c, [req[c] EXCEPT !.pc = "500"])
    /\ UNCHANGED <<server, queueVars, hostVars, timerVars, script, runVars>>

\* Faulty variant: only the script gets its restart.
RecordForScript(c) ==
    /\ req[c].pc = "record"
    /\ armed' = IF c = Cron THEN armed \cup {[by |-> c, over |-> req[c].over]}
                ELSE armed
    /\ pending' = pending \cup {c}
    /\ Step(c, [req[c] EXCEPT !.pc = "200"])
    /\ UNCHANGED <<server, queueVars, hostVars, script, runVars>>

\* The settings are written, the timer is armed and the answer leaves.
Record(c) ==
    /\ req[c].pc = "record"
    /\ armed' = armed \cup {[by |-> c, over |-> req[c].over]}
    /\ pending' = pending \cup {c}
    /\ Step(c, [req[c] EXCEPT !.pc = "200"])
    /\ UNCHANGED <<server, queueVars, hostVars, script, runVars>>

\* _restart_process: SIGTERM to itself; a second one changes nothing.
Kill(c) ==
    /\ \E t \in armed : t.by = c /\ armed' = armed \ {t}
    /\ server' = "closing"
    /\ UNCHANGED <<queueVars, hostVars, req, pending, script, runVars>>

Serve(c) == Check(c) \/ Pip(c) \/ ReadVersion(c) \/ Record(c)

-----------------------------------------------------------------------------
(* The process and its container *)

InFlight(c) == req[c].pc \in {"check", "pip", "version", "record"}

NobodyWorks == stage' = [j \in Jobs |-> "idle"]

\* uvicorn waits for the requests; lifespan then cancels the workers, whose
\* rows stay as they are, and the process ends with the threads of yt-dlp.
Exit ==
    /\ server = "closing"
    /\ \A c \in Clients : ~InFlight(c)
    /\ \A c \in Cancellers : cancel[c] = {}
    /\ server' = "down"
    /\ NobodyWorks
    /\ armed' = {}
    /\ UNCHANGED <<job, cancel, hostVars, req, pending, script, runVars>>

Crash ==
    /\ server # "down"
    /\ crashes < MaxCrashes
    /\ crashes' = crashes + 1
    /\ server' = "down"
    /\ NobodyWorks
    /\ cancel' = [c \in Cancellers |-> {}]
    /\ armed' = {}
    /\ req' = [c \in Clients |-> IF InFlight(c)
                                 THEN [req[c] EXCEPT !.pc = "lost"]
                                 ELSE req[c]]
    /\ UNCHANGED <<job, hostVars, pending, script, scripts>>

\* restart: unless-stopped, with an empty tmpfs; then lifespan: yt-dlp is
\* imported anew and reconcile_on_startup fails the rows that were running.
Boot ==
    /\ server = "down"
    /\ server' = "up"
    /\ pending' = {}
    /\ home' = -1
    /\ loaded' = Image
    /\ job' = [j \in Jobs |-> IF job[j] = "downloading" THEN "cut"
                              ELSE job[j]]
    /\ UNCHANGED <<stage, cancel, latest, req, armed, script, runVars>>

Release ==
    /\ latest < MaxVersion
    /\ latest' = latest + 1
    /\ UNCHANGED <<server, queueVars, home, loaded, req, timerVars, script, runVars>>

-----------------------------------------------------------------------------
(* AdminSystemPage: one request at a time *)

PageAsks(p) ==
    /\ Ask(p)
    /\ UNCHANGED <<server, queueVars, hostVars, timerVars, script, runVars>>

PageReads(p) ==
    /\ req[p].pc \in {"200", "409", "500", "lost"}
    /\ Step(p, NoRequest)
    /\ UNCHANGED <<server, queueVars, hostVars, timerVars, script, runVars>>

-----------------------------------------------------------------------------
(* update-ytdlp.sh *)

Goto(pc) == script' = [script EXCEPT !.pc = pc, !.attempt = 1]

\* One more attempt, unless that was the last one.
Retry(most, verdict) ==
    script' = IF script.attempt < most
              THEN [script EXCEPT !.attempt = @ + 1]
              ELSE [script EXCEPT !.pc = verdict]

ScriptStarts ==
    /\ script.pc = "off"
    /\ scripts < MaxScripts
    /\ scripts' = scripts + 1
    /\ Goto("login")
    /\ UNCHANGED <<server, queueVars, hostVars, req, timerVars, crashes>>

\* Not 200: the server is away, or it refuses.
ScriptLogin ==
    /\ script.pc = "login"
    /\ \/ server = "up" /\ Goto("action")
       \/ Retry(MaxAttempts, "failed")
    /\ UNCHANGED <<server, queueVars, hostVars, req, timerVars, runVars>>

ScriptPost ==
    /\ script.pc = "action"
    /\ IF server = "up"
       THEN Ask(Cron) /\ script' = [script EXCEPT !.pc = "answer"]
       ELSE Retry(MaxAttempts, "failed") /\ UNCHANGED req
    /\ UNCHANGED <<server, queueVars, hostVars, timerVars, runVars>>

\* Faulty variant: the number of attempts is not counted.
ScriptInsists ==
    /\ script.pc = "answer"
    /\ \/ /\ req[Cron].pc = "200"
          /\ script' = [script EXCEPT !.pc = "wait", !.told = req[Cron].version]
       \/ req[Cron].pc = "409" /\ script' = [script EXCEPT !.pc = "postponed"]
       \/ /\ req[Cron].pc \in {"500", "lost"}
          /\ script' = [script EXCEPT !.pc = "action"]
    /\ Step(Cron, NoRequest)
    /\ UNCHANGED <<server, queueVars, hostVars, timerVars, runVars>>

ScriptAnswer ==
    /\ script.pc = "answer"
    /\ \/ /\ req[Cron].pc = "200"
          /\ script' = [script EXCEPT !.pc = "wait", !.attempt = 1,
                                      !.told = req[Cron].version]
       \/ req[Cron].pc = "409" /\ script' = [script EXCEPT !.pc = "postponed"]
       \/ /\ req[Cron].pc \in {"500", "lost"}
          /\ script' = IF script.attempt < MaxAttempts
                       THEN [script EXCEPT !.pc = "action", !.attempt = @ + 1]
                       ELSE [script EXCEPT !.pc = "failed"]
    /\ Step(Cron, NoRequest)
    /\ UNCHANGED <<server, queueVars, hostVars, timerVars, runVars>>

\* Faulty variant: the script does not sleep.
ScriptHurries ==
    /\ script.pc = "wait"
    /\ Goto("health")
    /\ UNCHANGED <<server, queueVars, hostVars, req, timerVars, runVars>>

\* sleep 5: longer than the delay of the timer.
ScriptWait ==
    /\ script.pc = "wait"
    /\ \A t \in armed : t.by # Cron
    /\ Goto("health")
    /\ UNCHANGED <<server, queueVars, hostVars, req, timerVars, runVars>>

ScriptHealth ==
    /\ script.pc = "health"
    /\ IF server = "up" THEN Goto("ok") ELSE Retry(MaxHealth, "alert")
    /\ UNCHANGED <<server, queueVars, hostVars, req, timerVars, runVars>>

ScriptExits ==
    /\ script.pc \in {"ok", "postponed", "failed", "alert"}
    /\ script' = Asleep
    /\ UNCHANGED <<server, queueVars, hostVars, req, timerVars, runVars>>

ScriptStep == \/ ScriptLogin
              \/ ScriptPost
              \/ ScriptAnswer
              \/ ScriptWait
              \/ ScriptHealth
              \/ ScriptExits

ServerStep == Exit \/ Boot

Next == \/ \E j \in Jobs : Accept(j) \/ Load(j) \/ Claim(j) \/ Finish(j)
        \/ \E c \in Cancellers : CancelRead(c) \/ CancelWrite(c)
        \/ \E c \in Clients : Serve(c) \/ Kill(c)
        \/ ServerStep
        \/ Crash
        \/ Release
        \/ \E p \in Pages : PageAsks(p) \/ PageReads(p)
        \/ ScriptStarts
        \/ ScriptStep

Spec == Init /\ [][Next]_vars

\* The server serves what it received, timers fire, a process that must stop
\* does (yt-dlp comes to an end), the container is restarted and the script
\* goes on.
Fairness == /\ \A c \in Clients : WF_vars(Serve(c)) /\ WF_vars(Kill(c))
            /\ \A c \in Cancellers : WF_vars(CancelWrite(c))
            /\ WF_vars(ServerStep)
            /\ WF_vars(ScriptStep)

FairSpec == Spec /\ Fairness

-----------------------------------------------------------------------------
(* Properties *)

\* The restart of an update (_restart_process) meets no job that the check of
\* its request (update_yt_dlp) could have seen: a row that was settled then, at
\* its end and in no worker's hands, is so still.  What it cuts was accepted
\* later, or was at the check with a worker under a row that said it was over:
\* a cancellation and a worker had crossed, and the check reads only the rows.
CutsOnlyNewJobs ==
    [][\A t \in armed \ armed' : server' = "closing" =>
          \A j \in t.over : job[j] \notin Active /\ stage[j] = "idle"]_vars

\* When the script reports success, another process has replaced the one that
\* made the update: the health check never meets the old one.
OkMeansRestarted == script.pc = "ok" => Cron \notin pending

\* The same of every well-formed state of process, requests, timers and script.
SuccessIsReal == TypeOK /\ OkMeansRestarted

\* Whoever is answered 200 gets the restart that the message announces, even if
\* the timer dies with a crash.
AnswerRestarts == \A c \in Clients : c \in pending ~> c \notin pending

\* The script always ends, whatever the server does in the meantime: cron
\* never finds two of them.
ScriptEnds == script.pc # "off" ~> script.pc = "off"

=============================================================================
