------------------------- MODULE YtdlpUpdateProofs -------------------------
(***************************************************************************)
(* Theorems about YtdlpUpdate, for every set of jobs and administrators    *)
(* and every number of releases, attempts, scripts and crashes.            *)
(***************************************************************************)
EXTENDS YtdlpUpdate, TLAPS

-----------------------------------------------------------------------------
(* The inductive invariant *)

\* A row at its end that no worker has in hand: no worker takes it again, and a
\* cancellation that overwrites it leaves it at an end.
AtRest(j) == job[j] \in {"over", "cut"} /\ stage[j] = "idle"

\* A request that goes on after its check, and then its timer, has found every
\* row it knows at rest, and so they stay.
SeenAreAtRest ==
    /\ \A t \in armed : \A j \in t.over : AtRest(j)
    /\ \A c \in Clients : req[c].pc \in {"pip", "version", "record"} =>
          \A j \in req[c].over : AtRest(j)

\* Only the script speaks for Cron: it waits for an answer exactly when it has
\* a request.
CronAsks == req[Cron].pc # "idle" <=> script.pc = "answer"

\* A client who was answered 200 has a timer that runs, or the process is about
\* to go, or is gone already: the safety that AnswerRestarts rests on.
RestartIsDue == \A c \in pending : server # "up" \/ \E t \in armed : t.by = c

\* Once the script has slept, no timer of its own is left, and it asks nothing
\* that could arm another.
NoTimerLeft == script.pc \in {"health", "ok"} => \A t \in armed : t.by # Cron

IInv == /\ TypeOK /\ SeenAreAtRest /\ CronAsks
        /\ RestartIsDue /\ NoTimerLeft /\ OkMeansRestarted

RequestType == [pc : {"idle", "check", "pip", "version", "record",
                      "200", "409", "500", "lost"},
                over : SUBSET Jobs, version : 0..latest]

ScriptType == [pc : {"off", "login", "action", "answer", "wait", "health",
                     "ok", "postponed", "failed", "alert"},
               attempt : 1..(MaxAttempts + MaxHealth), told : 0..latest]

-----------------------------------------------------------------------------
(* The records of a request and of the script *)

LEMMA TypeFacts ==
    ASSUME TypeOK
    PROVE  /\ latest \in Nat /\ Cron \in Clients
           /\ \A c \in Clients : req[c] \in RequestType
           /\ DOMAIN req = Clients /\ script \in ScriptType
BY CountAssumption DEF TypeOK, RequestType, ScriptType, Clients

\* What a step of a request changes is its own.
LEMMA OneRequest ==
    ASSUME TypeOK, NEW c \in Clients, NEW r \in RequestType, Step(c, r),
           UNCHANGED latest
    PROVE  /\ req' \in [Clients -> RequestType]
           /\ req'[c] = r
           /\ \A d \in Clients : d # c => req'[d] = req[d]
           /\ RequestType' = RequestType
BY TypeFacts DEF TypeOK, RequestType, Step

LEMMA NoRequestOK ==
    ASSUME TypeOK
    PROVE  /\ NoRequest \in RequestType
           /\ [NoRequest EXCEPT !.pc = "check"] \in RequestType
           /\ [NoRequest EXCEPT !.pc = "check"].pc = "check"
           /\ NoRequest.pc = "idle"
BY TypeFacts DEF RequestType, NoRequest, Image

\* A request moves on in its own step.
LEMMA RequestMoves ==
    ASSUME TypeOK, NEW c \in Clients,
           NEW pc \in {"idle", "check", "pip", "version", "record",
                       "200", "409", "500", "lost"}
    PROVE  /\ [req[c] EXCEPT !.pc = pc] \in RequestType
           /\ [req[c] EXCEPT !.pc = pc].pc = pc
           /\ [req[c] EXCEPT !.pc = pc].over = req[c].over
BY TypeFacts DEF RequestType

\* The script counts its attempts up to the limit of the loop it is in.
LEMMA ScriptMoves ==
    ASSUME TypeOK,
           NEW pc \in {"off", "login", "action", "answer", "wait", "health",
                       "ok", "postponed", "failed", "alert"}
    PROVE  /\ [script EXCEPT !.pc = pc] \in ScriptType
           /\ [script EXCEPT !.pc = pc].pc = pc
           /\ [script EXCEPT !.pc = pc, !.attempt = 1] \in ScriptType
           /\ [script EXCEPT !.pc = pc, !.attempt = 1].pc = pc
<1>1. 1 \in 1..(MaxAttempts + MaxHealth)
  BY CountAssumption
<1>2. QED
  BY <1>1, TypeFacts DEF ScriptType

LEMMA RetryFacts ==
    ASSUME TypeOK, NEW most \in {MaxAttempts, MaxHealth},
           NEW verdict \in {"failed", "alert"}, Retry(most, verdict),
           UNCHANGED latest
    PROVE  script' \in ScriptType' /\ script'.pc \in {script.pc, verdict}
<1> DEFINE more == [script EXCEPT !.attempt = @ + 1]
<1>1. script' = more \/ script' = [script EXCEPT !.pc = verdict]
  BY DEF Retry
<1>2. /\ script.attempt < most => script.attempt + 1 \in 1..(MaxAttempts + MaxHealth)
      /\ ScriptType' = ScriptType
  BY TypeFacts, CountAssumption DEF ScriptType
<1>3. CASE script.attempt < most
  <2>1. more \in ScriptType /\ more.pc = script.pc
    BY <1>2, <1>3, TypeFacts DEF ScriptType
  <2>2. QED
    BY <1>2, <1>3, <2>1 DEF Retry
<1>4. CASE ~ (script.attempt < most)
  <2>1. script' = [script EXCEPT !.pc = verdict]
    BY <1>4 DEF Retry
  <2>2. QED
    BY <1>2, <2>1, ScriptMoves
<1>5. QED
  BY <1>3, <1>4

-----------------------------------------------------------------------------
(* The steps *)

\* What is left when only the rows move: that those at rest stay so.
LEMMA RowsKeep ==
    ASSUME IInv,
           job' \in [Jobs -> {"none", "over", "cut"} \cup Active],
           stage' \in [Jobs -> {"idle", "claim", "run"}],
           cancel' \in [Cancellers -> SUBSET Jobs],
           server = "down" => \A j \in Jobs : stage'[j] = "idle",
           \A j \in Jobs : AtRest(j) => AtRest(j)',
           UNCHANGED <<server, hostVars, req, timerVars, script, runVars>>
    PROVE  IInv'
<1>1. TypeOK'
  BY DEF IInv, TypeOK, hostVars, timerVars, runVars
<1>2. SeenAreAtRest'
  BY DEF IInv, TypeOK, SeenAreAtRest, timerVars
<1>3. QED
  BY <1>1, <1>2
  DEF IInv, CronAsks, RestartIsDue, NoTimerLeft, OkMeansRestarted, timerVars

\* A worker takes a row that waits and holds it to the end.
LEMMA WorkerKeeps ==
    ASSUME IInv, NEW j \in Jobs, Accept(j) \/ Load(j) \/ Claim(j) \/ Finish(j)
    PROVE  IInv'
<1>1. /\ job' \in [Jobs -> {"none", "over", "cut"} \cup Active]
      /\ stage' \in [Jobs -> {"idle", "claim", "run"}]
      /\ cancel' \in [Cancellers -> SUBSET Jobs]
  BY DEF IInv, TypeOK, Accept, Load, Claim, Finish, Row, Active
<1>2. server = "down" => \A k \in Jobs : stage'[k] = "idle"
  BY DEF IInv, TypeOK, Accept, Load, Claim, Finish, Row
<1>3. \A k \in Jobs : AtRest(k) => AtRest(k)'
  BY DEF IInv, TypeOK, Accept, Load, Claim, Finish, Row, AtRest
<1>4. UNCHANGED <<server, hostVars, req, timerVars, script, runVars>>
  BY DEF Accept, Load, Claim, Finish, Row
<1>5. QED
  BY <1>1, <1>2, <1>3, <1>4, RowsKeep

\* A cancellation writes no other status than an end.
LEMMA CancelKeeps ==
    ASSUME IInv, NEW c \in Cancellers, CancelRead(c) \/ CancelWrite(c)
    PROVE  IInv'
<1>1. /\ job' \in [Jobs -> {"none", "over", "cut"} \cup Active]
      /\ stage' = stage
      /\ \A k \in Jobs : AtRest(k) => AtRest(k)'
  BY DEF IInv, TypeOK, CancelRead, CancelWrite, AtRest
<1>2. cancel' \in [Cancellers -> SUBSET Jobs]
  <2>1. PICK S \in SUBSET Jobs : cancel' = [cancel EXCEPT ![c] = S]
    BY DEF CancelRead, CancelWrite
  <2>2. QED
    BY <2>1 DEF IInv, TypeOK
<1>3. UNCHANGED <<server, hostVars, req, timerVars, script, runVars>>
  BY DEF CancelRead, CancelWrite
<1>4. QED
  BY <1>1, <1>2, <1>3, RowsKeep DEF IInv, TypeOK

\* A request that moves on, from one step in the server to the next or to its
\* answer, without a timer.
LEMMA ServedKeeps ==
    ASSUME IInv, NEW c \in Clients, NEW r \in RequestType, Step(c, r),
           server # "down", req[c].pc # "idle", r.pc # "idle",
           r.pc \in {"pip", "version", "record"} => \A j \in r.over : AtRest(j),
           home' \in -1..latest,
           UNCHANGED <<server, queueVars, latest, loaded, timerVars, script, runVars>>
    PROVE  IInv'
<1>1. /\ req' \in [Clients -> RequestType]
      /\ req'[c] = r
      /\ \A d \in Clients : d # c => req'[d] = req[d]
      /\ RequestType' = RequestType
  BY OneRequest DEF IInv
<1>2. TypeOK'
  BY <1>1 DEF IInv, TypeOK, RequestType, queueVars, timerVars, runVars
<1>3. SeenAreAtRest'
  BY <1>1 DEF IInv, SeenAreAtRest, AtRest, queueVars, timerVars
<1>4. CronAsks'
  BY <1>1, TypeFacts DEF IInv, CronAsks
<1>5. QED
  BY <1>2, <1>3, <1>4
  DEF IInv, RestartIsDue, NoTimerLeft, OkMeansRestarted, timerVars

LEMMA CheckKeeps ==
    ASSUME IInv, NEW c \in Clients, Check(c)
    PROVE  IInv'
<1> DEFINE pc   == IF \E j \in Jobs : job[j] \in Active THEN "409" ELSE "pip"
           new  == [req[c] EXCEPT !.pc = pc, !.over = Settled]
<1>1. /\ Step(c, new) /\ req[c].pc = "check"
      /\ UNCHANGED <<server, queueVars, hostVars, timerVars, script, runVars>>
  BY DEF Check
<1>2. new \in RequestType /\ new.pc = pc /\ new.over = Settled
  <2>1. pc \in {"409", "pip"} /\ Settled \in SUBSET Jobs
    BY DEF Settled
  <2> HIDE DEF pc
  <2>2. QED
    BY <2>1, TypeFacts DEF IInv, RequestType
<1>3. pc = "pip" => \A j \in Settled : AtRest(j)
  BY DEF IInv, TypeOK, AtRest, Settled, Active
<1>4. pc \in {"409", "pip"}
  OBVIOUS
<1>5. server # "down" /\ home \in -1..latest
  BY <1>1 DEF IInv, TypeOK
<1> HIDE DEF new, pc
<1>6. QED
  BY <1>1, <1>2, <1>3, <1>4, <1>5, ServedKeeps DEF hostVars

LEMMA PipKeeps ==
    ASSUME IInv, NEW c \in Clients, Pip(c)
    PROVE  IInv'
<1>1. PICK pc \in {"version", "500"} :
         /\ Step(c, [req[c] EXCEPT !.pc = pc]) /\ req[c].pc = "pip"
         /\ home' \in {home, latest}
         /\ UNCHANGED <<server, queueVars, latest, loaded, timerVars, script, runVars>>
  BY DEF Pip
<1> DEFINE new == [req[c] EXCEPT !.pc = pc]
<1>2. new \in RequestType /\ new.pc = pc /\ new.over = req[c].over
  BY RequestMoves DEF IInv
<1>3. /\ server # "down" /\ home' \in -1..latest
      /\ \A j \in req[c].over : AtRest(j)
  BY <1>1, TypeFacts DEF IInv, TypeOK, SeenAreAtRest
<1> HIDE DEF new
<1>4. Step(c, new)
  BY <1>1 DEF new
<1>5. QED
  BY <1>1, <1>2, <1>3, <1>4, ServedKeeps

LEMMA ReadVersionKeeps ==
    ASSUME IInv, NEW c \in Clients, ReadVersion(c)
    PROVE  IInv'
<1>1. /\ req[c].pc = "version" /\ server # "down" /\ home \in -1..latest
      /\ \A j \in req[c].over : AtRest(j)
      /\ UNCHANGED <<server, queueVars, hostVars, timerVars, script, runVars>>
  BY DEF IInv, TypeOK, SeenAreAtRest, ReadVersion
<1> DEFINE read == [req[c] EXCEPT !.pc = "record", !.version = Installed]
           fail == [req[c] EXCEPT !.pc = "500"]
<1>2. /\ read \in RequestType /\ read.pc = "record" /\ read.over = req[c].over
      /\ fail \in RequestType /\ fail.pc = "500" /\ fail.over = req[c].over
  <2>1. Installed \in 0..latest
    BY <1>1, TypeFacts DEF IInv, Installed, Image
  <2>2. QED
    BY <2>1, TypeFacts, RequestMoves DEF IInv, RequestType
<1>3. Step(c, read) \/ Step(c, fail)
  BY DEF ReadVersion
<1> HIDE DEF read, fail
<1>4. QED
  BY <1>1, <1>2, <1>3, ServedKeeps DEF hostVars

\* The answer 200 and the timer come together.
LEMMA RecordKeeps ==
    ASSUME IInv, NEW c \in Clients, Record(c)
    PROVE  IInv'
<1> DEFINE t   == [by |-> c, over |-> req[c].over]
           new == [req[c] EXCEPT !.pc = "200"]
<1>1. /\ req[c].pc = "record" /\ server # "down"
      /\ armed' = armed \cup {t} /\ pending' = pending \cup {c}
      /\ Step(c, new)
      /\ UNCHANGED <<server, queueVars, hostVars, script, runVars>>
      /\ \A j \in req[c].over : AtRest(j)
  BY DEF IInv, TypeOK, SeenAreAtRest, Record
<1>2. new \in RequestType /\ new.pc = "200"
  BY RequestMoves DEF IInv
<1>3. t \in [by : Clients, over : SUBSET Jobs] /\ t.by = c /\ t.over = req[c].over
  BY TypeFacts DEF IInv, RequestType
<1> HIDE DEF new, t
<1>4. /\ req' \in [Clients -> RequestType]
      /\ req'[c] = new
      /\ \A d \in Clients : d # c => req'[d] = req[d]
      /\ RequestType' = RequestType
  BY <1>1, <1>2, OneRequest DEF IInv, hostVars
<1>5. TypeOK'
  BY <1>1, <1>3, <1>4 DEF IInv, TypeOK, RequestType, queueVars, hostVars, runVars
<1>6. SeenAreAtRest'
  BY <1>1, <1>2, <1>3, <1>4 DEF IInv, SeenAreAtRest, AtRest, queueVars
<1>7. CronAsks'
  BY <1>1, <1>2, <1>4, TypeFacts DEF IInv, CronAsks
<1>8. RestartIsDue'
  BY <1>1, <1>3 DEF IInv, RestartIsDue
<1>9. NoTimerLeft' /\ OkMeansRestarted'
  <2>1. c = Cron => script.pc = "answer"
    BY <1>1 DEF IInv, CronAsks
  <2>2. QED
    BY <1>1, <1>3, <2>1 DEF IInv, NoTimerLeft, OkMeansRestarted
<1>10. QED
  BY <1>5, <1>6, <1>7, <1>8, <1>9 DEF IInv

LEMMA KillKeeps ==
    ASSUME IInv, NEW c \in Clients, Kill(c)
    PROVE  IInv'
<1>1. /\ armed # {} /\ armed' \subseteq armed /\ server' = "closing"
      /\ UNCHANGED <<queueVars, hostVars, req, pending, script, runVars>>
  BY DEF Kill
<1>2. TypeOK'
  BY <1>1 DEF IInv, TypeOK, queueVars, hostVars, runVars
<1>3. QED
  BY <1>1, <1>2
  DEF IInv, SeenAreAtRest, AtRest, CronAsks, RestartIsDue, NoTimerLeft,
      OkMeansRestarted, queueVars

\* A process that is gone takes its timers with it; those who were promised a
\* restart get one with the next boot.
LEMMA ExitKeeps ==
    ASSUME IInv, Exit
    PROVE  IInv'
<1>1. /\ server' = "down" /\ armed' = {}
      /\ \A c \in Clients : ~ InFlight(c)
      /\ stage' = [j \in Jobs |-> "idle"]
      /\ UNCHANGED <<job, cancel, hostVars, req, pending, script, runVars>>
  BY DEF Exit, NobodyWorks
<1>2. TypeOK'
  BY <1>1 DEF IInv, TypeOK, InFlight, hostVars, runVars
<1>3. SeenAreAtRest'
  BY <1>1 DEF SeenAreAtRest, InFlight
<1>4. QED
  BY <1>1, <1>2, <1>3
  DEF IInv, CronAsks, RestartIsDue, NoTimerLeft, OkMeansRestarted

LEMMA CrashKeeps ==
    ASSUME IInv, Crash
    PROVE  IInv'
<1>1. /\ server' = "down" /\ armed' = {} /\ crashes' \in 0..MaxCrashes
      /\ stage' = [j \in Jobs |-> "idle"]
      /\ cancel' = [c \in Cancellers |-> {}]
      /\ UNCHANGED <<job, hostVars, pending, script, scripts>>
  BY CountAssumption DEF IInv, TypeOK, Crash, NobodyWorks
<1>2. ASSUME NEW c \in Clients
      PROVE  /\ req'[c] \in RequestType
             /\ req'[c].pc \in {"idle", "200", "409", "500", "lost"}
             /\ req'[c].pc # "idle" <=> req[c].pc # "idle"
  <2> DEFINE lost == [req[c] EXCEPT !.pc = "lost"]
  <2>1. lost \in RequestType /\ lost.pc = "lost"
    BY RequestMoves DEF IInv
  <2>2. req'[c] = IF InFlight(c) THEN lost ELSE req[c]
    BY DEF Crash
  <2>3. CASE InFlight(c)
    BY <2>1, <2>2, <2>3 DEF InFlight
  <2>4. CASE ~ InFlight(c)
    <3>1. req[c] \in RequestType
      BY TypeFacts DEF IInv
    <3>2. QED
      BY <2>2, <2>4, <3>1 DEF InFlight, RequestType
  <2>5. QED
    BY <2>3, <2>4
<1>3. req' \in [Clients -> RequestType]
  <2>1. req' = [c \in Clients |-> req'[c]]
    BY DEF Crash
  <2>2. QED
    BY <1>2, <2>1
<1>4. TypeOK'
  BY <1>1, <1>2, <1>3 DEF IInv, TypeOK, RequestType, queueVars, hostVars
<1>5. SeenAreAtRest'
  BY <1>1, <1>2 DEF SeenAreAtRest
<1>6. CronAsks'
  BY <1>1, <1>2, TypeFacts DEF IInv, CronAsks
<1>7. QED
  BY <1>1, <1>4, <1>5, <1>6
  DEF IInv, RestartIsDue, NoTimerLeft, OkMeansRestarted

LEMMA BootKeeps ==
    ASSUME IInv, Boot
    PROVE  IInv'
<1>1. /\ server = "down" /\ server' = "up" /\ armed' = {} /\ armed = {}
      /\ pending' = {} /\ home' \in -1..latest /\ loaded' \in 0..latest
      /\ UNCHANGED <<stage, cancel, latest, req, script, runVars>>
  BY TypeFacts DEF IInv, TypeOK, Boot, Image
<1>2. \A c \in Clients : req[c].pc \in {"idle", "200", "409", "500", "lost"}
  BY <1>1 DEF IInv, TypeOK
<1>3. job' \in [Jobs -> {"none", "over", "cut"} \cup Active]
  BY DEF IInv, TypeOK, Boot
<1>4. TypeOK'
  BY <1>1, <1>3 DEF IInv, TypeOK, runVars
<1>5. QED
  BY <1>1, <1>2, <1>4
  DEF IInv, SeenAreAtRest, CronAsks, RestartIsDue, NoTimerLeft,
      OkMeansRestarted

LEMMA ReleaseKeeps ==
    ASSUME IInv, Release
    PROVE  IInv'
<1>1. /\ latest' \in 0..MaxVersion /\ latest \in 0..latest'
      /\ -1..latest \subseteq -1..latest' /\ 0..latest \subseteq 0..latest'
      /\ UNCHANGED <<server, queueVars, home, loaded, req, timerVars, script, runVars>>
  BY CountAssumption DEF IInv, TypeOK, Release
<1>2. TypeOK'
  BY <1>1, CountAssumption DEF IInv, TypeOK, queueVars, timerVars, runVars
<1>3. QED
  BY <1>1, <1>2
  DEF IInv, SeenAreAtRest, AtRest, CronAsks, RestartIsDue, NoTimerLeft,
      OkMeansRestarted, queueVars, timerVars

\* The page has a request of its own: it is not the script.
LEMMA PageKeeps ==
    ASSUME IInv, NEW p \in Pages, PageAsks(p) \/ PageReads(p)
    PROVE  IInv'
<1> DEFINE check == [NoRequest EXCEPT !.pc = "check"]
<1>1. PICK r \in {check, NoRequest} :
         /\ Step(p, r)
         /\ r = check => server = "up"
         /\ UNCHANGED <<server, queueVars, hostVars, timerVars, script, runVars>>
  <2>1. CASE PageAsks(p)
    <3>1. /\ Step(p, check) /\ server = "up"
          /\ UNCHANGED <<server, queueVars, hostVars, timerVars, script, runVars>>
      BY <2>1 DEF PageAsks, Ask
    <3> HIDE DEF check
    <3>2. QED
      BY <3>1
  <2>2. CASE PageReads(p)
    <3>1. /\ Step(p, NoRequest) /\ NoRequest # check
          /\ UNCHANGED <<server, queueVars, hostVars, timerVars, script, runVars>>
      BY <2>2, NoRequestOK DEF IInv, PageReads
    <3> HIDE DEF check
    <3>2. QED
      BY <3>1
  <2>3. QED
    BY <2>1, <2>2
<1>2. /\ r \in RequestType /\ r.pc \in {"idle", "check"}
      /\ r.pc = "check" => server = "up"
  BY <1>1, NoRequestOK DEF IInv
<1>3. p \in Clients /\ p # Cron
  BY ClientAssumption DEF Clients
<1>4. /\ req' \in [Clients -> RequestType]
      /\ req'[p] = r
      /\ \A d \in Clients : d # p => req'[d] = req[d]
      /\ RequestType' = RequestType
  <2> HIDE DEF check
  <2>1. QED
    BY <1>1, <1>2, <1>3, OneRequest DEF IInv, hostVars
<1>5. TypeOK'
  BY <1>1, <1>2, <1>4 DEF IInv, TypeOK, RequestType, queueVars, hostVars,
      timerVars, runVars
<1>6. SeenAreAtRest'
  BY <1>1, <1>2, <1>4 DEF IInv, SeenAreAtRest, AtRest, queueVars, timerVars
<1>7. CronAsks'
  BY <1>1, <1>3, <1>4, TypeFacts DEF IInv, CronAsks
<1>8. QED
  BY <1>1, <1>5, <1>6, <1>7
  DEF IInv, RestartIsDue, NoTimerLeft, OkMeansRestarted, timerVars

-----------------------------------------------------------------------------
(* The script *)

\* A step of the script that leaves the server and its own request alone.
LEMMA ScriptKeeps ==
    ASSUME IInv, script' \in ScriptType', scripts' \in 0..MaxScripts,
           script'.pc # "answer", script.pc # "answer",
           script'.pc \in {"health", "ok"} =>
              \/ script.pc = script'.pc
              \/ script.pc = "health" /\ server = "up"
              \/ script'.pc = "health" /\ \A t \in armed : t.by # Cron,
           UNCHANGED <<server, queueVars, hostVars, req, timerVars, crashes>>
    PROVE  IInv'
<1>1. TypeOK'
  BY DEF IInv, TypeOK, ScriptType, queueVars, hostVars, timerVars
<1>2. SeenAreAtRest' /\ RestartIsDue'
  BY DEF IInv, SeenAreAtRest, AtRest, queueVars, RestartIsDue, timerVars
<1>3. CronAsks'
  BY DEF IInv, CronAsks
<1>4. NoTimerLeft'
  BY DEF IInv, NoTimerLeft, timerVars
<1>5. OkMeansRestarted'
  <2> SUFFICES ASSUME script'.pc = "ok" PROVE Cron \notin pending'
    BY DEF OkMeansRestarted
  <2>1. CASE script.pc = "ok"
    BY <2>1 DEF IInv, OkMeansRestarted, timerVars
  <2>2. CASE script.pc = "health" /\ server = "up"
    BY <2>2 DEF IInv, NoTimerLeft, RestartIsDue, timerVars
  <2>3. QED
    BY <2>1, <2>2
<1>6. QED
  BY <1>1, <1>2, <1>3, <1>4, <1>5 DEF IInv

LEMMA QuietScriptStep ==
    ASSUME IInv,
           ScriptStarts \/ ScriptLogin \/ ScriptWait \/ ScriptHealth \/ ScriptExits
    PROVE  IInv'
<1>1. scripts \in 0..MaxScripts /\ MaxScripts \in Nat /\ TypeOK
  BY CountAssumption DEF IInv, TypeOK
<1>2. ASSUME NEW pc \in {"login", "action", "health", "ok"}, Goto(pc), UNCHANGED latest
      PROVE  script' \in ScriptType' /\ script'.pc = pc
  BY <1>1, <1>2, ScriptMoves DEF Goto, ScriptType
<1>3. CASE ScriptStarts
  <2>1. /\ script' \in ScriptType' /\ script'.pc = "login" /\ script.pc = "off"
        /\ scripts' \in 0..MaxScripts
        /\ UNCHANGED <<server, queueVars, hostVars, req, timerVars, crashes>>
    BY <1>1, <1>2, <1>3 DEF ScriptStarts, hostVars
  <2>2. QED
    BY <2>1, ScriptKeeps
<1>4. CASE ScriptLogin
  <2>1. /\ script.pc = "login"
        /\ UNCHANGED <<server, queueVars, hostVars, req, timerVars, runVars>>
        /\ Goto("action") \/ Retry(MaxAttempts, "failed")
    BY <1>4 DEF ScriptLogin
  <2>2. script' \in ScriptType' /\ script'.pc \in {"login", "action", "failed"}
    <3>1. CASE Goto("action")
      BY <1>2, <2>1, <3>1 DEF hostVars
    <3>2. CASE Retry(MaxAttempts, "failed")
      BY <1>1, <2>1, <3>2, RetryFacts DEF hostVars
    <3>3. QED
      BY <2>1, <3>1, <3>2
  <2>3. QED
    BY <1>1, <2>1, <2>2, ScriptKeeps DEF runVars
<1>5. CASE ScriptWait
  <2>1. /\ script.pc = "wait" /\ \A t \in armed : t.by # Cron
        /\ script' \in ScriptType' /\ script'.pc = "health"
        /\ UNCHANGED <<server, queueVars, hostVars, req, timerVars, runVars>>
    BY <1>2, <1>5 DEF ScriptWait, queueVars, hostVars
  <2>2. QED
    BY <1>1, <2>1, ScriptKeeps DEF runVars
<1>6. CASE ScriptHealth
  <2>1. /\ script.pc = "health"
        /\ UNCHANGED <<server, queueVars, hostVars, req, timerVars, runVars>>
        /\ server = "up" => Goto("ok")
        /\ server # "up" => Retry(MaxHealth, "alert")
    BY <1>6 DEF ScriptHealth
  <2>2. CASE server = "up"
    <3>1. script' \in ScriptType' /\ script'.pc = "ok"
      BY <1>2, <2>1, <2>2 DEF hostVars
    <3>2. QED
      BY <1>1, <2>1, <2>2, <3>1, ScriptKeeps DEF runVars
  <2>3. CASE server # "up"
    <3>1. script' \in ScriptType' /\ script'.pc \in {"health", "alert"}
      BY <1>1, <2>1, <2>3, RetryFacts DEF hostVars
    <3>2. QED
      BY <1>1, <2>1, <3>1, ScriptKeeps DEF runVars
  <2>4. QED
    BY <2>2, <2>3
<1>7. CASE ScriptExits
  <2>1. /\ script.pc \in {"ok", "postponed", "failed", "alert"} /\ script' = Asleep
        /\ UNCHANGED <<server, queueVars, hostVars, req, timerVars, runVars>>
    BY <1>7 DEF ScriptExits
  <2>2. script' \in ScriptType' /\ script'.pc = "off"
    BY <1>1, <2>1, TypeFacts, CountAssumption DEF ScriptType, Asleep, Image, hostVars
  <2>3. QED
    BY <1>1, <2>1, <2>2, ScriptKeeps DEF runVars
<1>8. QED
  BY <1>3, <1>4, <1>5, <1>6, <1>7

LEMMA ScriptPostKeeps ==
    ASSUME IInv, ScriptPost
    PROVE  IInv'
<1>1. /\ script.pc = "action" /\ TypeOK /\ Cron \in Clients /\ UNCHANGED latest
      /\ UNCHANGED <<server, queueVars, hostVars, timerVars, runVars>>
  BY TypeFacts DEF IInv, ScriptPost, queueVars, hostVars
<1>2. CASE server = "up"
  <2> DEFINE check == [NoRequest EXCEPT !.pc = "check"]
             new   == [script EXCEPT !.pc = "answer"]
  <2>1. Step(Cron, check) /\ script' = new
    BY <1>2 DEF ScriptPost, Ask
  <2>2. /\ check \in RequestType /\ check.pc = "check"
        /\ new \in ScriptType /\ new.pc = "answer"
    BY <1>1, NoRequestOK, ScriptMoves
  <2> HIDE DEF check, new
  <2>3. /\ req' \in [Clients -> RequestType]
        /\ req'[Cron] = check
        /\ \A d \in Clients : d # Cron => req'[d] = req[d]
        /\ RequestType' = RequestType /\ ScriptType' = ScriptType
    BY <1>1, <2>1, <2>2, OneRequest DEF ScriptType
  <2>4. TypeOK'
    BY <1>1, <1>2, <2>1, <2>2, <2>3
    DEF TypeOK, RequestType, ScriptType, queueVars, hostVars, timerVars, runVars
  <2>5. SeenAreAtRest'
    BY <1>1, <2>2, <2>3 DEF IInv, SeenAreAtRest, AtRest, queueVars, timerVars
  <2>6. QED
    BY <1>1, <2>1, <2>2, <2>3, <2>4, <2>5
    DEF IInv, CronAsks, RestartIsDue, NoTimerLeft, OkMeansRestarted, timerVars
<1>3. CASE server # "up"
  <2>1. Retry(MaxAttempts, "failed") /\ UNCHANGED req
    BY <1>3 DEF ScriptPost
  <2>2. script' \in ScriptType' /\ script'.pc \in {"action", "failed"}
    BY <1>1, <2>1, RetryFacts
  <2>3. scripts' \in 0..MaxScripts
    BY <1>1 DEF TypeOK, runVars
  <2>4. QED
    BY <1>1, <2>1, <2>2, <2>3, ScriptKeeps DEF runVars
<1>4. QED
  BY <1>2, <1>3

\* The answer is read, and the script has no request any more.
LEMMA ScriptAnswerKeeps ==
    ASSUME IInv, ScriptAnswer
    PROVE  IInv'
<1>1. /\ TypeOK /\ Cron \in Clients /\ UNCHANGED latest /\ Step(Cron, NoRequest)
      /\ req[Cron] \in RequestType
      /\ UNCHANGED <<server, queueVars, hostVars, timerVars, runVars>>
  BY TypeFacts DEF IInv, ScriptAnswer, queueVars, hostVars
<1> DEFINE heard == [script EXCEPT !.pc = "wait", !.attempt = 1,
                                   !.told = req[Cron].version]
           again == [script EXCEPT !.pc = "action", !.attempt = @ + 1]
<1>2. script' \in ScriptType /\ script'.pc \in {"wait", "postponed", "action", "failed"}
  <2>1. CASE script' = heard
    <3>1. req[Cron].version \in 0..latest /\ 1 \in 1..(MaxAttempts + MaxHealth)
      BY <1>1, CountAssumption DEF RequestType
    <3>2. QED
      BY <1>1, <2>1, <3>1, TypeFacts DEF ScriptType
  <2>2. CASE script' = again /\ script.attempt < MaxAttempts
    <3>1. script.attempt + 1 \in 1..(MaxAttempts + MaxHealth)
      BY <1>1, <2>2, TypeFacts, CountAssumption DEF ScriptType
    <3>2. QED
      BY <1>1, <2>2, <3>1, TypeFacts DEF ScriptType
  <2>3. CASE \/ script' = [script EXCEPT !.pc = "postponed"]
             \/ script' = [script EXCEPT !.pc = "failed"]
    BY <1>1, <2>3, ScriptMoves
  <2>4. QED
    BY <2>1, <2>2, <2>3 DEF ScriptAnswer
<1>3. NoRequest \in RequestType /\ NoRequest.pc = "idle"
  BY <1>1, NoRequestOK
<1>4. /\ req' \in [Clients -> RequestType]
      /\ req'[Cron] = NoRequest
      /\ \A d \in Clients : d # Cron => req'[d] = req[d]
      /\ RequestType' = RequestType /\ ScriptType' = ScriptType
  BY <1>1, <1>3, OneRequest DEF ScriptType
<1>5. TypeOK'
  BY <1>1, <1>2, <1>3, <1>4
  DEF TypeOK, RequestType, ScriptType, queueVars, hostVars,
      timerVars, runVars
<1>6. SeenAreAtRest'
  BY <1>1, <1>3, <1>4 DEF IInv, SeenAreAtRest, AtRest, queueVars, timerVars
<1>7. QED
  BY <1>1, <1>2, <1>3, <1>4, <1>5, <1>6
  DEF IInv, CronAsks, RestartIsDue, NoTimerLeft, OkMeansRestarted, timerVars

-----------------------------------------------------------------------------
(* The theorems *)

LEMMA InitInv == Init => IInv
BY CountAssumption
DEF Init, IInv, TypeOK, SeenAreAtRest, CronAsks, RestartIsDue, NoTimerLeft,
    OkMeansRestarted, NoRequest, Asleep, Image, Clients

LEMMA StepInv == IInv /\ [Next]_vars => IInv'
<1> SUFFICES ASSUME IInv, [Next]_vars PROVE IInv'
  OBVIOUS
<1>1. ASSUME NEW j \in Jobs, Accept(j) \/ Load(j) \/ Claim(j) \/ Finish(j)
      PROVE  IInv'
  BY <1>1, WorkerKeeps
<1>2. ASSUME NEW c \in Clients, Serve(c) \/ Kill(c) PROVE IInv'
  BY <1>2, CheckKeeps, PipKeeps, ReadVersionKeeps, RecordKeeps, KillKeeps
  DEF Serve
<1>3. CASE (\E c \in Cancellers : CancelRead(c) \/ CancelWrite(c))
              \/ ServerStep \/ Crash \/ Release
  BY <1>3, CancelKeeps, ExitKeeps, BootKeeps, CrashKeeps, ReleaseKeeps DEF ServerStep
<1>4. ASSUME NEW p \in Pages, PageAsks(p) \/ PageReads(p) PROVE IInv'
  BY <1>4, PageKeeps
<1>5. CASE ScriptStarts \/ ScriptStep
  BY <1>5, QuietScriptStep, ScriptPostKeeps, ScriptAnswerKeeps DEF ScriptStep
<1>6. CASE UNCHANGED vars
  BY <1>6
  DEF IInv, TypeOK, SeenAreAtRest, AtRest, CronAsks, RestartIsDue, NoTimerLeft,
      OkMeansRestarted, vars, queueVars, queueVars, hostVars, timerVars, runVars
<1>7. QED
  BY <1>1, <1>2, <1>3, <1>4, <1>5, <1>6 DEF Next

\* When update-ytdlp.sh ends with success, the process that answered it has been
\* replaced: its health check, after the sleep, never meets the old process, which
\* has received SIGTERM by then and answers no request.
THEOREM SuccessIsRealHolds == Spec => []SuccessIsReal
<1>1. IInv => SuccessIsReal
  BY DEF IInv, SuccessIsReal
<1>2. QED
  BY <1>1, InitInv, StepInv, PTL DEF Spec

\* The SIGTERM of an update (_restart_process) meets no job that the check of
\* its request could have seen: every row that was settled then is at its end,
\* and no worker has it in hand.
THEOREM CutsOnlyNewJobsHolds == Spec => CutsOnlyNewJobs
<1>1. ASSUME IInv
      PROVE  \A t \in armed \ armed' : server' = "closing" =>
                \A j \in t.over : job[j] \notin Active /\ stage[j] = "idle"
  BY <1>1 DEF IInv, SeenAreAtRest, AtRest, queueVars, Active
<1>2. IInv /\ [Next]_vars =>
         [\A t \in armed \ armed' : server' = "closing" =>
             \A j \in t.over : job[j] \notin Active /\ stage[j] = "idle"]_vars
  BY <1>1
<1>3. QED
  BY <1>2, InitInv, StepInv, PTL DEF Spec, CutsOnlyNewJobs

\* Whoever was answered 200 is never left with a process that stays: it has
\* its timer, or has been told to stop, or is gone.
THEOREM RestartStaysDue == Spec => []RestartIsDue
<1>1. IInv => RestartIsDue
  BY DEF IInv
<1>2. QED
  BY <1>1, InitInv, StepInv, PTL DEF Spec
=============================================================================
