--------------------------- MODULE MainFlowProofs ---------------------------
(***************************************************************************)
(* Theorems about MainFlow, for every set of URLs and every number of jobs *)
(* and of calls in flight.                                                 *)
(***************************************************************************)
EXTENDS MainFlow, FiniteSetTheorems, TLAPS

-----------------------------------------------------------------------------
(* The inductive invariant *)

JobType == [status : {"none", "asked", "live", "gone"} \cup Terminal,
            by     : {"flow", "left", "lost", "other"},
            url    : Urls \cup {None}]

CardType == [text : Urls \cup {None}, armed : BOOLEAN,
             last : Urls \cup {None}, user : BOOLEAN]

\* A page that is not there keeps nothing of the flow.  Without it, the last
\* event of a job, or the answer of createDownload, could move the phase of
\* a component that is unmounted.
ClosedIsIdle ==
    ~ open => /\ phase = "idle" /\ card = NoCard
              /\ \A u \in Urls : calls[u] = 0
              /\ \A i \in Jobs : job[i].by # "flow"

\* A request of the main page, answered or not when the visitor leaves, knows
\* its link: a refusal can keep it for later.
FlowIsAsked ==
    \A i \in Jobs : job[i].by \in {"flow", "left", "lost"} =>
        job[i].status = "asked" /\ job[i].url # None

\* A result, and an answer that is still to come, belong to a link that was
\* submitted.
UrlIsKnown == (result # None \/ \E u \in Urls : calls[u] > 0) => url # None

OneAsked ==
    \A i, k \in Jobs : job[i].by = "flow" /\ job[k].by = "flow" => i = k

IInv == /\ TypeOK /\ AnalyzingHasCall /\ BlockedIsKept
        /\ ClosedIsIdle /\ FlowIsAsked /\ UrlIsKnown /\ OneAsked

-----------------------------------------------------------------------------
(* Jobs and cards *)

LEMMA JobFacts ==
    ASSUME TypeOK
    PROVE  /\ job \in [Jobs -> JobType] /\ DOMAIN job = Jobs
           /\ \A i \in Jobs : job[i] \in JobType
           /\ 0 \notin Jobs
           /\ NoJob \in JobType /\ NoJob.by = "other"
           /\ Gone \in JobType
           /\ Gone.by = "other"
           /\ Gone.status = "gone"
<1>1. 0 \notin Jobs
  BY DEF Jobs
<1>2. QED
  BY <1>1 DEF TypeOK, JobType, NoJob, Gone

\* The fields of a job that is replaced.
LEMMA JobSet ==
    ASSUME TypeOK, NEW i \in Jobs, NEW j \in JobType, job' = [job EXCEPT ![i] = j]
    PROVE  /\ job' \in [Jobs -> JobType] /\ job'[i] = j
           /\ \A k \in Jobs : k # i => job'[k] = job[k]
BY JobFacts

\* What the jobs owe to the rest of the page, when one of them is replaced.
LEMMA JobSetKeeps ==
    ASSUME TypeOK, FlowIsAsked, OneAsked,
           NEW i \in Jobs, NEW j \in JobType, job' = [job EXCEPT ![i] = j],
           j.by = "flow" => \A k \in Jobs : job[k].by # "flow",
           j.by \in {"flow", "left", "lost"} => j.status = "asked" /\ j.url # None
    PROVE  /\ job' \in [Jobs -> JobType] /\ FlowIsAsked' /\ OneAsked'
           /\ job'[i] = j
           /\ \A k \in Jobs : k # i => job'[k] = job[k]
BY JobSet DEF FlowIsAsked, OneAsked

LEMMA NoCallsOK == NoCalls \in [Urls -> 0..MaxCalls]
<1>1. 0 \in 0..MaxCalls
  BY BoundAssumption
<1>2. QED
  BY <1>1 DEF NoCalls

LEMMA CardFacts ==
    ASSUME NEW u \in Urls \cup {None}, NEW who \in BOOLEAN
    PROVE  /\ Mounted(u, who) \in CardType /\ NoCard \in CardType
           /\ ~ NoCard.armed /\ ~ NoCard.user
           /\ Mounted(u, who).user => Mounted(u, who).armed
           /\ Mounted(u, who).armed =>
                 /\ Mounted(u, who).text # None
                 /\ Mounted(u, who).text # Mounted(u, who).last
<1>1. NoCard \in CardType /\ ~ NoCard.armed /\ ~ NoCard.user
  BY DEF NoCard, CardType
<1>2. /\ Mounted(u, who).text = u /\ Mounted(u, who).last = None
      /\ Mounted(u, who).armed = (u # None)
      /\ Mounted(u, who).user = (u # None /\ who)
  BY DEF Mounted
<1>3. (u # None) \in BOOLEAN /\ (u # None /\ who) \in BOOLEAN
  OBVIOUS
<1>4. Mounted(u, who) \in CardType
  BY <1>3 DEF Mounted, CardType
<1>5. QED
  BY <1>1, <1>2, <1>4

-----------------------------------------------------------------------------
(* Coming and going *)

\* Whatever was there, a page that is mounted starts with nothing in flight.
LEMMA MountKeeps ==
    ASSUME IInv, NEW u \in Urls \cup {None}, NEW who \in BOOLEAN, Mount(u, who),
           account' \in BOOLEAN, guestUsed' \in BOOLEAN,
           job' \in [Jobs -> JobType], FlowIsAsked', OneAsked'
    PROVE  IInv'
<1> DEFINE v == IF u # None THEN u ELSE pendingUrl
<1>1. /\ v \in Urls \cup {None} /\ open' = TRUE
      /\ initial' = v /\ pendingUrl' = None /\ card' = Mounted(v, who)
      /\ phase' = "idle" /\ result' = None /\ url' = None /\ jobId' = 0
      /\ shown' = "idle" /\ calls' = NoCalls
  BY DEF IInv, TypeOK, Mount, Blank
<1> HIDE DEF v
<1>2. /\ card' \in CardType
      /\ card'.user => card'.armed
      /\ card'.armed => card'.text # None /\ card'.text # card'.last
  BY <1>1, CardFacts
<1>3. TypeOK'
  BY <1>1, <1>2, NoCallsOK
  DEF TypeOK, JobType, CardType, Phase, UrlKeys
<1>4. QED
  BY <1>1, <1>3
  DEF IInv, AnalyzingHasCall, BlockedIsKept, ClosedIsIdle, UrlIsKnown, NoCalls

LEMMA ForgottenFacts ==
    ASSUME TypeOK, job' = Forgotten
    PROVE  /\ job' \in [Jobs -> JobType] /\ FlowIsAsked' /\ OneAsked'
           /\ \A i \in Jobs : job'[i].by = "other"
BY JobFacts DEF Forgotten, FlowIsAsked, OneAsked

\* The requests of the main page outlive the manager.
LEMMA AdminFacts ==
    ASSUME TypeOK, FlowIsAsked, VisitAdmin
    PROVE  /\ job' \in [Jobs -> JobType] /\ FlowIsAsked' /\ OneAsked'
           /\ \A i \in Jobs : job'[i].by # "flow"
<1>1. ASSUME NEW i \in Jobs
      PROVE  /\ job'[i] \in JobType /\ job'[i].by # "flow"
             /\ job'[i].by \in {"left", "lost"} =>
                   job'[i].status = "asked" /\ job'[i].url # None
  <2> DEFINE lost == [job[i] EXCEPT !.by = "lost"]
  <2>1. /\ lost \in JobType /\ lost.by = "lost"
        /\ lost.status = job[i].status /\ lost.url = job[i].url
    BY JobFacts DEF JobType
  <2>2. job'[i] = IF job[i].by \in {"left", "lost"} THEN lost ELSE Forgotten[i]
    BY DEF VisitAdmin
  <2>3. Forgotten[i] \in {NoJob, Gone}
    BY DEF Forgotten
  <2> HIDE DEF lost
  <2>4. QED
    BY <2>1, <2>2, <2>3, JobFacts DEF FlowIsAsked
<1>2. job' = [i \in Jobs |-> job'[i]]
  BY DEF VisitAdmin
<1>3. job' \in [Jobs -> JobType]
  BY <1>1, <1>2
<1>4. QED
  BY <1>1, <1>3 DEF FlowIsAsked, OneAsked

LEMMA LeaveKeeps ==
    ASSUME IInv, Leave
    PROVE  IInv'
<1>1. ASSUME NEW i \in Jobs
      PROVE  /\ job'[i] \in JobType
             /\ job'[i].by = (IF job[i].by = "flow" THEN "left" ELSE job[i].by)
             /\ job'[i].status = job[i].status /\ job'[i].url = job[i].url
  <2> DEFINE left == [job[i] EXCEPT !.by = "left"]
  <2>1. /\ left \in JobType /\ left.by = "left"
        /\ left.status = job[i].status /\ left.url = job[i].url
    BY JobFacts DEF IInv, JobType
  <2>2. job'[i] = IF job[i].by = "flow" THEN left ELSE job[i]
    BY DEF Leave
  <2> HIDE DEF left
  <2>3. QED
    BY <2>1, <2>2, JobFacts DEF IInv
<1>2. job' = [i \in Jobs |-> job'[i]]
  BY DEF Leave
<1>3. job' \in [Jobs -> JobType]
  BY <1>1, <1>2
<1>4. FlowIsAsked' /\ OneAsked' /\ \A i \in Jobs : job'[i].by # "flow"
  BY <1>1 DEF IInv, FlowIsAsked, OneAsked
<1>5. /\ open' = FALSE /\ initial' = None /\ card' = NoCard
      /\ phase' = "idle" /\ result' = None /\ url' = None /\ jobId' = 0
      /\ shown' = "idle" /\ calls' = NoCalls /\ UNCHANGED storeVars
  BY DEF Leave, Blank
<1>6. TypeOK'
  BY <1>3, <1>5, CardFacts, NoCallsOK
  DEF IInv, TypeOK, JobType, CardType, Phase, UrlKeys, storeVars
<1>7. QED
  BY <1>4, <1>5, <1>6
  DEF IInv, AnalyzingHasCall, BlockedIsKept, ClosedIsIdle, UrlIsKnown, NoCalls

LEMMA VisitKeeps ==
    ASSUME IInv, Visit
    PROVE  IInv'
<1>1. /\ TypeOK /\ FlowIsAsked /\ OneAsked /\ account \in BOOLEAN
      /\ guestUsed \in BOOLEAN /\ job \in [Jobs -> JobType]
  BY JobFacts DEF IInv, TypeOK
<1>2. UNCHANGED job => FlowIsAsked' /\ OneAsked'
  BY <1>1 DEF FlowIsAsked, OneAsked
<1>3. CASE Return
  <2>1. Mount(None, account) /\ UNCHANGED <<account, guestUsed, job>>
    BY <1>3 DEF Return
  <2>2. QED
    BY <1>1, <1>2, <2>1, MountKeeps
<1>4. CASE Leave
  BY <1>4, LeaveKeeps
<1>5. CASE VisitAdmin
  <2>1. ~ open /\ UNCHANGED <<storeVars, flowVars>>
    BY <1>5 DEF VisitAdmin
  <2>2. /\ job' \in [Jobs -> JobType] /\ FlowIsAsked' /\ OneAsked'
        /\ \A i \in Jobs : job'[i].by # "flow"
    BY <1>1, <1>5, AdminFacts
  <2>3. TypeOK'
    BY <2>1, <2>2
    DEF IInv, TypeOK, ClosedIsIdle, JobType, storeVars, flowVars
  <2>4. QED
    BY <2>1, <2>2, <2>3
    DEF IInv, AnalyzingHasCall, BlockedIsKept, ClosedIsIdle, UrlIsKnown,
        storeVars, flowVars
<1>6. CASE Login
  <2>1. /\ ~ open /\ account' = TRUE /\ UNCHANGED <<guestUsed, job>>
        /\ Mount(None, TRUE) \/ UNCHANGED <<pendingUrl, flowVars>>
    BY <1>6 DEF Login
  <2>2. CASE Mount(None, TRUE)
    BY <1>1, <1>2, <2>1, <2>2, MountKeeps
  <2>3. CASE UNCHANGED <<pendingUrl, flowVars>>
    BY <2>1, <2>3
    DEF IInv, TypeOK, AnalyzingHasCall, BlockedIsKept, ClosedIsIdle,
        FlowIsAsked, UrlIsKnown, OneAsked, flowVars
  <2>4. QED
    BY <2>1, <2>2, <2>3
<1>7. CASE Logout
  <2>1. account' = FALSE /\ UNCHANGED job
    BY <1>7 DEF Logout
  <2>2. CASE open
    <3>1. /\ guestUsed' \in BOOLEAN
          /\ guestUsed => guestUsed'
          /\ UNCHANGED <<pendingUrl, flowVars>>
      BY <1>1, <1>7, <2>2 DEF Logout
    <3>2. TypeOK'
      <4>1. account' \in BOOLEAN /\ guestUsed' \in BOOLEAN
        BY <2>1, <3>1
      <4>2. QED
        BY <2>1, <3>1, <4>1 DEF IInv, TypeOK, flowVars
    <3>3. BlockedIsKept'
      BY <3>1 DEF IInv, BlockedIsKept, flowVars
    <3>4. QED
      BY <2>1, <3>1, <3>2, <3>3
      DEF IInv, AnalyzingHasCall, ClosedIsIdle, FlowIsAsked, UrlIsKnown,
          OneAsked, flowVars
  <2>3. CASE ~ open
    <3>1. Mount(None, FALSE) /\ UNCHANGED guestUsed
      BY <1>7, <2>3 DEF Logout
    <3>2. QED
      BY <1>1, <1>2, <2>1, <3>1, MountKeeps
  <2>4. QED
    BY <2>2, <2>3
<1>8. ASSUME NEW u \in Urls \cup {None}, Load(u) PROVE IInv'
  <2>1. /\ Mount(u, account) /\ job' = Forgotten
        /\ UNCHANGED <<account, guestUsed>>
    BY <1>8 DEF Load
  <2>2. QED
    BY <1>1, <2>1, ForgottenFacts, MountKeeps
<1>9. QED
  BY <1>3, <1>4, <1>5, <1>6, <1>7, <1>8 DEF Visit

-----------------------------------------------------------------------------
(* The URL card and the analysis *)

LEMMA MorphKeeps ==
    ASSUME IInv, Morph
    PROVE  IInv'
<1>1. /\ open /\ shown' = Key
      /\ card' = IF Key \in UrlKeys THEN Mounted(initial, account) ELSE NoCard
      /\ UNCHANGED <<storeVars, job, open, initial, phase, result, url, jobId,
                     calls>>
  BY DEF Morph
<1>2. initial \in Urls \cup {None} /\ account \in BOOLEAN
  BY DEF IInv, TypeOK
<1>3. /\ card' \in CardType
      /\ card'.user => card'.armed
      /\ card'.armed => card'.text # None /\ card'.text # card'.last
      /\ Key \notin UrlKeys => card' = NoCard
  BY <1>1, <1>2, CardFacts
<1>4. Key \in Phase \cup {"job"}
  BY DEF IInv, TypeOK, Key
<1>5. TypeOK'
  BY <1>1, <1>3, <1>4 DEF IInv, TypeOK, CardType, storeVars
<1>6. QED
  BY <1>1, <1>5
  DEF IInv, AnalyzingHasCall, BlockedIsKept, ClosedIsIdle, FlowIsAsked,
      UrlIsKnown, OneAsked, storeVars

LEMMA TypeUrlKeeps ==
    ASSUME IInv, NEW u \in Urls \cup {None}, TypeUrl(u)
    PROVE  IInv'
<1> DEFINE arm == u # None /\ u # card.last
           who == arm /\ account
           new == [card EXCEPT !.text = u, !.armed = arm, !.user = who]
<1>1. /\ open /\ shown \in UrlKeys /\ card' = new
      /\ UNCHANGED <<storeVars, job, open, initial, phase, result, url, jobId,
                     shown, calls>>
  BY DEF TypeUrl
<1>2. arm \in BOOLEAN /\ who \in BOOLEAN /\ (who => arm)
      /\ (arm => u # None /\ u # card.last)
  BY DEF IInv, TypeOK
<1> HIDE DEF arm, who
<1>3. /\ new \in CardType
      /\ new.text = u /\ new.armed = arm /\ new.user = who
      /\ new.last = card.last
  BY <1>2 DEF IInv, TypeOK, CardType
<1> HIDE DEF new
<1>4. TypeOK'
  BY <1>1, <1>2, <1>3 DEF IInv, TypeOK, CardType, storeVars
<1>5. QED
  BY <1>1, <1>4
  DEF IInv, AnalyzingHasCall, BlockedIsKept, ClosedIsIdle, FlowIsAsked,
      UrlIsKnown, OneAsked, storeVars

\* A link that is submitted is analysed, or blocked and kept.
LEMMA TimerKeeps ==
    ASSUME IInv, TimerFires
    PROVE  IInv'
<1> DEFINE u   == card.text
           new == [card EXCEPT !.armed = FALSE, !.last = u, !.user = FALSE]
<1>1. /\ card.armed /\ calls[u] < MaxCalls /\ card' = new
      /\ HandleSubmitUrl(u, card.user)
      /\ UNCHANGED <<account, guestUsed, job, open, initial, result, jobId, shown>>
  BY DEF TimerFires
<1>2. /\ u \in Urls /\ u # None /\ card \in CardType
      /\ open
      /\ shown \in UrlKeys
  BY <1>1, NoneAssumption DEF IInv, TypeOK, CardType, ClosedIsIdle, NoCard
<1>3. new \in CardType /\ ~ new.armed /\ ~ new.user
  BY <1>2 DEF CardType
<1>4. calls \in [Urls -> 0..MaxCalls] /\ calls[u] \in 0..MaxCalls /\ MaxCalls \in Nat
  BY <1>2, BoundAssumption DEF IInv, TypeOK
<1> HIDE DEF new, u
<1>5. CASE phase' = "guest-blocked"
  <2>1. /\ url' = u /\ pendingUrl' = u /\ guestUsed /\ UNCHANGED calls
    BY <1>1, <1>5 DEF HandleSubmitUrl
  <2>2. TypeOK'
    BY <1>1, <1>2, <1>3, <1>5, <2>1
    DEF IInv, TypeOK, CardType, Phase, Key
  <2>3. QED
    BY <1>1, <1>2, <1>5, <2>1, <2>2
    DEF IInv, AnalyzingHasCall, BlockedIsKept, ClosedIsIdle, FlowIsAsked,
        UrlIsKnown, OneAsked
<1>6. CASE phase' # "guest-blocked"
  <2>1. /\ url' = u /\ phase' = "analyzing" /\ UNCHANGED pendingUrl
        /\ calls' = [calls EXCEPT ![u] = @ + 1]
    BY <1>1, <1>6 DEF HandleSubmitUrl
  <2>2. calls[u] + 1 \in 0..MaxCalls /\ calls[u] + 1 > 0
    BY <1>1, <1>4
  <2>3. /\ calls' \in [Urls -> 0..MaxCalls]
        /\ calls'[u] > 0
    BY <1>2, <1>4, <2>1, <2>2
  <2>4. TypeOK'
    BY <1>1, <1>2, <1>3, <2>1, <2>3 DEF IInv, TypeOK, CardType, Phase
  <2>5. AnalyzingHasCall' /\ UrlIsKnown'
    BY <1>2, <2>1, <2>3 DEF AnalyzingHasCall, UrlIsKnown
  <2>6. QED
    BY <1>1, <1>2, <2>1, <2>4, <2>5
    DEF IInv, BlockedIsKept, ClosedIsIdle, FlowIsAsked, OneAsked
<1>7. QED
  BY <1>5, <1>6

LEMMA AnswerKeeps ==
    ASSUME IInv, NEW u \in Urls, Answer(u)
    PROVE  IInv'
<1>1. /\ calls[u] > 0 /\ calls' = [calls EXCEPT ![u] = @ - 1]
      /\ \/ phase' = "preview" /\ result' = u
         \/ phase' = "idle" /\ UNCHANGED result
      /\ UNCHANGED <<storeVars, job, open, initial, url, jobId, shown, card>>
  BY DEF Answer, AnalyzeOk, AnalyzeFails
<1>2. calls \in [Urls -> 0..MaxCalls] /\ MaxCalls \in Nat
  BY BoundAssumption DEF IInv, TypeOK
<1>3. calls' \in [Urls -> 0..MaxCalls]
  <2>1. calls[u] - 1 \in 0..MaxCalls
    BY <1>1, <1>2
  <2>2. QED
    BY <1>1, <1>2, <2>1
<1>4. url # None /\ open /\ u # None
  BY <1>1, NoneAssumption DEF IInv, UrlIsKnown, ClosedIsIdle
<1>5. TypeOK'
  BY <1>1, <1>3, <1>4 DEF IInv, TypeOK, Phase, storeVars
<1>6. UrlIsKnown'
  BY <1>1, <1>4 DEF UrlIsKnown
<1>7. QED
  BY <1>1, <1>4, <1>5, <1>6
  DEF IInv, AnalyzingHasCall, BlockedIsKept, ClosedIsIdle, FlowIsAsked, OneAsked

-----------------------------------------------------------------------------
(* The requests *)

\* A new row, of the main page or of another one.
LEMMA AskKeeps ==
    ASSUME IInv, NEW i \in Jobs, NEW by \in {"flow", "other"},
           NEW u \in Urls \cup {None}, Ask(i, by, u),
           by = "flow" => open /\ u # None /\ ~ Submitting,
           UNCHANGED <<storeVars, flowVars>>
    PROVE  IInv'
<1> DEFINE j == [status |-> "asked", by |-> by, url |-> u]
<1>1. /\ job' = [job EXCEPT ![i] = j] /\ job[i].status = "none"
      /\ j \in JobType /\ j.by = by /\ j.status = "asked" /\ j.url = u
  BY DEF Ask, JobType
<1> HIDE DEF j
<1>2. by = "flow" => \A k \in Jobs : job[k].by # "flow"
  BY DEF IInv, FlowIsAsked, Submitting
<1>3. /\ job' \in [Jobs -> JobType] /\ FlowIsAsked' /\ OneAsked'
      /\ job'[i] = j
      /\ \A k \in Jobs : k # i => job'[k] = job[k]
  BY <1>1, <1>2, JobSetKeeps DEF IInv
<1>4. TypeOK'
  BY <1>1, <1>3 DEF IInv, TypeOK, JobType, storeVars, flowVars
<1>5. ClosedIsIdle'
  BY <1>1, <1>3 DEF IInv, ClosedIsIdle, flowVars
<1>6. QED
  BY <1>3, <1>4, <1>5
  DEF IInv, AnalyzingHasCall, BlockedIsKept, UrlIsKnown, storeVars, flowVars

\* A row that is not that of the block any more, or shown there as gone.
LEMMA GoneKeeps ==
    ASSUME IInv, NEW i \in Jobs, job[i].status # "none",
           job' = [job EXCEPT ![i] = Gone],
           UNCHANGED <<account, open, initial, result, url, jobId, shown, card,
                       calls>>,
           phase' = phase \/ (phase' = "guest-blocked" /\ open),
           guestUsed' \in BOOLEAN, pendingUrl' \in Urls \cup {None},
           BlockedIsKept'
    PROVE  IInv'
<1> DEFINE j == Gone
<1>1. j \in JobType /\ j.by = "other" /\ j.status = "gone"
  BY JobFacts DEF IInv
<1>2. job' = [job EXCEPT ![i] = j]
  OBVIOUS
<1> HIDE DEF j
<1>3. /\ job' \in [Jobs -> JobType] /\ FlowIsAsked' /\ OneAsked'
      /\ job'[i] = j
      /\ \A k \in Jobs : k # i => job'[k] = job[k]
  BY <1>1, <1>2, JobSetKeeps DEF IInv
<1>4. TypeOK'
  BY <1>1, <1>3 DEF IInv, TypeOK, JobType, Phase
<1>5. ClosedIsIdle'
  BY <1>1, <1>3 DEF IInv, ClosedIsIdle
<1>6. QED
  BY <1>3, <1>4, <1>5 DEF IInv, AnalyzingHasCall, UrlIsKnown

LEMMA CreateOkKeeps ==
    ASSUME IInv, NEW i \in Jobs, CreateOk(i)
    PROVE  IInv'
<1> DEFINE live == [job[i] EXCEPT !.status = "live", !.by = "other"]
           j    == IF job[i].by = "lost" THEN Gone ELSE live
<1>1. /\ job[i].status = "asked" /\ job' = [job EXCEPT ![i] = j]
      /\ UNCHANGED <<storeVars, open, initial, result, url, shown, card, calls>>
      /\ \/ job[i].by = "flow" /\ jobId' = i /\ phase' = "tracking"
         \/ UNCHANGED <<jobId, phase>>
  BY JobFacts DEF IInv, CreateOk, SetPhase
<1>2. j \in JobType /\ j.by = "other" /\ j.status \in {"live", "gone"}
  <2>1. live \in JobType /\ live.by = "other" /\ live.status = "live"
    BY JobFacts DEF IInv, JobType
  <2>2. Gone \in JobType /\ Gone.by = "other" /\ Gone.status = "gone"
    BY JobFacts DEF IInv
  <2> HIDE DEF live
  <2>3. QED
    BY <2>1, <2>2
<1> HIDE DEF j
<1>3. /\ job' \in [Jobs -> JobType] /\ FlowIsAsked' /\ OneAsked'
      /\ job'[i] = j
      /\ \A k \in Jobs : k # i => job'[k] = job[k]
  BY <1>1, <1>2, JobSetKeeps DEF IInv
<1>4. i # 0
  BY JobFacts DEF IInv
<1>5. TypeOK'
  BY <1>1, <1>2, <1>3, <1>4 DEF IInv, TypeOK, JobType, Phase, storeVars
<1>6. ClosedIsIdle'
  BY <1>1, <1>2, <1>3 DEF IInv, ClosedIsIdle
<1>7. QED
  BY <1>1, <1>3, <1>5, <1>6
  DEF IInv, AnalyzingHasCall, BlockedIsKept, UrlIsKnown, storeVars

\* A refusal sends the visitor to the invitation with the link of the request,
\* even one who has left the page meanwhile.
LEMMA CreateLimitedKeeps ==
    ASSUME IInv, NEW i \in Jobs, CreateLimited(i)
    PROVE  IInv'
<1>1. /\ job[i].status = "asked" /\ job[i].by \in {"flow", "left", "lost"}
      /\ job' = [job EXCEPT ![i] = Gone]
      /\ guestUsed' = TRUE /\ pendingUrl' = job[i].url
      /\ \/ job[i].by = "flow" /\ phase' = "guest-blocked"
         \/ UNCHANGED phase
      /\ UNCHANGED <<account, open, initial, result, url, jobId, shown, card,
                     calls>>
  BY JobFacts DEF IInv, CreateLimited, Refused, SetPhase, JobType
<1>2. job[i].url # None /\ job[i].url \in Urls \cup {None}
  BY <1>1, JobFacts DEF IInv, FlowIsAsked, JobType
<1>3. job[i].by = "flow" => open
  BY DEF IInv, ClosedIsIdle
<1>4. BlockedIsKept'
  BY <1>1, <1>2 DEF BlockedIsKept
<1>5. QED
  BY <1>1, <1>2, <1>3, <1>4, GoneKeeps

LEMMA DrawerRetryKeeps ==
    ASSUME IInv, NEW i \in Jobs, NEW k \in Jobs, DrawerRetry(i, k)
    PROVE  IInv'
<1> DEFINE gone == Gone
           new  == [status |-> "asked", by |-> "other", url |-> job[i].url]
<1>1. /\ job[i].status = "failed" /\ job[k].status = "none"
      /\ job' = [job EXCEPT ![i] = gone, ![k] = new]
      /\ UNCHANGED <<storeVars, flowVars>>
  BY DEF DrawerRetry
<1>2. /\ gone \in JobType /\ gone.by = "other" /\ gone.status = "gone"
      /\ new \in JobType /\ new.by = "other"
  BY JobFacts DEF IInv, JobType
<1> HIDE DEF gone, new
<1>3. /\ job' \in [Jobs -> JobType] /\ job'[i] = gone /\ job'[k] = new
      /\ \A n \in Jobs : n # i /\ n # k => job'[n] = job[n]
  BY <1>1, <1>2, JobFacts DEF IInv
<1>4. TypeOK'
  BY <1>1, <1>2, <1>3 DEF IInv, TypeOK, JobType, storeVars, flowVars
<1>5. FlowIsAsked' /\ OneAsked' /\ ClosedIsIdle'
  BY <1>1, <1>2, <1>3 DEF IInv, FlowIsAsked, OneAsked, ClosedIsIdle, flowVars
<1>6. QED
  BY <1>1, <1>4, <1>5
  DEF IInv, AnalyzingHasCall, BlockedIsKept, UrlIsKnown, storeVars, flowVars

\* The last event of a job: the block lets go of a job that was cancelled.
LEMMA JobEventKeeps ==
    ASSUME IInv, NEW i \in Jobs, NEW s \in Terminal, JobEvent(i, s)
    PROVE  IInv'
<1> DEFINE u == IF s = "failed" THEN job[i].url ELSE None
           j == [job[i] EXCEPT !.status = s, !.url = u]
<1>1. /\ job[i].status = "live" /\ job' = [job EXCEPT ![i] = j]
      /\ guestUsed' \in BOOLEAN
      /\ guestUsed => guestUsed'
      /\ \/ open /\ jobId = i /\ s = "over" /\ ResetToIdle
         \/ /\ ~ (open /\ jobId = i /\ s = "over")
            /\ UNCHANGED <<phase, result, jobId>>
      /\ UNCHANGED <<account, pendingUrl, open, initial, url, shown, card, calls>>
  BY JobFacts DEF IInv, TypeOK, JobEvent
<1>2. u \in Urls \cup {None}
  BY JobFacts DEF IInv, JobType
<1>3. j \in JobType /\ j.by = job[i].by /\ j.status = s
  <2> HIDE DEF u
  <2>1. QED
    BY <1>2, JobFacts DEF IInv, JobType
<1>4. job[i].by = "other"
  BY <1>1, JobFacts DEF IInv, FlowIsAsked, JobType
<1> HIDE DEF u, j
<1>5. /\ job' \in [Jobs -> JobType] /\ FlowIsAsked' /\ OneAsked'
      /\ job'[i] = j
      /\ \A k \in Jobs : k # i => job'[k] = job[k]
  BY <1>1, <1>3, <1>4, JobSetKeeps DEF IInv
<1>6. CASE UNCHANGED <<phase, result, jobId>> /\ ~ (open /\ jobId = i /\ s = "over")
  <2>1. phase = "tracking" => open
    BY DEF IInv, ClosedIsIdle
  <2>2. phase = "tracking" /\ jobId = i => s \in {"done", "failed"}
    BY <1>6, <2>1 DEF Terminal
  <2>3. TypeOK'
    BY <1>1, <1>3, <1>5, <1>6, <2>2 DEF IInv, TypeOK, JobType
  <2>4. ClosedIsIdle'
    BY <1>1, <1>3, <1>4, <1>5, <1>6 DEF IInv, ClosedIsIdle
  <2>5. QED
    BY <1>1, <1>5, <1>6, <2>3, <2>4
    DEF IInv, AnalyzingHasCall, BlockedIsKept, UrlIsKnown
<1>7. CASE open /\ ResetToIdle
  <2>1. TypeOK'
    BY <1>1, <1>5, <1>7 DEF IInv, TypeOK, ResetToIdle, JobType, Phase
  <2>2. QED
    BY <1>1, <1>5, <1>7, <2>1
    DEF IInv, AnalyzingHasCall, BlockedIsKept, ClosedIsIdle, UrlIsKnown,
        ResetToIdle
<1>8. QED
  BY <1>1, <1>6, <1>7

LEMMA JobCardKeeps ==
    ASSUME IInv, NewLink \/ ErrorRetry
    PROVE  IInv'
<1>1. /\ open
      /\ UNCHANGED <<storeVars, job, open, initial, url, shown, card, calls>>
      /\ \/ phase' = "idle" /\ result' = None /\ jobId' = 0
         \/ phase' = "preview" /\ result # None /\ UNCHANGED <<result, jobId>>
  BY DEF NewLink, ErrorRetry, OnJobCard, ResetToIdle, SetPhase
<1>2. TypeOK'
  BY <1>1 DEF IInv, TypeOK, Phase, storeVars
<1>3. QED
  BY <1>1, <1>2
  DEF IInv, AnalyzingHasCall, BlockedIsKept, ClosedIsIdle, FlowIsAsked,
      UrlIsKnown, OneAsked, storeVars

-----------------------------------------------------------------------------
(* The theorems *)

LEMMA InitInv == Init => IInv
<1> SUFFICES ASSUME Init PROVE IInv
  OBVIOUS
<1>1. card \in CardType /\ ~ card.armed /\ ~ card.user
  BY CardFacts DEF Init
<1>2. \A i \in Jobs : job[i] \in JobType /\ job[i].by = "other"
  BY DEF Init, NoJob, JobType
<1>3. job \in [Jobs -> JobType] /\ calls \in [Urls -> 0..MaxCalls]
  BY <1>2, NoCallsOK DEF Init
<1>4. TypeOK
  BY <1>1, <1>3 DEF Init, TypeOK, JobType, CardType, Phase, UrlKeys
<1>5. QED
  BY <1>2, <1>4
  DEF Init, IInv, AnalyzingHasCall, BlockedIsKept, ClosedIsIdle, FlowIsAsked,
      UrlIsKnown, OneAsked, NoCalls

LEMMA JobStepKeeps ==
    ASSUME IInv, NEW i \in Jobs, JobStep(i)
    PROVE  IInv'
<1>1. CASE Download(i)
  <2>1. /\ open /\ ~ Submitting /\ Ask(i, "flow", url) /\ phase = "preview"
        /\ UNCHANGED <<storeVars, flowVars>>
    BY <1>1 DEF Download, Key
  <2>2. url # None /\ url \in Urls \cup {None}
    BY <2>1 DEF IInv, TypeOK, UrlIsKnown
  <2>3. QED
    BY <2>1, <2>2, AskKeeps
<1>2. ASSUME NEW u \in Urls, AskAgain(i, u) PROVE IInv'
  BY <1>2, AskKeeps DEF AskAgain
<1>3. CASE CreateFails(i) \/ DrawerRemove(i)
  <2>1. /\ job[i].status # "none"
        /\ job' = [job EXCEPT ![i] = Gone]
        /\ UNCHANGED <<storeVars, flowVars>>
    BY <1>3 DEF CreateFails, Refused, DrawerRemove, Terminal
  <2>2. /\ BlockedIsKept' /\ guestUsed' \in BOOLEAN
        /\ pendingUrl' \in Urls \cup {None}
    BY <2>1 DEF IInv, TypeOK, BlockedIsKept, storeVars, flowVars
  <2>3. QED
    BY <2>1, <2>2, GoneKeeps DEF storeVars, flowVars
<1>4. QED
  BY <1>1, <1>2, <1>3, CreateOkKeeps, CreateLimitedKeeps, JobEventKeeps,
     DrawerRetryKeeps DEF JobStep

LEMMA StepInv == IInv /\ [Next]_vars => IInv'
<1> SUFFICES ASSUME IInv, [Next]_vars PROVE IInv'
  OBVIOUS
<1>1. CASE Visit
  BY <1>1, VisitKeeps
<1>2. CASE CardStep
  BY <1>2, MorphKeeps, TimerKeeps, TypeUrlKeeps DEF CardStep
<1>3. ASSUME NEW u \in Urls, Answer(u) PROVE IInv'
  BY <1>3, AnswerKeeps
<1>4. ASSUME NEW i \in Jobs, JobStep(i) PROVE IInv'
  BY <1>4, JobStepKeeps
<1>5. CASE NewLink \/ ErrorRetry
  BY <1>5, JobCardKeeps
<1>6. CASE UNCHANGED vars
  <2>1. TypeOK'
    BY <1>6 DEF IInv, TypeOK, vars, storeVars, flowVars
  <2>2. QED
    BY <1>6, <2>1
    DEF IInv, AnalyzingHasCall, BlockedIsKept, ClosedIsIdle, FlowIsAsked,
        UrlIsKnown, OneAsked, vars, storeVars, flowVars
<1>7. QED
  BY <1>1, <1>2, <1>3, <1>4, <1>5, <1>6 DEF Next

\* The spinner of the main page has a call of analyze in flight, whatever was
\* typed, resumed or left meanwhile, and the page never has two calls of
\* createDownload in flight.
THEOREM PageHasItsCallsHolds == Spec => []PageHasItsCalls
<1>1. IInv => PageHasItsCalls
  <2> SUFFICES ASSUME IInv PROVE OneCreateAtATime
    BY DEF IInv, PageHasItsCalls
  <2> DEFINE asked == {i \in Jobs : job[i].status = "asked" /\ job[i].by = "flow"}
  <2>1. \A i, k \in asked : i = k
    BY DEF IInv, OneAsked
  <2>2. Cardinality(asked) <= 1
    <3> HIDE DEF asked
    <3>1. CASE asked = {}
      BY <3>1, FS_EmptySet
    <3>2. CASE asked # {}
      <4>1. PICK i \in asked : TRUE
        BY <3>2
      <4>2. asked = {i}
        BY <2>1, <4>1
      <4>3. Cardinality({i}) = 1
        BY FS_Singleton
      <4>4. QED
        BY <4>2, <4>3
    <3>3. QED
      BY <3>1, <3>2
  <2>3. QED
    BY <2>2 DEF OneCreateAtATime
<1>2. QED
  BY <1>1, InitInv, StepInv, PTL DEF Spec

\* The invitation to register is shown only to a visitor whom this browser
\* remembers, and the link that was refused waits in its storage: no reload,
\* departure or late refusal takes it away while the invitation is there.
THEOREM BlockedIsKeptHolds == Spec => []BlockedIsKept
<1>1. IInv => BlockedIsKept
  BY DEF IInv
<1>2. QED
  BY <1>1, InitInv, StepInv, PTL DEF Spec

=============================================================================
