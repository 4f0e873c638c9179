------------------------------- MODULE MainFlow -------------------------------
(***************************************************************************)
(* The main page in one browser tab: the phases of the central block       *)
(* (MainFlow.tsx), the URL field and its timer (UrlCard.tsx), the tracked  *)
(* jobs (DownloadManagerContext.tsx, DownloadManagerDrawer.tsx), what is   *)
(* kept in the browser's storage (guestState.ts, pendingUrl.ts), and the   *)
(* visits to the other pages (App.tsx).                                    *)
(*                                                                         *)
(* JavaScript runs one callback at a time: a click, a timer, the answer of *)
(* a request, an event of a stream.  What each of them sets, with the      *)
(* effects that React runs after it, is one step.                          *)
(*                                                                         *)
(* The card on the screen follows the phase with a delay: AnimatePresence  *)
(* plays the exit of the old card before it mounts the new one, and a URL  *)
(* card that is mounted starts again from initialUrl.                      *)
(* A button is clicked on a card that is not leaving.                      *)
(***************************************************************************)
EXTENDS Integers, FiniteSets

CONSTANTS Urls,
          None,         \* no URL: null, undefined or the empty string
          MaxJobs,      \* bound: calls of createDownload
          MaxCalls      \* bound: calls of analyze in flight for one URL

ASSUME NoneAssumption  == None \notin Urls
ASSUME BoundAssumption == MaxJobs \in Nat /\ MaxCalls \in Nat \ {0}

Jobs == 1..MaxJobs

VARIABLES
  account,      \* user is not null
  guestUsed,    \* localStorage: hasUsedGuestDownload
  pendingUrl,   \* sessionStorage
  job,          \* each createDownload: its row in the manager, its URL
  open,         \* MainFlow is mounted
  initial,      \* initialUrl
  phase, result, url, jobId,    \* analyzeResult (by its URL), currentUrl
  shown,        \* the key of the card on the screen
  card,         \* the URL card, when it is the one: its text, its timer,
                \* lastSubmitted, and the user its timer was armed for
  calls         \* calls of analyze in flight, for each URL

storeVars == <<account, guestUsed, pendingUrl>>
flowVars  == <<open, initial, phase, result, url, jobId, shown, card, calls>>
vars      == <<storeVars, job, flowVars>>

Terminal == {"done", "failed", "over"}    \* over: cancelled or expired
Phase    == {"idle", "analyzing", "preview", "tracking", "guest-blocked"}

\* A row: "asked" until createDownload is answered, "live" while it is queued,
\* downloading or processing, "gone" when the manager has no row (any more).
\* Its URL is kept as long as somebody may need it.  A request of the main page
\* is "left" once the page is, and "lost" once the manager is gone as well.
NoJob == [status |-> "none", by |-> "other", url |-> None]
Gone  == [NoJob EXCEPT !.status = "gone"]

NoCard == [text |-> None, armed |-> FALSE, last |-> None, user |-> FALSE]

\* Faulty variant: the field is filled and nothing submits it.
MountedOnly(u, who) ==
    [text |-> u, armed |-> FALSE, last |-> u, user |-> FALSE]

\* A URL card that was mounted: its field holds initialUrl and the timer runs.
Mounted(u, who) ==
    [text |-> u, armed |-> u # None, last |-> None, user |-> u # None /\ who]

\* The job of the central block is gone when the drawer removed it: the block
\* then shows the URL card, under the key of the phase.
HasJob == jobId # 0 /\ job[jobId].status # "gone"

Key == IF phase = "tracking" /\ HasJob THEN "job" ELSE phase

UrlKeys == {"idle", "analyzing", "tracking"}

\* submitting: the buttons of the preview are disabled.
Submitting == \E i \in Jobs : job[i].status = "asked" /\ job[i].by = "flow"

TypeOK ==
    /\ account \in BOOLEAN /\ guestUsed \in BOOLEAN /\ open \in BOOLEAN
    /\ pendingUrl \in Urls \cup {None}
    /\ job \in [Jobs -> [status : {"none", "asked", "live", "gone"}
                                  \cup Terminal,
                         by : {"flow", "left", "lost", "other"},
                         url : Urls \cup {None}]]
    /\ initial \in Urls \cup {None}
    /\ phase \in Phase
    /\ result \in Urls \cup {None} /\ url \in Urls \cup {None}
    /\ phase = "preview" => result # None
    /\ jobId \in Jobs \cup {0}
    /\ phase = "tracking" =>
          jobId # 0 /\ job[jobId].status \in {"live", "gone", "done", "failed"}
    /\ shown \in Phase \cup {"job"}
    /\ card \in [text : Urls \cup {None}, armed : BOOLEAN,
                 last : Urls \cup {None}, user : BOOLEAN]
    /\ card.armed => card.text # None /\ card.text # card.last
    /\ card.user => card.armed
    /\ shown \notin UrlKeys => card = NoCard
    /\ calls \in [Urls -> 0..MaxCalls]

NoCalls == [u \in Urls |-> 0]

\* A tab of a visitor that has come to the page for the first time, or has an
\* account and a session.
Init ==
    /\ account \in BOOLEAN
    /\ guestUsed = FALSE /\ pendingUrl = None
    /\ job = [i \in Jobs |-> NoJob]
    /\ open = TRUE
    /\ initial = None
    /\ phase = "idle" /\ result = None /\ url = None /\ jobId = 0
    /\ shown = "idle" /\ card = NoCard /\ calls = NoCalls

-----------------------------------------------------------------------------
(* Coming and going *)

Blank == /\ phase' = "idle" /\ result' = None /\ url' = None /\ jobId' = 0
         /\ shown' = "idle" /\ calls' = NoCalls

\* MainFlow mounts: the shared link, or else the pending one, becomes
\* initialUrl, and both are consumed.
Mount(shared, who) ==
    LET u == IF shared # None THEN shared ELSE pendingUrl
    IN  /\ open' = TRUE
        /\ initial' = u
        /\ pendingUrl' = None
        /\ card' = Mounted(u, who)
        /\ Blank

Return ==
    /\ ~open
    /\ Mount(None, account)
    /\ UNCHANGED <<account, guestUsed, job>>

\* The component is unmounted: answers of analyze find nobody, the answer of
\* createDownload is still handled.
Leave ==
    /\ open
    /\ open' = FALSE
    /\ initial' = None /\ card' = NoCard
    /\ Blank
    /\ job' = [i \in Jobs |-> IF job[i].by = "flow"
                              THEN [job[i] EXCEPT !.by = "left"] ELSE job[i]]
    /\ UNCHANGED storeVars

\* The rows of the manager, when its provider is unmounted.
Forgotten == [i \in Jobs |-> IF job[i].status = "none" THEN NoJob ELSE Gone]

\* The page is loaded anew, by the browser or by a share (takeSharedUrl).
Load(shared) ==
    /\ Mount(shared, account)
    /\ job' = Forgotten
    /\ UNCHANGED <<account, guestUsed>>

\* The pages under /admin are outside the provider of the manager: its rows are lost.
\* handleDownload still waits for the answer of a request of the main page.
VisitAdmin ==
    /\ ~open /\ account
    /\ job' = [i \in Jobs |-> IF job[i].by \in {"left", "lost"}
                              THEN [job[i] EXCEPT !.by = "lost"] ELSE Forgotten[i]]
    /\ UNCHANGED <<storeVars, flowVars>>

\* LoginPage and RegisterPage go back to the main page, unless a temporary
\* password must be changed first.
Login ==
    /\ ~open /\ ~account
    /\ account' = TRUE
    /\ \/ Mount(None, TRUE)
       \/ UNCHANGED <<pendingUrl, flowVars>>
    /\ UNCHANGED <<guestUsed, job>>

\* logout, then navigate('/'), which changes nothing on the main page.  The
\* effect of MainFlow looks at the job on the screen again, without a user.
Logout ==
    /\ account
    /\ account' = FALSE
    /\ IF open THEN /\ guestUsed' = (\/ guestUsed
                                     \/ jobId # 0 /\ job[jobId].status = "done")
                    /\ UNCHANGED <<pendingUrl, flowVars>>
               ELSE Mount(None, FALSE) /\ UNCHANGED guestUsed
    /\ UNCHANGED job

-----------------------------------------------------------------------------
(* The URL card *)

\* The new card is mounted once the old one is out.
Morph ==
    /\ open
    /\ shown # Key
    /\ shown' = Key
    /\ card' = IF Key \in UrlKeys THEN Mounted(initial, account) ELSE NoCard
    /\ UNCHANGED <<storeVars, job, open, initial, phase, result, url, jobId,
                   calls>>

\* Typing or pasting (None: what does not look like a URL).
TypeUrl(u) ==
    /\ open
    /\ shown \in UrlKeys
    /\ u # card.text
    /\ LET arm == u # None /\ u # card.last
       IN  card' = [card EXCEPT !.text = u, !.armed = arm, !.user = arm /\ account]
    /\ UNCHANGED <<storeVars, job, open, initial, phase, result, url, jobId,
                   shown, calls>>

\* Faulty variant: a blocked link is not kept for later.
HandleSubmitUrlDropped(u, who) ==
    /\ url' = u
    /\ IF ~who /\ guestUsed
       THEN /\ phase' = "guest-blocked"
            /\ UNCHANGED calls
       ELSE /\ phase' = "analyzing"
            /\ calls' = [calls EXCEPT ![u] = @ + 1]
    /\ UNCHANGED pendingUrl

HandleSubmitUrl(u, who) ==
    /\ url' = u
    /\ IF ~who /\ guestUsed
       THEN /\ pendingUrl' = u
            /\ phase' = "guest-blocked"
            /\ UNCHANGED calls
       ELSE /\ phase' = "analyzing"
            /\ calls' = [calls EXCEPT ![u] = @ + 1]
            /\ UNCHANGED pendingUrl

TimerFires ==
    /\ card.armed
    /\ calls[card.text] < MaxCalls
    /\ card' = [card EXCEPT !.armed = FALSE, !.last = card.text, !.user = FALSE]
    /\ HandleSubmitUrl(card.text, card.user)
    /\ UNCHANGED <<account, guestUsed, job, open, initial, result, jobId, shown>>

\* The answers of analyze, in any order.
AnalyzeOk(u) ==
    /\ calls[u] > 0
    /\ calls' = [calls EXCEPT ![u] = @ - 1]
    /\ result' = u
    /\ phase' = "preview"
    /\ UNCHANGED <<storeVars, job, open, initial, url, jobId, shown, card>>

\* Faulty variant: the spinner is not stopped.
AnalyzeFailsSilently(u) ==
    /\ calls[u] > 0
    /\ calls' = [calls EXCEPT ![u] = @ - 1]
    /\ UNCHANGED <<storeVars, job, open, initial, phase, result, url, jobId,
                   shown, card>>

AnalyzeFails(u) ==
    /\ calls[u] > 0
    /\ calls' = [calls EXCEPT ![u] = @ - 1]
    /\ phase' = "idle"
    /\ UNCHANGED <<storeVars, job, open, initial, result, url, jobId, shown,
                   card>>

-----------------------------------------------------------------------------
(* createDownload: from the preview, the drawer or the history *)

Ask(i, by, u) ==
    /\ job[i].status = "none"
    /\ \A k \in Jobs : k < i => job[k].status # "none"
    /\ job' = [job EXCEPT ![i] = [status |-> "asked", by |-> by, url |-> u]]

Download(i) ==
    /\ open
    /\ shown = "preview" /\ Key = "preview"
    /\ ~Submitting
    /\ Ask(i, "flow", url)
    /\ UNCHANGED <<storeVars, flowVars>>

\* retelecharger, on the page of the history.
AskAgain(i, u) ==
    /\ ~open /\ account
    /\ Ask(i, "other", u)
    /\ UNCHANGED <<storeVars, flowVars>>

SetPhase(p) == phase' = p

\* trackJob, and for the main page the job becomes that of the block.  The
\* trackJob of a manager that is gone keeps no row.
CreateOk(i) ==
    /\ job[i].status = "asked"
    /\ job' = [job EXCEPT ![i] =
                  IF @.by = "lost" THEN Gone
                  ELSE [@ EXCEPT !.status = "live", !.by = "other"]]
    /\ IF job[i].by = "flow" THEN jobId' = i /\ SetPhase("tracking")
                             ELSE UNCHANGED <<jobId, phase>>
    /\ UNCHANGED <<storeVars, open, initial, result, url, shown, card, calls>>

Refused(i) ==
    /\ job[i].status = "asked"
    /\ job' = [job EXCEPT ![i] = Gone]

\* guest_limit_reached: the visitor has no account, or the session is over.  The
\* link and the mark are stored even when page and manager are gone.
\* The drawer and the history do not look at the code of the error.
CreateLimited(i) ==
    /\ Refused(i)
    /\ job[i].by # "other"
    /\ guestUsed' = TRUE
    /\ pendingUrl' = job[i].url
    /\ IF job[i].by = "flow" THEN SetPhase("guest-blocked") ELSE UNCHANGED phase
    /\ UNCHANGED <<account, open, initial, result, url, jobId, shown, card,
                   calls>>

\* A toast, or nothing at all.
CreateFails(i) ==
    /\ Refused(i)
    /\ UNCHANGED <<storeVars, flowVars>>

-----------------------------------------------------------------------------
(* The tracked jobs *)

ResetToIdle == phase' = "idle" /\ result' = None /\ jobId' = 0

\* A last event of the stream, and the effects of MainFlow on the job it shows: a
\* guest's download that is done is remembered, and a job that was cancelled
\* or has expired leaves the block.
JobEvent(i, s) ==
    /\ job[i].status = "live"
    /\ s \in Terminal
    /\ job' = [job EXCEPT ![i].status = s,
                          ![i].url = IF s = "failed" THEN @ ELSE None]
    /\ guestUsed' = (\/ guestUsed
                     \/ open /\ jobId = i /\ s = "done" /\ ~account)
    /\ IF open /\ jobId = i /\ s = "over" THEN ResetToIdle
       ELSE UNCHANGED <<phase, result, jobId>>
    /\ UNCHANGED <<account, pendingUrl, open, initial, url, shown, card, calls>>

OnJobCard == open /\ shown = "job" /\ Key = "job"

\* "new link" under the progress, "restart" under a finished job, "change the
\* URL" under an error.
NewLink ==
    /\ OnJobCard
    /\ ResetToIdle
    /\ UNCHANGED <<storeVars, job, open, initial, url, shown, card, calls>>

\* "retry" under an error goes back to the preview, when there is one.
ErrorRetry ==
    /\ OnJobCard
    /\ job[jobId].status = "failed"
    /\ result # None
    /\ SetPhase("preview")
    /\ UNCHANGED <<storeVars, job, open, initial, result, url, jobId, shown,
                   card, calls>>

DrawerRemove(i) ==
    /\ job[i].status \in Terminal
    /\ job' = [job EXCEPT ![i] = Gone]
    /\ UNCHANGED <<storeVars, flowVars>>

\* The row is removed before the new request is made.
DrawerRetry(i, k) ==
    /\ job[i].status = "failed"
    /\ job[k].status = "none"
    /\ \A n \in Jobs : n < k => job[n].status # "none"
    /\ job' = [job EXCEPT ![i] = Gone,
                          ![k] = [status |-> "asked", by |-> "other",
                                  url |-> job[i].url]]
    /\ UNCHANGED <<storeVars, flowVars>>

-----------------------------------------------------------------------------

Visit == \/ Return \/ Leave \/ VisitAdmin \/ Login \/ Logout
         \/ \E u \in Urls \cup {None} : Load(u)

CardStep == \/ Morph \/ TimerFires
            \/ \E u \in Urls \cup {None} : TypeUrl(u)

Answer(u) == AnalyzeOk(u) \/ AnalyzeFails(u)

JobStep(i) == \/ Download(i)
              \/ \E u \in Urls : AskAgain(i, u)
              \/ CreateOk(i)
              \/ CreateLimited(i)
              \/ CreateFails(i)
              \/ \E s \in Terminal : JobEvent(i, s)
              \/ DrawerRemove(i)
              \/ \E k \in Jobs : DrawerRetry(i, k)

Next == \/ Visit
        \/ CardStep
        \/ \E u \in Urls : Answer(u)
        \/ \E i \in Jobs : JobStep(i)
        \/ NewLink
        \/ ErrorRetry

Spec == Init /\ [][Next]_vars

\* The timer of the URL card is a setTimeout: it fires.
FairSpec == Spec /\ WF_vars(TimerFires)

-----------------------------------------------------------------------------
(* Properties *)

\* The block never says that it analyses when no answer will come: whatever
\* was typed, resumed or left meanwhile, a call is in flight.
AnalyzingHasCall == phase = "analyzing" => \E u \in Urls : calls[u] > 0

\* A visitor who is shown the invitation stays a known guest of this browser,
\* and the link is kept for after the login.
BlockedIsKept ==
    phase = "guest-blocked" => guestUsed /\ pendingUrl # None

\* One click, one job: the page never has two requests in flight.
OneCreateAtATime ==
    Cardinality({i \in Jobs : job[i].status = "asked" /\ job[i].by = "flow"}) <= 1

\* What the page and its requests agree on, in every well-formed state: a spinner
\* has its analysis in flight, and the button one request at a time.
PageHasItsCalls == TypeOK /\ AnalyzingHasCall /\ OneCreateAtATime

\* The link that was kept or shared is submitted without a click ("reprise de
\* l'URL en attente"), unless the visitor edits it or goes elsewhere.
ResumeWorks ==
    \A u \in Urls :
        (open /\ initial = u /\ url = None)
            ~> (url # None \/ initial # u \/ card.text # u)

=============================================================================
