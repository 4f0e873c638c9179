------------------------------- MODULE JobCards --------------------------------
(***************************************************************************)
(* One download as the tab shows it, from the choice of its options to the *)
(* end of its link: PreviewCard, the row of DownloadManagerContext and its *)
(* stream (downloadEvents.ts), ProgressCard, DoneCard, the buttons of the  *)
(* drawer and of the history, the toasts and the notification.             *)
(*                                                                         *)
(* The server is what the stream shows of it.  MainFlow, a module of its   *)
(* own, has the phases of the page; here the block shows the preview, the  *)
(* job, or something else ("away").  The time of a day is not needed: a    *)
(* row knows how long it has been done.                                    *)
(***************************************************************************)
EXTENDS Integers, Sequences, FiniteSets, SequencesExt

CONSTANTS Results,    \* analyses: videos, whether there is audio, subtitles
          NoFormat,   \* no video format: the empty string, or undefined
          Ttl,        \* FILE_TTL_SECONDS, in units of time
          MaxBytes,   \* bound: bytes of a download
          MaxWire,    \* bound: events on their way
          MaxToasts   \* bound: toasts that are ever shown

ASSUME CardBounds ==
    /\ {Ttl, MaxBytes, MaxWire, MaxToasts} \subseteq Nat \ {0}
    /\ \A r \in Results : /\ r.videos \in Seq(Range(r.videos))
                          /\ NoFormat \notin Range(r.videos)

VARIABLES
  main,      \* the central block: "preview", "job", "away"
  result, video, langs, late,   \* PreviewCard; late: the result was replaced
  create,    \* the call of createDownload in flight
  job,       \* the job on the server
  link, wire,                   \* the EventSource and the events on their way
  row,       \* the row of the manager; since: time since doneAt;
             \* mine: jobId of the main page, whatever it shows, is this one
  left,      \* remaining, of DoneCard
  told,      \* notifications for this job
  perm, cancelling,
  toasts, timers, shownToasts

previewVars == <<result, video, langs, late>>
streamVars  == <<job, link, wire>>
rowVars     == <<row, left, told>>
toastVars   == <<toasts, timers, shownToasts>>
vars == <<main, previewVars, create, streamVars, rowVars, perm, cancelling, toastVars>>

Active   == {"queued", "downloading", "processing"}
Terminal == {"done", "failed", "cancelled", "expired"}

\* A job, an event of its stream, and what the row keeps of them.
NoJob == [st |-> "none", pos |-> 0, bytes |-> 0, total |-> 0]
NoRow == [st |-> "none", pos |-> 0, bytes |-> 0, total |-> 0, since |-> 0, mine |-> FALSE]
NoResult == [videos |-> <<>>, audio |-> FALSE, subs |-> {}]
NoCreate == [by |-> "none", mode |-> "video", format |-> NoFormat, langs |-> {}]

Videos == UNION {Range(r.videos) : r \in Results}
Subs   == UNION {r.subs : r \in Results}

TypeOK ==
    /\ main \in {"preview", "job", "away"} /\ result \in Results \cup {NoResult}
    /\ video \in Videos \cup {NoFormat} /\ langs \subseteq Subs
    /\ create \in [by : {"none", "flow", "left", "drawer", "history"},
                   mode : {"video", "audio", "subtitles"},
                   format : Videos \cup {NoFormat}, langs : SUBSET Subs]
    /\ link \in {"closed", "open", "down"} /\ Len(wire) <= MaxWire
    /\ row.st \in {"none"} \cup Active \cup Terminal /\ row.since \in 0..Ttl
    /\ main = "job" => row.mine
    /\ left \in 0..Ttl /\ told \in Nat
    /\ perm \in {"unasked", "granted", "denied"} /\ cancelling \in BOOLEAN

-----------------------------------------------------------------------------
(* Toasts: each has an id and a timer of 5 seconds.  n counts them. *)

\* Faulty variant: the id of a toast that was closed is used again.
NextIdReused == Cardinality(toasts) + 1
NextId == shownToasts + 1

NewToast == [id |-> NextId, n |-> shownToasts + 1]

ShowToast ==
    /\ shownToasts < MaxToasts
    /\ toasts' = toasts \cup {NewToast}
    /\ timers' = timers \cup {NewToast}
    /\ shownToasts' = shownToasts + 1

\* dismissToast.
Without(id) == {t \in toasts : t.id # id}

CloseToast(t) ==
    /\ t \in toasts
    /\ toasts' = Without(t.id)
    /\ UNCHANGED <<main, previewVars, create, streamVars, rowVars, perm,
                   cancelling, timers, shownToasts>>

ToastTimer(t) ==
    /\ t \in timers
    /\ timers' = timers \ {t}
    /\ toasts' = Without(t.id)
    /\ UNCHANGED <<main, previewVars, create, streamVars, rowVars, perm,
                   cancelling, shownToasts>>

-----------------------------------------------------------------------------
(* The preview *)

\* The last format of the list is the best one.
Best(r) == IF r.videos = <<>> THEN NoFormat ELSE Last(r.videos)

\* Faulty variant: the field of the quality starts empty.
FirstChoiceEmpty(r) == NoFormat
FirstChoice(r) == Best(r)

\* selectedVideo: its weight is the one on the card.
Selected == IF video \in Range(result.videos) THEN video ELSE Best(result)

\* The card mounts with the first answer, and its choices go with it.
Previewed(r) ==
    /\ main' = "preview"
    /\ result' = r /\ video' = FirstChoice(r) /\ langs' = {} /\ late' = FALSE

Unpreviewed(m, r) ==
    /\ main' = m
    /\ result' = r /\ video' = NoFormat /\ langs' = {} /\ late' = FALSE

Init ==
    /\ main = "preview"
    /\ result \in Results /\ video = FirstChoice(result) /\ langs = {} /\ late = FALSE
    /\ create = NoCreate /\ job = NoJob /\ link = "closed" /\ wire = <<>>
    /\ row = NoRow /\ left = Ttl /\ told = 0
    /\ perm = "unasked" /\ cancelling = FALSE
    /\ toasts = {} /\ timers = {} /\ shownToasts = 0

OnPreview == main = "preview" /\ create.by # "flow"

ChooseVideo(f) ==
    /\ main = "preview" /\ f \in Range(result.videos)
    /\ video' = f
    /\ UNCHANGED <<main, result, langs, late, create, streamVars, rowVars, perm,
                   cancelling, toastVars>>

ToggleSubtitle(l) ==
    /\ main = "preview" /\ l \in result.subs
    /\ langs' = IF l \in langs THEN langs \ {l} ELSE langs \cup {l}
    /\ UNCHANGED <<main, result, video, late, create, streamVars, rowVars, perm,
                   cancelling, toastVars>>

\* The answer of another analysis: the card stays mounted, with its choices.
LateAnswer(r) ==
    /\ main = "preview" /\ r # result
    /\ result' = r /\ late' = TRUE
    /\ UNCHANGED <<main, video, langs, create, streamVars, rowVars, perm,
                   cancelling, toastVars>>

\* createDownload; the row of an earlier job has been removed.
Request(c) ==
    /\ create = NoCreate /\ row.st = "none"
    /\ create' = c
    /\ UNCHANGED <<main, previewVars, streamVars, rowVars, perm, cancelling, toastVars>>

ClickVideo ==
    OnPreview /\ Request([NoCreate EXCEPT !.by = "flow", !.format = video])
ClickAudio ==
    /\ OnPreview /\ result.audio
    /\ Request([NoCreate EXCEPT !.by = "flow", !.mode = "audio"])
ClickSubtitles ==
    /\ OnPreview /\ langs # {}
    /\ Request([NoCreate EXCEPT !.by = "flow", !.mode = "subtitles", !.langs = langs])

\* retelecharger, on another page: the link and the mode.
ClickAgain ==
    /\ main = "away"
    /\ \E m \in {"video", "audio"} :
          Request([NoCreate EXCEPT !.by = "history", !.mode = m])

-----------------------------------------------------------------------------
(* The answer of createDownload *)

Tracked(pos) ==
    [NoRow EXCEPT !.st = IF pos > 0 THEN "queued" ELSE "downloading", !.pos = pos,
                  !.mine = (create.by = "flow")]

\* trackJob; the main page asks for the permission once per session.
CreateOk ==
    /\ create # NoCreate
    /\ \E pos \in 0..1 : /\ row' = Tracked(pos)
                         /\ job' = [NoJob EXCEPT !.st = "queued", !.pos = pos]
    /\ link' = "down" /\ wire' = <<>> /\ told' = 0 /\ left' = Ttl
    /\ create' = NoCreate
    /\ IF create.by = "flow" THEN Unpreviewed("job", result)
                             ELSE UNCHANGED <<main, previewVars>>
    /\ IF create.by \in {"flow", "left"} /\ perm = "unasked"
       THEN perm' \in {"granted", "denied"} ELSE UNCHANGED perm
    /\ IF create.by = "history" THEN ShowToast ELSE UNCHANGED toastVars
    /\ UNCHANGED cancelling

\* A toast, or the invitation to a visitor who has had the one download.  The
\* drawer says nothing when a retry fails, and its row is gone.
CreateFails ==
    /\ create # NoCreate
    /\ create' = NoCreate
    /\ \/ create.by # "drawer" /\ ShowToast /\ UNCHANGED <<main, previewVars>>
       \/ create.by = "flow" /\ Unpreviewed("away", result) /\ UNCHANGED toastVars
       \/ create.by \in {"left", "drawer"} /\ UNCHANGED <<main, previewVars, toastVars>>
    /\ UNCHANGED <<streamVars, rowVars, perm, cancelling>>

-----------------------------------------------------------------------------
(* The job and its stream *)

\* The server goes on and publishes; nothing is published when a file expires.
Goes(j, e) ==
    /\ Len(wire) < MaxWire
    /\ job' = j
    /\ wire' = IF link = "open" /\ e THEN Append(wire, j) ELSE wire
    /\ UNCHANGED <<main, previewVars, create, link, rowVars, perm, cancelling, toastVars>>

ServerWorks ==
    \/ job.st = "queued" /\ job.pos > 0 /\ Goes([job EXCEPT !.pos = 0], FALSE)
    \/ job.st = "queued" /\ Goes([job EXCEPT !.st = "downloading"], TRUE)
    \* the picture is followed by the sound; the total is an estimate, or unknown
    \/ /\ job.st \in {"downloading", "processing"} /\ job.bytes < MaxBytes
       /\ \E n \in 0..(MaxBytes - 1) :
             Goes([job EXCEPT !.st = "downloading", !.bytes = @ + 1, !.total = n], TRUE)
    \/ job.st = "downloading" /\ Goes([NoJob EXCEPT !.st = "processing"], TRUE)
    \/ job.st = "processing" /\ Goes([job EXCEPT !.st = "done"], TRUE)
    \/ job.st \in {"downloading", "processing"} /\ Goes([NoJob EXCEPT !.st = "failed"], TRUE)
    \* a flag is noticed, or another tab has cancelled
    \/ job.st \in {"queued", "downloading"} /\ Goes([NoJob EXCEPT !.st = "cancelled"], TRUE)
    \/ job.st = "done" /\ Goes([job EXCEPT !.st = "expired"], FALSE)

\* The browser connects, and connects again: first comes the stored state, which
\* has no bytes and knows no processing.  That what is published before the
\* subscription is lost is a subject of DownloadQueue.
Connect ==
    /\ link = "down"
    /\ link' = "open"
    /\ wire' = <<[job EXCEPT !.st = IF @ = "processing" THEN "downloading" ELSE @,
                             !.bytes = 0, !.total = 0]>>
    /\ UNCHANGED <<main, previewVars, create, job, rowVars, perm, cancelling, toastVars>>

Break ==
    /\ link = "open"
    /\ link' = "down" /\ wire' = <<>>
    /\ UNCHANGED <<main, previewVars, create, job, rowVars, perm, cancelling, toastVars>>

\* patchJob.  An event without bytes leaves those of the row; they are shown no
\* more when it has ended.
Patched(e) ==
    IF e.st \in Terminal THEN [NoRow EXCEPT !.st = e.st, !.mine = row.mine] ELSE
    [row EXCEPT !.st = e.st,
                !.pos = IF e.st = "queued" THEN e.pos ELSE @,
                !.bytes = IF e.st = "downloading" /\ e.bytes > 0 THEN e.bytes ELSE @,
                !.total = IF e.st = "downloading" /\ e.bytes > 0 THEN e.total ELSE @]

\* Faulty variant: the connection is left to the server, which ends it.
AfterEventOpen(e) == IF e.st \in Terminal THEN "down" ELSE link

\* A last event closes the connection.
AfterEvent(e) == IF e.st \in Terminal THEN "closed" ELSE link

\* onJobDone notifies when the tab is hidden and may notify.  A job of the main
\* page that was cancelled or has expired takes the block back to the URL card,
\* whatever it shows.
Deliver ==
    /\ wire # <<>>
    /\ LET e == Head(wire)
       IN  /\ row' = Patched(e)
           /\ link' = AfterEvent(e)
           /\ wire' = IF e.st \in Terminal THEN <<>> ELSE Tail(wire)
           /\ told' \in {told} \cup (IF e.st = "done" /\ perm = "granted"
                                     THEN {told + 1} ELSE {})
           /\ left' = IF e.st = "done" THEN Ttl ELSE left
           /\ IF row.mine /\ e.st \in {"cancelled", "expired"}
              THEN Unpreviewed("away", NoResult) ELSE UNCHANGED <<main, previewVars>>
    /\ UNCHANGED <<create, job, perm, cancelling, toastVars>>

-----------------------------------------------------------------------------
(* The cards and the drawer *)

\* Of a row whose total is known.  The drawer does without the minimum.
Percent(r) == Min({100, (r.bytes * 100) \div r.total})

\* Faulty variant: the row is cancelled at once.
ClickCancelNow ==
    /\ row.st \in Active /\ ~cancelling
    /\ cancelling' = TRUE /\ row' = [row EXCEPT !.st = "cancelled"]
    /\ UNCHANGED <<main, previewVars, create, streamVars, left, told, perm, toastVars>>

\* cancelJob, of the progress card and of the drawer; bound: one at a time.
ClickCancel ==
    /\ row.st \in Active /\ ~cancelling
    /\ cancelling' = TRUE
    /\ UNCHANGED <<main, previewVars, create, streamVars, rowVars, perm, toastVars>>

\* A waiting job is cancelled; a flag is raised for one that runs, which may
\* notice it or end otherwise.  The row waits for the event.
CancelOk ==
    /\ cancelling /\ job.st \in Active /\ Len(wire) < MaxWire
    /\ IF job.st = "queued"
       THEN /\ job' = [NoJob EXCEPT !.st = "cancelled"]
            /\ wire' = IF link = "open" THEN Append(wire, job') ELSE wire
       ELSE UNCHANGED <<job, wire>>
    /\ cancelling' = FALSE
    /\ UNCHANGED <<main, previewVars, create, link, rowVars, perm, toastVars>>

\* Too late, or lost: a toast.
CancelFails ==
    /\ cancelling /\ cancelling' = FALSE
    /\ ShowToast
    /\ UNCHANGED <<main, previewVars, create, streamVars, rowVars, perm>>

\* removeJob; a block that shows the row falls back on the URL card.
Removed == row' = NoRow /\ job' = NoJob /\ told' = 0 /\ left' = Ttl
           /\ link' = "closed" /\ wire' = <<>>

\* "remove" and, for a job that failed, "retry": the row goes first, and the
\* request has the link and the mode only.
DrawerRemove ==
    /\ row.st \in Terminal /\ create = NoCreate
    /\ Removed
    /\ \/ UNCHANGED create
       \/ row.st = "failed" /\ create' = [NoCreate EXCEPT !.by = "drawer"]
    /\ main' = IF main = "job" THEN "away" ELSE main
    /\ UNCHANGED <<previewVars, perm, cancelling, toastVars>>

\* "new link", "change the URL", or another page, where nobody waits for the
\* request; and the error of another analysis, which shows the URL card.
GoAway ==
    /\ main # "away"
    /\ \/ /\ Unpreviewed("away", NoResult)
          /\ create' = [create EXCEPT !.by = IF @ = "flow" THEN "left" ELSE @]
          /\ row' = [row EXCEPT !.mine = FALSE]
       \/ Unpreviewed("away", result) /\ UNCHANGED <<create, row>>
    /\ UNCHANGED <<streamVars, left, told, perm, cancelling, toastVars>>

\* An analysis is answered; on the error card, "retry" shows the last one.
Analyse ==
    /\ main # "preview"
    /\ \/ \E r \in Results : Previewed(r)
       \/ main = "job" /\ row.st = "failed" /\ result # NoResult /\ Previewed(result)
    /\ UNCHANGED <<create, streamVars, rowVars, perm, cancelling, toastVars>>

OnDoneCard == main = "job" /\ row.st = "done"

Second ==
    /\ row.st = "done" /\ row.since < Ttl
    /\ row' = [row EXCEPT !.since = @ + 1]
    /\ UNCHANGED <<main, previewVars, create, streamVars, left, told, perm,
                   cancelling, toastVars>>

\* Faulty variant: the countdown is computed when the card mounts, and never again.
TickNever == FALSE /\ UNCHANGED vars

\* The interval of the card: what is left is computed from doneAt.
Tick ==
    /\ OnDoneCard /\ left # Ttl - row.since
    /\ left' = Ttl - row.since
    /\ UNCHANGED <<main, previewVars, create, streamVars, row, told, perm,
                   cancelling, toastVars>>

-----------------------------------------------------------------------------

Next ==
    \/ \E t \in toasts : CloseToast(t)
    \/ \E t \in timers : ToastTimer(t)
    \/ \E f \in Videos : ChooseVideo(f)
    \/ \E l \in Subs : ToggleSubtitle(l)
    \/ \E r \in Results : LateAnswer(r)
    \/ ClickVideo \/ ClickAudio \/ ClickSubtitles \/ ClickAgain
    \/ CreateOk \/ CreateFails
    \/ ServerWorks \/ Connect \/ Break \/ Deliver
    \/ ClickCancel \/ CancelOk \/ CancelFails
    \/ DrawerRemove \/ GoAway \/ Analyse \/ Second \/ Tick

\* Time passes, and the interval of the card fires.
Fairness == WF_vars(Second \/ Tick)

Spec == Init /\ [][Next]_vars /\ Fairness

-----------------------------------------------------------------------------
(* Properties *)

\* A row that has ended keeps its end until it is removed: neither a late event,
\* nor the connection that EventSource would open again, nor a refused
\* cancellation turns it into something else.
EndedRowStays ==
    [][row.st \in Terminal => row'.st \in {row.st, "none"}]_vars

\* A job that is done is notified once, however often its stream is cut.
NotifiedOnce == told <= 1

\* The bar of the progress never leaves its track, although the total is an
\* estimate that the bytes may pass.
BarFits == row.st = "downloading" /\ row.total > 0 => Percent(row) \in 0..100

\* The row of a job, in every well-formed state: told of once, and a bar that
\* fits.
RowIsSound == TypeOK /\ NotifiedOnce /\ BarFits

\* A toast goes by its own timer or by a click on it, and takes no other along:
\* the timer of a toast that was closed early hits nothing.
ToastsLeaveAlone ==
    [][LET gone == toasts \ toasts'
       IN  /\ Cardinality(gone) <= 1
           /\ timers \subseteq timers' \/ gone \subseteq timers \ timers']_vars

\* The card of a finished job stops offering its link in the end.
OfferEnds == OnDoneCard ~> (left = 0 \/ ~OnDoneCard)

\* What the page asks for is what the card shows when the button is clicked: the
\* video whose weight it gives, sound and languages that the link has.  The
\* exception is a result that was replaced under the card, which keeps the choices
\* of the one before.
SentIsShown ==
    [][create = NoCreate /\ create'.by = "flow" /\ ~late =>
         CASE create'.mode = "video" -> create'.format = Selected
           [] create'.mode = "audio" -> result.audio
           [] create'.mode = "subtitles" ->
                  create'.langs # {} /\ create'.langs \subseteq result.subs]_vars

=============================================================================
