---------------------------- MODULE JobCardsProofs ----------------------------
(***************************************************************************)
(* Theorems about JobCards, for every set of analyses, every time to live  *)
(* and every number of bytes, of events on their way and of toasts.        *)
(***************************************************************************)
EXTENDS JobCards, FiniteSetTheorems, SequenceTheorems, TLAPS

-----------------------------------------------------------------------------
(* The inductive invariant *)

States  == Active \cup Terminal
Events  == [st : States, pos : 0..1, bytes : Nat, total : Nat]
JobSet  == [st : States \cup {"none"}, pos : 0..1, bytes : Nat, total : Nat]
RowSet  == [st : States \cup {"none"}, pos : 0..1, bytes : Nat, total : Nat,
            since : 0..Ttl, mine : BOOLEAN]
Creates == [by : {"none", "flow", "left", "drawer", "history"},
            mode : {"video", "audio", "subtitles"},
            format : Videos \cup {NoFormat}, langs : SUBSET Subs]

\* The choices of the card come from its result, unless that was replaced.
ChoicesFit ==
    main = "preview" /\ ~late =>
        /\ video \in Range(result.videos) \cup {Best(result)}
        /\ langs \subseteq result.subs

\* The card: the part of the state that nothing but the page changes.
CardInv ==
    /\ main \in {"preview", "job", "away"} /\ result \in Results \cup {NoResult}
    /\ video \in Videos \cup {NoFormat} /\ langs \subseteq Subs
    /\ create \in Creates
    /\ ChoicesFit

\* Without a row there is no job and no stream.
NoRowNoJob ==
    /\ row.st = "none" => ~row.mine /\ job.st = "none" /\ link = "closed"
    /\ row.st # "none" => job.st # "none"

\* Only an open connection brings events, and the last one closes it: a row that
\* has ended hears nothing more, and one that has not was never told of.
StreamEnds ==
    /\ link # "open" => wire = <<>>
    /\ row.st \in Terminal => link = "closed"
    /\ row.st \notin Terminal => told = 0

\* The job, its stream and its row.
StreamInv ==
    /\ job \in JobSet /\ row \in RowSet
    /\ link \in {"closed", "open", "down"}
    /\ wire \in Seq(Events) /\ Len(wire) <= MaxWire
    /\ left \in 0..Ttl /\ told \in {0, 1}
    /\ NoRowNoJob /\ StreamEnds

\* A request in flight has no row yet, and the block shows a job that is its own.
PageHasRow ==
    /\ create # NoCreate => row.st = "none"
    /\ main = "job" => row.mine

\* No two toasts have one id, and a toast yet to come has another.
ToastIds ==
    /\ shownToasts \in Nat
    /\ \A t \in toasts \cup timers :
          t.id \in 1..shownToasts /\ t = [id |-> t.id, n |-> t.id]

IInv == /\ CardInv /\ StreamInv /\ PageHasRow /\ ToastIds
        /\ perm \in {"unasked", "granted", "denied"} /\ cancelling \in BOOLEAN

-----------------------------------------------------------------------------
(* Facts about the data *)

LEMMA BoundsFacts ==
    /\ Ttl \in Nat \ {0} /\ MaxBytes \in Nat \ {0}
    /\ MaxWire \in Nat \ {0} /\ MaxToasts \in Nat \ {0}
BY CardBounds

LEMMA NoneFacts ==
    /\ NoJob \in JobSet /\ NoJob.st = "none"
    /\ NoRow \in RowSet /\ NoRow.st = "none" /\ ~NoRow.mine
    /\ NoCreate \in Creates /\ NoCreate.by = "none"
<1>1. NoJob \in JobSet /\ NoJob.st = "none"
  BY DEF NoJob, JobSet
<1>2. NoRow \in RowSet /\ NoRow.st = "none" /\ ~NoRow.mine
  BY BoundsFacts DEF NoRow, RowSet
<1>3. NoCreate \in Creates /\ NoCreate.by = "none"
  BY DEF NoCreate, Creates
<1>4. QED
  BY <1>1, <1>2, <1>3

LEMMA BestFacts ==
    ASSUME NEW r \in Results \cup {NoResult}
    PROVE  /\ Range(r.videos) \subseteq Videos
           /\ NoFormat \notin Range(r.videos)
           /\ Best(r) \in Range(r.videos) \cup {NoFormat}
           /\ Best(r) \in Videos \cup {NoFormat}
           /\ Best(r) = NoFormat => Range(r.videos) = {}
           /\ r.subs \subseteq Subs
<1>1. CASE r = NoResult
  <2>1. r.videos = <<>> /\ r.subs = {}
    BY <1>1 DEF NoResult
  <2>2. Range(r.videos) = {}
    BY <2>1 DEF Range
  <2>3. QED
    BY <2>1, <2>2 DEF Best
<1>2. CASE r \in Results
  <2>1. /\ r.videos \in Seq(Range(r.videos)) /\ NoFormat \notin Range(r.videos)
        /\ Range(r.videos) \subseteq Videos /\ r.subs \subseteq Subs
    BY <1>2, CardBounds DEF Videos, Subs
  <2>2. CASE r.videos = <<>>
    <3>1. Range(r.videos) = {}
      BY <2>2 DEF Range
    <3>2. QED
      BY <2>1, <2>2, <3>1 DEF Best
  <2>3. CASE r.videos # <<>>
    <3>1. Last(r.videos) \in Range(r.videos)
      BY <2>1, <2>3 DEF Last, Range
    <3>2. QED
      BY <2>1, <2>3, <3>1 DEF Best
  <2>4. QED
    BY <2>2, <2>3
<1>3. QED
  BY <1>1, <1>2

-----------------------------------------------------------------------------
(* Toasts *)

LEMMA ToastIdsStay ==
    ASSUME ToastIds, \/ ShowToast
                     \/ UNCHANGED toastVars
                     \/ /\ toasts' \subseteq toasts /\ timers' \subseteq timers
                        /\ shownToasts' = shownToasts
    PROVE  ToastIds'
<1>1. CASE ShowToast
  <2>1. NewToast.id = shownToasts + 1 /\ NewToast = [id |-> NewToast.id, n |-> NewToast.id]
    BY DEF NewToast, NextId
  <2>2. /\ toasts' = toasts \cup {NewToast} /\ timers' = timers \cup {NewToast}
        /\ shownToasts' = shownToasts + 1
    BY <1>1 DEF ShowToast
  <2> HIDE DEF NewToast
  <2>3. QED
    BY <2>1, <2>2 DEF ToastIds
<1>2. CASE UNCHANGED toastVars
  BY <1>2 DEF ToastIds, toastVars
<1>3. CASE /\ toasts' \subseteq toasts /\ timers' \subseteq timers
           /\ shownToasts' = shownToasts
  BY <1>3 DEF ToastIds
<1>4. QED
  BY <1>1, <1>2, <1>3

LEMMA ToastsKeep ==
    ASSUME IInv, \/ \E t \in toasts : CloseToast(t)
                 \/ \E t \in timers : ToastTimer(t)
    PROVE  IInv'
<1>1. /\ toasts' \subseteq toasts /\ timers' \subseteq timers
      /\ shownToasts' = shownToasts
  BY DEF CloseToast, ToastTimer, Without
<1>2. ToastIds'
  BY <1>1, ToastIdsStay DEF IInv
<1>3. UNCHANGED <<main, previewVars, create, streamVars, rowVars, perm, cancelling>>
  BY DEF CloseToast, ToastTimer
<1>4. CardInv' /\ StreamInv' /\ PageHasRow'
  BY <1>3 DEF IInv, CardInv, ChoicesFit, StreamInv, NoRowNoJob, StreamEnds,
              PageHasRow, previewVars, streamVars, rowVars
<1>5. perm' \in {"unasked", "granted", "denied"} /\ cancelling' \in BOOLEAN
  BY <1>3 DEF IInv
<1>6. QED
  BY <1>2, <1>4, <1>5 DEF IInv

-----------------------------------------------------------------------------
(* The stream *)

\* What the server does next appends at most the new state of the job.
LEMMA GoesKeeps ==
    ASSUME IInv, NEW j \in Events, NEW e, Goes(j, e), job.st # "none"
    PROVE  StreamInv'
<1>1. /\ Len(wire) < MaxWire /\ job' = j
      /\ wire' = IF link = "open" /\ e THEN Append(wire, j) ELSE wire
      /\ UNCHANGED <<link, row, left, told>>
  BY DEF Goes, rowVars
<1>2. j \in JobSet /\ j.st # "none"
  BY DEF JobSet, Events, States, Active, Terminal
<1>3. /\ wire' \in Seq(Events) /\ Len(wire') <= MaxWire
      /\ link # "open" => wire' = <<>>
  BY <1>1, BoundsFacts DEF IInv, StreamInv, StreamEnds
<1>4. NoRowNoJob'
  BY <1>1, <1>2 DEF IInv, StreamInv, NoRowNoJob
<1>5. StreamEnds'
  BY <1>1, <1>3 DEF IInv, StreamInv, StreamEnds
<1>6. QED
  BY <1>1, <1>2, <1>3, <1>4, <1>5 DEF IInv, StreamInv

\* Nothing but the server's job and its events changes.
LEMMA StreamOnly ==
    ASSUME IInv, StreamInv',
           UNCHANGED <<main, previewVars, create, row, perm, cancelling, toastVars>>
    PROVE  IInv'
<1>1. CardInv' /\ PageHasRow'
  BY DEF IInv, CardInv, ChoicesFit, PageHasRow, previewVars
<1>2. ToastIds'
  BY ToastIdsStay DEF IInv
<1>3. QED
  BY <1>1, <1>2 DEF IInv

LEMMA JobFields ==
    ASSUME IInv
    PROVE  /\ job.st \in States \cup {"none"} /\ job.pos \in 0..1
           /\ job.bytes \in Nat /\ job.total \in Nat
BY DEF IInv, StreamInv, JobSet

LEMMA ServerKeeps ==
    ASSUME IInv, ServerWorks
    PROVE  IInv'
<1> USE DEF States, Active, Terminal
<1>1. PICK j \in Events, e \in BOOLEAN : Goes(j, e) /\ job.st # "none"
  <2>1. CASE job.st = "queued" /\ Goes([job EXCEPT !.pos = 0], FALSE)
    <3>1. [job EXCEPT !.pos = 0] \in Events
      BY <2>1, JobFields DEF IInv, StreamInv, JobSet, Events
    <3>2. QED
      BY <2>1, <3>1
  <2>2. CASE job.st = "queued" /\ Goes([job EXCEPT !.st = "downloading"], TRUE)
    <3>1. [job EXCEPT !.st = "downloading"] \in Events
      BY <2>2, JobFields DEF IInv, StreamInv, JobSet, Events
    <3>2. QED
      BY <2>2, <3>1
  <2>3. CASE /\ job.st \in {"downloading", "processing"}
             /\ \E n \in 0..(MaxBytes - 1) :
                   Goes([job EXCEPT !.st = "downloading", !.bytes = @ + 1,
                                    !.total = n], TRUE)
    <3>1. PICK n \in 0..(MaxBytes - 1) :
             Goes([job EXCEPT !.st = "downloading", !.bytes = @ + 1,
                              !.total = n], TRUE)
      BY <2>3
    <3>2. n \in Nat /\ job.bytes + 1 \in Nat
      BY JobFields
    <3>3. [job EXCEPT !.st = "downloading", !.bytes = @ + 1, !.total = n] \in Events
      BY <3>2, JobFields DEF IInv, StreamInv, JobSet, Events
    <3>4. QED
      BY <2>3, <3>1, <3>3
  <2>4. CASE \/ job.st = "downloading" /\ Goes([NoJob EXCEPT !.st = "processing"], TRUE)
             \/ /\ job.st \in {"downloading", "processing"}
                /\ Goes([NoJob EXCEPT !.st = "failed"], TRUE)
             \/ /\ job.st \in {"queued", "downloading"}
                /\ Goes([NoJob EXCEPT !.st = "cancelled"], TRUE)
    <3>1. /\ [NoJob EXCEPT !.st = "processing"] \in Events
          /\ [NoJob EXCEPT !.st = "failed"] \in Events
          /\ [NoJob EXCEPT !.st = "cancelled"] \in Events
      BY DEF NoJob, Events
    <3>2. QED
      BY <2>4, <3>1
  <2>5. CASE job.st = "processing" /\ Goes([job EXCEPT !.st = "done"], TRUE)
    <3>1. [job EXCEPT !.st = "done"] \in Events
      BY <2>5, JobFields DEF IInv, StreamInv, JobSet, Events
    <3>2. QED
      BY <2>5, <3>1
  <2>6. CASE job.st = "done" /\ Goes([job EXCEPT !.st = "expired"], FALSE)
    <3>1. [job EXCEPT !.st = "expired"] \in Events
      BY <2>6, JobFields DEF IInv, StreamInv, JobSet, Events
    <3>2. QED
      BY <2>6, <3>1
  <2>7. QED
    BY <2>1, <2>2, <2>3, <2>4, <2>5, <2>6 DEF ServerWorks
<1>2. StreamInv'
  BY <1>1, GoesKeeps
<1>3. QED
  BY <1>1, <1>2, StreamOnly DEF Goes, rowVars

LEMMA LinkKeeps ==
    ASSUME IInv, Connect \/ Break
    PROVE  IInv'
<1>1. StreamInv'
  <2>1. CASE Break
    BY <2>1, BoundsFacts DEF IInv, StreamInv, NoRowNoJob, StreamEnds, Break, rowVars
  <2>2. CASE Connect
    <3> DEFINE st == IF job.st = "processing" THEN "downloading" ELSE job.st
               e  == [job EXCEPT !.st = st, !.bytes = 0, !.total = 0]
    <3>1. wire' = <<e>> /\ link' = "open" /\ UNCHANGED <<job, row, left, told>>
      BY <2>2 DEF Connect, rowVars
    <3>2. link = "down" /\ row.st # "none" /\ job.st # "none" /\ row.st \notin Terminal
      BY <2>2 DEF IInv, StreamInv, NoRowNoJob, StreamEnds, Connect
    <3>3. st \in States
      BY <3>2, JobFields DEF States, Active, Terminal
    <3> HIDE DEF st
    <3>4. e \in Events
      BY <3>3, JobFields DEF IInv, StreamInv, JobSet, Events
    <3> HIDE DEF e
    <3>5. wire' \in Seq(Events) /\ Len(wire') <= MaxWire
      BY <3>1, <3>4, BoundsFacts
    <3>6. NoRowNoJob' /\ StreamEnds'
      BY <3>1, <3>2 DEF IInv, StreamInv, NoRowNoJob, StreamEnds
    <3>7. QED
      BY <3>1, <3>5, <3>6 DEF IInv, StreamInv
  <2>3. QED
    BY <2>1, <2>2
<1>2. QED
  BY <1>1, StreamOnly DEF Connect, Break, rowVars

\* An event is only heard by a row that has not ended.
LEMMA EventFacts ==
    ASSUME IInv, wire # <<>>
    PROVE  /\ Head(wire) \in Events /\ Tail(wire) \in Seq(Events)
           /\ Len(Tail(wire)) <= MaxWire
           /\ link = "open" /\ row.st \in Active /\ job.st # "none" /\ told = 0
<1>1. wire \in Seq(Events) /\ Len(wire) <= MaxWire
  BY DEF IInv, StreamInv
<1>2. /\ Head(wire) \in Events /\ Tail(wire) \in Seq(Events)
      /\ Len(Tail(wire)) = Len(wire) - 1
  BY <1>1, HeadTailProperties
<1>3. Len(wire) \in Nat
  BY <1>1
<1>4. /\ link = "open" /\ row.st # "none" /\ row.st \notin Terminal
      /\ job.st # "none" /\ told = 0
  BY DEF IInv, StreamInv, NoRowNoJob, StreamEnds
<1>5. row.st \in States \cup {"none"}
  BY DEF IInv, StreamInv, RowSet
<1>6. QED
  BY <1>1, <1>2, <1>3, <1>4, <1>5, BoundsFacts DEF States

LEMMA PatchedFacts ==
    ASSUME IInv, wire # <<>>, NEW e \in Events
    PROVE  /\ Patched(e) \in RowSet
           /\ Patched(e).st = e.st
           /\ Patched(e).mine = row.mine
<1>1. row \in RowSet /\ row.mine \in BOOLEAN
  BY DEF IInv, StreamInv, RowSet
<1>2. e.st \in States /\ e.pos \in 0..1 /\ e.bytes \in Nat /\ e.total \in Nat
  BY DEF Events
<1>3. CASE e.st \in Terminal
  <2> DEFINE m == row.mine
             s == e.st
             new == [NoRow EXCEPT !.st = s, !.mine = m]
  <2>1. m \in BOOLEAN /\ s \in States
    BY <1>1, <1>2
  <2>2. Patched(e) = new
    BY <1>3 DEF Patched
  <2> HIDE DEF m, s
  <2>3. new \in RowSet /\ new.st = s /\ new.mine = m
    BY <2>1, NoneFacts DEF RowSet
  <2> HIDE DEF new
  <2>4. QED
    BY <2>2, <2>3 DEF m, s
<1>4. CASE e.st \notin Terminal
  <2> DEFINE s == e.st
             p == IF e.st = "queued" THEN e.pos ELSE row.pos
             b == IF e.st = "downloading" /\ e.bytes > 0 THEN e.bytes ELSE row.bytes
             t == IF e.st = "downloading" /\ e.bytes > 0 THEN e.total ELSE row.total
             new == [row EXCEPT !.st = s, !.pos = p, !.bytes = b, !.total = t]
  <2>1. s \in States /\ p \in 0..1 /\ b \in Nat /\ t \in Nat
    BY <1>1, <1>2 DEF RowSet
  <2>2. Patched(e) = new
    BY <1>4 DEF Patched
  <2> HIDE DEF s, p, b, t
  <2>3. new \in RowSet /\ new.st = s /\ new.mine = row.mine
    BY <1>1, <2>1 DEF RowSet
  <2> HIDE DEF new
  <2>4. QED
    BY <2>2, <2>3 DEF s
<1>5. QED
  BY <1>3, <1>4

LEMMA DeliverKeeps ==
    ASSUME IInv, Deliver
    PROVE  IInv'
<1> DEFINE e == Head(wire)
<1>1. /\ wire # <<>>
      /\ row' = Patched(e) /\ link' = AfterEvent(e)
      /\ wire' = IF e.st \in Terminal THEN <<>> ELSE Tail(wire)
      /\ told' \in {told} \cup (IF e.st = "done" /\ perm = "granted"
                                THEN {told + 1} ELSE {})
      /\ left' = IF e.st = "done" THEN Ttl ELSE left
      /\ \/ Unpreviewed("away", NoResult)
         \/ UNCHANGED <<main, previewVars>>
      /\ UNCHANGED <<create, job, perm, cancelling, toastVars>>
  BY DEF Deliver
<1>2. /\ e \in Events /\ Tail(wire) \in Seq(Events) /\ Len(Tail(wire)) <= MaxWire
      /\ link = "open" /\ row.st \in Active /\ job.st # "none" /\ told = 0
  BY <1>1, EventFacts
<1> HIDE DEF e
<1>3. row' \in RowSet /\ row'.st = e.st /\ row'.mine = row.mine
  BY <1>1, <1>2, PatchedFacts
<1>4. e.st \in States
  BY <1>2 DEF Events
<1>5. StreamInv'
  <2>1. wire' \in Seq(Events) /\ Len(wire') <= MaxWire
    BY <1>1, <1>2, BoundsFacts
  <2>2. left' \in 0..Ttl
    BY <1>1, BoundsFacts DEF IInv, StreamInv
  <2>3. told' \in {0, 1} /\ (e.st \notin Terminal => told' = 0)
    BY <1>1, <1>2 DEF Terminal
  <2>4. /\ link' \in {"closed", "open", "down"}
        /\ link' # "open" => wire' = <<>>
        /\ e.st \in Terminal => link' = "closed"
    BY <1>1, <1>2 DEF AfterEvent
  <2>5. NoRowNoJob'
    BY <1>1, <1>2, <1>3, <1>4 DEF NoRowNoJob, States, Active, Terminal
  <2>6. StreamEnds'
    BY <1>3, <2>3, <2>4 DEF StreamEnds
  <2>7. QED
    BY <1>1, <1>3, <2>1, <2>2, <2>3, <2>4, <2>5, <2>6 DEF IInv, StreamInv
<1>6. create = NoCreate
  BY <1>2, NoneFacts DEF IInv, PageHasRow, Active
<1>7. CardInv' /\ PageHasRow'
  <2>1. CASE Unpreviewed("away", NoResult)
    BY <1>1, <1>6, <2>1 DEF IInv, CardInv, ChoicesFit, PageHasRow, Unpreviewed
  <2>2. CASE UNCHANGED <<main, previewVars>>
    BY <1>1, <1>3, <1>6, <2>2
    DEF IInv, CardInv, ChoicesFit, PageHasRow, previewVars
  <2>3. QED
    BY <1>1, <2>1, <2>2
<1>8. ToastIds'
  BY <1>1, ToastIdsStay DEF IInv
<1>9. QED
  BY <1>1, <1>5, <1>7, <1>8 DEF IInv

-----------------------------------------------------------------------------
(* The card, and its requests *)

\* Nothing but the card and the request of the page changes.
LEMMA CardOnly ==
    ASSUME IInv, CardInv', PageHasRow',
           UNCHANGED <<streamVars, rowVars, perm, cancelling, toastVars>>
    PROVE  IInv'
<1>1. StreamInv'
  BY DEF IInv, StreamInv, NoRowNoJob, StreamEnds, streamVars, rowVars
<1>2. ToastIds'
  BY ToastIdsStay DEF IInv
<1>3. QED
  BY <1>1, <1>2 DEF IInv

LEMMA ChoiceKeeps ==
    ASSUME IInv, \/ \E f \in Videos : ChooseVideo(f)
                 \/ \E l \in Subs : ToggleSubtitle(l)
                 \/ \E r \in Results : LateAnswer(r)
    PROVE  IInv'
<1>1. CardInv'
  <2>1. CASE \E f \in Videos : ChooseVideo(f)
    BY <2>1 DEF IInv, CardInv, ChoicesFit, ChooseVideo
  <2>2. CASE \E l \in Subs : ToggleSubtitle(l)
    BY <2>2 DEF IInv, CardInv, ChoicesFit, ToggleSubtitle
  <2>3. CASE \E r \in Results : LateAnswer(r)
    BY <2>3 DEF IInv, CardInv, ChoicesFit, LateAnswer
  <2>4. QED
    BY <2>1, <2>2, <2>3
<1>2. PageHasRow'
  BY DEF IInv, PageHasRow, ChooseVideo, ToggleSubtitle, LateAnswer, rowVars
<1>3. QED
  BY <1>1, <1>2, CardOnly DEF ChooseVideo, ToggleSubtitle, LateAnswer

LEMMA RequestKeeps ==
    ASSUME IInv, NEW c \in Creates, Request(c)
    PROVE  IInv'
<1>1. /\ create' = c /\ row.st = "none"
      /\ UNCHANGED <<main, previewVars, streamVars, rowVars, perm, cancelling,
                     toastVars>>
  BY DEF Request
<1>2. CardInv'
  BY <1>1 DEF IInv, CardInv, ChoicesFit, previewVars
<1>3. PageHasRow'
  BY <1>1 DEF IInv, PageHasRow, rowVars
<1>4. QED
  BY <1>1, <1>2, <1>3, CardOnly

\* What each button asks for.
LEMMA ClickFacts ==
    ASSUME IInv, ClickVideo \/ ClickAudio \/ ClickSubtitles \/ ClickAgain
    PROVE  \E c \in Creates :
              /\ Request(c)
              /\ c.by = "flow" =>
                    /\ main = "preview"
                    /\ \/ c.mode = "video" /\ c.format = video
                       \/ c.mode = "audio" /\ result.audio
                       \/ c.mode = "subtitles" /\ c.langs = langs /\ langs # {}
<1>1. video \in Videos \cup {NoFormat} /\ langs \subseteq Subs
  BY DEF IInv, CardInv
<1>2. CASE ClickVideo
  <2> DEFINE c == [NoCreate EXCEPT !.by = "flow", !.format = video]
  <2>1. Request(c) /\ main = "preview"
    BY <1>2 DEF ClickVideo, OnPreview
  <2>2. c \in Creates /\ c.mode = "video" /\ c.format = video
    BY <1>1 DEF NoCreate, Creates
  <2> HIDE DEF c
  <2>3. QED
    BY <2>1, <2>2
<1>3. CASE ClickAudio
  <2> DEFINE c == [NoCreate EXCEPT !.by = "flow", !.mode = "audio"]
  <2>1. Request(c) /\ main = "preview" /\ result.audio
    BY <1>3 DEF ClickAudio, OnPreview
  <2>2. c \in Creates /\ c.mode = "audio"
    BY DEF NoCreate, Creates
  <2> HIDE DEF c
  <2>3. QED
    BY <2>1, <2>2
<1>4. CASE ClickSubtitles
  <2> DEFINE c == [NoCreate EXCEPT !.by = "flow", !.mode = "subtitles",
                                   !.langs = langs]
  <2>1. Request(c) /\ main = "preview" /\ langs # {}
    BY <1>4 DEF ClickSubtitles, OnPreview
  <2>2. c \in Creates /\ c.mode = "subtitles" /\ c.langs = langs
    BY <1>1 DEF NoCreate, Creates
  <2> HIDE DEF c
  <2>3. QED
    BY <2>1, <2>2
<1>5. CASE ClickAgain
  <2>1. PICK m \in {"video", "audio"} :
           Request([NoCreate EXCEPT !.by = "history", !.mode = m])
    BY <1>5 DEF ClickAgain
  <2> DEFINE c == [NoCreate EXCEPT !.by = "history", !.mode = m]
  <2>2. c \in Creates /\ c.by = "history"
    BY DEF NoCreate, Creates
  <2>3. Request(c)
    BY <2>1
  <2> HIDE DEF c
  <2>4. QED
    BY <2>2, <2>3
<1>6. QED
  BY <1>2, <1>3, <1>4, <1>5

LEMMA ClickKeeps ==
    ASSUME IInv, ClickVideo \/ ClickAudio \/ ClickSubtitles \/ ClickAgain
    PROVE  IInv'
BY ClickFacts, RequestKeeps

-----------------------------------------------------------------------------
(* The answer to a request *)

LEMMA TrackedFacts ==
    ASSUME NEW pos \in 0..1
    PROVE  /\ Tracked(pos) \in RowSet
           /\ Tracked(pos).st \in Active
           /\ create.by = "flow" => Tracked(pos).mine
<1> DEFINE m == (create.by = "flow")
           s == IF pos > 0 THEN "queued" ELSE "downloading"
           new == [NoRow EXCEPT !.st = s, !.pos = pos, !.mine = m]
<1>1. m \in BOOLEAN
  OBVIOUS
<1>2. s \in Active /\ s \in States
  BY DEF Active, States
<1>3. Tracked(pos) = new
  BY DEF Tracked
<1>4. create.by = "flow" => m
  OBVIOUS
<1> HIDE DEF m, s
<1>5. new \in RowSet /\ new.st = s /\ new.mine = m
  BY <1>1, <1>2, NoneFacts DEF RowSet
<1> HIDE DEF new
<1>6. QED
  BY <1>2, <1>3, <1>4, <1>5

LEMMA CreateOkKeeps ==
    ASSUME IInv, CreateOk
    PROVE  IInv'
<1>1. PICK pos \in 0..1 : /\ row' = Tracked(pos)
                          /\ job' = [NoJob EXCEPT !.st = "queued", !.pos = pos]
  BY DEF CreateOk
<1>2. /\ row' \in RowSet /\ row'.st \in Active
      /\ create.by = "flow" => row'.mine
  BY <1>1, TrackedFacts
<1>3. job' \in JobSet /\ job'.st = "queued"
  BY <1>1 DEF NoJob, JobSet, States, Active
<1>4. main # "job"
  BY DEF IInv, StreamInv, NoRowNoJob, PageHasRow, CreateOk
<1>5. StreamInv'
  <2>1. /\ link' = "down" /\ wire' = <<>> /\ told' = 0 /\ left' = Ttl
    BY DEF CreateOk
  <2>2. NoRowNoJob' /\ StreamEnds'
    BY <1>2, <1>3, <2>1 DEF NoRowNoJob, StreamEnds, Active, Terminal
  <2>3. QED
    BY <1>2, <1>3, <2>1, <2>2, BoundsFacts DEF StreamInv
<1>6. CardInv' /\ PageHasRow'
  <2>1. create' = NoCreate
    BY DEF CreateOk
  <2>2. CASE create.by = "flow"
    <3>1. Unpreviewed("job", result)
      BY <2>2 DEF CreateOk
    <3>2. QED
      BY <1>2, <2>1, <2>2, <3>1, NoneFacts
      DEF IInv, CardInv, ChoicesFit, PageHasRow, Unpreviewed
  <2>3. CASE create.by # "flow"
    <3>1. UNCHANGED <<main, previewVars>>
      BY <2>3 DEF CreateOk
    <3>2. QED
      BY <1>4, <2>1, <3>1, NoneFacts
      DEF IInv, CardInv, ChoicesFit, PageHasRow, previewVars
  <2>4. QED
    BY <2>2, <2>3
<1>7. ToastIds'
  BY ToastIdsStay DEF IInv, CreateOk
<1>8. perm' \in {"unasked", "granted", "denied"} /\ cancelling' \in BOOLEAN
  BY DEF IInv, CreateOk
<1>9. QED
  BY <1>5, <1>6, <1>7, <1>8 DEF IInv

LEMMA CreateFailsKeeps ==
    ASSUME IInv, CreateFails
    PROVE  IInv'
<1>1. create' = NoCreate /\ UNCHANGED <<streamVars, rowVars, perm, cancelling>>
  BY DEF CreateFails
<1>2. CardInv' /\ PageHasRow'
  <2>1. CASE Unpreviewed("away", result)
    BY <1>1, <2>1, NoneFacts
    DEF IInv, CardInv, ChoicesFit, PageHasRow, Unpreviewed, rowVars
  <2>2. CASE UNCHANGED <<main, previewVars>>
    BY <1>1, <2>2, NoneFacts
    DEF IInv, CardInv, ChoicesFit, PageHasRow, previewVars, rowVars
  <2>3. QED
    BY <2>1, <2>2 DEF CreateFails
<1>3. ToastIds'
  BY ToastIdsStay DEF IInv, CreateFails
<1>4. StreamInv'
  BY <1>1 DEF IInv, StreamInv, NoRowNoJob, StreamEnds, streamVars, rowVars
<1>5. QED
  BY <1>1, <1>2, <1>3, <1>4 DEF IInv

-----------------------------------------------------------------------------
(* The buttons of a row *)

LEMMA CancelKeeps ==
    ASSUME IInv, ClickCancel \/ CancelOk \/ CancelFails
    PROVE  IInv'
<1>1. UNCHANGED <<main, previewVars, create, link, rowVars, perm>>
  BY DEF ClickCancel, CancelOk, CancelFails, streamVars
<1>2. StreamInv'
  <2>1. CASE UNCHANGED <<job, wire>>
    BY <1>1, <2>1 DEF IInv, StreamInv, NoRowNoJob, StreamEnds, rowVars
  <2>2. CASE /\ CancelOk
             /\ job' = [NoJob EXCEPT !.st = "cancelled"]
             /\ wire' = IF link = "open" THEN Append(wire, job') ELSE wire
    <3>1. job' \in JobSet /\ job' \in Events /\ job'.st = "cancelled"
      BY <2>2 DEF NoJob, JobSet, Events, States, Terminal
    <3>2. job.st # "none" /\ Len(wire) < MaxWire
      BY <2>2 DEF CancelOk, Active
    <3>3. /\ wire' \in Seq(Events) /\ Len(wire') <= MaxWire
          /\ link # "open" => wire' = <<>>
      BY <2>2, <3>1, <3>2, BoundsFacts DEF IInv, StreamInv, StreamEnds
    <3>4. row.st # "none"
      BY <3>2, NoneFacts DEF IInv, StreamInv, NoRowNoJob
    <3>5. NoRowNoJob' /\ StreamEnds'
      BY <1>1, <3>1, <3>3, <3>4 DEF IInv, StreamInv, NoRowNoJob, StreamEnds, rowVars
    <3>6. QED
      BY <1>1, <3>1, <3>3, <3>5 DEF IInv, StreamInv, rowVars
  <2>3. QED
    BY <2>1, <2>2 DEF ClickCancel, CancelOk, CancelFails, streamVars
<1>3. CardInv' /\ PageHasRow'
  BY <1>1 DEF IInv, CardInv, ChoicesFit, PageHasRow, previewVars, rowVars
<1>4. ToastIds'
  BY ToastIdsStay DEF IInv, ClickCancel, CancelOk, CancelFails
<1>5. cancelling' \in BOOLEAN
  BY DEF ClickCancel, CancelOk, CancelFails
<1>6. QED
  BY <1>1, <1>2, <1>3, <1>4, <1>5 DEF IInv

LEMMA RemoveKeeps ==
    ASSUME IInv, DrawerRemove
    PROVE  IInv'
<1>1. /\ row' = NoRow /\ job' = NoJob /\ told' = 0 /\ left' = Ttl
      /\ link' = "closed" /\ wire' = <<>>
      /\ main' = IF main = "job" THEN "away" ELSE main
      /\ UNCHANGED <<previewVars, perm, cancelling, toastVars>>
  BY DEF DrawerRemove, Removed
<1>2. StreamInv'
  BY <1>1, NoneFacts, BoundsFacts DEF StreamInv, NoRowNoJob, StreamEnds, Terminal
<1>3. create' \in Creates
  <2>1. [NoCreate EXCEPT !.by = "drawer"] \in Creates
    BY DEF NoCreate, Creates
  <2>2. QED
    BY <2>1 DEF IInv, CardInv, DrawerRemove
<1>4. main' \in {"preview", "away"} /\ (main' = "preview" => main = "preview")
  BY <1>1 DEF IInv, CardInv
<1>5. CardInv' /\ PageHasRow'
  BY <1>1, <1>3, <1>4, NoneFacts
  DEF IInv, CardInv, ChoicesFit, PageHasRow, previewVars
<1>6. ToastIds'
  BY <1>1, ToastIdsStay DEF IInv
<1>7. QED
  BY <1>1, <1>2, <1>5, <1>6 DEF IInv

-----------------------------------------------------------------------------
(* The page *)

LEMMA GoAwayKeeps ==
    ASSUME IInv, GoAway
    PROVE  IInv'
<1>1. /\ main' = "away" /\ video' = NoFormat /\ langs' = {}
      /\ result' \in {result, NoResult}
      /\ UNCHANGED <<streamVars, left, told, perm, cancelling, toastVars>>
  BY DEF GoAway, Unpreviewed
<1>2. /\ \/ create' = create
         \/ create' = [create EXCEPT !.by = IF @ = "flow" THEN "left" ELSE @]
      /\ row' = row \/ row' = [row EXCEPT !.mine = FALSE]
  BY DEF GoAway
<1>3. create' \in Creates /\ (create = NoCreate => create' = NoCreate)
  <2>1. create \in Creates
    BY DEF IInv, CardInv
  <2>2. CASE create' = [create EXCEPT !.by = IF @ = "flow" THEN "left" ELSE @]
    <3> DEFINE b == IF create.by = "flow" THEN "left" ELSE create.by
    <3>1. b \in {"none", "flow", "left", "drawer", "history"}
      BY <2>1 DEF Creates
    <3>2. create' = [create EXCEPT !.by = b]
      BY <2>2
    <3>3. create = NoCreate => b = "none"
      BY DEF NoCreate
    <3> HIDE DEF b
    <3>4. create' \in Creates
      BY <2>1, <3>1, <3>2 DEF Creates
    <3>5. create = NoCreate => create' = NoCreate
      BY <3>2, <3>3 DEF NoCreate
    <3>6. QED
      BY <3>4, <3>5
  <2>3. QED
    BY <1>2, <2>1, <2>2
<1>4. /\ row' \in RowSet /\ row'.st = row.st
      /\ ~row.mine => ~row'.mine
  <2>1. row \in RowSet
    BY DEF IInv, StreamInv
  <2>2. CASE row' = [row EXCEPT !.mine = FALSE]
    <3>1. row' \in RowSet /\ row'.st = row.st
      BY <2>1, <2>2 DEF RowSet
    <3>2. ~row'.mine
      BY <2>1, <2>2 DEF RowSet
    <3>3. QED
      BY <3>1, <3>2
  <2>3. QED
    BY <1>2, <2>1, <2>2
<1>5. StreamInv'
  BY <1>1, <1>4 DEF IInv, StreamInv, NoRowNoJob, StreamEnds, streamVars
<1>6. CardInv' /\ PageHasRow'
  BY <1>1, <1>3, <1>4 DEF IInv, CardInv, ChoicesFit, PageHasRow
<1>7. ToastIds'
  BY <1>1, ToastIdsStay DEF IInv
<1>8. QED
  BY <1>1, <1>5, <1>6, <1>7 DEF IInv

LEMMA AnalyseKeeps ==
    ASSUME IInv, Analyse
    PROVE  IInv'
<1>1. PICK r \in Results : Previewed(r)
  BY DEF Analyse, IInv, CardInv
<1>2. /\ main' = "preview" /\ result' = r /\ video' = Best(r) /\ langs' = {}
      /\ UNCHANGED <<create, streamVars, rowVars, perm, cancelling, toastVars>>
  BY <1>1 DEF Analyse, Previewed, FirstChoice
<1>3. Best(r) \in Videos \cup {NoFormat} /\ Best(result') = Best(r)
  BY <1>2, BestFacts
<1>4. CardInv'
  BY <1>2, <1>3 DEF IInv, CardInv, ChoicesFit
<1>5. PageHasRow'
  BY <1>2 DEF IInv, PageHasRow, rowVars
<1>6. QED
  BY <1>2, <1>4, <1>5, CardOnly

LEMMA ClockKeeps ==
    ASSUME IInv, Second \/ Tick
    PROVE  IInv'
<1>1. /\ \/ row' = row
         \/ /\ row' = [row EXCEPT !.since = @ + 1]
            /\ row.since < Ttl /\ row.st = "done"
      /\ left' = left \/ left' = Ttl - row.since
      /\ UNCHANGED <<main, previewVars, create, streamVars, told, perm,
                     cancelling, toastVars>>
  BY DEF Second, Tick
<1>2. row \in RowSet /\ row.since \in 0..Ttl
  BY DEF IInv, StreamInv, RowSet
<1>3. row' \in RowSet /\ row'.st = row.st /\ row'.mine = row.mine
  BY <1>1, <1>2, BoundsFacts DEF RowSet
<1>4. left' \in 0..Ttl
  BY <1>1, <1>2, BoundsFacts DEF IInv, StreamInv
<1>6. StreamInv'
  BY <1>1, <1>3, <1>4 DEF IInv, StreamInv, NoRowNoJob, StreamEnds, streamVars
<1>7. CardInv' /\ PageHasRow'
  BY <1>1, <1>3 DEF IInv, CardInv, ChoicesFit, PageHasRow, previewVars
<1>8. ToastIds'
  BY <1>1, ToastIdsStay DEF IInv
<1>9. QED
  BY <1>1, <1>6, <1>7, <1>8 DEF IInv

-----------------------------------------------------------------------------
(* The theorems *)

LEMMA InitIsGood == Init => IInv
<1> SUFFICES ASSUME Init
             PROVE  IInv
  OBVIOUS
<1>1. /\ result \in Results /\ video = Best(result) /\ langs = {}
      /\ main = "preview" /\ create = NoCreate
      /\ job = NoJob /\ link = "closed" /\ wire = <<>>
      /\ row = NoRow /\ left = Ttl /\ told = 0
      /\ perm = "unasked" /\ cancelling = FALSE
      /\ toasts = {} /\ timers = {} /\ shownToasts = 0
  BY DEF Init, FirstChoice
<1>2. CardInv
  BY <1>1, BestFacts, NoneFacts DEF CardInv, ChoicesFit
<1>3. StreamInv
  BY <1>1, NoneFacts, BoundsFacts DEF StreamInv, NoRowNoJob, StreamEnds
<1>4. PageHasRow /\ ToastIds
  BY <1>1 DEF PageHasRow, ToastIds
<1>5. QED
  BY <1>1, <1>2, <1>3, <1>4 DEF IInv

LEMMA StepKeeps == IInv /\ [Next]_vars => IInv'
<1> SUFFICES ASSUME IInv, [Next]_vars
             PROVE  IInv'
  OBVIOUS
<1>1. CASE UNCHANGED vars
  <2>1. UNCHANGED <<main, previewVars, create, row, perm, cancelling, toastVars>>
    BY <1>1 DEF vars, rowVars
  <2>2. StreamInv'
    BY <1>1 DEF IInv, StreamInv, NoRowNoJob, StreamEnds, vars, streamVars, rowVars
  <2>3. QED
    BY <2>1, <2>2, StreamOnly
<1>2. CASE Next
  BY <1>2, ToastsKeep, ChoiceKeeps, ClickKeeps, CreateOkKeeps, CreateFailsKeeps,
     ServerKeeps, LinkKeeps, DeliverKeeps, CancelKeeps, RemoveKeeps, GoAwayKeeps,
     AnalyseKeeps, ClockKeeps
  DEF Next
<1>3. QED
  BY <1>1, <1>2

LEMMA SmallerOf ==
    ASSUME NEW n \in Nat
    PROVE  Min({100, n}) \in 0..100
<1>1. \E x \in {100, n} : \A y \in {100, n} : x =< y
  OBVIOUS
<1>2. /\ Min({100, n}) \in {100, n}
      /\ \A y \in {100, n} : Min({100, n}) =< y
  BY <1>1 DEF Min
<1>3. QED
  BY <1>2

\* The row of a job, in every well-formed state of card, stream and toasts, is
\* sound: the end of a job is told at most once, however often its stream is cut
\* and however late its events come (onJobDone, and the connection that a last
\* event closes), and the bar of its progress stays in its track, although the
\* bytes may pass the total that yt-dlp estimated.
THEOREM RowIsSoundHolds == Spec => []RowIsSound
<1>1. IInv => RowIsSound
  <2> SUFFICES ASSUME IInv
               PROVE  RowIsSound
    OBVIOUS
  <2>1. row.st \in {"none"} \cup Active \cup Terminal /\ row.since \in 0..Ttl
    BY DEF IInv, StreamInv, RowSet, States
  <2>2. TypeOK
    BY <2>1 DEF IInv, CardInv, StreamInv, PageHasRow, Creates, TypeOK
  <2>3. NotifiedOnce
    BY DEF IInv, StreamInv, NotifiedOnce
  <2>4. ASSUME row.total > 0
        PROVE  Percent(row) \in 0..100
    <3>1. row.bytes \in Nat /\ row.total \in Nat
      BY DEF IInv, StreamInv, RowSet
    <3>2. (row.bytes * 100) \div row.total \in Nat
      BY <2>4, <3>1
    <3>3. QED
      BY <3>2, SmallerOf DEF Percent
  <2>5. QED
    BY <2>2, <2>3, <2>4 DEF RowIsSound, BarFits
<1>2. QED
  BY <1>1, InitIsGood, StepKeeps, PTL DEF Spec

\* A row that has ended keeps its end until it is removed, whatever is still on
\* its way: no event is heard any more, as the one that ended the row closed its
\* connection, and no request that could track another job is in flight.
THEOREM EndedRowStaysHolds == Spec => EndedRowStays
<1>1. ASSUME IInv, [Next]_vars, row.st \in Terminal
      PROVE  row'.st \in {row.st, "none"}
  <2>1. wire = <<>> /\ create = NoCreate /\ row.st \notin Active
    BY <1>1 DEF IInv, StreamInv, StreamEnds, PageHasRow, Terminal, Active
  <2>2. row \in RowSet
    BY <1>1 DEF IInv, StreamInv
  <2>3. CASE DrawerRemove
    BY <2>3, NoneFacts DEF DrawerRemove, Removed
  <2>4. CASE GoAway \/ Second
    <3>1. \/ row' = row
          \/ row' = [row EXCEPT !.mine = FALSE]
          \/ row' = [row EXCEPT !.since = @ + 1]
      BY <2>4 DEF GoAway, Second
    <3>2. QED
      BY <2>2, <3>1 DEF RowSet
  <2>5. CASE UNCHANGED vars
    BY <2>5 DEF vars, rowVars
  <2>6. CASE Next /\ ~ (DrawerRemove \/ GoAway \/ Second)
    <3>1. row' = row
      BY <2>1, <2>6
      DEF Next, CloseToast, ToastTimer, ChooseVideo, ToggleSubtitle, LateAnswer,
          ClickVideo, ClickAudio, ClickSubtitles, ClickAgain, Request, CreateOk,
          CreateFails, ServerWorks, Goes, Connect, Break, Deliver, ClickCancel,
          CancelOk, CancelFails, Analyse, Tick, rowVars
    <3>2. QED
      BY <3>1
  <2>7. QED
    BY <1>1, <2>3, <2>4, <2>5, <2>6
<1>2. IInv /\ [Next]_vars =>
         [row.st \in Terminal => row'.st \in {row.st, "none"}]_vars
  BY <1>1
<1>3. QED
  BY <1>2, InitIsGood, StepKeeps, PTL DEF Spec, EndedRowStays

\* A toast that goes, by its timer or by a click, takes no other along: the ids
\* count the toasts ever shown (++nextId), so that the timer of a toast closed
\* before its time finds nothing to remove.
THEOREM ToastsLeaveAloneHolds == Spec => ToastsLeaveAlone
<1> DEFINE Gone  == toasts \ toasts'
           Alone == /\ Cardinality(Gone) <= 1
                    /\ timers \subseteq timers' \/ Gone \subseteq timers \ timers'
<1>1. ASSUME IInv, [Next]_vars
      PROVE  Alone
  <2>1. CASE \E t \in toasts : CloseToast(t)
    <3>1. PICK t \in toasts : CloseToast(t)
      BY <2>1
    <3>2. toasts' = Without(t.id) /\ timers' = timers
      BY <3>1 DEF CloseToast
    <3>3. Gone = {t}
      BY <1>1, <3>2 DEF Without, IInv, ToastIds
    <3>4. Cardinality(Gone) = 1
      BY <3>3, FS_Singleton
    <3>5. QED
      BY <3>2, <3>4
  <2>2. CASE \E t \in timers : ToastTimer(t)
    <3>1. PICK t \in timers : ToastTimer(t)
      BY <2>2
    <3>2. toasts' = Without(t.id) /\ timers' = timers \ {t}
      BY <3>1 DEF ToastTimer
    <3>3. Gone \subseteq {t} /\ t \in timers \ timers'
      BY <1>1, <3>1, <3>2 DEF Without, IInv, ToastIds
    <3>4. Cardinality(Gone) \in {0, 1}
      <4>1. Cardinality({t}) = 1 /\ Cardinality({}) = 0
        BY FS_Singleton, FS_EmptySet
      <4>2. Gone = {t} \/ Gone = {}
        BY <3>3
      <4>3. QED
        BY <4>1, <4>2
    <3>5. QED
      BY <3>3, <3>4
  <2>3. CASE toasts \subseteq toasts' /\ timers \subseteq timers'
    <3>1. Gone = {}
      BY <2>3
    <3>2. Cardinality(Gone) = 0
      BY <3>1, FS_EmptySet
    <3>3. QED
      BY <2>3, <3>2
  <2>4. \/ \E t \in toasts : CloseToast(t)
        \/ \E t \in timers : ToastTimer(t)
        \/ ShowToast
        \/ UNCHANGED toastVars
    <3>1. CASE UNCHANGED vars
      BY <3>1 DEF vars, toastVars
    <3>2. CASE Next
      BY <3>2
      DEF Next, ChooseVideo, ToggleSubtitle, LateAnswer, ClickVideo, ClickAudio,
          ClickSubtitles, ClickAgain, Request, CreateOk, CreateFails,
          ServerWorks, Goes, Connect, Break, Deliver, ClickCancel, CancelOk,
          CancelFails, DrawerRemove, GoAway, Analyse, Second, Tick
    <3>3. QED
      BY <1>1, <3>1, <3>2
  <2>5. CASE ShowToast \/ UNCHANGED toastVars
    BY <2>3, <2>5 DEF ShowToast, toastVars
  <2>6. QED
    BY <2>1, <2>2, <2>4, <2>5
<1>2. IInv /\ [Next]_vars => [Alone]_vars
  BY <1>1
<1>3. QED
  BY <1>2, InitIsGood, StepKeeps, PTL DEF Spec, ToastsLeaveAlone

\* The page asks for what the card shows when a button is clicked: the choices of
\* the card come from its own analysis, as it is mounted anew with every answer
\* but one that comes while it is shown (PreviewCard, demarrer).
THEOREM SentIsShownHolds == Spec => SentIsShown
<1> DEFINE Sent == create = NoCreate /\ create'.by = "flow" /\ ~late
           Shown ==
             CASE create'.mode = "video" -> create'.format = Selected
               [] create'.mode = "audio" -> result.audio
               [] create'.mode = "subtitles" ->
                      create'.langs # {} /\ create'.langs \subseteq result.subs
<1>1. ASSUME IInv, [Next]_vars, Sent
      PROVE  Shown
  <2>1. CASE ClickVideo \/ ClickAudio \/ ClickSubtitles \/ ClickAgain
    <3>1. /\ main = "preview"
          /\ \/ create'.mode = "video" /\ create'.format = video
             \/ create'.mode = "audio" /\ result.audio
             \/ create'.mode = "subtitles" /\ create'.langs = langs /\ langs # {}
      BY <1>1, <2>1, ClickFacts DEF Request
    <3>2. /\ video \in Range(result.videos) \cup {Best(result)}
          /\ langs \subseteq result.subs
      BY <1>1, <3>1 DEF IInv, CardInv, ChoicesFit
    <3>3. CASE create'.mode = "video"
      BY <3>1, <3>2, <3>3 DEF Selected
    <3>4. CASE create'.mode = "audio"
      BY <3>1, <3>4
    <3>5. CASE create'.mode = "subtitles"
      BY <3>1, <3>2, <3>5
    <3>6. QED
      BY <3>1, <3>3, <3>4, <3>5
  <2>2. CASE ~ (ClickVideo \/ ClickAudio \/ ClickSubtitles \/ ClickAgain)
    <3>1. create.by = "none" /\ create'.by # "none"
      BY <1>1, NoneFacts
    <3>2. CASE GoAway
      <4>1. \/ create' = create
            \/ create' = [create EXCEPT !.by = IF @ = "flow" THEN "left" ELSE @]
        BY <3>2 DEF GoAway
      <4>2. [create EXCEPT !.by = IF @ = "flow" THEN "left" ELSE @].by = "none"
        BY <1>1, <3>1 DEF IInv, CardInv, Creates
      <4>3. QED
        BY <3>1, <4>1, <4>2
    <3>3. CASE DrawerRemove
      <4>1. create' = create \/ create'.by = "drawer"
        BY <3>3 DEF DrawerRemove, NoCreate
      <4>2. QED
        BY <1>1, <3>1, <4>1
    <3>4. CASE UNCHANGED create
      BY <3>1, <3>4
    <3>5. UNCHANGED create \/ GoAway \/ DrawerRemove
      <4>1. CASE UNCHANGED vars
        BY <4>1 DEF vars
      <4>2. CASE Next
        BY <1>1, <2>2, <4>2
        DEF Next, CloseToast, ToastTimer, ChooseVideo, ToggleSubtitle,
            LateAnswer, CreateOk, CreateFails, ServerWorks, Goes, Connect, Break,
            Deliver, ClickCancel, CancelOk, CancelFails, Analyse, Second, Tick
      <4>3. QED
        BY <1>1, <4>1, <4>2
    <3>6. QED
      BY <3>2, <3>3, <3>4, <3>5
  <2>3. QED
    BY <2>1, <2>2
<1>2. IInv /\ [Next]_vars => [Sent => Shown]_vars
  BY <1>1
<1>3. QED
  BY <1>2, InitIsGood, StepKeeps, PTL DEF Spec, SentIsShown

=============================================================================
