----------------------------- MODULE AdminConsole ------------------------------
(***************************************************************************)
(* The console of the administrator: the four pages of src/frontend/src/   *)
(* pages/admin, of which one is mounted at a time, their requests          *)
(* (adminApi.ts) and the streams of the server (admin.py) they listen to.  *)
(*                                                                         *)
(* A request is answered with what the server holds when it is served, and *)
(* its answer comes later: out of order with the others, or as a failure,  *)
(* with or without its effect.  What a page asks for is forgotten with the *)
(* page; what it orders is carried out.  The list of the guests, read with *)
(* the users and shown below them, is left out.                            *)
(***************************************************************************)
EXTENDS Integers, FiniteSets, Charts

CONSTANTS Histories,    \* series that a chart may be given
          MaxNow,       \* bound: changes of the server's numbers
          MaxCalls,     \* bound: requests in flight
          ErrorAnswers  \* whether a reconnection may meet an error page

ASSUME ConsoleBounds ==
    MaxNow \in Nat \ {0} /\ MaxCalls \in Nat \ {0} /\ ErrorAnswers \in BOOLEAN

\* The server records percentages, queue lengths and counts of downloads.
ASSUME HistoriesAssumption == Histories \subseteq Seq(Nat \cup {Null})

VARIABLES
  now,     \* version of the numbers that the server measures
  row,     \* one account: there, status, quota
  ui,      \* the state of the mounted page
  calls,   \* requests in flight
  stream,  \* the EventSource of the page: st, and the message on its way
  late,    \* (history) lists of users on their way that were read before a
           \* change by somebody else, or before a list that has been shown
  missed   \* (history) the list that is shown was late, or has become so

history == <<late, missed>>
vars == <<now, row, ui, calls, stream, history>>

LivePages == {"overview", "system"}
Ranges    == {"day", "week"}
Filters   == {"all", "failed"}
Fields    == {"status", "quota"}

\* What each field may hold.
FieldValues == [status |-> {"active", "suspended"}, quota |-> {"default", "own"}]

Rows  == [there : BOOLEAN, status : FieldValues.status, quota : FieldValues.quota]
NoRow == [there |-> FALSE, status |-> "active", quota |-> "default"]

\* The requests that only read.
Reads == {"live", "history", "users", "journal"}

\* The state of a page that has just been mounted.
Blank(p) ==
    [page |-> p, err |-> FALSE, snap |-> 0,                   \* overview, system
     range |-> "day", hist |-> "none", busy |-> FALSE,        \* system
     shown |-> NoRow, temp |-> FALSE,                         \* users
     filter |-> "all", entries |-> "none"]                    \* logs

\* own: sent by the page that is mounted.
Ask(k, a) == [kind |-> k, arg |-> a, st |-> "sent", at |-> 0, row |-> NoRow,
              own |-> TRUE]

TypeOK ==
    /\ now \in 1..MaxNow /\ row \in Rows
    /\ ui.page \in LivePages \cup {"users", "logs"}
    /\ ui.snap \in 0..now /\ ui.shown \in Rows
    /\ ui.hist \in {"none"} \cup Ranges /\ ui.entries \in {"none"} \cup Filters
    /\ stream.st \in {"closed", "open", "down", "dead"} /\ stream.wire \in 0..now
    /\ stream.st = "closed" <=> ui.page \notin LivePages
    /\ \A c \in calls : c.own \/ c.kind \notin Reads

-----------------------------------------------------------------------------
(* Pages *)

Orders == {[c EXCEPT !.own = FALSE] : c \in {d \in calls : d.kind \notin Reads}}

Mount(p, asks) ==
    /\ p # ui.page
    /\ Cardinality(Orders \cup asks) <= MaxCalls
    /\ ui' = Blank(p)
    /\ calls' = Orders \cup asks
    /\ stream' = [st |-> IF p \in LivePages THEN "open" ELSE "closed", wire |-> 0]
    /\ late' = {} /\ missed' = FALSE

MountOverview == Mount("overview", {Ask("live", "")})
MountSystem   == Mount("system", {Ask("live", ""), Ask("history", "day")})
Reload        == Ask("users", "")
MountUsers    == Mount("users", {Reload})
MountLogs     == Mount("logs", {Ask("journal", "all")})

Room == Cardinality(calls) < MaxCalls

Go ==
    /\ \/ MountOverview \/ MountSystem \/ MountUsers \/ MountLogs
    /\ UNCHANGED <<now, row>>

Init ==
    /\ now = 1
    /\ row \in {r \in Rows : r.there}
    /\ ui = Blank("overview")
    /\ calls = {Ask("live", "")}
    /\ stream = [st |-> "open", wire |-> 0]
    /\ late = {} /\ missed = FALSE

Send(c) == Room /\ c \notin calls /\ calls' = calls \cup {c}

-----------------------------------------------------------------------------
(* What the administrator does *)

\* Faulty variant: the effect of the former range is not cancelled.
ChooseRangeKeeping(r) ==
    /\ ui.page = "system" /\ ui.snap # 0 /\ r # ui.range
    /\ ui' = [ui EXCEPT !.range = r]
    /\ Send(Ask("history", r))
    /\ UNCHANGED <<now, row, stream, history>>

\* Another range: the effect of the former one is cancelled, and its answers
\* with it.
ChooseRange(r) ==
    /\ ui.page = "system" /\ ui.snap # 0 /\ r # ui.range
    /\ ui' = [ui EXCEPT !.range = r]
    /\ calls' = {c \in calls : c.kind # "history"} \cup {Ask("history", r)}
    /\ Cardinality(calls') <= MaxCalls
    /\ UNCHANGED <<now, row, stream, history>>

\* Faulty variant: the history is read once.
PollNever == FALSE /\ UNCHANGED vars

\* The interval of one minute; one unserved request at a time is enough.
Poll ==
    /\ ui.page = "system"
    /\ Ask("history", ui.range) \notin calls
    /\ calls' = calls \cup {Ask("history", ui.range)}
    /\ UNCHANGED <<now, row, ui, stream, history>>

\* Update, purge or clear, once the administrator has confirmed.
RunAction ==
    /\ ui.page = "system" /\ ui.snap # 0 /\ ~ui.busy
    /\ ui' = [ui EXCEPT !.busy = TRUE]
    /\ Send(Ask("action", ""))
    /\ UNCHANGED <<now, row, stream, history>>

\* A button of the row as it is shown: the order names the value it wants.
\* An empty or unreadable quota asks for the default, or for nothing.
ClickRow ==
    /\ ui.page = "users" /\ ui.shown.there
    /\ \/ Send(Ask("status", CHOOSE s \in FieldValues.status : s # ui.shown.status))
       \/ \E q \in FieldValues.quota : Send(Ask("quota", q))
       \/ Send(Ask("reset", "")) \/ Send(Ask("delete", ""))
    /\ UNCHANGED <<now, row, ui, stream, history>>

CloseTemp ==
    /\ ui.temp /\ ui' = [ui EXCEPT !.temp = FALSE]
    /\ UNCHANGED <<now, row, calls, stream, history>>

ChooseFilter(f) ==
    /\ ui.page = "logs" /\ f # ui.filter
    /\ ui' = [ui EXCEPT !.filter = f]
    /\ Send(Ask("journal", f))
    /\ UNCHANGED <<now, row, stream, history>>

\* The lists of the mounted page that have been read and not yet shown.
Lists == {c \in calls : c.own /\ c.kind = "users" /\ c.st = "ok"}

\* What somebody else changes, the page does not hear of.
Unheard ==
    IF row' = row THEN UNCHANGED history
    ELSE late' = Lists /\ missed' = (ui.page = "users")

\* Another administrator edits the same account.
OtherAdmin ==
    /\ row.there
    /\ \E f \in Fields : \E v \in FieldValues[f] : row' = [row EXCEPT ![f] = v]
    /\ Unheard
    /\ UNCHANGED <<now, ui, calls, stream>>

-----------------------------------------------------------------------------
(* The server *)

Replace(c, cs) == calls' = (calls \ {c}) \cup cs

\* A read is served; so is an order that changes nothing modelled here.  Only an
\* account that is there can be reset.
ServeRead(c) ==
    /\ c.kind \in Reads \cup {"reset", "action"}
    /\ Replace(c, {[c EXCEPT !.st = IF c.kind = "reset" /\ ~row.there
                                    THEN "no" ELSE "ok",
                             !.at = IF c.kind = "live" THEN now ELSE 0,
                             !.row = IF c.kind = "users" THEN row ELSE NoRow]})
    /\ UNCHANGED row

\* update_user: only the field that the request names.
ServeEdit(c) ==
    /\ c.kind \in Fields
    /\ Replace(c, {[c EXCEPT !.st = IF row.there THEN "ok" ELSE "no"]})
    /\ row' = IF row.there THEN [row EXCEPT ![c.kind] = c.arg] ELSE row

ServeDelete(c) ==
    /\ c.kind = "delete"
    /\ Replace(c, {[c EXCEPT !.st = IF row.there THEN "ok" ELSE "no"]})
    /\ row' = IF row.there THEN NoRow ELSE row

Serve(c) ==
    /\ c.st = "sent"
    /\ ServeRead(c) \/ ServeEdit(c) \/ ServeDelete(c)
    /\ IF c.own THEN UNCHANGED history ELSE Unheard
    /\ UNCHANGED <<now, ui, stream>>

Measure ==
    /\ now < MaxNow
    /\ now' = now + 1
    /\ UNCHANGED <<row, ui, calls, stream, history>>

-----------------------------------------------------------------------------
(* The answers in the page *)

Turns(c, u, more) == ui' = u /\ Replace(c, more) /\ UNCHANGED <<now, row, stream>>

Landed(c, u, more) == Turns(c, u, more) /\ late' = late \ {c} /\ UNCHANGED missed

\* The first read of overview or system: it shows what it brings, and leaves an
\* error alone.
LiveAnswered(c) ==
    /\ c.kind = "live"
    /\ Landed(c, [ui EXCEPT !.snap = c.at], {})

HistoryAnswered(c) ==
    /\ c.kind = "history"
    /\ Landed(c, [ui EXCEPT !.hist = c.arg], {})

UsersAnswered(c) ==
    /\ c.kind = "users"
    /\ Turns(c, [ui EXCEPT !.shown = c.row], {})
    /\ late' = Lists \ {c} /\ missed' = (c \in late)

JournalAnswered(c) ==
    /\ c.kind = "journal"
    /\ Landed(c, [ui EXCEPT !.entries = c.arg, !.err = FALSE], {})

\* Faulty variant: the list is left as it was.
EditAnsweredOnly(c) ==
    /\ c.kind \in Fields \cup {"delete"}
    /\ Landed(c, ui, {})

\* toggleStatus, editQuota and removeUser read the list again.
EditAnswered(c) ==
    /\ c.kind \in Fields \cup {"delete"}
    /\ Landed(c, ui, {Reload})

ResetAnswered(c) ==
    /\ c.kind = "reset" /\ Landed(c, [ui EXCEPT !.temp = TRUE], {})

\* Faulty variant: only a success frees the buttons.
ActionEndedGlad(c) ==
    /\ c.kind = "action"
    /\ Landed(c, [ui EXCEPT !.busy = ~(c.st = "ok")], {})

\* The message of the server, or of the failure; then the buttons again.
ActionEnded(c) ==
    /\ c.kind = "action"
    /\ Landed(c, [ui EXCEPT !.busy = FALSE], {})

\* Whatever went wrong: an error is shown, but for the history.
Failed(c) ==
    /\ c.kind # "action"
    /\ Landed(c, IF c.kind = "history" THEN ui ELSE [ui EXCEPT !.err = TRUE], {})

\* The page of a forgotten order is gone.
Ignored(c) == Landed(c, ui, {})

Answer(c) ==
    \/ /\ c.own /\ c.st = "ok"
       /\ \/ LiveAnswered(c) \/ HistoryAnswered(c) \/ UsersAnswered(c)
          \/ JournalAnswered(c) \/ EditAnswered(c) \/ ResetAnswered(c)
    \/ c.own /\ (ActionEnded(c) \/ Failed(c))
    \/ ~c.own /\ Ignored(c)

\* The histories that arrive.
HistoryArrives == \E c \in calls : c.own /\ c.st = "ok" /\ HistoryAnswered(c)

-----------------------------------------------------------------------------
(* The stream *)

\* The generator sends the numbers of the moment, at once and every 5 seconds.
StreamSends ==
    /\ stream.st = "open" /\ stream.wire = 0
    /\ stream' = [stream EXCEPT !.wire = now]
    /\ UNCHANGED <<now, row, ui, calls, history>>

\* Faulty variant: the first numbers of the stream are thought to be known.
StreamArrivesOnce ==
    /\ stream.wire # 0
    /\ ui' = [ui EXCEPT !.snap = IF @ = 0 THEN stream.wire ELSE @, !.err = FALSE]
    /\ stream' = [stream EXCEPT !.wire = 0]
    /\ UNCHANGED <<now, row, calls, history>>

StreamArrives ==
    /\ stream.wire # 0
    /\ ui' = [ui EXCEPT !.snap = stream.wire, !.err = FALSE]
    /\ stream' = [stream EXCEPT !.wire = 0]
    /\ UNCHANGED <<now, row, calls, history>>

StreamBreaks ==
    /\ stream.st = "open"
    /\ stream' = [st |-> "down", wire |-> 0]
    /\ UNCHANGED <<now, row, ui, calls, history>>

\* EventSource tries again by itself, and gives up on an error page: the proxy
\* answers 502 while the service restarts (Caddyfile).
Reconnect ==
    /\ stream.st = "down"
    /\ \E s \in {"open"} \cup (IF ErrorAnswers THEN {"dead"} ELSE {}) :
          stream' = [stream EXCEPT !.st = s]
    /\ UNCHANGED <<now, row, ui, calls, history>>

-----------------------------------------------------------------------------

Next ==
    \/ Go \/ RunAction \/ Poll \/ ClickRow \/ CloseTemp \/ OtherAdmin
    \/ \E r \in Ranges : ChooseRange(r)
    \/ \E f \in Filters : ChooseFilter(f)
    \/ \E c \in calls : Serve(c) \/ Answer(c)
    \/ Measure
    \/ StreamSends \/ StreamArrives \/ StreamBreaks \/ Reconnect

\* Timers fire, a broken stream is tried again, and neither the stream nor the
\* history fails for ever.
Fairness ==
    /\ SF_vars(StreamSends) /\ SF_vars(StreamArrives) /\ WF_vars(Reconnect)
    /\ SF_vars(Poll) /\ SF_vars(HistoryArrives)
    /\ SF_vars(\E c \in calls : c.kind = "history" /\ Serve(c))

Spec == Init /\ [][Next]_vars /\ Fairness

-----------------------------------------------------------------------------
(* Properties *)

\* Once a range is chosen, no answer for the other one replaces the curves:
\* they stay until those of the range arrive.
HistoryFollowsRange ==
    [][ui'.hist # ui.hist => ui'.hist \in {"none", ui'.range}]_vars

\* The curves of the range that stays chosen arrive, and stay.
RangeArrives ==
    \A r \in Ranges : <>[](ui.page = "system" /\ ui.range = r) => <>[](ui.hist = r)

\* "EventSource reconnecte seul ; rien a faire ici": a live page that stays open
\* ends up with the numbers of the server and without an error, although its
\* first read may be answered after a message of the stream, or fail.
CatchesUp ==
    \A p \in LivePages : <>[](ui.page = p) => <>[](ui.snap = now /\ ~ui.err)

\* The three buttons of the system page are disabled exactly while the action
\* it ordered is in flight, and it orders one at a time.
BusyHasCall ==
    LET mine == {c \in calls : c.own /\ c.kind = "action"}
    IN  Cardinality(mine) = IF ui.busy THEN 1 ELSE 0

\* The same of every well-formed state of page, stream and requests.
ConsoleHasItsCalls == TypeOK /\ BusyHasCall

\* Once nothing that the page sent is on its way, the list of users shows the
\* account as it is, whatever was ordered, read and answered in which order.  The
\* exceptions are those the code has: a request failed (an error is shown), or
\* somebody else changed the account after the last list that was shown had been
\* read, or that list had been overtaken by another.
ListIsCurrent ==
    LET Asks == {c \in calls : c.own /\ c.kind \in Fields \cup {"users", "delete"}}
    IN  ui.page = "users" /\ ~ui.err /\ ~missed /\ Asks = {} => ui.shown = row

BrokenAtGaps ==
    \A s \in Histories :
        Lines(s) = {l \in Sampled(s) \X Sampled(s) : l[2] = l[1] + 1}

AllFit ==
    \A s \in Histories : \A i \in Sampled(s) :
        /\ Height(s, i) \in 0..PlotHeight /\ Bar(s, i) \in 0..100
        /\ Gauge(50 * s[i]) \in 0..100

\* The drawings of a live page are true to their data.  A curve joins the
\* neighbours that were both recorded, and no others: no line is drawn over a
\* time when nothing was.  Every point lies in the drawing, however the values
\* lie; a flat curve and a week without downloads are drawn too, and a gauge is
\* at most full.
ChartsAreTrue == ui.page \in LivePages => BrokenAtGaps /\ AllFit

=============================================================================
