------------------------------- MODULE Session --------------------------------
(***************************************************************************)
(* One account, one browser tab and the server between them: the user that *)
(* AuthContext.tsx shows, the pages and their guards (App.tsx,             *)
(* AdminLayout.tsx), the forms (LoginPage, RegisterPage,                   *)
(* ChangePasswordPage), the session cookie and the sessions of the server  *)
(* (auth.py, sessions.py) and what the administrator does to the account   *)
(* (admin.py).  The throttling of the login (bruteforce.py) only refuses:  *)
(* it is part of VerifyLogin.                                              *)
(*                                                                         *)
(* The cookie belongs to the browser and the user to the tab.  A request   *)
(* carries the cookie of the moment it is sent; its answer comes later,    *)
(* out of order with the others, or never.  Redirections by a guard are    *)
(* part of the step that renders the page.                                 *)
(***************************************************************************)
EXTENDS Integers, FiniteSets

CONSTANTS MaxTokens,  \* bound: sessions that are ever created
          MaxCalls    \* bound: requests of the tab in flight

ASSUME SessionBounds ==
    MaxTokens \in Nat \ {0} /\ MaxCalls \in Nat \ {0}

Tokens == 1..MaxTokens
NoToken == 0

VARIABLES
  account,   \* the row: status, must (must_change_password), admin
  live,      \* rows of the table of sessions, by token
  made,      \* tokens given out
  cookie,    \* of the browser
  user,      \* of the tab: in (not null), must, admin
  loading, page,
  call,      \* the request in flight of each kind
  drift      \* what the tab shows wrongly: "who", "must"; read by no action

serverVars == <<account, live, made>>
tabVars    == <<user, loading, page>>
vars       == <<serverVars, cookie, tabVars, call, drift>>

\* "account" stands for /compte and /historique; /a-propos is a page without
\* guard and without form, and left out.
Pages == {"home", "login", "register", "change", "account", "admin"}
Kinds == {"me", "refresh", "login", "register", "change", "logout"}

\* st: sent, the row is read or written ("granted"),
\* and the answer: "ok" or "no".  tok: the cookie that was sent, then the one
\* that comes back.  must: what the form assumed, or the answer says.  old:
\* what has changed meanwhile, the session ("who") or the password ("must").
Idle == [st |-> "idle", tok |-> NoToken, must |-> FALSE, old |-> {}]
Sent(tok) == [Idle EXCEPT !.st = "sent", !.tok = tok]

NoUser == [in |-> FALSE, must |-> FALSE, admin |-> FALSE]
Signed(must) == [in |-> TRUE, must |-> must, admin |-> account.admin]

HasRow == account.status = "active"

\* get_current_user: a live session of an account that still exists.
Valid(tok) == tok \in live /\ HasRow

TypeOK ==
    /\ account \in [status : {"none", "active", "deleted"},
                    must : BOOLEAN, admin : BOOLEAN]
    /\ live \subseteq 1..made /\ made \in 0..MaxTokens
    /\ cookie \in 0..made
    /\ user \in [in : BOOLEAN, must : BOOLEAN, admin : BOOLEAN]
    /\ loading \in BOOLEAN /\ page \in Pages /\ drift \subseteq {"who", "must"}
    /\ call \in [Kinds -> [st : {"idle", "sent", "granted", "ok", "no"},
                           tok : 0..made, must : BOOLEAN,
                           old : SUBSET {"who", "must"}]]
    /\ (page = "admin" /\ ~loading) => user.admin

-----------------------------------------------------------------------------
(* Pages and guards *)

\* ForcedPasswordGate, on the main page only.
Home(u) == IF u.must THEN "change" ELSE "home"

\* Faulty variant: RequireAuth does not wait for the first answer.
LandHasty(p, u, l) ==
    CASE p = "account" /\ ~u.in          -> "login"
      [] ~l /\ p = "home"                -> Home(u)
      [] ~l /\ p = "admin" /\ ~u.admin   -> Home(u)
      [] OTHER                           -> p

\* RequireAuth, ForcedPasswordGate and AdminLayout show nothing while loading.
Land(p, u, l) ==
    CASE ~l /\ p = "account" /\ ~u.in    -> "login"
      [] ~l /\ p = "home"                -> Home(u)
      [] ~l /\ p = "admin" /\ ~u.admin   -> Home(u)
      [] OTHER                           -> p

Show(u, l, p) == user' = u /\ loading' = l /\ page' = Land(p, u, l)

\* The provider mounts: refresh() asks who the visitor is.
Mounted(p, tok) ==
    /\ Show(NoUser, TRUE, p)
    /\ call' = [k \in Kinds |-> IF k = "me" THEN Sent(tok) ELSE Idle]
    /\ drift' = {}

\* A visitor without an account, or an administrator who has signed in
\* earlier or not.
Init ==
    /\ \E s \in {"none", "active"}, m \in BOOLEAN :
          /\ account = [status |-> s, must |-> m /\ s = "active",
                        admin |-> s = "active"]
          /\ cookie \in IF s = "active" THEN {NoToken, 1} ELSE {NoToken}
    /\ made = cookie /\ live = 1..cookie
    /\ page \in Pages
    /\ user = NoUser /\ loading = TRUE
    /\ call = [k \in Kinds |-> IF k = "me" THEN Sent(cookie) ELSE Idle]
    /\ drift = {}

\* The page is loaded anew; nobody waits for what is in flight.
Load == Mounted(page, cookie) /\ UNCHANGED <<serverVars, cookie>>

\* A link of the header, of the drawer or of a page.  The drawer offers
\* /admin to administrators.
Go(p) ==
    /\ p # page
    /\ p = "admin" => user.admin
    /\ Show(user, loading, p)
    /\ UNCHANGED <<serverVars, cookie, call, drift>>

-----------------------------------------------------------------------------
(* What the tab sends *)

Send(k, c) ==
    /\ call[k].st = "idle"
    /\ Cardinality({j \in Kinds : call[j].st # "idle"}) < MaxCalls
    /\ call' = [call EXCEPT ![k] = c]
    /\ UNCHANGED <<serverVars, cookie, tabVars, drift>>

\* The buttons of the forms are disabled until the answer is there.
SubmitLogin == page = "login" /\ Send("login", Sent(NoToken))
SubmitRegister == page = "register" /\ Send("register", Sent(NoToken))

\* The field of the current password is shown unless the user whom the page
\* knows must change a temporary one.
AsksCurrent == ~(user.in /\ user.must)

SubmitChange ==
    /\ page = "change"
    /\ Send("change", [Sent(cookie) EXCEPT !.must = ~AsksCurrent])

\* The menu of the account is on every page outside /admin.
ClickLogout ==
    /\ user.in /\ page # "admin"
    /\ Send("logout", Sent(cookie))

-----------------------------------------------------------------------------
(* The server *)

Answered(k, c) ==
    /\ call' = [call EXCEPT ![k] = c]
    /\ UNCHANGED <<cookie, tabVars, drift>>

Answer(k, st, must) == [st |-> st, tok |-> NoToken, must |-> must,
                        old |-> call[k].old]
Refuse(k) == Answered(k, Answer(k, "no", FALSE))

ServeMe(k) ==
    /\ k \in {"me", "refresh"} /\ call[k].st = "sent"
    /\ IF Valid(call[k].tok)
       THEN Answered(k, Answer(k, "ok", account.must))
       ELSE Refuse(k)
    /\ UNCHANGED serverVars

\* Too many attempts, a wrong password and a suspended account are refused.
VerifyLogin ==
    /\ call["login"].st = "sent"
    /\ \/ Refuse("login")
       \/ /\ account.status = "active"
          /\ Answered("login", [call["login"] EXCEPT !.st = "granted",
                                                     !.must = account.must])
    /\ UNCHANGED serverVars

\* A new pseudo: the row is committed before its first session is.  A pseudo
\* whose account was deleted could be taken again, by another account than the
\* one of this module: that request is only ever lost here.
ServeRegister ==
    /\ call["register"].st = "sent"
    /\ account.status # "deleted"
    /\ IF account.status = "none"
       THEN /\ account' = [account EXCEPT !.status = "active"]
            /\ Answered("register", [call["register"] EXCEPT !.st = "granted"])
       ELSE Refuse("register") /\ UNCHANGED account
    /\ UNCHANGED <<live, made>>

\* create_session, for a row that may be gone by now.
CreateSession(k) ==
    /\ call[k].st = "granted"
    /\ made < MaxTokens
    /\ made' = made + 1
    /\ live' = live \cup {made'}
    /\ Answered(k, [call[k] EXCEPT !.st = "ok", !.tok = made'])
    /\ UNCHANGED <<account>>

\* The right or wrong current password, unless the server wants none.
ServeChange ==
    /\ call["change"].st = "sent"
    /\ \/ /\ Valid(call["change"].tok)
          /\ account.must \/ ~call["change"].must
          /\ account' = [account EXCEPT !.must = FALSE]
          /\ call' = [k \in Kinds |->
                CASE k = "change" -> Answer(k, "ok", FALSE)
                  [] k \in {"me", "refresh", "login"} /\ call[k].st # "idle" ->
                         [call[k] EXCEPT !.old = @ \cup {"must"}]
                  [] OTHER -> call[k]]
          /\ UNCHANGED <<cookie, tabVars, drift>>
       \/ /\ ~(Valid(call["change"].tok) /\ account.must)
          /\ Refuse("change") /\ UNCHANGED account
    /\ UNCHANGED <<live, made>>

ServeLogout ==
    /\ call["logout"].st = "sent"
    /\ live' = live \ {call["logout"].tok}
    /\ Answered("logout", Answer("logout", "ok", FALSE))
    /\ UNCHANGED <<account, made>>

Server == \/ \E k \in Kinds : ServeMe(k) \/ CreateSession(k)
          \/ VerifyLogin \/ ServeRegister
          \/ ServeChange \/ ServeLogout

-----------------------------------------------------------------------------
(* The answers in the tab *)

\* What asked under another cookie, or before, is overtaken.
Overtaken(ks) ==
    [k \in Kinds |-> IF k \in ks /\ call[k].st # "idle"
                      THEN [call[k] EXCEPT !.old = @ \cup {"who"}] ELSE call[k]]

\* login and register of the provider; the page then navigates.
SignIn(k, p) ==
    /\ call[k].st = "ok"
    /\ cookie' = call[k].tok
    /\ Show(Signed(call[k].must), loading, p)
    /\ call' = [Overtaken({"me", "refresh"}) EXCEPT ![k] = Idle]
    /\ drift' = call[k].old
    /\ UNCHANGED serverVars

LoginAnswered == SignIn("login", IF call["login"].must THEN "change" ELSE "home")
RegisterAnswered == SignIn("register", "home")

\* Faulty variant: the user stays on the screen.
SignOutKeeping ==
    /\ call["logout"].st = "ok"
    /\ cookie' = NoToken
    /\ Show(user, loading, "home")
    /\ call' = [Overtaken({"me", "refresh"}) EXCEPT !["logout"] = Idle]
    /\ drift' = {}
    /\ UNCHANGED serverVars

SignOut ==
    /\ call["logout"].st = "ok"
    /\ cookie' = NoToken
    /\ Show(NoUser, loading, "home")
    /\ call' = [Overtaken({"me", "refresh"}) EXCEPT !["logout"] = Idle]
    /\ drift' = {}
    /\ UNCHANGED serverVars

\* Faulty variant: the page goes on with the user it had.
ChangedOnly ==
    /\ call["change"].st = "ok"
    /\ Show(user, loading, "account")
    /\ call' = [call EXCEPT !["change"] = Idle]
    /\ UNCHANGED <<serverVars, cookie, drift>>

\* The password is changed: the page asks for the user again.
Changed ==
    /\ call["change"].st = "ok"
    /\ call["refresh"].st = "idle"
    /\ call' = [call EXCEPT !["change"] = Idle, !["refresh"] = Sent(cookie)]
    /\ UNCHANGED <<serverVars, cookie, tabVars, drift>>

\* refresh(), of the provider and of ChangePasswordPage, which then goes to
\* /compte: any failure is "nobody".
Refreshed(k, ok) ==
    /\ k \in {"me", "refresh"}
    /\ Show(IF ok THEN Signed(call[k].must) ELSE NoUser,
            loading /\ k # "me",
            IF k = "refresh" THEN "account" ELSE page)
    /\ call' = [Overtaken(IF k = "refresh" THEN {"me"} ELSE {}) EXCEPT ![k] = Idle]
    /\ UNCHANGED <<serverVars, cookie>>

MeAnswer(k) ==
    /\ call[k].st \in {"ok", "no"}
    /\ Refreshed(k, call[k].st = "ok")
    /\ drift' = call[k].old

MeLost(k) ==
    /\ call[k].st # "idle"
    /\ Refreshed(k, FALSE)
    /\ drift' = {"who"}

\* The form shows an error, the menu nothing; the server may have done its
\* part.  A server that stops between two commits looks the same.
Failed(k) ==
    /\ k \notin {"me", "refresh"}
    /\ call[k].st # "idle"
    /\ call' = [call EXCEPT ![k] = Idle]
    /\ drift' = drift \cup (IF k = "change" /\ call[k].st = "ok"
                           THEN {"must"} ELSE {})
    /\ UNCHANGED <<serverVars, cookie, tabVars>>

Deliver(k) == \/ MeAnswer(k) \/ MeLost(k) \/ Failed(k)
              \/ k = "login" /\ LoginAnswered
              \/ k = "register" /\ RegisterAnswered
              \/ k = "logout" /\ SignOut
              \/ k = "change" /\ Changed

-----------------------------------------------------------------------------
(* The others *)

\* reset_password and delete_user: a reset leaves the sessions.  A suspension
\* leaves them too, and only refuses the login.
Administrate(a, l) ==
    /\ HasRow
    /\ account' = a /\ live' = l
    /\ UNCHANGED <<made, cookie, tabVars, call, drift>>

Admin ==
    \/ Administrate([account EXCEPT !.must = TRUE], live)
    \/ Administrate([account EXCEPT !.status = "deleted"], {})

\* expires_at of a session is reached.
Expire ==
    /\ live # {}
    /\ \E t \in live : live' = live \ {t}
    /\ UNCHANGED <<account, made, cookie, tabVars, call, drift>>

\* The max_age of the cookie is the life of its session, counted from the answer
\* that brought it: the browser drops it just after, and tells no tab.
DropCookie ==
    /\ cookie # NoToken /\ cookie \notin live
    /\ cookie' = NoToken
    /\ drift' = IF user.in THEN drift \cup {"who"} ELSE drift
    /\ call' = Overtaken({"me", "refresh"})
    /\ UNCHANGED <<serverVars, tabVars>>

\* Another tab of the browser signs out, or in.
OtherTab ==
    /\ \/ /\ cookie # NoToken
          /\ cookie' = NoToken /\ live' = live \ {cookie} /\ UNCHANGED made
       \/ /\ account.status = "active" /\ made < MaxTokens
          /\ made' = made + 1 /\ cookie' = made' /\ live' = live \cup {made'}
    /\ drift' = drift \cup {"who"}
    /\ call' = Overtaken({"me", "refresh"})
    /\ UNCHANGED <<account, tabVars>>

-----------------------------------------------------------------------------

Next == \/ Load \/ \E p \in Pages : Go(p)
        \/ SubmitLogin \/ SubmitRegister \/ SubmitChange \/ ClickLogout
        \/ Server
        \/ \E k \in Kinds : Deliver(k)
        \/ Admin \/ Expire \/ DropCookie \/ OtherTab

Spec == Init /\ [][Next]_vars

-----------------------------------------------------------------------------
(* Properties *)

\* The tab shows a user only while the browser has a session cookie, and
\* nobody only when the cookie opens no session.  The exceptions are those that
\* drift names: another tab has changed the cookie, the browser has dropped it
\* because of its age under a user who is shown, an answer was lost, or
\* refresh() was overtaken by a login, a logout or a later refresh() and its
\* answer came last.
Agreement ==
    loading \/ "who" \in drift
        \/ IF user.in THEN cookie # NoToken ELSE ~Valid(cookie)

\* The same of every well-formed state of account, sessions, tab and requests.
TabAgrees == TypeOK /\ Agreement

\* A page that does not ask for the current password belongs to an account of
\* which the server does not ask it either, so that the form can succeed;
\* unless the change is under way, or its answer was lost or overtaken.
FormCanSucceed ==
    ~AsksCurrent /\ ~account.must =>
        drift # {} \/ call["change"].st = "ok" \/ call["refresh"].st # "idle"

\* A visitor with a valid session who opens a page that needs one, or loads it
\* anew, is not sent to the login page; only a link (which sends nothing) leads
\* there.
KnownVisitorStays ==
    [][page = "account" /\ page' = "login" /\ ~user'.in /\ call' # call =>
           "who" \in drift' \/ ~Valid(cookie)]_vars

=============================================================================
