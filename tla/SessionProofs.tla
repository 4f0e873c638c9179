--------------------------- MODULE SessionProofs ----------------------------
(***************************************************************************)
(* Theorems about Session, for every number of sessions that are created   *)
(* and of requests in flight.                                              *)
(***************************************************************************)
EXTENDS Session, TLAPS

-----------------------------------------------------------------------------
(* The inductive invariant *)

AccountType == [status : {"none", "active", "deleted"},
                must : BOOLEAN, admin : BOOLEAN]

UserType == [in : BOOLEAN, must : BOOLEAN, admin : BOOLEAN]

CallType(m) == [st   : {"idle", "sent", "granted", "ok", "no"},
                tok  : 0..m, must : BOOLEAN,
                old  : SUBSET {"who", "must"}]

Asking == {"me", "refresh"}

\* What a request or its answer, c, knows of the state it will be told in:
\* the cookie of the browser, whether it opens a session, and whether the
\* password must be changed.  An answer that is not overtaken is still true
\* when it arrives: every step that could make it false marks it as old.
CallOK(k, c, tok, valid, must) ==
    /\ k \in Asking /\ c.st # "idle" /\ "who" \notin c.old =>
          /\ c.st = "sent" => c.tok = tok
          /\ c.st = "ok" => tok # NoToken
          /\ c.st = "no" => ~ valid
    /\ k \in {"me", "refresh", "login"} /\ c.st \in {"granted", "ok"}
          /\ c.must /\ "must" \notin c.old => must
    /\ k = "register" => ~ c.must
    /\ c.st = "granted" => k \in {"login", "register"}
    /\ k \in {"login", "register"} /\ c.st = "ok" => c.tok # NoToken

Calls ==
    \A k \in Kinds : CallOK(k, call[k], cookie, Valid(cookie), account.must)

\* A pseudo that nobody has taken has no session, and none is under way.
NoneIsNew ==
    account.status = "none" =>
        live = {} /\ \A k \in Kinds : call[k].st # "granted"

IInv == TypeOK /\ Agreement /\ FormCanSucceed /\ Calls /\ NoneIsNew

-----------------------------------------------------------------------------
(* Records *)

LEMMA TypeFacts ==
    ASSUME TypeOK
    PROVE  /\ account \in AccountType /\ user \in UserType
           /\ loading \in BOOLEAN /\ page \in Pages
           /\ made \in Nat /\ 0 \in 0..made /\ cookie \in 0..made
           /\ call \in [Kinds -> CallType(made)]
           /\ \A k \in Kinds : call[k] \in CallType(made)
           /\ 0 \notin live
           /\ NoUser \in UserType /\ ~ NoUser.in
           /\ \A m \in BOOLEAN : Signed(m) \in UserType /\ Signed(m).in
                                 /\ Signed(m).must = m
<1>1. made \in Nat /\ 0 \in 0..made /\ 0 \notin 1..made
  BY SessionBounds DEF TypeOK
<1>2. QED
  BY <1>1 DEF TypeOK, AccountType, UserType, CallType, NoUser, Signed

\* An answer that the page waits for, and none.
LEMMA SentFacts ==
    ASSUME TypeOK, NEW tok \in 0..made
    PROVE  /\ Idle \in CallType(made) /\ Idle.st = "idle"
           /\ Sent(tok) \in CallType(made) /\ Sent(tok).st = "sent"
           /\ Sent(tok).tok = tok /\ ~ Sent(tok).must
           /\ Sent(tok).old = {}
           /\ \A k \in Kinds : \A t, v, m : CallOK(k, Idle, t, v, m)
<1>1. 0 \in 0..made
  BY TypeFacts
<1>2. Idle \in CallType(made) /\ Idle.st = "idle" /\ Idle.must = FALSE
  BY <1>1 DEF CallType, Idle, NoToken
<1>3. /\ Sent(tok) \in CallType(made) /\ Sent(tok).st = "sent"
      /\ Sent(tok).tok = tok /\ ~ Sent(tok).must /\ Sent(tok).old = {}
  BY DEF CallType, Sent, Idle
<1>4. \A k \in Kinds : \A t, v, m : CallOK(k, Idle, t, v, m)
  BY <1>2 DEF CallOK
<1>5. QED
  BY <1>2, <1>3, <1>4

\* The guards lead to a page that may be shown, and to the login page only
\* somebody who is not signed in.
LEMMA ShowFacts ==
    ASSUME NEW u \in UserType, NEW l \in BOOLEAN, NEW p \in Pages, Show(u, l, p)
    PROVE  /\ user' = u /\ loading' = l /\ page' \in Pages
           /\ page' = "admin" /\ ~ l => u.admin
           /\ page' = "login" => p = "login" \/ (p = "account" /\ ~ l)
<1>1. Home(u) \in {"home", "change"}
  BY DEF Home
<1>2. QED
  BY <1>1 DEF Show, Land, Pages

\* What is overtaken keeps all but its age.
LEMMA OvertakenFacts ==
    ASSUME TypeOK, NEW ks \in SUBSET Kinds
    PROVE  /\ Overtaken(ks) \in [Kinds -> CallType(made)]
           /\ \A k \in Kinds :
                 LET o == Overtaken(ks)[k]
                 IN  /\ o.st = call[k].st /\ o.tok = call[k].tok
                     /\ o.must = call[k].must
                     /\ call[k].old \subseteq o.old
                     /\ "must" \in o.old => "must" \in call[k].old
                     /\ k \in ks /\ o.st # "idle" => "who" \in o.old
                     /\ k \notin ks => o = call[k]
<1>1. ASSUME NEW k \in Kinds
      PROVE  LET o == Overtaken(ks)[k]
             IN  /\ o \in CallType(made)
                 /\ o.st = call[k].st /\ o.tok = call[k].tok
                 /\ o.must = call[k].must
                 /\ call[k].old \subseteq o.old
                 /\ "must" \in o.old => "must" \in call[k].old
                 /\ k \in ks /\ o.st # "idle" => "who" \in o.old
                 /\ k \notin ks => o = call[k]
  <2> DEFINE new == [call[k] EXCEPT !.old = @ \cup {"who"}]
  <2>1. Overtaken(ks)[k] = IF k \in ks /\ call[k].st # "idle" THEN new ELSE call[k]
    BY DEF Overtaken
  <2>2. call[k] \in CallType(made)
    BY TypeFacts
  <2>3. /\ new \in CallType(made) /\ new.st = call[k].st
        /\ new.tok = call[k].tok /\ new.must = call[k].must
        /\ new.old = call[k].old \cup {"who"}
    BY <2>2 DEF CallType
  <2> HIDE DEF new
  <2>4. QED
    BY <2>1, <2>2, <2>3
<1>2. Overtaken(ks) = [k \in Kinds |-> Overtaken(ks)[k]]
  BY DEF Overtaken
<1>3. QED
  BY <1>1, <1>2

-----------------------------------------------------------------------------
(* Requests, when nothing or when the cookie changes *)

\* As long as the cookie opens no more than it did, and no password becomes
\* permanent, what the requests know stays true.
LEMMA CallsStay ==
    ASSUME TypeOK, Calls, cookie' = cookie, Valid(cookie)' => Valid(cookie),
           account.must => account'.must
    PROVE  \A k \in Kinds :
              CallOK(k, call[k], cookie', Valid(cookie)', account'.must)
BY DEF Calls, CallOK

\* One request is replaced by what it becomes.
LEMMA CallSet ==
    ASSUME TypeOK, Calls, cookie' = cookie, Valid(cookie)' => Valid(cookie),
           account.must => account'.must,
           made \in 0..made', made' \in 0..MaxTokens,
           NEW k \in Kinds, NEW c \in CallType(made'), call' = [call EXCEPT ![k] = c],
           CallOK(k, c, cookie', Valid(cookie)', account'.must)
    PROVE  /\ call' \in [Kinds -> CallType(made')] /\ Calls'
           /\ call'[k] = c
           /\ \A j \in Kinds : j # k => call'[j] = call[j]
<1>1. \A j \in Kinds : call[j] \in CallType(made')
  <2>1. 0..made \subseteq 0..made'
    BY TypeFacts, SessionBounds
  <2>2. QED
    BY <2>1, TypeFacts DEF CallType
<1>2. /\ call'[k] = c
      /\ \A j \in Kinds : j # k => call'[j] = call[j]
  BY TypeFacts
<1>3. call' \in [Kinds -> CallType(made')]
  BY <1>1, TypeFacts
<1>4. Calls'
  BY <1>2, CallsStay DEF Calls
<1>5. QED
  BY <1>2, <1>3, <1>4

\* A new cookie overtakes those who ask who the visitor is.
LEMMA CookieChanges ==
    ASSUME TypeOK, Calls, NEW tok, NEW valid
    PROVE  \A k \in Kinds :
              CallOK(k, Overtaken(Asking)[k], tok, valid, account.must)
<1> DEFINE o == Overtaken(Asking)
<1>1. \A k \in Kinds :
         /\ o[k].st = call[k].st /\ o[k].tok = call[k].tok
         /\ o[k].must = call[k].must
         /\ "must" \in call[k].old => "must" \in o[k].old
         /\ k \in Asking /\ o[k].st # "idle" => "who" \in o[k].old
  BY OvertakenFacts DEF Asking, Kinds
<1> HIDE DEF o
<1>2. \A k \in Kinds : CallOK(k, o[k], tok, valid, account.must)
  BY <1>1 DEF Calls, CallOK
<1>3. QED
  BY <1>2 DEF o

-----------------------------------------------------------------------------
(* The tab, when the server or the administrator acts *)

LEMMA TabStays ==
    ASSUME IInv, Valid(cookie)' => Valid(cookie),
           UNCHANGED <<cookie, tabVars, drift>>
    PROVE  Agreement'
BY DEF IInv, Agreement, tabVars

LEMMA FormStays ==
    ASSUME IInv, UNCHANGED <<tabVars, drift>>,
           account.must => account'.must,
           call["change"].st = "ok" => call'["change"].st = "ok",
           call["refresh"].st # "idle" => call'["refresh"].st # "idle"
    PROVE  FormCanSucceed'
BY DEF IInv, FormCanSucceed, AsksCurrent, tabVars

-----------------------------------------------------------------------------
(* The tab sends *)

LEMMA LoadKeeps ==
    ASSUME IInv, Load
    PROVE  IInv'
<1>1. /\ Show(NoUser, TRUE, page) /\ drift' = {}
      /\ call' = [k \in Kinds |-> IF k = "me" THEN Sent(cookie) ELSE Idle]
      /\ UNCHANGED <<serverVars, cookie>>
  BY DEF Load, Mounted
<1>2. /\ user' = NoUser /\ loading' = TRUE /\ page' \in Pages
  BY <1>1, TypeFacts, ShowFacts DEF IInv
<1>3. /\ call' \in [Kinds -> CallType(made)]
      /\ \A k \in Kinds : call'[k] = IF k = "me" THEN Sent(cookie) ELSE Idle
  BY <1>1, TypeFacts, SentFacts DEF IInv
<1>4. \A v, m : CallOK("me", Sent(cookie), cookie, v, m)
  BY TypeFacts, SentFacts DEF IInv, CallOK
<1>5. Calls'
  <2> SUFFICES ASSUME NEW k \in Kinds
               PROVE  CallOK(k, call'[k], cookie', Valid(cookie)', account'.must)
    BY DEF Calls
  <2>1. cookie' = cookie /\ cookie \in 0..made
    BY <1>1, TypeFacts DEF IInv
  <2>2. CASE k = "me"
    BY <1>3, <1>4, <2>1, <2>2
  <2>3. CASE k # "me"
    BY <1>3, <2>1, <2>3, SentFacts DEF IInv
  <2>4. QED
    BY <2>2, <2>3
<1>6. TypeOK'
  BY <1>1, <1>2, <1>3, TypeFacts
  DEF IInv, TypeOK, CallType, UserType, serverVars
<1>7. FormCanSucceed'
  BY <1>2, TypeFacts DEF IInv, FormCanSucceed, AsksCurrent
<1>8. NoneIsNew'
  BY <1>1, <1>3, TypeFacts, SentFacts DEF IInv, NoneIsNew, serverVars
<1>9. QED
  BY <1>1, <1>2, <1>5, <1>6, <1>7, <1>8 DEF IInv, Agreement

LEMMA GoKeeps ==
    ASSUME IInv, NEW p \in Pages, Go(p)
    PROVE  IInv'
<1>1. /\ Show(user, loading, p)
      /\ UNCHANGED <<serverVars, cookie, call, drift>>
  BY DEF Go
<1>2. /\ user' = user /\ loading' = loading /\ page' \in Pages
      /\ page' = "admin" /\ ~ loading => user.admin
  BY <1>1, TypeFacts, ShowFacts DEF IInv
<1>3. TypeOK'
  BY <1>1, <1>2 DEF IInv, TypeOK, serverVars
<1>4. QED
  BY <1>1, <1>2, <1>3
  DEF IInv, Agreement, FormCanSucceed, AsksCurrent, Calls, NoneIsNew, Valid,
      HasRow, serverVars

LEMMA SendKeeps ==
    ASSUME IInv, NEW k \in Kinds, NEW c \in CallType(made), Send(k, c),
           k \in {"login", "register", "change", "logout"},
           c.st = "sent", k = "register" => ~ c.must
    PROVE  IInv'
<1>1. /\ call' = [call EXCEPT ![k] = c] /\ call[k].st = "idle"
      /\ UNCHANGED <<serverVars, cookie, tabVars, drift>>
  BY DEF Send
<1>2. CallOK(k, c, cookie', Valid(cookie)', account'.must)
  BY DEF CallOK, Asking
<1>3. /\ TypeOK /\ Calls /\ cookie' = cookie /\ made' = made
      /\ made \in 0..made' /\ made' \in 0..MaxTokens
      /\ account' = account
      /\ Valid(cookie)' => Valid(cookie)
  BY <1>1, TypeFacts DEF IInv, TypeOK, Valid, HasRow, serverVars
<1>4. /\ call' \in [Kinds -> CallType(made')] /\ Calls'
      /\ call'[k] = c
      /\ \A j \in Kinds : j # k => call'[j] = call[j]
  BY <1>1, <1>2, <1>3, CallSet
<1>5. TypeOK'
  BY <1>1, <1>4 DEF IInv, TypeOK, CallType, serverVars, tabVars
<1>6. Agreement'
  BY <1>1, <1>3, TabStays
<1>7. FormCanSucceed'
  BY <1>1, <1>3, <1>4, FormStays DEF Kinds
<1>8. QED
  BY <1>1, <1>4, <1>5, <1>6, <1>7 DEF IInv, NoneIsNew, serverVars

LEMMA SubmitKeeps ==
    ASSUME IInv, SubmitLogin \/ SubmitRegister \/ SubmitChange \/ ClickLogout
    PROVE  IInv'
<1>1. /\ NoToken \in 0..made /\ cookie \in 0..made /\ TypeOK
      /\ {"login", "register", "change", "logout"} \subseteq Kinds
  BY TypeFacts DEF IInv, NoToken, Kinds
<1>2. CASE SubmitLogin
  BY <1>1, <1>2, SentFacts, SendKeeps DEF SubmitLogin
<1>3. CASE SubmitRegister
  BY <1>1, <1>3, SentFacts, SendKeeps DEF SubmitRegister
<1>4. CASE ClickLogout
  BY <1>1, <1>4, SentFacts, SendKeeps DEF ClickLogout
<1>5. CASE SubmitChange
  <2> DEFINE new == [Sent(cookie) EXCEPT !.must = ~ AsksCurrent]
  <2>1. new \in CallType(made) /\ new.st = "sent"
    <3>1. (~ AsksCurrent) \in BOOLEAN
      BY DEF AsksCurrent
    <3> HIDE DEF new
    <3>2. Sent(cookie) \in CallType(made) /\ Sent(cookie).st = "sent"
      BY <1>1, SentFacts
    <3>3. QED
      BY <3>1, <3>2 DEF new, CallType
  <2>2. Send("change", new)
    BY <1>5 DEF SubmitChange
  <2> HIDE DEF new
  <2>3. QED
    BY <1>1, <2>1, <2>2, SendKeeps
<1>6. QED
  BY <1>2, <1>3, <1>4, <1>5

-----------------------------------------------------------------------------
(* The server *)

LEMMA AnswerFacts ==
    ASSUME TypeOK, NEW k \in Kinds, NEW st \in {"ok", "no"}, NEW must \in BOOLEAN
    PROVE  /\ Answer(k, st, must) \in CallType(made)
           /\ Answer(k, st, must).st = st /\ Answer(k, st, must).must = must
           /\ Answer(k, st, must).old = call[k].old
<1>1. call[k].old \in SUBSET {"who", "must"} /\ NoToken \in 0..made
  BY TypeFacts DEF CallType, NoToken
<1>2. QED
  BY <1>1 DEF Answer, CallType

\* The server goes on with one request; who has a session, and who must change
\* a password, is the same, or one more session exists that nobody uses yet.
LEMMA AnsweredKeeps ==
    ASSUME IInv, NEW k \in Kinds, NEW c \in CallType(made'), Answered(k, c),
           TypeOK', Valid(cookie)' => Valid(cookie),
           account'.status = "none" =>
              account.status = "none" /\ live' = live /\ c.st # "granted",
           account.must => account'.must,
           made \in 0..made',
           CallOK(k, c, cookie, Valid(cookie), account.must),
           k = "change" => c.st = "ok" \/ call[k].st # "ok",
           k = "refresh" => c.st # "idle"
    PROVE  IInv'
<1>1. /\ call' = [call EXCEPT ![k] = c]
      /\ UNCHANGED <<cookie, tabVars, drift>>
  BY DEF Answered
<1>2. CallOK(k, c, cookie', Valid(cookie)', account'.must)
  BY <1>1 DEF CallOK
<1>3. /\ TypeOK /\ Calls /\ cookie' = cookie /\ made' \in 0..MaxTokens
  BY <1>1 DEF IInv, TypeOK
<1>4. /\ Calls' /\ call'[k] = c
      /\ \A j \in Kinds : j # k => call'[j] = call[j]
  BY <1>1, <1>2, <1>3, CallSet
<1>5. Agreement'
  BY <1>1, TabStays
<1>6. FormCanSucceed'
  BY <1>1, <1>4, FormStays DEF Kinds
<1>7. NoneIsNew'
  BY <1>4 DEF IInv, NoneIsNew
<1>8. QED
  BY <1>4, <1>5, <1>6, <1>7 DEF IInv

\* The type, for a step of the server.
LEMMA AnsweredType ==
    ASSUME TypeOK, NEW k \in Kinds, NEW c \in CallType(made'), Answered(k, c),
           account' \in AccountType, live' \subseteq 1..made',
           made' \in 0..MaxTokens, made \in 0..made'
    PROVE  TypeOK'
<1>1. /\ call' = [call EXCEPT ![k] = c]
      /\ UNCHANGED <<cookie, tabVars, drift>>
  BY DEF Answered
<1>2. made' \in Nat /\ 0..made \subseteq 0..made'
  BY TypeFacts, SessionBounds
<1>3. call' \in [Kinds -> CallType(made')]
  <2>1. \A j \in Kinds : call[j] \in CallType(made')
    BY <1>2, TypeFacts DEF CallType
  <2>2. QED
    BY <1>1, <2>1, TypeFacts
<1>4. cookie' \in 0..made'
  BY <1>1, <1>2, TypeFacts
<1>5. QED
  BY <1>1, <1>3, <1>4 DEF TypeOK, CallType, AccountType, tabVars

\* A refusal, or any answer that changes no table.
LEMMA ReplyKeeps ==
    ASSUME IInv, NEW k \in Kinds, NEW c \in CallType(made), Answered(k, c),
           UNCHANGED serverVars, call[k].st = "sent", c.st # "idle",
           c.st = "granted" => account.status # "none",
           CallOK(k, c, cookie, Valid(cookie), account.must)
    PROVE  IInv'
<1>1. /\ account' = account /\ live' = live /\ made' = made /\ TypeOK
      /\ account \in AccountType /\ live \subseteq 1..made
      /\ made \in 0..MaxTokens /\ made \in 0..made
  BY TypeFacts DEF IInv, TypeOK, serverVars
<1>2. TypeOK'
  BY <1>1, AnsweredType
<1>3. Valid(cookie)' => Valid(cookie)
  BY <1>1 DEF Answered, Valid, HasRow
<1>4. QED
  BY <1>1, <1>2, <1>3, AnsweredKeeps

LEMMA RefuseOK ==
    ASSUME IInv, NEW k \in Kinds,
           k \in Asking => call[k].st = "sent" /\ ~ Valid(call[k].tok)
    PROVE  CallOK(k, Answer(k, "no", FALSE), cookie, Valid(cookie), account.must)
<1> DEFINE c == Answer(k, "no", FALSE)
<1>1. c.st = "no" /\ ~ c.must /\ c.old = call[k].old
  BY AnswerFacts DEF IInv
<1>2. k \in Asking /\ "who" \notin call[k].old => call[k].tok = cookie
  BY DEF IInv, Calls, CallOK
<1> HIDE DEF c
<1>3. CallOK(k, c, cookie, Valid(cookie), account.must)
  BY <1>1, <1>2 DEF CallOK
<1>4. QED
  BY <1>3 DEF c

LEMMA ServeMeKeeps ==
    ASSUME IInv, NEW k \in Kinds, ServeMe(k)
    PROVE  IInv'
<1>1. /\ k \in Asking /\ call[k].st = "sent" /\ UNCHANGED serverVars
      /\ IF Valid(call[k].tok)
         THEN Answered(k, Answer(k, "ok", account.must))
         ELSE Answered(k, Answer(k, "no", FALSE))
      /\ TypeOK /\ account.must \in BOOLEAN
  BY TypeFacts DEF IInv, ServeMe, Refuse, Asking, AccountType
<1>2. CASE Valid(call[k].tok)
  <2> DEFINE c == Answer(k, "ok", account.must)
  <2>1. /\ c \in CallType(made) /\ c.st = "ok" /\ c.must = account.must
        /\ c.old = call[k].old
    BY <1>1, AnswerFacts
  <2>2. "who" \notin call[k].old => cookie # NoToken
    <3>1. "who" \notin call[k].old => call[k].tok = cookie
      BY <1>1 DEF IInv, Calls, CallOK
    <3>2. call[k].tok # NoToken
      BY <1>1, <1>2, TypeFacts DEF Valid, NoToken
    <3>3. QED
      BY <3>1, <3>2
  <2>3. Answered(k, c)
    BY <1>1, <1>2
  <2> HIDE DEF c
  <2>4. CallOK(k, c, cookie, Valid(cookie), account.must)
    BY <1>1, <2>1, <2>2 DEF CallOK, Asking
  <2>5. QED
    BY <1>1, <2>1, <2>3, <2>4, ReplyKeeps
<1>3. CASE ~ Valid(call[k].tok)
  <2>1. CallOK(k, Answer(k, "no", FALSE), cookie, Valid(cookie), account.must)
    BY <1>1, <1>3, RefuseOK
  <2>2. /\ Answer(k, "no", FALSE) \in CallType(made)
        /\ Answer(k, "no", FALSE).st = "no"
    BY <1>1, AnswerFacts
  <2>3. QED
    BY <1>1, <1>3, <2>1, <2>2, ReplyKeeps
<1>4. QED
  BY <1>2, <1>3

LEMMA RefuseKeeps ==
    ASSUME IInv, NEW k \in Kinds, k \notin Asking, Refuse(k), UNCHANGED serverVars,
           call[k].st = "sent"
    PROVE  IInv'
<1>1. CallOK(k, Answer(k, "no", FALSE), cookie, Valid(cookie), account.must)
  BY RefuseOK
<1>2. /\ Answer(k, "no", FALSE) \in CallType(made)
      /\ Answer(k, "no", FALSE).st = "no"
  BY AnswerFacts DEF IInv
<1>3. Answered(k, Answer(k, "no", FALSE))
  BY DEF Refuse
<1>4. QED
  BY <1>1, <1>2, <1>3, ReplyKeeps

LEMMA VerifyLoginKeeps ==
    ASSUME IInv, VerifyLogin
    PROVE  IInv'
<1>1. /\ call["login"].st = "sent" /\ UNCHANGED serverVars
      /\ "login" \in Kinds /\ "login" \notin Asking /\ TypeOK
      /\ call["login"] \in CallType(made) /\ account.must \in BOOLEAN
  BY TypeFacts DEF IInv, VerifyLogin, Kinds, Asking, AccountType
<1>2. CASE Refuse("login")
  BY <1>1, <1>2, RefuseKeeps
<1>3. CASE /\ account.status = "active"
           /\ Answered("login", [call["login"] EXCEPT !.st = "granted",
                                                      !.must = account.must])
  <2> DEFINE c == [call["login"] EXCEPT !.st = "granted", !.must = account.must]
  <2>1. /\ c \in CallType(made) /\ c.st = "granted" /\ c.must = account.must
    BY <1>1 DEF CallType
  <2> HIDE DEF c
  <2>2. CallOK("login", c, cookie, Valid(cookie), account.must)
    BY <2>1 DEF CallOK, Asking
  <2>3. Answered("login", c) /\ account.status # "none"
    BY <1>3 DEF c
  <2>4. QED
    BY <1>1, <2>1, <2>2, <2>3, ReplyKeeps
<1>4. QED
  BY <1>2, <1>3 DEF VerifyLogin

\* A pseudo becomes an account without a session.
LEMMA ServeRegisterKeeps ==
    ASSUME IInv, ServeRegister
    PROVE  IInv'
<1>1. /\ call["register"].st = "sent" /\ UNCHANGED <<live, made>> /\ TypeOK
      /\ "register" \in Kinds /\ "register" \notin Asking
      /\ call["register"] \in CallType(made) /\ account \in AccountType
      /\ live \subseteq 1..made /\ made \in 0..MaxTokens /\ made \in 0..made
  BY TypeFacts DEF IInv, TypeOK, ServeRegister, Kinds, Asking
<1>2. CASE account.status = "none"
  <2> DEFINE c   == [call["register"] EXCEPT !.st = "granted"]
             acc == [account EXCEPT !.status = "active"]
  <2>1. Answered("register", c) /\ account' = acc
    BY <1>2 DEF ServeRegister
  <2>2. /\ c \in CallType(made) /\ c.st = "granted"
        /\ c.must = call["register"].must
    BY <1>1 DEF CallType
  <2>3. /\ acc \in AccountType /\ acc.status = "active"
        /\ acc.must = account.must
    BY <1>1 DEF AccountType
  <2> HIDE DEF c, acc
  <2>4. CallOK("register", c, cookie, Valid(cookie), account.must)
    <3>1. "register" \in Kinds => ~ call["register"].must
      BY DEF IInv, Calls, CallOK
    <3>2. QED
      BY <1>1, <2>2, <3>1 DEF CallOK, Asking
  <2>5. TypeOK'
    BY <1>1, <2>1, <2>2, <2>3, AnsweredType
  <2>6. ~ Valid(cookie)'
    BY <1>1, <1>2 DEF IInv, NoneIsNew, Valid
  <2>7. QED
    BY <1>1, <2>1, <2>2, <2>3, <2>4, <2>5, <2>6, AnsweredKeeps
<1>3. CASE account.status # "none"
  <2>1. Refuse("register") /\ UNCHANGED serverVars
    BY <1>1, <1>3 DEF ServeRegister, serverVars
  <2>2. QED
    BY <1>1, <2>1, RefuseKeeps
<1>4. QED
  BY <1>2, <1>3

\* A new session belongs to nobody's cookie yet.
LEMMA CreateSessionKeeps ==
    ASSUME IInv, NEW k \in Kinds, CreateSession(k)
    PROVE  IInv'
<1> DEFINE c == [call[k] EXCEPT !.st = "ok", !.tok = made']
<1>1. /\ call[k].st = "granted" /\ made' = made + 1 /\ made < MaxTokens
      /\ live' = live \cup {made'} /\ account' = account
      /\ Answered(k, c) /\ TypeOK
  BY DEF IInv, CreateSession
<1>2. /\ made \in Nat /\ made' \in 0..MaxTokens /\ made \in 0..made'
      /\ made' \in 0..made' /\ 0..made \subseteq 0..made' /\ made' # 0
      /\ made' \notin 0..made /\ 1..made \subseteq 1..made' /\ made' \in 1..made'
  BY <1>1, TypeFacts, SessionBounds DEF TypeOK
<1>3. /\ c \in CallType(made') /\ c.st = "ok" /\ c.tok = made'
      /\ c.must = call[k].must /\ c.old = call[k].old
  <2>1. call[k] \in CallType(made)
    BY <1>1, TypeFacts
  <2>2. QED
    BY <1>2, <2>1 DEF CallType
<1> HIDE DEF c
<1>4. k \in {"login", "register"} /\ k \notin Asking
  <2>1. CallOK(k, call[k], cookie, Valid(cookie), account.must)
    BY DEF IInv, Calls
  <2>2. QED
    BY <1>1, <2>1 DEF CallOK, Asking
<1>5. CallOK(k, c, cookie, Valid(cookie), account.must)
  <2>1. CallOK(k, call[k], cookie, Valid(cookie), account.must)
    BY DEF IInv, Calls
  <2>2. QED
    BY <1>1, <1>2, <1>3, <1>4, <2>1 DEF CallOK, NoToken
<1>6. TypeOK'
  <2>1. account' \in AccountType /\ live' \subseteq 1..made'
    BY <1>1, <1>2, TypeFacts DEF TypeOK
  <2>2. QED
    BY <1>1, <1>2, <1>3, <2>1, AnsweredType
<1>7. Valid(cookie)' => Valid(cookie)
  BY <1>1, <1>2, TypeFacts DEF Answered, Valid, HasRow
<1>8. account.status # "none"
  BY <1>1 DEF IInv, NoneIsNew
<1>9. QED
  BY <1>1, <1>2, <1>3, <1>4, <1>5, <1>6, <1>7, <1>8, AnsweredKeeps

\* The change of a password makes what others were told about it old.
LEMMA ServeChangeKeeps ==
    ASSUME IInv, ServeChange
    PROVE  IInv'
<1>1. /\ call["change"].st = "sent" /\ UNCHANGED <<live, made>> /\ TypeOK
      /\ "change" \in Kinds /\ "change" \notin Asking
      /\ account \in AccountType
  BY TypeFacts DEF IInv, ServeChange, Kinds, Asking
<1>2. CASE Refuse("change") /\ UNCHANGED account
  BY <1>1, <1>2, RefuseKeeps DEF serverVars
<1>3. CASE ~ (Refuse("change") /\ UNCHANGED account)
  <2> DEFINE Told(k) == k \in {"me", "refresh", "login"} /\ call[k].st # "idle"
             Old(k)  == [call[k] EXCEPT !.old = @ \cup {"must"}]
  <2>1. /\ account' = [account EXCEPT !.must = FALSE]
        /\ call' = [k \in Kinds |->
              CASE k = "change" -> Answer(k, "ok", FALSE)
                [] k \in {"me", "refresh", "login"} /\ call[k].st # "idle" ->
                       [call[k] EXCEPT !.old = @ \cup {"must"}]
                [] OTHER -> call[k]]
        /\ UNCHANGED <<cookie, tabVars, drift>>
    BY <1>3 DEF ServeChange
  <2>2. account' \in AccountType /\ account'.status = account.status
    BY <1>1, <2>1 DEF AccountType
  <2>3. /\ Answer("change", "ok", FALSE) \in CallType(made)
        /\ Answer("change", "ok", FALSE).st = "ok"
        /\ Answer("change", "ok", FALSE).must = FALSE
    BY <1>1, AnswerFacts
  <2>4. ASSUME NEW k \in Kinds
        PROVE  /\ Old(k) \in CallType(made) /\ Old(k).st = call[k].st
               /\ Old(k).tok = call[k].tok /\ Old(k).must = call[k].must
               /\ Old(k).old = call[k].old \cup {"must"}
    <3>1. call[k] \in CallType(made)
      BY <1>1, TypeFacts
    <3>2. QED
      BY <3>1 DEF CallType
  <2>5. /\ call'["change"] = Answer("change", "ok", FALSE)
        /\ \A k \in Kinds : Told(k) => call'[k] = Old(k)
        /\ \A k \in Kinds : k # "change" /\ ~ Told(k) => call'[k] = call[k]
    BY <1>1, <2>1
  <2> HIDE DEF Told, Old
  <2>6. \A k \in Kinds : call'[k] \in CallType(made)
    BY <1>1, <2>3, <2>4, <2>5, TypeFacts
  <2>7. call' \in [Kinds -> CallType(made)]
    <3>1. call' = [k \in Kinds |-> call'[k]]
      BY <2>1
    <3>2. QED
      BY <2>6, <3>1
  <2>8. Valid(cookie)' => Valid(cookie)
    BY <1>1, <2>1, <2>2 DEF Valid, HasRow
  <2>9. Calls'
    <3> SUFFICES ASSUME NEW k \in Kinds
                 PROVE  CallOK(k, call'[k], cookie', Valid(cookie)', account'.must)
      BY DEF Calls
    <3>1. CallOK(k, call[k], cookie, Valid(cookie), account.must)
      BY DEF IInv, Calls
    <3>2. CASE k = "change"
      BY <2>3, <2>5, <3>2 DEF CallOK, Asking
    <3>3. CASE Told(k)
      <4>1. /\ call'[k].st = call[k].st /\ call'[k].tok = call[k].tok
            /\ call'[k].must = call[k].must
            /\ call'[k].old = call[k].old \cup {"must"}
        BY <2>4, <2>5, <3>3
      <4>2. k # "register"
        BY <3>3 DEF Told
      <4>3. QED
        BY <2>1, <2>8, <3>1, <4>1, <4>2 DEF CallOK
    <3>4. CASE k # "change" /\ ~ Told(k)
      <4>1. k \in {"register", "logout"} \/ call[k].st = "idle"
        BY <3>4 DEF Told, Kinds
      <4>2. call'[k] = call[k]
        BY <2>5, <3>4
      <4>3. QED
        BY <3>1, <4>1, <4>2 DEF CallOK, Asking
    <3>5. QED
      BY <3>2, <3>3, <3>4
  <2>10. TypeOK'
    BY <1>1, <2>1, <2>2, <2>7 DEF TypeOK, AccountType, CallType, tabVars
  <2>11. Agreement'
    BY <2>1, <2>8, TabStays
  <2>12. FormCanSucceed'
    BY <2>3, <2>5 DEF FormCanSucceed
  <2>13. NoneIsNew'
    <3>1. \A k \in Kinds : call'[k].st = call[k].st \/ call'[k].st = "ok"
      BY <2>3, <2>4, <2>5
    <3>2. QED
      BY <1>1, <2>2, <3>1 DEF IInv, NoneIsNew
  <2>14. QED
    BY <2>9, <2>10, <2>11, <2>12, <2>13 DEF IInv
<1>4. QED
  BY <1>2, <1>3

LEMMA ServeLogoutKeeps ==
    ASSUME IInv, ServeLogout
    PROVE  IInv'
<1> DEFINE c == Answer("logout", "ok", FALSE)
<1>1. /\ call["logout"].st = "sent" /\ UNCHANGED <<account, made>>
      /\ live' = live \ {call["logout"].tok} /\ Answered("logout", c)
      /\ "logout" \in Kinds /\ "logout" \notin Asking /\ TypeOK
  BY DEF IInv, ServeLogout, Kinds, Asking
<1>2. /\ account \in AccountType /\ live \subseteq 1..made
      /\ made \in 0..MaxTokens /\ made \in 0..made
  BY <1>1, TypeFacts DEF TypeOK
<1>3. c \in CallType(made) /\ c.st = "ok" /\ ~ c.must
  BY <1>1, AnswerFacts
<1> HIDE DEF c
<1>4. TypeOK'
  BY <1>1, <1>2, <1>3, AnsweredType
<1>5. Valid(cookie)' => Valid(cookie)
  BY <1>1 DEF Answered, Valid, HasRow
<1>6. CallOK("logout", c, cookie, Valid(cookie), account.must)
  BY <1>1, <1>3 DEF CallOK
<1>7. account.status = "none" => live' = live
  BY <1>1 DEF IInv, NoneIsNew
<1>8. QED
  BY <1>1, <1>2, <1>3, <1>4, <1>5, <1>6, <1>7, AnsweredKeeps

LEMMA ServerKeeps == ASSUME IInv, Server PROVE IInv'
BY ServeMeKeeps, CreateSessionKeeps, VerifyLoginKeeps, ServeRegisterKeeps,
   ServeChangeKeeps, ServeLogoutKeeps DEF Server

-----------------------------------------------------------------------------
(* The answers *)

\* The type, when the tab takes an answer.
LEMMA ShownType ==
    ASSUME TypeOK, UNCHANGED serverVars, cookie' \in 0..made,
           NEW u \in UserType, NEW l \in BOOLEAN, NEW p \in Pages, Show(u, l, p),
           call' \in [Kinds -> CallType(made)], drift' \subseteq {"who", "must"}
    PROVE  TypeOK'
<1>1. /\ user' = u /\ loading' = l /\ page' \in Pages
      /\ page' = "admin" /\ ~ l => u.admin
  BY ShowFacts
<1>2. QED
  BY <1>1 DEF TypeOK, UserType, CallType, serverVars

\* A request is over and others are overtaken: what is left stays true.
LEMMA OverKeeps ==
    ASSUME IInv, NEW k \in Kinds, NEW ks \in {{}, {"me"}, Asking},
           call' = [Overtaken(ks) EXCEPT ![k] = Idle],
           UNCHANGED serverVars, cookie' = cookie \/ ks = Asking
    PROVE  /\ call' \in [Kinds -> CallType(made)] /\ Calls' /\ NoneIsNew'
           /\ \A j \in Kinds : j # k => call'[j] = Overtaken(ks)[j]
           /\ call'[k] = Idle
<1> DEFINE o == Overtaken(ks)
<1>1. TypeOK /\ Calls /\ ks \in SUBSET Kinds /\ Asking \in SUBSET Kinds
  BY DEF IInv, Asking, Kinds
<1>2. /\ o \in [Kinds -> CallType(made)]
      /\ \A j \in Kinds :
            /\ o[j].st = call[j].st /\ o[j].tok = call[j].tok
            /\ o[j].must = call[j].must
            /\ call[j].old \subseteq o[j].old
  BY <1>1, OvertakenFacts
<1>3. Idle \in CallType(made) /\ Idle.st = "idle"
      /\ \A t, v, m : CallOK(k, Idle, t, v, m)
  BY <1>1, TypeFacts, SentFacts
<1>4. account' = account /\ live' = live /\ made' = made
  BY DEF serverVars
<1>5. \A j \in Kinds : CallOK(j, o[j], cookie', Valid(cookie)', account'.must)
  <2>1. CASE ks = Asking
    BY <1>1, <1>4, <2>1, CookieChanges
  <2>2. CASE cookie' = cookie
    <3>1. Valid(cookie)' => Valid(cookie)
      BY <1>4, <2>2 DEF Valid, HasRow
    <3> HIDE DEF o
    <3>2. \A j \in Kinds :
             CallOK(j, call[j], cookie', Valid(cookie)', account'.must)
      BY <1>1, <1>4, <2>2, <3>1, CallsStay
    <3>3. QED
      BY <1>2, <3>2 DEF CallOK
  <2>3. QED
    BY <2>1, <2>2
<1> HIDE DEF o
<1>6. call' = [o EXCEPT ![k] = Idle]
  BY DEF o
<1>7. /\ call' \in [Kinds -> CallType(made)] /\ call'[k] = Idle
      /\ \A j \in Kinds : j # k => call'[j] = o[j]
  BY <1>2, <1>3, <1>6
<1>8. Calls'
  BY <1>3, <1>5, <1>7 DEF Calls
<1>9. NoneIsNew'
  BY <1>2, <1>3, <1>4, <1>7 DEF IInv, NoneIsNew
<1>10. QED
  BY <1>7, <1>8, <1>9 DEF o

\* Somebody signs in: the cookie and the user come with the same answer.
LEMMA SignInKeeps ==
    ASSUME IInv, NEW k \in {"login", "register"}, NEW p \in Pages, SignIn(k, p)
    PROVE  IInv'
<1> DEFINE u == Signed(call[k].must)
<1>1. /\ call[k].st = "ok" /\ cookie' = call[k].tok /\ Show(u, loading, p)
      /\ call' = [Overtaken(Asking) EXCEPT ![k] = Idle]
      /\ drift' = call[k].old /\ UNCHANGED serverVars /\ TypeOK
      /\ k \in Kinds /\ call[k] \in CallType(made) /\ loading \in BOOLEAN
  BY TypeFacts DEF IInv, SignIn, Asking, Kinds
<1>2. /\ u \in UserType /\ u.in /\ u.must = call[k].must
      /\ call[k].old \subseteq {"who", "must"} /\ call[k].tok \in 0..made
  BY <1>1, TypeFacts DEF CallType
<1>3. CallOK(k, call[k], cookie, Valid(cookie), account.must)
  BY <1>1 DEF IInv, Calls
<1> HIDE DEF u
<1>4. /\ call' \in [Kinds -> CallType(made)] /\ Calls' /\ NoneIsNew'
  BY <1>1, OverKeeps
<1>5. TypeOK'
  BY <1>1, <1>2, <1>4, ShownType
<1>6. user' = u
  BY <1>1 DEF Show
<1>7. Agreement'
  BY <1>1, <1>2, <1>3, <1>6 DEF CallOK, Agreement
<1>8. FormCanSucceed'
  <2>1. ~ account.must /\ u.must => drift' # {}
    BY <1>1, <1>2, <1>3 DEF CallOK
  <2>2. QED
    BY <1>1, <1>6, <2>1 DEF FormCanSucceed, AsksCurrent, serverVars
<1>9. QED
  BY <1>4, <1>5, <1>7, <1>8 DEF IInv

LEMMA SignOutKeeps ==
    ASSUME IInv, SignOut
    PROVE  IInv'
<1>1. /\ cookie' = NoToken /\ Show(NoUser, loading, "home")
      /\ call' = [Overtaken(Asking) EXCEPT !["logout"] = Idle]
      /\ drift' = {} /\ UNCHANGED serverVars /\ TypeOK
      /\ "logout" \in Kinds /\ loading \in BOOLEAN /\ "home" \in Pages
      /\ NoUser \in UserType /\ ~ NoUser.in
      /\ NoToken \in 0..made /\ NoToken \notin live
  BY TypeFacts DEF IInv, SignOut, Asking, Kinds, Pages, NoToken
<1>2. /\ call' \in [Kinds -> CallType(made)] /\ Calls' /\ NoneIsNew'
  BY <1>1, OverKeeps
<1>3. TypeOK'
  BY <1>1, <1>2, ShownType
<1>4. Agreement' /\ FormCanSucceed'
  BY <1>1
  DEF Show, Agreement, FormCanSucceed, AsksCurrent, Valid, serverVars
<1>5. QED
  BY <1>2, <1>3, <1>4 DEF IInv

LEMMA ChangedKeeps ==
    ASSUME IInv, Changed
    PROVE  IInv'
<1>1. /\ call' = [call EXCEPT !["change"] = Idle, !["refresh"] = Sent(cookie)]
      /\ call["refresh"].st = "idle"
      /\ UNCHANGED <<serverVars, cookie, tabVars, drift>> /\ TypeOK
      /\ "change" \in Kinds /\ "refresh" \in Kinds
      /\ cookie \in 0..made /\ call \in [Kinds -> CallType(made)]
  BY TypeFacts DEF IInv, Changed, Kinds
<1>2. /\ Idle \in CallType(made) /\ Idle.st = "idle"
      /\ Sent(cookie) \in CallType(made) /\ Sent(cookie).st = "sent"
      /\ Sent(cookie).tok = cookie
      /\ ~ Sent(cookie).must
      /\ \A t, v, m : CallOK("change", Idle, t, v, m)
  BY <1>1, SentFacts
<1>3. /\ call' \in [Kinds -> CallType(made)]
      /\ call'["change"] = Idle /\ call'["refresh"] = Sent(cookie)
      /\ \A k \in Kinds \ {"change", "refresh"} : call'[k] = call[k]
  BY <1>1, <1>2
<1>4. Valid(cookie)' => Valid(cookie)
  BY <1>1 DEF Valid, HasRow, serverVars
<1>5. Calls'
  <2>1. CallOK("refresh", Sent(cookie), cookie', Valid(cookie)', account'.must)
    BY <1>1, <1>2 DEF CallOK
  <2>2. \A k \in Kinds : CallOK(k, call[k], cookie', Valid(cookie)', account'.must)
    BY <1>1, <1>4, CallsStay DEF IInv, serverVars
  <2>3. QED
    BY <1>2, <1>3, <2>1, <2>2 DEF Calls
<1>6. TypeOK'
  BY <1>1, <1>3 DEF TypeOK, CallType, serverVars, tabVars
<1>7. Agreement'
  BY <1>1, <1>4, TabStays
<1>8. FormCanSucceed'
  BY <1>2, <1>3 DEF FormCanSucceed
<1>9. NoneIsNew'
  BY <1>1, <1>2, <1>3 DEF IInv, NoneIsNew, serverVars
<1>10. QED
  BY <1>5, <1>6, <1>7, <1>8, <1>9 DEF IInv

\* refresh() has its answer, which may be that there is none.
LEMMA RefreshedKeeps ==
    ASSUME IInv, NEW k \in Kinds, MeAnswer(k) \/ MeLost(k)
    PROVE  IInv'
<1>1. /\ k \in Asking /\ k \in Kinds /\ TypeOK
      /\ call[k] \in CallType(made) /\ loading \in BOOLEAN /\ page \in Pages
      /\ "account" \in Pages /\ UNCHANGED <<serverVars, cookie>>
  BY TypeFacts DEF IInv, MeAnswer, MeLost, Refreshed, Asking, Pages
<1>2. PICK ok \in BOOLEAN :
         /\ Refreshed(k, ok)
         /\ \/ /\ call[k].st = (IF ok THEN "ok" ELSE "no")
               /\ drift' = call[k].old
            \/ ~ ok /\ drift' = {"who"}
  <2>1. CASE MeAnswer(k)
    <3>1. (call[k].st = "ok") \in BOOLEAN /\ call[k].st \in {"ok", "no"}
      BY <2>1 DEF MeAnswer
    <3>2. CASE call[k].st = "ok"
      BY <2>1, <3>2 DEF MeAnswer
    <3>3. CASE call[k].st = "no"
      BY <2>1, <3>3 DEF MeAnswer
    <3>4. QED
      BY <3>1, <3>2, <3>3
  <2>2. CASE MeLost(k)
    BY <2>2 DEF MeLost
  <2>3. QED
    BY <2>1, <2>2
<1> DEFINE u  == IF ok THEN Signed(call[k].must) ELSE NoUser
           l  == loading /\ k # "me"
           p  == IF k = "refresh" THEN "account" ELSE page
           ks == IF k = "refresh" THEN {"me"} ELSE {}
<1>3. /\ Show(u, l, p) /\ call' = [Overtaken(ks) EXCEPT ![k] = Idle]
  BY <1>2 DEF Refreshed
<1>4. /\ l \in BOOLEAN /\ p \in Pages /\ ks \in {{}, {"me"}, Asking}
      /\ call[k].must \in BOOLEAN
      /\ drift' \subseteq {"who", "must"}
  BY <1>1, <1>2 DEF CallType
<1>5. /\ u \in UserType
      /\ u.in <=> ok
      /\ ok => u.must = call[k].must
  <2>1. CASE ok
    BY <1>1, <1>4, <2>1, TypeFacts
  <2>2. CASE ~ ok
    BY <1>1, <2>2, TypeFacts
  <2>3. QED
    BY <2>1, <2>2
<1> HIDE DEF u, l, p, ks
<1>6. /\ call' \in [Kinds -> CallType(made)] /\ Calls' /\ NoneIsNew'
  BY <1>1, <1>3, <1>4, OverKeeps
<1>7. TypeOK'
  BY <1>1, <1>3, <1>4, <1>5, <1>6, TypeFacts, ShownType
<1>8. CallOK(k, call[k], cookie, Valid(cookie), account.must)
  BY DEF IInv, Calls
<1>9. Agreement'
  <2>1. "who" \notin drift' => IF ok THEN cookie # NoToken ELSE ~ Valid(cookie)
    BY <1>1, <1>2, <1>8 DEF CallOK
  <2>2. user' = u
    BY <1>3 DEF Show
  <2>3. QED
    BY <1>1, <1>5, <2>1, <2>2 DEF Agreement, Valid, HasRow, serverVars
<1>10. FormCanSucceed'
  <2>1. ok /\ drift' = {} /\ call[k].must => account.must
    BY <1>1, <1>2, <1>8 DEF CallOK, Asking
  <2>2. user' = u
    BY <1>3 DEF Show
  <2>3. QED
    BY <1>1, <1>5, <2>1, <2>2 DEF FormCanSucceed, AsksCurrent, serverVars
<1>11. QED
  BY <1>6, <1>7, <1>9, <1>10 DEF IInv

LEMMA FailedKeeps ==
    ASSUME IInv, NEW k \in Kinds, Failed(k)
    PROVE  IInv'
<1>1. /\ k \notin Asking /\ call' = [call EXCEPT ![k] = Idle]
      /\ drift \subseteq drift' /\ drift' \subseteq {"who", "must"}
      /\ k = "change" /\ call[k].st = "ok" => drift' # {}
      /\ UNCHANGED <<serverVars, cookie, tabVars>>
  BY DEF IInv, TypeOK, Failed, Asking
<1>2. /\ TypeOK /\ Calls /\ cookie' = cookie /\ account' = account
      /\ made' = made /\ made \in 0..made /\ made \in 0..MaxTokens
      /\ Valid(cookie)' => Valid(cookie)
  BY <1>1, TypeFacts DEF IInv, TypeOK, Valid, HasRow, serverVars
<1>3. /\ Idle \in CallType(made) /\ Idle.st = "idle"
      /\ \A t, v, m : CallOK(k, Idle, t, v, m)
  BY <1>2, TypeFacts, SentFacts
<1>4. /\ call' \in [Kinds -> CallType(made)] /\ Calls' /\ call'[k] = Idle
      /\ \A j \in Kinds : j # k => call'[j] = call[j]
  BY <1>1, <1>2, <1>3, CallSet
<1>5. TypeOK'
  BY <1>1, <1>4 DEF IInv, TypeOK, CallType, serverVars, tabVars
<1>6. Agreement'
  BY <1>1, <1>2 DEF IInv, Agreement, tabVars
<1>7. FormCanSucceed'
  <2>1. "refresh" \in Kinds /\ "change" \in Kinds /\ k # "refresh"
    BY <1>1 DEF Kinds, Asking
  <2>2. call'["refresh"] = call["refresh"]
    BY <1>4, <2>1
  <2>3. \/ drift' # {}
        \/ drift = {} /\ (call["change"].st = "ok" => call'["change"].st = "ok")
    BY <1>1, <1>4, <2>1
  <2>4. QED
    BY <1>1, <1>2, <2>2, <2>3 DEF IInv, FormCanSucceed, AsksCurrent, tabVars
<1>8. NoneIsNew'
  BY <1>1, <1>3, <1>4 DEF IInv, NoneIsNew, serverVars
<1>9. QED
  BY <1>4, <1>5, <1>6, <1>7, <1>8 DEF IInv

LEMMA DeliverKeeps ==
    ASSUME IInv, NEW k \in Kinds, Deliver(k)
    PROVE  IInv'
<1>1. CASE k = "login" /\ LoginAnswered
  <2>1. (IF call["login"].must THEN "change" ELSE "home") \in Pages
    BY DEF Pages
  <2>2. QED
    BY <1>1, <2>1, SignInKeeps DEF LoginAnswered
<1>2. CASE k = "register" /\ RegisterAnswered
  <2>1. "home" \in Pages
    BY DEF Pages
  <2>2. QED
    BY <1>2, <2>1, SignInKeeps DEF RegisterAnswered
<1>3. QED
  BY <1>1, <1>2, RefreshedKeeps, FailedKeeps, SignOutKeeps, ChangedKeeps
  DEF Deliver

-----------------------------------------------------------------------------
(* The others *)

\* An administrator, or time, takes sessions away and never gives one.
LEMMA OthersKeep ==
    ASSUME IInv, Admin \/ Expire
    PROVE  IInv'
<1>1. /\ live' \subseteq live /\ account' \in AccountType
      /\ account'.status \in {account.status, "deleted"}
      /\ account.must => account'.must
      /\ UNCHANGED <<made, cookie, tabVars, call, drift>>
  <2>1. account \in AccountType
    BY TypeFacts DEF IInv
  <2>2. CASE Administrate([account EXCEPT !.must = TRUE], live)
    BY <2>1, <2>2 DEF Administrate, AccountType
  <2>3. CASE Administrate([account EXCEPT !.status = "deleted"], {})
    BY <2>1, <2>3 DEF Administrate, AccountType
  <2>4. CASE Expire
    BY <2>1, <2>4 DEF Expire
  <2>5. QED
    BY <2>2, <2>3, <2>4 DEF Admin
<1>2. TypeOK'
  BY <1>1 DEF IInv, TypeOK, AccountType, tabVars
<1>3. Valid(cookie)' => Valid(cookie)
  <2>1. account'.status = "active" => account.status = "active"
    BY <1>1
  <2>2. QED
    BY <1>1, <2>1 DEF Valid, HasRow
<1>4. Calls'
  <2>1. \A k \in Kinds : CallOK(k, call[k], cookie', Valid(cookie)', account'.must)
    BY <1>1, <1>3, CallsStay DEF IInv
  <2>2. QED
    BY <1>1, <2>1 DEF Calls
<1>5. Agreement'
  BY <1>1, <1>3, TabStays
<1>6. FormCanSucceed'
  BY <1>1, FormStays
<1>7. NoneIsNew'
  BY <1>1 DEF IInv, NoneIsNew
<1>8. QED
  BY <1>2, <1>4, <1>5, <1>6, <1>7 DEF IInv

LEMMA OtherTabKeeps ==
    ASSUME IInv, OtherTab
    PROVE  IInv'
<1>1. /\ drift' = drift \cup {"who"} /\ call' = Overtaken(Asking)
      /\ UNCHANGED <<account, tabVars>> /\ TypeOK
  BY DEF IInv, OtherTab, Asking
<1>2. /\ cookie' \in 0..made' /\ live' \subseteq 1..made'
      /\ made' \in 0..MaxTokens /\ made \in 0..made'
      /\ account.status = "none" => live' = live
  <2>1. /\ made \in Nat /\ live \subseteq 1..made /\ made \in 0..MaxTokens
    BY <1>1, TypeFacts DEF TypeOK
  <2>2. CASE cookie' = NoToken /\ live' = live \ {cookie} /\ UNCHANGED made
    <3>1. 0 \in 0..made /\ made \in 0..made
      BY <2>1
    <3>2. account.status = "none" => live = {}
      BY DEF IInv, NoneIsNew
    <3>3. QED
      BY <2>1, <2>2, <3>1, <3>2 DEF NoToken
  <2>3. CASE /\ account.status = "active" /\ made < MaxTokens
             /\ made' = made + 1 /\ cookie' = made' /\ live' = live \cup {made'}
    <3>1. /\ made' \in 0..made' /\ made' \in 1..made' /\ made \in 0..made'
          /\ made' \in 0..MaxTokens /\ 1..made \subseteq 1..made'
      BY <2>1, <2>3, SessionBounds
    <3>2. QED
      BY <2>1, <2>3, <3>1
  <2>4. QED
    BY <2>2, <2>3 DEF OtherTab
<1>3. /\ Overtaken(Asking) \in [Kinds -> CallType(made)]
      /\ \A k \in Kinds : Overtaken(Asking)[k].st = call[k].st
  BY <1>1, OvertakenFacts DEF Asking, Kinds
<1>4. call' \in [Kinds -> CallType(made')]
  <2>1. 0..made \subseteq 0..made'
    BY <1>1, <1>2, TypeFacts, SessionBounds
  <2>2. CallType(made) \subseteq CallType(made')
    BY <2>1 DEF CallType
  <2>3. QED
    BY <1>1, <1>3, <2>2
<1>5. TypeOK'
  BY <1>1, <1>2, <1>4 DEF TypeOK, CallType, tabVars
<1>6. Calls'
  BY <1>1, CookieChanges DEF IInv, Calls
<1>7. Agreement' /\ FormCanSucceed'
  BY <1>1 DEF Agreement, FormCanSucceed
<1>8. NoneIsNew'
  BY <1>1, <1>2, <1>3 DEF IInv, NoneIsNew
<1>9. QED
  BY <1>5, <1>6, <1>7, <1>8 DEF IInv

\* The browser lets a cookie go that opened nothing any more: a tab that shows
\* nobody is right, the others are named in drift.
LEMMA DropCookieKeeps ==
    ASSUME IInv, DropCookie
    PROVE  IInv'
<1>1. /\ cookie' = NoToken /\ call' = Overtaken(Asking)
      /\ drift' = IF user.in THEN drift \cup {"who"} ELSE drift
      /\ UNCHANGED <<serverVars, tabVars>> /\ TypeOK
  BY DEF IInv, DropCookie, Asking
<1>2. /\ Overtaken(Asking) \in [Kinds -> CallType(made)]
      /\ \A k \in Kinds : Overtaken(Asking)[k].st = call[k].st
  BY <1>1, OvertakenFacts DEF Asking, Kinds
<1>3. cookie' \in 0..made /\ ~ Valid(cookie)'
  BY <1>1, TypeFacts DEF NoToken, Valid, serverVars
<1>4. TypeOK'
  BY <1>1, <1>2, <1>3 DEF TypeOK, CallType, serverVars, tabVars
<1>5. Calls'
  BY <1>1, CookieChanges DEF IInv, Calls, serverVars
<1>6. Agreement'
  BY <1>1, <1>3 DEF Agreement, tabVars
<1>7. FormCanSucceed'
  <2>1. drift \subseteq drift' /\ "change" \in Kinds /\ "refresh" \in Kinds
    BY <1>1 DEF Kinds
  <2>2. /\ call'["change"].st = call["change"].st
        /\ call'["refresh"].st = call["refresh"].st
    BY <1>1, <1>2, <2>1
  <2>3. QED
    BY <1>1, <2>1, <2>2
    DEF IInv, FormCanSucceed, AsksCurrent, serverVars, tabVars
<1>8. NoneIsNew'
  BY <1>1, <1>2 DEF IInv, NoneIsNew, serverVars
<1>9. QED
  BY <1>4, <1>5, <1>6, <1>7, <1>8 DEF IInv

-----------------------------------------------------------------------------
(* The theorems *)

LEMMA InitInv == Init => IInv
<1> SUFFICES ASSUME Init PROVE IInv
  OBVIOUS
<1>1. PICK s \in {"none", "active"}, m \in BOOLEAN :
         /\ account = [status |-> s, must |-> m /\ s = "active",
                       admin |-> s = "active"]
         /\ cookie \in IF s = "active" THEN {NoToken, 1} ELSE {NoToken}
  BY DEF Init
<1>2. account \in AccountType /\ account.status = s
  <2>1. (m /\ s = "active") \in BOOLEAN /\ (s = "active") \in BOOLEAN
    OBVIOUS
  <2>2. QED
    BY <1>1, <2>1 DEF AccountType
<1>3. /\ made = cookie /\ cookie \in 0..MaxTokens /\ cookie \in 0..made
      /\ made \in 0..MaxTokens /\ live \subseteq 1..made
      /\ s = "none" => live = {}
  BY <1>1, SessionBounds DEF Init, NoToken
<1>4. /\ Idle \in CallType(made) /\ Idle.st = "idle" /\ ~ Idle.must
      /\ Sent(cookie) \in CallType(made) /\ Sent(cookie).st = "sent"
      /\ Sent(cookie).tok = cookie
      /\ ~ Sent(cookie).must
  <2>1. 0 \in 0..made
    BY <1>3, SessionBounds
  <2>2. QED
    BY <1>3, <2>1 DEF CallType, Idle, Sent, NoToken
<1>5. /\ call = [k \in Kinds |-> IF k = "me" THEN Sent(cookie) ELSE Idle]
      /\ page \in Pages /\ user = NoUser /\ loading = TRUE /\ drift = {}
  BY DEF Init
<1>6. /\ call \in [Kinds -> CallType(made)]
      /\ \A k \in Kinds : (call[k] = Sent(cookie) /\ k = "me") \/ call[k] = Idle
  BY <1>4, <1>5
<1>7. TypeOK
  BY <1>2, <1>3, <1>5, <1>6
  DEF TypeOK, AccountType, UserType, CallType, NoUser
<1>8. Calls
  <2> SUFFICES ASSUME NEW k \in Kinds
               PROVE  CallOK(k, call[k], cookie, Valid(cookie), account.must)
    BY DEF Calls
  <2>1. CASE call[k] = Idle
    BY <1>4, <2>1 DEF CallOK
  <2>2. CASE call[k] = Sent(cookie) /\ k = "me"
    BY <1>4, <2>2 DEF CallOK
  <2>3. QED
    BY <1>6, <2>1, <2>2
<1>9. Agreement /\ FormCanSucceed
  BY <1>5 DEF Agreement, FormCanSucceed, AsksCurrent, NoUser
<1>10. NoneIsNew
  BY <1>2, <1>3, <1>4, <1>6 DEF NoneIsNew
<1>11. QED
  BY <1>7, <1>8, <1>9, <1>10 DEF IInv

LEMMA StepInv == IInv /\ [Next]_vars => IInv'
<1> SUFFICES ASSUME IInv, [Next]_vars PROVE IInv'
  OBVIOUS
<1>1. ASSUME NEW p \in Pages, Go(p) PROVE IInv'
  BY <1>1, GoKeeps
<1>2. CASE SubmitLogin \/ SubmitRegister \/ SubmitChange \/ ClickLogout
  BY <1>2, SubmitKeeps
<1>3. ASSUME NEW k \in Kinds, Deliver(k) PROVE IInv'
  BY <1>3, DeliverKeeps
<1>4. CASE Load \/ Server \/ Admin \/ Expire \/ DropCookie \/ OtherTab
  BY <1>4, LoadKeeps, ServerKeeps, OthersKeep, DropCookieKeeps, OtherTabKeeps
<1>5. CASE UNCHANGED vars
  <2>1. TypeOK'
    BY <1>5 DEF IInv, TypeOK, vars, serverVars, tabVars
  <2>2. QED
    BY <1>5, <2>1
    DEF IInv, Agreement, FormCanSucceed, AsksCurrent, Calls, NoneIsNew, Valid,
        HasRow, vars, serverVars, tabVars
<1>6. QED
  BY <1>1, <1>2, <1>3, <1>4, <1>5 DEF Next

\* AuthContext and the cookie agree: the tab shows a user only while the browser
\* has a session cookie, and nobody only when the cookie opens no session, but for the
\* answers that were lost or came last and a cookie that another tab changed or
\* its age ended, which drift names.
THEOREM TabAgreesHolds == Spec => []TabAgrees
<1>1. IInv => TabAgrees
  BY DEF IInv, TabAgrees
<1>2. QED
  BY <1>1, InitInv, StepInv, PTL DEF Spec

\* ChangePasswordPage leaves the current password out only when the server does
\* not ask for it, so that its form can succeed.
THEOREM FormCanSucceedHolds == Spec => []FormCanSucceed
<1>1. IInv => FormCanSucceed
  BY DEF IInv
<1>2. QED
  BY <1>1, InitInv, StepInv, PTL DEF Spec

\* RequireAuth never sends a visitor whose cookie opens a session to the login
\* page because of an answer that is still true.
THEOREM KnownVisitorStaysHolds == Spec => KnownVisitorStays
<1> DEFINE SentToLogin == page = "account" /\ page' = "login" /\ ~ user'.in /\ call' # call
           Known == "who" \in drift' \/ ~ Valid(cookie)
<1>1. ASSUME IInv, Next, SentToLogin PROVE Known
  <2>1. page = "account" /\ page' = "login" /\ ~ user'.in /\ call' # call
    BY <1>1
  <2>2. /\ TypeOK /\ page \in Pages /\ user \in UserType /\ loading \in BOOLEAN
        /\ NoUser \in UserType /\ "home" \in Pages /\ "account" \in Pages
        /\ "change" \in Pages
    BY <1>1, TypeFacts DEF IInv, Pages
  <2>3. ASSUME NEW u \in UserType, NEW l \in BOOLEAN, NEW p \in Pages, Show(u, l, p),
               p \in {"home", "change"} \/ (l /\ p = "account")
        PROVE  FALSE
    BY <2>1, <2>3, ShowFacts
  <2>4. CASE Load
    BY <2>1, <2>2, <2>3, <2>4 DEF Load, Mounted
  <2>5. ASSUME NEW p \in Pages, Go(p) PROVE FALSE
    BY <2>1, <2>5 DEF Go
  <2>6. CASE \/ SubmitLogin \/ SubmitRegister \/ SubmitChange \/ ClickLogout
             \/ Server \/ Admin \/ Expire \/ DropCookie \/ OtherTab
    <3>1. UNCHANGED page
      BY <2>6
      DEF SubmitLogin, SubmitRegister, SubmitChange, ClickLogout, Send, Server,
          ServeMe, CreateSession, VerifyLogin, ServeRegister, ServeChange,
          ServeLogout, Refuse, Answered, Admin, Administrate, Expire, DropCookie,
          OtherTab, tabVars
    <3>2. QED
      BY <2>1, <3>1
  <2>7. ASSUME NEW k \in Kinds, Deliver(k) PROVE Known
    <3>1. CASE MeAnswer(k)
      <4>1. CASE call[k].st = "no"
        <5>1. k \in Asking /\ drift' = call[k].old
          BY <3>1 DEF MeAnswer, Refreshed, Asking
        <5>2. CallOK(k, call[k], cookie, Valid(cookie), account.must)
          BY <1>1 DEF IInv, Calls
        <5>3. QED
          BY <4>1, <5>1, <5>2 DEF CallOK
      <4>2. CASE call[k].st = "ok"
        <5>1. user' = Signed(call[k].must)
          BY <3>1, <4>2 DEF MeAnswer, Refreshed, Show
        <5>2. QED
          BY <2>1, <5>1 DEF Signed
      <4>3. QED
        BY <3>1, <4>1, <4>2 DEF MeAnswer
    <3>2. CASE MeLost(k)
      BY <3>2 DEF MeLost
    <3>3. CASE Failed(k) \/ (k = "change" /\ Changed)
      BY <2>1, <3>3 DEF Failed, Changed, tabVars
    <3>4. CASE \/ k = "login" /\ LoginAnswered
               \/ k = "register" /\ RegisterAnswered
      BY <2>1, <3>4 DEF LoginAnswered, RegisterAnswered, SignIn, Show, Signed
    <3>5. CASE k = "logout" /\ SignOut
      BY <2>2, <2>3, <3>5 DEF SignOut
    <3>6. QED
      BY <2>7, <3>1, <3>2, <3>3, <3>4, <3>5 DEF Deliver
  <2>8. QED
    BY <1>1, <2>4, <2>5, <2>6, <2>7 DEF Next
<1>2. IInv /\ [Next]_vars => [SentToLogin => Known]_vars
  BY <1>1
<1>3. QED
  BY <1>2, InitInv, StepInv, PTL DEF Spec, KnownVisitorStays
=============================================================================
