-------------------------- MODULE DashboardSession --------------------------
(***************************************************************************)
(* The dashboard's session: the tabs of one browser share an access token  *)
(* (local storage) and a refresh cookie; both name a session the server    *)
(* keeps in redis.  An access token that has expired is exchanged, with    *)
(* the cookie, for a new session, and the old one is deleted.  Each tab    *)
(* does this in axios interceptors (auth.interceptors.ts), before a        *)
(* request is sent or when it is answered "expired", and keeps the other   *)
(* requests waiting in a queue of its own (refresh.queue.ts).              *)
(*                                                                         *)
(* A session, its token and its cookie are one number; 0 is no token.      *)
(***************************************************************************)
EXTENDS Naturals, Sequences, SequencesExt

CONSTANTS
    Tab,            \* the browser's tabs
    Req,            \* the requests the tabs make
    None,           \* no request
    TabOf,          \* the tab of a request
    Logout,         \* those that are DELETE /sessions
    Retries,        \* the retries of a refresh (refreshRetryDelaysMs)
    MaxExpiring,    \* bound: the access tokens that expire are the first ones
    MaxEvents       \* bound: sign-ins, sessions ended elsewhere or past their deadline,
                    \* outages, errors of the server or its redis, lost answers, reloads

ASSUME SessionAssumption ==
    /\ None \notin Req
    /\ TabOf \in [Req -> Tab]
    /\ Logout \subseteq Req
    /\ {Retries, MaxExpiring, MaxEvents} \subseteq Nat

VARIABLES
    token,          \* local storage: the access token
    cookie,         \* the browser's refresh cookie
    page,           \* [Tab -> ...] the dashboard, or the sign-in page and why
    isOpen,         \* [Tab -> BOOLEAN] RefreshQueue: a refresh is under way
    req,            \* [Req -> Request]
    calls,          \* the refresh requests the server handles or has answered
    alive,          \* the sessions in redis
    last,           \* the newest session
    expired,        \* the sessions whose access token has expired, for the server
    seen,           \* and by the browser's clock
    up,             \* the server can be reached
    over,           \* no renewal any more: deadline reached, user disabled
    events,         \* how many of MaxEvents there were
    closed,         \* history: sessions ended by a logout or elsewhere
    unheard         \* history: sessions replaced in an answer nobody heard

browser == <<token, cookie, page>>
sessions == <<alive, last>>
server == <<up, sessions>>
clocks == <<expired, seen>>
history == <<closed, unheard>>
vars == <<browser, isOpen, req, calls, server, clocks, over, events, history>>

-----------------------------------------------------------------------------
(* A request waits in its tab's "queue" or runs the tab's refresh          *)
(* ("refreshing") "before" it is sent, or "after" it was answered expired. *)
Request == [st : {"new", "queued", "refreshing", "sent", "answered", "settled", "gone"},
            side : {"before", "after"},
            tok : Nat,
            ans : {"none", "ok", "expired", "invalid", "error"},
            tries : Nat]

At(st) == [st |-> st, side |-> "before", tok |-> 0, ans |-> "none", tries |-> 0]

\* A POST /sessions/refresh: the request that waits for it, the session of its
\* cookie, the session made, and where the server is with it.
Call == [by : Req \cup {None}, old : Nat, new : Nat,
         st : {"asked", "verified", "created", "ok", "over", "transient"}]

Asked(r) == [by |-> r, old |-> cookie, new |-> 0, st |-> "asked"]

IsAnswered(c) == c.st \in {"ok", "over", "transient"}

OfTab(t) == {r \in Req : TabOf[r] = t}

Queue(t) == {r \in OfTab(t) : req[r].st = "queued"}

AtSignIn(t) == page[t] # "dashboard"

Counted == events < MaxEvents /\ events' = events + 1

\* setAuthorizationHeader, and the request goes out, or out again.
SentWith(R, tok) ==
    [r \in Req |-> IF r \in R THEN [At("sent") EXCEPT !.tok = tok] ELSE req[r]]

\* What a refresh that failed does with those who waited for it: a request not
\* yet sent goes out as it is, an answer that was "expired" is passed on.
WithoutRefresh(R) ==
    [r \in Req |-> IF r \notin R THEN req[r]
                   ELSE At(IF req[r].side = "before" THEN "sent" ELSE "settled")]

-----------------------------------------------------------------------------
(* The tabs.                                                               *)

\* Faulty: a refresh is opened whether or not one is under way.
WaitForTokenOpening(r, side) ==
    /\ req' = [req EXCEPT ![r] = [At("refreshing") EXCEPT !.side = side]]
    /\ isOpen' = [isOpen EXCEPT ![TabOf[r]] = TRUE]
    /\ calls' = Append(calls, Asked(r))

\* The request r opens the queue and asks for a new token, or waits in it.
WaitForToken(r, side) ==
    LET t == TabOf[r]
    IN  IF isOpen[t]
        THEN /\ req' = [req EXCEPT ![r] = [At("queued") EXCEPT !.side = side]]
             /\ UNCHANGED <<isOpen, calls>>
        ELSE /\ req' = [req EXCEPT ![r] = [At("refreshing") EXCEPT !.side = side]]
             /\ isOpen' = [isOpen EXCEPT ![t] = TRUE]
             /\ calls' = Append(calls, Asked(r))

\* The request interceptor.
Send(r) ==
    /\ req[r].st = "new" /\ ~AtSignIn(TabOf[r])
    /\ IF token # 0 /\ token \in seen
       THEN WaitForToken(r, "before")
       ELSE req' = SentWith({r}, token) /\ UNCHANGED <<isOpen, calls>>
    /\ UNCHANGED <<browser, server, clocks, over, events, history>>

\* The page is left: whatever it waited for is nobody's any more. Of an answer
\* on its way the browser may have kept the cookie.
Leave(t, cs) ==
    LET Mine == {i \in DOMAIN cs : cs[i].by \in OfTab(t)}
        Done == {i \in Mine : cs[i].st = "ok"}
    IN  /\ req' = [r \in Req |-> IF r \in OfTab(t) /\ req[r].st \notin {"new", "settled"}
                                 THEN At("gone") ELSE req[r]]
        /\ isOpen' = [isOpen EXCEPT ![t] = FALSE]
        /\ calls' = [i \in DOMAIN cs |-> IF i \in Mine THEN [cs[i] EXCEPT !.by = None] ELSE cs[i]]
        /\ cookie' \in {cookie} \cup {cs[i].new : i \in Done}
        /\ unheard' = unheard \cup {cs[i].old : i \in Done}

\* redirectToSignIn: the token is removed and the page left, unless it is the
\* sign-in page, which goes on with the requests, the queue and the calls given.
RedirectToSignIn(t, reqs, open, cs) ==
    /\ token' = 0
    /\ IF AtSignIn(t)
       THEN req' = reqs /\ isOpen' = open /\ calls' = cs /\ UNCHANGED <<cookie, page, unheard>>
       ELSE page' = [page EXCEPT ![t] = "signedOut"] /\ Leave(t, cs)

\* The response interceptor, and use-session.api.ts for a logout.
ReceiveAnswer(r) ==
    /\ req[r].st = "answered" /\ req[r].ans \in {"ok", "error"}
    /\ req' = [req EXCEPT ![r] = At("settled")]
    /\ IF r \in Logout /\ req[r].ans = "ok"
       THEN token' = 0 /\ page' = [page EXCEPT ![TabOf[r]] = "loggedOut"]
       ELSE UNCHANGED <<token, page>>
    /\ UNCHANGED <<cookie, isOpen, calls, server, clocks, over, events, history>>

ReceiveInvalid(r) ==
    /\ req[r].st = "answered" /\ req[r].ans = "invalid"
    /\ RedirectToSignIn(TabOf[r], [req EXCEPT ![r] = At("settled")], isOpen, calls)
    /\ UNCHANGED <<server, clocks, over, events, closed>>

\* The request is sent again once there is a new token. That it has been sent
\* again before is no reason not to: "attempts" knows a request by its object,
\* and axios makes a new one each time.
ReceiveExpired(r) ==
    /\ req[r].st = "answered" /\ req[r].ans = "expired"
    /\ WaitForToken(r, "after")
    /\ UNCHANGED <<browser, server, clocks, over, events, history>>

\* refreshQueue.success and session.setToken: the answer's cookie and token are
\* kept, and everyone who waited goes on with the new token.
RefreshOk(i) ==
    LET r == calls[i].by
        t == TabOf[r]
    IN  /\ r # None /\ calls[i].st = "ok"
        /\ cookie' = calls[i].new
        /\ token' = calls[i].new
        /\ isOpen' = [isOpen EXCEPT ![t] = FALSE]
        /\ req' = SentWith(Queue(t) \cup {r}, calls[i].new)
        /\ calls' = RemoveAt(calls, i)
        /\ UNCHANGED <<page, server, clocks, over, events, history>>

\* refreshQueue.failed: everyone who waited goes on without.
QueueFailed(r) ==
    /\ isOpen' = [isOpen EXCEPT ![TabOf[r]] = FALSE]
    /\ req' = WithoutRefresh(Queue(TabOf[r]) \cup {r})

\* The server says the session is over (isSessionOverException, a 4xx).
RefreshOver(i) ==
    LET r == calls[i].by
        t == TabOf[r]
    IN  /\ r # None /\ calls[i].st = "over"
        /\ RedirectToSignIn(t, WithoutRefresh(Queue(t) \cup {r}),
                            [isOpen EXCEPT ![t] = FALSE], RemoveAt(calls, i))
        /\ UNCHANGED <<server, clocks, over, events, closed>>

\* Faulty: tried once more than there are delays for.
RefreshNotAnsweredOnceMore(r) ==
    /\ IF req[r].tries <= Retries
       THEN req' = [req EXCEPT ![r].tries = @ + 1] /\ UNCHANGED isOpen
       ELSE QueueFailed(r)
    /\ UNCHANGED browser

\* No answer, or a 5xx (isTransientException): tried again, a few times.
RefreshNotAnswered(r) ==
    /\ IF req[r].tries < Retries
       THEN req' = [req EXCEPT ![r].tries = @ + 1] /\ UNCHANGED isOpen
       ELSE QueueFailed(r)
    /\ UNCHANGED browser

RefreshTransient(i) ==
    /\ calls[i].by # None /\ calls[i].st = "transient"
    /\ RefreshNotAnswered(calls[i].by)
    /\ calls' = RemoveAt(calls, i)
    /\ UNCHANGED <<server, clocks, over, events, history>>

\* Faulty: the wait before the last retry is for nothing.
RetryRefreshShort(r) ==
    /\ req[r].st = "refreshing" /\ req[r].tries < Retries
    /\ \A i \in DOMAIN calls : calls[i].by # r
    /\ calls' = Append(calls, Asked(r))
    /\ UNCHANGED <<browser, isOpen, req, server, clocks, over, events, history>>

RetryRefresh(r) ==
    /\ req[r].st = "refreshing"
    /\ \A i \in DOMAIN calls : calls[i].by # r
    /\ calls' = Append(calls, Asked(r))
    /\ UNCHANGED <<browser, isOpen, req, server, clocks, over, events, history>>

\* use-auth.api.ts: signed in from the sign-in page, in a session of its own.
SignIn(t) ==
    /\ AtSignIn(t) /\ Counted
    /\ page' = [page EXCEPT ![t] = "dashboard"]
    /\ last' = last + 1
    /\ alive' = alive \cup {last + 1}
    /\ token' = last + 1 /\ cookie' = last + 1
    /\ UNCHANGED <<isOpen, req, calls, up, clocks, over, history>>

-----------------------------------------------------------------------------
(* The server.                                                             *)

\* GetCurrentUserByJWT: an expired token first, then a session redis has not.
Serve(r) ==
    LET tok == req[r].tok
        a == IF tok = 0 THEN "error"
             ELSE IF tok \in expired THEN "expired"
             ELSE IF tok \notin alive THEN "invalid" ELSE "ok"
    IN  /\ req[r].st = "sent" /\ up
        /\ req' = [req EXCEPT ![r] = [At("answered") EXCEPT !.ans = a]]
        /\ IF r \in Logout /\ a = "ok"
           THEN alive' = alive \ {tok} /\ closed' = closed \cup {tok}
           ELSE UNCHANGED <<alive, closed>>
        /\ UNCHANGED <<browser, isOpen, calls, up, last, clocks, over, events, unheard>>

\* Nothing answers, or a gateway does.
Unanswered(r) ==
    /\ req[r].st = "sent" /\ ~up
    /\ req' = [req EXCEPT ![r] = [At("answered") EXCEPT !.ans = "error"]]
    /\ UNCHANGED <<browser, isOpen, calls, server, clocks, over, events, history>>

\* Redis fails as the session is looked for, which is answered as "invalid", or
\* something else does; of a logout, before or after the session is deleted.
ServeFails(r) ==
    LET tok == req[r].tok IN
    /\ req[r].st = "sent" /\ up /\ Counted
    /\ \E a \in {"invalid", "error"} :
          /\ a = "invalid" => tok # 0 /\ tok \notin expired
          /\ req' = [req EXCEPT ![r] = [At("answered") EXCEPT !.ans = a]]
          /\ \/ UNCHANGED <<alive, closed>>
             \/ /\ a = "error" /\ r \in Logout /\ tok \in alive \ expired
                /\ alive' = alive \ {tok} /\ closed' = closed \cup {tok}
    /\ UNCHANGED <<browser, isOpen, calls, up, last, clocks, over, unheard>>

\* The next step of a refresh leaves the call at st, or refuses it.
CallAt(i, st) == calls' = [calls EXCEPT ![i].st = st]
Refuse(i, st) == calls' = [calls EXCEPT ![i] = [by |-> @.by, old |-> 0, new |-> 0, st |-> st]]

Verify(i) ==
    /\ calls[i].st = "asked" /\ up
    /\ IF calls[i].old \in alive THEN CallAt(i, "verified") ELSE Refuse(i, "over")
    /\ UNCHANGED <<alive, last, unheard>>

\* createSession
StoreSession ==
    /\ ~over
    /\ last' = last + 1
    /\ alive' = alive \cup {last + 1}

CreateSession(i) ==
    /\ calls[i].st = "verified"
    /\ StoreSession
    /\ calls' = [calls EXCEPT ![i] = [@ EXCEPT !.st = "created", !.new = last + 1]]
    /\ UNCHANGED unheard

RefuseSession(i) ==
    /\ calls[i].st = "verified" /\ over
    /\ Refuse(i, "over")
    /\ UNCHANGED <<alive, last, unheard>>

\* The old session is deleted and the new one answered.
InvalidateOld(i) ==
    /\ calls[i].st = "created"
    /\ alive' = alive \ {calls[i].old}
    /\ CallAt(i, "ok")
    /\ unheard' = IF calls[i].by = None THEN unheard \cup {calls[i].old} ELSE unheard
    /\ UNCHANGED last

NotReached(i) ==
    /\ calls[i].st = "asked" /\ ~up
    /\ Refuse(i, "transient")
    /\ UNCHANGED <<alive, last, unheard>>

\* Faulty: the old session is deleted before the new one is made.
RefreshSessionOldFirst(i) ==
    \/ NotReached(i) \/ CreateSession(i) \/ RefuseSession(i)
    \/ /\ Verify(i) /\ calls[i].old \notin alive
    \/ /\ calls[i].st = "asked" /\ up /\ calls[i].old \in alive
       /\ CallAt(i, "verified")
       /\ alive' = alive \ {calls[i].old}
       /\ UNCHANGED <<last, unheard>>
    \/ /\ calls[i].st = "created"
       /\ CallAt(i, "ok")
       /\ UNCHANGED <<alive, last, unheard>>

RefreshSession(i) ==
    NotReached(i) \/ Verify(i) \/ CreateSession(i) \/ RefuseSession(i) \/ InvalidateOld(i)

HandleRefresh(i) ==
    /\ RefreshSession(i)
    /\ UNCHANGED <<browser, isOpen, req, up, clocks, over, events, closed>>

\* Redis fails as the session is looked for, which reads as none being there; or
\* any later step does, the new session stored or not, and the old one kept.
HandleFails(i) ==
    /\ Counted
    /\ \/ calls[i].st = "asked" /\ up /\ Refuse(i, "over") /\ UNCHANGED sessions
       \/ calls[i].st \in {"verified", "created"} /\ Refuse(i, "transient") /\ UNCHANGED sessions
       \/ calls[i].st = "verified" /\ Refuse(i, "transient") /\ StoreSession
    /\ UNCHANGED <<browser, isOpen, req, up, clocks, over, history>>

\* The answer to a refresh is lost, and the server carries on.
LoseAnswer(i) ==
    /\ calls[i].by # None /\ Counted
    /\ calls' = [calls EXCEPT ![i].by = None]
    /\ unheard' = IF calls[i].st = "ok" THEN unheard \cup {calls[i].old} ELSE unheard
    /\ RefreshNotAnswered(calls[i].by)
    /\ UNCHANGED <<server, clocks, over, closed>>

\* An answer to nobody.
Dropped(i) ==
    /\ calls[i].by = None /\ IsAnswered(calls[i])
    /\ calls' = RemoveAt(calls, i)
    /\ UNCHANGED <<browser, isOpen, req, server, clocks, over, events, history>>

Reload(t) ==
    /\ Counted
    /\ Leave(t, calls)
    /\ UNCHANGED <<token, page, server, clocks, over, closed>>

Outage ==
    /\ \/ up /\ up' = FALSE /\ Counted
       \/ ~up /\ up' = TRUE /\ UNCHANGED events
    /\ UNCHANGED <<browser, isOpen, req, calls, sessions, clocks, over, history>>

-----------------------------------------------------------------------------
(* Time, and the rest of the world.                                        *)

\* The two clocks are not the same.
TokenExpires ==
    /\ \E s \in 1..MaxExpiring :
          /\ s <= last
          /\ \/ s \notin expired /\ expired' = expired \cup {s} /\ UNCHANGED seen
             \/ s \notin seen /\ seen' = seen \cup {s} /\ UNCHANGED expired
    /\ UNCHANGED <<browser, isOpen, req, calls, server, over, events, history>>

\* DeleteAllSessions from another browser, or a session's own end in redis; the
\* deadline of the login.
EndSessions ==
    /\ Counted
    /\ \/ \E S \in {alive} \cup {{s} : s \in alive} :
             alive' = alive \ S /\ closed' = closed \cup S /\ UNCHANGED over
       \/ ~over /\ over' = TRUE /\ UNCHANGED <<alive, closed>>
    /\ UNCHANGED <<browser, isOpen, req, calls, up, last, clocks, unheard>>

-----------------------------------------------------------------------------
Init ==
    /\ token = 1 /\ cookie = 1
    /\ page = [t \in Tab |-> "dashboard"]
    /\ isOpen = [t \in Tab |-> FALSE]
    /\ req = [r \in Req |-> At("new")]
    /\ calls = <<>>
    /\ alive = {1} /\ last = 1
    /\ expired = {} /\ seen = {} /\ up = TRUE /\ over = FALSE
    /\ events = 0
    /\ closed = {} /\ unheard = {}

Receive(r) == ReceiveAnswer(r) \/ ReceiveInvalid(r) \/ ReceiveExpired(r)

RefreshAnswered(i) == RefreshOk(i) \/ RefreshOver(i) \/ RefreshTransient(i)

RequestStep(r) == Serve(r) \/ Unanswered(r) \/ Receive(r) \/ RetryRefresh(r)

CallStep == \E i \in DOMAIN calls : HandleRefresh(i) \/ RefreshAnswered(i) \/ Dropped(i)

Fault ==
    \/ \E r \in Req : ServeFails(r)
    \/ \E i \in DOMAIN calls : HandleFails(i) \/ LoseAnswer(i)
    \/ \E t \in Tab : Reload(t)
    \/ Outage

Next ==
    \/ \E r \in Req : Send(r) \/ RequestStep(r)
    \/ CallStep
    \/ \E t \in Tab : SignIn(t)
    \/ Fault
    \/ TokenExpires
    \/ EndSessions

Spec == Init /\ [][Next]_vars

\* The server answers or the connection ends, and the browser runs its callbacks.
Fairness == WF_vars(CallStep) /\ WF_vars(\E r \in Req : RequestStep(r))

FairSpec == Spec /\ Fairness

-----------------------------------------------------------------------------
TypeOK ==
    /\ {token, cookie, last} \subseteq Nat
    /\ page \in [Tab -> {"dashboard", "signedOut", "loggedOut"}]
    /\ isOpen \in [Tab -> BOOLEAN]
    /\ req \in [Req -> Request]
    /\ \A r \in Req : req[r].tries <= Retries
    /\ calls \in Seq(Call)
    /\ {alive, expired, seen, closed, unheard} \subseteq SUBSET (1..last)
    /\ {up, over} \subseteq BOOLEAN
    /\ events \in 0..MaxEvents

\* Of a tab's requests one at most runs a refresh, and none waits for a refresh
\* that nobody runs: the queue is open exactly while one does. Answers arrive in
\* any order, and each finds the queue open or opens it.
OneRefreshPerTab ==
    \A t \in Tab :
       LET Refreshing == {r \in OfTab(t) : req[r].st = "refreshing"}
       IN  IF isOpen[t]
           THEN \E r \in Refreshing : Refreshing = {r}
           ELSE Refreshing = {} /\ Queue(t) = {}

\* The session of the stored token is in redis, unless it was ended on purpose,
\* or the answer that replaces the token is on its way, or was lost. So however
\* the tabs' refreshes and the server's steps interleave, and whichever step
\* fails, the dashboard is not left with a token of a session that is no more.
StoredTokenLives ==
    \/ token = 0
    \/ token \in alive \cup closed \cup unheard
    \/ \E i \in DOMAIN calls : calls[i].by # None /\ calls[i].st = "ok" /\ calls[i].old = token

\* Every request that was made (each is made once) gets an answer, or is gone
\* with its page: none waits in a queue, or for a retry, for good.
EveryRequestEnds ==
    []<>(\A r \in Req : req[r].st \in {"new", "settled", "gone"})

\* A tab is sent to the sign-in page only when the session is over: the server
\* would no longer renew it (the comment in auth.interceptors.ts).
SignOutOnlyWhenOver ==
    [][\A t \in Tab : page[t] = "dashboard" /\ page'[t] = "signedOut" => over \/ cookie \notin alive]_vars
=============================================================================
